---------------------------- MODULE MC_EventBus ----------------------------
(* EventBus for TLC: one page whose polls may overlap, and a second tab.   *)
EXTENDS EventBus

CONSTANTS p1, p2

Flights == [p \in Pages |-> IF p = p1 THEN 2 ELSE 1]

\* Two events that fit into a frame together, and one that is too large alone.
BytesOf == <<1, 1, 3>>
=============================================================================
