------------------------------- MODULE SimWatch -------------------------------
(***************************************************************************)
(* The status card on top of every page (mt5700.js, renderConnectionBar):  *)
(* what it shows of the connection and of the SIM, and when it has the     *)
(* service restarted. The SIM is read every 15 s, whenever the service     *)
(* comes online, and after a restart; reads overlap, and each is tried     *)
(* twice. The SIM codes are those of parse.js.                             *)
(***************************************************************************)
EXTENDS Naturals

CONSTANTS
    Threshold,      \* failures in a row before a restart
    CoolDown,       \* rounds of the timer between two restarts
    MaxChanges      \* bound: changes of the service, of the SIM, of the connection

\* SIM_STATUS, by what becomes of it: SIM_STATUS_WARN, or not in the table.
Codes == {"ready", "locked", "unlisted"}

VARIABLES
    state,          \* connection as the client tells it
    text,           \* the line of the card
    chip,           \* the SIM box
    reads,          \* AT^SIMSQ? on the way: attempts 1 and 2, equal ones as one
    simFail,        \* failures in a row
    cool,           \* rounds until a restart may be asked for again
    healing         \* selfHeal is under way

VARIABLES           \* the router and bounds
    sim,            \* what the modem answers: a code, "odd", or "silent"
    rest,           \* history: rounds of the cool-down that are left, whatever the card
    changes

vars == <<state, text, chip, reads, simFail, cool, healing, sim, rest, changes>>

States == {"connected", "connecting", "disconnected"}

Init ==
    /\ state = "connecting" /\ text = "connecting" /\ chip = "none"
    /\ reads = {} /\ simFail = 0 /\ cool = 0 /\ healing = FALSE
    /\ sim \in Codes \union {"odd", "silent"} /\ rest = 0 /\ changes = MaxChanges

\* simIsWarn: what the table does not list is warned of.
IsWarn(code) == code # "ready"

Shows(code) == IF IsWarn(code) THEN "warning" ELSE "fine"

\* The connection changes: apply. Only a service that is online has a SIM.
Apply(s) ==
    /\ changes > 0 /\ changes' = changes - 1
    /\ s # state /\ state' = s
    /\ text' = [connected |-> "online", connecting |-> "connecting", disconnected |-> "offline"][s]
    /\ IF s = "connected" THEN reads' = reads \union {1} /\ UNCHANGED chip
       ELSE chip' = "none" /\ UNCHANGED reads
    /\ UNCHANGED <<simFail, cool, healing, sim, rest>>

\* The timer: refreshSimStatus.
Tick ==
    /\ cool' = IF cool = 0 THEN 0 ELSE cool - 1
    /\ rest' = IF rest = 0 THEN 0 ELSE rest - 1
    /\ IF state = "connected" THEN reads' = reads \union {1} /\ UNCHANGED chip
       ELSE chip' = "none" /\ UNCHANGED reads
    /\ UNCHANGED <<state, text, simFail, healing, sim, changes>>

\* Read and understood: shortLabel and its colour.
Answered(n) ==
    /\ n \in reads /\ sim \in Codes
    /\ reads' = reads \ {n} /\ simFail' = 0 /\ chip' = Shows(sim)
    /\ UNCHANGED <<state, text, cool, healing, sim, rest, changes>>

\* Answered, and not understood: no trouble of the channel.
Odd(n) ==
    /\ n \in reads /\ sim = "odd"
    /\ reads' = reads \ {n} /\ simFail' = 0 /\ chip' = "unknown"
    /\ UNCHANGED <<state, text, cool, healing, sim, rest, changes>>

\* A first attempt without an answer is made again after 600 ms; the client
\* queues, and an older read ends first.
Retry ==
    /\ 1 \in reads /\ 2 \notin reads /\ sim = "silent"
    /\ reads' = (reads \ {1}) \union {2}
    /\ UNCHANGED <<state, text, chip, simFail, cool, healing, sim, rest, changes>>

\* Mutant: the count starts again with every failure.
CountsOne(n) == 1

\* Failures are counted up to what matters.
Counted(n) == IF n < Threshold THEN n + 1 ELSE n

\* maybeSelfHeal
Heals == Counted(simFail) >= Threshold /\ cool = 0

Failed ==
    /\ 2 \in reads /\ sim = "silent"
    /\ reads' = reads \ {2} /\ simFail' = Counted(simFail) /\ chip' = "failed"
    /\ IF Heals THEN healing' = TRUE /\ cool' = CoolDown /\ rest' = CoolDown
       ELSE UNCHANGED <<healing, cool, rest>>
    /\ UNCHANGED <<state, text, sim, changes>>

\* selfHeal ends: after 3 s the SIM is read again if it succeeded.
Healed ==
    /\ healing /\ healing' = FALSE
    /\ \/ /\ sim' = IF sim = "silent" THEN "ready" ELSE sim
          /\ IF state = "connected" THEN reads' = reads \union {1} /\ UNCHANGED chip
             ELSE chip' = "none" /\ UNCHANGED reads
       \/ UNCHANGED <<sim, reads, chip>>
    /\ UNCHANGED <<state, text, simFail, cool, rest, changes>>

SimChanges(s) ==
    /\ changes > 0 /\ changes' = changes - 1
    /\ s # sim /\ sim' = s
    /\ UNCHANGED <<state, text, chip, reads, simFail, cool, healing, rest>>

\* Another page is opened: it has a card of its own, with counts of its own.
Reopen ==
    /\ changes > 0 /\ changes' = changes - 1
    /\ state' = "connecting" /\ text' = "connecting" /\ chip' = "none"
    /\ reads' = {} /\ simFail' = 0 /\ cool' = 0
    /\ UNCHANGED <<healing, sim, rest>>

Moves == Retry \/ Failed \/ Healed \/ \E n \in {1, 2} : Answered(n) \/ Odd(n)

Next ==
    \/ \E s \in States : Apply(s)
    \/ \E s \in Codes \union {"odd", "silent"} : SimChanges(s)
    \/ Reopen \/ Tick \/ Moves

\* Answers and time-outs come, and so does the timer.
Spec == Init /\ [][Next]_vars /\ WF_vars(Moves) /\ WF_vars(Tick)

-----------------------------------------------------------------------------
(* Properties                                                              *)

SimWatchTypeOK ==
    /\ state \in States /\ reads \subseteq {1, 2} /\ simFail \in 0..Threshold /\ cool \in 0..CoolDown
    /\ chip \in {"none", "fine", "warning", "unknown", "failed"}

\* A service that is online and whose modem stays silent is restarted in the
\* end, whatever overlaps and however often the connection is announced.
Unsettled == state = "connected" /\ sim = "silent" /\ ~healing
RestartsTheSilent == Unsettled ~> ~Unsettled

\* Two restarts are a cool-down apart, also if pages are changed in between.
\* (The code breaks this: the counts are the card's, not the module's.)
RestartsApart == ~healing /\ healing' => rest = 0

\* Offline, the card shows no SIM. (The code breaks this: a read that was on its
\* way when the connection went shows its result.)
NoSimOffline == state # "connected" => chip = "none"
=============================================================================
