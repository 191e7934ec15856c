----------------------------- MODULE SerialCalls -----------------------------
(***************************************************************************)
(* What send_command (rust/src/atclient.rs) promises the tasks that call   *)
(* it, without a modem, a connection or a read loop: calls wait for their  *)
(* turn, one of them at a time talks to the modem, and each ends once,     *)
(* with an answer, without having been sent, or without its answer.        *)
(* AtChannel implements it.                                                *)
(***************************************************************************)
EXTENDS Integers

CONSTANTS
    Callers,        \* the tasks that call send_command
    MaxCalls        \* bound: calls in a behaviour

VARIABLES
    stage,          \* per caller: "idle", "asking" for its turn or "talking"
    call,           \* per caller: the number of its call, 0: none
    calls,          \* calls made so far
    result          \* per call: how it ended

vars == <<stage, call, calls, result>>

Results == {"ok", "unsent", "givenUp"}

Init ==
    /\ stage = [s \in Callers |-> "idle"]
    /\ call = [s \in Callers |-> 0]
    /\ calls = 0
    /\ result = [c \in 1..MaxCalls |-> "none"]

\* send_command is called.
Ask(s) ==
    /\ stage[s] = "idle" /\ calls < MaxCalls
    /\ calls' = calls + 1
    /\ call' = [call EXCEPT ![s] = calls + 1]
    /\ stage' = [stage EXCEPT ![s] = "asking"]
    /\ UNCHANGED result

\* The caller's turn has come: cmd_mu is its own.
Begin(s) ==
    /\ stage[s] = "asking"
    /\ \A t \in Callers : stage[t] # "talking"
    /\ stage' = [stage EXCEPT ![s] = "talking"]
    /\ UNCHANGED <<call, calls, result>>

\* The call ends. Whoever has not had its turn has not sent anything.
End(s) ==
    /\ stage[s] # "idle"
    /\ \E how \in Results :
          /\ how = "unsent" \/ stage[s] = "talking"
          /\ result' = [result EXCEPT ![call[s]] = how]
    /\ stage' = [stage EXCEPT ![s] = "idle"]
    /\ call' = [call EXCEPT ![s] = 0]
    /\ UNCHANGED calls

Next == \E s \in Callers : Ask(s) \/ Begin(s) \/ End(s)

Spec == Init /\ [][Next]_vars

-----------------------------------------------------------------------------
(* Properties                                                              *)

TypeOK ==
    /\ stage \in [Callers -> {"idle", "asking", "talking"}]
    /\ call \in [Callers -> 0..MaxCalls]
    /\ calls \in 0..MaxCalls
    /\ result \in [1..MaxCalls -> Results \cup {"none"}]

\* Two callers never talk to the modem at once: the answers on the one line
\* could not be told apart.
OneAtATime ==
    \A s, t \in Callers : stage[s] = "talking" /\ stage[t] = "talking" => s = t

\* A call under way has a number of its own and no result yet, and a number
\* that has not been given has none either.
Open ==
    /\ \A s \in Callers : stage[s] # "idle" =>
          call[s] \in 1..calls /\ result[call[s]] = "none"
    /\ \A s, t \in Callers :
          stage[s] # "idle" /\ stage[t] # "idle" /\ call[s] = call[t] => s = t
    /\ \A c \in 1..MaxCalls : c > calls => result[c] = "none"

CallsInv == TypeOK /\ OneAtATime /\ Open

\* No step ends a call a second time.
EndsOnce ==
    \A c \in 1..MaxCalls : result[c] # "none" => result'[c] = result[c]
=============================================================================
