------------------------------ MODULE EventBus ------------------------------
(***************************************************************************)
(* The events of the service and the pages that poll them: EventBus in     *)
(* rust/src/rpcserver.rs, a ring of numbered events read with a cursor,    *)
(* and ATClient in resources/at-webserver/rpc.js, which keeps the cursor,  *)
(* stores it in localStorage for all tabs and polls every 1.5 s whether or *)
(* not the last poll has come back.                                        *)
(*                                                                         *)
(* An event is its number, and Size its length. Requests go through rpcd   *)
(* on connections of their own, so they are answered and come back in any  *)
(* order.                                                                  *)
(***************************************************************************)
EXTENDS Integers, SequencesExt, FiniteSetsExt

CONSTANTS
    Pages,
    Cap,            \* events the ring holds (500)
    Size,           \* bytes of the event of each number
    Budget,         \* bytes of a frame (EVENT_FRAME_BUDGET)
    MaxSeq,         \* bound: events of one life of the service
    MaxFlight,      \* bound, per page: its polls under way at once
    MaxTrouble      \* bound: restarts, reloads, failed polls and time-outs

ASSUME BusAssumption == /\ Cap \in Nat \ {0} /\ Budget \in Nat
                        /\ Size \in [1..MaxSeq -> Nat \ {0}]
ASSUME BoundAssumption == /\ MaxSeq \in Nat /\ MaxTrouble \in Nat
                          /\ MaxFlight \in [Pages -> Nat]

VARIABLES
    seq,            \* EventBus.seq
    q,              \* EventBus.events
    store,          \* mt5700_events_seq in localStorage
    cursor,         \* per page: eventSeq
    first,          \* per page: firstPoll
    up,             \* per page: connected
    flight          \* per page: its polls under way

VARIABLES           \* history
    life,           \* restarts of the service so far
    start,          \* per page: the cursor its subscribers begin at
    seen,           \* per page: events handed to its subscribers, or passed
                    \* over by a first poll
    trouble         \* what is left of MaxTrouble

busVars  == <<seq, q>>
pageVars == <<cursor, first, up>>
histVars == <<life, start, seen, trouble>>
vars == <<busVars, store, pageVars, flight, histVars>>

Init ==
    /\ seq = 0 /\ q = <<>> /\ store = 0
    /\ cursor = [p \in Pages |-> 0]
    /\ first = [p \in Pages |-> TRUE]
    /\ up = [p \in Pages |-> TRUE]
    /\ flight = [p \in Pages |-> <<>>]
    /\ life = 0
    /\ start = [p \in Pages |-> 0]
    /\ seen = [p \in Pages |-> {}]
    /\ trouble = MaxTrouble

-----------------------------------------------------------------------------
(* The service                                                             *)

\* Mutant: the ring keeps one event more.
TrimmedLate(all) == IF Len(all) > Cap + 1 THEN Tail(all) ELSE all

\* The oldest event makes room.
Trimmed(all) == IF Len(all) > Cap THEN Tail(all) ELSE all

\* push: the number is taken and the event queued under one lock.
Push ==
    /\ seq < MaxSeq
    /\ seq' = seq + 1
    /\ q' = Trimmed(Append(q, seq + 1))
    /\ UNCHANGED <<store, pageVars, flight, histVars>>

Held == {q[i] : i \in 1..Len(q)}

\* The events after the cursor, up to the n-th.
Upto(since, n) == {m \in Held : since < m /\ m <= n}

Bytes(events) == MapThenSumSet(LAMBDA m : Size[m], events)

\* Mutant: an event larger than a frame is held back.
FitsStrictly(since, n) == Bytes(Upto(since, n)) <= Budget

\* The first event is let through whatever its size.
Fits(since, n) ==
    Upto(since, n) = {n} \/ Bytes(Upto(since, n)) <= Budget

\* The events after the cursor that go into one frame.
Frame(since) ==
    {n \in Held : since < n /\ \A m \in Upto(since, n) : Fits(since, m)}

\* Mutant: the frame names the latest number.
Newest(since, frame, n) == n = IF since > seq THEN since ELSE seq

\* The number a frame names: that of its last event, or the cursor it was
\* asked with.
Reached(since, frame, n) ==
    /\ n \in frame \cup {since}
    /\ \A m \in frame : m <= n

NotYet == -1
NoSeq  == -2

\* The events method answers a poll.
Answer(p) ==
    \E i \in 1..Len(flight[p]), n \in 0..MaxSeq :
       /\ flight[p][i].to = NotYet
       /\ LET since == flight[p][i].since IN
          /\ Reached(since, Frame(since), n)
          /\ flight' = [flight EXCEPT ![p][i] =
                           [since |-> since, to |-> n, got |-> Frame(since),
                            life |-> life]]
       /\ UNCHANGED <<busVars, store, pageVars, histVars>>

\* The proxy does not reach the service: it answers without a number.
Unreached(p) ==
    /\ trouble > 0
    /\ trouble' = trouble - 1
    /\ \E i \in 1..Len(flight[p]) :
          /\ flight[p][i].to = NotYet
          /\ flight' = [flight EXCEPT ![p][i].to = NoSeq]
    /\ UNCHANGED <<busVars, store, pageVars, life, start, seen>>

\* The service is restarted: numbers begin again.
Restart ==
    /\ trouble > 0
    /\ trouble' = trouble - 1
    /\ seq' = 0 /\ q' = <<>>
    /\ life' = life + 1
    /\ UNCHANGED <<store, pageVars, flight, start, seen>>

-----------------------------------------------------------------------------
(* The page                                                                *)

\* The timer of the page fires.
Poll(p) ==
    /\ up[p] /\ Len(flight[p]) < MaxFlight[p]
    /\ flight' = [flight EXCEPT ![p] =
                     Append(@, [since |-> cursor[p], to |-> NotYet, got |-> {}, life |-> life])]
    /\ UNCHANGED <<busVars, store, pageVars, histVars>>

\* The poll at position i is over.
Over(p, i) == flight' = [flight EXCEPT ![p] = RemoveAt(@, i)]

\* An answer comes in: the cursor moves to the number it names, if any, and
\* the events are handed out, or passed over by the first poll after a connect.
\* A page that has given the connection up takes no notice.
Receive(p) ==
    \E i \in 1..Len(flight[p]) :
       LET poll  == flight[p][i]
           moved == IF poll.to = NoSeq THEN cursor[p] ELSE poll.to IN
       /\ poll.to # NotYet
       /\ Over(p, i)
       /\ IF up[p]
          THEN /\ cursor' = [cursor EXCEPT ![p] = moved]
               /\ store' = moved
               /\ first' = [first EXCEPT ![p] = FALSE]
               /\ seen' = [seen EXCEPT ![p] = @ \cup poll.got]
          ELSE UNCHANGED <<cursor, store, first, seen>>
       /\ UNCHANGED <<busVars, up, life, start, trouble>>

\* A poll fails, and the page gives the connection up, or it is not back
\* after 6 s, and the page lets it go.
PollFails(p) ==
    /\ trouble > 0
    /\ trouble' = trouble - 1
    /\ \E i \in 1..Len(flight[p]) : Over(p, i)
    /\ up' = up \/ up' = [up EXCEPT ![p] = FALSE]
    /\ UNCHANGED <<busVars, store, cursor, first, life, start, seen>>

\* The page connects again after 3 s.
Reconnect(p) ==
    /\ ~up[p]
    /\ up' = [up EXCEPT ![p] = TRUE]
    /\ first' = [first EXCEPT ![p] = TRUE]
    /\ UNCHANGED <<busVars, store, cursor, flight, histVars>>

\* The page is loaded anew: it goes on from the cursor in localStorage, which
\* the other tabs write too.
Reload(p) ==
    /\ trouble > 0
    /\ trouble' = trouble - 1
    /\ cursor' = [cursor EXCEPT ![p] = store]
    /\ start' = [start EXCEPT ![p] = store]
    /\ first' = [first EXCEPT ![p] = TRUE]
    /\ up' = [up EXCEPT ![p] = TRUE]
    /\ flight' = [flight EXCEPT ![p] = <<>>]
    /\ seen' = [seen EXCEPT ![p] = {}]
    /\ UNCHANGED <<busVars, store, life>>

-----------------------------------------------------------------------------

Next ==
    \/ Push
    \/ Restart
    \/ \E p \in Pages : \/ Answer(p) \/ Unreached(p) \/ Poll(p) \/ Receive(p)
                        \/ PollFails(p) \/ Reconnect(p) \/ Reload(p)

Spec == Init /\ [][Next]_vars

\* The service answers, rpcd brings the answers back, timers fire.
FairSpec ==
    /\ Spec
    /\ \A p \in Pages : /\ WF_vars(Answer(p)) /\ WF_vars(Receive(p))
                        /\ WF_vars(Poll(p)) /\ WF_vars(Reconnect(p))

-----------------------------------------------------------------------------
(* Properties                                                              *)

Number == 0..MaxSeq

PollType == [since : Number, to : Number \cup {NotYet, NoSeq}, got : SUBSET Number,
             life : 0..MaxTrouble]

\* Types: the ring holds at most Cap events, numbered without a gap up to the
\* latest, and every cursor is a number.
TypeOK ==
    /\ seq \in Number
    /\ q \in Seq(Number) /\ Len(q) <= Cap
    /\ \A i \in 1..Len(q) : q[i] = seq - Len(q) + i
    /\ store \in Number /\ cursor \in [Pages -> Number]
    /\ first \in [Pages -> BOOLEAN] /\ up \in [Pages -> BOOLEAN]
    /\ flight \in [Pages -> Seq(PollType)]
    /\ start \in [Pages -> Number]
    /\ seen \in [Pages -> SUBSET Number]
    /\ life \in Nat /\ trouble \in Nat /\ life + trouble <= MaxTrouble

\* Every event in the ring that lies between where the page began and number n
\* has been in an answer the page took.
Heard(p, n) == \A m \in Held : start[p] < m /\ m <= n => m \in seen[p]

\* As long as the service has not been restarted, no event in the ring lies
\* behind a page's cursor without having been in an answer the page took:
\* frames that are cut, answers that overtake each other or name no number,
\* time-outs and reloads lose nothing (push and since in rpcserver.rs).
NoEventPassedOver == life = 0 => \A p \in Pages : Heard(p, cursor[p])

\* Why: no number is named before its event is in the ring, a poll begins where
\* the page has heard everything, and its answer holds all it passes.
PollSound(p, poll) ==
    /\ poll.since <= seq /\ Heard(p, poll.since)
    /\ poll.to \in Nat =>
          /\ poll.to <= seq
          /\ \A m \in Held : poll.since < m /\ m <= poll.to => m \in poll.got

PageSound(p) ==
    /\ cursor[p] <= seq /\ Heard(p, cursor[p])
    /\ \A i \in 1..Len(flight[p]) : PollSound(p, flight[p][i])

BusInv == life = 0 => store <= seq /\ \A p \in Pages : PageSound(p)

\* Every page catches up with the ring, past an event that is larger than a
\* frame, behind time-outs, reconnects and answers in the wrong order (since).
CatchesUp == \A p \in Pages : []<>(cursor[p] >= seq)

-----------------------------------------------------------------------------
(* What the comments say and the code does not do                          *)

\* The constructor of ATClient: when a restart sets the numbers back, the next
\* answer brings the page's cursor back too: it names a number that the
\* service, restarted or not, has given to an event.
CursorHeals ==
    \A p \in Pages : \A i \in 1..Len(flight[p]) :
        flight[p][i].to # NotYet /\ flight[p][i].life = life
            => flight[p][i].to <= seq
=============================================================================
