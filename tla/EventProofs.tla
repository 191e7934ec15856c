---------------------------- MODULE EventProofs ----------------------------
(***************************************************************************)
(* Proofs about the two halves of the way of an event: EventBus, from the  *)
(* service to the pages, and Inbox, from the modem to the service.         *)
(***************************************************************************)
EXTENDS EventBus, Inbox, FiniteSetTheorems, SequenceTheorems, TLAPS

-----------------------------------------------------------------------------
(* EventBus: no event is passed over, for any number of pages, of polls    *)
(* under way and of events, whatever their sizes: first the types, then    *)
(* BusInv.                                                                 *)

\* Taking the i-th element out of a sequence leaves nothing but the others.
LEMMA TakeOut ==
  ASSUME NEW S, NEW s \in Seq(S), NEW i \in 1..Len(s)
  PROVE  /\ RemoveAt(s, i) \in Seq(S)
         /\ \A j \in 1..Len(RemoveAt(s, i)) :
               \E k \in 1..Len(s) : RemoveAt(s, i)[j] = s[k]
<1> DEFINE a == SubSeq(s, 1, i - 1)
           b == SubSeq(s, i + 1, Len(s))
<1>1. a \in Seq(S) /\ Len(a) = i - 1 /\ \A j \in 1..(i - 1) : a[j] = s[j]
  OBVIOUS
<1>2. b \in Seq(S) /\ Len(b) = Len(s) - i
      /\ \A j \in 1..(Len(s) - i) : b[j] = s[i + j]
  OBVIOUS
<1> HIDE DEF a, b
<1>3. a \o b \in Seq(S)
  BY <1>1, <1>2
<1>4. ASSUME NEW j \in 1..Len(a \o b)
      PROVE  \E k \in 1..Len(s) : (a \o b)[j] = s[k]
  <2>1. CASE j <= i - 1
    BY <1>1, <1>2, <2>1
  <2>2. CASE j > i - 1
    <3>1. (a \o b)[j] = b[j - (i - 1)] /\ j - (i - 1) \in 1..(Len(s) - i)
      BY <1>1, <1>2, <2>2
    <3>2. b[j - (i - 1)] = s[i + (j - (i - 1))]
      BY <1>2, <3>1
    <3>3. i + (j - (i - 1)) = j + 1 /\ j + 1 \in 1..Len(s)
      BY <3>1
    <3>4. QED BY <3>1, <3>2, <3>3
  <2>3. QED BY <2>1, <2>2
<1>5. RemoveAt(s, i) = a \o b
  BY DEF a, b, RemoveAt
<1>6. QED BY <1>3, <1>4, <1>5

-----------------------------------------------------------------------------
(* Types                                                                   *)

LEMMA InitType == Init => TypeOK
BY BusAssumption, BoundAssumption DEF Init, TypeOK, Number

\* The ring stays a run of numbers up to the latest.
LEMMA PushedRing ==
  ASSUME TypeOK, Push
  PROVE  /\ q' \in Seq(Number) /\ Len(q') <= Cap
         /\ \A i \in 1..Len(q') : q'[i] = seq' - Len(q') + i
<1> DEFINE all == Append(q, seq + 1)
<1>1. /\ seq \in Number /\ seq + 1 \in Number /\ Cap \in Nat \ {0}
      /\ q \in Seq(Number) /\ Len(q) <= Cap
      /\ \A i \in 1..Len(q) : q[i] = seq - Len(q) + i
  BY BusAssumption, BoundAssumption DEF TypeOK, Push, Number
<1>2. all \in Seq(Number) /\ Len(all) = Len(q) + 1
      /\ \A i \in 1..Len(all) : all[i] = seq + 1 - Len(all) + i
  BY <1>1 DEF Number
<1>3. q' = Trimmed(all) /\ seq' = seq + 1
  BY DEF Push
<1> HIDE DEF all
<1>4. CASE Len(all) > Cap
  <2>1. q' = Tail(all) /\ Len(q') = Len(all) - 1 /\ q' \in Seq(Number)
    BY <1>1, <1>2, <1>3, <1>4 DEF Trimmed
  <2>2. \A i \in 1..Len(q') : q'[i] = all[i + 1]
    BY <1>2, <2>1
  <2>3. QED BY <1>1, <1>2, <1>3, <2>1, <2>2 DEF Number
<1>5. CASE ~(Len(all) > Cap)
  <2>1. q' = all /\ Len(q') <= Cap
    BY <1>1, <1>2, <1>3, <1>5 DEF Trimmed
  <2>2. \A i \in 1..Len(q') : q'[i] = seq' - Len(q') + i
    BY <1>1, <1>2, <1>3, <2>1 DEF Number
  <2>3. QED BY <1>2, <2>1, <2>2
<1>6. QED BY <1>4, <1>5

LEMMA PagesType ==
  ASSUME TypeOK, NEW p \in Pages,
         \/ Poll(p) \/ Unreached(p) \/ Answer(p) \/ Receive(p)
         \/ PollFails(p) \/ Reconnect(p) \/ Reload(p)
  PROVE  TypeOK'
<1> USE DEF busVars, pageVars, histVars
<1>0. /\ flight \in [Pages -> Seq(PollType)] /\ cursor \in [Pages -> Number]
      /\ first \in [Pages -> BOOLEAN] /\ up \in [Pages -> BOOLEAN]
      /\ start \in [Pages -> Number] /\ seen \in [Pages -> SUBSET Number]
      /\ store \in Number /\ life \in 0..MaxTrouble
      /\ life \in Nat /\ trouble \in Nat /\ life + trouble <= MaxTrouble
      /\ MaxTrouble \in Nat /\ MaxSeq \in Nat
  BY BoundAssumption DEF TypeOK
<1>1. seq' = seq /\ q' = q /\ life' = life
  BY DEF Poll, Unreached, Answer, Receive, PollFails, Reconnect, Reload
<1>2. /\ life' \in Nat /\ trouble' \in Nat
      /\ life' + trouble' <= MaxTrouble
  BY <1>0, <1>1 DEF Poll, Unreached, Answer, Receive, PollFails, Reconnect, Reload
<1>3. flight' \in [Pages -> Seq(PollType)]
  <2>1. CASE Poll(p)
    <3>1. [since |-> cursor[p], to |-> NotYet, got |-> {}, life |-> life] \in PollType
      BY <1>0 DEF PollType
    <3>2. QED BY <1>0, <2>1, <3>1 DEF Poll
  <2>2. CASE Unreached(p)
    <3>1. PICK i \in 1..Len(flight[p]) : flight' = [flight EXCEPT ![p][i].to = NoSeq]
      BY <2>2 DEF Unreached
    <3>2. flight[p][i] \in PollType
      BY <1>0
    <3>3. [flight[p][i] EXCEPT !.to = NoSeq] \in PollType
      BY <3>2 DEF PollType
    <3>4. [flight[p] EXCEPT ![i] = [flight[p][i] EXCEPT !.to = NoSeq]] \in Seq(PollType)
      BY <1>0, <3>3
    <3>5. QED BY <1>0, <3>1, <3>4
  <2>3. CASE Answer(p)
    <3>1. PICK i \in 1..Len(flight[p]), n \in 0..MaxSeq :
             flight' = [flight EXCEPT ![p][i] =
                          [since |-> flight[p][i].since, to |-> n,
                           got |-> Frame(flight[p][i].since), life |-> life]]
      BY <2>3 DEF Answer
    <3>2. flight[p][i].since \in Number
      <4>1. flight[p][i] \in PollType
        BY <1>0
      <4>2. QED BY <4>1 DEF PollType
    <3>3. Frame(flight[p][i].since) \subseteq Number
      BY DEF Frame, Held, TypeOK
    <3>4. [since |-> flight[p][i].since, to |-> n,
           got |-> Frame(flight[p][i].since), life |-> life] \in PollType
      BY <1>0, <3>2, <3>3 DEF PollType, Number
    <3>5. QED BY <1>0, <3>1, <3>4
  <2>4. CASE Receive(p) \/ PollFails(p)
    <3>1. PICK i \in 1..Len(flight[p]) : Over(p, i)
      BY <2>4 DEF Receive, PollFails
    <3>2. flight[p] \in Seq(PollType)
      BY <1>0
    <3>3. QED BY <1>0, <3>1, <3>2, TakeOut DEF Over
  <2>5. CASE Reconnect(p) \/ Reload(p)
    <3>1. <<>> \in Seq(PollType)
      OBVIOUS
    <3>2. flight' = flight \/ flight' = [flight EXCEPT ![p] = <<>>]
      BY <2>5 DEF Reconnect, Reload
    <3>3. QED BY <1>0, <3>1, <3>2
  <2>6. QED BY <2>1, <2>2, <2>3, <2>4, <2>5
<1>4. up' \in [Pages -> BOOLEAN]
  BY <1>0 DEF Poll, Unreached, Answer, Receive, PollFails, Reconnect, Reload
<1>5. /\ cursor' \in [Pages -> Number] /\ store' \in Number
      /\ first' \in [Pages -> BOOLEAN]
      /\ start' \in [Pages -> Number] /\ seen' \in [Pages -> SUBSET Number]
  <2>1. CASE Receive(p)
    <3>1. PICK i \in 1..Len(flight[p]) :
             /\ flight[p][i].to # NotYet
             /\ IF up[p]
                THEN /\ cursor' = [cursor EXCEPT ![p] =
                                     IF flight[p][i].to = NoSeq THEN cursor[p]
                                     ELSE flight[p][i].to]
                     /\ store' = IF flight[p][i].to = NoSeq THEN cursor[p]
                                 ELSE flight[p][i].to
                     /\ first' = [first EXCEPT ![p] = FALSE]
                     /\ seen' = [seen EXCEPT ![p] = @ \cup flight[p][i].got]
                ELSE UNCHANGED <<cursor, store, first, seen>>
      BY <2>1 DEF Receive
    <3>2. /\ flight[p][i].to \in Number \cup {NotYet, NoSeq}
          /\ flight[p][i].got \subseteq Number
      <4>1. flight[p][i] \in PollType
        BY <1>0
      <4>2. QED BY <4>1 DEF PollType
    <3> DEFINE to == IF flight[p][i].to = NoSeq THEN cursor[p] ELSE flight[p][i].to
               got == flight[p][i].got
    <3>3. to \in Number /\ got \subseteq Number
      BY <1>0, <3>1, <3>2
    <3>4. \/ /\ cursor' = [cursor EXCEPT ![p] = to] /\ store' = to
             /\ first' = [first EXCEPT ![p] = FALSE]
             /\ seen' = [seen EXCEPT ![p] = @ \cup got]
          \/ UNCHANGED <<cursor, store, first, seen>>
      BY <3>1
    <3>5. start' = start
      BY <2>1 DEF Receive
    <3> HIDE DEF to, got
    <3>6. QED BY <1>0, <3>3, <3>4, <3>5
  <2>2. CASE Reload(p)
    BY <1>0, <2>2 DEF Reload
  <2>3. CASE Poll(p) \/ Unreached(p) \/ Answer(p) \/ PollFails(p) \/ Reconnect(p)
    BY <1>0, <2>3 DEF Poll, Unreached, Answer, PollFails, Reconnect
  <2>4. QED BY <2>1, <2>2, <2>3
<1>6. QED BY <1>1, <1>2, <1>3, <1>4, <1>5 DEF TypeOK

LEMMA NextType == TypeOK /\ [Next]_vars => TypeOK'
<1> SUFFICES ASSUME TypeOK, [Next]_vars PROVE TypeOK'
  OBVIOUS
<1> USE DEF busVars, pageVars, histVars
<1>1. CASE Push
  <2>1. seq' \in Number
    BY <1>1, BoundAssumption DEF Push, TypeOK, Number
  <2>2. QED BY <1>1, <2>1, PushedRing DEF Push, TypeOK
<1>2. CASE Restart
  <2>1. /\ life' \in Nat /\ trouble' \in Nat
        /\ life' + trouble' <= MaxTrouble
    BY <1>2, BoundAssumption DEF Restart, TypeOK
  <2>2. /\ seq' \in Number /\ q' \in Seq(Number) /\ Len(q') <= Cap
        /\ \A i \in 1..Len(q') : q'[i] = seq' - Len(q') + i
    BY <1>2, BoundAssumption, BusAssumption DEF Restart, Number
  <2>3. QED BY <1>2, <2>1, <2>2 DEF Restart, TypeOK
<1>3. ASSUME NEW p \in Pages,
             \/ Poll(p) \/ Unreached(p) \/ Answer(p) \/ Receive(p)
             \/ PollFails(p) \/ Reconnect(p) \/ Reload(p)
      PROVE  TypeOK'
  BY <1>3, PagesType
<1>4. CASE UNCHANGED vars
  BY <1>4 DEF vars, TypeOK
<1>5. QED BY <1>1, <1>2, <1>3, <1>4 DEF Next

\* The ring is bounded and numbered without a gap, every cursor is a number.
THEOREM TypeCorrect == Spec => []TypeOK
BY InitType, NextType, PTL DEF Spec

-----------------------------------------------------------------------------
(* No event is passed over                                                 *)

\* A ring numbered without a gap holds the latest numbers.
LEMMA RingIsRange ==
  ASSUME NEW n \in Nat, NEW s \in Seq(Number),
         \A i \in 1..Len(s) : s[i] = n - Len(s) + i
  PROVE  {s[i] : i \in 1..Len(s)} = (n - Len(s) + 1)..n
<1>1. ASSUME NEW m \in (n - Len(s) + 1)..n
      PROVE  \E i \in 1..Len(s) : s[i] = m
  <2>1. m - (n - Len(s)) \in 1..Len(s) /\ s[m - (n - Len(s))] = m
    OBVIOUS
  <2>2. QED BY <2>1
<1>2. {s[i] : i \in 1..Len(s)} \subseteq (n - Len(s) + 1)..n
  OBVIOUS
<1>3. QED BY <1>1, <1>2

LEMMA HeldIsGiven ==
  ASSUME TypeOK
  PROVE  /\ Held = (seq - Len(q) + 1)..seq
         /\ Held \subseteq Number
<1>1. /\ seq \in Nat /\ q \in Seq(Number)
      /\ \A i \in 1..Len(q) : q[i] = seq - Len(q) + i
  BY DEF TypeOK, Number
<1>2. Held \subseteq Number
  BY <1>1 DEF Held
<1>3. QED BY <1>1, <1>2, RingIsRange DEF Held

\* Every event after the cursor up to the number a frame names is in the frame.
LEMMA FrameIsWhole ==
  ASSUME TypeOK, NEW since \in Number, since <= seq, NEW n \in 0..MaxSeq,
         Reached(since, Frame(since), n)
  PROVE  /\ n <= seq
         /\ \A m \in Held : since < m /\ m <= n => m \in Frame(since)
<1>1. Held \subseteq Nat /\ (\A m \in Held : m <= seq) /\ seq \in Nat
  BY HeldIsGiven DEF TypeOK, Number
<1>2. CASE n = since
  <2>1. \A m \in Held : ~(since < m /\ m <= n)
    BY <1>1, <1>2 DEF Number
  <2>2. QED BY <1>2, <2>1
<1>3. CASE n \in Frame(since)
  <2>1. n \in Held /\ since < n /\ \A m \in Upto(since, n) : Fits(since, m)
    BY <1>3 DEF Frame
  <2>2. ASSUME NEW m \in Held, since < m, m <= n PROVE m \in Frame(since)
    <3>1. m \in Nat /\ n \in Nat
      BY <1>1, <2>2
    <3>2. \A k \in Upto(since, m) : k \in Nat /\ since < k /\ k <= n /\ k \in Held
      BY <1>1, <2>2, <3>1 DEF Upto
    <3>3. Upto(since, m) \subseteq Upto(since, n)
      BY <3>2 DEF Upto
    <3>4. QED BY <2>1, <2>2, <3>3 DEF Frame
  <2>3. QED BY <1>1, <2>1, <2>2
<1>4. QED BY <1>2, <1>3 DEF Reached

LEMMA PushKeeps ==
  ASSUME TypeOK, TypeOK', BusInv, Push
  PROVE  BusInv'
<1> SUFFICES ASSUME life' = 0
             PROVE  store' <= seq' /\ \A p \in Pages : PageSound(p)'
  BY DEF BusInv
<1>1. /\ UNCHANGED <<store, cursor, flight, life, start, seen>>
      /\ seq' = seq + 1 /\ seq \in Nat /\ life = 0
  BY DEF Push, TypeOK, Number, pageVars, histVars
<1>2. \A m \in Held' : m \in Held \/ m = seq + 1
  <2>1. Held = (seq - Len(q) + 1)..seq
    BY HeldIsGiven
  <2>2. Held' = (seq' - Len(q') + 1)..seq'
    <3>1. /\ seq' \in Nat /\ q' \in Seq(Number)
          /\ \A i \in 1..Len(q') : q'[i] = seq' - Len(q') + i
      BY DEF TypeOK, Number
    <3>2. Held' = {q'[i] : i \in 1..Len(q')}
      BY DEF Held
    <3>3. QED BY <3>1, <3>2, RingIsRange
  <2>3. Len(q') \in Nat /\ Len(q) \in Nat /\ Len(q') <= Len(q) + 1
    BY BusAssumption DEF Push, Trimmed, TypeOK
  <2>4. QED BY <1>1, <2>1, <2>2, <2>3
<1>3. store \in Nat /\ \A p \in Pages : cursor[p] \in Nat
  BY DEF TypeOK, Number
<1>4. ASSUME NEW p \in Pages, NEW n \in Nat, n <= seq, Heard(p, n)
      PROVE  Heard(p, n)'
  BY <1>1, <1>2, <1>4 DEF Heard
<1>5. ASSUME NEW p \in Pages, NEW i \in 1..Len(flight[p])
      PROVE  PollSound(p, flight[p][i])'
  <2> DEFINE poll == flight[p][i]
  <2>1. poll \in PollType
    BY DEF TypeOK
  <2>2. poll.since \in Nat
    BY <2>1 DEF PollType, Number
  <2>3. PollSound(p, poll)
    BY <1>1 DEF BusInv, PageSound
  <2>4. poll' = poll
    BY <1>1
  <2> HIDE DEF poll
  <2>5. poll.since <= seq' /\ Heard(p, poll.since)'
    BY <1>1, <1>4, <2>2, <2>3, <2>4 DEF PollSound
  <2>6. ASSUME poll.to \in Nat
        PROVE  /\ poll.to <= seq'
               /\ \A m \in Held' : poll.since < m /\ m <= poll.to => m \in poll.got
    BY <1>1, <1>2, <2>3, <2>6 DEF PollSound
  <2>7. PollSound(p, poll)'
    BY <2>4, <2>5, <2>6 DEF PollSound
  <2>8. QED BY <2>7 DEF poll
<1>6. \A p \in Pages : cursor'[p] <= seq' /\ Heard(p, cursor[p])'
  <2> SUFFICES ASSUME NEW p \in Pages
               PROVE  cursor'[p] <= seq' /\ Heard(p, cursor[p])'
    OBVIOUS
  <2>1. cursor[p] \in Nat /\ cursor[p] <= seq /\ Heard(p, cursor[p])
    BY <1>1, <1>3 DEF BusInv, PageSound
  <2>2. cursor'[p] = cursor[p]
    BY <1>1
  <2>3. \A m \in Held' : start'[p] < m /\ m <= cursor[p] => m \in seen'[p]
    BY <1>1, <1>2, <2>1 DEF Heard
  <2>4. QED BY <1>1, <2>1, <2>2, <2>3 DEF Heard
<1>7. \A p \in Pages : PageSound(p)'
  BY <1>1, <1>5, <1>6 DEF PageSound
<1>8. QED BY <1>1, <1>3, <1>7 DEF BusInv

LEMMA PageKeeps ==
  ASSUME TypeOK, TypeOK', BusInv, NEW p \in Pages,
         \/ Poll(p) \/ Unreached(p) \/ Answer(p) \/ Receive(p)
         \/ PollFails(p) \/ Reconnect(p) \/ Reload(p)
  PROVE  BusInv'
<1> USE DEF busVars, pageVars, histVars
<1>1. seq' = seq /\ q' = q /\ life' = life /\ seq \in Nat
  <2>1. seq' = seq /\ q' = q /\ life' = life
    <3>1. CASE Poll(p) \/ Answer(p) \/ Reconnect(p)
      BY <3>1 DEF Poll, Answer, Reconnect
    <3>2. CASE Unreached(p) \/ PollFails(p) \/ Reload(p)
      BY <3>2 DEF Unreached, PollFails, Reload
    <3>3. CASE Receive(p)
      BY <3>3 DEF Receive
    <3>4. QED BY <3>1, <3>2, <3>3
  <2>2. seq \in Nat
    BY DEF TypeOK, Number
  <2>3. QED BY <2>1, <2>2
<1> SUFFICES ASSUME life = 0
             PROVE  store' <= seq /\ \A t \in Pages : PageSound(t)'
  BY <1>1 DEF BusInv
<1>2. /\ store <= seq
      /\ \A t \in Pages :
            /\ cursor[t] <= seq /\ Heard(t, cursor[t])
            /\ flight[t] \in Seq(PollType)
            /\ \A i \in 1..Len(flight[t]) :
                  flight[t][i] \in PollType /\ PollSound(t, flight[t][i])
  BY DEF BusInv, PageSound, TypeOK
<1>3. \A t \in Pages : t # p =>
         /\ cursor'[t] = cursor[t] /\ flight'[t] = flight[t]
         /\ start'[t] = start[t] /\ seen'[t] = seen[t]
  <2> SUFFICES ASSUME NEW t \in Pages, t # p
               PROVE  /\ cursor'[t] = cursor[t] /\ flight'[t] = flight[t]
                      /\ start'[t] = start[t] /\ seen'[t] = seen[t]
    OBVIOUS
  <2>1. CASE Poll(p) \/ Answer(p) \/ Reconnect(p)
    BY <2>1 DEF Poll, Answer, Reconnect, TypeOK
  <2>2. CASE Unreached(p)
    BY <2>2 DEF Unreached, TypeOK
  <2>3. CASE Receive(p)
    BY <2>3 DEF Receive, Over, TypeOK
  <2>4. CASE PollFails(p)
    BY <2>4 DEF PollFails, Over, TypeOK
  <2>5. CASE Reload(p)
    BY <2>5 DEF Reload, TypeOK
  <2>6. QED BY <2>1, <2>2, <2>3, <2>4, <2>5
<1>4. Held' = Held
  BY <1>1 DEF Held
<1>5. ASSUME NEW t \in Pages, t # p PROVE PageSound(t)'
  BY <1>1, <1>2, <1>3, <1>4, <1>5 DEF PageSound, Heard, PollSound
<1>6. CASE Receive(p)
  <2>1. PICK i \in 1..Len(flight[p]) :
           /\ flight[p][i].to # NotYet /\ Over(p, i)
           /\ IF up[p]
              THEN /\ cursor' = [cursor EXCEPT ![p] =
                                   IF flight[p][i].to = NoSeq THEN cursor[p]
                                   ELSE flight[p][i].to]
                   /\ store' = IF flight[p][i].to = NoSeq THEN cursor[p]
                               ELSE flight[p][i].to
                   /\ seen' = [seen EXCEPT ![p] = @ \cup flight[p][i].got]
              ELSE UNCHANGED <<cursor, store, seen>>
           /\ start' = start
    BY <1>6 DEF Receive
  <2> DEFINE poll == flight[p][i]
             to   == IF poll.to = NoSeq THEN cursor[p] ELSE poll.to
  <2>2. poll \in PollType /\ PollSound(p, poll) /\ poll.to # NotYet
    BY <1>2, <2>1
  <2>3. \A j \in 1..Len(flight'[p]) : \E k \in 1..Len(flight[p]) :
           flight'[p][j] = flight[p][k]
    <3>1. flight'[p] = RemoveAt(flight[p], i)
      BY <2>1 DEF Over, TypeOK
    <3>2. flight[p] \in Seq(PollType) /\ i \in 1..Len(flight[p])
      BY <1>2, <2>1
    <3>3. \A j \in 1..Len(RemoveAt(flight[p], i)) :
             \E k \in 1..Len(flight[p]) : RemoveAt(flight[p], i)[j] = flight[p][k]
      BY <3>2, TakeOut
    <3>4. QED BY <3>1, <3>3
  <2>4. CASE ~up[p]
    <3>1. UNCHANGED <<cursor, store, seen, start>>
      BY <2>1, <2>4
    <3>2. store' <= seq
      BY <1>2, <3>1
    <3>3. PageSound(p)'
      BY <1>1, <1>2, <1>4, <2>3, <3>1 DEF PageSound, Heard, PollSound
    <3> QED BY <1>5, <3>2, <3>3
  <2>5. CASE up[p]
    <3>1. cursor'[p] = to /\ store' = to /\ seen'[p] = seen[p] \cup poll.got
      BY <2>1, <2>5 DEF TypeOK
    <3>2. to = cursor[p] \/ (to = poll.to /\ poll.to \in Nat)
      <4> HIDE DEF poll
      <4>1. poll.to \in Number \cup {NotYet, NoSeq}
        BY <2>2 DEF PollType
      <4>2. CASE poll.to = NoSeq
        BY <4>2
      <4>3. CASE poll.to # NoSeq
        <5>1. poll.to \in Number
          BY <2>2, <4>1, <4>3
        <5>2. QED BY <4>3, <5>1 DEF Number
      <4>4. QED BY <4>2, <4>3
    <3> HIDE DEF poll, to
    <3>3. to <= seq
      BY <1>2, <2>2, <3>2 DEF PollSound
    <3>4. Heard(p, cursor[p])'
      <4>1. CASE to = cursor[p]
        BY <1>2, <1>4, <2>1, <3>1, <4>1 DEF Heard
      <4>2. CASE to = poll.to /\ poll.to \in Nat
        <5>1. \A m \in Held : m \in Nat
          BY HeldIsGiven DEF Number
        <5>2. poll.since \in Nat
          BY <2>2 DEF PollType, Number
        <5>3. Heard(p, poll.since)
          BY <2>2 DEF PollSound
        <5>4. \A m \in Held : poll.since < m /\ m <= to => m \in poll.got
          BY <2>2, <4>2 DEF PollSound
        <5>5. \A m \in Held : start[p] < m /\ m <= to => m \in seen'[p]
          BY <3>1, <5>1, <5>2, <5>3, <5>4 DEF Heard
        <5>6. QED BY <1>4, <2>1, <3>1, <5>5 DEF Heard
      <4>3. QED BY <3>2, <4>1, <4>2
    <3>5. \A j \in 1..Len(flight'[p]) : PollSound(p, flight[p][j])'
      BY <1>1, <1>2, <1>4, <2>1, <2>3, <3>1 DEF Heard, PollSound
    <3>6. PageSound(p)'
      BY <1>1, <3>1, <3>3, <3>4, <3>5 DEF PageSound
    <3>7. QED BY <1>5, <3>1, <3>3, <3>6
  <2>6. QED BY <2>4, <2>5
<1>7. CASE Reload(p)
  <2>1. /\ cursor'[p] = store /\ start'[p] = store /\ flight'[p] = <<>>
        /\ store' = store /\ store \in Nat
    BY <1>7 DEF Reload, TypeOK, Number
  <2>2. Heard(p, cursor[p])'
    <3>1. \A m \in Held : m \in Nat
      BY HeldIsGiven DEF Number
    <3>2. QED BY <1>4, <2>1, <3>1 DEF Heard
  <2>3. PageSound(p)'
    BY <1>1, <1>2, <2>1, <2>2 DEF PageSound
  <2>4. QED BY <1>2, <1>5, <2>1, <2>3
<1>8. CASE Poll(p) \/ Unreached(p) \/ Answer(p) \/ PollFails(p) \/ Reconnect(p)
  <2>1. UNCHANGED <<cursor, store, start, seen>>
    BY <1>8 DEF Poll, Unreached, Answer, PollFails, Reconnect
  <2>2. ASSUME \A j \in 1..Len(flight'[p]) : PollSound(p, flight[p][j])'
        PROVE  store' <= seq /\ \A t \in Pages : PageSound(t)'
    <3>1. PageSound(p)'
      BY <1>1, <1>2, <1>4, <2>1, <2>2 DEF PageSound, Heard
    <3>2. QED BY <1>2, <1>5, <2>1, <3>1
  <2>3. CASE Poll(p)
    <3> DEFINE new == [since |-> cursor[p], to |-> NotYet, got |-> {}, life |-> life]
    <3>1. flight'[p] = Append(flight[p], new)
      BY <2>3 DEF Poll, TypeOK
    <3>2. new.since = cursor[p] /\ new.to \notin Nat
      BY DEF NotYet
    <3> HIDE DEF new
    <3>3. \A j \in 1..Len(flight'[p]) :
             flight'[p][j] = new \/ \E k \in 1..Len(flight[p]) : flight'[p][j] = flight[p][k]
      BY <1>2, <3>1
    <3>4. QED BY <1>1, <1>2, <1>4, <2>1, <2>2, <3>2, <3>3 DEF Heard, PollSound
  <2>4. CASE Unreached(p)
    <3>1. PICK i \in 1..Len(flight[p]) : flight' = [flight EXCEPT ![p][i].to = NoSeq]
      BY <2>4 DEF Unreached
    <3> DEFINE new == [flight[p][i] EXCEPT !.to = NoSeq]
    <3>2. new.since = flight[p][i].since /\ new.to \notin Nat
      BY <1>2 DEF NoSeq, PollType
    <3>3. flight'[p] = [flight[p] EXCEPT ![i] = new]
      BY <3>1 DEF TypeOK
    <3> HIDE DEF new
    <3>4. \A j \in 1..Len(flight'[p]) :
             j \in 1..Len(flight[p]) /\ flight'[p][j] = IF j = i THEN new ELSE flight[p][j]
      BY <1>2, <3>3
    <3>5. QED BY <1>1, <1>2, <1>4, <2>1, <2>2, <3>2, <3>4 DEF Heard, PollSound
  <2>5. CASE Answer(p)
    <3>1. PICK i \in 1..Len(flight[p]), n \in 0..MaxSeq :
             /\ Reached(flight[p][i].since, Frame(flight[p][i].since), n)
             /\ flight' = [flight EXCEPT ![p][i] =
                             [since |-> flight[p][i].since, to |-> n,
                              got |-> Frame(flight[p][i].since), life |-> life]]
      BY <2>5 DEF Answer
    <3> DEFINE since == flight[p][i].since
               new   == [since |-> since, to |-> n, got |-> Frame(since), life |-> life]
    <3>2. since \in Number /\ since <= seq /\ Heard(p, since)
      BY <1>2 DEF PollType, PollSound
    <3>3. /\ n <= seq
          /\ \A m \in Held : since < m /\ m <= n => m \in Frame(since)
      BY <3>1, <3>2, FrameIsWhole
    <3>4. flight'[p] = [flight[p] EXCEPT ![i] = new]
      BY <3>1 DEF TypeOK
    <3>5. new.since = since /\ new.to = n /\ new.got = Frame(since)
      OBVIOUS
    <3> HIDE DEF new, since
    <3>6. \A j \in 1..Len(flight'[p]) :
             j \in 1..Len(flight[p]) /\ flight'[p][j] = IF j = i THEN new ELSE flight[p][j]
      BY <1>2, <3>4
    <3>7. QED BY <1>1, <1>2, <1>4, <2>1, <2>2, <3>2, <3>3, <3>5, <3>6
              DEF Heard, PollSound
  <2>6. CASE PollFails(p)
    <3>1. PICK i \in 1..Len(flight[p]) : Over(p, i)
      BY <2>6 DEF PollFails
    <3>2. flight'[p] = RemoveAt(flight[p], i)
      BY <3>1 DEF Over, TypeOK
    <3>3. \A j \in 1..Len(flight'[p]) : \E k \in 1..Len(flight[p]) :
             flight'[p][j] = flight[p][k]
      <4>1. \A j \in 1..Len(RemoveAt(flight[p], i)) :
               \E k \in 1..Len(flight[p]) : RemoveAt(flight[p], i)[j] = flight[p][k]
        BY <1>2, <3>1, TakeOut
      <4>2. QED BY <3>2, <4>1
    <3>4. QED BY <1>1, <1>2, <1>4, <2>1, <2>2, <3>3 DEF Heard, PollSound
  <2>7. CASE Reconnect(p)
    <3>1. flight' = flight
      BY <2>7 DEF Reconnect
    <3>2. QED BY <1>1, <1>2, <1>4, <2>1, <2>2, <3>1 DEF Heard, PollSound
  <2>8. QED BY <1>8, <2>3, <2>4, <2>5, <2>6, <2>7
<1>9. QED BY <1>6, <1>7, <1>8
      DEF Poll, Unreached, Answer, Receive, PollFails, Reconnect, Reload

\* In every behaviour whatever a page's cursor has gone past has been in an
\* answer the page took, and every answer under way keeps it so.
THEOREM BusInvariant == Spec => []BusInv
<1>1. Init => BusInv
  BY DEF Init, BusInv, PageSound, Heard, Held
<1>2. TypeOK /\ TypeOK' /\ BusInv /\ [Next]_vars => BusInv'
  <2> SUFFICES ASSUME TypeOK, TypeOK', BusInv, [Next]_vars PROVE BusInv'
    OBVIOUS
  <2>1. CASE Push
    BY <2>1, PushKeeps
  <2>2. CASE Restart
    <3>1. life' # 0
      BY <2>2 DEF Restart, TypeOK
    <3>2. QED BY <3>1 DEF BusInv
  <2>3. ASSUME NEW p \in Pages,
               \/ Poll(p) \/ Unreached(p) \/ Answer(p) \/ Receive(p)
               \/ PollFails(p) \/ Reconnect(p) \/ Reload(p)
        PROVE  BusInv'
    BY <2>3, PageKeeps
  <2>4. CASE UNCHANGED vars
    BY <2>4 DEF vars, busVars, pageVars, histVars, BusInv, PageSound, Heard,
                Held, PollSound
  <2>5. QED BY <2>1, <2>2, <2>3, <2>4 DEF Next
<1>3. QED BY <1>1, <1>2, TypeCorrect, PTL DEF Spec

\* Frames that are cut, answers that overtake each other or name no number,
\* time-outs and reloads lose no event of a service that is not restarted.
THEOREM NoEventIsPassedOver == Spec => []NoEventPassedOver
<1>1. BusInv => NoEventPassedOver
  BY DEF BusInv, PageSound, NoEventPassedOver
<1>2. QED BY <1>1, BusInvariant, PTL

-----------------------------------------------------------------------------
(* Inbox: the queue is FIFO and the dispatcher works on one line at a      *)
(* time, so a slot that holds a message nobody has announced is named by a *)
(* line that waits or is in work, whoever empties and fills slots          *)
(* meanwhile.                                                              *)

\* What the argument needs of the types.
QueueTypes ==
    /\ box \in [Slots -> Msgs \cup {NoMsg}]
    /\ newest \in 0..MaxMsg
    /\ urcs \in Seq(Slots \cup {Full})
    /\ reading \in Slots \cup {0}

\* The slots that the queue names.
Named == {i \in Slots : \E n \in 1..Len(urcs) : urcs[n] = i}

\* StoredIsAnnounced in terms of Named.
Covered ==
    \A i \in Slots :
        box[i] # NoMsg => box[i] \in announced \cup missed \/ reading = i \/ i \in Named

\* A line that is queued names its slot, and the others stay named.
LEMMA EmittedNames ==
  ASSUME QueueTypes, NEW line \in Slots \cup {Full}, urcs' = Emitted(line)
  PROVE  /\ urcs' \in Seq(Slots \cup {Full})
         /\ Named \subseteq Named'
         /\ line \in Slots /\ Len(urcs) < UrcCap => line \in Named'
<1>1. CASE Len(urcs) < UrcCap
  <2>1. urcs' = Append(urcs, line) BY <1>1 DEF Emitted
  <2>2. /\ Len(urcs') = Len(urcs) + 1 /\ Len(urcs) \in Nat
        /\ urcs'[Len(urcs) + 1] = line
        /\ \A n \in 1..Len(urcs) : urcs'[n] = urcs[n]
    BY <2>1 DEF QueueTypes
  <2>3. Named \subseteq Named' BY <2>2 DEF Named
  <2>4. line \in Slots => line \in Named' BY <2>2 DEF Named
  <2>5. urcs' \in Seq(Slots \cup {Full}) BY <2>1 DEF QueueTypes
  <2>6. QED BY <2>3, <2>4, <2>5
<1>2. CASE ~(Len(urcs) < UrcCap)
  BY <1>2 DEF Emitted, Named, QueueTypes
<1>3. QED BY <1>1, <1>2

\* The line that is taken off names the slot in work; the others stay named.
LEMMA TakenNames ==
  ASSUME QueueTypes, NEW line \in Slots \cup {Full}, Takes(line)
  PROVE  /\ urcs' \in Seq(Slots \cup {Full})
         /\ \A i \in Named : i = line \/ i \in Named'
<1>1. /\ urcs # <<>> /\ urcs' = Tail(urcs) /\ Head(urcs) = line
  BY DEF Takes
<1>2. /\ Len(urcs') = Len(urcs) - 1 /\ Len(urcs) \in Nat \ {0} /\ urcs[1] = line
      /\ \A n \in 1..Len(urcs') : urcs'[n] = urcs[n + 1]
      /\ urcs' \in Seq(Slots \cup {Full})
  BY <1>1 DEF QueueTypes
<1>3. ASSUME NEW i \in Named, i # line PROVE i \in Named'
  <2>1. PICK n \in 1..Len(urcs) : urcs[n] = i BY DEF Named
  <2>2. n # 1 BY <1>2, <1>3, <2>1
  <2>3. n - 1 \in 1..Len(urcs') /\ urcs'[n - 1] = i BY <1>2, <2>1, <2>2
  <2>4. QED BY <2>3 DEF Named
<1>4. QED BY <1>2, <1>3

LEMMA CoveredStep ==
  ASSUME QueueTypes, Covered, [InboxNext]_inboxVars
  PROVE  QueueTypes' /\ Covered'
<1> USE DEF modemVars, taskVars, cleanVars, Full, NoMsg
<1> DEFINE Kept == UNCHANGED <<box, newest, reading, announced, missed>>
<1>1. CASE Deliver
  <2>1. PICK i \in Slots \ Stored :
           /\ box' = [box EXCEPT ![i] = newest + 1]
           /\ urcs' = Emitted(i)
    BY <1>1 DEF Deliver
  <2>2. newest + 1 \in Msgs /\ newest' \in 0..MaxMsg
    BY <1>1, InboxBoundAssumption DEF Deliver, QueueTypes, Msgs
  <2>3. QueueTypes'
    BY <1>1, <2>1, <2>2, EmittedNames DEF Deliver, QueueTypes
  <2>4. ASSUME NEW j \in Slots, box'[j] # NoMsg
        PROVE  box'[j] \in announced' \cup missed' \/ reading' = j \/ j \in Named'
    <3>1. CASE j = i
      <4>1. CASE Len(urcs) < UrcCap BY <2>1, <3>1, <4>1, EmittedNames
      <4>2. CASE ~(Len(urcs) < UrcCap)
        BY <1>1, <2>1, <3>1, <4>2 DEF Deliver, QueueTypes
      <4>3. QED BY <4>1, <4>2
    <3>2. CASE j # i
      <4>1. box'[j] = box[j] BY <2>1, <3>2 DEF QueueTypes
      <4>2. missed \subseteq missed' BY <1>1 DEF Deliver
      <4>3. Named \subseteq Named' BY <2>1, EmittedNames
      <4>4. UNCHANGED <<announced, reading>> BY <1>1 DEF Deliver
      <4>5. QED BY <2>4, <4>1, <4>2, <4>3, <4>4 DEF Covered
    <3>3. QED BY <3>1, <3>2
  <2>5. QED BY <2>3, <2>4 DEF Covered
<1>2. CASE Refuse
  <2>1. Kept /\ urcs' = Emitted(Full) BY <1>2 DEF Refuse
  <2>2. urcs' \in Seq(Slots \cup {Full}) /\ Named \subseteq Named'
    BY <2>1, EmittedNames
  <2>3. QED BY <2>1, <2>2 DEF Covered, QueueTypes
<1>3. CASE PageLists
  <2>1. Kept /\ UNCHANGED urcs BY <1>3 DEF PageLists
  <2>2. QED BY <2>1 DEF Covered, QueueTypes, Named
<1>4. CASE PageDeletes
  <2>1. PICK i \in Stored : box' = [box EXCEPT ![i] = NoMsg]
    BY <1>4 DEF PageDeletes
  <2>2. UNCHANGED <<newest, urcs, reading, announced, missed>>
    BY <1>4 DEF PageDeletes
  <2>3. QED BY <2>1, <2>2 DEF Covered, QueueTypes, Named
<1>5. CASE HandleFull
  <2>1. Kept /\ Takes(Full) BY <1>5 DEF HandleFull
  <2>2. /\ urcs' \in Seq(Slots \cup {Full})
        /\ \A i \in Named : i = Full \/ i \in Named'
    BY <2>1, TakenNames
  <2>3. Full \notin Named BY DEF Named, Slots
  <2>4. QED BY <2>1, <2>2, <2>3 DEF Covered, QueueTypes
<1>6. CASE HandleNew
  <2>1. PICK i \in Slots : Takes(i) /\ reading' = i BY <1>6 DEF HandleNew
  <2>2. UNCHANGED <<box, newest, announced, missed>> /\ reading = 0
    BY <1>6, <2>1 DEF HandleNew, Takes
  <2>3. /\ urcs' \in Seq(Slots \cup {Full})
        /\ \A j \in Named : j = i \/ j \in Named'
    BY <2>1, TakenNames
  <2>4. 0 \notin Slots BY DEF Slots
  <2>5. QED BY <2>1, <2>2, <2>3, <2>4 DEF Covered, QueueTypes
<1>7. CASE ReadNew
  <2>1. /\ announced' = announced \cup ({box[reading]} \ {NoMsg})
        /\ UNCHANGED <<box, newest, urcs, missed>> /\ reading' = 0
    BY <1>7 DEF ReadNew, Announce
  <2>2. QED BY <2>1 DEF Covered, QueueTypes, Named
<1>8. CASE ReadFails
  <2>1. /\ missed' = missed \cup ({box[reading]} \ {NoMsg})
        /\ UNCHANGED <<box, newest, urcs, announced>> /\ reading' = 0
    BY <1>8 DEF ReadFails
  <2>2. QED BY <2>1 DEF Covered, QueueTypes, Named
<1>9. ASSUME NEW k \in Cleaners, Clean(k) \/ GiveUp(k)
      PROVE  QueueTypes' /\ Covered'
  <2>1. UNCHANGED <<newest, urcs, reading, announced, missed>>
    BY <1>9 DEF Clean, Usage, Format, List, Delete, Done, GiveUp
  <2>2. UNCHANGED box \/ box' = [box EXCEPT ![Head(todo[k])] = NoMsg]
    BY <1>9 DEF Clean, Usage, Format, List, Delete, Done, GiveUp
  <2>3. QED BY <2>1, <2>2 DEF Covered, QueueTypes, Named
<1>10. CASE UNCHANGED inboxVars
  BY <1>10 DEF inboxVars, Covered, QueueTypes, Named
<1>11. QED
  BY <1>1, <1>2, <1>3, <1>4, <1>5, <1>6, <1>7, <1>8, <1>9, <1>10
  DEF InboxNext, Dispatch

\* Every message in the storage has been announced, will be, or could not be,
\* for any storage, queue, number of cleaners and of pages (handle_new_sms).
THEOREM InboxAnnounces == InboxSpec => []StoredIsAnnounced
<1>1. InboxInit => QueueTypes /\ Covered
  <2>1. SUFFICES ASSUME InboxInit,
                        NEW n \in 0..Total,
                        box = [i \in Slots |-> IF i <= n THEN i ELSE NoMsg],
                        newest = n /\ announced = 1..n
                 PROVE  QueueTypes /\ Covered
    BY DEF InboxInit
  <2>2. newest \in 0..MaxMsg
    BY <2>1, StorageAssumption, InboxBoundAssumption
  <2>3. \A i \in Slots : /\ box[i] \in Msgs \cup {NoMsg}
                         /\ box[i] # NoMsg => box[i] \in announced
    BY <2>1, StorageAssumption, InboxBoundAssumption DEF Slots, Msgs, NoMsg
  <2>4. QueueTypes
    BY <2>1, <2>2, <2>3 DEF InboxInit, QueueTypes
  <2>5. QED BY <2>3, <2>4 DEF Covered
<1>2. (QueueTypes /\ Covered) /\ [InboxNext]_inboxVars => (QueueTypes /\ Covered)'
  BY CoveredStep
<1>3. QueueTypes /\ Covered => StoredIsAnnounced
  BY DEF Covered, StoredIsAnnounced, Stored, Named
<1>4. QED BY <1>1, <1>2, <1>3, PTL DEF InboxSpec

-----------------------------------------------------------------------------
(* Types                                                                   *)

\* The parts of InboxTypeOK. That no message stands in two slots rests on the
\* number of the newest one.
StorageTypes ==
    /\ box \in [Slots -> Msgs \cup {NoMsg}]
    /\ \A i, j \in Stored : i # j => box[i] # box[j]
    /\ \A i \in Stored : box[i] <= newest
    /\ read \subseteq Slots /\ newest \in 0..MaxMsg
LineTypes ==
    /\ urcs \in Seq(Slots \cup {Full}) /\ Len(urcs) <= UrcCap
    /\ reading \in Slots \cup {0} /\ notified \in BOOLEAN
CleanerTypes ==
    /\ kpc \in [Cleaners -> {"idle", "usage", "format", "list", "delete"}]
    /\ todo \in [Cleaners -> Seq(Slots)]
CountTypes ==
    /\ announced \subseteq Msgs /\ missed \subseteq Msgs
    /\ dropped \in BOOLEAN /\ gaveUp \in BOOLEAN
    /\ faults \in 0..MaxFault /\ taken \in 0..MaxTaken
Types == StorageTypes /\ LineTypes /\ CleanerTypes /\ CountTypes

\* A queue that takes a line keeps to its capacity.
LEMMA EmittedKeeps ==
  ASSUME LineTypes, NEW line \in Slots \cup {Full}
  PROVE  Emitted(line) \in Seq(Slots \cup {Full}) /\ Len(Emitted(line)) <= UrcCap
<1>1. urcs \in Seq(Slots \cup {Full}) /\ Len(urcs) <= UrcCap /\ UrcCap \in Nat
  BY StorageAssumption DEF LineTypes
<1>2. CASE Len(urcs) < UrcCap
  BY <1>1, <1>2 DEF Emitted
<1>3. CASE ~(Len(urcs) < UrcCap)
  BY <1>1, <1>3 DEF Emitted
<1>4. QED BY <1>2, <1>3

\* So does one that gives a line away.
LEMMA TakenKeeps ==
  ASSUME LineTypes, NEW line \in Slots \cup {Full}, Takes(line)
  PROVE  urcs' \in Seq(Slots \cup {Full}) /\ Len(urcs') <= UrcCap
<1>1. /\ urcs \in Seq(Slots \cup {Full}) /\ Len(urcs) <= UrcCap /\ UrcCap \in Nat
      /\ urcs # <<>> /\ urcs' = Tail(urcs)
  BY StorageAssumption DEF LineTypes, Takes
<1>2. Len(urcs') = Len(urcs) - 1 /\ urcs' \in Seq(Slots \cup {Full})
  BY <1>1
<1>3. QED BY <1>1, <1>2

\* A slot that is emptied takes no message into another.
LEMMA Emptied ==
  ASSUME StorageTypes, NEW i \in Slots, box' = [box EXCEPT ![i] = NoMsg],
         UNCHANGED <<read, newest>>
  PROVE  StorageTypes'
<1>1. /\ box' \in [Slots -> Msgs \cup {NoMsg}]
      /\ \A j \in Stored' : j \in Stored /\ box'[j] = box[j]
  BY DEF StorageTypes, Stored, NoMsg
<1>2. QED BY <1>1 DEF StorageTypes

\* The first elements of a sequence are a sequence.
LEMMA FirstOnes ==
  ASSUME NEW S, NEW s \in Seq(S), NEW m \in Int, m <= Len(s)
  PROVE  SubSeq(s, 1, m) \in Seq(S)
<1>1. \A n \in 1..m : s[n] \in S
  OBVIOUS
<1>2. 1 \in Int
  OBVIOUS
<1>3. QED BY <1>1, <1>2, SubSeqProperties, Zenon

\* What a cleaner lists is a sequence of slots.
LEMMA ListedSlots ==
  ASSUME NEW all \in [1..Cardinality(Stored) -> Stored]
  PROVE  SubSeq(all, 1, Least(Need, Len(all))) \in Seq(Slots)
<1>1. Cardinality(Stored) \in Nat
  <2>1. IsFiniteSet(Slots)
    BY FS_Interval, StorageAssumption DEF Slots
  <2>2. IsFiniteSet(Stored)
    BY <2>1, FS_Subset DEF Stored
  <2>3. QED BY <2>2, FS_CardinalityType
<1>2. all \in Seq(Slots) /\ Len(all) \in Nat
  <2>1. all \in [1..Cardinality(Stored) -> Slots] BY DEF Stored
  <2>2. all \in Seq(Slots) BY <1>1, <2>1, SeqDef
  <2>3. QED BY <2>2, LenProperties
<1>3. Need \in Int
  BY StorageAssumption DEF Need, Least
<1>4. Least(Need, Len(all)) \in Int /\ Least(Need, Len(all)) <= Len(all)
  BY <1>2, <1>3 DEF Least
<1>5. QED BY <1>2, <1>4, FirstOnes

LEMMA StorageStep == ASSUME Types, [InboxNext]_inboxVars PROVE StorageTypes'
<1> USE DEF modemVars, taskVars, cleanVars
<1>1. CASE Deliver
  <2>1. PICK i \in Slots \ Stored :
           box' = [box EXCEPT ![i] = newest + 1] /\ read' = read \ {i}
    BY <1>1 DEF Deliver
  <2>2. newest' = newest + 1 /\ newest \in Nat /\ newest' \in 1..MaxMsg
    BY <1>1, InboxBoundAssumption DEF Deliver, Types, StorageTypes
  <2>3. /\ box \in [Slots -> Msgs \cup {NoMsg}]
        /\ box' \in [Slots -> Msgs \cup {NoMsg}] /\ read' \subseteq Slots
    BY <2>1, <2>2 DEF Types, StorageTypes, Msgs
  <2>4. \A j \in Stored' : IF j = i THEN box'[j] = newest'
                                    ELSE /\ j \in Stored /\ box'[j] = box[j]
                                         /\ box[j] \in Nat /\ box[j] <= newest
    BY <2>1, <2>2, <2>3 DEF Types, StorageTypes, Stored, Msgs, NoMsg
  <2>5. \A j \in Stored' : box'[j] <= newest'
    BY <2>2, <2>4
  <2>6. ASSUME NEW j \in Stored', NEW l \in Stored', j # l
        PROVE  box'[j] # box'[l]
    BY <2>2, <2>4, <2>6 DEF Types, StorageTypes
  <2>7. QED BY <2>2, <2>3, <2>5, <2>6 DEF StorageTypes
<1>2. CASE Refuse
  BY <1>2 DEF Refuse, Types, StorageTypes, Stored
<1>3. CASE PageLists
  BY <1>3 DEF PageLists, Types, StorageTypes, Stored
<1>4. CASE PageDeletes
  BY <1>4, Emptied DEF PageDeletes, Types, Stored
<1>5. CASE HandleFull \/ HandleNew \/ ReadFails
  BY <1>5 DEF HandleFull, HandleNew, ReadFails, Types, StorageTypes, Stored
<1>6. CASE ReadNew
  BY <1>6 DEF ReadNew, Types, StorageTypes, LineTypes, Stored
<1>7. ASSUME NEW k \in Cleaners,
             Usage(k) \/ Format(k) \/ List(k) \/ Done(k) \/ GiveUp(k)
      PROVE  StorageTypes'
  <2>1. UNCHANGED <<box, newest>> /\ read' \in {read, Stored}
    BY <1>7 DEF Usage, Format, List, Done, GiveUp
  <2>2. QED BY <2>1 DEF Types, StorageTypes, Stored
<1>8. ASSUME NEW k \in Cleaners, Delete(k) PROVE StorageTypes'
  <2>1. todo[k] \in Seq(Slots) /\ todo[k] # <<>>
    BY <1>8 DEF Delete, Types, CleanerTypes
  <2>2. Head(todo[k]) \in Slots
    BY <2>1
  <2>3. CASE box' = [box EXCEPT ![Head(todo[k])] = NoMsg]
    BY <1>8, <2>2, <2>3, Emptied DEF Delete, Types
  <2>4. CASE UNCHANGED box
    BY <1>8, <2>4 DEF Delete, Types, StorageTypes, Stored
  <2>5. QED BY <1>8, <2>3, <2>4 DEF Delete
<1>9. CASE UNCHANGED inboxVars
  BY <1>9 DEF inboxVars, Types, StorageTypes, Stored
<1>10. QED
  BY <1>1, <1>2, <1>3, <1>4, <1>5, <1>6, <1>7, <1>8, <1>9
  DEF InboxNext, Dispatch, Clean

LEMMA LineStep == ASSUME Types, [InboxNext]_inboxVars PROVE LineTypes'
<1> USE DEF modemVars, taskVars, cleanVars
<1>1. CASE Deliver
  <2>1. PICK i \in Slots : urcs' = Emitted(i) BY <1>1 DEF Deliver
  <2>2. QED BY <1>1, <2>1, EmittedKeeps DEF Deliver, Types, LineTypes
<1>2. CASE Refuse
  BY <1>2, EmittedKeeps DEF Refuse, Types, LineTypes
<1>3. CASE HandleFull
  <2>1. urcs' \in Seq(Slots \cup {Full}) /\ Len(urcs') <= UrcCap
    BY <1>3, TakenKeeps DEF HandleFull, Types
  <2>2. UNCHANGED reading /\ notified' \in {notified, TRUE}
    BY <1>3 DEF HandleFull
  <2>3. QED BY <2>1, <2>2 DEF Types, LineTypes
<1>4. CASE HandleNew
  <2>1. PICK i \in Slots : Takes(i) /\ reading' = i BY <1>4 DEF HandleNew
  <2>2. urcs' \in Seq(Slots \cup {Full}) /\ Len(urcs') <= UrcCap
    BY <2>1, TakenKeeps DEF Types
  <2>3. notified' = FALSE BY <1>4 DEF HandleNew, FlagAfterNew
  <2>4. QED BY <2>1, <2>2, <2>3 DEF LineTypes
<1>5. CASE ReadNew \/ ReadFails
  BY <1>5 DEF ReadNew, ReadFails, Types, LineTypes
<1>6. CASE PageLists \/ PageDeletes
  BY <1>6 DEF PageLists, PageDeletes, Types, LineTypes
<1>7. ASSUME NEW k \in Cleaners, Clean(k) \/ GiveUp(k) PROVE LineTypes'
  BY <1>7 DEF Clean, Usage, Format, List, Delete, Done, GiveUp, Types, LineTypes
<1>8. CASE UNCHANGED inboxVars
  BY <1>8 DEF inboxVars, Types, LineTypes
<1>9. QED
  BY <1>1, <1>2, <1>3, <1>4, <1>5, <1>6, <1>7, <1>8 DEF InboxNext, Dispatch

LEMMA CleanerStep == ASSUME Types, [InboxNext]_inboxVars PROVE CleanerTypes'
<1> USE DEF modemVars, taskVars, cleanVars
<1>1. CASE Deliver \/ Refuse \/ PageLists \/ PageDeletes
  BY <1>1 DEF Deliver, Refuse, PageLists, PageDeletes, Types, CleanerTypes
<1>2. CASE HandleFull
  BY <1>2 DEF HandleFull, Types, CleanerTypes
<1>3. CASE HandleNew \/ ReadNew \/ ReadFails
  BY <1>3 DEF HandleNew, ReadNew, ReadFails, Types, CleanerTypes
<1>4. ASSUME NEW k \in Cleaners, Usage(k) \/ Format(k) \/ Done(k) \/ GiveUp(k)
      PROVE  CleanerTypes'
  BY <1>4 DEF Usage, Format, Done, GiveUp, Goto, Types, CleanerTypes
<1>5. ASSUME NEW k \in Cleaners, List(k) PROVE CleanerTypes'
  <2>1. PICK all \in [1..Cardinality(Stored) -> Stored] :
           /\ todo' = [todo EXCEPT ![k] = SubSeq(all, 1, Least(Need, Len(all)))]
           /\ Goto(k, IF all = <<>> THEN "idle" ELSE "delete")
    BY <1>5 DEF List
  <2>2. SubSeq(all, 1, Least(Need, Len(all))) \in Seq(Slots)
    BY ListedSlots
  <2>3. QED BY <2>1, <2>2 DEF Goto, Types, CleanerTypes
<1>6. ASSUME NEW k \in Cleaners, Delete(k) PROVE CleanerTypes'
  <2>1. todo[k] \in Seq(Slots) /\ todo[k] # <<>>
    BY <1>6 DEF Delete, Types, CleanerTypes
  <2>2. Tail(todo[k]) \in Seq(Slots)
    BY <2>1
  <2>3. QED BY <1>6, <2>2 DEF Delete, Types, CleanerTypes
<1>7. CASE UNCHANGED inboxVars
  BY <1>7 DEF inboxVars, Types, CleanerTypes
<1>8. QED
  BY <1>1, <1>2, <1>3, <1>4, <1>5, <1>6, <1>7 DEF InboxNext, Dispatch, Clean

LEMMA CountStep == ASSUME Types, [InboxNext]_inboxVars PROVE CountTypes'
<1> USE DEF modemVars, taskVars, cleanVars
<1>1. CASE Deliver
  <2>1. newest + 1 \in Msgs
    BY <1>1, InboxBoundAssumption DEF Deliver, Types, StorageTypes, Msgs
  <2>2. missed' \subseteq Msgs
    BY <1>1, <2>1 DEF Deliver, Types, CountTypes
  <2>3. QED BY <1>1, <2>2 DEF Deliver, Types, CountTypes
<1>2. CASE Refuse \/ PageLists \/ HandleFull \/ HandleNew
  BY <1>2 DEF Refuse, PageLists, HandleFull, HandleNew, Types, CountTypes
<1>3. CASE PageDeletes
  BY <1>3, InboxBoundAssumption DEF PageDeletes, Types, CountTypes
<1>4. CASE ReadNew
  <2>1. box[reading] \in Msgs \cup {NoMsg}
    BY <1>4 DEF ReadNew, Types, StorageTypes, LineTypes
  <2>2. QED BY <1>4, <2>1 DEF ReadNew, Announce, Types, CountTypes
<1>5. CASE ReadFails
  <2>1. box[reading] \in Msgs \cup {NoMsg}
    BY <1>5 DEF ReadFails, Types, StorageTypes, LineTypes
  <2>2. missed' \subseteq Msgs /\ faults' \in 0..MaxFault
    BY <1>5, <2>1, InboxBoundAssumption DEF ReadFails, Types, CountTypes
  <2>3. QED BY <1>5, <2>2 DEF ReadFails, Types, CountTypes
<1>6. ASSUME NEW k \in Cleaners, Usage(k) \/ Format(k) \/ List(k) \/ Done(k)
      PROVE  CountTypes'
  BY <1>6 DEF Usage, Format, List, Done, Types, CountTypes
<1>7. ASSUME NEW k \in Cleaners, Delete(k) \/ GiveUp(k) PROVE CountTypes'
  <2>1. /\ faults' = faults \/ (faults > 0 /\ faults' = faults - 1)
        /\ gaveUp' \in {gaveUp, TRUE}
        /\ UNCHANGED <<announced, missed, dropped, taken>>
    BY <1>7 DEF Delete, GiveUp
  <2>2. faults' \in 0..MaxFault
    <3>1. faults \in 0..MaxFault /\ MaxFault \in Nat
      BY InboxBoundAssumption DEF Types, CountTypes
    <3>2. CASE faults > 0 /\ faults' = faults - 1 BY <3>1, <3>2
    <3>3. QED BY <2>1, <3>1, <3>2
  <2>3. QED BY <2>1, <2>2 DEF Types, CountTypes
<1>8. CASE UNCHANGED inboxVars
  BY <1>8 DEF inboxVars, Types, CountTypes
<1>9. QED
  BY <1>1, <1>2, <1>3, <1>4, <1>5, <1>6, <1>7, <1>8 DEF InboxNext, Dispatch, Clean

\* No message stands in two slots, the queue of lines keeps to its capacity and
\* a cleaner holds nothing but slots, for any storage and any number of
\* cleaners (emit, clean_oldest).
THEOREM InboxTypes == InboxSpec => []InboxTypeOK
<1>1. InboxInit => Types
  <2>1. SUFFICES ASSUME InboxInit,
                        NEW n \in 0..Total,
                        box = [i \in Slots |-> IF i <= n THEN i ELSE NoMsg],
                        newest = n /\ announced = 1..n /\ read = 1..n
                 PROVE  Types
    BY DEF InboxInit
  <2>2. /\ n \in Nat /\ n <= Total /\ Total \in Nat /\ MaxMsg \in Nat
        /\ Total <= MaxMsg
    BY StorageAssumption, InboxBoundAssumption
  <2>3. \A i \in Stored : box[i] = i /\ i \in 1..n
    BY <2>1, <2>2 DEF Stored, Slots, NoMsg
  <2>4. StorageTypes
    <3>1. box \in [Slots -> Msgs \cup {NoMsg}]
      BY <2>1, <2>2 DEF Slots, Msgs, NoMsg
    <3>2. read \subseteq Slots /\ newest \in 0..MaxMsg
      BY <2>1, <2>2 DEF Slots
    <3>3. \A i, j \in Stored : i # j => box[i] # box[j]
      BY <2>3
    <3>4. \A i \in Stored : box[i] <= newest
      BY <2>1, <2>2, <2>3
    <3>5. QED BY <3>1, <3>2, <3>3, <3>4 DEF StorageTypes
  <2>5. LineTypes
    <3>1. urcs = <<>> /\ reading = 0 /\ notified = FALSE BY <2>1 DEF InboxInit
    <3>2. urcs \in Seq(Slots \cup {Full}) /\ Len(urcs) <= UrcCap
      BY <3>1, StorageAssumption
    <3>3. QED BY <3>1, <3>2 DEF LineTypes
  <2>6. CleanerTypes BY <2>1 DEF InboxInit, CleanerTypes
  <2>7. announced \subseteq Msgs BY <2>1, <2>2 DEF Msgs
  <2>8. CountTypes
    <3>1. faults \in 0..MaxFault /\ taken \in 0..MaxTaken
      BY <2>1, InboxBoundAssumption DEF InboxInit
    <3>2. missed = {} /\ dropped = FALSE /\ gaveUp = FALSE BY <2>1 DEF InboxInit
    <3>3. QED BY <2>7, <3>1, <3>2 DEF CountTypes
  <2>9. QED BY <2>4, <2>5, <2>6, <2>8 DEF Types
<1>2. Types /\ [InboxNext]_inboxVars => Types'
  BY StorageStep, LineStep, CleanerStep, CountStep DEF Types
<1>3. Types => InboxTypeOK
  BY DEF Types, StorageTypes, LineTypes, CleanerTypes, CountTypes, InboxTypeOK
<1>4. QED BY <1>1, <1>2, <1>3, PTL DEF InboxSpec
=============================================================================
