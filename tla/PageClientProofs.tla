-------------------------- MODULE PageClientProofs --------------------------
(***************************************************************************)
(* Proofs about PageClient, for any commands, numbers of attempts and      *)
(* requests, and any amount of trouble.                                    *)
(***************************************************************************)
EXTENDS PageClient, FiniteSetTheorems, WellFoundedInduction, TLAPS

-----------------------------------------------------------------------------
(* Induction over the numbers, for a set instead of a predicate, and what  *)
(* it gives for a function that is defined by recursion on a range 0..n.   *)

\* A set of numbers has a least one: the ranges that end in one of its numbers
\* are finite sets, and one of them has none of the others inside it.
LEMMA LeastNumber ==
  ASSUME NEW T \in SUBSET Nat, T # {}
  PROVE  \E m \in T : \A n \in T : m <= n
<1> DEFINE Below == {0..m : m \in T}
<1>1. Below \subseteq FiniteSubsetsOf(Nat)
  <2>1. ASSUME NEW m \in T PROVE 0..m \in SUBSET Nat /\ IsFiniteSet(0..m)
    <3>1. 0 \in Int /\ m \in Int /\ 0..m \subseteq Nat OBVIOUS
    <3>2. QED BY <3>1, FS_Interval
  <2>2. QED BY <2>1, Zenon DEF FiniteSubsetsOf
<1>2. Below # {}
  OBVIOUS
<1>3. PICK low \in Below :
         \A other \in Below : ~(<<other, low>> \in StrictSubsetOrdering(Nat))
  <2> HIDE DEF Below
  <2>1. QED BY <1>1, <1>2, FS_StrictSubsetOrderingWellFounded, WFMin
<1>4. PICK m \in T : low = 0..m
  OBVIOUS
<1>5. ASSUME NEW n \in T, n < m PROVE FALSE
  <2>1. 0..n \in Below
    OBVIOUS
  <2>2. 0..n \subseteq 0..m /\ m \in 0..m /\ m \notin 0..n /\ 0..m \subseteq Nat
    BY <1>5
  <2>3. <<0..n, 0..m>> \in StrictSubsetOrdering(Nat)
    BY <2>2 DEF StrictSubsetOrdering
  <2>4. QED BY <1>3, <1>4, <2>1, <2>3
<1>6. QED BY <1>5

\* A set that holds 0 and with every number the next one holds them all.
LEMMA SetInduction ==
  ASSUME NEW A, 0 \in A, \A n \in Nat : n \in A => n + 1 \in A
  PROVE  Nat \subseteq A
<1>1. SUFFICES ASSUME Nat \ A # {} PROVE FALSE
  OBVIOUS
<1>2. PICK m \in Nat \ A : \A n \in Nat \ A : m <= n
  BY <1>1, LeastNumber
<1>3. m - 1 \in Nat /\ m - 1 \in A
  BY <1>2
<1>4. QED BY <1>2, <1>3

\* The same up to a bound.
LEMMA RangeInduction ==
  ASSUME NEW A, NEW size \in Nat, 0 \in A,
         \A n \in 1..size : n - 1 \in A => n \in A
  PROVE  \A n \in 0..size : n \in A
<1> DEFINE B == {n \in Nat : n <= size => n \in A}
<1>1. Nat \subseteq B
  <2>1. 0 \in B /\ \A n \in Nat : n \in B => n + 1 \in B OBVIOUS
  <2> HIDE DEF B
  <2>2. QED BY <2>1, SetInduction
<1>2. QED BY <1>1

\* The values of f on 0..size begin with base, and each comes from the one
\* before by a step that stays inside V.
Steps(step, size, V) == step \in [1..size -> [V -> V]]
Iterates(f, base, step, size, V) ==
    /\ f \in [0..size -> V] /\ f[0] = base
    /\ \A n \in 1..size : f[n] = step[n][f[n - 1]]

\* What is defined by recursion on 0..size is there.
LEMMA Recursion ==
  ASSUME NEW V, NEW base \in V, NEW size \in Nat, NEW step, Steps(step, size, V)
  PROVE  \E f : Iterates(f, base, step, size, V)
<1> USE DEF Steps, Iterates
<1> DEFINE Upto(f, n) == /\ f \in [0..n -> V] /\ f[0] = base
                         /\ \A i \in 1..n : f[i] = step[i][f[i - 1]]
           A == {n \in 0..size : \E f : Upto(f, n)}
<1>1. 0 \in A
  <2>1. Upto([i \in 0..0 |-> base], 0) OBVIOUS
  <2>2. 0 \in 0..size OBVIOUS
  <2> HIDE DEF Upto
  <2>3. QED BY <2>1, <2>2
<1>2. ASSUME NEW n \in 1..size, n - 1 \in A PROVE n \in A
  <2>1. PICK f : Upto(f, n - 1) BY <1>2
  <2>2. step[n][f[n - 1]] \in V
    <3>1. f[n - 1] \in V BY <2>1
    <3>2. QED BY <3>1
  <2> DEFINE g == [i \in 0..n |-> IF i = n THEN step[n][f[n - 1]] ELSE f[i]]
  <2>3. g \in [0..n -> V]
    <3>1. \A i \in 0..n : i # n => i \in 0..(n - 1) OBVIOUS
    <3>2. \A i \in 0..n : (IF i = n THEN step[n][f[n - 1]] ELSE f[i]) \in V
      BY <2>1, <2>2, <3>1
    <3>3. QED BY <3>2, Zenon
  <2>4. \A i \in 0..(n - 1) : g[i] = f[i]
    OBVIOUS
  <2>5. g[n] = step[n][f[n - 1]]
    OBVIOUS
  <2> HIDE DEF g
  <2>6. g[0] = base
    BY <2>1, <2>4
  <2>7. ASSUME NEW i \in 1..n PROVE g[i] = step[i][g[i - 1]]
    <3>1. CASE i = n BY <2>4, <2>5, <3>1
    <3>2. CASE i # n
      <4>1. i \in 0..(n - 1) /\ i - 1 \in 0..(n - 1) /\ i \in 1..(n - 1) BY <3>2
      <4>2. QED BY <2>1, <2>4, <4>1
    <3>3. QED BY <3>1, <3>2
  <2>8. QED BY <2>3, <2>6, <2>7
<1>3. \A n \in 0..size : n \in A
  <2> HIDE DEF A
  <2>1. QED BY <1>1, <1>2, RangeInduction
<1>4. size \in A
  BY <1>3
<1>5. QED BY <1>4

\* The values on the way stay inside V.
LEMMA IterateAt ==
  ASSUME NEW V, NEW base, NEW size \in Nat, NEW step, NEW f,
         Iterates(f, base, step, size, V), NEW n \in 1..size
  PROVE  f[n - 1] \in V /\ f[n] = step[n][f[n - 1]]
BY DEF Iterates

\* Another function that begins and goes on like f ends like f.
LEMMA SameEnd ==
  ASSUME NEW f, NEW g, NEW size \in Nat, g[0] = f[0],
         \A n \in 1..size : g[n - 1] = f[n - 1] => g[n] = f[n]
  PROVE  g[size] = f[size]
<1> DEFINE A == {n \in 0..size : g[n] = f[n]}
<1>1. 0 \in A /\ \A n \in 1..size : n - 1 \in A => n \in A
  OBVIOUS
<1>2. \A n \in 0..size : n \in A
  <2> HIDE DEF A
  <2>1. QED BY <1>1, RangeInduction
<1>3. QED BY <1>2

-----------------------------------------------------------------------------
(* The queue and the attempts                                              *)

\* A page begins with no request.
LEMMA InitInv == Init => WriteInv
<1> SUFFICES ASSUME Init PROVE WriteInv
  OBVIOUS
<1>1. req \in [Requests -> RequestRecord]
  BY DEF Init, Unused, RequestRecord, Moments
<1>2. ran \in [Requests -> Nat] /\ queue \in Seq(Requests) /\ effects \in Nat /\ calls = {}
  BY DEF Init
<1>3. \A r \in Requests : AtHead(r) /\ NotBegun(r) /\ OneAttempt(r)
  BY DEF Init, Unused, AtHead, NotBegun, OneAttempt
<1> QED BY <1>1, <1>2, <1>3 DEF WriteInv

\* What is kept of a request that is over has its type.
LEMMA OverType ==
  ASSUME NEW c \in Commands \union {"none"}, NEW at \in {"hit", "done", "failed"}
  PROVE  /\ Over(c, at) \in RequestRecord
         /\ Over(c, at).cmd = c /\ Over(c, at).at = at
BY DEF Over, Unused, RequestRecord, Moments

\* A record that goes on to an attempt keeps its type.
LEMMA SentType ==
  ASSUME NEW q \in RequestRecord, NEW n \in Nat
  PROVE  [q EXCEPT !.at = "sent", !.try = n] \in RequestRecord
<1>1. "sent" \in Moments
  BY DEF Moments
<1> QED BY <1>1 DEF RequestRecord

\* The end of a request that was at the head of the queue: the next one may begin.
LEMMA SettleInv ==
  ASSUME WriteInv, NEW r \in Requests, NEW ok \in BOOLEAN, NEW value,
         queue # <<>>, Head(queue) = r,
         Settle(r, ok, value), calls' \subseteq calls, UNCHANGED <<ran, effects>>
  PROVE  WriteInv'
<1> DEFINE at == IF ok THEN "done" ELSE "failed"
<1>1. req' = [req EXCEPT ![r] = Over(req[r].cmd, at)] /\ queue' = Tail(queue)
  BY DEF Settle
<1>2. /\ Over(req[r].cmd, at) \in RequestRecord
      /\ Over(req[r].cmd, at).cmd = req[r].cmd
      /\ Over(req[r].cmd, at).at \in {"done", "failed"}
  <2>1. req[r].cmd \in Commands \union {"none"}
    BY DEF WriteInv, RequestRecord
  <2> QED BY <2>1, OverType
<1> HIDE DEF at
<1>3. /\ req' \in [Requests -> RequestRecord] /\ calls' \subseteq CallRecord
      /\ ran' \in [Requests -> Nat] /\ queue' \in Seq(Requests) /\ effects' \in Nat
  BY <1>1, <1>2 DEF WriteInv
<1>4. /\ req'[r].cmd = req[r].cmd /\ req'[r].at \in {"done", "failed"}
      /\ \A q \in Requests \ {r} : req'[q] = req[q]
  BY <1>1, <1>2 DEF WriteInv
<1>5. \A q \in Requests : AtHead(q)' /\ NotBegun(q)' /\ OneAttempt(q)'
  <2> TAKE q \in Requests
  <2>1. AtHead(q) /\ NotBegun(q) /\ OneAttempt(q)
    BY DEF WriteInv
  <2>2. CASE q = r
    BY <1>4, <2>1, <2>2 DEF AtHead, NotBegun, OneAttempt
  <2>3. CASE q # r
    BY <1>4, <2>1, <2>3 DEF AtHead, NotBegun, OneAttempt
  <2> QED BY <2>2, <2>3
<1>6. \A k \in calls' : OneCall(k)'
  BY <1>4 DEF WriteInv, OneCall, CallRecord
<1> QED BY <1>3, <1>5, <1>6 DEF WriteInv

\* An attempt of the request at the head: a write has not been tried before.
LEMMA AttemptInv ==
  ASSUME WriteInv, NEW r \in Requests, queue # <<>>, Head(queue) = r,
         req[r].at \in {"queued", "backoff"},
         Attempt(r), UNCHANGED <<ran, effects>>
  PROVE  WriteInv'
<1>1. CASE ~connected
  BY <1>1, SettleInv DEF Attempt
<1>2. CASE connected
  <2> DEFINE k == [r |-> r, try |-> req[r].try + 1, at |-> "posted", value |-> -1]
  <2>1. /\ req' = [req EXCEPT ![r].at = "sent", ![r].try = @ + 1]
        /\ calls' = calls \union {k} /\ UNCHANGED queue
    BY <1>2 DEF Attempt
  <2> HIDE DEF k
  <2>a. k \in CallRecord /\ k.r = r /\ k.try = req[r].try + 1 /\ k.value = -1
    BY DEF k, WriteInv, RequestRecord, CallRecord
  <2>b. req' \in [Requests -> RequestRecord]
    <3> DEFINE q == [req[r] EXCEPT !.at = "sent", !.try = req[r].try + 1]
    <3>1. req[r] \in RequestRecord /\ req[r].try + 1 \in Nat
      BY DEF WriteInv, RequestRecord
    <3>2. q \in RequestRecord
      BY <3>1, SentType
    <3>3. req' = [req EXCEPT ![r] = q]
      BY <2>1 DEF WriteInv
    <3> HIDE DEF q
    <3> QED BY <3>2, <3>3 DEF WriteInv
  <2>2. /\ req'[r].at = "sent" /\ req'[r].try = req[r].try + 1
        /\ req'[r].cmd = req[r].cmd /\ req'[r].max = req[r].max
        /\ \A q \in Requests \ {r} : req'[q] = req[q]
    BY <2>1 DEF WriteInv, RequestRecord
  <2>3. \A q \in Requests : AtHead(q)' /\ NotBegun(q)' /\ OneAttempt(q)'
    <3> TAKE q \in Requests
    <3>1. AtHead(q) /\ NotBegun(q) /\ OneAttempt(q)
      BY DEF WriteInv
    <3>2. CASE q = r
      BY <2>1, <2>2, <3>1, <3>2 DEF AtHead, NotBegun, OneAttempt
    <3>3. CASE q # r
      BY <2>1, <2>a, <2>2, <3>1, <3>3 DEF AtHead, NotBegun, OneAttempt
    <3> QED BY <3>2, <3>3
  <2>4. req[r].cmd \in Writes => req[r].try = 0 /\ ran[r] = 0
    BY DEF WriteInv, NotBegun, OneAttempt
  <2>5. \A j \in calls' : OneCall(j)'
    <3> TAKE j \in calls'
    <3>1. CASE j = k
      BY <2>a, <2>2, <2>4, <3>1 DEF OneCall
    <3>2. CASE j \in calls
      <4>1. OneCall(j) /\ j.r \in Requests /\ req'[j.r].cmd = req[j.r].cmd
        BY <2>2, <3>2 DEF WriteInv, CallRecord
      <4> QED BY <4>1 DEF OneCall
    <3> QED BY <2>1, <3>1, <3>2
  <2> QED BY <2>1, <2>a, <2>b, <2>3, <2>5 DEF WriteInv
<1> QED BY <1>1, <1>2

\* A failed attempt: a write is over.
LEMMA FailInv ==
  ASSUME WriteInv, NEW r \in Requests, req[r].at = "sent",
         FailOrRetry(r), calls' \subseteq calls, UNCHANGED <<ran, effects>>
  PROVE  WriteInv'
<1>1. queue # <<>> /\ Head(queue) = r
  BY DEF WriteInv, AtHead
<1>2. CASE Settle(r, FALSE, -1)
  BY <1>1, <1>2, SettleInv
<1>3. CASE ~Settle(r, FALSE, -1)
  <2>1. /\ req[r].try < req[r].max /\ req' = [req EXCEPT ![r].at = "backoff"]
        /\ UNCHANGED queue
    BY <1>3 DEF FailOrRetry
  <2>2. req[r].cmd \notin Writes
    BY <2>1 DEF WriteInv, OneAttempt
  <2>3. /\ req' \in [Requests -> RequestRecord] /\ req'[r].at = "backoff"
        /\ req'[r].cmd = req[r].cmd
        /\ \A q \in Requests \ {r} : req'[q] = req[q]
    BY <2>1 DEF WriteInv, RequestRecord, Moments
  <2>4. \A q \in Requests : AtHead(q)' /\ NotBegun(q)' /\ OneAttempt(q)'
    <3> TAKE q \in Requests
    <3>1. AtHead(q) /\ NotBegun(q) /\ OneAttempt(q)
      BY DEF WriteInv
    <3>2. CASE q = r
      BY <1>1, <2>1, <2>2, <2>3, <3>1, <3>2 DEF AtHead, NotBegun, OneAttempt
    <3>3. CASE q # r
      BY <2>1, <2>3, <3>1, <3>3 DEF AtHead, NotBegun, OneAttempt
    <3> QED BY <3>2, <3>3
  <2>5. \A j \in calls' : OneCall(j)'
    <3> TAKE j \in calls'
    <3>1. OneCall(j) /\ j.r \in Requests /\ req'[j.r].cmd = req[j.r].cmd
      BY <2>3 DEF WriteInv, CallRecord
    <3> QED BY <3>1 DEF OneCall
  <2> QED BY <2>1, <2>3, <2>4, <2>5 DEF WriteInv
<1> QED BY <1>2, <1>3

\* A request that is under way stands in the queue, with a command.
LEMMA UnderWay ==
  ASSUME WriteInv, NEW k \in calls, Awaited(k)
  PROVE  /\ k.r \in Requests /\ req[k.r].at = "sent"
         /\ queue # <<>> /\ Head(queue) = k.r
BY DEF WriteInv, Awaited, AtHead, CallRecord

\* A new request is answered from the cache, turned away, or queued.
LEMMA SendInv ==
  ASSUME WriteInv, NEW r \in Requests, NEW c \in Commands, NEW fresh \in BOOLEAN,
         AnswerFromCache(r, c) \/ Send(r, c, fresh)
  PROVE  WriteInv'
<1>1. req[r].at = "unused" /\ UNCHANGED <<calls, ran, effects>>
  BY DEF AnswerFromCache, Send, NextRequest, histVars
<1>2. PICK q \in RequestRecord :
        /\ req' = [req EXCEPT ![r] = q]
        /\ queue' = IF q.at = "queued" THEN Append(queue, r) ELSE queue
        /\ q.at \in {"hit", "failed"} \/ (/\ q.at = "queued" /\ q.try = 0
                                          /\ q.cmd \in Writes => q.max = 1)
  <2>1. CASE AnswerFromCache(r, c)
    BY <2>1, OverType DEF AnswerFromCache
  <2>2. CASE Send(r, c, fresh)
    <3> DEFINE q == IF QuickFails([cmd |-> c, fresh |-> fresh]) THEN Over(c, "failed")
                    ELSE Asked(c, fresh)
    <3>1. MaxAttempts(c) \in Nat /\ (c \in Writes => MaxAttempts(c) = 1)
      BY ClientAssumption DEF MaxAttempts
    <3>2. /\ Asked(c, fresh) \in RequestRecord
          /\ Asked(c, fresh).at = "queued" /\ Asked(c, fresh).try = 0
          /\ Asked(c, fresh).cmd = c /\ Asked(c, fresh).max = MaxAttempts(c)
      BY <3>1, Zenon DEF Asked, RequestRecord, Moments
    <3>3. /\ req' = [req EXCEPT ![r] = q]
          /\ queue' = IF q.at = "queued" THEN Append(queue, r) ELSE queue
      BY <2>2 DEF Send
    <3>4. CASE q = Over(c, "failed")
      <4>1. q \in RequestRecord /\ q.at = "failed"
        BY <3>4, OverType
      <4> QED BY <3>3, <4>1
    <3>5. CASE q = Asked(c, fresh)
      <4>1. /\ q \in RequestRecord /\ q.at = "queued" /\ q.try = 0
            /\ q.cmd \in Writes => q.max = 1
        BY <3>1, <3>2, <3>5
      <4> QED BY <3>3, <4>1
    <3> QED BY <3>4, <3>5
  <2> QED BY <2>1, <2>2
<1>3. /\ req' \in [Requests -> RequestRecord] /\ queue' \in Seq(Requests)
      /\ \A p \in Requests \ {r} : req'[p] = req[p]
      /\ req'[r] = q
  BY <1>2 DEF WriteInv
<1>4. \A p \in Requests : AtHead(p)' /\ NotBegun(p)' /\ OneAttempt(p)'
  <2> TAKE p \in Requests
  <2>1. AtHead(p) /\ NotBegun(p) /\ OneAttempt(p)
    BY DEF WriteInv
  <2>2. CASE p = r
    BY <1>1, <1>2, <1>3, <2>1, <2>2 DEF AtHead, NotBegun, OneAttempt
  <2>3. CASE p # r
    <3>1. req'[p].at \in {"sent", "backoff"} => queue' # <<>> /\ Head(queue') = Head(queue)
      BY <1>2, <1>3, <2>1, <2>3 DEF AtHead, WriteInv
    <3> QED BY <1>1, <1>3, <2>1, <2>3, <3>1 DEF AtHead, NotBegun, OneAttempt
  <2> QED BY <2>2, <2>3
<1>5. \A k \in calls' : OneCall(k)'
  <2> TAKE k \in calls'
  <2>1. OneCall(k) /\ k.r \in Requests /\ k.r # r
    BY <1>1 DEF WriteInv, CallRecord, NotBegun
  <2> QED BY <1>1, <1>3, <2>1 DEF OneCall
<1> QED BY <1>1, <1>3, <1>4, <1>5 DEF WriteInv

\* The chain goes on: the request at its head begins or is tried again.
LEMMA ChainInv ==
  ASSUME WriteInv, Start \/ Retry
  PROVE  WriteInv'
<1> DEFINE r == Head(queue)
<1>1. /\ queue # <<>> /\ r \in Requests /\ req[r].at \in {"queued", "backoff"}
      /\ UNCHANGED <<ran, effects>>
  <2>1. /\ queue # <<>> /\ req[r].at \in {"queued", "backoff"}
        /\ UNCHANGED <<ran, effects>>
    BY DEF Start, Retry, histVars
  <2>2. queue \in Seq(Requests)
    BY DEF WriteInv
  <2> QED BY <2>1, <2>2
<1>2. Attempt(r) \/ (Settle(r, FALSE, -1) /\ UNCHANGED calls)
  BY DEF Start, Retry
<1>3. CASE Attempt(r)
  BY <1>1, <1>3, AttemptInv
<1>4. CASE Settle(r, FALSE, -1) /\ UNCHANGED calls
  BY <1>1, <1>4, SettleInv
<1> QED BY <1>2, <1>3, <1>4

\* An answer comes in, or the page gives up on it.
LEMMA AnswerInv ==
  ASSUME WriteInv, NEW k \in calls, Receive(k) \/ TimeOut(k)
  PROVE  WriteInv'
<1>1. /\ Awaited(k) /\ calls' \subseteq calls /\ UNCHANGED <<ran, effects>>
  BY DEF Receive, TimeOut, histVars
<1>2. /\ k.r \in Requests /\ req[k.r].at = "sent"
      /\ queue # <<>> /\ Head(queue) = k.r
  BY <1>1, UnderWay
<1>3. FailOrRetry(k.r) \/ Settle(k.r, TRUE, k.value) \/ Settle(k.r, FALSE, -1)
  BY DEF Receive, TimeOut, OnBusy
<1>4. CASE FailOrRetry(k.r)
  BY <1>1, <1>2, <1>4, FailInv
<1>5. CASE Settle(k.r, TRUE, k.value)
  BY <1>1, <1>2, <1>5, SettleInv
<1>6. CASE Settle(k.r, FALSE, -1)
  BY <1>1, <1>2, <1>6, SettleInv
<1> QED BY <1>3, <1>4, <1>5, <1>6

\* A call that has an answer keeps its type.
LEMMA AnsweredType ==
  ASSUME NEW k \in CallRecord, NEW answer \in {"ok", "error", "busy"}, NEW n \in Nat
  PROVE  [k EXCEPT !.at = answer, !.value = n] \in CallRecord
<1>1. answer \in {"posted", "ok", "error", "busy"} /\ n \in Int
  OBVIOUS
<1> QED BY <1>1 DEF CallRecord

\* A call runs. Another call of the same write that waits to run would be the
\* very same call.
LEMMA RunInv ==
  ASSUME WriteInv, NEW k \in calls, NEW answer \in {"ok", "error", "busy"},
         NEW effect \in BOOLEAN, Run(k, answer, effect)
  PROVE  WriteInv'
<1>1. k.at = "posted" /\ k \in CallRecord /\ k.r \in Requests /\ UNCHANGED <<req, queue>>
  BY DEF Run, WriteInv, CallRecord, pageVars
<1>2. effects' \in Nat
  BY DEF Run, WriteInv
<1>3. /\ ran' = [ran EXCEPT ![k.r] = @ + 1] \/ ran' = ran
      /\ ran' \in [Requests -> Nat]
  BY <1>1 DEF Run, WriteInv
<1>4. PICK done \in CallRecord :
        /\ done.r = k.r /\ done.at # "posted"
        /\ calls' \subseteq (calls \ {k}) \union {done}
  <2>1. [k EXCEPT !.at = answer, !.value = effects'] \in CallRecord
    BY <1>1, <1>2, AnsweredType
  <2>2. /\ [k EXCEPT !.at = answer, !.value = effects'].r = k.r
        /\ [k EXCEPT !.at = answer, !.value = effects'].at = answer
    BY <1>1 DEF CallRecord
  <2> QED BY <2>1, <2>2 DEF Run
<1>5. \A r \in Requests : AtHead(r)' /\ NotBegun(r)' /\ OneAttempt(r)'
  <2> TAKE r \in Requests
  <2>1. AtHead(r) /\ NotBegun(r) /\ OneAttempt(r) /\ OneCall(k)
    BY DEF WriteInv
  <2>2. AtHead(r)'
    BY <1>1, <2>1 DEF AtHead
  <2>3. CASE r = k.r
    <3>1. req[r].at \notin {"unused", "queued"}
      BY <2>1, <2>3 DEF NotBegun
    <3>2. NotBegun(r)'
      BY <1>1, <3>1 DEF NotBegun
    <3>3. OneAttempt(r)'
      BY <1>1, <1>3, <2>1, <2>3 DEF OneAttempt, OneCall, WriteInv
    <3> QED BY <2>2, <3>2, <3>3
  <2>4. CASE r # k.r
    <3>1. ran'[r] = ran[r]
      BY <1>3, <2>4 DEF WriteInv
    <3>2. NotBegun(r)' /\ OneAttempt(r)'
      BY <1>1, <1>4, <2>1, <2>4, <3>1 DEF NotBegun, OneAttempt
    <3> QED BY <2>2, <3>2
  <2> QED BY <2>3, <2>4
<1>6. \A j \in calls' : OneCall(j)'
  <2> SUFFICES ASSUME NEW j \in calls \ {k} PROVE OneCall(j)'
    BY <1>4 DEF OneCall
  <2>1. OneCall(j) /\ OneCall(k) /\ j \in CallRecord
    BY DEF WriteInv
  <2>2. CASE j.r = k.r /\ j.at = "posted" /\ req[j.r].cmd \in Writes
    <3>1. /\ j.try = k.try /\ j.value = k.value /\ j.at = k.at
      BY <1>1, <2>1, <2>2 DEF OneCall
    <3>2. j = k
      BY <1>1, <2>1, <2>2, <3>1 DEF CallRecord
    <3> QED BY <3>2
  <2>3. CASE j.r # k.r
    BY <1>1, <1>3, <2>1, <2>3 DEF OneCall, WriteInv, CallRecord
  <2>4. CASE ~(j.at = "posted" /\ req[j.r].cmd \in Writes)
    BY <1>1, <2>4 DEF OneCall
  <2> QED BY <2>2, <2>3, <2>4
<1>7. calls' \subseteq CallRecord
  BY <1>4 DEF WriteInv
<1> QED BY <1>1, <1>2, <1>3, <1>5, <1>6, <1>7 DEF WriteInv

\* What is left of the requests alone changes nothing.
LEMMA StutterInv ==
  ASSUME WriteInv, UNCHANGED <<queue, req, calls, effects, ran>>
  PROVE  WriteInv'
BY DEF WriteInv, AtHead, NotBegun, OneAttempt, OneCall

\* The invariant of the requests, for all constants.
THEOREM WritesInvariant == Spec => []WriteInv
<1>1. WriteInv /\ [Next]_vars => WriteInv'
  <2> SUFFICES ASSUME WriteInv, [Next]_vars PROVE WriteInv'
    OBVIOUS
  <2>1. CASE \E r \in Requests, c \in Commands :
               AnswerFromCache(r, c) \/ \E fresh \in BOOLEAN : Send(r, c, fresh)
    BY <2>1, SendInv
  <2>2. CASE Start \/ Retry
    BY <2>2, ChainInv
  <2>3. CASE \E k \in calls : Receive(k) \/ TimeOut(k)
    BY <2>3, AnswerInv
  <2>4. CASE \/ WindowEnds \/ Connection \/ Clear
            \/ Warm \/ ReceiveWarm \/ GiveUpWarm
    BY <2>4, StutterInv DEF WindowEnds, Connection, Clear, Warm, ReceiveWarm, GiveUpWarm,
                            pageVars, histVars
  <2>5. CASE \E k \in calls, answer \in {"ok", "error", "busy"}, effect \in BOOLEAN :
               Run(k, answer, effect)
    BY <2>5, RunInv
  <2>6. CASE \E n \in 0..Len(WarmList) : \E good \in SUBSET (1..n) : RunWarm(good, n)
    BY <2>6, StutterInv DEF RunWarm, pageVars, histVars
  <2>7. CASE Done \/ UNCHANGED vars
    BY <2>7, StutterInv DEF Done, vars, pageVars, histVars
  <2> QED BY <2>1, <2>2, <2>3, <2>4, <2>5, <2>6, <2>7 DEF Next, Page, Modem
<1> QED BY <1>1, InitInv, PTL DEF Spec

\* The modem runs a write at most once, whatever is lost, late, busy or given up.
THEOREM WritesRunOnce == Spec => []WriteOnce
<1>1. WriteInv => WriteOnce
  BY DEF WriteInv, OneAttempt, WriteOnce
<1> QED BY <1>1, WritesInvariant, PTL

-----------------------------------------------------------------------------
(* The read cache                                                          *)

Distinct(ord) == \A i, j \in 1..Len(ord) : ord[i] = ord[j] => i = j
Holds(ord, c) == \E i \in 1..Len(ord) : ord[i] = c

\* f[n] is what is left of the first n keys of an order without c.
Filters(f, ord, c, S) ==
    /\ f \in [0..Len(ord) -> Seq(S)]
    /\ Without(ord, c) = f[Len(ord)] /\ f[0] = <<>>
    /\ \A n \in 1..Len(ord) :
          f[n] = IF ord[n] = c THEN f[n - 1] ELSE Append(f[n - 1], ord[n])

\* Without goes through the order key by key.
LEMMA WithoutSteps ==
  ASSUME NEW S, NEW ord \in Seq(S), NEW c
  PROVE  \E f : Filters(f, ord, c, S)
<1> DEFINE size == Len(ord)
           V == Seq(S)
           base == <<>>
           step == [n \in 1..size |->
                     [s \in V |-> IF ord[n] = c THEN s ELSE Append(s, ord[n])]]
           Value(g, n) == IF n = 0 THEN <<>>
                          ELSE IF ord[n] = c THEN g[n - 1] ELSE Append(g[n - 1], ord[n])
           Def(g) == g = [n \in 0..size |-> Value(g, n)]
<1>1. size \in Nat /\ base \in V
  OBVIOUS
<1>2. Steps(step, size, V)
  <2>1. \A n \in 1..size, s \in V :
           (IF ord[n] = c THEN s ELSE Append(s, ord[n])) \in V
    OBVIOUS
  <2>2. QED BY <2>1 DEF Steps
<1>3. \A n \in 1..size, s \in V :
         step[n][s] = IF ord[n] = c THEN s ELSE Append(s, ord[n])
  OBVIOUS
<1>4. Without(ord, c) = (CHOOSE g : Def(g))[size]
  BY DEF Without
<1> HIDE DEF V, step, base, size
<1>5. PICK f : Iterates(f, base, step, size, V)
  BY <1>1, <1>2, Recursion, Zenon
<1>6. /\ f \in [0..size -> V] /\ f[0] = <<>>
      /\ \A n \in 1..size : f[n] = step[n][f[n - 1]]
  BY <1>5 DEF Iterates, base
<1>7. \A n \in 1..size : f[n - 1] \in V /\ n \in 0..size /\ n # 0
  BY <1>1, <1>6
<1>8. \A n \in 1..size :
         f[n] = IF ord[n] = c THEN f[n - 1] ELSE Append(f[n - 1], ord[n])
  BY <1>3, <1>6, <1>7
<1>9. Def(f)
  <2>1. ASSUME NEW n \in 0..size PROVE f[n] = Value(f, n)
    <3>1. CASE n = 0 BY <1>6, <3>1
    <3>2. CASE n # 0
      <4>1. n \in 1..size BY <1>1, <3>2
      <4>2. QED BY <1>8, <3>2, <4>1
    <3>3. QED BY <3>1, <3>2
  <2> HIDE DEF Value
  <2>2. QED BY <1>6, <2>1
<1> HIDE DEF Def
<1>10. PICK g : Def(g) /\ Without(ord, c) = g[size]
  BY <1>4, <1>9
<1>11. \A n \in 0..size : g[n] = Value(g, n)
  <2> HIDE DEF Value
  <2>1. QED BY <1>10 DEF Def
<1>12. /\ g[0] = <<>>
       /\ \A n \in 1..size :
             g[n] = IF ord[n] = c THEN g[n - 1] ELSE Append(g[n - 1], ord[n])
  BY <1>1, <1>11
<1>13. g[size] = f[size]
  <2>1. g[0] = f[0] /\ \A n \in 1..size : g[n - 1] = f[n - 1] => g[n] = f[n]
    BY <1>6, <1>8, <1>12
  <2>2. QED BY <1>1, <2>1, SameEnd
<1>14. Without(ord, c) = f[size]
  BY <1>1, <1>10, <1>13
<1>15. QED BY <1>6, <1>8, <1>14 DEF V, size, Filters

\* What is left of an order that holds no key twice: every other key, once.
LEMMA WithoutKeeps ==
  ASSUME NEW S, NEW ord \in Seq(S), NEW c, Distinct(ord)
  PROVE  /\ Without(ord, c) \in Seq(S) /\ Distinct(Without(ord, c))
         /\ Len(Without(ord, c)) <= Len(ord) /\ ~Holds(Without(ord, c), c)
         /\ \A d : d # c /\ Holds(ord, d) => Holds(Without(ord, c), d)
<1> DEFINE size == Len(ord)
<1>0. PICK f : Filters(f, ord, c, S)
  BY WithoutSteps
<1>1. /\ f \in [0..size -> Seq(S)] /\ Without(ord, c) = f[size] /\ f[0] = <<>>
      /\ \A n \in 1..size :
            f[n] = IF ord[n] = c THEN f[n - 1] ELSE Append(f[n - 1], ord[n])
  BY <1>0 DEF Filters
<1> DEFINE Part(n) == /\ Len(f[n]) <= n /\ Distinct(f[n])
                      /\ \A i \in 1..Len(f[n]) :
                            f[n][i] # c /\ \E m \in 1..n : f[n][i] = ord[m]
                      /\ \A m \in 1..n : ord[m] # c => Holds(f[n], ord[m])
           A == {n \in 0..size : Part(n)}
<1>2. size \in Nat
  OBVIOUS
<1>3. 0 \in A
  BY <1>1, <1>2 DEF Distinct, Holds
<1>4. ASSUME NEW n \in 1..size, n - 1 \in A PROVE n \in A
  <2>1. Part(n - 1) /\ f[n - 1] \in Seq(S) /\ ord[n] \in S /\ n \in 0..size
    <3>1. Part(n - 1) BY <1>4
    <3>2. n \in 0..size /\ n - 1 \in 0..size BY <1>2
    <3>3. f[n - 1] \in Seq(S) BY <1>1, <3>2
    <3>4. ord[n] \in S OBVIOUS
    <3>5. QED BY <3>1, <3>2, <3>3, <3>4
  <2> DEFINE s == f[n - 1]
             t == f[n]
  <2>2. CASE ord[n] = c
    <3>1. t = s BY <1>1, <2>2
    <3>2. QED BY <2>1, <2>2, <3>1
  <2>3. CASE ord[n] # c
    <3>1. t = Append(s, ord[n]) BY <1>1, <2>3
    <3>2. /\ Len(s) \in Nat /\ Len(t) = Len(s) + 1 /\ t[Len(s) + 1] = ord[n]
          /\ \A i \in 1..Len(s) : t[i] = s[i]
      BY <2>1, <3>1
    <3>3. /\ Len(s) <= n - 1 /\ Distinct(s)
          /\ \A i \in 1..Len(s) : s[i] # c /\ \E m \in 1..(n - 1) : s[i] = ord[m]
          /\ \A m \in 1..(n - 1) : ord[m] # c => Holds(s, ord[m])
      BY <2>1
    <3> HIDE DEF s, t, Part
    <3>4. \A i \in 1..Len(t) : i \in 1..Len(s) \/ i = Len(s) + 1
      BY <3>2
    <3>5. \A i \in 1..Len(s) : s[i] # ord[n]
      BY <1>2, <3>3 DEF Distinct
    <3>6. Distinct(t)
      BY <3>2, <3>3, <3>4, <3>5 DEF Distinct
    <3>7. \A i \in 1..Len(t) : t[i] # c /\ \E m \in 1..n : t[i] = ord[m]
      BY <2>3, <3>2, <3>3, <3>4
    <3>8. \A m \in 1..n : ord[m] # c => Holds(t, ord[m])
      <4>1. \A m \in 1..n : m \in 1..(n - 1) \/ m = n OBVIOUS
      <4>2. Holds(t, ord[n]) BY <3>2 DEF Holds
      <4>3. \A d : Holds(s, d) => Holds(t, d) BY <3>2 DEF Holds
      <4>4. QED BY <3>3, <4>1, <4>2, <4>3
    <3>9. Len(t) <= n
      BY <3>2, <3>3
    <3>10. QED BY <2>1, <3>6, <3>7, <3>8, <3>9 DEF Part, t
  <2>4. QED BY <2>2, <2>3
<1>5. Part(size)
  <2>1. \A n \in 0..size : n \in A
    <3> HIDE DEF A, size
    <3>1. QED BY <1>2, <1>3, <1>4, RangeInduction
  <2>2. QED BY <1>2, <2>1
<1>6. f[size] \in Seq(S)
  BY <1>1, <1>2
<1>7. QED BY <1>1, <1>5, <1>6 DEF Holds

\* What holds of a cache and its order: CacheBounded, and that what the chain
\* put is no older than the writes reported as done.
Entries == {Nothing} \cup [value : Int, by : {"chain", "warm"}]
Fresh(c, entry, done) == c \in StateReads /\ entry.by = "chain" => entry.value >= done
Fits(store, ord, done) ==
    /\ store \in [Commands -> Entries] /\ ord \in Seq(Reads)
    /\ Distinct(ord) /\ Len(ord) <= CacheMax
    /\ \A c \in Commands : /\ store[c] # Nothing => Holds(ord, c)
                           /\ Fresh(c, store[c], done)

\* An entry that is put keeps all of it.
LEMMA PutFits ==
  ASSUME NEW store, NEW ord, NEW done, Fits(store, ord, done),
         NEW c \in Reads, NEW entry \in Entries \ {Nothing}, Fresh(c, entry, done)
  PROVE  \E store2, ord2 : /\ Put(<<store, ord>>, c, entry) = <<store2, ord2>>
                           /\ Fits(store2, ord2, done)
<1> DEFINE new == [store EXCEPT ![c] = entry]
           put == PutOrder(ord, c)
<1>1. /\ new \in [Commands -> Entries] /\ new[c] = entry
      /\ \A d \in Commands : d # c => new[d] = store[d]
  BY DEF Fits, Commands
<1>2. \A d \in Commands : Fresh(d, new[d], done)
  BY <1>1 DEF Fits
<1>3. CASE store[c] # Nothing
  <2>1. Put(<<store, ord>>, c, entry) = <<new, ord>>
    BY <1>3 DEF Put
  <2>2. Fits(new, ord, done)
    BY <1>1, <1>2, <1>3 DEF Fits, Commands
  <2>3. QED BY <2>1, <2>2
<1>4. CASE store[c] = Nothing
  <2>1. Put(<<store, ord>>, c, entry) = Evict(new, put)
    BY <1>4 DEF Put
  <2> DEFINE rest == Without(ord, c)
  <2>2. /\ rest \in Seq(Reads) /\ Distinct(rest) /\ Len(rest) <= Len(ord)
        /\ ~Holds(rest, c) /\ \A d : d # c /\ Holds(ord, d) => Holds(rest, d)
    BY WithoutKeeps DEF Fits
  <2>3. put = Append(rest, c) BY DEF PutOrder
  <2> HIDE DEF rest, put, new
  <2>4. /\ put \in Seq(Reads) /\ Len(put) = Len(rest) + 1 /\ put[Len(put)] = c
        /\ Len(rest) \in Nat /\ \A i \in 1..Len(rest) : put[i] = rest[i]
    BY <2>2, <2>3
  <2>5. Distinct(put)
    <3>1. \A i \in 1..Len(put) : i \in 1..Len(rest) \/ i = Len(put) BY <2>4
    <3>2. \A i \in 1..Len(rest) : rest[i] # c BY <2>2 DEF Holds
    <3>3. QED BY <2>2, <2>4, <3>1, <3>2 DEF Distinct
  <2>6. \A d \in Commands : new[d] # Nothing => Holds(put, d)
    <3>1. Holds(put, c) BY <2>4 DEF Holds
    <3>2. \A d : Holds(rest, d) => Holds(put, d) BY <2>4 DEF Holds
    <3>3. QED BY <1>1, <2>2, <3>1, <3>2 DEF Fits
  <2>7. Len(put) <= CacheMax + 1 /\ CacheMax \in Nat \ {0} /\ Len(ord) \in Nat
    BY <2>2, <2>4, ClientAssumption DEF Fits
  <2>8. CASE Len(put) <= CacheMax
    <3>1. Evict(new, put) = <<new, put>>
      BY <2>7, <2>4, <2>8 DEF Evict
    <3>2. Fits(new, put, done)
      BY <1>1, <1>2, <2>4, <2>5, <2>6, <2>8 DEF Fits
    <3>3. QED BY <2>1, <3>1, <3>2
  <2>9. CASE ~(Len(put) <= CacheMax)
    <3> DEFINE left == [new EXCEPT ![Head(put)] = Nothing]
               tail == Tail(put)
    <3>1. Evict(new, put) = <<left, tail>>
      <4>1. Len(put) > CacheMax BY <2>4, <2>7, <2>9
      <4>2. QED BY <4>1, Zenon DEF Evict
    <3>2. /\ tail \in Seq(Reads) /\ Len(tail) = Len(put) - 1
          /\ \A i \in 1..Len(tail) : tail[i] = put[i + 1]
          /\ Head(put) = put[1] /\ Len(put) \in Nat \ {0}
      BY <2>4, <2>7, <2>9
    <3> DEFINE first == Head(put)
    <3>3. /\ left \in [Commands -> Entries]
          /\ \A d \in Commands : left[d] = IF d = first THEN Nothing ELSE new[d]
      BY <1>1 DEF Entries
    <3> HIDE DEF left, tail, first
    <3>4. Distinct(tail)
      <4>1. \A i \in 1..Len(tail) : i + 1 \in 1..Len(put) BY <3>2
      <4>2. \A i, j \in 1..Len(tail) : tail[i] = tail[j] => i + 1 = j + 1
        BY <2>5, <3>2, <4>1 DEF Distinct
      <4>3. QED BY <4>2 DEF Distinct
    <3>5. ASSUME NEW d \in Commands, left[d] # Nothing PROVE Holds(tail, d)
      <4>1. d # first /\ Holds(put, d) BY <2>6, <3>3, <3>5
      <4>2. PICK i \in 1..Len(put) : put[i] = d BY <4>1 DEF Holds
      <4>3. i # 1 BY <3>2, <4>1, <4>2 DEF first
      <4>4. i - 1 \in 1..Len(tail) /\ tail[i - 1] = d BY <3>2, <4>2, <4>3
      <4>5. QED BY <4>4 DEF Holds
    <3>6. \A d \in Commands : Fresh(d, left[d], done)
      BY <1>2, <3>3 DEF Fresh, Nothing
    <3>7. Len(tail) <= CacheMax
      BY <2>7, <3>2
    <3>8. Fits(left, tail, done)
      BY <3>2, <3>3, <3>4, <3>5, <3>6, <3>7 DEF Fits
    <3>9. QED BY <2>1, <3>1, <3>8
  <2>10. QED BY <2>8, <2>9
<1>5. QED BY <1>3, <1>4

\* The results of a warm-up, put one after the other, keep it as well.
LEMMA PutAllFits ==
  ASSUME NEW done, Fits(cache, order, done),
         NEW got \in Seq(Int), Len(got) <= Len(WarmList)
  PROVE  Fits(PutAll(got)[1], PutAll(got)[2], done)
<1> DEFINE size == Len(got)
           V == {p \in [Commands -> Entries] \X Seq(Reads) : Fits(p[1], p[2], done)}
           base == <<cache, order>>
           Then(p, n) == IF got[n] = -1 THEN p
                          ELSE Put(p, WarmList[n], [value |-> got[n], by |-> "warm"])
           step == [n \in 1..size |-> [p \in V |-> Then(p, n)]]
           Value(g, n) == IF n = 0 THEN base ELSE Then(g[n - 1], n)
           Def(g) == g = [n \in 0..size |-> Value(g, n)]
<1>1. size \in Nat
  OBVIOUS
<1>2. base \in V
  BY DEF Fits
<1>3. ASSUME NEW n \in 1..size, NEW p \in V PROVE Then(p, n) \in V
  <2> DEFINE entry == [value |-> got[n], by |-> "warm"]
             c == WarmList[n]
  <2>1. c \in Reads
    BY <1>1, ClientAssumption DEF Reads
  <2>2. entry \in Entries \ {Nothing} /\ entry.by # "chain"
    BY DEF Entries, Nothing
  <2>3. Fits(p[1], p[2], done) /\ p = <<p[1], p[2]>>
    OBVIOUS
  <2> HIDE DEF entry, c, V
  <2>4. Fresh(c, entry, done)
    BY <2>2 DEF Fresh
  <2>5. PICK store2, ord2 : /\ Put(<<p[1], p[2]>>, c, entry) = <<store2, ord2>>
                            /\ Fits(store2, ord2, done)
    BY <2>1, <2>2, <2>3, <2>4, PutFits
  <2>6. <<store2, ord2>> \in V
    BY <2>5 DEF V, Fits
  <2>7. Put(p, c, entry) \in V
    BY <2>3, <2>5, <2>6
  <2>8. QED BY <2>7 DEF c, entry
<1>4. PutAll(got) = (CHOOSE g : Def(g))[size]
  BY DEF PutAll
<1> HIDE DEF V, base, size, Then
<1>5. /\ Steps(step, size, V)
      /\ \A n \in 1..size, p \in V : step[n][p] = Then(p, n)
  BY <1>3 DEF Steps
<1> HIDE DEF step
<1>6. PICK f : Iterates(f, base, step, size, V)
  BY <1>1, <1>2, <1>5, Recursion, Zenon
<1>7. /\ f \in [0..size -> V] /\ f[0] = base
      /\ \A n \in 1..size : f[n] = step[n][f[n - 1]]
  BY <1>6 DEF Iterates
<1>8. \A n \in 1..size : f[n] = Then(f[n - 1], n)
  <2>1. \A n \in 1..size : f[n - 1] \in V BY <1>1, <1>6, IterateAt
  <2>2. QED BY <1>5, <1>7, <2>1
<1>9. Def(f)
  <2>1. ASSUME NEW n \in 0..size PROVE f[n] = Value(f, n)
    <3>1. CASE n = 0 BY <1>7, <3>1
    <3>2. CASE n # 0
      <4>1. n \in 1..size BY <1>1, <3>2
      <4>2. QED BY <1>8, <3>2, <4>1
    <3>3. QED BY <3>1, <3>2
  <2> HIDE DEF Value
  <2>2. QED BY <1>7, <2>1
<1> HIDE DEF Def
<1>10. PICK g : Def(g) /\ PutAll(got) = g[size]
  BY <1>4, <1>9
<1>11. \A n \in 0..size : g[n] = Value(g, n)
  <2> HIDE DEF Value
  <2>1. QED BY <1>10 DEF Def
<1>12. g[0] = base /\ \A n \in 1..size : g[n] = Then(g[n - 1], n)
  BY <1>1, <1>11
<1>13. g[size] = f[size]
  <2>1. g[0] = f[0] /\ \A n \in 1..size : g[n - 1] = f[n - 1] => g[n] = f[n]
    BY <1>7, <1>8, <1>12
  <2>2. QED BY <1>1, <2>1, SameEnd
<1>14. PutAll(got) \in V
  BY <1>1, <1>7, <1>10, <1>13
<1>15. QED BY <1>14 DEF V

-----------------------------------------------------------------------------
(* Answers that are no older than the writes reported as done              *)

\* Only the request at the head of the queue is under way, and the step that
\* reports a write as done ends it: what the chain still waits for then was
\* asked later.
Timely(k) ==
    /\ k.value <= effects
    /\ req[k.r].at \in {"sent", "backoff"} => k.try <= req[k.r].try
    /\ Awaited(k) /\ k.at = "ok" => k.value >= acked

ReadInv ==
    /\ Fits(cache, order, acked)
    /\ acked \in Nat /\ acked <= effects
    /\ \A k \in calls : Timely(k)
    /\ warm.at = "answered" => warm.got \in Seq(Int) /\ Len(warm.got) <= Len(WarmList)

ClientInv == WriteInv /\ ReadInv

\* Entries that are dropped or have expired leave the rest as it was.
LEMMA DropFits ==
  ASSUME NEW store, NEW ord, NEW done, Fits(store, ord, done),
         NEW store2 \in [Commands -> Entries],
         \A c \in Commands : store2[c] \in {store[c], Nothing}
  PROVE  Fits(store2, ord, done)
BY DEF Fits, Fresh, Nothing

\* A request under way is over: what the page waited for is there or lost, and
\* the cache holds nothing of the states from before a write.
LEMMA SettleReads ==
  ASSUME ClientInv, NEW r \in Requests, queue # <<>>, Head(queue) = r,
         NEW ok \in BOOLEAN, NEW value \in Int, Settle(r, ok, value),
         calls' \subseteq calls, UNCHANGED <<effects, warm>>,
         acked' \in Nat, acked' <= effects,
         acked' # acked => ok /\ ~Cacheable(req[r]),
         ok /\ Cacheable(req[r]) => value >= acked
  PROVE  ReadInv'
<1>1. Fits(cache', order', acked')
  <2>1. CASE ok /\ Cacheable(req[r])
    <3> DEFINE entry == [value |-> value, by |-> "chain"]
               c == req[r].cmd
    <3>1. <<cache', order'>> = Put(<<cache, order>>, c, entry)
             \/ (cache' = Put(<<cache, order>>, c, entry)[1]
                 /\ order' = Put(<<cache, order>>, c, entry)[2])
      BY <2>1 DEF Settle
    <3>2. c \in Reads /\ entry \in Entries \ {Nothing} /\ Fresh(c, entry, acked)
      BY <2>1 DEF Cacheable, Entries, Nothing, Fresh
    <3>3. Fits(cache, order, acked)
      BY DEF ClientInv, ReadInv
    <3> HIDE DEF entry, c
    <3>4. PICK store2, ord2 : /\ Put(<<cache, order>>, c, entry) = <<store2, ord2>>
                              /\ Fits(store2, ord2, acked)
      BY <3>2, <3>3, PutFits
    <3>5. cache' = store2 /\ order' = ord2 /\ acked' = acked
      BY <2>1, <3>1, <3>4
    <3>6. QED BY <3>4, <3>5
  <2>2. CASE ok /\ ~Cacheable(req[r])
    <3>1. cache' = WithoutState(cache) /\ order' = order
      BY <2>2 DEF Settle
    <3>2. Fits(cache, order, acked)
      BY DEF ClientInv, ReadInv
    <3>3. cache' \in [Commands -> Entries]
          /\ \A c \in Commands : cache'[c] = IF c \in StateReads THEN Nothing ELSE cache[c]
      BY <3>1, <3>2 DEF WithoutState, Fits, Entries
    <3>4. \A c \in Commands : Fresh(c, cache'[c], acked')
      BY <3>3 DEF Fresh, Nothing
    <3>5. QED BY <3>1, <3>2, <3>3, <3>4 DEF Fits
  <2>3. CASE ~ok
    BY <2>3 DEF Settle, ClientInv, ReadInv
  <2>4. QED BY <2>1, <2>2, <2>3
<1>2. \A k \in calls' : Timely(k)'
  <2> TAKE k \in calls'
  <2>1. k \in calls /\ k.r \in Requests /\ k.value <= effects
    BY DEF ClientInv, ReadInv, WriteInv, CallRecord, Timely
  <2>2. k.r # r => req[k.r].at \notin {"sent", "backoff"}
    BY <2>1 DEF ClientInv, WriteInv, AtHead
  <2>3. /\ req'[k.r] = IF k.r = r THEN Over(req[r].cmd, IF ok THEN "done" ELSE "failed")
                                  ELSE req[k.r]
        /\ Over(req[r].cmd, IF ok THEN "done" ELSE "failed").at \in {"done", "failed"}
    BY <2>1 DEF Settle, ClientInv, WriteInv, Over, Unused
  <2>4. req'[k.r].at \notin {"sent", "backoff"}
    BY <2>2, <2>3
  <2>5. QED BY <2>1, <2>4 DEF Timely, Awaited
<1>3. QED BY <1>1, <1>2 DEF ClientInv, ReadInv

\* An attempt is made: the answers to earlier ones are no longer waited for.
LEMMA AttemptReads ==
  ASSUME ClientInv, NEW r \in Requests, queue # <<>>, Head(queue) = r,
         req[r].at \in {"queued", "backoff"},
         Attempt(r), UNCHANGED <<effects, warm, acked>>
  PROVE  ReadInv'
<1>0. acked \in Nat /\ acked <= effects /\ -1 \in Int
  BY DEF ClientInv, ReadInv
<1>1. CASE ~connected
  <2>1. Settle(r, FALSE, -1) /\ calls' = calls
    BY <1>1 DEF Attempt
  <2>2. QED BY <1>0, <2>1, SettleReads
<1>2. CASE connected
  <2> DEFINE new == [r |-> r, try |-> req[r].try + 1, at |-> "posted", value |-> -1]
  <2>1. /\ req' = [req EXCEPT ![r].at = "sent", ![r].try = @ + 1]
        /\ calls' = calls \union {new} /\ UNCHANGED <<cache, order>>
    BY <1>2 DEF Attempt
  <2>2. /\ req[r] \in RequestRecord /\ req'[r].at = "sent" /\ req'[r].try = req[r].try + 1
        /\ \A q \in Requests \ {r} : req'[q] = req[q]
    BY <2>1 DEF ClientInv, WriteInv, RequestRecord
  <2>3. \A k \in calls' : Timely(k)'
    <3> TAKE k \in calls'
    <3>1. CASE k = new
      <4>1. new.r = r /\ new.at = "posted" /\ new.try = req[r].try + 1 /\ new.value = -1
        OBVIOUS
      <4>2. -1 <= effects' /\ effects' \in Nat BY DEF ClientInv, WriteInv
      <4> HIDE DEF new
      <4>3. QED BY <2>2, <3>1, <4>1, <4>2 DEF Timely, RequestRecord
    <3>2. CASE k \in calls
      <4>1. k \in CallRecord /\ Timely(k)
        BY <3>2 DEF ClientInv, WriteInv, ReadInv
      <4>2. CASE k.r = r
        <5>1. req[r].at # "queued"
          BY <3>2, <4>2 DEF ClientInv, WriteInv, NotBegun
        <5>2. k.try <= req[r].try
          BY <4>1, <4>2, <5>1 DEF Timely
        <5>3. k.try < req'[r].try /\ k.try \in Nat /\ req'[r].try \in Nat
          BY <2>2, <4>1, <5>2 DEF RequestRecord, CallRecord
        <5>4. QED BY <4>1, <4>2, <5>3 DEF Timely, Awaited
      <4>3. CASE k.r # r
        <5>1. req'[k.r] = req[k.r] BY <2>2, <4>1, <4>3 DEF CallRecord
        <5>2. QED BY <4>1, <5>1 DEF Timely, Awaited
      <4>4. QED BY <4>2, <4>3
    <3>3. QED BY <2>1, <3>1, <3>2
  <2>4. QED BY <2>1, <2>3 DEF ClientInv, ReadInv
<1>3. QED BY <1>1, <1>2

\* A failed attempt ends the request, or it waits for the next.
LEMMA FailReads ==
  ASSUME ClientInv, NEW r \in Requests, req[r].at = "sent", FailOrRetry(r),
         calls' \subseteq calls, UNCHANGED <<effects, warm, acked>>
  PROVE  ReadInv'
<1>1. queue # <<>> /\ Head(queue) = r
  BY DEF ClientInv, WriteInv, AtHead
<1>2. CASE Settle(r, FALSE, -1)
  <2>1. acked \in Nat /\ acked <= effects /\ -1 \in Int
    BY DEF ClientInv, ReadInv
  <2>2. QED BY <1>1, <1>2, <2>1, SettleReads
<1>3. CASE ~Settle(r, FALSE, -1)
  <2>1. req' = [req EXCEPT ![r].at = "backoff"] /\ UNCHANGED <<cache, order>>
    BY <1>3 DEF FailOrRetry
  <2>2. /\ req'[r].at = "backoff" /\ req'[r].try = req[r].try
        /\ \A q \in Requests \ {r} : req'[q] = req[q]
    BY <2>1 DEF ClientInv, WriteInv, RequestRecord
  <2>3. \A k \in calls' : Timely(k)'
    <3> TAKE k \in calls'
    <3>1. k.r \in Requests /\ Timely(k)
      BY DEF ClientInv, WriteInv, ReadInv, CallRecord
    <3>2. CASE k.r = r BY <2>2, <3>1, <3>2 DEF Timely, Awaited
    <3>3. CASE k.r # r
      <4>1. req'[k.r] = req[k.r] BY <2>2, <3>1, <3>3
      <4>2. QED BY <3>1, <4>1 DEF Timely, Awaited
    <3>4. QED BY <3>2, <3>3
  <2>4. QED BY <2>1, <2>3 DEF ClientInv, ReadInv
<1>4. QED BY <1>2, <1>3

\* A new request waits for no answer yet; an entry past its time is dropped.
LEMMA SendReads ==
  ASSUME ClientInv, NEW r \in Requests, NEW c \in Commands, NEW fresh \in BOOLEAN,
         AnswerFromCache(r, c) \/ Send(r, c, fresh)
  PROVE  ReadInv'
<1>1. /\ req[r].at = "unused" /\ UNCHANGED <<order, calls, effects, acked, warm>>
      /\ cache' = cache \/ cache' = [cache EXCEPT ![c] = Nothing]
  BY DEF AnswerFromCache, Send, NextRequest, histVars
<1>2. Fits(cache', order', acked')
  <2>1. Fits(cache, order, acked) BY DEF ClientInv, ReadInv
  <2>2. CASE cache' = [cache EXCEPT ![c] = Nothing]
    <3>1. /\ cache' \in [Commands -> Entries]
          /\ \A d \in Commands : cache'[d] \in {cache[d], Nothing}
      BY <2>1, <2>2 DEF Fits, Entries
    <3>2. QED BY <1>1, <2>1, <3>1, DropFits
  <2>3. QED BY <1>1, <2>1, <2>2
<1>3. \A k \in calls : k.r # r /\ k.r \in Requests /\ Timely(k)
  BY <1>1 DEF ClientInv, ReadInv, WriteInv, NotBegun, CallRecord
<1>4. \A q \in Requests \ {r} : req'[q] = req[q]
  BY DEF AnswerFromCache, Send, ClientInv, WriteInv
<1>5. \A k \in calls' : Timely(k)'
  BY <1>1, <1>3, <1>4 DEF Timely, Awaited
<1>6. QED BY <1>1, <1>2, <1>5 DEF ClientInv, ReadInv

\* The chain goes on.
LEMMA ChainReads ==
  ASSUME ClientInv, Start \/ Retry
  PROVE  ReadInv'
<1> DEFINE r == Head(queue)
<1>1. /\ queue # <<>> /\ req[r].at \in {"queued", "backoff"}
      /\ UNCHANGED <<effects, warm, acked>>
  BY DEF Start, Retry, histVars
<1>2. r \in Requests
  <2>1. queue \in Seq(Requests) BY DEF ClientInv, WriteInv
  <2>2. QED BY <1>1, <2>1
<1>3. Attempt(r) \/ (Settle(r, FALSE, -1) /\ UNCHANGED calls)
  BY DEF Start, Retry
<1>4. acked \in Nat /\ acked <= effects /\ -1 \in Int
  BY DEF ClientInv, ReadInv
<1> HIDE DEF r
<1>5. CASE Attempt(r)
  BY <1>1, <1>2, <1>5, AttemptReads DEF r
<1>6. CASE Settle(r, FALSE, -1) /\ UNCHANGED calls
  BY <1>1, <1>2, <1>4, <1>6, SettleReads DEF r
<1>7. QED BY <1>3, <1>5, <1>6

\* An answer comes in, or the page gives up on it.
LEMMA AnswerReads ==
  ASSUME ClientInv, NEW k \in calls, Receive(k) \/ TimeOut(k)
  PROVE  ReadInv'
<1>1. /\ Awaited(k) /\ calls' \subseteq calls /\ UNCHANGED <<effects, warm>>
  BY DEF Receive, TimeOut, histVars
<1>2. /\ k.r \in Requests /\ req[k.r].at = "sent"
      /\ queue # <<>> /\ Head(queue) = k.r
  BY <1>1, UnderWay DEF ClientInv
<1>3. k \in CallRecord /\ Timely(k) /\ acked \in Nat /\ acked <= effects /\ -1 \in Int
  BY DEF ClientInv, WriteInv, ReadInv
<1>4. CASE TimeOut(k)
  <2>1. FailOrRetry(k.r) /\ UNCHANGED acked BY <1>4 DEF TimeOut, histVars
  <2>2. QED BY <1>1, <1>2, <2>1, FailReads
<1>5. CASE Receive(k) /\ k.at = "ok"
  <2>1. /\ Settle(k.r, TRUE, k.value)
        /\ acked' = IF req[k.r].cmd \in Writes /\ k.value > acked THEN k.value ELSE acked
    BY <1>5 DEF Receive
  <2>2. k.value \in Int /\ k.value >= acked /\ k.value <= effects
    BY <1>1, <1>3, <1>5 DEF Timely, CallRecord
  <2>3. acked' \in Nat /\ acked' <= effects
    BY <1>3, <2>1, <2>2
  <2>4. acked' # acked => ~Cacheable(req[k.r])
    BY <2>1, ClientAssumption DEF Cacheable, Reads
  <2>5. QED BY <1>1, <1>2, <2>1, <2>2, <2>3, <2>4, SettleReads
<1>6. CASE Receive(k) /\ k.at # "ok"
  <2>1. (FailOrRetry(k.r) \/ Settle(k.r, FALSE, -1)) /\ UNCHANGED acked
    BY <1>6 DEF Receive, OnBusy
  <2>2. CASE FailOrRetry(k.r)
    BY <1>1, <1>2, <2>1, <2>2, FailReads
  <2>3. CASE Settle(k.r, FALSE, -1)
    BY <1>1, <1>2, <1>3, <2>1, <2>3, SettleReads
  <2>4. QED BY <2>1, <2>2, <2>3
<1>7. QED BY <1>4, <1>5, <1>6

\* A call that runs now answers with what has been written so far.
LEMMA RunReads ==
  ASSUME ClientInv, NEW k \in calls, NEW answer \in {"ok", "error", "busy"},
         NEW effect \in BOOLEAN, Run(k, answer, effect)
  PROVE  ReadInv'
<1>1. /\ k \in CallRecord /\ UNCHANGED <<req, cache, order, acked, warm>>
      /\ effects' \in Nat /\ effects <= effects' /\ effects \in Nat
      /\ acked \in Nat /\ acked <= effects
  BY DEF Run, pageVars, ClientInv, WriteInv, ReadInv
<1>2. PICK new : /\ calls' \subseteq calls \union {new}
                 /\ new.r = k.r /\ new.try = k.try /\ new.value = effects'
  <2>1. /\ [k EXCEPT !.at = answer, !.value = effects'].r = k.r
        /\ [k EXCEPT !.at = answer, !.value = effects'].try = k.try
        /\ [k EXCEPT !.at = answer, !.value = effects'].value = effects'
    BY <1>1 DEF CallRecord
  <2>2. QED BY <2>1 DEF Run
<1>3. Timely(k)
  BY DEF ClientInv, ReadInv
<1>4. Timely(new)'
  BY <1>1, <1>2, <1>3 DEF Timely, Awaited
<1>5. ASSUME NEW j \in calls PROVE Timely(j)'
  <2>1. Timely(j) /\ j.value \in Int BY DEF ClientInv, WriteInv, ReadInv, CallRecord
  <2>2. QED BY <1>1, <2>1 DEF Timely, Awaited
<1>6. QED BY <1>1, <1>2, <1>4, <1>5 DEF ClientInv, ReadInv

\* A warm-up comes back with as many values as commands at most, and they go
\* into the cache.
LEMMA WarmReads ==
  ASSUME ClientInv,
         \/ \E n \in 0..Len(WarmList) : \E good \in SUBSET (1..n) : RunWarm(good, n)
         \/ ReceiveWarm
  PROVE  ReadInv'
<1>1. CASE \E n \in 0..Len(WarmList) : \E good \in SUBSET (1..n) : RunWarm(good, n)
  <2>1. PICK n \in 0..Len(WarmList) : \E good \in SUBSET (1..n) : RunWarm(good, n)
    BY <1>1
  <2>2. PICK good \in SUBSET (1..n) : RunWarm(good, n)
    BY <2>1
  <2>3. /\ UNCHANGED <<pageVars, calls, effects, histVars>>
        /\ warm'.got = [i \in 1..n |-> IF i \in good THEN effects ELSE -1]
    BY <2>2 DEF RunWarm
  <2>4. effects \in Int /\ n \in Nat /\ n <= Len(WarmList)
    BY <2>1, ClientAssumption DEF ClientInv, WriteInv
  <2>5. warm'.got \in Seq(Int) /\ Len(warm'.got) = n
    BY <2>3, <2>4
  <2>6. Fits(cache', order', acked') /\ acked' \in Nat /\ acked' <= effects'
    BY <2>3 DEF pageVars, histVars, ClientInv, ReadInv
  <2>7. \A k \in calls' : Timely(k)'
    BY <2>3 DEF pageVars, histVars, ClientInv, ReadInv, Timely, Awaited
  <2>8. QED BY <2>4, <2>5, <2>6, <2>7 DEF ReadInv
<1>2. CASE ReceiveWarm
  <2>1. /\ warm.got \in Seq(Int) /\ Len(warm.got) <= Len(WarmList)
        /\ Fits(cache, order, acked)
    BY <1>2 DEF ReceiveWarm, ClientInv, ReadInv
  <2>2. /\ cache' = PutAll(warm.got)[1] /\ order' = PutAll(warm.got)[2]
        /\ UNCHANGED <<req, calls, effects, acked>> /\ warm' = Idle
    BY <1>2 DEF ReceiveWarm, histVars
  <2>3. Fits(PutAll(warm.got)[1], PutAll(warm.got)[2], acked)
    BY <2>1, PutAllFits
  <2>4. \A k \in calls' : Timely(k)'
    BY <2>2 DEF ClientInv, ReadInv, Timely, Awaited
  <2>5. warm'.at # "answered" BY <2>2 DEF Idle
  <2>6. QED BY <2>2, <2>3, <2>4, <2>5 DEF ClientInv, ReadInv
<1>3. QED BY <1>1, <1>2

\* The other steps leave the answers and the cache alone, or empty it.
LEMMA OtherReads ==
  ASSUME ClientInv,
         WindowEnds \/ Connection \/ Clear \/ Warm \/ GiveUpWarm \/ Done \/ UNCHANGED vars
  PROVE  ReadInv'
<1>1. UNCHANGED <<req, calls, effects, acked>>
  BY DEF WindowEnds, Connection, Clear, Warm, GiveUpWarm, Done, vars, pageVars, histVars
<1>2. \A k \in calls' : Timely(k)'
  BY <1>1 DEF ClientInv, ReadInv, Timely, Awaited
<1>3. warm' = warm \/ warm'.at # "answered"
  BY DEF WindowEnds, Connection, Clear, Warm, GiveUpWarm, Done, vars, pageVars, Idle
<1>4. Fits(cache', order', acked')
  <2>1. CASE Clear
    <3>1. cache' = [c \in Commands |-> Nothing] /\ order' = <<>> BY <2>1 DEF Clear
    <3>2. cache' \in [Commands -> Entries] /\ order' \in Seq(Reads) /\ Len(order') = 0
      BY <3>1 DEF Entries
    <3>3. \A c \in Commands : cache'[c] = Nothing BY <3>1
    <3>4. Distinct(order') BY <3>2 DEF Distinct
    <3>5. QED BY <3>2, <3>3, <3>4, ClientAssumption DEF Fits, Fresh, Nothing
  <2>2. CASE ~Clear
    <3>1. UNCHANGED <<cache, order, acked>>
      BY <2>2 DEF WindowEnds, Connection, Warm, GiveUpWarm, Done, vars, pageVars, histVars
    <3>2. QED BY <3>1 DEF ClientInv, ReadInv
  <2>3. QED BY <2>1, <2>2
<1>5. QED BY <1>1, <1>2, <1>3, <1>4 DEF ClientInv, ReadInv

\* The invariant of what is read, for any size of the cache and any warm-up.
THEOREM ReadsInvariant == Spec => []ReadInv
<1>1. Init => ReadInv
  <2> SUFFICES ASSUME Init PROVE ReadInv
    OBVIOUS
  <2>1. cache \in [Commands -> Entries] /\ \A c \in Commands : cache[c] = Nothing
    BY DEF Init, Entries
  <2>2. order \in Seq(Reads) /\ Len(order) = 0 /\ Distinct(order)
    BY DEF Init, Distinct
  <2>3. Fits(cache, order, acked)
    BY <2>1, <2>2, ClientAssumption DEF Fits, Fresh, Nothing
  <2>4. QED BY <2>3 DEF Init, Idle, ReadInv
<1>2. ClientInv /\ [Next]_vars => ReadInv'
  <2> SUFFICES ASSUME ClientInv, [Next]_vars PROVE ReadInv'
    OBVIOUS
  <2>1. CASE \E r \in Requests, c \in Commands :
               AnswerFromCache(r, c) \/ \E fresh \in BOOLEAN : Send(r, c, fresh)
    BY <2>1, SendReads
  <2>2. CASE Start \/ Retry
    BY <2>2, ChainReads
  <2>3. CASE \E k \in calls : Receive(k) \/ TimeOut(k)
    BY <2>3, AnswerReads
  <2>4. CASE \E k \in calls, answer \in {"ok", "error", "busy"}, effect \in BOOLEAN :
               Run(k, answer, effect)
    BY <2>4, RunReads
  <2>5. CASE \/ \E n \in 0..Len(WarmList) : \E good \in SUBSET (1..n) : RunWarm(good, n)
             \/ ReceiveWarm
    BY <2>5, WarmReads
  <2>6. CASE WindowEnds \/ Connection \/ Clear \/ Warm \/ GiveUpWarm \/ Done
             \/ UNCHANGED vars
    BY <2>6, OtherReads
  <2> QED BY <2>1, <2>2, <2>3, <2>4, <2>5, <2>6 DEF Next, Page, Modem
<1>3. QED BY <1>1, <1>2, WritesInvariant, PTL DEF Spec, ClientInv

\* The cache keeps to its size, and the eviction reaches whatever is in it, also
\* what was dropped, has expired and was read again (_cachePut, _dropStateCache).
THEOREM CacheStaysBounded == Spec => []CacheBounded
<1>1. ReadInv => CacheBounded
  <2> SUFFICES ASSUME ReadInv PROVE CacheBounded
    OBVIOUS
  <2>1. ASSUME NEW c \in Commands, Cached(c)
        PROVE  Cardinality({i \in 1..Len(order) : order[i] = c}) = 1
    <3>1. PICK i \in 1..Len(order) : order[i] = c
      BY <2>1 DEF ReadInv, Fits, Cached, Holds
    <3>2. {j \in 1..Len(order) : order[j] = c} = {i}
      BY <3>1 DEF ReadInv, Fits, Distinct
    <3>3. Cardinality({i}) = 1 BY FS_Singleton
    <3>4. QED BY <3>2, <3>3
  <2>2. QED BY <2>1 DEF CacheBounded, ReadInv, Fits
<1>2. QED BY <1>1, ReadsInvariant, PTL

\* What the chain reads is never from before a write the user was told about,
\* whatever answers come late (Settle, withTimeout, _dropStateCache).
THEOREM OnlyWarmIsStale == Spec => []StaleOnlyByWarm
<1>1. ReadInv => StaleOnlyByWarm
  <2> SUFFICES ASSUME ReadInv, NEW c \in StateReads, Cached(c), cache[c].value < acked
               PROVE  cache[c].by = "warm"
    BY DEF StaleOnlyByWarm
  <2>1. cache[c] \in [value : Int, by : {"chain", "warm"}] /\ Fresh(c, cache[c], acked)
    BY DEF ReadInv, Fits, Cached, Entries, Commands, Reads
  <2>2. acked \in Nat BY DEF ReadInv
  <2>3. QED BY <2>1, <2>2 DEF Fresh
<1>2. QED BY <1>1, ReadsInvariant, PTL
=============================================================================
