------------------------------ MODULE Notifier ------------------------------
(***************************************************************************)
(* The notices to WeChat, rust/src/notify.rs: a queue that notify fills,   *)
(* the loop of run that collects what is in it and sends one batch per     *)
(* window of 60 seconds, and the batches, each a task of its own with      *)
(* three tries. At the stop one more batch is sent and waited for, within  *)
(* the five seconds that main gives all tasks.                             *)
(*                                                                         *)
(* Time counts units of 12 seconds: a try with the pause after it takes at *)
(* most one (10 s and 1 or 2 s), the window is five. A notice is its       *)
(* number.                                                                 *)
(***************************************************************************)
EXTENDS Integers, Sequences, Functions

CONSTANTS
    QueueSize,      \* NOTIFY_QUEUE_SIZE (256)
    MaxPending,     \* NOTIFY_MAX_PENDING (1000)
    MaxTries,       \* NOTIFY_MAX_RETRIES (3)
    Window,         \* NOTIFY_INTERVAL in units of a try (5)
    MaxNotices      \* bound: notices of a behaviour

VARIABLES
    phase,          \* "runs", "stops", or "off": the process has ended
    queue,          \* tx and rx: notices that run has not received
    pending,        \* pending
    since,          \* time since last_send, up to Window
    batches         \* send_webhook under way: [notices, tries, time], the oldest first

VARIABLES           \* history
    made,           \* notices made
    arrived,        \* notices that WeChat has taken, in the order it first did
    refused,        \* notices that the queue did not take
    overflow,       \* notices that the list dropped
    givenUp         \* notices whose batch was tried MaxTries times

taken == <<arrived, givenUp>>
history == <<made, taken, refused, overflow>>
vars == <<phase, queue, pending, since, batches, history>>

NotifierInit ==
    /\ phase = "runs" /\ queue = <<>> /\ pending = <<>> /\ since = Window
    /\ batches = <<>>
    /\ made = 0 /\ arrived = <<>> /\ refused = {} /\ overflow = {}
    /\ givenUp = {}

-----------------------------------------------------------------------------
(* notify                                                                  *)

\* try_send: a full queue takes no notice, and one that run has left loses it.
Notify ==
    /\ phase # "off" /\ made < MaxNotices /\ made' = made + 1
    /\ IF phase = "runs" /\ Len(queue) < QueueSize
       THEN queue' = Append(queue, made') /\ UNCHANGED refused
       ELSE refused' = refused \union {made'} /\ UNCHANGED queue
    /\ UNCHANGED <<phase, pending, since, batches, taken, overflow>>

-----------------------------------------------------------------------------
(* run                                                                     *)

\* Mutant: a full list drops the notice that comes in.
CollectedNot(n) == IF Len(pending) >= MaxPending THEN pending ELSE Append(pending, n)

\* A full list drops its oldest notice.
Collected(n) ==
    Append(IF Len(pending) >= MaxPending THEN Tail(pending) ELSE pending, n)

Receive ==
    /\ phase = "runs" /\ queue # <<>>
    /\ queue' = Tail(queue) /\ pending' = Collected(Head(queue))
    /\ overflow' = IF Len(pending) >= MaxPending
                   THEN overflow \union {Head(pending)} ELSE overflow
    /\ UNCHANGED <<phase, since, batches, made, taken, refused>>

\* flush: the list goes to a task of its own.
Flushes ==
    /\ pending' = <<>>
    /\ batches' = Append(batches, [notices |-> pending, tries |-> 0, time |-> 0])

\* Mutant: the window does not begin anew with each batch.
SinceKept == since

\* last_send = now
SinceBatch == 0

WindowEnds ==
    /\ phase = "runs" /\ pending # <<>> /\ since >= Window
    /\ Flushes /\ since' = SinceBatch
    /\ UNCHANGED <<phase, queue, history>>

\* The stop: flush_and_wait, if there is something to send. What the select has
\* left in the queue nobody receives any more.
Stop ==
    /\ phase = "runs" /\ phase' = "stops"
    /\ IF pending = <<>> THEN UNCHANGED <<pending, batches>> ELSE Flushes
    /\ UNCHANGED <<queue, since, history>>

\* main has waited for the last batch and the other tasks, or for its five
\* seconds; what is still under way ends with the process.
Off ==
    /\ phase = "stops" /\ phase' = "off" /\ batches' = <<>>
    /\ UNCHANGED <<queue, pending, since, history>>

-----------------------------------------------------------------------------
(* send_webhook                                                            *)

\* The elements of s at the places in I, one after the other.
Picked(s, I) ==
    LET picks[n \in 0..Len(s)] ==
            IF n = 0 THEN <<>> ELSE IF n \in I THEN Append(picks[n - 1], s[n]) ELSE picks[n - 1]
    IN picks[Len(s)]

\* Those that have not come before.
New(notices) == Picked(notices, {k \in DOMAIN notices : notices[k] \notin Range(arrived)})

Comes(i) == arrived' = arrived \o New(batches[i].notices)

Without(s, i) == SubSeq(s, 1, i - 1) \o SubSeq(s, i + 1, Len(s))
Ended(i) == batches' = Without(batches, i)

\* WeChat takes the batch and says so.
Arrives(i) ==
    /\ Comes(i) /\ Ended(i)
    /\ UNCHANGED <<phase, queue, pending, since, made, refused, overflow, givenUp>>

\* Mutant: one try more.
TriedAgain(tries) == tries <= MaxTries

\* A failure is tried again after a pause.
Tried(tries) == tries < MaxTries

\* A try fails: WeChat has not got it, or its answer is lost.
Fails(i) ==
    /\ UNCHANGED arrived \/ Comes(i)
    /\ IF Tried(batches[i].tries + 1)
       THEN /\ batches' = [batches EXCEPT ![i] = [notices |-> @.notices, tries |-> @.tries + 1, time |-> 0]]
            /\ UNCHANGED givenUp
       ELSE /\ Ended(i)
            /\ givenUp' = givenUp \union Range(batches[i].notices)
    /\ UNCHANGED <<phase, queue, pending, since, made, refused, overflow>>

\* A unit of time; no try takes longer.
Pass ==
    /\ phase = "runs" /\ \A i \in DOMAIN batches : batches[i].time = 0
    /\ since < Window /\ since' = since + 1
    /\ batches' = [i \in DOMAIN batches |-> [batches[i] EXCEPT !.time = 1]]
    /\ UNCHANGED <<phase, queue, pending, history>>

NotifierMoves ==
    \/ Receive \/ WindowEnds \/ Off \/ Pass
    \/ \E i \in DOMAIN batches : Arrives(i) \/ Fails(i)

NotifierNext == Notify \/ Stop \/ NotifierMoves

\* The runtime polls run and the batches, and a request has a time-out.
Spec == NotifierInit /\ [][NotifierNext]_vars /\ WF_vars(NotifierMoves)

-----------------------------------------------------------------------------
(* Properties                                                              *)

Notices == 1..MaxNotices

Here == Range(queue) \union Range(pending)
          \union UNION {Range(batches[i].notices) : i \in DOMAIN batches}

\* Every variable has its type.
NotifierTypeOK ==
    /\ phase \in {"runs", "stops", "off"} /\ since \in 0..Window
    /\ queue \in Seq(Notices) /\ Len(queue) <= QueueSize
    /\ pending \in Seq(Notices) /\ Len(pending) <= MaxPending
    /\ \A i \in DOMAIN batches :
          /\ batches[i].tries \in 0..MaxTries - 1 /\ batches[i].time \in {0, 1}
          /\ batches[i].notices # <<>>

\* While the service runs, a notice is on its way or has arrived, unless it met a
\* full queue, a list that was full or a batch that was tried three times.
NoticesKept ==
    phase = "runs" =>
        1..made = Here \union Range(arrived) \union refused \union overflow \union givenUp

\* While the service runs, one batch at a time is under way, although nobody
\* waits for it: three tries with their time-outs fit into a window. So notices
\* arrive in the order they were made.
ArriveInOrder == phase = "runs" =>
    /\ Len(batches) <= 1
    /\ \A i, j \in DOMAIN arrived : i < j => arrived[i] < arrived[j]

\* What a full list drops is older than all that it keeps.
DropsOldest == \A d \in overflow, n \in Range(pending) : d < n

\* What the bounds are: the tries of a batch fit into a window.
NoticeBounds == MaxPending \in Nat \ {0} /\ MaxTries \in Nat \ {0} /\ Window \in Nat /\ MaxTries < Window

\* Why: a notice goes from the queue to the list, to the batch and on, and none
\* overtakes another; of a batch all notices have arrived or none; and its tries
\* keep up with the window.
Rising(s) == \A m, n \in DOMAIN s : m < n => s[m] < s[n]
Before(S, T) == \A m \in S, n \in T : m < n
OrderInv ==
    /\ made \in Nat /\ overflow \subseteq 1..made
    /\ \A s \in {arrived, pending, queue} : s \in Seq(1..made) /\ Rising(s)
    /\ Before(Range(arrived), Range(pending)) /\ Before(Range(arrived), Range(queue))
    /\ Before(Range(pending), Range(queue)) /\ Before(overflow, Range(queue))
InTime(b, passed) ==
    /\ b = [notices |-> b.notices, tries |-> b.tries, time |-> b.time]
    /\ b.tries \in Nat /\ b.tries < MaxTries /\ b.time \in {0, 1} /\ passed <= b.tries + b.time
InTurn(s, last, came, collected, queued) ==
    /\ s \in Seq(1..last) /\ Rising(s)
    /\ Before(Range(s), Range(collected)) /\ Before(Range(s), Range(queued))
    /\ Before(Range(came), Range(s)) \/ Range(s) \subseteq Range(came)
BatchInv ==
    /\ since \in Int
    /\ \/ batches = <<>>
       \/ /\ batches = <<batches[1]>> /\ InTime(batches[1], since)
          /\ InTurn(batches[1].notices, made, arrived, pending, queue)
NoticesInv ==
    /\ DropsOldest
    /\ phase = "runs" => OrderInv /\ BatchInv /\ NoticesKept

\* Notices are sent or given up in the end.
Unsettled == phase = "runs" /\ (queue # <<>> \/ pending # <<>> \/ batches # <<>>)
NoticesGo == Unsettled ~> ~Unsettled

-----------------------------------------------------------------------------
(* What the comments say and the code does not do                          *)

\* The stop loses no notice that run had collected before ("改为带超时的在位等待",
\* rust/src/notify.rs:183). The five seconds of main are over before the ten of
\* flush_and_wait, and the batch of a window that has just ended is not waited for.
StopKeepsCollected ==
    phase = "off" =>
        1..made = Here \union Range(arrived) \union refused \union overflow \union givenUp
=============================================================================
