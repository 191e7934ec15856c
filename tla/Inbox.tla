------------------------------- MODULE Inbox -------------------------------
(***************************************************************************)
(* The messages stored in the modem and the two parts of the service that  *)
(* look after them: the dispatcher of unsolicited lines (rust/src/urc.rs), *)
(* which reads and announces each new message and is told when the storage *)
(* is full, and the cleaners it starts then (rust/src/smsclean.rs), which  *)
(* delete the oldest messages.                                             *)
(*                                                                         *)
(* A message is a number, in the order of the time stamps of the service   *)
(* centre; a slot of the storage holds a message or NoMsg and is used      *)
(* again. The exchange of one AT command is one step. Messages in parts,   *)
(* calls and signal reports are left out; sms_auto_clean is on.            *)
(***************************************************************************)
EXTENDS Integers, FiniteSets, Sequences

CONSTANTS
    Total,          \* slots of the storage
    Target,         \* messages a cleaner stops at (TARGET_USAGE of Total)
    MaxDelete,      \* MAX_DELETE_PER_ROUND
    UrcCap,         \* capacity of the URC queue
    Cleaners,       \* tasks inside clean_oldest; bound: that many at once
    MaxMsg,         \* bound: messages stored in a behaviour
    MaxFault,       \* bound: commands that fail
    MaxTaken        \* bound: messages deleted by a page

ASSUME StorageAssumption == /\ Total \in Nat \ {0} /\ Target \in 0..(Total - 1)
                            /\ MaxDelete \in Nat \ {0} /\ UrcCap \in Nat \ {0}
ASSUME InboxBoundAssumption == /\ MaxMsg \in Nat /\ Total <= MaxMsg
                               /\ MaxFault \in Nat /\ MaxTaken \in Nat

Slots == 1..Total
Msgs  == 1..MaxMsg
NoMsg == 0
Full  == 0          \* the line that says the storage is full; a slot: +CMTI

VARIABLES           \* external: the modem
    box,            \* what each slot holds
    read,           \* slots whose message has been read by somebody
    newest          \* messages stored so far

VARIABLES
    urcs,           \* the URC queue: slots of new messages, and Full
    reading,        \* slot the dispatcher reads, 0: none
    notified,       \* memory_full_notified
    kpc,            \* per cleaner: the command it sends next
    todo            \* per cleaner: slots it has still to delete

VARIABLES           \* history
    announced,      \* messages announced, or there before the service
    missed,         \* messages whose line was dropped or that were not read
    dropped,        \* the line of a new message has been dropped
    gaveUp,         \* a cleaner has given up on a command that failed
    faults, taken   \* what is left of MaxFault and MaxTaken

modemVars   == <<box, read, newest>>
taskVars    == <<reading, notified>>
cleanVars   == <<kpc, todo>>
inboxVars   == <<modemVars, urcs, taskVars, cleanVars, announced, missed,
                 dropped, gaveUp, faults, taken>>

Stored == {i \in Slots : box[i] # NoMsg}
IsFull == Stored = Slots

\* The service starts with any number of messages in the storage.
InboxInit ==
    /\ \E n \in 0..Total :
          /\ box = [i \in Slots |-> IF i <= n THEN i ELSE NoMsg]
          /\ newest = n /\ announced = 1..n
          /\ read = 1..n
    /\ urcs = <<>> /\ reading = 0 /\ notified = FALSE
    /\ kpc = [k \in Cleaners |-> "idle"]
    /\ todo = [k \in Cleaners |-> <<>>]
    /\ missed = {} /\ dropped = FALSE /\ gaveUp = FALSE
    /\ faults = MaxFault /\ taken = MaxTaken

-----------------------------------------------------------------------------
(* The network and the pages                                               *)

\* Mutant: lines are queued whatever waits.
EmittedAlways(line) == Append(urcs, line)

\* emit: a line that finds the queue full is dropped.
Emitted(line) == IF Len(urcs) < UrcCap THEN Append(urcs, line) ELSE urcs

\* A message comes in and finds a free slot.
Deliver ==
    /\ newest < MaxMsg
    /\ newest' = newest + 1
    /\ \E i \in Slots \ Stored :
          /\ box' = [box EXCEPT ![i] = newest + 1]
          /\ read' = read \ {i}
          /\ urcs' = Emitted(i)
    /\ dropped' = (dropped \/ Len(urcs) = UrcCap)
    /\ missed' = IF Len(urcs) < UrcCap THEN missed ELSE missed \cup {newest + 1}
    /\ UNCHANGED <<taskVars, cleanVars, announced, gaveUp, faults, taken>>

\* A message is refused, and the network tries again later.
Refuse ==
    /\ IsFull
    /\ urcs' = Emitted(Full)
    /\ UNCHANGED <<modemVars, taskVars, cleanVars, announced, missed, dropped,
                   gaveUp, faults, taken>>

\* A page lists the messages (AT+CMGL=4), which marks them as read.
PageLists ==
    /\ read' = Stored
    /\ UNCHANGED <<box, newest, urcs, taskVars, cleanVars, announced, missed,
                   dropped, gaveUp, faults, taken>>

\* A page deletes a message.
PageDeletes ==
    /\ taken > 0
    /\ taken' = taken - 1
    /\ \E i \in Stored : box' = [box EXCEPT ![i] = NoMsg]
    /\ UNCHANGED <<read, newest, urcs, taskVars, cleanVars, announced, missed,
                   dropped, gaveUp, faults>>

-----------------------------------------------------------------------------
(* The dispatcher                                                          *)

\* The next line, when the dispatcher is not in the middle of another.
Takes(line) == reading = 0 /\ urcs # <<>> /\ Head(urcs) = line /\ urcs' = Tail(urcs)

\* handle_memory_full starts a cleaner, once until a new message comes in.
HandleFull ==
    /\ Takes(Full)
    /\ \/ /\ notified
          /\ UNCHANGED <<notified, kpc>>
       \/ /\ ~notified
          /\ notified' = TRUE
          /\ \E k \in Cleaners : /\ kpc[k] = "idle"
                                 /\ kpc' = [kpc EXCEPT ![k] = "usage"]
    /\ UNCHANGED <<modemVars, reading, todo, announced, missed, dropped, gaveUp,
                   faults, taken>>

\* Mutant: the flag comes down only when the message has been read.
FlagKept == notified

\* A new message shows that there is room again.
FlagAfterNew == FALSE

\* handle_new_sms up to AT+CMGR.
HandleNew ==
    /\ \E i \in Slots : Takes(i) /\ reading' = i
    /\ notified' = FlagAfterNew
    /\ UNCHANGED <<modemVars, cleanVars, announced, missed, dropped, gaveUp,
                   faults, taken>>

\* Mutant: a message that a page has listed is not announced any more.
AnnounceUnread(i) == announced \cup (IF i \in read THEN {} ELSE {box[i]} \ {NoMsg})

\* What the slot holds by now is announced, if anything.
Announce(i) == announced \cup ({box[i]} \ {NoMsg})

\* handle_new_sms after AT+CMGR.
ReadNew ==
    /\ reading # 0
    /\ announced' = Announce(reading)
    /\ read' = read \cup {reading}
    /\ reading' = 0
    /\ UNCHANGED <<box, newest, urcs, notified, cleanVars, missed, dropped,
                   gaveUp, faults, taken>>

\* AT+CMGR fails, and the message is not announced.
ReadFails ==
    /\ reading # 0 /\ faults > 0
    /\ faults' = faults - 1
    /\ missed' = missed \cup ({box[reading]} \ {NoMsg})
    /\ reading' = 0
    /\ UNCHANGED <<modemVars, urcs, notified, cleanVars, announced, dropped,
                   gaveUp, taken>>

-----------------------------------------------------------------------------
(* The cleaners: clean_oldest                                              *)

Goto(k, place) == kpc' = [kpc EXCEPT ![k] = place]

\* AT+CPMS?: a storage with room in it needs no cleaning.
Usage(k) ==
    /\ kpc[k] = "usage"
    /\ Goto(k, IF IsFull THEN "format" ELSE "idle")
    /\ UNCHANGED <<modemVars, urcs, taskVars, todo, announced, missed, dropped,
                   gaveUp, faults, taken>>

\* AT+CMGF?: the modem is in PDU mode.
Format(k) ==
    /\ kpc[k] = "format"
    /\ Goto(k, "list")
    /\ UNCHANGED <<modemVars, urcs, taskVars, todo, announced, missed, dropped,
                   gaveUp, faults, taken>>

\* Messages that have been read come first, then those of an earlier time.
Before(i, j) == \/ i \in read /\ j \notin read
                \/ (i \in read <=> j \in read) /\ box[i] < box[j]

Least(a, b) == IF a <= b THEN a ELSE b

\* Messages over the target; the storage was full when it was asked.
Need == Least(Total - Target, MaxDelete)

\* AT+CMGL=4, which also marks the messages as read. An empty list ends the
\* round. Before orders the slots in one way only.
List(k) ==
    /\ kpc[k] = "list"
    /\ \E all \in [1..Cardinality(Stored) -> Stored] :
          /\ \A n, m \in DOMAIN all : n < m => Before(all[n], all[m])
          /\ todo' = [todo EXCEPT ![k] = SubSeq(all, 1, Least(Need, Len(all)))]
          /\ Goto(k, IF all = <<>> THEN "idle" ELSE "delete")
    /\ read' = Stored
    /\ UNCHANGED <<box, newest, urcs, taskVars, announced, missed, dropped,
                   gaveUp, faults, taken>>

\* One of the three queries fails, is refused, or finds the modem in text mode
\* or a list without time stamps: the round is over.
GiveUp(k) ==
    /\ kpc[k] \in {"usage", "format", "list"} /\ faults > 0
    /\ faults' = faults - 1 /\ gaveUp' = TRUE
    /\ Goto(k, "idle")
    /\ UNCHANGED <<modemVars, urcs, taskVars, todo, announced, missed, dropped,
                   taken>>

\* AT+CMGD: whatever the slot holds by now is deleted, or the command fails and
\* the next slot is tried.
Delete(k) ==
    /\ kpc[k] = "delete" /\ todo[k] # <<>>
    /\ todo' = [todo EXCEPT ![k] = Tail(@)]
    /\ \/ /\ box' = [box EXCEPT ![Head(todo[k])] = NoMsg]
          /\ UNCHANGED <<faults, gaveUp>>
       \/ /\ faults > 0
          /\ faults' = faults - 1 /\ gaveUp' = TRUE
          /\ UNCHANGED box
    /\ UNCHANGED <<read, newest, urcs, taskVars, kpc, announced, missed, dropped,
                   taken>>

Done(k) ==
    /\ kpc[k] = "delete" /\ todo[k] = <<>>
    /\ Goto(k, "idle")
    /\ UNCHANGED <<modemVars, urcs, taskVars, todo, announced, missed, dropped,
                   gaveUp, faults, taken>>

-----------------------------------------------------------------------------

Clean(k) == Usage(k) \/ Format(k) \/ List(k) \/ Delete(k) \/ Done(k)

Dispatch == HandleFull \/ HandleNew \/ ReadNew

InboxNext ==
    \/ Deliver \/ Refuse \/ PageLists \/ PageDeletes
    \/ Dispatch \/ ReadFails
    \/ \E k \in Cleaners : Clean(k) \/ GiveUp(k)

InboxSpec == InboxInit /\ [][InboxNext]_inboxVars

\* The tasks run, and the network goes on trying to deliver what was refused.
InboxFairSpec ==
    /\ InboxSpec
    /\ WF_inboxVars(Dispatch) /\ WF_inboxVars(Refuse)
    /\ \A k \in Cleaners : WF_inboxVars(Clean(k))

-----------------------------------------------------------------------------
(* Properties                                                              *)

\* Types: no slot holds a message twice, and the queue keeps to its capacity.
InboxTypeOK ==
    /\ box \in [Slots -> Msgs \cup {NoMsg}]
    /\ \A i, j \in Stored : i # j => box[i] # box[j]
    /\ read \subseteq Slots /\ newest \in 0..MaxMsg
    /\ urcs \in Seq(Slots \cup {Full}) /\ Len(urcs) <= UrcCap
    /\ reading \in Slots \cup {0} /\ notified \in BOOLEAN
    /\ kpc \in [Cleaners -> {"idle", "usage", "format", "list", "delete"}]
    /\ todo \in [Cleaners -> Seq(Slots)]
    /\ announced \subseteq Msgs /\ missed \subseteq Msgs
    /\ dropped \in BOOLEAN /\ gaveUp \in BOOLEAN
    /\ faults \in 0..MaxFault /\ taken \in 0..MaxTaken

\* A message in the storage has been announced, or its line is still in the
\* queue or in work, or it could not be: also when slots are emptied and filled
\* again while the line that named them waits (handle_new_sms, clean_oldest).
StoredIsAnnounced ==
    \A i \in Stored :
        \/ box[i] \in announced \cup missed
        \/ reading = i
        \/ \E n \in 1..Len(urcs) : urcs[n] = i

\* A full storage gets room again, whatever is in the queue, unless a cleaner's
\* command failed or the line of a new message was dropped: the flag that keeps
\* the cleaners from being started comes down each time it must
\* (handle_memory_full, handle_new_sms).
RoomIsMade == []<>(~IsFull \/ gaveUp \/ dropped)

-----------------------------------------------------------------------------
(* What the comments say and the code does not do                          *)

\* The comment of handle_memory_full: cleaning keeps the modem from refusing
\* every later message.
RoomAlways == []<>(~IsFull)

\* The head of smsclean.rs: a cleaner deletes from the oldest message on; what
\* it deletes is no newer than what it leaves, of those read as well.
OldestFirst ==
    [][\A k \in Cleaners : Delete(k) =>
          \A i, j \in Stored : i \notin Stored' /\ j \in Stored' => box[i] < box[j]]_inboxVars
=============================================================================
