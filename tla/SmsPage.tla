------------------------------- MODULE SmsPage -------------------------------
(***************************************************************************)
(* The messages of view/at-webserver/sms_center.js: the list that the page *)
(* builds from AT+CMGL, from the record of sent messages and from pushes   *)
(* of new messages, who has read what, and the deletion by storage slot.   *)
(*                                                                         *)
(* A list that was read replaces everything the page knew, also what was   *)
(* pushed while it was being read. The page knows of unread messages by    *)
(* the peer (unreadNumbers) and, for each peer, the time up to which the   *)
(* user has read (readUptoMap); a message carries the time at which it was *)
(* sent, which may lie before its arrival. Sent messages have no slot and  *)
(* are never unread: they are left out.                                    *)
(***************************************************************************)
EXTENDS Integers, Sequences

CONSTANTS
    Peers,          \* phone numbers whose conversation may be open
    Senders,        \* those of them that send messages
    Slots,          \* slots of the modem's store
    MaxSms,         \* bound: messages that arrive
    Acts,           \* bound: operations of the user and arrivals together
    Replays,        \* bound: pushes that are delivered again
    MaxFail         \* bound: commands that fail

NoPeer == "none"
Ids == 1..MaxSms

VARIABLES           \* the page
    list,           \* messages it shows: [id, slots, unread, part]
    selected,       \* selectedContact
    named,          \* unreadNumbers
    upto,           \* readUptoMap
    badge,          \* peers whose badge is drawn
    fetches,        \* what refreshes under way have read and not built yet
    asked,          \* refreshes that have not been answered yet
    retries,        \* partialRetryLeft
    timer,          \* partialRetryTimer
    deletes         \* deletions under way: what is left to send

VARIABLES           \* the modem, the service and history
    store,          \* what each slot holds: an id, or 0
    sms,            \* every message that arrived: [peer, sent, arrived, long]
    unseen,         \* messages the modem has not handed out yet
    pushes,         \* pushes on their way to the page
    seen,           \* when the conversation of each peer was last shown
    due,            \* peers for whom a badge was right when it was drawn
    overtaken,      \* messages that an older list took from the page
    wrong,          \* messages deleted in the place of another
    acts, replays, fails

page == <<list, selected, named, upto, badge, retries, timer>>
vars == <<page, fetches, asked, deletes, store, sms, unseen, pushes, seen, due, overtaken,
          wrong, acts, replays, fails>>

\* The time goes on with every message that arrives.
Clock == Len(sms) + 1
PeerOf(id) == sms[id].peer

Init ==
    /\ list = {} /\ selected = NoPeer /\ named = {}
    /\ upto = [p \in Peers |-> 0] /\ badge = {} /\ fetches = {} /\ asked = 1
    /\ retries = 2 /\ timer = FALSE /\ deletes = {}
    /\ store = [s \in Slots |-> 0] /\ sms = <<>> /\ unseen = {} /\ pushes = {}
    /\ seen = [p \in Peers |-> 0] /\ due = {} /\ overtaken = {} /\ wrong = {}
    /\ acts = Acts /\ replays = Replays /\ fails = MaxFail

Act == acts > 0 /\ acts' = acts - 1

-----------------------------------------------------------------------------
(* Building the list                                                       *)

\* isSameSms: by their slots when both have some, else by their content. A part
\* of a long message has another content than the whole.
Same(a, b) ==
    IF a.slots # {} /\ b.slots # {}
    THEN PeerOf(a.id) = PeerOf(b.id) /\ a.slots = b.slots
    ELSE a.id = b.id /\ a.part = b.part

\* keepRicher: of two that are the same the one with slots stays; it is unread
\* if either was.
Richer(a, b) ==
    LET keep == IF a.slots = {} /\ b.slots # {} THEN b ELSE a
    IN [keep EXCEPT !.unread = a.unread \/ b.unread]

\* Mutant: a message that is pushed is put beside what is there.
MergedTwice(l, m) == l \union {m}

\* mergeSmsDuplicates, for one message that joins a list without duplicates.
Merged(l, m) ==
    IF \A o \in l : ~Same(o, m) THEN l \union {m}
    ELSE LET o == CHOOSE x \in l : Same(x, m) IN (l \ {o}) \union {Richer(o, m)}

\* Mutant: what was read before is counted again.
CountedUnread(m) == m.unread

\* isMsgUnread: flagged, and later than the user has read.
IsUnread(m) == m.unread /\ sms[m.id].sent > upto[PeerOf(m.id)]

Of(l, p) == {m \in l : PeerOf(m.id) = p}

\* hasMsgNewerThanRead
Newer(l, p) == \E m \in Of(l, p) : sms[m.id].sent > upto[p]

\* markUnread of the messages of a list that are flagged.
Marked(l) == named \union {PeerOf(m.id) : m \in {x \in l : x.unread}}

\* The peers whose badge is drawn: one of their messages is unread, or their
\* number is on the list of unread numbers and something is newer than read.
Badges(l) ==
    {p \in Peers : \/ \E m \in Of(l, p) : IsUnread(m)
                   \/ p \in Marked(l) /\ Newer(l, p)}

\* buildContacts: a number without any message leaves the unread numbers, and so
\* does one with nothing unread and nothing new. The conversation that is open
\* is drawn after the badges and counts as read from now on.
Build(l) ==
    /\ badge' = Badges(l)
    /\ due' = {p \in Peers : \E m \in Of(l, p) : sms[m.id].arrived > seen[p]}
    /\ named' = {p \in Marked(l) : Of(l, p) # {}
                    /\ ((\E m \in Of(l, p) : IsUnread(m)) \/ Newer(l, p))} \ {selected}
    /\ list' = {IF PeerOf(m.id) = selected THEN [m EXCEPT !.unread = FALSE] ELSE m : m \in l}
    /\ upto' = [p \in Peers |-> IF p = selected THEN Clock ELSE upto[p]]
    /\ seen' = [p \in Peers |-> IF p = selected THEN Clock ELSE seen[p]]
    /\ selected' = selected
    \* a part that misses others: the list is read again, twice at the most
    /\ IF \E m \in l : m.part
       THEN /\ timer' = (timer \/ retries > 0)
            /\ retries' = IF ~timer /\ retries > 0 THEN retries - 1 ELSE retries
       ELSE retries' = 2 /\ timer' = timer

\* selectContact
Select(p) ==
    /\ p # selected /\ Act
    /\ selected' = p /\ named' = named \ {p} /\ badge' = badge \ {p}
    /\ list' = {IF PeerOf(m.id) = p THEN [m EXCEPT !.unread = FALSE] ELSE m : m \in list}
    /\ upto' = [upto EXCEPT ![p] = Clock] /\ seen' = [seen EXCEPT ![p] = Clock]
    /\ UNCHANGED <<fetches, asked, retries, timer, deletes, store, sms, unseen, pushes,
                   due, overtaken, wrong, replays, fails>>

-----------------------------------------------------------------------------
(* The modem and the service                                               *)

Free == {s \in Slots : store[s] = 0}
First(slots) == CHOOSE s \in slots : \A t \in slots : s <= t

\* A message arrives, perhaps long after it was sent: a single one, or the first
\* of the two parts of a long one.
Arrive(p, sent, long) ==
    /\ Len(sms) < MaxSms /\ Free # {} /\ Act
    /\ sent \in {1, Clock + 1}
    /\ sms' = Append(sms, [peer |-> p, sent |-> sent, arrived |-> Clock + 1, long |-> long])
    /\ store' = [store EXCEPT ![First(Free)] = Clock]
    /\ unseen' = unseen \union {Clock}
    /\ UNCHANGED <<page, fetches, asked, deletes, pushes, seen, due, overtaken, wrong, replays,
                   fails>>

SlotsOf(id) == {s \in Slots : store[s] = id}
Whole(id) == ~sms[id].long \/ \E s, t \in SlotsOf(id) : s # t

ArriveRest(id) ==
    /\ id \in DOMAIN sms /\ sms[id].long /\ Free # {} /\ \E s \in Slots : SlotsOf(id) = {s}
    /\ store' = [store EXCEPT ![First(Free)] = id]
    /\ unseen' = unseen \union {id}
    /\ UNCHANGED <<page, fetches, asked, deletes, sms, pushes, seen, due, overtaken, wrong,
                   acts, replays, fails>>

\* The service has read the message, which marks it as read in the modem, and
\* pushes it to the pages: a single one with its slot, a long one without.
Push(id) ==
    /\ id \in unseen /\ Whole(id) /\ SlotsOf(id) # {}
    /\ unseen' = unseen \ {id}
    /\ pushes' = pushes \union
         {[id |-> id, slots |-> IF sms[id].long THEN {} ELSE SlotsOf(id)]}
    /\ UNCHANGED <<page, fetches, asked, deletes, store, sms, seen, due, overtaken, wrong,
                   acts, replays, fails>>

\* Mutant: a push takes the conversation of its peer for the parts of the
\* message that has come in whole.
WithoutPeer(p) == {m \in list : PeerOf(m.id) # p}

\* The parts that were shown so far go when a whole message of the peer comes.
WithoutParts(p) == {m \in list : ~(m.part /\ PeerOf(m.id) = p)}

\* newSmsHandler: unread, unless its conversation is open.
Pushed(m) ==
    LET p == PeerOf(m.id)
        new == [id |-> m.id, slots |-> m.slots, unread |-> p # selected, part |-> FALSE]
    IN Build(Merged(WithoutParts(p), new))

ReceivePush ==
    \E m \in pushes :
    /\ Pushed(m) /\ pushes' = pushes \ {m}
    /\ overtaken' = overtaken \union {i \in {m.id} : fetches # {} \/ asked > 0}
    /\ UNCHANGED <<fetches, asked, deletes, store, sms, unseen, wrong, acts, replays, fails>>

\* When a page is loaded it is given pushes of before.
Replay(id) ==
    /\ id \in DOMAIN sms /\ id \notin unseen /\ SlotsOf(id) # {} /\ Whole(id)
    /\ replays > 0 /\ replays' = replays - 1
    /\ Pushed([id |-> id, slots |-> IF sms[id].long THEN {} ELSE SlotsOf(id)])
    /\ UNCHANGED <<fetches, asked, deletes, store, sms, unseen, pushes, overtaken, wrong,
                   acts, fails>>

-----------------------------------------------------------------------------
(* Refreshing and deleting                                                 *)

Refresh ==
    /\ asked = 0 /\ Act /\ asked' = 1
    /\ UNCHANGED <<page, fetches, deletes, store, sms, unseen, pushes, seen, due, overtaken,
                   wrong, replays, fails>>

\* schedulePartialRetry
Retry ==
    /\ timer /\ timer' = FALSE /\ asked' = asked + 1
    /\ UNCHANGED <<list, selected, named, upto, badge, retries, fetches, deletes, store, sms,
                   unseen, pushes, seen, due, overtaken, wrong, acts, replays, fails>>

\* AT+CMGL=4, parsed and its parts joined (mergeConcatenated). Reading marks the
\* messages as read in the modem.
Stored ==
    {[id |-> id, slots |-> SlotsOf(id), unread |-> id \in unseen, part |-> ~Whole(id)]
        : id \in {store[s] : s \in Slots} \ {0}}

Listed ==
    /\ asked > 0 /\ asked' = asked - 1
    /\ \/ /\ fetches' = fetches \union {Stored}
          /\ UNCHANGED fails
       \/ fails > 0 /\ fails' = fails - 1 /\ UNCHANGED fetches
    /\ UNCHANGED <<page, deletes, store, sms, unseen, pushes, seen, due, overtaken, wrong,
                   acts, replays>>

\* The record of sent messages has come too: the list is built anew, from what
\* was read alone.
Refreshed ==
    \E l \in fetches :
    /\ Build(l) /\ fetches' = fetches \ {l}
    /\ overtaken' = overtaken
         \union {m.id : m \in {x \in list : \A o \in l : o.id # x.id}}
    /\ UNCHANGED <<asked, deletes, store, sms, unseen, pushes, wrong, acts, replays, fails>>

\* deleteMessage and batchDelete, after their question: the slots of the
\* messages as the page knows them.
Delete(ms) ==
    /\ ms # {} /\ ms \subseteq list /\ Act
    /\ \A m \in ms : PeerOf(m.id) = selected
    /\ deletes' = deletes \union {[n |-> acts, left |-> {m \in ms : m.slots # {}}]}
    /\ UNCHANGED <<page, fetches, asked, store, sms, unseen, pushes, seen, due, overtaken,
                   wrong, replays, fails>>

\* partIndicesOf: all slots of a message.
AllOf(m) == m.slots

\* AT+CMGD for the slots of one message, whatever they hold by now.
DeleteOne(d) ==
    \E m \in d.left :
    /\ store' = [s \in Slots |-> IF s \in AllOf(m) THEN 0 ELSE store[s]]
    /\ wrong' = wrong \union ({store[s] : s \in AllOf(m)} \ {0, m.id})
    /\ deletes' = (deletes \ {d}) \union {[d EXCEPT !.left = @ \ {m}]}
    /\ UNCHANGED <<page, fetches, asked, sms, unseen, pushes, seen, due, overtaken, acts,
                   replays, fails>>

\* A failed command leaves the slots as they are; the others are still tried.
DeleteFails(d) ==
    \E m \in d.left :
    /\ fails > 0 /\ fails' = fails - 1
    /\ deletes' = (deletes \ {d}) \union {[d EXCEPT !.left = @ \ {m}]}
    /\ UNCHANGED <<page, fetches, asked, store, sms, unseen, pushes, seen, due, overtaken,
                   wrong, acts, replays>>

Deleted(d) ==
    /\ d.left = {} /\ deletes' = deletes \ {d}
    /\ asked' = asked + 1
    /\ UNCHANGED <<page, fetches, store, sms, unseen, pushes, seen, due, overtaken, wrong,
                   acts, replays, fails>>

Moves ==
    \/ \E id \in Ids : Push(id)
    \/ ReceivePush \/ Retry \/ Listed \/ Refreshed
    \/ \E d \in deletes : DeleteOne(d) \/ DeleteFails(d) \/ Deleted(d)

Next ==
    \/ \E p \in Peers : Select(p)
    \/ \E p \in Senders, sent \in 1..MaxSms + 1, long \in BOOLEAN : Arrive(p, sent, long)
    \/ \E id \in Ids : ArriveRest(id) \/ Replay(id)
    \/ Refresh
    \/ \E ms \in SUBSET list : Delete(ms)
    \/ Moves

Spec == Init /\ [][Next]_vars /\ WF_vars(Moves)

-----------------------------------------------------------------------------
(* Properties                                                              *)

\* Nothing is under way, and no list that the page has is out of date because a
\* refresh after a deletion has failed.
Quiet ==
    /\ asked = 0 /\ fetches = {} /\ deletes = {}
    /\ \A m \in list : m.slots \subseteq SlotsOf(m.id)

SmsTypeOK ==
    /\ \A m \in list : m.id \in DOMAIN sms /\ m.slots \subseteq Slots
    /\ named \subseteq Peers /\ badge \subseteq Peers /\ retries \in 0..2

\* What was read stays read: a badge is drawn only for a peer of whom a message
\* has arrived since the conversation was last shown, through replayed pushes,
\* lists that still flag a message and numbers left on the unread list.
ReadStaysRead == badge \subseteq due

\* No message is drawn twice, although it comes by two ways, with its slot and
\* without, and although a part of it may have been drawn before.
NoneTwice(l) == \A a, b \in l : a # b => a.id # b.id
DrawnOnce == NoneTwice(list)

\* When nothing is under way, a message that the page has been given stands in
\* its list as long as it is stored, unless a list read before it came has
\* replaced it.
Given(id) ==
    /\ id \notin overtaken /\ id \notin unseen /\ SlotsOf(id) # {} /\ Whole(id)
    /\ \A m \in pushes : m.id # id
Stands(id, l) == \E m \in l : m.id = id /\ ~m.part
GivenStays == \A id \in DOMAIN sms : Given(id) /\ Quiet => Stands(id, list)

\* A message that arrives is shown as unread until its conversation is opened.
NewIsUnread ==
    \A id \in DOMAIN sms :
        /\ id \notin unseen /\ \A m \in pushes : m.id # id
        /\ \E m \in list : m.id = id
        /\ sms[id].arrived > seen[PeerOf(id)]
        => PeerOf(id) \in badge

\* A deletion never hits a message that the user did not pick.
DeletesThePicked == wrong = {}

\* What the bound is.
SmsBounds == Slots \subseteq Nat

\* Why: the page has read up to where the user has, and a message of one part is
\* in one slot, wherever it stands.
Entries == [id : 1..Len(sms), slots : SUBSET Slots, unread : BOOLEAN, part : BOOLEAN]
OneSlot ==
    \A id \in 1..Len(sms) : ~sms[id].long =>
        \E s \in Slots : /\ SlotsOf(id) \subseteq {s}
                        /\ \A m \in list \union pushes \union UNION fetches : m.id = id => m.slots = {s}
SmsInv ==
    /\ sms \in Seq([peer : Senders, sent : Nat, arrived : Nat, long : BOOLEAN])
    /\ \A id \in 1..Len(sms) : sms[id].sent <= sms[id].arrived
    /\ store \in [Slots -> 0..Len(sms)]
    /\ upto \in [Peers -> Nat] /\ seen = upto /\ ReadStaysRead
    /\ list \subseteq Entries /\ \A l \in fetches : l \subseteq Entries
    /\ pushes \subseteq [id : 1..Len(sms), slots : SUBSET Slots]
    /\ \A m \in pushes : sms[m.id].long => m.slots = {}
    /\ DrawnOnce /\ \A l \in fetches : NoneTwice(l)
    /\ OneSlot

\* Why what was given stays: lists on their way have it too, and only an entry that
\* still names its slot, although another message was there, can keep it out.
Blocked(id) ==
    /\ ~sms[id].long
    /\ \E o \in list, s \in Slots : o.id # id /\ ~o.part /\ o.slots = {s} /\ store[s] = id
StaysInv ==
    \A id \in 1..Len(sms) : Given(id) =>
        /\ Stands(id, list) \/ Blocked(id)
        /\ \A l \in fetches : Stands(id, l)
=============================================================================
