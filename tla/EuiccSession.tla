---------------------------- MODULE EuiccSession ----------------------------
(***************************************************************************)
(* A session with the ISD-R of an eUICC: withIsdrSession, selectAndPing,   *)
(* doClose and recoverAfterTimeout in resources/at-webserver/euicc.js,     *)
(* over AT+CSIM, where the page opens and closes logical channels of the   *)
(* card itself, or over AT+CGLA, where the modem does.                     *)
(*                                                                         *)
(* An APDU is answered, refused with a status word, or lost: the page gets *)
(* no answer, and the card may have carried it out or not. The channels    *)
(* outlive the page and end with a reset of the card.                      *)
(***************************************************************************)
EXTENDS Integers, FiniteSets

CONSTANTS
    MaxCh,          \* logical channels the card has (19 at most)
    Work,           \* the APDUs of the operation of a session
    Sessions,       \* bound: sessions
    MaxTrouble      \* bound: lost APDUs, pages closed and resets

VARIABLES
    transport,      \* TRANSPORT
    pc,             \* where the session stands
    channel,        \* channel: -1 is null
    left,           \* APDUs of the operation still to send
    failed,         \* an error is on its way out
    lastChannel,    \* lastChannel of the page
    note            \* channelLeakNote is set

VARIABLES           \* the card and history
    open,           \* channels open on the card
    excused,        \* channels whose open or close went wrong
    sessions,       \* sessions so far
    trouble         \* what is left of MaxTrouble

pageVars == <<transport, lastChannel, note>>
sessionVars == <<pc, channel, left, failed>>
vars == <<pageVars, sessionVars, open, excused, sessions, trouble>>

Null == -1

Init ==
    /\ transport \in {"csim", "cgla"}
    /\ pc = "idle" /\ channel = Null /\ left = 0 /\ failed = FALSE
    /\ lastChannel = 0 /\ note = FALSE
    /\ open = {} /\ excused = {}
    /\ sessions = 0 /\ trouble = MaxTrouble

Trouble == trouble > 0 /\ trouble' = trouble - 1

-----------------------------------------------------------------------------
(* Open                                                                    *)

Goto(to) == pc' = to /\ UNCHANGED <<left, failed>>

\* An error that nothing catches on the way: the session is closed.
Fail == pc' = "close" /\ failed' = TRUE /\ UNCHANGED left

\* Over CGLA the channel is 1 in name only, and nothing is opened.
Begin ==
    /\ pc = "idle" /\ sessions < Sessions
    /\ sessions' = sessions + 1
    /\ left' = Work /\ failed' = FALSE
    /\ IF transport = "cgla" THEN pc' = "select" /\ channel' = 1
                             ELSE pc' = "open" /\ channel' = Null
    /\ UNCHANGED <<pageVars, open, excused, trouble>>

Lowest(c) == \A d \in 1..MaxCh \ open : c <= d

\* A number above the last one hints at channels that were not closed.
TakesChannel(c) ==
    /\ channel' = c /\ lastChannel' = c
    /\ note' = (note \/ (lastChannel > 0 /\ c > lastChannel))

\* The card opens its lowest free channel.
Opened ==
    /\ pc = "open"
    /\ \E c \in 1..MaxCh \ open :
          Lowest(c) /\ open' = open \union {c} /\ excused' = excused \ {c} /\ TakesChannel(c)
    /\ Goto("select")
    /\ UNCHANGED <<transport, sessions, trouble>>

\* 6A81 or 6881, also when no channel is free: the basic channel will do.
OpenRefused ==
    /\ pc = "open"
    /\ channel' = 0 /\ Goto("select")
    /\ UNCHANGED <<pageVars, open, excused, sessions, trouble>>

\* The answer is lost, the card may have opened a channel, and nobody knows
\* which; or it is another error. Neither is caught.
OpenLost ==
    /\ pc = "open" /\ Trouble /\ Fail
    /\ \/ UNCHANGED <<open, excused>>
       \/ \E c \in 1..MaxCh \ open :
             Lowest(c) /\ open' = open \union {c} /\ excused' = excused \union {c}
    /\ UNCHANGED <<pageVars, channel, sessions>>

-----------------------------------------------------------------------------
(* SELECT ISD-R, GET EID and the operation                                 *)

\* selectAndPing: SELECT, then GET EID.
Selected ==
    /\ pc \in {"select", "eid"}
    /\ Goto(IF pc = "select" THEN "eid" ELSE "work")
    /\ UNCHANGED <<pageVars, channel, open, excused, sessions, trouble>>

\* Mutant: the basic channel is tried beside the logical one.
FallsBackOpen == channel' = 0 /\ Goto("select") /\ UNCHANGED note

\* pingOn: 6881, 6A81 or 6A82 on a logical channel: it is closed, and the
\* basic channel is tried.
FallsBack ==
    IF transport = "cgla"
    THEN channel' = 0 /\ note' = FALSE /\ Goto("select")
    ELSE Goto("fallback") /\ UNCHANGED <<channel, note>>

PingRefused ==
    /\ pc \in {"select", "eid"} /\ channel # 0
    /\ FallsBack
    /\ UNCHANGED <<transport, lastChannel, open, excused, sessions, trouble>>

\* Any other status word, the basic channel refused, or no answer.
PingFails ==
    /\ pc \in {"select", "eid"} /\ Fail
    /\ UNCHANGED <<pageVars, channel, open, excused, sessions, trouble>>

\* An APDU of the operation; after the last one the session closes.
WorkDone ==
    /\ pc = "work" /\ left > 0
    /\ left' = left - 1 /\ pc' = IF left = 1 THEN "close" ELSE "work"
    /\ UNCHANGED <<pageVars, channel, failed, open, excused, sessions, trouble>>

WorkFails ==
    /\ pc = "work" /\ Fail
    /\ UNCHANGED <<pageVars, channel, open, excused, sessions, trouble>>

-----------------------------------------------------------------------------
(* Close                                                                   *)

\* Mutant: a session that failed is left without a close.
ClosesSuccess == channel # Null /\ channel # 0 /\ transport # "cgla" /\ ~failed

\* doClose sends nothing for no channel, the basic one, or over CGLA.
Closes == channel # Null /\ channel # 0 /\ transport # "cgla"

\* Where the session goes after a close: back to SELECT on the basic channel,
\* or to its end.
AfterClose ==
    IF pc = "fallback"
    THEN channel' = 0 /\ note' = FALSE /\ pc' = "select"
    ELSE channel' = Null /\ pc' = "idle" /\ UNCHANGED note

\* The card closes the channel.
Close ==
    /\ pc \in {"close", "fallback"} /\ Closes
    /\ open' = open \ {channel} /\ excused' = excused \ {channel}
    /\ AfterClose
    /\ UNCHANGED <<transport, lastChannel, left, failed, sessions, trouble>>

NothingToClose ==
    /\ pc \in {"close", "fallback"} /\ ~Closes
    /\ AfterClose
    /\ UNCHANGED <<transport, lastChannel, left, failed, open, excused,
                   sessions, trouble>>

\* A refused or lost close is not repeated, and is no error.
CloseLost ==
    /\ pc \in {"close", "fallback"} /\ Closes /\ Trouble
    /\ excused' = excused \union {channel}
    /\ AfterClose
    /\ UNCHANGED <<transport, lastChannel, left, failed, open, sessions>>

-----------------------------------------------------------------------------
(* The page and the card                                                   *)

\* The page is closed in the middle of a session, and opened again.
PageClosed ==
    /\ pc # "idle" /\ Trouble
    /\ excused' = IF channel \in open THEN excused \union {channel} ELSE excused
    /\ pc' = "idle" /\ channel' = Null /\ left' = 0 /\ failed' = FALSE
    /\ lastChannel' = 0 /\ note' = FALSE
    /\ UNCHANGED <<transport, open, sessions>>

\* A reset of the modem closes every channel.
CardReset ==
    /\ pc = "idle" /\ open # {} /\ Trouble
    /\ open' = {} /\ excused' = {}
    /\ UNCHANGED <<pageVars, sessionVars, sessions>>

Done == pc = "idle" /\ sessions = Sessions /\ UNCHANGED vars

Next ==
    \/ Begin
    \/ Opened \/ OpenRefused \/ OpenLost
    \/ Selected \/ PingRefused \/ PingFails
    \/ WorkDone \/ WorkFails
    \/ Close \/ NothingToClose \/ CloseLost
    \/ PageClosed \/ CardReset
    \/ Done

\* Every exchange has a time-out of its own, so a session that has begun
\* goes on.
Moves == /\ pc # "idle"
         /\ Next

Fairness == WF_vars(Moves)

Spec == Init /\ [][Next]_vars /\ Fairness

-----------------------------------------------------------------------------
(* Properties                                                              *)

PlacesOK ==
    /\ transport \in {"csim", "cgla"}
    /\ pc \in {"idle", "open", "select", "eid", "fallback", "work", "close"}
    /\ open \subseteq 1..MaxCh /\ excused \subseteq open
NumbersOK == channel \in -1..MaxCh /\ left \in 0..Work /\ lastChannel \in 0..MaxCh
FlagsOK == failed \in BOOLEAN /\ note \in BOOLEAN

\* Every variable has its type.
SessionTypeOK == PlacesOK /\ NumbersOK /\ FlagsOK

\* A channel that is open on the card belongs to the session under way, or
\* the answer to its open or its close was lost, or the page was closed: no
\* path of the code leaves one behind, however the ping, the fallback or the
\* operation fail. The card has 19 channels at most, and often three.
NoChannelLeft == open \subseteq excused \union {channel}

\* The note of a leak is shown only if an answer was lost, a page closed or the
\* card reset: a number that rises because a session fell back to the basic
\* channel, failed, or was refused is no leak, and every such path closes first.
NoteMeansLeak == note => trouble < MaxTrouble

\* What holds of the channel of a session besides: none before the open and
\* after the end, over CSIM a logical one is open on the card, over CGLA none is
\* ever opened, and without trouble there is nothing to excuse.
ChannelKnown ==
    /\ trouble \in 0..MaxTrouble
    /\ pc \in {"idle", "open"} => channel = Null
    /\ pc = "open" => transport = "csim"
    /\ transport = "cgla" => open = {}
    /\ transport = "csim" /\ channel > 0 => channel \in open
    /\ trouble = MaxTrouble => excused = {}

SessionBounds == MaxCh \in Nat \ {0} /\ Work \in Nat /\ MaxTrouble \in Nat

ChannelInv == PlacesOK /\ NumbersOK /\ NoChannelLeft /\ ChannelKnown

SessionInv == ChannelInv /\ FlagsOK /\ NoteMeansLeak

\* Every session ends.
Unsettled == pc # "idle"
SessionEnds == Unsettled ~> ~Unsettled
=============================================================================
