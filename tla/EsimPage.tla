------------------------------ MODULE EsimPage ------------------------------
(***************************************************************************)
(* The page that manages the profiles of an eUICC:                         *)
(* view/at-webserver/esim.js. Its buttons ask for a confirmation and then  *)
(* run one session with the card; a flag, busy, is to keep the sessions    *)
(* apart. After a switch a timer reads the list and asks the modem which   *)
(* profile is live, up to three times.                                     *)
(*                                                                         *)
(* A session is under way from its start to its end (EuiccSession has what *)
(* happens in it). The modem follows the card with a delay.                *)
(***************************************************************************)
EXTENDS Integers, FiniteSets

CONSTANTS
    Profiles,
    Clicks,         \* bound: dialogs and sessions that the user starts
    Polls           \* attempts of a poll (3)

VARIABLES
    left,           \* the page has left the document
    busy,           \* busy
    dialog,         \* the dialog that is open, and its profile
    running,        \* the sessions under way: operation and profile
    polls,          \* the polls of pollListAfterToggle under way
    verdict,        \* what the last poll that ended found, and its switch
    shown           \* the enabled profile of the last list, currentEnabledRaw

VARIABLES           \* the card, the modem and history
    enabled,        \* the profile enabled on the card
    live,           \* the profile the modem is registered with
    clicks          \* what is left of Clicks

vars == <<left, busy, dialog, running, polls, verdict, shown, enabled, live, clicks>>

None == "none"
Some == Profiles \union {None}
Switches == {"enable", "disable", "restore"}
Changes == Switches \union {"delete", "rename", "receipts", "remove", "download"}
Reads == {"list", "listReceipts", "probe", "first", "receiptsLeft"}
Op(kind, p) == [kind |-> kind, p |-> p]
NoOp == Op("none", None)
Verdict(said, op) == [said |-> said, op |-> op]

Init ==
    /\ left = FALSE /\ busy = FALSE /\ dialog = NoOp /\ running = {}
    /\ polls = {} /\ verdict = Verdict("none", NoOp)
    /\ enabled \in Some /\ live = enabled /\ shown = enabled
    /\ clicks = Clicks

Click == ~left /\ clicks > 0 /\ clicks' = clicks - 1

-----------------------------------------------------------------------------
(* Buttons and dialogs                                                     *)

\* What a button asks for: a profile that the list shows disabled can be
\* enabled or deleted, the one shown enabled can be disabled, and the way back
\* is offered when the outcome of enabling another is unknown.
Offered(kind, p) ==
    /\ IF kind \in {"receipts", "remove", "download"} THEN p = None ELSE p \in Profiles
    /\ kind \in {"enable", "delete"} => p # shown
    /\ kind = "disable" => p = shown
    /\ kind = "restore" => /\ verdict.said = "unconfirmed"
                           /\ verdict.op.kind = "enable" /\ verdict.op.p # p

Ask(kind, p) ==
    /\ ~busy /\ dialog = NoOp /\ Offered(kind, p) /\ Click
    /\ dialog' = Op(kind, p)
    /\ UNCHANGED <<left, busy, running, polls, verdict, shown, enabled, live>>

Dismiss ==
    /\ dialog # NoOp /\ dialog' = NoOp
    /\ UNCHANGED <<left, busy, running, polls, verdict, shown, enabled, live, clicks>>

\* Every dialog but that of the download looks at busy a second time.
Confirms(kind) == kind = "download" \/ ~busy

\* The user confirms: the session starts, or "an operation is under way".
Confirm ==
    /\ dialog # NoOp /\ dialog' = NoOp
    /\ IF Confirms(dialog.kind)
       THEN busy' = TRUE /\ running' = running \union {dialog}
       ELSE UNCHANGED <<busy, running>>
    /\ UNCHANGED <<left, polls, verdict, shown, enabled, live, clicks>>

\* The list of receipts is read without a look at busy, and render probes the
\* card likewise; the list of profiles only if the page is not busy.
Read(kind) ==
    /\ kind \in {"list", "listReceipts", "probe"} /\ Click
    /\ kind = "list" => ~busy
    /\ Op(kind, None) \notin running
    /\ running' = running \union {Op(kind, None)}
    /\ busy' = (busy \/ kind = "list")
    /\ UNCHANGED <<left, dialog, polls, verdict, shown, enabled, live>>

-----------------------------------------------------------------------------
(* The end of a session                                                    *)

\* What a switch does on the card.
CardAfter(op) ==
    CASE op.kind \in {"enable", "restore"} -> op.p
      [] op.kind = "disable" /\ enabled = op.p -> None
      [] OTHER -> enabled

Poll(op) == [op |-> op, at |-> "timer", attempt |-> 0]

\* A switch succeeds: its outcome is polled six seconds later, beside the poll
\* of an earlier switch that is still under way, and also after the page has
\* left: the clean-up that would stop the timer has run by then.
Switched(op) ==
    /\ op \in running /\ op.kind \in Switches
    /\ running' = running \ {op} /\ busy' = FALSE
    /\ enabled' = CardAfter(op)
    /\ polls' = polls \union {Poll(op)}
    /\ UNCHANGED <<left, dialog, verdict, shown, live, clicks>>

\* The card gave no result code: the page says so, and polls nothing. Or the
\* session failed, before or after the card did it.
SwitchUnclear(op) ==
    /\ op \in running /\ op.kind \in Switches
    /\ running' = running \ {op} /\ busy' = FALSE
    /\ enabled' \in {enabled, CardAfter(op)}
    /\ UNCHANGED <<left, dialog, polls, verdict, shown, live, clicks>>

\* The probe ends. If the card is usable the page is drawn, and one session reads
\* the list and the receipts: busy is set for it without being looked at.
Probed(op) ==
    /\ op \in running /\ op.kind = "probe"
    /\ \/ /\ running' = (running \ {op}) \union {Op("first", None)}
          /\ busy' = TRUE
       \/ running' = running \ {op} /\ UNCHANGED busy
    /\ UNCHANGED <<left, dialog, polls, verdict, shown, enabled, live, clicks>>

\* Any other session ends. A list shows what the card has enabled, and the
\* other operations read it again; a list may fail.
Ended(op) ==
    /\ op \in running /\ op.kind \notin Switches \union {"probe"}
    /\ running' = running \ {op}
    /\ busy' = IF op.kind = "listReceipts" THEN busy ELSE FALSE
    /\ shown' \in {shown, enabled}
    /\ UNCHANGED <<left, dialog, polls, verdict, enabled, live, clicks>>

\* The modem follows the card.
Follows ==
    /\ live # enabled /\ live' = enabled
    /\ UNCHANGED <<left, busy, dialog, running, polls, verdict, shown, enabled, clicks>>

-----------------------------------------------------------------------------
(* pollListAfterToggle                                                     *)

Set(poll, new) == polls' = (polls \ {poll}) \union {new}

\* The timer fires; while the page is busy it is set again, and that does not
\* count as an attempt.
TryOnce(poll) ==
    /\ poll.at = "timer" /\ ~busy
    /\ busy' = TRUE
    /\ Set(poll, [poll EXCEPT !.at = "list", !.attempt = @ + 1])
    /\ UNCHANGED <<left, dialog, running, verdict, shown, enabled, live, clicks>>

\* The list is read, or not; busy is over before the modem is asked.
PollListed(poll) ==
    /\ poll.at = "list"
    /\ busy' = FALSE /\ shown' \in {shown, enabled}
    /\ Set(poll, [poll EXCEPT !.at = "identity"])
    /\ UNCHANGED <<left, dialog, running, verdict, enabled, live, clicks>>

\* Mutant: an identity that cannot be read counts as the right one.
ConvergedIfUnread(poll, read) == ~read \/ live = poll.op.p

\* confirmIdentity: the ICCID the modem reads is that of the profile that was
\* switched, also when it was disabled.
Converged(poll, read) == read /\ live = poll.op.p

\* Mutant: the attempts of a poll do not count.
GivesUpNever(poll) == FALSE

\* The last attempt is over.
GivesUp(poll) == poll.attempt >= Polls

\* The modem is asked, and the verdict follows. The pending receipts are
\* listed then, unless the page is busy.
PollJudges(poll, read) ==
    /\ poll.at = "identity"
    /\ IF Converged(poll, read) \/ GivesUp(poll)
       THEN /\ polls' = polls \ {poll}
            /\ verdict' = Verdict(IF Converged(poll, read) THEN "converged"
                                                           ELSE "unconfirmed", poll.op)
            /\ busy' = TRUE
            /\ running' = running \union (IF busy THEN {} ELSE {Op("receiptsLeft", None)})
       ELSE /\ Set(poll, [poll EXCEPT !.at = "timer"])
            /\ UNCHANGED <<verdict, busy, running>>
    /\ UNCHANGED <<left, dialog, shown, enabled, live, clicks>>

-----------------------------------------------------------------------------
\* The page leaves the document: its flag is reset and its timers are gone;
\* what has been sent goes on.
Dispose ==
    /\ Click /\ left' = TRUE /\ busy' = FALSE /\ dialog' = NoOp
    /\ polls' = {poll \in polls : poll.at # "timer"}
    /\ UNCHANGED <<running, verdict, shown, enabled, live>>

Done ==
    /\ clicks = 0 \/ left
    /\ running = {} /\ dialog = NoOp /\ polls = {}
    /\ UNCHANGED vars

Next ==
    \/ \E kind \in Changes, p \in Some : Ask(kind, p)
    \/ Dismiss \/ Confirm
    \/ \E kind \in Reads : Read(kind)
    \/ \E op \in running : Switched(op) \/ SwitchUnclear(op) \/ Probed(op) \/ Ended(op)
    \/ Follows
    \/ \E poll \in polls : TryOnce(poll) \/ PollListed(poll)
                           \/ \E read \in BOOLEAN : PollJudges(poll, read)
    \/ Dispose \/ Done

\* Sessions end and timers fire, so the page goes on as long as one is under
\* way. The user need not answer a dialog, nor the modem ever follow.
Moves ==
    \/ \E op \in running : Switched(op) \/ SwitchUnclear(op) \/ Probed(op) \/ Ended(op)
    \/ \E poll \in polls : TryOnce(poll) \/ PollListed(poll)
                           \/ \E read \in BOOLEAN : PollJudges(poll, read)

Spec == Init /\ [][Next]_vars /\ WF_vars(Moves)

-----------------------------------------------------------------------------
(* Properties                                                              *)

\* Every variable has its type.
EsimTypeOK ==
    /\ left \in BOOLEAN /\ busy \in BOOLEAN
    /\ dialog.kind \in Changes \union {"none"} /\ dialog.p \in Some
    /\ \A op \in running : op.kind \in Changes \union Reads /\ op.p \in Some
    /\ \A poll \in polls : /\ poll.at \in {"timer", "list", "identity"}
                           /\ poll.attempt \in 0..Polls
                           /\ poll.op.kind \in Switches /\ poll.op.p \in Profiles
    /\ verdict.said \in {"none", "converged", "unconfirmed"}
    /\ {shown, enabled, live} \subseteq Some

\* A poll that ends well after a profile was enabled means that the modem is
\* live with it at that moment, whatever the card's list says and whatever was
\* switched since; pollListAfterToggle ends on nothing less.
EnabledIsLive ==
    verdict' # verdict /\ verdict'.said = "converged" /\ verdict'.op.kind # "disable"
        => live = verdict'.op.p

\* What a poll starts with, it ends: it comes to a verdict or goes with the
\* page, however often the page is busy when the timer fires, and whatever else
\* the user starts.
Unsettled == polls # {}
PollSettles == Unsettled ~> ~Unsettled

\* A poll that ends well means that the switch has taken effect, so that no page
\* reads the identity of the profile that was live before. ("判据从「列表读成功」换成
\* 「目标 ICCID 真的生效了」", esim.js:1843.) For a profile that was disabled the
\* code waits for that profile to be live: it ends well only if the modem has not
\* followed the card.
ConvergedTookEffect ==
    verdict' # verdict /\ verdict'.said = "converged" => live = CardAfter(verdict'.op)
=============================================================================
