-------------------------- MODULE ProfileDownload --------------------------
(***************************************************************************)
(* The download of an eSIM profile: downloadProfile,                       *)
(* processNotificationsIn and verifyInstalled in                           *)
(* resources/at-webserver/euicc.js, with the dialog of                     *)
(* view/at-webserver/esim.js that starts and cancels it. Ten steps         *)
(* alternate between the card and the server of the operator; the eighth   *)
(* writes the package block by block, the ninth sends the receipts that    *)
(* wait on the card.                                                       *)
(*                                                                         *)
(* An exchange with the card is answered, refused, or its answer does not  *)
(* come in time; then the card may have carried it out, and the modem may  *)
(* hand the answer out with a later command. A cancel of the user takes    *)
(* effect where the program next reports its progress.                     *)
(***************************************************************************)
EXTENDS Integers, FiniteSets

CONSTANTS
    Blocks,         \* blocks of the package
    Old,            \* receipts of earlier operations on the card
    Downloads,      \* bound: downloads of the profile
    MaxTrouble      \* bound: lost answers, failed requests, cancels, pages closed

VARIABLES
    pc,             \* "idle", "steps", "write", "recover", ...
    step,           \* the step shown, 1 to 10
    block,          \* the block under way
    tx,             \* transactionId is known
    expect,         \* expectIccid is known
    recovered,      \* the answer of the block came late
    aborted,        \* the user has cancelled
    todo,           \* receipts of the list still to send
    outcome         \* of the last download

VARIABLES           \* the card, the modem, the server and history
    installed,      \* the profile is on the card
    late,           \* the answer the modem still holds
    pending,        \* receipts on the card
    acked,          \* receipts the server has confirmed
    cancelled,      \* the server was asked to cancel this session
    downloads,      \* downloads begun
    trouble         \* what is left of MaxTrouble

runVars  == <<step, block, tx, expect, recovered, todo>>
cardVars == <<installed, late, pending>>
vars == <<pc, runVars, aborted, outcome, cardVars, acked, cancelled, downloads, trouble>>

Install == 0        \* the receipt of this profile
Receipts == Old \union {Install}
CardSteps == {1, 2, 4, 6}

Init ==
    /\ pc = "idle" /\ step = 0 /\ block = 0
    /\ tx = FALSE /\ expect = FALSE /\ recovered = FALSE /\ aborted = FALSE
    /\ todo = {} /\ outcome = "none"
    /\ installed = FALSE /\ late = "none" /\ pending = Old
    /\ acked = {} /\ cancelled = FALSE
    /\ downloads = 0 /\ trouble = MaxTrouble

Trouble == trouble > 0 /\ trouble' = trouble - 1
Stay == UNCHANGED <<aborted, outcome, acked, cancelled, downloads>>

\* Every error ends in the catch, which cancels a session that has a number.
Throw == pc' = "catch" /\ UNCHANGED runVars

-----------------------------------------------------------------------------
(* Steps 1 to 7                                                            *)

Begin ==
    /\ pc = "idle" /\ downloads < Downloads
    /\ downloads' = downloads + 1
    /\ pc' = "steps" /\ step' = 1 /\ block' = 0
    /\ tx' = FALSE /\ expect' = FALSE /\ recovered' = FALSE /\ todo' = {}
    /\ aborted' = FALSE /\ outcome' = "running" /\ cancelled' = FALSE
    /\ late' = "none"        \* it came out with the close of the last session
    /\ UNCHANGED <<installed, pending, acked, trouble>>

\* onStep and log throw once the user has cancelled.
Aborts ==
    /\ aborted /\ pc \in {"steps", "write", "written", "listed", "done"}
    /\ Throw
    /\ UNCHANGED <<cardVars, trouble>> /\ Stay

\* A step is answered. The first answer of the server names the session, the
\* second may name the ICCID.
StepDone ==
    /\ pc = "steps" /\ ~aborted
    /\ IF step = 7 THEN pc' = "write" /\ step' = 8 /\ block' = 1
                   ELSE UNCHANGED <<pc, block>> /\ step' = step + 1
    /\ tx' = (tx \/ step = 3)
    /\ expect' \in IF step = 5 THEN BOOLEAN ELSE {expect}
    /\ UNCHANGED <<recovered, todo, cardVars, trouble>> /\ Stay

\* The card refuses, the server answers other than 2xx or no JSON, or nothing
\* comes back. An answer without a transactionId fails here, too.
StepFails ==
    /\ pc = "steps" /\ ~aborted /\ Trouble
    /\ Throw
    /\ UNCHANGED cardVars /\ Stay

-----------------------------------------------------------------------------
(* Step 8: the package                                                     *)

Final == block = Blocks

\* The last block installs the profile, and leaves a receipt for it.
CardInstalls ==
    IF Final THEN installed' = TRUE /\ pending' = pending \union {Install}
             ELSE UNCHANGED <<installed, pending>>

\* The answer comes in time. A profile that is on the card already is refused.
BlockAnswered ==
    /\ pc = "write" /\ ~aborted /\ ~(Final /\ installed)
    /\ CardInstalls
    /\ pc' = "written" /\ recovered' = FALSE
    /\ UNCHANGED <<step, block, tx, expect, todo, late, trouble>> /\ Stay

BlockRefused ==
    /\ pc = "write" /\ ~aborted
    /\ \/ Trouble
       \/ Final /\ installed /\ UNCHANGED trouble
    /\ Throw
    /\ UNCHANGED cardVars /\ Stay

\* No answer in time: the card never saw the block, or its answer is lost, or
\* the modem will hand it out later.
BlockTimesOut ==
    /\ pc = "write" /\ ~aborted /\ Trouble
    /\ \/ UNCHANGED cardVars
       \/ /\ ~(Final /\ installed) /\ CardInstalls
          /\ late' \in {"none", "ok"}
       \/ late' = "refused" /\ UNCHANGED <<installed, pending>>
    /\ pc' = "recover"
    /\ UNCHANGED runVars /\ Stay

\* recoverAfterTimeout: a plain AT brings the answer.
Recovered ==
    /\ pc = "recover" /\ late # "none"
    /\ late' = "none" /\ recovered' = TRUE
    /\ pc' = IF late = "refused" THEN "catch" ELSE "written"
    /\ UNCHANGED <<step, block, tx, expect, todo, installed, pending, trouble>> /\ Stay

\* The window is over: 30 s, or 90 s for the last block, whose fate the list
\* of profiles can tell. The answer may still come out after that.
RecoverFails ==
    /\ pc = "recover"
    /\ pc' = IF Final THEN "verify" ELSE "catch"
    /\ UNCHANGED <<runVars, cardVars, trouble>> /\ Stay

\* verifyInstalled reads the list. It knows nothing without an ICCID or an
\* answer, and a late answer in the place of the list looks like an empty one.
Verdict ==
    IF ~expect THEN {"unknown"}
    ELSE {"unknown"} \union
         (IF late # "none" THEN {"absent"} ELSE {}) \union
         {IF installed THEN "found" ELSE "absent"}

\* Mutant: only a list without the profile is taken for a failure.
AcceptUnlessAbsent(v) == v # "absent"

\* Without an answer of the card the profile must be in the list.
AcceptUnanswered(v) == v = "found"

\* With a late answer an unreadable list will do.
AcceptRecovered(v) == v # "absent"

\* The last block was never answered.
Verify ==
    /\ pc = "verify"
    /\ \E v \in Verdict :
          pc' = IF AcceptUnanswered(v) THEN "written" ELSE "catch"
    /\ recovered' = FALSE
    /\ UNCHANGED <<step, block, tx, expect, todo, cardVars, trouble>> /\ Stay

\* The last block was answered late: the list has a word in it.
VerifyRecovered ==
    /\ pc = "written" /\ ~aborted /\ Final /\ recovered
    /\ \E v \in Verdict : pc' = IF AcceptRecovered(v) THEN "list" ELSE "catch"
    /\ step' = 9
    /\ UNCHANGED <<block, tx, expect, recovered, todo, cardVars, trouble>> /\ Stay

\* The next block, or the receipts.
Written ==
    /\ pc = "written" /\ ~aborted /\ ~(Final /\ recovered)
    /\ IF Final THEN pc' = "list" /\ step' = 9 /\ UNCHANGED block
                ELSE pc' = "write" /\ block' = block + 1 /\ UNCHANGED step
    /\ UNCHANGED <<tx, expect, recovered, todo, cardVars, trouble>> /\ Stay

-----------------------------------------------------------------------------
(* Step 9: processNotificationsIn                                          *)

List ==
    /\ pc = "list"
    /\ todo' = pending /\ pc' = "listed"
    /\ UNCHANGED <<step, block, tx, expect, recovered, cardVars, trouble>> /\ Stay

\* The answer is reported, which is the last report before the end of step 9.
Listed ==
    /\ pc = "listed" /\ ~aborted
    /\ pc' = "sending"
    /\ UNCHANGED <<runVars, cardVars, trouble>> /\ Stay

\* Mutant: the receipt goes whatever the server says.
RemovesAny(ok) == TRUE

\* The receipt is taken off the card after a 2xx only.
Removes(ok) == ok

\* One receipt is read, posted and removed. What fails ends the loop, but not
\* the download: the receipts stay for later. The page reports nothing on the
\* way, so a cancel waits until the loop is over.
Send(n, ok) ==
    /\ pc = "sending" /\ n \in todo /\ \A m \in todo : n <= m
    /\ acked' = IF ok THEN acked \union {n} ELSE acked
    /\ \/ Removes(ok) /\ pending' = pending \ {n} /\ UNCHANGED trouble
       \/ Trouble /\ UNCHANGED pending
    /\ IF pending' # pending THEN todo' = todo \ {n} /\ UNCHANGED pc
                             ELSE pc' = "done" /\ UNCHANGED todo
    /\ UNCHANGED <<step, block, tx, expect, recovered, installed, late>>
    /\ UNCHANGED <<aborted, outcome, cancelled, downloads>>

\* The loop is over, or the list could not be read.
ReceiptsDone ==
    /\ \/ pc = "sending" /\ todo = {} /\ UNCHANGED trouble
       \/ pc = "list" /\ Trouble
    /\ pc' = "done" /\ step' = 10
    /\ UNCHANGED <<block, tx, expect, recovered, todo, cardVars>> /\ Stay

Finish ==
    /\ pc = "done" /\ ~aborted
    /\ pc' = "idle" /\ outcome' = "done"
    /\ UNCHANGED <<runVars, aborted, cardVars, acked, cancelled, downloads, trouble>>

-----------------------------------------------------------------------------
(* Failure, cancel and the end of the page                                 *)

\* Mutant: a cancel after the write has begun is left to the server.
CancelsEarly == tx /\ step < 8

\* The session has a number: the server is told.
Cancels == tx

\* The catch: cancelSession, whose own failure changes nothing.
Catch ==
    /\ pc = "catch"
    /\ pc' = "idle" /\ outcome' = IF aborted THEN "aborted" ELSE "failed"
    /\ cancelled' = (cancelled \/ Cancels)
    /\ UNCHANGED <<runVars, aborted, cardVars, acked, downloads, trouble>>

\* The user confirms "cancel the download"; the server is told at once.
UserCancels ==
    /\ pc # "idle" /\ ~aborted /\ Trouble
    /\ aborted' = TRUE /\ cancelled' = (cancelled \/ tx)
    /\ UNCHANGED <<pc, runVars, outcome, cardVars, acked, downloads>>

\* The page is closed: nothing of the run is left, no cancel is sent.
PageClosed ==
    /\ pc # "idle" /\ Trouble
    /\ pc' = "idle" /\ outcome' = "gone"
    /\ UNCHANGED <<runVars, aborted, cardVars, acked, cancelled, downloads>>

Done == pc = "idle" /\ downloads = Downloads /\ UNCHANGED vars

Next ==
    \/ Begin \/ Aborts \/ StepDone \/ StepFails
    \/ BlockAnswered \/ BlockRefused \/ BlockTimesOut
    \/ Recovered \/ RecoverFails \/ Verify \/ VerifyRecovered \/ Written
    \/ List \/ Listed \/ ReceiptsDone \/ Finish
    \/ \E n \in Receipts, ok \in BOOLEAN : Send(n, ok)
    \/ Catch \/ UserCancels \/ PageClosed
    \/ Done

\* Every exchange has a time-out, so a download that has begun goes on.
Moves == pc # "idle" /\ Next

Fairness == WF_vars(Moves)

Spec == Init /\ [][Next]_vars /\ Fairness

-----------------------------------------------------------------------------
(* Properties                                                              *)

\* Every variable has its type.
DownloadTypeOK ==
    /\ pc \in {"idle", "steps", "write", "written", "recover", "verify", "list",
               "listed", "sending", "done", "catch"}
    /\ step \in 0..10 /\ block \in 0..Blocks
    /\ {tx, expect, recovered, aborted, installed, cancelled} \subseteq BOOLEAN
    /\ todo \subseteq Receipts /\ pending \subseteq Receipts /\ acked \subseteq Receipts
    /\ late \in {"none", "ok", "refused"}
    /\ outcome \in {"none", "running", "done", "failed", "aborted", "gone"}

\* A download that is reported as done has put the profile on the card,
\* whatever answers were late or lost on the way: never a false success.
\* ("绝不「吞掉当成功」", downloadProfile.)
SuccessIsInstalled == outcome = "done" => installed

\* A receipt that is gone from the card has been confirmed by the server: it
\* cannot be sent a second time once it is removed.
ReceiptsNotLost ==
    Old \ pending \subseteq acked /\ (installed /\ Install \notin pending => Install \in acked)

\* A download that failed or was cancelled after the server had opened a
\* session has told the server so; only a closed page leaves one open.
SessionNotLeftOpen == outcome \in {"failed", "aborted"} /\ tx => cancelled

\* Every download ends, done or with an error.
Unsettled == pc # "idle"
DownloadEnds == Unsettled ~> ~Unsettled

\* What the user has cancelled is not on the card afterwards.
\* ("已下载部分不会写入", the text of the cancel dialog, esim.js.)
CancelledNotWritten ==
    outcome' = "aborted" /\ outcome # "aborted" => ~(installed' /\ block = Blocks /\ step >= 8)

\* What the bounds are.
DownloadBounds == Blocks \in Nat \ {0}

\* Why: nothing is late when a block is written; behind the last block the
\* profile is on the card, or a late answer of the card says so; and an outcome
\* is the outcome of a download that is over.
PackageOnCard ==
    /\ pc = "steps" => step \in 1..7
    /\ pc \in {"steps", "write"} => late = "none"
    /\ pc \in {"write", "written", "recover", "verify"} => block \in 1..Blocks
    /\ pc = "written" => IF Final THEN installed ELSE late = "none"
    /\ pc = "recover" /\ late = "ok" /\ Final => installed
    /\ pc = "verify" => Final
    /\ pc \in {"list", "listed", "sending", "done"} => installed

DownloadInv ==
    /\ DownloadTypeOK /\ PackageOnCard
    /\ pc # "idle" => outcome = "running"
    /\ SuccessIsInstalled /\ ReceiptsNotLost /\ SessionNotLeftOpen
=============================================================================
