---------------------------- MODULE UpgradePage ----------------------------
(***************************************************************************)
(* The firmware upgrade page, view/at-webserver/upgrade.js: the flow that  *)
(* sets the address, polls AT^FOTASTATE?, starts the burning with AT^FWUP  *)
(* once the download is complete, and compares the version at the end.     *)
(*                                                                         *)
(* The commands of the page pass through its queue one at a time           *)
(* (PageClient), so a poll is one step: the state the modem has when it    *)
(* answers, and what tick does with it. tick does not wait for the AT^FWUP *)
(* that it sends: the next poll may be sent meanwhile, is answered after   *)
(* it, and is then judged even if the flow has ended with it.              *)
(* The states are those of the code:                                       *)
(* 10 idle, 11 querying, 12 found, 13 and 14 no version, 20 download       *)
(* failed, 30 downloading, 31 suspended, 40 downloaded, 50 accepted,       *)
(* 70 upgrade failed.                                                      *)
(***************************************************************************)
EXTENDS Integers

CONSTANTS
    MaxTries,       \* FWUP_MAX_TRIES (3)
    Flows,          \* bound: flows that the user starts
    MaxLost         \* bound: commands without an answer

VARIABLES
    agreed,         \* agreed
    pc,             \* where the flow stands; in "poll" pollKeep is set
    step,           \* step: 0 ready, 1 initialising, 2 download, 3 upgrade, 4 done
    version,        \* version: the last firmware read, Unknown if none
    baseVersion,    \* baseVersion
    lastState,      \* lastState; -1 at first
    same,           \* sameCount >= 1
    saw,            \* sawQuery, sawDownload: subset of {"query", "download"}
    fwupSent,       \* fwupSent
    fwupTries,      \* fwupTries
    said,           \* what the user was told at the end of the flow
    waiting         \* AT^FWUP, and a poll sent behind it: subset of {"fwup", "poll"}

VARIABLES           \* the modem and history
    fota,           \* FOTA state of the modem
    task,           \* an address is set and its query has not begun
    firmware,       \* version of the firmware
    burns,          \* AT^FWUP accepted in this flow
    unanswered,     \* an AT^FWUP of this flow was accepted without an answer
    flows,          \* what is left of Flows
    lost            \* what is left of MaxLost

memory == <<lastState, same, saw, fwupSent, fwupTries>>
page == <<agreed, pc, step, version, baseVersion, memory, said, waiting>>
history == <<burns, unanswered, flows>>
vars == <<page, fota, task, firmware, history, lost>>

Unknown == 0
NoAnswer == 0       \* the null of queryState
Firmwares == 1..Flows + 1
States == {10, 11, 12, 13, 14, 20, 30, 31, 40, 50, 70}

Init ==
    /\ agreed = FALSE /\ pc = "ready" /\ step = 0
    /\ version \in {Unknown, 1} /\ baseVersion = Unknown
    /\ lastState = -1 /\ same = FALSE /\ saw = {} /\ fwupSent = FALSE /\ fwupTries = 0
    /\ said = "none" /\ waiting = {}
    /\ fota \in {10, 40} /\ task = FALSE /\ firmware = 1
    /\ burns = 0 /\ unanswered = FALSE /\ flows = Flows /\ lost = MaxLost

Lose == lost > 0 /\ lost' = lost - 1

\* The flow is over: what the user is told, and the button is back.
End(what) == pc' = "ready" /\ step' = 0 /\ said' = what

-----------------------------------------------------------------------------
(* Start                                                                   *)

\* showDisclaimer: without consent nothing starts.
Agree ==
    /\ ~agreed /\ agreed' = TRUE
    /\ UNCHANGED <<pc, step, version, baseVersion, memory, said, waiting, fota, task, firmware,
                   history, lost>>

\* What start resets.
Forgets == /\ saw' = {} /\ fwupSent' = FALSE /\ fwupTries' = 0
           /\ lastState' = -1 /\ same' = FALSE

\* start, with an address it accepts. The button is there in step 0 only, it does
\* nothing while a poll is under way, and what is left of a flow is forgotten.
Start ==
    /\ agreed /\ pc = "ready" /\ step = 0 /\ "poll" \notin waiting /\ flows > 0
    /\ pc' = "begin" /\ step' = 1 /\ said' = "none"
    /\ Forgets
    /\ burns' = 0 /\ unanswered' = FALSE /\ flows' = flows - 1
    /\ UNCHANGED <<agreed, version, baseVersion, waiting, fota, task, firmware, lost>>

\* The version to compare with at the end is the one the page knows; it is
\* read only if there is none, and the reading may fail.
TakeBase ==
    /\ pc = "begin" /\ pc' = "init"
    /\ \/ version # Unknown /\ version' = version /\ UNCHANGED lost
       \/ version = Unknown /\ version' = firmware /\ UNCHANGED lost
       \/ version = Unknown /\ version' = Unknown /\ Lose
    /\ baseVersion' = version'
    /\ UNCHANGED <<agreed, step, memory, said, waiting, fota, task, firmware, history>>

\* The address is set only in state 10, or if the state cannot be read.
QueryState ==
    /\ pc = "init"
    /\ \/ fota = 10 /\ UNCHANGED lost
       \/ Lose
    /\ pc' = "address" /\ step' = 2
    /\ UNCHANGED <<agreed, version, baseVersion, memory, said, waiting, fota, task, firmware,
                   history>>

NotIdle ==
    /\ pc = "init" /\ fota # 10 /\ End("not_idle")
    /\ UNCHANGED <<agreed, version, baseVersion, memory, waiting, fota, task, firmware, history,
                   lost>>

\* AT^FOTAOEMDL is accepted, and the polling begins.
AddressSet ==
    /\ pc = "address" /\ fota = 10
    /\ task' = TRUE /\ pc' = "poll"
    /\ UNCHANGED <<agreed, step, version, baseVersion, memory, said, waiting, fota, firmware,
                   history, lost>>

\* It is refused, or its answer is lost: the flow ends.
AddressFails ==
    /\ pc = "address" /\ End("address_failed")
    /\ \/ UNCHANGED <<task, lost>>
       \/ fota = 10 /\ task' = TRUE /\ Lose
    /\ UNCHANGED <<agreed, version, baseVersion, memory, waiting, fota, firmware, history>>

-----------------------------------------------------------------------------
(* tick                                                                    *)

\* nextDelay: sameCount restarts when the state changes. tick has run by then,
\* with the count of the state before.
Counted(state) == lastState' = state /\ same' = (state = lastState)

Saw(state) == CASE state \in {11, 12} -> {"query"}
                [] state \in {30, 31, 40, 50} -> {"download"}
                [] OTHER -> {}

\* Idle again after a download: the version decides. After a query and no
\* download the flow ends once a count is there; if no query was ever seen it
\* ends after 60 seconds.
IdleEnds(expired) ==
    \/ "query" \in saw /\ same
    \/ "query" \notin saw /\ expired

Failed == {13, 14, 20, 70}

\* Mutant: AT^FWUP is sent whenever the state is 40.
SendsFwupAgain == TRUE

\* The burning is started once, unless the modem refused it.
SendsFwup == ~fwupSent

\* Without a flow state 10 says nothing; every other state is judged as in one.
Tick(state, expired) ==
    /\ saw' = saw \union Saw(state)
    /\ CASE state = 10 /\ pc = "poll" /\ "download" \in saw ->
            pc' = "check" /\ UNCHANGED <<step, said, fwupSent>>
         [] state = 10 /\ pc = "poll" /\ "download" \notin saw /\ IdleEnds(expired) ->
            End("nothing") /\ UNCHANGED fwupSent
         [] state \in Failed -> End("failed") /\ UNCHANGED fwupSent
         [] state = 40 /\ SendsFwup ->
            step' = 3 /\ fwupSent' = TRUE /\ UNCHANGED <<pc, said>>
         [] state = 50 -> step' = 3 /\ UNCHANGED <<pc, said, fwupSent>>
         [] OTHER -> UNCHANGED <<pc, step, said, fwupSent>>
    /\ waiting' = IF state = 40 /\ SendsFwup THEN {"fwup"} ELSE {}
    /\ IF pc' = "poll" THEN Counted(state) ELSE UNCHANGED <<lastState, same>>
    /\ UNCHANGED fwupTries

\* A poll is answered when no AT^FWUP is before it: one that the polling sends, or
\* one that was left behind. The next one is sent after it, at the latest in 5 s.
Polled == "fwup" \notin waiting /\ (pc = "poll" \/ "poll" \in waiting)

Poll(expired) ==
    /\ Polled /\ Tick(fota, expired)
    /\ UNCHANGED <<agreed, version, baseVersion, fota, task, firmware, history, lost>>

\* A poll without an answer, as while the modem restarts.
PollLost ==
    /\ Polled /\ Lose
    /\ IF pc = "poll" THEN Counted(NoAnswer) ELSE UNCHANGED <<lastState, same>>
    /\ waiting' = {}
    /\ UNCHANGED <<agreed, pc, step, version, baseVersion, saw, fwupSent, fwupTries, said,
                   fota, task, firmware, history>>

-----------------------------------------------------------------------------
(* beginFirmwareUpgrade                                                    *)

\* The timer of the polling runs out while AT^FWUP is under way.
AskEarly ==
    /\ pc = "poll" /\ waiting = {"fwup"}
    /\ waiting' = {"fwup", "poll"}
    /\ UNCHANGED <<agreed, pc, step, version, baseVersion, memory, said, fota, task, firmware,
                   history, lost>>

\* AT^FWUP is accepted in state 40, which may still be read for a while; its
\* answer may be lost.
Burns == fota = 40 /\ fota' \in {40, 50} /\ burns' = burns + 1

Answered == "fwup" \in waiting /\ waiting' = waiting \ {"fwup"}

FwupAccepted ==
    /\ Answered /\ Burns
    /\ UNCHANGED <<agreed, pc, step, version, baseVersion, memory, said, task, firmware,
                   unanswered, flows, lost>>

\* Mutant: a failure leaves fwupSent set.
RetriesNever == fwupTries' = fwupTries + 1 /\ UNCHANGED fwupSent

\* A failure allows the command once more.
Retries == fwupTries' = fwupTries + 1 /\ fwupSent' = FALSE

\* After MaxTries failures the flow ends and no poll is sent any more, but fwupSent
\* is reset all the same: a poll behind this AT^FWUP that reads state 40 sends it
\* once again.
FwupFails ==
    /\ Answered
    /\ \/ UNCHANGED <<fota, burns, unanswered, lost>>
       \/ Burns /\ Lose /\ unanswered' = TRUE
    /\ Retries
    /\ IF fwupTries' >= MaxTries THEN End("failed") ELSE UNCHANGED <<pc, step, said>>
    /\ UNCHANGED <<agreed, version, baseVersion, lastState, same, saw, task, firmware, flows>>

-----------------------------------------------------------------------------
(* finishByIdle                                                            *)

\* Mutant: a version that cannot be compared counts as a new one.
JudgedByRead(now) == IF now # baseVersion THEN "success" ELSE "unchanged"

\* Without a version from before the flow the outcome is unknown; a version
\* that cannot be read now counts as unchanged.
Judged(now) == CASE baseVersion = Unknown -> "unknown"
                 [] now \notin {Unknown, baseVersion} -> "success"
                 [] OTHER -> "unchanged"

Check(now) ==
    /\ pc = "check"
    /\ IF now = Unknown THEN Lose ELSE now = firmware /\ UNCHANGED lost
    /\ IF Judged(now) = "success"
       THEN pc' = "ready" /\ step' = 4 /\ said' = "success" /\ version' = now
       ELSE End(Judged(now)) /\ UNCHANGED version
    /\ UNCHANGED <<agreed, baseVersion, memory, waiting, fota, task, firmware, history>>

-----------------------------------------------------------------------------
(* The modem                                                               *)

\* What follows each state, by itself; a suspended download is taken up again by
\* the modem or by the AT^FOTADL=1 that tick sends every 30 seconds.
After == [s \in States |->
    CASE s = 10 -> IF task THEN {10, 11} ELSE {}
      [] s = 11 -> {10, 12, 13, 14}
      [] s = 12 -> {10, 30}
      [] s = 30 -> {10, 20, 31, 40}
      [] s = 31 -> {10, 20, 30}
      [] s = 40 -> IF burns > 0 THEN {50} ELSE {}
      [] s = 50 -> {10, 70}
      [] s \in Failed -> {10}
      [] OTHER -> {}]

\* The modem goes on. Burned, it restarts with another version and is idle; it
\* may also end idle with the old one.
ModemMoves ==
    /\ fota' \in After[fota]
    /\ task' = FALSE
    /\ \/ UNCHANGED firmware
       \/ fota = 50 /\ fota' = 10 /\ firmware' \in Firmwares \ 1..firmware
    /\ UNCHANGED <<page, history, lost>>

\* A download that waits in state 40 is cancelled at the terminal, with
\* AT^FOTADL=0, as the page asks for.
Cancelled ==
    /\ pc = "ready" /\ fota = 40 /\ burns = 0 /\ fota' = 10
    /\ UNCHANGED <<page, task, firmware, history, lost>>

Done == pc = "ready" /\ UNCHANGED vars

PageMoves ==
    \/ TakeBase \/ QueryState \/ NotIdle \/ AddressSet \/ AddressFails
    \/ \E expired \in BOOLEAN : Poll(expired)
    \/ PollLost
    \/ AskEarly \/ FwupAccepted \/ FwupFails
    \/ \E now \in {Unknown, firmware} : Check(now)

Next ==
    \/ Agree \/ Start
    \/ PageMoves
    \/ ModemMoves \/ Cancelled
    \/ Done

\* The page polls on and the 60 seconds pass. The modem does not stay for ever
\* in a state that it leaves by itself, and a download is not suspended for ever
\* again and again.
DownloadEnds == fota = 30 /\ ModemMoves /\ fota' # 31

Spec == Init /\ [][Next]_vars
             /\ WF_vars(PageMoves) /\ WF_vars(Poll(TRUE))
             /\ WF_vars(ModemMoves) /\ SF_vars(DownloadEnds)

-----------------------------------------------------------------------------
(* Properties                                                              *)

\* Every variable has its type.
UpgradeTypeOK ==
    /\ agreed \in BOOLEAN /\ step \in 0..4
    /\ pc \in {"ready", "begin", "init", "address", "poll", "check"}
    /\ waiting \subseteq {"fwup", "poll"}
    /\ version \in Firmwares \union {Unknown} /\ baseVersion \in Firmwares \union {Unknown}
    /\ lastState \in States \union {-1, NoAnswer} /\ same \in BOOLEAN
    /\ saw \subseteq {"query", "download"}
    /\ fwupSent \in BOOLEAN /\ fwupTries \in 0..MaxTries + 1
    /\ said \in {"none", "not_idle", "address_failed", "nothing", "failed",
                 "unknown", "success", "unchanged"}
    /\ fota \in States /\ task \in BOOLEAN /\ firmware \in Firmwares

\* The modem burns once in a flow, also when state 40 is read again and again
\* and when a refused AT^FWUP is repeated; AT^FWUP in the middle of an upgrade
\* breaks it. Only an answer that was lost can lead to a second one.
BurnsOnce == burns <= 1 \/ unanswered

\* The user is told of a success only if the firmware is another than the
\* version that was read before the flow, whatever way the modem came back to
\* state 10; state 50 alone is no success.
SuccessIsNewFirmware ==
    said' = "success" /\ said # "success" => firmware # baseVersion

\* An AT^FWUP sent, or a state 50 read, by the poll that was left behind after the
\* last failure: the page shows step 3 with nothing polling and no button, for good.
Stranded == pc = "ready" /\ step = 3 /\ fwupTries >= MaxTries

Upgrading == pc # "ready" \/ waiting # {} \/ (step \notin {0, 4} /\ ~Stranded)

\* A flow ends, with the button back or at step 4: with a failure that the modem
\* reports or keeps to itself, with a version to compare, or after three refused
\* AT^FWUP; unless it is Stranded.
FlowEnds == Upgrading ~> ~Upgrading

\* Why BurnsOnce holds: what was burned was sent for and is not sent for again.
UpgradeInv ==
    /\ burns \in Nat /\ fwupSent \in BOOLEAN /\ unanswered \in BOOLEAN
    /\ "fwup" \in waiting => fwupSent /\ step = 3
    /\ waiting \subseteq {"fwup", "poll"} /\ (waiting # {} => pc \in {"poll", "ready"})
    /\ unanswered \/ burns = 0 \/ (burns = 1 /\ fwupSent /\ "fwup" \notin waiting)
=============================================================================
