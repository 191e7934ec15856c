----------------------------- MODULE ServicePage -----------------------------
(***************************************************************************)
(* service.js: the page that configures, reloads, restarts and stops the   *)
(* AT service through rpcd, with the saving of UCI in rpc.js (AtUci). The  *)
(* state of the service is put together from three readings, each of which *)
(* may fail; the operations are chains of calls, and only the button that  *)
(* was clicked is disabled while its chain runs, so that several overlap.  *)
(*                                                                         *)
(* refreshStatus, with which every chain ends, uses statBinary, a variable *)
(* of load() that is not in scope in render(): the call throws before it   *)
(* changes anything, and the chain goes on at its next catch.              *)
(***************************************************************************)
EXTENDS Naturals, FiniteSets

CONSTANTS
    Values,         \* what the user may type into a field
    Chains,         \* the operations that may overlap
    Clicks,         \* bound: operations and edits
    Trouble         \* bound: calls that fail, crashes of the service

OutOfRange == "out"
Limit == "limit"

Kinds == {"reload", "restart", "save", "stop"}

VARIABLES
    facts,          \* state: what the page holds for known
    shown,          \* the label of the card
    off,            \* the buttons that are disabled
    chain,          \* operation -> [kind, at]
    told,           \* the last message of a reload or a stop
    form,           \* what the field shows
    staged,         \* what L.uci holds in the browser
    dirty           \* AtUci._dirty

VARIABLES           \* the router and bounds
    proc,           \* the service: "none", "dead", "up", "ending"
    bin,            \* its binary: "absent", "plain", "exec"
    file,           \* the field in the configuration of the router
    clicks,
    trouble

vars == <<facts, shown, off, chain, told, form, staged, dirty, proc, bin, file, clicks, trouble>>

Idle == [kind |-> "none", at |-> "idle"]

Running(p) == p \in {"up", "ending"}
Registered(p) == p # "none"

-----------------------------------------------------------------------------
(* The state of the service                                                *)

\* What a reading of procd, or of the binary, gives: the truth, or nothing.
ProcRead == {[running |-> Running(proc), registered |-> Registered(proc), svcUnknown |-> FALSE],
             [running |-> FALSE, registered |-> FALSE, svcUnknown |-> TRUE]}
BinRead == {bin, "unknown"}

\* Mutant: a failed reading of the binary is taken for a missing binary.
BlamesTheFile(f) ==
    CASE f.running -> "running"
      [] ~f.running /\ f.userStopped -> "stoppedByUser"
      [] ~f.running /\ ~f.userStopped /\ ~f.enabled -> "disabled"
      [] OTHER -> IF f.bin \in {"absent", "unknown"} THEN "notInstalled" ELSE "stopped"

\* resolveStatus: the first that applies.
Resolved(f) ==
    CASE f.running -> "running"
      [] ~f.running /\ f.userStopped -> "stoppedByUser"
      [] ~f.running /\ ~f.userStopped /\ ~f.enabled -> "disabled"
      [] OTHER -> CASE f.bin = "unknown" -> "unknown"
                    [] f.bin = "absent" -> "notInstalled"
                    [] f.bin = "plain" -> "notExecutable"
                    [] OTHER -> IF f.registered THEN "stopped"
                                ELSE IF f.svcUnknown THEN "unknown" ELSE "unregistered"

\* render fills the form from the configuration that load has read.
FormShows(v) == form = v /\ staged = v /\ dirty = FALSE

\* load and the first renderStatus
Init ==
    /\ proc \in {"none", "dead", "up"} /\ bin \in {"absent", "plain", "exec"}
    /\ proc = "up" => bin = "exec"
    /\ \E p \in ProcRead, b \in BinRead, e \in BOOLEAN :
          facts = [running |-> p.running, registered |-> p.registered, svcUnknown |-> p.svcUnknown,
                   bin |-> b, enabled |-> e, userStopped |-> FALSE]
    /\ shown = Resolved(facts)
    /\ off = IF facts.running THEN {} ELSE {"stop"}
    /\ chain = [c \in Chains |-> Idle] /\ told = "nothing"
    /\ file \in Values \ {OutOfRange} /\ FormShows(file)
    /\ clicks = Clicks /\ trouble = Trouble

-----------------------------------------------------------------------------
(* The form and its saving                                                 *)

\* Mutant: the mark is cleared whether or not the save succeeded.
ClearsAlways(saved) == FALSE

\* markDirty is undone by clearDirty after a save that succeeded.
StaysDirty(saved) == ~saved

\* Any control that changes marks the page.
Edit(v) ==
    /\ clicks > 0 /\ clicks' = clicks - 1
    /\ form # v /\ form' = v /\ dirty' = TRUE
    /\ UNCHANGED <<facts, shown, off, chain, told, staged, proc, bin, file, trouble>>

\* clampInt: what is written is in range, whatever the field shows.
Clamped(v) == IF v = OutOfRange THEN Limit ELSE v

Begins(c, kind, at, buttons) ==
    /\ clicks > 0 /\ clicks' = clicks - 1
    /\ chain[c] = Idle /\ chain' = [chain EXCEPT ![c] = [kind |-> kind, at |-> at]]
    /\ off' = off \union buttons

Save(c) ==
    /\ "save" \notin off
    /\ Begins(c, "save", "write", {"save"})
    /\ staged' = Clamped(form) /\ dirty' = TRUE
    /\ UNCHANGED <<facts, shown, told, form, proc, bin, file, trouble>>

\* uciSave: save, apply; "nothing to apply" counts as applied. Then the mark is
\* cleared and the service reloaded.
Written(c) ==
    /\ chain[c].at = "write"
    /\ file' = staged /\ dirty' = StaysDirty(TRUE)
    /\ chain' = [chain EXCEPT ![c].at = "delete"] /\ off' = off \union {"reload"}
    /\ UNCHANGED <<facts, shown, told, form, staged, proc, bin, clicks, trouble>>

\* uciSave throws: what was set stays in L.uci and goes with the next save.
NotWritten(c) ==
    /\ chain[c].at = "write"
    /\ trouble > 0 /\ trouble' = trouble - 1
    /\ dirty' = (dirty /\ StaysDirty(FALSE)) /\ told' = "saveFailed"
    /\ chain' = [chain EXCEPT ![c] = Idle] /\ off' = off \ {"save"}
    /\ UNCHANGED <<facts, shown, form, staged, proc, bin, file, clicks>>

-----------------------------------------------------------------------------
(* Reload and restart: delete, set, wait, look                             *)

Reload(c) ==
    /\ "reload" \notin off /\ Begins(c, "reload", "delete", {"reload"})
    /\ UNCHANGED <<facts, shown, told, form, staged, dirty, proc, bin, file, trouble>>

\* restartService is reloadService behind a question.
Restart(c) ==
    /\ "restart" \notin off /\ Begins(c, "restart", "delete", {"reload", "restart"})
    /\ UNCHANGED <<facts, shown, told, form, staged, dirty, proc, bin, file, trouble>>

Goes(c, at) == chain' = [chain EXCEPT ![c].at = at]

\* service.delete unregisters and stops; that it fails does not matter.
Delete(c) ==
    /\ chain[c].at = "delete" /\ Goes(c, "start")
    /\ \/ proc' = "none" /\ UNCHANGED trouble
       \/ trouble > 0 /\ trouble' = trouble - 1 /\ UNCHANGED proc
    /\ UNCHANGED <<facts, shown, off, told, form, staged, dirty, bin, file, clicks>>

\* startViaUbus: service.set registers the instance; without an executable
\* binary no process comes up.
StartViaUbus(c) ==
    /\ chain[c].at = "start" /\ Goes(c, "look")
    /\ proc' = IF bin = "exec" THEN "up" ELSE "dead"
    /\ UNCHANGED <<facts, shown, off, told, form, staged, dirty, bin, file, clicks, trouble>>

\* The buttons that the end of a reload gives back: its own, those of a restart
\* and of a save after it.
Gives(kind) == {"reload"} \union ({kind} \ {"stop"})

ReloadEnds(c) == /\ chain' = [chain EXCEPT ![c] = Idle] /\ off' = off \ Gives(chain[c].kind)

\* service.set fails: "reload failed".
StartFails(c) ==
    /\ chain[c].at = "start" /\ trouble > 0 /\ trouble' = trouble - 1
    /\ told' = "reloadFailed" /\ ReloadEnds(c)
    /\ UNCHANGED <<facts, shown, form, staged, dirty, proc, bin, file, clicks>>

\* fetchRunning takes a list that fails for "not running".
ListFails == trouble > 0 /\ trouble' = trouble - 1

\* After its message refreshStatus throws, and the catch tells that the reload
\* failed.
Look(c) ==
    /\ chain[c].at = "look"
    /\ \/ /\ facts' = [facts EXCEPT !.userStopped = facts.userStopped /\ ~Running(proc)]
          /\ UNCHANGED trouble
       \/ ListFails /\ UNCHANGED facts
    /\ told' = "reloadFailed" /\ ReloadEnds(c)
    /\ UNCHANGED <<shown, form, staged, dirty, proc, bin, file, clicks>>

-----------------------------------------------------------------------------
(* Stop: the init script, look, service.delete, look until it is gone      *)

Stop(c) ==
    /\ "stop" \notin off /\ Begins(c, "stop", "script", {"stop"})
    /\ UNCHANGED <<facts, shown, told, form, staged, dirty, proc, bin, file, trouble>>

\* The script ends the process within the term timeout of procd, or is not run.
Script(c) ==
    /\ chain[c].at = "script" /\ Goes(c, "check")
    /\ \/ proc' = (IF proc = "up" THEN "ending" ELSE "none") /\ UNCHANGED trouble
       \/ trouble > 0 /\ trouble' = trouble - 1 /\ UNCHANGED proc
    /\ UNCHANGED <<facts, shown, off, told, form, staged, dirty, bin, file, clicks>>

\* Mutant: the button of a stop that failed is left alone.
StopKeepsOff(running) == IF running THEN off ELSE off \union {"stop"}

\* Enabled, then renderStatus: only a service that runs, for all the page knows,
\* can be stopped.
AfterStop(running) == IF facts.running THEN off \ {"stop"} ELSE off \union {"stop"}

\* The verdict. refreshStatus throws after it: "stop failed" is told in either
\* case, and the card is drawn from the facts as they were.
StopEnds(c, running) ==
    /\ facts' = [facts EXCEPT !.userStopped = ~running]
    /\ told' = IF running THEN "stopFailed" ELSE "stoppedThenFailed"
    /\ shown' = Resolved(facts') /\ off' = AfterStop(running)
    /\ chain' = [chain EXCEPT ![c] = Idle]

CheckStop(c) ==
    /\ chain[c].at = "check"
    /\ \/ ~Running(proc) /\ StopEnds(c, FALSE) /\ UNCHANGED trouble
       \/ Running(proc) /\ Goes(c, "unregister") /\ UNCHANGED <<facts, shown, off, told, trouble>>
       \/ Running(proc) /\ ListFails /\ StopEnds(c, FALSE)
    /\ UNCHANGED <<form, staged, dirty, proc, bin, file, clicks>>

Unregister(c) ==
    /\ chain[c].at = "unregister" /\ Goes(c, "until")
    /\ \/ proc' = "none" /\ UNCHANGED trouble
       \/ trouble > 0 /\ trouble' = trouble - 1 /\ UNCHANGED proc
    /\ UNCHANGED <<facts, shown, off, told, form, staged, dirty, bin, file, clicks>>

\* waitUntilStopped: until it is not listed as running, or for twelve seconds.
Until(c) ==
    /\ chain[c].at = "until"
    /\ StopEnds(c, Running(proc))
    /\ UNCHANGED <<form, staged, dirty, proc, bin, file, clicks, trouble>>

-----------------------------------------------------------------------------
(* procd                                                                   *)

Terminates ==
    /\ proc = "ending" /\ proc' = "none"
    /\ UNCHANGED <<facts, shown, off, chain, told, form, staged, dirty, bin, file, clicks, trouble>>

Crash ==
    /\ proc = "up" /\ trouble > 0 /\ trouble' = trouble - 1
    /\ proc' = "dead"
    /\ UNCHANGED <<facts, shown, off, chain, told, form, staged, dirty, bin, file, clicks>>

Respawn ==
    /\ proc = "dead" /\ bin = "exec" /\ proc' = "up"
    /\ UNCHANGED <<facts, shown, off, chain, told, form, staged, dirty, bin, file, clicks, trouble>>

ChainMoves(c) == \/ Written(c) \/ NotWritten(c) \/ Delete(c) \/ StartViaUbus(c) \/ StartFails(c) \/ Look(c)
                 \/ Script(c) \/ CheckStop(c) \/ Unregister(c) \/ Until(c)

Moves == \E c \in Chains : ChainMoves(c)

Next ==
    \/ \E v \in Values : Edit(v)
    \/ \E c \in Chains : Save(c) \/ Reload(c) \/ Restart(c) \/ Stop(c)
    \/ Moves
    \/ Terminates \/ Crash \/ Respawn

\* The browser runs what a chain waits for; every call ends or times out.
Spec == Init /\ [][Next]_vars /\ WF_vars(Moves)

-----------------------------------------------------------------------------
(* Properties                                                              *)

ServiceTypeOK ==
    /\ facts \in [running : BOOLEAN, registered : BOOLEAN, svcUnknown : BOOLEAN, userStopped : BOOLEAN,
                  bin : {"absent", "plain", "exec", "unknown"}, enabled : BOOLEAN]
    /\ off \subseteq Kinds /\ dirty \in BOOLEAN
    /\ file \in Values \union {Limit} /\ staged \in Values \union {Limit}
    /\ \A c \in Chains : chain[c].at \in {"idle", "write", "delete", "start", "look",
                                          "script", "check", "unregister", "until"}

\* What was set in L.uci and did not reach the router keeps the page marked:
\* the user cannot leave it unwarned, also after a save that failed.
StagedIsMarked == staged # file => dirty

\* A reading that fails accuses nobody: "not installed" is said only of a
\* binary that is not there.
AccusesRightly == shown = "notInstalled" => bin = "absent"

\* Whatever overlaps, once no chain runs every button but "stop" can be
\* clicked, and "stop" if the page takes the service for running.
ButtonsReturn ==
    (\A c \in Chains : chain[c] = Idle) => off \subseteq (IF facts.running THEN {} ELSE {"stop"})

\* Every operation ends, in a message.
Unsettled == \E c \in Chains : chain[c] # Idle
OperationsEnd == Unsettled ~> ~Unsettled

\* After a stop the card and its reason follow: a service that was stopped is
\* not shown as running. (refreshStatus throws: the code breaks this.)
CardFollowsStop ==
    facts.userStopped /\ (\A c \in Chains : chain[c] = Idle) => shown # "running"

\* Why: a button is off for an operation under way that will give it back.
Needs(x, button) ==
    \/ button \in {"save", "restart", "stop"} /\ x.kind = button
    \/ button = "reload" /\ x.kind \in {"reload", "restart", "save"} /\ x.at # "write"

OffForReason ==
    \A b \in off : (\E c \in Chains : Needs(chain[c], b)) \/ (b = "stop" /\ ~facts.running)

Places == {"idle", "write", "delete", "start", "look", "script", "check", "unregister", "until"}

\* Each kind of operation has its own places.
ChainRight(x) ==
    /\ x \in [kind : Kinds \union {"none"}, at : Places]
    /\ x.at = "idle" => x = Idle
    /\ x.at = "write" => x.kind = "save"
    /\ x.at \in {"delete", "start", "look"} => x.kind \in {"reload", "restart", "save"}
    /\ x.at \in {"script", "check", "unregister", "until"} => x.kind = "stop"

FactsRight ==
    /\ facts \in [running : BOOLEAN, registered : BOOLEAN, svcUnknown : BOOLEAN, userStopped : BOOLEAN,
                  bin : {"absent", "plain", "exec", "unknown"}, enabled : BOOLEAN]
    /\ facts.bin \in {bin, "unknown"} /\ bin \in {"absent", "plain", "exec"}

ServiceInv ==
    /\ FactsRight /\ AccusesRightly
    /\ off \subseteq Kinds /\ dirty \in BOOLEAN
    /\ form \in Values /\ file \in Values \union {Limit} /\ staged \in Values \union {Limit}
    /\ chain \in [Chains -> [kind : Kinds \union {"none"}, at : Places]]
    /\ \A c \in Chains : ChainRight(chain[c])
    /\ OffForReason /\ StagedIsMarked
=============================================================================
