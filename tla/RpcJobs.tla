------------------------------ MODULE RpcJobs ------------------------------
(***************************************************************************)
(* The commands of the web interface and the two background jobs they      *)
(* start (rust/src/rpcserver.rs): the SMS job and the cell scan. Both take *)
(* the AT channel for a long time, so run_command turns other commands     *)
(* away while one is running.                                              *)
(*                                                                         *)
(*   client   a browser: its connection's task inside run_command, and the *)
(*            page that polls AT+SMSJOB? until its message is settled      *)
(*   "sms"    the task that sends one message and, if that fails, writes   *)
(*            an ESC past the command lock                                 *)
(*   "scan"   the task that runs one AT^CELLSCAN                           *)
(*   "other"  the scheduler and the URC dispatcher, which use the channel  *)
(*            without asking the gates                                     *)
(*                                                                         *)
(* The channel is the command lock of AtChannel, no more: a task waits for *)
(* it, has it for one exchange, or gives up; timers fire at any moment.    *)
(* SmsState.seq is left out: it is counted and sent, and no page reads it. *)
(***************************************************************************)
EXTENDS Integers, FiniteSets

CONSTANTS
    Clients,
    NoClient,       \* the scan lock is free
    MaxCells        \* bound: cells the modem reports in one scan

Jobs  == {"sms", "scan", "other"}
Tasks == Clients \cup Jobs
Kinds == {"at", "scan", "abort", "state"}      \* what a client may ask

ASSUME ClientsAssumption == NoClient \notin Clients /\ Clients \cap Jobs = {}
ASSUME CellsAssumption   == MaxCells \in Nat

VARIABLES
    sms,            \* SmsState: running, ok, and whether blocked_until is ahead
    scan,           \* ScanState: running, aborted, lines (how many)
    scanMu,         \* holder of the scan lock
    pc,             \* where each task is; "queued" waits for the channel and
                    \* "own" has it
    kind,           \* per client: what it is asking
    modem           \* "ready", or "data": it takes what it is sent for a PDU

VARIABLES           \* history
    unsettled,      \* clients whose message no job has finished yet
    heard,          \* cells the modem has reported in this scan
    stopped,        \* a client has interrupted this scan
    escLost         \* the last ESC could not be written

jobVars  == <<sms, scan, scanMu>>
histVars == <<unsettled, heard, stopped, escLost>>
vars == <<jobVars, pc, kind, modem, histVars>>

\* Mutant: the cells of the last scan are kept.
ClearedFlags(on) == [scan EXCEPT !.running = on, !.aborted = FALSE]

\* A scan starts or is over: no abort, no cells.
Cleared(on) == [running |-> on, aborted |-> FALSE, lines |-> 0]

Init ==
    /\ sms = [running |-> FALSE, ok |-> "none", blocked |-> FALSE]
    /\ scan = [running |-> FALSE, aborted |-> FALSE, lines |-> 0]
    /\ scanMu = NoClient
    /\ pc = [t \in Tasks |-> "idle"]
    /\ kind = [c \in Clients |-> "none"]
    /\ modem = "ready"
    /\ unsettled = {}
    /\ heard = 0 /\ stopped = FALSE
    /\ escLost = FALSE

Go(t, place) == pc' = [pc EXCEPT ![t] = place]

-----------------------------------------------------------------------------
(* The AT channel                                                          *)

Owners == {t \in Tasks : pc[t] = "own"}

Acquire(t) ==
    /\ pc[t] = "queued" /\ Owners = {}
    /\ Go(t, "own")
    /\ UNCHANGED <<jobVars, kind, modem, histVars>>

\* The exchange of a command that no job waits for ends, whatever its answer,
\* or the 8 s of the queue have gone by.
PlainDone(t) ==
    /\ t \in Clients \cup {"other"} /\ pc[t] \in {"queued", "own"}
    /\ Go(t, "idle")
    /\ UNCHANGED <<jobVars, kind, modem, histVars>>

\* The scheduler or the dispatcher sends a command.
OtherSends ==
    /\ pc["other"] = "idle"
    /\ Go("other", "queued")
    /\ UNCHANGED <<jobVars, kind, modem, histVars>>

-----------------------------------------------------------------------------
(* Messages                                                                *)

\* Mutant: the spawned task raises running, the handler only answers.
AcceptQuietly == [sms EXCEPT !.ok = "none"]

Accepted == [sms EXCEPT !.running = TRUE, !.ok = "none"]

\* A message is accepted; a running scan does not keep it out. From here the
\* page polls.
Submit(c) ==
    /\ pc[c] = "idle" /\ ~sms.running /\ ~sms.blocked
    /\ sms' = Accepted
    /\ unsettled' = unsettled \cup {c}
    /\ pc' = [pc EXCEPT ![c] = "polling", !["sms"] = "queued"]
    /\ UNCHANGED <<scan, scanMu, kind, modem, heard, stopped, escLost>>

\* Mutant: the page has no deadline.
PollForEver(c) ==
    /\ pc[c] = "polling" /\ ~sms.running
    /\ Go(c, "idle")
    /\ unsettled' = unsettled \ {c}
    /\ UNCHANGED <<jobVars, kind, modem, heard, stopped, escLost>>

\* AT+SMSJOB? finds no job running, and its result is taken for the page's
\* own; or the page's 20 s are over, or the page is left.
Poll(c) ==
    /\ pc[c] = "polling"
    /\ Go(c, "idle")
    /\ unsettled' = unsettled \ {c}
    /\ UNCHANGED <<jobVars, kind, modem, heard, stopped, escLost>>

\* The modem confirms the message.
SmsSent ==
    /\ pc["sms"] = "own" /\ modem = "ready"
    /\ Go("sms", "sent")
    /\ UNCHANGED <<jobVars, kind, modem, histVars>>

\* Mutant: no ESC after a message that has only timed out.
AfterTimeout == "failed"

AfterFailure == "esc"

\* The message fails: no channel within the queue budget, an error, or no
\* confirmation in time, the modem then possibly waiting for the PDU still.
\* The command lock is given back before the ESC.
SmsFails ==
    /\ pc["sms"] \in {"queued", "own"}
    /\ modem' \in IF pc["sms"] = "own" THEN {modem, "data"} ELSE {modem}
    /\ Go("sms", AfterFailure)
    /\ UNCHANGED <<jobVars, kind, histVars>>

\* cancel_data_entry writes an ESC, whoever has the channel, or finds no
\* connection.
WriteEsc ==
    /\ pc["sms"] = "esc"
    /\ Go("sms", "failed")
    /\ \/ modem' = "ready" /\ escLost' = FALSE
       \/ escLost' = TRUE /\ UNCHANGED modem
    /\ UNCHANGED <<jobVars, kind, unsettled, heard, stopped>>

\* Mutant: running comes down only after a message that was sent.
SettledIfSent ==
    IF pc["sms"] = "sent"
    THEN [running |-> FALSE, ok |-> "yes", blocked |-> FALSE]
    ELSE [sms EXCEPT !.ok = "no", !.blocked = TRUE]

Settled ==
    IF pc["sms"] = "sent"
    THEN [running |-> FALSE, ok |-> "yes", blocked |-> FALSE]
    ELSE [running |-> FALSE, ok |-> "no", blocked |-> TRUE]

Settle ==
    /\ pc["sms"] \in {"sent", "failed"}
    /\ sms' = Settled
    /\ Go("sms", "idle")
    /\ unsettled' = {}
    /\ UNCHANGED <<scan, scanMu, kind, modem, heard, stopped, escLost>>

\* SMS_BLOCK_COOLDOWN is over.
CooldownEnds ==
    /\ sms.blocked
    /\ sms' = [sms EXCEPT !.blocked = FALSE]
    /\ UNCHANGED <<scan, scanMu, pc, kind, modem, histVars>>

-----------------------------------------------------------------------------
(* The gates of run_command                                                *)

\* A command other than a message passes the SMS gate.
Ask(c, k) ==
    /\ pc[c] = "idle" /\ ~sms.running
    /\ kind' = [kind EXCEPT ![c] = k]
    /\ Go(c, "scanGate")
    /\ UNCHANGED <<jobVars, modem, histVars>>

\* The scan lock is granted.
LockScan(c) ==
    /\ pc[c] = "scanGate" /\ scanMu = NoClient
    /\ scanMu' = c
    /\ Go(c, "locked")
    /\ UNCHANGED <<sms, scan, kind, modem, histVars>>

\* The client gives the scan lock back.
Unlock(c) ==
    /\ scanMu' = IF scanMu = c THEN NoClient ELSE scanMu
    /\ kind' = [kind EXCEPT ![c] = "none"]

\* interrupt finds the command of a scan in the pending slot.
ScanPending == pc["scan"] = "own"

\* AT^CELLSCAN=STATE is answered, and every command that the gate turns away:
\* a plain command or a second scan during a scan, an abort without one.
TurnAway(c) ==
    /\ pc[c] = "locked"
    /\ \/ kind[c] = "state"
       \/ kind[c] \in {"at", "scan"} /\ scan.running
       \/ kind[c] = "abort" /\ ~(scan.running /\ ScanPending)
    /\ Unlock(c)
    /\ Go(c, "idle")
    /\ UNCHANGED <<sms, scan, modem, histVars>>

\* A plain command goes on to the channel.
LetThrough(c) ==
    /\ pc[c] = "locked" /\ kind[c] = "at" /\ ~scan.running
    /\ Unlock(c)
    /\ Go(c, "queued")
    /\ UNCHANGED <<sms, scan, modem, histVars>>

\* start_cell_scan
StartScan(c) ==
    /\ pc[c] = "locked" /\ kind[c] = "scan" /\ ~scan.running
    /\ scan' = Cleared(TRUE)
    /\ Unlock(c)
    /\ pc' = [pc EXCEPT ![c] = "idle", !["scan"] = "queued"]
    /\ heard' = 0 /\ stopped' = FALSE
    /\ UNCHANGED <<sms, modem, unsettled, escLost>>

\* Mutant: the scan lock is given back before the abort string is written.
NoLock == NoClient

\* abort_cell_scan keeps the scan lock while it writes.
AbortLock == scanMu

\* abort_cell_scan: a scan is running and its command is in the channel.
CheckAbort(c) ==
    /\ pc[c] = "locked" /\ kind[c] = "abort"
    /\ scan.running /\ ScanPending
    /\ stopped' = TRUE
    /\ scanMu' = AbortLock
    /\ Go(c, "breaking")
    /\ UNCHANGED <<sms, scan, kind, modem, unsettled, heard, escLost>>

\* The abort string is written, or cannot be.
WriteAbort(c) ==
    /\ pc[c] = "breaking"
    /\ \/ scan' = [scan EXCEPT !.aborted = TRUE]
       \/ UNCHANGED scan
    /\ Unlock(c)
    /\ Go(c, "idle")
    /\ UNCHANGED <<sms, modem, histVars>>

-----------------------------------------------------------------------------
(* The cell scan                                                           *)

\* A cell comes in. The read loop may not wait for the scan lock: if it is
\* taken, the cell is left out.
CellFound ==
    /\ pc["scan"] = "own" /\ heard < MaxCells
    /\ heard' = heard + 1
    /\ scan' = IF scanMu = NoClient THEN [scan EXCEPT !.lines = @ + 1] ELSE scan
    /\ UNCHANGED <<sms, scanMu, pc, kind, modem, unsettled, stopped, escLost>>

\* The scan has its answer, or an error, or nothing in time.
ScanReturns ==
    /\ pc["scan"] \in {"queued", "own"}
    /\ \E how \in IF ScanPending THEN {"answered", "failed"} ELSE {"failed"} :
           Go("scan", how)
    /\ UNCHANGED <<jobVars, kind, modem, histVars>>

\* Mutant: the state is reset only after an answer.
ScanAfterAnswer == IF pc["scan"] = "answered" THEN Cleared(FALSE) ELSE scan

ScanAfter == Cleared(FALSE)

\* run_cell_scan resets the state; how it ended is broadcast (Announced).
ResetScan ==
    /\ pc["scan"] \in {"answered", "failed"} /\ scanMu = NoClient
    /\ scan' = ScanAfter
    /\ Go("scan", "idle")
    /\ UNCHANGED <<sms, scanMu, kind, modem, histVars>>

\* The state in the event that run_cell_scan broadcasts.
Announced == CASE pc["scan"] = "failed"                     -> "error"
               [] pc["scan"] = "answered" /\ scan.aborted   -> "aborted"
               [] pc["scan"] = "answered" /\ ~scan.aborted  -> "done"
               [] OTHER                                     -> "running"

-----------------------------------------------------------------------------

SmsJob  == SmsSent \/ SmsFails \/ WriteEsc \/ Settle
ScanJob == CellFound \/ ScanReturns \/ ResetScan
Holding(c) == TurnAway(c) \/ LetThrough(c) \/ StartScan(c) \/ CheckAbort(c)
                \/ WriteAbort(c)

Next ==
    \/ \E t \in Tasks : Acquire(t) \/ PlainDone(t)
    \/ OtherSends \/ SmsJob \/ CooldownEnds \/ ScanJob
    \/ \E c \in Clients : \/ Submit(c) \/ Poll(c)
                          \/ (\E k \in Kinds : Ask(c, k))
                          \/ LockScan(c) \/ Holding(c)

Spec == Init /\ [][Next]_vars

\* Timers fire and spawned tasks run; the mutex of tokio is a queue, so
\* whoever waits for the scan lock gets it.
FairSpec ==
    /\ Spec
    /\ WF_vars(SmsFails \/ WriteEsc \/ Settle)
    /\ WF_vars(ScanReturns) /\ SF_vars(ResetScan)
    /\ \A c \in Clients : /\ SF_vars(LockScan(c))
                         /\ WF_vars(Holding(c) \/ PlainDone(c) \/ Poll(c))

-----------------------------------------------------------------------------
(* Properties                                                              *)

ClientPlaces == {"idle", "polling", "scanGate", "locked", "breaking", "queued",
                 "own"}
SmsPlaces    == {"idle", "queued", "own", "esc", "sent", "failed"}
ScanPlaces   == {"idle", "queued", "own", "answered", "failed"}

JobTypeOK ==
    /\ sms \in [running : BOOLEAN, ok : {"none", "yes", "no"},
                blocked : BOOLEAN]
    /\ scan \in [running : BOOLEAN, aborted : BOOLEAN, lines : 0..MaxCells]
    /\ scanMu \in Clients \cup {NoClient}
    /\ modem \in {"ready", "data"}

PlaceTypeOK ==
    /\ pc \in [Tasks -> ClientPlaces \cup SmsPlaces \cup ScanPlaces]
    /\ \A c \in Clients : pc[c] \in ClientPlaces
    /\ pc["sms"] \in SmsPlaces
    /\ pc["scan"] \in ScanPlaces
    /\ pc["other"] \in {"idle", "queued", "own"}
    /\ kind \in [Clients -> Kinds \cup {"none"}]

HistTypeOK ==
    /\ unsettled \subseteq Clients
    /\ heard \in 0..MaxCells
    /\ stopped \in BOOLEAN /\ escLost \in BOOLEAN

\* Types: every task is at a place of its own program, and a scan lists no
\* more cells than a scan can find.
TypeOK == JobTypeOK /\ PlaceTypeOK /\ HistTypeOK

\* The gates are shut exactly while their job lives: running is raised before
\* the task starts and comes down on every way out of it, so that no command
\* is turned away for a job that is gone (comment on the reset in
\* run_cell_scan).
GatesMatchJobs ==
    /\ sms.running <=> pc["sms"] # "idle"
    /\ scan.running <=> pc["scan"] # "idle"

\* A page that finds no job running reads the result of its own message or of
\* a later one, never an older one: when it is answered SMS_ACCEPTED the old
\* result can no longer be read (handle_sms_job_command raises running before
\* it spawns the job).
VerdictNotStale ==
    \A c \in Clients : pc[c] = "polling" /\ ~sms.running => c \notin unsettled

\* A scan is announced as aborted only if a client has interrupted that very
\* scan: abort_cell_scan holds the scan lock from its check to its mark.
AbortIsOfThisScan == Announced = "aborted" => stopped

\* The modem is not left waiting for a PDU when the job is over, unless the
\* ESC itself could not be written: every other command would be swallowed.
DataEntryCleared == modem = "data" /\ ~sms.running => escLost

\* The gates do not stay shut: a message or a scan that is running ends, with
\* the modem silent and with clients that ask and interrupt all the while.
GatesReopen == /\ sms.running ~> ~sms.running
               /\ scan.running ~> ~scan.running

\* Every request of a page comes back, also behind a scan, an abort or a
\* message.
RequestsEnd == \A c \in Clients : pc[c] # "idle" ~> pc[c] = "idle"

-----------------------------------------------------------------------------
(* What the comments say and the code does not do                          *)

\* cancel_data_entry clears up after the event: when the ESC is due no command
\* is pending (comment on cancel_data_entry in atclient.rs).
EscFindsChannelIdle == pc["sms"] = "esc" => Owners = {}

\* A cell that is not pushed because the scan lock is taken is caught up with:
\* a scan that is done lists every cell it found (try_lock in run_cell_scan).
DoneListsEveryCell == Announced = "done" => scan.lines = heard
=============================================================================
