--------------------------- MODULE RpcJobsProofs ---------------------------
(***************************************************************************)
(* Safety of RpcJobs for any number of clients and cells: its types, that  *)
(* the gates are shut exactly while their job lives, that no page reads an *)
(* old result, that an abort is announced for the scan it hit, and that    *)
(* the modem is left in data entry only if the ESC could not be written.   *)
(***************************************************************************)
EXTENDS RpcJobs, TLAPS

LEMMA ClientIsNoJob ==
  \A c \in Clients : c # "sms" /\ c # "scan" /\ c # "other"
BY ClientsAssumption DEF Jobs

LEMMA JobsAreTasks == "sms" \in Tasks /\ "scan" \in Tasks /\ "other" \in Tasks
BY DEF Tasks, Jobs

\* A task of its own kind moves: the others stay where they are.
LEMMA Moved ==
  ASSUME TypeOK, NEW t \in Tasks, NEW place, Go(t, place)
  PROVE  /\ pc'[t] = place
         /\ \A u \in Tasks : u # t => pc'[u] = pc[u]
         /\ DOMAIN pc' = Tasks
BY DEF TypeOK, PlaceTypeOK, Go

-----------------------------------------------------------------------------
(* Types                                                                   *)

LEMMA InitType == Init => TypeOK
<1> SUFFICES ASSUME Init PROVE TypeOK
  OBVIOUS
<1>1. JobTypeOK BY CellsAssumption DEF Init, JobTypeOK
<1>2. PlaceTypeOK
  BY JobsAreTasks
  DEF Init, PlaceTypeOK, Tasks, ClientPlaces, SmsPlaces, ScanPlaces
<1>3. HistTypeOK
  <2>1. heard \in 0..MaxCells BY CellsAssumption DEF Init
  <2>2. stopped \in BOOLEAN /\ escLost \in BOOLEAN /\ unsettled \subseteq Clients
    BY Zenon DEF Init
  <2>3. QED BY <2>1, <2>2 DEF HistTypeOK
<1>4. QED BY <1>1, <1>2, <1>3 DEF TypeOK

\* A cell is stored only after it has been heard.
ListedWereHeard == scan.lines <= heard

LEMMA JobType ==
  ASSUME TypeOK, ListedWereHeard, [Next]_vars
  PROVE  JobTypeOK' /\ HistTypeOK'
<1> USE CellsAssumption
    DEF TypeOK, JobTypeOK, HistTypeOK, vars, jobVars, histVars
<1>1. CASE \E t \in Tasks : Acquire(t) \/ PlainDone(t)
  BY <1>1 DEF Acquire, PlainDone
<1>2. CASE OtherSends
  BY <1>2 DEF OtherSends
<1>3. CASE SmsJob
  <2>1. CASE SmsSent BY <2>1 DEF SmsSent
  <2>2. CASE SmsFails BY <2>2 DEF SmsFails
  <2>3. CASE WriteEsc BY <2>3 DEF WriteEsc
  <2>4. CASE Settle BY <2>4 DEF Settle, Settled
  <2>5. QED BY <1>3, <2>1, <2>2, <2>3, <2>4 DEF SmsJob
<1>4. CASE CooldownEnds
  BY <1>4 DEF CooldownEnds
<1>5. CASE ScanJob
  <2>1. CASE CellFound BY <2>1 DEF CellFound, ListedWereHeard
  <2>2. CASE ScanReturns BY <2>2 DEF ScanReturns
  <2>3. CASE ResetScan BY <2>3 DEF ResetScan, ScanAfter, Cleared
  <2>4. QED BY <1>5, <2>1, <2>2, <2>3 DEF ScanJob
<1>6. ASSUME NEW c \in Clients,
             \/ Submit(c) \/ Poll(c) \/ LockScan(c) \/ Holding(c)
             \/ \E k \in Kinds : Ask(c, k)
      PROVE  JobTypeOK' /\ HistTypeOK'
  <2>1. CASE Submit(c) BY <2>1 DEF Submit, Accepted
  <2>2. CASE Poll(c) BY <2>2 DEF Poll
  <2>3. CASE LockScan(c) BY <2>3 DEF LockScan
  <2>4. CASE \E k \in Kinds : Ask(c, k) BY <2>4 DEF Ask
  <2>5. CASE Holding(c)
    <3>1. CASE TurnAway(c) BY <3>1 DEF TurnAway, Unlock
    <3>2. CASE LetThrough(c) BY <3>2 DEF LetThrough, Unlock
    <3>3. CASE StartScan(c)
      <4>1. JobTypeOK' BY <3>3 DEF StartScan, Unlock, Cleared
      <4>2. heard' \in 0..MaxCells BY <3>3 DEF StartScan
      <4>3. /\ stopped' \in BOOLEAN /\ escLost' \in BOOLEAN
            /\ unsettled' \subseteq Clients
        BY <3>3, Zenon DEF StartScan
      <4>4. QED BY <4>1, <4>2, <4>3
    <3>4. CASE CheckAbort(c) BY <3>4 DEF CheckAbort, AbortLock
    <3>5. CASE WriteAbort(c) BY <3>5 DEF WriteAbort, Unlock
    <3>6. QED BY <2>5, <3>1, <3>2, <3>3, <3>4, <3>5 DEF Holding
  <2>6. QED BY <1>6, <2>1, <2>2, <2>3, <2>4, <2>5
<1>7. CASE UNCHANGED vars
  BY <1>7
<1>8. QED
  BY <1>1, <1>2, <1>3, <1>4, <1>5, <1>6, <1>7 DEF Next

LEMMA PlaceType ==
  ASSUME TypeOK, [Next]_vars
  PROVE  PlaceTypeOK'
<1> USE ClientIsNoJob, JobsAreTasks
    DEF TypeOK, PlaceTypeOK, Go, Tasks, Jobs, ClientPlaces, SmsPlaces,
        ScanPlaces
<1>1. ASSUME NEW t \in Tasks, Acquire(t) \/ PlainDone(t)
      PROVE  PlaceTypeOK'
  <2>1. CASE Acquire(t) BY <2>1 DEF Acquire
  <2>2. CASE PlainDone(t) BY <2>2 DEF PlainDone
  <2>3. QED BY <1>1, <2>1, <2>2
<1>2. CASE OtherSends
  BY <1>2 DEF OtherSends
<1>3. CASE SmsJob
  BY <1>3 DEF SmsJob, SmsSent, SmsFails, AfterFailure, WriteEsc, Settle
<1>4. CASE CooldownEnds
  BY <1>4 DEF CooldownEnds
<1>5. CASE ScanJob
  BY <1>5 DEF ScanJob, CellFound, ScanReturns, ResetScan
<1>6. ASSUME NEW c \in Clients,
             \/ Submit(c) \/ Poll(c) \/ LockScan(c) \/ Holding(c)
             \/ \E k \in Kinds : Ask(c, k)
      PROVE  PlaceTypeOK'
  <2>1. CASE Submit(c) BY <2>1 DEF Submit
  <2>2. CASE Poll(c) BY <2>2 DEF Poll
  <2>3. CASE LockScan(c) BY <2>3 DEF LockScan
  <2>4. CASE \E k \in Kinds : Ask(c, k) BY <2>4 DEF Ask
  <2>5. CASE Holding(c)
    <3>1. CASE TurnAway(c) BY <3>1 DEF TurnAway, Unlock
    <3>2. CASE LetThrough(c) BY <3>2 DEF LetThrough, Unlock
    <3>3. CASE StartScan(c) BY <3>3 DEF StartScan, Unlock
    <3>4. CASE CheckAbort(c) BY <3>4 DEF CheckAbort
    <3>5. CASE WriteAbort(c) BY <3>5 DEF WriteAbort, Unlock
    <3>6. QED BY <2>5, <3>1, <3>2, <3>3, <3>4, <3>5 DEF Holding
  <2>6. QED BY <1>6, <2>1, <2>2, <2>3, <2>4, <2>5
<1>7. CASE UNCHANGED vars
  BY <1>7 DEF vars
<1>8. QED
  BY <1>1, <1>2, <1>3, <1>4, <1>5, <1>6, <1>7 DEF Next

\* Only a scan that is in the channel hears a cell, and it lists one more at
\* most.
LEMMA ListedStep ==
  ASSUME TypeOK, ListedWereHeard, [Next]_vars
  PROVE  ListedWereHeard'
<1> USE CellsAssumption
    DEF TypeOK, JobTypeOK, HistTypeOK, ListedWereHeard, vars, jobVars, histVars
<1>1. CASE UNCHANGED <<scan, heard>>
  BY <1>1
<1>2. CASE CellFound
  BY <1>2 DEF CellFound
<1>3. CASE ResetScan
  BY <1>3 DEF ResetScan, ScanAfter, Cleared
<1>4. ASSUME NEW c \in Clients, StartScan(c)
      PROVE  ListedWereHeard'
  BY <1>4 DEF StartScan, Cleared
<1>5. ASSUME NEW c \in Clients, WriteAbort(c)
      PROVE  ListedWereHeard'
  BY <1>5 DEF WriteAbort
<1>6. ASSUME NEW t \in Tasks, Acquire(t) \/ PlainDone(t)
      PROVE  UNCHANGED <<scan, heard>>
  BY <1>6 DEF Acquire, PlainDone
<1>7. ASSUME OtherSends \/ SmsJob \/ CooldownEnds \/ ScanReturns
      PROVE  UNCHANGED <<scan, heard>>
  BY <1>7 DEF OtherSends, SmsJob, SmsSent, SmsFails, WriteEsc, Settle,
              CooldownEnds, ScanReturns
<1>8. ASSUME NEW c \in Clients,
             \/ Submit(c) \/ Poll(c) \/ LockScan(c) \/ TurnAway(c)
             \/ LetThrough(c) \/ CheckAbort(c) \/ \E k \in Kinds : Ask(c, k)
      PROVE  UNCHANGED <<scan, heard>>
  BY <1>8 DEF Submit, Poll, LockScan, TurnAway, LetThrough, CheckAbort, Ask
<1>9. QED
  BY <1>1, <1>2, <1>3, <1>4, <1>5, <1>6, <1>7, <1>8
  DEF Next, ScanJob, Holding

\* The types hold in every reachable state (rpcserver.rs, SmsState and
\* ScanState).
THEOREM RpcTypes == Spec => []TypeOK
<1>1. Init => TypeOK /\ ListedWereHeard
  BY InitType DEF Init, ListedWereHeard
<1>2. TypeOK /\ ListedWereHeard /\ [Next]_vars => (TypeOK /\ ListedWereHeard)'
  BY JobType, PlaceType, ListedStep DEF TypeOK
<1>3. QED BY <1>1, <1>2, PTL DEF Spec

-----------------------------------------------------------------------------
(* Gates, results, aborts and data entry                                   *)

\* Who holds the scan lock, and what an abort under way knows.
LockInv ==
    /\ \A c \in Clients : pc[c] \in {"locked", "breaking"} <=> scanMu = c
    /\ \A c \in Clients : pc[c] = "breaking" => stopped
    /\ scan.aborted => stopped

\* The two gates, the results that are still owed, and the data entry.
GateInv ==
    /\ GatesMatchJobs
    /\ unsettled # {} => sms.running
    /\ modem = "data" => escLost \/ pc["sms"] = "esc"

LEMMA LockStep ==
  ASSUME TypeOK, LockInv, [Next]_vars
  PROVE  LockInv'
<1> USE ClientIsNoJob, JobsAreTasks, ClientsAssumption
    DEF TypeOK, PlaceTypeOK, JobTypeOK, Go, Tasks, Jobs, LockInv, vars, jobVars,
        histVars
<1>1. ASSUME NEW t \in Tasks, Acquire(t) \/ PlainDone(t)
      PROVE  LockInv'
  <2>1. CASE Acquire(t) BY <2>1 DEF Acquire
  <2>2. CASE PlainDone(t) BY <2>2 DEF PlainDone
  <2>3. QED BY <1>1, <2>1, <2>2
<1>2. CASE OtherSends
  BY <1>2 DEF OtherSends
<1>3. CASE SmsJob
  <2>1. CASE SmsSent BY <2>1 DEF SmsSent
  <2>2. CASE SmsFails BY <2>2 DEF SmsFails
  <2>3. CASE WriteEsc BY <2>3 DEF WriteEsc
  <2>4. CASE Settle BY <2>4 DEF Settle
  <2>5. QED BY <1>3, <2>1, <2>2, <2>3, <2>4 DEF SmsJob
<1>4. CASE CooldownEnds
  BY <1>4 DEF CooldownEnds
<1>5. CASE ScanJob
  <2>1. CASE CellFound BY <2>1 DEF CellFound
  <2>2. CASE ScanReturns BY <2>2 DEF ScanReturns
  <2>3. CASE ResetScan BY <2>3 DEF ResetScan, ScanAfter, Cleared
  <2>4. QED BY <1>5, <2>1, <2>2, <2>3 DEF ScanJob
<1>6. ASSUME NEW c \in Clients,
             \/ Submit(c) \/ Poll(c) \/ LockScan(c) \/ Holding(c)
             \/ \E k \in Kinds : Ask(c, k)
      PROVE  LockInv'
  <2>1. CASE Submit(c) BY <2>1 DEF Submit
  <2>2. CASE Poll(c) BY <2>2 DEF Poll
  <2>3. CASE LockScan(c) BY <2>3 DEF LockScan
  <2>4. CASE \E k \in Kinds : Ask(c, k) BY <2>4 DEF Ask
  <2>5. CASE Holding(c)
    <3>1. CASE TurnAway(c) BY <3>1 DEF TurnAway, Unlock
    <3>2. CASE LetThrough(c) BY <3>2 DEF LetThrough, Unlock
    <3>3. CASE StartScan(c) BY <3>3 DEF StartScan, Unlock, Cleared
    <3>4. CASE CheckAbort(c) BY <3>4 DEF CheckAbort, AbortLock
    <3>5. CASE WriteAbort(c) BY <3>5 DEF WriteAbort, Unlock
    <3>6. QED BY <2>5, <3>1, <3>2, <3>3, <3>4, <3>5 DEF Holding
  <2>6. QED BY <1>6, <2>1, <2>2, <2>3, <2>4, <2>5
<1>7. CASE UNCHANGED vars
  BY <1>7
<1>8. QED
  BY <1>1, <1>2, <1>3, <1>4, <1>5, <1>6, <1>7 DEF Next

LEMMA GateStep ==
  ASSUME TypeOK, GateInv, [Next]_vars
  PROVE  GateInv'
<1> USE ClientIsNoJob, JobsAreTasks
    DEF TypeOK, PlaceTypeOK, JobTypeOK, Go, Tasks, Jobs, GateInv,
        GatesMatchJobs, vars, jobVars, histVars
<1>1. ASSUME NEW t \in Tasks, Acquire(t) \/ PlainDone(t)
      PROVE  GateInv'
  <2>1. CASE Acquire(t) BY <2>1 DEF Acquire
  <2>2. CASE PlainDone(t) BY <2>2 DEF PlainDone
  <2>3. QED BY <1>1, <2>1, <2>2
<1>2. CASE OtherSends
  BY <1>2 DEF OtherSends
<1>3. CASE SmsJob
  <2>1. CASE SmsSent BY <2>1 DEF SmsSent
  <2>2. CASE SmsFails BY <2>2 DEF SmsFails, AfterFailure
  <2>3. CASE WriteEsc BY <2>3 DEF WriteEsc
  <2>4. CASE Settle BY <2>4 DEF Settle, Settled
  <2>5. QED BY <1>3, <2>1, <2>2, <2>3, <2>4 DEF SmsJob
<1>4. CASE CooldownEnds
  BY <1>4 DEF CooldownEnds
<1>5. CASE ScanJob
  <2>1. CASE CellFound BY <2>1 DEF CellFound
  <2>2. CASE ScanReturns BY <2>2 DEF ScanReturns
  <2>3. CASE ResetScan BY <2>3 DEF ResetScan, ScanAfter, Cleared
  <2>4. QED BY <1>5, <2>1, <2>2, <2>3 DEF ScanJob
<1>6. ASSUME NEW c \in Clients,
             \/ Submit(c) \/ Poll(c) \/ LockScan(c) \/ Holding(c)
             \/ \E k \in Kinds : Ask(c, k)
      PROVE  GateInv'
  <2>1. CASE Submit(c) BY <2>1 DEF Submit, Accepted
  <2>2. CASE Poll(c) BY <2>2 DEF Poll
  <2>3. CASE LockScan(c) BY <2>3 DEF LockScan
  <2>4. CASE \E k \in Kinds : Ask(c, k) BY <2>4 DEF Ask
  <2>5. CASE Holding(c)
    <3>1. CASE TurnAway(c) BY <3>1 DEF TurnAway
    <3>2. CASE LetThrough(c) BY <3>2 DEF LetThrough
    <3>3. CASE StartScan(c) BY <3>3 DEF StartScan, Cleared
    <3>4. CASE CheckAbort(c) BY <3>4 DEF CheckAbort
    <3>5. CASE WriteAbort(c) BY <3>5 DEF WriteAbort
    <3>6. QED BY <2>5, <3>1, <3>2, <3>3, <3>4, <3>5 DEF Holding
  <2>6. QED BY <1>6, <2>1, <2>2, <2>3, <2>4, <2>5
<1>7. CASE UNCHANGED vars
  BY <1>7
<1>8. QED
  BY <1>1, <1>2, <1>3, <1>4, <1>5, <1>6, <1>7 DEF Next

\* The inductive invariant of the jobs.
THEOREM JobsInvariant == Spec => [](LockInv /\ GateInv)
<1>1. Init => LockInv /\ GateInv
  BY ClientsAssumption, JobsAreTasks
  DEF Init, LockInv, GateInv, GatesMatchJobs, Tasks, Jobs
<1>2. TypeOK /\ (LockInv /\ GateInv) /\ [Next]_vars => (LockInv /\ GateInv)'
  BY LockStep, GateStep
<1>3. QED BY <1>1, <1>2, RpcTypes, PTL DEF Spec

\* running is up exactly while its job lives, so that no command is turned
\* away for a job that is gone (run_command, run_cell_scan).
THEOREM GatesFollowJobs == Spec => []GatesMatchJobs
<1>1. LockInv /\ GateInv => GatesMatchJobs
  BY DEF GateInv
<1>2. QED BY <1>1, JobsInvariant, PTL

\* A page that finds no job running reads its own message's result or a later
\* one's (handle_sms_job_command).
THEOREM ResultsAreFresh == Spec => []VerdictNotStale
<1>1. LockInv /\ GateInv => VerdictNotStale
  BY DEF GateInv, VerdictNotStale
<1>2. QED BY <1>1, JobsInvariant, PTL

\* A scan announced as aborted was interrupted by a client, and not the scan
\* before it (abort_cell_scan).
THEOREM AbortsHitTheirScan == Spec => []AbortIsOfThisScan
<1>1. LockInv /\ GateInv => AbortIsOfThisScan
  BY DEF LockInv, AbortIsOfThisScan, Announced
<1>2. QED BY <1>1, JobsInvariant, PTL

\* When no message is under way the modem is not in data entry, unless the
\* ESC could not be written (cancel_data_entry).
THEOREM DataEntryEnds == Spec => []DataEntryCleared
<1>1. LockInv /\ GateInv => DataEntryCleared
  BY DEF GateInv, GatesMatchJobs, DataEntryCleared
<1>2. QED BY <1>1, JobsInvariant, PTL
=============================================================================
