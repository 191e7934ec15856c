-------------------------- MODULE SchedulerProofs --------------------------
(***************************************************************************)
(* Safety of Scheduler for every set of locks and configurations, every    *)
(* limit and cooldown, and every number of disturbances: its types, that   *)
(* no lock is sent during the cooldown, that a run of failures is          *)
(* announced once, and that "applied" is the truth about the modem.        *)
(***************************************************************************)
EXTENDS Scheduler, TLAPS

LEMMA LongestBound ==
  ASSUME NEW a \in Nat, NEW b \in Nat
  PROVE  Longest(a, b) \in Nat /\ a <= Longest(a, b) /\ b <= Longest(a, b)
BY DEF Longest

\* What a configuration holds.
LEMMA ConfigFields ==
  ASSUME NEW c \in Configs
  PROVE  /\ c.enabled \in BOOLEAN /\ c.airplane \in BOOLEAN
         /\ c.unlockLte \in BOOLEAN /\ c.unlockNr \in BOOLEAN
         /\ c.on \in [Periods -> BOOLEAN]
         /\ c.lock \in [Periods -> LockPair]
BY ConfigAssumption DEF Config

\* The lock of a period, or of none, is a pair of locks.
LEMMA LockForPair ==
  ASSUME StateTypeOK, NEW m \in Periods \cup {NoMode}
  PROVE  LockFor(m) \in LockPair
<1>1. cfg.lock \in [Periods -> LockPair]
  BY ConfigFields DEF StateTypeOK
<1>2. Unlock \in LockPair
  BY DEF Unlock, LockPair, LockValue
<1>3. QED BY <1>1, <1>2 DEF LockFor, NoMode

\* A command carries a lock the modem can have.
LEMMA CommandValue ==
  ASSUME NEW lock \in LockValue, NEW unlock \in BOOLEAN,
         NEW c \in Command(lock, unlock)
  PROVE  c \in Locks \cup {"free"} /\ InForce(lock, c)
BY LocksAssumption DEF Command, LockValue, InForce

-----------------------------------------------------------------------------
(* Types                                                                   *)

LEMMA InitType == Init => TypeOK
<1> SUFFICES ASSUME Init PROVE TypeOK
  OBVIOUS
<1>1. StateTypeOK BY DEF Init, StateTypeOK
<1>2. TimeTypeOK
  BY LimitAssumption, AllowedAssumption, LongestBound DEF Init, TimeTypeOK
<1>3. JobTypeOK
  BY DEF Init, JobTypeOK, NoJob, Unlock, LockPair, LockValue
<1>4. WorldTypeOK BY DEF Init, WorldTypeOK
<1>5. QED BY <1>1, <1>2, <1>3, <1>4 DEF TypeOK

LEMMA StateType ==
  ASSUME TypeOK, [Next]_vars
  PROVE  StateTypeOK'
<1> USE DEF TypeOK, StateTypeOK, vars, schedVars, worldVars, applyUnchanged
<1>1. CASE Decide
  BY <1>1 DEF Decide, JobTypeOK
<1>2. CASE Finish
  BY <1>2 DEF Finish, JobTypeOK, AfterRecovery, JobOk
<1>3. CASE Restart
  BY <1>3 DEF Restart
<1>4. CASE SetConfig
  BY <1>4 DEF SetConfig
<1>5. CASE Sleep \/ Check \/ Target \/ Want \/ HasService \/ Judge
  BY <1>5 DEF Sleep, Check, Target, Want, HasService, Judge
<1>6. CASE Begin \/ RadioOff \/ SendLte \/ SendNr \/ RadioOn
  BY <1>6 DEF Begin, RadioOff, SendLte, SendNr, RadioOn
<1>7. CASE \/ PeriodEnds \/ Disconnect \/ Reconnect \/ ScanStarts
           \/ ScanFades \/ CoverageLost \/ CoverageBack
  BY <1>7 DEF PeriodEnds, Disconnect, Reconnect, ScanStarts, ScanFades,
              CoverageLost, CoverageBack
<1>8. CASE UNCHANGED vars
  BY <1>8
<1>9. QED
  BY <1>1, <1>2, <1>3, <1>4, <1>5, <1>6, <1>7, <1>8 DEF Next, Task, World

\* A command that fails spends a fault, or nothing.
LEMMA CommandedLeft ==
  ASSUME TypeOK, NEW new, NEW good \in BOOLEAN, Commanded(new, good)
  PROVE  left' \in [Disturbances -> Nat]
<1>1. left \in [Disturbances -> Nat] /\ "fault" \in Disturbances
  BY DEF TypeOK, TimeTypeOK, Disturbances
<1>2. \/ left' = left
      \/ left.fault > 0 /\ left' = [left EXCEPT !.fault = @ - 1]
  BY DEF Commanded
<1>3. QED BY <1>1, <1>2

LEMMA TimeType ==
  ASSUME TypeOK, [Next]_vars
  PROVE  TimeTypeOK'
<1> USE DEF TypeOK, TimeTypeOK, vars, schedVars, worldVars, applyUnchanged
<1>0. Longest(Cooldown, Limit) \in Nat /\ Limit <= Longest(Cooldown, Limit)
  BY LimitAssumption, LongestBound
<1>1. CASE Sleep
  <2>1. down' \in 0..Limit /\ at' = "check"
    BY <1>1, LimitAssumption DEF Sleep
  <2>2. cool' \in 0..Longest(Cooldown, Limit)
    BY <1>0, <1>1 DEF Sleep
  <2>3. QED BY <1>1, <2>1, <2>2 DEF Sleep
<1>2. CASE Check
  BY <1>2, LimitAssumption DEF Check
<1>3. CASE Target \/ Want \/ Decide \/ Begin
  <2>1. at' # "sleep" /\ UNCHANGED <<down, cool, left, failNotices>>
    BY <1>3 DEF Target, Want, Decide, Begin
  <2>2. QED BY <2>1
<1>4. CASE RadioOff \/ SendLte \/ SendNr \/ RadioOn
  <2>1. left' \in [Disturbances -> Nat]
    BY <1>4, CommandedLeft DEF RadioOff, SendLte, SendNr, RadioOn
  <2>2. at' # "sleep" /\ UNCHANGED <<down, cool, failNotices>>
    BY <1>4 DEF RadioOff, SendLte, SendNr, RadioOn
  <2>3. QED BY <2>1, <2>2
<1>5. CASE Finish
  <2>1. failNotices' \in Nat
    BY <1>5 DEF Finish
  <2>2. down' \in 0..Limit /\ (at' = "sleep" => down' < Limit)
    BY <1>5, LimitAssumption DEF Finish
  <2>3. cool' \in 0..Longest(Cooldown, Limit)
    BY <1>0, <1>5 DEF Finish
  <2>4. QED BY <1>5, <2>1, <2>2, <2>3 DEF Finish
<1>6. CASE HasService
  <2>1. left' \in [Disturbances -> Nat]
    BY <1>6 DEF HasService, Disturbances
  <2>2. QED BY <1>6, <2>1, LimitAssumption DEF HasService
<1>7. CASE Judge
  BY <1>7, LimitAssumption DEF Judge, TooLong
<1>8. CASE World
  <2>1. left' \in [Disturbances -> Nat]
    BY <1>8 DEF World, SetConfig, PeriodEnds, Disconnect, Reconnect,
                ScanStarts, ScanFades, CoverageLost, CoverageBack, Restart,
                Spend, Disturbances
  <2>2. down' \in 0..Limit /\ (at' = "sleep" => down' < Limit)
    BY <1>8, LimitAssumption
    DEF World, SetConfig, PeriodEnds, Disconnect, Reconnect, ScanStarts,
        ScanFades, CoverageLost, CoverageBack, Restart
  <2>3. cool' \in 0..Longest(Cooldown, Limit)
    BY <1>0, <1>8
    DEF World, SetConfig, PeriodEnds, Disconnect, Reconnect, ScanStarts,
        ScanFades, CoverageLost, CoverageBack, Restart
  <2>4. failNotices' \in Nat
    BY <1>8
    DEF World, SetConfig, PeriodEnds, Disconnect, Reconnect, ScanStarts,
        ScanFades, CoverageLost, CoverageBack, Restart
  <2>5. QED BY <2>1, <2>2, <2>3, <2>4
<1>9. CASE UNCHANGED vars
  BY <1>9
<1>10. QED
  BY <1>1, <1>2, <1>3, <1>4, <1>5, <1>6, <1>7, <1>8, <1>9 DEF Next, Task

LEMMA JobType ==
  ASSUME TypeOK, [Next]_vars
  PROVE  JobTypeOK'
<1> USE DEF TypeOK, JobTypeOK, vars, schedVars, worldVars, applyUnchanged
<1>1. CASE Sleep \/ Check \/ HasService
  BY <1>1 DEF Sleep, Check, HasService
<1>2. CASE Target
  BY <1>2 DEF Target, TargetMode, NoJob, Unlock, LockPair, LockValue, WorldTypeOK
<1>3. CASE Want
  BY <1>3, LockForPair DEF Want
<1>4. CASE Decide
  BY <1>4 DEF Decide
<1>5. CASE Begin
  BY <1>5, ConfigFields DEF Begin, Applying, StateTypeOK
<1>6. CASE RadioOff \/ SendLte \/ SendNr \/ RadioOn
  BY <1>6 DEF RadioOff, SendLte, SendNr, RadioOn, AllGood, Applying
<1>7. CASE Finish
  BY <1>7 DEF Finish
<1>8. CASE Judge
  <2>1. Unlock \in LockPair
    BY DEF Unlock, LockPair, LockValue
  <2>2. job' \in {job, [job EXCEPT !.kind = "recover", !.pair = Unlock]}
    BY <1>8 DEF Judge
  <2>3. QED BY <1>8, <2>1, <2>2 DEF Judge
<1>9. CASE Restart
  BY <1>9 DEF Restart, NoJob, Unlock, LockPair, LockValue
<1>10. CASE \/ SetConfig \/ PeriodEnds \/ Disconnect \/ Reconnect
            \/ ScanStarts \/ ScanFades \/ CoverageLost \/ CoverageBack
  BY <1>10 DEF SetConfig, PeriodEnds, Disconnect, Reconnect, ScanStarts,
               ScanFades, CoverageLost, CoverageBack
<1>11. CASE UNCHANGED vars
  BY <1>11
<1>12. QED
  BY <1>1, <1>2, <1>3, <1>4, <1>5, <1>6, <1>7, <1>8, <1>9, <1>10, <1>11
  DEF Next, Task, World

LEMMA WorldType ==
  ASSUME TypeOK, [Next]_vars
  PROVE  WorldTypeOK'
<1> USE DEF TypeOK, WorldTypeOK, vars, schedVars, worldVars, applyUnchanged
<1>1. CASE RadioOff \/ RadioOn
  BY <1>1 DEF RadioOff, RadioOn, Commanded
<1>2. CASE SendLte \/ SendNr
  <2>1. /\ job.pair.lte \in LockValue /\ job.pair.nr \in LockValue
        /\ cfg.unlockLte \in BOOLEAN /\ cfg.unlockNr \in BOOLEAN
    BY ConfigFields DEF JobTypeOK, StateTypeOK, LockPair
  <2>2. /\ Command(job.pair.lte, cfg.unlockLte) \subseteq Locks \cup {"free"}
        /\ Command(job.pair.nr, cfg.unlockNr) \subseteq Locks \cup {"free"}
    BY <2>1, CommandValue
  <2>3. CASE SendLte
    BY <2>2, <2>3 DEF SendLte, Commanded
  <2>4. CASE SendNr
    BY <2>2, <2>4 DEF SendNr, Commanded
  <2>5. QED BY <1>2, <2>3, <2>4
<1>3. CASE Sleep \/ Check \/ Target \/ Want \/ Decide \/ Begin \/ Finish
  BY <1>3 DEF Sleep, Check, Target, Want, Decide, Begin, Finish
<1>4. CASE HasService \/ Judge
  BY <1>4 DEF HasService, Judge
<1>5. CASE World
  BY <1>5 DEF World, SetConfig, PeriodEnds, Disconnect, Reconnect, ScanStarts,
              ScanFades, CoverageLost, CoverageBack, Restart
<1>6. CASE UNCHANGED vars
  BY <1>6
<1>7. QED
  BY <1>1, <1>2, <1>3, <1>4, <1>5, <1>6 DEF Next, Task

LEMMA NextType == TypeOK /\ [Next]_vars => TypeOK'
BY StateType, TimeType, JobType, WorldType DEF TypeOK

\* Type correctness: whatever fails or changes in between, every variable keeps
\* its type and the timers stay within their limits (SchedState).
THEOREM SchedulerTypes == Spec => []TypeOK
BY InitType, NextType, PTL DEF Spec

-----------------------------------------------------------------------------
(* The cooldown                                                            *)

\* The user's locks wait for the end of the cooldown, in every behaviour: a
\* recovery sets it in the step that ends the attempt, and set_config, which
\* may come at any time, only calls it off (tick, set_config).
THEOREM LocksWait == Spec => []LockWaitsForCooldown
<1> USE DEF LockWaitsForCooldown, Applying
<1>1. Init => LockWaitsForCooldown
  BY DEF Init
<1>2. TypeOK /\ LockWaitsForCooldown /\ [Next]_vars => LockWaitsForCooldown'
  <2> SUFFICES ASSUME TypeOK, LockWaitsForCooldown, [Next]_vars
               PROVE  LockWaitsForCooldown'
    OBVIOUS
  <2> USE DEF vars, schedVars, worldVars, applyUnchanged
  <2>1. CASE Decide
    <3>1. at' = "begin" => cool = 0
      BY <2>1 DEF Decide, CoolingDown, TypeOK, TimeTypeOK
    <3>2. cool' = cool /\ at' \in {"begin", "service"}
      BY <2>1 DEF Decide
    <3>3. QED BY <3>1, <3>2
  <2>2. CASE Begin \/ RadioOff \/ SendLte \/ SendNr \/ RadioOn
    <3>1. /\ cool' = cool /\ job'.kind = job.kind
          /\ at \in {"begin", "off", "lte", "nr", "on"}
      BY <2>2 DEF Begin, RadioOff, SendLte, SendNr, RadioOn, TypeOK, JobTypeOK
    <3>2. QED BY <3>1
  <2>3. CASE Judge
    BY <2>3 DEF Judge, TypeOK, JobTypeOK
  <2>4. CASE Sleep \/ Check \/ Target \/ Want \/ Finish \/ HasService
    BY <2>4 DEF Sleep, Check, Target, Want, Finish, HasService
  <2>5. CASE World
    BY <2>5 DEF World, SetConfig, PeriodEnds, Disconnect, Reconnect,
                ScanStarts, ScanFades, CoverageLost, CoverageBack, Restart
  <2>6. CASE UNCHANGED vars
    BY <2>6
  <2>7. QED BY <2>1, <2>2, <2>3, <2>4, <2>5, <2>6 DEF Next, Task
<1>3. QED BY <1>1, <1>2, SchedulerTypes, PTL DEF Spec

-----------------------------------------------------------------------------
(* Notices                                                                 *)

\* A failure notice is out only while the last attempt counts as failed.
NoticeInv == failNotices = 0 \/ (failNotices = 1 /\ applyFailed)

\* A run of failing attempts is announced once, however long it is and whatever
\* is reconfigured in between (apply_failed).
THEOREM FailureAnnouncedOnce == Spec => []OneFailureNotice
<1>1. Init => NoticeInv
  BY DEF Init, NoticeInv
<1>2. NoticeInv /\ [Next]_vars => NoticeInv'
  <2> SUFFICES ASSUME NoticeInv, [Next]_vars
               PROVE  NoticeInv'
    OBVIOUS
  <2> USE DEF NoticeInv, vars, schedVars, worldVars, applyUnchanged
  <2>1. CASE Finish
    <3>1. CASE JobOk
      BY <2>1, <3>1 DEF Finish, Notify
    <3>2. CASE ~JobOk /\ applyFailed
      BY <2>1, <3>2 DEF Finish, Notify
    <3>3. CASE ~JobOk /\ ~applyFailed
      <4>1. failNotices = 0
        BY <3>3
      <4>2. Notify(JobOk)
        BY <3>3 DEF Notify
      <4>3. failNotices' = failNotices + 1
        BY <2>1, <3>3, <4>2 DEF Finish
      <4>4. applyFailed'
        BY <2>1, <3>3 DEF Finish
      <4>5. QED BY <4>1, <4>3, <4>4
    <3>4. QED BY <3>1, <3>2, <3>3
  <2>2. CASE \/ Sleep \/ Check \/ Target \/ Want \/ Decide
              \/ Begin \/ RadioOff \/ SendLte \/ SendNr \/ RadioOn
              \/ HasService \/ Judge
    <3>1. failNotices' = failNotices /\ applyFailed' = applyFailed
      BY <2>2 DEF Sleep, Check, Target, Want, Decide, Begin, RadioOff,
                  SendLte, SendNr, RadioOn, HasService, Judge
    <3>2. QED BY <3>1
  <2>3. CASE World
    BY <2>3 DEF World, SetConfig, PeriodEnds, Disconnect, Reconnect,
                ScanStarts, ScanFades, CoverageLost, CoverageBack, Restart
  <2>4. CASE UNCHANGED vars
    BY <2>4
  <2>5. QED BY <2>1, <2>2, <2>3, <2>4 DEF Next, Task
<1>3. NoticeInv => OneFailureNotice
  BY DEF NoticeInv, OneFailureNotice
<1>4. QED BY <1>1, <1>2, <1>3, PTL DEF Spec

-----------------------------------------------------------------------------
(* What "applied" promises                                                 *)

PairInForce(pair) == InForce(pair.lte, modem.lte) /\ InForce(pair.nr, modem.nr)

\* While no attempt is under way, an applied lock is in the modem.
BetweenAttempts ==
    at \notin Applying /\ applied /\ ~applyFailed /\ last # NeverSent
        => PairInForce(last)

\* An attempt that has not failed has put the locks passed so far in the modem.
SentSoFar ==
    job.ok => /\ at \in {"nr", "on", "finish"} => InForce(job.pair.lte, modem.lte)
              /\ at \in {"on", "finish"} => InForce(job.pair.nr, modem.nr)

\* A period without a lock asks for the unlock.
UnlockWanted == at = "decide" /\ job.mode = NoMode => job.pair = Unlock

AppliedInv == BetweenAttempts /\ SentSoFar /\ UnlockWanted

LEMMA NothingToForce ==
  ASSUME NEW value
  PROVE  InForce("free", value) /\ InForce("bad", value) /\ InForce("odd", value)
BY LocksAssumption DEF InForce

LEMMA AppliedStep ==
  ASSUME TypeOK, AppliedInv, [Next]_vars
  PROVE  AppliedInv'
<1> USE DEF AppliedInv, BetweenAttempts, SentSoFar, UnlockWanted, PairInForce,
            Applying, vars, schedVars, worldVars, applyUnchanged
<1>1. CASE Sleep \/ Check \/ Target \/ HasService
  BY <1>1 DEF Sleep, Check, Target, HasService
<1>2. CASE Want
  <2>1. job'.mode = NoMode => job'.pair = Unlock
    BY <1>2 DEF Want, LockFor, TypeOK, JobTypeOK
  <2>2. QED BY <1>2, <2>1 DEF Want
<1>3. CASE Decide
  <2>1. BetweenAttempts'
    <3>1. CASE job.mode = NoMode
      <4>1. last' \in {last, Unlock}
        BY <1>3, <3>1 DEF Decide
      <4>2. PairInForce(Unlock)
        BY NothingToForce DEF Unlock
      <4>3. last' = Unlock \/ (last' = last /\ applied' = applied)
        BY <1>3, <3>1 DEF Decide
      <4>4. CASE last' = Unlock
        BY <1>3, <4>2, <4>4 DEF Decide
      <4>5. CASE last' = last /\ applied' = applied
        BY <1>3, <4>5 DEF Decide
      <4>6. QED BY <4>3, <4>4, <4>5
    <3>2. CASE job.mode # NoMode
      BY <1>3, <3>2 DEF Decide
    <3>3. QED BY <3>1, <3>2
  <2>2. QED BY <1>3, <2>1 DEF Decide
<1>4. CASE Begin \/ RadioOff
  <2>1. /\ at' \in {"off", "lte"}
    BY <1>4 DEF Begin, RadioOff
  <2>2. QED BY <2>1
<1>5. CASE SendLte
  <2>1. at' = "nr" /\ job'.pair = job.pair
    BY <1>5 DEF SendLte, TypeOK, JobTypeOK
  <2>2. job'.ok => InForce(job.pair.lte, modem'.lte)
    <3> SUFFICES ASSUME job'.ok, job.pair.lte \in Locks
                 PROVE  modem'.lte = job.pair.lte
      BY DEF InForce
    <3>1. Command(job.pair.lte, cfg.unlockLte) = {job.pair.lte}
      BY LocksAssumption DEF Command
    <3>2. modem' = [modem EXCEPT !.lte = job.pair.lte]
      BY <1>5, <3>1 DEF SendLte, Commanded, AllGood, TypeOK, JobTypeOK
    <3>3. QED BY <3>2 DEF TypeOK, WorldTypeOK
  <2>3. QED BY <2>1, <2>2
<1>6. CASE SendNr
  <2>1. at = "nr" /\ at' = "on" /\ job'.pair = job.pair /\ (job'.ok => job.ok)
    BY <1>6 DEF SendNr, AllGood, TypeOK, JobTypeOK
  <2>2. modem'.lte = modem.lte
    BY <1>6 DEF SendNr, Commanded, TypeOK, WorldTypeOK
  <2>3. job'.ok => InForce(job.pair.nr, modem'.nr)
    <3> SUFFICES ASSUME job'.ok, job.pair.nr \in Locks
                 PROVE  modem'.nr = job.pair.nr
      BY DEF InForce
    <3>1. Command(job.pair.nr, cfg.unlockNr) = {job.pair.nr}
      BY LocksAssumption DEF Command
    <3>2. modem' = [modem EXCEPT !.nr = job.pair.nr]
      BY <1>6, <3>1 DEF SendNr, Commanded, AllGood, TypeOK, JobTypeOK
    <3>3. QED BY <3>2 DEF TypeOK, WorldTypeOK
  <2>4. QED BY <2>1, <2>2, <2>3 DEF InForce
<1>7. CASE RadioOn
  <2>1. /\ at = "on" /\ at' = "finish"
        /\ job'.pair = job.pair /\ (job'.ok => job.ok)
    BY <1>7 DEF RadioOn, AllGood, TypeOK, JobTypeOK
  <2>2. modem'.lte = modem.lte /\ modem'.nr = modem.nr
    BY <1>7 DEF RadioOn, Commanded, TypeOK, WorldTypeOK
  <2>3. QED BY <2>1, <2>2 DEF InForce
<1>8. CASE Finish
  <2>1. at = "finish" /\ at' \in {"sleep", "service"} /\ modem' = modem
    BY <1>8 DEF Finish
  <2>2. applied' /\ ~applyFailed' => last' = job.pair /\ job.ok
    BY <1>8 DEF Finish, JobOk, AfterRecovery
  <2>3. QED BY <2>1, <2>2
<1>9. CASE Judge
  BY <1>9 DEF Judge
<1>10. CASE World
  BY <1>10 DEF World, SetConfig, PeriodEnds, Disconnect, Reconnect, ScanStarts,
               ScanFades, CoverageLost, CoverageBack, Restart
<1>11. CASE UNCHANGED vars
  BY <1>11
<1>12. QED
  BY <1>1, <1>2, <1>3, <1>4, <1>5, <1>6, <1>7, <1>8, <1>9, <1>10, <1>11
  DEF Next, Task

\* What status() reports is the truth: an applied lock whose last attempt did
\* not fail is the lock in the modem, through failures, recoveries, restarts
\* and configurations that change half-way (tick, apply_lock).
THEOREM AppliedIsTrue == Spec => []AppliedLocksInForce
<1>1. Init => AppliedInv
  BY DEF Init, AppliedInv, BetweenAttempts, SentSoFar, UnlockWanted, Applying
<1>2. TypeOK /\ AppliedInv /\ [Next]_vars => AppliedInv'
  BY AppliedStep
<1>3. AppliedInv => AppliedLocksInForce
  BY DEF AppliedInv, BetweenAttempts, PairInForce, AppliedLocksInForce, Applying
<1>4. QED BY <1>1, <1>2, <1>3, SchedulerTypes, PTL DEF Spec
=============================================================================
