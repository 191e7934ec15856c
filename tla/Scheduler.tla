----------------------------- MODULE Scheduler -----------------------------
(***************************************************************************)
(* The scheduled band lock (rust/src/schedule.rs): a loop that wakes once  *)
(* per check interval, sends the lock of the current period when it is not *)
(* the one it believes to be in force, and unlocks the modem when it has   *)
(* had no service for too long.                                            *)
(*                                                                         *)
(* Each value of "at" is a place where the task can be suspended, so that  *)
(* set_config, the links and the modem may move in between. Time is        *)
(* counted in check intervals and passes only while the loop sleeps; the   *)
(* two timers are kept as ages, so that behaviours need no end.            *)
(* switch_count and the logging of announce are left out: nothing reads    *)
(* them but the status page.                                               *)
(***************************************************************************)
EXTENDS Naturals, FiniteSets

CONSTANTS
    Locks,          \* locks a command can be generated for
    Configs,        \* configurations the service may be given
    Limit,          \* no_service_limit, in check intervals
    Cooldown,       \* LOCK_RETRY_COOLDOWN, in check intervals
    Allowed         \* bounds: how often each disturbance may happen, one of them
                    \* for a behaviour

Periods == {"night", "day"}
NoMode  == "none"               \* current_mode is the empty string

\* What may disturb the scheduler: a command that fails, a period that ends, a
\* new configuration, a broken link, a cell scan, a loss of coverage, a restart.
Disturbances == {"fault", "flip", "change", "outage", "scan", "cell", "restart"}

\* A band lock: type <= 0 is "free"; a type > 0 without bands is "bad", no
\* command can be generated for it; one whose lists do not match is "odd", and
\* an unlock is sent for it.
LockValue == Locks \cup {"free", "bad", "odd"}
LockPair  == [lte : LockValue, nr : LockValue]
Unlock    == [lte |-> "free", nr |-> "free"]            \* unlock_config
NeverSent == [lte |-> "never", nr |-> "never"]          \* type_ -1 of new()

Config == [enabled : BOOLEAN, airplane : BOOLEAN, unlockLte : BOOLEAN,
           unlockNr : BOOLEAN, on : [Periods -> BOOLEAN],
           lock : [Periods -> LockPair]]

ASSUME LocksAssumption == Locks \cap {"free", "bad", "odd", "never"} = {}
ASSUME LimitAssumption == Limit \in Nat \ {0} /\ Cooldown \in Nat
ASSUME ConfigAssumption == Configs \subseteq Config
ASSUME AllowedAssumption == Allowed \subseteq [Disturbances -> Nat]

VARIABLES
    cfg,            \* SchedState.cfg
    mode,           \* current_mode
    applied,        \* applied
    last,           \* last_applied
    applyFailed,    \* apply_failed
    down,           \* time since last_service_at
    cool,           \* time until retry_after, 0: none or over
    at,             \* where the task is
    job             \* locals of tick and apply_lock

VARIABLES           \* the world
    period,         \* what is_night says of the present time
    connected,      \* AtClient::connected
    scan,           \* long command: "none", "active", or "recent" (grace)
    served,         \* the modem has coverage with its present locks
    modem,          \* external: the locks in force and whether the radio is on
    left            \* what is left of the bound

VARIABLES           \* history
    failNotices,    \* failure notices since the last notice of a success
    fresh           \* cfg has not been looked at by a tick yet

schedVars == <<cfg, mode, applied, last, applyFailed, down, cool, at, job>>
worldVars == <<period, connected, scan, served, modem, left>>
vars == <<schedVars, worldVars, failNotices, fresh>>

Longest(a, b) == IF a >= b THEN a ELSE b

\* kind: "apply" sends the lock of a period, "unlock" that of a period without
\* one, "recover" follows a loss of service.
NoJob == [kind |-> "apply", mode |-> NoMode, pair |-> Unlock,
          airplane |-> FALSE, ok |-> TRUE, sent |-> FALSE]

Init ==
    /\ cfg \in Configs
    /\ mode = NoMode /\ applied = FALSE /\ last = NeverSent
    /\ applyFailed = FALSE
    /\ down = 0 /\ cool = 0
    /\ at = "sleep" /\ job = NoJob
    /\ period \in Periods
    /\ connected = TRUE /\ scan = "none" /\ served = TRUE
    /\ modem = [lte |-> "free", nr |-> "free", radio |-> TRUE]
    /\ left \in Allowed
    /\ failNotices = 0 /\ fresh = TRUE

-----------------------------------------------------------------------------
(* run                                                                     *)

\* One check interval goes by.
Sleep ==
    /\ at = "sleep"
    /\ at' = "check"
    /\ down' = down + 1
    /\ cool' = IF cool > 0 THEN cool - 1 ELSE 0
    /\ UNCHANGED <<cfg, mode, applied, last, applyFailed, job, worldVars,
                   failNotices, fresh>>

\* A round is skipped, and the no-service timer starts over, while the schedule
\* is off, the link is down or a cell scan is running.
SkipRound == ~cfg.enabled \/ ~connected \/ scan = "active"

Check ==
    /\ at = "check"
    /\ IF SkipRound
       THEN at' = "sleep" /\ down' = 0
       ELSE at' = "target" /\ UNCHANGED down
    /\ UNCHANGED <<cfg, mode, applied, last, applyFailed, cool, job, worldVars,
                   failNotices, fresh>>

-----------------------------------------------------------------------------
(* tick                                                                    *)

\* target_mode reads the configuration, lock_for reads it again.
TargetMode == IF cfg.on[period] THEN period ELSE NoMode
LockFor(m) == IF m = NoMode THEN Unlock ELSE cfg.lock[m]

Target ==
    /\ at = "target"
    /\ at' = "want"
    /\ job' = [NoJob EXCEPT !.mode = TargetMode]
    /\ UNCHANGED <<cfg, mode, applied, last, applyFailed, down, cool, worldVars,
                   failNotices, fresh>>

Want ==
    /\ at = "want"
    /\ at' = "decide"
    /\ job' = [job EXCEPT !.pair = LockFor(job.mode)]
    /\ fresh' = FALSE
    /\ UNCHANGED <<cfg, mode, applied, last, applyFailed, down, cool, worldVars,
                   failNotices>>

\* Mutant: the cooldown is not consulted.
NeverCooling == FALSE

CoolingDown == cool > 0

Differs == job.mode # mode \/ ~applied \/ job.pair # last

\* The lock of the period is sent if it is not the one believed in force and no
\* cooldown holds it back; a period without a lock unlocks what was applied.
Decide ==
    /\ at = "decide"
    /\ LET send == ~CoolingDown /\ Differs IN
       \/ /\ send /\ job.mode # NoMode
          /\ at' = "begin"
          /\ UNCHANGED <<job, mode, applied, last>>
       \/ /\ send /\ job.mode = NoMode /\ applied
          /\ at' = "begin"
          /\ job' = [job EXCEPT !.kind = "unlock"]
          /\ UNCHANGED <<mode, applied, last>>
       \/ /\ send /\ job.mode = NoMode /\ ~applied
          /\ at' = "service"
          /\ mode' = job.mode /\ last' = job.pair /\ applied' = TRUE
          /\ UNCHANGED job
       \/ /\ ~send
          /\ at' = "service"
          /\ UNCHANGED <<job, mode, applied, last>>
    /\ UNCHANGED <<cfg, applyFailed, down, cool, worldVars, failNotices, fresh>>

-----------------------------------------------------------------------------
(* apply_lock                                                              *)

\* The outcome of one command: OK and obeyed; refused, or obeyed with the
\* answer lost; or not sent at all, for want of a connection or because a scan
\* holds the channel.
Commanded(new, good) ==
    \/ good /\ connected /\ modem' = new /\ UNCHANGED left
    \/ /\ ~good /\ connected /\ left.fault > 0
       /\ modem' \in {modem, new}
       /\ left' = [left EXCEPT !.fault = @ - 1]
    \/ ~good /\ (~connected \/ scan = "active") /\ UNCHANGED <<modem, left>>

applyUnchanged == <<cfg, mode, applied, last, down, cool, period, connected,
                    scan, served, fresh>>

\* apply_lock clones the configuration: airplane is decided here.
Begin ==
    /\ at = "begin"
    /\ at' = "off"
    /\ job' = [job EXCEPT !.airplane = cfg.airplane, !.ok = TRUE, !.sent = FALSE]
    /\ UNCHANGED <<applyUnchanged, applyFailed, modem, left, failNotices>>

\* AT+CFUN=0; the locks are sent even if it fails.
RadioOff ==
    /\ at = "off"
    /\ at' = "lte"
    /\ IF job.airplane
       THEN \E good \in BOOLEAN :
              /\ Commanded([modem EXCEPT !.radio = FALSE], good)
              /\ job' = [job EXCEPT !.ok = good]
       ELSE UNCHANGED <<job, modem, left>>
    /\ UNCHANGED <<applyUnchanged, applyFailed, failNotices>>

\* lte_command, nr_command: the command for a lock, if there is one to send.
Command(lock, unlock) ==
    CASE lock = "free" -> IF unlock THEN {"free"} ELSE {}
      [] lock = "bad"  -> {}
      [] lock = "odd"  -> {"free"}
      [] lock \in Locks -> {lock}

\* Mutant: a lock command that fails is not counted.
GoodEnough(good) == job.ok

AllGood(good) == job.ok /\ good

SendLte ==
    /\ at = "lte"
    /\ at' = "nr"
    /\ \/ /\ Command(job.pair.lte, cfg.unlockLte) = {}
          /\ UNCHANGED <<job, modem, left>>
       \/ \E c \in Command(job.pair.lte, cfg.unlockLte), good \in BOOLEAN :
            /\ Commanded([modem EXCEPT !.lte = c], good)
            /\ job' = [job EXCEPT !.sent = TRUE, !.ok = AllGood(good)]
    /\ UNCHANGED <<applyUnchanged, applyFailed, failNotices>>

SendNr ==
    /\ at = "nr"
    /\ at' = "on"
    /\ \/ /\ Command(job.pair.nr, cfg.unlockNr) = {}
          /\ UNCHANGED <<job, modem, left>>
       \/ \E c \in Command(job.pair.nr, cfg.unlockNr), good \in BOOLEAN :
            /\ Commanded([modem EXCEPT !.nr = c], good)
            /\ job' = [job EXCEPT !.sent = TRUE, !.ok = AllGood(good)]
    /\ UNCHANGED <<applyUnchanged, applyFailed, failNotices>>

\* AT+CFUN=1
RadioOn ==
    /\ at = "on"
    /\ at' = "finish"
    /\ IF job.airplane
       THEN \E good \in BOOLEAN :
              /\ Commanded([modem EXCEPT !.radio = TRUE], good)
              /\ job' = [job EXCEPT !.ok = AllGood(good)]
       ELSE UNCHANGED <<job, modem, left>>
    /\ UNCHANGED <<applyUnchanged, applyFailed, failNotices>>

\* Mutant: every attempt is announced.
NotifyAlways(ok) == TRUE

\* A success is always announced, a failure only when it follows a success.
Notify(ok) == ok \/ ~applyFailed

\* The job succeeded, unless a lock was expected and no command was generated.
JobOk ==
    job.ok /\ (job.sent \/ (job.pair.lte = "free" /\ job.pair.nr = "free"))

\* Mutant: the unlocked modem is still taken for locked.
RecoveredApplied == applied

\* A recovery leaves nothing applied, so that the lock is tried again.
AfterRecovery == FALSE

\* What tick does with the result of apply_lock.
Finish ==
    /\ at = "finish"
    /\ applyFailed' = ~JobOk
    /\ failNotices' = CASE ~Notify(JobOk) -> failNotices
                        [] Notify(JobOk) /\ JobOk -> 0
                        [] Notify(JobOk) /\ ~JobOk -> failNotices + 1
    /\ IF job.kind = "recover"
       THEN /\ at' = "sleep"
            /\ down' = 0
            /\ applied' = AfterRecovery
            /\ cool' = Longest(Cooldown, Limit)
            /\ UNCHANGED <<mode, last>>
       ELSE /\ at' = "service"
            /\ IF JobOk
               THEN mode' = job.mode /\ last' = job.pair /\ applied' = TRUE
               ELSE UNCHANGED <<mode, last, applied>>
            /\ UNCHANGED <<down, cool>>
    /\ UNCHANGED <<cfg, job, worldVars, fresh>>

-----------------------------------------------------------------------------
(* The no-service watch                                                    *)

\* has_service: one of the three registration queries says so.
HasService ==
    /\ at = "service"
    /\ \/ /\ connected /\ modem.radio /\ served
          /\ at' = "sleep" /\ down' = 0
          /\ UNCHANGED left
       \/ /\ ~(connected /\ modem.radio /\ served)
          /\ at' = "judge"
          /\ UNCHANGED <<down, left>>
       \/ /\ scan = "active"
          /\ at' = "judge"
          /\ UNCHANGED <<down, left>>
       \/ /\ left.fault > 0
          /\ at' = "judge"
          /\ left' = [left EXCEPT !.fault = @ - 1]
          /\ UNCHANGED down
    /\ UNCHANGED <<cfg, mode, applied, last, applyFailed, cool, job, period,
                   connected, scan, served, modem, failNotices, fresh>>

\* Mutant: the timer starts over in every round without service.
JudgeForgetful ==
    /\ at = "judge"
    /\ at' = "sleep" /\ down' = 0
    /\ UNCHANGED <<cfg, mode, applied, last, applyFailed, cool, job, worldVars,
                   failNotices, fresh>>

\* Mutant: off by one.
TooLongLater == down > Limit

TooLong == down >= Limit

\* No service: a scan excuses it; past the limit the bands are unlocked.
Judge ==
    /\ at = "judge"
    /\ \/ /\ scan # "none"
          /\ at' = "sleep" /\ down' = 0 /\ UNCHANGED job
       \/ /\ scan = "none" /\ ~TooLong
          /\ at' = "sleep" /\ UNCHANGED <<down, job>>
       \/ /\ scan = "none" /\ TooLong
          /\ at' = "begin"
          /\ job' = [job EXCEPT !.kind = "recover", !.pair = Unlock]
          /\ UNCHANGED down
    /\ UNCHANGED <<cfg, mode, applied, last, applyFailed, cool, worldVars,
                   failNotices, fresh>>

-----------------------------------------------------------------------------
(* set_config and the world                                                *)

\* Each disturbance is counted.
Spend(d) == left[d] > 0 /\ left' = [left EXCEPT ![d] = @ - 1]

\* set_config: the cooldown is called off.
SetConfig ==
    /\ Spend("change")
    /\ cfg' \in Configs \ {cfg}
    /\ cool' = 0
    /\ fresh' = TRUE
    /\ UNCHANGED <<mode, applied, last, applyFailed, down, at, job, period,
                   connected, scan, served, modem, failNotices>>

PeriodEnds ==
    /\ Spend("flip")
    /\ period' \in Periods \ {period}
    /\ UNCHANGED <<schedVars, connected, scan, served, modem, failNotices, fresh>>

Disconnect ==
    /\ connected /\ Spend("outage")
    /\ connected' = FALSE
    /\ UNCHANGED <<schedVars, period, scan, served, modem, failNotices, fresh>>

Reconnect ==
    /\ ~connected
    /\ connected' = TRUE
    /\ UNCHANGED <<schedVars, period, scan, served, modem, left, failNotices,
                   fresh>>

ScanStarts ==
    /\ scan # "active" /\ Spend("scan")
    /\ scan' = "active"
    /\ UNCHANGED <<schedVars, period, connected, served, modem, failNotices,
                   fresh>>

\* The scan ends, and SCAN_RECOVERY_GRACE after it.
ScanFades ==
    /\ scan # "none"
    /\ scan' = IF scan = "active" THEN "recent" ELSE "none"
    /\ UNCHANGED <<schedVars, period, connected, served, modem, left,
                   failNotices, fresh>>

CoverageLost ==
    /\ served /\ Spend("cell")
    /\ served' = FALSE
    /\ UNCHANGED <<schedVars, period, connected, scan, modem, failNotices, fresh>>

CoverageBack ==
    /\ ~served
    /\ served' = TRUE
    /\ UNCHANGED <<schedVars, period, connected, scan, modem, left, failNotices,
                   fresh>>

\* The service is stopped, wherever it is, and started again: the modem keeps
\* its locks and the state of its radio.
Restart ==
    /\ Spend("restart")
    /\ mode' = NoMode /\ applied' = FALSE /\ last' = NeverSent
    /\ applyFailed' = FALSE
    /\ down' = 0 /\ cool' = 0
    /\ at' = "sleep" /\ job' = NoJob
    /\ failNotices' = 0 /\ fresh' = TRUE
    /\ UNCHANGED <<cfg, period, connected, scan, served, modem>>

-----------------------------------------------------------------------------
Task == \/ Sleep \/ Check \/ Target \/ Want \/ Decide
        \/ Begin \/ RadioOff \/ SendLte \/ SendNr \/ RadioOn \/ Finish
        \/ HasService \/ Judge

World == \/ SetConfig \/ PeriodEnds \/ Disconnect \/ Reconnect \/ ScanStarts
         \/ ScanFades \/ CoverageLost \/ CoverageBack \/ Restart

Next == Task \/ World

Spec == Init /\ [][Next]_vars

\* The task is scheduled; the channel reconnects and scans end.
FairSpec == Spec /\ WF_vars(Task) /\ WF_vars(Reconnect) /\ WF_vars(ScanFades)

-----------------------------------------------------------------------------
(* Properties                                                              *)

Applying == {"off", "lte", "nr", "on", "finish"}

StateTypeOK ==
    /\ cfg \in Configs
    /\ mode \in Periods \cup {NoMode}
    /\ applied \in BOOLEAN /\ applyFailed \in BOOLEAN /\ fresh \in BOOLEAN
    /\ last \in LockPair \cup {NeverSent}

TimeTypeOK ==
    /\ down \in 0..Limit /\ (at = "sleep" => down < Limit)
    /\ cool \in 0..Longest(Cooldown, Limit)
    /\ left \in [Disturbances -> Nat]
    /\ failNotices \in Nat

JobTypeOK ==
    /\ at \in {"sleep", "check", "target", "want", "decide", "begin", "service",
               "judge"} \cup Applying
    /\ job \in [kind : {"apply", "unlock", "recover"},
                mode : Periods \cup {NoMode}, pair : LockPair,
                airplane : BOOLEAN, ok : BOOLEAN, sent : BOOLEAN]

WorldTypeOK ==
    /\ period \in Periods /\ connected \in BOOLEAN /\ served \in BOOLEAN
    /\ scan \in {"none", "active", "recent"}
    /\ modem \in [lte : Locks \cup {"free"}, nr : Locks \cup {"free"},
                  radio : BOOLEAN]

\* Every variable stays in its type; the cooldown does not outgrow its length,
\* and no round that ends leaves the time without service at its limit.
TypeOK == StateTypeOK /\ TimeTypeOK /\ JobTypeOK /\ WorldTypeOK

\* The user's locks are sent only outside the cooldown that follows a recovery
\* (tick): otherwise lock and unlock would chase each other, with the radio
\* going off and on each time.
LockWaitsForCooldown ==
    at \in {"begin"} \cup Applying /\ job.kind # "recover" => cool = 0

\* A run of failing attempts is announced once (apply_lock).
OneFailureNotice == failNotices <= 1

InForce(lock, value) == lock \in Locks => value = lock

\* Between rounds, when the scheduler says "applied" and its last attempt did
\* not fail, the modem has the locks it was last sent (status): neither a
\* recovery nor a configuration that changes half-way makes it a lie.
AppliedLocksInForce ==
    at = "sleep" /\ applied /\ ~applyFailed /\ last # NeverSent =>
        InForce(last.lte, modem.lte) /\ InForce(last.nr, modem.nr)

\* The lock of the present period as it can be sent is in the modem.
ConfigInForce ==
    LET want == LockFor(TargetMode) IN
    cfg.enabled => /\ InForce(want.lte, modem.lte) /\ InForce(want.nr, modem.nr)
                   /\ modem.radio

\* A switch that failed was called off by a return to the lock before it: mode
\* and last_applied name that lock again, so that nothing more is sent, whatever
\* the failed switch left in the modem. With the radio off the watch heals it.
Forgotten ==
    /\ applyFailed /\ applied /\ modem.radio
    /\ mode = TargetMode /\ last = LockFor(TargetMode)

\* AT+CFUN=1 failed and the option that sends it was switched off after that.
Grounded == ~cfg.airplane /\ ~modem.radio

\* When the disturbances have stopped and there is coverage, the modem ends up
\* with the lock of the period and its radio on, and stays so (tick). There are
\* two exceptions, which the loop never gets out of by itself.
Converges == <>[]served => <>[](ConfigInForce \/ Forgotten \/ Grounded)

\* What the configuration lets a recovery unlock is unlocked.
Unlocked == /\ cfg.unlockLte => modem.lte = "free"
            /\ cfg.unlockNr  => modem.nr = "free"

\* A modem that stays without coverage is unlocked again and again: a lock on a
\* cell that is gone never keeps the device off the network.
LockOutEnds == []<>(served \/ ~cfg.enabled \/ Unlocked)

-----------------------------------------------------------------------------
(* What the source says and the code does not do                           *)

\* The comment of retry_after: until that moment no band lock command is sent.
NothingSentInCooldown == at = "begin" => cool = 0

\* The comments of tick: applied is set only by a success, and a failure leaves
\* it FALSE so that the next round tries again.
FailureRetried ==
    [][at = "decide" /\ at' = "service" /\ job.mode # NoMode /\ cool = 0
        => ~applyFailed]_vars

\* The comment of apply_lock on AT+CFUN=1: that it fails counts as a failure,
\* so that the device is not off the air until somebody restarts it.
RadioComesBack == ~modem.radio ~> modem.radio

\* The log of tick and the comment of target_mode: in a period without a lock
\* all bands are unlocked.
NoLockMeansUnlocked == at = "sleep" /\ applied /\ mode = NoMode => Unlocked

\* The comment of set_config: a new configuration is tried at once, whatever
\* cooldown the last recovery has begun.
NewConfigNotCooled == fresh => cool = 0

\* The comment of apply_lock: a lock for which no command can be generated must
\* make the attempt fail, so that it is retried.
MissingCommandFails ==
    at = "sleep" /\ applied => last.lte # "bad" /\ last.nr # "bad"
=============================================================================
