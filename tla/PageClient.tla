----------------------------- MODULE PageClient -----------------------------
(***************************************************************************)
(* The commands of a page: ATClient in resources/at-webserver/rpc.js. One  *)
(* promise chain runs the commands of the page one after the other, reads  *)
(* are retried and cached, a channel that answers "busy" opens a breaker   *)
(* window, and a warm-up fetches many reads at once past the chain.        *)
(*                                                                         *)
(* A value read from the modem is the number of writes that had taken      *)
(* effect when it was read. A call that the page no longer waits for still *)
(* runs. rpcd runs one call at a time; answers arrive in any order.        *)
(***************************************************************************)
EXTENDS Integers, Sequences, FiniteSets

CONSTANTS
    StateReads,     \* reads of STATE_COMMANDS: a write drops them
    PlainReads,     \* the other reads that may be cached
    Writes,         \* every other command
    Once,           \* the reads that a page sends with attempts: 1
    CacheMax,       \* READ_CACHE_MAX (64)
    Attempts,       \* RETRY_ATTEMPTS_DEFAULT (3)
    Downgrade,      \* RETRY_DOWNGRADE_STREAK (2)
    MaxRequests,    \* bound: the calls of sendCommand
    WarmList,       \* the reads of a warm-up, in order
    MaxWarm,        \* bound: warm-ups
    MaxTrouble      \* bound: losses of the connection and time-outs

ASSUME ClientAssumption ==
    /\ CacheMax \in Nat \ {0} /\ Attempts \in Nat \ {0} /\ Downgrade \in Nat \ {0}
    /\ WarmList \in Seq(StateReads \union PlainReads)
    /\ StateReads \intersect PlainReads = {}
    /\ Writes \intersect (StateReads \union PlainReads) = {}
    /\ Once \subseteq StateReads \union PlainReads
ASSUME ClientBounds == MaxRequests \in Nat /\ MaxWarm \in Nat /\ MaxTrouble \in Nat

VARIABLES
    connected,      \* connected
    busy,           \* Date.now() < _busyUntil
    queue,          \* commandQueue: the requests not yet settled
    req,            \* per request: its command, options and progress
    cache,          \* _readCache: the value of a command, and who put it
    order,          \* _cacheOrder
    streak,         \* _failStreak
    warm,           \* the warm-up under way
    calls           \* the posts of rpcAt the page waits for or has given up

VARIABLES           \* the modem and history
    effects,        \* writes that have taken effect
    ran,            \* per request: how often the modem ran it, if a write
    acked,          \* the value after the last write reported as done
    warmed,         \* warm-ups so far
    trouble         \* what is left of MaxTrouble

pageVars == <<connected, busy, queue, req, cache, order, streak>>
histVars == <<ran, acked, trouble>>
vars == <<pageVars, warm, calls, effects, histVars, warmed>>

Requests == 1..MaxRequests
Reads == StateReads \union PlainReads
Commands == Reads \union Writes
Nothing == [value |-> -1, by |-> "none"]
Unused == [cmd |-> "none", fresh |-> FALSE, max |-> 0, try |-> 0, at |-> "unused"]
Idle == [at |-> "idle", got |-> <<>>, busy |-> FALSE]

Init ==
    /\ connected = TRUE /\ busy = FALSE
    /\ queue = <<>>
    /\ req = [r \in Requests |-> Unused]
    /\ cache = [c \in Commands |-> Nothing]
    /\ order = <<>>
    /\ streak = [c \in Reads |-> 0]
    /\ warm = Idle
    /\ calls = {}
    /\ effects = 0 /\ acked = 0 /\ warmed = 0
    /\ ran = [r \in Requests |-> 0]
    /\ trouble = MaxTrouble

-----------------------------------------------------------------------------
(* The read cache                                                          *)

Cached(c) == cache[c] # Nothing

\* The order without a key, wherever a drop or an expiry had left it.
Without(ord, c) ==
    LET upTo[n \in 0..Len(ord)] ==
          IF n = 0 THEN <<>>
          ELSE IF ord[n] = c THEN upTo[n - 1] ELSE Append(upTo[n - 1], ord[n])
    IN  upTo[Len(ord)]

\* _cachePut, of a command that is not in the cache: its key goes to the end
\* of the order.
PutOrder(ord, c) == Append(Without(ord, c), c)

\* Mutant: the oldest leave the order and stay in the cache.
EvictOrderOnly(store, ord) ==
    <<store, IF Len(ord) > CacheMax THEN Tail(ord) ELSE ord>>

\* The oldest entries make room.
Evict(store, ord) ==
    IF Len(ord) > CacheMax THEN <<[store EXCEPT ![Head(ord)] = Nothing], Tail(ord)>>
                           ELSE <<store, ord>>

\* _cachePut of a successful answer, into a cache and its order.
Put(both, c, entry) ==
    LET new == [both[1] EXCEPT ![c] = entry]
    IN  IF both[1][c] # Nothing THEN <<new, both[2]>>
                                ELSE Evict(new, PutOrder(both[2], c))

\* Mutant: a write leaves the cache alone.
KeepAll(store) == store

\* _dropStateCache: the order keeps the keys.
WithoutState(store) == [c \in Commands |-> IF c \in StateReads THEN Nothing ELSE store[c]]

\* clearReadCache
Clear ==
    /\ cache' = [c \in Commands |-> Nothing] /\ order' = <<>>
    /\ cache # cache'
    /\ UNCHANGED <<connected, busy, queue, req, streak, warm, calls, effects,
                   histVars, warmed>>

-----------------------------------------------------------------------------
(* sendCommand                                                             *)

\* Mutant: what is not marked fresh may be cached.
CacheableIfStale(q) == ~q.fresh

\* isRetryableRead, without the option.
Cacheable(q) == q.cmd \in Reads /\ ~q.fresh

\* A read that is not fresh fails at once while the window is open.
QuickFails(q) == busy /\ Cacheable(q)

\* Mutant: a write is retried like a read.
MaxAttemptsOfAny(c) == IF c \in Once \/ (c \in Reads /\ streak[c] >= Downgrade) THEN 1 ELSE Attempts

\* The attempts a command is given when it is queued; opt.attempts of the caller
\* comes first.
MaxAttempts(c) == IF c \in Writes \union Once \/ streak[c] >= Downgrade THEN 1 ELSE Attempts

Asked(c, fresh) ==
    [cmd |-> c, fresh |-> fresh, max |-> MaxAttempts(c), try |-> 0, at |-> "queued"]

\* The requests are numbered as they are made.
NextRequest(r) ==
    req[r].at = "unused" /\ \A q \in Requests : q < r => req[q].at # "unused"

\* What is kept of a request that has been answered.
Over(c, at) == [Unused EXCEPT !.cmd = c, !.at = at]

\* A live entry answers the request; nothing is queued.
AnswerFromCache(r, c) ==
    /\ NextRequest(r) /\ c \in Reads /\ Cached(c)
    /\ req' = [req EXCEPT ![r] = Over(c, "hit")]
    /\ UNCHANGED <<connected, busy, queue, cache, order, streak, warm, calls, effects,
                   histVars, warmed>>

\* No entry, or one past its time, which is deleted. In the window a read is
\* turned away; anything else joins the chain.
Send(r, c, fresh) ==
    LET q == IF QuickFails([cmd |-> c, fresh |-> fresh]) THEN Over(c, "failed")
             ELSE Asked(c, fresh)
    IN  /\ NextRequest(r) /\ (fresh => c \in StateReads)
        /\ req' = [req EXCEPT ![r] = q]
        /\ queue' = IF q.at = "queued" THEN Append(queue, r) ELSE queue
        /\ cache' = IF c \in Reads /\ ~fresh THEN [cache EXCEPT ![c] = Nothing] ELSE cache
        /\ UNCHANGED <<connected, busy, order, streak, warm, calls, effects,
                       histVars, warmed>>

\* _noteFailStreak: past Downgrade the number of failures no longer matters.
Counted(c, ok) ==
    IF c \in Writes THEN streak
    ELSE [streak EXCEPT ![c] = IF ok THEN 0 ELSE IF @ = Downgrade THEN @ ELSE @ + 1]

\* The end of a request: the chain goes on. A read that was not fresh is
\* cached if it succeeded; any other success drops the cached states.
Settle(r, ok, value) ==
    LET q == req[r]
        both == IF ok /\ Cacheable(q)
                THEN Put(<<cache, order>>, q.cmd, [value |-> value, by |-> "chain"])
                ELSE <<IF ok THEN WithoutState(cache) ELSE cache, order>>
    IN  /\ req' = [req EXCEPT ![r] = Over(q.cmd, IF ok THEN "done" ELSE "failed")]
        /\ queue' = Tail(queue)
        /\ cache' = both[1] /\ order' = both[2]
        /\ streak' = Counted(q.cmd, ok)

\* Mutant: a command waits for the connection.
AttemptWhenConnected(r) ==
    /\ connected
    /\ req' = [req EXCEPT ![r].at = "sent", ![r].try = @ + 1]
    /\ calls' = calls \union {[r |-> r, try |-> req[r].try + 1, at |-> "posted",
                               value |-> -1]}
    /\ UNCHANGED <<queue, cache, order, streak>>

\* attemptOnce, up to the post: without a connection the request has failed.
Attempt(r) ==
    IF connected
    THEN /\ req' = [req EXCEPT ![r].at = "sent", ![r].try = @ + 1]
         /\ calls' = calls \union {[r |-> r, try |-> req[r].try + 1, at |-> "posted",
                                    value |-> -1]}
         /\ UNCHANGED <<queue, cache, order, streak>>
    ELSE Settle(r, FALSE, -1) /\ UNCHANGED calls

\* The chain reaches a request. The window is looked at a second time.
Start ==
    /\ queue # <<>> /\ req[Head(queue)].at = "queued"
    /\ IF QuickFails(req[Head(queue)])
       THEN Settle(Head(queue), FALSE, -1) /\ UNCHANGED calls
       ELSE Attempt(Head(queue))
    /\ UNCHANGED <<connected, busy, warm, effects, histVars, warmed>>

\* A failed attempt: again after a delay, or the end. The budget, of 20 s or of
\* the caller, may end it as well, whatever is left of its attempts.
FailOrRetry(r) ==
    IF req[r].try < req[r].max
    THEN \/ /\ req' = [req EXCEPT ![r].at = "backoff"]
            /\ UNCHANGED <<queue, cache, order, streak>>
         \/ Settle(r, FALSE, -1)
    ELSE Settle(r, FALSE, -1)

\* delayMs is over.
Retry ==
    /\ queue # <<>> /\ req[Head(queue)].at = "backoff"
    /\ Attempt(Head(queue))
    /\ UNCHANGED <<connected, busy, warm, effects, histVars, warmed>>

\* The call the page waits for.
Awaited(k) == req[k.r].at = "sent" /\ req[k.r].try = k.try

\* A busy answer opens the window and ends the request: it is never retried.
OnBusy(k) ==
    /\ busy' = TRUE
    /\ Settle(k.r, FALSE, -1)

\* An answer comes in: a success closes the window.
Receive(k) ==
    /\ k \in calls /\ k.at # "posted" /\ Awaited(k)
    /\ calls' = calls \ {k}
    /\ \/ k.at = "ok" /\ busy' = FALSE /\ Settle(k.r, TRUE, k.value)
       \/ k.at = "busy" /\ OnBusy(k)
       \/ k.at = "error" /\ UNCHANGED busy /\ FailOrRetry(k.r)
    /\ acked' = IF k.at = "ok" /\ req[k.r].cmd \in Writes /\ k.value > acked
                THEN k.value ELSE acked
    /\ UNCHANGED <<connected, warm, effects, ran, trouble, warmed>>

\* withTimeout has given up on the call; its answer is thrown away, and only
\* what a write does to the modem is still to come. The text
\* of the time-out matches none of BUSY_PATTERNS.
TimeOut(k) ==
    /\ k \in calls /\ Awaited(k)
    /\ calls' = IF k.at = "posted" /\ req[k.r].cmd \in Writes THEN calls ELSE calls \ {k}
    /\ FailOrRetry(k.r)
    /\ UNCHANGED <<connected, busy, warm, effects, histVars, warmed>>

\* BUSY_COOLDOWN_MS have passed.
WindowEnds ==
    /\ busy /\ busy' = FALSE
    /\ UNCHANGED <<connected, queue, req, cache, order, streak, warm, calls, effects,
                   histVars, warmed>>

\* A failed poll of the events takes the page off line, a reconnect brings
\* it back.
Connection ==
    /\ connected' = ~connected
    /\ trouble > 0 /\ trouble' = trouble - 1
    /\ UNCHANGED <<busy, queue, req, cache, order, streak, warm, calls, effects,
                   ran, acked, warmed>>

-----------------------------------------------------------------------------
(* warmCache                                                               *)

\* Past the chain, and not at all in the window.
Warm ==
    /\ warm = Idle /\ warmed < MaxWarm /\ ~busy
    /\ warm' = [Idle EXCEPT !.at = "posted"]
    /\ warmed' = warmed + 1
    /\ UNCHANGED <<pageVars, calls, effects, histVars>>

\* at_batch reads one command after the other; it stops at a busy answer.
RunWarm(good, n) ==
    /\ warm.at = "posted" /\ n \in 0..Len(WarmList) /\ good \subseteq 1..n
    /\ warm' = [at |-> "answered", busy |-> n < Len(WarmList),
                got |-> [i \in 1..n |-> IF i \in good THEN effects ELSE -1]]
    /\ UNCHANGED <<pageVars, calls, effects, histVars, warmed>>

\* The values of the first n results, put one after the other.
PutAll(got) ==
    LET upTo[n \in 0..Len(got)] ==
          IF n = 0 THEN <<cache, order>>
          ELSE IF got[n] = -1 THEN upTo[n - 1]
          ELSE Put(upTo[n - 1], WarmList[n], [value |-> got[n], by |-> "warm"])
    IN  upTo[Len(got)]

ReceiveWarm ==
    /\ warm.at = "answered"
    /\ cache' = PutAll(warm.got)[1] /\ order' = PutAll(warm.got)[2]
    /\ busy' = (busy \/ warm.busy)
    /\ warm' = Idle
    /\ UNCHANGED <<connected, queue, req, streak, calls, effects, histVars, warmed>>

\* WARM_CACHE_WAIT_MS have passed, or the call has failed.
GiveUpWarm ==
    /\ warm # Idle /\ trouble > 0
    /\ trouble' = trouble - 1 /\ warm' = Idle
    /\ UNCHANGED <<pageVars, calls, effects, ran, acked, warmed>>

-----------------------------------------------------------------------------
(* rpcd and the modem                                                      *)

\* A call runs and has an answer, which is thrown away if the page has given
\* up. A write that is answered with an error may have taken effect.
Run(k, answer, effect) ==
    /\ k \in calls /\ k.at = "posted"
    /\ effect => req[k.r].cmd \in Writes /\ answer # "busy"
    /\ (answer = "ok" /\ req[k.r].cmd \in Writes) => effect
    /\ effects' = IF effect THEN effects + 1 ELSE effects
    /\ ran' = IF answer = "busy" \/ req[k.r].cmd \in Reads THEN ran ELSE [ran EXCEPT ![k.r] = @ + 1]
    /\ calls' = IF Awaited(k)
                THEN (calls \ {k}) \union {[k EXCEPT !.at = answer, !.value = effects']}
                ELSE calls \ {k}
    /\ UNCHANGED <<pageVars, warm, acked, trouble, warmed>>

-----------------------------------------------------------------------------
Done == /\ \A r \in Requests : req[r].at \in {"hit", "done", "failed"}
        /\ calls = {}
        /\ UNCHANGED vars

Page ==
    \/ \E r \in Requests, c \in Commands :
          AnswerFromCache(r, c) \/ \E fresh \in BOOLEAN : Send(r, c, fresh)
    \/ Start \/ Retry
    \/ \E k \in calls : Receive(k) \/ TimeOut(k)
    \/ WindowEnds \/ Connection \/ Clear
    \/ Warm \/ ReceiveWarm \/ GiveUpWarm

Modem ==
    \/ \E k \in calls, answer \in {"ok", "error", "busy"}, effect \in BOOLEAN :
          Run(k, answer, effect)
    \/ \E n \in 0..Len(WarmList) : \E good \in SUBSET (1..n) : RunWarm(good, n)

Next == Page \/ Modem \/ Done

\* The page's own steps and its timers are fair; nothing is asked of rpcd,
\* of the modem or of the network.
Fairness ==
    /\ WF_vars(Start) /\ WF_vars(Retry)
    /\ WF_vars(\E k \in calls : TimeOut(k))

Spec == Init /\ [][Next]_vars /\ Fairness

-----------------------------------------------------------------------------
(* Properties                                                              *)

EntryOk(e) == e = Nothing \/ e \in [value : Nat, by : {"chain", "warm"}]

\* Every variable has its type.
ClientTypeOK ==
    /\ connected \in BOOLEAN /\ busy \in BOOLEAN
    /\ queue \in Seq(Requests)
    /\ \A r \in Requests :
          req[r] = Unused \/ /\ req[r].cmd \in Commands
                             /\ req[r].at \in {"hit", "queued", "sent", "backoff",
                                               "done", "failed"}
    /\ \A c \in Commands : EntryOk(cache[c])
    /\ order \in Seq(Reads)
    /\ streak \in [Reads -> 0..Downgrade]
    /\ effects \in Nat /\ acked \in 0..effects

\* The cache never holds more than READ_CACHE_MAX entries, and none that the
\* eviction cannot reach: every cached command stands in the order, once,
\* whatever drops, expiries and refills went before. ("_cacheOrder", rpc.js.)
CacheBounded ==
    /\ Len(order) <= CacheMax
    /\ \A c \in Commands : Cached(c) =>
          Cardinality({i \in 1..Len(order) : order[i] = c}) = 1

\* A cached state that is older than a write the user was told has been done
\* was put by a warm-up: what the chain reads is never left over from before
\* such a write. The warm-up goes past the chain, and there it can happen.
StaleOnlyByWarm ==
    \A c \in StateReads :
        Cached(c) /\ cache[c].value < acked => cache[c].by = "warm"

\* The modem runs a write at most once for each time the page asked for it,
\* whatever is lost, late or busy.
WriteOnce == \A r \in Requests : req[r].cmd \in Writes => ran[r] <= 1

\* Why WriteOnce holds: a write has one attempt, its call is posted by the step
\* that starts it, and nothing of a request is under way before that. Only the
\* head of the queue is under way.
Moments == {"unused", "queued", "sent", "backoff", "hit", "done", "failed"}
RequestRecord == [cmd : Commands \union {"none"}, fresh : BOOLEAN, max : Nat, try : Nat,
                  at : Moments]
CallRecord == [r : Requests, try : Nat, at : {"posted", "ok", "error", "busy"}, value : Int]

AtHead(r) ==
    req[r].at \in {"sent", "backoff"} => queue # <<>> /\ Head(queue) = r
NotBegun(r) ==
    req[r].at \in {"unused", "queued"} =>
        ran[r] = 0 /\ req[r].try = 0 /\ \A k \in calls : k.r # r
OneAttempt(r) ==
    req[r].cmd \in Writes =>
        /\ req[r].at # "backoff"
        /\ req[r].at \in {"queued", "sent"} => req[r].max = 1
        /\ req[r].at = "sent" => req[r].try = 1
        /\ ran[r] <= 1
OneCall(k) ==
    req[k.r].cmd \in Writes /\ k.at = "posted" =>
        k.try = 1 /\ k.value = -1 /\ ran[k.r] = 0

WriteInv ==
    /\ req \in [Requests -> RequestRecord] /\ calls \subseteq CallRecord
    /\ ran \in [Requests -> Nat] /\ queue \in Seq(Requests) /\ effects \in Nat
    /\ \A r \in Requests : AtHead(r) /\ NotBegun(r) /\ OneAttempt(r)
    /\ \A k \in calls : OneCall(k)

\* Every command is answered, also when rpcd never answers: the chain does
\* not stop.
Answered ==
    \A r \in Requests : req[r].at = "queued" ~> req[r].at \in {"done", "failed"}

\* A time-out of the page counts as a busy channel: the command is not sent
\* again. ("前端侧超时文案里也带「模组可能正忙…」，同样按忙态处理", rpc.js:965.)
TimeOutIsBusy ==
    [][\A r \in Requests :
          req[r].at = "sent" /\ req'[r].at = "backoff" =>
             \E k \in calls : k.r = r /\ k.try = req[r].try /\ k.at = "error"]_vars
=============================================================================
