----------------------------- MODULE SchedStore -----------------------------
(***************************************************************************)
(* AT+SCHED=: write_schedule_uci of rust/src/schedconfig.rs, and what the  *)
(* RPC server does around it. The keys are staged one by one by uci        *)
(* processes, a commit writes what is staged to the file, a failure        *)
(* reverts it, and after a success the schedule runs with the new config.  *)
(* Requests of two connections may run beside each other; the staging area *)
(* is one for all, and the user may commit it from a shell.                *)
(*                                                                         *)
(* A process that takes too long is killed and counts as failed: what it   *)
(* does may have been done.                                                *)
(***************************************************************************)
EXTENDS Integers, Sequences

CONSTANTS
    Requests,       \* requests; each writes a config of its own
    UciKeys,        \* how many keys a config has
    MaxFail         \* bound: processes that fail, and crashes of the service

NoValue == "none"
Factory == "factory"

VARIABLES
    at,             \* per request: where it stands
    key,            \* per request: the key it stages next
    inForce,        \* the config of the schedule
    staged,         \* the staging area
    file            \* the config file

VARIABLES           \* history
    beside,         \* requests beside which another one ran
    meddled,        \* somebody committed what a request had begun to stage
    unclean,        \* a request was broken off, or its revert failed
    hidden,         \* a commit was done that counts as failed
    fails

store == <<staged, file>>
vars == <<at, key, inForce, store, beside, meddled, unclean, hidden, fails>>

Keys == 1..UciKeys
NothingStaged == [k \in Keys |-> NoValue]

StoreInit ==
    /\ at = [w \in Requests |-> "idle"] /\ key = [w \in Requests |-> 1] /\ inForce = Factory
    /\ staged = NothingStaged /\ file = [k \in Keys |-> Factory]
    /\ beside = {} /\ meddled = FALSE /\ unclean = FALSE /\ hidden = FALSE
    /\ fails = MaxFail

Busy == {w \in Requests : at[w] \notin {"idle", "saved", "failed"}}
Goto(w, place) == at' = [at EXCEPT ![w] = place]
Fails == fails > 0 /\ fails' = fails - 1

Ask(w) ==
    /\ at[w] = "idle" /\ Goto(w, "stage")
    /\ beside' = IF Busy = {} THEN beside ELSE beside \union Busy \union {w}
    /\ UNCHANGED <<key, inForce, store, meddled, unclean, hidden, fails>>

\* uci set
Stage(w) ==
    /\ at[w] = "stage"
    /\ \/ /\ staged' = [staged EXCEPT ![key[w]] = w]
          /\ IF key[w] = UciKeys THEN Goto(w, "commit") /\ UNCHANGED key
             ELSE key' = [key EXCEPT ![w] = @ + 1] /\ UNCHANGED at
          /\ UNCHANGED fails
       \/ /\ Fails /\ Goto(w, "revert") /\ UNCHANGED key
          /\ staged' \in {staged, [staged EXCEPT ![key[w]] = w]}
    /\ UNCHANGED <<inForce, file, beside, meddled, unclean, hidden>>

Committed == [k \in Keys |-> IF staged[k] = NoValue THEN file[k] ELSE staged[k]]

\* Mutant: a failed commit leaves what is staged.
AfterCommitFailsNothing == "failed"

\* What follows a commit that failed, or seems to have.
AfterCommitFails == "revert"

\* uci commit
Commit(w) ==
    /\ at[w] = "commit"
    /\ \/ file' = Committed /\ staged' = NothingStaged /\ Goto(w, "apply")
          /\ UNCHANGED <<hidden, fails>>
       \/ Fails /\ Goto(w, AfterCommitFails) /\ UNCHANGED <<store, hidden>>
       \/ /\ Fails /\ Goto(w, AfterCommitFails)
          /\ file' = Committed /\ staged' = NothingStaged /\ hidden' = TRUE
    /\ UNCHANGED <<key, inForce, beside, meddled, unclean>>

\* Mutant: the schedule runs with the config of the first request that is saved.
InForceFirst(w) == IF inForce = Factory THEN w ELSE inForce

\* sched.set_config
InForceAfter(w) == w

Apply(w) ==
    /\ at[w] = "apply" /\ Goto(w, "saved")
    /\ inForce' = InForceAfter(w)
    /\ UNCHANGED <<key, store, beside, meddled, unclean, hidden, fails>>

\* Mutant: the revert ends the request and nothing else.
RevertedNothing == staged

\* What is staged after a revert, of whichever request.
Reverted == NothingStaged

\* revert_schedule_uci; its own failure does not matter to the request.
Revert(w) ==
    /\ at[w] = "revert" /\ Goto(w, "failed")
    /\ \/ staged' = Reverted /\ UNCHANGED <<unclean, fails>>
       \/ Fails /\ unclean' = TRUE /\ UNCHANGED staged
    /\ UNCHANGED <<key, inForce, file, beside, meddled, hidden>>

\* The service dies, and starts with the config of the file.
Crash ==
    /\ Busy # {} /\ Fails
    /\ at' = [w \in Requests |-> IF w \in Busy THEN "failed" ELSE at[w]]
    /\ inForce' = IF \A k \in Keys : file[k] = file[1] THEN file[1] ELSE NoValue
    /\ unclean' = TRUE /\ UNCHANGED <<key, store, beside, meddled, hidden>>

\* uci commit in a shell, or by another program.
UserCommits ==
    /\ staged # NothingStaged
    /\ file' = Committed /\ staged' = NothingStaged
    /\ meddled' = (meddled \/ Busy # {} \/ unclean)
    /\ UNCHANGED <<at, key, inForce, beside, unclean, hidden, fails>>

StoreNext ==
    \/ \E w \in Requests : Ask(w) \/ Stage(w) \/ Commit(w) \/ Apply(w) \/ Revert(w)
    \/ Crash \/ UserCommits

-----------------------------------------------------------------------------
(* Properties                                                              *)

\* Every variable has its type.
StoreTypeOK ==
    /\ at \in [Requests -> {"idle", "stage", "commit", "apply", "revert", "saved", "failed"}]
    /\ key \in [Requests -> Keys]
    /\ \A k \in Keys : file[k] \in Requests \union {Factory}

\* The file holds one whole config, whatever fails, is killed or dies half-way:
\* unless two requests ran beside each other, or somebody commits in the middle
\* of one or after one that could not be reverted.
FileIsWhole == beside = {} /\ ~meddled => \A k \in Keys : file[k] = file[1]

\* After a success the schedule runs with what the file holds, unless a commit
\* that counts as failed was done, or one of the two above.
SavedIsInForce ==
    Busy = {} /\ beside = {} /\ ~meddled /\ ~hidden => \A k \in Keys : file[k] = inForce

\* What the bounds are: a config has a key, and no request is called "none".
StoreBounds == UciKeys \in Nat \ {0} /\ MaxFail \in Nat /\ NoValue \notin Requests

\* Why: one request at a time is at work; what it has staged so far, or has
\* committed, is its own; and between requests nothing is staged, unless one
\* was broken off.
OneAtWork == beside = {} => \A v, w \in Busy : v = w

Untouched == beside = {} /\ ~meddled

StagedSoFar ==
    /\ Busy = {} /\ ~unclean => staged = NothingStaged
    /\ \A w \in Requests :
          /\ at[w] = "stage" => \A k \in Keys : k < key[w] => staged[k] = w
          /\ at[w] = "commit" => \A k \in Keys : staged[k] = w
          /\ at[w] = "apply" => staged = NothingStaged /\ \A k \in Keys : file[k] = w

StoreInv ==
    /\ StoreTypeOK /\ staged \in [Keys -> Requests \union {NoValue}] /\ DOMAIN file = Keys
    /\ OneAtWork
    /\ \A w \in Requests : at[w] = "idle" => key[w] = 1
    /\ FileIsWhole
    /\ Untouched => StagedSoFar
    /\ Untouched /\ ~hidden /\ (\A w \in Requests : at[w] # "apply") =>
          \A k \in Keys : file[k] = inForce
=============================================================================
