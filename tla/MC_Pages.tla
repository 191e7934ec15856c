------------------------------ MODULE MC_Pages ------------------------------
(* The pages of the application for TLC, each with its own machine. LuCI   *)
(* shows one page at a time, so a behaviour is that of one page, which is  *)
(* chosen at the start, and the machines take turns in the same registers: *)
(* the page in view keeps its n variables in the first n of them, the      *)
(* others stay unused. Four small machines of the service that share no    *)
(* state with its other models stand beside the pages: incoming calls,     *)
(* long messages, the notices that go out, and the store of the schedule.  *)
(* The machines about messages stand in MessageProofs and the other large  *)
(* ones in PageProofs. The small ones come first here, each with its       *)
(* proofs; then what TLC checks of all of them; and at last the theorems   *)
(* about the pages.                                                        *)
EXTENDS PageProofs

-----------------------------------------------------------------------------
(* The store of the schedule.                                              *)

Store == INSTANCE SchedStore WITH
    at <- r1, key <- r2, inForce <- r3, staged <- r4, file <- r5,
    beside <- r6, meddled <- r7, unclean <- r8, hidden <- r9, fails <- r10,
    Requests <- Size.store.requests, UciKeys <- Size.store.keys,
    MaxFail <- Size.store.failed

\* The invariant holds at the start.
LEMMA StoreBegins == ASSUME Store!StoreBounds, Store!StoreInit PROVE Store!StoreInv
<1>1. Store!StoreTypeOK /\ r4 \in [Store!Keys -> Size.store.requests \union {Store!NoValue}] /\ DOMAIN r5 = Store!Keys
  BY DEF Store!StoreBounds, Store!StoreInit, Store!StoreTypeOK, Store!NothingStaged, Store!Keys
<1>2. Store!FileIsWhole /\ \A k \in Store!Keys : r5[k] = r3
  BY DEF Store!StoreBounds, Store!StoreInit, Store!FileIsWhole, Store!Keys
<1>3. Store!Busy = {}
  BY DEF Store!StoreInit, Store!Busy
<1>4. Store!StagedSoFar
  BY DEF Store!StoreInit, Store!StagedSoFar
<1>5. \A w \in Size.store.requests : r1[w] = "idle" => r2[w] = 1
  BY DEF Store!StoreInit
<1>6. QED BY <1>1, <1>2, <1>3, <1>4, <1>5 DEF Store!StoreInv, Store!OneAtWork

\* What a request's step does to the list of those at work.
LEMMA StoreMoves ==
  ASSUME Store!StoreInv, NEW w \in Size.store.requests, NEW place, Store!Goto(w, place)
  PROVE  /\ r1'[w] = place /\ \A v \in Size.store.requests : v # w => r1'[v] = r1[v]
         /\ Store!Busy' = IF place \in {"idle", "saved", "failed"} THEN Store!Busy \ {w} ELSE Store!Busy \union {w}
BY DEF Store!StoreInv, Store!StoreTypeOK, Store!Goto, Store!Busy

\* A request comes in: it waits its turn, or begins.
LEMMA StoreAsk ==
  ASSUME Store!StoreBounds, Store!StoreInv, NEW w \in Size.store.requests, Store!Ask(w)
  PROVE  Store!StoreInv'
<1>1. /\ r1[w] = "idle" /\ Store!Goto(w, "stage") /\ w \notin Store!Busy
      /\ UNCHANGED <<r2, r3, r4, r5, r7, r8, r9>>
      /\ r6' = IF Store!Busy = {} THEN r6 ELSE r6 \union Store!Busy \union {w}
  BY DEF Store!Ask, Store!Busy, Store!store
<1>2. /\ r1'[w] = "stage" /\ \A v \in Size.store.requests : v # w => r1'[v] = r1[v]
      /\ Store!Busy' = Store!Busy \union {w}
  BY <1>1, StoreMoves
<1>3. r6' = {} => r6 = {} /\ Store!Busy = {}
  BY <1>1
<1>4. Store!StoreTypeOK'
  BY <1>1 DEF Store!StoreInv, Store!StoreTypeOK, Store!Goto
<1>5. Store!OneAtWork'
  BY <1>2, <1>3 DEF Store!OneAtWork
<1>6. Store!FileIsWhole'
  BY <1>1, <1>3 DEF Store!StoreInv, Store!FileIsWhole
<1>7. Store!Untouched' => Store!Untouched /\ Store!Busy = {}
  BY <1>1, <1>3 DEF Store!Untouched
<1>8. ASSUME Store!Untouched' PROVE Store!StagedSoFar'
  <2>1. r2[w] = 1 /\ Store!Busy' # {}
    BY <1>1, <1>2 DEF Store!StoreInv
  <2>2. \A v \in Size.store.requests : v # w => r1[v] \in {"idle", "saved", "failed"}
    BY <1>7, <1>8 DEF Store!Busy
  <2>3. QED BY <1>1, <1>2, <2>1, <2>2 DEF Store!StagedSoFar, Store!Keys
<1>9. (\A v \in Size.store.requests : r1'[v] # "apply") => \A v \in Size.store.requests : r1[v] # "apply"
  BY <1>1, <1>2
<1>10. QED BY <1>1, <1>2, <1>4, <1>5, <1>6, <1>7, <1>8, <1>9 DEF Store!StoreInv, Store!Untouched,
Store!Keys

\* What holds of the request at work, and of the others.
LEMMA StoreAtWork ==
  ASSUME Store!StoreInv, NEW w \in Store!Busy, Store!Untouched
  PROVE  /\ w \in Size.store.requests /\ Store!Busy = {w}
         /\ \A v \in Size.store.requests : v # w => r1[v] \in {"idle", "saved", "failed"}
BY DEF Store!StoreInv, Store!OneAtWork, Store!Untouched, Store!Busy

\* A request stages its next key.
LEMMA StoreStage ==
  ASSUME Store!StoreBounds, Store!StoreInv, NEW w \in Size.store.requests, Store!Stage(w)
  PROVE  Store!StoreInv'
<1>1. /\ r1[w] = "stage" /\ w \in Store!Busy /\ r2[w] \in Store!Keys
      /\ UNCHANGED <<r3, r5, r6, r7, r8, r9>>
  BY DEF Store!Stage, Store!Busy, Store!StoreInv, Store!StoreTypeOK
<1>2. PICK place \in {"stage", "commit", "revert"} :
         /\ Store!Goto(w, place)
         /\ \/ /\ place = "stage" /\ r2[w] # Size.store.keys /\ r2' = [r2 EXCEPT ![w] = @ + 1]
               /\ r4' = [r4 EXCEPT ![r2[w]] = w]
            \/ /\ place = "commit" /\ r2[w] = Size.store.keys /\ UNCHANGED r2
               /\ r4' = [r4 EXCEPT ![r2[w]] = w]
            \/ /\ place = "revert" /\ UNCHANGED r2
               /\ r4' \in {r4, [r4 EXCEPT ![r2[w]] = w]}
  <2>1. \/ /\ r2[w] # Size.store.keys /\ r2' = [r2 EXCEPT ![w] = @ + 1] /\ UNCHANGED r1
           /\ r4' = [r4 EXCEPT ![r2[w]] = w]
        \/ /\ r2[w] = Size.store.keys /\ Store!Goto(w, "commit") /\ UNCHANGED r2
           /\ r4' = [r4 EXCEPT ![r2[w]] = w]
        \/ /\ Store!Goto(w, "revert") /\ UNCHANGED r2
           /\ r4' \in {r4, [r4 EXCEPT ![r2[w]] = w]}
    BY DEF Store!Stage
  <2>2. r1 = [r1 EXCEPT ![w] = "stage"]
    BY <1>1 DEF Store!StoreInv, Store!StoreTypeOK
  <2>3. UNCHANGED r1 => Store!Goto(w, "stage")
    BY <2>2 DEF Store!Goto
  <2>4. QED BY <2>1, <2>3
<1>3. /\ r1'[w] = place /\ \A v \in Size.store.requests : v # w => r1'[v] = r1[v]
      /\ Store!Busy' = Store!Busy
  BY <1>1, <1>2, StoreMoves
<1>4. /\ Store!StoreTypeOK' /\ r4' \in [Store!Keys -> Size.store.requests \union {Store!NoValue}] /\ DOMAIN r5' = Store!Keys
  <2>1. r1' \in [Size.store.requests -> {"idle", "stage", "commit", "apply", "revert", "saved", "failed"}]
    BY <1>2 DEF Store!StoreInv, Store!StoreTypeOK, Store!Goto
  <2>2. r2' \in [Size.store.requests -> Store!Keys]
    BY <1>1, <1>2 DEF Store!StoreInv, Store!StoreTypeOK, Store!Keys, Store!StoreBounds
  <2>3. r4' \in [Store!Keys -> Size.store.requests \union {Store!NoValue}]
    BY <1>1, <1>2 DEF Store!StoreInv
  <2>4. QED BY <1>1, <2>1, <2>2, <2>3 DEF Store!StoreInv, Store!StoreTypeOK
<1>5. Store!OneAtWork' /\ Store!FileIsWhole'
  BY <1>1, <1>3 DEF Store!StoreInv, Store!OneAtWork, Store!FileIsWhole
<1>6. \A v \in Size.store.requests : r1'[v] = "idle" => r2'[v] = 1
  BY <1>2, <1>3 DEF Store!StoreInv, Store!StoreTypeOK
<1>7. ASSUME Store!Untouched' PROVE Store!StagedSoFar'
  <2>1. Store!Untouched
    BY <1>1, <1>7 DEF Store!Untouched
  <2>2. /\ \A v \in Size.store.requests : v # w => r1[v] \in {"idle", "saved", "failed"}
        /\ \A k \in Store!Keys : k < r2[w] => r4[k] = w
    BY <1>1, <2>1, StoreAtWork DEF Store!StoreInv, Store!StagedSoFar
  <2>3. place = "stage" => r2'[w] = r2[w] + 1
    BY <1>2 DEF Store!StoreInv, Store!StoreTypeOK
  <2>4. place \in {"stage", "commit"} =>
           r4'[r2[w]] = w /\ \A k \in Store!Keys : k < r2[w] => r4'[k] = w
    BY <1>1, <1>2, <2>2 DEF Store!StoreInv, Store!Keys
  <2>5. QED BY <1>1, <1>2, <1>3, <2>2, <2>3, <2>4 DEF Store!StagedSoFar, Store!Keys,
                                                      Store!StoreBounds
<1>8. (\A v \in Size.store.requests : r1'[v] # "apply") => \A v \in Size.store.requests : r1[v] # "apply"
  BY <1>1, <1>3
<1>9. QED BY <1>1, <1>3, <1>4, <1>5, <1>6, <1>7, <1>8 DEF Store!StoreInv, Store!Untouched

\* A commit puts what is staged into the file.
LEMMA StoreCommitted ==
  ASSUME Store!StoreBounds, Store!StoreInv
  PROVE  /\ Store!Committed \in [Store!Keys -> UNION {Size.store.requests, {Store!NoValue}, {r5[k] : k \in Store!Keys}}]
         /\ \A k \in Store!Keys : Store!Committed[k] \in Size.store.requests \union {Store!Factory}
         /\ \A w \in Size.store.requests : (\A k \in Store!Keys : r4[k] = w) => \A k \in Store!Keys : Store!Committed[k] = w
         /\ Store!NothingStaged \in [Store!Keys -> Size.store.requests \union {Store!NoValue}]
BY DEF Store!Committed, Store!StoreInv, Store!StoreTypeOK, Store!StoreBounds, Store!NothingStaged

\* A request commits what is staged.
LEMMA StoreCommit ==
  ASSUME Store!StoreBounds, Store!StoreInv, NEW w \in Size.store.requests, Store!Commit(w)
  PROVE  Store!StoreInv'
<1>1. /\ r1[w] = "commit" /\ w \in Store!Busy
      /\ UNCHANGED <<r2, r3, r6, r7, r8>>
  BY DEF Store!Commit, Store!Busy
<1>2. PICK place \in {"apply", "revert"} :
         /\ Store!Goto(w, place)
         /\ \/ place = "apply" /\ r5' = Store!Committed /\ r4' = Store!NothingStaged /\ UNCHANGED r9
            \/ place = "revert" /\ UNCHANGED <<r4, r5, r9>>
            \/ place = "revert" /\ r5' = Store!Committed /\ r4' = Store!NothingStaged /\ r9' = TRUE
  BY <1>1 DEF Store!Commit, Store!Goto, Store!AfterCommitFails, Store!store
<1>3. /\ r1'[w] = place /\ \A v \in Size.store.requests : v # w => r1'[v] = r1[v]
      /\ Store!Busy' = Store!Busy
  BY <1>1, <1>2, StoreMoves
<1>4. /\ Store!StoreTypeOK' /\ r4' \in [Store!Keys -> Size.store.requests \union {Store!NoValue}] /\ DOMAIN r5' = Store!Keys
  <2>1. r1' \in [Size.store.requests -> {"idle", "stage", "commit", "apply", "revert", "saved", "failed"}]
    BY <1>2 DEF Store!StoreInv, Store!StoreTypeOK, Store!Goto
  <2>2. DOMAIN r5' = Store!Keys /\ \A k \in Store!Keys : r5'[k] \in Size.store.requests \union {Store!Factory}
    BY <1>2, StoreCommitted DEF Store!StoreInv, Store!StoreTypeOK
  <2>3. r4' \in [Store!Keys -> Size.store.requests \union {Store!NoValue}]
    BY <1>2, StoreCommitted DEF Store!StoreInv
  <2>4. QED BY <1>1, <2>1, <2>2, <2>3 DEF Store!StoreInv, Store!StoreTypeOK
<1>5. Store!OneAtWork' /\ \A v \in Size.store.requests : r1'[v] = "idle" => r2'[v] = 1
  BY <1>1, <1>2, <1>3 DEF Store!StoreInv, Store!OneAtWork
<1>6. ASSUME Store!Untouched'
      PROVE  /\ \A v \in Size.store.requests : v # w => r1[v] \in {"idle", "saved", "failed"}
             /\ \A k \in Store!Keys : r4[k] = w /\ Store!Untouched
  BY <1>1, <1>6, StoreAtWork DEF Store!StoreInv, Store!StagedSoFar, Store!Untouched
<1>7. Store!FileIsWhole'
  BY <1>1, <1>2, <1>6, StoreCommitted DEF Store!StoreInv, Store!FileIsWhole, Store!Untouched,
                                          Store!Keys, Store!StoreBounds
<1>8. ASSUME Store!Untouched' PROVE Store!StagedSoFar'
  BY <1>1, <1>2, <1>3, <1>6, <1>8, StoreCommitted DEF Store!StagedSoFar
<1>9. ASSUME Store!Untouched', ~r9', \A v \in Size.store.requests : r1'[v] # "apply"
      PROVE  \A k \in Store!Keys : r5'[k] = r3'
  <2>1. place = "revert" /\ UNCHANGED <<r5, r9>> /\ \A v \in Size.store.requests : r1[v] # "apply"
    BY <1>1, <1>2, <1>3, <1>9
  <2>2. QED BY <1>1, <1>9, <2>1 DEF Store!StoreInv, Store!Untouched
<1>10. QED BY <1>4, <1>5, <1>7, <1>8, <1>9 DEF Store!StoreInv

\* The service takes the new config over, or a request puts the file back.
LEMMA StoreEnds ==
  ASSUME Store!StoreBounds, Store!StoreInv, NEW w \in Size.store.requests, Store!Apply(w)
           \/ Store!Revert(w)
  PROVE  Store!StoreInv'
<1>1. /\ r1[w] \in {"apply", "revert"} /\ w \in Store!Busy
      /\ UNCHANGED <<r2, r5, r6, r7, r9>>
  BY DEF Store!Apply, Store!Revert, Store!Busy, Store!store
<1>2. PICK place \in {"saved", "failed"} :
         /\ Store!Goto(w, place)
         /\ \/ r1[w] = "apply" /\ r3' = w /\ UNCHANGED <<r4, r8>>
            \/ /\ r1[w] = "revert" /\ UNCHANGED r3
               /\ \/ r4' = Store!NothingStaged /\ UNCHANGED r8
                  \/ r8' = TRUE /\ UNCHANGED r4
  BY <1>1 DEF Store!Apply, Store!Revert, Store!InForceAfter, Store!Reverted, Store!store
<1>3. /\ r1'[w] = place /\ \A v \in Size.store.requests : v # w => r1'[v] = r1[v]
      /\ Store!Busy' = Store!Busy \ {w}
  BY <1>1, <1>2, StoreMoves
<1>4. /\ Store!StoreTypeOK' /\ r4' \in [Store!Keys -> Size.store.requests \union {Store!NoValue}] /\ DOMAIN r5' = Store!Keys
  <2>1. r1' \in [Size.store.requests -> {"idle", "stage", "commit", "apply", "revert", "saved", "failed"}]
    BY <1>2 DEF Store!StoreInv, Store!StoreTypeOK, Store!Goto
  <2>2. r4' \in [Store!Keys -> Size.store.requests \union {Store!NoValue}]
    BY <1>2, StoreCommitted DEF Store!StoreInv
  <2>3. QED BY <1>1, <2>1, <2>2 DEF Store!StoreInv, Store!StoreTypeOK
<1>5. Store!OneAtWork' /\ Store!FileIsWhole' /\ \A v \in Size.store.requests : r1'[v] = "idle" => r2'[v] = 1
  BY <1>1, <1>2, <1>3 DEF Store!StoreInv, Store!OneAtWork, Store!FileIsWhole
<1>6. ASSUME Store!Untouched'
      PROVE  /\ \A v \in Size.store.requests : v # w => r1[v] \in {"idle", "saved", "failed"}
             /\ Store!Untouched /\ Store!StagedSoFar
  BY <1>1, <1>6, StoreAtWork DEF Store!StoreInv, Store!StagedSoFar, Store!Untouched
<1>7. ASSUME Store!Untouched' PROVE Store!StagedSoFar'
  BY <1>1, <1>2, <1>3, <1>6, <1>7 DEF Store!StagedSoFar
<1>8. ASSUME Store!Untouched', ~r9' PROVE \A k \in Store!Keys : r5'[k] = r3'
  <2>1. CASE r1[w] = "apply"
    BY <1>1, <1>2, <1>6, <1>8, <2>1 DEF Store!StagedSoFar
  <2>2. CASE r1[w] = "revert"
    BY <1>1, <1>2, <1>6, <1>8, <2>2 DEF Store!StoreInv
  <2>3. QED BY <1>1, <2>1, <2>2
<1>9. QED BY <1>4, <1>5, <1>7, <1>8 DEF Store!StoreInv

\* The service dies, or somebody commits at the console.
LEMMA StoreBreaks ==
  ASSUME Store!StoreBounds, Store!StoreInv, Store!Crash \/ Store!UserCommits
  PROVE  Store!StoreInv'
<1>1. CASE Store!Crash
  <2>1. /\ r1' = [w \in Size.store.requests |-> IF w \in Store!Busy THEN "failed" ELSE r1[w]]
        /\ r3' = IF \A k \in Store!Keys : r5[k] = r5[1] THEN r5[1] ELSE Store!NoValue
        /\ r8' = TRUE /\ UNCHANGED <<r2, r4, r5, r6, r7, r9>>
    BY <1>1 DEF Store!Crash, Store!store
  <2>2. \A w \in Size.store.requests : r1'[w] \in {"idle", "saved", "failed"} /\ (r1'[w] = "idle" => r1[w] = "idle")
    BY <2>1 DEF Store!Busy, Store!StoreInv, Store!StoreTypeOK
  <2>3. Store!Busy' = {}
    BY <2>2 DEF Store!Busy
  <2>4. Store!StoreTypeOK' /\ r4' \in [Store!Keys -> Size.store.requests \union {Store!NoValue}] /\ DOMAIN r5' = Store!Keys
    BY <2>1 DEF Store!StoreInv, Store!StoreTypeOK
  <2>5. Store!StagedSoFar' /\ Store!OneAtWork' /\ Store!FileIsWhole'
    BY <2>1, <2>2, <2>3 DEF Store!StagedSoFar, Store!OneAtWork, Store!FileIsWhole, Store!StoreInv
  <2>6. Store!Untouched' => \A k \in Store!Keys : r5'[k] = r3'
    BY <2>1 DEF Store!Untouched, Store!StoreInv, Store!FileIsWhole
  <2>7. QED BY <2>1, <2>2, <2>4, <2>5, <2>6 DEF Store!StoreInv
<1>2. CASE Store!UserCommits
  <2>1. /\ r4 # Store!NothingStaged /\ r5' = Store!Committed /\ r4' = Store!NothingStaged
        /\ r7' = (r7 \/ Store!Busy # {} \/ r8)
        /\ UNCHANGED <<r1, r2, r3, r6, r8, r9>>
    BY <1>2 DEF Store!UserCommits
  <2>2. ~Store!Untouched'
    BY <2>1 DEF Store!Untouched, Store!StoreInv, Store!StagedSoFar
  <2>3. Store!StoreTypeOK' /\ r4' \in [Store!Keys -> Size.store.requests \union {Store!NoValue}] /\ DOMAIN r5' = Store!Keys
    BY <2>1, StoreCommitted DEF Store!StoreInv, Store!StoreTypeOK
  <2>4. Store!OneAtWork'
    BY <2>1 DEF Store!StoreInv, Store!OneAtWork, Store!Busy
  <2>5. QED BY <2>1, <2>2, <2>3, <2>4 DEF Store!StoreInv, Store!FileIsWhole, Store!Untouched
<1>3. QED BY <1>1, <1>2

\* Every step keeps it.
LEMMA StoreKept == ASSUME Store!StoreBounds, Store!StoreInv, Store!StoreNext PROVE Store!StoreInv'
BY StoreAsk, StoreStage, StoreCommit, StoreEnds, StoreBreaks DEF Store!StoreNext

\* It speaks of nothing but the variables of the machine.
LEMMA StoreStutters ==
  ASSUME Store!StoreInv, UNCHANGED <<r1, r2, r3, r4, r5, r6, r7, r8, r9, r10>>
  PROVE  Store!StoreInv'
BY DEF Store!Busy, Store!StoreTypeOK, Store!FileIsWhole, Store!OneAtWork, Store!Untouched,
       Store!StagedSoFar, Store!StoreInv

\* What it says.
LEMMA StoreHolds ==
  ASSUME Store!StoreInv
  PROVE  Store!StoreTypeOK /\ Store!FileIsWhole /\ Store!SavedIsInForce
BY DEF Store!StoreInv, Store!SavedIsInForce, Store!Busy, Store!Untouched

-----------------------------------------------------------------------------
(* The terminal.                                                           *)

Term == INSTANCE Terminal WITH
    input <- r1, entries <- r2, nodes <- r3, history <- r4, histIdx <- r5,
    draft <- r6, dialogs <- r7, sending <- r8, onWay <- r9, allowed <- r10,
    sends <- r11, keys <- r12,
    Commands <- Size.term.commands, Dangerous <- Size.term.dangerous,
    MaxLines <- Size.term.lines, MaxSends <- Size.term.sends,
    MaxKeys <- Size.term.keys

\* The newest question, and what lies beneath it.
LEMMA TermOnTop ==
  ASSUME r7 \in Seq(Term!Questions), r7 # <<>>
  PROVE  Term!OnTop \in Term!Questions /\ Term!Beneath \in Seq(Term!Questions)
<1>1. Len(r7) \in Nat \ {0}
  BY EmptySeq, Zenon
<1>2. \A n \in 1..Len(r7) : r7[n] \in Term!Questions
  BY ElementOfSeq, Zenon
<1>3. /\ 1 \in Int /\ Len(r7) - 1 \in Int
      /\ \A n \in 1..(Len(r7) - 1) : r7[n] \in Term!Questions
  BY <1>1, <1>2
<1>4. Term!Beneath \in Seq(Term!Questions)
  BY <1>3, SubSeqProperties, Zenon DEF Term!Beneath
<1> QED BY <1>1, <1>2, <1>4 DEF Term!OnTop

\* The invariant holds at the start.
LEMMA TermBegins == ASSUME Term!TermBounds, Term!TermInit PROVE Term!TermInv
<1>1. <<>> \in Seq(Size.term.commands) /\ <<>> \in Seq(Term!Questions) /\ Len(<<>>) = 0
  BY EmptySeq, Zenon
<1>2. \A i \in 1..(0 - 1) : FALSE
  OBVIOUS
<1> QED BY <1>1, <1>2 DEF Term!TermInit, Term!TermInv, Term!HistoryIsShort

\* Sending asks, or puts the command on its way.
LEMMA TermSends ==
  ASSUME Term!TermInv, NEW c \in Size.term.commands, NEW rest \in Seq(Term!Questions),
         Term!SendIt(c, rest)
  PROVE  /\ r7' \in Seq(Term!Questions)
         /\ r9' = r9 \/ (~Term!Asks(c) /\ r9' = Append(r9, c))
<1>1. CASE r8
  BY <1>1 DEF Term!SendIt
<1>2. CASE ~r8 /\ Term!Asks(c)
  <2>1. <<"danger", c>> \in Term!Questions
    BY DEF Term!Questions
  <2>2. Append(rest, <<"danger", c>>) \in Seq(Term!Questions)
    BY <2>1, AppendProperties, Zenon
  <2> QED BY <1>2, <2>2 DEF Term!SendIt
<1>3. CASE ~r8 /\ ~Term!Asks(c)
  BY <1>3 DEF Term!SendIt, Term!DoSend
<1> QED BY <1>1, <1>2, <1>3

\* A confirmation is taken away, and what it asked about is sent or asked about again.
LEMMA TermConfirms ==
  ASSUME Term!TermInv, Term!Confirm
  PROVE  /\ r7' \in Seq(Term!Questions) /\ r10' \in [Size.term.commands -> Nat]
         /\ \/ r9' = r9
            \/ \E c \in Size.term.commands : /\ r9' = Append(r9, c)
                                             /\ Term!Asks(c) => r10'[c] = r10[c] + 1
<1> DEFINE kind == Term!OnTop[1]
           c == Term!OnTop[2]
<1>1. Term!OnTop \in Term!Questions /\ Term!Beneath \in Seq(Term!Questions)
  BY TermOnTop DEF Term!Confirm, Term!TermInv, Term!Questions
<1>2. c \in Size.term.commands
  BY <1>1 DEF Term!Questions
<1> HIDE DEF c
<1>3. CASE kind = "label"
  <2>1. Term!SendIt(c, Term!Beneath) /\ UNCHANGED r10
    BY <1>3 DEF Term!Confirm, c
  <2>2. /\ r7' \in Seq(Term!Questions)
        /\ r9' = r9 \/ (~Term!Asks(c) /\ r9' = Append(r9, c))
    BY <1>1, <1>2, <2>1, TermSends
  <2> QED BY <1>2, <2>1, <2>2 DEF Term!TermInv
<1>4. CASE kind # "label"
  <2>1. /\ r7' = Term!Beneath /\ r9' = Append(r9, c)
        /\ r10' = [r10 EXCEPT ![c] = @ + 1]
    BY <1>4 DEF Term!Confirm, Term!DoSend, c
  <2>2. r10' \in [Size.term.commands -> Nat] /\ r10'[c] = r10[c] + 1
    BY <1>2, <2>1 DEF Term!TermInv
  <2> QED BY <1>1, <1>2, <2>1, <2>2
<1> QED BY <1>3, <1>4

\* Where a step leaves the list of commands under way, and what is asked.
LEMMA TermAsks ==
  ASSUME Term!TermBounds, Term!TermInv, Term!TermNext
  PROVE  /\ r7' \in Seq(Term!Questions) /\ r10' \in [Size.term.commands -> Nat]
         /\ \/ r9' = r9
            \/ r9 # <<>> /\ r9' = Tail(r9)
            \/ \E c \in Size.term.commands : /\ r9' = Append(r9, c)
                                             /\ Term!Asks(c) => r10'[c] = r10[c] + 1
<1>0. r7 \in Seq(Term!Questions) /\ r10 \in [Size.term.commands -> Nat]
  BY DEF Term!TermInv, Term!Questions
<1>1. ASSUME NEW c \in Size.term.commands,
             Term!Shortcut(c) PROVE r7' \in Seq(Term!Questions) /\ UNCHANGED <<r9, r10>>
  <2>1. <<"label", c>> \in Term!Questions
    BY DEF Term!Questions
  <2>2. Append(r7, <<"label", c>>) \in Seq(Term!Questions)
    BY <1>0, <2>1, AppendProperties, Zenon
  <2> QED BY <1>1, <2>2 DEF Term!Shortcut
<1>2. ASSUME Term!Send
      PROVE  /\ r7' \in Seq(Term!Questions) /\ UNCHANGED r10
             /\ r9' = r9 \/ \E c \in Size.term.commands : ~Term!Asks(c) /\ r9' = Append(r9, c)
  <2>1. r1 \in Size.term.commands /\ Term!SendIt(r1, r7) /\ UNCHANGED r10
    BY <1>2 DEF Term!Send, Term!TermInv
  <2> QED BY <1>0, <2>1, TermSends
<1>3. ASSUME Term!Cancel PROVE r7' \in Seq(Term!Questions) /\ UNCHANGED <<r9, r10>>
  <2>1. r7 # <<>> /\ r7' = Term!Beneath /\ UNCHANGED <<r9, r10>>
    BY <1>3 DEF Term!Cancel
  <2> QED BY <1>0, <2>1, TermOnTop
<1>4. ASSUME Term!Up \/ Term!Down \/ Term!Clear
               \/ \E c \in Size.term.commands : Term!Type(c) PROVE UNCHANGED <<r7, r9, r10>>
  BY <1>4 DEF Term!Up, Term!Down, Term!Clear, Term!Type
<1>5. ASSUME Term!Answered PROVE UNCHANGED <<r7, r10>> /\ r9 # <<>> /\ r9' = Tail(r9)
  BY <1>5 DEF Term!Answered
<1> QED BY <1>0, <1>1, <1>2, <1>3, <1>4, <1>5, TermConfirms DEF Term!TermNext

\* What is under way are commands.
LEMMA TermOnWay ==
  ASSUME Term!TermBounds, Term!TermInv, Term!TermNext
  PROVE  r9' \in Seq(Size.term.commands)
<1>0. r9 \in Seq(Size.term.commands)
  BY DEF Term!TermInv
<1>1. r9 # <<>> => Tail(r9) \in Seq(Size.term.commands)
  BY <1>0, HeadTailProperties, Zenon
<1>2. \A c \in Size.term.commands : Append(r9, c) \in Seq(Size.term.commands)
  BY <1>0, AppendProperties, Zenon
<1> QED BY <1>0, <1>1, <1>2, TermAsks

\* What is typed, noted and walked through.
LEMMA TermWalks ==
  ASSUME Term!TermBounds, Term!TermInv, Term!TermNext
  PROVE  /\ r1' \in Size.term.commands \union {Term!Empty} /\ r6' \in Size.term.commands \union {Term!Empty}
         /\ r4' \in Seq(Size.term.commands) /\ r5' \in 0..Len(r4')
<1>0. /\ r4 \in Seq(Size.term.commands) /\ Len(r4) \in Nat /\ r5 \in 0..Len(r4)
      /\ r1 \in Size.term.commands \union {Term!Empty} /\ r6 \in Size.term.commands \union {Term!Empty}
      /\ \A n \in 1..Len(r4) : r4[n] \in Size.term.commands
  BY LenProperties, ElementOfSeq, Zenon DEF Term!TermInv
<1>1. ASSUME NEW c \in Size.term.commands, Term!Type(c) \/ Term!Shortcut(c)
      PROVE  r1' \in Size.term.commands \union {Term!Empty} /\ UNCHANGED <<r6, r4, r5>>
  BY <1>0, <1>1 DEF Term!Type, Term!Shortcut
<1>2. ASSUME Term!Send \/ Term!Confirm \/ Term!Cancel
               \/ Term!Clear PROVE UNCHANGED <<r1, r6, r4, r5>>
  BY <1>2 DEF Term!Send, Term!Confirm, Term!Cancel, Term!Clear
<1>3. ASSUME Term!Up
      PROVE  /\ UNCHANGED r4 /\ r6' \in Size.term.commands \union {Term!Empty}
             /\ r5' \in 1..Len(r4) /\ r1' \in Size.term.commands
  <2>1. Len(r4) # 0
    BY <1>0, <1>3, EmptySeq, Zenon DEF Term!Up
  <2>2. /\ r5' = CASE r5 = 0 -> Len(r4) [] r5 = 1 -> 1 [] OTHER -> r5 - 1
        /\ UNCHANGED r4 /\ r1' = r4[r5'] /\ r6' \in {r1, r6}
    BY <1>3 DEF Term!Up
  <2>3. r5' \in 1..Len(r4)
    BY <1>0, <2>1, <2>2
  <2> QED BY <1>0, <2>2, <2>3
<1>4. ASSUME Term!Down
      PROVE  /\ UNCHANGED r4 /\ r6' \in Size.term.commands \union {Term!Empty}
             /\ r5' \in 0..Len(r4) /\ r1' \in Size.term.commands \union {Term!Empty}
  <2>1. r6' \in {r1, r6} /\ UNCHANGED r4
    BY <1>4 DEF Term!Down, Term!NotesDraft
  <2>2. \/ r5 < Len(r4) /\ r5' = r5 + 1 /\ r1' = r4[r5 + 1]
        \/ r5' = 0 /\ r1' = r6'
    BY <1>4 DEF Term!Down
  <2> QED BY <1>0, <2>1, <2>2
<1>5. ASSUME Term!Answered
      PROVE  UNCHANGED r6 /\ r1' = Term!Empty /\ r5' = 0 /\ r4' \in Seq(Size.term.commands)
  <2>1. Head(r9) \in Size.term.commands
    BY <1>5, HeadTailProperties, Zenon DEF Term!Answered, Term!TermInv
  <2>2. Append(r4, Head(r9)) \in Seq(Size.term.commands)
    BY <1>0, <2>1, AppendProperties, Zenon
  <2>3. r4' = r4 \/ r4' = Append(r4, Head(r9))
    BY <1>5 DEF Term!Answered, Term!Noted
  <2>4. UNCHANGED r6 /\ r1' = Term!Empty /\ r5' = 0
    BY <1>5 DEF Term!Answered
  <2> QED BY <1>0, <2>2, <2>3, <2>4
<1>6. r4' \in Seq(Size.term.commands) => Len(r4') \in Nat
  BY LenProperties, Zenon
<1> QED BY <1>0, <1>1, <1>2, <1>3, <1>4, <1>5, <1>6 DEF Term!TermNext

\* A command that is noted is not the one that was noted last.
LEMMA TermNotes == ASSUME Term!TermInv, Term!TermNext PROVE Term!HistoryIsShort'
<1>0. /\ r4 \in Seq(Size.term.commands) /\ Len(r4) \in Nat
      /\ \A i \in 1..(Len(r4) - 1) : r4[i] # r4[i + 1]
  BY LenProperties DEF Term!TermInv, Term!HistoryIsShort
<1>1. ASSUME r4' = r4 PROVE Term!HistoryIsShort'
  BY <1>0, <1>1 DEF Term!HistoryIsShort
<1>2. ASSUME Term!Answered PROVE Term!HistoryIsShort'
  <2>1. PICK c \in Size.term.commands : r4' = Term!Noted(c)
    <3>1. Head(r9) \in Size.term.commands
      BY <1>2, HeadTailProperties, Zenon DEF Term!Answered, Term!TermInv
    <3> QED BY <1>2, <3>1 DEF Term!Answered
  <2>2. CASE r4' = Append(r4, c) /\ (r4 = <<>> \/ r4[Len(r4)] # c)
    <3>1. /\ Len(r4') = Len(r4) + 1 /\ r4'[Len(r4) + 1] = c
          /\ \A i \in 1..Len(r4) : r4'[i] = r4[i]
      BY <1>0, <2>2
    <3>2. r4 = <<>> => Len(r4) = 0
      OBVIOUS
    <3>3. ASSUME NEW i \in 1..(Len(r4') - 1) PROVE r4'[i] # r4'[i + 1]
      <4>1. CASE i = Len(r4)
        BY <1>0, <2>2, <3>1, <3>2, <4>1
      <4>2. CASE i # Len(r4)
        <5>1. i \in 1..(Len(r4) - 1) /\ i \in 1..Len(r4) /\ i + 1 \in 1..Len(r4)
          BY <1>0, <3>1, <4>2
        <5> QED BY <1>0, <3>1, <5>1
      <4> QED BY <4>1, <4>2
    <3> QED BY <3>3 DEF Term!HistoryIsShort
  <2> QED BY <1>1, <2>1, <2>2 DEF Term!Noted
<1> QED BY <1>1, <1>2 DEF Term!TermNext, Term!Type, Term!Up, Term!Down, Term!Shortcut, Term!Send,
                          Term!Confirm, Term!Cancel, Term!Clear

\* Every step keeps it.
LEMMA TermKept == ASSUME Term!TermBounds, Term!TermInv, Term!TermNext PROVE Term!TermInv'
BY TermAsks, TermOnWay, TermWalks, TermNotes DEF Term!TermInv, Term!Questions

\* It speaks of nothing but the variables of the machine.
LEMMA TermStutters ==
  ASSUME Term!TermInv,
         UNCHANGED <<r1, r2, r3, r4, r5, r6, r7, r8, r9, r10, r11, r12>>
  PROVE  Term!TermInv'
BY DEF Term!TermInv, Term!HistoryIsShort

\* What it says.
LEMMA TermHolds == ASSUME Term!TermInv PROVE Term!HistoryIsShort
BY DEF Term!TermInv

\* A dangerous command is sent after a confirmation of its own.
LEMMA TermConfirmed ==
  ASSUME Term!TermBounds, Term!TermInv, Term!TermNext
  PROVE  Term!DangerIsConfirmed
<1>1. SUFFICES ASSUME NEW d \in Size.term.dangerous, Len(r9') > Len(r9), r9'[Len(r9')] = d
               PROVE  r10'[d] = r10[d] + 1
  BY DEF Term!DangerIsConfirmed
<1>2. r9 \in Seq(Size.term.commands) /\ Len(r9) \in Nat
  BY LenProperties, Zenon DEF Term!TermInv
<1>3. r9' # r9
  <2>1. ~(Len(r9) > Len(r9))
    BY <1>2
  <2> QED BY <1>1, <2>1, Zenon
<1>4. ASSUME r9 # <<>> PROVE r9' # Tail(r9)
  <2>1. Len(Tail(r9)) = Len(r9) - 1
    BY <1>2, <1>4, HeadTailProperties, Zenon
  <2>2. ~(Len(Tail(r9)) > Len(r9))
    BY <1>2, <2>1
  <2> QED BY <1>1, <2>2, Zenon
<1>5. PICK c \in Size.term.commands : r9' = Append(r9, c) /\ (Term!Asks(c) => r10'[c] = r10[c] + 1)
  BY <1>3, <1>4, TermAsks, Zenon
<1>6. c = d
  <2>1. Len(Append(r9, c)) = Len(r9) + 1 /\ Append(r9, c)[Len(r9) + 1] = c
    BY <1>2, AppendProperties, Zenon
  <2>2. Len(r9') = Len(r9) + 1 /\ r9'[Len(r9) + 1] = c
    BY <1>5, <2>1, Zenon
  <2> QED BY <1>1, <2>2, Zenon
<1> QED BY <1>5, <1>6 DEF Term!Asks

\* The way down from the history ends at the draft.
LEMMA TermReturns == ASSUME Term!TermBounds, Term!TermInv, Term!TermNext PROVE Term!DraftReturns
<1> SUFFICES ASSUME r5 # 0, r5' = 0, r9' = r9
             PROVE  r1' = r6 /\ r6' = r6
  BY DEF Term!DraftReturns
<1>0. Len(r4) \in Nat /\ r5 \in 1..Len(r4)
  <2>1. Len(r4) \in Nat /\ r5 \in 0..Len(r4)
    BY LenProperties, Zenon DEF Term!TermInv
  <2> QED BY <2>1
<1>1. ASSUME Term!Up PROVE FALSE
  <2>1. r5' = CASE r5 = 0 -> Len(r4) [] r5 = 1 -> 1 [] OTHER -> r5 - 1
    BY <1>1 DEF Term!Up
  <2>2. r5 \in Nat /\ r5 # 0
    BY <1>0
  <2>3. CASE r5 = 1
    BY <2>1, <2>3
  <2>4. CASE r5 # 1
    <3>1. r5' = r5 - 1
      BY <2>1, <2>2, <2>4
    <3> QED BY <2>2, <2>4, <3>1
  <2> QED BY <2>3, <2>4
<1>2. ~Term!Answered
  <2> SUFFICES ASSUME Term!Answered PROVE FALSE
    OBVIOUS
  <2>1. r9 \in Seq(Size.term.commands) /\ r9 # <<>> /\ r9' = Tail(r9)
    BY DEF Term!Answered, Term!TermInv
  <2>2. Len(Tail(r9)) = Len(r9) - 1 /\ Len(r9) \in Nat
    BY <2>1, HeadTailProperties, LenProperties, Zenon
  <2> QED BY <2>1, <2>2
<1>3. Term!Down
  BY <1>1, <1>2 DEF Term!TermNext, Term!Type, Term!Shortcut, Term!Send, Term!Confirm, Term!Cancel,
                    Term!Clear
<1> QED BY <1>0, <1>3 DEF Term!Down, Term!NotesDraft

-----------------------------------------------------------------------------
(* The diagnosis.                                                          *)

Diag == INSTANCE Diagnosis WITH
    busy <- r1, ran <- r2, factsErr <- r3, atSteps <- r4, items <- r5,
    modAddr <- r6, layer <- r7, next <- r8, facts <- r9, disposed <- r10,
    chains <- r11, address <- r12, leased <- r13, answers <- r14,
    runs <- r15, failures <- r16,
    AtChecks <- Size.diag.commands, SysChecks <- Size.diag.checks,
    Addresses <- Size.diag.addresses, Runs <- Size.diag.runs,
    MaxFail <- Size.diag.failed

\* At the start no check has been done.
LEMMA DiagChainBegins == ASSUME Diag!DiagBounds, Diag!DiagInit PROVE Diag!ChainInv
<1>1. Len(Size.diag.commands) \in Nat
  BY LenProperties, Zenon DEF Diag!DiagBounds
<1>2. r8 = 0 /\ DOMAIN r4 = {} /\ DOMAIN r9 = {}
  BY DEF Diag!DiagInit, Diag!Nothing
<1> QED BY <1>1, <1>2 DEF Diag!ChainInv

\* What has been asked is of the two lists.
LEMMA DiagOfLists ==
  ASSUME Diag!DiagBounds, Diag!ChainInv, Diag!DiagNext
  PROVE  /\ DOMAIN r4' \subseteq Diag!Range(Size.diag.commands)
         /\ DOMAIN r9' \subseteq Diag!Range(Size.diag.checks)
<1>1. /\ DOMAIN r4 \subseteq Diag!Range(Size.diag.commands)
      /\ DOMAIN r9 \subseteq Diag!Range(Size.diag.checks)
  BY DEF Diag!ChainInv
<1>2. CASE Diag!Start
  <2>1. DOMAIN r4' = {} /\ DOMAIN r9' = {}
    BY <1>2 DEF Diag!Start, Diag!Nothing
  <2> QED BY <2>1
<1>3. ASSUME NEW r \in Diag!Readings, Diag!Step(r)
      PROVE  DOMAIN r4' \subseteq Diag!Range(Size.diag.commands) /\ UNCHANGED r9
  <2>1. /\ r8 \in 1..Len(Size.diag.commands) /\ UNCHANGED r9
        /\ DOMAIN r4' = DOMAIN r4 \union {Size.diag.commands[r8]}
    BY <1>3 DEF Diag!Step
  <2>2. DOMAIN Size.diag.commands = 1..Len(Size.diag.commands)
    BY LenProperties, Zenon DEF Diag!DiagBounds
  <2>3. Size.diag.commands[r8] \in Diag!Range(Size.diag.commands)
    BY <2>1, <2>2 DEF Diag!Range
  <2> QED BY <1>1, <2>1, <2>3
<1>4. ASSUME NEW f \in [Diag!Range(Size.diag.checks) -> Diag!Readings], Diag!Facts(f)
      PROVE  UNCHANGED r4 /\ DOMAIN r9' = Diag!Range(Size.diag.checks)
  <2>1. r9' = f /\ UNCHANGED r4
    BY <1>4 DEF Diag!Facts
  <2> QED BY <2>1
<1>5. ASSUME Diag!NoFacts PROVE UNCHANGED r4 /\ DOMAIN r9' = Diag!Range(Size.diag.checks)
  <2>1. r9' = [c \in Diag!Range(Size.diag.checks) |-> "none"] /\ UNCHANGED r4
    BY <1>5 DEF Diag!NoFacts
  <2> QED BY <2>1
<1>6. ASSUME Diag!Skip \/ Diag!Rejected \/ Diag!Verdicts \/ Diag!Leave
               \/ Diag!Renew PROVE UNCHANGED <<r4, r9>>
  BY <1>6 DEF Diag!Skip, Diag!Rejected, Diag!Verdicts, Diag!Leave, Diag!Renew
<1>7. ASSUME NEW a \in Size.diag.addresses, Diag!NewAddress(a) PROVE UNCHANGED <<r4, r9>>
  BY <1>7 DEF Diag!NewAddress
<1> QED BY <1>1, <1>2, <1>3, <1>4, <1>5, <1>6, <1>7 DEF Diag!DiagNext, Diag!DiagMoves

\* Every step keeps the numbers of the checks.
LEMMA DiagChainKept == ASSUME Diag!DiagBounds, Diag!ChainInv, Diag!DiagNext PROVE Diag!ChainInv'
<1>0. /\ DOMAIN r4' \subseteq Diag!Range(Size.diag.commands)
      /\ DOMAIN r9' \subseteq Diag!Range(Size.diag.checks)
  BY DiagOfLists
<1>1. Len(Size.diag.commands) \in Nat
  BY LenProperties, Zenon DEF Diag!DiagBounds
<1>2. ASSUME Diag!Start PROVE Diag!ChainInv'
  <2>1. r8' = 1 /\ r1' /\ r5' = Diag!Nothing /\ r6' = "none"
    BY <1>2 DEF Diag!Start, Diag!AddrAtStart
  <2>2. DOMAIN r5' = {}
    BY <2>1 DEF Diag!Nothing
  <2> QED BY <1>0, <1>1, <2>1, <2>2 DEF Diag!ChainInv
<1>3. ASSUME NEW r \in Diag!Readings, Diag!Step(r) PROVE Diag!ChainInv'
  <2>1. r8 \in 1..Len(Size.diag.commands) /\ r8' = r8 + 1
    BY <1>3 DEF Diag!Step
  <2>2. UNCHANGED <<r1, r5, r13>> /\ r6' \in {r6, r13}
    BY <1>3 DEF Diag!Step
  <2> QED BY <1>0, <1>1, <2>1, <2>2 DEF Diag!ChainInv
<1>4. ASSUME NEW f, Diag!Facts(f) \/ Diag!Skip \/ Diag!NoFacts PROVE Diag!ChainInv'
  <2>1. r8 \in 1..(Len(Size.diag.commands) + 1) /\ r8' = r8 + 1
    BY <1>1, <1>4 DEF Diag!Facts, Diag!Skip, Diag!NoFacts
  <2>2. UNCHANGED <<r1, r5, r13, r6>>
    BY <1>4 DEF Diag!Facts, Diag!Skip, Diag!NoFacts
  <2> QED BY <1>0, <1>1, <2>1, <2>2 DEF Diag!ChainInv
<1>5. ASSUME Diag!Rejected \/ Diag!Verdicts PROVE Diag!ChainInv'
  <2>1. r8' = 0
    BY <1>5 DEF Diag!Rejected, Diag!Verdicts
  <2> QED BY <1>0, <1>1, <2>1 DEF Diag!ChainInv
<1>6. ASSUME Diag!Leave PROVE Diag!ChainInv'
  BY <1>0, <1>1, <1>6 DEF Diag!Leave, Diag!ChainInv
<1>7. ASSUME NEW a \in Size.diag.addresses, Diag!NewAddress(a) \/ Diag!Renew PROVE Diag!ChainInv'
  <2>1. r8 = 0 /\ r8' = 0
    BY <1>7 DEF Diag!NewAddress, Diag!Renew
  <2> QED BY <1>0, <1>1, <2>1 DEF Diag!ChainInv
<1>8. ASSUME Diag!Renew PROVE Diag!ChainInv'
  <2>1. r8 = 0 /\ r8' = 0
    BY <1>8 DEF Diag!Renew
  <2> QED BY <1>0, <1>1, <2>1 DEF Diag!ChainInv
<1> QED BY <1>2, <1>3, <1>4, <1>5, <1>6, <1>7, <1>8 DEF Diag!DiagNext, Diag!DiagMoves

\* The numbers speak of nothing but the variables of the machine.
LEMMA DiagChainStutters ==
  ASSUME Diag!ChainInv,
         UNCHANGED <<r1, r2, r3, r4, r5, r6, r7, r8, r9, r10, r11, r12, r13, r14, r15, r16>>
  PROVE  Diag!ChainInv'
BY DEF Diag!ChainInv

\* The lease is judged by addresses of this run.
LEMMA DiagJudges == ASSUME Diag!DiagBounds, Diag!DiagInv, Diag!DiagNext PROVE Diag!LeaseJudgedFairly
<1>0. Len(Size.diag.commands) \in Nat
  BY LenProperties, Zenon DEF Diag!DiagBounds
<1> SUFFICES ASSUME r8 = Len(Size.diag.commands) + 2, "address" \in DOMAIN r5'
             PROVE  /\ r5'["address"] = "bad" => r12 # r13
                    /\ r5'["address"] = "ok" => r12 = r13
  BY DEF Diag!LeaseJudgedFairly
<1>1. r8 # 0 /\ DOMAIN r5 = {} /\ r6 \in {"none", r13}
  BY <1>0 DEF Diag!DiagInv, Diag!ChainInv
<1>2. ASSUME r5' = r5 PROVE FALSE
  BY <1>1, <1>2
<1>3. Diag!Verdicts
  BY <1>0, <1>1, <1>2 DEF Diag!DiagNext, Diag!DiagMoves, Diag!Start, Diag!Leave, Diag!Renew,
                          Diag!NewAddress, Diag!Step, Diag!Skip, Diag!NoFacts,
      Diag!Rejected, Diag!Facts, Diag!DiagInv, Diag!ChainInv
<1>4. r5'["address"] = Diag!Verdict("address")
  <2>1. r5' = [c \in DOMAIN r9 |-> Diag!Verdict(c)]
    BY <1>3 DEF Diag!Verdicts
  <2> QED BY <2>1
<1>5. \E ours : ours \in {"none", r12} /\ Diag!Verdict("address") = Diag!AddressLevel(ours, r6)
  BY DEF Diag!Verdict
<1>6. ASSUME NEW ours \in {"none", r12}
      PROVE  /\ Diag!AddressLevel(ours, r6) = "bad" => r12 # r13
             /\ Diag!AddressLevel(ours, r6) = "ok" => r12 = r13
  BY <1>1 DEF Diag!AddressLevel
<1> QED BY <1>4, <1>5, <1>6

\* If there are problems, one of them comes first.
LEMMA DiagFirst ==
  ASSUME Diag!DiagBounds, NEW levels, NEW order \in Seq(STRING), Diag!Problems(levels, order) # {}
  PROVE  /\ order[Diag!First(Diag!Problems(levels, order))] \in DOMAIN levels
         /\ levels[order[Diag!First(Diag!Problems(levels, order))]] \in {"bad", "warn"}
<1> DEFINE places == Diag!Problems(levels, order)
<1>1. places \in SUBSET Nat
  <2>1. DOMAIN order = 1..Len(order) /\ Len(order) \in Nat
    BY LenProperties, Zenon
  <2> QED BY <2>1 DEF Diag!Problems
<1>2. places # {}
  OBVIOUS
<1>3. \E n \in places : \A m \in places : n <= m
  <2> HIDE DEF places
  <2> QED BY <1>1, <1>2, LeastNumber
<1>4. Diag!First(places) \in places
  BY <1>3 DEF Diag!First
<1> QED BY <1>4 DEF Diag!Problems

\* The layer that is shown has a problem.
LEMMA DiagShows == ASSUME Diag!DiagBounds, Diag!DiagInv, Diag!DiagNext PROVE Diag!ProblemInView
<1> DEFINE modems == Diag!Problems(r4, Size.diag.commands)
           routers == Diag!Problems(r5', Size.diag.checks)
           bad == {c \in DOMAIN r4 : r4[c] \in {"bad", "warn"}}
                     \union {c \in DOMAIN r5' : r5'[c] \in {"bad", "warn"}}
<1> SUFFICES ASSUME r1, ~r1', DOMAIN r5' # {}, bad # {}
             PROVE  \E c \in bad : Diag!Layer(c) = r7'
  BY DEF Diag!ProblemInView
<1>1. Len(Size.diag.commands) \in Nat
  BY LenProperties, Zenon DEF Diag!DiagBounds
<1>2. Diag!Rejected \/ Diag!Verdicts
  BY DEF Diag!DiagNext, Diag!DiagMoves, Diag!Start, Diag!Leave, Diag!Renew, Diag!NewAddress,
         Diag!Step, Diag!Skip, Diag!NoFacts, Diag!Facts
<1>3. ~Diag!Rejected
  BY <1>1 DEF Diag!Rejected, Diag!DiagInv, Diag!ChainInv
<1>4. DOMAIN r5' = DOMAIN r9 /\ r7' = Diag!FirstLayer(modems, routers)
  <2>1. /\ r5' = [c \in DOMAIN r9 |-> Diag!Verdict(c)]
        /\ r7' = Diag!FirstLayer(Diag!Problems(r4, Size.diag.commands), Diag!Problems(r5', Size.diag.checks))
    BY <1>2, <1>3 DEF Diag!Verdicts
  <2>2. DOMAIN r5' = DOMAIN r9
    BY <2>1
  <2> QED BY <2>1, <2>2
<1>5. modems # {} \/ routers # {}
  <2>1. PICK c \in bad : TRUE
    OBVIOUS
  <2>2. CASE c \in DOMAIN r4 /\ r4[c] \in {"bad", "warn"}
    <3>1. PICK n \in DOMAIN Size.diag.commands : Size.diag.commands[n] = c
      BY <2>2 DEF Diag!DiagInv, Diag!ChainInv, Diag!Range
    <3>2. n \in modems
      BY <2>2, <3>1 DEF Diag!Problems
    <3> QED BY <3>2
  <2>3. CASE c \in DOMAIN r5' /\ r5'[c] \in {"bad", "warn"}
    <3>1. PICK n \in DOMAIN Size.diag.checks : Size.diag.checks[n] = c
      BY <1>4, <2>3 DEF Diag!DiagInv, Diag!ChainInv, Diag!Range
    <3>2. n \in routers
      BY <2>3, <3>1 DEF Diag!Problems
    <3> QED BY <3>2
  <2> QED BY <2>1, <2>2, <2>3
<1>6. CASE modems # {}
  <2>1. Size.diag.commands[Diag!First(modems)] \in bad
    BY <1>6, DiagFirst DEF Diag!DiagBounds
  <2>2. r7' = Diag!Layer(Size.diag.commands[Diag!First(modems)])
    BY <1>4, <1>6 DEF Diag!FirstLayer
  <2> QED BY <2>1, <2>2
<1>7. CASE modems = {} /\ routers # {}
  <2>1. Size.diag.checks[Diag!First(routers)] \in bad
    BY <1>7, DiagFirst DEF Diag!DiagBounds
  <2>2. r7' = Diag!Layer(Size.diag.checks[Diag!First(routers)])
    BY <1>4, <1>7 DEF Diag!FirstLayer
  <2> QED BY <2>1, <2>2
<1> QED BY <1>5, <1>6, <1>7

\* Every step keeps the verdict on the gateway one that its facts bear out.
LEMMA DiagFactsKept ==
  ASSUME Diag!DiagBounds, Diag!ChainInv, Diag!FactsInv, Diag!DiagNext
  PROVE  Diag!FactsInv'
<1>1. Len(Size.diag.commands) \in Nat
  BY LenProperties, Zenon DEF Diag!DiagBounds
<1>2. CASE Diag!Start
  <2>1. DOMAIN r9' = {} /\ DOMAIN r5' = {}
    BY <1>2 DEF Diag!Start, Diag!Nothing
  <2> QED BY <2>1 DEF Diag!FactsInv, Diag!GatewayNotBlamed
<1>3. CASE Diag!NoFacts \/ \E f \in [Diag!Range(Size.diag.checks) -> Diag!Readings] : Diag!Facts(f)
  <2>1. r9' \in [Diag!Range(Size.diag.checks) -> Diag!Readings]
    BY <1>3 DEF Diag!NoFacts, Diag!Facts, Diag!Readings
  <2>2. DOMAIN r5' = {}
    BY <1>1, <1>3 DEF Diag!NoFacts, Diag!Facts, Diag!ChainInv
  <2> QED BY <2>1, <2>2 DEF Diag!FactsInv, Diag!GatewayNotBlamed
<1>4. CASE Diag!Verdicts
  <2>1. r9' = r9 /\ r5' = [c \in DOMAIN r9 |-> Diag!Verdict(c)]
    BY <1>4 DEF Diag!Verdicts
  <2>2. ASSUME "ping_gateway" \in DOMAIN r5', r5'["ping_gateway"] = "bad",
               NEW c \in DOMAIN r9 \intersect {"ping_public", "https"}, r9[c] = "fine"
        PROVE  FALSE
    <3>1. "ping_gateway" \in DOMAIN r9 /\ Diag!Verdict("ping_gateway") = "bad"
      BY <2>1, <2>2
    <3>2. r9["ping_gateway"] \in Diag!Readings
      BY <3>1 DEF Diag!FactsInv
    <3>3. Diag!GatewayLevel(r9["ping_gateway"], TRUE) = "bad"
      BY <2>2, <3>1 DEF Diag!Verdict
    <3> QED BY <3>2, <3>3 DEF Diag!GatewayLevel, Diag!PageLevel, Diag!Readings
  <2>3. Diag!GatewayNotBlamed'
    BY <2>1, <2>2 DEF Diag!GatewayNotBlamed
  <2> QED BY <2>1, <2>3 DEF Diag!FactsInv
<1>5. ASSUME UNCHANGED <<r9, r5>> PROVE Diag!FactsInv'
  BY <1>5 DEF Diag!FactsInv, Diag!GatewayNotBlamed
<1>6. ASSUME NEW r \in Diag!Readings, Diag!Step(r) PROVE UNCHANGED <<r9, r5>>
  BY <1>6 DEF Diag!Step
<1>7. ASSUME NEW a \in Size.diag.addresses, Diag!NewAddress(a) PROVE UNCHANGED <<r9, r5>>
  BY <1>7 DEF Diag!NewAddress
<1>8. ASSUME Diag!Skip \/ Diag!Rejected \/ Diag!Leave \/ Diag!Renew PROVE UNCHANGED <<r9, r5>>
  BY <1>8 DEF Diag!Skip, Diag!Rejected, Diag!Leave, Diag!Renew
<1> QED BY <1>2, <1>3, <1>4, <1>5, <1>6, <1>7, <1>8 DEF Diag!DiagNext, Diag!DiagMoves

\* The invariant holds at the start.
LEMMA DiagBegins == ASSUME Diag!DiagBounds, Diag!DiagInit PROVE Diag!DiagInv
<1>1. Diag!FactsInv
  BY DEF Diag!DiagInit, Diag!Nothing, Diag!FactsInv, Diag!GatewayNotBlamed
<1> QED BY <1>1, DiagChainBegins DEF Diag!DiagInv

\* Every step keeps it.
LEMMA DiagKept == ASSUME Diag!DiagBounds, Diag!DiagInv, Diag!DiagNext PROVE Diag!DiagInv'
BY DiagChainKept, DiagFactsKept DEF Diag!DiagInv

\* It speaks of nothing but the variables of the machine.
LEMMA DiagStutters ==
  ASSUME Diag!DiagInv,
         UNCHANGED <<r1, r2, r3, r4, r5, r6, r7, r8, r9, r10, r11, r12,
                     r13, r14, r15, r16>>
  PROVE  Diag!DiagInv'
<1>1. Diag!FactsInv'
  BY DEF Diag!DiagInv, Diag!FactsInv, Diag!GatewayNotBlamed
<1> QED BY <1>1, DiagChainStutters DEF Diag!DiagInv

\* What it says.
LEMMA DiagHolds == ASSUME Diag!DiagInv PROVE Diag!GatewayNotBlamed
BY DEF Diag!DiagInv, Diag!FactsInv

-----------------------------------------------------------------------------
(* The wizard that adds a profile.                                         *)

Wizard == INSTANCE AddWizard WITH
    wizard <- r1, open <- r2, mode <- r3, inputs <- r4, code <- r5,
    hand <- r6, ccBox <- r7, cc <- r8, started <- r9, paste <- r10,
    asked <- r11, stream <- r12, on <- r13, timers <- r14, scanTimer <- r15,
    frames <- r16, pictures <- r17, dialog <- r18, busy <- r19, gone <- r20,
    downloaded <- r21, late <- r22, clicks <- r23, looks <- r24,
    Wizards <- Size.wizard.wizards, Clicks <- Size.wizard.clicks,
    Looks <- Size.wizard.looks

\* The invariant holds at the start.
LEMMA WizardBegins == ASSUME Wizard!WizardBounds, Wizard!WizardInit PROVE Wizard!WizardInv
BY DEF Wizard!WizardBounds, Wizard!WizardInit, Wizard!WizardInv, Wizard!AskedByScan,
       Wizard!CameraKnown, Wizard!RequiredHasCc, Wizard!None, Wizard!Empty

\* What stops the wizard in view turns off the camera that is known.
LEMMA WizardStops ==
  ASSUME Wizard!WizardInv, Wizard!Stop
  PROVE  /\ r22 = {} => r13' = {}
         /\ r12' \in [1..Size.wizard.wizards -> Nat]
BY DEF Wizard!WizardInv, Wizard!CameraKnown, Wizard!Stop, Wizard!Stops, Wizard!Forget

\* New inputs: none of those before has their number.
LEMMA WizardPaints ==
  ASSUME Wizard!WizardInv, NEW m \in Wizard!Modes, NEW w \in Nat, w = r1' \/ m # "scan",
         Wizard!Paint(w, m)
  PROVE  Wizard!AskedByScan' /\ r4' \in Nat /\ r11' \subseteq Nat \X Nat
<1>1. r4' = r4 + 1 /\ r3' = m /\ r4 \in Nat
      /\ r11' = IF m = "scan" THEN r11 \union {<<w, r4'>>} ELSE r11
  BY DEF Wizard!Paint, Wizard!WizardInv
<1>2. \A s \in r11 : s[2] <= r4 /\ s \in Nat \X Nat
  BY DEF Wizard!WizardInv, Wizard!AskedByScan
<1>3. r11' \subseteq Nat \X Nat /\ \A s \in r11' : s[2] <= r4'
  BY <1>1, <1>2
<1>4. <<r1', r4'>> \in r11 => <<r1', r4'>>[2] <= r4
  BY <1>2
<1>5. <<r1', r4'>> \in r11' => r3' = "scan"
  BY <1>1, <1>4
<1> QED BY <1>1, <1>3, <1>5 DEF Wizard!AskedByScan

\* Steps that leave the camera alone, and the inputs in view.
LEMMA WizardRests ==
  ASSUME Wizard!WizardInv, UNCHANGED <<r1, r2, r3, r4, r11, r12, r13, r20, r22>>,
         r18'.c = "required" => r18'.cc # "none",
         Wizard!RequiredHasCc'
  PROVE  Wizard!WizardInv'
BY DEF Wizard!WizardInv, Wizard!AskedByScan, Wizard!CameraKnown

\* Steps that leave the camera as it is.
LEMMA WizardTypes ==
  ASSUME Wizard!WizardInv,
         \/ Wizard!Tick \/ Wizard!TypeCc \/ Wizard!Pick \/ Wizard!Ends
         \/ \E c \in Wizard!Texts : Wizard!Type(c)
         \/ \E b \in BOOLEAN : Wizard!Fill(b)
         \/ \E l \in Wizard!Sessions : Wizard!Frame(l) \/ Wizard!NotFound(l) \/ Wizard!PictureUnread(l)
         \/ \E l \in Wizard!Sessions, c \in Wizard!Texts : Wizard!PictureFound(l, c)
  PROVE  Wizard!WizardInv'
<1>1. UNCHANGED <<r1, r2, r3, r4, r11, r12, r13, r20, r22, r18, r21>>
  <2>1. CASE Wizard!Tick \/ Wizard!TypeCc \/ Wizard!Pick \/ Wizard!Ends
    BY <2>1 DEF Wizard!Tick, Wizard!TypeCc, Wizard!Pick, Wizard!Ends, Wizard!view, Wizard!camera,
                Wizard!page
  <2>2. CASE \E c \in Wizard!Texts : Wizard!Type(c)
    BY <2>2 DEF Wizard!Type, Wizard!view, Wizard!camera, Wizard!page
  <2>3. CASE \E b \in BOOLEAN : Wizard!Fill(b)
    BY <2>3 DEF Wizard!Fill, Wizard!view, Wizard!camera, Wizard!page
  <2>4. CASE \E l \in Wizard!Sessions : Wizard!Frame(l) \/ Wizard!NotFound(l)
    \/ Wizard!PictureUnread(l)
    BY <2>4 DEF Wizard!Frame, Wizard!NotFound, Wizard!PictureUnread, Wizard!view, Wizard!camera,
                Wizard!page
  <2>5. CASE \E l \in Wizard!Sessions, c \in Wizard!Texts : Wizard!PictureFound(l, c)
    BY <2>5 DEF Wizard!PictureFound, Wizard!view, Wizard!camera, Wizard!page
  <2> QED BY <2>1, <2>2, <2>3, <2>4, <2>5
<1> QED BY <1>1, WizardRests DEF Wizard!WizardInv, Wizard!RequiredHasCc

\* The dialog of the confirmation code opens, or is dismissed.
LEMMA WizardAsks ==
  ASSUME Wizard!WizardInv, Wizard!Start \/ Wizard!Dismiss
  PROVE  Wizard!WizardInv'
<1>1. UNCHANGED <<r1, r2, r3, r4, r11, r12, r13, r20, r22, r21>>
  BY DEF Wizard!Start, Wizard!Dismiss, Wizard!view, Wizard!camera
<1>2. r18'.c = "required" => r18'.cc # "none"
  <2>1. CASE Wizard!Start
    <3>1. Wizard!MayStart(Wizard!Current)
          /\ r18' = [c |-> Wizard!Current, cc |-> IF r8 \in {Wizard!Empty, "none"} THEN "none" ELSE r8]
      BY <2>1 DEF Wizard!Start
    <3> QED BY <3>1 DEF Wizard!MayStart
  <2>2. CASE Wizard!Dismiss
    BY <2>2 DEF Wizard!Dismiss, Wizard!None, Wizard!Empty
  <2> QED BY <2>1, <2>2
<1> QED BY <1>1, <1>2, WizardRests DEF Wizard!WizardInv, Wizard!RequiredHasCc

\* The user confirms, with room for the profile or without.
LEMMA WizardConfirms ==
  ASSUME Wizard!WizardInv, NEW room \in BOOLEAN, Wizard!Confirm(room)
  PROVE  Wizard!WizardInv'
<1>1. UNCHANGED <<r1, r2, r3, r4, r11, r12, r13, r20, r22>> /\ r18' = Wizard!None
      /\ r21' \subseteq r21 \union {r18}
  BY DEF Wizard!Confirm, Wizard!view, Wizard!camera
<1>2. r18'.c = "required" => r18'.cc # "none"
  BY <1>1 DEF Wizard!None, Wizard!Empty
<1>3. Wizard!RequiredHasCc'
  BY <1>1 DEF Wizard!WizardInv, Wizard!RequiredHasCc
<1> QED BY <1>1, <1>2, <1>3, WizardRests

\* The wizard opens.
LEMMA WizardOpens ==
  ASSUME Wizard!WizardBounds, Wizard!WizardInv, Wizard!Open
  PROVE  Wizard!WizardInv'
<1>1. /\ r1' = r1 + 1 /\ r1 < Size.wizard.wizards /\ r13' = Wizard!StopsLast(r1)
      /\ Wizard!Paint(r1', "code") /\ UNCHANGED <<Wizard!page, r22>>
      /\ IF r1 = 0 THEN UNCHANGED <<r12, r14, r15>> ELSE Wizard!Forget(r1)
  BY DEF Wizard!Open
<1>2. r1' \in 0..Size.wizard.wizards /\ r1' \in Nat /\ "code" \in Wizard!Modes
  BY <1>1 DEF Wizard!WizardBounds, Wizard!WizardInv, Wizard!Modes
<1>3. Wizard!AskedByScan' /\ r4' \in Nat /\ r11' \subseteq Nat \X Nat
  BY <1>1, <1>2, WizardPaints
<1>4. r12' \in [1..Size.wizard.wizards -> Nat]
  BY <1>1 DEF Wizard!WizardInv, Wizard!Forget
<1>5. r22 = {} => r13' = {}
  <2> SUFFICES ASSUME r22 = {} PROVE r13' = {}
    OBVIOUS
  <2>1. \A s \in r13 : s = <<r1, r4>> /\ r12[r1] = r4
    BY DEF Wizard!WizardInv, Wizard!CameraKnown
  <2>2. r2 => r1 # 0
    BY DEF Wizard!WizardInv
  <2>3. CASE r1 # 0
    BY <1>1, <2>1, <2>3 DEF Wizard!StopsLast, Wizard!Stops
  <2>4. CASE r1 = 0
    BY <1>1, <2>1, <2>2, <2>4 DEF Wizard!StopsLast, Wizard!WizardInv, Wizard!CameraKnown
  <2> QED BY <2>3, <2>4
<1>6. (r18.c = "required" => r18.cc # "none")' /\ Wizard!RequiredHasCc'
  BY <1>1 DEF Wizard!page, Wizard!WizardInv, Wizard!RequiredHasCc
<1>7. Wizard!CameraKnown'
  BY <1>1, <1>5 DEF Wizard!CameraKnown
<1>8. r2' => r1' # 0
  BY <1>1, <1>2 DEF Wizard!WizardInv
<1> QED BY <1>2, <1>3, <1>4, <1>6, <1>7, <1>8 DEF Wizard!WizardInv

\* The wizard turns to another way of input, or goes.
LEMMA WizardTurns ==
  ASSUME Wizard!WizardInv, Wizard!Close \/ Wizard!Leave \/ Wizard!PasteIt
           \/ \E m \in Wizard!Modes : Wizard!Choose(m)
  PROVE  Wizard!WizardInv'
<1>1. /\ UNCHANGED <<r1, r22, r21>> /\ (r2' => r2)
      /\ r18' \in {r18, Wizard!None}
  BY DEF Wizard!Close, Wizard!Leave, Wizard!PasteIt, Wizard!Choose, Wizard!view, Wizard!page
<1>2. CASE Wizard!PasteIt /\ r10 = "picker"
  <2>1. UNCHANGED <<r1, r2, r3, r4, r11, r12, r13, r20, r22, r18, r21>>
    BY <1>2 DEF Wizard!PasteIt, Wizard!page
  <2> QED BY <2>1, WizardRests DEF Wizard!WizardInv, Wizard!RequiredHasCc
<1>3. CASE Wizard!Stop
  <2>1. (r22' = {} => r13' = {}) /\ r12' \in [1..Size.wizard.wizards -> Nat]
    BY <1>1, <1>3, WizardStops
  <2>2. Wizard!CameraKnown'
    BY <2>1 DEF Wizard!CameraKnown
  <2>3. CASE UNCHANGED <<r11, r4, r3>>
    BY <1>1, <2>1, <2>2, <2>3 DEF Wizard!WizardInv, Wizard!AskedByScan, Wizard!RequiredHasCc,
                                  Wizard!None, Wizard!Empty
  <2>4. CASE \E m \in Wizard!Modes : Wizard!Paint(r1, m)
    <3>1. Wizard!AskedByScan' /\ r4' \in Nat /\ r11' \subseteq Nat \X Nat
      BY <1>1, <2>4, WizardPaints DEF Wizard!WizardInv
    <3> QED BY <1>1, <2>1, <2>2, <3>1 DEF Wizard!WizardInv, Wizard!RequiredHasCc, Wizard!None,
                                          Wizard!Empty
  <2>5. (UNCHANGED <<r11, r4, r3>>) \/ \E m \in Wizard!Modes : Wizard!Paint(r1, m)
    BY <1>2 DEF Wizard!Close, Wizard!Leave, Wizard!PasteIt, Wizard!Choose, Wizard!Modes, Wizard!view
  <2> QED BY <2>3, <2>4, <2>5
<1> QED BY <1>2, <1>3 DEF Wizard!Close, Wizard!Leave, Wizard!PasteIt, Wizard!Choose

\* The browser answers the request for the camera.
LEMMA WizardGrants ==
  ASSUME Wizard!WizardBounds, Wizard!WizardInv, NEW w \in 1..Size.wizard.wizards, NEW n \in Nat,
         Wizard!Granted(w, n) \/ Wizard!Denied(w, n)
  PROVE  Wizard!WizardInv'
<1>1. /\ UNCHANGED <<r1, r2, r3, r4, r18, r21, r20>>
      /\ <<w, n>> \in r11 /\ r11' = r11 \ {<<w, n>>}
  BY DEF Wizard!Granted, Wizard!Denied, Wizard!view, Wizard!page
<1>2. Wizard!AskedByScan' /\ r11' \subseteq Nat \X Nat
  BY <1>1 DEF Wizard!AskedByScan, Wizard!WizardInv
<1>3. r12' \in [1..Size.wizard.wizards -> Nat]
  BY DEF Wizard!Granted, Wizard!Denied, Wizard!WizardInv
<1>4. Wizard!CameraKnown'
  <2>1. CASE Wizard!Denied(w, n)
    BY <1>1, <2>1 DEF Wizard!Denied, Wizard!CameraKnown, Wizard!WizardInv
  <2>2. CASE Wizard!Granted(w, n)
    <3> SUFFICES ASSUME r22' = {}
                 PROVE  \A s \in r13' : s = <<r1, r4>> /\ r12'[r1] = r4
                                       /\ r2 /\ ~r20 /\ r3 = "scan"
      BY <1>1 DEF Wizard!CameraKnown
    <3>1. r22 = {} /\ Wizard!InView(w, n)
      BY <2>2 DEF Wizard!Granted
    <3>2. r2 /\ ~r20 /\ w = r1 /\ n = r4
      BY <3>1 DEF Wizard!InView
    <3>3. r3 = "scan"
      BY <1>1, <3>2 DEF Wizard!WizardInv, Wizard!AskedByScan
    <3>4. r12'[r1] = r4
      BY <2>2, <3>2 DEF Wizard!Granted, Wizard!WizardInv
    <3>5. r13' = r13 \union {<<r1, r4>>}
      BY <2>2, <3>2 DEF Wizard!Granted
    <3>6. \A s \in r13 : s = <<r1, r4>>
      BY <3>1 DEF Wizard!WizardInv, Wizard!CameraKnown
    <3> QED BY <3>2, <3>3, <3>4, <3>5, <3>6
  <2> QED BY <2>1, <2>2
<1> QED BY <1>1, <1>2, <1>3, <1>4 DEF Wizard!WizardInv, Wizard!RequiredHasCc

\* A code is found.
LEMMA WizardFinds ==
  ASSUME Wizard!WizardInv, NEW l \in Wizard!Sessions, NEW c \in Wizard!Texts, Wizard!Found(l, c)
  PROVE  Wizard!WizardInv'
<1> DEFINE w == l[1]
<1>1. /\ UNCHANGED <<r1, r2, r3, r4, r11, r18, r21, r20, r22>>
      /\ r13' = r13 \ {<<w, r12[w]>>} /\ r12' = [r12 EXCEPT ![w] = 0]
  BY DEF Wizard!Found, Wizard!Stops, Wizard!Forget, Wizard!view, Wizard!page
<1> HIDE DEF w
<1>2. r12' \in [1..Size.wizard.wizards -> Nat]
  BY <1>1 DEF Wizard!WizardInv
<1>3. Wizard!CameraKnown'
  <2> SUFFICES ASSUME r22 = {}, NEW s \in r13'
               PROVE  /\ s = <<r1, r4>> /\ r12'[r1] = r4
                      /\ r2 /\ ~r20 /\ r3 = "scan"
    BY <1>1 DEF Wizard!CameraKnown
  <2>1. /\ s \in r13 /\ s = <<r1, r4>> /\ r12[r1] = r4
        /\ r2 /\ ~r20 /\ r3 = "scan"
    BY <1>1 DEF Wizard!WizardInv, Wizard!CameraKnown
  <2>2. w # r1
    BY <1>1, <2>1
  <2>3. r12'[r1] = r12[r1]
    BY <1>1, <2>2 DEF Wizard!WizardInv
  <2> QED BY <2>1, <2>3
<1>4. Wizard!AskedByScan' /\ Wizard!RequiredHasCc'
  BY <1>1 DEF Wizard!WizardInv, Wizard!AskedByScan, Wizard!RequiredHasCc
<1> QED BY <1>1, <1>2, <1>3, <1>4 DEF Wizard!WizardInv

\* Every step keeps it.
LEMMA WizardKept ==
  ASSUME Wizard!WizardBounds, Wizard!WizardInv, Wizard!WizardNext
  PROVE  Wizard!WizardInv'
<1>1. CASE \E s \in Wizard!Sessions : Wizard!Granted(s[1], s[2]) \/ Wizard!Denied(s[1], s[2])
  <2> PICK s \in Wizard!Sessions : Wizard!Granted(s[1], s[2]) \/ Wizard!Denied(s[1], s[2])
    BY <1>1
  <2>1. s[1] \in 1..Size.wizard.wizards
    BY DEF Wizard!Sessions
  <2>2. <<s[1], s[2]>> \in Nat \X Nat
    BY DEF Wizard!Granted, Wizard!Denied, Wizard!WizardInv
  <2>3. s[2] \in Nat
    BY <2>2
  <2> QED BY <2>1, <2>3, WizardGrants
<1> QED BY <1>1, WizardTypes, WizardAsks, WizardConfirms, WizardOpens, WizardTurns,
WizardFinds DEF Wizard!WizardNext

\* It speaks of nothing but the variables of the machine.
LEMMA WizardStutters ==
  ASSUME Wizard!WizardInv,
         UNCHANGED <<r1, r2, r3, r4, r5, r6, r7, r8, r9, r10, r11, r12, r13, r14, r15, r16,
                     r17, r18, r19, r20, r21, r22, r23, r24>>
  PROVE  Wizard!WizardInv'
BY DEF Wizard!RequiredHasCc, Wizard!CameraKnown, Wizard!AskedByScan, Wizard!WizardInv

\* What it says.
LEMMA WizardHolds == ASSUME Wizard!WizardInv PROVE Wizard!CameraGoesWithView /\ Wizard!RequiredHasCc
<1>1. Wizard!CameraGoesWithView
  BY DEF Wizard!WizardInv, Wizard!CameraKnown, Wizard!CameraGoesWithView, Wizard!InView
<1> QED BY <1>1 DEF Wizard!WizardInv

-----------------------------------------------------------------------------
(* Automatic dialling.                                                     *)

Dial == INSTANCE DialPage WITH
    settings <- r1, form <- r2, switch <- r3, modeSel <- r4, items <- r5,
    queue <- r6, failed <- r7, underWay <- r8, loading <- r9, cached <- r10,
    committing <- r11, modem <- r12, uci <- r13, clicks <- r14,
    restarts <- r15, failures <- r16,
    Modes <- Size.dial.modes, Clicks <- Size.dial.clicks,
    Restarts <- Bound.restarts, MaxFail <- Size.dial.failed

\* The invariant holds at the start.
LEMMA DialBegins == ASSUME Dial!DialBounds, Dial!DialInit PROVE Dial!DialInv
<1>1. <<>> \in Seq(Dial!StagedChanges)
  BY EmptySeq, Zenon
<1>2. r12.mode \in Size.dial.modes /\ r8.c.key = "none" /\ r5 = <<>>
  BY DEF Dial!DialInit, Dial!Idle
<1>3. r16 \in Nat /\ r15 \in Nat
  BY DEF Dial!DialInit, Dial!DialBounds
<1> QED BY <1>1, <1>2, <1>3 DEF Dial!DialBounds, Dial!DialInv

\* A change that is staged is the last item, or takes the place of the one of its key.
LEMMA DialStages ==
  ASSUME NEW key, NEW with, <<key, with>> \in Dial!StagedChanges, r5 \in Seq(Dial!StagedChanges)
  PROVE  Dial!Staged(key, with) \in Seq(Dial!StagedChanges)
<1>1. CASE \E n \in DOMAIN r5 : r5[n][1] = key
  <2> DEFINE new == [n \in DOMAIN r5 |-> IF r5[n][1] = key THEN <<key, with>> ELSE r5[n]]
  <2>1. Dial!Staged(key, with) = new
    BY <1>1 DEF Dial!Staged
  <2>2. Len(r5) \in Nat /\ DOMAIN r5 = 1..Len(r5) /\ \A n \in 1..Len(r5) : r5[n] \in Dial!StagedChanges
    BY LenProperties, ElementOfSeq, Zenon
  <2>3. new \in [1..Len(r5) -> Dial!StagedChanges]
    BY <2>2
  <2> HIDE DEF new
  <2>4. new \in Seq(Dial!StagedChanges)
    BY <2>2, <2>3, SeqDef, Zenon
  <2> QED BY <2>1, <2>4
<1>2. CASE ~\E n \in DOMAIN r5 : r5[n][1] = key
  <2>1. Dial!Staged(key, with) = Append(r5, <<key, with>>)
    BY <1>2 DEF Dial!Staged
  <2>2. Append(r5, <<key, with>>) \in Seq(Dial!StagedChanges)
    BY AppendProperties, Zenon
  <2> QED BY <2>1, <2>2
<1> QED BY <1>1, <1>2

\* Without one of them, the items are still changes.
LEMMA DialRemoves ==
  ASSUME r5 \in Seq(Dial!StagedChanges), NEW n \in DOMAIN r5
  PROVE  Dial!Without(n) \in Seq(Dial!StagedChanges)
<1>1. /\ Len(r5) \in Nat /\ DOMAIN r5 = 1..Len(r5)
      /\ \A m \in 1..Len(r5) : r5[m] \in Dial!StagedChanges
  BY LenProperties, ElementOfSeq, Zenon
<1>2. 1 \in Int /\ n - 1 \in Int /\ n + 1 \in Int /\ Len(r5) \in Int
  BY <1>1
<1>3. /\ \A m \in 1..(n - 1) : r5[m] \in Dial!StagedChanges
      /\ \A m \in (n + 1)..Len(r5) : r5[m] \in Dial!StagedChanges
  BY <1>1
<1>4. SubSeq(r5, 1, n - 1) \in Seq(Dial!StagedChanges)
  BY <1>2, <1>3, SubSeqProperties, Zenon
<1>5. SubSeq(r5, n + 1, Len(r5)) \in Seq(Dial!StagedChanges)
  BY <1>2, <1>3, SubSeqProperties, Zenon
<1> QED BY <1>4, <1>5, ConcatProperties, Zenon DEF Dial!Without

\* The items are changes.
LEMMA DialLists ==
  ASSUME Dial!DialBounds, Dial!DialInv, Dial!DialNext
  PROVE  r5' \in Seq(Dial!StagedChanges)
<1>0. r5 \in Seq(Dial!StagedChanges)
  BY DEF Dial!DialInv
<1>1. ASSUME Dial!Switch PROVE r5' \in Seq(Dial!StagedChanges)
  <2>1. \E w \in {0, 1} : r5' = Dial!Staged("autodial", w)
    BY <1>1 DEF Dial!Switch
  <2>2. \A w \in {0, 1} : <<"autodial", w>> \in Dial!StagedChanges
    BY DEF Dial!StagedChanges
  <2> QED BY <1>0, <2>1, <2>2, DialStages
<1>2. ASSUME Dial!StageApn PROVE r5' \in Seq(Dial!StagedChanges)
  <2>1. r5' = Dial!Staged("apn", 0)
    BY <1>2 DEF Dial!StageApn
  <2>2. <<"apn", 0>> \in Dial!StagedChanges
    BY DEF Dial!StagedChanges
  <2> QED BY <1>0, <2>1, <2>2, DialStages
<1>3. ASSUME NEW m \in Size.dial.modes, Dial!PickMode(m) PROVE r5' \in Seq(Dial!StagedChanges)
  <2>1. r5' = r5 \/ r5' = Dial!Staged("dialmode", m)
    BY <1>3 DEF Dial!PickMode
  <2>2. <<"dialmode", m>> \in Dial!StagedChanges
    BY DEF Dial!StagedChanges
  <2> QED BY <1>0, <2>1, <2>2, DialStages
<1>4. ASSUME Dial!Sent PROVE r5' \in Seq(Dial!StagedChanges)
  <2>1. PICK n \in DOMAIN r5 : r5' = <<>> \/ r5' = Dial!Without(n)
    BY <1>4 DEF Dial!Sent
  <2>2. <<>> \in Seq(Dial!StagedChanges)
    BY EmptySeq, Zenon
  <2> QED BY <1>0, <2>1, <2>2, DialRemoves
<1>5. ASSUME Dial!Apply \/ Dial!Run \/ Dial!Refused \/ Dial!ReadFails \/ Dial!Committed
               \/ Dial!NotCommitted PROVE r5' = r5
  BY <1>5 DEF Dial!Apply, Dial!Run, Dial!Refused, Dial!ReadFails, Dial!Committed,
              Dial!NotCommitted, Dial!kept
<1>6. ASSUME NEW a, NEW b, Dial!Type(a) \/ Dial!Read(a, b) \/ Dial!Ensure(a) PROVE r5' = r5
  BY <1>6 DEF Dial!Type, Dial!Read, Dial!Ensure, Dial!kept
<1> QED BY <1>0, <1>1, <1>2, <1>3, <1>4, <1>5, <1>6 DEF Dial!DialNext, Dial!DialMoves

\* The command that is sent for an item keeps the mode, or names the one the page knows.
LEMMA DialCommands ==
  ASSUME Dial!DialInv, Dial!Run
  PROVE  /\ r8'.knew = r1.mode
         /\ r8'.c.key \in {"autodial", "apn"} => r8'.c.mode \in {Dial!Unread, Dial!KnownMode}
<1>1. PICK n \in DOMAIN r5 : r8' = [c |-> Dial!Command(r5[n][1], r5[n][2]), knew |-> r1.mode]
  BY DEF Dial!Run
<1>2. r5[n] \in Dial!StagedChanges
  <2>1. DOMAIN r5 = 1..Len(r5) /\ \A m \in 1..Len(r5) : r5[m] \in Dial!StagedChanges
    BY LenProperties, ElementOfSeq, Zenon DEF Dial!DialInv
  <2> QED BY <2>1
<1>3. r8'.c = Dial!Command(r5[n][1], r5[n][2]) /\ r8'.knew = r1.mode
  BY <1>1
<1>4. CASE r5[n] = <<"autodial", 0>>
  <2>1. r5[n][1] = "autodial" /\ r5[n][2] = 0
    BY <1>4
  <2>2. Dial!Command("autodial", 0).mode = Dial!Unread
    BY DEF Dial!Command
  <2> QED BY <1>3, <2>1, <2>2
<1>5. CASE r5[n] = <<"autodial", 1>>
  <2>1. r5[n][1] = "autodial" /\ r5[n][2] = 1
    BY <1>5
  <2>2. Dial!Command("autodial", 1).mode = Dial!KnownMode
    BY DEF Dial!Command
  <2> QED BY <1>3, <2>1, <2>2
<1>6. CASE r5[n] = <<"apn", 0>>
  <2>1. r5[n][1] = "apn" /\ r5[n][2] = 0
    BY <1>6
  <2>2. Dial!Command("apn", 0).mode = Dial!KnownMode
    BY DEF Dial!Command
  <2> QED BY <1>3, <2>1, <2>2
<1>7. CASE r5[n] \in {"dialmode"} \X Size.dial.modes
  <2>1. r5[n][1] = "dialmode"
    BY <1>7
  <2>2. Dial!Command("dialmode", r5[n][2]).key = "dialmode"
    BY DEF Dial!Command
  <2> QED BY <1>3, <2>1, <2>2
<1> QED BY <1>2, <1>4, <1>5, <1>6, <1>7 DEF Dial!StagedChanges

\* A command leaves the modem with a mode.
LEMMA DialModes == ASSUME Dial!DialInv, NEW c PROVE Dial!Set(c).mode # Dial!Unread
BY DEF Dial!Set, Dial!DialInv

\* Every step keeps it.
LEMMA DialKept == ASSUME Dial!DialBounds, Dial!DialInv, Dial!DialNext PROVE Dial!DialInv'
<1>0. r5' \in Seq(Dial!StagedChanges)
  BY DialLists
<1>1. r16' \in Nat /\ r15' \in Nat
  <2>1. r16' \in {r16, r16 - 1} /\ (r16' = r16 - 1 => r16 > 0 \/ r16' = r16)
    BY DEF Dial!DialNext, Dial!DialMoves, Dial!Switch, Dial!StageApn, Dial!Apply, Dial!Type,
           Dial!PickMode, Dial!Read, Dial!Ensure, Dial!Run, Dial!Sent, Dial!Refused,
        Dial!ReadFails, Dial!Committed, Dial!NotCommitted, Dial!Fail
  <2>2. r15' = r15 \/ \E n \in BOOLEAN : Dial!Ensure(n)
    BY DEF Dial!DialNext, Dial!DialMoves, Dial!Switch, Dial!StageApn, Dial!Apply, Dial!Type,
           Dial!PickMode, Dial!Read, Dial!Run, Dial!Sent, Dial!Refused,
        Dial!ReadFails, Dial!Committed, Dial!NotCommitted
  <2>3. ASSUME NEW n \in BOOLEAN, Dial!Ensure(n) PROVE r15 > 0 /\ r15' = r15 - 1
    BY <2>3 DEF Dial!Ensure
  <2> QED BY <2>1, <2>2, <2>3 DEF Dial!DialInv
<1>2. r12'.mode # Dial!Unread
  <2>1. r12' = r12 \/ \E c : r12' = Dial!Set(c)
    BY DEF Dial!DialNext, Dial!DialMoves, Dial!Switch, Dial!StageApn, Dial!Apply, Dial!Type,
           Dial!PickMode, Dial!Read, Dial!Ensure, Dial!Run, Dial!Sent, Dial!Refused,
        Dial!ReadFails, Dial!Committed, Dial!NotCommitted
  <2> QED BY <2>1, DialModes DEF Dial!DialInv
<1>3. r8'.c.key \in {"autodial", "apn"} =>
         r8'.c.mode \in {Dial!Unread, IF r8'.knew = Dial!Unread THEN 1 ELSE r8'.knew}
  <2>1. r8' = r8 \/ r8' = Dial!Idle \/ Dial!Run
    BY DEF Dial!DialNext, Dial!DialMoves, Dial!Switch, Dial!StageApn, Dial!Apply, Dial!Type,
           Dial!PickMode, Dial!Read, Dial!Ensure, Dial!Sent, Dial!Refused,
        Dial!ReadFails, Dial!Committed, Dial!NotCommitted, Dial!kept
  <2>2. CASE r8' = r8
    BY <2>2 DEF Dial!DialInv
  <2>3. CASE r8' = Dial!Idle
    <3>1. r8'.c.key = "none"
      BY <2>3 DEF Dial!Idle
    <3> QED BY <3>1
  <2>4. CASE Dial!Run
    BY <2>4, DialCommands DEF Dial!KnownMode
  <2> QED BY <2>1, <2>2, <2>3, <2>4
<1> QED BY <1>0, <1>1, <1>2, <1>3 DEF Dial!DialInv

\* It speaks of nothing but the variables of the machine.
LEMMA DialStutters ==
  ASSUME Dial!DialInv,
         UNCHANGED <<r1, r2, r3, r4, r5, r6, r7, r8, r9, r10, r11, r12, r13, r14, r15, r16>>
  PROVE  Dial!DialInv'
BY DEF Dial!DialInv

\* Switching and the APN leave the mode alone.
LEMMA DialStays == ASSUME Dial!DialBounds, Dial!DialInv, Dial!DialNext PROVE Dial!ModeStays
<1> SUFFICES ASSUME r8.c.key \in {"autodial", "apn"}, r8' = Dial!Idle, r8.knew = r12.mode
             PROVE  r12'.mode = r12.mode
  BY DEF Dial!ModeStays
<1>1. r8 # Dial!Idle
  BY DEF Dial!Idle
<1>2. Dial!Sent \/ r12' = r12
  BY <1>1 DEF Dial!DialNext, Dial!DialMoves, Dial!Switch, Dial!StageApn, Dial!Apply, Dial!Type,
              Dial!PickMode, Dial!Read, Dial!Ensure, Dial!Run, Dial!Refused,
      Dial!ReadFails, Dial!Committed, Dial!NotCommitted, Dial!kept
<1>3. CASE Dial!Sent
  <2>1. r12' = Dial!Set(r8.c)
    BY <1>3 DEF Dial!Sent
  <2>2. r8.c.mode \in {Dial!Unread, r12.mode}
    BY DEF Dial!DialInv
  <2> QED BY <2>1, <2>2 DEF Dial!Set
<1> QED BY <1>2, <1>3

\* What runs as desired is left alone.
LEMMA DialLeaves == ASSUME Dial!DialBounds, Dial!DialInv, Dial!DialNext PROVE Dial!RunningIsLeft
<1> SUFFICES ASSUME r15' < r15, r16' = r16, r12.enable = Dial!Wanted(r13).enable
             PROVE  r12' = r12
  BY DEF Dial!RunningIsLeft
<1>1. \E n \in BOOLEAN : Dial!Ensure(n)
  BY DEF Dial!DialNext, Dial!DialMoves, Dial!Switch, Dial!StageApn, Dial!Apply, Dial!Type,
         Dial!PickMode, Dial!Read, Dial!Run, Dial!Sent, Dial!Refused,
      Dial!ReadFails, Dial!Committed, Dial!NotCommitted, Dial!DialInv
<1>2. PICK n \in BOOLEAN : Dial!Ensure(n)
  BY <1>1
<1>3. n = TRUE
  BY <1>2 DEF Dial!Ensure, Dial!Fail, Dial!DialInv
<1>4. ~Dial!Aligns(r12.enable)
  BY DEF Dial!Aligns
<1> QED BY <1>2, <1>3, <1>4 DEF Dial!Ensure

-----------------------------------------------------------------------------
(* The system configuration.                                               *)

Sys == INSTANCE SysCfg WITH
    sysCfg <- r1, ready <- r2, selected <- r3, queue <- r4, wanted <- r5,
    told <- r6, modem <- r7, saves <- r8, picks <- r9,
    Bands <- Size.syscfg.bands, Saves <- Size.syscfg.saves,
    Picks <- Size.syscfg.picks

\* The invariant holds at the start.
LEMMA SysBegins == ASSUME Sys!Init PROVE Sys!SysInv
<1>1. r4 \in Seq(Sys!Steps)
  BY DEF Sys!Init
<1>2. r1 \in Sys!Held /\ r3 \in Sys!Held /\ r3.order \in Sys!Orders
  BY DEF Sys!Init, Sys!Held, Sys!Unread, Sys!Blank, Sys!Orders, Sys!Domains
<1> QED BY <1>1, <1>2 DEF Sys!Init, Sys!SysInv, Sys!SysCfgTypeOK, Sys!SendsWhatItShows,
                          Sys!UpdatedUnlessPainted

\* What painting makes of a record that was read.
LEMMA SysPaints ==
  ASSUME Sys!SysInv, NEW cfg \in Sys!Answers
  PROVE  /\ Sys!Painted(cfg) \in Sys!Held /\ Sys!Painted(cfg).order = r7.order
         /\ Sys!Constrained(Sys!Painted(cfg)) = Sys!Painted(cfg)
         /\ Sys!Constrained(r7) = r7 => Sys!Painted(cfg).domain = r7.domain
<1> DEFINE shown == [f \in Sys!Fields |-> Sys!Shown(f, cfg)]
<1>1. /\ cfg.order \in Sys!Orders /\ cfg.domain \in Sys!Domains /\ cfg.mask \in SUBSET Size.syscfg.bands
      /\ cfg.order = r7.order /\ cfg.domain = r7.domain
  BY DEF Sys!SysInv, Sys!SysCfgTypeOK, Sys!Answers, Sys!Settings, Sys!Masks, Sys!Blank
<1>2. /\ shown = [order |-> Sys!Shown("order", cfg), domain |-> Sys!Shown("domain", cfg), mask |-> Sys!Shown("mask", cfg)]
  BY DEF Sys!Fields
<1>3. Sys!Shown("order", cfg) = r7.order /\ Sys!Shown("domain", cfg) = r7.domain
  BY <1>1 DEF Sys!Shown, Sys!Blank, Sys!Orders, Sys!Domains
<1>4. Sys!Shown("mask", cfg) \in SUBSET Size.syscfg.bands
  BY <1>1 DEF Sys!Shown, Sys!Held, Sys!SysInv
<1>5. /\ shown \in Sys!Held /\ shown.order = r7.order /\ shown.domain = r7.domain
  BY <1>1, <1>2, <1>3, <1>4 DEF Sys!Held
<1>6. Sys!Painted(cfg) = Sys!Constrained(shown)
  BY DEF Sys!Painted
<1> HIDE DEF shown
<1>7. r7.order = "lte" /\ r7.domain = "voice" => Sys!Constrained(r7) # r7
  BY DEF Sys!SysInv, Sys!SysCfgTypeOK, Sys!Constrained, Sys!Settings
<1>8. Sys!Constrained(shown) \in Sys!Held /\ Sys!Constrained(Sys!Constrained(shown)) = Sys!Constrained(shown)
  BY <1>5 DEF Sys!Constrained, Sys!Held, Sys!Domains
<1>9. Sys!Constrained(shown).order = r7.order /\ (Sys!Constrained(r7) = r7 => Sys!Constrained(shown).domain = r7.domain)
  BY <1>5, <1>7 DEF Sys!Constrained, Sys!Held
<1> QED BY <1>6, <1>8, <1>9

\* Whatever answer is taken over, the selections show it and it is legal.
LEMMA SysApplied ==
  ASSUME Sys!SysInv, NEW cfg \in Sys!Answers, Sys!Applied(cfg)
  PROVE  /\ r1' \in Sys!Held /\ r3' \in Sys!Held /\ r3'.order \in Sys!Orders
         /\ Sys!SendsWhatItShows' /\ Sys!Constrained(r1)' = r1' /\ r2' = TRUE
<1>1. r1' = Sys!Painted(cfg) /\ r3' = Sys!Painted(cfg) /\ r2' = TRUE
  BY DEF Sys!Applied, Sys!Painted
<1>2. r7.order \in Sys!Orders
  BY DEF Sys!SysInv, Sys!SysCfgTypeOK, Sys!Settings
<1> QED BY <1>1, <1>2, SysPaints DEF Sys!SendsWhatItShows, Sys!Constrained

\* The user picks another value.
LEMMA SysPicks ==
  ASSUME Sys!SysInv, NEW f \in Sys!Fields, NEW v \in Sys!Choices(f), Sys!Pick(f, v)
  PROVE  Sys!SysInv'
<1> DEFINE c == [r1 EXCEPT ![f] = v]
           s == [r3 EXCEPT ![f] = v]
           fixed == IF f = "order" THEN Sys!Constrained(c) ELSE c
<1>1. /\ r1' = fixed
      /\ r3' = (IF fixed = c THEN s ELSE [s EXCEPT !.domain = fixed.domain])
      /\ f = "domain" => ~(r1.order = "lte" /\ v = "voice")
      /\ UNCHANGED <<r2, r4, r5, r6, r7>>
  BY DEF Sys!Pick
<1>2. c \in Sys!Held /\ s \in Sys!Held /\ s.order \in Sys!Orders
  BY DEF Sys!SysInv, Sys!Held, Sys!Fields, Sys!Choices
<1>3. r1' \in Sys!Held /\ r3' \in Sys!Held /\ r3'.order \in Sys!Orders
  BY <1>1, <1>2 DEF Sys!Constrained, Sys!Held, Sys!Domains
<1>4. r2 => r1' = r3' /\ Sys!Constrained(r1') = r1'
  <2> SUFFICES ASSUME r2 PROVE r1' = r3' /\ Sys!Constrained(r1') = r1'
    OBVIOUS
  <2>1. c = s /\ Sys!Constrained(r1) = r1 /\ r1 \in Sys!Held
    BY DEF Sys!SysInv, Sys!SendsWhatItShows
  <2>2. r1' = r3'
    BY <1>1, <2>1, <1>2 DEF Sys!Constrained, Sys!Held
  <2>3. Sys!Constrained(fixed) = fixed
    BY <1>1, <1>2, <2>1 DEF Sys!Constrained, Sys!Held, Sys!Fields
  <2> QED BY <1>1, <2>2, <2>3
<1>5. Sys!SysCfgTypeOK' /\ Sys!UpdatedUnlessPainted'
  BY <1>1 DEF Sys!SysInv, Sys!SysCfgTypeOK, Sys!UpdatedUnlessPainted, Sys!Constrained
<1>6. r2' = r2 /\ r4' \in Seq(Sys!Steps) /\ (r6' # {} => r5' \in Sys!Snapshots)
  BY <1>1 DEF Sys!SysInv
<1> HIDE DEF c, s, fixed
<1> QED BY <1>3, <1>4, <1>5, <1>6 DEF Sys!SysInv, Sys!SendsWhatItShows, Sys!Constrained

\* What is said of the last save changes with the modem and the verdict only.
LEMMA SysTells ==
  ASSUME Sys!SysInv, UNCHANGED <<r5, r6, r7>>
  PROVE  Sys!UpdatedUnlessPainted'
BY DEF Sys!SysInv, Sys!UpdatedUnlessPainted, Sys!Constrained

\* The user refreshes.
LEMMA SysRefreshes ==
  ASSUME Sys!SysInv, Sys!Refresh
  PROVE  Sys!SysInv'
<1>1. UNCHANGED <<r4, r5, r6, r7>>
  BY DEF Sys!Refresh
<1>2. /\ Sys!UpdatedUnlessPainted' /\ r4' \in Seq(Sys!Steps)
      /\ r6' # {} => r5' \in Sys!Snapshots
  BY <1>1, SysTells DEF Sys!SysInv
<1>3. ASSUME r2' \in BOOLEAN PROVE Sys!SysCfgTypeOK'
  BY <1>1, <1>3 DEF Sys!SysInv, Sys!SysCfgTypeOK
<1>4. CASE \E got \in Sys!Answers : Sys!Applied(got)
  BY <1>2, <1>3, <1>4, SysApplied DEF Sys!SysInv
<1>5. CASE UNCHANGED <<r1, r2, r3>>
  <2>1. r2' \in BOOLEAN
    BY <1>5 DEF Sys!SysInv, Sys!SysCfgTypeOK
  <2> QED BY <1>2, <1>3, <1>5, <2>1 DEF Sys!SysInv, Sys!SendsWhatItShows, Sys!Constrained
<1> QED BY <1>4, <1>5 DEF Sys!Refresh

\* The user saves: the snapshot is one that may be sent.
LEMMA SysSaves ==
  ASSUME Sys!SysInv, Sys!Save
  PROVE  Sys!SysInv'
<1>1. r2 /\ r4' = Append(r4, Sys!Step("write", r1)) /\ UNCHANGED <<r1, r2, r3, r5, r6, r7>>
  BY DEF Sys!Save, Sys!MaySave
<1>2. r1 \in Sys!Snapshots
  BY <1>1 DEF Sys!SysInv, Sys!SendsWhatItShows, Sys!Snapshots
<1>3. Sys!Step("write", r1) \in Sys!Steps
  BY <1>2 DEF Sys!Step, Sys!Steps
<1>4. r4' \in Seq(Sys!Steps)
  <2>1. r4 \in Seq(Sys!Steps)
    BY DEF Sys!SysInv
  <2> QED BY <1>1, <1>3, <2>1, AppendProperties, Zenon
<1>5. Sys!UpdatedUnlessPainted'
  BY <1>1, SysTells
<1> QED BY <1>1, <1>4, <1>5 DEF Sys!SysInv, Sys!SysCfgTypeOK, Sys!SendsWhatItShows, Sys!Constrained

\* The command at the head of the queue carries a snapshot that may be sent.
LEMMA SysHead ==
  ASSUME Sys!SysInv, r4 # <<>>
  PROVE  /\ Head(r4) \in Sys!Steps /\ Head(r4).wanted \in Sys!Snapshots
         /\ Tail(r4) \in Seq(Sys!Steps)
<1>1. r4 \in Seq(Sys!Steps)
  BY DEF Sys!SysInv
<1>2. Head(r4) \in Sys!Steps /\ Tail(r4) \in Seq(Sys!Steps)
  BY <1>1, HeadTailProperties, Zenon
<1> QED BY <1>2 DEF Sys!Steps

\* The command of a save is answered.
LEMMA SysWrites ==
  ASSUME Sys!SysInv, Sys!Write
  PROVE  Sys!SysInv'
<1>1. /\ r4 # <<>> /\ r7' \in Sys!Settings
      /\ \/ /\ r4' = Append(Tail(r4), Sys!Step("read", Head(r4).wanted))
            /\ r6' = {} /\ UNCHANGED r5
         \/ r4' = Tail(r4) /\ r6' = {"failed"} /\ r5' = Head(r4).wanted
      /\ UNCHANGED <<r1, r2, r3>>
  BY DEF Sys!Write
<1>2. /\ Head(r4).wanted \in Sys!Snapshots /\ Tail(r4) \in Seq(Sys!Steps)
  BY <1>1, SysHead
<1>3. Sys!Step("read", Head(r4).wanted) \in Sys!Steps
  BY <1>2 DEF Sys!Step, Sys!Steps
<1>4. Append(Tail(r4), Sys!Step("read", Head(r4).wanted)) \in Seq(Sys!Steps)
  BY <1>2, <1>3, AppendProperties, Zenon
<1>5. r4' \in Seq(Sys!Steps) /\ (r6' # {} => r5' \in Sys!Snapshots)
  BY <1>1, <1>2, <1>4
<1>6. Sys!UpdatedUnlessPainted'
  BY <1>1 DEF Sys!UpdatedUnlessPainted
<1> QED BY <1>1, <1>5, <1>6 DEF Sys!SysInv, Sys!SysCfgTypeOK, Sys!SendsWhatItShows, Sys!Constrained

\* The verdicts are those a user is told.
LEMMA SysVerdicts ==
  ASSUME NEW want, NEW got \in Sys!Held
  PROVE  Sys!Judged(want, got) \subseteq {"unknown", "exact", "clipped", "rejected"}
BY DEF Sys!Judged, Sys!Verdict

\* What was saved is read back.
LEMMA SysReadsBack ==
  ASSUME Sys!SysInv, Sys!ReadBack
  PROVE  Sys!SysInv'
<1> DEFINE w == Head(r4).wanted
<1>1. r4 # <<>> /\ r4' = Tail(r4) /\ r5' = w /\ UNCHANGED r7
  BY DEF Sys!ReadBack
<1>2. w \in Sys!Snapshots /\ r4' \in Seq(Sys!Steps)
  BY <1>1, SysHead
<1>3. \/ \E got \in Sys!Answers : Sys!Applied(got) /\ r6' = Sys!Told(Sys!Judged(w, Sys!Painted(got)))
      \/ r6' \in {{"unread"}, {"failed"}} /\ UNCHANGED <<r1, r2, r3>>
  BY DEF Sys!ReadBack
<1> HIDE DEF w
<1>4. CASE \E got \in Sys!Answers : Sys!Applied(got) /\ r6' = Sys!Told(Sys!Judged(w, Sys!Painted(got)))
  <2> PICK got \in Sys!Answers : Sys!Applied(got) /\ r6' = Sys!Told(Sys!Judged(w, Sys!Painted(got)))
    BY <1>4
  <2> DEFINE paint == Sys!Painted(got)
  <2>1. /\ paint \in Sys!Held /\ paint.order = r7.order
        /\ Sys!Constrained(r7) = r7 => paint.domain = r7.domain
    BY SysPaints
  <2> HIDE DEF paint
  <2>2. Sys!Judged(w, paint) \subseteq {"unknown", "exact", "clipped", "rejected"}
    BY <2>1, SysVerdicts
  <2>3. /\ r6' \subseteq {"updated", "failed", "unread", "unknown", "clipped", "rejected"}
        /\ r6' = {"updated"} => Sys!Judged(w, paint) \subseteq {"exact"}
    BY <2>2 DEF Sys!Told, paint
  <2>4. w.order \in Sys!Orders /\ w.domain \in Sys!Domains
    BY <1>2 DEF Sys!Snapshots, Sys!Held
  <2>5. /\ Sys!Verdict("order", w.order, paint.order) \in Sys!Judged(w, paint) \union {"notSent"}
        /\ Sys!Verdict("domain", w.domain, paint.domain) \in Sys!Judged(w, paint) \union {"notSent"}
    BY <2>1 DEF Sys!Judged, Sys!Held
  <2>6. ASSUME r6' = {"updated"}, Sys!Constrained(r7) = r7
        PROVE  w.order = r7.order /\ w.domain = r7.domain
    BY <2>1, <2>3, <2>4, <2>5, <2>6 DEF Sys!Verdict, Sys!Blank, Sys!Orders, Sys!Domains, Sys!Held
  <2>7. Sys!UpdatedUnlessPainted'
    BY <1>1, <2>6 DEF Sys!UpdatedUnlessPainted, Sys!Fields, Sys!Constrained
  <2>8. Sys!SysCfgTypeOK'
    BY <1>1, <2>3, SysApplied DEF Sys!SysInv, Sys!SysCfgTypeOK
  <2> QED BY <1>1, <1>2, <2>7, <2>8, SysApplied DEF Sys!SysInv
<1>5. CASE r6' \in {{"unread"}, {"failed"}} /\ UNCHANGED <<r1, r2, r3>>
  <2>1. Sys!SysCfgTypeOK' /\ Sys!UpdatedUnlessPainted'
    BY <1>1, <1>5 DEF Sys!SysInv, Sys!SysCfgTypeOK, Sys!UpdatedUnlessPainted
  <2> QED BY <1>1, <1>2, <1>5, <2>1 DEF Sys!SysInv, Sys!SendsWhatItShows, Sys!Constrained
<1> QED BY <1>3, <1>4, <1>5

\* Every step keeps it.
LEMMA SysKept == ASSUME Sys!SysInv, Sys!Next PROVE Sys!SysInv'
BY SysPicks, SysRefreshes, SysSaves, SysWrites, SysReadsBack DEF Sys!Next, Sys!Moves

\* It speaks of nothing but the variables of the machine.
LEMMA SysStutters ==
  ASSUME Sys!SysInv, UNCHANGED <<r1, r2, r3, r4, r5, r6, r7, r8, r9>>
  PROVE  Sys!SysInv'
BY DEF Sys!SysCfgTypeOK, Sys!SendsWhatItShows, Sys!UpdatedUnlessPainted, Sys!SysInv

\* What it says: every snapshot in the queue may be sent.
LEMMA SysHolds ==
  ASSUME Sys!SysInv
  PROVE  Sys!SysCfgTypeOK /\ Sys!WantedIsLegal /\ Sys!SendsWhatItShows /\ Sys!UpdatedUnlessPainted
<1>1. ASSUME NEW i \in DOMAIN r4
      PROVE  r4[i].wanted.order # Sys!Blank("order") /\ Sys!Constrained(r4[i].wanted) = r4[i].wanted
  <2>1. r4 \in Seq(Sys!Steps)
    BY DEF Sys!SysInv
  <2>2. i \in 1..Len(r4)
    BY <2>1, LenProperties, Zenon
  <2>3. r4[i] \in Sys!Steps
    BY <2>1, <2>2, ElementOfSeq, Zenon
  <2> QED BY <2>3 DEF Sys!Steps, Sys!Snapshots, Sys!Orders, Sys!Blank
<1> QED BY <1>1 DEF Sys!SysInv, Sys!WantedIsLegal

-----------------------------------------------------------------------------
(* The download of a profile.                                              *)

Download == INSTANCE ProfileDownload WITH
    pc <- r1, step <- r2, block <- r3, tx <- r4, expect <- r5,
    recovered <- r6, aborted <- r7, todo <- r8, outcome <- r9,
    installed <- r10, late <- r11, pending <- r12, acked <- r13,
    cancelled <- r14, downloads <- r15, trouble <- r16,
    Blocks <- Size.download.blocks, Old <- Size.download.old,
    Downloads <- Size.download.downloads,
    MaxTrouble <- Size.download.trouble

\* The invariant holds at the start.
LEMMA DownloadBegins == ASSUME Download!DownloadBounds, Download!Init PROVE Download!DownloadInv
<1>1. Download!DownloadTypeOK
  <2>1. r2 \in 0..10 /\ r3 \in 0..Size.download.blocks
    BY DEF Download!DownloadBounds, Download!Init
  <2>2. {r4, r5, r6, r7, r10, r14} \subseteq BOOLEAN
    BY DEF Download!Init
  <2> QED BY <2>1, <2>2 DEF Download!Init, Download!DownloadTypeOK, Download!Receipts
<1>2. Download!PackageOnCard
  BY DEF Download!Init, Download!PackageOnCard
<1>3. Download!SuccessIsInstalled /\ Download!ReceiptsNotLost /\ Download!SessionNotLeftOpen
  BY DEF Download!Init, Download!SuccessIsInstalled, Download!ReceiptsNotLost,
         Download!SessionNotLeftOpen
<1> QED BY <1>1, <1>2, <1>3 DEF Download!Init, Download!DownloadInv

\* Steps 1 to 7 and the package, as far as the card is not asked for a receipt.
LEMMA DownloadSteps ==
  ASSUME Download!DownloadBounds, Download!DownloadInv, Download!Begin \/ Download!Aborts
           \/ Download!StepDone \/ Download!StepFails
  PROVE  Download!DownloadInv'
<1> USE DEF Download!DownloadInv, Download!DownloadTypeOK, Download!PackageOnCard, Download!Final,
            Download!SuccessIsInstalled, Download!ReceiptsNotLost,
            Download!SessionNotLeftOpen, Download!runVars, Download!cardVars, Download!Stay,
            Download!Throw, Download!Trouble
<1>1. CASE Download!Begin
  <2>1. /\ r1 = "idle" /\ r1' = "steps" /\ r2' = 1 /\ r3' = 0
        /\ r4' = FALSE /\ r5' = FALSE /\ r6' = FALSE /\ r8' = {}
        /\ r7' = FALSE /\ r9' = "running" /\ r14' = FALSE /\ r11' = "none"
        /\ UNCHANGED <<r10, r12, r13>>
    BY <1>1 DEF Download!Begin
  <2>2. Download!DownloadTypeOK'
    <3>1. r2' \in 0..10 /\ r3' \in 0..Size.download.blocks
      BY <2>1 DEF Download!DownloadBounds
    <3>2. {r4, r5, r6, r7, r10, r14}' \subseteq BOOLEAN
      BY <2>1
    <3> QED BY <2>1, <3>1, <3>2
  <2>3. Download!PackageOnCard' /\ Download!SuccessIsInstalled' /\ Download!ReceiptsNotLost' /\ Download!SessionNotLeftOpen'
    BY <2>1
  <2> QED BY <2>1, <2>2, <2>3
<1>2. CASE Download!Aborts
  BY <1>2 DEF Download!Aborts
<1>3. CASE Download!StepDone
  BY <1>3 DEF Download!StepDone, Download!DownloadBounds
<1>4. CASE Download!StepFails
  BY <1>4 DEF Download!StepFails
<1> QED BY <1>1, <1>2, <1>3, <1>4

\* What a block does to the card.
LEMMA DownloadInstalls ==
  ASSUME Download!DownloadInv, Download!CardInstalls
  PROVE  /\ r10' \in BOOLEAN /\ r12' \subseteq Download!Receipts
         /\ UNCHANGED r13 => Download!ReceiptsNotLost'
         /\ (Download!Final => r10') /\ (r10 => r10')
BY DEF Download!DownloadInv, Download!DownloadTypeOK, Download!CardInstalls,
       Download!ReceiptsNotLost, Download!Receipts

\* A block is written, refused, or its answer comes late.
LEMMA DownloadBlocks ==
  ASSUME Download!DownloadBounds, Download!DownloadInv,
         Download!BlockAnswered \/ Download!BlockRefused \/ Download!BlockTimesOut
           \/ Download!Recovered \/ Download!RecoverFails
  PROVE  Download!DownloadInv'
<1> USE DEF Download!DownloadInv, Download!DownloadTypeOK, Download!PackageOnCard,
            Download!SuccessIsInstalled,
            Download!SessionNotLeftOpen, Download!runVars, Download!Stay, Download!Throw,
            Download!Trouble
<1>1. CASE Download!BlockAnswered
  BY <1>1, DownloadInstalls DEF Download!BlockAnswered, Download!Final
<1>2. CASE Download!BlockRefused
  BY <1>2 DEF Download!BlockRefused, Download!cardVars, Download!Final, Download!ReceiptsNotLost
<1>3. CASE Download!BlockTimesOut
  <2>1. CASE UNCHANGED Download!cardVars
    BY <1>3, <2>1 DEF Download!BlockTimesOut, Download!cardVars, Download!Final,
                      Download!ReceiptsNotLost
  <2>2. CASE Download!CardInstalls /\ r11' \in {"none", "ok"}
    BY <1>3, <2>2, DownloadInstalls DEF Download!BlockTimesOut, Download!Final
  <2>3. CASE r11' = "refused" /\ UNCHANGED <<r10, r12>>
    BY <1>3, <2>3 DEF Download!BlockTimesOut, Download!Final, Download!ReceiptsNotLost
  <2> QED BY <1>3, <2>1, <2>2, <2>3 DEF Download!BlockTimesOut
<1>4. CASE Download!Recovered
  BY <1>4 DEF Download!Recovered, Download!Final, Download!ReceiptsNotLost
<1>5. CASE Download!RecoverFails
  BY <1>5 DEF Download!RecoverFails, Download!cardVars, Download!Final, Download!ReceiptsNotLost
<1> QED BY <1>1, <1>2, <1>3, <1>4, <1>5

\* The list of profiles has it only when it is there.
LEMMA DownloadVerifies ==
  ASSUME Download!DownloadBounds, Download!DownloadInv, Download!Verify
           \/ Download!VerifyRecovered \/ Download!Written
  PROVE  Download!DownloadInv'
<1> USE DEF Download!DownloadInv, Download!DownloadTypeOK, Download!PackageOnCard,
            Download!SuccessIsInstalled, Download!ReceiptsNotLost,
            Download!SessionNotLeftOpen, Download!cardVars, Download!Stay
<1>1. CASE Download!Verify
  <2>1. "found" \in Download!Verdict => r10
    BY DEF Download!Verdict
  <2> QED BY <1>1, <2>1 DEF Download!Verify, Download!AcceptUnanswered, Download!Final
<1>2. CASE Download!VerifyRecovered
  BY <1>2 DEF Download!VerifyRecovered, Download!Final
<1>3. CASE Download!Written
  BY <1>3 DEF Download!Written, Download!Final, Download!DownloadBounds
<1> QED BY <1>1, <1>2, <1>3

\* A receipt leaves the card with the word of the server only.
LEMMA DownloadReceipts ==
  ASSUME Download!DownloadBounds, Download!DownloadInv,
         Download!List \/ Download!Listed \/ Download!ReceiptsDone
           \/ (\E n \in Download!Receipts, ok \in BOOLEAN : Download!Send(n, ok))
  PROVE  Download!DownloadInv'
<1> USE DEF Download!DownloadInv, Download!DownloadTypeOK, Download!PackageOnCard,
            Download!SuccessIsInstalled, Download!ReceiptsNotLost,
            Download!SessionNotLeftOpen, Download!Stay, Download!Final
<1>1. CASE Download!List
  BY <1>1 DEF Download!List, Download!cardVars
<1>2. CASE Download!Listed
  BY <1>2 DEF Download!Listed, Download!runVars, Download!cardVars
<1>3. CASE Download!ReceiptsDone
  BY <1>3 DEF Download!ReceiptsDone, Download!cardVars
<1>4. CASE \E n \in Download!Receipts, ok \in BOOLEAN : Download!Send(n, ok)
  <2> PICK n \in Download!Receipts, ok \in BOOLEAN : Download!Send(n, ok)
    BY <1>4
  <2>1. /\ r1 = "sending" /\ r1' \in {"sending", "done"} /\ r8' \subseteq r8
        /\ r13 \subseteq r13' /\ r13' \subseteq r13 \union {n}
        /\ \/ UNCHANGED r12
           \/ r12' = r12 \ {n} /\ n \in r13'
        /\ UNCHANGED <<r2, r3, r4, r5, r6, r10, r11>>
        /\ UNCHANGED <<r7, r9, r14, r15>>
    BY DEF Download!Send, Download!Removes
  <2> QED BY <2>1
<1> QED BY <1>1, <1>2, <1>3, <1>4

\* The end of a download, however it comes.
LEMMA DownloadEndsWell ==
  ASSUME Download!DownloadBounds, Download!DownloadInv, Download!Finish \/ Download!Catch
           \/ Download!UserCancels \/ Download!PageClosed \/ Download!Done
  PROVE  Download!DownloadInv'
<1> USE DEF Download!DownloadInv, Download!DownloadTypeOK, Download!PackageOnCard,
            Download!SuccessIsInstalled, Download!ReceiptsNotLost,
            Download!SessionNotLeftOpen, Download!cardVars, Download!runVars, Download!Final
<1>1. CASE Download!Finish
  BY <1>1 DEF Download!Finish
<1>2. CASE Download!Catch
  BY <1>2 DEF Download!Catch, Download!Cancels
<1>3. CASE Download!UserCancels
  BY <1>3 DEF Download!UserCancels
<1>4. CASE Download!PageClosed
  BY <1>4 DEF Download!PageClosed
<1>5. CASE Download!Done
  BY <1>5 DEF Download!Done, Download!vars
<1> QED BY <1>1, <1>2, <1>3, <1>4, <1>5

\* Every step keeps it.
LEMMA DownloadKept ==
  ASSUME Download!DownloadBounds, Download!DownloadInv, Download!Next
  PROVE  Download!DownloadInv'
BY DownloadSteps, DownloadBlocks, DownloadVerifies, DownloadReceipts,
DownloadEndsWell DEF Download!Next

\* It speaks of nothing but the variables of the machine.
LEMMA DownloadStutters ==
  ASSUME Download!DownloadInv,
         UNCHANGED <<r1, r2, r3, r4, r5, r6, r7, r8, r9, r10, r11, r12, r13, r14, r15, r16>>
  PROVE  Download!DownloadInv'
BY DEF Download!Final, Download!DownloadTypeOK, Download!SuccessIsInstalled,
       Download!ReceiptsNotLost, Download!SessionNotLeftOpen,
       Download!PackageOnCard, Download!DownloadInv

\* What it says.
LEMMA DownloadHolds ==
  ASSUME Download!DownloadInv
  PROVE  Download!DownloadTypeOK /\ Download!SuccessIsInstalled /\ Download!ReceiptsNotLost /\ Download!SessionNotLeftOpen
BY DEF Download!DownloadInv

-----------------------------------------------------------------------------
(* The upgrade of the firmware.                                            *)

Upgrade == INSTANCE UpgradePage WITH
    agreed <- r1, pc <- r2, step <- r3, version <- r4, baseVersion <- r5,
    lastState <- r6, same <- r7, saw <- r8, fwupSent <- r9,
    fwupTries <- r10, said <- r11, fota <- r12, task <- r13,
    firmware <- r14, burns <- r15, unanswered <- r16, flows <- r17,
    lost <- r18, waiting <- r19,
    MaxTries <- Size.upgrade.tries, Flows <- Bound.flows,
    MaxLost <- Bound.lost

\* Success is told of a version that was read, and that is another one.
LEMMA UpgradeTells == ASSUME Upgrade!Next PROVE Upgrade!SuccessIsNewFirmware
<1>1. ASSUME NEW now \in {Upgrade!Unknown, r14},
             Upgrade!Check(now) PROVE Upgrade!SuccessIsNewFirmware
  <2>1. CASE Upgrade!Judged(now) = "success"
    <3>1. now # Upgrade!Unknown /\ now # r5
      BY <2>1 DEF Upgrade!Judged
    <3> QED BY <3>1 DEF Upgrade!SuccessIsNewFirmware
  <2>2. CASE Upgrade!Judged(now) # "success"
    BY <1>1, <2>2 DEF Upgrade!Check, Upgrade!End, Upgrade!SuccessIsNewFirmware
  <2> QED BY <2>1, <2>2
<1>2. ASSUME r11' = r11 \/ r11' # "success" PROVE Upgrade!SuccessIsNewFirmware
  BY <1>2 DEF Upgrade!SuccessIsNewFirmware
<1>3. ASSUME NEW expired \in BOOLEAN, Upgrade!Poll(expired) PROVE r11' = r11 \/ r11' # "success"
  <2>1. Upgrade!Tick(r12, expired)
    BY <1>3 DEF Upgrade!Poll
  <2> QED BY <2>1 DEF Upgrade!Tick, Upgrade!End
<1>4. ASSUME Upgrade!TakeBase \/ Upgrade!QueryState \/ Upgrade!AddressSet \/ Upgrade!PollLost
               \/ Upgrade!FwupAccepted \/ Upgrade!Agree \/ Upgrade!ModemMoves
             \/ Upgrade!AskEarly \/ Upgrade!Cancelled \/ Upgrade!Done
      PROVE  r11' = r11
  BY <1>4 DEF Upgrade!TakeBase, Upgrade!QueryState, Upgrade!AddressSet, Upgrade!PollLost,
              Upgrade!FwupAccepted, Upgrade!Agree, Upgrade!ModemMoves, Upgrade!Cancelled,
              Upgrade!AskEarly, Upgrade!Done, Upgrade!vars, Upgrade!page
<1>5. ASSUME Upgrade!NotIdle \/ Upgrade!AddressFails \/ Upgrade!FwupFails
               \/ Upgrade!Start PROVE r11' = r11 \/ r11' # "success"
  BY <1>5 DEF Upgrade!NotIdle, Upgrade!AddressFails, Upgrade!FwupFails, Upgrade!Start, Upgrade!End
<1> QED BY <1>1, <1>2, <1>3, <1>4, <1>5 DEF Upgrade!Next, Upgrade!PageMoves

\* The invariant holds at the start.
LEMMA UpgradeBegins == ASSUME Upgrade!Init PROVE Upgrade!UpgradeInv
BY DEF Upgrade!Init, Upgrade!UpgradeInv

\* Every step keeps it.
LEMMA UpgradeKept == ASSUME Upgrade!UpgradeInv, Upgrade!Next PROVE Upgrade!UpgradeInv'
<1>1. /\ r15 \in Nat /\ r9 \in BOOLEAN /\ r16 \in BOOLEAN
      /\ "fwup" \in r19 => r9 /\ r3 = 3
      /\ r19 \subseteq {"fwup", "poll"} /\ (r19 # {} => r2 \in {"poll", "ready"})
      /\ r16 \/ r15 = 0 \/ (r15 = 1 /\ r9 /\ "fwup" \notin r19)
  BY DEF Upgrade!UpgradeInv
<1>2. ASSUME UNCHANGED <<r15, r16, r9>>, "fwup" \in r19' <=> "fwup" \in r19,
             "fwup" \in r19 => r3' = r3,
             r19' \subseteq {"fwup", "poll"}, r19' # {} => r2' \in {"poll", "ready"}
      PROVE  Upgrade!UpgradeInv'
  BY <1>1, <1>2 DEF Upgrade!UpgradeInv
<1>3. ASSUME Upgrade!Start PROVE Upgrade!UpgradeInv'
  <2>1. /\ r3 = 0 /\ "poll" \notin r19 /\ r19' = r19
        /\ r15' = 0 /\ r16' = FALSE /\ r9' = FALSE
    BY <1>3 DEF Upgrade!Start, Upgrade!Forgets
  <2>2. r19 = {}
    BY <1>1, <2>1 DEF Upgrade!UpgradeInv
  <2> QED BY <2>1, <2>2 DEF Upgrade!UpgradeInv
<1>4. ASSUME NEW expired \in BOOLEAN, Upgrade!Poll(expired) PROVE Upgrade!UpgradeInv'
  <2>1. /\ Upgrade!Tick(r12, expired) /\ UNCHANGED <<r15, r16>>
        /\ "fwup" \notin r19 /\ (r2 = "poll" \/ "poll" \in r19)
    BY <1>4 DEF Upgrade!Poll, Upgrade!Polled, Upgrade!history
  <2>2. CASE r12 = 40 /\ ~r9
    <3>1. r3' = 3 /\ r9' = TRUE /\ r2' = r2
      BY <2>1, <2>2 DEF Upgrade!Tick, Upgrade!SendsFwup, Upgrade!Failed
    <3>2. r2 \in {"poll", "ready"}
      BY <1>1, <2>1
    <3>3. r19' \subseteq {"fwup", "poll"}
      BY <2>1 DEF Upgrade!Tick
    <3> QED BY <1>1, <2>1, <2>2, <3>1, <3>2, <3>3 DEF Upgrade!UpgradeInv
  <2>3. CASE ~(r12 = 40 /\ ~r9)
    <3>1. r19' = {} /\ r9' = r9
      BY <2>1, <2>3 DEF Upgrade!Tick, Upgrade!SendsFwup, Upgrade!Failed, Upgrade!End
    <3> QED BY <1>1, <2>1, <3>1 DEF Upgrade!UpgradeInv
  <2> QED BY <2>2, <2>3
<1>5. ASSUME Upgrade!FwupAccepted PROVE Upgrade!UpgradeInv'
  <2>1. "fwup" \in r19 /\ r19' = r19 \ {"fwup"} /\ r15' = r15 + 1 /\ UNCHANGED <<r2, r9, r16>>
    BY <1>5 DEF Upgrade!FwupAccepted, Upgrade!Answered, Upgrade!Burns, Upgrade!memory
  <2> QED BY <1>1, <2>1 DEF Upgrade!UpgradeInv
<1>6. ASSUME Upgrade!FwupFails PROVE Upgrade!UpgradeInv'
  <2>1. /\ "fwup" \in r19 /\ r9' = FALSE /\ r19' = r19 \ {"fwup"} /\ (r2' = r2 \/ r2' = "ready")
        /\ \/ UNCHANGED <<r15, r16>>
           \/ r15' = r15 + 1 /\ r16' = TRUE
    BY <1>6 DEF Upgrade!FwupFails, Upgrade!Answered, Upgrade!Burns, Upgrade!Retries, Upgrade!End
  <2>2. CASE UNCHANGED <<r15, r16>>
    BY <1>1, <2>1, <2>2 DEF Upgrade!UpgradeInv
  <2>3. CASE r15' = r15 + 1 /\ r16' = TRUE
    <3>1. r15' \in Nat
      BY <1>1, <2>3
    <3> QED BY <2>1, <2>3, <3>1 DEF Upgrade!UpgradeInv
  <2> QED BY <2>1, <2>2, <2>3
<1>7. ASSUME Upgrade!TakeBase \/ Upgrade!QueryState \/ Upgrade!NotIdle \/ Upgrade!AddressSet
               \/ Upgrade!AddressFails
             \/ \E now \in {Upgrade!Unknown, r14} : Upgrade!Check(now)
      PROVE  Upgrade!UpgradeInv'
  <2>1. r2 \in {"begin", "init", "address", "check"} /\ UNCHANGED <<r15, r16, r9, r19>>
    BY <1>7 DEF Upgrade!TakeBase, Upgrade!QueryState, Upgrade!NotIdle, Upgrade!AddressSet,
                Upgrade!AddressFails, Upgrade!Check, Upgrade!memory, Upgrade!history
  <2>2. r19 = {}
    BY <1>1, <2>1
  <2> QED BY <1>1, <1>2, <2>1, <2>2
<1>8. ASSUME Upgrade!PollLost PROVE Upgrade!UpgradeInv'
  <2>1. "fwup" \notin r19 /\ r19' = {} /\ UNCHANGED <<r2, r3, r9, r15, r16>>
    BY <1>8 DEF Upgrade!PollLost, Upgrade!Polled, Upgrade!history
  <2> QED BY <1>1, <1>2, <2>1
<1>9. ASSUME Upgrade!AskEarly PROVE Upgrade!UpgradeInv'
  <2>1. /\ r2 = "poll" /\ r19 = {"fwup"} /\ r19' = {"fwup", "poll"}
        /\ UNCHANGED <<r2, r3, r9, r15, r16>>
    BY <1>9 DEF Upgrade!AskEarly, Upgrade!memory, Upgrade!history
  <2> QED BY <1>1, <1>2, <2>1
<1>10. ASSUME Upgrade!Agree \/ Upgrade!ModemMoves \/ Upgrade!Cancelled
               \/ Upgrade!Done PROVE Upgrade!UpgradeInv'
  <2>1. UNCHANGED <<r2, r3, r9, r15, r16, r19>>
    BY <1>10 DEF Upgrade!Agree, Upgrade!ModemMoves, Upgrade!Cancelled, Upgrade!Done,
                 Upgrade!vars, Upgrade!page, Upgrade!memory, Upgrade!history
  <2> QED BY <1>1, <1>2, <2>1
<1> QED BY <1>3, <1>4, <1>5, <1>6, <1>7, <1>8, <1>9, <1>10
      DEF Upgrade!Next, Upgrade!PageMoves

\* It speaks of nothing but the variables of the machine.
LEMMA UpgradeStutters ==
  ASSUME Upgrade!UpgradeInv,
         UNCHANGED <<r1, r2, r3, r4, r5, r6, r7, r8, r9,
                    r10, r11, r12, r13, r14, r15, r16, r17,
                    r18, r19>>
  PROVE  Upgrade!UpgradeInv'
BY DEF Upgrade!UpgradeInv

\* What it says.
LEMMA UpgradeHolds == ASSUME Upgrade!UpgradeInv PROVE Upgrade!BurnsOnce
BY DEF Upgrade!UpgradeInv, Upgrade!BurnsOnce

-----------------------------------------------------------------------------
(* The shell of the pages.                                                 *)

Shell == INSTANCE PageShell WITH
    opened <- r1, inView <- r2, shell <- r3, waiting <- r4, watchers <- r5,
    wasIn <- r6, sweeping <- r7, subs <- r8, timers <- r9, cleaned <- r10,
    MaxPages <- Size.shell.pages

\* The invariant holds at the start.
LEMMA ShellBegins == ASSUME Shell!ShellBounds, Shell!Init PROVE Shell!ShellInv
<1>1. 0 \in 0..Size.shell.pages
  BY DEF Shell!ShellBounds
<1>2. /\ r1 \in 0..Size.shell.pages /\ r2 \in 0..Size.shell.pages /\ r3 \in 0..Size.shell.pages
      /\ r5 = {} /\ r6 = {} /\ r8 = {} /\ r9 = {} /\ r4 = {} /\ r7 = FALSE
  BY <1>1 DEF Shell!Init, Shell!None
<1> QED BY <1>2 DEF Shell!ShellInv, Shell!ShellTypeOK, Shell!SweepsWhileNeeded

\* A page is built.
LEMMA ShellGrows ==
  ASSUME Shell!ShellBounds, Shell!ShellInv, Shell!Build
  PROVE  Shell!ShellInv'
<1>1. r1' \in Shell!Pages /\ r1' \in 0..Size.shell.pages
  BY DEF Shell!Build, Shell!ShellBounds, Shell!ShellInv, Shell!ShellTypeOK, Shell!Pages
<1>2. {r1'} \X Shell!Parts \subseteq Shell!Pages \X Shell!Parts /\ <<r1', "page">> \in {r1'} \X Shell!Parts
  BY <1>1 DEF Shell!Parts
<1>3. r5' \subseteq Shell!Pages \X Shell!Parts /\ r5' # {} /\ r6' \subseteq r5'
  BY <1>2 DEF Shell!Build, Shell!ShellInv, Shell!ShellTypeOK
<1> QED BY <1>1, <1>3 DEF Shell!Build, Shell!ShellInv, Shell!ShellTypeOK, Shell!SweepsWhileNeeded

\* The sweep of the pages that have left.
LEMMA ShellSweeps ==
  ASSUME Shell!ShellBounds, Shell!ShellInv, Shell!Sweep
  PROVE  Shell!ShellInv'
<1> DEFINE gone == {w \in r5 : Shell!Left(w)}
           pages == {p \in Shell!Pages : <<p, "page">> \in gone}
<1>1. /\ r5' = r5 \ gone /\ r6' = (r6 \ gone) \union {w \in r5 : Shell!InDoc(w[1])}
      /\ r8' = Shell!Unsubscribed(gone) /\ r3' = (IF pages = {} THEN r3 ELSE Shell!None)
      /\ r7' = (r5' # {}) /\ UNCHANGED <<r1, r2, r4, r9>>
  BY DEF Shell!Sweep
<1>2. \A w \in r5 : Shell!InDoc(w[1]) => w \notin gone
  BY DEF Shell!Left
<1>3. r5' \subseteq Shell!Pages \X Shell!Parts /\ r6' \subseteq r5'
  BY <1>1, <1>2 DEF Shell!ShellInv, Shell!ShellTypeOK
<1>4. r8' \subseteq Shell!Pages
  BY <1>1 DEF Shell!Unsubscribed, Shell!ShellInv, Shell!ShellTypeOK
<1>5. r3' \in 0..Size.shell.pages
  BY <1>1 DEF Shell!ShellInv, Shell!ShellTypeOK, Shell!None, Shell!ShellBounds
<1> QED BY <1>1, <1>3, <1>4, <1>5 DEF Shell!ShellInv, Shell!ShellTypeOK, Shell!SweepsWhileNeeded

\* A page enters the document, or waits for it.
LEMMA ShellMoves ==
  ASSUME Shell!ShellBounds, Shell!ShellInv, NEW p \in Shell!Pages, Shell!Attach(p)
           \/ Shell!GivesUp(p) \/ Shell!Tick(p) \/ Shell!Mount(p)
  PROVE  Shell!ShellInv'
<1>1. p \in 0..Size.shell.pages /\ Shell!None \in 0..Size.shell.pages
  BY DEF Shell!Pages, Shell!ShellBounds, Shell!None
<1>2. r2' \in 0..Size.shell.pages /\ r3' \in 0..Size.shell.pages /\ r9' \subseteq Shell!Pages /\ r4' \subseteq Shell!Pages
  BY <1>1 DEF Shell!Attach, Shell!GivesUp, Shell!Tick, Shell!Mount, Shell!ShellInv,
              Shell!ShellTypeOK
<1>3. UNCHANGED <<r1, r5, r6, r7, r8>>
  BY DEF Shell!Attach, Shell!GivesUp, Shell!Tick, Shell!Mount
<1> QED BY <1>2, <1>3 DEF Shell!ShellInv, Shell!ShellTypeOK, Shell!SweepsWhileNeeded

\* LuCI shows another page.
LEMMA ShellLeaves ==
  ASSUME Shell!ShellBounds, Shell!ShellInv, Shell!Leave
  PROVE  Shell!ShellInv'
<1>1. r2' \in 0..Size.shell.pages /\ UNCHANGED <<r1, r3, r4, r5, r6, r7, r8, r9>>
  BY DEF Shell!Leave, Shell!None, Shell!ShellBounds
<1> QED BY <1>1 DEF Shell!ShellInv, Shell!ShellTypeOK, Shell!SweepsWhileNeeded

\* Every step keeps it.
LEMMA ShellKept == ASSUME Shell!ShellBounds, Shell!ShellInv, Shell!Next PROVE Shell!ShellInv'
BY ShellGrows, ShellSweeps, ShellMoves, ShellLeaves DEF Shell!Next, Shell!Timers

\* It speaks of nothing but the variables of the machine.
LEMMA ShellStutters ==
  ASSUME Shell!ShellInv, UNCHANGED <<r1, r2, r3, r4, r5, r6, r7, r8, r9, r10>>
  PROVE  Shell!ShellInv'
BY DEF Shell!ShellTypeOK, Shell!SweepsWhileNeeded, Shell!ShellInv

\* What it says.
LEMMA ShellHolds == ASSUME Shell!ShellInv PROVE Shell!ShellTypeOK /\ Shell!SweepsWhileNeeded
BY DEF Shell!ShellInv

\* Only pages that have left are cleaned up.
LEMMA ShellCleans == ASSUME Shell!Next PROVE Shell!CleansOnlyWhatLeft
<1>1. CASE Shell!Sweep
  <2> DEFINE gone == {w \in r5 : Shell!Left(w)}
             pages == {p \in Shell!Pages : <<p, "page">> \in gone}
  <2>1. r10' = r10 \union pages
    BY <1>1 DEF Shell!Sweep
  <2>2. \A p \in pages : ~Shell!InDoc(p) /\ <<p, "page">> \in r6
    BY DEF Shell!Left
  <2> QED BY <2>1, <2>2 DEF Shell!CleansOnlyWhatLeft
<1>2. CASE UNCHANGED r10
  BY <1>2 DEF Shell!CleansOnlyWhatLeft
<1> QED BY <1>1, <1>2 DEF Shell!Next, Shell!Timers, Shell!Build, Shell!Leave, Shell!Attach,
                          Shell!GivesUp, Shell!Tick, Shell!Mount

-----------------------------------------------------------------------------
(* The speed of an interface.                                              *)

Meter == INSTANCE SpeedMeter WITH
    inSight <- r1, period <- r2, now <- r3, counter <- r4, device <- r5,
    sample <- r6, request <- r7, speed <- r8, resets <- r9,
    MaxTime <- Size.meter.time, MaxBytes <- Size.meter.bytes,
    MaxResets <- Size.meter.resets

\* The invariant holds at the start.
LEMMA MeterBegins == ASSUME Meter!MeterBounds, Meter!MeterInit PROVE Meter!MeterInv
BY DEF Meter!MeterBounds, Meter!MeterInit, Meter!MeterInv, Meter!Readings, Meter!NoSample,
       Meter!NoRequest, Meter!NoSpeed, Meter!Unread, Meter!RateIsReal

\* Time passes, the interface is set up anew, or the page is hidden or shown.
LEMMA MeterBeside ==
  ASSUME Meter!MeterBounds, Meter!MeterInv, Meter!Passes \/ Meter!Resets \/ Meter!Hide \/ Meter!Show
  PROVE  Meter!MeterInv'
<1>1. CASE Meter!Passes
  BY <1>1 DEF Meter!MeterBounds, Meter!MeterInv, Meter!Passes, Meter!RateIsReal, Meter!Readings
<1>2. CASE Meter!Resets
  BY <1>2 DEF Meter!MeterBounds, Meter!MeterInv, Meter!Resets, Meter!RateIsReal, Meter!Readings
<1>3. CASE Meter!Hide
  BY <1>3 DEF Meter!MeterInv, Meter!Hide, Meter!RateIsReal, Meter!Readings
<1>4. CASE Meter!Show
  BY <1>4 DEF Meter!MeterBounds, Meter!MeterInv, Meter!Show, Meter!RateIsReal, Meter!Readings,
              Meter!DropsSample, Meter!NoSample, Meter!Unread
<1> QED BY <1>1, <1>2, <1>3, <1>4

\* A reading is asked for.
LEMMA MeterAsks ==
  ASSUME Meter!MeterBounds, Meter!MeterInv, Meter!Sample
  PROVE  Meter!MeterInv'
<1>1. r7'.rx \in Meter!Readings
  BY DEF Meter!Sample, Meter!MeterInv, Meter!Readings
<1> QED BY <1>1 DEF Meter!Sample, Meter!MeterInv, Meter!RateIsReal, Meter!Readings

\* It comes, or does not.
LEMMA MeterAnswered ==
  ASSUME Meter!MeterBounds, Meter!MeterInv, Meter!Sampled \/ Meter!SampleFails
  PROVE  Meter!MeterInv'
<1>1. r7' = Meter!NoRequest /\ UNCHANGED <<r3, r4, r2>>
  BY DEF Meter!Sampled, Meter!SampleFails
<1>2. r7'.rx \in Meter!Readings
  BY <1>1 DEF Meter!NoRequest, Meter!Readings
<1> DEFINE new == [at |-> r3, rx |-> r7.rx, dev |-> r7.dev, period |-> r2]
<1>3. \/ r6' = r6 /\ r8' = r8
      \/ r6' = Meter!NoSample /\ r8' = Meter!NoSpeed
      \/ r6' = new /\ r8' = r8
      \/ /\ r6' = new /\ r6 # Meter!NoSample /\ r3 > r6.at
         /\ r6.rx # Meter!Unread /\ r7.rx # Meter!Unread
         /\ r8' = [bytes |-> Meter!Rate(r7.rx - r6.rx), time |-> r3 - r6.at,
                      period |-> IF r6.period = r2 THEN 0 ELSE 1]
  BY DEF Meter!Sampled, Meter!SampleFails
<1>4. /\ new.at \in Nat /\ new.rx \in Meter!Readings /\ new.period = r2
      /\ Meter!NoSample.at \in Nat /\ Meter!NoSample.rx \in Meter!Readings
  BY DEF Meter!MeterInv, Meter!NoSample, Meter!Readings
<1>5. /\ r6'.at \in Nat /\ r6'.rx \in Meter!Readings
      /\ r6' = Meter!NoSample \/ r6'.period = r2'
  <2> HIDE DEF new
  <2> QED BY <1>1, <1>3, <1>4 DEF Meter!MeterInv, Meter!Readings
<1>6. Meter!RateIsReal'
  <2>1. CASE r8' = r8
    BY <2>1 DEF Meter!MeterInv, Meter!RateIsReal
  <2>2. CASE r8' = Meter!NoSpeed
    BY <2>2 DEF Meter!MeterBounds, Meter!NoSpeed, Meter!RateIsReal
  <2>3. CASE /\ r6 # Meter!NoSample /\ r3 > r6.at
             /\ r6.rx # Meter!Unread /\ r7.rx # Meter!Unread
             /\ r8' = [bytes |-> Meter!Rate(r7.rx - r6.rx), time |-> r3 - r6.at,
                          period |-> IF r6.period = r2 THEN 0 ELSE 1]
    <3>1. r6.period = r2 /\ r6.rx \in 0..Size.meter.bytes /\ r7.rx \in 0..Size.meter.bytes
      BY <2>3 DEF Meter!MeterInv, Meter!Readings
    <3>2. Meter!Rate(r7.rx - r6.rx) \in 0..Size.meter.bytes
      BY <3>1 DEF Meter!MeterBounds, Meter!Rate
    <3>3. r3 - r6.at > 0
      BY <2>3 DEF Meter!MeterInv
    <3>4. r8'.period = 0 /\ r8'.time = r3 - r6.at /\ r8'.bytes = Meter!Rate(r7.rx - r6.rx)
      BY <2>3, <3>1
    <3> QED BY <3>2, <3>3, <3>4 DEF Meter!RateIsReal
  <2> QED BY <1>3, <2>1, <2>2, <2>3
<1> QED BY <1>1, <1>2, <1>5, <1>6 DEF Meter!MeterInv, Meter!Readings

\* Every step keeps it.
LEMMA MeterKept == ASSUME Meter!MeterBounds, Meter!MeterInv, Meter!MeterNext PROVE Meter!MeterInv'
BY MeterBeside, MeterAsks, MeterAnswered DEF Meter!MeterNext

\* It speaks of nothing but the variables of the machine.
LEMMA MeterStutters ==
  ASSUME Meter!MeterInv, UNCHANGED <<r1, r2, r3, r4, r5, r6, r7, r8, r9>>
  PROVE  Meter!MeterInv'
BY DEF Meter!MeterInv, Meter!RateIsReal, Meter!Readings

\* What it says.
LEMMA MeterHolds == ASSUME Meter!MeterInv PROVE Meter!RateIsReal
BY DEF Meter!MeterInv

-----------------------------------------------------------------------------
(* The rounds of the status page.                                          *)

Status == INSTANCE StatusPage WITH
    modem <- r1, known <- r2, title <- r3, hidden <- r4, auto <- r5,
    left <- r6, timers <- r7, fast <- r8, slow <- r9, then <- r10,
    dev <- r11, devDue <- r12, got <- r13, unfounded <- r14, changes <- r15,
    failsLeft <- r16, looks <- r17,
    MaxChanges <- Size.status.changes, MaxFail <- Size.status.failed,
    MaxLooks <- Bound.looks

\* The invariant holds at the start.
LEMMA StatusBegins == ASSUME Status!Init PROVE Status!StatusInv
BY DEF Status!Init, Status!StatusInv, Status!AsksOnlySeen, Status!Wished

\* Every step keeps it.
LEMMA StatusKept == ASSUME Status!StatusInv, Status!Next PROVE Status!StatusInv'
<1>1. r4 \in BOOLEAN /\ r6 \in BOOLEAN /\ r5 \in BOOLEAN
  BY DEF Status!StatusInv
<1>2. ASSUME UNCHANGED <<r4, r5, r6, r7>> PROVE Status!StatusInv'
  BY <1>2 DEF Status!StatusInv, Status!AsksOnlySeen
<1>3. ASSUME Status!Changes \/ Status!TickFast \/ Status!TickSlow \/ Status!Rounds
               \/ Status!ClickRefresh PROVE Status!StatusInv'
  BY <1>2, <1>3 DEF Status!Changes, Status!TickFast, Status!TickSlow, Status!Rounds,
                    Status!FastRead, Status!FastDraw, Status!TaskReg, Status!TaskAddr,
                    Status!TaskDev,
                    Status!SlowEnd, Status!DevRead, Status!ClickRefresh, Status!viewVars
<1>4. ASSUME Status!Hide \/ Status!Dispose PROVE Status!StatusInv'
  BY <1>1, <1>4 DEF Status!Hide, Status!Dispose, Status!Wished, Status!StatusInv,
                    Status!AsksOnlySeen
<1>5. ASSUME Status!Show PROVE Status!StatusInv'
  BY <1>1, <1>5 DEF Status!Show, Status!Looks, Status!Wished, Status!StatusInv, Status!AsksOnlySeen
<1>6. ASSUME Status!SetAuto PROVE Status!StatusInv'
  BY <1>1, <1>6 DEF Status!SetAuto, Status!Looks, Status!Wished, Status!StatusInv,
                    Status!AsksOnlySeen
<1> QED BY <1>3, <1>4, <1>5, <1>6 DEF Status!Next

\* It speaks of nothing but the variables of the machine.
LEMMA StatusStutters ==
  ASSUME Status!StatusInv,
         UNCHANGED <<r1, r2, r3, r4, r5, r6, r7, r8, r9, r10, r11, r12, r13,
                     r14, r15, r16, r17>>
  PROVE  Status!StatusInv'
BY DEF Status!StatusInv, Status!AsksOnlySeen

\* What it says.
LEMMA StatusHolds == ASSUME Status!StatusInv PROVE Status!AsksOnlySeen
BY DEF Status!StatusInv

-----------------------------------------------------------------------------
(* The profiles of the card.                                               *)

Esim == INSTANCE EsimPage WITH
    left <- r1, busy <- r2, dialog <- r3, running <- r4, polls <- r5,
    verdict <- r6, shown <- r7, enabled <- r8, live <- r9, clicks <- r10,
    Profiles <- Size.esim.profiles, Clicks <- Size.esim.clicks,
    Polls <- Size.esim.polls

\* A switch is called live when the page has read that it is.
LEMMA EsimJudges == ASSUME Esim!Next PROVE Esim!EnabledIsLive
<1>1. ASSUME NEW poll \in r5, NEW read \in BOOLEAN,
             Esim!PollJudges(poll, read) PROVE Esim!EnabledIsLive
  <2>1. CASE Esim!Converged(poll, read)
    <3>1. r6' = Esim!Verdict("converged", poll.op) /\ r9 = poll.op.p
      BY <1>1, <2>1 DEF Esim!PollJudges, Esim!Converged
    <3> QED BY <3>1 DEF Esim!EnabledIsLive, Esim!Verdict
  <2>2. CASE ~Esim!Converged(poll, read)
    <3>1. r6' = r6 \/ r6' = Esim!Verdict("unconfirmed", poll.op)
      BY <1>1, <2>2 DEF Esim!PollJudges
    <3> QED BY <3>1 DEF Esim!EnabledIsLive, Esim!Verdict
  <2> QED BY <2>1, <2>2
<1>2. ASSUME r6' = r6 PROVE Esim!EnabledIsLive
  BY <1>2 DEF Esim!EnabledIsLive
<1>3. \/ r6' = r6
      \/ \E poll \in r5, read \in BOOLEAN : Esim!PollJudges(poll, read)
  BY DEF Esim!Next, Esim!Ask, Esim!Dismiss, Esim!Confirm, Esim!Read, Esim!Switched,
         Esim!SwitchUnclear, Esim!Probed, Esim!Ended, Esim!Follows, Esim!TryOnce,
         Esim!PollListed, Esim!Dispose, Esim!Done, Esim!vars
<1> QED BY <1>1, <1>2, <1>3
-----------------------------------------------------------------------------
(* The machines together.                                                  *)

CONSTANT Chosen     \* the pages that are looked at

Sizes ==
    [session |-> [channels |-> 3, work |-> 2, sessions |-> 4, trouble |-> 3],
     download |-> [blocks |-> 2, old |-> {1, 2}, downloads |-> 2, trouble |-> 3],
     wizard |-> [wizards |-> 2, clicks |-> 4, looks |-> 2],
     lock |-> [values |-> {0, 1}, clicks |-> 2, tries |-> 2],
     modem |-> [clicks |-> 2, pins |-> 2],
     syscfg |-> [bands |-> {"b1", "b2"}, saves |-> 3, picks |-> 2],
     send |-> [pages |-> {"A", "B"}, chains |-> {1, 2}, sends |-> 2, failed |-> 1],
     service |-> [values |-> {"a", "out"}, chains |-> {1, 2}, clicks |-> 2, trouble |-> 1],
     shell |-> [pages |-> 3],
     store |-> [requests |-> {"r1", "r2"}, keys |-> 3, failed |-> 2],
     esim |-> [profiles |-> {"a", "b"}, clicks |-> 2, polls |-> 2],
     upgrade |-> [tries |-> 3],
     staged |-> [keys |-> {"a", "b"}, settings |-> {"x", "y"}, edits |-> 3],
     dial |-> [modes |-> {0, 1}, clicks |-> 2, failed |-> 1],
     smsset |-> [numbers |-> {"n1"}, clicks |-> 2, failed |-> 1],
     diag |-> [commands |-> <<"CFUN", "CGPADDR">>, addresses |-> {"x", "y"}, runs |-> 2, failed |-> 1,
               checks |-> <<"temperature", "address", "ping_gateway", "ping_public">>],
     term |-> [commands |-> {"q", "d"}, dangerous |-> {"d"}, lines |-> 2, sends |-> 3, keys |-> 6],
     sms |-> [peers |-> {"A", "B"}, senders |-> {"A"}, slots |-> {1, 2}, messages |-> 2, acts |-> 3,
              replays |-> 1, failed |-> 1],
     status |-> [changes |-> 1, failed |-> 1],
     calls |-> [numbers |-> {"x", "y"}, calls |-> 2, lines |-> 6, cap |-> 3],
     long |-> [messages |-> {1, 2}, keys |-> {"k1", "k2", "k3"}, total |-> 2, partial |-> 2, arrivals |-> 5],
     text |-> [typed |-> {"at", "euro", "emoji"}, octets |-> 10, chars |-> 6],
     meter |-> [time |-> 4, bytes |-> 2, resets |-> 1],
     sched |-> [bands |-> {"b1"}, channels |-> {"c1", "c2"}, rows |-> 2, intervals |-> {1, 15}, failed |-> 1],
     logs |-> [lines |-> {"net_debug", "sys", "note"}, keep |-> 3, failed |-> 1],
     notify |-> [queue |-> 1, pending |-> 2, tries |-> 3, window |-> 5]]

Wide == [flows |-> 2, lost |-> 3, edits |-> 4, fails |-> 2, restarts |-> 1, looks |-> 1, lines |-> 3, views |-> 2,
    notices |-> 4]
Narrow == [flows |-> 1, lost |-> 1, edits |-> 3, fails |-> 1, restarts |-> 0, looks |-> 0, lines |-> 2, views |-> 1,
    notices |-> 3]

VARIABLE page       \* the page in view

registers == <<r1, r2, r3, r4, r5, r6, r7, r8, r9, r10, r11, r12, r13, r14,
    r15, r16, r17, r18, r19, r20, r21, r22, r23, r24>>

Sim == INSTANCE SimWatch WITH
    state <- r1, text <- r2, chip <- r3, reads <- r4, simFail <- r5,
    cool <- r6, healing <- r7, sim <- r8, rest <- r9, changes <- r10,
    Threshold <- 3, CoolDown <- 4, MaxChanges <- 3

Unused == "unused"

\* Only the first n registers are used.
Empty(n) ==
    /\ IF n < 4 THEN r4 = Unused ELSE TRUE
    /\ IF n < 5 THEN r5 = Unused ELSE TRUE
    /\ IF n < 6 THEN r6 = Unused ELSE TRUE
    /\ IF n < 7 THEN r7 = Unused ELSE TRUE
    /\ IF n < 8 THEN r8 = Unused ELSE TRUE
    /\ IF n < 9 THEN r9 = Unused ELSE TRUE
    /\ IF n < 10 THEN r10 = Unused ELSE TRUE
    /\ IF n < 11 THEN r11 = Unused ELSE TRUE
    /\ IF n < 12 THEN r12 = Unused ELSE TRUE
    /\ IF n < 13 THEN r13 = Unused ELSE TRUE
    /\ IF n < 14 THEN r14 = Unused ELSE TRUE
    /\ IF n < 15 THEN r15 = Unused ELSE TRUE
    /\ IF n < 16 THEN r16 = Unused ELSE TRUE
    /\ IF n < 17 THEN r17 = Unused ELSE TRUE
    /\ IF n < 18 THEN r18 = Unused ELSE TRUE
    /\ IF n < 19 THEN r19 = Unused ELSE TRUE
    /\ IF n < 20 THEN r20 = Unused ELSE TRUE
    /\ IF n < 21 THEN r21 = Unused ELSE TRUE
    /\ IF n < 22 THEN r22 = Unused ELSE TRUE
    /\ IF n < 23 THEN r23 = Unused ELSE TRUE
    /\ IF n < 24 THEN r24 = Unused ELSE TRUE

Kept(n) ==
    /\ IF n < 4 THEN UNCHANGED r4 ELSE TRUE
    /\ IF n < 5 THEN UNCHANGED r5 ELSE TRUE
    /\ IF n < 6 THEN UNCHANGED r6 ELSE TRUE
    /\ IF n < 7 THEN UNCHANGED r7 ELSE TRUE
    /\ IF n < 8 THEN UNCHANGED r8 ELSE TRUE
    /\ IF n < 9 THEN UNCHANGED r9 ELSE TRUE
    /\ IF n < 10 THEN UNCHANGED r10 ELSE TRUE
    /\ IF n < 11 THEN UNCHANGED r11 ELSE TRUE
    /\ IF n < 12 THEN UNCHANGED r12 ELSE TRUE
    /\ IF n < 13 THEN UNCHANGED r13 ELSE TRUE
    /\ IF n < 14 THEN UNCHANGED r14 ELSE TRUE
    /\ IF n < 15 THEN UNCHANGED r15 ELSE TRUE
    /\ IF n < 16 THEN UNCHANGED r16 ELSE TRUE
    /\ IF n < 17 THEN UNCHANGED r17 ELSE TRUE
    /\ IF n < 18 THEN UNCHANGED r18 ELSE TRUE
    /\ IF n < 19 THEN UNCHANGED r19 ELSE TRUE
    /\ IF n < 20 THEN UNCHANGED r20 ELSE TRUE
    /\ IF n < 21 THEN UNCHANGED r21 ELSE TRUE
    /\ IF n < 22 THEN UNCHANGED r22 ELSE TRUE
    /\ IF n < 23 THEN UNCHANGED r23 ELSE TRUE
    /\ IF n < 24 THEN UNCHANGED r24 ELSE TRUE

Init ==
    /\ page \in Chosen
    /\ \/ page = "session" /\ Session!Init /\ Empty(11)
       \/ page = "download" /\ Download!Init /\ Empty(16)
       \/ page = "esim" /\ Esim!Init /\ Empty(10)
       \/ page = "wizard" /\ Wizard!WizardInit /\ Empty(24)
       \/ page = "upgrade" /\ Upgrade!Init /\ Empty(19)
       \/ page = "lock" /\ Lock!Init /\ Empty(14)
       \/ page = "sched" /\ Sched!Init /\ Empty(15)
       \/ page = "modem" /\ Modem!ModemInit /\ Empty(10)
       \/ page = "syscfg" /\ Sys!Init /\ Empty(9)
       \/ page = "staged" /\ Apply!StagedInit /\ Empty(12)
       \/ page = "dial" /\ Dial!DialInit /\ Empty(16)
       \/ page = "sms" /\ Sms!Init /\ Empty(21)
       \/ page = "send" /\ Send!Init /\ Empty(8)
       \/ page = "text" /\ SText!TextInit /\ Empty(3)
       \/ page = "smsset" /\ SmsSet!Init /\ Empty(23)
       \/ page = "status" /\ Status!Init /\ Empty(17)
       \/ page = "meter" /\ Meter!MeterInit /\ Empty(9)
       \/ page = "diag" /\ Diag!DiagInit /\ Empty(16)
       \/ page = "service" /\ Service!Init /\ Empty(13)
       \/ page = "logs" /\ Logs!LogsInit /\ Empty(20)
       \/ page = "term" /\ Term!TermInit /\ Empty(12)
       \/ page = "shell" /\ Shell!Init /\ Empty(10)
       \/ page = "sim" /\ Sim!Init /\ Empty(10)
       \/ page = "calls" /\ Incoming!CallInit /\ Empty(12)
       \/ page = "long" /\ Long!LongInit /\ Empty(7)
       \/ page = "notify" /\ Notices!NotifierInit /\ Empty(10)
       \/ page = "store" /\ Store!StoreInit /\ Empty(10)

Next ==
    /\ UNCHANGED page
    /\ \/ page = "session" /\ Session!Next /\ Kept(11)
       \/ page = "download" /\ Download!Next /\ Kept(16)
       \/ page = "esim" /\ Esim!Next /\ Kept(10)
       \/ page = "wizard" /\ Wizard!WizardNext /\ Kept(24)
       \/ page = "upgrade" /\ Upgrade!Next /\ Kept(19)
       \/ page = "lock" /\ Lock!Next /\ Kept(14)
       \/ page = "sched" /\ Sched!Next /\ Kept(15)
       \/ page = "modem" /\ Modem!ModemNext /\ Kept(10)
       \/ page = "syscfg" /\ Sys!Next /\ Kept(9)
       \/ page = "staged" /\ Apply!StagedNext /\ Kept(12)
       \/ page = "dial" /\ Dial!DialNext /\ Kept(16)
       \/ page = "sms" /\ Sms!Next /\ Kept(21)
       \/ page = "send" /\ Send!Next /\ Kept(8)
       \/ page = "text" /\ SText!TextNext /\ Kept(3)
       \/ page = "smsset" /\ SmsSet!Next /\ Kept(23)
       \/ page = "status" /\ Status!Next /\ Kept(17)
       \/ page = "meter" /\ Meter!MeterNext /\ Kept(9)
       \/ page = "diag" /\ Diag!DiagNext /\ Kept(16)
       \/ page = "service" /\ Service!Next /\ Kept(13)
       \/ page = "logs" /\ Logs!LogsNext /\ Kept(20)
       \/ page = "term" /\ Term!TermNext /\ Kept(12)
       \/ page = "shell" /\ Shell!Next /\ Kept(10)
       \/ page = "sim" /\ Sim!Next /\ Kept(10)
       \/ page = "calls" /\ Incoming!CallNext /\ Kept(12)
       \/ page = "long" /\ Long!LongNext /\ Kept(7)
       \/ page = "notify" /\ Notices!NotifierNext /\ Kept(10)
       \/ page = "store" /\ Store!StoreNext /\ Kept(10)

-----------------------------------------------------------------------------
(* Fairness: each page assumes what its own specification says.            *)

\* Commands and calls come back, and the code that waits for them goes on.
Moves ==
    /\ UNCHANGED page
    /\ \/ page = "session" /\ Session!Moves /\ Kept(11)
       \/ page = "download" /\ Download!Moves /\ Kept(16)
       \/ page = "esim" /\ Esim!Moves /\ Kept(10)
       \/ page = "upgrade" /\ Upgrade!PageMoves /\ Kept(19)
       \/ page = "lock" /\ Lock!Moves /\ Kept(14)
       \/ page = "sched" /\ Sched!Moves /\ Kept(15)
       \/ page = "modem" /\ Modem!ModemMoves /\ Kept(10)
       \/ page = "staged" /\ Apply!StagedMoves /\ Kept(12)
       \/ page = "dial" /\ Dial!DialMoves /\ Kept(16)
       \/ page = "send" /\ Send!Moves /\ Kept(8)
       \/ page = "smsset" /\ SmsSet!Moves /\ Kept(23)
       \/ page = "status" /\ Status!TickFast /\ Kept(17)
       \/ page = "diag" /\ Diag!DiagMoves /\ Kept(16)
       \/ page = "service" /\ Service!Moves /\ Kept(13)
       \/ page = "logs" /\ Logs!LogsMoves /\ Kept(20)
       \/ page = "term" /\ Term!Answered /\ Kept(12)
       \/ page = "shell" /\ Shell!Timers /\ Kept(10)
       \/ page = "sim" /\ Sim!Moves /\ Kept(10)
       \/ page = "notify" /\ Notices!NotifierMoves /\ Kept(10)

\* Timers that run beside them.
Ticks ==
    /\ UNCHANGED page
    /\ \/ page = "upgrade" /\ Upgrade!Poll(TRUE) /\ Kept(19)
       \/ page = "status" /\ Status!TickSlow /\ Kept(17)
       \/ page = "sim" /\ Sim!Tick /\ Kept(10)

\* What goes on beside both.
Others ==
    /\ UNCHANGED page
    /\ \/ page = "upgrade" /\ Upgrade!ModemMoves /\ Kept(19)
       \/ page = "status" /\ (Status!FastRead \/ Status!FastDraw) /\ Kept(17)

\* The slow round of the status page.
Slow ==
    /\ UNCHANGED page
    /\ page = "status" /\ (Status!TaskReg \/ Status!TaskAddr \/ Status!TaskDev \/ Status!SlowEnd) /\ Kept(17)

\* Its look at the device.
Device ==
    /\ UNCHANGED page
    /\ page = "status" /\ Status!DevRead /\ Kept(17)

\* A download that is tried again and again comes through.
Burnt ==
    /\ UNCHANGED page
    /\ page = "upgrade" /\ Upgrade!DownloadEnds /\ Kept(19)

Spec == Init /\ [][Next]_<<page, registers>>

FairSpec ==
    /\ Spec
    /\ WF_registers(Moves) /\ WF_registers(Ticks) /\ WF_registers(Others)
    /\ WF_registers(Slow) /\ WF_registers(Device) /\ SF_registers(Burnt)

-----------------------------------------------------------------------------
(* Properties. A conjunct is explained at its definition.                  *)

\* The variables of the page in view have their types.
PagesTypeOK ==
    /\ page = "session" => Session!SessionTypeOK
    /\ page = "download" => Download!DownloadTypeOK
    /\ page = "esim" => Esim!EsimTypeOK
    /\ page = "wizard" => Wizard!WizardTypeOK
    /\ page = "upgrade" => Upgrade!UpgradeTypeOK
    /\ page = "lock" => Lock!LockTypeOK
    /\ page = "sched" => Sched!PanelTypeOK
    /\ page = "modem" => Modem!ModemTypeOK
    /\ page = "syscfg" => Sys!SysCfgTypeOK
    /\ page = "staged" => Apply!StagedTypeOK
    /\ page = "dial" => Dial!DialTypeOK
    /\ page = "sms" => Sms!SmsTypeOK
    /\ page = "send" => Send!SendTypeOK
    /\ page = "text" => SText!TextTypeOK
    /\ page = "smsset" => SmsSet!SmsSettingsTypeOK
    /\ page = "status" => Status!StatusTypeOK
    /\ page = "diag" => Diag!DiagTypeOK
    /\ page = "service" => Service!ServiceTypeOK
    /\ page = "logs" => Logs!LogsTypeOK
    /\ page = "term" => Term!TermTypeOK
    /\ page = "shell" => Shell!ShellTypeOK
    /\ page = "sim" => Sim!SimWatchTypeOK
    /\ page = "calls" => Incoming!CallTypeOK
    /\ page = "long" => Long!LongTypeOK
    /\ page = "notify" => Notices!NotifierTypeOK
    /\ page = "store" => Store!StoreTypeOK

\* What a page takes or turns off to do its work is given back when nothing is
\* under way: channels of the card, the session at the server, the radio, the
\* character set, buttons, the camera. Where the code gives nothing back the
\* machine says so: after a command that was to give back and failed itself,
\* after an AT+CFUN=0 without an answer, and where a slot change stopped half
\* way.
RestoresWhatItChanged ==
    /\ page = "session" => Session!NoChannelLeft
    /\ page = "download" => Download!SessionNotLeftOpen
    /\ page = "wizard" => Wizard!CameraGoesWithView
    /\ page = "lock" => Lock!RadioComesBack
    /\ page = "modem" => Modem!SlotChangeRestores
    /\ page = "send" => Send!CharsetRestored
    /\ page = "service" => Service!ButtonsReturn
    /\ page = "shell" => Shell!SweepsWhileNeeded

\* Success that stands on a page is real: the profile is on the card, the
\* setting in the modem, every part of the message sent.
SuccessIsReal ==
    /\ page = "download" => Download!SuccessIsInstalled
    /\ page = "syscfg" => Sys!UpdatedUnlessPainted
    /\ page = "send" => Send!SuccessIsSent
    /\ page = "store" => Store!SavedIsInForce

\* What a page shows, or would send, is what was read or typed, or it says that
\* it does not know.
ShowsTheTruth ==
    /\ page = "lock" => Lock!FormCatchesUp
    /\ page = "sched" => Sched!EditableOnlyWhenOn /\ Sched!SendsShownInterval
    /\ page = "modem" => Modem!ShowsTheTruth
    /\ page = "syscfg" => Sys!SendsWhatItShows
    /\ page = "text" => SText!CountIsTrue
    /\ page = "meter" => Meter!RateIsReal
    /\ page = "diag" => Diag!GatewayNotBlamed
    /\ page = "service" => Service!AccusesRightly
    /\ page = "logs" => Logs!EmptyIsRead

\* Nothing gets lost or out of order: changes that wait, calls, messages and
\* their characters, notices, receipts, rows of a form, lines of a log, half of
\* a config.
NothingLost ==
    /\ page = "download" => Download!ReceiptsNotLost
    /\ page = "sched" => Sched!PairsKept
    /\ page = "staged" => Apply!SetOrKept
    /\ page = "sms" => Sms!GivenStays
    /\ page = "text" => SText!ArrivesAsTyped /\ SText!PartsFit /\ SText!WholeCharacters
    /\ page = "smsset" => SmsSet!CenterIsKept
    /\ page = "service" => Service!StagedIsMarked
    /\ page = "logs" => Logs!IfaceHasBoth /\ Logs!FoldHidesNothing
    /\ page = "calls" => Incoming!CallsAreAnnounced
    /\ page = "long" => Long!PartsMakeWhole
    /\ page = "notify" => Notices!NoticesKept /\ Notices!ArriveInOrder /\ Notices!DropsOldest
    /\ page = "store" => Store!FileIsWhole

\* Nothing is done twice or without need: one burning, one row for a message,
\* one notice for a call, no badge for what was read, no note of a leak without
\* one, no download without its code, no illegal setting, no reads of a page out
\* of sight.
NothingUnasked ==
    /\ page = "session" => Session!NoteMeansLeak
    /\ page = "wizard" => Wizard!RequiredHasCc
    /\ page = "upgrade" => Upgrade!BurnsOnce
    /\ page = "syscfg" => Sys!WantedIsLegal
    /\ page = "sms" => Sms!ReadStaysRead /\ Sms!DrawnOnce
    /\ page = "status" => Status!AsksOnlySeen
    /\ page = "term" => Term!HistoryIsShort
    /\ page = "calls" => Incoming!RingsOnce /\ Incoming!EndsAreRight
    /\ page = "long" => Long!ToldIsWhole

\* A step that tells a verdict has read what it tells: a new firmware, a live
\* profile, a switch that is on, an empty store, a log, a lease.
VerdictStep ==
    /\ page = "esim" => Esim!EnabledIsLive
    /\ page = "upgrade" => Upgrade!SuccessIsNewFirmware
    /\ page = "smsset" => SmsSet!SwitchedIsRead /\ SmsSet!ClearedIsEmpty
    /\ page = "diag" => Diag!LeaseJudgedFairly
    /\ page = "logs" => Logs!ToldAsRead
VerdictsAsRead == [][VerdictStep]_registers

\* A step leaves alone what it is not about: the other changes that wait, the
\* mode of dialling and a connection that runs, what was typed, a page that is
\* still shown; and no dangerous command goes out unconfirmed.
KeepStep ==
    /\ page = "staged" => Apply!OthersTried
    /\ page = "dial" => Dial!ModeStays /\ Dial!RunningIsLeft
    /\ page = "diag" => Diag!ProblemInView
    /\ page = "term" => Term!DangerIsConfirmed /\ Term!DraftReturns
    /\ page = "shell" => Shell!CleansOnlyWhatLeft
StepsKeep == [][KeepStep]_registers

\* Something that the page has begun is not yet over.
Unsettled ==
    \/ page = "session" /\ Session!Unsettled
    \/ page = "download" /\ Download!Unsettled
    \/ page = "esim" /\ Esim!Unsettled
    \/ page = "upgrade" /\ Upgrade!Upgrading
    \/ page = "lock" /\ Lock!Unsettled
    \/ page = "sched" /\ Sched!Unsettled
    \/ page = "modem" /\ Modem!Unsettled
    \/ page = "staged" /\ Apply!Unsettled
    \/ page = "dial" /\ Dial!Unsettled
    \/ page = "send" /\ Send!Unsettled
    \/ page = "smsset" /\ SmsSet!Unsettled
    \/ page = "diag" /\ Diag!Unsettled
    \/ page = "service" /\ Service!Unsettled
    \/ page = "logs" /\ Logs!Unsettled
    \/ page = "term" /\ Term!Unsettled
    \/ page = "shell" /\ Shell!Unsettled
    \/ page = "sim" /\ Sim!Unsettled
    \/ page = "notify" /\ Notices!Unsettled

\* Whatever a page has begun comes to its end, with commands that fail and clicks
\* that overlap: no control stays off for good; and the sentence of the status
\* page follows the modem in the end. One end is named that gives nothing back:
\* the upgrade page may stop polling at step 3 (Stranded in UpgradePage).
PagesSettle ==
    /\ Unsettled ~> ~Unsettled
    /\ <>[](page = "status" => Status!SentenceFollows)

-----------------------------------------------------------------------------
(* Proofs about the pages together.                                        *)

\* What the bounds of the machines are that stand here.
ASSUME MoreAssumption ==
    /\ Download!DownloadBounds
    /\ Wizard!WizardBounds
    /\ Shell!ShellBounds
    /\ Store!StoreBounds
    /\ Dial!DialBounds
    /\ Diag!DiagBounds
    /\ Term!TermBounds
    /\ Meter!MeterBounds

\* The invariants of a machine hold while its page is in view.
PagesInv ==
    /\ page = "session" => Session!SessionInv
    /\ page = "download" => Download!DownloadInv
    /\ page = "wizard" => Wizard!WizardInv
    /\ page = "upgrade" => Upgrade!UpgradeInv
    /\ page = "lock" => Lock!LockInv
    /\ page = "modem" => Modem!ModemInv
    /\ page = "syscfg" => Sys!SysInv
    /\ page = "staged" => Apply!StagedInv
    /\ page = "dial" => Dial!DialInv
    /\ page = "send" => Send!SendInv
    /\ page = "smsset" => SmsSet!SmsSetInv
    /\ page = "diag" => Diag!DiagInv
    /\ page = "service" => Service!ServiceInv
    /\ page = "logs" => Logs!LogsInv
    /\ page = "term" => Term!TermInv
    /\ page = "shell" => Shell!ShellInv
    /\ page = "store" => Store!StoreInv
    /\ page = "sms" => Sms!SmsInv
    /\ page = "status" => Status!StatusInv
    /\ page = "calls" => Incoming!CallInv
    /\ page = "long" => Long!LongInv
    /\ page = "meter" => Meter!MeterInv
    /\ page = "sched" => Sched!PanelInv
    /\ page = "text" => SText!TextInv
    /\ page = "notify" => Notices!NoticesInv
    /\ page = "sched" => Sched!RowsInv
    /\ page = "sms" => Sms!StaysInv
    /\ page = "smsset" => SmsSet!CenterInv
    /\ page = "logs" => Logs!ViewInv
    /\ page = "long" => Long!WaitInv

\* Whatever the bounds, the page in view keeps its invariant. Every step is one
\* of the page, or leaves its registers alone.
THEOREM PagesInvariant == Spec => []PagesInv
<1>1. ASSUME Init PROVE PagesInv
  <2>1. page = "session" => Session!SessionInv
    BY <1>1, SessionBegins, BoundAssumption DEF Init
  <2>2. page = "download" => Download!DownloadInv
    BY <1>1, DownloadBegins, MoreAssumption DEF Init
  <2>3. page = "wizard" => Wizard!WizardInv
    BY <1>1, WizardBegins, MoreAssumption DEF Init
  <2>4. page = "upgrade" => Upgrade!UpgradeInv
    BY <1>1, UpgradeBegins DEF Init
  <2>5. page = "lock" => Lock!LockInv
    BY <1>1, LockBegins, BoundAssumption DEF Init
  <2>6. page = "modem" => Modem!ModemInv
    BY <1>1, ModemBegins, BoundAssumption DEF Init
  <2>7. page = "syscfg" => Sys!SysInv
    BY <1>1, SysBegins DEF Init
  <2>8. page = "staged" => Apply!StagedInv
    BY <1>1, StagedBegins, BoundAssumption DEF Init
  <2>9. page = "dial" => Dial!DialInv
    BY <1>1, DialBegins, MoreAssumption DEF Init
  <2>10. page = "send" => Send!SendInv
    BY <1>1, SendBegins, MessageAssumption DEF Init
  <2>11. page = "smsset" => SmsSet!SmsSetInv
    BY <1>1, SmsSetBegins, MessageAssumption DEF Init
  <2>12. page = "diag" => Diag!DiagInv
    BY <1>1, DiagBegins, MoreAssumption DEF Init
  <2>13. page = "service" => Service!ServiceInv
    BY <1>1, ServiceBegins DEF Init
  <2>14. page = "logs" => Logs!LogsInv
    BY <1>1, LogsBegins DEF Init
  <2>15. page = "term" => Term!TermInv
    BY <1>1, TermBegins, MoreAssumption DEF Init
  <2>16. page = "shell" => Shell!ShellInv
    BY <1>1, ShellBegins, MoreAssumption DEF Init
  <2>17. page = "store" => Store!StoreInv
    BY <1>1, StoreBegins, MoreAssumption DEF Init
  <2>18. page = "sms" => Sms!SmsInv
    BY <1>1, SmsBegins, MessageAssumption DEF Init
  <2>19. page = "status" => Status!StatusInv
    BY <1>1, StatusBegins DEF Init
  <2>20. page = "calls" => Incoming!CallInv
    BY <1>1, CallBegins, MessageAssumption DEF Init
  <2>21. page = "long" => Long!LongInv
    BY <1>1, LongBegins, MessageAssumption DEF Init
  <2>22. page = "meter" => Meter!MeterInv
    BY <1>1, MeterBegins, MoreAssumption DEF Init
  <2>23. page = "sched" => Sched!PanelInv
    BY <1>1, PanelBegins DEF Init
  <2>24. page = "text" => SText!TextInv
    BY <1>1, TextBegins DEF Init
  <2>25. page = "notify" => Notices!NoticesInv
    BY <1>1, NoticesBegins, MessageAssumption DEF Init
  <2>26. page = "sched" => Sched!RowsInv
    BY <1>1, RowsBegins DEF Init
  <2>27. page = "sms" => Sms!StaysInv
    BY <1>1, StaysBegins DEF Init
  <2>28. page = "smsset" => SmsSet!CenterInv
    BY <1>1, SmsCenterBegins DEF Init
  <2>29. page = "logs" => Logs!ViewInv
    BY <1>1, ViewBegins DEF Init
  <2>30. page = "long" => Long!WaitInv
    BY <1>1, LongWaitBegins, MessageAssumption DEF Init
  <2> QED
    BY <2>1, <2>2, <2>3, <2>4, <2>5, <2>6, <2>7, <2>8, <2>9, <2>10, <2>11, <2>12,
       <2>13, <2>14, <2>15, <2>16, <2>17, <2>18, <2>19, <2>20, <2>21, <2>22, <2>23,
       <2>24, <2>25, <2>26, <2>27, <2>28, <2>29, <2>30 DEF PagesInv
<1>2. ASSUME PagesInv, Next PROVE PagesInv'
  <2>1. page' = "session" => Session!SessionInv'
    BY <1>2, SessionKept, BoundAssumption DEF Next, PagesInv
  <2>2. page' = "download" => Download!DownloadInv'
    BY <1>2, DownloadKept, MoreAssumption DEF Next, PagesInv
  <2>3. page' = "wizard" => Wizard!WizardInv'
    BY <1>2, WizardKept, MoreAssumption DEF Next, PagesInv
  <2>4. page' = "upgrade" => Upgrade!UpgradeInv'
    BY <1>2, UpgradeKept DEF Next, PagesInv
  <2>5. page' = "lock" => Lock!LockInv'
    BY <1>2, LockKept, BoundAssumption DEF Next, PagesInv
  <2>6. page' = "modem" => Modem!ModemInv'
    BY <1>2, ModemKept, BoundAssumption DEF Next, PagesInv
  <2>7. page' = "syscfg" => Sys!SysInv'
    BY <1>2, SysKept DEF Next, PagesInv
  <2>8. page' = "staged" => Apply!StagedInv'
    BY <1>2, StagedKept, BoundAssumption DEF Next, PagesInv
  <2>9. page' = "dial" => Dial!DialInv'
    BY <1>2, DialKept, MoreAssumption DEF Next, PagesInv
  <2>10. page' = "send" => Send!SendInv'
    BY <1>2, SendKept, MessageAssumption DEF Next, PagesInv
  <2>11. page' = "smsset" => SmsSet!SmsSetInv'
    BY <1>2, SmsSetKept DEF Next, PagesInv
  <2>12. page' = "diag" => Diag!DiagInv'
    BY <1>2, DiagKept, MoreAssumption DEF Next, PagesInv
  <2>13. page' = "service" => Service!ServiceInv'
    BY <1>2, ServiceKept DEF Next, PagesInv
  <2>14. page' = "logs" => Logs!LogsInv'
    BY <1>2, LogsKept DEF Next, PagesInv
  <2>15. page' = "term" => Term!TermInv'
    BY <1>2, TermKept, MoreAssumption DEF Next, PagesInv
  <2>16. page' = "shell" => Shell!ShellInv'
    BY <1>2, ShellKept, MoreAssumption DEF Next, PagesInv
  <2>17. page' = "store" => Store!StoreInv'
    BY <1>2, StoreKept, MoreAssumption DEF Next, PagesInv
  <2>18. page' = "sms" => Sms!SmsInv'
    BY <1>2, SmsKept, MessageAssumption DEF Next, PagesInv
  <2>19. page' = "status" => Status!StatusInv'
    BY <1>2, StatusKept DEF Next, PagesInv
  <2>20. page' = "calls" => Incoming!CallInv'
    BY <1>2, CallKept, MessageAssumption DEF Next, PagesInv
  <2>21. page' = "long" => Long!LongInv'
    BY <1>2, LongKept, MessageAssumption DEF Next, PagesInv
  <2>22. page' = "meter" => Meter!MeterInv'
    BY <1>2, MeterKept, MoreAssumption DEF Next, PagesInv
  <2>23. page' = "sched" => Sched!PanelInv'
    BY <1>2, PanelKept DEF Next, PagesInv
  <2>24. page' = "text" => SText!TextInv'
    BY <1>2, TextKept, MessageAssumption DEF Next, PagesInv
  <2>25. page' = "notify" => Notices!NoticesInv'
    BY <1>2, NoticesKept, MessageAssumption DEF Next, PagesInv
  <2>26. page' = "sched" => Sched!RowsInv'
    BY <1>2, RowsKept DEF Next, PagesInv
  <2>27. page' = "sms" => Sms!StaysInv'
    BY <1>2, StaysKept, MessageAssumption DEF Next, PagesInv
  <2>28. page' = "smsset" => SmsSet!CenterInv'
    BY <1>2, SmsCenterKept, MessageAssumption DEF Next, PagesInv
  <2>29. page' = "logs" => Logs!ViewInv'
    BY <1>2, ViewKept DEF Next, PagesInv
  <2>30. page' = "long" => Long!WaitInv'
    BY <1>2, LongWaitKept, MessageAssumption DEF Next, PagesInv
  <2> QED
    BY <2>1, <2>2, <2>3, <2>4, <2>5, <2>6, <2>7, <2>8, <2>9, <2>10, <2>11, <2>12,
       <2>13, <2>14, <2>15, <2>16, <2>17, <2>18, <2>19, <2>20, <2>21, <2>22, <2>23,
       <2>24, <2>25, <2>26, <2>27, <2>28, <2>29, <2>30 DEF PagesInv
<1>3. ASSUME PagesInv, UNCHANGED <<page, registers>> PROVE PagesInv'
  <2>1. page' = "session" => Session!SessionInv'
    BY <1>3, SessionStutters DEF PagesInv, registers
  <2>2. page' = "download" => Download!DownloadInv'
    BY <1>3, DownloadStutters DEF PagesInv, registers
  <2>3. page' = "wizard" => Wizard!WizardInv'
    BY <1>3, WizardStutters DEF PagesInv, registers
  <2>4. page' = "upgrade" => Upgrade!UpgradeInv'
    BY <1>3, UpgradeStutters DEF PagesInv, registers
  <2>5. page' = "lock" => Lock!LockInv'
    BY <1>3, LockStutters DEF PagesInv, registers
  <2>6. page' = "modem" => Modem!ModemInv'
    BY <1>3, ModemStutters DEF PagesInv, registers
  <2>7. page' = "syscfg" => Sys!SysInv'
    BY <1>3, SysStutters DEF PagesInv, registers
  <2>8. page' = "staged" => Apply!StagedInv'
    BY <1>3, StagedStutters DEF PagesInv, registers
  <2>9. page' = "dial" => Dial!DialInv'
    BY <1>3, DialStutters DEF PagesInv, registers
  <2>10. page' = "send" => Send!SendInv'
    BY <1>3, SendStutters DEF PagesInv, registers
  <2>11. page' = "smsset" => SmsSet!SmsSetInv'
    BY <1>3, SmsSetStutters DEF PagesInv, registers
  <2>12. page' = "diag" => Diag!DiagInv'
    BY <1>3, DiagStutters DEF PagesInv, registers
  <2>13. page' = "service" => Service!ServiceInv'
    BY <1>3, ServiceStutters DEF PagesInv, registers
  <2>14. page' = "logs" => Logs!LogsInv'
    BY <1>3, LogsStutters DEF PagesInv, registers
  <2>15. page' = "term" => Term!TermInv'
    BY <1>3, TermStutters DEF PagesInv, registers
  <2>16. page' = "shell" => Shell!ShellInv'
    BY <1>3, ShellStutters DEF PagesInv, registers
  <2>17. page' = "store" => Store!StoreInv'
    BY <1>3, StoreStutters DEF PagesInv, registers
  <2>18. page' = "sms" => Sms!SmsInv'
    BY <1>3, SmsStutters, MessageAssumption DEF PagesInv, registers
  <2>19. page' = "status" => Status!StatusInv'
    BY <1>3, StatusStutters DEF PagesInv, registers
  <2>20. page' = "calls" => Incoming!CallInv'
    BY <1>3, CallStutters, MessageAssumption DEF PagesInv, registers
  <2>21. page' = "long" => Long!LongInv'
    BY <1>3, LongStutters DEF PagesInv, registers
  <2>22. page' = "meter" => Meter!MeterInv'
    BY <1>3, MeterStutters DEF PagesInv, registers
  <2>23. page' = "sched" => Sched!PanelInv'
    BY <1>3, PanelStutters DEF PagesInv, registers
  <2>24. page' = "text" => SText!TextInv'
    BY <1>3, TextStutters DEF PagesInv, registers
  <2>25. page' = "notify" => Notices!NoticesInv'
    BY <1>3, NoticesStutters DEF PagesInv, registers
  <2>26. page' = "sched" => Sched!RowsInv'
    BY <1>3, RowsStutters DEF PagesInv, registers
  <2>27. page' = "sms" => Sms!StaysInv'
    BY <1>3, StaysStutters DEF PagesInv, registers
  <2>28. page' = "smsset" => SmsSet!CenterInv'
    BY <1>3, SmsCenterStutters DEF PagesInv, registers
  <2>29. page' = "logs" => Logs!ViewInv'
    BY <1>3, ViewStutters DEF PagesInv, registers
  <2>30. page' = "long" => Long!WaitInv'
    BY <1>3, LongWaitStutters DEF PagesInv, registers
  <2> QED
    BY <2>1, <2>2, <2>3, <2>4, <2>5, <2>6, <2>7, <2>8, <2>9, <2>10, <2>11, <2>12,
       <2>13, <2>14, <2>15, <2>16, <2>17, <2>18, <2>19, <2>20, <2>21, <2>22, <2>23,
       <2>24, <2>25, <2>26, <2>27, <2>28, <2>29, <2>30 DEF PagesInv
<1> QED BY <1>1, <1>2, <1>3, PTL DEF Spec

\* Whatever the bounds are, a page that has come to rest has given back what it took
\* or turned off: no channel of the card is left open, the radio and the hot-plug are
\* on, the character set is the usual one, the buttons work. Left out, by name, is what
\* the code leaves as it is: what a command that gives back failed to do itself (stuck,
\* lost), the radio after an AT+CFUN=0 without an answer (deaf), and the hot-plug or
\* the radio where a slot change stopped half way (halted).
THEOREM PagesRestore == Spec => []RestoresWhatItChanged
<1>1. PagesInv => RestoresWhatItChanged
  BY SessionHolds, DownloadHolds, WizardHolds, LockHolds, ModemHolds, SendHolds,
     ServiceHolds, ShellHolds DEF PagesInv, RestoresWhatItChanged
<1> QED BY <1>1, PagesInvariant, PTL

\* Success that a page shows is real, whatever the bounds are: the profile is on the
\* card, the setting in the modem, every part sent, the schedule in the file.
THEOREM PagesTellSuccess == Spec => []SuccessIsReal
<1>1. PagesInv => SuccessIsReal
  BY DownloadHolds, SysHolds, SendHolds, StoreHolds DEF PagesInv, SuccessIsReal
<1> QED BY <1>1, PagesInvariant, PTL

\* Whatever the bounds are, nothing is done twice or without need: the firmware is not
\* burned again, a message is drawn once and is not counted again, a call is told once
\* and its end with its number, and nothing is read for a page that nobody sees.
THEOREM PagesDoNothingUnasked == Spec => []NothingUnasked
<1>1. PagesInv => NothingUnasked
  BY SessionHolds, WizardHolds, UpgradeHolds, SysHolds, SmsHolds, StatusHolds, TermHolds,
     CallHolds, LongHolds, MessageAssumption DEF PagesInv, NothingUnasked
<1> QED BY <1>1, PagesInvariant, PTL

\* Whatever the bounds are, what a page shows or would send is what was read or typed,
\* or it says that it does not know; and the number of parts that the page of a
\* message tells is the number that goes out.
THEOREM PagesShowTheTruth == Spec => []ShowsTheTruth
<1>1. PagesInv => ShowsTheTruth
  BY LockHolds, PanelHolds, ModemHolds, SysHolds, TextHolds, MeterHolds, DiagHolds,
     ServiceHolds, LogsHolds, MessageAssumption DEF PagesInv, ShowsTheTruth
<1> QED BY <1>1, PagesInvariant, PTL

\* Whatever the bounds are, nothing gets lost or out of order on any page: receipts,
\* rows of the form, changes that wait, messages that were given, the service centre, a
\* notice of a change, lines of the logs, calls, parts of long messages, the characters
\* of a text on its way through packed parts, notices, the file of the schedule.
THEOREM PagesLoseNothing == Spec => []NothingLost
<1>1. ASSUME PagesInv PROVE NothingLost
  <2>1. page = "download" => Download!ReceiptsNotLost
    BY <1>1, DownloadHolds DEF PagesInv
  <2>2. page = "sched" => Sched!PairsKept
    BY <1>1, RowsHolds DEF PagesInv
  <2>3. page = "staged" => Apply!SetOrKept
    BY <1>1 DEF PagesInv, Apply!StagedInv
  <2>4. page = "sms" => Sms!GivenStays
    BY <1>1, StaysHolds DEF PagesInv
  <2>5. page = "smsset" => SmsSet!CenterIsKept
    BY <1>1, SmsCenterHolds, MessageAssumption DEF PagesInv
  <2>6. page = "service" => Service!StagedIsMarked
    BY <1>1, ServiceHolds DEF PagesInv
  <2>7. page = "logs" => Logs!IfaceHasBoth /\ Logs!FoldHidesNothing
    BY <1>1, ViewHolds, LogsFolds, BoundAssumption DEF PagesInv
  <2>8. page = "calls" => Incoming!CallsAreAnnounced
    BY <1>1, CallHolds, MessageAssumption DEF PagesInv
  <2>9. page = "long" => Long!PartsMakeWhole
    BY <1>1, LongWaitHolds, MessageAssumption DEF PagesInv
  <2>10. page = "text" => SText!ArrivesAsTyped /\ SText!PartsFit /\ SText!WholeCharacters
    BY <1>1, TextHolds, MessageAssumption DEF PagesInv
  <2>11. page = "notify" => Notices!NoticesKept /\ Notices!ArriveInOrder /\ Notices!DropsOldest
    BY <1>1, NoticesHolds DEF PagesInv
  <2>12. page = "store" => Store!FileIsWhole
    BY <1>1, StoreHolds DEF PagesInv
  <2> QED BY <2>1, <2>2, <2>3, <2>4, <2>5, <2>6, <2>7, <2>8, <2>9, <2>10, <2>11, <2>12 DEF NothingLost
<1> QED BY <1>1, PagesInvariant, PTL

\* A verdict that a step tells is one that was read, whatever the bounds are: a new
\* firmware, a live profile, a switch, an empty store, the state of the lease, a log.
THEOREM PagesJudge == Spec => VerdictsAsRead
<1>1. ASSUME PagesInv, Next PROVE VerdictStep
  <2>1. page = "esim" => Esim!EnabledIsLive
    BY <1>1, EsimJudges DEF Next
  <2>2. page = "upgrade" => Upgrade!SuccessIsNewFirmware
    BY <1>1, UpgradeTells DEF Next, PagesInv
  <2>3. page = "smsset" => SmsSet!SwitchedIsRead
    BY <1>1, SmsSetSwitched DEF Next, PagesInv
  <2>4. page = "smsset" => SmsSet!ClearedIsEmpty
    BY <1>1, SmsSetCleared DEF Next, PagesInv
  <2>5. page = "diag" => Diag!LeaseJudgedFairly
    BY <1>1, DiagJudges, MoreAssumption DEF Next, PagesInv
  <2>6. page = "logs" => Logs!ToldAsRead
    BY <1>1, LogsTells DEF Next, PagesInv
  <2> QED BY <2>1, <2>2, <2>3, <2>4, <2>5, <2>6 DEF VerdictStep
<1>2. PagesInv /\ [Next]_<<page, registers>> => [VerdictStep]_registers
  BY <1>1
<1> QED BY <1>2, PagesInvariant, PTL DEF Spec, VerdictsAsRead

\* What a step is not about it leaves alone, whatever the bounds are: the other
\* changes that wait, the mode of dialling, a connection that runs, what was typed, a
\* page that is shown; and no dangerous command goes out without a confirmation.
THEOREM PagesLeaveAlone == Spec => StepsKeep
<1>1. ASSUME PagesInv, Next PROVE KeepStep
  <2>1. page = "staged" => Apply!OthersTried
    BY <1>1, StagedTries, BoundAssumption DEF Next, PagesInv
  <2>2. page = "dial" => Dial!ModeStays
    BY <1>1, DialStays, MoreAssumption DEF Next, PagesInv
  <2>3. page = "dial" => Dial!RunningIsLeft
    BY <1>1, DialLeaves, MoreAssumption DEF Next, PagesInv
  <2>4. page = "diag" => Diag!ProblemInView
    BY <1>1, DiagShows, MoreAssumption DEF Next, PagesInv
  <2>5. page = "term" => Term!DangerIsConfirmed
    BY <1>1, TermConfirmed, MoreAssumption DEF Next, PagesInv
  <2>6. page = "term" => Term!DraftReturns
    BY <1>1, TermReturns, MoreAssumption DEF Next, PagesInv
  <2>7. page = "shell" => Shell!CleansOnlyWhatLeft
    BY <1>1, ShellCleans DEF Next
  <2> QED BY <2>1, <2>2, <2>3, <2>4, <2>5, <2>6, <2>7 DEF KeepStep
<1>2. PagesInv /\ [Next]_<<page, registers>> => [KeepStep]_registers
  BY <1>1
<1> QED BY <1>2, PagesInvariant, PTL DEF Spec, StepsKeep

=============================================================================
