------------------------------ MODULE LockPage ------------------------------
(***************************************************************************)
(* The locks of view/at-webserver/network_settings.js: the band lock of    *)
(* either access technology, the lock of a neighbour cell and the 5G       *)
(* access mode. Each is set between AT+CFUN=0 and AT+CFUN=1                *)
(* (withRadioOff); if anything fails in between, restoreRadio turns the    *)
(* radio on again, beside what the user does next.                         *)
(*                                                                         *)
(* The form of the lock editor writes into the items it was drawn from,    *)
(* and a refresh replaces them one technology at a time before it draws    *)
(* the form anew.                                                          *)
(***************************************************************************)
EXTENDS Integers, FiniteSets

CONSTANTS
    Values,         \* settings of a lock: 0, none, and others
    Clicks,         \* bound: operations that the user starts
    MaxLost,        \* bound: commands that fail or whose answer is lost
    Tries           \* attempts of restoreRadio (3)

VARIABLES
    busy,           \* busy: a lock is being saved
    active,         \* lockState.activeRat
    lockState,      \* lockState of each technology
    shown,          \* what the form shows
    attached,       \* the form writes into lockState
    brackets,       \* the calls of withRadioOff under way
    restores,       \* the attempts left of each restoreRadio under way
    fetches,        \* the calls of fetchCurrent under way: what is read next, and
                    \* whether a save waits for it; two at one stage are one
    alarmed         \* "turn flight mode off by hand" has been shown

VARIABLES           \* the modem and history
    radio,          \* CFUN=1
    lock,           \* the lock of each technology
    deaf,           \* the radio was turned off without an answer
    clicks,         \* what is left of Clicks
    lost            \* what is left of MaxLost

form == <<active, lockState, shown, attached>>
vars == <<busy, form, brackets, restores, fetches, alarmed, radio, lock, deaf, clicks, lost>>

Rats == {"lte", "nr"}
Ids == 1..Clicks
NoLock == 0
Fetch(at, save) == [at |-> at, save |-> save]

Init ==
    /\ busy = FALSE
    /\ active = "lte"
    /\ lock \in [Rats -> Values]
    /\ lockState = [r \in Rats |-> NoLock] /\ shown = NoLock
    /\ attached = TRUE
    /\ brackets = {} /\ restores = {} /\ alarmed = FALSE
    /\ fetches = {Fetch("lte", FALSE)}
    /\ radio = TRUE /\ deaf = FALSE /\ clicks = Clicks /\ lost = MaxLost

Click == clicks > 0 /\ clicks' = clicks - 1

Lose == lost > 0 /\ lost' = lost - 1

-----------------------------------------------------------------------------
(* The form                                                                *)

\* renderLockEditor
Draw(rat, state) == shown' = state[rat] /\ attached' = TRUE

SelectRat(rat) ==
    /\ rat # active /\ Click
    /\ active' = rat /\ Draw(rat, lockState)
    /\ UNCHANGED <<busy, lockState, brackets, restores, fetches, alarmed, radio, lock,
                   deaf, lost>>

\* The user edits a row of the form.
Edit(v) ==
    /\ v # shown /\ Click
    /\ shown' = v
    /\ lockState' = IF attached THEN [lockState EXCEPT ![active] = v] ELSE lockState
    /\ UNCHANGED <<busy, active, attached, brackets, restores, fetches, alarmed, radio,
                   lock, deaf, lost>>

-----------------------------------------------------------------------------
(* fetchCurrent                                                            *)

\* The button is never disabled: a refresh may begin beside another.
Refresh ==
    /\ Click
    /\ fetches' = fetches \union {Fetch("lte", FALSE)}
    /\ UNCHANGED <<busy, form, brackets, restores, alarmed, radio, lock, deaf, lost>>

Following == [lte |-> "nr", nr |-> "mode"]

\* What was read replaces the items of one technology, whatever the user has
\* entered there; an answer that is no lock is passed over.
FetchLock(f) ==
    /\ f.at \in Rats
    /\ fetches' = (fetches \ {f}) \union {Fetch(Following[f.at], f.save)}
    /\ \/ /\ lockState' = [lockState EXCEPT ![f.at] = lock[f.at]]
          /\ attached' = (attached /\ f.at # active)
          /\ UNCHANGED lost
       \/ Lose /\ UNCHANGED <<lockState, attached>>
    /\ UNCHANGED <<busy, active, shown, brackets, restores, alarmed, radio, lock, deaf, clicks>>

\* Mutant: only a form of the other technology is drawn anew.
DrawsPartly == shown' = shown /\ attached' = attached

\* What a refresh does when it has read everything.
DrawsAll == Draw(active, lockState)

\* The access mode is read and the form drawn; a save that waited is over.
FetchMode(f) ==
    /\ f.at = "mode"
    /\ fetches' = fetches \ {f}
    /\ busy' = (busy /\ ~f.save)
    /\ DrawsAll
    /\ UNCHANGED <<active, lockState, brackets, restores, alarmed, radio, lock, deaf,
                   clicks, lost>>

-----------------------------------------------------------------------------
(* withRadioOff                                                            *)

\* A save sends what lockState holds for the active technology, and only one
\* save runs at a time. The lock of a neighbour cell and the access mode are
\* confirmed in a dialog and do not look at busy.
Save ==
    /\ ~busy /\ Click /\ busy' = TRUE
    /\ brackets' = brackets \union
         {[id |-> clicks, kind |-> "save", rat |-> active, value |-> lockState[active],
           at |-> "off"]}
    /\ UNCHANGED <<form, restores, fetches, alarmed, radio, lock, deaf, lost>>

LockNeighbor(rat, v) ==
    /\ Click
    /\ brackets' = brackets \union
         {[id |-> clicks, kind |-> "neighbor", rat |-> rat, value |-> v, at |-> "off"]}
    /\ UNCHANGED <<busy, form, restores, fetches, alarmed, radio, lock, deaf, lost>>

SetAccessMode ==
    /\ Click
    /\ brackets' = brackets \union
         {[id |-> clicks, kind |-> "mode", rat |-> "nr", value |-> lock["nr"], at |-> "off"]}
    /\ UNCHANGED <<busy, form, restores, fetches, alarmed, radio, lock, deaf, lost>>

\* A bracket that failed; busy ends with the save.
Ended(b) ==
    /\ brackets' = brackets \ {b}
    /\ busy' = (busy /\ b.kind # "save")

At(b, next) == brackets' = (brackets \ {b}) \union {[b EXCEPT !.at = next]}

\* AT+CFUN=0 has been answered with OK, and a second passes.
TurnedOff(b) ==
    /\ b.at = "off" /\ radio' = FALSE
    /\ At(b, "work")
    /\ UNCHANGED <<busy, form, restores, fetches, alarmed, lock, deaf, clicks, lost>>

\* It failed, or was carried out and the answer lost: nothing is restored.
NotTurnedOff(b) ==
    /\ b.at = "off" /\ Lose
    /\ radio' \in {radio, FALSE} /\ deaf' = (deaf \/ radio # radio')
    /\ Ended(b)
    /\ UNCHANGED <<form, restores, fetches, alarmed, lock, clicks>>

\* The command of the bracket is accepted.
Worked(b) ==
    /\ b.at = "work"
    /\ lock' = [lock EXCEPT ![b.rat] = b.value]
    /\ At(b, "on")
    /\ UNCHANGED <<busy, form, restores, fetches, alarmed, radio, deaf, clicks, lost>>

\* Mutant: a failure between off and on leaves the radio as it is.
RestoresNothing(b) == UNCHANGED restores

\* The catch of withRadioOff: the radio is restored, and nobody waits for it.
Restores(b) == restores' = restores \union {[id |-> b.id, tries |-> Tries]}

\* It is refused, or the radio does not come on: the error goes to the user.
BracketFails(b) ==
    /\ b.at \in {"work", "on"}
    /\ Lose
    /\ lock' \in {lock, IF b.at = "work" THEN [lock EXCEPT ![b.rat] = b.value] ELSE lock}
    /\ Restores(b) /\ Ended(b)
    /\ UNCHANGED <<form, fetches, alarmed, radio, deaf, clicks>>

\* AT+CFUN=1: the radio is on, whoever turned it off.
RadioOn == radio' = TRUE /\ deaf' = FALSE /\ alarmed' = FALSE

\* A save and a neighbour refresh the locks then, and busy ends with the
\* refresh; an access mode reads itself only.
TurnedOn(b) ==
    /\ b.at = "on" /\ RadioOn
    /\ brackets' = brackets \ {b}
    /\ fetches' = fetches \union
         IF b.kind = "mode" THEN {} ELSE {Fetch("lte", b.kind = "save")}
    /\ UNCHANGED <<busy, form, restores, lock, clicks, lost>>

-----------------------------------------------------------------------------
(* restoreRadio                                                            *)

Restored(r) ==
    /\ RadioOn /\ restores' = restores \ {r}
    /\ UNCHANGED <<busy, form, brackets, fetches, lock, clicks, lost>>

\* Mutant: the last attempt fails in silence.
Silent == alarmed' = alarmed

\* After the last attempt the user is told to turn flight mode off by hand.
Alarms == alarmed' = TRUE

NotRestored(r) ==
    /\ Lose
    /\ restores' = (restores \ {r}) \union
                   IF r.tries = 1 THEN {} ELSE {[r EXCEPT !.tries = @ - 1]}
    /\ IF r.tries = 1 THEN Alarms ELSE UNCHANGED alarmed
    /\ UNCHANGED <<busy, form, brackets, fetches, radio, lock, deaf, clicks>>

Done ==
    /\ clicks = 0 /\ brackets = {} /\ restores = {} /\ fetches = {}
    /\ UNCHANGED vars

Moves ==
    \/ \E f \in fetches : FetchLock(f) \/ FetchMode(f)
    \/ \E b \in brackets : \/ TurnedOff(b) \/ NotTurnedOff(b) \/ Worked(b)
                           \/ BracketFails(b) \/ TurnedOn(b)
    \/ \E r \in restores : Restored(r) \/ NotRestored(r)

Next ==
    \/ \E rat \in Rats : SelectRat(rat)
    \/ \E v \in Values : Edit(v)
    \/ Refresh \/ Save \/ SetAccessMode
    \/ \E rat \in Rats, v \in Values : LockNeighbor(rat, v)
    \/ Moves
    \/ Done

\* Every command is answered or times out.
Spec == Init /\ [][Next]_vars /\ WF_vars(Moves)

-----------------------------------------------------------------------------
(* Properties                                                              *)

\* Every variable has its type.
LockTypeOK ==
    /\ busy \in BOOLEAN /\ attached \in BOOLEAN /\ alarmed \in BOOLEAN
    /\ radio \in BOOLEAN /\ deaf \in BOOLEAN
    /\ active \in Rats /\ shown \in Values
    /\ lockState \in [Rats -> Values] /\ lock \in [Rats -> Values]
    /\ fetches \subseteq [at : Rats \union {"mode"}, save : BOOLEAN]
    /\ \A b \in brackets : /\ b.id \in Ids /\ b.rat \in Rats /\ b.value \in Values
                           /\ b.kind \in {"save", "neighbor", "mode"}
                           /\ b.at \in {"off", "work", "on"}
    /\ \A r \in restores : r.id \in Ids /\ r.tries \in 1..Tries

\* When nothing is under way the radio is on again, or the user has been told
\* that it is not, also when several brackets and restores ran into each other
\* and any command between them failed. Left out is an AT+CFUN=0 that was
\* carried out without an answer: for it the code restores nothing.
RadioComesBack ==
    brackets = {} /\ restores = {} /\ ~radio => alarmed \/ deaf

\* The form shows what a save would send, or a refresh that will draw it anew
\* is still under way: no edit goes into items that are drawn nowhere for good.
FormCatchesUp ==
    \/ attached /\ shown = lockState[active]
    \/ fetches # {}

\* Everything that is under way ends, and busy with it.
Unsettled == brackets # {} \/ restores # {} \/ busy
LockSettles == Unsettled ~> ~Unsettled

\* What the bounds are.
LockBounds == Clicks \in Nat /\ Tries \in Nat \ {0} /\ NoLock \in Values

\* Why: whoever has turned the radio off, and had an answer, will turn it on
\* again or hand it over to a restore, and a restore ends with the radio on or
\* the user told.
SomebodyRestores ==
    ~radio => \/ alarmed \/ deaf \/ restores # {}
              \/ \E b \in brackets : b.at \in {"work", "on"}

LockInv ==
    /\ LockTypeOK /\ clicks \in 0..Clicks
    /\ brackets \subseteq [id : Ids, kind : {"save", "neighbor", "mode"}, rat : Rats, value : Values,
                           at : {"off", "work", "on"}]
    /\ restores \subseteq [id : Ids, tries : 1..Tries]
    /\ SomebodyRestores /\ FormCatchesUp
=============================================================================
