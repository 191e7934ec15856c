------------------------------- MODULE Staged -------------------------------
(***************************************************************************)
(* Changes that wait for "save and apply": Mt5700.staged of mt5700.js as   *)
(* modem_settings.js (LED, PCIe controller, port speed) and dial.js (APN,  *)
(* USB mode, ...) use it. A change of a control is kept under its key; on  *)
(* apply the kept changes are sent one after another, a failure does not   *)
(* stop the others, and what was sent successfully is kept no longer. When *)
(* all is done the controls are read again.                                *)
(*                                                                         *)
(* The controls stay usable while the changes are sent: a second change of *)
(* a key is written into the kept item, and another key is added.          *)
(***************************************************************************)
EXTENDS Integers, FiniteSets

CONSTANTS
    Keys,           \* keys of staged changes
    Settings,       \* what a control can be set to
    Edits,          \* bound: changes the user makes
    MaxRefused      \* bound: commands that fail

NoSetting == "none"

VARIABLES
    items,          \* items: [key, run, born], born tells two items of a key apart
    batch,          \* the items that doApply still has to run, by born
    underWay,       \* what the item under way sends
    failed,         \* keys that failed in this apply
    applying,       \* the two buttons are disabled
    control,        \* what the controls show
    reading         \* onChanged: the controls are being read

VARIABLES           \* the modem and history
    setting,        \* settings of the modem
    wanted,         \* the last change of each key that the user has not undone
    overtaken,      \* keys that were changed while changes were being sent
    edits,          \* what is left of Edits
    refused         \* what is left of MaxRefused

vars == <<items, batch, underWay, failed, applying, control, reading, setting, wanted,
          overtaken, edits, refused>>

StagedInit ==
    /\ items = {} /\ batch = {} /\ underWay = NoSetting /\ failed = {}
    /\ applying = FALSE /\ reading = FALSE
    /\ \E s \in Settings : setting = [k \in Keys |-> s]
    /\ control = setting
    /\ wanted = [k \in Keys |-> NoSetting] /\ overtaken = {}
    /\ edits = Edits /\ refused = MaxRefused

\* staged.set: the item of the key is overwritten in place, so that a run of
\* doApply that has not reached it sends the new setting.
Kept(k, s) ==
    IF \A i \in items : i.key # k THEN items \union {[key |-> k, run |-> s, born |-> Edits - edits]}
    ELSE {IF i.key = k THEN [i EXCEPT !.run = s] ELSE i : i \in items}

\* The change handlers of the controls.
Change(k, s) ==
    /\ edits > 0 /\ edits' = edits - 1
    /\ control[k] # s /\ control' = [control EXCEPT ![k] = s]
    /\ items' = Kept(k, s)
    /\ wanted' = [wanted EXCEPT ![k] = s]
    /\ overtaken' = IF applying THEN overtaken \union {k} ELSE overtaken \ {k}
    /\ UNCHANGED <<batch, underWay, failed, applying, reading, setting, refused>>

\* doApply: a copy of the list of items.
Apply ==
    /\ ~applying /\ items # {}
    /\ applying' = TRUE
    /\ batch' = {i.born : i \in items}
    /\ failed' = {}
    /\ UNCHANGED <<items, underWay, control, reading, setting, wanted, overtaken, edits, refused>>

\* The items are run in the order in which they were kept: the next one.
First == CHOOSE b \in batch : \A c \in batch : b <= c
ItemOf(born) == CHOOSE i \in items : i.born = born

\* it.run() of the next item.
Run ==
    /\ batch # {} /\ underWay = NoSetting
    /\ underWay' = ItemOf(First).run
    /\ UNCHANGED <<items, batch, failed, applying, control, reading, setting, wanted,
                   overtaken, edits, refused>>

\* A success takes the item out, whatever it has become in the meantime.
Dropped(i) == items \ {i}

Sent ==
    /\ underWay # NoSetting
    /\ LET i == ItemOf(First) IN
       /\ setting' = [setting EXCEPT ![i.key] = underWay]
       /\ items' = Dropped(i)
    /\ batch' = batch \ {First} /\ underWay' = NoSetting
    /\ UNCHANGED <<failed, applying, control, reading, wanted, overtaken, edits, refused>>

\* Mutant: the first failure ends the apply.
AfterFailureNothing == {}

\* A failure does not stop what follows.
AfterFailure == batch \ {First}

Refused ==
    /\ underWay # NoSetting
    /\ refused > 0 /\ refused' = refused - 1
    /\ failed' = failed \union {ItemOf(First).key}
    /\ batch' = AfterFailure /\ underWay' = NoSetting
    /\ UNCHANGED <<items, applying, control, reading, setting, wanted, overtaken, edits>>

\* Mutant: the failed changes are given up with the others.
KeptAfterNone == {}

\* After a run without a failure nothing is kept at all.
KeptAfter == IF failed = {} THEN {} ELSE items

\* The end of doApply.
ApplyEnds ==
    /\ applying /\ batch = {} /\ underWay = NoSetting
    /\ items' = KeptAfter
    /\ applying' = FALSE /\ reading' = TRUE
    /\ UNCHANGED <<batch, underWay, failed, control, setting, wanted, overtaken, edits, refused>>

\* doRevert
Revert ==
    /\ ~applying /\ items # {}
    /\ items' = {} /\ wanted' = [k \in Keys |-> NoSetting]
    /\ reading' = TRUE
    /\ UNCHANGED <<batch, underWay, failed, applying, control, setting, overtaken, edits, refused>>

\* onChanged has read the controls; a staged change stays kept and is no
\* longer shown. A control that could not be read keeps what it shows.
Reread ==
    /\ reading /\ reading' = FALSE
    /\ \E K \in SUBSET Keys :
          control' = [k \in Keys |-> IF k \in K THEN setting[k] ELSE control[k]]
    /\ UNCHANGED <<items, batch, underWay, failed, applying, setting, wanted, overtaken,
                   edits, refused>>

StagedMoves == Run \/ Sent \/ Refused \/ ApplyEnds \/ Reread

StagedNext ==
    \/ \E k \in Keys, s \in Settings : Change(k, s)
    \/ Apply \/ Revert
    \/ StagedMoves

StagedSpec == StagedInit /\ [][StagedNext]_vars /\ WF_vars(StagedMoves)

-----------------------------------------------------------------------------
(* Properties                                                              *)

StagedTypeOK ==
    /\ \A i \in items : i.key \in Keys /\ i.run \in Settings /\ i.born \in 0..Edits
    /\ batch \subseteq 0..Edits /\ underWay \in Settings \union {NoSetting}
    /\ failed \subseteq Keys /\ overtaken \subseteq Keys
    /\ control \in [Keys -> Settings] /\ setting \in [Keys -> Settings]

\* A change that the user has made and not undone is set in the modem or still
\* kept: a failure never loses it, and neither does the failure of another.
\* Left out are the keys that were changed while changes were being sent.
SetOrKept ==
    \A k \in Keys \ overtaken : wanted[k] # NoSetting =>
        setting[k] = wanted[k] \/ \E i \in items : i.key = k /\ i.run = wanted[k]

\* One failure stops nothing: when an apply ends, what is still kept failed in
\* it or was changed while it ran.
OthersTried ==
    applying /\ ~applying' => \A i \in items' : i.key \in failed \union overtaken

\* Inductive: an item has a key and a number of its own, and while changes are
\* being sent one that is kept is still to be run, has failed or was changed. It
\* holds what the user wants, unless it was changed while changes were being sent.
StagedBounds == Edits \in Nat /\ NoSetting \notin Settings
ItemsApart ==
    \A i \in items : /\ i \in [key : Keys, run : Settings, born : Nat] /\ i.born < Edits - edits
                     /\ \A j \in items : i.born = j.born \/ i.key = j.key => i = j
BatchOfItems ==
    /\ batch \subseteq {i.born : i \in items}
    /\ batch # {} => applying
    /\ underWay # NoSetting =>
          /\ batch # {}
          /\ \A i \in items : i.born = First => i.run = underWay \/ i.key \in overtaken
TriedOrWaits ==
    applying => \A i \in items : i.born \in batch \/ i.key \in failed \union overtaken
KeptIsWanted == \A i \in items : i.key \in overtaken \/ i.run = wanted[i.key]
StagedInv ==
    /\ edits \in 0..Edits /\ DOMAIN setting = Keys /\ DOMAIN wanted = Keys
    /\ ItemsApart /\ BatchOfItems /\ TriedOrWaits /\ KeptIsWanted /\ SetOrKept

\* "A second change of the same key overwrites the first, only the last one is
\* applied": when nothing is kept and nothing under way, the modem has the last
\* change.
LastOneApplied ==
    ~applying /\ items = {} => \A k \in Keys : wanted[k] \in {NoSetting, setting[k]}

\* An apply ends and gives the buttons back.
Unsettled == applying
ApplyReturns == Unsettled ~> ~Unsettled
=============================================================================
