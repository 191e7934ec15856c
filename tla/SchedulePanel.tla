---------------------------- MODULE SchedulePanel ----------------------------
(***************************************************************************)
(* schedule_panel.js: the card of the scheduled band lock, with the lists  *)
(* of parse.js it edits. Three writers meet in it: the switch, which saves *)
(* through UCI, the form, which saves through AT+SCHED=, and every load,   *)
(* which rebuilds the form; a timer refreshes the status line beside them. *)
(*                                                                         *)
(* Of the four lists of bands one is kept, 4G by night, and of the numbers *)
(* the check interval; the other fields are saved and loaded like them.    *)
(***************************************************************************)
EXTENDS Integers, Sequences

CONSTANTS
    Bands, Channels,    \* what a row may name
    MaxRows,            \* Parse.MAX_LOCK_ITEMS
    Intervals,          \* what may be typed; 10 is the least that is sent
    Edits,              \* bound: changes by the user
    MaxFail             \* bound: answers that do not come

NoBand == "no band"
NoChannel == ""
LeastInterval == 10
Types == {0, 1, 3}      \* no lock, channel, band

NewRow == [band |-> NoBand, arfcn |-> NoChannel]
Row == [band : Bands \union {NoBand}, arfcn : Channels \union {NoChannel}]
Rows == UNION {[1..n -> Row] : n \in 1..MaxRows}

VARIABLES
    checked,        \* schedChk
    editable,       \* the controls of the form are shown and enabled
    draft,          \* [type, rows, interval], or NoDraft
    shown,          \* the text of the interval's field
    known,          \* cfg: the last answer to AT+SCHED?
    busy, at,       \* the save: "idle", "send", "load"
    payload,        \* what it sends
    meant,          \* history: rows and interval as the user saw them
    commits,        \* values of the switch on their way to UCI, equal ones as one
    loading         \* loads that follow them

VARIABLES           \* the router and bounds
    staged,         \* schedule_enabled in L.uci
    backend,        \* the configuration of the back end
    edits,
    fails

formVars == <<checked, editable, draft, shown, known>>
saveVars == <<busy, at, payload, meant>>
vars == <<formVars, saveVars, commits, loading, staged, backend, edits, fails>>

NoDraft == [type |-> 0, rows |-> <<NewRow>>, interval |-> 0]

-----------------------------------------------------------------------------
(* Rows and lists (parse.js)                                               *)

\* The elements of s at the places in I, one after the other.
Picked(s, I) ==
    LET picks[n \in 0..Len(s)] ==
            IF n = 0 THEN <<>> ELSE IF n \in I THEN Append(picks[n - 1], s[n]) ELSE picks[n - 1]
    IN picks[Len(s)]

Valid(rows) == Picked(rows, {i \in DOMAIN rows : rows[i].band # NoBand})
Column(rows, f) == [i \in DOMAIN rows |-> rows[i][f]]

\* toLockLists throws: no row with a band, or one without a channel.
Throws(type, rows) ==
    /\ type # 0
    /\ \/ Valid(rows) = <<>>
       \/ type = 1 /\ \E i \in DOMAIN Valid(rows) : Valid(rows)[i].arfcn = NoChannel

\* Mutant: the channels of all rows are sent, also of those without a band.
ToListsUneven(type, rows) ==
    IF type = 0 THEN [type |-> 0, bands |-> <<>>, arfcns |-> <<>>]
    ELSE [type |-> type, bands |-> Column(Valid(rows), "band"),
          arfcns |-> IF type = 1
                     THEN SelectSeq(Column(rows, "arfcn"), LAMBDA c : c # NoChannel) ELSE <<>>]

\* toLockLists: the rows with a band, as one list for each column.
ToLists(type, rows) ==
    IF type = 0 THEN [type |-> 0, bands |-> <<>>, arfcns |-> <<>>]
    ELSE [type |-> type, bands |-> Column(Valid(rows), "band"),
          arfcns |-> IF type = 1 THEN Column(Valid(rows), "arfcn") ELSE <<>>]

\* fromLockLists: the n-th of each list make a row; at least one empty row.
FromLists(l) ==
    IF l.bands = <<>> THEN <<NewRow>>
    ELSE [i \in DOMAIN l.bands |->
             [band |-> l.bands[i], arfcn |-> IF i \in DOMAIN l.arfcns THEN l.arfcns[i] ELSE NoChannel]]

\* cfg before the first answer
NotRead == [enabled |-> FALSE, interval |-> 0, lists |-> ToLists(0, <<>>)]

-----------------------------------------------------------------------------
(* Loading                                                                 *)

\* What is stored when the page is opened.
StoredLists ==
    {ToLists(0, <<NewRow>>)}
      \union {ToLists(1, <<r>>) : r \in [band : Bands, arfcn : Channels]}

Init ==
    /\ backend \in [enabled : BOOLEAN, interval : {LeastInterval}, lists : StoredLists]
    /\ checked = backend.enabled /\ staged = backend.enabled /\ editable = TRUE
    /\ draft = NoDraft /\ shown = 0 /\ known = NotRead
    /\ busy = FALSE /\ at = "idle" /\ payload = backend /\ meant = NoDraft
    /\ commits = {} /\ loading = TRUE
    /\ edits = Edits /\ fails = MaxFail

\* refreshStatus: an answer that does not come leaves the last one.
Answer(a) ==
    \/ a = backend /\ UNCHANGED fails
    \/ a = known /\ fails > 0 /\ fails' = fails - 1

\* Mutant: the controls that are built anew are enabled.
BuiltEnabled == TRUE

\* renderForm: buildForm, and then the switch decides whether it can be used.
Built == checked

\* load: the form is built from what is known, whatever the user has changed.
LoadsFrom(a) ==
    /\ known' = a
    /\ IF a = NotRead THEN UNCHANGED <<draft, shown>>
       ELSE /\ draft' = [type |-> a.lists.type, rows |-> FromLists(a.lists), interval |-> a.interval]
            /\ shown' = a.interval
    /\ editable' = Built
    /\ UNCHANGED checked

Load ==
    /\ loading /\ loading' = FALSE
    /\ \E a \in {backend, known} : Answer(a) /\ LoadsFrom(a)
    /\ UNCHANGED <<saveVars, commits, staged, backend, edits>>

\* The timer: the status line, never the form.
Poll ==
    /\ \E a \in {backend, known} : Answer(a) /\ known' = a
    /\ UNCHANGED <<checked, editable, draft, shown, saveVars, commits, loading, staged, backend, edits>>

-----------------------------------------------------------------------------
(* The switch                                                              *)

\* setFormVisible
Shows(on) == checked' = on /\ editable' = on

Toggle ==
    /\ edits > 0 /\ edits' = edits - 1
    /\ Shows(~checked) /\ staged' = ~checked
    /\ commits' = commits \union {~checked}
    /\ UNCHANGED <<draft, shown, known, saveVars, loading, backend, fails>>

\* uciCommit writes what is staged when it gets to it.
Committed(on) ==
    /\ on \in commits /\ commits' = commits \ {on}
    /\ backend' = [backend EXCEPT !.enabled = staged]
    /\ loading' = TRUE
    /\ UNCHANGED <<formVars, saveVars, staged, edits, fails>>

\* The switch goes back; what was staged stays staged.
NotCommitted(on) ==
    /\ on \in commits /\ commits' = commits \ {on}
    /\ fails > 0 /\ fails' = fails - 1
    /\ Shows(~on)
    /\ UNCHANGED <<draft, shown, known, saveVars, loading, staged, backend, edits>>

-----------------------------------------------------------------------------
(* The form                                                                *)

Changes(d) ==
    /\ edits > 0 /\ edits' = edits - 1
    /\ editable /\ draft # NoDraft
    /\ d # draft /\ draft' = d
    /\ UNCHANGED <<checked, editable, known, saveVars, commits, loading, staged, backend, fails>>

\* kindEditor, renderItems: with "no lock" the rows are kept and not shown.
EditType(t) == Changes([draft EXCEPT !.type = t]) /\ UNCHANGED shown
EditRow(i, r) == draft.type # 0 /\ Changes([draft EXCEPT !.rows[i] = r]) /\ UNCHANGED shown
AddRow ==
    /\ draft.type # 0 /\ Len(draft.rows) < MaxRows
    /\ Changes([draft EXCEPT !.rows = Append(@, NewRow)]) /\ UNCHANGED shown

Without(rows, i) == SubSeq(rows, 1, i - 1) \o SubSeq(rows, i + 1, Len(rows))

\* The last row is emptied, not removed.
DeleteRow(i) ==
    /\ draft.type # 0
    /\ LET rest == Without(draft.rows, i)
       IN Changes([draft EXCEPT !.rows = IF rest = <<>> THEN <<NewRow>> ELSE rest])
    /\ UNCHANGED shown

Clamped(v) == IF v < LeastInterval THEN LeastInterval ELSE v

\* Mutant: the number that was corrected is not written back.
ShownAsTyped(v) == v

\* When the field is left it shows what was taken of it.
ShownAfter(v) == Clamped(v)

\* input, then blur: it comes before any click on another control.
TypeInterval(v) ==
    /\ Changes([draft EXCEPT !.interval = Clamped(v)])
    /\ shown' = ShownAfter(v)

Save ==
    /\ edits > 0 /\ edits' = edits - 1
    /\ editable /\ ~busy /\ draft # NoDraft /\ ~Throws(draft.type, draft.rows)
    /\ busy' = TRUE /\ at' = "send"
    /\ payload' = [enabled |-> TRUE, interval |-> draft.interval, lists |-> ToLists(draft.type, draft.rows)]
    /\ meant' = [draft EXCEPT !.interval = shown]
    /\ UNCHANGED <<formVars, commits, loading, staged, backend, fails>>

\* AT+SCHED= writes all of it, the switch included.
Saved ==
    /\ at = "send" /\ at' = "load"
    /\ backend' = payload
    /\ UNCHANGED <<formVars, busy, payload, meant, commits, loading, staged, edits, fails>>

NotSaved ==
    /\ at = "send" /\ fails > 0 /\ fails' = fails - 1
    /\ at' = "idle" /\ busy' = FALSE
    /\ UNCHANGED <<formVars, payload, meant, commits, loading, staged, backend, edits>>

LoadAfterSave ==
    /\ at = "load" /\ at' = "idle" /\ busy' = FALSE
    /\ \E a \in {backend, known} : Answer(a) /\ LoadsFrom(a)
    /\ UNCHANGED <<payload, meant, commits, loading, staged, backend, edits>>

Moves == Load \/ Saved \/ NotSaved \/ LoadAfterSave \/ \E on \in commits : Committed(on) \/ NotCommitted(on)

Next ==
    \/ Toggle \/ Poll
    \/ \E t \in Types : EditType(t)
    \/ \E i \in DOMAIN draft.rows :
          DeleteRow(i) \/ \E r \in Row : EditRow(i, r)
    \/ AddRow \/ Save
    \/ \E v \in Intervals : TypeInterval(v)
    \/ Moves

\* The browser and the back end answer, or the request times out.
Spec == Init /\ [][Next]_vars /\ WF_vars(Moves)

-----------------------------------------------------------------------------
(* Properties                                                              *)

PanelTypeOK ==
    /\ checked \in BOOLEAN /\ editable \in BOOLEAN /\ busy \in BOOLEAN /\ loading \in BOOLEAN
    /\ draft.type \in Types /\ draft.rows \in Rows /\ commits \subseteq BOOLEAN
    /\ at \in {"idle", "send", "load"} /\ busy = (at # "idle")

\* The form can be used exactly while the switch is on, through loads that
\* rebuild it, commits that fail and switches that are flipped meanwhile.
EditableOnlyWhenOn == draft # NoDraft => editable = checked

\* A lock by channel that is sent reads back as the rows the user saw, each band
\* with its own channel, without the rows that had no band.
PairsKept ==
    at = "send" /\ meant.type = 1 => FromLists(payload.lists) = Valid(meant.rows)

\* The interval that is sent is the one the field shows.
SendsShownInterval == at = "send" => payload.interval = meant.interval

\* A save ends and gives the form back.
Unsettled == busy
SaveEnds == Unsettled ~> ~Unsettled

\* Once everything has been answered the switch shows the state of the back
\* end. (The code breaks this: a commit that fails leaves its value staged, and
\* a save of the form turns the schedule on.)
SwitchIsTrue ==
    ~busy /\ ~loading /\ commits = {} /\ known = backend => checked = backend.enabled

\* Why: the field of the interval shows what the draft has, at every moment.
PanelInv ==
    /\ draft = [type |-> draft.type, rows |-> draft.rows, interval |-> shown]
    /\ EditableOnlyWhenOn /\ SendsShownInterval

\* What AT+SCHED= takes and AT+SCHED? answers.
Config(c) ==
    /\ c = [enabled |-> c.enabled, interval |-> c.interval, lists |-> c.lists]
    /\ c.lists.bands \in Seq(Bands \union {NoBand}) /\ c.lists.arfcns \in Seq(Channels \union {NoChannel})

\* Why a lock by channel keeps its pairs: rows become lists and lists rows, of
\* equal length, and what is sent was made from the rows the user saw.
RowsInv ==
    /\ draft.rows \in Seq(Row)
    /\ Config(backend) /\ Config(known) /\ Config(payload)
    /\ PairsKept
=============================================================================
