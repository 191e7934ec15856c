------------------------------- MODULE SysCfg -------------------------------
(***************************************************************************)
(* The network configuration card of modem_settings.js (AT^SYSCFGEX) with  *)
(* the operators of parse.js it stands on. One command writes all fields,  *)
(* an OK does not mean that they were taken over, so the page reads them   *)
(* back and compares. What was read becomes the state of the card and is   *)
(* painted before it is compared; painting writes what the selections show *)
(* into it again. Nothing keeps a user from saving or refreshing while a   *)
(* save is under way: the commands queue in the order they were given, and *)
(* the read-back of the first save comes after the command of the second.  *)
(*                                                                         *)
(* The five fields are three here: the access order, the service domain it *)
(* constrains, and a band mask; the second mask and roaming are like them. *)
(***************************************************************************)
EXTENDS Integers, FiniteSets, Sequences

CONSTANTS
    Bands,          \* the bits of a mask that the modem can have
    Saves,          \* bound: saves and refreshes
    Picks           \* bound: changes of a selection

Orders == {"3g", "lte"}             \* an access order without and with 4G or 5G
Domains == {"voice", "both"}        \* 0 or 3, and the others
Masks == SUBSET Bands \ {{}}

Settings == [order : Orders, domain : Domains, mask : Masks]
Fields == {"order", "domain", "mask"}

\* An empty field: "leave unchanged" in the selection, not read in an answer.
Blank(f) == IF f = "mask" THEN {} ELSE "blank"

Unread == [order |-> Blank("order"), domain |-> "both", mask |-> Blank("mask")]

VARIABLES
    sysCfg,         \* sysCfg, shared with the answer it was read from
    ready,          \* sysCfgReady
    selected,       \* what the three selections show
    queue,          \* the commands of saves in the queue of the connection
    wanted,         \* the snapshot of the save the user was told of last
    told            \* what was told of it, if nothing was written since

VARIABLES           \* the modem and bounds
    modem,          \* its settings
    saves,
    picks

vars == <<sysCfg, ready, selected, queue, wanted, told, modem, saves, picks>>

Init ==
    /\ sysCfg = Unread /\ ready = FALSE
    /\ selected = [order |-> "lte", domain |-> "both", mask |-> Blank("mask")]
    /\ queue = <<>> /\ wanted = Unread /\ told = {}
    /\ modem \in Settings
    /\ saves = Saves /\ picks = Picks

-----------------------------------------------------------------------------
(* Painting and picking                                                    *)

\* applySrvConstraint: with 4G or 5G in the access order the service domain is
\* not "voice"; a selection that is gets corrected, and the state with it.
Constrained(cfg) ==
    IF cfg.order = "lte" /\ cfg.domain = "voice" THEN [cfg EXCEPT !.domain = "both"] ELSE cfg

\* ensureOption: a field that was read empty leaves the selection as it is.
Shown(field, cfg) == IF cfg[field] = Blank(field) THEN selected[field] ELSE cfg[field]

\* Mutant: the correction is shown and not kept.
PaintedAsRead(cfg) == [f \in Fields |-> Shown(f, cfg)]

\* applySysCfg: the selections show what was read, and paint writes what they
\* show into the very record that was read.
Painted(cfg) ==
    Constrained([f \in Fields |-> Shown(f, cfg)])

Applied(cfg) ==
    /\ sysCfg' = Painted(cfg)
    /\ selected' = Constrained([f \in Fields |-> Shown(f, cfg)])
    /\ ready' = TRUE

\* The user changes a selection: paintAcq, paintBand, paintSrv. Of the access
\* order only the constraint shows elsewhere.
Pick(field, v) ==
    /\ picks > 0 /\ picks' = picks - 1
    /\ selected[field] # v
    /\ field = "domain" => ~(sysCfg.order = "lte" /\ v = "voice")
    /\ LET c == [sysCfg EXCEPT ![field] = v]
           s == [selected EXCEPT ![field] = v]
           \* the constraint is applied by paintAcq only
           fixed == IF field = "order" THEN Constrained(c) ELSE c
       IN sysCfg' = fixed
          /\ selected' = IF fixed = c THEN s ELSE [s EXCEPT !.domain = fixed.domain]
    /\ UNCHANGED <<ready, queue, wanted, told, modem, saves>>

-----------------------------------------------------------------------------
(* Reading and saving                                                      *)

\* parseSysCfg: the answer has all fields, or masks that are blank, or is no
\* answer at all.
Answers == {modem, [modem EXCEPT !.mask = Blank("mask")]}

\* fetchSysCfg, of a refresh, at any time
Refresh ==
    /\ saves > 0 /\ saves' = saves - 1
    /\ \/ \E got \in Answers : Applied(got)
       \/ UNCHANGED <<sysCfg, ready, selected>>
    /\ UNCHANGED <<queue, wanted, told, modem, picks>>

\* Mutant: a save does not wait for a first read.
SavesAtOnce == TRUE

\* Before the settings have been read once nothing is saved.
MaySave == ready

\* A command of a save, with the snapshot it was pressed on.
Step(op, w) == [op |-> op, wanted |-> w]

Save ==
    /\ MaySave
    /\ saves > 0 /\ saves' = saves - 1
    /\ queue' = Append(queue, Step("write", sysCfg))
    /\ UNCHANGED <<sysCfg, ready, selected, wanted, told, modem, picks>>

\* What the modem makes of a field: it takes it over, ignores it, or cuts a
\* mask down to what its hardware can do. A blank is not sent.
Taken(f, w) ==
    IF w = Blank(f) THEN {modem[f]}
    ELSE {w, modem[f]} \union IF f = "mask" THEN {m \in Masks : m \subseteq w} ELSE {}

\* The modem carries a command out, or nothing of it; an OK queues the
\* read-back, and without one, lost or refused, the save has failed.
Write ==
    /\ queue # <<>> /\ Head(queue).op = "write"
    /\ \E m \in Settings :
          /\ \A f \in DOMAIN m : m[f] \in Taken(f, Head(queue).wanted[f])
          /\ modem' = m
    /\ \/ /\ queue' = Append(Tail(queue), Step("read", Head(queue).wanted))
          /\ told' = {} /\ UNCHANGED wanted
       \/ /\ queue' = Tail(queue)
          /\ told' = {"failed"} /\ wanted' = Head(queue).wanted
    /\ UNCHANGED <<sysCfg, ready, selected, saves, picks>>

\* sysCfgApplyCheck of one field
Verdict(f, want, got) ==
    CASE want = Blank(f) -> "notSent"
      [] want # Blank(f) /\ got = Blank(f) -> "unknown"
      [] want # Blank(f) /\ got = want -> "exact"
      [] OTHER -> IF f = "mask" /\ got \subseteq want THEN "clipped" ELSE "rejected"

\* The verdicts of all fields that were sent.
Judged(want, got) == {Verdict(f, want[f], got[f]) : f \in DOMAIN got} \ {"notSent"}

\* Mutant: "updated" when any field is exact.
ToldEarly(verdicts) == IF "exact" \in verdicts THEN {"updated"} ELSE verdicts

\* "Updated" only when every field is exact.
Told(verdicts) == IF verdicts \subseteq {"exact"} THEN {"updated"} ELSE verdicts \ {"exact"}

\* The read-back: the card shows the modem again, then the verdict is passed
\* on the record that has just been painted, against the snapshot of this save.
ReadBack ==
    /\ queue # <<>> /\ Head(queue).op = "read"
    /\ queue' = Tail(queue) /\ wanted' = Head(queue).wanted
    /\ \/ \E got \in Answers :
             Applied(got) /\ told' = Told(Judged(Head(queue).wanted, Painted(got)))
       \/ told' \in {{"unread"}, {"failed"}} /\ UNCHANGED <<sysCfg, ready, selected>>
    /\ UNCHANGED <<modem, saves, picks>>

Choices(field) ==
    CASE field = "order" -> Orders [] field = "domain" -> Domains [] OTHER -> SUBSET Bands

Moves == Write \/ ReadBack

Next ==
    \/ \E f \in Fields : \E v \in Choices(f) : Pick(f, v)
    \/ Refresh \/ Save
    \/ Moves

Spec == Init /\ [][Next]_vars /\ WF_vars(Moves)

-----------------------------------------------------------------------------
(* Properties                                                              *)

SysCfgTypeOK ==
    /\ ready \in BOOLEAN /\ modem \in Settings
    /\ told \subseteq {"updated", "failed", "unread", "unknown", "clipped", "rejected"}

\* Whatever was selected before the first read, no save in the queue sends a
\* domain that the access order forbids, and none an access order that nobody
\* chose: it is the modem's own or the user's.
WantedIsLegal ==
    \A i \in DOMAIN queue :
        /\ queue[i].wanted.order # Blank("order")
        /\ Constrained(queue[i].wanted) = queue[i].wanted

\* What the card would send is what it shows, through every mix of picks,
\* refreshes and read-backs.
SendsWhatItShows == ready => sysCfg = selected

\* "AT OK is not written": after "updated", the modem has every field that was
\* sent.
UpdatedIsWritten ==
    told = {"updated"} => \A f \in Fields :
                              wanted[f] \in {Blank(f), modem[f]}

\* Where painting changes nothing that was read, "updated" is the truth for the
\* fields that are not masks, whatever the modem ignored and whatever other save
\* was between the command and its read-back.
UpdatedUnlessPainted ==
    told = {"updated"} /\ Constrained(modem) = modem
        => \A f \in Fields \ {"mask"} : wanted[f] = modem[f]

\* Why: what the card keeps and shows are settings, but for what was never read;
\* a save sends a record that the constraint leaves alone.
Held == [order : Orders \union {Blank("order")}, domain : Domains, mask : SUBSET Bands]

Snapshots == {c \in Held : c.order \in Orders /\ Constrained(c) = c}
Steps == [op : {"write", "read"}, wanted : Snapshots]

SysInv ==
    /\ SysCfgTypeOK
    /\ sysCfg \in Held /\ selected \in Held
    /\ selected.order \in Orders
    /\ SendsWhatItShows /\ (ready => Constrained(sysCfg) = sysCfg)
    /\ queue \in Seq(Steps) /\ (told # {} => wanted \in Snapshots)
    /\ UpdatedUnlessPainted
=============================================================================
