------------------------------- MODULE Terminal -------------------------------
(***************************************************************************)
(* The AT terminal (terminal.js): commands are typed, sent one at a time,  *)
(* listed with their answers and kept in a history that the arrow keys     *)
(* walk through. What parse.js holds dangerous is asked about first.       *)
(***************************************************************************)
EXTENDS Naturals, Sequences

CONSTANTS
    Commands,       \* what may be typed
    Dangerous,      \* those of AT_DANGER
    MaxLines,       \* MAX_LINES: entries that are kept
    MaxSends,       \* bound: commands that are sent
    MaxKeys         \* bound: keystrokes of the user

Empty == "empty"        \* the input is empty

VARIABLES
    input,          \* cmdInput.value
    entries,        \* commands answered and kept
    nodes,          \* the console: a list of nodes, two for an entry
    history,        \* commands sent, oldest first
    histIdx,        \* place in it, 0 for a new command
    draft,          \* histDraft
    dialogs,        \* open confirmations, newest last: what asks, and the command
    sending,        \* the flag, and the button with it
    onWay           \* commands at the client, oldest first

VARIABLES           \* history and bounds
    allowed,        \* times a warning was confirmed, by command
    sends, keys

vars == <<input, entries, nodes, history, histIdx, draft, dialogs, sending, onWay,
          allowed, sends, keys>>

Placeholder == "nothing_yet"

\* entryNodes: the line of the command and that of the answer.
EntryNodes(c) == <<<<c, "head">>, <<c, "body">>>>

TermInit ==
    /\ input = Empty /\ entries = <<>> /\ nodes = <<Placeholder>>
    /\ history = <<>> /\ histIdx = 0 /\ draft = Empty
    /\ dialogs = <<>> /\ sending = FALSE /\ onWay = <<>>
    /\ allowed = [c \in Commands |-> 0] /\ sends = 0 /\ keys = MaxKeys

Key == keys > 0 /\ keys' = keys - 1

Type(c) ==
    /\ Key /\ input # c /\ input' = c
    /\ UNCHANGED <<entries, nodes, history, histIdx, draft, dialogs, sending, onWay, allowed, sends>>

\* Arrow up: one older, from what is typed to the newest.
Up ==
    /\ Key /\ history # <<>>
    /\ draft' = IF histIdx = 0 THEN input ELSE draft
    /\ histIdx' = CASE histIdx = 0 -> Len(history) [] histIdx = 1 -> 1 [] OTHER -> histIdx - 1
    /\ input' = history[histIdx']
    /\ UNCHANGED <<entries, nodes, history, dialogs, sending, onWay, allowed, sends>>

\* Mutant: the draft is noted at every step.
NotesDraftAlways == input

\* What was typed is noted on the way into the history.
NotesDraft == IF histIdx = 0 THEN input ELSE draft

\* Arrow down: one newer, and past the newest to what was typed. (From a new
\* command it goes to the oldest.)
Down ==
    /\ Key
    /\ draft' = NotesDraft
    /\ IF histIdx < Len(history)
       THEN histIdx' = histIdx + 1 /\ input' = history[histIdx + 1]
       ELSE histIdx' = 0 /\ input' = draft'
    /\ UNCHANGED <<entries, nodes, history, dialogs, sending, onWay, allowed, sends>>

\* doSend: it asks nothing, the flag neither.
DoSend(c) ==
    /\ sends < MaxSends /\ sends' = sends + 1
    /\ sending' = TRUE /\ onWay' = Append(onWay, c)

\* Mutant: what is dangerous is sent as it is.
AsksNever(c) == FALSE

\* atDangerHint
Asks(c) == c \in Dangerous

\* send, by the button, by Enter or confirmed: nothing while one is under way.
SendIt(c, rest) ==
    IF sending THEN dialogs' = rest /\ UNCHANGED <<sending, onWay, sends>>
    ELSE IF Asks(c) THEN dialogs' = Append(rest, <<"danger", c>>) /\ UNCHANGED <<sending, onWay, sends>>
    ELSE dialogs' = rest /\ DoSend(c)

Send ==
    /\ Key /\ input # Empty
    /\ SendIt(input, dialogs)
    /\ UNCHANGED <<input, entries, nodes, history, histIdx, draft, allowed>>

\* A common command or a saved one: confirmAndSend asks in any case.
Shortcut(c) ==
    /\ Key /\ dialogs' = Append(dialogs, <<"label", c>>)
    /\ UNCHANGED <<input, entries, nodes, history, histIdx, draft, sending, onWay, allowed, sends>>

\* The newest of the confirmations lies on top.
OnTop == dialogs[Len(dialogs)]
Beneath == SubSeq(dialogs, 1, Len(dialogs) - 1)

\* A confirmation is given.
Confirm ==
    /\ Key /\ dialogs # <<>>
    /\ LET kind == OnTop[1]
           c == OnTop[2]
       IN IF kind = "label" THEN SendIt(c, Beneath) /\ UNCHANGED allowed
          ELSE /\ dialogs' = Beneath /\ DoSend(c)
               /\ allowed' = [allowed EXCEPT ![c] = @ + 1]
    /\ UNCHANGED <<input, entries, nodes, history, histIdx, draft>>

Cancel ==
    /\ Key /\ dialogs # <<>> /\ dialogs' = Beneath
    /\ UNCHANGED <<input, entries, nodes, history, histIdx, draft, sending, onWay, allowed, sends>>

\* Nodes that leave for so many entries too many.
NodesOut(n, overflow) == SubSeq(n, overflow + 1, Len(n))

\* Mutant: a command is noted as often as it is sent.
NotedEach(c) == Append(history, c)

\* One that was sent just before is not noted again.
Noted(c) == IF history # <<>> /\ history[Len(history)] = c THEN history ELSE Append(history, c)

\* The answer, or the failure: both are entries.
Answered ==
    /\ onWay # <<>>
    /\ LET c == Head(onWay)
           all == Append(entries, c)
           overflow == IF Len(all) > MaxLines THEN Len(all) - MaxLines ELSE 0
       IN /\ entries' = SubSeq(all, overflow + 1, Len(all))
          /\ nodes' = NodesOut(nodes \o EntryNodes(c), overflow)
          /\ history' = Noted(c)
    /\ histIdx' = 0 /\ input' = Empty
    /\ onWay' = Tail(onWay) /\ sending' = FALSE
    /\ UNCHANGED <<draft, dialogs, allowed, sends, keys>>

Clear ==
    /\ Key /\ entries' = <<>> /\ nodes' = <<Placeholder>>
    /\ UNCHANGED <<input, history, histIdx, draft, dialogs, sending, onWay, allowed, sends>>

TermNext ==
    \/ \E c \in Commands : Type(c) \/ Shortcut(c)
    \/ Up \/ Down \/ Send \/ Confirm \/ Cancel \/ Clear
    \/ Answered

TermSpec == TermInit /\ [][TermNext]_vars /\ WF_vars(Answered)

-----------------------------------------------------------------------------
(* Properties                                                              *)

TermTypeOK ==
    /\ input \in Commands \union {Empty} /\ draft \in Commands \union {Empty}
    /\ history \in Seq(Commands) /\ histIdx \in 0..Len(history)
    /\ Len(entries) <= MaxLines /\ sending \in BOOLEAN

\* A dangerous command reaches the modem only as often as it was confirmed,
\* however it was entered: typed, or taken out of the history.
DangerIsConfirmed ==
    \A c \in Dangerous : Len(onWay') > Len(onWay) /\ onWay'[Len(onWay')] = c
        => allowed'[c] = allowed[c] + 1

\* The history never holds the same command twice in a row.
HistoryIsShort == \A i \in 1..(Len(history) - 1) : history[i] # history[i + 1]

\* Inductive: what is typed, sent, noted or asked about is a command.
TermBounds == Dangerous \subseteq Commands
Questions == {"danger", "label"} \X Commands
TermInv ==
    /\ input \in Commands \union {Empty} /\ draft \in Commands \union {Empty}
    /\ history \in Seq(Commands) /\ histIdx \in 0..Len(history)
    /\ dialogs \in Seq(Questions) /\ onWay \in Seq(Commands)
    /\ allowed \in [Commands -> Nat] /\ HistoryIsShort

\* Walking through the history and back gives what had been typed.
DraftReturns ==
    histIdx # 0 /\ histIdx' = 0 /\ onWay' = onWay => input' = draft /\ draft' = draft

\* The button comes back.
Unsettled == sending
SendReturns == Unsettled ~> ~Unsettled

\* "The nodes of the overflow are taken away": the console shows the entries that
\* are kept. (The code breaks this: it takes one node for an entry of two, and
\* the placeholder stays.)
ConsoleShowsEntries == Len(nodes) <= 2 * MaxLines

\* The button is off while a command is under way. (The code breaks this: a
\* confirmation sends whatever is under way.)
OneAtATime == Len(onWay) <= 1
=============================================================================
