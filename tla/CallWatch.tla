------------------------------ MODULE CallWatch ------------------------------
(***************************************************************************)
(* The calls that the modem reports: handle_call of rust/src/urc.rs. The   *)
(* modem writes RING and +CLIP, in either order and again and again, while *)
(* a call rings, and at its end ^CEND, NO CARRIER, or both. The lines wait *)
(* in the queue of the dispatcher, which drops those that find no room. A  *)
(* call is announced when its number is known, and once more at its end.   *)
(*                                                                         *)
(* There is one call at a time; a call with a withheld number has the      *)
(* empty one.                                                              *)
(***************************************************************************)
EXTENDS Integers, Sequences

CONSTANTS
    Numbers,        \* numbers that call, beside the withheld one
    MaxCalls,       \* bound: calls
    MaxLines,       \* bound: lines the modem writes
    UrcCap          \* capacity of the queue

Withheld == ""

VARIABLES
    number,         \* last_call_number
    recent,         \* last_call_at is within CALL_DEDUP_WINDOW
    ringing         \* call_state is not "idle"

VARIABLES           \* the modem and history
    lines,          \* the queue: [kind, call]
    caller,         \* per call so far: its number
    going,          \* the call under way rings, ends, or is over
    named,          \* calls whose number has got into the queue
    rung,           \* per call: notices that it rings
    ends,           \* per call: numbers told at its end
    outlasted,      \* the window has run out
    dropped,        \* a line has been dropped
    written         \* lines so far

dispatcher == <<number, recent, ringing, rung, ends>>
modem == <<caller, going, named>>
vars == <<dispatcher, lines, modem, outlasted, dropped, written>>

Calls == 1..MaxCalls
Current == Len(caller)

CallInit ==
    /\ number = Withheld /\ recent \in BOOLEAN /\ ringing = FALSE
    /\ lines = <<>> /\ caller = <<>> /\ going = "over" /\ named = {}
    /\ rung = [c \in Calls |-> 0] /\ ends = [c \in Calls |-> <<>>]
    /\ outlasted = FALSE /\ dropped = FALSE /\ written = 0

-----------------------------------------------------------------------------
(* The modem                                                               *)

Fits == Len(lines) < UrcCap

Write(kind) ==
    /\ written < MaxLines /\ written' = written + 1
    /\ lines' = IF Fits THEN Append(lines, [kind |-> kind, call |-> Current]) ELSE lines
    /\ dropped' = (dropped \/ ~Fits)

Comes(n) ==
    /\ going # "rings" /\ Current < MaxCalls
    /\ caller' = Append(caller, n) /\ going' = "rings"
    /\ UNCHANGED <<dispatcher, lines, named, outlasted, dropped, written>>

Rings ==
    /\ going = "rings" /\ Write("ring")
    /\ UNCHANGED <<dispatcher, modem, outlasted>>

Names ==
    /\ going = "rings" /\ Write("clip")
    /\ named' = IF Fits THEN named \union {Current} ELSE named
    /\ UNCHANGED <<dispatcher, caller, going, outlasted>>

\* Once or twice.
Ends ==
    /\ going \in {"rings", "ends"} /\ Write("end")
    /\ going' = IF going = "rings" THEN "ends" ELSE "over"
    /\ UNCHANGED <<dispatcher, caller, named, outlasted>>

\* CALL_DEDUP_WINDOW passes; a call may ring for longer.
WindowEnds ==
    /\ recent /\ recent' = FALSE /\ outlasted' = TRUE
    /\ UNCHANGED <<number, ringing, rung, ends, lines, modem, dropped, written>>

-----------------------------------------------------------------------------
(* The dispatcher                                                          *)

Takes(kind) ==
    /\ lines # <<>> /\ Head(lines).kind = kind /\ lines' = Tail(lines)
    /\ UNCHANGED <<modem, outlasted, dropped, written>>

The == Head(lines).call

HandleRing == Takes("ring") /\ ringing' = TRUE /\ UNCHANGED <<number, recent, rung, ends>>

\* same_call
SameCall(n) == n = number /\ recent /\ ringing

HandleClip ==
    /\ Takes("clip")
    /\ IF SameCall(caller[The]) THEN UNCHANGED dispatcher
       ELSE /\ number' = caller[The] /\ recent' = TRUE /\ ringing' = TRUE
            /\ rung' = [rung EXCEPT ![The] = @ + 1] /\ UNCHANGED ends

\* Mutant: the end leaves the number where it is.
AfterEndKept == number

\* The number that is left after an end.
AfterEnd == Withheld

\* The notice needs a number, the reset does not.
HandleEnd ==
    /\ Takes("end")
    /\ ends' = IF number = Withheld THEN ends ELSE [ends EXCEPT ![The] = Append(@, number)]
    /\ number' = AfterEnd /\ recent' = TRUE /\ ringing' = FALSE
    /\ UNCHANGED rung

CallNext ==
    \/ \E n \in Numbers \union {Withheld} : Comes(n)
    \/ Rings \/ Names \/ Ends \/ WindowEnds
    \/ HandleRing \/ HandleClip \/ HandleEnd

-----------------------------------------------------------------------------
(* Properties                                                              *)

\* Every variable has its type.
CallTypeOK ==
    /\ number \in Numbers \union {Withheld} /\ recent \in BOOLEAN /\ ringing \in BOOLEAN
    /\ Len(lines) <= UrcCap /\ Current <= MaxCalls
    /\ rung \in [Calls -> Nat] /\ named \subseteq Calls

\* A call is announced once, however often it rings and names its number, unless
\* it rings for longer than the window.
RingsOnce == \A c \in Calls : rung[c] > 1 => outlasted

Handled(c) == \A i \in 1..Len(lines) : lines[i].call # c

\* A call that has told its number is announced when its lines have been handled,
\* also when the same number calls again within the window: unless a line was
\* dropped, as the end of the call before may be.
CallsAreAnnounced ==
    ~dropped => \A c \in named : Handled(c) /\ caller[c] # Withheld => rung[c] > 0

\* The notice at the end tells the number of the call that has ended, and comes
\* once, also when the modem tells the end twice.
EndsAreRight == ~dropped => \A c \in Calls : ends[c] = <<>> \/ ends[c] = <<caller[c]>>

\* What the bound is.
CallBounds == MaxCalls \in Nat

\* Why: the lines of a call follow those of the calls before and stand in the
\* order they were written in, with those that tell its end last.
LinesInOrder ==
    /\ \A i \in 1..Len(lines) : lines[i].call <= Current
    /\ \A i, j \in 1..Len(lines) : i < j => lines[i].call <= lines[j].call
    /\ \A i, j \in 1..Len(lines) :
          i < j /\ lines[i].call = lines[j].call /\ lines[i].kind = "end" => lines[j].kind = "end"
    /\ \A i \in 1..Len(lines) : lines[i].call = Current /\ lines[i].kind = "end" => going # "rings"

\* No line of the call names it any more, and none will.
Over(c) ==
    /\ c < Current \/ (c = Current /\ going # "rings")
    /\ \A i \in 1..Len(lines) : lines[i].call = c => lines[i].kind = "end"

\* A call that was announced is still the one the dispatcher knows, or over.
Known(c) == SameCall(caller[c])
NoneBefore(c) == c <= Current /\ \A i \in 1..Len(lines) : c <= lines[i].call
Announced ==
    /\ \A c \in Calls : rung[c] > 0 => NoneBefore(c)
    /\ ~outlasted => \A c \in Calls : rung[c] <= 1 /\ (rung[c] = 1 => Known(c) \/ Over(c))

\* After the line i the lines of call c go on up to one that tells its end, or
\* that one is still to be written.
EndAhead(c, i) ==
    \/ \E k \in (i + 1)..Len(lines) :
          /\ lines[k].kind = "end" /\ lines[k].call = c
          /\ \A j \in (i + 1)..(k - 1) : lines[j].call = c
    \/ /\ c = Current /\ going = "rings"
       /\ \A j \in (i + 1)..Len(lines) : lines[j].call = c

\* The dispatcher holds the number of call c, whose end was not told.
Holds(c) == c <= Current /\ number = caller[c] /\ rung[c] > 0 /\ ends[c] = <<>>
ToldRight(c) == c <= Current /\ ends[c] = <<caller[c]>>
NameWaits(c) == \E i \in 1..Len(lines) : lines[i].kind = "clip" /\ lines[i].call = c

EachEnds == \A i \in 1..Len(lines) : lines[i].kind # "end" => EndAhead(lines[i].call, i)

\* As long as no line was dropped every call that was begun is ended, and the
\* number that the dispatcher holds is that of a call whose end is ahead.
NoneDropped ==
    /\ EachEnds
    /\ number # Withheld => \E c \in Calls : Holds(c) /\ EndAhead(c, 0)
    /\ \A c \in Calls : ends[c] # <<>> => Over(c) /\ ToldRight(c)
    /\ \A c \in named : c <= Current /\ (caller[c] # Withheld => rung[c] > 0 \/ NameWaits(c))

CallInv ==
    /\ number \in Numbers \union {Withheld}
    /\ caller \in Seq(Numbers \union {Withheld}) /\ Current <= MaxCalls
    /\ lines \in Seq([kind : {"ring", "clip", "end"}, call : Calls])
    /\ going \in {"rings", "ends", "over"} /\ (going # "over" => Current > 0)
    /\ named \subseteq Calls
    /\ rung \in [Calls -> Nat] /\ ends \in [Calls -> Seq(Numbers \union {Withheld})]
    /\ LinesInOrder /\ Announced /\ dropped \in BOOLEAN /\ (~dropped => NoneDropped)
=============================================================================
