------------------------------- MODULE AddWizard -------------------------------
(***************************************************************************)
(* The wizard that adds an eSIM profile (esim.js, openAddWizard): an       *)
(* activation code is pasted, scanned with the camera, read from a picture *)
(* or filled in by hand, and then downloaded. Asking for the camera,       *)
(* decoding a frame and decoding a picture take time, and the wizard may   *)
(* have gone on to other inputs, or be another wizard, when they end.      *)
(***************************************************************************)
EXTENDS Naturals, FiniteSets

CONSTANTS
    Wizards,        \* bound: times the wizard is opened
    Clicks,         \* bound: things the user does
    Looks           \* bound: frames and pictures

\* An activation code by its flag: a confirmation code is required, is not, or
\* nothing is said; "bad" is a text that is no activation code.
Codes == {"required", "free", "open"}
Texts == Codes \union {"bad"}
Empty == "empty"

Modes == {"code", "scan", "image", "manual"}

VARIABLES           \* the wizard in view, or the last one
    wizard,         \* its number
    open,           \* it is on the page
    mode,
    inputs,         \* number of its inputs: every paintInput makes new ones
    code,           \* codeInput.value
    hand,           \* the manual inputs: filled, with an OID, box ticked
    ccBox,          \* the confirmation code can be typed
    cc,             \* ccInput: "none", or its value: the code it was typed for
    started,        \* "start" is gone
    paste           \* pasteHandler: "none", "switch", or inputs of a picker

VARIABLES           \* the camera, of every wizard
    asked,          \* inputs that have asked for the camera: <<wizard, inputs>>
    stream,         \* the stream a wizard knows of: inputs, or 0
    on,             \* cameras that run, by the inputs that asked
    timers,         \* loops that wait for the next frame
    scanTimer,      \* the one whose timer a wizard knows of: inputs, or 0
    frames,         \* loops whose frame is being decoded
    pictures        \* pickers whose picture is being decoded

VARIABLES           \* page, history and bounds
    dialog,         \* the confirmation: a code and a confirmation code, or none
    busy, gone,
    downloaded,     \* history: what was downloaded
    late,           \* history: cameras granted after their inputs had gone
    clicks, looks

view == <<wizard, open, mode, inputs>>
typed == <<code, hand, ccBox, cc, started>>
camera == <<asked, stream, on, timers, scanTimer, frames>>
page == <<dialog, busy, gone, downloaded>>
vars == <<view, typed, paste, camera, pictures, page, late, clicks, looks>>

None == [c |-> Empty, cc |-> "none"]
NoHand == [filled |-> FALSE, oid |-> FALSE, ticked |-> FALSE]

WizardInit ==
    /\ wizard = 0 /\ open = FALSE /\ mode = "code" /\ inputs = 0
    /\ code = Empty /\ hand = NoHand /\ ccBox = FALSE /\ cc = "none" /\ started = FALSE /\ paste = "none"
    /\ asked = {} /\ stream = [w \in 1..Wizards |-> 0] /\ on = {} /\ timers = {} /\ frames = {}
    /\ scanTimer = [w \in 1..Wizards |-> 0]
    /\ pictures = {}
    /\ dialog = None /\ busy = FALSE /\ gone = FALSE /\ downloaded = {}
    /\ late = {} /\ clicks = Clicks /\ looks = Looks

Click == clicks > 0 /\ clicks' = clicks - 1 /\ dialog = None /\ ~gone

\* stopScan of wizard w: the handler of the page goes, the timer and the stream
\* that it knows of.
Stops(w) == on \ {<<w, stream[w]>>}

Forget(w) ==
    /\ stream' = [stream EXCEPT ![w] = 0]
    /\ timers' = timers \ {<<w, scanTimer[w]>>} /\ scanTimer' = [scanTimer EXCEPT ![w] = 0]

\* paintInput: new inputs; with a camera, the view "scan" asks for it.
Paint(w, m) ==
    /\ mode' = m /\ inputs' = inputs + 1
    /\ code' = Empty /\ ccBox' = FALSE /\ cc' = "none"
    /\ hand' = IF m = "manual" THEN NoHand ELSE hand
    /\ paste' = CASE m \in {"code", "manual"} -> "switch" [] m = "image" -> "picker" [] OTHER -> "none"
    /\ asked' = IF m = "scan" THEN asked \union {<<w, inputs'>>} ELSE asked

\* openAddWizard: the last wizard is stopped.
StopsLast(w) == IF w = 0 THEN on ELSE Stops(w)

Open ==
    /\ Click /\ wizard < Wizards /\ wizard' = wizard + 1 /\ open' = TRUE
    /\ on' = StopsLast(wizard)
    /\ IF wizard = 0 THEN UNCHANGED <<stream, timers, scanTimer>> ELSE Forget(wizard)
    /\ Paint(wizard', "code") /\ started' = FALSE
    /\ UNCHANGED <<frames, pictures, page, late, looks>>

\* Mutant: the stream is forgotten and goes on.
StopNot == Forget(wizard) /\ on' = on

Stop == Forget(wizard) /\ on' = Stops(wizard)

\* The button "cancel" of the wizard.
Close ==
    /\ Click /\ open /\ ~started /\ open' = FALSE
    /\ Stop /\ paste' = "none"
    /\ UNCHANGED <<wizard, mode, inputs, typed, asked, frames, pictures, page, late,
                   looks>>

Choose(m) ==
    /\ Click /\ open /\ m # mode
    /\ Stop /\ Paint(wizard, m)
    /\ UNCHANGED <<wizard, open, started, frames, pictures, page, late, looks>>

\* buildActivationCode and parseActivationCode: without an OID the flag is taken
\* for one.
ByHand(h) == IF ~h.filled THEN "bad" ELSE IF h.ticked /\ h.oid THEN "required" ELSE "open"

Current == IF mode = "manual" THEN ByHand(hand) ELSE code

\* showPreview, renderCc: an input of its own, unless the code needs none; then
\* the box goes, the input is kept in mind.
Preview(c) ==
    IF c = Empty THEN UNCHANGED <<ccBox, cc>>
    ELSE /\ ccBox' = (c \in {"required", "open"})
         /\ cc' = IF ccBox' THEN Empty ELSE cc

Type(c) ==
    /\ Click /\ open /\ mode # "manual" /\ c # code
    /\ code' = c /\ Preview(c)
    /\ UNCHANGED <<view, hand, started, paste, camera, pictures, page, late, looks>>

\* The inputs of the manual view show a preview, the box does not.
Fill(oid) ==
    /\ Click /\ open /\ mode = "manual" /\ (~hand.filled \/ hand.oid # oid)
    /\ hand' = [hand EXCEPT !.filled = TRUE, !.oid = oid]
    /\ Preview(ByHand(hand'))
    /\ UNCHANGED <<view, code, started, paste, camera, pictures, page, late, looks>>

Tick ==
    /\ Click /\ open /\ mode = "manual" /\ hand' = [hand EXCEPT !.ticked = ~@]
    /\ UNCHANGED <<view, code, ccBox, cc, started, paste, camera, pictures, page,
                   late, looks>>

TypeCc ==
    /\ Click /\ open /\ ccBox /\ cc = Empty /\ Current \in Codes /\ cc' = Current
    /\ UNCHANGED <<view, code, hand, ccBox, started, paste, camera, pictures, page,
                   late, looks>>

InView(w, n) == open /\ ~gone /\ w = wizard /\ n = inputs

\* getUserMedia is resolved: the wizard that asked knows the stream from now on,
\* whatever it shows.
Granted(w, n) ==
    /\ <<w, n>> \in asked /\ asked' = asked \ {<<w, n>>}
    /\ stream' = [stream EXCEPT ![w] = n] /\ on' = on \union {<<w, n>>}
    /\ timers' = timers \union {<<w, n>>} /\ scanTimer' = [scanTimer EXCEPT ![w] = n]
    /\ late' = IF InView(w, n) THEN late ELSE late \union {<<w, n>>}
    /\ UNCHANGED <<view, typed, paste, frames, pictures, page, clicks, looks>>

Denied(w, n) ==
    /\ <<w, n>> \in asked /\ asked' = asked \ {<<w, n>>}
    /\ UNCHANGED <<view, typed, paste, stream, on, timers, scanTimer, frames,
                   pictures, page, late, clicks, looks>>

\* The timer of the loop: no frame once there is no stream.
Frame(l) ==
    /\ l \in timers /\ timers' = timers \ {l}
    /\ IF stream[l[1]] = 0 THEN UNCHANGED <<frames, looks>>
       ELSE looks > 0 /\ looks' = looks - 1 /\ frames' = frames \union {l}
    /\ UNCHANGED <<view, typed, paste, asked, stream, on, scanTimer, pictures, page,
                   late, clicks>>

\* applyQrText, into the input that the wizard has by now.
Applied(w, c) ==
    IF w = wizard THEN code' = c /\ Preview(IF mode = "manual" THEN ByHand(hand) ELSE c)
    ELSE UNCHANGED <<code, ccBox, cc>>

Found(l, c) ==
    /\ l \in frames /\ frames' = frames \ {l}
    /\ Applied(l[1], c)
    /\ on' = Stops(l[1]) /\ Forget(l[1])
    /\ paste' = "none"
    /\ UNCHANGED <<view, hand, started, asked, pictures, page, late, clicks, looks>>

NotFound(l) ==
    /\ l \in frames /\ frames' = frames \ {l}
    /\ IF stream[l[1]] = 0 THEN UNCHANGED <<timers, scanTimer>>
       ELSE timers' = timers \union {l} /\ scanTimer' = [scanTimer EXCEPT ![l[1]] = l[2]]
    /\ UNCHANGED <<view, typed, paste, asked, stream, on, pictures, page, late,
                   clicks, looks>>

\* A picture, chosen or pasted: pasted elsewhere, it changes to the view for it.
Pick ==
    /\ looks > 0 /\ looks' = looks - 1 /\ ~gone /\ open /\ mode = "image" /\ dialog = None
    /\ pictures' = pictures \union {<<wizard, inputs>>}
    /\ UNCHANGED <<view, typed, paste, camera, page, late, clicks>>

PasteIt ==
    /\ looks > 0 /\ looks' = looks - 1 /\ ~gone
    /\ CASE paste = "picker" -> /\ pictures' = pictures \union {<<wizard, inputs>>}
                                /\ UNCHANGED <<mode, inputs, typed, paste, asked, on, stream, timers, scanTimer>>
         [] paste = "switch" -> /\ Stop /\ Paint(wizard, "image")
                                /\ pictures' = pictures \union {<<wizard, inputs'>>}
                                /\ UNCHANGED started
         [] OTHER -> FALSE
    /\ UNCHANGED <<wizard, open, frames, page, late, clicks>>

\* The picker asks whether its tip has a parent; it has, the box around it.
PictureFound(p, c) ==
    /\ p \in pictures /\ pictures' = pictures \ {p}
    /\ Applied(p[1], c)
    /\ UNCHANGED <<view, hand, started, paste, camera, page, late, clicks, looks>>

PictureUnread(p) ==
    /\ p \in pictures /\ pictures' = pictures \ {p}
    /\ UNCHANGED <<view, typed, paste, camera, page, late, clicks, looks>>

\* Mutant: the flag of the code is not looked at.
MayStartAnyway(c) == c \in Codes

\* start: what is required must be there.
MayStart(c) == c \in Codes /\ (c = "required" => cc \notin {Empty, "none"})

Start ==
    /\ Click /\ open /\ ~started /\ ~busy
    /\ MayStart(Current) /\ dialog' = [c |-> Current, cc |-> IF cc \in {Empty, "none"} THEN "none" ELSE cc]
    /\ UNCHANGED <<view, typed, paste, camera, pictures, busy, gone, downloaded,
                   late, looks>>

Dismiss ==
    /\ dialog # None /\ dialog' = None
    /\ UNCHANGED <<view, typed, paste, camera, pictures, busy, gone, downloaded,
                   late, clicks, looks>>

\* runDownload; with too little room on the card it ends at once.
Confirm(room) ==
    /\ dialog # None /\ dialog' = None /\ started' = TRUE
    /\ IF room THEN busy' = TRUE /\ downloaded' = downloaded \union {dialog}
       ELSE busy' = FALSE /\ UNCHANGED downloaded
    /\ UNCHANGED <<view, code, hand, ccBox, cc, paste, camera, pictures, gone, late,
                   clicks, looks>>

Ends ==
    /\ busy /\ busy' = FALSE
    /\ UNCHANGED <<view, typed, paste, camera, pictures, dialog, gone, downloaded,
                   late, clicks, looks>>

\* The page is left: the scan of the last wizard is stopped.
Leave ==
    /\ ~gone /\ gone' = TRUE /\ busy' = FALSE /\ dialog' = None /\ wizard # 0
    /\ Stop /\ paste' = "none"
    /\ UNCHANGED <<view, typed, asked, frames, pictures, downloaded, late, clicks,
                   looks>>

Sessions == {<<w, n>> : w \in 1..Wizards, n \in 1..(Clicks + Looks + 1)}

WizardNext ==
    \/ Open \/ Close \/ Tick \/ TypeCc \/ Pick \/ PasteIt \/ Start \/ Dismiss \/ Ends \/ Leave
    \/ \E m \in Modes : Choose(m)
    \/ \E c \in Texts : Type(c)
    \/ \E b \in BOOLEAN : Fill(b) \/ Confirm(b)
    \/ \E s \in Sessions : Granted(s[1], s[2]) \/ Denied(s[1], s[2])
    \/ \E l \in Sessions : Frame(l) \/ NotFound(l) \/ PictureUnread(l)
    \/ \E l \in Sessions, c \in Texts : Found(l, c) \/ PictureFound(l, c)

WizardSpec == WizardInit /\ [][WizardNext]_vars

-----------------------------------------------------------------------------
(* Properties                                                              *)

WizardTypeOK ==
    /\ wizard \in 0..Wizards /\ mode \in Modes /\ code \in Texts \union {Empty}
    /\ cc \in Codes \union {Empty, "none"} /\ paste \in {"none", "switch", "picker"}
    /\ on \subseteq Sessions /\ timers \subseteq Sessions /\ pictures \subseteq Sessions

\* A camera that was granted while its inputs were in view runs no longer than
\* they are: other inputs, another wizard, a code that was found and leaving the
\* page turn it off. (For a camera that is granted late see CameraGoesOff.)
CameraGoesWithView ==
    late = {} => \A s \in on : InView(s[1], s[2]) /\ mode = "scan"

\* A code that requires a confirmation code is never downloaded without one,
\* whatever was decoded or typed before.
RequiredHasCc == \A d \in downloaded : d.c = "required" => d.cc # "none"

\* "It is cleared with the page, or the light of the camera stays on." (The code
\* breaks this: a camera granted after the wizard was closed is never turned off.)
CameraGoesOff == gone => on = {}

\* A pasted picture is heard. (The code breaks this: a frame that is decoded after
\* its wizard has gone takes the handler of the one in view.)
PasteIsHeard == open /\ ~gone /\ mode # "scan" => paste # "none"

\* "Only while the picker is in the document." (The code breaks this: the parent
\* that is asked for is that of the picker, and a late picture replaces what was
\* typed into other inputs.)
LatePictureIgnored == \A p \in pictures : p \notin pictures' /\ ~InView(p[1], p[2]) => code' = code

\* A confirmation code goes with the code it was typed for. (The code breaks
\* this: the input of an earlier code is kept when the next one needs none.)
CcBelongs == \A d \in downloaded : d.cc \in {"none", d.c}

\* What was ticked is asked for. (The code breaks this: without an OID the flag of
\* the built code is read as one.)
TickedIsAsked == dialog = None /\ dialog' # None /\ mode = "manual" /\ hand.ticked => dialog'.c = "required"

\* What the bound is.
WizardBounds == Wizards \in Nat

\* Why: as long as no camera was granted late, the one that runs is that of the
\* inputs in view, which the wizard knows and will stop; and inputs that ask for
\* a camera are those of a scan, as no later ones get their number.
CameraKnown ==
    late = {} => \A s \in on : /\ s = <<wizard, inputs>> /\ stream[wizard] = inputs
                               /\ open /\ ~gone /\ mode = "scan"

AskedByScan ==
    /\ \A s \in asked : s[2] <= inputs
    /\ <<wizard, inputs>> \in asked => mode = "scan"

WizardInv ==
    /\ wizard \in 0..Wizards /\ inputs \in Nat /\ stream \in [1..Wizards -> Nat]
    /\ open => wizard # 0
    /\ asked \subseteq Nat \X Nat
    /\ AskedByScan /\ CameraKnown
    /\ dialog.c = "required" => dialog.cc # "none"
    /\ RequiredHasCc
=============================================================================
