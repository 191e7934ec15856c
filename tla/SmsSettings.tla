----------------------------- MODULE SmsSettings -----------------------------
(***************************************************************************)
(* sms_settings.js: the IMS switch, the SMS switch with its series of      *)
(* commands, the service centre and the message store, which are staged    *)
(* (module Staged has the bar itself), and "clear all messages". An OK to  *)
(* AT^IMSSWITCH does not mean that it took effect: both of its writers read *)
(* it back. The switches, the clearing and the reading run beside each     *)
(* other.                                                                  *)
(***************************************************************************)
EXTENDS Integers, Sequences

CONSTANTS
    Numbers,        \* service centres
    Clicks,         \* bound: things the user does
    MaxFail         \* bound: commands that fail, or are accepted and ignored

Stores == {"SM", "ME"}
Empty == ""

VARIABLES
    imsChk, smsChk, center,     \* what the two switches and the field show
    smsAt, smsTo, steps,        \* the series of the SMS switch: stage, target, left
    imsAt, imsTo,               \* the IMS switch: stage, target
    loading,                    \* loadIMS is under way
    staged,                     \* [csca, mem], Empty if not staged
    clearAt, todo, missed,      \* clearing: stage, stores left, whether a delete failed
    listed, strayed,            \* history: the stores it is for; one of them was not
                                \* selected, or something else selected another
    told                        \* the last message

VARIABLES           \* the modem and bounds
    ims, radio, csca, mem,      \* what it is set to
    full,           \* the stores that hold messages
    clicks,
    fails

pageVars  == <<imsChk, smsChk, center>>
seriesVars == <<smsAt, smsTo, steps>>
imsVars   == <<imsAt, imsTo>>
clearVars == <<clearAt, todo, missed, listed, strayed>>
modemVars == <<ims, radio, csca, mem, full>>
vars == <<pageVars, seriesVars, imsVars, loading, staged, clearVars, told, modemVars, clicks, fails>>

Fails == fails > 0 /\ fails' = fails - 1
Clicked == clicks > 0 /\ clicks' = clicks - 1

Init ==
    /\ ims \in BOOLEAN /\ radio = TRUE /\ csca \in Numbers /\ mem \in Stores /\ full = Stores
    /\ imsChk = FALSE /\ smsChk = FALSE /\ center = Empty
    /\ smsAt = "idle" /\ smsTo = FALSE /\ steps = <<>>
    /\ imsAt = "idle" /\ imsTo = FALSE /\ loading = TRUE
    /\ staged = [csca |-> Empty, mem |-> Empty]
    /\ clearAt = "idle" /\ todo = {} /\ missed = FALSE /\ listed = {} /\ strayed = FALSE
    /\ told = "nothing" /\ clicks = Clicks /\ fails = MaxFail

\* loadIMS: both switches follow what is read; the service centre is read, and
\* put into its field, if IMS is on. A read that fails leaves them.
LoadIMS ==
    /\ loading /\ loading' = FALSE
    /\ \/ /\ imsChk' = ims /\ smsChk' = ims /\ center' = IF ims THEN csca ELSE center
          /\ UNCHANGED fails
       \/ Fails /\ UNCHANGED pageVars
    /\ UNCHANGED <<seriesVars, imsVars, staged, clearVars, told, modemVars, clicks>>

-----------------------------------------------------------------------------
(* Read-back                                                               *)

\* Mutant: the answer to the write is believed.
VerdictOnOK(want, got) == IF got = "unread" THEN "unknown" ELSE "ok"

\* verifyImsSwitch
Verdict(want, got) ==
    CASE got = "unread" -> "unknown"
      [] got # "unread" -> IF (got = "on") = want THEN "ok" ELSE "ignored"

\* readImsSwitch: fresh, past the cache.
ReadIms(got) ==
    \/ got = (IF ims THEN "on" ELSE "off") /\ UNCHANGED fails
    \/ got = "unread" /\ Fails

\* AT^IMSSWITCH=: carried out, accepted and ignored, or refused.
Carries(on) == ims' = on /\ UNCHANGED fails
Ignores == Fails /\ UNCHANGED ims

-----------------------------------------------------------------------------
(* The IMS switch                                                          *)

FlipIms ==
    /\ Clicked /\ imsAt = "idle"
    /\ imsChk' = ~imsChk /\ imsTo' = ~imsChk /\ imsAt' = "send"
    /\ UNCHANGED <<smsChk, center, seriesVars, loading, staged, clearVars, told, modemVars, fails>>

ImsAccepted ==
    /\ imsAt = "send" /\ imsAt' = "verify"
    /\ Carries(imsTo) \/ Ignores
    /\ UNCHANGED <<pageVars, seriesVars, imsTo, loading, staged, clearVars, told, radio, csca, mem, full, clicks>>

ImsRefused ==
    /\ imsAt = "send" /\ imsAt' = "idle" /\ Fails
    /\ imsChk' = ~imsTo /\ told' = "imsFailed"
    /\ UNCHANGED <<smsChk, center, seriesVars, imsTo, loading, staged, clearVars, modemVars, clicks>>

\* Not in effect: the switches are read again, nothing is sent back.
ImsVerified ==
    /\ imsAt = "verify" /\ imsAt' = "idle"
    /\ \E got \in {"on", "off", "unread"} :
          /\ ReadIms(got)
          /\ told' = [ok |-> IF imsTo THEN "imsOn" ELSE "imsOff", unknown |-> "imsUnverified",
                      ignored |-> "imsIgnored"][Verdict(imsTo, got)]
          /\ loading' = (loading \/ Verdict(imsTo, got) = "ignored")
    /\ UNCHANGED <<pageVars, seriesVars, imsTo, staged, clearVars, modemVars, clicks>>

-----------------------------------------------------------------------------
(* The SMS switch                                                          *)

\* Mutant: the service centre is always written, also from an empty field.
StepsWithCenter(enable, number) ==
    IF enable THEN <<"ceus", "ims", "radio", "bearer", number>>
    ELSE <<"ceus", "ims", "radio", "wipe">>

\* toggleSMS: an empty field leaves the service centre of the modem alone.
Steps(enable, number) ==
    IF enable THEN <<"ceus", "ims", "radio", "bearer">> \o (IF number = Empty THEN <<>> ELSE <<number>>)
    ELSE <<"ceus", "ims", "radio", "wipe">>

\* The question names what is dangerous; "no" turns the switch back.
ToggleSms(confirmed) ==
    /\ Clicked /\ smsAt = "idle"
    /\ IF confirmed
       THEN /\ smsChk' = ~smsChk /\ smsTo' = ~smsChk /\ smsAt' = "steps"
            /\ steps' = Steps(~smsChk, center)
       ELSE UNCHANGED <<smsChk, seriesVars>>
    /\ UNCHANGED <<imsChk, center, imsVars, loading, staged, clearVars, told, modemVars, fails>>

\* runToggleSteps: one step.
Step ==
    /\ smsAt = "steps" /\ steps # <<>> /\ steps' = Tail(steps)
    /\ CASE Head(steps) = "ims" -> (Carries(smsTo) \/ Ignores) /\ UNCHANGED <<radio, csca, full>>
         [] Head(steps) = "radio" -> radio' = smsTo /\ UNCHANGED <<ims, csca, full, fails>>
         [] Head(steps) = "wipe" -> full' = full \ {mem} /\ UNCHANGED <<ims, radio, csca, fails>>
         [] Head(steps) \in Numbers \union {Empty} -> csca' = Head(steps) /\ UNCHANGED <<ims, radio, full, fails>>
         [] OTHER -> UNCHANGED <<ims, radio, csca, full, fails>>
    /\ UNCHANGED <<pageVars, smsAt, smsTo, imsVars, loading, staged, clearVars, told, mem, clicks>>

\* The first step that is refused ends the series; what was done stays done.
StepRefused ==
    /\ smsAt = "steps" /\ steps # <<>> /\ Fails
    /\ smsAt' = "idle" /\ steps' = <<>> /\ told' = "smsFailed" /\ loading' = TRUE
    /\ UNCHANGED <<pageVars, smsTo, imsVars, staged, clearVars, modemVars, clicks>>

\* The read-back comes after the whole series.
SmsVerified ==
    /\ smsAt = "steps" /\ steps = <<>> /\ smsAt' = "center"
    /\ \E got \in {"on", "off", "unread"} :
          /\ ReadIms(got)
          /\ IF Verdict(smsTo, got) = "ignored"
             THEN told' = "smsIgnored" /\ loading' = TRUE /\ UNCHANGED smsChk
             ELSE told' = (IF smsTo THEN "smsOn" ELSE "smsOff") /\ smsChk' = smsTo /\ UNCHANGED loading
    /\ UNCHANGED <<imsChk, center, smsTo, steps, imsVars, staged, clearVars, modemVars, clicks>>

\* The service centre is read back and the switch enabled again.
CenterRead ==
    /\ smsAt = "center" /\ smsAt' = "idle"
    /\ \/ center' = csca /\ UNCHANGED fails
       \/ Fails /\ UNCHANGED center
    /\ UNCHANGED <<imsChk, smsChk, smsTo, steps, imsVars, loading, staged, clearVars, told, modemVars, clicks>>

-----------------------------------------------------------------------------
(* Service centre and store, staged                                        *)

\* stageCenter: an empty number is not staged.
TypeCenter(n) ==
    /\ Clicked /\ n # center
    /\ center' = n /\ staged' = IF n = Empty THEN staged ELSE [staged EXCEPT !.csca = n]
    /\ UNCHANGED <<imsChk, smsChk, seriesVars, imsVars, loading, clearVars, told, modemVars, fails>>

StageStorage(m) ==
    /\ Clicked /\ staged.mem # m
    /\ staged' = [staged EXCEPT !.mem = m]
    /\ UNCHANGED <<pageVars, seriesVars, imsVars, loading, clearVars, told, modemVars, fails>>

\* The page is loaded again after it.
ApplyStaged ==
    /\ Clicked /\ staged # [csca |-> Empty, mem |-> Empty]
    /\ csca' = (IF staged.csca = Empty THEN csca ELSE staged.csca)
    /\ mem' = (IF staged.mem = Empty THEN mem ELSE staged.mem)
    /\ staged' = [csca |-> Empty, mem |-> Empty] /\ loading' = TRUE
    /\ strayed' = (strayed \/ (clearAt # "idle" /\ mem' # mem))
    /\ UNCHANGED <<pageVars, seriesVars, imsVars, clearAt, todo, missed, listed, told, ims, radio, full, fails>>

-----------------------------------------------------------------------------
(* Clear all messages                                                      *)

\* AT+CPMS? names the stores in use; it is usual that the three are one. Without
\* an answer all are tried.
ClearAll ==
    /\ Clicked /\ clearAt = "idle"
    /\ \/ todo' \in {{mem}, Stores} /\ UNCHANGED fails
       \/ todo' = Stores /\ Fails
    /\ clearAt' = "select" /\ missed' = FALSE /\ listed' = todo' /\ strayed' = FALSE
    /\ UNCHANGED <<pageVars, seriesVars, imsVars, loading, staged, told, modemVars>>

\* Whether the store could be selected is not looked at.
Select ==
    /\ clearAt = "select" /\ todo # {} /\ clearAt' = "delete"
    /\ \E s \in todo :
          /\ todo' = todo \ {s}
          /\ \/ mem' = s /\ UNCHANGED <<fails, strayed>>
             \/ Fails /\ strayed' = TRUE /\ UNCHANGED mem
    /\ UNCHANGED <<pageVars, seriesVars, imsVars, loading, staged, missed, listed, told, ims, radio, csca, full, clicks>>

\* Mutant: a delete that fails is not counted.
CountsNothing(failed) == missed

\* missed: a delete that fails is counted.
Counts(failed) == missed \/ failed

\* AT+CMGD=1,4 empties the store that is selected.
Delete ==
    /\ clearAt = "delete" /\ clearAt' = "select"
    /\ \/ full' = full \ {mem} /\ missed' = Counts(FALSE) /\ UNCHANGED fails
       \/ Fails /\ missed' = Counts(TRUE) /\ UNCHANGED full
    /\ UNCHANGED <<pageVars, seriesVars, imsVars, loading, staged, todo, listed, strayed, told, ims, radio, csca, mem, clicks>>

Cleared ==
    /\ clearAt = "select" /\ todo = {} /\ clearAt' = "idle"
    /\ told' = IF missed THEN "clearFailed" ELSE "cleared"
    /\ UNCHANGED <<pageVars, seriesVars, imsVars, loading, staged, todo, missed, listed, strayed, modemVars, clicks, fails>>

Moves ==
    \/ LoadIMS \/ ImsAccepted \/ ImsRefused \/ ImsVerified
    \/ Step \/ StepRefused \/ SmsVerified \/ CenterRead
    \/ Select \/ Delete \/ Cleared

Next ==
    \/ FlipIms \/ (\E b \in BOOLEAN : ToggleSms(b))
    \/ (\E n \in Numbers \union {Empty} : TypeCenter(n)) \/ (\E m \in Stores : StageStorage(m)) \/ ApplyStaged
    \/ ClearAll
    \/ Moves

\* Every command ends in an answer or in its timeout.
Spec == Init /\ [][Next]_vars /\ WF_vars(Moves)

-----------------------------------------------------------------------------
(* Properties                                                              *)

SmsSettingsTypeOK ==
    /\ smsAt \in {"idle", "steps", "center"} /\ imsAt \in {"idle", "send", "verify"}
    /\ clearAt \in {"idle", "select", "delete"} /\ todo \subseteq Stores /\ full \subseteq Stores
    /\ csca \in Numbers \union {Empty} /\ mem \in Stores

\* Nothing this page does leaves the modem without a service centre, whatever
\* is in the field when the SMS switch is turned.
CenterIsKept == csca # Empty

\* "On" and "off" are said of IMS and of SMS only when the modem was so when it
\* was read, or could not be read.
SwitchedIsRead ==
    told' # told /\ fails' = fails =>
        /\ told' \in {"imsOn", "smsOn"} => ims
        /\ told' \in {"imsOff", "smsOff"} => ~ims

\* "All cleared": the stores in use are empty, if each could be selected and no
\* one else selected another. (The page does not look at the first and does not
\* keep out the second.)
ClearedIsEmpty ==
    clearAt # "idle" /\ told' = "cleared" /\ clearAt' = "idle" /\ ~strayed => listed \intersect full = {}

\* Inductive: while nothing has gone wrong, the stores that a clearing has come
\* past are empty, but for the one that is selected and whose messages go next.
PassedIsEmpty ==
    clearAt # "idle" /\ ~missed /\ ~strayed =>
        (listed \ todo) \intersect full \subseteq (IF clearAt = "delete" THEN {mem} ELSE {})
SmsSetBounds == MaxFail \in Nat /\ Empty \notin Numbers
SmsSetInv ==
    /\ fails \in Nat /\ ims \in BOOLEAN /\ imsTo \in BOOLEAN /\ smsTo \in BOOLEAN
    /\ imsChk \in BOOLEAN /\ smsChk \in BOOLEAN
    /\ missed \in BOOLEAN /\ strayed \in BOOLEAN
    /\ PassedIsEmpty

\* And CenterIsKept: no series that waits writes an empty service centre.
CenterInv ==
    /\ csca \in Numbers /\ center \in Numbers \union {Empty}
    /\ staged.csca \in Numbers \union {Empty} /\ staged = [csca |-> staged.csca, mem |-> staged.mem]
    /\ steps \in Seq(Numbers \union {"ceus", "ims", "radio", "bearer", "wipe"})

\* A series and a clearing end, and the switch can be used again.
Unsettled == smsAt # "idle" \/ clearAt # "idle"
SeriesEnd == Unsettled ~> ~Unsettled

\* "All messages cleared" means that no store holds any. (The code breaks this.)
ClearedAll == told = "cleared" => full = {}
=============================================================================
