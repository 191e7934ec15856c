------------------------------ MODULE ModemPage ------------------------------
(***************************************************************************)
(* The cards of view/at-webserver/modem_settings.js that act at once: the  *)
(* SIM slot (five commands in a row), the switches, VoNR, the PIN and      *)
(* VoWiFi. All commands of the page go one after another; a command that   *)
(* follows another in a chain is queued when that one has been answered,   *)
(* so chains of different cards mix.                                       *)
(*                                                                         *)
(* Flight mode stands for every switch: hot-plug, carrier aggregation,     *)
(* DSS and the two of the temperature card answer in the same way, except  *)
(* that only flight mode asks first. VoWiFi is asked of rpcd, which serves *)
(* one call at a time.                                                     *)
(***************************************************************************)
EXTENDS Integers, Sequences, FiniteSets

CONSTANTS
    Clicks,         \* bound: operations that the user starts
    MaxFail,        \* bound: commands that are refused or lost
    PinTries        \* wrong PINs until the card asks for its PUK

VARIABLES
    queue,          \* commands of the page in the order of their sending
    shown,          \* what the page shows
    vowifi,         \* vowifiState: [imssw, setBusy, busy], imssw may be "unknown"
    rpcd            \* calls of VoWiFi at rpcd, in order

VARIABLES           \* the modem, the card and bounds
    modem,          \* [radio, hot, slot, vonr, ims]
    card,           \* [state, lock, tries]
    clicks,
    fails,
    halted,         \* what slot changes that stopped half way have left off
    stale           \* what was not read back, or turned back on a failure

vars == <<queue, shown, vowifi, rpcd, modem, card, clicks, fails, halted, stale>>

Slots == {0, 1}
Bits == {0, 1}

ModemInit ==
    /\ modem \in [radio : {TRUE}, hot : {TRUE}, slot : {0}, vonr : Bits, ims : BOOLEAN]
    /\ card \in [state : {"READY", "SIM_PIN"}, lock : {TRUE}, tries : {PinTries}]
    /\ shown = [air |-> FALSE, slot |-> 0, vonr |-> modem.vonr,
                pin |-> card.state, lock |-> "on"]
    /\ vowifi = [imssw |-> IF modem.ims THEN "on" ELSE "off", setBusy |-> FALSE, busy |-> FALSE]
    /\ queue = <<>> /\ rpcd = <<>>
    /\ clicks = Clicks /\ fails = MaxFail /\ halted = {} /\ stale = {}

Click == clicks > 0 /\ clicks' = clicks - 1

Send(cmd) == queue' = Append(queue, cmd)

-----------------------------------------------------------------------------
(* What the user does                                                      *)

\* handleSimSwitch, after its question: the first of five commands.
SwitchSim(slot) ==
    /\ Click /\ slot # shown.slot
    /\ shown' = [shown EXCEPT !.slot = slot]
    /\ Send([op |-> "sim", step |-> 1, slot |-> slot])
    /\ UNCHANGED <<vowifi, rpcd, modem, card, fails, halted, stale>>

\* The question is answered with no: the selection stays where it was put.
RefuseSim(slot) ==
    /\ Click /\ slot # shown.slot
    /\ shown' = [shown EXCEPT !.slot = slot]
    /\ stale' = stale \union {"slot"}
    /\ UNCHANGED <<queue, vowifi, rpcd, modem, card, fails, halted>>

\* The switch of flight mode.
FlipAir ==
    /\ Click
    /\ shown' = [shown EXCEPT !.air = ~@]
    /\ Send([op |-> "air", on |-> ~shown.air])
    /\ UNCHANGED <<vowifi, rpcd, modem, card, fails, halted, stale>>

SelectVonr(v) ==
    /\ Click /\ v # shown.vonr
    /\ shown' = [shown EXCEPT !.vonr = v]
    /\ Send([op |-> "vonr", v |-> v])
    /\ UNCHANGED <<vowifi, rpcd, modem, card, fails, halted, stale>>

\* verifyPin; the PIN that was entered is the right one or not.
VerifyPin(right) ==
    /\ Click
    /\ Send([op |-> "verify", right |-> right])
    /\ UNCHANGED <<shown, vowifi, rpcd, modem, card, fails, halted, stale>>

\* togglePinLock: a lock that is not known to be on is turned on.
ToggleLock(right) ==
    /\ Click
    /\ Send([op |-> "clck", right |-> right, on |-> shown.lock # "on"])
    /\ UNCHANGED <<shown, vowifi, rpcd, modem, card, fails, halted, stale>>

\* pukUnlock, with the right PUK.
PukUnlock ==
    /\ Click
    /\ Send([op |-> "puk"])
    /\ UNCHANGED <<shown, vowifi, rpcd, modem, card, fails, halted, stale>>

\* requestVowifiSet and doVowifiSet: the switch is live only while its state is
\* known and neither call is under way.
SetVowifi(on) ==
    /\ vowifi.imssw # "unknown" /\ ~vowifi.busy /\ ~vowifi.setBusy
    /\ Click
    /\ vowifi' = [vowifi EXCEPT !.setBusy = TRUE]
    /\ rpcd' = Append(rpcd, [op |-> "set", on |-> on])
    /\ UNCHANGED <<queue, shown, modem, card, fails, halted, stale>>

\* runVowifi looks at its own busy only.
RunVowifi ==
    /\ ~vowifi.busy /\ Click
    /\ vowifi' = [vowifi EXCEPT !.busy = TRUE]
    /\ rpcd' = Append(rpcd, [op |-> "facts"])
    /\ UNCHANGED <<queue, shown, modem, card, fails, halted, stale>>

\* loadAll: one after another flight mode, the slot, the PIN and the IMS switch.
Refresh ==
    /\ Click
    /\ Send([op |-> "load", what |-> "slot"])
    /\ UNCHANGED <<shown, vowifi, rpcd, modem, card, fails, halted, stale>>

-----------------------------------------------------------------------------
(* Answers                                                                 *)

Cmd == Head(queue)
Answered(next) == queue' = Tail(queue) \o next

\* What the modem does with the step of a slot change.
SimDone(c) ==
    CASE c.step = 1 -> [modem EXCEPT !.hot = FALSE]
      [] c.step = 2 -> [modem EXCEPT !.slot = c.slot]
      [] c.step = 3 -> [modem EXCEPT !.hot = TRUE]
      [] c.step = 4 -> [modem EXCEPT !.radio = FALSE]
      [] c.step = 5 -> [modem EXCEPT !.radio = TRUE]

\* Mutant: the radio is not turned on again.
FollowsFour(c) == IF c.step < 4 THEN <<[c EXCEPT !.step = @ + 1]>> ELSE <<>>

\* The next command of the row.
Follows(c) == IF c.step < 5 THEN <<[c EXCEPT !.step = @ + 1]>> ELSE <<>>

SimAnswered ==
    /\ queue # <<>> /\ Cmd.op = "sim"
    /\ modem' = SimDone(Cmd)
    /\ Answered(Follows(Cmd))
    /\ stale' = IF Cmd.step = 2 /\ shown.slot # Cmd.slot THEN stale \union {"slot"} ELSE stale
    /\ UNCHANGED <<shown, vowifi, rpcd, card, clicks, fails, halted>>

\* What is off for good when the row stops at this step, carried out or not.
LeftOff(c, done) ==
    (IF c.step = 2 \/ (c.step = 1 /\ done) \/ (c.step = 3 /\ ~done) THEN {"hot"} ELSE {})
    \union (IF (c.step = 4 /\ done) \/ (c.step = 5 /\ ~done) THEN {"radio"} ELSE {})

\* A step is refused, or carried out with its answer lost. The rest of the row is
\* not sent and nothing is undone; the selection stays on the slot it was put to.
SimFails ==
    /\ queue # <<>> /\ Cmd.op = "sim"
    /\ fails > 0 /\ fails' = fails - 1
    /\ \E done \in BOOLEAN : /\ modem' = IF done THEN SimDone(Cmd) ELSE modem
                             /\ halted' = halted \union LeftOff(Cmd, done)
    /\ stale' = stale \union {"slot"}
    /\ Answered(<<>>)
    /\ UNCHANGED <<shown, vowifi, rpcd, card, clicks>>

AirAnswered ==
    /\ queue # <<>> /\ Cmd.op = "air"
    /\ modem' = [modem EXCEPT !.radio = ~Cmd.on]
    /\ Answered(<<>>)
    /\ UNCHANGED <<shown, vowifi, rpcd, card, clicks, fails, halted, stale>>

\* Refused, or carried out with the answer lost: the switch goes to the opposite
\* of what was asked for, which need not be what it showed or what the modem has.
AirFails ==
    /\ queue # <<>> /\ Cmd.op = "air"
    /\ fails > 0 /\ fails' = fails - 1
    /\ modem' \in {modem, [modem EXCEPT !.radio = ~Cmd.on]}
    /\ shown' = [shown EXCEPT !.air = ~Cmd.on]
    /\ stale' = stale \union {"air"}
    /\ Answered(<<>>)
    /\ UNCHANGED <<vowifi, rpcd, card, clicks, halted>>

VonrAnswered ==
    /\ queue # <<>> /\ Cmd.op = "vonr"
    /\ modem' = [modem EXCEPT !.vonr = Cmd.v]
    /\ Answered(<<>>)
    /\ UNCHANGED <<shown, vowifi, rpcd, card, clicks, fails, halted, stale>>

\* Mutant: after a failure the selection stays on what was asked for.
ReadsNothing == Answered(<<>>)

\* revertVoNr: the modem is asked what it has.
ReadsVonr == Answered(<<[op |-> "vonrRead"]>>)

VonrFails ==
    /\ queue # <<>> /\ Cmd.op = "vonr"
    /\ fails > 0 /\ fails' = fails - 1
    /\ modem' \in {modem, [modem EXCEPT !.vonr = Cmd.v]}
    /\ ReadsVonr
    /\ UNCHANGED <<shown, vowifi, rpcd, card, clicks, halted, stale>>

\* A later change of the same control is waiting behind the read: the read
\* takes the control back, and the change is carried out unseen.
Crossed(what) == {c \in {what} : \E i \in 2..Len(queue) : queue[i].op = c}

VonrRead ==
    /\ queue # <<>> /\ Cmd.op = "vonrRead"
    /\ Answered(<<>>)
    /\ \/ /\ shown' = [shown EXCEPT !.vonr = modem.vonr]
          /\ stale' = (stale \ {"vonr"}) \union Crossed("vonr") /\ UNCHANGED fails
       \/ /\ fails > 0 /\ fails' = fails - 1
          /\ stale' = stale \union {"vonr"} /\ UNCHANGED shown
    /\ UNCHANGED <<vowifi, rpcd, modem, card, clicks, halted>>

-----------------------------------------------------------------------------
(* The PIN                                                                 *)

\* What the card makes of a command with a PIN.
CardDone(c) ==
    CASE c.op = "puk" -> [state |-> "READY", lock |-> card.lock, tries |-> PinTries]
      [] c.op = "verify" /\ c.right -> [card EXCEPT !.state = "READY", !.tries = PinTries]
      [] c.op = "clck" /\ c.right -> [card EXCEPT !.lock = c.on, !.tries = PinTries]
      [] OTHER -> [card EXCEPT !.tries = @ - 1,
                               !.state = IF card.tries = 1 THEN "SIM_PUK" ELSE @]

\* Whether the card accepts it.
Accepts(c) ==
    IF c.op = "puk" THEN card.state = "SIM_PUK"
    ELSE card.state # "SIM_PUK" /\ c.right /\ (c.op = "clck" => card.state = "READY")

\* runPinCmd after an OK: both states of the PIN are read.
PinAccepted ==
    /\ queue # <<>> /\ Cmd.op \in {"verify", "clck", "puk"} /\ Accepts(Cmd)
    /\ card' = CardDone(Cmd)
    /\ Answered(<<[op |-> "cpin"]>>)
    /\ UNCHANGED <<shown, vowifi, rpcd, modem, clicks, fails, halted, stale>>

\* The card refuses: a wrong PIN costs a try. Nothing is read again, so the
\* page does not notice that the card now asks for its PUK.
PinRefused ==
    /\ queue # <<>> /\ Cmd.op \in {"verify", "clck", "puk"}
    /\ \/ Cmd.op = "puk" /\ card.state # "SIM_PUK" /\ UNCHANGED <<card, stale>>
       \/ Cmd.op # "puk" /\ card.state = "SIM_PUK" /\ UNCHANGED <<card, stale>>
       \/ Cmd.op = "clck" /\ card.state = "SIM_PIN" /\ UNCHANGED <<card, stale>>
       \/ /\ Cmd.op # "puk" /\ card.state # "SIM_PUK" /\ ~Cmd.right
          /\ Cmd.op = "clck" => card.state = "READY"
          /\ card' = CardDone(Cmd)
          /\ stale' = stale \union {"pin"}
    /\ Answered(<<>>)
    /\ UNCHANGED <<shown, vowifi, rpcd, modem, clicks, fails, halted>>

\* The command or its answer is lost: as after a refusal nothing is read again.
PinLost ==
    /\ queue # <<>> /\ Cmd.op \in {"verify", "clck", "puk"} /\ Accepts(Cmd)
    /\ fails > 0 /\ fails' = fails - 1
    /\ card' \in {card, CardDone(Cmd)}
    /\ stale' = stale \union {"pin", "lock"}
    /\ Answered(<<>>)
    /\ UNCHANGED <<shown, vowifi, rpcd, modem, clicks, halted>>

\* Mutant: the lock is shown in the place of the state of the card.
ReadsOne == <<[op |-> "clckRead", pin |-> IF card.lock THEN "READY" ELSE "unknown"]>>

\* fetchPinStatus: AT+CPIN? first; the two states are kept apart.
ReadsTwo == <<[op |-> "clckRead", pin |-> card.state]>>

CpinRead ==
    /\ queue # <<>> /\ Cmd.op = "cpin"
    /\ \/ Answered(ReadsTwo) /\ UNCHANGED fails
       \/ /\ fails > 0 /\ fails' = fails - 1
          /\ Answered(<<[op |-> "clckRead", pin |-> "unknown"]>>)
    /\ UNCHANGED <<shown, vowifi, rpcd, modem, card, clicks, halted, stale>>

\* AT+CLCK="SC",2, and renderPinState. A lock that was not read is unknown.
ClckRead ==
    /\ queue # <<>> /\ Cmd.op = "clckRead"
    /\ \/ /\ shown' = [shown EXCEPT !.pin = Cmd.pin, !.lock = IF card.lock THEN "on" ELSE "off"]
          /\ UNCHANGED fails
       \/ /\ fails > 0 /\ fails' = fails - 1
          /\ shown' = [shown EXCEPT !.pin = Cmd.pin, !.lock = "unknown"]
    /\ stale' = IF Cmd.pin \in {card.state, "unknown"} /\ Crossed("clckRead") = {}
                THEN stale \ {"pin", "lock"} ELSE stale \ {"lock"}
    /\ Answered(<<>>)
    /\ UNCHANGED <<vowifi, rpcd, modem, card, clicks, halted>>

-----------------------------------------------------------------------------
(* Reading everything, and VoWiFi                                          *)

AfterLoad == [slot |-> "air", air |-> "vonr", vonr |-> "ims"]

\* fetchSimConfig, fetchAirplane, fetchNRCapability: what cannot be read keeps
\* what is shown. The PIN is read on the way.
LoadRead ==
    /\ queue # <<>> /\ Cmd.op = "load" /\ Cmd.what # "ims"
    /\ \/ /\ shown' = CASE Cmd.what = "slot" -> [shown EXCEPT !.slot = modem.slot]
                        [] Cmd.what = "air" -> [shown EXCEPT !.air = ~modem.radio]
                        [] Cmd.what = "vonr" -> [shown EXCEPT !.vonr = modem.vonr]
          /\ stale' = (stale \ {Cmd.what}) \union Crossed(Cmd.what) /\ UNCHANGED fails
       \/ fails > 0 /\ fails' = fails - 1 /\ UNCHANGED <<shown, stale>>
    /\ Answered((IF Cmd.what = "slot" THEN <<[op |-> "cpin"]>> ELSE <<>>)
                \o <<[op |-> "load", what |-> AfterLoad[Cmd.what]]>>)
    /\ UNCHANGED <<vowifi, rpcd, modem, card, clicks, halted>>

Ims(on) == IF on THEN "on" ELSE "off"

\* Mutant: what could not be read is off.
UnreadOff == "off"

\* fetchImsSwitch: what could not be read is unknown, and the switch is dead.
Unread == "unknown"

ImsRead ==
    /\ queue # <<>> /\ Cmd.op = "load" /\ Cmd.what = "ims"
    /\ \/ vowifi' = [vowifi EXCEPT !.imssw = Ims(modem.ims)] /\ UNCHANGED fails
       \/ /\ fails > 0 /\ fails' = fails - 1
          /\ vowifi' = [vowifi EXCEPT !.imssw = Unread]
    /\ Answered(<<>>)
    /\ UNCHANGED <<shown, rpcd, modem, card, clicks, halted, stale>>

\* mt5700.vowifi_set: the write may be refused or have no effect; what comes
\* back is the value that was read after it, or nothing.
VowifiSetAnswered ==
    /\ rpcd # <<>> /\ Head(rpcd).op = "set" /\ rpcd' = Tail(rpcd)
    /\ \E on \in {Head(rpcd).on, modem.ims}, read \in BOOLEAN :
          /\ ~read => fails > 0
          /\ fails' = IF read THEN fails ELSE fails - 1
          /\ modem' = [modem EXCEPT !.ims = on]
          /\ vowifi' = [vowifi EXCEPT !.setBusy = FALSE,
                                      !.imssw = IF read THEN Ims(on) ELSE Unread]
    /\ UNCHANGED <<queue, shown, card, clicks, halted, stale>>

\* mt5700.vowifi: the five checks, with the value of the switch.
VowifiFacts ==
    /\ rpcd # <<>> /\ Head(rpcd).op = "facts" /\ rpcd' = Tail(rpcd)
    /\ \/ vowifi' = [vowifi EXCEPT !.busy = FALSE, !.imssw = Ims(modem.ims)] /\ UNCHANGED fails
       \/ /\ fails > 0 /\ fails' = fails - 1
          /\ vowifi' = [vowifi EXCEPT !.busy = FALSE, !.imssw = Unread]
    /\ UNCHANGED <<queue, shown, modem, card, clicks, halted, stale>>

\* The call fails altogether, carried out or not: the switch keeps what it shows.
VowifiLost ==
    /\ rpcd # <<>> /\ rpcd' = Tail(rpcd)
    /\ fails > 0 /\ fails' = fails - 1
    /\ IF Head(rpcd).op = "facts" THEN vowifi' = [vowifi EXCEPT !.busy = FALSE] /\ modem' = modem
       ELSE /\ vowifi' = [vowifi EXCEPT !.setBusy = FALSE]
            /\ modem' \in {modem, [modem EXCEPT !.ims = Head(rpcd).on]}
    /\ stale' = IF modem' = modem THEN stale ELSE stale \union {"ims"}
    /\ UNCHANGED <<queue, shown, card, clicks, halted>>

ModemMoves ==
    \/ SimAnswered \/ SimFails \/ AirAnswered \/ AirFails
    \/ VonrAnswered \/ VonrFails \/ VonrRead
    \/ PinAccepted \/ PinRefused \/ PinLost \/ CpinRead \/ ClckRead
    \/ LoadRead \/ ImsRead
    \/ VowifiSetAnswered \/ VowifiFacts \/ VowifiLost

ModemNext ==
    \/ \E slot \in Slots : SwitchSim(slot) \/ RefuseSim(slot)
    \/ FlipAir
    \/ \E v \in Bits : SelectVonr(v)
    \/ \E right \in BOOLEAN : VerifyPin(right) \/ ToggleLock(right)
    \/ PukUnlock
    \/ \E on \in BOOLEAN : SetVowifi(on)
    \/ RunVowifi \/ Refresh
    \/ ModemMoves

ModemSpec == ModemInit /\ [][ModemNext]_vars /\ WF_vars(ModemMoves)

-----------------------------------------------------------------------------
(* Properties                                                              *)

Quiet == queue = <<>> /\ rpcd = <<>>

ModemTypeOK ==
    /\ modem \in [radio : BOOLEAN, hot : BOOLEAN, slot : Slots, vonr : Bits, ims : BOOLEAN]
    /\ card.tries \in 0..PinTries /\ card.state \in {"READY", "SIM_PIN", "SIM_PUK"}
    /\ vowifi.imssw \in {"on", "off", "unknown"}

\* After slot changes that overlapped in any way the radio and the hot-plug are
\* on, but for what a slot change that stopped half way has left off, and for the
\* radio where the user turned it off. A change that stopped leaves no more off
\* than what the steps it had behind it had turned off.
SlotChangeRestores ==
    Quiet => /\ modem.hot \/ "hot" \in halted
             /\ modem.radio \/ "radio" \in halted \/ shown.air \/ "air" \in stale

\* When nothing is under way the page shows VoNR, the PIN and the IMS switch as
\* they are or as unknown, whichever commands failed and whichever chains mixed.
\* Left out: a read-back that failed or that crossed a later change, a PIN that
\* the card refused, a command with a PIN and a call of VoWiFi that were lost.
ShowsTheTruth ==
    Quiet =>
      /\ "vonr" \notin stale => shown.vonr = modem.vonr
      /\ "pin" \notin stale => shown.pin \in {card.state, "unknown"}
      /\ "lock" \notin stale => shown.lock \in {"unknown", IF card.lock THEN "on" ELSE "off"}
      /\ "ims" \notin stale => vowifi.imssw \in {"unknown", Ims(modem.ims)}

\* Every command and call of the page ends, and no control is left waiting.
Unsettled == ~Quiet \/ vowifi.busy \/ vowifi.setBusy
PageSettles == Unsettled ~> ~Unsettled

\* What the bound is.
ModemBounds == PinTries \in Nat \ {0}

States == {"READY", "SIM_PIN", "SIM_PUK"}
SimCommands == [op : {"sim"}, step : 1..5, slot : Slots]
AirCommands == [op : {"air"}, on : BOOLEAN]
OtherCommands ==
    [op : {"vonr"}, v : Bits] \union [op : {"vonrRead", "cpin", "puk"}]
    \union [op : {"verify"}, right : BOOLEAN] \union [op : {"clck"}, right : BOOLEAN, on : BOOLEAN]
    \union [op : {"clckRead"}, pin : States \union {"unknown"}]
    \union [op : {"load"}, what : {"slot", "air", "vonr", "ims"}]
Commands == SimCommands \union AirCommands \union OtherCommands

\* Why: what a slot change has turned off is turned on by a command that waits;
\* and as long as flight mode shows what was asked for, the last of its commands
\* that wait asks for what it shows.
SimWaits(steps) == \E i \in 1..Len(queue) : queue[i].op = "sim" /\ queue[i].step \in steps
AirWaits(on) == \E i \in 1..Len(queue) : queue[i].op = "air" /\ queue[i].on = on

HotComes == modem.hot \/ "hot" \in halted \/ SimWaits({2, 3})
RadioComes ==
    \/ modem.radio \/ "radio" \in halted \/ shown.air \/ "air" \in stale
    \/ SimWaits({5}) \/ AirWaits(FALSE)
LastAsks(on) ==
    \/ \A i \in 1..Len(queue) : queue[i].op # "air"
    \/ \E i \in 1..Len(queue) : /\ queue[i].op = "air" /\ queue[i].on = on
                                /\ \A j \in (i + 1)..Len(queue) : queue[j].op # "air"
LastIsShown == "air" \notin stale => LastAsks(shown.air)

QueueInv ==
    /\ modem \in [radio : BOOLEAN, hot : BOOLEAN, slot : Slots, vonr : Bits, ims : BOOLEAN]
    /\ card \in [state : States, lock : BOOLEAN, tries : 0..PinTries]
    /\ card.state # "SIM_PUK" => card.tries > 0
    /\ vowifi \in [imssw : {"on", "off", "unknown"}, setBusy : BOOLEAN, busy : BOOLEAN]
    /\ shown \in [air : BOOLEAN, slot : Slots, vonr : Bits, pin : States \union {"unknown"},
                  lock : {"on", "off", "unknown"}]
    /\ queue \in Seq(Commands)
    /\ rpcd \in Seq([op : {"set"}, on : BOOLEAN] \union [op : {"facts"}])
    /\ halted \subseteq {"hot", "radio"}
    /\ HotComes /\ RadioComes /\ LastIsShown

\* And why the page shows the truth: of the commands about a control the last
\* that waits will set what is shown, or will read it again; where none waits it
\* is shown already. A state of the PIN that was read before it changed may only
\* wait with a later one behind it, or else it counts as stale.
NoneWaits(ops) == \A i \in 1..Len(queue) : queue[i].op \notin ops
LastIs(ops, c) ==
    \E i \in 1..Len(queue) : /\ queue[i] = c /\ c.op \in ops
                            /\ \A j \in (i + 1)..Len(queue) : queue[j].op \notin ops
VonrOps == {"vonr", "vonrRead"}
PinOps == {"cpin", "clckRead"}
VonrFits(c) == c.op = "vonr" => c.v = shown.vonr
PinFits(c) == c.op = "clckRead" => c.pin \in {card.state, "unknown"}

VonrComes ==
    "vonr" \notin stale => \/ NoneWaits(VonrOps) /\ shown.vonr = modem.vonr
                           \/ \E c \in Commands : LastIs(VonrOps, c) /\ VonrFits(c)
PinComes ==
    "pin" \notin stale => \/ NoneWaits(PinOps) /\ shown.pin \in {card.state, "unknown"}
                          \/ \E c \in Commands : LastIs(PinOps, c) /\ PinFits(c)
LockComes ==
    "lock" \notin stale => \/ shown.lock \in {"unknown", IF card.lock THEN "on" ELSE "off"}
                           \/ ~NoneWaits(PinOps)
ImsShown == "ims" \notin stale => vowifi.imssw \in {"unknown", Ims(modem.ims)}
TruthInv == VonrComes /\ PinComes /\ LockComes /\ ImsShown

ModemInv == QueueInv /\ TruthInv
=============================================================================
