------------------------------ MODULE StatusPage ------------------------------
(***************************************************************************)
(* The overview, view/at-webserver/network_status.js: three chains of      *)
(* reads (the cell every 5 s, the ten slow tasks every 30 s, the identity  *)
(* of the device), the line that tells how old the readings are, and the   *)
(* sentence on top that is drawn from what was read so far (renderVerdict).*)
(*                                                                         *)
(* Of what is read, only what that sentence depends on is kept: the state  *)
(* of the SIM, the registration (CEREG, else CGREG), whether the cell has  *)
(* a real network code, and whether there is an address. The tasks of the  *)
(* slow chain that only fill a table stand for one another.                *)
(***************************************************************************)
EXTENDS Integers, FiniteSets

CONSTANTS
    MaxChanges,     \* bound: changes of the modem's state
    MaxFail,        \* bound: reads that fail
    MaxLooks        \* bound: times the user hides the page, clicks or leaves

VARIABLES
    modem,          \* [sim, reg, addr] as they are
    known,          \* [sim, reg, cell, addr] as they were read
    title,          \* the sentence that is shown
    hidden, auto, left,  \* the page is in the background, refreshes itself, is gone
    timers,         \* timers that are set
    fast,           \* fastRunning: "idle", "read", "draw"
    slow,           \* slowRunning: the task it is at, or "idle"
    then,           \* a slow round follows the fast one (refreshAll)
    dev, devDue,    \* devRunning; 60 s have gone by since the last one
    got,            \* history: the rounds under way that have read something
    unfounded,      \* history: the readings were called fresh after a round without any
    changes, failsLeft, looks

modemVars == <<modem, changes>>
roundVars == <<fast, slow, then, dev, devDue, got, unfounded>>
viewVars  == <<hidden, auto, left, timers, looks>>
vars == <<modemVars, known, title, roundVars, viewVars, failsLeft>>

\* hasAnyPsService: the registration if it was read, else whether the cell has a
\* network code. It never says "unknown".
Registered(k) ==
    CASE k.reg = "yes" -> TRUE
      [] k.reg = "no" -> FALSE
      [] OTHER -> k.cell

\* renderVerdict: the first link of the chain that is broken decides.
Verdict(k) ==
    CASE k.sim = "bad" -> "sim"
      [] k.sim # "bad" /\ ~Registered(k) -> "unregistered"
      [] k.sim # "bad" /\ Registered(k) /\ ~k.addr -> "no address"
      [] OTHER -> "connected"

Nothing == [sim |-> "none", reg |-> "none", cell |-> FALSE, addr |-> FALSE]

\* Mutant: a page that is opened in the background sets its timers.
WishedAlways(enabled, hid) == IF enabled THEN {"fast", "slow"} ELSE {}

\* resetTimers: the two of the auto refresh, not in the background.
Wished(enabled, hid) == IF enabled /\ ~hid THEN {"fast", "slow"} ELSE {}

Init ==
    /\ modem = [sim |-> "ok", reg |-> "yes", addr |-> TRUE]
    /\ known = Nothing /\ title = Verdict(Nothing)
    /\ hidden \in BOOLEAN /\ auto = TRUE /\ left = FALSE
    /\ timers = Wished(TRUE, hidden) 
    /\ fast = "read" /\ slow = "idle" /\ then = TRUE /\ dev = "read" /\ devDue = FALSE
    /\ got = {} /\ unfounded = FALSE
    /\ changes = MaxChanges /\ failsLeft = MaxFail /\ looks = MaxLooks

\* A read is answered, or it is not; sendCommand does not reject.
Reads == UNCHANGED failsLeft
Misses == failsLeft > 0 /\ failsLeft' = failsLeft - 1

Changes ==
    /\ changes > 0 /\ changes' = changes - 1
    /\ modem' \in {[modem EXCEPT !.sim = IF @ = "ok" THEN "bad" ELSE "ok"],
                   [modem EXCEPT !.reg = IF @ = "yes" THEN "no" ELSE "yes"],
                   [modem EXCEPT !.addr = ~@]}
    /\ UNCHANGED <<known, title, roundVars, viewVars, failsLeft>>

-----------------------------------------------------------------------------
(* The rounds                                                              *)

Draws(k) == title' = Verdict(k)

\* refreshFast and refreshSlow: a round that runs is joined.
StartFast == fast' = IF fast = "idle" THEN "read" ELSE fast
StartSlow == slow' = IF slow = "idle" THEN "reg" ELSE slow

TickFast ==
    /\ "fast" \in timers /\ fast = "idle" /\ StartFast
    /\ UNCHANGED <<modemVars, known, title, slow, then, dev, devDue, got, unfounded, viewVars, failsLeft>>

TickSlow ==
    /\ "slow" \in timers /\ slow = "idle" /\ StartSlow
    /\ UNCHANGED <<modemVars, known, title, fast, then, dev, devDue, got, unfounded, viewVars, failsLeft>>

\* updateNetworkInfo: the cell is kept when it was not read.
FastRead ==
    /\ fast = "read" /\ fast' = "draw"
    /\ \/ /\ Reads /\ known' = [known EXCEPT !.cell = (modem.reg = "yes")]
          /\ got' = got \union {"fast"}
       \/ Misses /\ UNCHANGED <<known, got>>
    /\ UNCHANGED <<modemVars, title, slow, then, dev, devDue, unfounded, viewVars>>

\* The round ends, whatever was read, and marks the readings as fresh.
FastDraw ==
    /\ fast = "draw" /\ fast' = "idle"
    /\ Draws(known)
    /\ unfounded' = (unfounded \/ "fast" \notin got) /\ got' = got \ {"fast"}
    /\ slow' = IF then /\ slow = "idle" THEN "reg" ELSE slow
    /\ then' = FALSE
    /\ UNCHANGED <<modemVars, known, dev, devDue, viewVars, failsLeft>>

\* Each task catches its own failure; the next one follows.
NextTask(t) ==
    CASE t = "reg" -> "addr" [] t = "addr" -> "dev" [] t = "dev" -> "end" [] OTHER -> "idle"

\* getPSReg: what was read before stays when the read fails.
TaskReg ==
    /\ slow = "reg" /\ ~left
    /\ \/ /\ Reads /\ known' = [known EXCEPT !.reg = modem.reg]
          /\ got' = got \union {"slow"} /\ slow' = NextTask("reg")
       \/ Misses /\ UNCHANGED <<known, got>> /\ slow' = NextTask("reg")
    /\ UNCHANGED <<modemVars, title, fast, then, dev, devDue, unfounded, viewVars>>

\* getDHCP and loadDiagnostics: an address that was read once stays, the answer
\* that there is none does not take it away (buildAddrList joins both).
TaskAddr ==
    /\ slow = "addr" /\ ~left
    /\ \/ /\ Reads /\ known' = [known EXCEPT !.addr = @ \/ modem.addr]
          /\ Draws([known EXCEPT !.addr = @ \/ modem.addr])
          /\ got' = got \union {"slow"} /\ slow' = NextTask("addr")
       \/ /\ Misses /\ UNCHANGED <<known, got>> /\ Draws(known) /\ slow' = NextTask("addr")
    /\ UNCHANGED <<modemVars, fast, then, dev, devDue, unfounded, viewVars>>

\* getMCS ends with loadDeviceInfo, which runs every 60 s, one at a time.
TaskDev ==
    /\ slow = "dev" /\ ~left /\ slow' = NextTask("dev")
    /\ devDue' = ~devDue
    /\ dev' = IF devDue /\ dev = "idle" THEN "read" ELSE dev
    /\ UNCHANGED <<modemVars, known, title, fast, then, got, unfounded, viewVars,
                   failsLeft>>

SlowEnd ==
    /\ slow = "end" \/ (slow # "idle" /\ left)
    /\ slow' = "idle"
    /\ IF left THEN UNCHANGED title ELSE Draws(known)
    /\ unfounded' = (unfounded \/ "slow" \notin got) /\ got' = got \ {"slow"}
    /\ UNCHANGED <<modemVars, known, fast, then, dev, devDue, viewVars, failsLeft>>

\* loadDeviceInfo: a state of the SIM that was not read counts as fine; the
\* sentence is not drawn.
DevRead ==
    /\ dev = "read" /\ dev' = "idle"
    /\ \/ Reads /\ known' = [known EXCEPT !.sim = modem.sim]
       \/ Misses /\ known' = [known EXCEPT !.sim = "ok"]
    /\ UNCHANGED <<modemVars, title, fast, slow, then, devDue, got, unfounded, viewVars>>

-----------------------------------------------------------------------------
(* The user                                                                *)

Looks == looks > 0 /\ looks' = looks - 1 /\ ~left

Hide ==
    /\ Looks /\ ~hidden /\ hidden' = TRUE
    /\ timers' = Wished(FALSE, TRUE)
    /\ UNCHANGED <<modemVars, known, title, roundVars, auto, left, failsLeft>>

\* refreshAll
RefreshAll ==
    /\ StartFast /\ then' = TRUE
    /\ dev' = "read" /\ devDue' = FALSE

Show ==
    /\ Looks /\ hidden /\ hidden' = FALSE
    /\ timers' = Wished(auto, FALSE)
    /\ RefreshAll
    /\ UNCHANGED <<modemVars, known, title, slow, got, unfounded, auto, left, failsLeft>>

ClickRefresh ==
    /\ Looks /\ ~hidden /\ RefreshAll
    /\ UNCHANGED <<modemVars, known, title, slow, got, unfounded, hidden, auto, left,
                   timers, failsLeft>>

\* The box of the auto refresh.
SetAuto ==
    /\ Looks /\ ~hidden /\ auto' = ~auto
    /\ timers' = Wished(~auto, FALSE)
    /\ UNCHANGED <<modemVars, known, title, roundVars, hidden, left, failsLeft>>

Dispose ==
    /\ Looks /\ left' = TRUE /\ timers' = {}
    /\ UNCHANGED <<modemVars, known, title, roundVars, hidden, auto, failsLeft>>

Rounds ==
    \/ FastRead \/ FastDraw \/ TaskReg \/ TaskAddr \/ TaskDev \/ SlowEnd \/ DevRead

Next ==
    \/ Changes \/ TickFast \/ TickSlow \/ Rounds
    \/ Hide \/ Show \/ ClickRefresh \/ SetAuto \/ Dispose

Spec ==
    /\ Init /\ [][Next]_vars
    /\ WF_vars(TickFast) /\ WF_vars(TickSlow)
    /\ WF_vars(FastRead) /\ WF_vars(FastDraw) /\ WF_vars(TaskReg) /\ WF_vars(TaskAddr)
    /\ WF_vars(TaskDev) /\ WF_vars(SlowEnd) /\ WF_vars(DevRead)

-----------------------------------------------------------------------------
(* Properties                                                              *)

StatusTypeOK ==
    /\ fast \in {"idle", "read", "draw"} /\ slow \in {"idle", "reg", "addr", "dev", "end"}
    /\ dev \in {"idle", "read"} /\ timers \subseteq {"fast", "slow"}
    /\ title \in {"sim", "unregistered", "no address", "connected"}

\* A page asks the modem by itself only while it is seen and is to refresh
\* itself: not when it was opened in the background, put there, or left.
AsksOnlySeen ==
    hidden \/ left \/ ~auto => timers = {}

\* A page that stays in sight and refreshes itself comes to say whether the SIM
\* is ready and the modem registered, also after reads that failed.
SentenceFollows ==
    ~hidden /\ ~left /\ auto
        => /\ title = "sim" <=> modem.sim = "bad"
           /\ title = "unregistered" <=> modem.sim = "ok" /\ modem.reg = "no"

\* The readings are called fresh only when a round has read something.
FreshMeansRead == ~unfounded

\* Nothing is said about the network before anything was read.
SilentAtFirst == known = Nothing => title \notin {"sim", "unregistered"}

\* Why AsksOnlySeen holds.
StatusInv == hidden \in BOOLEAN /\ left \in BOOLEAN /\ auto \in BOOLEAN /\ AsksOnlySeen
=============================================================================
