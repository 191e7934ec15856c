------------------------------ MODULE Diagnosis ------------------------------
(***************************************************************************)
(* The diagnosis in three layers on the status page (network_status.js,    *)
(* runDiagnosis): commands to the modem one after the other, then what the *)
(* router knows of itself in one call, then a verdict for every check. A   *)
(* reading is "fine", "off" or, when nothing came, "none".                 *)
(***************************************************************************)
EXTENDS Naturals, Sequences, Functions

CONSTANTS
    AtChecks,       \* the commands of checkSteps, in this order
    SysChecks,      \* the checks of sysChecks, in this order
    Addresses,      \* of the interface
    Runs,           \* bound: times the button is pressed
    MaxFail         \* bound: readings that do not come

Readings == {"fine", "off", "none"}

\* checkSteps: the judge of a command; those that take no answer for a bad one.
BadWithout == {"CPIN", "CGDCONT", "C5GREG", "CGACT", "NDISSTATQRY", "CGPADDR"}
WarnsWithout == {"CFUN", "SYSCFGEX", "DHCP"}

AtLevel(check, reading) ==
    CASE reading = "fine" -> "ok"
      [] reading = "off" -> "bad"
      [] reading = "none" -> IF check \in BadWithout THEN "bad" ELSE "warn"

\* sysChecks: layers, and what a fact counts as when it is missing.
Layer(check) ==
    CASE check \in BadWithout \union WarnsWithout \union {"signal", "temperature"} -> "L1"
      [] check \in {"ping_gateway", "ping_public", "dns", "https"} -> "L3"
      [] OTHER -> "L2"

\* What the page has read anyway.
PageLevel(check, reading) ==
    CASE reading = "fine" -> "ok"
      [] reading = "off" -> "bad"
      [] reading = "none" -> IF check = "temperature" THEN "idle" ELSE "warn"

\* Facts with a default that says no, and one whose absence is good.
RouterLevel(check, reading) ==
    CASE reading = "fine" -> "ok"
      [] reading = "off" -> IF check \in {"autostart", "mtu", "dns_config"} THEN "warn" ELSE "bad"
      [] reading = "none" ->
            CASE check \in {"service", "init_script", "interface", "interface_up", "route", "firewall"} -> "bad"
              [] check \in {"autostart", "serial", "usb", "neighbour", "dns_config", "mtu", "time"} -> "warn"
              [] check \in {"interface_auto", "sqm"} -> "ok"

\* The address of the router against that of the modem.
AddressLevel(ours, modems) ==
    IF ours = "none" \/ modems = "none" THEN "warn" ELSE IF ours = modems THEN "ok" ELSE "bad"

\* Mutant: the gateway must answer.
GatewayAlone(reading, public) == PageLevel("ping_gateway", reading)

\* A gateway that does not answer is no fault while the world does.
GatewayLevel(reading, public) ==
    IF reading = "off" /\ public THEN "ok" ELSE PageLevel("ping_gateway", reading)

\* The rest of the third layer; https that fails may be a block of its own.
ReachLevel(check, reading) ==
    IF check = "https" /\ reading = "off" THEN "warn" ELSE PageLevel(check, reading)

VARIABLES           \* state.tools.diag and the page
    busy, ran, factsErr,
    atSteps,        \* level by command, those that have been asked
    items,          \* level by check
    modAddr,        \* modAddrs
    layer,          \* diagLayer
    next,           \* command of the chain, Len + 1 for the facts, + 2 for the verdicts
    facts,          \* what the call brought
    disposed,
    chains          \* history: chains that are running

VARIABLES           \* the router, history and bounds
    address,        \* of the interface on the router
    leased,         \* of the modem
    answers,        \* history: readings of this run, by command
    runs, failures

vars == <<busy, ran, factsErr, atSteps, items, modAddr, layer, next, facts, disposed, chains,
          address, leased, answers, runs, failures>>

Nothing == [c \in {} |-> "ok"]

DiagInit ==
    /\ busy = FALSE /\ ran = FALSE /\ factsErr = FALSE
    /\ atSteps = Nothing /\ items = Nothing /\ modAddr = "none" /\ layer = "L1"
    /\ next = 0 /\ facts = Nothing /\ disposed = FALSE /\ chains = 0
    /\ address \in Addresses /\ leased = address /\ answers = Nothing /\ runs = Runs /\ failures = MaxFail

Fail == failures > 0 /\ failures' = failures - 1

\* Mutant: the address of the last run stays.
AddrAtStartKept == modAddr

\* Everything of the last run goes.
AddrAtStart == "none"

\* runDiagnosis: one at a time.
Start ==
    /\ runs > 0 /\ runs' = runs - 1 /\ ~disposed
    /\ ~busy /\ busy' = TRUE /\ chains' = chains + 1
    /\ atSteps' = Nothing /\ items' = Nothing /\ facts' = Nothing /\ factsErr' = FALSE
    /\ modAddr' = AddrAtStart /\ answers' = Nothing
    /\ next' = 1
    /\ UNCHANGED <<ran, layer, disposed, address, leased, failures>>

\* A step of the chain: the judge makes what it can of the answer, or of none.
Step(reading) ==
    /\ busy /\ next \in 1..Len(AtChecks) /\ next' = next + 1
    /\ IF reading = "none" THEN Fail ELSE UNCHANGED failures
    /\ LET check == AtChecks[next] IN
       /\ atSteps' = [c \in DOMAIN atSteps \union {check} |->
                        IF c = check THEN AtLevel(check, reading) ELSE atSteps[c]]
       /\ answers' = [c \in DOMAIN answers \union {check} |-> IF c = check THEN reading ELSE answers[c]]
       /\ modAddr' = IF check = "CGPADDR" /\ reading = "fine" THEN leased ELSE modAddr
    /\ UNCHANGED <<busy, ran, factsErr, items, layer, facts, disposed, chains,
                   address, leased, runs>>

\* After the page has gone the chain asks nothing any more.
Skip ==
    /\ busy /\ disposed /\ next \in 1..(Len(AtChecks) + 1) /\ next' = next + 1
    /\ UNCHANGED <<busy, ran, factsErr, atSteps, items, modAddr, layer, facts,
                   disposed, chains, address, leased, answers, runs, failures>>

\* sysDiag: the facts, each there or not; the address with them.
Facts(f) ==
    /\ busy /\ ~disposed /\ next = Len(AtChecks) + 1 /\ next' = next + 1
    /\ facts' = f
    /\ UNCHANGED <<busy, ran, factsErr, atSteps, items, modAddr, layer, disposed,
                   chains, address, leased, answers, runs, failures>>

\* The call brings an error, and no facts: they are judged none the less.
NoFacts ==
    /\ busy /\ ~disposed /\ next = Len(AtChecks) + 1 /\ next' = next + 1
    /\ Fail /\ facts' = [c \in Range(SysChecks) |-> "none"] /\ factsErr' = TRUE
    /\ UNCHANGED <<busy, ran, atSteps, items, modAddr, layer, disposed, chains,
                   address, leased, answers, runs>>

\* Mutant: an exception ends the chain as it is.
EndsBusy == TRUE

\* The catch of the chain.
EndsCaught == FALSE

\* The call is rejected: nothing is judged.
Rejected ==
    /\ busy /\ ~disposed /\ next = Len(AtChecks) + 1 /\ Fail
    /\ busy' = EndsCaught /\ ran' = TRUE /\ factsErr' = TRUE /\ chains' = chains - 1 /\ next' = 0
    /\ UNCHANGED <<atSteps, items, modAddr, layer, facts, disposed, address, leased,
                   answers, runs>>

Verdict(check) ==
    CASE check = "address" -> AddressLevel(IF facts[check] = "none" THEN "none" ELSE address, modAddr)
      [] check = "ping_gateway" ->
            GatewayLevel(facts[check], \E c \in DOMAIN facts : c \in {"ping_public", "https"} /\ facts[c] = "fine")
      [] check \in {"ping_public", "dns", "https"} -> ReachLevel(check, facts[check])
      [] check \in {"signal", "temperature"} -> PageLevel(check, facts[check])
      [] OTHER -> RouterLevel(check, facts[check])

\* The checks that are not fine, by their places in the order in which they are
\* made.
Problems(levels, order) ==
    {n \in DOMAIN order : order[n] \in DOMAIN levels /\ levels[order[n]] \in {"bad", "warn"}}
First(places) == CHOOSE n \in places : \A m \in places : n <= m

\* Mutant: the view goes to the layer of the last problem of the router.
FirstLayerOf(modems, routers) == IF modems \union routers = {} THEN layer ELSE "L2"

\* What is to be shown first: the first problem, those of the modem come first.
FirstLayer(modems, routers) ==
    IF modems # {} THEN Layer(AtChecks[First(modems)])
    ELSE IF routers # {} THEN Layer(SysChecks[First(routers)]) ELSE layer

Verdicts ==
    /\ busy /\ next = Len(AtChecks) + 2
    /\ items' = [c \in DOMAIN facts |-> Verdict(c)]
    /\ layer' = FirstLayer(Problems(atSteps, AtChecks), Problems(items', SysChecks))
    /\ busy' = FALSE /\ ran' = TRUE /\ chains' = chains - 1 /\ next' = 0
    /\ UNCHANGED <<factsErr, atSteps, modAddr, facts, disposed, address, leased,
                   answers, runs, failures>>

\* Between runs: the modem is given another address, which the router has not
\* taken over yet, or it takes it over.
NewAddress(a) ==
    /\ next = 0 /\ a # leased /\ leased' = a
    /\ UNCHANGED <<busy, ran, factsErr, atSteps, items, modAddr, layer, next, facts,
                   disposed, chains, address, answers, runs, failures>>

Renew ==
    /\ next = 0 /\ address # leased /\ address' = leased
    /\ UNCHANGED <<busy, ran, factsErr, atSteps, items, modAddr, layer, next, facts,
                   disposed, chains, leased, answers, runs, failures>>

Leave ==
    /\ ~disposed /\ disposed' = TRUE
    /\ UNCHANGED <<busy, ran, factsErr, atSteps, items, modAddr, layer, next, facts,
                   chains, address, leased, answers, runs, failures>>

DiagMoves ==
    \/ (\E r \in Readings : Step(r)) \/ Skip \/ NoFacts \/ Rejected \/ Verdicts
    \/ \E f \in [Range(SysChecks) -> Readings] : Facts(f)

DiagNext ==
    \/ Start \/ Leave \/ Renew \/ (\E a \in Addresses : NewAddress(a))
    \/ DiagMoves

DiagSpec == DiagInit /\ [][DiagNext]_vars /\ WF_vars(DiagMoves)

-----------------------------------------------------------------------------
(* Properties                                                              *)

Levels == {"ok", "warn", "bad", "idle"}

DiagTypeOK ==
    /\ \A c \in DOMAIN atSteps : atSteps[c] \in Levels
    /\ \A c \in DOMAIN items : items[c] \in Levels
    /\ modAddr \in Addresses \union {"none"} /\ layer \in {"L1", "L2", "L3"} /\ chains \in 0..1

\* "The lease is void" is said only when it is, and "the same" when they are: an
\* address of an earlier run is never compared.
LeaseJudgedFairly ==
    next = Len(AtChecks) + 2 /\ "address" \in DOMAIN items' =>
        (items'["address"] = "bad" => address # leased) /\ (items'["address"] = "ok" => address = leased)

\* Inductive: while a run is under way no verdict stands, what it has asked is of
\* the two lists, and the address it has of the modem, if any, is the one the modem
\* has: no other is given during a run.
DiagBounds == AtChecks \in Seq(STRING) /\ SysChecks \in Seq(STRING)
ChainInv ==
    /\ next \in 0..(Len(AtChecks) + 2)
    /\ DOMAIN atSteps \subseteq Range(AtChecks) /\ DOMAIN facts \subseteq Range(SysChecks)
    /\ next # 0 => /\ busy /\ DOMAIN items = {}
                   /\ modAddr \in {"none", leased}

\* A gateway that answers no ping is not called a fault while the world is
\* reached: advice to take the interface down would break what works.
GatewayNotBlamed ==
    "ping_gateway" \in DOMAIN items /\ items["ping_gateway"] = "bad" =>
        \A c \in DOMAIN facts \intersect {"ping_public", "https"} : facts[c] # "fine"

\* Inductive too, for the verdict on the gateway: it stays until the next run clears
\* the facts and the verdicts together, and no fact comes while a verdict stands.
FactsInv == (\A c \in DOMAIN facts : facts[c] \in Readings) /\ GatewayNotBlamed

DiagInv == ChainInv /\ FactsInv

\* After a run the layer in view is one with a problem, if there is any.
ProblemInView ==
    ran' /\ busy /\ ~busy' /\ ~disposed =>
        LET bad == {c \in DOMAIN atSteps : atSteps[c] \in {"bad", "warn"}}
                     \union {c \in DOMAIN items' : items'[c] \in {"bad", "warn"}}
        IN DOMAIN items' # {} /\ bad # {} => \E c \in bad : Layer(c) = layer'

\* A diagnosis ends, whatever fails.
Unsettled == busy
DiagnosisEnds == Unsettled ~> ~Unsettled

\* "Not detected is unknown, not a fault": no verdict is bad without a reading.
\* (The code breaks this: a command without an answer and a missing fact count as
\* a bad one for many checks.)
UnknownIsNotBad ==
    /\ \A c \in DOMAIN atSteps : atSteps[c] = "bad" => answers[c] # "none"
    /\ \A c \in DOMAIN items : items[c] = "bad" => facts[c] # "none"
=============================================================================
