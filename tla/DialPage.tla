------------------------------- MODULE DialPage -------------------------------
(***************************************************************************)
(* Automatic dialling (dial.js) between three that set it: the page, the   *)
(* modem, and the service, which aligns the modem with the configuration   *)
(* whenever it has connected (atclient.rs, ensure_autodial). The page      *)
(* keeps changes until they are applied and then writes down what the      *)
(* modem answers, so that the service will want the same.                  *)
(***************************************************************************)
EXTENDS Naturals, Sequences

CONSTANTS
    Modes,          \* dial modes: 0 inside the modem, 1 by USB, 2 by Ethernet
    Clicks,         \* bound: things the user does
    Restarts,       \* bound: times the service connects
    MaxFail         \* bound: commands and commits that fail

Unread == 9                 \* dialMode was never read
Apns == {"a", "b"}

VARIABLES           \* state of the page
    settings,       \* enable, mode, apn as the page takes them to be
    form,           \* apnForm.apn and its input
    switch,         \* dialSwitch.checked
    modeSel,        \* dialModeSel.value
    items,          \* staged changes, oldest first: <<key, what it was staged with>>
    queue,          \* keys that an apply has still to send
    failed,         \* some item of the apply failed
    underWay,       \* the command at the modem; history: the mode as the page knew it
    loading,        \* the settings are being read
    cached,         \* the configuration as LuCI keeps it in the page
    committing

VARIABLES           \* the modem, the service, bounds
    modem,
    uci,            \* the configuration on the router
    clicks, restarts, failures

kept == <<items, queue, failed, underWay>>
vars == <<settings, form, switch, modeSel, kept, loading, cached, committing, modem, uci,
          clicks, restarts, failures>>

Idle == [c |-> [key |-> "none"], knew |-> Unread]

\* The configuration without the two options, and what the service makes of that.
NoOptions == [enable |-> Unread, mode |-> Unread]
Wanted(cfg) == IF cfg = NoOptions THEN [enable |-> 1, mode |-> 1] ELSE cfg

DialInit ==
    /\ modem \in [enable : {0, 1}, mode : Modes, apn : {"a"}]
    /\ uci \in {[enable |-> 1, mode |-> 1], NoOptions} /\ cached = uci
    /\ settings = [enable |-> 0, mode |-> Unread, apn |-> "a"]
    /\ form = "a" /\ switch = FALSE /\ modeSel = Unread
    /\ items = <<>> /\ queue = <<>> /\ failed = FALSE /\ underWay = Idle
    /\ loading = TRUE /\ committing = FALSE
    /\ clicks = Clicks /\ restarts = Restarts /\ failures = MaxFail

Click == clicks > 0 /\ clicks' = clicks - 1
Fail == failures > 0 /\ failures' = failures - 1

\* staged.set: a change of the same key takes its place.
Staged(key, with) ==
    IF \E n \in DOMAIN items : items[n][1] = key
    THEN [n \in DOMAIN items |-> IF items[n][1] = key THEN <<key, with>> ELSE items[n]]
    ELSE Append(items, <<key, with>>)

\* handleAutoDialChange
Switch ==
    /\ Click /\ switch' = ~switch
    /\ items' = Staged("autodial", IF switch' THEN 1 ELSE 0)
    /\ UNCHANGED <<settings, form, modeSel, queue, failed, underWay, loading,
                   cached, committing, modem, uci, restarts, failures>>

Type(a) ==
    /\ Click /\ form # a /\ form' = a
    /\ UNCHANGED <<settings, switch, modeSel, kept, loading, cached, committing,
                   modem, uci, restarts, failures>>

\* handleApnSettingChange: what is sent is read when it is sent.
StageApn ==
    /\ Click /\ items' = Staged("apn", 0)
    /\ UNCHANGED <<settings, form, switch, modeSel, queue, failed, underWay,
                   loading, cached, committing, modem, uci, restarts, failures>>

\* handleDialModeChange: with automatic dialling on, the choice is put back.
PickMode(m) ==
    /\ Click /\ m # modeSel
    /\ IF settings.enable = 1 THEN modeSel' = settings.mode /\ form' = form /\ UNCHANGED items
       ELSE modeSel' = m /\ items' = Staged("dialmode", m) /\ UNCHANGED form
    /\ UNCHANGED <<settings, switch, queue, failed, underWay, loading, cached,
                   committing, modem, uci, restarts, failures>>

Apply ==
    /\ queue = <<>> /\ underWay = Idle /\ items # <<>>
    /\ queue' = [n \in DOMAIN items |-> items[n][1]] /\ failed' = FALSE
    /\ UNCHANGED <<settings, form, switch, modeSel, items, underWay, loading,
                   cached, committing, modem, uci, clicks, restarts, failures>>

\* Mutant: 0 counts as unknown.
KnownModeOr == IF settings.mode \in {0, Unread} THEN 1 ELSE settings.mode

\* Only what was not read is guessed: 0 is a mode.
KnownMode == IF settings.mode = Unread THEN 1 ELSE settings.mode

\* The command of an item; "keep" is a parameter that is not given.
Command(key, with) ==
    CASE key = "autodial" /\ with = 1 -> [key |-> key, enable |-> 1, mode |-> KnownMode, apn |-> "keep"]
      [] key = "autodial" /\ with = 0 -> [key |-> key, enable |-> 0, mode |-> Unread, apn |-> "keep"]
      [] key = "apn" -> [key |-> key, enable |-> settings.enable, mode |-> KnownMode, apn |-> form]
      [] key = "dialmode" -> [key |-> key, enable |-> 1, mode |-> with, apn |-> "keep"]

\* An item is sent as it is staged by now.
Run ==
    /\ queue # <<>> /\ underWay = Idle
    /\ \E n \in DOMAIN items :
         /\ items[n][1] = queue[1]
         /\ underWay' = [c |-> Command(items[n][1], items[n][2]), knew |-> settings.mode]
    /\ UNCHANGED <<settings, form, switch, modeSel, items, queue, failed, loading,
                   cached, committing, modem, uci, clicks, restarts, failures>>

\* AT^SETAUTODIAL in the modem.
Set(c) ==
    [enable |-> c.enable,
     mode |-> IF c.mode = Unread THEN modem.mode ELSE c.mode,
     apn |-> IF c.apn = "keep" THEN modem.apn ELSE c.apn]

Without(n) == SubSeq(items, 1, n - 1) \o SubSeq(items, n + 1, Len(items))

\* The item is dropped, whatever it has become, and with the last one all that
\* was staged meanwhile, unless one failed; the page takes over what it sent, of
\* the APN what the form holds by now.
Sent ==
    /\ underWay # Idle /\ underWay' = Idle /\ queue' = Tail(queue)
    /\ modem' = Set(underWay.c)
    /\ \E n \in DOMAIN items :
         /\ items[n][1] = underWay.c.key
         /\ items' = IF queue' = <<>> /\ ~failed THEN <<>> ELSE Without(n)
    /\ settings' = CASE underWay.c.key = "autodial" -> [settings EXCEPT !.enable = underWay.c.enable]
                     [] underWay.c.key = "apn" -> [settings EXCEPT !.apn = form]
                     [] OTHER -> [settings EXCEPT !.enable = 1, !.mode = underWay.c.mode]
    /\ loading' = (queue' = <<>>)
    /\ UNCHANGED <<form, switch, modeSel, failed, cached, committing, uci, clicks,
                   restarts, failures>>

Refused ==
    /\ underWay # Idle /\ Fail /\ underWay' = Idle /\ queue' = Tail(queue) /\ failed' = TRUE
    /\ loading' = (queue' = <<>>)
    /\ UNCHANGED <<settings, form, switch, modeSel, items, cached, committing,
                   modem, uci, clicks, restarts>>

\* fetchDialSettings, with what some firmware leaves out: the mode, of which
\* AT^NDISSTATQRY? may tell that it is 1. Then syncAutodialDefault: what the modem
\* has is what the service shall want, unless that is written down, or nothing is
\* and automatic dialling is on, as by default.
Read(withMode, ndis) ==
    /\ loading /\ loading' = FALSE
    /\ LET told == withMode \/ ndis
           mode == IF withMode THEN modem.mode ELSE 1
           want == [enable |-> modem.enable, mode |-> IF told THEN mode ELSE 1]
       IN /\ settings' = [enable |-> modem.enable, mode |-> IF told THEN mode ELSE settings.mode, apn |-> modem.apn]
          /\ form' = modem.apn /\ switch' = (modem.enable = 1) /\ modeSel' = settings'.mode
          /\ IF cached = want \/ (cached = NoOptions /\ want.enable = 1)
             THEN UNCHANGED <<cached, committing>>
             ELSE cached' = want /\ committing' = TRUE
    /\ UNCHANGED <<kept, modem, uci, clicks, restarts, failures>>

ReadFails ==
    /\ loading /\ Fail /\ loading' = FALSE /\ modeSel' = settings.mode
    /\ UNCHANGED <<settings, form, switch, kept, cached, committing, modem, uci,
                   clicks, restarts>>

\* uciCommit, and the service is started with what it says.
Committed ==
    /\ committing /\ committing' = FALSE /\ uci' = cached
    /\ UNCHANGED <<settings, form, switch, modeSel, kept, loading, cached, modem,
                   clicks, restarts, failures>>

NotCommitted ==
    /\ committing /\ Fail /\ committing' = FALSE
    /\ UNCHANGED <<settings, form, switch, modeSel, kept, loading, cached, modem,
                   uci, clicks, restarts>>

\* The service is asked for another mode than it can want: 0 becomes 1.
Clamped(mode) == IF mode < 1 THEN 1 ELSE mode

\* Mutant: the command goes out whatever the modem answers.
AlignsAlways(current) == TRUE

\* What is as desired is left alone.
Aligns(current) == current # Wanted(uci).enable

\* ensure_autodial, when the service has connected: the modem is asked first; no
\* answer counts as another state (2).
Ensure(answered) ==
    /\ restarts > 0 /\ restarts' = restarts - 1
    /\ IF answered THEN UNCHANGED failures ELSE Fail
    /\ modem' = IF Aligns(IF answered THEN modem.enable ELSE 2)
                THEN Set([enable |-> Wanted(uci).enable, apn |-> "keep",
                          mode |-> IF Wanted(uci).enable = 1 THEN Clamped(Wanted(uci).mode)
                                   ELSE Unread])
                ELSE modem
    /\ UNCHANGED <<settings, form, switch, modeSel, kept, loading, cached,
                   committing, uci, clicks>>

DialMoves ==
    \/ Run \/ Sent \/ Refused \/ ReadFails \/ Committed \/ NotCommitted
    \/ \E n \in BOOLEAN : Read(TRUE, n)

DialNext ==
    \/ Switch \/ StageApn \/ Apply \/ (\E a \in Apns : Type(a)) \/ (\E m \in Modes : PickMode(m))
    \/ (\E n \in BOOLEAN : Read(FALSE, n)) \/ (\E n \in BOOLEAN : Ensure(n))
    \/ DialMoves

DialSpec == DialInit /\ [][DialNext]_vars /\ WF_vars(DialMoves)

-----------------------------------------------------------------------------
(* Properties                                                              *)

DialTypeOK ==
    /\ modem \in [enable : {0, 1}, mode : Modes, apn : Apns]
    /\ {uci, cached} \subseteq [enable : {0, 1}, mode : Modes] \union {NoOptions}
    /\ settings.mode \in Modes \union {Unread} /\ form \in Apns /\ Len(items) <= 3

\* Switching automatic dialling or setting the APN leaves the mode alone, 0 as
\* well, when the page has read the mode the modem has.
ModeStays ==
    underWay.c.key \in {"autodial", "apn"} /\ underWay' = Idle /\ underWay.knew = modem.mode =>
        modem'.mode = modem.mode

\* Inductive: what is staged is one of the three changes, a command under way that
\* is not about the mode names the one the page knew, and the modem has a mode.
DialBounds == Unread \notin Modes /\ MaxFail \in Nat /\ Restarts \in Nat
StagedChanges == {<<"autodial", 0>>, <<"autodial", 1>>, <<"apn", 0>>} \union ({"dialmode"} \X Modes)
DialInv ==
    /\ failures \in Nat /\ restarts \in Nat /\ modem.mode # Unread
    /\ items \in Seq(StagedChanges)
    /\ underWay.c.key \in {"autodial", "apn"} =>
           underWay.c.mode \in {Unread, IF underWay.knew = Unread THEN 1 ELSE underWay.knew}

\* What runs as desired is not set up anew: the service interrupts no connection
\* when the modem has told it so.
RunningIsLeft ==
    restarts' < restarts /\ failures' = failures /\ modem.enable = Wanted(uci).enable
        => modem' = modem

\* What is applied ends, and the form shows what was read.
Unsettled == loading \/ queue # <<>>
DialSettles == Unsettled ~> ~Unsettled

\* The modem is dialled the way the configuration says. (The code breaks this: the
\* service knows the modes 1 and 2 only and makes 1 of 0.)
WantedMode == restarts' < restarts /\ modem'.mode # modem.mode => modem'.mode = Wanted(uci).mode

\* The configuration wants what the user has applied. (The code breaks this: after
\* a commit that failed LuCI's copy in the page already has it.)
ConfigFollows == ~loading /\ ~committing /\ queue = <<>> => cached = uci
=============================================================================
