# MT5700-Console in TLA+

MT5700-Console is an OpenWrt package that runs a 5G modem: a service written in
Rust that owns the one AT channel of the modem (`src/rust/src`), a plug-in of
rpcd that carries requests to it (`root/usr/share/rpcd/ucode/mt5700.uc`), and a
LuCI front end in JavaScript (`htdocs/luci-static/resources`). This directory
holds the specifications of the parts whose correctness depends on the order in
which things happen, the TLC configurations that check them, and proofs of
their main invariants.

    tlc -workers 2 -config AtChannelSafe.cfg MC_AtChannel
    tlc -workers 2 -config RpcJobs.cfg RpcJobs
    tlc -workers 2 -config Pages.cfg MC_Pages
    tlapm AtChannelProofs.tla

1. [Parts of the system](#1-parts-of-the-system)
2. [Modules](#2-modules)
3. [Runs and bounds](#3-runs-and-bounds)
4. [Fairness and deadlock](#4-fairness-and-deadlock)
5. [What is proved](#5-what-is-proved)
6. [Where code and comments disagree](#6-where-code-and-comments-disagree)
7. [What is not modelled](#7-what-is-not-modelled)
8. [Plan](#8-plan)

## 1. Parts of the system

    browser pages      polls, commands       rpcd plug-in      TCP, one line each way
    rpc.js, view/*.js ------------------->   mt5700.uc   -------------------------->  rpcserver.rs
                                                                                        |
    network ---- modem <==== one serial or TCP connection ====> atclient.rs <--- send_command
                                                                    |                ^   ^   ^
                                                                    | URC queue      |   |   |
                                                                    v                |   |   |
                                                                  urc.rs --> smsclean.rs | schedule.rs
                                                                    |
                                                                    +--> event bus (rpcserver.rs), notify.rs

| Part | State | Operations | What makes it correct |
|---|---|---|---|
| AT channel, `atclient.rs` | connection slot, connected flag, command lock, pending command with the lines collected, long command count, URC queue | `send_command`, read loop, teardown and reconnect, `interrupt`, `init_modem` | an answer goes to its own command; every call ends, whatever the modem and the transport do; a lost connection is noticed and replaced; the count of scans is exact |
| Scheduled band lock, `schedule.rs` | configuration, current period, what was last applied, two timers | one round per check interval, `apply_lock`, recovery, `set_config` | the lock of the period ends up in the modem; a lock never keeps the modem off the network; what it says it applied is applied; no chase between lock and unlock |
| RPC server, `rpcserver.rs` | SMS job, cell scan, the event ring | `run_command`, two background jobs, abort, events | gates open again after every job; no page is given an old result; the modem is not left in data entry; no event is lost between cursor and ring |
| Dispatcher, `urc.rs` | full-storage flag, parts of long messages, call state | one handler per kind of line | every message is announced; a full storage is cleaned; calls announced once; a long message announced whole, once |
| Storage cleaner, `smsclean.rs` | none beyond its own steps | `clean_oldest` | deletes the oldest messages and no others, enough of them |
| Notifier, `notify.rs` | queue, pending list, time of the last batch, batches under way | `notify`, `run`, the stop | every notice goes out, in order, one batch per window; what a full list drops is the oldest |
| Log ring, `logger.rs` | numbered ring | push, `snapshot` | numbers and records agree |
| PDU codec, `pdu.rs`, `smsEncode.js`, `parse.js` | none | decode, encode | each end reads what the other writes |
| Configuration, `config.rs`, `schedconfig.rs` | UCI | load, `write_schedule_uci` | all of a schedule is written or nothing, and what is written is in force |
| Start and shutdown, `main.rs` | shutdown watch channel | start, join | all tasks end |
| Transports, `transport.rs`, `serial_linux.rs`, `serialdetect.rs` | file descriptors | open, read, write | I/O |
| Plug-in, `mt5700.uc` | cache files of read commands (off by default), sent-message log, TTL rule | `at`, `at_batch`, `events` and one-off requests | one request at a time |
| Command queue, `rpc.js` | command queue, read cache, pause after "busy", event cursor | `sendCommand`, `warmCache`, `poll` | one command at a time; writes are never repeated; nothing stale after a write; every call is answered; every event is seen |
| eSIM, `euicc.js`, `esim.js` | card session, download, receipts, wizard, camera | APDU sessions, download, switch of profile, activation code | channels closed; success means installed; no receipt lost; the camera goes with its view |
| Upgrade page, `upgrade.js` | what was seen of the FOTA states | start, poll | burnt once; the verdict is that of the version read |
| Settings pages | forms, changes that wait | fixed command sequences | radio comes back on; what was applied is set or still waits; forms show what is set |
| Message page, `sms_center.js` | list, reading marks, badges, deletions, sends | refresh, push, read, delete, send | what comes in stays, once; "sent" means sent; the modem's settings come back |
| Status, log, terminal pages, shell | readings, timers, watchers | rounds at two rates, diagnosis, refresh | a sentence follows the modem; no reads out of sight; what a page leaves behind is taken away |
| Scripts, `init.d`, `hotplug.d` | stamp and lock files | start, reload, renew | one renewal per event |

Three things make this system hard, and they are what the modules are about.
There is **one channel** for many tasks, and the modem's answers carry no name:
which command a line belongs to is known only from the order of things, across
time-outs, cancelled futures, lost connections and payloads written past the
lock. Tasks **remember what they did to the modem** (applied locks, running
jobs, flags, slot numbers) while commands fail half-way, other tasks intervene
and the service restarts. And pages **work in chains of requests that overlap**:
a click comes while a chain is under way, an answer after the page was left, a
reading from before a write after it.

`PROJECT.json` lists every part with its status, every hazard with the line
where it bites, and the source lines of each definition.

## 2. Modules

One module models each part; the `MC_` module beside it gives its constants
values for TLC; the `Proofs` module holds its theorems. An action is a stretch
of the code in which nothing else can run: from one `.await` or lock operation
to the next in Rust, from one callback to the next in JavaScript.

### The service

**AtChannel** (`atclient.rs`). `run` is the connection loop (`OpenTransport`,
`StartServing`, `ReadLoopEnds`, `LowerFlag`, `DropConnection`, `WakePending`,
`JoinInit`), and tears down twice, as the code does. `ReaderLocks` and
`HandleLine` are the read loop, which holds the pending lock while it handles a
line. Each sender walks through `send_command_inner`: `Acquire` the command lock
or `QueueTimeout`, `FetchWriter`, `InstallPending`, `WriteCommand`, wait until
`Notified` or `AnswerTimeout`, `TakePending`, `Return`. `DropFuture` is the
guard: it clears the slot with `try_lock` and leaves it if the read loop has the
lock. `CheckInterrupt` and `WriteInterrupt` are the two halves of `interrupt`,
with the lock released in between. The modem answers commands in the order it
got them. The variables `slot` and `buf` are the pending command, `longCmd` the
counter of scans. History variables record what each call returned.

**SerialCalls** is what the channel promises its callers: calls wait for their
turn, one at a time talks, and each ends once. AtChannel implements it
(`ImplementsCalls`; the mapping is `Stage` with `cmd`, `sent` and `outcome`),
checked by TLC and proved.

**Scheduler** (`schedule.rs`). `at` is the place where the one task is
suspended: `Sleep`, `Check`, `Target`, `Want`, `Decide` (`tick`), then
`Begin`, `RadioOff`, `SendLte`, `SendNr`, `RadioOn`, `Finish` (`apply_lock`), then
`HasService` and `Judge` (the recovery). Each command may fail and each place may see
a `SetConfig`, the end of a period, a lost link, a scan, a loss of coverage or
a `Restart`. Time counts check intervals and passes only while the task sleeps;
the two timers are ages, so behaviours need no end. A lock may be one no
command can be generated for ("bad") or one whose lists do not match ("odd",
for which the code sends an unlock).

**RpcJobs** (`rpcserver.rs`). A client asks (`Ask`), takes the scan lock
(`LockScan`) and is turned away, let through, starts a scan or aborts one; or
it submits a message and polls for the verdict (`Poll`, from
`sms_center.js`). The SMS job sends, fails or times out, writes the ESC that ends the data
entry, and settles; the scan job reports cells through `try_lock` and resets.
The AT channel appears only as its command lock, which a task has for one exchange.

**EventBus** (`rpcserver.rs`, `rpc.js`). `Push` numbers an event and trims the
ring; `Answer` is `since` with the frame budget; a page polls every 1.5 s whether
or not the last poll has come back (`Poll`, `Receive`, `PollFails`), aligns at
its first answer after a reconnect, keeps its cursor in localStorage for
all tabs, and reloads. `Restart` begins the numbering anew.

**Inbox** (`urc.rs`, `smsclean.rs`, `sms_center.js`). The storage of the modem,
the queue of lines, the dispatcher that reads and announces each new message
and starts cleaners when the storage is full, cleaners that run beside each
other, and the pages, which list and delete too. A slot is used again at once,
which is what makes slot numbers in queues and lists a matter of thought.

**CallWatch** and **LongSms** (`urc.rs`). RING, +CLIP and the end of a call
through a queue that drops; the table of parts with expiry and eviction.

**SchedStore** (`schedconfig.rs`, `rpcserver.rs`). AT+SCHED= writes key by key
into the staging area of UCI and commits; a process may fail, be killed though
its work is done, or die with the service; then the schedule takes the config.

**Notifier** (`notify.rs`, `main.rs`). The queue, the list, the window and the
batches, which are tasks of their own with tries and time-outs, and the stop.

### The pages

**PageClient** (`rpc.js`) is what every page stands on: `sendCommand` with its one
queue, batches, retries of reads, the pause after "busy", answers that come after
their time-out, the cache and the warm-up that goes past the queue. The modules
below use what it gives them: commands of a page go out one after another, and
each call comes back, with an answer or a failure; `sendCommand` never throws.

| Module | Code | What happens in it |
|---|---|---|
| EuiccSession | `euicc.js` | a session with the card over either transport: open, work, close, with refusals, lost answers, resets and a closed page |
| ProfileDownload | `euicc.js`, `esim.js` | ten steps between card and server, blocks of the package, late answers, cancel, receipts |
| EsimPage | `esim.js` | switch of a profile and the polls that see it take effect |
| AddWizard | `esim.js`, `euicc.js` | camera, pictures, pasted and typed codes over wizards that open and close |
| UpgradePage | `upgrade.js` | the flow, its polling chain, AT^FWUP and the verdict |
| LockPage | `network_settings.js` | brackets of AT+CFUN=0 and 1 around locks, the detached `restoreRadio`, the lock editor under a refresh |
| SchedulePanel | `schedule_panel.js`, `parse.js` | two ways to save and the load, over one form |
| ModemPage | `modem_settings.js` | SIM slot, switches, VoNR, PIN and VoWiFi in one queue |
| SysCfg | `modem_settings.js`, `parse.js` | AT^SYSCFGEX, read back and compared |
| Staged | `mt5700.js` with `dial.js`, `modem_settings.js` | changes that wait, the batch, edits during it |
| DialPage | `dial.js`, `atclient.rs`, `config.rs` | page, modem and service, which all set the dialling |
| SmsPage | `sms_center.js` | list, parts, pushes, reading marks, badges, deletion by slot |
| SmsSend | `sms_center.js` | sends in both modes and the settings they change, of two pages |
| SmsText | `smsEncode.js`, `parse.js` | septets, header and fill bits, parts, and the decoder against the encoder |
| SmsSettings | `sms_settings.js` | IMS, SMS, centre, store, "clear all" |
| StatusPage | `network_status.js` | three chains of reads at two rates, the sentence drawn from them |
| SpeedMeter | `network_status.js` | a rate from counters that start again |
| Diagnosis | `network_status.js` | commands, one call to the router, a verdict each |
| ServicePage | `service.js`, `rpc.js` | stop, restart, save, and a state put together from three readings |
| LogsPage | `logs.js` | three views of three sources |
| Terminal | `terminal.js` | entries, history, confirmation |
| PageShell | `mt5700.js`, `rpc.js` | one sweep a second takes away what pages leave |
| SimWatch | `mt5700.js` | the status card that restarts a service that is silent |

**MC_Pages** puts the pages, and the four small machines of the service
(CallWatch, LongSms, SchedStore, Notifier), into one specification for TLC.
LuCI shows one page at a time, so a behaviour is that of one machine, chosen at
the start, and the machines take turns in the same registers `r1, r2, ...`:
`INSTANCE ... WITH` maps each one's variables to them. The instances and the proofs
about them stand in three modules, each of which extends the one before:
**MessageProofs** (what has to do with messages, calls and notices), **PageProofs**
(the larger machines) and MC_Pages itself (the others). Its invariants are
conjunctions by theme (what a page takes it gives back; a success is real; the
page shows the truth; nothing is lost; nothing is done unasked), in which each
conjunct is the property of one module, explained at its definition there.

Data are abstracted to what the properties tell apart: a command is a number,
a line its kind and the command it answers, a lock a name, an event its number
and size, a message its age. Durations are left out except in Scheduler and
Notifier: a timer may fire at any moment after it was armed, which covers every duration.

The constants carry named assumptions (`SendersAssumption`, `LimitAssumption`,
`BusAssumption`, ...), which TLC evaluates in every run and the proofs use.

## 3. Runs and bounds

| Run | Checks | Bounds |
|---|---|---|
| `channel_safe` | `ChannelInv`, `Aligned`, `OkHasFinal`, `LongCountMatches` | two senders, two calls, one connection, two unsolicited lines, data lines or interrupts in all, answers of two lines, URC queue of one |
| `channel_live` | `NoLostWakeup`, `ConnectedImpliesConn`, `EveryCallReturns`, `Reconnects`, `ImplementsCalls` | two senders, two calls, two connections, no noise |
| `channel_late_answer` | `NoForeignAnswer` is violated | as above, one connection |
| `sched` | `TypeOK`, `LockWaitsForCooldown`, `OneFailureNotice`, `AppliedLocksInForce`, `Converges`, `LockOutEnds` | two bands, five configurations, limit 2 and cooldown 3 intervals; five mixtures of trouble (`EachTrouble`) |
| `rpc_jobs` | `TypeOK`, `GatesMatchJobs`, `VerdictNotStale`, `AbortIsOfThisScan`, `DataEntryCleared`, `GatesReopen`, `RequestsEnd` | two pages, scans of one cell, unbounded jobs |
| `bus` | `NoEventPassedOver`, `CatchesUp` | two tabs, one with two polls at once; three events, one larger than a frame; ring of two; one restart, reload or failure |
| `bus_heals` | `CursorHeals` is violated | as `bus` |
| `inbox` | `InboxTypeOK`, `StoredIsAnnounced`, `RoomIsMade` | three slots, four messages, two cleaners, queue of two, one failing command, one message deleted by a page |
| `inbox_room` | `RoomAlways` is violated | as `inbox` |
| `page_client` | `CacheBounded`, `StaleOnlyByWarm`, `WriteOnce`, `Answered` | a state read, a plain read and a write; cache of one, two tries but one for the plain read (`Once`), three requests, one warm-up, one trouble |
| `pages` | `PagesTypeOK`, `RestoresWhatItChanged`, `SuccessIsReal`, `ShowsTheTruth`, `NothingLost`, `NothingUnasked`, `VerdictsAsRead`, `StepsKeep` | `Size <- Sizes` (sets of values), `Bound <- Wide` (how often things happen) |
| `pages_live` | `PagesSettle` | `Bound <- Narrow`, the pages that begin something which takes several steps |

Why these bounds are enough for the cases that matter:

- *AtChannel.* A misplaced answer, a lost wake-up and a leftover in the slot each
  need two calls: one that gives up and one that follows. Two connections are
  needed only for what outlives a connection, which `channel_live` checks. The limit
  of two lines lets an answer reach `MAX_RESPONSE_LINES`, and a URC queue of one
  overflows.
- *Scheduler.* One failure in the middle of a switch and one to follow it, with
  the radio off or on, cover what a switch can leave behind; a limit of 2 below a
  cooldown of 3 is the order of the defaults (180 s, 300 s), so recoveries happen
  inside a cooldown. The bounds on trouble are a set: failures with a change of
  period, of configuration and a restart; failures with a period that ends and
  comes back; a failure with two changes of configuration and one of period, the
  airplane option among them; an outage with a change; an outage with scans. A
  behaviour is under one of them. Both exceptions of `Converges` occur: without
  either of them TLC finds a counterexample.
- *RpcJobs.* Nothing is counted, so jobs, aborts and polls repeat for ever; the
  state space is finite as it is.
- *EventBus.* Three events against a ring of two: one is pushed out; a frame
  is cut after the second; the third does not fit any frame. Two polls at once are
  what overtaking takes.
- *Inbox.* Four messages for three slots: at least one slot is used twice, while
  its number waits in the queue and in the lists of two cleaners.
- *PageClient.* A read, the write that makes it stale and the warm-up that brings
  it back; a cache of one evicts at the second value.
- *Pages.* Two clicks are what an overlap takes and one or two failures what
  a recovery takes; a second failure or flow is there where a
  property is about what the first one leaves behind (`fails`, `flows`, `lost`). A
  save of the system configuration may begin while others are under way, so there are
  three saves and two picks; a download has two blocks and two receipts, since one that fails must not hide the
  other; texts are as long as it takes to cut an extension character and a surrogate
  pair at the border of a part, over a capacity of ten octets; logs and lists are one
  longer than their limit. Time-outs of SpeedMeter, SimWatch and Notifier are small
  numbers in the same order as those of the code: three tries fit into a window of
  Notifier, the threshold of SimWatch is below its pause.

The properties are stated, each with the behaviour of the code it is about, at
the end of each module. Every property of a run has a mutant in `PROJECT.json`, a
plausible slip in the code that makes TLC find it violated; the definitions
marked `Mutant:` in the page modules that are not listed there do the same for
single conjuncts of the themes.

## 4. Fairness and deadlock

Fairness is given to tasks the runtime schedules, to timers that are armed and to
calls that have a time-out, never to the modem, the network or the user.

- *AtChannel:* weak fairness of the connection loop, of the read loop, of the
  dispatcher and of each sender that is under way (`Proceed`: it waits for a timer or
  a lock of tokio's, which are handed over in order). The modem may stay silent for ever.
- *Scheduler:* weak fairness of its task; the link is reconnected (AtChannel's
  `Reconnects`) and a running scan ends (RpcJobs' `GatesReopen`). Coverage need not
  come back.
- *RpcJobs:* the jobs end because `send_command` returns (AtChannel's
  `EveryCallReturns`). The scan lock is asked for again and again by others, so
  whoever waits for it has strong fairness: tokio's mutex is a queue.
- *EventBus:* the pages' timer polls, answers and errors come back within the
  time-out of rpc.js; `Restart`, `Reload` and lost polls happen or not.
- *Inbox:* the dispatcher and the cleaners run; `Refuse` is fair, the network
  keeps sending, since the promise is about a device that goes on being used.
- *PageClient:* calls come back, by the time-out of `callRpcd` at the latest, and the
  timers of the queue fire.
- *Pages:* weak fairness of `Moves`: the commands of a page come back (PageClient's
  `Answered`) and what waits for them goes on. Clicks, edits, restarts and changes of
  the modem are not fair. Beside it weak fairness of what runs on a timer of its own
  (`Ticks`: the polls of the upgrade, the slow round, the status card; `Others`,
  `Slow`, `Device`: the chains of the status page and the modem during an upgrade, which
  does not stay for ever in a state it leaves by itself). Strong fairness is
  assumed once, of `DownloadEnds`: a firmware download that is suspended and taken
  up again comes through in the end; without it an upgrade may poll for ever, as the
  page says to the user.

Deadlock is checked except in AtChannel's runs, where calls are bounded and the
service may be shut down, and in the runs of the pages, where clicks are bounded and a page
may be left: the system then stops, as it should.

## 5. What is proved

The theorems hold for every value of the constants that satisfies the
assumptions: any number of senders, pages, cleaners, slots, events, requests,
clicks, failures of each kind, and any limit.

- **AtChannelProofs.** `ChannelInvariant`, `TypeCorrect`, `NoWakeupLost`,
  `StaleOnlyIfContended`. `NoLostWakeup` is not inductive: that a waiting command
  is in the slot rests on nobody else installing one, which rests on the command
  lock, and a teardown may already come when the command has been installed and not
  yet waited for. `ChannelInv` adds just that: `LockHeld` (the lock is held by
  exactly the call past it), `CallsDistinct`, and `ArmedInSlot` (in the slot or
  notified from the moment it is installed). The proof shows for one call what each
  step keeps (`ReturnKeeps`, `EndOfCall`, `CallForward`) and that the loops and the
  modem disturb none of it (`OtherSteps`). `ChannelImplementsCalls` is the
  refinement: the initial states map to those of SerialCalls (`InitImplements`), each
  step of a sender to a step of its caller or a stutter (`StepImplements`), and
  steps of loops and modem to stutters; `CallsTakeTurns` and `CallsEndOnce` are
  what SerialCalls promises, proved of the channel. `FlagMeansConnection` (the flag
  is up only between the moment the connection is there and the one it is taken down)
  and `ScansAreCounted` (the count is the number of scans past the counter, whichever
  way they leave) have invariants of their own. `AnswersInvariant` says that only the
  call whose command is in the slot is notified, and only with a complete answer or
  an empty slot; `AnswersAreComplete` follows (a call is marked answered only when the
  terminator is in its lines, which the limit never drops). `AnswersAreAligned` is the
  theorem about the whole path: as long as nobody has given up, at most one command is
  owed by the modem, its lines on the wire come in order and for the call that holds
  the lock, and what is in the slot's lines or already handed over is of that
  command (`WireInv`: `WireAwaited`, `OneAnswer`, `SlotSettled`). A single time-out
  breaks this for good, hence the finding in section 6.
- **SchedulerProofs.** `SchedulerTypes` needs `LimitAssumption` (the recovery
  resets the timer at the limit). `LocksWait`: the cooldown is set only by the
  recovery, runs down only in sleep, and `Decide` sends only when it is over.
  `FailureAnnouncedOnce`: `apply_failed` is set when the notice is sent.
  `AppliedIsTrue`: a switch that is under way has sent its LTE lock before its NR
  lock, so the invariant says at each place which half is in the modem.
- **RpcJobsProofs.** `JobsInvariant` is inductive: `LockInv` (who holds the scan
  lock stands at a step that holds it) and `GateInv` (the stages of the jobs agree
  with their flags); `GatesFollowJobs`, `ResultsAreFresh`, `AbortsHitTheirScan` and
  `DataEntryEnds` follow from it.
- **EventProofs, of EventBus.** `NoEventIsPassedOver`. That a cursor passes no event over
  needs, for every answer that is still on its way, that it holds all events from the
  number it was asked for up to the one it names, and that the store all tabs share never
  names a number that was not given yet: `BusInvariant` states that for cursors,
  answers and the store at once, as long as the service has not been restarted.
- **EventProofs, of Inbox.** `InboxAnnounces`. `StoredIsAnnounced` is not inductive since
  nothing in it says what the dispatcher holds or that the queue holds slots;
  `QueueTypes` does. `EmittedNames` and `TakenNames` say what a queue names
  after a line was put in or taken out. `InboxTypes` is the type invariant, that of
  storage, lines, cleaners and counts by turns (`StorageStep`, `LineStep`, ...).
- **PageClientProofs.** `WritesRunOnce`: a write is executed once however often its
  answer is lost, because a request that has been sent is sent again only if it is a
  read; the invariant says that what is sent stands at the head of the queue, that
  what has not been sent was not executed, and that a write has one attempt.
  `CacheStaysBounded` and `OnlyWarmIsStale` are about the cache, which is filled by a
  fold over what a batch brought. `ReadInv` relates the store, the order of its
  entries and the number of writes that are acknowledged (`Fits`), and bounds what a
  call under way may bring by the writes so far (`Timely`). The folds are taken apart by
  lemmas of the module: `LeastNumber` from the library's theorem on subsets that are
  finite, then `SetInduction`, `RangeInduction` and `Recursion`, which need no operator
  as a parameter (a property of numbers is the set of those that have it).
- **MessageProofs, PageProofs and MC_Pages.** One page is in view in a behaviour, so its
  invariant need only be kept by its own steps: for each machine M, the lemmas MBegins, MKept and
  MHolds say that the inductive invariant holds at the start, is kept, and
  implies the properties; MC_Pages puts them together. `PagesInvariant`
  is the conjunction of the inductive invariants of the machines that need one.
  `PagesRestore`, `PagesTellSuccess`, `PagesShowTheTruth` and `PagesDoNothingUnasked`
  prove `RestoresWhatItChanged`, `SuccessIsReal`, `ShowsTheTruth` and `NothingUnasked`,
  `PagesJudge` and `PagesLeaveAlone` the action properties `VerdictsAsRead` and
  `StepsKeep`, of every page they name; `PagesLoseNothing` proves `NothingLost`.
  `SessionInvariant`, `NoChannelIsLeft` and
  `NoteIsTrue` state the case of the card session by itself.
  The properties are about the end of a chain of commands, the invariants about its
  middle:
  - EuiccSession: what is open is the channel of the session under way, or was left
    by a lost close, a reset or a closed page, and is then noted (`ChannelKnown`);
  - LockPage: while the radio is off, a bracket will turn it on, a restore is at
    work, or the user was told (`SomebodyRestores`); it counts the tries that are left;
  - ModemPage: what a slot change has turned off waits in the queue to be turned on
    (`HotComes`, `RadioComes`), and the last command of flight mode that waits asks for
    what the switch shows (`LastIsShown`). That the page shows the truth once all is
    answered needs the same of each control (`TruthInv`): behind a command that changes what the
    modem has waits the read that shows it, or the control has been counted as stale. The
    attempt found an error of the model: its history variable `stale` was cleared by one
    answer although a second change was under way, which TLC confirms with four clicks;
    it is now cleared only by a read that nothing crosses;
  - SmsSend: which parts are sent is the number of the part under way less one
    (`PartsSent`), one chain for a page, and while the character set is changed some chain
    has the command that puts it back before it (`CharsetComesBack`);
  - SchedStore: what a request has staged so far is its own (`StagedSoFar`), if no
    other is beside it and no shell meddles;
  - Staged: an item that is kept waits in the batch, has failed or was changed
    (`TriedOrWaits`), and holds what the user wants (`KeptIsWanted`);
  - DialPage: a command for the switch or the APN carries the mode that the page knew
    when it was made;
  - SmsSettings: the stores that a clearing has come past are empty (`PassedIsEmpty`), and
    what a series would put back as the service centre is what the modem had when it
    began (`CenterInv`);
  - Diagnosis: the address a run compares is of this run, and no verdict of an earlier
    one stands while it is under way (`ChainInv`); a verdict stays beside the facts it was
    drawn from until both are cleared together (`FactsInv`);
  - LogsPage: a source this refresh has come to and has not read is marked as such
    (`SourcesInv`), so a list that looks empty was read or the page says it was not. Once a
    refresh has come to the ring, the view holds just what it was given of its two sources,
    in the order of time (`ViewInv`): that merging keeps every line is an induction over the
    picked places (`PickExists`, `PickTells`), that folding hides none is one from the end of
    the list (`LogsFolds`);
  - SpeedMeter: a sample that is kept is of the present period of the interface, because it is
    dropped when the page or the interface changes (`MeterInv`);
  - SchedulePanel: the field of the interval shows what the draft has, at every moment
    (`PanelInv`), so what is saved is what was shown; lists and rows are made of each
    other and of equal length (`RowsInv`), so a lock by channel keeps its pairs;
  - SmsPage: the page has read up to where the user has, and a message of one part is in
    one slot wherever it stands, in the store, a push, a list that was read or the page
    (`OneSlot`): by the slot the page knows a message again that comes by two ways;
    a message that was handed over by all of its parts stands in the list and in every
    list on its way, or a slot it came in now has another (`StaysInv`);
  - CallWatch: the lines in the queue are in the order of the calls (`LinesInOrder`), what
    is said of the call the dispatcher knows has been announced (`Announced`), and as
    long as the queue dropped nothing each call has its lines (`NoneDropped`);
  - LongSms: the entries of the table are of one message each, and every part in them
    is one that arrived (`LongInv`); the parts of a message that have come wait in its
    entry, and no entry that has all of them stays (`WaitInv`);
  - Notifier: a notice goes from the queue to the list, to the batch and on, and none
    overtakes another (`OrderInv`); of the batch under way all notices have arrived or
    none, and its tries keep up with the window (`BatchInv`), which is where the numbers of
    `notify.rs` enter: three tries of at most 12 seconds end before the next 60 do
    (`NoticeBounds`);
  - SmsText: what has been sent is the parts of the text that stands there (`TextInv`), so
    the count the page tells is the number of parts if both cut the text alike
    (`TextTells`). A cut must go forward, which is why a part has
    to have room for its header and two units (`TextBounds`: 10 octets; the network has 140).
    That the decoder undoes the encoder is proved layer by layer: a septet or an octet is
    the sum of its bits (`Number` reads what `BitsOf` wrote: `BitOf`, `OctetsBack`), taking
    the octets apart gives the bits that were packed (`Unpacked`, `Packed`), the fill bits
    put the text behind the header on a septet (`FilledIs`), septets give the characters
    again (`TextBack`, by induction from the end), and pieces of a text that were cut
    (`GsmCut`, `UcsCut`) join to the text (`FlatJoins`). Recursive functions over the
    characters are taken apart by `Recursion` and `JumpsLead`. `AllCarried` says it of each part;
    that the parts which arrived stand in their order is the octet of the header, hence the
    limit of 255 parts in `ArrivesAsTyped`;
  - UpgradePage: as long as every AT^FWUP was answered, what was burned was sent for and
    the flow is past the step that sends it; commands wait
    only while the flow polls or after its button is back;
  - SysCfg: each save that waits asks for settings the modem allows, since all of them were
    taken from what the selections said when it began (`SysInv`);
  - Terminal, LogsPage, ServicePage, ProfileDownload, AddWizard, PageShell,
    StatusPage: the places of the chains and what each has in hand. EsimPage needs none:
    the step that tells the verdict has the reading before it.

What is not proved and stays with TLC:

- Everything under fairness (`EveryCallReturns`, `Reconnects`, `Converges`,
  `LockOutEnds`, `GatesReopen`, `RequestsEnd`, `CatchesUp`, `RoomIsMade`, `Answered`,
  `PagesSettle`): liveness and `ENABLED` are out of the reach of TLAPS.
- `PagesTypeOK`. The types that the proofs use are conjuncts of the inductive invariants and
  proved with them; the rest is checked by `pages`.
- The properties of section 6 that the code breaks.

No module uses `RECURSIVE`.

## 6. Where code and comments disagree

Three runs end in a violation of what a comment says. Each is a
behaviour of the code, described with the quoted line under "findings" in
`PROJECT.json`:

- `NoForeignAnswer`: after a time-out a late answer is not merely broadcast; it
  is taken for the answer of the next command. The eSIM code knows and uses it
  (`recoverAfterTimeout` in `euicc.js` sends plain `AT` to collect late answers).
- `CursorHeals`: after a restart the service hands a page its own too large
  cursor back, and the page drops events until the numbers have caught up.
- `RoomAlways`: when a cleaner gives up, the flag stays up and no cleaner is
  started again until the next `+CMTI`, which a full storage prevents.

The statements below are written at the end of their modules and have no run of
their own. Each says what a comment, a log, a test or the page itself tells, and
TLC finds it violated when it is put into a configuration (`DeletesThePicked` and
`TickedIsAsked` need one or two clicks more than the bounds of `pages` allow).

In the service:

| Statement | What the code does instead |
|---|---|
| AtChannel `PendingHasSender`, `InterruptHitsScan` | a dropped command may stay in the slot; the payload of an interrupt may reach a command that is no scan |
| Scheduler `FailureRetried` | a switch that failed is not retried when the period returns to the one before, because `applied` and `last_applied` kept their values (`schedule.rs:234`): `Forgotten` in `Converges` |
| Scheduler `RadioComesBack` | a failed `AT+CFUN=1` is repaired only by a later switch with the airplane option on (`schedule.rs:411`): `Grounded` in `Converges` |
| Scheduler `NothingSentInCooldown`, `NoLockMeansUnlocked`, `NewConfigNotCooled`, `MissingCommandFails` | the recovery ignores the cooldown; in a period without a lock half of a failed lock stays; a new configuration may have to wait out a cooldown set after it; one missing command of two counts as success |
| RpcJobs `EscFindsChannelIdle`, `DoneListsEveryCell` | the ESC may fall into another command; a cell that comes in while a request holds the scan lock is lost |
| Inbox `OldestFirst` | a list of slots that has gone stale deletes a newer message |
| Notifier `StopKeepsCollected` | the five seconds of `main.rs` end before the ten of `flush_and_wait`, and the batch of a window that has just ended is not waited for |

Beyond single statements: a withheld number (`+CLIP: ""`) within 30 seconds of the
start or of the last end is not announced, nor its end; a call that rings longer than 30
seconds is announced again (CallWatch). The eviction of a full table takes the
oldest entry, also that of the message the new part belongs to (LongSms). A commit
that is killed by its time-out may be done although it is reported as failed, so the
file and the running schedule differ; two AT+SCHED= beside each other, or a commit in a shell,
may mix (SchedStore leaves those cases out of its promises, by `beside` and `meddled`).

On the pages:

| Statement | What the code does instead |
|---|---|
| PageClient `TimeOutIsBusy` | a time-out is said to count as busy, so that a command is not sent again (comment at `rpc.js:965`); a read is sent again after one |
| ProfileDownload `CancelledNotWritten` | a cancel is taken where the code next reports progress; one that comes in the last block is taken after the profile is on the card |
| EsimPage `ConvergedTookEffect` | after a disable the polls wait for the disabled profile to be live, so they end well only if the modem has not followed the card |
| AddWizard `CameraGoesOff`, `LatePictureIgnored`, `PasteIsHeard`, `CcBelongs`, `TickedIsAsked` | a camera that is granted late runs on; a late picture replaces what was typed into other inputs; a frame decoded after its wizard has gone takes the paste handler of the one in view; the confirmation code of an earlier code is kept when the next one needs none; without an OID the tick "confirmation code" is read as an OID |
| Staged `LastOneApplied` | a second change of a key made while a batch is being sent is removed with the first, and never sent |
| SysCfg `UpdatedIsWritten` | what was read back is painted before it is compared, and painting writes the selections into it, so "written" can be told of a value that was not taken over (`modem_settings.js:1285`, comment at 1277) |
| DialPage `WantedMode`, `ConfigFollows` | the service clamps the mode to 1..2 (`atclient.rs:505`, `config.rs:346`) although the page offers 0; after a commit that failed LuCI's copy has the value and it is never written |
| SmsPage `NewIsUnread`, `DeletesThePicked` | a message that carries an older time than the last one read is not counted; a deletion of slots that were filled anew hits the new message |
| SmsSettings `ClearedAll` | "all cleared" is told when one store could not be selected |
| StatusPage `FreshMeansRead`, `SilentAtFirst` | the age is set back by a round in which every command failed; a verdict is drawn before anything was read |
| Diagnosis `UnknownIsNotBad` | what cannot be read counts as wrong (comment near `network_status.js:733`) |
| ServicePage `CardFollowsStop` | `refreshStatus` uses `statBinary`, which is declared in `load` (`service.js:617`, 128): it throws, and the card goes on showing a service that runs |
| SchedulePanel `SwitchIsTrue` | a commit that fails leaves the value staged, and the switch shows it |
| Terminal `ConsoleShowsEntries`, `OneAtATime` | an entry has two nodes and the limit takes away one; a confirmed command goes out beside another |
| PageShell `ShellStays` | when views are swapped, the sweep that finds the old page gone takes down the shell that holds the new one; a page that comes and goes between two sweeps leaves its watchers |
| SimWatch `NoSimOffline`, `RestartsApart` | a read under way shows a SIM after the service has gone; the counts are the card's and begin anew with each page (comment near `mt5700.js:634`) |

Properties that the runs check and the theorems prove leave out the following cases, by
a variable or an operator of the module; in each the code does break the plain statement:

| Left out by | Property | What the code does |
|---|---|---|
| Scheduler `Forgotten`, `Grounded` | `Converges` | as `FailureRetried` and `RadioComesBack` above: a failed switch that is undone before it is retried, a radio that stays off once the airplane option is off |
| ModemPage `halted` | `RestoresWhatItChanged` | a slot change stops after any step that fails (`modem_settings.js:305-330`), with the hot-plug off if that is behind AT^HVSST=1,0 or the radio off if it is behind AT+CFUN=0; nothing turns them on again |
| LockPage `deaf` | `RestoresWhatItChanged` | an AT+CFUN=0 that was carried out without an answer is taken for one that was not; no restore is started |
| SmsSend `stuck` | `RestoresWhatItChanged` | the command that puts the character set back is sent once; when it fails the modem stays in UCS2 |
| SmsSend `mixed` | `SuccessIsReal` | two pages share the record of the job, whose `seq` no page compares: one may tell the verdict of the other's message |
| UpgradePage `unanswered` | `NothingUnasked` | AT^FWUP is said to be sent only once (comment at `upgrade.js:97`); after a lost answer `fwupSent` is reset and it is sent again, although the first may have been carried out |
| UpgradePage `Stranded` | `PagesSettle` | the third refusal stops the timer, but a poll that waits behind it still comes back (`upgrade.js:299-302`); if it reads 40, a fourth AT^FWUP goes out, and if that is accepted, or the poll reads 50, the page stays at step 3 without polls and without its button |
| Staged `overtaken` | `NothingLost` | a change of a key made while its batch is sent is dropped with the one that was sent (`LastOneApplied`) |
| SmsSettings, EsimPage | `VerdictsAsRead` | "all cleared" without a store that could not be selected (`ClearedAll`); a disable (`ConvergedTookEffect`) |
| SchedStore `beside`, `meddled` | `NothingLost`, `SuccessIsReal` | two AT+SCHED= beside each other or a commit in a shell |

More that a reader of the code should know, in the modules' comments: a stale base version may
give an upgrade a false success (excluded in `SuccessIsNewFirmware` by comparing with the version
the page knew); a lock click while a bracket is open is not held off by `busy`
(LockPage); a failed send of a long text leaves the modem in PDU mode (SmsSend);
an edit made during a save loses its mark (ServicePage); a refresh of the logs
during one under way is ignored (LogsPage).

## 7. What is not modelled

Parsing and formatting (AT syntax, TLV and ASN.1 of the eUICC, addresses and dates
of PDUs, answers, UCI text, redaction), tables, charts and styles, the log ring and the
file of notices, what `init_modem` sends besides the dialling, termios and port
detection: they are functions or I/O, and no interleaving changes them. `pdu.rs`
decodes the format of SmsText a second time, for notices.
The cache files of the plug-in are off by default; its other requests keep no state
(diagnosis, exit address, ES9+ forwarding) or keep files that a single-threaded rpcd
reads and writes (TTL rule, sent messages).

The shell scripts. The renewal at a hotplug event has two faults that are plain from its
lines and need no model: the lock directory is there before its time stamp, so a
second event may take it for abandoned; and `rmdir` fails on a directory that holds
the stamp, so each event locks out the next ones for 120 seconds and not for 60.

Left out of modelled parts: two calls at once and signal reports in
the dispatcher; the authentication key and the accept loop of the RPC server; the
`seq` of the SMS job, which no page reads; the `switch_count` of the scheduler; its clock
arithmetic; drafts, search and drawing of the message page; the adapter and device forms
beyond Staged; neighbour lists, DNS and TTL fields; chip details of the eSIM page; two tabs whose
APDU sequences mix.
Vendored code (`jsqr.js`), tests, tools and packaging are not part of the running
system.

## 8. Plan

Done, in this order: AtChannel, Scheduler, RpcJobs, EventBus, Inbox with their proofs;
SerialCalls and the refinement; PageClient; the pages; the small machines of the service;
the proofs of PageClient's cache, of `Aligned`, and of seven of the eight properties of the
pages, the way of a text through septets and parts among them.

What could follow:

1. A proof of what is left, `PagesTypeOK`.
2. The night period of the scheduler as a function of the clock (`is_night` across
   midnight), and `pdu.rs` against `smsEncode.js`, as operators over bounded inputs.
3. LockPage composed with Scheduler: two that set the same locks and the same radio.
4. ProfileDownload of two tabs over one card.
