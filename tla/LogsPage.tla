------------------------------- MODULE LogsPage -------------------------------
(***************************************************************************)
(* The log page (logs.js): three views of three sources, read one after    *)
(* the other: the log ring of the service, whose lines are split between   *)
(* the views "dial" and "iface"; the system log, whose own lines join      *)
(* "iface"; the file of notifications. A view is redrawn when it is chosen *)
(* or filtered and at the end of a refresh: Shown is what a redraw shows,  *)
(* at whatever moment it comes.                                            *)
(***************************************************************************)
EXTENDS Integers, Sequences, Functions

CONSTANTS
    Logged,         \* the lines that occur
    MaxLog,         \* bound: lines that are logged
    Keep,           \* lines that are drawn: 400
    Clicks,         \* bound: things the user does
    MaxFail         \* bound: reads and writes that fail

Tabs == {"dial", "iface", "notify"}
Levels == {"DBG", "INF"}        \* LEVEL_ORDER, below and at the default

\* Lines, by where they go: the ring by DIAL_RE, with one that is below the
\* default level, the system log, the file. Lines of a kind say the same.
Lines == {"dial", "net", "net_debug", "sys", "note"}
Ring == {"dial", "net", "net_debug"}
Net == {"net", "net_debug"}

VARIABLES           \* state of the page
    tab, level,
    dial, iface, notify,    \* places in the log of what was read
    backendLogs,    \* "unknown", "yes", "no"
    syslogOk,
    notifyErr,
    primed,         \* one refresh has ended
    loading,
    pending,        \* the sources that this refresh has not come to
    manual,         \* this refresh was asked for
    ok,             \* okCount
    told            \* last toast of a refresh

VARIABLES           \* the router, history and bounds
    log,            \* everything logged, oldest first
    gone,           \* lines that the ring or the file has lost
    got,            \* history: sources this refresh has read
    seen,           \* history: lines it was given
    clicks, failures

lists == <<dial, iface, notify, backendLogs, syslogOk, notifyErr>>
chosen == <<tab, level>>
round == <<loading, pending, manual, ok, got, seen>>
router == <<log, gone>>
vars == <<chosen, lists, primed, round, told, router, clicks, failures>>

Places == 1..Len(log)

\* The elements of s at the places in I, one after the other.
Picked(s, I) ==
    LET picks[n \in 0..Len(s)] ==
            IF n = 0 THEN <<>> ELSE IF n \in I THEN Append(picks[n - 1], s[n]) ELSE picks[n - 1]
    IN picks[Len(s)]

\* Lines in the order in which they were logged.
InOrder(S) == Picked([i \in Places |-> i], S)

\* Lines of some sources.
Held(sources) == InOrder({i \in Places : log[i] \in sources /\ i \notin gone})

LogsInit ==
    /\ tab = "iface" /\ level = "INF"
    /\ dial = <<>> /\ iface = <<>> /\ notify = <<>>
    /\ backendLogs = "unknown" /\ syslogOk = TRUE /\ notifyErr = FALSE /\ primed = FALSE
    /\ loading = TRUE /\ pending = 1..3 /\ manual = FALSE /\ ok = 0 /\ told = "nothing"
    /\ log = <<>> /\ gone = {} /\ got = {} /\ seen = {} /\ clicks = Clicks /\ failures = MaxFail

Click == clicks > 0 /\ clicks' = clicks - 1
Fail == failures > 0 /\ failures' = failures - 1

\* The segmented control and the level: each redraws.
Choose(t, l) ==
    /\ Click /\ <<t, l>> # <<tab, level>> /\ tab' = t /\ level' = l
    /\ UNCHANGED <<lists, primed, round, told, router, failures>>

\* refresh, by the button or by the timer: nothing while one is under way.
Refresh(m) ==
    /\ Click
    /\ IF loading THEN UNCHANGED round
       ELSE loading' = TRUE /\ pending' = 1..3 /\ manual' = m /\ ok' = 0 /\ got' = {} /\ seen' = {}
    /\ UNCHANGED <<chosen, lists, primed, told, router, failures>>

\* Mutant: the sources are read as they come, each for itself.
DueAny(n) == n \in pending

\* steps.reduce: one after the other.
Due(n) == n \in pending /\ \A m \in pending : n <= m

\* rpcLogs is here: split by DIAL_RE, and "iface" starts anew.
BackendRead ==
    /\ Due(1) /\ pending' = pending \ {1}
    /\ dial' = Held({"dial"}) /\ iface' = Held(Net)
    /\ backendLogs' = "yes" /\ ok' = ok + 1 /\ got' = got \union {1}
    /\ seen' = seen \union Range(Held(Ring))
    /\ UNCHANGED <<chosen, notify, syslogOk, notifyErr, primed, loading, manual,
                   told, router, clicks, failures>>

BackendFails ==
    /\ Due(1) /\ Fail /\ pending' = pending \ {1}
    /\ dial' = <<>> /\ iface' = <<>> /\ backendLogs' = "no"
    /\ UNCHANGED <<chosen, notify, syslogOk, notifyErr, primed, loading, manual, ok,
                   told, router, got, seen, clicks>>

\* rpcSyslog: the own lines join and all are sorted by time.
SyslogRead ==
    /\ Due(2) /\ pending' = pending \ {2}
    /\ iface' = InOrder(Range(iface) \union Range(Held({"sys"})))
    /\ syslogOk' = TRUE /\ ok' = ok + 1 /\ got' = got \union {2}
    /\ seen' = seen \union Range(Held({"sys"}))
    /\ UNCHANGED <<chosen, dial, notify, backendLogs, notifyErr, primed, loading,
                   manual, told, router, clicks, failures>>

SyslogFails ==
    /\ Due(2) /\ Fail /\ pending' = pending \ {2} /\ syslogOk' = FALSE
    /\ UNCHANGED <<chosen, dial, iface, notify, backendLogs, notifyErr, primed,
                   loading, manual, ok, told, router, got, seen, clicks>>

\* readFile: an empty file and a missing one are read.
NotifyRead ==
    /\ Due(3) /\ pending' = pending \ {3}
    /\ notify' = Held({"note"}) /\ notifyErr' = FALSE /\ ok' = ok + 1 /\ got' = got \union {3}
    /\ seen' = seen \union Range(Held({"note"}))
    /\ UNCHANGED <<chosen, dial, iface, backendLogs, syslogOk, primed, loading,
                   manual, told, router, clicks, failures>>

\* Mutant: a file that cannot be read is one that is empty.
NotifyErrNone == FALSE

\* Not read is not empty.
NotifyErrAfter == TRUE

NotifyFails ==
    /\ Due(3) /\ Fail /\ pending' = pending \ {3}
    /\ notify' = <<>> /\ notifyErr' = NotifyErrAfter
    /\ UNCHANGED <<chosen, dial, iface, backendLogs, syslogOk, primed, loading,
                   manual, ok, told, router, got, seen, clicks>>

\* Mutant: an end without an exception is a success.
ToldByEnd == "success"

\* By the number of sources that were read.
ToldByCount == CASE ok = 3 -> "success" [] ok = 0 -> "error" [] OTHER -> "warning"

RefreshEnds ==
    /\ loading /\ pending = {} /\ loading' = FALSE /\ primed' = TRUE
    /\ told' = IF manual THEN ToldByCount ELSE told
    /\ UNCHANGED <<chosen, lists, pending, manual, ok, router, got, seen, clicks,
                   failures>>

\* clearNotify: the file is written anew, by one way or the other.
Clear ==
    /\ Click /\ tab = "notify"
    /\ \/ /\ gone' = gone \union {i \in Places : log[i] = "note"}
          /\ notify' = <<>>
          /\ UNCHANGED failures
       \/ Fail /\ UNCHANGED <<gone, notify>>
    /\ UNCHANGED <<chosen, dial, iface, backendLogs, syslogOk, notifyErr, primed,
                   round, told, log>>

\* The router: something is logged, the service starts anew with an empty ring.
Log(line) ==
    /\ Len(log) < MaxLog /\ log' = Append(log, line)
    /\ UNCHANGED <<chosen, lists, primed, round, told, gone, clicks, failures>>

Restarts ==
    /\ Fail /\ gone' = gone \union {i \in Places : log[i] \in Ring}
    /\ UNCHANGED <<chosen, lists, primed, round, told, log, clicks>>

LogsMoves ==
    \/ BackendRead \/ BackendFails \/ SyslogRead \/ SyslogFails
    \/ NotifyRead \/ NotifyFails \/ RefreshEnds

LogsNext ==
    \/ \E t \in Tabs, l \in Levels : Choose(t, l)
    \/ \E m \in BOOLEAN : Refresh(m)
    \/ Clear \/ Restarts \/ (\E line \in Logged : Log(line))
    \/ LogsMoves

LogsSpec == LogsInit /\ [][LogsNext]_vars /\ WF_vars(LogsMoves)

-----------------------------------------------------------------------------
(* What a redraw shows                                                     *)

\* applyFilters by the level, which the notifications do not have; the last Keep.
Filtered(seq) ==
    Picked(seq, {k \in DOMAIN seq : tab = "notify" \/ level = "DBG" \/ log[seq[k]] # "net_debug"})
Latest(seq) == SubSeq(seq, (IF Len(seq) > Keep THEN Len(seq) - Keep ELSE 0) + 1, Len(seq))

\* Mutant: lines that say the same are one, wherever they are.
FoldsAll(seq) == {k \in 1..Len(seq) : \A n \in k+1..Len(seq) : log[seq[n]] # log[seq[k]]}

\* foldRepeats: neighbours that say the same are one row, with the time of the
\* last; these are the places where a row ends.
Folds(seq) == {k \in 1..Len(seq) : k = Len(seq) \/ log[seq[k]] # log[seq[k + 1]]}

Shown ==
    LET all == CASE tab = "dial" -> dial [] tab = "iface" -> iface [] OTHER -> notify
        list == Filtered(all)
    IN CASE (tab = "dial" /\ backendLogs = "no") \/ (tab = "notify" /\ notifyErr) -> "error"
         [] OTHER -> IF all = <<>> THEN IF primed THEN "empty" ELSE "loading"
                     ELSE IF list = <<>> THEN "no_match" ELSE "rows"

\* Sentences below the list of the view "iface".
Noted == {s \in {"ring", "syslog"} : IF s = "ring" THEN backendLogs = "no" ELSE ~syslogOk}

-----------------------------------------------------------------------------
(* Properties                                                              *)

LogsTypeOK ==
    /\ tab \in Tabs /\ level \in Levels /\ pending \subseteq 1..3 /\ ok \in 0..3
    /\ \A list \in {dial, iface, notify} : Range(list) \subseteq Places
    /\ backendLogs \in {"unknown", "yes", "no"}

\* Between refreshes an empty view is one whose source was read and had nothing,
\* or it says which source is missing: what failed never looks like silence.
EmptyIsRead ==
    ~loading /\ Shown = "empty" =>
        CASE tab = "dial" -> 1 \in got
          [] tab = "notify" -> 3 \in got \/ gone # {}
          [] OTHER -> (1 \in got \/ "ring" \in Noted) /\ (2 \in got \/ "syslog" \in Noted)

\* After a refresh the view "iface" has the lines of both of its sources, in the
\* order of time: none of the two wipes out the other.
IfaceHasBoth ==
    /\ pending \intersect {1, 2} = {} => Range(iface) = {i \in seen : log[i] \in Net \union {"sys"}}
    /\ \A n \in 1..(Len(iface) - 1) : iface[n] < iface[n + 1]

\* Success is told of a refresh that has read all three sources, failure of one
\* that has read none.
ToldAsRead ==
    told' # told => /\ told' = "success" => got = {1, 2, 3}
                    /\ told' = "error" => got = {}

\* Inductive: the number counts the sources that were read, and none is read twice.
Once(n) == IF n \in got THEN 1 ELSE 0
CountInv ==
    /\ pending \subseteq 1..3 /\ got \subseteq 1..3 /\ pending \intersect got = {}
    /\ ok = Once(1) + Once(2) + Once(3)

\* And a source that this refresh has come to, but has not read, is marked as such.
SourcesInv ==
    /\ loading \/ pending = {}
    /\ 1 \notin pending \union got => backendLogs = "no"
    /\ 2 \notin pending \union got => syslogOk = FALSE
    /\ 3 \notin pending \union got => notifyErr = TRUE

LogsInv == CountInv /\ SourcesInv

\* Folding hides nothing: between two rows the lines say what the second says.
FoldHidesNothing ==
    LET seq == Latest(Filtered(iface)) IN
    \A k \in 1..Len(seq) : \E e \in Folds(seq) : e >= k /\ \A n \in k..e : log[seq[n]] = log[seq[k]]

\* What the bound is.
LogsBounds == Keep \in Nat

\* Why: once this refresh has come to the ring, the view holds what it was given of
\* its two sources, in the order of time; before, it was given nothing.
Rising(s) == \A m, n \in DOMAIN s : m < n => s[m] < s[n]
ViewInv ==
    /\ log \in Seq(Logged) /\ seen \subseteq Places
    /\ iface \in Seq(Places) /\ Rising(iface)
    /\ 1 \in pending => seen = {}
    /\ 1 \notin pending => Range(iface) = {i \in seen : log[i] \in Net \union {"sys"}}

Unsettled == loading
RefreshComesBack == Unsettled ~> ~Unsettled
=============================================================================
