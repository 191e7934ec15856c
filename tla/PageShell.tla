------------------------------ MODULE PageShell ------------------------------
(***************************************************************************)
(* What a page of the console leaves behind, and who takes it away         *)
(* (mt5700.js: page, onDetach, interval, mountShell; rpc.js:               *)
(* onConnectionStateChange). LuCI calls no hook when a view is replaced:   *)
(* one sweep a second looks for nodes that have been in the document and   *)
(* are no longer. The shell around the pages is one for all of them, and   *)
(* the node of the page is moved into it.                                  *)
(***************************************************************************)
EXTENDS Naturals, FiniteSets

CONSTANT MaxPages       \* bound: pages that are opened, in this order

Pages == 1..MaxPages
None == 0
Parts == {"page", "card"}   \* the nodes that are watched: the page, its status card

VARIABLES
    opened,         \* pages that have been built
    inView,         \* the page in LuCI's view container
    shell,          \* _shell: the page that was moved into it
    waiting,        \* shWhenAttached: pages that wait to enter the document
    watchers,       \* _detachWatchers
    wasIn,          \* ... those that have been seen in the document
    sweeping,       \* _sweeperId is set
    subs,           \* stateCallbacks of the client, by page
    timers,         \* pages whose 15 s timer is set
    cleaned         \* history: pages whose cleanups have run

vars == <<opened, inView, shell, waiting, watchers, wasIn, sweeping, subs, timers, cleaned>>

InDoc(p) == p \in {inView, shell}

Init ==
    /\ opened = 0 /\ inView = None /\ shell = None /\ waiting = {}
    /\ watchers = {} /\ wasIn = {} /\ sweeping = FALSE
    /\ subs = {} /\ timers = {} /\ cleaned = {}

\* page and renderConnectionBar: everything is set up before the node is in the
\* document.
Build ==
    /\ opened < MaxPages /\ opened' = opened + 1
    /\ watchers' = watchers \union ({opened'} \X Parts) /\ sweeping' = TRUE
    /\ subs' = subs \union {opened'} /\ timers' = timers \union {opened'}
    /\ waiting' = waiting \union {opened'}
    /\ UNCHANGED <<inView, shell, wasIn, cleaned>>

\* LuCI puts the view where the last one was, if that is still there.
Attach(p) ==
    /\ p = opened /\ p \in waiting /\ ~InDoc(p) /\ p \notin cleaned
    /\ inView' = p
    /\ UNCHANGED <<opened, shell, waiting, watchers, wasIn, sweeping, subs, timers, cleaned>>

\* The user goes to a page of LuCI that is none of these.
Leave ==
    /\ inView # None /\ inView' = None
    /\ UNCHANGED <<opened, shell, waiting, watchers, wasIn, sweeping, subs, timers, cleaned>>

\* mountShell: the shell of another page goes, and the node moves into its own.
Mount(p) ==
    /\ p \in waiting /\ InDoc(p)
    /\ waiting' = waiting \ {p}
    /\ shell' = p /\ inView' = IF inView = p THEN None ELSE inView
    /\ UNCHANGED <<opened, watchers, wasIn, sweeping, subs, timers, cleaned>>

\* After 60 frames outside the document.
GivesUp(p) ==
    /\ p \in waiting /\ ~InDoc(p) /\ waiting' = waiting \ {p}
    /\ UNCHANGED <<opened, inView, shell, watchers, wasIn, sweeping, subs, timers, cleaned>>

\* Mutant: a node that is not in the document has left it.
LeftAtOnce(w) == ~InDoc(w[1])

\* Only one that was in it can have left it.
Left(w) == ~InDoc(w[1]) /\ w \in wasIn

\* onDetach of the card: detachConnState.
Unsubscribed(gone) == subs \ {p \in Pages : <<p, "card">> \in gone}

\* sweepDetach, newest first: nodes that left are dropped and their functions
\* called; that of a page takes the shell down, whosever it is.
Sweep ==
    /\ sweeping
    /\ LET gone == {w \in watchers : Left(w)}
           pages == {p \in Pages : <<p, "page">> \in gone}
       IN /\ watchers' = watchers \ gone
          /\ wasIn' = (wasIn \ gone) \union {w \in watchers : InDoc(w[1])}
          /\ cleaned' = cleaned \union pages
          /\ subs' = Unsubscribed(gone)
          /\ shell' = IF pages = {} THEN shell ELSE None
    /\ sweeping' = (watchers' # {})
    /\ UNCHANGED <<opened, inView, waiting, timers>>

\* api.interval with a scope: it stops itself when the card is not in the
\* document.
Tick(p) ==
    /\ p \in timers /\ ~InDoc(p)
    /\ timers' = timers \ {p}
    /\ UNCHANGED <<opened, inView, shell, waiting, watchers, wasIn, sweeping, subs, cleaned>>

Timers == Sweep \/ \E p \in Pages : Tick(p) \/ Mount(p)

Next ==
    \/ Build \/ Leave \/ (\E p \in Pages : Attach(p) \/ GivesUp(p))
    \/ Timers

\* Timers of the browser and frames come.
Spec == Init /\ [][Next]_vars /\ WF_vars(Timers)

-----------------------------------------------------------------------------
(* Properties                                                              *)

ShellTypeOK ==
    /\ opened \in 0..MaxPages /\ inView \in 0..MaxPages /\ shell \in 0..MaxPages
    /\ watchers \subseteq Pages \X Parts /\ wasIn \subseteq watchers
    /\ subs \subseteq Pages /\ timers \subseteq Pages /\ waiting \subseteq Pages

\* The cleanups of a page never run while it is shown, nor before it has been:
\* a page that is built and not yet inserted is not torn down.
CleansOnlyWhatLeft ==
    \A p \in cleaned' \ cleaned : ~InDoc(p) /\ <<p, "page">> \in wasIn

\* The sweep runs exactly while there is something to watch.
SweepsWhileNeeded == sweeping = (watchers # {})

\* A page that the sweep has seen, and that is gone, keeps neither a timer nor a
\* callback.
Unsettled == \E p \in subs \union timers : <<p, "card">> \in wasIn /\ ~InDoc(p)
LetsGo == Unsettled ~> ~Unsettled

\* The shell of a page stays while nobody leaves it. (The code breaks this when
\* views are swapped: the sweep that finds the old page gone takes down the
\* shell that holds the new one.)
ShellStays == shell # None /\ shell = opened /\ shell' # shell => shell' \in Pages

\* What the bound is.
ShellBounds == MaxPages \in Nat

\* Why: whoever adds something to watch starts the sweep, and the sweep itself
\* looks whether anything is left.
ShellInv == ShellTypeOK /\ SweepsWhileNeeded
=============================================================================
