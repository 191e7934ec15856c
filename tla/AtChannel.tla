----------------------------- MODULE AtChannel -----------------------------
(***************************************************************************)
(* The AT channel of the service (rust/src/atclient.rs): one connection to *)
(* the modem, one read loop that tells answers from unsolicited lines, and *)
(* any number of tasks that send commands one at a time.                   *)
(*                                                                         *)
(*   senders    the tasks inside send_command: RPC handlers, the           *)
(*              scheduler, the URC dispatcher and init_modem               *)
(*   run        the connection loop: open, serve, tear down, reconnect     *)
(*   reader     the read loop; it holds the pending lock while it handles  *)
(*              a line                                                     *)
(*   breaker    an interrupt() of a cell scan, which bypasses cmd_mu       *)
(*   modem      external: answers the commands in the order it got them    *)
(*                                                                         *)
(* A command is a number, in the order of the calls. A line carries what   *)
(* the read loop tells apart: "data", "prompt" (the "> " of data entry,    *)
(* which has no line end) and "final" (a terminator) belong to a command,  *)
(* "urc" is an exclusive URC, "info" an unsolicited line that looks like   *)
(* an answer (^HCSQ). Command 0 is "no command". Durations are left out: a *)
(* timer may fire at any moment after it was armed.                        *)
(***************************************************************************)
EXTENDS Integers, Sequences, FiniteSets

CONSTANTS
    Senders,        \* tasks that send commands
    NoSender,       \* cmd_mu is free
    MaxSend,        \* bound: calls of send_command in a behaviour
    MaxLink,        \* bound: connections opened in a behaviour
    MaxNoise,       \* bound: unsolicited lines, data lines and interrupts, all
                    \* together, in a behaviour
    MaxLines,       \* MAX_RESPONSE_LINES
    UrcCap          \* capacity of the URC queue

ASSUME SendersAssumption == NoSender \notin Senders
ASSUME BoundsAssumption ==
    /\ MaxSend \in Nat /\ MaxLink \in Nat /\ MaxNoise \in Nat
    /\ MaxLines \in Nat \ {0} /\ UrcCap \in Nat \ {0}

Cmd    == 1..MaxSend
NoCmd  == 0
Line   == [kind : {"data", "prompt", "final", "urc", "info"},
           cmd : Cmd \cup {NoCmd}]

VARIABLES
    ctx,            \* the shutdown watch channel has flipped
    run,            \* where the connection loop is
    pass,           \* which of the two teardown calls is under way
    conn,           \* number of the connection in the conn slot, 0: None
    connected,      \* connected_flag
    epoch,          \* connections opened so far
    link,           \* the transport of connection epoch works
    cmdMu,          \* holder of the command lock
    slot,           \* command of the PendingCmd in the pending slot
    buf,            \* PendingCmd.lines
    woken,          \* commands whose done has been notified
    reading,        \* the read loop holds the pending lock
    pc,             \* per sender: where it is in send_command_inner
    cmd,            \* per sender: the command it is sending
    writer,         \* per sender: the connection whose writer it cloned
    answered,       \* per sender: woken by done and not by the timer
    longCmd,        \* the long_cmd counter
    breaker,        \* connection an interrupt will write to, 0: none under way
    urcs            \* the URC queue

VARIABLES           \* the modem and the wire
    owed,           \* commands the modem has received and not yet answered
    wire            \* lines on their way to the read loop

VARIABLES           \* history
    sent,           \* calls so far
    isLong,         \* commands sent through send_long_command (cell scans)
    outcome,        \* how each call ended: with an answer, before its command
                    \* was written, or without waiting for the answer
    resp,           \* the lines each call that ended "ok" returned
    contended,      \* commands whose PendingGuard found the lock taken
    broken,         \* commands an interrupt payload reached; 0: an idle modem
    budget          \* what is left of MaxNoise

senderVars == <<pc, cmd, writer, answered>>
linkVars   == <<run, pass, conn, connected, epoch, link>>
histVars   == <<sent, isLong, outcome, resp>>
vars == <<ctx, linkVars, cmdMu, slot, buf, woken, reading, senderVars, longCmd,
          breaker, urcs, owed, wire, histVars, contended, broken, budget>>

Armed   == {"armed", "waiting", "taking"}            \* PendingGuard is alive
Holding == {"locked", "fetched"} \cup Armed          \* cmd_mu is held

Init ==
    /\ ctx = FALSE
    /\ run = "opening" /\ pass = 1
    /\ conn = 0 /\ connected = FALSE /\ epoch = 0 /\ link = FALSE
    /\ cmdMu = NoSender /\ slot = NoCmd /\ buf = <<>> /\ woken = {}
    /\ reading = FALSE
    /\ pc = [s \in Senders |-> "idle"]
    /\ cmd = [s \in Senders |-> NoCmd]
    /\ writer = [s \in Senders |-> 0]
    /\ answered = [s \in Senders |-> FALSE]
    /\ longCmd = 0 /\ breaker = 0 /\ urcs = <<>>
    /\ owed = <<>> /\ wire = <<>>
    /\ sent = 0 /\ isLong = {}
    /\ outcome = [c \in Cmd |-> "none"]
    /\ resp = [c \in Cmd |-> <<>>]
    /\ contended = {} /\ broken = {}
    /\ budget = MaxNoise

-----------------------------------------------------------------------------
(* The connection loop                                                     *)

\* open_transport succeeds and the connection goes into the conn slot.
OpenTransport ==
    /\ run = "opening" /\ ~ctx /\ epoch < MaxLink
    /\ run' = "installed"
    /\ epoch' = epoch + 1
    /\ conn' = epoch + 1
    /\ link' = TRUE
    /\ UNCHANGED <<ctx, pass, connected, cmdMu, slot, buf, woken, reading,
                   senderVars, longCmd, breaker, urcs, owed, wire, histVars,
                   contended, broken, budget>>

\* connected_flag is raised and the read loop and init_modem are spawned.
StartServing ==
    /\ run = "installed"
    /\ run' = "serving"
    /\ pass' = 1
    /\ connected' = TRUE
    /\ UNCHANGED <<ctx, conn, epoch, link, cmdMu, slot, buf, woken, reading,
                   senderVars, longCmd, breaker, urcs, owed, wire, histVars,
                   contended, broken, budget>>

\* Mutant: empty reads are retried for ever.
ReadLoopEndsOnShutdown ==
    /\ run = "serving" /\ ~reading /\ ctx
    /\ run' = "lowering"
    /\ UNCHANGED <<ctx, pass, conn, connected, epoch, link, cmdMu, slot, buf,
                   woken, reading, senderVars, longCmd, breaker, urcs, owed,
                   wire, histVars, contended, broken, budget>>

\* The read loop ends: the transport is dead (an error, or twenty empty
\* reads) or the service is shutting down.
ReadLoopEnds ==
    /\ run = "serving" /\ ~reading
    /\ ~link \/ ctx
    /\ run' = "lowering"
    /\ UNCHANGED <<ctx, pass, conn, connected, epoch, link, cmdMu, slot, buf,
                   woken, reading, senderVars, longCmd, breaker, urcs, owed,
                   wire, histVars, contended, broken, budget>>

\* Mutant: teardown forgets connected_flag.
LowerFlagForgotten ==
    /\ run = "lowering"
    /\ run' = "closing"
    /\ UNCHANGED <<ctx, pass, conn, connected, epoch, link, cmdMu, slot, buf,
                   woken, reading, senderVars, longCmd, breaker, urcs, owed,
                   wire, histVars, contended, broken, budget>>

\* teardown, first step: connected_flag falls.
LowerFlag ==
    /\ run = "lowering"
    /\ run' = "closing"
    /\ connected' = FALSE
    /\ UNCHANGED <<ctx, pass, conn, epoch, link, cmdMu, slot, buf, woken,
                   reading, senderVars, longCmd, breaker, urcs, owed, wire,
                   histVars, contended, broken, budget>>

\* teardown, second step: the connection is dropped; what was on the wire is
\* gone, and the modem may or may not go on with the commands it has.
DropConnection ==
    /\ run = "closing"
    /\ run' = "waking"
    /\ conn' = 0
    /\ link' = FALSE
    /\ wire' = <<>>
    /\ owed' = owed \/ owed' = <<>>
    /\ UNCHANGED <<ctx, pass, connected, epoch, cmdMu, slot, buf, woken,
                   reading, senderVars, longCmd, breaker, urcs, histVars,
                   contended, broken, budget>>

\* Mutant: teardown clears the slot and wakes nobody.
WokenByNobody == woken

\* The command that teardown takes out of the slot is notified.
WokenByTeardown == IF slot = NoCmd THEN woken ELSE woken \cup {slot}

\* teardown, third step: the waiting command is taken out and woken.
WakePending ==
    /\ run = "waking"
    /\ run' = "joining"
    /\ woken' = WokenByTeardown
    /\ slot' = NoCmd
    /\ buf' = <<>>
    /\ UNCHANGED <<ctx, pass, conn, connected, epoch, link, cmdMu, reading,
                   senderVars, longCmd, breaker, urcs, owed, wire, histVars,
                   contended, broken, budget>>

\* init_modem has ended or 15 s have gone by (it then stays, detached, a
\* sender like the others): teardown runs again, then the loop starts over.
JoinInit ==
    /\ run = "joining"
    /\ IF pass = 1
       THEN run' = "lowering" /\ pass' = 2
       ELSE run' = (IF ctx THEN "stopped" ELSE "opening") /\ pass' = 1
    /\ UNCHANGED <<ctx, conn, connected, epoch, link, cmdMu, slot, buf, woken,
                   reading, senderVars, longCmd, breaker, urcs, owed, wire,
                   histVars, contended, broken, budget>>

\* The shutdown signal. A loop that is between connections just returns.
Shutdown ==
    /\ ~ctx
    /\ ctx' = TRUE
    /\ run' = IF run = "opening" THEN "stopped" ELSE run
    /\ UNCHANGED <<pass, conn, connected, epoch, link, cmdMu, slot, buf, woken,
                   reading, senderVars, longCmd, breaker, urcs, owed, wire,
                   histVars, contended, broken, budget>>

-----------------------------------------------------------------------------
(* The read loop                                                           *)

\* handle_line has a line and takes the pending lock.
ReaderLocks ==
    /\ run = "serving" /\ ~reading /\ wire # <<>>
    /\ reading' = TRUE
    /\ UNCHANGED <<ctx, linkVars, cmdMu, slot, buf, woken, senderVars, longCmd,
                   breaker, urcs, owed, wire, histVars, contended, broken,
                   budget>>

\* Mutant: no limit on the lines of an answer.
AppendedAlways(line) == IF slot # NoCmd THEN Append(buf, line) ELSE buf

\* A line joins the pending command's answer unless the answer is full; consume
\* adds a prompt by itself and does not look at the limit.
Appended(line) ==
    IF slot # NoCmd /\ (Len(buf) < MaxLines \/ line.kind = "prompt")
    THEN Append(buf, line) ELSE buf

\* Every line of an idle channel is emitted, a prompt is not; under a pending
\* command only an exclusive URC is. A full queue drops the line.
Emits(line) == line.kind = "urc" \/ (slot = NoCmd /\ line.kind # "prompt")

Emitted(line) ==
    IF Emits(line) /\ Len(urcs) < UrcCap THEN Append(urcs, line) ELSE urcs

\* handle_line, and what consume does with a prompt: append, notify on a
\* terminator, release the lock, emit.
HandleLine ==
    /\ reading /\ wire # <<>>
    /\ LET line == Head(wire) IN
       /\ buf' = Appended(line)
       /\ woken' = IF slot # NoCmd /\ line.kind = "final"
                   THEN woken \cup {slot} ELSE woken
       /\ urcs' = Emitted(line)
    /\ wire' = Tail(wire)
    /\ reading' = FALSE
    /\ UNCHANGED <<ctx, linkVars, cmdMu, slot, senderVars, longCmd, breaker,
                   owed, histVars, contended, broken, budget>>

\* The URC dispatcher takes a line off the queue.
Dispatch ==
    /\ urcs # <<>>
    /\ urcs' = Tail(urcs)
    /\ UNCHANGED <<ctx, linkVars, cmdMu, slot, buf, woken, reading, senderVars,
                   longCmd, breaker, owed, wire, histVars, contended, broken,
                   budget>>

-----------------------------------------------------------------------------
(* send_command                                                            *)

\* A task calls send_command, or send_long_command for a cell scan.
Call(s) ==
    /\ pc[s] = "idle" /\ sent < MaxSend
    /\ sent' = sent + 1
    /\ cmd' = [cmd EXCEPT ![s] = sent + 1]
    /\ pc' = [pc EXCEPT ![s] = "queued"]
    /\ \/ isLong' = isLong \cup {sent + 1} /\ longCmd' = longCmd + 1
       \/ UNCHANGED <<isLong, longCmd>>
    /\ UNCHANGED <<ctx, linkVars, cmdMu, slot, buf, woken, reading, writer,
                   answered, breaker, urcs, owed, wire, outcome, resp,
                   contended, broken, budget>>

\* Mutant: a task that finds the lock taken sends all the same.
AcquireAnyway(s) ==
    /\ pc[s] = "queued"
    /\ cmdMu' = s
    /\ pc' = [pc EXCEPT ![s] = "locked"]
    /\ UNCHANGED <<ctx, linkVars, slot, buf, woken, reading, cmd, writer,
                   answered, longCmd, breaker, urcs, owed, wire, histVars,
                   contended, broken, budget>>

\* The command lock is granted.
Acquire(s) ==
    /\ pc[s] = "queued" /\ cmdMu = NoSender
    /\ cmdMu' = s
    /\ pc' = [pc EXCEPT ![s] = "locked"]
    /\ UNCHANGED <<ctx, linkVars, slot, buf, woken, reading, cmd, writer,
                   answered, longCmd, breaker, urcs, owed, wire, histVars,
                   contended, broken, budget>>

\* Mutant: the count is given back by code after the await, which a failed or
\* dropped future never reaches.
LongCountAfterAwait(s, how) ==
    IF cmd[s] \in isLong /\ how = "ok" THEN longCmd - 1 ELSE longCmd

\* LongCmdGuard gives the count back however the call ends.
LongCountAfter(s, how) == IF cmd[s] \in isLong THEN longCmd - 1 ELSE longCmd

\* A call ends: its locals die, its guards give back cmd_mu and the count.
Return(s, how, lines) ==
    /\ pc' = [pc EXCEPT ![s] = "idle"]
    /\ cmd' = [cmd EXCEPT ![s] = NoCmd]
    /\ writer' = [writer EXCEPT ![s] = 0]
    /\ answered' = [answered EXCEPT ![s] = FALSE]
    /\ woken' = woken \ {cmd[s]}
    /\ cmdMu' = IF cmdMu = s THEN NoSender ELSE cmdMu
    /\ longCmd' = LongCountAfter(s, how)
    /\ outcome' = [outcome EXCEPT ![cmd[s]] = how]
    /\ resp' = [resp EXCEPT ![cmd[s]] = lines]
    /\ UNCHANGED <<ctx, linkVars, reading, breaker, urcs, owed, wire, sent,
                   isLong, broken, budget>>

\* The 8 s queue budget runs out before the lock is granted.
QueueTimeout(s) ==
    /\ pc[s] = "queued"
    /\ Return(s, "unsent", <<>>)
    /\ UNCHANGED <<slot, buf, contended>>

\* The command gap is over and the writer is cloned, if there is one.
FetchWriter(s) ==
    /\ pc[s] = "locked" /\ conn # 0
    /\ writer' = [writer EXCEPT ![s] = conn]
    /\ pc' = [pc EXCEPT ![s] = "fetched"]
    /\ UNCHANGED <<ctx, linkVars, cmdMu, slot, buf, woken, reading, cmd,
                   answered, longCmd, breaker, urcs, owed, wire, histVars,
                   contended, broken, budget>>

NoConnection(s) ==
    /\ pc[s] = "locked" /\ conn = 0
    /\ Return(s, "unsent", <<>>)
    /\ UNCHANGED <<slot, buf, contended>>

\* The command goes into the pending slot, over whatever was there.
InstallPending(s) ==
    /\ pc[s] = "fetched" /\ ~reading
    /\ slot' = cmd[s]
    /\ buf' = <<>>
    /\ pc' = [pc EXCEPT ![s] = "armed"]
    /\ UNCHANGED <<ctx, linkVars, cmdMu, woken, reading, cmd, writer, answered,
                   longCmd, breaker, urcs, owed, wire, histVars, contended,
                   broken, budget>>

\* write_all succeeds. Bytes written to a transport that is already dead are
\* accepted and lost.
WriteCommand(s) ==
    /\ pc[s] = "armed"
    /\ owed' = IF link /\ writer[s] = epoch THEN Append(owed, cmd[s]) ELSE owed
    /\ pc' = [pc EXCEPT ![s] = "waiting"]
    /\ UNCHANGED <<ctx, linkVars, cmdMu, slot, buf, woken, reading, cmd, writer,
                   answered, longCmd, breaker, urcs, wire, histVars, contended,
                   broken, budget>>

\* write_all fails or its 3 s run out: the slot is taken back.
WriteFails(s) ==
    /\ pc[s] = "armed" /\ ~reading
    /\ slot' = NoCmd /\ buf' = <<>>
    /\ Return(s, "unsent", <<>>)
    /\ UNCHANGED contended

\* Mutant: a timer that fires counts as an answer if some line has come.
TimerAnswer(s) == buf # <<>>

\* The answer timer fired: whatever has come is not an answer.
TimeoutAnswer(s) == FALSE

\* select!: done was notified, or the answer timer fired. Both may be ready.
Notified(s) ==
    /\ pc[s] = "waiting" /\ cmd[s] \in woken
    /\ pc' = [pc EXCEPT ![s] = "taking"]
    /\ answered' = [answered EXCEPT ![s] = TRUE]
    /\ UNCHANGED <<ctx, linkVars, cmdMu, slot, buf, woken, reading, cmd, writer,
                   longCmd, breaker, urcs, owed, wire, histVars, contended,
                   broken, budget>>

\* Mutant: no timer runs while the answer is awaited.
AnswerTimeoutNever(s) == FALSE /\ UNCHANGED vars

AnswerTimeout(s) ==
    /\ pc[s] = "waiting"
    /\ pc' = [pc EXCEPT ![s] = "taking"]
    /\ answered' = [answered EXCEPT ![s] = TimeoutAnswer(s)]
    /\ UNCHANGED <<ctx, linkVars, cmdMu, slot, buf, woken, reading, cmd, writer,
                   longCmd, breaker, urcs, owed, wire, histVars, contended,
                   broken, budget>>

\* The slot is taken and the call ends with the lines it holds.
TakePending(s) ==
    /\ pc[s] = "taking" /\ ~reading
    /\ slot' = NoCmd /\ buf' = <<>>
    /\ IF answered[s] /\ buf # <<>>
       THEN Return(s, "ok", buf)
       ELSE Return(s, "givenUp", <<>>)
    /\ UNCHANGED contended

\* Shutdown ends a call that waits for the lock, the gap or the answer.
Cancel(s) ==
    /\ ctx
    /\ \/ /\ pc[s] \in {"queued", "locked"}
          /\ Return(s, "unsent", <<>>)
          /\ UNCHANGED <<slot, buf>>
       \/ /\ pc[s] = "waiting" /\ ~reading
          /\ slot' = NoCmd /\ buf' = <<>>
          /\ Return(s, "givenUp", <<>>)
    /\ UNCHANGED contended

\* Mutant: there is no PendingGuard.
NoGuard(s) == FALSE

\* PendingGuard::drop clears the slot when try_lock gets the lock.
GuardClears(s) == pc[s] \in Armed /\ ~reading

\* An outer timeout drops the future.
DropFuture(s) ==
    /\ pc[s] # "idle"
    /\ IF GuardClears(s)
       THEN slot' = NoCmd /\ buf' = <<>>
       ELSE UNCHANGED <<slot, buf>>
    /\ contended' = IF pc[s] \in Armed /\ reading
                    THEN contended \cup {cmd[s]} ELSE contended
    /\ Return(s, IF pc[s] \in Armed THEN "givenUp" ELSE "unsent", <<>>)

-----------------------------------------------------------------------------
(* interrupt(): writes to the modem without the command lock               *)

\* The writer is cloned and the pending command is a scan; the pending lock is
\* released before the write.
CheckInterrupt ==
    /\ breaker = 0 /\ budget > 0
    /\ conn # 0 /\ ~reading /\ slot \in isLong
    /\ breaker' = conn
    /\ budget' = budget - 1
    /\ UNCHANGED <<ctx, linkVars, cmdMu, slot, buf, woken, reading, senderVars,
                   longCmd, urcs, owed, wire, histVars, contended, broken>>

\* The payload reaches the modem: it ends the command at work with a
\* terminator, or, in an idle modem, is answered as a command of its own.
WriteInterrupt ==
    /\ breaker # 0
    /\ breaker' = 0
    /\ IF ~link \/ breaker # epoch THEN UNCHANGED <<owed, wire, broken>>
       ELSE IF owed = <<>>
       THEN /\ broken' = broken \cup {NoCmd}
            /\ wire' = Append(wire, [kind |-> "final", cmd |-> NoCmd])
            /\ UNCHANGED owed
       ELSE /\ broken' = broken \cup {Head(owed)}
            /\ wire' = Append(wire, [kind |-> "final", cmd |-> Head(owed)])
            /\ owed' = Tail(owed)
    /\ UNCHANGED <<ctx, linkVars, cmdMu, slot, buf, woken, reading, senderVars,
                   longCmd, urcs, histVars, contended, budget>>

-----------------------------------------------------------------------------
(* The modem and the transport (external)                                  *)

\* What the modem sends arrives only over a working transport.
Arrives(line) == wire' = IF link THEN Append(wire, line) ELSE wire

ModemData ==
    /\ owed # <<>> /\ budget > 0
    /\ \E k \in {"data", "prompt"} : Arrives([kind |-> k, cmd |-> Head(owed)])
    /\ budget' = budget - 1
    /\ UNCHANGED <<ctx, linkVars, cmdMu, slot, buf, woken, reading, senderVars,
                   longCmd, breaker, urcs, owed, histVars, contended, broken>>

ModemFinal ==
    /\ owed # <<>>
    /\ Arrives([kind |-> "final", cmd |-> Head(owed)])
    /\ owed' = Tail(owed)
    /\ UNCHANGED <<ctx, linkVars, cmdMu, slot, buf, woken, reading, senderVars,
                   longCmd, breaker, urcs, histVars, contended, broken, budget>>

ModemUnsolicited ==
    /\ link /\ budget > 0
    /\ \E k \in {"urc", "info"} : Arrives([kind |-> k, cmd |-> NoCmd])
    /\ budget' = budget - 1
    /\ UNCHANGED <<ctx, linkVars, cmdMu, slot, buf, woken, reading, senderVars,
                   longCmd, breaker, urcs, owed, histVars, contended, broken>>

\* The transport dies; the service does not know yet.
LinkDies ==
    /\ link /\ run = "serving"
    /\ link' = FALSE
    /\ UNCHANGED <<ctx, run, pass, conn, connected, epoch, cmdMu, slot, buf,
                   woken, reading, senderVars, longCmd, breaker, urcs, owed,
                   wire, histVars, contended, broken, budget>>

-----------------------------------------------------------------------------
RunLoop == OpenTransport \/ StartServing \/ ReadLoopEnds \/ LowerFlag
           \/ DropConnection \/ WakePending \/ JoinInit

Reader == ReaderLocks \/ HandleLine

\* The steps of a call that its own code or one of its timers brings about.
Proceed(s) ==
    \/ Acquire(s) \/ QueueTimeout(s) \/ FetchWriter(s) \/ NoConnection(s)
    \/ InstallPending(s) \/ WriteCommand(s) \/ WriteFails(s)
    \/ Notified(s) \/ AnswerTimeout(s) \/ TakePending(s) \/ Cancel(s)

Sender(s) == Call(s) \/ Proceed(s) \/ DropFuture(s)

Modem == ModemData \/ ModemFinal \/ ModemUnsolicited \/ LinkDies

Next ==
    \/ RunLoop \/ Shutdown \/ Reader \/ Dispatch
    \/ \E s \in Senders : Sender(s)
    \/ CheckInterrupt \/ WriteInterrupt
    \/ Modem

Spec == Init /\ [][Next]_vars

\* The runtime polls every ready task and every timer fires; the transport
\* can be opened again. The modem and the callers owe nothing.
Fairness ==
    /\ WF_vars(RunLoop) /\ WF_vars(Reader) /\ WF_vars(Dispatch)
    /\ \A s \in Senders : WF_vars(Proceed(s))

LiveSpec == Spec /\ Fairness

-----------------------------------------------------------------------------
(* Properties                                                              *)

Calling(s) == pc[s] # "idle"

\* Calls whose sender stopped waiting although the modem may still answer.
GivenUp == {c \in Cmd : outcome[c] = "givenUp"}

Answers(lines, c) ==
    \A i \in 1..Len(lines) :
        lines[i].kind \in {"data", "prompt", "final"} => lines[i].cmd = c

HasFinal(lines) == \E i \in 1..Len(lines) : lines[i].kind = "final"

FlagTypeOK ==
    /\ ctx \in BOOLEAN /\ connected \in BOOLEAN /\ link \in BOOLEAN
    /\ reading \in BOOLEAN
    /\ answered \in [Senders -> BOOLEAN]

LinkTypeOK ==
    /\ run \in {"opening", "installed", "serving", "lowering", "closing",
                "waking", "joining", "stopped"}
    /\ pass \in {1, 2}
    /\ epoch \in 0..MaxLink /\ conn \in 0..MaxLink /\ breaker \in 0..MaxLink

SenderTypeOK ==
    /\ pc \in [Senders -> {"idle", "queued", "locked", "fetched"} \cup Armed]
    /\ cmd \in [Senders -> Cmd \cup {NoCmd}]
    /\ writer \in [Senders -> 0..MaxLink]
    /\ cmdMu \in Senders \cup {NoSender}
    /\ longCmd \in Int

\* Past the limit an answer has nothing but prompts.
Limited(lines) ==
    \A i \in 1..Len(lines) : i > MaxLines => lines[i].kind = "prompt"

SlotTypeOK ==
    /\ slot \in Cmd \cup {NoCmd}
    /\ buf \in Seq(Line) /\ Limited(buf)
    /\ woken \subseteq Cmd

WireTypeOK ==
    /\ urcs \in Seq(Line) /\ Len(urcs) <= UrcCap
    /\ owed \in Seq(Cmd)
    /\ wire \in Seq(Line)
    /\ budget \in Nat

HistoryTypeOK ==
    /\ sent \in 0..MaxSend
    /\ isLong \subseteq Cmd
    /\ outcome \in [Cmd -> {"none", "ok", "unsent", "givenUp"}]
    /\ resp \in [Cmd -> Seq(Line)]
    /\ contended \subseteq Cmd /\ broken \subseteq Cmd \cup {NoCmd}

\* Every variable stays in its type, and neither an answer nor the URC queue
\* outgrows its limit (MAX_RESPONSE_LINES, but for prompts; the capacity given
\* in main).
TypeOK ==
    /\ FlagTypeOK /\ LinkTypeOK /\ SenderTypeOK
    /\ SlotTypeOK /\ WireTypeOK /\ HistoryTypeOK

\* A command that waits for its answer is still in the pending slot, or it has
\* been notified: teardown, PendingGuard and the next command never take the
\* slot from under a sleeping sender (send_command_inner, teardown).
NoLostWakeup ==
    \A s \in Senders : pc[s] = "waiting" => slot = cmd[s] \/ cmd[s] \in woken

\* A command left in the slot with nobody waiting for it was dropped at the
\* moment the lock was taken (PendingGuard::drop); in every other case the slot
\* belongs to the call that holds cmd_mu.
StalePendingWasContended ==
    slot # NoCmd =>
        \/ slot \in contended
        \/ \E s \in Senders : cmdMu = s /\ pc[s] \in Armed /\ cmd[s] = slot

\* As long as no sender has given up on a command the modem may still answer,
\* and no interrupt reached an idle modem, every answer is made of the lines of
\* its own command (and unsolicited ones), terminator included.
Aligned ==
    GivenUp = {} /\ NoCmd \notin broken =>
        \A c \in Cmd : outcome[c] = "ok" => Answers(resp[c], c)

\* cmd_mu is held by exactly the call that is past it.
LockHeld == \A s \in Senders : pc[s] \in Holding <=> cmdMu = s

\* Calls under way send different commands, each already counted.
CallsDistinct ==
    /\ \A s \in Senders : Calling(s) => cmd[s] \in 1..sent
    /\ \A s, t \in Senders : Calling(s) /\ Calling(t) /\ s # t => cmd[s] # cmd[t]

\* NoLostWakeup as it holds from the moment the command is in the slot: a
\* teardown may come before the command is even written.
ArmedInSlot ==
    \A s \in Senders : pc[s] \in Armed => slot = cmd[s] \/ cmd[s] \in woken

\* The inductive invariant: one call at a time is past cmd_mu, what it waits for
\* is in the slot or has been notified, and the slot holds nothing else but the
\* leftover of a contended drop (send_command_inner, teardown, PendingGuard).
ChannelInv ==
    /\ TypeOK
    /\ LockHeld
    /\ CallsDistinct
    /\ ArmedInSlot
    /\ StalePendingWasContended

\* A call that returns Ok got a terminator; only an answer that reached
\* MAX_RESPONSE_LINES can lack it (send_command_inner: a timeout is never a
\* success, however many lines have come).
OkHasFinal ==
    \A c \in Cmd :
        outcome[c] = "ok" /\ Len(resp[c]) < MaxLines => HasFinal(resp[c])

\* An answer that may be returned: it has its terminator or reached the limit.
Complete(lines) == HasFinal(lines) \/ Len(lines) >= MaxLines

\* Why: only the call whose command is in the slot is notified, and when it is,
\* the answer is complete or teardown has emptied the slot for good.
AnswerInv ==
    /\ \A s \in Senders : Calling(s) => cmd[s] \notin contended
    /\ \A s \in Senders : Calling(s) /\ cmd[s] \in woken => pc[s] \in Armed
    /\ \A s \in Senders : answered[s] => pc[s] = "taking"
    /\ \A s \in Senders :
          pc[s] \in Armed /\ (cmd[s] \in woken \/ answered[s])
              => (slot = NoCmd /\ buf = <<>>) \/ Complete(buf)
    /\ contended \cup woken \cup {slot} \subseteq 0..sent
    /\ \A c \in Cmd : outcome[c] = "ok" => Complete(resp[c])

\* Whoever sees connected() finds a connection in the slot: the flag rises
\* after it and falls before it (run, teardown).
ConnectedImpliesConn == connected => conn # 0

\* Why: the loop serves only a connection that is in the slot, and takes it out
\* only with the flag down.
FlagInv ==
    /\ ConnectedImpliesConn
    /\ run = "installed" => conn # 0
    /\ run = "closing" => ~connected

\* long_command_active() is true exactly while a cell scan is being sent,
\* however the calls end (LongCmdGuard): a leak would stop the scheduler.
LongCountMatches ==
    longCmd = Cardinality({s \in Senders : Calling(s) /\ cmd[s] \in isLong})

\* Why: a scan is counted when it is called, and no later call has its number.
LongInv ==
    /\ IsFiniteSet({s \in Senders : Calling(s) /\ cmd[s] \in isLong})
    /\ isLong \subseteq 1..sent
    /\ LongCountMatches

\* Every call of send_command returns, whatever the modem and the transport do.
EveryCallReturns == \A s \in Senders : Calling(s) ~> ~Calling(s)

\* A transport that died is noticed and replaced, unless the service stops.
Reconnects ==
    (run = "serving" /\ ~link /\ epoch < MaxLink)
        ~> (link /\ connected) \/ ctx

-----------------------------------------------------------------------------
(* What the channel promises its callers                                   *)

\* Where SerialCalls sees a call: past cmd_mu it talks to the modem.
Stage(s) ==
    IF pc[s] \in Holding THEN "talking"
    ELSE IF pc[s] = "queued" THEN "asking" ELSE "idle"

Calls == INSTANCE SerialCalls WITH
    Callers <- Senders, MaxCalls <- MaxSend,
    stage <- [s \in Senders |-> Stage(s)],
    call <- cmd, calls <- sent, result <- outcome

\* With teardowns, time-outs, dropped futures, shutdown and interrupts the
\* channel is still a line on which callers take turns and each call ends once
\* (send_command_inner, PendingGuard, teardown).
ImplementsCalls == Calls!Spec

-----------------------------------------------------------------------------
(* What the source says and the code does not do                           *)

\* The comment of PendingGuard: a late answer is broadcast as a URC and never
\* counted as an answer of the next command.
NoForeignAnswer ==
    \A c \in Cmd : outcome[c] = "ok" => Answers(resp[c], c)

\* The comment of PendingGuard: when try_lock fails the read loop takes the
\* pending command itself, so none is left without a sender.
PendingHasSender ==
    slot # NoCmd => \E s \in Senders : cmdMu = s /\ cmd[s] = slot

\* The comment of interrupt: the check of the echo keeps the payload out of the
\* stream of a command that is not a cell scan.
InterruptHitsScan == broken \ {NoCmd} \subseteq isLong

=============================================================================
