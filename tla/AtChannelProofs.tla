-------------------------- MODULE AtChannelProofs --------------------------
(***************************************************************************)
(* ChannelInv is an inductive invariant of AtChannel, for every set of     *)
(* senders and every bound: first the types, group of actions by group of  *)
(* actions, then the lock, the distinct commands, and the pending slot.    *)
(***************************************************************************)
EXTENDS AtChannel, FiniteSetTheorems, SequenceTheorems, TLAPS

LEMMA EmptySequence ==
  ASSUME NEW S
  PROVE  <<>> \in Seq(S) /\ Len(<<>>) = 0
OBVIOUS

LEMMA InitType == Init => TypeOK
<1> SUFFICES ASSUME Init PROVE TypeOK
  OBVIOUS
<1>1. FlagTypeOK    BY DEF Init, FlagTypeOK
<1>2. LinkTypeOK    BY BoundsAssumption DEF Init, LinkTypeOK
<1>3. SenderTypeOK  BY BoundsAssumption DEF Init, SenderTypeOK
<1>4. SlotTypeOK    BY BoundsAssumption, EmptySequence DEF Init, SlotTypeOK, Limited
<1>5. WireTypeOK    BY BoundsAssumption, EmptySequence DEF Init, WireTypeOK
<1>6. HistoryTypeOK BY BoundsAssumption, EmptySequence DEF Init, HistoryTypeOK
<1>7. QED BY <1>1, <1>2, <1>3, <1>4, <1>5, <1>6 DEF TypeOK

-----------------------------------------------------------------------------
(* Types: the connection loop and the read loop                            *)

LEMMA RunLoopType ==
  ASSUME TypeOK, RunLoop
  PROVE  TypeOK'
<1> USE DEF TypeOK, senderVars, linkVars, histVars
<1>1. FlagTypeOK'
  BY DEF FlagTypeOK, RunLoop, OpenTransport, StartServing, ReadLoopEnds,
         LowerFlag, DropConnection, WakePending, JoinInit
<1>2. LinkTypeOK'
  BY BoundsAssumption
  DEF LinkTypeOK, RunLoop, OpenTransport, StartServing, ReadLoopEnds,
      LowerFlag, DropConnection, WakePending, JoinInit
<1>3. SenderTypeOK'
  BY DEF SenderTypeOK, RunLoop, OpenTransport, StartServing, ReadLoopEnds,
         LowerFlag, DropConnection, WakePending, JoinInit
<1>4. SlotTypeOK'
  <2>1. CASE WakePending
    <3>1. woken' \subseteq Cmd /\ slot' = NoCmd /\ buf' = <<>>
      BY <2>1 DEF WakePending, WokenByTeardown, SlotTypeOK
    <3>2. QED BY <3>1, EmptySequence DEF SlotTypeOK, Limited
  <2>2. CASE ~WakePending
    BY <2>2 DEF SlotTypeOK, RunLoop, OpenTransport, StartServing, ReadLoopEnds,
                LowerFlag, DropConnection, JoinInit
  <2>3. QED BY <2>1, <2>2
<1>5. WireTypeOK'
  BY EmptySequence
  DEF WireTypeOK, RunLoop, OpenTransport, StartServing, ReadLoopEnds,
      LowerFlag, DropConnection, WakePending, JoinInit
<1>6. HistoryTypeOK'
  BY DEF HistoryTypeOK, RunLoop, OpenTransport, StartServing, ReadLoopEnds,
         LowerFlag, DropConnection, WakePending, JoinInit
<1>7. QED BY <1>1, <1>2, <1>3, <1>4, <1>5, <1>6

LEMMA ReaderType ==
  ASSUME TypeOK, Reader \/ Dispatch \/ Shutdown
  PROVE  TypeOK'
<1> USE DEF TypeOK, senderVars, linkVars, histVars
<1>1. FlagTypeOK'
  BY DEF FlagTypeOK, Reader, ReaderLocks, HandleLine, Dispatch, Shutdown
<1>2. LinkTypeOK'
  BY DEF LinkTypeOK, Reader, ReaderLocks, HandleLine, Dispatch, Shutdown
<1>3. SenderTypeOK'
  BY DEF SenderTypeOK, Reader, ReaderLocks, HandleLine, Dispatch, Shutdown
<1>4. SlotTypeOK'
  <2>1. CASE HandleLine
    <3>1. Head(wire) \in Line
      BY <2>1 DEF HandleLine, WireTypeOK
    <3>2. buf' = Appended(Head(wire)) /\ slot' = slot
      BY <2>1 DEF HandleLine
    <3>3. buf' \in Seq(Line) /\ Limited(buf')
      <4>1. buf \in Seq(Line) /\ Limited(buf) /\ MaxLines \in Nat
        BY BoundsAssumption DEF SlotTypeOK
      <4>2. CASE buf' = buf BY <4>1, <4>2
      <4>3. CASE /\ buf' = Append(buf, Head(wire))
                 /\ Len(buf) < MaxLines \/ Head(wire).kind = "prompt"
        BY <3>1, <4>1, <4>3 DEF Limited
      <4>4. QED BY <3>2, <4>2, <4>3 DEF Appended
    <3>4. woken' \subseteq Cmd
      BY <2>1 DEF HandleLine, SlotTypeOK
    <3>5. QED BY <3>2, <3>3, <3>4 DEF SlotTypeOK
  <2>2. CASE ~HandleLine
    BY <2>2 DEF SlotTypeOK, Reader, ReaderLocks, Dispatch, Shutdown
  <2>3. QED BY <2>1, <2>2
<1>5. WireTypeOK'
  <2>1. CASE HandleLine
    <3>1. Head(wire) \in Line /\ Tail(wire) \in Seq(Line)
      BY <2>1 DEF HandleLine, WireTypeOK
    <3>2. urcs' = Emitted(Head(wire)) /\ wire' = Tail(wire)
          /\ owed' = owed /\ budget' = budget
      BY <2>1 DEF HandleLine
    <3>3. urcs' \in Seq(Line) /\ Len(urcs') <= UrcCap
      BY <3>1, <3>2, BoundsAssumption DEF Emitted, WireTypeOK
    <3>4. QED BY <3>1, <3>2, <3>3 DEF WireTypeOK
  <2>2. CASE Dispatch
    <3>1. urcs' \in Seq(Line) /\ Len(urcs') <= UrcCap
      BY <2>2, BoundsAssumption DEF Dispatch, WireTypeOK
    <3>2. QED BY <2>2, <3>1 DEF Dispatch, WireTypeOK
  <2>3. CASE ReaderLocks \/ Shutdown
    BY <2>3 DEF WireTypeOK, ReaderLocks, Shutdown
  <2>4. QED BY <2>1, <2>2, <2>3 DEF Reader
<1>6. HistoryTypeOK'
  BY DEF HistoryTypeOK, Reader, ReaderLocks, HandleLine, Dispatch, Shutdown
<1>7. QED BY <1>1, <1>2, <1>3, <1>4, <1>5, <1>6

-----------------------------------------------------------------------------
(* Types: the modem and the interrupt                                      *)

LEMMA ModemType ==
  ASSUME TypeOK, Modem \/ CheckInterrupt \/ WriteInterrupt
  PROVE  TypeOK'
<1> USE DEF TypeOK, senderVars, linkVars, histVars
<1> DEFINE Final(c) == [kind |-> "final", cmd |-> c]
<1>1. FlagTypeOK'
  BY DEF FlagTypeOK, Modem, ModemData, ModemFinal, ModemUnsolicited, LinkDies,
         CheckInterrupt, WriteInterrupt
<1>2. LinkTypeOK'
  BY BoundsAssumption
  DEF LinkTypeOK, Modem, ModemData, ModemFinal, ModemUnsolicited, LinkDies,
      CheckInterrupt, WriteInterrupt
<1>3. SenderTypeOK'
  BY DEF SenderTypeOK, Modem, ModemData, ModemFinal, ModemUnsolicited, LinkDies,
         CheckInterrupt, WriteInterrupt
<1>4. SlotTypeOK'
  BY DEF SlotTypeOK, Modem, ModemData, ModemFinal, ModemUnsolicited, LinkDies,
         CheckInterrupt, WriteInterrupt
<1>5. WireTypeOK'
  <2>1. \A c \in Cmd \cup {NoCmd} : Final(c) \in Line
    BY DEF Line
  <2>2. CASE ModemData
    <3>1. \A k \in {"data", "prompt"} : [kind |-> k, cmd |-> Head(owed)] \in Line
      BY <2>2 DEF ModemData, Line, WireTypeOK
    <3>2. wire' \in Seq(Line)
      BY <2>2, <3>1 DEF ModemData, Arrives, WireTypeOK
    <3>3. budget' \in Nat
      BY <2>2 DEF ModemData, WireTypeOK
    <3>4. QED BY <2>2, <3>2, <3>3 DEF ModemData, WireTypeOK
  <2>3. CASE ModemFinal
    <3>1. Final(Head(owed)) \in Line /\ Tail(owed) \in Seq(Cmd)
      BY <2>3, <2>1 DEF ModemFinal, WireTypeOK
    <3>2. wire' \in Seq(Line)
      BY <2>3, <3>1 DEF ModemFinal, Arrives, WireTypeOK
    <3>3. QED BY <2>3, <3>1, <3>2 DEF ModemFinal, WireTypeOK
  <2>4. CASE ModemUnsolicited
    <3>1. \A k \in {"urc", "info"} : [kind |-> k, cmd |-> NoCmd] \in Line
      BY DEF Line
    <3>2. wire' \in Seq(Line)
      BY <2>4, <3>1 DEF ModemUnsolicited, Arrives, WireTypeOK
    <3>3. budget' \in Nat
      BY <2>4 DEF ModemUnsolicited, WireTypeOK
    <3>4. QED BY <2>4, <3>2, <3>3 DEF ModemUnsolicited, WireTypeOK
  <2>5. CASE WriteInterrupt
    <3>1. CASE owed = <<>>
      <4>1. wire' = wire \/ wire' = Append(wire, Final(NoCmd))
        BY <2>5, <3>1 DEF WriteInterrupt
      <4>2. owed' = owed /\ urcs' = urcs /\ budget' = budget
        BY <2>5, <3>1 DEF WriteInterrupt
      <4>3. wire' \in Seq(Line)
        <5>1. wire \in Seq(Line) /\ Final(NoCmd) \in Line
          BY <2>1 DEF WireTypeOK
        <5> HIDE DEF Final
        <5>2. QED BY <4>1, <5>1
      <4>4. owed' \in Seq(Cmd) /\ urcs' \in Seq(Line) /\ Len(urcs') <= UrcCap
            /\ budget' \in Nat
        BY <4>2 DEF WireTypeOK
      <4>5. QED BY <4>3, <4>4 DEF WireTypeOK
    <3>2. CASE owed # <<>>
      <4>1. Final(Head(owed)) \in Line /\ Tail(owed) \in Seq(Cmd)
        BY <3>2, <2>1 DEF WireTypeOK
      <4>2. \/ wire' = wire /\ owed' = owed
            \/ wire' = Append(wire, Final(Head(owed))) /\ owed' = Tail(owed)
        BY <2>5, <3>2 DEF WriteInterrupt
      <4>3. urcs' = urcs /\ budget' = budget
        BY <2>5 DEF WriteInterrupt
      <4>4. wire' \in Seq(Line) /\ owed' \in Seq(Cmd)
        <5>1. wire \in Seq(Line) /\ owed \in Seq(Cmd)
          BY DEF WireTypeOK
        <5> DEFINE f == Final(Head(owed))
        <5>2. Append(wire, f) \in Seq(Line)
          <6>1. f \in Line
            BY <4>1
          <6> HIDE DEF f
          <6>2. QED BY <5>1, <6>1
        <5>3. wire' = wire \/ wire' = Append(wire, f)
          BY <4>2
        <5>4. owed' = owed \/ owed' = Tail(owed)
          BY <4>2
        <5> HIDE DEF f
        <5>5. QED BY <4>1, <5>1, <5>2, <5>3, <5>4
      <4>5. urcs' \in Seq(Line) /\ Len(urcs') <= UrcCap
            /\ budget' \in Nat
        BY <4>3 DEF WireTypeOK
      <4>6. QED BY <4>4, <4>5 DEF WireTypeOK
    <3>3. QED BY <3>1, <3>2
  <2>6. CASE CheckInterrupt
    <3>1. budget' \in Nat
      BY <2>6 DEF CheckInterrupt, WireTypeOK
    <3>2. QED BY <2>6, <3>1 DEF CheckInterrupt, WireTypeOK
  <2>7. CASE LinkDies
    BY <2>7 DEF LinkDies, WireTypeOK
  <2>8. QED BY <2>2, <2>3, <2>4, <2>5, <2>6, <2>7 DEF Modem
<1>6. HistoryTypeOK'
  <2>1. CASE WriteInterrupt
    <3>1. owed # <<>> => Head(owed) \in Cmd
      BY DEF WireTypeOK
    <3>2. broken' \subseteq Cmd \cup {NoCmd}
      BY <2>1, <3>1 DEF WriteInterrupt, HistoryTypeOK
    <3>3. QED BY <2>1, <3>2 DEF WriteInterrupt, HistoryTypeOK
  <2>2. CASE ~WriteInterrupt
    BY <2>2 DEF HistoryTypeOK, Modem, ModemData, ModemFinal, ModemUnsolicited,
                LinkDies, CheckInterrupt
  <2>3. QED BY <2>1, <2>2
<1>7. QED BY <1>1, <1>2, <1>3, <1>4, <1>5, <1>6

-----------------------------------------------------------------------------
(* The calls                                                               *)

\* A call that ends leaves every type, the lock and the distinct commands in
\* order; its callers still say what becomes of the slot.
LEMMA ReturnKeeps ==
  ASSUME ChannelInv,
         NEW s \in Senders, Calling(s),
         NEW how \in {"none", "ok", "unsent", "givenUp"},
         NEW lines \in Seq(Line),
         Return(s, how, lines)
  PROVE  /\ FlagTypeOK' /\ LinkTypeOK' /\ SenderTypeOK' /\ WireTypeOK'
         /\ woken' \subseteq Cmd
         /\ contended' \subseteq Cmd => HistoryTypeOK'
         /\ LockHeld' /\ CallsDistinct'
         /\ cmd[s] \in Cmd
<1> USE DEF ChannelInv, TypeOK, senderVars, linkVars
<1>1. FlagTypeOK'
  BY DEF FlagTypeOK, Return
<1>2. LinkTypeOK'
  BY DEF LinkTypeOK, Return
<1>3. SenderTypeOK'
  <2>1. longCmd' \in Int
    BY DEF SenderTypeOK, Return, LongCountAfter
  <2>2. writer' \in [Senders -> 0..MaxLink]
    BY BoundsAssumption DEF SenderTypeOK, Return
  <2>3. cmd' \in [Senders -> Cmd \cup {NoCmd}]
    BY DEF SenderTypeOK, Return
  <2>4. pc' \in [Senders -> {"idle", "queued", "locked", "fetched"} \cup Armed]
    BY DEF SenderTypeOK, Return
  <2>5. cmdMu' \in Senders \cup {NoSender}
    BY DEF SenderTypeOK, Return
  <2>6. QED BY <2>1, <2>2, <2>3, <2>4, <2>5 DEF SenderTypeOK
<1>4. WireTypeOK'
  BY DEF WireTypeOK, Return
<1>5. woken' \subseteq Cmd
  BY DEF SlotTypeOK, Return
<1>6. ASSUME contended' \subseteq Cmd PROVE HistoryTypeOK'
  <2>1. outcome' \in [Cmd -> {"none", "ok", "unsent", "givenUp"}]
    BY DEF HistoryTypeOK, Return
  <2>2. resp' \in [Cmd -> Seq(Line)]
    BY DEF HistoryTypeOK, Return
  <2>3. QED BY <1>6, <2>1, <2>2 DEF HistoryTypeOK, Return
<1>7. LockHeld'
  BY SendersAssumption DEF LockHeld, SenderTypeOK, Return, Holding, Armed
<1>8. CallsDistinct'
  BY DEF CallsDistinct, Calling, SenderTypeOK, Return
<1>9. cmd[s] \in Cmd
  BY BoundsAssumption DEF CallsDistinct, HistoryTypeOK, Cmd
<1>10. QED BY <1>1, <1>2, <1>3, <1>4, <1>5, <1>6, <1>7, <1>8, <1>9

\* What a call that ends must do to the slot: whoever else waits keeps its
\* command there, or has been notified.
LEMMA ReturnKeepsWaiters ==
  ASSUME ChannelInv,
         NEW s \in Senders, Calling(s),
         NEW how \in {"none", "ok", "unsent", "givenUp"},
         NEW lines \in Seq(Line),
         Return(s, how, lines),
         slot' = slot \/ cmdMu = s
  PROVE  ArmedInSlot'
<1> SUFFICES ASSUME NEW t \in Senders, pc'[t] \in Armed
             PROVE  slot' = cmd'[t] \/ cmd'[t] \in woken'
  BY DEF ArmedInSlot
<1>1. t # s /\ pc[t] \in Armed /\ cmd'[t] = cmd[t]
  BY DEF Return, ChannelInv, TypeOK, SenderTypeOK, Armed
<1>2. cmdMu = t /\ cmd[t] # cmd[s]
  BY <1>1 DEF ChannelInv, LockHeld, Holding, Armed, CallsDistinct, Calling
<1>3. slot = cmd[t] \/ cmd[t] \in woken
  BY <1>1 DEF ChannelInv, ArmedInSlot
<1>4. cmd[t] \in woken => cmd[t] \in woken'
  BY <1>2 DEF Return
<1>5. slot' = slot
  BY <1>1, <1>2
<1>6. QED BY <1>1, <1>3, <1>4, <1>5

\* The actions that end a call.
LEMMA EndOfCall ==
  ASSUME ChannelInv, NEW s \in Senders,
         \/ QueueTimeout(s) \/ NoConnection(s) \/ WriteFails(s)
         \/ TakePending(s) \/ Cancel(s) \/ DropFuture(s)
  PROVE  ChannelInv'
<1> DEFINE Kinds == {"none", "ok", "unsent", "givenUp"}
<1>1. Calling(s)
  BY DEF QueueTimeout, NoConnection, WriteFails, TakePending, Cancel,
         DropFuture, Calling
<1>2. buf \in Seq(Line) /\ contended \subseteq Cmd /\ slot \in Cmd \cup {NoCmd}
      /\ Limited(buf)
  BY DEF ChannelInv, TypeOK, SlotTypeOK, HistoryTypeOK
<1>3. PICK how \in Kinds, lines \in Seq(Line) : Return(s, how, lines)
  BY <1>2, EmptySequence
  DEF QueueTimeout, NoConnection, WriteFails, TakePending, Cancel, DropFuture
<1>4. pc[s] \in Holding <=> cmdMu = s
  BY DEF ChannelInv, LockHeld
<1>5. \/ slot' = slot /\ buf' = buf
      \/ slot' = NoCmd /\ buf' = <<>> /\ cmdMu = s
  BY <1>4
  DEF QueueTimeout, NoConnection, WriteFails, TakePending, Cancel, DropFuture,
      GuardClears, Holding, Armed
<1>6. contended' \subseteq contended \cup {cmd[s]} /\ contended \subseteq contended'
  BY DEF QueueTimeout, NoConnection, WriteFails, TakePending, Cancel, DropFuture
<1>7. /\ FlagTypeOK' /\ LinkTypeOK' /\ SenderTypeOK' /\ WireTypeOK'
      /\ woken' \subseteq Cmd
      /\ contended' \subseteq Cmd => HistoryTypeOK'
      /\ LockHeld' /\ CallsDistinct'
      /\ cmd[s] \in Cmd
  BY <1>1, <1>3, ReturnKeeps
<1>8. SlotTypeOK'
  <2>1. CASE slot' = slot /\ buf' = buf
    BY <1>2, <1>7, <2>1 DEF SlotTypeOK
  <2>2. CASE slot' = NoCmd /\ buf' = <<>>
    BY <1>7, <2>2, EmptySequence DEF SlotTypeOK, Limited
  <2>3. QED BY <1>5, <2>1, <2>2
<1>9. HistoryTypeOK'
  BY <1>2, <1>6, <1>7
<1>10. TypeOK'
  BY <1>7, <1>8, <1>9 DEF TypeOK
<1>11. ArmedInSlot'
  BY <1>1, <1>3, <1>5, ReturnKeepsWaiters
<1>12. StalePendingWasContended'
  <2> SUFFICES ASSUME slot' # NoCmd
               PROVE  \/ slot' \in contended'
                      \/ \E t \in Senders : /\ cmdMu' = t /\ pc'[t] \in Armed
                                            /\ cmd'[t] = slot'
    BY DEF StalePendingWasContended
  <2>1. slot' = slot
    BY <1>5
  <2>2. CASE slot \in contended
    BY <2>1, <2>2, <1>6
  <2>3. CASE \E t \in Senders : cmdMu = t /\ pc[t] \in Armed /\ cmd[t] = slot
    <3>1. PICK t \in Senders : cmdMu = t /\ pc[t] \in Armed /\ cmd[t] = slot
      BY <2>3
    <3>2. CASE t = s
      <4>1. DropFuture(s) /\ contended' = contended \cup {cmd[s]}
        BY <2>1, <3>1, <3>2
        DEF QueueTimeout, NoConnection, WriteFails, TakePending, Cancel,
            DropFuture, GuardClears, Armed
      <4>2. QED BY <2>1, <3>1, <3>2, <4>1
    <3>3. CASE t # s
      <4>1. cmdMu' = t /\ pc'[t] = pc[t] /\ cmd'[t] = cmd[t]
        BY <1>3, <3>1, <3>3 DEF Return, ChannelInv, TypeOK, SenderTypeOK
      <4>2. QED BY <2>1, <3>1, <4>1
    <3>4. QED BY <3>2, <3>3
  <2>4. QED BY <2>1, <2>2, <2>3 DEF ChannelInv, StalePendingWasContended
<1>13. QED BY <1>7, <1>10, <1>11, <1>12 DEF ChannelInv

\* The actions that take a call forward.
LEMMA CallForward ==
  ASSUME ChannelInv, NEW s \in Senders,
         \/ Call(s) \/ Acquire(s) \/ FetchWriter(s) \/ InstallPending(s)
         \/ WriteCommand(s) \/ Notified(s) \/ AnswerTimeout(s)
  PROVE  ChannelInv'
<1> USE DEF senderVars, linkVars, histVars
<1> DEFINE Step == \/ Call(s) \/ Acquire(s) \/ FetchWriter(s)
                   \/ InstallPending(s) \/ WriteCommand(s) \/ Notified(s)
                   \/ AnswerTimeout(s)
<1>1. Calling(s) => cmd[s] \in Cmd
  BY BoundsAssumption DEF ChannelInv, TypeOK, HistoryTypeOK, CallsDistinct, Cmd
<1>2. FlagTypeOK'
  BY DEF ChannelInv, TypeOK, FlagTypeOK, Call, Acquire, FetchWriter,
         InstallPending, WriteCommand, Notified, AnswerTimeout, TimeoutAnswer
<1>3. LinkTypeOK'
  BY DEF ChannelInv, TypeOK, LinkTypeOK, Call, Acquire, FetchWriter,
         InstallPending, WriteCommand, Notified, AnswerTimeout
<1>4. SenderTypeOK'
  <2>1. pc' \in [Senders -> {"idle", "queued", "locked", "fetched"} \cup Armed]
    BY DEF ChannelInv, TypeOK, SenderTypeOK, Call, Acquire, FetchWriter,
           InstallPending, WriteCommand, Notified, AnswerTimeout, Armed
  <2>2. cmd' \in [Senders -> Cmd \cup {NoCmd}]
    <3>1. CASE Call(s)
      <4>1. sent + 1 \in Cmd
        BY <3>1, BoundsAssumption
        DEF Call, ChannelInv, TypeOK, HistoryTypeOK, Cmd
      <4>2. QED BY <3>1, <4>1 DEF Call, ChannelInv, TypeOK, SenderTypeOK
    <3>2. CASE ~Call(s)
      BY <3>2 DEF ChannelInv, TypeOK, SenderTypeOK, Acquire, FetchWriter,
                  InstallPending, WriteCommand, Notified, AnswerTimeout
    <3>3. QED BY <3>1, <3>2
  <2>3. writer' \in [Senders -> 0..MaxLink]
    BY DEF ChannelInv, TypeOK, SenderTypeOK, LinkTypeOK, Call, Acquire,
           FetchWriter, InstallPending, WriteCommand, Notified, AnswerTimeout
  <2>4. cmdMu' \in Senders \cup {NoSender} /\ longCmd' \in Int
    BY DEF ChannelInv, TypeOK, SenderTypeOK, Call, Acquire, FetchWriter,
           InstallPending, WriteCommand, Notified, AnswerTimeout
  <2>5. QED BY <2>1, <2>2, <2>3, <2>4 DEF SenderTypeOK
<1>5. SlotTypeOK'
  <2>1. CASE InstallPending(s)
    <3>1. slot' = cmd[s] /\ buf' = <<>> /\ woken' = woken
      BY <2>1 DEF InstallPending
    <3>2. QED BY <3>1, EmptySequence
              DEF ChannelInv, TypeOK, SenderTypeOK, SlotTypeOK, Limited
  <2>2. CASE ~InstallPending(s)
    BY <2>2 DEF ChannelInv, TypeOK, SlotTypeOK, Call, Acquire, FetchWriter,
                WriteCommand, Notified, AnswerTimeout
  <2>3. QED BY <2>1, <2>2
<1>6. WireTypeOK'
  <2>1. CASE WriteCommand(s)
    <3>1. cmd[s] \in Cmd
      BY <1>1, <2>1 DEF WriteCommand, Calling
    <3>2. owed' \in Seq(Cmd)
      BY <2>1, <3>1 DEF WriteCommand, ChannelInv, TypeOK, WireTypeOK
    <3>3. QED BY <2>1, <3>2 DEF WriteCommand, ChannelInv, TypeOK, WireTypeOK
  <2>2. CASE ~WriteCommand(s)
    BY <2>2 DEF ChannelInv, TypeOK, WireTypeOK, Call, Acquire, FetchWriter,
                InstallPending, Notified, AnswerTimeout
  <2>3. QED BY <2>1, <2>2
<1>7. HistoryTypeOK'
  <2>1. CASE Call(s)
    <3>1. sent + 1 \in Cmd /\ sent' \in 0..MaxSend
      BY <2>1, BoundsAssumption
      DEF Call, ChannelInv, TypeOK, HistoryTypeOK, Cmd
    <3>2. isLong' \subseteq Cmd
      BY <2>1, <3>1 DEF Call, ChannelInv, TypeOK, HistoryTypeOK
    <3>3. outcome' = outcome /\ resp' = resp /\ contended' = contended
          /\ broken' = broken
      BY <2>1 DEF Call
    <3>4. QED BY <3>1, <3>2, <3>3 DEF ChannelInv, TypeOK, HistoryTypeOK
  <2>2. CASE ~Call(s)
    BY <2>2 DEF ChannelInv, TypeOK, HistoryTypeOK, Acquire, FetchWriter,
                InstallPending, WriteCommand, Notified, AnswerTimeout
  <2>3. QED BY <2>1, <2>2
<1>8. LockHeld'
  BY SendersAssumption
  DEF ChannelInv, TypeOK, SenderTypeOK, LockHeld, Holding, Armed, Call, Acquire,
      FetchWriter, InstallPending, WriteCommand, Notified, AnswerTimeout
<1>9. CallsDistinct'
  <2>1. CASE Call(s)
    <3>1. sent \in Nat /\ sent' = sent + 1 /\ ~Calling(s)
          /\ pc' = [pc EXCEPT ![s] = "queued"]
          /\ cmd' = [cmd EXCEPT ![s] = sent + 1]
      BY <2>1, BoundsAssumption
      DEF Call, ChannelInv, TypeOK, HistoryTypeOK, Calling
    <3>2. \A u \in Senders : Calling(u) => cmd[u] \in 1..sent
      BY DEF ChannelInv, CallsDistinct
    <3>3. \A u, v \in Senders :
             Calling(u) /\ Calling(v) /\ u # v => cmd[u] # cmd[v]
      BY DEF ChannelInv, CallsDistinct
    <3>4. /\ pc'[s] = "queued" /\ cmd'[s] = sent + 1
          /\ \A u \in Senders : u # s => pc'[u] = pc[u] /\ cmd'[u] = cmd[u]
      BY <3>1 DEF ChannelInv, TypeOK, SenderTypeOK
    <3>5. \A u \in Senders : Calling(u)' => cmd'[u] \in 1..sent'
      BY <3>1, <3>2, <3>4 DEF Calling
    <3>6. \A u, v \in Senders :
             Calling(u)' /\ Calling(v)' /\ u # v => cmd'[u] # cmd'[v]
      BY <3>1, <3>2, <3>3, <3>4 DEF Calling
    <3>7. QED BY <3>5, <3>6 DEF CallsDistinct
  <2>2. CASE ~Call(s)
    BY <2>2 DEF ChannelInv, TypeOK, SenderTypeOK, CallsDistinct, Calling,
                Acquire, FetchWriter, InstallPending, WriteCommand, Notified,
                AnswerTimeout
  <2>3. QED BY <2>1, <2>2
<1>10. ArmedInSlot'
  <2> SUFFICES ASSUME NEW t \in Senders, pc'[t] \in Armed
               PROVE  slot' = cmd'[t] \/ cmd'[t] \in woken'
    BY DEF ArmedInSlot
  <2>1. CASE InstallPending(s) /\ t = s
    BY <2>1 DEF InstallPending
  <2>2. CASE InstallPending(s) /\ t # s
    <3>1. pc[t] \in Armed
      BY <2>2 DEF InstallPending, ChannelInv, TypeOK, SenderTypeOK
    <3>2. cmdMu = t /\ cmdMu = s
      BY <2>2, <3>1 DEF InstallPending, ChannelInv, LockHeld, Holding
    <3>3. QED BY <2>2, <3>2
  <2>3. CASE ~InstallPending(s)
    <3>1. pc[t] \in Armed /\ cmd'[t] = cmd[t]
      BY <2>3 DEF ChannelInv, TypeOK, SenderTypeOK, Armed, Call, Acquire,
                  FetchWriter, WriteCommand, Notified, AnswerTimeout
    <3>2. slot' = slot /\ woken' = woken
      BY <2>3 DEF Call, Acquire, FetchWriter, WriteCommand, Notified,
                  AnswerTimeout
    <3>3. QED BY <3>1, <3>2 DEF ChannelInv, ArmedInSlot
  <2>4. QED BY <2>1, <2>2, <2>3
<1>11. StalePendingWasContended'
  <2> SUFFICES ASSUME slot' # NoCmd, slot' \notin contended'
               PROVE  \E t \in Senders : /\ cmdMu' = t /\ pc'[t] \in Armed
                                         /\ cmd'[t] = slot'
    BY DEF StalePendingWasContended
  <2>1. CASE InstallPending(s)
    <3>1. cmdMu' = s /\ pc'[s] \in Armed /\ cmd'[s] = slot'
      BY <2>1 DEF InstallPending, ChannelInv, TypeOK, SenderTypeOK, LockHeld,
                  Holding, Armed
    <3>2. QED BY <3>1
  <2>2. CASE ~InstallPending(s)
    <3>1. slot' = slot /\ contended' = contended
      BY <2>2 DEF Call, Acquire, FetchWriter, WriteCommand, Notified,
                  AnswerTimeout
    <3>2. PICK t \in Senders : cmdMu = t /\ pc[t] \in Armed /\ cmd[t] = slot
      BY <3>1 DEF ChannelInv, StalePendingWasContended
    <3>3. cmdMu' = t /\ pc'[t] \in Armed /\ cmd'[t] = cmd[t]
      BY <2>2, <3>2, SendersAssumption
      DEF ChannelInv, TypeOK, SenderTypeOK, Armed, Call, Acquire, FetchWriter,
          WriteCommand, Notified, AnswerTimeout
    <3>4. QED BY <3>1, <3>2, <3>3
  <2>3. QED BY <2>1, <2>2
<1>12. QED BY <1>2, <1>3, <1>4, <1>5, <1>6, <1>7, <1>8, <1>9, <1>10, <1>11
           DEF ChannelInv, TypeOK

-----------------------------------------------------------------------------
(* The steps that belong to no call, and the theorems                      *)

LEMMA OtherSteps ==
  ASSUME ChannelInv,
         \/ RunLoop \/ Shutdown \/ Reader \/ Dispatch
         \/ CheckInterrupt \/ WriteInterrupt \/ Modem
  PROVE  ChannelInv'
<1> USE DEF senderVars, linkVars, histVars
<1>1. TypeOK'
  BY RunLoopType, ReaderType, ModemType DEF ChannelInv
<1>2. pc' = pc /\ cmd' = cmd /\ cmdMu' = cmdMu /\ sent' = sent
      /\ contended' = contended
  BY DEF RunLoop, OpenTransport, StartServing, ReadLoopEnds, LowerFlag,
         DropConnection, WakePending, JoinInit, Shutdown, Reader, ReaderLocks,
         HandleLine, Dispatch, CheckInterrupt, WriteInterrupt, Modem, ModemData,
         ModemFinal, ModemUnsolicited, LinkDies
<1>3. LockHeld' /\ CallsDistinct'
  BY <1>2 DEF ChannelInv, LockHeld, CallsDistinct, Calling
<1>4. slot' = slot \/ WakePending
  BY DEF RunLoop, OpenTransport, StartServing, ReadLoopEnds, LowerFlag,
         DropConnection, JoinInit, Shutdown, Reader, ReaderLocks,
         HandleLine, Dispatch, CheckInterrupt, WriteInterrupt, Modem, ModemData,
         ModemFinal, ModemUnsolicited, LinkDies
<1>5. woken \subseteq woken'
  BY DEF RunLoop, OpenTransport, StartServing, ReadLoopEnds, LowerFlag,
         DropConnection, WakePending, WokenByTeardown, JoinInit, Shutdown,
         Reader, ReaderLocks, HandleLine, Dispatch, CheckInterrupt,
         WriteInterrupt, Modem, ModemData, ModemFinal, ModemUnsolicited, LinkDies
<1>6. ArmedInSlot'
  <2> SUFFICES ASSUME NEW t \in Senders, pc[t] \in Armed
               PROVE  slot' = cmd[t] \/ cmd[t] \in woken'
    BY <1>2 DEF ArmedInSlot
  <2>1. slot = cmd[t] \/ cmd[t] \in woken
    BY DEF ChannelInv, ArmedInSlot
  <2>2. cmd[t] \in Cmd
    BY BoundsAssumption DEF ChannelInv, TypeOK, HistoryTypeOK, CallsDistinct,
                            Calling, Armed, Cmd
  <2>3. CASE slot' = slot
    BY <1>5, <2>1, <2>3
  <2>4. CASE WakePending
    <3>1. cmd[t] # NoCmd
      BY <2>2 DEF Cmd, NoCmd
    <3>2. woken' = WokenByTeardown
      BY <2>4 DEF WakePending
    <3>3. QED BY <2>1, <3>1, <3>2 DEF WokenByTeardown
  <2>5. QED BY <1>4, <2>3, <2>4
<1>7. StalePendingWasContended'
  <2>1. slot' = slot \/ slot' = NoCmd
    BY <1>4 DEF WakePending
  <2>2. QED BY <1>2, <2>1 DEF ChannelInv, StalePendingWasContended
<1>8. QED BY <1>1, <1>3, <1>6, <1>7 DEF ChannelInv

LEMMA InitInvariant == Init => ChannelInv
<1> SUFFICES ASSUME Init PROVE ChannelInv
  OBVIOUS
<1>1. TypeOK
  BY InitType
<1>2. LockHeld
  BY SendersAssumption DEF Init, LockHeld, Holding, Armed
<1>3. CallsDistinct /\ ArmedInSlot /\ StalePendingWasContended
  BY DEF Init, CallsDistinct, Calling, ArmedInSlot, Armed,
         StalePendingWasContended
<1>4. QED BY <1>1, <1>2, <1>3 DEF ChannelInv

LEMMA NextInvariant == ChannelInv /\ [Next]_vars => ChannelInv'
<1> SUFFICES ASSUME ChannelInv, [Next]_vars PROVE ChannelInv'
  OBVIOUS
<1>1. CASE RunLoop \/ Shutdown \/ Reader \/ Dispatch
           \/ CheckInterrupt \/ WriteInterrupt \/ Modem
  BY <1>1, OtherSteps
<1>2. ASSUME NEW s \in Senders, Sender(s) PROVE ChannelInv'
  BY <1>2, CallForward, EndOfCall DEF Sender, Proceed
<1>3. CASE UNCHANGED vars
  BY <1>3 DEF vars, senderVars, linkVars, histVars, ChannelInv, TypeOK,
              FlagTypeOK, LinkTypeOK, SenderTypeOK, SlotTypeOK, WireTypeOK,
              HistoryTypeOK, LockHeld, CallsDistinct, Calling, ArmedInSlot,
              StalePendingWasContended
<1>4. QED BY <1>1, <1>2, <1>3 DEF Next

\* In every behaviour of the channel one call at a time is past cmd_mu, its
\* command is in the pending slot or has been notified, and the slot holds
\* nothing else but the leftover of a contended drop.
THEOREM ChannelInvariant == Spec => []ChannelInv
<1>1. QED BY InitInvariant, NextInvariant, PTL DEF Spec

\* Type correctness, with the limits of the answer and of the URC queue.
THEOREM TypeCorrect == Spec => []TypeOK
<1>1. ChannelInv => TypeOK
  BY DEF ChannelInv
<1>2. QED BY <1>1, ChannelInvariant, PTL

\* No sender sleeps on an answer that can no longer wake it.
THEOREM NoWakeupLost == Spec => []NoLostWakeup
<1>1. ChannelInv => NoLostWakeup
  BY DEF ChannelInv, ArmedInSlot, NoLostWakeup, Armed
<1>2. QED BY <1>1, ChannelInvariant, PTL

\* Only a drop that met a taken lock leaves a command behind in the slot.
THEOREM StaleOnlyIfContended == Spec => []StalePendingWasContended
<1>1. ChannelInv => StalePendingWasContended
  BY DEF ChannelInv
<1>2. QED BY <1>1, ChannelInvariant, PTL

-----------------------------------------------------------------------------
(* The channel implements SerialCalls                                      *)

\* The steps that belong to no call are not seen by a caller.
LEMMA OtherStepsStutter ==
  ASSUME \/ RunLoop \/ Shutdown \/ Reader \/ Dispatch
         \/ CheckInterrupt \/ WriteInterrupt \/ Modem
  PROVE  UNCHANGED <<pc, cmd, sent, outcome>>
BY DEF RunLoop, OpenTransport, StartServing, ReadLoopEnds, LowerFlag,
       DropConnection, WakePending, JoinInit, Shutdown, Reader, ReaderLocks,
       HandleLine, Dispatch, CheckInterrupt, WriteInterrupt, Modem, ModemData,
       ModemFinal, ModemUnsolicited, LinkDies, senderVars, linkVars, histVars

\* A step that moves a call within one stage is not seen either.
LEMMA SameStage ==
  ASSUME ChannelInv, NEW s \in Senders,
         \/ FetchWriter(s) \/ InstallPending(s) \/ WriteCommand(s)
         \/ Notified(s) \/ AnswerTimeout(s)
  PROVE  UNCHANGED Calls!vars
<1>1. UNCHANGED <<cmd, sent, outcome>>
  BY DEF FetchWriter, InstallPending, WriteCommand, Notified, AnswerTimeout,
         histVars
<1>2. \A t \in Senders : Stage(t)' = Stage(t)
  BY DEF ChannelInv, TypeOK, SenderTypeOK, FetchWriter, InstallPending,
         WriteCommand, Notified, AnswerTimeout, Stage, Holding, Armed
<1>3. QED BY <1>1, <1>2 DEF Calls!vars

LEMMA CallAsks ==
  ASSUME ChannelInv, NEW s \in Senders, Call(s)
  PROVE  Calls!Ask(s)
<1>1. /\ pc[s] = "idle" /\ sent < MaxSend /\ sent' = sent + 1
      /\ cmd' = [cmd EXCEPT ![s] = sent + 1]
      /\ pc' = [pc EXCEPT ![s] = "queued"]
      /\ UNCHANGED outcome
  BY DEF Call
<1>2. \A t \in Senders : Stage(t)' = IF t = s THEN "asking" ELSE Stage(t)
  BY <1>1 DEF ChannelInv, TypeOK, SenderTypeOK, Stage, Holding,
         Armed
<1>3. Stage(s) = "idle"
  BY <1>1 DEF Stage, Holding, Armed
<1>4. QED BY <1>1, <1>2, <1>3 DEF Calls!Ask

LEMMA AcquireBegins ==
  ASSUME ChannelInv, NEW s \in Senders, Acquire(s)
  PROVE  Calls!Begin(s)
<1>1. /\ pc[s] = "queued" /\ cmdMu = NoSender
      /\ pc' = [pc EXCEPT ![s] = "locked"]
      /\ UNCHANGED <<cmd, sent, outcome>>
  BY DEF Acquire, histVars
<1>2. \A t \in Senders : Stage(t)' = IF t = s THEN "talking" ELSE Stage(t)
  BY <1>1 DEF ChannelInv, TypeOK, SenderTypeOK, Stage, Holding,
         Armed
<1>3. Stage(s) = "asking"
  BY <1>1 DEF Stage, Holding, Armed
<1>4. \A t \in Senders : Stage(t) # "talking"
  <2> SUFFICES ASSUME NEW t \in Senders, Stage(t) = "talking" PROVE FALSE
    OBVIOUS
  <2>1. pc[t] \in Holding
    BY DEF Stage
  <2>2. QED BY <1>1, <2>1, SendersAssumption DEF ChannelInv, LockHeld
<1>5. QED BY <1>1, <1>2, <1>3, <1>4 DEF Calls!Begin

\* However a call ends, a caller sees it end; it is answered or given up only
\* if it has held cmd_mu.
LEMMA ReturnEnds ==
  ASSUME ChannelInv, NEW s \in Senders,
         \/ QueueTimeout(s) \/ NoConnection(s) \/ WriteFails(s)
         \/ TakePending(s) \/ Cancel(s) \/ DropFuture(s)
  PROVE  Calls!End(s)
<1>1. PICK how, lines :
         /\ how \in {"ok", "unsent", "givenUp"}
         /\ Return(s, how, lines)
         /\ how = "unsent" \/ pc[s] \in Holding
  BY DEF QueueTimeout, NoConnection, WriteFails, TakePending, Cancel,
         DropFuture, Holding, Armed
<1>2. pc[s] # "idle"
  BY DEF QueueTimeout, NoConnection, WriteFails, TakePending, Cancel, DropFuture
<1>3. /\ pc' = [pc EXCEPT ![s] = "idle"]
      /\ cmd' = [cmd EXCEPT ![s] = 0]
      /\ sent' = sent
      /\ outcome' = [outcome EXCEPT ![cmd[s]] = how]
  BY <1>1 DEF Return, NoCmd
<1>4. \A t \in Senders : Stage(t)' = IF t = s THEN "idle" ELSE Stage(t)
  BY <1>3 DEF ChannelInv, TypeOK, SenderTypeOK, Stage, Holding,
         Armed
<1>5. /\ how \in {"ok", "unsent", "givenUp"}
      /\ Stage(s) # "idle" /\ (how = "unsent" \/ Stage(s) = "talking")
  BY <1>1, <1>2 DEF ChannelInv, TypeOK, SenderTypeOK, Stage, Holding
<1>6. QED BY <1>3, <1>4, <1>5 DEF Calls!End, Calls!Results

LEMMA StepImplements ==
  ASSUME ChannelInv, [Next]_vars
  PROVE  [Calls!Next]_Calls!vars
<1>1. CASE UNCHANGED vars
  BY <1>1 DEF vars, senderVars, histVars, Calls!vars, Stage
<1>2. CASE \/ RunLoop \/ Shutdown \/ Reader \/ Dispatch
           \/ CheckInterrupt \/ WriteInterrupt \/ Modem
  BY <1>2, OtherStepsStutter DEF Calls!vars, Stage
<1>3. ASSUME NEW s \in Senders, Sender(s)
      PROVE  [Calls!Next]_Calls!vars
  BY <1>3, SameStage, CallAsks, AcquireBegins, ReturnEnds
  DEF Sender, Proceed, Calls!Next
<1>4. QED BY <1>1, <1>2, <1>3 DEF Next

LEMMA InitImplements == Init => Calls!Init
BY DEF Init, Calls!Init, Stage, Holding, Armed, Cmd, NoCmd

\* The channel keeps the promise of SerialCalls, whatever the modem, the
\* transport, the timers and the interrupts do.
THEOREM ChannelImplementsCalls == Spec => ImplementsCalls
BY InitImplements, StepImplements, ChannelInvariant, PTL
DEF Spec, ImplementsCalls, Calls!Spec
-----------------------------------------------------------------------------
(* The connected flag                                                      *)

LEMMA FlagKept ==
  ASSUME TypeOK, FlagInv, [Next]_vars
  PROVE  FlagInv'
<1> USE DEF FlagInv, ConnectedImpliesConn
<1>1. CASE UNCHANGED <<run, conn, connected>>
  BY <1>1
<1>2. CASE OpenTransport
  <2>1. conn' # 0 /\ run' = "installed"
    BY <1>2 DEF OpenTransport, TypeOK, LinkTypeOK
  <2>2. QED BY <2>1
<1>3. CASE StartServing \/ ReadLoopEnds \/ LowerFlag \/ DropConnection
           \/ WakePending \/ JoinInit \/ Shutdown
  BY <1>3 DEF StartServing, ReadLoopEnds, LowerFlag, DropConnection,
              WakePending, JoinInit, Shutdown
<1>4. CASE \/ Reader \/ Dispatch \/ CheckInterrupt \/ WriteInterrupt \/ Modem
  <2>1. UNCHANGED <<run, conn, connected>>
    BY <1>4 DEF Reader, ReaderLocks, HandleLine, Dispatch, CheckInterrupt,
                WriteInterrupt, Modem, ModemData, ModemFinal, ModemUnsolicited,
                LinkDies, linkVars
  <2>2. QED BY <1>1, <2>1
<1>5. ASSUME NEW s \in Senders, Sender(s) PROVE FlagInv'
  <2>1. UNCHANGED <<run, conn, connected>>
    BY <1>5 DEF Sender, Call, Proceed, Acquire, QueueTimeout, FetchWriter,
                NoConnection, InstallPending, WriteCommand, WriteFails,
                Notified, AnswerTimeout, TakePending, Cancel, DropFuture,
                Return, linkVars
  <2>2. QED BY <1>1, <2>1
<1>6. QED BY <1>1, <1>2, <1>3, <1>4, <1>5 DEF Next, RunLoop, vars, linkVars

\* Whoever sees the flag up finds a connection.
THEOREM FlagMeansConnection == Spec => []ConnectedImpliesConn
<1>1. Init => FlagInv
  BY DEF Init, FlagInv, ConnectedImpliesConn
<1>2. FlagInv => ConnectedImpliesConn
  BY DEF FlagInv
<1>3. QED BY <1>1, <1>2, FlagKept, TypeCorrect, PTL DEF Spec

-----------------------------------------------------------------------------
(* A call that returns Ok has its terminator                               *)

LEMMA SlotOwner ==
  ASSUME ChannelInv, AnswerInv, NEW s \in Senders, Calling(s), slot = cmd[s]
  PROVE  pc[s] \in Armed
<1>1. cmd[s] # NoCmd /\ cmd[s] \notin contended
  BY DEF ChannelInv, CallsDistinct, AnswerInv, TypeOK, HistoryTypeOK, NoCmd
<1>2. PICK t \in Senders : cmdMu = t /\ pc[t] \in Armed /\ cmd[t] = slot
  BY <1>1 DEF ChannelInv, StalePendingWasContended
<1>3. t = s
  BY <1>2 DEF ChannelInv, CallsDistinct, Calling, Armed
<1>4. QED BY <1>2, <1>3

\* Only one call at a time is past cmd_mu.
LEMMA OneArmed ==
  ASSUME ChannelInv, NEW s \in Senders, NEW t \in Senders,
         pc[s] \in Holding, pc[t] \in Holding
  PROVE  s = t
BY DEF ChannelInv, LockHeld

LEMMA LineKeepsAnswers ==
  ASSUME ChannelInv, AnswerInv, HandleLine
  PROVE  AnswerInv'
<1> DEFINE line == Head(wire)
<1>1. /\ buf' = Appended(line) /\ slot' = slot
      /\ woken' = IF slot # NoCmd /\ line.kind = "final"
                  THEN woken \cup {slot} ELSE woken
      /\ UNCHANGED <<pc, cmd, answered, contended, sent, outcome, resp>>
  BY DEF HandleLine, senderVars, histVars
<1>2. line \in Line /\ buf \in Seq(Line) /\ MaxLines \in Nat
  BY BoundsAssumption DEF HandleLine, ChannelInv, TypeOK, WireTypeOK, SlotTypeOK
<1> HIDE DEF line
<1>3. Complete(buf) => Complete(buf')
  BY <1>1, <1>2 DEF Complete, HasFinal, Appended
<1>4. slot # NoCmd /\ line.kind = "final" => Complete(buf')
  BY <1>1, <1>2 DEF Complete, HasFinal, Appended
<1>5. slot = NoCmd => buf' = buf
  BY <1>1 DEF Appended
<1>6. ASSUME NEW s \in Senders, Calling(s), cmd[s] \in woken'
      PROVE  pc[s] \in Armed
  BY <1>1, <1>6, SlotOwner DEF AnswerInv
<1>7. ASSUME NEW s \in Senders, pc[s] \in Armed, cmd[s] \in woken' \/ answered[s]
      PROVE  (slot = NoCmd /\ buf' = <<>>) \/ Complete(buf')
  <2>1. CASE cmd[s] \in woken \/ answered[s]
    BY <1>3, <1>5, <1>7, <2>1 DEF AnswerInv
  <2>2. CASE cmd[s] \notin woken /\ ~answered[s]
    BY <1>1, <1>4, <1>7, <2>2
  <2>3. QED BY <2>1, <2>2
<1>8. contended' \cup woken' \cup {slot'} \subseteq 0..sent'
  BY <1>1 DEF AnswerInv
<1>9. QED BY <1>1, <1>6, <1>7, <1>8 DEF AnswerInv, Calling

LEMMA TeardownKeepsAnswers ==
  ASSUME ChannelInv, AnswerInv, WakePending
  PROVE  AnswerInv'
<1>1. /\ slot' = NoCmd /\ buf' = <<>> /\ woken' = WokenByTeardown
      /\ UNCHANGED <<pc, cmd, answered, contended, sent, outcome, resp>>
  BY DEF WakePending, senderVars, histVars
<1>2. ASSUME NEW s \in Senders, Calling(s), cmd[s] \in woken'
      PROVE  pc[s] \in Armed
  BY <1>1, <1>2, SlotOwner DEF AnswerInv, WokenByTeardown
<1>3. contended' \cup woken' \cup {slot'} \subseteq 0..sent'
  <2>1. sent \in Nat
    BY BoundsAssumption DEF ChannelInv, TypeOK, HistoryTypeOK
  <2>2. QED BY <1>1, <2>1 DEF AnswerInv, WokenByTeardown, NoCmd
<1>4. QED BY <1>1, <1>2, <1>3 DEF AnswerInv, Calling

LEMMA OthersKeepAnswers ==
  ASSUME ChannelInv, AnswerInv,
         \/ RunLoop \/ Shutdown \/ Reader \/ Dispatch
         \/ CheckInterrupt \/ WriteInterrupt \/ Modem
  PROVE  AnswerInv'
<1>1. CASE HandleLine
  BY <1>1, LineKeepsAnswers
<1>2. CASE WakePending
  BY <1>2, TeardownKeepsAnswers
<1>3. CASE ~HandleLine /\ ~WakePending
  <2>1. UNCHANGED <<slot, buf, woken, pc, cmd, answered, contended, sent,
                    outcome, resp>>
    BY <1>3 DEF RunLoop, OpenTransport, StartServing, ReadLoopEnds, LowerFlag,
       DropConnection, JoinInit, Shutdown, Reader, ReaderLocks, Dispatch,
       CheckInterrupt, WriteInterrupt, Modem, ModemData, ModemFinal,
       ModemUnsolicited, LinkDies, senderVars, histVars
  <2>2. QED BY <2>1 DEF AnswerInv, Calling
<1>4. QED BY <1>1, <1>2, <1>3

LEMMA ForwardKeepsAnswers ==
  ASSUME ChannelInv, AnswerInv, NEW s \in Senders,
         \/ Call(s) \/ Acquire(s) \/ FetchWriter(s) \/ InstallPending(s)
         \/ WriteCommand(s) \/ Notified(s) \/ AnswerTimeout(s)
  PROVE  AnswerInv'
<1>0. /\ pc \in [Senders -> {"idle", "queued", "locked", "fetched"} \cup Armed]
      /\ cmd \in [Senders -> Cmd \cup {NoCmd}]
      /\ answered \in [Senders -> BOOLEAN]
      /\ sent \in Nat
      /\ \A t \in Senders : Calling(t) => cmd[t] \in 1..sent
  BY BoundsAssumption DEF ChannelInv, TypeOK, SenderTypeOK, FlagTypeOK,
     HistoryTypeOK, CallsDistinct
<1>1. UNCHANGED <<contended, woken, outcome, resp>>
  BY DEF Call, Acquire, FetchWriter, InstallPending, WriteCommand, Notified,
         AnswerTimeout, histVars
<1>2. CASE Call(s)
  <2>1. /\ pc' = [pc EXCEPT ![s] = "queued"] /\ sent' = sent + 1
        /\ cmd' = [cmd EXCEPT ![s] = sent + 1]
        /\ UNCHANGED <<slot, buf, answered>> /\ pc[s] = "idle"
    BY <1>2 DEF Call
  <2>2. sent + 1 \notin contended /\ sent + 1 \notin woken
    BY <1>0 DEF AnswerInv
  <2>3. \A t \in Senders : t # s => pc'[t] = pc[t] /\ cmd'[t] = cmd[t]
    BY <1>0, <2>1
  <2>4. pc'[s] = "queued" /\ cmd'[s] = sent + 1
    BY <1>0, <2>1
  <2>5. contended' \cup woken' \cup {slot'} \subseteq 0..sent'
    BY <1>0, <1>1, <2>1 DEF AnswerInv
  <2>6. ~answered[s]
    BY <2>1 DEF AnswerInv
  <2>7. QED BY <1>0, <1>1, <2>1, <2>2, <2>3, <2>4, <2>5, <2>6
            DEF AnswerInv, Calling, Armed
<1>3. CASE Acquire(s) \/ FetchWriter(s) \/ WriteCommand(s)
  <2>1. UNCHANGED <<slot, buf, answered, cmd, sent>>
    BY <1>3 DEF Acquire, FetchWriter, WriteCommand, histVars
  <2>2. \A t \in Senders : t # s => pc'[t] = pc[t]
    BY <1>0, <1>3 DEF Acquire, FetchWriter, WriteCommand
  <2>3. /\ pc[s] # "idle" /\ pc[s] # "taking"
        /\ pc[s] \in Armed <=> pc'[s] \in Armed
    BY <1>0, <1>3 DEF Acquire, FetchWriter, WriteCommand, Armed
  <2>4. QED BY <1>0, <1>1, <2>1, <2>2, <2>3 DEF AnswerInv, Calling
<1>4. CASE InstallPending(s)
  <2>1. /\ slot' = cmd[s] /\ buf' = <<>> /\ pc' = [pc EXCEPT ![s] = "armed"]
        /\ UNCHANGED <<cmd, sent, answered>> /\ pc[s] = "fetched"
    BY <1>4 DEF InstallPending, histVars
  <2>2. cmd[s] \notin woken /\ ~answered[s] /\ cmd[s] \in 1..sent
    BY <1>0, <2>1 DEF AnswerInv, Armed, Calling
  <2>3. \A t \in Senders : t # s => pc'[t] = pc[t] /\ pc[t] \notin Armed
    BY <1>0, <2>1, OneArmed DEF Holding
  <2>4. pc'[s] = "armed"
    BY <1>0, <2>1
  <2>5. contended' \cup woken' \cup {slot'} \subseteq 0..sent'
    BY <1>0, <1>1, <2>1, <2>2 DEF AnswerInv
  <2>6. QED BY <1>0, <1>1, <2>1, <2>2, <2>3, <2>4, <2>5
            DEF AnswerInv, Calling, Armed
<1>5. CASE Notified(s) \/ AnswerTimeout(s)
  <2>1. /\ pc[s] = "waiting" /\ pc' = [pc EXCEPT ![s] = "taking"]
        /\ UNCHANGED <<slot, buf, cmd, sent>>
        /\ \A t \in Senders : t # s => answered'[t] = answered[t]
        /\ answered'[s] => cmd[s] \in woken
    BY <1>0, <1>5 DEF Notified, AnswerTimeout, TimeoutAnswer, histVars
  <2>2. \A t \in Senders : pc'[t] = IF t = s THEN "taking" ELSE pc[t]
    BY <1>0, <2>1
  <2>3. QED BY <1>0, <1>1, <2>1, <2>2 DEF AnswerInv, Calling, Armed
<1>6. QED BY <1>2, <1>3, <1>4, <1>5

LEMMA EndKeepsAnswers ==
  ASSUME ChannelInv, AnswerInv, NEW s \in Senders,
         \/ QueueTimeout(s) \/ NoConnection(s) \/ WriteFails(s)
         \/ TakePending(s) \/ Cancel(s) \/ DropFuture(s)
  PROVE  AnswerInv'
<1>0. /\ pc \in [Senders -> {"idle", "queued", "locked", "fetched"} \cup Armed]
      /\ cmd \in [Senders -> Cmd \cup {NoCmd}]
      /\ answered \in [Senders -> BOOLEAN]
      /\ sent \in Nat
      /\ outcome \in [Cmd -> {"none", "ok", "unsent", "givenUp"}]
      /\ resp \in [Cmd -> Seq(Line)]
      /\ contended \subseteq Cmd
  BY BoundsAssumption DEF ChannelInv, TypeOK, SenderTypeOK, FlagTypeOK,
     HistoryTypeOK
<1>1. Calling(s)
  BY DEF QueueTimeout, NoConnection, WriteFails, TakePending, Cancel,
         DropFuture, Calling
<1>2. cmd[s] \in 1..sent /\ cmd[s] \in Cmd
  BY <1>1, BoundsAssumption
  DEF ChannelInv, CallsDistinct, TypeOK, HistoryTypeOK, Cmd
<1>3. PICK how, lines :
         /\ how \in {"ok", "unsent", "givenUp"}
         /\ Return(s, how, lines)
         /\ how = "ok" => Complete(lines)
  <2>1. ASSUME TakePending(s), answered[s], buf # <<>>
        PROVE  Complete(buf)
    BY <2>1 DEF TakePending, AnswerInv, Armed
  <2>2. QED BY <2>1 DEF QueueTimeout, NoConnection, WriteFails, TakePending,
                        Cancel, DropFuture
<1>4. /\ pc' = [pc EXCEPT ![s] = "idle"]
      /\ cmd' = [cmd EXCEPT ![s] = NoCmd]
      /\ answered' = [answered EXCEPT ![s] = FALSE]
      /\ woken' = woken \ {cmd[s]}
      /\ outcome' = [outcome EXCEPT ![cmd[s]] = how]
      /\ resp' = [resp EXCEPT ![cmd[s]] = lines]
      /\ sent' = sent
  BY <1>3 DEF Return
<1>5. \A t \in Senders : t # s =>
         pc'[t] = pc[t] /\ cmd'[t] = cmd[t] /\ answered'[t] = answered[t]
  BY <1>0, <1>4
<1>6. pc'[s] = "idle" /\ ~answered'[s]
  BY <1>0, <1>4
<1>7. contended' \subseteq contended \cup {cmd[s]}
  BY DEF QueueTimeout, NoConnection, WriteFails, TakePending, Cancel, DropFuture
<1>8. \/ slot' = slot /\ buf' = buf
      \/ slot' = NoCmd /\ buf' = <<>>
  BY DEF QueueTimeout, NoConnection, WriteFails, TakePending, Cancel, DropFuture
<1>9. \A t \in Senders : Calling(t)' => t # s /\ Calling(t) /\ cmd[t] # cmd[s]
  BY <1>1, <1>5, <1>6 DEF Calling, ChannelInv, CallsDistinct
<1>10. \A t \in Senders : Calling(t)' => cmd'[t] \notin contended'
  BY <1>5, <1>7, <1>9 DEF AnswerInv
<1>11. \A t \in Senders : Calling(t)' /\ cmd'[t] \in woken' => pc'[t] \in Armed
  BY <1>4, <1>5, <1>9 DEF AnswerInv
<1>12. \A t \in Senders : answered'[t] => pc'[t] = "taking"
  BY <1>5, <1>6 DEF AnswerInv
<1>13. \A t \in Senders :
          pc'[t] \in Armed /\ (cmd'[t] \in woken' \/ answered'[t])
              => (slot' = NoCmd /\ buf' = <<>>) \/ Complete(buf')
  <2> SUFFICES ASSUME NEW t \in Senders, pc'[t] \in Armed,
                      cmd'[t] \in woken' \/ answered'[t]
               PROVE  (slot' = NoCmd /\ buf' = <<>>) \/ Complete(buf')
    OBVIOUS
  <2>1. t # s
    BY <1>6 DEF Armed
  <2>2. pc[t] \in Armed /\ (cmd[t] \in woken \/ answered[t])
    BY <1>4, <1>5, <2>1
  <2>3. (slot = NoCmd /\ buf = <<>>) \/ Complete(buf)
    BY <2>2 DEF AnswerInv
  <2>4. QED BY <1>8, <2>3
<1>14. contended' \cup woken' \cup {slot'} \subseteq 0..sent'
  BY <1>0, <1>2, <1>4, <1>7, <1>8 DEF AnswerInv, NoCmd
<1>15. \A c \in Cmd : outcome'[c] = "ok" => Complete(resp'[c])
  <2> SUFFICES ASSUME NEW c \in Cmd, outcome'[c] = "ok"
               PROVE  Complete(resp'[c])
    OBVIOUS
  <2>1. CASE c = cmd[s]
    BY <1>0, <1>3, <1>4, <2>1
  <2>2. CASE c # cmd[s]
    BY <1>0, <1>4, <2>2 DEF AnswerInv
  <2>3. QED BY <2>1, <2>2
<1>16. QED BY <1>10, <1>11, <1>12, <1>13, <1>14, <1>15
       DEF AnswerInv, Complete, HasFinal

\* Only the call in the slot is notified, and only over a complete answer or an
\* emptied slot.
THEOREM AnswersInvariant == Spec => []AnswerInv
<1>1. Init => AnswerInv
  BY DEF Init, AnswerInv, Calling, Armed, NoCmd, Cmd
<1>2. ChannelInv /\ AnswerInv /\ [Next]_vars => AnswerInv'
  <2> SUFFICES ASSUME ChannelInv, AnswerInv, [Next]_vars PROVE AnswerInv'
    OBVIOUS
  <2>1. CASE \/ RunLoop \/ Shutdown \/ Reader \/ Dispatch
             \/ CheckInterrupt \/ WriteInterrupt \/ Modem
    BY <2>1, OthersKeepAnswers
  <2>2. ASSUME NEW s \in Senders, Sender(s) PROVE AnswerInv'
    BY <2>2, ForwardKeepsAnswers, EndKeepsAnswers DEF Sender, Proceed
  <2>3. CASE UNCHANGED vars
    BY <2>3 DEF vars, senderVars, histVars, AnswerInv, Calling
  <2>4. QED BY <2>1, <2>2, <2>3 DEF Next
<1>3. QED BY <1>1, <1>2, ChannelInvariant, PTL DEF Spec

\* A call that returns Ok got a terminator, unless its answer is at the limit.
THEOREM AnswersAreComplete == Spec => []OkHasFinal
<1>1. TypeOK /\ AnswerInv => OkHasFinal
  <2> SUFFICES ASSUME TypeOK, AnswerInv, NEW c \in Cmd, outcome[c] = "ok",
                      Len(resp[c]) < MaxLines
               PROVE  HasFinal(resp[c])
    BY DEF OkHasFinal
  <2>1. resp[c] \in Seq(Line)
    BY DEF TypeOK, HistoryTypeOK
  <2>2. QED BY <2>1, BoundsAssumption DEF AnswerInv, Complete
<1>2. QED BY <1>1, AnswersInvariant, TypeCorrect, PTL

-----------------------------------------------------------------------------
(* An answer is made of the lines of its own command                       *)

\* The commands whose sender waits for the answer, or has just stopped waiting.
Awaited ==
    {c \in Cmd : \E s \in Senders : pc[s] \in {"waiting", "taking"} /\ cmd[s] = c}

IsAnswer(line) == line.kind \in {"data", "prompt", "final"}

\* The modem owes nothing, and no line of an answer is on its way.
Quiet == owed = <<>> /\ \A i \in 1..Len(wire) : ~IsAnswer(wire[i])

\* What is owed or on its way is the answer of a command that is awaited.
WireAwaited ==
    /\ \A i \in 1..Len(owed) : owed[i] \in Awaited
    /\ \A i \in 1..Len(wire) : IsAnswer(wire[i]) => wire[i].cmd \in Awaited

\* The modem owes one answer at most, and a terminator is the end of it.
OneAnswer ==
    /\ Len(owed) <= 1
    /\ \A i \in 1..Len(wire) : wire[i].kind = "final" =>
          owed = <<>> /\ \A j \in 1..Len(wire) : IsAnswer(wire[j]) => j <= i

\* The command in the slot is notified by the end of its answer.
SlotSettled == slot # NoCmd /\ slot \in woken => Quiet /\ slot \in Awaited

\* The lines that have come are those of the command in the slot.
BufOwn == /\ slot = NoCmd => buf = <<>>
          /\ \A i \in 1..Len(buf) : IsAnswer(buf[i]) => buf[i].cmd = slot

AnsweredWoken == \A s \in Senders : answered[s] => cmd[s] \in woken

ResultsOwn == \A c \in Cmd : outcome[c] = "ok" => Answers(resp[c], c)

\* Nobody has given up, and no interrupt reached an idle modem.
Clean == GivenUp = {} /\ NoCmd \notin broken

WireInv == /\ contended = {} /\ WireAwaited /\ OneAnswer /\ SlotSettled
           /\ BufOwn /\ AnsweredWoken /\ ResultsOwn

AlignInv == Clean => WireInv

\* A call that is under way has not ended yet, and no later one has.
StillOpen == /\ \A s \in Senders : Calling(s) => outcome[cmd[s]] = "none"
            /\ \A c \in Cmd : c > sent => outcome[c] = "none"

ChannelKnown == ChannelInv /\ AnswerInv /\ StillOpen

\* What the steps below need of the types.
LEMMA WireTypes ==
  ASSUME ChannelInv
  PROVE  /\ pc \in [Senders -> {"idle", "queued", "locked", "fetched"} \cup Armed]
         /\ cmd \in [Senders -> Cmd \cup {NoCmd}]
         /\ answered \in [Senders -> BOOLEAN]
         /\ sent \in Nat /\ sent <= MaxSend
         /\ outcome \in [Cmd -> {"none", "ok", "unsent", "givenUp"}]
         /\ resp \in [Cmd -> Seq(Line)] /\ buf \in Seq(Line)
         /\ owed \in Seq(Cmd) /\ wire \in Seq(Line)
BY BoundsAssumption
DEF ChannelInv, TypeOK, SenderTypeOK, FlagTypeOK, HistoryTypeOK, SlotTypeOK, WireTypeOK

LEMMA InFlight ==
  ASSUME ChannelInv, NEW s \in Senders, Calling(s)
  PROVE  cmd[s] \in 1..sent /\ cmd[s] \in Cmd /\ cmd[s] # NoCmd
BY WireTypes DEF ChannelInv, CallsDistinct, Cmd, NoCmd

\* Who holds the command lock and waits for no answer finds the wire quiet.
LEMMA QuietHolder ==
  ASSUME ChannelInv, WireAwaited, NEW s \in Senders,
         pc[s] \in {"locked", "fetched", "armed"}
  PROVE  Quiet /\ Awaited = {}
<1>1. Awaited = {}
  BY OneArmed DEF Awaited, Holding, Armed
<1>2. owed \in Seq(Cmd)
  BY WireTypes
<1>3. \A i \in 1..Len(owed) : FALSE
  BY <1>1 DEF WireAwaited
<1>4. owed = <<>>
  BY <1>2, <1>3
<1>5. \A i \in 1..Len(wire) : ~IsAnswer(wire[i])
  BY <1>1 DEF WireAwaited
<1>6. QED BY <1>1, <1>4, <1>5 DEF Quiet

\* The command in the slot is that of the call past cmd_mu.
LEMMA SlotHolder ==
  ASSUME ChannelInv, contended = {}, slot # NoCmd, NEW t \in Senders, pc[t] \in Holding
  PROVE  slot = cmd[t] /\ pc[t] \in Armed
<1>1. PICK u \in Senders : cmdMu = u /\ pc[u] \in Armed /\ cmd[u] = slot
  BY DEF ChannelInv, StalePendingWasContended
<1>2. pc[u] \in Holding
  BY <1>1 DEF Holding
<1>3. u = t
  BY <1>2, OneArmed
<1>4. QED BY <1>1, <1>3

\* Quiet is all that the wire must be.
LEMMA QuietWire == ASSUME Quiet PROVE WireAwaited /\ OneAnswer
<1>1. Len(owed) = 0 /\ \A i \in 1..Len(wire) : ~IsAnswer(wire[i])
  BY DEF Quiet
<1>2. \A i \in 1..Len(wire) : wire[i].kind # "final"
  BY <1>1 DEF IsAnswer
<1>3. WireAwaited BY <1>1 DEF WireAwaited
<1>4. OneAnswer BY <1>1, <1>2 DEF OneAnswer
<1>5. QED BY <1>3, <1>4

\* Steps that touch neither the wire nor the calls.
LEMMA ElsewhereKeepsWire ==
  ASSUME WireInv,
         UNCHANGED <<slot, buf, woken, pc, cmd, answered, owed, wire, outcome, resp,
                     contended>>
  PROVE  WireInv'
<1>1. Awaited' = Awaited
  BY DEF Awaited
<1>2. WireAwaited' /\ OneAnswer' /\ (Quiet => Quiet')
  BY <1>1 DEF WireInv, WireAwaited, OneAnswer, Quiet
<1>3. SlotSettled'
  BY <1>1, <1>2 DEF WireInv, SlotSettled
<1>4. BufOwn' /\ AnsweredWoken' /\ ResultsOwn'
  BY DEF WireInv, BufOwn, AnsweredWoken, ResultsOwn, Answers
<1>5. QED BY <1>2, <1>3, <1>4 DEF WireInv

\* The connection goes, and with it what was on the wire.
LEMMA DropKeepsWire ==
  ASSUME ChannelInv, WireInv, DropConnection
  PROVE  WireInv'
<1>1. /\ wire' = <<>> /\ (owed' = owed \/ owed' = <<>>)
      /\ UNCHANGED <<slot, buf, woken, pc, cmd, answered, outcome, resp, contended>>
  BY DEF DropConnection, senderVars, histVars
<1>2. Len(wire') = 0 /\ (Len(owed') = Len(owed) \/ Len(owed') = 0) /\ Len(owed) \in Nat
  BY <1>1, WireTypes
<1>3. Awaited' = Awaited
  BY <1>1 DEF Awaited
<1>4. WireAwaited' /\ OneAnswer'
  BY <1>1, <1>2, <1>3 DEF WireInv, WireAwaited, OneAnswer
<1>5. SlotSettled'
  BY <1>1, <1>2, <1>3 DEF WireInv, SlotSettled, Quiet
<1>6. BufOwn' /\ AnsweredWoken' /\ ResultsOwn'
  BY <1>1 DEF WireInv, BufOwn, AnsweredWoken, ResultsOwn, Answers
<1>7. QED BY <1>1, <1>4, <1>5, <1>6 DEF WireInv

\* Teardown empties the slot.
LEMMA WakeKeepsWire ==
  ASSUME WireInv, WakePending
  PROVE  WireInv'
<1>1. /\ slot' = NoCmd /\ buf' = <<>> /\ woken \subseteq woken'
      /\ UNCHANGED <<pc, cmd, answered, owed, wire, outcome, resp, contended>>
  BY DEF WakePending, WokenByTeardown, senderVars, histVars
<1>2. Awaited' = Awaited
  BY <1>1 DEF Awaited
<1>3. WireAwaited' /\ OneAnswer'
  BY <1>1, <1>2 DEF WireInv, WireAwaited, OneAnswer
<1>4. SlotSettled' /\ BufOwn'
  BY <1>1 DEF SlotSettled, BufOwn
<1>5. AnsweredWoken' /\ ResultsOwn'
  BY <1>1 DEF WireInv, AnsweredWoken, ResultsOwn, Answers
<1>6. QED BY <1>1, <1>3, <1>4, <1>5 DEF WireInv

\* A line is handled: it belongs to the command in the slot, and if it is a
\* terminator, nothing of the answer comes after it.
LEMMA LineKeepsWire ==
  ASSUME ChannelInv, WireInv, HandleLine
  PROVE  WireInv'
<1> DEFINE line == Head(wire)
<1>1. /\ buf' = Appended(line) /\ slot' = slot /\ wire' = Tail(wire)
      /\ woken' = IF slot # NoCmd /\ line.kind = "final"
                  THEN woken \cup {slot} ELSE woken
      /\ UNCHANGED <<pc, cmd, answered, contended, outcome, resp, owed>>
  BY DEF HandleLine, senderVars, histVars
<1>2. /\ wire \in Seq(Line) /\ wire # <<>> /\ buf \in Seq(Line) /\ MaxLines \in Nat
  BY WireTypes, BoundsAssumption DEF HandleLine
<1>3. /\ Len(wire) \in Nat \ {0} /\ Len(wire') = Len(wire) - 1 /\ line = wire[1]
      /\ \A i \in 1..Len(wire') : wire'[i] = wire[i + 1] /\ i + 1 \in 1..Len(wire)
  BY <1>1, <1>2
<1> HIDE DEF line
<1>4. Awaited' = Awaited
  BY <1>1 DEF Awaited
<1>5. WireAwaited'
  BY <1>1, <1>3, <1>4 DEF WireInv, WireAwaited
<1>6. OneAnswer'
  <2>1. ASSUME NEW i \in 1..Len(wire'), wire'[i].kind = "final",
               NEW j \in 1..Len(wire'), IsAnswer(wire'[j])
        PROVE  j <= i
    <3>1. j + 1 <= i + 1 BY <1>3, <2>1 DEF WireInv, OneAnswer
    <3>2. QED BY <3>1
  <2>2. ASSUME NEW i \in 1..Len(wire'), wire'[i].kind = "final" PROVE owed' = <<>>
    BY <1>1, <1>3, <2>2 DEF WireInv, OneAnswer
  <2>3. QED BY <1>1, <2>1, <2>2 DEF WireInv, OneAnswer
<1>7. Quiet => Quiet'
  BY <1>1, <1>3 DEF Quiet
<1>8. ASSUME slot # NoCmd, IsAnswer(line) PROVE slot \in Awaited /\ line.cmd = slot
  <2>1. line.cmd \in Awaited
    BY <1>3, <1>8 DEF WireInv, WireAwaited
  <2>2. PICK t \in Senders : pc[t] \in {"waiting", "taking"} /\ cmd[t] = line.cmd
    BY <2>1 DEF Awaited
  <2>3. pc[t] \in Holding /\ contended = {}
    BY <2>2 DEF Holding, Armed, WireInv
  <2>4. slot = cmd[t]
    BY <1>8, <2>3, SlotHolder
  <2>5. QED BY <2>1, <2>2, <2>4
<1>9. SlotSettled'
  <2>1. SUFFICES ASSUME slot # NoCmd, slot \in woken' PROVE Quiet' /\ slot' \in Awaited'
    BY <1>1 DEF SlotSettled
  <2>2. CASE slot \in woken
    <3>1. Quiet /\ slot \in Awaited BY <2>1, <2>2 DEF WireInv, SlotSettled
    <3>2. QED BY <1>1, <1>4, <1>7, <3>1
  <2>3. CASE slot \notin woken
    <3>1. line.kind = "final" /\ IsAnswer(line)
      BY <1>1, <2>1, <2>3 DEF IsAnswer
    <3>2. owed' = <<>> /\ \A j \in 1..Len(wire) : IsAnswer(wire[j]) => j <= 1
      BY <1>1, <1>3, <3>1 DEF WireInv, OneAnswer
    <3>3. \A j \in 1..Len(wire') : ~IsAnswer(wire'[j])
      BY <1>3, <3>2
    <3>4. Quiet' BY <3>2, <3>3 DEF Quiet
    <3>5. QED BY <1>1, <1>4, <1>8, <2>1, <3>1, <3>4
  <2>4. QED BY <2>2, <2>3
<1>10. BufOwn'
  <2>1. BufOwn BY DEF WireInv
  <2>2. CASE slot # NoCmd /\ buf' = Append(buf, line)
    <3>1. buf' = Append(buf, line) BY <2>2
    <3>2. \A i \in 1..Len(buf') : buf'[i] = line \/ (i \in 1..Len(buf) /\ buf'[i] = buf[i])
      BY <1>2, <3>1
    <3>3. QED BY <1>1, <1>8, <2>1, <2>2, <3>2 DEF BufOwn
  <2>3. CASE buf' = buf
    BY <1>1, <2>1, <2>3 DEF BufOwn
  <2>4. QED BY <1>1, <2>2, <2>3 DEF Appended
<1>11. AnsweredWoken' /\ ResultsOwn'
  BY <1>1 DEF WireInv, AnsweredWoken, ResultsOwn, Answers
<1>12. QED BY <1>1, <1>5, <1>6, <1>9, <1>10, <1>11 DEF WireInv

\* A line goes onto the wire, or is lost on a dead one.
LEMMA Arrived ==
  ASSUME ChannelInv, NEW line \in Line, wire' = Append(wire, line)
  PROVE  /\ Len(wire) \in Nat /\ Len(wire') = Len(wire) + 1 /\ wire'[Len(wire) + 1] = line
         /\ \A i \in 1..Len(wire) : wire'[i] = wire[i]
         /\ \A i \in 1..Len(wire') : i \in 1..Len(wire) \/ i = Len(wire) + 1
<1>1. wire \in Seq(Line)
  BY WireTypes
<1>2. QED BY <1>1

\* The modem answers the command it owes, line by line up to the terminator.
LEMMA ModemKeepsWire ==
  ASSUME ChannelInv, WireInv, NEW line \in Line,
         wire' = Append(wire, line) \/ wire' = wire,
         IsAnswer(line) => owed # <<>> /\ line.cmd = Head(owed),
         \/ line.kind # "final" /\ owed' = owed
         \/ owed # <<>> /\ owed' = Tail(owed),
         UNCHANGED <<slot, buf, woken, pc, cmd, answered, contended, outcome, resp>>
  PROVE  WireInv'
<1>1. Awaited' = Awaited
  BY DEF Awaited
<1>2. owed \in Seq(Cmd) /\ Len(owed) <= 1
  BY WireTypes DEF WireInv, OneAnswer
<1>3. owed # <<>> => Len(owed) = 1 /\ Head(owed) = owed[1] /\ Tail(owed) = <<>>
  <2>1. SUFFICES ASSUME owed # <<>> PROVE Len(owed) = 1 /\ Tail(owed) = <<>>
    OBVIOUS
  <2>2. Tail(owed) \in Seq(Cmd) /\ Len(Tail(owed)) = Len(owed) - 1
    BY <1>2, <2>1, HeadTailProperties
  <2>3. Len(owed) # 0 /\ Len(owed) \in Nat
    BY <1>2, <2>1, EmptySeq, LenProperties, Zenon
  <2>4. Len(owed) = 1 /\ Len(Tail(owed)) = 0
    BY <1>2, <2>2, <2>3
  <2>5. Tail(owed) = <<>>
    BY <2>2, <2>4, EmptySeq, Zenon
  <2>6. QED BY <2>4, <2>5
<1>4. owed' = owed \/ owed' = <<>>
  BY <1>3
<1>5. (\A i \in 1..Len(owed') : owed'[i] \in Awaited') /\ Len(owed') <= 1
  BY <1>1, <1>2, <1>4 DEF WireInv, WireAwaited
<1>6. \A i \in 1..Len(wire) : IsAnswer(wire[i]) => wire[i].cmd \in Awaited
  BY DEF WireInv, WireAwaited
<1>7. IsAnswer(line) => line.cmd \in Awaited /\ \A i \in 1..Len(wire) : wire[i].kind # "final"
  BY <1>3 DEF WireInv, WireAwaited, OneAnswer
<1>8. WireAwaited'
  <2>1. CASE wire' = wire
    BY <1>1, <1>5, <1>6, <2>1 DEF WireAwaited
  <2>2. CASE wire' = Append(wire, line)
    BY <1>1, <1>5, <1>6, <1>7, <2>2, Arrived DEF WireAwaited
  <2>3. QED BY <2>1, <2>2
<1>9. OneAnswer'
  <2>1. CASE wire' = wire
    BY <1>4, <1>5, <2>1 DEF WireInv, OneAnswer
  <2>2. CASE wire' = Append(wire, line)
    <3>1. ASSUME NEW i \in 1..Len(wire'), wire'[i].kind = "final"
          PROVE  owed' = <<>> /\ \A j \in 1..Len(wire') : IsAnswer(wire'[j]) => j <= i
      <4>1. CASE i = Len(wire) + 1
        <5>1. line.kind = "final" /\ IsAnswer(line)
          BY <2>2, <3>1, <4>1, Arrived DEF IsAnswer
        <5>2. owed' = <<>> BY <1>3, <5>1
        <5>3. QED BY <2>2, <4>1, <5>2, Arrived
      <4>2. CASE i \in 1..Len(wire)
        <5>1. wire[i].kind = "final" BY <2>2, <3>1, <4>2, Arrived
        <5>2. owed = <<>> /\ \A j \in 1..Len(wire) : IsAnswer(wire[j]) => j <= i
          BY <4>2, <5>1 DEF WireInv, OneAnswer
        <5>3. ~IsAnswer(line) BY <5>2
        <5>4. QED BY <1>4, <2>2, <5>2, <5>3, Arrived
      <4>3. QED BY <2>2, <4>1, <4>2, Arrived
    <3>2. QED BY <1>5, <3>1 DEF OneAnswer
  <2>3. QED BY <2>1, <2>2
<1>10. Quiet => Quiet'
  <2>1. SUFFICES ASSUME Quiet PROVE Quiet'
    OBVIOUS
  <2>2. owed = <<>> /\ owed' = <<>> /\ ~IsAnswer(line)
    BY <1>4, <2>1 DEF Quiet
  <2>3. CASE wire' = wire
    BY <2>1, <2>2, <2>3 DEF Quiet
  <2>4. CASE wire' = Append(wire, line)
    BY <2>1, <2>2, <2>4, Arrived DEF Quiet
  <2>5. QED BY <2>3, <2>4
<1>11. SlotSettled'
  BY <1>1, <1>10 DEF WireInv, SlotSettled
<1>12. BufOwn' /\ AnsweredWoken' /\ ResultsOwn'
  BY DEF WireInv, BufOwn, AnsweredWoken, ResultsOwn, Answers
<1>13. QED BY <1>8, <1>9, <1>11, <1>12 DEF WireInv

\* A call that starts, or gets the lock and the writer, waits for nothing yet.
LEMMA StartKeepsWire ==
  ASSUME ChannelKnown, WireInv, NEW s \in Senders,
         Call(s) \/ Acquire(s) \/ FetchWriter(s)
  PROVE  WireInv'
<1>1. /\ UNCHANGED <<slot, buf, woken, answered, owed, wire, outcome, resp, contended>>
      /\ pc[s] \in {"idle", "queued", "locked"}
      /\ \E p \in {"queued", "locked", "fetched"} : pc' = [pc EXCEPT ![s] = p]
      /\ cmd' = cmd \/ \E c : cmd' = [cmd EXCEPT ![s] = c]
  BY DEF Call, Acquire, FetchWriter, histVars
<1>2. /\ pc'[s] \in {"queued", "locked", "fetched"}
      /\ \A t \in Senders : t # s => pc'[t] = pc[t] /\ cmd'[t] = cmd[t]
  BY <1>1, WireTypes DEF ChannelKnown
<1>3. Awaited' = Awaited
  BY <1>1, <1>2 DEF Awaited
<1>4. WireAwaited' /\ OneAnswer'
  BY <1>1, <1>3 DEF WireInv, WireAwaited, OneAnswer
<1>5. SlotSettled'
  BY <1>1, <1>3 DEF WireInv, SlotSettled, Quiet
<1>6. AnsweredWoken'
  BY <1>1, <1>2 DEF WireInv, AnsweredWoken, ChannelKnown, AnswerInv
<1>7. BufOwn' /\ ResultsOwn'
  BY <1>1 DEF WireInv, BufOwn, ResultsOwn, Answers
<1>8. QED BY <1>1, <1>4, <1>5, <1>6, <1>7 DEF WireInv

\* The next command enters the slot; nothing of an earlier answer is under way.
LEMMA InstallKeepsWire ==
  ASSUME ChannelKnown, WireInv, NEW s \in Senders, InstallPending(s)
  PROVE  WireInv'
<1>1. /\ slot' = cmd[s] /\ buf' = <<>> /\ pc[s] = "fetched"
      /\ pc' = [pc EXCEPT ![s] = "armed"]
      /\ UNCHANGED <<cmd, woken, answered, owed, wire, outcome, resp, contended>>
  BY DEF InstallPending, histVars
<1>2. pc'[s] = "armed" /\ \A t \in Senders : t # s => pc'[t] = pc[t]
  BY <1>1, WireTypes DEF ChannelKnown
<1>3. Awaited' = Awaited
  BY <1>1, <1>2 DEF Awaited
<1>4. WireAwaited' /\ OneAnswer'
  BY <1>1, <1>3 DEF WireInv, WireAwaited, OneAnswer
<1>5. slot' \notin woken'
  BY <1>1 DEF ChannelKnown, AnswerInv, Calling, Armed
<1>6. SlotSettled'
  BY <1>5 DEF SlotSettled
<1>7. BufOwn' /\ ResultsOwn' /\ AnsweredWoken'
  BY <1>1 DEF WireInv, BufOwn, ResultsOwn, Answers, AnsweredWoken
<1>8. QED BY <1>1, <1>4, <1>6, <1>7 DEF WireInv

\* The command is written: from here on its answer is awaited.
LEMMA WriteKeepsWire ==
  ASSUME ChannelKnown, WireInv, NEW s \in Senders, WriteCommand(s)
  PROVE  WireInv'
<1>1. /\ pc[s] = "armed" /\ pc' = [pc EXCEPT ![s] = "waiting"]
      /\ owed' = owed \/ owed' = Append(owed, cmd[s])
      /\ UNCHANGED <<cmd, slot, buf, woken, answered, wire, outcome, resp, contended>>
  BY DEF WriteCommand, histVars
<1>2. pc'[s] = "waiting" /\ cmd'[s] = cmd[s] /\ cmd[s] \in Cmd
  BY <1>1, WireTypes, InFlight DEF ChannelKnown, Calling
<1>3. Quiet /\ Awaited = {}
  BY <1>1, QuietHolder DEF ChannelKnown, WireInv
<1>4. cmd[s] \in Awaited'
  BY <1>2 DEF Awaited
<1>5. \A i \in 1..Len(wire') : ~IsAnswer(wire'[i])
  BY <1>1, <1>3 DEF Quiet
<1>6. owed' = <<>> \/ owed' = <<cmd[s]>>
  BY <1>1, <1>3 DEF Quiet
<1>7. Len(owed') <= 1 /\ \A i \in 1..Len(owed') : owed'[i] = cmd[s]
  <2>1. CASE owed' = <<>> BY <2>1
  <2>2. CASE owed' = <<cmd[s]>>
    <3>1. Len(owed') = 1 /\ owed'[1] = cmd[s] BY <2>2
    <3>2. QED BY <3>1
  <2>3. QED BY <1>6, <2>1, <2>2
<1>8. WireAwaited'
  BY <1>4, <1>5, <1>7 DEF WireAwaited
<1>9. OneAnswer'
  BY <1>5, <1>7 DEF OneAnswer, IsAnswer
<1>10. ~(slot # NoCmd /\ slot \in woken)
  BY <1>3 DEF WireInv, SlotSettled
<1>11. SlotSettled'
  BY <1>1, <1>10 DEF SlotSettled
<1>12. BufOwn' /\ ResultsOwn' /\ AnsweredWoken'
  BY <1>1 DEF WireInv, BufOwn, ResultsOwn, Answers, AnsweredWoken
<1>13. QED BY <1>1, <1>8, <1>9, <1>11, <1>12 DEF WireInv

\* The sender wakes up; it has still to take the slot.
LEMMA WakingKeepsWire ==
  ASSUME ChannelKnown, WireInv, NEW s \in Senders, Notified(s) \/ AnswerTimeout(s)
  PROVE  WireInv'
<1>1. /\ pc[s] = "waiting" /\ pc' = [pc EXCEPT ![s] = "taking"]
      /\ \/ answered' = [answered EXCEPT ![s] = TRUE] /\ cmd[s] \in woken
         \/ answered' = [answered EXCEPT ![s] = FALSE]
      /\ UNCHANGED <<cmd, slot, buf, woken, owed, wire, outcome, resp, contended>>
  BY DEF Notified, AnswerTimeout, TimeoutAnswer, histVars
<1>2. pc'[s] = "taking" /\ \A t \in Senders : t # s => pc'[t] = pc[t]
  BY <1>1, WireTypes DEF ChannelKnown
<1>3. Awaited' = Awaited
  BY <1>1, <1>2 DEF Awaited
<1>4. WireAwaited' /\ OneAnswer'
  BY <1>1, <1>3 DEF WireInv, WireAwaited, OneAnswer
<1>5. SlotSettled'
  BY <1>1, <1>3 DEF WireInv, SlotSettled, Quiet
<1>6. AnsweredWoken'
  <2>1. \A t \in Senders : t # s => answered'[t] = answered[t]
    BY <1>1, WireTypes DEF ChannelKnown
  <2>2. answered'[s] => cmd[s] \in woken
    BY <1>1, WireTypes DEF ChannelKnown
  <2>3. QED BY <1>1, <2>1, <2>2 DEF WireInv, AnsweredWoken
<1>7. BufOwn' /\ ResultsOwn'
  BY <1>1 DEF WireInv, BufOwn, ResultsOwn, Answers
<1>8. QED BY <1>1, <1>4, <1>5, <1>6, <1>7 DEF WireInv

\* A call that ends before its command was written leaves the wire alone; one
\* that ends with its answer has seen the end of it. The others give up.
LEMMA EndKeepsWire ==
  ASSUME ChannelKnown, WireInv, GivenUp' = {}, NEW s \in Senders,
         \/ QueueTimeout(s) \/ NoConnection(s) \/ WriteFails(s)
         \/ TakePending(s) \/ Cancel(s) \/ DropFuture(s)
  PROVE  WireInv'
<1>1. Calling(s)
  BY DEF QueueTimeout, NoConnection, WriteFails, TakePending, Cancel,
         DropFuture, Calling
<1>2. cmd[s] \in Cmd
  BY <1>1, InFlight DEF ChannelKnown
<1>3. PICK how, lines :
         /\ Return(s, how, lines)
         /\ \/ how = "unsent" /\ pc[s] \notin {"waiting", "taking"}
               /\ contended' = contended
            \/ how = "ok" /\ pc[s] = "taking" /\ answered[s] /\ lines = buf
               /\ buf # <<>> /\ slot' = NoCmd /\ contended' = contended
            \/ how = "givenUp"
         /\ \/ slot' = slot /\ buf' = buf
            \/ slot' = NoCmd /\ buf' = <<>>
  BY DEF QueueTimeout, NoConnection, WriteFails, TakePending, Cancel, DropFuture,
         Armed
<1>4. /\ pc' = [pc EXCEPT ![s] = "idle"] /\ cmd' = [cmd EXCEPT ![s] = NoCmd]
      /\ answered' = [answered EXCEPT ![s] = FALSE]
      /\ woken' = woken \ {cmd[s]} /\ owed' = owed /\ wire' = wire
      /\ outcome' = [outcome EXCEPT ![cmd[s]] = how]
      /\ resp' = [resp EXCEPT ![cmd[s]] = lines]
  BY <1>3 DEF Return
<1>5. /\ pc'[s] = "idle" /\ ~answered'[s]
      /\ \A t \in Senders : t # s =>
            pc'[t] = pc[t] /\ cmd'[t] = cmd[t] /\ answered'[t] = answered[t]
  BY <1>4, WireTypes DEF ChannelKnown
<1>6. /\ outcome'[cmd[s]] = how /\ resp'[cmd[s]] = lines
      /\ \A c \in Cmd : c # cmd[s] => outcome'[c] = outcome[c] /\ resp'[c] = resp[c]
  BY <1>2, <1>4, WireTypes DEF ChannelKnown
<1>7. how # "givenUp"
  BY <1>2, <1>6 DEF GivenUp
<1>8. AnsweredWoken'
  <2>1. SUFFICES ASSUME NEW t \in Senders, answered'[t] PROVE cmd'[t] \in woken'
    BY DEF AnsweredWoken
  <2>2. t # s /\ answered[t] /\ cmd'[t] = cmd[t]
    BY <1>5, <2>1
  <2>3. Calling(t) /\ cmd[t] \in woken
    BY <2>2 DEF ChannelKnown, AnswerInv, WireInv, AnsweredWoken, Calling
  <2>4. QED BY <1>1, <1>4, <2>2, <2>3 DEF ChannelKnown, ChannelInv, CallsDistinct
<1>9. BufOwn'
  BY <1>3 DEF WireInv, BufOwn
<1>10. contended' = {}
  BY <1>3, <1>7 DEF WireInv
<1>11. CASE how = "unsent"
  <2>1. pc[s] \notin {"waiting", "taking"}
    BY <1>3, <1>11
  <2>2. Awaited' = Awaited
    BY <1>5, <2>1 DEF Awaited
  <2>3. WireAwaited' /\ OneAnswer'
    BY <1>4, <2>2 DEF WireInv, WireAwaited, OneAnswer
  <2>4. SlotSettled'
    BY <1>3, <1>4, <2>2 DEF WireInv, SlotSettled, Quiet
  <2>5. ResultsOwn'
    BY <1>6, <1>11 DEF WireInv, ResultsOwn
  <2>6. QED BY <1>8, <1>9, <1>10, <2>3, <2>4, <2>5 DEF WireInv
<1>12. CASE how = "ok"
  <2>1. /\ pc[s] = "taking" /\ answered[s] /\ lines = buf /\ slot # NoCmd
        /\ slot' = NoCmd
    BY <1>3, <1>12 DEF WireInv, BufOwn
  <2>2. slot = cmd[s]
    BY <2>1, SlotHolder DEF ChannelKnown, WireInv, Holding, Armed
  <2>3. Quiet
    BY <2>1, <2>2 DEF WireInv, AnsweredWoken, SlotSettled
  <2>4. Len(owed') = 0 /\ \A i \in 1..Len(wire') : ~IsAnswer(wire'[i])
    BY <1>4, <2>3 DEF Quiet
  <2>5. WireAwaited'
    BY <2>4 DEF WireAwaited
  <2>6. OneAnswer'
    BY <2>4 DEF OneAnswer, IsAnswer
  <2>7. SlotSettled'
    BY <2>1 DEF SlotSettled
  <2>8. ResultsOwn'
    <3>1. Answers(buf, cmd[s])
      BY <2>2 DEF WireInv, BufOwn, Answers, IsAnswer
    <3>2. QED BY <1>6, <2>1, <3>1 DEF WireInv, ResultsOwn
  <2>9. QED BY <1>8, <1>9, <1>10, <2>5, <2>6, <2>7, <2>8 DEF WireInv
<1>13. QED BY <1>3, <1>7, <1>11, <1>12

\* The modem, and an interrupt that meets a command at work.
LEMMA ModemSideKeepsWire ==
  ASSUME ChannelKnown, WireInv, NoCmd \notin broken',
         Modem \/ CheckInterrupt \/ WriteInterrupt
  PROVE  WireInv'
<1>1. ChannelInv /\ owed \in Seq(Cmd)
  BY WireTypes DEF ChannelKnown
<1>2. owed # <<>> => Head(owed) \in Cmd
  BY <1>1
<1>3. CASE ModemData
  <2>0. PICK k \in {"data", "prompt"} : Arrives([kind |-> k, cmd |-> Head(owed)])
    BY <1>3 DEF ModemData
  <2> DEFINE line == [kind |-> k, cmd |-> Head(owed)]
  <2>1. /\ wire' = Append(wire, line) \/ wire' = wire
        /\ owed # <<>> /\ owed' = owed
        /\ UNCHANGED <<slot, buf, woken, pc, cmd, answered, contended, outcome, resp>>
    BY <1>3, <2>0 DEF ModemData, Arrives, senderVars, histVars
  <2>2. line \in Line /\ line.cmd = Head(owed) /\ line.kind # "final"
    BY <1>2, <2>1 DEF Line
  <2> HIDE DEF line
  <2>3. QED BY <1>1, <2>1, <2>2, ModemKeepsWire
<1>4. CASE ModemFinal
  <2> DEFINE line == [kind |-> "final", cmd |-> Head(owed)]
  <2>1. /\ wire' = Append(wire, line) \/ wire' = wire
        /\ owed # <<>> /\ owed' = Tail(owed)
        /\ UNCHANGED <<slot, buf, woken, pc, cmd, answered, contended, outcome, resp>>
    BY <1>4 DEF ModemFinal, Arrives, senderVars, histVars
  <2>2. line \in Line /\ line.cmd = Head(owed)
    BY <1>2, <2>1 DEF Line
  <2> HIDE DEF line
  <2>3. QED BY <1>1, <2>1, <2>2, ModemKeepsWire
<1>5. CASE ModemUnsolicited
  <2>1. PICK k \in {"urc", "info"} : Arrives([kind |-> k, cmd |-> NoCmd])
    BY <1>5 DEF ModemUnsolicited
  <2> DEFINE line == [kind |-> k, cmd |-> NoCmd]
  <2>2. /\ wire' = Append(wire, line) \/ wire' = wire
        /\ owed' = owed
        /\ UNCHANGED <<slot, buf, woken, pc, cmd, answered, contended, outcome, resp>>
    BY <1>5, <2>1 DEF ModemUnsolicited, Arrives, senderVars, histVars
  <2>3. line \in Line /\ ~IsAnswer(line) /\ line.kind # "final"
    BY DEF Line, IsAnswer
  <2> HIDE DEF line
  <2>4. QED BY <1>1, <2>2, <2>3, ModemKeepsWire
<1>6. CASE LinkDies \/ CheckInterrupt
  <2>1. UNCHANGED <<slot, buf, woken, pc, cmd, answered, owed, wire, outcome, resp,
                    contended>>
    BY <1>6 DEF LinkDies, CheckInterrupt, senderVars, histVars
  <2>2. QED BY <2>1, ElsewhereKeepsWire
<1>7. CASE WriteInterrupt
  <2>1. UNCHANGED <<slot, buf, woken, pc, cmd, answered, contended, outcome, resp>>
    BY <1>7 DEF WriteInterrupt, senderVars, histVars
  <2>2. CASE UNCHANGED <<owed, wire>>
    BY <2>1, <2>2, ElsewhereKeepsWire
  <2>3. CASE ~UNCHANGED <<owed, wire>>
    <3> DEFINE line == [kind |-> "final", cmd |-> Head(owed)]
    <3>1. owed # <<>> /\ wire' = Append(wire, line) /\ owed' = Tail(owed)
      BY <1>7, <2>3 DEF WriteInterrupt
    <3>2. line \in Line /\ line.cmd = Head(owed)
      BY <1>2, <3>1 DEF Line
    <3> HIDE DEF line
    <3>3. QED BY <1>1, <2>1, <3>1, <3>2, ModemKeepsWire
  <2>4. QED BY <2>2, <2>3
<1>8. QED BY <1>3, <1>4, <1>5, <1>6, <1>7 DEF Modem

\* No step changes how a call ended.
OutcomesStay == \A c \in Cmd : outcome[c] # "none" => outcome'[c] = outcome[c]

\* A call ends once, and what has been given up or broken stays so.
LEMMA EndsKept ==
  ASSUME ChannelKnown, [Next]_vars
  PROVE  StillOpen' /\ OutcomesStay /\ (Clean' => Clean)
<1>1. ASSUME UNCHANGED <<pc, cmd, sent, outcome>>, broken \subseteq broken'
      PROVE  StillOpen' /\ OutcomesStay /\ (Clean' => Clean)
  BY <1>1 DEF ChannelKnown, StillOpen, OutcomesStay, Clean, GivenUp, Calling
<1>2. CASE \/ RunLoop \/ Shutdown \/ Reader \/ Dispatch
           \/ CheckInterrupt \/ WriteInterrupt \/ Modem
  <2>1. broken \subseteq broken'
    BY <1>2 DEF RunLoop, OpenTransport, StartServing, ReadLoopEnds, LowerFlag,
       DropConnection, WakePending, JoinInit, Shutdown, Reader, ReaderLocks,
       HandleLine, Dispatch, CheckInterrupt, WriteInterrupt, Modem, ModemData,
       ModemFinal, ModemUnsolicited, LinkDies
  <2>2. QED BY <1>1, <1>2, <2>1, OtherStepsStutter
<1>3. CASE UNCHANGED vars
  BY <1>1, <1>3 DEF vars, senderVars, histVars
<1>4. ASSUME NEW s \in Senders, Call(s)
      PROVE  StillOpen' /\ OutcomesStay /\ (Clean' => Clean)
  <2>1. /\ pc' = [pc EXCEPT ![s] = "queued"] /\ cmd' = [cmd EXCEPT ![s] = sent + 1]
        /\ sent' = sent + 1 /\ sent < MaxSend /\ UNCHANGED <<outcome, broken>>
    BY <1>4 DEF Call
  <2>2. /\ sent \in Nat /\ MaxSend \in Nat
        /\ pc'[s] = "queued" /\ cmd'[s] = sent + 1
        /\ \A t \in Senders : t # s => pc'[t] = pc[t] /\ cmd'[t] = cmd[t]
    BY <2>1, WireTypes, BoundsAssumption DEF ChannelKnown
  <2>3. sent + 1 \in Cmd /\ outcome[sent + 1] = "none"
    BY <2>1, <2>2 DEF ChannelKnown, StillOpen, Cmd
  <2>4. \A t \in Senders : Calling(t)' => outcome'[cmd'[t]] = "none"
    BY <2>1, <2>2, <2>3 DEF ChannelKnown, StillOpen, Calling
  <2>5. \A c \in Cmd : c > sent' => outcome'[c] = "none"
    BY <2>1, <2>2 DEF ChannelKnown, StillOpen, Cmd
  <2>6. QED BY <2>1, <2>4, <2>5 DEF StillOpen, OutcomesStay, Clean, GivenUp
<1>5. ASSUME NEW s \in Senders,
             \/ Acquire(s) \/ FetchWriter(s) \/ InstallPending(s)
             \/ WriteCommand(s) \/ Notified(s) \/ AnswerTimeout(s)
      PROVE  StillOpen' /\ OutcomesStay /\ (Clean' => Clean)
  <2>1. UNCHANGED <<cmd, sent, outcome, broken>>
    BY <1>5 DEF Acquire, FetchWriter, InstallPending, WriteCommand, Notified,
                AnswerTimeout, histVars
  <2>2. \A t \in Senders : Calling(t)' => Calling(t)
    BY <1>5, WireTypes DEF ChannelKnown, Calling, Acquire, FetchWriter,
       InstallPending, WriteCommand, Notified, AnswerTimeout
  <2>3. QED BY <2>1, <2>2 DEF ChannelKnown, StillOpen, OutcomesStay, Clean, GivenUp
<1>6. ASSUME NEW s \in Senders,
             \/ QueueTimeout(s) \/ NoConnection(s) \/ WriteFails(s)
             \/ TakePending(s) \/ Cancel(s) \/ DropFuture(s)
      PROVE  StillOpen' /\ OutcomesStay /\ (Clean' => Clean)
  <2>1. PICK how, lines : Return(s, how, lines)
    BY <1>6 DEF QueueTimeout, NoConnection, WriteFails, TakePending, Cancel, DropFuture
  <2>2. Calling(s)
    BY <1>6 DEF QueueTimeout, NoConnection, WriteFails, TakePending, Cancel,
                DropFuture, Calling
  <2>3. cmd[s] \in 1..sent /\ cmd[s] \in Cmd /\ outcome[cmd[s]] = "none"
    BY <2>2, InFlight DEF ChannelKnown, StillOpen
  <2>4. /\ pc' = [pc EXCEPT ![s] = "idle"] /\ cmd' = [cmd EXCEPT ![s] = NoCmd]
        /\ outcome' = [outcome EXCEPT ![cmd[s]] = how] /\ UNCHANGED <<sent, broken>>
    BY <2>1 DEF Return
  <2>5. /\ pc'[s] = "idle" /\ sent \in Nat
        /\ \A t \in Senders : t # s => pc'[t] = pc[t] /\ cmd'[t] = cmd[t]
        /\ \A c \in Cmd : c # cmd[s] => outcome'[c] = outcome[c]
    BY <2>3, <2>4, WireTypes DEF ChannelKnown
  <2>6. \A t \in Senders : Calling(t)' =>
           cmd'[t] = cmd[t] /\ cmd[t] # cmd[s] /\ cmd[t] \in Cmd /\ Calling(t)
    BY <2>2, <2>5, InFlight DEF ChannelKnown, ChannelInv, CallsDistinct, Calling
  <2>7. \A t \in Senders : Calling(t)' => outcome'[cmd'[t]] = "none"
    BY <2>5, <2>6 DEF ChannelKnown, StillOpen
  <2>8. \A c \in Cmd : c > sent' => outcome'[c] = "none"
    BY <2>3, <2>4, <2>5 DEF ChannelKnown, StillOpen, Cmd
  <2>9. \A c \in Cmd : outcome[c] # "none" => outcome'[c] = outcome[c]
    BY <2>3, <2>5
  <2>10. QED BY <2>4, <2>7, <2>8, <2>9 DEF StillOpen, OutcomesStay, Clean, GivenUp
<1>7. QED BY <1>2, <1>3, <1>4, <1>5, <1>6 DEF Next, Sender, Proceed

LEMMA NextKeepsWire ==
  ASSUME ChannelKnown, AlignInv, [Next]_vars
  PROVE  AlignInv'
<1> SUFFICES ASSUME Clean' PROVE WireInv'
  BY DEF AlignInv
<1>1. WireInv /\ GivenUp' = {} /\ NoCmd \notin broken' /\ ChannelInv
  BY EndsKept DEF AlignInv, Clean, ChannelKnown
<1>2. CASE HandleLine
  BY <1>1, <1>2, LineKeepsWire
<1>3. CASE DropConnection
  BY <1>1, <1>3, DropKeepsWire
<1>4. CASE WakePending
  BY <1>1, <1>4, WakeKeepsWire
<1>5. CASE Modem \/ CheckInterrupt \/ WriteInterrupt
  BY <1>1, <1>5, ModemSideKeepsWire
<1>6. CASE \/ OpenTransport \/ StartServing \/ ReadLoopEnds \/ LowerFlag \/ JoinInit
           \/ Shutdown \/ ReaderLocks \/ Dispatch \/ UNCHANGED vars
  <2>1. UNCHANGED <<slot, buf, woken, pc, cmd, answered, owed, wire, outcome, resp,
                    contended>>
    BY <1>6 DEF OpenTransport, StartServing, ReadLoopEnds, LowerFlag, JoinInit,
       Shutdown, ReaderLocks, Dispatch, senderVars, histVars, vars
  <2>2. QED BY <1>1, <2>1, ElsewhereKeepsWire
<1>7. ASSUME NEW s \in Senders, Sender(s) PROVE WireInv'
  BY <1>1, <1>7, StartKeepsWire, InstallKeepsWire, WriteKeepsWire, WakingKeepsWire,
     EndKeepsWire DEF Sender, Proceed
<1>8. QED BY <1>2, <1>3, <1>4, <1>5, <1>6, <1>7 DEF Next, RunLoop, Reader

\* Whatever happens to the connection, calls take turns at the modem, and each
\* call under way has a number of its own and has not ended (send_command).
THEOREM CallsTakeTurns == Spec => []Calls!CallsInv
<1>1. Init => StillOpen
  BY DEF Init, StillOpen, Calling
<1>2. ChannelInv /\ AnswerInv /\ StillOpen /\ [Next]_vars => StillOpen'
  BY EndsKept DEF ChannelKnown
<1>3. ChannelInv /\ StillOpen => Calls!CallsInv
  <2> SUFFICES ASSUME ChannelInv, StillOpen PROVE Calls!CallsInv
    OBVIOUS
  <2>1. \A s \in Senders :
           /\ Stage(s) \in {"idle", "asking", "talking"}
           /\ Stage(s) = "talking" => pc[s] \in Holding
           /\ Stage(s) # "idle" => Calling(s)
    BY DEF Stage, Calling, Holding, Armed
  <2>2. Calls!TypeOK
    <3>1. [s \in Senders |-> Stage(s)] \in [Senders -> {"idle", "asking", "talking"}]
      BY <2>1
    <3>2. sent \in 0..MaxSend /\ cmd \in [Senders -> 0..MaxSend]
      <4>1. Cmd \cup {NoCmd} = 0..MaxSend BY BoundsAssumption DEF Cmd, NoCmd
      <4>2. QED BY <4>1, WireTypes DEF ChannelInv, TypeOK, HistoryTypeOK
    <3>3. outcome \in [1..MaxSend -> {"ok", "unsent", "givenUp"} \cup {"none"}]
      <4>1. {"ok", "unsent", "givenUp"} \cup {"none"} = {"none", "ok", "unsent", "givenUp"}
        OBVIOUS
      <4>2. QED BY <4>1, WireTypes, Zenon DEF Cmd
    <3>4. QED BY <3>1, <3>2, <3>3, Zenon DEF Calls!TypeOK, Calls!Results
  <2>3. Calls!OneAtATime
    BY <2>1, OneArmed DEF Calls!OneAtATime
  <2>4. Calls!Open
    BY <2>1, InFlight DEF Calls!Open, StillOpen, ChannelInv, CallsDistinct, Cmd
  <2>5. QED BY <2>2, <2>3, <2>4 DEF Calls!CallsInv
<1>4. QED BY <1>1, <1>2, <1>3, ChannelInvariant, AnswersInvariant, PTL DEF Spec

\* A call that has ended keeps its result, through teardowns, time-outs and drops.
THEOREM CallsEndOnce == Spec => [][Calls!EndsOnce]_Calls!vars
<1>1. Init => StillOpen
  BY DEF Init, StillOpen, Calling
<1>2. ChannelInv /\ AnswerInv /\ StillOpen /\ [Next]_vars
         => StillOpen' /\ [Calls!EndsOnce]_Calls!vars
  <2> SUFFICES ASSUME ChannelKnown, [Next]_vars PROVE StillOpen' /\ OutcomesStay
    BY DEF ChannelKnown, OutcomesStay, Calls!EndsOnce, Cmd
  <2>1. QED BY EndsKept
<1>3. QED BY <1>1, <1>2, ChannelInvariant, AnswersInvariant, PTL DEF Spec

\* While nobody has given up and no interrupt reached an idle modem, each answer
\* is made of the lines of its own command.
THEOREM AnswersAreAligned == Spec => []Aligned
<1>1. Init => StillOpen /\ AlignInv
  <2> SUFFICES ASSUME Init PROVE StillOpen /\ AlignInv
    OBVIOUS
  <2>1. /\ owed = <<>> /\ wire = <<>> /\ slot = NoCmd /\ buf = <<>> /\ contended = {}
        /\ \A s \in Senders : pc[s] = "idle" /\ ~answered[s]
        /\ \A c \in Cmd : outcome[c] = "none"
    BY DEF Init
  <2>2. WireAwaited /\ OneAnswer
    BY <2>1, QuietWire DEF Quiet
  <2>3. SlotSettled /\ BufOwn /\ AnsweredWoken /\ ResultsOwn /\ StillOpen
    BY <2>1 DEF SlotSettled, BufOwn, AnsweredWoken, ResultsOwn, StillOpen, Calling
  <2>4. QED BY <2>1, <2>2, <2>3 DEF AlignInv, WireInv
<1>2. ChannelInv /\ AnswerInv /\ StillOpen /\ AlignInv /\ [Next]_vars
         => StillOpen' /\ AlignInv'
  BY EndsKept, NextKeepsWire DEF ChannelKnown
<1>3. AlignInv => Aligned
  BY DEF AlignInv, WireInv, ResultsOwn, Clean, Aligned
<1>4. QED BY <1>1, <1>2, <1>3, ChannelInvariant, AnswersInvariant, PTL DEF Spec

-----------------------------------------------------------------------------
(* The count of running scans                                              *)

Scanning == {s \in Senders : Calling(s) /\ cmd[s] \in isLong}

\* A step that changes none of what the count depends on.
LEMMA ScansUntouched ==
  ASSUME LongInv, UNCHANGED <<longCmd, isLong, sent>>,
         Scanning' = Scanning
  PROVE  LongInv'
BY DEF LongInv, LongCountMatches, Scanning

LEMMA CallKeepsCount ==
  ASSUME ChannelInv, LongInv, NEW s \in Senders, Call(s)
  PROVE  LongInv'
<1>0. /\ pc \in [Senders -> {"idle", "queued", "locked", "fetched"} \cup Armed]
      /\ cmd \in [Senders -> Cmd \cup {NoCmd}]
      /\ sent \in Nat /\ longCmd \in Int
      /\ \A t \in Senders : Calling(t) => cmd[t] \in 1..sent
  BY BoundsAssumption
  DEF ChannelInv, TypeOK, SenderTypeOK, HistoryTypeOK, CallsDistinct
<1>1. /\ pc[s] = "idle" /\ pc' = [pc EXCEPT ![s] = "queued"]
      /\ cmd' = [cmd EXCEPT ![s] = sent + 1] /\ sent' = sent + 1
  BY DEF Call
<1>2. s \notin Scanning /\ IsFiniteSet(Scanning)
      /\ longCmd = Cardinality(Scanning) /\ isLong \subseteq 1..sent
  BY <1>1 DEF Scanning, Calling, LongInv, LongCountMatches
<1>3. CASE isLong' = isLong \cup {sent + 1} /\ longCmd' = longCmd + 1
  <2>1. Scanning' = Scanning \cup {s}
    BY <1>0, <1>1, <1>3 DEF Scanning, Calling
  <2>2. IsFiniteSet(Scanning') /\ Cardinality(Scanning') = longCmd'
    BY <1>2, <1>3, <2>1, FS_AddElement
  <2>3. isLong' \subseteq 1..sent'
    BY <1>0, <1>1, <1>2, <1>3
  <2>4. QED BY <2>2, <2>3 DEF LongInv, LongCountMatches, Scanning
<1>4. CASE UNCHANGED <<isLong, longCmd>>
  <2>1. sent + 1 \notin isLong
    BY <1>0, <1>2
  <2>2. Scanning' = Scanning
    BY <1>0, <1>1, <1>4, <2>1 DEF Scanning, Calling
  <2>3. isLong' \subseteq 1..sent'
    BY <1>0, <1>1, <1>2, <1>4
  <2>4. QED BY <1>2, <1>4, <2>2, <2>3 DEF LongInv, LongCountMatches, Scanning
<1>5. QED BY <1>3, <1>4 DEF Call

LEMMA EndKeepsCount ==
  ASSUME ChannelInv, LongInv, NEW s \in Senders,
         \/ QueueTimeout(s) \/ NoConnection(s) \/ WriteFails(s)
         \/ TakePending(s) \/ Cancel(s) \/ DropFuture(s)
  PROVE  LongInv'
<1>1. PICK how, lines : Return(s, how, lines)
  BY DEF QueueTimeout, NoConnection, WriteFails, TakePending, Cancel, DropFuture
<1>2. Calling(s)
  BY DEF QueueTimeout, NoConnection, WriteFails, TakePending, Cancel,
         DropFuture, Calling
<1>3. /\ pc' = [pc EXCEPT ![s] = "idle"]
      /\ cmd' = [cmd EXCEPT ![s] = NoCmd]
      /\ longCmd' = IF cmd[s] \in isLong THEN longCmd - 1 ELSE longCmd
      /\ isLong' = isLong /\ sent' = sent
  BY <1>1 DEF Return, LongCountAfter
<1>4. Scanning' = Scanning \ {s}
  BY <1>3 DEF Scanning, Calling, ChannelInv, TypeOK, SenderTypeOK
<1>5. IsFiniteSet(Scanning) /\ longCmd = Cardinality(Scanning)
      /\ longCmd \in Int
  BY DEF LongInv, LongCountMatches, Scanning, ChannelInv, TypeOK, SenderTypeOK
<1>6. s \in Scanning <=> cmd[s] \in isLong
  BY <1>2 DEF Scanning
<1>7. IsFiniteSet(Scanning \ {s})
      /\ Cardinality(Scanning \ {s}) =
            IF s \in Scanning THEN Cardinality(Scanning) - 1
                             ELSE Cardinality(Scanning)
  BY <1>5, FS_RemoveElement
<1>8. QED BY <1>3, <1>4, <1>5, <1>6, <1>7
      DEF LongInv, LongCountMatches, Scanning

\* The count of running scans is exact, however the calls end.
THEOREM ScansAreCounted == Spec => []LongCountMatches
<1>1. Init => LongInv
  <2> SUFFICES ASSUME Init PROVE LongInv
    OBVIOUS
  <2>1. Scanning = {} /\ isLong = {} /\ longCmd = 0
    BY DEF Init, Scanning, Calling
  <2>2. QED BY <2>1, FS_EmptySet DEF LongInv, LongCountMatches, Scanning
<1>2. ChannelInv /\ LongInv /\ [Next]_vars => LongInv'
  <2> SUFFICES ASSUME ChannelInv, LongInv, [Next]_vars PROVE LongInv'
    OBVIOUS
  <2>1. CASE \/ RunLoop \/ Shutdown \/ Reader \/ Dispatch
             \/ CheckInterrupt \/ WriteInterrupt \/ Modem
    <3>1. UNCHANGED <<pc, cmd, sent>>
      BY <2>1, OtherStepsStutter
    <3>2. UNCHANGED <<longCmd, isLong>>
      BY <2>1 DEF RunLoop, OpenTransport, StartServing, ReadLoopEnds, LowerFlag,
         DropConnection, WakePending, JoinInit, Shutdown, Reader, ReaderLocks,
         HandleLine, Dispatch, CheckInterrupt, WriteInterrupt, Modem, ModemData,
         ModemFinal, ModemUnsolicited, LinkDies, histVars
    <3>3. QED BY <3>1, <3>2, ScansUntouched DEF Scanning, Calling
  <2>2. ASSUME NEW s \in Senders,
               \/ Acquire(s) \/ FetchWriter(s) \/ InstallPending(s)
               \/ WriteCommand(s) \/ Notified(s) \/ AnswerTimeout(s)
        PROVE  LongInv'
    <3>1. UNCHANGED <<cmd, sent, longCmd, isLong>>
      BY <2>2 DEF Acquire, FetchWriter, InstallPending, WriteCommand, Notified,
                  AnswerTimeout, histVars
    <3>2. \A t \in Senders : Calling(t)' <=> Calling(t)
      BY <2>2 DEF Acquire, FetchWriter, InstallPending, WriteCommand, Notified,
         AnswerTimeout, Calling, ChannelInv, TypeOK, SenderTypeOK
    <3>3. Scanning' = Scanning
      BY <3>1, <3>2 DEF Scanning
    <3>4. QED BY <3>1, <3>3, ScansUntouched
  <2>3. ASSUME NEW s \in Senders, Sender(s) PROVE LongInv'
    BY <2>2, <2>3, CallKeepsCount, EndKeepsCount DEF Sender, Proceed
  <2>4. CASE UNCHANGED vars
    BY <2>4, ScansUntouched DEF vars, senderVars, histVars, Scanning, Calling
  <2>5. QED BY <2>1, <2>3, <2>4 DEF Next
<1>3. LongInv => LongCountMatches
  BY DEF LongInv
<1>4. QED BY <1>1, <1>2, <1>3, ChannelInvariant, PTL DEF Spec

=============================================================================
