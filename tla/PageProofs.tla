---------------------------- MODULE PageProofs ----------------------------
(***************************************************************************)
(* More machines of MC_Pages, the larger ones that are not about messages, *)
(* with the same lemmas for each of them as in MessageProofs.              *)
(***************************************************************************)
EXTENDS MessageProofs

-----------------------------------------------------------------------------
(* The settings of the modem and the card.                                 *)

Modem == INSTANCE ModemPage WITH
    queue <- r1, shown <- r2, vowifi <- r3, rpcd <- r4, modem <- r5,
    card <- r6, clicks <- r7, fails <- r8, halted <- r9, stale <- r10,
    Clicks <- Size.modem.clicks, MaxFail <- Bound.fails,
    PinTries <- Size.modem.pins

\* The empty queue.
LEMMA ModemNone == ASSUME NEW S PROVE <<>> \in Seq(S) /\ Len(<<>>) = 0
BY EmptySeq, Zenon

\* A queue of one command.
LEMMA ModemOne == ASSUME NEW S, NEW c \in S PROVE <<c>> \in Seq(S) /\ Len(<<c>>) = 1 /\ <<c>>[1] = c
OBVIOUS

\* The invariant holds at the start.
LEMMA ModemQueueBegins == ASSUME Modem!ModemBounds, Modem!ModemInit PROVE Modem!QueueInv
<1>1. r1 = <<>> /\ r4 = <<>> /\ r9 = {} /\ r10 = {} /\ r5.radio = TRUE /\ r5.hot = TRUE
  BY DEF Modem!ModemInit
<1>2. Len(r1) = 0 /\ r1 \in Seq(Modem!Commands)
      /\ r4 \in Seq([op : {"set"}, on : BOOLEAN] \union [op : {"facts"}])
  <2>1. \A S : <<>> \in Seq(S) /\ Len(<<>>) = 0
    BY EmptySeq, Zenon
  <2>2. Len(r1) = 0
    BY <1>1, <2>1
  <2>3. r1 \in Seq(Modem!Commands)
    BY <1>1, <2>1
  <2>4. r4 \in Seq([op : {"set"}, on : BOOLEAN] \union [op : {"facts"}])
    BY <1>1, <2>1
  <2> QED BY <2>2, <2>3, <2>4
<1>3. Modem!HotComes /\ Modem!RadioComes /\ Modem!LastIsShown
  <2>1. Modem!HotComes
    BY <1>1 DEF Modem!HotComes
  <2>2. Modem!RadioComes
    BY <1>1 DEF Modem!RadioComes
  <2>3. \A i \in 1..Len(r1) : r1[i].op # "air"
    BY <1>2
  <2> QED BY <2>1, <2>2, <2>3 DEF Modem!LastIsShown, Modem!LastAsks
<1>4. r5 \in [radio : BOOLEAN, hot : BOOLEAN, slot : Modem!Slots, vonr : Modem!Bits, ims : BOOLEAN]
  BY DEF Modem!ModemInit, Modem!Slots
<1>5. /\ r6 \in [state : Modem!States, lock : BOOLEAN, tries : 0..Size.modem.pins] /\ r6.tries > 0
      /\ r6.state \in Modem!States
  <2>1. r6 \in [state : {"READY", "SIM_PIN"}, lock : {TRUE}, tries : {Size.modem.pins}]
    BY DEF Modem!ModemInit
  <2>2. Size.modem.pins \in 0..Size.modem.pins /\ Size.modem.pins > 0
    BY DEF Modem!ModemBounds
  <2>3. r6.state \in Modem!States
    BY <2>1 DEF Modem!States
  <2> QED BY <2>1, <2>2, <2>3
<1>6. r3 \in [imssw : {"on", "off", "unknown"}, setBusy : BOOLEAN, busy : BOOLEAN]
  BY DEF Modem!ModemInit
<1>7. r2 \in [air : BOOLEAN, slot : Modem!Slots, vonr : Modem!Bits, pin : Modem!States \union {"unknown"},
                 lock : {"on", "off", "unknown"}]
  <2>1. r5.vonr \in Modem!Bits /\ 0 \in Modem!Slots /\ r6.state \in Modem!States \union {"unknown"}
    BY <1>4, <1>5 DEF Modem!Slots
  <2>2. r2 = [air |-> FALSE, slot |-> 0, vonr |-> r5.vonr, pin |-> r6.state, lock |-> "on"]
    BY DEF Modem!ModemInit
  <2> QED BY <2>1, <2>2
<1> QED BY <1>1, <1>2, <1>3, <1>4, <1>5, <1>6, <1>7 DEF Modem!QueueInv

\* A command is put behind those that wait.
LEMMA ModemSends ==
  ASSUME Modem!QueueInv, NEW c \in Modem!Commands, Modem!Send(c)
  PROVE  /\ r1' \in Seq(Modem!Commands) /\ Len(r1) \in Nat /\ Len(r1') = Len(r1) + 1
         /\ \A i \in 1..Len(r1) : r1'[i] = r1[i]
         /\ r1'[Len(r1) + 1] = c
         /\ \A steps : Modem!SimWaits(steps) => Modem!SimWaits(steps)'
         /\ \A on : Modem!AirWaits(on) => Modem!AirWaits(on)'
         /\ c.op # "air" => \A on : Modem!LastAsks(on) => Modem!LastAsks(on)'
         /\ c.op = "air" => Modem!LastAsks(c.on)' /\ Modem!AirWaits(c.on)'
<1>1. r1 \in Seq(Modem!Commands) /\ r1' = Append(r1, c)
  BY DEF Modem!QueueInv, Modem!Send
<1>2. /\ r1' \in Seq(Modem!Commands) /\ Len(r1') = Len(r1) + 1
      /\ \A i \in 1..Len(r1) : r1'[i] = r1[i]
      /\ r1'[Len(r1) + 1] = c
  BY <1>1, AppendProperties, ZenonT(30)
<1>3. Len(r1) \in Nat
  BY <1>1, LenProperties
<1>4. \A steps : Modem!SimWaits(steps) => Modem!SimWaits(steps)'
  BY <1>2, <1>3 DEF Modem!SimWaits
<1>5. \A on : Modem!AirWaits(on) => Modem!AirWaits(on)'
  BY <1>2, <1>3 DEF Modem!AirWaits
<1>6. ASSUME c.op # "air", NEW on, Modem!LastAsks(on)
      PROVE  Modem!LastAsks(on)'
  BY <1>2, <1>3, <1>6 DEF Modem!LastAsks
<1>7. ASSUME c.op = "air"
      PROVE  Modem!LastAsks(c.on)' /\ Modem!AirWaits(c.on)'
  BY <1>2, <1>3, <1>7 DEF Modem!LastAsks, Modem!AirWaits
<1> QED BY <1>2, <1>3, <1>4, <1>5, <1>6, <1>7

\* The first command is answered, and some follow behind the others.
LEMMA ModemDrops ==
  ASSUME Modem!QueueInv, r1 # <<>>, NEW next \in Seq(Modem!Commands), Modem!Answered(next)
  PROVE  /\ r1' \in Seq(Modem!Commands) /\ Modem!Cmd \in Modem!Commands /\ Modem!Cmd = r1[1]
         /\ Len(r1) \in Nat \ {0} /\ Len(next) \in Nat
         /\ Len(r1') = Len(r1) - 1 + Len(next)
         /\ \A i \in 2..Len(r1) : r1'[i - 1] = r1[i]
         /\ \A i \in 1..Len(next) : r1'[Len(r1) - 1 + i] = next[i]
<1>1. r1 \in Seq(Modem!Commands) /\ r1' = Tail(r1) \o next
  BY DEF Modem!QueueInv, Modem!Answered
<1>2. /\ Modem!Cmd \in Modem!Commands /\ Tail(r1) \in Seq(Modem!Commands) /\ Len(Tail(r1)) = Len(r1) - 1
      /\ \A i \in 1..Len(Tail(r1)) : Tail(r1)[i] = r1[i + 1]
  BY <1>1, HeadTailProperties, Zenon DEF Modem!Cmd
<1>3. Len(r1) \in Nat \ {0} /\ Len(next) \in Nat
  BY <1>1, EmptySeq, LenProperties
<1>4. Modem!Cmd = r1[1]
  BY <1>1 DEF Modem!Cmd
<1>5. /\ r1' \in Seq(Modem!Commands) /\ Len(r1') = Len(Tail(r1)) + Len(next)
      /\ \A i \in 1..Len(Tail(r1)) + Len(next) :
            r1'[i] = IF i <= Len(Tail(r1)) THEN Tail(r1)[i] ELSE next[i - Len(Tail(r1))]
  BY <1>1, <1>2, ConcatProperties, Zenon
<1>6. \A i \in 2..Len(r1) : r1'[i - 1] = r1[i]
  <2> TAKE i \in 2..Len(r1)
  <2>1. i - 1 \in 1..Len(Tail(r1)) /\ i - 1 \in 1..Len(Tail(r1)) + Len(next) /\ (i - 1) + 1 = i
        /\ i - 1 <= Len(Tail(r1))
    BY <1>2, <1>3
  <2> QED BY <2>1, <1>2, <1>5
<1>7. \A i \in 1..Len(next) : r1'[Len(r1) - 1 + i] = next[i]
  <2> TAKE i \in 1..Len(next)
  <2>1. /\ Len(r1) - 1 + i \in 1..Len(Tail(r1)) + Len(next) /\ ~(Len(r1) - 1 + i <= Len(Tail(r1)))
        /\ (Len(r1) - 1 + i) - Len(Tail(r1)) = i
    BY <1>2, <1>3
  <2> QED BY <2>1, <1>5
<1> QED BY <1>2, <1>3, <1>4, <1>5, <1>6, <1>7

\* What waits goes on waiting, but for the command that was answered.
LEMMA ModemWaits ==
  ASSUME Modem!QueueInv, r1 # <<>>, NEW next \in Seq(Modem!Commands), Modem!Answered(next)
  PROVE  /\ \A steps : Modem!SimWaits(steps) => Modem!SimWaits(steps)'
           \/ (Modem!Cmd.op = "sim" /\ Modem!Cmd.step \in steps)
         /\ \A on : Modem!AirWaits(on) => Modem!AirWaits(on)' \/ (Modem!Cmd.op = "air" /\ Modem!Cmd.on = on)
         /\ (\A i \in 1..Len(next) : next[i].op # "air") => \A on : Modem!LastAsks(on) => Modem!LastAsks(on)'
<1>1. /\ Modem!Cmd = r1[1]
      /\ Len(r1) \in Nat \ {0} /\ Len(next) \in Nat
      /\ Len(r1') = Len(r1) - 1 + Len(next)
      /\ \A i \in 2..Len(r1) : r1'[i - 1] = r1[i]
      /\ \A i \in 1..Len(next) : r1'[Len(r1) - 1 + i] = next[i]
  BY ModemDrops
<1>2. ASSUME NEW steps, Modem!SimWaits(steps)
      PROVE  Modem!SimWaits(steps)' \/ (Modem!Cmd.op = "sim" /\ Modem!Cmd.step \in steps)
  <2>1. PICK i \in 1..Len(r1) : r1[i].op = "sim" /\ r1[i].step \in steps
    BY <1>2 DEF Modem!SimWaits
  <2>2. CASE i = 1
    BY <1>1, <2>1, <2>2
  <2>3. CASE i # 1
    <3>1. i - 1 \in 1..Len(r1') /\ r1'[i - 1] = r1[i]
      BY <1>1, <2>3
    <3> QED BY <2>1, <3>1 DEF Modem!SimWaits
  <2> QED BY <2>2, <2>3
<1>3. ASSUME NEW on, Modem!AirWaits(on)
      PROVE  Modem!AirWaits(on)' \/ (Modem!Cmd.op = "air" /\ Modem!Cmd.on = on)
  <2>1. PICK i \in 1..Len(r1) : r1[i].op = "air" /\ r1[i].on = on
    BY <1>3 DEF Modem!AirWaits
  <2>2. CASE i = 1
    BY <1>1, <2>1, <2>2
  <2>3. CASE i # 1
    <3>1. i - 1 \in 1..Len(r1') /\ r1'[i - 1] = r1[i]
      BY <1>1, <2>3
    <3> QED BY <2>1, <3>1 DEF Modem!AirWaits
  <2> QED BY <2>2, <2>3
<1>4. ASSUME \A i \in 1..Len(next) : next[i].op # "air", NEW on, Modem!LastAsks(on)
      PROVE  Modem!LastAsks(on)'
  <2>1. ASSUME NEW k \in 1..Len(r1')
        PROVE  \/ k + 1 \in 2..Len(r1) /\ r1'[k] = r1[k + 1]
               \/ r1'[k].op # "air"
    <3>1. CASE k < Len(r1)
      <4>1. k + 1 \in 2..Len(r1) /\ (k + 1) - 1 = k
        BY <1>1, <3>1
      <4> QED BY <1>1, <4>1
    <3>2. CASE k >= Len(r1)
      <4> DEFINE i == k - Len(r1) + 1
      <4>1. i \in 1..Len(next) /\ Len(r1) - 1 + i = k
        BY <1>1, <3>2
      <4>2. r1'[Len(r1) - 1 + i] = next[i]
        BY <4>1, <1>1
      <4> HIDE DEF i
      <4>3. r1'[k] = next[i] /\ next[i].op # "air"
        BY <4>1, <4>2, <1>4
      <4> QED BY <4>3
    <3> QED BY <1>1, <3>1, <3>2
  <2>2. CASE \A i \in 1..Len(r1) : r1[i].op # "air"
    <3>1. \A k \in 1..Len(r1') : r1'[k].op # "air"
      BY <1>1, <2>1, <2>2
    <3> QED BY <3>1 DEF Modem!LastAsks
  <2>3. ASSUME NEW i \in 1..Len(r1), r1[i].op = "air", r1[i].on = on,
               \A j \in (i + 1)..Len(r1) : r1[j].op # "air"
        PROVE  Modem!LastAsks(on)'
    <3>1. CASE i = 1
      <4>1. \A k \in 1..Len(r1') : r1'[k].op # "air"
        BY <1>1, <2>1, <2>3, <3>1
      <4> QED BY <4>1 DEF Modem!LastAsks
    <3>2. CASE i # 1
      <4>1. i - 1 \in 1..Len(r1') /\ r1'[i - 1] = r1[i]
        BY <1>1, <3>2
      <4>2. \A k \in ((i - 1) + 1)..Len(r1') : r1'[k].op # "air"
        <5> TAKE k \in ((i - 1) + 1)..Len(r1')
        <5>1. k \in 1..Len(r1') /\ (k + 1 <= Len(r1) => k + 1 \in (i + 1)..Len(r1))
          BY <1>1
        <5> QED BY <1>1, <2>1, <2>3, <5>1
      <4> QED BY <2>3, <4>1, <4>2 DEF Modem!LastAsks
    <3> QED BY <3>1, <3>2
  <2> QED BY <1>4, <2>2, <2>3 DEF Modem!LastAsks
<1> QED BY <1>2, <1>3, <1>4

\* A command of another card leaves the radio and the hot-plug as they are.
LEMMA ModemOthers ==
  ASSUME Modem!QueueInv, r1 # <<>>, Modem!Cmd.op \notin {"sim", "air"},
         NEW next \in Seq(Modem!OtherCommands), Modem!Answered(next),
         r5'.radio = r5.radio, r5'.hot = r5.hot, r2'.air = r2.air,
         r9' = r9, "air" \in r10' <=> "air" \in r10
  PROVE  r1' \in Seq(Modem!Commands) /\ Modem!HotComes' /\ Modem!RadioComes' /\ Modem!LastIsShown'
<1>1. next \in Seq(Modem!Commands)
  BY DEF Modem!Commands
<1>2. \A i \in 1..Len(next) : next[i].op # "air"
  <2> TAKE i \in 1..Len(next)
  <2>1. next[i] \in Modem!OtherCommands
    BY ElementOfSeq
  <2> QED BY <2>1 DEF Modem!OtherCommands
<1>3. r1' \in Seq(Modem!Commands)
  BY <1>1, ModemDrops
<1>4. /\ \A steps : Modem!SimWaits(steps) => Modem!SimWaits(steps)'
      /\ \A on : Modem!AirWaits(on) => Modem!AirWaits(on)'
      /\ \A on : Modem!LastAsks(on) => Modem!LastAsks(on)'
  BY <1>1, <1>2, ModemWaits
<1>5. Modem!HotComes /\ Modem!RadioComes /\ Modem!LastIsShown
  BY DEF Modem!QueueInv
<1>6. Modem!HotComes'
  BY <1>4, <1>5 DEF Modem!HotComes
<1>7. Modem!RadioComes'
  BY <1>4, <1>5 DEF Modem!RadioComes
<1>8. Modem!LastIsShown'
  BY <1>4, <1>5 DEF Modem!LastIsShown
<1> QED BY <1>3, <1>6, <1>7, <1>8

\* The records of the page and of the modem.
LEMMA ModemRecords ==
  ASSUME Modem!QueueInv
  PROVE  /\ r5 \in [radio : BOOLEAN, hot : BOOLEAN, slot : Modem!Slots, vonr : Modem!Bits, ims : BOOLEAN]
         /\ r6 \in [state : Modem!States, lock : BOOLEAN, tries : 0..Size.modem.pins]
         /\ r6.state # "SIM_PUK" => r6.tries > 0
         /\ r3 \in [imssw : {"on", "off", "unknown"}, setBusy : BOOLEAN, busy : BOOLEAN]
         /\ r2 \in [air : BOOLEAN, slot : Modem!Slots, vonr : Modem!Bits, pin : Modem!States \union {"unknown"},
                       lock : {"on", "off", "unknown"}]
         /\ r1 # <<>> => Modem!Cmd \in Modem!Commands
<1>1. r1 # <<>> => Head(r1) \in Modem!Commands
  BY HeadTailProperties, Zenon DEF Modem!QueueInv
<1> QED BY <1>1 DEF Modem!QueueInv, Modem!Cmd

\* The user starts something that has no flight mode in it.
LEMMA ModemClicks ==
  ASSUME Modem!QueueInv,
         \/ \E slot \in Modem!Slots : Modem!SwitchSim(slot)
         \/ \E v \in Modem!Bits : Modem!SelectVonr(v)
         \/ \E right \in BOOLEAN : Modem!VerifyPin(right) \/ Modem!ToggleLock(right)
         \/ Modem!PukUnlock \/ Modem!Refresh
  PROVE  Modem!QueueInv'
<1>1. /\ UNCHANGED <<r3, r4, r5, r6, r9, r10>>
      /\ \/ r2' = r2
         \/ \E slot \in Modem!Slots : r2' = [r2 EXCEPT !.slot = slot]
         \/ \E v \in Modem!Bits : r2' = [r2 EXCEPT !.vonr = v]
  BY DEF Modem!SwitchSim, Modem!SelectVonr, Modem!VerifyPin, Modem!ToggleLock, Modem!PukUnlock,
         Modem!Refresh
<1>2. \E c \in Modem!SimCommands \union Modem!OtherCommands : Modem!Send(c)
  <2>1. ASSUME NEW slot \in Modem!Slots,
               Modem!SwitchSim(slot) PROVE \E c \in Modem!SimCommands : Modem!Send(c)
    <3>1. [op |-> "sim", step |-> 1, slot |-> slot] \in Modem!SimCommands
      BY DEF Modem!SimCommands
    <3> QED BY <2>1, <3>1 DEF Modem!SwitchSim
  <2>2. ASSUME NEW v \in Modem!Bits,
               Modem!SelectVonr(v) PROVE \E c \in Modem!OtherCommands : Modem!Send(c)
    <3>1. [op |-> "vonr", v |-> v] \in Modem!OtherCommands
      BY DEF Modem!OtherCommands
    <3> QED BY <2>2, <3>1 DEF Modem!SelectVonr
  <2>3. ASSUME NEW right \in BOOLEAN,
               Modem!VerifyPin(right) PROVE \E c \in Modem!OtherCommands : Modem!Send(c)
    <3>1. [op |-> "verify", right |-> right] \in Modem!OtherCommands
      BY DEF Modem!OtherCommands
    <3> QED BY <2>3, <3>1 DEF Modem!VerifyPin
  <2>4. ASSUME NEW right \in BOOLEAN,
               Modem!ToggleLock(right) PROVE \E c \in Modem!OtherCommands : Modem!Send(c)
    <3> DEFINE on == r2.lock # "on"
    <3>1. on \in BOOLEAN /\ Modem!Send([op |-> "clck", right |-> right, on |-> on])
      BY <2>4 DEF Modem!ToggleLock
    <3> HIDE DEF on
    <3>2. [op |-> "clck", right |-> right, on |-> on] \in Modem!OtherCommands
      BY <3>1 DEF Modem!OtherCommands
    <3> QED BY <3>1, <3>2
  <2>5. ASSUME Modem!PukUnlock \/ Modem!Refresh PROVE \E c \in Modem!OtherCommands : Modem!Send(c)
    <3>1. [op |-> "puk"] \in Modem!OtherCommands /\ [op |-> "load", what |-> "slot"] \in Modem!OtherCommands
      BY DEF Modem!OtherCommands
    <3> QED BY <2>5, <3>1 DEF Modem!PukUnlock, Modem!Refresh
  <2> QED BY <2>1, <2>2, <2>3, <2>4, <2>5
<1>3. PICK c \in Modem!SimCommands \union Modem!OtherCommands : Modem!Send(c)
  BY <1>2
<1>4. c.op # "air" /\ c \in Modem!Commands
  BY DEF Modem!SimCommands, Modem!OtherCommands, Modem!Commands
<1>5. /\ r1' \in Seq(Modem!Commands)
      /\ \A steps : Modem!SimWaits(steps) => Modem!SimWaits(steps)'
      /\ \A on : Modem!AirWaits(on) => Modem!AirWaits(on)'
      /\ \A on : Modem!LastAsks(on) => Modem!LastAsks(on)'
  BY <1>3, <1>4, ModemSends, Zenon
<1>6. /\ r2'.air = r2.air
      /\ r2' \in [air : BOOLEAN, slot : Modem!Slots, vonr : Modem!Bits, pin : Modem!States \union {"unknown"},
                     lock : {"on", "off", "unknown"}]
  <2>1. CASE r2' = r2
    BY <2>1, ModemRecords
  <2>2. ASSUME NEW slot \in Modem!Slots, r2' = [r2 EXCEPT !.slot = slot]
        PROVE  <1>6!:
    BY <2>2, ModemRecords
  <2>3. ASSUME NEW v \in Modem!Bits, r2' = [r2 EXCEPT !.vonr = v]
        PROVE  <1>6!:
    BY <2>3, ModemRecords
  <2> QED BY <1>1, <2>1, <2>2, <2>3
<1>7. Modem!HotComes' /\ Modem!RadioComes' /\ Modem!LastIsShown'
  <2>1. Modem!HotComes /\ Modem!RadioComes /\ Modem!LastIsShown
    BY DEF Modem!QueueInv
  <2>2. Modem!HotComes'
    BY <1>1, <1>5, <2>1 DEF Modem!HotComes
  <2>3. Modem!RadioComes'
    BY <1>1, <1>5, <1>6, <2>1 DEF Modem!RadioComes
  <2>4. Modem!LastIsShown'
    BY <1>1, <1>5, <1>6, <2>1 DEF Modem!LastIsShown
  <2> QED BY <2>2, <2>3, <2>4
<1> QED BY <1>1, <1>5, <1>6, <1>7 DEF Modem!QueueInv

\* The user flips the switch of the flight mode.
LEMMA ModemFlips ==
  ASSUME Modem!QueueInv, Modem!FlipAir
  PROVE  Modem!QueueInv'
<1>1. r2.air \in BOOLEAN
  BY DEF Modem!QueueInv
<1>2. PICK on \in BOOLEAN : on = ~r2.air
  BY <1>1
<1> DEFINE c == [op |-> "air", on |-> on]
<1>3. /\ r2' = [r2 EXCEPT !.air = on] /\ Modem!Send(c)
      /\ UNCHANGED <<r3, r4, r5, r6, r9, r10>>
  BY <1>2 DEF Modem!FlipAir
<1>4. /\ r2' \in [air : BOOLEAN, slot : Modem!Slots, vonr : Modem!Bits, pin : Modem!States \union {"unknown"},
                     lock : {"on", "off", "unknown"}]
      /\ r2'.air = on
  BY <1>3, <1>2 DEF Modem!QueueInv
<1>5. c \in Modem!Commands /\ c.op = "air" /\ c.on = on
  BY <1>2 DEF Modem!AirCommands, Modem!Commands
<1> HIDE DEF c
<1>6. /\ r1' \in Seq(Modem!Commands)
      /\ \A steps : Modem!SimWaits(steps) => Modem!SimWaits(steps)'
      /\ Modem!LastAsks(on)' /\ Modem!AirWaits(on)'
  BY <1>3, <1>5, ModemSends
<1>7. Modem!HotComes /\ Modem!RadioComes
  BY DEF Modem!QueueInv
<1>8. Modem!HotComes'
  BY <1>3, <1>6, <1>7 DEF Modem!HotComes
<1>9. Modem!RadioComes'
  <2>1. on = TRUE \/ on = FALSE
    BY <1>2
  <2> QED BY <1>4, <1>6, <2>1 DEF Modem!RadioComes
<1>10. Modem!LastIsShown'
  BY <1>4, <1>6 DEF Modem!LastIsShown
<1> QED BY <1>3, <1>4, <1>6, <1>8, <1>9, <1>10 DEF Modem!QueueInv

\* Steps beside the queue.
LEMMA ModemBeside ==
  ASSUME Modem!QueueInv, UNCHANGED <<r1, r6, r9>>, r5'.radio = r5.radio, r5'.hot = r5.hot,
         r5' \in [radio : BOOLEAN, hot : BOOLEAN, slot : Modem!Slots, vonr : Modem!Bits, ims : BOOLEAN],
         r2'.air = r2.air,
         r2' \in [air : BOOLEAN, slot : Modem!Slots, vonr : Modem!Bits, pin : Modem!States \union {"unknown"},
                     lock : {"on", "off", "unknown"}],
         "air" \in r10' <=> "air" \in r10,
         r3' \in [imssw : {"on", "off", "unknown"}, setBusy : BOOLEAN, busy : BOOLEAN],
         r4' \in Seq([op : {"set"}, on : BOOLEAN] \union [op : {"facts"}])
  PROVE  Modem!QueueInv'
<1>1. Modem!HotComes /\ Modem!RadioComes /\ Modem!LastIsShown
  BY DEF Modem!QueueInv
<1>2. /\ \A steps : Modem!SimWaits(steps) => Modem!SimWaits(steps)'
      /\ \A on : Modem!AirWaits(on) => Modem!AirWaits(on)'
      /\ \A on : Modem!LastAsks(on) => Modem!LastAsks(on)'
  BY DEF Modem!SimWaits, Modem!AirWaits, Modem!LastAsks
<1>3. Modem!HotComes'
  BY <1>1, <1>2 DEF Modem!HotComes
<1>4. Modem!RadioComes'
  BY <1>1, <1>2 DEF Modem!RadioComes
<1>5. Modem!LastIsShown'
  BY <1>1, <1>2 DEF Modem!LastIsShown
<1> QED BY <1>3, <1>4, <1>5 DEF Modem!QueueInv

\* VoWiFi, which goes beside the queue, and a slot change that is refused.
LEMMA ModemCalls ==
  ASSUME Modem!QueueInv,
         \/ \E slot \in Modem!Slots : Modem!RefuseSim(slot)
         \/ \E on \in BOOLEAN : Modem!SetVowifi(on)
         \/ Modem!RunVowifi \/ Modem!VowifiSetAnswered \/ Modem!VowifiFacts \/ Modem!VowifiLost
  PROVE  Modem!QueueInv'
<1> DEFINE Calls == [op : {"set"}, on : BOOLEAN] \union [op : {"facts"}]
           Switches == [imssw : {"on", "off", "unknown"}, setBusy : BOOLEAN, busy : BOOLEAN]
           Modems == [radio : BOOLEAN, hot : BOOLEAN, slot : Modem!Slots, vonr : Modem!Bits, ims : BOOLEAN]
<1>1. r4 \in Seq(Calls) /\ r3 \in Switches /\ r5 \in Modems
  BY DEF Modem!QueueInv
<1>2. CASE \E slot \in Modem!Slots : Modem!RefuseSim(slot)
  <2>1. /\ UNCHANGED <<r1, r3, r4, r5, r6, r9>> /\ r10' = r10 \union {"slot"}
        /\ \E slot \in Modem!Slots : r2' = [r2 EXCEPT !.slot = slot]
    BY <1>2 DEF Modem!RefuseSim
  <2>2. /\ r2'.air = r2.air
        /\ r2' \in [air : BOOLEAN, slot : Modem!Slots, vonr : Modem!Bits, pin : Modem!States \union {"unknown"},
                       lock : {"on", "off", "unknown"}]
    BY <2>1 DEF Modem!QueueInv
  <2> QED BY <1>1, <2>1, <2>2, ModemBeside
<1>3. CASE (\E on \in BOOLEAN : Modem!SetVowifi(on)) \/ Modem!RunVowifi
  <2>1. UNCHANGED <<r1, r2, r5, r6, r9, r10>>
    BY <1>3 DEF Modem!SetVowifi, Modem!RunVowifi
  <2>2. r3' \in Switches /\ \E call \in Calls : r4' = Append(r4, call)
    <3>1. ASSUME NEW on \in BOOLEAN, Modem!SetVowifi(on)
          PROVE  \E call \in Calls : r4' = Append(r4, call)
      <4>1. [op |-> "set", on |-> on] \in Calls
        OBVIOUS
      <4> QED BY <3>1, <4>1 DEF Modem!SetVowifi
    <3>2. ASSUME Modem!RunVowifi
          PROVE  \E call \in Calls : r4' = Append(r4, call)
      <4>1. [op |-> "facts"] \in Calls
        OBVIOUS
      <4> QED BY <3>2, <4>1 DEF Modem!RunVowifi
    <3>3. r3' \in Switches
      BY <1>1, <1>3 DEF Modem!SetVowifi, Modem!RunVowifi
    <3> QED BY <1>3, <3>1, <3>2, <3>3
  <2>3. PICK call \in Calls : r4' = Append(r4, call)
    BY <2>2
  <2> HIDE DEF Calls
  <2>4. r4' \in Seq(Calls)
    BY <1>1, <2>3, AppendProperties, Zenon
  <2> USE DEF Calls
  <2> QED BY <1>1, <2>1, <2>2, <2>4, ModemBeside DEF Modem!QueueInv
<1>4. CASE Modem!VowifiSetAnswered \/ Modem!VowifiFacts \/ Modem!VowifiLost
  <2>1. UNCHANGED <<r1, r2, r6, r9>> /\ r4 # <<>> /\ r4' = Tail(r4)
    BY <1>4 DEF Modem!VowifiSetAnswered, Modem!VowifiFacts, Modem!VowifiLost
  <2> HIDE DEF Calls
  <2>2. Head(r4) \in Calls /\ r4' \in Seq(Calls)
    BY <1>1, <2>1, HeadTailProperties, Zenon
  <2> USE DEF Calls
  <2>3. Modem!Ims(r5.ims) \in {"on", "off", "unknown"} /\ Modem!Ims(TRUE) \in {"on", "off", "unknown"}
        /\ Modem!Ims(FALSE) \in {"on", "off", "unknown"} /\ Modem!Unread \in {"on", "off", "unknown"}
    BY DEF Modem!Ims, Modem!Unread
  <2>4. r3' \in Switches
    <3>1. CASE Modem!VowifiSetAnswered
      <4>1. PICK on \in {Head(r4).on, r5.ims}, read \in BOOLEAN :
              r3' = [r3 EXCEPT !.setBusy = FALSE, !.imssw = IF read THEN Modem!Ims(on) ELSE Modem!Unread]
        BY <3>1 DEF Modem!VowifiSetAnswered
      <4>2. (IF read THEN Modem!Ims(on) ELSE Modem!Unread) \in {"on", "off", "unknown"}
        BY <2>3 DEF Modem!Ims
      <4> QED BY <1>1, <4>1, <4>2
    <3>2. CASE Modem!VowifiFacts
      <4>1. PICK s \in {"on", "off", "unknown"} : r3' = [r3 EXCEPT !.busy = FALSE, !.imssw = s]
        BY <2>3, <3>2 DEF Modem!VowifiFacts
      <4> QED BY <1>1, <4>1
    <3>3. CASE Modem!VowifiLost
      <4>1. r3' = [r3 EXCEPT !.busy = FALSE] \/ r3' = [r3 EXCEPT !.setBusy = FALSE]
        BY <3>3 DEF Modem!VowifiLost
      <4> QED BY <1>1, <4>1
    <3> QED BY <1>4, <3>1, <3>2, <3>3
  <2>5. r5' \in Modems /\ r5'.radio = r5.radio /\ r5'.hot = r5.hot
    <3>1. \/ r5' = r5
          \/ \E on \in BOOLEAN : r5' = [r5 EXCEPT !.ims = on]
      <4>1. r5.ims \in BOOLEAN /\ (Head(r4).op = "set" => Head(r4).on \in BOOLEAN)
            /\ (Head(r4).op # "facts" => Head(r4).op = "set")
        BY <1>1, <2>2
      <4> QED BY <1>4, <4>1 DEF Modem!VowifiSetAnswered, Modem!VowifiFacts, Modem!VowifiLost
    <3> QED BY <1>1, <3>1
  <2>6. "air" \in r10' <=> "air" \in r10
    BY <1>4 DEF Modem!VowifiSetAnswered, Modem!VowifiFacts, Modem!VowifiLost
  <2>7. r2 \in [air : BOOLEAN, slot : Modem!Slots, vonr : Modem!Bits, pin : Modem!States \union {"unknown"},
                   lock : {"on", "off", "unknown"}]
    BY DEF Modem!QueueInv
  <2> QED BY <2>1, <2>2, <2>4, <2>5, <2>6, <2>7, ModemBeside
<1> QED BY <1>2, <1>3, <1>4

\* What a step of a slot change does to the modem.
LEMMA ModemSlotDone ==
  ASSUME NEW m \in [radio : BOOLEAN, hot : BOOLEAN, slot : Modem!Slots, vonr : Modem!Bits, ims : BOOLEAN],
         NEW slot \in Modem!Slots, NEW b \in BOOLEAN
  PROVE  /\ [m EXCEPT !.hot = b] \in [radio : BOOLEAN, hot : BOOLEAN, slot : Modem!Slots, vonr : Modem!Bits, ims : BOOLEAN]
         /\ [m EXCEPT !.slot = slot] \in [radio : BOOLEAN, hot : BOOLEAN, slot : Modem!Slots, vonr : Modem!Bits, ims : BOOLEAN]
         /\ [m EXCEPT !.radio = b] \in [radio : BOOLEAN, hot : BOOLEAN, slot : Modem!Slots, vonr : Modem!Bits, ims : BOOLEAN]
         /\ [m EXCEPT !.hot = b].hot = b /\ [m EXCEPT !.hot = b].radio = m.radio
         /\ [m EXCEPT !.slot = slot].hot = m.hot /\ [m EXCEPT !.slot = slot].radio = m.radio
         /\ [m EXCEPT !.radio = b].hot = m.hot /\ [m EXCEPT !.radio = b].radio = b
OBVIOUS

\* What the step of a slot change makes of the modem.
ModemSlotStep(step, slot) ==
  \/ step = 1 /\ r5' = [r5 EXCEPT !.hot = FALSE]
  \/ step = 2 /\ r5' = [r5 EXCEPT !.slot = slot]
  \/ step = 3 /\ r5' = [r5 EXCEPT !.hot = TRUE]
  \/ step = 4 /\ r5' = [r5 EXCEPT !.radio = FALSE]
  \/ step = 5 /\ r5' = [r5 EXCEPT !.radio = TRUE]

\* The step is one of the five.
LEMMA ModemSlotSteps ==
  ASSUME r5' = Modem!SimDone(Modem!Cmd), NEW step \in 1..5, NEW slot \in Modem!Slots,
         Modem!Cmd.step = step, Modem!Cmd.slot = slot
  PROVE  ModemSlotStep(step, slot)
<1>1. step = 1 \/ step = 2 \/ step = 3 \/ step = 4 \/ step = 5
  OBVIOUS
<1>2. step = 1 => r5' = [r5 EXCEPT !.hot = FALSE]
  BY DEF Modem!SimDone
<1>3. step = 2 => r5' = [r5 EXCEPT !.slot = slot]
  BY DEF Modem!SimDone
<1>4. step = 3 => r5' = [r5 EXCEPT !.hot = TRUE]
  BY DEF Modem!SimDone
<1>5. step = 4 => r5' = [r5 EXCEPT !.radio = FALSE]
  BY DEF Modem!SimDone
<1>6. step = 5 => r5' = [r5 EXCEPT !.radio = TRUE]
  BY DEF Modem!SimDone
<1> QED BY <1>1, <1>2, <1>3, <1>4, <1>5, <1>6, Zenon DEF ModemSlotStep

\* Each step leaves a modem, and turns on or off what it is for.
LEMMA ModemSlotGives ==
  ASSUME r5 \in [radio : BOOLEAN, hot : BOOLEAN, slot : Modem!Slots, vonr : Modem!Bits, ims : BOOLEAN],
         NEW step \in 1..5, NEW slot \in Modem!Slots, ModemSlotStep(step, slot)
  PROVE  /\ r5' \in [radio : BOOLEAN, hot : BOOLEAN, slot : Modem!Slots, vonr : Modem!Bits, ims : BOOLEAN]
         /\ step \in {1, 3} \/ r5'.hot = r5.hot
         /\ step \in {4, 5} \/ r5'.radio = r5.radio
         /\ step = 3 => r5'.hot = TRUE
         /\ step = 5 => r5'.radio = TRUE
<1>1. CASE step = 1 /\ r5' = [r5 EXCEPT !.hot = FALSE]
  <2>1. PICK b \in BOOLEAN : b = FALSE
    OBVIOUS
  <2>2. r5' = [r5 EXCEPT !.hot = b]
    BY <1>1, <2>1
  <2>3. /\ r5' \in [radio : BOOLEAN, hot : BOOLEAN, slot : Modem!Slots, vonr : Modem!Bits, ims : BOOLEAN]
        /\ r5'.hot = b /\ r5'.radio = r5.radio
    BY <2>2, ModemSlotDone
  <2> QED BY <1>1, <2>1, <2>3
<1>2. CASE step = 2 /\ r5' = [r5 EXCEPT !.slot = slot]
  BY <1>2, ModemSlotDone
<1>3. CASE step = 3 /\ r5' = [r5 EXCEPT !.hot = TRUE]
  <2>1. PICK b \in BOOLEAN : b = TRUE
    OBVIOUS
  <2>2. r5' = [r5 EXCEPT !.hot = b]
    BY <1>3, <2>1
  <2>3. /\ r5' \in [radio : BOOLEAN, hot : BOOLEAN, slot : Modem!Slots, vonr : Modem!Bits, ims : BOOLEAN]
        /\ r5'.hot = b /\ r5'.radio = r5.radio
    BY <2>2, ModemSlotDone
  <2> QED BY <1>3, <2>1, <2>3
<1>4. CASE step = 4 /\ r5' = [r5 EXCEPT !.radio = FALSE]
  <2>1. PICK b \in BOOLEAN : b = FALSE
    OBVIOUS
  <2>2. r5' = [r5 EXCEPT !.radio = b]
    BY <1>4, <2>1
  <2>3. /\ r5' \in [radio : BOOLEAN, hot : BOOLEAN, slot : Modem!Slots, vonr : Modem!Bits, ims : BOOLEAN]
        /\ r5'.radio = b /\ r5'.hot = r5.hot
    BY <2>2, ModemSlotDone
  <2> QED BY <1>4, <2>1, <2>3
<1>5. CASE step = 5 /\ r5' = [r5 EXCEPT !.radio = TRUE]
  <2>1. PICK b \in BOOLEAN : b = TRUE
    OBVIOUS
  <2>2. r5' = [r5 EXCEPT !.radio = b]
    BY <1>5, <2>1
  <2>3. /\ r5' \in [radio : BOOLEAN, hot : BOOLEAN, slot : Modem!Slots, vonr : Modem!Bits, ims : BOOLEAN]
        /\ r5'.radio = b /\ r5'.hot = r5.hot
    BY <2>2, ModemSlotDone
  <2> QED BY <1>5, <2>1, <2>3
<1> QED BY <1>1, <1>2, <1>3, <1>4, <1>5 DEF ModemSlotStep

\* A slot change goes on to its next command, or stops half way.
LEMMA ModemSlot ==
  ASSUME Modem!QueueInv, Modem!SimAnswered \/ Modem!SimFails
  PROVE  Modem!QueueInv'
<1>1. r1 # <<>> /\ Modem!Cmd.op = "sim" /\ UNCHANGED <<r2, r3, r4, r6>>
  BY DEF Modem!SimAnswered, Modem!SimFails
<1>2. Head(r1) \in Modem!Commands
  BY <1>1, HeadTailProperties, Zenon DEF Modem!QueueInv
<1>3. Modem!Cmd \in Modem!SimCommands
  BY <1>1, <1>2 DEF Modem!Cmd, Modem!Commands, Modem!AirCommands, Modem!OtherCommands
<1>4. Modem!HotComes /\ Modem!RadioComes /\ Modem!LastIsShown
  BY DEF Modem!QueueInv
<1>5. CASE Modem!SimFails
  <2>1. PICK done \in BOOLEAN :
          /\ r5' = IF done THEN Modem!SimDone(Modem!Cmd) ELSE r5
          /\ r9' = r9 \union Modem!LeftOff(Modem!Cmd, done)
          /\ r10' = r10 \union {"slot"} /\ Modem!Answered(<<>>)
    BY <1>5 DEF Modem!SimFails
  <2>11. PICK step \in 1..5, slot \in Modem!Slots : Modem!Cmd = [op |-> "sim", step |-> step, slot |-> slot]
    BY <1>3 DEF Modem!SimCommands
  <2>12. Modem!Cmd.step = step /\ Modem!Cmd.slot = slot
    BY <2>11
  <2>2. PICK next \in Seq(Modem!Commands) : next = <<>> /\ Len(next) = 0
    BY ModemNone, Zenon
  <2>3. Modem!Answered(next) /\ Len(next) = 0
    BY <2>1, <2>2
  <2>4. \A i \in 1..Len(next) : next[i].op # "air"
    BY <2>3
  <2>5. /\ r1' \in Seq(Modem!Commands)
        /\ \A on : Modem!LastAsks(on) => Modem!LastAsks(on)'
        /\ \A on : Modem!AirWaits(on) => Modem!AirWaits(on)'
        /\ \A steps : Modem!SimWaits(steps) => Modem!SimWaits(steps)' \/ step \in steps
    BY <1>1, <2>3, <2>4, <2>11, ModemDrops, ModemWaits
  <2>6. (~done /\ r5' = r5) \/ (done /\ ModemSlotStep(step, slot))
    <3>1. CASE done
      <4>1. r5' = Modem!SimDone(Modem!Cmd)
        BY <2>1, <3>1
      <4> QED BY <2>12, <3>1, <4>1, ModemSlotSteps
    <3>2. CASE ~done
      BY <2>1, <3>2
    <3> QED BY <3>1, <3>2
  <2>7. Modem!LastIsShown'
    BY <1>1, <1>4, <2>1, <2>5 DEF Modem!LastIsShown
  <2>8. /\ r5' \in [radio : BOOLEAN, hot : BOOLEAN, slot : Modem!Slots, vonr : Modem!Bits, ims : BOOLEAN]
        /\ (step \in {1, 3} /\ done) \/ r5'.hot = r5.hot
        /\ (step \in {4, 5} /\ done) \/ r5'.radio = r5.radio
        /\ step = 3 /\ done => r5'.hot = TRUE
        /\ step = 5 /\ done => r5'.radio = TRUE
    <3>1. r5 \in [radio : BOOLEAN, hot : BOOLEAN, slot : Modem!Slots, vonr : Modem!Bits, ims : BOOLEAN]
      BY DEF Modem!QueueInv
    <3>2. CASE ~done /\ r5' = r5
      BY <3>1, <3>2
    <3>3. CASE done /\ ModemSlotStep(step, slot)
      BY <3>1, <3>3, ModemSlotGives
    <3> QED BY <2>6, <3>2, <3>3
  <2>9. /\ r9 \subseteq r9' /\ r9' \subseteq {"hot", "radio"}
        /\ step = 2 \/ (step = 1 /\ done) \/ (step = 3 /\ ~done) => "hot" \in r9'
        /\ (step = 4 /\ done) \/ (step = 5 /\ ~done) => "radio" \in r9'
    <3>1. r9 \subseteq {"hot", "radio"}
      BY DEF Modem!QueueInv
    <3> QED BY <2>1, <2>12, <3>1 DEF Modem!LeftOff
  <2>10. Modem!HotComes'
    <3>1. Modem!SimWaits({2, 3}) => Modem!SimWaits({2, 3})' \/ step \in {2, 3}
      BY <2>5
    <3>2. r5'.hot = TRUE \/ "hot" \in r9' \/ (r5'.hot = r5.hot /\ step \notin {2, 3})
      BY <2>8, <2>9
    <3> QED BY <1>4, <2>9, <3>1, <3>2 DEF Modem!HotComes
  <2>13. Modem!RadioComes'
    <3>1. "air" \in r10 => "air" \in r10'
      BY <2>1
    <3>2. Modem!SimWaits({5}) => Modem!SimWaits({5})' \/ step \in {5}
      BY <2>5
    <3>3. Modem!AirWaits(FALSE) => Modem!AirWaits(FALSE)'
      BY <2>5
    <3>4. r5'.radio = TRUE \/ "radio" \in r9' \/ (r5'.radio = r5.radio /\ step \notin {5})
      BY <2>8, <2>9
    <3> QED BY <1>1, <1>4, <2>9, <3>1, <3>2, <3>3, <3>4 DEF Modem!RadioComes
  <2> QED BY <1>1, <2>5, <2>7, <2>8, <2>9, <2>10, <2>13 DEF Modem!QueueInv
<1>6. CASE Modem!SimAnswered
  <2>1. /\ r5' = Modem!SimDone(Modem!Cmd) /\ Modem!Answered(Modem!Follows(Modem!Cmd)) /\ UNCHANGED r9
        /\ r10' = IF Modem!Cmd.step = 2 /\ r2.slot # Modem!Cmd.slot THEN r10 \union {"slot"} ELSE r10
    BY <1>6 DEF Modem!SimAnswered
  <2>2. PICK step \in 1..5, slot \in Modem!Slots : Modem!Cmd = [op |-> "sim", step |-> step, slot |-> slot]
    BY <1>3 DEF Modem!SimCommands
  <2>3. Modem!Cmd.step = step /\ Modem!Cmd.slot = slot
    BY <2>2
  <2>4. PICK next \in Seq(Modem!Commands) : /\ next = Modem!Follows(Modem!Cmd)
                                            /\ step = 5 => Len(next) = 0
                                            /\ step # 5 => /\ Len(next) = 1 /\ next[1].op = "sim"
                                                           /\ next[1].step = step + 1
    <3>1. CASE step = 5
      <4>1. Modem!Follows(Modem!Cmd) = <<>>
        BY <2>2, <3>1 DEF Modem!Follows
      <4> QED BY <3>1, <4>1, ModemNone, Zenon
    <3>2. CASE step # 5
      <4>1. Modem!Follows(Modem!Cmd) = <<[op |-> "sim", step |-> step + 1, slot |-> slot]>>
        BY <2>2, <3>2 DEF Modem!Follows
      <4>2. [op |-> "sim", step |-> step + 1, slot |-> slot] \in Modem!Commands
        BY <3>2 DEF Modem!Commands, Modem!SimCommands
      <4>3. PICK c \in Modem!Commands : c = [op |-> "sim", step |-> step + 1, slot |-> slot]
        BY <4>2, Zenon
      <4>4. <<c>> \in Seq(Modem!Commands) /\ Len(<<c>>) = 1 /\ <<c>>[1] = c
        BY ModemOne
      <4>5. c.op = "sim" /\ c.step = step + 1
        BY <4>3
      <4> QED BY <3>2, <4>1, <4>3, <4>4, <4>5
    <3> QED BY <3>1, <3>2
  <2>5. Modem!Answered(next)
    BY <2>1, <2>4
  <2>6. \A i \in 1..Len(next) : next[i].op # "air"
    BY <2>4
  <2>7. /\ r1' \in Seq(Modem!Commands) /\ Len(r1) \in Nat \ {0}
        /\ Len(r1') = Len(r1) - 1 + Len(next)
        /\ \A i \in 1..Len(next) : r1'[Len(r1) - 1 + i] = next[i]
    BY <1>1, <2>5, ModemDrops
  <2>8. /\ \A steps : Modem!SimWaits(steps) => Modem!SimWaits(steps)' \/ step \in steps
        /\ \A on : Modem!AirWaits(on) => Modem!AirWaits(on)'
        /\ \A on : Modem!LastAsks(on) => Modem!LastAsks(on)'
    BY <1>1, <2>2, <2>5, <2>6, ModemWaits
  <2>9. ASSUME step # 5 PROVE \A steps : step + 1 \in steps => Modem!SimWaits(steps)'
    <3>1. Len(next) = 1 /\ next[1].op = "sim" /\ next[1].step = step + 1
      BY <2>4, <2>9
    <3>2. 1 \in 1..Len(next) /\ Len(r1) - 1 + 1 = Len(r1)
      BY <2>7, <3>1
    <3>3. r1'[Len(r1) - 1 + 1] = next[1]
      BY <2>7, <3>2
    <3>4. Len(r1) \in 1..Len(r1') /\ r1'[Len(r1)] = next[1]
      BY <2>7, <3>1, <3>2, <3>3
    <3> QED BY <3>1, <3>4 DEF Modem!SimWaits
  <2>10. Modem!LastIsShown'
    BY <1>1, <1>4, <2>1, <2>8 DEF Modem!LastIsShown
  <2>11. r5 \in [radio : BOOLEAN, hot : BOOLEAN, slot : Modem!Slots, vonr : Modem!Bits, ims : BOOLEAN]
    BY DEF Modem!QueueInv
  <2>12. ModemSlotStep(step, slot)
    BY <2>1, <2>3, ModemSlotSteps
  <2>13. /\ r5' \in [radio : BOOLEAN, hot : BOOLEAN, slot : Modem!Slots, vonr : Modem!Bits, ims : BOOLEAN]
         /\ step \in {1, 3} \/ r5'.hot = r5.hot
         /\ step \in {4, 5} \/ r5'.radio = r5.radio
         /\ step = 3 => r5'.hot = TRUE
         /\ step = 5 => r5'.radio = TRUE
    BY <2>11, <2>12, ModemSlotGives
  <2>14. Modem!HotComes'
    <3>1. CASE step \in {1, 2}
      <4>1. Modem!SimWaits({2, 3})'
        BY <2>9, <3>1
      <4> QED BY <4>1 DEF Modem!HotComes
    <3>2. CASE step = 3
      <4>1. r5'.hot = TRUE
        BY <2>13, <3>2
      <4> QED BY <4>1 DEF Modem!HotComes
    <3>3. CASE step \in {4, 5}
      <4>1. r5'.hot = r5.hot
        BY <2>13, <3>3
      <4>2. Modem!SimWaits({2, 3}) => Modem!SimWaits({2, 3})'
        BY <2>8, <3>3
      <4> QED BY <1>4, <2>1, <4>1, <4>2 DEF Modem!HotComes
    <3> QED BY <3>1, <3>2, <3>3
  <2>15. Modem!RadioComes'
    <3>1. CASE step = 4
      <4>1. step # 5 /\ step + 1 \in {5}
        BY <3>1
      <4>2. Modem!SimWaits({5})'
        BY <2>9, <4>1
      <4> QED BY <4>2 DEF Modem!RadioComes
    <3>2. CASE step = 5
      <4>1. r5'.radio = TRUE
        BY <2>13, <3>2
      <4> QED BY <4>1 DEF Modem!RadioComes
    <3>3. CASE step \in {1, 2, 3}
      <4>1. "air" \in r10 => "air" \in r10'
        BY <2>1
      <4>2. Modem!SimWaits({5}) => Modem!SimWaits({5})'
        BY <2>8, <3>3
      <4>3. r5'.radio = r5.radio
        BY <2>13, <3>3
      <4> QED BY <1>1, <1>4, <2>1, <2>8, <4>1, <4>2, <4>3 DEF Modem!RadioComes
    <3> QED BY <3>1, <3>2, <3>3
  <2> QED BY <1>1, <2>1, <2>7, <2>10, <2>13, <2>14, <2>15 DEF Modem!QueueInv
<1> QED BY <1>5, <1>6

\* Flight mode is set, or its switch goes back.
LEMMA ModemAir ==
  ASSUME Modem!QueueInv, Modem!AirAnswered \/ Modem!AirFails
  PROVE  Modem!QueueInv'
<1>1. r1 # <<>> /\ Modem!Cmd.op = "air" /\ Modem!Answered(<<>>) /\ UNCHANGED <<r3, r4, r6, r9>>
  BY DEF Modem!AirAnswered, Modem!AirFails
<1>2. Head(r1) \in Modem!Commands
  BY <1>1, HeadTailProperties, Zenon DEF Modem!QueueInv
<1>3. Modem!Cmd \in Modem!AirCommands
  BY <1>1, <1>2 DEF Modem!Cmd, Modem!Commands, Modem!SimCommands, Modem!OtherCommands
<1>4. PICK on \in BOOLEAN : Modem!Cmd.on = on
  BY <1>3 DEF Modem!AirCommands
<1>5. PICK next \in Seq(Modem!Commands) : next = <<>> /\ Len(next) = 0
  BY ModemNone, Zenon
<1>6. Modem!Answered(next) /\ Len(next) = 0
  BY <1>1, <1>5
<1>7. \A i \in 1..Len(next) : next[i].op # "air"
  BY <1>6
<1>8. /\ r1' \in Seq(Modem!Commands)
      /\ \A steps : Modem!SimWaits(steps) => Modem!SimWaits(steps)'
      /\ \A x : Modem!AirWaits(x) => Modem!AirWaits(x)' \/ on = x
      /\ \A x : Modem!LastAsks(x) => Modem!LastAsks(x)'
  BY <1>1, <1>4, <1>6, <1>7, ModemDrops, ModemWaits
<1>9. Modem!HotComes /\ Modem!RadioComes /\ Modem!LastIsShown
  BY DEF Modem!QueueInv
<1>10. /\ r5 \in [radio : BOOLEAN, hot : BOOLEAN, slot : Modem!Slots, vonr : Modem!Bits, ims : BOOLEAN]
      /\ r2 \in [air : BOOLEAN, slot : Modem!Slots, vonr : Modem!Bits, pin : Modem!States \union {"unknown"},
                    lock : {"on", "off", "unknown"}]
  BY DEF Modem!QueueInv
<1>11. CASE Modem!AirAnswered
  <2>1. r5' = [r5 EXCEPT !.radio = ~on] /\ UNCHANGED <<r2, r10>>
    BY <1>4, <1>11 DEF Modem!AirAnswered
  <2>2. PICK off \in BOOLEAN : off = ~on
    OBVIOUS
  <2>3. r5' = [r5 EXCEPT !.radio = off]
    BY <2>1, <2>2
  <2>4. /\ r5' \in [radio : BOOLEAN, hot : BOOLEAN, slot : Modem!Slots, vonr : Modem!Bits, ims : BOOLEAN]
        /\ r5'.hot = r5.hot /\ r5'.radio = off
    BY <1>10, <2>3
  <2>5. Modem!HotComes'
    BY <1>1, <1>8, <1>9, <2>4 DEF Modem!HotComes
  <2>6. Modem!LastIsShown'
    BY <1>8, <1>9, <2>1 DEF Modem!LastIsShown
  <2>7. Modem!RadioComes'
    <3> SUFFICES ASSUME on = TRUE, "radio" \notin r9, ~r2.air, "air" \notin r10
                 PROVE  Modem!AirWaits(FALSE)'
      BY <1>1, <2>1, <2>2, <2>4 DEF Modem!RadioComes
    <3>1. Modem!LastAsks(FALSE)
      BY <1>9, <1>10 DEF Modem!LastIsShown
    <3>2. r1[1] = Modem!Cmd /\ Len(r1) \in Nat \ {0}
      BY <1>1, <1>6, ModemDrops
    <3>3. ~\A i \in 1..Len(r1) : r1[i].op # "air"
      BY <1>1, <3>2
    <3>4. Modem!AirWaits(FALSE)
      BY <3>1, <3>3 DEF Modem!LastAsks, Modem!AirWaits
    <3> QED BY <1>8, <3>4
  <2> QED BY <1>1, <1>8, <1>10, <2>1, <2>4, <2>5, <2>6, <2>7 DEF Modem!QueueInv
<1>12. CASE Modem!AirFails
  <2>1. /\ r2' = [r2 EXCEPT !.air = ~on] /\ r10' = r10 \union {"air"}
        /\ r5' = r5 \/ r5' = [r5 EXCEPT !.radio = ~on]
    BY <1>4, <1>12 DEF Modem!AirFails
  <2>2. PICK off \in BOOLEAN : off = ~on
    OBVIOUS
  <2>3. r2' = [r2 EXCEPT !.air = off]
    BY <2>1, <2>2
  <2>4. r2' \in [air : BOOLEAN, slot : Modem!Slots, vonr : Modem!Bits, pin : Modem!States \union {"unknown"},
                    lock : {"on", "off", "unknown"}]
    BY <1>10, <2>3
  <2>7. /\ r5' \in [radio : BOOLEAN, hot : BOOLEAN, slot : Modem!Slots, vonr : Modem!Bits, ims : BOOLEAN]
        /\ r5'.hot = r5.hot
    <3>1. CASE r5' = r5
      BY <1>10, <3>1
    <3>2. CASE r5' = [r5 EXCEPT !.radio = off]
      BY <1>10, <3>2
    <3> QED BY <2>1, <2>2, <3>1, <3>2
  <2>5. Modem!HotComes'
    BY <1>1, <1>8, <1>9, <2>7 DEF Modem!HotComes
  <2>6. Modem!LastIsShown' /\ Modem!RadioComes'
    BY <2>1 DEF Modem!LastIsShown, Modem!RadioComes
  <2> QED BY <1>1, <1>8, <2>4, <2>5, <2>6, <2>7 DEF Modem!QueueInv
<1> QED BY <1>11, <1>12

\* What the commands of the other cards leave alone.
LEMMA ModemLeaves ==
  ASSUME Modem!QueueInv, r1 # <<>>, Modem!Cmd.op \notin {"sim", "air"},
         NEW next \in Seq(Modem!OtherCommands), Modem!Answered(next),
         r5'.radio = r5.radio, r5'.hot = r5.hot,
         r5' \in [radio : BOOLEAN, hot : BOOLEAN, slot : Modem!Slots, vonr : Modem!Bits, ims : BOOLEAN],
         r6' \in [state : Modem!States, lock : BOOLEAN, tries : 0..Size.modem.pins],
         r6'.state # "SIM_PUK" => r6'.tries > 0,
         r3' \in [imssw : {"on", "off", "unknown"}, setBusy : BOOLEAN, busy : BOOLEAN],
         r2' \in [air : BOOLEAN, slot : Modem!Slots, vonr : Modem!Bits, pin : Modem!States \union {"unknown"},
                     lock : {"on", "off", "unknown"}],
         r2'.air = r2.air, "air" \in r10' <=> "air" \in r10,
         UNCHANGED <<r4, r9>>
  PROVE  Modem!QueueInv'
<1>1. r1' \in Seq(Modem!Commands) /\ Modem!HotComes' /\ Modem!RadioComes' /\ Modem!LastIsShown'
  BY ModemOthers
<1> QED BY <1>1 DEF Modem!QueueInv

\* VoNR is set and read.
LEMMA ModemVonr ==
  ASSUME Modem!QueueInv, Modem!VonrAnswered \/ Modem!VonrFails \/ Modem!VonrRead
  PROVE  Modem!QueueInv'
<1>1. r1 # <<>> /\ Modem!Cmd.op \in {"vonr", "vonrRead"} /\ UNCHANGED <<r3, r4, r6, r9>>
  BY DEF Modem!VonrAnswered, Modem!VonrFails, Modem!VonrRead
<1>2. Modem!Cmd.op = "vonr" => Modem!Cmd.v \in Modem!Bits
  BY <1>1, ModemRecords DEF Modem!Commands, Modem!SimCommands, Modem!AirCommands,
                            Modem!OtherCommands
<1>3. r5' = r5 \/ (Modem!Cmd.op = "vonr" /\ r5' = [r5 EXCEPT !.vonr = Modem!Cmd.v])
  BY DEF Modem!VonrAnswered, Modem!VonrFails, Modem!VonrRead
<1>4. /\ r5' \in [radio : BOOLEAN, hot : BOOLEAN, slot : Modem!Slots, vonr : Modem!Bits, ims : BOOLEAN]
      /\ r5'.radio = r5.radio /\ r5'.hot = r5.hot
  BY <1>2, <1>3, ModemRecords
<1>5. r2' = r2 \/ r2' = [r2 EXCEPT !.vonr = r5.vonr]
  BY DEF Modem!VonrAnswered, Modem!VonrFails, Modem!VonrRead
<1>6. /\ r2' \in [air : BOOLEAN, slot : Modem!Slots, vonr : Modem!Bits, pin : Modem!States \union {"unknown"},
                     lock : {"on", "off", "unknown"}]
      /\ r2'.air = r2.air
  BY <1>5, ModemRecords
<1>7. "air" \in r10' <=> "air" \in r10
  BY DEF Modem!VonrAnswered, Modem!VonrFails, Modem!VonrRead, Modem!Crossed
<1>8. \E next \in Seq(Modem!OtherCommands) : Modem!Answered(next)
  <2>1. CASE Modem!Answered(<<>>)
    BY <2>1, ModemNone
  <2>2. CASE Modem!ReadsVonr
    <3>1. [op |-> "vonrRead"] \in Modem!OtherCommands
      BY DEF Modem!OtherCommands
    <3>2. <<[op |-> "vonrRead"]>> \in Seq(Modem!OtherCommands)
      BY <3>1, ModemOne
    <3> QED BY <2>2, <3>2 DEF Modem!ReadsVonr
  <2> QED BY <2>1, <2>2 DEF Modem!VonrAnswered, Modem!VonrFails, Modem!VonrRead
<1> QED BY <1>1, <1>4, <1>6, <1>7, <1>8, ModemRecords, ModemLeaves

\* A PIN is checked by the card.
LEMMA ModemPin ==
  ASSUME Modem!ModemBounds, Modem!QueueInv, Modem!PinAccepted \/ Modem!PinRefused \/ Modem!PinLost
  PROVE  Modem!QueueInv'
<1>1. r1 # <<>> /\ Modem!Cmd.op \in {"verify", "clck", "puk"} /\ UNCHANGED <<r2, r3, r4, r5, r9>>
  BY DEF Modem!PinAccepted, Modem!PinRefused, Modem!PinLost
<1>2. Modem!Cmd.op = "clck" => Modem!Cmd.on \in BOOLEAN
  BY <1>1, ModemRecords DEF Modem!Commands, Modem!SimCommands, Modem!AirCommands,
                            Modem!OtherCommands
<1>3. "air" \in r10' <=> "air" \in r10
  BY DEF Modem!PinAccepted, Modem!PinRefused, Modem!PinLost
<1>4. \E next \in Seq(Modem!OtherCommands) : Modem!Answered(next)
  <2>1. CASE Modem!Answered(<<>>)
    BY <2>1, ModemNone
  <2>2. CASE Modem!PinAccepted
    <3>1. [op |-> "cpin"] \in Modem!OtherCommands
      BY DEF Modem!OtherCommands
    <3>2. <<[op |-> "cpin"]>> \in Seq(Modem!OtherCommands)
      BY <3>1, ModemOne
    <3> QED BY <2>2, <3>2 DEF Modem!PinAccepted
  <2> QED BY <2>1, <2>2 DEF Modem!PinRefused, Modem!PinLost
<1>5. r6' \in [state : Modem!States, lock : BOOLEAN, tries : 0..Size.modem.pins] /\ (r6'.state # "SIM_PUK" => r6'.tries > 0)
  <2>1. CASE UNCHANGED r6
    BY <2>1, ModemRecords
  <2>2. CASE r6' = Modem!CardDone(Modem!Cmd) /\ (Modem!Cmd.op # "puk" => r6.state # "SIM_PUK")
    <3>1. Size.modem.pins \in 0..Size.modem.pins /\ Size.modem.pins > 0
      BY DEF Modem!ModemBounds
    <3>2. CASE Modem!Cmd.op = "puk"
      <4>1. r6' = [state |-> "READY", lock |-> r6.lock, tries |-> Size.modem.pins]
        BY <2>2, <3>2 DEF Modem!CardDone
      <4> QED BY <3>1, <4>1, ModemRecords DEF Modem!States
    <3>3. CASE Modem!Cmd.op = "verify" /\ Modem!Cmd.right
      <4>1. r6' = [r6 EXCEPT !.state = "READY", !.tries = Size.modem.pins]
        BY <2>2, <3>3 DEF Modem!CardDone
      <4> QED BY <3>1, <4>1, ModemRecords DEF Modem!States
    <3>4. CASE Modem!Cmd.op = "clck" /\ Modem!Cmd.right
      <4>1. r6' = [r6 EXCEPT !.lock = Modem!Cmd.on, !.tries = Size.modem.pins]
        BY <2>2, <3>4 DEF Modem!CardDone
      <4> QED BY <1>2, <3>1, <3>4, <4>1, ModemRecords DEF Modem!States
    <3>5. CASE Modem!Cmd.op \in {"verify", "clck"} /\ ~Modem!Cmd.right
      <4>1. r6' = [r6 EXCEPT !.tries = r6.tries - 1,
                                 !.state = IF r6.tries = 1 THEN "SIM_PUK" ELSE r6.state]
        BY <2>2, <3>5 DEF Modem!CardDone
      <4>2. r6 \in [state : Modem!States, lock : BOOLEAN, tries : 0..Size.modem.pins] /\ r6.tries > 0
        BY <2>2, <3>5, ModemRecords
      <4> DEFINE st == IF r6.tries = 1 THEN "SIM_PUK" ELSE r6.state
      <4>3. r6.state \in Modem!States /\ r6.lock \in BOOLEAN /\ r6.tries \in 0..Size.modem.pins
            /\ r6 = [state |-> r6.state, lock |-> r6.lock, tries |-> r6.tries]
        BY <4>2
      <4>4. st \in Modem!States /\ (st # "SIM_PUK" => r6.tries # 1)
        BY <4>3 DEF Modem!States
      <4> HIDE DEF st
      <4>5. r6' = [state |-> st, lock |-> r6.lock, tries |-> r6.tries - 1]
        BY <4>1, <4>3 DEF st
      <4>6. /\ r6'.state \in Modem!States /\ r6'.tries = r6.tries - 1 /\ r6'.lock \in BOOLEAN
            /\ r6' = [state |-> r6'.state, lock |-> r6'.lock, tries |-> r6'.tries]
            /\ r6'.state # "SIM_PUK" => r6.tries # 1
        BY <4>3, <4>4, <4>5
      <4>7. r6.tries - 1 \in 0..Size.modem.pins /\ (r6.tries # 1 => r6.tries - 1 > 0)
        BY <4>2 DEF Modem!ModemBounds
      <4> QED BY <4>2, <4>6, <4>7
    <3> QED BY <1>1, <3>2, <3>3, <3>4, <3>5
  <2> QED BY <2>1, <2>2 DEF Modem!PinAccepted, Modem!PinRefused, Modem!PinLost, Modem!Accepts
<1>6. /\ r5' \in [radio : BOOLEAN, hot : BOOLEAN, slot : Modem!Slots, vonr : Modem!Bits, ims : BOOLEAN]
      /\ r5'.radio = r5.radio /\ r5'.hot = r5.hot
      /\ r3' \in [imssw : {"on", "off", "unknown"}, setBusy : BOOLEAN, busy : BOOLEAN]
      /\ r2' \in [air : BOOLEAN, slot : Modem!Slots, vonr : Modem!Bits, pin : Modem!States \union {"unknown"},
                     lock : {"on", "off", "unknown"}]
      /\ r2'.air = r2.air /\ UNCHANGED <<r4, r9>>
  BY <1>1, ModemRecords
<1>7. PICK next \in Seq(Modem!OtherCommands) : Modem!Answered(next)
  BY <1>4
<1>8. r1 # <<>> /\ Modem!Cmd.op \notin {"sim", "air"}
  BY <1>1
<1> QED BY <1>3, <1>5, <1>6, <1>7, <1>8, ModemLeaves

\* The state of the card is read.
LEMMA ModemReads ==
  ASSUME Modem!QueueInv, Modem!CpinRead \/ Modem!ClckRead
  PROVE  Modem!QueueInv'
<1>1. r1 # <<>> /\ Modem!Cmd.op \in {"cpin", "clckRead"} /\ UNCHANGED <<r3, r4, r5, r6, r9>>
  BY DEF Modem!CpinRead, Modem!ClckRead
<1>2. Modem!Cmd.op = "clckRead" => Modem!Cmd.pin \in Modem!States \union {"unknown"}
  BY <1>1, ModemRecords DEF Modem!Commands, Modem!SimCommands, Modem!AirCommands,
                            Modem!OtherCommands
<1>3. "air" \in r10' <=> "air" \in r10
  BY DEF Modem!CpinRead, Modem!ClckRead
<1>4. \E next \in Seq(Modem!OtherCommands) : Modem!Answered(next)
  <2>1. CASE Modem!Answered(<<>>)
    BY <2>1, ModemNone
  <2>2. CASE Modem!CpinRead
    <3>1. r6.state \in Modem!States \union {"unknown"}
      BY ModemRecords
    <3>2. PICK pin \in Modem!States \union {"unknown"} : Modem!Answered(<<[op |-> "clckRead", pin |-> pin]>>)
      BY <2>2, <3>1 DEF Modem!CpinRead, Modem!ReadsTwo
    <3>3. [op |-> "clckRead", pin |-> pin] \in Modem!OtherCommands
      BY DEF Modem!OtherCommands
    <3>4. <<[op |-> "clckRead", pin |-> pin]>> \in Seq(Modem!OtherCommands)
      BY <3>3, ModemOne
    <3> QED BY <3>2, <3>4
  <2> QED BY <2>1, <2>2 DEF Modem!ClckRead
<1>5. /\ r2' \in [air : BOOLEAN, slot : Modem!Slots, vonr : Modem!Bits, pin : Modem!States \union {"unknown"},
                     lock : {"on", "off", "unknown"}]
      /\ r2'.air = r2.air
  <2>1. CASE Modem!CpinRead
    BY <2>1, ModemRecords DEF Modem!CpinRead
  <2>2. CASE Modem!ClckRead
    <3>1. \E b \in {"on", "off", "unknown"} : r2' = [r2 EXCEPT !.pin = Modem!Cmd.pin, !.lock = b]
      BY <2>2 DEF Modem!ClckRead
    <3>2. Modem!Cmd.pin \in Modem!States \union {"unknown"}
      BY <1>2, <2>2 DEF Modem!ClckRead
    <3> QED BY <3>1, <3>2, ModemRecords
  <2> QED BY <2>1, <2>2
<1>6. /\ r5' = r5 /\ r6' = r6 /\ r4' = r4 /\ r9' = r9
      /\ r5' \in [radio : BOOLEAN, hot : BOOLEAN, slot : Modem!Slots, vonr : Modem!Bits, ims : BOOLEAN]
      /\ r6' \in [state : Modem!States, lock : BOOLEAN, tries : 0..Size.modem.pins]
      /\ r6'.state # "SIM_PUK" => r6'.tries > 0
      /\ r3' \in [imssw : {"on", "off", "unknown"}, setBusy : BOOLEAN, busy : BOOLEAN]
  BY <1>1, ModemRecords
<1>7. PICK next \in Seq(Modem!OtherCommands) : Modem!Answered(next)
  BY <1>4
<1> QED BY <1>1, <1>3, <1>5, <1>6, <1>7, ModemLeaves

\* The state of IMS is read.
LEMMA ModemIms ==
  ASSUME Modem!QueueInv, Modem!ImsRead
  PROVE  Modem!QueueInv'
<1>1. r1 # <<>> /\ Modem!Cmd.op = "load" /\ Modem!Answered(<<>>) /\ UNCHANGED <<r2, r4, r5, r6, r9, r10>>
  BY DEF Modem!ImsRead
<1>2. \E s \in {"on", "off", "unknown"} : r3' = [r3 EXCEPT !.imssw = s]
  BY DEF Modem!ImsRead, Modem!Ims, Modem!Unread
<1>3. r3' \in [imssw : {"on", "off", "unknown"}, setBusy : BOOLEAN, busy : BOOLEAN]
  BY <1>2, ModemRecords
<1>4. \E next \in Seq(Modem!OtherCommands) : Modem!Answered(next)
  BY <1>1, ModemNone
<1>5. /\ r5' = r5 /\ r6' = r6 /\ r4' = r4 /\ r9' = r9 /\ r10' = r10
      /\ r5' \in [radio : BOOLEAN, hot : BOOLEAN, slot : Modem!Slots, vonr : Modem!Bits, ims : BOOLEAN]
      /\ r6' \in [state : Modem!States, lock : BOOLEAN, tries : 0..Size.modem.pins]
      /\ r6'.state # "SIM_PUK" => r6'.tries > 0
      /\ r2' \in [air : BOOLEAN, slot : Modem!Slots, vonr : Modem!Bits, pin : Modem!States \union {"unknown"},
                     lock : {"on", "off", "unknown"}]
      /\ r2'.air = r2.air
  BY <1>1, ModemRecords
<1>6. PICK next \in Seq(Modem!OtherCommands) : Modem!Answered(next)
  BY <1>4
<1> QED BY <1>1, <1>3, <1>5, <1>6, ModemLeaves

\* What follows a reading of everything.
LEMMA ModemFollows ==
  ASSUME Modem!QueueInv, Modem!LoadRead
  PROVE  \E next \in Seq(Modem!OtherCommands) : Modem!Answered(next)
<1> DEFINE first == IF Modem!Cmd.what = "slot" THEN <<[op |-> "cpin"]>> ELSE <<>>
           second == <<[op |-> "load", what |-> Modem!AfterLoad[Modem!Cmd.what]]>>
<1>1. r1 # <<>> /\ Modem!Cmd.op = "load" /\ Modem!Cmd.what # "ims" /\ Modem!Answered(first \o second)
  BY DEF Modem!LoadRead
<1>2. Modem!Cmd.what \in {"slot", "air", "vonr"}
  BY <1>1, ModemRecords DEF Modem!Commands, Modem!SimCommands, Modem!AirCommands,
                            Modem!OtherCommands
<1>3. first \in Seq(Modem!OtherCommands)
  <2>1. [op |-> "cpin"] \in Modem!OtherCommands
    BY DEF Modem!OtherCommands
  <2> QED BY <2>1, ModemOne, ModemNone
<1>4. second \in Seq(Modem!OtherCommands)
  <2>1. Modem!AfterLoad[Modem!Cmd.what] \in {"slot", "air", "vonr", "ims"}
    BY <1>2 DEF Modem!AfterLoad
  <2>2. [op |-> "load", what |-> Modem!AfterLoad[Modem!Cmd.what]] \in Modem!OtherCommands
    BY <2>1 DEF Modem!OtherCommands
  <2> QED BY <2>2, ModemOne
<1> HIDE DEF first, second
<1>5. first \o second \in Seq(Modem!OtherCommands)
  BY <1>3, <1>4, ConcatProperties, Zenon
<1> QED BY <1>1, <1>5

\* The first reading of the page.
LEMMA ModemLoads ==
  ASSUME Modem!QueueInv, Modem!LoadRead
  PROVE  Modem!QueueInv'
<1>1. r1 # <<>> /\ Modem!Cmd.op = "load" /\ UNCHANGED <<r3, r4, r5, r6, r9>>
  BY DEF Modem!LoadRead
<1>2. Modem!Cmd.what \in {"slot", "air", "vonr"}
  BY ModemRecords DEF Modem!LoadRead, Modem!Commands, Modem!SimCommands, Modem!AirCommands,
                      Modem!OtherCommands
<1>3. PICK next \in Seq(Modem!OtherCommands) : Modem!Answered(next)
  BY ModemFollows
<1>4. CASE r2' = r2 /\ r10' = r10
  <2>1. /\ r5' \in [radio : BOOLEAN, hot : BOOLEAN, slot : Modem!Slots, vonr : Modem!Bits, ims : BOOLEAN]
        /\ r5'.radio = r5.radio /\ r5'.hot = r5.hot
        /\ r3' \in [imssw : {"on", "off", "unknown"}, setBusy : BOOLEAN, busy : BOOLEAN]
        /\ r2' \in [air : BOOLEAN, slot : Modem!Slots, vonr : Modem!Bits, pin : Modem!States \union {"unknown"},
                       lock : {"on", "off", "unknown"}]
        /\ r2'.air = r2.air /\ UNCHANGED <<r4, r9>>
        /\ "air" \in r10' <=> "air" \in r10
    BY <1>1, <1>4, ModemRecords
  <2>2. /\ r6' \in [state : Modem!States, lock : BOOLEAN, tries : 0..Size.modem.pins]
        /\ r6'.state # "SIM_PUK" => r6'.tries > 0
    BY <1>1, ModemRecords
  <2>3. r1 # <<>> /\ Modem!Cmd.op \notin {"sim", "air"}
    BY <1>1
  <2> QED BY <1>3, <2>1, <2>2, <2>3, ModemLeaves
<1>5. CASE Modem!Cmd.what \in {"slot", "vonr"} /\ r10' = (r10 \ {Modem!Cmd.what}) \union Modem!Crossed(Modem!Cmd.what)
  <2>1. r2' = [r2 EXCEPT !.slot = r5.slot] \/ r2' = [r2 EXCEPT !.vonr = r5.vonr] \/ r2' = r2
    BY <1>5 DEF Modem!LoadRead
  <2>2. /\ r2' \in [air : BOOLEAN, slot : Modem!Slots, vonr : Modem!Bits, pin : Modem!States \union {"unknown"},
                       lock : {"on", "off", "unknown"}]
        /\ r2'.air = r2.air
    BY <2>1, ModemRecords
  <2>3. "air" \in r10' <=> "air" \in r10
    BY <1>5 DEF Modem!Crossed
  <2> QED BY <1>1, <1>3, <2>2, <2>3, ModemRecords, ModemLeaves
<1>6. CASE Modem!Cmd.what = "air" /\ r2' = [r2 EXCEPT !.air = ~r5.radio]
           /\ r10' = (r10 \ {"air"}) \union Modem!Crossed("air")
  <2>1. PICK off \in BOOLEAN : off = ~r5.radio
    OBVIOUS
  <2>2. r2' = [r2 EXCEPT !.air = off]
    BY <1>6, <2>1
  <2>3. /\ r2' \in [air : BOOLEAN, slot : Modem!Slots, vonr : Modem!Bits, pin : Modem!States \union {"unknown"},
                       lock : {"on", "off", "unknown"}]
        /\ r2'.air = off
    BY <2>2, ModemRecords
  <2>4. next \in Seq(Modem!Commands)
    BY DEF Modem!Commands
  <2>5. \A i \in 1..Len(next) : next[i].op # "air"
    <3> TAKE i \in 1..Len(next)
    <3>1. next[i] \in Modem!OtherCommands
      BY ElementOfSeq
    <3> QED BY <3>1 DEF Modem!OtherCommands
  <2>6. /\ r1' \in Seq(Modem!Commands)
        /\ Modem!Cmd = r1[1] /\ Len(r1) \in Nat \ {0}
        /\ \A steps : Modem!SimWaits(steps) => Modem!SimWaits(steps)'
        /\ \A on : Modem!LastAsks(on) => Modem!LastAsks(on)'
    BY <1>1, <1>3, <2>4, <2>5, ModemDrops, ModemWaits
  <2>7. Modem!LastIsShown'
    <3>1. CASE Modem!Crossed("air") = {}
      <4>1. \A i \in 2..Len(r1) : r1[i].op # "air"
        BY <3>1 DEF Modem!Crossed
      <4>2. \A i \in 1..Len(r1) : r1[i].op # "air"
        BY <1>1, <2>6, <4>1
      <4>3. Modem!LastAsks(off)
        BY <4>2 DEF Modem!LastAsks
      <4> QED BY <2>3, <2>6, <4>3 DEF Modem!LastIsShown
    <3>2. CASE Modem!Crossed("air") # {}
      BY <1>6, <3>2 DEF Modem!LastIsShown, Modem!Crossed
    <3> QED BY <3>1, <3>2
  <2>8. Modem!HotComes'
    BY <1>1, <2>6 DEF Modem!HotComes, Modem!QueueInv
  <2>9. Modem!RadioComes'
    <3>1. r5.radio \in BOOLEAN
      BY ModemRecords
    <3>2. r5.radio \/ r2'.air
      BY <2>1, <2>3, <3>1
    <3> QED BY <1>1, <3>2 DEF Modem!RadioComes
  <2> QED BY <1>1, <2>3, <2>6, <2>7, <2>8, <2>9 DEF Modem!QueueInv
<1>7. \/ r2' = r2 /\ r10' = r10
      \/ /\ r10' = (r10 \ {Modem!Cmd.what}) \union Modem!Crossed(Modem!Cmd.what)
         /\ Modem!Cmd.what = "air" => r2' = [r2 EXCEPT !.air = ~r5.radio]
  BY <1>2 DEF Modem!LoadRead
<1> QED BY <1>2, <1>4, <1>5, <1>6, <1>7

\* Every step keeps it.
LEMMA ModemQueueKept == ASSUME Modem!ModemBounds, Modem!QueueInv, Modem!ModemNext PROVE Modem!QueueInv'
<1>1. CASE Modem!ModemMoves
  BY <1>1, ModemSlot, ModemAir, ModemVonr, ModemPin, ModemReads, ModemLoads, ModemIms,
  ModemCalls DEF Modem!ModemMoves
<1> QED BY <1>1, ModemClicks, ModemFlips, ModemCalls DEF Modem!ModemNext

\* It speaks of nothing but the variables of the machine.
LEMMA ModemQueueStutters ==
  ASSUME Modem!QueueInv, UNCHANGED <<r1, r2, r3, r4, r5, r6, r7, r8, r9, r10>>
  PROVE  Modem!QueueInv'
<1>1. /\ r1' = r1 /\ r2' = r2 /\ r3' = r3 /\ r4' = r4
      /\ r5' = r5 /\ r6' = r6 /\ r9' = r9 /\ r10' = r10
  OBVIOUS
<1>2. Modem!HotComes /\ Modem!RadioComes /\ Modem!LastIsShown
  BY DEF Modem!QueueInv
<1>3. \A steps : Modem!SimWaits(steps) => Modem!SimWaits(steps)'
  BY <1>1 DEF Modem!SimWaits
<1>4. \A on : Modem!AirWaits(on) => Modem!AirWaits(on)'
  BY <1>1 DEF Modem!AirWaits
<1>5. \A on : Modem!LastAsks(on) => Modem!LastAsks(on)'
  BY <1>1 DEF Modem!LastAsks
<1>6. Modem!HotComes'
  BY <1>1, <1>2, <1>3 DEF Modem!HotComes
<1>7. Modem!RadioComes'
  <2>1. "radio" \in r9 \/ r5.radio \/ r2.air \/ "air" \in r10 \/ Modem!SimWaits({5}) \/ Modem!AirWaits(FALSE)
    BY <1>2 DEF Modem!RadioComes
  <2>2. CASE "radio" \in r9 \/ r5.radio \/ r2.air \/ "air" \in r10
    <3>1. CASE "radio" \in r9
      BY <1>1, <3>1 DEF Modem!RadioComes
    <3>2. CASE r5.radio
      BY <1>1, <3>2 DEF Modem!RadioComes
    <3>3. CASE r2.air
      BY <1>1, <3>3 DEF Modem!RadioComes
    <3>4. CASE "air" \in r10
      BY <1>1, <3>4 DEF Modem!RadioComes
    <3> QED BY <2>2, <3>1, <3>2, <3>3, <3>4
  <2>3. CASE Modem!SimWaits({5}) \/ Modem!AirWaits(FALSE)
    BY <1>3, <1>4, <2>3 DEF Modem!RadioComes
  <2> QED BY <2>1, <2>2, <2>3
<1>8. Modem!LastIsShown'
  BY <1>1, <1>2, <1>5 DEF Modem!LastIsShown
<1> QED BY <1>1, <1>6, <1>7, <1>8 DEF Modem!QueueInv

\* What it says.
LEMMA ModemQueueHolds == ASSUME Modem!QueueInv PROVE Modem!ModemTypeOK /\ Modem!SlotChangeRestores
<1>1. Modem!ModemTypeOK
  BY DEF Modem!QueueInv, Modem!ModemTypeOK, Modem!States
<1>2. Modem!SlotChangeRestores
  <2> SUFFICES ASSUME Modem!Quiet
                PROVE  /\ r5.hot \/ "hot" \in r9
                       /\ r5.radio \/ "radio" \in r9 \/ r2.air \/ "air" \in r10
    BY DEF Modem!SlotChangeRestores
  <2>1. Len(r1) = 0
    BY ModemNone DEF Modem!Quiet
  <2>2. ~Modem!SimWaits({2, 3}) /\ ~Modem!SimWaits({5}) /\ ~Modem!AirWaits(FALSE)
    BY <2>1 DEF Modem!SimWaits, Modem!AirWaits
  <2> QED BY <2>2 DEF Modem!QueueInv, Modem!HotComes, Modem!RadioComes
<1> QED BY <1>1, <1>2

\* A command that is sent is the last of its kind, and leaves the last of the other kinds.
LEMMA ModemPuts ==
  ASSUME Modem!QueueInv, NEW c \in Modem!Commands, Modem!Send(c), NEW ops
  PROVE  /\ c.op \notin ops => /\ Modem!NoneWaits(ops) => Modem!NoneWaits(ops)'
                               /\ \A d : Modem!LastIs(ops, d) => Modem!LastIs(ops, d)'
         /\ c.op \in ops => Modem!LastIs(ops, c)'
         /\ ~Modem!NoneWaits(ops) => ~Modem!NoneWaits(ops)'
<1>1. /\ Len(r1) \in Nat /\ Len(r1') = Len(r1) + 1
      /\ \A i \in 1..Len(r1) : r1'[i] = r1[i]
      /\ r1'[Len(r1) + 1] = c
  BY ModemSends
<1>2. ASSUME c.op \notin ops, Modem!NoneWaits(ops) PROVE Modem!NoneWaits(ops)'
  BY <1>1, <1>2 DEF Modem!NoneWaits
<1>3. ASSUME c.op \notin ops, NEW d, Modem!LastIs(ops, d) PROVE Modem!LastIs(ops, d)'
  <2>1. PICK i \in 1..Len(r1) : r1[i] = d /\ d.op \in ops
                                   /\ \A j \in (i + 1)..Len(r1) : r1[j].op \notin ops
    BY <1>3 DEF Modem!LastIs
  <2>2. i \in 1..Len(r1') /\ r1'[i] = d
    BY <1>1, <2>1
  <2>3. \A j \in (i + 1)..Len(r1') : r1'[j].op \notin ops
    <3> TAKE j \in (i + 1)..Len(r1')
    <3>1. (j \in (i + 1)..Len(r1) /\ j \in 1..Len(r1)) \/ j = Len(r1) + 1
      BY <1>1
    <3> QED BY <1>1, <1>3, <2>1, <3>1
  <2> QED BY <2>1, <2>2, <2>3 DEF Modem!LastIs
<1>4. ASSUME c.op \in ops PROVE Modem!LastIs(ops, c)'
  BY <1>1, <1>4 DEF Modem!LastIs
<1>5. ASSUME ~Modem!NoneWaits(ops) PROVE ~Modem!NoneWaits(ops)'
  BY <1>1, <1>5 DEF Modem!NoneWaits
<1> QED BY <1>2, <1>3, <1>4, <1>5

\* What waits after an answer waited before it, or follows it.
LEMMA ModemAfter ==
  ASSUME Modem!QueueInv, r1 # <<>>, NEW next \in Seq(Modem!Commands), Modem!Answered(next), NEW ops
  PROVE  \A k \in 1..Len(r1') :
           \/ k + 1 \in 2..Len(r1) /\ r1'[k] = r1[k + 1]
           \/ \E i \in 1..Len(next) : r1'[k] = next[i] /\ k = Len(r1) - 1 + i
<1>1. /\ Len(r1) \in Nat \ {0} /\ Len(next) \in Nat
      /\ Len(r1') = Len(r1) - 1 + Len(next)
      /\ \A i \in 2..Len(r1) : r1'[i - 1] = r1[i]
      /\ \A i \in 1..Len(next) : r1'[Len(r1) - 1 + i] = next[i]
  BY ModemDrops
<1> TAKE k \in 1..Len(r1')
<1>2. CASE k < Len(r1)
  <2>1. k + 1 \in 2..Len(r1) /\ (k + 1) - 1 = k
    BY <1>1, <1>2
  <2>2. r1'[(k + 1) - 1] = r1[k + 1]
    BY <1>1, <2>1
  <2> QED BY <2>1, <2>2
<1>3. CASE k >= Len(r1)
  <2> DEFINE i == k - Len(r1) + 1
  <2>1. i \in 1..Len(next) /\ Len(r1) - 1 + i = k
    BY <1>1, <1>3
  <2>2. r1'[Len(r1) - 1 + i] = next[i]
    BY <1>1, <2>1
  <2> HIDE DEF i
  <2> QED BY <2>1, <2>2
<1> QED BY <1>1, <1>2, <1>3

\* The last command of a kind stays the last, unless it was the one that was answered.
LEMMA ModemTakes ==
  ASSUME Modem!QueueInv, r1 # <<>>, NEW next \in Seq(Modem!Commands), Modem!Answered(next), NEW ops,
         \A i \in 1..Len(next) : next[i].op \notin ops
  PROVE  /\ Modem!NoneWaits(ops) => Modem!NoneWaits(ops)'
         /\ \A d : Modem!LastIs(ops, d) => Modem!LastIs(ops, d)' \/ (d = Modem!Cmd /\ Modem!NoneWaits(ops)')
<1>1. /\ Modem!Cmd = r1[1] /\ Len(r1) \in Nat \ {0} /\ Len(next) \in Nat
      /\ Len(r1') = Len(r1) - 1 + Len(next)
      /\ \A i \in 2..Len(r1) : r1'[i - 1] = r1[i]
  BY ModemDrops
<1>2. \A k \in 1..Len(r1') : \/ k + 1 \in 2..Len(r1) /\ r1'[k] = r1[k + 1]
                             \/ r1'[k].op \notin ops
  BY ModemAfter
<1>3. ASSUME Modem!NoneWaits(ops) PROVE Modem!NoneWaits(ops)'
  BY <1>1, <1>2, <1>3 DEF Modem!NoneWaits
<1>4. ASSUME NEW d, Modem!LastIs(ops, d) PROVE Modem!LastIs(ops, d)'
               \/ (d = Modem!Cmd /\ Modem!NoneWaits(ops)')
  <2>1. PICK i \in 1..Len(r1) : r1[i] = d /\ d.op \in ops
                                   /\ \A j \in (i + 1)..Len(r1) : r1[j].op \notin ops
    BY <1>4 DEF Modem!LastIs
  <2>2. CASE i = 1
    <3>1. \A k \in 1..Len(r1') : r1'[k].op \notin ops
      BY <1>1, <1>2, <2>1, <2>2
    <3> QED BY <1>1, <2>1, <2>2, <3>1 DEF Modem!NoneWaits
  <2>3. CASE i # 1
    <3>1. i - 1 \in 1..Len(r1') /\ r1'[i - 1] = d
      BY <1>1, <2>1, <2>3
    <3>2. \A k \in ((i - 1) + 1)..Len(r1') : r1'[k].op \notin ops
      <4> TAKE k \in ((i - 1) + 1)..Len(r1')
      <4>1. k \in 1..Len(r1') /\ (k + 1 <= Len(r1) => k + 1 \in (i + 1)..Len(r1))
        BY <1>1
      <4>2. CASE k + 1 \in 2..Len(r1) /\ r1'[k] = r1[k + 1]
        <5>1. k + 1 \in (i + 1)..Len(r1)
          BY <1>1, <4>1, <4>2
        <5>2. r1[k + 1].op \notin ops
          BY <2>1, <5>1
        <5> QED BY <4>2, <5>2
      <4> QED BY <1>2, <4>1, <4>2
    <3> QED BY <2>1, <3>1, <3>2 DEF Modem!LastIs
  <2> QED BY <2>2, <2>3
<1> QED BY <1>3, <1>4

\* The answer to a command of another kind leaves some of this kind waiting.
LEMMA ModemStillWaits ==
  ASSUME Modem!QueueInv, r1 # <<>>, NEW next \in Seq(Modem!Commands), Modem!Answered(next), NEW ops,
         ~Modem!NoneWaits(ops), Modem!Cmd.op \notin ops
  PROVE  ~Modem!NoneWaits(ops)'
<1>1. /\ Modem!Cmd = r1[1] /\ Len(r1) \in Nat \ {0} /\ Len(next) \in Nat
      /\ Len(r1') = Len(r1) - 1 + Len(next)
      /\ \A i \in 2..Len(r1) : r1'[i - 1] = r1[i]
  BY ModemDrops
<1>2. PICK i \in 1..Len(r1) : r1[i].op \in ops
  BY DEF Modem!NoneWaits
<1>3. i \in 2..Len(r1) /\ i - 1 \in 1..Len(r1') /\ r1'[i - 1] = r1[i]
  BY <1>1, <1>2
<1> QED BY <1>2, <1>3 DEF Modem!NoneWaits

\* The last of the commands that follow an answer is the last of all.
LEMMA ModemEndsWith ==
  ASSUME Modem!QueueInv, r1 # <<>>, NEW next \in Seq(Modem!Commands), Modem!Answered(next), NEW ops,
         NEW k \in 1..Len(next), next[k].op \in ops, \A j \in (k + 1)..Len(next) : next[j].op \notin ops
  PROVE  Modem!LastIs(ops, next[k])' /\ ~Modem!NoneWaits(ops)'
<1>1. /\ Len(r1) \in Nat \ {0} /\ Len(next) \in Nat
      /\ Len(r1') = Len(r1) - 1 + Len(next)
      /\ \A i \in 1..Len(next) : r1'[Len(r1) - 1 + i] = next[i]
  BY ModemDrops
<1>2. PICK p \in 1..Len(r1') : p = Len(r1) - 1 + k /\ r1'[p] = next[k]
  BY <1>1
<1>3. \A j \in (p + 1)..Len(r1') : r1'[j].op \notin ops
  <2> TAKE j \in (p + 1)..Len(r1')
  <2> DEFINE i == j - Len(r1) + 1
  <2>1. i \in (k + 1)..Len(next) /\ j = Len(r1) - 1 + i /\ i \in 1..Len(next)
    BY <1>1, <1>2
  <2>2. r1'[Len(r1) - 1 + i] = next[i]
    BY <1>1, <2>1
  <2> HIDE DEF i
  <2> QED BY <2>1, <2>2
<1>4. Modem!LastIs(ops, next[k])'
  <2>1. r1'[p] = next[k] /\ next[k].op \in ops
    BY <1>2
  <2> QED BY <2>1, <1>3 DEF Modem!LastIs
<1>5. ~Modem!NoneWaits(ops)'
  BY <1>2 DEF Modem!NoneWaits
<1> QED BY <1>4, <1>5

\* A step that leaves the commands about VoNR, the control and the modem as they are.
LEMMA ModemVonrStays ==
  ASSUME Modem!VonrComes, r2'.vonr = r2.vonr, r5'.vonr = r5.vonr,
         "vonr" \notin r10' => "vonr" \notin r10,
         Modem!NoneWaits(Modem!VonrOps) => Modem!NoneWaits(Modem!VonrOps)',
         \A d : Modem!LastIs(Modem!VonrOps, d) => Modem!LastIs(Modem!VonrOps, d)'
  PROVE  Modem!VonrComes'
<1>1. ASSUME "vonr" \notin r10', NEW c \in Modem!Commands, Modem!LastIs(Modem!VonrOps, c),
             Modem!VonrFits(c)
      PROVE  \E d \in Modem!Commands : Modem!LastIs(Modem!VonrOps, d)' /\ Modem!VonrFits(d)'
  <2>1. Modem!VonrFits(c)'
    BY <1>1 DEF Modem!VonrFits
  <2> QED BY <1>1, <2>1
<1> QED BY <1>1 DEF Modem!VonrComes

\* A step that leaves the readings of the PIN and what they are about as they are.
LEMMA ModemPinStays ==
  ASSUME Modem!PinComes, Modem!LockComes, r2'.pin = r2.pin, r2'.lock = r2.lock,
         r6'.state = r6.state, r6'.lock = r6.lock,
         "pin" \notin r10' => "pin" \notin r10,
         "lock" \notin r10' => "lock" \notin r10,
         Modem!NoneWaits(Modem!PinOps) => Modem!NoneWaits(Modem!PinOps)',
         ~Modem!NoneWaits(Modem!PinOps) => ~Modem!NoneWaits(Modem!PinOps)',
         \A d : Modem!LastIs(Modem!PinOps, d) => Modem!LastIs(Modem!PinOps, d)'
  PROVE  Modem!PinComes' /\ Modem!LockComes'
<1>1. ASSUME "pin" \notin r10', NEW c \in Modem!Commands, Modem!LastIs(Modem!PinOps, c),
             Modem!PinFits(c)
      PROVE  \E d \in Modem!Commands : Modem!LastIs(Modem!PinOps, d)' /\ Modem!PinFits(d)'
  <2>1. Modem!PinFits(c)'
    BY <1>1 DEF Modem!PinFits
  <2> QED BY <1>1, <2>1
<1>2. Modem!PinComes'
  BY <1>1 DEF Modem!PinComes
<1>3. Modem!LockComes'
  BY DEF Modem!LockComes
<1> QED BY <1>2, <1>3

\* An answer to a command of another kind, with none of this kind after it.
LEMMA ModemPasses ==
  ASSUME Modem!QueueInv, r1 # <<>>, NEW next \in Seq(Modem!Commands), Modem!Answered(next),
         NEW ops, Modem!Cmd.op \notin ops,
         \A i \in 1..Len(next) : next[i].op \notin ops
  PROVE  /\ Modem!NoneWaits(ops) => Modem!NoneWaits(ops)'
         /\ ~Modem!NoneWaits(ops) => ~Modem!NoneWaits(ops)'
         /\ \A d : Modem!LastIs(ops, d) => Modem!LastIs(ops, d)'
<1>1. \A d : Modem!LastIs(ops, d) => d.op \in ops
  BY DEF Modem!LastIs
<1> QED BY <1>1, ModemTakes, ModemStillWaits

\* A step beside the queue.
LEMMA ModemStands ==
  ASSUME r1' = r1, NEW ops
  PROVE  /\ Modem!NoneWaits(ops) => Modem!NoneWaits(ops)'
         /\ ~Modem!NoneWaits(ops) => ~Modem!NoneWaits(ops)'
         /\ \A d : Modem!LastIs(ops, d) => Modem!LastIs(ops, d)'
BY DEF Modem!NoneWaits, Modem!LastIs

\* The invariant holds at the start.
LEMMA ModemTruthBegins == ASSUME Modem!ModemBounds, Modem!ModemInit PROVE Modem!TruthInv
<1>1. r1 = <<>> /\ r2.vonr = r5.vonr /\ r2.pin = r6.state /\ r2.lock = "on" /\ r6.lock = TRUE
      /\ r3.imssw = Modem!Ims(r5.ims)
  <2>1. r6.lock = TRUE
    BY DEF Modem!ModemInit
  <2>2. r2 = [air |-> FALSE, slot |-> 0, vonr |-> r5.vonr, pin |-> r6.state, lock |-> "on"]
        /\ r3 = [imssw |-> IF r5.ims THEN "on" ELSE "off", setBusy |-> FALSE, busy |-> FALSE]
        /\ r1 = <<>>
    BY DEF Modem!ModemInit
  <2> QED BY <2>1, <2>2 DEF Modem!Ims
<1>2. Len(r1) = 0
  BY <1>1, ModemNone
<1>3. Modem!NoneWaits(Modem!VonrOps) /\ Modem!NoneWaits(Modem!PinOps)
  BY <1>2 DEF Modem!NoneWaits
<1> QED BY <1>1, <1>3 DEF Modem!TruthInv, Modem!VonrComes, Modem!PinComes, Modem!LockComes,
                          Modem!ImsShown

\* The user starts something that is not about VoNR.
LEMMA ModemTruthClicks ==
  ASSUME Modem!QueueInv, Modem!TruthInv,
         \/ \E slot \in Modem!Slots : Modem!SwitchSim(slot) \/ Modem!RefuseSim(slot)
         \/ Modem!FlipAir
         \/ \E right \in BOOLEAN : Modem!VerifyPin(right) \/ Modem!ToggleLock(right)
         \/ Modem!PukUnlock \/ Modem!Refresh
  PROVE  Modem!TruthInv'
<1>1. /\ UNCHANGED <<r3, r5, r6>>
      /\ r2'.vonr = r2.vonr /\ r2'.pin = r2.pin /\ r2'.lock = r2.lock
      /\ "vonr" \notin r10' => "vonr" \notin r10
      /\ "pin" \notin r10' => "pin" \notin r10
      /\ "lock" \notin r10' => "lock" \notin r10
      /\ "ims" \notin r10' => "ims" \notin r10
  <2>1. UNCHANGED <<r3, r5, r6>> /\ (r10' = r10 \/ r10' = r10 \union {"slot"})
    BY DEF Modem!SwitchSim, Modem!RefuseSim, Modem!FlipAir, Modem!VerifyPin, Modem!ToggleLock,
           Modem!PukUnlock, Modem!Refresh
  <2>2. \/ r2' = r2
        \/ \E slot \in Modem!Slots : r2' = [r2 EXCEPT !.slot = slot]
        \/ r2' = [r2 EXCEPT !.air = ~@]
    BY DEF Modem!SwitchSim, Modem!RefuseSim, Modem!FlipAir, Modem!VerifyPin, Modem!ToggleLock,
           Modem!PukUnlock, Modem!Refresh
  <2>3. r2'.vonr = r2.vonr /\ r2'.pin = r2.pin /\ r2'.lock = r2.lock
    BY <2>2, ModemRecords
  <2> QED BY <2>1, <2>3
<1>2. \/ r1' = r1
      \/ \E c \in Modem!Commands : Modem!Send(c) /\ c.op \notin Modem!VonrOps /\ c.op \notin Modem!PinOps
  <2>1. ASSUME NEW slot \in Modem!Slots, Modem!SwitchSim(slot)
        PROVE  \E c \in Modem!Commands : Modem!Send(c) /\ c.op \notin Modem!VonrOps /\ c.op \notin Modem!PinOps
    <3>1. [op |-> "sim", step |-> 1, slot |-> slot] \in Modem!Commands
      BY DEF Modem!SimCommands, Modem!Commands
    <3> QED BY <2>1, <3>1 DEF Modem!SwitchSim, Modem!VonrOps, Modem!PinOps
  <2>2. ASSUME Modem!FlipAir
        PROVE  \E c \in Modem!Commands : Modem!Send(c) /\ c.op \notin Modem!VonrOps /\ c.op \notin Modem!PinOps
    <3>1. PICK on \in BOOLEAN : on = ~r2.air
      OBVIOUS
    <3>2. [op |-> "air", on |-> on] \in Modem!Commands
      BY DEF Modem!AirCommands, Modem!Commands
    <3> QED BY <2>2, <3>1, <3>2 DEF Modem!FlipAir, Modem!VonrOps, Modem!PinOps
  <2>3. ASSUME NEW right \in BOOLEAN, Modem!VerifyPin(right)
        PROVE  \E c \in Modem!Commands : Modem!Send(c) /\ c.op \notin Modem!VonrOps /\ c.op \notin Modem!PinOps
    <3>1. [op |-> "verify", right |-> right] \in Modem!Commands
      BY DEF Modem!OtherCommands, Modem!Commands
    <3> QED BY <2>3, <3>1 DEF Modem!VerifyPin, Modem!VonrOps, Modem!PinOps
  <2>4. ASSUME NEW right \in BOOLEAN, Modem!ToggleLock(right)
        PROVE  \E c \in Modem!Commands : Modem!Send(c) /\ c.op \notin Modem!VonrOps /\ c.op \notin Modem!PinOps
    <3>1. PICK on \in BOOLEAN : on = (r2.lock # "on")
      OBVIOUS
    <3>2. [op |-> "clck", right |-> right, on |-> on] \in Modem!Commands
      BY DEF Modem!OtherCommands, Modem!Commands
    <3> QED BY <2>4, <3>1, <3>2 DEF Modem!ToggleLock, Modem!VonrOps, Modem!PinOps
  <2>5. ASSUME Modem!PukUnlock \/ Modem!Refresh
        PROVE  \E c \in Modem!Commands : Modem!Send(c) /\ c.op \notin Modem!VonrOps /\ c.op \notin Modem!PinOps
    <3>1. [op |-> "puk"] \in Modem!Commands /\ [op |-> "load", what |-> "slot"] \in Modem!Commands
      BY DEF Modem!OtherCommands, Modem!Commands
    <3> QED BY <2>5, <3>1 DEF Modem!PukUnlock, Modem!Refresh, Modem!VonrOps, Modem!PinOps
  <2>6. ASSUME NEW slot \in Modem!Slots, Modem!RefuseSim(slot) PROVE r1' = r1
    BY <2>6 DEF Modem!RefuseSim
  <2> QED BY <2>1, <2>2, <2>3, <2>4, <2>5, <2>6
<1>3. ASSUME NEW ops, ops \in {Modem!VonrOps, Modem!PinOps}
      PROVE  /\ Modem!NoneWaits(ops) => Modem!NoneWaits(ops)'
             /\ ~Modem!NoneWaits(ops) => ~Modem!NoneWaits(ops)'
             /\ \A d : Modem!LastIs(ops, d) => Modem!LastIs(ops, d)'
  <2>1. CASE r1' = r1
    BY <2>1, ModemStands
  <2>2. CASE \E c \in Modem!Commands : Modem!Send(c) /\ c.op \notin Modem!VonrOps /\ c.op \notin Modem!PinOps
    BY <1>3, <2>2, ModemPuts
  <2> QED BY <1>2, <2>1, <2>2
<1>4. Modem!VonrComes'
  BY <1>1, <1>3, ModemVonrStays DEF Modem!TruthInv
<1>5. Modem!PinComes' /\ Modem!LockComes'
  BY <1>1, <1>3, ModemPinStays DEF Modem!TruthInv
<1>6. Modem!ImsShown'
  BY <1>1 DEF Modem!TruthInv, Modem!ImsShown
<1> QED BY <1>4, <1>5, <1>6 DEF Modem!TruthInv

\* A selection of VoNR is the last command about it, and what is shown.
LEMMA ModemTruthSelects ==
  ASSUME Modem!QueueInv, Modem!TruthInv, NEW v \in Modem!Bits, Modem!SelectVonr(v)
  PROVE  Modem!TruthInv'
<1>1. UNCHANGED <<r3, r5, r6, r10>> /\ r2' = [r2 EXCEPT !.vonr = v]
  BY DEF Modem!SelectVonr
<1>2. r2'.vonr = v /\ r2'.pin = r2.pin /\ r2'.lock = r2.lock
  BY <1>1, ModemRecords
<1>3. PICK c \in Modem!Commands : Modem!Send(c) /\ c.op = "vonr" /\ c.v = v
  <2>1. [op |-> "vonr", v |-> v] \in Modem!Commands
    BY DEF Modem!OtherCommands, Modem!Commands
  <2> QED BY <2>1 DEF Modem!SelectVonr
<1>4. Modem!LastIs(Modem!VonrOps, c)'
  BY <1>3, ModemPuts DEF Modem!VonrOps
<1>5. /\ Modem!NoneWaits(Modem!PinOps) => Modem!NoneWaits(Modem!PinOps)'
      /\ ~Modem!NoneWaits(Modem!PinOps) => ~Modem!NoneWaits(Modem!PinOps)'
      /\ \A d : Modem!LastIs(Modem!PinOps, d) => Modem!LastIs(Modem!PinOps, d)'
  <2>1. c.op \notin Modem!PinOps
    BY <1>3 DEF Modem!PinOps
  <2> QED BY <1>3, <2>1, ModemPuts
<1>6. Modem!VonrComes'
  <2>1. Modem!VonrFits(c)'
    BY <1>2, <1>3 DEF Modem!VonrFits
  <2> QED BY <1>4, <2>1 DEF Modem!VonrComes
<1>7. Modem!PinComes' /\ Modem!LockComes'
  BY <1>1, <1>2, <1>5, ModemPinStays DEF Modem!TruthInv
<1>8. Modem!ImsShown'
  BY <1>1 DEF Modem!TruthInv, Modem!ImsShown
<1> QED BY <1>6, <1>7, <1>8 DEF Modem!TruthInv

\* After a step of a slot change at most the next step follows.
LEMMA ModemRow ==
  ASSUME Modem!QueueInv, Modem!SimAnswered
  PROVE  \E next \in Seq(Modem!Commands) : Modem!Answered(next) /\ \A i \in 1..Len(next) : next[i].op = "sim"
<1>1. r1 # <<>> /\ Modem!Cmd.op = "sim" /\ Modem!Answered(Modem!Follows(Modem!Cmd))
  BY DEF Modem!SimAnswered
<1>2. Modem!Cmd \in Modem!SimCommands
  BY <1>1, ModemRecords DEF Modem!Commands, Modem!AirCommands, Modem!OtherCommands
<1>3. PICK step \in 1..5, slot \in Modem!Slots : Modem!Cmd = [op |-> "sim", step |-> step, slot |-> slot]
  BY <1>2 DEF Modem!SimCommands
<1>4. CASE step = 5
  <2>1. Modem!Follows(Modem!Cmd) = <<>>
    BY <1>3, <1>4 DEF Modem!Follows
  <2>2. PICK n \in Seq(Modem!Commands) : n = <<>> /\ Len(n) = 0
    BY ModemNone, Zenon
  <2>3. Modem!Answered(n)
    BY <1>1, <2>1, <2>2
  <2>4. \A i \in 1..Len(n) : n[i].op = "sim"
    BY <2>2
  <2> QED BY <2>3, <2>4
<1>5. CASE step # 5
  <2>1. Modem!Follows(Modem!Cmd) = <<[op |-> "sim", step |-> step + 1, slot |-> slot]>>
    BY <1>3, <1>5 DEF Modem!Follows
  <2>2. [op |-> "sim", step |-> step + 1, slot |-> slot] \in Modem!Commands
    BY <1>5 DEF Modem!Commands, Modem!SimCommands
  <2>3. PICK c \in Modem!Commands : c = [op |-> "sim", step |-> step + 1, slot |-> slot]
    BY <2>2, Zenon
  <2>4. c.op = "sim"
    BY <2>3
  <2>5. PICK n \in Seq(Modem!Commands) : n = <<c>> /\ Len(n) = 1 /\ n[1] = c
    BY ModemOne
  <2>6. Modem!Answered(n)
    BY <1>1, <2>1, <2>3, <2>5
  <2>7. \A i \in 1..Len(n) : n[i].op = "sim"
    BY <2>4, <2>5
  <2> QED BY <2>6, <2>7
<1> QED BY <1>4, <1>5

\* The slot and flight mode have no part in it.
LEMMA ModemTruthSlot ==
  ASSUME Modem!QueueInv, Modem!TruthInv, Modem!SimAnswered \/ Modem!SimFails \/ Modem!AirAnswered
           \/ Modem!AirFails
  PROVE  Modem!TruthInv'
<1>1. r1 # <<>> /\ Modem!Cmd.op \in {"sim", "air"} /\ UNCHANGED <<r3, r6>>
  BY DEF Modem!SimAnswered, Modem!SimFails, Modem!AirAnswered, Modem!AirFails
<1>2. Modem!Cmd.op \notin Modem!VonrOps /\ Modem!Cmd.op \notin Modem!PinOps
  BY <1>1 DEF Modem!VonrOps, Modem!PinOps
<1>3. r5'.vonr = r5.vonr /\ r5'.ims = r5.ims
  <2>1. CASE r5' = Modem!SimDone(Modem!Cmd) /\ Modem!Cmd.op = "sim"
    <3>1. Modem!Cmd.step \in 1..5 /\ r5' = Modem!SimDone(Modem!Cmd)
      BY <1>1, <2>1, ModemRecords DEF Modem!Commands, Modem!SimCommands,
                                      Modem!AirCommands, Modem!OtherCommands
    <3>2. \/ r5' = [r5 EXCEPT !.hot = FALSE] \/ r5' = [r5 EXCEPT !.slot = Modem!Cmd.slot]
          \/ r5' = [r5 EXCEPT !.hot = TRUE] \/ r5' = [r5 EXCEPT !.radio = FALSE]
          \/ r5' = [r5 EXCEPT !.radio = TRUE]
      BY <3>1 DEF Modem!SimDone
    <3> QED BY <3>2, ModemRecords
  <2>2. CASE r5' = r5
    BY <2>2
  <2>3. CASE r5' = [r5 EXCEPT !.radio = ~Modem!Cmd.on]
    BY <2>3, ModemRecords
  <2> QED BY <2>1, <2>2, <2>3 DEF Modem!SimAnswered, Modem!SimFails, Modem!AirAnswered, Modem!AirFails
<1>4. r2'.vonr = r2.vonr /\ r2'.pin = r2.pin /\ r2'.lock = r2.lock
  <2>1. CASE Modem!AirFails
    BY <2>1, ModemRecords DEF Modem!AirFails
  <2> QED BY <2>1 DEF Modem!SimAnswered, Modem!SimFails, Modem!AirAnswered
<1>5. /\ "vonr" \notin r10' => "vonr" \notin r10
      /\ "pin" \notin r10' => "pin" \notin r10
      /\ "lock" \notin r10' => "lock" \notin r10
      /\ "ims" \notin r10' => "ims" \notin r10
  BY DEF Modem!SimAnswered, Modem!SimFails, Modem!AirAnswered, Modem!AirFails
<1>6. PICK next \in Seq(Modem!Commands) : Modem!Answered(next) /\ \A i \in 1..Len(next) : next[i].op = "sim"
  <2>1. CASE Modem!SimAnswered
    BY <2>1, ModemRow
  <2>2. CASE Modem!SimFails \/ Modem!AirAnswered \/ Modem!AirFails
    <3>1. PICK n \in Seq(Modem!Commands) : n = <<>> /\ Len(n) = 0
      BY ModemNone, Zenon
    <3>2. Modem!Answered(n)
      BY <2>2, <3>1 DEF Modem!SimFails, Modem!AirAnswered, Modem!AirFails
    <3>3. \A i \in 1..Len(n) : n[i].op = "sim"
      BY <3>1
    <3> QED BY <3>2, <3>3
  <2> QED BY <2>1, <2>2
<1>7. \A i \in 1..Len(next) : next[i].op \notin Modem!VonrOps /\ next[i].op \notin Modem!PinOps
  BY <1>6 DEF Modem!VonrOps, Modem!PinOps
<1>8. Modem!VonrComes'
  BY <1>1, <1>2, <1>3, <1>4, <1>5, <1>6, <1>7, ModemPasses, ModemVonrStays DEF Modem!TruthInv
<1>9. Modem!PinComes' /\ Modem!LockComes'
  <2>1. /\ Modem!NoneWaits(Modem!PinOps) => Modem!NoneWaits(Modem!PinOps)'
        /\ ~Modem!NoneWaits(Modem!PinOps) => ~Modem!NoneWaits(Modem!PinOps)'
        /\ \A d : Modem!LastIs(Modem!PinOps, d) => Modem!LastIs(Modem!PinOps, d)'
    BY <1>1, <1>2, <1>6, <1>7, ModemPasses
  <2> QED BY <1>1, <1>4, <1>5, <2>1, ModemPinStays DEF Modem!TruthInv
<1>10. Modem!ImsShown'
  BY <1>1, <1>3, <1>5 DEF Modem!TruthInv, Modem!ImsShown
<1> QED BY <1>8, <1>9, <1>10 DEF Modem!TruthInv

\* Calls of VoWiFi, and their answers.
LEMMA ModemTruthCalls ==
  ASSUME Modem!QueueInv, Modem!TruthInv,
         \/ \E on \in BOOLEAN : Modem!SetVowifi(on)
         \/ Modem!RunVowifi \/ Modem!VowifiSetAnswered \/ Modem!VowifiFacts \/ Modem!VowifiLost
  PROVE  Modem!TruthInv'
<1>1. UNCHANGED <<r1, r2, r6>>
  BY DEF Modem!SetVowifi, Modem!RunVowifi, Modem!VowifiSetAnswered, Modem!VowifiFacts,
         Modem!VowifiLost
<1>2. r5'.vonr = r5.vonr
  <2>1. r5' = r5 \/ \E on : r5' = [r5 EXCEPT !.ims = on]
    BY DEF Modem!SetVowifi, Modem!RunVowifi, Modem!VowifiSetAnswered, Modem!VowifiFacts,
           Modem!VowifiLost
  <2> QED BY <2>1, ModemRecords
<1>3. /\ "vonr" \notin r10' => "vonr" \notin r10
      /\ "pin" \notin r10' => "pin" \notin r10
      /\ "lock" \notin r10' => "lock" \notin r10
      /\ "ims" \notin r10' => "ims" \notin r10
  BY DEF Modem!SetVowifi, Modem!RunVowifi, Modem!VowifiSetAnswered, Modem!VowifiFacts,
         Modem!VowifiLost
<1>4. Modem!VonrComes'
  BY <1>1, <1>2, <1>3, ModemStands, ModemVonrStays DEF Modem!TruthInv
<1>5. Modem!PinComes' /\ Modem!LockComes'
  BY <1>1, <1>3, ModemStands, ModemPinStays DEF Modem!TruthInv
<1>6. Modem!ImsShown'
  <2>1. CASE (\E on \in BOOLEAN : Modem!SetVowifi(on)) \/ Modem!RunVowifi
    <3>1. r5' = r5 /\ r10' = r10 /\ r3'.imssw = r3.imssw
      BY <2>1, ModemRecords DEF Modem!SetVowifi, Modem!RunVowifi
    <3> QED BY <3>1 DEF Modem!TruthInv, Modem!ImsShown
  <2>2. CASE Modem!VowifiSetAnswered
    <3>1. PICK on \in {Head(r4).on, r5.ims}, read \in BOOLEAN :
             /\ r5' = [r5 EXCEPT !.ims = on]
             /\ r3' = [r3 EXCEPT !.setBusy = FALSE, !.imssw = IF read THEN Modem!Ims(on) ELSE Modem!Unread]
      BY <2>2 DEF Modem!VowifiSetAnswered
    <3>2. r5'.ims = on /\ r3'.imssw \in {Modem!Ims(on), "unknown"}
      BY <3>1, ModemRecords DEF Modem!Unread
    <3> QED BY <3>2 DEF Modem!ImsShown
  <2>3. CASE Modem!VowifiFacts
    <3>1. r5' = r5 /\ (\/ r3' = [r3 EXCEPT !.busy = FALSE, !.imssw = Modem!Ims(r5.ims)]
                       \/ r3' = [r3 EXCEPT !.busy = FALSE, !.imssw = Modem!Unread])
      BY <2>3 DEF Modem!VowifiFacts
    <3>2. r3'.imssw \in {Modem!Ims(r5'.ims), "unknown"}
      BY <3>1, ModemRecords DEF Modem!Unread
    <3> QED BY <3>2 DEF Modem!ImsShown
  <2>4. CASE Modem!VowifiLost
    <3>1. r3'.imssw = r3.imssw
      BY <2>4, ModemRecords DEF Modem!VowifiLost
    <3>2. r5' = r5 \/ "ims" \in r10'
      BY <2>4 DEF Modem!VowifiLost
    <3> QED BY <1>3, <3>1, <3>2 DEF Modem!ImsShown, Modem!TruthInv
  <2> QED BY <2>1, <2>2, <2>3, <2>4
<1> QED BY <1>4, <1>5, <1>6 DEF Modem!TruthInv

\* Among the commands of a kind there is a last one.
LEMMA ModemLast ==
  ASSUME NEW q \in Seq(Modem!Commands), NEW ops
  PROVE  \/ \A i \in 1..Len(q) : q[i].op \notin ops
         \/ \E i \in 1..Len(q) : q[i].op \in ops /\ \A j \in (i + 1)..Len(q) : q[j].op \notin ops
<1> DEFINE T == {Len(q) - i : i \in {i \in 1..Len(q) : q[i].op \in ops}}
<1>1. Len(q) \in Nat
  BY LenProperties
<1>2. T \in SUBSET Nat
  BY <1>1
<1>3. CASE T = {}
  BY <1>3
<1>4. CASE T # {}
  <2> HIDE DEF T
  <2>1. PICK m \in T : \A n \in T : m <= n
    BY <1>2, <1>4, LeastNumber
  <2> USE DEF T
  <2>2. PICK i \in 1..Len(q) : q[i].op \in ops /\ m = Len(q) - i
    OBVIOUS
  <2>3. ASSUME NEW j \in (i + 1)..Len(q), q[j].op \in ops PROVE FALSE
    <3>1. j \in 1..Len(q) /\ Len(q) - j \in T
      BY <1>1, <2>3
    <3> HIDE DEF T
    <3>2. Len(q) - i <= Len(q) - j
      BY <2>1, <2>2, <3>1
    <3> QED BY <1>1, <2>3, <3>2
  <2> QED BY <2>2, <2>3
<1> QED BY <1>3, <1>4


\* Nothing follows an answer.
LEMMA ModemNothingFollows ==
  ASSUME Modem!QueueInv, r1 # <<>>, Modem!Answered(<<>>), NEW ops
  PROVE  /\ Modem!NoneWaits(ops) => Modem!NoneWaits(ops)'
         /\ \A d : Modem!LastIs(ops, d) => Modem!LastIs(ops, d)' \/ (d = Modem!Cmd /\ Modem!NoneWaits(ops)')
         /\ Modem!Cmd.op \notin ops => (~Modem!NoneWaits(ops) => ~Modem!NoneWaits(ops)')
         /\ Modem!Cmd.op \notin ops => \A d : Modem!LastIs(ops, d) => Modem!LastIs(ops, d)'
<1>1. PICK n \in Seq(Modem!Commands) : n = <<>> /\ Len(n) = 0
  BY ModemNone, Zenon
<1>2. Modem!Answered(n)
  BY <1>1
<1>3. \A i \in 1..Len(n) : n[i].op \notin ops
  BY <1>1
<1>4. /\ Modem!NoneWaits(ops) => Modem!NoneWaits(ops)'
      /\ \A d : Modem!LastIs(ops, d) => Modem!LastIs(ops, d)' \/ (d = Modem!Cmd /\ Modem!NoneWaits(ops)')
  BY <1>2, <1>3, ModemTakes
<1>5. ASSUME Modem!Cmd.op \notin ops
      PROVE  /\ ~Modem!NoneWaits(ops) => ~Modem!NoneWaits(ops)'
             /\ \A d : Modem!LastIs(ops, d) => Modem!LastIs(ops, d)'
  BY <1>2, <1>3, <1>5, ModemPasses
<1> QED BY <1>4, <1>5

\* One command follows.
LEMMA ModemOneFollows ==
  ASSUME Modem!QueueInv, r1 # <<>>, NEW c \in Modem!Commands, Modem!Answered(<<c>>), NEW ops
  PROVE  /\ c.op \in ops => Modem!LastIs(ops, c)' /\ ~Modem!NoneWaits(ops)'
         /\ c.op \notin ops /\ Modem!Cmd.op \notin ops =>
              /\ Modem!NoneWaits(ops) => Modem!NoneWaits(ops)'
              /\ ~Modem!NoneWaits(ops) => ~Modem!NoneWaits(ops)'
              /\ \A d : Modem!LastIs(ops, d) => Modem!LastIs(ops, d)'
<1>1. PICK n \in Seq(Modem!Commands) : n = <<c>> /\ Len(n) = 1 /\ n[1] = c
  BY ModemOne
<1>2. Modem!Answered(n)
  BY <1>1
<1>3. ASSUME c.op \in ops PROVE Modem!LastIs(ops, c)' /\ ~Modem!NoneWaits(ops)'
  <2>1. 1 \in 1..Len(n) /\ n[1].op \in ops /\ \A j \in (1 + 1)..Len(n) : n[j].op \notin ops
    BY <1>1, <1>3
  <2>2. Modem!LastIs(ops, n[1])' /\ ~Modem!NoneWaits(ops)'
    BY <1>2, <2>1, ModemEndsWith
  <2> QED BY <1>1, <2>2
<1>4. ASSUME c.op \notin ops, Modem!Cmd.op \notin ops
      PROVE  /\ Modem!NoneWaits(ops) => Modem!NoneWaits(ops)'
             /\ ~Modem!NoneWaits(ops) => ~Modem!NoneWaits(ops)'
             /\ \A d : Modem!LastIs(ops, d) => Modem!LastIs(ops, d)'
  <2>1. \A i \in 1..Len(n) : n[i].op \notin ops
    BY <1>1, <1>4
  <2> QED BY <1>2, <1>4, <2>1, ModemPasses
<1> QED BY <1>3, <1>4

\* Behind such a read no change of the control waits.
LEMMA ModemNoneCrosses ==
  ASSUME Modem!QueueInv, r1 # <<>>, NEW what, Modem!Crossed(what) = {}
  PROVE  \A i \in 2..Len(r1) : r1[i].op # what
BY DEF Modem!Crossed

\* After a read that nothing crossed, what waits is no change of the control.
LEMMA ModemIsRead ==
  ASSUME Modem!QueueInv, r1 # <<>>, NEW next \in Seq(Modem!Commands), Modem!Answered(next),
         NEW what, NEW ops,
         Modem!Crossed(what) = {}, \A i \in 1..Len(next) : next[i].op # what
  PROVE  Modem!NoneWaits(ops)' \/ \E c \in Modem!Commands : Modem!LastIs(ops, c)' /\ c.op # what
<1>1. r1' \in Seq(Modem!Commands)
  BY ModemDrops
<1>2. \A k \in 1..Len(r1') : r1'[k].op # what
  BY ModemAfter, ModemNoneCrosses
<1>3. CASE \A i \in 1..Len(r1') : r1'[i].op \notin ops
  BY <1>3 DEF Modem!NoneWaits
<1>4. ASSUME NEW i \in 1..Len(r1'), r1'[i].op \in ops,
             \A j \in (i + 1)..Len(r1') : r1'[j].op \notin ops
      PROVE  \E c \in Modem!Commands : Modem!LastIs(ops, c)' /\ c.op # what
  <2>1. PICK c \in Modem!Commands : c = r1'[i]
    BY <1>1, ElementOfSeq
  <2>2. Modem!LastIs(ops, c)'
    BY <1>4, <2>1 DEF Modem!LastIs
  <2> QED BY <1>2, <2>1, <2>2
<1> QED BY <1>1, <1>3, <1>4, ModemLast

\* Commands about VoNR and their answers.
LEMMA ModemTruthVonr ==
  ASSUME Modem!QueueInv, Modem!TruthInv, Modem!VonrAnswered \/ Modem!VonrFails \/ Modem!VonrRead
  PROVE  Modem!TruthInv'
<1>1. r1 # <<>> /\ Modem!Cmd.op \in {"vonr", "vonrRead"} /\ UNCHANGED <<r3, r4, r6, r9>>
  BY DEF Modem!VonrAnswered, Modem!VonrFails, Modem!VonrRead
<1>2. Modem!Cmd.op \notin Modem!PinOps
  BY <1>1 DEF Modem!PinOps
<1>3. /\ Modem!Cmd \in Modem!Commands
      /\ Modem!Cmd.op = "vonr" => Modem!Cmd.v \in Modem!Bits
  BY <1>1, ModemRecords DEF Modem!Commands, Modem!SimCommands, Modem!AirCommands,
                            Modem!OtherCommands
<1>4. r5'.ims = r5.ims
  BY ModemRecords DEF Modem!VonrAnswered, Modem!VonrFails, Modem!VonrRead
<1>5. r2'.pin = r2.pin /\ r2'.lock = r2.lock
  BY ModemRecords DEF Modem!VonrAnswered, Modem!VonrFails, Modem!VonrRead
<1>6. ("pin" \notin r10' => "pin" \notin r10) /\ ("ims" \notin r10' => "ims" \notin r10)
      /\ ("lock" \notin r10' => "lock" \notin r10)
  BY DEF Modem!VonrAnswered, Modem!VonrFails, Modem!VonrRead
<1>7. Modem!ImsShown'
  BY <1>1, <1>4, <1>6 DEF Modem!TruthInv, Modem!ImsShown
<1>8. Modem!PinComes' /\ Modem!LockComes'
  <2>1. /\ Modem!NoneWaits(Modem!PinOps) => Modem!NoneWaits(Modem!PinOps)'
        /\ ~Modem!NoneWaits(Modem!PinOps) => ~Modem!NoneWaits(Modem!PinOps)'
        /\ \A d : Modem!LastIs(Modem!PinOps, d) => Modem!LastIs(Modem!PinOps, d)'
    <3>1. CASE Modem!Answered(<<>>)
      BY <1>1, <1>2, <3>1, ModemNothingFollows
    <3>2. CASE Modem!ReadsVonr
      <4>1. PICK c \in Modem!Commands : c = [op |-> "vonrRead"]
        BY DEF Modem!Commands, Modem!OtherCommands
      <4>2. Modem!Answered(<<c>>) /\ c.op \notin Modem!PinOps
        BY <3>2, <4>1 DEF Modem!ReadsVonr, Modem!PinOps
      <4> QED BY <1>1, <1>2, <4>2, ModemOneFollows
    <3> QED BY <3>1, <3>2 DEF Modem!VonrAnswered, Modem!VonrFails, Modem!VonrRead
  <2> QED BY <1>1, <1>5, <1>6, <2>1, ModemPinStays DEF Modem!TruthInv
<1>9. Modem!VonrComes'
  <2>1. CASE Modem!VonrAnswered
    <3>1. r5'.vonr = Modem!Cmd.v /\ UNCHANGED <<r2, r10>> /\ Modem!Answered(<<>>) /\ Modem!Cmd.op = "vonr"
      BY <2>1, ModemRecords DEF Modem!VonrAnswered
    <3>2. ASSUME "vonr" \notin r10 PROVE ~Modem!NoneWaits(Modem!VonrOps)
      <4>1. Modem!Cmd = r1[1] /\ 1 \in 1..Len(r1)
        <5>1. Len(r1) \in Nat \ {0}
          BY <1>1, EmptySeq, LenProperties DEF Modem!QueueInv
        <5> QED BY <5>1 DEF Modem!Cmd, Modem!QueueInv
      <4> QED BY <3>1, <4>1 DEF Modem!NoneWaits, Modem!VonrOps
    <3>3. ASSUME "vonr" \notin r10' PROVE \E c \in Modem!Commands : Modem!LastIs(Modem!VonrOps, c) /\ Modem!VonrFits(c)
      BY <3>1, <3>2, <3>3 DEF Modem!TruthInv, Modem!VonrComes
    <3>4. ASSUME "vonr" \notin r10', NEW c \in Modem!Commands, Modem!LastIs(Modem!VonrOps, c),
                 Modem!VonrFits(c),
                 c = Modem!Cmd, Modem!NoneWaits(Modem!VonrOps)'
          PROVE  r2'.vonr = r5'.vonr
      BY <3>1, <3>4 DEF Modem!VonrFits
    <3>5. ASSUME NEW c \in Modem!Commands, Modem!VonrFits(c) PROVE Modem!VonrFits(c)'
      BY <3>1, <3>5 DEF Modem!VonrFits
    <3>6. \A d : Modem!LastIs(Modem!VonrOps, d) => Modem!LastIs(Modem!VonrOps, d)'
      \/ (d = Modem!Cmd /\ Modem!NoneWaits(Modem!VonrOps)')
      BY <1>1, <3>1, ModemNothingFollows
    <3> QED BY <3>3, <3>4, <3>5, <3>6 DEF Modem!VonrComes
  <2>2. CASE Modem!VonrFails
    <3>1. PICK c \in Modem!Commands : c = [op |-> "vonrRead"]
      BY DEF Modem!Commands, Modem!OtherCommands
    <3>2. Modem!Answered(<<c>>) /\ c.op \in Modem!VonrOps
      BY <2>2, <3>1 DEF Modem!VonrFails, Modem!ReadsVonr, Modem!VonrOps
    <3>3. Modem!LastIs(Modem!VonrOps, c)'
      BY <1>1, <3>2, ModemOneFollows
    <3>4. Modem!VonrFits(c)'
      BY <3>1 DEF Modem!VonrFits
    <3> QED BY <3>3, <3>4 DEF Modem!VonrComes
  <2>3. CASE Modem!VonrRead
    <3>1. SUFFICES ASSUME "vonr" \notin r10'
                   PROVE  \/ Modem!NoneWaits(Modem!VonrOps)' /\ r2'.vonr = r5'.vonr
                          \/ \E c \in Modem!Commands : Modem!LastIs(Modem!VonrOps, c)' /\ Modem!VonrFits(c)'
      BY DEF Modem!VonrComes
    <3>2. r2' = [r2 EXCEPT !.vonr = r5.vonr] /\ Modem!Crossed("vonr") = {} /\ r5' = r5 /\ Modem!Answered(<<>>)
      BY <2>3, <3>1 DEF Modem!VonrRead, Modem!Crossed
    <3>3. r2'.vonr = r5'.vonr
      BY <3>2, ModemRecords
    <3>4. PICK n \in Seq(Modem!Commands) : n = <<>> /\ Len(n) = 0
      BY ModemNone, Zenon
    <3>5. Modem!Answered(n) /\ \A i \in 1..Len(n) : n[i].op # "vonr"
      BY <3>2, <3>4
    <3>6. Modem!NoneWaits(Modem!VonrOps)'
      \/ \E c \in Modem!Commands : Modem!LastIs(Modem!VonrOps, c)' /\ c.op # "vonr"
      BY <1>1, <3>2, <3>5, ModemIsRead
    <3>7. ASSUME NEW c \in Modem!Commands, c.op # "vonr" PROVE Modem!VonrFits(c)'
      BY <3>7 DEF Modem!VonrFits
    <3> QED BY <3>3, <3>6, <3>7
  <2> QED BY <2>1, <2>2, <2>3
<1> QED BY <1>7, <1>8, <1>9 DEF Modem!TruthInv

\* An answer about something else leaves VoNR as it is.
LEMMA ModemVonrPasses ==
  ASSUME Modem!QueueInv, Modem!VonrComes, r1 # <<>>, Modem!Cmd.op \notin Modem!VonrOps,
         r2'.vonr = r2.vonr, r5'.vonr = r5.vonr,
         "vonr" \notin r10' => "vonr" \notin r10,
         \/ Modem!Answered(<<>>)
         \/ \E c \in Modem!Commands : Modem!Answered(<<c>>) /\ c.op \notin Modem!VonrOps
  PROVE  Modem!VonrComes'
<1>1. /\ Modem!NoneWaits(Modem!VonrOps) => Modem!NoneWaits(Modem!VonrOps)'
      /\ \A d : Modem!LastIs(Modem!VonrOps, d) => Modem!LastIs(Modem!VonrOps, d)'
  BY ModemNothingFollows, ModemOneFollows
<1> QED BY <1>1, ModemVonrStays

\* A PIN is accepted or refused.
LEMMA ModemTruthPin ==
  ASSUME Modem!QueueInv, Modem!TruthInv, Modem!PinAccepted \/ Modem!PinRefused \/ Modem!PinLost
  PROVE  Modem!TruthInv'
<1>1. r1 # <<>> /\ Modem!Cmd.op \in {"verify", "clck", "puk"} /\ UNCHANGED <<r2, r3, r5>>
  BY DEF Modem!PinAccepted, Modem!PinRefused, Modem!PinLost
<1>2. Modem!Cmd.op \notin Modem!VonrOps /\ Modem!Cmd.op \notin Modem!PinOps
  BY <1>1 DEF Modem!VonrOps, Modem!PinOps
<1>3. /\ "vonr" \notin r10' => "vonr" \notin r10
      /\ "pin" \notin r10' => "pin" \notin r10
      /\ "ims" \notin r10' => "ims" \notin r10
      /\ "lock" \notin r10' => "lock" \notin r10
  BY DEF Modem!PinAccepted, Modem!PinRefused, Modem!PinLost
<1>4. Modem!ImsShown'
  BY <1>1, <1>3 DEF Modem!TruthInv, Modem!ImsShown
<1>5. CASE Modem!PinAccepted
  <2>1. PICK c \in Modem!Commands : c = [op |-> "cpin"]
    BY DEF Modem!Commands, Modem!OtherCommands
  <2>2. Modem!Answered(<<c>>) /\ c.op \in Modem!PinOps /\ c.op \notin Modem!VonrOps /\ c.op # "clckRead"
    BY <1>5, <2>1 DEF Modem!PinAccepted, Modem!PinOps, Modem!VonrOps
  <2>3. Modem!LastIs(Modem!PinOps, c)' /\ ~Modem!NoneWaits(Modem!PinOps)'
    BY <1>1, <2>2, ModemOneFollows
  <2>4. Modem!PinFits(c)'
    BY <2>2 DEF Modem!PinFits
  <2>5. Modem!PinComes' /\ Modem!LockComes'
    BY <2>3, <2>4 DEF Modem!PinComes, Modem!LockComes
  <2>6. Modem!VonrComes'
    BY <1>1, <1>2, <1>3, <2>2, ModemVonrPasses DEF Modem!TruthInv
  <2> QED BY <1>4, <2>5, <2>6 DEF Modem!TruthInv
<1>6. CASE Modem!PinRefused
  <2>1. Modem!Answered(<<>>)
    BY <1>6 DEF Modem!PinRefused
  <2>2. Modem!VonrComes'
    BY <1>1, <1>2, <1>3, <2>1, ModemVonrPasses DEF Modem!TruthInv
  <2>3. /\ Modem!NoneWaits(Modem!PinOps) => Modem!NoneWaits(Modem!PinOps)'
        /\ ~Modem!NoneWaits(Modem!PinOps) => ~Modem!NoneWaits(Modem!PinOps)'
        /\ \A d : Modem!LastIs(Modem!PinOps, d) => Modem!LastIs(Modem!PinOps, d)'
    BY <1>1, <1>2, <2>1, ModemNothingFollows
  <2>4. CASE r6' = r6
    <3>1. Modem!PinComes' /\ Modem!LockComes'
      BY <1>1, <1>3, <2>3, <2>4, ModemPinStays DEF Modem!TruthInv
    <3> QED BY <1>4, <2>2, <3>1 DEF Modem!TruthInv
  <2>5. CASE r6' = Modem!CardDone(Modem!Cmd) /\ Modem!Cmd.op # "puk" /\ ~Modem!Cmd.right /\ "pin" \in r10'
    <3>1. \E s : r6' = [r6 EXCEPT !.tries = r6.tries - 1, !.state = s]
      BY <2>5 DEF Modem!CardDone
    <3>2. r6'.lock = r6.lock
      BY <3>1, ModemRecords
    <3>3. Modem!LockComes'
      BY <1>1, <1>3, <2>3, <3>2 DEF Modem!LockComes, Modem!TruthInv
    <3>4. Modem!PinComes'
      BY <2>5 DEF Modem!PinComes
    <3> QED BY <1>4, <2>2, <3>3, <3>4 DEF Modem!TruthInv
  <2>6. r6' = r6
    \/ (r6' = Modem!CardDone(Modem!Cmd) /\ Modem!Cmd.op # "puk" /\ ~Modem!Cmd.right /\ "pin" \in r10')
    BY <1>6 DEF Modem!PinRefused
  <2> QED BY <2>4, <2>5, <2>6
<1>7. CASE Modem!PinLost
  <2>1. Modem!Answered(<<>>) /\ "pin" \in r10' /\ "lock" \in r10'
    BY <1>7 DEF Modem!PinLost
  <2>2. Modem!VonrComes'
    BY <1>1, <1>2, <1>3, <2>1, ModemVonrPasses DEF Modem!TruthInv
  <2>3. Modem!PinComes' /\ Modem!LockComes'
    BY <2>1 DEF Modem!PinComes, Modem!LockComes
  <2> QED BY <1>4, <2>2, <2>3 DEF Modem!TruthInv
<1> QED BY <1>5, <1>6, <1>7

\* The state of the card is read, to be shown when the lock has been read too.
LEMMA ModemTruthCpin ==
  ASSUME Modem!QueueInv, Modem!TruthInv, Modem!CpinRead
  PROVE  Modem!TruthInv'
<1>1. r1 # <<>> /\ Modem!Cmd.op = "cpin" /\ UNCHANGED <<r2, r3, r5, r6, r10>>
  BY DEF Modem!CpinRead
<1>2. Modem!Cmd.op \notin Modem!VonrOps
  BY <1>1 DEF Modem!VonrOps
<1>3. PICK pin \in {r6.state, "unknown"} : Modem!Answered(<<[op |-> "clckRead", pin |-> pin]>>)
  BY DEF Modem!CpinRead, Modem!ReadsTwo
<1>4. pin \in Modem!States \union {"unknown"}
  BY <1>3, ModemRecords
<1>5. PICK c \in Modem!Commands : c = [op |-> "clckRead", pin |-> pin]
  BY <1>4 DEF Modem!Commands, Modem!OtherCommands
<1>6. Modem!Answered(<<c>>) /\ c.op = "clckRead" /\ c.pin = pin /\ c.op \in Modem!PinOps /\ c.op \notin Modem!VonrOps
  BY <1>3, <1>5 DEF Modem!PinOps, Modem!VonrOps
<1>7. Modem!LastIs(Modem!PinOps, c)' /\ ~Modem!NoneWaits(Modem!PinOps)'
  BY <1>1, <1>6, ModemOneFollows
<1>8. Modem!PinFits(c)'
  BY <1>1, <1>3, <1>6 DEF Modem!PinFits
<1>9. Modem!PinComes' /\ Modem!LockComes'
  BY <1>7, <1>8 DEF Modem!PinComes, Modem!LockComes
<1>10. Modem!VonrComes'
  BY <1>1, <1>2, <1>6, ModemVonrPasses DEF Modem!TruthInv
<1>11. Modem!ImsShown'
  BY <1>1 DEF Modem!ImsShown, Modem!TruthInv
<1> QED BY <1>9, <1>10, <1>11 DEF Modem!TruthInv

\* The lock is read, and both are shown.
LEMMA ModemTruthClck ==
  ASSUME Modem!QueueInv, Modem!TruthInv, Modem!ClckRead
  PROVE  Modem!TruthInv'
<1>1. r1 # <<>> /\ Modem!Cmd.op = "clckRead" /\ UNCHANGED <<r3, r5, r6>> /\ Modem!Answered(<<>>)
  BY DEF Modem!ClckRead
<1>2. Modem!Cmd.op \notin Modem!VonrOps /\ Modem!Cmd.op \in Modem!PinOps
  BY <1>1 DEF Modem!VonrOps, Modem!PinOps
<1>3. /\ "vonr" \notin r10' => "vonr" \notin r10
      /\ "ims" \notin r10' => "ims" \notin r10
  BY DEF Modem!ClckRead
<1>4. \E b \in {"unknown", IF r6.lock THEN "on" ELSE "off"} :
         r2' = [r2 EXCEPT !.pin = Modem!Cmd.pin, !.lock = b]
  BY DEF Modem!ClckRead
<1>5. /\ r2'.vonr = r2.vonr /\ r2'.pin = Modem!Cmd.pin
      /\ r2'.lock \in {"unknown", IF r6.lock THEN "on" ELSE "off"}
  BY <1>4, ModemRecords
<1>6. Modem!VonrComes'
  BY <1>1, <1>2, <1>3, <1>5, ModemVonrPasses DEF Modem!TruthInv
<1>7. Modem!ImsShown'
  BY <1>1, <1>3 DEF Modem!ImsShown, Modem!TruthInv
<1>8. Modem!LockComes'
  BY <1>1, <1>5 DEF Modem!LockComes
<1>9. Modem!PinComes'
  <2>1. CASE Modem!Cmd.pin \in {r6.state, "unknown"} /\ Modem!Crossed("clckRead") = {}
    <3>1. PICK n \in Seq(Modem!Commands) : n = <<>> /\ Len(n) = 0
      BY ModemNone, Zenon
    <3>2. Modem!Answered(n) /\ \A i \in 1..Len(n) : n[i].op # "clckRead"
      BY <1>1, <3>1
    <3>3. Modem!NoneWaits(Modem!PinOps)'
      \/ \E c \in Modem!Commands : Modem!LastIs(Modem!PinOps, c)' /\ c.op # "clckRead"
      BY <1>1, <2>1, <3>2, ModemIsRead
    <3>4. ASSUME NEW c \in Modem!Commands, c.op # "clckRead" PROVE Modem!PinFits(c)'
      BY <3>4 DEF Modem!PinFits
    <3>5. r2'.pin \in {r6'.state, "unknown"}
      BY <1>1, <1>5, <2>1
    <3> QED BY <3>3, <3>4, <3>5 DEF Modem!PinComes
  <2>2. CASE "pin" \in r10' <=> "pin" \in r10
    <3>1. SUFFICES ASSUME "pin" \notin r10
                   PROVE  \/ Modem!NoneWaits(Modem!PinOps)' /\ r2'.pin \in {r6'.state, "unknown"}
                          \/ \E c \in Modem!Commands : Modem!LastIs(Modem!PinOps, c)' /\ Modem!PinFits(c)'
      BY <2>2 DEF Modem!PinComes
    <3>2. ~Modem!NoneWaits(Modem!PinOps)
      <4>1. Modem!Cmd = r1[1] /\ 1 \in 1..Len(r1)
        <5>1. Len(r1) \in Nat \ {0}
          BY <1>1, EmptySeq, LenProperties DEF Modem!QueueInv
        <5> QED BY <5>1 DEF Modem!Cmd, Modem!QueueInv
      <4> QED BY <1>2, <4>1 DEF Modem!NoneWaits
    <3>3. PICK c \in Modem!Commands : Modem!LastIs(Modem!PinOps, c) /\ Modem!PinFits(c)
      BY <3>1, <3>2 DEF Modem!TruthInv, Modem!PinComes
    <3>4. Modem!PinFits(c)'
      BY <1>1, <3>3 DEF Modem!PinFits
    <3>5. Modem!LastIs(Modem!PinOps, c)' \/ (c = Modem!Cmd /\ Modem!NoneWaits(Modem!PinOps)')
      BY <1>1, <3>3, ModemNothingFollows
    <3>6. c = Modem!Cmd => r2'.pin \in {r6'.state, "unknown"}
      BY <1>1, <1>5, <3>3 DEF Modem!PinFits
    <3> QED BY <3>4, <3>5, <3>6
  <2> QED BY <2>1, <2>2 DEF Modem!ClckRead
<1> QED BY <1>6, <1>7, <1>8, <1>9 DEF Modem!TruthInv

\* The IMS switch is read.
LEMMA ModemTruthIms ==
  ASSUME Modem!QueueInv, Modem!TruthInv, Modem!ImsRead
  PROVE  Modem!TruthInv'
<1>1. r1 # <<>> /\ Modem!Cmd.op = "load" /\ UNCHANGED <<r2, r5, r6, r10>> /\ Modem!Answered(<<>>)
  BY DEF Modem!ImsRead
<1>2. Modem!Cmd.op \notin Modem!VonrOps /\ Modem!Cmd.op \notin Modem!PinOps
  BY <1>1 DEF Modem!VonrOps, Modem!PinOps
<1>3. Modem!VonrComes'
  BY <1>1, <1>2, ModemVonrPasses DEF Modem!TruthInv
<1>4. /\ Modem!NoneWaits(Modem!PinOps) => Modem!NoneWaits(Modem!PinOps)'
      /\ ~Modem!NoneWaits(Modem!PinOps) => ~Modem!NoneWaits(Modem!PinOps)'
      /\ \A d : Modem!LastIs(Modem!PinOps, d) => Modem!LastIs(Modem!PinOps, d)'
  BY <1>1, <1>2, ModemNothingFollows
<1>5. Modem!PinComes' /\ Modem!LockComes'
  BY <1>1, <1>4, ModemPinStays DEF Modem!TruthInv
<1>6. r3'.imssw \in {"unknown", Modem!Ims(r5.ims)}
  BY ModemRecords DEF Modem!ImsRead, Modem!Unread
<1>7. Modem!ImsShown'
  BY <1>1, <1>6 DEF Modem!ImsShown
<1> QED BY <1>3, <1>5, <1>7 DEF Modem!TruthInv

\* What follows a read of the whole page.
LEMMA ModemLoadFollows ==
  ASSUME Modem!QueueInv, Modem!LoadRead
  PROVE  \E next \in Seq(Modem!Commands) :
           /\ Modem!Answered(next)
           /\ \A i \in 1..Len(next) : next[i].op \in {"cpin", "load"}
           /\ Modem!Cmd.what # "slot" => \A i \in 1..Len(next) : next[i].op = "load"
           /\ Modem!Cmd.what = "slot" => /\ 1 \in 1..Len(next) /\ next[1] = [op |-> "cpin"]
                                         /\ \A j \in (1 + 1)..Len(next) : next[j].op = "load"
<1>1. r1 # <<>> /\ Modem!Cmd.op = "load" /\ Modem!Cmd.what # "ims"
      /\ Modem!Answered((IF Modem!Cmd.what = "slot" THEN <<[op |-> "cpin"]>> ELSE <<>>)
                  \o <<[op |-> "load", what |-> Modem!AfterLoad[Modem!Cmd.what]]>>)
  BY DEF Modem!LoadRead
<1>2. Modem!Cmd.what \in {"slot", "air", "vonr"}
  BY <1>1, ModemRecords DEF Modem!Commands, Modem!SimCommands, Modem!AirCommands,
                            Modem!OtherCommands
<1>3. PICK c \in Modem!Commands : c = [op |-> "cpin"] /\ c.op = "cpin"
  <2>1. [op |-> "cpin"] \in Modem!Commands /\ [op |-> "cpin"].op = "cpin"
    BY DEF Modem!Commands, Modem!OtherCommands
  <2> QED BY <2>1, Zenon
<1>4. PICK d \in Modem!Commands : d = [op |-> "load", what |-> Modem!AfterLoad[Modem!Cmd.what]] /\ d.op = "load"
  <2>1. Modem!AfterLoad[Modem!Cmd.what] \in {"slot", "air", "vonr", "ims"}
    BY <1>2 DEF Modem!AfterLoad
  <2>2. [op |-> "load", what |-> Modem!AfterLoad[Modem!Cmd.what]] \in Modem!Commands
    BY <2>1 DEF Modem!Commands, Modem!OtherCommands
  <2>3. [op |-> "load", what |-> Modem!AfterLoad[Modem!Cmd.what]].op = "load"
    OBVIOUS
  <2> QED BY <2>2, <2>3, Zenon
<1>5. CASE Modem!Cmd.what = "slot"
  <2>1. <<c>> \in Seq(Modem!Commands) /\ <<d>> \in Seq(Modem!Commands) /\ Len(<<c>>) = 1 /\ Len(<<d>>) = 1
        /\ <<c>>[1] = c /\ <<d>>[1] = d
    BY ModemOne
  <2>2. PICK n \in Seq(Modem!Commands) : n = <<c>> \o <<d>> /\ Len(n) = 2 /\ n[1] = c /\ n[2] = d
    <3>1. PICK s \in Seq(Modem!Commands), t \in Seq(Modem!Commands) :
             s = <<c>> /\ t = <<d>> /\ Len(s) = 1 /\ Len(t) = 1 /\ s[1] = c /\ t[1] = d
      BY <2>1
    <3>2. /\ s \o t \in Seq(Modem!Commands) /\ Len(s \o t) = Len(s) + Len(t)
          /\ \A i \in 1..Len(s) + Len(t) : (s \o t)[i] = IF i <= Len(s) THEN s[i] ELSE t[i - Len(s)]
      BY ConcatProperties, Zenon
    <3>3. Len(s \o t) = 2 /\ (s \o t)[1] = c /\ (s \o t)[2] = d
      BY <3>1, <3>2
    <3> QED BY <3>1, <3>2, <3>3
  <2>3. Modem!Answered(n)
    BY <1>1, <1>3, <1>4, <1>5, <2>2
  <2>4. \A i \in 1..Len(n) : i = 1 \/ i = 2
    BY <2>2
  <2>5. \A i \in 1..Len(n) : n[i].op \in {"cpin", "load"}
    BY <1>3, <1>4, <2>2, <2>4
  <2>6. 1 \in 1..Len(n) /\ n[1] = [op |-> "cpin"] /\ \A j \in (1 + 1)..Len(n) : n[j].op = "load"
    BY <1>3, <1>4, <2>2
  <2> QED BY <1>5, <2>3, <2>5, <2>6
<1>6. CASE Modem!Cmd.what # "slot"
  <2>1. PICK n \in Seq(Modem!Commands) : n = <<d>> /\ Len(n) = 1 /\ n[1] = d
    BY ModemOne
  <2>2. <<>> \o <<d>> = <<d>>
    BY <2>1, ConcatEmptySeq
  <2>3. Modem!Answered(n)
    BY <1>1, <1>4, <1>6, <2>1, <2>2
  <2>4. \A i \in 1..Len(n) : n[i].op = "load"
    BY <1>4, <2>1
  <2> QED BY <1>6, <2>3, <2>4
<1> QED BY <1>5, <1>6

\* A part of the whole page is read.
LEMMA ModemTruthLoad ==
  ASSUME Modem!QueueInv, Modem!TruthInv, Modem!LoadRead
  PROVE  Modem!TruthInv'
<1>1. r1 # <<>> /\ Modem!Cmd.op = "load" /\ UNCHANGED <<r3, r5, r6>>
  BY DEF Modem!LoadRead
<1>2. Modem!Cmd.op \notin Modem!VonrOps /\ Modem!Cmd.op \notin Modem!PinOps
  BY <1>1 DEF Modem!VonrOps, Modem!PinOps
<1>3. Modem!Cmd.what \in {"slot", "air", "vonr"}
  BY ModemRecords DEF Modem!LoadRead, Modem!Commands, Modem!SimCommands, Modem!AirCommands,
                      Modem!OtherCommands
<1>4. PICK next \in Seq(Modem!Commands) :
         /\ Modem!Answered(next)
         /\ \A i \in 1..Len(next) : next[i].op \in {"cpin", "load"}
         /\ Modem!Cmd.what # "slot" => \A i \in 1..Len(next) : next[i].op = "load"
         /\ Modem!Cmd.what = "slot" => /\ 1 \in 1..Len(next) /\ next[1] = [op |-> "cpin"]
                                       /\ \A j \in (1 + 1)..Len(next) : next[j].op = "load"
  BY ModemLoadFollows
<1>5. \A i \in 1..Len(next) : next[i].op \notin Modem!VonrOps /\ next[i].op # "vonr"
  BY <1>4 DEF Modem!VonrOps
<1>6. ("pin" \notin r10' => "pin" \notin r10) /\ ("ims" \notin r10' => "ims" \notin r10)
      /\ ("lock" \notin r10' => "lock" \notin r10)
  BY <1>3 DEF Modem!LoadRead
<1>7. Modem!ImsShown'
  BY <1>1, <1>6 DEF Modem!ImsShown, Modem!TruthInv
<1>8. PICK off \in BOOLEAN : off = ~r5.radio
  OBVIOUS
<1>9. \/ r2' = r2 /\ r10' = r10
      \/ /\ r10' = (r10 \ {Modem!Cmd.what}) \union Modem!Crossed(Modem!Cmd.what)
         /\ \/ Modem!Cmd.what = "slot" /\ r2' = [r2 EXCEPT !.slot = r5.slot]
            \/ Modem!Cmd.what = "air" /\ r2' = [r2 EXCEPT !.air = off]
            \/ Modem!Cmd.what = "vonr" /\ r2' = [r2 EXCEPT !.vonr = r5.vonr]
  BY <1>3, <1>8 DEF Modem!LoadRead
<1>10. r2'.pin = r2.pin /\ r2'.lock = r2.lock
  BY <1>9, ModemRecords
<1>11. Modem!PinComes' /\ Modem!LockComes'
  <2>1. CASE Modem!Cmd.what = "slot"
    <3>1. PICK c \in Modem!Commands : c = [op |-> "cpin"] /\ c.op \in Modem!PinOps /\ c.op # "clckRead"
      <4>1. [op |-> "cpin"] \in Modem!Commands
        BY DEF Modem!Commands, Modem!OtherCommands
      <4>2. PICK d \in Modem!Commands : d = [op |-> "cpin"]
        BY <4>1, Zenon
      <4>3. d.op \in Modem!PinOps /\ d.op # "clckRead"
        BY <4>2 DEF Modem!PinOps
      <4> QED BY <4>2, <4>3
    <3>2. 1 \in 1..Len(next) /\ next[1] = c /\ next[1].op \in Modem!PinOps
          /\ \A j \in (1 + 1)..Len(next) : next[j].op \notin Modem!PinOps
      BY <1>4, <2>1, <3>1 DEF Modem!PinOps
    <3>3. Modem!LastIs(Modem!PinOps, next[1])' /\ ~Modem!NoneWaits(Modem!PinOps)'
      BY <1>1, <1>4, <3>2, ModemEndsWith
    <3>4. Modem!LastIs(Modem!PinOps, c)' /\ ~Modem!NoneWaits(Modem!PinOps)'
      BY <3>2, <3>3
    <3>5. Modem!PinFits(c)'
      BY <3>1 DEF Modem!PinFits
    <3> QED BY <3>4, <3>5 DEF Modem!PinComes, Modem!LockComes
  <2>2. CASE Modem!Cmd.what # "slot"
    <3>1. \A i \in 1..Len(next) : next[i].op \notin Modem!PinOps
      BY <1>4, <2>2 DEF Modem!PinOps
    <3>2. /\ Modem!NoneWaits(Modem!PinOps) => Modem!NoneWaits(Modem!PinOps)'
          /\ ~Modem!NoneWaits(Modem!PinOps) => ~Modem!NoneWaits(Modem!PinOps)'
          /\ \A d : Modem!LastIs(Modem!PinOps, d) => Modem!LastIs(Modem!PinOps, d)'
      BY <1>1, <1>2, <1>4, <3>1, ModemPasses
    <3> QED BY <1>1, <1>6, <1>10, <3>2, ModemPinStays DEF Modem!TruthInv
  <2> QED BY <2>1, <2>2
<1>12. Modem!VonrComes'
  <2>1. CASE r2'.vonr = r2.vonr /\ ("vonr" \notin r10' => "vonr" \notin r10)
    <3>1. /\ Modem!NoneWaits(Modem!VonrOps) => Modem!NoneWaits(Modem!VonrOps)'
          /\ \A d : Modem!LastIs(Modem!VonrOps, d) => Modem!LastIs(Modem!VonrOps, d)'
      BY <1>1, <1>2, <1>4, <1>5, ModemPasses
    <3> QED BY <1>1, <2>1, <3>1, ModemVonrStays DEF Modem!TruthInv
  <2>2. CASE r2' = [r2 EXCEPT !.vonr = r5.vonr] /\ r10' = (r10 \ {"vonr"}) \union Modem!Crossed("vonr")
    <3>1. SUFFICES ASSUME "vonr" \notin r10'
                   PROVE  \/ Modem!NoneWaits(Modem!VonrOps)' /\ r2'.vonr = r5'.vonr
                          \/ \E c \in Modem!Commands : Modem!LastIs(Modem!VonrOps, c)' /\ Modem!VonrFits(c)'
      BY DEF Modem!VonrComes
    <3>2. Modem!Crossed("vonr") = {}
      BY <2>2, <3>1 DEF Modem!Crossed
    <3>3. r2'.vonr = r5'.vonr
      BY <1>1, <2>2, ModemRecords
    <3>4. Modem!NoneWaits(Modem!VonrOps)'
      \/ \E c \in Modem!Commands : Modem!LastIs(Modem!VonrOps, c)' /\ c.op # "vonr"
      BY <1>1, <1>4, <1>5, <3>2, ModemIsRead
    <3>5. ASSUME NEW c \in Modem!Commands, c.op # "vonr" PROVE Modem!VonrFits(c)'
      BY <3>5 DEF Modem!VonrFits
    <3> QED BY <3>3, <3>4, <3>5
  <2>3. CASE r2' = r2 /\ r10' = r10
    BY <2>1, <2>3
  <2>4. CASE Modem!Cmd.what \in {"slot", "air"} /\ r10' = (r10 \ {Modem!Cmd.what}) \union Modem!Crossed(Modem!Cmd.what)
             /\ (r2' = [r2 EXCEPT !.slot = r5.slot] \/ r2' = [r2 EXCEPT !.air = off])
    <3>1. r2'.vonr = r2.vonr
      BY <2>4, ModemRecords
    <3>2. "vonr" \notin r10' => "vonr" \notin r10
      BY <2>4
    <3> QED BY <2>1, <3>1, <3>2
  <2> QED BY <1>9, <2>2, <2>3, <2>4
<1> QED BY <1>7, <1>11, <1>12 DEF Modem!TruthInv

\* Every step keeps it.
LEMMA ModemTruthKept ==
  ASSUME Modem!ModemBounds, Modem!QueueInv, Modem!TruthInv, Modem!ModemNext
  PROVE  Modem!TruthInv'
<1>1. CASE Modem!ModemMoves
  BY <1>1, ModemTruthSlot, ModemTruthVonr, ModemTruthPin, ModemTruthCpin, ModemTruthClck,
  ModemTruthLoad,
     ModemTruthIms, ModemTruthCalls DEF Modem!ModemMoves
<1> QED BY <1>1, ModemTruthClicks, ModemTruthSelects, ModemTruthCalls DEF Modem!ModemNext

\* It speaks of nothing but the variables of the machine.
LEMMA ModemTruthStutters ==
  ASSUME Modem!QueueInv, Modem!TruthInv,
         UNCHANGED <<r1, r2, r3, r4, r5, r6, r7, r8, r9, r10>>
  PROVE  Modem!TruthInv'
<1>1. /\ r1' = r1 /\ r2' = r2 /\ r3' = r3
      /\ r5' = r5 /\ r6' = r6 /\ r10' = r10
  OBVIOUS
<1>2. Modem!VonrComes'
  BY <1>1, ModemStands, ModemVonrStays DEF Modem!TruthInv
<1>3. Modem!PinComes' /\ Modem!LockComes'
  BY <1>1, ModemStands, ModemPinStays DEF Modem!TruthInv
<1>4. Modem!ImsShown'
  BY <1>1 DEF Modem!TruthInv, Modem!ImsShown
<1> QED BY <1>2, <1>3, <1>4 DEF Modem!TruthInv

\* What it says.
LEMMA ModemTruthHolds == ASSUME Modem!QueueInv, Modem!TruthInv PROVE Modem!ShowsTheTruth
<1> SUFFICES ASSUME Modem!Quiet PROVE /\ Modem!NoneWaits(Modem!VonrOps) /\ Modem!NoneWaits(Modem!PinOps)
                                      /\ \A ops, d : ~Modem!LastIs(ops, d)
  BY DEF Modem!ShowsTheTruth, Modem!TruthInv, Modem!VonrComes, Modem!PinComes, Modem!LockComes,
         Modem!ImsShown
<1>1. Len(r1) = 0
  BY ModemNone DEF Modem!Quiet
<1> QED BY <1>1 DEF Modem!NoneWaits, Modem!LastIs

\* The invariant holds at the start.
LEMMA ModemBegins == ASSUME Modem!ModemBounds, Modem!ModemInit PROVE Modem!ModemInv
BY ModemQueueBegins, ModemTruthBegins DEF Modem!ModemInv

\* Every step keeps it.
LEMMA ModemKept == ASSUME Modem!ModemBounds, Modem!ModemInv, Modem!ModemNext PROVE Modem!ModemInv'
BY ModemQueueKept, ModemTruthKept DEF Modem!ModemInv

\* It speaks of nothing but the variables of the machine.
LEMMA ModemStutters ==
  ASSUME Modem!ModemInv, UNCHANGED <<r1, r2, r3, r4, r5, r6, r7, r8, r9, r10>>
  PROVE  Modem!ModemInv'
BY ModemQueueStutters, ModemTruthStutters DEF Modem!ModemInv

\* What it says.
LEMMA ModemHolds ==
  ASSUME Modem!ModemInv
  PROVE  Modem!ModemTypeOK /\ Modem!SlotChangeRestores /\ Modem!ShowsTheTruth
BY ModemQueueHolds, ModemTruthHolds DEF Modem!ModemInv

-----------------------------------------------------------------------------
(* A session with the eUICC.                                               *)

Session == INSTANCE EuiccSession WITH
    transport <- r1, pc <- r2, channel <- r3, left <- r4, failed <- r5,
    lastChannel <- r6, note <- r7, open <- r8, excused <- r9,
    sessions <- r10, trouble <- r11,
    MaxCh <- Size.session.channels, Work <- Size.session.work,
    Sessions <- Size.session.sessions, MaxTrouble <- Size.session.trouble

\* The page begins with no channel.
LEMMA SessionBegins == ASSUME Session!SessionBounds, Session!Init PROVE Session!SessionInv
<1>1. Session!FlagsOK
  BY DEF Session!Init, Session!FlagsOK
<1>2. Session!NumbersOK
  BY DEF Session!SessionBounds, Session!Init, Session!NumbersOK, Session!Null
<1>3. Session!NoteMeansLeak
  BY DEF Session!Init, Session!NoteMeansLeak
<1>4. Session!PlacesOK /\ Session!NoChannelLeft /\ Session!ChannelKnown
  BY DEF Session!SessionBounds, Session!Init, Session!Null, Session!PlacesOK,
         Session!NoChannelLeft, Session!ChannelKnown
<1> QED
  BY <1>1, <1>2, <1>3, <1>4 DEF Session!SessionInv, Session!ChannelInv

\* The two flags stay flags.
LEMMA SessionFlags ==
  ASSUME Session!FlagsOK, Session!Next
  PROVE  Session!FlagsOK'
BY DEF Session!FlagsOK, Session!Next, Session!Begin, Session!Opened, Session!OpenRefused,
       Session!OpenLost, Session!Selected, Session!PingRefused, Session!PingFails,
       Session!WorkDone, Session!WorkFails, Session!Close, Session!NothingToClose,
       Session!CloseLost, Session!PageClosed, Session!CardReset, Session!Done,
       Session!TakesChannel, Session!FallsBack, Session!AfterClose, Session!Goto, Session!Fail,
       Session!pageVars, Session!sessionVars, Session!vars

\* Opening a channel.
LEMMA SessionOpens ==
  ASSUME Session!SessionBounds, Session!ChannelInv, Session!Begin \/ Session!Opened
           \/ Session!OpenRefused \/ Session!OpenLost
  PROVE  Session!ChannelInv'
<1> USE DEF Session!SessionBounds, Session!ChannelInv, Session!PlacesOK, Session!NumbersOK,
            Session!NoChannelLeft, Session!ChannelKnown,
            Session!Null, Session!pageVars, Session!Goto, Session!Fail, Session!Trouble
<1>1. CASE Session!Begin
  BY <1>1 DEF Session!Begin
<1>2. CASE Session!Opened
  <2> PICK c \in 1..Size.session.channels \ r8 :
        /\ r8' = r8 \union {c} /\ r9' = r9 \ {c}
        /\ r3' = c /\ r6' = c
    BY <1>2 DEF Session!Opened, Session!TakesChannel
  <2>1. r2 = "open" /\ r2' = "select" /\ UNCHANGED <<r1, r11, r4>>
    BY <1>2 DEF Session!Opened
  <2>2. Session!PlacesOK'
    BY <2>1
  <2>3. Session!NumbersOK'
    BY <2>1
  <2>4. r8 \subseteq r9
    BY <2>1
  <2>5. Session!NoChannelLeft'
    <3> HIDE DEF Session!PlacesOK, Session!NumbersOK, Session!ChannelKnown
    <3> QED BY <2>4
  <2>6. Session!ChannelKnown'
    BY <2>1
  <2> QED BY <2>2, <2>3, <2>5, <2>6
<1>3. CASE Session!OpenRefused
  BY <1>3 DEF Session!OpenRefused
<1>4. CASE Session!OpenLost
  <2>1. /\ r2 = "open" /\ r2' = "close" /\ r11' = r11 - 1 /\ r11 > 0
        /\ UNCHANGED <<r1, r6, r4, r3>>
    BY <1>4 DEF Session!OpenLost
  <2>2. CASE UNCHANGED <<r8, r9>>
    BY <2>1, <2>2
  <2>3. CASE \E c \in 1..Size.session.channels \ r8 :
               r8' = r8 \union {c} /\ r9' = r9 \union {c}
    <3> PICK c \in 1..Size.session.channels \ r8 :
          r8' = r8 \union {c} /\ r9' = r9 \union {c}
      BY <2>3
    <3>1. Session!PlacesOK' /\ Session!NumbersOK'
      BY <2>1
    <3>2. Session!NoChannelLeft' /\ Session!ChannelKnown'
      BY <2>1
    <3> QED BY <3>1, <3>2
  <2> QED BY <1>4, <2>2, <2>3 DEF Session!OpenLost
<1> QED BY <1>1, <1>2, <1>3, <1>4

\* The exchanges on an open channel.
LEMMA SessionWorks ==
  ASSUME Session!SessionBounds, Session!ChannelInv,
         Session!Selected \/ Session!PingRefused \/ Session!PingFails \/ Session!WorkDone
           \/ Session!WorkFails
  PROVE  Session!ChannelInv'
<1> USE DEF Session!SessionBounds, Session!ChannelInv, Session!PlacesOK, Session!NumbersOK,
            Session!NoChannelLeft, Session!ChannelKnown,
            Session!Null, Session!pageVars, Session!Goto, Session!Fail
<1>1. CASE Session!Selected
  BY <1>1 DEF Session!Selected
<1>2. CASE Session!PingRefused
  BY <1>2 DEF Session!PingRefused, Session!FallsBack
<1>3. CASE Session!PingFails
  BY <1>3 DEF Session!PingFails
<1>4. CASE Session!WorkDone
  BY <1>4 DEF Session!WorkDone
<1>5. CASE Session!WorkFails
  BY <1>5 DEF Session!WorkFails
<1> QED BY <1>1, <1>2, <1>3, <1>4, <1>5

\* Closing, and what breaks a session off: a channel is closed, or it is one
\* of those whose close went wrong.
LEMMA SessionCloses ==
  ASSUME Session!SessionBounds, Session!ChannelInv,
         Session!Close \/ Session!NothingToClose \/ Session!CloseLost \/ Session!PageClosed
           \/ Session!CardReset
  PROVE  Session!ChannelInv'
<1> USE DEF Session!SessionBounds, Session!ChannelInv, Session!PlacesOK, Session!NumbersOK,
            Session!NoChannelLeft, Session!ChannelKnown,
            Session!Null, Session!pageVars, Session!sessionVars, Session!Trouble, Session!Closes,
            Session!AfterClose
<1>1. CASE Session!Close
  BY <1>1 DEF Session!Close
<1>2. CASE Session!NothingToClose
  BY <1>2 DEF Session!NothingToClose
<1>3. CASE Session!CloseLost
  BY <1>3 DEF Session!CloseLost
<1>4. CASE Session!PageClosed
  BY <1>4 DEF Session!PageClosed
<1>5. CASE Session!CardReset
  BY <1>5 DEF Session!CardReset
<1> QED BY <1>1, <1>2, <1>3, <1>4, <1>5

\* Without trouble no channel is open when one is opened, so that the card opens
\* the first one and its number hints at nothing; and trouble does not come back.
LEMMA SessionNotes ==
  ASSUME Session!SessionBounds, Session!ChannelInv, Session!NoteMeansLeak, Session!Next
  PROVE  Session!NoteMeansLeak'
<1>1. r11 \in 0..Size.session.trouble /\ r11' \in {r11, r11 - 1}
  BY DEF Session!ChannelInv, Session!ChannelKnown, Session!Next, Session!Begin, Session!Opened,
         Session!OpenRefused, Session!OpenLost, Session!Selected,
         Session!PingRefused, Session!PingFails, Session!WorkDone, Session!WorkFails,
         Session!Close, Session!NothingToClose, Session!CloseLost,
         Session!PageClosed, Session!CardReset, Session!Done, Session!pageVars,
         Session!sessionVars, Session!vars, Session!Trouble
<1>2. r11 = Size.session.trouble => ~r7
  BY DEF Session!SessionBounds, Session!NoteMeansLeak
<1>3. r11 = Size.session.trouble => ~r7'
  <2> SUFFICES ASSUME r11 = Size.session.trouble, ~r7 PROVE ~r7'
    BY <1>2
  <2>1. CASE Session!Opened
    <3> PICK c \in 1..Size.session.channels \ r8 : Session!Lowest(c) /\ Session!TakesChannel(c)
      BY <2>1 DEF Session!Opened
    <3>1. r8 = {}
      BY <2>1 DEF Session!Opened, Session!SessionBounds, Session!ChannelInv, Session!PlacesOK,
                  Session!NoChannelLeft, Session!ChannelKnown, Session!Null
    <3>2. c = 1
      BY <3>1 DEF Session!SessionBounds, Session!Lowest
    <3>3. ~(r6 > 0 /\ c > r6)
      BY <3>2 DEF Session!ChannelInv, Session!NumbersOK
    <3> QED BY <3>3 DEF Session!TakesChannel
  <2>2. CASE Session!Next /\ ~Session!Opened
    BY <2>2 DEF Session!Next, Session!Begin, Session!OpenRefused, Session!OpenLost,
                Session!Selected, Session!PingRefused, Session!PingFails,
                Session!WorkDone, Session!WorkFails, Session!Close, Session!NothingToClose,
                Session!CloseLost, Session!PageClosed, Session!CardReset,
                Session!Done, Session!FallsBack, Session!AfterClose, Session!pageVars,
                Session!sessionVars, Session!vars
  <2> QED BY <2>1, <2>2
<1> QED
  BY <1>1, <1>3 DEF Session!SessionBounds, Session!NoteMeansLeak

\* Every step keeps it.
LEMMA SessionKept ==
  ASSUME Session!SessionBounds, Session!SessionInv, Session!Next
  PROVE  Session!SessionInv'
<1>1. CASE ~Session!Done
  BY <1>1, SessionOpens, SessionWorks, SessionCloses, SessionFlags, SessionNotes DEF Session!Next,
  Session!SessionInv
<1>2. CASE Session!Done
  BY <1>2 DEF Session!Done, Session!vars, Session!pageVars, Session!sessionVars,
              Session!SessionInv, Session!ChannelInv, Session!PlacesOK, Session!NumbersOK,
              Session!FlagsOK, Session!NoChannelLeft, Session!NoteMeansLeak, Session!ChannelKnown
<1> QED BY <1>1, <1>2

\* It speaks of nothing but the variables of the machine.
LEMMA SessionStutters ==
  ASSUME Session!SessionInv, UNCHANGED <<r1, r2, r3, r4, r5, r6, r7, r8, r9, r10, r11>>
  PROVE  Session!SessionInv'
BY DEF Session!PlacesOK, Session!NumbersOK, Session!FlagsOK, Session!NoChannelLeft,
       Session!NoteMeansLeak, Session!ChannelKnown,
       Session!ChannelInv, Session!SessionInv

\* What it says.
LEMMA SessionHolds ==
  ASSUME Session!SessionInv
  PROVE  Session!SessionTypeOK /\ Session!NoChannelLeft /\ Session!NoteMeansLeak
BY DEF Session!SessionInv, Session!ChannelInv, Session!SessionTypeOK

\* Every channel that is open on the card belongs to the session under way or to
\* an exchange that went wrong, and the note of a leak is shown only after
\* trouble, for all bounds.
THEOREM SessionInvariant ==
  ASSUME Session!SessionBounds
  PROVE  Session!Spec => []Session!SessionInv
<1>1. Session!SessionInv /\ [Session!Next]_Session!vars => Session!SessionInv'
  <2>1. Session!SessionInv /\ Session!Next => Session!SessionInv'
    BY SessionKept
  <2>2. Session!SessionInv /\ UNCHANGED Session!vars => Session!SessionInv'
    BY DEF Session!vars, Session!pageVars, Session!sessionVars, Session!SessionInv,
           Session!ChannelInv, Session!PlacesOK, Session!NumbersOK,
           Session!FlagsOK, Session!NoChannelLeft, Session!NoteMeansLeak, Session!ChannelKnown
  <2> QED BY <2>1, <2>2
<1>2. Session!Init => Session!SessionInv
  BY SessionBegins
<1> QED BY <1>1, <1>2, PTL DEF Session!Spec

\* No path of a session leaves a channel behind.
THEOREM NoChannelIsLeft ==
  ASSUME Session!SessionBounds
  PROVE  Session!Spec => []Session!NoChannelLeft
<1>1. Session!SessionInv => Session!NoChannelLeft
  BY SessionHolds
<1> QED BY <1>1, SessionInvariant, PTL

\* The note of a leak is never a false alarm.
THEOREM NoteIsTrue ==
  ASSUME Session!SessionBounds
  PROVE  Session!Spec => []Session!NoteMeansLeak
<1>1. Session!SessionInv => Session!NoteMeansLeak
  BY SessionHolds
<1> QED BY <1>1, SessionInvariant, PTL

-----------------------------------------------------------------------------
(* The form of the schedule.                                               *)

Sched == INSTANCE SchedulePanel WITH
    checked <- r1, editable <- r2, draft <- r3, shown <- r4, known <- r5,
    busy <- r6, at <- r7, payload <- r8, meant <- r9, commits <- r10,
    loading <- r11, staged <- r12, backend <- r13, edits <- r14,
    fails <- r15,
    Bands <- Size.sched.bands, Channels <- Size.sched.channels,
    MaxRows <- Size.sched.rows, Intervals <- Size.sched.intervals,
    Edits <- Bound.edits, MaxFail <- Size.sched.failed

\* The invariant holds at the start.
LEMMA PanelBegins == ASSUME Sched!Init PROVE Sched!PanelInv
<1>1. r3 = Sched!NoDraft /\ r4 = 0 /\ r7 = "idle"
  BY DEF Sched!Init
<1>2. r3 = [type |-> r3.type, rows |-> r3.rows, interval |-> r4]
  BY <1>1 DEF Sched!NoDraft
<1> QED BY <1>1, <1>2 DEF Sched!PanelInv, Sched!EditableOnlyWhenOn, Sched!SendsShownInterval

\* The form is built anew.
LEMMA PanelLoads ==
  ASSUME Sched!PanelInv, Sched!Load \/ Sched!LoadAfterSave
  PROVE  Sched!PanelInv'
<1>1. PICK a : Sched!LoadsFrom(a)
  BY DEF Sched!Load, Sched!LoadAfterSave
<1>2. r3' = [type |-> r3'.type, rows |-> r3'.rows, interval |-> r4']
  <2>1. CASE a = Sched!NotRead
    BY <1>1, <2>1 DEF Sched!LoadsFrom, Sched!PanelInv
  <2>2. CASE a # Sched!NotRead
    <3>1. /\ r3' = [type |-> a.lists.type, rows |-> Sched!FromLists(a.lists), interval |-> a.interval]
          /\ r4' = a.interval
      BY <1>1, <2>2 DEF Sched!LoadsFrom
    <3> QED BY <3>1
  <2> QED BY <2>1, <2>2
<1>3. Sched!EditableOnlyWhenOn'
  BY <1>1 DEF Sched!LoadsFrom, Sched!Built, Sched!EditableOnlyWhenOn
<1>4. Sched!SendsShownInterval'
  BY DEF Sched!Load, Sched!LoadAfterSave, Sched!PanelInv, Sched!SendsShownInterval, Sched!saveVars
<1> QED BY <1>2, <1>3, <1>4 DEF Sched!PanelInv

\* The switch is flipped, or goes back.
LEMMA PanelFlips ==
  ASSUME Sched!PanelInv, Sched!Toggle \/ \E on \in r10 : Sched!Committed(on)
           \/ Sched!NotCommitted(on)
  PROVE  Sched!PanelInv'
<1>1. UNCHANGED <<r3, r4, r7, r8, r9>>
  BY DEF Sched!Toggle, Sched!Committed, Sched!NotCommitted, Sched!formVars, Sched!saveVars
<1>2. (r1' = r1 /\ r2' = r2) \/ \E on : Sched!Shows(on)
  BY DEF Sched!Toggle, Sched!Committed, Sched!NotCommitted, Sched!formVars
<1>3. Sched!EditableOnlyWhenOn'
  BY <1>1, <1>2 DEF Sched!Shows, Sched!PanelInv, Sched!EditableOnlyWhenOn
<1> QED BY <1>1, <1>3 DEF Sched!PanelInv, Sched!SendsShownInterval

\* The draft is changed.
LEMMA PanelEdits ==
  ASSUME Sched!PanelInv,
         \/ \E t \in Sched!Types : Sched!EditType(t)
         \/ \E i \in DOMAIN r3.rows :
               \/ Sched!DeleteRow(i)
               \/ \E r \in Sched!Row : Sched!EditRow(i, r)
         \/ Sched!AddRow
         \/ \E v \in Size.sched.intervals : Sched!TypeInterval(v)
  PROVE  Sched!PanelInv'
<1>1. /\ UNCHANGED <<r1, r2, r7, r8, r9>> /\ r3 # Sched!NoDraft
  BY DEF Sched!EditType, Sched!DeleteRow, Sched!EditRow, Sched!AddRow, Sched!TypeInterval,
         Sched!Changes, Sched!saveVars
<1>2. r3 = [type |-> r3.type, rows |-> r3.rows, interval |-> r4]
  BY DEF Sched!PanelInv
<1>3. r3' = [type |-> r3'.type, rows |-> r3'.rows, interval |-> r4']
  <2>1. ASSUME NEW t, Sched!EditType(t) PROVE r3' = [type |-> r3'.type, rows |-> r3'.rows, interval |-> r4']
    <3>1. r3' = [r3 EXCEPT !.type = t] /\ r4' = r4
      BY <2>1 DEF Sched!EditType, Sched!Changes
    <3> QED BY <1>2, <3>1
  <2>2. ASSUME NEW i, NEW r, Sched!EditRow(i, r)
        PROVE  r3' = [type |-> r3'.type, rows |-> r3'.rows, interval |-> r4']
    <3>1. r3' = [r3 EXCEPT !.rows[i] = r] /\ r4' = r4
      BY <2>2 DEF Sched!EditRow, Sched!Changes
    <3> QED BY <1>2, <3>1
  <2>3. ASSUME Sched!AddRow PROVE r3' = [type |-> r3'.type, rows |-> r3'.rows, interval |-> r4']
    <3>1. \E x : r3' = [r3 EXCEPT !.rows = x] /\ r4' = r4
      BY <2>3 DEF Sched!AddRow, Sched!Changes
    <3> QED BY <1>2, <3>1
  <2>4. ASSUME NEW i, Sched!DeleteRow(i) PROVE r3' = [type |-> r3'.type, rows |-> r3'.rows, interval |-> r4']
    <3>1. \E x : r3' = [r3 EXCEPT !.rows = x] /\ r4' = r4
      BY <2>4 DEF Sched!DeleteRow, Sched!Changes
    <3> QED BY <1>2, <3>1
  <2>5. ASSUME NEW v, Sched!TypeInterval(v)
        PROVE  r3' = [type |-> r3'.type, rows |-> r3'.rows, interval |-> r4']
    <3>1. r3' = [r3 EXCEPT !.interval = Sched!Clamped(v)] /\ r4' = Sched!Clamped(v)
      BY <2>5 DEF Sched!TypeInterval, Sched!Changes, Sched!ShownAfter
    <3> QED BY <1>2, <3>1
  <2> QED BY <2>1, <2>2, <2>3, <2>4, <2>5
<1>4. Sched!EditableOnlyWhenOn'
  BY <1>1 DEF Sched!PanelInv, Sched!EditableOnlyWhenOn
<1>5. Sched!SendsShownInterval'
  BY <1>1 DEF Sched!PanelInv, Sched!SendsShownInterval
<1> QED BY <1>3, <1>4, <1>5 DEF Sched!PanelInv

\* The form is saved, or the status line is read.
LEMMA PanelSaves ==
  ASSUME Sched!PanelInv, Sched!Save \/ Sched!Saved \/ Sched!NotSaved \/ Sched!Poll
  PROVE  Sched!PanelInv'
<1>1. UNCHANGED <<r1, r2, r3, r4>>
  BY DEF Sched!Save, Sched!Saved, Sched!NotSaved, Sched!Poll, Sched!formVars
<1>2. Sched!EditableOnlyWhenOn' /\ r3' = [type |-> r3'.type, rows |-> r3'.rows, interval |-> r4']
  BY <1>1 DEF Sched!PanelInv, Sched!EditableOnlyWhenOn
<1>3. Sched!SendsShownInterval'
  <2>1. CASE Sched!Save
    <3>1. /\ r8' = [enabled |-> TRUE, interval |-> r3.interval, lists |-> Sched!ToLists(r3.type, r3.rows)]
          /\ r9' = [r3 EXCEPT !.interval = r4]
      BY <2>1 DEF Sched!Save
    <3>2. r3.interval = r4 /\ r8'.interval = r3.interval /\ r9'.interval = r4
      BY <3>1 DEF Sched!PanelInv
    <3> QED BY <3>2 DEF Sched!SendsShownInterval
  <2>2. CASE Sched!Saved \/ Sched!NotSaved
    BY <2>2 DEF Sched!Saved, Sched!NotSaved, Sched!SendsShownInterval
  <2>3. CASE Sched!Poll
    BY <2>3 DEF Sched!Poll, Sched!PanelInv, Sched!SendsShownInterval, Sched!saveVars
  <2> QED BY <2>1, <2>2, <2>3
<1> QED BY <1>2, <1>3 DEF Sched!PanelInv

\* Every step keeps it.
LEMMA PanelKept == ASSUME Sched!PanelInv, Sched!Next PROVE Sched!PanelInv'
BY PanelLoads, PanelFlips, PanelEdits, PanelSaves DEF Sched!Next, Sched!Moves

\* It speaks of nothing but the variables of the machine.
LEMMA PanelStutters ==
  ASSUME Sched!PanelInv,
         UNCHANGED <<r1, r2, r3, r4, r5, r6, r7, r8, r9, r10, r11,
                     r12, r13, r14, r15>>
  PROVE  Sched!PanelInv'
BY DEF Sched!PanelInv, Sched!EditableOnlyWhenOn, Sched!SendsShownInterval

\* What it says.
LEMMA PanelHolds == ASSUME Sched!PanelInv PROVE Sched!EditableOnlyWhenOn /\ Sched!SendsShownInterval
BY DEF Sched!PanelInv

\* The rows that name a band.
LEMMA PanelPicks ==
  ASSUME NEW rows \in Seq(Sched!Row)
  PROVE  Sched!Valid(rows) \in Seq(Sched!Row)
<1> DEFINE I == {i \in DOMAIN rows : rows[i].band # Sched!NoBand}
           Value(n, f) == IF n = 0 THEN <<>> ELSE IF n \in I THEN Append(f[n - 1],
           rows[n]) ELSE f[n - 1]
           Def(f) == f = [n \in 0..Len(rows) |-> Value(n, f)]
<1>1. Sched!Valid(rows) = (CHOOSE f : Def(f))[Len(rows)]
  BY DEF Sched!Valid, Sched!Picked
<1>2. \A f : Gathers(f, rows, I) <=> Def(f)
  BY DEF Gathers
<1> HIDE DEF Def, I
<1>3. \E f : Gathers(f, rows, I)
  BY PickExists
<1>4. PICK g : g = (CHOOSE f : Def(f)) /\ Gathers(g, rows, I)
  BY <1>2, <1>3
<1>5. g[Len(rows)] \in Seq(Sched!Row)
  BY <1>4, PickTells
<1> QED BY <1>1, <1>4, <1>5

\* A column of rows.
LEMMA PanelColumns ==
  ASSUME NEW rows \in Seq(Sched!Row)
  PROVE  /\ Sched!Column(rows, "band") \in Seq(Size.sched.bands \union {Sched!NoBand})
            /\ Len(Sched!Column(rows, "band")) = Len(rows)
         /\ Sched!Column(rows, "arfcn") \in Seq(Size.sched.channels \union {Sched!NoChannel})
            /\ Len(Sched!Column(rows, "arfcn")) = Len(rows)
         /\ \A i \in DOMAIN rows : /\ Sched!Column(rows, "band")[i] = rows[i].band
                                   /\ Sched!Column(rows, "arfcn")[i] = rows[i].arfcn
<1>1. \A i \in DOMAIN rows : rows[i].band \in Size.sched.bands \union {Sched!NoBand}
      /\ rows[i].arfcn \in Size.sched.channels \union {Sched!NoChannel}
  <2>1. \A i \in DOMAIN rows : rows[i] \in Sched!Row
    BY LenProperties
  <2>2. \A r \in Sched!Row : r.band \in Size.sched.bands \union {Sched!NoBand}
        /\ r.arfcn \in Size.sched.channels \union {Sched!NoChannel}
    BY DEF Sched!Row
  <2> QED BY <2>1, <2>2, Zenon
<1>2. DOMAIN rows = 1..Len(rows) /\ Len(rows) \in Nat
  BY LenProperties
<1>3. Sched!Column(rows, "band") = [i \in 1..Len(rows) |-> rows[i].band]
  BY <1>2, Zenon DEF Sched!Column
<1>4. Sched!Column(rows, "arfcn") = [i \in 1..Len(rows) |-> rows[i].arfcn]
  BY <1>2, Zenon DEF Sched!Column
<1> HIDE DEF Sched!Column
<1>5. Sched!Column(rows, "band") \in Seq(Size.sched.bands \union {Sched!NoBand})
      /\ Len(Sched!Column(rows, "band")) = Len(rows)
  BY <1>1, <1>2, <1>3
<1>6. Sched!Column(rows, "arfcn") \in Seq(Size.sched.channels \union {Sched!NoChannel})
      /\ Len(Sched!Column(rows, "arfcn")) = Len(rows)
  BY <1>1, <1>2, <1>4
<1> QED BY <1>2, <1>3, <1>4, <1>5, <1>6

\* Rows become lists.
LEMMA PanelLists ==
  ASSUME NEW rows \in Seq(Sched!Row), NEW type
  PROVE  /\ Sched!ToLists(type, rows).bands \in Seq(Size.sched.bands \union {Sched!NoBand})
         /\ Sched!ToLists(type, rows).arfcns \in Seq(Size.sched.channels \union {Sched!NoChannel})
<1>1. Sched!Valid(rows) \in Seq(Sched!Row)
  BY PanelPicks
<1>2. /\ Sched!Column(Sched!Valid(rows), "band") \in Seq(Size.sched.bands \union {Sched!NoBand})
      /\ Sched!Column(Sched!Valid(rows), "arfcn") \in Seq(Size.sched.channels \union {Sched!NoChannel})
  BY <1>1, PanelColumns
<1>3. <<>> \in Seq(Size.sched.bands \union {Sched!NoBand})
      /\ <<>> \in Seq(Size.sched.channels \union {Sched!NoChannel})
  OBVIOUS
<1>4. CASE type = 0
  BY <1>3, <1>4 DEF Sched!ToLists
<1>5. CASE type # 0
  <2>1. Sched!ToLists(type, rows).bands = Sched!Column(Sched!Valid(rows), "band")
    BY <1>5 DEF Sched!ToLists
  <2>2. Sched!ToLists(type, rows).arfcns = IF type = 1 THEN Sched!Column(Sched!Valid(rows),
        "arfcn") ELSE <<>>
    BY <1>5 DEF Sched!ToLists
  <2> QED BY <1>2, <1>3, <2>1, <2>2, Zenon
<1> QED BY <1>4, <1>5

\* Lists become rows.
LEMMA PanelRows ==
  ASSUME NEW l, l.bands \in Seq(Size.sched.bands \union {Sched!NoBand}),
         l.arfcns \in Seq(Size.sched.channels \union {Sched!NoChannel})
  PROVE  Sched!FromLists(l) \in Seq(Sched!Row)
<1>1. Sched!NewRow \in Sched!Row /\ <<Sched!NewRow>> \in Seq(Sched!Row)
  BY DEF Sched!NewRow, Sched!Row
<1>2. CASE l.bands = <<>>
  BY <1>1, <1>2 DEF Sched!FromLists
<1>3. CASE l.bands # <<>>
  <2> DEFINE At(i) == [band |-> l.bands[i],
             arfcn |-> IF i \in DOMAIN l.arfcns THEN l.arfcns[i] ELSE Sched!NoChannel]
  <2>1. DOMAIN l.bands = 1..Len(l.bands) /\ Len(l.bands) \in Nat
    BY LenProperties
  <2>2. ASSUME NEW i \in DOMAIN l.bands PROVE At(i) \in Sched!Row
    <3>1. l.bands[i] \in Size.sched.bands \union {Sched!NoBand}
      BY <2>1
    <3>2. (IF i \in DOMAIN l.arfcns THEN l.arfcns[i] ELSE Sched!NoChannel) \in Size.sched.channels
          \union {Sched!NoChannel}
      BY LenProperties
    <3> QED BY <3>1, <3>2 DEF Sched!Row
  <2>3. Sched!FromLists(l) = [i \in 1..Len(l.bands) |-> At(i)]
    BY <1>3, <2>1, Zenon DEF Sched!FromLists
  <2> HIDE DEF At
  <2>4. \A i \in 1..Len(l.bands) : At(i) \in Sched!Row
    BY <2>1, <2>2
  <2> QED BY <2>1, <2>3, <2>4
<1> QED BY <1>2, <1>3

\* A lock by channel comes back as its rows.
LEMMA PanelPairs ==
  ASSUME NEW rows \in Seq(Sched!Row), Sched!Valid(rows) # <<>>
  PROVE  Sched!FromLists(Sched!ToLists(1, rows)) = Sched!Valid(rows)
<1> DEFINE v == Sched!Valid(rows)
           bands == Sched!Column(v, "band")
           arfcns == Sched!Column(v, "arfcn")
           l == Sched!ToLists(1, rows)
<1>1. v \in Seq(Sched!Row)
  BY PanelPicks
<1>2. l.bands = bands /\ l.arfcns = arfcns
  BY DEF Sched!ToLists
<1>3. /\ bands \in Seq(Size.sched.bands \union {Sched!NoBand}) /\ Len(bands) = Len(v)
      /\ arfcns \in Seq(Size.sched.channels \union {Sched!NoChannel}) /\ Len(arfcns) = Len(v)
      /\ \A i \in DOMAIN v : bands[i] = v[i].band /\ arfcns[i] = v[i].arfcn
  BY <1>1, PanelColumns
<1> HIDE DEF bands, arfcns, l, v
<1>4. DOMAIN bands = DOMAIN v /\ DOMAIN arfcns = DOMAIN v /\ bands # <<>>
  <2>1. v # <<>>
    BY DEF v
  <2>2. Len(v) # 0
    BY <1>1, <2>1, EmptySeq
  <2> QED BY <1>1, <1>3, <2>2, LenProperties
<1>5. Sched!FromLists(l) = [i \in DOMAIN v |-> [band |-> bands[i], arfcn |-> IF i \in DOMAIN v THEN arfcns[i] ELSE Sched!NoChannel]]
  BY <1>2, <1>4, Zenon DEF Sched!FromLists
<1>6. \A i \in DOMAIN v : [band |-> v[i].band, arfcn |-> v[i].arfcn] = v[i]
  <2>1. \A i \in DOMAIN v : v[i] \in Sched!Row
    BY <1>1, LenProperties
  <2>2. \A r \in Sched!Row : [band |-> r.band, arfcn |-> r.arfcn] = r
    BY DEF Sched!Row
  <2> QED BY <2>1, <2>2, Zenon
<1>7. v = [i \in DOMAIN v |-> v[i]]
  BY <1>1
<1>8. Sched!FromLists(l) = v
  BY <1>3, <1>5, <1>6, <1>7
<1> QED BY <1>8 DEF l, v

\* The invariant holds at the start.
LEMMA RowsBegins == ASSUME Sched!Init PROVE Sched!RowsInv
<1> DEFINE Fits(l) == l.bands \in Seq(Size.sched.bands \union {Sched!NoBand})
           /\ l.arfcns \in Seq(Size.sched.channels \union {Sched!NoChannel})
<1>0. \A rows \in Seq(Sched!Row) : \A type : Fits(Sched!ToLists(type, rows))
  BY PanelLists
<1>1. /\ <<>> \in Seq(Sched!Row) /\ <<Sched!NewRow>> \in Seq(Sched!Row)
      /\ \A r \in [band : Size.sched.bands, arfcn : Size.sched.channels] : <<r>> \in Seq(Sched!Row)
  BY DEF Sched!Row, Sched!NewRow
<1>2. Sched!Config(r13)
  <2>1. r13 = [enabled |-> r13.enabled, interval |-> r13.interval, lists |-> r13.lists]
    BY DEF Sched!Init
  <2>2. \/ r13.lists = Sched!ToLists(0, <<Sched!NewRow>>)
        \/ \E r \in [band : Size.sched.bands,
           arfcn : Size.sched.channels] : r13.lists = Sched!ToLists(1, <<r>>)
    <3>1. r13.lists \in Sched!StoredLists
      BY DEF Sched!Init
    <3> QED BY <3>1 DEF Sched!StoredLists
  <2> HIDE DEF Fits
  <2>3. Fits(r13.lists)
    BY <1>0, <1>1, <2>2, Zenon
  <2> QED BY <2>1, <2>3, Zenon DEF Sched!Config, Fits
<1>3. Sched!Config(r5)
  <2>1. r5 = [enabled |-> FALSE, interval |-> 0, lists |-> Sched!ToLists(0, <<>>)]
    BY DEF Sched!Init, Sched!NotRead
  <2>2. Fits(Sched!ToLists(0, <<>>))
    BY <1>0, <1>1, Zenon
  <2> QED BY <2>1, <2>2 DEF Sched!Config
<1>4. /\ r3 = Sched!NoDraft /\ r8 = r13 /\ r7 = "idle"
  BY DEF Sched!Init
<1>5. Sched!NoDraft.rows \in Seq(Sched!Row)
  BY DEF Sched!NoDraft, Sched!NewRow, Sched!Row
<1>6. Sched!PairsKept
  BY <1>4 DEF Sched!PairsKept
<1> QED BY <1>2, <1>3, <1>4, <1>5, <1>6 DEF Sched!RowsInv

\* Every step keeps it.
LEMMA RowsKept == ASSUME Sched!PanelInv, Sched!RowsInv, Sched!Next PROVE Sched!RowsInv'
<1>0. /\ r3.rows \in Seq(Sched!Row) /\ Sched!Config(r13) /\ Sched!Config(r5) /\ Sched!Config(r8)
         /\ Sched!PairsKept
  BY DEF Sched!RowsInv
<1>2. ASSUME UNCHANGED <<r7, r8, r9>> \/ r7' # "send" PROVE Sched!PairsKept'
  BY <1>0, <1>2 DEF Sched!PairsKept
<1>3. ASSUME NEW a \in {r13, r5},
             Sched!LoadsFrom(a) PROVE Sched!Config(r5)' /\ r3'.rows \in Seq(Sched!Row)
  <2>1. Sched!Config(a) /\ r5' = a
    BY <1>0, <1>3 DEF Sched!LoadsFrom
  <2>2. CASE a = Sched!NotRead
    BY <1>0, <1>3, <2>1, <2>2 DEF Sched!LoadsFrom, Sched!Config
  <2>3. CASE a # Sched!NotRead
    <3>1. r3'.rows = Sched!FromLists(a.lists)
      BY <1>3, <2>3 DEF Sched!LoadsFrom
    <3>2. Sched!FromLists(a.lists) \in Seq(Sched!Row)
      BY <2>1, PanelRows DEF Sched!Config
    <3> QED BY <2>1, <3>1, <3>2 DEF Sched!Config
  <2> QED BY <2>2, <2>3
<1>4. CASE Sched!Load
  <2>1. PICK a \in {r13, r5} : Sched!LoadsFrom(a)
    BY <1>4 DEF Sched!Load
  <2>2. UNCHANGED <<r7, r8, r9, r13>>
    BY <1>4 DEF Sched!Load, Sched!saveVars
  <2> QED BY <1>0, <1>2, <1>3, <2>1, <2>2 DEF Sched!RowsInv, Sched!Config
<1>5. CASE Sched!LoadAfterSave
  <2>1. PICK a \in {r13, r5} : Sched!LoadsFrom(a)
    BY <1>5 DEF Sched!LoadAfterSave
  <2>2. UNCHANGED <<r8, r13>> /\ r7' = "idle"
    BY <1>5 DEF Sched!LoadAfterSave
  <2> QED BY <1>0, <1>2, <1>3, <2>1, <2>2 DEF Sched!RowsInv, Sched!Config
<1>6. CASE Sched!Poll
  <2>1. r5' \in {r13, r5} /\ UNCHANGED <<r3, r7, r8, r9, r13>>
    BY <1>6 DEF Sched!Poll, Sched!saveVars
  <2> QED BY <1>0, <1>2, <2>1 DEF Sched!RowsInv, Sched!Config
<1>7. ASSUME Sched!Toggle \/ Sched!NotSaved
               \/ \E on \in r10 : Sched!NotCommitted(on) PROVE Sched!RowsInv'
  <2>1. UNCHANGED <<r3, r5, r8, r13, r9>> /\ (r7' = r7 \/ r7' = "idle")
    BY <1>7 DEF Sched!Toggle, Sched!NotSaved, Sched!NotCommitted, Sched!saveVars, Sched!formVars
  <2> QED BY <1>0, <1>2, <2>1 DEF Sched!RowsInv, Sched!Config
<1>8. ASSUME NEW on \in r10, Sched!Committed(on) PROVE Sched!RowsInv'
  <2>1. r13' = [r13 EXCEPT !.enabled = r12] /\ UNCHANGED <<r3, r5, r7, r8, r9>>
    BY <1>8 DEF Sched!Committed, Sched!formVars, Sched!saveVars
  <2>2. Sched!Config(r13)'
    <3>1. r13' = [enabled |-> r12, interval |-> r13.interval, lists |-> r13.lists]
      BY <1>0, <2>1 DEF Sched!Config
    <3> QED BY <1>0, <3>1 DEF Sched!Config
  <2> QED BY <1>0, <1>2, <2>1, <2>2 DEF Sched!RowsInv, Sched!Config
<1>9. CASE Sched!Saved
  <2>1. r13' = r8 /\ r7' = "load" /\ UNCHANGED <<r3, r5, r8>>
    BY <1>9 DEF Sched!Saved, Sched!formVars
  <2> QED BY <1>0, <1>2, <2>1 DEF Sched!RowsInv, Sched!Config
<1>10. CASE Sched!Save
  <2>1. /\ ~Sched!Throws(r3.type, r3.rows) /\ UNCHANGED <<r3, r5, r13>>
        /\ r8' = [enabled |-> TRUE, interval |-> r3.interval, lists |-> Sched!ToLists(r3.type, r3.rows)]
        /\ r9' = [r3 EXCEPT !.interval = r4]
    BY <1>10 DEF Sched!Save, Sched!formVars
  <2>2. Sched!Config(r8)'
    <3>1. /\ Sched!ToLists(r3.type, r3.rows).bands \in Seq(Size.sched.bands \union {Sched!NoBand})
          /\ Sched!ToLists(r3.type,
             r3.rows).arfcns \in Seq(Size.sched.channels \union {Sched!NoChannel})
      BY <1>0, PanelLists
    <3> QED BY <2>1, <3>1 DEF Sched!Config
  <2>3. Sched!PairsKept'
    <3>1. SUFFICES ASSUME r9'.type = 1 PROVE Sched!FromLists(r8'.lists) = Sched!Valid(r9'.rows)
      BY DEF Sched!PairsKept
    <3>2. r9'.type = r3.type /\ r9'.rows = r3.rows
      BY <2>1 DEF Sched!PanelInv
    <3>3. Sched!Valid(r3.rows) # <<>>
      BY <2>1, <3>1, <3>2 DEF Sched!Throws
    <3>4. r8'.lists = Sched!ToLists(1, r3.rows)
      BY <2>1, <3>1, <3>2
    <3> QED BY <1>0, <3>2, <3>3, <3>4, PanelPairs
  <2> QED BY <1>0, <2>1, <2>2, <2>3 DEF Sched!RowsInv, Sched!Config
<1>11. ASSUME r3'.rows \in Seq(Sched!Row), UNCHANGED <<r5, r7, r8, r9, r13>> PROVE Sched!RowsInv'
  BY <1>0, <1>2, <1>11 DEF Sched!RowsInv, Sched!Config
<1>12. r3 = [type |-> r3.type, rows |-> r3.rows, interval |-> r4]
  BY DEF Sched!PanelInv
<1>13. ASSUME NEW t \in Sched!Types, Sched!EditType(t) PROVE Sched!RowsInv'
  <2>1. r3' = [r3 EXCEPT !.type = t] /\ UNCHANGED <<r5, r7, r8, r9, r13>>
    BY <1>13 DEF Sched!EditType, Sched!Changes, Sched!saveVars
  <2>2. r3'.rows = r3.rows
    BY <1>12, <2>1
  <2> QED BY <1>0, <1>11, <2>1, <2>2
<1>14. ASSUME NEW v \in Size.sched.intervals, Sched!TypeInterval(v) PROVE Sched!RowsInv'
  <2>1. r3' = [r3 EXCEPT !.interval = Sched!Clamped(v)] /\ UNCHANGED <<r5, r7, r8, r9, r13>>
    BY <1>14 DEF Sched!TypeInterval, Sched!Changes, Sched!saveVars
  <2>2. r3'.rows = r3.rows
    BY <1>12, <2>1
  <2> QED BY <1>0, <1>11, <2>1, <2>2
<1>15. Sched!NewRow \in Sched!Row /\ <<Sched!NewRow>> \in Seq(Sched!Row)
  BY DEF Sched!NewRow, Sched!Row
<1>16. CASE Sched!AddRow
  <2>1. r3' = [r3 EXCEPT !.rows = Append(@, Sched!NewRow)] /\ UNCHANGED <<r5, r7, r8, r9, r13>>
    BY <1>16 DEF Sched!AddRow, Sched!Changes, Sched!saveVars
  <2>2. r3'.rows = Append(r3.rows, Sched!NewRow)
    BY <1>12, <2>1
  <2>3. r3'.rows \in Seq(Sched!Row)
    BY <1>0, <1>15, <2>2
  <2> QED BY <1>11, <2>1, <2>3
<1>17. ASSUME NEW i \in DOMAIN r3.rows, NEW r \in Sched!Row,
              Sched!EditRow(i, r) PROVE Sched!RowsInv'
  <2>1. r3' = [r3 EXCEPT !.rows[i] = r] /\ UNCHANGED <<r5, r7, r8, r9, r13>>
    BY <1>17 DEF Sched!EditRow, Sched!Changes, Sched!saveVars
  <2>2. r3'.rows = [r3.rows EXCEPT ![i] = r]
    BY <1>12, <2>1
  <2>3. r3'.rows \in Seq(Sched!Row)
    BY <1>0, <1>17, <2>2
  <2> QED BY <1>11, <2>1, <2>3
<1>18. ASSUME NEW i \in DOMAIN r3.rows, Sched!DeleteRow(i) PROVE Sched!RowsInv'
  <2> DEFINE rest == Sched!Without(r3.rows, i)
  <2>1. r3' = [r3 EXCEPT !.rows = IF rest = <<>> THEN <<Sched!NewRow>> ELSE rest]
        /\ UNCHANGED <<r5, r7, r8, r9, r13>>
    BY <1>18 DEF Sched!DeleteRow, Sched!Changes, Sched!saveVars
  <2>2. rest \in Seq(Sched!Row)
    <3>1. i \in 1..Len(r3.rows) /\ Len(r3.rows) \in Nat
      BY <1>0, LenProperties
    <3>2. SubSeq(r3.rows, 1, i - 1) \in Seq(Sched!Row)
          /\ SubSeq(r3.rows, i + 1, Len(r3.rows)) \in Seq(Sched!Row)
      BY <1>0, <3>1
    <3>3. rest = SubSeq(r3.rows, 1, i - 1) \o SubSeq(r3.rows, i + 1, Len(r3.rows))
      BY DEF Sched!Without
    <3> HIDE DEF rest
    <3> QED BY <3>2, <3>3
  <2> HIDE DEF rest
  <2>3. r3'.rows = IF rest = <<>> THEN <<Sched!NewRow>> ELSE rest
    BY <1>12, <2>1
  <2> QED BY <1>11, <1>15, <2>1, <2>2, <2>3, Zenon
<1> QED BY <1>4, <1>5, <1>6, <1>7, <1>8, <1>9, <1>10, <1>13, <1>14, <1>16, <1>17,
       <1>18 DEF Sched!Next, Sched!Moves

\* It speaks of nothing but the variables of the machine.
LEMMA RowsStutters ==
  ASSUME Sched!RowsInv,
         UNCHANGED <<r1, r2, r3, r4, r5, r6, r7, r8, r9, r10, r11, r12, r13, r14, r15>>
  PROVE  Sched!RowsInv'
BY DEF Sched!RowsInv, Sched!vars, Sched!formVars, Sched!saveVars, Sched!Config, Sched!PairsKept

\* What it says.
LEMMA RowsHolds == ASSUME Sched!RowsInv PROVE Sched!PairsKept
BY DEF Sched!RowsInv

-----------------------------------------------------------------------------
(* Changes that wait.                                                      *)

Apply == INSTANCE Staged WITH
    items <- r1, batch <- r2, underWay <- r3, failed <- r4, applying <- r5,
    control <- r6, reading <- r7, setting <- r8, wanted <- r9,
    overtaken <- r10, edits <- r11, refused <- r12,
    Keys <- Size.staged.keys, Settings <- Size.staged.settings,
    Edits <- Size.staged.edits, MaxRefused <- Bound.fails

\* The invariant holds at the start.
LEMMA StagedBegins == ASSUME Apply!StagedBounds, Apply!StagedInit PROVE Apply!StagedInv
<1>1. r11 \in 0..Size.staged.edits
  BY DEF Apply!StagedBounds, Apply!StagedInit
<1>2. r1 = {} /\ r2 = {} /\ r3 = Apply!NoSetting /\ ~r5
  BY DEF Apply!StagedInit
<1>3. DOMAIN r8 = Size.staged.keys /\ DOMAIN r9 = Size.staged.keys /\ \A k \in Size.staged.keys : r9[k] = Apply!NoSetting
  BY DEF Apply!StagedInit
<1>4. Apply!ItemsApart /\ Apply!BatchOfItems /\ Apply!TriedOrWaits /\ Apply!KeptIsWanted
  BY <1>2 DEF Apply!ItemsApart, Apply!BatchOfItems, Apply!TriedOrWaits, Apply!KeptIsWanted
<1>5. Apply!SetOrKept
  BY <1>3 DEF Apply!SetOrKept
<1> QED BY <1>1, <1>3, <1>4, <1>5 DEF Apply!StagedInv

\* While a batch has items left there is a first one, and it is kept under its number.
LEMMA StagedFirst ==
  ASSUME Apply!StagedInv, r2 # {}
  PROVE  /\ Apply!First \in r2 /\ Apply!ItemOf(Apply!First) \in r1 /\ Apply!ItemOf(Apply!First).born = Apply!First
         /\ \A i \in r1 : i.born = Apply!First => i = Apply!ItemOf(Apply!First)
<1>1. r2 \in SUBSET Nat
  BY DEF Apply!StagedInv, Apply!ItemsApart, Apply!BatchOfItems
<1>2. \E b \in r2 : \A c \in r2 : b <= c
  BY <1>1, LeastNumber
<1>3. Apply!First \in r2
  BY <1>2 DEF Apply!First
<1>4. PICK i \in r1 : i.born = Apply!First
  BY <1>3 DEF Apply!StagedInv, Apply!BatchOfItems
<1>5. Apply!ItemOf(Apply!First) \in r1 /\ Apply!ItemOf(Apply!First).born = Apply!First
  BY <1>4 DEF Apply!ItemOf
<1> QED BY <1>3, <1>5 DEF Apply!StagedInv, Apply!ItemsApart

\* What a change makes of the items: one of its key, and the others as they were.
LEMMA StagedChanged ==
  ASSUME Apply!StagedBounds, Apply!StagedInv, NEW k \in Size.staged.keys,
         NEW s \in Size.staged.settings, r1' = Apply!Kept(k, s)
  PROVE  /\ \A j \in r1' : \/ j.key # k /\ j \in r1
                           \/ /\ j \in [key : {k}, run : {s}, born : Nat]
                              /\ \/ \E i \in r1 : i.key = k /\ i.born = j.born
                                 \/ j.born = Size.staged.edits - r11 /\ \A i \in r1 : i.key # k
         /\ \A i \in r1 : i.key # k => i \in r1'
         /\ \E j \in r1' : j.key = k /\ j.run = s
         /\ \A i \in r1 : \E j \in r1' : j.born = i.born
<1>0. \A i \in r1 : i \in [key : Size.staged.keys, run : Size.staged.settings, born : Nat]
  BY DEF Apply!StagedInv, Apply!ItemsApart
<1>1. CASE \A i \in r1 : i.key # k
  <2> DEFINE new == [key |-> k, run |-> s, born |-> Size.staged.edits - r11]
  <2>1. r1' = r1 \union {new}
    BY <1>1 DEF Apply!Kept
  <2>2. Size.staged.edits - r11 \in Nat
    BY DEF Apply!StagedBounds, Apply!StagedInv
  <2>3. /\ new \in [key : {k}, run : {s}, born : Nat]
        /\ new.key = k
        /\ new.run = s
        /\ new.born = Size.staged.edits - r11
    BY <2>2
  <2> QED BY <1>1, <2>1, <2>3
<1>2. CASE \E i \in r1 : i.key = k
  <2> DEFINE With(i) == IF i.key = k THEN [i EXCEPT !.run = s] ELSE i
  <2>1. r1' = {With(i) : i \in r1}
    BY <1>2 DEF Apply!Kept
  <2>2. ASSUME NEW i \in r1, i.key = k
        PROVE  With(i) \in [key : {k}, run : {s}, born : Nat] /\ With(i).key = k /\ With(i).run = s
               /\ With(i).born = i.born
    BY <1>0, <2>2
  <2>3. ASSUME NEW i \in r1, i.key # k PROVE With(i) = i
    BY <2>3
  <2> HIDE DEF With
  <2>4. ASSUME NEW i \in r1 PROVE With(i) \in r1'
    BY <2>1
  <2>5. ASSUME NEW j \in r1'
        PROVE  \/ j.key # k /\ j \in r1
               \/ /\ j \in [key : {k}, run : {s}, born : Nat]
                  /\ \E i \in r1 : i.key = k /\ i.born = j.born
    <3>1. PICK i \in r1 : j = With(i)
      BY <2>1, <2>5
    <3> QED BY <2>2, <2>3, <3>1
  <2>6. \A i \in r1 : i.key # k => i \in r1'
    BY <2>3, <2>4
  <2>7. \E j \in r1' : j.key = k /\ j.run = s
    BY <1>2, <2>2, <2>4
  <2>8. \A i \in r1 : \E j \in r1' : j.born = i.born
    BY <2>2, <2>3, <2>4
  <2> QED BY <2>5, <2>6, <2>7, <2>8
<1> QED BY <1>1, <1>2

\* The user changes a control.
LEMMA StagedChanges ==
  ASSUME Apply!StagedBounds, Apply!StagedInv, NEW k \in Size.staged.keys,
         NEW s \in Size.staged.settings, Apply!Change(k, s)
  PROVE  Apply!StagedInv'
<1>0. /\ r11 \in 0..Size.staged.edits /\ r11 > 0 /\ r11' = r11 - 1 /\ Size.staged.edits \in Nat
      /\ r1' = Apply!Kept(k, s)
      /\ UNCHANGED <<r2, r3, r4, r5, r8>>
      /\ r10' = IF r5 THEN r10 \union {k} ELSE r10 \ {k}
  BY DEF Apply!Change, Apply!StagedInv, Apply!StagedBounds
<1>1. r11' \in 0..Size.staged.edits /\ DOMAIN r8' = Size.staged.keys /\ DOMAIN r9' = Size.staged.keys
  BY <1>0 DEF Apply!Change, Apply!StagedInv
<1>2. \A j \in r1' : \/ j.key # k /\ j \in r1
                     \/ /\ j \in [key : {k}, run : {s}, born : Nat]
                        /\ \/ \E i \in r1 : i.key = k /\ i.born = j.born
                           \/ j.born = Size.staged.edits - r11 /\ \A i \in r1 : i.key # k
  BY <1>0, StagedChanged
<1>3. \A i \in r1 : i.key # k => i \in r1'
  BY <1>0, StagedChanged
<1>4. \E j \in r1' : j.key = k /\ j.run = s
  BY <1>0, StagedChanged
<1>5. \A i \in r1 : \E j \in r1' : j.born = i.born
  BY <1>0, StagedChanged
<1>6. \A i \in r1 : i \in [key : Size.staged.keys, run : Size.staged.settings, born : Nat] /\ i.born < Size.staged.edits - r11
  BY DEF Apply!StagedInv, Apply!ItemsApart
<1>7. \A i, j \in r1 : i.born = j.born \/ i.key = j.key => i = j
  BY DEF Apply!StagedInv, Apply!ItemsApart
<1>8. Apply!ItemsApart'
  <2>1. ASSUME NEW j \in r1'
        PROVE  /\ j \in [key : Size.staged.keys, run : Size.staged.settings, born : Nat]
               /\ j.born < Size.staged.edits - r11'
    <3>1. CASE j.key # k /\ j \in r1
      <4>1. j.born \in Nat /\ j.born < Size.staged.edits - r11
        BY <1>6, <3>1
      <4> QED BY <1>0, <1>6, <3>1, <4>1
    <3>2. CASE /\ j \in [key : {k}, run : {s}, born : Nat]
               /\ \/ \E i \in r1 : i.key = k /\ i.born = j.born
                  \/ j.born = Size.staged.edits - r11 /\ \A i \in r1 : i.key # k
      <4>1. j.born \in Nat /\ j \in [key : Size.staged.keys, run : Size.staged.settings, born : Nat]
        BY <3>2
      <4>2. j.born < Size.staged.edits - r11 \/ j.born = Size.staged.edits - r11
        BY <1>6, <3>2
      <4> QED BY <1>0, <4>1, <4>2
    <3> QED BY <1>2, <3>1, <3>2
  <2>2. ASSUME NEW i \in r1', NEW j \in r1', i.born = j.born \/ i.key = j.key PROVE i = j
    <3>1. CASE i.key # k /\ j.key # k
      BY <1>2, <1>7, <2>2, <3>1
    <3>2. CASE i.key = k /\ j.key = k
      <4>1. /\ i \in [key : {k}, run : {s}, born : Nat] /\ j \in [key : {k}, run : {s}, born : Nat]
        BY <1>2, <3>2
      <4>2. i.born = j.born
        BY <1>2, <1>7, <3>2
      <4> QED BY <4>1, <4>2
    <3>3. ASSUME NEW x \in r1', NEW y \in r1', x.key # k, y.key = k PROVE x.born # y.born
      <4>1. x \in r1 /\ x.born # Size.staged.edits - r11
        BY <1>2, <1>6, <3>3
      <4>2. \/ \E z \in r1 : z.key = k /\ z.born = y.born
            \/ y.born = Size.staged.edits - r11
        BY <1>2, <3>3
      <4> QED BY <1>7, <3>3, <4>1, <4>2
    <3> QED BY <2>2, <3>1, <3>2, <3>3
  <2> QED BY <2>1, <2>2 DEF Apply!ItemsApart
<1>9. Apply!BatchOfItems'
  <2>1. r2' \subseteq {i.born : i \in r1'}
    BY <1>0, <1>5 DEF Apply!StagedInv, Apply!BatchOfItems
  <2>2. r2 # {} => r5
    BY DEF Apply!StagedInv, Apply!BatchOfItems
  <2>3. Apply!First' = Apply!First
    BY <1>0 DEF Apply!First
  <2>4. ASSUME r3 # Apply!NoSetting
        PROVE  r2 # {} /\ \A i \in r1' : i.born = Apply!First => i.run = r3 \/ i.key \in r10'
    <3>1. /\ r2 # {} /\ r5
          /\ \A i \in r1 : i.born = Apply!First => i.run = r3 \/ i.key \in r10
      BY <2>2, <2>4 DEF Apply!StagedInv, Apply!BatchOfItems
    <3>2. r10' = r10 \union {k}
      BY <1>0, <3>1
    <3>3. ASSUME NEW j \in r1', j.born = Apply!First PROVE j.run = r3 \/ j.key \in r10'
      <4>1. CASE j.key # k /\ j \in r1
        BY <3>1, <3>2, <3>3, <4>1
      <4>2. CASE j.key = k
        BY <3>2, <4>2
      <4> QED BY <1>2, <4>1, <4>2
    <3> QED BY <3>1, <3>3
  <2> QED BY <1>0, <2>1, <2>2, <2>3, <2>4 DEF Apply!BatchOfItems
<1>10. Apply!TriedOrWaits'
  <2> SUFFICES ASSUME r5, NEW j \in r1'
               PROVE  j.born \in r2 \/ j.key \in r4 \union r10'
    BY <1>0 DEF Apply!TriedOrWaits
  <2>1. r10' = r10 \union {k}
    BY <1>0
  <2>2. j.key = k \/ j \in r1
    BY <1>2
  <2> QED BY <2>1, <2>2 DEF Apply!StagedInv, Apply!TriedOrWaits
<1>11. Apply!SetOrKept'
  <2> SUFFICES ASSUME NEW l \in Size.staged.keys, l \notin r10', r9'[l] # Apply!NoSetting
               PROVE  r8'[l] = r9'[l] \/ \E i \in r1' : i.key = l /\ i.run = r9'[l]
    BY DEF Apply!SetOrKept
  <2>1. r9'[l] = IF l = k THEN s ELSE r9[l]
    BY DEF Apply!Change, Apply!StagedInv
  <2>2. CASE l = k
    BY <1>4, <2>1, <2>2
  <2>3. CASE l # k
    <3>1. l \notin r10
      BY <1>0, <2>3
    <3>2. r8[l] = r9[l] \/ \E i \in r1 : i.key = l /\ i.run = r9[l]
      BY <2>1, <2>3, <3>1 DEF Apply!StagedInv, Apply!SetOrKept
    <3> QED BY <1>0, <1>3, <2>1, <2>3, <3>2
  <2> QED BY <2>2, <2>3
<1>12. Apply!KeptIsWanted'
  <2> SUFFICES ASSUME NEW j \in r1', j.key \notin r10' PROVE j.run = r9'[j.key]
    BY DEF Apply!KeptIsWanted
  <2>1. CASE j.key = k
    <3>1. j.run = s
      BY <1>2, <2>1
    <3>2. r9'[k] = s
      BY DEF Apply!Change, Apply!StagedInv
    <3> QED BY <2>1, <3>1, <3>2
  <2>2. CASE j.key # k
    <3>1. j \in r1 /\ j.key \notin r10
      BY <1>0, <1>2, <2>2
    <3>2. r9'[j.key] = r9[j.key]
      BY <1>6, <2>2, <3>1 DEF Apply!Change, Apply!StagedInv
    <3> QED BY <3>1, <3>2 DEF Apply!StagedInv, Apply!KeptIsWanted
  <2> QED BY <2>1, <2>2
<1> QED BY <1>1, <1>8, <1>9, <1>10, <1>11, <1>12 DEF Apply!StagedInv

\* The command of an item succeeds.
LEMMA StagedSent == ASSUME Apply!StagedBounds, Apply!StagedInv, Apply!Sent PROVE Apply!StagedInv'
<1> DEFINE it == Apply!ItemOf(Apply!First)
<1>0. /\ r3 # Apply!NoSetting /\ r8' = [r8 EXCEPT ![it.key] = r3] /\ r1' = r1 \ {it}
      /\ r2' = r2 \ {Apply!First} /\ r3' = Apply!NoSetting
      /\ UNCHANGED <<r4, r5, r9, r10, r11>>
  BY DEF Apply!Sent, Apply!Dropped
<1>1. r2 # {} /\ r5
  BY <1>0 DEF Apply!StagedInv, Apply!BatchOfItems
<1>2. /\ Apply!First \in r2 /\ it \in r1 /\ it.born = Apply!First
      /\ \A i \in r1 : i.born = Apply!First => i = it
  BY <1>1, StagedFirst
<1>3. it.run = r3 \/ it.key \in r10
  BY <1>0, <1>2 DEF Apply!StagedInv, Apply!BatchOfItems
<1> HIDE DEF it
<1>4. Apply!ItemsApart'
  BY <1>0 DEF Apply!StagedInv, Apply!ItemsApart
<1>5. Apply!BatchOfItems'
  <2>1. ASSUME NEW b \in r2' PROVE \E i \in r1' : i.born = b
    <3>1. b \in r2 /\ b # Apply!First
      BY <1>0, <2>1
    <3>2. PICK i \in r1 : i.born = b
      BY <3>1 DEF Apply!StagedInv, Apply!BatchOfItems
    <3> QED BY <1>0, <1>2, <3>1, <3>2
  <2>2. r2' \subseteq {i.born : i \in r1'}
    BY <2>1
  <2> QED BY <1>0, <1>1, <2>2 DEF Apply!BatchOfItems
<1>6. Apply!TriedOrWaits'
  <2> SUFFICES ASSUME NEW i \in r1' PROVE i.born \in r2' \/ i.key \in r4 \union r10
    BY <1>0 DEF Apply!TriedOrWaits
  <2>1. i \in r1 /\ i.born # Apply!First
    BY <1>0, <1>2
  <2> QED BY <1>0, <1>1, <2>1 DEF Apply!StagedInv, Apply!TriedOrWaits
<1>7. Apply!SetOrKept'
  <2> SUFFICES ASSUME NEW l \in Size.staged.keys, l \notin r10, r9[l] # Apply!NoSetting
               PROVE  r8'[l] = r9[l] \/ \E i \in r1' : i.key = l /\ i.run = r9[l]
    BY <1>0 DEF Apply!SetOrKept
  <2>1. r8[l] = r9[l] \/ \E i \in r1 : i.key = l /\ i.run = r9[l]
    BY DEF Apply!StagedInv, Apply!SetOrKept
  <2>2. CASE l # it.key
    BY <1>0, <2>1, <2>2 DEF Apply!StagedInv
  <2>3. CASE l = it.key
    <3>1. r8'[l] = r3 /\ it.run = r3
      BY <1>0, <1>3, <2>3 DEF Apply!StagedInv
    <3>2. it.run = r9[l]
      BY <1>2, <2>3 DEF Apply!StagedInv, Apply!KeptIsWanted
    <3> QED BY <3>1, <3>2
  <2> QED BY <2>2, <2>3
<1>8. Apply!KeptIsWanted'
  BY <1>0 DEF Apply!StagedInv, Apply!KeptIsWanted
<1> QED BY <1>0, <1>4, <1>5, <1>6, <1>7, <1>8 DEF Apply!StagedInv

\* The command of an item fails.
LEMMA StagedRefused ==
  ASSUME Apply!StagedBounds, Apply!StagedInv, Apply!Refused
  PROVE  Apply!StagedInv'
<1>0. /\ r3 # Apply!NoSetting /\ r4' = r4 \union {Apply!ItemOf(Apply!First).key}
      /\ r2' = r2 \ {Apply!First} /\ r3' = Apply!NoSetting
      /\ UNCHANGED <<r1, r5, r8, r9, r10, r11>>
  BY DEF Apply!Refused, Apply!AfterFailure
<1>1. r2 # {} /\ r5
  BY <1>0 DEF Apply!StagedInv, Apply!BatchOfItems
<1>2. \A i \in r1 : i.born = Apply!First => i = Apply!ItemOf(Apply!First)
  BY <1>1, StagedFirst
<1>3. Apply!ItemsApart' /\ Apply!KeptIsWanted' /\ Apply!SetOrKept'
  BY <1>0 DEF Apply!StagedInv, Apply!ItemsApart, Apply!KeptIsWanted, Apply!SetOrKept
<1>4. Apply!BatchOfItems'
  BY <1>0, <1>1 DEF Apply!StagedInv, Apply!BatchOfItems
<1>5. Apply!TriedOrWaits'
  <2> SUFFICES ASSUME NEW i \in r1 PROVE i.born \in r2' \/ i.key \in r4' \union r10
    BY <1>0 DEF Apply!TriedOrWaits
  <2>1. i.born \in r2 \/ i.key \in r4 \union r10
    BY <1>1 DEF Apply!StagedInv, Apply!TriedOrWaits
  <2>2. CASE i.born = Apply!First
    BY <1>0, <1>2, <2>2
  <2>3. CASE i.born # Apply!First
    BY <1>0, <2>1, <2>3
  <2> QED BY <2>2, <2>3
<1> QED BY <1>0, <1>3, <1>4, <1>5 DEF Apply!StagedInv

\* The next item is sent.
LEMMA StagedRuns == ASSUME Apply!StagedBounds, Apply!StagedInv, Apply!Run PROVE Apply!StagedInv'
<1>0. /\ r2 # {} /\ r3' = Apply!ItemOf(Apply!First).run
      /\ UNCHANGED <<r1, r2, r4, r5, r8, r9, r10, r11>>
  BY DEF Apply!Run
<1>1. \A i \in r1 : i.born = Apply!First => i.run = r3'
  BY <1>0, StagedFirst
<1>2. Apply!ItemsApart' /\ Apply!KeptIsWanted' /\ Apply!SetOrKept' /\ Apply!TriedOrWaits'
  BY <1>0 DEF Apply!StagedInv, Apply!ItemsApart, Apply!KeptIsWanted, Apply!SetOrKept,
              Apply!TriedOrWaits
<1>3. Apply!First' = Apply!First
  BY <1>0 DEF Apply!First
<1>4. Apply!BatchOfItems'
  BY <1>0, <1>1, <1>3 DEF Apply!StagedInv, Apply!BatchOfItems
<1> QED BY <1>0, <1>2, <1>4 DEF Apply!StagedInv

\* The user applies what waits.
LEMMA StagedApplies ==
  ASSUME Apply!StagedBounds, Apply!StagedInv, Apply!Apply
  PROVE  Apply!StagedInv'
<1>0. /\ ~r5 /\ r2' = {i.born : i \in r1}
      /\ UNCHANGED <<r1, r3, r8, r9, r10, r11>> /\ r5'
  BY DEF Apply!Apply
<1>1. r3 = Apply!NoSetting
  BY <1>0 DEF Apply!StagedInv, Apply!BatchOfItems
<1>2. Apply!ItemsApart' /\ Apply!KeptIsWanted' /\ Apply!SetOrKept'
  BY <1>0 DEF Apply!StagedInv, Apply!ItemsApart, Apply!KeptIsWanted, Apply!SetOrKept
<1>3. Apply!BatchOfItems'
  BY <1>0, <1>1 DEF Apply!BatchOfItems
<1>4. Apply!TriedOrWaits'
  BY <1>0 DEF Apply!TriedOrWaits
<1> QED BY <1>0, <1>2, <1>3, <1>4 DEF Apply!StagedInv

\* The end of an apply: what is still kept failed or was changed.
LEMMA StagedEnds ==
  ASSUME Apply!StagedBounds, Apply!StagedInv, Apply!ApplyEnds
  PROVE  Apply!StagedInv' /\ Apply!OthersTried
<1>0. /\ r5 /\ r2 = {} /\ r3 = Apply!NoSetting /\ r1' = Apply!KeptAfter /\ ~r5'
      /\ UNCHANGED <<r2, r3, r4, r8, r9, r10, r11>>
  BY DEF Apply!ApplyEnds
<1>1. \A i \in r1 : i.key \in r4 \union r10
  BY <1>0 DEF Apply!StagedInv, Apply!TriedOrWaits
<1>2. r1' \subseteq r1 /\ (r4 # {} => r1' = r1)
  BY <1>0 DEF Apply!KeptAfter
<1>3. Apply!ItemsApart' /\ Apply!KeptIsWanted'
  BY <1>0, <1>2 DEF Apply!StagedInv, Apply!ItemsApart, Apply!KeptIsWanted
<1>4. Apply!BatchOfItems' /\ Apply!TriedOrWaits'
  BY <1>0 DEF Apply!BatchOfItems, Apply!TriedOrWaits
<1>5. Apply!SetOrKept'
  <2> SUFFICES ASSUME NEW l \in Size.staged.keys, l \notin r10, r9[l] # Apply!NoSetting
               PROVE  r8[l] = r9[l] \/ \E i \in r1' : i.key = l /\ i.run = r9[l]
    BY <1>0 DEF Apply!SetOrKept
  <2>1. r8[l] = r9[l] \/ \E i \in r1 : i.key = l /\ i.run = r9[l]
    BY DEF Apply!StagedInv, Apply!SetOrKept
  <2>2. CASE r4 = {}
    BY <1>1, <2>1, <2>2
  <2>3. CASE r4 # {}
    BY <1>2, <2>1, <2>3
  <2> QED BY <2>2, <2>3
<1>6. Apply!StagedInv'
  BY <1>0, <1>3, <1>4, <1>5 DEF Apply!StagedInv
<1>7. Apply!OthersTried
  BY <1>1, <1>2 DEF Apply!OthersTried
<1> QED BY <1>6, <1>7

\* The user reverts what waits.
LEMMA StagedReverts ==
  ASSUME Apply!StagedBounds, Apply!StagedInv, Apply!Revert
  PROVE  Apply!StagedInv'
<1>0. /\ ~r5 /\ r1' = {} /\ r9' = [k \in Size.staged.keys |-> Apply!NoSetting]
      /\ UNCHANGED <<r2, r3, r5, r8, r11>>
  BY DEF Apply!Revert
<1>1. r2 = {} /\ r3 = Apply!NoSetting
  BY <1>0 DEF Apply!StagedInv, Apply!BatchOfItems
<1>2. DOMAIN r9' = Size.staged.keys /\ \A k \in Size.staged.keys : r9'[k] = Apply!NoSetting
  BY <1>0
<1>3. Apply!ItemsApart' /\ Apply!KeptIsWanted' /\ Apply!BatchOfItems' /\ Apply!TriedOrWaits'
  BY <1>0, <1>1 DEF Apply!ItemsApart, Apply!KeptIsWanted, Apply!BatchOfItems, Apply!TriedOrWaits
<1>4. Apply!SetOrKept'
  BY <1>2 DEF Apply!SetOrKept
<1> QED BY <1>0, <1>2, <1>3, <1>4 DEF Apply!StagedInv

\* What the invariant does not look at may change.
LEMMA StagedRests ==
  ASSUME Apply!StagedInv, UNCHANGED <<r1, r2, r3, r4, r5, r8, r9, r10, r11>>
  PROVE  Apply!StagedInv'
<1>1. Apply!ItemsApart' /\ Apply!KeptIsWanted' /\ Apply!SetOrKept' /\ Apply!TriedOrWaits'
  BY DEF Apply!StagedInv, Apply!ItemsApart, Apply!KeptIsWanted, Apply!SetOrKept, Apply!TriedOrWaits
<1>2. Apply!First' = Apply!First
  BY DEF Apply!First
<1>3. Apply!BatchOfItems'
  BY <1>2 DEF Apply!StagedInv, Apply!BatchOfItems
<1> QED BY <1>1, <1>3 DEF Apply!StagedInv

\* Every step keeps it.
LEMMA StagedKept ==
  ASSUME Apply!StagedBounds, Apply!StagedInv, Apply!StagedNext
  PROVE  Apply!StagedInv'
<1>1. ASSUME Apply!Reread PROVE Apply!StagedInv'
  BY <1>1, StagedRests DEF Apply!Reread
<1> QED BY <1>1, StagedChanges, StagedSent, StagedRefused, StagedRuns, StagedApplies, StagedEnds,
          StagedReverts DEF Apply!StagedNext, Apply!StagedMoves

\* It speaks of nothing but the variables of the machine.
LEMMA StagedStutters ==
  ASSUME Apply!StagedInv,
         UNCHANGED <<r1, r2, r3, r4, r5, r6, r7, r8, r9, r10, r11, r12>>
  PROVE  Apply!StagedInv'
BY StagedRests

\* One failure stops nothing.
LEMMA StagedTries ==
  ASSUME Apply!StagedBounds, Apply!StagedInv, Apply!StagedNext
  PROVE  Apply!OthersTried
<1>1. ASSUME r5' = r5 PROVE Apply!OthersTried
  BY <1>1 DEF Apply!OthersTried
<1>2. ASSUME Apply!Apply PROVE Apply!OthersTried
  BY <1>2 DEF Apply!Apply, Apply!OthersTried
<1> QED BY <1>1, <1>2, StagedEnds DEF Apply!StagedNext, Apply!StagedMoves, Apply!Change,
                                      Apply!Revert, Apply!Run, Apply!Sent, Apply!Refused,
                                      Apply!Reread

-----------------------------------------------------------------------------
(* The logs.                                                               *)

Logs == INSTANCE LogsPage WITH
    tab <- r1, level <- r2, dial <- r3, iface <- r4, notify <- r5,
    backendLogs <- r6, syslogOk <- r7, notifyErr <- r8, primed <- r9,
    loading <- r10, pending <- r11, manual <- r12, ok <- r13, told <- r14,
    log <- r15, gone <- r16, got <- r17, seen <- r18, clicks <- r19,
    failures <- r20,
    Logged <- Size.logs.lines, MaxLog <- Bound.lines,
    Keep <- Size.logs.keep, Clicks <- Bound.views,
    MaxFail <- Size.logs.failed

\* At the start nothing has been read.
LEMMA LogsCountBegins == ASSUME Logs!LogsInit PROVE Logs!CountInv
BY DEF Logs!LogsInit, Logs!CountInv, Logs!Once

\* A source is read.
LEMMA LogsReads ==
  ASSUME Logs!CountInv, NEW n \in 1..3, n \in r11,
         r11' = r11 \ {n}, r17' = r17 \union {n}, r13' = r13 + 1
  PROVE  Logs!CountInv'
<1>1. n \notin r17
  BY DEF Logs!CountInv
<1>2. r13' = Logs!Once(1)' + Logs!Once(2)' + Logs!Once(3)'
  BY <1>1 DEF Logs!CountInv, Logs!Once
<1> QED BY <1>2 DEF Logs!CountInv

\* A source is given up, or the round.
LEMMA LogsDrops ==
  ASSUME Logs!CountInv, r11' \subseteq r11, UNCHANGED <<r17, r13>>
  PROVE  Logs!CountInv'
BY DEF Logs!CountInv, Logs!Once

\* Every step keeps the count of what was read.
LEMMA LogsCountKept == ASSUME Logs!CountInv, Logs!LogsNext PROVE Logs!CountInv'
<1>1. ASSUME Logs!BackendRead PROVE Logs!CountInv'
  <2>1. 1 \in r11 /\ r11' = r11 \ {1} /\ r17' = r17 \union {1} /\ r13' = r13 + 1
    BY <1>1 DEF Logs!BackendRead, Logs!Due
  <2> QED BY <2>1, LogsReads
<1>2. ASSUME Logs!SyslogRead PROVE Logs!CountInv'
  <2>1. 2 \in r11 /\ r11' = r11 \ {2} /\ r17' = r17 \union {2} /\ r13' = r13 + 1
    BY <1>2 DEF Logs!SyslogRead, Logs!Due
  <2> QED BY <2>1, LogsReads
<1>3. ASSUME Logs!NotifyRead PROVE Logs!CountInv'
  <2>1. 3 \in r11 /\ r11' = r11 \ {3} /\ r17' = r17 \union {3} /\ r13' = r13 + 1
    BY <1>3 DEF Logs!NotifyRead, Logs!Due
  <2> QED BY <2>1, LogsReads
<1>4. ASSUME Logs!BackendFails \/ Logs!SyslogFails \/ Logs!NotifyFails \/ Logs!RefreshEnds
               \/ Logs!Clear \/ Logs!Restarts
      PROVE  Logs!CountInv'
  <2>1. r11' \subseteq r11 /\ UNCHANGED <<r17, r13>>
    BY <1>4 DEF Logs!BackendFails, Logs!SyslogFails, Logs!NotifyFails, Logs!RefreshEnds,
                Logs!Clear, Logs!Restarts, Logs!round
  <2> QED BY <2>1, LogsDrops
<1>5. ASSUME NEW t \in Logs!Tabs, NEW l \in Logs!Levels, Logs!Choose(t, l) PROVE Logs!CountInv'
  BY <1>5, LogsDrops DEF Logs!Choose, Logs!round
<1>6. ASSUME NEW line \in Size.logs.lines, Logs!Log(line) PROVE Logs!CountInv'
  BY <1>6, LogsDrops DEF Logs!Log, Logs!round
<1>7. ASSUME NEW m \in BOOLEAN, Logs!Refresh(m) PROVE Logs!CountInv'
  <2>1. CASE r10
    BY <1>7, <2>1, LogsDrops DEF Logs!Refresh, Logs!round
  <2>2. CASE ~r10
    <3>1. r11' = 1..3 /\ r17' = {} /\ r13' = 0
      BY <1>7, <2>2 DEF Logs!Refresh
    <3> QED BY <3>1 DEF Logs!CountInv, Logs!Once
  <2> QED BY <2>1, <2>2
<1> QED BY <1>1, <1>2, <1>3, <1>4, <1>5, <1>6, <1>7 DEF Logs!LogsNext, Logs!LogsMoves

\* The count speaks of nothing but the variables of the machine.
LEMMA LogsCountStutters ==
  ASSUME Logs!CountInv,
         UNCHANGED <<r1, r2, r3, r4, r5, r6, r7, r8, r9, r10, r11, r12, r13, r14, r15, r16, r17,
                     r18, r19, r20>>
  PROVE  Logs!CountInv'
BY LogsDrops

\* A toast counts what was read.
LEMMA LogsTells == ASSUME Logs!LogsInv, Logs!LogsNext PROVE Logs!ToldAsRead
<1>1. r13 = 3 => 1 \in r17 /\ 2 \in r17 /\ 3 \in r17
  BY DEF Logs!LogsInv, Logs!CountInv, Logs!Once
<1>2. r13 = 0 => r17 = {}
  BY DEF Logs!LogsInv, Logs!CountInv, Logs!Once
<1>3. r14' # r14 => Logs!RefreshEnds
  BY DEF Logs!LogsNext, Logs!LogsMoves, Logs!Choose, Logs!Refresh, Logs!Clear, Logs!Restarts,
         Logs!Log, Logs!BackendRead, Logs!BackendFails,
         Logs!SyslogRead, Logs!SyslogFails, Logs!NotifyRead, Logs!NotifyFails
<1>4. ASSUME Logs!RefreshEnds, r14' # r14 PROVE r14' = Logs!ToldByCount
  BY <1>4 DEF Logs!RefreshEnds
<1>5. ASSUME r14' = Logs!ToldByCount
      PROVE  (r14' = "success" => r13 = 3) /\ (r14' = "error" => r13 = 0)
  BY <1>5 DEF Logs!ToldByCount
<1>6. r17 \subseteq {1, 2, 3}
  BY DEF Logs!LogsInv, Logs!CountInv
<1> QED BY <1>1, <1>2, <1>3, <1>4, <1>5, <1>6 DEF Logs!ToldAsRead

\* Every step keeps the sources that were not read marked as such.
LEMMA LogsSourcesKept == ASSUME Logs!CountInv, Logs!SourcesInv, Logs!LogsNext PROVE Logs!SourcesInv'
<1>1. CASE Logs!BackendRead \/ Logs!BackendFails
  <2>1. /\ 1 \in r11 /\ r11' = r11 \ {1} /\ UNCHANGED <<r10, r7, r8>>
        /\ r17' = r17 \union {1} \/ (r17' = r17 /\ r6' = "no")
    BY <1>1 DEF Logs!BackendRead, Logs!BackendFails, Logs!Due
  <2> QED BY <2>1 DEF Logs!SourcesInv
<1>2. CASE Logs!SyslogRead \/ Logs!SyslogFails
  <2>1. /\ 2 \in r11 /\ r11' = r11 \ {2} /\ UNCHANGED <<r10, r6, r8>>
        /\ r17' = r17 \union {2} \/ (r17' = r17 /\ r7' = FALSE)
    BY <1>2 DEF Logs!SyslogRead, Logs!SyslogFails, Logs!Due
  <2> QED BY <2>1 DEF Logs!SourcesInv
<1>3. CASE Logs!NotifyRead \/ Logs!NotifyFails
  <2>1. /\ 3 \in r11 /\ r11' = r11 \ {3} /\ UNCHANGED <<r10, r6, r7>>
        /\ r17' = r17 \union {3} \/ (r17' = r17 /\ r8' = TRUE)
    BY <1>3 DEF Logs!NotifyRead, Logs!NotifyFails, Logs!NotifyErrAfter, Logs!Due
  <2> QED BY <2>1 DEF Logs!SourcesInv
<1>4. CASE Logs!RefreshEnds
  BY <1>4 DEF Logs!RefreshEnds, Logs!SourcesInv, Logs!lists
<1>5. ASSUME NEW m \in BOOLEAN, Logs!Refresh(m) PROVE Logs!SourcesInv'
  <2>1. CASE r10
    BY <1>5, <2>1 DEF Logs!Refresh, Logs!SourcesInv, Logs!lists, Logs!round
  <2>2. CASE ~r10
    <3>1. r10' = TRUE /\ r11' = 1..3
      BY <1>5, <2>2 DEF Logs!Refresh
    <3> QED BY <3>1 DEF Logs!SourcesInv
  <2> QED BY <2>1, <2>2
<1>6. CASE Logs!Clear
  BY <1>6 DEF Logs!Clear, Logs!SourcesInv, Logs!round
<1>7. CASE Logs!Restarts
  BY <1>7 DEF Logs!Restarts, Logs!SourcesInv, Logs!lists, Logs!round
<1>8. ASSUME NEW t \in Logs!Tabs, NEW l \in Logs!Levels, Logs!Choose(t, l) PROVE Logs!SourcesInv'
  BY <1>8 DEF Logs!Choose, Logs!SourcesInv, Logs!lists, Logs!round
<1>9. ASSUME NEW line \in Size.logs.lines, Logs!Log(line) PROVE Logs!SourcesInv'
  BY <1>9 DEF Logs!Log, Logs!SourcesInv, Logs!lists, Logs!round
<1> QED BY <1>1, <1>2, <1>3, <1>4, <1>5, <1>6, <1>7, <1>8, <1>9 DEF Logs!LogsNext, Logs!LogsMoves

\* The invariant holds at the start.
LEMMA LogsBegins == ASSUME Logs!LogsInit PROVE Logs!LogsInv
<1>1. Logs!SourcesInv
  BY DEF Logs!LogsInit, Logs!SourcesInv
<1> QED BY <1>1, LogsCountBegins DEF Logs!LogsInv

\* Every step keeps it.
LEMMA LogsKept == ASSUME Logs!LogsInv, Logs!LogsNext PROVE Logs!LogsInv'
BY LogsCountKept, LogsSourcesKept DEF Logs!LogsInv

\* It speaks of nothing but the variables of the machine.
LEMMA LogsStutters ==
  ASSUME Logs!LogsInv,
         UNCHANGED <<r1, r2, r3, r4, r5, r6, r7, r8, r9, r10, r11,
                     r12, r13, r14, r15, r16, r17, r18, r19, r20>>
  PROVE  Logs!LogsInv'
<1>1. Logs!SourcesInv'
  BY DEF Logs!LogsInv, Logs!SourcesInv
<1> QED BY <1>1, LogsCountStutters DEF Logs!LogsInv

\* What it says.
LEMMA LogsHolds == ASSUME Logs!LogsInv PROVE Logs!EmptyIsRead
<1> SUFFICES ASSUME ~r10, Logs!Shown = "empty" PROVE Logs!EmptyIsRead
  BY DEF Logs!EmptyIsRead
<1>1. /\ 1 \notin r17 => r6 = "no"
      /\ 2 \notin r17 => r7 = FALSE
      /\ 3 \notin r17 => r8 = TRUE
  BY DEF Logs!LogsInv, Logs!SourcesInv
<1>2. ~((r1 = "dial" /\ r6 = "no") \/ (r1 = "notify" /\ r8))
  BY DEF Logs!Shown
<1>3. (r6 = "no" => "ring" \in Logs!Noted) /\ (r7 = FALSE => "syslog" \in Logs!Noted)
  BY DEF Logs!Noted
<1>4. CASE r1 = "dial"
  <2>1. 1 \in r17
    BY <1>1, <1>2, <1>4
  <2> QED BY <1>4, <2>1 DEF Logs!EmptyIsRead
<1>5. CASE r1 = "notify"
  <2>1. 3 \in r17
    BY <1>1, <1>2, <1>5
  <2> QED BY <1>5, <2>1 DEF Logs!EmptyIsRead
<1>6. CASE r1 # "dial" /\ r1 # "notify"
  <2>1. (1 \in r17 \/ "ring" \in Logs!Noted) /\ (2 \in r17 \/ "syslog" \in Logs!Noted)
    BY <1>1, <1>3
  <2> QED BY <1>6, <2>1 DEF Logs!EmptyIsRead
<1> QED BY <1>4, <1>5, <1>6

\* Of neighbours that are alike the last one ends the row.
EndsAlike(v, size) ==
    \A k \in 1..size : \E e \in 1..size :
        /\ e = size \/ v[e] # v[e + 1]
        /\ e >= k /\ \A n \in k..e : v[n] = v[k]

\* Every element stands in such a row.
LEMMA RowsEndAlike == ASSUME NEW size \in Nat, NEW v PROVE EndsAlike(v, size)
<1> DEFINE Ends == {n \in 1..size : n = size \/ v[n] # v[n + 1]}
<1>1. ASSUME NEW k \in 1..size PROVE \E e \in Ends : e >= k /\ \A n \in k..e : v[n] = v[k]
  <2>1. size \in {e \in Ends : e >= k} /\ {e \in Ends : e >= k} \in SUBSET Nat
    OBVIOUS
  <2>2. PICK e \in {e \in Ends : e >= k} : \A n \in {n \in Ends : n >= k} : e <= n
    BY <2>1, LeastNumber
  <2> DEFINE A == {i \in 0..(e - k) : v[k + i] = v[k]}
             far == e - k
  <2>3. far \in Nat /\ e \in 1..size /\ e >= k
    BY <2>2
  <2>4. 0 \in A
    BY <2>3
  <2>5. ASSUME NEW i \in 1..far, i - 1 \in A PROVE i \in A
    <3>1. k + (i - 1) \in 1..size /\ k + (i - 1) >= k /\ k + (i - 1) < e /\ k + (i - 1) + 1 = k + i
          /\ k + (i - 1) < size
      BY <2>3
    <3>2. k + (i - 1) \notin Ends
      BY <2>2, <3>1
    <3>3. v[k + (i - 1)] = v[k + i]
      BY <3>1, <3>2
    <3> QED BY <2>5, <3>3
  <2>6. \A i \in 0..far : i \in A
    <3> HIDE DEF A, far
    <3> QED BY <2>3, <2>4, <2>5, RangeInduction
  <2>7. ASSUME NEW n \in k..e PROVE v[n] = v[k]
    <3>1. n - k \in 0..far /\ k + (n - k) = n
      BY <2>3
    <3>2. n - k \in A
      BY <2>6, <3>1
    <3> QED BY <3>1, <3>2
  <2> QED BY <2>2, <2>7
<1> QED BY <1>1 DEF EndsAlike

\* Lines in order.
LEMMA LogsInOrder ==
  ASSUME r15 \in Seq(Size.logs.lines), NEW S
  PROVE  /\ Logs!InOrder(S) \in Seq(Logs!Places)
            /\ Logs!Range(Logs!InOrder(S)) = S \intersect Logs!Places
         /\ Logs!Rising(Logs!InOrder(S))
<1> DEFINE places == [i \in Logs!Places |-> i]
           Value(n, f) == IF n = 0 THEN <<>> ELSE IF n \in S THEN Append(f[n - 1],
           places[n]) ELSE f[n - 1]
           Def(f) == f = [n \in 0..Len(places) |-> Value(n, f)]
<1>1. Len(r15) \in Nat
  BY LenProperties
<1>2. places \in Seq(Logs!Places) /\ Len(places) = Len(r15) /\ DOMAIN places = Logs!Places
      /\ Logs!Places \subseteq Int /\ \A i \in Logs!Places : places[i] = i
  BY <1>1 DEF Logs!Places
<1>3. Logs!InOrder(S) = (CHOOSE f : Def(f))[Len(places)]
  BY DEF Logs!InOrder, Logs!Picked
<1>4. \A f : Gathers(f, places, S) <=> Def(f)
  BY DEF Gathers
<1> HIDE DEF Def, places
<1>5. \E f : Gathers(f, places, S)
  BY <1>2, PickExists
<1>6. PICK g : g = (CHOOSE f : Def(f)) /\ Gathers(g, places, S)
  BY <1>4, <1>5
<1>7. /\ g[Len(places)] \in Seq(Logs!Places) /\ HoldsThose(g[Len(places)], places, S)
      /\ Logs!Places \subseteq Int /\ Rises(places) => Rises(g[Len(places)])
  BY <1>2, <1>6, PickTells
<1>8. Logs!InOrder(S) = g[Len(places)]
  BY <1>3, <1>6
<1>9. Rises(places)
  BY <1>2 DEF Rises
<1>11. Logs!Range(Logs!InOrder(S)) = S \intersect Logs!Places
  <2>1. \A x : (\E i \in S \intersect DOMAIN places : places[i] = x) <=> x \in S \intersect Logs!Places
    BY <1>2
  <2>2. \A x : x \in Logs!Range(Logs!InOrder(S))
          <=> \E i \in DOMAIN Logs!InOrder(S) : Logs!InOrder(S)[i] = x
    BY DEF Logs!Range
  <2>3. \A x : (\E i \in DOMAIN Logs!InOrder(S) : Logs!InOrder(S)[i] = x)
          <=> \E i \in S \intersect DOMAIN places : places[i] = x
    BY <1>7, <1>8, Zenon DEF HoldsThose
  <2> QED BY <2>1, <2>2, <2>3
<1>12. Logs!Rising(Logs!InOrder(S))
  BY <1>2, <1>7, <1>8, <1>9 DEF Rises, Logs!Rising
<1> QED BY <1>7, <1>8, <1>11, <1>12

\* What the filter leaves.
LEMMA LogsFilters ==
  ASSUME NEW S, NEW seq \in Seq(S)
  PROVE  Logs!Filtered(seq) \in Seq(S)
<1> DEFINE I == {k \in DOMAIN seq : r1 = "notify" \/ r2 = "DBG" \/ r15[seq[k]] # "net_debug"}
           Value(n, f) == IF n = 0 THEN <<>> ELSE IF n \in I THEN Append(f[n - 1], seq[n]) ELSE f[n - 1]
           Def(f) == f = [n \in 0..Len(seq) |-> Value(n, f)]
<1>1. Logs!Filtered(seq) = (CHOOSE f : Def(f))[Len(seq)]
  BY DEF Logs!Filtered, Logs!Picked
<1>2. \A f : Gathers(f, seq, I) <=> Def(f)
  BY DEF Gathers
<1> HIDE DEF Def, I
<1>3. \E f : Gathers(f, seq, I)
  BY PickExists
<1>4. PICK g : g = (CHOOSE f : Def(f)) /\ Gathers(g, seq, I)
  BY <1>2, <1>3
<1>5. g[Len(seq)] \in Seq(S)
  BY <1>4, PickTells
<1> QED BY <1>1, <1>4, <1>5

\* What was logged shows up in the folded view, by the last line of its row.
LEMMA LogsFolds == ASSUME Logs!LogsBounds, Logs!ViewInv PROVE Logs!FoldHidesNothing
<1> DEFINE all == Logs!Filtered(r4)
           from == (IF Len(all) > Size.logs.keep THEN Len(all) - Size.logs.keep ELSE 0) + 1
           seq == SubSeq(all, from, Len(all))
           v == [n \in 1..Len(seq) |-> r15[seq[n]]]
<1>1. all \in Seq(Logs!Places)
  BY LogsFilters DEF Logs!ViewInv
<1> HIDE DEF all
<1>2. Len(all) \in Nat /\ from \in 1..(Len(all) + 1)
  BY <1>1, LenProperties DEF Logs!LogsBounds
<1> HIDE DEF from
<1>3. seq \in Seq(Logs!Places)
  BY <1>1, <1>2
<1>4. seq = Logs!Latest(Logs!Filtered(r4))
  BY DEF Logs!Latest, all, from
<1> HIDE DEF seq
<1>5. Len(seq) \in Nat
  BY <1>3, LenProperties
<1>6. \A k \in 1..Len(seq) : \E e \in 1..Len(seq) :
         /\ e = Len(seq) \/ v[e] # v[e + 1]
         /\ e >= k /\ \A n \in k..e : v[n] = v[k]
  <2> HIDE DEF v
  <2>1. EndsAlike(v, Len(seq))
    BY <1>5, RowsEndAlike
  <2> QED BY <2>1 DEF EndsAlike
<1>7. ASSUME NEW n \in 1..Len(seq), n = Len(seq) \/ v[n] # v[n + 1] PROVE n \in Logs!Folds(seq)
  <2>1. n # Len(seq) => n + 1 \in 1..Len(seq)
    BY <1>5
  <2> QED BY <1>7, <2>1 DEF Logs!Folds
<1>8. ASSUME NEW k \in 1..Len(seq)
      PROVE  \E e \in Logs!Folds(seq) : e >= k /\ \A n \in k..e : r15[seq[n]] = r15[seq[k]]
  <2>1. PICK e \in 1..Len(seq) :
           /\ e = Len(seq) \/ v[e] # v[e + 1]
           /\ e >= k /\ \A n \in k..e : v[n] = v[k]
    BY <1>6
  <2>2. e \in Logs!Folds(seq)
    BY <1>7, <2>1
  <2>3. \A n \in k..e : n \in 1..Len(seq)
    BY <1>5
  <2> QED BY <2>1, <2>2, <2>3
<1> QED BY <1>4, <1>8, Zenon DEF Logs!FoldHidesNothing

\* Log lines that come later change no place.
LEMMA ViewLogs ==
  ASSUME Logs!ViewInv, NEW line \in Size.logs.lines, r15' = Append(r15, line),
         UNCHANGED <<r4, r11, r18>>
  PROVE  Logs!ViewInv'
<1>1. r15' \in Seq(Size.logs.lines) /\ Len(r15') = Len(r15) + 1 /\ Len(r15) \in Nat
      /\ \A i \in Logs!Places : r15'[i] = r15[i]
  BY LenProperties DEF Logs!ViewInv, Logs!Places
<1>2. Logs!Places \subseteq Logs!Places'
  BY <1>1 DEF Logs!Places
<1>3. r4' \in Seq(Logs!Places') /\ r18' \subseteq Logs!Places' /\ Logs!Rising(r4')
  BY <1>2 DEF Logs!ViewInv
<1>4. {i \in r18 : r15[i] \in Logs!Net \union {"sys"}}
      = {i \in r18 : r15'[i] \in Logs!Net \union {"sys"}}
  BY <1>1 DEF Logs!ViewInv
<1>5. 1 \in r11' => r18' = {}
  BY DEF Logs!ViewInv
<1>6. 1 \notin r11' => Logs!Range(r4') = {i \in r18' : r15'[i] \in Logs!Net \union {"sys"}}
  BY <1>4 DEF Logs!ViewInv
<1> QED BY <1>1, <1>3, <1>5, <1>6 DEF Logs!ViewInv

\* What leaves the view alone.
LEMMA ViewStays ==
  ASSUME Logs!ViewInv, UNCHANGED <<r4, r15>>,
         \/ 1 \notin r11 /\ 1 \notin r11' /\ r18' \subseteq Logs!Places
            /\ {i \in r18' : r15[i] \in Logs!Net \union {"sys"}}
               = {i \in r18 : r15[i] \in Logs!Net \union {"sys"}}
         \/ UNCHANGED <<r11, r18>>
         \/ 1 \in r11' /\ r18' = {}
  PROVE  Logs!ViewInv'
<1>1. Logs!Places' = Logs!Places
  BY DEF Logs!Places
<1>2. r15' \in Seq(Size.logs.lines) /\ r18' \subseteq Logs!Places' /\ r4' \in Seq(Logs!Places')
      /\ Logs!Rising(r4')
  BY <1>1 DEF Logs!ViewInv
<1>3. 1 \in r11' => r18' = {}
  BY DEF Logs!ViewInv
<1>4. 1 \notin r11' => Logs!Range(r4') = {i \in r18' : r15'[i] \in Logs!Net \union {"sys"}}
  BY DEF Logs!ViewInv
<1> QED BY <1>2, <1>3, <1>4 DEF Logs!ViewInv

\* The invariant holds at the start.
LEMMA ViewBegins == ASSUME Logs!LogsInit PROVE Logs!ViewInv
<1>1. r15 = <<>> /\ r4 = <<>> /\ r18 = {} /\ r11 = 1..3
  BY DEF Logs!LogsInit
<1>2. 1 \in r11 /\ r15 \in Seq(Size.logs.lines) /\ r4 \in Seq(Logs!Places)
  BY <1>1
<1> QED BY <1>1, <1>2 DEF Logs!ViewInv, Logs!Rising

\* Every step keeps it.
LEMMA ViewKept == ASSUME Logs!ViewInv, Logs!LogsNext PROVE Logs!ViewInv'
<1> DEFINE Both == Logs!Net \union {"sys"}
<1>0. /\ r15 \in Seq(Size.logs.lines) /\ r18 \subseteq Logs!Places /\ r4 \in Seq(Logs!Places)
      /\ 1 \in r11 => r18 = {}
      /\ 1 \notin r11 => Logs!Range(r4) = {i \in r18 : r15[i] \in Both}
  BY DEF Logs!ViewInv
<1>1. ASSUME NEW sources PROVE /\ Logs!Held(sources) \in Seq(Logs!Places)
             /\ Logs!Rising(Logs!Held(sources))
                               /\ Logs!Range(Logs!Held(sources))
                                  = {i \in Logs!Places : r15[i] \in sources /\ i \notin r16}
  BY <1>0, LogsInOrder DEF Logs!Held
<1>2. CASE Logs!BackendRead
  <2>1. /\ 1 \in r11 /\ 1 \notin r11' /\ r4' = Logs!Held(Logs!Net)
           /\ r18' = r18 \union Logs!Range(Logs!Held(Logs!Ring)) /\ r15' = r15
    BY <1>2 DEF Logs!BackendRead, Logs!Due, Logs!router
  <2>2. r18' = {i \in Logs!Places : r15[i] \in Logs!Ring /\ i \notin r16}
    BY <1>0, <1>1, <2>1
  <2>3. Logs!Range(r4') = {i \in r18' : r15'[i] \in Both}
    <3>1. Logs!Range(r4') = {i \in Logs!Places : r15[i] \in Logs!Net /\ i \notin r16}
      BY <1>1, <2>1
    <3>2. \A x \in Logs!Ring : x \in Both <=> x \in Logs!Net
      BY DEF Logs!Ring, Logs!Net
    <3>3. Logs!Net \subseteq Logs!Ring
      BY DEF Logs!Ring, Logs!Net
    <3> QED BY <2>1, <2>2, <3>1, <3>2, <3>3
  <2>4. Logs!Places' = Logs!Places
    BY <2>1 DEF Logs!Places
  <2> QED BY <1>0, <1>1, <2>1, <2>2, <2>3, <2>4 DEF Logs!ViewInv
<1>3. CASE Logs!BackendFails
  <2>1. /\ 1 \in r11 /\ 1 \notin r11' /\ r4' = <<>> /\ r18' = r18 /\ r15' = r15
    BY <1>3 DEF Logs!BackendFails, Logs!Due, Logs!router
  <2>2. Logs!Range(r4') = {} /\ r18' = {} /\ Logs!Rising(r4') /\ r4' \in Seq(Logs!Places)
    <3>1. DOMAIN <<>> = {}
      OBVIOUS
    <3> QED BY <1>0, <2>1, <3>1 DEF Logs!Rising, Logs!Range
  <2>3. Logs!Places' = Logs!Places
    BY <2>1 DEF Logs!Places
  <2> QED BY <1>0, <2>1, <2>2, <2>3 DEF Logs!ViewInv
<1>4. CASE Logs!SyslogRead
  <2>1. /\ Logs!Due(2) /\ r11' = r11 \ {2}
           /\ r4' = Logs!InOrder(Logs!Range(r4) \union Logs!Range(Logs!Held({"sys"})))
        /\ r18' = r18 \union Logs!Range(Logs!Held({"sys"})) /\ r15' = r15
    BY <1>4 DEF Logs!SyslogRead, Logs!router
  <2>2. 1 \notin r11 /\ 1 \notin r11'
    BY <2>1 DEF Logs!Due
  <2>3. Logs!Range(Logs!Held({"sys"})) = {i \in Logs!Places : r15[i] = "sys" /\ i \notin r16}
    BY <1>1
  <2>4. Logs!Range(r4) \subseteq Logs!Places
    BY <1>0, <2>2
  <2>5. /\ r4' \in Seq(Logs!Places) /\ Logs!Rising(r4')
        /\ Logs!Range(r4') = Logs!Range(r4) \union Logs!Range(Logs!Held({"sys"}))
    BY <1>0, <2>1, <2>3, <2>4, LogsInOrder
  <2>6. Logs!Range(r4') = {i \in r18' : r15'[i] \in Both}
    BY <1>0, <2>1, <2>2, <2>3, <2>5
  <2>7. Logs!Places' = Logs!Places /\ r18' \subseteq Logs!Places
    BY <1>0, <2>1, <2>3 DEF Logs!Places
  <2> QED BY <1>0, <2>1, <2>2, <2>5, <2>6, <2>7 DEF Logs!ViewInv
<1>5. CASE Logs!NotifyRead
  <2>1. /\ Logs!Due(3) /\ r11' = r11 \ {3} /\ r18' = r18 \union Logs!Range(Logs!Held({"note"}))
           /\ UNCHANGED <<r4, r15>>
    BY <1>5 DEF Logs!NotifyRead, Logs!router
  <2>2. 1 \notin r11 /\ 1 \notin r11'
    BY <2>1 DEF Logs!Due
  <2>3. Logs!Range(Logs!Held({"note"})) = {i \in Logs!Places : r15[i] = "note" /\ i \notin r16}
    BY <1>1
  <2>4. {i \in r18' : r15[i] \in Both} = {i \in r18 : r15[i] \in Both}
    BY <2>1, <2>3 DEF Logs!Net
  <2> QED BY <1>0, <2>1, <2>2, <2>3, <2>4, ViewStays
<1>6. ASSUME Logs!SyslogFails \/ Logs!NotifyFails PROVE Logs!ViewInv'
  <2>1. UNCHANGED <<r4, r15, r18>> /\ 1 \notin r11 /\ 1 \notin r11'
    BY <1>6 DEF Logs!SyslogFails, Logs!NotifyFails, Logs!Due, Logs!router
  <2> QED BY <1>0, <2>1, ViewStays
<1>7. ASSUME Logs!RefreshEnds \/ Logs!Clear \/ Logs!Restarts \/ \E t \in Logs!Tabs,
             l \in Logs!Levels : Logs!Choose(t, l)
      PROVE  Logs!ViewInv'
  <2>1. UNCHANGED <<r4, r15, r11, r18>>
    BY <1>7 DEF Logs!RefreshEnds, Logs!Clear, Logs!Restarts, Logs!Choose, Logs!lists, Logs!round,
                Logs!router
  <2> QED BY <2>1, ViewStays
<1>8. ASSUME NEW m \in BOOLEAN, Logs!Refresh(m) PROVE Logs!ViewInv'
  <2>1. UNCHANGED <<r4, r15>> /\ (UNCHANGED <<r11, r18>> \/ (r11' = 1..3 /\ r18' = {}))
    BY <1>8 DEF Logs!Refresh, Logs!lists, Logs!round, Logs!router
  <2>2. 1 \in 1..3
    OBVIOUS
  <2> QED BY <2>1, <2>2, ViewStays
<1>9. ASSUME NEW line \in Size.logs.lines, Logs!Log(line) PROVE Logs!ViewInv'
  BY <1>9, ViewLogs DEF Logs!Log, Logs!lists, Logs!round
<1> QED BY <1>2, <1>3, <1>4, <1>5, <1>6, <1>7, <1>8, <1>9 DEF Logs!LogsNext, Logs!LogsMoves

\* It speaks of nothing but the variables of the machine.
LEMMA ViewStutters ==
  ASSUME Logs!ViewInv,
         UNCHANGED <<r1, r2, r3, r4, r5, r6, r7, r8, r9, r10, r11, r12, r13, r14, r15, r16, r17, r18,
         r19, r20>>
  PROVE  Logs!ViewInv'
BY ViewStays DEF Logs!vars, Logs!lists, Logs!round, Logs!router

\* What it says.
LEMMA ViewHolds == ASSUME Logs!ViewInv PROVE Logs!IfaceHasBoth
<1>1. \A n \in 1..(Len(r4) - 1) : r4[n] < r4[n + 1]
  <2>1. DOMAIN r4 = 1..Len(r4) /\ Len(r4) \in Nat
    BY LenProperties DEF Logs!ViewInv
  <2> QED BY <2>1 DEF Logs!ViewInv, Logs!Rising
<1> QED BY <1>1 DEF Logs!IfaceHasBoth, Logs!ViewInv

-----------------------------------------------------------------------------
(* The page of the service.                                                *)

Service == INSTANCE ServicePage WITH
    facts <- r1, shown <- r2, off <- r3, chain <- r4, told <- r5,
    form <- r6, staged <- r7, dirty <- r8, proc <- r9, bin <- r10,
    file <- r11, clicks <- r12, trouble <- r13,
    Values <- Size.service.values, Chains <- Size.service.chains,
    Clicks <- Size.service.clicks, Trouble <- Size.service.trouble

\* The invariant holds at the start.
LEMMA ServiceBegins == ASSUME Service!Init PROVE Service!ServiceInv
<1>1. Service!FactsRight
  <2>1. PICK p \in Service!ProcRead, b \in Service!BinRead, e \in BOOLEAN :
          r1 = [running |-> p.running, registered |-> p.registered, svcUnknown |-> p.svcUnknown,
                   bin |-> b, enabled |-> e, userStopped |-> FALSE]
    BY DEF Service!Init
  <2>2. p.running \in BOOLEAN /\ p.registered \in BOOLEAN /\ p.svcUnknown \in BOOLEAN
    <3>1. Service!Running(r9) \in BOOLEAN /\ Service!Registered(r9) \in BOOLEAN
      BY DEF Service!Running, Service!Registered
    <3>2. PICK run \in BOOLEAN, reg \in BOOLEAN :
            \/ p = [running |-> run, registered |-> reg, svcUnknown |-> FALSE]
            \/ p = [running |-> FALSE, registered |-> FALSE, svcUnknown |-> TRUE]
      BY <3>1, Zenon DEF Service!ProcRead
    <3>3. CASE p = [running |-> run, registered |-> reg, svcUnknown |-> FALSE]
      BY <3>3
    <3>4. CASE p = [running |-> FALSE, registered |-> FALSE, svcUnknown |-> TRUE]
      BY <3>4
    <3> QED BY <3>2, <3>3, <3>4
  <2>3. r10 \in {"absent", "plain", "exec"} /\ b \in {r10, "unknown"}
    BY DEF Service!Init, Service!BinRead
  <2> QED BY <2>1, <2>2, <2>3 DEF Service!FactsRight
<1>2. Service!AccusesRightly
  BY <1>1 DEF Service!Init, Service!FactsRight, Service!AccusesRightly, Service!Resolved
<1>3. /\ r3 \subseteq Service!Kinds /\ r8 = FALSE /\ r6 \in Size.service.values /\ r11 \in Size.service.values /\ r7 = r11
  BY DEF Service!Init, Service!FormShows, Service!Kinds
<1>4. \A c \in Size.service.chains : r4[c] = Service!Idle
  BY DEF Service!Init
<1>5. r4 \in [Size.service.chains -> [kind : Service!Kinds \union {"none"}, at : Service!Places]]
  BY DEF Service!Init, Service!Idle, Service!Places
<1>6. Service!ChainRight(Service!Idle)
  BY DEF Service!ChainRight, Service!Idle, Service!Places
<1>7. Service!OffForReason
  BY DEF Service!Init, Service!OffForReason
<1> QED BY <1>1, <1>2, <1>3, <1>4, <1>5, <1>6, <1>7 DEF Service!ServiceInv, Service!StagedIsMarked

\* The step of one operation: where it is, and what buttons are off.
LEMMA ServiceSteps ==
  ASSUME Service!ServiceInv, NEW c \in Size.service.chains, NEW y, Service!ChainRight(y),
         r4' = [r4 EXCEPT ![c] = y], r1'.running = r1.running,
         \A b \in r3' : \/ b \in r3 /\ (Service!Needs(r4[c], b) => Service!Needs(y, b))
                        \/ b \in Service!Kinds /\ Service!Needs(y, b)
                        \/ b = "stop" /\ ~r1.running
  PROVE  /\ r4' \in [Size.service.chains -> [kind : Service!Kinds \union {"none"}, at : Service!Places]]
         /\ \A d \in Size.service.chains : Service!ChainRight(r4'[d])
         /\ Service!OffForReason' /\ r3' \subseteq Service!Kinds
<1>1. y \in [kind : Service!Kinds \union {"none"}, at : Service!Places]
  BY DEF Service!ChainRight
<1>2. /\ r4 \in [Size.service.chains -> [kind : Service!Kinds \union {"none"}, at : Service!Places]]
      /\ \A d \in Size.service.chains : Service!ChainRight(r4[d])
      /\ r3 \subseteq Service!Kinds /\ Service!OffForReason
  BY DEF Service!ServiceInv
<1>3. /\ r4'[c] = y /\ \A d \in Size.service.chains \ {c} : r4'[d] = r4[d]
      /\ r4' \in [Size.service.chains -> [kind : Service!Kinds \union {"none"}, at : Service!Places]]
  BY <1>1, <1>2
<1>4. \A d \in Size.service.chains : Service!ChainRight(r4'[d])
  BY <1>2, <1>3
<1>5. r3' \subseteq Service!Kinds
  BY <1>2 DEF Service!Kinds
<1>6. ASSUME NEW b \in r3'
      PROVE  (\E d \in Size.service.chains : Service!Needs(r4'[d], b)) \/ (b = "stop" /\ ~(r1'.running))
  <2>1. CASE Service!Needs(y, b) \/ (b = "stop" /\ ~r1.running)
    BY <1>3, <2>1
  <2>2. CASE b \in r3 /\ (Service!Needs(r4[c], b) => Service!Needs(y, b))
    BY <1>2, <1>3, <2>2 DEF Service!OffForReason
  <2> QED BY <2>1, <2>2
<1>7. Service!OffForReason'
  BY <1>6 DEF Service!OffForReason
<1> QED BY <1>3, <1>4, <1>5, <1>7

\* An operation begins.
LEMMA ServiceStarts ==
  ASSUME Service!ServiceInv, NEW c \in Size.service.chains, Service!Save(c) \/ Service!Reload(c)
           \/ Service!Restart(c) \/ Service!Stop(c)
  PROVE  Service!ServiceInv'
<1>1. r4[c] = Service!Idle /\ UNCHANGED <<r1, r2, r6, r10, r11>>
  BY DEF Service!Save, Service!Reload, Service!Restart, Service!Stop, Service!Begins
<1>2. PICK kind \in Service!Kinds, at \in {"write", "delete", "script"}, buttons \in SUBSET Service!Kinds :
        /\ r4' = [r4 EXCEPT ![c] = [kind |-> kind, at |-> at]] /\ r3' = r3 \union buttons
        /\ at = "write" => kind = "save"
        /\ at = "delete" => kind \in {"reload", "restart"}
        /\ at = "script" => kind = "stop"
        /\ \A b \in buttons : \/ b \in {"save", "restart", "stop"} /\ kind = b
                              \/ b = "reload" /\ kind \in {"reload", "restart"} /\ at # "write"
  <2>1. CASE Service!Save(c)
    <3>1. /\ r4' = [r4 EXCEPT ![c] = [kind |-> "save", at |-> "write"]]
          /\ r3' = r3 \union {"save"}
      BY <2>1 DEF Service!Save, Service!Begins
    <3> "save" \in Service!Kinds /\ {"save"} \in SUBSET Service!Kinds
      BY DEF Service!Kinds
    <3> WITNESS "save" \in Service!Kinds, "write" \in {"write", "delete", "script"},
                {"save"} \in SUBSET Service!Kinds
    <3> QED BY <3>1
  <2>2. CASE Service!Reload(c)
    <3>1. /\ r4' = [r4 EXCEPT ![c] = [kind |-> "reload", at |-> "delete"]]
          /\ r3' = r3 \union {"reload"}
      BY <2>2 DEF Service!Reload, Service!Begins
    <3> "reload" \in Service!Kinds /\ {"reload"} \in SUBSET Service!Kinds
      BY DEF Service!Kinds
    <3> WITNESS "reload" \in Service!Kinds, "delete" \in {"write", "delete", "script"},
                {"reload"} \in SUBSET Service!Kinds
    <3> QED BY <3>1
  <2>3. CASE Service!Restart(c)
    <3>1. /\ r4' = [r4 EXCEPT ![c] = [kind |-> "restart", at |-> "delete"]]
          /\ r3' = r3 \union {"reload", "restart"}
      BY <2>3 DEF Service!Restart, Service!Begins
    <3> "restart" \in Service!Kinds /\ {"reload", "restart"} \in SUBSET Service!Kinds
      BY DEF Service!Kinds
    <3> WITNESS "restart" \in Service!Kinds, "delete" \in {"write", "delete", "script"},
                {"reload", "restart"} \in SUBSET Service!Kinds
    <3> QED BY <3>1
  <2>4. CASE Service!Stop(c)
    <3>1. /\ r4' = [r4 EXCEPT ![c] = [kind |-> "stop", at |-> "script"]]
          /\ r3' = r3 \union {"stop"}
      BY <2>4 DEF Service!Stop, Service!Begins
    <3> "stop" \in Service!Kinds /\ {"stop"} \in SUBSET Service!Kinds
      BY DEF Service!Kinds
    <3> WITNESS "stop" \in Service!Kinds, "script" \in {"write", "delete", "script"},
                {"stop"} \in SUBSET Service!Kinds
    <3> QED BY <3>1
  <2> QED BY <2>1, <2>2, <2>3, <2>4
<1> DEFINE y == [kind |-> kind, at |-> at]
<1>3. Service!ChainRight(y)
  BY <1>2 DEF Service!ChainRight, Service!Places
<1>4. \A b \in buttons : Service!Needs(y, b)
  BY <1>2 DEF Service!Needs
<1>5. \A b : ~Service!Needs(Service!Idle, b)
  BY DEF Service!Needs, Service!Idle
<1>6. \A b \in r3' : \/ b \in r3 /\ (Service!Needs(r4[c], b) => Service!Needs(y, b))
                     \/ b \in Service!Kinds /\ Service!Needs(y, b)
                     \/ b = "stop" /\ ~r1.running
  BY <1>1, <1>2, <1>4, <1>5
<1>7. r4' = [r4 EXCEPT ![c] = y] /\ r1'.running = r1.running
  BY <1>1, <1>2
<1> HIDE DEF y
<1>8. /\ r4' \in [Size.service.chains -> [kind : Service!Kinds \union {"none"}, at : Service!Places]]
      /\ \A d \in Size.service.chains : Service!ChainRight(r4'[d])
      /\ Service!OffForReason' /\ r3' \subseteq Service!Kinds
  BY <1>3, <1>6, <1>7, ServiceSteps
<1>9. /\ r8' \in BOOLEAN /\ r7' \in Size.service.values \union {Service!Limit} /\ Service!StagedIsMarked'
  BY DEF Service!Save, Service!Reload, Service!Restart, Service!Stop, Service!Clamped,
         Service!ServiceInv, Service!StagedIsMarked
<1>10. Service!FactsRight' /\ Service!AccusesRightly'
  BY <1>1 DEF Service!ServiceInv, Service!FactsRight, Service!AccusesRightly
<1> QED BY <1>1, <1>8, <1>9, <1>10 DEF Service!ServiceInv

\* An operation goes on, and leaves what the page shows.
LEMMA ServiceGoes ==
  ASSUME Service!ServiceInv, NEW c \in Size.service.chains, NEW at,
         \/ r4[c].at = "delete" /\ at = "start"
         \/ r4[c].at = "start" /\ at = "look"
         \/ r4[c].at = "script" /\ at = "check"
         \/ r4[c].at = "check" /\ at = "unregister"
         \/ r4[c].at = "unregister" /\ at = "until",
         Service!Goes(c, at), UNCHANGED <<r1, r2, r3, r6, r7, r8, r10, r11>>
  PROVE  Service!ServiceInv'
<1> DEFINE y == [r4[c] EXCEPT !.at = at]
<1>1. Service!ChainRight(r4[c])
  BY DEF Service!ServiceInv
<1>2. r4[c] \in [kind : Service!Kinds \union {"none"}, at : Service!Places]
  BY <1>1 DEF Service!ChainRight
<1>3. y = [kind |-> r4[c].kind, at |-> at]
  BY <1>2
<1>4. Service!ChainRight(y)
  BY <1>1, <1>3 DEF Service!ChainRight, Service!Places
<1>5. \A b : Service!Needs(r4[c], b) => Service!Needs(y, b)
  BY <1>3 DEF Service!Needs
<1>6. r4' = [r4 EXCEPT ![c] = y]
  BY DEF Service!Goes
<1> HIDE DEF y
<1>7. \A b \in r3' : b \in r3 /\ (Service!Needs(r4[c], b) => Service!Needs(y, b))
  BY <1>5
<1>8. /\ r4' \in [Size.service.chains -> [kind : Service!Kinds \union {"none"}, at : Service!Places]]
      /\ \A d \in Size.service.chains : Service!ChainRight(r4'[d])
      /\ Service!OffForReason' /\ r3' \subseteq Service!Kinds
  BY <1>4, <1>6, <1>7, ServiceSteps
<1> QED BY <1>8 DEF Service!ServiceInv, Service!FactsRight, Service!AccusesRightly,
                    Service!StagedIsMarked

\* What is written to the router goes on to a reload.
LEMMA ServiceWrites ==
  ASSUME Service!ServiceInv, NEW c \in Size.service.chains, Service!Written(c)
  PROVE  Service!ServiceInv'
<1> DEFINE y == [r4[c] EXCEPT !.at = "delete"]
<1>1. Service!ChainRight(r4[c]) /\ r4[c].at = "write" /\ r8' = FALSE /\ r11' = r7
      /\ r3' = r3 \union {"reload"} /\ r4' = [r4 EXCEPT ![c] = y]
      /\ UNCHANGED <<r1, r2, r6, r7, r10>>
  BY DEF Service!ServiceInv, Service!Written, Service!StaysDirty
<1>2. r4[c] \in [kind : Service!Kinds \union {"none"}, at : Service!Places] /\ r4[c].kind = "save"
  BY <1>1 DEF Service!ChainRight
<1>3. y = [kind |-> "save", at |-> "delete"]
  BY <1>2
<1>4. Service!ChainRight(y)
  BY <1>3 DEF Service!ChainRight, Service!Places, Service!Kinds
<1>5. (\A b : Service!Needs(r4[c], b) => Service!Needs(y, b)) /\ Service!Needs(y, "reload") /\ "reload" \in Service!Kinds
  BY <1>2, <1>3 DEF Service!Needs, Service!Kinds
<1>6. r1'.running = r1.running
  BY <1>1
<1> HIDE DEF y
<1>7. \A b \in r3' : (b \in r3 /\ (Service!Needs(r4[c], b) => Service!Needs(y, b))) \/ (b \in Service!Kinds /\ Service!Needs(y, b))
  BY <1>1, <1>5
<1>8. /\ r4' \in [Size.service.chains -> [kind : Service!Kinds \union {"none"}, at : Service!Places]]
      /\ \A d \in Size.service.chains : Service!ChainRight(r4'[d])
      /\ Service!OffForReason' /\ r3' \subseteq Service!Kinds
  BY <1>1, <1>4, <1>6, <1>7, ServiceSteps
<1> QED BY <1>1, <1>8 DEF Service!ServiceInv, Service!FactsRight, Service!AccusesRightly,
                          Service!StagedIsMarked

\* An operation is over and gives its buttons back.
LEMMA ServiceEnds ==
  ASSUME Service!ServiceInv, NEW c \in Size.service.chains, r4' = [r4 EXCEPT ![c] = Service!Idle],
         r1'.running = r1.running, Service!FactsRight', Service!AccusesRightly',
         \A b \in r3' : (b \in r3 /\ ~Service!Needs(r4[c], b)) \/ (b = "stop" /\ ~r1.running),
         r8' \in BOOLEAN, r8 => r8', UNCHANGED <<r6, r7, r11>>
  PROVE  Service!ServiceInv'
<1>1. Service!ChainRight(Service!Idle)
  BY DEF Service!ChainRight, Service!Idle, Service!Places
<1>2. \A b \in r3' : \/ b \in r3 /\ (Service!Needs(r4[c], b) => Service!Needs(Service!Idle, b))
                     \/ b \in Service!Kinds /\ Service!Needs(Service!Idle, b)
                     \/ b = "stop" /\ ~r1.running
  OBVIOUS
<1>3. /\ r4' \in [Size.service.chains -> [kind : Service!Kinds \union {"none"}, at : Service!Places]]
      /\ \A d \in Size.service.chains : Service!ChainRight(r4'[d])
      /\ Service!OffForReason' /\ r3' \subseteq Service!Kinds
  BY <1>1, <1>2, ServiceSteps
<1> QED BY <1>3 DEF Service!ServiceInv, Service!StagedIsMarked

\* A write or a start that fails, and a last look.
LEMMA ServiceFails ==
  ASSUME Service!ServiceInv, NEW c \in Size.service.chains, Service!NotWritten(c)
           \/ Service!StartFails(c) \/ Service!Look(c)
  PROVE  Service!ServiceInv'
<1>1. Service!ChainRight(r4[c]) /\ UNCHANGED <<r2, r6, r7, r10, r11>>
  BY DEF Service!ServiceInv, Service!NotWritten, Service!StartFails, Service!Look
<1>2. CASE Service!NotWritten(c)
  <2>1. /\ r4[c].at = "write" /\ r8' = r8 /\ r3' = r3 \ {"save"}
        /\ r4' = [r4 EXCEPT ![c] = Service!Idle] /\ UNCHANGED r1 /\ r8 \in BOOLEAN
    BY <1>2 DEF Service!NotWritten, Service!StaysDirty, Service!ServiceInv
  <2>2. \A b : Service!Needs(r4[c], b) => b = "save"
    BY <1>1, <2>1 DEF Service!ChainRight, Service!Needs
  <2>3. Service!FactsRight' /\ Service!AccusesRightly'
    BY <1>1, <2>1 DEF Service!ServiceInv, Service!FactsRight, Service!AccusesRightly
  <2>4. \A b \in r3' : b \in r3 /\ ~Service!Needs(r4[c], b)
    BY <2>1, <2>2
  <2>5. r1'.running = r1.running
    BY <2>1
  <2> QED BY <1>1, <2>1, <2>3, <2>4, <2>5, ServiceEnds
<1>3. CASE Service!StartFails(c) \/ Service!Look(c)
  <2>1. /\ r4[c].at \in {"start", "look"} /\ r8' = r8 /\ r8 \in BOOLEAN
        /\ r4' = [r4 EXCEPT ![c] = Service!Idle] /\ r3' = r3 \ Service!Gives(r4[c].kind)
    BY <1>3 DEF Service!StartFails, Service!Look, Service!ReloadEnds, Service!ServiceInv
  <2>2. \A b : Service!Needs(r4[c], b) => b \in Service!Gives(r4[c].kind)
    BY <1>1, <2>1 DEF Service!ChainRight, Service!Needs, Service!Gives
  <2>3. \/ r1' = r1
        \/ r1' = [r1 EXCEPT !.userStopped = r1.userStopped /\ ~Service!Running(r9)]
    BY <1>3 DEF Service!StartFails, Service!Look
  <2>4. Service!FactsRight' /\ r1'.running = r1.running
    BY <1>1, <2>3 DEF Service!ServiceInv, Service!FactsRight
  <2>5. Service!AccusesRightly'
    BY <1>1 DEF Service!ServiceInv, Service!AccusesRightly
  <2>6. \A b \in r3' : b \in r3 /\ ~Service!Needs(r4[c], b)
    BY <2>1, <2>2
  <2> QED BY <1>1, <2>1, <2>4, <2>5, <2>6, ServiceEnds
<1> QED BY <1>2, <1>3

\* A stop ends with what it found.
LEMMA ServiceStops ==
  ASSUME Service!ServiceInv, NEW c \in Size.service.chains, r4[c].at \in {"check", "until"}, NEW running \in BOOLEAN,
         Service!StopEnds(c, running), UNCHANGED <<r6, r7, r8, r10, r11>>
  PROVE  Service!ServiceInv'
<1>1. Service!ChainRight(r4[c]) /\ r8 \in BOOLEAN
  BY DEF Service!ServiceInv
<1>2. /\ r1' = [r1 EXCEPT !.userStopped = ~running] /\ r2' = Service!Resolved(r1')
      /\ r3' = Service!AfterStop(running) /\ r4' = [r4 EXCEPT ![c] = Service!Idle]
  BY DEF Service!StopEnds
<1>3. Service!FactsRight' /\ r1'.running = r1.running
  BY <1>2 DEF Service!ServiceInv, Service!FactsRight
<1>4. Service!AccusesRightly'
  BY <1>2, <1>3 DEF Service!AccusesRightly, Service!Resolved, Service!FactsRight
<1>5. \A b : Service!Needs(r4[c], b) => b = "stop"
  BY <1>1 DEF Service!ChainRight, Service!Needs
<1>6. \A b \in r3' : (b \in r3 /\ ~Service!Needs(r4[c], b)) \/ (b = "stop" /\ ~r1.running)
  BY <1>2, <1>5 DEF Service!AfterStop
<1> QED BY <1>1, <1>2, <1>3, <1>4, <1>6, ServiceEnds

\* A stop looks whether the service has gone.
LEMMA ServiceChecks ==
  ASSUME Service!ServiceInv, NEW c \in Size.service.chains, Service!CheckStop(c) \/ Service!Until(c)
  PROVE  Service!ServiceInv'
<1>1. UNCHANGED <<r6, r7, r8, r10, r11>> /\ r4[c].at \in {"check", "until"}
  BY DEF Service!CheckStop, Service!Until
<1>2. CASE \E running \in BOOLEAN : Service!StopEnds(c, running)
  BY <1>1, <1>2, ServiceStops
<1>3. CASE r4[c].at = "check" /\ Service!Goes(c, "unregister") /\ UNCHANGED <<r1, r2, r3, r5>>
  <2>1. UNCHANGED <<r1, r2, r3, r6, r7, r8, r10, r11>>
    BY <1>1, <1>3
  <2> QED BY <1>3, <2>1, ServiceGoes
<1>4. Service!Running(r9) \in BOOLEAN
  BY DEF Service!Running
<1> QED BY <1>2, <1>3, <1>4 DEF Service!CheckStop, Service!Until

\* Steps of an operation that tell nothing.
LEMMA ServicePasses ==
  ASSUME Service!ServiceInv, NEW c \in Size.service.chains, Service!Delete(c)
           \/ Service!StartViaUbus(c) \/ Service!Script(c) \/ Service!Unregister(c)
  PROVE  Service!ServiceInv'
<1>1. UNCHANGED <<r1, r2, r3, r6, r7, r8, r10, r11>>
  BY DEF Service!Delete, Service!StartViaUbus, Service!Script, Service!Unregister
<1>2. \E at : Service!Goes(c, at) /\ \/ r4[c].at = "delete" /\ at = "start"
                                     \/ r4[c].at = "start" /\ at = "look"
                                     \/ r4[c].at = "script" /\ at = "check"
                                     \/ r4[c].at = "unregister" /\ at = "until"
  BY DEF Service!Delete, Service!StartViaUbus, Service!Script, Service!Unregister
<1> QED BY <1>1, <1>2, ServiceGoes

\* The user edits the field.
LEMMA ServiceEdits ==
  ASSUME Service!ServiceInv, NEW v \in Size.service.values, Service!Edit(v)
  PROVE  Service!ServiceInv'
<1>1. r6' = v /\ r8' = TRUE /\ UNCHANGED <<r1, r2, r3, r4, r7, r10, r11>>
  BY DEF Service!Edit
<1> QED BY <1>1 DEF Service!ServiceInv, Service!FactsRight, Service!AccusesRightly,
                    Service!OffForReason, Service!StagedIsMarked

\* The service ends, dies or comes back.
LEMMA ServiceRuns ==
  ASSUME Service!ServiceInv, Service!Terminates \/ Service!Crash \/ Service!Respawn
  PROVE  Service!ServiceInv'
<1>1. UNCHANGED <<r1, r2, r3, r4, r6, r7, r8, r10, r11>>
  BY DEF Service!Terminates, Service!Crash, Service!Respawn
<1> QED BY <1>1 DEF Service!ServiceInv, Service!FactsRight, Service!AccusesRightly,
                    Service!OffForReason, Service!StagedIsMarked

\* Every step keeps it.
LEMMA ServiceKept == ASSUME Service!ServiceInv, Service!Next PROVE Service!ServiceInv'
BY ServiceStarts, ServiceWrites, ServiceFails, ServiceChecks, ServicePasses, ServiceEdits,
ServiceRuns
DEF Service!Next, Service!Moves, Service!ChainMoves

\* It speaks of nothing but the variables of the machine.
LEMMA ServiceStutters ==
  ASSUME Service!ServiceInv, UNCHANGED <<r1, r2, r3, r4, r5, r6, r7, r8, r9, r10, r11, r12, r13>>
  PROVE  Service!ServiceInv'
BY DEF Service!StagedIsMarked, Service!AccusesRightly, Service!OffForReason, Service!ChainRight,
       Service!FactsRight, Service!ServiceInv

\* What it says.
LEMMA ServiceHolds ==
  ASSUME Service!ServiceInv PROVE Service!ServiceTypeOK /\ Service!ButtonsReturn /\ Service!StagedIsMarked /\ Service!AccusesRightly
<1>1. Service!ServiceTypeOK
  BY DEF Service!ServiceInv, Service!FactsRight, Service!ServiceTypeOK, Service!Places
<1>2. Service!ButtonsReturn
  <2> SUFFICES ASSUME \A c \in Size.service.chains : r4[c] = Service!Idle, NEW b \in r3
               PROVE  b = "stop" /\ ~r1.running
    BY DEF Service!ButtonsReturn
  <2>1. \A x : ~Service!Needs(Service!Idle, x)
    BY DEF Service!Needs, Service!Idle
  <2> QED BY <2>1 DEF Service!ServiceInv, Service!OffForReason
<1> QED BY <1>1, <1>2 DEF Service!ServiceInv

-----------------------------------------------------------------------------
(* The lock of bands and cells.                                            *)

Lock == INSTANCE LockPage WITH
    busy <- r1, active <- r2, lockState <- r3, shown <- r4, attached <- r5,
    brackets <- r6, restores <- r7, fetches <- r8, alarmed <- r9,
    radio <- r10, lock <- r11, deaf <- r12, clicks <- r13, lost <- r14,
    Values <- Size.lock.values, Clicks <- Size.lock.clicks,
    MaxLost <- Bound.lost, Tries <- Size.lock.tries

\* The invariant holds at the start.
LEMMA LockBegins == ASSUME Lock!LockBounds, Lock!Init PROVE Lock!LockInv
<1>1. Lock!LockTypeOK
  <2>1. r8 \subseteq [at : Lock!Rats \union {"mode"}, save : BOOLEAN]
    BY DEF Lock!Init, Lock!Fetch, Lock!Rats
  <2>2. r3 \in [Lock!Rats -> Size.lock.values] /\ r4 \in Size.lock.values /\ r2 \in Lock!Rats
    BY DEF Lock!Init, Lock!LockBounds, Lock!Rats
  <2> QED BY <2>1, <2>2 DEF Lock!Init, Lock!LockTypeOK
<1>2. r13 \in 0..Size.lock.clicks
  BY DEF Lock!LockBounds, Lock!Init
<1> QED BY <1>1, <1>2 DEF Lock!LockInv, Lock!Init, Lock!SomebodyRestores, Lock!FormCatchesUp

\* What is left of the bound serves as the name of the next bracket.
LEMMA LockClicks ==
  ASSUME Lock!LockBounds, Lock!LockInv, Lock!Click
  PROVE  r13 \in Lock!Ids /\ r13' \in 0..Size.lock.clicks
BY DEF Lock!LockBounds, Lock!LockInv, Lock!Click, Lock!Ids

\* The user picks a technology, edits the form or reads anew.
LEMMA LockForms ==
  ASSUME Lock!LockBounds, Lock!LockInv,
         \/ \E rat \in Lock!Rats : Lock!SelectRat(rat)
         \/ \E v \in Size.lock.values : Lock!Edit(v)
         \/ Lock!Refresh
  PROVE  Lock!LockInv'
<1>1. Lock!Click
  BY DEF Lock!SelectRat, Lock!Edit, Lock!Refresh
<1>2. CASE \E rat \in Lock!Rats : Lock!SelectRat(rat)
  <2> PICK rat \in Lock!Rats : Lock!SelectRat(rat)
    BY <1>2
  <2>1. /\ r2' = rat /\ r4' = r3[rat] /\ r5' = TRUE
        /\ UNCHANGED <<r1, r3, r6, r7, r8, r9, r10, r11, r12, r14>>
    BY DEF Lock!SelectRat, Lock!Draw
  <2>2. r4' \in Size.lock.values
    BY <2>1 DEF Lock!LockInv, Lock!LockTypeOK
  <2> QED BY <1>1, LockClicks, <2>1, <2>2 DEF Lock!LockInv, Lock!LockTypeOK,
                                              Lock!SomebodyRestores, Lock!FormCatchesUp
<1>3. CASE \E v \in Size.lock.values : Lock!Edit(v)
  <2> PICK v \in Size.lock.values : Lock!Edit(v)
    BY <1>3
  <2>1. /\ r4' = v /\ r3' = (IF r5 THEN [r3 EXCEPT ![r2] = v] ELSE r3)
        /\ UNCHANGED <<r1, r2, r5, r6, r7, r8, r9, r10, r11, r12, r14>>
    BY DEF Lock!Edit
  <2>2. r3' \in [Lock!Rats -> Size.lock.values] /\ (r5 => r3'[r2] = v)
    BY <2>1 DEF Lock!LockInv, Lock!LockTypeOK
  <2> QED BY <1>1, LockClicks, <2>1, <2>2 DEF Lock!LockInv, Lock!LockTypeOK,
                                              Lock!SomebodyRestores, Lock!FormCatchesUp
<1>4. CASE Lock!Refresh
  <2>1. r8' = r8 \union {Lock!Fetch("lte", FALSE)}
        /\ UNCHANGED <<r1, Lock!form, r6, r7, r9, r10, r11, r12, r14>>
    BY <1>4 DEF Lock!Refresh
  <2>2. Lock!Fetch("lte", FALSE) \in [at : Lock!Rats \union {"mode"}, save : BOOLEAN]
    BY DEF Lock!Fetch, Lock!Rats
  <2>3. r8' \subseteq [at : Lock!Rats \union {"mode"}, save : BOOLEAN] /\ r8' # {}
    BY <2>1, <2>2 DEF Lock!LockInv, Lock!LockTypeOK
  <2> QED BY <1>1, LockClicks, <2>1, <2>3 DEF Lock!LockInv, Lock!LockTypeOK,
                                              Lock!SomebodyRestores, Lock!FormCatchesUp, Lock!form
<1> QED BY <1>2, <1>3, <1>4

\* A reading of the lock, or of the mode, is answered.
LEMMA LockFetches ==
  ASSUME Lock!LockBounds, Lock!LockInv, NEW f \in r8, Lock!FetchLock(f) \/ Lock!FetchMode(f)
  PROVE  Lock!LockInv'
<1>1. f \in [at : Lock!Rats \union {"mode"}, save : BOOLEAN]
  BY DEF Lock!LockInv, Lock!LockTypeOK
<1>2. CASE Lock!FetchLock(f)
  <2>1. /\ r8' = (r8 \ {f}) \union {Lock!Fetch(Lock!Following[f.at], f.save)}
        /\ UNCHANGED <<r1, r2, r4, r6, r7, r9, r10, r11, r12, r13>>
    BY <1>2 DEF Lock!FetchLock
  <2>2. Lock!Fetch(Lock!Following[f.at], f.save) \in [at : Lock!Rats \union {"mode"}, save : BOOLEAN]
    BY <1>1, <1>2 DEF Lock!FetchLock, Lock!Fetch, Lock!Following, Lock!Rats
  <2>3. r3' \in [Lock!Rats -> Size.lock.values] /\ r5' \in BOOLEAN
    BY <1>2 DEF Lock!FetchLock, Lock!LockInv, Lock!LockTypeOK
  <2>4. r8' \subseteq [at : Lock!Rats \union {"mode"}, save : BOOLEAN] /\ r8' # {}
    BY <2>1, <2>2 DEF Lock!LockInv, Lock!LockTypeOK
  <2> QED BY <2>1, <2>3, <2>4 DEF Lock!LockInv, Lock!LockTypeOK, Lock!SomebodyRestores,
                                  Lock!FormCatchesUp
<1>3. CASE Lock!FetchMode(f)
  <2>1. /\ r8' = r8 \ {f} /\ r1' = (r1 /\ ~f.save)
        /\ r4' = r3[r2] /\ r5' = TRUE
        /\ UNCHANGED <<r2, r3, r6, r7, r9, r10, r11, r12, r13, r14>>
    BY <1>3 DEF Lock!FetchMode, Lock!DrawsAll, Lock!Draw
  <2>2. r4' \in Size.lock.values /\ r1' \in BOOLEAN
    BY <2>1 DEF Lock!LockInv, Lock!LockTypeOK
  <2> QED BY <2>1, <2>2 DEF Lock!LockInv, Lock!LockTypeOK, Lock!SomebodyRestores, Lock!FormCatchesUp
<1> QED BY <1>2, <1>3

\* A bracket begins: save, lock a neighbour, set the mode.
LEMMA LockOpens ==
  ASSUME Lock!LockBounds, Lock!LockInv,
         \/ Lock!Save \/ Lock!SetAccessMode
         \/ \E rat \in Lock!Rats, v \in Size.lock.values : Lock!LockNeighbor(rat, v)
  PROVE  Lock!LockInv'
<1>1. Lock!Click
  BY DEF Lock!Save, Lock!SetAccessMode, Lock!LockNeighbor
<1>2. \E b \in [id : Lock!Ids, kind : {"save", "neighbor", "mode"}, rat : Lock!Rats, value : Size.lock.values,
                at : {"off", "work", "on"}] : r6' = r6 \union {b}
  <2>1. CASE Lock!Save
    <3> DEFINE b == [id |-> r13, kind |-> "save", rat |-> r2, value |-> r3[r2], at |-> "off"]
    <3>1. r6' = r6 \union {b} /\ r3[r2] \in Size.lock.values /\ r2 \in Lock!Rats
      BY <2>1 DEF Lock!Save, Lock!LockInv, Lock!LockTypeOK
    <3> QED BY <1>1, LockClicks, <3>1
  <2>2. CASE Lock!SetAccessMode
    <3> DEFINE b == [id |-> r13, kind |-> "mode", rat |-> "nr", value |-> r11["nr"], at |-> "off"]
    <3>1. r6' = r6 \union {b} /\ r11["nr"] \in Size.lock.values /\ "nr" \in Lock!Rats
      BY <2>2 DEF Lock!SetAccessMode, Lock!LockInv, Lock!LockTypeOK, Lock!Rats
    <3> QED BY <1>1, LockClicks, <3>1
  <2>3. ASSUME NEW rat \in Lock!Rats, NEW v \in Size.lock.values, Lock!LockNeighbor(rat, v)
        PROVE  \E b \in [id : Lock!Ids, kind : {"save", "neighbor", "mode"}, rat : Lock!Rats, value : Size.lock.values,
                at : {"off", "work", "on"}] : r6' = r6 \union {b}
    <3> DEFINE b == [id |-> r13, kind |-> "neighbor", rat |-> rat, value |-> v, at |-> "off"]
    <3>1. r6' = r6 \union {b}
      BY <2>3 DEF Lock!LockNeighbor
    <3> QED BY <1>1, LockClicks, <3>1
  <2> QED BY <2>1, <2>2, <2>3
<1>3. r1' \in BOOLEAN
  BY DEF Lock!Save, Lock!SetAccessMode, Lock!LockNeighbor, Lock!LockInv, Lock!LockTypeOK
<1>4. UNCHANGED <<Lock!form, r7, r8, r9, r10, r11, r12, r14>>
  BY DEF Lock!Save, Lock!SetAccessMode, Lock!LockNeighbor
<1>5. /\ r6 \subseteq r6'
      /\ r6' \subseteq [id : Lock!Ids, kind : {"save", "neighbor", "mode"}, rat : Lock!Rats, value : Size.lock.values,
                              at : {"off", "work", "on"}]
  BY <1>2 DEF Lock!LockInv
<1>6. \A b \in r6' : /\ b.id \in Lock!Ids /\ b.rat \in Lock!Rats /\ b.value \in Size.lock.values
                     /\ b.kind \in {"save", "neighbor", "mode"}
                     /\ b.at \in {"off", "work", "on"}
  BY <1>5
<1>7. Lock!SomebodyRestores'
  BY <1>4, <1>5 DEF Lock!LockInv, Lock!SomebodyRestores
<1>8. Lock!FormCatchesUp'
  BY <1>4 DEF Lock!LockInv, Lock!FormCatchesUp, Lock!form
<1> QED BY <1>1, LockClicks, <1>3, <1>4, <1>5, <1>6, <1>7, <1>8 DEF Lock!LockInv, Lock!LockTypeOK,
Lock!form

\* A bracket goes on, and fails at any of its commands.
LEMMA LockTurns ==
  ASSUME Lock!LockBounds, Lock!LockInv, NEW b \in r6,
         Lock!TurnedOff(b) \/ Lock!NotTurnedOff(b) \/ Lock!Worked(b) \/ Lock!BracketFails(b)
           \/ Lock!TurnedOn(b)
  PROVE  Lock!LockInv'
<1> DEFINE Bracket == [id : Lock!Ids, kind : {"save", "neighbor", "mode"}, rat : Lock!Rats, value : Size.lock.values,
                       at : {"off", "work", "on"}]
           Attempt == [id : Lock!Ids, tries : 1..Size.lock.tries]
<1>1. b \in Bracket /\ r6 \subseteq Bracket /\ r7 \subseteq Attempt
  BY DEF Lock!LockInv
<1>2. \A next \in {"work", "on"} : [b EXCEPT !.at = next] \in Bracket /\ [b EXCEPT !.at = next].at = next
  BY <1>1
<1>3. r6' \subseteq Bracket
  <2>1. ASSUME Lock!TurnedOff(b) PROVE r6' \subseteq Bracket
    BY <1>1, <1>2, <2>1 DEF Lock!TurnedOff, Lock!At
  <2>2. ASSUME Lock!Worked(b) PROVE r6' \subseteq Bracket
    BY <1>1, <1>2, <2>2 DEF Lock!Worked, Lock!At
  <2>3. ASSUME Lock!NotTurnedOff(b) \/ Lock!BracketFails(b)
                 \/ Lock!TurnedOn(b) PROVE r6' \subseteq Bracket
    BY <1>1, <2>3 DEF Lock!NotTurnedOff, Lock!BracketFails, Lock!TurnedOn, Lock!Ended
  <2> QED BY <2>1, <2>2, <2>3
<1>4. [id |-> b.id, tries |-> Size.lock.tries] \in Attempt
  BY <1>1 DEF Lock!LockBounds
<1>5. r7' \subseteq Attempt /\ r7 \subseteq r7'
  BY <1>1, <1>4 DEF Lock!TurnedOff, Lock!NotTurnedOff, Lock!Worked, Lock!BracketFails,
                    Lock!TurnedOn, Lock!Restores
<1> HIDE DEF Bracket, Attempt
<1>6. Lock!SomebodyRestores'
  <2>1. CASE Lock!TurnedOff(b)
    <3>1. [b EXCEPT !.at = "work"] \in r6'
      BY <2>1 DEF Lock!TurnedOff, Lock!At
    <3> QED BY <1>2, <3>1 DEF Lock!SomebodyRestores
  <2>2. CASE Lock!NotTurnedOff(b)
    <3>1. b.at = "off" /\ r10' \in {r10, FALSE} /\ r12' = (r12 \/ r10 # r10')
          /\ r6' = r6 \ {b} /\ UNCHANGED <<r7, r9>>
      BY <2>2 DEF Lock!NotTurnedOff, Lock!Ended
    <3>2. \A x \in r6 : x.at \in {"work", "on"} => x \in r6'
      BY <3>1
    <3>3. r10 \in BOOLEAN
      BY DEF Lock!LockInv, Lock!LockTypeOK
    <3>4. ~r10' => r12' \/ ~r10
      BY <3>1, <3>3
    <3> QED BY <3>1, <3>2, <3>4 DEF Lock!SomebodyRestores, Lock!LockInv
  <2>3. CASE Lock!Worked(b)
    <3>1. [b EXCEPT !.at = "on"] \in r6'
      BY <2>3 DEF Lock!Worked, Lock!At
    <3> QED BY <1>2, <3>1 DEF Lock!SomebodyRestores
  <2>4. CASE Lock!BracketFails(b)
    <3>1. r7' # {}
      BY <2>4 DEF Lock!BracketFails, Lock!Restores
    <3> QED BY <3>1 DEF Lock!SomebodyRestores
  <2>5. CASE Lock!TurnedOn(b)
    BY <2>5 DEF Lock!TurnedOn, Lock!RadioOn, Lock!SomebodyRestores
  <2> QED BY <2>1, <2>2, <2>3, <2>4, <2>5
<1>7. UNCHANGED Lock!form /\ r13' = r13
  BY DEF Lock!TurnedOff, Lock!NotTurnedOff, Lock!Worked, Lock!BracketFails, Lock!TurnedOn
<1>8. /\ r8 \subseteq r8'
      /\ r8' \subseteq [at : Lock!Rats \union {"mode"}, save : BOOLEAN]
  <2>1. CASE Lock!TurnedOn(b)
    <3>1. r8' = r8 \union IF b.kind = "mode" THEN {} ELSE {Lock!Fetch("lte", b.kind = "save")}
      BY <2>1 DEF Lock!TurnedOn
    <3>2. Lock!Fetch("lte", b.kind = "save") \in [at : Lock!Rats \union {"mode"}, save : BOOLEAN]
      BY DEF Lock!Fetch, Lock!Rats
    <3> QED BY <3>1, <3>2 DEF Lock!LockInv, Lock!LockTypeOK
  <2>2. CASE UNCHANGED r8
    BY <2>2 DEF Lock!LockInv, Lock!LockTypeOK
  <2> QED BY <2>1, <2>2 DEF Lock!TurnedOff, Lock!NotTurnedOff, Lock!Worked, Lock!BracketFails
<1>9. Lock!FormCatchesUp'
  BY <1>7, <1>8 DEF Lock!LockInv, Lock!FormCatchesUp, Lock!form
<1>10. r1' \in BOOLEAN /\ r10' \in BOOLEAN /\ r12' \in BOOLEAN /\ r9' \in BOOLEAN
  <2>1. r1 \in BOOLEAN /\ r10 \in BOOLEAN /\ r12 \in BOOLEAN /\ r9 \in BOOLEAN
    BY DEF Lock!LockInv, Lock!LockTypeOK
  <2>2. r1' \in BOOLEAN
    BY <2>1 DEF Lock!TurnedOff, Lock!NotTurnedOff, Lock!Worked, Lock!BracketFails, Lock!TurnedOn,
                Lock!Ended
  <2>3. r10' \in BOOLEAN
    BY <2>1 DEF Lock!TurnedOff, Lock!NotTurnedOff, Lock!Worked, Lock!BracketFails, Lock!TurnedOn,
                Lock!RadioOn
  <2>4. r12' \in BOOLEAN
    BY <2>1 DEF Lock!TurnedOff, Lock!NotTurnedOff, Lock!Worked, Lock!BracketFails, Lock!TurnedOn,
                Lock!RadioOn
  <2>5. r9' \in BOOLEAN
    BY <2>1 DEF Lock!TurnedOff, Lock!NotTurnedOff, Lock!Worked, Lock!BracketFails, Lock!TurnedOn,
                Lock!RadioOn
  <2> QED BY <2>2, <2>3, <2>4, <2>5
<1>11. r11' \in [Lock!Rats -> Size.lock.values]
  <2>1. r11 \in [Lock!Rats -> Size.lock.values] /\ [r11 EXCEPT ![b.rat] = b.value] \in [Lock!Rats -> Size.lock.values]
    BY <1>1 DEF Lock!LockInv, Lock!LockTypeOK, Bracket
  <2> QED BY <2>1 DEF Lock!TurnedOff, Lock!NotTurnedOff, Lock!Worked, Lock!BracketFails,
                      Lock!TurnedOn
<1>12. /\ \A x \in r6' : /\ x.id \in Lock!Ids /\ x.rat \in Lock!Rats /\ x.value \in Size.lock.values
                         /\ x.kind \in {"save", "neighbor", "mode"}
                         /\ x.at \in {"off", "work", "on"}
       /\ \A r \in r7' : r.id \in Lock!Ids /\ r.tries \in 1..Size.lock.tries
  BY <1>3, <1>5 DEF Bracket, Attempt
<1>13. Lock!LockTypeOK'
  BY <1>7, <1>8, <1>10, <1>11, <1>12 DEF Lock!LockInv, Lock!LockTypeOK, Lock!form
<1> QED BY <1>3, <1>5, <1>6, <1>7, <1>9, <1>13 DEF Lock!LockInv, Bracket, Attempt

\* An attempt to bring the radio back.
LEMMA LockRestores ==
  ASSUME Lock!LockBounds, Lock!LockInv, NEW r \in r7, Lock!Restored(r) \/ Lock!NotRestored(r)
  PROVE  Lock!LockInv'
<1>1. r.tries \in 1..Size.lock.tries /\ r \in [id : Lock!Ids, tries : 1..Size.lock.tries]
  BY DEF Lock!LockInv
<1>2. CASE Lock!Restored(r)
  <2>1. /\ r10' = TRUE /\ r12' = FALSE /\ r9' = FALSE /\ r7' = r7 \ {r}
        /\ UNCHANGED <<r1, Lock!form, r6, r8, r11, r13, r14>>
    BY <1>2 DEF Lock!Restored, Lock!RadioOn
  <2> QED BY <2>1 DEF Lock!LockInv, Lock!LockTypeOK, Lock!SomebodyRestores, Lock!FormCatchesUp,
                      Lock!form
<1>3. CASE Lock!NotRestored(r)
  <2>1. /\ r7' = (r7 \ {r}) \union IF r.tries = 1 THEN {} ELSE {[r EXCEPT !.tries = @ - 1]}
        /\ r9' = (IF r.tries = 1 THEN TRUE ELSE r9)
        /\ UNCHANGED <<r1, Lock!form, r6, r8, r10, r11, r12, r13>>
    BY <1>3 DEF Lock!NotRestored, Lock!Alarms
  <2>2. r.tries # 1 => [r EXCEPT !.tries = @ - 1] \in [id : Lock!Ids, tries : 1..Size.lock.tries]
    BY <1>1 DEF Lock!LockBounds
  <2>3. r7' \subseteq [id : Lock!Ids, tries : 1..Size.lock.tries] /\ (r.tries = 1 \/ r7' # {})
    BY <2>1, <2>2 DEF Lock!LockInv
  <2>4. \A x \in r7' : x.id \in Lock!Ids /\ x.tries \in 1..Size.lock.tries
    BY <2>3
  <2>5. r9' \in BOOLEAN
    BY <2>1 DEF Lock!LockInv, Lock!LockTypeOK
  <2>6. Lock!LockTypeOK'
    BY <2>1, <2>4, <2>5 DEF Lock!LockInv, Lock!LockTypeOK, Lock!form
  <2>7. Lock!SomebodyRestores'
    BY <2>1, <2>3 DEF Lock!LockInv, Lock!SomebodyRestores
  <2> QED BY <2>1, <2>3, <2>6, <2>7 DEF Lock!LockInv, Lock!FormCatchesUp, Lock!form
<1> QED BY <1>2, <1>3

\* Every step keeps it.
LEMMA LockKept == ASSUME Lock!LockBounds, Lock!LockInv, Lock!Next PROVE Lock!LockInv'
<1>1. CASE Lock!Done
  BY <1>1 DEF Lock!Done, Lock!vars, Lock!form, Lock!LockInv, Lock!LockTypeOK,
              Lock!SomebodyRestores, Lock!FormCatchesUp
<1> QED BY <1>1, LockForms, LockFetches, LockOpens, LockTurns, LockRestores DEF Lock!Next,
Lock!Moves

\* It speaks of nothing but the variables of the machine.
LEMMA LockStutters ==
  ASSUME Lock!LockInv, UNCHANGED <<r1, r2, r3, r4, r5, r6, r7, r8, r9, r10, r11, r12, r13, r14>>
  PROVE  Lock!LockInv'
BY DEF Lock!LockTypeOK, Lock!FormCatchesUp, Lock!SomebodyRestores, Lock!LockInv

\* What it says.
LEMMA LockHolds ==
  ASSUME Lock!LockInv
  PROVE  Lock!LockTypeOK /\ Lock!RadioComesBack /\ Lock!FormCatchesUp
BY DEF Lock!LockInv, Lock!SomebodyRestores, Lock!RadioComesBack

-----------------------------------------------------------------------------
\* What the bounds of these machines are.
ASSUME BoundAssumption ==
    /\ Session!SessionBounds
    /\ Lock!LockBounds
    /\ Modem!ModemBounds
    /\ Apply!StagedBounds
    /\ Logs!LogsBounds
=============================================================================
