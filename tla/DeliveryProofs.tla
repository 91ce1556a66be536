--------------------------- MODULE DeliveryProofs ---------------------------
(***************************************************************************)
(* That what the console receives is echoed in order, and that a handler   *)
(* is hardly entered for nothing: for every driver, every capacity of the  *)
(* receive FIFO and every use of the timer.                                *)
(***************************************************************************)
EXTENDS Delivery, CpuTheorems

-----------------------------------------------------------------------------
(* The devices.                                                            *)

LEMMA Bytes ==
  /\ {} \in Byte /\ {"C"} \in Byte /\ Chars \subseteq Byte
  /\ \A b \in {"E", "F", "H", "I", "N", "Z", "V", "C"} : b \in Bits
  /\ Bits = {"E", "F", "H", "I", "N", "Z", "V", "C"}
BY DeliveryConstants DEF DeliveryAssumption, Byte

LEMMA Limits ==
  /\ RxMax \in Nat \ {0} /\ MaxHold \in Nat /\ MaxFed \in Nat
  /\ MaxPeriod \in Nat /\ (MaxPeriod + 1) % 256 = 0
  /\ Reloads \subseteq 0 .. MaxPeriod
BY DeliveryConstants DEF DeliveryAssumption

LEMMA RxIs ==
  \A rx : rx \in UNION {[1 .. n -> Chars] : n \in 0 .. RxMax} <=> rx \in Seq(Chars) /\ Len(rx) <= RxMax
<1>1. ASSUME NEW n \in 0 .. RxMax, NEW rx \in [1 .. n -> Chars]
      PROVE  rx \in Seq(Chars) /\ Len(rx) <= RxMax
  BY <1>1, Limits
<1>2. ASSUME NEW rx \in Seq(Chars), Len(rx) <= RxMax
      PROVE  \E n \in 0 .. RxMax : rx \in [1 .. n -> Chars]
  BY <1>2, LenProperties, Limits
<1> QED
  BY <1>1, <1>2

LEMMA AciaFields ==
  ASSUME NEW a \in A!Acia
  PROVE  /\ a.rx \in Seq(Chars) /\ Len(a.rx) \in Nat /\ Len(a.rx) <= RxMax
         /\ \A f \in {"rdrf", "overrun", "tdre", "reset", "rie", "tie"} : a[f] \in BOOLEAN
         /\ a.hold \in 0 .. MaxHold /\ a.held \in 0 .. MaxHold
<1>1. a.rx \in UNION {[1 .. n -> Chars] : n \in 0 .. RxMax}
  BY DEF A!Acia
<1>2. a.rx \in Seq(Chars) /\ Len(a.rx) <= RxMax
  BY <1>1, RxIs
<1> QED
  BY <1>2, LenProperties DEF A!Acia

\* What can be read of the FIFO: a byte is ready if there is one, and there is none in
\* master reset.
Sound(a) == (a.rdrf <=> a.rx # <<>>) /\ (a.reset => a.rx = <<>>)

LEMMA NewIs ==
  \A n \in 0 .. MaxHold :
    LET a == [A!New EXCEPT !.hold = n]
    IN  a \in A!Acia /\ Sound(a) /\ a.rx = <<>> /\ a.held = 0
<1> TAKE n \in 0 .. MaxHold
<1>1. <<>> \in UNION {[1 .. k -> Chars] : k \in 0 .. RxMax}
  <2>1. <<>> \in Seq(Chars) /\ Len(<<>>) <= RxMax
    BY EmptySeq, Limits
  <2> QED
    BY <2>1, RxIs
<1>2. 0 \in 0 .. MaxHold
  BY Limits
<1> QED
  BY <1>1, <1>2 DEF A!New, A!Acia, Sound

LEMMA ReceiveIs ==
  ASSUME NEW a \in A!Acia, Sound(a), NEW char \in Chars
  PROVE  LET new == A!Receive(a, char)
         IN  /\ new \in A!Acia /\ Sound(new)
             /\ new.rx = IF A!Accepts(a) THEN Append(a.rx, char) ELSE a.rx
             /\ new.reset = a.reset /\ new.held = a.held
             /\ A!Level(a) => A!Level(new)
<1>1. a.rx \in Seq(Chars) /\ Len(a.rx) \in Nat
  BY AciaFields
<1>2. CASE A!Accepts(a)
  <2>0. PICK old \in Seq(Chars) : old = a.rx
    BY <1>1
  <2>1. /\ Append(old, char) \in Seq(Chars) /\ Append(old, char) # <<>>
        /\ Len(Append(old, char)) = Len(old) + 1
    BY AppendProperties
  <2> DEFINE rx == Append(old, char)
  <2>3. Len(rx) <= RxMax /\ ~ a.reset
    BY <1>1, <1>2, <2>0, <2>1, Limits DEF A!Accepts
  <2>2. A!Receive(a, char) = [a EXCEPT !.rx = rx, !.rdrf = TRUE]
    BY <1>2, <2>0, <2>3 DEF A!Receive, A!Acia
  <2>4. rx \in UNION {[1 .. n -> Chars] : n \in 0 .. RxMax}
    BY <2>1, <2>3, RxIs
  <2> HIDE DEF rx
  <2> QED
    BY <1>2, <2>0, <2>1, <2>2, <2>3, <2>4 DEF A!Acia, Sound, A!Level, rx
<1>3. CASE ~ A!Accepts(a) /\ a.reset
  BY <1>3 DEF A!Receive
<1>4. CASE ~ A!Accepts(a) /\ ~ a.reset
  <2>1. A!Receive(a, char) = [a EXCEPT !.overrun = TRUE]
    BY <1>4 DEF A!Receive
  <2> QED
    BY <1>4, <2>1 DEF A!Acia, Sound, A!Level
<1> QED
  BY <1>2, <1>3, <1>4

LEMMA ReadDataIs ==
  ASSUME NEW a \in A!Acia, Sound(a)
  PROVE  LET new == A!AfterReadData(a)
         IN  /\ new \in A!Acia /\ Sound(new) /\ A!Data(a) \in Byte
             /\ new.reset = a.reset
             /\ a.rx # <<>> => /\ A!Data(a) = Head(a.rx) /\ Head(a.rx) \in Chars
                               /\ new.rx = Tail(a.rx)
<1>1. a.rx \in Seq(Chars) /\ Len(a.rx) \in Nat /\ Len(a.rx) <= RxMax
  BY AciaFields
<1>2. CASE a.rx = <<>>
  <2>1. A!AfterReadData(a) = [a EXCEPT !.rx = <<>>, !.rdrf = FALSE, !.overrun = FALSE]
    BY <1>2 DEF A!AfterReadData
  <2>2. A!Data(a) = {}
    BY <1>2 DEF A!Data
  <2> QED
    BY <1>2, <2>1, <2>2, Bytes DEF A!Acia, Sound
<1>3. CASE a.rx # <<>>
  <2>1. PICK rest \in Seq(Chars) : rest = Tail(a.rx) /\ Len(rest) = Len(a.rx) - 1
    BY <1>1, <1>3, HeadTailProperties
  <2>2. Head(a.rx) \in Chars /\ A!Data(a) = Head(a.rx)
    BY <1>1, <1>3, HeadTailProperties DEF A!Data
  <2>3. A!AfterReadData(a) = [a EXCEPT !.rx = rest, !.rdrf = (rest # <<>>), !.overrun = FALSE]
    BY <1>3, <2>1 DEF A!AfterReadData
  <2>4. Len(rest) <= RxMax
    BY <1>1, <2>1, Limits
  <2>5. rest \in UNION {[1 .. n -> Chars] : n \in 0 .. RxMax}
    BY <2>4, RxIs
  <2>6. ~ a.reset
    BY <1>3 DEF Sound
  <2> QED
    BY <1>3, <2>1, <2>2, <2>3, <2>5, <2>6, Bytes DEF A!Acia, Sound
<1> QED
  BY <1>2, <1>3

LEMMA WriteDataIs ==
  ASSUME NEW a \in A!Acia, Sound(a)
  PROVE  LET new == A!WriteData(a)
         IN  /\ new \in A!Acia /\ Sound(new)
             /\ new.rx = a.rx /\ new.reset = a.reset /\ new.held = a.held
             /\ A!Level(a) => A!Level(new)
BY DEF A!WriteData, A!Transmits, A!Acia, Sound, A!Level

LEMMA WriteControlIs ==
  ASSUME NEW a \in A!Acia, Sound(a), NEW byte
  PROVE  LET new == A!WriteControl(a, byte)
         IN  /\ new \in A!Acia /\ Sound(new)
             /\ new.rx = IF new.reset THEN <<>> ELSE a.rx
<1> DEFINE set == [a EXCEPT !.rie = "E" \in byte, !.tie = "F" \notin byte /\ "H" \in byte]
<1>1. set \in A!Acia /\ set.rx = a.rx /\ set.reset = a.reset /\ set.rdrf = a.rdrf /\ set.tdre = a.tdre
  <2>1. PICK rie \in BOOLEAN, tie \in BOOLEAN : set = [a EXCEPT !.rie = rie, !.tie = tie]
    <3>1. /\ ("E" \in byte) \in BOOLEAN
          /\ ("F" \notin byte /\ "H" \in byte) \in BOOLEAN
      OBVIOUS
    <3> QED
      BY <3>1, Zenon
  <2> HIDE DEF set
  <2> QED
    BY <2>1 DEF A!Acia
<1> HIDE DEF set
<1>2. CASE {"C", "V"} \subseteq byte
  <2>1. A!WriteControl(a, byte) = [set EXCEPT !.reset = TRUE, !.tdre = FALSE, !.rdrf = FALSE,
                                             !.overrun = FALSE, !.rx = <<>>]
    BY <1>2 DEF A!WriteControl, set
  <2>2. <<>> \in UNION {[1 .. n -> Chars] : n \in 0 .. RxMax}
    BY RxIs, EmptySeq, Limits
  <2> QED
    BY <1>1, <2>1, <2>2 DEF A!Acia, Sound
<1>3. CASE ~ {"C", "V"} \subseteq byte
  <2>1. A!WriteControl(a, byte) = [set EXCEPT !.reset = FALSE, !.tdre = set.tdre \/ a.reset]
    BY <1>1, <1>3 DEF A!WriteControl, set
  <2> QED
    BY <1>1, <2>1 DEF A!Acia, Sound
<1> QED
  BY <1>2, <1>3

LEMMA PollIs ==
  ASSUME NEW a \in A!Acia, Sound(a)
  PROVE  LET new == A!AfterPoll(a)
         IN  /\ new \in A!Acia /\ Sound(new)
             /\ new.rx = a.rx /\ new.reset = a.reset
             /\ A!Level(new) = A!Level(a)
             /\ (MaxHold <= 1 /\ new.held > 0 => A!Level(new))
<1>1. a.hold \in 0 .. MaxHold /\ a.held \in 0 .. MaxHold /\ MaxHold \in Nat
  BY AciaFields, Limits
<1>2. PICK h \in 0 .. MaxHold : /\ A!AfterPoll(a) = [a EXCEPT !.held = h]
                                /\ MaxHold <= 1 /\ h > 0 => A!Level(a)
  <2>1. CASE A!Level(a)
    BY <1>1, <2>1 DEF A!AfterPoll, A!Acia
  <2>2. CASE ~ A!Level(a) /\ a.held > 0
    <3>1. a.held - 1 \in 0 .. MaxHold /\ (MaxHold <= 1 => a.held - 1 = 0)
      BY <1>1, <2>2
    <3>2. A!AfterPoll(a) = [a EXCEPT !.held = a.held - 1]
      BY <2>2 DEF A!AfterPoll, A!Acia
    <3> QED
      BY <3>1, <3>2
  <2>3. CASE ~ A!Level(a) /\ ~ a.held > 0
    BY <1>1, <2>3 DEF A!AfterPoll, A!Acia
  <2> QED
    BY <2>1, <2>2, <2>3
<1> QED
  BY <1>2 DEF A!Acia, Sound, A!Level

LEMMA TimerNewIs == T!New \in T!Timer
BY Limits DEF T!New, T!Timer

\* A tick never takes back a request.
LEMMA TickIs ==
  ASSUME NEW t \in T!Timer
  PROVE  /\ T!Tick(t) \in T!Timer
         /\ T!Asserts(t) \subseteq T!Asserts(T!Tick(t))
         /\ T!Asserts(t) \subseteq {"irq", "firq"}
<1>1. t.counter \in 0 .. MaxPeriod /\ t.reload \in 0 .. MaxPeriod /\ MaxPeriod \in Nat
  BY Limits DEF T!Timer
<1>2. T!Asserts(t) \subseteq {"irq", "firq"}
  BY DEF T!Asserts
<1>3. CASE ~ T!Running(t)
  BY <1>2, <1>3 DEF T!Tick
<1>4. CASE T!Running(t) /\ t.counter > 1
  <2>1. T!Tick(t) = [t EXCEPT !.counter = t.counter - 1] /\ t.counter - 1 \in 0 .. MaxPeriod
    BY <1>1, <1>4 DEF T!Tick
  <2> QED
    BY <1>2, <2>1 DEF T!Timer, T!Asserts
<1>5. CASE T!Running(t) /\ ~ t.counter > 1
  <2>1. T!Tick(t) = [t EXCEPT !.pending = TRUE, !.counter = t.reload]
    BY <1>5 DEF T!Tick
  <2> QED
    BY <1>1, <1>2, <2>1 DEF T!Timer, T!Asserts
<1> QED
  BY <1>3, <1>4, <1>5

\* A byte written over the lower one of a number of whole bytes.
LEMMA WithByteIs ==
  ASSUME NEW n \in 0 .. MaxPeriod, NEW byte \in 0 .. 255
  PROVE  T!WithByte(n, 0, byte) \in 0 .. MaxPeriod
<1>1. T!WithByte(n, 0, byte) = n + (byte - ((n \div 1) % 256)) * 1
  BY DEF T!WithByte, T!Weight, T!Radix
<1>2. MaxPeriod \in Nat /\ (MaxPeriod + 1) % 256 = 0
  BY Limits
<1>3. PICK q \in Nat : MaxPeriod + 1 = 256 * q
  BY <1>2
<1>4. PICK d \in Nat, r \in 0 .. 255 : n = 256 * d + r /\ r = n % 256
  BY <1>2
<1>5. T!WithByte(n, 0, byte) = 256 * d + byte
  <2>1. (n \div 1) = n /\ n \in Nat
    BY <1>2
  <2>2. T!WithByte(n, 0, byte) = n + (byte - r) * 1
    BY <1>1, <1>4, <2>1
  <2> QED
    BY <1>4, <2>2
<1>6. d < q
  BY <1>2, <1>3, <1>4
<1> QED
  BY <1>2, <1>3, <1>5, <1>6

LEMMA TimerWritten ==
  ASSUME NEW t \in T!Timer
  PROVE  /\ \A byte : T!WriteControl(t, byte) \in T!Timer
         /\ \A byte \in 0 .. 255 : /\ T!WriteReload(t, 0, byte) \in T!Timer
                                   /\ T!WriteCounter(t, 0, byte) \in T!Timer
<1>1. t.counter \in 0 .. MaxPeriod /\ t.reload \in 0 .. MaxPeriod
  BY DEF T!Timer
<1>2. ASSUME NEW byte
      PROVE  T!WriteControl(t, byte) \in T!Timer
  <2>1. PICK n \in 0 .. MaxPeriod :
          n = IF ~ T!Running(t) /\ "C" \in byte /\ t.counter = 0 THEN t.reload ELSE t.counter
    BY <1>1
  <2>2. PICK pending \in BOOLEAN : pending = (t.pending /\ "I" \notin byte)
    OBVIOUS
  <2>3. T!WriteControl(t, byte) =
          [t EXCEPT !.ctrl = byte \cap {"C", "V", "Z"}, !.pending = pending, !.counter = n]
    BY <2>1, <2>2 DEF T!WriteControl, T!Timer
  <2> QED
    BY <2>3 DEF T!Timer
<1>3. ASSUME NEW byte \in 0 .. 255
      PROVE  T!WriteReload(t, 0, byte) \in T!Timer /\ T!WriteCounter(t, 0, byte) \in T!Timer
  <2>1. PICK r \in 0 .. MaxPeriod, n \in 0 .. MaxPeriod :
          r = T!WithByte(t.reload, 0, byte) /\ n = T!WithByte(t.counter, 0, byte)
    BY <1>1, WithByteIs
  <2>2. /\ T!WriteReload(t, 0, byte) = [t EXCEPT !.reload = r]
        /\ T!WriteCounter(t, 0, byte) = [t EXCEPT !.counter = n]
    BY <2>1 DEF T!WriteReload, T!WriteCounter, T!Timer
  <2> QED
    BY <2>2 DEF T!Timer
<1> QED
  BY <1>2, <1>3

LEMMA TimerSet ==
  ASSUME NEW t \in T!Timer
  PROVE  /\ \A n \in 0 .. MaxPeriod : T!SetReload(t, n) \in T!Timer
         /\ T!Start(t) \in T!Timer
         /\ \A bit \in {"C", "V", "Z"}, on \in BOOLEAN : T!Switch(t, bit, on) \in T!Timer
BY DEF T!SetReload, T!Start, T!Switch, T!Timer

\* What a poll of both devices asserts.
LEMMA AssertedIs ==
  ASSUME NEW a \in A!Acia, NEW t \in T!Timer
  PROVE  /\ Asserted(a, t) \subseteq {"irq", "firq"}
         /\ "irq" \in Asserted(a, t) <=> A!Level(a) \/ a.held > 0 \/ "irq" \in T!Asserts(t)
BY TickIs DEF Asserted, A!Line

-----------------------------------------------------------------------------
(* The machine.                                                            *)

\* The frame on top of the stack is that of an interrupt of the main program.
Interrupted(m) ==
  /\ {"E", "F"} \subseteq Peek(m, 0)
  /\ <<Peek(m, NRegs + 1), Peek(m, NRegs + 2)>> \in Code \ Handler

\* FIRQ stays masked, and IRQ while the handler runs.
InHand(m) ==
  /\ m.pc \in Code /\ "F" \in m.cc /\ m.latch \subseteq {"irq", "firq"}
  /\ m.pc \in Handler => "I" \in m.cc /\ Interrupted(m)

LEMMA Driver ==
  /\ Handler \subseteq Code /\ Vec["irq"] \in Handler /\ Vec["reset"] \in Code \ Handler
  /\ Code \subseteq Word /\ NRegs \in Nat /\ NRegs >= 1 /\ 1 \in 1 .. NRegs
  /\ Vec["irq"] \notin Reads("data") /\ Vec["irq"] \notin Transmits /\ Vec["irq"] \notin Tests
  /\ Transmits \subseteq Handler /\ Reads("data") \subseteq Handler
  /\ \A a \in Code : Guest[a] \in Instruction
<1>1. Dp \in 1 .. NRegs /\ NRegs \in Nat /\ Code \subseteq Word
  BY CpuConstants DEF CpuAssumption
<1>2. 1 \in 1 .. NRegs /\ NRegs >= 1
  BY <1>1
<1> QED
  BY <1>1, <1>2, DeliveryConstants, DriverConstants
     DEF DeliveryAssumption, DriverAssumption, Transmits, Reads

\* The tail of step: the handler is entered from the main program only, with the request
\* taken out of its latch, and is not interrupted.
LEMMA TailIs ==
  ASSUME NEW n \in Machine, InHand(n), NEW lines \in SUBSET {"irq", "firq"}
  PROVE  LET m == Service(Poll(n, lines))
         IN  /\ m \in Machine /\ InHand(m)
             /\ \/ m.pc = n.pc /\ m.regs = n.regs /\ m.latch = n.latch \cup lines
                \/ /\ n.pc \notin Handler /\ m.pc = Vec["irq"]
                   /\ "irq" \in n.latch \cup lines /\ "irq" \notin m.latch
<1> DEFINE p == Poll(n, lines)
<1>1. /\ p \in Machine /\ p.pc = n.pc /\ p.cc = n.cc /\ p.regs = n.regs /\ p.s = n.s /\ p.mem = n.mem
      /\ p.latch = n.latch \cup lines
  BY DEF Poll, Machine, Inputs
<1>2. InHand(p)
  BY <1>1 DEF InHand, Interrupted, Peek
<1> HIDE DEF p
<1>3. /\ "F" \in p.cc /\ "nmi" \notin p.latch /\ (p.pc \in Handler => "I" \in p.cc)
  BY <1>2 DEF InHand
<1>4. CASE Service(p) = p
  BY <1>1, <1>2, <1>4 DEF p
<1>5. CASE /\ Service(p) = ServiceIrq(p)
           /\ "I" \notin p.cc /\ "irq" \in p.latch
  <2> DEFINE e == EnterWhole(p, "irq")
  <2>1. e \in Machine
    BY <1>1, EnterWholeType
  <2>2. /\ e.pc = Vec["irq"] /\ e.cc = p.cc \cup {"E", "F", "I"} /\ e.latch = p.latch
        /\ Peek(e, 0) = p.cc \cup {"E"}
        /\ Peek(e, NRegs + 1) = p.pc[1] /\ Peek(e, NRegs + 2) = p.pc[2]
    BY <1>1, EnterWholeEffect
  <2> HIDE DEF e
  <2>3. Service(p) = [e EXCEPT !.latch = p.latch \ {"irq"}]
    BY <1>5, <2>1, <2>2 DEF ServiceIrq, e, Machine
  <2> DEFINE m == [e EXCEPT !.latch = p.latch \ {"irq"}]
  <2>4. /\ m.pc = Vec["irq"] /\ m.cc = p.cc \cup {"E", "F", "I"} /\ m.latch = p.latch \ {"irq"}
        /\ Peek(m, 0) = p.cc \cup {"E"}
        /\ Peek(m, NRegs + 1) = p.pc[1] /\ Peek(m, NRegs + 2) = p.pc[2]
    BY <2>1, <2>2 DEF Machine, Peek
  <2>5. m \in Machine
    BY <1>1, <2>1 DEF Machine
  <2> HIDE DEF m
  <2>6. p.pc \in Code \ Handler /\ p.pc \in Byte \X Byte
    BY <1>1, <1>2, <1>3, <1>5, Driver DEF InHand, Machine, Word
  <2>7. <<p.pc[1], p.pc[2]>> = p.pc
    BY <2>6
  <2>8. InHand(m)
    BY <1>2, <1>3, <2>4, <2>6, <2>7, Driver DEF InHand, Interrupted
  <2> QED
    BY <1>1, <1>5, <2>3, <2>4, <2>5, <2>6, <2>8 DEF p, m
<1> QED
  BY <1>1, <1>3, <1>4, <1>5, TakenCases

-----------------------------------------------------------------------------
(* The invariant.                                                          *)

\* A machine at pc with A holding acc, the console, and what the two have taken and
\* sent: the byte that A holds is on its way, and the rest waits in the FIFO.
Following(pc, acc, a, out, in) ==
  /\ pc \in Reads("data") => a.rx # <<>>
  /\ pc \in Tests /\ "C" \in acc => a.rx # <<>>
  /\ pc \in Transmits => ~ a.reset /\ acc \in Chars
  /\ in = (IF pc \in Transmits THEN Append(out, acc) ELSE out) \o a.rx

EchoInv ==
  /\ TypeOK /\ InHand(cpu) /\ Sound(acia)
  /\ sent \in Seq(Chars) /\ served \in BOOLEAN
  /\ Following(cpu.pc, cpu.regs[1], acia, sent, taken)

\* A round of the handler that has found nothing has been asked for nothing else than
\* what still asks: a line that is held for one poll does not outlast the entry.
Reminded ==
  cpu.pc \in Handler /\ ~ served =>
    /\ "irq" \in cpu.latch => A!Level(acia) \/ "irq" \in T!Asserts(timer)
    /\ acia.held > 0 => A!Level(acia)

RoundInv == EchoInv /\ (MaxHold <= 1 => Reminded)

LEMMA Starts == Init => RoundInv
<1> SUFFICES ASSUME Init
             PROVE  RoundInv
  OBVIOUS
<1>1. cpu = PowerOn /\ cpu \in Machine
  BY PowerOnType DEF Init
<1>2. cpu.pc = Vec["reset"] /\ cpu.cc = {"I", "F"} /\ cpu.latch = {}
  BY <1>1 DEF PowerOn, Reset
<1>3. InHand(cpu)
  BY <1>2, Driver DEF InHand
<1>4. acia \in A!Acia /\ Sound(acia) /\ acia.rx = <<>>
  BY NewIs DEF Init
<1>5. fed \in 0 .. MaxFed /\ timer \in T!Timer
  BY Limits, TimerNewIs DEF Init
<1>6. cpu.pc \notin Handler
  BY <1>2, Driver
<1>7. cpu.regs[1] = {}
  <2>1. cpu.regs = [[i \in 1 .. NRegs |-> {}] EXCEPT ![Dp] = {}]
    BY <1>1 DEF PowerOn, Reset
  <2> QED
    BY <2>1, Driver
<1>8. Following(cpu.pc, cpu.regs[1], acia, sent, taken)
  <2>1. cpu.pc \notin Reads("data") /\ cpu.pc \notin Transmits
    BY <1>6, Driver
  <2>2. sent = <<>> /\ taken = <<>> \o acia.rx
    BY <1>4 DEF Init
  <2> QED
    BY <1>7, <2>1, <2>2 DEF Following
<1> QED
  BY <1>1, <1>3, <1>4, <1>5, <1>6, <1>8, EmptySeq DEF RoundInv, EchoInv, TypeOK, Reminded, Init

\* An instruction that leaves n, a and t, and the tail of step after it.
LEMMA CompletesKeeps ==
  ASSUME EchoInv, NEW n \in Machine, NEW a \in A!Acia, NEW t \in T!Timer, Completes(n, a, t),
         InHand(n), n.latch = cpu.latch, Sound(a),
         Following(n.pc, n.regs[1], a, sent', taken'),
         sent' \in Seq(Chars), served' \in BOOLEAN, fed' = fed
  PROVE  EchoInv'
<1> DEFINE lines == Asserted(a, T!Tick(t))
<1>1. T!Tick(t) \in T!Timer
  BY TickIs
<1>2. lines \in SUBSET {"irq", "firq"}
  BY <1>1, AssertedIs
<1>3. cpu' = Service(Poll(n, lines)) /\ acia' = A!AfterPoll(a) /\ timer' = T!Tick(t)
  BY DEF Completes
<1> HIDE DEF lines
<1>4. /\ cpu' \in Machine /\ InHand(cpu')
      /\ \/ cpu'.pc = n.pc /\ cpu'.regs = n.regs
         \/ n.pc \notin Handler /\ cpu'.pc = Vec["irq"]
  BY <1>2, <1>3, TailIs
<1>5. acia' \in A!Acia /\ Sound(acia') /\ acia'.rx = a.rx /\ acia'.reset = a.reset
  BY <1>3, PollIs
<1>6. Following(cpu'.pc, cpu'.regs[1], acia', sent', taken')
  <2>1. CASE cpu'.pc = n.pc /\ cpu'.regs = n.regs
    BY <1>5, <2>1 DEF Following
  <2>2. CASE n.pc \notin Handler /\ cpu'.pc = Vec["irq"]
    BY <1>5, <2>2, Driver DEF Following
  <2> QED
    BY <1>4, <2>1, <2>2
<1>7. TypeOK'
  BY <1>1, <1>3, <1>4, <1>5 DEF EchoInv, TypeOK
<1> QED
  BY <1>4, <1>5, <1>6, <1>7 DEF EchoInv

LEMMA CompletesReminds ==
  ASSUME EchoInv, Reminded, MaxHold <= 1,
         NEW n \in Machine, NEW a \in A!Acia, NEW t \in T!Timer, Completes(n, a, t),
         InHand(n), n.latch = cpu.latch, Sound(a),
         n.pc \in Handler /\ cpu'.pc = n.pc /\ ~ served' =>
           /\ cpu.pc \in Handler /\ ~ served
           /\ A!Level(acia) => A!Level(a)
           /\ a.held = acia.held /\ t = timer
  PROVE  Reminded'
<1> SUFFICES ASSUME cpu'.pc \in Handler, ~ served'
             PROVE  /\ "irq" \in cpu'.latch => A!Level(acia') \/ "irq" \in T!Asserts(timer')
                    /\ acia'.held > 0 => A!Level(acia')
  BY DEF Reminded
<1> DEFINE lines == Asserted(a, T!Tick(t))
<1>1. T!Tick(t) \in T!Timer
  BY TickIs
<1>2. /\ lines \in SUBSET {"irq", "firq"}
      /\ "irq" \in lines <=> A!Level(a) \/ a.held > 0 \/ "irq" \in T!Asserts(T!Tick(t))
  BY <1>1, AssertedIs
<1>3. cpu' = Service(Poll(n, lines)) /\ acia' = A!AfterPoll(a) /\ timer' = T!Tick(t)
  BY DEF Completes
<1> HIDE DEF lines
<1>4. \/ cpu'.pc = n.pc /\ cpu'.latch = n.latch \cup lines
      \/ n.pc \notin Handler /\ "irq" \notin cpu'.latch
  BY <1>2, <1>3, TailIs
<1>5. A!Level(acia') = A!Level(a) /\ (acia'.held > 0 => A!Level(acia'))
  BY <1>3, PollIs
<1>6. CASE n.pc \notin Handler
  BY <1>4, <1>5, <1>6
<1>7. CASE n.pc \in Handler
  <2>1. /\ cpu.pc \in Handler /\ ~ served
        /\ A!Level(acia) => A!Level(a)
        /\ a.held = acia.held /\ t = timer
    BY <1>4, <1>7
  <2>2. /\ "irq" \in cpu.latch => A!Level(acia) \/ "irq" \in T!Asserts(timer)
        /\ acia.held > 0 => A!Level(acia)
    BY <2>1 DEF Reminded
  <2>3. T!Asserts(timer) \subseteq T!Asserts(timer')
    BY <1>3, <2>1, TickIs
  <2> QED
    BY <1>2, <1>3, <1>4, <1>5, <1>7, <2>1, <2>2, <2>3
<1> QED
  BY <1>6, <1>7

\* Where an instruction other than RTI goes on.
LEMMA GoesOn ==
  ASSUME EchoInv, NEW n \in Machine, n.pc \in Successors(cpu.pc),
         n.s = cpu.s, n.mem = cpu.mem, n.latch = cpu.latch,
         "F" \in n.cc, cpu.pc \in Handler => "I" \in n.cc
  PROVE  /\ InHand(n) /\ n.pc # Vec["irq"]
         /\ n.pc \in Handler <=> cpu.pc \in Handler
         /\ n.pc \in Transmits <=> cpu.pc \in Reads("data")
         /\ n.pc \in Reads("data") => cpu.pc \in Tests
         /\ n.pc \in Tests => cpu.pc \in Reads("status")
<1>1. cpu.pc \in Code /\ (cpu.pc \in Handler => Interrupted(cpu)) /\ cpu.latch \subseteq {"irq", "firq"}
  BY DEF EchoInv, InHand
<1>2. Successors(cpu.pc) \subseteq IF cpu.pc \in Handler THEN Handler \ {Vec["irq"]} ELSE Code \ Handler
  BY <1>1, DriverConstants DEF DriverAssumption
<1>3. /\ n.pc \in Transmits <=> cpu.pc \in Reads("data")
      /\ n.pc \in Reads("data") => cpu.pc \in Tests
      /\ n.pc \in Tests => cpu.pc \in Reads("status")
  BY <1>1, DriverConstants DEF DriverAssumption
<1>4. n.pc \in Code /\ n.pc # Vec["irq"] /\ (n.pc \in Handler <=> cpu.pc \in Handler)
  BY <1>2, Driver
<1>5. Interrupted(n) = Interrupted(cpu)
  BY DEF Interrupted, Peek
<1> QED
  BY <1>1, <1>3, <1>4, <1>5 DEF InHand

-----------------------------------------------------------------------------
(* The instructions of the guest.                                          *)

LEMMA HereIs ==
  ASSUME EchoInv
  PROVE  /\ cpu \in Machine /\ cpu.pc \in Code /\ cpu.regs \in [1 .. NRegs -> Byte]
         /\ acia \in A!Acia /\ timer \in T!Timer /\ Sound(acia)
         /\ Here \in Instruction /\ Here = Guest[cpu.pc]
         /\ Here.op # "rti" => Here.next \in Code
         /\ Here.op \notin {"rti", "branch"} => Here.next \in Successors(cpu.pc)
         /\ Here.op = "branch" => {Here.to, Here.next} \subseteq Successors(cpu.pc)
<1>1. cpu \in Machine /\ cpu.pc \in Code /\ cpu.regs \in [1 .. NRegs -> Byte]
  BY DEF EchoInv, TypeOK, InHand, Machine
<1>2. Here \in Instruction /\ Here = Guest[cpu.pc]
  BY <1>1, Driver DEF Here
<1>3. Here.op # "rti" => Here.next \in Code
  BY <1>2 DEF Instruction
<1>4. /\ Here.op \notin {"rti", "branch"} => Here.next \in Successors(cpu.pc)
      /\ Here.op = "branch" => {Here.to, Here.next} \subseteq Successors(cpu.pc)
  BY <1>2 DEF Successors
<1> QED
  BY <1>1, <1>2, <1>3, <1>4 DEF EchoInv, TypeOK

\* A fetch alone.
LEMMA NextIs ==
  ASSUME EchoInv, NEW next \in Code
  PROVE  LET n == Fetched(cpu, next)
         IN  /\ n \in Machine /\ n.pc = next /\ n.regs = cpu.regs
             /\ n.s = cpu.s /\ n.mem = cpu.mem /\ n.latch = cpu.latch /\ n.cc = cpu.cc
<1>1. cpu \in Machine /\ next \in Word
  BY HereIs, Driver
<1> QED
  BY <1>1 DEF Fetched, Machine

\* A byte goes from the head of a sequence to the end of another one.
LEMMA Handed ==
  ASSUME NEW S, NEW out \in Seq(S), NEW rest \in Seq(S), rest # <<>>
  PROVE  out \o rest = Append(out, Head(rest)) \o Tail(rest)
<1>1. PICK h \in S, t \in Seq(S) : h = Head(rest) /\ t = Tail(rest)
  BY HeadTailProperties
<1>2. rest = <<h>> \o t
  BY <1>1
<1>3. Append(out, h) = out \o <<h>>
  BY AppendIsConcat
<1>4. (out \o <<h>>) \o t = out \o (<<h>> \o t)
  BY ConcatAssociative
<1> QED
  BY <1>1, <1>2, <1>3, <1>4

\* A load into A.
LEMMA LoadedIs ==
  ASSUME EchoInv, Here.op \notin {"rti", "branch"}, NEW byte \in Byte
  PROVE  LET n == Loaded(byte)
         IN  /\ n \in Machine /\ n.pc = Here.next /\ n.regs[1] = byte
             /\ n.s = cpu.s /\ n.mem = cpu.mem /\ n.latch = cpu.latch
             /\ "F" \in n.cc /\ (cpu.pc \in Handler => "I" \in n.cc)
<1> DEFINE regs == [cpu.regs EXCEPT ![1] = byte]
           m    == Next1
           n    == Compute(m, regs, {})
<1>1. /\ regs \in [1 .. NRegs -> Byte] /\ regs[1] = byte
      /\ {} \in Flags /\ Here.next \in Word
  BY HereIs, Driver DEF Flags
<1>2. /\ m \in Machine /\ m.pc = Here.next /\ m.s = cpu.s /\ m.mem = cpu.mem /\ m.latch = cpu.latch
      /\ m.cc = cpu.cc
  BY <1>1, HereIs DEF Next1, Fetched, Machine
<1> HIDE DEF m, regs
<1>3. n \in Machine /\ n.s = m.s /\ n.mem = m.mem /\ n.latch = m.latch
  BY <1>1, <1>2, ComputeType
<1>4. n.pc = m.pc /\ n.regs = regs /\ n.cc = (m.cc \cap {"E", "F", "I"}) \cup {}
  BY <1>2 DEF Compute, Machine
<1>5. "F" \in cpu.cc /\ (cpu.pc \in Handler => "I" \in cpu.cc)
  BY DEF EchoInv, InHand
<1>6. Loaded(byte) = n
  BY DEF Loaded, m, regs
<1> HIDE DEF n
<1> QED
  BY <1>1, <1>2, <1>3, <1>4, <1>5, <1>6

LEMMA LoadStatusKeeps ==
  ASSUME RoundInv, LoadStatus
  PROVE  RoundInv'
<1> DEFINE byte == IF Here.port = "status" THEN A!Status(acia) ELSE T!Status(timer)
           n    == Loaded(byte)
<1>0. EchoInv /\ Here.op = "load" /\ Here.port \in {"status", "timer"}
  BY DEF RoundInv, LoadStatus
<1>1. acia \in A!Acia /\ timer \in T!Timer /\ Sound(acia) /\ Here = Guest[cpu.pc] /\ cpu.pc \in Code
  BY <1>0, HereIs
<1>2. byte \in Byte
  <2>1. A!Status(acia) \in Byte /\ T!Status(timer) \in Byte
    BY <1>1, Bytes DEF A!Status, T!Status, T!Timer, Byte
  <2> QED
    BY <2>1
<1>3. Here.port = "status" /\ "C" \in byte => acia.rx # <<>>
  BY <1>1 DEF A!Status, Sound
<1>4. Completes(n, acia, timer) /\ Unserved
  BY DEF LoadStatus
<1> HIDE DEF byte
<1>5. /\ n \in Machine /\ n.pc = Here.next /\ n.regs[1] = byte
      /\ n.s = cpu.s /\ n.mem = cpu.mem /\ n.latch = cpu.latch
      /\ "F" \in n.cc /\ (cpu.pc \in Handler => "I" \in n.cc)
  BY <1>0, <1>2, LoadedIs
<1> HIDE DEF n
<1>6. n.pc \in Successors(cpu.pc)
  BY <1>0, <1>5, HereIs
<1>7. /\ InHand(n) /\ n.pc # Vec["irq"]
      /\ n.pc \in Handler <=> cpu.pc \in Handler
      /\ n.pc \in Transmits <=> cpu.pc \in Reads("data")
      /\ n.pc \in Reads("data") => cpu.pc \in Tests
      /\ n.pc \in Tests => cpu.pc \in Reads("status")
  BY <1>0, <1>5, <1>6, GoesOn
<1>8. cpu.pc \notin Reads("data") /\ cpu.pc \notin Tests /\ cpu.pc \notin Transmits
      /\ (cpu.pc \in Reads("status") => Here.port = "status")
  BY <1>0, <1>1 DEF Reads, Tests, Transmits
<1>9. sent' = sent /\ taken' = taken /\ fed' = fed /\ served' = (served /\ cpu'.pc # Vec["irq"])
  BY <1>4 DEF Unserved
<1>10. Following(n.pc, n.regs[1], acia, sent', taken')
  BY <1>0, <1>3, <1>5, <1>7, <1>8, <1>9 DEF EchoInv, Following
<1>11. EchoInv'
  BY <1>0, <1>1, <1>4, <1>5, <1>7, <1>9, <1>10, CompletesKeeps DEF EchoInv
<1>12. ASSUME MaxHold <= 1
       PROVE  Reminded'
  <2>1. Reminded
    BY <1>12 DEF RoundInv
  <2> QED
    BY <1>0, <1>1, <1>4, <1>5, <1>7, <1>9, <1>12, <2>1, CompletesReminds
<1> QED
  BY <1>11, <1>12 DEF RoundInv

\* The byte that A takes is the next one of the FIFO.
LEMMA LoadDataKeeps ==
  ASSUME RoundInv, LoadData
  PROVE  RoundInv'
<1> DEFINE byte == A!Data(acia)
           a    == A!AfterReadData(acia)
           n    == Loaded(byte)
<1>0. EchoInv /\ Here.op = "load" /\ Here.port = "data"
  BY DEF RoundInv, LoadData
<1>1. acia \in A!Acia /\ timer \in T!Timer /\ Sound(acia) /\ Here = Guest[cpu.pc] /\ cpu.pc \in Code
  BY <1>0, HereIs
<1>2. cpu.pc \in Reads("data") /\ cpu.pc \notin Transmits /\ cpu.pc \notin Tests
      /\ cpu.pc \notin Reads("status")
  BY <1>0, <1>1 DEF Reads, Transmits, Tests
<1>3. acia.rx # <<>> /\ taken = sent \o acia.rx /\ sent \in Seq(Chars) /\ acia.rx \in Seq(Chars)
  BY <1>0, <1>1, <1>2, AciaFields DEF EchoInv, Following
<1>4. /\ a \in A!Acia /\ Sound(a) /\ a.reset = acia.reset /\ byte \in Byte
      /\ byte = Head(acia.rx) /\ byte \in Chars /\ a.rx = Tail(acia.rx)
  BY <1>1, <1>3, ReadDataIs
<1>5. Completes(n, a, timer) /\ served' = TRUE /\ sent' = sent /\ taken' = taken /\ fed' = fed
  BY DEF LoadData
<1> HIDE DEF byte, a
<1>6. /\ n \in Machine /\ n.pc = Here.next /\ n.regs[1] = byte
      /\ n.s = cpu.s /\ n.mem = cpu.mem /\ n.latch = cpu.latch
      /\ "F" \in n.cc /\ (cpu.pc \in Handler => "I" \in n.cc)
  BY <1>0, <1>4, LoadedIs
<1> HIDE DEF n
<1>7. n.pc \in Successors(cpu.pc)
  BY <1>0, <1>6, HereIs
<1>8. /\ InHand(n) /\ n.pc \in Transmits
      /\ n.pc \notin Reads("data") /\ n.pc \notin Tests
  BY <1>0, <1>2, <1>6, <1>7, GoesOn
<1>9. taken = Append(sent, byte) \o a.rx
  BY <1>3, <1>4, Handed
<1>10. ~ acia.reset
  BY <1>1, <1>3 DEF Sound
<1>11. Following(n.pc, n.regs[1], a, sent', taken')
  BY <1>4, <1>5, <1>6, <1>8, <1>9, <1>10 DEF Following
<1>12. EchoInv'
  BY <1>0, <1>1, <1>3, <1>4, <1>5, <1>6, <1>8, <1>11, CompletesKeeps
<1> QED
  BY <1>5, <1>12 DEF RoundInv, Reminded

\* The byte that A holds is the next one to be sent.
LEMMA TransmitKeeps ==
  ASSUME RoundInv, Transmit
  PROVE  RoundInv'
<1> DEFINE a == A!WriteData(acia)
           n == Next1
<1>0. EchoInv /\ Here.op = "transmit"
  BY DEF RoundInv, Transmit
<1>1. acia \in A!Acia /\ timer \in T!Timer /\ Sound(acia) /\ Here = Guest[cpu.pc] /\ cpu.pc \in Code
  BY <1>0, HereIs
<1>2. cpu.pc \notin Reads("data") /\ cpu.pc \in Transmits /\ cpu.pc \notin Tests
      /\ cpu.pc \notin Reads("status")
  BY <1>0, <1>1 DEF Reads, Transmits, Tests
<1>3. /\ ~ acia.reset /\ cpu.regs[1] \in Chars /\ sent \in Seq(Chars)
      /\ taken = Append(sent, cpu.regs[1]) \o acia.rx
  BY <1>0, <1>2 DEF EchoInv, Following
<1>4. /\ a \in A!Acia /\ Sound(a) /\ a.rx = acia.rx /\ a.held = acia.held
      /\ A!Level(acia) => A!Level(a)
  BY <1>1, WriteDataIs
<1>5. /\ Completes(n, a, timer) /\ served' = served /\ taken' = taken /\ fed' = fed
      /\ sent' = Append(sent, cpu.regs[1])
  BY <1>3 DEF Transmit, A!Transmits
<1> HIDE DEF a
<1>6. /\ n \in Machine /\ n.pc = Here.next
      /\ n.s = cpu.s /\ n.mem = cpu.mem /\ n.latch = cpu.latch /\ n.cc = cpu.cc
  BY <1>0, HereIs, NextIs DEF Next1
<1> HIDE DEF n
<1>7. n.pc \in Successors(cpu.pc)
  BY <1>0, <1>6, HereIs
<1>8. "F" \in n.cc /\ (cpu.pc \in Handler => "I" \in n.cc)
  BY <1>0, <1>6 DEF EchoInv, InHand
<1>9. /\ InHand(n) /\ n.pc \notin Transmits
      /\ n.pc \notin Reads("data") /\ n.pc \notin Tests
      /\ n.pc \in Handler <=> cpu.pc \in Handler
  BY <1>0, <1>2, <1>6, <1>7, <1>8, GoesOn
<1>10. Following(n.pc, n.regs[1], a, sent', taken')
  BY <1>3, <1>4, <1>5, <1>9 DEF Following
<1>11. sent' \in Seq(Chars)
  BY <1>3, <1>5, AppendProperties
<1>12. EchoInv'
  BY <1>0, <1>1, <1>4, <1>5, <1>6, <1>9, <1>10, <1>11, CompletesKeeps DEF EchoInv
<1>13. ASSUME MaxHold <= 1
       PROVE  Reminded'
  <2>1. Reminded
    BY <1>13 DEF RoundInv
  <2> QED
    BY <1>0, <1>1, <1>4, <1>5, <1>6, <1>9, <1>13, <2>1, CompletesReminds
<1> QED
  BY <1>12, <1>13 DEF RoundInv

\* The main program alone resets the console, and then nothing is on its way.
LEMMA StoreControlKeeps ==
  ASSUME RoundInv, StoreControl
  PROVE  RoundInv'
<1> DEFINE a == A!WriteControl(acia, Here.byte)
           n == Next1
<1>0. EchoInv /\ Here.op = "store" /\ Here.port = "control"
  BY DEF RoundInv, StoreControl
<1>1. acia \in A!Acia /\ timer \in T!Timer /\ Sound(acia) /\ Here = Guest[cpu.pc] /\ cpu.pc \in Code
  BY <1>0, HereIs
<1>2. /\ cpu.pc \notin Handler /\ cpu.pc \notin Reads("data") /\ cpu.pc \notin Transmits
      /\ cpu.pc \notin Tests /\ cpu.pc \notin Reads("status")
  BY <1>0, <1>1, DriverConstants DEF DriverAssumption, Reads, Transmits, Tests
<1>3. taken = sent \o acia.rx /\ sent \in Seq(Chars)
  BY <1>0, <1>2 DEF EchoInv, Following
<1>4. a \in A!Acia /\ Sound(a) /\ a.rx = IF a.reset THEN <<>> ELSE acia.rx
  BY <1>1, WriteControlIs
<1>5. /\ Completes(n, a, timer) /\ served' = served /\ fed' = fed
      /\ IF a.reset THEN taken' = <<>> /\ sent' = <<>> ELSE taken' = taken /\ sent' = sent
  BY DEF StoreControl
<1> HIDE DEF a
<1>6. /\ n \in Machine /\ n.pc = Here.next
      /\ n.s = cpu.s /\ n.mem = cpu.mem /\ n.latch = cpu.latch /\ n.cc = cpu.cc
  BY <1>0, HereIs, NextIs DEF Next1
<1> HIDE DEF n
<1>7. n.pc \in Successors(cpu.pc)
  BY <1>0, <1>6, HereIs
<1>8. "F" \in n.cc /\ (cpu.pc \in Handler => "I" \in n.cc)
  BY <1>0, <1>6 DEF EchoInv, InHand
<1>9. /\ InHand(n) /\ n.pc \notin Transmits /\ n.pc \notin Handler
      /\ n.pc \notin Reads("data") /\ n.pc \notin Tests
  BY <1>0, <1>2, <1>6, <1>7, <1>8, GoesOn
<1>10. sent' \in Seq(Chars) /\ taken' = sent' \o a.rx
  <2>1. CASE a.reset
    <3>1. <<>> \o <<>> = <<>>
      OBVIOUS
    <3> QED
      BY <1>4, <1>5, <2>1, <3>1, EmptySeq
  <2>2. CASE ~ a.reset
    BY <1>3, <1>4, <1>5, <2>2
  <2> QED
    BY <2>1, <2>2
<1>11. Following(n.pc, n.regs[1], a, sent', taken')
  BY <1>9, <1>10 DEF Following
<1>12. EchoInv'
  BY <1>0, <1>1, <1>4, <1>5, <1>6, <1>9, <1>10, <1>11, CompletesKeeps DEF EchoInv
<1>13. ASSUME MaxHold <= 1
       PROVE  Reminded'
  <2>1. Reminded
    BY <1>13 DEF RoundInv
  <2> QED
    BY <1>0, <1>1, <1>4, <1>5, <1>6, <1>9, <1>13, <2>1, CompletesReminds
<1> QED
  BY <1>12, <1>13 DEF RoundInv

LEMMA StoreTimerKeeps ==
  ASSUME RoundInv, StoreTimer
  PROVE  RoundInv'
<1> DEFINE t == CASE Here.port = "timer"   -> T!WriteControl(timer, Here.byte)
                  [] Here.port = "reload"  -> T!WriteReload(timer, 0, Here.byte)
                  [] Here.port = "counter" -> T!WriteCounter(timer, 0, Here.byte)
           n == Next1
<1>0. EchoInv /\ Here.op = "store" /\ Here.port \in {"timer", "reload", "counter"}
  BY DEF RoundInv, StoreTimer
<1>1. acia \in A!Acia /\ timer \in T!Timer /\ Sound(acia) /\ Here = Guest[cpu.pc] /\ cpu.pc \in Code
      /\ Here \in Instruction
  BY <1>0, HereIs
<1>2. /\ cpu.pc \notin Reads("data") /\ cpu.pc \notin Transmits
      /\ cpu.pc \notin Tests /\ cpu.pc \notin Reads("status")
  BY <1>0, <1>1 DEF Reads, Transmits, Tests
<1>3. t \in T!Timer
  <2>1. CASE Here.port = "timer"
    BY <1>1, <2>1, TimerWritten
  <2>2. CASE Here.port \in {"reload", "counter"}
    <3>1. Here.byte \in 0 .. 255
      BY <1>0, <1>1, <2>2 DEF Instruction
    <3> QED
      BY <1>1, <2>2, <3>1, TimerWritten
  <2> QED
    BY <1>0, <2>1, <2>2
<1>4. Completes(n, acia, t) /\ served' = TRUE /\ fed' = fed /\ taken' = taken /\ sent' = sent
  BY DEF StoreTimer
<1> HIDE DEF t
<1>5. /\ n \in Machine /\ n.pc = Here.next
      /\ n.s = cpu.s /\ n.mem = cpu.mem /\ n.latch = cpu.latch /\ n.cc = cpu.cc
  BY <1>0, HereIs, NextIs DEF Next1
<1> HIDE DEF n
<1>6. n.pc \in Successors(cpu.pc)
  BY <1>0, <1>5, HereIs
<1>7. "F" \in n.cc /\ (cpu.pc \in Handler => "I" \in n.cc)
  BY <1>0, <1>5 DEF EchoInv, InHand
<1>8. /\ InHand(n) /\ n.pc \notin Transmits
      /\ n.pc \notin Reads("data") /\ n.pc \notin Tests
  BY <1>0, <1>2, <1>5, <1>6, <1>7, GoesOn
<1>9. Following(n.pc, n.regs[1], acia, sent', taken')
  BY <1>0, <1>2, <1>4, <1>8 DEF EchoInv, Following
<1>10. EchoInv'
  BY <1>0, <1>1, <1>3, <1>4, <1>5, <1>8, <1>9, CompletesKeeps DEF EchoInv
<1> QED
  BY <1>4, <1>10 DEF RoundInv, Reminded

\* An instruction that moves no byte and leaves the devices alone.
LEMMA QuietKeeps ==
  ASSUME RoundInv, NEW n \in Machine, Completes(n, acia, timer), Unserved,
         InHand(n), n.latch = cpu.latch, cpu.pc \notin Transmits,
         n.pc \notin Transmits, n.pc \in Handler => cpu.pc \in Handler /\ n.pc # Vec["irq"],
         n.pc \in Reads("data") => acia.rx # <<>>,
         n.pc \in Tests /\ "C" \in n.regs[1] => acia.rx # <<>>
  PROVE  RoundInv'
<1>1. EchoInv /\ acia \in A!Acia /\ timer \in T!Timer /\ Sound(acia)
  BY HereIs DEF RoundInv
<1>2. sent' = sent /\ taken' = taken /\ fed' = fed /\ served' = (served /\ cpu'.pc # Vec["irq"])
  BY DEF Unserved
<1>3. Following(n.pc, n.regs[1], acia, sent', taken')
  BY <1>1, <1>2 DEF EchoInv, Following
<1>4. EchoInv'
  BY <1>1, <1>2, <1>3, CompletesKeeps DEF EchoInv
<1>5. ASSUME MaxHold <= 1
      PROVE  Reminded'
  <2>1. Reminded
    BY <1>5 DEF RoundInv
  <2> QED
    BY <1>1, <1>2, <1>5, <2>1, CompletesReminds
<1> QED
  BY <1>4, <1>5 DEF RoundInv

\* The test that a read of the data follows has seen that there is a byte.
LEMMA BranchKeeps ==
  ASSUME RoundInv, Branch
  PROVE  RoundInv'
<1> DEFINE next == IF Here.bit \in cpu.regs[1] THEN Here.to ELSE Here.next
           n    == Fetched(cpu, next)
<1>0. EchoInv /\ Here.op = "branch" /\ Completes(n, acia, timer) /\ Unserved
  BY DEF RoundInv, Branch
<1>1. Here = Guest[cpu.pc] /\ cpu.pc \in Code /\ Here \in Instruction
  BY <1>0, HereIs
<1>2. next \in Code /\ next \in Successors(cpu.pc)
  <2>1. Here.to \in Code /\ Here.next \in Code
    BY <1>0, <1>1 DEF Instruction
  <2> QED
    BY <1>0, <2>1, HereIs
<1>3. cpu.pc \notin Reads("data") /\ cpu.pc \notin Transmits /\ cpu.pc \notin Reads("status")
  BY <1>0, <1>1 DEF Reads, Transmits
<1>4. next \in Reads("data") /\ cpu.pc \in Tests => "C" \in cpu.regs[1]
  BY <1>1 DEF Tests
<1> HIDE DEF next
<1>5. /\ n \in Machine /\ n.pc = next /\ n.regs = cpu.regs
      /\ n.s = cpu.s /\ n.mem = cpu.mem /\ n.latch = cpu.latch /\ n.cc = cpu.cc
  BY <1>0, <1>2, NextIs
<1> HIDE DEF n
<1>6. "F" \in n.cc /\ (cpu.pc \in Handler => "I" \in n.cc)
  BY <1>0, <1>5 DEF EchoInv, InHand
<1>7. /\ InHand(n) /\ n.pc \notin Transmits /\ n.pc # Vec["irq"]
      /\ n.pc \in Handler => cpu.pc \in Handler
      /\ n.pc \in Reads("data") => cpu.pc \in Tests
      /\ n.pc \notin Tests
  BY <1>0, <1>2, <1>3, <1>5, <1>6, GoesOn
<1>8. n.pc \in Reads("data") => acia.rx # <<>>
  BY <1>0, <1>4, <1>5, <1>7 DEF EchoInv, Following
<1> QED
  BY <1>0, <1>3, <1>5, <1>7, <1>8, QuietKeeps

LEMMA MaskOrWorkKeeps ==
  ASSUME RoundInv, MaskOrWork
  PROVE  RoundInv'
<1> DEFINE n == CASE Here.op = "orcc"  -> Orcc(Next1, Here.byte)
                  [] Here.op = "andcc" -> Andcc(Next1, Here.byte)
                  [] OTHER             -> Next1
<1>0. EchoInv /\ Here.op \in {"orcc", "andcc", "work"} /\ Completes(n, acia, timer) /\ Unserved
  BY DEF RoundInv, MaskOrWork
<1>1. Here = Guest[cpu.pc] /\ cpu.pc \in Code /\ Here \in Instruction
  BY <1>0, HereIs
<1>2. PICK m \in Machine : /\ m = Next1 /\ m.pc = Here.next
                           /\ m.s = cpu.s /\ m.mem = cpu.mem /\ m.latch = cpu.latch /\ m.cc = cpu.cc
  BY <1>0, HereIs, NextIs DEF Next1
<1>3. "F" \in m.cc /\ (cpu.pc \in Handler => "I" \in m.cc)
  BY <1>0, <1>2 DEF EchoInv, InHand
<1>4. /\ n \in Machine /\ n.pc = m.pc /\ n.s = m.s /\ n.mem = m.mem /\ n.latch = m.latch
      /\ "F" \in n.cc /\ (cpu.pc \in Handler => "I" \in n.cc)
  <2>1. CASE Here.op = "orcc"
    <3>1. Here.byte \in Byte
      BY <1>1, <2>1 DEF Instruction
    <3>2. n = Orcc(m, Here.byte)
      BY <1>2, <2>1
    <3>3. n \in Machine
      BY <3>1, <3>2, MaskTypes
    <3> QED
      BY <1>3, <3>2, <3>3 DEF Orcc, Machine
  <2>2. CASE Here.op = "andcc"
    <3>1. Here.byte \in Byte
      BY <1>1, <2>2 DEF Instruction
    <3>2. "F" \in Here.byte /\ (cpu.pc \in Handler => "I" \in Here.byte)
      BY <1>1, <2>2, DriverConstants DEF DriverAssumption
    <3>3. n = Andcc(m, Here.byte)
      BY <1>2, <2>2
    <3>4. n \in Machine
      BY <3>1, <3>3, MaskTypes
    <3> QED
      BY <1>3, <3>2, <3>3, <3>4 DEF Andcc, Machine
  <2>3. CASE Here.op = "work"
    BY <1>2, <1>3, <2>3
  <2> QED
    BY <1>0, <2>1, <2>2, <2>3
<1> HIDE DEF n
<1>5. n.pc \in Successors(cpu.pc)
  BY <1>0, <1>2, <1>4, HereIs
<1>6. /\ cpu.pc \notin Reads("data") /\ cpu.pc \notin Transmits
      /\ cpu.pc \notin Reads("status") /\ cpu.pc \notin Tests
  BY <1>0, <1>1 DEF Reads, Transmits, Tests
<1>7. /\ InHand(n) /\ n.pc \notin Transmits /\ n.pc # Vec["irq"]
      /\ n.pc \in Handler => cpu.pc \in Handler
      /\ n.pc \notin Reads("data") /\ n.pc \notin Tests
  BY <1>0, <1>2, <1>4, <1>5, <1>6, GoesOn
<1> QED
  BY <1>0, <1>2, <1>4, <1>6, <1>7, QuietKeeps

LEMMA TestsInHandler == Tests \subseteq Handler
<1> SUFFICES ASSUME NEW a \in Tests, a \notin Handler
             PROVE  FALSE
  OBVIOUS
<1>1. a \in Code /\ Guest[a].op = "branch" /\ Guest[a].to \in Reads("data")
  BY DEF Tests
<1>2. Guest[a].to \in Successors(a)
  BY <1>1 DEF Successors
<1>3. Guest[a].to \notin Handler
  BY <1>1, <1>2, DriverConstants DEF DriverAssumption
<1> QED
  BY <1>1, <1>3, Driver

\* RTI goes back to the main program, which moves no byte.
LEMMA ReturnIs ==
  ASSUME EchoInv, Here.op = "rti"
  PROVE  LET n == Rti(cpu)
         IN  /\ n \in Machine /\ InHand(n) /\ n.latch = cpu.latch
             /\ n.pc \notin Handler /\ cpu.pc \in Handler
<1>1. cpu \in Machine /\ cpu.pc \in Handler /\ Interrupted(cpu)
  <2>1. cpu.pc \in Code /\ Here = Guest[cpu.pc] /\ cpu \in Machine
    BY HereIs
  <2>2. cpu.pc \in Handler
    BY <2>1, DriverConstants DEF DriverAssumption
  <2> QED
    BY <2>1, <2>2 DEF EchoInv, InHand
<1> DEFINE p == Pull(cpu, WholeState)
           n == Rti(cpu)
<1>2. p \in Machine
  BY <1>1, PullType
<1>3. /\ p.cc = Peek(cpu, 0) /\ p.pc = <<Peek(cpu, NRegs + 1), Peek(cpu, NRegs + 2)>>
      /\ p.latch = cpu.latch
  BY <1>1, PullWhole
<1>4. n \in Machine
  BY <1>1, RtiType
<1>5. n = PopForRti(p)
  BY <1>1 DEF Rti, Interrupted
<1> HIDE DEF p
<1>6. n.cc = p.cc /\ n.pc = p.pc /\ n.latch = p.latch
  BY <1>2, <1>5 DEF PopForRti, Machine
<1> HIDE DEF n
<1>7. "F" \in n.cc /\ n.pc \in Code \ Handler
  BY <1>1, <1>3, <1>6 DEF Interrupted
<1>8. n.latch \subseteq {"irq", "firq"}
  BY <1>3, <1>6 DEF EchoInv, InHand
<1>9. InHand(n)
  BY <1>7, <1>8 DEF InHand
<1> QED
  BY <1>1, <1>3, <1>4, <1>6, <1>7, <1>9 DEF n

LEMMA ReturnKeeps ==
  ASSUME RoundInv, Return
  PROVE  RoundInv'
<1>1. EchoInv /\ Here.op = "rti" /\ Unserved
  BY DEF RoundInv, Return
<1>2. PICK n \in Machine : /\ n = Rti(cpu) /\ InHand(n) /\ n.latch = cpu.latch
                           /\ n.pc \notin Handler /\ cpu.pc \in Handler
  BY <1>1, ReturnIs
<1>3. Completes(n, acia, timer)
  BY <1>2 DEF Return
<1>4. n.pc \notin Transmits /\ n.pc \notin Tests /\ n.pc \notin Reads("data")
  BY <1>2, Driver, TestsInHandler
<1>5. cpu.pc \notin Transmits
  BY <1>1, HereIs DEF Transmits
<1> QED
  BY <1>1, <1>2, <1>3, <1>4, <1>5, QuietKeeps

-----------------------------------------------------------------------------
(* The host.                                                               *)

LEMMA FeedKeeps ==
  ASSUME RoundInv, Feed
  PROVE  RoundInv'
<1>0. EchoInv
  BY DEF RoundInv
<1>1. acia \in A!Acia /\ Sound(acia) /\ fed \in 0 .. MaxFed /\ fed < MaxFed /\ fed' = fed + 1
  BY <1>0, HereIs DEF EchoInv, TypeOK, Feed
<1>2. /\ cpu' = cpu /\ timer' = timer /\ sent' = sent /\ served' = served
  BY DEF Feed
<1>3. PICK char \in Chars : /\ acia' = A!Receive(acia, char)
                            /\ taken' = IF A!Accepts(acia) THEN Append(taken, char) ELSE taken
  BY DEF Feed
<1>4. /\ acia' \in A!Acia /\ Sound(acia')
      /\ acia'.rx = IF A!Accepts(acia) THEN Append(acia.rx, char) ELSE acia.rx
      /\ acia'.reset = acia.reset /\ acia'.held = acia.held
      /\ A!Level(acia) => A!Level(acia')
  BY <1>1, <1>3, ReceiveIs
<1>5. fed' \in 0 .. MaxFed
  BY <1>1, Limits
<1> DEFINE passed == IF cpu.pc \in Transmits THEN Append(sent, cpu.regs[1]) ELSE sent
<1>6. /\ acia.rx \in Seq(Chars) /\ passed \in Seq(Chars) /\ taken = passed \o acia.rx
  <2>1. sent \in Seq(Chars) /\ (cpu.pc \in Transmits => cpu.regs[1] \in Chars)
    BY <1>0 DEF EchoInv, Following
  <2> QED
    BY <1>0, <1>1, <2>1, AciaFields, AppendProperties DEF EchoInv, Following
<1>7. taken' = passed \o acia'.rx
  <2> HIDE DEF passed
  <2>1. CASE A!Accepts(acia)
    <3>1. PICK rx \in Seq(Chars) : rx = acia.rx
      BY <1>6
    <3>2. <<char>> \in Seq(Chars) /\ Append(rx, char) = rx \o <<char>>
      BY AppendIsConcat
    <3>3. passed \o rx \in Seq(Chars) /\ Append(passed \o rx, char) = (passed \o rx) \o <<char>>
      BY <1>6, <3>1, ConcatProperties, AppendIsConcat
    <3>4. (passed \o rx) \o <<char>> = passed \o (rx \o <<char>>)
      BY <1>6, <3>2, ConcatAssociative
    <3> QED
      BY <1>3, <1>4, <1>6, <2>1, <3>1, <3>2, <3>3, <3>4
  <2>2. CASE ~ A!Accepts(acia)
    BY <1>3, <1>4, <1>6, <2>2
  <2> QED
    BY <2>1, <2>2
<1>8. acia.rx # <<>> => acia'.rx # <<>>
  <2>1. Append(acia.rx, char) # <<>>
    BY <1>6, AppendProperties
  <2> QED
    BY <1>4, <2>1
<1>9. Following(cpu.pc, cpu.regs[1], acia', sent, taken')
  BY <1>0, <1>4, <1>7, <1>8 DEF EchoInv, Following
<1>10. EchoInv'
  BY <1>0, <1>2, <1>4, <1>5, <1>9 DEF EchoInv, TypeOK
<1>11. Reminded => Reminded'
  BY <1>2, <1>4 DEF Reminded
<1> QED
  BY <1>10, <1>11 DEF RoundInv

LEMMA SetTimerKeeps ==
  ASSUME RoundInv, SetTimer
  PROVE  RoundInv'
<1>1. EchoInv /\ timer \in T!Timer
  BY HereIs DEF RoundInv
<1>2. timer' \in T!Timer
  <2>1. Reloads \subseteq 0 .. MaxPeriod
    BY Limits
  <2> QED
    BY <1>1, <2>1, TimerSet DEF SetTimer
<1>3. cpu = PowerOn /\ cpu' = cpu /\ acia' = acia /\ fed' = fed /\ taken' = taken /\ sent' = sent
      /\ served' = served
  BY DEF SetTimer
<1>4. cpu'.pc \notin Handler
  <2>1. cpu.pc = Vec["reset"]
    BY <1>3, PowerOnType DEF PowerOn, Reset, Machine
  <2> QED
    BY <1>3, <2>1, Driver
<1>5. EchoInv'
  BY <1>1, <1>2, <1>3 DEF EchoInv, TypeOK
<1> QED
  BY <1>4, <1>5 DEF RoundInv, Reminded

LEMMA NextKeeps ==
  ASSUME RoundInv, [Next]_vars
  PROVE  RoundInv'
<1>1. CASE Step
  BY <1>1, LoadStatusKeeps, LoadDataKeeps, TransmitKeeps, StoreControlKeeps, StoreTimerKeeps,
     BranchKeeps, MaskOrWorkKeeps, ReturnKeeps DEF Step
<1>2. CASE Feed
  BY <1>2, FeedKeeps
<1>3. CASE SetTimer
  BY <1>3, SetTimerKeeps
<1>4. CASE UNCHANGED vars
  BY <1>4 DEF vars, RoundInv, EchoInv, TypeOK, Reminded, Following, InHand, Interrupted, Peek, Sound,
              A!Level
<1> QED
  BY <1>1, <1>2, <1>3, <1>4 DEF Next

-----------------------------------------------------------------------------
(* The theorems.                                                           *)

LEMMA RoundInvAlways == Spec => []RoundInv
<1>1. Init => RoundInv
  BY Starts
<1>2. RoundInv /\ [Next]_vars => RoundInv'
  BY NextKeeps
<1> QED
  BY <1>1, <1>2, PTL DEF Spec

\* Every driver keeps the machine, the console and the timer to their ranges: Cpu::step,
\* Mc6850Dev and TimerDev are closed over them.
THEOREM TypeCorrect == Spec => []TypeOK
<1>1. RoundInv => TypeOK
  BY DEF RoundInv, EchoInv
<1> QED
  BY <1>1, RoundInvAlways, PTL

LEMMA Split ==
  ASSUME NEW S, NEW out \in Seq(S), NEW x \in S, NEW rest \in Seq(S)
  PROVE  /\ <<x>> \o rest \in Seq(S) /\ Len(<<x>> \o rest) = 1 + Len(rest)
         /\ Append(out, x) \o rest = out \o (<<x>> \o rest)
<1>1. PICK one \in Seq(S) : one = <<x>> /\ Len(one) = 1
  <2>1. <<x>> \in Seq(S) /\ Len(<<x>>) = 1
    OBVIOUS
  <2> QED
    BY <2>1, Zenon
<1>2. one \o rest \in Seq(S) /\ Len(one \o rest) = 1 + Len(rest)
  BY <1>1, ConcatProperties
<1>3. Append(out, x) = out \o one
  BY <1>1, AppendIsConcat
<1>4. (out \o one) \o rest = out \o (one \o rest)
  BY ConcatAssociative
<1> QED
  BY <1>1, <1>2, <1>3, <1>4

LEMMA FollowingEchoes ==
  ASSUME EchoInv
  PROVE  EchoInOrder
<1> DEFINE passed == IF cpu.pc \in Transmits THEN Append(sent, cpu.regs[1]) ELSE sent
           late   == (IF cpu.pc \in Transmits THEN <<cpu.regs[1]>> ELSE <<>>) \o acia.rx
<1>1. sent \in Seq(Chars) /\ (cpu.pc \in Transmits => cpu.regs[1] \in Chars)
  BY DEF EchoInv, Following
<1>2. acia.rx \in Seq(Chars) /\ Len(acia.rx) \in Nat /\ Len(acia.rx) <= RxMax
  BY HereIs, AciaFields
<1>3. taken = passed \o acia.rx
  BY DEF EchoInv, Following
<1>4. late \in Seq(Chars) /\ Len(late) \in Nat /\ Len(late) <= RxMax + 1 /\ taken = sent \o late
  <2>1. CASE cpu.pc \in Transmits
    <3>1. PICK acc \in Chars, rx \in Seq(Chars) : acc = cpu.regs[1] /\ rx = acia.rx
      BY <1>1, <1>2, <2>1
    <3>2. late = <<acc>> \o rx /\ taken = Append(sent, acc) \o rx
      BY <1>3, <2>1, <3>1
    <3> HIDE DEF late
    <3>3. /\ <<acc>> \o rx \in Seq(Chars) /\ Len(<<acc>> \o rx) = 1 + Len(rx)
          /\ Append(sent, acc) \o rx = sent \o (<<acc>> \o rx)
      BY <1>1, Split
    <3> QED
      BY <1>2, <3>1, <3>2, <3>3, Limits
  <2>2. CASE cpu.pc \notin Transmits
    <3>1. late = <<>> \o acia.rx /\ <<>> \o acia.rx = acia.rx
      BY <1>2, <2>2
    <3> QED
      BY <1>2, <1>3, <2>2, <3>1, Limits
  <2> QED
    BY <2>1, <2>2
<1> HIDE DEF late
<1>5. Len(taken) = Len(sent) + Len(late) /\ Len(sent) \in Nat
  BY <1>1, <1>4, ConcatProperties, LenProperties
<1>6. sent = SubSeq(taken, 1, Len(sent))
  BY <1>1, <1>4, ConcatSimplifications, SubSeqOfConcat1
<1> QED
  BY <1>2, <1>4, <1>5, <1>6, Limits DEF EchoInOrder

\* For every driver that tests for a byte before it reads one and transmits what it has
\* read, the output is the input in order, nothing lost or doubled on the way through
\* the FIFO of Mc6850Dev, the handler and the interrupts it is entered by, and at most
\* the FIFO and the byte in A behind.
THEOREM EchoInOrderCorrect == Spec => []EchoInOrder
<1>1. RoundInv => EchoInOrder
  BY FollowingEchoes DEF RoundInv
<1> QED
  BY <1>1, RoundInvAlways, PTL

LEMMA ReturnReminded ==
  ASSUME RoundInv, MaxHold <= 1, Return, cpu'.pc = Vec["irq"], ~ served
  PROVE  Asserted(acia, timer') # {}
<1>1. EchoInv /\ Reminded /\ Here.op = "rti"
  BY DEF RoundInv, Return
<1>2. PICK n \in Machine : /\ n = Rti(cpu) /\ InHand(n) /\ n.latch = cpu.latch
                           /\ n.pc \notin Handler /\ cpu.pc \in Handler
  BY <1>1, ReturnIs
<1>3. acia \in A!Acia /\ timer \in T!Timer
  BY <1>1, HereIs
<1>4. timer' \in T!Timer /\ timer' = T!Tick(timer) /\ T!Asserts(timer) \subseteq T!Asserts(timer')
  BY <1>3, TickIs DEF Return, Completes
<1> DEFINE lines == Asserted(acia, timer')
<1>5. /\ lines \in SUBSET {"irq", "firq"}
      /\ "irq" \in lines <=> A!Level(acia) \/ acia.held > 0 \/ "irq" \in T!Asserts(timer')
  BY <1>3, <1>4, AssertedIs
<1>6. cpu' = Service(Poll(n, lines))
  BY <1>2, <1>4 DEF Return, Completes
<1> HIDE DEF lines
<1>7. "irq" \in cpu.latch \cup lines
  BY <1>2, <1>5, <1>6, TailIs, Driver
<1>8. "irq" \in cpu.latch => A!Level(acia) \/ "irq" \in T!Asserts(timer)
  BY <1>1, <1>2 DEF Reminded
<1> QED
  BY <1>4, <1>5, <1>7, <1>8 DEF lines

\* IoBus ORs the line into the latch at every poll, also while the handler serves the
\* request: a round that found nothing is followed by another one only for a line that
\* is still asserted.  That needs a line that outlasts its cause by one poll at most;
\* irq_hold_cycles is 0 unless the embedder sets it.
THEOREM SpuriousOnceCorrect ==
  ASSUME MaxHold <= 1
  PROVE  Spec => SpuriousOnce
<1>1. RoundInv /\ [Next]_vars =>
        [Return /\ cpu'.pc = Vec["irq"] /\ ~ served => Asserted(acia, timer') # {}]_vars
  BY ReturnReminded
<1> QED
  BY <1>1, RoundInvAlways, PTL DEF Spec, SpuriousOnce

=============================================================================
