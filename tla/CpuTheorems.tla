---------------------------- MODULE CpuTheorems ----------------------------
(***************************************************************************)
(* Lemmas about the operators of Cpu: every instruction, the interrupt     *)
(* entries and the tail of step() turn a machine into a machine, and what  *)
(* the stack helpers do to S, to memory and to the shadow stack.           *)
(***************************************************************************)
EXTENDS Cpu, SequenceTheorems, FiniteSetTheorems, TLAPS

-----------------------------------------------------------------------------
(* Addresses.                                                              *)

\* Moving by at most the size of memory, either way, gives an address.
LEMMA UpType ==
  ASSUME NEW a \in Addr, NEW k \in 0 .. MemSize
  PROVE  Up(a, k) \in Addr
BY CpuConstants DEF Up, Addr, CpuAssumption

LEMMA DownType ==
  ASSUME NEW a \in Addr, NEW k \in 0 .. MemSize
  PROVE  Down(a, k) \in Addr
BY CpuConstants DEF Down, Addr, CpuAssumption

\* Going down and up again by the same amount is going nowhere.
LEMMA UpDown ==
  ASSUME NEW a \in Addr, NEW k \in 0 .. MemSize
  PROVE  /\ Up(Down(a, k), k) = a
         /\ \A j \in 0 .. MemSize - 1 : Down(Up(a, j), a) = j
BY CpuConstants DEF Up, Down, Addr, CpuAssumption

-----------------------------------------------------------------------------
(* Register lists.                                                         *)

\* A word is the sequence of its two bytes.
LEMMA WordIsSeq ==
  ASSUME NEW w \in Word
  PROVE  w \in Seq(Byte) /\ Len(w) = 2
<1>1. PICK h \in Byte, l \in Byte : w = <<h, l>>
  BY DEF Word
<1> QED
  BY <1>1

\* A register image is a sequence of bytes as long as its list says.
LEMMA ImageType ==
  ASSUME NEW m \in Machine, NEW list
  PROVE  /\ Image(m, list) \in Seq(Byte)
         /\ Len(Image(m, list)) = Size(list)
         /\ Size(list) \in 0 .. NRegs + 3
<1> DEFINE c == IF "cc" \in list THEN <<m.cc>> ELSE <<>>
           r == IF "regs" \in list THEN m.regs ELSE <<>>
           p == IF "pc" \in list THEN m.pc ELSE <<>>
<1>1. m.cc \in Byte /\ m.regs \in [1 .. NRegs -> Byte] /\ m.pc \in Word
  BY DEF Machine
<1>2. NRegs \in Nat
  BY CpuConstants DEF CpuAssumption
<1>3. m.regs \in Seq(Byte) /\ Len(m.regs) = NRegs
  BY <1>1, <1>2
<1>4. m.pc \in Seq(Byte) /\ Len(m.pc) = 2
  BY <1>1, WordIsSeq
<1>5. c \in Seq(Byte) /\ Len(c) = CcSize(list)
  BY <1>1 DEF CcSize
<1>6. r \in Seq(Byte) /\ Len(r) = RegsSize(list)
  BY <1>3 DEF RegsSize
<1>7. p \in Seq(Byte) /\ Len(p) = (IF "pc" \in list THEN 2 ELSE 0)
  <2>1. CASE "pc" \in list
    <3>1. p = m.pc
      BY <2>1
    <3> QED
      BY <3>1, <2>1, <1>4
  <2>2. CASE "pc" \notin list
    BY <2>2
  <2> QED
    BY <2>1, <2>2
<1> HIDE DEF c, r, p
<1>8. c \o r \in Seq(Byte) /\ Len(c \o r) = Len(c) + Len(r)
  BY <1>5, <1>6, ConcatProperties
<1>10. (c \o r) \o p \in Seq(Byte) /\ Len((c \o r) \o p) = Len(c) + Len(r) + Len(p)
  BY <1>7, <1>8, ConcatProperties
<1>9. Size(list) \in 0 .. NRegs + 3
  BY <1>2 DEF Size, CcSize, RegsSize
<1> QED
  BY <1>5, <1>6, <1>7, <1>9, <1>10 DEF Image, Size, c, r, p

\* Pushing bytes gives a machine whose S has gone down by as many.
LEMMA PushType ==
  ASSUME NEW m \in Machine, NEW bytes \in Seq(Byte), Len(bytes) \in 0 .. MemSize
  PROVE  /\ Push(m, bytes) \in Machine
         /\ Push(m, bytes).s = Down(m.s, Len(bytes))
<1> DEFINE top == Down(m.s, Len(bytes))
<1>1. m.s \in Addr /\ m.mem \in [Addr -> Byte]
  BY DEF Machine
<1>2. top \in Addr
  BY <1>1, DownType
<1> HIDE DEF top
<1>3. top \in 0 .. MemSize
  BY <1>2, CpuConstants DEF Addr, CpuAssumption
<1>4. ASSUME NEW a \in Addr
      PROVE  (IF Down(a, top) < Len(bytes) THEN bytes[Down(a, top) + 1] ELSE m.mem[a]) \in Byte
  <2>1. Down(a, top) \in Addr
    BY <1>3, DownType
  <2>2. Down(a, top) < Len(bytes) => Down(a, top) + 1 \in 1 .. Len(bytes)
    BY <2>1 DEF Addr
  <2> QED
    BY <2>2, <1>1
<1>5. [m EXCEPT !.s = top,
                !.mem = [a \in Addr |-> IF Down(a, top) < Len(bytes)
                                        THEN bytes[Down(a, top) + 1]
                                        ELSE m.mem[a]]] \in Machine
  BY <1>2, <1>4 DEF Machine
<1> QED
  BY <1>5 DEF Push, top, Machine

\* The bytes pushed lie above the new S in order, and the rest is untouched.
LEMMA PushMem ==
  ASSUME NEW m \in Machine, NEW bytes \in Seq(Byte), Len(bytes) \in 0 .. MemSize
  PROVE  \A a \in Addr :
           Push(m, bytes).mem[a] =
             IF Down(a, Down(m.s, Len(bytes))) < Len(bytes)
             THEN bytes[Down(a, Down(m.s, Len(bytes))) + 1]
             ELSE m.mem[a]
BY DEF Push, Machine

\* Pulling a register list gives a machine.
LEMMA PullType ==
  ASSUME NEW m \in Machine, NEW list
  PROVE  Pull(m, list) \in Machine
<1>1. /\ m.s \in Addr
      /\ m.mem \in [Addr -> Byte]
      /\ m.cc \in Byte
      /\ m.regs \in [1 .. NRegs -> Byte]
      /\ m.pc \in Word
  BY DEF Machine
<1>2. NRegs \in Nat /\ MemSize \in Nat /\ NRegs + 3 < MemSize
  BY CpuConstants DEF CpuAssumption
<1>3. ASSUME NEW k \in 0 .. NRegs + 3
      PROVE  Peek(m, k) \in Byte
  <2>1. k \in 0 .. MemSize
    BY <1>2
  <2>2. Up(m.s, k) \in Addr
    BY <1>1, <2>1, UpType
  <2> QED
    BY <1>1, <2>2 DEF Peek
<1>4. CcSize(list) \in 0 .. 1 /\ RegsSize(list) \in 0 .. NRegs
  BY <1>2 DEF CcSize, RegsSize
<1>5. Up(m.s, Size(list)) \in Addr
  <2>1. Size(list) \in 0 .. MemSize
    BY <1>2, <1>4 DEF Size
  <2> QED
    BY <1>1, <2>1, UpType
<1> DEFINE c == CcSize(list)
           r == c + RegsSize(list)
           cc == IF "cc" \in list THEN Peek(m, 0) ELSE m.cc
           regs == IF "regs" \in list
                   THEN [i \in 1 .. NRegs |-> Peek(m, c + i - 1)] ELSE m.regs
           pc == IF "pc" \in list THEN <<Peek(m, r), Peek(m, r + 1)>> ELSE m.pc
<1>6. cc \in Byte
  BY <1>1, <1>2, <1>3
<1>7. regs \in [1 .. NRegs -> Byte]
  <2>1. ASSUME NEW i \in 1 .. NRegs
        PROVE  Peek(m, c + i - 1) \in Byte
    <3>1. c + i - 1 \in 0 .. NRegs + 3
      BY <1>2, <1>4
    <3> QED
      BY <3>1, <1>3
  <2> QED
    BY <1>1, <2>1
<1>8. pc \in Word
  <2>1. r \in 0 .. NRegs + 3 /\ r + 1 \in 0 .. NRegs + 3
    BY <1>2, <1>4
  <2> QED
    BY <1>1, <1>3, <2>1 DEF Word
<1> HIDE DEF cc, regs, pc
<1>9. [m EXCEPT !.cc = cc, !.regs = regs, !.pc = pc,
                !.s = Up(m.s, Size(list))] \in Machine
  BY <1>5, <1>6, <1>7, <1>8 DEF Machine
<1> QED
  BY <1>9 DEF Pull, cc, regs, pc

-----------------------------------------------------------------------------
(* The shadow call stack.                                                  *)

\* A frame records S as the entry left it.
LEMMA PushFrameType ==
  ASSUME NEW m \in Machine, NEW kind \in Kinds, NEW ret \in Word
  PROVE  PushFrame(m, kind, ret) \in Machine
<1>1. m.s \in Addr /\ m.frames \in Seq(Frame)
  BY DEF Machine
<1>2. [ret |-> ret, sp |-> m.s, kind |-> kind] \in Frame
  BY <1>1 DEF Frame
<1>3. Append(m.frames, [ret |-> ret, sp |-> m.s, kind |-> kind]) \in Seq(Frame)
  BY <1>1, <1>2, AppendProperties
<1> QED
  BY <1>3 DEF PushFrame, Machine

\* Popping keeps a prefix of the frames.
LEMMA PopToType ==
  ASSUME NEW frames \in Seq(Frame), NEW hits
  PROVE  PopTo(frames, hits) \in Seq(Frame)
<1> DEFINE kept == {i \in 1 .. Len(frames) : \E j \in hits : i < j}
<1>1. Len(frames) \in Nat
  BY LenProperties
<1>2. IsFiniteSet(1 .. Len(frames)) /\ Cardinality(1 .. Len(frames)) = Len(frames)
  BY <1>1, FS_Interval
<1>3. Cardinality(kept) \in Nat /\ Cardinality(kept) <= Len(frames)
  <2>1. kept \subseteq 1 .. Len(frames)
    OBVIOUS
  <2>2. IsFiniteSet(kept) /\ Cardinality(kept) <= Cardinality(1 .. Len(frames))
    BY <1>2, <2>1, FS_Subset
  <2>3. Cardinality(kept) \in Nat
    BY <2>2, FS_CardinalityType
  <2> QED
    BY <1>2, <2>2, <2>3
<1> HIDE DEF kept
<1>4. SubSeq(frames, 1, Cardinality(kept)) \in Seq(Frame)
  <2>1. \A i \in 1 .. Cardinality(kept) : frames[i] \in Frame
    BY <1>1, <1>3
  <2> QED
    BY <1>3, <2>1, SubSeqProperties
<1> QED
  BY <1>4 DEF PopTo, kept

\* When the frame on top is a hit, it is the only one popped.
LEMMA PopTop ==
  ASSUME NEW frames \in Seq(Frame), NEW hits \in SUBSET (1 .. Len(frames)),
         Len(frames) \in hits
  PROVE  PopTo(frames, hits) = SubSeq(frames, 1, Len(frames) - 1)
<1> DEFINE kept == {i \in 1 .. Len(frames) : \E j \in hits : i < j}
<1>1. Len(frames) \in Nat
  BY LenProperties
<1>2. kept = 1 .. Len(frames) - 1
  BY <1>1
<1>3. Cardinality(1 .. Len(frames) - 1) = Len(frames) - 1
  BY <1>1, FS_Interval
<1> QED
  BY <1>2, <1>3 DEF PopTo

LEMMA PopForReturnType ==
  ASSUME NEW m \in Machine
  PROVE  PopForReturn(m) \in Machine
<1>1. m.frames \in Seq(Frame)
  BY DEF Machine
<1> QED
  BY <1>1, PopToType DEF PopForReturn, Machine

LEMMA PopForRtiType ==
  ASSUME NEW m \in Machine
  PROVE  PopForRti(m) \in Machine
<1>1. m.frames \in Seq(Frame)
  BY DEF Machine
<1> QED
  BY <1>1, PopToType DEF PopForRti, Machine

-----------------------------------------------------------------------------
(* Interrupt entry.                                                        *)

\* Any register list fits in the memory that S addresses.
LEMMA PushImageType ==
  ASSUME NEW m \in Machine, NEW list
  PROVE  /\ Len(Image(m, list)) \in 0 .. MemSize
         /\ Push(m, Image(m, list)) \in Machine
<1>1. Len(Image(m, list)) \in 0 .. MemSize /\ Image(m, list) \in Seq(Byte)
  BY ImageType, CpuConstants DEF CpuAssumption
<1> QED
  BY <1>1, PushType

LEMMA BitsType ==
  {"E", "F", "I"} \in Byte /\ {"F", "I"} \in Byte /\ {"E"} \in Byte
BY CpuConstants DEF CpuAssumption, Byte

LEMMA EnterWholeType ==
  ASSUME NEW m \in Machine, NEW kind \in Software \cup {"irq", "nmi"}
  PROVE  EnterWhole(m, kind) \in Machine
<1> DEFINE marked == [m EXCEPT !.cc = @ \cup {"E"}]
           saved  == Push(marked, Image(marked, WholeState))
           masked == [saved EXCEPT !.cc = @ \cup {"I", "F"}, !.pc = Vec[kind]]
<1>1. marked \in Machine
  BY BitsType DEF Machine, Byte
<1> HIDE DEF marked
<1>2. saved \in Machine
  BY <1>1, PushImageType
<1> HIDE DEF saved
<1>3. Vec[kind] \in Word /\ kind \in Kinds
  BY CpuConstants DEF CpuAssumption, Inputs, Kinds
<1>4. masked \in Machine
  <2>1. saved.cc \cup {"I", "F"} \in Byte
    BY <1>2, BitsType DEF Machine, Byte
  <2> QED
    BY <1>2, <1>3, <2>1 DEF Machine
<1> HIDE DEF masked
<1>5. m.pc \in Word
  BY DEF Machine
<1>6. PushFrame(masked, kind, m.pc) \in Machine
  BY <1>3, <1>4, <1>5, PushFrameType
<1> QED
  BY <1>6 DEF EnterWhole, masked, saved, marked

LEMMA ServiceFirqType ==
  ASSUME NEW m \in Machine
  PROVE  ServiceFirq(m) \in Machine
<1> DEFINE saved  == Push(m, Image(m, FastState))
           masked == [saved EXCEPT !.cc = (@ \ {"E"}) \cup {"I", "F"},
                                   !.pc = Vec["firq"]]
<1>1. saved \in Machine
  BY PushImageType
<1> HIDE DEF saved
<1>2. Vec["firq"] \in Word /\ "firq" \in Kinds
  BY CpuConstants DEF CpuAssumption, Inputs, Kinds
<1>3. masked \in Machine
  <2>1. (saved.cc \ {"E"}) \cup {"I", "F"} \in Byte
    BY <1>1, BitsType DEF Machine, Byte
  <2> QED
    BY <1>1, <1>2, <2>1 DEF Machine
<1> HIDE DEF masked
<1>4. m.pc \in Word
  BY DEF Machine
<1>5. PushFrame(masked, "firq", m.pc) \in Machine
  BY <1>2, <1>3, <1>4, PushFrameType
<1>6. [PushFrame(masked, "firq", m.pc) EXCEPT !.latch = @ \ {"firq"}] \in Machine
  BY <1>5 DEF Machine
<1> QED
  BY <1>6 DEF ServiceFirq, masked, saved

\* The four outcomes of an instruction boundary.
LEMMA TakenCases ==
  ASSUME NEW m
  PROVE  \/ Taken(m) = "nmi"  /\ Service(m) = ServiceNmi(m)  /\ "nmi" \in m.latch
         \/ Taken(m) = "firq" /\ Service(m) = ServiceFirq(m) /\ "nmi" \notin m.latch
                              /\ "firq" \in m.latch /\ "F" \notin m.cc
         \/ Taken(m) = "irq"  /\ Service(m) = ServiceIrq(m)  /\ "nmi" \notin m.latch
                              /\ ~("firq" \in m.latch /\ "F" \notin m.cc)
                              /\ "irq" \in m.latch /\ "I" \notin m.cc
         \/ Taken(m) = "none" /\ Service(m) = m /\ "nmi" \notin m.latch
                              /\ ~("firq" \in m.latch /\ "F" \notin m.cc)
                              /\ ~("irq" \in m.latch /\ "I" \notin m.cc)
BY DEF Taken, Service

LEMMA ServiceType ==
  ASSUME NEW m \in Machine
  PROVE  Service(m) \in Machine
<1>1. ServiceNmi(m) \in Machine
  BY EnterWholeType DEF ServiceNmi, Machine
<1>2. ServiceIrq(m) \in Machine
  BY EnterWholeType DEF ServiceIrq, Machine
<1> QED
  BY <1>1, <1>2, ServiceFirqType, TakenCases

LEMMA FinishType ==
  ASSUME NEW m \in Machine, NEW lines \in SUBSET Inputs
  PROVE  Poll(m, lines) \in Machine /\ Finish(m, lines) \in Machine
<1>1. Poll(m, lines) \in Machine
  BY DEF Poll, Machine
<1> QED
  BY <1>1, ServiceType DEF Finish

-----------------------------------------------------------------------------
(* Instructions.                                                           *)

\* Every instruction turns a machine into a machine.
LEMMA CallType ==
  ASSUME NEW m \in Machine, NEW target \in Word
  PROVE  Call(m, target) \in Machine
<1>1. m.pc \in Word
  BY DEF Machine
<1>2. m.pc \in Seq(Byte) /\ Len(m.pc) \in 0 .. MemSize
  <2>1. m.pc \in Seq(Byte) /\ Len(m.pc) = 2
    BY <1>1, WordIsSeq
  <2>2. 2 \in 0 .. MemSize
    BY CpuConstants DEF CpuAssumption
  <2> QED
    BY <2>1, <2>2
<1> DEFINE saved == Push(m, m.pc)
<1>3. saved \in Machine
  BY <1>2, PushType
<1> HIDE DEF saved
<1>4. [saved EXCEPT !.pc = target] \in Machine
  BY <1>3 DEF Machine
<1> QED
  BY <1>1, <1>4, PushFrameType DEF Call, saved, Kinds

LEMMA RtsType ==
  ASSUME NEW m \in Machine
  PROVE  Rts(m) \in Machine
BY PullType, PopForReturnType DEF Rts

LEMMA RtiType ==
  ASSUME NEW m \in Machine
  PROVE  Rti(m) \in Machine
BY PullType, PopForRtiType DEF Rti

LEMMA PulsType ==
  ASSUME NEW m \in Machine, NEW list
  PROVE  Puls(m, list) \in Machine
BY PullType, PopForReturnType DEF Puls

LEMMA PshsType ==
  ASSUME NEW m \in Machine, NEW list
  PROVE  Pshs(m, list) \in Machine
BY PushImageType DEF Pshs

LEMMA CwaiType ==
  ASSUME NEW m \in Machine, NEW imm
  PROVE  Cwai(m, imm) \in Machine
<1> DEFINE marked == [m EXCEPT !.cc = (@ \cap imm) \cup {"E"}]
<1>1. marked \in Machine
  BY BitsType DEF Machine, Byte
<1> HIDE DEF marked
<1> QED
  BY <1>1, PushImageType DEF Cwai, marked

LEMMA ComputeType ==
  ASSUME NEW m \in Machine, NEW regs \in [1 .. NRegs -> Byte], NEW flags \in Flags
  PROVE  /\ Compute(m, regs, flags) \in Machine
         /\ Compute(m, regs, flags).s = m.s
         /\ Compute(m, regs, flags).mem = m.mem
         /\ Compute(m, regs, flags).latch = m.latch
         /\ Compute(m, regs, flags).frames = m.frames
         /\ "E" \in Compute(m, regs, flags).cc => "E" \in m.cc
<1>1. (m.cc \cap {"E", "F", "I"}) \cup flags \in Byte
  BY BitsType DEF Machine, Flags, Byte
<1>2. Compute(m, regs, flags) \in Machine
  BY <1>1 DEF Compute, Machine
<1>3. Compute(m, regs, flags).cc = (m.cc \cap {"E", "F", "I"}) \cup flags
  BY DEF Compute, Machine
<1>4. "E" \notin flags
  BY DEF Flags
<1> QED
  BY <1>2, <1>3, <1>4 DEF Compute, Machine

LEMMA MaskTypes ==
  ASSUME NEW m \in Machine, NEW imm \in Byte
  PROVE  /\ Andcc(m, imm) \in Machine
         /\ Orcc(m, imm) \in Machine
         /\ SetCc(m, imm) \in Machine
<1>1. m.cc \cap imm \in Byte /\ m.cc \cup imm \in Byte
  BY DEF Machine, Byte
<1> QED
  BY <1>1 DEF Andcc, Orcc, SetCc, Machine

LEMMA StoreType ==
  ASSUME NEW m \in Machine, NEW cells \in SUBSET Addr, NEW bytes \in [cells -> Byte]
  PROVE  /\ Store(m, bytes) \in Machine
         /\ \A a \in Addr \ cells : Store(m, bytes).mem[a] = m.mem[a]
<1>1. [a \in Addr |-> IF a \in DOMAIN bytes THEN bytes[a] ELSE m.mem[a]] \in [Addr -> Byte]
  BY DEF Machine
<1> QED
  BY <1>1 DEF Store, Machine

LEMMA ResetType ==
  ASSUME NEW m \in Machine
  PROVE  Reset(m) \in Machine
<1>1. Vec["reset"] \in Word /\ Dp \in 1 .. NRegs /\ {} \in Byte
  BY CpuConstants DEF CpuAssumption, Byte
<1>2. [m.regs EXCEPT ![Dp] = {}] \in [1 .. NRegs -> Byte]
  BY <1>1 DEF Machine
<1>3. <<>> \in Seq(Frame)
  OBVIOUS
<1> QED
  BY <1>1, <1>2, <1>3, BitsType DEF Reset, Machine

LEMMA PowerOnType == PowerOn \in Machine
<1> DEFINE blank == [pc     |-> <<{}, {}>>, s |-> 0, cc |-> {},
                     regs   |-> [i \in 1 .. NRegs |-> {}],
                     mem    |-> [a \in Addr |-> {}],
                     latch  |-> {},
                     frames |-> <<>>]
<1>1. {} \in Byte /\ 0 \in Addr /\ <<{}, {}>> \in Word
  BY CpuConstants DEF CpuAssumption, Byte, Addr, Word
<1>2. blank \in Machine
  BY <1>1 DEF Machine
<1> HIDE DEF blank
<1> QED
  BY <1>2, ResetType DEF PowerOn, blank

-----------------------------------------------------------------------------
(* What the stack holds after a push and gives back on a pull.             *)

\* Reading k places above the new S finds the k-th byte pushed.
LEMMA PushPeek ==
  ASSUME NEW m \in Machine, NEW bytes \in Seq(Byte), Len(bytes) \in 0 .. MemSize,
         NEW k \in 0 .. Len(bytes) - 1
  PROVE  Peek(Push(m, bytes), k) = bytes[k + 1]
<1> DEFINE top == Down(m.s, Len(bytes))
<1>1. top \in Addr
  BY DownType DEF Machine
<1> HIDE DEF top
<1>2. k \in 0 .. MemSize /\ k \in 0 .. MemSize - 1
  BY CpuConstants DEF CpuAssumption
<1>3. Up(top, k) \in Addr /\ Down(Up(top, k), top) = k
  BY <1>1, <1>2, UpType, UpDown
<1>4. Push(m, bytes).s = top
  BY PushType DEF top
<1>5. Push(m, bytes).mem[Up(top, k)] = bytes[k + 1]
  BY <1>3, PushMem DEF top
<1> QED
  BY <1>4, <1>5 DEF Peek

\* The bytes of a whole frame: CC, the registers, PC with its high byte first.
LEMMA WholeImage ==
  ASSUME NEW m \in Machine
  PROVE  LET image == Image(m, WholeState)
         IN  /\ image \in Seq(Byte) /\ Len(image) = NRegs + 3
             /\ image[1] = m.cc
             /\ \A r \in 1 .. NRegs : image[r + 1] = m.regs[r]
             /\ image[NRegs + 2] = m.pc[1] /\ image[NRegs + 3] = m.pc[2]
<1> DEFINE front == <<m.cc>> \o m.regs
<1>1. m.cc \in Byte /\ m.regs \in [1 .. NRegs -> Byte] /\ m.pc \in Word
  BY DEF Machine
<1>2. NRegs \in Nat
  BY CpuConstants DEF CpuAssumption
<1>3. m.regs \in Seq(Byte) /\ Len(m.regs) = NRegs
  BY <1>1, <1>2
<1>4. m.pc \in Seq(Byte) /\ Len(m.pc) = 2
  BY <1>1, WordIsSeq
<1>5. <<m.cc>> \in Seq(Byte) /\ Len(<<m.cc>>) = 1 /\ <<m.cc>>[1] = m.cc
  BY <1>1
<1>6. /\ front \in Seq(Byte)
      /\ Len(front) = 1 + NRegs
      /\ \A i \in 1 .. 1 + NRegs :
           front[i] = IF i <= 1 THEN <<m.cc>>[i] ELSE m.regs[i - 1]
  BY <1>3, <1>5, ConcatProperties
<1> HIDE DEF front
<1>7. /\ front \o m.pc \in Seq(Byte)
      /\ Len(front \o m.pc) = NRegs + 3
      /\ \A i \in 1 .. NRegs + 3 :
           (front \o m.pc)[i] = IF i <= 1 + NRegs THEN front[i] ELSE m.pc[i - (1 + NRegs)]
  <2>1. /\ front \o m.pc \in Seq(Byte)
        /\ Len(front \o m.pc) = Len(front) + Len(m.pc)
        /\ \A i \in 1 .. Len(front) + Len(m.pc) :
             (front \o m.pc)[i] = IF i <= Len(front) THEN front[i] ELSE m.pc[i - Len(front)]
    BY <1>4, <1>6, ConcatProperties
  <2>2. Len(front) = 1 + NRegs /\ Len(front) + Len(m.pc) = NRegs + 3
    BY <1>2, <1>4, <1>6
  <2> QED
    BY <2>1, <2>2
<1>8. Image(m, WholeState) = front \o m.pc
  BY DEF Image, WholeState, front
<1>9. (front \o m.pc)[1] = m.cc
  BY <1>2, <1>5, <1>6, <1>7
<1>10. ASSUME NEW r \in 1 .. NRegs
       PROVE  (front \o m.pc)[r + 1] = m.regs[r]
  BY <1>2, <1>6, <1>7
<1>11. (front \o m.pc)[NRegs + 2] = m.pc[1] /\ (front \o m.pc)[NRegs + 3] = m.pc[2]
  <2> DEFINE image == front \o m.pc
  <2>1. \A i \in 1 .. NRegs + 3, j \in Int :
           ~(i <= 1 + NRegs) /\ i - (1 + NRegs) = j => image[i] = m.pc[j]
    BY <1>7
  <2> HIDE DEF image
  <2>2. /\ NRegs + 2 \in 1 .. NRegs + 3 /\ NRegs + 3 \in 1 .. NRegs + 3
        /\ ~(NRegs + 2 <= 1 + NRegs) /\ ~(NRegs + 3 <= 1 + NRegs)
        /\ NRegs + 2 - (1 + NRegs) = 1 /\ NRegs + 3 - (1 + NRegs) = 2
    BY <1>2
  <2>3. image[NRegs + 2] = m.pc[1] /\ image[NRegs + 3] = m.pc[2]
    BY <2>1, <2>2, <1>2
  <2> QED
    BY <2>3 DEF image
<1> QED
  BY <1>7, <1>8, <1>9, <1>10, <1>11

\* The bytes of a short frame.
LEMMA FastImage ==
  ASSUME NEW m \in Machine
  PROVE  LET image == Image(m, FastState)
         IN  /\ image \in Seq(Byte) /\ Len(image) = 3
             /\ image[1] = m.cc /\ image[2] = m.pc[1] /\ image[3] = m.pc[2]
<1>1. m.cc \in Byte
  BY DEF Machine
<1>2. PICK h \in Byte, l \in Byte : m.pc = <<h, l>>
  BY DEF Machine, Word
<1>3. Image(m, FastState) = <<m.cc>> \o <<>> \o <<h, l>>
  BY <1>2 DEF Image, FastState
<1>4. <<m.cc>> \o <<>> = <<m.cc>>
  BY <1>1, ConcatEmptySeq
<1>5. <<m.cc>> \in Seq(Byte) /\ <<h, l>> \in Seq(Byte) /\ Len(<<m.cc>>) = 1 /\ Len(<<h, l>>) = 2
  BY <1>1
<1>6. /\ <<m.cc>> \o <<h, l>> \in Seq(Byte)
      /\ Len(<<m.cc>> \o <<h, l>>) = 1 + 2
      /\ \A i \in 1 .. 1 + 2 :
           (<<m.cc>> \o <<h, l>>)[i] = IF i <= 1 THEN <<m.cc>>[i] ELSE <<h, l>>[i - 1]
  BY <1>5, ConcatProperties
<1> QED
  BY <1>2, <1>3, <1>4, <1>6

\* Entering a handler with the whole state saved.
LEMMA EnterWholeEffect ==
  ASSUME NEW m \in Machine, NEW kind \in Software \cup {"irq", "nmi"}
  PROVE  LET e == EnterWhole(m, kind)
         IN  /\ e.pc = Vec[kind]
             /\ e.s = Down(m.s, NRegs + 3)
             /\ e.cc = m.cc \cup {"E", "F", "I"}
             /\ e.regs = m.regs
             /\ e.latch = m.latch
             /\ e.frames = Append(m.frames, [ret |-> m.pc, sp |-> e.s, kind |-> kind])
             /\ Peek(e, 0) = m.cc \cup {"E"}
             /\ \A r \in 1 .. NRegs : Peek(e, r) = m.regs[r]
             /\ Peek(e, NRegs + 1) = m.pc[1] /\ Peek(e, NRegs + 2) = m.pc[2]
             /\ \A a \in Addr : Down(a, e.s) >= NRegs + 3 => e.mem[a] = m.mem[a]
<1> DEFINE marked == [m EXCEPT !.cc = @ \cup {"E"}]
           saved  == Push(marked, Image(marked, WholeState))
           e      == EnterWhole(m, kind)
<1>1. marked \in Machine
  BY BitsType DEF Machine, Byte
<1>2. /\ marked.cc = m.cc \cup {"E"} /\ marked.regs = m.regs /\ marked.pc = m.pc
      /\ marked.s = m.s /\ marked.mem = m.mem /\ marked.latch = m.latch
      /\ marked.frames = m.frames
  BY DEF Machine
<1> HIDE DEF marked
<1>3. saved \in Machine /\ Len(Image(marked, WholeState)) \in 0 .. MemSize
  BY <1>1, PushImageType
<1>4. NRegs \in Nat
  BY CpuConstants DEF CpuAssumption
<1>5. /\ Image(marked, WholeState) \in Seq(Byte)
      /\ Len(Image(marked, WholeState)) = NRegs + 3
      /\ Image(marked, WholeState)[1] = m.cc \cup {"E"}
      /\ \A r \in 1 .. NRegs : Image(marked, WholeState)[r + 1] = m.regs[r]
      /\ Image(marked, WholeState)[NRegs + 2] = m.pc[1]
      /\ Image(marked, WholeState)[NRegs + 3] = m.pc[2]
  BY <1>1, <1>2, WholeImage
<1>6. /\ saved.cc = marked.cc /\ saved.regs = marked.regs
      /\ saved.latch = marked.latch /\ saved.frames = marked.frames
      /\ saved.s = Down(m.s, NRegs + 3)
  BY <1>1, <1>2, <1>5 DEF Push, Machine
<1>7. \A k \in 0 .. NRegs + 2 : Peek(saved, k) = Image(marked, WholeState)[k + 1]
  BY <1>1, <1>3, <1>4, <1>5, PushPeek
<1>8. \A a \in Addr : Down(a, saved.s) >= NRegs + 3 => saved.mem[a] = m.mem[a]
  <2>1. MemSize \in Nat /\ saved.s \in Addr
    BY <1>3, CpuConstants DEF CpuAssumption, Machine
  <2>2. \A a \in Addr : Down(a, saved.s) \in Addr
    BY <2>1, DownType DEF Addr
  <2>3. \A a \in Addr :
          saved.mem[a] = IF Down(a, saved.s) < NRegs + 3
                         THEN Image(marked, WholeState)[Down(a, saved.s) + 1]
                         ELSE marked.mem[a]
    BY <1>1, <1>2, <1>3, <1>5, <1>6, PushMem
  <2> QED
    BY <1>2, <1>4, <2>2, <2>3 DEF Addr
<1> HIDE DEF saved
<1>9. /\ e.pc = Vec[kind] /\ e.s = saved.s /\ e.mem = saved.mem
      /\ e.cc = saved.cc \cup {"F", "I"}
      /\ e.regs = saved.regs /\ e.latch = saved.latch
      /\ e.frames = Append(saved.frames, [ret |-> m.pc, sp |-> saved.s, kind |-> kind])
  BY <1>3 DEF EnterWhole, PushFrame, Machine, saved, marked
<1>10. \A k \in 0 .. NRegs + 2 : Peek(e, k) = Peek(saved, k)
  BY <1>9 DEF Peek
<1> HIDE DEF e
<1>11. Peek(e, 0) = m.cc \cup {"E"}
  BY <1>4, <1>5, <1>7, <1>10
<1>12. \A r \in 1 .. NRegs : Peek(e, r) = m.regs[r]
  BY <1>4, <1>5, <1>7, <1>10
<1>13. Peek(e, NRegs + 1) = m.pc[1] /\ Peek(e, NRegs + 2) = m.pc[2]
  BY <1>4, <1>5, <1>7, <1>10
<1>14. e.cc = m.cc \cup {"E", "F", "I"}
  BY <1>2, <1>6, <1>9
<1> QED
  BY <1>2, <1>6, <1>8, <1>9, <1>11, <1>12, <1>13, <1>14 DEF e

\* Entering the handler of FIRQ, which saves CC and PC only.
LEMMA ServiceFirqEffect ==
  ASSUME NEW m \in Machine
  PROVE  LET e == ServiceFirq(m)
         IN  /\ e.pc = Vec["firq"]
             /\ e.s = Down(m.s, 3)
             /\ e.cc = (m.cc \ {"E"}) \cup {"F", "I"}
             /\ e.regs = m.regs
             /\ e.latch = m.latch \ {"firq"}
             /\ e.frames = Append(m.frames, [ret |-> m.pc, sp |-> e.s, kind |-> "firq"])
             /\ Peek(e, 0) = m.cc /\ Peek(e, 1) = m.pc[1] /\ Peek(e, 2) = m.pc[2]
             /\ \A a \in Addr : Down(a, e.s) >= 3 => e.mem[a] = m.mem[a]
<1> DEFINE saved == Push(m, Image(m, FastState))
           e     == ServiceFirq(m)
<1>1. saved \in Machine /\ Len(Image(m, FastState)) \in 0 .. MemSize
  BY PushImageType
<1>2. /\ Image(m, FastState) \in Seq(Byte) /\ Len(Image(m, FastState)) = 3
      /\ Image(m, FastState)[1] = m.cc
      /\ Image(m, FastState)[2] = m.pc[1] /\ Image(m, FastState)[3] = m.pc[2]
  BY FastImage
<1>3. /\ saved.cc = m.cc /\ saved.regs = m.regs /\ saved.latch = m.latch
      /\ saved.frames = m.frames /\ saved.s = Down(m.s, 3)
  BY <1>2 DEF Push, Machine
<1>4. ASSUME NEW k \in 0 .. 2
      PROVE  Peek(saved, k) = Image(m, FastState)[k + 1]
  <2>1. k \in 0 .. Len(Image(m, FastState)) - 1
    BY <1>2
  <2> QED
    BY <1>1, <1>2, <2>1, PushPeek
<1>5. \A a \in Addr : Down(a, saved.s) >= 3 => saved.mem[a] = m.mem[a]
  <2>1. MemSize \in Nat /\ saved.s \in Addr
    BY <1>1, CpuConstants DEF CpuAssumption, Machine
  <2>2. \A a \in Addr : Down(a, saved.s) \in Addr
    BY <2>1, DownType DEF Addr
  <2>3. \A a \in Addr :
          saved.mem[a] = IF Down(a, saved.s) < 3
                         THEN Image(m, FastState)[Down(a, saved.s) + 1]
                         ELSE m.mem[a]
    BY <1>1, <1>2, <1>3, PushMem
  <2> QED
    BY <2>2, <2>3 DEF Addr
<1> HIDE DEF saved
<1>6. /\ e.pc = Vec["firq"] /\ e.s = saved.s /\ e.mem = saved.mem
      /\ e.cc = (saved.cc \ {"E"}) \cup {"F", "I"}
      /\ e.regs = saved.regs /\ e.latch = saved.latch \ {"firq"}
      /\ e.frames = Append(saved.frames, [ret |-> m.pc, sp |-> saved.s, kind |-> "firq"])
  BY <1>1 DEF ServiceFirq, PushFrame, Machine, saved
<1>7. \A k \in 0 .. 2 : Peek(e, k) = Peek(saved, k)
  BY <1>6 DEF Peek
<1> HIDE DEF e
<1>8. Peek(e, 0) = m.cc /\ Peek(e, 1) = m.pc[1] /\ Peek(e, 2) = m.pc[2]
  BY <1>2, <1>4, <1>7
<1> QED
  BY <1>3, <1>5, <1>6, <1>8 DEF e

\* Calling a routine.
LEMMA CallEffect ==
  ASSUME NEW m \in Machine, NEW target \in Word
  PROVE  LET e == Call(m, target)
         IN  /\ e.pc = target
             /\ e.s = Down(m.s, 2)
             /\ e.cc = m.cc /\ e.regs = m.regs /\ e.latch = m.latch
             /\ e.frames = Append(m.frames, [ret |-> m.pc, sp |-> e.s, kind |-> "call"])
             /\ Peek(e, 0) = m.pc[1] /\ Peek(e, 1) = m.pc[2]
             /\ \A a \in Addr : Down(a, e.s) >= 2 => e.mem[a] = m.mem[a]
<1> DEFINE saved == Push(m, m.pc)
           e     == Call(m, target)
<1>1. m.pc \in Seq(Byte) /\ Len(m.pc) = 2 /\ 2 \in 0 .. MemSize
  BY WordIsSeq, CpuConstants DEF CpuAssumption, Machine
<1>2. saved \in Machine
  BY <1>1, PushType
<1>3. /\ saved.cc = m.cc /\ saved.regs = m.regs /\ saved.latch = m.latch
      /\ saved.frames = m.frames /\ saved.s = Down(m.s, 2)
  BY <1>1 DEF Push, Machine
<1>4. ASSUME NEW k \in 0 .. 1
      PROVE  Peek(saved, k) = m.pc[k + 1]
  <2>1. k \in 0 .. Len(m.pc) - 1
    BY <1>1
  <2> QED
    BY <1>1, <2>1, PushPeek
<1>5. \A a \in Addr : Down(a, saved.s) >= 2 => saved.mem[a] = m.mem[a]
  <2>1. MemSize \in Nat /\ saved.s \in Addr
    BY <1>2, CpuConstants DEF CpuAssumption, Machine
  <2>2. \A a \in Addr : Down(a, saved.s) \in Addr
    BY <2>1, DownType DEF Addr
  <2>3. \A a \in Addr :
          saved.mem[a] = IF Down(a, saved.s) < 2
                         THEN m.pc[Down(a, saved.s) + 1]
                         ELSE m.mem[a]
    BY <1>1 DEF Push, Machine
  <2> QED
    BY <2>2, <2>3 DEF Addr
<1> HIDE DEF saved
<1>6. /\ e.pc = target /\ e.s = saved.s /\ e.mem = saved.mem
      /\ e.cc = saved.cc /\ e.regs = saved.regs /\ e.latch = saved.latch
      /\ e.frames = Append(saved.frames, [ret |-> m.pc, sp |-> saved.s, kind |-> "call"])
  BY <1>2 DEF Call, PushFrame, Machine, saved
<1>7. \A k \in 0 .. 1 : Peek(e, k) = Peek(saved, k)
  BY <1>6 DEF Peek
<1> HIDE DEF e
<1>8. Peek(e, 0) = m.pc[1] /\ Peek(e, 1) = m.pc[2]
  BY <1>4, <1>7
<1> QED
  BY <1>3, <1>5, <1>6, <1>8 DEF e

-----------------------------------------------------------------------------
(* Round trips: a return undoes the entry.                                 *)

\* Machines with the same parts are the same machine.
LEMMA MachineEq ==
  ASSUME NEW m \in Machine, NEW n \in Machine,
         m.pc = n.pc, m.s = n.s, m.cc = n.cc, m.regs = n.regs, m.mem = n.mem,
         m.latch = n.latch, m.frames = n.frames
  PROVE  m = n
BY DEF Machine

\* What is pulled is what lies above S.
LEMMA PullWhole ==
  ASSUME NEW m \in Machine
  PROVE  LET p == Pull(m, WholeState)
         IN  /\ p.cc = Peek(m, 0)
             /\ p.regs = [i \in 1 .. NRegs |-> Peek(m, i)]
             /\ p.pc = <<Peek(m, NRegs + 1), Peek(m, NRegs + 2)>>
             /\ p.s = Up(m.s, NRegs + 3)
             /\ p.mem = m.mem /\ p.latch = m.latch /\ p.frames = m.frames
<1>1. NRegs \in Nat
  BY CpuConstants DEF CpuAssumption
<1>2. CcSize(WholeState) = 1 /\ RegsSize(WholeState) = NRegs /\ Size(WholeState) = NRegs + 3
  BY <1>1 DEF CcSize, RegsSize, Size, WholeState
<1>3. /\ \A i \in 1 .. NRegs : 1 + i - 1 = i
      /\ 1 + NRegs = NRegs + 1 /\ 1 + NRegs + 1 = NRegs + 2
  BY <1>1
<1>4. [i \in 1 .. NRegs |-> Peek(m, 1 + i - 1)] = [i \in 1 .. NRegs |-> Peek(m, i)]
  BY <1>3
<1>5. "cc" \in WholeState /\ "regs" \in WholeState /\ "pc" \in WholeState
  BY DEF WholeState
<1> QED
  BY <1>2, <1>3, <1>4, <1>5 DEF Pull, Machine

LEMMA PullFast ==
  ASSUME NEW m \in Machine
  PROVE  LET p == Pull(m, FastState)
         IN  /\ p.cc = Peek(m, 0)
             /\ p.pc = <<Peek(m, 1), Peek(m, 2)>>
             /\ p.s = Up(m.s, 3)
             /\ p.regs = m.regs
             /\ p.mem = m.mem /\ p.latch = m.latch /\ p.frames = m.frames
<1>1. CcSize(FastState) = 1 /\ RegsSize(FastState) = 0 /\ Size(FastState) = 3
  BY DEF CcSize, RegsSize, Size, FastState
<1>2. "cc" \in FastState /\ "regs" \notin FastState /\ "pc" \in FastState
  BY DEF FastState
<1> QED
  BY <1>1, <1>2 DEF Pull, Machine

\* RTI removes the frame on top when it is an interrupt's.
LEMMA PopForRtiTop ==
  ASSUME NEW m \in Machine, m.frames # <<>>,
         m.frames[Len(m.frames)].kind # "call"
  PROVE  PopForRti(m).frames = SubSeq(m.frames, 1, Len(m.frames) - 1)
<1> DEFINE hits == {i \in 1 .. Len(m.frames) : m.frames[i].kind # "call"}
<1>1. m.frames \in Seq(Frame)
  BY DEF Machine
<1>2. Len(m.frames) \in 1 .. Len(m.frames)
  BY <1>1, LenProperties, EmptySeq
<1>3. hits \in SUBSET (1 .. Len(m.frames)) /\ Len(m.frames) \in hits
  BY <1>2
<1> HIDE DEF hits
<1>4. PopTo(m.frames, hits) = SubSeq(m.frames, 1, Len(m.frames) - 1)
  BY <1>1, <1>3, PopTop
<1> QED
  BY <1>4 DEF PopForRti, Machine, hits

\* Appending a frame and dropping it again.
LEMMA AppendDrop ==
  ASSUME NEW S, NEW seq \in Seq(S), NEW x \in S
  PROVE  /\ Append(seq, x) \in Seq(S) /\ Append(seq, x) # <<>>
         /\ Len(Append(seq, x)) = Len(seq) + 1
         /\ Append(seq, x)[Len(Append(seq, x))] = x
         /\ SubSeq(Append(seq, x), 1, Len(Append(seq, x)) - 1) = seq
<1>1. /\ Append(seq, x) \in Seq(S) /\ Append(seq, x) # <<>>
      /\ Len(Append(seq, x)) = Len(seq) + 1
      /\ \A i \in 1 .. Len(seq) : Append(seq, x)[i] = seq[i]
      /\ Append(seq, x)[Len(seq) + 1] = x
  BY AppendProperties
<1>2. Len(seq) \in Nat
  BY LenProperties
<1>3. /\ SubSeq(Append(seq, x), 1, Len(seq)) \in Seq(S)
      /\ Len(SubSeq(Append(seq, x), 1, Len(seq))) = Len(seq)
      /\ \A i \in 1 .. Len(seq) : SubSeq(Append(seq, x), 1, Len(seq))[i] = seq[i]
  <2>1. \A i \in 1 .. Len(seq) : Append(seq, x)[i] \in S
    BY <1>1, <1>2
  <2>2. Len(seq) = IF 1 <= Len(seq) THEN Len(seq) - 1 + 1 ELSE 0
    BY <1>2
  <2> QED
    BY <1>1, <1>2, <2>1, <2>2, SubSeqProperties
<1>4. SubSeq(Append(seq, x), 1, Len(seq)) = seq
  BY <1>3, SeqEqual
<1>5. Len(Append(seq, x)) - 1 = Len(seq)
  BY <1>1, <1>2
<1> QED
  BY <1>1, <1>4, <1>5

=============================================================================
