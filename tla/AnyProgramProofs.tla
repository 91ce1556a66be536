-------------------------- MODULE AnyProgramProofs --------------------------
(***************************************************************************)
(* Proofs, for every size of memory and every program, that the core keeps *)
(* its registers in range, serves its interrupts and resumes what it       *)
(* interrupted.                                                            *)
(***************************************************************************)
EXTENDS AnyProgram, CpuTheorems

-----------------------------------------------------------------------------
(* Every instruction is one Step of a machine that has kept the latches.   *)

LEMMA LatchKept ==
  ASSUME NEW m \in Machine, NEW list, NEW imm, NEW kind
  PROVE  /\ Andcc(m, imm).latch = m.latch
         /\ Orcc(m, imm).latch = m.latch
         /\ SetCc(m, imm).latch = m.latch
         /\ Store(m, imm).latch = m.latch
         /\ Rts(m).latch = m.latch
         /\ Rti(m).latch = m.latch
         /\ Swi(m, kind).latch = m.latch
         /\ Pshs(m, list).latch = m.latch
         /\ Puls(m, list).latch = m.latch
         /\ Cwai(m, imm).latch = m.latch
<1>1. /\ Andcc(m, imm).latch = m.latch
      /\ Orcc(m, imm).latch = m.latch
      /\ SetCc(m, imm).latch = m.latch
      /\ Store(m, imm).latch = m.latch
  BY DEF Machine, Andcc, Orcc, SetCc, Store
<1>2. Swi(m, kind).latch = m.latch
  BY DEF Machine, Swi, EnterWhole, Push, PushFrame
<1>3. Pshs(m, list).latch = m.latch /\ Cwai(m, imm).latch = m.latch
  BY DEF Machine, Pshs, Cwai, Push
<1>4. /\ Rts(m).latch = m.latch /\ Rti(m).latch = m.latch
      /\ Puls(m, list).latch = m.latch
  BY DEF Machine, Rts, Rti, Puls, Pull, PopForReturn, PopForRti
<1> QED
  BY <1>1, <1>2, <1>3, <1>4

LEMMA MovedType ==
  ASSUME TypeOK, NEW m \in Moved
  PROVE  m \in Machine /\ m.latch = cpu.latch
<1>1. cpu \in Machine /\ cpu.regs \in [1 .. NRegs -> Byte]
  BY DEF TypeOK, Machine
<1>2. Code \subseteq Word /\ Data \subseteq Byte /\ Stacks \subseteq Addr
  BY CpuConstants, AnyProgramAssumption DEF CpuAssumption
<1>3. ASSUME NEW n \in Computed
      PROVE  n \in Machine /\ n.latch = cpu.latch
  <2>1. PICK next \in Code, regs \in [1 .. NRegs -> Data] \cup {cpu.regs}, flags \in Flags :
               n = Compute(Fetched(cpu, next), regs, flags)
    BY DEF Computed
  <2>2. Fetched(cpu, next) \in Machine /\ Fetched(cpu, next).latch = cpu.latch
    BY <1>1, <1>2 DEF Fetched, Machine
  <2>3. regs \in [1 .. NRegs -> Byte]
    BY <1>1, <1>2
  <2> QED
    BY <2>1, <2>2, <2>3, ComputeType
<1>4. ASSUME NEW n \in Computed, NEW s \in Stacks
      PROVE  MoveS(n, s) \in Machine /\ MoveS(n, s).latch = cpu.latch
  BY <1>2, <1>3 DEF MoveS, Machine
<1> QED
  BY <1>3, <1>4 DEF Moved

Instruction ==
  \/ DoCompute \/ DoStore \/ DoMask
  \/ DoCall \/ DoRts \/ DoRti \/ DoSwi \/ DoPshs \/ DoPuls \/ DoCwai

LEMMA InstructionStep ==
  ASSUME TypeOK, Instruction
  PROVE  \E m \in Machine : m.latch = cpu.latch /\ Step(m)
<1>1. cpu \in Machine
  BY DEF TypeOK
<1>2. /\ Code \subseteq Word /\ Data \subseteq Byte /\ Masks \subseteq Byte
      /\ Blocks \subseteq SUBSET Addr
  BY CpuConstants, AnyProgramAssumption DEF CpuAssumption
<1>3. \A next \in Code : Fetched(cpu, next) \in Machine /\ Fetched(cpu, next).latch = cpu.latch
  BY <1>1, <1>2 DEF Fetched, Machine
<1>4. CASE DoCompute
  <2>1. PICK m \in Moved : Step(m) \/ \E cc \in Masks : Step(SetCc(m, cc))
    BY <1>4 DEF DoCompute
  <2>2. m \in Machine /\ m.latch = cpu.latch
    BY MovedType
  <2>3. \A cc \in Masks : SetCc(m, cc) \in Machine /\ SetCc(m, cc).latch = cpu.latch
    BY <1>2, <2>2, MaskTypes, LatchKept
  <2> QED
    BY <2>1, <2>2, <2>3
<1>5. CASE DoMask
  <2>1. PICK next \in Code, imm \in Masks :
               Step(Andcc(Fetched(cpu, next), imm)) \/ Step(Orcc(Fetched(cpu, next), imm))
    BY <1>5 DEF DoMask
  <2> DEFINE m == Fetched(cpu, next)
  <2>2. m \in Machine /\ m.latch = cpu.latch
    BY <1>3
  <2> HIDE DEF m
  <2>3. Andcc(m, imm) \in Machine /\ Orcc(m, imm) \in Machine
    BY <1>2, <2>2, MaskTypes
  <2>4. Andcc(m, imm).latch = cpu.latch /\ Orcc(m, imm).latch = cpu.latch
    BY <2>2, LatchKept
  <2> QED
    BY <2>1, <2>3, <2>4 DEF m
<1>6. CASE DoStore
  <2>1. PICK m \in Moved : \E cells \in Blocks : \E bytes \in [cells -> Data] : Step(Store(m, bytes))
    BY <1>6 DEF DoStore
  <2>2. PICK cells \in Blocks : \E bytes \in [cells -> Data] : Step(Store(m, bytes))
    BY <2>1
  <2>3. PICK bytes \in [cells -> Data] : Step(Store(m, bytes))
    BY <2>2
  <2>4. m \in Machine /\ m.latch = cpu.latch
    BY MovedType
  <2>5. Store(m, bytes) \in Machine
    <3>1. bytes \in [cells -> Byte] /\ cells \in SUBSET Addr
      BY <1>2
    <3> QED
      BY <2>4, <3>1, StoreType
  <2>6. Store(m, bytes).latch = cpu.latch
    BY <2>4, LatchKept
  <2> QED
    BY <2>3, <2>5, <2>6
<1>7. CASE DoCall
  <2>1. PICK m \in Moved, target \in Code : Step(Call(m, target))
    BY <1>7 DEF DoCall
  <2>2. m \in Machine /\ m.latch = cpu.latch /\ target \in Word
    BY <1>2, MovedType
  <2>3. Call(m, target) \in Machine /\ Call(m, target).latch = m.latch
    BY <2>2, CallType, CallEffect
  <2> QED
    BY <2>1, <2>2, <2>3
<1>9. CASE DoRts
  BY <1>3, <1>9, RtsType, LatchKept DEF DoRts
<1>10. CASE DoRti
  BY <1>3, <1>10, RtiType, LatchKept DEF DoRti
<1>11. CASE DoSwi
  <2>1. PICK next \in Code, kind \in Software : Step(Swi(Fetched(cpu, next), kind))
    BY <1>11 DEF DoSwi
  <2>2. Swi(Fetched(cpu, next), kind) \in Machine
    <3>1. kind \in Software \cup {"irq", "nmi"} /\ Fetched(cpu, next) \in Machine
      BY <1>3
    <3>2. EnterWhole(Fetched(cpu, next), kind) \in Machine
      BY <3>1, EnterWholeType
    <3> QED
      BY <3>2 DEF Swi
  <2> QED
    BY <1>3, <2>1, <2>2, LatchKept
<1>12. CASE DoPshs
  BY <1>3, <1>12, PshsType, LatchKept DEF DoPshs
<1>13. CASE DoPuls
  BY <1>3, <1>13, PulsType, LatchKept DEF DoPuls
<1>14. CASE DoCwai
  BY <1>3, <1>14, CwaiType, LatchKept DEF DoCwai
<1> QED
  BY <1>4, <1>5, <1>6, <1>7, <1>9, <1>10, <1>11, <1>12, <1>13, <1>14 DEF Instruction

-----------------------------------------------------------------------------
(* The tail of step().                                                     *)

\* Serving takes at most one input out of its latch.
LEMMA ServiceLatch ==
  ASSUME NEW m \in Machine
  PROVE  /\ Service(m).latch = m.latch \ {Taken(m)}
         /\ Taken(m) # "none" =>
              LET e == Service(m)
              IN  /\ e.pc = Vec[Taken(m)]
                  /\ {"F", "I"} \subseteq e.cc
                  /\ e.frames # <<>> /\ e.frames[Len(e.frames)].kind = Taken(m)
<1>1. \A kind \in {"nmi", "irq"} :
        LET e == EnterWhole(m, kind)
        IN  /\ e \in Machine /\ e.pc = Vec[kind] /\ {"F", "I"} \subseteq e.cc
            /\ e.latch = m.latch
            /\ e.frames # <<>> /\ e.frames[Len(e.frames)].kind = kind
  <2> TAKE kind \in {"nmi", "irq"}
  <2> DEFINE e == EnterWhole(m, kind)
             frame == [ret |-> m.pc, sp |-> e.s, kind |-> kind]
  <2>1. e \in Machine /\ kind \in Kinds
    BY EnterWholeType DEF Kinds, Inputs
  <2>2. /\ e.pc = Vec[kind] /\ e.cc = m.cc \cup {"E", "F", "I"} /\ e.latch = m.latch
        /\ e.frames = Append(m.frames, frame)
    BY EnterWholeEffect
  <2> HIDE DEF e
  <2>3. m.frames \in Seq(Frame) /\ frame \in Frame
    BY <2>1 DEF Machine, Frame
  <2>4. e.frames # <<>> /\ e.frames[Len(e.frames)] = frame
    BY <2>2, <2>3, AppendDrop
  <2> QED
    BY <2>1, <2>2, <2>4 DEF e
<1>2. LET e == ServiceFirq(m)
      IN  /\ e.pc = Vec["firq"] /\ {"F", "I"} \subseteq e.cc
          /\ e.latch = m.latch \ {"firq"}
          /\ e.frames # <<>> /\ e.frames[Len(e.frames)].kind = "firq"
  <2> DEFINE e == ServiceFirq(m)
             frame == [ret |-> m.pc, sp |-> e.s, kind |-> "firq"]
  <2>1. e \in Machine /\ "firq" \in Kinds
    BY ServiceFirqType DEF Kinds, Inputs
  <2>2. /\ e.pc = Vec["firq"] /\ e.cc = (m.cc \ {"E"}) \cup {"F", "I"}
        /\ e.latch = m.latch \ {"firq"}
        /\ e.frames = Append(m.frames, frame)
    BY ServiceFirqEffect
  <2> HIDE DEF e
  <2>3. m.frames \in Seq(Frame) /\ frame \in Frame
    BY <2>1 DEF Machine, Frame
  <2>4. e.frames # <<>> /\ e.frames[Len(e.frames)] = frame
    BY <2>2, <2>3, AppendDrop
  <2> QED
    BY <2>2, <2>4 DEF e
<1>3. CASE Taken(m) = "nmi" /\ Service(m) = ServiceNmi(m)
  BY <1>1, <1>3 DEF ServiceNmi, Machine
<1>4. CASE Taken(m) = "irq" /\ Service(m) = ServiceIrq(m)
  BY <1>1, <1>4 DEF ServiceIrq, Machine
<1>5. CASE Taken(m) = "firq" /\ Service(m) = ServiceFirq(m)
  BY <1>2, <1>5
<1>6. CASE Taken(m) = "none" /\ Service(m) = m
  <2>1. "none" \notin m.latch
    BY DEF Machine, Inputs
  <2> QED
    BY <1>6, <2>1
<1> QED
  BY <1>3, <1>4, <1>5, <1>6, TakenCases

LEMMA ServiceUnmasked ==
  ASSUME NEW m \in Machine
  PROVE  ~UnmaskedWaits(Service(m))
<1>1. CASE Taken(m) = "none"
  BY <1>1, TakenCases DEF UnmaskedWaits
<1>2. CASE Taken(m) # "none"
  <2>1. "nmi" \notin m.latch \ {Taken(m)}
    BY TakenCases
  <2> QED
    BY <1>2, <2>1, ServiceLatch DEF UnmaskedWaits
<1> QED
  BY <1>1, <1>2

-----------------------------------------------------------------------------
(* Theorems.                                                               *)

\* Every step is an instruction, a request by the host or a reset.
LEMMA StepCases ==
  ASSUME TypeOK, [Next]_vars
  PROVE  \/ \E m \in Machine, lines \in SUBSET Lines :
              /\ m.latch = cpu.latch /\ cpu' = Finish(m, lines)
              /\ steps < MaxSteps /\ steps' = steps + 1
         \/ \E line \in Lines : cpu' = [cpu EXCEPT !.latch = @ \cup {line}] /\ steps' = steps
         \/ cpu' = Reset(cpu) /\ steps' = steps
         \/ UNCHANGED vars
<1>1. CASE Instruction
  BY <1>1, InstructionStep DEF Step
<1>2. CASE DoRequest
  BY <1>2 DEF DoRequest
<1>3. CASE DoReset
  BY <1>3 DEF DoReset
<1> QED
  BY <1>1, <1>2, <1>3 DEF Next, Instruction

LEMMA InitTypeOK == Init => TypeOK
<1>1. PowerOn.latch = {}
  BY DEF PowerOn, Reset
<1>2. MaxSteps \in Nat
  BY AnyProgramAssumption
<1> QED
  BY <1>1, <1>2, PowerOnType DEF Init, TypeOK

LEMMA NextTypeOK == TypeOK /\ [Next]_vars => TypeOK'
<1> SUFFICES ASSUME TypeOK, [Next]_vars
             PROVE  TypeOK'
  OBVIOUS
<1>1. cpu \in Machine /\ cpu.latch \subseteq Lines /\ steps \in 0 .. MaxSteps
  BY DEF TypeOK
<1>2. Lines \subseteq Inputs /\ MaxSteps \in Nat
  BY CpuConstants, AnyProgramAssumption DEF CpuAssumption
<1>3. ASSUME NEW m \in Machine, NEW lines \in SUBSET Lines,
             m.latch = cpu.latch, cpu' = Finish(m, lines),
             steps < MaxSteps, steps' = steps + 1
      PROVE  TypeOK'
  <2>1. Poll(m, lines) \in Machine /\ cpu' \in Machine
    BY <1>2, <1>3, FinishType
  <2>2. Poll(m, lines).latch \subseteq Lines
    BY <1>1, <1>3 DEF Poll, Machine
  <2>3. cpu'.latch \subseteq Poll(m, lines).latch
    BY <1>3, <2>1, ServiceLatch DEF Finish
  <2>4. steps' \in 0 .. MaxSteps
    BY <1>1, <1>2, <1>3
  <2> QED
    BY <2>1, <2>2, <2>3, <2>4 DEF TypeOK
<1>4. ASSUME NEW line \in Lines, cpu' = [cpu EXCEPT !.latch = @ \cup {line}], steps' = steps
      PROVE  TypeOK'
  <2>1. cpu' \in Machine /\ cpu'.latch = cpu.latch \cup {line}
    BY <1>1, <1>2, <1>4 DEF Machine
  <2> QED
    BY <1>1, <1>4, <2>1 DEF TypeOK
<1>5. CASE cpu' = Reset(cpu) /\ steps' = steps
  <2>1. cpu' \in Machine
    BY <1>1, <1>5, ResetType
  <2>2. cpu'.latch = cpu.latch
    BY <1>1, <1>5 DEF Reset, Machine
  <2> QED
    BY <1>1, <1>5, <2>1, <2>2 DEF TypeOK
<1>6. CASE UNCHANGED vars
  BY <1>1, <1>6 DEF TypeOK, vars
<1> QED
  BY <1>3, <1>4, <1>5, <1>6, StepCases

\* Registers keep their widths and only lines in use are latched, for every
\* program: the instructions and the tail of Cpu::step are closed over Machine.
THEOREM TypeCorrect == Spec => []TypeOK
<1>1. Init => TypeOK
  BY InitTypeOK
<1>2. TypeOK /\ [Next]_vars => TypeOK'
  BY NextTypeOK
<1> QED
  BY <1>1, <1>2, PTL DEF Spec

\* No step() returns with an unmasked interrupt left waiting, although it
\* serves at most one: every entry masks the inputs it did not serve.
THEOREM NoneWaiting == Spec => StepLeavesNoneWaiting
<1>1. TypeOK /\ [Next]_vars => [steps' # steps => ~UnmaskedWaits(cpu')]_vars
  <2> SUFFICES ASSUME TypeOK, [Next]_vars, steps' # steps
               PROVE  ~UnmaskedWaits(cpu')
    OBVIOUS
  <2>1. PICK m \in Machine, lines \in SUBSET Lines : cpu' = Finish(m, lines)
    BY StepCases DEF vars
  <2>2. Poll(m, lines) \in Machine
    BY CpuConstants, FinishType DEF CpuAssumption
  <2> QED
    BY <2>1, <2>2, ServiceUnmasked DEF Finish
<1> QED
  BY <1>1, TypeCorrect, PTL DEF Spec, StepLeavesNoneWaiting

\* A latched request leaves its latch only by entering its own handler.
THEOREM Latched == Spec => LatchedUntilServed
<1> DEFINE Served == \A line \in cpu.latch \ cpu'.latch :
                       /\ cpu'.pc = Vec[line]
                       /\ cpu'.frames # <<>>
                       /\ cpu'.frames[Len(cpu'.frames)].kind = line
<1>1. TypeOK /\ [Next]_vars => [Served]_vars
  <2> SUFFICES ASSUME TypeOK, [Next]_vars
               PROVE  Served
    OBVIOUS
  <2>1. cpu \in Machine
    BY DEF TypeOK
  <2>2. ASSUME NEW m \in Machine, NEW lines \in SUBSET Lines,
               m.latch = cpu.latch, cpu' = Finish(m, lines)
        PROVE  Served
    <3>1. Poll(m, lines) \in Machine
      BY CpuConstants, FinishType DEF CpuAssumption
    <3>2. Poll(m, lines).latch = cpu.latch \cup lines
      BY <2>2 DEF Poll, Machine
    <3>3. cpu' = Service(Poll(m, lines))
      BY <2>2 DEF Finish
    <3>4. cpu'.latch = Poll(m, lines).latch \ {Taken(Poll(m, lines))}
      BY <3>1, <3>3, ServiceLatch
    <3>5. SUFFICES ASSUME NEW line \in cpu.latch \ cpu'.latch
                   PROVE  /\ cpu'.pc = Vec[line]
                          /\ cpu'.frames # <<>>
                          /\ cpu'.frames[Len(cpu'.frames)].kind = line
      OBVIOUS
    <3>6. line = Taken(Poll(m, lines)) /\ line # "none"
      BY <2>1, <3>2, <3>4 DEF Machine, Inputs
    <3> QED
      BY <3>1, <3>3, <3>6, ServiceLatch
  <2>3. ASSUME NEW line \in Lines, cpu' = [cpu EXCEPT !.latch = @ \cup {line}]
        PROVE  Served
    BY <2>1, <2>3 DEF Machine
  <2>4. CASE cpu' = Reset(cpu)
    BY <2>1, <2>4 DEF Reset, Machine
  <2>5. CASE UNCHANGED vars
    BY <2>5 DEF vars
  <2> QED
    BY <2>2, <2>3, <2>4, <2>5, StepCases
<1> QED
  BY <1>1, TypeCorrect, PTL DEF Spec, LatchedUntilServed

\* The state that a whole frame saves is the state that RTI restores.
LEMMA RtiUndoesWhole ==
  ASSUME NEW m \in Machine, NEW kind \in Software \cup {"irq", "nmi"}
  PROVE  Resumes(m, EnterWhole(m, kind), m.cc \cup {"E"})
<1> DEFINE e == EnterWhole(m, kind)
           p == Pull(e, WholeState)
           frame == [ret |-> m.pc, sp |-> e.s, kind |-> kind]
           resumed == [m EXCEPT !.cc = m.cc \cup {"E"}, !.mem = e.mem, !.latch = e.latch]
<1>1. e \in Machine
  BY EnterWholeType
<1>2. /\ e.s = Down(m.s, NRegs + 3)
      /\ e.frames = Append(m.frames, frame)
      /\ Peek(e, 0) = m.cc \cup {"E"}
      /\ \A r \in 1 .. NRegs : Peek(e, r) = m.regs[r]
      /\ Peek(e, NRegs + 1) = m.pc[1] /\ Peek(e, NRegs + 2) = m.pc[2]
  BY EnterWholeEffect
<1> HIDE DEF e
<1>3. p \in Machine
  BY <1>1, PullType
<1>4. /\ p.cc = m.cc \cup {"E"}
      /\ p.regs = [i \in 1 .. NRegs |-> Peek(e, i)]
      /\ p.pc = <<m.pc[1], m.pc[2]>>
      /\ p.s = Up(Down(m.s, NRegs + 3), NRegs + 3)
      /\ p.mem = e.mem /\ p.latch = e.latch /\ p.frames = e.frames
  BY <1>1, <1>2, PullWhole
<1> HIDE DEF p
<1>5. m.pc \in Word /\ m.regs \in [1 .. NRegs -> Byte] /\ m.s \in Addr /\ m.frames \in Seq(Frame)
  BY DEF Machine
<1>6. p.regs = m.regs
  BY <1>2, <1>4, <1>5
<1>7. p.pc = m.pc
  BY <1>4, <1>5 DEF Word
<1>8. p.s = m.s
  <2>1. NRegs + 3 \in 0 .. MemSize
    BY CpuConstants DEF CpuAssumption
  <2> QED
    BY <1>4, <1>5, <2>1, UpDown
<1>9. PopForRti(p).frames = m.frames
  <2>1. frame \in Frame
    BY <1>1, <1>5 DEF Frame, Machine, Kinds, Inputs
  <2>2. frame.kind # "call"
    BY CpuConstants DEF CpuAssumption
  <2> HIDE DEF frame
  <2>3. /\ p.frames # <<>> /\ p.frames[Len(p.frames)] = frame
        /\ SubSeq(p.frames, 1, Len(p.frames) - 1) = m.frames
    BY <1>2, <1>4, <1>5, <2>1, AppendDrop
  <2> QED
    BY <1>3, <2>2, <2>3, PopForRtiTop
<1>10. Rti(e) = PopForRti(p)
  BY <1>2 DEF Rti, p
<1>11. PopForRti(p) \in Machine
  BY <1>3, PopForRtiType
<1>12. /\ PopForRti(p).pc = p.pc /\ PopForRti(p).s = p.s /\ PopForRti(p).cc = p.cc
       /\ PopForRti(p).regs = p.regs /\ PopForRti(p).mem = p.mem
       /\ PopForRti(p).latch = p.latch
  BY <1>3 DEF PopForRti, Machine
<1>13. m.cc \cup {"E"} \in Byte
  BY BitsType DEF Machine, Byte
<1>14. resumed \in Machine
  BY <1>1, <1>13 DEF Machine
<1>15. /\ resumed.pc = m.pc /\ resumed.s = m.s /\ resumed.cc = m.cc \cup {"E"}
       /\ resumed.regs = m.regs /\ resumed.mem = e.mem
       /\ resumed.latch = e.latch /\ resumed.frames = m.frames
  BY DEF Machine
<1> HIDE DEF resumed
<1> DEFINE returned == PopForRti(p)
<1>16. /\ returned \in Machine
       /\ returned.pc = resumed.pc /\ returned.s = resumed.s
       /\ returned.cc = resumed.cc /\ returned.regs = resumed.regs
       /\ returned.mem = resumed.mem /\ returned.latch = resumed.latch
       /\ returned.frames = resumed.frames
  BY <1>4, <1>6, <1>7, <1>8, <1>9, <1>11, <1>12, <1>15
<1> HIDE DEF returned
<1>17. returned = resumed
  BY <1>14, <1>16, MachineEq
<1> QED
  BY <1>10, <1>17 DEF Resumes, resumed, returned, e

\* Whatever the program, entering SWI, IRQ or NMI can be undone by RTI.
THEOREM WholeEntry == Spec => []WholeEntryResumes
<1>1. TypeOK => WholeEntryResumes
  BY RtiUndoesWhole DEF TypeOK, WholeEntryResumes
<1> QED
  BY <1>1, TypeCorrect, PTL

LEMMA RtiUndoesFast ==
  ASSUME NEW m \in Machine, "E" \notin m.cc
  PROVE  Resumes(m, ServiceFirq(m), m.cc)
<1> DEFINE e == ServiceFirq(m)
           p == Pull(e, FastState)
           frame == [ret |-> m.pc, sp |-> e.s, kind |-> "firq"]
           resumed == [m EXCEPT !.cc = m.cc, !.mem = e.mem, !.latch = e.latch]
<1>1. e \in Machine
  BY ServiceFirqType
<1>2. /\ e.s = Down(m.s, 3) /\ e.regs = m.regs
      /\ e.frames = Append(m.frames, frame)
      /\ Peek(e, 0) = m.cc /\ Peek(e, 1) = m.pc[1] /\ Peek(e, 2) = m.pc[2]
  BY ServiceFirqEffect
<1> HIDE DEF e
<1>3. p \in Machine
  BY <1>1, PullType
<1>4. /\ p.cc = m.cc /\ p.regs = m.regs /\ p.pc = <<m.pc[1], m.pc[2]>>
      /\ p.s = Up(Down(m.s, 3), 3)
      /\ p.mem = e.mem /\ p.latch = e.latch /\ p.frames = e.frames
  BY <1>1, <1>2, PullFast
<1> HIDE DEF p
<1>5. m.pc \in Word /\ m.s \in Addr /\ m.frames \in Seq(Frame)
  BY DEF Machine
<1>6. p.pc = m.pc
  BY <1>4, <1>5 DEF Word
<1>7. p.s = m.s
  <2>1. 3 \in 0 .. MemSize
    BY CpuConstants DEF CpuAssumption
  <2> QED
    BY <1>4, <1>5, <2>1, UpDown
<1>8. PopForRti(p).frames = m.frames
  <2>1. frame \in Frame /\ frame.kind # "call"
    BY <1>1, <1>5 DEF Frame, Machine, Kinds, Inputs
  <2> HIDE DEF frame
  <2>2. /\ p.frames # <<>> /\ p.frames[Len(p.frames)] = frame
        /\ SubSeq(p.frames, 1, Len(p.frames) - 1) = m.frames
    BY <1>2, <1>4, <1>5, <2>1, AppendDrop
  <2> QED
    BY <1>3, <2>1, <2>2, PopForRtiTop
<1>9. Rti(e) = PopForRti(p)
  BY <1>2 DEF Rti, p
<1>10. resumed \in Machine
  BY <1>1 DEF Machine
<1>11. /\ resumed.pc = m.pc /\ resumed.s = m.s /\ resumed.cc = m.cc
       /\ resumed.regs = m.regs /\ resumed.mem = e.mem
       /\ resumed.latch = e.latch /\ resumed.frames = m.frames
  BY DEF Machine
<1> HIDE DEF resumed
<1> DEFINE returned == PopForRti(p)
<1>12. returned \in Machine
  BY <1>3, PopForRtiType
<1>13. /\ returned.pc = p.pc /\ returned.s = p.s /\ returned.cc = p.cc
       /\ returned.regs = p.regs /\ returned.mem = p.mem /\ returned.latch = p.latch
  BY <1>3 DEF PopForRti, Machine
<1>14. returned.frames = m.frames
  BY <1>8
<1> HIDE DEF returned
<1>15. returned = resumed
  BY <1>4, <1>6, <1>7, <1>10, <1>11, <1>12, <1>13, <1>14, MachineEq
<1> QED
  BY <1>9, <1>15 DEF Resumes, resumed, returned, e

\* Whatever the program, RTI undoes FIRQ when E was clear at the interrupt.
THEOREM FastEntry == Spec => []FastEntryResumes
<1>1. TypeOK => FastEntryResumes
  BY RtiUndoesFast DEF TypeOK, FastEntryResumes
<1> QED
  BY <1>1, TypeCorrect, PTL

=============================================================================
