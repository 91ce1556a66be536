----------------------------- MODULE AnyProgram -----------------------------
(***************************************************************************)
(* The CPU executing an arbitrary program, step() by step(), while devices *)
(* raise interrupt lines, the host requests interrupts and resets it.      *)
(* Nothing is assumed of the program: it may unbalance, move and overwrite *)
(* its stack at will.                                                      *)
(***************************************************************************)
EXTENDS Cpu

CONSTANTS
  Data,       \* byte values that programs compute and store
  Masks,      \* operands of ANDCC, ORCC and CWAI, and values given to CC
  Lists,      \* register lists of PSHS and PULS
  Stacks,     \* addresses that programs load into S
  Blocks,     \* sets of cells that one instruction stores to
  MaxSteps    \* BOUND on the instructions executed

ASSUME AnyProgramAssumption ==
  /\ Data \cup Masks \subseteq Byte
  /\ Lists \subseteq SUBSET WholeState
  /\ Stacks \subseteq Addr
  /\ Blocks \subseteq SUBSET Addr
  /\ MaxSteps \in Nat

VARIABLES
  cpu,
  steps       \* instructions executed so far

vars == <<cpu, steps>>

\* One Cpu::step whose instruction leaves m: latch the lines, then serve.
Step(m) ==
  /\ steps < MaxSteps
  /\ steps' = steps + 1
  /\ \E lines \in SUBSET Lines : cpu' = Finish(m, lines)

\* What the data part of an instruction may leave of the machine.
Computed ==
  {Compute(Fetched(cpu, next), regs, flags) :
     next \in Code, regs \in [1 .. NRegs -> Data] \cup {cpu.regs}, flags \in Flags}

Moved == Computed \cup {MoveS(m, s) : m \in Computed, s \in Stacks}

DoCompute == \E m \in Moved : Step(m) \/ \E cc \in Masks : Step(SetCc(m, cc))
DoStore   == \E m \in Moved : \E cells \in Blocks : \E bytes \in [cells -> Data] :
               Step(Store(m, bytes))
DoCall    == \E m \in Moved : \E target \in Code : Step(Call(m, target))
DoMask    == \E next \in Code, imm \in Masks :
               \/ Step(Andcc(Fetched(cpu, next), imm))
               \/ Step(Orcc(Fetched(cpu, next), imm))
DoRts     == \E next \in Code : Step(Rts(Fetched(cpu, next)))
DoRti     == \E next \in Code : Step(Rti(Fetched(cpu, next)))
DoSwi     == \E next \in Code, kind \in Software : Step(Swi(Fetched(cpu, next), kind))
DoPshs    == \E next \in Code, list \in Lists : Step(Pshs(Fetched(cpu, next), list))
DoPuls    == \E next \in Code, list \in Lists : Step(Puls(Fetched(cpu, next), list))
DoCwai    == \E next \in Code, imm \in Masks : Step(Cwai(Fetched(cpu, next), imm))

\* request_nmi, request_firq and request_irq, called by the host.
DoRequest ==
  /\ \E line \in Lines : cpu' = [cpu EXCEPT !.latch = @ \cup {line}]
  /\ UNCHANGED steps

DoReset == cpu' = Reset(cpu) /\ UNCHANGED steps

Init == cpu = PowerOn /\ steps = 0

Next ==
  \/ DoCompute \/ DoStore \/ DoMask
  \/ DoCall \/ DoRts \/ DoRti \/ DoSwi \/ DoPshs \/ DoPuls \/ DoCwai
  \/ DoRequest \/ DoReset

Spec == Init /\ [][Next]_vars

-----------------------------------------------------------------------------
(* Properties.                                                             *)

\* Every register keeps its width and S stays an address, whatever the program
\* executes; only the inputs in use are ever latched.
TypeOK ==
  /\ cpu \in Machine
  /\ cpu.latch \subseteq Lines
  /\ steps \in 0 .. MaxSteps

\* An input waits in its latch although CC lets it through.
UnmaskedWaits(m) ==
  \/ "nmi" \in m.latch
  \/ "firq" \in m.latch /\ "F" \notin m.cc
  \/ "irq" \in m.latch /\ "I" \notin m.cc

\* Cpu::step serves at most one interrupt, and yet when it returns no unmasked
\* interrupt is left waiting: every entry masks what it did not serve.  Only a
\* request that the host makes between two steps waits unmasked.
StepLeavesNoneWaiting ==
  [][steps' # steps => ~UnmaskedWaits(cpu')]_vars

\* A request is never lost: it leaves its latch only by entering its own
\* handler, with the interrupted address on the shadow stack, and so survives
\* masks, the other interrupts and a reset.
LatchedUntilServed ==
  [][\A line \in cpu.latch \ cpu'.latch :
       /\ cpu'.pc = Vec[line]
       /\ cpu'.frames # <<>>
       /\ cpu'.frames[Len(cpu'.frames)].kind = line]_vars

\* Entering a handler and executing RTI at once resumes the program m: every
\* register, S, and the shadow stack are as before; CC is as given.
Resumes(m, entered, cc) ==
  Rti(entered) = [m EXCEPT !.cc = cc, !.mem = entered.mem, !.latch = entered.latch]

\* The frame that SWI, IRQ and NMI push is the frame that RTI pulls, wherever S
\* is (wrapped around the end of memory included); E is left set.
WholeEntryResumes ==
  \A kind \in Software \cup {"irq", "nmi"} :
    Resumes(cpu, EnterWhole(cpu, kind), cpu.cc \cup {"E"})

\* RTI undoes the short frame of FIRQ, provided that E was clear beforehand.
FastEntryResumes ==
  "E" \notin cpu.cc => Resumes(cpu, ServiceFirq(cpu), cpu.cc)

=============================================================================
