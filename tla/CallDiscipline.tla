--------------------------- MODULE CallDiscipline ---------------------------
(***************************************************************************)
(* The CPU executing a program that uses its stack as the comment on the   *)
(* shadow call stack supposes (src/src/debug.rs: no manual stack edits, no *)
(* longjmp): every routine returns with S where its entry left it, stores  *)
(* nothing into the stack of its callers, and sets E by no instruction.    *)
(* Interrupts arrive at every instruction boundary.                        *)
(*                                                                         *)
(* acts is a history of the activations the program really is in: how each *)
(* was entered and what the machine was like just before.                  *)
(***************************************************************************)
EXTENDS Cpu

CONSTANTS
  Data,       \* byte values that programs compute and store
  Masks,      \* operands of ANDCC and ORCC, and values given to CC
  Lists,      \* register lists of PSHS and PULS, without "pc"
  Stacks,     \* addresses that programs load into S
  Blocks,     \* sets of cells that one instruction stores to
  Top         \* the first value of S, the top of the stack region

ASSUME DisciplineAssumption ==
  /\ Data \cup Masks \subseteq Byte
  /\ Lists \subseteq SUBSET {"cc", "regs"}
  /\ Stacks \subseteq Addr
  /\ Blocks \subseteq SUBSET Addr
  /\ Top \in Addr

VARIABLES cpu, acts

vars == <<cpu, acts>>

Act == [kind : Kinds, pc : Word, s : Addr, cc : Byte, regs : [1 .. NRegs -> Byte]]

\* The activation that entering `kind` from m begins.
Entered(m, kind) ==
  [kind |-> kind, pc |-> m.pc, s |-> m.s, cc |-> m.cc, regs |-> m.regs]

EntrySize(kind) ==
  CASE kind = "call" -> 2
    [] kind = "firq" -> 3
    [] OTHER         -> NRegs + 3

Innermost == acts[Len(acts)]

\* The first address that belongs to the callers of the innermost activation.
Limit == IF acts = <<>> THEN Top ELSE Innermost.s - EntrySize(Innermost.kind)

-----------------------------------------------------------------------------
(* One step() whose instruction leaves m in the activations `during`.      *)

\* BOUND: runs whose stack grows past the lowest address are not followed.
StackRoom(m) == Taken(m) # "none" => EntrySize(Taken(m)) <= m.s

Step(m, during) ==
  \E lines \in SUBSET Lines :
    LET polled == Poll(m, lines)
        kind   == Taken(polled)
    IN  /\ StackRoom(polled)
        /\ cpu' = Finish(m, lines)
        /\ acts' = IF kind = "none" THEN during
                   ELSE Append(during, Entered(polled, kind))

\* What the data part of an instruction may leave of the machine; S stays in
\* the part of the stack that the innermost activation owns.
Computed ==
  {Compute(Fetched(cpu, next), regs, flags) :
     next \in Code, regs \in [1 .. NRegs -> Data] \cup {cpu.regs}, flags \in Flags}

Moved == Computed \cup {MoveS(m, s) : m \in Computed, s \in Stacks \cap 0 .. Limit}

\* The instruction does not set E.
KeepsE(m) == "E" \in m.cc => "E" \in cpu.cc

\* Instructions that stay in the activation.
DoCompute ==
  \E m \in Moved :
    \/ Step(m, acts)
    \/ \E cc \in Masks : KeepsE(SetCc(m, cc)) /\ Step(SetCc(m, cc), acts)

DoStore ==
  \E m \in Moved : \E cells \in Blocks : \E bytes \in [cells -> Data] :
    /\ cells \cap Limit .. Top - 1 = {}
    /\ Step(Store(m, bytes), acts)

DoMask ==
  \E next \in Code, imm \in Masks :
    \E m \in {Andcc(Fetched(cpu, next), imm), Orcc(Fetched(cpu, next), imm)} :
      KeepsE(m) /\ Step(m, acts)

DoPshs ==
  \E next \in Code, list \in Lists :
    /\ Size(list) <= cpu.s
    /\ Step(Pshs(Fetched(cpu, next), list), acts)

DoPuls ==
  \E next \in Code, list \in Lists :
    LET m == Puls(Fetched(cpu, next), list)
    IN  /\ cpu.s + Size(list) <= Limit
        /\ KeepsE(m)
        /\ Step(m, acts)

\* Instructions that enter an activation.
DoCall ==
  \E m \in Moved : \E target \in Code :
    /\ EntrySize("call") <= m.s
    /\ Step(Call(m, target), Append(acts, Entered(m, "call")))

DoSwi ==
  \E next \in Code, kind \in Software :
    LET m == Fetched(cpu, next)
    IN  /\ EntrySize(kind) <= m.s
        /\ Step(Swi(m, kind), Append(acts, Entered(m, kind)))

\* Instructions that leave one: RTS or PULS list,PC from a routine that was
\* called, RTI from one that was interrupted into.
Outer == SubSeq(acts, 1, Len(acts) - 1)

DoReturn ==
  /\ acts # <<>>
  /\ Innermost.kind = "call"
  /\ \/ /\ cpu.s = Limit
        /\ Step(Rts(cpu), Outer)
     \/ \E list \in Lists :
          LET m == Puls(cpu, list \cup {"pc"})
          IN  /\ cpu.s + Size(list) = Limit
              /\ KeepsE(m)
              /\ Step(m, Outer)

DoRti ==
  /\ acts # <<>>
  /\ Innermost.kind # "call"
  /\ cpu.s = Limit
  /\ Step(Rti(cpu), Outer)

\* request_nmi, request_firq and request_irq, called by the host.
DoRequest ==
  /\ \E line \in Lines : cpu' = [cpu EXCEPT !.latch = @ \cup {line}]
  /\ UNCHANGED acts

\* The program has just loaded S.
Init == cpu = MoveS(PowerOn, Top) /\ acts = <<>>

Next ==
  \/ DoCompute \/ DoStore \/ DoMask \/ DoPshs \/ DoPuls
  \/ DoCall \/ DoSwi \/ DoReturn \/ DoRti \/ DoRequest

Spec == Init /\ [][Next]_vars

-----------------------------------------------------------------------------
(* Properties.                                                             *)

\* The registers keep their widths and the history its shape.
TypeOK ==
  /\ cpu \in Machine
  /\ cpu.latch \subseteq Lines
  /\ acts \in Seq(Act)

\* The shadow stack is the call stack: one frame per activation, in order,
\* with its kind, the address it returns to and the S of its entry.
ShadowIsCallStack ==
  /\ Len(cpu.frames) = Len(acts)
  /\ \A i \in 1 .. Len(acts) :
       cpu.frames[i] = [ret |-> acts[i].pc, kind |-> acts[i].kind,
                        sp |-> acts[i].s - EntrySize(acts[i].kind)]

\* Memory still holds, above every frame of the shadow stack, what its entry
\* saved: the return address of each, and for an interrupt CC and the
\* registers as well.
SavedIntact ==
  \A i \in 1 .. Len(acts) :
    LET a    == acts[i]
        sp   == a.s - EntrySize(a.kind)
    IN  /\ <<cpu.mem[a.s - 2], cpu.mem[a.s - 1]>> = a.pc
        /\ a.kind = "firq" => cpu.mem[sp] = a.cc
        /\ a.kind \notin {"call", "firq"} =>
             /\ cpu.mem[sp] = a.cc \cup {"E"}
             /\ \A r \in 1 .. NRegs : cpu.mem[sp + r] = a.regs[r]

\* A return resumes its own caller: PC and S are those of the moment of entry;
\* so are the masks after any interrupt and the registers after one that saves
\* them (FIRQ does not).
ReturnsToCaller ==
  [][Len(acts') < Len(acts) =>
       /\ acts' = Outer
       /\ cpu'.pc = Innermost.pc
       /\ cpu'.s = Innermost.s
       /\ Innermost.kind # "call" => cpu'.cc \ {"E"} = Innermost.cc \ {"E"}
       /\ Innermost.kind \notin {"call", "firq"} => cpu'.regs = Innermost.regs]_vars

\* The shadow stack implements CallStack: interrupts are transparent, and the
\* frames alone tell where every return goes.
Frames ==
  [i \in 1 .. Len(cpu.frames) |->
     [kind |-> cpu.frames[i].kind, ret |-> cpu.frames[i].ret]]

Calls == INSTANCE CallStack WITH
  Address <- Word, CallKinds <- {"call"} \cup Software, Interrupts <- Inputs,
  at <- cpu.pc, active <- Frames

ImplementsCallStack == Calls!Spec

=============================================================================
