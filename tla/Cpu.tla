-------------------------------- MODULE Cpu --------------------------------
(***************************************************************************)
(* The MC6809 core of src/src/cpu.rs as far as control flow goes: program  *)
(* counter, system stack, condition-code masks, interrupt latches and the  *)
(* shadow call stack that the debugger shows.                              *)
(*                                                                         *)
(* A byte is the set of its bits that are 1; only the bits the interrupt   *)
(* logic looks at need be in Bits.  A word is its high and its low byte.   *)
(* The instruction stream is not fixed: which instruction sits at PC, how  *)
(* long it is and where it branches is chosen at every step, so the        *)
(* behaviours are those of every program (self-modifying ones included).   *)
(* Vectors and code live outside the memory modelled here, which is the    *)
(* region the stack can reach.                                             *)
(***************************************************************************)
EXTENDS Integers, Sequences, FiniteSets

CONSTANTS
  Bits,       \* the bits of a byte (all eight in the code; E, F and I matter)
  MemSize,    \* cells the S register can address (2^16 in the code)
  NRegs,      \* bytes saved between CC and PC: A,B,DP,X,Y,U (9 in the code)
  Dp,         \* the index of DP among them (3 in the code)
  Code,       \* addresses the program transfers control to on purpose
  Software,   \* the software interrupts in use, of "swi", "swi2" and "swi3"
  Vec,        \* the vector table: entry address per interrupt, and "reset"
  Lines       \* interrupt inputs that devices or the host use

Byte == SUBSET Bits
Word == Byte \X Byte
Addr == 0 .. MemSize - 1

Inputs   == {"nmi", "firq", "irq"}
Kinds    == {"call"} \cup Software \cup Inputs

CpuAssumption ==
  /\ {"E", "F", "I"} \subseteq Bits
  /\ NRegs \in Nat
  /\ Dp \in 1 .. NRegs
  /\ MemSize \in Nat
  /\ NRegs + 3 < MemSize
  /\ Code \subseteq Word
  /\ Software \subseteq {"swi", "swi2", "swi3"}
  /\ Vec \in [Software \cup Inputs \cup {"reset"} -> Word]
  /\ Lines \subseteq Inputs

ASSUME CpuConstants == CpuAssumption

(***************************************************************************)
(* The state of struct Cpu and of the memory it works on.  latch holds the *)
(* *_pending flags that are set; a frame keeps what the stack logic reads  *)
(* of a CallFrame; regs are the bytes of A, B, DP, X, Y and U.             *)
(***************************************************************************)
Frame == [ret : Word, sp : Addr, kind : Kinds]

Machine ==
  [ pc     : Word,
    s      : Addr,
    cc     : Byte,
    regs   : [1 .. NRegs -> Byte],
    mem    : [Addr -> Byte],
    latch  : SUBSET Inputs,
    frames : Seq(Frame) ]

-----------------------------------------------------------------------------
(* Stack helpers.  S wraps at the end of the address space.                *)

Up(a, k)   == IF a + k < MemSize THEN a + k ELSE a + k - MemSize

\* Fault: S wraps one byte too late on the way down.
DownWrapsLate(a, k) == IF a > k THEN a - k ELSE a - k + MemSize

Down(a, k) == IF a >= k THEN a - k ELSE a - k + MemSize

\* Push a block of bytes, listed from the lowest address (the last one pushed).
Push(m, bytes) ==
  LET top == Down(m.s, Len(bytes))
  IN  [m EXCEPT
         !.s   = top,
         !.mem = [a \in Addr |->
                    IF Down(a, top) < Len(bytes)
                    THEN bytes[Down(a, top) + 1]
                    ELSE m.mem[a]]]

\* The byte k places above the top of the stack.
Peek(m, k) == m.mem[Up(m.s, k)]

\* Register lists of PSHS, PULS and RTI, and the bytes they take.
CcSize(list)   == IF "cc" \in list THEN 1 ELSE 0
RegsSize(list) == IF "regs" \in list THEN NRegs ELSE 0
Size(list) == CcSize(list) + RegsSize(list) + (IF "pc" \in list THEN 2 ELSE 0)

\* Fault: PC is pushed last, as the SWI of an earlier version did.
ImagePcOnTop(m, list) ==
  (IF "pc" \in list THEN m.pc ELSE <<>>)
  \o (IF "regs" \in list THEN m.regs ELSE <<>>)
  \o (IF "cc" \in list THEN <<m.cc>> ELSE <<>>)

Image(m, list) ==
  (IF "cc" \in list THEN <<m.cc>> ELSE <<>>)
  \o (IF "regs" \in list THEN m.regs ELSE <<>>)
  \o (IF "pc" \in list THEN m.pc ELSE <<>>)

Pull(m, list) ==
  LET c == CcSize(list)
      r == c + RegsSize(list)
  IN  [m EXCEPT
         !.cc   = IF "cc" \in list THEN Peek(m, 0) ELSE m.cc,
         !.regs = IF "regs" \in list
                  THEN [i \in 1 .. NRegs |-> Peek(m, c + i - 1)] ELSE m.regs,
         !.pc   = IF "pc" \in list
                  THEN <<Peek(m, r), Peek(m, r + 1)>> ELSE m.pc,
         !.s    = Up(m.s, Size(list))]

WholeState == {"cc", "regs", "pc"}
FastState  == {"cc", "pc"}

-----------------------------------------------------------------------------
(* The shadow call stack.                                                  *)

\* Fault: the frame takes its return address from the PC after the transfer.
PushFrameLate(m, kind, ret) ==
  [m EXCEPT !.frames = Append(m.frames, [ret |-> m.pc, sp |-> m.s, kind |-> kind])]

PushFrame(m, kind, ret) ==
  [m EXCEPT !.frames = Append(m.frames, [ret |-> ret, sp |-> m.s, kind |-> kind])]

\* Pop frames down to and including the topmost one whose index is in hits, or
\* all of them: what stays is every frame that has a hit above it.
PopTo(frames, hits) ==
  LET kept == {i \in 1 .. Len(frames) : \E j \in hits : i < j}
  IN  SubSeq(frames, 1, Cardinality(kept))

\* Fault: S is compared with its value at the call, not with that after a pull.
PopForReturnExact(m) ==
  [m EXCEPT !.frames =
     PopTo(m.frames, {i \in 1 .. Len(m.frames) : m.frames[i].sp = m.s})]

PopForReturn(m) ==
  [m EXCEPT !.frames =
     PopTo(m.frames, {i \in 1 .. Len(m.frames) : Up(m.frames[i].sp, 2) = m.s})]

PopForRti(m) ==
  [m EXCEPT !.frames =
     PopTo(m.frames, {i \in 1 .. Len(m.frames) : m.frames[i].kind # "call"})]

-----------------------------------------------------------------------------
(* Interrupt entry, and the tail of Cpu::step.                             *)

\* Fault: E is set after CC has been saved.
EnterWholeMarksLate(m, kind) ==
  LET saved  == Push(m, Image(m, WholeState))
      masked == [saved EXCEPT !.cc = @ \cup {"E", "I", "F"}, !.pc = Vec[kind]]
  IN  PushFrame(masked, kind, m.pc)

\* Fault: FIRQ stays unmasked.
EnterWholeMasksIrqOnly(m, kind) ==
  LET marked == [m EXCEPT !.cc = @ \cup {"E"}]
      saved  == Push(marked, Image(marked, WholeState))
      masked == [saved EXCEPT !.cc = @ \cup {"I"}, !.pc = Vec[kind]]
  IN  PushFrame(masked, kind, m.pc)

\* Save everything with E set, mask, vector: SWI, SWI2, SWI3, IRQ and NMI.
EnterWhole(m, kind) ==
  LET marked == [m EXCEPT !.cc = @ \cup {"E"}]
      saved  == Push(marked, Image(marked, WholeState))
      masked == [saved EXCEPT !.cc = @ \cup {"I", "F"}, !.pc = Vec[kind]]
  IN  PushFrame(masked, kind, m.pc)

Swi(m, kind) == EnterWhole(m, kind)

ServiceNmi(m) == [EnterWhole(m, "nmi") EXCEPT !.latch = @ \ {"nmi"}]

\* Fault: the request stays latched.
ServiceIrqKeeps(m) == EnterWhole(m, "irq")

ServiceIrq(m) == [EnterWhole(m, "irq") EXCEPT !.latch = @ \ {"irq"}]

\* Fault: a short frame that says it is a whole one.
ServiceFirqMarked(m) ==
  LET marked == [m EXCEPT !.cc = @ \cup {"E"}]
      saved  == Push(marked, Image(marked, FastState))
      masked == [saved EXCEPT !.cc = @ \cup {"I", "F"}, !.pc = Vec["firq"]]
  IN  [PushFrame(masked, "firq", m.pc) EXCEPT !.latch = @ \ {"firq"}]

\* FIRQ saves CC before it clears E.
ServiceFirq(m) ==
  LET saved  == Push(m, Image(m, FastState))
      masked == [saved EXCEPT !.cc = (@ \ {"E"}) \cup {"I", "F"},
                              !.pc = Vec["firq"]]
  IN  [PushFrame(masked, "firq", m.pc) EXCEPT !.latch = @ \ {"firq"}]

\* The interrupt a machine takes at an instruction boundary, "none" if none.
Taken(m) ==
  CASE "nmi" \in m.latch -> "nmi"
    [] "nmi" \notin m.latch /\ "firq" \in m.latch /\ "F" \notin m.cc -> "firq"
    [] "nmi" \notin m.latch /\ ~("firq" \in m.latch /\ "F" \notin m.cc)
         /\ "irq" \in m.latch /\ "I" \notin m.cc -> "irq"
    [] OTHER -> "none"

Service(m) ==
  CASE Taken(m) = "nmi"  -> ServiceNmi(m)
    [] Taken(m) = "firq" -> ServiceFirq(m)
    [] Taken(m) = "irq"  -> ServiceIrq(m)
    [] OTHER             -> m

\* Fault: the lines of this instruction replace what was latched.
PollReplaces(m, lines) == [m EXCEPT !.latch = lines]

\* Lines sampled once per instruction and OR-ed into the latches.
Poll(m, lines) == [m EXCEPT !.latch = @ \cup lines]

Finish(m, lines) == Service(Poll(m, lines))

-----------------------------------------------------------------------------
(* Instructions, as functions of a machine whose PC has already been moved *)
(* past the instruction by the fetch.                                      *)

Fetched(m, next) == [m EXCEPT !.pc = next]

\* BSR, LBSR and JSR.
Call(m, target) ==
  LET saved == Push(m, m.pc)
  IN  PushFrame([saved EXCEPT !.pc = target], "call", m.pc)

Rts(m) == PopForReturn(Pull(m, {"pc"}))

\* Fault: only CC and PC are pulled, whatever the E bit pulled says.
RtiShort(m) == PopForRti(Pull(m, FastState))

Rti(m) ==
  PopForRti(Pull(m, IF "E" \in Peek(m, 0) THEN WholeState ELSE FastState))

Pshs(m, list) == Push(m, Image(m, list))

Puls(m, list) ==
  IF "pc" \in list THEN PopForReturn(Pull(m, list)) ELSE Pull(m, list)

\* CWAI does not wait, and no shadow frame stands for what it pushes.
Cwai(m, imm) ==
  LET marked == [m EXCEPT !.cc = (@ \cap imm) \cup {"E"}]
  IN  Push(marked, Image(marked, WholeState))

\* The rest of the instruction set gives the data registers and the arithmetic
\* flags some value: ALU operations, loads, the auto-increments of indexed
\* addressing, branches, JMP, TFR and EXG, SYNC (a NOP here), unknown opcodes.
Flags == SUBSET (Bits \ {"E", "F", "I"})

Compute(m, regs, flags) ==
  [m EXCEPT !.regs = regs, !.cc = (@ \cap {"E", "F", "I"}) \cup flags]

\* LEAS, LDS, TFR and EXG to S, auto-increments of S, PULU with S in its list.
MoveS(m, s) == [m EXCEPT !.s = s]

Andcc(m, imm) == [m EXCEPT !.cc = @ \cap imm]
Orcc(m, imm)  == [m EXCEPT !.cc = @ \cup imm]

\* TFR and EXG to CC, and PULU with CC in its list.
SetCc(m, cc) == [m EXCEPT !.cc = cc]

\* Stores, read-modify-write operations and PSHU write the cells that are the
\* domain of bytes.
Store(m, bytes) ==
  [m EXCEPT !.mem = [a \in Addr |-> IF a \in DOMAIN bytes THEN bytes[a] ELSE m.mem[a]]]

Reset(m) ==
  [m EXCEPT !.pc = Vec["reset"], !.cc = {"I", "F"}, !.regs[Dp] = {},
            !.frames = <<>>]

\* The machine after Cpu::new and Cpu::reset on memory that holds zeros.
PowerOn ==
  Reset([pc     |-> <<{}, {}>>, s |-> 0, cc |-> {},
         regs   |-> [i \in 1 .. NRegs |-> {}],
         mem    |-> [a \in Addr |-> {}],
         latch  |-> {},
         frames |-> <<>>])

=============================================================================
