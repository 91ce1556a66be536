------------------------------ MODULE Machine ------------------------------
(***************************************************************************)
(* The MC6809 core of src/src/cpu.rs on its machine code: Step executes    *)
(* the instruction whose bytes lie at PC.  Cpu.tla models what this module *)
(* leaves out: interrupts, the shadow call stack, and the instructions     *)
(* that Halts names.                                                       *)
(*                                                                         *)
(* A machine m is a record of the registers, of ram (what plain memory,    *)
(* zero at first, holds where it has been written), and of wrote, the      *)
(* addresses the last instruction wrote to.                                *)
(***************************************************************************)
EXTENDS Alu, Sequences

LastAddress == 2 * Half16 - 1

Address == 0 .. LastAddress
Octet   == 0 .. 2 * Half8 - 1

Plus(p, k) == (p + k) % 65536

-----------------------------------------------------------------------------
(* Memory and registers.                                                   *)

Read(m, at) == IF at \in DOMAIN m.ram THEN m.ram[at] ELSE 0

Word(m, at) == 256 * Read(m, at) + Read(m, Plus(at, 1))

Write(m, at, v) ==
  [m EXCEPT !.ram = [q \in DOMAIN @ \cup {at} |-> IF q = at THEN v ELSE @[q]],
            !.wrote = @ \cup {at}]

WriteWord(m, at, v) == Write(Write(m, at, v \div 256), Plus(at, 1), v % 256)

\* The weight of each condition code in the byte CC.
Weight == [E |-> 128, F |-> 64, H |-> 32, I |-> 16, N |-> 8, Z |-> 4, V |-> 2, C |-> 1]

Flags(v) == {f \in Flag : (v \div Weight[f]) % 2 = 1}

FlagByte(cc) ==
  LET bit(f) == IF f \in cc THEN Weight[f] ELSE 0
  IN  bit("E") + bit("F") + bit("H") + bit("I") + bit("N") + bit("Z") + bit("V") + bit("C")

Is16(r) == r \in {"d", "x", "y", "u", "s", "pc"}

Get(m, r) == CASE r = "d"  -> 256 * m.a + m.b
               [] r = "cc" -> FlagByte(m.cc)
               [] OTHER    -> m[r]

Put(m, r, v) == CASE r = "d"  -> [m EXCEPT !.a = v \div 256, !.b = v % 256]
                  [] r = "cc" -> [m EXCEPT !.cc = Flags(v)]
                  [] OTHER    -> [m EXCEPT ![r] = v]

\* fetch8 and fetch16 leave PC past what they fetch.
Skip(m, k) == [m EXCEPT !.pc = Plus(@, k)]

-----------------------------------------------------------------------------
(* Addressing: an operand is its address ea with the machine after its     *)
(* bytes have been fetched, PC being at the first of them.                 *)

IndexRegister(pb) == <<"x", "y", "u", "s">>[((pb \div 32) % 4) + 1]

\* Fault: a post-increment happens before the address is taken.
SteppingFirst(m, r, before, after) ==
  [m |-> Skip([m EXCEPT ![r] = Plus(@, after)], 1), ea |-> Plus(m[r], after)]

\* ,R+ and its kin, whose indirect bit is not looked at: the register ends at
\* base + after, the address is base + before.
Stepping(m, r, before, after) ==
  [m |-> Skip([m EXCEPT ![r] = Plus(@, after)], 1), ea |-> Plus(m[r], before)]

OffsetBytes(form) == CASE form \in {8, 12}     -> 1
                       [] form \in {9, 13, 15} -> 2
                       [] OTHER                -> 0

ea_indexed(m) ==
  LET pb   == Read(m, m.pc)
      r    == IndexRegister(pb)
      form == pb % 16
      low  == Plus(m.pc, 1)
      past == Skip(m, 1 + OffsetBytes(form))
      base == CASE form \in {12, 13} -> past.pc
                [] form = 15         -> 0
                [] OTHER             -> m[r]
      off  == CASE form = 5              -> Signed(Half8, m.b)
                [] form = 6              -> Signed(Half8, m.a)
                [] form = 11             -> Get(m, "d")
                [] OffsetBytes(form) = 1 -> Signed(Half8, Read(m, low))
                [] OffsetBytes(form) = 2 -> Word(m, low)
                [] OTHER                 -> 0
      ea   == Plus(base, off)
      \* Forms 7, A and E are not decoded and pass for ,R.
      indirect == form = 15 \/ ((pb \div 16) % 2 = 1 /\ form \notin {7, 10, 14})
  IN  CASE pb < 128 ->
             [m |-> Skip(m, 1), ea |-> Plus(m[r], Signed(16, pb % 32))]
        [] pb >= 128 /\ form = 0 -> Stepping(m, r, 0, 1)
        [] pb >= 128 /\ form = 1 -> Stepping(m, r, 0, 2)
        [] pb >= 128 /\ form = 2 -> Stepping(m, r, -1, -1)
        [] pb >= 128 /\ form = 3 -> Stepping(m, r, -2, -2)
        [] pb >= 128 /\ form > 3 ->
             [m |-> past, ea |-> IF indirect THEN Word(m, ea) ELSE ea]

\* An immediate operand of k bytes is read where it stands.
Operand(m, mode, k) ==
  CASE mode = "imm" -> [m |-> Skip(m, k), ea |-> m.pc]
    [] mode = "dir" -> [m |-> Skip(m, 1), ea |-> 256 * m.dp + Read(m, m.pc)]
    [] mode = "idx" -> ea_indexed(m)
    [] mode = "ext" -> [m |-> Skip(m, 2), ea |-> Word(m, m.pc)]

\* The addressing of an opcode is in its third and fourth bit from the top.
Mode(op) == <<"imm", "dir", "idx", "ext">>[((op \div 16) % 4) + 1]

\* The opcode in immediate mode.
Base(op) == op - 16 * ((op \div 16) % 4)

-----------------------------------------------------------------------------
(* Instructions on an accumulator and an operand of one byte.              *)

\* The bits of two bytes together: what the table has for no 1, one, and two.
Combine(table, p, q) ==
  LET bit(w) == w * table[((p \div w) % 2) + ((q \div w) % 2) + 1]
  IN  bit(128) + bit(64) + bit(32) + bit(16) + bit(8) + bit(4) + bit(2) + bit(1)

And == <<0, 0, 1>>
Or  == <<0, 1, 1>>
Xor == <<0, 1, 0>>

Logic(r, cc) == [value |-> r, cc |-> logic_nz_clearv(Half8, r, cc)]

Result(column, p, q, cc) ==
  CASE column = 0  -> sub8_flags(Half8, p, q, cc)
    [] column = 1  -> [sub8_flags(Half8, p, q, cc) EXCEPT !.value = p]
    [] column = 2  -> sbc8_flags(Half8, p, q, cc)
    [] column = 4  -> Logic(Combine(And, p, q), cc)
    [] column = 5  -> [Logic(Combine(And, p, q), cc) EXCEPT !.value = p]
    [] column = 6  -> Logic(q, cc)
    [] column = 8  -> Logic(Combine(Xor, p, q), cc)
    [] column = 9  -> adc8_flags(Half8, p, q, cc)
    [] column = 10 -> Logic(Combine(Or, p, q), cc)
    [] column = 11 -> add8_flags(Half8, p, q, cc)

IsByteOp(op) ==
  /\ op >= \h80
  /\ op % 16 \in (0 .. 11) \ {3}
  /\ op \notin {\h87, \hC7}

\* ST and the rest, on register r.
ByteOp(m, r, op) ==
  LET o == Operand(m, Mode(op), 1)
      v == Result(op % 16, m[r], Read(o.m, o.ea), m.cc)
  IN  IF op % 16 = 7
      THEN [Write(o.m, o.ea, m[r]) EXCEPT !.cc = logic_nz_clearv(Half8, m[r], @)]
      ELSE [o.m EXCEPT ![r] = v.value, !.cc = v.cc]

ByteOpA(m, op) == ByteOp(m, "a", op)
ByteOpB(m, op) == ByteOp(m, "b", op)

-----------------------------------------------------------------------------
(* Instructions on a register of 16 bits, by page and immediate opcode; o  *)
(* is an operand.                                                          *)

FirstWide ==
  [base \in {\h83, \hC3, \h8C, \h8E, \h8F, \hCC, \hCD, \hCE, \hCF} |->
     CASE base = \h83 -> <<"SUB", "d">> [] base = \hC3 -> <<"ADD", "d">>
       [] base = \h8C -> <<"CMP", "x">>
       [] base = \h8E -> <<"LD", "x">>  [] base = \h8F -> <<"ST", "x">>
       [] base = \hCC -> <<"LD", "d">>  [] base = \hCD -> <<"ST", "d">>
       [] base = \hCE -> <<"LD", "u">>  [] base = \hCF -> <<"ST", "u">>]

Wide10 ==
  [base \in {\h83, \h8C, \h8E, \h8F, \hCE, \hCF} |->
     CASE base = \h83 -> <<"CMP", "d">> [] base = \h8C -> <<"CMP", "y">>
       [] base = \h8E -> <<"LD", "y">>  [] base = \h8F -> <<"ST", "y">>
       [] base = \hCE -> <<"LD", "s">>  [] base = \hCF -> <<"ST", "s">>]

Wide11 == [base \in {\h83, \h8C} |-> IF base = \h83 THEN <<"CMP", "u">> ELSE <<"CMP", "s">>]

\* There is no store to an immediate operand.
IsWideOp(ops, op) ==
  /\ op >= \h80
  /\ Base(op) \in DOMAIN ops
  /\ Mode(op) = "imm" => ops[Base(op)][1] # "ST"

Load16(o, r) ==
  LET v == Word(o.m, o.ea)
  IN  [Put(o.m, r, v) EXCEPT !.cc = logic_nz_clearv(Half16, v, @)]

Store16(o, r) ==
  LET v == Get(o.m, r)
  IN  [WriteWord(o.m, o.ea, v) EXCEPT !.cc = logic_nz_clearv(Half16, v, @)]

Difference16(o, r) == sub16_flags(Half16, Get(o.m, r), Word(o.m, o.ea), o.m.cc)
Sum16(o, r)        == add16_flags(Half16, Get(o.m, r), Word(o.m, o.ea), o.m.cc)

Compare16(o, r)  == [o.m EXCEPT !.cc = Difference16(o, r).cc]
Subtract16(o, r) == Put(Compare16(o, r), r, Difference16(o, r).value)
Add16(o, r)      == [Put(o.m, r, Sum16(o, r).value) EXCEPT !.cc = Sum16(o, r).cc]

\* A register that is both operand and index is read after it has stepped.
WideOp(m, ops, op) ==
  LET kind == ops[Base(op)][1]
      r    == ops[Base(op)][2]
      o    == Operand(m, Mode(op), 2)
  IN  CASE kind = "LD"  -> Load16(o, r)
        [] kind = "ST"  -> Store16(o, r)
        [] kind = "CMP" -> Compare16(o, r)
        [] kind = "SUB" -> Subtract16(o, r)
        [] kind = "ADD" -> Add16(o, r)

-----------------------------------------------------------------------------
(* Instructions on one byte, in A, B or memory.                            *)

OneByte(column, v, cc) ==
  CASE column = 0  -> Neg(Half8, v, cc)
    [] column = 3  -> Com(Half8, v, cc)
    [] column = 4  -> Lsr(Half8, v, cc)
    [] column = 6  -> Ror(Half8, v, cc)
    [] column = 7  -> Asr(Half8, v, cc)
    [] column = 8  -> Asl(Half8, v, cc)
    [] column = 9  -> Rol(Half8, v, cc)
    [] column = 10 -> Dec(Half8, v, cc)
    [] column = 12 -> Inc(Half8, v, cc)
    [] column = 13 -> Tst(Half8, v, cc)
    [] column = 15 -> Clr(Half8, v, cc)

IsOneByteOp(op) ==
  /\ op \div 16 \in {0, 4, 5, 6, 7}
  /\ op % 16 \in {0, 3, 4, 6, 7, 8, 9, 10, 12, 13, 15}

InMemory(op) == IF op < 16 THEN "dir" ELSE Mode(op)

\* On an accumulator r.
OneByteIn(m, r, op) ==
  LET v == OneByte(op % 16, m[r], m.cc)
  IN  [m EXCEPT ![r] = v.value, !.cc = v.cc]

\* In memory, which TST does not write to.
OneByteAt(m, op) ==
  LET o == Operand(m, InMemory(op), 1)
      v == OneByte(op % 16, Read(o.m, o.ea), m.cc)
      n == [o.m EXCEPT !.cc = v.cc]
  IN  IF op % 16 = 13 THEN n ELSE Write(n, o.ea, v.value)

OneByteOp(m, op) ==
  CASE op \div 16 = 4 -> OneByteIn(m, "a", op)
    [] op \div 16 = 5 -> OneByteIn(m, "b", op)
    [] OTHER          -> OneByteAt(m, op)

-----------------------------------------------------------------------------
(* Transfers between registers, and stacks.                                *)

Registers == <<"d", "x", "y", "u", "s", "pc", "none", "none", "a", "b", "cc", "dp",
               "none", "none", "none", "none">>

\* TFR and EXG of registers of one width; of anything else, nothing.
Transfer(m, op) ==
  LET pb  == Read(m, m.pc)
      src == Registers[(pb \div 16) + 1]
      dst == Registers[(pb % 16) + 1]
      p   == Skip(m, 1)
  IN  IF src = "none" \/ dst = "none" \/ Is16(src) # Is16(dst) THEN p
      ELSE IF op = \h1F THEN Put(p, dst, Get(p, src))
      ELSE Put(Put(p, src, Get(p, dst)), dst, Get(p, src))

Push8(m, sp, byte) == Write([m EXCEPT ![sp] = Plus(@, -1)], Plus(m[sp], -1), byte)

\* The low byte first, so that the high byte lies below it.
Push(m, sp, r) ==
  LET v == Get(m, r)
  IN  IF Is16(r) THEN Push8(Push8(m, sp, v % 256), sp, v \div 256) ELSE Push8(m, sp, v)

Pull(m, sp, r) ==
  LET k == IF Is16(r) THEN 2 ELSE 1
      v == IF Is16(r) THEN Word(m, m[sp]) ELSE Read(m, m[sp])
  IN  Put([m EXCEPT ![sp] = Plus(@, k)], r, v)

Other(sp) == IF sp = "s" THEN "u" ELSE "s"

\* Only a register that is in the mask pb, where its bit has the weight w.
PushMasked(m, sp, pb, w, r) == IF (pb \div w) % 2 = 1 THEN Push(m, sp, r) ELSE m
PullMasked(m, sp, pb, w, r) == IF (pb \div w) % 2 = 1 THEN Pull(m, sp, r) ELSE m

\* The registers in the mask, from its highest bit down.
PushAll(m, sp, pb) ==
  LET m1 == PushMasked(m, sp, pb, 128, "pc")
      m2 == PushMasked(m1, sp, pb, 64, Other(sp))
      m3 == PushMasked(m2, sp, pb, 32, "y")
      m4 == PushMasked(m3, sp, pb, 16, "x")
      m5 == PushMasked(m4, sp, pb, 8, "dp")
      m6 == PushMasked(m5, sp, pb, 4, "b")
      m7 == PushMasked(m6, sp, pb, 2, "a")
  IN  PushMasked(m7, sp, pb, 1, "cc")

\* And from its lowest bit up.
PullAll(m, sp, pb) ==
  LET m1 == PullMasked(m, sp, pb, 1, "cc")
      m2 == PullMasked(m1, sp, pb, 2, "a")
      m3 == PullMasked(m2, sp, pb, 4, "b")
      m4 == PullMasked(m3, sp, pb, 8, "dp")
      m5 == PullMasked(m4, sp, pb, 16, "x")
      m6 == PullMasked(m5, sp, pb, 32, "y")
      m7 == PullMasked(m6, sp, pb, 64, Other(sp))
  IN  PullMasked(m7, sp, pb, 128, "pc")

Stacks(m, op) ==
  LET sp == IF op \in {\h34, \h35} THEN "s" ELSE "u"
      pb == Read(m, m.pc)
  IN  IF op \in {\h34, \h36} THEN PushAll(Skip(m, 1), sp, pb) ELSE PullAll(Skip(m, 1), sp, pb)

-----------------------------------------------------------------------------
(* Jumps, branches and calls.                                              *)

BranchNames == <<"BRA", "BRN", "BHI", "BLS", "BCC", "BCS", "BNE", "BEQ",
                 "BVC", "BVS", "BPL", "BMI", "BGE", "BLT", "BGT", "BLE">>

\* An offset of k bytes counts from the instruction after.
Relative(m, k) ==
  Plus(m.pc, k + (IF k = 1 THEN Signed(Half8, Read(m, m.pc)) ELSE Word(m, m.pc)))

Branch(m, op, k) ==
  IF cond_eval(BranchNames[(op % 16) + 1], m.cc)
  THEN [m EXCEPT !.pc = Relative(m, k)]
  ELSE Skip(m, k)

\* past is the machine with PC at the return address.
Call(past, target) == [Push(past, "s", "pc") EXCEPT !.pc = target]

Calls(m, op) ==
  CASE op = \h8D -> Call(Skip(m, 1), Relative(m, 1))
    [] op = \h17 -> Call(Skip(m, 2), Relative(m, 2))
    [] OTHER     -> LET o == Operand(m, Mode(op), 2) IN Call(o.m, o.ea)

IsCall(op) == op \in {\h17, \h8D, \h9D, \hAD, \hBD}

-----------------------------------------------------------------------------
(* The rest of the first page.                                             *)

Lea(m, op) ==
  LET r == <<"x", "y", "s", "u">>[(op % 16) + 1]
      o == ea_indexed(m)
      p == [o.m EXCEPT ![r] = o.ea]
  IN  IF r \in {"x", "y"} THEN [p EXCEPT !.cc = With(@, "Z", o.ea = 0)] ELSE p

Inherent(m, op) ==
  CASE op = \h19 -> LET v == Daa(m.a, m.cc) IN [m EXCEPT !.a = v.value, !.cc = v.cc]
    [] op = \h1D -> LET p == [m EXCEPT !.a = Sex(m.b)]
                    IN  [p EXCEPT !.cc = logic_nz_clearv(Half16, Get(p, "d"), @)]
    [] op = \h3A -> [m EXCEPT !.x = Plus(@, m.b)]
    [] op = \h3D -> LET v == Mul(m.a, m.b, m.cc) IN [Put(m, "d", v.value) EXCEPT !.cc = v.cc]
    [] op = \h1A -> [Skip(m, 1) EXCEPT !.cc = @ \cup Flags(Read(m, m.pc))]
    [] op = \h1C -> [Skip(m, 1) EXCEPT !.cc = @ \cap Flags(Read(m, m.pc))]
    [] op = \h39 -> Pull(m, "s", "pc")

FirstPage(m, op) ==
  CASE IsOneByteOp(op)              -> OneByteOp(m, op)
    [] op \in {\h0E, \h6E, \h7E}    -> LET o == Operand(m, InMemory(op), 2)
                                       IN  [o.m EXCEPT !.pc = o.ea]
    [] op \in \h20 .. \h2F          -> Branch(m, op, 1)
    [] op = \h16                    -> Branch(m, \h20, 2)
    [] op \in \h30 .. \h33          -> Lea(m, op)
    [] op \in \h34 .. \h37          -> Stacks(m, op)
    [] op \in {\h1E, \h1F}          -> Transfer(m, op)
    [] op \in {\h19, \h1A, \h1C, \h1D, \h39, \h3A, \h3D} -> Inherent(m, op)
    [] IsCall(op)                   -> Calls(m, op)
    [] IsByteOp(op) -> IF op < \hC0 THEN ByteOpA(m, op) ELSE ByteOpB(m, op)
    [] IsWideOp(FirstWide, op) /\ ~ IsCall(op) -> WideOp(m, FirstWide, op)
    \* NOP, and what is not an instruction of the first page: one byte.
    [] OTHER                        -> m

-----------------------------------------------------------------------------
\* RTI, CWAI, SWI, SWI2, SWI3 and SYNC, which Cpu.tla models.
Halts(m) ==
  \/ Read(m, m.pc) \in {\h13, \h3B, \h3C, \h3F}
  \/ Read(m, m.pc) \in {\h10, \h11} /\ Read(m, Plus(m.pc, 1)) = \h3F

Step(machine) ==
  LET m   == Skip([machine EXCEPT !.wrote = {}], 1)
      op  == Read(machine, machine.pc)
      sub == Read(m, m.pc)
      p   == Skip(m, 1)
      ops == IF op = \h10 THEN Wide10 ELSE Wide11
  IN  IF op \notin {\h10, \h11} THEN FirstPage(m, op)
      ELSE IF op = \h10 /\ sub \in \h21 .. \h2F THEN Branch(p, sub, 2)
      ELSE IF IsWideOp(ops, sub) THEN WideOp(p, ops, sub)
      ELSE p
=============================================================================
