-------------------------------- MODULE Alu --------------------------------
(***************************************************************************)
(* The arithmetic of the MC6809 core (src/src/cpu.rs): what an instruction *)
(* makes of its operands and of the condition codes.                       *)
(*                                                                         *)
(* An operand of w bits is a number below 2^w; h is half that range (128   *)
(* in an 8-bit instruction, 32768 in a 16-bit one), so that v is negative  *)
(* as a signed number just when v >= h.  CC is the set of its bits that    *)
(* are 1.  An operator returns the result with the condition codes.        *)
(***************************************************************************)
EXTENDS Integers

Flag == {"E", "F", "H", "I", "N", "Z", "V", "C"}

Half8  == 128
Half16 == 32768

-----------------------------------------------------------------------------
(* Condition codes.                                                        *)

With(cc, f, on) == IF on THEN cc \cup {f} ELSE cc \ {f}

\* set_nz8 and set_nz16: N is the top bit.
set_nz(h, r, cc) == With(With(cc, "N", r >= h), "Z", r = 0)

\* The bit C as a number.
Carry(cc) == IF "C" \in cc THEN 1 ELSE 0

\* Fault: the number just past the range is taken for one in it.
WrapLate(h, n) == IF n < 0 THEN n + 2 * h ELSE IF n > 2 * h THEN n - 2 * h ELSE n

\* wrapping_add and wrapping_sub: the number of that width which n becomes.
Wrap(h, n) == IF n < 0 THEN n + 2 * h ELSE IF n >= 2 * h THEN n - 2 * h ELSE n

\* v as a signed number, h being half its range.
Signed(h, v) == IF v >= h THEN v - 2 * h ELSE v

\* The two numbers have different top bits.
Differ(h, p, q) == (p >= h) # (q >= h)

\* What the arithmetic instructions leave in CC: result, carry and overflow.
Arithmetic(h, r, carry, overflow, cc) ==
  With(With(set_nz(h, r, cc), "V", overflow), "C", carry)

Low(v) == v % 16

-----------------------------------------------------------------------------
(* Additions and subtractions.                                             *)

add16_flags(h, p, q, cc) ==
  LET sum == Wrap(h, p + q)
  IN  [value |-> sum,
       cc    |-> Arithmetic(h, sum, p + q >= 2 * h,
                            Differ(h, p, sum) /\ Differ(h, q, sum), cc)]

\* The 8-bit addition sets H besides.
add8_flags(h, p, q, cc) ==
  LET r == add16_flags(h, p, q, cc)
  IN  [r EXCEPT !.cc = With(@, "H", Low(p) + Low(q) > 15)]

\* The carry in is added in a second addition, and either may carry.
adc8_flags(h, p, q, cc) ==
  LET t   == Wrap(h, p + q)
      sum == Wrap(h, t + Carry(cc))
  IN  [value |-> sum,
       cc    |-> With(Arithmetic(h, sum,
                                 p + q >= 2 * h \/ t + Carry(cc) >= 2 * h,
                                 Differ(h, p, sum) /\ Differ(h, q, sum), cc),
                      "H", Low(p) + Low(q) + Carry(cc) > 15)]

\* C is the borrow, not its complement.
sub16_flags(h, p, q, cc) ==
  LET diff == Wrap(h, p - q)
  IN  [value |-> diff,
       cc    |-> Arithmetic(h, diff, p < q, Differ(h, p, q) /\ Differ(h, p, diff), cc)]

sub8_flags(h, p, q, cc) ==
  LET r == sub16_flags(h, p, q, cc)
  IN  [r EXCEPT !.cc = With(@, "H", Low(p) < Low(q))]

\* Fault: overflow is computed from the difference before the borrow.
SbcEarlyOverflow(h, p, q, cc) ==
  LET t    == Wrap(h, p - q)
      diff == Wrap(h, t - Carry(cc))
  IN  [value |-> diff,
       cc    |-> With(Arithmetic(h, diff, p < q \/ t < Carry(cc),
                                 Differ(h, p, q) /\ Differ(h, p, t), cc),
                      "H", Low(p) < Low(q) + Carry(cc))]

sbc8_flags(h, p, q, cc) ==
  LET t    == Wrap(h, p - q)
      diff == Wrap(h, t - Carry(cc))
  IN  [value |-> diff,
       cc    |-> With(Arithmetic(h, diff, p < q \/ t < Carry(cc),
                                 Differ(h, p, q) /\ Differ(h, p, diff), cc),
                      "H", Low(p) < Low(q) + Carry(cc))]

\* Loads, stores, TST and the logical instructions: no carry.
logic_nz_clearv(h, r, cc) == set_nz(h, r, cc) \ {"V"}

-----------------------------------------------------------------------------
(* Instructions with one operand, in an accumulator or in memory.          *)

Neg(h, v, cc) ==
  LET r == Wrap(h, 0 - v)
  IN  [value |-> r, cc |-> Arithmetic(h, r, v # 0, v = h, cc)]

Com(h, v, cc) ==
  LET r == 2 * h - 1 - v
  IN  [value |-> r, cc |-> Arithmetic(h, r, TRUE, FALSE, cc)]

Lsr(h, v, cc) ==
  LET r == v \div 2
  IN  [value |-> r, cc |-> Arithmetic(h, r, v % 2 = 1, FALSE, cc) \ {"N"}]

Ror(h, v, cc) ==
  LET r == v \div 2 + h * Carry(cc)
  IN  [value |-> r, cc |-> Arithmetic(h, r, v % 2 = 1, FALSE, cc)]

\* The top bit stays; V is left alone.
Asr(h, v, cc) ==
  LET r == v \div 2 + (IF v >= h THEN h ELSE 0)
  IN  [value |-> r, cc |-> With(set_nz(h, r, cc), "C", v % 2 = 1)]

\* Shift left with `in` as the new lowest bit; V is N xor C.
ShiftLeft(h, v, in, cc) ==
  LET r == Wrap(h, 2 * v) + in
  IN  [value |-> r, cc |-> Arithmetic(h, r, v >= h, (r >= h) # (v >= h), cc)]

Asl(h, v, cc) == ShiftLeft(h, v, 0, cc)
Rol(h, v, cc) == ShiftLeft(h, v, Carry(cc), cc)

\* INC and DEC leave C alone.
Inc(h, v, cc) ==
  LET r == Wrap(h, v + 1)
  IN  [value |-> r, cc |-> With(set_nz(h, r, cc), "V", v = h - 1)]

\* Fault: C tells of the borrow.
DecBorrows(h, v, cc) ==
  LET r == Wrap(h, v - 1)
  IN  [value |-> r, cc |-> Arithmetic(h, r, v = 0, v = h, cc)]

Dec(h, v, cc) ==
  LET r == Wrap(h, v - 1)
  IN  [value |-> r, cc |-> With(set_nz(h, r, cc), "V", v = h)]

Tst(h, v, cc) == [value |-> v, cc |-> logic_nz_clearv(h, v, cc)]

Clr(h, v, cc) == [value |-> 0, cc |-> Arithmetic(h, 0, FALSE, FALSE, cc)]

-----------------------------------------------------------------------------
(* Instructions that exist in 8 bits only.                                 *)

\* Fault: the high digit is corrected by itself, without looking at the low.
DaaIgnoresLow(v, cc) ==
  LET lo == Low(v)
      hi == v \div 16
      sum == v + (IF "H" \in cc \/ lo > 9 THEN 6 ELSE 0)
               + (IF "C" \in cc \/ hi > 9 THEN 96 ELSE 0)
  IN  [value |-> sum % 256,
       cc    |-> With(set_nz(Half8, sum % 256, cc), "C", "C" \in cc \/ sum >= 256)]

\* Each digit above nine, or that carried, is corrected; a correction of the
\* low digit can push the high one from nine to ten.  V is left alone.
Daa(v, cc) ==
  LET lo == Low(v)
      hi == v \div 16
      sum == v + (IF "H" \in cc \/ lo > 9 THEN 6 ELSE 0)
               + (IF "C" \in cc \/ hi > 9 \/ (hi >= 9 /\ lo > 9) THEN 96 ELSE 0)
  IN  [value |-> sum % 256,
       cc    |-> With(set_nz(Half8, sum % 256, cc), "C", "C" \in cc \/ sum >= 256)]

\* Sign of B into A.
Sex(b) == IF b >= Half8 THEN 255 ELSE 0

\* The product; C is the top bit of its low byte, for rounding.
Mul(p, q, cc) ==
  [value |-> p * q,
   cc    |-> With(With(cc, "Z", p * q = 0), "C", (p * q) % 256 >= Half8)]

-----------------------------------------------------------------------------
(* Branches.                                                               *)

\* BLT and its kin look at N xor V.
Less(cc) == ("N" \in cc) # ("V" \in cc)

cond_eval(branch, cc) ==
  CASE branch = "BRA" -> TRUE
    [] branch = "BRN" -> FALSE
    [] branch = "BHI" -> "C" \notin cc /\ "Z" \notin cc
    [] branch = "BLS" -> "C" \in cc \/ "Z" \in cc
    [] branch = "BCC" -> "C" \notin cc
    [] branch = "BCS" -> "C" \in cc
    [] branch = "BNE" -> "Z" \notin cc
    [] branch = "BEQ" -> "Z" \in cc
    [] branch = "BVC" -> "V" \notin cc
    [] branch = "BVS" -> "V" \in cc
    [] branch = "BPL" -> "N" \notin cc
    [] branch = "BMI" -> "N" \in cc
    [] branch = "BGE" -> ~ Less(cc)
    [] branch = "BLT" -> Less(cc)
    [] branch = "BGT" -> "Z" \notin cc /\ ~ Less(cc)
    [] branch = "BLE" -> "Z" \in cc \/ Less(cc)
=============================================================================
