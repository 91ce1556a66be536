-------------------------- MODULE MachineCodeProofs --------------------------
(***************************************************************************)
(* Two components that are about the instructions of the core.             *)
(*                                                                         *)
(* Arithmetic: the routines compute what is done on paper, for every width *)
(* of a byte, numbers of every length and every content.                   *)
(*                                                                         *)
(* Listing: whatever the program, the known starts are never stale, the    *)
(* disassembler agrees with the core on what an instruction is, and the    *)
(* window around PC is right.                                              *)
(***************************************************************************)
EXTENDS Arithmetic, Listing, WellFoundedInduction, FiniteSetTheorems, SequenceTheorems, TLAPS

-----------------------------------------------------------------------------
(* Condition codes.                                                        *)

\* With sets one flag and leaves the others.
LEMMA WithFlag ==
  ASSUME NEW c \in SUBSET Flag, NEW f \in Flag, NEW on \in BOOLEAN
  PROVE  /\ With(c, f, on) \in SUBSET Flag
         /\ f \in With(c, f, on) <=> on
         /\ \A g \in Flag \ {f} : g \in With(c, f, on) <=> g \in c
BY DEF With

\* set_nz sets N and Z by the result.
LEMMA SetNz ==
  ASSUME NEW h \in Nat \ {0}, NEW r \in 0 .. 2 * h - 1, NEW c \in SUBSET Flag
  PROVE  /\ set_nz(h, r, c) \in SUBSET Flag
         /\ "N" \in set_nz(h, r, c) <=> r >= h
         /\ "Z" \in set_nz(h, r, c) <=> r = 0
         /\ \A g \in Flag \ {"N", "Z"} : g \in set_nz(h, r, c) <=> g \in c
BY DEF set_nz, With, Flag

\* Loads and stores leave C and H alone.
LEMMA LogicFlags ==
  ASSUME NEW h \in Nat \ {0}, NEW r \in 0 .. 2 * h - 1, NEW c \in SUBSET Flag
  PROVE  /\ logic_nz_clearv(h, r, c) \in SUBSET Flag
         /\ "C" \in logic_nz_clearv(h, r, c) <=> "C" \in c
BY SetNz DEF logic_nz_clearv, Flag

\* What an arithmetic instruction sets.
LEMMA ArithmeticFlags ==
  ASSUME NEW h \in Nat \ {0}, NEW r \in 0 .. 2 * h - 1, NEW c \in SUBSET Flag,
         NEW carry \in BOOLEAN, NEW overflow \in BOOLEAN
  PROVE  LET new == Arithmetic(h, r, carry, overflow, c)
         IN  /\ new \in SUBSET Flag
             /\ "C" \in new <=> carry
             /\ "V" \in new <=> overflow
             /\ "N" \in new <=> r >= h
             /\ "Z" \in new <=> r = 0
BY SetNz DEF Arithmetic, With, Flag

LEMMA CarryValue ==
  ASSUME NEW c
  PROVE  Carry(c) \in 0 .. 1 /\ (Carry(c) = 1 <=> "C" \in c)
BY DEF Carry

LEMMA WrapRange ==
  ASSUME NEW h \in Nat \ {0}, NEW v \in (-2 * h) .. (4 * h - 1)
  PROVE  Wrap(h, v) \in 0 .. 2 * h - 1
BY DEF Wrap

-----------------------------------------------------------------------------
(* Single instructions: what goes in and what comes out, carry included.   *)

LEMMA HalfIsPositive == Half \in Nat \ {0}
BY ArithmeticAssumption

\* ADC: the sum with the carry in is the result with the carry out.
LEMMA AddWithCarry ==
  ASSUME NEW p \in Byte, NEW q \in Byte, NEW c \in SUBSET Flag
  PROVE  LET r == adc8_flags(Half, p, q, c)
         IN  /\ r.value \in Byte
             /\ r.cc \in SUBSET Flag
             /\ p + q + Carry(c) = r.value + (IF "C" \in r.cc THEN 2 * Half ELSE 0)
<1> DEFINE t     == Wrap(Half, p + q)
           sum   == Wrap(Half, t + Carry(c))
           carry == p + q >= 2 * Half \/ t + Carry(c) >= 2 * Half
           ovf   == Differ(Half, p, sum) /\ Differ(Half, q, sum)
           flags == Arithmetic(Half, sum, carry, ovf, c)
           half  == Low(p) + Low(q) + Carry(c) > 15
<1>1. t \in Byte /\ p + q = t + (IF p + q >= 2 * Half THEN 2 * Half ELSE 0)
  BY HalfIsPositive DEF Byte, Wrap
<1>2. sum \in Byte /\ t + Carry(c) = sum + (IF t + Carry(c) >= 2 * Half THEN 2 * Half ELSE 0)
  BY <1>1, HalfIsPositive, CarryValue DEF Byte, Wrap
<1>3. ~ (p + q >= 2 * Half /\ t + Carry(c) >= 2 * Half)
  BY <1>1, HalfIsPositive, CarryValue DEF Byte
<1>4. flags \in SUBSET Flag /\ ("C" \in flags <=> carry)
  <2> HIDE DEF sum, t
  <2>1. carry \in BOOLEAN /\ ovf \in BOOLEAN
    BY DEF Differ
  <2> HIDE DEF carry, ovf
  <2> QED BY <1>2, <2>1, HalfIsPositive, ArithmeticFlags DEF Byte
<1>5. With(flags, "H", half) \in SUBSET Flag
      /\ ("C" \in With(flags, "H", half) <=> carry)
  <2> HIDE DEF carry, flags, half
  <2> QED BY <1>4 DEF With, Flag
<1>6. adc8_flags(Half, p, q, c) = [value |-> sum, cc |-> With(flags, "H", half)]
  BY DEF adc8_flags
<1> HIDE DEF sum, t, carry, flags, half
<1>7. p + q + Carry(c) = sum + (IF carry THEN 2 * Half ELSE 0)
  BY <1>1, <1>2, <1>3, HalfIsPositive, CarryValue DEF Byte, carry
<1> QED BY <1>2, <1>5, <1>6, <1>7

\* And H is the carry out of the low digit.
LEMMA AddHalfCarry ==
  ASSUME NEW p \in Byte, NEW q \in Byte, NEW c \in SUBSET Flag
  PROVE  "H" \in adc8_flags(Half, p, q, c).cc <=> Low(p) + Low(q) + Carry(c) > 15
<1> DEFINE half == Low(p) + Low(q) + Carry(c) > 15
<1>1. PICK flags : adc8_flags(Half, p, q, c).cc = With(flags, "H", half)
  BY DEF adc8_flags
<1> HIDE DEF half
<1>2. "H" \in With(flags, "H", half) <=> half
  BY DEF With
<1> QED BY <1>1, <1>2 DEF half

\* What ADCA leaves to DAA: v and the codes c are the sum of p, q and i.
BinarySum(p, q, i, v, c) ==
  /\ p + q + i = v + (IF "C" \in c THEN 256 ELSE 0)
  /\ "H" \in c <=> Low(p) + Low(q) + i > 15

\* What DAA makes of it.
DecimalSum(p, q, i, v, c) ==
  Decimal(p) + Decimal(q) + i = Decimal(v) + (IF "C" \in c THEN 100 ELSE 0)

\* DAA after ADCA of two bytes of decimal digits: a byte of decimal digits again, their
\* sum, with the decimal carry.
LEMMA Adjusts ==
  ASSUME NEW p \in Digits, NEW q \in Digits, NEW i \in 0 .. 1,
         NEW v \in 0 .. 255, NEW c \in SUBSET Flag, BinarySum(p, q, i, v, c)
  PROVE  LET r == Daa(v, c)
         IN  /\ r.value \in Digits
             /\ r.cc \in SUBSET Flag
             /\ DecimalSum(p, q, i, r.value, r.cc)
<1> DEFINE lo  == Low(p) + Low(q) + i
           hi  == p \div 16 + q \div 16
           six == "H" \in c \/ Low(v) > 9
           top == "C" \in c \/ v \div 16 > 9 \/ (v \div 16 >= 9 /\ Low(v) > 9)
           sum == v + (IF six THEN 6 ELSE 0) + (IF top THEN 96 ELSE 0)
           out == "C" \in c \/ sum >= 256
           new == With(set_nz(Half8, sum % 256, c), "C", out)
           units == IF lo > 9 THEN lo - 10 ELSE lo
           tens  == hi + (IF lo > 9 THEN 1 ELSE 0)
<1> USE DEF BinarySum
<1>1. lo \in 0 .. 19 /\ hi \in 0 .. 18 /\ p + q + i = 16 * hi + lo
  BY DEF Digits, Low
<1>2. Decimal(p) + Decimal(q) + i = 10 * hi + lo
  BY DEF Decimal, Low, Digits
<1> HIDE DEF lo, hi
<1>3. six <=> lo > 9
  <2>1. CASE lo > 15
    <3>1. "H" \in c
      BY <2>1 DEF lo
    <3> QED BY <1>1, <2>1, <3>1
  <2>2. CASE lo <= 15
    <3>1. Low(v) = lo
      BY <1>1, <2>2 DEF Low
    <3> QED BY <2>2, <3>1, <1>1 DEF lo
  <2> QED BY <2>1, <2>2, <1>1
<1>4. top <=> tens > 9
  <2>1. CASE "C" \in c
    BY <1>1, <2>1
  <2>2. CASE "C" \notin c /\ lo > 15
    <3>1. v \div 16 = hi + 1 /\ Low(v) = lo - 16
      BY <1>1, <2>2 DEF Low
    <3> QED BY <1>1, <2>2, <3>1
  <2>3. CASE "C" \notin c /\ lo <= 15
    <3>1. v \div 16 = hi /\ Low(v) = lo
      BY <1>1, <2>3 DEF Low
    <3> QED BY <1>1, <2>3, <3>1
  <2> QED BY <1>1, <2>1, <2>2, <2>3
<1> HIDE DEF six, top
<1>5. /\ units \in 0 .. 9
      /\ tens \in 0 .. 19
      /\ v + (IF six THEN 6 ELSE 0) + (IF "C" \in c THEN 256 ELSE 0) = 16 * tens + units
      /\ 10 * hi + lo = 10 * tens + units
  BY <1>1, <1>3
<1> HIDE DEF units, tens
<1>6. /\ out <=> tens > 9
      /\ sum % 256 = 16 * (IF tens > 9 THEN tens - 10 ELSE tens) + units
  BY <1>4, <1>5
<1> HIDE DEF sum, out
<1>7. /\ sum % 256 \in 0 .. 255
      /\ Low(sum % 256) = units
      /\ (sum % 256) \div 16 = IF tens > 9 THEN tens - 10 ELSE tens
  BY <1>5, <1>6 DEF Low
<1>8. sum % 256 \in Digits
      /\ Decimal(sum % 256) + (IF out THEN 100 ELSE 0) = 10 * tens + units
  <2>1. Low(sum % 256) <= 9 /\ (sum % 256) \div 16 <= 9
    BY <1>5, <1>7
  <2>2. Decimal(sum % 256) = 10 * (IF tens > 9 THEN tens - 10 ELSE tens) + units
    BY <1>7 DEF Decimal
  <2> QED BY <1>5, <1>6, <1>7, <2>1, <2>2 DEF Digits
<1>9. new \in SUBSET Flag /\ ("C" \in new <=> out)
  BY DEF With, set_nz, Flag
<1>10. Daa(v, c) = [value |-> sum % 256, cc |-> new]
  BY DEF Daa, sum, six, top, out
<1> HIDE DEF new
<1> QED BY <1>2, <1>5, <1>8, <1>9, <1>10 DEF DecimalSum

\* SBC: likewise, with the borrow; and BLT looks at the signed comparison.
LEMMA SubtractWithCarry ==
  ASSUME NEW p \in Byte, NEW q \in Byte, NEW c \in SUBSET Flag
  PROVE  LET r == sbc8_flags(Half, p, q, c)
         IN  /\ r.value \in Byte
             /\ r.cc \in SUBSET Flag
             /\ r.value + q + Carry(c) = p + (IF "C" \in r.cc THEN 2 * Half ELSE 0)
             /\ Less(r.cc) <=> Signed(Half, p) < Signed(Half, q) + Carry(c)
<1> DEFINE t      == Wrap(Half, p - q)
           diff   == Wrap(Half, t - Carry(c))
           borrow == p < q \/ t < Carry(c)
           ovf    == Differ(Half, p, q) /\ Differ(Half, p, diff)
           flags  == Arithmetic(Half, diff, borrow, ovf, c)
           half   == Low(p) < Low(q) + Carry(c)
<1>1. t \in Byte /\ t + q = p + (IF p < q THEN 2 * Half ELSE 0)
  BY HalfIsPositive DEF Byte, Wrap
<1>2. diff \in Byte /\ diff + Carry(c) = t + (IF t < Carry(c) THEN 2 * Half ELSE 0)
  BY <1>1, HalfIsPositive, CarryValue DEF Byte, Wrap
<1>3. ~ (p < q /\ t < Carry(c))
  BY <1>1, HalfIsPositive, CarryValue DEF Byte
<1>4. /\ flags \in SUBSET Flag
      /\ "C" \in flags <=> borrow
      /\ "V" \in flags <=> ovf
      /\ "N" \in flags <=> diff >= Half
  <2> HIDE DEF diff, t
  <2>1. borrow \in BOOLEAN /\ ovf \in BOOLEAN
    BY DEF Differ
  <2> HIDE DEF borrow, ovf
  <2> QED BY <1>2, <2>1, HalfIsPositive, ArithmeticFlags DEF Byte
<1>5. /\ With(flags, "H", half) \in SUBSET Flag
      /\ "C" \in With(flags, "H", half) <=> borrow
      /\ "V" \in With(flags, "H", half) <=> ovf
      /\ "N" \in With(flags, "H", half) <=> diff >= Half
  <2> HIDE DEF borrow, ovf, diff, flags, half
  <2> QED BY <1>4 DEF With, Flag
<1>6. sbc8_flags(Half, p, q, c) = [value |-> diff, cc |-> With(flags, "H", half)]
  BY DEF sbc8_flags
<1> HIDE DEF diff, t, borrow, flags, half
<1>7. diff + q + Carry(c) = p + (IF borrow THEN 2 * Half ELSE 0)
  BY <1>1, <1>2, <1>3, HalfIsPositive, CarryValue DEF Byte, borrow
<1>8. ((diff >= Half) # ovf) <=> Signed(Half, p) < Signed(Half, q) + Carry(c)
  <2>1. diff + q + Carry(c) = p \/ diff + q + Carry(c) = p + 2 * Half
    BY <1>2, <1>7, HalfIsPositive, CarryValue DEF Byte
  <2> QED BY <2>1, <1>2, HalfIsPositive, CarryValue DEF Byte, Signed, Differ
<1>9. Less(With(flags, "H", half)) <=> ((diff >= Half) # ovf)
  <2>1. ovf \in BOOLEAN
    BY DEF Differ
  <2> HIDE DEF ovf
  <2> QED BY <1>5, <2>1 DEF Less
<1> HIDE DEF ovf
<1> QED BY <1>2, <1>5, <1>6, <1>7, <1>8, <1>9

\* CMP: the flags by which branches compare.
LEMMA Compares ==
  ASSUME NEW p \in Byte, NEW q \in Byte, NEW c \in SUBSET Flag
  PROVE  LET new == sub8_flags(Half, p, q, c).cc
         IN  /\ new \in SUBSET Flag
             /\ "C" \in new <=> p < q
             /\ "Z" \in new <=> p = q
             /\ Less(new) <=> Signed(Half, p) < Signed(Half, q)
<1> DEFINE diff  == Wrap(Half, p - q)
           ovf   == Differ(Half, p, q) /\ Differ(Half, p, diff)
           flags == Arithmetic(Half, diff, p < q, ovf, c)
           half  == Low(p) < Low(q)
           new   == With(flags, "H", half)
<1>1. diff \in Byte /\ diff + q = p + (IF p < q THEN 2 * Half ELSE 0)
  BY HalfIsPositive DEF Byte, Wrap
<1>2. /\ flags \in SUBSET Flag
      /\ "C" \in flags <=> p < q
      /\ "V" \in flags <=> ovf
      /\ "N" \in flags <=> diff >= Half
      /\ "Z" \in flags <=> diff = 0
  <2> HIDE DEF diff
  <2>1. ovf \in BOOLEAN /\ (p < q) \in BOOLEAN
    BY DEF Differ
  <2> HIDE DEF ovf
  <2> QED BY <1>1, <2>1, HalfIsPositive, ArithmeticFlags DEF Byte
<1>3. /\ new \in SUBSET Flag
      /\ "C" \in new <=> p < q
      /\ "V" \in new <=> ovf
      /\ "N" \in new <=> diff >= Half
      /\ "Z" \in new <=> diff = 0
  <2> HIDE DEF ovf, diff, flags, half
  <2> QED BY <1>2 DEF With, Flag
<1>4. sub8_flags(Half, p, q, c).cc = new
  BY DEF sub8_flags, sub16_flags
<1> HIDE DEF diff, flags, new
<1>5. ((diff >= Half) # ovf) <=> Signed(Half, p) < Signed(Half, q)
  BY <1>1, HalfIsPositive DEF Byte, Signed, Differ
<1>6. Less(new) <=> ((diff >= Half) # ovf)
  <2>1. ovf \in BOOLEAN
    BY DEF Differ
  <2> HIDE DEF ovf
  <2> QED BY <1>3, <2>1 DEF Less
<1>7. diff = 0 <=> p = q
  BY <1>1, HalfIsPositive DEF Byte
<1> QED BY <1>3, <1>4, <1>5, <1>6, <1>7

\* ROL: C comes in at the bottom and goes out at the top.
LEMMA RotatesLeft ==
  ASSUME NEW v \in Byte, NEW c \in SUBSET Flag
  PROVE  LET r == Rol(Half, v, c)
         IN  /\ r.value \in Byte
             /\ r.cc \in SUBSET Flag
             /\ 2 * v + Carry(c) = r.value + (IF "C" \in r.cc THEN 2 * Half ELSE 0)
<1> DEFINE r   == Wrap(Half, 2 * v) + Carry(c)
           out == v >= Half
           ovf == (r >= Half) # out
           new == Arithmetic(Half, r, out, ovf, c)
<1>1. r \in Byte /\ 2 * v + Carry(c) = r + (IF out THEN 2 * Half ELSE 0)
  BY HalfIsPositive, CarryValue DEF Byte, Wrap
<1>2. new \in SUBSET Flag /\ ("C" \in new <=> out)
  <2> HIDE DEF r
  <2>1. out \in BOOLEAN /\ ovf \in BOOLEAN
    OBVIOUS
  <2> HIDE DEF out, ovf
  <2> QED BY <1>1, <2>1, HalfIsPositive, ArithmeticFlags DEF Byte
<1>3. Rol(Half, v, c) = [value |-> r, cc |-> new]
  BY DEF Rol, ShiftLeft
<1> HIDE DEF r, out, new
<1> QED BY <1>1, <1>2, <1>3

\* ROR: C comes in at the top and goes out at the bottom.
LEMMA RotatesRight ==
  ASSUME NEW v \in Byte, NEW c \in SUBSET Flag
  PROVE  LET r == Ror(Half, v, c)
         IN  /\ r.value \in Byte
             /\ r.cc \in SUBSET Flag
             /\ v + (IF "C" \in c THEN 2 * Half ELSE 0)
                  = 2 * r.value + (IF "C" \in r.cc THEN 1 ELSE 0)
<1> DEFINE r   == v \div 2 + Half * Carry(c)
           out == v % 2 = 1
           new == Arithmetic(Half, r, out, FALSE, c)
<1>1. Half * Carry(c) = IF "C" \in c THEN Half ELSE 0
  BY HalfIsPositive DEF Carry
<1>2. r \in Byte /\ v + (IF "C" \in c THEN 2 * Half ELSE 0) = 2 * r + (IF out THEN 1 ELSE 0)
  BY <1>1, HalfIsPositive DEF Byte
<1>3. new \in SUBSET Flag /\ ("C" \in new <=> out)
  <2> HIDE DEF r
  <2>1. out \in BOOLEAN
    OBVIOUS
  <2> HIDE DEF out
  <2> QED BY <1>2, <2>1, HalfIsPositive, ArithmeticFlags DEF Byte
<1>4. Ror(Half, v, c) = [value |-> r, cc |-> new]
  BY DEF Ror
<1> HIDE DEF r, out, new
<1> QED BY <1>2, <1>3, <1>4

\* INC: the result is zero just when the byte wraps.
LEMMA Increments ==
  ASSUME NEW v \in Byte, NEW c \in SUBSET Flag
  PROVE  LET r == Inc(Half, v, c)
         IN  /\ r.value \in Byte
             /\ r.cc \in SUBSET Flag
             /\ v + 1 = r.value + (IF "Z" \in r.cc THEN 2 * Half ELSE 0)
<1> DEFINE r == Wrap(Half, v + 1)
<1>1. r \in Byte /\ v + 1 = r + (IF r = 0 THEN 2 * Half ELSE 0)
  BY HalfIsPositive DEF Byte, Wrap
<1> HIDE DEF r
<1>2. set_nz(Half, r, c) \in SUBSET Flag /\ ("Z" \in set_nz(Half, r, c) <=> r = 0)
  BY <1>1, HalfIsPositive, SetNz DEF Byte
<1>3. Inc(Half, v, c) = [value |-> r, cc |-> With(set_nz(Half, r, c), "V", v = Half - 1)]
  BY DEF Inc, r
<1> QED BY <1>1, <1>2, <1>3 DEF With, Flag

\* DEC of a count that is not zero: Z tells of the last round, C is left alone.
LEMMA CountsDown ==
  ASSUME NEW v \in 1 .. 2 * Half - 1, NEW c \in SUBSET Flag
  PROVE  LET r == Dec(Half, v, c)
         IN  /\ r.value = v - 1
             /\ r.cc \in SUBSET Flag
             /\ "Z" \in r.cc <=> v = 1
             /\ "C" \in r.cc <=> "C" \in c
<1> DEFINE r == Wrap(Half, v - 1)
<1>1. r \in Byte /\ r = v - 1
  BY HalfIsPositive DEF Byte, Wrap
<1> HIDE DEF r
<1>2. /\ set_nz(Half, r, c) \in SUBSET Flag
      /\ "Z" \in set_nz(Half, r, c) <=> v = 1
      /\ "C" \in set_nz(Half, r, c) <=> "C" \in c
  BY <1>1, HalfIsPositive, SetNz DEF Byte, Flag
<1>3. Dec(Half, v, c) = [value |-> r, cc |-> With(set_nz(Half, r, c), "V", v = Half)]
  BY DEF Dec, r
<1> QED BY <1>1, <1>2, <1>3 DEF With, Flag

-----------------------------------------------------------------------------
(* The inductive invariant of the loops.                                   *)

\* The columns behind the one in hand.
Passed == {j \in 1 .. n : IF job = "right" THEN j > left ELSE j <= n - left}

\* The columns whose bytes are as they shall be.
Stored == CASE at = "done"               -> 1 .. n
            [] at \in {"carry", "count"} -> Passed \cup {Here}
            [] OTHER                     -> Passed

\* The carries into and out of the column in hand, and the last one that is known.
CarryIn  == IF job = "right" THEN left ELSE n - left
CarryOut == IF job = "right" THEN left - 1 ELSE n - left + 1
Known    == IF at \in {"carry", "store", "count"} THEN CarryOut ELSE CarryIn

Settles(carry, j, z) ==
  IF job = "decimal" THEN DecimalColumn(carry, j, z) ELSE Column(carry, j, z)

\* Where the carry is: in C, and in INC's chain in the fact that it goes on.
Carries(carry) ==
  CASE job = "inc" -> /\ at \in {"work", "count", "loop"} => Known \in carry
                      /\ at = "carry" => ("Z" \in cc <=> Known \in carry)
    [] job # "inc" -> at # "adjust" => ("C" \in cc <=> Known \in carry)

Chain(carry) ==
  /\ Enters(carry)
  /\ \A j \in Stored : Settles(carry, j, zs[j])
  /\ at = "store" => Settles(carry, Here, a)
  /\ at = "adjust" => BinarySum(xs[Here], ys[Here], In(carry, Here - 1), a, cc)
  /\ Carries(carry)

ChainInv ==
  (job \notin {"compare", "cmp"} /\ at # "start") =>
    \E carry \in SUBSET (0 .. n) : Chain(carry)

\* Signed order of the numbers formed by the lowest k bytes.
SignedBelowTo(k) ==
  Signed(Half, xs[k]) < Signed(Half, ys[k]) \/ (xs[k] = ys[k] /\ Below(k - 1))

CompareInv ==
  /\ (job = "compare" /\ at \in {"load", "work", "loop", "done"}) =>
       ("C" \in cc <=> Below(n - left))
  /\ (job = "compare" /\ at \in {"loop", "done"}) =>
       (Less(cc) <=> SignedBelowTo(n - left))
  /\ (job = "compare" /\ at = "count") =>
       /\ "C" \in cc <=> Below(n - left + 1)
       /\ Less(cc) <=> SignedBelowTo(n - left + 1)
  /\ (job = "cmp" /\ at = "done") =>
       /\ "C" \in cc <=> xs[1] < ys[1]
       /\ "Z" \in cc <=> xs[1] = ys[1]
       /\ Less(cc) <=> Signed(Half, xs[1]) < Signed(Half, ys[1])

\* Which instructions a routine has, and what the registers are for.
LoopInv ==
  /\ at = "start" => job \notin {"cmp", "inc"} /\ left = n
  /\ at = "load" => job \notin InPlace
  /\ at = "adjust" => job = "decimal"
  /\ at = "carry" => job = "inc"
  /\ at = "store" => job \in {"add", "sub", "decimal"}
  /\ at \notin {"loop", "done"} => left # 0
  /\ at = "loop" => left # n /\ ("Z" \in cc <=> left = 0)
  /\ (at = "done" /\ job \notin {"cmp", "inc"}) => left = 0
  /\ job = "cmp" => left = n /\ at \in {"load", "work", "done"}
  /\ (at = "work" /\ job \notin InPlace) => a = xs[Here]
  /\ \A j \in (1 .. n) \ Stored : zs[j] = xs[j]
  /\ job \in {"compare", "cmp"} => zs = xs
  /\ job = "decimal" => \A j \in 1 .. n : xs[j] \in Digits /\ ys[j] \in Digits

IInv == TypeOK /\ LoopInv /\ ChainInv /\ CompareInv

-----------------------------------------------------------------------------
(* The columns.                                                            *)

\* Where the column in hand stands among the others.
LEMMA Hand ==
  ASSUME TypeOK, left # 0
  PROVE  /\ Here \in 1 .. n /\ Here \notin Passed /\ Passed \subseteq 1 .. n
         /\ CarryIn \in 0 .. n /\ CarryOut \in 0 .. n /\ CarryIn # CarryOut
         /\ job = "right" => CarryIn = Here /\ CarryOut = Here - 1
         /\ job # "right" => CarryIn = Here - 1 /\ CarryOut = Here
BY DEF TypeOK, Here, Passed, CarryIn, CarryOut

\* One more byte on top decides, unless its two are equal.
LEMMA BelowGrows ==
  ASSUME TypeOK, NEW k \in 1 .. n
  PROVE  Below(k) <=> xs[k] < ys[k] \/ (xs[k] = ys[k] /\ Below(k - 1))
<1>1. \A j \in 1 .. n : xs[j] \in Int /\ ys[j] \in Int
  BY HalfIsPositive DEF TypeOK, Byte
<1>2. ASSUME Below(k)
      PROVE  xs[k] < ys[k] \/ (xs[k] = ys[k] /\ Below(k - 1))
  <2>1. PICK j \in 1 .. k : xs[j] < ys[j] /\ \A i \in j + 1 .. k : xs[i] = ys[i]
    BY <1>2 DEF Below
  <2>2. CASE j = k
    BY <2>1, <2>2
  <2>3. CASE j < k
    BY <2>1, <2>3 DEF TypeOK, Below
  <2> QED BY <2>1, <2>2, <2>3 DEF TypeOK
<1>3. ASSUME xs[k] < ys[k]
      PROVE  Below(k)
  BY <1>3 DEF Below, TypeOK
<1>4. ASSUME xs[k] = ys[k], Below(k - 1)
      PROVE  Below(k)
  <2>1. PICK j \in 1 .. k - 1 : xs[j] < ys[j] /\ \A i \in j + 1 .. k - 1 : xs[i] = ys[i]
    BY <1>4 DEF Below
  <2> QED BY <1>4, <2>1 DEF TypeOK, Below
<1> QED BY <1>2, <1>3, <1>4

\* The numbers a routine is given stay, and what is claimed of them.
LEMMA GivenStays ==
  ASSUME UNCHANGED given, job \notin {"compare", "cmp"}
  PROVE  \A carry \in SUBSET (0 .. n) :
           /\ Enters(carry)' <=> Enters(carry)
           /\ \A j, z : Settles(carry, j, z)' <=> Settles(carry, j, z)
BY DEF given, Enters, Settles, Column, DecimalColumn

\* Settling the carry out of the column in hand disturbs no column behind it.
LEMMA Extend ==
  ASSUME TypeOK, left # 0, job \notin {"compare", "cmp"}, NEW carry \in SUBSET (0 .. n)
  PROVE  \A out \in BOOLEAN : \E new \in SUBSET (0 .. n) :
           /\ Enters(carry) => Enters(new)
           /\ \A j \in Passed : \A z : Settles(carry, j, z) => Settles(new, j, z)
           /\ CarryOut \in new <=> out
           /\ CarryIn \in new <=> CarryIn \in carry
<1> SUFFICES ASSUME NEW out \in BOOLEAN
             PROVE  \E new \in SUBSET (0 .. n) :
                      /\ Enters(carry) => Enters(new)
                      /\ \A j \in Passed : \A z : Settles(carry, j, z) => Settles(new, j, z)
                      /\ CarryOut \in new <=> out
                      /\ CarryIn \in new <=> CarryIn \in carry
  OBVIOUS
<1> DEFINE new == IF out THEN carry \cup {CarryOut} ELSE carry \ {CarryOut}
<1>1. /\ new \in SUBSET (0 .. n)
      /\ CarryOut \in new <=> out
      /\ CarryIn \in new <=> CarryIn \in carry
  BY Hand
<1>2. Enters(carry) => Enters(new)
  BY DEF Enters, TypeOK, CarryOut
<1>3. ASSUME NEW j \in Passed, NEW z, Settles(carry, j, z)
      PROVE  Settles(new, j, z)
  <2>1. (j \in new <=> j \in carry) /\ (j - 1 \in new <=> j - 1 \in carry)
    BY DEF Passed, CarryOut, TypeOK
  <2>2. In(new, j - 1) = In(carry, j - 1) /\ Out(new, j) = Out(carry, j)
    BY <2>1 DEF In, Out
  <2> HIDE DEF new
  <2> QED BY <1>3, <2>1, <2>2 DEF Settles, Column, DecimalColumn
<1> HIDE DEF new
<1> QED BY <1>1, <1>2, <1>3

-----------------------------------------------------------------------------
(* Every instruction keeps the invariant.                                  *)

LEMMA InitKeeps ==
  ASSUME Init
  PROVE  IInv
<1>1. TypeOK
  <2>1. n \in 1 .. MaxBytes /\ n = left /\ job \in Jobs /\ cc \subseteq Flag
    BY ArithmeticAssumption DEF Init
  <2>2. xs \in [1 .. n -> Byte] /\ ys \in [1 .. n -> Byte]
    BY ArithmeticAssumption DEF Init, IsNumber
  <2>3. a \in Byte
    BY HalfIsPositive DEF Init, Byte
  <2> QED BY <2>1, <2>2, <2>3 DEF Init, TypeOK, Again
<1>2. Passed = {} /\ Stored = {}
  BY <1>1 DEF Init, TypeOK, Passed, Stored, Again
<1>3. LoopInv
  BY <1>1, <1>2, ArithmeticAssumption DEF Init, TypeOK, LoopInv, Again, InPlace
<1>4. ChainInv
  <2> SUFFICES ASSUME job \notin {"compare", "cmp"}, at # "start"
               PROVE  \E carry \in SUBSET (0 .. n) : Chain(carry)
    BY DEF ChainInv
  <2>1. job = "inc" /\ at = "work" /\ {0} \in SUBSET (0 .. n) /\ Known = 0
    BY <1>1 DEF Init, Again, InPlace, TypeOK, Known, CarryIn
  <2>2. Chain({0})
    BY <1>2, <2>1 DEF Chain, Enters, Carries
  <2> QED BY <2>1, <2>2
<1>5. CompareInv
  BY DEF Init, CompareInv, Again, InPlace
<1> QED BY <1>1, <1>3, <1>4, <1>5 DEF IInv

LEMMA ClearCarryKeeps ==
  ASSUME IInv, ClearCarry
  PROVE  IInv'
<1> USE DEF IInv
<1>1. TypeOK'
  BY DEF TypeOK, ClearCarry, Again, given
<1>2. Passed' = {} /\ Stored' = {}
  BY DEF TypeOK, LoopInv, ClearCarry, given, Again, Passed, Stored
<1>3. LoopInv'
  BY <1>2 DEF TypeOK, LoopInv, ClearCarry, given, Again, InPlace, Stored, Passed
<1>4. ChainInv'
  <2> SUFFICES ASSUME job' \notin {"compare", "cmp"}
               PROVE  \E carry \in SUBSET (0 .. n') : Chain(carry)'
    BY DEF ChainInv
  <2>1. job # "inc" /\ at' \in {"load", "work"} /\ job' = job
    BY DEF LoopInv, ClearCarry, Again, given
  <2>2. Enters({})' /\ Carries({})'
    BY <2>1 DEF Enters, Carries, ClearCarry
  <2>3. Chain({})'
    BY <1>2, <2>1, <2>2 DEF Chain
  <2> QED BY <2>3
<1>5. CompareInv'
  <2>1. at' \in {"load", "work"} /\ left' = n' /\ "C" \notin cc'
    BY DEF LoopInv, ClearCarry, Again, given
  <2>2. ~ Below(0)'
    BY DEF Below
  <2> QED BY <1>1, <2>1, <2>2 DEF CompareInv, TypeOK
<1> QED BY <1>1, <1>3, <1>4, <1>5

LEMMA LoadKeeps ==
  ASSUME IInv, Load
  PROVE  IInv'
<1> USE DEF IInv
<1>1. left # 0 /\ Here \in 1 .. n /\ Here \notin Passed /\ zs[Here] \in Byte /\ zs[Here] = xs[Here]
  BY Hand DEF LoopInv, Load, TypeOK, Stored
<1>2. cc' \subseteq Flag /\ ("C" \in cc' <=> "C" \in cc)
  BY <1>1, LogicFlags, HalfIsPositive DEF Load, Byte, TypeOK
<1>3. TypeOK'
  BY <1>1, <1>2 DEF TypeOK, Load, given
<1>4. Passed' = Passed /\ Stored' = Stored /\ Here' = Here /\ Known' = Known /\ job' = job
  BY DEF Passed, Stored, Here, Known, CarryIn, Load, given
<1>5. LoopInv'
  BY <1>1, <1>4 DEF LoopInv, Load, given, InPlace
<1>6. ChainInv'
  <2> SUFFICES ASSUME job' \notin {"compare", "cmp"}
               PROVE  \E carry \in SUBSET (0 .. n') : Chain(carry)'
    BY DEF ChainInv
  <2>1. PICK carry \in SUBSET (0 .. n) : Chain(carry)
    BY <1>4 DEF ChainInv, Load
  <2>2. Carries(carry)'
    BY <1>2, <1>4, <2>1 DEF Chain, Carries, Load, LoopInv, InPlace
  <2>3. Chain(carry)'
    BY <1>4, <2>1, <2>2, GivenStays DEF Chain, Load
  <2> QED BY <2>3 DEF Load, given
<1>7. CompareInv'
  BY <1>2 DEF CompareInv, Load, given, Below
<1> QED BY <1>3, <1>5, <1>6, <1>7

LEMMA AddInKeeps ==
  ASSUME IInv, AddIn
  PROVE  IInv'
<1> USE DEF IInv
<1> DEFINE r == adc8_flags(Half, a, ys[Here], cc)
<1>1. left # 0 /\ Here \in 1 .. n /\ ys[Here] \in Byte /\ a \in Byte /\ a = xs[Here] /\ cc \in SUBSET Flag
  BY Hand DEF LoopInv, AddIn, TypeOK, InPlace
<1>2. /\ r.value \in Byte
      /\ r.cc \in SUBSET Flag
      /\ xs[Here] + ys[Here] + Carry(cc) = r.value + (IF "C" \in r.cc THEN 2 * Half ELSE 0)
  BY <1>1, AddWithCarry
<1>3. job = "decimal" => ("H" \in r.cc <=> Low(xs[Here]) + Low(ys[Here]) + Carry(cc) > 15)
  BY <1>1, AddHalfCarry
<1>4. a' = r.value /\ cc' = r.cc
  BY DEF AddIn
<1> HIDE DEF r
<1>5. TypeOK'
  BY <1>2, <1>4 DEF TypeOK, AddIn, given
<1>6. Passed' = Passed /\ Stored' = Passed /\ Stored = Passed /\ Here' = Here /\ CarryOut' = CarryOut
  BY DEF Passed, Stored, Here, CarryOut, AddIn, given
<1>7. LoopInv'
  BY <1>1, <1>6 DEF LoopInv, AddIn, given, InPlace
<1>8. ChainInv'
  <2>1. PICK carry \in SUBSET (0 .. n) : Chain(carry)
    BY DEF ChainInv, AddIn
  <2>2. Carry(cc) = In(carry, Here - 1)
    BY <2>1, <1>1, Hand DEF Chain, Carries, AddIn, Known, Carry, In
  <2>3. CASE job = "add"
    <3>1. PICK new \in SUBSET (0 .. n) :
            /\ Enters(carry) => Enters(new)
            /\ \A j \in Passed : \A z : Settles(carry, j, z) => Settles(new, j, z)
            /\ CarryOut \in new <=> "C" \in r.cc
            /\ CarryIn \in new <=> CarryIn \in carry
      <4>1. ("C" \in r.cc) \in BOOLEAN
        OBVIOUS
      <4> QED BY <1>1, <2>3, <4>1, Extend
    <3>2. Enters(new) /\ \A j \in Passed : Settles(new, j, zs[j])
      BY <1>6, <2>1, <3>1 DEF Chain
    <3>3. In(new, Here - 1) = In(carry, Here - 1)
          /\ Out(new, Here) = IF "C" \in r.cc THEN 2 * Half ELSE 0
      BY <1>1, <2>3, <3>1, Hand DEF In, Out
    <3>4. Column(new, Here, r.value)
      BY <1>2, <2>2, <2>3, <3>3 DEF Column
    <3>5. Carries(new)'
      BY <1>4, <1>6, <2>3, <3>1 DEF Carries, AddIn, Known, given
    <3>6. Settles(new, Here, r.value)
      BY <2>3, <3>4 DEF Settles
    <3>7. Chain(new)'
      BY <1>4, <1>6, <2>3, <3>2, <3>5, <3>6, GivenStays DEF Chain, AddIn
    <3> QED BY <3>1, <3>7 DEF ChainInv, AddIn, given
  <2>4. CASE job = "decimal"
    <3>1. BinarySum(xs[Here], ys[Here], In(carry, Here - 1), a, cc)'
      BY <1>2, <1>3, <1>4, <1>6, <2>2, <2>4, ArithmeticAssumption
      DEF BinarySum, AddIn, given, In, TypeOK, Half8
    <3>2. Carries(carry)'
      BY <2>4 DEF Carries, AddIn, given
    <3>3. Chain(carry)'
      BY <1>6, <2>1, <2>4, <3>1, <3>2, GivenStays DEF Chain, AddIn
    <3> QED BY <3>3 DEF ChainInv, AddIn, given
  <2> QED BY <2>3, <2>4 DEF AddIn
<1>9. CompareInv'
  BY DEF CompareInv, AddIn, given
<1> QED BY <1>5, <1>7, <1>8, <1>9

LEMMA TakeAwayKeeps ==
  ASSUME IInv, TakeAway
  PROVE  IInv'
<1> USE DEF IInv
<1> DEFINE r == sbc8_flags(Half, a, ys[Here], cc)
<1>1. left # 0 /\ Here \in 1 .. n /\ ys[Here] \in Byte /\ a \in Byte /\ a = xs[Here] /\ cc \in SUBSET Flag
  BY Hand DEF LoopInv, TakeAway, TypeOK, InPlace
<1>2. /\ r.value \in Byte
      /\ r.cc \in SUBSET Flag
      /\ r.value + ys[Here] + Carry(cc) = xs[Here] + (IF "C" \in r.cc THEN 2 * Half ELSE 0)
      /\ Less(r.cc) <=> Signed(Half, xs[Here]) < Signed(Half, ys[Here]) + Carry(cc)
  BY <1>1, SubtractWithCarry
<1>3. a' = r.value /\ cc' = r.cc
  BY DEF TakeAway
<1> HIDE DEF r
<1>4. TypeOK'
  BY <1>2, <1>3 DEF TypeOK, TakeAway, given
<1>5. Passed' = Passed /\ Stored = Passed /\ Here' = Here /\ CarryOut' = CarryOut
      /\ (job = "sub" => Stored' = Passed)
  BY DEF Passed, Stored, Here, CarryOut, TakeAway, given
<1>6. LoopInv'
  BY <1>1, <1>5 DEF LoopInv, TakeAway, given, InPlace
<1>7. ChainInv'
  <2> SUFFICES ASSUME job = "sub"
               PROVE  \E carry \in SUBSET (0 .. n') : Chain(carry)'
    BY DEF ChainInv, TakeAway, given
  <2>1. PICK carry \in SUBSET (0 .. n) : Chain(carry)
    BY DEF ChainInv, TakeAway
  <2>2. Carry(cc) = In(carry, Here - 1)
    BY <2>1, <1>1, Hand DEF Chain, Carries, TakeAway, Known, Carry, In
  <2>3. PICK new \in SUBSET (0 .. n) :
          /\ Enters(carry) => Enters(new)
          /\ \A j \in Passed : \A z : Settles(carry, j, z) => Settles(new, j, z)
          /\ CarryOut \in new <=> "C" \in r.cc
          /\ CarryIn \in new <=> CarryIn \in carry
    <3>1. ("C" \in r.cc) \in BOOLEAN
      OBVIOUS
    <3> QED BY <1>1, <3>1, Extend
  <2>4. Enters(new) /\ \A j \in Passed : Settles(new, j, zs[j])
    BY <1>5, <2>1, <2>3 DEF Chain
  <2>5. In(new, Here - 1) = In(carry, Here - 1)
        /\ Out(new, Here) = IF "C" \in r.cc THEN 2 * Half ELSE 0
    BY <1>1, <2>3, Hand DEF In, Out
  <2>6. Column(new, Here, r.value)
    BY <1>2, <2>2, <2>5 DEF Column
  <2>7. Settles(new, Here, r.value)
    BY <2>6 DEF Settles
  <2>8. Carries(new)'
    BY <1>3, <1>5, <2>3 DEF Carries, TakeAway, Known, given
  <2>9. Chain(new)'
    BY <1>3, <1>5, <2>4, <2>7, <2>8, GivenStays DEF Chain, TakeAway
  <2> QED BY <2>3, <2>9 DEF TakeAway, given
<1>8. CompareInv'
  <2> SUFFICES ASSUME job = "compare"
               PROVE  /\ "C" \in cc' <=> Below(Here)
                      /\ Less(cc') <=> SignedBelowTo(Here)
    BY DEF CompareInv, TakeAway, given, Below, SignedBelowTo, Here
  <2>1. "C" \in cc <=> Below(Here - 1)
    <3>1. Here - 1 = n - left
      BY DEF Here, TypeOK
    <3> QED BY <3>1 DEF CompareInv, TakeAway
  <2>2. Carry(cc) = IF Below(Here - 1) THEN 1 ELSE 0
    BY <2>1 DEF Carry
  <2>3. Below(Here) <=> xs[Here] < ys[Here] \/ (xs[Here] = ys[Here] /\ Below(Here - 1))
    BY <1>1, BelowGrows
  <2>4. xs[Here] \in Byte /\ ys[Here] \in Byte
    BY <1>1
  <2>5. "C" \in r.cc <=> Below(Here)
    BY <1>2, <2>2, <2>3, <2>4, HalfIsPositive DEF Byte
  <2>6. Less(r.cc) <=> SignedBelowTo(Here)
    BY <1>2, <2>2, <2>4, HalfIsPositive DEF Byte, Signed, SignedBelowTo
  <2> QED BY <1>3, <2>5, <2>6
<1> QED BY <1>4, <1>6, <1>7, <1>8

LEMMA CompareOnceKeeps ==
  ASSUME IInv, CompareOnce
  PROVE  IInv'
<1> USE DEF IInv
<1> DEFINE new == sub8_flags(Half, a, ys[Here], cc).cc
<1>1. left # 0 /\ Here = 1 /\ ys[1] \in Byte /\ a \in Byte /\ a = xs[1] /\ cc \in SUBSET Flag
  BY Hand DEF LoopInv, CompareOnce, TypeOK, InPlace, Here
<1>2. /\ new \in SUBSET Flag
      /\ "C" \in new <=> xs[1] < ys[1]
      /\ "Z" \in new <=> xs[1] = ys[1]
      /\ Less(new) <=> Signed(Half, xs[1]) < Signed(Half, ys[1])
  BY <1>1, Compares
<1>3. cc' = new
  BY DEF CompareOnce
<1> HIDE DEF new
<1>4. TypeOK'
  BY <1>2, <1>3 DEF TypeOK, CompareOnce, given
<1>5. LoopInv'
  BY DEF LoopInv, CompareOnce, given, InPlace, Stored
<1>6. ChainInv' /\ CompareInv'
  BY <1>2, <1>3 DEF ChainInv, CompareInv, CompareOnce, given
<1> QED BY <1>4, <1>5, <1>6

\* ROL, ROR and INC: what comes in with C, or with the fact that INC is reached, and what
\* goes out.
LEMMA ModifyColumn ==
  ASSUME IInv, Modify, NEW carry \in SUBSET (0 .. n), Chain(carry)
  PROVE  /\ zs'[Here] \in Byte
         /\ zs' = [zs EXCEPT ![Here] = zs'[Here]]
         /\ cc' \in SUBSET Flag
         /\ \E new \in SUBSET (0 .. n) :
              /\ Enters(new)
              /\ \A j \in Passed : Settles(new, j, zs[j])
              /\ Settles(new, Here, zs'[Here])
              /\ job = "inc" => ("Z" \in cc' <=> CarryOut \in new)
              /\ job # "inc" => ("C" \in cc' <=> CarryOut \in new)
<1> USE DEF IInv
<1> DEFINE v == zs[Here]
<1>1. left # 0 /\ Here \in 1 .. n /\ v \in Byte /\ v = xs[Here] /\ cc \in SUBSET Flag
  BY Hand DEF LoopInv, Modify, TypeOK, Stored
<1>2. /\ job # "inc" => ("C" \in cc <=> CarryIn \in carry)
      /\ job = "inc" => CarryIn \in carry
  BY DEF Chain, Carries, Modify, Known
<1>3. Enters(carry) /\ \A j \in Passed : Settles(carry, j, zs[j])
  BY DEF Chain, Stored, Modify
<1>4. job \notin {"compare", "cmp"}
  BY DEF Modify, InPlace
<1> DEFINE out == (job = "inc" /\ "Z" \in cc') \/ (job # "inc" /\ "C" \in cc')
<1>5. PICK new \in SUBSET (0 .. n) :
        /\ Enters(carry) => Enters(new)
        /\ \A j \in Passed : \A z : Settles(carry, j, z) => Settles(new, j, z)
        /\ CarryOut \in new <=> out
        /\ CarryIn \in new <=> CarryIn \in carry
  <2>1. out \in BOOLEAN
    OBVIOUS
  <2> HIDE DEF out
  <2> QED BY <1>1, <1>4, <2>1, Extend
<1> SUFFICES /\ zs'[Here] \in Byte
             /\ zs' = [zs EXCEPT ![Here] = zs'[Here]]
             /\ cc' \in SUBSET Flag
             /\ Column(new, Here, zs'[Here])
  BY <1>3, <1>4, <1>5 DEF Settles, Modify, InPlace
<1>6. CASE job = "left"
  <2>1. zs' = [zs EXCEPT ![Here] = Rol(Half, v, cc).value] /\ cc' = Rol(Half, v, cc).cc
    BY <1>6 DEF Modify
  <2>2. zs'[Here] = Rol(Half, v, cc).value
    BY <1>1, <2>1 DEF TypeOK
  <2>3. /\ zs'[Here] \in Byte
        /\ cc' \in SUBSET Flag
        /\ 2 * v + Carry(cc) = zs'[Here] + (IF "C" \in cc' THEN 2 * Half ELSE 0)
    BY <1>1, <2>1, <2>2, RotatesLeft
  <2>4. In(new, Here - 1) = Carry(cc) /\ Out(new, Here) = (IF "C" \in cc' THEN 2 * Half ELSE 0)
    BY <1>1, <1>2, <1>5, <1>6, Hand DEF In, Out, Carry
  <2>5. Column(new, Here, zs'[Here])
    BY <1>1, <1>6, <2>3, <2>4 DEF Column
  <2> QED BY <2>1, <2>2, <2>3, <2>5
<1>7. CASE job = "right"
  <2>1. zs' = [zs EXCEPT ![Here] = Ror(Half, v, cc).value] /\ cc' = Ror(Half, v, cc).cc
    BY <1>7 DEF Modify
  <2>2. zs'[Here] = Ror(Half, v, cc).value
    BY <1>1, <2>1 DEF TypeOK
  <2>3. /\ zs'[Here] \in Byte
        /\ cc' \in SUBSET Flag
        /\ v + (IF "C" \in cc THEN 2 * Half ELSE 0)
             = 2 * zs'[Here] + (IF "C" \in cc' THEN 1 ELSE 0)
    BY <1>1, <2>1, <2>2, RotatesRight
  <2>4. /\ Out(new, Here) = (IF "C" \in cc THEN 2 * Half ELSE 0)
        /\ In(new, Here - 1) = (IF "C" \in cc' THEN 1 ELSE 0)
    BY <1>1, <1>2, <1>5, <1>7, Hand DEF In, Out
  <2>5. Column(new, Here, zs'[Here])
    BY <1>1, <1>7, <2>3, <2>4 DEF Column
  <2> QED BY <2>1, <2>2, <2>3, <2>5
<1>8. CASE job = "inc"
  <2>1. zs' = [zs EXCEPT ![Here] = Inc(Half, v, cc).value] /\ cc' = Inc(Half, v, cc).cc
    BY <1>8 DEF Modify
  <2>2. zs'[Here] = Inc(Half, v, cc).value
    BY <1>1, <2>1 DEF TypeOK
  <2>3. /\ zs'[Here] \in Byte
        /\ cc' \in SUBSET Flag
        /\ v + 1 = zs'[Here] + (IF "Z" \in cc' THEN 2 * Half ELSE 0)
    BY <1>1, <2>1, <2>2, Increments
  <2>4. In(new, Here - 1) = 1 /\ Out(new, Here) = (IF "Z" \in cc' THEN 2 * Half ELSE 0)
    BY <1>1, <1>2, <1>5, <1>8, Hand DEF In, Out
  <2>5. Column(new, Here, zs'[Here])
    BY <1>1, <1>8, <2>3, <2>4 DEF Column
  <2> QED BY <2>1, <2>2, <2>3, <2>5
<1> QED BY <1>6, <1>7, <1>8 DEF Modify, InPlace

LEMMA ModifyKeeps ==
  ASSUME IInv, Modify
  PROVE  IInv'
<1> USE DEF IInv
<1>1. left # 0 /\ Here \in 1 .. n /\ Here \notin Passed /\ Passed \subseteq 1 .. n
  BY Hand DEF LoopInv, Modify
<1>2. PICK carry \in SUBSET (0 .. n) : Chain(carry)
  BY DEF ChainInv, Modify, InPlace
<1>3. /\ zs'[Here] \in Byte
      /\ zs' = [zs EXCEPT ![Here] = zs'[Here]]
      /\ cc' \in SUBSET Flag
  BY <1>2, ModifyColumn
<1>4. PICK new \in SUBSET (0 .. n) :
        /\ Enters(new)
        /\ \A j \in Passed : Settles(new, j, zs[j])
        /\ Settles(new, Here, zs'[Here])
        /\ job = "inc" => ("Z" \in cc' <=> CarryOut \in new)
        /\ job # "inc" => ("C" \in cc' <=> CarryOut \in new)
  BY <1>2, ModifyColumn
<1>5. TypeOK'
  BY <1>3 DEF TypeOK, Modify, given
<1>6. Passed' = Passed /\ Stored = Passed /\ Stored' = Passed \cup {Here} /\ Here' = Here
      /\ Known' = CarryOut
  BY DEF Passed, Stored, Here, Known, CarryOut, Modify, given
<1>7. \A j \in 1 .. n : j # Here => zs'[j] = zs[j]
  BY <1>3 DEF TypeOK
<1>8. LoopInv'
  BY <1>1, <1>6, <1>7 DEF LoopInv, Modify, given, InPlace
<1>9. ChainInv'
  <2>1. Carries(new)'
    BY <1>4, <1>6 DEF Carries, Modify, given
  <2>2. \A j \in Stored' : Settles(new, j, zs'[j])
    BY <1>1, <1>4, <1>6, <1>7
  <2>3. Chain(new)'
    BY <1>4, <2>1, <2>2, GivenStays DEF Chain, Modify, InPlace
  <2> QED BY <2>3 DEF ChainInv, Modify, given
<1>10. CompareInv'
  BY DEF CompareInv, Modify, given, InPlace
<1> QED BY <1>5, <1>8, <1>9, <1>10

LEMMA AdjustKeeps ==
  ASSUME IInv, Adjust
  PROVE  IInv'
<1> USE DEF IInv
<1> DEFINE r == Daa(a, cc)
<1>1. /\ left # 0 /\ Here \in 1 .. n /\ job = "decimal"
      /\ xs[Here] \in Digits /\ ys[Here] \in Digits /\ a \in 0 .. 255 /\ cc \in SUBSET Flag
  BY Hand, ArithmeticAssumption DEF LoopInv, Adjust, TypeOK, Byte, Half8
<1>2. PICK carry \in SUBSET (0 .. n) : Chain(carry)
  BY <1>1 DEF ChainInv, Adjust
<1> DEFINE i == In(carry, Here - 1)
<1>3. i \in 0 .. 1 /\ BinarySum(xs[Here], ys[Here], i, a, cc)
  BY <1>2 DEF Chain, Adjust, In
<1> HIDE DEF i
<1>4. /\ r.value \in Digits
      /\ r.cc \in SUBSET Flag
      /\ DecimalSum(xs[Here], ys[Here], i, r.value, r.cc)
  BY <1>1, <1>3, Adjusts
<1>5. a' = r.value /\ cc' = r.cc
  BY DEF Adjust
<1> HIDE DEF r
<1>6. TypeOK'
  <2>1. Half = 128
    BY <1>1, ArithmeticAssumption DEF TypeOK, Half8
  <2>2. a' \in Byte
    BY <1>4, <1>5, <2>1 DEF Digits, Byte
  <2> QED BY <1>4, <1>5, <2>2 DEF TypeOK, Adjust, given
<1>7. Passed' = Passed /\ Stored' = Passed /\ Stored = Passed /\ Here' = Here /\ CarryOut' = CarryOut
  BY DEF Passed, Stored, Here, CarryOut, Adjust, given
<1>8. LoopInv'
  BY <1>1, <1>7 DEF LoopInv, Adjust, given, InPlace
<1>9. ChainInv'
  <2>1. PICK new \in SUBSET (0 .. n) :
          /\ Enters(carry) => Enters(new)
          /\ \A j \in Passed : \A z : Settles(carry, j, z) => Settles(new, j, z)
          /\ CarryOut \in new <=> "C" \in r.cc
          /\ CarryIn \in new <=> CarryIn \in carry
    <3>1. ("C" \in r.cc) \in BOOLEAN
      OBVIOUS
    <3> QED BY <1>1, <3>1, Extend
  <2>2. Enters(new) /\ \A j \in Passed : Settles(new, j, zs[j])
    BY <1>2, <1>7, <2>1 DEF Chain
  <2>3. In(new, Here - 1) = i /\ (Here \in new <=> "C" \in r.cc)
    BY <1>1, <2>1, Hand DEF In, i
  <2>4. Settles(new, Here, r.value)
    BY <1>1, <1>4, <2>3 DEF Settles, DecimalColumn, DecimalSum
  <2>5. Carries(new)'
    BY <1>1, <1>5, <1>7, <2>1 DEF Carries, Adjust, Known, given
  <2>6. Chain(new)'
    BY <1>1, <1>5, <1>7, <2>2, <2>4, <2>5, GivenStays DEF Chain, Adjust
  <2> QED BY <2>6 DEF ChainInv, Adjust, given
<1>10. CompareInv'
  BY <1>1 DEF CompareInv, Adjust, given
<1> QED BY <1>6, <1>8, <1>9, <1>10

\* INC did not wrap: nothing is carried on, and the bytes above stay.
LEMMA StopEarlyKeeps ==
  ASSUME IInv, StopEarly
  PROVE  IInv'
<1> USE DEF IInv
<1>1. left # 0 /\ Here \in 1 .. n /\ job = "inc" /\ Stored = Passed \cup {Here}
  BY Hand DEF LoopInv, StopEarly, Stored
<1>2. PICK carry \in SUBSET (0 .. n) : Chain(carry)
  BY <1>1 DEF ChainInv, StopEarly
<1>3. TypeOK'
  BY DEF TypeOK, StopEarly, given
<1>4. Passed' = Passed /\ Here' = Here /\ CarryOut' = CarryOut
  BY DEF Passed, Here, CarryOut, StopEarly, given
<1>5. CompareInv'
  BY <1>1 DEF CompareInv, StopEarly, given
<1>6. CASE "Z" \in cc
  <2>1. at' = "count" /\ Stored' = Stored /\ Known' = Known
    BY <1>1, <1>4, <1>6 DEF StopEarly, cond_eval, Stored, Known
  <2>2. LoopInv'
    BY <1>1, <2>1 DEF LoopInv, StopEarly, given, InPlace
  <2>3. Carries(carry)'
    BY <1>1, <1>2, <1>6, <2>1 DEF Chain, Carries, StopEarly, given
  <2>4. Chain(carry)'
    BY <1>1, <1>2, <2>1, <2>3, GivenStays DEF Chain, StopEarly
  <2> QED BY <1>3, <1>5, <2>2, <2>4 DEF ChainInv, StopEarly, given
<1>7. CASE "Z" \notin cc
  <2>1. at' = "done" /\ Stored' = 1 .. n
    BY <1>7 DEF StopEarly, cond_eval, Stored, given
  <2>2. LoopInv'
    BY <1>1, <2>1 DEF LoopInv, StopEarly, given, InPlace
  <2>3. CarryOut \notin carry /\ CarryOut = Here
    BY <1>1, <1>2, <1>7, Hand DEF Chain, Carries, StopEarly, Known
  <2> DEFINE some == carry \cap (0 .. Here - 1)
  <2>4. PICK new \in SUBSET (0 .. n) : new = some
    BY <1>2
  <2>5. ASSUME NEW j \in 1 .. n
        PROVE  Settles(new, j, zs[j])
    <3>1. CASE j <= Here
      <4>1. Settles(carry, j, zs[j])
        BY <1>1, <1>2, <3>1 DEF Chain, Passed, Here, TypeOK
      <4>2. (j \in new <=> j \in carry) /\ (j - 1 \in new <=> j - 1 \in carry)
        BY <1>1, <2>3, <2>4, <3>1
      <4>3. In(new, j - 1) = In(carry, j - 1) /\ Out(new, j) = Out(carry, j)
        BY <4>2 DEF In, Out
      <4> QED BY <1>1, <4>1, <4>3 DEF Settles, Column
    <3>2. CASE j > Here
      <4>1. zs[j] = xs[j] /\ xs[j] \in Int
        BY <1>1, <3>2, HalfIsPositive DEF LoopInv, Passed, Here, TypeOK, Byte
      <4>2. In(new, j - 1) = 0 /\ Out(new, j) = 0
        BY <1>1, <2>4, <3>2 DEF In, Out
      <4>3. Column(new, j, zs[j])
        BY <1>1, <4>1, <4>2 DEF Column
      <4> QED BY <1>1, <4>3 DEF Settles
    <3> QED BY <1>1, <3>1, <3>2
  <2>6. Enters(new)
    BY <1>1, <1>2, <2>4 DEF Chain, Enters
  <2>7. Carries(new)'
    BY <1>1, <2>1 DEF Carries, StopEarly, given
  <2>8. Chain(new)'
    BY <1>1, <2>1, <2>5, <2>6, <2>7, GivenStays DEF Chain, StopEarly
  <2> QED BY <1>3, <1>5, <2>2, <2>8 DEF ChainInv, StopEarly, given
<1> QED BY <1>6, <1>7

LEMMA StoreKeeps ==
  ASSUME IInv, Store
  PROVE  IInv'
<1> USE DEF IInv
<1>1. left # 0 /\ Here \in 1 .. n /\ a \in Byte /\ job \in {"add", "sub", "decimal"}
      /\ Here \notin Passed /\ Passed \subseteq 1 .. n
  BY Hand DEF LoopInv, Store, TypeOK
<1>2. cc' \in SUBSET Flag /\ ("C" \in cc' <=> "C" \in cc)
  BY <1>1, LogicFlags, HalfIsPositive DEF Store, Byte, TypeOK
<1>3. TypeOK'
  BY <1>1, <1>2 DEF TypeOK, Store, given
<1>4. Passed' = Passed /\ Stored = Passed /\ Stored' = Passed \cup {Here} /\ Here' = Here
      /\ Known' = Known
  BY DEF Passed, Stored, Here, Known, CarryOut, Store, given
<1>5. zs'[Here] = a /\ \A j \in 1 .. n : j # Here => zs'[j] = zs[j]
  BY <1>1 DEF Store, TypeOK
<1>6. LoopInv'
  BY <1>1, <1>4, <1>5 DEF LoopInv, Store, given, InPlace
<1>7. ChainInv'
  <2>1. PICK carry \in SUBSET (0 .. n) : Chain(carry)
    BY <1>1 DEF ChainInv, Store
  <2>2. \A j \in Stored' : Settles(carry, j, zs'[j])
    BY <1>1, <1>4, <1>5, <2>1 DEF Chain, Store
  <2>3. Carries(carry)'
    BY <1>1, <1>2, <1>4, <2>1 DEF Chain, Carries, Store, given
  <2>4. Chain(carry)'
    BY <1>1, <2>1, <2>2, <2>3, GivenStays DEF Chain, Store
  <2> QED BY <2>4 DEF ChainInv, Store, given
<1>8. CompareInv'
  BY <1>1 DEF CompareInv, Store, given
<1> QED BY <1>3, <1>6, <1>7, <1>8

LEMMA CountDownKeeps ==
  ASSUME IInv, CountDown
  PROVE  IInv'
<1> USE DEF IInv
<1>1. /\ left # 0 /\ Here \in 1 .. n /\ left \in 1 .. 2 * Half - 1 /\ cc \in SUBSET Flag
      /\ left \in 1 .. n /\ n \in Nat /\ job # "cmp"
  BY Hand, ArithmeticAssumption DEF LoopInv, CountDown, TypeOK
<1>2. /\ left' = left - 1
      /\ cc' \in SUBSET Flag
      /\ "Z" \in cc' <=> left' = 0
      /\ "C" \in cc' <=> "C" \in cc
      /\ job = "compare" => (Less(cc') <=> Less(cc))
  <2>1. LET r == Dec(Half, left, cc)
        IN  /\ r.value = left - 1
            /\ r.cc \in SUBSET Flag
            /\ "Z" \in r.cc <=> left = 1
            /\ "C" \in r.cc <=> "C" \in cc
    BY <1>1, CountsDown
  <2>2. CASE job = "compare"
    <3>1. cc' = With(cc, "Z", left - 1 = 0) /\ left' = left - 1
      BY <2>1, <2>2 DEF CountDown
    <3> QED BY <1>1, <3>1 DEF With, Less, Flag
  <2>3. CASE job # "compare"
    BY <1>1, <2>1, <2>3 DEF CountDown
  <2> QED BY <2>2, <2>3
<1>3. TypeOK'
  BY <1>1, <1>2 DEF TypeOK, CountDown, given
<1>4. Stored' = Stored
  BY <1>1, <1>2 DEF Stored, Passed, Here, CountDown, given
<1>5. CarryIn' = CarryOut
  BY <1>1, <1>2 DEF CarryIn, CarryOut, CountDown, given
<1>6. LoopInv'
  BY <1>1, <1>2, <1>4 DEF LoopInv, CountDown, given, InPlace
<1>7. ChainInv'
  <2> SUFFICES ASSUME job \notin {"compare", "cmp"}
               PROVE  \E carry \in SUBSET (0 .. n') : Chain(carry)'
    BY DEF ChainInv, CountDown, given
  <2>1. PICK carry \in SUBSET (0 .. n) : Chain(carry)
    BY DEF ChainInv, CountDown
  <2>2. Known = CarryOut /\ Known' = CarryOut
    BY <1>5 DEF Known, CountDown
  <2>3. Carries(carry)'
    BY <1>2, <2>1, <2>2 DEF Chain, Carries, CountDown, given
  <2>4. Chain(carry)'
    BY <1>4, <2>1, <2>3, GivenStays DEF Chain, CountDown
  <2> QED BY <2>4 DEF CountDown, given
<1>8. CompareInv'
  <2> SUFFICES ASSUME job = "compare"
               PROVE  /\ "C" \in cc' <=> Below(n - left')
                      /\ Less(cc') <=> SignedBelowTo(n - left')
    BY <1>1 DEF CompareInv, CountDown, given, Below, SignedBelowTo
  <2>1. n - left' = n - left + 1
    BY <1>1, <1>2
  <2> QED BY <1>2, <2>1 DEF CompareInv, CountDown
<1> QED BY <1>3, <1>6, <1>7, <1>8

LEMMA RepeatKeeps ==
  ASSUME IInv, Repeat
  PROVE  IInv'
<1> USE DEF IInv
<1>1. TypeOK'
  BY DEF TypeOK, Repeat, given, Again
<1>2. at' = IF left = 0 THEN "done" ELSE Again
  BY DEF LoopInv, Repeat, cond_eval
<1>3. Stored = Passed /\ Stored' = Stored /\ Here' = Here /\ Known' = Known
  <2>1. left = 0 => Passed = 1 .. n
    BY DEF Passed, TypeOK
  <2>2. Passed' = Passed /\ Here' = Here /\ CarryIn' = CarryIn
    BY DEF Passed, Here, CarryIn, Repeat, given
  <2> QED BY <1>2, <2>1, <2>2 DEF Stored, Known, Repeat, Again, given
<1>4. CASE left = 0
  <2>1. LoopInv'
    BY <1>2, <1>3, <1>4 DEF LoopInv, Repeat, given, InPlace
  <2>2. CompareInv'
    BY <1>2, <1>4 DEF CompareInv, LoopInv, Repeat, given, Below, SignedBelowTo
  <2>3. ChainInv'
    <3> SUFFICES ASSUME job \notin {"compare", "cmp"}
                 PROVE  \E carry \in SUBSET (0 .. n') : Chain(carry)'
      BY DEF ChainInv, Repeat, given
    <3>1. PICK carry \in SUBSET (0 .. n) : Chain(carry)
      BY DEF ChainInv, Repeat
    <3>2. Carries(carry)'
      BY <1>2, <1>3, <1>4, <3>1 DEF Chain, Carries, Repeat, given
    <3>3. Chain(carry)'
      BY <1>2, <1>3, <1>4, <3>1, <3>2, GivenStays DEF Chain, Repeat
    <3> QED BY <3>3 DEF Repeat, given
  <2> QED BY <1>1, <2>1, <2>2, <2>3
<1>5. CASE left # 0
  <2>1. at' = Again
    BY <1>2, <1>5
  <2>2. LoopInv'
    <3>1. Here \in 1 .. n /\ Here \notin Passed
      BY <1>5, Hand
    <3> QED BY <1>3, <1>5, <2>1, <3>1 DEF LoopInv, Repeat, given, InPlace, Again
  <2>3. CompareInv'
    BY <2>1 DEF CompareInv, Repeat, given, Below, Again
  <2>4. ChainInv'
    <3> SUFFICES ASSUME job \notin {"compare", "cmp"}
                 PROVE  \E carry \in SUBSET (0 .. n') : Chain(carry)'
      BY DEF ChainInv, Repeat, given
    <3>1. PICK carry \in SUBSET (0 .. n) : Chain(carry)
      BY DEF ChainInv, Repeat
    <3>2. Carries(carry)'
      BY <1>3, <2>1, <3>1 DEF Chain, Carries, Repeat, given, Again
    <3>3. Chain(carry)'
      BY <1>3, <2>1, <3>1, <3>2, GivenStays DEF Chain, Repeat, Again
    <3> QED BY <3>3 DEF Repeat, given
  <2> QED BY <1>1, <2>2, <2>3, <2>4
<1> QED BY <1>4, <1>5

LEMMA StutterKeeps ==
  ASSUME IInv, UNCHANGED vars
  PROVE  IInv'
<1> USE DEF vars
<1>1. TypeOK' /\ LoopInv' /\ CompareInv'
  BY DEF IInv, TypeOK, LoopInv, CompareInv, Stored, Passed, Here, Below, SignedBelowTo
<1>2. Stored' = Stored /\ Known' = Known /\ Here' = Here
  BY DEF Stored, Passed, Here, Known, CarryIn, CarryOut
<1>3. ChainInv'
  <2> SUFFICES ASSUME job \notin {"compare", "cmp"}, at # "start"
               PROVE  \E carry \in SUBSET (0 .. n') : Chain(carry)'
    BY DEF ChainInv
  <2>1. PICK carry \in SUBSET (0 .. n) : Chain(carry)
    BY DEF IInv, ChainInv
  <2>2. UNCHANGED given
    BY DEF given
  <2>3. Carries(carry)'
    BY <1>2, <2>1 DEF Chain, Carries
  <2>4. Chain(carry)'
    BY <1>2, <2>1, <2>2, <2>3, GivenStays DEF Chain
  <2> QED BY <2>4
<1> QED BY <1>1, <1>3 DEF IInv

LEMMA StepKeeps ==
  ASSUME IInv, [Next]_vars
  PROVE  IInv'
<1>1. CASE ClearCarry
  BY <1>1, ClearCarryKeeps
<1>2. CASE Load
  BY <1>2, LoadKeeps
<1>3. CASE AddIn
  BY <1>3, AddInKeeps
<1>4. CASE TakeAway
  BY <1>4, TakeAwayKeeps
<1>5. CASE CompareOnce
  BY <1>5, CompareOnceKeeps
<1>6. CASE Modify
  BY <1>6, ModifyKeeps
<1>7. CASE Adjust
  BY <1>7, AdjustKeeps
<1>8. CASE StopEarly
  BY <1>8, StopEarlyKeeps
<1>9. CASE Store
  BY <1>9, StoreKeeps
<1>10. CASE CountDown
  BY <1>10, CountDownKeeps
<1>11. CASE Repeat
  BY <1>11, RepeatKeeps
<1>12. CASE UNCHANGED vars
  BY <1>12, StutterKeeps
<1> QED BY <1>1, <1>2, <1>3, <1>4, <1>5, <1>6, <1>7, <1>8, <1>9, <1>10, <1>11, <1>12 DEF Next

-----------------------------------------------------------------------------
(* The theorems.                                                           *)

\* The invariant of the loops holds in every state.
THEOREM LoopsInvariant == Spec => []IInv
<1>1. Init => IInv
  BY InitKeeps
<1>2. IInv /\ [Next]_vars => IInv'
  BY StepKeeps
<1> QED BY <1>1, <1>2, PTL DEF Spec

\* Registers and memory hold bytes, whatever the routine and its numbers.
THEOREM Typing == Spec => []TypeOK
<1>1. IInv => TypeOK
  BY DEF IInv
<1> QED BY <1>1, LoopsInvariant, PTL

\* Numbers of every length and content are added, subtracted, shifted and incremented right.
THEOREM Chains == Spec => []ChainsRight
<1>1. IInv => ChainsRight
  <2> SUFFICES ASSUME IInv, at = "done", job \in {"add", "sub", "left", "right", "inc"}
               PROVE  \E carry \in SUBSET (0 .. n) :
                        /\ Enters(carry)
                        /\ \A j \in 1 .. n : Column(carry, j, zs[j])
                        /\ job # "inc" => ("C" \in cc <=> Leaves(carry))
    BY DEF ChainsRight
  <2>1. PICK carry \in SUBSET (0 .. n) : Chain(carry)
    BY DEF IInv, ChainInv
  <2>2. Stored = 1 .. n
    BY DEF Stored
  <2>3. \A j \in 1 .. n : Column(carry, j, zs[j])
    BY <2>1, <2>2 DEF Chain, Settles
  <2>4. job # "inc" => ("C" \in cc <=> Leaves(carry))
    BY <2>1 DEF Chain, Carries, Leaves, Known, CarryIn, IInv, LoopInv, TypeOK
  <2> QED BY <2>1, <2>3, <2>4 DEF Chain
<1> QED BY <1>1, LoopsInvariant, PTL

\* Packed decimal numbers of every length are added right.
THEOREM Decimals == Spec => []DecimalRight
<1>1. IInv => DecimalRight
  <2> SUFFICES ASSUME IInv, at = "done", job = "decimal"
               PROVE  \E carry \in SUBSET (0 .. n) :
                        /\ 0 \notin carry
                        /\ \A j \in 1 .. n : DecimalColumn(carry, j, zs[j])
                        /\ "C" \in cc <=> n \in carry
    BY DEF DecimalRight
  <2>1. PICK carry \in SUBSET (0 .. n) : Chain(carry)
    BY DEF IInv, ChainInv
  <2>2. Stored = 1 .. n
    BY DEF Stored
  <2>3. \A j \in 1 .. n : DecimalColumn(carry, j, zs[j])
    BY <2>1, <2>2 DEF Chain, Settles
  <2>4. "C" \in cc <=> n \in carry
    BY <2>1 DEF Chain, Carries, Known, CarryIn, IInv, LoopInv, TypeOK
  <2> QED BY <2>1, <2>3, <2>4 DEF Chain, Enters
<1> QED BY <1>1, LoopsInvariant, PTL

\* Every branch goes by the relation it is named for, after a comparison of bytes and after
\* one of numbers of every length.
THEOREM Branches == Spec => []BranchesRight
<1>1. IInv => BranchesRight
  <2> SUFFICES ASSUME IInv, at = "done"
               PROVE  BranchesRight
    BY DEF BranchesRight
  <2>1. CASE job = "cmp"
    <3>1. /\ "C" \in cc <=> xs[1] < ys[1]
          /\ "Z" \in cc <=> xs[1] = ys[1]
          /\ Less(cc) <=> Signed(Half, xs[1]) < Signed(Half, ys[1])
      BY <2>1 DEF IInv, CompareInv
    <3>2. xs[1] \in Int /\ ys[1] \in Int
      BY HalfIsPositive DEF IInv, TypeOK, Byte
    <3>3. /\ Signed(Half, xs[1]) \in Int /\ Signed(Half, ys[1]) \in Int
          /\ xs[1] = ys[1] <=> Signed(Half, xs[1]) = Signed(Half, ys[1])
      BY HalfIsPositive DEF IInv, TypeOK, Byte, Signed
    <3> QED BY <2>1, <3>1, <3>2, <3>3 DEF BranchesRight, cond_eval
  <2>2. CASE job = "compare"
    <3>1. /\ "C" \in cc <=> Below(n)
          /\ Less(cc) <=> SignedBelow
      BY <2>2 DEF IInv, CompareInv, LoopInv, TypeOK, SignedBelowTo, SignedBelow
    <3> QED BY <2>2, <3>1 DEF BranchesRight, cond_eval
  <2> QED BY <2>1, <2>2 DEF BranchesRight
<1> QED BY <1>1, LoopsInvariant, PTL

-----------------------------------------------------------------------------
(* The machine, and what the operations of the core make of numbers and of *)
(* flags.                                                                  *)

\* The two widths as numbers.
LEMMA Halves == Half8 = 128 /\ Half16 = 32768
BY DEF Half8, Half16

\* A byte is a number up to 255, and an address one up to 65535.
LEMMA InOctet == \A i : i \in Octet <=> i \in Int /\ 0 <= i /\ i <= 255
BY Halves DEF Octet

LEMMA InAddress == \A i : i \in Address <=> i \in Int /\ 0 <= i /\ i <= 65535
<1>1. PICK end \in Int : end = LastAddress
  BY Halves DEF LastAddress
<1>2. end = 65535
  BY <1>1, Halves DEF LastAddress
<1>3. \A i : i \in Address <=> i \in Int /\ 0 <= i /\ i <= end
  BY <1>1 DEF Address
<1> QED BY <1>2, <1>3

Memories == UNION {[where -> Octet] : where \in SUBSET Address}

Machines ==
  [a : Octet, b : Octet, dp : Octet, x : Address, y : Address, u : Address, s : Address,
   pc : Address, cc : SUBSET Flag, ram : Memories, wrote : SUBSET Address]

\* A set of flags is one with a flag more or less.
LEMMA FlagsStay ==
  ASSUME NEW c \in SUBSET Flag, NEW f \in Flag, NEW on
  PROVE  With(c, f, on) \in SUBSET Flag
BY DEF With

\* The flags that arithmetic sets.
LEMMA FlagNames == {"C", "V", "N", "Z", "H"} \subseteq Flag
BY DEF Flag

\* Setting N and Z, and clearing V, leaves condition codes.
LEMMA SetNzStays ==
  ASSUME NEW h, NEW r, NEW c \in SUBSET Flag
  PROVE  /\ set_nz(h, r, c) \in SUBSET Flag
         /\ logic_nz_clearv(h, r, c) \in SUBSET Flag
<1>1. With(c, "N", r >= h) \in SUBSET Flag
  BY FlagsStay, FlagNames
<1>2. set_nz(h, r, c) \in SUBSET Flag
  BY <1>1, FlagsStay, FlagNames DEF set_nz
<1> QED BY <1>2 DEF logic_nz_clearv

\* So do the flags of the arithmetic.
LEMMA ArithmeticStays ==
  ASSUME NEW h, NEW r, NEW carry, NEW overflow, NEW c \in SUBSET Flag
  PROVE  Arithmetic(h, r, carry, overflow, c) \in SUBSET Flag
<1>1. With(set_nz(h, r, c), "V", overflow) \in SUBSET Flag
  BY SetNzStays, FlagsStay, FlagNames
<1> QED BY <1>1, FlagsStay, FlagNames DEF Arithmetic

\* A result of an instruction: a value of the width of h, and condition codes.
Width(h) == 0 .. 2 * h - 1

\* A word and an address are of one width.
LEMMA WideIsAddress == Width(Half16) = Address
BY DEF Width, Address, LastAddress

Outcome(h) == [value : Width(h), cc : SUBSET Flag]

LEMMA CarryIsBit == \A c : Carry(c) \in 0 .. 1
BY DEF Carry

\* Every operation on two operands leaves a value of its width.
LEMMA TwoOperands ==
  ASSUME NEW h \in {128, 32768}, NEW p \in Width(h), NEW q \in Width(h),
         NEW c \in SUBSET Flag
  PROVE  /\ add16_flags(h, p, q, c) \in Outcome(h)
         /\ add8_flags(h, p, q, c) \in Outcome(h)
         /\ adc8_flags(h, p, q, c) \in Outcome(h)
         /\ sub16_flags(h, p, q, c) \in Outcome(h)
         /\ sub8_flags(h, p, q, c) \in Outcome(h)
         /\ sbc8_flags(h, p, q, c) \in Outcome(h)
<1>1. add16_flags(h, p, q, c) \in Outcome(h)
  <2>1. Wrap(h, p + q) \in Width(h)
    BY DEF Wrap, Width
  <2> QED BY <2>1, ArithmeticStays DEF add16_flags, Outcome
<1>2. sub16_flags(h, p, q, c) \in Outcome(h)
  <2>1. Wrap(h, p - q) \in Width(h)
    BY DEF Wrap, Width
  <2> QED BY <2>1, ArithmeticStays DEF sub16_flags, Outcome
<1>3. ASSUME NEW r \in Outcome(h), NEW on
      PROVE  [r EXCEPT !.cc = With(@, "H", on)] \in Outcome(h)
  <2>1. With(r.cc, "H", on) \in SUBSET Flag
    BY FlagsStay, FlagNames DEF Outcome
  <2> QED BY <2>1 DEF Outcome
<1>4. add8_flags(h, p, q, c) \in Outcome(h) /\ sub8_flags(h, p, q, c) \in Outcome(h)
  BY <1>1, <1>2, <1>3 DEF add8_flags, sub8_flags
<1>5. adc8_flags(h, p, q, c) \in Outcome(h)
  <2> DEFINE t == Wrap(h, p + q)
             sum == Wrap(h, t + Carry(c))
  <2>1. t \in Width(h)
    BY DEF Wrap, Width
  <2> HIDE DEF t
  <2>2. sum \in Width(h)
    BY <2>1, CarryIsBit DEF Wrap, Width
  <2> HIDE DEF sum
  <2>3. \A carry, overflow, on : With(Arithmetic(h, sum, carry, overflow, c), "H", on) \in SUBSET Flag
    BY ArithmeticStays, FlagsStay, FlagNames
  <2> QED BY <2>2, <2>3 DEF adc8_flags, Outcome, t, sum
<1>6. sbc8_flags(h, p, q, c) \in Outcome(h)
  <2> DEFINE t == Wrap(h, p - q)
             diff == Wrap(h, t - Carry(c))
  <2>1. t \in Width(h)
    BY DEF Wrap, Width
  <2> HIDE DEF t
  <2>2. diff \in Width(h)
    BY <2>1, CarryIsBit DEF Wrap, Width
  <2> HIDE DEF diff
  <2>3. \A carry, overflow, on : With(Arithmetic(h, diff, carry, overflow, c), "H", on) \in SUBSET Flag
    BY ArithmeticStays, FlagsStay, FlagNames
  <2> QED BY <2>2, <2>3 DEF sbc8_flags, Outcome, t, diff
<1> QED BY <1>1, <1>2, <1>4, <1>5, <1>6

OneByteColumns == {0, 3, 4, 6, 7, 8, 9, 10, 12, 13, 15}

\* So does every operation on one.
LEMMA OneOperand ==
  ASSUME NEW v \in Octet, NEW c \in SUBSET Flag, NEW column \in OneByteColumns
  PROVE  OneByte(column, v, c) \in Outcome(Half8)
<1>0. ASSUME NEW r \in Octet, NEW new \in SUBSET Flag
      PROVE  [value |-> r, cc |-> new] \in Outcome(Half8)
  BY InOctet, Halves DEF Outcome, Width
<1>1. Neg(Half8, v, c) \in Outcome(Half8)
  <2>1. Wrap(Half8, 0 - v) \in Octet
    BY InOctet, Halves DEF Wrap
  <2> QED BY <1>0, <2>1, ArithmeticStays DEF Neg
<1>2. Com(Half8, v, c) \in Outcome(Half8)
  <2>1. 2 * Half8 - 1 - v \in Octet
    BY InOctet, Halves
  <2> QED BY <1>0, <2>1, ArithmeticStays DEF Com
<1>3. Lsr(Half8, v, c) \in Outcome(Half8)
  <2>1. v \div 2 \in Octet
    BY InOctet
  <2>2. ASSUME NEW new \in SUBSET Flag PROVE new \ {"N"} \in SUBSET Flag
    OBVIOUS
  <2>3. Arithmetic(Half8, v \div 2, v % 2 = 1, FALSE, c) \ {"N"} \in SUBSET Flag
    BY <2>2, ArithmeticStays
  <2> QED BY <1>0, <2>1, <2>3 DEF Lsr
<1>4. Ror(Half8, v, c) \in Outcome(Half8)
  <2>1. v \div 2 + Half8 * Carry(c) \in Octet
    BY CarryIsBit, InOctet, Halves
  <2> QED BY <1>0, <2>1, ArithmeticStays DEF Ror
<1>5. Asr(Half8, v, c) \in Outcome(Half8)
  <2>1. \A r, on : With(set_nz(Half8, r, c), "C", on) \in SUBSET Flag
    BY SetNzStays, FlagsStay, FlagNames
  <2>2. v \div 2 + (IF v >= Half8 THEN Half8 ELSE 0) \in Octet
    BY InOctet, Halves
  <2> QED BY <1>0, <2>1, <2>2 DEF Asr
<1>6. ASSUME NEW i \in 0 .. 1
      PROVE  ShiftLeft(Half8, v, i, c) \in Outcome(Half8)
  <2>1. Wrap(Half8, 2 * v) + i \in Octet
    BY InOctet, Halves DEF Wrap
  <2> QED BY <1>0, <2>1, ArithmeticStays DEF ShiftLeft
<1>7. Asl(Half8, v, c) \in Outcome(Half8) /\ Rol(Half8, v, c) \in Outcome(Half8)
  BY <1>6, CarryIsBit DEF Asl, Rol
<1>8. Dec(Half8, v, c) \in Outcome(Half8) /\ Inc(Half8, v, c) \in Outcome(Half8)
  <2>1. \A r, on : With(set_nz(Half8, r, c), "V", on) \in SUBSET Flag
    BY SetNzStays, FlagsStay, FlagNames
  <2>2. Wrap(Half8, v - 1) \in Octet /\ Wrap(Half8, v + 1) \in Octet
    BY InOctet, Halves DEF Wrap
  <2> QED BY <1>0, <2>1, <2>2 DEF Dec, Inc
<1>9. Tst(Half8, v, c) \in Outcome(Half8) /\ Clr(Half8, v, c) \in Outcome(Half8)
  <2>1. 0 \in Octet
    BY InOctet
  <2> QED BY <1>0, <2>1, SetNzStays, ArithmeticStays DEF Tst, Clr
<1> QED
  BY <1>1, <1>2, <1>3, <1>4, <1>5, <1>7, <1>8, <1>9 DEF OneByte, OneByteColumns

\* AND, OR and EOR of two bytes are bytes.
LEMMA CombineFits ==
  ASSUME NEW table \in {And, Or, Xor}, NEW p \in Octet, NEW q \in Octet
  PROVE  Combine(table, p, q) \in Octet
<1> DEFINE ones(w) == table[((p \div w) % 2) + ((q \div w) % 2) + 1]
<1>1. ASSUME NEW w \in {1, 2, 4, 8, 16, 32, 64, 128}
      PROVE  ones(w) \in 0 .. 1
  <2>1. PICK i \in Int : i = p \div w
    BY InOctet
  <2>2. PICK j \in Int : j = q \div w
    BY InOctet
  <2>3. i % 2 \in 0 .. 1 /\ j % 2 \in 0 .. 1
    OBVIOUS
  <2> QED BY <2>1, <2>2, <2>3 DEF And, Or, Xor
<1> HIDE DEF ones
<1>2. Combine(table, p, q) =
        128 * ones(128) + 64 * ones(64) + 32 * ones(32) + 16 * ones(16)
          + 8 * ones(8) + 4 * ones(4) + 2 * ones(2) + 1 * ones(1)
  BY DEF Combine, ones
<1>3. PICK b8 \in 0 .. 1, b7 \in 0 .. 1, b6 \in 0 .. 1, b5 \in 0 .. 1 :
        b8 = ones(128) /\ b7 = ones(64) /\ b6 = ones(32) /\ b5 = ones(16)
  BY <1>1
<1>4. PICK b4 \in 0 .. 1, b3 \in 0 .. 1, b2 \in 0 .. 1, b1 \in 0 .. 1 :
        b4 = ones(8) /\ b3 = ones(4) /\ b2 = ones(2) /\ b1 = ones(1)
  BY <1>1
<1>5. Combine(table, p, q) =
        128 * b8 + 64 * b7 + 32 * b6 + 16 * b5 + 8 * b4 + 4 * b3 + 2 * b2 + 1 * b1
  BY <1>2, <1>3, <1>4
<1>6. 128 * b8 + 64 * b7 + 32 * b6 + 16 * b5 + 8 * b4 + 4 * b3 + 2 * b2 + 1 * b1
        \in 0 .. 2 * Half8 - 1
  BY Halves
<1> QED BY <1>5, <1>6 DEF Octet

\* What an instruction on a byte leaves in a register or in memory.
LEMMA ResultFits ==
  ASSUME NEW column \in (0 .. 11) \ {3, 7}, NEW p \in Octet, NEW q \in Octet,
         NEW c \in SUBSET Flag
  PROVE  Result(column, p, q, c) \in Outcome(Half8)
<1>1. ASSUME NEW r \in Octet PROVE Logic(r, c) \in Outcome(Half8)
  BY SetNzStays, InOctet, Halves DEF Logic, Outcome, Width
<1>2. ASSUME NEW r \in Outcome(Half8) PROVE [r EXCEPT !.value = p] \in Outcome(Half8)
  BY InOctet, Halves DEF Outcome, Width
<1>3. /\ Combine(And, p, q) \in Octet /\ Combine(Or, p, q) \in Octet
      /\ Combine(Xor, p, q) \in Octet
  BY CombineFits
<1>4. /\ sub8_flags(Half8, p, q, c) \in Outcome(Half8)
      /\ sbc8_flags(Half8, p, q, c) \in Outcome(Half8)
      /\ add8_flags(Half8, p, q, c) \in Outcome(Half8)
      /\ adc8_flags(Half8, p, q, c) \in Outcome(Half8)
  <2>1. /\ Half8 \in {128, 32768}
        /\ p \in Width(Half8) /\ q \in Width(Half8)
    BY InOctet, Halves DEF Width
  <2> QED BY <2>1, TwoOperands
<1> QED BY <1>1, <1>2, <1>3, <1>4 DEF Result

LEMMA FlagsFit == \A v : Flags(v) \in SUBSET Flag
BY DEF Flags

\* CC as a byte, and a byte as CC.
LEMMA FlagByteFits == \A c : FlagByte(c) \in Octet
BY InOctet DEF FlagByte, Weight

-----------------------------------------------------------------------------
(* Addresses, memory and registers.                                        *)

\* A sum of addresses stays in memory.
LEMMA PlusFits ==
  ASSUME NEW i \in Int, NEW k \in Int
  PROVE  Plus(i, k) \in Address
BY InAddress DEF Plus

\* One after another.
LEMMA PlusPlus ==
  ASSUME NEW i \in Int, NEW j \in Int, NEW k \in Int
  PROVE  Plus(Plus(i, j), k) = Plus(i, j + k)
BY DEF Plus

\* Zero leads nowhere.
LEMMA PlusZero ==
  ASSUME NEW i \in Address
  PROVE  Plus(i, 0) = i
BY InAddress DEF Plus

\* A signed number is a number.
LEMMA SignedFits ==
  ASSUME NEW h \in Nat, NEW v \in Nat
  PROVE  Signed(h, v) \in Int
BY DEF Signed


\* What memory holds are bytes and words.
LEMMA ReadFits ==
  ASSUME NEW p \in Machines, NEW i
  PROVE  Read(p, i) \in Octet
<1>1. PICK where \in SUBSET Address : p.ram \in [where -> Octet]
  BY DEF Machines, Memories
<1>2. 0 \in Octet
  BY InOctet
<1> QED BY <1>1, <1>2 DEF Read

LEMMA WordFits ==
  ASSUME NEW p \in Machines, NEW i
  PROVE  Word(p, i) \in Address
<1>1. Read(p, i) \in Octet /\ Read(p, Plus(i, 1)) \in Octet
  BY ReadFits
<1> QED BY <1>1, InOctet, InAddress DEF Word

\* q has the memory of p.
SameMemory(p, q) == q.ram = p.ram /\ q.wrote = p.wrote

\* q is a machine that differs from p in memory only where q.wrote says.
Follows(p, q) ==
  /\ q \in Machines
  /\ p.wrote \subseteq q.wrote
  /\ \A i \in Address \ q.wrote : Read(q, i) = Read(p, i)

\* Reading depends on memory alone.
LEMMA SameMemoryReads ==
  ASSUME NEW p, NEW q, SameMemory(p, q), NEW i
  PROVE  Read(q, i) = Read(p, i) /\ Word(q, i) = Word(p, i)
BY DEF SameMemory, Read, Word

\* Who leaves memory and what was written alone writes nothing.
LEMMA SameMemoryFollows ==
  ASSUME NEW p, NEW q \in Machines, SameMemory(p, q)
  PROVE  Follows(p, q)
BY DEF SameMemory, Follows, Read

\* Writes add up.
LEMMA FollowsOn ==
  ASSUME NEW p, NEW q, NEW r, Follows(p, q), Follows(q, r)
  PROVE  Follows(p, r)
BY DEF Follows

\* A register is set.
LEMMA SetWord ==
  ASSUME NEW p \in Machines, NEW r \in {"x", "y", "u", "s", "pc"}, NEW v \in Address,
         NEW q, q = [p EXCEPT ![r] = v]
  PROVE  /\ q \in Machines /\ SameMemory(p, q)
         /\ r # "pc" => q.pc = p.pc
         /\ r = "pc" => q.pc = v
         /\ r # "s" => q.s = p.s
         /\ q[r] = v
BY DEF Machines, SameMemory

\* Registers are set to what fits them.
LEMMA SetOctet ==
  ASSUME NEW p \in Machines, NEW r \in {"a", "b", "dp"}, NEW v \in Octet,
         NEW q, q = [p EXCEPT ![r] = v]
  PROVE  q \in Machines /\ SameMemory(p, q) /\ q.pc = p.pc /\ q.s = p.s
BY DEF Machines, SameMemory

LEMMA SetFlags ==
  ASSUME NEW p \in Machines, NEW c \in SUBSET Flag, NEW q, q = [p EXCEPT !.cc = c]
  PROVE  q \in Machines /\ SameMemory(p, q) /\ q.pc = p.pc /\ q.s = p.s
BY DEF Machines, SameMemory

\* PC goes on.
LEMMA SkipFits ==
  ASSUME NEW p \in Machines, NEW k \in Int
  PROVE  /\ Skip(p, k) \in Machines /\ SameMemory(p, Skip(p, k))
         /\ Skip(p, k).pc = Plus(p.pc, k)
         /\ Skip(p, k).s = p.s
<1>1. p.pc \in Int
  BY InAddress DEF Machines
<1>2. Plus(p.pc, k) \in Address
  BY <1>1, PlusFits
<1> QED BY <1>2, SetWord DEF Skip

Fits(r) == IF Is16(r) THEN Address ELSE Octet

Named == {"d", "x", "y", "u", "s", "pc", "a", "b", "cc", "dp"}

\* Registers by name hold what fits them, and keep to it.
LEMMA GetFits ==
  ASSUME NEW p \in Machines, NEW r \in Named
  PROVE  Get(p, r) \in Fits(r)
<1>1. CASE r = "d"
  <2>1. p.a \in Octet /\ p.b \in Octet
    BY DEF Machines
  <2>2. 256 * p.a + p.b \in Address
    BY <2>1, InOctet, InAddress
  <2> QED BY <1>1, <2>2 DEF Get, Fits, Is16
<1>2. CASE r = "cc"
  BY <1>2, FlagByteFits DEF Get, Fits, Is16
<1>3. CASE r \in {"x", "y", "u", "s", "pc"}
  BY <1>3 DEF Get, Fits, Is16, Machines
<1>4. CASE r \in {"a", "b", "dp"}
  BY <1>4 DEF Get, Fits, Is16, Machines
<1> QED BY <1>1, <1>2, <1>3, <1>4 DEF Named

LEMMA PutFits ==
  ASSUME NEW p \in Machines, NEW r \in Named, NEW v \in Fits(r)
  PROVE  /\ Put(p, r, v) \in Machines /\ SameMemory(p, Put(p, r, v))
         /\ r # "pc" => Put(p, r, v).pc = p.pc
         /\ r = "pc" => Put(p, r, v).pc = v
<1>1. CASE r = "d"
  <2>1. v \div 256 \in Octet /\ v % 256 \in Octet
    BY <1>1, InOctet, InAddress DEF Fits, Is16
  <2>2. PICK q : q = [p EXCEPT !.a = v \div 256]
    OBVIOUS
  <2>3. PICK t : t = [q EXCEPT !.b = v % 256]
    OBVIOUS
  <2>4. q \in Machines /\ SameMemory(p, q) /\ q.pc = p.pc
    BY <2>1, <2>2 DEF Machines, SameMemory
  <2>5. t \in Machines /\ SameMemory(q, t) /\ t.pc = q.pc
    BY <2>1, <2>3, <2>4 DEF Machines, SameMemory
  <2>6. Put(p, r, v) = t
    BY <1>1, <2>2, <2>3 DEF Put, Machines
  <2> QED BY <1>1, <2>4, <2>5, <2>6 DEF SameMemory
<1>2. CASE r = "cc"
  BY <1>2, FlagsFit, SetFlags DEF Put
<1>3. CASE r \in {"x", "y", "u", "s", "pc"}
  <2>1. v \in Address
    BY <1>3 DEF Fits, Is16
  <2>2. Put(p, r, v) = [p EXCEPT ![r] = v]
    BY <1>3 DEF Put
  <2> QED BY <1>3, <2>1, <2>2 DEF Machines, SameMemory
<1>4. CASE r \in {"a", "b", "dp"}
  <2>1. v \in Octet
    BY <1>4 DEF Fits, Is16
  <2>2. Put(p, r, v) = [p EXCEPT ![r] = v]
    BY <1>4 DEF Put
  <2> QED BY <1>4, <2>1, <2>2 DEF Machines, SameMemory
<1> QED BY <1>1, <1>2, <1>3, <1>4 DEF Named

\* A write changes one address, and wrote says which.
LEMMA WriteFits ==
  ASSUME NEW p \in Machines, NEW i \in Address, NEW v \in Octet
  PROVE  LET q == Write(p, i, v)
         IN  /\ Follows(p, q)
             /\ \A j : Read(q, j) = IF j = i THEN v ELSE Read(p, j)
             /\ q.pc = p.pc /\ q.s = p.s /\ q.u = p.u /\ q.cc = p.cc
<1> DEFINE q == Write(p, i, v)
           ram == [j \in DOMAIN p.ram \cup {i} |-> IF j = i THEN v ELSE p.ram[j]]
<1>1. PICK where \in SUBSET Address : p.ram \in [where -> Octet]
  BY DEF Machines, Memories
<1>2. ram \in [where \cup {i} -> Octet]
  BY <1>1
<1>3. where \cup {i} \in SUBSET Address
  OBVIOUS
<1>4. ram \in Memories
  BY <1>2, <1>3 DEF Memories
<1>5. q = [p EXCEPT !.ram = ram, !.wrote = @ \cup {i}]
  BY DEF Write
<1>6. /\ q \in Machines /\ q.ram = ram /\ q.wrote = p.wrote \cup {i}
      /\ q.pc = p.pc /\ q.s = p.s /\ q.u = p.u /\ q.cc = p.cc
  <2>1. PICK w \in SUBSET Address : w = p.wrote \cup {i}
    BY DEF Machines
  <2>2. PICK t : t = [p EXCEPT !.ram = ram]
    OBVIOUS
  <2> HIDE DEF ram
  <2>3. /\ t \in Machines /\ t.ram = ram
        /\ t.pc = p.pc /\ t.s = p.s /\ t.u = p.u /\ t.cc = p.cc
    BY <1>4, <2>2 DEF Machines
  <2>4. q = [t EXCEPT !.wrote = w]
    BY <1>5, <2>1, <2>2 DEF Machines
  <2> HIDE DEF q
  <2> QED BY <2>1, <2>3, <2>4 DEF Machines
<1>7. \A j : Read(q, j) = IF j = i THEN v ELSE Read(p, j)
  <2> HIDE DEF q
  <2> QED BY <1>6 DEF Read
<1> HIDE DEF q
<1>8. Follows(p, q)
  BY <1>6, <1>7 DEF Follows
<1> QED BY <1>6, <1>7, <1>8 DEF q

\* A write of a word changes two.
LEMMA WriteWordFits ==
  ASSUME NEW p \in Machines, NEW i \in Address, NEW v \in Address
  PROVE  Follows(p, WriteWord(p, i, v)) /\ WriteWord(p, i, v).pc = p.pc
<1> DEFINE q == Write(p, i, v \div 256)
<1>1. v \div 256 \in Octet /\ v % 256 \in Octet
  BY InOctet, InAddress
<1>2. Follows(p, q) /\ q.pc = p.pc
  BY <1>1, WriteFits
<1>3. q \in Machines
  BY <1>2 DEF Follows
<1>4. Plus(i, 1) \in Address
  BY PlusFits, InAddress
<1> HIDE DEF q
<1>5. Follows(q, Write(q, Plus(i, 1), v % 256)) /\ Write(q, Plus(i, 1), v % 256).pc = q.pc
  BY <1>1, <1>3, <1>4, WriteFits
<1> QED BY <1>2, <1>5, FollowsOn DEF WriteWord, q

-----------------------------------------------------------------------------
(* Operands.                                                               *)

\* What comes of fetching an operand of k bytes: only PC and index registers move.
Fetches(p, o, k) ==
  /\ o.m \in Machines /\ SameMemory(p, o.m)
  /\ o.m.pc = Plus(p.pc, k)
  /\ o.ea \in Address

\* The register of an indexed operand.
LEMMA IndexRegisterFits ==
  ASSUME NEW pb \in Octet
  PROVE  IndexRegister(pb) \in {"x", "y", "u", "s"}
<1>1. PICK i \in Int : i = pb \div 32
  BY InOctet
<1>2. i % 4 \in 0 .. 3
  BY <1>1
<1> QED BY <1>1, <1>2 DEF IndexRegister

\* Auto-increment and auto-decrement move it and nothing else.
LEMMA SteppingFits ==
  ASSUME NEW p \in Machines, NEW r \in {"x", "y", "u", "s"}, NEW before \in Int, NEW after \in Int
  PROVE  Fetches(p, Stepping(p, r, before, after), 1)
<1> DEFINE q == [p EXCEPT ![r] = Plus(@, after)]
<1>1. p[r] \in Int
  BY InAddress DEF Machines
<1>2. Plus(p[r], after) \in Address /\ Plus(p[r], before) \in Address
  BY <1>1, PlusFits
<1>3. q \in Machines /\ SameMemory(p, q) /\ q.pc = p.pc
  BY <1>2 DEF Machines, SameMemory
<1> HIDE DEF q
<1>4. /\ Skip(q, 1) \in Machines /\ SameMemory(q, Skip(q, 1))
      /\ Skip(q, 1).pc = Plus(q.pc, 1)
  BY <1>3, SkipFits
<1>5. SameMemory(p, Skip(q, 1))
  BY <1>3, <1>4 DEF SameMemory
<1>6. Stepping(p, r, before, after) = [m |-> Skip(q, 1), ea |-> Plus(p[r], before)]
  BY DEF Stepping, q
<1> QED BY <1>2, <1>3, <1>4, <1>5, <1>6 DEF Fetches

\* Bytes of an indexed operand, postbyte included.
IndexBytes(pb) == IF pb < 128 THEN 1 ELSE 1 + OffsetBytes(pb % 16)

\* An indexed operand: where it is, and how far PC has gone.
LEMMA IndexedFits ==
  ASSUME NEW p \in Machines
  PROVE  Fetches(p, ea_indexed(p), IndexBytes(Read(p, p.pc)))
<1> DEFINE pb   == Read(p, p.pc)
           r    == IndexRegister(pb)
           form == pb % 16
           low  == Plus(p.pc, 1)
           past == Skip(p, 1 + OffsetBytes(form))
           base == CASE form \in {12, 13} -> past.pc
                     [] form = 15         -> 0
                     [] OTHER             -> p[r]
           off  == CASE form = 5              -> Signed(Half8, p.b)
                     [] form = 6              -> Signed(Half8, p.a)
                     [] form = 11             -> Get(p, "d")
                     [] OffsetBytes(form) = 1 -> Signed(Half8, Read(p, low))
                     [] OffsetBytes(form) = 2 -> Word(p, low)
                     [] OTHER                 -> 0
           ea   == Plus(base, off)
           indirect == form = 15 \/ ((pb \div 16) % 2 = 1 /\ form \notin {7, 10, 14})
           there == IF indirect THEN Word(p, ea) ELSE ea
<1>1. pb \in Octet /\ r \in {"x", "y", "u", "s"}
  BY ReadFits, IndexRegisterFits
<1>2. p[r] \in Address
  BY <1>1 DEF Machines
<1>3. form \in 0 .. 15
  <2>1. pb \in Int
    BY <1>1, InOctet
  <2> HIDE DEF pb
  <2> QED BY <2>1
<1>4. OffsetBytes(form) \in 0 .. 2
  BY DEF OffsetBytes
<1> HIDE DEF form
<1>5. /\ past \in Machines /\ SameMemory(p, past)
      /\ past.pc = Plus(p.pc, 1 + OffsetBytes(form))
  <2>1. PICK k \in Int : k = 1 + OffsetBytes(form)
    BY <1>4
  <2> QED BY <2>1, SkipFits
<1> HIDE DEF past, pb, r
<1>6. base \in Int
  BY <1>2, <1>5, InAddress DEF Machines
<1>7. off \in Int
  <2>1. \A v \in Octet : Signed(Half8, v) \in Int
    BY InOctet, Halves DEF Signed
  <2>2. /\ Signed(Half8, p.b) \in Int /\ Signed(Half8, p.a) \in Int
        /\ Signed(Half8, Read(p, low)) \in Int
    BY <2>1, ReadFits DEF Machines
  <2>3. Get(p, "d") \in Int /\ Word(p, low) \in Int
    BY GetFits, WordFits, InAddress DEF Named, Fits, Is16
  <2> HIDE DEF low
  <2> QED BY <2>2, <2>3
<1> HIDE DEF base, off
<1>8. ea \in Address
  BY <1>6, <1>7, PlusFits
<1> HIDE DEF ea, indirect
<1>9. there \in Address
  BY <1>8, WordFits
<1> HIDE DEF there
<1>10. CASE pb < 128
  <2>1. pb % 32 \in Nat
    BY <1>1, InOctet
  <2>2. Signed(16, pb % 32) \in Int
    BY <2>1, SignedFits
  <2>3. Plus(p[r], Signed(16, pb % 32)) \in Address
    <3>1. p[r] \in Int
      BY <1>2, InAddress
    <3>2. PICK i \in Int : i = p[r]
      BY <3>1
    <3>3. PICK j \in Int : j = Signed(16, pb % 32)
      BY <2>2
    <3> QED BY <3>2, <3>3, PlusFits
  <2>4. ea_indexed(p) = [m |-> Skip(p, 1), ea |-> Plus(p[r], Signed(16, pb % 32))]
    BY <1>10, <1>1, InOctet DEF ea_indexed, pb, r
  <2>5. IndexBytes(pb) = 1
    BY <1>10 DEF IndexBytes
  <2> QED BY <2>3, <2>4, <2>5, SkipFits DEF Fetches, pb
<1>11. CASE pb >= 128 /\ form \in 0 .. 3
  <2>1. IndexBytes(pb) = 1
    BY <1>11, <1>1, InOctet DEF IndexBytes, form, OffsetBytes
  <2>2. \/ ea_indexed(p) = Stepping(p, r, 0, 1)
        \/ ea_indexed(p) = Stepping(p, r, 0, 2)
        \/ ea_indexed(p) = Stepping(p, r, -1, -1)
        \/ ea_indexed(p) = Stepping(p, r, -2, -2)
    BY <1>11, <1>1, InOctet DEF ea_indexed, pb, r, form
  <2> QED BY <1>1, <2>1, <2>2, SteppingFits DEF pb
<1>12. CASE pb >= 128 /\ form > 3
  <2>1. IndexBytes(pb) = 1 + OffsetBytes(form)
    BY <1>12, <1>1, InOctet DEF IndexBytes, form
  <2>2. ea_indexed(p) = [m |-> past, ea |-> there]
    BY <1>12, <1>1, InOctet
       DEF ea_indexed, pb, r, form, past, there, indirect, ea, base, off
  <2> QED BY <1>5, <1>9, <2>1, <2>2 DEF Fetches, pb
<1>13. pb < 128 \/ pb >= 128
  BY <1>1, InOctet
<1> QED BY <1>3, <1>10, <1>11, <1>12, <1>13

Modes == {"imm", "dir", "idx", "ext"}

\* Bytes of an operand; of an immediate one, k.
OperandBytes(p, mode, k) ==
  CASE mode = "imm" -> k
    [] mode = "dir" -> 1
    [] mode = "idx" -> IndexBytes(Read(p, p.pc))
    [] mode = "ext" -> 2

\* The same of every mode.
LEMMA OperandFits ==
  ASSUME NEW p \in Machines, NEW mode \in Modes, NEW k \in 1 .. 2
  PROVE  Fetches(p, Operand(p, mode, k), OperandBytes(p, mode, k))
<1>1. CASE mode = "imm"
  <2>1. p.pc \in Address
    BY DEF Machines
  <2>2. Operand(p, mode, k) = [m |-> Skip(p, k), ea |-> p.pc]
    BY <1>1 DEF Operand
  <2> QED BY <1>1, <2>1, <2>2, SkipFits DEF Fetches, OperandBytes
<1>2. CASE mode = "dir"
  <2>1. p.dp \in Octet /\ Read(p, p.pc) \in Octet
    BY ReadFits DEF Machines
  <2>2. 256 * p.dp + Read(p, p.pc) \in Address
    BY <2>1, InOctet, InAddress
  <2>3. Operand(p, mode, k) = [m |-> Skip(p, 1), ea |-> 256 * p.dp + Read(p, p.pc)]
    BY <1>2 DEF Operand
  <2> QED BY <1>2, <2>2, <2>3, SkipFits DEF Fetches, OperandBytes
<1>3. CASE mode = "idx"
  BY <1>3, IndexedFits DEF Operand, OperandBytes
<1>4. CASE mode = "ext"
  <2>1. Operand(p, mode, k) = [m |-> Skip(p, 2), ea |-> Word(p, p.pc)]
    BY <1>4 DEF Operand
  <2> QED BY <1>4, <2>1, WordFits, SkipFits DEF Fetches, OperandBytes
<1> QED BY <1>1, <1>2, <1>3, <1>4 DEF Modes

\* An opcode has one of the modes.
LEMMA ModeFits ==
  ASSUME NEW op \in Octet
  PROVE  Mode(op) \in Modes /\ InMemory(op) \in Modes
<1>1. PICK i \in Int : i = op \div 16
  BY InOctet
<1>2. i % 4 \in 0 .. 3
  BY <1>1
<1>3. Mode(op) \in Modes
  BY <1>1, <1>2 DEF Mode, Modes
<1> QED BY <1>3 DEF InMemory, Modes

-----------------------------------------------------------------------------
(* Instructions with an operand.                                           *)

\* An instruction leaves PC k bytes further.
Ends(p, q, k) == Follows(p, q) /\ q.pc = Plus(p.pc, k)

\* How an instruction ends: composition of what precedes.
LEMMA FetchEnds ==
  ASSUME NEW p, NEW o, NEW k, Fetches(p, o, k)
  PROVE  Ends(p, o.m, k)
BY SameMemoryFollows DEF Fetches, Ends

LEMMA EndsOn ==
  ASSUME NEW p, NEW q, NEW k, Ends(p, q, k), NEW r, Follows(q, r), r.pc = q.pc
  PROVE  Ends(p, r, k)
BY FollowsOn DEF Ends

LEMMA FlagsEnd ==
  ASSUME NEW p, NEW q, NEW k, Ends(p, q, k), NEW c \in SUBSET Flag,
         NEW r, r = [q EXCEPT !.cc = c]
  PROVE  Ends(p, r, k)
<1>1. q \in Machines
  BY DEF Ends, Follows
<1>2. r \in Machines /\ SameMemory(q, r) /\ r.pc = q.pc
  BY <1>1, SetFlags
<1> QED BY <1>2, SameMemoryFollows, EndsOn

LEMMA PutEnds ==
  ASSUME NEW p, NEW q, NEW k, Ends(p, q, k), NEW r \in Named \ {"pc"}, NEW v \in Fits(r)
  PROVE  Ends(p, Put(q, r, v), k)
<1>1. q \in Machines
  BY DEF Ends, Follows
<1>2. /\ Put(q, r, v) \in Machines /\ SameMemory(q, Put(q, r, v))
      /\ Put(q, r, v).pc = q.pc
  BY <1>1, PutFits
<1> QED BY <1>2, SameMemoryFollows, EndsOn

LEMMA WriteEnds ==
  ASSUME NEW p, NEW q, NEW k, Ends(p, q, k), NEW i \in Address, NEW v \in Octet
  PROVE  Ends(p, Write(q, i, v), k)
<1>1. q \in Machines
  BY DEF Ends, Follows
<1>2. Follows(q, Write(q, i, v)) /\ Write(q, i, v).pc = q.pc
  BY <1>1, WriteFits
<1> QED BY <1>2, EndsOn

LEMMA WriteWordEnds ==
  ASSUME NEW p, NEW q, NEW k, Ends(p, q, k), NEW i \in Address, NEW v \in Address
  PROVE  Ends(p, WriteWord(q, i, v), k)
<1>1. q \in Machines
  BY DEF Ends, Follows
<1>2. Follows(q, WriteWord(q, i, v)) /\ WriteWord(q, i, v).pc = q.pc
  BY <1>1, WriteWordFits
<1> QED BY <1>2, EndsOn

LEMMA ByteOpEnds ==
  ASSUME NEW p \in Machines, NEW r \in {"a", "b"}, NEW op \in Octet, IsByteOp(op)
  PROVE  Ends(p, ByteOp(p, r, op), OperandBytes(p, Mode(op), 1))
<1> DEFINE o == Operand(p, Mode(op), 1)
           k == OperandBytes(p, Mode(op), 1)
           v == Result(op % 16, p[r], Read(o.m, o.ea), p.cc)
<1>1. Fetches(p, o, k)
  BY ModeFits, OperandFits
<1> HIDE DEF o, k
<1>2. Ends(p, o.m, k) /\ o.m \in Machines /\ o.ea \in Address
  BY <1>1, FetchEnds DEF Fetches
<1>3. p[r] \in Octet /\ p.cc \in SUBSET Flag
  BY DEF Machines
<1>4. CASE op % 16 = 7
  <2> DEFINE q == Write(o.m, o.ea, p[r])
  <2>1. Ends(p, q, k)
    BY <1>2, <1>3, WriteEnds
  <2>2. q.cc \in SUBSET Flag
    BY <2>1 DEF Ends, Follows, Machines
  <2>3. logic_nz_clearv(Half8, p[r], q.cc) \in SUBSET Flag
    BY <2>2, SetNzStays
  <2>4. ByteOp(p, r, op) = [q EXCEPT !.cc = logic_nz_clearv(Half8, p[r], q.cc)]
    BY <1>4 DEF ByteOp, o
  <2> HIDE DEF q
  <2> QED BY <2>1, <2>3, <2>4, FlagsEnd DEF k
<1>5. CASE op % 16 # 7
  <2>1. op % 16 \in (0 .. 11) \ {3, 7}
    BY <1>5 DEF IsByteOp
  <2>2. v \in Outcome(Half8)
    BY <1>2, <1>3, <2>1, ReadFits, ResultFits
  <2> HIDE DEF v
  <2>3. v.value \in Octet /\ v.cc \in SUBSET Flag
    BY <2>2 DEF Outcome, Width, Octet
  <2>4. ByteOp(p, r, op) = [[o.m EXCEPT ![r] = v.value] EXCEPT !.cc = v.cc]
    BY <1>2, <1>5 DEF ByteOp, o, v, Machines
  <2>5. PICK q : q = [o.m EXCEPT ![r] = v.value]
    OBVIOUS
  <2>6. q \in Machines /\ SameMemory(o.m, q) /\ q.pc = o.m.pc
    BY <1>2, <2>3, <2>5, SetOctet
  <2>7. Ends(p, q, k)
    BY <1>2, <2>6, SameMemoryFollows, EndsOn
  <2> QED BY <2>3, <2>4, <2>5, <2>7, FlagsEnd DEF k
<1> QED BY <1>4, <1>5

\* The instructions on 16 bits that a page has.
IsWideTable(ops) ==
  \A base \in DOMAIN ops :
    \E kind \in {"LD", "ST", "CMP", "SUB", "ADD"}, r \in {"d", "x", "y", "u", "s"} :
      ops[base] = <<kind, r>>

LEMMA WideTables == IsWideTable(FirstWide) /\ IsWideTable(Wide10) /\ IsWideTable(Wide11)
BY DEF IsWideTable, FirstWide, Wide10, Wide11

\* Every instruction on 16 bits.
LEMMA WideOpEnds ==
  ASSUME NEW p \in Machines, NEW ops, IsWideTable(ops), NEW op \in Octet, IsWideOp(ops, op)
  PROVE  Ends(p, WideOp(p, ops, op), OperandBytes(p, Mode(op), 2))
<1> DEFINE o == Operand(p, Mode(op), 2)
           k == OperandBytes(p, Mode(op), 2)
<1>1. Fetches(p, o, k)
  BY ModeFits, OperandFits
<1>2. PICK kind \in {"LD", "ST", "CMP", "SUB", "ADD"}, r \in {"d", "x", "y", "u", "s"} :
        ops[Base(op)] = <<kind, r>>
  BY DEF IsWideOp, IsWideTable
<1>3. /\ kind = "LD"  => WideOp(p, ops, op) = Load16(o, r)
      /\ kind = "ST"  => WideOp(p, ops, op) = Store16(o, r)
      /\ kind = "CMP" => WideOp(p, ops, op) = Compare16(o, r)
      /\ kind = "SUB" => WideOp(p, ops, op) = Subtract16(o, r)
      /\ kind = "ADD" => WideOp(p, ops, op) = Add16(o, r)
  BY <1>2 DEF WideOp
<1> HIDE DEF o, k
<1>4. Ends(p, o.m, k) /\ o.m \in Machines /\ o.ea \in Address
  BY <1>1, FetchEnds DEF Fetches
<1>5. r \in Named \ {"pc"} /\ Is16(r) /\ Fits(r) = Address
  BY DEF Named, Is16, Fits
<1>6. Get(o.m, r) \in Address /\ Word(o.m, o.ea) \in Address
  BY <1>4, <1>5, GetFits, WordFits
<1>7. o.m.cc \in SUBSET Flag
  BY <1>4 DEF Machines
<1>8. ASSUME NEW q, Ends(p, q, k), NEW v
      PROVE  Ends(p, [q EXCEPT !.cc = logic_nz_clearv(Half16, v, @)], k)
  <2>1. q.cc \in SUBSET Flag
    BY <1>8 DEF Ends, Follows, Machines
  <2>2. logic_nz_clearv(Half16, v, q.cc) \in SUBSET Flag
    BY <2>1, SetNzStays
  <2> QED BY <1>8, <2>2, FlagsEnd
<1>9. Ends(p, Load16(o, r), k)
  <2>1. Ends(p, Put(o.m, r, Word(o.m, o.ea)), k)
    BY <1>4, <1>5, <1>6, PutEnds
  <2> QED BY <1>8, <2>1 DEF Load16
<1>10. Ends(p, Store16(o, r), k)
  <2>1. Ends(p, WriteWord(o.m, o.ea, Get(o.m, r)), k)
    BY <1>4, <1>6, WriteWordEnds
  <2> QED BY <1>8, <2>1 DEF Store16
<1>11. /\ Difference16(o, r).value \in Address /\ Difference16(o, r).cc \in SUBSET Flag
       /\ Sum16(o, r).value \in Address /\ Sum16(o, r).cc \in SUBSET Flag
  <2>1. Half16 \in {128, 32768}
    BY Halves
  <2>2. Get(o.m, r) \in Width(Half16) /\ Word(o.m, o.ea) \in Width(Half16)
    BY <1>6, WideIsAddress
  <2>3. Difference16(o, r) \in Outcome(Half16) /\ Sum16(o, r) \in Outcome(Half16)
    BY <1>7, <2>1, <2>2, TwoOperands DEF Difference16, Sum16
  <2> QED BY <2>3, WideIsAddress DEF Outcome
<1>12. Ends(p, Compare16(o, r), k)
  BY <1>4, <1>11, FlagsEnd DEF Compare16
<1>13. Ends(p, Subtract16(o, r), k)
  BY <1>5, <1>11, <1>12, PutEnds DEF Subtract16
<1>14. Ends(p, Add16(o, r), k)
  <2>1. Ends(p, Put(o.m, r, Sum16(o, r).value), k)
    BY <1>4, <1>5, <1>11, PutEnds
  <2> QED BY <1>11, <2>1, FlagsEnd DEF Add16
<1> QED BY <1>3, <1>9, <1>10, <1>12, <1>13, <1>14 DEF k

\* Bytes of the operand of an instruction on one byte.
OneByteBytes(p, op) ==
  IF op \div 16 \in {4, 5} THEN 0 ELSE OperandBytes(p, InMemory(op), 1)

\* Every instruction on a byte in memory or in an accumulator.
LEMMA OneByteEnds ==
  ASSUME NEW p \in Machines, NEW op \in Octet, IsOneByteOp(op)
  PROVE  Ends(p, OneByteOp(p, op), OneByteBytes(p, op))
<1>1. op % 16 \in OneByteColumns
  BY DEF IsOneByteOp, OneByteColumns
<1>2. p.cc \in SUBSET Flag /\ p.pc \in Address
  BY DEF Machines
<1>3. ASSUME NEW r \in {"a", "b"}
      PROVE  Ends(p, OneByteIn(p, r, op), 0)
  <2> DEFINE v == OneByte(op % 16, p[r], p.cc)
  <2>1. p[r] \in Octet
    BY DEF Machines
  <2>2. v \in Outcome(Half8)
    BY <1>1, <1>2, <2>1, OneOperand
  <2> HIDE DEF v
  <2>3. v.value \in Octet /\ v.cc \in SUBSET Flag
    BY <2>2 DEF Outcome, Width, Octet
  <2>4. OneByteIn(p, r, op) = [[p EXCEPT ![r] = v.value] EXCEPT !.cc = v.cc]
    BY DEF OneByteIn, v, Machines
  <2>5. PICK q : q = [p EXCEPT ![r] = v.value]
    OBVIOUS
  <2>6. q \in Machines /\ SameMemory(p, q) /\ q.pc = p.pc
    BY <2>3, <2>5 DEF Machines, SameMemory
  <2>7. Ends(p, q, 0)
    BY <1>2, <2>6, SameMemoryFollows, PlusZero DEF Ends
  <2> QED BY <2>3, <2>4, <2>5, <2>7, FlagsEnd
<1>4. ASSUME op \div 16 \notin {4, 5}
      PROVE  Ends(p, OneByteAt(p, op), OperandBytes(p, InMemory(op), 1))
  <2> DEFINE o == Operand(p, InMemory(op), 1)
             k == OperandBytes(p, InMemory(op), 1)
             v == OneByte(op % 16, Read(o.m, o.ea), p.cc)
             q == [o.m EXCEPT !.cc = v.cc]
  <2>1. Fetches(p, o, k)
    BY ModeFits, OperandFits
  <2> HIDE DEF o, k
  <2>2. Ends(p, o.m, k) /\ o.m \in Machines /\ o.ea \in Address
    BY <2>1, FetchEnds DEF Fetches
  <2>3. v \in Outcome(Half8)
    BY <1>1, <1>2, <2>2, ReadFits, OneOperand
  <2> HIDE DEF v
  <2>4. v.value \in Octet /\ v.cc \in SUBSET Flag
    BY <2>3 DEF Outcome, Width, Octet
  <2>5. Ends(p, q, k)
    BY <2>2, <2>4, FlagsEnd
  <2> HIDE DEF q
  <2>6. Ends(p, Write(q, o.ea, v.value), k)
    BY <2>2, <2>4, <2>5, WriteEnds
  <2>7. OneByteAt(p, op) = q \/ OneByteAt(p, op) = Write(q, o.ea, v.value)
    BY DEF OneByteAt, q, v, o
  <2> QED BY <2>5, <2>6, <2>7 DEF k
<1>5. CASE op \div 16 = 4
  BY <1>3, <1>5 DEF OneByteOp, OneByteBytes
<1>6. CASE op \div 16 = 5
  BY <1>3, <1>6 DEF OneByteOp, OneByteBytes
<1>7. CASE op \div 16 \notin {4, 5}
  BY <1>4, <1>7 DEF OneByteOp, OneByteBytes
<1> QED BY <1>5, <1>6, <1>7

-----------------------------------------------------------------------------
(* Instructions that move registers, the stack, and branches.              *)

LEMMA FollowsSelf ==
  ASSUME NEW p \in Machines
  PROVE  Follows(p, p) /\ Ends(p, p, 0)
<1>1. p.pc \in Address
  BY DEF Machines
<1> QED BY <1>1, PlusZero DEF Follows, Ends

\* Registers by number, those of 16 bits first.
LEMMA RegisterNames ==
  ASSUME NEW i \in 0 .. 15
  PROVE  Registers[i + 1] = "none" \/ Registers[i + 1] \in Named
BY DEF Registers, Named

LEMMA NibblesFit ==
  ASSUME NEW v \in Octet
  PROVE  v \div 16 \in 0 .. 15 /\ v % 16 \in 0 .. 15
BY InOctet

\* EXG and TFR.
LEMMA TransferFits ==
  ASSUME NEW p \in Machines, NEW op
  PROVE  LET pb == Read(p, p.pc)
         IN  /\ Follows(p, Transfer(p, op))
             /\ 5 \notin {pb \div 16, pb % 16} => Ends(p, Transfer(p, op), 1)
<1> DEFINE pb == Read(p, p.pc)
           src == Registers[(pb \div 16) + 1]
           dst == Registers[(pb % 16) + 1]
           q == Skip(p, 1)
           r == Transfer(p, op)
<1>1. /\ src = "none" \/ src \in Named
      /\ dst = "none" \/ dst \in Named
  BY ReadFits, NibblesFit, RegisterNames
<1>2. pb \div 16 \in 0 .. 15 /\ pb % 16 \in 0 .. 15
  BY ReadFits, NibblesFit
<1>3. 5 \notin {pb \div 16, pb % 16} => src # "pc" /\ dst # "pc"
  <2>1. \A i \in 0 .. 15 : Registers[i + 1] = "pc" => i = 5
    BY DEF Registers
  <2> HIDE DEF pb
  <2> QED BY <1>2, <2>1
<1>4. q \in Machines /\ SameMemory(p, q) /\ q.pc = Plus(p.pc, 1)
  BY SkipFits
<1>5. /\ r = q
      \/ /\ src \in Named /\ dst \in Named /\ Is16(src) = Is16(dst)
         /\ \/ r = Put(q, dst, Get(q, src))
            \/ r = Put(Put(q, src, Get(q, dst)), dst, Get(q, src))
  BY <1>1 DEF Transfer, Named
<1> HIDE DEF q, r, src, dst
<1>6. CASE r = q
  BY <1>4, <1>6, SameMemoryFollows DEF Ends, r
<1>7. ASSUME src \in Named, dst \in Named, Is16(src) = Is16(dst)
      PROVE  /\ Get(q, src) \in Fits(dst) /\ Get(q, dst) \in Fits(src)
  BY <1>4, <1>7, GetFits DEF Fits
<1>8. ASSUME src \in Named, dst \in Named, Is16(src) = Is16(dst),
             r = Put(q, dst, Get(q, src))
      PROVE  /\ r \in Machines /\ SameMemory(q, r)
             /\ dst # "pc" => r.pc = q.pc
  BY <1>4, <1>7, <1>8, PutFits
<1>9. ASSUME src \in Named, dst \in Named, Is16(src) = Is16(dst),
             r = Put(Put(q, src, Get(q, dst)), dst, Get(q, src))
      PROVE  /\ r \in Machines /\ SameMemory(q, r)
             /\ src # "pc" /\ dst # "pc" => r.pc = q.pc
  <2>1. PICK t : t = Put(q, src, Get(q, dst))
    OBVIOUS
  <2>2. t \in Machines /\ SameMemory(q, t) /\ (src # "pc" => t.pc = q.pc)
    BY <1>4, <1>7, <1>9, <2>1, PutFits
  <2>3. PICK v \in Fits(dst) : v = Get(q, src)
    BY <1>7, <1>9
  <2>4. /\ r \in Machines /\ SameMemory(t, r)
        /\ dst # "pc" => r.pc = t.pc
    BY <1>9, <2>1, <2>2, <2>3, PutFits
  <2> QED BY <2>2, <2>4 DEF SameMemory
<1>10. CASE r # q
  <2>1. /\ r \in Machines /\ SameMemory(q, r)
        /\ src # "pc" /\ dst # "pc" => r.pc = q.pc
    BY <1>5, <1>8, <1>9, <1>10
  <2>2. SameMemory(p, r)
    BY <1>4, <2>1 DEF SameMemory
  <2> QED BY <1>3, <1>4, <2>1, <2>2, SameMemoryFollows DEF Ends, r
<1> QED BY <1>6, <1>10

\* A byte is pushed, below which the stack pointer then points.
LEMMA Push8Fits ==
  ASSUME NEW p \in Machines, NEW sp \in {"s", "u"}, NEW v \in Octet
  PROVE  LET q == Push8(p, sp, v)
         IN  /\ Follows(p, q) /\ q.pc = p.pc
             /\ q[sp] = Plus(p[sp], -1)
             /\ \A j : Read(q, j) = IF j = q[sp] THEN v ELSE Read(p, j)
<1>1. PICK i \in Address : i = Plus(p[sp], -1)
  <2>1. p[sp] \in Int
    BY InAddress DEF Machines
  <2> QED BY <2>1, PlusFits
<1>2. PICK t : t = [p EXCEPT ![sp] = i]
  OBVIOUS
<1>3. t \in Machines /\ SameMemory(p, t) /\ t.pc = p.pc /\ t[sp] = i
  BY <1>1, <1>2 DEF Machines, SameMemory
<1>4. Push8(p, sp, v) = Write(t, i, v)
  BY <1>1, <1>2 DEF Push8
<1>5. PICK q : q = Write(t, i, v)
  OBVIOUS
<1>6. /\ Follows(t, q) /\ q.pc = t.pc /\ q[sp] = t[sp]
      /\ \A j : Read(q, j) = IF j = i THEN v ELSE Read(t, j)
  BY <1>1, <1>3, <1>5, WriteFits
<1>7. Follows(p, q)
  BY <1>3, <1>6, SameMemoryFollows, FollowsOn
<1>8. \A j : Read(t, j) = Read(p, j)
  BY <1>3, SameMemoryReads
<1> QED BY <1>1, <1>3, <1>4, <1>5, <1>6, <1>7, <1>8

\* A word is its two bytes.
LEMMA HalvesOfWord ==
  ASSUME NEW v \in Address
  PROVE  /\ v \div 256 \in Octet /\ v % 256 \in Octet
         /\ 256 * (v \div 256) + (v % 256) = v
BY InOctet, InAddress

\* PSH and PUL of one register.
LEMMA PushFits ==
  ASSUME NEW p \in Machines, NEW sp \in {"s", "u"}, NEW r \in Named
  PROVE  LET q == Push(p, sp, r)
         IN  /\ Follows(p, q) /\ q.pc = p.pc
             /\ Is16(r) => Word(q, q[sp]) = Get(p, r)
<1> DEFINE q == Push(p, sp, r)
<1>1. PICK v \in Fits(r) : v = Get(p, r)
  BY GetFits
<1>2. CASE Is16(r)
  <2>1. /\ v \div 256 \in Octet /\ v % 256 \in Octet
        /\ 256 * (v \div 256) + (v % 256) = v
    BY <1>2, HalvesOfWord DEF Fits
  <2>2. PICK t : t = Push8(p, sp, v % 256)
    OBVIOUS
  <2>3. /\ Follows(p, t) /\ t.pc = p.pc
        /\ Read(t, t[sp]) = v % 256
    BY <2>1, <2>2, Push8Fits
  <2>4. t \in Machines
    BY <2>3 DEF Follows
  <2>5. q = Push8(t, sp, v \div 256)
    <3>1. q = Push8(Push8(p, sp, Get(p, r) % 256), sp, Get(p, r) \div 256)
      BY <1>2, Zenon DEF Push
    <3> HIDE DEF q
    <3> QED BY <1>1, <2>2, <3>1, Zenon
  <2> HIDE DEF q
  <2>6. /\ Follows(t, q) /\ q.pc = t.pc /\ q[sp] = Plus(t[sp], -1)
        /\ \A j : Read(q, j) = IF j = q[sp] THEN v \div 256 ELSE Read(t, j)
    BY <2>1, <2>4, <2>5, Push8Fits
  <2>7. Plus(q[sp], 1) = t[sp] /\ t[sp] # q[sp]
    <3>1. t[sp] \in Address
      BY <2>4 DEF Machines
    <3> QED BY <2>6, <3>1, InAddress DEF Plus
  <2>8. Read(q, q[sp]) = v \div 256 /\ Read(q, Plus(q[sp], 1)) = v % 256
    BY <2>3, <2>6, <2>7
  <2>9. Word(q, q[sp]) = v
    BY <2>1, <2>8 DEF Word
  <2> QED BY <1>1, <2>3, <2>6, <2>9, FollowsOn DEF q
<1>3. CASE ~ Is16(r)
  <2>1. v \in Octet
    BY <1>3 DEF Fits
  <2>2. q = Push8(p, sp, Get(p, r))
    BY <1>3, Zenon DEF Push
  <2> HIDE DEF q
  <2> QED BY <1>1, <1>3, <2>1, <2>2, Push8Fits DEF q
<1> QED BY <1>2, <1>3

LEMMA PullFits ==
  ASSUME NEW p \in Machines, NEW sp \in {"s", "u"}, NEW r \in Named
  PROVE  LET q == Pull(p, sp, r)
         IN  /\ q \in Machines /\ SameMemory(p, q)
             /\ r # "pc" => q.pc = p.pc
<1> DEFINE k == IF Is16(r) THEN 2 ELSE 1
           v == IF Is16(r) THEN Word(p, p[sp]) ELSE Read(p, p[sp])
<1>1. Plus(p[sp], k) \in Address
  <2>1. p[sp] \in Int
    BY InAddress DEF Machines
  <2> QED BY <2>1, PlusFits
<1>2. v \in Fits(r)
  BY ReadFits, WordFits DEF Fits
<1> DEFINE t == [p EXCEPT ![sp] = Plus(@, k)]
<1>3. Pull(p, sp, r) = Put(t, r, v)
  BY Zenon DEF Pull
<1> HIDE DEF k, v
<1>4. t \in Machines /\ SameMemory(p, t) /\ t.pc = p.pc
  BY <1>1 DEF Machines, SameMemory
<1> HIDE DEF t
<1>5. /\ Put(t, r, v) \in Machines /\ SameMemory(t, Put(t, r, v))
      /\ r # "pc" => Put(t, r, v).pc = t.pc
  BY <1>2, <1>4, PutFits
<1> QED BY <1>3, <1>4, <1>5 DEF SameMemory

LEMMA OtherFits ==
  ASSUME NEW sp \in {"s", "u"}
  PROVE  Other(sp) \in Named \ {"pc"}
BY DEF Other, Named

\* PSH of those that the mask names.
LEMMA PushAllEnds ==
  ASSUME NEW p, NEW q, NEW k, Ends(p, q, k), NEW sp \in {"s", "u"}, NEW pb
  PROVE  Ends(p, PushAll(q, sp, pb), k)
<1>1. ASSUME NEW t, Ends(p, t, k), NEW w, NEW r \in Named
      PROVE  Ends(p, PushMasked(t, sp, pb, w, r), k)
  <2>1. t \in Machines
    BY <1>1 DEF Ends, Follows
  <2>2. Follows(t, Push(t, sp, r)) /\ Push(t, sp, r).pc = t.pc
    BY <2>1, PushFits
  <2>3. Ends(p, Push(t, sp, r), k)
    BY <1>1, <2>2, EndsOn
  <2> QED BY <1>1, <2>3 DEF PushMasked
<1>2. {"pc", "y", "x", "dp", "b", "a", "cc", Other(sp)} \subseteq Named
  BY OtherFits DEF Named
<1> DEFINE q1 == PushMasked(q, sp, pb, 128, "pc")
           q2 == PushMasked(q1, sp, pb, 64, Other(sp))
           q3 == PushMasked(q2, sp, pb, 32, "y")
           q4 == PushMasked(q3, sp, pb, 16, "x")
           q5 == PushMasked(q4, sp, pb, 8, "dp")
           q6 == PushMasked(q5, sp, pb, 4, "b")
           q7 == PushMasked(q6, sp, pb, 2, "a")
           q8 == PushMasked(q7, sp, pb, 1, "cc")
<1>3. PushAll(q, sp, pb) = q8
  BY DEF PushAll
<1>4. Ends(p, q1, k)
  BY <1>1, <1>2
<1> HIDE DEF q1
<1>5. Ends(p, q2, k)
  BY <1>1, <1>2, <1>4
<1> HIDE DEF q2
<1>6. Ends(p, q3, k)
  BY <1>1, <1>2, <1>5
<1> HIDE DEF q3
<1>7. Ends(p, q4, k)
  BY <1>1, <1>2, <1>6
<1> HIDE DEF q4
<1>8. Ends(p, q5, k)
  BY <1>1, <1>2, <1>7
<1> HIDE DEF q5
<1>9. Ends(p, q6, k)
  BY <1>1, <1>2, <1>8
<1> HIDE DEF q6
<1>10. Ends(p, q7, k)
  BY <1>1, <1>2, <1>9
<1> HIDE DEF q7
<1>11. Ends(p, q8, k)
  BY <1>1, <1>2, <1>10
<1> QED BY <1>3, <1>11

\* PC is pulled last, and only if the mask says so.
LEMMA PullAllEnds ==
  ASSUME NEW p, NEW q, NEW k, Ends(p, q, k), NEW sp \in {"s", "u"}, NEW pb \in Octet
  PROVE  /\ Follows(p, PullAll(q, sp, pb))
         /\ pb < 128 => Ends(p, PullAll(q, sp, pb), k)
<1>1. ASSUME NEW t, Ends(p, t, k), NEW w, NEW r \in Named
      PROVE  /\ Follows(p, PullMasked(t, sp, pb, w, r))
             /\ r # "pc" => Ends(p, PullMasked(t, sp, pb, w, r), k)
  <2>1. t \in Machines
    BY <1>1 DEF Ends, Follows
  <2>2. /\ Pull(t, sp, r) \in Machines /\ SameMemory(t, Pull(t, sp, r))
        /\ r # "pc" => Pull(t, sp, r).pc = t.pc
    BY <2>1, PullFits
  <2>3. Follows(t, Pull(t, sp, r))
    BY <2>2, SameMemoryFollows
  <2>4. Follows(p, Pull(t, sp, r))
    BY <1>1, <2>3, FollowsOn DEF Ends
  <2>5. r # "pc" => Ends(p, Pull(t, sp, r), k)
    BY <1>1, <2>2, <2>3, EndsOn
  <2> QED BY <1>1, <2>4, <2>5 DEF Ends, PullMasked
<1>2. /\ {"y", "x", "dp", "b", "a", "cc", Other(sp)} \subseteq Named \ {"pc"}
      /\ "pc" \in Named
  BY OtherFits DEF Named
<1> DEFINE q1 == PullMasked(q, sp, pb, 1, "cc")
           q2 == PullMasked(q1, sp, pb, 2, "a")
           q3 == PullMasked(q2, sp, pb, 4, "b")
           q4 == PullMasked(q3, sp, pb, 8, "dp")
           q5 == PullMasked(q4, sp, pb, 16, "x")
           q6 == PullMasked(q5, sp, pb, 32, "y")
           q7 == PullMasked(q6, sp, pb, 64, Other(sp))
           q8 == PullMasked(q7, sp, pb, 128, "pc")
<1>3. PullAll(q, sp, pb) = q8
  BY DEF PullAll
<1>4. pb < 128 => q8 = q7
  BY InOctet DEF PullMasked
<1>5. Ends(p, q1, k)
  BY <1>1, <1>2
<1> HIDE DEF q1
<1>6. Ends(p, q2, k)
  BY <1>1, <1>2, <1>5
<1> HIDE DEF q2
<1>7. Ends(p, q3, k)
  BY <1>1, <1>2, <1>6
<1> HIDE DEF q3
<1>8. Ends(p, q4, k)
  BY <1>1, <1>2, <1>7
<1> HIDE DEF q4
<1>9. Ends(p, q5, k)
  BY <1>1, <1>2, <1>8
<1> HIDE DEF q5
<1>10. Ends(p, q6, k)
  BY <1>1, <1>2, <1>9
<1> HIDE DEF q6
<1>11. Ends(p, q7, k)
  BY <1>1, <1>2, <1>10
<1> HIDE DEF q7
<1>12. Follows(p, q8)
  BY <1>1, <1>2, <1>11
<1> QED BY <1>3, <1>4, <1>11, <1>12

-----------------------------------------------------------------------------
(* Calls, and the instructions that stand alone.                           *)

\* Where a branch leads.
LEMMA RelativeFits ==
  ASSUME NEW p \in Machines, NEW k \in 1 .. 2
  PROVE  Relative(p, k) \in Address
<1>1. p.pc \in Int
  BY InAddress DEF Machines
<1>2. Signed(Half8, Read(p, p.pc)) \in Int
  BY ReadFits, InOctet, Halves DEF Signed
<1>3. Word(p, p.pc) \in Int
  BY WordFits, InAddress
<1>4. PICK i \in Int : i = k + (IF k = 1 THEN Signed(Half8, Read(p, p.pc)) ELSE Word(p, p.pc))
  BY <1>2, <1>3
<1>5. Relative(p, k) = Plus(p.pc, i)
  BY <1>4 DEF Relative
<1> QED BY <1>1, <1>5, PlusFits

LEMMA BranchFits ==
  ASSUME NEW p \in Machines, NEW op, NEW k \in 1 .. 2
  PROVE  LET q == Branch(p, op, k)
         IN  /\ Follows(p, q)
             /\ q.pc \in {Plus(p.pc, k), Relative(p, k)}
<1>1. PICK i \in Address : i = Relative(p, k)
  BY RelativeFits
<1>2. PICK t : t = [p EXCEPT !.pc = i]
  OBVIOUS
<1>3. t \in Machines /\ SameMemory(p, t) /\ t.pc = i
  BY <1>2, SetWord
<1>4. /\ Skip(p, k) \in Machines /\ SameMemory(p, Skip(p, k))
      /\ Skip(p, k).pc = Plus(p.pc, k)
  BY SkipFits
<1>5. Branch(p, op, k) = t \/ Branch(p, op, k) = Skip(p, k)
  BY <1>1, <1>2, Zenon DEF Branch
<1> QED BY <1>1, <1>3, <1>4, <1>5, SameMemoryFollows

\* The return address lies where S points.
LEMMA CallFits ==
  ASSUME NEW p \in Machines, NEW t, NEW k, Ends(p, t, k), NEW target \in Address
  PROVE  LET q == Call(t, target)
         IN  /\ Follows(p, q) /\ q.pc = target
             /\ Word(q, q.s) = Plus(p.pc, k)
<1>1. t \in Machines /\ Follows(p, t) /\ t.pc = Plus(p.pc, k)
  BY DEF Ends, Follows
<1>2. PICK r : r = Push(t, "s", "pc")
  OBVIOUS
<1>3. "pc" \in Named /\ Is16("pc") /\ Get(t, "pc") = t.pc
  BY DEF Named, Is16, Get
<1>4. /\ Follows(t, r)
      /\ Word(r, r.s) = t.pc
  <2>1. Follows(t, r) /\ Word(r, r["s"]) = Get(t, "pc")
    BY <1>1, <1>2, <1>3, PushFits
  <2> QED BY <1>3, <2>1
<1>5. r \in Machines
  BY <1>4 DEF Follows
<1>6. PICK q : q = [r EXCEPT !.pc = target]
  OBVIOUS
<1>7. q \in Machines /\ SameMemory(r, q) /\ q.pc = target /\ q.s = r.s
  BY <1>5, <1>6, SetWord
<1>8. Word(q, q.s) = t.pc
  BY <1>4, <1>7, SameMemoryReads
<1>9. Follows(p, q)
  BY <1>1, <1>4, <1>7, SameMemoryFollows, FollowsOn
<1>10. Call(t, target) = q
  BY <1>2, <1>6 DEF Call
<1> QED BY <1>1, <1>7, <1>8, <1>9, <1>10

\* Bytes of the operand of a call.
CallBytes(p, op) ==
  CASE op = \h8D -> 1
    [] op = \h17 -> 2
    [] OTHER     -> OperandBytes(p, Mode(op), 2)

CallTarget(p, op) ==
  CASE op = \h8D -> Relative(p, 1)
    [] op = \h17 -> Relative(p, 2)
    [] OTHER     -> Operand(p, Mode(op), 2).ea

\* BSR, LBSR and JSR.
LEMMA CallsFit ==
  ASSUME NEW p \in Machines, NEW op \in Octet, IsCall(op)
  PROVE  LET q == Calls(p, op)
         IN  /\ Follows(p, q) /\ q.pc = CallTarget(p, op)
             /\ Word(q, q.s) = Plus(p.pc, CallBytes(p, op))
<1>1. ASSUME NEW k \in 1 .. 2
      PROVE  Ends(p, Skip(p, k), k) /\ Relative(p, k) \in Address
  BY SkipFits, RelativeFits, SameMemoryFollows DEF Ends
<1>2. CASE op = \h8D
  <2>1. Calls(p, op) = Call(Skip(p, 1), Relative(p, 1))
    BY <1>2 DEF Calls
  <2>2. CallBytes(p, op) = 1 /\ CallTarget(p, op) = Relative(p, 1)
    BY <1>2 DEF CallBytes, CallTarget
  <2> QED BY <1>1, <2>1, <2>2, CallFits
<1>3. CASE op = \h17
  <2>1. Calls(p, op) = Call(Skip(p, 2), Relative(p, 2))
    BY <1>3 DEF Calls
  <2>2. CallBytes(p, op) = 2 /\ CallTarget(p, op) = Relative(p, 2)
    BY <1>3 DEF CallBytes, CallTarget
  <2> QED BY <1>1, <2>1, <2>2, CallFits
<1>4. CASE op \notin {\h8D, \h17}
  <2> DEFINE o == Operand(p, Mode(op), 2)
             k == OperandBytes(p, Mode(op), 2)
  <2>1. Fetches(p, o, k)
    BY ModeFits, OperandFits
  <2>2. Calls(p, op) = Call(o.m, o.ea)
    BY <1>4 DEF Calls
  <2>3. CallBytes(p, op) = k /\ CallTarget(p, op) = o.ea
    BY <1>4 DEF CallBytes, CallTarget
  <2> HIDE DEF o, k
  <2>4. Ends(p, o.m, k) /\ o.ea \in Address
    BY <2>1, FetchEnds DEF Fetches
  <2> QED BY <2>2, <2>3, <2>4, CallFits
<1> QED BY <1>2, <1>3, <1>4

\* LEA.
LEMMA LeaEnds ==
  ASSUME NEW p \in Machines, NEW op \in \h30 .. \h33
  PROVE  Ends(p, Lea(p, op), IndexBytes(Read(p, p.pc)))
<1>1. PICK r : r = <<"x", "y", "s", "u">>[(op % 16) + 1]
  OBVIOUS
<1>2. r \in {"x", "y", "s", "u"}
  <2>1. op % 16 \in 0 .. 3
    OBVIOUS
  <2> QED BY <1>1, <2>1
<1>3. PICK o : o = ea_indexed(p)
  OBVIOUS
<1>4. PICK k : k = IndexBytes(Read(p, p.pc))
  OBVIOUS
<1>5. Fetches(p, o, k)
  BY <1>3, <1>4, IndexedFits
<1>6. PICK q : q = [o.m EXCEPT ![r] = o.ea]
  OBVIOUS
<1>7. Ends(p, o.m, k) /\ o.m \in Machines /\ o.ea \in Address
  BY <1>5, FetchEnds DEF Fetches
<1>8. q \in Machines /\ SameMemory(o.m, q) /\ q.pc = o.m.pc
  BY <1>2, <1>6, <1>7 DEF Machines, SameMemory
<1>9. Ends(p, q, k)
  BY <1>7, <1>8, SameMemoryFollows, EndsOn
<1>10. \/ Lea(p, op) = q
       \/ Lea(p, op) = [q EXCEPT !.cc = With(@, "Z", o.ea = 0)]
  BY <1>1, <1>3, <1>6 DEF Lea
<1>11. With(q.cc, "Z", o.ea = 0) \in SUBSET Flag
  BY <1>8, FlagsStay, FlagNames DEF Machines
<1> QED BY <1>4, <1>9, <1>10, <1>11, FlagsEnd

InherentOps == {\h19, \h1A, \h1C, \h1D, \h39, \h3A, \h3D}

InherentBytes(op) == IF op \in {\h1A, \h1C} THEN 1 ELSE 0

\* DAA, and MUL.
LEMMA DaaFits ==
  ASSUME NEW v \in Octet, NEW c \in SUBSET Flag
  PROVE  Daa(v, c).value \in Octet /\ Daa(v, c).cc \in SUBSET Flag
<1> DEFINE sum == v + (IF "H" \in c \/ Low(v) > 9 THEN 6 ELSE 0)
                    + (IF "C" \in c \/ v \div 16 > 9 \/ (v \div 16 >= 9 /\ Low(v) > 9) THEN 96 ELSE 0)
<1>1. sum \in Nat
  BY InOctet
<1>2. Daa(v, c) = [value |-> sum % 256,
                   cc |-> With(set_nz(Half8, sum % 256, c), "C", "C" \in c \/ sum >= 256)]
  BY DEF Daa
<1> HIDE DEF sum
<1>3. sum % 256 \in Octet
  BY <1>1, InOctet
<1>4. With(set_nz(Half8, sum % 256, c), "C", "C" \in c \/ sum >= 256) \in SUBSET Flag
  BY SetNzStays, FlagsStay, FlagNames
<1> QED BY <1>2, <1>3, <1>4

LEMMA MulFits ==
  ASSUME NEW i \in Octet, NEW j \in Octet, NEW c \in SUBSET Flag
  PROVE  Mul(i, j, c).value \in Address /\ Mul(i, j, c).cc \in SUBSET Flag
<1>1. i \in 0 .. 255 /\ j \in 0 .. 255
  BY InOctet
<1>2. i * j \in Int /\ 0 <= i * j
  BY InOctet
<1>3. i * j <= 255 * j
  BY InOctet
<1>4. 255 * j <= 65535
  BY InOctet
<1>5. i * j \in Address
  <2>1. PICK t \in Int : t = i * j
    BY <1>2
  <2>2. PICK e \in Int : e = 255 * j
    BY InOctet
  <2>3. 0 <= t /\ t <= e /\ e <= 65535
    BY <1>2, <1>3, <1>4, <2>1, <2>2
  <2>4. t \in Address
    BY <2>1, <2>2, <2>3, InAddress
  <2> QED BY <2>1, <2>4
<1>6. \A on, off : With(With(c, "Z", on), "C", off) \in SUBSET Flag
  BY FlagsStay, FlagNames
<1> QED BY <1>5, <1>6 DEF Mul

\* The instructions without an operand.
LEMMA InherentEnds ==
  ASSUME NEW p \in Machines, NEW op \in InherentOps
  PROVE  /\ Follows(p, Inherent(p, op))
         /\ op # \h39 => Ends(p, Inherent(p, op), InherentBytes(op))
<1>1. Ends(p, p, 0)
  BY FollowsSelf
<1>2. /\ p.a \in Octet /\ p.b \in Octet /\ p.x \in Address /\ p.cc \in SUBSET Flag
  BY DEF Machines
<1>3. ASSUME NEW r \in {"a", "x"}, NEW v \in Fits(r)
      PROVE  Ends(p, [p EXCEPT ![r] = v], 0)
  <2>1. Put(p, r, v) = [p EXCEPT ![r] = v]
    BY DEF Put
  <2>2. r \in Named \ {"pc"}
    BY DEF Named
  <2>3. Ends(p, Put(p, r, v), 0)
    BY <1>1, <2>2, PutEnds
  <2> QED BY <2>1, <2>3, Zenon
<1>4. CASE op = \h19
  <2>1. PICK v : v = Daa(p.a, p.cc)
    OBVIOUS
  <2>2. v.value \in Fits("a") /\ v.cc \in SUBSET Flag
    BY <1>2, <2>1, DaaFits DEF Fits, Is16
  <2>3. PICK q : q = [p EXCEPT !.a = v.value]
    OBVIOUS
  <2>4. Inherent(p, op) = [q EXCEPT !.cc = v.cc]
    BY <1>4, <2>1, <2>3 DEF Inherent, Machines
  <2>5. Ends(p, q, 0)
    BY <1>3, <2>2, <2>3
  <2>6. Ends(p, Inherent(p, op), 0)
    BY <2>2, <2>4, <2>5, FlagsEnd
  <2> QED BY <1>4, <2>6 DEF Ends, InherentBytes
<1>5. CASE op = \h1D
  <2>1. Sex(p.b) \in Fits("a")
    BY InOctet DEF Sex, Fits, Is16
  <2>2. PICK q : q = [p EXCEPT !.a = Sex(p.b)]
    OBVIOUS
  <2>3. Ends(p, q, 0)
    BY <1>3, <2>1, <2>2
  <2>4. q.cc \in SUBSET Flag
    BY <2>3 DEF Ends, Follows, Machines
  <2>5. Inherent(p, op) = [q EXCEPT !.cc = logic_nz_clearv(Half16, Get(q, "d"), @)]
    BY <1>5, <2>2 DEF Inherent
  <2>6. logic_nz_clearv(Half16, Get(q, "d"), q.cc) \in SUBSET Flag
    BY <2>4, SetNzStays
  <2>7. Ends(p, Inherent(p, op), 0)
    BY <2>3, <2>5, <2>6, FlagsEnd
  <2> QED BY <1>5, <2>7 DEF Ends, InherentBytes
<1>6. CASE op = \h3A
  <2>1. Plus(p.x, p.b) \in Fits("x")
    <3>1. p.x \in Int /\ p.b \in Int
      BY <1>2, InAddress, InOctet
    <3>2. Plus(p.x, p.b) \in Address
      BY <3>1, PlusFits
    <3> QED BY <3>2 DEF Fits, Is16
  <2>2. Inherent(p, op) = [p EXCEPT !.x = Plus(p.x, p.b)]
    BY <1>6 DEF Inherent
  <2>3. Ends(p, Inherent(p, op), 0)
    BY <1>3, <2>1, <2>2
  <2> QED BY <1>6, <2>3 DEF Ends, InherentBytes
<1>7. CASE op = \h3D
  <2>1. PICK v : v = Mul(p.a, p.b, p.cc)
    OBVIOUS
  <2>2. v.value \in Fits("d") /\ v.cc \in SUBSET Flag
    BY <1>2, <2>1, MulFits DEF Fits, Is16
  <2>3. "d" \in Named \ {"pc"}
    BY DEF Named
  <2>4. Ends(p, Put(p, "d", v.value), 0)
    BY <1>1, <2>2, <2>3, PutEnds
  <2>5. Inherent(p, op) = [Put(p, "d", v.value) EXCEPT !.cc = v.cc]
    BY <1>7, <2>1 DEF Inherent
  <2>6. Ends(p, Inherent(p, op), 0)
    BY <2>2, <2>4, <2>5, FlagsEnd
  <2> QED BY <1>7, <2>6 DEF Ends, InherentBytes
<1>8. CASE op \in {\h1A, \h1C}
  <2>1. PICK q : q = Skip(p, 1)
    OBVIOUS
  <2>2. q \in Machines /\ Ends(p, q, 1)
    BY <2>1, SkipFits, SameMemoryFollows DEF Ends
  <2>3. PICK f \in SUBSET Flag : f = Flags(Read(p, p.pc))
    BY FlagsFit
  <2>4. q.cc \cup f \in SUBSET Flag /\ q.cc \cap f \in SUBSET Flag
    BY <2>2 DEF Machines
  <2>5. \/ Inherent(p, op) = [q EXCEPT !.cc = q.cc \cup f]
        \/ Inherent(p, op) = [q EXCEPT !.cc = q.cc \cap f]
    BY <1>8, <2>1, <2>3 DEF Inherent
  <2>6. Ends(p, Inherent(p, op), 1)
    BY <2>2, <2>4, <2>5, FlagsEnd
  <2> QED BY <1>8, <2>6 DEF Ends, InherentBytes
<1>9. CASE op = \h39
  <2>1. Inherent(p, op) = Pull(p, "s", "pc")
    BY <1>9 DEF Inherent
  <2>2. "pc" \in Named
    BY DEF Named
  <2> QED BY <1>9, <2>1, <2>2, PullFits, SameMemoryFollows
<1> QED BY <1>4, <1>5, <1>6, <1>7, <1>8, <1>9 DEF InherentOps

-----------------------------------------------------------------------------
(* An instruction of the first page.                                       *)

\* How an instruction of the first page is followed by another.
JumpOps == {\h0E, \h6E, \h7E}

\* Bytes of the operand of an instruction of the first page.
FirstBytes(p, op) ==
  CASE IsOneByteOp(op)              -> OneByteBytes(p, op)
    [] op \in JumpOps               -> OperandBytes(p, InMemory(op), 2)
    [] op \in \h20 .. \h2F          -> 1
    [] op = \h16                    -> 2
    [] op \in \h30 .. \h33          -> IndexBytes(Read(p, p.pc))
    [] op \in \h34 .. \h37          -> 1
    [] op \in {\h1E, \h1F}          -> 1
    [] op \in InherentOps           -> InherentBytes(op)
    [] IsCall(op)                   -> CallBytes(p, op)
    [] IsByteOp(op)                 -> OperandBytes(p, Mode(op), 1)
    [] IsWideOp(FirstWide, op) /\ ~ IsCall(op) -> OperandBytes(p, Mode(op), 2)
    [] OTHER                        -> 0

\* Instructions that take PC from a register or from memory; pb follows op.
TakesPC(op, pb) ==
  \/ op \in {\h0E, \h39, \h6E, \h9D, \hAD}
  \/ op \in {\h35, \h37} /\ pb >= 128
  \/ op \in {\h1E, \h1F} /\ 5 \in {pb \div 16, pb % 16}

\* Where a branch or a jump of the first page goes.
Goal(p, op) ==
  CASE op \in \h20 .. \h2F -> Relative(p, 1)
    [] op = \h16           -> Relative(p, 2)
    [] op = \h7E           -> Word(p, p.pc)
    [] IsCall(op)          -> CallTarget(p, op)

GoalOps == \h20 .. \h2F \cup {\h16, \h7E, \h17, \h8D, \h9D, \hAD, \hBD}

\* PC at an operand.
Jump(o) == [o.m EXCEPT !.pc = o.ea]

\* JMP.
LEMMA JumpFits ==
  ASSUME NEW p \in Machines, NEW op \in JumpOps, NEW o, o = Operand(p, InMemory(op), 2),
         NEW q, q = Jump(o)
  PROVE  /\ Follows(p, q)
         /\ op = \h7E => q.pc = Word(p, p.pc)
<1>1. op \in Octet
  BY InOctet DEF JumpOps
<1>3. Fetches(p, o, OperandBytes(p, InMemory(op), 2))
  BY <1>1, ModeFits, OperandFits
<1>4. o.m \in Machines /\ SameMemory(p, o.m) /\ o.ea \in Address
  BY <1>3 DEF Fetches
<1>5. q \in Machines /\ SameMemory(o.m, q) /\ q.pc = o.ea
  BY <1>4, SetWord DEF Jump
<1>6. SameMemory(p, q)
  BY <1>4, <1>5 DEF SameMemory
<1>7. op = \h7E => o.ea = Word(p, p.pc)
  <2>1. Mode(\h7E) = "ext"
    BY DEF Mode
  <2> QED BY <2>1 DEF InMemory, Operand
<1> QED BY <1>5, <1>6, <1>7, SameMemoryFollows

\* PSHS, PULS, PSHU and PULU.
LEMMA StacksFit ==
  ASSUME NEW p \in Machines, NEW op \in \h34 .. \h37
  PROVE  /\ Follows(p, Stacks(p, op))
         /\ op \in {\h34, \h36} \/ Read(p, p.pc) < 128 => Ends(p, Stacks(p, op), 1)
<1>1. PICK pb \in Octet : pb = Read(p, p.pc)
  BY ReadFits
<1>2. PICK sp \in {"s", "u"} : sp = IF op \in {\h34, \h35} THEN "s" ELSE "u"
  OBVIOUS
<1>3. Ends(p, Skip(p, 1), 1)
  BY SkipFits, SameMemoryFollows DEF Ends
<1>4. PICK q : q = Skip(p, 1)
  OBVIOUS
<1>5. \/ op \in {\h34, \h36} /\ Stacks(p, op) = PushAll(q, sp, pb)
      \/ op \in {\h35, \h37} /\ Stacks(p, op) = PullAll(q, sp, pb)
  BY <1>1, <1>2, <1>4 DEF Stacks
<1>6. /\ Ends(p, PushAll(q, sp, pb), 1)
      /\ Follows(p, PullAll(q, sp, pb))
      /\ pb < 128 => Ends(p, PullAll(q, sp, pb), 1)
  BY <1>3, <1>4, PushAllEnds, PullAllEnds
<1>7. \A r : Ends(p, r, 1) => Follows(p, r)
  BY DEF Ends
<1> QED BY <1>1, <1>5, <1>6, <1>7

\* The columns of the instructions with an operand of two bytes.
LEMMA WideColumns ==
  ASSUME NEW op \in Octet, IsWideOp(FirstWide, op)
  PROVE  op >= 128 /\ op % 16 \in {3, 12, 13, 14, 15} /\ ~ IsCall(op)
<1>1. op \in Nat
  BY InOctet
<1>2. Base(op) \in {\h83, \hC3, \h8C, \h8E, \h8F, \hCC, \hCD, \hCE, \hCF}
  BY DEF IsWideOp, FirstWide
<1>3. op % 16 = Base(op) % 16
  BY <1>1 DEF Base
<1>4. Base(\h9D) = \h8D /\ Base(\hAD) = \h8D /\ Base(\hBD) = \h8D /\ Base(\h8D) = \h8D
  BY DEF Base
<1> QED BY <1>2, <1>3, <1>4 DEF IsWideOp, IsCall

\* The classes of FirstPage do not overlap.
LEMMA Classes ==
  ASSUME NEW op \in Octet
  PROVE  /\ IsOneByteOp(op) => /\ op \notin JumpOps \cup \h20 .. \h37 \cup {\h16, \h1E, \h1F}
                               /\ op \notin InherentOps /\ ~ IsCall(op) /\ op < 128
         /\ op \in JumpOps => /\ op \notin \h20 .. \h37 \cup {\h16, \h1E, \h1F}
                              /\ op \notin InherentOps /\ ~ IsCall(op) /\ op < 128
         /\ op \in \h20 .. \h37 \cup {\h16, \h1E, \h1F} =>
              op \notin InherentOps /\ ~ IsCall(op) /\ op < 128
         /\ op \in InherentOps => ~ IsCall(op) /\ op < 128
         /\ IsByteOp(op) => ~ IsCall(op) /\ op >= 128 /\ ~ IsWideOp(FirstWide, op)
         /\ IsWideOp(FirstWide, op) => ~ IsCall(op) /\ op >= 128
<1>1. op \in Nat
  BY InOctet
<1>2. IsByteOp(op) => ~ IsWideOp(FirstWide, op)
  BY WideColumns DEF IsByteOp
<1>3. IsByteOp(op) => ~ IsCall(op) /\ op >= 128
  BY DEF IsByteOp, IsCall
<1>4. IsOneByteOp(op) => /\ op \notin JumpOps \cup \h20 .. \h37 \cup {\h16, \h1E, \h1F}
                         /\ op \notin InherentOps /\ ~ IsCall(op) /\ op < 128
  BY <1>1 DEF IsOneByteOp, JumpOps, InherentOps, IsCall
<1> QED BY <1>1, <1>2, <1>3, <1>4, WideColumns DEF JumpOps, InherentOps, IsCall

\* What FirstPage does with an opcode, by the classes of FirstBytes.
LEMMA FirstPageFits ==
  ASSUME NEW p \in Machines, NEW op \in Octet
  PROVE  LET q == FirstPage(p, op)
         IN  /\ Follows(p, q)
             /\ \/ TakesPC(op, Read(p, p.pc))
                \/ op \in GoalOps /\ q.pc = Goal(p, op)
                \/ q.pc = Plus(p.pc, FirstBytes(p, op))
             /\ IsCall(op) => Word(q, q.s) = Plus(p.pc, FirstBytes(p, op))
<1> DEFINE q == FirstPage(p, op)
           k == FirstBytes(p, op)
<1>0. \A r : Ends(p, r, k) => Follows(p, r) /\ r.pc = Plus(p.pc, k)
  BY DEF Ends
<1>1. CASE IsOneByteOp(op)
  <2>1. q = OneByteOp(p, op) /\ k = OneByteBytes(p, op) /\ ~ IsCall(op)
    <3>1. ~ IsCall(op)
      BY <1>1, Classes
    <3>2. k = OneByteBytes(p, op)
      BY <1>1, Classes, InOctet DEF FirstBytes, JumpOps, InherentOps
    <3>3. q = OneByteOp(p, op)
      BY <1>1, Classes, InOctet DEF FirstPage, JumpOps, InherentOps
    <3> QED BY <3>1, <3>2, <3>3
  <2> HIDE DEF q, k
  <2>2. Ends(p, q, k)
    BY <1>1, <2>1, OneByteEnds
  <2> QED BY <1>0, <2>1, <2>2 DEF q, k
<1>2. CASE op \in JumpOps
  <2>1. PICK o : o = Operand(p, InMemory(op), 2)
    OBVIOUS
  <2>2. q = Jump(o) /\ ~ IsCall(op)
    BY <1>2, <2>1, Classes DEF FirstPage, JumpOps, Jump
  <2> HIDE DEF q, k
  <2>3. Follows(p, q) /\ (op = \h7E => q.pc = Word(p, p.pc))
    BY <1>2, <2>1, <2>2, JumpFits
  <2>4. op = \h7E => op \in GoalOps /\ Goal(p, op) = Word(p, p.pc)
    BY DEF Goal, GoalOps, IsCall
  <2> QED BY <1>2, <2>2, <2>3, <2>4 DEF TakesPC, JumpOps, q, k
<1>3. CASE op \in \h20 .. \h2F
  <2>1. q = Branch(p, op, 1) /\ k = 1 /\ ~ IsCall(op)
    BY <1>3, Classes DEF FirstPage, FirstBytes, JumpOps
  <2>2. op \in GoalOps /\ Goal(p, op) = Relative(p, 1)
    BY <1>3, Classes DEF Goal, GoalOps
  <2> HIDE DEF q, k
  <2>3. Follows(p, q) /\ q.pc \in {Plus(p.pc, 1), Relative(p, 1)}
    BY <2>1, BranchFits
  <2> QED BY <2>1, <2>2, <2>3 DEF q, k
<1>4. CASE op = \h16
  <2>1. q = Branch(p, \h20, 2) /\ k = 2 /\ ~ IsCall(op)
    BY <1>4, Classes DEF FirstPage, FirstBytes, JumpOps
  <2>2. op \in GoalOps /\ Goal(p, op) = Relative(p, 2)
    BY <1>4, Classes DEF Goal, GoalOps
  <2> HIDE DEF q, k
  <2>3. Follows(p, q) /\ q.pc \in {Plus(p.pc, 2), Relative(p, 2)}
    BY <2>1, BranchFits
  <2> QED BY <2>1, <2>2, <2>3 DEF q, k
<1>5. CASE op \in \h30 .. \h33
  <2>1. q = Lea(p, op) /\ k = IndexBytes(Read(p, p.pc)) /\ ~ IsCall(op)
    BY <1>5, Classes DEF FirstPage, FirstBytes, JumpOps
  <2> HIDE DEF q, k
  <2>2. Ends(p, q, k)
    BY <1>5, <2>1, LeaEnds
  <2> QED BY <1>0, <2>1, <2>2 DEF q, k
<1>6. CASE op \in \h34 .. \h37
  <2>1. q = Stacks(p, op) /\ k = 1 /\ ~ IsCall(op)
    BY <1>6, Classes DEF FirstPage, FirstBytes, JumpOps
  <2>2. Read(p, p.pc) \in Int
    BY ReadFits, InOctet
  <2>3. op \in {\h34, \h36} \/ Read(p, p.pc) < 128 \/ TakesPC(op, Read(p, p.pc))
    BY <1>6, <2>2 DEF TakesPC
  <2> HIDE DEF q, k
  <2>4. /\ Follows(p, q)
        /\ op \in {\h34, \h36} \/ Read(p, p.pc) < 128 => Ends(p, q, k)
    BY <1>6, <2>1, StacksFit
  <2> QED BY <1>0, <2>1, <2>3, <2>4 DEF q, k
<1>7. CASE op \in {\h1E, \h1F}
  <2>1. q = Transfer(p, op) /\ k = 1 /\ ~ IsCall(op)
    BY <1>7, Classes DEF FirstPage, FirstBytes, JumpOps
  <2>2. PICK pb : pb = Read(p, p.pc)
    OBVIOUS
  <2> HIDE DEF q, k
  <2>3. Follows(p, q) /\ (5 \notin {pb \div 16, pb % 16} => Ends(p, q, k))
    BY <2>1, <2>2, TransferFits
  <2> QED BY <1>0, <1>7, <2>1, <2>2, <2>3 DEF TakesPC, q, k
<1>8. CASE op \in InherentOps
  <2>1. q = Inherent(p, op) /\ k = InherentBytes(op) /\ ~ IsCall(op)
    BY <1>8, Classes DEF FirstPage, FirstBytes, JumpOps, InherentOps
  <2> HIDE DEF q, k
  <2>2. Follows(p, q) /\ (op # \h39 => Ends(p, q, k))
    BY <1>8, <2>1, InherentEnds
  <2> QED BY <1>0, <2>1, <2>2 DEF TakesPC, q, k
<1>9. CASE IsCall(op)
  <2>1. q = Calls(p, op) /\ k = CallBytes(p, op)
    BY <1>9, Classes DEF FirstPage, FirstBytes, JumpOps, InherentOps
  <2>2. op \in GoalOps /\ Goal(p, op) = CallTarget(p, op)
    BY <1>9, Classes DEF Goal, GoalOps, IsCall
  <2> HIDE DEF q, k
  <2>3. Follows(p, q) /\ q.pc = CallTarget(p, op) /\ Word(q, q.s) = Plus(p.pc, k)
    BY <1>9, <2>1, CallsFit
  <2> QED BY <2>2, <2>3 DEF q, k
<1>10. CASE IsByteOp(op)
  <2>1. /\ q = IF op < \hC0 THEN ByteOp(p, "a", op) ELSE ByteOp(p, "b", op)
        /\ k = OperandBytes(p, Mode(op), 1) /\ ~ IsCall(op)
    BY <1>10, Classes DEF FirstPage, FirstBytes, JumpOps, InherentOps, ByteOpA, ByteOpB
  <2> HIDE DEF q, k
  <2>2. Ends(p, q, k)
    BY <1>10, <2>1, ByteOpEnds
  <2> QED BY <1>0, <2>1, <2>2 DEF q, k
<1>11. CASE IsWideOp(FirstWide, op)
  <2>1. /\ q = WideOp(p, FirstWide, op)
        /\ k = OperandBytes(p, Mode(op), 2) /\ ~ IsCall(op)
    <3>1. ~ IsCall(op)
      BY <1>11, Classes
    <3>2. k = OperandBytes(p, Mode(op), 2)
      BY <1>11, Classes, InOctet DEF FirstBytes, JumpOps, InherentOps
    <3>3. q = WideOp(p, FirstWide, op)
      BY <1>11, Classes, InOctet DEF FirstPage, JumpOps, InherentOps
    <3> QED BY <3>1, <3>2, <3>3
  <2> HIDE DEF q, k
  <2>2. Ends(p, q, k)
    BY <1>11, <2>1, WideTables, WideOpEnds
  <2> QED BY <1>0, <2>1, <2>2 DEF q, k
<1>12. CASE /\ ~ IsOneByteOp(op) /\ op \notin JumpOps /\ op \notin \h20 .. \h2F /\ op # \h16
            /\ op \notin \h30 .. \h33 /\ op \notin \h34 .. \h37 /\ op \notin {\h1E, \h1F}
            /\ op \notin InherentOps /\ ~ IsCall(op) /\ ~ IsByteOp(op)
            /\ ~ IsWideOp(FirstWide, op)
  <2>1. q = p /\ k = 0
    BY <1>12 DEF FirstPage, FirstBytes, JumpOps, InherentOps
  <2>2. Ends(p, p, 0)
    BY FollowsSelf
  <2> HIDE DEF q, k
  <2> QED BY <1>0, <1>12, <2>1, <2>2 DEF q, k
<1> QED BY <1>1, <1>2, <1>3, <1>4, <1>5, <1>6, <1>7, <1>8, <1>9, <1>10, <1>11, <1>12

-----------------------------------------------------------------------------
(* An instruction of any page.                                             *)

\* The machine when k bytes of an instruction have been fetched.
Fetched(p, k) == Skip([p EXCEPT !.wrote = {}], k)

\* Fetching leaves memory alone.
LEMMA FetchedFits ==
  ASSUME NEW p \in Machines, NEW k \in Int
  PROVE  /\ Fetched(p, k) \in Machines
         /\ Fetched(p, k).pc = Plus(p.pc, k)
         /\ Fetched(p, k).wrote = {}
         /\ \A i : Read(Fetched(p, k), i) = Read(p, i)
<1>1. PICK z : z = [p EXCEPT !.wrote = {}]
  OBVIOUS
<1>2. z \in Machines /\ z.wrote = {} /\ z.ram = p.ram /\ z.pc = p.pc
  BY <1>1 DEF Machines
<1>3. PICK q : q = Skip(z, k)
  OBVIOUS
<1>4. q \in Machines /\ SameMemory(z, q) /\ q.pc = Plus(z.pc, k)
  BY <1>2, <1>3, SkipFits
<1>5. \A i : Read(q, i) = Read(p, i)
  BY <1>2, <1>4 DEF SameMemory, Read
<1> QED BY <1>1, <1>2, <1>3, <1>4, <1>5 DEF Fetched, SameMemory

LEMMA FetchedTwice ==
  ASSUME NEW p \in Machines
  PROVE  Skip(Fetched(p, 1), 1) = Fetched(p, 2)
<1>1. PICK z : z = [p EXCEPT !.wrote = {}]
  OBVIOUS
<1>2. z \in Machines
  BY <1>1 DEF Machines
<1>3. z.pc \in Int
  BY <1>2, InAddress DEF Machines
<1>4. Plus(Plus(z.pc, 1), 1) = Plus(z.pc, 2)
  BY <1>3 DEF Plus
<1>5. Skip(Skip(z, 1), 1) = Skip(z, 2)
  BY <1>2, <1>4 DEF Skip, Machines
<1> QED BY <1>1, <1>5 DEF Fetched

\* What Step does with an instruction of the other pages; sub is its second byte.
PageBytes(p, op, sub) ==
  IF op = \h10 /\ sub \in \h21 .. \h2F THEN 4
  ELSE IF IsWideOp(IF op = \h10 THEN Wide10 ELSE Wide11, sub)
  THEN 2 + OperandBytes(Fetched(p, 2), Mode(sub), 2)
  ELSE 2

LEMMA OperandBytesInt ==
  ASSUME NEW p \in Machines, NEW mode \in Modes, NEW k \in 1 .. 2
  PROVE  OperandBytes(p, mode, k) \in 1 .. 3
<1>1. Read(p, p.pc) \in Octet
  BY ReadFits
<1>2. IndexBytes(Read(p, p.pc)) \in 1 .. 3
  BY DEF IndexBytes, OffsetBytes
<1> QED BY <1>2 DEF OperandBytes, Modes

\* Every instruction after a prefix.
LEMMA PageFits ==
  ASSUME NEW p \in Machines, NEW op \in {\h10, \h11}, op = Read(p, p.pc),
         NEW sub, sub = Read(p, Plus(p.pc, 1)), NEW q, q = Step(p)
  PROVE  /\ Follows(Fetched(p, 2), q)
         /\ \/ q.pc = Plus(p.pc, PageBytes(p, op, sub))
            \/ /\ op = \h10 /\ sub \in \h21 .. \h2F
               /\ q.pc = Relative(Fetched(p, 2), 2)
<1> DEFINE f1 == Fetched(p, 1)
           ops == IF op = \h10 THEN Wide10 ELSE Wide11
<1>0. Fetched(p, 2) \in Machines /\ Fetched(p, 2).pc = Plus(p.pc, 2)
  BY FetchedFits
<1>1. PICK f : f = Fetched(p, 2)
  OBVIOUS
<1>2. f \in Machines /\ f.pc = Plus(p.pc, 2)
  BY <1>0, <1>1
<1>3. Read(f1, f1.pc) = sub /\ Skip(f1, 1) = f
  BY <1>1, FetchedFits, FetchedTwice
<1>4. sub \in Octet
  BY ReadFits
<1>5. p.pc \in Int
  BY InAddress DEF Machines
<1>6. /\ q = IF op = \h10 /\ sub \in \h21 .. \h2F THEN Branch(f, sub, 2)
             ELSE IF IsWideOp(ops, sub) THEN WideOp(f, ops, sub)
             ELSE f
  <2>1. q = LET w   == f1
                p2  == Skip(w, 1)
            IN  IF op \notin {\h10, \h11} THEN FirstPage(w, op)
                ELSE IF op = \h10 /\ Read(w, w.pc) \in \h21 .. \h2F THEN Branch(p2, Read(w, w.pc), 2)
                ELSE IF IsWideOp(ops, Read(w, w.pc)) THEN WideOp(p2, ops, Read(w, w.pc))
                ELSE p2
    BY Zenon DEF Step, Fetched
  <2> HIDE DEF f1, ops
  <2> QED BY <1>3, <2>1, Zenon
<1>7. IsWideTable(ops)
  BY WideTables
<1> HIDE DEF f1, ops
<1>8. CASE op = \h10 /\ sub \in \h21 .. \h2F
  <2>1. q = Branch(f, sub, 2)
    BY <1>6, <1>8
  <2>2. Follows(f, q) /\ q.pc \in {Plus(f.pc, 2), Relative(f, 2)}
    BY <1>2, <2>1, BranchFits
  <2>3. Plus(f.pc, 2) = Plus(p.pc, 4)
    BY <1>2, <1>5 DEF Plus
  <2>4. PageBytes(p, op, sub) = 4
    BY <1>8 DEF PageBytes
  <2> QED BY <1>1, <1>8, <2>2, <2>3, <2>4
<1>9. CASE ~ (op = \h10 /\ sub \in \h21 .. \h2F) /\ IsWideOp(ops, sub)
  <2>1. PICK k : k = OperandBytes(f, Mode(sub), 2)
    OBVIOUS
  <2>2. q = WideOp(f, ops, sub)
    BY <1>6, <1>9
  <2>3. Ends(f, q, k)
    BY <1>2, <1>4, <1>7, <1>9, <2>1, <2>2, WideOpEnds
  <2>4. k \in Int
    BY <1>2, <1>4, <2>1, ModeFits, OperandBytesInt
  <2>5. Plus(f.pc, k) = Plus(p.pc, 2 + k)
    BY <1>2, <1>5, <2>4 DEF Plus
  <2>6. PageBytes(p, op, sub) = 2 + k
    BY <1>1, <1>9, <2>1 DEF PageBytes, ops
  <2> QED BY <1>1, <2>3, <2>5, <2>6 DEF Ends
<1>10. CASE ~ (op = \h10 /\ sub \in \h21 .. \h2F) /\ ~ IsWideOp(ops, sub)
  <2>1. q = f
    BY <1>6, <1>10
  <2>2. PageBytes(p, op, sub) = 2
    BY <1>10 DEF PageBytes, ops
  <2> QED BY <1>1, <1>2, <2>1, <2>2, FollowsSelf
<1> QED BY <1>8, <1>9, <1>10

\* The instruction at PC, on any page: what it writes is in wrote.
LEMMA StepFits ==
  ASSUME NEW p \in Machines
  PROVE  /\ Step(p) \in Machines
         /\ \A i \in Address \ Step(p).wrote : Read(Step(p), i) = Read(p, i)
<1>1. PICK op : op = Read(p, p.pc)
  OBVIOUS
<1>2. PICK q : q = Step(p)
  OBVIOUS
<1>3. ASSUME NEW k \in Int, Follows(Fetched(p, k), q)
      PROVE  q \in Machines /\ \A i \in Address \ q.wrote : Read(q, i) = Read(p, i)
  BY <1>3, FetchedFits DEF Follows
<1>4. CASE op \in {\h10, \h11}
  <2>1. Follows(Fetched(p, 2), q)
    BY <1>1, <1>2, <1>4, PageFits
  <2> QED BY <1>2, <1>3, <2>1
<1>5. CASE op \notin {\h10, \h11}
  <2>1. q = FirstPage(Fetched(p, 1), op)
    BY <1>1, <1>2, <1>5, Zenon DEF Step, Fetched
  <2>2. Fetched(p, 1) \in Machines /\ op \in Octet
    BY <1>1, FetchedFits, ReadFits
  <2>3. Follows(Fetched(p, 1), q)
    BY <2>1, <2>2, FirstPageFits
  <2> QED BY <1>2, <1>3, <2>3
<1> QED BY <1>4, <1>5

-----------------------------------------------------------------------------
(* Functions that are defined by recursion.                                *)

\* A set of numbers has a least one.
LEMMA Least ==
  ASSUME NEW T \in SUBSET Nat, T # {}
  PROVE  \E k \in T : \A j \in T : k <= j
<1> DEFINE R == {e \in Nat \X Nat : e[1] < e[2]}
<1>1. IsWellFoundedOn(R, Nat)
  BY NatLessThanWellFounded DEF OpToRel
<1>2. PICK k \in T : \A j \in Nat : <<j, k>> \in R => j \notin T
  BY <1>1, WFMin
<1>3. ASSUME NEW j \in T PROVE k <= j
  <2>1. j \in Nat /\ k \in Nat
    OBVIOUS
  <2>2. ~ j < k
    <3>1. <<j, k>> \in R => j \notin T
      BY <1>2, <2>1
    <3> QED BY <2>1, <3>1
  <2> QED BY <2>1, <2>2
<1> QED BY <1>3

\* A function defined by recursion is there: from base where it stops, by comb
\* from the next argument where it does not, which is of a lower rank.
Solves(f, D, next, stop, base, comb) ==
  \A d \in D : f[d] = IF d \in stop THEN base[d] ELSE comb[<<d, f[next[d]]>>]

\* There is such a function.
LEMMA Recursion ==
  ASSUME NEW D, NEW V, NEW bound \in Nat, NEW rank \in [D -> 0 .. bound],
         NEW next \in [D -> D], NEW stop, NEW base \in [D -> V], NEW comb \in [D \X V -> V],
         \A d \in D \ stop : rank[next[d]] < rank[d]
  PROVE  \E f \in [D -> V] : Solves(f, D, next, stop, base, comb)
<1> DEFINE Under(j) == {d \in D : rank[d] < j}
           Sol(j, f) == f \in [Under(j) -> V] /\ Solves(f, Under(j), next, stop, base, comb)
           T == {j \in Nat : ~ \E f : Sol(j, f)}
<1>1. T = {}
  <2> SUFFICES ASSUME T # {} PROVE FALSE
    OBVIOUS
  <2>1. PICK j \in T : \A i \in T : j <= i
    <3> HIDE DEF T
    <3>1. T \subseteq Nat
      BY DEF T
    <3> QED BY <3>1, Least
  <2>2. j \in Nat /\ ~ \E f : Sol(j, f)
    BY <2>1
  <2>3. j # 0
    <3>1. Under(0) = {}
      OBVIOUS
    <3>2. Sol(0, [d \in {} |-> d])
      BY <3>1 DEF Solves
    <3> QED BY <2>2, <3>2
  <2>4. j - 1 \in Nat /\ j - 1 \notin T
    <3>1. j - 1 \in Nat /\ ~ j <= j - 1
      BY <2>2, <2>3
    <3> HIDE DEF T
    <3> QED BY <2>1, <3>1
  <2>5. PICK f : Sol(j - 1, f)
    BY <2>4
  <2> DEFINE g == [d \in Under(j) |-> IF d \in stop THEN base[d] ELSE comb[<<d, f[next[d]]>>]]
  <2>6. ASSUME NEW d \in Under(j), d \notin stop
        PROVE  next[d] \in Under(j - 1) /\ f[next[d]] \in V
    BY <2>2, <2>5, <2>6
  <2>7. g \in [Under(j) -> V]
    <3>1. \A d \in Under(j) : d \in D /\ base[d] \in V
      OBVIOUS
    <3>2. \A d \in Under(j) : d \notin stop => comb[<<d, f[next[d]]>>] \in V
      BY <2>6, <3>1
    <3> QED BY <3>1, <3>2
  <2>8. \A d \in Under(j - 1) : d \in Under(j) /\ g[d] = f[d]
    BY <2>2, <2>5 DEF Solves
  <2>9. Solves(g, Under(j), next, stop, base, comb)
    <3> SUFFICES ASSUME NEW d \in Under(j)
                 PROVE  g[d] = IF d \in stop THEN base[d] ELSE comb[<<d, g[next[d]]>>]
      BY DEF Solves
    <3>1. d \notin stop => g[next[d]] = f[next[d]]
      BY <2>6, <2>8
    <3> QED BY <3>1
  <2> QED BY <2>2, <2>7, <2>9
<1>2. PICK f : Sol(bound + 1, f)
  <2>1. bound + 1 \in Nat
    OBVIOUS
  <2>2. \A j \in Nat : \E f : Sol(j, f)
    BY <1>1
  <2> HIDE DEF Sol, T
  <2> QED BY <2>1, <2>2
<1>3. Under(bound + 1) = D
  OBVIOUS
<1> QED BY <1>2, <1>3

-----------------------------------------------------------------------------
(* The disassembler finds addresses.                                       *)

\* An instruction has one byte to five.
LEMMA IndexedLength ==
  ASSUME NEW pb
  PROVE  decode_indexed(pb) \in 1 .. 3
BY DEF decode_indexed

LEMMA LengthFits ==
  ASSUME NEW p, NEW i
  PROVE  disasm_one(p, i) \in 1 .. 5
<1>1. PICK sub, third : sub = Read(p, Plus(i, 1)) /\ third = Read(p, Plus(i, 2))
  OBVIOUS
<1>2. PICK k \in 1 .. 3, j \in 1 .. 3 : k = decode_indexed(sub) /\ j = decode_indexed(third)
  BY IndexedLength
<1> QED BY <1>1, <1>2 DEF disasm_one

\* f is the sweep of p up to end.
Sweeps(f, p, end) ==
  f = [x \in Nat |-> IF x >= end \/ x \notin Address THEN {} ELSE {x} \cup f[x + disasm_one(p, x)]]

\* How far an address is from the end of the memory.
Room(x) == IF x \in Address THEN LastAddress + 1 - x ELSE 0

\* Every instruction leads nearer to the end.
LEMMA RoomFits ==
  ASSUME NEW x \in Nat
  PROVE  /\ Room(x) \in 0 .. LastAddress + 1
         /\ x \in Address => \A k \in Nat \ {0} : Room(x + k) < Room(x)
<1>1. PICK end \in Nat : end = LastAddress
  BY Halves DEF LastAddress
<1>2. \A i \in Nat : i \in Address <=> i <= end
  BY <1>1 DEF Address
<1>3. \A i \in Nat : Room(i) = IF i <= end THEN end + 1 - i ELSE 0
  BY <1>1, <1>2, Zenon DEF Room
<1>4. Room(x) \in 0 .. end + 1
  BY <1>3
<1>5. ASSUME NEW k \in Nat \ {0}, x \in Address
      PROVE  Room(x + k) < Room(x)
  <2>1. x + k \in Nat /\ x <= end
    BY <1>2, <1>5
  <2> QED BY <1>3, <2>1
<1> QED BY <1>1, <1>4, <1>5

\* There is a sweep, so that linear_sweep returns what its recursion says.
LEMMA SweepExists ==
  ASSUME NEW p, NEW end
  PROVE  \E f : Sweeps(f, p, end)
<1>1. PICK bound \in Nat : bound = LastAddress + 1
  BY Halves DEF LastAddress
<1> DEFINE rank == [x \in Nat |-> Room(x)]
           next == [x \in Nat |-> x + disasm_one(p, x)]
           stop == {x \in Nat : x >= end \/ x \notin Address}
           base == [x \in Nat |-> {}]
           comb == [e \in Nat \X (SUBSET Nat) |-> {e[1]} \cup e[2]]
<1>2. rank \in [Nat -> 0 .. bound]
  BY <1>1, RoomFits
<1>3. next \in [Nat -> Nat]
  BY LengthFits
<1>4. base \in [Nat -> SUBSET Nat] /\ comb \in [Nat \X SUBSET Nat -> SUBSET Nat]
  OBVIOUS
<1>5. \A d \in Nat \ stop : rank[next[d]] < rank[d]
  <2> SUFFICES ASSUME NEW d \in Nat, d \notin stop PROVE rank[next[d]] < rank[d]
    OBVIOUS
  <2>1. PICK k \in 1 .. 5 : k = disasm_one(p, d)
    BY LengthFits
  <2>2. next[d] = d + k /\ d + k \in Nat /\ d \in Address
    BY <2>1
  <2>3. Room(d + k) < Room(d)
    BY <2>1, <2>2, RoomFits
  <2> QED BY <2>2, <2>3
<1> HIDE DEF rank, next, stop, base, comb
<1>6. PICK f \in [Nat -> SUBSET Nat] : Solves(f, Nat, next, stop, base, comb)
  BY <1>2, <1>3, <1>4, <1>5, Recursion
<1>7. ASSUME NEW x \in Nat
      PROVE  f[x] = IF x >= end \/ x \notin Address THEN {} ELSE {x} \cup f[x + disasm_one(p, x)]
  <2>1. f[x] = IF x \in stop THEN base[x] ELSE comb[<<x, f[next[x]]>>]
    BY <1>6 DEF Solves
  <2>2. x \in stop <=> x >= end \/ x \notin Address
    BY DEF stop
  <2>3. next[x] = x + disasm_one(p, x) /\ next[x] \in Nat /\ base[x] = {}
    BY <1>3 DEF next, base
  <2>4. comb[<<x, f[next[x]]>>] = {x} \cup f[next[x]]
    BY <2>3 DEF comb
  <2> QED BY <2>1, <2>2, <2>3, <2>4
<1>8. f = [x \in Nat |-> IF x >= end \/ x \notin Address THEN {} ELSE {x} \cup f[x + disasm_one(p, x)]]
  BY <1>6, <1>7
<1> QED BY <1>8 DEF Sweeps

\* Whatever holds of one address and of the rest of the sweep, holds of it.
LEMMA SweepSubset ==
  ASSUME NEW p, NEW end, NEW f, Sweeps(f, p, end), NEW x \in Nat
  PROVE  f[x] \subseteq Address
<1>0. \A i \in Nat : f[i] = IF i >= end \/ i \notin Address THEN {}
                              ELSE {i} \cup f[i + disasm_one(p, i)]
  BY Zenon DEF Sweeps
<1> DEFINE T == {j \in Nat : \E i \in Nat : Room(i) = j /\ ~ f[i] \subseteq Address}
<1>1. T = {}
  <2> SUFFICES ASSUME T # {} PROVE FALSE
    OBVIOUS
  <2>1. PICK j \in T : \A i \in T : j <= i
    <3> HIDE DEF T
    <3>1. T \subseteq Nat
      BY DEF T
    <3> QED BY <3>1, Least
  <2>2. PICK i \in Nat : Room(i) = j /\ ~ f[i] \subseteq Address
    OBVIOUS
  <2>3. f[i] = IF i >= end \/ i \notin Address THEN {} ELSE {i} \cup f[i + disasm_one(p, i)]
    BY <1>0
  <2>4. ~ (i >= end \/ i \notin Address)
    BY <2>2, <2>3
  <2>5. i \in Address
    BY <2>4
  <2>6. PICK k \in 1 .. 5 : k = disasm_one(p, i)
    BY LengthFits
  <2>7. f[i] = {i} \cup f[i + k]
    BY <2>3, <2>4, <2>6
  <2>8. i + k \in Nat /\ Room(i + k) \in Nat /\ Room(i + k) < j
    <3>1. i + k \in Nat /\ k \in Nat \ {0}
      OBVIOUS
    <3> QED BY <2>2, <2>5, <3>1, RoomFits
  <2>9. Room(i + k) \notin T
    <3>1. j \in Nat
      OBVIOUS
    <3> HIDE DEF T
    <3> QED BY <2>1, <2>8, <3>1
  <2>10. f[i + k] \subseteq Address
    BY <2>8, <2>9
  <2> QED BY <2>2, <2>5, <2>7, <2>10
<1>2. Room(x) \in Nat
  BY RoomFits
<1>3. Room(x) \notin T
  BY <1>1
<1> QED BY <1>2, <1>3

\* A sweep finds addresses.
LEMMA SweepFits ==
  ASSUME NEW p, NEW i \in Nat, NEW end
  PROVE  linear_sweep(p, i, end) \subseteq Address
<1> DEFINE f == CHOOSE g : Sweeps(g, p, end)
<1>1. Sweeps(f, p, end)
  BY SweepExists
<1>2. linear_sweep(p, i, end) = f[i]
  BY DEF linear_sweep, Sweeps
<1> HIDE DEF f
<1> QED BY <1>1, <1>2, SweepSubset

-----------------------------------------------------------------------------
(* Listing: what its variables hold, and that no known start is stale.     *)

\* A write inside the span is recorded, also where the span goes round the end
\* of the memory.
LEMMA InSpanTracked ==
  ASSUME span \in {<< >>} \cup (Address \X Address), NEW i \in Address, InSpan(i)
  PROVE  Tracks(span, i)
<1>1. CASE span = << >>
  BY <1>1 DEF Tracks
<1>2. CASE span # << >>
  <2>1. PICK s1 \in Address, s2 \in Address : s1 = span[1] /\ s2 = span[2]
    BY <1>2
  <2>2. i \in Int /\ 0 <= i /\ i <= 65535
    BY InAddress
  <2>3. /\ s1 \in Int /\ 0 <= s1 /\ s1 <= 65535
        /\ s2 \in Int /\ 0 <= s2 /\ s2 <= 65535
    BY InAddress
  <2>4. (i - s1) % 65536 < (s2 - s1) % 65536
    BY <1>2, <2>1 DEF InSpan
  <2>5. CASE s1 <= s2
    <3>1. (s2 - s1) % 65536 = s2 - s1
      BY <2>3, <2>5
    <3>2. i < s1 => (i - s1) % 65536 = i - s1 + 65536
      BY <2>2, <2>3
    <3>3. i >= s1 => (i - s1) % 65536 = i - s1
      BY <2>2, <2>3
    <3>4. i >= s1 /\ i < s2
      BY <2>2, <2>3, <2>4, <3>1, <3>2, <3>3
    <3> QED BY <1>2, <2>1, <2>5, <3>4 DEF Tracks
  <2>6. CASE s1 > s2
    <3>1. (s2 - s1) % 65536 = s2 - s1 + 65536
      BY <2>3, <2>6
    <3>2. i < s1 => (i - s1) % 65536 = i - s1 + 65536
      BY <2>2, <2>3
    <3>3. i >= s1 \/ i < s2
      BY <2>2, <2>3, <2>4, <3>1, <3>2
    <3> QED BY <1>2, <2>1, <2>3, <2>6, <3>3 DEF Tracks
  <2> QED BY <2>3, <2>5, <2>6
<1> QED BY <1>1, <1>2

\* A loaded program is a machine.
LEMMA LoadedFits ==
  ASSUME NEW p \in Programs
  PROVE  Loaded(p) \in Machines
<1> DEFINE end == Smaller(p.base + Len(p.bytes) - 1, LastAddress)
           where == p.base .. end
           ram == [i \in where |-> p.bytes[i - p.base + 1]]
<1>1. /\ p.base \in Address /\ p.x \in Address /\ p.s \in Address
      /\ p.a \in Octet /\ p.b \in Octet /\ p.bytes \in Seq(Octet)
  BY ProgramsAssumption
<1>2. PICK k \in Nat : k = Len(p.bytes) /\ \A j \in 1 .. k : p.bytes[j] \in Octet
  BY <1>1
<1>3. PICK b \in Nat : b = p.base
  BY <1>1, InAddress
<1>4. PICK top \in Nat : top = LastAddress /\ \A i : i \in Address <=> i \in Int /\ 0 <= i /\ i <= top
  BY Halves, InAddress DEF LastAddress
<1>5. end \in Int /\ end <= b + k - 1 /\ end <= top
  BY <1>2, <1>3, <1>4 DEF Smaller
<1> HIDE DEF end
<1>6. where \subseteq Address
  BY <1>3, <1>4, <1>5
<1>7. \A i \in where : p.bytes[i - p.base + 1] \in Octet
  <2> SUFFICES ASSUME NEW i \in b .. end PROVE p.bytes[i - b + 1] \in Octet
    BY <1>3
  <2>1. i - b + 1 \in 1 .. k
    BY <1>5
  <2> QED BY <1>2, <2>1
<1>8. ram \in [where -> Octet]
  BY <1>7
<1> HIDE DEF where
<1>9. ram \in Memories
  BY <1>6, <1>8 DEF Memories
<1> HIDE DEF ram
<1>10. Loaded(p) = [a |-> p.a, b |-> p.b, dp |-> 0, x |-> p.x, y |-> 0, u |-> 0, s |-> p.s,
                    pc |-> p.base, cc |-> {"I", "F"}, ram |-> ram, wrote |-> {}]
  BY DEF Loaded, ram, where, end
<1>11. 0 \in Octet /\ 0 \in Address
  BY InOctet, InAddress
<1>12. {"I", "F"} \in SUBSET Flag
  BY DEF Flag
<1> QED BY <1>1, <1>9, <1>10, <1>11, <1>12 DEF Machines

\* The swept starts are addresses.
LEMMA SweptFits ==
  ASSUME program \in Programs, NEW p
  PROVE  Swept(p) \subseteq Address
<1>1. program.base \in Nat
  BY ProgramsAssumption, InAddress
<1> QED BY <1>1, SweepFits DEF Swept

\* The bytes of an instruction, one after another.
LEMMA BytesFit ==
  ASSUME NEW p, NEW i
  PROVE  /\ DOMAIN BytesAt(p, i) \subseteq Nat
         /\ \A k \in DOMAIN BytesAt(p, i) : BytesAt(p, i)[k] = Read(p, Plus(i, k - 1))
<1>1. PICK j \in 1 .. 5 : j = disasm_one(p, i)
  BY LengthFits
<1>2. BytesAt(p, i) = [k \in 1 .. j |-> Read(p, Plus(i, k - 1))]
  BY <1>1 DEF BytesAt
<1> QED BY <1>2

\* What every variable holds.
ListingType ==
  /\ program \in Programs
  /\ m \in Machines
  /\ span \in {<< >>} \cup (Address \X Address)
  /\ dirty \subseteq Address
  /\ known \subseteq Address
  /\ \A p \in known : DOMAIN seen[p] \subseteq Nat

\* What was there when the starts became known.
LEMMA SeenFits ==
  ASSUME NEW p, NEW starts, NEW i \in starts
  PROVE  /\ DOMAIN SeenAt(p, starts)[i] \subseteq Nat
         /\ \A k \in DOMAIN SeenAt(p, starts)[i] :
              SeenAt(p, starts)[i][k] = Read(p, Plus(i, k - 1))
<1>1. SeenAt(p, starts)[i] = BytesAt(p, i)
  BY DEF SeenAt
<1> QED BY <1>1, BytesFit

\* At the start nothing is stale.
LEMMA ListingStarts ==
  ASSUME ListingInit
  PROVE  ListingType /\ NotStale
<1>1. program \in Programs /\ m = Loaded(program) /\ dirty = {} /\ known = Swept(m)
      /\ seen = SeenAt(m, known)
      /\ span = <<program.base, Plus(program.base, Len(program.bytes))>>
  BY DEF ListingInit
<1>2. m \in Machines /\ known \subseteq Address
  BY <1>1, LoadedFits, SweptFits
<1>3. program.base \in Address /\ Plus(program.base, Len(program.bytes)) \in Address
  <2>1. program.base \in Address /\ program.bytes \in Seq(Octet)
    BY <1>1, ProgramsAssumption
  <2>2. program.base \in Int /\ Len(program.bytes) \in Int
    BY <2>1, InAddress
  <2> QED BY <2>1, <2>2, PlusFits
<1>4. \A p \in known : DOMAIN seen[p] \subseteq Nat
  BY <1>1, SeenFits
<1>5. NotStale
  BY <1>1, SeenFits DEF NotStale
<1> QED BY <1>1, <1>2, <1>3, <1>4, <1>5 DEF ListingType

\* All that is known is new.
LEMMA SweepAnew ==
  ASSUME ListingType, known' = Swept(m), seen' = SeenAt(m, known'), UNCHANGED <<program, m>>,
         span' \in {<< >>} \cup (Address \X Address), dirty' \subseteq Address
  PROVE  ListingType' /\ NotStale'
<1>1. known' \subseteq Address
  BY SweptFits DEF ListingType
<1>2. \A p \in known' : DOMAIN seen'[p] \subseteq Nat
  BY SeenFits
<1>3. NotStale'
  BY SeenFits DEF NotStale
<1> QED BY <1>1, <1>2, <1>3 DEF ListingType

\* An instruction changes no byte that it does not record.
LEMMA RunKeeps ==
  ASSUME ListingType, NotStale, Run
  PROVE  ListingType' /\ NotStale'
<1>1. /\ m' = Step(m) /\ dirty' = dirty \cup {i \in m'.wrote : Tracks(span, i)}
      /\ known' = known \cup {m.pc} /\ UNCHANGED <<program, span>>
      /\ seen' = [p \in known' |-> IF p = m.pc THEN BytesAt(m, p) ELSE seen[p]]
  BY DEF Run
<1>2. /\ m' \in Machines
      /\ \A i \in Address \ m'.wrote : Read(m', i) = Read(m, i)
  BY <1>1, StepFits DEF ListingType
<1>3. m'.wrote \subseteq Address /\ m.pc \in Address
  BY <1>2 DEF ListingType, Machines
<1>4. dirty' \subseteq Address /\ known' \subseteq Address
  BY <1>1, <1>3 DEF ListingType
<1>5. \A p \in known' : seen'[p] = IF p = m.pc THEN BytesAt(m, p) ELSE seen[p]
  BY <1>1
<1>6. ASSUME NEW p \in known'
      PROVE  DOMAIN seen'[p] \subseteq Nat
  <2>1. CASE p = m.pc
    BY <1>5, <2>1, BytesFit
  <2>2. CASE p # m.pc
    BY <1>1, <1>5, <2>2 DEF ListingType
  <2> QED BY <2>1, <2>2
<1>7. ListingType'
  BY <1>1, <1>2, <1>4, <1>6 DEF ListingType
<1>8. ASSUME dirty' = {}, NEW p \in known', NEW k \in DOMAIN seen'[p], InSpan(Plus(p, k - 1))
      PROVE  Read(m', Plus(p, k - 1)) = seen'[p][k]
  <2>1. PICK i : i = Plus(p, k - 1)
    OBVIOUS
  <2>2. i \in Address
    <3>1. p \in Int /\ k \in Int
      BY <1>4, <1>6, InAddress
    <3> QED BY <2>1, <3>1, PlusFits
  <2>3. Tracks(span, i)
    BY <1>8, <2>1, <2>2, InSpanTracked DEF ListingType
  <2>4. dirty = {} /\ i \notin m'.wrote
    BY <1>1, <1>8, <2>3
  <2>5. Read(m', i) = Read(m, i)
    BY <1>2, <2>2, <2>4
  <2>6. CASE p = m.pc
    BY <1>5, <2>1, <2>5, <2>6, BytesFit
  <2>7. CASE p # m.pc
    BY <1>1, <1>5, <1>8, <2>1, <2>4, <2>5, <2>7 DEF NotStale
  <2> QED BY <2>6, <2>7
<1>9. NotStale'
  <2> SUFFICES ASSUME dirty' = {}, NEW p \in known', NEW k \in DOMAIN seen'[p],
                      InSpan(Plus(p, k - 1))'
               PROVE  Read(m', Plus(p, k - 1)) = seen'[p][k]
    BY DEF NotStale
  <2>1. InSpan(Plus(p, k - 1))
    BY <1>1 DEF InSpan
  <2> QED BY <1>8, <2>1
<1> QED BY <1>7, <1>9

\* No step makes a known start stale.
LEMMA ListingKeeps ==
  ASSUME ListingType, NotStale, [ListingNext]_listingVars
  PROVE  ListingType' /\ NotStale'
<1>1. CASE Run
  BY <1>1, RunKeeps
<1>2. CASE Refresh
  BY <1>2, SweepAnew DEF Refresh, ListingType
<1>3. CASE Retarget
  <2>1. program.spans \subseteq {<< >>} \cup (Address \X Address)
    BY ProgramsAssumption DEF ListingType
  <2> QED BY <1>3, <2>1, SweepAnew DEF Retarget, ListingType
<1>4. CASE UNCHANGED listingVars
  BY <1>4 DEF listingVars, ListingType, NotStale, InSpan
<1> QED BY <1>1, <1>2, <1>3, <1>4 DEF ListingNext

\* The inductive invariant of the listing: what its variables hold, and that
\* no known start is stale.
THEOREM ListingInvariant == ListingSpec => [](ListingType /\ NotStale)
<1>1. ListingInit => ListingType /\ NotStale
  BY ListingStarts
<1>2. (ListingType /\ NotStale) /\ [ListingNext]_listingVars => (ListingType /\ NotStale)'
  BY ListingKeeps
<1> QED BY <1>1, <1>2, PTL DEF ListingSpec

\* No known start is stale as long as no recorded write waits (src/src/bus.rs:
\* WriteTrack::write8, set_span, take_dirty_addrs): every write to the bytes of a
\* known instruction inside the span is among the recorded ones.
THEOREM NeverStale == ListingSpec => []NotStale
BY ListingInvariant, PTL

-----------------------------------------------------------------------------
(* The opcodes as the core and the disassembler know them, on the first page. *)

\* An opcode by its row and its column.
LEMMA RowAndColumn ==
  ASSUME NEW op \in Octet
  PROVE  \E i \in 0 .. 15, j \in 0 .. 15 : op = 16 * i + j /\ i = op \div 16 /\ j = op % 16
<1>1. op \div 16 \in 0 .. 15 /\ op % 16 \in 0 .. 15
  BY NibblesFit
<1>2. op = 16 * (op \div 16) + (op % 16)
  BY InOctet
<1> QED BY <1>1, <1>2

\* Membership of an opcode in a row of the table.
LEMMA InRow ==
  ASSUME NEW i \in 0 .. 15, NEW j \in 0 .. 15, NEW hi \in 0 .. 15, NEW columns \in SUBSET (0 .. 15)
  PROVE  16 * i + j \in Row(hi, columns) <=> i = hi /\ j \in columns
<1>1. ASSUME NEW column \in columns, 16 * i + j = 16 * hi + column
      PROVE  i = hi /\ j = column
  BY <1>1
<1> QED BY <1>1 DEF Row

\* Every opcode has a row and a column.
LEMMA Columns ==
  /\ Unary \in SUBSET (0 .. 15) /\ Unary \cup {14} \in SUBSET (0 .. 15)
  /\ Dyadic \in SUBSET (0 .. 15) /\ Dyadic \ {7} \in SUBSET (0 .. 15)
  /\ {0, 1, 2, 4, 5, 6, 7} \in SUBSET (0 .. 15)
  /\ {3, 8, 9, 10, 11, 12} \in SUBSET (0 .. 15)
BY DEF Unary, Dyadic

\* The classes of opcodes of the disassembler, by rows and columns.
LEMMA DisasmClasses ==
  ASSUME NEW i \in 0 .. 15, NEW j \in 0 .. 15, NEW op, op = 16 * i + j
  PROVE  /\ op \in Inherents <=>
              \/ i \in {4, 5} /\ j \in Unary
              \/ op \in {\h12, \h13, \h19, \h1D, \h39, \h3A, \h3B, \h3D, \h3F}
         /\ op \in TwoBytes <=>
              \/ i = 2
              \/ i = 0 /\ j \in Unary \cup {14}
              \/ i \in {8, 12} /\ j \in Dyadic \ {7}
              \/ i \in {9, 13} /\ j \in Dyadic
              \/ op \in {\h8D, \h9D, \hDC, \hDD, \h9E, \h9F, \h1A, \h1C, \h3C, \h34, \h35, \h1E, \h1F}
         /\ op \in ThreeBytes <=>
              \/ i = 7 /\ j \in Unary \cup {14}
              \/ i \in {11, 15} /\ j \in Dyadic
              \/ op \in {\h16, \h17, \hBD, \hFC, \hFD, \hBE, \hBF, \hCC, \h83, \h8E, \hC3, \hCE}
         /\ op \in IndexedOps <=>
              \/ i = 6 /\ j \in Unary \cup {14}
              \/ i = 10 /\ j \in {0, 1, 2, 4, 5, 6, 7}
              \/ i = 14 /\ j \in Dyadic
              \/ op \in {\h30, \h31, \h32, \h33, \hAD, \hEC, \hED, \hAE, \hAF}
<1>0. ASSUME NEW hi \in 0 .. 15, NEW columns \in SUBSET (0 .. 15)
      PROVE  op \in Row(hi, columns) <=> i = hi /\ j \in columns
  BY InRow
<1>1. /\ op \in Row(4, Unary) <=> i = 4 /\ j \in Unary
      /\ op \in Row(5, Unary) <=> i = 5 /\ j \in Unary
  BY <1>0, Columns
<1>2. /\ op \in RowsInMemory.direct <=> i = 0 /\ j \in Unary \cup {14}
      /\ op \in RowsInMemory.indexed <=> i = 6 /\ j \in Unary \cup {14}
      /\ op \in RowsInMemory.extended <=> i = 7 /\ j \in Unary \cup {14}
  <2>1. PICK columns \in SUBSET (0 .. 15) : columns = Unary \cup {14}
    BY Columns
  <2>2. /\ RowsInMemory.direct = Row(0, columns) /\ RowsInMemory.indexed = Row(6, columns)
        /\ RowsInMemory.extended = Row(7, columns)
    BY <2>1 DEF RowsInMemory
  <2> QED BY <2>1, <2>2, <1>0
<1>3. /\ op \in ImmediatesA <=> i = 8 /\ j \in Dyadic \ {7}
      /\ op \in ImmediatesB <=> i = 12 /\ j \in Dyadic \ {7}
      /\ op \in DirectsA <=> i = 9 /\ j \in Dyadic
      /\ op \in DirectsB <=> i = 13 /\ j \in Dyadic
      /\ op \in ExtendedsA <=> i = 11 /\ j \in Dyadic
      /\ op \in ExtendedsB <=> i = 15 /\ j \in Dyadic
      /\ op \in IndexedA <=> i = 10 /\ j \in {0, 1, 2, 4, 5, 6, 7}
      /\ op \in IndexedB <=> i = 14 /\ j \in Dyadic
  <2>1. PICK columns \in SUBSET (0 .. 15) : columns = Dyadic
    BY Columns
  <2>2. PICK shorter \in SUBSET (0 .. 15) : shorter = Dyadic \ {7}
    BY Columns
  <2>3. /\ op \in ImmediatesA <=> i = 8 /\ j \in shorter
        /\ op \in ImmediatesB <=> i = 12 /\ j \in shorter
    BY <2>2, <1>0 DEF ImmediatesA, ImmediatesB
  <2>4. /\ op \in DirectsA <=> i = 9 /\ j \in columns
        /\ op \in DirectsB <=> i = 13 /\ j \in columns
        /\ op \in ExtendedsA <=> i = 11 /\ j \in columns
        /\ op \in ExtendedsB <=> i = 15 /\ j \in columns
        /\ op \in IndexedB <=> i = 14 /\ j \in columns
    BY <2>1, <1>0 DEF DirectsA, DirectsB, ExtendedsA, ExtendedsB, IndexedB
  <2>5. op \in IndexedA <=> i = 10 /\ j \in {0, 1, 2, 4, 5, 6, 7}
    BY <1>0, Columns DEF IndexedA
  <2> QED BY <2>1, <2>2, <2>3, <2>4, <2>5
<1>4. op \in RelativeOps <=> i = 2 \/ op = \h8D
  BY DEF RelativeOps
<1>5. op \in LeaOps <=> op \in {\h30, \h31, \h32, \h33}
  BY DEF LeaOps
<1>6. op \in Inherents <=>
         \/ i \in {4, 5} /\ j \in Unary
         \/ op \in {\h12, \h13, \h19, \h1D, \h39, \h3A, \h3B, \h3D, \h3F}
  BY <1>1 DEF Inherents
<1>7. op \in TwoBytes <=>
        \/ i = 2
        \/ i = 0 /\ j \in Unary \cup {14}
        \/ i \in {8, 12} /\ j \in Dyadic \ {7}
        \/ i \in {9, 13} /\ j \in Dyadic
        \/ op \in {\h8D, \h9D, \hDC, \hDD, \h9E, \h9F, \h1A, \h1C, \h3C, \h34, \h35, \h1E, \h1F}
  BY <1>2, <1>3, <1>4 DEF TwoBytes, CallsAndD, XAndImmediates, Masks, Pairs
<1>8. op \in ThreeBytes <=>
        \/ i = 7 /\ j \in Unary \cup {14}
        \/ i \in {11, 15} /\ j \in Dyadic
        \/ op \in {\h16, \h17, \hBD, \hFC, \hFD, \hBE, \hBF, \hCC, \h83, \h8E, \hC3, \hCE}
  BY <1>2, <1>3 DEF ThreeBytes, LongOps, CallsAndD, XAndImmediates
<1>9. op \in IndexedOps <=>
        \/ i = 6 /\ j \in Unary \cup {14}
        \/ i = 10 /\ j \in {0, 1, 2, 4, 5, 6, 7}
        \/ i = 14 /\ j \in Dyadic
        \/ op \in {\h30, \h31, \h32, \h33, \hAD, \hEC, \hED, \hAE, \hAF}
  BY <1>2, <1>3, <1>5 DEF IndexedOps, CallsAndD, XAndImmediates
<1> QED BY <1>6, <1>7, <1>8, <1>9

\* Opcodes that the disassembler takes for data.
UnknownOps ==
  {\h36, \h37} \cup Row(10, {3, 8, 9, 10, 11, 12})
     \cup {\h8C, \h93, \h9C, \hB3, \hBC, \hD3, \hE3, \hF3}
     \cup {\hDE, \hDF, \hEE, \hEF, \hFE, \hFF}

\* Postbytes whose length it does not know.
UnknownForms == {\h18, \h19, \h0C, \h0D, \h1C, \h1D}

\* The disassembler knows the length of an indexed operand, by its postbyte.
LEMMA FormsAgree ==
  ASSUME NEW pb \in Octet, ~ (pb >= 128 /\ pb % 32 \in UnknownForms)
  PROVE  decode_indexed(pb) = IndexBytes(pb)
<1>1. pb \in Nat /\ pb <= 255
  BY InOctet
<1>2. CASE pb < 128
  BY <1>2 DEF decode_indexed, IndexBytes
<1>3. CASE pb >= 128
  <2>1. PICK f \in 0 .. 31 : f = pb % 32
    BY <1>1
  <2>2. PICK g \in 0 .. 15 : g = pb % 16
    BY <1>1
  <2>3. g = f \/ g = f - 16
    BY <1>1, <2>1, <2>2
  <2>4. f \notin UnknownForms
    BY <1>3, <2>1
  <2>5. decode_indexed(pb) = CASE f = \h08 -> 2 [] f \in {\h09, \h0F, \h1F} -> 3 [] OTHER -> 1
    BY <1>1, <1>3, <2>1 DEF decode_indexed
  <2>6. IndexBytes(pb) = 1 + OffsetBytes(g)
    BY <1>1, <1>3, <2>2 DEF IndexBytes
  <2> QED BY <2>3, <2>4, <2>5, <2>6 DEF UnknownForms, OffsetBytes
<1> QED BY <1>1, <1>2, <1>3

\* The core finds the mode by the row.
LEMMA ModesByRow ==
  ASSUME NEW i \in 0 .. 15, NEW j \in 0 .. 15, NEW op, op = 16 * i + j
  PROVE  /\ i \in {0, 4, 8, 12} => Mode(op) = "imm"
         /\ i \in {1, 5, 9, 13} => Mode(op) = "dir"
         /\ i \in {2, 6, 10, 14} => Mode(op) = "idx"
         /\ i \in {3, 7, 11, 15} => Mode(op) = "ext"
         /\ op < 16 <=> i = 0
<1>1. op \div 16 = i
  OBVIOUS
<1>2. i % 4 = IF i < 4 THEN i ELSE IF i < 8 THEN i - 4 ELSE IF i < 12 THEN i - 8 ELSE i - 12
  OBVIOUS
<1> QED BY <1>1, <1>2 DEF Mode

\* Bytes of the operand, by mode.
LEMMA BytesByMode ==
  ASSUME NEW p, NEW k
  PROVE  /\ OperandBytes(p, "imm", k) = k /\ OperandBytes(p, "dir", k) = 1
         /\ OperandBytes(p, "idx", k) = IndexBytes(Read(p, p.pc))
         /\ OperandBytes(p, "ext", k) = 2
BY DEF OperandBytes

\* The disassembler has the opcode among those with k bytes of operand, pb being
\* the byte after the opcode.
Listed(op, k, pb) ==
  \/ k = 0 /\ op \notin TwoBytes \cup ThreeBytes \cup IndexedOps
  \/ k = 1 /\ op \in TwoBytes /\ op \notin Inherents
  \/ k = 2 /\ op \in ThreeBytes /\ op \notin Inherents \cup TwoBytes
  \/ /\ k = IndexBytes(pb)
     /\ op \in IndexedOps /\ op \notin Inherents \cup TwoBytes \cup ThreeBytes

\* Opcodes with one or two bytes, or an index, by row and column.
KnownOpcode(op) == op \notin {\h10, \h11, \h13, \h3B, \h3C, \h3F} \cup UnknownOps

\* Where the disassembler has what the core takes for an instruction on a byte.
LEMMA BytesListed ==
  ASSUME NEW p \in Machines, NEW i \in 0 .. 15, NEW j \in 0 .. 15, NEW op \in Octet,
         op = 16 * i + j, KnownOpcode(op), IsByteOp(op), NEW pb, pb = Read(p, p.pc)
  PROVE  Listed(op, OperandBytes(p, Mode(op), 1), pb)
<1>1. i \in 8 .. 15 /\ j \in Dyadic /\ op \notin {\h87, \hC7}
  BY DEF IsByteOp, Dyadic
<1>2. i = 10 => j \notin {8, 9, 10, 11}
  <2>1. Row(10, {3, 8, 9, 10, 11, 12}) \subseteq UnknownOps
    BY DEF UnknownOps
  <2>2. i = 10 /\ j \in {3, 8, 9, 10, 11, 12} => op \in Row(10, {3, 8, 9, 10, 11, 12})
    BY DEF Row
  <2> QED BY <2>1, <2>2 DEF KnownOpcode
<1>3. CASE i \in {8, 12}
  BY <1>1, <1>3, ModesByRow, BytesByMode, DisasmClasses DEF Listed, Unary, Dyadic
<1>4. CASE i \in {9, 13}
  BY <1>1, <1>4, ModesByRow, BytesByMode, DisasmClasses DEF Listed, Unary, Dyadic
<1>5. CASE i \in {10, 14}
  BY <1>1, <1>2, <1>5, ModesByRow, BytesByMode, DisasmClasses DEF Listed, Unary, Dyadic
<1>6. CASE i \in {11, 15}
  BY <1>1, <1>6, ModesByRow, BytesByMode, DisasmClasses DEF Listed, Unary, Dyadic
<1> QED BY <1>1, <1>3, <1>4, <1>5, <1>6

\* And for one on 16 bits.
LEMMA WordsListed ==
  ASSUME NEW p \in Machines, NEW i \in 0 .. 15, NEW j \in 0 .. 15, NEW op \in Octet,
         op = 16 * i + j, KnownOpcode(op), IsWideOp(FirstWide, op), NEW pb, pb = Read(p, p.pc)
  PROVE  Listed(op, OperandBytes(p, Mode(op), 2), pb)
<1>1. i \in 8 .. 15 /\ op \div 16 = i
  BY DEF IsWideOp
<1>2. Base(op) = 16 * (IF i < 12 THEN 8 ELSE 12) + j
  BY <1>1 DEF Base
<1>3. Base(op) \in {\h83, \hC3, \h8C, \h8E, \h8F, \hCC, \hCD, \hCE, \hCF}
  BY DEF IsWideOp, FirstWide
<1>4. \/ i < 12 /\ j \in {3, 12, 14, 15}
      \/ i >= 12 /\ j \in {3, 12, 13, 14, 15}
  BY <1>2, <1>3
<1>5. Mode(op) = "imm" => op \notin {\h8F, \hCD, \hCF}
  <2>1. Mode(op) = "imm" => Base(op) = op
    BY <1>1, <1>2, ModesByRow
  <2> QED BY <2>1 DEF IsWideOp, FirstWide
<1>6. /\ i = 10 => j \notin {3, 12}
      /\ op \notin UnknownOps
  <2>1. Row(10, {3, 8, 9, 10, 11, 12}) \subseteq UnknownOps
    BY DEF UnknownOps
  <2>2. i = 10 /\ j \in {3, 8, 9, 10, 11, 12} => op \in Row(10, {3, 8, 9, 10, 11, 12})
    BY DEF Row
  <2> QED BY <2>1, <2>2 DEF KnownOpcode
<1>7. op \in {\h83, \h8E, \h9E, \hAE, \hBE, \h9F, \hAF, \hBF, \hC3,
              \hCC, \hDC, \hEC, \hFC, \hDD, \hED, \hFD, \hCE}
  BY <1>1, <1>4, <1>5, <1>6, ModesByRow DEF UnknownOps
<1>8. CASE i \in {8, 12}
  BY <1>7, <1>8, ModesByRow, BytesByMode, DisasmClasses DEF Listed, Unary, Dyadic
<1>9. CASE i \in {9, 13}
  BY <1>7, <1>9, ModesByRow, BytesByMode, DisasmClasses DEF Listed, Unary, Dyadic
<1>10. CASE i \in {10, 14}
  BY <1>7, <1>10, ModesByRow, BytesByMode, DisasmClasses DEF Listed, Unary, Dyadic
<1>11. CASE i \in {11, 15}
  BY <1>7, <1>11, ModesByRow, BytesByMode, DisasmClasses DEF Listed, Unary, Dyadic
<1> QED BY <1>1, <1>8, <1>9, <1>10, <1>11

\* NOP, and what is not an instruction.
Nothing(op) ==
  /\ ~ IsOneByteOp(op) /\ op \notin JumpOps /\ op \notin \h20 .. \h2F /\ op # \h16
  /\ op \notin \h30 .. \h33 /\ op \notin \h34 .. \h37 /\ op \notin {\h1E, \h1F}
  /\ op \notin InherentOps /\ ~ IsCall(op) /\ ~ IsByteOp(op) /\ ~ IsWideOp(FirstWide, op)

\* And what the core does not know at all.
LEMMA NothingListed ==
  ASSUME NEW p \in Machines, NEW i \in 0 .. 15, NEW j \in 0 .. 15, NEW op \in Octet,
         op = 16 * i + j, KnownOpcode(op), Nothing(op), NEW pb
  PROVE  Listed(op, 0, pb)
<1>1. op \div 16 = i /\ op % 16 = j
  OBVIOUS
<1>2. /\ i \in {0, 4, 5, 6, 7} => j \notin Unary \cup {14} \/ i \in {4, 5}
      /\ i \notin {2} /\ op \notin {\h16, \h1E, \h1F, \h1A, \h1C, \h3C, \h17}
      /\ ~ (i = 3 /\ j \in 0 .. 7)
  BY <1>1 DEF Nothing, IsOneByteOp, JumpOps, InherentOps, IsCall, Unary, KnownOpcode
<1>3. i >= 8 => j \notin Dyadic \/ op \in {\h87, \hC7}
  BY <1>1 DEF Nothing, IsByteOp, Dyadic
<1>4. op \notin {\h8D, \h9D, \hAD, \hBD}
  BY DEF Nothing, IsCall
<1>5. op \notin {\hDC, \hDD, \h9E, \h9F, \hFC, \hFD, \hBE, \hBF, \hCC, \h83, \h8E, \hC3, \hCE,
                 \hEC, \hED, \hAE, \hAF}
  <2>1. ASSUME NEW base \in DOMAIN FirstWide, NEW row \in {1, 2, 3}, op = base + 16 * row,
               base % 64 < 16, base >= 128
        PROVE  FALSE
    <3>1. DOMAIN FirstWide = {\h83, \hC3, \h8C, \h8E, \h8F, \hCC, \hCD, \hCE, \hCF}
      BY DEF FirstWide
    <3>2. Base(op) = base /\ op >= 128
      BY <2>1, <3>1 DEF Base
    <3>3. Mode(op) # "imm"
      BY <2>1, <3>1 DEF Mode
    <3> QED BY <3>2, <3>3 DEF Nothing, IsWideOp
  <2>2. op \notin {\hCC, \h83, \h8E, \hC3, \hCE}
    <3> SUFFICES ASSUME op \in {\hCC, \h83, \h8E, \hC3, \hCE} PROVE FALSE
      OBVIOUS
    <3>1. Base(op) = op
      BY DEF Base
    <3>2. Base(op) \in DOMAIN FirstWide /\ FirstWide[Base(op)][1] # "ST"
      BY <3>1 DEF FirstWide
    <3> QED BY <3>2 DEF Nothing, IsWideOp
  <2>3. /\ \hCC \in DOMAIN FirstWide /\ \hCD \in DOMAIN FirstWide
        /\ \h8E \in DOMAIN FirstWide /\ \h8F \in DOMAIN FirstWide
    BY DEF FirstWide
  <2>4. op \notin {\hDC, \hEC, \hFC}
    BY <2>1, <2>3
  <2>5. op \notin {\hDD, \hED, \hFD}
    BY <2>1, <2>3
  <2>6. op \notin {\h9E, \hAE, \hBE}
    BY <2>1, <2>3
  <2>7. op \notin {\h9F, \hAF, \hBF}
    BY <2>1, <2>3
  <2> QED BY <2>2, <2>4, <2>5, <2>6, <2>7
<1>6. op \notin TwoBytes
  BY <1>2, <1>3, <1>4, <1>5, DisasmClasses DEF Unary, Dyadic
<1>7. op \notin ThreeBytes
  BY <1>2, <1>3, <1>4, <1>5, DisasmClasses DEF Unary, Dyadic
<1>8. op \notin IndexedOps
  BY <1>2, <1>3, <1>4, <1>5, DisasmClasses DEF Unary, Dyadic
<1> QED BY <1>6, <1>7, <1>8 DEF Listed

\* The length of an instruction of the first page, as the core counts it.
LEMMA FirstLengths ==
  ASSUME NEW p \in Machines, NEW i \in 0 .. 15, NEW j \in 0 .. 15, NEW op \in Octet,
         op = 16 * i + j, KnownOpcode(op), NEW pb, pb = Read(p, p.pc),
         NEW k, k = FirstBytes(p, op)
  PROVE  Listed(op, k, pb)
<1>1. CASE IsOneByteOp(op)
  <2>1. k = OneByteBytes(p, op)
    BY <1>1, Classes DEF FirstBytes
  <2>2. i \in {0, 4, 5, 6, 7} /\ j \in Unary /\ op \div 16 = i
    BY <1>1 DEF IsOneByteOp, Unary
  <2>3. k = CASE i \in {4, 5} -> 0
              [] i = 0 -> 1
              [] i = 6 -> IndexBytes(pb)
              [] i = 7 -> 2
    BY <2>1, <2>2, ModesByRow DEF OneByteBytes, OperandBytes, InMemory
  <2> QED BY <2>2, <2>3, DisasmClasses DEF Unary, Listed
<1>2. CASE op \in JumpOps
  <2>1. k = OperandBytes(p, InMemory(op), 2)
    BY <1>2, Classes DEF FirstBytes
  <2>2. i \in {0, 6, 7} /\ j = 14
    BY <1>2 DEF JumpOps
  <2>3. k = CASE i = 0 -> 1 [] i = 6 -> IndexBytes(pb) [] i = 7 -> 2
    BY <2>1, <2>2, ModesByRow, BytesByMode DEF InMemory
  <2> QED BY <2>2, <2>3, DisasmClasses DEF Unary, Listed
<1>3. CASE op \in \h20 .. \h2F
  <2>1. k = 1 /\ i = 2
    BY <1>3, Classes DEF FirstBytes, JumpOps
  <2> QED BY <2>1, DisasmClasses DEF Listed
<1>4. CASE op = \h16
  <2>1. k = 2 /\ i = 1 /\ j = 6
    BY <1>4, Classes DEF FirstBytes, JumpOps
  <2> QED BY <2>1, DisasmClasses DEF Listed
<1>5. CASE op \in \h30 .. \h33
  <2>1. k = IndexBytes(pb) /\ i = 3 /\ j \in 0 .. 3
    BY <1>5, Classes DEF FirstBytes, JumpOps
  <2> QED BY <2>1, DisasmClasses DEF Listed
<1>6. CASE op \in \h34 .. \h37
  <2>1. k = 1 /\ i = 3 /\ j \in 4 .. 7
    BY <1>6, Classes DEF FirstBytes, JumpOps
  <2>2. op \in {\h34, \h35}
    BY <1>6 DEF KnownOpcode, UnknownOps
  <2> QED BY <2>1, <2>2, DisasmClasses DEF Listed
<1>7. CASE op \in {\h1E, \h1F}
  <2>1. k = 1 /\ i = 1 /\ j \in 14 .. 15
    BY <1>7, Classes DEF FirstBytes, JumpOps
  <2> QED BY <1>7, <2>1, DisasmClasses DEF Listed
<1>8. CASE op \in InherentOps
  <2>1. k = InherentBytes(op)
    BY <1>8, Classes DEF FirstBytes, JumpOps, InherentOps
  <2>2. /\ i \in {1, 3}
        /\ \/ op \in {\h1A, \h1C} /\ k = 1
           \/ op \in {\h19, \h1D, \h39, \h3A, \h3D} /\ k = 0
    BY <1>8, <2>1 DEF InherentOps, InherentBytes
  <2> QED BY <2>2, DisasmClasses DEF Listed
<1>9. CASE IsCall(op)
  <2>1. k = CallBytes(p, op)
    BY <1>9, Classes DEF FirstBytes, JumpOps, InherentOps
  <2>2. CASE op = \h8D
    BY <2>1, <2>2, DisasmClasses DEF CallBytes, Listed, Unary, Dyadic
  <2>3. CASE op = \h17
    BY <2>1, <2>3, DisasmClasses DEF CallBytes, Listed, Unary, Dyadic
  <2>4. CASE op \in {\h9D, \hAD, \hBD}
    <3>1. k = OperandBytes(p, Mode(op), 2) /\ i \in {9, 10, 11} /\ j = 13
      BY <2>1, <2>4 DEF CallBytes
    <3>2. k = CASE i = 9 -> 1 [] i = 10 -> IndexBytes(pb) [] i = 11 -> 2
      BY <3>1, ModesByRow, BytesByMode
    <3> QED BY <3>1, <3>2, DisasmClasses DEF Listed, Unary, Dyadic
  <2> QED BY <1>9, <2>2, <2>3, <2>4 DEF IsCall
<1>10. CASE IsByteOp(op)
  <2>1. k = OperandBytes(p, Mode(op), 1)
    BY <1>10, Classes, InOctet DEF FirstBytes, JumpOps, InherentOps
  <2> QED BY <1>10, <2>1, BytesListed
<1>11. CASE IsWideOp(FirstWide, op)
  <2>1. k = OperandBytes(p, Mode(op), 2)
    BY <1>11, Classes, InOctet DEF FirstBytes, JumpOps, InherentOps
  <2> QED BY <1>11, <2>1, WordsListed
<1>12. CASE Nothing(op)
  <2>1. k = 0
    BY <1>12 DEF Nothing, FirstBytes
  <2> QED BY <1>12, <2>1, NothingListed
<1> QED BY <1>1, <1>2, <1>3, <1>4, <1>5, <1>6, <1>7, <1>8, <1>9, <1>10, <1>11, <1>12 DEF Nothing

-----------------------------------------------------------------------------
(* The same of the other pages.                                            *)

\* The opcode, what follows it, and the machine when the opcode has been fetched.
LEMMA FetchedReads ==
  ASSUME NEW p \in Machines, NEW k \in 1 .. 2, NEW f, f = Fetched(p, k)
  PROVE  /\ f \in Machines /\ f.pc = Plus(p.pc, k)
         /\ Read(f, f.pc) = Read(p, Plus(p.pc, k))
         /\ Word(f, f.pc) = Word(p, Plus(p.pc, k))
<1>1. f \in Machines /\ f.pc = Plus(p.pc, k) /\ \A i : Read(f, i) = Read(p, i)
  BY FetchedFits
<1>2. Word(f, f.pc) = Word(p, Plus(p.pc, k))
  BY <1>1, Zenon DEF Word
<1> QED BY <1>1, <1>2

\* Outside the known gaps the postbyte of an indexed operand is decoded.
LEMMA PostbyteAgrees ==
  ASSUME m \in Machines, ~ Undecoded(m.pc), NEW op, op = Read(m, m.pc),
         op \in {\h10, \h11} \cup IndexedOps, NEW pb, pb = Postbyte(m.pc)
  PROVE  decode_indexed(pb) = IndexBytes(pb)
<1>1. pb \in Octet
  BY ReadFits, Zenon DEF Postbyte
<1>2. ~ (pb >= 128 /\ pb % 32 \in UnknownForms)
  BY DEF Undecoded, UnknownForms
<1> QED BY <1>1, <1>2, FormsAgree

\* The core takes no opcode for two things.
LEMMA ClassesApart ==
  ASSUME NEW i \in 0 .. 15, NEW j \in 0 .. 15, NEW op, op = 16 * i + j
  PROVE  /\ op \in TwoBytes => op \notin ThreeBytes \cup IndexedOps
         /\ op \in ThreeBytes => op \notin IndexedOps
<1>1. CASE i \in {0, 1, 2, 3}
  BY <1>1, DisasmClasses
<1>2. CASE i \in {4, 5, 6, 7}
  BY <1>2, DisasmClasses
<1>3. CASE i \in {8, 9}
  BY <1>3, DisasmClasses DEF Dyadic
<1>4. CASE i \in {10, 11}
  BY <1>4, DisasmClasses DEF Dyadic
<1>5. CASE i \in {12, 13}
  BY <1>5, DisasmClasses DEF Dyadic
<1>6. CASE i \in {14, 15}
  BY <1>6, DisasmClasses DEF Dyadic
<1> QED BY <1>1, <1>2, <1>3, <1>4, <1>5, <1>6

\* Outside the gaps, the disassembler counts the bytes that the core fetches.
LEMMA FirstAgrees ==
  ASSUME m \in Machines, ~ Halts(m), ~ Undecoded(m.pc), NEW op, op = Read(m, m.pc),
         op \notin {\h10, \h11}
  PROVE  /\ disasm_one(m, m.pc) = 1 + FirstBytes(Fetched(m, 1), op)
         /\ FirstBytes(Fetched(m, 1), op) \in 0 .. 4
<1>1. PICK p \in Machines : p = Fetched(m, 1) /\ Read(p, p.pc) = Read(m, Plus(m.pc, 1))
  BY FetchedReads
<1>2. PICK pb : pb = Read(m, Plus(m.pc, 1))
  OBVIOUS
<1>3. PICK k : k = FirstBytes(p, op)
  OBVIOUS
<1>4. op \in Octet
  BY ReadFits
<1>5. PICK i \in 0 .. 15, j \in 0 .. 15 : op = 16 * i + j
  BY <1>4, RowAndColumn
<1>6. KnownOpcode(op)
  <2>1. op \notin {\h13, \h3B, \h3C, \h3F}
    BY DEF Halts
  <2>2. op \notin UnknownOps
    BY DEF Undecoded, UnknownOps
  <2> QED BY <2>1, <2>2 DEF KnownOpcode
<1>7. Listed(op, k, pb)
  BY <1>1, <1>2, <1>3, <1>4, <1>5, <1>6, FirstLengths
<1>8. op \in IndexedOps => decode_indexed(pb) = IndexBytes(pb)
  <2>1. pb = Postbyte(m.pc)
    BY <1>2 DEF Postbyte
  <2> QED BY <2>1, PostbyteAgrees
<1>9. disasm_one(m, m.pc) = CASE op \in Inherents  -> 1
                              [] op \in TwoBytes   -> 2
                              [] op \in ThreeBytes -> 3
                              [] op \in IndexedOps -> 1 + decode_indexed(pb)
                              [] OTHER -> 1
  <2>1. disasm_one(m, m.pc) =
          CASE op \in Inherents  -> 1
            [] op \in TwoBytes   -> 2
            [] op \in ThreeBytes -> 3
            [] op \in IndexedOps -> 1 + decode_indexed(pb)
            [] op \in {\h10, \h11} ->
                 2 + (LET page == IF op = \h10 THEN Page10 ELSE Page11
                      IN  CASE pb \in page.one     -> 1
                            [] pb \in page.two     -> 2
                            [] pb \in page.indexed -> decode_indexed(Read(m, Plus(m.pc, 2)))
                            [] OTHER               -> 0)
            [] OTHER -> 1
    BY <1>2, Zenon DEF disasm_one
  <2> QED BY <2>1
<1>10. disasm_one(m, m.pc) = 1 + k
  <2>1. CASE k = 0 /\ op \notin TwoBytes \cup ThreeBytes \cup IndexedOps
    BY <1>9, <2>1
  <2>2. CASE k = 1 /\ op \in TwoBytes /\ op \notin Inherents
    BY <1>5, <1>9, <2>2, ClassesApart
  <2>3. CASE k = 2 /\ op \in ThreeBytes /\ op \notin Inherents \cup TwoBytes
    BY <1>5, <1>9, <2>3, ClassesApart
  <2>4. CASE /\ k = IndexBytes(pb)
             /\ op \in IndexedOps /\ op \notin Inherents \cup TwoBytes \cup ThreeBytes
    BY <1>8, <1>9, <2>4
  <2> QED BY <1>7, <2>1, <2>2, <2>3, <2>4 DEF Listed
<1>11. k \in 0 .. 4
  <2>1. IndexBytes(pb) \in 1 .. 3
    BY DEF IndexBytes, OffsetBytes
  <2> QED BY <1>7, <2>1 DEF Listed
<1> QED BY <1>1, <1>3, <1>10, <1>11

\* The instructions of the other pages, as the core and the disassembler know them.
LEMMA WidePages ==
  ASSUME NEW op \in {\h10, \h11}, NEW sub \in Octet,
         NEW page, page = IF op = \h10 THEN Page10 ELSE Page11,
         NEW ops, ops = IF op = \h10 THEN Wide10 ELSE Wide11
  PROVE  /\ IsWideOp(ops, sub) /\ Mode(sub) = "dir" <=> sub \in page.one
         /\ IsWideOp(ops, sub) /\ Mode(sub) \in {"imm", "ext"} <=>
              sub \in page.two \ (\h21 .. \h2F)
         /\ IsWideOp(ops, sub) /\ Mode(sub) = "idx" <=> sub \in page.indexed
         /\ IsWideOp(ops, sub) => sub \notin \h21 .. \h2F
         /\ sub \in \h21 .. \h2F => (sub \in page.two <=> op = \h10)
<1>1. PICK i \in 0 .. 15, j \in 0 .. 15 : sub = 16 * i + j /\ sub \div 16 = i
  BY RowAndColumn
<1>2. i >= 8 => Base(sub) = 16 * (IF i < 12 THEN 8 ELSE 12) + j
  BY <1>1 DEF Base
<1>3. sub >= 128 <=> i >= 8
  BY <1>1
<1>4. /\ i \in {8, 12} <=> i >= 8 /\ Mode(sub) = "imm"
      /\ i \in {9, 13} <=> i >= 8 /\ Mode(sub) = "dir"
      /\ i \in {10, 14} <=> i >= 8 /\ Mode(sub) = "idx"
      /\ i \in {11, 15} <=> i >= 8 /\ Mode(sub) = "ext"
  BY <1>1, ModesByRow
<1>5. CASE op = \h10
  <2>1. IsWideOp(ops, sub) <=> /\ i >= 8
                               /\ Base(sub) \in {\h83, \h8C, \h8E, \h8F, \hCE, \hCF}
                               /\ Mode(sub) = "imm" => Base(sub) \notin {\h8F, \hCF}
    BY <1>3, <1>5 DEF IsWideOp, Wide10
  <2>2. IsWideOp(ops, sub) <=> /\ i >= 8
                               /\ \/ i < 12 /\ j \in {3, 12, 14, 15}
                                  \/ i >= 12 /\ j \in {14, 15}
                               /\ i \in {8, 12} => j # 15
    BY <1>2, <1>4, <2>1
  <2>3. /\ page.one = {\h93, \h9C, \h9E, \h9F, \hDE, \hDF}
        /\ page.two = {\h83, \hB3, \h8C, \h8E, \hBC, \hBE, \hBF, \hCE, \hFE, \hFF}
                        \cup \h21 .. \h2F
        /\ page.indexed = {\hA3, \hAC, \hAE, \hAF, \hEE, \hEF}
    BY <1>5 DEF Page10
  <2>4. IsWideOp(ops, sub) /\ Mode(sub) = "dir" <=> sub \in page.one
    BY <1>1, <1>4, <2>2, <2>3
  <2>5. IsWideOp(ops, sub) /\ Mode(sub) \in {"imm", "ext"} <=>
          sub \in page.two \ (\h21 .. \h2F)
    BY <1>1, <1>4, <2>2, <2>3
  <2>6. IsWideOp(ops, sub) /\ Mode(sub) = "idx" <=> sub \in page.indexed
    BY <1>1, <1>4, <2>2, <2>3
  <2> QED BY <1>1, <1>5, <2>2, <2>3, <2>4, <2>5, <2>6
<1>6. CASE op = \h11
  <2>1. IsWideOp(ops, sub) <=> i >= 8 /\ Base(sub) \in {\h83, \h8C}
    BY <1>3, <1>6 DEF IsWideOp, Wide11
  <2>2. IsWideOp(ops, sub) <=> i >= 8 /\ i < 12 /\ j \in {3, 12}
    BY <1>2, <1>4, <2>1
  <2> QED BY <1>1, <1>4, <1>6, <2>2 DEF Page11
<1> QED BY <1>5, <1>6

\* Outside the gaps, the same after a prefix.
LEMMA PageAgrees ==
  ASSUME m \in Machines, ~ Undecoded(m.pc), NEW op \in {\h10, \h11}, op = Read(m, m.pc),
         NEW sub, sub = Read(m, Plus(m.pc, 1))
  PROVE  disasm_one(m, m.pc) = PageBytes(m, op, sub)
<1>1. PICK f \in Machines : f = Fetched(m, 2) /\ Read(f, f.pc) = Read(m, Plus(m.pc, 2))
  BY FetchedReads
<1>2. PICK third : third = Read(m, Plus(m.pc, 2))
  OBVIOUS
<1>3. sub \in Octet
  BY ReadFits
<1>4. PICK page : page = IF op = \h10 THEN Page10 ELSE Page11
  OBVIOUS
<1>5. PICK ops : ops = IF op = \h10 THEN Wide10 ELSE Wide11
  OBVIOUS
<1>6. decode_indexed(third) = IndexBytes(third)
  <2>1. third = Postbyte(m.pc)
    BY <1>2 DEF Postbyte
  <2> QED BY <2>1, PostbyteAgrees
<1>7. op \notin Inherents \cup TwoBytes \cup ThreeBytes \cup IndexedOps
  <2>1. PICK j \in {0, 1} : op = 16 * 1 + j /\ j \in 0 .. 15
    OBVIOUS
  <2>2. 1 \in 0 .. 15
    OBVIOUS
  <2> QED BY <2>1, <2>2, DisasmClasses
<1>8. disasm_one(m, m.pc) = 2 + (CASE sub \in page.one     -> 1
                                   [] sub \in page.two     -> 2
                                   [] sub \in page.indexed -> decode_indexed(third)
                                   [] OTHER                -> 0)
  <2>1. disasm_one(m, m.pc) =
          CASE op \in Inherents  -> 1
            [] op \in TwoBytes   -> 2
            [] op \in ThreeBytes -> 3
            [] op \in IndexedOps -> 1 + decode_indexed(sub)
            [] op \in {\h10, \h11} ->
                 2 + (CASE sub \in page.one     -> 1
                        [] sub \in page.two     -> 2
                        [] sub \in page.indexed -> decode_indexed(third)
                        [] OTHER                -> 0)
            [] OTHER -> 1
    BY <1>2, <1>4, Zenon DEF disasm_one
  <2> QED BY <1>7, <2>1
<1>9. PageBytes(m, op, sub) = IF op = \h10 /\ sub \in \h21 .. \h2F THEN 4
                              ELSE IF IsWideOp(ops, sub) THEN 2 + OperandBytes(f, Mode(sub), 2)
                              ELSE 2
  BY <1>1, <1>5 DEF PageBytes
<1>10. /\ Mode(sub) \in {"imm", "dir", "idx", "ext"}
       /\ OperandBytes(f, Mode(sub), 2) = CASE Mode(sub) \in {"imm", "ext"} -> 2
                                            [] Mode(sub) = "dir" -> 1
                                            [] Mode(sub) = "idx" -> IndexBytes(third)
  <2>1. Mode(sub) \in {"imm", "dir", "idx", "ext"}
    BY <1>3, ModeFits DEF Modes
  <2> QED BY <1>1, <1>2, <2>1, BytesByMode
<1>11. CASE sub \in \h21 .. \h2F
  BY <1>3, <1>4, <1>5, <1>8, <1>9, <1>11, WidePages
<1>12. CASE sub \notin \h21 .. \h2F /\ IsWideOp(ops, sub)
  BY <1>3, <1>4, <1>5, <1>6, <1>8, <1>9, <1>10, <1>12, WidePages
<1>13. CASE sub \notin \h21 .. \h2F /\ ~ IsWideOp(ops, sub)
  BY <1>3, <1>4, <1>5, <1>8, <1>9, <1>13, WidePages
<1> QED BY <1>11, <1>12, <1>13

-----------------------------------------------------------------------------
(* Listing: the listing and the core agree.                                *)

\* An offset of two bytes, with or without its sign.
LEMMA SignedWraps ==
  ASSUME NEW i \in Int, NEW j \in Int, NEW w \in Int
  PROVE  Plus(i, j + w) = Plus(i, j + Signed(Half16, w))
<1>1. CASE w >= 32768
  <2>1. Signed(Half16, w) = w - 65536
    BY <1>1, Halves DEF Signed
  <2> QED BY <2>1 DEF Plus
<1>2. CASE w < 32768
  <2>1. Signed(Half16, w) = w
    BY <1>2, Halves DEF Signed
  <2> QED BY <2>1
<1> QED BY <1>1, <1>2

\* The offset of a branch, from where the branch lies.
LEMMA RelativeFrom ==
  ASSUME NEW p \in Machines, NEW k \in 1 .. 2, NEW f, f = Fetched(p, k)
  PROVE  /\ Relative(f, 1) = Plus(p.pc, k + 1 + Signed(Half8, Read(p, Plus(p.pc, k))))
         /\ Relative(f, 2) = Plus(p.pc, k + 2 + Signed(Half16, Word(p, Plus(p.pc, k))))
<1>1. f.pc = Plus(p.pc, k) /\ f \in Machines
  BY FetchedReads
<1>2. PICK b \in Octet : b = Read(p, Plus(p.pc, k)) /\ b = Read(f, f.pc)
  BY FetchedReads, ReadFits
<1>3. PICK w \in Address : w = Word(p, Plus(p.pc, k)) /\ w = Word(f, f.pc)
  BY <1>1, FetchedReads, WordFits
<1>4. p.pc \in Int /\ b \in Int /\ w \in Int
  BY InAddress, InOctet DEF Machines
<1>5. PICK d \in Int : d = Signed(Half8, b)
  BY <1>4, Halves DEF Signed
<1>6. PICK e \in Int : e = Signed(Half16, w)
  BY <1>4, Halves DEF Signed
<1>7. Relative(f, 1) = Plus(p.pc, k + 1 + d)
  <2>1. PICK i \in Int : i = 1 + d
    OBVIOUS
  <2>2. Relative(f, 1) = Plus(Plus(p.pc, k), i)
    BY <1>1, <1>2, <1>5, <2>1 DEF Relative
  <2>3. Relative(f, 1) = Plus(p.pc, k + i)
    BY <1>4, <2>2 DEF Plus
  <2>4. k + i = k + 1 + d
    BY <2>1
  <2> QED BY <2>3, <2>4
<1>8. Relative(f, 2) = Plus(p.pc, k + 2 + e)
  <2>1. PICK i \in Int, j \in Int : i = 2 + w /\ j = k + 2
    BY <1>4
  <2>2. Relative(f, 2) = Plus(Plus(p.pc, k), i)
    BY <1>1, <1>3, <2>1 DEF Relative
  <2>3. Relative(f, 2) = Plus(p.pc, k + i)
    BY <1>4, <2>2 DEF Plus
  <2>4. k + i = j + w
    BY <1>4, <2>1
  <2>5. Plus(p.pc, j + w) = Plus(p.pc, j + Signed(Half16, w))
    BY <1>4, SignedWraps
  <2> QED BY <1>6, <2>1, <2>3, <2>4, <2>5
<1> QED BY <1>2, <1>3, <1>5, <1>6, <1>7, <1>8

\* Where a branch or a jump goes, its text says; or it takes PC from memory.
LEMMA GoalNamed ==
  ASSUME m \in Machines, NEW op \in GoalOps, op = Read(m, m.pc)
  PROVE  Goal(Fetched(m, 1), op) \in Targets(m, m.pc) \/ IsComputed(m.pc)
<1>1. PICK f \in Machines : /\ f = Fetched(m, 1)
                            /\ Word(f, f.pc) = Word(m, Plus(m.pc, 1))
  BY FetchedReads
<1>2. /\ Relative(f, 1) = Plus(m.pc, 2 + Signed(Half8, Read(m, Plus(m.pc, 1))))
      /\ Relative(f, 2) = Plus(m.pc, 3 + Signed(Half16, Word(m, Plus(m.pc, 1))))
  BY <1>1, RelativeFrom
<1>3. CASE op \in \h20 .. \h2F
  <2>1. Goal(f, op) = Relative(f, 1)
    BY <1>3 DEF Goal, IsCall
  <2>2. op \in RelativeOps
    BY <1>3 DEF RelativeOps
  <2> QED BY <1>1, <1>2, <1>3, <2>1, <2>2 DEF Targets, LongOps
<1>4. CASE op = \h8D
  <2>1. Goal(f, op) = Relative(f, 1)
    BY <1>4 DEF Goal, IsCall, CallTarget
  <2> QED BY <1>1, <1>2, <1>4, <2>1 DEF Targets, LongOps, RelativeOps
<1>5. CASE op \in {\h16, \h17}
  <2>1. Goal(f, op) = Relative(f, 2)
    BY <1>5 DEF Goal, IsCall, CallTarget
  <2> QED BY <1>1, <1>2, <1>5, <2>1 DEF Targets, LongOps, RelativeOps
<1>6. CASE op \in {\h7E, \hBD}
  <2>1. Mode(\hBD) = "ext"
    BY DEF Mode
  <2>2. Goal(f, op) = Word(f, f.pc)
    BY <1>6, <2>1 DEF Goal, IsCall, CallTarget, Operand
  <2> QED BY <1>1, <1>6, <2>2 DEF Targets, LongOps, RelativeOps
<1>7. CASE op \in {\h9D, \hAD}
  BY <1>7 DEF IsComputed
<1> QED BY <1>3, <1>4, <1>5, <1>6, <1>7 DEF GoalOps

\* What the listing says of the instruction at PC.
LEMMA StepListed ==
  ASSUME m \in Machines, ~ Halts(m), ~ Undecoded(m.pc), NEW q, q = Step(m),
         NEW below, below = Plus(m.pc, disasm_one(m, m.pc))
  PROVE  /\ IsComputed(m.pc) \/ q.pc \in {below} \cup Targets(m, m.pc)
         /\ IsCall(Read(m, m.pc)) => Word(q, q.s) = below
<1>1. PICK op \in Octet : op = Read(m, m.pc)
  BY ReadFits
<1>2. m.pc \in Int
  BY InAddress DEF Machines
<1>3. CASE op \notin {\h10, \h11}
  <2>1. PICK f \in Machines : /\ f = Fetched(m, 1) /\ f.pc = Plus(m.pc, 1)
                              /\ Read(f, f.pc) = Read(m, Plus(m.pc, 1))
    BY FetchedReads
  <2>2. PICK k \in 0 .. 4 : k = FirstBytes(f, op) /\ disasm_one(m, m.pc) = 1 + k
    BY <1>1, <1>3, <2>1, FirstAgrees
  <2>3. below = Plus(f.pc, k)
    <3>1. Plus(Plus(m.pc, 1), k) = Plus(m.pc, 1 + k)
      BY <1>2 DEF Plus
    <3> QED BY <2>1, <2>2, <3>1
  <2>4. q = FirstPage(f, op)
    BY <1>1, <1>3, <2>1, Zenon DEF Step, Fetched
  <2>5. /\ \/ TakesPC(op, Read(f, f.pc))
           \/ op \in GoalOps /\ q.pc = Goal(f, op)
           \/ q.pc = below
        /\ IsCall(op) => Word(q, q.s) = below
    BY <2>2, <2>3, <2>4, FirstPageFits
  <2>6. CASE TakesPC(op, Read(f, f.pc))
    <3>1. IsComputed(m.pc)
      BY <1>1, <2>1, <2>6, Zenon DEF TakesPC, IsComputed
    <3> QED BY <1>1, <2>5, <3>1
  <2>7. CASE op \in GoalOps /\ q.pc = Goal(f, op)
    BY <1>1, <2>1, <2>5, <2>7, GoalNamed
  <2>8. CASE q.pc = below
    BY <1>1, <2>5, <2>8
  <2> QED BY <2>5, <2>6, <2>7, <2>8
<1>4. CASE op \in {\h10, \h11}
  <2>1. PICK sub : sub = Read(m, Plus(m.pc, 1))
    OBVIOUS
  <2>2. /\ below = Plus(m.pc, PageBytes(m, op, sub))
        /\ \/ q.pc = Plus(m.pc, PageBytes(m, op, sub))
           \/ /\ op = \h10 /\ sub \in \h21 .. \h2F
              /\ q.pc = Relative(Fetched(m, 2), 2)
    BY <1>1, <1>4, <2>1, PageAgrees, PageFits
  <2>3. CASE op = \h10 /\ sub \in \h21 .. \h2F /\ q.pc = Relative(Fetched(m, 2), 2)
    <3>1. q.pc = Plus(m.pc, 4 + Signed(Half16, Word(m, Plus(m.pc, 2))))
      BY <2>3, RelativeFrom
    <3> QED BY <1>1, <2>1, <2>3, <3>1 DEF Targets, LongOps, RelativeOps, IsCall
  <2> QED BY <1>1, <1>4, <2>2, <2>3 DEF IsCall
<1> QED BY <1>3, <1>4

\* Listing and core agree (src/src/disasm.rs: disasm_one; src/src/cpu.rs: step,
\* ea_indexed): outside the known gaps of the disassembler, the instruction that
\* follows is the one on the next line or the one its text names, whatever is in
\* memory and in the registers, and a call returns to the next line.
THEOREM ListingMatches == ListingSpec => ListedAsExecuted
<1>1. ListingType /\ [ListingNext]_listingVars =>
        [Run /\ ~ Undecoded(m.pc) =>
           LET below == Plus(m.pc, disasm_one(m, m.pc))
           IN  /\ IsComputed(m.pc) \/ m'.pc \in {below} \cup Targets(m, m.pc)
               /\ IsCall(Read(m, m.pc)) => Word(m', m'.s) = below]_listingVars
  <2> SUFFICES ASSUME ListingType, Run, ~ Undecoded(m.pc)
               PROVE  LET below == Plus(m.pc, disasm_one(m, m.pc))
                      IN  /\ IsComputed(m.pc) \/ m'.pc \in {below} \cup Targets(m, m.pc)
                          /\ IsCall(Read(m, m.pc)) => Word(m', m'.s) = below
    OBVIOUS
  <2>1. m \in Machines /\ ~ Halts(m) /\ m' = Step(m)
    BY DEF ListingType, Run
  <2> QED BY <2>1, StepListed
<1> QED BY <1>1, ListingInvariant, PTL DEF ListingSpec, ListedAsExecuted

-----------------------------------------------------------------------------
(* What a sweep finds.                                                     *)

\* Nothing goes up in memory for ever.
LEMMA Descent ==
  ASSUME NEW S, S \subseteq Nat, \A x \in S : x \in Address /\ \E k \in 1 .. 5 : x + k \in S
  PROVE  S = {}
<1> SUFFICES ASSUME S # {} PROVE FALSE
  OBVIOUS
<1> DEFINE T == {Room(x) : x \in S}
<1>0. \A x \in S : Room(x) \in Nat
  <2>1. \A x \in Nat : Room(x) \in Nat
    BY RoomFits
  <2> QED BY <2>1
<1>1. T \subseteq Nat /\ T # {}
  BY <1>0
<1> HIDE DEF T
<1>2. PICK j \in T : \A i \in T : j <= i
  BY <1>1, Least
<1>3. PICK x \in S : j = Room(x)
  BY <1>2 DEF T
<1>4. PICK k \in 1 .. 5 : x + k \in S
  OBVIOUS
<1>5. x \in Nat /\ x \in Address /\ k \in Nat \ {0} /\ x + k \in Nat
  BY <1>4
<1>6. Room(x + k) < Room(x)
  BY <1>5, RoomFits
<1>7. Room(x + k) \in T
  BY <1>4 DEF T
<1>8. Room(x) \in Nat /\ Room(x + k) \in Nat
  BY <1>5, RoomFits
<1> QED BY <1>2, <1>3, <1>6, <1>7, <1>8

\* One step of a sweep, of k bytes.
Opens(f, p, end, x, k) ==
  /\ k \in 1 .. 5 /\ x + k \in Nat
  /\ f[x] = IF x >= end \/ x \notin Address THEN {} ELSE {x} \cup f[x + k]

\* A sweep makes such a step at each address.
LEMMA SweepOpens ==
  ASSUME NEW p, NEW end, NEW f, Sweeps(f, p, end), NEW x \in Nat
  PROVE  \E k : Opens(f, p, end, x, k)
<1>1. \A i \in Nat : f[i] = IF i >= end \/ i \notin Address THEN {}
                            ELSE {i} \cup f[i + disasm_one(p, i)]
  BY Zenon DEF Sweeps
<1>2. PICK k \in 1 .. 5 : k = disasm_one(p, x)
  BY LengthFits
<1>3. x + k \in Nat
  OBVIOUS
<1>4. Opens(f, p, end, x, k)
  BY <1>1, <1>2, <1>3 DEF Opens
<1> QED BY <1>4

\* What a sweep finds lies between its first address and its end.
LEMMA SweepRange ==
  ASSUME NEW p, NEW end \in Int, NEW f, Sweeps(f, p, end), NEW x \in Nat, NEW q \in f[x]
  PROVE  q \in Nat /\ x <= q /\ q < end /\ q \in Address
<1> DEFINE S == {i \in Nat : \E r \in f[i] : ~ (r \in Nat /\ i <= r /\ r < end /\ r \in Address)}
<1>1. ASSUME NEW i \in S
      PROVE  i \in Address /\ \E k \in 1 .. 5 : i + k \in S
  <2>1. PICK r \in f[i] : ~ (r \in Nat /\ i <= r /\ r < end /\ r \in Address)
    OBVIOUS
  <2>2. PICK k : Opens(f, p, end, i, k)
    BY SweepOpens
  <2>3. /\ i \in Nat /\ i < end /\ i \in Address /\ f[i] = {i} \cup f[i + k]
        /\ k \in 1 .. 5 /\ i + k \in Nat
    BY <2>1, <2>2 DEF Opens
  <2>4. r # i
    BY <2>1, <2>3
  <2>5. r \in f[i + k]
    BY <2>3, <2>4
  <2>6. ~ (r \in Nat /\ i + k <= r /\ r < end /\ r \in Address)
    BY <2>1, <2>3
  <2> QED BY <2>2, <2>3, <2>5, <2>6
<1>2. S = {}
  <2>1. S \subseteq Nat
    OBVIOUS
  <2> HIDE DEF S
  <2> QED BY <1>1, <2>1, Descent
<1> QED BY <1>2

\* From one of the starts that a sweep finds, it finds those above.
LEMMA SweepSuffix ==
  ASSUME NEW p, NEW end \in Int, NEW f, Sweeps(f, p, end), NEW x \in Nat,
         NEW q \in f[x], NEW r \in f[x], q <= r
  PROVE  r \in f[q]
<1> DEFINE S == {i \in Nat : q \in f[i] /\ r \in f[i]}
<1>0. q \in Nat /\ r \in Nat
  BY SweepRange
<1> SUFFICES ASSUME r \notin f[q] PROVE FALSE
  OBVIOUS
<1>1. ASSUME NEW i \in S
      PROVE  i \in Address /\ \E k \in 1 .. 5 : i + k \in S
  <2>1. PICK k : Opens(f, p, end, i, k)
    BY SweepOpens
  <2>2. /\ i \in Nat /\ i \in Address /\ f[i] = {i} \cup f[i + k]
        /\ k \in 1 .. 5 /\ i + k \in Nat
    BY <2>1 DEF Opens
  <2>3. q # i
    OBVIOUS
  <2>4. q \in f[i + k]
    BY <2>2, <2>3
  <2>5. i + k <= q
    BY <2>2, <2>4, SweepRange
  <2>6. r # i
    BY <1>0, <2>2, <2>5
  <2>7. r \in f[i + k]
    BY <2>2, <2>6
  <2> QED BY <2>1, <2>2, <2>4, <2>7
<1>2. S = {}
  <2>1. S \subseteq Nat
    OBVIOUS
  <2> HIDE DEF S
  <2> QED BY <1>1, <2>1, Descent
<1> QED BY <1>2

\* No address up to the end is five or more above the start that precedes it.
LEMMA SweepCovers ==
  ASSUME NEW p, NEW end \in Int, \A i \in Nat : i < end => i \in Address,
         NEW f, Sweeps(f, p, end), NEW x \in Nat, NEW y \in Nat, x <= y, y < end
  PROVE  \E q \in f[x] : q <= y /\ y < q + 5
<1> DEFINE S == {i \in Nat : i <= y /\ \A q \in f[i] : ~ (q <= y /\ y < q + 5)}
<1>1. ASSUME NEW i \in S
      PROVE  i \in Address /\ \E k \in 1 .. 5 : i + k \in S
  <2>1. PICK k : Opens(f, p, end, i, k)
    BY SweepOpens
  <2>2. /\ i \in Nat /\ i <= y /\ i \in Address /\ f[i] = {i} \cup f[i + k]
        /\ k \in 1 .. 5 /\ i + k \in Nat
    BY <2>1 DEF Opens
  <2>3. ~ y < i + 5
    BY <2>2 DEF Opens
  <2>4. i + k <= y
    BY <2>2, <2>3
  <2> QED BY <2>1, <2>2, <2>4
<1>2. S = {}
  <2>1. S \subseteq Nat
    OBVIOUS
  <2> HIDE DEF S
  <2> QED BY <1>1, <2>1, Descent
<1> QED BY <1>2

-----------------------------------------------------------------------------
(* What a walk finds.                                                      *)

\* The line below lines, and when a walk ends.
NextLine(p, lines) == Last(lines) + disasm_one(p, Last(lines))

Ended(p, lines, pc, after, limit) ==
  \/ NextLine(p, lines) \notin Address
  \/ \E k \in DOMAIN lines : lines[k] = pc /\ Len(lines) >= k + after
  \/ Len(lines) >= limit

\* f is the walk of disasm_window.
Walks(f, p, pc, after, limit) ==
  f = [lines \in Seq(Nat) |->
         IF Ended(p, lines, pc, after, limit) THEN lines
         ELSE f[Append(lines, NextLine(p, lines))]]

\* There is a walk, so that Walk returns what its recursion says.
LEMMA WalkExists ==
  ASSUME NEW p, NEW pc, NEW after, NEW limit \in Nat
  PROVE  \E f : Walks(f, p, pc, after, limit)
<1> DEFINE D == Seq(Nat)
           rank == [l \in D |-> IF Len(l) < limit THEN limit - Len(l) ELSE 0]
           next == [l \in D |-> IF NextLine(p, l) \in Address THEN Append(l, NextLine(p, l)) ELSE l]
           stop == {l \in D : Ended(p, l, pc, after, limit)}
           base == [l \in D |-> l]
           comb == [e \in D \X D |-> e[2]]
<1>1. rank \in [D -> 0 .. limit]
  <2>1. \A l \in D : Len(l) \in Nat
    OBVIOUS
  <2> QED BY <2>1
<1>2. next \in [D -> D]
  <2> SUFFICES ASSUME NEW l \in D, NextLine(p, l) \in Address PROVE Append(l, NextLine(p, l)) \in D
    OBVIOUS
  <2>1. NextLine(p, l) \in Nat
    BY InAddress
  <2> QED BY <2>1
<1>3. base \in [D -> D] /\ comb \in [D \X D -> D]
  OBVIOUS
<1>4. \A l \in D \ stop : rank[next[l]] < rank[l]
  <2> SUFFICES ASSUME NEW l \in D, ~ Ended(p, l, pc, after, limit) PROVE rank[next[l]] < rank[l]
    OBVIOUS
  <2>1. NextLine(p, l) \in Address /\ ~ Len(l) >= limit
    BY DEF Ended
  <2>2. PICK i \in Nat : i = NextLine(p, l)
    BY <2>1, InAddress
  <2>3. next[l] = Append(l, i) /\ Append(l, i) \in D
    BY <2>1, <2>2
  <2>4. Len(Append(l, i)) = Len(l) + 1 /\ Len(l) \in Nat
    OBVIOUS
  <2>5. rank[Append(l, i)] < rank[l]
    BY <2>1, <2>3, <2>4
  <2> QED BY <2>3, <2>5
<1> HIDE DEF rank, next, stop, base, comb
<1>5. PICK f \in [D -> D] : Solves(f, D, next, stop, base, comb)
  BY <1>1, <1>2, <1>3, <1>4, Recursion
<1>6. ASSUME NEW l \in D
      PROVE  f[l] = IF Ended(p, l, pc, after, limit) THEN l ELSE f[Append(l, NextLine(p, l))]
  <2>1. f[l] = IF l \in stop THEN base[l] ELSE comb[<<l, f[next[l]]>>]
    BY <1>5 DEF Solves
  <2>2. l \in stop <=> Ended(p, l, pc, after, limit)
    BY DEF stop
  <2>3. base[l] = l
    BY DEF base
  <2>4. next[l] \in D /\ f[next[l]] \in D
    BY <1>2, <1>5
  <2>5. comb[<<l, f[next[l]]>>] = f[next[l]]
    BY <2>4 DEF comb
  <2>6. ~ Ended(p, l, pc, after, limit) => next[l] = Append(l, NextLine(p, l))
    BY DEF next, Ended
  <2> QED BY <2>1, <2>2, <2>3, <2>5, <2>6
<1>7. f = [l \in D |-> IF Ended(p, l, pc, after, limit) THEN l ELSE f[Append(l, NextLine(p, l))]]
  BY <1>5, <1>6
<1> QED BY <1>7 DEF Walks

\* Lines one below the other, from start.
LinesFrom(p, start, lines) ==
  /\ lines \in Seq(Nat) /\ Len(lines) >= 1
  /\ lines[1] = start
  /\ \A k \in 1 .. Len(lines) : lines[k] \in Address
  /\ \A k \in 1 .. Len(lines) - 1 : lines[k + 1] = lines[k] + disasm_one(p, lines[k])

\* A chain with the line below it is a chain.
LEMMA ChainGrows ==
  ASSUME NEW p, NEW start, NEW l, LinesFrom(p, start, l), NEW i \in Address, i = NextLine(p, l)
  PROVE  LinesFrom(p, start, Append(l, i)) /\ Len(Append(l, i)) = Len(l) + 1
<1>1. /\ l \in Seq(Nat) /\ Len(l) >= 1 /\ l[1] = start
      /\ \A k \in 1 .. Len(l) : l[k] \in Address
      /\ \A k \in 1 .. Len(l) - 1 : l[k + 1] = l[k] + disasm_one(p, l[k])
  BY DEF LinesFrom
<1>2. i \in Nat
  BY InAddress
<1>3. PICK top \in Nat \ {0} : top = Len(l)
  BY <1>1
<1>4. PICK g : g = Append(l, i)
  OBVIOUS
<1>5. /\ g \in Seq(Nat) /\ Len(g) = top + 1 /\ g[top + 1] = i
      /\ \A k \in 1 .. top : g[k] = l[k]
  BY <1>1, <1>2, <1>3, <1>4
<1>6. \A k \in 1 .. top + 1 : g[k] \in Address
  BY <1>1, <1>3, <1>5
<1>7. l[top] + disasm_one(p, l[top]) = i
  BY <1>3 DEF NextLine, Last
<1>8. ASSUME NEW k \in 1 .. top
      PROVE  g[k + 1] = g[k] + disasm_one(p, g[k])
  <2>1. CASE k = top
    BY <1>5, <1>7, <2>1
  <2>2. CASE k # top
    <3>1. k + 1 \in 1 .. top /\ k \in 1 .. top - 1
      BY <2>2
    <3> QED BY <1>1, <1>3, <1>5, <3>1
  <2> QED BY <2>1, <2>2
<1> QED BY <1>1, <1>3, <1>4, <1>5, <1>6, <1>8 DEF LinesFrom

\* A walk returns a chain that has come to an end.
LEMMA WalkFits ==
  ASSUME NEW p, NEW start \in Address, NEW pc, NEW after, NEW limit \in Nat,
         NEW l, l = Walk(p, start, pc, after, limit)
  PROVE  LinesFrom(p, start, l) /\ Ended(p, l, pc, after, limit)
<1> DEFINE f == CHOOSE g : Walks(g, p, pc, after, limit)
           Good(g) == LinesFrom(p, start, g) /\ Ended(p, g, pc, after, limit)
           T == {j \in Nat : \E g : /\ LinesFrom(p, start, g) /\ ~ Good(f[g])
                                    /\ j = IF Len(g) < limit THEN limit - Len(g) ELSE 0}
<1>1. Walks(f, p, pc, after, limit)
  BY WalkExists
<1>2. l = f[<<start>>]
  BY DEF Walk, Walks, Ended, NextLine
<1> HIDE DEF f
<1>3. \A g \in Seq(Nat) : f[g] = IF Ended(p, g, pc, after, limit) THEN g
                                 ELSE f[Append(g, NextLine(p, g))]
  BY <1>1, Zenon DEF Walks
<1>4. T = {}
  <2> SUFFICES ASSUME T # {} PROVE FALSE
    OBVIOUS
  <2>1. PICK j \in T : \A i \in T : j <= i
    <3> HIDE DEF T
    <3>1. T \subseteq Nat
      BY DEF T
    <3> QED BY <3>1, Least
  <2>2. PICK g : /\ LinesFrom(p, start, g) /\ ~ Good(f[g])
                 /\ j = IF Len(g) < limit THEN limit - Len(g) ELSE 0
    OBVIOUS
  <2>3. g \in Seq(Nat) /\ Len(g) \in Nat
    BY <2>2 DEF LinesFrom
  <2>4. ~ Ended(p, g, pc, after, limit)
    BY <1>3, <2>2, <2>3
  <2>5. f[g] = f[Append(g, NextLine(p, g))]
    BY <1>3, <2>3, <2>4
  <2>6. NextLine(p, g) \in Address /\ ~ Len(g) >= limit
    BY <2>4 DEF Ended
  <2>7. PICK h : h = Append(g, NextLine(p, g))
    OBVIOUS
  <2>8. LinesFrom(p, start, h) /\ Len(h) = Len(g) + 1
    BY <2>2, <2>6, <2>7, ChainGrows
  <2>9. ~ Good(f[h])
    BY <2>2, <2>5, <2>7
  <2>10. PICK i \in Nat : i = limit - Len(h)
    <3>1. PICK j0 \in Nat : j0 = Len(g)
      BY <2>3
    <3>2. limit - (j0 + 1) \in Nat
      BY <2>6, <3>1
    <3> QED BY <2>8, <3>1, <3>2
  <2>11. i = IF Len(h) < limit THEN limit - Len(h) ELSE 0
    BY <2>3, <2>6, <2>8, <2>10
  <2>12. i \in T
    BY <2>8, <2>9, <2>11
  <2>13. i < j
    BY <2>2, <2>3, <2>6, <2>8, <2>10
  <2>14. j <= i
    BY <2>1, <2>12
  <2>15. j \in Nat
    OBVIOUS
  <2> HIDE DEF T
  <2> QED BY <2>13, <2>14, <2>15
<1>5. LinesFrom(p, start, <<start>>)
  <2>1. start \in Nat
    BY InAddress
  <2> QED BY <2>1 DEF LinesFrom
<1>6. Good(f[<<start>>])
  <2>1. PICK j \in Nat : j = IF Len(<<start>>) < limit THEN limit - Len(<<start>>) ELSE 0
    OBVIOUS
  <2>2. j \notin T
    BY <1>4
  <2> QED BY <1>5, <2>1, <2>2
<1> QED BY <1>2, <1>6

-----------------------------------------------------------------------------
(* Sweeps and walks together; first and last of a set of addresses.        *)

\* The lines of a chain rise.
LEMMA ChainRises ==
  ASSUME NEW p, NEW start, NEW l, LinesFrom(p, start, l),
         NEW i \in 1 .. Len(l), NEW j \in 1 .. Len(l), i <= j
  PROVE  l[i] \in Nat /\ l[j] \in Nat /\ l[i] + (j - i) <= l[j]
<1> DEFINE T == {k \in Nat : k \in i .. Len(l) /\ ~ l[i] + (k - i) <= l[k]}
<1>1. PICK top \in Nat : top = Len(l)
  BY DEF LinesFrom
<1>2. \A k \in 1 .. top : l[k] \in Nat
  BY <1>1, InAddress DEF LinesFrom
<1>3. T = {}
  <2> SUFFICES ASSUME T # {} PROVE FALSE
    OBVIOUS
  <2>1. PICK k \in T : \A h \in T : k <= h
    <3> HIDE DEF T
    <3>1. T \subseteq Nat
      BY DEF T
    <3> QED BY <3>1, Least
  <2>2. k \in i .. top /\ ~ l[i] + (k - i) <= l[k] /\ k \in 1 .. top
    BY <1>1, <2>1
  <2>3. k # i
    BY <1>1, <1>2, <2>2
  <2>4. PICK h \in i .. top : k = h + 1 /\ h \in 1 .. top - 1
    BY <1>1, <2>2, <2>3
  <2>5. l[i] + (h - i) <= l[h]
    <3>1. h \in Nat /\ ~ k <= h
      BY <2>4
    <3>2. h \notin T
      <4> HIDE DEF T
      <4> QED BY <2>1, <3>1
    <3> QED BY <1>1, <2>4, <3>1, <3>2
  <2>6. PICK d \in 1 .. 5 : l[k] = l[h] + d
    <3>1. l[h + 1] = l[h] + disasm_one(p, l[h])
      BY <1>1, <2>4 DEF LinesFrom
    <3> QED BY <2>4, <3>1, LengthFits
  <2>7. l[i] \in Nat /\ l[h] \in Nat /\ i \in Nat /\ h \in Nat
    BY <1>1, <1>2, <2>4
  <2>8. PICK from \in Nat, here \in Nat : from = l[i] /\ here = l[h]
    BY <2>7
  <2>9. from + ((h + 1) - i) <= here + d
    <3>1. from + (h - i) <= here
      BY <2>5, <2>8
    <3>2. h \in Nat /\ i \in Nat
      BY <2>7
    <3> QED BY <3>1, <3>2
  <2> QED BY <2>2, <2>4, <2>6, <2>8, <2>9
<1>4. j \in Nat /\ j \in i .. Len(l) /\ j \notin T
  BY <1>1, <1>3
<1> QED BY <1>1, <1>2, <1>4

\* What a sweep from the first line finds is on the chain or below it.
LEMMA ChainSweeps ==
  ASSUME NEW p, NEW end \in Int, NEW f, Sweeps(f, p, end), NEW start \in Address,
         NEW l, LinesFrom(p, start, l), NEW r \in f[start]
  PROVE  (\E i \in 1 .. Len(l) : l[i] = r) \/ r \in f[NextLine(p, l)]
<1> SUFFICES ASSUME \A i \in 1 .. Len(l) : l[i] # r
             PROVE  r \in f[NextLine(p, l)]
  OBVIOUS
<1> DEFINE T == {k \in Nat : k \in 1 .. Len(l) /\ r \notin f[l[k]]}
<1>1. PICK top \in Nat \ {0} : top = Len(l)
  BY DEF LinesFrom
<1>2. \A k \in 1 .. top : l[k] \in Nat /\ l[k] \in Address
  BY <1>1, InAddress DEF LinesFrom
<1>3. ASSUME NEW k \in 1 .. top, r \in f[l[k]]
      PROVE  r \in f[l[k] + disasm_one(p, l[k])]
  <2>1. \A x \in Nat : f[x] = IF x >= end \/ x \notin Address THEN {}
                              ELSE {x} \cup f[x + disasm_one(p, x)]
    BY Zenon DEF Sweeps
  <2>2. r # l[k]
    BY <1>1
  <2> QED BY <1>2, <1>3, <2>1, <2>2
<1>4. T = {}
  <2> SUFFICES ASSUME T # {} PROVE FALSE
    OBVIOUS
  <2>1. PICK k \in T : \A h \in T : k <= h
    <3> HIDE DEF T
    <3>1. T \subseteq Nat
      BY DEF T
    <3> QED BY <3>1, Least
  <2>2. k \in 1 .. top /\ r \notin f[l[k]]
    BY <1>1, <2>1
  <2>3. k # 1
    BY <2>2 DEF LinesFrom
  <2>4. PICK h \in 1 .. top - 1 : k = h + 1
    BY <1>1, <2>2, <2>3
  <2>5. r \in f[l[h]]
    <3>1. h \in Nat /\ ~ k <= h
      BY <2>4
    <3>2. h \notin T
      <4> HIDE DEF T
      <4> QED BY <2>1, <3>1
    <3> QED BY <1>1, <2>4, <3>1, <3>2
  <2>6. l[h + 1] = l[h] + disasm_one(p, l[h])
    BY <1>1, <2>4 DEF LinesFrom
  <2>7. h \in 1 .. top
    BY <1>1, <2>4
  <2>8. r \in f[l[h] + disasm_one(p, l[h])]
    BY <1>3, <2>5, <2>7
  <2> QED BY <2>2, <2>4, <2>6, <2>8
<1>5. top \in Nat /\ top \in 1 .. Len(l) /\ top \notin T
  BY <1>1, <1>4
<1>6. r \in f[l[top]]
  BY <1>5
<1>7. NextLine(p, l) = l[top] + disasm_one(p, l[top])
  BY <1>1 DEF NextLine, Last
<1> QED BY <1>3, <1>5, <1>1, <1>6, <1>7

\* A set of addresses is finite, and has a first and a last.
LEMMA AddressesFinite ==
  ASSUME NEW S \in SUBSET Address
  PROVE  IsFiniteSet(S) /\ Cardinality(S) \in Nat
<1>1. PICK end \in Int : end = LastAddress
  BY Halves DEF LastAddress
<1>2. IsFiniteSet(0 .. end)
  BY FS_Interval
<1>3. S \in SUBSET (0 .. end)
  BY <1>1 DEF Address
<1> QED BY <1>2, <1>3, FS_Subset, FS_CardinalityType

\* Max and Min of addresses.
LEMMA LastOf ==
  ASSUME NEW S \in SUBSET Address, S # {}
  PROVE  Max(S) \in S /\ \A x \in S : x <= Max(S)
<1> DEFINE T == {65535 - x : x \in S}
<1>1. \A x \in S : x \in Nat /\ x <= 65535
  BY InAddress
<1>2. T \subseteq Nat /\ T # {}
  BY <1>1
<1> HIDE DEF T
<1>3. PICK k \in T : \A j \in T : k <= j
  BY <1>2, Least
<1>4. PICK x \in S : k = 65535 - x
  BY <1>3 DEF T
<1>5. ASSUME NEW y \in S PROVE x >= y
  <2>1. 65535 - y \in T
    BY DEF T
  <2>2. PICK i \in T : i = 65535 - y
    BY <2>1
  <2>3. 65535 - x <= 65535 - y
    BY <1>3, <1>4, <2>2
  <2> QED BY <1>1, <2>3
<1>6. \E z \in S : \A y \in S : z >= y
  BY <1>5
<1>7. Max(S) \in S /\ \A y \in S : Max(S) >= y
  BY <1>6, Zenon DEF Max
<1> QED BY <1>1, <1>7

LEMMA FirstOf ==
  ASSUME NEW S \in SUBSET Address, S # {}
  PROVE  Min(S) \in S /\ \A x \in S : Min(S) <= x
<1>1. S \in SUBSET Nat
  BY InAddress
<1>2. \E z \in S : \A y \in S : z <= y
  BY <1>1, Least
<1> QED BY <1>2, Zenon DEF Min

-----------------------------------------------------------------------------
(* Where the walk of a window starts.                                      *)

\* The anchor: the last known start up to PC.
LEMMA AnchorFits ==
  ASSUME NEW K \in SUBSET Address, NEW pc \in Address, NEW anchor, anchor = Anchor(K, pc)
  PROVE  /\ anchor \in Address /\ anchor <= pc
         /\ \A b \in K : b <= pc => anchor \in K /\ b <= anchor
         /\ anchor \in K \/ anchor = pc
<1> DEFINE S == {b \in K : b <= pc}
<1>1. CASE S = {}
  <2>1. anchor = pc
    BY <1>1 DEF Anchor
  <2> QED BY <1>1, <2>1, InAddress
<1>2. CASE S # {}
  <2>1. anchor = Max(S)
    BY <1>2 DEF Anchor, floor
  <2>2. S \in SUBSET Address
    OBVIOUS
  <2> HIDE DEF S
  <2>3. anchor \in S /\ \A x \in S : x <= anchor
    BY <1>2, <2>1, <2>2, LastOf
  <2> QED BY <2>3 DEF S
<1> QED BY <1>1, <1>2

\* The known starts before the anchor, from a given one on.
From(K, anchor, first) == {b \in K : first <= b /\ b < anchor}

\* The walk starts at the n_before'th start before the anchor, or at the first.
LEMMA StartFits ==
  ASSUME NEW K \in SUBSET Address, NEW pc \in Address, NEW before \in Nat,
         NEW anchor, anchor = Anchor(K, pc), NEW start, start = WalkStart(K, pc, before)
  PROVE  /\ start \in Address /\ start <= anchor /\ start \in K \cup {anchor}
         /\ Cardinality(From(K, anchor, start)) <= before
         /\ \/ \A b \in K : b < anchor => start <= b
            \/ Cardinality(From(K, anchor, start)) >= before
<1> DEFINE earlier == {b \in K : b < anchor}
           above(b) == {c \in earlier : c > b}
           near == {b \in earlier : Cardinality(above(b)) < before}
<1>0. anchor \in Address
  BY AnchorFits
<1>1. start = Min(near \cup {anchor})
  BY DEF WalkStart
<1>2. near \cup {anchor} \in SUBSET Address
  BY <1>0
<1>3. start \in near \cup {anchor} /\ \A b \in near : start <= b
  <2> HIDE DEF near
  <2> QED BY <1>1, <1>2, FirstOf
<1>4. start <= anchor
  BY <1>0, <1>3, InAddress
<1>5. \A b \in Address : b \in Nat
  BY InAddress
<1>6. \A b \in K : above(b) \in SUBSET Address /\ From(K, anchor, b) \in SUBSET Address
  BY DEF From
<1>7. Cardinality(From(K, anchor, start)) <= before
  <2>1. CASE start = anchor
    <3>1. From(K, anchor, start) = {}
      BY <1>0, <1>5, <2>1 DEF From
    <3> QED BY <3>1, FS_EmptySet
  <2>2. CASE start \in near
    <3>1. start \in K /\ Cardinality(above(start)) < before
      BY <2>2
    <3>2. From(K, anchor, start) = above(start) \cup {start}
      BY <1>5, <2>2 DEF From
    <3> HIDE DEF above
    <3>3. IsFiniteSet(above(start)) /\ Cardinality(above(start)) \in Nat
      BY <1>6, <3>1, AddressesFinite
    <3>4. Cardinality(From(K, anchor, start)) <= Cardinality(above(start)) + 1
      BY <3>2, <3>3, FS_AddElement
    <3>5. Cardinality(From(K, anchor, start)) \in Nat
      BY <1>6, <3>1, AddressesFinite
    <3> QED BY <3>1, <3>3, <3>4, <3>5
  <2> QED BY <1>3, <2>1, <2>2
<1>8. ASSUME NEW c \in K, c < anchor, ~ start <= c,
             ~ Cardinality(From(K, anchor, start)) >= before
      PROVE  FALSE
  <2> DEFINE under == {b \in earlier : b < start}
  <2>1. c \in under /\ under \in SUBSET Address
    BY <1>2, <1>3, <1>5, <1>8
  <2>2. PICK b \in under : \A x \in under : x <= b
    <3> HIDE DEF under
    <3>1. under # {}
      BY <2>1
    <3> QED BY <2>1, <3>1, LastOf
  <2>3. above(b) = From(K, anchor, start)
    <3>1. \A x \in earlier : x > b <=> start <= x
      BY <1>2, <1>3, <1>5, <2>2
    <3> QED BY <3>1 DEF From
  <2>4. From(K, anchor, start) \in SUBSET Address
    BY DEF From
  <2>5. Cardinality(above(b)) < before
    <3>1. Cardinality(From(K, anchor, start)) \in Nat
      BY <2>4, AddressesFinite
    <3> HIDE DEF above
    <3> QED BY <1>8, <2>3, <3>1
  <2>6. b \in near
    BY <2>2, <2>5
  <2>7. start <= b /\ b < start
    <3> HIDE DEF near
    <3> QED BY <1>3, <2>2, <2>6
  <2> QED BY <1>2, <1>3, <1>5, <2>2, <2>7
<1> QED BY <1>2, <1>3, <1>4, <1>7, <1>8

\* Where known starts are at most five apart, few of them lie close together.
LEMMA GapsCount ==
  ASSUME NEW K \in SUBSET Address, NEW anchor \in Address,
         \A b \in K : b < anchor => \E c \in K \cup {anchor} : b < c /\ c <= b + 5 /\ c <= anchor,
         NEW first \in K, first < anchor
  PROVE  anchor - first <= 5 * Cardinality(From(K, anchor, first))
<1> DEFINE T == {j \in Nat : \E b \in K : /\ b < anchor /\ j = anchor - b
                                          /\ ~ j <= 5 * Cardinality(From(K, anchor, b))}
<1>0. \A b \in K : /\ b \in Nat /\ From(K, anchor, b) \in SUBSET Address
  BY InAddress DEF From
<1>1. \A b \in K : /\ IsFiniteSet(From(K, anchor, b)) /\ Cardinality(From(K, anchor, b)) \in Nat
  BY <1>0, AddressesFinite
<1>2. anchor \in Nat
  BY InAddress
<1>3. T = {}
  <2> SUFFICES ASSUME T # {} PROVE FALSE
    OBVIOUS
  <2>1. PICK j \in T : \A i \in T : j <= i
    <3> HIDE DEF T
    <3>1. T \subseteq Nat
      BY DEF T
    <3> QED BY <3>1, Least
  <2>2. PICK b \in K : /\ b < anchor /\ j = anchor - b
                       /\ ~ j <= 5 * Cardinality(From(K, anchor, b))
    BY <2>1
  <2>3. PICK c \in K \cup {anchor} : b < c /\ c <= b + 5 /\ c <= anchor
    BY <2>2
  <2>4. PICK k \in Nat : k = Cardinality(From(K, anchor, b))
    BY <1>1
  <2>5. b \in From(K, anchor, b)
    BY <1>0, <2>2 DEF From
  <2>6. k # 0
    BY <1>1, <2>4, <2>5, FS_EmptySet
  <2>7. c # anchor
    BY <1>0, <1>2, <2>2, <2>3, <2>4, <2>6
  <2>8. c \in K /\ c < anchor /\ c \in Nat
    BY <1>0, <1>2, <2>3, <2>7
  <2>9. PICK i \in Nat : i = Cardinality(From(K, anchor, c))
    BY <1>1, <2>8
  <2>10. i + 1 <= k
    <3>1. b \notin From(K, anchor, c) /\ From(K, anchor, c) \cup {b} \in SUBSET From(K, anchor, b)
      <4>1. ASSUME NEW x \in From(K, anchor, c)
            PROVE  x \in From(K, anchor, b) /\ x # b
        <5>1. x \in K /\ c <= x /\ x < anchor
          BY <4>1 DEF From
        <5>2. b <= x /\ x # b
          BY <1>0, <2>3, <2>8, <5>1
        <5> QED BY <5>1, <5>2 DEF From
      <4> QED BY <2>5, <4>1
    <3>2. Cardinality(From(K, anchor, c) \cup {b}) = i + 1
      BY <1>1, <2>8, <2>9, <3>1, FS_AddElement
    <3>3. Cardinality(From(K, anchor, c) \cup {b}) <= Cardinality(From(K, anchor, b))
      BY <1>1, <3>1, FS_Subset
    <3> QED BY <2>4, <3>2, <3>3
  <2>11. PICK h \in Nat : h = anchor - c
    BY <1>2, <2>8
  <2>12. h < j
    BY <1>0, <1>2, <2>2, <2>3, <2>8, <2>11
  <2>13. h \notin T
    <3>1. j \in Nat
      BY <2>1
    <3> HIDE DEF T
    <3> QED BY <2>1, <2>12, <3>1
  <2>14. h <= 5 * i
    BY <2>8, <2>9, <2>11, <2>13
  <2>15. j <= h + 5
    BY <1>0, <1>2, <2>2, <2>3, <2>8, <2>11
  <2>16. j \in Nat
    BY <2>1
  <2> HIDE DEF T
  <2> QED BY <2>2, <2>4, <2>10, <2>14, <2>15, <2>16
<1>4. anchor - first \in Nat
  BY <1>0, <1>2
<1>5. anchor - first \notin T
  BY <1>3
<1> QED BY <1>4, <1>5

-----------------------------------------------------------------------------
(* What is cut from a walk.                                                *)

\* PC is on line i of lines, and on no other.
OnLine(p, pc, before, after, lines, i) ==
  /\ lines \in Seq(Nat) /\ i \in 1 .. Len(lines)
  /\ lines[i] = pc /\ \A j \in 1 .. Len(lines) : lines[j] = pc => j = i
  /\ \A k \in 1 .. Len(lines) - 1 : lines[k + 1] = lines[k] + disasm_one(p, lines[k])
  /\ i - 1 <= before /\ Len(lines) - i <= after

\* A chain is on every line once.
LEMMA ChainOnce ==
  ASSUME NEW p, NEW start, NEW l, LinesFrom(p, start, l),
         NEW i \in 1 .. Len(l), NEW j \in 1 .. Len(l), l[i] = l[j]
  PROVE  i = j
<1>1. PICK top \in Nat : top = Len(l)
  BY DEF LinesFrom
<1>2. i \in 1 .. top /\ j \in 1 .. top
  BY <1>1
<1>3. PICK x \in Nat : x = l[i] /\ x = l[j]
  <2>1. l[i] \in Nat
    BY <1>1, InAddress DEF LinesFrom
  <2> QED BY <2>1
<1>4. i <= j => x + (j - i) <= x
  BY <1>3, ChainRises
<1>5. j <= i => x + (i - j) <= x
  BY <1>3, ChainRises
<1> QED BY <1>2, <1>4, <1>5

\* lines are lines lo to hi of l, and its line k is their line i.
Excerpt(l, lo, k, hi, before, after, lines, i) ==
  /\ Len(l) \in Nat /\ lo \in 1 .. Len(l) /\ k \in lo .. Len(l) /\ hi \in k .. Len(l)
  /\ before \in Nat /\ after \in Nat /\ k - lo <= before /\ hi - k <= after
  /\ lines = SubSeq(l, lo, hi) /\ i \in Nat /\ i = (k - lo) + 1

\* PC is where an excerpt has it.
LEMMA ExcerptOnLine ==
  ASSUME NEW p, NEW start, NEW l, LinesFrom(p, start, l), NEW lo, NEW k, NEW hi,
         NEW before, NEW after, NEW lines, NEW i, Excerpt(l, lo, k, hi, before, after, lines, i)
  PROVE  /\ OnLine(p, l[k], before, after, lines, i)
         /\ Len(lines) - i = hi - k
         /\ hi = Len(l) => Last(lines) = Last(l)
<1> PICK top \in Nat : top = Len(l)
  BY DEF Excerpt
<1> lo \in 1 .. top /\ k \in lo .. top /\ hi \in k .. top /\ before \in Nat /\ after \in Nat
  BY DEF Excerpt
<1> k - lo <= before /\ hi - k <= after /\ lines = SubSeq(l, lo, hi) /\ i \in Nat /\ i = (k - lo) + 1
  BY DEF Excerpt
<1>1. PICK size \in Nat : size = (hi - lo) + 1
  OBVIOUS
<1>2. l \in Seq(Nat)
  BY DEF LinesFrom
<1>3. /\ lines \in Seq(Nat) /\ Len(lines) = size
      /\ \A j \in 1 .. size : lines[j] = l[(lo + j) - 1]
  <2>1. lo \in 1 .. Len(l) + 1 /\ hi \in lo - 1 .. Len(l)
    OBVIOUS
  <2>2. /\ lines \in Seq(Nat) /\ Len(lines) = (hi - lo) + 1
        /\ \A j \in 1 .. (hi - lo) + 1 : lines[j] = l[(lo + j) - 1]
    BY <1>2, <2>1, SubSeqProperties
  <2> QED BY <1>1, <2>2
<1>4. i \in 1 .. size /\ lines[i] = l[k]
  <2>1. i \in 1 .. size /\ (lo + i) - 1 = k
    BY <1>1
  <2> QED BY <1>3, <2>1
<1>5. ASSUME NEW j \in 1 .. size, lines[j] = l[k]
      PROVE  j = i
  <2>1. PICK x \in 1 .. top : x = (lo + j) - 1
    BY <1>1
  <2>2. l[x] = l[k]
    BY <1>3, <1>5, <2>1
  <2>3. k \in 1 .. top
    OBVIOUS
  <2>4. x = k
    BY <2>2, <2>3, ChainOnce
  <2> QED BY <2>1, <2>4
<1>6. ASSUME NEW j \in 1 .. size - 1
      PROVE  lines[j + 1] = lines[j] + disasm_one(p, lines[j])
  <2>1. PICK x \in 1 .. top - 1 : x = (lo + j) - 1
    BY <1>1
  <2>2. l[x + 1] = l[x] + disasm_one(p, l[x])
    BY DEF LinesFrom
  <2>3. j \in 1 .. size /\ j + 1 \in 1 .. size /\ (lo + (j + 1)) - 1 = x + 1
    BY <1>1, <2>1
  <2>4. lines[j] = l[x]
    BY <1>3, <2>1, <2>3
  <2>5. lines[j + 1] = l[x + 1]
    BY <1>3, <2>3
  <2> QED BY <2>2, <2>4, <2>5
<1>7. hi = top => Last(lines) = Last(l)
  <2> SUFFICES ASSUME hi = top PROVE lines[size] = l[top]
    BY <1>3 DEF Last
  <2>1. size \in 1 .. size /\ (lo + size) - 1 = top
    BY <1>1
  <2> QED BY <1>3, <2>1
<1>8. i - 1 <= before /\ size - i = hi - k
  BY <1>1
<1> QED BY <1>3, <1>4, <1>5, <1>6, <1>7, <1>8 DEF OnLine

\* The walk that the window is cut from.
WindowWalk(p, K, pc, before, after, start, l) ==
  /\ start = WalkStart(K, pc, before)
  /\ l = Walk(p, start, pc, after, before + after + 1 + 256)

\* Line k of the walk l is line i of lines, with all the lines there are.
Placed(p, pc, before, after, lines, l, k, i) ==
  /\ OnLine(p, pc, before, after, lines, i)
  /\ i - 1 = Smaller(before, k - 1)
  /\ \/ Len(lines) - i = after
     \/ Last(lines) = Last(l) /\ Len(l) < k + after

\* Where the line at pc is, if the walk comes to it.
LEMMA WindowFits ==
  ASSUME NEW p, NEW K \in SUBSET Address, NEW pc \in Address,
         NEW before \in Nat, NEW after \in Nat,
         NEW start, NEW l, WindowWalk(p, K, pc, before, after, start, l),
         NEW lines, lines = disasm_window(p, pc, K, before, after)
  PROVE  /\ \E i : OnLine(p, pc, before, after, lines, i)
         /\ \A k \in 1 .. Len(l) :
              l[k] = pc => \E i : Placed(p, pc, before, after, lines, l, k, i)
<1>1. start \in Address
  <2>1. PICK anchor : anchor = Anchor(K, pc)
    OBVIOUS
  <2> QED BY <2>1, StartFits DEF WindowWalk
<1>2. LinesFrom(p, start, l)
  <2>1. PICK limit \in Nat : limit = before + after + 1 + 256
    OBVIOUS
  <2>2. l = Walk(p, start, pc, after, limit)
    BY <2>1 DEF WindowWalk
  <2> QED BY <1>1, <2>2, WalkFits
<1>3. PICK top \in Nat \ {0} : top = Len(l) /\ l \in Seq(Nat)
  BY <1>2 DEF LinesFrom
<1>4. lines = IF pc \notin Range(l) THEN <<pc>>
              ELSE LET k == CHOOSE k \in DOMAIN l : l[k] = pc
                   IN  SubSeq(l, Larger(1, k - before), Smaller(k + after, Len(l)))
  BY DEF disasm_window, WindowWalk
<1>5. DOMAIN l = 1 .. top
  BY <1>3
<1>6. ASSUME NEW k \in 1 .. Len(l), l[k] = pc
      PROVE  \E i : Placed(p, pc, before, after, lines, l, k, i)
  <2>1. pc \in Range(l)
    BY <1>3, <1>5, <1>6 DEF Range
  <2>2. (CHOOSE j \in DOMAIN l : l[j] = pc) = k
    <3>1. \A j \in DOMAIN l : l[j] = pc <=> j = k
      BY <1>2, <1>3, <1>5, <1>6, ChainOnce
    <3> QED BY <1>3, <1>5, <1>6, <3>1
  <2>3. k \in 1 .. top
    BY <1>3
  <2>4. PICK lo \in 1 .. k : lo = Larger(1, k - before)
    <3>1. PICK d \in Int : d = k - before /\ d <= k
      BY <2>3
    <3>2. Larger(1, d) \in 1 .. k
      BY <2>3, <3>1 DEF Larger
    <3> QED BY <3>1, <3>2
  <2>5. PICK hi \in k .. top : hi = Smaller(k + after, Len(l))
    BY <1>3, <2>3 DEF Smaller
  <2>6. /\ k - lo <= before /\ k - lo = Smaller(before, k - 1)
        /\ hi - k <= after
        /\ hi - k = after \/ (hi = top /\ top < k + after)
    BY <1>3, <2>3, <2>4, <2>5 DEF Smaller, Larger
  <2>7. PICK i \in Nat : i = (k - lo) + 1
    BY <2>3
  <2>8. lines = SubSeq(l, lo, hi)
    BY <1>4, <2>1, <2>2, <2>4, <2>5
  <2>9. Excerpt(l, lo, k, hi, before, after, lines, i)
    BY <1>3, <2>3, <2>6, <2>7, <2>8 DEF Excerpt
  <2>10. /\ OnLine(p, l[k], before, after, lines, i)
         /\ Len(lines) - i = hi - k
         /\ hi = Len(l) => Last(lines) = Last(l)
    BY <1>2, <2>9, ExcerptOnLine
  <2>11. i - 1 = k - lo
    BY <2>3, <2>7
  <2> QED BY <1>3, <1>6, <2>6, <2>10, <2>11 DEF Placed
<1>7. \E i : OnLine(p, pc, before, after, lines, i)
  <2>1. CASE pc \in Range(l)
    BY <1>3, <1>5, <1>6, <2>1 DEF Range, Placed
  <2>2. CASE pc \notin Range(l)
    <3>1. lines = <<pc>> /\ pc \in Nat
      BY <1>4, <2>2, InAddress
    <3>2. OnLine(p, pc, before, after, lines, 1)
      BY <3>1 DEF OnLine
    <3> QED BY <3>2
  <2> QED BY <2>1, <2>2
<1> QED BY <1>6, <1>7

-----------------------------------------------------------------------------
(* What a walk of a window passes.                                         *)

\* Known starts are at most five apart up to the anchor, and PC is near it.
Spaced(K, pc) ==
  LET anchor == Anchor(K, pc)
  IN  /\ \A b \in K : b < anchor => \E c \in K \cup {anchor} : b < c /\ c <= b + 5 /\ c <= anchor
      /\ pc - anchor <= 5

\* One sweep finds them all.
InLine(p, starts) == starts \subseteq linear_sweep(p, Min(starts), Max(starts) + 1)

\* The walk starts near PC.
LEMMA StartNear ==
  ASSUME NEW K \in SUBSET Address, NEW pc \in Address, NEW before \in Nat, Spaced(K, pc),
         NEW start, start = WalkStart(K, pc, before)
  PROVE  /\ start \in Address /\ start <= pc /\ start \in K \cup {pc}
         /\ pc - start <= 5 * before + 5
<1>1. PICK anchor : anchor = Anchor(K, pc)
  OBVIOUS
<1>2. /\ anchor \in Address /\ anchor <= pc
      /\ \A b \in K : b <= pc => anchor \in K /\ b <= anchor
      /\ anchor \in K \/ anchor = pc
  BY <1>1, AnchorFits
<1>3. /\ start \in Address /\ start <= anchor /\ start \in K \cup {anchor}
      /\ Cardinality(From(K, anchor, start)) <= before
  BY <1>1, StartFits
<1>4. \A i \in Address : i \in Nat
  BY InAddress
<1>5. anchor - start <= 5 * before
  <2>1. CASE start = anchor
    BY <1>3, <1>4, <2>1
  <2>2. CASE start # anchor
    <3>1. start \in K /\ start < anchor
      BY <1>2, <1>3, <1>4, <2>2
    <3>2. anchor - start <= 5 * Cardinality(From(K, anchor, start))
      BY <1>1, <1>2, <3>1, GapsCount DEF Spaced
    <3>3. PICK j \in Nat : j = Cardinality(From(K, anchor, start))
      <4>1. From(K, anchor, start) \in SUBSET Address
        BY DEF From
      <4> QED BY <4>1, AddressesFinite
    <3>4. anchor - start <= 5 * j /\ j <= before
      BY <1>3, <3>2, <3>3
    <3> QED BY <1>2, <1>3, <1>4, <3>4
  <2> QED BY <2>1, <2>2
<1>6. pc - anchor <= 5
  BY <1>1 DEF Spaced
<1> QED BY <1>2, <1>3, <1>4, <1>5, <1>6

\* From there one walk finds the known starts above, and PC.
LEMMA SweptFrom ==
  ASSUME NEW p, NEW starts \in SUBSET Address, InLine(p, starts), NEW start \in starts
  PROVE  \E end \in Int : \E f : /\ Sweeps(f, p, end)
                                /\ \A r \in starts : start <= r => r \in f[start]
<1>1. Min(starts) \in starts /\ Max(starts) \in starts
  BY FirstOf, LastOf
<1>2. PICK x \in Nat, end \in Int : x = Min(starts) /\ end = Max(starts) + 1
  BY <1>1, InAddress
<1> DEFINE f == CHOOSE g : Sweeps(g, p, end)
<1>3. Sweeps(f, p, end)
  BY SweepExists
<1>4. linear_sweep(p, x, end) = f[x]
  BY DEF linear_sweep, Sweeps
<1> HIDE DEF f
<1>5. starts \subseteq f[x]
  BY <1>2, <1>4 DEF InLine
<1>6. \A r \in starts : start <= r => r \in f[start]
  BY <1>3, <1>5, SweepSuffix
<1> QED BY <1>3, <1>6

\* What the walk has passed is on one of its lines.
LEMMA WalkPasses ==
  ASSUME NEW p, NEW end \in Int, NEW f, Sweeps(f, p, end), NEW start \in Address,
         NEW l, LinesFrom(p, start, l), NEW r \in f[start], \A i \in 1 .. Len(l) : l[i] # r
  PROVE  /\ Last(l) \in Address /\ NextLine(p, l) \in Nat /\ Last(l) < NextLine(p, l)
         /\ NextLine(p, l) <= r /\ r \in Address
<1>1. PICK top \in Nat \ {0} : top = Len(l)
  BY DEF LinesFrom
<1>2. Last(l) \in Address /\ Last(l) \in Nat
  <2>1. l[top] \in Address
    BY <1>1 DEF LinesFrom
  <2> QED BY <1>1, <2>1, InAddress DEF Last
<1>3. PICK k \in 1 .. 5 : k = disasm_one(p, Last(l))
  BY LengthFits
<1>4. NextLine(p, l) = Last(l) + k
  BY <1>3 DEF NextLine
<1>5. NextLine(p, l) \in Nat /\ Last(l) < NextLine(p, l)
  BY <1>2, <1>4
<1>6. r \in f[NextLine(p, l)]
  BY ChainSweeps
<1> QED BY <1>2, <1>5, <1>6, SweepRange

\* Every known start from start to PC is on one of the first j lines.
AllOn(K, pc, start, l, j) ==
  \A b \in K : start <= b /\ b < pc => \E i \in 1 .. j : l[i] = b

\* Line k of the walk is at PC, with what there is below it and above it.
Reached(p, K, pc, after, start, l, k) ==
  /\ k \in 1 .. Len(l) /\ l[k] = pc
  /\ NextLine(p, l) \notin Address \/ Len(l) >= k + after
  /\ AllOn(K, pc, start, l, k - 1)

\* The walk of a window reaches PC and every known start that it should, before
\* its limit: known starts are at most five bytes apart, so that the walk passes
\* at most 5 * before + 6 lines up to PC, and the limit leaves room for after more.
LEMMA WalkReaches ==
  ASSUME NEW p, NEW K \in SUBSET Address, NEW pc \in Address, NEW before \in Nat,
         NEW after \in Nat, before <= 62, Spaced(K, pc), InLine(p, K \cup {pc}),
         NEW start, NEW l, WindowWalk(p, K, pc, before, after, start, l)
  PROVE  \E k : Reached(p, K, pc, after, start, l, k)
<1>1. /\ start \in Address /\ start <= pc /\ start \in K \cup {pc}
      /\ pc - start <= 5 * before + 5
  BY StartNear DEF WindowWalk
<1>2. PICK limit \in Nat : limit = before + after + 1 + 256
  OBVIOUS
<1>3. LinesFrom(p, start, l) /\ Ended(p, l, pc, after, limit)
  <2>1. l = Walk(p, start, pc, after, limit)
    BY <1>2 DEF WindowWalk
  <2> QED BY <1>1, <1>2, <2>1, WalkFits
<1>4. K \cup {pc} \in SUBSET Address
  OBVIOUS
<1>5. PICK end \in Int : \E f : /\ Sweeps(f, p, end)
                               /\ \A r \in K \cup {pc} : start <= r => r \in f[start]
  BY <1>4, <1>1, SweptFrom
<1>6. PICK f : /\ Sweeps(f, p, end)
               /\ \A r \in K \cup {pc} : start <= r => r \in f[start]
  BY <1>5
<1>7. PICK top \in Nat \ {0} : top = Len(l)
  BY <1>3 DEF LinesFrom
<1>8. \A i \in Address : i \in Nat
  BY InAddress
<1>9. \A j \in 1 .. top : l[j] \in Nat /\ start + (j - 1) <= l[j]
  <2> SUFFICES ASSUME NEW j \in 1 .. top PROVE l[j] \in Nat /\ start + (j - 1) <= l[j]
    OBVIOUS
  <2>1. 1 \in 1 .. Len(l) /\ j \in 1 .. Len(l) /\ 1 <= j
    BY <1>7
  <2>2. l[j] \in Nat /\ l[1] + (j - 1) <= l[j]
    BY <1>3, <2>1, ChainRises
  <2> QED BY <1>3, <2>2 DEF LinesFrom
<1>10. PICK k \in 1 .. top : l[k] = pc
  <2> SUFFICES ASSUME \A j \in 1 .. top : l[j] # pc PROVE FALSE
    OBVIOUS
  <2>1. pc \in f[start]
    BY <1>1, <1>6
  <2>2. /\ Last(l) \in Address /\ NextLine(p, l) \in Nat /\ Last(l) < NextLine(p, l)
        /\ NextLine(p, l) <= pc
    BY <1>1, <1>3, <1>6, <1>7, <2>1, WalkPasses
  <2>3. NextLine(p, l) \in Address
    BY <2>2, InAddress
  <2>4. ~ \E j \in DOMAIN l : l[j] = pc /\ Len(l) >= j + after
    <3>1. DOMAIN l = 1 .. top
      BY <1>3, <1>7 DEF LinesFrom
    <3> QED BY <3>1
  <2>5. top >= limit
    BY <1>3, <1>7, <2>3, <2>4 DEF Ended
  <2>6. start + (top - 1) <= Last(l)
    BY <1>7, <1>9 DEF Last
  <2>7. start + (top - 1) < pc
    BY <1>1, <1>8, <2>2, <2>6
  <2> QED BY <1>1, <1>2, <1>8, <2>5, <2>7
<1>11. k - 1 <= 5 * before + 5
  <2>1. start + (k - 1) <= pc
    BY <1>9, <1>10
  <2> QED BY <1>1, <1>8, <2>1
<1>12. NextLine(p, l) \notin Address \/ top >= k + after
  <2>1. ASSUME NEW j \in DOMAIN l, l[j] = pc, Len(l) >= j + after
        PROVE  top >= k + after
    <3>1. j \in 1 .. Len(l) /\ k \in 1 .. Len(l)
      BY <1>3, <1>7, <2>1 DEF LinesFrom
    <3>2. j = k
      BY <1>3, <1>10, <2>1, <3>1, ChainOnce
    <3> QED BY <1>7, <2>1, <3>2
  <2>2. top >= limit => top >= k + after
    BY <1>2, <1>11
  <2> QED BY <1>3, <1>7, <2>1, <2>2 DEF Ended
<1>13. ASSUME NEW b \in K, start <= b, b < pc
       PROVE  \E i \in 1 .. k - 1 : l[i] = b
  <2>1. PICK i \in 1 .. top : l[i] = b
    <3> SUFFICES ASSUME \A j \in 1 .. top : l[j] # b PROVE FALSE
      OBVIOUS
    <3>1. b \in f[start]
      BY <1>6, <1>13
    <3>2. /\ Last(l) < NextLine(p, l) /\ NextLine(p, l) <= b /\ NextLine(p, l) \in Nat
          /\ Last(l) \in Address
      BY <1>1, <1>3, <1>6, <1>7, <3>1, WalkPasses
    <3>3. k \in 1 .. Len(l) /\ top \in 1 .. Len(l) /\ k <= top
      BY <1>7
    <3>4. l[k] + (top - k) <= l[top]
      BY <1>3, <3>3, ChainRises
    <3>5. l[top] = Last(l)
      BY <1>7 DEF Last
    <3>6. pc <= Last(l)
      BY <1>8, <1>10, <3>2, <3>4, <3>5
    <3> QED BY <1>8, <1>13, <3>2, <3>6
  <2>2. i < k
    <3> SUFFICES ASSUME k <= i PROVE FALSE
      OBVIOUS
    <3>1. l[k] + (i - k) <= l[i]
      <4>1. k \in 1 .. Len(l) /\ i \in 1 .. Len(l)
        BY <1>7
      <4> QED BY <1>3, <4>1, ChainRises
    <3>2. pc <= b
      BY <1>8, <1>10, <2>1, <3>1
    <3> QED BY <1>8, <1>13, <3>2
  <2> QED BY <2>1, <2>2
<1> QED BY <1>7, <1>10, <1>12, <1>13 DEF Reached, AllOn

-----------------------------------------------------------------------------
(* Listing: the known starts cover the program.                            *)

\* The known starts lie in the program, and no part of it is five bytes or
\* more above the last of them.
KnownCover ==
  /\ \A p \in known : InProgram(p)
  /\ \A y \in Address \ {LastAddress} :
       InProgram(y) => \E p \in known : p <= y /\ y < p + 5

\* Where the program is.
LEMMA ProgramPlace ==
  ASSUME program \in Programs
  PROVE  \E first \in Address, size \in Nat :
           /\ first = program.base /\ size = Len(program.bytes)
           /\ \A y \in Address : InProgram(y) <=> first <= y /\ y < first + size
<1>1. program.base \in Address /\ program.bytes \in Seq(Octet)
  BY ProgramsAssumption
<1>2. PICK first \in Address, size \in Nat : first = program.base /\ size = Len(program.bytes)
  BY <1>1
<1>3. first \in Nat
  BY InAddress
<1>4. ASSUME NEW y \in Address
      PROVE  InProgram(y) <=> first <= y /\ y < first + size
  <2>1. y \in Nat
    BY InAddress
  <2>2. y - first \in 0 .. size - 1 <=> first <= y /\ y < first + size
    BY <1>3, <2>1
  <2> QED BY <1>2, <2>2 DEF InProgram
<1> QED BY <1>2, <1>4

\* The starts that Swept finds cover the program.
LEMMA SweptCovers ==
  ASSUME program \in Programs, NEW p, NEW starts, starts = Swept(p)
  PROVE  /\ \A i \in starts : InProgram(i)
         /\ \A y \in Address \ {LastAddress} :
              InProgram(y) => \E i \in starts : i <= y /\ y < i + 5
<1>1. PICK first \in Address, size \in Nat :
        /\ first = program.base /\ size = Len(program.bytes)
        /\ \A y \in Address : InProgram(y) <=> first <= y /\ y < first + size
  BY ProgramPlace
<1>2. PICK top \in Nat : top = LastAddress /\ top = 65535
  BY Halves DEF LastAddress
<1>3. first \in Nat
  BY InAddress
<1>4. PICK sum \in Nat : sum = first + size
  BY <1>3
<1>5. PICK end \in Int : /\ end = Smaller(sum, top)
                         /\ end <= sum /\ end <= top
                         /\ end = sum \/ end = top
  BY DEF Smaller
<1> DEFINE f == CHOOSE g : Sweeps(g, p, end)
<1>6. Sweeps(f, p, end)
  BY SweepExists
<1>7. starts = linear_sweep(p, first, end)
  <2>1. Swept(p) = linear_sweep(p, program.base,
                                Smaller(program.base + Len(program.bytes), LastAddress))
    BY DEF Swept
  <2>2. program.base = first /\ Smaller(program.base + Len(program.bytes), LastAddress) = end
    <3>1. program.base = first /\ program.base + Len(program.bytes) = sum
      BY <1>1, <1>4, Zenon
    <3>2. Smaller(program.base + Len(program.bytes), LastAddress) = Smaller(sum, top)
      BY <1>2, <3>1
    <3>3. end = Smaller(sum, top)
      BY <1>5
    <3> QED BY <3>1, <3>2, <3>3
  <2> QED BY <2>1, <2>2, Zenon
<1>8. linear_sweep(p, first, end) = f[first]
  BY DEF linear_sweep, Sweeps
<1> HIDE DEF f
<1>9. ASSUME NEW i \in starts
      PROVE  InProgram(i)
  <2>1. i \in Nat /\ first <= i /\ i < end /\ i \in Address
    BY <1>3, <1>6, <1>7, <1>8, SweepRange
  <2>2. first <= i /\ i < first + size
    <3>1. PICK x \in Nat : x = i /\ first <= x /\ x < end
      BY <2>1
    <3>2. end <= sum
      BY <1>5
    <3>3. x < sum
      BY <3>1, <3>2
    <3> QED BY <1>4, <3>1, <3>3
  <2>3. i \in Address
    BY <2>1
  <2>4. \A y \in Address : InProgram(y) <=> first <= y /\ y < first + size
    BY <1>1
  <2> QED BY <2>2, <2>3, <2>4, Zenon
<1>10. ASSUME NEW y \in Address, y # LastAddress, InProgram(y)
      PROVE  \E i \in starts : i <= y /\ y < i + 5
  <2>1. y \in Nat /\ y <= 65535
    BY InAddress
  <2>2. first <= y /\ y < end
    BY <1>1, <1>2, <1>3, <1>4, <1>5, <1>10, <2>1
  <2>3. \A i \in Nat : i < end => i \in Address
    BY <1>2, <1>5, InAddress
  <2>4. \E i \in f[first] : i <= y /\ y < i + 5
    <3>1. PICK x \in Nat, z \in Nat : x = first /\ z = y /\ x <= z /\ z < end
      BY <1>3, <2>1, <2>2
    <3>2. \E i \in f[x] : i <= z /\ z < i + 5
      BY <1>6, <2>3, <3>1, SweepCovers
    <3> QED BY <3>1, <3>2
  <2> QED BY <1>7, <1>8, <2>4
<1> QED BY <1>9, <1>10

\* KnownCover holds at the start.
LEMMA CoverStarts ==
  ASSUME ListingInit
  PROVE  KnownCover
<1>1. program \in Programs /\ known = Swept(m)
  BY DEF ListingInit
<1> QED BY <1>1, SweptCovers DEF KnownCover

\* And every step keeps it.
LEMMA CoverKept ==
  ASSUME ListingType, KnownCover, [ListingNext]_listingVars
  PROVE  KnownCover'
<1>1. CASE Run
  <2>1. known' = known \cup {m.pc} /\ InProgram(m.pc) /\ program' = program
    BY <1>1 DEF Run
  <2> QED BY <2>1 DEF KnownCover, InProgram
<1>2. ASSUME program' = program, known' = Swept(m)
      PROVE  KnownCover'
  <2>1. /\ \A i \in known' : InProgram(i)
        /\ \A y \in Address \ {LastAddress} :
             InProgram(y) => \E i \in known' : i <= y /\ y < i + 5
    BY <1>2, SweptCovers DEF ListingType
  <2> QED BY <1>2, <2>1 DEF KnownCover, InProgram
<1>3. CASE Refresh
  BY <1>2, <1>3 DEF Refresh
<1>4. CASE Retarget
  BY <1>2, <1>4 DEF Retarget
<1>5. CASE UNCHANGED listingVars
  BY <1>5 DEF listingVars, KnownCover, InProgram
<1> QED BY <1>1, <1>3, <1>4, <1>5 DEF ListingNext

\* In the program, the known starts and PC are close together.
LEMMA KnownSpaced ==
  ASSUME ListingType, KnownCover, InProgram(m.pc)
  PROVE  Spaced(known, m.pc)
<1>1. PICK first \in Address, size \in Nat :
        /\ first = program.base /\ size = Len(program.bytes)
        /\ \A y \in Address : InProgram(y) <=> first <= y /\ y < first + size
  BY ProgramPlace DEF ListingType
<1>2. PICK pc \in Address : pc = m.pc
  BY DEF ListingType, Machines
<1>3. PICK anchor : anchor = Anchor(known, pc)
  OBVIOUS
<1>4. known \in SUBSET Address
  BY DEF ListingType
<1>5. /\ anchor \in Address /\ anchor <= pc
      /\ \A b \in known : b <= pc => anchor \in known /\ b <= anchor
      /\ anchor \in known \/ anchor = pc
  BY <1>3, <1>4, AnchorFits
<1>6. PICK top \in Nat : top = LastAddress /\ top = 65535
  BY Halves DEF LastAddress
<1>7. \A i \in Address : i \in Nat /\ i <= top
  BY <1>6, InAddress
<1>8. first <= pc /\ pc < first + size
  BY <1>1, <1>2
<1>9. \A b \in known : b \in Address /\ first <= b
  BY <1>1, <1>4 DEF KnownCover
<1>10. \A y \in Nat : y < top /\ first <= y /\ y < first + size
                        => \E c \in known : c <= y /\ y < c + 5
  <2> SUFFICES ASSUME NEW y \in Nat, y < top, first <= y, y < first + size
               PROVE  \E c \in known : c <= y /\ y < c + 5
    OBVIOUS
  <2>1. y \in Address /\ y # LastAddress
    BY <1>6, InAddress
  <2> QED BY <1>1, <2>1 DEF KnownCover
<1>11. ASSUME NEW b \in known, b < anchor
       PROVE  \E c \in known \cup {anchor} : b < c /\ c <= b + 5 /\ c <= anchor
  <2>1. b \in Nat /\ anchor \in Nat /\ first <= b
    BY <1>5, <1>7, <1>9
  <2>2. CASE anchor <= b + 5
    BY <1>11, <2>1, <2>2
  <2>3. CASE b + 5 < anchor
    <3>1. PICK y \in Nat : y = b + 5
      BY <2>1
    <3>2. y < top /\ first <= y /\ y < first + size
      BY <1>5, <1>7, <1>8, <2>1, <2>3, <3>1
    <3>3. PICK c \in known : c <= y /\ y < c + 5
      BY <1>10, <3>2
    <3>4. c \in Nat
      BY <1>7, <1>9
    <3> QED BY <2>1, <2>3, <3>1, <3>3, <3>4
  <2> QED BY <2>1, <2>2, <2>3
<1>12. pc - anchor <= 5
  <2>1. pc \in Nat /\ anchor \in Nat /\ first \in Nat
    BY <1>5, <1>7
  <2>2. ASSUME NEW y \in Nat, y < top, first <= y, y <= pc, pc <= y + 1
        PROVE  pc - anchor <= 5
    <3>1. PICK c \in known : c <= y /\ y < c + 5
      BY <1>8, <1>10, <2>1, <2>2
    <3>2. c \in Nat /\ c <= pc
      <4>1. c \in Nat
        BY <1>7, <1>9
      <4>2. c <= y /\ y <= pc
        BY <2>2, <3>1
      <4> QED BY <2>1, <4>1, <4>2
    <3>3. c <= anchor
      BY <1>5, <3>2
    <3> QED BY <2>1, <2>2, <3>1, <3>2, <3>3
  <2>3. CASE pc < top
    BY <1>8, <2>1, <2>2, <2>3
  <2>4. CASE pc = top /\ first < pc
    <3>1. PICK y \in Nat : y = pc - 1
      BY <2>1, <2>4
    <3>2. y < top /\ first <= y /\ y <= pc /\ pc <= y + 1
      BY <2>1, <2>4, <3>1
    <3> QED BY <2>2, <3>2
  <2>5. CASE pc = first
    <3>1. anchor = pc
      BY <1>5, <1>9, <2>1, <2>5
    <3> QED BY <2>1, <3>1
  <2> QED BY <1>7, <1>8, <2>1, <2>3, <2>4, <2>5
<1> QED BY <1>2, <1>3, <1>11, <1>12 DEF Spaced

-----------------------------------------------------------------------------
(* Listing: the window is right.                                           *)

\* What is found on j lines has no more than j elements.
LEMMA FoundOnLines ==
  ASSUME NEW S, NEW l, NEW j \in Nat, \A b \in S : \E i \in 1 .. j : l[i] = b
  PROVE  Cardinality(S) <= j
<1> DEFINE g == [b \in S |-> CHOOSE i \in 1 .. j : l[i] = b]
<1>1. \A b \in S : g[b] \in 1 .. j /\ l[g[b]] = b
  OBVIOUS
<1>2. g \in [S -> 1 .. j]
  BY <1>1
<1> HIDE DEF g
<1>3. g \in Injection(S, 1 .. j)
  BY <1>1, <1>2 DEF Injection, IsInjective
<1>4. IsFiniteSet(1 .. j) /\ Cardinality(1 .. j) = j
  BY FS_Interval
<1> QED BY <1>3, <1>4, FS_Injection

\* The known starts before PC.
Earlier(K, pc) == {b \in K : b < pc}

\* A walk that passes every known start has enough lines above PC.
LEMMA EnoughAbove ==
  ASSUME NEW K \in SUBSET Address, NEW pc \in Address, NEW before \in Nat,
         NEW start, start = WalkStart(K, pc, before), NEW l, NEW j \in Nat,
         AllOn(K, pc, start, l, j)
  PROVE  Smaller(before, Cardinality(Earlier(K, pc))) <= j
<1>1. PICK anchor : anchor = Anchor(K, pc)
  OBVIOUS
<1>2. /\ anchor \in Address /\ anchor <= pc
      /\ \A b \in K : b <= pc => anchor \in K /\ b <= anchor
  BY <1>1, AnchorFits
<1>3. /\ start \in Address /\ start <= anchor
      /\ \/ \A b \in K : b < anchor => start <= b
         \/ Cardinality(From(K, anchor, start)) >= before
  BY <1>1, StartFits
<1>4. \A i \in Address : i \in Nat
  BY InAddress
<1>5. PICK size \in Nat : size = Cardinality(Earlier(K, pc))
  <2>1. Earlier(K, pc) \in SUBSET Address
    BY DEF Earlier
  <2> QED BY <2>1, AddressesFinite
<1>6. CASE \A b \in K : b < anchor => start <= b
  <2>1. ASSUME NEW b \in Earlier(K, pc)
        PROVE  \E i \in 1 .. j : l[i] = b
    <3>1. b \in K /\ b < pc /\ b \in Nat /\ pc \in Nat /\ anchor \in Nat
      BY <1>2, <1>4 DEF Earlier
    <3>2. b <= anchor
      BY <1>2, <3>1
    <3>3. start <= b
      BY <1>3, <1>6, <3>1, <3>2
    <3> QED BY <3>1, <3>3 DEF AllOn
  <2>2. size <= j
    BY <1>5, <2>1, FoundOnLines
  <2> QED BY <1>5, <2>2 DEF Smaller
<1>7. CASE Cardinality(From(K, anchor, start)) >= before
  <2>1. ASSUME NEW b \in From(K, anchor, start)
        PROVE  \E i \in 1 .. j : l[i] = b
    <3>1. b \in K /\ start <= b /\ b < anchor
      BY DEF From
    <3>2. b < pc
      BY <1>2, <1>4, <3>1
    <3> QED BY <3>1, <3>2 DEF AllOn
  <2>2. Cardinality(From(K, anchor, start)) <= j
    BY <2>1, FoundOnLines
  <2>3. Cardinality(From(K, anchor, start)) \in Nat
    <3>1. From(K, anchor, start) \in SUBSET Address
      BY DEF From
    <3> QED BY <3>1, AddressesFinite
  <2>4. before <= j
    BY <1>7, <2>2, <2>3
  <2> QED BY <1>5, <2>4 DEF Smaller
<1> QED BY <1>3, <1>6, <1>7

\* The window has all that was asked for.
LEMMA WindowFull ==
  ASSUME NEW p, NEW K \in SUBSET Address, NEW pc \in Address, NEW before \in Nat,
         NEW after \in Nat, before <= 62, Spaced(K, pc), InLine(p, K \cup {pc}),
         NEW lines, lines = disasm_window(p, pc, K, before, after)
  PROVE  \E i : /\ OnLine(p, pc, before, after, lines, i)
                /\ Smaller(before, Cardinality(Earlier(K, pc))) <= i - 1
                /\ Len(lines) - i = after \/ NextLine(p, lines) \notin Address
<1>1. PICK start, l : WindowWalk(p, K, pc, before, after, start, l)
  BY DEF WindowWalk
<1>2. PICK k : Reached(p, K, pc, after, start, l, k)
  BY <1>1, WalkReaches
<1>3. PICK i : Placed(p, pc, before, after, lines, l, k, i)
  BY <1>1, <1>2, WindowFits DEF Reached
<1>4. PICK top \in Nat : top = Len(l)
  <2>1. start \in Address
    <3>1. PICK anchor : anchor = Anchor(K, pc)
      OBVIOUS
    <3> QED BY <1>1, <3>1, StartFits DEF WindowWalk
  <2>2. PICK limit \in Nat : limit = before + after + 1 + 256
    OBVIOUS
  <2>3. l = Walk(p, start, pc, after, limit)
    BY <1>1, <2>2 DEF WindowWalk
  <2>4. LinesFrom(p, start, l)
    BY <2>1, <2>2, <2>3, WalkFits
  <2> QED BY <2>4 DEF LinesFrom
<1>5. PICK j \in Nat : j = k - 1
  BY <1>2, <1>4 DEF Reached
<1>6. Smaller(before, Cardinality(Earlier(K, pc))) <= j
  <2>1. start = WalkStart(K, pc, before)
    BY <1>1 DEF WindowWalk
  <2>2. AllOn(K, pc, start, l, j)
    BY <1>2, <1>5 DEF Reached
  <2> QED BY <2>1, <2>2, EnoughAbove
<1>7. PICK size \in Nat : size = Cardinality(Earlier(K, pc))
  <2>1. Earlier(K, pc) \in SUBSET Address
    BY DEF Earlier
  <2> QED BY <2>1, AddressesFinite
<1>8. Smaller(before, Cardinality(Earlier(K, pc))) <= i - 1
  <2>1. Smaller(before, size) <= j /\ i - 1 = Smaller(before, j)
    BY <1>3, <1>5, <1>6, <1>7 DEF Placed
  <2>2. Smaller(before, size) <= Smaller(before, j)
    BY <2>1 DEF Smaller
  <2> QED BY <1>7, <2>1, <2>2
<1>9. ASSUME Last(lines) = Last(l), Len(l) < k + after
      PROVE  NextLine(p, lines) \notin Address
  <2>1. NextLine(p, l) \notin Address
    BY <1>2, <1>4, <1>9 DEF Reached
  <2> QED BY <1>9, <2>1 DEF NextLine
<1> QED BY <1>3, <1>8, <1>9 DEF Placed

\* What WindowRight says of a window, and of the lines of it that are at PC.
WindowOf(w, lines, here) ==
  /\ Cardinality(here) = 1
  /\ \A k \in 1 .. Len(lines) - 1 : lines[k + 1] = lines[k] + disasm_one(m, lines[k])
  /\ \A k \in here : k - 1 <= w[1] /\ Len(lines) - k <= w[2]
  /\ InProgram(m.pc) /\ Aligned =>
       \A k \in here :
         /\ k - 1 >= Smaller(w[1], Cardinality({b \in known : b < m.pc}))
         /\ Len(lines) - k = w[2] \/ AtTheEnd(lines)

\* Every window is right that asks for no more than 62 lines above PC.
LEMMA WindowHolds ==
  ASSUME ListingType, KnownCover, NEW w \in Windows, w[1] <= 62,
         NEW lines, lines = disasm_window(m, m.pc, known, w[1], w[2]),
         NEW here, here = {k \in DOMAIN lines : lines[k] = m.pc}
  PROVE  WindowOf(w, lines, here)
<1>1. PICK before \in Nat, after \in Nat : before = w[1] /\ after = w[2]
  BY WindowsAssumption
<1>2. PICK pc \in Address : pc = m.pc
  BY DEF ListingType, Machines
<1>3. known \in SUBSET Address
  BY DEF ListingType
<1>4. lines = disasm_window(m, pc, known, before, after)
  BY <1>1, <1>2
<1>5. PICK i : OnLine(m, pc, before, after, lines, i)
  <2>1. PICK start, l : WindowWalk(m, known, pc, before, after, start, l)
    BY DEF WindowWalk
  <2> QED BY <1>3, <1>4, <2>1, WindowFits
<1>6. PICK size \in Nat : size = Len(lines)
  BY <1>5 DEF OnLine
<1>7. DOMAIN lines = 1 .. size
  BY <1>5, <1>6 DEF OnLine
<1>8. ASSUME NEW j, OnLine(m, pc, before, after, lines, j)
      PROVE  here = {j}
  <2>1. /\ j \in 1 .. size /\ lines[j] = pc
        /\ \A k \in 1 .. size : lines[k] = pc => k = j
    BY <1>6, <1>8 DEF OnLine
  <2> QED BY <1>2, <1>7, <2>1
<1>9. Cardinality(here) = 1
  BY <1>5, <1>8, FS_Singleton
<1>10. \A k \in 1 .. Len(lines) - 1 : lines[k + 1] = lines[k] + disasm_one(m, lines[k])
  BY <1>5 DEF OnLine
<1>11. \A k \in here : k - 1 <= before /\ Len(lines) - k <= after
  <2>1. here = {i} /\ i - 1 <= before /\ Len(lines) - i <= after
    BY <1>5, <1>8 DEF OnLine
  <2> QED BY <2>1
<1>12. ASSUME InProgram(m.pc), Aligned
       PROVE  \A k \in here :
                /\ k - 1 >= Smaller(before, Cardinality({b \in known : b < m.pc}))
                /\ Len(lines) - k = after \/ AtTheEnd(lines)
  <2>1. Spaced(known, pc)
    BY <1>2, <1>12, KnownSpaced
  <2>2. InLine(m, known \cup {pc})
    BY <1>2, <1>12 DEF Aligned, InLine
  <2>3. PICK j : /\ OnLine(m, pc, before, after, lines, j)
                 /\ Smaller(before, Cardinality(Earlier(known, pc))) <= j - 1
                 /\ Len(lines) - j = after \/ NextLine(m, lines) \notin Address
    BY <1>1, <1>3, <1>4, <2>1, <2>2, WindowFull
  <2>4. here = {j}
    BY <1>8, <2>3
  <2>5. Earlier(known, pc) = {b \in known : b < m.pc}
    BY <1>2 DEF Earlier
  <2>6. AtTheEnd(lines) <=> NextLine(m, lines) \notin Address
    BY DEF AtTheEnd, NextLine
  <2>7. PICK x \in Int : x = Smaller(before, Cardinality(Earlier(known, pc)))
    <3>1. Earlier(known, pc) \in SUBSET Address
      BY <1>3 DEF Earlier
    <3>2. PICK h \in Nat : h = Cardinality(Earlier(known, pc))
      BY <3>1, AddressesFinite
    <3> QED BY <3>2 DEF Smaller
  <2>8. j - 1 >= x
    <3>1. j \in Nat
      BY <2>3 DEF OnLine
    <3> QED BY <2>3, <2>7, <3>1
  <2> QED BY <2>3, <2>4, <2>5, <2>6, <2>7, <2>8
<1> QED BY <1>1, <1>9, <1>10, <1>11, <1>12 DEF WindowOf

\* The invariant of the listing is what the window needs.
LEMMA WindowFollows ==
  ASSUME ListingType, KnownCover, \A w \in Windows : w[1] <= 62
  PROVE  WindowRight
<1>1. ASSUME NEW w \in Windows,
             NEW lines, lines = disasm_window(m, m.pc, known, w[1], w[2]),
             NEW here, here = {k \in DOMAIN lines : lines[k] = m.pc}
      PROVE  WindowOf(w, lines, here)
  BY <1>1, WindowHolds
<1> QED BY <1>1, Zenon DEF WindowRight, WindowOf

\* The window around PC is right (src/src/disasm.rs: disasm_window), whatever
\* the program and the lines asked for below PC.  The hypothesis is the code's own
\* limit: a walk ends after n_before + n_after + 1 + 256 lines, and where every
\* instruction of five bytes has been written over with instructions of one, it
\* has up to 5 * n_before + 6 lines to go to reach PC.
THEOREM WindowIsRight ==
  ASSUME \A w \in Windows : w[1] <= 62
  PROVE  ListingSpec => []WindowRight
<1>1. ListingInit => KnownCover
  BY CoverStarts
<1>2. ListingType /\ KnownCover /\ [ListingNext]_listingVars => KnownCover'
  BY CoverKept
<1>3. ListingType /\ KnownCover => WindowRight
  BY WindowFollows
<1> QED BY <1>1, <1>2, <1>3, ListingInvariant, PTL DEF ListingSpec
=============================================================================
