----------------------------- MODULE Arithmetic -----------------------------
(***************************************************************************)
(* Guest routines that calculate with numbers of many bytes, one           *)
(* instruction of src/src/cpu.rs per step.  A number is a sequence of      *)
(* bytes, the lowest first.  Every routine is a loop over the bytes that   *)
(* hands a carry on in C, or a decision in Z, through instructions that    *)
(* set condition codes of their own:                                       *)
(*                                                                         *)
(*   start  ANDCC #$FE          (not "cmp" and "inc")                      *)
(*   load   LDA   ,X            ,U+ in "compare"                           *)
(*   work   ADCA  ,Y+           "add", "decimal"                           *)
(*          SBCA  ,Y+           "sub", "compare"                           *)
(*          CMPA  ,Y            "cmp", which is over then                  *)
(*          ROL   ,X+           "left", which has no load and no store     *)
(*          ROR   ,-X           "right", likewise, from the highest byte   *)
(*          INC   ,X+           "inc", likewise                            *)
(*   adjust DAA                 "decimal"                                  *)
(*   carry  BNE   done          "inc"                                      *)
(*   store  STA   ,X+           "add", "sub", "decimal"                    *)
(*   count  DECB                LEAX -1,X in "compare", which needs N, V   *)
(*   loop   BNE   load          (or work)                                  *)
(***************************************************************************)
EXTENDS Alu, FiniteSets

CONSTANTS
  Half,        \* half the range of a byte (128 in the code)
  MaxBytes,    \* BOUND: bytes of a number; the count must fit in B
  Binary,      \* numbers that routines are given
  Packed,      \* numbers of packed decimal digits that "decimal" is given
  Jobs,        \* routines in use
  StartFlags   \* condition codes a routine may find

Byte   == 0 .. 2 * Half - 1

IsNumber(p) == \E k \in 1 .. MaxBytes : p \in [1 .. k -> Byte]

\* A byte of two decimal digits.
Digits == {v \in 0 .. 255 : Low(v) <= 9 /\ v \div 16 <= 9}

ASSUME ArithmeticAssumption ==
  /\ Half \in Nat \ {0}
  /\ MaxBytes \in 1 .. 2 * Half - 1
  /\ \A p \in Binary \cup Packed : IsNumber(p)
  /\ \A p \in Packed : \A j \in DOMAIN p : p[j] \in Digits
  /\ "decimal" \in Jobs => Half = Half8
  /\ Jobs \subseteq {"add", "sub", "compare", "cmp", "decimal", "left", "right", "inc"}
  /\ StartFlags \subseteq SUBSET Flag

InPlace == {"left", "right", "inc"}

VARIABLES
  job,      \* the routine
  n,        \* how many bytes its numbers have
  xs, ys,   \* the numbers it is given
  zs,       \* the bytes it stores to (where X points to)
  a, cc,    \* the registers
  left,     \* bytes to go: B, or X in "compare"
  at        \* the label of the next instruction

given == <<job, n, xs, ys>>
vars  == <<job, n, xs, ys, zs, a, cc, left, at>>

\* The byte in hand.
Here == IF job = "right" THEN left ELSE n - left + 1

Again == IF job \in InPlace THEN "work" ELSE "load"

Init ==
  /\ job \in Jobs
  /\ xs \in IF job = "decimal" THEN Packed ELSE Binary
  /\ ys \in IF job = "decimal" THEN Packed ELSE Binary
  /\ n \in 1 .. MaxBytes
  /\ DOMAIN xs = 1 .. n /\ DOMAIN ys = 1 .. n
  /\ zs = xs /\ a = 0 /\ cc \in StartFlags /\ left = n
  /\ at = IF job \in {"cmp", "inc"} THEN Again ELSE "start"

-----------------------------------------------------------------------------
(* One action per instruction.                                             *)

\* ANDCC #$FE
ClearCarry ==
  /\ at = "start"
  /\ cc' = cc \ {"C"}
  /\ at' = Again
  /\ UNCHANGED <<given, zs, a, left>>

\* LDA
Load ==
  /\ at = "load"
  /\ a' = zs[Here]
  /\ cc' = logic_nz_clearv(Half, zs[Here], cc)
  /\ at' = "work"
  /\ UNCHANGED <<given, zs, left>>

\* ADCA, in "add" and "decimal".
AddIn ==
  /\ at = "work" /\ job \in {"add", "decimal"}
  /\ LET r == adc8_flags(Half, a, ys[Here], cc)
     IN  a' = r.value /\ cc' = r.cc
  /\ at' = IF job = "add" THEN "store" ELSE "adjust"
  /\ UNCHANGED <<given, zs, left>>

\* SBCA, in "sub" and "compare".
TakeAway ==
  /\ at = "work" /\ job \in {"sub", "compare"}
  /\ LET r == sbc8_flags(Half, a, ys[Here], cc)
     IN  a' = r.value /\ cc' = r.cc
  /\ at' = IF job = "sub" THEN "store" ELSE "count"
  /\ UNCHANGED <<given, zs, left>>

\* CMPA: the difference is not kept.
CompareOnce ==
  /\ at = "work" /\ job = "cmp"
  /\ cc' = sub8_flags(Half, a, ys[Here], cc).cc
  /\ at' = "done"
  /\ UNCHANGED <<given, zs, a, left>>

\* ROL, ROR and INC of the byte in memory.
Modify ==
  /\ at = "work" /\ job \in InPlace
  /\ LET r == CASE job = "left"  -> Rol(Half, zs[Here], cc)
                [] job = "right" -> Ror(Half, zs[Here], cc)
                [] job = "inc"   -> Inc(Half, zs[Here], cc)
     IN  zs' = [zs EXCEPT ![Here] = r.value] /\ cc' = r.cc
  /\ at' = IF job = "inc" THEN "carry" ELSE "count"
  /\ UNCHANGED <<given, a, left>>

\* DAA
Adjust ==
  /\ at = "adjust"
  /\ LET r == Daa(a, cc)
     IN  a' = r.value /\ cc' = r.cc
  /\ at' = "store"
  /\ UNCHANGED <<given, zs, left>>

\* BNE done, after INC: the byte did not wrap.
StopEarly ==
  /\ at = "carry"
  /\ at' = IF cond_eval("BNE", cc) THEN "done" ELSE "count"
  /\ UNCHANGED <<given, zs, a, cc, left>>

\* STA
Store ==
  /\ at = "store"
  /\ zs' = [zs EXCEPT ![Here] = a]
  /\ cc' = logic_nz_clearv(Half, a, cc)
  /\ at' = "count"
  /\ UNCHANGED <<given, a, left>>

\* DECB, or LEAX -1,X, which sets nothing but Z.
CountDown ==
  /\ at = "count"
  /\ left' = Dec(Half, left, cc).value
  /\ cc' = IF job = "compare" THEN With(cc, "Z", left - 1 = 0) ELSE Dec(Half, left, cc).cc
  /\ at' = "loop"
  /\ UNCHANGED <<given, zs, a>>

\* BNE
Repeat ==
  /\ at = "loop"
  /\ at' = IF cond_eval("BNE", cc) THEN Again ELSE "done"
  /\ UNCHANGED <<given, zs, a, cc, left>>

Next == \/ ClearCarry \/ Load \/ AddIn \/ TakeAway \/ CompareOnce \/ Modify
        \/ Adjust \/ StopEarly \/ Store \/ CountDown \/ Repeat

Spec == Init /\ [][Next]_vars

-----------------------------------------------------------------------------
(* What the routines compute, in the way it is done on paper.  carry is    *)
(* the set of the columns that carry (or borrow) into the next; 0 stands   *)
(* for what is carried into the lowest.                                    *)

In(carry, j)  == IF j \in carry THEN 1 ELSE 0
Out(carry, j) == IF j \in carry THEN 2 * Half ELSE 0

\* Column j, with z the byte below the line.
Column(carry, j, z) ==
  CASE job = "add"   -> xs[j] + ys[j] + In(carry, j - 1) = z + Out(carry, j)
    [] job = "sub"   -> z + ys[j] + In(carry, j - 1) = xs[j] + Out(carry, j)
    [] job = "left"  -> 2 * xs[j] + In(carry, j - 1) = z + Out(carry, j)
    [] job = "right" -> xs[j] + Out(carry, j) = 2 * z + In(carry, j - 1)
    [] job = "inc"   -> xs[j] + In(carry, j - 1) = z + Out(carry, j)

\* What is carried into the first column: nothing, but for INC.
Enters(carry) == CASE job = "right" -> n \notin carry
                   [] job = "inc"   -> 0 \in carry
                   [] OTHER         -> 0 \notin carry

\* The last column's carry.
Leaves(carry) == IF job = "right" THEN 0 \in carry ELSE n \in carry

\* Value of two decimal digits.
Decimal(v) == 10 * (v \div 16) + Low(v)

DecimalColumn(carry, j, z) ==
  /\ z \in Digits
  /\ Decimal(xs[j]) + Decimal(ys[j]) + In(carry, j - 1)
       = Decimal(z) + (IF j \in carry THEN 100 ELSE 0)

\* Unsigned order of the numbers formed by the lowest k bytes.
Below(k) == \E j \in 1 .. k : xs[j] < ys[j] /\ \A i \in j + 1 .. k : xs[i] = ys[i]

\* Signed order: the top byte carries the sign.
SignedBelow ==
  Signed(Half, xs[n]) < Signed(Half, ys[n]) \/ (xs[n] = ys[n] /\ Below(n - 1))

-----------------------------------------------------------------------------
(* Properties.                                                             *)

TypeOK ==
  /\ job \in Jobs
  /\ n \in 1 .. MaxBytes
  /\ xs \in [1 .. n -> Byte] /\ ys \in [1 .. n -> Byte] /\ zs \in [1 .. n -> Byte]
  /\ a \in Byte /\ cc \subseteq Flag
  /\ left \in 0 .. n
  /\ at \in {"start", "load", "work", "adjust", "carry", "store", "count", "loop", "done"}

\* Sums, differences, shifts and increments of numbers of any length are right, byte by
\* byte, and C tells of the last carry: the carry survives the loads, the stores and the
\* counting between two bytes, and each instruction takes it in and hands it on.
\* (src/src/cpu.rs: adc8_flags, sbc8_flags, ROL, ROR, INC, DECB, STA, LDA)
ChainsRight ==
  (at = "done" /\ job \in {"add", "sub", "left", "right", "inc"}) =>
    \E carry \in SUBSET (0 .. n) :
      /\ Enters(carry)
      /\ \A j \in 1 .. n : Column(carry, j, zs[j])
      /\ job # "inc" => ("C" \in cc <=> Leaves(carry))

\* A sum of packed decimal numbers is one again, and is the sum: ADCA leaves H and C so
\* that DAA can correct each digit, and hands the decimal carry to the next byte.
\* (src/src/cpu.rs: adc8_flags, DAA)
DecimalRight ==
  (at = "done" /\ job = "decimal") =>
    \E carry \in SUBSET (0 .. n) :
      /\ 0 \notin carry
      /\ \A j \in 1 .. n : DecimalColumn(carry, j, zs[j])
      /\ "C" \in cc <=> n \in carry

\* After CMPA every branch goes by the relation its name says, of unsigned or of signed
\* numbers, overflow or not; after a chain of SBCA those branches do that need no Z.
\* (src/src/cpu.rs: sub8_flags, sbc8_flags, cond_eval)
BranchesRight ==
  /\ (at = "done" /\ job = "cmp") =>
       LET p == xs[1]
           q == ys[1]
       IN  /\ cond_eval("BEQ", cc) <=> p = q
           /\ cond_eval("BNE", cc) <=> p # q
           /\ cond_eval("BHI", cc) <=> p > q
           /\ cond_eval("BLS", cc) <=> p <= q
           /\ cond_eval("BCC", cc) <=> p >= q
           /\ cond_eval("BCS", cc) <=> p < q
           /\ cond_eval("BGT", cc) <=> Signed(Half, p) > Signed(Half, q)
           /\ cond_eval("BLE", cc) <=> Signed(Half, p) <= Signed(Half, q)
           /\ cond_eval("BGE", cc) <=> Signed(Half, p) >= Signed(Half, q)
           /\ cond_eval("BLT", cc) <=> Signed(Half, p) < Signed(Half, q)
  /\ (at = "done" /\ job = "compare") =>
       /\ cond_eval("BCS", cc) <=> Below(n)
       /\ cond_eval("BCC", cc) <=> ~ Below(n)
       /\ cond_eval("BLT", cc) <=> SignedBelow
       /\ cond_eval("BGE", cc) <=> ~ SignedBelow
=============================================================================
