------------------------------ MODULE Routines ------------------------------
(***************************************************************************)
(* The routines of Arithmetic as machine code, executed by Machine byte by *)
(* byte: operands are fetched through index registers that step, the loops *)
(* close with branches, and numbers and code lie anywhere in the address   *)
(* space, its end included.  A byte that is fetched, addressed or stored   *)
(* wrongly shows as a step that Arithmetic does not allow.                 *)
(***************************************************************************)
EXTENDS Machine, SequencesExt, TLC

CONSTANTS
  MaxBytes, Binary, Packed, Jobs, StartFlags,   \* as in Arithmetic
  Places        \* where code, zs and ys may start: <<origin, base of zs, of ys>>

ASSUME PlacesAssumption == Places \subseteq Address \X Address \X Address

VARIABLES job, n, xs, ys,   \* as in Arithmetic
          place,            \* where code and numbers are
          m                 \* the machine

given == <<job, n, xs, ys, place>>
vars  == <<given, m>>

-----------------------------------------------------------------------------
(* The code: what Arithmetic calls the instruction, its bytes, and for a   *)
(* branch the instruction it goes to.                                      *)

Line(label, bytes) == [label |-> label, bytes |-> bytes, to |-> ""]
BNE(label, to)     == [label |-> label, bytes |-> <<\h26>>, to |-> to]

Start == <<Line("start", <<\h1C, \hFE>>)>>                         \* ANDCC #$FE
Again(last) == <<Line("count", <<\h5A>>), BNE("loop", last)>>       \* DECB
End   == <<Line("done", <<\h20, \hFE>>)>>                          \* BRA *
LoadX == <<Line("load", <<\hA6, \h84>>)>>                          \* LDA ,X
Keep  == <<Line("store", <<\hA7, \h80>>)>>                         \* STA ,X+
Work(bytes) == <<Line("work", bytes)>>

Text ==
  CASE job = "add"     -> Start \o LoadX \o Work(<<\hA9, \hA0>>) \o Keep \o Again("load")
    [] job = "sub"     -> Start \o LoadX \o Work(<<\hA2, \hA0>>) \o Keep \o Again("load")
    [] job = "decimal" -> Start \o LoadX \o Work(<<\hA9, \hA0>>)
                                \o <<Line("adjust", <<\h19>>)>> \o Keep \o Again("load")
    [] job = "compare" -> Start \o <<Line("load", <<\hA6, \hC0>>)>>    \* LDA ,U+
                                \o Work(<<\hA2, \hA0>>)
                                \o <<Line("count", <<\h30, \h1F>>), BNE("loop", "load")>>
    [] job = "cmp"     -> LoadX \o Work(<<\hA1, \hA4>>)
    [] job = "left"    -> Start \o Work(<<\h69, \h80>>) \o Again("work")
    [] job = "right"   -> Start \o Work(<<\h66, \h82>>) \o Again("work")
    [] job = "inc"     -> Work(<<\h6C, \h80>>) \o <<BNE("carry", "done")>> \o Again("work")

Code == Text \o End

Size(line) == Len(line.bytes) + (IF line.to = "" THEN 0 ELSE 1)

At(k) == Plus(place[1], FoldLeft(LAMBDA sum, line : sum + Size(line), 0, SubSeq(Code, 1, k - 1)))

Labelled(label) == CHOOSE k \in DOMAIN Code : Code[k].label = label

Bytes(k) ==
  IF Code[k].to = "" THEN Code[k].bytes
  ELSE Append(Code[k].bytes, (At(Labelled(Code[k].to)) - At(k) - 2) % 256)

\* Memory with the bytes of s from p on.
Image(p, s) == [q \in {Plus(p, j - 1) : j \in DOMAIN s} |->
                  s[CHOOSE j \in DOMAIN s : Plus(p, j - 1) = q]]

RECURSIVE Images(_)
Images(k) == IF k = 0 THEN << >> ELSE Image(At(k), Bytes(k)) @@ Images(k - 1)

-----------------------------------------------------------------------------
\* X points to the numbers that are stored to, past them in "right"; in
\* "compare" it counts and U points.
StartMachine(flags) ==
  [a  |-> 0, b |-> n, dp |-> 0,
   x  |-> CASE job = "right"   -> Plus(place[2], n)
            [] job = "compare" -> n
            [] OTHER           -> place[2],
   y  |-> place[3], u |-> place[2], s |-> 0,
   pc |-> At(IF job = "inc" THEN Labelled("work")
             ELSE IF job = "cmp" THEN Labelled("load") ELSE Labelled("start")),
   cc |-> flags,
   ram   |-> Image(place[2], xs) @@ Image(place[3], ys) @@ Images(Len(Code)),
   wrote |-> {}]

Init ==
  /\ job \in Jobs
  /\ xs \in IF job = "decimal" THEN Packed ELSE Binary
  /\ ys \in IF job = "decimal" THEN Packed ELSE Binary
  /\ n \in 1 .. MaxBytes
  /\ DOMAIN xs = 1 .. n /\ DOMAIN ys = 1 .. n
  /\ place \in Places
  /\ \E flags \in StartFlags : m = StartMachine(flags)

Execute ==
  /\ m' = Step(m)
  /\ UNCHANGED given

Spec == Init /\ [][Execute]_vars

-----------------------------------------------------------------------------
(* What the machine code does, in the terms of Arithmetic.  The pointers   *)
(* are not there: a byte is where its pointer should be.                   *)

A == INSTANCE Arithmetic WITH
       Half <- Half8,
       zs   <- [j \in 1 .. n |-> Read(m, Plus(place[2], j - 1))],
       a    <- m.a,
       cc   <- m.cc,
       left <- IF job = "compare" THEN m.x ELSE m.b,
       at   <- Code[CHOOSE k \in DOMAIN Code : At(k) = m.pc].label

\* Every instruction of the machine code does to registers, flags and numbers
\* what Arithmetic says of it, or nothing (src/src/cpu.rs: step, ea_indexed,
\* cond_eval): the operands of successive bytes are reached through stepping
\* pointers, wherever code and numbers lie, and the loop goes where it should.
Implements == A!Spec
=============================================================================
