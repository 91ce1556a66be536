------------------------------- MODULE Disasm -------------------------------
(***************************************************************************)
(* The disassembler (src/src/disasm.rs), as far as it decides where an     *)
(* instruction ends and where a branch goes, the sweep of a loaded program *)
(* (src/src/debug.rs) and the window of a listing around PC.  Text is left *)
(* out: a line is its address.                                             *)
(***************************************************************************)
EXTENDS Machine, FiniteSets, SequencesExt

\* Columns of the instructions on one byte, and of those on an accumulator.
Unary == {0, 3, 4, 6, 7, 8, 9, 10, 12, 13, 15}
Dyadic == (0 .. 11) \ {3}

\* Opcodes of one row, from its columns.
Row(hi, columns) == {16 * hi + column : column \in columns}

-----------------------------------------------------------------------------
(* The opcodes that disasm_one knows, by what follows them.                *)

Inherents == Row(4, Unary) \cup Row(5, Unary)
               \cup {\h12, \h13, \h19, \h1D, \h39, \h3A, \h3B, \h3D, \h3F}

RelativeOps == \h20 .. \h2F \cup {\h8D}
LongOps     == {\h16, \h17}

RowsInMemory == [direct |-> Row(0, Unary \cup {14}), indexed |-> Row(6, Unary \cup {14}),
                 extended |-> Row(7, Unary \cup {14})]

ImmediatesA == Row(8, Dyadic \ {7})
DirectsA    == Row(9, Dyadic)
IndexedA    == Row(10, {0, 1, 2, 4, 5, 6, 7})
ExtendedsA  == Row(11, Dyadic)
ImmediatesB == Row(12, Dyadic \ {7})
DirectsB    == Row(13, Dyadic)
IndexedB    == Row(14, Dyadic)
ExtendedsB  == Row(15, Dyadic)

\* JSR, and LDD and STD.
CallsAndD == [direct |-> {\h9D, \hDC, \hDD}, indexed |-> {\hAD, \hEC, \hED},
              extended |-> {\hBD, \hFC, \hFD}, immediate |-> {\hCC}]

XAndImmediates == [direct |-> {\h9E, \h9F}, indexed |-> {\hAE, \hAF},
                   extended |-> {\hBE, \hBF}, immediate |-> {\h83, \h8E, \hC3, \hCE}]

\* ORCC, ANDCC, CWAI, PSHS, PULS, EXG, TFR; but PSHU and PULU are unknown.
Masks    == {\h1A, \h1C, \h3C, \h34, \h35}
Pairs    == {\h1E, \h1F}
LeaOps   == \h30 .. \h33

TwoBytes == RelativeOps \cup RowsInMemory.direct \cup ImmediatesA \cup DirectsA
              \cup ImmediatesB \cup DirectsB \cup CallsAndD.direct
              \cup XAndImmediates.direct \cup Masks \cup Pairs

ThreeBytes == LongOps \cup RowsInMemory.extended \cup ExtendedsA \cup ExtendedsB
                \cup CallsAndD.extended \cup XAndImmediates.extended
                \cup CallsAndD.immediate \cup XAndImmediates.immediate

IndexedOps == RowsInMemory.indexed \cup IndexedA \cup IndexedB \cup CallsAndD.indexed
                \cup XAndImmediates.indexed \cup LeaOps

\* Second bytes after $10: by the bytes that follow.
Page10 == [one |-> {\h93, \h9C, \h9E, \h9F, \hDE, \hDF},
           two |-> {\h83, \hB3, \h8C, \h8E, \hBC, \hBE, \hBF, \hCE, \hFE, \hFF}
                     \cup \h21 .. \h2F,
           indexed |-> {\hA3, \hAC, \hAE, \hAF, \hEE, \hEF}]

Page11 == [one |-> {\h93, \h9C}, two |-> {\h83, \hB3, \h8C, \hBC}, indexed |-> {\hA3, \hAC}]

-----------------------------------------------------------------------------
\* Fault: a 16-bit offset is taken for one byte.
decode_indexed_short(pb) ==
  IF pb < 128 THEN 1
  ELSE CASE pb % 32 \in {\h08, \h09}      -> 2
         [] pb % 32 \in {\h0F, \h1F}      -> 3
         [] OTHER                         -> 1

\* Bytes of an indexed operand, with the postbyte.  The indirect bit is part of
\* the form here, and the forms relative to PC are not known.
decode_indexed(pb) ==
  IF pb < 128 THEN 1
  ELSE CASE pb % 32 = \h08                -> 2
         [] pb % 32 \in {\h09, \h0F, \h1F} -> 3
         [] OTHER                         -> 1

\* Bytes of the instruction at pc; an unknown opcode is a byte of data.
disasm_one(m, pc) ==
  LET op   == Read(m, pc)
      sub  == Read(m, Plus(pc, 1))
      page == IF op = \h10 THEN Page10 ELSE Page11
  IN  CASE op \in Inherents  -> 1
        [] op \in TwoBytes   -> 2
        [] op \in ThreeBytes -> 3
        [] op \in IndexedOps -> 1 + decode_indexed(sub)
        [] op \in {\h10, \h11} ->
             2 + (CASE sub \in page.one     -> 1
                    [] sub \in page.two     -> 2
                    [] sub \in page.indexed -> decode_indexed(Read(m, Plus(pc, 2)))
                    [] OTHER                -> 0)
        [] OTHER -> 1

\* Where the text says that a branch or an absolute jump goes.
Targets(m, pc) ==
  LET op  == Read(m, pc)
      sub == Read(m, Plus(pc, 1))
      wide == Word(m, Plus(pc, 1))
  IN  CASE op \in RelativeOps -> {Plus(pc, 2 + Signed(Half8, sub))}
        [] op \in LongOps     -> {Plus(pc, 3 + Signed(Half16, wide))}
        [] op \in {\h7E, \hBD} -> {wide}
        [] op = \h10 /\ sub \in \h21 .. \h2F ->
             {Plus(pc, 4 + Signed(Half16, Word(m, Plus(pc, 2))))}
        [] OTHER -> {}

-----------------------------------------------------------------------------
\* Instruction starts from pc up to end, or to the end of the address space.
linear_sweep(m, pc, end) ==
  LET from[p \in Nat] ==
        IF p >= end \/ p \notin Address THEN {} ELSE {p} \cup from[p + disasm_one(m, p)]
  IN  from[pc]

-----------------------------------------------------------------------------
(* The window: boundaries is the set of known instruction starts.          *)

floor(boundaries, pc) == Max({b \in boundaries : b <= pc})

Anchor(boundaries, pc) ==
  IF \E b \in boundaries : b <= pc THEN floor(boundaries, pc) ELSE pc

\* Fault: the walk starts at the anchor.
WalkFromAnchor(boundaries, pc, n_before) == Anchor(boundaries, pc)

\* The n_before'th boundary before the anchor, or as many as there are.
WalkStart(boundaries, pc, n_before) ==
  LET anchor == Anchor(boundaries, pc)
      earlier == {b \in boundaries : b < anchor}
      near == {b \in earlier : Cardinality({c \in earlier : c > b}) < n_before}
  IN  Min(near \cup {anchor})

\* Lines are walked until n_after follow the one at pc.
Walk(m, start, pc, n_after, limit) ==
  LET walk[lines \in Seq(Nat)] ==
        LET next == Last(lines) + disasm_one(m, Last(lines))
            done == \E k \in DOMAIN lines : lines[k] = pc /\ Len(lines) >= k + n_after
        IN  IF next \notin Address \/ done \/ Len(lines) >= limit THEN lines
            ELSE walk[Append(lines, next)]
  IN  walk[<<start>>]

Larger(p, q)  == IF p > q THEN p ELSE q
Smaller(p, q) == IF p < q THEN p ELSE q

disasm_window(m, pc, boundaries, n_before, n_after) ==
  LET start == WalkStart(boundaries, pc, n_before)
      lines == Walk(m, start, pc, n_after, n_before + n_after + 1 + 256)
  IN  IF pc \notin Range(lines) THEN <<pc>>
      ELSE LET k == CHOOSE k \in DOMAIN lines : lines[k] = pc
           IN  SubSeq(lines, Larger(1, k - n_before), Smaller(k + n_after, Len(lines)))
=============================================================================
