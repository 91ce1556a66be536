-------------------------- MODULE MCCallDiscipline --------------------------
(* A stack of eight cells and one saved byte: room for two whole frames or *)
(* for one among calls and pushes.                                         *)
EXTENDS CallDiscipline

MCBits  == {"E", "F", "I"}
MCData  == {{"E"}}
MCLists == {{"cc", "regs"}}
MCBlocks == {{7}}
MCCode  == {<<{}, {"I"}>>}
MCVec   == [k \in Software \cup Inputs \cup {"reset"} |->
              IF k = "reset" THEN <<{}, {}>> ELSE <<{"F"}, {}>>]

\* Programs unmask IRQ and mask it again; F stays set, as it is after a reset.
MCMasks == {{"F"}, {"F", "I"}}

\* Programs that unmask FIRQ as well.
MCOpenMasks == {{}, {"I"}}

=============================================================================
