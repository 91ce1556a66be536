----------------------------- MODULE MCListing -----------------------------
EXTENDS Listing

Program(base, bytes, x, s, spans) ==
  [base |-> base, bytes |-> bytes, x |-> x, s |-> s, a |-> \h4C, b |-> \h01, spans |-> spans]

\* LDA #$4C, STA $040A, LDA #$86, STA $040B, NOP, NOP, NOP, BRA *: the second
\* store turns a NOP into an instruction of two bytes.
Modifying ==
  Program(\h0400, <<\h86, \h4C, \hB7, \h04, \h0A, \h86, \h86, \hB7, \h04, \h0B,
                    \h12, \h12, \h12, \h20, \hFE>>, \h0400, \h2000,
          {<< >>, <<\h040A, \h040F>>, <<\h040B, \h040A>>})

\* BRA over a byte of data that a sweep takes for LDX # with two bytes of code.
DataInCode ==
  Program(\h0500, <<\h20, \h01, \h8E, \h4C, \h5C, \h12, \h12, \h20, \hFE>>, 0, \h2000, {})

\* JSR ,X, JSR A,X with A changed by the first, LBSR, RTS and BRA *.
Calling ==
  Program(\h0600, <<\hAD, \h84, \h4F, \hAD, \h86, \h17, \h00, \h02, \h20, \hFE, \h39>>,
          \h060A, \h2000, {})

\* NOP, LBRA over a NOP, and LDA # whose operand would lie past the end.
AtTop == Program(\hFFFA, <<\h12, \h16, \h00, \h01, \h12, \h86, \h55>>, 0, \h2000,
                 {<<\hFFFE, \h0001>>})

\* PSHS A,B with the stack in the code that follows: the pushed A is an INCA,
\* and the pushed B, below it, a byte that is not an instruction.
StackInCode ==
  Program(\h0700, <<\h34, \h06, \h12, \h86, \h00, \h12, \h20, \hFE>>, 0, \h0705,
          {<<\h0703, \h0705>>})

\* Every opcode, second opcode, and postbyte, each alone.
Alone(bytes) == Program(\h0440, bytes \o <<\h02, \h84, \h12>>, \h3000, \h2000, {})

Postbytes == {0, \h1F, \h7F} \cup \h80 .. \hFF

EveryInstruction ==
  {Alone(<<op>>) : op \in 0 .. 255 \ {\h10, \h11}}
    \cup {Alone(<<page, sub>>) : page \in {\h10, \h11}, sub \in 0 .. 255}
    \cup {Alone(<<op, pb>>) : op \in {\h30, \h6E, \hA6, \hAD, \hED}, pb \in Postbytes}
    \cup {Alone(<<op, pb>>) : op \in {\h1E, \h1F}, pb \in {\h01, \h15, \h51, \h89, \hAB, \h77}}
    \cup {Alone(<<op, pb>>) : op \in {\h34, \h35}, pb \in {\h00, \h06, \h7F, \h80, \hFF}}
    \cup {Alone(<<\h10, \hAE, pb>>) : pb \in Postbytes}

SomePrograms == {Modifying, DataInCode, Calling, AtTop, StackInCode} \cup EveryInstruction

\* JSR [2,X], with the pointer behind the code.
CallingThroughTable ==
  {Program(\h0600, <<\hAD, \h98, \h02, \h20, \hFE, \h39, \h06, \h05>>, \h0604, \h2000, {})}

SomeWindows == {<<0, 0>>, <<2, 3>>}
=============================================================================
