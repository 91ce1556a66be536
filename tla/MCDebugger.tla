---------------------------- MODULE MCDebugger ----------------------------
(* Programs of four instructions.                                          *)
EXTENDS Debugger

Call(to) == [op |-> "call", to |-> to]
Return   == [op |-> "return", to |-> Address]
Flow(to) == [op |-> "flow", to |-> to]

MCHandler == [kind \in Interrupts |-> Size - 1]

\* A main loop at 0 and 1 that calls a routine at 2, which goes anywhere, the return
\* address included, or calls itself; 3 returns, from the routine or an interrupt.
MCPrograms ==
  {[a \in Address |-> <<Call({2}), Flow({0}), i, Return>>[a + 1]] :
     i \in {Call({2, 3}), Flow({1, 2, 3})}}
=============================================================================
