----------------------------- MODULE MCDelivery -----------------------------
(* A guest that echoes what the console receives, and acknowledges a       *)
(* periodic timer, both in its IRQ handler.                                *)
EXTENDS Delivery

\* Words are told apart by one byte: the bits of a small number.
At(n) == <<{}, {b \in {"C", "V", "Z", "N", "I"} :
                  (n \div (CASE b = "C" -> 1 [] b = "V" -> 2 [] b = "Z" -> 4
                             [] b = "N" -> 8 [] b = "I" -> 16)) % 2 = 1}>>

LoadFrom(port, next)    == [op |-> "load", port |-> port, next |-> At(next)]
Write(port, byte, next) == [op |-> "store", port |-> port, byte |-> byte, next |-> At(next)]
Test(bit, to, next)     == [op |-> "branch", bit |-> bit, to |-> At(to), next |-> At(next)]
Mask(op, byte, next)    == [op |-> op, byte |-> byte, next |-> At(next)]

\* The main program, at 0: master reset, receive interrupt on, period 20, timer on,
\* unmask; then work, with IRQ masked for a while.  The handler, at 10: the byte
\* that the console has, if any, and the timer's acknowledgement, if it is due.
Program ==
  << Write("control", {"C", "V"}, 1),
     Write("control", {"E", "C"}, 2),
     Write("reload", 20, 3),
     Write("timer", {"C", "V"}, 4),
     Mask("andcc", Bits \ {"I"}, 5),
     [op |-> "work", next |-> At(6)],
     Mask("orcc", {"I"}, 7),
     [op |-> "work", next |-> At(8)],
     Mask("andcc", Bits \ {"I"}, 5),
     [op |-> "work", next |-> At(9)],
     LoadFrom("status", 11),
     Test("C", 12, 14),
     LoadFrom("data", 13),
     [op |-> "transmit", next |-> At(14)],
     LoadFrom("timer", 15),
     Test("N", 16, 17),
     Write("timer", {"I", "C", "V"}, 17),
     [op |-> "rti"] >>

MCCode == {At(n) : n \in 0 .. Len(Program) - 1}
MCMain == {At(n) : n \in 5 .. 8}
MCHandler == {At(n) : n \in 10 .. 17}
MCGuest == [w \in MCCode |-> Program[CHOOSE i \in DOMAIN Program : At(i - 1) = w]]

MCVec ==
  [kind \in {"nmi", "firq", "irq", "reset"} |->
     CASE kind = "irq" -> At(10) [] kind = "reset" -> At(0) [] OTHER -> At(31)]

MCChars == {{}, {"C"}}

=============================================================================
