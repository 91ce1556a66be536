-------------------------------- MODULE Acia --------------------------------
(***************************************************************************)
(* Mc6850Dev of src/src/io.rs: the console's serial interface.  The host   *)
(* deposits bytes in a receive FIFO; the guest reads them and transmits,   *)
(* which takes no time.  Registers are bytes, sets of the names that the   *)
(* bits have in CC: E F H I N Z V C from bit 7 to bit 0.                   *)
(*                                                                         *)
(* Where the output goes, local echo, the stored receive watermark and the *)
(* stored divider field, none of which anything else depends on, are left  *)
(* out.                                                                    *)
(***************************************************************************)
EXTENDS Integers, Sequences

CONSTANTS
  Chars,      \* bytes that are sent and received
  RxMax,      \* capacity of the receive FIFO (16 in the code)
  MaxHold     \* greatest number of polls that the line is held

Acia ==
  [ rx      : UNION {[1 .. n -> Chars] : n \in 0 .. RxMax},
    rdrf    : BOOLEAN,      \* a received byte is ready
    overrun : BOOLEAN,      \* a received byte was dropped
    tdre    : BOOLEAN,      \* ready to transmit
    reset   : BOOLEAN,      \* in master reset
    rie     : BOOLEAN,      \* receive interrupt enabled
    tie     : BOOLEAN,      \* transmit interrupt enabled
    hold    : 0 .. MaxHold,
    held    : 0 .. MaxHold ]

New ==
  [ rx |-> <<>>, rdrf |-> FALSE, overrun |-> FALSE, tdre |-> TRUE, reset |-> FALSE,
    rie |-> FALSE, tie |-> FALSE, hold |-> 0, held |-> 0 ]

\* Fault: the FIFO takes one byte too many.
AcceptsOneMore(a) == ~ a.reset /\ Len(a.rx) <= RxMax

\* The FIFO takes a byte from the host.
Accepts(a) == ~ a.reset /\ Len(a.rx) < RxMax

\* The host deposits a byte.
Receive(a, char) ==
  CASE Accepts(a) -> [a EXCEPT !.rx = Append(@, char), !.rdrf = TRUE]
    [] a.reset    -> a
    [] OTHER      -> [a EXCEPT !.overrun = TRUE]

Level(a) == (a.rdrf /\ a.rie) \/ (a.tdre /\ a.tie)

Status(a) ==
  {b \in {"C", "V", "H", "E"} :
     CASE b = "C" -> a.rdrf
       [] b = "V" -> a.tdre
       [] b = "H" -> a.overrun
       [] b = "E" -> Level(a)}

\* Fault: the byte received last is answered first.
DataNewest(a) == IF a.rx = <<>> THEN {} ELSE a.rx[Len(a.rx)]

\* What a read of the data register answers.
Data(a) == IF a.rx = <<>> THEN {} ELSE Head(a.rx)

\* Fault: a byte that waits behind the one read is not reported.
AfterReadDataDry(a) ==
  [a EXCEPT !.rx = IF @ = <<>> THEN @ ELSE Tail(@), !.rdrf = FALSE, !.overrun = FALSE]

AfterReadData(a) ==
  LET rest == IF a.rx = <<>> THEN <<>> ELSE Tail(a.rx)
  IN  [a EXCEPT !.rx = rest, !.rdrf = rest # <<>>, !.overrun = FALSE]

\* Bits 1 and 0: 11 is master reset; bits 6 and 5: 01 enables the transmit
\* interrupt; bit 7 enables the receive interrupt.
WriteControl(a, byte) ==
  LET set == [a EXCEPT !.rie = "E" \in byte, !.tie = "F" \notin byte /\ "H" \in byte]
  IN  IF {"C", "V"} \subseteq byte
      THEN [set EXCEPT !.reset = TRUE, !.tdre = FALSE, !.rdrf = FALSE,
                       !.overrun = FALSE, !.rx = <<>>]
      ELSE [set EXCEPT !.reset = FALSE, !.tdre = @ \/ a.reset]

\* A transmitted byte goes out at once, unless in master reset.
Transmits(a) == ~ a.reset

WriteData(a) == IF Transmits(a) THEN [a EXCEPT !.tdre = TRUE] ELSE a

\* irq_lines: the level, held for some polls after it has gone.
Line(a) == Level(a) \/ a.held > 0

\* Fault: a line that is held is held anew.
AfterPollAgain(a) == [a EXCEPT !.held = IF Line(a) THEN a.hold ELSE 0]

AfterPoll(a) ==
  [a EXCEPT !.held = CASE Level(a) -> a.hold
                       [] ~ Level(a) /\ @ > 0 -> @ - 1
                       [] OTHER -> 0]

=============================================================================
