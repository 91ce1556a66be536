------------------------------- MODULE Timer -------------------------------
(***************************************************************************)
(* TimerDev of src/src/timer.rs: a periodic countdown that ticks when the  *)
(* CPU polls the interrupt lines, so once per instruction.  CTRL is a set  *)
(* of bit names as in module Acia.                                         *)
(***************************************************************************)
EXTENDS Integers

Radix == 256       \* values of a byte

CONSTANT
  MaxPeriod       \* greatest reload value and counter (2^16 - 1 in the code)

Timer ==
  [ ctrl    : SUBSET {"C", "V", "Z"},    \* RUN, IRQ_EN and FIRQ
    reload  : 0 .. MaxPeriod,
    counter : 0 .. MaxPeriod,
    pending : BOOLEAN ]

New == [ctrl |-> {}, reload |-> 0, counter |-> 0, pending |-> FALSE]

Running(t) == "C" \in t.ctrl

Status(t) == t.ctrl \cup (IF t.pending THEN {"N"} ELSE {})

\* Fault: writing bit 4 starts the period over but leaves PENDING.
WriteControlKeeps(t, byte) ==
  [t EXCEPT !.ctrl = byte \cap {"C", "V", "Z"},
            !.counter = IF "I" \in byte THEN t.reload ELSE @]

\* Bit 4 clears PENDING; setting RUN starts a counter that is at zero.
WriteControl(t, byte) ==
  [t EXCEPT !.ctrl = byte \cap {"C", "V", "Z"},
            !.pending = @ /\ "I" \notin byte,
            !.counter = IF ~ Running(t) /\ "C" \in byte /\ @ = 0 THEN t.reload ELSE @]

\* The embedder's own access: set_reload, start, stop, set_irq_enable, set_firq.
SetReload(t, n) == [t EXCEPT !.reload = n, !.counter = IF @ = 0 THEN n ELSE @]

Start(t) == [t EXCEPT !.ctrl = @ \cup {"C"}, !.counter = IF @ = 0 THEN t.reload ELSE @]

Switch(t, bit, on) == [t EXCEPT !.ctrl = IF on THEN @ \cup {bit} ELSE @ \ {bit}]

\* A number with one of its two bytes replaced, the low one being byte 0.
Weight(k) == IF k = 0 THEN 1 ELSE Radix
WithByte(n, k, byte) == n + (byte - ((n \div Weight(k)) % Radix)) * Weight(k)

WriteReload(t, k, byte)  == [t EXCEPT !.reload = WithByte(@, k, byte)]
WriteCounter(t, k, byte) == [t EXCEPT !.counter = WithByte(@, k, byte)]

\* tick
Tick(t) ==
  IF ~ Running(t) THEN t
  ELSE IF t.counter > 1 THEN [t EXCEPT !.counter = @ - 1]
  ELSE [t EXCEPT !.pending = TRUE, !.counter = t.reload]

\* The input that the timer asserts, after the tick.
Asserts(t) ==
  IF t.pending /\ "V" \in t.ctrl THEN {IF "Z" \in t.ctrl THEN "firq" ELSE "irq"} ELSE {}

=============================================================================
