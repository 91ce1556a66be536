------------------------------ MODULE Delivery ------------------------------
(***************************************************************************)
(* The way of an interrupt: the console and the timer behind an IoBus, the *)
(* CPU that polls them after every instruction, and a guest program that   *)
(* drives them.  The program is a constant; it stands for the drivers that *)
(* run on the emulator, and reads and writes the devices one instruction   *)
(* at a time.  The host feeds the console between any two instructions.    *)
(***************************************************************************)
EXTENDS Cpu

CONSTANTS
  Guest,        \* the program: an instruction per address
  Main,         \* the addresses of it that make its main loop
  Handler,      \* those of the interrupt handler
  Reloads,      \* periods that the embedder sets up
  Chars, RxMax, MaxHold, MaxPeriod,
  MaxFed        \* BOUND on the bytes that the host feeds

VARIABLES
  cpu,
  acia,
  timer,
  fed,          \* bytes fed so far, those dropped included
  taken,        \* history: the bytes that the console took, since its last reset
  sent,         \* history: the bytes that it transmitted, likewise
  served        \* history: the handler has found something to do since its entry

A == INSTANCE Acia
T == INSTANCE Timer

vars == <<cpu, acia, timer, fed, taken, sent, served>>

\* A device access is an access through the bus to an address the device owns.
Ports == {"status", "data", "control", "transmit", "timer", "reload", "counter"}

Instruction ==
  [op : {"load"}, port : {"status", "data", "timer"}, next : Code]
    \cup [op : {"store"}, port : {"control", "timer"}, byte : Byte, next : Code]
    \cup [op : {"store"}, port : {"reload", "counter"}, byte : 0 .. 255, next : Code]
    \cup [op : {"transmit", "work"}, next : Code]
    \cup [op : {"branch"}, bit : Bits, to : Code, next : Code]
    \cup [op : {"orcc", "andcc"}, byte : Byte, next : Code]
    \cup [op : {"rti"}]

DeliveryAssumption ==
  /\ DOMAIN Guest = Code
  /\ \A a \in Code : Guest[a] \in Instruction
  /\ Main \subseteq Code
  /\ Vec["reset"] \in Code /\ Vec["irq"] \in Code
  /\ Chars \subseteq Byte
  /\ Reloads \subseteq 0 .. MaxPeriod
  /\ Bits = {"E", "F", "H", "I", "N", "Z", "V", "C"}
  /\ RxMax \in Nat \ {0}
  /\ MaxHold \in Nat /\ MaxFed \in Nat
  /\ MaxPeriod \in Nat /\ (MaxPeriod + 1) % 256 = 0      \* whole bytes

ASSUME DeliveryConstants == DeliveryAssumption

(***************************************************************************)
(* What makes the program a driver.  The handler is entered by IRQ alone,  *)
(* keeps it masked and leaves the control register of the console to the   *)
(* main program.  It reads the data register when the status it has just   *)
(* read tells of a byte, and transmits that byte.                          *)
(***************************************************************************)
Reads(port) == {a \in Code : Guest[a].op = "load" /\ Guest[a].port = port}
Transmits   == {a \in Code : Guest[a].op = "transmit"}
Tests       == {a \in Code : /\ Guest[a].op = "branch" /\ Guest[a].bit = "C"
                             /\ Guest[a].to \in Reads("data") /\ Guest[a].next \notin Reads("data")}

\* Where an instruction goes on.
Successors(a) ==
  CASE Guest[a].op = "rti"    -> {}
    [] Guest[a].op = "branch" -> {Guest[a].to, Guest[a].next}
    [] OTHER                  -> {Guest[a].next}

DriverAssumption ==
  /\ Handler \subseteq Code /\ Vec["irq"] \in Handler /\ Vec["reset"] \notin Handler
  /\ Vec["irq"] \notin Reads("data") \cup Transmits \cup Tests
  /\ \A a \in Code :
       /\ Successors(a) \subseteq IF a \in Handler THEN Handler \ {Vec["irq"]} ELSE Code \ Handler
       /\ Guest[a].op \in {"rti", "transmit"} \/ a \in Reads("data") => a \in Handler
       /\ Guest[a].op = "store" /\ Guest[a].port = "control" => a \notin Handler
       /\ Guest[a].op = "andcc" =>
            "F" \in Guest[a].byte /\ (a \in Handler => "I" \in Guest[a].byte)
  /\ \A a \in Code : \A b \in Successors(a) :
       /\ b \in Transmits <=> a \in Reads("data")
       /\ b \in Reads("data") => a \in Tests
       /\ b \in Tests => a \in Reads("status")

ASSUME DriverConstants == DriverAssumption

Here == Guest[cpu.pc]
Next1 == Fetched(cpu, Here.next)

-----------------------------------------------------------------------------
(* IoBus::irq_lines and the tail of Cpu::step.                             *)

\* Fault: the lines of the first device hide those of the others.
AssertedFirst(a, t) == IF A!Line(a) THEN {"irq"} ELSE {}

\* The lines of all devices, the timer's after its tick.
Asserted(a, t) == (IF A!Line(a) THEN {"irq"} ELSE {}) \cup T!Asserts(t)

\* An instruction that leaves the CPU m and the devices a and t.  (Finish in two
\* halves: bound by \E, the first one is evaluated once.)
Completes(m, a, t) ==
  /\ acia' = A!AfterPoll(a)
  /\ timer' = T!Tick(t)
  /\ \E polled \in {Poll(m, Asserted(a, T!Tick(t)))} : cpu' = Service(polled)

\* The instruction does not serve a device; an interrupt taken after it is the
\* start of a new round of the handler.
Unserved ==
  /\ served' = (served /\ cpu'.pc # Vec["irq"])
  /\ UNCHANGED <<fed, taken, sent>>

-----------------------------------------------------------------------------
(* Instructions of the guest.                                              *)

Loaded(byte) == Compute(Next1, [cpu.regs EXCEPT ![1] = byte], {})

LoadStatus ==
  /\ Here.op = "load" /\ Here.port \in {"status", "timer"}
  /\ Completes(Loaded(IF Here.port = "status" THEN A!Status(acia) ELSE T!Status(timer)),
               acia, timer)
  /\ Unserved

LoadData ==
  /\ Here.op = "load" /\ Here.port = "data"
  /\ Completes(Loaded(A!Data(acia)), A!AfterReadData(acia), timer)
  /\ served' = TRUE
  /\ UNCHANGED <<fed, taken, sent>>

Transmit ==
  /\ Here.op = "transmit"
  /\ Completes(Next1, A!WriteData(acia), timer)
  /\ sent' = IF A!Transmits(acia) THEN Append(sent, cpu.regs[1]) ELSE sent
  /\ UNCHANGED <<fed, taken, served>>

StoreControl ==
  /\ Here.op = "store" /\ Here.port = "control"
  /\ LET a == A!WriteControl(acia, Here.byte)
     IN  /\ Completes(Next1, a, timer)
         /\ IF a.reset THEN taken' = <<>> /\ sent' = <<>> ELSE UNCHANGED <<taken, sent>>
  /\ UNCHANGED <<fed, served>>

StoreTimer ==
  /\ Here.op = "store" /\ Here.port \in {"timer", "reload", "counter"}
  /\ Completes(Next1, acia,
               CASE Here.port = "timer"   -> T!WriteControl(timer, Here.byte)
                 [] Here.port = "reload"  -> T!WriteReload(timer, 0, Here.byte)
                 [] Here.port = "counter" -> T!WriteCounter(timer, 0, Here.byte))
  /\ served' = TRUE
  /\ UNCHANGED <<fed, taken, sent>>

\* A test of a bit of A and the branch on its result.
Branch ==
  /\ Here.op = "branch"
  /\ Completes(Fetched(cpu, IF Here.bit \in cpu.regs[1] THEN Here.to ELSE Here.next),
               acia, timer)
  /\ Unserved

MaskOrWork ==
  /\ Here.op \in {"orcc", "andcc", "work"}
  /\ Completes(CASE Here.op = "orcc"  -> Orcc(Next1, Here.byte)
                 [] Here.op = "andcc" -> Andcc(Next1, Here.byte)
                 [] OTHER             -> Next1,
               acia, timer)
  /\ Unserved

Return ==
  /\ Here.op = "rti"
  /\ Completes(Rti(cpu), acia, timer)
  /\ Unserved

Step ==
  \/ LoadStatus \/ LoadData \/ Transmit \/ StoreControl \/ StoreTimer
  \/ Branch \/ MaskOrWork \/ Return

-----------------------------------------------------------------------------
(* The host.                                                               *)

Feed ==
  /\ fed < MaxFed
  /\ fed' = fed + 1
  /\ \E char \in Chars :
       /\ acia' = A!Receive(acia, char)
       /\ taken' = IF A!Accepts(acia) THEN Append(taken, char) ELSE taken
  /\ UNCHANGED <<cpu, timer, sent, served>>

\* The embedder sets the timer up before it runs the guest, and may leave it running.
\* BOUND: its period only once.
SetTimer ==
  /\ cpu = PowerOn
  /\ \/ timer.reload = 0 /\ \E n \in Reloads : timer' = T!SetReload(timer, n)
     \/ timer' = T!Start(timer)
     \/ \E on \in BOOLEAN : timer' \in {T!Switch(timer, "V", on), T!Switch(timer, "Z", on)}
     \/ timer' = T!Switch(timer, "C", FALSE)
  /\ UNCHANGED <<cpu, acia, fed, taken, sent, served>>

Init ==
  /\ cpu = PowerOn
  /\ \E n \in 0 .. MaxHold : acia = [A!New EXCEPT !.hold = n]
  /\ timer = T!New
  /\ fed = 0 /\ taken = <<>> /\ sent = <<>> /\ served = FALSE

Next == Step \/ Feed \/ SetTimer

\* The embedder's run loop calls step for ever; the host need not feed.
Spec == Init /\ [][Next]_vars /\ WF_vars(Step)

-----------------------------------------------------------------------------
(* Properties.                                                             *)

\* The machine and the devices keep to their ranges.
TypeOK ==
  /\ cpu \in Machine
  /\ acia \in A!Acia
  /\ timer \in T!Timer
  /\ fed \in 0 .. MaxFed

\* The echo of the guest is what the console took, in order, without a byte
\* lost or doubled on the way, and at most the FIFO and one byte behind.
EchoInOrder ==
  /\ Len(sent) <= Len(taken)
  /\ sent = SubSeq(taken, 1, Len(sent))
  /\ Len(taken) - Len(sent) <= RxMax + 1

\* Every byte taken raises an interrupt in time: in the end all are echoed.
AllEchoed == <>[](sent = taken)

\* Interrupts leave time for the main program, again and again.
MainGoesOn == []<>(cpu.pc \in Main)

\* Every expiry of the timer is acknowledged by the guest.
ExpiryServed == [](timer.pending => <>~ timer.pending)

\* Interrupts are latched while the handler runs, so that a request it serves
\* enters it once more, to find nothing.  That happens at most once: a round of
\* the handler that found nothing to do is followed by another one only for a
\* request that is still asserted.
SpuriousOnce ==
  [][Return /\ cpu'.pc = Vec["irq"] /\ ~ served => Asserted(acia, timer') # {}]_vars

=============================================================================
