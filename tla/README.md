# em6809-core in TLA+

A verification development for `em6809-core`, an MC6809 emulator core with
memory-mapped devices, a debugger and a boot-script runner. It models the parts
of the crate whose behaviour is a matter of *order*, *state* and *boundaries*,
checks them with TLC on small instances and proves what matters most for every
instance with TLAPS. Beside those it models the arithmetic of the core and its
machine code, and what the disassembler has to know of it.

Paths are relative to the repository (`src/` below is its root, so the CPU is
`src/src/cpu.rs`).

## 1. Inventory of the system

The crate is a library without threads of its own. An embedder (a CLI, a GUI, a
plugin) owns a `Cpu` and a `Bus`, calls `Cpu::step` in a loop, and between two
steps feeds input, requests interrupts, edits breakpoints or resets. All
concurrency is therefore interleaving at instruction boundaries; inside a step
the order is fixed: fetch and execute, poll `bus.irq_lines()` (which also
*ticks* the devices), serve at most one interrupt.

| Component | Source | State | Operations | Hard to test | What makes it correct |
|---|---|---|---|---|---|
| CPU, control | `cpu.rs` | registers, three interrupt latches, cycles | `step`, `reset`, `request_*`, `set_pc` | interrupts at any boundary, nested, several at once; S wrapping inside a frame | RTI undoes every entry; a request is served exactly by entering its handler; returns resume their callers |
| CPU, arithmetic and addressing | `cpu.rs` | registers, flags, memory | some 300 opcodes on three pages | flags that one instruction leaves and another, several steps later, takes in; ends of the ranges; index registers that step; wrap at 64 K | loops over numbers of many bytes compute the number; branches go by the relation they are named for |
| Shadow call stack | `debug.rs` | frames | pushed by calls and entries, popped by RTS, PULS PC and RTI | heuristics that drop frames; interrupt frames between call frames | the frames are the activations the program is in |
| Step over / out | `cpu.rs` | a target and a count, for the length of one call | `step_over`, `step_out` | recursion, interrupts while running, limits, breakpoints under way | stop at the caller; go past a breakpoint only as its condition or ignore count says; always end |
| Breakpoints | `debug.rs` | list, next id, hit and ignore counters | `add`, `remove`, setters, `check`, `should_break` | several at one address | each counts its own hits; none hides another |
| Condition language | `debug.rs` (`cond`) | none | `evaluate` | precedence, short circuit, overflow, division by zero | agrees with its grammar |
| Instruction boundaries | `debug.rs` | ordered set of addresses | `insert`, `floor`, `ceil`, `linear_sweep` | wrap at 64 K, overlap of recorded and swept boundaries | listing hits every recorded boundary |
| Bus, RAM, write tracking | `bus.rs` | 64 K bytes; dirty addresses, span | `read8`, `read8_fetch`, `write8`, `irq_lines`, `take_dirty_addrs` | wrapped spans; taking between steps | no write in the span is missed |
| IoBus | `io.rs` | inner bus, device list, watches | routing, `ensure_*`, line aggregation | overlapping devices, moving them while in use | each address has one owner; lines are the union |
| ACIA console | `io.rs` | receive FIFO, status bits, control fields, hold countdown | host `feed_bytes`; guest reads and writes; poll | FIFO limit, overrun, master reset under way, level against latch | bytes in order; a loss is visible; every byte raises |
| Block device | `io.rs` | image, LBA, count, buffer, index, status, pulses | guest command protocol, host image changes | command in mid-transfer, error in one sector of several, limits | transfers move the sectors asked for; errors are seen |
| GPIO | `io.rs` | out, dir, inputs | guest access, host inputs, broadcast | resize with latched values | outputs masked to width |
| Timer | `timer.rs` | control, reload, counter, pending | guest access, tick in `irq_lines` | reload 0, write while running, missed ticks | one request per period; acknowledgement is not lost |
| MMU | `mmu.rs` | task registers, page map, attributes, fault | translated reads, writes, fetches, register access | map change under the running program, protection per access kind | an access reaches the mapped cell or faults |
| Boot script | `bootscript.rs` | triggers, step count, counters of missing devices | `on_pre_step`, `on_post_step`, actions on devices and CPU | several triggers due at once, firing again | each action runs when its trigger is due |
| Loaders | `loader.rs` | none | S-records, raw bytes; into a memory or through a bus | an image that reaches devices or registers, goes past the top, or is malformed half-way | what is stored is noticed and protected as a guest's store is |
| Configuration | `config.rs` | none | directives, presets | order of `task`, `mode` and what they select; an error half-way | the map and protections that the machine starts with |
| Disassembler | `disasm.rs` | none | `disasm_one`, `disasm_window` | instruction lengths must be those the CPU consumes; a listing of a program that changes | lengths and targets are the core's; the window has PC on a line |
| Dump helpers | `debug.rs` | none | printing | | not modelled |


## 2. How the parts interact, and what the modules do with that

An embedder owns everything and calls in. Per instruction, `Cpu::step` reads and
writes through the `Bus`; an `IoBus` routes the access to the device that owns
the address, or to the memory behind it. After the instruction `step` asks the
bus for its three interrupt lines, which ticks the timer and the hold
countdowns, ORs them into three latches, and enters at most one handler. The
debugger loops (`step_over`, `step_out`) wrap `step` and use the shadow call
stack, which `step` maintains, and the breakpoints. So the modules form
three groups, about control, about devices, and about machine code:

```
 CallStack          abstract: what a call stack is          Disk   abstract
   ^                                                         ^
   |  implements                                             |  implements
 CallDiscipline   Debugger                                 BlockDriver
   |                                                         | EXTENDS
   | EXTENDS                                               BlockDev
 Cpu  <--- AnyProgram
   ^
   | EXTENDS
 Delivery ---- INSTANCE ---> Acia, Timer

 Boot --- EXTENDS ---> Startup --- EXTENDS ---> Mmu


 Arithmetic  loops of instructions on numbers of many bytes
   ^      \
   |       \ EXTENDS
   |        Alu  <--- EXTENDS --- Machine  <--- EXTENDS --- Disasm <--- Listing
   |  implements                    ^
   +----------- Routines -----------+ EXTENDS
```

`Cpu`, `Machine`, `Acia`, `Timer`, `BlockDev` and `Mmu` are operators on a record: one operator for
every kind of instruction, register access or poll, from the state before it to the
state after. `AnyProgram`, `CallDiscipline`, `Delivery`, `BlockDriver`, `Boot`, `Routines` and
`Listing` hold the variables and are the specifications; each lets a different environment loose
on these operators. That way the code is stated once and every environment,
proof and fault uses the same definition.

A definition whose comment begins with "Fault:" is not used by any specification.
It is the definition that follows it with a plausible mistake in it, and stands
there to show that the properties notice: put in the place of the right one, it
makes TLC report the property that `PROJECT.json` lists with it under `mutants`.

| Module | Models | State and actions against the code |
|---|---|---|
| `Cpu` | `cpu.rs`: stack, masks, latches, entries, returns, reset; `debug.rs`: `ShadowCallStack` | `Machine` is `struct Cpu` and its memory: `latch` the set of `*_pending` flags that are true, `frames` the `Vec` of `CallFrame` (without `call_site` and `target`, which only a UI shows). `Push`/`Pull` are the runs of `push8`/`pull8`; `Finish` is the tail of `step`: `Poll` the OR into the latches, `Service` the if-chain of NMI, FIRQ, IRQ |
| `AnyProgram` | any program whatever | one action per kind of instruction, with the tail of `step`; `DoRequest`, `DoReset` for the host. Which instruction is at PC is a choice |
| `CallDiscipline` | programs that use their stack as the comment at `src/src/debug.rs` on the shadow stack supposes | the same actions with guards that keep S and stores inside the innermost activation; the history `acts` records the activations the program really is in |
| `CallStack` | nothing in the code: what a debugger's user understands by a call stack | implemented by `CallDiscipline` |
| `Debugger` | `step_over`, `step_out`, `BreakpointSet` | `run` holds the locals of the loop in progress; `GiveUp`, `Arrive`, `Halt`, `Advance` are the ways one iteration goes; edits of breakpoints, and a host's own calls of `should_break` (`Ask`), happen between commands, as `&mut Cpu` enforces. What a condition evaluates to (true, false, an error) is a choice per evaluation; `tally` is a history of what the command went past |
| `BlockDev` | `BlockDev` in `io.rs` | every register access and the poll; a command is a name, a sector address is a number of `Digits` digits |
| `BlockDriver` | a guest and a host of the device | the guest keeps to the protocol of the code and of `src/tests/blockdev.rs`, which is wider than the header comment's (section 5): it reads, stages or streams one sector or several, abandons transfers, polls STATUS; every write of a sector may fail |
| `Disk` | nothing in the code: what a block device promises | implemented by `BlockDriver` |
| `Acia`, `Timer` | `Mc6850Dev` (`io.rs`), `TimerDev` (`timer.rs`) | register reads and writes, `receive`, `irq_lines`; the timer's setters |
| `Delivery` | `IoBus::irq_lines`, the tail of `step`, a guest with an IRQ handler | one guest instruction per action, each with the poll of both devices and the entry that may follow; the embedder sets the timer up beforehand (`SetTimer`); the host feeds bytes at any boundary. The guest is a constant; `DriverAssumption` says what makes it a driver, and `Handler` which part of it is entered by IRQ |
| `Mmu` | `Mc6829` | `AfterRead`, `AfterWrite` and `Value` are `read8`, `read8_fetch` and `write8`; the pairs `map_user`, `map_sys` and `attr_user`, `attr_sys` are one function each of the context (mode and task). Bytes are numbers here, since they select frames and tasks |
| `Startup` | `config.rs` and `loader.rs` | a text is a sequence of lines, already read: directives on an MMU, records of bytes, lines that are refused; the presets are such texts |
| `Boot` | `BootSequencer`, and of `IoBus` the routing and the memory watch | before the run the embedder may call `Configure`, `LoadImage` or `LoadPhysical`; `call` is what is left of the text of such a call, of which `Obey` follows a directive, `StoreByte` stores a byte of a record through the bus as the guest's stores go, and `Refuse` ends at an error, what came before standing; then both hooks walk the script in order, one trigger that is due per `Fire`; `bus` is any of the four buses that `bus_has_mmu` names; `Compute`, `Load`, `Store` are a guest that runs, reads and writes anywhere, registers included; `missing` are the `*_missing_count`s |
| `Alu` | `add8_flags` to `sub16_flags`, `set_nz8`, DAA, MUL, SEX, shifts, `cond_eval` | an operator returns the result and the condition codes. The width of an operand is a parameter (`Half8`, `Half16`), so that one definition serves both widths and can be proved about for all |
| `Arithmetic` | guest loops over numbers of several bytes (ADC, SBC, CMP, ROL, ROR, INC, DAA) | one action per instruction of the loop; what the routine computes is stated as on paper, with a set of columns that carry |
| `Machine` | `step` on machine code: `ea_indexed`, every opcode of the three pages but RTI, CWAI, SWI, SWI2, SWI3 and SYNC | a machine is registers and a sparse memory; opcodes are decoded by row and column where the code has an arm for each; AND, OR and EOR are done bit by bit, so that they can be proved about. Undefined opcodes and the forms of `ea_indexed` that it does not decode do what the code does with them |
| `Routines` | the loops of `Arithmetic` as bytes | `Execute` is one `step`; implements `Arithmetic`, the memory between X and its end being the number |
| `Disasm` | `decode_indexed`, the lengths and branch targets of `disasm_one`, `linear_sweep`, `floor`, `disasm_window` | opcodes are grouped by what follows them; a line of a listing is its address |
| `Listing` | an embedder with `InstructionBoundaries` and `WriteTrack` over a running program | `Run` is a `step` whose PC is inserted and whose writes are tracked; `Refresh` takes the recorded writes, clears and sweeps; `Retarget` changes the span |
| `CpuTheorems`, `AnyProgramProofs`, `CallDisciplineProofs`, `MachineCodeProofs`, `DebuggerProofs`, `BlockDriverProofs`, `BootProofs`, `DeliveryProofs` | | lemmas on the operators of `Cpu`, `Alu`, `Machine` and `Disasm`; theorems of the eight specifications that are proved about (`MachineCodeProofs` has those of `Arithmetic` and of `Listing`) |
| `MC*` | | values for constants that a `.cfg` cannot write |

What is abstracted in the modules about control: a byte is a set of bit names and only the bits
the properties tell apart need exist; S wraps at `MemSize` instead of 65536; the nine
bytes between CC and PC in a whole frame are `NRegs` bytes; the result of an ALU
instruction is any value; code and vectors are outside the memory modelled, which
is where the stack is. `Machine` is the other half: bytes and addresses have their widths,
and there are no interrupts, no shadow stack and no devices. RTI, CWAI, SWI and SYNC are in
`Cpu` only. `Cpu`'s arbitrary result of a computation covers what `Machine` computes.

## 3. What the runs check

| Run | Question | Bounds, and why they are enough |
|---|---|---|
| `any_program` | Whatever a program does: is a request ever lost, does `step` ever return with an unmasked request waiting, does RTI undo an entry at every S? | Five cells of stack, four of them taken by a whole frame, so that nearly every push wraps and overwrites what is there; three instructions from reset, because each property relates neighbouring states and every S and latch set is reached in that many; all three lines, free at every boundary |
| `call_discipline` | Is the shadow stack the call stack, is what an entry saved still there at its return, does a return resume its caller? Does the machine implement `CallStack`? | Eight cells: two whole frames, or one among calls and pushes, so that interrupts nest in calls and in each other. Programs unmask IRQ and mask it again, so that IRQ is taken in calls, in handlers of SWI and in its own; F stays set, as after a reset. S is loaded with the top of the stack only. The state space is finite without a bound on steps |
| `firq_frame` (violation) | The same with FIRQ beside IRQ, both unmasked, and no software interrupts | finding 1 |
| `debugger` | Do the commands end, stay out of the caller, and go past a breakpoint only as often as its condition refuses or its ignore count says? Do the counters follow? | A loop that calls a routine that calls itself, or goes anywhere, a return and the return address included; two breakpoints (one can hide another), in the routine, at one address or two; limits 0 and 3 (at once, and in the middle of things); NMI at every boundary |
| `block_driver` | Do transfers move the bytes asked for, to and from the sectors asked for, with DRDY up exactly while bytes are left? Does the device implement `Disk`? Does the line fall? | Two bytes a sector, four sectors, transfers of one and two sectors: first, middle and last byte of first and last sector all differ. Two transfers, since what can go wrong is what one leaves behind for the next; a disk that ends inside a sector, one with no bytes, and one that grows |
| `block_stream` (violation) | A WRITE after a READ, without a RESET | finding 2 |
| `delivery` | Does an interrupt-driven guest get every byte that was taken, in order, and every expiry? Does its main program get on? How often is its handler entered for nothing? | A FIFO of two bytes and three bytes fed, so that it overruns; a period of about two rounds of the handler, so that expiries come while it runs and while the main program has IRQ masked; the line held for no poll and for one more; the timer as it is created, or as any order of its setters leaves it |
| `boot` | Does each action of a boot script take effect or count as missing its target, and never hit memory? Do protected frames keep their bytes while contexts switch? Do the fault status and the MMU's interrupt tell of exactly the denied accesses? Is a write to the watched range noticed? All that whatever was configured and loaded before? | One configuration, preset, image or direct store before the run: one configuration with every directive and frames beyond the memory and beyond a byte, one that ends in an error, every preset, an image that runs over the register window and past the top, and a malformed one. Two pages, two frames, two tasks, both modes: the contexts share frames from the start and the script remaps both. A script with every action, one of which names a frame that has more than eight bits, on the four buses, with and without devices; three instructions, which is what it takes to switch mode twice and to be denied, once protection is on, before the status is read; one of the two watched ranges wraps around |
| `arithmetic` | Do loops over numbers of several bytes compute the number? Do branches go by the relation of the operands? | Numbers of one and two bytes from the ends and middles of the range (0, 1, 15, 127, 128, 129, 255), every byte of two decimal digits and pairs of sampled ones, arithmetic flags all clear or all set at the start. Two bytes are what a carry needs to go wrong between bytes; every length and width is proved |
| `routines` | Does the machine code of these loops, with stepping pointers, do the same? | Numbers of one and two bytes at the ends of the range, fewer than in `arithmetic`; code and numbers at three places each of which goes through the end of the address space or its middle |
| `listing` | Is every instruction followed by the one below it in the listing, or by its target? Is every change of a listed instruction noticed? Is the window around PC right? | Every first opcode, every second opcode, every postbyte with one opcode of each kind, each once; and five programs that write over themselves, have data in their code, call and return, push into their code, and lie at the end of memory. A run ends where PC leaves the program |
| `over_length` (violation) | A call through a table | finding 3 |

`TypeOK` of each specification is its type invariant. The properties are stated at
the end of the specification they belong to, each with the comment that says what
it means for the code.

**Fairness.** Safety needs none. `Debugger` assumes WF(`Loop`): a command is one call
of a function, and its loop does not pause. `BlockDriver` assumes WF(`Poll`) and
nothing of the guest or the host: `step` polls the bus after every instruction,
whatever it is. `Delivery` assumes WF(`Step`): the embedder's run loop calls `step`
for ever; the host is not obliged to feed, and not prevented from feeding at any
boundary. `Delivery`'s guest is a constant; its handler looks at both devices in
each round, which is what a driver behind one shared line has to do.

**Bounds** are constants named `Max...` or marked `BOUND` where they restrict an
action: `MaxSteps` (`AnyProgram`), `StackRoom` (`CallDiscipline`, runs that would push
past address 0 are not followed), `MaxBps`, `Places`, `MaxDepth` (`Debugger`; a command is only
given at small depth, what happens during one is not bounded), `MaxJobs`, `SettingUp`
(`BlockDriver`), `MaxFed` (`Delivery`), `MaxStep`, `MaxSetup` (`Boot`), `Reloads` (`Delivery`), `MaxBytes` (`Arithmetic`), `InProgram`
(`Listing`).

## 4. What is proved

For every value of the constants: every stack size, every number of saved registers, all
code, data and vectors; every width of a byte and every length of a number; every program under the
debugger, and every number of breakpoints; every program in machine code under a listing, and every span;
every size of a sector, of a transfer and of a disk; every
number and size of pages and frames, every boot script, configuration and image; every driver of
console and timer, and every capacity of the receive FIFO.

* **Of `AnyProgram`** (`AnyProgramProofs`): type correctness (S stays an address through
  any wrap), no unmasked request waits when a step returns, a request leaves its latch
  only by entering its handler, and RTI undoes every whole entry, and the entry of
  FIRQ where E was clear, wherever S is. `TypeOK` is inductive by itself, and the other
  facts follow from lemmas about single operators in `CpuTheorems`: what a push leaves
  in memory (`PushMem`, `PushPeek`), that a pull inverts it, that a machine is determined
  by its parts. The instruction bound plays no part in the proofs: it only restricts.
* **Of `CallDiscipline`** (`CallDisciplineProofs`): type correctness, the shadow stack is
  the call stack, saved areas are intact, returns resume their callers, and the machine
  implements `CallStack`. None of these is inductive. A return is correct because the
  memory above S still holds what its entry saved; that holds because no activation
  stores above its own area, which makes sense only if areas are nested and S lies below
  all of them; and RTI pulls the frame that was pushed only if the E bit in it tells the
  truth. Hence `IInv`, the conjunction of `Typed`, `Mirrored` (frames are the activations),
  `Nested` (areas do not overlap, S is below), `Saved` and `EClear`. Every action is
  reduced to one of three lemmas (it stays in the innermost activation, enters one or
  leaves one), and the interrupt that may follow is one more entry.
* **Assumption** `OneFrameSize`: no FIRQ among the lines, or nothing but FIRQ. Without it the
  theorems are false of this code: that is finding 1, which run `firq_frame` shows. It
  covers a machine that uses FIRQ for everything and one that does not use it.

* **Of `Arithmetic`** (`MachineCodeProofs`): type correctness, `ChainsRight`, `DecimalRight` and
  `BranchesRight`. The inductive invariant is the loop invariant of each routine, stated once:
  there is a set of columns that carry such that every column done so far adds up, what is
  stored is what it should be, and C, between any two instructions of a column, is the carry
  out of the last column done; for a comparison, that C says whether the lowest bytes are
  below. It is needed because at the end of the loop only the last carry is left in a flag.
  Lemmas about `adc8_flags`, `sbc8_flags`, `Ror`, `Rol`, `Inc` and `Daa` say what a single
  instruction does to a column. `DecimalRight` is about bytes of eight bits, as DAA is.

* **Of `Listing`** (`MachineCodeProofs`): `NotStale`, `ListedAsExecuted` and `WindowRight`, for every
  program in machine code, which may write over itself as it likes.
  All three rest on a machine remaining one: every instruction of the three pages keeps registers and
  bytes in range (`PageFits`, `StepFits`), and a byte it changes is among those it wrote to.
  * `NotStale` is inductive with `ListingType`, which says what each variable is. The hard step is
    `Retarget`: a new span makes bytes visible that were not tracked, which is why it clears and sweeps.
  * `ListedAsExecuted` follows from lemmas on single opcodes, by row, column and page, which say where the
    core leaves PC and that the disassembler's length or target is the same (`FirstAgrees`,
    `PageAgrees`). `listing` executes each opcode once, with one operand; here operands, flags,
    registers and addresses are any.
  * `WindowRight` needs that the walk from the start that `disasm_window` picks gets as far as PC
    before the limit ends it. `KnownCover` is the strengthening: the known starts lie in the program,
    and no byte of it is five or more above the nearest of them (`CoverStarts`, `CoverKept`); so known
    starts are near each other (`KnownSpaced`), the walk starts near PC and gets there (`WalkReaches`),
    and what it has above and below PC is counted against what is known (`EnoughAbove`, `WindowFull`).
    TLC had checked `KnownCover` as an invariant of `listing` before it was proved.
* **Assumption** of `WindowIsRight`: at most 62 lines are asked for above PC. The code needs some such bound. Known starts are
  up to five bytes apart, and the program may have written instructions of one byte there since, so that
  about `5 * n_before` lines may lie between the start of the walk and PC; its limit is only sure to be
  `n_before + 257` (`src/src/disasm.rs:1283`, whose comment takes the slack for more than enough). The
  windows of run `listing` are far smaller.
* What `linear_sweep` and the walk compute is recursive. Both are functions (not RECURSIVE operators), and each call
  goes to a higher address or a longer list, within a bound. `Least`, `Recursion` and `Descent` get such a
  function's equation from the library's facts on well-founded orders, which gives `linear_sweep` and
  `Walk` the lemmas that the proofs cite: no induction theorem that takes an operator is needed for it.

* **Of `Debugger`** (`DebuggerProofs`): type correctness, `CallerWaits`, `NeverRunsPast` and
  `CountersFollowStops`. `CallerWaits` is not inductive: while the routine that a command returns to is
  covered, it says nothing of how the stack comes back to it. `Waits` adds that the frame just above
  that routine returns to the target, so that the return which uncovers it goes there (`PopKeeps`), and
  that what is pushed on it once it is uncovered saves that very address (`PushKeeps`). Both commands
  establish it: the call pushes such a frame (`CallWaits`), and step_out finds one on top. The
  counters need that ids are unique (`Distinct`), which holds because `next_id` only grows; the wrap at
  2^32 is outside the model. `NeverRunsPast` balances an account for each breakpoint over the whole
  command: the instructions executed at its address, against its refusals and the ignores it has used
  up since the command was given. `Ledger` adds that the account is about the breakpoints that there are;
  that each iteration keeps it even, whichever others are at the address and whatever evaluating their
  conditions comes to, is `PassedFacts`. The bounds `MaxBps`, `Places` and `MaxDepth` play no
  part in the proofs.

* **Of `BlockDriver`** (`BlockDriverProofs`): type correctness, `ReadDelivers`, `WriteLands`, and that
  the device implements `Disk`. What a guest sees of a transfer is a stream of bytes, what it asked
  for is sectors; the invariants relate the two at every byte. `ReadInv` says that as long as bytes
  are to come, LBA is the sector that the next one is in, the index is its place there, and the
  buffer is that sector of the disk (`Reading`): DRDY and the bytes are right because the last byte of a
  sector loads the next one in the same access. `WriteInv` adds that the buffer holds the bytes since
  the last whole sector (`Buffered`) and that the whole ones are on the disk, except where later ones
  of the same WRITE overwrote them because the address wrapped (`Landed`); that a sector staged before the
  command is not yet part of a transfer (`Staging`), which is why it may be the first of it; and that
  between transfers none is going on (`Idle`). `Started` makes the first job find the device as it is
  created. In `Disk` a store is one step: all bytes but the last of a sector stutter, the last one
  stores it (`StoredIs`).
* **Assumption** `Resets`: the guest gives RESET before each WRITE, which `WriteLandsCorrect` and
  `DiskImplemented` need. Without it they are false of this code: that is finding 2, which run
  `block_stream` shows.

* **Of `Boot`** (`BootProofs`): all that run `boot` checks. The inductive invariant `BootInv` is `TypeOK`
  with `Remembered` (the MMU's fault status is what the guest has not been told of; the flag is up
  if a watched address was written) and `Counted` (each trigger has a count of its firings). What
  takes the work is arithmetic that no small instance can settle: that the comparisons in
  `IoBus::write8` recognise a range that goes through the top of memory (`WatchedIs`); that the
  offset of a register in the window comes out of `translate` as the register it went in as, for
  every number of pages (`RegisterAt`, `WriteRegister`, `RegisterHolds`), which
  `ApplyLands` needs to say that an action is in force, counted, or, where a frame has more than eight
  bits, misplaced (section 5); and that a cell of physical
  memory has one frame (`OneFrame`), so that a store which changes it was checked against a page
  mapped to that frame, and was refused if all of those are write-protected. `LoadTells` and
  `StoreTells` say of one access what the status and the flag make of it; an image's byte, an action
  of the script and a guest's store all go through them, which is why the texts are followed byte by
  byte in `Boot`. `BootAssumption` is what a working machine is set up to: the window ends below the
  top of memory, the console is outside of it, and the presets' frames are numbers that have a word.

* **Of `Delivery`** (`DeliveryProofs`): type correctness, `EchoInOrder` and `SpuriousOnce`, for every
  guest that is a driver, not just the one of run `delivery`. That the output is the input in order
  says nothing of the byte which is in A between the two, nor of what the handler takes for granted
  when it gets there. `RoundInv` says both: `Following` that what was taken is what was sent, then the byte in A
  where the next instruction transmits it, then the FIFO, and that a byte is there when it is read, the
  test before having said so; `Sound` that RDRF says whether the FIFO is empty, and that it is in master reset;
  and `InHand` that no interrupt can come in between, whatever the devices do to the
  latches: IRQ is masked throughout the handler, FIRQ everywhere, and the frame on top of the stack
  goes back to the main program with FIRQ masked, which is what RTI needs (`ReturnIs`).
  `Reminded` is for `SpuriousOnce`: in a round that has found nothing, a latched request is one that
  a device still makes. The tail of `step` is one lemma (`TailIs`), which each instruction cites.
* **Assumptions** `DriverAssumption`, which is about the guest and which TLC evaluates for the guest of the run:
  the handler does not run into the main program nor the reverse, does not unmask, leaves the
  console's control register alone, and reads a byte only after a test and transmits it next. And
  `MaxHold <= 1`, for `SpuriousOnceCorrect` alone: a line held for several polls after its cause has gone
  (`irq_hold_cycles`, 0 unless the embedder sets it) outlasts a round of the handler, and TLC finds
  `SpuriousOnce` violated when it is held for 8.

The other assumptions are the named `ASSUME`s on constants, which TLC evaluates in every run.
One of them is a fact and no restriction: `PlacesAssumption` (`BlockDev`) says that a power of the radix
divides the higher ones, which would take an induction.

Only model-checked:

* that `Routines` implements `Arithmetic`. Its programs are assembled from texts by folds and a RECURSIVE
  operator, so that a proof would have to be about each of the images that TLC enumerates;
* all liveness (`AllEchoed`, `MainGoesOn` and `ExpiryServed` of `Delivery`, and that commands of the
  debugger end and the lines of the block device fall), since the prover knows neither fairness nor
  ENABLED.

## 5. Findings

1. `firq_frame`, `src/src/cpu.rs:755`. FIRQ pushes CC before it clears E. If E is set then, as in
   and after every handler entered by IRQ, NMI or SWI, RTI takes the three-byte frame for twelve.
2. `block_stream`, `src/src/io.rs:794`. WRITE takes the buffer that a finished READ left full for a
   staged sector.
3. `over_length`, `src/src/cpu.rs:236`. The disassembler gives JSR with an indirect offset or an
   operand relative to PC fewer bytes than the core fetches, and `step_over` waits at the wrong
   address.

Each run states what a comment or test of the repository says, and TLC shows what the code does
instead; `PROJECT.json` quotes both.

Other differences met while modelling, each visible in a module and without a run of its own:

* `src/src/cpu.rs:244` and `:270`: the loops of `step_over` and `step_out` test the limit before PC, so
  that a target reached by the last permitted instruction is reported as `Limit`
  (`Debugger`, `GiveUp`), against `src/src/cpu.rs:139`.
* `src/src/cpu.rs:271`: in a recursive routine `step_out` stops where an inner activation passes the
  return address (`Debugger`, `Arrives`), against `src/src/cpu.rs:257`. It also checks the breakpoints at the very PC it is
  given at (`:274`), so that, repeated there, it stops again without having executed anything.
* `src/src/io.rs:855`: the pulse of a finished WRITE renews itself at each poll (`BlockDev`,
  `AfterPoll`), which is why `LineFalls` excepts it.
* The header comment of the block device (`src/src/io.rs:459` to `:470`) is of an earlier device: it has "READ clears
  DRDY after 512 reads", "only the value 1 is honored" of SECCNT, and "No IRQ/FIRQ; no multi-sector I/O". The code
  keeps DRDY up from sector to sector until SECCNT of them are done, and raises interrupts; the test
  `write_then_read_roundtrip_multi_sector` (`src/tests/blockdev.rs:29`) sides with the code, and so do
  `BlockDev` and `ReadDelivers`.
* `src/src/io.rs:629`: the next good sector of a write hides the error of a bad one.
* What the disassembler does not decode although the core does, and lists as a byte of data or with
  a wrong length: PSHU, PULU, CMPX direct to extended, SUBD and ADDD other than immediate, LDU and STU
  other than immediate, `$A3`, `$A8` to `$AC`, and operands that are indirect with an offset or
  relative to PC (`Listing`, `Undecoded`). `ListedAsExecuted` shows that this list is complete.
* `src/src/debug.rs:640` says that phantom boundaries "do no harm". One that lies in the middle of an
  instruction at or before PC can make the walk step over PC, and `disasm_window` then falls back to a
  single line (`WindowRight` has the full window only where starts and PC are in line).
* `src/src/disasm.rs:1282` says that the slack of 256 lines is "comfortably more" than are needed. It is not
  for every `n_before`: if long instructions below PC have been overwritten by short ones since, a
  walk over more than some 60 of them can end before PC (section 4, the assumption of `WindowIsRight`).
* `src/src/disasm.rs:246` and its kin compute a short branch's target in 16 signed bits: at `$7FFE` the
  sum overflows, which is a panic in a debug build. `Targets` has the wrapped sum of a release build.
* `src/src/bootscript.rs:33` has triggers fire at most once, while a trigger on a PC fires each time PC
  is there; `irq_mask` and `firq_mask` are ignored under `on_step`, although a template offers one.
* Behind an `IoBus` no-execute pages are not enforced, because it forwards no `read8_fetch` (`Boot`,
  `FetchKind`).
* `src/src/config.rs:21` and `:12` list a directive `regs` and numbers with `$`, which are not there, and
  `:27` promises an error on any parse error: only an unknown directive is one, and the lines before it
  have had their effect (`Boot`, `Refuse`). The example at `:41` applies a preset `identity`, which
  `apply_preset` does not know, to a window at `$FFE0`, whose attribute registers are beyond `$FFFF`.
* A `map` directive for a page above 15 panics, an `attr` directive writes beyond the window; the
  boot script takes pages modulo 16 (`Directives`, `BootAssumption`).
* `src/src/bootscript.rs:454`: `map P=F` of a boot script reads a frame of sixteen bits (`:91`, `:184`) and writes
  the low byte of it to the register, so that a page to be mapped to frame 256 or above goes to another
  one; nothing counts or reports it. The `map` directive of a configuration sets all sixteen bits, which
  is what `src/docs/en/module_overview.md:184` says of a page. `ActionsLand` states this case apart (`Oversized`, `Misplaced`).
* A register of the window shows eight bits of a frame that `set_map_entry` may have given sixteen
  (`Mmu`, `RegValue`).
* `src/src/loader.rs:165` claims a range that goes on at address 0, as `load_binary_bus` stores it, where
  `Memory::load_slice` has cut the image off (`Boot`, `Rest`).
* `src/src/timer.rs:32` says that `get_info` returns reload and counter; it returns base and reload.

## 6. Not modelled, and why

Dump and trace printing, the text of the disassembler, console sinks (stdout, UTF-8 assembly, GUI
buffer and its global flags), logging, cycle counts: nothing in the crate depends on them. How the texts of
S-records, configurations, boot scripts and conditions are read is a matter of pure functions; what the
lines then do is modelled (`Startup`, `Boot`), and `Debugger` takes a condition to come to either truth value or
an error. GPIO has two registers and no protocol. Of `IoBus` the order of
overlapping devices and `ensure_*` of a device that exists are left out, of
the console the setters of the embedder and the sinks of its output.

CWAI does not wait in this emulator and leaves a frame that no activation stands for: `AnyProgram`
executes it, `CallDiscipline` excludes it.

What could come next: the composition of `Machine` with `Cpu` (interrupts on machine code, which needs a
mapping of the arbitrary results of one to the computed ones of the other); the order of
devices.
