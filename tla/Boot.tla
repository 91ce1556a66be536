-------------------------------- MODULE Boot --------------------------------
(***************************************************************************)
(* A boot script run beside a guest: BootSequencer of                      *)
(* src/src/bootscript.rs in the loop of its embedder, on each of the four  *)
(* buses that it knows: memory or an MMU, with or without an IoBus of      *)
(* devices in front.                                                       *)
(*                                                                         *)
(* Before the loop the embedder may configure the MMU and load images.     *)
(* The loop calls on_pre_step, step and on_post_step in turn.  Both hooks  *)
(* go through all triggers and fire those that are due, in order.  The     *)
(* guest's instruction at PC may load or store a byte and goes anywhere;   *)
(* the instructions themselves, and interrupts, are left to Cpu.  Of the   *)
(* console and the block device only what the script sets is kept; they    *)
(* are modelled in Acia and BlockDev.                                      *)
(***************************************************************************)
EXTENDS Startup

CONSTANTS
  Script,       \* the triggers, in order
  ConsoleBase,  \* where the console is, if it is attached
  Codes,        \* addresses that the guest executes
  Operands,     \* addresses that it loads from and stores to
  Stored,       \* bytes that it stores
  Configs,      \* configurations of the MMU that the embedder may apply
  Images,       \* images that it may load
  MaxSetup,     \* BOUND on the operations before the run
  Watches,      \* ranges that the host watches: first address and length
  Attachments,  \* sets of devices that may be behind an IoBus
  MaxStep       \* BOUND on the instructions executed

VARIABLES
  bus,
  pc,
  masks,        \* which of I and F are set
  phase,        \* "setup", "pre", "step" or "post"
  cursor,       \* the trigger that the hook in progress looks at; in "setup" a count
  call,         \* the embedder's call before the run: what is left of it
  step,         \* BootSequencer::step
  missing,      \* its counters of actions that found no device
  fired,        \* history: how often each trigger fired
  unseen,       \* history: accesses denied since the guest last read the status
  touched,      \* history: a watched address was written since the flag was taken
  loaded        \* history: the byte that the last instruction loaded, if any

sequencer == <<step, missing, fired>>
history   == <<unseen, touched, loaded>>
vars      == <<bus, pc, masks, phase, cursor, call, sequencer, history>>

Actions ==
  [op : {"mode", "irq_mask", "firq_mask", "blk_irq", "blk_firq"}, on : BOOLEAN]
    \cup [op : {"prot", "con_ctrl"}, byte : Byte]
    \cup [op : {"map"}, page : Nat, frame : Entry]
    \cup [op : {"attr"}, page : Nat, byte : Byte]
    \cup [op : {"con_irq_hold", "blk_irq_hold"}, n : Nat]
    \cup [op : {"con_rx_wm", "con_firq"}]     \* no effect on what is kept here

Trigger == [on : {"pc"}, at : Addr, act : Actions] \cup [on : {"step"}, at : Nat, act : Actions]

ConsoleAddrs == {ConsoleBase, ConsoleBase + 1}

ASSUME BootAssumption ==
  /\ {PageSize, Frames, Tasks} \subseteq Nat \ {0}
  /\ Words \in Nat /\ 256 <= Words
  /\ Pages \in 2 .. Words /\ 191 + Pages \div 4 < Words      \* the presets map so much
  /\ WindowBase \in Addr
  /\ WindowBase + AttrRegs + Pages <= Space     \* regs_base + 0x18 + page does not wrap
  /\ Script \in Seq(Trigger)
  /\ ConsoleAddrs \subseteq Addr /\ \A a \in ConsoleAddrs : ~ InWindow(a)
  /\ Codes \subseteq Addr /\ Operands \subseteq Addr /\ Stored \subseteq Byte
  /\ Configs \subseteq Configurations /\ Images \subseteq Programs
  /\ MaxSetup \in Nat
  /\ Watches \subseteq Addr \X (0 .. Space - 1)
  /\ {} \in Attachments /\ Attachments \subseteq SUBSET {"console", "block"}
  /\ MaxStep \in Nat

Settings == [irq : BOOLEAN, firq : BOOLEAN, hold : Nat]

Bus ==
  [ paged    : BOOLEAN,     \* the inner bus is an MMU
    io       : BOOLEAN,     \* an IoBus is in front of it
    attached : SUBSET {"console", "block"},
    mmu      : Mmu,
    ram      : [Addr -> Byte],
    ctrl     : Byte,        \* last control byte of the console
    hold     : Nat,         \* its irq_hold_cycles
    block    : Settings,
    watch    : Addr \X (0 .. Space - 1),
    dirty    : BOOLEAN ]    \* mem_dirty

\* The lines that are left, and whether their bytes are stored by slices.
Call == [lines : Seq(Directives \cup Records \cup Refused), slices : BOOLEAN]

-----------------------------------------------------------------------------
(* The bus.                                                                *)

\* Fault: the range is compared as if it did not wrap.
WatchesStraight(b, a) ==
  b.watch[2] > 0 /\ a >= b.watch[1] /\ a < b.watch[1] + b.watch[2]

\* The addresses that the host asked to be told of.
Watched(b) == IF b.io THEN {(b.watch[1] + i) % Space : i \in 0 .. b.watch[2] - 1} ELSE {}

\* A write to a is to be noticed.
WatchesAddr(b, a) ==
  LET s == b.watch[1]
      e == (s + b.watch[2]) % Space
  IN  /\ b.watch[2] > 0
      /\ IF s <= e THEN a >= s /\ a < e ELSE a >= s \/ a < e

ToConsole(b, a) == b.io /\ "console" \in b.attached /\ a \in ConsoleAddrs

InnerAfterStore(b, a, byte) ==
  IF b.paged THEN [b EXCEPT !.mmu = AfterWrite(b.mmu, a, byte)]
  ELSE [b EXCEPT !.ram[a] = byte]

AfterStore(b, a, byte) ==
  LET noticed == [b EXCEPT !.dirty = @ \/ (b.io /\ WatchesAddr(b, a))]
  IN  CASE ToConsole(b, a) /\ a = ConsoleBase -> [noticed EXCEPT !.ctrl = byte]
        [] ToConsole(b, a) /\ a # ConsoleBase -> noticed
        [] OTHER -> InnerAfterStore(noticed, a, byte)

\* A read, as data or to be executed.
AfterLoad(b, a, kind) ==
  IF ToConsole(b, a) \/ ~ b.paged THEN b
  ELSE [b EXCEPT !.mmu = AfterRead(b.mmu, a, kind)]

\* The byte that a read answers; the console's are of no interest here.
Answer(b, a, kind) ==
  CASE ToConsole(b, a)  -> 0
    [] ~ ToConsole(b, a) /\ b.paged -> Value(b.mmu, a, kind)
    [] OTHER            -> b.ram[a]

\* IoBus has no read8_fetch of its own: behind it, instructions are data.
FetchKind(b) == IF b.io THEN "read" ELSE "execute"

-----------------------------------------------------------------------------
(* BootSequencer.                                                          *)

\* Fault: a write that goes wherever the MMU would have been.
HasMmuAlways(b) == TRUE

\* bus_has_mmu
HasMmu(b) == b.paged

HasDevice(b, device) == b.io /\ device \in b.attached

Target(act) ==
  CASE act.op \in {"mode", "prot", "map", "attr"} -> "mmu"
    [] act.op \in {"con_ctrl", "con_irq_hold", "con_rx_wm", "con_firq"} -> "console"
    [] act.op \in {"blk_irq", "blk_firq", "blk_irq_hold"} -> "block"
    [] OTHER -> "cpu"

Found(b, target) ==
  CASE target = "mmu" -> HasMmu(b)
    [] target = "cpu" -> TRUE
    [] OTHER          -> HasDevice(b, target)

\* Fault: the attributes are taken to follow the fault status at once.
RegisterInHole(act) ==
  CASE act.op = "mode" -> ModeReg
    [] act.op = "prot" -> ProtReg
    [] act.op = "map"  -> act.page % Pages
    [] act.op = "attr" -> StatusReg + 1 + (act.page % Pages)

\* The offset in the register window that an action on the MMU writes to.
Register(act) ==
  CASE act.op = "mode" -> ModeReg
    [] act.op = "prot" -> ProtReg
    [] act.op = "map"  -> act.page % Pages
    [] act.op = "attr" -> AttrRegs + (act.page % Pages)

\* What it writes there: of a frame, which has sixteen bits, only the low byte.
Written(act) ==
  CASE act.op = "mode" -> IF act.on THEN 1 ELSE 0
    [] act.op = "map"  -> act.frame % 256
    [] OTHER           -> act.byte

\* What an action makes of a bus that has its target.
Applied(b, act) ==
  CASE Target(act) = "mmu"    -> AfterStore(b, WindowBase + Register(act), Written(act))
    [] act.op = "con_ctrl"     -> [b EXCEPT !.ctrl = act.byte]
    [] act.op = "con_irq_hold" -> [b EXCEPT !.hold = act.n]
    [] act.op = "blk_irq"      -> [b EXCEPT !.block.irq = act.on]
    [] act.op = "blk_firq"     -> [b EXCEPT !.block.firq = act.on]
    [] act.op = "blk_irq_hold" -> [b EXCEPT !.block.hold = act.n]
    [] OTHER                   -> b

\* The masks after an action; on_post_step has no CPU to give to it.
MasksAfter(act) ==
  LET mask == IF act.op = "irq_mask" THEN {"I"} ELSE {"F"}
  IN  IF Target(act) # "cpu" \/ phase = "post" THEN masks
      ELSE IF act.on THEN masks \cup mask ELSE masks \ mask

\* apply_action
Apply(act) ==
  /\ masks' = MasksAfter(act)
  /\ IF Found(bus, Target(act))
     THEN bus' = Applied(bus, act) /\ UNCHANGED missing
     ELSE missing' = [missing EXCEPT ![Target(act)] = @ + 1] /\ UNCHANGED bus

Due(trigger) ==
  IF trigger.on = "pc" THEN phase = "pre" /\ trigger.at = pc
  ELSE phase = "post" /\ trigger.at = step

InHook == phase \in {"pre", "post"}

\* What the write of an action through the bus touches.
Touches(act) ==
  IF Target(act) = "mmu" /\ HasMmu(bus) THEN {WindowBase + Register(act)} ELSE {}

\* The next trigger that is due.
Fire ==
  /\ InHook
  /\ \E i \in cursor .. Len(Script) :
       /\ Due(Script[i]) /\ \A j \in cursor .. i - 1 : ~ Due(Script[j])
       /\ Apply(Script[i].act)
       /\ touched' = (touched \/ Touches(Script[i].act) \cap Watched(bus) # {})
       /\ fired' = [fired EXCEPT ![i] = @ + 1]
       /\ cursor' = i + 1
  /\ UNCHANGED <<pc, phase, call, step, unseen, loaded>>

\* on_pre_step returns; on_post_step returns.
EndHook ==
  /\ InHook /\ \A i \in cursor .. Len(Script) : ~ Due(Script[i])
  /\ phase' = IF phase = "pre" THEN "step" ELSE "pre"
  /\ cursor' = 1
  /\ UNCHANGED <<bus, pc, masks, call, sequencer, history>>

-----------------------------------------------------------------------------
(* The guest and the host.                                                 *)

Denied(b, a, kind) ==
  IF b.paged /\ ~ ToConsole(b, a) /\ ~ InWindow(a) /\ Mapped(b.mmu, a)
     /\ Bit(b.mmu.prot, Arming[kind])
     /\ Bit(b.mmu.attr[<<b.mmu.sys, b.mmu.task>>][Page(a)], Asking[kind])
  THEN {kind} ELSE {}

ReadsStatus(b, a) == b.paged /\ a = WindowBase + StatusReg

\* What the guest has not been told of once address a has been read.
UnseenAfter(seen, b, a, kind) ==
  IF ReadsStatus(b, a) THEN {} ELSE seen \cup Denied(b, a, kind)

\* One instruction, and the first statement of on_post_step, which counts it.
Executes ==
  /\ phase = "step" /\ step < MaxStep
  /\ phase' = "post" /\ step' = step + 1 /\ cursor' = 1
  /\ pc' \in Codes
  /\ UNCHANGED <<call, missing, fired>>

Fetched == AfterLoad(bus, pc, FetchKind(bus))
UnseenFetched == UnseenAfter(unseen, bus, pc, FetchKind(bus))

Compute ==
  /\ Executes
  /\ bus' = Fetched /\ unseen' = UnseenFetched
  /\ masks' \in SUBSET {"I", "F"}
  /\ loaded' = {} /\ UNCHANGED touched

Load ==
  /\ Executes
  /\ \E a \in Operands :
       /\ bus' = AfterLoad(Fetched, a, "read")
       /\ loaded' = {<<a, Answer(Fetched, a, "read")>>}
       /\ unseen' = UnseenAfter(UnseenFetched, Fetched, a, "read")
  /\ UNCHANGED <<masks, touched>>

Store ==
  /\ Executes
  /\ \E a \in Operands, byte \in Stored :
       /\ bus' = AfterStore(Fetched, a, byte)
       /\ unseen' = UnseenFetched \cup Denied(Fetched, a, "write")
       /\ touched' = (touched \/ a \in Watched(bus))
  /\ loaded' = {} /\ UNCHANGED masks

\* take_mem_dirty, and set_mem_watch to another range.
TakeDirty ==
  /\ phase = "pre" /\ cursor = 1 /\ bus.dirty
  /\ \E watch \in Watches : bus' = [bus EXCEPT !.dirty = FALSE, !.watch = watch]
  /\ touched' = FALSE
  /\ UNCHANGED <<pc, masks, phase, cursor, call, sequencer, unseen, loaded>>

-----------------------------------------------------------------------------
(* The embedder before the run.                                            *)

Setup ==
  /\ phase = "setup"
  /\ UNCHANGED <<pc, masks, phase, sequencer, loaded>>

\* A call begins, when the one before it has returned.
Prepares ==
  /\ Setup /\ call.lines = <<>> /\ cursor <= MaxSetup
  /\ cursor' = cursor + 1

\* apply_mmu_config_from_str and apply_preset
Configure ==
  /\ Prepares /\ bus.paged
  /\ \E lines \in Configs \cup Presets : call' = [lines |-> lines, slices |-> FALSE]
  /\ UNCHANGED <<bus, unseen, touched>>

\* load_srec and load_binary, through the bus or, where it is a bare memory, by slices.
LoadImage ==
  /\ Prepares
  /\ \E image \in Images, slices \in BOOLEAN :
       /\ slices => ~ bus.paged /\ ~ bus.io
       /\ call' = [lines |-> image, slices |-> slices]
  /\ UNCHANGED <<bus, unseen, touched>>

\* The next line of the call in progress.
Line(ops) ==
  /\ Setup /\ call.lines # <<>> /\ Head(call.lines).op \in ops
  /\ UNCHANGED cursor

Obey ==
  /\ Line({"task", "mode", "prot", "map", "attr", "identity"})
  /\ bus' = [bus EXCEPT !.mmu = Directed(@, Head(call.lines))]
  /\ call' = [call EXCEPT !.lines = Tail(@)]
  /\ UNCHANGED <<unseen, touched>>

\* The line is an error; those before it have had their effect.
Refuse ==
  /\ Line({"unknown", "malformed"})
  /\ call' = [call EXCEPT !.lines = <<>>]
  /\ UNCHANGED <<bus, unseen, touched>>

\* A record without its first byte; a slice ends at the top.
Rest(record) ==
  [ record EXCEPT !.at = (@ + 1) % Space,
                  !.bytes = IF call.slices /\ record.at = Space - 1 THEN <<>> ELSE Tail(@) ]

\* The next byte of a record is stored as a guest's store is.
StoreByte ==
  /\ Line({"data"})
  /\ \E record \in {Head(call.lines)} :
       /\ record.bytes # <<>>
       /\ bus' = AfterStore(bus, record.at, Head(record.bytes))
       /\ unseen' = unseen \cup Denied(bus, record.at, "write")
       /\ touched' = (touched \/ record.at \in Watched(bus))
       /\ call' = [call EXCEPT !.lines[1] = Rest(record)]

EndRecord ==
  /\ Line({"data"}) /\ Head(call.lines).bytes = <<>>
  /\ call' = [call EXCEPT !.lines = Tail(@)]
  /\ UNCHANGED <<bus, unseen, touched>>

\* The embedder's direct access to physical memory.
LoadPhysical ==
  /\ Prepares /\ bus.paged
  /\ \/ \E image \in Images : \E i \in DOMAIN image :
          /\ image[i].op = "data"
          /\ bus' = [bus EXCEPT !.mmu = StorePhysical(@, image[i].at, image[i].bytes)]
     \/ bus' = [bus EXCEPT !.mmu = ClearPhysical(@, 255)]
  /\ UNCHANGED <<call, unseen, touched>>

StartRun ==
  /\ phase = "setup" /\ call.lines = <<>> /\ phase' = "pre" /\ cursor' = 1
  /\ UNCHANGED <<bus, pc, masks, call, sequencer, history>>

NewBus(paged, io, attached, watch) ==
  [ paged |-> paged, io |-> io, attached |-> attached,
    mmu |-> NewMmu, ram |-> [a \in Addr |-> 0],
    ctrl |-> 0, hold |-> 0, block |-> [irq |-> FALSE, firq |-> FALSE, hold |-> 0],
    watch |-> watch, dirty |-> FALSE ]

\* Without an IoBus there is neither a device nor a watched range.
Init ==
  /\ \E paged \in BOOLEAN :
       \/ bus = NewBus(paged, FALSE, {}, <<0, 0>>)
       \/ \E attached \in Attachments, watch \in Watches :
            bus = NewBus(paged, TRUE, attached, watch)
  /\ pc \in Codes
  /\ masks = {"I", "F"}
  /\ phase = "setup" /\ cursor = 1 /\ step = 0
  /\ call = [lines |-> <<>>, slices |-> FALSE]
  /\ missing = [target \in {"mmu", "console", "block"} |-> 0]
  /\ fired = [i \in DOMAIN Script |-> 0]
  /\ unseen = {} /\ touched = FALSE /\ loaded = {}

Next ==
  \/ Configure \/ LoadImage \/ LoadPhysical \/ StartRun
  \/ Obey \/ Refuse \/ StoreByte \/ EndRecord
  \/ Fire \/ EndHook \/ Compute \/ Load \/ Store \/ TakeDirty

Spec == Init /\ [][Next]_vars

-----------------------------------------------------------------------------
(* Properties.                                                             *)

\* Every variable keeps its shape.
TypeOK ==
  /\ bus \in Bus
  /\ pc \in Codes /\ masks \subseteq {"I", "F"}
  /\ phase \in {"setup", "pre", "step", "post"} /\ cursor \in 1 .. Len(Script) + MaxSetup + 1
  /\ call \in Call
  /\ step \in 0 .. MaxStep
  /\ missing \in [{"mmu", "console", "block"} -> Nat]

\* The script never writes to memory, whatever map it was given to begin with:
\* actions on an MMU that is not there are skipped, those on one that is there
\* reach its registers.
SparesMemory ==
  [][InHook => bus'.ram = bus.ram /\ bus'.mmu.phys = bus.mmu.phys]_vars

\* An action on what is there has had its effect.
InForce(act) ==
  LET here == <<bus.mmu.sys, bus.mmu.task>>
  IN  CASE act.op = "mode"         -> bus'.mmu.sys = act.on
        [] act.op = "prot"         -> bus'.mmu.prot = act.byte
        [] act.op = "map"          -> bus'.mmu.map[here][act.page % Pages] = act.frame
        [] act.op = "attr"         -> bus'.mmu.attr[here][act.page % Pages] = act.byte
        [] act.op = "irq_mask"     -> phase = "post" \/ (act.on <=> "I" \in masks')
        [] act.op = "firq_mask"    -> phase = "post" \/ (act.on <=> "F" \in masks')
        [] act.op = "con_ctrl"     -> bus'.ctrl = act.byte
        [] act.op = "con_irq_hold" -> bus'.hold = act.n
        [] act.op = "blk_irq"      -> bus'.block.irq = act.on
        [] act.op = "blk_firq"     -> bus'.block.firq = act.on
        [] act.op = "blk_irq_hold" -> bus'.block.hold = act.n
        [] OTHER                   -> TRUE

\* The frame of a map action does not fit into a register of the window.
Oversized(act) == act.op = "map" /\ act.frame > 255

\* The page is mapped to the frame that the low byte names, and nobody is told.
Misplaced(act) ==
  /\ bus'.mmu.map[<<bus.mmu.sys, bus.mmu.task>>][act.page % Pages] = act.frame % 256
  /\ missing' = missing

\* What has become of an action that has fired.
Lands(act) ==
  /\ ~ Found(bus, Target(act)) => missing'[Target(act)] > missing[Target(act)]
  /\ Found(bus, Target(act)) => IF Oversized(act) THEN Misplaced(act) ELSE InForce(act)

\* An action that has fired is counted as missing its target, or in force, in the
\* context that the actions before it have left; but on_post_step cannot set the
\* masks, and a page to be mapped to a frame above 255 goes to another one silently.
ActionsLand ==
  [][\A i \in DOMAIN Script : fired'[i] > fired[i] => Lands(Script[i].act)]_vars

\* A frame that every context can reach only through write-protected pages does
\* not change once the guest runs, whatever it and the script switch in between,
\* and whatever configuration protected it.
ReadOnly(m, frame) ==
  /\ Bit(m.prot, Arming.write)
  /\ \A c \in Context, p \in 0 .. Pages - 1 :
       m.map[c][p] = frame => Bit(m.attr[c][p], Asking.write)

FramesProtected ==
  [][phase # "setup" => \A frame \in 0 .. Frames - 1 :
       ReadOnly(bus.mmu, frame) =>
         \A cell \in frame * PageSize .. (frame + 1) * PageSize - 1 :
           bus'.mmu.phys[cell] = bus.mmu.phys[cell]]_vars

\* The fault status that the guest reads tells it of every kind of access that
\* was denied since it read the status before, and of no other.
StatusTells ==
  [][phase = "step" =>
       \A l \in loaded' : ReadsStatus(bus, l[1]) => l[2] = FaultByte(UnseenFetched)]_vars

\* What the host and the guest must be told of they are told of: the flag of
\* the watched range is up when an address of it was written since it was taken,
\* and the MMU's interrupt, if it is armed, is asserted exactly while some access
\* was denied that the guest has not read of.
Noticed ==
  /\ touched => bus.dirty
  /\ bus.paged =>
       (FaultLines(bus.mmu) # {} <=> unseen # {} /\ Bit(bus.mmu.prot, 1))

=============================================================================
