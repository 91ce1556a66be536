-------------------------------- MODULE Mmu --------------------------------
(***************************************************************************)
(* Mc6829 of src/src/mmu.rs: pages of logical addresses are mapped to      *)
(* frames of physical memory, separately for every task and for user and   *)
(* system mode, and each page can forbid kinds of access.  A window of     *)
(* logical addresses, which lies over whatever is mapped there, holds the  *)
(* registers of the context that is selected.                              *)
(*                                                                         *)
(* Bytes are numbers, and frames are words, of which a register shows the  *)
(* lower byte.                                                             *)
(***************************************************************************)
EXTENDS Integers, Sequences

CONSTANTS
  Pages,        \* logical pages (16 in the code)
  PageSize,     \* (4096 in the code)
  Frames,       \* frames of physical memory
  Tasks,        \* (8 in the code)
  Words,        \* the numbers below this have a word (2 ^ 16 in the code)
  WindowBase    \* the first address of the register window

Byte  == 0 .. 255
Entry == 0 .. Words - 1     \* a frame in the map
Space == Pages * PageSize
Addr  == 0 .. Space - 1
Page(a) == a \div PageSize

Bit(byte, k) == (byte \div 2 ^ k) % 2 = 1

\* System mode or not, and the task.
Context == BOOLEAN \X (0 .. Tasks - 1)

Mmu ==
  [ phys  : [0 .. Frames * PageSize - 1 -> Byte],
    sys   : BOOLEAN,
    task  : 0 .. Tasks - 1,
    map   : [Context -> [0 .. Pages - 1 -> Entry]],
    attr  : [Context -> [0 .. Pages - 1 -> Byte]],
    prot  : Byte,
    fault : SUBSET {"write", "read", "execute"} ]

NewMmu ==
  [ phys  |-> [cell \in 0 .. Frames * PageSize - 1 |-> 0],
    sys   |-> FALSE,
    task  |-> 0,
    map   |-> [c \in Context |-> [p \in 0 .. Pages - 1 |-> IF c[2] = 0 THEN p ELSE 0]],
    attr  |-> [c \in Context |-> [p \in 0 .. Pages - 1 |-> 0]],
    prot  |-> 0,
    fault |-> {} ]

Here(m) == <<m.sys, m.task>>

-----------------------------------------------------------------------------
(* The register window: the map, then task, mode, protection control and   *)
(* fault status, a hole of four, and the attributes.                       *)

TaskReg   == Pages
ModeReg   == Pages + 1
ProtReg   == Pages + 2
StatusReg == Pages + 3
AttrRegs  == Pages + 8

Offset(a)   == (a - WindowBase) % Space
InWindow(a) == Offset(a) < AttrRegs + Pages

FaultByte(kinds) ==
  (IF "write" \in kinds THEN 1 ELSE 0) + (IF "read" \in kinds THEN 2 ELSE 0)
    + (IF "execute" \in kinds THEN 4 ELSE 0)

RegValue(m, r) ==
  CASE r < Pages     -> m.map[Here(m)][r] % 256
    [] r = TaskReg   -> m.task
    [] r = ModeReg   -> IF m.sys THEN 1 ELSE 0
    [] r = ProtReg   -> m.prot
    [] r = StatusReg -> FaultByte(m.fault)
    [] r >= AttrRegs -> m.attr[Here(m)][r - AttrRegs]
    [] OTHER         -> 255

\* Fault: reading any register clears the status.
AfterRegReadAny(m, r) == [m EXCEPT !.fault = {}]

AfterRegRead(m, r) == IF r = StatusReg THEN [m EXCEPT !.fault = {}] ELSE m

\* Fault: a task that there is not.
TaskOfRaw(byte) == byte

TaskOf(byte) == byte % Tasks

\* set_map_entry, set_task and identity_map_current
SetMapEntry(m, page, frame) == [m EXCEPT !.map[Here(m)][page] = frame]

SetTask(m, n) == [m EXCEPT !.task = TaskOf(n)]

IdentityMap(m) ==
  [m EXCEPT !.map = [c \in Context |-> IF c[2] = m.task THEN [p \in 0 .. Pages - 1 |-> p] ELSE @[c]]]

AfterRegWrite(m, r, byte) ==
  CASE r < Pages     -> SetMapEntry(m, r, byte)
    [] r = TaskReg   -> SetTask(m, byte)
    [] r = ModeReg   -> [m EXCEPT !.sys = (byte % 2 = 1)]
    [] r = ProtReg   -> [m EXCEPT !.prot = byte]
    [] r >= AttrRegs -> [m EXCEPT !.attr[Here(m)][r - AttrRegs] = byte]
    [] OTHER         -> m

-----------------------------------------------------------------------------
(* Translation and protection.                                             *)

Cell(m, a)   == m.map[Here(m)][Page(a)] * PageSize + (a % PageSize)
Mapped(m, a) == Cell(m, a) \in DOMAIN m.phys

\* The bit of the protection control that arms a kind of protection, and the
\* bit of a page's attributes that asks for it.
Arming == [write |-> 0, read |-> 2, execute |-> 3]
Asking == [write |-> 0, read |-> 1, execute |-> 2]

\* Fault: writes are checked as reads are.
ForbiddenAsRead(m, a, kind) ==
  Bit(m.prot, Arming.read) /\ Bit(m.attr[Here(m)][Page(a)], Asking.read)

Forbidden(m, a, kind) ==
  Bit(m.prot, Arming[kind]) /\ Bit(m.attr[Here(m)][Page(a)], Asking[kind])

\* read8 ("read") and read8_fetch ("execute").
Value(m, a, kind) ==
  CASE InWindow(a) -> RegValue(m, Offset(a))
    [] ~ InWindow(a) /\ Mapped(m, a) /\ ~ Forbidden(m, a, kind) -> m.phys[Cell(m, a)]
    [] OTHER -> IF kind = "read" THEN 255 ELSE 0

AfterRead(m, a, kind) ==
  CASE InWindow(a) -> AfterRegRead(m, Offset(a))
    [] ~ InWindow(a) /\ Mapped(m, a) /\ Forbidden(m, a, kind) ->
         [m EXCEPT !.fault = @ \cup {kind}]
    [] OTHER -> m

\* write8
AfterWrite(m, a, byte) ==
  CASE InWindow(a) -> AfterRegWrite(m, Offset(a), byte)
    [] ~ InWindow(a) /\ Mapped(m, a) ->
         IF Forbidden(m, a, "write") THEN [m EXCEPT !.fault = @ \cup {"write"}]
         ELSE [m EXCEPT !.phys[Cell(m, a)] = byte]
    [] OTHER -> m

\* store_physical_slice, which stores all bytes or none, and clear_physical
StorePhysical(m, at, bytes) ==
  IF at + Len(bytes) > Frames * PageSize THEN m
  ELSE [m EXCEPT !.phys = [cell \in DOMAIN @ |->
          IF cell - at + 1 \in DOMAIN bytes THEN bytes[cell - at + 1] ELSE @[cell]]]

ClearPhysical(m, byte) == [m EXCEPT !.phys = [cell \in DOMAIN @ |-> byte]]

\* The input that a fault asserts.
FaultLines(m) ==
  IF m.fault = {} \/ ~ Bit(m.prot, 1) THEN {}
  ELSE {IF Bit(m.prot, 4) THEN "firq" ELSE "irq"}

=============================================================================
