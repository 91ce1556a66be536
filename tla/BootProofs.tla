----------------------------- MODULE BootProofs -----------------------------
(***************************************************************************)
(* That a boot script, its guest and the host get what they are promised   *)
(* of the MMU and of the watched range, for every size of the memory, of   *)
(* its pages and of the window, every script, every configuration and      *)
(* every image.                                                            *)
(***************************************************************************)
EXTENDS Boot, SequenceTheorems, TLAPS

-----------------------------------------------------------------------------
(* Addresses, pages and frames.                                            *)

LEMMA DivMod ==
  ASSUME NEW n \in Nat, NEW s \in Nat \ {0}
  PROVE  /\ n \div s \in Nat
         /\ n % s \in 0 .. s - 1
         /\ n = s * (n \div s) + (n % s)
OBVIOUS

LEMMA Parts ==
  ASSUME NEW n \in Nat, NEW s \in Nat \ {0}
  PROVE  \E q \in Nat, r \in 0 .. s - 1 : q = n \div s /\ r = n % s /\ n = s * q + r
BY DivMod, Zenon

LEMMA Grows ==
  ASSUME NEW s \in Nat, NEW a \in Int, NEW b \in Int, a <= b
  PROVE  a * s <= b * s
OBVIOUS

LEMMA OneMore ==
  ASSUME NEW s \in Int, NEW a \in Int
  PROVE  (a + 1) * s = a * s + s
OBVIOUS

LEMMA Sizes ==
  /\ Pages \in Nat /\ Pages >= 2 /\ Words \in Nat /\ Pages <= Words /\ 256 <= Words
  /\ PageSize \in Nat \ {0} /\ Frames \in Nat \ {0} /\ Tasks \in Nat \ {0}
  /\ Space \in Nat \ {0} /\ WindowBase \in Nat /\ WindowBase < Space
  /\ WindowBase + AttrRegs + Pages <= Space
<1>1. /\ Pages \in Nat /\ Pages >= 2 /\ Words \in Nat /\ Pages <= Words /\ 256 <= Words
      /\ PageSize \in Nat \ {0} /\ Frames \in Nat \ {0} /\ Tasks \in Nat \ {0}
      /\ WindowBase \in Addr /\ WindowBase + AttrRegs + Pages <= Space
  BY BootAssumption
<1>2. Pages * PageSize \in Nat \ {0}
  BY <1>1
<1> QED
  BY <1>1, <1>2 DEF Space, Addr

LEMMA PageIsEntry == \A p \in 0 .. Pages - 1 : p \in Entry
BY Sizes DEF Entry

LEMMA ByteIsEntry == \A byte \in Byte : byte \in Entry
BY Sizes DEF Entry, Byte

LEMMA PageType ==
  ASSUME NEW a \in Addr
  PROVE  Page(a) \in 0 .. Pages - 1
<1>1. PICK p \in Nat, s \in Nat \ {0} : p = Pages /\ s = PageSize
  BY Sizes
<1>2. a \in Nat /\ a < p * s
  BY <1>1, Sizes DEF Addr, Space
<1>3. PICK q \in Nat, r \in 0 .. s - 1 : q = a \div s /\ a = s * q + r
  BY <1>2, Parts
<1>4. ~ p <= q
  <2> SUFFICES ASSUME p <= q PROVE FALSE
    OBVIOUS
  <2>1. p * s <= q * s
    BY Grows
  <2> QED
    BY <1>2, <1>3, <2>1
<1> QED
  BY <1>1, <1>3, <1>4 DEF Page

\* The frame that a cell is in is the only one.
LEMMA OneFrame ==
  ASSUME NEW s \in Nat \ {0}, NEW f \in Nat, NEW r \in 0 .. s - 1, NEW g \in Nat,
         f * s + r \in g * s .. (g + 1) * s - 1
  PROVE  f = g
<1>1. PICK x \in Nat, y \in Nat : x = f * s /\ y = g * s
  OBVIOUS
<1>2. y <= x + r /\ x + r <= y + s - 1
  BY <1>1, OneMore
<1>3. CASE f + 1 <= g
  <2>1. (f + 1) * s <= g * s
    BY <1>3, Grows
  <2> QED
    BY <1>1, <1>2, <2>1, OneMore
<1>4. CASE g + 1 <= f
  <2>1. (g + 1) * s <= f * s
    BY <1>4, Grows
  <2> QED
    BY <1>1, <1>2, <2>1, OneMore
<1> QED
  BY <1>3, <1>4

Registers == 0 .. AttrRegs + Pages - 1

\* A register is found at its address, for the window does not go past the top.
LEMMA RegisterAt ==
  ASSUME NEW r \in Registers
  PROVE  WindowBase + r \in Addr /\ InWindow(WindowBase + r) /\ Offset(WindowBase + r) = r
<1>1. PICK w \in Nat, s \in Nat \ {0}, n \in Nat : w = WindowBase /\ s = Space /\ n = AttrRegs + Pages
  BY Sizes DEF AttrRegs
<1>2. r \in 0 .. n - 1 /\ w + n <= s
  BY <1>1, Sizes DEF Registers, AttrRegs
<1>3. (w + r) - w = r /\ r % s = r
  BY <1>2
<1> QED
  BY <1>1, <1>2, <1>3 DEF Addr, InWindow, Offset

LEMMA OffsetType ==
  ASSUME NEW a \in Addr, InWindow(a)
  PROVE  Offset(a) \in Registers
<1>1. PICK w \in Nat, s \in Nat \ {0} : w = WindowBase /\ s = Space /\ a \in 0 .. s - 1
  BY Sizes DEF Addr
<1>2. (a - w) % s \in 0 .. s - 1
  BY <1>1
<1> QED
  BY <1>1, <1>2, Sizes DEF Offset, InWindow, Registers, AttrRegs

\* The status is where it is said to be, and nowhere else.
LEMMA StatusAt ==
  ASSUME NEW a \in Addr
  PROVE  InWindow(a) /\ Offset(a) = StatusReg <=> a = WindowBase + StatusReg
<1>1. PICK w \in Nat, s \in Nat \ {0}, t \in Nat :
        w = WindowBase /\ s = Space /\ t = StatusReg /\ a \in 0 .. s - 1 /\ w + t < s
  BY Sizes DEF Addr, StatusReg, AttrRegs
<1>2. (a - w) % s = t => a = w + t
  <2>1. CASE w <= a
    <3>1. (a - w) % s = a - w
      BY <1>1, <2>1
    <3> QED
      BY <1>1, <3>1
  <2>2. CASE a < w
    <3>1. a - w + s \in 0 .. s - 1 /\ (a - w) % s = a - w + s
      BY <1>1, <2>2
    <3> QED
      BY <1>1, <3>1
  <2> QED
    BY <1>1, <2>1, <2>2
<1>3. StatusReg \in Registers
  BY Sizes DEF StatusReg, AttrRegs, Registers
<1> QED
  BY <1>1, <1>2, <1>3, RegisterAt DEF Offset

-----------------------------------------------------------------------------
(* The MMU keeps its shape, and what its operations leave alone.           *)

Kinds == {"write", "read", "execute"}

LEMMA HereType ==
  ASSUME NEW m \in Mmu
  PROVE  Here(m) \in Context
BY DEF Mmu, Here, Context

LEMMA NewMmuType == NewMmu \in Mmu
<1>1. ASSUME NEW c \in Context, NEW p \in 0 .. Pages - 1
      PROVE  (IF c[2] = 0 THEN p ELSE 0) \in Entry
  BY Sizes DEF Entry
<1>2. 0 \in 0 .. Tasks - 1 /\ 0 \in Byte
  BY Sizes DEF Byte
<1> QED
  BY <1>1, <1>2 DEF NewMmu, Mmu

LEMMA SetMapEntryIs ==
  ASSUME NEW m \in Mmu, NEW p \in 0 .. Pages - 1, NEW f \in Entry
  PROVE  LET new == SetMapEntry(m, p, f)
         IN  /\ new \in Mmu
             /\ new.phys = m.phys /\ new.fault = m.fault
             /\ new.sys = m.sys /\ new.task = m.task
             /\ new.map[Here(m)][p] = f
<1>1. /\ m.map \in [Context -> [0 .. Pages - 1 -> Entry]]
      /\ Here(m) \in Context
  BY HereType DEF Mmu
<1>2. [m.map[Here(m)] EXCEPT ![p] = f] \in [0 .. Pages - 1 -> Entry]
  BY <1>1
<1>3. PICK g : g = [m.map EXCEPT ![Here(m)] = [m.map[Here(m)] EXCEPT ![p] = f]]
  OBVIOUS
<1>4. g \in [Context -> [0 .. Pages - 1 -> Entry]] /\ g[Here(m)][p] = f
  BY <1>1, <1>2, <1>3
<1>5. SetMapEntry(m, p, f) = [m EXCEPT !.map = g]
  BY <1>3 DEF SetMapEntry
<1> QED
  BY <1>4, <1>5 DEF Mmu

LEMMA SetTaskIs ==
  ASSUME NEW m \in Mmu, NEW n \in Nat
  PROVE  LET new == SetTask(m, n)
         IN  new \in Mmu /\ new.phys = m.phys /\ new.fault = m.fault
<1>1. n % Tasks \in 0 .. Tasks - 1
  BY Sizes, DivMod
<1> QED
  BY <1>1 DEF SetTask, TaskOf, Mmu

LEMMA IdentityMapIs ==
  ASSUME NEW m \in Mmu
  PROVE  LET new == IdentityMap(m)
         IN  new \in Mmu /\ new.phys = m.phys /\ new.fault = m.fault
<1> DEFINE g == [c \in Context |-> IF c[2] = m.task THEN [p \in 0 .. Pages - 1 |-> p] ELSE m.map[c]]
<1>1. \A p \in 0 .. Pages - 1 : p \in Entry
  BY PageIsEntry
<1>2. m.map \in [Context -> [0 .. Pages - 1 -> Entry]]
  BY DEF Mmu
<1>3. g \in [Context -> [0 .. Pages - 1 -> Entry]]
  BY <1>1, <1>2
<1>4. IdentityMap(m) = [m EXCEPT !.map = g]
  BY DEF IdentityMap
<1> HIDE DEF g
<1> QED
  BY <1>3, <1>4 DEF Mmu

\* A write to a register changes neither memory nor the status.
LEMMA AfterRegWriteIs ==
  ASSUME NEW m \in Mmu, NEW r \in Registers, NEW byte \in Byte
  PROVE  LET new == AfterRegWrite(m, r, byte)
         IN  new \in Mmu /\ new.phys = m.phys /\ new.fault = m.fault
<1>0. byte \in Nat /\ byte \in Entry
  BY ByteIsEntry DEF Byte
<1>1. CASE r < Pages
  <2>1. AfterRegWrite(m, r, byte) = SetMapEntry(m, r, byte) /\ r \in 0 .. Pages - 1
    BY <1>1, Sizes DEF AfterRegWrite, Registers, TaskReg, ModeReg, ProtReg, AttrRegs
  <2> QED
    BY <1>0, <2>1, SetMapEntryIs
<1>2. CASE r = TaskReg
  <2>1. AfterRegWrite(m, r, byte) = SetTask(m, byte)
    BY <1>2, Sizes DEF AfterRegWrite, Registers, TaskReg, ModeReg, ProtReg, AttrRegs
  <2> QED
    BY <1>0, <2>1, SetTaskIs
<1>3. CASE r = ModeReg
  <2>1. AfterRegWrite(m, r, byte) = [m EXCEPT !.sys = (byte % 2 = 1)]
    BY <1>3, Sizes DEF AfterRegWrite, Registers, TaskReg, ModeReg, ProtReg, AttrRegs
  <2>2. (byte % 2 = 1) \in BOOLEAN
    OBVIOUS
  <2> QED
    BY <2>1, <2>2 DEF Mmu
<1>4. CASE r = ProtReg
  <2>1. AfterRegWrite(m, r, byte) = [m EXCEPT !.prot = byte]
    BY <1>4, Sizes DEF AfterRegWrite, Registers, TaskReg, ModeReg, ProtReg, AttrRegs
  <2> QED
    BY <2>1 DEF Mmu
<1>5. CASE r >= AttrRegs
  <2>1. AfterRegWrite(m, r, byte) = [m EXCEPT !.attr[Here(m)][r - AttrRegs] = byte]
    BY <1>5, Sizes DEF AfterRegWrite, Registers, TaskReg, ModeReg, ProtReg, AttrRegs
  <2>2. PICK p \in 0 .. Pages - 1 : p = r - AttrRegs
    BY <1>5, Sizes DEF Registers, AttrRegs
  <2>3. PICK g : g = [m.attr EXCEPT ![Here(m)] = [m.attr[Here(m)] EXCEPT ![p] = byte]]
    OBVIOUS
  <2>4. m.attr \in [Context -> [0 .. Pages - 1 -> Byte]] /\ Here(m) \in Context
    BY HereType DEF Mmu
  <2>5. g \in [Context -> [0 .. Pages - 1 -> Byte]]
    BY <2>3, <2>4
  <2>6. AfterRegWrite(m, r, byte) = [m EXCEPT !.attr = g]
    BY <2>1, <2>2, <2>3
  <2> QED
    BY <2>5, <2>6 DEF Mmu
<1>6. CASE ~ r < Pages /\ r \notin {TaskReg, ModeReg, ProtReg} /\ ~ r >= AttrRegs
  BY <1>6 DEF AfterRegWrite
<1> QED
  BY <1>1, <1>2, <1>3, <1>4, <1>5, <1>6

LEMMA AfterRegReadIs ==
  ASSUME NEW m \in Mmu, NEW r
  PROVE  LET new == AfterRegRead(m, r)
         IN  /\ new \in Mmu
             /\ new = [m EXCEPT !.fault = new.fault]
             /\ new.fault = IF r = StatusReg THEN {} ELSE m.fault
BY DEF AfterRegRead, Mmu

\* The kind of access that m refuses at a, if it does.
Refusal(m, a, kind) ==
  IF ~ InWindow(a) /\ Mapped(m, a) /\ Forbidden(m, a, kind) THEN {kind} ELSE {}

\* A read changes nothing but the status: it takes the status back that it
\* answers, and adds what is refused.
LEMMA AfterReadIs ==
  ASSUME NEW m \in Mmu, NEW a \in Addr, NEW kind \in Kinds
  PROVE  LET new == AfterRead(m, a, kind)
         IN  /\ new \in Mmu
             /\ new = [m EXCEPT !.fault = new.fault]
             /\ new.fault = IF a = WindowBase + StatusReg THEN {}
                           ELSE m.fault \cup Refusal(m, a, kind)
<1>1. CASE InWindow(a)
  <2>1. AfterRead(m, a, kind) = AfterRegRead(m, Offset(a)) /\ Refusal(m, a, kind) = {}
    BY <1>1 DEF AfterRead, Refusal
  <2>2. Offset(a) = StatusReg <=> a = WindowBase + StatusReg
    BY <1>1, StatusAt
  <2> QED
    BY <2>1, <2>2, AfterRegReadIs
<1>2. CASE ~ InWindow(a) /\ Mapped(m, a) /\ Forbidden(m, a, kind)
  <2>1. AfterRead(m, a, kind) = [m EXCEPT !.fault = @ \cup {kind}]
    BY <1>2 DEF AfterRead
  <2> QED
    BY <1>2, <2>1, StatusAt DEF Refusal, Mmu, Kinds
<1>3. CASE ~ InWindow(a) /\ ~ (Mapped(m, a) /\ Forbidden(m, a, kind))
  <2>1. AfterRead(m, a, kind) = m
    BY <1>3 DEF AfterRead
  <2> QED
    BY <1>3, <2>1, StatusAt DEF Refusal, Mmu
<1> QED
  BY <1>1, <1>2, <1>3

\* A write changes at most the cell that its address is mapped to, unless it is
\* refused; one to a register changes none.
LEMMA AfterWriteIs ==
  ASSUME NEW m \in Mmu, NEW a \in Addr, NEW byte \in Byte
  PROVE  LET new == AfterWrite(m, a, byte)
         IN  /\ new \in Mmu
             /\ new.fault = m.fault \cup Refusal(m, a, "write")
             /\ \A cell \in 0 .. Frames * PageSize - 1 :
                  \/ new.phys[cell] = m.phys[cell]
                  \/ ~ InWindow(a) /\ cell = Cell(m, a) /\ ~ Forbidden(m, a, "write")
<1>1. CASE InWindow(a)
  <2>1. AfterWrite(m, a, byte) = AfterRegWrite(m, Offset(a), byte) /\ Refusal(m, a, "write") = {}
    BY <1>1 DEF AfterWrite, Refusal
  <2> QED
    BY <1>1, <2>1, OffsetType, AfterRegWriteIs
<1>2. CASE ~ InWindow(a) /\ Mapped(m, a) /\ Forbidden(m, a, "write")
  <2>1. AfterWrite(m, a, byte) = [m EXCEPT !.fault = @ \cup {"write"}]
    BY <1>2 DEF AfterWrite
  <2> QED
    BY <1>2, <2>1 DEF Refusal, Mmu
<1>3. CASE ~ InWindow(a) /\ Mapped(m, a) /\ ~ Forbidden(m, a, "write")
  <2>1. PICK c : c = Cell(m, a)
    OBVIOUS
  <2>2. AfterWrite(m, a, byte) = [m EXCEPT !.phys[c] = byte]
    BY <1>3, <2>1 DEF AfterWrite
  <2>3. m.phys \in [0 .. Frames * PageSize - 1 -> Byte]
    BY DEF Mmu
  <2>4. PICK g : g = [m.phys EXCEPT ![c] = byte]
    OBVIOUS
  <2>5. /\ g \in [0 .. Frames * PageSize - 1 -> Byte]
        /\ \A cell \in 0 .. Frames * PageSize - 1 : g[cell] = m.phys[cell] \/ cell = c
    BY <2>3, <2>4
  <2>6. AfterWrite(m, a, byte) = [m EXCEPT !.phys = g]
    BY <2>2, <2>4
  <2>7. [m EXCEPT !.phys = g] \in Mmu
    BY <2>5 DEF Mmu
  <2>8. [m EXCEPT !.phys = g].phys = g /\ [m EXCEPT !.phys = g].fault = m.fault
    BY DEF Mmu
  <2>9. Refusal(m, a, "write") = {}
    BY <1>3 DEF Refusal
  <2> QED
    BY <1>3, <2>1, <2>5, <2>6, <2>7, <2>8, <2>9
<1>4. CASE ~ InWindow(a) /\ ~ Mapped(m, a)
  <2>1. AfterWrite(m, a, byte) = m
    BY <1>4 DEF AfterWrite
  <2> QED
    BY <1>4, <2>1 DEF Refusal
<1> QED
  BY <1>1, <1>2, <1>3, <1>4

\* What a write to a register does, given by its address.
LEMMA WriteRegister ==
  ASSUME NEW m \in Mmu, NEW r \in Registers, NEW byte \in Byte
  PROVE  /\ AfterWrite(m, WindowBase + r, byte) = AfterRegWrite(m, r, byte)
         /\ AfterWrite(m, WindowBase + r, byte) \in Mmu
         /\ AfterWrite(m, WindowBase + r, byte).phys = m.phys
         /\ AfterWrite(m, WindowBase + r, byte).fault = m.fault
<1>1. AfterWrite(m, WindowBase + r, byte) = AfterRegWrite(m, r, byte)
  BY RegisterAt DEF AfterWrite
<1> QED
  BY <1>1, AfterRegWriteIs

LEMMA StorePhysicalIs ==
  ASSUME NEW m \in Mmu, NEW at \in Nat, NEW bytes \in Seq(Byte)
  PROVE  LET new == StorePhysical(m, at, bytes)
         IN  new \in Mmu /\ new.fault = m.fault
<1> DEFINE g == [cell \in DOMAIN m.phys |->
                   IF cell - at + 1 \in DOMAIN bytes THEN bytes[cell - at + 1] ELSE m.phys[cell]]
<1>1. m.phys \in [0 .. Frames * PageSize - 1 -> Byte]
  BY DEF Mmu
<1>2. \A k \in DOMAIN bytes : bytes[k] \in Byte
  OBVIOUS
<1>3. g \in [0 .. Frames * PageSize - 1 -> Byte]
  BY <1>1, <1>2
<1>4. StorePhysical(m, at, bytes) \in {m, [m EXCEPT !.phys = g]}
  BY DEF StorePhysical
<1> HIDE DEF g
<1>5. [m EXCEPT !.phys = g] \in Mmu /\ [m EXCEPT !.phys = g].fault = m.fault
  BY <1>3 DEF Mmu
<1> QED
  BY <1>4, <1>5

LEMMA ClearPhysicalIs ==
  ASSUME NEW m \in Mmu, NEW byte \in Byte
  PROVE  LET new == ClearPhysical(m, byte)
         IN  new \in Mmu /\ new.fault = m.fault
BY DEF ClearPhysical, Mmu

-----------------------------------------------------------------------------
(* Configurations.                                                         *)

LEMMA DirectedIs ==
  ASSUME NEW m \in Mmu, NEW d \in Directives
  PROVE  LET new == Directed(m, d)
         IN  new \in Mmu /\ new.fault = m.fault
<1>1. /\ ModeReg \in Registers /\ ProtReg \in Registers /\ 0 \in Byte /\ 1 \in Byte
      /\ \A p \in 0 .. Pages - 1 : AttrRegs + p \in Registers
  BY Sizes DEF ModeReg, ProtReg, AttrRegs, Registers, Byte
<1>2. \A n \in Entry : n % 256 \in Byte
  BY Sizes DEF Entry, Byte
<1>3. CASE d.op = "task"
  <2>1. d.n \in Nat
    BY <1>3 DEF Directives, Byte
  <2>2. Directed(m, d) = SetTask(m, d.n)
    BY <1>3 DEF Directed
  <2> QED
    BY <2>1, <2>2, SetTaskIs
<1>4. CASE d.op = "mode"
  <2>1. PICK byte \in Byte : byte = IF d.on THEN 1 ELSE 0
    BY <1>1
  <2>2. PICK r \in Registers : r = ModeReg
    BY <1>1
  <2>3. Directed(m, d) = AfterWrite(m, WindowBase + r, byte)
    BY <1>4, <2>1, <2>2 DEF Directed
  <2> QED
    BY <2>3, WriteRegister
<1>5. CASE d.op = "prot"
  <2>1. d.n \in Entry
    BY <1>5 DEF Directives
  <2>2. PICK byte \in Byte : byte = d.n % 256
    BY <1>2, <2>1
  <2>3. PICK r \in Registers : r = ProtReg
    BY <1>1
  <2>4. Directed(m, d) = AfterWrite(m, WindowBase + r, byte)
    BY <1>5, <2>2, <2>3 DEF Directed
  <2> QED
    BY <2>4, WriteRegister
<1>6. CASE d.op = "map"
  <2>1. d.page \in 0 .. Pages - 1 /\ d.frame \in Entry
    BY <1>6 DEF Directives
  <2>2. Directed(m, d) = SetMapEntry(m, d.page, d.frame)
    BY <1>6 DEF Directed
  <2> QED
    BY <2>1, <2>2, SetMapEntryIs
<1>7. CASE d.op = "attr"
  <2>1. d.page \in 0 .. Pages - 1 /\ d.n \in Entry
    BY <1>7 DEF Directives
  <2>2. PICK byte \in Byte, r \in Registers : byte = d.n % 256 /\ r = AttrRegs + d.page
    BY <1>1, <1>2, <2>1
  <2>3. WindowBase + AttrRegs + d.page = WindowBase + r
    BY <2>1, <2>2, Sizes DEF AttrRegs
  <2>4. Directed(m, d) = AfterWrite(m, WindowBase + r, byte)
    BY <1>7, <2>2, <2>3 DEF Directed
  <2> QED
    BY <2>4, WriteRegister
<1>8. CASE d.op = "identity"
  BY <1>8, IdentityMapIs DEF Directed
<1> QED
  BY <1>3, <1>4, <1>5, <1>6, <1>7, <1>8 DEF Directives

-----------------------------------------------------------------------------
(* The bus.                                                                *)

LEMMA BusFields ==
  ASSUME NEW b \in Bus
  PROVE  /\ b.paged \in BOOLEAN /\ b.io \in BOOLEAN /\ b.dirty \in BOOLEAN
         /\ b.mmu \in Mmu /\ b.ram \in [Addr -> Byte] /\ b.block \in Settings
         /\ b.watch \in Addr \X (0 .. Space - 1)
BY DEF Bus

\* A remainder of what goes past the top at most once.
LEMMA Wraps ==
  ASSUME NEW m \in Nat \ {0}, NEW x \in Nat, x < m + m
  PROVE  x % m = IF x < m THEN x ELSE x - m
<1>1. CASE x < m
  BY <1>1
<1>2. CASE ~ x < m
  <2>1. PICK y \in 0 .. m - 1 : y = x - m
    BY <1>2
  <2>2. x = m * 1 + y
    BY <2>1
  <2>3. x % m = y
    BY <2>1, <2>2
  <2> QED
    BY <1>2, <2>1, <2>3
<1> QED
  BY <1>1, <1>2

\* A write to an address of the watched range is noticed, however the range lies.
LEMMA WatchedIs ==
  ASSUME NEW b \in Bus, NEW a \in Watched(b)
  PROVE  b.io /\ WatchesAddr(b, a)
<1>1. b.io
  BY DEF Watched
<1>2. PICK m \in Nat \ {0}, s \in Nat, n \in Nat :
        m = Space /\ s = b.watch[1] /\ n = b.watch[2] /\ s < m /\ n < m
  <2>1. b.watch[1] \in Addr /\ b.watch[2] \in 0 .. Space - 1
    BY BusFields
  <2> QED
    BY <2>1, Sizes DEF Addr
<1>3. a \in {(s + i) % m : i \in 0 .. n - 1}
  BY <1>1, <1>2 DEF Watched
<1>4. PICK i \in 0 .. n - 1 : a = (s + i) % m
  BY <1>3
<1>5. n > 0 /\ i \in Nat
  BY <1>2, <1>4
<1>6. a = IF s + i < m THEN s + i ELSE s + i - m
  <2>1. PICK x \in Nat : x = s + i /\ x < m + m
    BY <1>2, <1>4, <1>5
  <2>2. a = x % m
    BY <1>4, <2>1, Zenon
  <2>3. x < m + m
    BY <2>1
  <2>4. x % m = IF x < m THEN x ELSE x - m
    BY <2>3, Wraps
  <2>5. a = IF x < m THEN x ELSE x - m
    BY <2>2, <2>4, Zenon
  <2> QED
    BY <2>1, <2>5
<1>7. PICK e \in Nat : e = (s + n) % m /\ e = IF s + n < m THEN s + n ELSE s + n - m
  <2>1. PICK x \in Nat : x = s + n /\ x < m + m
    BY <1>2
  <2>2. PICK e \in Nat : e = x % m
    BY DivMod
  <2>3. e = (s + n) % m
    BY <2>1, <2>2, Zenon
  <2>4. x < m + m
    BY <2>1
  <2>5. x % m = IF x < m THEN x ELSE x - m
    BY <2>4, Wraps
  <2>6. e = IF x < m THEN x ELSE x - m
    BY <2>2, <2>5, Zenon
  <2>7. e = IF s + n < m THEN s + n ELSE s + n - m
    BY <2>1, <2>6
  <2> QED
    BY <2>3, <2>7, Zenon
<1>8. IF s <= e THEN a >= s /\ a < e ELSE a >= s \/ a < e
  BY <1>2, <1>4, <1>5, <1>6, <1>7
<1> QED
  BY <1>1, <1>2, <1>5, <1>7, <1>8 DEF WatchesAddr

\* A register is reached on every bus with an MMU, for the console is not in the window.
LEMMA ConsoleApart ==
  ASSUME NEW b \in Bus, NEW a \in Addr, InWindow(a)
  PROVE  ~ ToConsole(b, a)
BY BootAssumption DEF ToConsole

\* A store that reaches the inner bus.
ToInner(b, a, byte) == IF b.paged THEN AfterWrite(b.mmu, a, byte) ELSE b.mmu

LEMMA AfterStoreIs ==
  ASSUME NEW b \in Bus, NEW a \in Addr, NEW byte \in Byte
  PROVE  LET new == AfterStore(b, a, byte)
         IN  /\ new \in Bus
             /\ new.paged = b.paged /\ new.io = b.io /\ new.watch = b.watch
             /\ new.dirty = (b.dirty \/ (b.io /\ WatchesAddr(b, a)))
             /\ new.mmu = IF ToConsole(b, a) THEN b.mmu ELSE ToInner(b, a, byte)
             /\ b.paged => new.ram = b.ram
<1> DEFINE noticed == [b EXCEPT !.dirty = b.dirty \/ (b.io /\ WatchesAddr(b, a))]
<1>1. /\ b.io \in BOOLEAN /\ b.dirty \in BOOLEAN /\ WatchesAddr(b, a) \in BOOLEAN
      /\ b.mmu \in Mmu /\ b.ram \in [Addr -> Byte]
  BY BusFields DEF WatchesAddr
<1>2. /\ noticed \in Bus
      /\ noticed.paged = b.paged /\ noticed.io = b.io /\ noticed.watch = b.watch
      /\ noticed.dirty = (b.dirty \/ (b.io /\ WatchesAddr(b, a)))
      /\ noticed.mmu = b.mmu /\ noticed.ram = b.ram
  BY <1>1 DEF Bus
<1>3. AfterStore(b, a, byte) =
        CASE ToConsole(b, a) /\ a = ConsoleBase -> [noticed EXCEPT !.ctrl = byte]
          [] ToConsole(b, a) /\ a # ConsoleBase -> noticed
          [] OTHER -> InnerAfterStore(noticed, a, byte)
  BY DEF AfterStore
<1> HIDE DEF noticed
<1>4. CASE ToConsole(b, a) /\ a = ConsoleBase
  <2>1. AfterStore(b, a, byte) = [noticed EXCEPT !.ctrl = byte]
    BY <1>3, <1>4
  <2> QED
    BY <1>2, <1>4, <2>1 DEF Bus
<1>5. CASE ToConsole(b, a) /\ a # ConsoleBase
  <2>1. AfterStore(b, a, byte) = noticed
    BY <1>3, <1>5
  <2> QED
    BY <1>2, <1>5, <2>1
<1>6. CASE ~ ToConsole(b, a) /\ b.paged
  <2>1. AfterStore(b, a, byte) = InnerAfterStore(noticed, a, byte)
    BY <1>3, <1>6
  <2>2. PICK m \in Mmu : m = AfterWrite(b.mmu, a, byte)
    BY <1>1, AfterWriteIs
  <2>3. AfterStore(b, a, byte) = [noticed EXCEPT !.mmu = m]
    BY <1>2, <1>6, <2>1, <2>2 DEF InnerAfterStore
  <2> QED
    BY <1>2, <1>6, <2>2, <2>3 DEF Bus, ToInner
<1>7. CASE ~ ToConsole(b, a) /\ ~ b.paged
  <2>1. AfterStore(b, a, byte) = InnerAfterStore(noticed, a, byte)
    BY <1>3, <1>7
  <2>2. PICK ram \in [Addr -> Byte] : ram = [noticed.ram EXCEPT ![a] = byte]
    BY <1>1, <1>2
  <2>3. AfterStore(b, a, byte) = [noticed EXCEPT !.ram = ram]
    BY <1>2, <1>7, <2>1, <2>2 DEF InnerAfterStore
  <2> QED
    BY <1>2, <1>7, <2>2, <2>3 DEF Bus, ToInner
<1> QED
  BY <1>4, <1>5, <1>6, <1>7

LEMMA AfterLoadIs ==
  ASSUME NEW b \in Bus, NEW a \in Addr, NEW kind \in Kinds
  PROVE  LET new == AfterLoad(b, a, kind)
         IN  /\ new \in Bus
             /\ new = [b EXCEPT !.mmu = new.mmu]
             /\ new.mmu = IF ToConsole(b, a) \/ ~ b.paged THEN b.mmu ELSE AfterRead(b.mmu, a, kind)
<1>1. b.mmu \in Mmu
  BY BusFields
<1>2. PICK m \in Mmu : m = AfterRead(b.mmu, a, kind)
  BY <1>1, AfterReadIs
<1>3. CASE ToConsole(b, a) \/ ~ b.paged
  BY <1>3 DEF AfterLoad, Bus
<1>4. CASE ~ (ToConsole(b, a) \/ ~ b.paged)
  <2>1. AfterLoad(b, a, kind) = [b EXCEPT !.mmu = m]
    BY <1>2, <1>4 DEF AfterLoad
  <2> QED
    BY <1>2, <1>4, <2>1 DEF Bus
<1> QED
  BY <1>3, <1>4

-----------------------------------------------------------------------------
(* What is denied is what the MMU remembers.                               *)

LEMMA DeniedIs ==
  ASSUME NEW b \in Bus, NEW a \in Addr, NEW kind \in Kinds
  PROVE  Denied(b, a, kind) = IF b.paged /\ ~ ToConsole(b, a) THEN Refusal(b.mmu, a, kind) ELSE {}
BY DEF Denied, Refusal, Forbidden, Here

LEMMA LoadTells ==
  ASSUME NEW b \in Bus, NEW a \in Addr, NEW kind \in Kinds
  PROVE  AfterLoad(b, a, kind).mmu.fault = UnseenAfter(b.mmu.fault, b, a, kind)
<1>1. b.mmu \in Mmu
  BY BusFields
<1>2. a = WindowBase + StatusReg => ~ ToConsole(b, a)
  BY StatusAt, ConsoleApart
<1>3. CASE ToConsole(b, a) \/ ~ b.paged
  <2>1. AfterLoad(b, a, kind).mmu = b.mmu
    BY <1>3, AfterLoadIs
  <2>2. ~ ReadsStatus(b, a) /\ Denied(b, a, kind) = {}
    BY <1>2, <1>3, DeniedIs DEF ReadsStatus
  <2> QED
    BY <2>1, <2>2 DEF UnseenAfter
<1>4. CASE ~ (ToConsole(b, a) \/ ~ b.paged)
  <2>1. AfterLoad(b, a, kind).mmu = AfterRead(b.mmu, a, kind)
    BY <1>4, AfterLoadIs
  <2>2. ReadsStatus(b, a) <=> a = WindowBase + StatusReg
    BY <1>4 DEF ReadsStatus
  <2>3. Denied(b, a, kind) = Refusal(b.mmu, a, kind)
    BY <1>4, DeniedIs
  <2>4. AfterRead(b.mmu, a, kind).fault =
          IF a = WindowBase + StatusReg THEN {} ELSE b.mmu.fault \cup Refusal(b.mmu, a, kind)
    <3>1. PICK m \in Mmu : m = b.mmu
      BY <1>1
    <3>2. AfterRead(m, a, kind).fault =
            IF a = WindowBase + StatusReg THEN {} ELSE m.fault \cup Refusal(m, a, kind)
      BY AfterReadIs
    <3> QED
      BY <3>1, <3>2
  <2> QED
    BY <2>1, <2>2, <2>3, <2>4 DEF UnseenAfter
<1> QED
  BY <1>3, <1>4

LEMMA StoreTells ==
  ASSUME NEW b \in Bus, NEW a \in Addr, NEW byte \in Byte
  PROVE  AfterStore(b, a, byte).mmu.fault = b.mmu.fault \cup Denied(b, a, "write")
<1>1. b.mmu \in Mmu /\ "write" \in Kinds
  BY BusFields DEF Kinds
<1>2. CASE ToConsole(b, a) \/ ~ b.paged
  <2>1. AfterStore(b, a, byte).mmu = b.mmu
    BY <1>2, AfterStoreIs DEF ToInner
  <2>2. Denied(b, a, "write") = {}
    BY <1>1, <1>2, DeniedIs
  <2> QED
    BY <2>1, <2>2
<1>3. CASE ~ (ToConsole(b, a) \/ ~ b.paged)
  <2>1. AfterStore(b, a, byte).mmu = AfterWrite(b.mmu, a, byte)
    BY <1>3, AfterStoreIs DEF ToInner
  <2>2. Denied(b, a, "write") = Refusal(b.mmu, a, "write")
    BY <1>1, <1>3, DeniedIs
  <2> QED
    BY <1>1, <2>1, <2>2, AfterWriteIs
<1> QED
  BY <1>2, <1>3

-----------------------------------------------------------------------------
(* The actions of a script.                                                *)

MmuOps     == {"mode", "prot", "map", "attr"}
ConsoleOps == {"con_ctrl", "con_irq_hold", "con_rx_wm", "con_firq"}
BlockOps   == {"blk_irq", "blk_firq", "blk_irq_hold"}
CpuOps     == {"irq_mask", "firq_mask"}

LEMMA ActionIs ==
  ASSUME NEW act \in Actions
  PROVE  /\ act.op \in MmuOps \cup ConsoleOps \cup BlockOps \cup CpuOps
         /\ act.op \in {"mode", "irq_mask", "firq_mask", "blk_irq", "blk_firq"} => act.on \in BOOLEAN
         /\ act.op \in {"prot", "con_ctrl", "attr"} => act.byte \in Byte
         /\ act.op = "map" => act.frame \in Entry
         /\ act.op \in {"map", "attr"} => act.page \in Nat
         /\ act.op \in {"con_irq_hold", "blk_irq_hold"} => act.n \in Nat
BY DEF Actions, MmuOps, ConsoleOps, BlockOps, CpuOps

LEMMA TargetIs ==
  ASSUME NEW act \in Actions
  PROVE  /\ Target(act) \in {"mmu", "console", "block", "cpu"}
         /\ Target(act) = "mmu" <=> act.op \in MmuOps
         /\ Target(act) = "console" <=> act.op \in ConsoleOps
         /\ Target(act) = "block" <=> act.op \in BlockOps
         /\ Target(act) = "cpu" <=> act.op \in CpuOps
<1>1. CASE act.op \in MmuOps
  BY <1>1 DEF Target, MmuOps, ConsoleOps, BlockOps, CpuOps
<1>2. CASE act.op \in ConsoleOps
  BY <1>2 DEF Target, MmuOps, ConsoleOps, BlockOps, CpuOps
<1>3. CASE act.op \in BlockOps
  BY <1>3 DEF Target, MmuOps, ConsoleOps, BlockOps, CpuOps
<1>4. CASE act.op \in CpuOps
  BY <1>4 DEF Target, MmuOps, ConsoleOps, BlockOps, CpuOps
<1> QED
  BY <1>1, <1>2, <1>3, <1>4, ActionIs

\* The low byte of a frame is the frame itself, if that is a byte.
LEMMA LowByte ==
  ASSUME NEW frame \in Entry
  PROVE  /\ frame % 256 \in Byte
         /\ ~ (frame > 255) => frame % 256 = frame
<1>1. frame \in Nat
  BY Sizes DEF Entry
<1> QED
  BY <1>1 DEF Byte

LEMMA RegisterIs ==
  ASSUME NEW act \in Actions, Target(act) = "mmu"
  PROVE  Register(act) \in Registers /\ Written(act) \in Byte
<1>1. act.op \in MmuOps
  BY TargetIs
<1>2. Written(act) \in Byte
  <2>1. CASE act.op = "map"
    BY <2>1, ActionIs, LowByte DEF Written
  <2>2. CASE act.op # "map"
    BY <1>1, <2>2, ActionIs DEF Written, MmuOps, Byte
  <2> QED
    BY <2>1, <2>2
<1>3. ModeReg \in Registers /\ ProtReg \in Registers
  BY Sizes DEF ModeReg, ProtReg, AttrRegs, Registers
<1>4. CASE act.op \in {"mode", "prot"}
  BY <1>2, <1>3, <1>4 DEF Register
<1>5. CASE act.op \in {"map", "attr"}
  <2>1. PICK p \in 0 .. Pages - 1 : p = act.page % Pages
    <3>1. PICK n \in Nat, s \in Nat \ {0} : n = act.page /\ s = Pages
      BY <1>5, ActionIs, Sizes
    <3>2. n % s \in 0 .. s - 1
      BY DivMod
    <3> QED
      BY <3>1, <3>2
  <2>2. Register(act) \in {p, AttrRegs + p}
    BY <1>5, <2>1 DEF Register
  <2>3. p \in Registers /\ AttrRegs + p \in Registers
    BY Sizes DEF AttrRegs, Registers
  <2> QED
    BY <1>2, <2>2, <2>3
<1> QED
  BY <1>1, <1>4, <1>5 DEF MmuOps

\* An action on an MMU that is there writes the register it is for.
LEMMA AppliedToMmu ==
  ASSUME NEW b \in Bus, NEW act \in Actions, Target(act) = "mmu", HasMmu(b)
  PROVE  LET new == Applied(b, act)
             a   == WindowBase + Register(act)
         IN  /\ new = AfterStore(b, a, Written(act))
             /\ a \in Addr /\ ~ ToConsole(b, a) /\ b.paged
             /\ new.mmu = AfterRegWrite(b.mmu, Register(act), Written(act))
<1>1. PICK r \in Registers, byte \in Byte, a \in Addr :
        r = Register(act) /\ byte = Written(act) /\ a = WindowBase + r
  BY RegisterIs, RegisterAt
<1>2. Applied(b, act) = AfterStore(b, a, byte)
  <2>1. act.op \in MmuOps
    BY TargetIs
  <2> QED
    BY <1>1, <2>1 DEF Applied, MmuOps
<1>3. InWindow(a) /\ ~ ToConsole(b, a)
  BY <1>1, RegisterAt, ConsoleApart
<1>4. b.paged /\ b.mmu \in Mmu
  BY BusFields DEF HasMmu
<1>5. AfterStore(b, a, byte).mmu = AfterWrite(b.mmu, a, byte)
  BY <1>3, <1>4, AfterStoreIs DEF ToInner
<1>6. AfterWrite(b.mmu, a, byte) = AfterRegWrite(b.mmu, r, byte)
  BY <1>1, <1>4, WriteRegister
<1> QED
  BY <1>1, <1>2, <1>3, <1>4, <1>5, <1>6

\* What an action leaves alone, whatever its target, and what it notices.
LEMMA AppliedIs ==
  ASSUME NEW b \in Bus, NEW act \in Actions, Found(b, Target(act))
  PROVE  LET new == Applied(b, act)
         IN  /\ new \in Bus /\ new.paged = b.paged /\ new.ram = b.ram
             /\ new.mmu.phys = b.mmu.phys /\ new.mmu.fault = b.mmu.fault
             /\ b.dirty => new.dirty
             /\ Target(act) = "mmu" /\ WindowBase + Register(act) \in Watched(b) => new.dirty
<1>1. CASE Target(act) = "mmu"
  <2>1. HasMmu(b)
    BY <1>1 DEF Found
  <2>2. PICK r \in Registers, byte \in Byte, a \in Addr :
          /\ r = Register(act) /\ byte = Written(act) /\ a = WindowBase + r
          /\ Applied(b, act) = AfterStore(b, a, byte) /\ b.paged
          /\ Applied(b, act).mmu = AfterRegWrite(b.mmu, r, byte)
    BY <1>1, <2>1, RegisterIs, AppliedToMmu
  <2>3. b.mmu \in Mmu
    BY BusFields
  <2>4. Applied(b, act).mmu.phys = b.mmu.phys /\ Applied(b, act).mmu.fault = b.mmu.fault
    BY <2>2, <2>3, AfterRegWriteIs
  <2>5. a \in Watched(b) => b.io /\ WatchesAddr(b, a)
    BY WatchedIs
  <2>6. LET new == AfterStore(b, a, byte)
        IN  /\ new \in Bus /\ new.paged = b.paged /\ new.ram = b.ram
            /\ new.dirty = (b.dirty \/ (b.io /\ WatchesAddr(b, a)))
    BY <2>2, AfterStoreIs
  <2> QED
    BY <2>2, <2>4, <2>5, <2>6
<1>2. CASE Target(act) \in {"console", "cpu"}
  <2>1. act.op \in ConsoleOps \cup CpuOps
    BY <1>2, TargetIs
  <2>2. /\ act.op = "con_ctrl" => Applied(b, act) = [b EXCEPT !.ctrl = act.byte] /\ act.byte \in Byte
        /\ act.op = "con_irq_hold" => Applied(b, act) = [b EXCEPT !.hold = act.n] /\ act.n \in Nat
        /\ act.op \notin {"con_ctrl", "con_irq_hold"} => Applied(b, act) = b
    BY <1>2, <2>1, ActionIs DEF Applied, ConsoleOps, CpuOps
  <2> QED
    BY <1>2, <2>2 DEF Bus
<1>3. CASE Target(act) = "block"
  <2>1. act.op \in BlockOps
    BY <1>3, TargetIs
  <2>2. /\ act.op = "blk_irq" => Applied(b, act) = [b EXCEPT !.block.irq = act.on] /\ act.on \in BOOLEAN
        /\ act.op = "blk_firq" => Applied(b, act) = [b EXCEPT !.block.firq = act.on] /\ act.on \in BOOLEAN
        /\ act.op = "blk_irq_hold" => Applied(b, act) = [b EXCEPT !.block.hold = act.n] /\ act.n \in Nat
    BY <1>3, <2>1, ActionIs DEF Applied
  <2>3. b.block \in Settings
    BY BusFields
  <2>4. PICK s \in Settings : Applied(b, act) = [b EXCEPT !.block = s]
    <3>1. CASE act.op = "blk_irq"
      <4>1. [b.block EXCEPT !.irq = act.on] \in Settings
        BY <2>2, <2>3, <3>1 DEF Settings
      <4> QED
        BY <2>2, <3>1, <4>1
    <3>2. CASE act.op = "blk_firq"
      <4>1. [b.block EXCEPT !.firq = act.on] \in Settings
        BY <2>2, <2>3, <3>2 DEF Settings
      <4> QED
        BY <2>2, <3>2, <4>1
    <3>3. CASE act.op = "blk_irq_hold"
      <4>1. [b.block EXCEPT !.hold = act.n] \in Settings
        BY <2>2, <2>3, <3>3 DEF Settings
      <4> QED
        BY <2>2, <3>3, <4>1
    <3> QED
      BY <2>1, <3>1, <3>2, <3>3 DEF BlockOps
  <2> QED
    BY <1>3, <2>4 DEF Bus
<1> QED
  BY <1>1, <1>2, <1>3, TargetIs

-----------------------------------------------------------------------------
(* What is given to the machine.                                           *)

LEMMA SameType ==
  ASSUME NEW S, NEW s \in Seq(S), NEW t \in Seq(S)
  PROVE  s \o t \in Seq(S)
OBVIOUS

LEMMA FewType ==
  ASSUME NEW S, NEW a \in S, NEW b \in S, NEW c \in S, NEW d \in S
  PROVE  /\ <<a, b, c>> \in Seq(S)
         /\ <<a, b, c, d>> \in Seq(S)
OBVIOUS

LEMMA PresetType ==
  ASSUME NEW lines \in Presets
  PROVE  lines \in Seq(Directives)
<1>1. PICK n \in Nat : n = Pages \div 4 /\ 4 * n <= Pages
  <2>1. Pages \in Nat
    BY Sizes
  <2>2. Pages \div 4 \in Nat /\ 4 * (Pages \div 4) <= Pages
    BY <2>1
  <2> QED
    BY <2>2
<1>2. /\ 0 \in Byte /\ \A k \in {11, 4, 1, 3, 254} : k \in Entry
      /\ 0 \in 0 .. Pages - 1 /\ Pages - 1 \in 0 .. Pages - 1 /\ Pages - 2 \in 0 .. Pages - 1
  BY Sizes DEF Byte, Entry
<1>3. /\ Task(0) \in Directives /\ [op |-> "identity"] \in Directives
      /\ Mode(TRUE) \in Directives /\ Mode(FALSE) \in Directives
      /\ Prot(11) \in Directives /\ Prot(3) \in Directives
      /\ Attr(0, 4) \in Directives /\ Attr(Pages - 1, 1) \in Directives
      /\ Attr(Pages - 2, 4) \in Directives /\ Map(Pages - 2, 254) \in Directives
  BY <1>2 DEF Directives, Task, Mode, Prot, Attr, Map
<1>4. Fresh \in Seq(Directives)
  BY <1>3 DEF Fresh
<1>5. SystemReset \in Seq(Directives) /\ UserReset \in Seq(Directives)
  <2>1. /\ <<Mode(TRUE), Prot(11), Attr(0, 4), Attr(Pages - 1, 1)>> \in Seq(Directives)
        /\ <<Mode(FALSE), Prot(3), Attr(Pages - 1, 1)>> \in Seq(Directives)
    BY <1>3, FewType
  <2> QED
    BY <1>4, <2>1, SameType DEF SystemReset, UserReset
<1>6. Io \in Seq(Directives)
  <2>1. <<Attr(Pages - 2, 4), Map(Pages - 2, 254)>> \in Seq(Directives)
    BY <1>3
  <2> QED
    BY <1>5, <2>1, SameType DEF Io
<1>7. RamDisk \in Seq(Directives)
  <2>1. ASSUME NEW i \in 1 .. n
        PROVE  Map(Pages \div 2 + i - 1, 191 + i) \in Directives
    <3>1. PICK h \in Nat : h = Pages \div 2 /\ 2 * h <= Pages
      <4>1. Pages \div 2 \in Nat /\ 2 * (Pages \div 2) <= Pages
        BY Sizes
      <4> QED
        BY <4>1
    <3>2. h + i - 1 \in 0 .. Pages - 1
      BY <1>1, <3>1, Sizes
    <3>3. 191 + i \in Entry
      BY <1>1, Sizes, BootAssumption DEF Entry
    <3> QED
      BY <3>1, <3>2, <3>3 DEF Directives, Map
  <2>2. [i \in 1 .. n |-> Map(Pages \div 2 + i - 1, 191 + i)] \in Seq(Directives)
    BY <2>1, IsASeq
  <2> QED
    BY <1>1, <1>5, <2>2, SameType DEF RamDisk
<1> QED
  BY <1>5, <1>6, <1>7 DEF Presets, Os9l2, SysMap

Lines == Directives \cup Records \cup Refused

LEMMA LinesGiven ==
  ASSUME NEW lines \in Configs \cup Presets \cup Images
  PROVE  lines \in Seq(Lines)
<1>1. lines \in Seq(Directives \cup Refused) \cup Seq(Records \cup Refused) \cup Seq(Directives)
  BY PresetType, BootAssumption DEF Configurations, Programs
<1> QED
  BY <1>1 DEF Lines

-----------------------------------------------------------------------------
(* The inductive invariant.                                                *)

\* What the guest has not been told of is what the MMU remembers, and the flag is
\* up for what the host has not been told of.
Remembered == unseen = bus.mmu.fault /\ touched \in BOOLEAN /\ (touched => bus.dirty)

Counted == fired \in [DOMAIN Script -> Nat]

BootInv == TypeOK /\ Remembered /\ Counted

LEMMA NewBusType ==
  ASSUME NEW paged \in BOOLEAN, NEW io \in BOOLEAN, NEW attached \in SUBSET {"console", "block"},
         NEW watch \in Addr \X (0 .. Space - 1)
  PROVE  NewBus(paged, io, attached, watch) \in Bus
<1>1. /\ 0 \in Byte /\ [a \in Addr |-> 0] \in [Addr -> Byte]
      /\ [irq |-> FALSE, firq |-> FALSE, hold |-> 0] \in Settings
  BY DEF Byte, Settings
<1> QED
  BY <1>1, NewMmuType DEF NewBus, Bus

LEMMA Starts == Init => BootInv
<1> SUFFICES ASSUME Init PROVE BootInv
  OBVIOUS
<1>1. /\ bus \in Bus /\ bus.mmu.fault = {}
  <2>1. 0 \in Addr /\ 0 \in 0 .. Space - 1
    BY Sizes DEF Addr
  <2>2. PICK paged \in BOOLEAN, io \in BOOLEAN, attached \in SUBSET {"console", "block"},
             watch \in Addr \X (0 .. Space - 1) : bus = NewBus(paged, io, attached, watch)
    BY <2>1, BootAssumption DEF Init
  <2>3. bus.mmu = NewMmu
    BY <2>2 DEF NewBus
  <2>4. bus.mmu.fault = {}
    BY <2>3 DEF NewMmu
  <2> QED
    BY <2>2, <2>4, NewBusType
<1>2. call \in Call
  BY DEF Init, Call
<1>3. missing \in [{"mmu", "console", "block"} -> Nat] /\ fired \in [DOMAIN Script -> Nat]
  BY DEF Init
<1>4. cursor \in 1 .. Len(Script) + MaxSetup + 1 /\ step \in 0 .. MaxStep
  BY BootAssumption DEF Init
<1>5. pc \in Codes /\ masks \subseteq {"I", "F"} /\ phase \in {"setup", "pre", "step", "post"}
  BY DEF Init
<1>6. Remembered
  BY <1>1 DEF Init, Remembered
<1> QED
  BY <1>1, <1>2, <1>3, <1>4, <1>5, <1>6 DEF BootInv, TypeOK, Counted

\* What a step of the set-up has to keep, beside what it leaves alone.
LEMMA SetupKeeps ==
  ASSUME BootInv, Setup, bus' \in Bus, call' \in Call,
         cursor' \in 1 .. Len(Script) + MaxSetup + 1, Remembered'
  PROVE  BootInv'
BY DEF BootInv, TypeOK, Counted, Setup, sequencer

LEMMA OneMoreCall ==
  ASSUME BootInv, Prepares
  PROVE  cursor' \in 1 .. Len(Script) + MaxSetup + 1 /\ Setup
BY BootAssumption DEF BootInv, TypeOK, Prepares

LEMMA ConfigureKeeps ==
  ASSUME BootInv, Configure
  PROVE  BootInv'
<1>1. bus' \in Bus /\ Remembered'
  BY DEF BootInv, TypeOK, Configure, Remembered
<1>2. call' \in Call
  <2>1. PICK lines \in Configs \cup Presets : call' = [lines |-> lines, slices |-> FALSE]
    BY DEF Configure
  <2> QED
    BY <2>1, LinesGiven DEF Call, Lines
<1>3. Prepares
  BY DEF Configure
<1> QED
  BY <1>1, <1>2, <1>3, OneMoreCall, SetupKeeps

LEMMA LoadImageKeeps ==
  ASSUME BootInv, LoadImage
  PROVE  BootInv'
<1>1. bus' \in Bus /\ Remembered'
  BY DEF BootInv, TypeOK, LoadImage, Remembered
<1>2. call' \in Call
  <2>1. PICK image \in Images, slices \in BOOLEAN : call' = [lines |-> image, slices |-> slices]
    BY DEF LoadImage
  <2> QED
    BY <2>1, LinesGiven DEF Call, Lines
<1>3. Prepares
  BY DEF LoadImage
<1> QED
  BY <1>1, <1>2, <1>3, OneMoreCall, SetupKeeps

\* A change of the MMU that leaves its status alone.
LEMMA MmuKeeps ==
  ASSUME BootInv, NEW m \in Mmu, m.fault = bus.mmu.fault, bus' = [bus EXCEPT !.mmu = m],
         UNCHANGED <<unseen, touched>>
  PROVE  bus' \in Bus /\ Remembered'
<1>1. bus \in Bus
  BY DEF BootInv, TypeOK
<1>2. bus' \in Bus /\ bus'.mmu = m /\ bus'.dirty = bus.dirty
  BY <1>1 DEF Bus
<1> QED
  BY <1>2 DEF BootInv, Remembered

LEMMA LoadPhysicalKeeps ==
  ASSUME BootInv, LoadPhysical
  PROVE  BootInv'
<1>1. bus \in Bus /\ bus.mmu \in Mmu /\ call \in Call
  BY BusFields DEF BootInv, TypeOK
<1>2. PICK m \in Mmu : m.fault = bus.mmu.fault /\ bus' = [bus EXCEPT !.mmu = m]
  <2>1. CASE bus' = [bus EXCEPT !.mmu = ClearPhysical(@, 255)]
    <3>1. 255 \in Byte
      BY DEF Byte
    <3> QED
      BY <1>1, <2>1, <3>1, ClearPhysicalIs
  <2>2. ASSUME NEW image \in Images, NEW i \in DOMAIN image, image[i].op = "data",
               bus' = [bus EXCEPT !.mmu = StorePhysical(@, image[i].at, image[i].bytes)]
        PROVE  \E m \in Mmu : m.fault = bus.mmu.fault /\ bus' = [bus EXCEPT !.mmu = m]
    <3>1. image[i] \in Records \cup Refused
      BY BootAssumption DEF Programs
    <3>2. image[i].at \in Addr /\ image[i].bytes \in Seq(Byte)
      BY <2>2, <3>1 DEF Records, Refused
    <3>3. image[i].at \in Nat
      BY <3>2, Sizes DEF Addr
    <3> QED
      BY <1>1, <2>2, <3>2, <3>3, StorePhysicalIs
  <2> QED
    BY <2>1, <2>2 DEF LoadPhysical
<1>3. bus' \in Bus /\ Remembered'
  BY <1>2, MmuKeeps DEF LoadPhysical
<1>4. Prepares /\ call' \in Call
  BY <1>1 DEF LoadPhysical
<1> QED
  BY <1>3, <1>4, OneMoreCall, SetupKeeps

\* The line that a call is at, and what is left when it is done.
LEMMA LineIs ==
  ASSUME BootInv, NEW ops, Line(ops)
  PROVE  /\ Head(call.lines) \in Lines /\ Head(call.lines).op \in ops
         /\ [call EXCEPT !.lines = Tail(@)] \in Call
         /\ cursor' \in 1 .. Len(Script) + MaxSetup + 1 /\ Setup
         /\ call.lines \in Seq(Lines) /\ call.lines # <<>> /\ call \in Call
<1>1. call \in Call /\ call.lines \in Seq(Lines) /\ call.lines # <<>>
  BY DEF BootInv, TypeOK, Call, Lines, Line
<1>2. Head(call.lines) \in Lines /\ Tail(call.lines) \in Seq(Lines)
  BY <1>1
<1>3. [call EXCEPT !.lines = Tail(@)] \in Call
  BY <1>1, <1>2 DEF Call, Lines
<1> QED
  BY <1>1, <1>2, <1>3 DEF Line, BootInv, TypeOK

LEMMA ObeyKeeps ==
  ASSUME BootInv, Obey
  PROVE  BootInv'
<1>1. Line({"task", "mode", "prot", "map", "attr", "identity"})
  BY DEF Obey
<1>2. PICK d \in Directives : d = Head(call.lines)
  <2>1. Head(call.lines) \in Lines
    BY <1>1, LineIs
  <2>2. Head(call.lines).op \in {"task", "mode", "prot", "map", "attr", "identity"}
    BY <1>1 DEF Line
  <2> QED
    BY <2>1, <2>2 DEF Lines, Records, Refused
<1>3. bus.mmu \in Mmu
  BY BusFields DEF BootInv, TypeOK
<1>4. PICK m \in Mmu : m = Directed(bus.mmu, d) /\ m.fault = bus.mmu.fault
  BY <1>3, DirectedIs
<1>5. bus' = [bus EXCEPT !.mmu = m]
  BY <1>2, <1>4 DEF Obey
<1>6. bus' \in Bus /\ Remembered'
  BY <1>4, <1>5, MmuKeeps DEF Obey
<1>7. call' \in Call
  BY <1>1, LineIs DEF Obey
<1> QED
  BY <1>1, <1>6, <1>7, LineIs, SetupKeeps

LEMMA RefuseKeeps ==
  ASSUME BootInv, Refuse
  PROVE  BootInv'
<1>1. Line({"unknown", "malformed"})
  BY DEF Refuse
<1>2. call' \in Call
  <2>1. <<>> \in Seq(Directives \cup Records \cup Refused)
    OBVIOUS
  <2> QED
    BY <1>1, <2>1, LineIs DEF Refuse, Call
<1>3. bus' \in Bus /\ Remembered'
  BY DEF BootInv, TypeOK, Refuse, Remembered
<1> QED
  BY <1>1, <1>2, <1>3, LineIs, SetupKeeps

LEMMA EndRecordKeeps ==
  ASSUME BootInv, EndRecord
  PROVE  BootInv'
<1>1. Line({"data"})
  BY DEF EndRecord
<1>2. call' \in Call
  BY <1>1, LineIs DEF EndRecord
<1>3. bus' \in Bus /\ Remembered'
  BY DEF BootInv, TypeOK, EndRecord, Remembered
<1> QED
  BY <1>1, <1>2, <1>3, LineIs, SetupKeeps

\* A store keeps what is remembered in step with what was done.
LEMMA StoreRemembers ==
  ASSUME NEW b \in Bus, NEW a \in Addr, NEW byte \in Byte, NEW t \in BOOLEAN, t => b.dirty
  PROVE  LET new == AfterStore(b, a, byte)
         IN  /\ new \in Bus
             /\ new.mmu.fault = b.mmu.fault \cup Denied(b, a, "write")
             /\ (t \/ a \in Watched(b)) => new.dirty
<1>1. AfterStore(b, a, byte).mmu.fault = b.mmu.fault \cup Denied(b, a, "write")
  BY StoreTells
<1>2. AfterStore(b, a, byte) \in Bus
  BY AfterStoreIs
<1>3. AfterStore(b, a, byte).dirty = (b.dirty \/ (b.io /\ WatchesAddr(b, a)))
  BY AfterStoreIs
<1>4. a \in Watched(b) => b.io /\ WatchesAddr(b, a)
  BY WatchedIs
<1> QED
  BY <1>1, <1>2, <1>3, <1>4

LEMMA StoreByteKeeps ==
  ASSUME BootInv, StoreByte
  PROVE  BootInv'
<1>1. Line({"data"})
  BY DEF StoreByte
<1>2. PICK record \in Records : /\ record = Head(call.lines) /\ record.bytes # <<>>
                                /\ bus' = AfterStore(bus, record.at, Head(record.bytes))
                                /\ unseen' = (unseen \cup Denied(bus, record.at, "write"))
                                /\ touched' = (touched \/ record.at \in Watched(bus))
                                /\ call' = [call EXCEPT !.lines[1] = Rest(record)]
  <2>1. Head(call.lines) \in Records
    BY <1>1, LineIs DEF Lines, Directives, Refused
  <2> QED
    BY <2>1 DEF StoreByte
<1>3. PICK a \in Addr, byte \in Byte : a = record.at /\ byte = Head(record.bytes)
  BY <1>2 DEF Records
<1>4. bus \in Bus /\ touched \in BOOLEAN /\ (touched => bus.dirty) /\ unseen = bus.mmu.fault
  BY DEF BootInv, TypeOK, Remembered
<1>5. bus' \in Bus /\ Remembered'
  <2>1. /\ bus' = AfterStore(bus, a, byte)
        /\ unseen' = (unseen \cup Denied(bus, a, "write"))
        /\ touched' = (touched \/ a \in Watched(bus))
    BY <1>2, <1>3
  <2> QED
    BY <1>4, <2>1, StoreRemembers DEF Remembered
<1>6. call' \in Call
  <2>1. PICK at \in Addr : at = (record.at + 1) % Space
    <3>1. PICK n \in Nat, s \in Nat \ {0} : n = record.at + 1 /\ s = Space
      BY <1>3, Sizes DEF Addr
    <3>2. n % s \in 0 .. s - 1
      BY DivMod
    <3> QED
      BY <3>1, <3>2 DEF Addr
  <2>2. Tail(record.bytes) \in Seq(Byte) /\ <<>> \in Seq(Byte)
    BY <1>2 DEF Records
  <2>3. Rest(record) \in Records
    BY <2>1, <2>2 DEF Rest, Records
  <2>4. PICK r \in Lines : r = Rest(record)
    BY <2>3 DEF Lines
  <2>5. call \in Call /\ call.lines \in Seq(Lines) /\ call.lines # <<>>
    BY <1>1, LineIs
  <2>6. [call.lines EXCEPT ![1] = r] \in Seq(Lines)
    BY <2>5
  <2>7. call' = [call EXCEPT !.lines = [call.lines EXCEPT ![1] = r]]
    BY <1>2, <2>4
  <2> QED
    BY <2>5, <2>6, <2>7 DEF Call, Lines
<1> QED
  BY <1>1, <1>5, <1>6, LineIs, SetupKeeps

LEMMA StartRunKeeps ==
  ASSUME BootInv, StartRun
  PROVE  BootInv'
BY BootAssumption DEF BootInv, TypeOK, Remembered, Counted, StartRun, sequencer, history

LEMMA EndHookKeeps ==
  ASSUME BootInv, EndHook
  PROVE  BootInv'
BY BootAssumption DEF BootInv, TypeOK, Remembered, Counted, EndHook, sequencer, history

\* The trigger that fires, and what its action does.
LEMMA FireIs ==
  ASSUME BootInv, Fire
  PROVE  \E i \in DOMAIN Script :
           /\ Script[i].act \in Actions
           /\ Apply(Script[i].act)
           /\ touched' = (touched \/ Touches(Script[i].act) \cap Watched(bus) # {})
           /\ fired' = [fired EXCEPT ![i] = @ + 1]
           /\ cursor' = i + 1 /\ i + 1 \in 1 .. Len(Script) + MaxSetup + 1
<1>1. cursor \in Nat \ {0} /\ Script \in Seq(Trigger) /\ MaxSetup \in Nat
  BY BootAssumption DEF BootInv, TypeOK
<1>2. PICK i \in cursor .. Len(Script) :
        /\ Apply(Script[i].act)
        /\ touched' = (touched \/ Touches(Script[i].act) \cap Watched(bus) # {})
        /\ fired' = [fired EXCEPT ![i] = @ + 1]
        /\ cursor' = i + 1
  BY DEF Fire
<1>3. i \in DOMAIN Script /\ i + 1 \in 1 .. Len(Script) + MaxSetup + 1
  BY <1>1
<1>4. Script[i] \in Trigger
  BY <1>1, <1>3
<1>5. Script[i].act \in Actions
  BY <1>4 DEF Trigger
<1> QED
  BY <1>2, <1>3, <1>5

LEMMA ApplyIs ==
  ASSUME BootInv, NEW act \in Actions, Apply(act)
  PROVE  /\ bus' \in Bus /\ bus'.ram = bus.ram /\ bus'.mmu.phys = bus.mmu.phys
         /\ bus'.mmu.fault = bus.mmu.fault
         /\ bus.dirty => bus'.dirty
         /\ Touches(act) \cap Watched(bus) # {} => bus'.dirty
         /\ masks' \subseteq {"I", "F"}
         /\ missing' \in [{"mmu", "console", "block"} -> Nat]
<1>1. bus \in Bus /\ missing \in [{"mmu", "console", "block"} -> Nat] /\ masks \subseteq {"I", "F"}
  BY DEF BootInv, TypeOK
<1>2. masks' \subseteq {"I", "F"}
  BY <1>1 DEF Apply, MasksAfter
<1>3. CASE Found(bus, Target(act))
  <2>1. bus' = Applied(bus, act) /\ missing' = missing
    BY <1>3 DEF Apply
  <2>2. /\ bus' \in Bus /\ bus'.ram = bus.ram
        /\ bus'.mmu.phys = bus.mmu.phys /\ bus'.mmu.fault = bus.mmu.fault
        /\ bus.dirty => bus'.dirty
        /\ Target(act) = "mmu" /\ WindowBase + Register(act) \in Watched(bus) => bus'.dirty
    BY <1>1, <1>3, <2>1, AppliedIs
  <2>3. Touches(act) \cap Watched(bus) # {} => bus'.dirty
    BY <2>2 DEF Touches
  <2> QED
    BY <1>1, <1>2, <2>1, <2>2, <2>3
<1>4. CASE ~ Found(bus, Target(act))
  <2>1. bus' = bus /\ missing' = [missing EXCEPT ![Target(act)] = @ + 1]
    BY <1>4 DEF Apply
  <2>2. missing' \in [{"mmu", "console", "block"} -> Nat]
    <3>1. PICK t \in {"mmu", "console", "block"} : t = Target(act)
      BY <1>4, TargetIs DEF Found
    <3> QED
      BY <1>1, <2>1, <3>1
  <2>3. Touches(act) = {}
    BY <1>4 DEF Touches, Found
  <2> QED
    BY <1>1, <1>2, <2>1, <2>2, <2>3
<1> QED
  BY <1>3, <1>4

LEMMA FireKeeps ==
  ASSUME BootInv, Fire
  PROVE  BootInv'
<1>1. PICK i \in DOMAIN Script :
        /\ Script[i].act \in Actions
        /\ Apply(Script[i].act)
        /\ touched' = (touched \/ Touches(Script[i].act) \cap Watched(bus) # {})
        /\ fired' = [fired EXCEPT ![i] = @ + 1]
        /\ cursor' = i + 1 /\ i + 1 \in 1 .. Len(Script) + MaxSetup + 1
  BY FireIs
<1>2. PICK act \in Actions : act = Script[i].act
  BY <1>1
<1>3. /\ bus' \in Bus /\ bus'.mmu.fault = bus.mmu.fault
      /\ bus.dirty => bus'.dirty
      /\ Touches(act) \cap Watched(bus) # {} => bus'.dirty
      /\ masks' \subseteq {"I", "F"}
      /\ missing' \in [{"mmu", "console", "block"} -> Nat]
  BY <1>1, <1>2, ApplyIs
<1>4. touched' = (touched \/ Touches(act) \cap Watched(bus) # {})
  BY <1>1, <1>2
<1>5. Remembered'
  BY <1>3, <1>4 DEF BootInv, Remembered, Fire
<1>6. Counted'
  BY <1>1 DEF BootInv, Counted
<1>7. TypeOK'
  BY <1>1, <1>3 DEF BootInv, TypeOK, Fire
<1> QED
  BY <1>5, <1>6, <1>7 DEF BootInv

\* Where the guest is, and that what it has not been told of is remembered still
\* when the instruction is fetched.
LEMMA FetchIs ==
  ASSUME BootInv, Executes
  PROVE  /\ Fetched \in Bus /\ Fetched.mmu \in Mmu
         /\ Fetched = [bus EXCEPT !.mmu = Fetched.mmu]
         /\ Fetched.mmu = [bus.mmu EXCEPT !.fault = Fetched.mmu.fault]
         /\ Fetched.mmu.fault = UnseenFetched
         /\ bus \in Bus /\ bus.mmu \in Mmu
<1>1. bus \in Bus /\ bus.mmu \in Mmu /\ unseen = bus.mmu.fault
  BY BusFields DEF BootInv, TypeOK, Remembered
<1>2. PICK a \in Addr, kind \in Kinds : a = pc /\ kind = FetchKind(bus)
  BY BootAssumption DEF BootInv, TypeOK, FetchKind, Kinds
<1>3. Fetched = AfterLoad(bus, a, kind) /\ UnseenFetched = UnseenAfter(unseen, bus, a, kind)
  BY <1>2 DEF Fetched, UnseenFetched
<1>4. /\ Fetched \in Bus
      /\ Fetched = [bus EXCEPT !.mmu = Fetched.mmu]
      /\ Fetched.mmu = IF ToConsole(bus, a) \/ ~ bus.paged THEN bus.mmu ELSE AfterRead(bus.mmu, a, kind)
  BY <1>1, <1>3, AfterLoadIs
<1>5. Fetched.mmu.fault = UnseenFetched
  BY <1>1, <1>3, LoadTells
<1>6. Fetched.mmu = [bus.mmu EXCEPT !.fault = Fetched.mmu.fault]
  <2>1. PICK m \in Mmu : m = bus.mmu
    BY <1>1
  <2>2. AfterRead(m, a, kind) = [m EXCEPT !.fault = AfterRead(m, a, kind).fault]
    BY AfterReadIs
  <2>3. m = [m EXCEPT !.fault = m.fault]
    BY DEF Mmu
  <2> QED
    BY <1>4, <2>1, <2>2, <2>3
<1> QED
  BY <1>1, <1>4, <1>5, <1>6, BusFields

\* What an instruction has to keep, beside what it leaves alone.
LEMMA GuestKeeps ==
  ASSUME BootInv, Executes, bus' \in Bus, masks' \subseteq {"I", "F"}, Remembered'
  PROVE  BootInv'
BY BootAssumption DEF BootInv, TypeOK, Counted, Executes

LEMMA ComputeKeeps ==
  ASSUME BootInv, Compute
  PROVE  BootInv'
<1>1. Executes /\ bus' = Fetched /\ unseen' = UnseenFetched /\ touched' = touched
  BY DEF Compute
<1>2. Fetched \in Bus /\ Fetched.mmu.fault = UnseenFetched /\ Fetched = [bus EXCEPT !.mmu = Fetched.mmu]
      /\ bus \in Bus
  BY <1>1, FetchIs
<1>3. bus'.dirty = bus.dirty
  BY <1>1, <1>2 DEF Bus
<1>4. Remembered'
  BY <1>1, <1>2, <1>3 DEF BootInv, Remembered
<1>5. masks' \subseteq {"I", "F"}
  BY DEF Compute
<1> QED
  BY <1>1, <1>2, <1>4, <1>5, GuestKeeps

LEMMA LoadKeeps ==
  ASSUME BootInv, Load
  PROVE  BootInv'
<1>1. Executes /\ touched' = touched /\ masks' = masks
  BY DEF Load
<1>2. PICK a \in Addr : /\ bus' = AfterLoad(Fetched, a, "read")
                        /\ unseen' = UnseenAfter(UnseenFetched, Fetched, a, "read")
  BY BootAssumption DEF Load
<1>3. Fetched \in Bus /\ Fetched.mmu.fault = UnseenFetched /\ Fetched = [bus EXCEPT !.mmu = Fetched.mmu]
      /\ bus \in Bus
  BY <1>1, FetchIs
<1>4. PICK b \in Bus : b = Fetched /\ b.dirty = bus.dirty /\ b.mmu.fault = UnseenFetched
  BY <1>3 DEF Bus
<1>5. "read" \in Kinds
  BY DEF Kinds
<1>6. bus' \in Bus /\ bus' = [b EXCEPT !.mmu = bus'.mmu]
  BY <1>2, <1>4, <1>5, AfterLoadIs
<1>7. bus'.mmu.fault = unseen'
  BY <1>2, <1>4, <1>5, LoadTells
<1>8. bus'.dirty = bus.dirty
  BY <1>4, <1>6 DEF Bus
<1>9. Remembered'
  BY <1>1, <1>7, <1>8 DEF BootInv, Remembered
<1>10. masks' \subseteq {"I", "F"}
  BY <1>1 DEF BootInv, TypeOK
<1> QED
  BY <1>1, <1>6, <1>9, <1>10, GuestKeeps

LEMMA StoreKeeps ==
  ASSUME BootInv, Store
  PROVE  BootInv'
<1>1. Executes /\ masks' = masks
  BY DEF Store
<1>2. PICK a \in Addr, byte \in Byte : /\ bus' = AfterStore(Fetched, a, byte)
                                       /\ unseen' = (UnseenFetched \cup Denied(Fetched, a, "write"))
                                       /\ touched' = (touched \/ a \in Watched(bus))
  BY BootAssumption DEF Store
<1>3. Fetched \in Bus /\ Fetched.mmu.fault = UnseenFetched /\ Fetched = [bus EXCEPT !.mmu = Fetched.mmu]
      /\ bus \in Bus
  BY <1>1, FetchIs
<1>4. PICK b \in Bus : /\ b = Fetched /\ b.dirty = bus.dirty /\ b.mmu.fault = UnseenFetched
                       /\ b.io = bus.io /\ b.watch = bus.watch
  BY <1>3 DEF Bus
<1>5. Watched(b) = Watched(bus)
  BY <1>4 DEF Watched
<1>6. touched \in BOOLEAN /\ (touched => b.dirty)
  BY <1>4 DEF BootInv, Remembered
<1>7. /\ bus' \in Bus /\ bus'.mmu.fault = (b.mmu.fault \cup Denied(b, a, "write"))
      /\ (touched \/ a \in Watched(b)) => bus'.dirty
  BY <1>2, <1>4, <1>6, StoreRemembers
<1>8. Remembered'
  BY <1>2, <1>4, <1>5, <1>6, <1>7 DEF Remembered
<1>9. masks' \subseteq {"I", "F"}
  BY <1>1 DEF BootInv, TypeOK
<1> QED
  BY <1>1, <1>7, <1>8, <1>9, GuestKeeps

LEMMA TakeDirtyKeeps ==
  ASSUME BootInv, TakeDirty
  PROVE  BootInv'
<1>1. PICK watch \in Addr \X (0 .. Space - 1) : bus' = [bus EXCEPT !.dirty = FALSE, !.watch = watch]
  BY BootAssumption DEF TakeDirty
<1>2. bus \in Bus
  BY DEF BootInv, TypeOK
<1>3. bus' \in Bus /\ bus'.mmu = bus.mmu
  BY <1>1, <1>2 DEF Bus
<1>4. Remembered'
  BY <1>3 DEF BootInv, Remembered, TakeDirty
<1> QED
  BY <1>3, <1>4 DEF BootInv, TypeOK, Counted, TakeDirty, sequencer

LEMMA StutterKeeps ==
  ASSUME BootInv, UNCHANGED vars
  PROVE  BootInv'
BY DEF BootInv, TypeOK, Remembered, Counted, vars, sequencer, history

LEMMA NextKeeps ==
  ASSUME BootInv, [Next]_vars
  PROVE  BootInv'
BY ConfigureKeeps, LoadImageKeeps, LoadPhysicalKeeps, StartRunKeeps,
   ObeyKeeps, RefuseKeeps, StoreByteKeeps, EndRecordKeeps,
   FireKeeps, EndHookKeeps, ComputeKeeps, LoadKeeps, StoreKeeps, TakeDirtyKeeps, StutterKeeps
   DEF Next

LEMMA BootInvAlways == Spec => []BootInv
<1>1. BootInv /\ [Next]_vars => BootInv'
  BY NextKeeps
<1> QED
  BY Starts, <1>1, PTL DEF Spec

-----------------------------------------------------------------------------
(* The theorems.                                                           *)

\* The bus, the script's counters and the embedder's call in progress keep their
\* shapes, whatever is configured, loaded, fired and executed.
THEOREM TypeCorrect == Spec => []TypeOK
BY BootInvAlways, PTL DEF BootInv

\* mem_dirty is up when an address of the watched range was written since it was
\* taken, and irq_lines asserts the fault interrupt, if it is armed, exactly while
\* some access was denied that the guest has not read of: whoever wrote or was
\* denied, an image, the script or the guest, and however the range wraps around.
THEOREM NoticedCorrect == Spec => []Noticed
<1>1. BootInv => Noticed
  BY DEF BootInv, Remembered, Noticed, FaultLines
<1> QED
  BY <1>1, BootInvAlways, PTL

\* apply_action never writes to memory, with an MMU or without: its writes through
\* the bus reach the registers that they are for.
THEOREM SparesMemoryCorrect == Spec => SparesMemory
<1>1. BootInv /\ [Next]_vars => [InHook => bus'.ram = bus.ram /\ bus'.mmu.phys = bus.mmu.phys]_vars
  <2> SUFFICES ASSUME BootInv, Next, InHook
               PROVE  bus'.ram = bus.ram /\ bus'.mmu.phys = bus.mmu.phys
    OBVIOUS
  <2>1. CASE Fire
    <3>1. PICK i \in DOMAIN Script : Script[i].act \in Actions /\ Apply(Script[i].act)
      BY <2>1, FireIs
    <3> QED
      BY <3>1, ApplyIs
  <2>2. CASE EndHook
    BY <2>2 DEF EndHook
  <2>3. CASE TakeDirty
    <3>1. bus \in Bus
      BY DEF BootInv, TypeOK
    <3>2. PICK watch : bus' = [bus EXCEPT !.dirty = FALSE, !.watch = watch]
      BY <2>3 DEF TakeDirty
    <3> QED
      BY <3>1, <3>2 DEF Bus
  <2> QED
    BY <2>1, <2>2, <2>3
       DEF Next, InHook, Configure, LoadImage, LoadPhysical, Prepares, Setup, StartRun, Obey, Refuse,
           StoreByte, EndRecord, Line, Compute, Load, Store, Executes
<1> QED
  BY <1>1, BootInvAlways, PTL DEF Spec, SparesMemory

\* A frame that every context can reach only through write-protected pages keeps
\* its bytes: a store of the guest goes to the frame that write8 translates its
\* address to, in whatever context it is made, and is checked against that page.
THEOREM FramesProtectedCorrect == Spec => FramesProtected
<1> DEFINE Kept(frame) == \A cell \in frame * PageSize .. (frame + 1) * PageSize - 1 :
                            bus'.mmu.phys[cell] = bus.mmu.phys[cell]
<1>1. ASSUME BootInv, [Next]_vars, phase # "setup", ~ Store
      PROVE  bus'.mmu.phys = bus.mmu.phys
  <2>0. bus \in Bus
    BY <1>1 DEF BootInv, TypeOK
  <2>1. CASE Fire
    <3>1. PICK i \in DOMAIN Script : Script[i].act \in Actions /\ Apply(Script[i].act)
      BY <1>1, <2>1, FireIs
    <3> QED
      BY <1>1, <3>1, ApplyIs
  <2>2. CASE EndHook \/ UNCHANGED vars
    BY <2>2 DEF EndHook, vars
  <2>3. CASE TakeDirty
    <3>1. PICK watch : bus' = [bus EXCEPT !.dirty = FALSE, !.watch = watch]
      BY <2>3 DEF TakeDirty
    <3> QED
      BY <2>0, <3>1 DEF Bus
  <2>4. CASE Compute \/ Load
    <3>1. Executes
      BY <2>4 DEF Compute, Load
    <3>2. /\ Fetched \in Bus /\ bus.mmu \in Mmu
          /\ Fetched.mmu = [bus.mmu EXCEPT !.fault = Fetched.mmu.fault]
      BY <1>1, <3>1, FetchIs
    <3>3. Fetched.mmu.phys = bus.mmu.phys
      BY <3>2 DEF Mmu
    <3>4. CASE Compute
      BY <3>3, <3>4 DEF Compute
    <3>5. CASE Load
      <4>1. PICK a \in Addr : bus' = AfterLoad(Fetched, a, "read")
        BY <3>5, BootAssumption DEF Load
      <4>2. PICK b \in Bus, m \in Mmu : b = Fetched /\ m = b.mmu
        BY <3>2, BusFields
      <4>3. bus'.mmu \in {m, AfterRead(m, a, "read")}
        BY <4>1, <4>2, AfterLoadIs DEF Kinds
      <4>4. AfterRead(m, a, "read") = [m EXCEPT !.fault = AfterRead(m, a, "read").fault]
        BY AfterReadIs DEF Kinds
      <4>5. AfterRead(m, a, "read").phys = m.phys
        BY <4>4 DEF Mmu
      <4> QED
        BY <3>3, <4>2, <4>3, <4>5
    <3> QED
      BY <2>4, <3>4, <3>5
  <2> QED
    BY <1>1, <2>1, <2>2, <2>3, <2>4
       DEF Next, Configure, LoadImage, LoadPhysical, Prepares, Setup, StartRun, Obey, Refuse,
           StoreByte, EndRecord, Line
<1>2. ASSUME BootInv, Store, NEW frame \in 0 .. Frames - 1, ReadOnly(bus.mmu, frame)
      PROVE  Kept(frame)
  <2>1. Executes
    BY <1>2 DEF Store
  <2>2. /\ Fetched \in Bus /\ bus.mmu \in Mmu /\ Fetched.mmu \in Mmu
        /\ Fetched.mmu = [bus.mmu EXCEPT !.fault = Fetched.mmu.fault]
    BY <1>2, <2>1, FetchIs
  <2>3. PICK m \in Mmu : /\ m = Fetched.mmu
                         /\ m.phys = bus.mmu.phys /\ m.map = bus.mmu.map /\ m.attr = bus.mmu.attr
                         /\ m.prot = bus.mmu.prot
    BY <2>2 DEF Mmu
  <2>4. PICK a \in Addr, byte \in Byte : bus' = AfterStore(Fetched, a, byte)
    BY <1>2, BootAssumption DEF Store
  <2>5. bus'.mmu \in {m, AfterWrite(m, a, byte)}
    BY <2>2, <2>3, <2>4, AfterStoreIs DEF ToInner
  <2>6. SUFFICES ASSUME NEW cell \in frame * PageSize .. (frame + 1) * PageSize - 1,
                        bus'.mmu.phys[cell] # bus.mmu.phys[cell]
                 PROVE  FALSE
    OBVIOUS
  <2>7. PICK s \in Nat \ {0}, n \in Nat : s = PageSize /\ n = Frames
    BY Sizes
  <2>8. cell \in 0 .. n * s - 1
    <3>1. (frame + 1) * s <= n * s
      BY <2>7, Grows
    <3>2. frame * s \in Nat
      BY <2>7
    <3>3. cell \in frame * s .. (frame + 1) * s - 1
      BY <2>7
    <3> QED
      BY <3>1, <3>2, <3>3
  <2>9. cell \in 0 .. Frames * PageSize - 1
    BY <2>7, <2>8
  <2>10. cell = Cell(m, a) /\ ~ Forbidden(m, a, "write")
    BY <2>3, <2>5, <2>6, <2>9, AfterWriteIs
  <2>11. PICK p \in 0 .. Pages - 1, f \in Nat, r \in 0 .. s - 1 :
           p = Page(a) /\ f = m.map[Here(m)][p] /\ r = a % s
    <3>1. Page(a) \in 0 .. Pages - 1
      BY PageType
    <3>2. m.map[Here(m)][Page(a)] \in Nat
      <4>1. m.map \in [Context -> [0 .. Pages - 1 -> Entry]] /\ Here(m) \in Context
        BY HereType DEF Mmu
      <4>2. m.map[Here(m)][Page(a)] \in Entry
        BY <3>1, <4>1
      <4> QED
        BY <4>2, Sizes DEF Entry
    <3>3. PICK x \in Nat : x = a
      BY Sizes DEF Addr
    <3>4. a % s \in 0 .. s - 1
      BY <3>3, DivMod
    <3> QED
      BY <3>1, <3>2, <3>4
  <2>12. cell = f * s + r
    BY <2>7, <2>10, <2>11 DEF Cell
  <2>13. f = frame
    <3>1. f * s + r \in frame * s .. (frame + 1) * s - 1
      BY <2>7, <2>12
    <3> QED
      BY <3>1, OneFrame
  <2>14. Forbidden(m, a, "write")
    <3>1. Here(m) \in Context
      BY HereType
    <3>2. /\ Bit(m.prot, Arming.write)
          /\ m.map[Here(m)][p] = frame => Bit(m.attr[Here(m)][p], Asking.write)
      BY <1>2, <2>3, <3>1 DEF ReadOnly
    <3> QED
      BY <2>11, <2>13, <3>2 DEF Forbidden, Arming, Asking
  <2> QED
    BY <2>10, <2>14
<1>3. BootInv /\ [Next]_vars =>
        [phase # "setup" => \A frame \in 0 .. Frames - 1 : ReadOnly(bus.mmu, frame) => Kept(frame)]_vars
  BY <1>1, <1>2
<1> QED
  BY <1>3, BootInvAlways, PTL DEF Spec, FramesProtected

\* What read8 answers at the fault status is every kind of access that was denied
\* since the guest read it before, the fetch of the instruction that reads it
\* included, and no other.
THEOREM StatusTellsCorrect == Spec => StatusTells
<1>1. ASSUME BootInv, Next, phase = "step", NEW l \in loaded', ReadsStatus(bus, l[1])
      PROVE  l[2] = FaultByte(UnseenFetched)
  <2>1. CASE Load
    <3>1. PICK a \in Addr : loaded' = {<<a, Answer(Fetched, a, "read")>>}
      BY <2>1, BootAssumption DEF Load
    <3>2. a = WindowBase + StatusReg /\ bus.paged /\ l[2] = Answer(Fetched, a, "read")
      BY <1>1, <3>1 DEF ReadsStatus
    <3>3. InWindow(a) /\ Offset(a) = StatusReg
      BY <3>2, StatusAt
    <3>4. Executes
      BY <2>1 DEF Load
    <3>5. /\ Fetched \in Bus /\ bus \in Bus /\ Fetched.mmu.fault = UnseenFetched
          /\ Fetched = [bus EXCEPT !.mmu = Fetched.mmu]
      BY <1>1, <3>4, FetchIs
    <3>6. Fetched.paged
      BY <3>2, <3>5 DEF Bus
    <3>7. ~ ToConsole(Fetched, a)
      BY <3>3, <3>5, ConsoleApart
    <3>8. Answer(Fetched, a, "read") = RegValue(Fetched.mmu, StatusReg)
      BY <3>3, <3>6, <3>7 DEF Answer, Value
    <3>9. RegValue(Fetched.mmu, StatusReg) = FaultByte(Fetched.mmu.fault)
      BY Sizes DEF RegValue, TaskReg, ModeReg, ProtReg, StatusReg, AttrRegs
    <3> QED
      BY <3>2, <3>5, <3>8, <3>9
  <2>2. CASE Compute \/ Store
    BY <1>1, <2>2 DEF Compute, Store
  <2> QED
    BY <1>1, <2>1, <2>2
       DEF Next, InHook, Configure, LoadImage, LoadPhysical, Prepares, Setup, StartRun, Obey, Refuse,
           StoreByte, EndRecord, Line, Fire, EndHook, TakeDirty
<1>2. BootInv /\ [Next]_vars =>
        [phase = "step" => \A l \in loaded' : ReadsStatus(bus, l[1]) => l[2] = FaultByte(UnseenFetched)]_vars
  BY <1>1
<1> QED
  BY <1>2, BootInvAlways, PTL DEF Spec, StatusTells

\* What an action writes is in the register that it is for.
LEMMA RegisterHolds ==
  ASSUME NEW m \in Mmu, NEW act \in Actions, Target(act) = "mmu"
  PROVE  LET new == AfterRegWrite(m, Register(act), Written(act))
         IN  /\ act.op = "mode" => new.sys = act.on
             /\ act.op = "prot" => new.prot = act.byte
             /\ act.op = "map"  => new.map[Here(m)][act.page % Pages] = act.frame % 256
             /\ act.op = "attr" => new.attr[Here(m)][act.page % Pages] = act.byte
<1>0. Register(act) \in Registers /\ Written(act) \in Byte
  BY RegisterIs
<1>1. CASE act.op = "mode"
  <2>1. Register(act) = ModeReg /\ Written(act) = IF act.on THEN 1 ELSE 0
    BY <1>1 DEF Register, Written
  <2>2. PICK byte \in Byte : byte = Written(act)
    BY <1>0
  <2>3. AfterRegWrite(m, ModeReg, byte) = [m EXCEPT !.sys = (byte % 2 = 1)]
    BY Sizes DEF AfterRegWrite, TaskReg, ModeReg, ProtReg, AttrRegs
  <2>4. (byte % 2 = 1) = act.on
    BY <1>1, <2>1, <2>2, ActionIs
  <2>5. AfterRegWrite(m, ModeReg, byte).sys = act.on
    BY <2>3, <2>4 DEF Mmu
  <2> QED
    BY <1>1, <2>1, <2>2, <2>5
<1>2. CASE act.op = "prot"
  <2>1. Register(act) = ProtReg /\ Written(act) = act.byte
    BY <1>2 DEF Register, Written
  <2>2. AfterRegWrite(m, ProtReg, act.byte) = [m EXCEPT !.prot = act.byte]
    BY Sizes DEF AfterRegWrite, TaskReg, ModeReg, ProtReg, AttrRegs
  <2>3. AfterRegWrite(m, ProtReg, act.byte).prot = act.byte
    BY <2>2 DEF Mmu
  <2> QED
    BY <1>2, <2>1, <2>3
<1>3. CASE act.op \in {"map", "attr"}
  <2>1. PICK p \in 0 .. Pages - 1 : p = act.page % Pages
    <3>1. PICK n \in Nat, s \in Nat \ {0} : n = act.page /\ s = Pages
      BY <1>3, ActionIs, Sizes
    <3>2. n % s \in 0 .. s - 1
      BY DivMod
    <3> QED
      BY <3>1, <3>2
  <2>2. PICK byte \in Byte : byte = Written(act) /\ byte \in Entry
    BY <1>0, ByteIsEntry
  <2>3. CASE act.op = "map"
    <3>1. Register(act) = p /\ byte = act.frame % 256
      BY <2>1, <2>2, <2>3 DEF Register, Written
    <3>2. AfterRegWrite(m, p, byte) = SetMapEntry(m, p, byte)
      BY Sizes DEF AfterRegWrite, TaskReg, ModeReg, ProtReg, AttrRegs
    <3>3. SetMapEntry(m, p, byte).map[Here(m)][p] = byte
      BY <2>2, SetMapEntryIs
    <3> QED
      BY <2>1, <2>2, <2>3, <3>1, <3>2, <3>3
  <2>4. CASE act.op = "attr"
    <3>0. byte = act.byte
      BY <2>2, <2>4 DEF Written
    <3>1. PICK r \in Registers : r = AttrRegs + p /\ Register(act) = r
      BY <1>0, <2>1, <2>4 DEF Register
    <3>2. r >= AttrRegs /\ r - AttrRegs = p
      BY <3>1, Sizes DEF AttrRegs
    <3>3. AfterRegWrite(m, r, byte) = [m EXCEPT !.attr[Here(m)][r - AttrRegs] = byte]
      BY <3>2, Sizes DEF AfterRegWrite, Registers, TaskReg, ModeReg, ProtReg, AttrRegs
    <3>4. AfterRegWrite(m, r, byte) = [m EXCEPT !.attr[Here(m)][p] = byte]
      BY <3>2, <3>3
    <3>5. m.attr \in [Context -> [0 .. Pages - 1 -> Byte]] /\ Here(m) \in Context
      BY HereType DEF Mmu
    <3>6. PICK g : g = [m.attr EXCEPT ![Here(m)] = [m.attr[Here(m)] EXCEPT ![p] = byte]]
      OBVIOUS
    <3>7. g[Here(m)][p] = byte
      BY <3>5, <3>6
    <3>8. AfterRegWrite(m, r, byte) = [m EXCEPT !.attr = g]
      BY <3>4, <3>6
    <3>9. AfterRegWrite(m, r, byte).attr = g
      BY <3>8 DEF Mmu
    <3> QED
      BY <1>3, <2>1, <2>2, <2>4, <3>0, <3>1, <3>7, <3>9
  <2> QED
    BY <1>3, <2>3, <2>4
<1> QED
  BY <1>1, <1>2, <1>3

\* An action lands.
LEMMA ApplyLands ==
  ASSUME BootInv, NEW act \in Actions, Apply(act)
  PROVE  Lands(act)
<1>1. CASE ~ Found(bus, Target(act))
  <2>1. PICK t \in {"mmu", "console", "block"} : t = Target(act)
    BY <1>1, TargetIs DEF Found
  <2>2. missing' = [missing EXCEPT ![t] = @ + 1]
    BY <1>1, <2>1 DEF Apply
  <2>3. missing \in [{"mmu", "console", "block"} -> Nat]
    BY DEF BootInv, TypeOK
  <2>4. missing'[t] = missing[t] + 1 /\ missing[t] \in Nat
    BY <2>2, <2>3
  <2> QED
    BY <1>1, <2>1, <2>4 DEF Lands
<1>2. CASE Found(bus, Target(act))
  <2>1. bus' = Applied(bus, act) /\ bus \in Bus
    BY <1>2 DEF Apply, BootInv, TypeOK
  <2>2. CASE Target(act) = "mmu"
    <3>1. act.op \in MmuOps
      BY <2>2, TargetIs
    <3>2. bus'.mmu = AfterRegWrite(bus.mmu, Register(act), Written(act))
      BY <1>2, <2>1, <2>2, AppliedToMmu DEF Found
    <3>3. PICK m \in Mmu : m = bus.mmu
      BY <2>1, BusFields
    <3>4. /\ act.op = "mode" => bus'.mmu.sys = act.on
          /\ act.op = "prot" => bus'.mmu.prot = act.byte
          /\ act.op = "map"  => bus'.mmu.map[<<bus.mmu.sys, bus.mmu.task>>][act.page % Pages]
                                   = act.frame % 256
          /\ act.op = "attr" => bus'.mmu.attr[<<bus.mmu.sys, bus.mmu.task>>][act.page % Pages] = act.byte
      BY <2>2, <3>2, <3>3, RegisterHolds DEF Here
    <3>5. CASE Oversized(act)
      <4>1. act.op = "map" /\ missing' = missing
        BY <1>2, <3>5 DEF Oversized, Apply
      <4> QED
        BY <1>2, <3>4, <3>5, <4>1 DEF Lands, Misplaced
    <3>6. CASE ~ Oversized(act)
      <4>1. act.op = "map" => act.frame % 256 = act.frame
        BY <3>6, ActionIs, LowByte DEF Oversized
      <4> QED
        BY <1>2, <3>1, <3>4, <3>6, <4>1 DEF Lands, InForce, MmuOps
    <3> QED
      BY <3>5, <3>6
  <2>3. CASE Target(act) = "cpu"
    <3>1. act.op \in CpuOps
      BY <2>3, TargetIs
    <3>2. phase # "post" /\ act.op = "irq_mask" => (act.on <=> "I" \in masks')
      BY <2>3 DEF Apply, MasksAfter
    <3>3. phase # "post" /\ act.op = "firq_mask" => (act.on <=> "F" \in masks')
      BY <2>3 DEF Apply, MasksAfter
    <3> QED
      BY <1>2, <3>1, <3>2, <3>3 DEF Lands, Oversized, InForce, CpuOps
  <2>4. CASE Target(act) = "console"
    <3>1. act.op \in ConsoleOps
      BY <2>4, TargetIs
    <3>2. act.op = "con_ctrl" => bus'.ctrl = act.byte
      BY <2>1, <2>4 DEF Applied, Bus
    <3>3. act.op = "con_irq_hold" => bus'.hold = act.n
      BY <2>1, <2>4 DEF Applied, Bus
    <3> QED
      BY <1>2, <3>1, <3>2, <3>3 DEF Lands, Oversized, InForce, ConsoleOps
  <2>5. CASE Target(act) = "block"
    <3>1. act.op \in BlockOps
      BY <2>5, TargetIs
    <3>2. act.op = "blk_irq" => bus'.block.irq = act.on
      BY <2>1, <2>5 DEF Applied, Bus, Settings
    <3>3. act.op = "blk_firq" => bus'.block.firq = act.on
      BY <2>1, <2>5 DEF Applied, Bus, Settings
    <3>4. act.op = "blk_irq_hold" => bus'.block.hold = act.n
      BY <2>1, <2>5 DEF Applied, Bus, Settings
    <3> QED
      BY <1>2, <3>1, <3>2, <3>3, <3>4 DEF Lands, Oversized, InForce, BlockOps
  <2> QED
    BY <2>2, <2>3, <2>4, <2>5, TargetIs
<1> QED
  BY <1>1, <1>2

\* apply_action gives the register, setting or mask that an action names the value
\* that it gives, on whatever bus the target is there, and counts it where it is not;
\* but it maps a page to the frame with the low byte of the number in the script.
THEOREM ActionsLandCorrect == Spec => ActionsLand
<1>1. ASSUME BootInv, [Next]_vars, NEW i \in DOMAIN Script, fired'[i] > fired[i]
      PROVE  Lands(Script[i].act)
  <2>1. fired \in [DOMAIN Script -> Nat]
    BY <1>1 DEF BootInv, Counted
  <2>2. fired' # fired
    <3>1. ~ fired[i] > fired[i]
      BY <2>1
    <3> QED
      BY <1>1, <3>1
  <2>3. Fire
    BY <1>1, <2>2
       DEF Next, vars, sequencer, Configure, LoadImage, LoadPhysical, Prepares, Setup, StartRun, Obey,
           Refuse, StoreByte, EndRecord, Line, EndHook, TakeDirty, Compute, Load, Store, Executes
  <2>4. PICK j \in DOMAIN Script : /\ Script[j].act \in Actions /\ Apply(Script[j].act)
                                   /\ fired' = [fired EXCEPT ![j] = @ + 1]
    BY <1>1, <2>3, FireIs
  <2>5. i = j
    <3>1. i # j => fired'[i] = fired[i] /\ ~ fired[i] > fired[i]
      BY <2>1, <2>4
    <3> QED
      BY <1>1, <3>1
  <2> QED
    BY <1>1, <2>4, <2>5, ApplyLands
<1>2. BootInv /\ [Next]_vars =>
        [\A i \in DOMAIN Script : fired'[i] > fired[i] => Lands(Script[i].act)]_vars
  BY <1>1
<1> QED
  BY <1>2, BootInvAlways, PTL DEF Spec, ActionsLand

=============================================================================
