------------------------------ MODULE Startup ------------------------------
(***************************************************************************)
(* What is given to a machine before it runs: the configurations of an MMU *)
(* and the presets of src/src/config.rs, and the images of                 *)
(* src/src/loader.rs.  A text is a sequence of lines, and a line is what   *)
(* its tokens stand for; lines that have no effect (comments, headers,     *)
(* numbers that cannot be read) are left out.  Whoever reads the text goes *)
(* through it line by line, until one is refused (see Boot).               *)
(***************************************************************************)
EXTENDS Mmu

Directives ==
  [op : {"task"}, n : Byte] \cup [op : {"mode"}, on : BOOLEAN] \cup [op : {"prot"}, n : Entry]
    \cup [op : {"map"}, page : 0 .. Pages - 1, frame : Entry]    \* panics for other pages
    \cup [op : {"attr"}, page : 0 .. Pages - 1, n : Entry]       \* others reach past the window
    \cup [op : {"identity"}]     \* identity_map_current, of presets only

\* Bytes from an address on; their addresses go on at 0 after the last.
Records == [op : {"data"}, at : Addr, bytes : Seq(Byte)]

\* A line that ends a configuration or an image with an error.
Refused == [op : {"unknown", "malformed"}]

\* One directive; the registers are written through the window.
Directed(m, d) ==
  CASE d.op = "task"     -> SetTask(m, d.n)
    [] d.op = "mode"     -> AfterWrite(m, WindowBase + ModeReg, IF d.on THEN 1 ELSE 0)
    [] d.op = "prot"     -> AfterWrite(m, WindowBase + ProtReg, d.n % 256)
    [] d.op = "map"      -> SetMapEntry(m, d.page, d.frame)
    [] d.op = "attr"     -> AfterWrite(m, WindowBase + AttrRegs + d.page, d.n % 256)
    [] d.op = "identity" -> IdentityMap(m)

Task(n)       == [op |-> "task", n |-> n]
Mode(on)      == [op |-> "mode", on |-> on]
Prot(n)       == [op |-> "prot", n |-> n]
Map(p, frame) == [op |-> "map", page |-> p, frame |-> frame]
Attr(p, n)    == [op |-> "attr", page |-> p, n |-> n]

Fresh       == <<Task(0), [op |-> "identity"]>>
SystemReset == Fresh \o <<Mode(TRUE), Prot(11), Attr(0, 4), Attr(Pages - 1, 1)>>
UserReset   == Fresh \o <<Mode(FALSE), Prot(3), Attr(Pages - 1, 1)>>

\* The presets for OS-9: vectors in the last page, devices in the one before it, a
\* RAM disk in the third quarter.
Os9l2   == UserReset
SysMap  == SystemReset          \* and os9l2-boot
Io      == SystemReset \o <<Attr(Pages - 2, 4), Map(Pages - 2, 254)>>
RamDisk == UserReset \o [i \in 1 .. Pages \div 4 |-> Map(Pages \div 2 + i - 1, 191 + i)]
Presets == {Os9l2, SysMap, Io, RamDisk}

\* What can be given to a machine.
Configurations == Seq(Directives \cup Refused)
Programs       == Seq(Records \cup Refused)

=============================================================================
