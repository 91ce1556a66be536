------------------------------- MODULE MCBoot -------------------------------
(* Two pages of 16 bytes: memory and code, and the console and the window. *)
EXTENDS Boot

OnPc(at, act)   == [on |-> "pc", at |-> at, act |-> act]
OnStep(at, act) == [on |-> "step", at |-> at, act |-> act]
Set(op, on)     == [op |-> op, on |-> on]
Control(op, byte)    == [op |-> op, byte |-> byte]
Mapping(p, frame)    == [op |-> "map", page |-> p, frame |-> frame]
Protecting(p, byte)  == [op |-> "attr", page |-> p, byte |-> byte]
Holding(op, n)       == [op |-> op, n |-> n]

\* Every action; most of them are due at once, in another order than that of
\* their steps; one names a page that there is not, another a frame beyond a byte.
MCScript ==
  << OnPc(1, Set("mode", TRUE)),
     OnStep(1, Control("prot", 15)),
     OnPc(1, Protecting(0, 1)),
     OnPc(18, Protecting(3, 5)),
     OnPc(18, Set("irq_mask", TRUE)),
     OnStep(1, Control("con_ctrl", 17)),
     OnStep(1, Set("firq_mask", FALSE)),
     OnStep(3, Set("mode", FALSE)),
     OnStep(1, Set("blk_irq", TRUE)),
     OnStep(1, Set("blk_firq", TRUE)),
     OnStep(2, Mapping(0, 257)),
     OnStep(3, Mapping(1, 0)),
     OnStep(1, Holding("con_irq_hold", 8)),
     OnStep(1, Holding("blk_irq_hold", 8)),
     OnStep(1, [op |-> "con_rx_wm"]),
     OnStep(1, [op |-> "con_firq"]) >>

\* Every directive; frames beyond the memory and beyond a byte; a wrong line.
MCConfigs ==
  { <<Attr(0, 5), Task(3), Map(0, 257), Prot(271), Task(0)>>,
    <<Mode(TRUE), Attr(1, 2), Prot(12), [op |-> "unknown"], Mode(FALSE)>> }

\* An image that reaches into the window and goes on at the bottom, and one that is
\* malformed after its first record.
Data(at, bytes) == [op |-> "data", at |-> at, bytes |-> bytes]
MCImages ==
  { <<Data(24, <<1, 1>>), Data(31, <<3, 3>>)>>,
    <<Data(2, <<9>>), [op |-> "malformed"], Data(3, <<9>>)>> }

\* The memory below the window and the console; the window, wrapping around.
MCWatches == {<<2, 15>>, <<30, 5>>}

MCAttachments == {{}, {"console", "block"}}

=============================================================================
