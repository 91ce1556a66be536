---------------------------- MODULE MCAnyProgram ----------------------------
(* A machine small enough for TLC: five cells of stack and one saved byte, *)
(* so that a whole frame takes four cells and most pushes wrap around.     *)
EXTENDS AnyProgram

MCBits   == {"E", "F", "I"}
MCData   == {{}}
MCMasks  == {{"E"}, {"F", "I"}}
MCLists  == {{"cc"}, {"regs", "pc"}}
MCBlocks == {{0}, {3, 4}}
MCCode   == {<<{}, {"I"}>>}
MCVec    == [k \in Software \cup Inputs \cup {"reset"} |->
               CASE k \in Software -> <<{"F"}, {}>>
                 [] k = "nmi"      -> <<{"F"}, {"E"}>>
                 [] k = "firq"     -> <<{"F"}, {"F"}>>
                 [] k = "irq"      -> <<{"F"}, {"I"}>>
                 [] OTHER          -> <<{}, {}>>]

=============================================================================
