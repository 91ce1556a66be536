----------------------------- MODULE CallStack -----------------------------
(***************************************************************************)
(* What a debugger means by a call stack, without a machine underneath.    *)
(* Routines are entered by calls and by software interrupts, left by       *)
(* returns, and at any instruction boundary one interrupt may be entered   *)
(* as well.  The activation left last is always the one entered last, and  *)
(* it resumes at the address where it was suspended.                       *)
(***************************************************************************)
EXTENDS Integers, Sequences

CONSTANTS
  Address,      \* program addresses
  CallKinds,    \* ways an instruction enters a routine
  Interrupts    \* ways an interrupt enters a routine

VARIABLES
  at,           \* the address to be executed next
  active        \* the activations in progress, the innermost one last

Activation == [kind : CallKinds \cup Interrupts, ret : Address]

\* An instruction leaves `stack` and continues at one of `nexts`; possibly an
\* interrupt is entered there before anyone sees that.
Then(stack, nexts) ==
  \/ active' = stack /\ at' \in nexts
  \/ /\ Len(active') = Len(stack) + 1
     /\ SubSeq(active', 1, Len(stack)) = stack
     /\ active'[Len(active')] \in [kind : Interrupts, ret : nexts]
     /\ at' \in Address

Work == Then(active, Address)

Enter ==
  /\ Len(active') > Len(active)
  /\ LET called == active'[Len(active) + 1]
     IN  /\ called \in [kind : CallKinds, ret : Address]
         /\ Then(Append(active, called), Address)

Leave ==
  /\ active # <<>>
  /\ Then(SubSeq(active, 1, Len(active) - 1), {active[Len(active)].ret})

Init == active = <<>> /\ at \in Address

Next == Work \/ Enter \/ Leave

Spec == Init /\ [][Next]_<<at, active>>

=============================================================================
