------------------------------ MODULE Debugger ------------------------------
(***************************************************************************)
(* step_over and step_out of src/src/cpu.rs with the BreakpointSet of      *)
(* src/src/debug.rs, over a machine reduced to its call stack.             *)
(*                                                                         *)
(* A program is fixed for a behaviour; it says of every address whether a  *)
(* call, a return or anything else is there and where control can go.      *)
(* Interrupts are served at any instruction boundary.  The loops of the    *)
(* two commands run one iteration per action, and the host changes         *)
(* breakpoints between commands only, since both borrow the same Cpu.      *)
(***************************************************************************)
EXTENDS Integers, Sequences, SequencesExt, FiniteSetsExt

CONSTANTS
  Size,         \* addresses are 0 .. Size - 1 (2^16 in the code)
  Programs,     \* programs to debug
  Interrupts,   \* interrupts that can be served
  Handler,      \* where each interrupt enters its handler
  Limits,       \* values that callers pass for `limit`
  Ignores,      \* values that callers set an ignore count to
  Places,       \* BOUND: addresses that breakpoints are set at
  MaxBps,       \* BOUND: breakpoints added in a behaviour
  MaxHits,      \* value at which a hit counter saturates (2^64 - 1 in the code)
  MaxDepth      \* BOUND: activations in progress when a command begins

Address == 0 .. Size - 1

Instructions ==
  [op : {"call", "flow"}, to : SUBSET Address \ {{}}]
    \cup [op : {"return"}, to : {Address}]

ASSUME DebuggerAssumption ==
  /\ Size \in Nat \ {0}
  /\ Programs \subseteq [Address -> Instructions]
  /\ Handler \in [Interrupts -> Address]
  /\ Limits \subseteq Nat
  /\ Ignores \subseteq Nat
  /\ Places \subseteq Address
  /\ MaxBps \in Nat /\ MaxHits \in Nat /\ MaxDepth \in Nat

VARIABLES
  program,
  at,           \* PC
  active,       \* the shadow stack: kind and return address of each frame
  bps,          \* the breakpoints, in the order they were added
  nextId,       \* BreakpointSet::next_id
  run,          \* the command in progress
  outcome,      \* the StepStop of the last command
  tally         \* history of the command in progress: what it went past

machine == <<at, active>>
vars == <<program, at, active, bps, nextId, run, outcome, tally>>

Frame      == [kind : {"call"} \cup Interrupts, ret : Address]
Breakpoint == [id : Nat, addr : Address, enabled : BOOLEAN, conditional : BOOLEAN,
               hits : 0 .. MaxHits, ignore : Nat]

\* `before` is a history of the command: the stack when it was given.
Run == [mode : {"idle", "over", "out"}, target : Address, limit : Nat, count : Nat,
        before : Seq(Frame)]

Idle == [mode |-> "idle", target |-> 0, limit |-> 0, count |-> 0, before |-> <<>>]

\* The breakpoints when the command was given; how many instructions its loop has
\* executed at each address; how often each breakpoint's condition has refused.
Tally == [given : Seq(Breakpoint), passed : [Address -> Nat], refused : Seq(Nat)]

Fresh(list) == [given |-> list, passed |-> [a \in Address |-> 0],
                refused |-> [i \in DOMAIN list |-> 0]]

Outcomes == [stop : {"none", "ReturnTarget", "Limit", "NotACall", "EmptyStack"}]
              \cup [stop : {"Breakpoint"}, id : Nat]

Stopped(stop) == [stop |-> stop]

-----------------------------------------------------------------------------
(* Cpu::step.                                                              *)

After(a) == (a + 1) % Size

\* The stack and the PC that the instruction at PC can leave.
Effects ==
  LET here == program[at]
  IN  CASE here.op = "call" ->
             {<<Append(active, [kind |-> "call", ret |-> After(at)]), a>> : a \in here.to}
        [] here.op = "return" /\ active # <<>> -> {<<Front(active), Last(active).ret>>}
        [] OTHER -> {<<active, a>> : a \in here.to}

CpuStep ==
  \E e \in Effects :
    \/ active' = e[1] /\ at' = e[2]
    \/ \E kind \in Interrupts :
         /\ active' = Append(e[1], [kind |-> kind, ret |-> e[2]])
         /\ at' = Handler[kind]

-----------------------------------------------------------------------------
(* BreakpointSet.                                                          *)

\* What evaluating each condition that there is can come to.
Verdicts == [{bps[i].id : i \in {j \in DOMAIN bps : bps[j].conditional}} ->
               {"true", "false", "error"}]

\* Fault: a breakpoint whose condition cannot be evaluated is passed by.
PassingIfTrue(verdict) == {id \in DOMAIN verdict : verdict[id] = "true"}

\* The breakpoints whose condition lets them stop: it is true, or an error.
Passing(verdict) == {id \in DOMAIN verdict : verdict[id] # "false"}

\* Breakpoint b asks for a stop at pc.
Matches(b, pc, passing) ==
  b.enabled /\ b.addr = pc /\ (b.conditional => b.id \in passing)

Hits(pc, passing) ==
  {i \in DOMAIN bps : Matches(bps[i], pc, passing) /\ bps[i].ignore = 0}

\* Fault: a breakpoint whose condition is false uses up its ignore count.
CheckedEagerly(pc, passing) ==
  [i \in DOMAIN bps |->
     CASE i \in Hits(pc, passing) -> [bps[i] EXCEPT !.hits = IF @ < MaxHits THEN @ + 1 ELSE @]
       [] bps[i].addr = pc /\ bps[i].ignore > 0 -> [bps[i] EXCEPT !.ignore = @ - 1]
       [] OTHER -> bps[i]]

\* The breakpoints after a check at pc.
Checked(pc, passing) ==
  [i \in DOMAIN bps |->
     CASE i \in Hits(pc, passing) -> [bps[i] EXCEPT !.hits = IF @ < MaxHits THEN @ + 1 ELSE @]
       [] Matches(bps[i], pc, passing) /\ bps[i].ignore > 0 ->
            [bps[i] EXCEPT !.ignore = @ - 1]
       [] OTHER -> bps[i]]

Add ==
  /\ nextId <= MaxBps
  /\ \E a \in Places :
       bps' = Append(bps, [id |-> nextId, addr |-> a, enabled |-> TRUE, conditional |-> FALSE,
                           hits |-> 0, ignore |-> 0])
  /\ nextId' = nextId + 1

\* set_enabled, set_condition and set_ignore_count; none of them, nor remove,
\* does anything about an id that no breakpoint has.
Change ==
  /\ \/ \E i \in DOMAIN bps :
          bps' \in {[bps EXCEPT ![i].enabled = ~ @], [bps EXCEPT ![i].conditional = ~ @]}
                     \cup {[bps EXCEPT ![i].ignore = n] : n \in Ignores}
     \/ UNCHANGED bps
  /\ UNCHANGED nextId

Drop ==
  /\ bps # <<>>
  /\ \/ \E i \in DOMAIN bps : bps' = RemoveAt(bps, i)
     \/ bps' = <<>>
  /\ UNCHANGED nextId

\* BOUND: the host runs the program in at most MaxDepth activations.
Ready == run.mode = "idle" /\ Len(active) <= MaxDepth

\* The host runs the program itself and calls check, or should_break, which
\* passes every condition, before an instruction.
Ask ==
  /\ Ready
  /\ \E verdict \in Verdicts : bps' = Checked(at, Passing(verdict))
  /\ UNCHANGED nextId

UseBreakpoints ==
  /\ run.mode = "idle"
  /\ Add \/ Change \/ Drop \/ Ask
  /\ UNCHANGED <<program, machine, run, outcome, tally>>

-----------------------------------------------------------------------------
(* The commands.                                                           *)

\* A plain step, and step_over of anything but a call.
StepOne ==
  /\ Ready
  /\ CpuStep
  /\ \/ outcome' = Stopped("none")
     \/ program[at].op # "call" /\ outcome' = Stopped("NotACall")
  /\ UNCHANGED <<program, bps, nextId, run, tally>>

\* step_over of a call up to its loop: the call itself is always executed.
StepOver ==
  /\ Ready
  /\ program[at].op = "call"
  /\ CpuStep
  /\ \E limit \in Limits :
       run' = [mode |-> "over", target |-> After(at), limit |-> limit, count |-> 1,
               before |-> active]
  /\ outcome' = Stopped("none")
  /\ tally' = Fresh(bps)
  /\ UNCHANGED <<program, bps, nextId>>

\* step_out up to its loop.
StepOut ==
  /\ Ready
  /\ IF active = <<>>
     THEN outcome' = Stopped("EmptyStack") /\ UNCHANGED <<run, tally>>
     ELSE /\ \E limit \in Limits :
               run' = [mode |-> "out", target |-> Last(active).ret, limit |-> limit,
                       count |-> 0, before |-> active]
          /\ outcome' = Stopped("none")
          /\ tally' = Fresh(bps)
  /\ UNCHANGED <<program, machine, bps, nextId>>

Stop(why) == outcome' = why /\ run' = Idle /\ tally' = Fresh(<<>>)

\* Fault: the limit is compared for equality, and zero passes by it.
GiveUpExactly ==
  /\ run.mode # "idle"
  /\ run.count = run.limit
  /\ Stop(Stopped("Limit"))
  /\ UNCHANGED <<program, machine, bps, nextId>>

GiveUp ==
  /\ run.mode # "idle"
  /\ run.count >= run.limit
  /\ Stop(Stopped("Limit"))
  /\ UNCHANGED <<program, machine, bps, nextId>>

\* Fault: one instruction too many.
LoopingInclusive == run.mode # "idle" /\ run.count <= run.limit

\* The loop goes round.
Looping == run.mode # "idle" /\ run.count < run.limit

\* Fault: the target is looked up anew in every iteration.
ArrivesAtTop == active # <<>> /\ at = Last(active).ret

Arrives == at = run.target

Arrive ==
  /\ Looping
  /\ Arrives
  /\ Stop(Stopped("ReturnTarget"))
  /\ UNCHANGED <<program, machine, bps, nextId>>

\* An iteration that does not arrive checks the breakpoints: it stops, or it
\* executes one instruction.
Halt ==
  /\ Looping
  /\ ~Arrives
  /\ \E verdict \in Verdicts : \E passing \in {Passing(verdict)} :
       /\ Hits(at, passing) # {}
       /\ bps' = Checked(at, passing)
       /\ Stop([stop |-> "Breakpoint", id |-> bps[Min(Hits(at, passing))].id])
  /\ UNCHANGED <<program, machine, nextId>>

\* The condition of breakpoint b, at PC, has been found false.
Refuses(b, verdict) == b.addr = at /\ b.conditional /\ verdict[b.id] = "false"

Tallied(verdict) ==
  [ tally EXCEPT !.passed[at] = @ + 1,
                 !.refused = [i \in DOMAIN bps |->
                                IF Refuses(bps[i], verdict) THEN @[i] + 1 ELSE @[i]] ]

Advance ==
  /\ Looping
  /\ ~Arrives
  /\ \E verdict \in Verdicts :
       /\ Hits(at, Passing(verdict)) = {}
       /\ bps' = Checked(at, Passing(verdict))
       /\ tally' = Tallied(verdict)
  /\ CpuStep
  /\ run' = [run EXCEPT !.count = @ + 1]
  /\ UNCHANGED <<program, nextId, outcome>>

Init ==
  /\ program \in Programs
  /\ at = 0 /\ active = <<>>
  /\ bps = <<>> /\ nextId = 1
  /\ run = Idle /\ outcome = Stopped("none") /\ tally = Fresh(<<>>)

Loop == GiveUp \/ Arrive \/ Halt \/ Advance

Next == UseBreakpoints \/ StepOne \/ StepOver \/ StepOut \/ Loop

\* A command is a call that runs to its end: its loop does not pause.
Spec == Init /\ [][Next]_vars /\ WF_vars(Loop)

-----------------------------------------------------------------------------
(* Properties.                                                             *)

\* Every variable keeps its shape, and a command executes no more instructions
\* than its limit (step_over at least the call).
TypeOK ==
  /\ program \in Programs
  /\ at \in Address
  /\ active \in Seq(Frame)
  /\ bps \in Seq(Breakpoint) /\ nextId \in Nat
  /\ run \in Run
  /\ run.count <= Max({run.limit, 1})
  /\ outcome \in Outcomes
  /\ tally \in Tally

\* The stack of the routine that the command returns to.
Home == IF run.mode = "over" THEN run.before ELSE Front(run.before)

\* While a command runs, the routine it returns to does not: its activations
\* stay on the stack, whatever interrupts and calls nest above them, and when
\* they are uncovered PC is at the target, where the loop stops.
CallerWaits ==
  run.mode # "idle" =>
    /\ IsPrefix(Home, active)
    /\ active = Home => at = run.target

\* A command goes past an enabled breakpoint exactly as often as its condition has
\* been found false there or an ignore has been used up on it: neither an error in
\* a condition nor another breakpoint at the address lets it by, and what one of
\* them ignores or refuses is not paid for by another.
NeverRunsPast ==
  run.mode # "idle" =>
    \A i \in DOMAIN bps :
      bps[i].enabled =>
        tally.passed[bps[i].addr] = tally.refused[i] + (tally.given[i].ignore - bps[i].ignore)

\* The counters of a breakpoint move only when PC is at it and it is enabled: a
\* hit is counted only with a stop that names a breakpoint, a count to ignore
\* is used up only by an iteration that is no hit of the same breakpoint.
CountersFollowStops ==
  [][\A i \in DOMAIN bps, j \in DOMAIN bps' :
       bps[i].id = bps'[j].id /\ run.mode # "idle" =>
         /\ bps'[j] # bps[i] => bps[i].enabled /\ bps[i].addr = at
         /\ bps'[j].hits # bps[i].hits =>
              /\ bps'[j].ignore = bps[i].ignore
              /\ run' = Idle /\ outcome'.stop = "Breakpoint"
              /\ \E k \in DOMAIN bps : bps[k].id = outcome'.id /\ bps[k].addr = at]_vars

\* A command ends even if the routine it runs never returns.
Terminates == run.mode # "idle" ~> run.mode = "idle"
=============================================================================
