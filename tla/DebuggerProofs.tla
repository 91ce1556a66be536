--------------------------- MODULE DebuggerProofs ---------------------------
(***************************************************************************)
(* Proofs about Debugger, for every program, every address space, every    *)
(* set of interrupts and every limit: a command never misses the routine   *)
(* it returns to, goes past a breakpoint only as often as that refuses or  *)
(* ignores it, and moves the counters of breakpoints only with its stops.  *)
(***************************************************************************)
EXTENDS Debugger, SequenceTheorems, WellFoundedInduction, TLAPS

-----------------------------------------------------------------------------
(* The inductive invariant.                                                *)

\* The routine with the stack home waits for control at target: its activations
\* are at the bottom of the stack, the frame just above them, where there is
\* one, returns to target, and where there is none PC is at target.
Waits(home, target, stack, pc) ==
  /\ Len(home) <= Len(stack)
  /\ \A i \in 1 .. Len(home) : home[i] = stack[i]
  /\ Len(stack) = Len(home) => pc = target
  /\ Len(stack) > Len(home) => stack[Len(home) + 1].ret = target

Waiting ==
  run.mode # "idle" =>
    /\ run.mode = "out" => run.before # <<>>
    /\ Waits(Home, run.target, active, at)

\* No two breakpoints have the same id, and ids are not given again.
Distinct ==
  /\ \A i \in DOMAIN bps : bps[i].id < nextId
  /\ \A i, j \in DOMAIN bps : bps[i].id = bps[j].id => i = j

\* The tally of a command is about its breakpoints.
Ledger ==
  /\ run.mode # "idle" => DOMAIN tally.given = DOMAIN bps /\ DOMAIN tally.refused = DOMAIN bps
  /\ NeverRunsPast

IInv == TypeOK /\ Distinct /\ Waiting /\ Ledger

-----------------------------------------------------------------------------
(* Sequences and sets of numbers.                                          *)

\* The first n elements of a sequence.
LEMMA FirstFacts ==
  ASSUME NEW S, NEW s \in Seq(S), NEW n \in 0 .. Len(s)
  PROVE  /\ SubSeq(s, 1, n) \in Seq(S)
         /\ Len(SubSeq(s, 1, n)) = n
         /\ \A i \in 1 .. n : SubSeq(s, 1, n)[i] = s[i]
<1> DEFINE first == SubSeq(s, 1, n)
<1>1. Len(s) \in Nat /\ n \in Nat /\ n <= Len(s)
  BY LenProperties
<1>2. 1 \in Int /\ n \in Int /\ \A i \in 1 .. n : s[i] \in S
  BY <1>1, ElementOfSeq
<1>3. /\ first \in Seq(S)
      /\ Len(first) = IF 1 <= n THEN n - 1 + 1 ELSE 0
      /\ \A i \in 1 .. n - 1 + 1 : first[i] = s[1 + i - 1]
  BY <1>2, SubSeqProperties
<1> HIDE DEF first
<1>4. Len(first) = n /\ \A i \in 1 .. n : first[i] = s[i]
  BY <1>1, <1>3
<1> QED
  BY <1>3, <1>4 DEF first

\* A range from 1 has one upper end.
LEMMA SameBounds ==
  ASSUME NEW m \in Nat, NEW n \in Nat, 1 .. m = 1 .. n
  PROVE  m = n
<1>1. m > n => m \in 1 .. m /\ m \notin 1 .. n
  OBVIOUS
<1>2. n > m => n \in 1 .. n /\ n \notin 1 .. m
  OBVIOUS
<1> QED
  BY <1>1, <1>2

\* All but the last element of a sequence, and the last one.
LEMMA FrontFacts ==
  ASSUME NEW S, NEW s \in Seq(S), s # <<>>
  PROVE  /\ Front(s) \in Seq(S)
         /\ Len(Front(s)) = Len(s) - 1
         /\ \A i \in 1 .. Len(s) - 1 : Front(s)[i] = s[i]
         /\ Last(s) = s[Len(s)] /\ Last(s) \in S
<1>1. Len(s) \in Nat /\ Len(s) >= 1 /\ \A i \in 1 .. Len(s) : s[i] \in S
  BY EmptySeq, ElementOfSeq
<1>2. Len(s) - 1 \in 0 .. Len(s) /\ Len(s) \in 1 .. Len(s)
  BY <1>1
<1>3. s[Len(s)] \in S
  BY <1>1, <1>2
<1> QED
  BY <1>2, <1>3, FirstFacts DEF Front, Last

\* A sequence without its element i.
LEMMA RemoveAtFacts ==
  ASSUME NEW S, NEW s \in Seq(S), NEW i \in 1 .. Len(s)
  PROVE  /\ RemoveAt(s, i) \in Seq(S)
         /\ Len(RemoveAt(s, i)) = Len(s) - 1
         /\ \A k \in 1 .. Len(s) - 1 : RemoveAt(s, i)[k] = s[IF k < i THEN k ELSE k + 1]
<1> DEFINE low  == SubSeq(s, 1, i - 1)
           high == SubSeq(s, i + 1, Len(s))
<1>1. Len(s) \in Nat /\ \A k \in 1 .. Len(s) : s[k] \in S
  BY LenProperties, ElementOfSeq
<1>2. low \in Seq(S) /\ Len(low) = i - 1 /\ \A k \in 1 .. i - 1 : low[k] = s[k]
  BY <1>1, FirstFacts
<1>3. /\ high \in Seq(S) /\ Len(high) = Len(s) - i
      /\ \A k \in 1 .. Len(s) - i : high[k] = s[k + i]
  <2>1. i + 1 \in Int /\ Len(s) \in Int /\ \A k \in i + 1 .. Len(s) : s[k] \in S
    BY <1>1
  <2>2. /\ high \in Seq(S)
        /\ Len(high) = IF i + 1 <= Len(s) THEN Len(s) - (i + 1) + 1 ELSE 0
        /\ \A k \in 1 .. Len(s) - (i + 1) + 1 : high[k] = s[i + 1 + k - 1]
    BY <2>1, SubSeqProperties
  <2>3. \A k \in 1 .. Len(s) - i : k \in 1 .. Len(s) - (i + 1) + 1 /\ i + 1 + k - 1 = k + i
    BY <1>1
  <2>4. Len(high) = Len(s) - i
    BY <2>2, <1>1
  <2> QED
    BY <2>2, <2>3, <2>4
<1> HIDE DEF low, high
<1>4. /\ low \o high \in Seq(S)
      /\ Len(low \o high) = Len(low) + Len(high)
      /\ \A k \in 1 .. Len(low) + Len(high) :
           (low \o high)[k] = IF k <= Len(low) THEN low[k] ELSE high[k - Len(low)]
  BY <1>2, <1>3, ConcatProperties
<1>5. RemoveAt(s, i) = low \o high
  BY DEF RemoveAt, low, high
<1>6. Len(low) + Len(high) = Len(s) - 1
  BY <1>1, <1>2, <1>3
<1>7. ASSUME NEW k \in 1 .. Len(s) - 1
      PROVE  (low \o high)[k] = s[IF k < i THEN k ELSE k + 1]
  <2>1. CASE k < i
    BY <2>1, <1>1, <1>2, <1>4, <1>6
  <2>2. CASE ~ (k < i)
    <3>1. k - (i - 1) \in 1 .. Len(s) - i /\ k - (i - 1) + i = k + 1 /\ ~ (k <= i - 1)
      BY <2>2, <1>1
    <3>2. (low \o high)[k] = high[k - (i - 1)]
      BY <3>1, <1>2, <1>4, <1>6
    <3> QED
      BY <3>1, <3>2, <1>3, <2>2
  <2> QED
    BY <2>1, <2>2
<1> QED
  BY <1>4, <1>5, <1>6, <1>7

\* A prefix, element by element.
LEMMA PrefixFacts ==
  ASSUME NEW S, NEW s \in Seq(S), NEW t \in Seq(S),
         Len(s) <= Len(t), \A i \in 1 .. Len(s) : s[i] = t[i]
  PROVE  IsPrefix(s, t)
<1>1. Len(s) \in Nat /\ Len(t) \in Nat
  BY LenProperties
<1>2. SubSeq(s, 1, Len(s)) = s
  BY SubSeqFull
<1>3. SubSeq(t, 1, Len(s)) = s
  <2>1. Len(s) \in 0 .. Len(t)
    BY <1>1
  <2> QED
    BY <2>1, FirstFacts, SeqEqual
<1> QED
  BY <1>2, <1>3 DEF IsPrefix

\* The smallest number of a set of numbers is one of them.
LEMMA MinFacts ==
  ASSUME NEW T, T \subseteq Nat, T # {}
  PROVE  Min(T) \in T
<1>1. PICK x \in T : \A y \in T : <<y, x>> \notin OpToRel(<, Nat)
  BY WFMin, NatLessThanWellFounded
<1>2. \A y \in T : ~ (y < x)
  BY <1>1, Zenon DEF OpToRel
<1>3. \A y \in T : x =< y
  BY <1>2
<1> QED
  BY <1>3 DEF Min

\* The larger of two numbers.
LEMMA MaxFacts ==
  ASSUME NEW a \in Nat, NEW b \in Nat
  PROVE  Max({a, b}) = IF a >= b THEN a ELSE b
<1> DEFINE m == IF a >= b THEN a ELSE b
<1>1. m \in {a, b} /\ \A y \in {a, b} : m >= y
  OBVIOUS
<1>2. \A x \in {a, b} : (\A y \in {a, b} : x >= y) => x = m
  OBVIOUS
<1> QED
  BY <1>1, <1>2 DEF Max

-----------------------------------------------------------------------------
(* The processor.                                                          *)

\* The instruction at PC is an instruction, and the frames are frames.
LEMMA HereType ==
  ASSUME TypeOK
  PROVE  /\ program[at].op \in {"call", "return", "flow"}
         /\ program[at].to \subseteq Address
         /\ After(at) \in Address
<1>1. program \in [Address -> Instructions] /\ at \in Address /\ Size \in Nat \ {0}
  BY DebuggerAssumption DEF TypeOK
<1>2. program[at] \in Instructions
  BY <1>1
<1>3. After(at) \in Address
  BY <1>1 DEF After, Address
<1>4. CASE program[at] \in [op : {"call", "flow"}, to : SUBSET Address \ {{}}]
  BY <1>3, <1>4
<1>5. CASE program[at] \in [op : {"return"}, to : {Address}]
  BY <1>3, <1>5
<1> QED
  BY <1>2, <1>4, <1>5 DEF Instructions

\* What an instruction does: a call pushes a frame for the address after it, a
\* return goes where the top frame says, anything else leaves the stack alone.
LEMMA EffectFacts ==
  ASSUME TypeOK, NEW e \in Effects
  PROVE  \/ /\ program[at].op = "call"
            /\ \E a \in Address :
                 e = <<Append(active, [kind |-> "call", ret |-> After(at)]), a>>
         \/ program[at].op # "call" /\ active # <<>> /\ e = <<Front(active), Last(active).ret>>
         \/ program[at].op # "call" /\ \E a \in Address : e = <<active, a>>
<1>1. program[at].to \subseteq Address
  BY HereType
<1>2. CASE program[at].op = "call"
  BY <1>1, <1>2 DEF Effects
<1>3. CASE program[at].op = "return" /\ active # <<>>
  BY <1>1, <1>3 DEF Effects
<1>4. CASE program[at].op # "call" /\ ~ (program[at].op = "return" /\ active # <<>>)
  <2>1. e \in {<<active, a>> : a \in program[at].to}
    BY <1>4 DEF Effects
  <2> QED
    BY <1>1, <1>4, <2>1
<1> QED
  BY <1>2, <1>3, <1>4

\* The stack and the PC that an instruction leaves are a stack and an address.
LEMMA EffectType ==
  ASSUME TypeOK, NEW e \in Effects
  PROVE  e[1] \in Seq(Frame) /\ e[2] \in Address
<1>1. active \in Seq(Frame)
  BY DEF TypeOK
<1>2. ASSUME NEW a \in Address,
             e = <<Append(active, [kind |-> "call", ret |-> After(at)]), a>>
      PROVE  e[1] \in Seq(Frame) /\ e[2] \in Address
  <2>1. [kind |-> "call", ret |-> After(at)] \in Frame
    BY HereType DEF Frame
  <2> QED
    BY <1>1, <1>2, <2>1, AppendProperties
<1>3. ASSUME active # <<>>, e = <<Front(active), Last(active).ret>>
      PROVE  e[1] \in Seq(Frame) /\ e[2] \in Address
  <2>1. Front(active) \in Seq(Frame) /\ Last(active) \in Frame
    BY <1>1, <1>3, FrontFacts
  <2> QED
    BY <1>3, <2>1 DEF Frame
<1>4. ASSUME NEW a \in Address, e = <<active, a>>
      PROVE  e[1] \in Seq(Frame) /\ e[2] \in Address
  BY <1>1, <1>4
<1> QED
  BY <1>2, <1>3, <1>4, EffectFacts

\* An interrupt saves the address that the instruction before it left in PC.
LEMMA ServeType ==
  ASSUME NEW stack \in Seq(Frame), NEW pc \in Address, NEW kind \in Interrupts
  PROVE  [kind |-> kind, ret |-> pc] \in Frame
         /\ Append(stack, [kind |-> kind, ret |-> pc]) \in Seq(Frame)
         /\ Handler[kind] \in Address
<1>1. [kind |-> kind, ret |-> pc] \in Frame
  BY DEF Frame
<1> QED
  BY <1>1, AppendProperties, DebuggerAssumption

LEMMA CpuStepType ==
  ASSUME TypeOK, CpuStep
  PROVE  active' \in Seq(Frame) /\ at' \in Address
<1>1. PICK e \in Effects :
        \/ active' = e[1] /\ at' = e[2]
        \/ \E kind \in Interrupts :
             /\ active' = Append(e[1], [kind |-> kind, ret |-> e[2]])
             /\ at' = Handler[kind]
  BY DEF CpuStep
<1>2. e[1] \in Seq(Frame) /\ e[2] \in Address
  BY EffectType
<1> QED
  BY <1>1, <1>2, ServeType

-----------------------------------------------------------------------------
(* A routine that waits goes on waiting.                                   *)

\* A frame pushed over the waiting routine itself returns to PC, where the
\* routine waits for control; any other nests in what it waits for.
LEMMA PushKeeps ==
  ASSUME NEW home \in Seq(Frame), NEW stack \in Seq(Frame), NEW f \in Frame,
         NEW target, NEW pc, NEW next,
         Waits(home, target, stack, pc),
         Len(stack) = Len(home) => f.ret = target
  PROVE  Waits(home, target, Append(stack, f), next)
<1>1. Len(home) \in Nat /\ Len(stack) \in Nat
  BY LenProperties
<1>2. /\ Len(Append(stack, f)) = Len(stack) + 1
      /\ \A i \in 1 .. Len(stack) : Append(stack, f)[i] = stack[i]
      /\ Append(stack, f)[Len(stack) + 1] = f
  BY AppendProperties
<1>3. \A i \in 1 .. Len(home) : home[i] = Append(stack, f)[i]
  BY <1>1, <1>2 DEF Waits
<1>4. Append(stack, f)[Len(home) + 1].ret = target
  <2>1. CASE Len(stack) = Len(home)
    BY <1>2, <2>1
  <2>2. CASE Len(stack) > Len(home)
    <3>1. Len(home) + 1 \in 1 .. Len(stack)
      BY <1>1, <2>2
    <3> QED
      BY <1>2, <2>2, <3>1 DEF Waits
  <2> QED
    BY <1>1, <2>1, <2>2 DEF Waits
<1> QED
  BY <1>1, <1>2, <1>3, <1>4 DEF Waits

\* A return that uncovers the waiting routine goes to its target.
LEMMA PopKeeps ==
  ASSUME NEW home \in Seq(Frame), NEW stack \in Seq(Frame), NEW target, NEW pc,
         Waits(home, target, stack, pc), pc # target
  PROVE  stack # <<>> /\ Waits(home, target, Front(stack), Last(stack).ret)
<1>1. Len(home) \in Nat /\ Len(stack) \in Nat
  BY LenProperties
<1>2. Len(stack) > Len(home) /\ stack[Len(home) + 1].ret = target
  BY <1>1 DEF Waits
<1>3. stack # <<>>
  BY <1>1, <1>2, EmptySeq
<1>4. /\ Len(Front(stack)) = Len(stack) - 1
      /\ \A i \in 1 .. Len(stack) - 1 : Front(stack)[i] = stack[i]
      /\ Last(stack) = stack[Len(stack)]
  BY <1>3, FrontFacts
<1>5. \A i \in 1 .. Len(home) : home[i] = Front(stack)[i]
  BY <1>1, <1>2, <1>4 DEF Waits
<1>6. Len(Front(stack)) = Len(home) => Last(stack).ret = target
  <2>1. Len(stack) - 1 = Len(home) => Len(stack) = Len(home) + 1
    BY <1>1
  <2> QED
    BY <1>2, <1>4, <2>1
<1>7. Len(Front(stack)) > Len(home) => Front(stack)[Len(home) + 1].ret = target
  <2>1. Len(stack) - 1 > Len(home) => Len(home) + 1 \in 1 .. Len(stack) - 1
    BY <1>1
  <2> QED
    BY <1>2, <1>4, <2>1
<1> QED
  BY <1>1, <1>2, <1>3, <1>4, <1>5, <1>6, <1>7 DEF Waits

LEMMA CpuStepKeeps ==
  ASSUME TypeOK, CpuStep, NEW home \in Seq(Frame), NEW target,
         Waits(home, target, active, at), at # target
  PROVE  Waits(home, target, active', at')
<1>1. PICK e \in Effects :
        \/ active' = e[1] /\ at' = e[2]
        \/ \E kind \in Interrupts :
             /\ active' = Append(e[1], [kind |-> kind, ret |-> e[2]])
             /\ at' = Handler[kind]
  BY DEF CpuStep
<1>2. active \in Seq(Frame) /\ e[1] \in Seq(Frame) /\ e[2] \in Address
  BY EffectType DEF TypeOK
<1>3. Len(home) \in Nat /\ Len(active) \in Nat /\ Len(active) > Len(home)
  BY <1>2, LenProperties DEF Waits
<1>4. Waits(home, target, e[1], e[2])
  <2>1. ASSUME NEW a \in Address,
               e = <<Append(active, [kind |-> "call", ret |-> After(at)]), a>>
        PROVE  Waits(home, target, e[1], e[2])
    <3>1. [kind |-> "call", ret |-> After(at)] \in Frame
      BY HereType DEF Frame
    <3>2. Waits(home, target, Append(active, [kind |-> "call", ret |-> After(at)]), a)
      BY <1>2, <1>3, <3>1, PushKeeps
    <3> QED
      BY <2>1, <3>2
  <2>2. ASSUME e = <<Front(active), Last(active).ret>>
        PROVE  Waits(home, target, e[1], e[2])
    BY <1>2, <2>2, PopKeeps
  <2>3. ASSUME NEW a \in Address, e = <<active, a>>
        PROVE  Waits(home, target, e[1], e[2])
    BY <1>3, <2>3 DEF Waits
  <2> QED
    BY <2>1, <2>2, <2>3, EffectFacts
<1>5. ASSUME NEW kind \in Interrupts,
             active' = Append(e[1], [kind |-> kind, ret |-> e[2]])
      PROVE  Waits(home, target, active', at')
  <2>1. [kind |-> kind, ret |-> e[2]] \in Frame
    BY <1>2, ServeType
  <2>2. Len(e[1]) = Len(home) => [kind |-> kind, ret |-> e[2]].ret = target
    BY <1>4 DEF Waits
  <2> QED
    BY <1>2, <1>4, <1>5, <2>1, <2>2, PushKeeps
<1> QED
  BY <1>1, <1>4, <1>5

-----------------------------------------------------------------------------
(* The breakpoints.                                                        *)

\* A list of breakpoints with the types and the ids that IInv asks for.
Listed(list, next) ==
  /\ list \in Seq(Breakpoint) /\ next \in Nat
  /\ \A i \in DOMAIN list : list[i].id < next
  /\ \A i, j \in DOMAIN list : list[i].id = list[j].id => i = j

LEMMA ListedType ==
  ASSUME NEW list, NEW next, Listed(list, next)
  PROVE  /\ Len(list) \in Nat /\ DOMAIN list = 1 .. Len(list)
         /\ \A i \in 1 .. Len(list) : list[i] \in Breakpoint /\ list[i].id \in Nat
<1>1. Len(list) \in Nat /\ DOMAIN list = 1 .. Len(list)
  BY LenProperties DEF Listed
<1>2. \A i \in 1 .. Len(list) : list[i] \in Breakpoint
  BY ElementOfSeq DEF Listed
<1> QED
  BY <1>1, <1>2 DEF Breakpoint

\* The same ids at the same places.
LEMMA SameIds ==
  ASSUME NEW list, NEW next, Listed(list, next),
         NEW other \in Seq(Breakpoint), Len(other) = Len(list),
         \A i \in 1 .. Len(list) : other[i].id = list[i].id
  PROVE  Listed(other, next)
<1>1. DOMAIN other = 1 .. Len(list) /\ DOMAIN list = 1 .. Len(list)
  BY ListedType, LenProperties
<1> QED
  BY <1>1 DEF Listed

LEMMA AddListed ==
  ASSUME Listed(bps, nextId), Add
  PROVE  Listed(bps', nextId')
<1>1. PICK a \in Address :
        bps' = Append(bps, [id |-> nextId, addr |-> a, enabled |-> TRUE,
                            conditional |-> FALSE, hits |-> 0, ignore |-> 0])
  BY DebuggerAssumption DEF Add
<1> DEFINE b == [id |-> nextId, addr |-> a, enabled |-> TRUE,
                 conditional |-> FALSE, hits |-> 0, ignore |-> 0]
<1>2. b \in Breakpoint /\ b.id = nextId
  <2>1. 0 \in 0 .. MaxHits /\ nextId \in Nat
    BY DebuggerAssumption DEF Listed
  <2> QED
    BY <2>1 DEF Breakpoint
<1>3. /\ Len(bps) \in Nat /\ DOMAIN bps = 1 .. Len(bps) /\ bps \in Seq(Breakpoint)
      /\ \A i \in 1 .. Len(bps) : bps[i].id \in Nat /\ bps[i].id < nextId
  BY ListedType DEF Listed
<1> HIDE DEF b
<1>4. /\ Append(bps, b) \in Seq(Breakpoint)
      /\ Len(Append(bps, b)) = Len(bps) + 1
      /\ \A i \in 1 .. Len(bps) : Append(bps, b)[i] = bps[i]
      /\ Append(bps, b)[Len(bps) + 1] = b
  BY <1>2, <1>3, AppendProperties
<1>5. bps' = Append(bps, b) /\ nextId' = nextId + 1 /\ nextId \in Nat
  BY <1>1 DEF Add, b, Listed
<1>6. DOMAIN bps' = 1 .. Len(bps) + 1
  BY <1>4, <1>5, LenProperties
<1>7. \A i \in 1 .. Len(bps) + 1 :
        \/ i \in 1 .. Len(bps) /\ bps'[i].id = bps[i].id
        \/ i = Len(bps) + 1 /\ bps'[i].id = nextId
  BY <1>2, <1>3, <1>4, <1>5
<1>8. \A i \in DOMAIN bps' : bps'[i].id < nextId'
  BY <1>3, <1>5, <1>6, <1>7
<1>9. \A i, j \in DOMAIN bps' : bps'[i].id = bps'[j].id => i = j
  <2> SUFFICES ASSUME NEW i \in 1 .. Len(bps) + 1, NEW j \in 1 .. Len(bps) + 1,
                      bps'[i].id = bps'[j].id
               PROVE  i = j
    BY <1>6
  <2>1. CASE i \in 1 .. Len(bps) /\ j \in 1 .. Len(bps)
    BY <2>1, <1>3, <1>7 DEF Listed
  <2>2. CASE ~ (i \in 1 .. Len(bps) /\ j \in 1 .. Len(bps))
    BY <2>2, <1>3, <1>7
  <2> QED
    BY <2>1, <2>2
<1> QED
  BY <1>4, <1>5, <1>8, <1>9 DEF Listed

\* A breakpoint is replaced by one with the same id.
LEMMA ReplaceListed ==
  ASSUME NEW list, NEW next, Listed(list, next), NEW i \in DOMAIN list,
         NEW b \in Breakpoint, b.id = list[i].id
  PROVE  Listed([list EXCEPT ![i] = b], next)
<1>1. i \in 1 .. Len(list) /\ list \in Seq(Breakpoint)
  BY ListedType DEF Listed
<1>2. /\ [list EXCEPT ![i] = b] \in Seq(Breakpoint)
      /\ Len([list EXCEPT ![i] = b]) = Len(list)
      /\ \A j \in 1 .. Len(list) : [list EXCEPT ![i] = b][j] = IF j = i THEN b ELSE list[j]
  BY <1>1, ExceptSeq
<1>3. \A j \in 1 .. Len(list) : [list EXCEPT ![i] = b][j].id = list[j].id
  BY <1>2
<1> QED
  BY <1>2, <1>3, SameIds

LEMMA ChangeListed ==
  ASSUME Listed(bps, nextId), Change
  PROVE  Listed(bps', nextId')
<1>1. nextId' = nextId
  BY DEF Change
<1>2. ASSUME NEW i \in DOMAIN bps, bps' = [bps EXCEPT ![i].enabled = ~ @]
      PROVE  Listed(bps', nextId)
  <2> DEFINE b == [bps[i] EXCEPT !.enabled = ~ @]
  <2>1. b \in Breakpoint /\ b.id = bps[i].id
    BY ListedType DEF Breakpoint
  <2> QED
    BY <1>2, <2>1, ReplaceListed
<1>3. ASSUME NEW i \in DOMAIN bps, bps' = [bps EXCEPT ![i].conditional = ~ @]
      PROVE  Listed(bps', nextId)
  <2> DEFINE b == [bps[i] EXCEPT !.conditional = ~ @]
  <2>1. b \in Breakpoint /\ b.id = bps[i].id
    BY ListedType DEF Breakpoint
  <2> QED
    BY <1>3, <2>1, ReplaceListed
<1>4. ASSUME NEW i \in DOMAIN bps, NEW n \in Ignores, bps' = [bps EXCEPT ![i].ignore = n]
      PROVE  Listed(bps', nextId)
  <2> DEFINE b == [bps[i] EXCEPT !.ignore = n]
  <2>1. b \in Breakpoint /\ b.id = bps[i].id
    BY ListedType, DebuggerAssumption DEF Breakpoint
  <2> QED
    BY <1>4, <2>1, ReplaceListed
<1> QED
  BY <1>1, <1>2, <1>3, <1>4 DEF Change

LEMMA DropListed ==
  ASSUME Listed(bps, nextId), Drop
  PROVE  Listed(bps', nextId')
<1>1. nextId' = nextId /\ nextId \in Nat
  BY DEF Drop, Listed
<1>2. CASE bps' = <<>>
  <2>1. bps' \in Seq(Breakpoint) /\ Len(bps') = 0
    BY <1>2, EmptySeq
  <2>2. DOMAIN bps' = {}
    BY <2>1, LenProperties
  <2> QED
    BY <1>1, <2>1, <2>2 DEF Listed
<1>3. ASSUME NEW i \in DOMAIN bps, bps' = RemoveAt(bps, i)
      PROVE  Listed(bps', nextId')
  <2>1. /\ Len(bps) \in Nat /\ DOMAIN bps = 1 .. Len(bps) /\ bps \in Seq(Breakpoint)
        /\ \A k \in 1 .. Len(bps) : bps[k].id < nextId
    BY ListedType DEF Listed
  <2>2. /\ bps' \in Seq(Breakpoint)
        /\ Len(bps') = Len(bps) - 1
        /\ \A k \in 1 .. Len(bps) - 1 : bps'[k] = bps[IF k < i THEN k ELSE k + 1]
    <3>1. i \in 1 .. Len(bps)
      BY <2>1
    <3>2. /\ RemoveAt(bps, i) \in Seq(Breakpoint)
          /\ Len(RemoveAt(bps, i)) = Len(bps) - 1
          /\ \A k \in 1 .. Len(bps) - 1 : RemoveAt(bps, i)[k] = bps[IF k < i THEN k ELSE k + 1]
      BY <2>1, <3>1, RemoveAtFacts
    <3> QED
      BY <1>3, <3>2
  <2>3. DOMAIN bps' = 1 .. Len(bps) - 1
    BY <2>2, LenProperties
  <2>4. \A k \in 1 .. Len(bps) - 1 : (IF k < i THEN k ELSE k + 1) \in 1 .. Len(bps)
    BY <2>1
  <2>5. \A k \in DOMAIN bps' : bps'[k].id < nextId
    BY <2>1, <2>2, <2>3, <2>4
  <2>6. \A k, l \in DOMAIN bps' : bps'[k].id = bps'[l].id => k = l
    <3> SUFFICES ASSUME NEW k \in 1 .. Len(bps) - 1, NEW l \in 1 .. Len(bps) - 1,
                        bps'[k].id = bps'[l].id
                 PROVE  k = l
      BY <2>3
    <3> DEFINE old(x) == IF x < i THEN x ELSE x + 1
    <3>1. bps'[k] = bps[old(k)] /\ bps'[l] = bps[old(l)]
      BY <2>2
    <3>2. old(k) \in DOMAIN bps /\ old(l) \in DOMAIN bps
      BY <2>1, <2>4
    <3>3. old(k) = old(l) => k = l
      BY <2>1
    <3> HIDE DEF old
    <3>4. old(k) = old(l)
      BY <3>1, <3>2 DEF Listed
    <3> QED
      BY <3>3, <3>4
  <2> QED
    BY <1>1, <2>2, <2>5, <2>6 DEF Listed
<1> QED
  BY <1>2, <1>3 DEF Drop

\* A check changes only counters, of breakpoints at PC that are enabled: the
\* hits of those that ask for a stop, the ignore count of others.
LEMMA CheckedFacts ==
  ASSUME Listed(bps, nextId), NEW pc \in Address, NEW passing
  PROVE  /\ Listed(Checked(pc, passing), nextId)
         /\ Len(Checked(pc, passing)) = Len(bps)
         /\ \A i \in DOMAIN bps :
              LET b == Checked(pc, passing)[i]
              IN  /\ b.id = bps[i].id
                  /\ b # bps[i] => bps[i].enabled /\ bps[i].addr = pc
                  /\ b.hits # bps[i].hits => i \in Hits(pc, passing) /\ b.ignore = bps[i].ignore
<1> DEFINE new == Checked(pc, passing)
<1>1. /\ Len(bps) \in Nat /\ DOMAIN bps = 1 .. Len(bps) /\ bps \in Seq(Breakpoint)
      /\ \A i \in 1 .. Len(bps) : bps[i] \in Breakpoint
  BY ListedType DEF Listed
<1>2. ASSUME NEW i \in DOMAIN bps
      PROVE  /\ new[i] \in Breakpoint /\ new[i].id = bps[i].id
             /\ new[i] # bps[i] => bps[i].enabled /\ bps[i].addr = pc
             /\ new[i].hits # bps[i].hits => i \in Hits(pc, passing) /\ new[i].ignore = bps[i].ignore
  <2>1. bps[i] \in Breakpoint /\ MaxHits \in Nat
    BY <1>1, DebuggerAssumption
  <2>2. CASE i \in Hits(pc, passing)
    <3>1. new[i] = [bps[i] EXCEPT !.hits = IF @ < MaxHits THEN @ + 1 ELSE @]
      <4>1. bps[i].ignore = 0
        BY <2>2 DEF Hits
      <4>2. ~ (Matches(bps[i], pc, passing) /\ bps[i].ignore > 0)
        BY <4>1
      <4> QED
        BY <2>2, <4>2 DEF Checked
    <3>2. bps[i].enabled /\ bps[i].addr = pc
      BY <2>2 DEF Hits, Matches
    <3>3. (IF bps[i].hits < MaxHits THEN bps[i].hits + 1 ELSE bps[i].hits) \in 0 .. MaxHits
      BY <2>1 DEF Breakpoint
    <3> QED
      BY <2>1, <2>2, <3>1, <3>2, <3>3 DEF Breakpoint
  <2>3. CASE i \notin Hits(pc, passing) /\ Matches(bps[i], pc, passing) /\ bps[i].ignore > 0
    <3>1. new[i] = [bps[i] EXCEPT !.ignore = @ - 1]
      BY <2>3 DEF Checked
    <3>2. bps[i].enabled /\ bps[i].addr = pc
      BY <2>3 DEF Matches
    <3>3. bps[i].ignore - 1 \in Nat
      BY <2>1, <2>3 DEF Breakpoint
    <3> QED
      BY <2>1, <3>1, <3>2, <3>3 DEF Breakpoint
  <2>4. CASE i \notin Hits(pc, passing) /\ ~ (Matches(bps[i], pc, passing) /\ bps[i].ignore > 0)
    <3>1. new[i] = bps[i]
      BY <2>4 DEF Checked
    <3> QED
      BY <2>1, <3>1 DEF Breakpoint
  <2> QED
    BY <2>2, <2>3, <2>4
<1>3. new \in [1 .. Len(bps) -> Breakpoint]
  <2>1. DOMAIN new = 1 .. Len(bps) /\ new = [i \in 1 .. Len(bps) |-> new[i]]
    BY <1>1 DEF Checked
  <2> QED
    BY <2>1, <1>1, <1>2
<1> HIDE DEF new
<1>4. new \in Seq(Breakpoint) /\ Len(new) = Len(bps)
  <2>1. new \in Seq(Breakpoint)
    BY <1>1, <1>3, SeqDef
  <2>2. DOMAIN new = 1 .. Len(new) /\ Len(new) \in Nat /\ DOMAIN new = 1 .. Len(bps)
    BY <2>1, <1>3, LenProperties
  <2> QED
    BY <2>1, <2>2, <1>1, SameBounds
<1>5. Listed(new, nextId)
  BY <1>1, <1>2, <1>4, SameIds
<1> QED
  BY <1>2, <1>4, <1>5 DEF new

\* The breakpoint that a stop names asks for a stop at PC.
LEMMA NamedFacts ==
  ASSUME Listed(bps, nextId), NEW pc, NEW passing, Hits(pc, passing) # {}
  PROVE  /\ Min(Hits(pc, passing)) \in DOMAIN bps
         /\ bps[Min(Hits(pc, passing))].addr = pc
         /\ bps[Min(Hits(pc, passing))].id \in Nat
<1>1. DOMAIN bps = 1 .. Len(bps) /\ \A i \in 1 .. Len(bps) : bps[i].id \in Nat
  BY ListedType
<1>2. Hits(pc, passing) \subseteq DOMAIN bps
  BY DEF Hits
<1>3. Hits(pc, passing) \subseteq Nat
  BY <1>1, <1>2
<1>4. Min(Hits(pc, passing)) \in Hits(pc, passing)
  BY <1>3, MinFacts
<1> QED
  BY <1>1, <1>2, <1>4 DEF Hits, Matches

\* When an instruction at PC is executed, each enabled breakpoint there has used up
\* an ignore, unless its condition has refused; nothing happens to those elsewhere.
LEMMA PassedFacts ==
  ASSUME Listed(bps, nextId), NEW verdict \in Verdicts,
         Hits(at, Passing(verdict)) = {}, NEW i \in DOMAIN bps
  PROVE  LET b == Checked(at, Passing(verdict))[i]
         IN  /\ b.enabled = bps[i].enabled /\ b.addr = bps[i].addr
             /\ bps[i].addr # at =>
                  b.ignore = bps[i].ignore /\ ~ Refuses(bps[i], verdict)
             /\ bps[i].addr = at /\ bps[i].enabled =>
                  b.ignore = IF Refuses(bps[i], verdict) THEN bps[i].ignore
                             ELSE bps[i].ignore - 1
<1> DEFINE passing == Passing(verdict)
           b       == Checked(at, passing)[i]
<1>1. bps[i] \in Breakpoint
  BY ListedType
<1>2. b = IF Matches(bps[i], at, passing) /\ bps[i].ignore > 0
          THEN [bps[i] EXCEPT !.ignore = @ - 1] ELSE bps[i]
  BY DEF Checked
<1>3. Matches(bps[i], at, passing) => bps[i].ignore > 0
  <2>1. Matches(bps[i], at, passing) => bps[i].ignore # 0
    BY DEF Hits
  <2> QED
    BY <1>1, <2>1 DEF Breakpoint
<1>4. bps[i].conditional => (bps[i].id \in passing <=> verdict[bps[i].id] # "false")
  <2>1. bps[i].conditional => bps[i].id \in DOMAIN verdict
    BY DEF Verdicts
  <2> QED
    BY <2>1 DEF Passing
<1>5. bps[i].enabled /\ bps[i].addr = at =>
        (Matches(bps[i], at, passing) <=> ~ Refuses(bps[i], verdict))
  BY <1>4 DEF Matches, Refuses
<1>6. bps[i].addr # at => ~ Matches(bps[i], at, passing) /\ ~ Refuses(bps[i], verdict)
  BY DEF Matches, Refuses
<1> HIDE DEF passing
<1>7. b.enabled = bps[i].enabled /\ b.addr = bps[i].addr
  BY <1>1, <1>2 DEF Breakpoint
<1>8. b.ignore = IF Matches(bps[i], at, passing) THEN bps[i].ignore - 1 ELSE bps[i].ignore
  BY <1>1, <1>2, <1>3 DEF Breakpoint
<1> HIDE DEF b
<1> QED
  BY <1>5, <1>6, <1>7, <1>8 DEF b, passing

-----------------------------------------------------------------------------
(* The tally.                                                              *)

\* A new tally.
LEMMA FreshIs ==
  ASSUME NEW list \in Seq(Breakpoint)
  PROVE  /\ Fresh(list) \in Tally
         /\ Fresh(list).given = list
         /\ DOMAIN Fresh(list).refused = DOMAIN list
         /\ \A i \in DOMAIN list : Fresh(list).refused[i] = 0
         /\ \A a \in Address : Fresh(list).passed[a] = 0
<1>1. Len(list) \in Nat /\ DOMAIN list = 1 .. Len(list)
  BY LenProperties
<1>2. [i \in DOMAIN list |-> 0] \in [1 .. Len(list) -> Nat]
  BY <1>1
<1>3. [i \in DOMAIN list |-> 0] \in Seq(Nat)
  BY <1>1, <1>2, SeqDef
<1>4. [a \in Address |-> 0] \in [Address -> Nat]
  OBVIOUS
<1> QED
  BY <1>3, <1>4 DEF Fresh, Tally

\* A command begins with its accounts even.
LEMMA LedgerOpened ==
  ASSUME Listed(bps, nextId), bps' = bps, tally' = Fresh(bps)
  PROVE  tally' \in Tally /\ Ledger'
<1>1. DOMAIN bps = 1 .. Len(bps) /\ \A i \in 1 .. Len(bps) : bps[i] \in Breakpoint
  BY ListedType
<1>2. /\ Fresh(bps) \in Tally /\ Fresh(bps).given = bps
      /\ DOMAIN Fresh(bps).refused = DOMAIN bps
      /\ \A i \in DOMAIN bps : Fresh(bps).refused[i] = 0
      /\ \A a \in Address : Fresh(bps).passed[a] = 0
  BY FreshIs DEF Listed
<1>3. \A i \in DOMAIN bps : bps[i].addr \in Address /\ bps[i].ignore \in Nat
  BY <1>1 DEF Breakpoint
<1>4. \A i \in DOMAIN bps :
        Fresh(bps).passed[bps[i].addr]
          = Fresh(bps).refused[i] + (Fresh(bps).given[i].ignore - bps[i].ignore)
  BY <1>2, <1>3
<1> QED
  BY <1>2, <1>4 DEF Ledger, NeverRunsPast

\* What the loop goes past is accounted for.
LEMMA LedgerKept ==
  ASSUME Listed(bps, nextId), at \in Address, tally \in Tally, Ledger,
         run.mode # "idle", NEW verdict \in Verdicts,
         Hits(at, Passing(verdict)) = {},
         bps' = Checked(at, Passing(verdict)), tally' = Tallied(verdict)
  PROVE  tally' \in Tally /\ Ledger'
<1>1. /\ Len(bps) \in Nat /\ DOMAIN bps = 1 .. Len(bps)
      /\ \A i \in DOMAIN bps : bps[i].addr \in Address /\ bps[i].ignore \in Nat
  BY ListedType DEF Breakpoint
<1>2. /\ tally.given \in Seq(Breakpoint) /\ tally.passed \in [Address -> Nat]
      /\ tally.refused \in Seq(Nat)
      /\ DOMAIN tally.given = DOMAIN bps /\ DOMAIN tally.refused = DOMAIN bps
  BY DEF Tally, Ledger
<1>3. \A i \in DOMAIN bps : tally.given[i].ignore \in Nat /\ tally.refused[i] \in Nat
  <2>1. /\ DOMAIN tally.given = 1 .. Len(tally.given)
        /\ DOMAIN tally.refused = 1 .. Len(tally.refused)
    BY <1>2, LenProperties
  <2>2. \A i \in DOMAIN bps : tally.given[i] \in Breakpoint /\ tally.refused[i] \in Nat
    BY <1>2, <2>1, ElementOfSeq
  <2> QED
    BY <2>2 DEF Breakpoint
<1> DEFINE passed  == [tally.passed EXCEPT ![at] = @ + 1]
           refused == [i \in DOMAIN bps |-> IF Refuses(bps[i], verdict) THEN tally.refused[i] + 1
                                            ELSE tally.refused[i]]
<1>4. tally' = [tally EXCEPT !.passed = passed, !.refused = refused]
  BY DEF Tallied
<1>5. /\ passed \in [Address -> Nat]
      /\ \A a \in Address : passed[a] = IF a = at THEN tally.passed[a] + 1 ELSE tally.passed[a]
  BY <1>2
<1>6. /\ refused \in Seq(Nat) /\ DOMAIN refused = DOMAIN bps
      /\ \A i \in DOMAIN bps : refused[i] = IF Refuses(bps[i], verdict) THEN tally.refused[i] + 1
                                             ELSE tally.refused[i]
  <2>1. refused \in [1 .. Len(bps) -> Nat]
    BY <1>1, <1>3
  <2> QED
    BY <1>1, <2>1, SeqDef
<1> HIDE DEF passed, refused
<1>7. /\ tally' \in Tally
      /\ tally'.given = tally.given /\ tally'.passed = passed /\ tally'.refused = refused
  BY <1>2, <1>4, <1>5, <1>6 DEF Tally
<1>8. DOMAIN bps' = DOMAIN bps
  BY DEF Checked
<1>9. ASSUME NEW i \in DOMAIN bps, bps'[i].enabled
      PROVE  passed[bps'[i].addr] = refused[i] + (tally.given[i].ignore - bps'[i].ignore)
  <2>1. /\ bps'[i].enabled = bps[i].enabled /\ bps'[i].addr = bps[i].addr
        /\ bps[i].addr # at =>
             bps'[i].ignore = bps[i].ignore /\ ~ Refuses(bps[i], verdict)
        /\ bps[i].addr = at /\ bps[i].enabled =>
             bps'[i].ignore = IF Refuses(bps[i], verdict) THEN bps[i].ignore
                              ELSE bps[i].ignore - 1
    BY PassedFacts
  <2>2. tally.passed[bps[i].addr] = tally.refused[i] + (tally.given[i].ignore - bps[i].ignore)
    BY <1>9, <2>1 DEF Ledger, NeverRunsPast
  <2>3. /\ tally.passed[bps[i].addr] \in Nat /\ tally.refused[i] \in Nat
        /\ tally.given[i].ignore \in Nat /\ bps[i].ignore \in Nat /\ bps[i].addr \in Address
    BY <1>1, <1>2, <1>3
  <2>4. CASE bps[i].addr = at
    <3>1. passed[bps'[i].addr] = tally.passed[bps[i].addr] + 1
      BY <1>5, <2>1, <2>3, <2>4
    <3>2. CASE Refuses(bps[i], verdict)
      <4>1. refused[i] = tally.refused[i] + 1 /\ bps'[i].ignore = bps[i].ignore
        BY <1>6, <1>9, <2>1, <2>4, <3>2
      <4> QED
        BY <2>2, <2>3, <3>1, <4>1
    <3>3. CASE ~ Refuses(bps[i], verdict)
      <4>1. refused[i] = tally.refused[i] /\ bps'[i].ignore = bps[i].ignore - 1
        BY <1>6, <1>9, <2>1, <2>4, <3>3
      <4> QED
        BY <2>2, <2>3, <3>1, <4>1
    <3> QED
      BY <3>2, <3>3
  <2>5. CASE bps[i].addr # at
    BY <1>5, <1>6, <1>9, <2>1, <2>2, <2>3, <2>5
  <2> QED
    BY <2>4, <2>5
<1> QED
  BY <1>2, <1>6, <1>7, <1>8, <1>9 DEF Ledger, NeverRunsPast

-----------------------------------------------------------------------------
(* The commands.                                                           *)

LEMMA RunType ==
  ASSUME TypeOK
  PROVE  /\ run.mode \in {"idle", "over", "out"} /\ run.target \in Address
         /\ run.limit \in Nat /\ run.count \in Nat /\ run.before \in Seq(Frame)
         /\ Max({run.limit, 1}) \in Nat
<1>1. run.limit \in Nat /\ 1 \in Nat
  BY DEF TypeOK, Run
<1>2. Max({run.limit, 1}) \in Nat
  BY <1>1, MaxFacts
<1> QED
  BY <1>2 DEF TypeOK, Run

LEMMA IdleType == Idle \in Run /\ Idle.mode = "idle" /\ Idle.count <= Max({Idle.limit, 1})
<1>1. 0 \in Address
  BY DebuggerAssumption DEF Address
<1>2. Max({0, 1}) = 1
  <2>1. 0 \in Nat /\ 1 \in Nat /\ ~ (0 >= 1)
    OBVIOUS
  <2> QED
    BY <2>1, MaxFacts
<1>3. <<>> \in Seq(Frame)
  BY EmptySeq
<1> QED
  BY <1>1, <1>2, <1>3 DEF Idle, Run

\* The stack of the routine that a command returns to is a stack.
LEMMA HomeType ==
  ASSUME TypeOK, run.mode # "idle", run.mode = "out" => run.before # <<>>
  PROVE  Home \in Seq(Frame)
<1>1. run.before \in Seq(Frame) /\ run.mode \in {"over", "out"}
  BY RunType
<1> QED
  BY <1>1, FrontFacts DEF Home

LEMMA InvListed ==
  ASSUME IInv
  PROVE  Listed(bps, nextId)
BY DEF IInv, TypeOK, Distinct, Listed

\* A command that stops, stops with an outcome, and none runs any more.
LEMMA StopGood ==
  ASSUME IInv, NEW why \in Outcomes, Stop(why),
         UNCHANGED <<program, machine, nextId>>, Listed(bps', nextId)
  PROVE  IInv'
<1>1. run' = Idle /\ outcome' = why /\ tally' \in Tally
  <2>1. <<>> \in Seq(Breakpoint)
    BY EmptySeq
  <2> QED
    BY <2>1, FreshIs DEF Stop
<1>2. TypeOK'
  BY <1>1, IdleType DEF IInv, TypeOK, machine, Listed
<1>3. Distinct'
  BY DEF Distinct, Listed
<1>4. Waiting' /\ Ledger'
  BY <1>1, IdleType DEF Waiting, Ledger, NeverRunsPast
<1> QED
  BY <1>2, <1>3, <1>4 DEF IInv

LEMMA InitGood ==
  ASSUME Init
  PROVE  IInv
<1>1. bps \in Seq(Breakpoint) /\ DOMAIN bps = {} /\ active \in Seq(Frame)
  <2>1. bps \in Seq(Breakpoint) /\ Len(bps) = 0 /\ active \in Seq(Frame)
    BY EmptySeq DEF Init
  <2> QED
    BY <2>1, LenProperties
<1>2. 0 \in Address /\ Stopped("none") \in Outcomes /\ nextId \in Nat
  BY DebuggerAssumption DEF Address, Stopped, Outcomes, Init
<1>3. TypeOK
  <2>1. tally \in Tally
    BY <1>1, FreshIs DEF Init
  <2> QED
    BY <1>1, <1>2, <2>1, IdleType DEF TypeOK, Init
<1>4. Distinct
  BY <1>1 DEF Distinct
<1>5. Waiting /\ Ledger
  BY IdleType DEF Waiting, Ledger, NeverRunsPast, Init
<1> QED
  BY <1>3, <1>4, <1>5 DEF IInv

LEMMA UseGood ==
  ASSUME IInv, UseBreakpoints
  PROVE  IInv'
<1>1. Listed(bps', nextId')
  <2>1. Listed(bps, nextId) /\ at \in Address
    BY InvListed DEF IInv, TypeOK
  <2>2. CASE Ask
    BY <2>1, <2>2, CheckedFacts DEF Ask
  <2> QED
    BY <2>1, <2>2, AddListed, ChangeListed, DropListed DEF UseBreakpoints
<1>2. UNCHANGED <<program, at, active, run, outcome, tally>> /\ run.mode = "idle"
  BY DEF UseBreakpoints, machine
<1>3. TypeOK'
  BY <1>1, <1>2 DEF IInv, TypeOK, Listed
<1>4. Distinct'
  BY <1>1 DEF Distinct, Listed
<1>5. Waiting' /\ Ledger'
  BY <1>2 DEF Waiting, Ledger, NeverRunsPast
<1> QED
  BY <1>3, <1>4, <1>5 DEF IInv

LEMMA StepOneGood ==
  ASSUME IInv, StepOne
  PROVE  IInv'
<1>1. active' \in Seq(Frame) /\ at' \in Address
  BY CpuStepType DEF IInv, StepOne
<1>2. UNCHANGED <<program, bps, nextId, run, tally>> /\ run.mode = "idle" /\ outcome' \in Outcomes
  BY DEF StepOne, Ready, Stopped, Outcomes
<1>3. TypeOK'
  BY <1>1, <1>2 DEF IInv, TypeOK
<1>4. Distinct' /\ Waiting' /\ Ledger'
  BY <1>2 DEF IInv, Distinct, Waiting, Ledger, NeverRunsPast
<1> QED
  BY <1>3, <1>4 DEF IInv

\* The call that step_over begins with leaves its caller waiting: under the
\* frame that the call pushed, even when an interrupt is served at once.
LEMMA CallWaits ==
  ASSUME TypeOK, CpuStep, program[at].op = "call"
  PROVE  Waits(active, After(at), active', at')
<1> DEFINE f == [kind |-> "call", ret |-> After(at)]
<1>1. PICK e \in Effects :
        \/ active' = e[1] /\ at' = e[2]
        \/ \E kind \in Interrupts :
             /\ active' = Append(e[1], [kind |-> kind, ret |-> e[2]])
             /\ at' = Handler[kind]
  BY DEF CpuStep
<1>2. e[1] = Append(active, f) /\ e[1] \in Seq(Frame) /\ e[2] \in Address
  BY EffectFacts, EffectType
<1>3. active \in Seq(Frame) /\ f \in Frame /\ f.ret = After(at)
  BY HereType DEF TypeOK, Frame
<1> HIDE DEF f
<1>4. /\ Len(active) \in Nat
      /\ Len(e[1]) = Len(active) + 1
      /\ \A i \in 1 .. Len(active) : e[1][i] = active[i]
      /\ e[1][Len(active) + 1] = f
  BY <1>2, <1>3, AppendProperties, LenProperties
<1>5. \A pc : Waits(active, After(at), e[1], pc)
  BY <1>3, <1>4 DEF Waits
<1>6. ASSUME NEW kind \in Interrupts,
             active' = Append(e[1], [kind |-> kind, ret |-> e[2]])
      PROVE  Waits(active, After(at), active', at')
  <2>1. [kind |-> kind, ret |-> e[2]] \in Frame
    BY <1>2, ServeType
  <2>2. Len(e[1]) # Len(active)
    BY <1>4
  <2>3. Waits(active, After(at), e[1], e[2])
    BY <1>5
  <2> QED
    BY <1>2, <1>3, <1>6, <2>1, <2>2, <2>3, PushKeeps
<1> QED
  BY <1>1, <1>5, <1>6

LEMMA StepOverGood ==
  ASSUME IInv, StepOver
  PROVE  IInv'
<1>1. active' \in Seq(Frame) /\ at' \in Address
  BY CpuStepType DEF IInv, StepOver
<1>2. PICK limit \in Limits :
        run' = [mode |-> "over", target |-> After(at), limit |-> limit, count |-> 1,
                before |-> active]
  BY DEF StepOver
<1>3. UNCHANGED <<program, bps, nextId>> /\ outcome' \in Outcomes
  BY DEF StepOver, Stopped, Outcomes
<1>0. tally' \in Tally /\ Ledger'
  BY <1>3, InvListed, LedgerOpened DEF StepOver
<1>4. TypeOK'
  <2>1. limit \in Nat /\ 1 \in Nat
    BY DebuggerAssumption
  <2>2. run' \in Run
    BY <1>2, <2>1, HereType DEF IInv, TypeOK, Run
  <2>3. run'.count <= Max({run'.limit, 1})
    <3>1. 1 <= Max({limit, 1})
      BY <2>1, MaxFacts
    <3> QED
      BY <1>2, <3>1
  <2> QED
    BY <1>0, <1>1, <1>3, <2>2, <2>3 DEF IInv, TypeOK
<1>5. Distinct'
  BY <1>3 DEF IInv, Distinct
<1>6. Waiting'
  <2>1. Waits(active, After(at), active', at')
    BY CallWaits DEF IInv, StepOver
  <2>2. Home' = active /\ run'.target = After(at) /\ run'.mode = "over"
    BY <1>2 DEF Home
  <2> QED
    BY <2>1, <2>2 DEF Waiting
<1> QED
  BY <1>0, <1>4, <1>5, <1>6 DEF IInv

LEMMA StepOutGood ==
  ASSUME IInv, StepOut
  PROVE  IInv'
<1>1. UNCHANGED <<program, at, active, bps, nextId>>
  BY DEF StepOut, machine
<1>2. Distinct'
  BY <1>1 DEF IInv, Distinct
<1>3. CASE active = <<>>
  <2>1. UNCHANGED <<run, tally>> /\ outcome' \in Outcomes /\ run.mode = "idle"
    BY <1>3 DEF StepOut, Ready, Stopped, Outcomes
  <2>2. TypeOK' /\ Waiting' /\ Ledger'
    BY <1>1, <2>1 DEF IInv, TypeOK, Waiting, Ledger, NeverRunsPast
  <2> QED
    BY <1>2, <2>2 DEF IInv
<1>4. CASE active # <<>>
  <2>1. PICK limit \in Limits :
          run' = [mode |-> "out", target |-> Last(active).ret, limit |-> limit,
                  count |-> 0, before |-> active]
    BY <1>4 DEF StepOut
  <2>2. outcome' \in Outcomes
    BY <1>4 DEF StepOut, Stopped, Outcomes
  <2>0. tally' \in Tally /\ Ledger'
    BY <1>1, <1>4, InvListed, LedgerOpened DEF StepOut
  <2>3. active \in Seq(Frame)
    BY DEF IInv, TypeOK
  <2>4. /\ Front(active) \in Seq(Frame)
        /\ Len(Front(active)) = Len(active) - 1
        /\ \A i \in 1 .. Len(active) - 1 : Front(active)[i] = active[i]
        /\ Last(active) = active[Len(active)] /\ Last(active) \in Frame
    BY <1>4, <2>3, FrontFacts
  <2>5. TypeOK'
    <3>1. limit \in Nat /\ 1 \in Nat
      BY DebuggerAssumption
    <3>2. run' \in Run
      BY <2>1, <2>3, <2>4, <3>1 DEF Run, Frame
    <3>3. 0 <= Max({limit, 1})
      BY <3>1, MaxFacts
    <3>4. run'.count <= Max({run'.limit, 1})
      BY <2>1, <3>3
    <3> QED
      BY <1>1, <2>0, <2>2, <3>2, <3>4 DEF IInv, TypeOK
  <2>6. Waiting'
    <3>1. /\ Home' = Front(active) /\ run'.target = Last(active).ret
          /\ run'.before # <<>> /\ active' = active
      BY <1>1, <1>4, <2>1 DEF Home
    <3>2. Len(active) \in Nat
      BY <2>3, LenProperties
    <3>3. Len(Front(active)) + 1 = Len(active)
      BY <2>4, <3>2
    <3>4. active[Len(Front(active)) + 1].ret = Last(active).ret
      BY <2>4, <3>3
    <3>5. Waits(Front(active), Last(active).ret, active, at')
      BY <2>4, <3>2, <3>4 DEF Waits
    <3> QED
      BY <3>1, <3>5 DEF Waiting
  <2> QED
    BY <1>2, <2>0, <2>5, <2>6 DEF IInv
<1> QED
  BY <1>3, <1>4

LEMMA GiveUpGood ==
  ASSUME IInv, GiveUp
  PROVE  IInv'
<1>1. Stopped("Limit") \in Outcomes
  BY DEF Stopped, Outcomes
<1>2. Listed(bps', nextId)
  BY InvListed DEF GiveUp
<1> QED
  BY <1>1, <1>2, StopGood DEF GiveUp

LEMMA ArriveGood ==
  ASSUME IInv, Arrive
  PROVE  IInv'
<1>1. Stopped("ReturnTarget") \in Outcomes
  BY DEF Stopped, Outcomes
<1>2. Listed(bps', nextId)
  BY InvListed DEF Arrive
<1> QED
  BY <1>1, <1>2, StopGood DEF Arrive

LEMMA HaltGood ==
  ASSUME IInv, Halt
  PROVE  IInv'
<1>1. PICK passing :
        /\ Hits(at, passing) # {}
        /\ bps' = Checked(at, passing)
        /\ Stop([stop |-> "Breakpoint", id |-> bps[Min(Hits(at, passing))].id])
  BY DEF Halt
<1>2. Listed(bps, nextId) /\ at \in Address
  BY InvListed DEF IInv, TypeOK
<1>3. Listed(bps', nextId)
  BY <1>1, <1>2, CheckedFacts
<1>4. [stop |-> "Breakpoint", id |-> bps[Min(Hits(at, passing))].id] \in Outcomes
  BY <1>1, <1>2, NamedFacts DEF Outcomes
<1>5. UNCHANGED <<program, machine, nextId>>
  BY DEF Halt
<1> QED
  BY <1>1, <1>3, <1>4, <1>5, StopGood

LEMMA AdvanceGood ==
  ASSUME IInv, Advance
  PROVE  IInv'
<1>1. PICK verdict \in Verdicts :
        /\ Hits(at, Passing(verdict)) = {}
        /\ bps' = Checked(at, Passing(verdict))
        /\ tally' = Tallied(verdict)
  BY DEF Advance
<1>2. Listed(bps, nextId) /\ at \in Address /\ TypeOK
  BY InvListed DEF IInv, TypeOK
<1>3. Listed(bps', nextId)
  BY <1>1, <1>2, CheckedFacts
<1>4. active' \in Seq(Frame) /\ at' \in Address
  BY <1>2, CpuStepType DEF Advance
<1>5. /\ run.mode # "idle" /\ run.count < run.limit /\ at # run.target
      /\ run' = [run EXCEPT !.count = @ + 1]
      /\ UNCHANGED <<program, nextId, outcome>>
  BY DEF Advance, Looping, Arrives
<1>6. run' \in Run /\ run'.count <= Max({run'.limit, 1})
  <2>1. /\ run \in Run /\ run.limit \in Nat /\ run.count \in Nat /\ 1 \in Nat
    BY <1>2, RunType DEF TypeOK
  <2>2. run.limit <= Max({run.limit, 1}) /\ Max({run.limit, 1}) \in Nat
    BY <2>1, MaxFacts
  <2>3. run' \in Run /\ run'.count = run.count + 1 /\ run'.limit = run.limit
    BY <1>5, <2>1 DEF Run
  <2> QED
    BY <1>5, <2>1, <2>2, <2>3
<1>0. tally' \in Tally /\ Ledger'
  BY <1>1, <1>2, <1>5, LedgerKept DEF IInv, TypeOK
<1>7. TypeOK'
  BY <1>0, <1>2, <1>3, <1>4, <1>5, <1>6 DEF TypeOK, Listed
<1>8. Distinct'
  BY <1>3, <1>5 DEF Distinct, Listed
<1>9. Waiting'
  <2>1. /\ run.mode = "out" => run.before # <<>>
        /\ Waits(Home, run.target, active, at)
    BY <1>5 DEF IInv, Waiting
  <2>2. Home \in Seq(Frame)
    BY <1>2, <1>5, <2>1, HomeType
  <2>3. Waits(Home, run.target, active', at')
    BY <1>2, <1>5, <2>1, <2>2, CpuStepKeeps DEF Advance
  <2>4. run'.mode = run.mode /\ run'.before = run.before /\ run'.target = run.target
    BY <1>2, <1>5 DEF TypeOK, Run
  <2>5. Home' = Home
    BY <2>4 DEF Home
  <2> QED
    BY <2>1, <2>3, <2>4, <2>5 DEF Waiting
<1> QED
  BY <1>0, <1>7, <1>8, <1>9 DEF IInv

\* No step leaves the invariant.
LEMMA NextGood ==
  ASSUME IInv, [Next]_vars
  PROVE  IInv'
<1>1. CASE UNCHANGED vars
  BY <1>1 DEF vars, machine, IInv, TypeOK, Distinct, Waiting, Home, Ledger, NeverRunsPast
<1> QED
  BY <1>1, UseGood, StepOneGood, StepOverGood, StepOutGood, GiveUpGood, ArriveGood,
     HaltGood, AdvanceGood DEF Next, Loop

\* The invariant holds for ever.
THEOREM Inductive == Spec => []IInv
<1>1. Init => IInv
  BY InitGood
<1>2. IInv /\ [Next]_vars => IInv'
  BY NextGood
<1> QED
  BY <1>1, <1>2, PTL DEF Spec

-----------------------------------------------------------------------------
(* The properties.                                                         *)

\* The stacks, the breakpoints and the commands keep their types, and no command
\* executes more instructions than its limit, whatever the program does.
THEOREM TypeCorrect == Spec => []TypeOK
<1>1. IInv => TypeOK
  BY DEF IInv
<1> QED
  BY <1>1, Inductive, PTL

\* While step_over or step_out runs, the routine it returns to waits at the bottom
\* of the stack, and is uncovered only with PC at the target.
THEOREM CallerWaitsCorrect == Spec => []CallerWaits
<1>1. IInv => CallerWaits
  <2> SUFFICES ASSUME IInv, run.mode # "idle"
               PROVE  IsPrefix(Home, active) /\ (active = Home => at = run.target)
    BY DEF CallerWaits
  <2>1. /\ run.mode = "out" => run.before # <<>>
        /\ Waits(Home, run.target, active, at)
    BY DEF IInv, Waiting
  <2>2. Home \in Seq(Frame) /\ active \in Seq(Frame)
    BY <2>1, HomeType DEF IInv, TypeOK
  <2>3. IsPrefix(Home, active)
    BY <2>1, <2>2, PrefixFacts DEF Waits
  <2>4. active = Home => at = run.target
    BY <2>1 DEF Waits
  <2> QED
    BY <2>3, <2>4
<1> QED
  BY <1>1, Inductive, PTL

\* What a step can do while a command runs: stop it, or go round its loop.
LEMMA RunningCases ==
  ASSUME [Next]_vars, run.mode # "idle"
  PROVE  GiveUp \/ Arrive \/ Halt \/ Advance \/ UNCHANGED vars
BY DEF Next, Loop, UseBreakpoints, StepOne, StepOver, StepOut, Ready

\* What a command executes at an enabled breakpoint, its condition has refused to stop
\* or the breakpoint was told to ignore, each time anew; an error refuses nothing.
THEOREM NeverRunsPastCorrect == Spec => []NeverRunsPast
<1>1. IInv => NeverRunsPast
  BY DEF IInv, Ledger
<1> QED
  BY <1>1, Inductive, PTL

\* Hits are counted with the stop they cause, and ignore counts are used up only
\* by an enabled breakpoint at PC that causes none.
THEOREM CountersFollowStopsCorrect == Spec => CountersFollowStops
<1> DEFINE Follows(i, j) ==
             /\ bps'[j] # bps[i] => bps[i].enabled /\ bps[i].addr = at
             /\ bps'[j].hits # bps[i].hits =>
                  /\ bps'[j].ignore = bps[i].ignore
                  /\ run' = Idle /\ outcome'.stop = "Breakpoint"
                  /\ \E k \in DOMAIN bps : bps[k].id = outcome'.id /\ bps[k].addr = at
           All == \A i \in DOMAIN bps, j \in DOMAIN bps' :
                    bps[i].id = bps'[j].id /\ run.mode # "idle" => Follows(i, j)
<1>1. ASSUME IInv, [Next]_vars
      PROVE  All
  <2> SUFFICES ASSUME NEW i \in DOMAIN bps, NEW j \in DOMAIN bps',
                      bps[i].id = bps'[j].id, run.mode # "idle"
               PROVE  Follows(i, j)
    OBVIOUS
  <2>1. Listed(bps, nextId) /\ at \in Address
    BY <1>1, InvListed DEF IInv, TypeOK
  <2>2. CASE bps' = bps
    BY <2>1, <2>2 DEF Listed
  <2>3. ASSUME NEW passing, bps' = Checked(at, passing)
        PROVE  /\ i = j
               /\ bps'[i] # bps[i] => bps[i].enabled /\ bps[i].addr = at
               /\ bps'[i].hits # bps[i].hits =>
                    i \in Hits(at, passing) /\ bps'[i].ignore = bps[i].ignore
    <3>1. DOMAIN bps' = DOMAIN bps
      BY <2>3, <2>1 DEF Checked
    <3>2. bps'[j].id = bps[j].id
      BY <2>1, <2>3, <3>1, CheckedFacts
    <3>3. i = j
      BY <2>1, <3>1, <3>2 DEF Listed
    <3> QED
      BY <2>1, <2>3, <3>3, CheckedFacts
  <2>4. CASE Halt
    <3>1. PICK passing :
            /\ Hits(at, passing) # {}
            /\ bps' = Checked(at, passing)
            /\ Stop([stop |-> "Breakpoint", id |-> bps[Min(Hits(at, passing))].id])
      BY <2>4 DEF Halt
    <3>2. /\ run' = Idle /\ outcome'.stop = "Breakpoint"
          /\ outcome'.id = bps[Min(Hits(at, passing))].id
      BY <3>1 DEF Stop
    <3>3. \E k \in DOMAIN bps : bps[k].id = outcome'.id /\ bps[k].addr = at
      BY <2>1, <3>1, <3>2, NamedFacts
    <3> QED
      BY <2>3, <3>1, <3>2, <3>3
  <2>5. CASE Advance
    <3>1. PICK passing : Hits(at, passing) = {} /\ bps' = Checked(at, passing)
      BY <2>5 DEF Advance
    <3> QED
      BY <2>3, <3>1
  <2>6. GiveUp \/ Arrive \/ UNCHANGED vars => bps' = bps
    BY DEF GiveUp, Arrive, vars
  <2> QED
    BY <1>1, <2>2, <2>4, <2>5, <2>6, RunningCases
<1>2. IInv /\ [Next]_vars => [All]_vars
  BY <1>1
<1> QED
  BY <1>2, Inductive, PTL DEF Spec, CountersFollowStops
=============================================================================
