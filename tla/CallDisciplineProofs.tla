------------------------ MODULE CallDisciplineProofs ------------------------
(***************************************************************************)
(* Proofs that a program which keeps to the discipline of CallDiscipline   *)
(* always returns to its callers, and that the shadow call stack then is   *)
(* the call stack, for every size of memory, of register file and of       *)
(* program.                                                                *)
(***************************************************************************)
EXTENDS CallDiscipline, CpuTheorems

\* Frames of three and of twelve bytes do not meet on one stack: FIRQ is not in
\* use, or it is the only interrupt, of either sort, in use.
OneFrameSize == "firq" \notin Lines \/ (Lines \subseteq {"firq"} /\ Software = {})

-----------------------------------------------------------------------------
(* The inductive invariant, about a machine m in the activations chain, which *)
(* need not be a state between two steps.                                  *)

\* Where the entry of activation i leaves S; the cells from there up to chain[i].s
\* hold what it saved.
Base(chain, i) == chain[i].s - EntrySize(chain[i].kind)

LimitOf(chain) == IF chain = <<>> THEN Top ELSE Base(chain, Len(chain))

Typed(m, chain) == m \in Machine /\ m.latch \subseteq Lines /\ chain \in Seq(Act)

Mirrored(m, chain) ==
  /\ Len(m.frames) = Len(chain)
  /\ \A i \in 1 .. Len(chain) :
       m.frames[i] = [ret |-> chain[i].pc, kind |-> chain[i].kind, sp |-> Base(chain, i)]

\* The saved areas lie one below the other, and S below all of them.
Nested(m, chain) ==
  /\ m.s <= Top
  /\ \A i \in 1 .. Len(chain) :
       /\ EntrySize(chain[i].kind) <= chain[i].s
       /\ chain[i].s <= Top
       /\ m.s <= Base(chain, i)
       /\ \A j \in i + 1 .. Len(chain) : chain[j].s <= Base(chain, i)

\* Activation a finds in memory what its entry saved.
Kept(mem, a) ==
  /\ <<mem[a.s - 2], mem[a.s - 1]>> = a.pc
  /\ a.kind = "firq" => mem[a.s - EntrySize(a.kind)] = a.cc
  /\ a.kind \notin {"call", "firq"} =>
       /\ mem[a.s - EntrySize(a.kind)] = a.cc \cup {"E"}
       /\ \A r \in 1 .. NRegs : mem[a.s - EntrySize(a.kind) + r] = a.regs[r]

Saved(m, chain) == \A i \in 1 .. Len(chain) : Kept(m.mem, chain[i])

\* Where FIRQ is in use, E is clear now and was clear at every entry.
EClear(m, chain) ==
  /\ "firq" \in Lines =>
       /\ "E" \notin m.cc
       /\ \A i \in 1 .. Len(chain) : "E" \notin chain[i].cc /\ chain[i].kind \in {"call", "firq"}
  /\ "firq" \notin Lines => \A i \in 1 .. Len(chain) : chain[i].kind # "firq"

Good(m, chain) ==
  Typed(m, chain) /\ Mirrored(m, chain) /\ Nested(m, chain) /\ Saved(m, chain) /\ EClear(m, chain)

IInv == Good(cpu, acts)

-----------------------------------------------------------------------------
(* Arithmetic of the saved areas.                                          *)

LEMMA Constants ==
  /\ NRegs \in Nat /\ MemSize \in Nat /\ NRegs + 3 < MemSize
  /\ Top \in Nat /\ Top < MemSize
BY CpuConstants, DisciplineAssumption DEF CpuAssumption, Addr

LEMMA SizeType ==
  \A kind : EntrySize(kind) \in 2 .. NRegs + 3
BY Constants DEF EntrySize

LEMMA ActType ==
  ASSUME NEW a \in Act
  PROVE  /\ a.kind \in Kinds /\ a.pc \in Word
         /\ a.s \in Nat /\ a.s < MemSize
         /\ a.cc \in Byte /\ a.regs \in [1 .. NRegs -> Byte]
         /\ EntrySize(a.kind) \in Nat /\ EntrySize(a.kind) >= 2
<1>1. a.kind \in Kinds /\ a.pc \in Word /\ a.s \in Addr /\ a.cc \in Byte
      /\ a.regs \in [1 .. NRegs -> Byte]
  BY DEF Act
<1>2. EntrySize(a.kind) \in 2 .. NRegs + 3
  BY SizeType
<1> QED
  BY <1>1, <1>2, Constants DEF Addr

LEMMA GoodType ==
  ASSUME NEW m, NEW chain, Good(m, chain)
  PROVE  /\ m \in Machine /\ m.s \in Nat /\ m.s <= Top /\ m.s < MemSize
         /\ chain \in Seq(Act) /\ Len(chain) \in Nat
         /\ \A i \in 1 .. Len(chain) :
              chain[i] \in Act /\ Base(chain, i) \in Nat /\ chain[i].s \in Nat
              /\ Base(chain, i) + 2 <= chain[i].s /\ chain[i].s <= Top
              /\ chain[i].s = Base(chain, i) + EntrySize(chain[i].kind)
<1>1. m \in Machine /\ chain \in Seq(Act)
  BY DEF Good, Typed
<1>2. m.s \in Addr
  BY <1>1 DEF Machine
<1>3. m.s \in Nat /\ m.s < MemSize /\ m.s <= Top
  BY <1>2, Constants DEF Addr, Good, Nested
<1>4. Len(chain) \in Nat
  BY <1>1, LenProperties
<1>5. ASSUME NEW i \in 1 .. Len(chain)
      PROVE  chain[i] \in Act /\ Base(chain, i) \in Nat /\ chain[i].s \in Nat
             /\ Base(chain, i) + 2 <= chain[i].s /\ chain[i].s <= Top
             /\ chain[i].s = Base(chain, i) + EntrySize(chain[i].kind)
  <2>1. chain[i] \in Act
    BY <1>1, ElementOfSeq
  <2>2. chain[i].s \in Nat /\ EntrySize(chain[i].kind) \in Nat /\ EntrySize(chain[i].kind) >= 2
    BY <2>1, ActType
  <2>3. EntrySize(chain[i].kind) <= chain[i].s /\ chain[i].s <= Top
    BY DEF Good, Nested
  <2> QED
    BY <2>1, <2>2, <2>3 DEF Base
<1> QED
  BY <1>1, <1>3, <1>4, <1>5

LEMMA LastIndex ==
  ASSUME NEW S, NEW seq \in Seq(S), seq # <<>>
  PROVE  Len(seq) \in Nat /\ Len(seq) >= 1 /\ Len(seq) \in 1 .. Len(seq)
<1>1. Len(seq) \in Nat \ {0}
  BY EmptySeq
<1> QED
  BY <1>1

\* The innermost saved area is the lowest.
LEMMA LimitLowest ==
  ASSUME NEW m, NEW chain, Good(m, chain)
  PROVE  /\ LimitOf(chain) \in Nat /\ LimitOf(chain) <= Top
         /\ m.s <= LimitOf(chain)
         /\ \A i \in 1 .. Len(chain) : LimitOf(chain) <= Base(chain, i)
<1> DEFINE n == Len(chain)
<1>1. m.s \in Nat /\ m.s <= Top /\ chain \in Seq(Act) /\ n \in Nat
  BY GoodType
<1>2. CASE chain = <<>>
  <2>1. n = 0
    BY <1>2
  <2> QED
    BY <1>1, <1>2, <2>1, Constants DEF LimitOf
<1>3. CASE chain # <<>>
  <2>1. n \in 1 .. Len(chain)
    BY <1>1, <1>3, LastIndex
  <2>2. LimitOf(chain) = Base(chain, n)
    BY <1>3 DEF LimitOf
  <2>3. m.s <= Base(chain, n)
    BY <2>1 DEF Good, Nested
  <2>4. Base(chain, n) \in Nat /\ chain[n].s \in Nat /\ Base(chain, n) + 2 <= chain[n].s /\ chain[n].s <= Top
    BY <2>1, GoodType
  <2>5. ASSUME NEW i \in 1 .. Len(chain)
        PROVE  Base(chain, n) <= Base(chain, i)
    <3>1. Base(chain, i) \in Nat
      BY GoodType
    <3>2. CASE i = n
      BY <3>1, <3>2
    <3>3. CASE i # n
      <4>1. n \in i + 1 .. Len(chain)
        BY <1>1, <2>1, <3>3
      <4>2. chain[n].s <= Base(chain, i)
        BY <4>1 DEF Good, Nested
      <4> HIDE DEF n
      <4> QED
        BY <2>4, <3>1, <4>2
    <3> QED
      BY <3>2, <3>3
  <2> HIDE DEF n
  <2> QED
    BY <2>2, <2>3, <2>4, <2>5, Constants
<1> QED
  BY <1>2, <1>3

\* What an activation saved depends only on the cells of its saved area.
LEMMA KeptElsewhere ==
  ASSUME NEW a \in Act, EntrySize(a.kind) <= a.s, NEW mem, NEW mem2,
         Kept(mem, a),
         \A x \in a.s - EntrySize(a.kind) .. a.s - 1 : mem2[x] = mem[x]
  PROVE  Kept(mem2, a)
<1>1. a.s \in Nat /\ EntrySize(a.kind) \in Nat /\ EntrySize(a.kind) >= 2 /\ NRegs \in Nat
  BY ActType, Constants
<1>2. mem2[a.s - 2] = mem[a.s - 2] /\ mem2[a.s - 1] = mem[a.s - 1]
  BY <1>1
<1>3. mem2[a.s - EntrySize(a.kind)] = mem[a.s - EntrySize(a.kind)]
  BY <1>1
<1>4. ASSUME NEW r \in 1 .. NRegs, a.kind \notin {"call", "firq"}
      PROVE  mem2[a.s - EntrySize(a.kind) + r] = mem[a.s - EntrySize(a.kind) + r]
  <2>1. EntrySize(a.kind) = NRegs + 3
    BY <1>4 DEF EntrySize
  <2>2. a.s - EntrySize(a.kind) + r \in a.s - EntrySize(a.kind) .. a.s - 1
    BY <1>1, <2>1
  <2> QED
    BY <2>2
<1> QED
  BY <1>2, <1>3, <1>4 DEF Kept

-----------------------------------------------------------------------------
(* Three ways for an instruction to keep the invariant.                    *)

\* Staying in the activation, without touching what lies above its limit.
LEMMA StayGood ==
  ASSUME NEW m, NEW chain, Good(m, chain), NEW n \in Machine,
         n.frames = m.frames, n.latch \subseteq Lines, n.s <= LimitOf(chain),
         \A x \in LimitOf(chain) .. Top - 1 : n.mem[x] = m.mem[x],
         "E" \in n.cc => "E" \in m.cc
  PROVE  Good(n, chain)
<1>1. /\ chain \in Seq(Act) /\ Len(chain) \in Nat /\ Top \in Nat
      /\ LimitOf(chain) \in Nat /\ LimitOf(chain) <= Top
      /\ \A i \in 1 .. Len(chain) : LimitOf(chain) <= Base(chain, i)
  BY GoodType, LimitLowest, Constants
<1>2. n.s \in Nat
  BY Constants DEF Machine, Addr
<1>3. Typed(n, chain)
  BY <1>1 DEF Typed
<1>4. Mirrored(n, chain)
  BY DEF Good, Mirrored
<1>5. Nested(n, chain)
  <2>1. n.s <= Top
    BY <1>1, <1>2
  <2>2. ASSUME NEW i \in 1 .. Len(chain)
        PROVE  n.s <= Base(chain, i)
    <3>1. Base(chain, i) \in Nat /\ LimitOf(chain) <= Base(chain, i)
      BY <1>1, GoodType
    <3> QED
      BY <1>1, <1>2, <3>1
  <2> QED
    BY <2>1, <2>2 DEF Good, Nested
<1>6. ASSUME NEW i \in 1 .. Len(chain)
      PROVE  Kept(n.mem, chain[i])
  <2>1. /\ chain[i] \in Act /\ Base(chain, i) \in Nat /\ chain[i].s \in Nat
        /\ chain[i].s <= Top /\ LimitOf(chain) <= Base(chain, i)
        /\ EntrySize(chain[i].kind) <= chain[i].s
    BY <1>1, GoodType DEF Good, Nested
  <2>2. Kept(m.mem, chain[i])
    BY DEF Good, Saved
  <2>3. \A x \in Base(chain, i) .. chain[i].s - 1 : n.mem[x] = m.mem[x]
    BY <1>1, <2>1
  <2> QED
    BY <2>1, <2>2, <2>3, KeptElsewhere DEF Base
<1>7. EClear(n, chain)
  BY DEF Good, EClear
<1> QED
  BY <1>3, <1>4, <1>5, <1>6, <1>7 DEF Good, Saved

\* Entering an activation.
LEMMA EnterGood ==
  ASSUME NEW m, NEW chain, Good(m, chain), NEW kind \in Kinds, NEW n \in Machine,
         EntrySize(kind) <= m.s,
         n.s = m.s - EntrySize(kind),
         n.frames = Append(m.frames, [ret |-> m.pc, sp |-> n.s, kind |-> kind]),
         n.latch \subseteq Lines,
         \A x \in m.s .. Top - 1 : n.mem[x] = m.mem[x],
         Kept(n.mem, Entered(m, kind)),
         "firq" \in Lines => kind \in {"call", "firq"} /\ ("E" \in n.cc => "E" \in m.cc),
         "firq" \notin Lines => kind # "firq"
  PROVE  Good(n, Append(chain, Entered(m, kind)))
<1> DEFINE a == Entered(m, kind)
           longer == Append(chain, a)
           frame == [ret |-> m.pc, sp |-> n.s, kind |-> kind]
<1>1. /\ m \in Machine /\ m.s \in Nat /\ m.s <= Top /\ m.s < MemSize
      /\ chain \in Seq(Act) /\ Len(chain) \in Nat /\ Top \in Nat
  BY GoodType, Constants
<1>2. /\ a \in Act /\ a.kind = kind /\ a.pc = m.pc /\ a.s = m.s /\ a.cc = m.cc
      /\ EntrySize(kind) \in Nat /\ EntrySize(kind) >= 2
  <2>1. a \in Act /\ a.kind = kind /\ a.pc = m.pc /\ a.s = m.s /\ a.cc = m.cc
    BY <1>1 DEF Entered, Act, Machine
  <2> QED
    BY <2>1, ActType
<1> HIDE DEF a
<1>3. /\ longer \in Seq(Act) /\ Len(longer) = Len(chain) + 1
      /\ \A i \in 1 .. Len(chain) : longer[i] = chain[i]
      /\ longer[Len(chain) + 1] = a
  BY <1>1, <1>2, AppendProperties
<1> HIDE DEF longer
<1>4. /\ \A i \in 1 .. Len(chain) : Base(longer, i) = Base(chain, i)
      /\ Base(longer, Len(chain) + 1) = n.s
  BY <1>2, <1>3 DEF Base
<1>5. \A i \in 1 .. Len(longer) : i \in 1 .. Len(chain) \/ i = Len(chain) + 1
  BY <1>1, <1>3
<1>6. Typed(n, longer)
  BY <1>3 DEF Typed
<1>7. Mirrored(n, longer)
  <2>1. Len(m.frames) = Len(chain)
    BY DEF Good, Mirrored
  <2>2. m.frames \in Seq(Frame) /\ frame \in Frame
    BY <1>1 DEF Machine, Frame
  <2> HIDE DEF frame
  <2>3. /\ Len(n.frames) = Len(chain) + 1
        /\ \A i \in 1 .. Len(chain) : n.frames[i] = m.frames[i]
        /\ n.frames[Len(chain) + 1] = frame
    BY <2>1, <2>2, AppendProperties DEF frame
  <2>4. ASSUME NEW i \in 1 .. Len(chain)
        PROVE  n.frames[i] = [ret |-> longer[i].pc, kind |-> longer[i].kind, sp |-> Base(longer, i)]
    BY <1>3, <1>4, <2>3 DEF Good, Mirrored
  <2>5. n.frames[Len(chain) + 1] = [ret |-> a.pc, kind |-> a.kind, sp |-> n.s]
    BY <1>2, <2>3 DEF frame
  <2>6. ASSUME NEW i \in 1 .. Len(longer)
        PROVE  n.frames[i] = [ret |-> longer[i].pc, kind |-> longer[i].kind, sp |-> Base(longer, i)]
    BY <1>3, <1>4, <1>5, <2>4, <2>5
  <2> QED
    BY <1>3, <2>3, <2>6 DEF Mirrored
<1>8. Nested(n, longer)
  <2>1. n.s \in Nat /\ n.s <= m.s /\ n.s <= Top
    BY <1>1, <1>2
  <2>2. ASSUME NEW i \in 1 .. Len(chain)
        PROVE  /\ EntrySize(longer[i].kind) <= longer[i].s /\ longer[i].s <= Top
               /\ m.s <= Base(longer, i) /\ Base(longer, i) \in Nat
               /\ \A j \in i + 1 .. Len(chain) : longer[j].s <= Base(longer, i)
    <3>1. /\ EntrySize(chain[i].kind) <= chain[i].s /\ chain[i].s <= Top
          /\ m.s <= Base(chain, i)
          /\ \A j \in i + 1 .. Len(chain) : chain[j].s <= Base(chain, i)
      BY DEF Good, Nested
    <3>2. Base(chain, i) \in Nat
      BY GoodType
    <3>3. \A j \in i + 1 .. Len(chain) : longer[j] = chain[j]
      BY <1>1, <1>3
    <3> QED
      BY <1>3, <1>4, <3>1, <3>2, <3>3
  <2>3. ASSUME NEW i \in 1 .. Len(longer)
        PROVE  /\ EntrySize(longer[i].kind) <= longer[i].s /\ longer[i].s <= Top
               /\ n.s <= Base(longer, i)
               /\ \A j \in i + 1 .. Len(longer) : longer[j].s <= Base(longer, i)
    <3>1. CASE i \in 1 .. Len(chain)
      <4>1. n.s <= Base(longer, i)
        BY <1>1, <2>1, <2>2, <3>1
      <4>2. ASSUME NEW j \in i + 1 .. Len(longer)
            PROVE  longer[j].s <= Base(longer, i)
        <5>1. j \in i + 1 .. Len(chain) \/ j = Len(chain) + 1
          BY <1>1, <1>3, <3>1
        <5> QED
          BY <1>2, <1>3, <2>2, <3>1, <5>1
      <4> QED
        BY <2>2, <3>1, <4>1, <4>2
    <3>2. CASE i = Len(chain) + 1
      <4>1. i + 1 .. Len(longer) = {}
        BY <1>1, <1>3, <3>2
      <4> QED
        BY <1>1, <1>2, <1>3, <1>4, <2>1, <3>2, <4>1
    <3> QED
      BY <1>5, <3>1, <3>2
  <2> QED
    BY <2>1, <2>3 DEF Nested
<1>9. ASSUME NEW i \in 1 .. Len(longer)
      PROVE  Kept(n.mem, longer[i])
  <2>1. CASE i \in 1 .. Len(chain)
    <3>1. /\ chain[i] \in Act /\ Base(chain, i) \in Nat /\ chain[i].s \in Nat
          /\ chain[i].s <= Top /\ m.s <= Base(chain, i)
          /\ EntrySize(chain[i].kind) <= chain[i].s
      BY <2>1, GoodType DEF Good, Nested
    <3>2. Kept(m.mem, chain[i])
      BY <2>1 DEF Good, Saved
    <3>3. \A x \in Base(chain, i) .. chain[i].s - 1 : n.mem[x] = m.mem[x]
      BY <1>1, <3>1
    <3>4. Kept(n.mem, chain[i])
      BY <3>1, <3>2, <3>3, KeptElsewhere DEF Base
    <3> QED
      BY <1>3, <2>1, <3>4
  <2>2. CASE i = Len(chain) + 1
    BY <1>3, <2>2 DEF a
  <2> QED
    BY <1>5, <2>1, <2>2
<1>10. EClear(n, longer)
  <2>1. ASSUME "firq" \in Lines
        PROVE  /\ "E" \notin n.cc
               /\ \A i \in 1 .. Len(longer) :
                    "E" \notin longer[i].cc /\ longer[i].kind \in {"call", "firq"}
    <3>1. /\ "E" \notin m.cc
          /\ \A i \in 1 .. Len(chain) : "E" \notin chain[i].cc /\ chain[i].kind \in {"call", "firq"}
      BY <2>1 DEF Good, EClear
    <3> QED
      BY <1>2, <1>3, <1>5, <2>1, <3>1
  <2>2. ASSUME "firq" \notin Lines
        PROVE  \A i \in 1 .. Len(longer) : longer[i].kind # "firq"
    BY <1>2, <1>3, <1>5, <2>2 DEF Good, EClear
  <2> QED
    BY <2>1, <2>2 DEF EClear
<1>11. Saved(n, longer)
  BY <1>9 DEF Saved
<1> QED
  BY <1>6, <1>7, <1>8, <1>10, <1>11 DEF Good, longer, a

\* Leaving the innermost activation.
LEMMA LeaveGood ==
  ASSUME NEW m, NEW chain, Good(m, chain), chain # <<>>, NEW n \in Machine,
         n.frames = SubSeq(m.frames, 1, Len(m.frames) - 1),
         n.mem = m.mem, n.latch \subseteq Lines,
         n.s = chain[Len(chain)].s,
         "firq" \in Lines => "E" \notin n.cc
  PROVE  Good(n, SubSeq(chain, 1, Len(chain) - 1))
<1> DEFINE k == Len(chain) - 1
           shorter == SubSeq(chain, 1, k)
<1>1. /\ m \in Machine /\ chain \in Seq(Act) /\ Top \in Nat
      /\ Len(chain) \in Nat /\ Len(chain) >= 1 /\ Len(chain) \in 1 .. Len(chain)
  BY GoodType, LastIndex, Constants
<1>2. k \in Nat /\ Len(chain) = k + 1 /\ \A i \in 1 .. k : i \in 1 .. Len(chain)
  BY <1>1
<1> HIDE DEF k
<1>3. shorter \in Seq(Act) /\ Len(shorter) = k /\ \A i \in 1 .. k : shorter[i] = chain[i]
  <2>1. \A i \in 1 .. k : chain[i] \in Act
    BY <1>1, <1>2, ElementOfSeq
  <2>2. k = (IF 1 <= k THEN k - 1 + 1 ELSE 0) /\ k - 1 + 1 = k
    BY <1>2
  <2>3. \A i \in 1 .. k : 1 + i - 1 = i
    BY <1>2
  <2> QED
    BY <1>2, <2>1, <2>2, <2>3, SubSeqProperties
<1>4. Len(chain) = k + 1
  BY <1>2
<1> HIDE DEF shorter
<1>5. \A i \in 1 .. k : Base(shorter, i) = Base(chain, i)
  BY <1>3 DEF Base
<1>6. Typed(n, shorter)
  BY <1>3 DEF Typed
<1>7. Mirrored(n, shorter)
  <2>1. m.frames \in Seq(Frame) /\ Len(m.frames) = k + 1
    BY <1>1, <1>4 DEF Machine, Good, Mirrored
  <2>2. n.frames = SubSeq(m.frames, 1, k)
    BY <1>2, <2>1
  <2>3. Len(n.frames) = k /\ \A i \in 1 .. k : n.frames[i] = m.frames[i]
    <3>1. \A i \in 1 .. k : m.frames[i] \in Frame
      BY <1>2, <2>1, ElementOfSeq
    <3>2. k = (IF 1 <= k THEN k - 1 + 1 ELSE 0) /\ k - 1 + 1 = k
      BY <1>2
    <3>3. \A i \in 1 .. k : 1 + i - 1 = i
      BY <1>2
    <3> QED
      BY <1>2, <2>2, <3>1, <3>2, <3>3, SubSeqProperties
  <2>4. \A i \in 1 .. k :
          m.frames[i] = [ret |-> chain[i].pc, kind |-> chain[i].kind, sp |-> Base(chain, i)]
    BY <1>2 DEF Good, Mirrored
  <2> QED
    BY <1>3, <1>5, <2>3, <2>4 DEF Mirrored
<1>8. Nested(n, shorter)
  <2>1. n.s <= Top
    BY <1>1 DEF Good, Nested
  <2>2. ASSUME NEW i \in 1 .. k
        PROVE  /\ EntrySize(chain[i].kind) <= chain[i].s /\ chain[i].s <= Top
               /\ n.s <= Base(chain, i)
               /\ \A j \in i + 1 .. k : chain[j].s <= Base(chain, i)
    <3>1. /\ EntrySize(chain[i].kind) <= chain[i].s /\ chain[i].s <= Top
          /\ \A j \in i + 1 .. Len(chain) : chain[j].s <= Base(chain, i)
      BY <1>2 DEF Good, Nested
    <3>2. Len(chain) \in i + 1 .. Len(chain) /\ \A j \in i + 1 .. k : j \in i + 1 .. Len(chain)
      BY <1>2, <1>4
    <3> QED
      BY <3>1, <3>2
  <2> QED
    BY <1>3, <1>5, <2>1, <2>2 DEF Nested
<1>9. Saved(n, shorter)
  BY <1>2, <1>3 DEF Good, Saved
<1>10. EClear(n, shorter)
  BY <1>2, <1>3 DEF Good, EClear
<1> QED
  BY <1>6, <1>7, <1>8, <1>9, <1>10 DEF Good, shorter, k

-----------------------------------------------------------------------------
(* Entries.                                                                *)

\* Where there is room below S, pushing and peeking do not wrap around.
LEMMA NoWrap ==
  ASSUME NEW s \in Nat, s < MemSize, NEW size \in Nat, size <= s
  PROVE  /\ Down(s, size) = s - size
         /\ \A j \in 0 .. size : Up(s - size, j) = s - size + j
         /\ \A x \in s .. MemSize - 1 : Down(x, s - size) >= size
BY Constants DEF Up, Down

LEMMA SoftwareKinds ==
  /\ Software \subseteq {"swi", "swi2", "swi3"}
  /\ Software \subseteq Kinds /\ "call" \in Kinds
  /\ "irq" \in Kinds /\ "nmi" \in Kinds /\ "firq" \in Kinds
  /\ \A kind \in Software \cup {"irq", "nmi"} :
       kind # "call" /\ kind # "firq" /\ EntrySize(kind) = NRegs + 3
  /\ EntrySize("call") = 2 /\ EntrySize("firq") = 3
<1>1. Software \subseteq {"swi", "swi2", "swi3"}
  BY CpuConstants DEF CpuAssumption
<1>2. \A kind \in Software \cup {"irq", "nmi"} : kind # "call" /\ kind # "firq"
  BY <1>1
<1> QED
  BY <1>1, <1>2 DEF Kinds, Inputs, EntrySize

LEMMA WordPair ==
  ASSUME NEW w \in Word
  PROVE  <<w[1], w[2]>> = w
BY DEF Word

\* An interrupt of either sort that saves everything.
LEMMA EnterWholeGood ==
  ASSUME NEW m, NEW chain, Good(m, chain),
         NEW kind \in Software \cup {"irq", "nmi"}, EntrySize(kind) <= m.s,
         "firq" \notin Lines
  PROVE  Good(EnterWhole(m, kind), Append(chain, Entered(m, kind)))
<1> DEFINE e == EnterWhole(m, kind)
           a == Entered(m, kind)
           size == NRegs + 3
<1>1. /\ m \in Machine /\ m.s \in Nat /\ m.s < MemSize /\ m.s <= Top
      /\ NRegs \in Nat /\ MemSize \in Nat /\ Top \in Nat /\ Top < MemSize
  BY GoodType, Constants
<1>2. /\ kind \in Kinds /\ kind # "call" /\ kind # "firq" /\ EntrySize(kind) = size
      /\ size \in Nat /\ size <= m.s
  BY <1>1, SoftwareKinds
<1>3. e \in Machine
  BY <1>1, EnterWholeType
<1>4. /\ e.s = Down(m.s, size) /\ e.latch = m.latch
      /\ e.frames = Append(m.frames, [ret |-> m.pc, sp |-> e.s, kind |-> kind])
      /\ Peek(e, 0) = m.cc \cup {"E"}
      /\ \A r \in 1 .. NRegs : Peek(e, r) = m.regs[r]
      /\ Peek(e, NRegs + 1) = m.pc[1] /\ Peek(e, NRegs + 2) = m.pc[2]
      /\ \A x \in Addr : Down(x, e.s) >= size => e.mem[x] = m.mem[x]
  BY <1>1, EnterWholeEffect
<1> HIDE DEF e
<1>5. /\ e.s = m.s - size
      /\ \A j \in 0 .. size : Peek(e, j) = e.mem[m.s - size + j]
      /\ \A x \in m.s .. MemSize - 1 : Down(x, e.s) >= size
  <2> HIDE DEF size
  <2>1. /\ Down(m.s, size) = m.s - size
        /\ \A j \in 0 .. size : Up(m.s - size, j) = m.s - size + j
        /\ \A x \in m.s .. MemSize - 1 : Down(x, m.s - size) >= size
    BY <1>1, <1>2, NoWrap
  <2> QED
    BY <1>4, <2>1 DEF Peek
<1>6. \A x \in m.s .. Top - 1 : e.mem[x] = m.mem[x]
  BY <1>1, <1>4, <1>5 DEF Addr
<1>7. /\ a.kind = kind /\ a.pc = m.pc /\ a.s = m.s /\ a.cc = m.cc /\ a.regs = m.regs
      /\ m.pc \in Word
  BY <1>1 DEF Entered, Machine
<1> HIDE DEF a
<1>8. Kept(e.mem, a)
  <2>1. e.mem[m.s - 2] = m.pc[1] /\ e.mem[m.s - 1] = m.pc[2]
    <3>1. NRegs + 1 \in 0 .. size /\ NRegs + 2 \in 0 .. size
          /\ m.s - size + (NRegs + 1) = m.s - 2 /\ m.s - size + (NRegs + 2) = m.s - 1
      BY <1>1
    <3> HIDE DEF size
    <3> QED
      BY <1>4, <1>5, <3>1
  <2>2. e.mem[m.s - size] = m.cc \cup {"E"}
    <3>1. 0 \in 0 .. size /\ m.s - size + 0 = m.s - size
      BY <1>1
    <3> HIDE DEF size
    <3> QED
      BY <1>4, <1>5, <3>1
  <2>3. ASSUME NEW r \in 1 .. NRegs
        PROVE  e.mem[m.s - size + r] = m.regs[r]
    <3>1. r \in 0 .. size
      BY <1>1
    <3> HIDE DEF size
    <3> QED
      BY <1>4, <1>5, <3>1
  <2> HIDE DEF size
  <2>4. <<e.mem[a.s - 2], e.mem[a.s - 1]>> = a.pc
    BY <1>7, <2>1, WordPair
  <2> QED
    BY <1>2, <1>7, <2>2, <2>3, <2>4 DEF Kept
<1>9. m.latch \subseteq Lines
  BY DEF Good, Typed
<1> QED
  BY <1>2, <1>3, <1>4, <1>5, <1>6, <1>8, <1>9, EnterGood DEF e, a

\* FIRQ.
LEMMA ServiceFirqGood ==
  ASSUME NEW m, NEW chain, Good(m, chain), EntrySize("firq") <= m.s, "firq" \in Lines
  PROVE  Good(ServiceFirq(m), Append(chain, Entered(m, "firq")))
<1> DEFINE e == ServiceFirq(m)
           a == Entered(m, "firq")
<1>1. /\ m \in Machine /\ m.s \in Nat /\ m.s < MemSize /\ m.s <= Top
      /\ MemSize \in Nat /\ Top \in Nat /\ Top < MemSize
  BY GoodType, Constants
<1>2. "firq" \in Kinds /\ EntrySize("firq") = 3 /\ 3 <= m.s
  BY SoftwareKinds
<1>3. e \in Machine
  BY <1>1, ServiceFirqType
<1>4. /\ e.s = Down(m.s, 3) /\ e.latch = m.latch \ {"firq"}
      /\ e.cc = (m.cc \ {"E"}) \cup {"F", "I"}
      /\ e.frames = Append(m.frames, [ret |-> m.pc, sp |-> e.s, kind |-> "firq"])
      /\ Peek(e, 0) = m.cc /\ Peek(e, 1) = m.pc[1] /\ Peek(e, 2) = m.pc[2]
      /\ \A x \in Addr : Down(x, e.s) >= 3 => e.mem[x] = m.mem[x]
  BY <1>1, ServiceFirqEffect
<1> HIDE DEF e
<1>5. /\ e.s = m.s - 3
      /\ \A j \in 0 .. 3 : Peek(e, j) = e.mem[m.s - 3 + j]
      /\ \A x \in m.s .. MemSize - 1 : Down(x, e.s) >= 3
  <2>1. /\ Down(m.s, 3) = m.s - 3
        /\ \A j \in 0 .. 3 : Up(m.s - 3, j) = m.s - 3 + j
        /\ \A x \in m.s .. MemSize - 1 : Down(x, m.s - 3) >= 3
    BY <1>1, <1>2, NoWrap
  <2> QED
    BY <1>4, <2>1 DEF Peek
<1>6. \A x \in m.s .. Top - 1 : e.mem[x] = m.mem[x]
  BY <1>1, <1>4, <1>5 DEF Addr
<1>7. /\ a.kind = "firq" /\ a.pc = m.pc /\ a.s = m.s /\ a.cc = m.cc
      /\ m.pc \in Word
  BY <1>1 DEF Entered, Machine
<1> HIDE DEF a
<1>8. Kept(e.mem, a)
  <2>1. m.s - 3 + 0 = m.s - 3 /\ m.s - 3 + 1 = m.s - 2 /\ m.s - 3 + 2 = m.s - 1
    BY <1>1
  <2>2. e.mem[m.s - 2] = m.pc[1] /\ e.mem[m.s - 1] = m.pc[2] /\ e.mem[m.s - 3] = m.cc
    BY <1>4, <1>5, <2>1
  <2>3. <<e.mem[a.s - 2], e.mem[a.s - 1]>> = a.pc
    BY <1>7, <2>2, WordPair
  <2> QED
    BY <1>2, <1>7, <2>2, <2>3 DEF Kept
<1>9. e.latch \subseteq Lines
  BY <1>4 DEF Good, Typed
<1>10. "E" \notin e.cc
  BY <1>4
<1> QED
  BY <1>2, <1>3, <1>4, <1>5, <1>6, <1>8, <1>9, <1>10, EnterGood DEF e, a

\* BSR, LBSR and JSR.
LEMMA CallGood ==
  ASSUME NEW m, NEW chain, Good(m, chain), NEW target \in Word, EntrySize("call") <= m.s
  PROVE  Good(Call(m, target), Append(chain, Entered(m, "call")))
<1> DEFINE e == Call(m, target)
           a == Entered(m, "call")
<1>1. /\ m \in Machine /\ m.s \in Nat /\ m.s < MemSize /\ m.s <= Top
      /\ MemSize \in Nat /\ Top \in Nat /\ Top < MemSize
  BY GoodType, Constants
<1>2. "call" \in Kinds /\ EntrySize("call") = 2 /\ 2 <= m.s
  BY SoftwareKinds
<1>3. e \in Machine
  BY <1>1, CallType
<1>4. /\ e.s = Down(m.s, 2) /\ e.latch = m.latch /\ e.cc = m.cc
      /\ e.frames = Append(m.frames, [ret |-> m.pc, sp |-> e.s, kind |-> "call"])
      /\ Peek(e, 0) = m.pc[1] /\ Peek(e, 1) = m.pc[2]
      /\ \A x \in Addr : Down(x, e.s) >= 2 => e.mem[x] = m.mem[x]
  BY <1>1, CallEffect
<1> HIDE DEF e
<1>5. /\ e.s = m.s - 2
      /\ \A j \in 0 .. 2 : Peek(e, j) = e.mem[m.s - 2 + j]
      /\ \A x \in m.s .. MemSize - 1 : Down(x, e.s) >= 2
  <2>1. /\ Down(m.s, 2) = m.s - 2
        /\ \A j \in 0 .. 2 : Up(m.s - 2, j) = m.s - 2 + j
        /\ \A x \in m.s .. MemSize - 1 : Down(x, m.s - 2) >= 2
    BY <1>1, <1>2, NoWrap
  <2> QED
    BY <1>4, <2>1 DEF Peek
<1>6. \A x \in m.s .. Top - 1 : e.mem[x] = m.mem[x]
  BY <1>1, <1>4, <1>5 DEF Addr
<1>7. a.kind = "call" /\ a.pc = m.pc /\ a.s = m.s /\ m.pc \in Word
  BY <1>1 DEF Entered, Machine
<1> HIDE DEF a
<1>8. Kept(e.mem, a)
  <2>1. m.s - 2 + 0 = m.s - 2 /\ m.s - 2 + 1 = m.s - 1
    BY <1>1
  <2>2. e.mem[m.s - 2] = m.pc[1] /\ e.mem[m.s - 1] = m.pc[2]
    BY <1>4, <1>5, <2>1
  <2>3. <<e.mem[a.s - 2], e.mem[a.s - 1]>> = a.pc
    BY <1>7, <2>2, WordPair
  <2> QED
    BY <1>7, <2>3 DEF Kept
<1>9. e.latch \subseteq Lines
  BY <1>4 DEF Good, Typed
<1> QED
  BY <1>2, <1>3, <1>4, <1>5, <1>6, <1>8, <1>9, EnterGood DEF e, a

-----------------------------------------------------------------------------
(* The tail of step().                                                     *)

\* Only the latches change.
LEMMA LatchGood ==
  ASSUME NEW m, NEW chain, Good(m, chain), NEW n \in Machine,
         n.frames = m.frames, n.s = m.s, n.mem = m.mem, n.cc = m.cc,
         n.latch \subseteq Lines
  PROVE  Good(n, chain)
<1>1. n.s <= LimitOf(chain)
  BY LimitLowest
<1> QED
  BY <1>1, StayGood

LEMMA PollEffect ==
  ASSUME NEW m \in Machine, m.latch \subseteq Lines, NEW lines \in SUBSET Lines
  PROVE  LET p == Poll(m, lines)
         IN  /\ p \in Machine /\ p.latch \subseteq Lines
             /\ p.pc = m.pc /\ p.s = m.s /\ p.cc = m.cc /\ p.regs = m.regs
             /\ p.mem = m.mem /\ p.frames = m.frames
<1>1. Lines \subseteq Inputs
  BY CpuConstants DEF CpuAssumption
<1> QED
  BY <1>1, FinishType DEF Poll, Machine

\* Without an interrupt the tail changes nothing but the latches; with one it
\* enters it from the machine that the instruction left.
LEMMA StepGood ==
  ASSUME OneFrameSize, NEW m, NEW chain, Good(m, chain), Step(m, chain)
  PROVE  /\ Good(cpu', acts')
         /\ \/ /\ acts' = chain
               /\ cpu'.pc = m.pc /\ cpu'.s = m.s /\ cpu'.cc = m.cc /\ cpu'.regs = m.regs
            \/ \E a \in Act : a.kind \in Inputs /\ a.pc = m.pc /\ acts' = Append(chain, a)
<1>1. PICK lines \in SUBSET Lines :
             /\ StackRoom(Poll(m, lines))
             /\ cpu' = Finish(m, lines)
             /\ acts' = IF Taken(Poll(m, lines)) = "none" THEN chain
                        ELSE Append(chain, Entered(Poll(m, lines), Taken(Poll(m, lines))))
  BY DEF Step
<1> DEFINE p == Poll(m, lines)
           kind == Taken(p)
<1>2. m \in Machine /\ m.latch \subseteq Lines
  BY DEF Good, Typed
<1>3. /\ p \in Machine /\ p.latch \subseteq Lines
      /\ p.pc = m.pc /\ p.s = m.s /\ p.cc = m.cc /\ p.regs = m.regs
      /\ p.mem = m.mem /\ p.frames = m.frames
  BY <1>2, PollEffect
<1>4. cpu' = Service(p)
  BY <1>1 DEF Finish
<1>5. /\ kind # "none" => EntrySize(kind) <= p.s
      /\ acts' = IF kind = "none" THEN chain ELSE Append(chain, Entered(p, kind))
  BY <1>1 DEF StackRoom
<1> HIDE DEF p
<1>6. Good(p, chain)
  BY <1>3, LatchGood
<1>7. /\ Entered(p, kind).kind = kind /\ Entered(p, kind).pc = m.pc
      /\ kind \in Inputs => Entered(p, kind) \in Act
  BY <1>3 DEF Entered, Act, Machine, Kinds
<1>8. \/ kind = "nmi" /\ Service(p) = ServiceNmi(p) /\ "nmi" \in p.latch
      \/ kind = "firq" /\ Service(p) = ServiceFirq(p) /\ "firq" \in p.latch
      \/ kind = "irq" /\ Service(p) = ServiceIrq(p) /\ "irq" \in p.latch
      \/ kind = "none" /\ Service(p) = p
  BY TakenCases
<1> HIDE DEF kind
<1>9. CASE kind = "none"
  BY <1>3, <1>4, <1>5, <1>6, <1>8, <1>9
<1>10. CASE kind = "firq"
  <2>1. "firq" \in Lines /\ EntrySize("firq") <= p.s
    BY <1>3, <1>5, <1>8, <1>10
  <2>2. cpu' = ServiceFirq(p) /\ acts' = Append(chain, Entered(p, "firq"))
    BY <1>4, <1>5, <1>8, <1>10
  <2>3. Good(ServiceFirq(p), Append(chain, Entered(p, "firq")))
    BY <1>6, <2>1, ServiceFirqGood
  <2>4. "firq" \in Inputs
    BY DEF Inputs
  <2> QED
    BY <1>7, <1>10, <2>2, <2>3, <2>4
<1>11. CASE kind \in {"nmi", "irq"}
  <2>1. /\ "firq" \notin Lines /\ EntrySize(kind) <= p.s /\ kind \in Software \cup {"irq", "nmi"}
        /\ kind \in Inputs /\ kind # "none"
    BY <1>3, <1>5, <1>8, <1>11 DEF OneFrameSize, Inputs
  <2> DEFINE e == EnterWhole(p, kind)
             longer == Append(chain, Entered(p, kind))
  <2>2. Good(e, longer) /\ e \in Machine /\ e.latch = p.latch
    BY <1>3, <1>6, <2>1, EnterWholeGood, EnterWholeType, EnterWholeEffect
  <2>3. cpu' = [e EXCEPT !.latch = @ \ {kind}] /\ acts' = longer
    BY <1>4, <1>5, <1>8, <1>11, <2>1 DEF ServiceNmi, ServiceIrq
  <2> HIDE DEF e, longer
  <2>4. /\ cpu' \in Machine /\ cpu'.frames = e.frames /\ cpu'.s = e.s /\ cpu'.mem = e.mem
        /\ cpu'.cc = e.cc /\ cpu'.latch \subseteq Lines
    BY <1>3, <2>2, <2>3 DEF Machine
  <2>5. Good(cpu', longer)
    BY <2>2, <2>4, LatchGood
  <2> QED
    BY <1>7, <2>1, <2>3, <2>5 DEF longer
<1> QED
  BY <1>8, <1>9, <1>10, <1>11

-----------------------------------------------------------------------------
(* Instructions.                                                           *)

LEMMA Frozen ==
  ASSUME IInv
  PROVE  /\ cpu \in Machine /\ cpu.latch \subseteq Lines /\ cpu.s \in Nat /\ cpu.s < MemSize
         /\ acts \in Seq(Act) /\ Limit = LimitOf(acts) /\ Limit \in Nat /\ Limit <= Top
         /\ cpu.s <= Limit
<1>1. cpu \in Machine /\ cpu.s \in Nat /\ cpu.s < MemSize /\ acts \in Seq(Act)
  BY GoodType DEF IInv
<1>2. Limit = LimitOf(acts)
  BY DEF Limit, LimitOf, Innermost, Base
<1>3. LimitOf(acts) \in Nat /\ LimitOf(acts) <= Top /\ cpu.s <= LimitOf(acts)
  BY LimitLowest DEF IInv
<1> QED
  BY <1>1, <1>2, <1>3 DEF IInv, Good, Typed

LEMMA FetchedGood ==
  ASSUME IInv, NEW next \in Code
  PROVE  LET f == Fetched(cpu, next)
         IN  /\ Good(f, acts) /\ f \in Machine
             /\ f.s = cpu.s /\ f.cc = cpu.cc /\ f.regs = cpu.regs /\ f.mem = cpu.mem
             /\ f.latch = cpu.latch /\ f.frames = cpu.frames
<1> DEFINE f == Fetched(cpu, next)
<1>1. cpu \in Machine /\ cpu.latch \subseteq Lines /\ Code \subseteq Word
  BY Frozen, CpuConstants DEF CpuAssumption
<1>2. /\ f \in Machine
      /\ f.s = cpu.s /\ f.cc = cpu.cc /\ f.regs = cpu.regs /\ f.mem = cpu.mem
      /\ f.latch = cpu.latch /\ f.frames = cpu.frames
  BY <1>1 DEF Fetched, Machine
<1> HIDE DEF f
<1>3. Good(f, acts)
  BY <1>1, <1>2, LatchGood DEF IInv
<1> QED
  BY <1>2, <1>3 DEF f

LEMMA MovedGood ==
  ASSUME IInv, NEW m \in Moved
  PROVE  /\ Good(m, acts) /\ m \in Machine /\ m.s \in Nat /\ m.s <= Limit
         /\ m.latch = cpu.latch /\ m.frames = cpu.frames /\ m.mem = cpu.mem
<1>1. /\ cpu \in Machine /\ cpu.latch \subseteq Lines /\ cpu.s \in Nat
      /\ Limit = LimitOf(acts) /\ Limit \in Nat /\ cpu.s <= Limit
  BY Frozen
<1>2. Data \subseteq Byte /\ Stacks \subseteq Addr /\ MemSize \in Nat
  BY DisciplineAssumption, Constants
<1>3. ASSUME NEW n \in Computed
      PROVE  /\ n \in Machine /\ n.latch = cpu.latch /\ n.frames = cpu.frames
             /\ n.mem = cpu.mem /\ n.s = cpu.s /\ ("E" \in n.cc => "E" \in cpu.cc)
  <2>1. PICK next \in Code, regs \in [1 .. NRegs -> Data] \cup {cpu.regs}, flags \in Flags :
               n = Compute(Fetched(cpu, next), regs, flags)
    BY DEF Computed
  <2> DEFINE f == Fetched(cpu, next)
  <2>2. /\ f \in Machine /\ f.s = cpu.s /\ f.cc = cpu.cc /\ f.mem = cpu.mem
        /\ f.latch = cpu.latch /\ f.frames = cpu.frames
    BY FetchedGood
  <2>3. regs \in [1 .. NRegs -> Byte]
    BY <1>1, <1>2 DEF Machine
  <2>4. n = Compute(f, regs, flags)
    BY <2>1
  <2> HIDE DEF f
  <2> QED
    BY <2>2, <2>3, <2>4, ComputeType
<1>4. /\ m \in Machine /\ m.latch = cpu.latch /\ m.frames = cpu.frames
      /\ m.mem = cpu.mem /\ m.s \in Nat /\ m.s <= Limit /\ ("E" \in m.cc => "E" \in cpu.cc)
  <2>1. CASE m \in Computed
    BY <1>1, <1>3, <2>1
  <2>2. CASE \E n \in Computed, s \in Stacks \cap 0 .. Limit : m = MoveS(n, s)
    <3>1. PICK n \in Computed, s \in Stacks \cap 0 .. Limit : m = MoveS(n, s)
      BY <2>2
    <3>2. /\ n \in Machine /\ n.latch = cpu.latch /\ n.frames = cpu.frames
          /\ n.mem = cpu.mem /\ ("E" \in n.cc => "E" \in cpu.cc)
      BY <1>3
    <3>3. s \in Addr /\ s \in Nat /\ s <= Limit
      BY <1>1, <1>2
    <3> QED
      BY <3>1, <3>2, <3>3 DEF MoveS, Machine
  <2> QED
    BY <2>1, <2>2 DEF Moved
<1>5. Good(m, acts)
  BY <1>1, <1>4, StayGood DEF IInv
<1> QED
  BY <1>4, <1>5

\* What a step of the program does to its activations: it stays in the
\* innermost one, enters another, or leaves it for its caller.
Stays == \E m : Good(m, acts) /\ Step(m, acts)

Enters ==
  \E a \in Act : /\ a.kind \in {"call"} \cup Software
               /\ \E m : Good(m, Append(acts, a)) /\ Step(m, Append(acts, a))

Resumed(m, a) ==
  /\ m.pc = a.pc /\ m.s = a.s
  /\ a.kind # "call" => m.cc \ {"E"} = a.cc \ {"E"}
  /\ a.kind \notin {"call", "firq"} => m.regs = a.regs

Leaves ==
  /\ acts # <<>>
  /\ \E m : Good(m, Outer) /\ Resumed(m, Innermost) /\ Step(m, Outer)

LEMMA ComputeStays ==
  ASSUME IInv, DoCompute
  PROVE  Stays
<1>1. PICK m \in Moved :
             \/ Step(m, acts)
             \/ \E cc \in Masks : KeepsE(SetCc(m, cc)) /\ Step(SetCc(m, cc), acts)
  BY DEF DoCompute
<1>2. /\ Good(m, acts) /\ m \in Machine /\ m.s <= Limit
      /\ m.latch = cpu.latch /\ m.frames = cpu.frames /\ m.mem = cpu.mem
  BY MovedGood
<1>3. ASSUME NEW cc \in Masks, KeepsE(SetCc(m, cc))
      PROVE  Good(SetCc(m, cc), acts)
  <2> DEFINE n == SetCc(m, cc)
  <2>1. n \in Machine
    BY <1>2, MaskTypes, DisciplineAssumption
  <2>2. /\ n.s = m.s /\ n.latch = m.latch /\ n.frames = m.frames /\ n.mem = m.mem
        /\ "E" \in n.cc => "E" \in cpu.cc
    BY <1>2, <1>3 DEF SetCc, Machine, KeepsE
  <2> HIDE DEF n
  <2>3. cpu.latch \subseteq Lines /\ Limit = LimitOf(acts)
    BY Frozen
  <2>4. Good(n, acts)
    BY <1>2, <2>1, <2>2, <2>3, StayGood DEF IInv
  <2> QED
    BY <2>4 DEF n
<1> QED
  BY <1>1, <1>2, <1>3 DEF Stays

LEMMA StoreStays ==
  ASSUME IInv, DoStore
  PROVE  Stays
<1>1. PICK m \in Moved : \E cells \in Blocks : \E bytes \in [cells -> Data] :
             cells \cap Limit .. Top - 1 = {} /\ Step(Store(m, bytes), acts)
  BY DEF DoStore
<1>2. PICK cells \in Blocks : \E bytes \in [cells -> Data] :
             cells \cap Limit .. Top - 1 = {} /\ Step(Store(m, bytes), acts)
  BY <1>1
<1>3. PICK bytes \in [cells -> Data] :
             cells \cap Limit .. Top - 1 = {} /\ Step(Store(m, bytes), acts)
  BY <1>2
<1>4. /\ Good(m, acts) /\ m \in Machine /\ m.s <= Limit
      /\ m.latch = cpu.latch /\ m.frames = cpu.frames
  BY MovedGood
<1>5. cells \in SUBSET Addr /\ bytes \in [cells -> Byte]
  BY DisciplineAssumption
<1> DEFINE n == Store(m, bytes)
<1>6. n \in Machine /\ \A x \in Addr \ cells : n.mem[x] = m.mem[x]
  BY <1>4, <1>5, StoreType
<1>7. n.s = m.s /\ n.latch = m.latch /\ n.frames = m.frames /\ n.cc = m.cc
  BY <1>4 DEF Store, Machine
<1> HIDE DEF n
<1>8. /\ cpu.latch \subseteq Lines /\ Limit = LimitOf(acts) /\ Limit \in Nat
      /\ Top \in Nat /\ MemSize \in Nat /\ Top < MemSize
  BY Frozen, Constants
<1>9. \A x \in Limit .. Top - 1 : n.mem[x] = m.mem[x]
  <2> TAKE x \in Limit .. Top - 1
  <2>1. x \in Addr
    BY <1>8 DEF Addr
  <2>2. x \notin cells
    BY <1>3
  <2> QED
    BY <1>6, <2>1, <2>2
<1>10. Good(n, acts)
  BY <1>4, <1>6, <1>7, <1>8, <1>9, StayGood
<1> QED
  BY <1>3, <1>10 DEF Stays, n

LEMMA MaskStays ==
  ASSUME IInv, DoMask
  PROVE  Stays
<1>1. PICK next \in Code, imm \in Masks :
             \E m \in {Andcc(Fetched(cpu, next), imm), Orcc(Fetched(cpu, next), imm)} :
               KeepsE(m) /\ Step(m, acts)
  BY DEF DoMask
<1> DEFINE f == Fetched(cpu, next)
<1>2. PICK m \in {Andcc(f, imm), Orcc(f, imm)} : KeepsE(m) /\ Step(m, acts)
  BY <1>1
<1>3. /\ f \in Machine /\ f.s = cpu.s /\ f.latch = cpu.latch /\ f.frames = cpu.frames
      /\ f.mem = cpu.mem
  BY FetchedGood
<1> HIDE DEF f
<1>4. m \in Machine
  BY <1>2, <1>3, MaskTypes, DisciplineAssumption
<1>5. m.s = cpu.s /\ m.latch = cpu.latch /\ m.frames = cpu.frames /\ m.mem = cpu.mem
  BY <1>2, <1>3 DEF Andcc, Orcc, Machine
<1>6. cpu.latch \subseteq Lines /\ Limit = LimitOf(acts) /\ cpu.s <= Limit
  BY Frozen
<1>7. Good(m, acts)
  BY <1>2, <1>4, <1>5, <1>6, StayGood DEF IInv, KeepsE
<1> QED
  BY <1>2, <1>7 DEF Stays

LEMMA PshsStays ==
  ASSUME IInv, DoPshs
  PROVE  Stays
<1>1. PICK next \in Code, list \in Lists :
             Size(list) <= cpu.s /\ Step(Pshs(Fetched(cpu, next), list), acts)
  BY DEF DoPshs
<1> DEFINE f == Fetched(cpu, next)
           n == Pshs(f, list)
           size == Size(list)
<1>2. /\ f \in Machine /\ f.s = cpu.s /\ f.cc = cpu.cc /\ f.latch = cpu.latch
      /\ f.frames = cpu.frames /\ f.mem = cpu.mem
  BY FetchedGood
<1>3. /\ cpu.s \in Nat /\ cpu.s < MemSize /\ cpu.latch \subseteq Lines
      /\ Limit = LimitOf(acts) /\ cpu.s <= Limit /\ Limit \in Nat
      /\ Top \in Nat /\ MemSize \in Nat /\ NRegs \in Nat /\ Top < MemSize
  BY Frozen, Constants
<1> HIDE DEF f
<1>4. /\ Image(f, list) \in Seq(Byte) /\ Len(Image(f, list)) = size
      /\ size \in 0 .. NRegs + 3 /\ Len(Image(f, list)) \in 0 .. MemSize
  BY <1>2, ImageType, PushImageType
<1> HIDE DEF size
<1>5. /\ n \in Machine /\ n.s = Down(cpu.s, size)
      /\ \A x \in Addr : n.mem[x] = IF Down(x, Down(cpu.s, size)) < size
                                   THEN Image(f, list)[Down(x, Down(cpu.s, size)) + 1]
                                   ELSE f.mem[x]
  BY <1>2, <1>4, PushType, PushMem DEF Pshs
<1>6. n.cc = f.cc /\ n.latch = f.latch /\ n.frames = f.frames
  BY <1>2 DEF Pshs, Push, Machine
<1> HIDE DEF n
<1>7. /\ size \in Nat /\ size <= cpu.s
  BY <1>1, <1>3, <1>4 DEF size
<1>8. /\ Down(cpu.s, size) = cpu.s - size
      /\ \A x \in cpu.s .. MemSize - 1 : Down(x, cpu.s - size) >= size
  BY <1>3, <1>7, NoWrap
<1>9. \A x \in Limit .. Top - 1 : n.mem[x] = cpu.mem[x]
  <2> TAKE x \in Limit .. Top - 1
  <2>1. x \in Addr /\ x \in cpu.s .. MemSize - 1
    BY <1>3 DEF Addr
  <2>2. Down(x, cpu.s - size) >= size /\ Down(x, cpu.s - size) \in Addr
    <3>1. cpu.s - size \in 0 .. MemSize
      BY <1>3, <1>7
    <3> QED
      BY <1>8, <2>1, <3>1, DownType
  <2>3. ~(Down(x, cpu.s - size) < size)
    BY <1>7, <2>2 DEF Addr
  <2> QED
    BY <1>2, <1>5, <1>8, <2>1, <2>3
<1>10. n.s <= LimitOf(acts)
  BY <1>3, <1>5, <1>7, <1>8
<1>11. Good(n, acts)
  BY <1>2, <1>3, <1>5, <1>6, <1>9, <1>10, StayGood DEF IInv
<1> QED
  BY <1>1, <1>11 DEF Stays, n, f

LEMMA ListSize ==
  ASSUME NEW list \in SUBSET {"cc", "regs"}
  PROVE  /\ Size(list) = CcSize(list) + RegsSize(list) /\ Size(list) \in Nat
         /\ CcSize(list \cup {"pc"}) = CcSize(list)
         /\ RegsSize(list \cup {"pc"}) = RegsSize(list)
         /\ Size(list \cup {"pc"}) = Size(list) + 2
         /\ "pc" \notin list
BY Constants DEF Size, CcSize, RegsSize

LEMMA PulsStays ==
  ASSUME IInv, DoPuls
  PROVE  Stays
<1>1. PICK next \in Code, list \in Lists :
             /\ cpu.s + Size(list) <= Limit
             /\ KeepsE(Puls(Fetched(cpu, next), list))
             /\ Step(Puls(Fetched(cpu, next), list), acts)
  BY DEF DoPuls
<1> DEFINE f == Fetched(cpu, next)
           n == Puls(f, list)
<1>2. /\ f \in Machine /\ f.s = cpu.s /\ f.latch = cpu.latch
      /\ f.frames = cpu.frames /\ f.mem = cpu.mem
  BY FetchedGood
<1> HIDE DEF f
<1>3. /\ cpu.s \in Nat /\ cpu.s < MemSize /\ cpu.latch \subseteq Lines
      /\ Limit = LimitOf(acts) /\ Limit \in Nat /\ Limit <= Top
      /\ Top \in Nat /\ MemSize \in Nat /\ Top < MemSize
  BY Frozen, Constants
<1>4. Size(list) \in Nat /\ "pc" \notin list
  BY ListSize, DisciplineAssumption
<1>5. n \in Machine
  BY <1>2, PulsType
<1>6. /\ n.s = Up(cpu.s, Size(list)) /\ n.latch = f.latch /\ n.frames = f.frames
      /\ n.mem = f.mem
  BY <1>2, <1>4 DEF Puls, Pull, Machine
<1>7. KeepsE(n)
  BY <1>1 DEF f
<1> HIDE DEF n
<1>8. n.s <= LimitOf(acts)
  BY <1>1, <1>3, <1>4, <1>6 DEF Up
<1>9. Good(n, acts)
  BY <1>2, <1>3, <1>5, <1>6, <1>7, <1>8, StayGood DEF IInv, KeepsE
<1> QED
  BY <1>1, <1>9 DEF Stays, n, f

LEMMA CallEnters ==
  ASSUME IInv, DoCall
  PROVE  Enters
<1>1. PICK m \in Moved : \E target \in Code :
             EntrySize("call") <= m.s /\ Step(Call(m, target), Append(acts, Entered(m, "call")))
  BY DEF DoCall
<1>2. PICK target \in Code :
             EntrySize("call") <= m.s /\ Step(Call(m, target), Append(acts, Entered(m, "call")))
  BY <1>1
<1>3. Good(m, acts) /\ m \in Machine
  BY MovedGood
<1>4. target \in Word
  BY CpuConstants DEF CpuAssumption
<1>5. Good(Call(m, target), Append(acts, Entered(m, "call")))
  BY <1>2, <1>3, <1>4, CallGood
<1>6. Entered(m, "call") \in Act /\ Entered(m, "call").kind = "call"
  BY <1>3 DEF Entered, Act, Machine, Kinds
<1> HIDE DEF Entered
<1> QED
  BY <1>2, <1>5, <1>6 DEF Enters

LEMMA SwiEnters ==
  ASSUME OneFrameSize, IInv, DoSwi
  PROVE  Enters
<1>1. PICK next \in Code, kind \in Software :
             LET m == Fetched(cpu, next)
             IN  EntrySize(kind) <= m.s /\ Step(Swi(m, kind), Append(acts, Entered(m, kind)))
  BY DEF DoSwi
<1> DEFINE m == Fetched(cpu, next)
           a == Entered(m, kind)
<1>2. EntrySize(kind) <= m.s /\ Step(Swi(m, kind), Append(acts, a))
  BY <1>1
<1>3. Good(m, acts) /\ m \in Machine
  BY FetchedGood
<1>4. "firq" \notin Lines
  BY DEF OneFrameSize
<1> HIDE DEF m
<1>5. a \in Act /\ a.kind = kind
  BY <1>3 DEF Entered, Act, Machine, Kinds
<1>6. Good(Swi(m, kind), Append(acts, a))
  BY <1>2, <1>3, <1>4, EnterWholeGood DEF Swi
<1> HIDE DEF a
<1> QED
  BY <1>2, <1>5, <1>6 DEF Enters

\* The invariant at the innermost activation.
LEMMA Inner ==
  ASSUME IInv, acts # <<>>
  PROVE  /\ Innermost \in Act /\ Kept(cpu.mem, Innermost)
         /\ Innermost.s \in Nat /\ Innermost.s <= Top
         /\ Innermost.s = Limit + EntrySize(Innermost.kind)
         /\ Limit = LimitOf(acts) /\ Limit \in Nat
         /\ Len(cpu.frames) = Len(acts) /\ Len(acts) \in 1 .. Len(acts)
         /\ cpu.frames \in Seq(Frame) /\ cpu.frames # <<>>
         /\ cpu.frames[Len(acts)] =
              [ret |-> Innermost.pc, kind |-> Innermost.kind, sp |-> Limit]
         /\ "firq" \in Lines =>
              "E" \notin Innermost.cc /\ Innermost.kind \in {"call", "firq"}
         /\ "firq" \notin Lines => Innermost.kind # "firq"
<1> DEFINE n == Len(acts)
<1>1. /\ cpu \in Machine /\ acts \in Seq(Act) /\ Limit = LimitOf(acts) /\ Limit \in Nat
  BY Frozen
<1>2. n \in 1 .. Len(acts) /\ n \in Nat /\ n >= 1
  BY <1>1, LastIndex
<1>3. Innermost = acts[n] /\ Limit = Base(acts, n)
  BY DEF Limit, Innermost, Base
<1>4. /\ acts[n] \in Act /\ acts[n].s \in Nat /\ acts[n].s <= Top
      /\ acts[n].s = Base(acts, n) + EntrySize(acts[n].kind)
  BY <1>2, GoodType DEF IInv
<1>5. /\ Kept(cpu.mem, acts[n])
      /\ Len(cpu.frames) = Len(acts)
      /\ cpu.frames[n] = [ret |-> acts[n].pc, kind |-> acts[n].kind, sp |-> Base(acts, n)]
      /\ "firq" \in Lines => "E" \notin acts[n].cc /\ acts[n].kind \in {"call", "firq"}
      /\ "firq" \notin Lines => acts[n].kind # "firq"
  BY <1>2 DEF IInv, Good, Saved, Mirrored, EClear
<1>6. cpu.frames \in Seq(Frame)
  BY <1>1 DEF Machine
<1> HIDE DEF n
<1>7. cpu.frames # <<>>
  BY <1>2, <1>5, <1>6, EmptySeq DEF n
<1> QED
  BY <1>1, <1>2, <1>3, <1>4, <1>5, <1>6, <1>7 DEF n

\* What LeaveGood asks of a machine that has popped the innermost activation.
LEMMA PoppedGood ==
  ASSUME IInv, acts # <<>>, NEW n \in Machine,
         n.frames = SubSeq(cpu.frames, 1, Len(cpu.frames) - 1),
         n.mem = cpu.mem, n.latch = cpu.latch, n.s = Innermost.s,
         "firq" \in Lines => "E" \notin n.cc
  PROVE  Good(n, Outer)
<1>1. cpu.latch \subseteq Lines
  BY Frozen
<1>2. n.s = acts[Len(acts)].s
  BY DEF Innermost
<1>3. Good(n, SubSeq(acts, 1, Len(acts) - 1))
  BY <1>1, <1>2, LeaveGood DEF IInv
<1> QED
  BY <1>3 DEF Outer

\* RTS, and PULS with PC in its list.
LEMMA PullLeaves ==
  ASSUME IInv, acts # <<>>, Innermost.kind = "call",
         NEW list \in SUBSET {"cc", "regs"}, cpu.s + Size(list) = Limit,
         KeepsE(PopForReturn(Pull(cpu, list \cup {"pc"})))
  PROVE  LET n == PopForReturn(Pull(cpu, list \cup {"pc"}))
         IN  Good(n, Outer) /\ Resumed(n, Innermost)
<1> DEFINE p == Pull(cpu, list \cup {"pc"})
           n == PopForReturn(p)
           size == Size(list)
<1>1. /\ cpu \in Machine /\ cpu.s \in Nat /\ cpu.s < MemSize
      /\ MemSize \in Nat /\ Top \in Nat /\ Top < MemSize
  BY Frozen, Constants
<1>2. /\ Innermost.s = Limit + 2 /\ Limit \in Nat /\ Innermost.s <= Top
      /\ <<cpu.mem[Innermost.s - 2], cpu.mem[Innermost.s - 1]>> = Innermost.pc
      /\ Len(cpu.frames) = Len(acts) /\ Len(acts) \in 1 .. Len(acts)
      /\ cpu.frames \in Seq(Frame)
      /\ cpu.frames[Len(acts)].sp = Limit
  BY Inner, SoftwareKinds DEF Kept
<1>3. /\ size = CcSize(list) + RegsSize(list) /\ size \in Nat
      /\ CcSize(list \cup {"pc"}) + RegsSize(list \cup {"pc"}) = size
      /\ Size(list \cup {"pc"}) = size + 2
  BY ListSize
<1>4. /\ p \in Machine /\ n \in Machine
  BY <1>1, PullType, PopForReturnType
<1>5. /\ p.s = Up(cpu.s, size + 2)
      /\ p.pc = <<Peek(cpu, size), Peek(cpu, size + 1)>>
      /\ p.mem = cpu.mem /\ p.latch = cpu.latch /\ p.frames = cpu.frames
  BY <1>1, <1>3 DEF Pull, Machine
<1>6. cpu.s + size = Limit
  OBVIOUS
<1> HIDE DEF size
<1> HIDE DEF p
<1>7. p.s = Limit + 2
  BY <1>1, <1>2, <1>3, <1>5, <1>6 DEF Up
<1>8. p.pc = Innermost.pc
  <2>1. Up(cpu.s, size) = Innermost.s - 2 /\ Up(cpu.s, size + 1) = Innermost.s - 1
    BY <1>1, <1>2, <1>3, <1>6 DEF Up
  <2> QED
    BY <1>2, <1>5, <2>1 DEF Peek
<1>9. n.frames = SubSeq(cpu.frames, 1, Len(cpu.frames) - 1)
  <2> DEFINE hits == {i \in 1 .. Len(p.frames) : Up(p.frames[i].sp, 2) = p.s}
  <2>1. Up(Limit, 2) = Limit + 2
    BY <1>1, <1>2 DEF Up
  <2>2. Len(p.frames) \in hits
    BY <1>2, <1>5, <1>7, <2>1
  <2>3. hits \in SUBSET (1 .. Len(p.frames)) /\ p.frames \in Seq(Frame)
    BY <1>2, <1>5
  <2>4. n.frames = PopTo(p.frames, hits)
    BY <1>4 DEF PopForReturn, Machine
  <2> HIDE DEF hits
  <2>5. PopTo(p.frames, hits) = SubSeq(p.frames, 1, Len(p.frames) - 1)
    BY <2>2, <2>3, PopTop
  <2> QED
    BY <1>5, <2>4, <2>5
<1>10. n.s = p.s /\ n.pc = p.pc /\ n.mem = p.mem /\ n.latch = p.latch
  BY <1>4 DEF PopForReturn, Machine
<1>11. KeepsE(n)
  BY DEF p
<1> HIDE DEF n
<1>12. "firq" \in Lines => "E" \notin n.cc
  BY <1>11 DEF KeepsE, IInv, Good, EClear
<1>13. Good(n, Outer)
  BY <1>2, <1>4, <1>5, <1>7, <1>9, <1>10, <1>12, PoppedGood
<1>14. Resumed(n, Innermost)
  BY <1>2, <1>7, <1>8, <1>10 DEF Resumed
<1> QED
  BY <1>13, <1>14 DEF n, p

LEMMA ReturnLeaves ==
  ASSUME IInv, DoReturn
  PROVE  Leaves
<1>1. acts # <<>> /\ Innermost.kind = "call"
  BY DEF DoReturn
<1>2. CASE cpu.s = Limit /\ Step(Rts(cpu), Outer)
  <2>1. /\ {} \in SUBSET {"cc", "regs"} /\ {} \cup {"pc"} = {"pc"}
        /\ cpu.s + Size({}) = Limit
    <3>1. Size({}) = 0 /\ cpu.s \in Nat
      BY Frozen DEF Size, CcSize, RegsSize
    <3> QED
      BY <1>2, <3>1
  <2>2. Rts(cpu) = PopForReturn(Pull(cpu, {} \cup {"pc"}))
    BY <2>1 DEF Rts
  <2>3. KeepsE(Rts(cpu))
    BY Frozen DEF KeepsE, Rts, PopForReturn, Pull, Machine
  <2>4. Good(Rts(cpu), Outer) /\ Resumed(Rts(cpu), Innermost)
    BY <1>1, <2>1, <2>2, <2>3, PullLeaves
  <2> QED
    BY <1>1, <1>2, <2>4 DEF Leaves
<1>3. CASE \E list \in Lists :
             LET m == Puls(cpu, list \cup {"pc"})
             IN  cpu.s + Size(list) = Limit /\ KeepsE(m) /\ Step(m, Outer)
  <2>1. PICK list \in Lists :
               /\ cpu.s + Size(list) = Limit
               /\ KeepsE(Puls(cpu, list \cup {"pc"})) /\ Step(Puls(cpu, list \cup {"pc"}), Outer)
    BY <1>3
  <2> DEFINE n == Puls(cpu, list \cup {"pc"})
  <2>2. n = PopForReturn(Pull(cpu, list \cup {"pc"}))
    BY DEF Puls
  <2>3. list \in SUBSET {"cc", "regs"}
    BY DisciplineAssumption
  <2>4. KeepsE(n) /\ Step(n, Outer)
    BY <2>1
  <2> HIDE DEF n
  <2>5. Good(n, Outer) /\ Resumed(n, Innermost)
    BY <1>1, <2>1, <2>2, <2>3, <2>4, PullLeaves
  <2> QED
    BY <1>1, <2>4, <2>5 DEF Leaves
<1> QED
  BY <1>2, <1>3 DEF DoReturn

LEMMA RtiLeaves ==
  ASSUME IInv, DoRti
  PROVE  Leaves
<1> DEFINE list == IF "E" \in Peek(cpu, 0) THEN WholeState ELSE FastState
           p == Pull(cpu, list)
           n == PopForRti(p)
           a == Innermost
<1>1. /\ acts # <<>> /\ a.kind # "call" /\ cpu.s = Limit /\ Step(n, Outer)
  BY DEF DoRti, Rti
<1>2. /\ cpu \in Machine /\ cpu.s \in Nat /\ cpu.s < MemSize
      /\ MemSize \in Nat /\ Top \in Nat /\ Top < MemSize /\ NRegs \in Nat
  BY Frozen, Constants
<1>3. /\ a \in Act /\ Kept(cpu.mem, a) /\ a.s \in Nat /\ a.s <= Top
      /\ a.s = Limit + EntrySize(a.kind) /\ Limit \in Nat
      /\ Len(cpu.frames) = Len(acts) /\ cpu.frames # <<>>
      /\ cpu.frames[Len(acts)].kind = a.kind
      /\ "firq" \in Lines => "E" \notin a.cc /\ a.kind \in {"call", "firq"}
      /\ "firq" \notin Lines => a.kind # "firq"
  BY <1>1, Inner
<1> HIDE DEF a
<1>4. p \in Machine /\ n \in Machine
  BY <1>2, PullType, PopForRtiType
<1>5. \A j \in 0 .. EntrySize(a.kind) - 1 : Peek(cpu, j) = cpu.mem[Limit + j]
  <2> TAKE j \in 0 .. EntrySize(a.kind) - 1
  <2>1. EntrySize(a.kind) \in Nat
    BY <1>3, ActType
  <2>2. Up(cpu.s, j) = Limit + j
    BY <1>1, <1>2, <1>3, <2>1 DEF Up
  <2> QED
    BY <2>2 DEF Peek
<1>6. n.frames = PopForRti(p).frames /\ n.s = p.s /\ n.pc = p.pc /\ n.cc = p.cc
      /\ n.regs = p.regs /\ n.mem = p.mem /\ n.latch = p.latch
  BY <1>4 DEF PopForRti, Machine
<1>7. p.mem = cpu.mem /\ p.latch = cpu.latch /\ p.frames = cpu.frames
  BY <1>2 DEF Pull, Machine
<1> HIDE DEF n
<1>8. n.frames = SubSeq(cpu.frames, 1, Len(cpu.frames) - 1)
  BY <1>1, <1>3, <1>4, <1>6, <1>7, PopForRtiTop
<1>9. /\ p.s = a.s /\ p.pc = a.pc /\ p.cc \ {"E"} = a.cc \ {"E"}
      /\ a.kind = "firq" => p.cc = a.cc
      /\ a.kind # "firq" => p.regs = a.regs
  <2>1. CASE a.kind = "firq"
    <3>1. EntrySize(a.kind) = 3 /\ "E" \notin a.cc
      BY <1>3, <2>1, SoftwareKinds
    <3>2. /\ a.s - 3 = Limit /\ a.s - 2 = Limit + 1 /\ a.s - 1 = Limit + 2
          /\ Limit + 0 = Limit
          /\ 0 \in 0 .. 3 - 1 /\ 1 \in 0 .. 3 - 1 /\ 2 \in 0 .. 3 - 1
      BY <1>3, <3>1
    <3>3. Peek(cpu, 0) = a.cc /\ <<Peek(cpu, 1), Peek(cpu, 2)>> = a.pc
      BY <1>3, <1>5, <2>1, <3>1, <3>2 DEF Kept
    <3>4. p = Pull(cpu, FastState)
      BY <3>1, <3>3
    <3> HIDE DEF p
    <3>5. p.cc = a.cc /\ p.pc = a.pc /\ p.s = Up(cpu.s, 3)
      BY <1>2, <3>3, <3>4, PullFast
    <3>6. Up(cpu.s, 3) = a.s
      BY <1>1, <1>2, <1>3, <3>1 DEF Up
    <3> QED
      BY <2>1, <3>5, <3>6
  <2>2. CASE a.kind # "firq"
    <3>1. EntrySize(a.kind) = NRegs + 3
      BY <1>1, <2>2 DEF EntrySize, a
    <3>2. /\ Limit + 0 = Limit /\ a.s - (NRegs + 3) = Limit
          /\ a.s - 2 = Limit + (NRegs + 1) /\ a.s - 1 = Limit + (NRegs + 2)
          /\ 0 \in 0 .. NRegs + 3 - 1 /\ NRegs + 1 \in 0 .. NRegs + 3 - 1
          /\ NRegs + 2 \in 0 .. NRegs + 3 - 1
          /\ \A r \in 1 .. NRegs : r \in 0 .. NRegs + 3 - 1
      BY <1>2, <1>3, <3>1
    <3>10. /\ cpu.mem[Limit] = a.cc \cup {"E"}
           /\ \A r \in 1 .. NRegs : cpu.mem[Limit + r] = a.regs[r]
           /\ <<cpu.mem[Limit + (NRegs + 1)], cpu.mem[Limit + (NRegs + 2)]>> = a.pc
      <4>1. a.kind \notin {"call", "firq"}
        BY <1>1, <2>2 DEF a
      <4>2. a.s - EntrySize(a.kind) = Limit
        BY <3>1, <3>2
      <4> QED
        BY <1>3, <3>2, <4>1, <4>2 DEF Kept
    <3>11. \A j \in 0 .. NRegs + 3 - 1 : Peek(cpu, j) = cpu.mem[Limit + j]
      <4>1. EntrySize(a.kind) - 1 = NRegs + 3 - 1
        BY <1>2, <3>1
      <4> QED
        BY <1>5, <4>1
    <3>3. Peek(cpu, 0) = a.cc \cup {"E"}
      BY <3>2, <3>10, <3>11
    <3>4. <<Peek(cpu, NRegs + 1), Peek(cpu, NRegs + 2)>> = a.pc
      BY <3>2, <3>10, <3>11
    <3>5. \A r \in 1 .. NRegs : Peek(cpu, r) = a.regs[r]
      BY <3>2, <3>10, <3>11
    <3>6. p = Pull(cpu, WholeState)
      BY <3>3
    <3> HIDE DEF p
    <3>7. /\ p.cc = a.cc \cup {"E"} /\ p.pc = a.pc /\ p.s = Up(cpu.s, NRegs + 3)
          /\ p.regs = [i \in 1 .. NRegs |-> Peek(cpu, i)]
      BY <1>2, <3>3, <3>4, <3>6, PullWhole
    <3>8. p.regs = a.regs
      <4>1. a.regs \in [1 .. NRegs -> Byte]
        BY <1>3, ActType
      <4>2. a.regs = [i \in 1 .. NRegs |-> a.regs[i]]
        BY <4>1
      <4> QED
        BY <3>5, <3>7, <4>2
    <3>9. Up(cpu.s, NRegs + 3) = a.s
      BY <1>1, <1>2, <1>3, <3>1 DEF Up
    <3> QED
      BY <2>2, <3>7, <3>8, <3>9
  <2> QED
    BY <2>1, <2>2
<1> HIDE DEF p
<1>10. "firq" \in Lines => "E" \notin n.cc
  BY <1>1, <1>3, <1>6, <1>9 DEF a
<1>11. Good(n, Outer)
  BY <1>1, <1>4, <1>6, <1>7, <1>8, <1>9, <1>10, PoppedGood DEF a
<1>12. Resumed(n, Innermost)
  BY <1>6, <1>9 DEF Resumed, a
<1> QED
  BY <1>1, <1>11, <1>12 DEF Leaves

LEMMA RequestGood ==
  ASSUME IInv, DoRequest
  PROVE  Good(cpu', acts') /\ acts' = acts /\ cpu'.pc = cpu.pc
<1>1. PICK line \in Lines : cpu' = [cpu EXCEPT !.latch = @ \cup {line}]
  BY DEF DoRequest
<1>2. cpu \in Machine /\ cpu.latch \subseteq Lines /\ Lines \subseteq Inputs
  BY Frozen, CpuConstants DEF CpuAssumption
<1>3. /\ cpu' \in Machine /\ cpu'.frames = cpu.frames /\ cpu'.s = cpu.s /\ cpu'.mem = cpu.mem
      /\ cpu'.cc = cpu.cc /\ cpu'.latch \subseteq Lines /\ cpu'.pc = cpu.pc
  BY <1>1, <1>2 DEF Machine
<1>4. acts' = acts
  BY DEF DoRequest
<1>5. Good(cpu', acts)
  BY <1>3, LatchGood DEF IInv
<1> QED
  BY <1>3, <1>4, <1>5

LEMMA NextCases ==
  ASSUME OneFrameSize, IInv, Next
  PROVE  Stays \/ Enters \/ Leaves \/ DoRequest
BY ComputeStays, StoreStays, MaskStays, PshsStays, PulsStays, CallEnters, SwiEnters,
   ReturnLeaves, RtiLeaves DEF Next

-----------------------------------------------------------------------------
(* The theorems.                                                           *)

LEMMA InitGood ==
  Init => IInv
<1> SUFFICES ASSUME Init PROVE IInv
  OBVIOUS
<1>1. PowerOn \in Machine /\ Top \in Addr /\ Top \in Nat
  BY PowerOnType, DisciplineAssumption, Constants
<1>2. PowerOn.latch = {} /\ PowerOn.frames = <<>> /\ PowerOn.cc = {"I", "F"}
  BY DEF PowerOn, Reset
<1> HIDE DEF PowerOn
<1>3. cpu = MoveS(PowerOn, Top) /\ acts = <<>>
  BY DEF Init
<1>4. /\ cpu \in Machine /\ cpu.latch = {} /\ cpu.frames = <<>> /\ cpu.s = Top
      /\ cpu.cc = {"I", "F"}
  BY <1>1, <1>2, <1>3 DEF MoveS, Machine
<1>5. Len(acts) = 0 /\ acts \in Seq(Act) /\ Len(cpu.frames) = 0
  BY <1>3, <1>4
<1>6. Typed(cpu, acts) /\ Mirrored(cpu, acts)
  BY <1>4, <1>5 DEF Typed, Mirrored
<1>7. Nested(cpu, acts) /\ Saved(cpu, acts) /\ EClear(cpu, acts)
  BY <1>1, <1>4, <1>5 DEF Nested, Saved, EClear
<1> QED
  BY <1>6, <1>7 DEF IInv, Good

\* The invariant is inductive when all frames on the stack have one size.
LEMMA NextGood ==
  ASSUME OneFrameSize, IInv, [Next]_vars
  PROVE  IInv'
<1>1. Good(cpu', acts')
  <2>1. CASE UNCHANGED vars
    BY <2>1 DEF vars, IInv
  <2>2. CASE Stays
    BY <2>2, StepGood DEF Stays
  <2>3. CASE Enters
    BY <2>3, StepGood DEF Enters
  <2>4. CASE Leaves
    BY <2>4, StepGood DEF Leaves
  <2>5. CASE DoRequest
    BY <2>5, RequestGood
  <2> QED
    BY <2>1, <2>2, <2>3, <2>4, <2>5, NextCases
<1> QED
  BY <1>1 DEF IInv

LEMMA Inductive ==
  ASSUME OneFrameSize
  PROVE  Spec => []IInv
<1>1. Init => IInv
  BY InitGood
<1>2. IInv /\ [Next]_vars => IInv'
  BY NextGood
<1> QED
  BY <1>1, <1>2, PTL DEF Spec

\* The registers of a program that keeps to the discipline have their widths.
THEOREM TypeCorrect ==
  ASSUME OneFrameSize
  PROVE  Spec => []TypeOK
<1>1. IInv => TypeOK
  BY DEF IInv, Good, Typed, TypeOK
<1> QED
  BY <1>1, Inductive, PTL

\* The shadow stack always shows the call stack: no frame is missing, none is
\* stale, and each is where the stack pointer was when it was entered.
THEOREM ShadowCorrect ==
  ASSUME OneFrameSize
  PROVE  Spec => []ShadowIsCallStack
<1>1. IInv => ShadowIsCallStack
  BY DEF IInv, Good, Mirrored, ShadowIsCallStack, Base
<1> QED
  BY <1>1, Inductive, PTL

\* What an entry saved is found intact by the instruction that restores it.
THEOREM SavedCorrect ==
  ASSUME OneFrameSize
  PROVE  Spec => []SavedIntact
<1>1. IInv => SavedIntact
  BY DEF IInv, Good, Saved, Kept, SavedIntact
<1> QED
  BY <1>1, Inductive, PTL

LEMMA Lengths ==
  ASSUME IInv
  PROVE  /\ Len(acts) \in Nat
         /\ \A a \in Act : Append(acts, a) \in Seq(Act) /\ Len(Append(acts, a)) = Len(acts) + 1
         /\ acts # <<>> =>
              /\ Outer \in Seq(Act) /\ Len(acts) >= 1 /\ Len(Outer) = Len(acts) - 1
              /\ \A i \in 1 .. Len(acts) - 1 : Outer[i] = acts[i] /\ i \in 1 .. Len(acts)
              /\ \A a \in Act : Append(Outer, a) \in Seq(Act)
                                /\ Len(Append(Outer, a)) = Len(acts)
<1>1. acts \in Seq(Act) /\ Len(acts) \in Nat
  BY Frozen, LenProperties
<1>2. \A a \in Act : Append(acts, a) \in Seq(Act) /\ Len(Append(acts, a)) = Len(acts) + 1
  BY <1>1, AppendProperties
<1>3. ASSUME acts # <<>>
      PROVE  /\ Outer \in Seq(Act) /\ Len(acts) >= 1 /\ Len(Outer) = Len(acts) - 1
             /\ \A i \in 1 .. Len(acts) - 1 : Outer[i] = acts[i] /\ i \in 1 .. Len(acts)
             /\ \A a \in Act : Append(Outer, a) \in Seq(Act)
                               /\ Len(Append(Outer, a)) = Len(acts)
  <2> DEFINE k == Len(acts) - 1
  <2>1. Len(acts) >= 1 /\ k \in Nat /\ Len(acts) = k + 1
    BY <1>1, <1>3, LastIndex
  <2>2. Outer = SubSeq(acts, 1, k)
    BY DEF Outer
  <2> HIDE DEF k
  <2>3. /\ \A i \in 1 .. k : acts[i] \in Act /\ i \in 1 .. Len(acts) /\ 1 + i - 1 = i
        /\ k = (IF 1 <= k THEN k - 1 + 1 ELSE 0) /\ k - 1 + 1 = k
    <3>1. \A i \in 1 .. k : i \in 1 .. Len(acts) /\ 1 + i - 1 = i
      BY <2>1
    <3>2. \A i \in 1 .. k : acts[i] \in Act
      BY <1>1, <3>1, ElementOfSeq
    <3>3. k = (IF 1 <= k THEN k - 1 + 1 ELSE 0) /\ k - 1 + 1 = k
      BY <2>1
    <3> QED
      BY <3>1, <3>2, <3>3
  <2>4. Outer \in Seq(Act) /\ Len(Outer) = k /\ \A i \in 1 .. k : Outer[i] = acts[i]
    BY <2>1, <2>2, <2>3, SubSeqProperties
  <2>5. \A a \in Act : Append(Outer, a) \in Seq(Act) /\ Len(Append(Outer, a)) = k + 1
    BY <2>4, AppendProperties
  <2> QED
    BY <2>1, <2>3, <2>4, <2>5 DEF k
<1> QED
  BY <1>1, <1>2, <1>3

LEMMA ReturnStep ==
  ASSUME OneFrameSize, IInv, [Next]_vars
  PROVE  Len(acts') < Len(acts) =>
           /\ acts' = Outer
           /\ cpu'.pc = Innermost.pc
           /\ cpu'.s = Innermost.s
           /\ Innermost.kind # "call" => cpu'.cc \ {"E"} = Innermost.cc \ {"E"}
           /\ Innermost.kind \notin {"call", "firq"} => cpu'.regs = Innermost.regs
<1>1. Len(acts) \in Nat
  BY Lengths
<1>2. CASE UNCHANGED vars
  BY <1>1, <1>2 DEF vars
<1>3. CASE Stays
  <2>1. PICK m : Good(m, acts) /\ Step(m, acts)
    BY <1>3 DEF Stays
  <2>2. acts' = acts \/ \E a \in Act : acts' = Append(acts, a)
    BY <2>1, StepGood
  <2>3. ~(Len(acts') < Len(acts))
    BY <1>1, <2>2, Lengths
  <2> QED
    BY <2>3
<1>4. CASE Enters
  <2>1. PICK b \in Act : \E m : Good(m, Append(acts, b)) /\ Step(m, Append(acts, b))
    BY <1>4 DEF Enters
  <2> DEFINE longer == Append(acts, b)
  <2>2. longer \in Seq(Act) /\ Len(longer) = Len(acts) + 1
    BY Lengths
  <2>3. PICK m : Good(m, longer) /\ Step(m, longer)
    BY <2>1
  <2> HIDE DEF longer
  <2>4. acts' = longer \/ \E a \in Act : acts' = Append(longer, a)
    BY <2>3, StepGood
  <2>5. \A a \in Act : Len(Append(longer, a)) = Len(longer) + 1
    BY <2>2, AppendProperties
  <2>6. ~(Len(acts') < Len(acts))
    BY <1>1, <2>2, <2>4, <2>5
  <2> QED
    BY <2>6
<1>5. CASE Leaves
  <2>1. PICK m : Good(m, Outer) /\ Resumed(m, Innermost) /\ Step(m, Outer)
    BY <1>5 DEF Leaves
  <2>2. \/ /\ acts' = Outer
           /\ cpu'.pc = m.pc /\ cpu'.s = m.s /\ cpu'.cc = m.cc /\ cpu'.regs = m.regs
        \/ \E a \in Act : acts' = Append(Outer, a)
    BY <2>1, StepGood
  <2>3. \A a \in Act : Len(Append(Outer, a)) = Len(acts)
    BY <1>5, Lengths DEF Leaves
  <2> QED
    BY <1>1, <2>1, <2>2, <2>3 DEF Resumed
<1>6. CASE DoRequest
  BY <1>1, <1>6, RequestGood
<1> QED
  BY <1>2, <1>3, <1>4, <1>5, <1>6, NextCases

\* However interrupts nest in calls and calls in interrupts, every return goes
\* back to the interrupted or calling instruction, with its stack pointer, and
\* after an interrupt with its masks and (FIRQ apart) its registers.
THEOREM ReturnsCorrect ==
  ASSUME OneFrameSize
  PROVE  Spec => ReturnsToCaller
<1>1. IInv /\ [Next]_vars =>
        [Len(acts') < Len(acts) =>
           /\ acts' = Outer
           /\ cpu'.pc = Innermost.pc
           /\ cpu'.s = Innermost.s
           /\ Innermost.kind # "call" => cpu'.cc \ {"E"} = Innermost.cc \ {"E"}
           /\ Innermost.kind \notin {"call", "firq"} => cpu'.regs = Innermost.regs]_vars
  BY ReturnStep
<1> QED
  BY <1>1, Inductive, PTL DEF Spec, ReturnsToCaller

-----------------------------------------------------------------------------
(* The refinement of CallStack.                                            *)

\* The activations in the form of CallStack.
View(chain) == [i \in 1 .. Len(chain) |-> [kind |-> chain[i].kind, ret |-> chain[i].pc]]

LEMMA FramesAreView ==
  ASSUME NEW m, NEW chain, Good(m, chain)
  PROVE  [i \in 1 .. Len(m.frames) |-> [kind |-> m.frames[i].kind, ret |-> m.frames[i].ret]]
           = View(chain)
<1>1. /\ Len(m.frames) = Len(chain)
      /\ \A i \in 1 .. Len(chain) :
           m.frames[i].kind = chain[i].kind /\ m.frames[i].ret = chain[i].pc
  <2>1. Mirrored(m, chain)
    BY DEF Good
  <2>2. Len(m.frames) = Len(chain)
    BY <2>1 DEF Mirrored
  <2>3. ASSUME NEW i \in 1 .. Len(chain)
        PROVE  m.frames[i].kind = chain[i].kind /\ m.frames[i].ret = chain[i].pc
    <3>1. m.frames[i] = [ret |-> chain[i].pc, kind |-> chain[i].kind, sp |-> Base(chain, i)]
      BY <2>1 DEF Mirrored
    <3> QED
      BY <3>1
  <2> QED
    BY <2>2, <2>3
<1>2. [i \in 1 .. Len(m.frames) |-> [kind |-> m.frames[i].kind, ret |-> m.frames[i].ret]]
        = [i \in 1 .. Len(chain) |-> [kind |-> m.frames[i].kind, ret |-> m.frames[i].ret]]
  BY <1>1
<1>3. [i \in 1 .. Len(chain) |-> [kind |-> m.frames[i].kind, ret |-> m.frames[i].ret]]
        = [i \in 1 .. Len(chain) |-> [kind |-> chain[i].kind, ret |-> chain[i].pc]]
  BY <1>1
<1> QED
  BY <1>2, <1>3 DEF View

LEMMA ViewAppend ==
  ASSUME NEW chain \in Seq(Act), NEW a \in Act
  PROVE  LET longer == View(Append(chain, a))
         IN  /\ View(chain) \in Seq([kind : Kinds, ret : Word])
             /\ Len(View(chain)) = Len(chain) /\ Len(chain) \in Nat
             /\ Len(longer) = Len(chain) + 1
             /\ SubSeq(longer, 1, Len(chain)) = View(chain)
             /\ longer[Len(chain) + 1] = [kind |-> a.kind, ret |-> a.pc]
             /\ longer = Append(View(chain), [kind |-> a.kind, ret |-> a.pc])
<1> DEFINE v == View(chain)
           longer == View(Append(chain, a))
           last == [kind |-> a.kind, ret |-> a.pc]
           A == [kind : Kinds, ret : Word]
           n == Len(chain)
<1>1. n \in Nat /\ Len(Append(chain, a)) = n + 1
      /\ \A i \in 1 .. n : Append(chain, a)[i] = chain[i] /\ chain[i] \in Act
      /\ Append(chain, a)[n + 1] = a
  <2>1. \A i \in 1 .. n : chain[i] \in Act
    BY ElementOfSeq
  <2> QED
    BY <2>1, LenProperties, AppendProperties
<1>2. last \in A
  BY ActType
<1>3. /\ v = [i \in 1 .. n |-> [kind |-> chain[i].kind, ret |-> chain[i].pc]]
      /\ \A i \in 1 .. n : [kind |-> chain[i].kind, ret |-> chain[i].pc] \in A
  BY <1>1, ActType DEF View
<1>4. v \in Seq(A) /\ Len(v) = n
  <2>1. v \in [1 .. n -> A]
    BY <1>3
  <2> HIDE DEF v, A
  <2> QED
    BY <1>1, <2>1
<1>5. longer = [i \in 1 .. n + 1 |-> IF i = n + 1 THEN last ELSE v[i]]
  <2>1. \A i \in 1 .. n + 1 : i \in 1 .. n \/ i = n + 1
    BY <1>1
  <2>2. \A i \in 1 .. n + 1 :
          [kind |-> Append(chain, a)[i].kind, ret |-> Append(chain, a)[i].pc]
            = IF i = n + 1 THEN last ELSE v[i]
    BY <1>1, <1>3, <2>1
  <2> QED
    BY <1>1, <2>2 DEF View
<1> HIDE DEF v, longer, last, A
<1>6. longer = Append(v, last)
  <2>1. /\ Append(v, last) \in Seq(A) /\ Len(Append(v, last)) = n + 1
        /\ \A i \in 1 .. n : Append(v, last)[i] = v[i]
        /\ Append(v, last)[n + 1] = last
    BY <1>2, <1>4, AppendProperties
  <2>2. longer \in Seq(A) /\ Len(longer) = n + 1
    <3>1. \A i \in 1 .. n + 1 : i \in 1 .. n \/ i = n + 1
      BY <1>1
    <3>2. longer \in [1 .. n + 1 -> A] /\ n + 1 \in Nat
      BY <1>1, <1>2, <1>3, <1>5, <3>1 DEF v, A, last
    <3> QED
      BY <3>2
  <2>3. \A i \in 1 .. n + 1 : Append(v, last)[i] = longer[i]
    <3>1. \A i \in 1 .. n + 1 : (i \in 1 .. n /\ i # n + 1) \/ i = n + 1
      BY <1>1
    <3>2. \A i \in 1 .. n + 1 : longer[i] = IF i = n + 1 THEN last ELSE v[i]
      BY <1>5
    <3> QED
      BY <2>1, <3>1, <3>2
  <2> QED
    BY <2>1, <2>2, <2>3, SeqEqual
<1>7. SubSeq(longer, 1, n) = v /\ Len(longer) = n + 1 /\ longer[n + 1] = last
  BY <1>1, <1>2, <1>4, <1>6, AppendDrop, AppendProperties
<1> QED
  BY <1>1, <1>4, <1>6, <1>7 DEF v, longer, last, A

\* What a step makes of the activations `chain` its instruction left is what
\* CallStack allows.
LEMMA StepThen ==
  ASSUME NEW chain \in Seq(Act), NEW nexts, nexts \subseteq Word, NEW m, m.pc \in nexts,
         cpu'.pc \in Word, Frames' = View(acts'),
         \/ acts' = chain /\ cpu'.pc = m.pc
         \/ \E a \in Act : a.kind \in Inputs /\ a.pc = m.pc /\ acts' = Append(chain, a)
  PROVE  Calls!Then(View(chain), nexts)
<1>1. CASE acts' = chain /\ cpu'.pc = m.pc
  BY <1>1 DEF Calls!Then
<1>2. CASE \E a \in Act : a.kind \in Inputs /\ a.pc = m.pc /\ acts' = Append(chain, a)
  <2>1. PICK a \in Act : a.kind \in Inputs /\ a.pc = m.pc /\ acts' = Append(chain, a)
    BY <1>2
  <2> DEFINE longer == View(Append(chain, a))
  <2>2. /\ Len(View(chain)) = Len(chain) /\ Len(longer) = Len(chain) + 1
        /\ SubSeq(longer, 1, Len(chain)) = View(chain)
        /\ longer[Len(chain) + 1] = [kind |-> a.kind, ret |-> a.pc]
    BY ViewAppend
  <2>3. Frames' = longer
    BY <2>1
  <2> HIDE DEF longer
  <2>4. longer[Len(longer)] \in [kind : Inputs, ret : nexts]
    <3>1. longer[Len(longer)] = [kind |-> a.kind, ret |-> a.pc]
      BY <2>2
    <3>2. [kind |-> a.kind, ret |-> a.pc] \in [kind : Inputs, ret : nexts]
      BY <2>1
    <3> QED
      BY <3>1, <3>2
  <2> QED
    BY <2>2, <2>3, <2>4 DEF Calls!Then
<1> QED
  BY <1>1, <1>2

LEMMA NextRefines ==
  ASSUME OneFrameSize, IInv, [Next]_vars
  PROVE  [Calls!Next]_<<cpu.pc, Frames>>
<1>1. Frames = View(acts) /\ acts \in Seq(Act) /\ cpu.pc \in Word
  BY Frozen, FramesAreView DEF IInv, Frames, Machine
<1>2. Good(cpu', acts')
  BY NextGood DEF IInv
<1>3. Frames' = View(acts') /\ cpu'.pc \in Word
  <2>1. cpu'.pc \in Word
    BY <1>2 DEF Good, Typed, Machine
  <2> QED
    BY <1>2, <2>1, FramesAreView DEF Frames
<1>4. ASSUME NEW m, NEW chain, Good(m, chain)
      PROVE  m.pc \in Word
  BY <1>4 DEF Good, Typed, Machine
<1>5. CASE UNCHANGED vars
  BY <1>5 DEF vars, Frames
<1>6. CASE Stays
  <2>1. PICK m : Good(m, acts) /\ Step(m, acts)
    BY <1>6 DEF Stays
  <2>2. \/ acts' = acts /\ cpu'.pc = m.pc
        \/ \E a \in Act : a.kind \in Inputs /\ a.pc = m.pc /\ acts' = Append(acts, a)
    BY <2>1, StepGood
  <2>3. Calls!Then(View(acts), Word)
    BY <1>1, <1>3, <1>4, <2>1, <2>2, StepThen
  <2> QED
    BY <1>1, <2>3 DEF Calls!Next, Calls!Work
<1>7. CASE Enters
  <2>1. PICK a \in Act : /\ a.kind \in {"call"} \cup Software
                        /\ \E m : Good(m, Append(acts, a)) /\ Step(m, Append(acts, a))
    BY <1>7 DEF Enters
  <2> DEFINE longer == Append(acts, a)
             called == [kind |-> a.kind, ret |-> a.pc]
  <2>2. PICK m : Good(m, longer) /\ Step(m, longer)
    BY <2>1
  <2>3. longer \in Seq(Act) /\ View(longer) = Append(View(acts), called)
        /\ Len(View(longer)) = Len(View(acts)) + 1 /\ Len(View(acts)) \in Nat
        /\ View(longer)[Len(View(acts)) + 1] = called
    BY <1>1, Lengths, ViewAppend
  <2>4. called \in [kind : {"call"} \cup Software, ret : Word]
    BY <2>1, ActType
  <2> HIDE DEF longer, called
  <2>5. \/ acts' = longer /\ cpu'.pc = m.pc
        \/ \E b \in Act : b.kind \in Inputs /\ b.pc = m.pc /\ acts' = Append(longer, b)
    BY <2>2, StepGood
  <2>6. Calls!Then(View(longer), Word)
    BY <1>3, <1>4, <2>2, <2>3, <2>5, StepThen
  <2>7. Len(Frames') > Len(Frames) /\ Frames'[Len(Frames) + 1] = called
    <3>1. CASE acts' = longer
      BY <1>1, <1>3, <2>3, <3>1
    <3>2. CASE \E b \in Act : acts' = Append(longer, b)
      <4>1. PICK b \in Act : acts' = Append(longer, b)
        BY <3>2
      <4> DEFINE v == View(longer)
                 last == [kind |-> b.kind, ret |-> b.pc]
                 A == [kind : Kinds, ret : Word]
      <4>2. /\ v \in Seq(A) /\ View(Append(longer, b)) = Append(v, last)
            /\ last \in A
        BY <2>3, ViewAppend, ActType
      <4>3. Len(v) = Len(Frames) + 1 /\ Len(Frames) \in Nat /\ v[Len(Frames) + 1] = called
        BY <1>1, <2>3
      <4>4. Frames' = Append(v, last)
        BY <1>3, <4>1, <4>2
      <4> HIDE DEF v, last, A
      <4>5. /\ Len(Append(v, last)) = Len(v) + 1
            /\ \A i \in 1 .. Len(v) : Append(v, last)[i] = v[i]
        BY <4>2, AppendProperties
      <4>6. Len(Frames) + 1 \in 1 .. Len(v)
        BY <4>3
      <4> QED
        BY <4>3, <4>4, <4>5, <4>6
    <3> QED
      BY <2>5, <3>1, <3>2
  <2>8. Calls!Then(Append(Frames, called), Word)
    BY <1>1, <2>3, <2>6
  <2> QED
    BY <2>4, <2>7, <2>8 DEF Calls!Next, Calls!Enter
<1>8. CASE Leaves
  <2>1. PICK m : Good(m, Outer) /\ Resumed(m, Innermost) /\ Step(m, Outer)
    BY <1>8 DEF Leaves
  <2>2. Outer \in Seq(Act) /\ Innermost \in Act /\ acts = Append(Outer, Innermost)
    <3>1. /\ Outer \in Seq(Act) /\ Len(acts) >= 1 /\ Len(Outer) = Len(acts) - 1
          /\ \A i \in 1 .. Len(acts) - 1 : Outer[i] = acts[i]
          /\ Innermost \in Act /\ Len(acts) \in Nat
      BY <1>8, Lengths, Inner DEF Leaves
    <3> DEFINE longer == Append(Outer, Innermost)
    <3>2. /\ longer \in Seq(Act) /\ Len(longer) = Len(acts)
          /\ \A i \in 1 .. Len(Outer) : longer[i] = Outer[i]
          /\ longer[Len(Outer) + 1] = Innermost
      BY <3>1, AppendProperties
    <3>3. Innermost = acts[Len(acts)] /\ Len(Outer) + 1 = Len(acts)
      BY <3>1 DEF Innermost
    <3> HIDE DEF longer
    <3>4. \A i \in 1 .. Len(acts) : i \in 1 .. Len(Outer) \/ i = Len(acts)
      BY <3>1
    <3>5. \A i \in 1 .. Len(acts) : longer[i] = acts[i]
      BY <3>1, <3>2, <3>3, <3>4
    <3>6. longer = acts
      BY <1>1, <3>2, <3>5, SeqEqual
    <3> QED
      BY <3>1, <3>6 DEF longer
  <2> DEFINE v == View(Outer)
             last == [kind |-> Innermost.kind, ret |-> Innermost.pc]
             A == [kind : Kinds, ret : Word]
  <2>3. v \in Seq(A) /\ last \in A /\ Frames = Append(v, last)
    BY <1>1, <2>2, ViewAppend, ActType
  <2>4. last.ret = Innermost.pc /\ m.pc = Innermost.pc /\ m.pc \in Word
    BY <1>4, <2>1 DEF Resumed
  <2> HIDE DEF v, last, A
  <2>5. /\ Frames # <<>> /\ Frames[Len(Frames)] = last
        /\ SubSeq(Frames, 1, Len(Frames) - 1) = v
    BY <2>3, AppendDrop
  <2>6. \/ acts' = Outer /\ cpu'.pc = m.pc
        \/ \E b \in Act : b.kind \in Inputs /\ b.pc = m.pc /\ acts' = Append(Outer, b)
    BY <2>1, StepGood
  <2>7. Calls!Then(v, {last.ret})
    BY <1>3, <2>2, <2>4, <2>6, StepThen DEF v
  <2>8. Calls!Then(SubSeq(Frames, 1, Len(Frames) - 1), {Frames[Len(Frames)].ret})
    BY <2>5, <2>7
  <2> QED
    BY <2>5, <2>8 DEF Calls!Next, Calls!Leave
<1>9. CASE DoRequest
  BY <1>1, <1>3, <1>9, RequestGood
<1> QED
  BY <1>5, <1>6, <1>7, <1>8, <1>9, NextCases

\* The frames and the program counter behave as CallStack says: a debugger that
\* looks only at the shadow stack can tell where every routine will return.
THEOREM ShadowImplementsCallStack ==
  ASSUME OneFrameSize
  PROVE  Spec => ImplementsCallStack
<1>1. Init => Calls!Init
  <2> SUFFICES ASSUME Init PROVE Calls!Init
    OBVIOUS
  <2>1. Good(cpu, acts) /\ acts = <<>>
    BY InitGood DEF IInv, Init
  <2>2. Frames = View(acts)
    BY <2>1, FramesAreView DEF Frames
  <2>3. View(acts) = <<>>
    BY <2>1 DEF View
  <2>4. cpu.pc \in Word
    BY <2>1 DEF Good, Typed, Machine
  <2> QED
    BY <2>2, <2>3, <2>4 DEF Calls!Init
<1>2. IInv /\ [Next]_vars => [Calls!Next]_<<cpu.pc, Frames>>
  BY NextRefines
<1> QED
  BY <1>1, <1>2, Inductive, PTL DEF Spec, ImplementsCallStack, Calls!Spec

=============================================================================
