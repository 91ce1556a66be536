------------------------------ MODULE Listing ------------------------------
(***************************************************************************)
(* A program runs under a listing.  The embedder keeps the set of known    *)
(* instruction starts (InstructionBoundaries): it sweeps the program when  *)
(* it is loaded, adds the PC of every instruction it executes, and sweeps  *)
(* again when WriteTrack reports writes to the program, or when it turns   *)
(* to another span of memory.  The program may write over itself.          *)
(***************************************************************************)
EXTENDS Disasm

CONSTANTS
  Programs,   \* records: base, bytes, the registers x, s, a, b at the start,
              \* and the spans that the listing turns to
  Windows     \* lines asked for, <<before PC, after PC>>

ASSUME ProgramsAssumption ==
  \A p \in Programs :
    /\ p.base \in Address /\ p.x \in Address /\ p.s \in Address
    /\ p.a \in Octet /\ p.b \in Octet
    /\ p.bytes \in Seq(Octet)
    /\ p.spans \subseteq {<< >>} \cup (Address \X Address)

ASSUME WindowsAssumption == Windows \subseteq Nat \X Nat

VARIABLES
  program,    \* what was loaded
  m,          \* the machine
  span,       \* WriteTrack's span: <<start, end>>, or <<>> for every address
  dirty,      \* WriteTrack's addresses
  known,      \* InstructionBoundaries
  seen        \* what was there when a start became known: its bytes

listingVars == <<program, m, span, dirty, known, seen>>

\* The bytes of the instruction at p.
BytesAt(machine, p) == [k \in 1 .. disasm_one(machine, p) |-> Read(machine, Plus(p, k - 1))]

SeenAt(machine, starts) == [p \in starts |-> BytesAt(machine, p)]

\* Fault: the first address of the span is not tracked.
TracksInside(s, at) ==
  IF s = << >> THEN TRUE
  ELSE IF s[1] <= s[2] THEN at > s[1] /\ at < s[2]
  ELSE at >= s[1] \/ at < s[2]

\* Which writes are recorded; a span may go round the end of the memory.
Tracks(s, at) ==
  IF s = << >> THEN TRUE
  ELSE IF s[1] <= s[2] THEN at >= s[1] /\ at < s[2]
  ELSE at >= s[1] \/ at < s[2]

\* BOUND: a run ends where PC leaves the program.
InProgram(at) == at - program.base \in 0 .. Len(program.bytes) - 1

\* The starts that a sweep of the loaded program finds in memory.  The end is
\* a number of 16 bits, so that the last address is never swept.
Swept(machine) ==
  linear_sweep(machine, program.base, Smaller(program.base + Len(program.bytes), LastAddress))

\* load_slice stops at the end of the memory.
Loaded(p) ==
  [a |-> p.a, b |-> p.b, dp |-> 0, x |-> p.x, y |-> 0, u |-> 0, s |-> p.s,
   pc |-> p.base, cc |-> {"I", "F"},
   ram |-> [at \in p.base .. Smaller(p.base + Len(p.bytes) - 1, LastAddress) |->
              p.bytes[at - p.base + 1]],
   wrote |-> {}]

ListingInit ==
  /\ program \in Programs
  /\ m = Loaded(program)
  /\ span = <<program.base, Plus(program.base, Len(program.bytes))>>
  /\ dirty = {}
  /\ known = Swept(m)
  /\ seen = SeenAt(m, known)

\* An instruction is executed, and its start becomes known.
Run ==
  /\ InProgram(m.pc) /\ ~ Halts(m)
  /\ m' = Step(m)
  /\ dirty' = dirty \cup {at \in m'.wrote : Tracks(span, at)}
  /\ known' = known \cup {m.pc}
  /\ seen' = [p \in known' |-> IF p = m.pc THEN BytesAt(m, p) ELSE seen[p]]
  /\ UNCHANGED <<program, span>>

\* take_dirty_addrs, clear and linear_sweep.
Refresh ==
  /\ dirty # {}
  /\ dirty' = {}
  /\ known' = Swept(m)
  /\ seen' = SeenAt(m, known')
  /\ UNCHANGED <<program, m, span>>

\* set_span, clear and linear_sweep; what was recorded stays.
Retarget ==
  /\ span' \in program.spans \ {span}
  /\ known' = Swept(m)
  /\ seen' = SeenAt(m, known')
  /\ UNCHANGED <<program, m, dirty>>

ListingNext == Run \/ Refresh \/ Retarget

ListingSpec == ListingInit /\ [][ListingNext]_listingVars

-----------------------------------------------------------------------------
\* The instruction at p has a postbyte in its last operand.
Postbyte(p) ==
  LET op == Read(m, p)
  IN  IF op \in {\h10, \h11} THEN Read(m, Plus(p, 2)) ELSE Read(m, Plus(p, 1))

\* What the disassembler is known not to decode: opcodes that it takes for
\* data, and operands that are indirect with an offset or relative to PC.
Undecoded(p) ==
  LET op == Read(m, p)
  IN  \/ op \in {\h36, \h37} \cup Row(10, {3, 8, 9, 10, 11, 12})
                   \cup {\h8C, \h93, \h9C, \hB3, \hBC, \hD3, \hE3, \hF3}
                   \cup {\hDE, \hDF, \hEE, \hEF, \hFE, \hFF}
      \/ /\ op \in {\h10, \h11} \cup IndexedOps
         /\ Postbyte(p) >= 128
         /\ Postbyte(p) % 32 \in {\h18, \h19, \h0C, \h0D, \h1C, \h1D}

\* Instructions that take PC from a register or from memory.
IsComputed(p) ==
  LET op   == Read(m, p)
      mask == Read(m, Plus(p, 1))
  IN  \/ op \in {\h0E, \h39, \h6E, \h9D, \hAD}
      \/ op \in {\h35, \h37} /\ mask >= 128
      \/ op \in {\h1E, \h1F} /\ 5 \in {mask \div 16, mask % 16}

\* The listing and the core agree on the code (src/src/disasm.rs: disasm_one;
\* src/src/cpu.rs: step, ea_indexed): an instruction is followed by the one the
\* listing has below it, or by the one its text names, unless it takes PC from
\* a register or from memory, and a call returns to the line below it.  The
\* known gaps of the disassembler are excepted.
ListedAsExecuted ==
  [][Run /\ ~ Undecoded(m.pc) =>
       LET below == Plus(m.pc, disasm_one(m, m.pc))
       IN  /\ IsComputed(m.pc) \/ m'.pc \in {below} \cup Targets(m, m.pc)
           /\ IsCall(Read(m, m.pc)) => Word(m', m'.s) = below]_listingVars

\* What cpu.rs:229 counts on when it steps over a call: the length that the
\* disassembler gives for it leads to the address it returns to.
CallsReturnBelow ==
  [][Run /\ IsCall(Read(m, m.pc)) =>
       Word(m', m'.s) = Plus(m.pc, disasm_one(m, m.pc))]_listingVars

\* at is one of the addresses from the start of the span to its end, going
\* round the end of the memory.
InSpan(at) == span = << >> \/ (at - span[1]) % 65536 < (span[2] - span[1]) % 65536

\* As long as no recorded write waits to be taken, every byte inside the span
\* of a known instruction is what it was when its start became known
\* (src/src/bus.rs: WriteTrack::write8, set_span, take_dirty_addrs): no write
\* to the program goes unnoticed, whatever the span and whenever it changes.
NotStale ==
  dirty = {} =>
    \A p \in known : \A k \in DOMAIN seen[p] :
      InSpan(Plus(p, k - 1)) => Read(m, Plus(p, k - 1)) = seen[p][k]

\* One walk from the first of the known starts and PC finds them all: none is in
\* the middle of an instruction that starts at another.
Aligned == LET starts == known \cup {m.pc}
           IN  starts \subseteq linear_sweep(m, Min(starts), Max(starts) + 1)

\* Below the last line there is no room for another.
AtTheEnd(lines) == Last(lines) + disasm_one(m, Last(lines)) \notin Address

\* The window around PC (src/src/disasm.rs: disasm_window) has PC on exactly
\* one line, every other line where the instruction above it ends, and no more
\* lines than asked for.  Inside the program, where the known starts and PC are
\* in line with each other, it has all that were asked for: above PC at least as many as are
\* known, below PC as many as memory holds.
WindowRight ==
  \A w \in Windows :
    LET lines == disasm_window(m, m.pc, known, w[1], w[2])
        here  == {k \in DOMAIN lines : lines[k] = m.pc}
    IN  /\ Cardinality(here) = 1
        /\ \A k \in 1 .. Len(lines) - 1 : lines[k + 1] = lines[k] + disasm_one(m, lines[k])
        /\ \A k \in here : k - 1 <= w[1] /\ Len(lines) - k <= w[2]
        /\ InProgram(m.pc) /\ Aligned =>
             \A k \in here :
               /\ k - 1 >= Smaller(w[1], Cardinality({p \in known : p < m.pc}))
               /\ Len(lines) - k = w[2] \/ AtTheEnd(lines)
=============================================================================
