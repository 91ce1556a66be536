------------------------------ MODULE BlockDev ------------------------------
(***************************************************************************)
(* BlockDev of src/src/io.rs: a disk behind eight registers.  A READ or    *)
(* WRITE command begins a transfer of SECCNT sectors from LBA on, which    *)
(* the guest moves through the DATA register byte by byte; one buffer and  *)
(* one index serve both directions.                                        *)
(*                                                                         *)
(* Registers are functions of the device record; a register that both      *)
(* answers and changes the device is a pair of operators.  last_data_byte, *)
(* state_dirty (what a UI polls) and the choice between the IRQ and the    *)
(* FIRQ line are left out.                                                 *)
(***************************************************************************)
EXTENDS Integers, Sequences

CONSTANTS
  SectorSize,   \* bytes of a sector (512 in the code)
  Bytes,        \* values of a byte, 0 among them
  Radix,        \* values of one LBA register (256 in the code)
  Digits,       \* LBA registers (4 in the code)
  MaxCount,     \* greatest value of SECCNT (255 in the code)
  MaxHold       \* greatest number of polls that an interrupt is held

BlockAssumption ==
  /\ SectorSize \in Nat \ {0}
  /\ Bytes \subseteq Nat /\ 0 \in Bytes
  /\ Radix \in Nat \ {0} /\ Digits \in Nat \ {0}
  /\ MaxCount \in Nat \ {0}
  /\ MaxHold \in Nat

\* What holds of the places of a number with Digits digits, whatever these are.
PlacesAssumption ==
  \A k \in 0 .. Digits - 1 :
    /\ Radix ^ k \in Nat \ {0}
    /\ Radix ^ Digits \in Nat \ {0}
    /\ Radix ^ Digits % (Radix * Radix ^ k) = 0

ASSUME BlockConstants == BlockAssumption /\ PlacesAssumption

Lbas     == 0 .. Radix ^ Digits - 1
Sector   == [1 .. SectorSize -> Bytes]
Commands == {"NOP", "READ", "WRITE", "RESET", "unknown"}

Device ==
  [ lba    : Lbas,
    count  : 1 .. MaxCount,          \* sec_cnt
    busy   : BOOLEAN,                \* the bits of STATUS
    drdy   : BOOLEAN,
    err    : BOOLEAN,
    cmd    : Commands,               \* last_cmd
    buf    : Sector,
    idx    : 0 .. SectorSize,
    image  : Seq(Bytes),
    backed : BOOLEAN,                \* a backing file is configured
    op     : {"none", "READ", "WRITE"},   \* op_read, op_write
    left   : 0 .. MaxCount * SectorSize,  \* xfer_remaining
    enable : BOOLEAN,                \* irq_enable
    hold   : 0 .. MaxHold,           \* irq_hold_cycles
    held   : 0 .. MaxHold ]          \* irq_countdown

Blank == [i \in 1 .. SectorSize |-> 0]

\* BlockDev::new.
New ==
  [ lba |-> 0, count |-> 1, busy |-> FALSE, drdy |-> FALSE, err |-> FALSE,
    cmd |-> "NOP", buf |-> Blank, idx |-> 0, image |-> <<>>, backed |-> FALSE,
    op |-> "none", left |-> 0, enable |-> FALSE, hold |-> 0, held |-> 0 ]

-----------------------------------------------------------------------------
(* Sectors.                                                                *)

Minus(a, b) == IF a > b THEN a - b ELSE 0      \* saturating_sub

NextLba(lba) == (lba + 1) % Radix ^ Digits

Start(lba) == lba * SectorSize
InRange(image, lba) == Start(lba) + SectorSize <= Len(image)

\* What a sector of an image reads as: zeros beyond the end, a last sector
\* that is incomplete included.
SectorAt(image, lba) ==
  [i \in 1 .. SectorSize |-> IF InRange(image, lba) THEN image[Start(lba) + i] ELSE 0]

\* Fault: the image ends with the sector.
WithSectorLast(image, lba, sector) ==
  [i \in 1 .. Start(lba) + SectorSize |->
     IF i - Start(lba) \in 1 .. SectorSize THEN sector[i - Start(lba)]
     ELSE IF i <= Len(image) THEN image[i] ELSE 0]

\* An image with a sector written, grown with zeros as far as needed.
WithSector(image, lba, sector) ==
  [i \in 1 .. Len(image) + Minus(Start(lba) + SectorSize, Len(image)) |->
     IF i - Start(lba) \in 1 .. SectorSize THEN sector[i - Start(lba)]
     ELSE IF i <= Len(image) THEN image[i] ELSE 0]

\* read_sector_into_buf
ReadSector(d) ==
  [d EXCEPT !.buf = SectorAt(d.image, d.lba), !.err = ~ InRange(d.image, d.lba),
            !.idx = 0, !.busy = FALSE, !.drdy = TRUE]

\* write_buf_to_sector; mirroring the sector to the backing file may fail.
WriteSector(d, failed) ==
  [d EXCEPT !.image = WithSector(@, d.lba, d.buf), !.err = d.backed /\ failed,
            !.idx = 0, !.busy = FALSE]

\* A sector written in the course of a transfer.
Commit(d, failed) ==
  [WriteSector(d, failed) EXCEPT !.lba = NextLba(@),
                                 !.left = Minus(@, SectorSize)]

Hold(d) == IF d.enable THEN [d EXCEPT !.held = d.hold] ELSE d

-----------------------------------------------------------------------------
(* Registers.                                                              *)

Readable(d) == d.drdy /\ d.idx < SectorSize

\* What a read of DATA answers.
Data(d) == IF Readable(d) THEN d.buf[d.idx + 1] ELSE 0

\* Fault: the count of bytes left is only looked at before it is reduced.
AfterReadDataLate(d) ==
  LET moved == [d EXCEPT !.idx = @ + 1, !.left = Minus(@, 1)]
  IN  IF ~ Readable(d) THEN d
      ELSE IF moved.idx < SectorSize THEN moved
      ELSE IF d.op = "READ" /\ d.left > 0 THEN ReadSector([moved EXCEPT !.lba = NextLba(@)])
      ELSE Hold([moved EXCEPT !.drdy = FALSE, !.op = IF @ = "READ" THEN "none" ELSE @])

\* The device after a read of DATA.
AfterReadData(d) ==
  LET moved == [d EXCEPT !.idx = @ + 1, !.left = Minus(@, 1)]
  IN  IF ~ Readable(d) THEN d
      ELSE IF moved.idx < SectorSize THEN moved
      ELSE IF d.op = "READ" /\ moved.left > 0 THEN ReadSector([moved EXCEPT !.lba = NextLba(@)])
      ELSE Hold([moved EXCEPT !.drdy = FALSE, !.op = IF @ = "READ" THEN "none" ELSE @])

AfterReadStatus(d) == [d EXCEPT !.err = FALSE]

WriteData(d, byte, failed) ==
  LET moved  == [d EXCEPT !.buf[d.idx + 1] = byte, !.idx = @ + 1]
      stored == Commit(moved, failed)
  IN  IF d.idx >= SectorSize THEN d
      ELSE IF moved.idx < SectorSize \/ d.op # "WRITE" THEN moved
      ELSE IF stored.left > 0 THEN [stored EXCEPT !.buf = Blank]
      ELSE Hold([stored EXCEPT !.op = "none"])

Begin(d, op) == [d EXCEPT !.cmd = op, !.op = op, !.left = d.count * SectorSize]

\* Fault: RESET leaves the index where the last transfer left it.
ResetKeepsIndex(d) ==
  [d EXCEPT !.busy = FALSE, !.drdy = FALSE, !.err = FALSE, !.cmd = "NOP",
            !.op = "none", !.left = 0, !.held = 0]

Reset(d) ==
  [d EXCEPT !.busy = FALSE, !.drdy = FALSE, !.err = FALSE, !.cmd = "NOP",
            !.idx = 0, !.op = "none", !.left = 0, !.held = 0]

\* A WRITE that finds the buffer full stores it at once; the transfer goes on
\* nevertheless, even if no byte is left.
WriteCommand(d, command, failed) ==
  CASE command = "NOP"   -> [d EXCEPT !.cmd = "NOP"]
    [] command = "READ"  -> ReadSector(Begin(d, "READ"))
    [] command = "WRITE" ->
         LET begun == [Begin(d, "WRITE") EXCEPT !.busy = TRUE]
         IN  IF d.idx < SectorSize THEN begun
             ELSE [Commit(begun, failed) EXCEPT !.buf = Blank]
    [] command = "RESET" -> Reset(d)
    [] OTHER             -> [d EXCEPT !.cmd = "unknown", !.err = TRUE]

\* Fault: a count of zero is taken as it is.
WriteCountRaw(d, n) == [d EXCEPT !.count = n]

WriteCount(d, n) == [d EXCEPT !.count = IF n = 0 THEN 1 ELSE n]

\* LBA0 to LBA3 each replace one digit of the address.
WriteLba(d, k, digit) ==
  [d EXCEPT !.lba = @ + (digit - ((@ \div Radix ^ k) % Radix)) * Radix ^ k]

-----------------------------------------------------------------------------
(* irq_lines.                                                              *)

Asserts(d) ==
  /\ d.enable
  /\ \/ d.drdy
     \/ d.err
     \/ d.op # "WRITE" /\ d.cmd = "WRITE" /\ d.held > 0

\* The level that a poll reports.
Line(d) == Asserts(d) \/ d.held > 0

\* Fault: a line that is held is held anew.
AfterPollAgain(d) == [d EXCEPT !.held = IF Line(d) THEN d.hold ELSE 0]

\* The device after a poll.
AfterPoll(d) ==
  [d EXCEPT !.held = IF Asserts(d) THEN d.hold ELSE Minus(@, 1)]

=============================================================================
