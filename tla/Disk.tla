-------------------------------- MODULE Disk --------------------------------
(***************************************************************************)
(* What a block device promises.  A transfer moves consecutive sectors     *)
(* between the guest and the disk, one byte at a time and in order; the    *)
(* disk changes only where a whole sector of a write transfer arrives, at  *)
(* the address of that sector.  A transfer ends by moving its last byte or *)
(* by being abandoned.                                                     *)
(***************************************************************************)
EXTENDS Integers, Sequences

CONSTANTS SectorSize, Bytes, Sectors, MaxCount

VARIABLES
  image,      \* the bytes of the disk
  transfer    \* op, the sector it is at, the sectors it still has to move
              \* (that one included) and the part of that sector it holds

Size(lba) == (lba + 1) * SectorSize
Following(lba) == (lba + 1) % Sectors

Content(lba) ==
  IF Size(lba) <= Len(image) THEN SubSeq(image, lba * SectorSize + 1, Size(lba))
  ELSE [i \in 1 .. SectorSize |-> 0]

NoTransfer == [op |-> "none", at |-> 0, sectors |-> 0, part |-> <<>>]

Transfer(op, at, sectors, part) ==
  IF sectors = 0 THEN NoTransfer
  ELSE [op |-> op, at |-> at, sectors |-> sectors, part |-> part]

\* Sector lba becomes `sector`; everything else is kept, and what has to be
\* added in front of it is zero.
Stored(lba, sector) ==
  /\ Len(image') = IF Len(image) < Size(lba) THEN Size(lba) ELSE Len(image)
  /\ \A i \in 1 .. Len(image') :
       image'[i] = IF i > lba * SectorSize /\ i <= Size(lba) THEN sector[i - lba * SectorSize]
                   ELSE IF i <= Len(image) THEN image[i] ELSE 0

BeginRead ==
  /\ \E lba \in 0 .. Sectors - 1, n \in 1 .. MaxCount :
       transfer' = Transfer("READ", lba, n, Content(lba))
  /\ UNCHANGED image

\* The guest takes the first byte of the part, and finds the next sector
\* loaded when that was the last one.
ReadByte ==
  /\ transfer.op = "READ"
  /\ transfer' =
       IF Len(transfer.part) > 1 THEN [transfer EXCEPT !.part = Tail(@)]
       ELSE Transfer("READ", Following(transfer.at), transfer.sectors - 1,
                     Content(Following(transfer.at)))
  /\ UNCHANGED image

\* A write begins with nothing or with its first sector.
BeginWrite ==
  \E lba \in 0 .. Sectors - 1, n \in 1 .. MaxCount :
    \/ transfer' = Transfer("WRITE", lba, n, <<>>) /\ UNCHANGED image
    \/ /\ transfer' = Transfer("WRITE", Following(lba), n - 1, <<>>)
       /\ \E sector \in [1 .. SectorSize -> Bytes] : Stored(lba, sector)

WriteByte ==
  /\ transfer.op = "WRITE"
  /\ \E byte \in Bytes :
       LET part == Append(transfer.part, byte)
       IN  IF Len(part) < SectorSize
           THEN transfer' = [transfer EXCEPT !.part = part] /\ UNCHANGED image
           ELSE /\ transfer' = Transfer("WRITE", Following(transfer.at),
                                        transfer.sectors - 1, <<>>)
                /\ Stored(transfer.at, part)

Abandon == transfer' = NoTransfer /\ UNCHANGED image

\* The host puts another disk in.
Exchange == transfer' = NoTransfer /\ image' \in Seq(Bytes)

Init == image = <<>> /\ transfer = NoTransfer

Next == BeginRead \/ ReadByte \/ BeginWrite \/ WriteByte \/ Abandon \/ Exchange

Spec == Init /\ [][Next]_<<image, transfer>>

=============================================================================
