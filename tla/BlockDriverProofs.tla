------------------------- MODULE BlockDriverProofs -------------------------
(***************************************************************************)
(* That the block device moves the bytes asked for, to and from the        *)
(* sectors asked for, and implements Disk, for every size of sectors, of   *)
(* transfers and of the address space.                                     *)
(***************************************************************************)
EXTENDS BlockDriver, SequenceTheorems, TLAPS

-----------------------------------------------------------------------------
(* Arithmetic.                                                             *)

\* The sector and the place in it of a byte.
LEMMA DivMod ==
  ASSUME NEW n \in Nat, NEW s \in Nat \ {0}
  PROVE  /\ n \div s \in Nat
         /\ n % s \in 0 .. s - 1
         /\ n = s * (n \div s) + (n % s)
OBVIOUS

LEMMA Grows ==
  ASSUME NEW s \in Nat, NEW a \in Int, NEW b \in Int, a <= b
  PROVE  s * a <= s * b
OBVIOUS

LEMMA OneMore ==
  ASSUME NEW s \in Int, NEW a \in Int
  PROVE  s * (a + 1) = s * a + s
OBVIOUS

LEMMA Parts ==
  ASSUME NEW n \in Nat, NEW s \in Nat \ {0}
  PROVE  \E q \in Nat, r \in 0 .. s - 1 : q = n \div s /\ r = n % s /\ n = s * q + r
BY DivMod, Zenon

\* They are the only ones.
LEMMA DivModUnique ==
  ASSUME NEW s \in Nat \ {0}, NEW q \in Int, NEW r \in 0 .. s - 1,
         NEW p \in Int, NEW t \in 0 .. s - 1, s * q + r = s * p + t
  PROVE  q = p /\ r = t
<1>1. CASE q < p
  <2>1. s * (q + 1) <= s * p
    BY <1>1, Grows
  <2> QED
    BY <2>1, OneMore
<1>2. CASE p < q
  <2>1. s * (p + 1) <= s * q
    BY <1>2, Grows
  <2> QED
    BY <2>1, OneMore
<1> QED
  BY <1>1, <1>2

LEMMA IsDivMod ==
  ASSUME NEW s \in Nat \ {0}, NEW q \in Nat, NEW r \in 0 .. s - 1, NEW n \in Nat,
         n = s * q + r
  PROVE  n \div s = q /\ n % s = r
<1>1. /\ n \div s \in Nat /\ n % s \in 0 .. s - 1
      /\ n = s * (n \div s) + (n % s)
  BY DivMod
<1> QED
  BY <1>1, DivModUnique

\* The byte after it is the next one of the sector, or the first one of the next.
LEMMA NextByte ==
  ASSUME NEW n \in Nat, NEW s \in Nat \ {0}
  PROVE  /\ (n % s) + 1 < s => /\ (n + 1) \div s = n \div s
                             /\ (n + 1) % s = (n % s) + 1
         /\ (n % s) + 1 = s => /\ (n + 1) \div s = n \div s + 1
                             /\ (n + 1) % s = 0
<1>1. PICK q \in Nat, r \in 0 .. s - 1 : q = n \div s /\ r = n % s /\ n = s * q + r
  BY Parts
<1>2. PICK m \in Nat : m = n + 1
  OBVIOUS
<1>3. ASSUME r + 1 < s
      PROVE  m \div s = q /\ m % s = r + 1
  <2>1. PICK t \in 0 .. s - 1 : t = r + 1
    BY <1>3
  <2>2. m = s * q + t
    BY <1>1, <1>2, <2>1
  <2> QED
    BY <2>1, <2>2, IsDivMod
<1>4. ASSUME r + 1 = s
      PROVE  m \div s = q + 1 /\ m % s = 0
  <2>1. PICK p \in Nat : p = q + 1
    OBVIOUS
  <2>2. m = s * p + 0 /\ 0 \in 0 .. s - 1
    BY <1>1, <1>2, <1>4, <2>1, OneMore
  <2> QED
    BY <2>1, <2>2, IsDivMod
<1> QED
  BY <1>1, <1>2, <1>3, <1>4

\* Whole sectors.
LEMMA Multiples ==
  ASSUME NEW c \in Nat, NEW s \in Nat \ {0}
  PROVE  /\ c * s \in Nat
         /\ (c * s) \div s = c
         /\ (c * s) % s = 0
<1>1. c * s = s * c + 0 /\ c * s \in Nat /\ 0 \in 0 .. s - 1
  OBVIOUS
<1> QED
  BY <1>1, IsDivMod

\* Before the end of the last sector there is a sector that is not complete.
LEMMA Before ==
  ASSUME NEW n \in Nat, NEW c \in Nat, NEW s \in Nat \ {0}
  PROVE  /\ n < c * s => /\ n \div s < c
                         /\ (n \div s) * s + s <= c * s
                         /\ n + (s - (n % s)) <= c * s
         /\ n = c * s => n \div s = c /\ n % s = 0
         /\ n <= c * s => (n \div s) * s <= c * s /\ n \div s <= c
<1>1. /\ n \div s \in Nat /\ n % s \in 0 .. s - 1
      /\ n = s * (n \div s) + (n % s)
  BY DivMod
<1>2. ASSUME n < c * s
      PROVE  n \div s < c /\ (n \div s) * s + s <= c * s /\ n + (s - (n % s)) <= c * s
  <2>1. n \div s < c
    <3> SUFFICES ASSUME c <= n \div s PROVE FALSE
      BY <1>1
    <3>1. s * c <= s * (n \div s)
      BY <1>1, Grows
    <3> QED
      BY <3>1, <1>1, <1>2
  <2>2. s * (n \div s + 1) <= s * c
    BY <1>1, <2>1, Grows
  <2>3. s * (n \div s) + s <= s * c
    BY <2>2, <1>1, OneMore
  <2> QED
    BY <2>1, <2>3, <1>1
<1>3. n = c * s => n \div s = c /\ n % s = 0
  BY Multiples
<1> QED
  BY <1>2, <1>3, <1>1



\* The bytes of one of the first q sectors are among the bytes of these.
LEMMA Places ==
  ASSUME NEW s \in Nat \ {0}, NEW q \in Nat, NEW i \in 0 .. q - 1, NEW b \in 1 .. s
  PROVE  i * s + b \in Nat /\ i * s + b \in 1 .. s * q
<1>1. s * (i + 1) <= s * q
  BY Grows
<1>2. PICK x \in Nat, y \in Nat : x = s * i /\ y = s * q
  OBVIOUS
<1>3. x + s <= y
  BY <1>1, <1>2, OneMore
<1>4. i * s = x
  BY <1>2
<1> QED
  BY <1>2, <1>3, <1>4

\* A number keeps its range when one of its digits is replaced.
LEMMA ReplaceDigit ==
  ASSUME NEW radix \in Nat \ {0}, NEW w \in Nat \ {0}, NEW all \in Nat \ {0},
         all % (radix * w) = 0,
         NEW n \in 0 .. all - 1, NEW digit \in 0 .. radix - 1
  PROVE  n + (digit - ((n \div w) % radix)) * w \in 0 .. all - 1
<1>1. PICK a \in Nat, b \in 0 .. w - 1 : a = n \div w /\ b = n % w /\ n = w * a + b
  BY Parts
<1>2. PICK q \in Nat, c \in 0 .. radix - 1 : q = a \div radix /\ c = a % radix /\ a = radix * q + c
  BY Parts
<1>3. PICK u \in Nat \ {0} : u = radix * w
  OBVIOUS
<1>4. PICK m \in Nat, rest \in 0 .. u - 1 : m = all \div u /\ rest = all % u /\ all = u * m + rest
  BY Parts
<1>13. all = u * m
  BY <1>3, <1>4
<1>5. PICK x \in Nat : x = w * c
  OBVIOUS
<1>6. PICK y \in Nat : y = w * digit
  OBVIOUS
<1>7. n = u * q + x + b
  <2>1. w * (radix * q + c) = (radix * w) * q + w * c
    OBVIOUS
  <2> QED
    BY <2>1, <1>1, <1>2, <1>3, <1>5
<1>8. (digit - c) * w = y - x
  BY <1>5, <1>6
<1>9. u * q + u <= all
  <2>1. q < m
    <3> SUFFICES ASSUME m <= q PROVE FALSE
      OBVIOUS
    <3>1. u * m <= u * q
      BY Grows
    <3> QED
      BY <3>1, <1>7, <1>13
  <2>2. u * (q + 1) <= u * m
    BY <2>1, Grows
  <2> QED
    BY <2>2, <1>13, OneMore
<1>10. y + w <= u
  <2>1. w * (digit + 1) <= w * radix
    BY Grows
  <2>2. w * (digit + 1) = w * digit + w /\ w * radix = radix * w
    OBVIOUS
  <2> QED
    BY <2>1, <2>2, <1>3, <1>6
<1>11. n + (digit - ((n \div w) % radix)) * w = u * q + y + b
  <2>1. n + (digit - c) * w = u * q + y + b
    BY <1>7, <1>8
  <2>2. (n \div w) % radix = c
    BY <1>1, <1>2
  <2> QED
    BY <2>1, <2>2
<1>12. PICK z \in Nat : z = u * q
  OBVIOUS
<1> QED
  BY <1>9, <1>10, <1>11, <1>12

-----------------------------------------------------------------------------
(* Sectors and images.                                                     *)

Lba == Radix ^ Digits

LEMMA Constants ==
  /\ SectorSize \in Nat \ {0} /\ MaxCount \in Nat \ {0} /\ MaxHold \in Nat /\ MaxJobs \in Nat
  /\ Radix \in Nat \ {0} /\ Digits \in Nat \ {0} /\ 0 \in Bytes
  /\ Lba \in Nat \ {0} /\ Lbas = 0 .. Lba - 1
  /\ Images \subseteq Seq(Bytes) /\ Resets \in BOOLEAN
<1>1. 0 \in 0 .. Digits - 1
  BY BlockConstants DEF BlockAssumption
<1> QED
  BY <1>1, BlockConstants, DriverAssumption DEF BlockAssumption, PlacesAssumption, Lba, Lbas

\* The next address is an address.
LEMMA NextLbaType ==
  ASSUME NEW lba \in Lbas
  PROVE  NextLba(lba) \in Lbas
BY Constants DEF NextLba, Lba

LEMMA WriteLbaType ==
  ASSUME NEW d \in Device, NEW k \in 0 .. Digits - 1, NEW digit \in 0 .. Radix - 1
  PROVE  WriteLba(d, k, digit) \in Device
<1>1. PICK w \in Nat \ {0} : w = Radix ^ k /\ Lba % (Radix * w) = 0
  BY BlockConstants DEF PlacesAssumption, Lba
<1>2. d.lba \in 0 .. Lba - 1
  BY Constants DEF Device
<1>3. d.lba + (digit - ((d.lba \div w) % Radix)) * w \in Lbas
  BY <1>1, <1>2, Constants, ReplaceDigit
<1> QED
  BY <1>1, <1>3 DEF WriteLba, Device

\* A sector of an image is a sector.
LEMMA SectorAtType ==
  ASSUME NEW image \in Seq(Bytes), NEW lba \in Lbas
  PROVE  SectorAt(image, lba) \in Sector
<1>1. Start(lba) \in Nat
  BY Constants DEF Start
<1>2. ASSUME NEW i \in 1 .. SectorSize
      PROVE  (IF InRange(image, lba) THEN image[Start(lba) + i] ELSE 0) \in Bytes
  <2>1. InRange(image, lba) => Start(lba) + i \in 1 .. Len(image)
    BY <1>1, Constants DEF InRange
  <2> QED
    BY <2>1, Constants
<1> QED
  BY <1>2 DEF SectorAt, Sector

\* Writing a sector makes an image long enough that holds it, keeps the other
\* bytes, and fills what it adds with zeros.
LEMMA WithSectorIs ==
  ASSUME NEW image \in Seq(Bytes), NEW lba \in Lbas, NEW sector \in Sector
  PROVE  LET new == WithSector(image, lba, sector)
         IN  /\ new \in Seq(Bytes)
             /\ Len(new) = IF Len(image) < Start(lba) + SectorSize THEN Start(lba) + SectorSize
                           ELSE Len(image)
             /\ \A i \in 1 .. Len(new) :
                  new[i] = IF i - Start(lba) \in 1 .. SectorSize THEN sector[i - Start(lba)]
                           ELSE IF i <= Len(image) THEN image[i] ELSE 0
<1> DEFINE n == Len(image) + Minus(Start(lba) + SectorSize, Len(image))
           byte(i) == IF i - Start(lba) \in 1 .. SectorSize THEN sector[i - Start(lba)]
                      ELSE IF i <= Len(image) THEN image[i] ELSE 0
<1>1. Start(lba) \in Nat
  BY Constants DEF Start
<1>2. /\ n \in Nat
      /\ n = IF Len(image) < Start(lba) + SectorSize THEN Start(lba) + SectorSize ELSE Len(image)
  BY <1>1, Constants DEF Minus
<1>3. ASSUME NEW i \in 1 .. n
      PROVE  byte(i) \in Bytes
  BY <1>1, <1>2, Constants DEF Sector
<1>4. WithSector(image, lba, sector) = [i \in 1 .. n |-> byte(i)]
  BY DEF WithSector
<1> HIDE DEF n, byte
<1>5. [i \in 1 .. n |-> byte(i)] \in Seq(Bytes) /\ Len([i \in 1 .. n |-> byte(i)]) = n
  BY <1>2, <1>3, IsASeq
<1> QED
  BY <1>2, <1>4, <1>5 DEF byte

\* The items u .. v of data are one sector.
SectorLong(data, u, v) ==
  u \in Nat \ {0} /\ v \in Nat /\ v <= Len(data) /\ v - u + 1 = SectorSize

\* The sector lba of the image holds the bytes of data from item u on.
HoldsFrom(image, lba, data, u) ==
  /\ InRange(image, lba)
  /\ \A b \in 1 .. SectorSize : image[Start(lba) + b] = data[u + b - 1]

\* A sector that is on the image holds the bytes that are there.
LEMMA SectorIs ==
  ASSUME NEW image, NEW lba, NEW data, data \in Seq(Bytes), NEW u, NEW v,
         SectorLong(data, u, v), HoldsFrom(image, lba, data, u)
  PROVE  SectorAt(image, lba) = SubSeq(data, u, v)
<1> DEFINE f == [b \in 1 .. SectorSize |-> data[u + b - 1]]
           g == SubSeq(data, u, v)
<1>1. SectorAt(image, lba) = f
  BY DEF SectorAt, HoldsFrom
<1>2. /\ u \in Nat \ {0} /\ v \in Nat /\ v <= Len(data) /\ v - u + 1 = SectorSize
      /\ u <= v /\ u \in Int /\ v \in Int /\ SectorSize \in Nat
  BY Constants DEF SectorLong
<1>3. \A k \in u .. v : data[k] \in Bytes
  BY <1>2
<1>4. /\ g \in Seq(Bytes) /\ Len(g) = SectorSize
      /\ \A b \in 1 .. SectorSize : g[b] = data[u + b - 1]
  BY <1>2, <1>3, SubSeqProperties
<1>5. f \in Seq(Bytes) /\ Len(f) = SectorSize /\ \A b \in 1 .. SectorSize : f[b] = data[u + b - 1]
  <2>1. \A b \in 1 .. SectorSize : data[u + b - 1] \in Bytes
    <3> SUFFICES ASSUME NEW b \in 1 .. SectorSize PROVE data[u + b - 1] \in Bytes
      OBVIOUS
    <3>1. u + b - 1 \in u .. v
      BY <1>2
    <3> QED
      BY <1>3, <3>1
  <2> QED
    BY <1>2, <2>1, IsASeq
<1> HIDE DEF f, g
<1>6. f = g
  BY <1>4, <1>5, SeqEqual
<1> QED
  BY <1>1, <1>6 DEF g

-----------------------------------------------------------------------------
(* Every operation gives a device.                                         *)

LEMMA MinusType ==
  ASSUME NEW top \in Nat, NEW a \in 0 .. top, NEW b \in Nat
  PROVE  Minus(a, b) \in 0 .. top
BY DEF Minus

\* The most bytes that a transfer moves.
MaxLeft == MaxCount * SectorSize

LEMMA Fields ==
  ASSUME NEW d \in Device
  PROVE  /\ d.lba \in Lbas /\ d.count \in 1 .. MaxCount /\ d.cmd \in Commands
         /\ d.busy \in BOOLEAN /\ d.drdy \in BOOLEAN /\ d.err \in BOOLEAN
         /\ d.buf \in Sector /\ d.idx \in 0 .. SectorSize /\ d.image \in Seq(Bytes)
         /\ d.backed \in BOOLEAN /\ d.op \in {"none", "READ", "WRITE"}
         /\ d.left \in 0 .. MaxLeft /\ MaxLeft \in Nat
         /\ d.enable \in BOOLEAN /\ d.hold \in 0 .. MaxHold /\ d.held \in 0 .. MaxHold
<1>1. MaxLeft \in Nat
  BY Constants DEF MaxLeft
<1> QED
  BY <1>1 DEF Device, MaxLeft

LEMMA Zeros ==
  /\ 0 \in 0 .. SectorSize /\ 0 \in 0 .. MaxCount * SectorSize /\ 0 \in 0 .. MaxHold
  /\ Blank \in Sector
BY Constants DEF Blank, Sector

LEMMA NewType == New \in Device
<1>1. <<>> \in Seq(Bytes)
  OBVIOUS
<1>2. 0 \in Lbas /\ 1 \in 1 .. MaxCount
  BY Constants
<1> QED
  BY <1>1, <1>2, Zeros DEF New, Device, Commands

LEMMA ReadSectorType ==
  ASSUME NEW d \in Device
  PROVE  ReadSector(d) \in Device
<1>1. SectorAt(d.image, d.lba) \in Sector
  BY SectorAtType DEF Device
<1>2. InRange(d.image, d.lba) \in BOOLEAN
  BY DEF InRange
<1> QED
  BY <1>1, <1>2, Zeros DEF ReadSector, Device

LEMMA HoldType ==
  ASSUME NEW d \in Device
  PROVE  Hold(d) \in Device
BY DEF Hold, Device

\* A sector stored moves the transfer on by one sector.
LEMMA CommitIs ==
  ASSUME NEW d \in Device, NEW failed \in BOOLEAN
  PROVE  /\ Commit(d, failed) \in Device
         /\ Commit(d, failed) =
              [d EXCEPT !.image = WithSector(d.image, d.lba, d.buf), !.err = d.backed /\ failed,
                        !.idx = 0, !.busy = FALSE, !.lba = NextLba(d.lba),
                        !.left = Minus(d.left, SectorSize)]
<1>1. WithSector(d.image, d.lba, d.buf) \in Seq(Bytes)
  BY WithSectorIs DEF Device
<1>2. NextLba(d.lba) \in Lbas
  BY NextLbaType DEF Device
<1>3. Minus(d.left, SectorSize) \in 0 .. MaxCount * SectorSize
  BY Fields, MinusType, Constants DEF MaxLeft
<1>4. Commit(d, failed) =
        [d EXCEPT !.image = WithSector(d.image, d.lba, d.buf), !.err = d.backed /\ failed,
                  !.idx = 0, !.busy = FALSE, !.lba = NextLba(d.lba),
                  !.left = Minus(d.left, SectorSize)]
  BY DEF Commit, WriteSector, Device
<1>5. (d.backed /\ failed) \in BOOLEAN
  OBVIOUS
<1>6. [d EXCEPT !.image = WithSector(d.image, d.lba, d.buf), !.err = d.backed /\ failed,
                !.idx = 0, !.busy = FALSE, !.lba = NextLba(d.lba),
                !.left = Minus(d.left, SectorSize)] \in Device
  BY <1>1, <1>2, <1>3, <1>5, Zeros DEF Device
<1> QED
  BY <1>4, <1>6

LEMMA BeginType ==
  ASSUME NEW d \in Device, NEW op \in {"READ", "WRITE"}
  PROVE  /\ Begin(d, op) \in Device
         /\ Begin(d, op) = [d EXCEPT !.cmd = op, !.op = op, !.left = d.count * SectorSize]
<1>1. d.count * SectorSize \in 0 .. MaxCount * SectorSize
  <2>1. d.count \in 1 .. MaxCount
    BY DEF Device
  <2>2. SectorSize * d.count <= SectorSize * MaxCount
    BY <2>1, Constants, Grows
  <2>3. d.count * SectorSize \in Nat
    BY <2>1, Constants
  <2> QED
    BY <2>1, <2>2, <2>3, Constants
<1> QED
  BY <1>1 DEF Begin, Device, Commands

LEMMA ResetType ==
  ASSUME NEW d \in Device
  PROVE  Reset(d) \in Device
BY Zeros DEF Reset, Device, Commands

LEMMA PreparedType ==
  ASSUME dev \in Device
  PROVE  Prepared \in Device
BY ResetType DEF Prepared

LEMMA SmallTypes ==
  ASSUME NEW d \in Device
  PROVE  /\ AfterReadStatus(d) \in Device
         /\ AfterPoll(d) \in Device
         /\ \A n \in 0 .. MaxCount : WriteCount(d, n) \in Device
<1>1. AfterReadStatus(d) \in Device
  BY DEF AfterReadStatus, Device
<1>2. AfterPoll(d) \in Device
  <2>1. Minus(d.held, 1) \in 0 .. MaxHold
    BY Fields, MinusType, Constants
  <2> QED
    BY <2>1 DEF AfterPoll, Device
<1>3. ASSUME NEW n \in 0 .. MaxCount
      PROVE  WriteCount(d, n) \in Device
  <2>1. (IF n = 0 THEN 1 ELSE n) \in 1 .. MaxCount
    BY Constants
  <2> QED
    BY <2>1 DEF WriteCount, Device
<1> QED
  BY <1>1, <1>2, <1>3

LEMMA AfterReadDataType ==
  ASSUME NEW d \in Device
  PROVE  AfterReadData(d) \in Device
<1> DEFINE moved == [d EXCEPT !.idx = @ + 1, !.left = Minus(@, 1)]
           next  == [moved EXCEPT !.lba = NextLba(@)]
           ended == [moved EXCEPT !.drdy = FALSE, !.op = IF @ = "READ" THEN "none" ELSE @]
<1>1. CASE ~ Readable(d)
  BY <1>1 DEF AfterReadData
<1>2. CASE Readable(d)
  <2>1. moved \in Device
    <3>1. d.idx + 1 \in 0 .. SectorSize
      BY <1>2, Fields, Constants DEF Readable
    <3>2. Minus(d.left, 1) \in 0 .. MaxCount * SectorSize
      BY Fields, MinusType DEF MaxLeft
    <3> QED
      BY <3>1, <3>2 DEF Device
  <2>2. next \in Device
    BY <2>1, NextLbaType DEF Device
  <2>3. ended \in Device
    BY <2>1 DEF Device
  <2> HIDE DEF moved, next, ended
  <2>4. ReadSector(next) \in Device /\ Hold(ended) \in Device
    BY <2>2, <2>3, ReadSectorType, HoldType
  <2>5. AfterReadData(d) \in {moved, ReadSector(next), Hold(ended)}
    BY <1>2 DEF AfterReadData, moved, next, ended
  <2> QED
    BY <2>1, <2>4, <2>5
<1> QED
  BY <1>1, <1>2

LEMMA WriteDataType ==
  ASSUME NEW d \in Device, NEW byte \in Bytes, NEW failed \in BOOLEAN
  PROVE  WriteData(d, byte, failed) \in Device
<1> DEFINE moved  == [d EXCEPT !.buf[d.idx + 1] = byte, !.idx = @ + 1]
           stored == Commit(moved, failed)
<1>1. CASE d.idx >= SectorSize
  BY <1>1 DEF WriteData
<1>2. CASE d.idx < SectorSize
  <2>1. moved \in Device
    <3>1. d.idx + 1 \in 1 .. SectorSize /\ d.idx + 1 \in 0 .. SectorSize
      BY <1>2, Fields, Constants
    <3>2. [d.buf EXCEPT ![d.idx + 1] = byte] \in Sector
      BY <3>1 DEF Device, Sector
    <3> QED
      BY <3>1, <3>2 DEF Device
  <2>2. stored \in Device
    BY <2>1, CommitIs
  <2>3. [stored EXCEPT !.buf = Blank] \in Device /\ [stored EXCEPT !.op = "none"] \in Device
    <3> HIDE DEF stored
    <3> QED
      BY <2>2, Zeros DEF Device
  <2>4. Hold([stored EXCEPT !.op = "none"]) \in Device
    BY <2>3, HoldType
  <2>5. WriteData(d, byte, failed) \in
          {moved, [stored EXCEPT !.buf = Blank], Hold([stored EXCEPT !.op = "none"])}
    <3>1. ~ (d.idx >= SectorSize)
      BY <1>2, Constants DEF Device
    <3> QED
      BY <3>1 DEF WriteData
  <2> QED
    BY <2>1, <2>3, <2>4, <2>5
<1>3. d.idx >= SectorSize \/ d.idx < SectorSize
  BY Constants DEF Device
<1> QED
  BY <1>1, <1>2, <1>3

LEMMA WriteCommandType ==
  ASSUME NEW d \in Device, NEW command \in Commands, NEW failed \in BOOLEAN
  PROVE  WriteCommand(d, command, failed) \in Device
<1> DEFINE begun == [Begin(d, "WRITE") EXCEPT !.busy = TRUE]
<1>1. CASE command = "READ"
  BY <1>1, BeginType, ReadSectorType DEF WriteCommand
<1>2. CASE command = "WRITE"
  <2>1. begun \in Device
    BY BeginType DEF Device
  <2>2. Commit(begun, failed) \in Device
    BY <2>1, CommitIs
  <2>3. [Commit(begun, failed) EXCEPT !.buf = Blank] \in Device
    <3> HIDE DEF begun
    <3> QED
      BY <2>2, Zeros DEF Device
  <2>4. WriteCommand(d, command, failed) \in {begun, [Commit(begun, failed) EXCEPT !.buf = Blank]}
    BY <1>2 DEF WriteCommand
  <2> QED
    BY <2>1, <2>3, <2>4
<1>3. CASE command \in {"NOP", "RESET", "unknown"}
  BY <1>3, ResetType DEF WriteCommand, Device, Commands
<1> QED
  BY <1>1, <1>2, <1>3 DEF Commands

-----------------------------------------------------------------------------
(* What the guest and the device agree on.                                 *)

\* The bytes that a job moves, and the sector that is k sectors into it.
All(j) == j.count * SectorSize
SectorOf(j, k) == (j.lba + k) % Lba

\* The bytes that a READ has answered are those of the disk.
Delivered(image, j) ==
  \A i \in 1 .. Len(j.data) :
    j.data[i] = SectorAt(image, SectorOf(j, (i - 1) \div SectorSize))[((i - 1) % SectorSize) + 1]

\* As long as bytes are to come, the buffer holds the sector that the next one
\* is in, and the index is at its place.
Reading(d, j) ==
  j.kind = "read" =>
    /\ j.count \in 1 .. MaxCount /\ Len(j.data) <= All(j)
    /\ d.drdy <=> Len(j.data) < All(j)
    /\ Len(j.data) < All(j) =>
         /\ d.op = "READ"
         /\ d.idx = Len(j.data) % SectorSize
         /\ d.lba = SectorOf(j, Len(j.data) \div SectorSize)
         /\ d.left = All(j) - Len(j.data)
         /\ d.buf = SectorAt(d.image, d.lba)
    /\ Len(j.data) = All(j) => d.op = "none"
    /\ Delivered(d.image, j)

\* The buffer holds the bytes moved since the last whole sector.
Buffered(d, j) ==
  /\ d.idx <= Len(j.data)
  /\ \A i \in 1 .. d.idx : d.buf[i] = j.data[Len(j.data) - d.idx + i]

\* A sector that is staged is not yet part of a transfer.
Staging(d, j) ==
  j.kind = "stage" =>
    /\ d.op = "none"
    /\ j.count \in 1 .. MaxCount /\ d.count = j.count /\ d.lba = j.lba
    /\ Len(j.data) <= SectorSize /\ d.idx = Len(j.data)
    /\ Buffered(d, j)

\* The first q sectors moved for a WRITE are on the disk, those that later ones of
\* the same WRITE have overwritten excepted.
Landed(image, j, q) ==
  \A i \in 0 .. q - 1 :
    i + Lba >= q =>
      /\ InRange(image, SectorOf(j, i))
      /\ \A b \in 1 .. SectorSize :
           image[Start(SectorOf(j, i)) + b] = j.data[i * SectorSize + b]

Writing(d, j) ==
  j.kind = "write" =>
    /\ j.count \in 1 .. MaxCount /\ Len(j.data) <= All(j)
    /\ d.op # "READ" /\ (Len(j.data) < All(j) => d.op = "WRITE")
    /\ d.idx = Len(j.data) % SectorSize
    /\ d.lba = SectorOf(j, Len(j.data) \div SectorSize)
    /\ d.left = All(j) - (Len(j.data) \div SectorSize) * SectorSize
    /\ Buffered(d, j)
    /\ Landed(d.image, j, Len(j.data) \div SectorSize)

\* Between jobs the device is in no transfer.
Idle(d, j) == j.kind = "none" => d.op = "none" \/ d.left = 0

\* There is no job before the first one.
Started == jobs = 0 => job.kind = "none"

ReadInv  == TypeOK /\ Started /\ Reading(dev, job)
WriteInv == ReadInv /\ Staging(dev, job) /\ Writing(dev, job) /\ Idle(dev, job)

-----------------------------------------------------------------------------
(* Jobs.                                                                   *)

LEMMA JobFields ==
  ASSUME NEW j \in Job
  PROVE  /\ j.kind \in {"none", "read", "write", "stage"}
         /\ j.lba \in Lbas /\ j.lba \in Nat /\ j.count \in 0 .. MaxCount /\ j.count \in Nat
         /\ j.data \in Seq(Bytes) /\ Len(j.data) \in Nat
         /\ All(j) \in Nat
<1>1. /\ j.kind \in {"none", "read", "write", "stage"}
      /\ j.lba \in Lbas /\ j.count \in 0 .. MaxCount
      /\ j.data \in Seq(Bytes)
  BY DEF Job
<1>2. j.lba \in Nat /\ j.count \in Nat
  BY <1>1, Constants
<1>3. j.count * SectorSize \in Nat
  BY <1>2, Constants
<1> QED
  BY <1>1, <1>2, <1>3 DEF All

LEMMA JobParts ==
  ASSUME NEW j \in Job
  PROVE  \E n \in Nat, q \in Nat, r \in 0 .. SectorSize - 1 :
           /\ n = Len(j.data) /\ q = n \div SectorSize /\ r = n % SectorSize
           /\ n = SectorSize * q + r
<1>1. PICK n \in Nat : n = Len(j.data)
  BY JobFields
<1>2. PICK q \in Nat, r \in 0 .. SectorSize - 1 :
        q = n \div SectorSize /\ r = n % SectorSize /\ n = SectorSize * q + r
  BY Constants, Parts
<1> QED
  BY <1>1, <1>2, Zenon

LEMMA ModNext ==
  ASSUME NEW a \in Nat, NEW s \in Nat \ {0}
  PROVE  ((a % s) + 1) % s = (a + 1) % s
<1>1. PICK r \in 0 .. s - 1 : r = a % s
  BY DivMod
<1>2. CASE r + 1 < s
  <2>1. PICK m \in 0 .. s - 1 : m = r + 1
    BY <1>2
  <2>2. m = s * 0 + m /\ m \in Nat /\ 0 \in Nat
    BY <2>1
  <2>3. m % s = m
    BY <2>2, IsDivMod
  <2> QED
    BY <1>1, <1>2, <2>1, <2>3, NextByte
<1>3. CASE r + 1 = s
  <2>1. (a + 1) % s = 0
    BY <1>1, <1>3, NextByte
  <2>2. s = s * 1 + 0 /\ 1 \in Nat /\ s \in Nat /\ 0 \in 0 .. s - 1
    OBVIOUS
  <2>3. s % s = 0
    BY <2>2, IsDivMod
  <2> QED
    BY <1>1, <1>3, <2>1, <2>3
<1> QED
  BY <1>1, <1>2, <1>3

\* Two numbers that differ by less than s have different remainders.
LEMMA ModDiffers ==
  ASSUME NEW s \in Nat \ {0}, NEW a \in Nat, NEW b \in Nat, a < b, b - a < s
  PROVE  a % s # b % s
<1>1. PICK p \in Nat, r \in 0 .. s - 1 : p = a \div s /\ r = a % s /\ a = s * p + r
  BY Parts
<1>2. PICK q \in Nat, t \in 0 .. s - 1 : q = b \div s /\ t = b % s /\ b = s * q + t
  BY Parts
<1>3. SUFFICES ASSUME r = t PROVE FALSE
  BY <1>1, <1>2
<1>4. CASE q <= p
  <2>1. s * q <= s * p
    BY <1>4, Grows
  <2> QED
    BY <1>1, <1>2, <1>3, <2>1
<1>5. CASE p + 1 <= q
  <2>1. s * (p + 1) <= s * q
    BY <1>5, Grows
  <2>2. s * (p + 1) = s * p + s
    BY OneMore
  <2> QED
    BY <1>1, <1>2, <1>3, <2>1, <2>2
<1> QED
  BY <1>4, <1>5

LEMMA Sectors ==
  ASSUME NEW j \in Job, NEW k \in Nat
  PROVE  /\ SectorOf(j, k) \in Lbas
         /\ NextLba(SectorOf(j, k)) = SectorOf(j, k + 1)
         /\ SectorOf(j, 0) = j.lba
         /\ \A i \in Nat : i < k /\ k - i < Lba => SectorOf(j, i) # SectorOf(j, k)
<1>1. j.lba \in Nat /\ j.lba \in 0 .. Lba - 1
  BY JobFields, Constants
<1>2. PICK a \in Nat : a = j.lba + k
  BY <1>1
<1>3. SectorOf(j, k) \in Lbas
  <2>1. a % Lba \in 0 .. Lba - 1
    BY Constants, DivMod
  <2> QED
    BY <1>2, <2>1, Constants DEF SectorOf
<1>4. NextLba(SectorOf(j, k)) = SectorOf(j, k + 1)
  <2>1. ((a % Lba) + 1) % Lba = (a + 1) % Lba
    BY Constants, ModNext
  <2>2. j.lba + (k + 1) = a + 1
    BY <1>1, <1>2
  <2> QED
    BY <1>2, <2>1, <2>2 DEF SectorOf, NextLba, Lba
<1>5. SectorOf(j, 0) = j.lba
  <2>1. PICK x \in 0 .. Lba - 1 : x = j.lba
    BY <1>1
  <2>2. x = Lba * 0 + x /\ 0 \in Nat /\ x \in Nat
    BY Constants
  <2>3. x % Lba = x
    BY <2>2, Constants, IsDivMod
  <2>4. j.lba + 0 = x
    BY <2>1
  <2> QED
    BY <2>1, <2>3, <2>4 DEF SectorOf
<1>6. ASSUME NEW i \in Nat, i < k, k - i < Lba
      PROVE  SectorOf(j, i) # SectorOf(j, k)
  <2>1. PICK b \in Nat : b = j.lba + i
    BY <1>1
  <2>2. b < a /\ a - b < Lba
    BY <1>1, <1>2, <1>6, <2>1
  <2>3. b % Lba # a % Lba
    BY <2>2, Constants, ModDiffers
  <2> QED
    BY <1>2, <2>1, <2>3 DEF SectorOf
<1> QED
  BY <1>3, <1>4, <1>5, <1>6

\* A byte is appended to what a job has moved.
LEMMA MovedByte ==
  ASSUME NEW j \in Job, NEW byte \in Bytes
  PROVE  LET new == [j EXCEPT !.data = Append(@, byte)]
         IN  /\ new \in Job
             /\ new.kind = j.kind /\ new.lba = j.lba /\ new.count = j.count
             /\ All(new) = All(j)
             /\ \A k \in Nat : SectorOf(new, k) = SectorOf(j, k)
             /\ Len(new.data) = Len(j.data) + 1
             /\ \A i \in 1 .. Len(j.data) : new.data[i] = j.data[i]
             /\ new.data[Len(j.data) + 1] = byte
<1>1. /\ j.data \in Seq(Bytes)
      /\ Append(j.data, byte) \in Seq(Bytes)
      /\ Len(Append(j.data, byte)) = Len(j.data) + 1
      /\ \A i \in 1 .. Len(j.data) : Append(j.data, byte)[i] = j.data[i]
      /\ Append(j.data, byte)[Len(j.data) + 1] = byte
  BY JobFields, AppendProperties
<1>2. [j EXCEPT !.data = Append(@, byte)] \in Job
  BY <1>1 DEF Job
<1>3. LET new == [j EXCEPT !.data = Append(@, byte)]
      IN  /\ new.kind = j.kind /\ new.lba = j.lba /\ new.count = j.count
          /\ new.data = Append(j.data, byte)
  BY DEF Job
<1> QED
  BY <1>1, <1>2, <1>3 DEF All, SectorOf

-----------------------------------------------------------------------------
(* READ.                                                                   *)

\* What Reading asks while bytes are to come, and when none are.
LEMMA ReadingOn ==
  ASSUME NEW e \in Device, NEW j \in Job, j.count \in 1 .. MaxCount,
         NEW n \in Nat, NEW all \in Nat, n = Len(j.data), all = All(j), n < all,
         NEW q \in Nat, NEW r \in Nat, q = n \div SectorSize, r = n % SectorSize,
         e.drdy, e.op = "READ", e.idx = r, e.lba = SectorOf(j, q), e.left = all - n,
         e.buf = SectorAt(e.image, SectorOf(j, q)), Delivered(e.image, j)
  PROVE  Reading(e, j)
<1>1. Len(j.data) <= All(j) /\ Len(j.data) # All(j)
  OBVIOUS
<1>2. e.lba = SectorOf(j, Len(j.data) \div SectorSize) /\ e.idx = Len(j.data) % SectorSize
  BY Zenon
<1> QED
  BY <1>1, <1>2 DEF Reading

LEMMA ReadingOver ==
  ASSUME NEW e \in Device, NEW j \in Job, j.count \in 1 .. MaxCount, Len(j.data) = All(j),
         ~ e.drdy, e.op = "none", Delivered(e.image, j)
  PROVE  Reading(e, j)
<1>1. Len(j.data) \in Nat /\ All(j) \in Nat
  BY JobFields
<1>2. Len(j.data) <= All(j) /\ ~ (Len(j.data) < All(j))
  BY <1>1
<1> QED
  BY <1>2 DEF Reading

\* The command loads the first sector.
LEMMA StartReadKeeps ==
  ASSUME NEW d \in Device, NEW j \in Job, j.lba = d.lba, j.count = d.count, j.data = <<>>,
         j.kind = "read"
  PROVE  Reading(WriteCommand(d, "READ", FALSE), j)
<1> DEFINE begun == Begin(d, "READ")
           e == WriteCommand(d, "READ", FALSE)
<1>1. /\ begun \in Device
      /\ begun.lba = d.lba /\ begun.image = d.image /\ begun.op = "READ"
      /\ begun.left = d.count * SectorSize
  <2>1. begun \in Device /\ begun = [d EXCEPT !.cmd = "READ", !.op = "READ", !.left = d.count * SectorSize]
    BY BeginType
  <2> HIDE DEF begun
  <2> QED
    BY <2>1 DEF Device
<1>2. e = ReadSector(begun)
  BY DEF WriteCommand
<1> HIDE DEF begun, e
<1>3. /\ e.drdy /\ e.op = "READ" /\ e.idx = 0 /\ e.lba = d.lba /\ e.image = d.image
      /\ e.left = d.count * SectorSize
      /\ e.buf = SectorAt(d.image, d.lba)
  BY <1>1, <1>2 DEF ReadSector, Device
<1>4. Len(j.data) = 0 /\ j.count \in 1 .. MaxCount /\ All(j) = d.count * SectorSize
  BY Fields DEF All
<1>5. All(j) \in Nat /\ SectorSize <= All(j)
  <2>1. SectorSize * 1 <= SectorSize * j.count
    BY <1>4, Constants, Grows
  <2>2. All(j) \in Nat /\ All(j) = SectorSize * j.count
    BY JobFields, Constants DEF All
  <2> QED
    BY <2>1, <2>2, Constants
<1>6. 0 % SectorSize = 0 /\ 0 \div SectorSize = 0
  <2>1. 0 = SectorSize * 0 + 0 /\ 0 \in 0 .. SectorSize - 1 /\ 0 \in Nat
    BY Constants
  <2> QED
    BY <2>1, Constants, IsDivMod
<1>7. SectorOf(j, 0) = d.lba
  BY Sectors
<1>8. Delivered(e.image, j)
  BY <1>4 DEF Delivered
<1>9. e \in Device
  BY <1>1, <1>2, ReadSectorType
<1>10. Reading(e, j)
  <2>1. PICK all \in Nat, n \in Nat : all = All(j) /\ n = 0
    BY <1>5
  <2>2. n < all /\ all - n = d.count * SectorSize
    BY <1>4, <1>5, <2>1, Constants
  <2> QED
    BY <1>3, <1>4, <1>6, <1>7, <1>8, <1>9, <2>1, <2>2, ReadingOn
<1> QED
  BY <1>10 DEF e

\* A byte read is the next one, and what is left is as before one byte further on.
LEMMA ReadByteKeeps ==
  ASSUME NEW d \in Device, NEW j \in Job, j.kind = "read", d.drdy, Reading(d, j)
  PROVE  /\ Data(d) \in Bytes
         /\ Reading(AfterReadData(d), [j EXCEPT !.data = Append(@, Data(d))])
<1> DEFINE new == [j EXCEPT !.data = Append(@, Data(d))]
           e == AfterReadData(d)
           moved == [d EXCEPT !.idx = @ + 1, !.left = Minus(@, 1)]
<1>1. PICK n \in Nat, all \in Nat :
        /\ n = Len(j.data) /\ all = All(j) /\ n < all
        /\ d.op = "READ" /\ d.idx = n % SectorSize
        /\ d.lba = SectorOf(j, n \div SectorSize)
        /\ d.left = all - n /\ d.buf = SectorAt(d.image, d.lba)
        /\ j.count \in 1 .. MaxCount
        /\ Delivered(d.image, j)
  BY JobFields DEF Reading
<1>2. PICK q \in Nat, r \in 0 .. SectorSize - 1 :
        /\ q = n \div SectorSize /\ r = n % SectorSize
        /\ n = SectorSize * q + r
  BY Constants, Parts
<1>12. d.idx = r /\ d.lba = SectorOf(j, q)
  BY <1>1, <1>2, Zenon
<1>13. d.left = all - n /\ n < all /\ d.op = "READ" /\ d.buf = SectorAt(d.image, d.lba)
       /\ d.drdy /\ j.count \in 1 .. MaxCount
  BY <1>1
<1>3. Readable(d)
  BY <1>12, <1>13, Constants DEF Readable
<1>4. Data(d) = SectorAt(d.image, SectorOf(j, q))[r + 1] /\ Data(d) \in Bytes
  <2>1. r + 1 \in 1 .. SectorSize
    BY Constants
  <2>2. d.buf[r + 1] \in Bytes
    BY <2>1, Fields DEF Sector
  <2> QED
    BY <1>3, <1>12, <1>13, <2>2 DEF Data
<1>5. /\ new \in Job /\ new.kind = "read" /\ new.count = j.count /\ All(new) = all
      /\ \A k \in Nat : SectorOf(new, k) = SectorOf(j, k)
      /\ Len(new.data) = n + 1
      /\ \A i \in 1 .. n : new.data[i] = j.data[i]
      /\ new.data[n + 1] = Data(d)
  <2>1. /\ new \in Job
        /\ new.kind = j.kind /\ new.lba = j.lba /\ new.count = j.count
        /\ All(new) = All(j)
        /\ \A k \in Nat : SectorOf(new, k) = SectorOf(j, k)
        /\ Len(new.data) = Len(j.data) + 1
        /\ \A i \in 1 .. Len(j.data) : new.data[i] = j.data[i]
        /\ new.data[Len(j.data) + 1] = Data(d)
    BY <1>4, MovedByte, Zenon
  <2>2. n = Len(j.data) /\ all = All(j)
    BY <1>1
  <2> QED
    BY <2>1, <2>2, Zenon
<1>6. /\ moved.idx = r + 1 /\ moved.left = all - (n + 1) /\ moved.drdy /\ moved.op = "READ"
      /\ moved.image = d.image /\ moved.buf = d.buf /\ moved.lba = d.lba /\ moved \in Device
  <2>1. Minus(d.left, 1) = all - (n + 1)
    BY <1>13 DEF Minus
  <2>2. Minus(d.left, 1) \in 0 .. MaxCount * SectorSize
    BY Fields, MinusType DEF MaxLeft
  <2>3. d.idx + 1 \in 0 .. SectorSize
    BY <1>12, Constants
  <2>4. moved \in Device
    BY <2>2, <2>3 DEF Device
  <2> QED
    BY <1>12, <1>13, <2>1, <2>4 DEF Device
<1> HIDE DEF new, moved, e
<1>7. Delivered(d.image, new)
  <2> SUFFICES ASSUME NEW i \in 1 .. n + 1
               PROVE  new.data[i] = SectorAt(d.image, SectorOf(new, (i - 1) \div SectorSize))
                                      [((i - 1) % SectorSize) + 1]
    BY <1>5 DEF Delivered
  <2>1. CASE i = n + 1
    <3>1. i - 1 = n /\ SectorOf(new, q) = SectorOf(j, q)
      BY <1>2, <1>5, <2>1
    <3> QED
      BY <1>2, <1>4, <1>5, <2>1, <3>1
  <2>2. CASE i \in 1 .. n
    <3>1. i - 1 \in Nat
      OBVIOUS
    <3>2. (i - 1) \div SectorSize \in Nat
      BY <3>1, Constants, DivMod
    <3>3. PICK k \in Nat : k = (i - 1) \div SectorSize
      BY <3>2
    <3>4. new.data[i] = SectorAt(d.image, SectorOf(j, k))[((i - 1) % SectorSize) + 1]
      BY <1>1, <1>5, <2>2, <3>3 DEF Delivered
    <3> QED
      BY <1>5, <3>3, <3>4
  <2> QED
    BY <2>1, <2>2
<1>10. e \in Device
  BY AfterReadDataType DEF e
<1>8. ASSUME r + 1 < SectorSize
      PROVE  Reading(e, new)
  <2>1. e = moved
    BY <1>3, <1>6, <1>8, Constants DEF AfterReadData, e, moved
  <2>2. (n + 1) \div SectorSize = q /\ (n + 1) % SectorSize = r + 1
    BY <1>2, <1>8, Constants, NextByte
  <2>3. n + 1 < all
    <3>1. n + (SectorSize - r) <= all
      BY <1>1, <1>2, JobFields, Constants, Before DEF All
    <3> QED
      BY <3>1, <1>8, Constants
  <2> QED
    <3>1. /\ e.drdy /\ e.op = "READ" /\ e.idx = r + 1 /\ e.left = all - (n + 1)
          /\ e.image = d.image /\ new.count \in 1 .. MaxCount
      BY <1>5, <1>6, <1>13, <2>1
    <3>2. SectorOf(new, q) = SectorOf(j, q)
      BY <1>5
    <3>3. e.lba = SectorOf(new, q) /\ e.buf = SectorAt(d.image, SectorOf(new, q))
      BY <1>6, <1>12, <1>13, <2>1, <3>2
    <3>4. PICK m \in Nat, t \in Nat : m = n + 1 /\ t = r + 1
      OBVIOUS
    <3> QED
      BY <1>5, <1>7, <1>10, <2>2, <2>3, <3>1, <3>3, <3>4, ReadingOn
<1>9. ASSUME r + 1 = SectorSize
      PROVE  Reading(e, new)
  <2>1. (n + 1) \div SectorSize = q + 1 /\ (n + 1) % SectorSize = 0
    BY <1>2, <1>9, Constants, NextByte
  <2>2. CASE n + 1 < all
    <3> DEFINE next == [moved EXCEPT !.lba = NextLba(@)]
    <3>1. e = ReadSector(next)
      BY <1>3, <1>6, <1>9, <1>1, <2>2, Constants DEF AfterReadData, e, moved
    <3>2. NextLba(d.lba) = SectorOf(j, q + 1)
      BY <1>12, Sectors
    <3>3. /\ next.lba = SectorOf(j, q + 1) /\ next.image = d.image /\ next.op = "READ"
          /\ next.left = all - (n + 1) /\ next \in Device
      <4>1. NextLba(d.lba) \in Lbas
        BY NextLbaType, Fields
      <4> QED
        BY <1>6, <3>2, <4>1 DEF Device
    <3> HIDE DEF next
    <3>4. /\ e.drdy /\ e.op = "READ" /\ e.idx = 0 /\ e.lba = SectorOf(j, q + 1)
          /\ e.image = d.image /\ e.left = all - (n + 1)
          /\ e.buf = SectorAt(d.image, SectorOf(j, q + 1))
      BY <3>1, <3>3 DEF ReadSector, Device
    <3>5. SectorOf(new, q + 1) = SectorOf(j, q + 1)
      BY <1>5
    <3>6. PICK m \in Nat, p \in Nat : m = n + 1 /\ p = q + 1
      OBVIOUS
    <3> QED
      BY <1>5, <1>7, <1>10, <1>13, <2>1, <2>2, <3>4, <3>5, <3>6, ReadingOn
  <2>3. CASE n + 1 = all
    <3> DEFINE ended == [moved EXCEPT !.drdy = FALSE, !.op = IF @ = "READ" THEN "none" ELSE @]
    <3>1. e = Hold(ended)
      BY <1>3, <1>6, <1>9, <1>1, <2>3, Constants DEF AfterReadData, e, moved
    <3>2. ended.drdy = FALSE /\ ended.op = "none" /\ ended.image = d.image /\ ended \in Device
      BY <1>6 DEF Device
    <3> HIDE DEF ended
    <3>3. e.drdy = FALSE /\ e.op = "none" /\ e.image = d.image
      BY <3>1, <3>2 DEF Hold, Device
    <3> QED
      BY <1>1, <1>5, <1>7, <1>10, <2>3, <3>3, ReadingOver
  <2> QED
    BY <1>1, <2>2, <2>3
<1>11. Reading(e, new)
  BY <1>8, <1>9, Constants
<1> QED
  BY <1>4, <1>11 DEF e, new

\* What does not touch the transfer does not disturb it.
LEMMA SameReading ==
  ASSUME NEW d \in Device, NEW e \in Device, NEW j \in Job, Reading(d, j),
         e.drdy = d.drdy, e.op = d.op, e.idx = d.idx, e.lba = d.lba, e.left = d.left,
         e.buf = d.buf, e.image = d.image
  PROVE  Reading(e, j)
BY DEF Reading

-----------------------------------------------------------------------------
(* Every step keeps the types.                                             *)

LEMMA DataType ==
  ASSUME NEW d \in Device
  PROVE  Data(d) \in Bytes
<1>1. Readable(d) => d.buf[d.idx + 1] \in Bytes
  <2>1. Readable(d) => d.idx + 1 \in 1 .. SectorSize
    BY Fields, Constants DEF Readable
  <2> QED
    BY <2>1, Fields DEF Sector
<1> QED
  BY <1>1, Constants DEF Data

LEMMA NoJobType == NoJob \in Job
<1>1. <<>> \in Seq(Bytes)
  OBVIOUS
<1> QED
  BY <1>1, Constants DEF NoJob, Job

LEMMA NewJob ==
  ASSUME TypeOK, NEW kind \in {"read", "write", "stage"}, NEW d \in Device, StartJob(kind, d)
  PROVE  /\ TypeOK'
         /\ job'.kind = kind /\ job'.lba = dev.lba /\ job'.count = dev.count
         /\ job'.data = <<>> /\ dev' = d /\ jobs' # 0
<1>1. dev.lba \in Lbas /\ dev.count \in 1 .. MaxCount /\ dev.count \in 0 .. MaxCount
  BY Fields DEF TypeOK
<1>2. <<>> \in Seq(Bytes)
  OBVIOUS
<1>3. job' = [kind |-> kind, lba |-> dev.lba, count |-> dev.count, data |-> <<>>]
  BY DEF StartJob
<1>4. job' \in Job
  BY <1>1, <1>2, <1>3 DEF Job
<1>5. jobs' \in 0 .. MaxJobs /\ jobs' # 0
  BY Constants DEF StartJob, TypeOK
<1> QED
  BY <1>3, <1>4, <1>5 DEF TypeOK, StartJob

LEMMA TypeStep ==
  ASSUME TypeOK, [Next]_vars
  PROVE  TypeOK'
<1>1. dev \in Device /\ job \in Job /\ jobs \in 0 .. MaxJobs
  BY DEF TypeOK
<1>2. CASE SetRegisters
  BY <1>1, <1>2, SmallTypes, WriteLbaType DEF SetRegisters, TypeOK
<1>3. CASE StartRead
  BY <1>1, <1>3, NewJob, WriteCommandType DEF StartRead, Commands
<1>4. CASE StartWrite
  BY <1>1, <1>4, NewJob, PreparedType, WriteCommandType DEF StartWrite, Commands
<1>5. CASE StartStage
  BY <1>1, <1>5, NewJob, PreparedType DEF StartStage
<1>6. CASE ReadByte
  BY <1>1, <1>6, DataType, MovedByte, AfterReadDataType DEF ReadByte, Moved, TypeOK
<1>7. CASE WriteByte
  <2>1. PICK byte \in Bytes, failed \in BOOLEAN :
          job' = [job EXCEPT !.data = Append(@, byte)] /\ dev' = WriteData(dev, byte, failed)
    BY <1>7 DEF WriteByte, Moved
  <2>2. job' \in Job
    BY <1>1, <2>1, MovedByte
  <2>3. dev' \in Device
    BY <1>1, <2>1, WriteDataType
  <2> QED
    BY <1>1, <1>7, <2>2, <2>3 DEF WriteByte, TypeOK
<1>8. CASE StageByte
  BY <1>1, <1>8, MovedByte, WriteDataType DEF StageByte, Moved, TypeOK
<1>9. CASE WriteStaged
  <2>1. [job EXCEPT !.kind = "write"] \in Job
    BY <1>1 DEF Job
  <2> QED
    BY <1>1, <1>9, <2>1, WriteCommandType DEF WriteStaged, TypeOK, Commands
<1>10. CASE EndJob
  BY <1>1, <1>10, NoJobType DEF EndJob, TypeOK
<1>11. CASE ReadStatus
  BY <1>1, <1>11, SmallTypes DEF ReadStatus, TypeOK
<1>12. CASE GiveReset
  BY <1>1, <1>12, ResetType, NoJobType DEF GiveReset, TypeOK
<1>13. CASE GiveOther
  BY <1>1, <1>13, WriteCommandType DEF GiveOther, TypeOK, Commands
<1>14. CASE Poll
  BY <1>1, <1>14, SmallTypes DEF Poll, TypeOK
<1>15. CASE Insert
  <2>1. PICK image \in Images, backed \in BOOLEAN :
          dev' = [dev EXCEPT !.image = image, !.backed = backed]
    BY <1>15 DEF Insert
  <2>2. image \in Seq(Bytes)
    BY Constants
  <2>3. dev' \in Device
    BY <1>1, <2>1, <2>2 DEF Device
  <2> QED
    BY <1>1, <1>15, <2>3 DEF Insert, TypeOK
<1>16. CASE SetInterrupt
  <2>1. dev' \in Device
    BY <1>1, <1>16 DEF SetInterrupt, Device
  <2> QED
    BY <1>1, <1>16, <2>1 DEF SetInterrupt, TypeOK
<1>17. CASE UNCHANGED vars
  BY <1>17 DEF TypeOK, vars
<1> QED
  BY <1>2, <1>3, <1>4, <1>5, <1>6, <1>7, <1>8, <1>9, <1>10, <1>11, <1>12, <1>13, <1>14, <1>15,
     <1>16, <1>17 DEF Next

\* A job makes the count of jobs positive, and it never falls.
LEMMA StartedStep ==
  ASSUME TypeOK, Started, [Next]_vars
  PROVE  Started'
<1>1. jobs \in Nat
  BY DEF TypeOK
<1>2. CASE StartRead \/ StartWrite \/ StartStage
  <2>1. jobs' = jobs + 1
    BY <1>2, Zenon DEF StartRead, StartWrite, StartStage, StartJob
  <2> QED
    BY <1>1, <2>1 DEF Started
<1>3. CASE EndJob \/ GiveReset
  BY <1>3 DEF EndJob, GiveReset, Started, NoJob
<1>4. CASE ReadByte \/ WriteByte \/ StageByte \/ WriteStaged
  BY <1>4 DEF ReadByte, WriteByte, StageByte, WriteStaged, Started
<1>5. CASE SetRegisters \/ ReadStatus \/ GiveOther \/ Poll \/ Insert \/ SetInterrupt
             \/ UNCHANGED vars
  BY <1>5 DEF SetRegisters, ReadStatus, GiveOther, Poll, Insert, SetInterrupt, vars, Started
<1> QED
  BY <1>2, <1>3, <1>4, <1>5 DEF Next

-----------------------------------------------------------------------------
(* Reads.                                                                  *)

LEMMA ReadInvInit == Init => ReadInv
<1>1. Init => TypeOK
  BY NewType, NoJobType, Constants DEF Init, TypeOK
<1> QED
  BY <1>1 DEF Init, ReadInv, Started, Reading, NoJob

\* Only a READ changes what Reading speaks of while one is under way.
LEMMA ReadStep ==
  ASSUME ReadInv, [Next]_vars
  PROVE  ReadInv'
<1>1. TypeOK /\ Started /\ Reading(dev, job) /\ dev \in Device /\ job \in Job
  BY DEF ReadInv, TypeOK
<1>2. TypeOK' /\ Started' /\ dev' \in Device /\ job' \in Job
  BY <1>1, TypeStep, StartedStep DEF TypeOK
<1>3. ASSUME job.kind # "read", job' = job \/ job' = NoJob \/ job'.kind # "read"
      PROVE  Reading(dev', job')
  BY <1>3 DEF Reading, NoJob
<1>4. ASSUME job' = job, dev'.drdy = dev.drdy, dev'.op = dev.op, dev'.idx = dev.idx,
             dev'.lba = dev.lba, dev'.left = dev.left, dev'.buf = dev.buf,
             dev'.image = dev.image
      PROVE  Reading(dev', job')
  BY <1>1, <1>2, <1>4, SameReading
<1>5. Reading(dev', job')
  <2>1. CASE StartRead
    <3>1. /\ job'.lba = dev.lba /\ job'.count = dev.count /\ job'.data = <<>>
          /\ job'.kind = "read" /\ dev' = WriteCommand(dev, "READ", FALSE)
      BY <1>1, <2>1, NewJob, WriteCommandType DEF StartRead, Commands
    <3> QED
      BY <1>1, <1>2, <3>1, StartReadKeeps
  <2>2. CASE ReadByte
    BY <1>1, <2>2, ReadByteKeeps DEF ReadByte, Moved
  <2>3. CASE ReadStatus
    BY <1>1, <1>4, <2>3 DEF ReadStatus, AfterReadStatus, Device
  <2>4. CASE Poll
    BY <1>1, <1>4, <2>4 DEF Poll, AfterPoll, Device
  <2>5. CASE SetInterrupt
    BY <1>1, <1>4, <2>5 DEF SetInterrupt, Device
  <2>6. CASE UNCHANGED vars
    BY <1>1, <2>6 DEF vars
  <2>7. CASE EndJob \/ GiveReset
    BY <2>7 DEF EndJob, GiveReset, NoJob, Reading
  <2>8. CASE StartWrite \/ StartStage
    BY <2>8 DEF StartWrite, StartStage, StartJob, Reading
  <2>9. CASE SetRegisters \/ GiveOther
    BY <1>3, <2>9 DEF SetRegisters, GiveOther
  <2>10. CASE Insert
    BY <1>1, <1>3, <2>10 DEF Insert, SettingUp, Started
  <2>11. CASE WriteByte \/ StageByte
    <3>1. job.kind # "read" /\ \E byte \in Bytes : job' = [job EXCEPT !.data = Append(@, byte)]
      BY <2>11 DEF WriteByte, StageByte, Moved
    <3> QED
      BY <1>1, <1>3, <3>1, MovedByte
  <2>12. CASE WriteStaged
    BY <1>1, <2>12 DEF WriteStaged, Reading, Job
  <2> QED
    BY <2>1, <2>2, <2>3, <2>4, <2>5, <2>6, <2>7, <2>8, <2>9, <2>10, <2>11, <2>12 DEF Next
<1> QED
  BY <1>2, <1>5 DEF ReadInv

LEMMA ReadInvAlways == Spec => []ReadInv
<1>1. ReadInv /\ [Next]_vars => ReadInv'
  BY ReadStep
<1> QED
  BY <1>1, ReadInvInit, PTL DEF Spec

\* The registers of the device, the guest's job and the count of jobs keep their
\* ranges for every size of sectors, transfers and addresses: LBA0 to LBA3 and
\* the increment after a sector never leave the address space, and the index
\* never leaves the buffer.
THEOREM TypeCorrect == Spec => []TypeOK
<1>1. ReadInv => TypeOK
  BY DEF ReadInv
<1> QED
  BY <1>1, ReadInvAlways, PTL

\* Whatever the guest, the CPU and the host do in between, a READ answers the bytes
\* of the sectors asked for, in order, and DRDY tells how many.
THEOREM ReadDeliversCorrect == Spec => []ReadDelivers
<1>1. ReadInv => ReadDelivers
  BY DEF ReadInv, Reading, Delivered, ReadDelivers, SectorOf, JobLba, Lba, All
<1> QED
  BY <1>1, ReadInvAlways, PTL

-----------------------------------------------------------------------------
(* WRITE.                                                                  *)

\* What touches neither the transfer nor SECCNT does not disturb it.
LEMMA SameWriting ==
  ASSUME NEW d \in Device, NEW e \in Device, NEW j \in Job,
         Staging(d, j), Writing(d, j), Idle(d, j),
         e.count = d.count, e.op = d.op, e.idx = d.idx, e.lba = d.lba, e.left = d.left,
         e.buf = d.buf, e.image = d.image
  PROVE  Staging(e, j) /\ Writing(e, j) /\ Idle(e, j)
BY DEF Staging, Writing, Idle, Buffered

\* A byte put into the buffer is the last one moved.
LEMMA BufferByte ==
  ASSUME NEW d \in Device, NEW j \in Job, Buffered(d, j), d.idx < SectorSize,
         NEW byte \in Bytes, NEW e \in Device, e.idx = d.idx + 1,
         e.buf = [d.buf EXCEPT ![d.idx + 1] = byte]
  PROVE  Buffered(e, [j EXCEPT !.data = Append(@, byte)])
<1> DEFINE new == [j EXCEPT !.data = Append(@, byte)]
<1>1. PICK n \in Nat, x \in 0 .. SectorSize - 1 :
        n = Len(j.data) /\ x = d.idx /\ x <= n
  BY JobFields, Fields, Constants DEF Buffered
<1>2. /\ Len(new.data) = n + 1
      /\ \A i \in 1 .. n : new.data[i] = j.data[i]
      /\ new.data[n + 1] = byte
  BY <1>1, MovedByte
<1>3. e.idx = x + 1 /\ x + 1 <= n + 1
  BY <1>1
<1> HIDE DEF new
<1>4. ASSUME NEW i \in 1 .. x + 1
      PROVE  e.buf[i] = new.data[(n + 1) - (x + 1) + i]
  <2>1. i \in 1 .. SectorSize
    BY <1>1, Constants
  <2>5. (n + 1) - (x + 1) + i = n - x + i
    BY <1>1
  <2>2. DOMAIN d.buf = 1 .. SectorSize
    BY Fields DEF Sector
  <2>3. CASE i = x + 1
    <3>1. e.buf[i] = byte
      BY <1>1, <2>1, <2>2, <2>3
    <3>2. (n + 1) - (x + 1) + i = n + 1
      BY <2>3
    <3> QED
      BY <1>2, <3>1, <3>2
  <2>4. CASE i \in 1 .. x
    <3>1. e.buf[i] = d.buf[i]
      BY <1>1, <2>1, <2>2, <2>4
    <3>2. d.buf[i] = j.data[n - x + i]
      BY <1>1, <2>4 DEF Buffered
    <3>3. PICK p \in 1 .. n : p = n - x + i
      BY <1>1, <2>4
    <3> QED
      BY <1>2, <2>5, <3>1, <3>2, <3>3
  <2> QED
    BY <2>3, <2>4
<1>5. Buffered(e, new)
  BY <1>2, <1>3, <1>4 DEF Buffered
<1> QED
  BY <1>5 DEF new

\* Sectors of different addresses have no byte in common.
LEMMA Disjoint ==
  ASSUME NEW a \in Lbas, NEW b \in Lbas, a # b, NEW i \in 1 .. SectorSize
  PROVE  Start(a) + i - Start(b) \notin 1 .. SectorSize
<1>1. PICK s \in Nat \ {0} : s = SectorSize
  BY Constants
<1>2. a \in Nat /\ b \in Nat
  BY Constants
<1>3. PICK x \in Nat, y \in Nat : x = s * a /\ y = s * b
  BY <1>1, <1>2
<1>4. Start(a) = x /\ Start(b) = y
  BY <1>1, <1>2, <1>3 DEF Start
<1>5. CASE a + 1 <= b
  <2>1. s * (a + 1) <= s * b
    BY <1>2, <1>5, Grows
  <2>2. x + s <= y
    BY <1>2, <1>3, <2>1, OneMore
  <2> QED
    BY <1>1, <1>4, <2>2
<1>6. CASE b + 1 <= a
  <2>1. s * (b + 1) <= s * a
    BY <1>2, <1>6, Grows
  <2>2. y + s <= x
    BY <1>2, <1>3, <2>1, OneMore
  <2> QED
    BY <1>1, <1>4, <2>2
<1> QED
  BY <1>2, <1>5, <1>6

\* A sector stored is on the disk, and the sectors at other addresses stay on it.
LEMMA Stored ==
  ASSUME NEW image \in Seq(Bytes), NEW lba \in Lbas, NEW sector \in Sector
  PROVE  LET new == WithSector(image, lba, sector)
         IN  /\ InRange(new, lba)
             /\ \A b \in 1 .. SectorSize : new[Start(lba) + b] = sector[b]
             /\ \A other \in Lbas : other # lba /\ InRange(image, other) =>
                  /\ InRange(new, other)
                  /\ \A b \in 1 .. SectorSize : new[Start(other) + b] = image[Start(other) + b]
<1> DEFINE new == WithSector(image, lba, sector)
<1>1. /\ new \in Seq(Bytes) /\ Len(new) \in Nat /\ Len(image) \in Nat
      /\ Len(new) = IF Len(image) < Start(lba) + SectorSize THEN Start(lba) + SectorSize
                    ELSE Len(image)
      /\ \A i \in 1 .. Len(new) :
           new[i] = IF i - Start(lba) \in 1 .. SectorSize THEN sector[i - Start(lba)]
                    ELSE IF i <= Len(image) THEN image[i] ELSE 0
  BY WithSectorIs
<1> HIDE DEF new
<1>2. Start(lba) \in Nat /\ SectorSize \in Nat \ {0}
  BY Constants DEF Start
<1>3. Start(lba) + SectorSize <= Len(new) /\ Len(image) <= Len(new)
  BY <1>1, <1>2
<1>4. InRange(new, lba)
  BY <1>3 DEF InRange
<1>5. ASSUME NEW b \in 1 .. SectorSize
      PROVE  new[Start(lba) + b] = sector[b]
  <2>1. PICK i \in 1 .. Len(new) : i = Start(lba) + b
    BY <1>1, <1>2, <1>3
  <2>2. i - Start(lba) = b
    BY <1>2, <2>1
  <2> QED
    BY <1>1, <2>1, <2>2
<1>6. ASSUME NEW other \in Lbas, other # lba, InRange(image, other)
      PROVE  /\ InRange(new, other)
             /\ \A b \in 1 .. SectorSize : new[Start(other) + b] = image[Start(other) + b]
  <2>1. Start(other) \in Nat /\ Start(other) + SectorSize <= Len(image)
    BY <1>6, Constants DEF Start, InRange
  <2>2. InRange(new, other)
    BY <1>1, <1>2, <1>3, <2>1 DEF InRange
  <2>3. ASSUME NEW b \in 1 .. SectorSize
        PROVE  new[Start(other) + b] = image[Start(other) + b]
    <3>1. PICK o \in Nat, size \in Nat, old \in Nat, all \in Nat :
            /\ o = Start(other) /\ size = SectorSize /\ old = Len(image) /\ all = Len(new)
            /\ b \in 1 .. size /\ o + size <= old /\ old <= all
      BY <1>1, <1>2, <1>3, <2>1
    <3>2. PICK i \in 1 .. all : i = o + b /\ i <= old
      BY <3>1
    <3>4. new[i] = image[i]
      <4>1. i \in 1 .. Len(new) /\ i <= Len(image) /\ i - Start(lba) \notin 1 .. SectorSize
        <5>1. Start(other) + b - Start(lba) \notin 1 .. SectorSize
          BY <1>6, Disjoint
        <5> QED
          BY <1>2, <3>1, <3>2, <5>1
      <4> QED
        BY <1>1, <4>1
    <3> QED
      BY <3>1, <3>2, <3>4
  <2> QED
    BY <2>2, <2>3
<1> QED
  BY <1>4, <1>5, <1>6 DEF new

\* What a job has moved stays on the disk as the job moves another byte.
LEMMA LandedByte ==
  ASSUME NEW image, NEW j \in Job, NEW q \in Nat, Landed(image, j, q), NEW byte \in Bytes,
         SectorSize * q <= Len(j.data)
  PROVE  Landed(image, [j EXCEPT !.data = Append(@, byte)], q)
<1> DEFINE new == [j EXCEPT !.data = Append(@, byte)]
<1>1. PICK n \in Nat, s \in Nat \ {0}, m \in Nat :
        n = Len(j.data) /\ s = SectorSize /\ m = s * q /\ m <= n
  BY JobFields, Constants
<1>2. /\ \A i \in 1 .. n : new.data[i] = j.data[i]
      /\ \A k \in Nat : SectorOf(new, k) = SectorOf(j, k)
  BY <1>1, MovedByte
<1> HIDE DEF new
<1>3. ASSUME NEW i \in 0 .. q - 1, i + Lba >= q
      PROVE  /\ InRange(image, SectorOf(new, i))
             /\ \A b \in 1 .. SectorSize :
                  image[Start(SectorOf(new, i)) + b] = new.data[i * SectorSize + b]
  <2>1. SectorOf(new, i) = SectorOf(j, i)
    BY <1>2
  <2>2. /\ InRange(image, SectorOf(j, i))
        /\ \A b \in 1 .. SectorSize :
             image[Start(SectorOf(j, i)) + b] = j.data[i * SectorSize + b]
    BY <1>3 DEF Landed
  <2>3. ASSUME NEW b \in 1 .. SectorSize
        PROVE  new.data[i * SectorSize + b] = j.data[i * SectorSize + b]
    <3>1. PICK p \in Nat : p = i * SectorSize + b /\ p \in 1 .. m
      BY <1>1, Places
    <3>2. p \in 1 .. n
      BY <1>1, <3>1
    <3> QED
      BY <1>2, <3>1, <3>2
  <2> QED
    BY <2>1, <2>2, <2>3
<1>4. Landed(image, new, q)
  BY <1>3 DEF Landed
<1> QED
  BY <1>4 DEF new

\* The next sector that is stored lands and leaves the earlier ones there.
LEMMA LandedSector ==
  ASSUME NEW image \in Seq(Bytes), NEW j \in Job, NEW q \in Nat, Landed(image, j, q),
         NEW sector \in Sector,
         \A b \in 1 .. SectorSize : sector[b] = j.data[q * SectorSize + b]
  PROVE  Landed(WithSector(image, SectorOf(j, q), sector), j, q + 1)
<1> DEFINE new == WithSector(image, SectorOf(j, q), sector)
<1>1. SectorOf(j, q) \in Lbas
  BY Sectors
<1>2. /\ InRange(new, SectorOf(j, q))
      /\ \A b \in 1 .. SectorSize : new[Start(SectorOf(j, q)) + b] = sector[b]
      /\ \A other \in Lbas : other # SectorOf(j, q) /\ InRange(image, other) =>
           /\ InRange(new, other)
           /\ \A b \in 1 .. SectorSize : new[Start(other) + b] = image[Start(other) + b]
  BY <1>1, Stored
<1> HIDE DEF new
<1>3. ASSUME NEW i \in 0 .. (q + 1) - 1, i + Lba >= q + 1
      PROVE  /\ InRange(new, SectorOf(j, i))
             /\ \A b \in 1 .. SectorSize :
                  new[Start(SectorOf(j, i)) + b] = j.data[i * SectorSize + b]
  <2>1. CASE i = q
    BY <1>2, <2>1
  <2>2. CASE i \in 0 .. q - 1
    <3>1. i + Lba >= q /\ i < q /\ q - i < Lba /\ i \in Nat
      BY <1>3, <2>2, Constants
    <3>2. SectorOf(j, i) \in Lbas /\ SectorOf(j, i) # SectorOf(j, q)
      BY <3>1, Sectors
    <3>3. /\ InRange(image, SectorOf(j, i))
          /\ \A b \in 1 .. SectorSize :
               image[Start(SectorOf(j, i)) + b] = j.data[i * SectorSize + b]
      BY <2>2, <3>1 DEF Landed
    <3> QED
      BY <1>2, <3>2, <3>3
  <2> QED
    BY <2>1, <2>2
<1>4. Landed(new, j, q + 1)
  BY <1>3 DEF Landed
<1> QED
  BY <1>4 DEF new

\* What Writing asks.
LEMMA WritingOn ==
  ASSUME NEW e \in Device, NEW j \in Job, j.count \in 1 .. MaxCount,
         NEW n \in Nat, NEW all \in Nat, n = Len(j.data), all = All(j), n <= all,
         NEW q \in Nat, NEW r \in Nat, q = n \div SectorSize, r = n % SectorSize,
         e.op # "READ", n < all => e.op = "WRITE",
         e.idx = r, e.lba = SectorOf(j, q), e.left = all - q * SectorSize,
         Buffered(e, j), Landed(e.image, j, q)
  PROVE  Writing(e, j)
<1>1. Len(j.data) <= All(j) /\ (Len(j.data) < All(j) => e.op = "WRITE")
  OBVIOUS
<1>2. /\ e.idx = Len(j.data) % SectorSize
      /\ e.lba = SectorOf(j, Len(j.data) \div SectorSize)
      /\ Landed(e.image, j, Len(j.data) \div SectorSize)
      /\ e.left = All(j) - (Len(j.data) \div SectorSize) * SectorSize
  BY Zenon
<1> QED
  BY <1>1, <1>2 DEF Writing

\* The facts about a job that is a write, with names for its numbers.
LEMMA WritingIs ==
  ASSUME NEW d \in Device, NEW j \in Job, j.kind = "write", Writing(d, j)
  PROVE  \E n \in Nat, all \in Nat, q \in Nat, r \in 0 .. SectorSize - 1 :
           /\ n = Len(j.data) /\ all = All(j) /\ n <= all
           /\ q = n \div SectorSize /\ r = n % SectorSize /\ n = SectorSize * q + r
           /\ d.op # "READ" /\ (n < all => d.op = "WRITE")
           /\ d.idx = r /\ d.lba = SectorOf(j, q) /\ d.left = all - q * SectorSize
           /\ Buffered(d, j) /\ Landed(d.image, j, q)
           /\ j.count \in 1 .. MaxCount
<1>1. PICK n \in Nat, q \in Nat, r \in 0 .. SectorSize - 1 :
        n = Len(j.data) /\ q = n \div SectorSize /\ r = n % SectorSize
        /\ n = SectorSize * q + r
  BY JobParts
<1>2. PICK all \in Nat : all = All(j)
  BY JobFields
<1>3. /\ d.idx = Len(j.data) % SectorSize
      /\ d.lba = SectorOf(j, Len(j.data) \div SectorSize)
      /\ Landed(d.image, j, Len(j.data) \div SectorSize)
      /\ d.left = All(j) - (Len(j.data) \div SectorSize) * SectorSize
      /\ d.op # "READ" /\ (Len(j.data) < All(j) => d.op = "WRITE")
      /\ Len(j.data) <= All(j) /\ Buffered(d, j) /\ j.count \in 1 .. MaxCount
  BY DEF Writing
<1>4. /\ n <= all /\ d.op # "READ" /\ (n < all => d.op = "WRITE")
      /\ d.idx = r /\ d.lba = SectorOf(j, q) /\ d.left = all - q * SectorSize
      /\ Buffered(d, j) /\ Landed(d.image, j, q)
      /\ j.count \in 1 .. MaxCount
  BY <1>1, <1>2, <1>3, Zenon
<1> QED
  BY <1>1, <1>2, <1>4, Zenon

\* After the reset the device starts at the first byte of the first sector.
LEMMA StartWriteKeeps ==
  ASSUME NEW d \in Device, NEW j \in Job, j.lba = d.lba, j.count = d.count, j.data = <<>>,
         d.idx = 0, NEW failed \in BOOLEAN
  PROVE  Writing(WriteCommand(d, "WRITE", failed), j)
<1> DEFINE begun == Begin(d, "WRITE")
           e == WriteCommand(d, "WRITE", failed)
<1>1. /\ begun \in Device
      /\ begun.lba = d.lba /\ begun.image = d.image /\ begun.op = "WRITE" /\ begun.idx = 0
      /\ begun.left = d.count * SectorSize
  <2>1. begun \in Device /\ begun = [d EXCEPT !.cmd = "WRITE", !.op = "WRITE", !.left = d.count * SectorSize]
    BY BeginType
  <2> HIDE DEF begun
  <2> QED
    BY <2>1 DEF Device
<1>2. e = [begun EXCEPT !.busy = TRUE]
  BY Constants DEF WriteCommand
<1>3. e \in Device
  BY WriteCommandType DEF Commands
<1> HIDE DEF begun, e
<1>4. /\ e.op = "WRITE" /\ e.idx = 0 /\ e.lba = d.lba /\ e.image = d.image
      /\ e.left = d.count * SectorSize
  BY <1>1, <1>2 DEF Device
<1>5. Len(j.data) = 0 /\ j.count \in 1 .. MaxCount /\ All(j) = d.count * SectorSize
  BY Fields DEF All
<1>6. 0 % SectorSize = 0 /\ 0 \div SectorSize = 0 /\ 0 * SectorSize = 0
  <2>1. 0 = SectorSize * 0 + 0 /\ 0 \in 0 .. SectorSize - 1 /\ 0 \in Nat
    BY Constants
  <2> QED
    BY <2>1, Constants, IsDivMod
<1>7. SectorOf(j, 0) = d.lba
  BY Sectors
<1>8. Landed(e.image, j, 0) /\ Buffered(e, j)
  BY <1>4, <1>5 DEF Landed, Buffered
<1>9. PICK all \in Nat, n \in Nat : all = All(j) /\ n = 0
  BY JobFields
<1>10. n <= all /\ all - 0 * SectorSize = d.count * SectorSize
  BY <1>5, <1>6, <1>9
<1>11. Writing(e, j)
  BY <1>3, <1>4, <1>5, <1>6, <1>7, <1>8, <1>9, <1>10, WritingOn
<1> QED
  BY <1>11 DEF e

\* A byte written is put into the buffer; the last one of a sector stores it.
LEMMA WriteByteKeeps ==
  ASSUME NEW d \in Device, NEW j \in Job, j.kind = "write", Len(j.data) < All(j),
         Writing(d, j), NEW byte \in Bytes, NEW failed \in BOOLEAN
  PROVE  Writing(WriteData(d, byte, failed), [j EXCEPT !.data = Append(@, byte)])
<1> DEFINE new == [j EXCEPT !.data = Append(@, byte)]
           e == WriteData(d, byte, failed)
           moved == [d EXCEPT !.buf[d.idx + 1] = byte, !.idx = @ + 1]
           stored == Commit(moved, failed)
<1>1. PICK n \in Nat, all \in Nat, q \in Nat, r \in 0 .. SectorSize - 1 :
        /\ n = Len(j.data) /\ all = All(j) /\ n <= all
        /\ q = n \div SectorSize /\ r = n % SectorSize /\ n = SectorSize * q + r
        /\ d.op # "READ" /\ (n < all => d.op = "WRITE")
        /\ d.idx = r /\ d.lba = SectorOf(j, q) /\ d.left = all - q * SectorSize
        /\ Buffered(d, j) /\ Landed(d.image, j, q)
        /\ j.count \in 1 .. MaxCount
  BY WritingIs
<1>2. n < all /\ d.op = "WRITE" /\ d.idx = r /\ d.lba = SectorOf(j, q)
  BY <1>1
<1>13. /\ n = Len(j.data) /\ all = All(j) /\ j.count \in 1 .. MaxCount
       /\ Buffered(d, j) /\ Landed(d.image, j, q)
  BY <1>1
<1>14. q = n \div SectorSize /\ r = n % SectorSize
  BY <1>1
<1>15. PICK x \in Nat, s \in Nat \ {0} :
         /\ s = SectorSize /\ x = s * q /\ x = q * SectorSize /\ x = SectorSize * q
         /\ n = x + r
         /\ d.left = all - x
  <2>1. PICK s \in Nat \ {0}, x \in Nat : s = SectorSize /\ x = s * q /\ x = q * s
    BY Constants
  <2>2. n = SectorSize * q + r /\ d.left = all - q * SectorSize
    BY <1>1
  <2>3. n = x + r /\ d.left = all - x
    BY <2>1, <2>2, Zenon
  <2> QED
    BY <2>1, <2>3, Zenon
<1>3. /\ new \in Job /\ new.count = j.count /\ All(new) = all
      /\ \A k \in Nat : SectorOf(new, k) = SectorOf(j, k)
      /\ Len(new.data) = n + 1
  BY <1>13, MovedByte
<1>4. /\ moved \in Device /\ moved.idx = r + 1 /\ moved.op = "WRITE" /\ moved.left = d.left
      /\ moved.image = d.image /\ moved.lba = d.lba
      /\ moved.buf = [d.buf EXCEPT ![d.idx + 1] = byte]
  <2>1. d.idx + 1 \in 1 .. SectorSize /\ d.idx + 1 \in 0 .. SectorSize
    BY <1>2, Constants
  <2>2. [d.buf EXCEPT ![d.idx + 1] = byte] \in Sector
    BY <2>1, Fields DEF Sector
  <2>3. moved \in Device
    BY <2>1, <2>2 DEF Device
  <2> QED
    BY <1>2, <2>3 DEF Device
<1>5. ~ (d.idx >= SectorSize)
  BY <1>2, Constants
<1>6. e \in Device
  BY WriteDataType
<1>7. Buffered(moved, new)
  <2>1. d.idx < SectorSize /\ moved.idx = d.idx + 1 /\ Buffered(d, j)
    BY <1>2, <1>4, <1>13, Constants
  <2> HIDE DEF moved
  <2> QED
    BY <1>4, <2>1, BufferByte
<1>8. Landed(d.image, new, q)
  <2>1. SectorSize * q <= Len(j.data)
    BY <1>13, <1>15
  <2> QED
    BY <1>13, <2>1, LandedByte
<1> HIDE DEF new, moved
<1>9. PICK m \in Nat, p \in Nat : m = n + 1 /\ p = q + 1 /\ m <= all
  BY <1>2
<1>10. ASSUME r + 1 < SectorSize
       PROVE  Writing(e, new)
  <2>1. e = moved
    BY <1>4, <1>5, <1>10, Constants DEF WriteData, moved
  <2>2. m \div SectorSize = q /\ m % SectorSize = r + 1
    BY <1>9, <1>10, <1>14, Constants, NextByte
  <2>3. SectorOf(new, q) = SectorOf(j, q) /\ e.left = all - q * SectorSize /\ e.image = d.image
    BY <1>3, <1>4, <1>15, <2>1
  <2>4. PICK t \in Nat : t = r + 1
    OBVIOUS
  <2> HIDE DEF e
  <2>5. /\ new.count \in 1 .. MaxCount /\ m = Len(new.data) /\ all = All(new)
        /\ e.op = "WRITE" /\ e.idx = t /\ e.lba = SectorOf(new, q)
        /\ q = m \div SectorSize /\ t = m % SectorSize
        /\ Buffered(e, new) /\ Landed(e.image, new, q)
    BY <1>2, <1>3, <1>4, <1>7, <1>8, <1>9, <1>13, <2>1, <2>2, <2>3, <2>4
  <2> QED
    BY <1>3, <1>6, <1>9, <2>3, <2>5, WritingOn
<1>11. ASSUME r + 1 = SectorSize
       PROVE  Writing(e, new)
  <2>1. m \div SectorSize = p /\ m % SectorSize = 0
    BY <1>9, <1>11, <1>14, Constants, NextByte
  <2>2. PICK y \in Nat : y = p * SectorSize /\ y = x + s /\ m = y
    <3>1. PICK y \in Nat : y = p * s /\ y = s * p
      BY <1>15
    <3>2. y = x + s
      BY <1>9, <1>15, <3>1, OneMore
    <3>3. m = y
      BY <1>9, <1>11, <1>15, <3>2
    <3> QED
      BY <1>15, <3>1, <3>2, <3>3
  <2>3. Minus(moved.left, SectorSize) = all - y
    <3>1. moved.left = all - x
      BY <1>4, <1>15
    <3> QED
      BY <1>9, <1>15, <2>2, <3>1 DEF Minus
  <2>4. NextLba(d.lba) = SectorOf(new, p)
    <3>1. NextLba(d.lba) = SectorOf(j, q + 1)
      BY <1>2, Sectors
    <3> QED
      BY <1>3, <1>9, <3>1
  <2>5. /\ stored \in Device /\ stored.op = "WRITE" /\ stored.idx = 0
        /\ stored.lba = SectorOf(new, p) /\ stored.left = all - y
        /\ stored.image = WithSector(d.image, d.lba, moved.buf)
    <3>1. /\ stored \in Device
          /\ stored = [moved EXCEPT !.image = WithSector(moved.image, moved.lba, moved.buf),
                          !.err = moved.backed /\ failed, !.idx = 0, !.busy = FALSE,
                          !.lba = NextLba(moved.lba), !.left = Minus(moved.left, SectorSize)]
      BY <1>4, CommitIs
    <3> HIDE DEF stored
    <3> QED
      BY <1>4, <2>3, <2>4, <3>1 DEF Device
  <2>6. Landed(WithSector(d.image, d.lba, moved.buf), new, p)
    <3>1. \A b \in 1 .. SectorSize : moved.buf[b] = new.data[q * SectorSize + b]
      <4>1. moved.idx = SectorSize /\ Len(new.data) - moved.idx = x
        BY <1>3, <1>4, <1>9, <1>11, <1>15, <2>2
      <4> QED
        BY <1>7, <1>15, <4>1 DEF Buffered
    <3>2. moved.buf \in Sector /\ d.image \in Seq(Bytes)
      BY <1>4, Fields
    <3>3. d.lba = SectorOf(new, q)
      BY <1>2, <1>3
    <3> QED
      BY <1>3, <1>8, <1>9, <3>1, <3>2, <3>3, LandedSector
  <2>7. /\ e \in {[stored EXCEPT !.buf = Blank], Hold([stored EXCEPT !.op = "none"])}
        /\ stored.left > 0 => e = [stored EXCEPT !.buf = Blank]
    <3>1. ~ (moved.idx < SectorSize \/ d.op # "WRITE")
      BY <1>2, <1>4, <1>11, Constants
    <3> QED
      BY <1>5, <3>1 DEF WriteData, moved
  <2> HIDE DEF e, stored
  <2>8. /\ e.idx = 0 /\ e.lba = SectorOf(new, p) /\ e.left = all - y
        /\ e.image = WithSector(d.image, d.lba, moved.buf)
        /\ e.op \in {"none", "WRITE"}
    BY <2>5, <2>7 DEF Hold, Device
  <2>9. m < all => e.op = "WRITE"
    <3>1. m < all => stored.left > 0
      BY <1>9, <2>2, <2>5
    <3> QED
      BY <2>5, <2>7, <3>1 DEF Device
  <2>10. Buffered(e, new)
    BY <1>3, <2>8 DEF Buffered
  <2>11. /\ new.count \in 1 .. MaxCount /\ m = Len(new.data) /\ all = All(new)
         /\ e.op # "READ" /\ e.left = all - p * SectorSize
         /\ p = m \div SectorSize /\ 0 = m % SectorSize
         /\ Landed(e.image, new, p)
    BY <1>3, <1>9, <1>13, <2>1, <2>2, <2>6, <2>8
  <2> QED
    BY <1>3, <1>6, <1>9, <2>8, <2>9, <2>10, <2>11, WritingOn
<1>12. Writing(e, new)
  BY <1>10, <1>11, Constants
<1> QED
  BY <1>12 DEF e, new

\* A byte staged is only put into the buffer.
LEMMA StageByteKeeps ==
  ASSUME NEW d \in Device, NEW j \in Job, j.kind = "stage", Len(j.data) < SectorSize,
         Staging(d, j), NEW byte \in Bytes
  PROVE  Staging(WriteData(d, byte, FALSE), [j EXCEPT !.data = Append(@, byte)])
<1> DEFINE new == [j EXCEPT !.data = Append(@, byte)]
           e == WriteData(d, byte, FALSE)
           moved == [d EXCEPT !.buf[d.idx + 1] = byte, !.idx = @ + 1]
<1>1. /\ d.op = "none" /\ j.count \in 1 .. MaxCount /\ d.count = j.count /\ d.lba = j.lba
      /\ d.idx = Len(j.data) /\ Buffered(d, j) /\ d.idx < SectorSize
  BY DEF Staging
<1>2. /\ moved.idx = d.idx + 1 /\ moved.op = "none" /\ moved.count = d.count
      /\ moved.lba = d.lba /\ moved.buf = [d.buf EXCEPT ![d.idx + 1] = byte]
      /\ moved \in Device
  <2>1. d.idx + 1 \in 1 .. SectorSize /\ d.idx + 1 \in 0 .. SectorSize
    BY <1>1, Fields, Constants
  <2>2. [d.buf EXCEPT ![d.idx + 1] = byte] \in Sector
    BY <2>1, Fields DEF Sector
  <2>3. moved \in Device
    BY <2>1, <2>2 DEF Device
  <2> QED
    BY <1>1, <2>3 DEF Device
<1>3. e = moved
  <2>1. ~ (d.idx >= SectorSize)
    BY <1>1, Fields, Constants
  <2> QED
    BY <1>1, <2>1 DEF WriteData
<1>4. /\ new \in Job /\ new.lba = j.lba /\ new.count = j.count
      /\ Len(new.data) = Len(j.data) + 1
  BY MovedByte
<1> HIDE DEF moved, e
<1>5. Buffered(e, new)
  BY <1>1, <1>2, <1>3, BufferByte
<1>6. Len(new.data) <= SectorSize
  BY <1>4, JobFields, Constants
<1> HIDE DEF new
<1>7. Staging(e, new)
  BY <1>1, <1>2, <1>3, <1>4, <1>5, <1>6 DEF Staging
<1> QED
  BY <1>7 DEF e, new

\* The sector staged is the first one of the WRITE, stored by the command.
LEMMA WriteStagedKeeps ==
  ASSUME NEW d \in Device, NEW j \in Job, j.kind = "stage", Len(j.data) = SectorSize,
         Staging(d, j), NEW failed \in BOOLEAN
  PROVE  Writing(WriteCommand(d, "WRITE", failed), [j EXCEPT !.kind = "write"])
<1> DEFINE new == [j EXCEPT !.kind = "write"]
           e == WriteCommand(d, "WRITE", failed)
           begun == Begin(d, "WRITE")
           busy == [begun EXCEPT !.busy = TRUE]
           stored == Commit(busy, failed)
<1>1. /\ d.op = "none" /\ j.count \in 1 .. MaxCount /\ d.count = j.count /\ d.lba = j.lba
      /\ d.idx = SectorSize /\ Buffered(d, j)
  BY DEF Staging
<1>2. /\ new \in Job /\ new.lba = j.lba /\ new.count = j.count /\ new.data = j.data
      /\ All(new) = All(j)
  BY DEF Job, All
<1>3. /\ begun \in Device
      /\ begun.lba = d.lba /\ begun.image = d.image /\ begun.op = "WRITE" /\ begun.buf = d.buf
      /\ begun.left = d.count * SectorSize
  <2>1. begun \in Device /\ begun = [d EXCEPT !.cmd = "WRITE", !.op = "WRITE", !.left = d.count * SectorSize]
    BY BeginType
  <2> HIDE DEF begun
  <2> QED
    BY <2>1 DEF Device
<1>4. e = [stored EXCEPT !.buf = Blank]
  <2>1. ~ (d.idx < SectorSize)
    BY <1>1, Constants
  <2> QED
    BY <2>1 DEF WriteCommand
<1>5. e \in Device
  BY WriteCommandType DEF Commands
<1> HIDE DEF begun, e, new
<1>6. /\ busy \in Device /\ busy.lba = d.lba /\ busy.image = d.image /\ busy.op = "WRITE"
      /\ busy.buf = d.buf /\ busy.left = d.count * SectorSize
  BY <1>3 DEF Device
<1> HIDE DEF busy
<1>7. PICK all \in Nat, s \in Nat \ {0} :
        all = All(j) /\ s = SectorSize /\ all = d.count * SectorSize /\ s <= all
  <2>4. PICK s \in Nat \ {0}, c \in Nat \ {0} : s = SectorSize /\ c = j.count
    BY <1>1, Constants
  <2>1. PICK all \in Nat : all = s * c /\ all = c * s
    OBVIOUS
  <2>2. s * 1 <= s * c
    BY Grows
  <2>3. all = All(j) /\ all = d.count * SectorSize
    BY <1>1, <2>1, <2>4 DEF All
  <2> QED
    BY <2>1, <2>2, <2>3, <2>4
<1>8. /\ stored \in Device /\ stored.op = "WRITE" /\ stored.idx = 0
      /\ stored.lba = NextLba(d.lba) /\ stored.left = all - s
      /\ stored.image = WithSector(d.image, d.lba, d.buf)
  <2>1. /\ stored \in Device
        /\ stored = [busy EXCEPT !.image = WithSector(busy.image, busy.lba, busy.buf),
                        !.err = busy.backed /\ failed, !.idx = 0, !.busy = FALSE,
                        !.lba = NextLba(busy.lba), !.left = Minus(busy.left, SectorSize)]
    BY <1>6, CommitIs
  <2>2. Minus(busy.left, SectorSize) = all - s
    BY <1>6, <1>7 DEF Minus
  <2> HIDE DEF stored
  <2> QED
    BY <1>6, <2>1, <2>2 DEF Device
<1> HIDE DEF stored
<1>9. /\ e.op = "WRITE" /\ e.idx = 0 /\ e.lba = NextLba(d.lba) /\ e.left = all - s
      /\ e.image = WithSector(d.image, d.lba, d.buf)
  BY <1>4, <1>8 DEF Device
<1>10. d.lba = SectorOf(new, 0) /\ NextLba(d.lba) = SectorOf(new, 1)
  <2>1. SectorOf(new, 0) = new.lba /\ NextLba(SectorOf(new, 0)) = SectorOf(new, 0 + 1)
    BY <1>2, Sectors
  <2> QED
    BY <1>1, <1>2, <2>1
<1>11. Landed(e.image, new, 1)
  <2>1. Landed(d.image, new, 0)
    BY DEF Landed
  <2>2. \A b \in 1 .. SectorSize : d.buf[b] = new.data[0 * SectorSize + b]
    <3>1. 0 * SectorSize = 0 /\ Len(j.data) - d.idx = 0
      BY <1>1, <1>7
    <3> QED
      BY <1>1, <1>2, <3>1 DEF Buffered
  <2>3. d.image \in Seq(Bytes) /\ d.buf \in Sector
    BY Fields
  <2>4. Landed(WithSector(d.image, SectorOf(new, 0), d.buf), new, 0 + 1)
    BY <1>2, <2>1, <2>2, <2>3, LandedSector
  <2> QED
    BY <1>9, <1>10, <2>4
<1>12. 1 = SectorSize \div SectorSize /\ 0 = SectorSize % SectorSize /\ 1 * SectorSize = s
  <2>1. s = s * 1 + 0 /\ 1 \in Nat /\ s \in Nat /\ 0 \in 0 .. s - 1
    OBVIOUS
  <2> QED
    BY <1>7, <2>1, IsDivMod
<1>13. Buffered(e, new)
  BY <1>2, <1>9, Constants DEF Buffered
<1>14. /\ new.count \in 1 .. MaxCount /\ s = Len(new.data) /\ all = All(new)
       /\ 1 = s \div SectorSize /\ 0 = s % SectorSize /\ e.left = all - 1 * SectorSize
       /\ e.lba = SectorOf(new, 1)
  BY <1>1, <1>2, <1>7, <1>9, <1>10, <1>12
<1>15. Writing(e, new)
  BY <1>2, <1>5, <1>7, <1>9, <1>11, <1>13, <1>14, WritingOn
<1> QED
  BY <1>15 DEF e, new

LEMMA WriteInvInit == Init => WriteInv
<1>1. Init => dev.op = "none" /\ job.kind = "none"
  BY DEF Init, New, NoJob
<1> QED
  BY <1>1, ReadInvInit DEF WriteInv, Staging, Writing, Idle

\* With a reset before every write the device never finds bytes in its buffer
\* that the guest has not put there for it.
LEMMA WriteStep ==
  ASSUME Resets, WriteInv, [Next]_vars
  PROVE  WriteInv'
<1>1. /\ TypeOK /\ Started /\ Reading(dev, job) /\ dev \in Device /\ job \in Job
      /\ Staging(dev, job) /\ Writing(dev, job) /\ Idle(dev, job)
  BY DEF WriteInv, ReadInv, TypeOK
<1>2. ReadInv' /\ dev' \in Device /\ job' \in Job
  BY ReadStep DEF WriteInv, ReadInv, TypeOK
<1> DEFINE Kept == Staging(dev', job') /\ Writing(dev', job') /\ Idle(dev', job')
<1>3. ASSUME job' = job, dev'.count = dev.count, dev'.op = dev.op, dev'.idx = dev.idx,
             dev'.lba = dev.lba, dev'.left = dev.left, dev'.buf = dev.buf,
             dev'.image = dev.image
      PROVE  Kept
  BY <1>1, <1>2, <1>3, SameWriting
<1>4. ASSUME job.kind = "none", job' = job, dev'.op = dev.op, dev'.left = dev.left
      PROVE  Kept
  BY <1>1, <1>4 DEF Staging, Writing, Idle
<1>5. Prepared = Reset(dev) /\ Reset(dev) \in Device
  BY <1>1, ResetType DEF Prepared
<1>6. /\ Reset(dev).op = "none" /\ Reset(dev).idx = 0 /\ Reset(dev).lba = dev.lba
      /\ Reset(dev).count = dev.count
  BY <1>1 DEF Reset, Device
<1>7. Kept
  <2>1. CASE SetRegisters
    BY <1>1, <1>4, <2>1 DEF SetRegisters, WriteCount, WriteLba, Device
  <2>2. CASE StartRead
    BY <2>2 DEF StartRead, StartJob, Staging, Writing, Idle
  <2>3. CASE StartWrite
    <3>1. PICK failed \in BOOLEAN : StartJob("write", WriteCommand(Reset(dev), "WRITE", failed))
      BY <1>5, <2>3 DEF StartWrite
    <3>2. /\ job'.kind = "write" /\ job'.lba = dev.lba /\ job'.count = dev.count
          /\ job'.data = <<>> /\ dev' = WriteCommand(Reset(dev), "WRITE", failed)
      BY <3>1 DEF StartJob
    <3>3. Writing(dev', job')
      BY <1>2, <1>5, <1>6, <3>2, StartWriteKeeps
    <3> QED
      BY <3>2, <3>3 DEF Staging, Idle
  <2>4. CASE StartStage
    <3>1. /\ job'.kind = "stage" /\ job'.lba = dev.lba /\ job'.count = dev.count
          /\ job'.data = <<>> /\ dev' = Reset(dev)
      BY <1>5, <2>4 DEF StartStage, StartJob
    <3>2. dev.count \in 1 .. MaxCount
      BY <1>1, Fields
    <3> QED
      BY <1>6, <3>1, <3>2, Constants DEF Staging, Writing, Idle, Buffered
  <2>5. CASE ReadByte
    <3>1. job'.kind = "read"
      BY <1>1, <2>5 DEF ReadByte, Moved, Job
    <3> QED
      BY <3>1 DEF Staging, Writing, Idle
  <2>6. CASE WriteByte
    <3>1. PICK byte \in Bytes, failed \in BOOLEAN :
            /\ job' = [job EXCEPT !.data = Append(@, byte)]
            /\ dev' = WriteData(dev, byte, failed)
      BY <2>6 DEF WriteByte, Moved
    <3>2. job.kind = "write" /\ Len(job.data) < All(job)
      BY <2>6 DEF WriteByte, All
    <3>3. Writing(dev', job') /\ job'.kind = "write"
      BY <1>1, <3>1, <3>2, WriteByteKeeps, MovedByte
    <3> QED
      BY <3>3 DEF Staging, Idle
  <2>7. CASE StageByte
    <3>1. PICK byte \in Bytes :
            /\ job' = [job EXCEPT !.data = Append(@, byte)]
            /\ dev' = WriteData(dev, byte, FALSE)
      BY <2>7 DEF StageByte, Moved
    <3>2. job.kind = "stage" /\ Len(job.data) < SectorSize
      BY <2>7 DEF StageByte
    <3>3. Staging(dev', job') /\ job'.kind = "stage"
      BY <1>1, <3>1, <3>2, StageByteKeeps, MovedByte
    <3> QED
      BY <3>3 DEF Writing, Idle
  <2>8. CASE WriteStaged
    <3>1. PICK failed \in BOOLEAN : dev' = WriteCommand(dev, "WRITE", failed)
      BY <2>8 DEF WriteStaged
    <3>2. job' = [job EXCEPT !.kind = "write"] /\ job.kind = "stage"
          /\ Len(job.data) = SectorSize
      BY <2>8 DEF WriteStaged
    <3>3. Writing(dev', job') /\ job'.kind = "write"
      BY <1>1, <3>1, <3>2, WriteStagedKeeps DEF Job
    <3> QED
      BY <3>3 DEF Staging, Idle
  <2>9. CASE EndJob
    <3>1. dev.op = "none" \/ dev.left = 0
      <4>1. CASE job.kind = "read" /\ ~ dev.drdy
        <5>1. Len(job.data) <= All(job) /\ ~ (Len(job.data) < All(job))
              /\ (Len(job.data) = All(job) => dev.op = "none")
          BY <1>1, <4>1 DEF Reading
        <5> QED
          BY <1>1, <5>1, JobFields
      <4>2. CASE job.kind = "write" /\ Len(job.data) = All(job)
        <5>1. PICK c \in Nat, s \in Nat \ {0}, all \in Nat :
                c = job.count /\ s = SectorSize /\ all = c * s
          BY <1>1, JobFields, Constants
        <5>2. all \div s = c
          BY <5>1, Multiples
        <5>3. all = All(job)
          BY <5>1 DEF All
        <5>4. dev.left = all - (all \div s) * s
          BY <1>1, <4>2, <5>1, <5>3 DEF Writing
        <5> QED
          BY <5>1, <5>2, <5>4
      <4> QED
        BY <2>9, <4>1, <4>2 DEF EndJob, All
    <3> QED
      BY <2>9, <3>1 DEF EndJob, NoJob, Staging, Writing, Idle
  <2>10. CASE ReadStatus
    BY <1>1, <1>3, <2>10 DEF ReadStatus, AfterReadStatus, Device
  <2>11. CASE GiveReset
    BY <1>6, <2>11 DEF GiveReset, NoJob, Staging, Writing, Idle
  <2>12. CASE GiveOther
    BY <1>1, <1>4, <2>12 DEF GiveOther, WriteCommand, Device
  <2>13. CASE Poll
    BY <1>1, <1>3, <2>13 DEF Poll, AfterPoll, Device
  <2>14. CASE Insert
    BY <1>1, <1>4, <2>14 DEF Insert, SettingUp, Started, Device
  <2>15. CASE SetInterrupt
    BY <1>1, <1>3, <2>15 DEF SetInterrupt, Device
  <2>16. CASE UNCHANGED vars
    BY <1>1, <2>16 DEF vars
  <2> QED
    BY <2>1, <2>2, <2>3, <2>4, <2>5, <2>6, <2>7, <2>8, <2>9, <2>10, <2>11, <2>12, <2>13, <2>14,
       <2>15, <2>16 DEF Next, WriteInv
<1> QED
  BY <1>2, <1>7 DEF WriteInv

LEMMA WriteInvAlways ==
  ASSUME Resets
  PROVE  Spec => []WriteInv
<1>1. WriteInv /\ [Next]_vars => WriteInv'
  BY WriteStep
<1> QED
  BY <1>1, WriteInvInit, PTL DEF Spec

\* A guest that resets the device before every write finds each whole sector that it
\* has moved on the disk, at the address it gave plus the number of the sector,
\* whether it fills the buffer before or after the command, whatever happens to the
\* backing file, and however the addresses wrap around.
THEOREM WriteLandsCorrect ==
  ASSUME Resets
  PROVE  Spec => []WriteLands
<1>1. WriteInv => WriteLands
  <2> SUFFICES ASSUME WriteInv, job.kind = "write",
                      NEW i \in 0 .. (Len(job.data) \div SectorSize) - 1,
                      i + Lba >= Len(job.data) \div SectorSize
               PROVE  SectorAt(dev.image, JobLba(i))
                        = SubSeq(job.data, i * SectorSize + 1, (i + 1) * SectorSize)
    BY DEF WriteLands, Lba
  <2>1. dev \in Device /\ job \in Job /\ Writing(dev, job)
    BY DEF WriteInv, ReadInv, TypeOK
  <2>2. PICK n \in Nat, q \in Nat, r \in 0 .. SectorSize - 1 :
          n = Len(job.data) /\ q = n \div SectorSize /\ n = SectorSize * q + r
    BY <2>1, JobParts
  <2>3. i \in 0 .. q - 1 /\ i + Lba >= q /\ i \in Nat
    BY <2>2
  <2>4. Landed(dev.image, job, q)
    BY <2>1, <2>2 DEF Writing
  <2>5. PICK s \in Nat \ {0}, m \in Nat : s = SectorSize /\ m = i * s
    BY <2>3, Constants
  <2>6. (i + 1) * SectorSize = m + s
    BY <2>3, <2>5
  <2>7. m + s <= n
    <3>1. PICK x \in Nat : x = s * q
      OBVIOUS
    <3>2. n = x + r /\ r \in 0 .. s - 1
      BY <2>2, <2>5, <3>1, Zenon
    <3>3. m + s <= x
      BY <2>3, <2>5, <3>1, Places
    <3> QED
      BY <2>5, <3>2, <3>3
  <2>8. /\ InRange(dev.image, SectorOf(job, i))
        /\ \A b \in 1 .. SectorSize :
             dev.image[Start(SectorOf(job, i)) + b] = job.data[m + b]
    BY <2>3, <2>4, <2>5 DEF Landed
  <2>9. SectorAt(dev.image, SectorOf(job, i)) = SubSeq(job.data, m + 1, m + s)
    <3>1. job.data \in Seq(Bytes) /\ n = Len(job.data)
      BY <2>1, <2>2, JobFields
    <3>2. PICK u \in Nat \ {0}, v \in Nat : u = m + 1 /\ v = m + s
      OBVIOUS
    <3>3. SectorLong(job.data, u, v) /\ \A b \in 1 .. SectorSize : u + b - 1 = m + b
      BY <2>5, <2>7, <3>1, <3>2 DEF SectorLong
    <3>4. HoldsFrom(dev.image, SectorOf(job, i), job.data, u)
      BY <2>8, <3>3 DEF HoldsFrom
    <3>5. SectorAt(dev.image, SectorOf(job, i)) = SubSeq(job.data, u, v)
      BY <3>1, <3>3, <3>4, SectorIs
    <3> QED
      BY <3>2, <3>5
  <2>10. JobLba(i) = SectorOf(job, i)
    BY DEF JobLba, SectorOf, Lba
  <2> QED
    BY <2>5, <2>6, <2>9, <2>10
<1> QED
  BY <1>1, WriteInvAlways, PTL

-----------------------------------------------------------------------------
(* The device implements Disk.                                             *)

\* The sectors that are left after q whole ones.
LEMMA SectorsLeft ==
  ASSUME NEW s \in Nat \ {0}, NEW c \in Nat, NEW q \in 0 .. c
  PROVE  /\ c * s - q * s \in Nat
         /\ (c * s - q * s) \div s = c - q
         /\ c * s - q * s = 0 <=> q = c
<1>1. PICK k \in Nat : k = c - q
  OBVIOUS
<1>2. c * s - q * s = k * s
  <2>1. (q + k) * s = q * s + k * s
    OBVIOUS
  <2> QED
    BY <1>1, <2>1
<1>3. k * s \in Nat /\ (k * s) \div s = k
  BY Multiples
<1>4. k * s = 0 <=> k = 0
  <2>1. k # 0 => s * 1 <= s * k
    BY Grows
  <2>2. s * 1 = s /\ s * k = k * s /\ 0 * s = 0
    OBVIOUS
  <2> QED
    BY <2>1, <2>2
<1> QED
  BY <1>1, <1>2, <1>3, <1>4

\* A sector as a sequence, and its parts.
LEMMA Slices ==
  ASSUME NEW buf \in Sector, NEW a \in 1 .. SectorSize + 1, NEW b \in 0 .. SectorSize
  PROVE  /\ buf \in Seq(Bytes) /\ Len(buf) = SectorSize
         /\ SubSeq(buf, a, b) \in Seq(Bytes)
         /\ Len(SubSeq(buf, a, b)) = IF a <= b THEN b - a + 1 ELSE 0
         /\ \A i \in 1 .. b - a + 1 : SubSeq(buf, a, b)[i] = buf[a + i - 1]
<1>1. DOMAIN buf = 1 .. SectorSize /\ \A i \in 1 .. SectorSize : buf[i] \in Bytes
  BY DEF Sector
<1>2. buf = [i \in 1 .. SectorSize |-> buf[i]]
  BY <1>1 DEF Sector
<1>3. buf \in Seq(Bytes) /\ Len(buf) = SectorSize
  BY <1>1, <1>2, Constants, IsASeq
<1>4. \A i \in a .. b : buf[i] \in Bytes
  BY <1>1, Constants
<1>5. a \in Int /\ b \in Int
  BY Constants
<1> QED
  BY <1>3, <1>4, <1>5, SubSeqProperties

LEMMA WholeSlice ==
  ASSUME NEW buf \in Sector
  PROVE  SubSeq(buf, 1, SectorSize) = buf
<1>1. 1 \in 1 .. SectorSize + 1 /\ SectorSize \in 0 .. SectorSize /\ SectorSize \in Nat
      /\ 1 <= SectorSize
  BY Constants
<1>2. /\ SubSeq(buf, 1, SectorSize) \in Seq(Bytes) /\ buf \in Seq(Bytes)
      /\ Len(SubSeq(buf, 1, SectorSize)) = SectorSize - 1 + 1 /\ Len(buf) = SectorSize
      /\ \A i \in 1 .. SectorSize - 1 + 1 : SubSeq(buf, 1, SectorSize)[i] = buf[1 + i - 1]
  BY <1>1, Slices
<1>3. \A i \in 1 .. SectorSize : SubSeq(buf, 1, SectorSize)[i] = buf[i]
  BY <1>1, <1>2
<1> QED
  BY <1>1, <1>2, <1>3, SeqEqual

\* Without its first byte the rest of a sector is the rest after it.
LEMMA TailSlice ==
  ASSUME NEW buf \in Sector, NEW a \in 1 .. SectorSize
  PROVE  /\ Len(SubSeq(buf, a, SectorSize)) = SectorSize - a + 1
         /\ Tail(SubSeq(buf, a, SectorSize)) = SubSeq(buf, a + 1, SectorSize)
<1> DEFINE part == SubSeq(buf, a, SectorSize)
           rest == SubSeq(buf, a + 1, SectorSize)
<1>1. PICK s \in Nat \ {0} : s = SectorSize /\ a \in 1 .. s
  BY Constants
<1>2. /\ part \in Seq(Bytes) /\ Len(part) = s - a + 1
      /\ \A i \in 1 .. s - a + 1 : part[i] = buf[a + i - 1]
  <2>1. a \in 1 .. SectorSize + 1 /\ SectorSize \in 0 .. SectorSize
    BY <1>1
  <2>2. /\ part \in Seq(Bytes)
        /\ Len(part) = IF a <= SectorSize THEN SectorSize - a + 1 ELSE 0
        /\ \A i \in 1 .. SectorSize - a + 1 : part[i] = buf[a + i - 1]
    BY <2>1, Slices
  <2> HIDE DEF part
  <2> QED
    BY <1>1, <2>2
<1>3. PICK c \in 1 .. s + 1 : c = a + 1
  BY <1>1
<1>4. /\ rest \in Seq(Bytes) /\ Len(rest) = s - a
      /\ \A i \in 1 .. s - a : rest[i] = buf[a + i]
  <2>3. c \in 1 .. SectorSize + 1 /\ SectorSize \in 0 .. SectorSize
    BY <1>1
  <2>4. /\ SubSeq(buf, c, SectorSize) \in Seq(Bytes)
        /\ Len(SubSeq(buf, c, SectorSize)) = IF c <= SectorSize THEN SectorSize - c + 1 ELSE 0
        /\ \A i \in 1 .. SectorSize - c + 1 : SubSeq(buf, c, SectorSize)[i] = buf[c + i - 1]
    BY <2>3, Slices
  <2>1. /\ rest \in Seq(Bytes)
        /\ Len(rest) = IF c <= s THEN s - c + 1 ELSE 0
        /\ \A i \in 1 .. s - c + 1 : rest[i] = buf[c + i - 1]
    BY <1>1, <1>3, <2>4
  <2> HIDE DEF rest
  <2>2. s - c + 1 = s - a /\ \A i \in 1 .. s - a : c + i - 1 = a + i
    BY <1>1, <1>3
  <2> QED
    BY <1>1, <1>3, <2>1, <2>2
<1> HIDE DEF part, rest
<1>5. part # <<>>
  BY <1>1, <1>2
<1>6. /\ Tail(part) \in Seq(Bytes) /\ Len(Tail(part)) = s - a
      /\ \A i \in 1 .. s - a : Tail(part)[i] = part[i + 1]
  BY <1>1, <1>2, <1>5, HeadTailProperties
<1>7. \A i \in 1 .. s - a : Tail(part)[i] = rest[i]
  <2> SUFFICES ASSUME NEW i \in 1 .. s - a PROVE part[i + 1] = rest[i]
    BY <1>6
  <2>1. PICK k \in 1 .. s - a + 1 : k = i + 1
    BY <1>1
  <2>2. a + k - 1 = a + i
    BY <1>1, <2>1
  <2> QED
    BY <1>2, <1>4, <2>1, <2>2
<1>8. Tail(part) = rest
  BY <1>4, <1>6, <1>7, SeqEqual
<1> QED
  BY <1>1, <1>2, <1>8 DEF part, rest

\* A byte put into the buffer is appended to the part that is filled.
LEMMA FilledSlice ==
  ASSUME NEW buf \in Sector, NEW x \in 0 .. SectorSize - 1, NEW byte \in Bytes,
         NEW new \in Sector, new = [buf EXCEPT ![x + 1] = byte]
  PROVE  /\ Len(SubSeq(buf, 1, x)) = x
         /\ SubSeq(new, 1, x + 1) = Append(SubSeq(buf, 1, x), byte)
<1> DEFINE part == SubSeq(buf, 1, x)
           more == SubSeq(new, 1, x + 1)
<1>1. PICK s \in Nat \ {0} : s = SectorSize /\ x \in 0 .. s - 1
  BY Constants
<1>2. /\ part \in Seq(Bytes) /\ Len(part) = x
      /\ \A i \in 1 .. x : part[i] = buf[i]
  <2>1. 1 \in 1 .. SectorSize + 1 /\ x \in 0 .. SectorSize
    BY <1>1
  <2>2. /\ part \in Seq(Bytes) /\ Len(part) = IF 1 <= x THEN x - 1 + 1 ELSE 0
        /\ \A i \in 1 .. x - 1 + 1 : part[i] = buf[1 + i - 1]
    BY <2>1, Slices
  <2> QED
    BY <2>2
<1>3. PICK y \in 1 .. s : y = x + 1
  BY <1>1
<1>4. /\ more \in Seq(Bytes) /\ Len(more) = y
      /\ \A i \in 1 .. y : more[i] = new[i]
  <2>1. 1 \in 1 .. SectorSize + 1 /\ y \in 0 .. SectorSize
    BY <1>1
  <2>2. /\ SubSeq(new, 1, y) \in Seq(Bytes)
        /\ Len(SubSeq(new, 1, y)) = IF 1 <= y THEN y - 1 + 1 ELSE 0
        /\ \A i \in 1 .. y - 1 + 1 : SubSeq(new, 1, y)[i] = new[1 + i - 1]
    BY <2>1, Slices
  <2> QED
    BY <1>3, <2>2
<1>5. DOMAIN buf = 1 .. s
  BY <1>1 DEF Sector
<1> HIDE DEF part, more
<1>6. /\ Append(part, byte) \in Seq(Bytes) /\ Len(Append(part, byte)) = y
      /\ \A i \in 1 .. x : Append(part, byte)[i] = part[i]
      /\ Append(part, byte)[y] = byte
  BY <1>2, <1>3, AppendProperties
<1>7. \A i \in 1 .. y : more[i] = Append(part, byte)[i]
  <2> SUFFICES ASSUME NEW i \in 1 .. y PROVE more[i] = Append(part, byte)[i]
    OBVIOUS
  <2>1. CASE i = y
    <3>1. new[y] = byte
      BY <1>1, <1>3, <1>5
    <3> QED
      BY <1>4, <1>6, <2>1, <3>1
  <2>2. CASE i \in 1 .. x
    <3>1. new[i] = buf[i]
      BY <1>1, <1>3, <1>5, <2>2
    <3> QED
      BY <1>2, <1>4, <1>6, <2>2, <3>1
  <2>3. i = y \/ i \in 1 .. x
    BY <1>3
  <2> QED
    BY <2>1, <2>2, <2>3
<1>8. more = Append(part, byte)
  BY <1>4, <1>6, <1>7, SeqEqual
<1> QED
  BY <1>2, <1>8 DEF part, more

\* What Disk says of a sector of the disk is what the device loads.
LEMMA ContentIs ==
  ASSUME dev \in Device, NEW lba \in Lbas
  PROVE  Abstract!Content(lba) = SectorAt(dev.image, lba)
<1>1. dev.image \in Seq(Bytes)
  BY Fields
<1>2. PICK s \in Nat \ {0}, m \in Nat, u \in Nat, v \in Nat :
        s = SectorSize /\ m = Start(lba) /\ m = lba * s /\ u = m + 1 /\ v = m + s
        /\ v = (lba + 1) * s
  <2>1. PICK s \in Nat \ {0}, l \in Nat, m \in Nat : s = SectorSize /\ l = lba /\ m = l * s
    BY Constants
  <2>2. (l + 1) * s = m + s
    BY <2>1
  <2>3. PICK u \in Nat, v \in Nat : u = m + 1 /\ v = m + s
    OBVIOUS
  <2> QED
    BY <2>1, <2>2, <2>3 DEF Start
<1>3. Abstract!Size(lba) = v /\ (InRange(dev.image, lba) <=> v <= Len(dev.image))
  BY <1>2 DEF Abstract!Size, InRange
<1>4. CASE InRange(dev.image, lba)
  <2>3. s = SectorSize /\ u = m + 1 /\ v = m + s /\ m = Start(lba)
    BY <1>2
  <2>1. SectorLong(dev.image, u, v) /\ \A b \in 1 .. SectorSize : Start(lba) + b = u + b - 1
    BY <1>3, <1>4, <2>3 DEF SectorLong
  <2>4. HoldsFrom(dev.image, lba, dev.image, u)
    BY <1>4, <2>1 DEF HoldsFrom
  <2>2. SectorAt(dev.image, lba) = SubSeq(dev.image, u, v)
    BY <1>1, <2>1, <2>4, SectorIs
  <2> QED
    BY <1>2, <1>3, <1>4, <2>2 DEF Abstract!Content
<1>5. CASE ~ InRange(dev.image, lba)
  BY <1>2, <1>3, <1>5 DEF Abstract!Content, SectorAt
<1> QED
  BY <1>4, <1>5

\* Storing a sector is what Disk says it is.
LEMMA StoredIs ==
  ASSUME dev \in Device, NEW lba \in Lbas, NEW sector \in Sector,
         dev'.image = WithSector(dev.image, lba, sector)
  PROVE  Abstract!Stored(lba, sector)
<1>1. dev.image \in Seq(Bytes) /\ Len(dev.image) \in Nat
  BY Fields
<1>2. PICK s \in Nat \ {0}, m \in Nat :
        /\ s = SectorSize /\ m = Start(lba) /\ m = lba * SectorSize
        /\ Abstract!Size(lba) = m + s
  <2>1. PICK s \in Nat \ {0}, l \in Nat, m \in Nat : s = SectorSize /\ l = lba /\ m = l * s
    BY Constants
  <2>2. (l + 1) * s = m + s
    BY <2>1
  <2> QED
    BY <2>1, <2>2 DEF Start, Abstract!Size
<1> DEFINE new == WithSector(dev.image, lba, sector)
<1>3. /\ new \in Seq(Bytes)
      /\ Len(new) = IF Len(dev.image) < Start(lba) + SectorSize THEN Start(lba) + SectorSize
                    ELSE Len(dev.image)
      /\ \A i \in 1 .. Len(new) :
           new[i] = IF i - Start(lba) \in 1 .. SectorSize THEN sector[i - Start(lba)]
                    ELSE IF i <= Len(dev.image) THEN dev.image[i] ELSE 0
  BY <1>1, WithSectorIs
<1> HIDE DEF new
<1>4. Len(new) = IF Len(dev.image) < Abstract!Size(lba) THEN Abstract!Size(lba)
                 ELSE Len(dev.image)
  BY <1>2, <1>3
<1>5. ASSUME NEW i \in 1 .. Len(new)
      PROVE  new[i] = IF i > lba * SectorSize /\ i <= Abstract!Size(lba)
                      THEN sector[i - lba * SectorSize]
                      ELSE IF i <= Len(dev.image) THEN dev.image[i] ELSE 0
  <2>1. new[i] = IF i - m \in 1 .. s THEN sector[i - m]
                 ELSE IF i <= Len(dev.image) THEN dev.image[i] ELSE 0
    BY <1>2, <1>3
  <2>2. i - m \in 1 .. s <=> i > m /\ i <= m + s
    OBVIOUS
  <2> QED
    BY <1>2, <2>1, <2>2
<1>6. dev'.image = new
  BY DEF new
<1> QED
  BY <1>4, <1>5, <1>6 DEF Abstract!Stored

\* The transfer of a device, so that it can be spoken of before and after a step.
TransferOf(d) ==
  IF d.op = "none" \/ d.left = 0 THEN Abstract!NoTransfer
  ELSE IF d.op = "READ"
  THEN [op |-> "READ", at |-> d.lba, part |-> SubSeq(d.buf, d.idx + 1, SectorSize),
        sectors |-> (d.left + d.idx) \div SectorSize]
  ELSE [op |-> "WRITE", at |-> d.lba, part |-> SubSeq(d.buf, 1, d.idx),
        sectors |-> d.left \div SectorSize]

LEMMA TransferIs == Transfer = TransferOf(dev) /\ Transfer' = TransferOf(dev')
BY DEF Transfer, TransferOf, Abstract!NoTransfer

LEMMA NoTransferIs ==
  /\ dev.op = "none" \/ dev.left = 0 => Transfer = Abstract!NoTransfer
  /\ dev'.op = "none" \/ dev'.left = 0 => Transfer' = Abstract!NoTransfer
BY DEF Transfer, Abstract!NoTransfer

LEMMA ReadTransferIs ==
  ASSUME NEW c \in Nat, NEW n \in Nat, NEW q \in Nat,
         NEW r \in 0 .. SectorSize - 1, n = SectorSize * q + r, n < c * SectorSize,
         NEW left \in Nat, left = c * SectorSize - n
  PROVE  left # 0 /\ (left + r) \div SectorSize = c - q /\ q < c
<1>1. PICK s \in Nat \ {0}, x \in Nat, all \in Nat :
        s = SectorSize /\ x = q * s /\ x = s * q /\ all = c * s
  BY Constants
<1>2. n = x + r /\ left = all - n /\ n < all
  BY <1>1
<1>3. q < c
  <2>1. n \div s = q
    BY <1>1, IsDivMod
  <2>2. n \div s < c
    BY <1>1, <1>2, Before
  <2> QED
    BY <2>1, <2>2
<1>4. (all - x) \div s = c - q
  BY <1>1, <1>3, SectorsLeft
<1>5. left + r = all - x /\ left # 0
  BY <1>2
<1> QED
  BY <1>1, <1>3, <1>4, <1>5

\* A READ that is under way, with names for its numbers, as Disk sees it.
LEMMA ReadingIs ==
  ASSUME NEW d \in Device, NEW j \in Job, j.kind = "read", Reading(d, j), Len(j.data) < All(j)
  PROVE  \E n \in Nat, c \in Nat, q \in Nat, r \in 0 .. SectorSize - 1 :
           /\ n = Len(j.data) /\ n < c * SectorSize /\ c = j.count /\ c \in 1 .. MaxCount
           /\ n = SectorSize * q + r
           /\ q = n \div SectorSize /\ r = n % SectorSize
           /\ d.op = "READ" /\ d.left # 0 /\ d.idx = r /\ d.lba = SectorOf(j, q)
           /\ d.buf = SectorAt(d.image, d.lba)
           /\ (d.left + d.idx) \div SectorSize = c - q /\ q < c
<1>1. PICK n \in Nat, q \in Nat, r \in 0 .. SectorSize - 1 :
        n = Len(j.data) /\ q = n \div SectorSize /\ r = n % SectorSize
        /\ n = SectorSize * q + r
  BY JobParts
<1>2. PICK c \in Nat : c = j.count /\ All(j) = c * SectorSize
  BY JobFields DEF All
<1>3. /\ d.op = "READ" /\ d.idx = Len(j.data) % SectorSize
      /\ d.lba = SectorOf(j, Len(j.data) \div SectorSize)
      /\ d.left = All(j) - Len(j.data) /\ d.buf = SectorAt(d.image, d.lba)
      /\ j.count \in 1 .. MaxCount
  BY DEF Reading
<1>4. /\ d.idx = r /\ d.lba = SectorOf(j, q) /\ d.left = c * SectorSize - n
      /\ n < c * SectorSize /\ c \in 1 .. MaxCount
  BY <1>1, <1>2, <1>3, Zenon
<1>5. d.left # 0 /\ (d.left + d.idx) \div SectorSize = c - q /\ q < c
  <2>1. PICK left \in Nat : left = d.left
    BY Fields
  <2>2. n = SectorSize * q + r /\ n < c * SectorSize /\ left = c * SectorSize - n
    BY <1>1, <1>4, <2>1, Zenon
  <2>3. left # 0 /\ (left + r) \div SectorSize = c - q /\ q < c
    BY <2>2, ReadTransferIs
  <2> QED
    BY <1>4, <2>1, <2>3
<1> QED
  BY <1>1, <1>2, <1>3, <1>4, <1>5, Zenon

LEMMA SameImage ==
  ASSUME NEW d \in Device
  PROVE  AfterReadData(d).image = d.image
<1> DEFINE moved == [d EXCEPT !.idx = @ + 1, !.left = Minus(@, 1)]
           next  == [moved EXCEPT !.lba = NextLba(@)]
           ended == [moved EXCEPT !.drdy = FALSE, !.op = IF @ = "READ" THEN "none" ELSE @]
<1>1. moved.image = d.image /\ next.image = d.image /\ ended.image = d.image
  BY DEF Device
<1>2. ReadSector(next).image = next.image
  BY DEF ReadSector, Device
<1>3. Hold(ended).image = ended.image
  BY DEF Hold, Device
<1>4. AfterReadData(d) \in {d, moved, ReadSector(next), Hold(ended)}
  BY DEF AfterReadData
<1> HIDE DEF moved, next, ended
<1> QED
  BY <1>1, <1>2, <1>3, <1>4

LEMMA FollowingIs ==
  ASSUME NEW lba \in Lbas
  PROVE  Abstract!Following(lba) = NextLba(lba)
BY DEF Abstract!Following, NextLba

LEMMA ReadByteImplements ==
  ASSUME WriteInv, WriteInv', ReadByte
  PROVE  Abstract!ReadByte
<1>1. /\ dev \in Device /\ job \in Job /\ Reading(dev, job)
      /\ dev' \in Device /\ job' \in Job /\ Reading(dev', job')
  BY DEF WriteInv, ReadInv, TypeOK
<1>2. /\ job.kind = "read" /\ dev.drdy /\ job' = [job EXCEPT !.data = Append(@, Data(dev))]
      /\ dev' = AfterReadData(dev)
  BY DEF ReadByte, Moved
<1>3. dev'.image = dev.image
  BY <1>1, <1>2, SameImage
<1>4. Len(job.data) < All(job)
  BY <1>1, <1>2 DEF Reading
<1>5. PICK n \in Nat, c \in Nat, q \in Nat, r \in 0 .. SectorSize - 1 :
        /\ n = Len(job.data) /\ n < c * SectorSize /\ c = job.count /\ c \in 1 .. MaxCount
        /\ n = SectorSize * q + r
        /\ q = n \div SectorSize /\ r = n % SectorSize
        /\ dev.op = "READ" /\ dev.left # 0 /\ dev.idx = r /\ dev.lba = SectorOf(job, q)
        /\ dev.buf = SectorAt(dev.image, dev.lba)
        /\ (dev.left + dev.idx) \div SectorSize = c - q /\ q < c
  BY <1>1, <1>2, <1>4, ReadingIs
<1>6. /\ dev.op = "READ" /\ dev.left # 0 /\ dev.idx = r /\ dev.lba = SectorOf(job, q)
      /\ dev.buf = SectorAt(dev.image, dev.lba)
      /\ (dev.left + dev.idx) \div SectorSize = c - q /\ q < c
  BY <1>5
<1>7. PICK s \in Nat \ {0}, x \in Nat, all \in Nat :
        s = SectorSize /\ x = s * q /\ all = c * s /\ n < all /\ n = x + r /\ r \in 0 .. s - 1
  <2>1. PICK s \in Nat \ {0}, x \in Nat, all \in Nat : s = SectorSize /\ x = s * q /\ all = c * s
    BY Constants
  <2>2. n < all /\ n = x + r /\ r \in 0 .. s - 1
    BY <1>5, <2>1, Zenon
  <2> QED
    BY <2>1, <2>2
<1>8. /\ job'.kind = "read" /\ job'.count = c /\ All(job') = all
      /\ \A k \in Nat : SectorOf(job', k) = SectorOf(job, k)
      /\ Len(job'.data) = n + 1
  <2>1. Data(dev) \in Bytes /\ n = Len(job.data) /\ c = job.count
    BY <1>1, <1>5, DataType
  <2>2. /\ job'.kind = job.kind /\ job'.count = job.count
        /\ \A k \in Nat : SectorOf(job', k) = SectorOf(job, k)
        /\ Len(job'.data) = n + 1
    BY <1>1, <1>2, <2>1, MovedByte
  <2> QED
    BY <1>2, <1>7, <2>1, <2>2 DEF All
<1> DEFINE part == SubSeq(dev.buf, r + 1, SectorSize)
<1>9. Transfer = [op |-> "READ", at |-> dev.lba, part |-> part, sectors |-> c - q]
  BY <1>6 DEF Transfer
<1>10. /\ Len(part) = s - r
       /\ Tail(part) = SubSeq(dev.buf, r + 2, SectorSize)
  <2>1. PICK a \in 1 .. SectorSize : a = r + 1
    BY <1>7
  <2>2. Len(part) = SectorSize - a + 1 /\ Tail(part) = SubSeq(dev.buf, a + 1, SectorSize)
    BY <1>1, <2>1, Fields, TailSlice
  <2>3. SectorSize - a + 1 = s - r /\ a + 1 = r + 2
    BY <1>7, <2>1
  <2> QED
    BY <2>2, <2>3
<1> HIDE DEF part
<1>16. /\ Transfer.op = "READ" /\ Transfer.at = dev.lba /\ Transfer.sectors = c - q
       /\ Transfer.part = part
       /\ [Transfer EXCEPT !.part = Tail(@)]
            = [op |-> "READ", at |-> dev.lba, part |-> Tail(part), sectors |-> c - q]
  <2>1. /\ Transfer.op = "READ" /\ Transfer.at = dev.lba /\ Transfer.sectors = c - q
        /\ Transfer.part = part
    BY <1>9
  <2>2. [Transfer EXCEPT !.part = Tail(part)]
          = [op |-> "READ", at |-> dev.lba, part |-> Tail(part), sectors |-> c - q]
    <3>1. PICK t, k, at, rest : t = Transfer /\ k = c - q /\ at = dev.lba /\ rest = Tail(part)
      OBVIOUS
    <3>2. t = [op |-> "READ", at |-> at, part |-> part, sectors |-> k]
      BY <1>9, <3>1
    <3>3. [t EXCEPT !.part = rest] = [op |-> "READ", at |-> at, part |-> rest, sectors |-> k]
      BY <3>2
    <3> QED
      BY <3>1, <3>3
  <2> QED
    BY <2>1, <2>2
<1>17. Len(Transfer.part) = s - r
  BY <1>10, <1>16
<1>11. PICK m \in Nat : m = n + 1
  OBVIOUS
<1>12. ASSUME m < all
       PROVE  \E p \in Nat, t \in 0 .. SectorSize - 1 :
                /\ p = m \div SectorSize /\ t = m % SectorSize /\ p < c
                /\ Transfer' = [op |-> "READ", at |-> SectorOf(job, p), sectors |-> c - p,
                                part |-> SubSeq(SectorAt(dev.image, SectorOf(job, p)), t + 1, SectorSize)]
  <2>1. Len(job'.data) < All(job')
    BY <1>8, <1>11, <1>12
  <2>2. PICK mm \in Nat, cc \in Nat, p \in Nat, t \in 0 .. SectorSize - 1 :
        /\ mm = Len(job'.data) /\ mm < cc * SectorSize /\ cc = job'.count /\ cc \in 1 .. MaxCount
        /\ mm = SectorSize * p + t
        /\ p = mm \div SectorSize /\ t = mm % SectorSize
        /\ dev'.op = "READ" /\ dev'.left # 0 /\ dev'.idx = t /\ dev'.lba = SectorOf(job', p)
        /\ dev'.buf = SectorAt(dev'.image, dev'.lba)
        /\ (dev'.left + dev'.idx) \div SectorSize = cc - p /\ p < cc
    BY <1>1, <1>8, <2>1, ReadingIs
  <2>3. mm = m /\ cc = c
    BY <1>8, <1>11, <2>2
  <2>4. /\ dev'.op = "READ" /\ dev'.left # 0 /\ dev'.idx = t /\ dev'.lba = SectorOf(job, p)
        /\ dev'.buf = SectorAt(dev.image, SectorOf(job, p))
        /\ (dev'.left + dev'.idx) \div SectorSize = c - p /\ p < c
    BY <1>3, <1>8, <2>2, <2>3
  <2>5. p = m \div SectorSize /\ t = m % SectorSize
    BY <2>2, <2>3
  <2>6. Transfer' = [op |-> "READ", at |-> SectorOf(job, p), sectors |-> c - p,
                     part |-> SubSeq(SectorAt(dev.image, SectorOf(job, p)), t + 1, SectorSize)]
    BY <2>4 DEF Transfer
  <2> QED
    BY <2>4, <2>5, <2>6
<1>13. q = n \div SectorSize /\ r = n % SectorSize
  BY <1>5
<1>14. CASE r + 1 < SectorSize
  <2>1. m \div SectorSize = q /\ m % SectorSize = r + 1
    BY <1>11, <1>13, <1>14, Constants, NextByte
  <2>2. m < all
    <3>1. n + (s - (n % s)) <= all
      BY <1>7, Before
    <3> QED
      BY <1>7, <1>11, <1>13, <1>14, <3>1
  <2>3. Transfer' = [op |-> "READ", at |-> SectorOf(job, q), sectors |-> c - q,
                     part |-> SubSeq(SectorAt(dev.image, SectorOf(job, q)), r + 1 + 1, SectorSize)]
    BY <1>12, <2>1, <2>2
  <2>4. Len(Transfer.part) > 1
    BY <1>7, <1>14, <1>17
  <2>5. dev.lba = SectorOf(job, q) /\ dev.buf = SectorAt(dev.image, SectorOf(job, q))
    BY <1>6
  <2>6. r + 1 + 1 = r + 2
    OBVIOUS
  <2>7. Transfer' = [op |-> "READ", at |-> dev.lba, part |-> Tail(part), sectors |-> c - q]
    BY <1>10, <2>3, <2>5, <2>6
  <2> QED
    BY <1>3, <1>16, <2>4, <2>7 DEF Abstract!ReadByte
<1>15. CASE r + 1 = SectorSize
  <2>1. m \div SectorSize = q + 1 /\ m % SectorSize = 0
    BY <1>11, <1>13, <1>15, Constants, NextByte
  <2>2. Len(Transfer.part) = 1
    BY <1>7, <1>15, <1>17
  <2>3. Abstract!Following(dev.lba) = SectorOf(job, q + 1) /\ SectorOf(job, q + 1) \in Lbas
    <3>1. q + 1 \in Nat /\ dev.lba \in Lbas
      BY <1>1, Fields
    <3> QED
      BY <1>1, <1>6, <3>1, FollowingIs, Sectors
  <2>4. Abstract!Content(SectorOf(job, q + 1)) = SectorAt(dev.image, SectorOf(job, q + 1))
    BY <1>1, <2>3, ContentIs
  <2>5. Transfer' = Abstract!Transfer("READ", SectorOf(job, q + 1), c - q - 1,
                                      SectorAt(dev.image, SectorOf(job, q + 1)))
    <3>1. CASE m < all
      <4>1. PICK p \in Nat, t \in 0 .. SectorSize - 1 :
              /\ p = m \div SectorSize /\ t = m % SectorSize /\ p < c
              /\ Transfer' = [op |-> "READ", at |-> SectorOf(job, p), sectors |-> c - p,
                              part |-> SubSeq(SectorAt(dev.image, SectorOf(job, p)), t + 1, SectorSize)]
        BY <1>12, <3>1
      <4>2. p = q + 1 /\ t = 0 /\ p < c
        BY <2>1, <4>1
      <4>3. SectorAt(dev.image, SectorOf(job, q + 1)) \in Sector
        BY <1>1, <2>3, Fields, SectorAtType
      <4>4. SubSeq(SectorAt(dev.image, SectorOf(job, q + 1)), 1, SectorSize)
              = SectorAt(dev.image, SectorOf(job, q + 1))
        BY <4>3, WholeSlice
      <4>5. c - p = c - q - 1 /\ c - q - 1 # 0 /\ t + 1 = 1
        BY <4>2
      <4> QED
        BY <4>1, <4>2, <4>4, <4>5 DEF Abstract!Transfer
    <3>2. CASE m = all
      <4>1. dev'.op = "none"
        BY <1>1, <1>8, <1>11, <3>2 DEF Reading
      <4>2. all \div s = c
        BY <1>7, Multiples
      <4>3. c - q - 1 = 0
        BY <1>7, <2>1, <3>2, <4>2
      <4> QED
        BY <4>1, <4>3, NoTransferIs DEF Abstract!Transfer
    <3> QED
      BY <1>7, <1>11, <3>1, <3>2
  <2> QED
    BY <1>3, <1>16, <2>2, <2>3, <2>4, <2>5 DEF Abstract!ReadByte
<1> QED
  BY <1>7, <1>14, <1>15

\* What a byte of a WRITE does to the buffer and to the disk.
LEMMA WriteDataIs ==
  ASSUME NEW d \in Device, d.op = "WRITE", NEW x \in 0 .. SectorSize - 1, d.idx = x,
         NEW byte \in Bytes, NEW failed \in BOOLEAN
  PROVE  LET buf == [d.buf EXCEPT ![x + 1] = byte]
             e   == WriteData(d, byte, failed)
         IN  /\ buf \in Sector
             /\ x + 1 < SectorSize => e.idx = x + 1 /\ e.buf = buf /\ e.image = d.image
             /\ x + 1 = SectorSize => e.idx = 0 /\ e.image = WithSector(d.image, d.lba, buf)
<1> DEFINE buf == [d.buf EXCEPT ![x + 1] = byte]
           e == WriteData(d, byte, failed)
           moved == [d EXCEPT !.buf[d.idx + 1] = byte, !.idx = @ + 1]
           stored == Commit(moved, failed)
<1>1. d.idx + 1 \in 1 .. SectorSize /\ d.idx + 1 \in 0 .. SectorSize /\ ~ (d.idx >= SectorSize)
  BY Constants
<1>2. [d.buf EXCEPT ![d.idx + 1] = byte] \in Sector
  BY <1>1, Fields DEF Sector
<1>3. /\ moved \in Device /\ moved.idx = x + 1 /\ moved.buf = buf /\ moved.image = d.image
      /\ moved.lba = d.lba
  <2>1. moved \in Device
    BY <1>1, <1>2 DEF Device
  <2> QED
    BY <2>1 DEF Device
<1>4. CASE x + 1 < SectorSize
  <2>1. e = moved
    BY <1>1, <1>3, <1>4 DEF WriteData
  <2> HIDE DEF e, moved
  <2> QED
    BY <1>2, <1>3, <1>4, <2>1 DEF e
<1>5. CASE x + 1 = SectorSize
  <2>1. /\ stored \in Device /\ stored.idx = 0
        /\ stored.image = WithSector(d.image, d.lba, buf)
    <3>1. /\ stored \in Device
          /\ stored = [moved EXCEPT !.image = WithSector(moved.image, moved.lba, moved.buf),
                          !.err = moved.backed /\ failed, !.idx = 0, !.busy = FALSE,
                          !.lba = NextLba(moved.lba), !.left = Minus(moved.left, SectorSize)]
      BY <1>3, CommitIs
    <3> HIDE DEF stored, buf, moved
    <3> QED
      BY <1>3, <3>1 DEF Device
  <2>2. e \in {[stored EXCEPT !.buf = Blank], Hold([stored EXCEPT !.op = "none"])}
    <3>1. ~ (moved.idx < SectorSize \/ d.op # "WRITE")
      BY <1>3, <1>5, Constants
    <3> QED
      BY <1>1, <3>1 DEF WriteData
  <2> HIDE DEF e, stored, buf
  <2>3. e.idx = 0 /\ e.image = WithSector(d.image, d.lba, buf)
    BY <2>1, <2>2 DEF Hold, Device
  <2> QED
    BY <1>2, <1>5, <2>3, Constants DEF e, buf
<1> QED
  BY <1>4, <1>5, Constants

\* The sectors left to write are those of the transfer.
LEMMA WriteTransferIs ==
  ASSUME NEW d \in Device, NEW c \in Nat, NEW q \in 0 .. c,
         d.left = c * SectorSize - q * SectorSize
  PROVE  d.left \div SectorSize = c - q /\ (d.left = 0 <=> q = c)
<1>1. PICK s \in Nat \ {0}, left \in Nat :
        s = SectorSize /\ left = d.left /\ left = c * s - q * s
  BY Constants, Fields
<1>2. (c * s - q * s) \div s = c - q /\ (c * s - q * s = 0 <=> q = c)
  BY SectorsLeft
<1> QED
  BY <1>1, <1>2

\* The transfer of a job that is a write, as Disk sees it.
LEMMA WritingTransfer ==
  ASSUME NEW d \in Device, NEW j \in Job, j.kind = "write", Writing(d, j),
         NEW n \in Nat, NEW q \in Nat, n = Len(j.data), q = n \div SectorSize
  PROVE  /\ TransferOf(d) = Abstract!Transfer("WRITE", SectorOf(j, q), j.count - q,
                                              SubSeq(d.buf, 1, d.idx))
         /\ q <= j.count /\ (n < All(j) => q < j.count)
<1>1. PICK c \in Nat, all \in Nat : c = j.count /\ all = c * SectorSize /\ all = All(j)
  BY JobFields DEF All
<1>2. n <= all /\ d.op # "READ" /\ (n < all => d.op = "WRITE")
      /\ d.lba = SectorOf(j, q) /\ d.left = all - q * SectorSize
  BY <1>1, Zenon DEF Writing
<1>3. q <= c /\ (n < all => q < c) /\ (n = all => q = c)
  <2>1. PICK s \in Nat \ {0} : s = SectorSize
    BY Constants
  <2>2. all = c * s /\ q = n \div s /\ n <= all
    BY <1>1, <1>2, <2>1
  <2>3. n \div s <= c /\ (n < all => n \div s < c) /\ (n = all => n \div s = c)
    BY <2>2, Before
  <2> QED
    BY <2>2, <2>3
<1>4. d.left \div SectorSize = c - q /\ (d.left = 0 <=> q = c)
  <2>1. q \in 0 .. c
    BY <1>3
  <2>2. d.left = c * SectorSize - q * SectorSize
    BY <1>1, <1>2
  <2> QED
    BY <2>1, <2>2, WriteTransferIs
<1>5. CASE q = c
  BY <1>1, <1>3, <1>4, <1>5 DEF TransferOf, Abstract!Transfer
<1>6. CASE q < c
  <2>1. d.left # 0 /\ n < all /\ c - q # 0 /\ d.op = "WRITE"
    BY <1>2, <1>3, <1>4, <1>6
  <2>2. TransferOf(d) = [op |-> "WRITE", at |-> d.lba, part |-> SubSeq(d.buf, 1, d.idx),
                         sectors |-> c - q]
    BY <1>4, <2>1 DEF TransferOf
  <2> QED
    BY <1>1, <1>2, <1>3, <2>1, <2>2 DEF Abstract!Transfer
<1> QED
  BY <1>1, <1>3, <1>5, <1>6

LEMMA WriteByteImplements ==
  ASSUME WriteInv, WriteInv', WriteByte
  PROVE  Abstract!WriteByte
<1>1. /\ dev \in Device /\ job \in Job /\ Writing(dev, job)
      /\ dev' \in Device /\ job' \in Job /\ Writing(dev', job')
  BY DEF WriteInv, ReadInv, TypeOK
<1>2. PICK byte \in Bytes, failed \in BOOLEAN :
        job' = [job EXCEPT !.data = Append(@, byte)] /\ dev' = WriteData(dev, byte, failed)
  BY DEF WriteByte, Moved
<1>3. PICK n \in Nat, q \in Nat, r \in 0 .. SectorSize - 1 :
        n = Len(job.data) /\ q = n \div SectorSize /\ r = n % SectorSize
  BY <1>1, JobParts
<1>4. job.kind = "write" /\ n < All(job)
  BY <1>3 DEF WriteByte, All
<1>5. dev.idx = r /\ dev.op = "WRITE" /\ dev.lba = SectorOf(job, q)
  <2>1. /\ dev.idx = Len(job.data) % SectorSize
        /\ dev.lba = SectorOf(job, Len(job.data) \div SectorSize)
        /\ (Len(job.data) < All(job) => dev.op = "WRITE")
    BY <1>1, <1>4 DEF Writing
  <2> QED
    BY <1>3, <1>4, <2>1, Zenon
<1>6. PICK c \in Nat : c = job.count
  BY <1>1, JobFields
<1>7. /\ job'.kind = "write" /\ job'.count = c /\ Len(job'.data) = n + 1
      /\ \A k \in Nat : SectorOf(job', k) = SectorOf(job, k)
  BY <1>1, <1>2, <1>3, <1>4, <1>6, MovedByte
<1> DEFINE buf  == [dev.buf EXCEPT ![r + 1] = byte]
           part == SubSeq(dev.buf, 1, r)
<1>8. /\ buf \in Sector
      /\ r + 1 < SectorSize => dev'.idx = r + 1 /\ dev'.buf = buf /\ dev'.image = dev.image
      /\ r + 1 = SectorSize => dev'.idx = 0 /\ dev'.image = WithSector(dev.image, dev.lba, buf)
  BY <1>1, <1>2, <1>5, WriteDataIs
<1>9. Len(part) = r /\ SubSeq(buf, 1, r + 1) = Append(part, byte) /\ part \in Seq(Bytes)
  <2>1. dev.buf \in Sector
    BY <1>1, Fields
  <2>2. 1 \in 1 .. SectorSize + 1 /\ r \in 0 .. SectorSize
    BY Constants
  <2>3. part \in Seq(Bytes)
    BY <2>1, <2>2, Slices
  <2>4. Len(part) = r /\ SubSeq(buf, 1, r + 1) = Append(part, byte)
    <3> HIDE DEF part
    <3>1. PICK new \in Sector : new = [dev.buf EXCEPT ![r + 1] = byte] /\ new = buf
      BY <1>8
    <3>2. Len(SubSeq(dev.buf, 1, r)) = r /\ SubSeq(new, 1, r + 1) = Append(SubSeq(dev.buf, 1, r), byte)
      BY <2>1, <3>1, FilledSlice
    <3> QED
      BY <3>1, <3>2 DEF part
  <2> QED
    BY <2>3, <2>4
<1>10. /\ Transfer = [op |-> "WRITE", at |-> dev.lba, part |-> part, sectors |-> c - q]
       /\ q < c
  <2>1. /\ TransferOf(dev) = Abstract!Transfer("WRITE", SectorOf(job, q), job.count - q,
                                               SubSeq(dev.buf, 1, dev.idx))
        /\ q < job.count
    BY <1>1, <1>3, <1>4, WritingTransfer
  <2>2. c - q # 0 /\ q < c
    BY <1>6, <2>1
  <2> QED
    BY <1>5, <1>6, <2>1, <2>2, TransferIs DEF Abstract!Transfer
<1> HIDE DEF buf, part
<1>11. /\ Transfer.op = "WRITE" /\ Transfer.at = dev.lba /\ Transfer.sectors = c - q
       /\ Transfer.part = part
  BY <1>10
<1>12. PICK m \in Nat, p \in Nat : m = n + 1 /\ p = m \div SectorSize
  <2>1. PICK m \in Nat : m = n + 1
    OBVIOUS
  <2>2. m \div SectorSize \in Nat
    BY Constants, DivMod
  <2> QED
    BY <2>1, <2>2
<1>13. Transfer' = Abstract!Transfer("WRITE", SectorOf(job, p), c - p, SubSeq(dev'.buf, 1, dev'.idx))
  <2>1. TransferOf(dev') = Abstract!Transfer("WRITE", SectorOf(job', p), job'.count - p,
                                             SubSeq(dev'.buf, 1, dev'.idx))
    BY <1>1, <1>7, <1>12, WritingTransfer
  <2> QED
    BY <1>7, <2>1, TransferIs
<1>14. Len(Append(part, byte)) = r + 1
  BY <1>9, AppendProperties
<1>15. CASE r + 1 < SectorSize
  <2>1. p = q
    BY <1>3, <1>12, <1>15, Constants, NextByte
  <2>2. Transfer' = [op |-> "WRITE", at |-> dev.lba, part |-> Append(part, byte), sectors |-> c - q]
    <3>1. c - q # 0
      BY <1>10
    <3> QED
      BY <1>5, <1>8, <1>9, <1>13, <1>15, <2>1, <3>1 DEF Abstract!Transfer
  <2>3. [Transfer EXCEPT !.part = Append(part, byte)]
          = [op |-> "WRITE", at |-> dev.lba, part |-> Append(part, byte), sectors |-> c - q]
    <3>1. PICK t, k, at, more : t = Transfer /\ k = c - q /\ at = dev.lba /\ more = Append(part, byte)
      OBVIOUS
    <3>2. t = [op |-> "WRITE", at |-> at, part |-> part, sectors |-> k]
      BY <1>10, <3>1
    <3>3. [t EXCEPT !.part = more] = [op |-> "WRITE", at |-> at, part |-> more, sectors |-> k]
      BY <3>2
    <3> QED
      BY <3>1, <3>3
  <2>4. Transfer' = [Transfer EXCEPT !.part = Append(part, byte)] /\ dev'.image = dev.image
    BY <1>8, <1>15, <2>2, <2>3
  <2> QED
    BY <1>11, <1>14, <1>15, <2>4 DEF Abstract!WriteByte
<1>16. CASE r + 1 = SectorSize
  <2>1. p = q + 1
    BY <1>3, <1>12, <1>16, Constants, NextByte
  <2>2. SubSeq(dev'.buf, 1, dev'.idx) = <<>>
    BY <1>8, <1>16, SubSeqEmpty
  <2>3. Abstract!Following(dev.lba) = SectorOf(job, q + 1) /\ dev.lba \in Lbas
    <3>1. q + 1 \in Nat /\ dev.lba \in Lbas
      BY <1>1, Fields
    <3> QED
      BY <1>1, <1>5, <3>1, FollowingIs, Sectors
  <2>4. c - p = c - q - 1
    BY <2>1
  <2>5. Transfer' = Abstract!Transfer("WRITE", Abstract!Following(Transfer.at), Transfer.sectors - 1, <<>>)
    BY <1>11, <1>13, <2>1, <2>2, <2>3, <2>4
  <2>6. Append(part, byte) = buf
    BY <1>8, <1>9, <1>16, WholeSlice
  <2>7. Abstract!Stored(dev.lba, buf)
    BY <1>1, <1>8, <1>16, <2>3, StoredIs
  <2>8. ~ (Len(Append(part, byte)) < SectorSize)
    BY <1>14, <1>16
  <2> QED
    BY <1>11, <2>5, <2>6, <2>7, <2>8 DEF Abstract!WriteByte
<1> QED
  BY <1>15, <1>16, Constants

LEMMA Nothing == 0 \div SectorSize = 0 /\ 0 % SectorSize = 0
<1>1. 0 = SectorSize * 0 + 0 /\ 0 \in 0 .. SectorSize - 1 /\ 0 \in Nat
  BY Constants
<1> QED
  BY <1>1, Constants, IsDivMod

LEMMA OneSector == SectorSize \div SectorSize = 1 /\ SectorSize % SectorSize = 0
<1>1. PICK s \in Nat \ {0} : s = SectorSize
  BY Constants
<1>2. s = s * 1 + 0 /\ 1 \in Nat /\ s \in Nat /\ 0 \in 0 .. s - 1
  OBVIOUS
<1>3. s \div s = 1 /\ s % s = 0
  BY <1>2, IsDivMod
<1> QED
  BY <1>1, <1>3

\* What a WRITE command does to the disk.
LEMMA WriteImage ==
  ASSUME NEW d \in Device, NEW failed \in BOOLEAN
  PROVE  /\ d.idx = 0 => WriteCommand(d, "WRITE", failed).image = d.image
         /\ d.idx = SectorSize =>
              WriteCommand(d, "WRITE", failed).image = WithSector(d.image, d.lba, d.buf)
<1> DEFINE begun == Begin(d, "WRITE")
           busy == [begun EXCEPT !.busy = TRUE]
           stored == Commit(busy, failed)
<1>1. begun \in Device /\ begun.image = d.image /\ begun.lba = d.lba /\ begun.buf = d.buf
  <2>1. begun \in Device /\ begun = [d EXCEPT !.cmd = "WRITE", !.op = "WRITE", !.left = d.count * SectorSize]
    BY BeginType
  <2> HIDE DEF begun
  <2> QED
    BY <2>1 DEF Device
<1>2. WriteCommand(d, "WRITE", failed)
        = IF d.idx < SectorSize THEN busy ELSE [stored EXCEPT !.buf = Blank]
  BY DEF WriteCommand
<1> HIDE DEF begun
<1>3. /\ busy \in Device /\ busy.image = d.image /\ busy.lba = d.lba /\ busy.buf = d.buf
  BY <1>1 DEF Device
<1> HIDE DEF busy
<1>4. stored \in Device /\ stored.image = WithSector(d.image, d.lba, d.buf)
  <2>1. /\ stored \in Device
        /\ stored = [busy EXCEPT !.image = WithSector(busy.image, busy.lba, busy.buf),
                        !.err = busy.backed /\ failed, !.idx = 0, !.busy = FALSE,
                        !.lba = NextLba(busy.lba), !.left = Minus(busy.left, SectorSize)]
    BY <1>3, CommitIs
  <2> HIDE DEF stored
  <2> QED
    BY <1>3, <2>1 DEF Device
<1> HIDE DEF stored
<1>5. d.idx = 0 => d.idx < SectorSize
  BY Constants
<1>6. d.idx = SectorSize => ~ (d.idx < SectorSize)
  BY Constants
<1> QED
  BY <1>2, <1>3, <1>4, <1>5, <1>6 DEF Device

LEMMA StartReadImplements ==
  ASSUME WriteInv, WriteInv', StartRead
  PROVE  Abstract!BeginRead
<1>1. /\ dev \in Device /\ dev' \in Device /\ job' \in Job /\ Reading(dev', job')
  BY DEF WriteInv, ReadInv, TypeOK
<1>2. /\ job'.kind = "read" /\ job'.lba = dev.lba /\ job'.count = dev.count /\ job'.data = <<>>
      /\ dev' = ReadSector(Begin(dev, "READ"))
  BY DEF StartRead, StartJob, WriteCommand
<1>3. dev'.image = dev.image
  <2>1. Begin(dev, "READ") \in Device /\ Begin(dev, "READ").image = dev.image
    BY <1>1, BeginType DEF Begin, Device
  <2> QED
    BY <1>2, <2>1 DEF ReadSector, Device
<1>4. dev.lba \in Lbas /\ dev.count \in 1 .. MaxCount
  BY <1>1, Fields
<1>5. Len(job'.data) = 0 /\ Len(job'.data) < All(job')
  <2>1. PICK c \in Nat \ {0}, s \in Nat \ {0} : c = dev.count /\ s = SectorSize
    BY <1>4, Constants
  <2>2. s * 1 <= s * c
    BY Grows
  <2>3. s * 1 = s /\ s * c = c * s
    OBVIOUS
  <2>4. 0 < c * s
    BY <2>2, <2>3
  <2> QED
    BY <1>2, <2>1, <2>4 DEF All
<1>6. PICK n \in Nat, c \in Nat, q \in Nat, r \in 0 .. SectorSize - 1 :
        /\ n = Len(job'.data) /\ n < c * SectorSize /\ c = job'.count /\ c \in 1 .. MaxCount
        /\ n = SectorSize * q + r
        /\ q = n \div SectorSize /\ r = n % SectorSize
        /\ dev'.op = "READ" /\ dev'.left # 0 /\ dev'.idx = r /\ dev'.lba = SectorOf(job', q)
        /\ dev'.buf = SectorAt(dev'.image, dev'.lba)
        /\ (dev'.left + dev'.idx) \div SectorSize = c - q /\ q < c
  BY <1>1, <1>2, <1>5, ReadingIs
<1>7. n = 0 /\ q = 0 /\ r = 0
  BY <1>5, <1>6, Nothing
<1>8. SectorOf(job', 0) = dev.lba
  BY <1>1, <1>2, Sectors
<1>9. SectorAt(dev.image, dev.lba) \in Sector
  BY <1>1, <1>4, Fields, SectorAtType
<1>10. /\ dev'.op = "READ" /\ dev'.left # 0 /\ dev'.idx = 0 /\ dev'.lba = dev.lba
       /\ dev'.buf = SectorAt(dev.image, dev.lba)
       /\ (dev'.left + dev'.idx) \div SectorSize = dev.count
  <2>1. c - q = dev.count
    <3>1. c = dev.count /\ q = 0
      BY <1>2, <1>6, <1>7, Zenon
    <3>2. c - 0 = c
      OBVIOUS
    <3> QED
      BY <3>1, <3>2
  <2> QED
    BY <1>3, <1>6, <1>7, <1>8, <2>1
<1>11. SubSeq(dev'.buf, 0 + 1, SectorSize) = SectorAt(dev.image, dev.lba)
  BY <1>9, <1>10, WholeSlice
<1>12. Transfer' = [op |-> "READ", at |-> dev.lba, part |-> SectorAt(dev.image, dev.lba),
                    sectors |-> dev.count]
  BY <1>10, <1>11 DEF Transfer
<1>13. Transfer' = Abstract!Transfer("READ", dev.lba, dev.count, Abstract!Content(dev.lba))
  <2>1. dev.count # 0
    BY <1>4
  <2> QED
    BY <1>1, <1>4, <1>12, <2>1, ContentIs DEF Abstract!Transfer
<1>14. dev.lba \in 0 .. (Radix ^ Digits) - 1
  BY <1>4 DEF Lbas
<1> QED
  BY <1>3, <1>4, <1>13, <1>14 DEF Abstract!BeginRead

LEMMA StartWriteImplements ==
  ASSUME Resets, WriteInv, WriteInv', StartWrite
  PROVE  Abstract!BeginWrite
<1>1. /\ dev \in Device /\ dev' \in Device /\ job' \in Job /\ Writing(dev', job')
  BY DEF WriteInv, ReadInv, TypeOK
<1>2. PICK failed \in BOOLEAN :
        /\ job'.kind = "write" /\ job'.lba = dev.lba /\ job'.count = dev.count /\ job'.data = <<>>
        /\ dev' = WriteCommand(Reset(dev), "WRITE", failed)
  BY DEF StartWrite, StartJob, Prepared
<1>3. dev'.image = dev.image
  <2>1. Reset(dev) \in Device /\ Reset(dev).idx = 0 /\ Reset(dev).image = dev.image
    BY <1>1, ResetType DEF Reset, Device
  <2> QED
    BY <1>2, <2>1, WriteImage
<1>4. dev.lba \in Lbas /\ dev.count \in 1 .. MaxCount
  BY <1>1, Fields
<1>5. Len(job'.data) = 0 /\ dev'.idx = 0
  BY <1>1, <1>2, Nothing DEF Writing
<1>6. TransferOf(dev') = Abstract!Transfer("WRITE", SectorOf(job', 0), job'.count - 0,
                                           SubSeq(dev'.buf, 1, dev'.idx))
  <2>1. 0 = Len(job'.data) /\ 0 = 0 \div SectorSize /\ 0 \in Nat
    BY <1>5, Nothing
  <2> QED
    BY <1>1, <1>2, <2>1, WritingTransfer
<1>7. SectorOf(job', 0) = dev.lba /\ job'.count - 0 = dev.count
  BY <1>1, <1>2, <1>4, Sectors
<1>8. SubSeq(dev'.buf, 1, dev'.idx) = <<>>
  BY <1>5, SubSeqEmpty
<1>9. Transfer' = Abstract!Transfer("WRITE", dev.lba, dev.count, <<>>)
  BY <1>6, <1>7, <1>8, TransferIs
<1>10. dev.lba \in 0 .. (Radix ^ Digits) - 1
  BY <1>4 DEF Lbas
<1> QED
  BY <1>3, <1>4, <1>9, <1>10 DEF Abstract!BeginWrite

LEMMA WriteStagedImplements ==
  ASSUME WriteInv, WriteInv', WriteStaged
  PROVE  Abstract!BeginWrite
<1>1. /\ dev \in Device /\ dev' \in Device /\ job \in Job /\ job' \in Job
      /\ Staging(dev, job) /\ Writing(dev', job')
  BY DEF WriteInv, ReadInv, TypeOK
<1>2. PICK failed \in BOOLEAN : dev' = WriteCommand(dev, "WRITE", failed)
  BY DEF WriteStaged
<1>3. /\ job.kind = "stage" /\ Len(job.data) = SectorSize
      /\ job' = [job EXCEPT !.kind = "write"]
  BY DEF WriteStaged
<1>4. dev.count = job.count /\ dev.lba = job.lba /\ dev.idx = SectorSize
  BY <1>1, <1>3 DEF Staging
<1>5. /\ job'.kind = "write" /\ job'.lba = dev.lba /\ job'.count = dev.count
      /\ Len(job'.data) = SectorSize
  BY <1>1, <1>3, <1>4 DEF Job
<1>6. dev'.image = WithSector(dev.image, dev.lba, dev.buf)
  BY <1>1, <1>2, <1>4, WriteImage
<1>7. dev.lba \in Lbas /\ dev.count \in 1 .. MaxCount /\ dev.buf \in Sector
  BY <1>1, Fields
<1>8. dev'.idx = 0
  BY <1>1, <1>5, OneSector DEF Writing
<1>9. TransferOf(dev') = Abstract!Transfer("WRITE", SectorOf(job', 1), job'.count - 1,
                                           SubSeq(dev'.buf, 1, dev'.idx))
  <2>1. PICK n \in Nat : n = SectorSize /\ 1 = n \div SectorSize /\ 1 \in Nat
    BY OneSector, Constants
  <2>2. n = Len(job'.data)
    BY <1>5, <2>1
  <2> QED
    BY <1>1, <1>5, <2>1, <2>2, WritingTransfer
<1>10. Abstract!Following(dev.lba) = SectorOf(job', 1)
  <2>1. SectorOf(job', 0) = job'.lba /\ NextLba(SectorOf(job', 0)) = SectorOf(job', 0 + 1)
    BY <1>1, Sectors
  <2> QED
    BY <1>5, <1>7, <2>1, FollowingIs
<1>11. SubSeq(dev'.buf, 1, dev'.idx) = <<>>
  BY <1>8, SubSeqEmpty
<1>12. Transfer' = Abstract!Transfer("WRITE", Abstract!Following(dev.lba), dev.count - 1, <<>>)
  BY <1>5, <1>9, <1>10, <1>11, TransferIs
<1>13. Abstract!Stored(dev.lba, dev.buf)
  BY <1>1, <1>6, <1>7, StoredIs
<1>14. dev.lba \in 0 .. (Radix ^ Digits) - 1 /\ dev.buf \in [1 .. SectorSize -> Bytes]
  BY <1>7 DEF Lbas, Sector
<1> QED
  BY <1>7, <1>12, <1>13, <1>14 DEF Abstract!BeginWrite

LEMMA ImplementsInit == Init => Abstract!Init
BY DEF Init, New, Transfer, Abstract!Init, Abstract!NoTransfer

\* A step that leaves the transfer and the disk alone is none of Disk.
LEMMA Stutters ==
  ASSUME dev \in Device, dev'.op = dev.op, dev'.left = dev.left, dev'.lba = dev.lba,
         dev'.buf = dev.buf, dev'.idx = dev.idx, dev'.image = dev.image
  PROVE  UNCHANGED <<dev.image, Transfer>>
BY DEF Transfer

LEMMA ImplementsStep ==
  ASSUME Resets, WriteInv, WriteInv', [Next]_vars
  PROVE  [Abstract!Next]_<<dev.image, Transfer>>
<1>1. /\ TypeOK /\ dev \in Device /\ job \in Job /\ Started /\ Staging(dev, job)
      /\ Idle(dev, job) /\ Idle(dev', job')
  BY DEF WriteInv, ReadInv, TypeOK
<1>2. ASSUME dev'.image = dev.image, dev.op = "none" \/ dev.left = 0,
             dev'.op = "none" \/ dev'.left = 0
      PROVE  UNCHANGED <<dev.image, Transfer>>
  BY <1>2, NoTransferIs
<1>3. CASE SetRegisters
  <2>1. dev'.image = dev.image
    BY <1>1, <1>3 DEF SetRegisters, WriteCount, WriteLba, Device
  <2>2. job.kind = "none" /\ job' = job
    BY <1>3 DEF SetRegisters
  <2> QED
    BY <1>1, <1>2, <2>1, <2>2 DEF Idle
<1>4. CASE StartRead
  BY <1>4, StartReadImplements DEF Abstract!Next
<1>5. CASE StartWrite
  BY <1>5, StartWriteImplements DEF Abstract!Next
<1>6. CASE StartStage
  <2>1. dev' = Reset(dev)
    BY <1>6 DEF StartStage, StartJob, Prepared
  <2>2. dev'.image = dev.image /\ dev'.op = "none"
    BY <1>1, <2>1 DEF Reset, Device
  <2> QED
    BY <2>2, NoTransferIs DEF Abstract!Next, Abstract!Abandon
<1>7. CASE ReadByte
  BY <1>7, ReadByteImplements DEF Abstract!Next
<1>8. CASE WriteByte
  BY <1>8, WriteByteImplements DEF Abstract!Next
<1>9. CASE StageByte
  <2>1. PICK byte \in Bytes : dev' = WriteData(dev, byte, FALSE)
    BY <1>9 DEF StageByte
  <2>2. job.kind = "stage" /\ dev.op = "none"
    BY <1>1, <1>9 DEF StageByte, Staging
  <2>3. dev'.image = dev.image /\ dev'.op = "none"
    <3> DEFINE moved == [dev EXCEPT !.buf[dev.idx + 1] = byte, !.idx = @ + 1]
    <3>1. moved.image = dev.image /\ moved.op = "none"
      BY <1>1, <2>2 DEF Device
    <3>2. dev' \in {dev, moved}
      BY <2>1, <2>2 DEF WriteData
    <3> HIDE DEF moved
    <3> QED
      BY <2>2, <3>1, <3>2
  <2> QED
    BY <1>2, <2>2, <2>3
<1>10. CASE WriteStaged
  BY <1>10, WriteStagedImplements DEF Abstract!Next
<1>11. CASE EndJob
  BY <1>11 DEF EndJob, Transfer
<1>12. CASE ReadStatus
  BY <1>1, <1>12, Stutters DEF ReadStatus, AfterReadStatus, Device
<1>13. CASE GiveReset
  <2>1. dev'.image = dev.image /\ dev'.op = "none"
    BY <1>1, <1>13 DEF GiveReset, Reset, Device
  <2> QED
    BY <2>1, NoTransferIs DEF Abstract!Next, Abstract!Abandon
<1>14. CASE GiveOther
  BY <1>1, <1>14, Stutters DEF GiveOther, WriteCommand, Device
<1>15. CASE Poll
  BY <1>1, <1>15, Stutters DEF Poll, AfterPoll, Device
<1>16. CASE Insert
  <2>1. PICK image \in Images, backed \in BOOLEAN :
          dev' = [dev EXCEPT !.image = image, !.backed = backed]
    BY <1>16 DEF Insert
  <2>2. dev'.image \in Seq(Bytes) /\ dev'.op = dev.op /\ dev'.left = dev.left
    BY <1>1, <2>1, Constants DEF Device
  <2>3. dev.op = "none" \/ dev.left = 0
    BY <1>1, <1>16 DEF Insert, SettingUp, Started, Idle
  <2> QED
    BY <2>2, <2>3, NoTransferIs DEF Abstract!Next, Abstract!Exchange
<1>17. CASE SetInterrupt
  BY <1>1, <1>17, Stutters DEF SetInterrupt, Device
<1>18. CASE UNCHANGED vars
  BY <1>18 DEF vars, Transfer
<1> QED
  BY <1>3, <1>4, <1>5, <1>6, <1>7, <1>8, <1>9, <1>10, <1>11, <1>12, <1>13, <1>14, <1>15, <1>16,
     <1>17, <1>18 DEF Next

\* Used by a guest that resets it before every write, the device is the disk of Disk:
\* one buffer, one index and one counter serve both directions, yet no byte is
\* moved twice, skipped or stored anywhere but at its place.
THEOREM DiskImplemented ==
  ASSUME Resets
  PROVE  Spec => ImplementsDisk
<1>1. WriteInv /\ WriteInv' /\ [Next]_vars => [Abstract!Next]_<<dev.image, Transfer>>
  BY ImplementsStep
<1>2. Init => Abstract!Init
  BY ImplementsInit
<1> QED
  BY <1>1, <1>2, WriteInvAlways, PTL DEF Spec, ImplementsDisk, Abstract!Spec

=============================================================================
