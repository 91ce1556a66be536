---------------------------- MODULE BlockDriver ----------------------------
(***************************************************************************)
(* The block device with a guest that keeps to the protocol in its header  *)
(* comment and its tests: set SECCNT and LBA, give a command, move every   *)
(* byte of the transfer through DATA (for a WRITE also: fill the buffer    *)
(* first).  It may look at STATUS, reset the device and so abandon what it *)
(* is doing, or give a wrong command.  The CPU polls the interrupt line    *)
(* all the time; the host changes disks and settings.                      *)
(***************************************************************************)
EXTENDS BlockDev

CONSTANTS
  Resets,       \* the guest resets the device before every write
  Images,       \* disks that the host puts in
  MaxJobs       \* BOUND on the commands that begin a transfer

ASSUME DriverAssumption ==
  /\ Resets \in BOOLEAN
  /\ Images \subseteq Seq(Bytes)
  /\ MaxJobs \in Nat

VARIABLES
  dev,
  job,          \* what the guest is doing and the bytes it has moved so far
  jobs          \* transfers begun

vars == <<dev, job, jobs>>

Job == [kind : {"none", "read", "write", "stage"}, lba : Lbas, count : 0 .. MaxCount,
        data : Seq(Bytes)]

NoJob == [kind |-> "none", lba |-> 0, count |-> 0, data |-> <<>>]

Moved(byte) == job' = [job EXCEPT !.data = Append(@, byte)]

-----------------------------------------------------------------------------
(* The guest.                                                              *)

\* SECCNT and LBA are left alone during a transfer.
SetRegisters ==
  /\ job.kind = "none"
  /\ \/ \E n \in 0 .. MaxCount : dev' = WriteCount(dev, n)
     \/ \E k \in 0 .. Digits - 1, digit \in 0 .. Radix - 1 : dev' = WriteLba(dev, k, digit)
  /\ UNCHANGED <<job, jobs>>

Prepared == IF Resets THEN Reset(dev) ELSE dev

StartJob(kind, d) ==
  /\ job.kind = "none"
  /\ jobs < MaxJobs
  /\ jobs' = jobs + 1
  /\ job' = [kind |-> kind, lba |-> dev.lba, count |-> dev.count, data |-> <<>>]
  /\ dev' = d

StartRead  == StartJob("read", WriteCommand(dev, "READ", FALSE))
StartWrite == \E failed \in BOOLEAN : StartJob("write", WriteCommand(Prepared, "WRITE", failed))
StartStage == StartJob("stage", Prepared)

ReadByte ==
  /\ job.kind = "read" /\ dev.drdy
  /\ Moved(Data(dev))
  /\ dev' = AfterReadData(dev)
  /\ UNCHANGED jobs

WriteByte ==
  /\ job.kind = "write" /\ Len(job.data) < job.count * SectorSize
  /\ \E byte \in Bytes, failed \in BOOLEAN :
       Moved(byte) /\ dev' = WriteData(dev, byte, failed)
  /\ UNCHANGED jobs

StageByte ==
  /\ job.kind = "stage" /\ Len(job.data) < SectorSize
  /\ \E byte \in Bytes : Moved(byte) /\ dev' = WriteData(dev, byte, FALSE)
  /\ UNCHANGED jobs

\* The staged sector is the first one of the write.
WriteStaged ==
  /\ job.kind = "stage" /\ Len(job.data) = SectorSize
  /\ job' = [job EXCEPT !.kind = "write"]
  /\ \E failed \in BOOLEAN : dev' = WriteCommand(dev, "WRITE", failed)
  /\ UNCHANGED jobs

EndJob ==
  /\ \/ job.kind = "read" /\ ~ dev.drdy
     \/ job.kind = "write" /\ Len(job.data) = job.count * SectorSize
  /\ job' = NoJob
  /\ UNCHANGED <<dev, jobs>>

ReadStatus ==
  /\ dev' = AfterReadStatus(dev)
  /\ UNCHANGED <<job, jobs>>

GiveReset ==
  /\ dev' = Reset(dev) /\ job' = NoJob
  /\ UNCHANGED jobs

GiveOther ==
  /\ job.kind = "none"
  /\ \E command \in {"NOP", "unknown"} : dev' = WriteCommand(dev, command, FALSE)
  /\ UNCHANGED <<job, jobs>>

-----------------------------------------------------------------------------
(* The CPU and the host.                                                   *)

\* The poll that reports Line(dev).
Poll ==
  /\ dev' = AfterPoll(dev)
  /\ UNCHANGED <<job, jobs>>

\* BOUND: the host sets the device up before the first transfer only.
SettingUp == jobs = 0

\* set_image and set_backing_file
Insert ==
  /\ SettingUp
  /\ \E image \in Images, backed \in BOOLEAN :
       dev' = [dev EXCEPT !.image = image, !.backed = backed]
  /\ UNCHANGED <<job, jobs>>

\* set_irq_enable and set_irq_hold_cycles
SetInterrupt ==
  /\ SettingUp
  /\ \E enable \in BOOLEAN, hold \in 0 .. MaxHold :
       dev' = [dev EXCEPT !.enable = enable, !.hold = hold]
  /\ UNCHANGED <<job, jobs>>

Init == dev = New /\ job = NoJob /\ jobs = 0

Next ==
  \/ SetRegisters \/ StartRead \/ StartWrite \/ StartStage
  \/ ReadByte \/ WriteByte \/ StageByte \/ WriteStaged \/ EndJob
  \/ ReadStatus \/ GiveReset \/ GiveOther
  \/ Poll \/ Insert \/ SetInterrupt

\* Cpu::step polls the bus after every instruction.
Spec == Init /\ [][Next]_vars /\ WF_vars(Poll)

-----------------------------------------------------------------------------
(* Properties.                                                             *)

\* Registers keep their ranges; SECCNT is never zero.
TypeOK ==
  /\ dev \in Device
  /\ job \in Job
  /\ jobs \in 0 .. MaxJobs

\* The sector that is i sectors into the job.
JobLba(i) == (job.lba + i) % Radix ^ Digits

\* Every byte that a READ has answered is the byte of the disk at its place in
\* the sectors asked for, or zero beyond the end of the disk; and DRDY is set
\* exactly as long as bytes are to come, so that a guest that reads while DRDY is
\* set gets SECCNT sectors, neither more nor less.
ReadDelivers ==
  job.kind = "read" =>
    /\ \A i \in 1 .. Len(job.data) :
         job.data[i] = SectorAt(dev.image, JobLba((i - 1) \div SectorSize))
                         [((i - 1) % SectorSize) + 1]
    /\ dev.drdy <=> Len(job.data) < job.count * SectorSize

\* Every whole sector that the guest has moved for a WRITE is on the disk, at
\* the place in the sectors asked for.
WriteLands ==
  job.kind = "write" =>
    \A i \in 0 .. (Len(job.data) \div SectorSize) - 1 :
      \* a write of the whole address space and more overwrites itself
      i + Radix ^ Digits >= Len(job.data) \div SectorSize =>
        SectorAt(dev.image, JobLba(i)) = SubSeq(job.data, i * SectorSize + 1, (i + 1) * SectorSize)

\* Nothing is pending: no data, no error.
Quiet == ~ dev.drdy /\ ~ dev.err

\* When nothing is pending any more the line falls for good, after the polls
\* for which it is held; a completed WRITE is the exception.
LineFalls == <>[](Quiet /\ dev.cmd # "WRITE") => <>[]~ Line(dev)

\* The device implements Disk.
Transfer ==
  IF dev.op = "none" \/ dev.left = 0
  THEN [op |-> "none", at |-> 0, sectors |-> 0, part |-> <<>>]
  ELSE IF dev.op = "READ"
  THEN [op |-> "READ", at |-> dev.lba, part |-> SubSeq(dev.buf, dev.idx + 1, SectorSize),
        sectors |-> (dev.left + dev.idx) \div SectorSize]
  ELSE [op |-> "WRITE", at |-> dev.lba, part |-> SubSeq(dev.buf, 1, dev.idx),
        sectors |-> dev.left \div SectorSize]

Abstract == INSTANCE Disk WITH
  Sectors <- Radix ^ Digits, image <- dev.image, transfer <- Transfer

ImplementsDisk == Abstract!Spec

=============================================================================
