---------------------------- MODULE WriteAheadLog ----------------------------
(***************************************************************************)
(* MiniDB::Storage::WriteAheadLog: an append-only file of framed entries,  *)
(* an in-memory offset index, and the recovery scan of open().             *)
(*                                                                         *)
(* The file is a sequence of cells.  A frame of payload p takes Blocks[p]  *)
(* consecutive cells and its k-th cell is <<frame, k>>: a frame cut short, *)
(* or overwritten in part by another frame, is one whose cells do not all  *)
(* agree, which is what the length checks and the CRC detect.  A cell that *)
(* is not the first of its frame never starts a valid frame.               *)
(*                                                                         *)
(* file is what a read sees (the page cache); synced is what stable        *)
(* storage holds.  They are made equal by fsync, and drift together cell   *)
(* by cell in any order (Writeback); a power loss leaves synced.           *)
(*                                                                         *)
(* open() scans one frame per step and append() writes a run of cells per  *)
(* step, so a crash can fall between any two system calls.                 *)
(*                                                                         *)
(* One pread need not return all of a frame: Linux hands back at most      *)
(* 0x7ffff000 bytes, the Windows layer 2^30, where pwrite is in a loop and *)
(* writes a frame of any size.  ShortReads are the payloads whose frames   *)
(* may be read in part; the scan takes such a frame for a torn one.        *)
(***************************************************************************)
EXTENDS Naturals, Sequences

CONSTANTS Terms,              \* the terms callers pass to append()
          Payloads,           \* the payloads callers pass to append()
          Blocks,             \* cells a frame holding the payload occupies
          ShortReads,         \* payloads whose frame one pread may return in part
          MaxIndex,           \* bound: no append() once the log is this long
          PowerLossPossible   \* whether the machine, not just the process, may fail

ASSUME WALAssumption ==
  /\ Terms \subseteq Nat /\ Terms # {}
  /\ Payloads # {}
  /\ Blocks \in [Payloads -> Nat \ {0}]
  /\ ShortReads \subseteq Payloads
  /\ MaxIndex \in Nat
  /\ PowerLossPossible \in BOOLEAN

VARIABLES
  file,         \* the cells a read of the backing file returns
  synced,       \* the cells on stable storage
  fd,           \* TRUE when the descriptor is open (fd_ >= 0)
  phase,        \* "idle", or the call in progress: "scan" (open), "append"
  offsetIndex,  \* offsetIndex_: where the frame of entry i starts
  lastIndex,    \* lastIndex_
  lastTerm,     \* lastTerm_
  writeOffset,  \* writeOffset_
  pos,          \* open()'s scan position
  pending,      \* append()'s buf: the frame being written
  written,      \* append()'s written: how many of its cells are in the file
  ret,          \* the last call that returned, its argument and its Status
  acked         \* history: the entries append() confirmed, and where each one
                \* lies, less those truncateFrom() discarded since and those
                \* an open() cut off because its pread returned short

mem  == <<offsetIndex, lastIndex, lastTerm, writeOffset>>
call == <<pos, pending, written>>
vars == <<file, synced, fd, phase, mem, call, ret, acked>>

-----------------------------------------------------------------------------
(* Frames and cells.                                                       *)

INVALID_LOG_INDEX == 0
INVALID_TERM == 0

Entry == [index : Nat \ {0}, term : Terms, payload : Payloads]
NoFrame == [index |-> INVALID_LOG_INDEX, term |-> INVALID_TERM,
            payload |-> CHOOSE p \in Payloads : TRUE]
Cell(fr, k) == [frame |-> fr, part |-> k]
Zero == Cell(NoFrame, 0)       \* allocated by a size change, never written
Cells == [frame : Entry, part : Nat \ {0}] \cup {Zero}

FrameSize(fr) == Blocks[fr.payload]

(* Mutant: a frame that ends where the file does counts as cut.             *)
FrameBeforeEnd(f, off, fr) ==
  /\ off + FrameSize(fr) < Len(f)
  /\ \A k \in 1 .. FrameSize(fr) : f[off + k] = Cell(fr, k)

(* All the cells of fr are in f from offset off on: the body is inside the  *)
(* file, the length fields are consistent and the checksum matches.         *)
FrameAt(f, off, fr) ==
  /\ off + FrameSize(fr) <= Len(f)
  /\ \A k \in 1 .. FrameSize(fr) : f[off + k] = Cell(fr, k)

HeadAt(f, off) == f[off + 1].frame

(* The scan accepts what it finds at off as entry n.                        *)
ValidFrame(f, off, n) ==
  /\ off < Len(f)
  /\ f[off + 1] # Zero
  /\ FrameAt(f, off, HeadAt(f, off))
  /\ HeadAt(f, off).index = n

(* ... unless the read of it comes back short.                              *)
ShortRead(f, off, n) == ValidFrame(f, off, n) /\ HeadAt(f, off).payload \in ShortReads

Resize(f, n) == [i \in 1 .. n |-> IF i <= Len(f) THEN f[i] ELSE Zero]

(* pwrite of the n cells of fr that follow its first k, at offset at.       *)
WriteCells(f, at, fr, k, n) ==
  [i \in 1 .. (IF at + n > Len(f) THEN at + n ELSE Len(f)) |->
     IF i \in at + 1 .. at + n THEN Cell(fr, k + i - at) ELSE f[i]]

-----------------------------------------------------------------------------
Result(c, arg, status) == [call |-> c, index |-> arg, status |-> status]
NoResult == Result("none", 0, "OK")
Returns(c, arg, status) == ret' = Result(c, arg, status)

(* The confirmed entries a cut after entry n leaves.                        *)
FirstAcked(n) == [j \in 1 .. (IF n < Len(acked) THEN n ELSE Len(acked)) |-> acked[j]]

NoCall == pos = 0 /\ pending = NoFrame /\ written = 0
EndCall == phase' = "idle" /\ pos' = 0 /\ pending' = NoFrame /\ written' = 0
EmptyMem == /\ offsetIndex' = <<>>
            /\ lastIndex' = INVALID_LOG_INDEX
            /\ lastTerm' = INVALID_TERM
            /\ writeOffset' = 0

Init == /\ file = <<>> /\ synced = <<>>
        /\ fd = FALSE /\ phase = "idle"
        /\ offsetIndex = <<>>
        /\ lastIndex = INVALID_LOG_INDEX /\ lastTerm = INVALID_TERM
        /\ writeOffset = 0
        /\ NoCall
        /\ ret = NoResult
        /\ acked = <<>>

-----------------------------------------------------------------------------
(* open(), on a closed log or again on an open one.                        *)

OpenFails ==                       \* sysOpen fails: the old index stays
  /\ phase = "idle"
  /\ fd' = FALSE
  /\ Returns("open", 0, "IO_ERROR")
  /\ UNCHANGED <<file, synced, phase, mem, call, acked>>

SizeFails ==                       \* sysFileSize fails
  /\ phase = "idle"
  /\ fd' = FALSE
  /\ EmptyMem
  /\ Returns("open", 0, "IO_ERROR")
  /\ UNCHANGED <<file, synced, phase, call, acked>>

OpenBegin ==
  /\ phase = "idle"
  /\ fd' = TRUE /\ phase' = "scan"
  /\ EmptyMem
  /\ ret' = NoResult
  /\ UNCHANGED <<file, synced, call, acked>>

ScanAccept ==
  /\ phase = "scan"
  /\ ValidFrame(file, pos, Len(offsetIndex) + 1)
  /\ LET fr == HeadAt(file, pos) IN
       /\ offsetIndex' = Append(offsetIndex, pos)
       /\ lastIndex' = fr.index
       /\ lastTerm' = fr.term
       /\ pos' = pos + FrameSize(fr)
  /\ UNCHANGED <<file, synced, fd, phase, writeOffset, pending, written, ret, acked>>

ScanReadError ==
  /\ phase = "scan"
  /\ pos < Len(file)
  /\ fd' = FALSE
  /\ EndCall
  /\ Returns("open", 0, "IO_ERROR")
  /\ UNCHANGED <<file, synced, mem, acked>>

ScanStop ==
  /\ phase = "scan"
  /\ ~ValidFrame(file, pos, Len(offsetIndex) + 1)
  /\ file' = Resize(file, pos)
  /\ writeOffset' = pos
  /\ EndCall
  /\ Returns("open", 0, "OK")
  /\ UNCHANGED <<synced, fd, offsetIndex, lastIndex, lastTerm, acked>>

(* The pread of a whole, valid frame returns fewer bytes than the frame     *)
(* has: it is cut off the file with all that follows it, confirmed or not.  *)
ScanShort ==
  /\ phase = "scan"
  /\ ShortRead(file, pos, Len(offsetIndex) + 1)
  /\ file' = Resize(file, pos)
  /\ writeOffset' = pos
  /\ acked' = FirstAcked(Len(offsetIndex))
  /\ EndCall
  /\ Returns("open", 0, "OK")
  /\ UNCHANGED <<synced, fd, offsetIndex, lastIndex, lastTerm>>

ScanTruncateError ==
  /\ phase = "scan"
  /\ \/ ~ValidFrame(file, pos, Len(offsetIndex) + 1)
     \/ ShortRead(file, pos, Len(offsetIndex) + 1)
  /\ pos # Len(file)
  /\ fd' = FALSE
  /\ EndCall
  /\ Returns("open", 0, "IO_ERROR")
  /\ UNCHANGED <<file, synced, mem, acked>>

-----------------------------------------------------------------------------
(* append(term, payload).                                                  *)

AppendClosed ==
  /\ phase = "idle" /\ ~fd
  /\ Returns("append", 0, "IO_ERROR")
  /\ UNCHANGED <<file, synced, fd, phase, mem, call, acked>>

AppendBegin(t, p) ==
  /\ phase = "idle" /\ fd
  /\ lastIndex < MaxIndex
  /\ phase' = "append"
  /\ pending' = [index |-> lastIndex + 1, term |-> t, payload |-> p]
  /\ ret' = NoResult
  /\ UNCHANGED <<file, synced, fd, mem, pos, written, acked>>

(* Mutant: a short write restarts the count instead of adding to it.        *)
PwriteRestart(n) ==
  /\ phase = "append"
  /\ n \in 1 .. FrameSize(pending) - written
  /\ file' = WriteCells(file, writeOffset + written, pending, written, n)
  /\ written' = n
  /\ UNCHANGED <<synced, fd, phase, mem, pos, pending, ret, acked>>

(* sysPwrite puts n cells, possibly fewer than asked, and the loop goes on. *)
Pwrite(n) ==
  /\ phase = "append"
  /\ n \in 1 .. FrameSize(pending) - written
  /\ file' = WriteCells(file, writeOffset + written, pending, written, n)
  /\ written' = written + n
  /\ UNCHANGED <<synced, fd, phase, mem, pos, pending, ret, acked>>

PwriteError ==
  /\ phase = "append"
  /\ written < FrameSize(pending)
  /\ EndCall
  /\ Returns("append", 0, "IO_ERROR")
  /\ UNCHANGED <<file, synced, fd, mem, acked>>

(* Mutant: the in-memory state moves before fsync is known to succeed.      *)
FsyncErrorAdvances ==
  /\ phase = "append"
  /\ written = FrameSize(pending)
  /\ offsetIndex' = Append(offsetIndex, writeOffset)
  /\ writeOffset' = writeOffset + FrameSize(pending)
  /\ lastIndex' = pending.index
  /\ lastTerm' = pending.term
  /\ EndCall
  /\ Returns("append", 0, "IO_ERROR")
  /\ UNCHANGED <<file, synced, fd, acked>>

FsyncError ==
  /\ phase = "append"
  /\ written = FrameSize(pending)
  /\ EndCall
  /\ Returns("append", 0, "IO_ERROR")
  /\ UNCHANGED <<file, synced, fd, mem, acked>>

(* Mutant: append() returns OK without fsync.                               *)
FsyncSkipped ==
  /\ phase = "append"
  /\ written = FrameSize(pending)
  /\ offsetIndex' = Append(offsetIndex, writeOffset)
  /\ writeOffset' = writeOffset + FrameSize(pending)
  /\ lastIndex' = pending.index
  /\ lastTerm' = pending.term
  /\ EndCall
  /\ Returns("append", pending.index, "OK")
  /\ acked' = [i \in 1 .. pending.index |->
                 [off |-> offsetIndex'[i], frame |-> HeadAt(file, offsetIndex'[i])]]
  /\ UNCHANGED <<file, synced, fd>>

(* The whole file is now stable, so everything the index names is too.      *)
FsyncOk ==
  /\ phase = "append"
  /\ written = FrameSize(pending)
  /\ synced' = file
  /\ offsetIndex' = Append(offsetIndex, writeOffset)
  /\ writeOffset' = writeOffset + FrameSize(pending)
  /\ lastIndex' = pending.index
  /\ lastTerm' = pending.term
  /\ EndCall
  /\ Returns("append", pending.index, "OK")
  /\ acked' = [i \in 1 .. pending.index |->
                 [off |-> offsetIndex'[i], frame |-> HeadAt(file, offsetIndex'[i])]]
  /\ UNCHANGED <<file, fd>>

-----------------------------------------------------------------------------
(* truncateFrom(index).  Nothing is synced.                                *)

TruncateClosed(i) ==
  /\ phase = "idle" /\ ~fd
  /\ Returns("truncateFrom", i, "IO_ERROR")
  /\ UNCHANGED <<file, synced, fd, phase, mem, call, acked>>

TruncateAll ==
  /\ phase = "idle" /\ fd
  /\ file' = <<>>
  /\ EmptyMem
  /\ acked' = <<>>
  /\ Returns("truncateFrom", INVALID_LOG_INDEX, "OK")
  /\ UNCHANGED <<synced, fd, phase, call>>

TruncateNothing(i) ==
  /\ phase = "idle" /\ fd
  /\ i > lastIndex
  /\ Returns("truncateFrom", i, "OK")
  /\ UNCHANGED <<file, synced, fd, phase, mem, call, acked>>

(* Mutant: writeOffset_ is not moved back.                                  *)
TruncateTailKeepsOffset(i) ==
  /\ phase = "idle" /\ fd
  /\ i \in 1 .. lastIndex
  /\ file' = Resize(file, offsetIndex[i])
  /\ offsetIndex' = [j \in 1 .. i - 1 |-> offsetIndex[j]]
  /\ lastIndex' = i - 1
  /\ lastTerm' = IF i = 1 THEN INVALID_TERM ELSE HeadAt(file, offsetIndex[i - 1]).term
  /\ acked' = FirstAcked(i - 1)
  /\ Returns("truncateFrom", i, "OK")
  /\ UNCHANGED <<synced, writeOffset, fd, phase, call>>

(* Mutant: the file itself is not cut.                                      *)
TruncateTailInMemory(i) ==
  /\ phase = "idle" /\ fd
  /\ i \in 1 .. lastIndex
  /\ offsetIndex' = [j \in 1 .. i - 1 |-> offsetIndex[j]]
  /\ lastIndex' = i - 1
  /\ lastTerm' = IF i = 1 THEN INVALID_TERM ELSE HeadAt(file, offsetIndex[i - 1]).term
  /\ writeOffset' = offsetIndex[i]
  /\ acked' = FirstAcked(i - 1)
  /\ Returns("truncateFrom", i, "OK")
  /\ UNCHANGED <<file, synced, fd, phase, call>>

(* Mutant: the new last index is one too low.                               *)
TruncateTailOffByOne(i) ==
  /\ phase = "idle" /\ fd
  /\ i \in 1 .. lastIndex
  /\ file' = Resize(file, offsetIndex[i])
  /\ offsetIndex' = [j \in 1 .. i - 1 |-> offsetIndex[j]]
  /\ lastIndex' = i - 2
  /\ lastTerm' = IF i = 1 THEN INVALID_TERM ELSE HeadAt(file, offsetIndex[i - 1]).term
  /\ writeOffset' = offsetIndex[i]
  /\ acked' = FirstAcked(i - 1)
  /\ Returns("truncateFrom", i, "OK")
  /\ UNCHANGED <<synced, fd, phase, call>>

TruncateTail(i) ==
  /\ phase = "idle" /\ fd
  /\ i \in 1 .. lastIndex
  /\ file' = Resize(file, offsetIndex[i])
  /\ offsetIndex' = [j \in 1 .. i - 1 |-> offsetIndex[j]]
  /\ lastIndex' = i - 1
  /\ lastTerm' = IF i = 1 THEN INVALID_TERM ELSE HeadAt(file, offsetIndex[i - 1]).term
  /\ writeOffset' = offsetIndex[i]
  /\ acked' = FirstAcked(i - 1)
  /\ Returns("truncateFrom", i, "OK")
  /\ UNCHANGED <<synced, fd, phase, call>>

(* The read of the new tail's term fails, or ftruncate does.                *)
TruncateError(i) ==
  /\ phase = "idle" /\ fd
  /\ i <= lastIndex
  /\ Returns("truncateFrom", i, "IO_ERROR")
  /\ UNCHANGED <<file, synced, fd, phase, mem, call, acked>>

-----------------------------------------------------------------------------
(* The end of the object, of the process, of power; the disk.              *)

Destroy ==                         \* ~WriteAheadLog(), then a new object
  /\ phase = "idle"
  /\ fd' = FALSE
  /\ EmptyMem
  /\ Returns("destroy", 0, "OK")
  /\ UNCHANGED <<file, synced, phase, call, acked>>

ProcessCrash ==
  /\ phase # "idle"
  /\ fd' = FALSE
  /\ EmptyMem /\ EndCall
  /\ Returns("crash", 0, "OK")
  /\ UNCHANGED <<file, synced, acked>>

PowerLoss ==
  /\ PowerLossPossible
  /\ file' = synced
  /\ fd' = FALSE
  /\ EmptyMem /\ EndCall
  /\ Returns("crash", 0, "OK")
  /\ UNCHANGED <<synced, acked>>

(* The kernel writes the size, or one cell, to stable storage on its own.   *)
WritebackSize ==
  /\ PowerLossPossible
  /\ Len(synced) # Len(file)
  /\ synced' = Resize(synced, Len(file))
  /\ UNCHANGED <<file, fd, phase, mem, call, ret, acked>>

WritebackCell(i) ==
  /\ PowerLossPossible
  /\ i \in DOMAIN synced \cap DOMAIN file
  /\ synced[i] # file[i]
  /\ synced' = [synced EXCEPT ![i] = file[i]]
  /\ UNCHANGED <<file, fd, phase, mem, call, ret, acked>>

-----------------------------------------------------------------------------
OpenStep == ScanAccept \/ ScanReadError \/ ScanStop \/ ScanShort \/ ScanTruncateError
AppendStep == (\E n \in 1 .. FrameSize(pending) : Pwrite(n))
                \/ PwriteError \/ FsyncError \/ FsyncOk
TruncateFrom == \/ TruncateAll
                \/ \E i \in 0 .. MaxIndex + 1 :
                     TruncateClosed(i) \/ TruncateNothing(i)
                       \/ TruncateTail(i) \/ TruncateError(i)
Environment == \/ ProcessCrash \/ PowerLoss \/ WritebackSize
               \/ \E i \in DOMAIN file : WritebackCell(i)

Next == \/ OpenFails \/ SizeFails \/ OpenBegin \/ OpenStep
        \/ AppendClosed \/ (\E t \in Terms, p \in Payloads : AppendBegin(t, p))
        \/ AppendStep
        \/ TruncateFrom
        \/ Destroy
        \/ Environment

Spec == Init /\ [][Next]_vars

(* A call in progress keeps running: open()'s loop and append()'s loop are  *)
(* straight-line code of one thread, with no lock and no callback.  No      *)
(* failure is fair: errors may end a call, they are not what it waits for.  *)
FairSpec == /\ Spec
            /\ WF_vars(ScanAccept \/ ScanStop \/ ScanShort)
            /\ WF_vars((\E n \in 1 .. FrameSize(pending) : Pwrite(n)) \/ FsyncOk)

-----------------------------------------------------------------------------
(* What a caller sees.                                                     *)

Loaded == fd /\ phase # "scan"

(* entryAt(i) for every i, and range(1, lastIndex()), on a loaded log, when *)
(* the frames are read in full (a short read there is an IO_ERROR).         *)
Log == [i \in 1 .. lastIndex |-> HeadAt(file, offsetIndex[i])]

AckedLog == [i \in 1 .. Len(acked) |-> acked[i].frame]

-----------------------------------------------------------------------------
Results == [call : {"none", "open", "append", "truncateFrom", "destroy", "crash"},
            index : Nat, status : {"OK", "IO_ERROR"}]
Confirmed == [off : Nat, frame : Entry]

TypeOK ==
  /\ file \in Seq(Cells) /\ synced \in Seq(Cells)
  /\ fd \in BOOLEAN
  /\ phase \in {"idle", "scan", "append"}
  /\ offsetIndex \in Seq(Nat)
  /\ lastIndex \in Nat /\ lastTerm \in Nat /\ writeOffset \in Nat
  /\ pos \in Nat /\ written \in Nat
  /\ pending \in Entry \cup {NoFrame}
  /\ ret \in Results
  /\ acked \in Seq(Confirmed)

(* Once open() has returned OK, every entry 1 .. lastIndex() can be read:   *)
(* its frame is whole in the file, carries its own index, starts where the  *)
(* one before it ends, the next append() writes right after the last one,   *)
(* and lastTerm() is the term of the last one.  Appends that failed half    *)
(* way, truncations and reopening never disturb this.                       *)
IndexMatchesFile ==
  Loaded =>
    /\ lastIndex = Len(offsetIndex)
    /\ \A i \in 1 .. lastIndex :
         /\ ValidFrame(file, offsetIndex[i], i)
         /\ offsetIndex[i] + FrameSize(Log[i]) =
              IF i = lastIndex THEN writeOffset ELSE offsetIndex[i + 1]
    /\ IF lastIndex = 0
         THEN writeOffset = 0 /\ lastTerm = INVALID_TERM
         ELSE offsetIndex[1] = 0 /\ lastTerm = Log[lastIndex].term

(* Every entry whose append() returned OK, and that neither truncateFrom()  *)
(* nor a short read of open() discarded since, is whole in the file and on  *)
(* stable storage, in one run that starts at offset 0: wherever a crash     *)
(* falls, of the process or of the machine, the next scan finds all of them *)
(* in order, and loses one only to a short read.                            *)
AckedOnDisk ==
  \A i \in 1 .. Len(acked) :
    /\ acked[i].frame.index = i
    /\ FrameAt(file, acked[i].off, acked[i].frame)
    /\ FrameAt(synced, acked[i].off, acked[i].frame)
    /\ acked[i].off = IF i = 1 THEN 0
                      ELSE acked[i - 1].off + FrameSize(acked[i - 1].frame)

(* A log that open() has returned OK for serves every confirmed entry that  *)
(* no truncateFrom() and no short read discarded, at the index append()     *)
(* gave it and with the content append() was given.                         *)
AckedVisible ==
  Loaded => /\ Len(acked) <= lastIndex
            /\ \A i \in 1 .. Len(acked) : Log[i] = acked[i].frame

(* At most one whole entry of a failed append() lies past the end of an     *)
(* open log, whatever appends failed and were overwritten since it was      *)
(* opened: the next open() of that file finds the log as it was, or with    *)
(* that one entry more.  (Over several reopens such entries add up, each    *)
(* open() having made the one it found an entry of the log.)                *)
AtMostOneGhost ==
  Loaded => \A off \in writeOffset .. Len(file) : ~ValidFrame(file, off, lastIndex + 2)

(* A call in progress returns, or the process dies in it: the scan moves    *)
(* forward by a frame a step and a short write leaves less to write.        *)
CallsReturn == (phase # "idle") ~> (phase = "idle")

-----------------------------------------------------------------------------
(* The log keeps the promise of DurableLog: while it is closed or scanning  *)
(* only the confirmed entries are promised, and open() gives back fewer     *)
(* only where the first one it loses is one that may be read short.         *)
Durable == INSTANCE DurableLog WITH
             log <- IF Loaded THEN Log ELSE AckedLog,
             confirmed <- Len(acked),
             up <- Loaded
DurableLogSpec == Durable!Spec

-----------------------------------------------------------------------------
(* truncateFrom() on an index past the end: "nothing at or after index:     *)
(* already satisfied".  No entry at or after index is left for open().      *)
TruncatedIsGone ==
  ret.call = "truncateFrom" /\ ret.status = "OK" /\ ret.index = lastIndex + 1 =>
    ~ValidFrame(file, writeOffset, lastIndex + 1)


(* open() cuts the file after "the last valid, fully-durable record", and   *)
(* what it cuts is "a partial or corrupt trailing record": a step of the    *)
(* scan never takes a confirmed entry out of the file.                      *)
OpenKeepsConfirmed ==
  [][phase = "scan" => \A i \in 1 .. Len(acked) :
                          FrameAt(file', acked[i].off, acked[i].frame)]_vars

=============================================================================
