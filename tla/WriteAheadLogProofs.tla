------------------------- MODULE WriteAheadLogProofs -------------------------
(***************************************************************************)
(* What WriteAheadLog guarantees for every set of terms and payloads,      *)
(* every frame size and every length of the log.                           *)
(***************************************************************************)
EXTENDS WriteAheadLog, SequenceTheorems, TLAPS

-----------------------------------------------------------------------------
(* The inductive invariant.  LogEnd is where the next frame is looked for   *)
(* (open) or written (append).                                              *)

LogEnd == IF phase = "scan" THEN pos ELSE writeOffset

FrameEnd(f, off) == off + FrameSize(HeadAt(f, off))

(* The index built so far names consecutive whole frames that fill the file *)
(* up to LogEnd.                                                            *)
IndexInv ==
  fd => /\ lastIndex = Len(offsetIndex)
        /\ LogEnd <= Len(file)
        /\ \A i \in 1 .. lastIndex : /\ ValidFrame(file, offsetIndex[i], i)
                                     /\ FrameEnd(file, offsetIndex[i]) <= LogEnd
        /\ \A i \in 1 .. lastIndex : i < lastIndex => FrameEnd(file, offsetIndex[i]) = offsetIndex[i + 1]
        /\ \A i, j \in 1 .. lastIndex : i < j => FrameEnd(file, offsetIndex[i]) <= offsetIndex[j]
        /\ lastIndex = 0 => LogEnd = 0 /\ lastTerm = INVALID_TERM
        /\ lastIndex # 0 => /\ offsetIndex[1] = 0
                            /\ FrameEnd(file, offsetIndex[lastIndex]) = LogEnd
                            /\ lastTerm = HeadAt(file, offsetIndex[lastIndex]).term

AckedEnd(i) == acked[i].off + FrameSize(acked[i].frame)

AckedInv ==
  /\ AckedOnDisk
  /\ \A i, j \in 1 .. Len(acked) : i < j => AckedEnd(i) <= acked[j].off

(* The scan walks through the confirmed entries, and does not stop among    *)
(* them.                                                                    *)
AgreeInv ==
  fd => /\ \A i \in 1 .. Len(acked) : i <= lastIndex => offsetIndex[i] = acked[i].off
        /\ phase # "scan" => Len(acked) <= lastIndex
        /\ phase = "scan" /\ lastIndex < Len(acked) => pos = acked[lastIndex + 1].off

CallInv ==
  /\ phase # "idle" => fd
  /\ phase = "append" =>
       /\ pending \in Entry
       /\ pending.index = lastIndex + 1
       /\ written <= FrameSize(pending)
       /\ writeOffset + written <= Len(file)
       /\ \A k \in 1 .. written : file[writeOffset + k] = Cell(pending, k)
  /\ phase # "append" => written = 0
  /\ phase # "scan" => pos = 0

IInv == TypeOK /\ IndexInv /\ AckedInv /\ AgreeInv /\ CallInv

-----------------------------------------------------------------------------
(* Frames and cells.                                                       *)

LEMMA FrameSizeType ==
  ASSUME NEW fr \in Entry
  PROVE  FrameSize(fr) \in Nat \ {0}
BY WALAssumption DEF Entry, FrameSize

LEMMA NoFrameType ==
  /\ NoFrame.index = 0
  /\ NoFrame.payload \in Payloads
  /\ FrameSize(NoFrame) \in Nat \ {0}
BY WALAssumption DEF NoFrame, FrameSize, INVALID_LOG_INDEX

LEMMA CellType ==
  ASSUME NEW fr \in Entry, NEW k \in Nat \ {0}
  PROVE  /\ Cell(fr, k) \in Cells
         /\ Cell(fr, k) # Zero
         /\ Cell(fr, k).frame = fr
BY DEF Cell, Cells, Zero

LEMMA HeadType ==
  ASSUME NEW f \in Seq(Cells), NEW off \in Nat, NEW n, ValidFrame(f, off, n)
  PROVE  HeadAt(f, off) \in Entry
<1>1. off + 1 \in 1 .. Len(f)
  BY DEF ValidFrame
<1>2. f[off + 1] \in Cells /\ f[off + 1] # Zero
  BY <1>1 DEF ValidFrame
<1> QED BY <1>2 DEF Cells, HeadAt

(* A whole frame of the log is one the scan accepts.                        *)
LEMMA FrameIsValid ==
  ASSUME NEW f \in Seq(Cells), NEW off \in Nat, NEW fr \in Entry,
         FrameAt(f, off, fr)
  PROVE  /\ HeadAt(f, off) = fr
         /\ ValidFrame(f, off, fr.index)
<1>1. FrameSize(fr) \in Nat \ {0}
  BY FrameSizeType
<1>2. f[off + 1] = Cell(fr, 1)
  BY <1>1 DEF FrameAt
<1>3. HeadAt(f, off) = fr /\ f[off + 1] # Zero
  BY <1>2, CellType DEF HeadAt
<1>4. off < Len(f)
  BY <1>1 DEF FrameAt
<1> QED BY <1>3, <1>4 DEF ValidFrame

LEMMA ResizeProperties ==
  ASSUME NEW f \in Seq(Cells), NEW n \in Nat
  PROVE  /\ Resize(f, n) \in Seq(Cells)
         /\ Len(Resize(f, n)) = n
         /\ \A i \in 1 .. n : i <= Len(f) => Resize(f, n)[i] = f[i]
<1>1. Zero \in Cells
  BY DEF Cells
<1>2. \A i \in 1 .. n : (IF i <= Len(f) THEN f[i] ELSE Zero) \in Cells
  BY <1>1
<1> QED BY <1>2 DEF Resize

LEMMA WriteProperties ==
  ASSUME NEW f \in Seq(Cells), NEW at \in Nat, at <= Len(f),
         NEW fr \in Entry, NEW k \in Nat, NEW n \in Nat
  PROVE  LET g == WriteCells(f, at, fr, k, n) IN
           /\ g \in Seq(Cells)
           /\ Len(g) >= Len(f) /\ Len(g) >= at + n
           /\ \A i \in 1 .. at : g[i] = f[i]
           /\ \A i \in at + 1 .. at + n : g[i] = Cell(fr, k + i - at)
<1> DEFINE m == IF at + n > Len(f) THEN at + n ELSE Len(f)
           g == WriteCells(f, at, fr, k, n)
<1>1. m \in Nat /\ m >= Len(f) /\ m >= at + n
  OBVIOUS
<1>2. g = [i \in 1 .. m |->
             IF i \in at + 1 .. at + n THEN Cell(fr, k + i - at) ELSE f[i]]
  BY DEF WriteCells
<1>3. ASSUME NEW i \in 1 .. m
      PROVE  (IF i \in at + 1 .. at + n THEN Cell(fr, k + i - at) ELSE f[i]) \in Cells
  <2>1. CASE i \in at + 1 .. at + n
    <3>1. k + i - at \in Nat \ {0}
      BY <2>1
    <3> QED BY <2>1, <3>1, CellType
  <2>2. CASE i \notin at + 1 .. at + n
    <3>1. i \in 1 .. Len(f)
      BY <2>2
    <3> QED BY <2>2, <3>1
  <2> QED BY <2>1, <2>2
<1> HIDE DEF m
<1>4. g \in Seq(Cells) /\ Len(g) = m
  BY <1>1, <1>2, <1>3
<1>5. \A i \in 1 .. at : g[i] = f[i]
  BY <1>1, <1>2
<1>6. \A i \in at + 1 .. at + n : g[i] = Cell(fr, k + i - at)
  BY <1>1, <1>2
<1> QED BY <1>1, <1>4, <1>5, <1>6

(* A frame below n is still there in a file that agrees with f up to n.     *)
LEMMA FrameKept ==
  ASSUME NEW f \in Seq(Cells), NEW g \in Seq(Cells), NEW n \in Nat, n <= Len(g),
         \A i \in 1 .. n : i <= Len(f) => g[i] = f[i],
         NEW off \in Nat, NEW fr \in Entry,
         FrameAt(f, off, fr), off + FrameSize(fr) <= n
  PROVE  FrameAt(g, off, fr)
<1>1. FrameSize(fr) \in Nat \ {0}
  BY FrameSizeType
<1>2. Len(f) \in Nat /\ Len(g) \in Nat /\ off + FrameSize(fr) <= Len(f)
  BY DEF FrameAt
<1>3. off + FrameSize(fr) <= Len(g)
  BY <1>1, <1>2
<1>4. ASSUME NEW k \in 1 .. FrameSize(fr)
      PROVE  g[off + k] = Cell(fr, k)
  <2>1. off + k \in 1 .. n /\ off + k <= Len(f)
    BY <1>1, <1>2
  <2>2. f[off + k] = Cell(fr, k)
    BY DEF FrameAt
  <2> QED BY <2>1, <2>2
<1> QED BY <1>3, <1>4 DEF FrameAt

LEMMA ValidKept ==
  ASSUME NEW f \in Seq(Cells), NEW g \in Seq(Cells), NEW n \in Nat, n <= Len(g),
         \A i \in 1 .. n : i <= Len(f) => g[i] = f[i],
         NEW off \in Nat, NEW m,
         ValidFrame(f, off, m), off + FrameSize(HeadAt(f, off)) <= n
  PROVE  ValidFrame(g, off, m) /\ HeadAt(g, off) = HeadAt(f, off)
<1> DEFINE fr == HeadAt(f, off)
<1>1. fr \in Entry /\ FrameAt(f, off, fr) /\ fr.index = m
  BY HeadType DEF ValidFrame
<1> HIDE DEF fr
<1>2. FrameAt(g, off, fr)
  BY <1>1, FrameKept DEF fr
<1> QED BY <1>1, <1>2, FrameIsValid DEF fr

LEMMA AckedType ==
  ASSUME TypeOK, NEW i \in 1 .. Len(acked)
  PROVE  acked[i].off \in Nat /\ acked[i].frame \in Entry
<1>1. acked[i] \in Confirmed
  BY DEF TypeOK
<1> QED BY <1>1 DEF Confirmed

LEMMA IndexType ==
  ASSUME TypeOK, IndexInv, fd, NEW i \in 1 .. lastIndex
  PROVE  /\ offsetIndex[i] \in Nat
         /\ HeadAt(file, offsetIndex[i]) \in Entry
         /\ FrameEnd(file, offsetIndex[i]) \in Nat
         /\ offsetIndex[i] < FrameEnd(file, offsetIndex[i])
<1>1. offsetIndex[i] \in Nat /\ ValidFrame(file, offsetIndex[i], i)
  BY DEF TypeOK, IndexInv
<1>2. HeadAt(file, offsetIndex[i]) \in Entry
  BY <1>1, HeadType DEF TypeOK
<1> QED BY <1>1, <1>2, FrameSizeType DEF FrameEnd

(* A confirmed entry that the index names is the one found there.           *)
LEMMA AckedIndexed ==
  ASSUME TypeOK, IndexInv, AckedInv, AgreeInv, fd,
         NEW i \in 1 .. Len(acked), i <= lastIndex
  PROVE  /\ offsetIndex[i] = acked[i].off
         /\ HeadAt(file, offsetIndex[i]) = acked[i].frame
         /\ AckedEnd(i) = FrameEnd(file, offsetIndex[i])
         /\ AckedEnd(i) \in Nat
         /\ AckedEnd(i) <= LogEnd
<1>1. i \in 1 .. lastIndex
  BY DEF TypeOK
<1>2. offsetIndex[i] = acked[i].off
  BY DEF AgreeInv
<1>3. FrameAt(file, acked[i].off, acked[i].frame)
  BY DEF AckedInv, AckedOnDisk
<1>4. HeadAt(file, acked[i].off) = acked[i].frame
  BY <1>3, AckedType, FrameIsValid DEF TypeOK
<1>5. AckedEnd(i) = FrameEnd(file, offsetIndex[i])
  BY <1>2, <1>4 DEF AckedEnd, FrameEnd
<1>6. FrameEnd(file, offsetIndex[i]) <= LogEnd
  BY <1>1 DEF IndexInv
<1> QED BY <1>1, <1>2, <1>4, <1>5, <1>6, IndexType

(* Changing the file past n leaves what lies below n where it was.          *)
LEMMA IndexKept ==
  ASSUME TypeOK, IndexInv, fd,
         NEW f \in Seq(Cells), NEW n \in Nat, n <= Len(f),
         \A k \in 1 .. n : k <= Len(file) => f[k] = file[k],
         NEW i \in 1 .. lastIndex, FrameEnd(file, offsetIndex[i]) <= n
  PROVE  /\ ValidFrame(f, offsetIndex[i], i)
         /\ HeadAt(f, offsetIndex[i]) = HeadAt(file, offsetIndex[i])
         /\ FrameEnd(f, offsetIndex[i]) = FrameEnd(file, offsetIndex[i])
<1>1. offsetIndex[i] \in Nat /\ ValidFrame(file, offsetIndex[i], i)
  BY DEF TypeOK, IndexInv
<1>2. offsetIndex[i] + FrameSize(HeadAt(file, offsetIndex[i])) <= n
  BY DEF FrameEnd
<1>3. ValidFrame(f, offsetIndex[i], i) /\ HeadAt(f, offsetIndex[i]) = HeadAt(file, offsetIndex[i])
  BY <1>1, <1>2, ValidKept DEF TypeOK
<1> QED BY <1>3 DEF FrameEnd

LEMMA AckedKept ==
  ASSUME TypeOK, AckedInv,
         NEW f \in Seq(Cells), NEW n \in Nat, n <= Len(f),
         \A k \in 1 .. n : k <= Len(file) => f[k] = file[k],
         NEW i \in 1 .. Len(acked), AckedEnd(i) <= n
  PROVE  FrameAt(f, acked[i].off, acked[i].frame)
<1>1. FrameAt(file, acked[i].off, acked[i].frame)
  BY DEF AckedInv, AckedOnDisk
<1>2. acked[i].off + FrameSize(acked[i].frame) <= n
  BY DEF AckedEnd
<1> QED BY <1>1, <1>2, AckedType, FrameKept DEF TypeOK

-----------------------------------------------------------------------------
(* One lemma for each step that moves the file, the index or the history.  *)

LEMMA InitInv == Init => IInv
<1> SUFFICES ASSUME Init PROVE IInv
  OBVIOUS
<1>1. TypeOK
  <2>1. ret \in Results
    BY DEF Init, NoResult, Result, Results
  <2>2. pos \in Nat /\ written \in Nat /\ pending \in Entry \cup {NoFrame}
    BY DEF Init, NoCall
  <2>3. file \in Seq(Cells) /\ synced \in Seq(Cells)
        /\ offsetIndex \in Seq(Nat) /\ acked \in Seq(Confirmed)
    BY DEF Init
  <2>4. fd \in BOOLEAN /\ phase \in {"idle", "scan", "append"}
        /\ lastIndex \in Nat /\ lastTerm \in Nat /\ writeOffset \in Nat
    BY DEF Init, INVALID_LOG_INDEX, INVALID_TERM
  <2> QED BY <2>1, <2>2, <2>3, <2>4 DEF TypeOK
<1>2. IndexInv /\ AgreeInv
  BY DEF Init, IndexInv, AgreeInv
<1>3. AckedInv
  BY DEF Init, AckedInv, AckedOnDisk
<1>4. CallInv
  BY DEF Init, CallInv, NoCall
<1> QED BY <1>1, <1>2, <1>3, <1>4 DEF IInv

LEMMA ScanAcceptInv == IInv /\ ScanAccept => IInv'
<1> SUFFICES ASSUME IInv, ScanAccept PROVE IInv'
  OBVIOUS
<1> DEFINE n == Len(offsetIndex)
           fr == HeadAt(file, pos)
<1>1. phase = "scan" /\ fd /\ phase' = "scan" /\ fd' /\ file' = file /\ acked' = acked
  BY DEF IInv, CallInv, ScanAccept
<1>2. TypeOK /\ n = lastIndex /\ n \in Nat /\ pos \in Nat /\ LogEnd = pos
  BY <1>1 DEF IInv, TypeOK, IndexInv, LogEnd
<1>3. /\ fr \in Entry /\ FrameSize(fr) \in Nat \ {0}
      /\ FrameAt(file, pos, fr) /\ fr.index = n + 1
      /\ ValidFrame(file, pos, n + 1)
  BY <1>2, HeadType, FrameSizeType DEF ScanAccept, ValidFrame, TypeOK
<1>4. /\ offsetIndex' = Append(offsetIndex, pos) /\ Len(offsetIndex') = n + 1
      /\ \A i \in 1 .. n : offsetIndex'[i] = offsetIndex[i]
      /\ offsetIndex'[n + 1] = pos
      /\ lastIndex' = n + 1 /\ lastTerm' = fr.term /\ pos' = pos + FrameSize(fr)
      /\ LogEnd' = pos'
  BY <1>1, <1>2, <1>3 DEF ScanAccept, TypeOK, LogEnd
<1>5. TypeOK'
  <2>1. offsetIndex' \in Seq(Nat) /\ lastIndex' \in Nat /\ pos' \in Nat
    BY <1>2, <1>3, <1>4 DEF TypeOK
  <2>2. lastTerm' \in Nat
    BY <1>3, <1>4, WALAssumption DEF Entry
  <2> QED BY <1>2, <2>1, <2>2 DEF TypeOK, ScanAccept
<1> HIDE DEF fr
<1>6. IndexInv'
  <2>1. \A i \in 1 .. n : /\ ValidFrame(file, offsetIndex[i], i)
                          /\ FrameEnd(file', offsetIndex'[i]) = FrameEnd(file, offsetIndex[i])
                          /\ FrameEnd(file, offsetIndex[i]) <= pos
                          /\ offsetIndex[i] \in Nat
                          /\ FrameEnd(file, offsetIndex[i]) \in Nat
    <3> TAKE i \in 1 .. n
    <3>1. ValidFrame(file, offsetIndex[i], i) /\ FrameEnd(file, offsetIndex[i]) <= pos /\ offsetIndex[i] \in Nat
      BY <1>1, <1>2 DEF IInv, IndexInv, TypeOK
    <3>2. FrameSize(HeadAt(file, offsetIndex[i])) \in Nat
      BY <1>2, <3>1, HeadType, FrameSizeType DEF TypeOK
    <3> QED BY <1>1, <1>4, <3>1, <3>2 DEF FrameEnd, HeadAt
  <2>2. FrameEnd(file', offsetIndex'[n + 1]) = pos'
    BY <1>1, <1>4 DEF FrameEnd, HeadAt, fr
  <2>3. pos' <= Len(file)
    BY <1>3, <1>4 DEF FrameAt
  <2>4. \A i \in 1 .. n + 1 : /\ ValidFrame(file', offsetIndex'[i], i)
                              /\ FrameEnd(file', offsetIndex'[i]) <= pos'
    BY <1>1, <1>2, <1>3, <1>4, <2>1, <2>2
  <2>5. \A i \in 1 .. n + 1 : i < n + 1 => FrameEnd(file', offsetIndex'[i]) = offsetIndex'[i + 1]
    <3>1. \A i \in 1 .. n : i < n => FrameEnd(file, offsetIndex[i]) = offsetIndex[i + 1]
      BY <1>1, <1>2 DEF IInv, IndexInv
    <3>2. n # 0 => FrameEnd(file, offsetIndex[n]) = pos
      BY <1>1, <1>2 DEF IInv, IndexInv
    <3> QED BY <1>2, <1>4, <2>1, <3>1, <3>2
  <2>6. \A i, j \in 1 .. n + 1 : i < j => FrameEnd(file', offsetIndex'[i]) <= offsetIndex'[j]
    <3>1. \A i, j \in 1 .. n : i < j => FrameEnd(file, offsetIndex[i]) <= offsetIndex[j]
      BY <1>1, <1>2 DEF IInv, IndexInv
    <3> QED BY <1>2, <1>4, <2>1, <3>1
  <2>7. offsetIndex'[1] = 0
    <3>1. CASE n = 0
      BY <1>1, <1>2, <1>4, <3>1 DEF IInv, IndexInv
    <3>2. CASE n # 0
      BY <1>1, <1>2, <1>4, <3>2 DEF IInv, IndexInv
    <3> QED BY <3>1, <3>2
  <2>8. lastTerm' = HeadAt(file', offsetIndex'[n + 1]).term
    BY <1>1, <1>4 DEF fr
  <2> QED BY <1>1, <1>2, <1>4, <2>2, <2>3, <2>4, <2>5, <2>6, <2>7, <2>8 DEF IndexInv
<1>7. AckedInv'
  BY <1>1 DEF IInv, AckedInv, AckedOnDisk, AckedEnd, ScanAccept
<1>8. AgreeInv'
  <2>1. n < Len(acked) => pos = acked[n + 1].off
    BY <1>1, <1>2 DEF IInv, AgreeInv
  <2>2. \A i \in 1 .. Len(acked) : i <= n + 1 => offsetIndex'[i] = acked[i].off
    BY <1>1, <1>2, <1>4, <2>1 DEF IInv, AgreeInv
  <2>3. ASSUME n + 1 < Len(acked) PROVE pos' = acked[n + 2].off
    <3>0. n + 1 \in 1 .. Len(acked) /\ n < Len(acked)
      BY <1>2, <2>3 DEF TypeOK
    <3>1. acked[n + 1].off = pos /\ FrameAt(file, pos, acked[n + 1].frame)
      BY <2>1, <3>0 DEF IInv, AckedInv, AckedOnDisk
    <3>2. acked[n + 1].frame \in Entry
      BY <1>2, <3>0, AckedType
    <3>3. acked[n + 1].frame = fr
      BY <1>2, <3>1, <3>2, FrameIsValid DEF TypeOK, fr
    <3>4. n + 2 \in 1 .. Len(acked) /\ n + 2 # 1 /\ n + 2 - 1 = n + 1
      BY <1>2, <2>3 DEF TypeOK
    <3>5. acked[n + 2].off = acked[n + 1].off + FrameSize(acked[n + 1].frame)
      BY <3>4 DEF IInv, AckedInv, AckedOnDisk
    <3> QED BY <1>4, <3>1, <3>3, <3>5
  <2> QED BY <1>1, <1>2, <1>4, <2>2, <2>3 DEF AgreeInv, TypeOK
<1>9. CallInv'
  BY <1>1 DEF IInv, CallInv, ScanAccept
<1> QED BY <1>5, <1>6, <1>7, <1>8, <1>9 DEF IInv

(* The end of the scan: the file is cut where it stopped, and of the        *)
(* confirmed entries those before that place are left.                      *)
ScanCut ==
  /\ phase = "scan"
  /\ file' = Resize(file, pos)
  /\ writeOffset' = pos
  /\ acked' = FirstAcked(Len(offsetIndex))
  /\ EndCall
  /\ Returns("open", 0, "OK")
  /\ UNCHANGED <<synced, fd, offsetIndex, lastIndex, lastTerm>>

(* A scan that stops at an invalid frame has met every confirmed entry.     *)
LEMMA ScanStopCuts ==
  ASSUME IInv, ScanStop
  PROVE  ScanCut /\ Len(acked) <= lastIndex
<1>1. /\ phase = "scan" /\ fd /\ TypeOK /\ AckedInv /\ AgreeInv
      /\ lastIndex \in Nat /\ lastIndex = Len(offsetIndex) /\ Len(acked) \in Nat
  BY DEF IInv, CallInv, ScanStop, IndexInv, TypeOK
<1>2. Len(acked) <= lastIndex
  <2> SUFFICES ASSUME lastIndex < Len(acked) PROVE FALSE
    BY <1>1
  <2>1. lastIndex + 1 \in 1 .. Len(acked) /\ pos = acked[lastIndex + 1].off
    BY <1>1 DEF AgreeInv
  <2>2. /\ FrameAt(file, pos, acked[lastIndex + 1].frame)
        /\ acked[lastIndex + 1].frame.index = lastIndex + 1
    BY <1>1, <2>1 DEF AckedInv, AckedOnDisk
  <2>3. ValidFrame(file, pos, lastIndex + 1)
    BY <1>1, <2>1, <2>2, AckedType, FrameIsValid DEF TypeOK
  <2> QED BY <1>1, <2>3 DEF ScanStop
<1>3. acked = FirstAcked(Len(offsetIndex))
  BY <1>1, <1>2 DEF FirstAcked, TypeOK
<1> QED BY <1>1, <1>2, <1>3 DEF ScanStop, ScanCut

LEMMA ScanShortCuts == ScanShort => ScanCut
BY DEF ScanShort, ScanCut

LEMMA FirstAckedType ==
  ASSUME TypeOK, NEW n \in Nat
  PROVE  /\ FirstAcked(n) \in Seq(Confirmed)
         /\ Len(FirstAcked(n)) \in Nat
         /\ Len(FirstAcked(n)) = IF n < Len(acked) THEN n ELSE Len(acked)
         /\ \A i \in 1 .. Len(FirstAcked(n)) :
              i \in 1 .. Len(acked) /\ i <= n /\ FirstAcked(n)[i] = acked[i]
<1>1. Len(acked) \in Nat /\ \A i \in 1 .. Len(acked) : acked[i] \in Confirmed
  BY DEF TypeOK
<1> QED BY <1>1 DEF FirstAcked

LEMMA ScanCutInv == IInv /\ ScanCut => IInv'
<1> SUFFICES ASSUME IInv, ScanCut PROVE IInv'
  OBVIOUS
<1> DEFINE n == Len(acked')
<1>1. /\ phase = "scan" /\ fd /\ phase' = "idle" /\ fd'
      /\ offsetIndex' = offsetIndex /\ lastIndex' = lastIndex /\ lastTerm' = lastTerm
      /\ synced' = synced
      /\ writeOffset' = pos /\ file' = Resize(file, pos)
      /\ pos' = 0 /\ written' = 0 /\ pending' = NoFrame
      /\ ret' = Result("open", 0, "OK")
  BY DEF IInv, CallInv, ScanCut, EndCall, Returns
<1>2. /\ TypeOK /\ IndexInv /\ AckedInv /\ AgreeInv
      /\ LogEnd = pos /\ LogEnd' = pos /\ pos \in Nat /\ pos <= Len(file)
      /\ lastIndex \in Nat /\ lastIndex = Len(offsetIndex)
  BY <1>1 DEF IInv, IndexInv, TypeOK, LogEnd
<1>3. /\ file' \in Seq(Cells) /\ Len(file') = pos
      /\ \A k \in 1 .. pos : k <= Len(file) => file'[k] = file[k]
  BY <1>1, <1>2, ResizeProperties DEF TypeOK
<1>6. /\ acked' \in Seq(Confirmed) /\ n \in Nat
      /\ \A i \in 1 .. n : /\ i \in 1 .. Len(acked) /\ i <= lastIndex
                           /\ acked'[i] = acked[i]
  BY <1>2, FirstAckedType DEF ScanCut
<1> HIDE DEF n
<1>10. n <= lastIndex
  BY <1>2, <1>6
<1>4. TypeOK'
  BY <1>1, <1>2, <1>3, <1>6 DEF TypeOK, Result, Results
<1>5. IndexInv'
  <2>1. \A i \in 1 .. lastIndex :
          /\ ValidFrame(file', offsetIndex[i], i)
          /\ HeadAt(file', offsetIndex[i]) = HeadAt(file, offsetIndex[i])
          /\ FrameEnd(file', offsetIndex[i]) = FrameEnd(file, offsetIndex[i])
    <3> TAKE i \in 1 .. lastIndex
    <3>1. FrameEnd(file, offsetIndex[i]) <= pos
      BY <1>1, <1>2 DEF IndexInv
    <3> QED BY <1>1, <1>2, <1>3, <3>1, IndexKept
  <2> QED BY <1>1, <1>2, <1>3, <2>1 DEF IndexInv
<1>7. AckedInv'
  <2>1. ASSUME NEW i \in 1 .. n
        PROVE  FrameAt(file', acked[i].off, acked[i].frame)
    <3>0. i \in 1 .. Len(acked) /\ i <= lastIndex
      BY <1>6
    <3>1. AckedEnd(i) <= pos
      BY <1>1, <1>2, <3>0, AckedIndexed
    <3> QED BY <1>2, <1>3, <3>0, <3>1, AckedKept
  <2>2. \A j \in 1 .. n : acked[j].off = IF j = 1 THEN 0
                            ELSE acked[j - 1].off + FrameSize(acked[j - 1].frame)
    BY <1>2, <1>6 DEF AckedInv, AckedOnDisk
  <2>3. \A j \in 1 .. n : acked'[j].off = IF j = 1 THEN 0
                            ELSE acked'[j - 1].off + FrameSize(acked'[j - 1].frame)
    <3> TAKE j \in 1 .. n
    <3>1. CASE j = 1
      BY <1>6, <2>2, <3>1
    <3>2. CASE j # 1
      <4>1. j - 1 \in 1 .. n
        BY <1>6, <3>2
      <4> QED BY <1>6, <2>2, <3>2, <4>1
    <3> QED BY <3>1, <3>2
  <2>4. \A j, k \in 1 .. n : j < k => AckedEnd(j)' <= acked'[k].off
    BY <1>2, <1>6 DEF AckedInv, AckedEnd
  <2>5. \A j \in 1 .. n : /\ acked'[j].frame.index = j
                          /\ FrameAt(synced', acked'[j].off, acked'[j].frame)
    BY <1>1, <1>2, <1>6 DEF AckedInv, AckedOnDisk
  <2>6. \A j \in 1 .. n : FrameAt(file', acked'[j].off, acked'[j].frame)
    BY <1>6, <2>1
  <2> QED BY <2>3, <2>4, <2>5, <2>6 DEF AckedInv, AckedOnDisk, n
<1>8. AgreeInv'
  <2>1. \A j \in 1 .. n : j <= lastIndex' => offsetIndex'[j] = acked'[j].off
    BY <1>1, <1>2, <1>6 DEF AgreeInv
  <2> QED BY <1>1, <1>10, <2>1 DEF AgreeInv, n
<1>9. CallInv'
  BY <1>1 DEF CallInv
<1> QED BY <1>4, <1>5, <1>7, <1>8, <1>9 DEF IInv

LEMMA PwriteInv ==
  ASSUME IInv, NEW n \in 1 .. FrameSize(pending), Pwrite(n)
  PROVE  IInv'
<1> DEFINE at == writeOffset + written
<1>1. /\ phase = "append" /\ fd /\ phase' = "append" /\ fd' = fd
      /\ offsetIndex' = offsetIndex /\ lastIndex' = lastIndex /\ lastTerm' = lastTerm
      /\ acked' = acked /\ synced' = synced /\ pos' = pos /\ ret' = ret
      /\ writeOffset' = writeOffset /\ pending' = pending /\ written' = written + n
      /\ file' = WriteCells(file, at, pending, written, n)
  BY DEF IInv, CallInv, Pwrite, mem
<1>2. /\ TypeOK /\ IndexInv /\ AckedInv /\ AgreeInv
      /\ LogEnd = writeOffset /\ LogEnd' = writeOffset
      /\ lastIndex \in Nat /\ lastIndex = Len(offsetIndex)
  BY <1>1 DEF IInv, IndexInv, TypeOK, LogEnd
<1>3. /\ pending \in Entry /\ pending.index = lastIndex + 1
      /\ FrameSize(pending) \in Nat \ {0} /\ written \in Nat /\ writeOffset \in Nat
      /\ n \in Nat /\ written + n <= FrameSize(pending)
      /\ at \in Nat /\ at <= Len(file) /\ writeOffset <= at
      /\ \A k \in 1 .. written : file[writeOffset + k] = Cell(pending, k)
  BY <1>1, FrameSizeType DEF IInv, CallInv, TypeOK, Pwrite
<1>4. /\ file' \in Seq(Cells) /\ Len(file') >= Len(file) /\ Len(file') >= at + n
      /\ \A k \in 1 .. at : file'[k] = file[k]
      /\ \A k \in at + 1 .. at + n : file'[k] = Cell(pending, written + k - at)
  BY <1>1, <1>2, <1>3, WriteProperties DEF TypeOK
<1>5. TypeOK'
  BY <1>1, <1>2, <1>3, <1>4 DEF TypeOK
<1>6. IndexInv'
  <2>1. \A i \in 1 .. lastIndex :
          /\ ValidFrame(file', offsetIndex[i], i)
          /\ HeadAt(file', offsetIndex[i]) = HeadAt(file, offsetIndex[i])
          /\ FrameEnd(file', offsetIndex[i]) = FrameEnd(file, offsetIndex[i])
    <3> TAKE i \in 1 .. lastIndex
    <3>1. FrameEnd(file, offsetIndex[i]) <= at
      BY <1>1, <1>2, <1>3, IndexType DEF IndexInv
    <3>2. at <= Len(file') /\ \A k \in 1 .. at : k <= Len(file) => file'[k] = file[k]
      BY <1>2, <1>3, <1>4 DEF TypeOK
    <3> HIDE DEF at
    <3> QED BY <1>1, <1>2, <1>3, <1>4, <3>1, <3>2, IndexKept
  <2>2. LogEnd' <= Len(file')
    BY <1>2, <1>3, <1>4 DEF TypeOK
  <2> QED BY <1>1, <1>2, <1>4, <2>1, <2>2 DEF IndexInv
<1>7. AckedInv'
  <2>1. ASSUME NEW i \in 1 .. Len(acked)
        PROVE  FrameAt(file', acked[i].off, acked[i].frame)
    <3>0. i <= lastIndex
      BY <1>1, <1>2 DEF AgreeInv, TypeOK
    <3>1. AckedEnd(i) <= at
      BY <1>1, <1>2, <1>3, <3>0, AckedIndexed
    <3>2. at <= Len(file') /\ \A k \in 1 .. at : k <= Len(file) => file'[k] = file[k]
      <4>1. Len(file) \in Nat /\ Len(file') \in Nat
        BY <1>2, <1>4 DEF TypeOK
      <4> QED BY <1>3, <1>4, <4>1
    <3> HIDE DEF at
    <3> QED BY <1>2, <1>3, <1>4, <3>1, <3>2, AckedKept
  <2> QED BY <1>1, <1>2, <2>1 DEF AckedInv, AckedOnDisk, AckedEnd
<1>8. AgreeInv'
  BY <1>1, <1>2 DEF AgreeInv
<1>9. CallInv'
  <2>1. ASSUME NEW k \in 1 .. written + n
        PROVE  file'[writeOffset + k] = Cell(pending, k)
    <3>1. CASE k <= written
      <4>1. k \in 1 .. written /\ writeOffset + k \in 1 .. at
        BY <1>3, <3>1
      <4> QED BY <1>3, <1>4, <4>1
    <3>2. CASE k > written
      <4>1. writeOffset + k \in at + 1 .. at + n /\ written + (writeOffset + k) - at = k
        BY <1>3, <3>2
      <4> QED BY <1>4, <4>1
    <3> QED BY <1>3, <3>1, <3>2
  <2>2. writeOffset + (written + n) <= Len(file')
    BY <1>3, <1>4 DEF TypeOK
  <2>3. pos' = 0
    BY <1>1 DEF IInv, CallInv
  <2> QED BY <1>1, <1>3, <2>1, <2>2, <2>3 DEF CallInv
<1> QED BY <1>5, <1>6, <1>7, <1>8, <1>9 DEF IInv

(* fsync confirms everything the index names, the new entry included.       *)
LEMMA FsyncOkInv == IInv /\ FsyncOk => IInv'
<1> SUFFICES ASSUME IInv, FsyncOk PROVE IInv'
  OBVIOUS
<1> DEFINE m == lastIndex + 1
           end == writeOffset + FrameSize(pending)
<1>1. /\ phase = "append" /\ fd /\ phase' = "idle" /\ fd' = fd
      /\ offsetIndex' = Append(offsetIndex, writeOffset)
      /\ lastIndex' = pending.index /\ lastTerm' = pending.term
      /\ writeOffset' = end /\ file' = file /\ synced' = file
      /\ pos' = 0 /\ written' = 0 /\ pending' = NoFrame
      /\ ret' = Result("append", pending.index, "OK")
      /\ acked' = [i \in 1 .. pending.index |->
                     [off |-> offsetIndex'[i], frame |-> HeadAt(file, offsetIndex'[i])]]
  BY DEF IInv, CallInv, FsyncOk, EndCall, Returns
<1>2. /\ TypeOK /\ IndexInv
      /\ LogEnd = writeOffset /\ LogEnd' = end
      /\ lastIndex \in Nat /\ lastIndex = Len(offsetIndex) /\ m \in Nat
  BY <1>1 DEF IInv, IndexInv, TypeOK, LogEnd
<1>3. /\ pending \in Entry /\ pending.index = m
      /\ FrameSize(pending) \in Nat \ {0} /\ writeOffset \in Nat
      /\ end \in Nat /\ writeOffset < end /\ end <= Len(file)
      /\ \A k \in 1 .. FrameSize(pending) : file[writeOffset + k] = Cell(pending, k)
  BY <1>1, FrameSizeType DEF IInv, CallInv, TypeOK, FsyncOk
<1>4. /\ FrameAt(file, writeOffset, pending)
      /\ HeadAt(file, writeOffset) = pending
      /\ ValidFrame(file, writeOffset, m)
      /\ FrameEnd(file, writeOffset) = end
  <2>1. FrameAt(file, writeOffset, pending)
    BY <1>3 DEF FrameAt
  <2> QED BY <1>2, <1>3, <2>1, FrameIsValid DEF TypeOK, FrameEnd
<1> HIDE DEF end
<1>5. /\ Len(offsetIndex') = m /\ offsetIndex' \in Seq(Nat)
      /\ \A i \in 1 .. lastIndex : offsetIndex'[i] = offsetIndex[i]
      /\ offsetIndex'[m] = writeOffset
  BY <1>1, <1>2, <1>3 DEF TypeOK
<1>6. \A i \in 1 .. m :
        /\ offsetIndex'[i] \in Nat
        /\ HeadAt(file, offsetIndex'[i]) \in Entry
        /\ ValidFrame(file, offsetIndex'[i], i)
        /\ FrameEnd(file, offsetIndex'[i]) \in Nat
        /\ FrameEnd(file, offsetIndex'[i]) <= end
  <2> TAKE i \in 1 .. m
  <2>1. CASE i = m
    BY <1>3, <1>4, <1>5, <2>1
  <2>2. CASE i \in 1 .. lastIndex
    <3>1. ValidFrame(file, offsetIndex[i], i) /\ FrameEnd(file, offsetIndex[i]) <= writeOffset
      BY <1>1, <1>2, <2>2 DEF IndexInv
    <3> QED BY <1>1, <1>2, <1>3, <1>5, <2>2, <3>1, IndexType
  <2> QED BY <1>2, <2>1, <2>2
<1>7. \A i \in 1 .. m : i < m => FrameEnd(file, offsetIndex'[i]) = offsetIndex'[i + 1]
  <2>1. \A i \in 1 .. lastIndex :
          i < lastIndex => FrameEnd(file, offsetIndex[i]) = offsetIndex[i + 1]
    BY <1>1, <1>2 DEF IndexInv
  <2>2. lastIndex # 0 => FrameEnd(file, offsetIndex[lastIndex]) = writeOffset
    BY <1>1, <1>2 DEF IndexInv
  <2>3. ASSUME NEW i \in 1 .. m, i < m
        PROVE  FrameEnd(file, offsetIndex'[i]) = offsetIndex'[i + 1]
    <3>1. CASE i = lastIndex
      BY <1>2, <1>5, <2>2, <3>1
    <3>2. CASE i # lastIndex
      <4>1. i \in 1 .. lastIndex /\ i < lastIndex /\ i + 1 \in 1 .. lastIndex
        BY <1>2, <2>3, <3>2
      <4> QED BY <1>5, <2>1, <4>1
    <3> QED BY <3>1, <3>2
  <2> QED BY <2>3
<1>8. \A i, j \in 1 .. m : i < j => FrameEnd(file, offsetIndex'[i]) <= offsetIndex'[j]
  <2>1. \A i, j \in 1 .. lastIndex : i < j => FrameEnd(file, offsetIndex[i]) <= offsetIndex[j]
    BY <1>1, <1>2 DEF IndexInv
  <2>2. \A i \in 1 .. lastIndex : FrameEnd(file, offsetIndex[i]) <= writeOffset
    BY <1>1, <1>2 DEF IndexInv
  <2> QED BY <1>2, <1>5, <2>1, <2>2
<1>9. offsetIndex'[1] = 0
  <2>1. CASE lastIndex = 0
    BY <1>1, <1>2, <1>5, <2>1 DEF IndexInv
  <2>2. CASE lastIndex # 0
    BY <1>1, <1>2, <1>5, <2>2 DEF IndexInv
  <2> QED BY <2>1, <2>2
<1>10. /\ acked' \in Seq(Confirmed) /\ Len(acked') = m
       /\ \A i \in 1 .. m : /\ acked'[i].off = offsetIndex'[i]
                            /\ acked'[i].frame = HeadAt(file, offsetIndex'[i])
  <2>1. acked' = [i \in 1 .. m |->
                    [off |-> offsetIndex'[i], frame |-> HeadAt(file, offsetIndex'[i])]]
    BY <1>1, <1>3
  <2>2. \A i \in 1 .. m :
          [off |-> offsetIndex'[i], frame |-> HeadAt(file, offsetIndex'[i])] \in Confirmed
    BY <1>6 DEF Confirmed
  <2> HIDE DEF m
  <2> QED BY <1>2, <2>1, <2>2
<1>11. TypeOK'
  <2>1. lastTerm' \in Nat /\ lastIndex' \in Nat
    BY <1>1, <1>3, WALAssumption DEF Entry
  <2>2. ret' \in Results
    BY <1>1, <1>3, <1>2 DEF Result, Results
  <2> QED BY <1>1, <1>2, <1>3, <1>5, <1>10, <2>1, <2>2 DEF TypeOK
<1>12. IndexInv'
  <2>1. lastTerm' = HeadAt(file', offsetIndex'[m]).term
    BY <1>1, <1>4, <1>5
  <2>2. FrameEnd(file', offsetIndex'[m]) = LogEnd'
    BY <1>1, <1>2, <1>4, <1>5
  <2>3. lastIndex' = m /\ m # 0 /\ file' = file
    BY <1>1, <1>2, <1>3
  <2> HIDE DEF m
  <2> QED BY <1>2, <1>3, <1>5, <1>6, <1>7, <1>8, <1>9, <2>1, <2>2, <2>3 DEF IndexInv
<1>13. AckedInv'
  <2>1. \A i \in 1 .. m : /\ acked'[i].frame.index = i
                          /\ FrameAt(file, acked'[i].off, acked'[i].frame)
                          /\ AckedEnd(i)' = FrameEnd(file, offsetIndex'[i])
    BY <1>6, <1>10 DEF ValidFrame, AckedEnd, FrameEnd
  <2>2. \A i \in 1 .. m :
          acked'[i].off = IF i = 1 THEN 0
                          ELSE acked'[i - 1].off + FrameSize(acked'[i - 1].frame)
    <3> TAKE i \in 1 .. m
    <3>1. CASE i = 1
      BY <1>9, <1>10, <3>1
    <3>2. CASE i # 1
      <4>1. i - 1 \in 1 .. m /\ i - 1 < m /\ (i - 1) + 1 = i
        BY <1>2, <3>2
      <4>2. FrameEnd(file, offsetIndex'[i - 1]) = offsetIndex'[i]
        BY <1>7, <4>1
      <4> QED BY <1>10, <3>2, <4>1, <4>2 DEF FrameEnd
    <3> QED BY <3>1, <3>2
  <2>3. \A i, j \in 1 .. m : i < j => AckedEnd(i)' <= acked'[j].off
    BY <1>8, <1>10, <2>1
  <2> HIDE DEF m
  <2> QED BY <1>1, <1>10, <2>1, <2>2, <2>3 DEF AckedInv, AckedOnDisk
<1>14. AgreeInv'
  BY <1>1, <1>2, <1>3, <1>10 DEF AgreeInv
<1>15. CallInv'
  BY <1>1 DEF CallInv
<1> QED BY <1>11, <1>12, <1>13, <1>14, <1>15 DEF IInv

LEMMA TruncateAllInv == IInv /\ TruncateAll => IInv'
<1> SUFFICES ASSUME IInv, TruncateAll PROVE IInv'
  OBVIOUS
<1>1. /\ file' = <<>> /\ synced' = synced /\ fd' = fd /\ phase = "idle" /\ phase' = "idle"
      /\ offsetIndex' = <<>> /\ lastIndex' = 0 /\ lastTerm' = 0 /\ writeOffset' = 0
      /\ pos' = pos /\ pending' = pending /\ written' = written /\ acked' = <<>>
      /\ ret' = Result("truncateFrom", 0, "OK")
  BY DEF TruncateAll, EmptyMem, Returns, call, INVALID_LOG_INDEX, INVALID_TERM
<1>2. TypeOK'
  <2>1. file' \in Seq(Cells) /\ offsetIndex' \in Seq(Nat) /\ acked' \in Seq(Confirmed)
    BY <1>1
  <2>2. ret' \in Results
    BY <1>1 DEF Result, Results
  <2> QED BY <1>1, <2>1, <2>2 DEF IInv, TypeOK
<1>3. IndexInv'
  BY <1>1 DEF IndexInv, LogEnd, INVALID_TERM
<1>4. AckedInv' /\ AgreeInv'
  BY <1>1 DEF AckedInv, AckedOnDisk, AgreeInv
<1>5. CallInv'
  BY <1>1 DEF IInv, CallInv
<1> QED BY <1>2, <1>3, <1>4, <1>5 DEF IInv

LEMMA TruncateTailInv ==
  ASSUME IInv, NEW i \in Nat, TruncateTail(i)
  PROVE  IInv'
<1> DEFINE cut == offsetIndex[i]
           n == IF i - 1 < Len(acked) THEN i - 1 ELSE Len(acked)
<1>1. /\ phase = "idle" /\ fd /\ phase' = "idle" /\ fd' = fd
      /\ i \in 1 .. lastIndex
      /\ file' = Resize(file, cut) /\ synced' = synced
      /\ offsetIndex' = [j \in 1 .. i - 1 |-> offsetIndex[j]]
      /\ lastIndex' = i - 1 /\ writeOffset' = cut
      /\ lastTerm' = IF i = 1 THEN INVALID_TERM ELSE HeadAt(file, offsetIndex[i - 1]).term
      /\ acked' = [j \in 1 .. n |-> acked[j]]
      /\ pos' = pos /\ pending' = pending /\ written' = written
      /\ ret' = Result("truncateFrom", i, "OK")
  BY DEF TruncateTail, FirstAcked, Returns, call
<1>2. /\ TypeOK /\ IndexInv /\ AckedInv /\ AgreeInv
      /\ LogEnd = writeOffset /\ LogEnd' = cut
      /\ lastIndex \in Nat /\ lastIndex = Len(offsetIndex) /\ Len(acked) \in Nat
  <2>1. TypeOK /\ IndexInv /\ AckedInv /\ AgreeInv
    BY DEF IInv
  <2>2. lastIndex \in Nat /\ lastIndex = Len(offsetIndex) /\ Len(acked) \in Nat
    BY <1>1, <2>1 DEF IndexInv, TypeOK
  <2>3. LogEnd = writeOffset /\ LogEnd' = cut
    BY <1>1 DEF LogEnd
  <2> QED BY <2>1, <2>2, <2>3
<1>3. cut \in Nat /\ cut < FrameEnd(file, cut) /\ FrameEnd(file, cut) <= writeOffset
      /\ writeOffset <= Len(file) /\ cut <= Len(file)
  <2>1. FrameEnd(file, cut) <= writeOffset /\ writeOffset <= Len(file)
    BY <1>1, <1>2 DEF IndexInv
  <2> QED BY <1>1, <1>2, <2>1, IndexType DEF TypeOK
<1>4. /\ file' \in Seq(Cells) /\ Len(file') = cut
      /\ \A k \in 1 .. cut : k <= Len(file) => file'[k] = file[k]
  BY <1>1, <1>2, <1>3, ResizeProperties DEF TypeOK
<1>5. /\ offsetIndex' \in Seq(Nat) /\ Len(offsetIndex') = i - 1 /\ i - 1 \in Nat
      /\ \A j \in 1 .. i - 1 : offsetIndex'[j] = offsetIndex[j] /\ j \in 1 .. lastIndex
  <2>1. i - 1 \in Nat /\ \A j \in 1 .. i - 1 : j \in 1 .. lastIndex
    BY <1>1, <1>2
  <2>2. \A j \in 1 .. i - 1 : offsetIndex[j] \in Nat
    BY <1>2, <2>1 DEF TypeOK
  <2> QED BY <1>1, <2>1, <2>2
<1>6. /\ acked' \in Seq(Confirmed) /\ Len(acked') = n /\ n \in Nat
      /\ n <= Len(acked) /\ n <= i - 1
      /\ \A j \in 1 .. n : acked'[j] = acked[j] /\ j \in 1 .. Len(acked)
  BY <1>1, <1>2 DEF TypeOK
<1> HIDE DEF n, cut
<1>7. TypeOK'
  <2>1. lastTerm' \in Nat
    <3>1. CASE i = 1
      BY <1>1, <3>1 DEF INVALID_TERM
    <3>2. CASE i # 1
      <4>1. i - 1 \in 1 .. lastIndex
        BY <1>1, <1>2, <3>2
      <4>2. HeadAt(file, offsetIndex[i - 1]).term \in Terms
        BY <1>1, <1>2, <4>1, IndexType DEF Entry
      <4> QED BY <1>1, <3>2, <4>2, WALAssumption
    <3> QED BY <3>1, <3>2
  <2>2. ret' \in Results
    BY <1>1 DEF Result, Results
  <2> QED BY <1>1, <1>2, <1>3, <1>4, <1>5, <1>6, <2>1, <2>2 DEF TypeOK
<1>8. \A j \in 1 .. i - 1 :
        /\ FrameEnd(file, offsetIndex[j]) <= cut
        /\ ValidFrame(file', offsetIndex[j], j)
        /\ HeadAt(file', offsetIndex[j]) = HeadAt(file, offsetIndex[j])
        /\ FrameEnd(file', offsetIndex[j]) = FrameEnd(file, offsetIndex[j])
  <2> TAKE j \in 1 .. i - 1
  <2>1. j \in 1 .. lastIndex /\ j < i
    BY <1>1, <1>2
  <2>2. FrameEnd(file, offsetIndex[j]) <= cut
    BY <1>1, <1>2, <2>1 DEF IndexInv, cut
  <2> QED BY <1>1, <1>2, <1>3, <1>4, <2>1, <2>2, IndexKept
<1>9. IndexInv'
  <2>1. \A j \in 1 .. i - 1 : j < i - 1 => FrameEnd(file', offsetIndex'[j]) = offsetIndex'[j + 1]
    <3> SUFFICES ASSUME NEW j \in 1 .. i - 1, j < i - 1
                 PROVE  FrameEnd(file', offsetIndex'[j]) = offsetIndex'[j + 1]
      OBVIOUS
    <3>1. j \in 1 .. lastIndex /\ j < lastIndex /\ j + 1 \in 1 .. i - 1
      BY <1>1, <1>2
    <3>2. FrameEnd(file, offsetIndex[j]) = offsetIndex[j + 1]
      BY <1>1, <1>2, <3>1 DEF IndexInv
    <3> QED BY <1>5, <1>8, <3>1, <3>2
  <2>2. \A j, k \in 1 .. i - 1 : j < k => FrameEnd(file', offsetIndex'[j]) <= offsetIndex'[k]
    <3>1. \A j, k \in 1 .. lastIndex : j < k => FrameEnd(file, offsetIndex[j]) <= offsetIndex[k]
      BY <1>1, <1>2 DEF IndexInv
    <3> QED BY <1>5, <1>8, <3>1
  <2>3. CASE i = 1
    <3>1. cut = 0
      BY <1>1, <1>2, <2>3 DEF IndexInv, cut
    <3> QED BY <1>1, <1>2, <1>4, <1>5, <2>1, <2>2, <2>3, <3>1 DEF IndexInv, INVALID_TERM
  <2>4. CASE i # 1
    <3>1. i - 1 \in 1 .. i - 1 /\ i - 1 \in 1 .. lastIndex /\ i - 1 < lastIndex
          /\ (i - 1) + 1 = i /\ 1 \in 1 .. i - 1 /\ i - 1 # 0
      BY <1>1, <1>2, <2>4
    <3>2. FrameEnd(file, offsetIndex[i - 1]) = cut
      BY <1>1, <1>2, <3>1 DEF IndexInv, cut
    <3>3. offsetIndex[1] = 0
      BY <1>1, <1>2 DEF IndexInv
    <3>4. /\ offsetIndex'[1] = 0
          /\ FrameEnd(file', offsetIndex'[i - 1]) = cut
          /\ lastTerm' = HeadAt(file', offsetIndex'[i - 1]).term
      BY <1>1, <1>5, <1>8, <2>4, <3>1, <3>2, <3>3
    <3>5. \A j \in 1 .. i - 1 : /\ ValidFrame(file', offsetIndex'[j], j)
                                /\ FrameEnd(file', offsetIndex'[j]) <= cut
      BY <1>5, <1>8
    <3>6. cut <= Len(file')
      BY <1>3, <1>4
    <3> QED BY <1>1, <1>2, <1>5, <2>1, <2>2, <3>1, <3>4, <3>5, <3>6 DEF IndexInv
  <2> QED BY <2>3, <2>4
<1>10. AckedInv'
  <2>1. ASSUME NEW j \in 1 .. n
        PROVE  FrameAt(file', acked[j].off, acked[j].frame)
    <3>1. j \in 1 .. Len(acked) /\ j \in 1 .. i - 1 /\ j \in 1 .. lastIndex /\ j <= lastIndex
      BY <1>1, <1>2, <1>6
    <3>2. AckedEnd(j) = FrameEnd(file, offsetIndex[j])
      BY <1>1, <1>2, <3>1, AckedIndexed
    <3>3. AckedEnd(j) <= cut
      BY <1>8, <3>1, <3>2
    <3> QED BY <1>2, <1>3, <1>4, <3>1, <3>3, AckedKept
  <2>2. \A j \in 1 .. n : acked[j].off = IF j = 1 THEN 0
                            ELSE acked[j - 1].off + FrameSize(acked[j - 1].frame)
    BY <1>2, <1>6 DEF AckedInv, AckedOnDisk
  <2>3. \A j \in 1 .. n : acked'[j].off = IF j = 1 THEN 0
                            ELSE acked'[j - 1].off + FrameSize(acked'[j - 1].frame)
    <3> TAKE j \in 1 .. n
    <3>1. CASE j = 1
      BY <1>6, <2>2, <3>1
    <3>2. CASE j # 1
      <4>1. j - 1 \in 1 .. n
        BY <1>6, <3>2
      <4> QED BY <1>6, <2>2, <3>2, <4>1
    <3> QED BY <3>1, <3>2
  <2>4. \A j, k \in 1 .. n : j < k => AckedEnd(j)' <= acked'[k].off
    BY <1>2, <1>6 DEF AckedInv, AckedEnd
  <2>5. \A j \in 1 .. n : /\ acked'[j].frame.index = j
                          /\ FrameAt(synced', acked'[j].off, acked'[j].frame)
    BY <1>1, <1>2, <1>6 DEF AckedInv, AckedOnDisk
  <2> QED BY <1>6, <2>1, <2>3, <2>4, <2>5 DEF AckedInv, AckedOnDisk
<1>11. AgreeInv'
  <2>1. \A j \in 1 .. n : j <= lastIndex' => offsetIndex'[j] = acked'[j].off
    BY <1>1, <1>2, <1>5, <1>6 DEF AgreeInv
  <2> QED BY <1>1, <1>5, <1>6, <2>1 DEF AgreeInv
<1>12. CallInv'
  BY <1>1 DEF IInv, CallInv
<1> QED BY <1>7, <1>9, <1>10, <1>11, <1>12 DEF IInv

(* The disk moves towards the file, and both hold every confirmed entry.    *)
LEMMA WritebackInv ==
  ASSUME IInv,
         WritebackSize \/ \E i \in DOMAIN file : WritebackCell(i)
  PROVE  IInv'
<1>1. /\ file' = file /\ fd' = fd /\ phase' = phase /\ ret' = ret /\ acked' = acked
      /\ offsetIndex' = offsetIndex /\ lastIndex' = lastIndex /\ lastTerm' = lastTerm
      /\ writeOffset' = writeOffset /\ pos' = pos /\ pending' = pending /\ written' = written
  BY DEF WritebackSize, WritebackCell, mem, call
<1>2. /\ TypeOK /\ AckedInv
      /\ file \in Seq(Cells) /\ synced \in Seq(Cells)
      /\ Len(file) \in Nat /\ Len(synced) \in Nat
  BY DEF IInv, TypeOK
<1>3. synced' \in Seq(Cells) /\
      \A i \in 1 .. Len(acked) : FrameAt(synced', acked[i].off, acked[i].frame)
  <2>1. CASE WritebackSize
    <3>1. /\ synced' \in Seq(Cells) /\ Len(synced') = Len(file)
          /\ \A k \in 1 .. Len(file) : k <= Len(synced) => synced'[k] = synced[k]
          /\ Len(file) \in Nat
      BY <1>2, <2>1, ResizeProperties DEF WritebackSize
    <3>2. ASSUME NEW i \in 1 .. Len(acked)
          PROVE  FrameAt(synced', acked[i].off, acked[i].frame)
      <4>1. /\ FrameAt(file, acked[i].off, acked[i].frame)
            /\ FrameAt(synced, acked[i].off, acked[i].frame)
        BY <1>2 DEF AckedInv, AckedOnDisk
      <4>2. acked[i].off + FrameSize(acked[i].frame) <= Len(file)
        BY <4>1 DEF FrameAt
      <4>3. acked[i].off \in Nat /\ acked[i].frame \in Entry
        BY <1>2, AckedType
      <4>4. \A k \in 1 .. Len(file) : k <= Len(synced) => synced'[k] = synced[k]
        BY <3>1
      <4>5. Len(file) <= Len(synced')
        BY <3>1
      <4> QED BY <1>2, <3>1, <4>1, <4>2, <4>3, <4>4, <4>5, FrameKept
    <3> QED BY <3>1, <3>2
  <2>2. CASE \E i \in DOMAIN file : WritebackCell(i)
    <3> PICK c \in DOMAIN file : WritebackCell(c)
      BY <2>2
    <3>1. synced' = [synced EXCEPT ![c] = file[c]] /\ c \in 1 .. Len(file) /\ c \in 1 .. Len(synced)
      BY <1>2 DEF WritebackCell, TypeOK
    <3>2. /\ synced' \in Seq(Cells) /\ Len(synced') = Len(synced)
          /\ \A k \in 1 .. Len(synced) : synced'[k] = IF k = c THEN file[c] ELSE synced[k]
      BY <1>2, <3>1 DEF TypeOK
    <3>3. ASSUME NEW i \in 1 .. Len(acked)
          PROVE  FrameAt(synced', acked[i].off, acked[i].frame)
      <4>1. /\ FrameAt(file, acked[i].off, acked[i].frame)
            /\ FrameAt(synced, acked[i].off, acked[i].frame)
        BY <1>2 DEF AckedInv, AckedOnDisk
      <4>2. acked[i].off \in Nat /\ FrameSize(acked[i].frame) \in Nat
        BY <1>2, AckedType, FrameSizeType
      <4>3. acked[i].off + FrameSize(acked[i].frame) <= Len(synced')
        BY <3>2, <4>1 DEF FrameAt
      <4>4. ASSUME NEW k \in 1 .. FrameSize(acked[i].frame)
            PROVE  synced'[acked[i].off + k] = Cell(acked[i].frame, k)
        <5>1. acked[i].off + k \in 1 .. Len(synced)
          BY <1>2, <3>2, <4>2, <4>3
        <5>2. /\ file[acked[i].off + k] = Cell(acked[i].frame, k)
              /\ synced[acked[i].off + k] = Cell(acked[i].frame, k)
          BY <4>1 DEF FrameAt
        <5> QED BY <3>2, <5>1, <5>2
      <4> QED BY <4>3, <4>4 DEF FrameAt
    <3> QED BY <3>2, <3>3
  <2> QED BY <2>1, <2>2
<1>4. TypeOK'
  BY <1>1, <1>2, <1>3 DEF TypeOK
<1>5. IndexInv' /\ AgreeInv' /\ CallInv'
  BY <1>1 DEF IInv, IndexInv, AgreeInv, CallInv, LogEnd
<1>6. AckedInv'
  BY <1>1, <1>2, <1>3 DEF AckedInv, AckedOnDisk, AckedEnd
<1> QED BY <1>4, <1>5, <1>6 DEF IInv

(* A step after which the descriptor is closed: the index is not in use.    *)
LEMMA ClosedInv ==
  ASSUME IInv, TypeOK', fd' = FALSE, phase' = "idle", pos' = 0, written' = 0,
         file' \in {file, synced}, synced' = synced, acked' = acked
  PROVE  IInv'
<1>1. IndexInv' /\ AgreeInv'
  BY DEF IndexInv, AgreeInv
<1>2. CallInv'
  BY DEF CallInv
<1>3. AckedInv'
  BY DEF IInv, AckedInv, AckedOnDisk, AckedEnd
<1> QED BY <1>1, <1>2, <1>3 DEF IInv

LEMMA EmptyMemType ==
  ASSUME EmptyMem
  PROVE  offsetIndex' \in Seq(Nat) /\ lastIndex' \in Nat /\ lastTerm' \in Nat /\ writeOffset' \in Nat
BY DEF EmptyMem, INVALID_LOG_INDEX, INVALID_TERM

LEMMA ClosingInv ==
  ASSUME IInv,
         \/ OpenFails \/ SizeFails \/ ScanReadError \/ ScanTruncateError
         \/ Destroy \/ ProcessCrash \/ PowerLoss
  PROVE  IInv'
<1>1. /\ fd' = FALSE /\ phase' = "idle" /\ synced' = synced /\ acked' = acked
      /\ file' \in {file, synced}
      /\ pos' = 0 /\ written' = 0 /\ pending' \in {pending, NoFrame}
  BY DEF IInv, CallInv, OpenFails, SizeFails, ScanReadError, ScanTruncateError,
         Destroy, ProcessCrash, PowerLoss, EndCall, call
<1>2. ret' \in Results
  BY DEF OpenFails, SizeFails, ScanReadError, ScanTruncateError, Destroy,
         ProcessCrash, PowerLoss, Returns, Result, Results
<1>3. offsetIndex' \in Seq(Nat) /\ lastIndex' \in Nat /\ lastTerm' \in Nat /\ writeOffset' \in Nat
  BY EmptyMemType
     DEF IInv, TypeOK, OpenFails, SizeFails, ScanReadError, ScanTruncateError,
         Destroy, ProcessCrash, PowerLoss, mem
<1>4. TypeOK'
  BY <1>1, <1>2, <1>3 DEF IInv, TypeOK
<1> QED BY <1>1, <1>4, ClosedInv

LEMMA OpenBeginInv == IInv /\ OpenBegin => IInv'
<1> SUFFICES ASSUME IInv, OpenBegin PROVE IInv'
  OBVIOUS
<1>1. /\ file' = file /\ synced' = synced /\ fd' = TRUE /\ acked' = acked
      /\ phase = "idle" /\ phase' = "scan" /\ ret' = NoResult
      /\ offsetIndex' = <<>> /\ lastIndex' = 0 /\ lastTerm' = 0 /\ writeOffset' = 0
      /\ pos' = 0 /\ written' = 0 /\ pending' = pending
  BY DEF IInv, CallInv, OpenBegin, EmptyMem, call, INVALID_LOG_INDEX, INVALID_TERM
<1>2. TypeOK
  BY DEF IInv
<1>3. TypeOK'
  <2>1. ret' \in Results
    BY <1>1 DEF NoResult, Result, Results
  <2>2. offsetIndex' \in Seq(Nat)
    BY <1>1
  <2> QED BY <1>1, <1>2, <2>1, <2>2 DEF TypeOK
<1>4. IndexInv'
  BY <1>1, <1>2 DEF IndexInv, LogEnd, INVALID_TERM, TypeOK
<1>5. AckedInv'
  BY <1>1 DEF IInv, AckedInv, AckedOnDisk, AckedEnd
<1>6. AgreeInv'
  <2>1. Len(acked) \in Nat
    BY <1>2 DEF TypeOK
  <2>2. 0 < Len(acked) => acked[1].off = 0
    BY <2>1 DEF IInv, AckedInv, AckedOnDisk
  <2> QED BY <1>1, <2>1, <2>2 DEF AgreeInv
<1>7. CallInv'
  BY <1>1 DEF CallInv
<1> QED BY <1>3, <1>4, <1>5, <1>6, <1>7 DEF IInv

LEMMA AppendBeginInv ==
  ASSUME IInv, NEW t \in Terms, NEW p \in Payloads, AppendBegin(t, p)
  PROVE  IInv'
<1>1. /\ file' = file /\ synced' = synced /\ fd /\ fd' = fd /\ acked' = acked
      /\ phase = "idle" /\ phase' = "append" /\ ret' = NoResult
      /\ offsetIndex' = offsetIndex /\ lastIndex' = lastIndex /\ lastTerm' = lastTerm
      /\ writeOffset' = writeOffset /\ pos' = pos /\ written' = written /\ written = 0
      /\ pending' = [index |-> lastIndex + 1, term |-> t, payload |-> p]
  BY DEF IInv, CallInv, AppendBegin, mem
<1>2. TypeOK /\ writeOffset <= Len(file) /\ writeOffset \in Nat /\ lastIndex \in Nat
  BY <1>1 DEF IInv, IndexInv, LogEnd, TypeOK
<1>3. pending' \in Entry /\ pending'.index = lastIndex + 1
  BY <1>1, <1>2 DEF Entry
<1>4. TypeOK'
  BY <1>1, <1>2, <1>3 DEF TypeOK, NoResult, Result, Results
<1>5. IndexInv' /\ AckedInv' /\ AgreeInv'
  BY <1>1 DEF IInv, IndexInv, LogEnd, AckedInv, AckedOnDisk, AckedEnd, AgreeInv
<1>6. CallInv'
  <2>1. written' <= FrameSize(pending')
    BY <1>1, <1>3, FrameSizeType
  <2>2. writeOffset' + written' <= Len(file')
    BY <1>1, <1>2
  <2>3. pos' = 0
    BY <1>1 DEF IInv, CallInv
  <2> QED BY <1>1, <1>2, <1>3, <2>1, <2>2, <2>3 DEF CallInv
<1> QED BY <1>4, <1>5, <1>6 DEF IInv

(* A call that returns without touching the log: every failure of append()  *)
(* and truncateFrom(), and the truncation that has nothing to do.           *)
LEMMA UnchangedLogInv ==
  ASSUME IInv,
         \/ AppendClosed \/ PwriteError \/ FsyncError
         \/ \E i \in 0 .. MaxIndex + 1 :
              TruncateClosed(i) \/ TruncateNothing(i) \/ TruncateError(i)
  PROVE  IInv'
<1>1. /\ file' = file /\ synced' = synced /\ fd' = fd /\ acked' = acked
      /\ phase \in {"idle", "append"} /\ phase' = "idle"
      /\ offsetIndex' = offsetIndex /\ lastIndex' = lastIndex /\ lastTerm' = lastTerm
      /\ writeOffset' = writeOffset /\ pos' = 0 /\ written' = 0
      /\ pending' \in {pending, NoFrame}
  BY DEF IInv, CallInv, AppendClosed, PwriteError, FsyncError, TruncateClosed,
         TruncateNothing, TruncateError, EndCall, mem, call
<1>2. ret' \in Results
  <2>1. \A i \in 0 .. MaxIndex + 1 : i \in Nat
    BY WALAssumption
  <2> QED BY <2>1 DEF AppendClosed, PwriteError, FsyncError, TruncateClosed,
         TruncateNothing, TruncateError, Returns, Result, Results
<1>3. TypeOK'
  BY <1>1, <1>2 DEF IInv, TypeOK
<1>4. IndexInv' /\ AckedInv' /\ AgreeInv'
  BY <1>1 DEF IInv, IndexInv, LogEnd, AckedInv, AckedOnDisk, AckedEnd, AgreeInv
<1>5. CallInv'
  BY <1>1 DEF CallInv
<1> QED BY <1>3, <1>4, <1>5 DEF IInv

LEMMA NextInv == IInv /\ [Next]_vars => IInv'
<1> SUFFICES ASSUME IInv, [Next]_vars PROVE IInv'
  OBVIOUS
<1>1. CASE OpenStep
  BY <1>1, ScanAcceptInv, ScanStopCuts, ScanShortCuts, ScanCutInv, ClosingInv DEF OpenStep
<1>2. CASE AppendStep
  BY <1>2, PwriteInv, FsyncOkInv, UnchangedLogInv DEF AppendStep
<1>3. CASE TruncateFrom
  <2>1. \A i \in 0 .. MaxIndex + 1 : i \in Nat
    BY WALAssumption
  <2> QED BY <1>3, <2>1, TruncateAllInv, TruncateTailInv, UnchangedLogInv DEF TruncateFrom
<1>4. CASE Environment
  BY <1>4, WritebackInv, ClosingInv DEF Environment
<1>5. CASE OpenFails \/ SizeFails \/ Destroy
  BY <1>5, ClosingInv
<1>6. CASE OpenBegin
  BY <1>6, OpenBeginInv
<1>7. CASE AppendClosed
  BY <1>7, UnchangedLogInv
<1>8. CASE \E t \in Terms, p \in Payloads : AppendBegin(t, p)
  BY <1>8, AppendBeginInv
<1>9. CASE UNCHANGED vars
  <2>1. TypeOK'
    BY <1>9 DEF IInv, TypeOK, vars, mem, call
  <2>2. IndexInv' /\ AckedInv' /\ AgreeInv' /\ CallInv'
    BY <1>9 DEF IInv, vars, mem, call, IndexInv, LogEnd, AckedInv, AckedOnDisk, AckedEnd,
                AgreeInv, CallInv
  <2> QED BY <2>1, <2>2 DEF IInv
<1> QED BY <1>1, <1>2, <1>3, <1>4, <1>5, <1>6, <1>7, <1>8, <1>9 DEF Next

-----------------------------------------------------------------------------
(* The invariant holds in every reachable state of the log, whatever system *)
(* call fails and wherever the process or the machine stops.                *)
THEOREM Invariant == Spec => []IInv
BY InitInv, NextInv, PTL DEF Spec

(* The variables of the log keep their types (WriteAheadLog.h's members).   *)
THEOREM TypeCorrect == Spec => []TypeOK
<1>1. IInv => TypeOK
  BY DEF IInv
<1> QED BY <1>1, Invariant, PTL

(* Once open() has returned OK every entry 1 .. lastIndex() is whole in the *)
(* file, in order and without a gap, up to where append() writes next.      *)
THEOREM IndexCorrect == Spec => []IndexMatchesFile
<1>1. ASSUME IInv PROVE IndexMatchesFile
  <2> SUFFICES ASSUME Loaded PROVE IndexMatchesFile
    BY DEF IndexMatchesFile
  <2>1. /\ fd /\ LogEnd = writeOffset /\ TypeOK /\ IndexInv
        /\ lastIndex \in Nat /\ lastIndex = Len(offsetIndex)
    BY <1>1 DEF Loaded, IInv, LogEnd, IndexInv, TypeOK
  <2>2. \A i \in 1 .. lastIndex : Log[i] = HeadAt(file, offsetIndex[i])
    BY DEF Log
  <2>3. ASSUME NEW i \in 1 .. lastIndex
        PROVE  offsetIndex[i] + FrameSize(Log[i]) =
                 IF i = lastIndex THEN writeOffset ELSE offsetIndex[i + 1]
    <3>1. CASE i = lastIndex
      BY <2>1, <2>2, <3>1 DEF IndexInv, FrameEnd
    <3>2. CASE i # lastIndex
      BY <2>1, <2>2, <3>2 DEF IndexInv, FrameEnd
    <3> QED BY <3>1, <3>2
  <2>4. CASE lastIndex = 0
    BY <2>1, <2>4 DEF IndexInv, IndexMatchesFile
  <2>5. CASE lastIndex # 0
    <3>1. lastIndex \in 1 .. lastIndex
      BY <2>1, <2>5
    <3>2. offsetIndex[1] = 0 /\ lastTerm = Log[lastIndex].term
      BY <2>1, <2>2, <2>5, <3>1 DEF IndexInv
    <3>3. \A i \in 1 .. lastIndex : ValidFrame(file, offsetIndex[i], i)
      BY <2>1 DEF IndexInv
    <3> QED BY <2>1, <2>3, <2>5, <3>2, <3>3 DEF IndexMatchesFile
  <2> QED BY <2>4, <2>5
<1> QED BY <1>1, Invariant, PTL

(* What append() confirmed is whole in the file and on stable storage until *)
(* truncateFrom() discards it or an open() reads a frame short and cuts it. *)
THEOREM ConfirmedIsDurable == Spec => []AckedOnDisk
<1>1. IInv => AckedOnDisk
  BY DEF IInv, AckedInv
<1> QED BY <1>1, Invariant, PTL

(* An open log has each confirmed entry, but for those discarded or cut as  *)
(* above, at the index append() gave it and with the content it was given.  *)
THEOREM ConfirmedIsVisible == Spec => []AckedVisible
<1>1. ASSUME IInv PROVE AckedVisible
  <2> SUFFICES ASSUME Loaded PROVE AckedVisible
    BY DEF AckedVisible
  <2>1. /\ fd /\ phase # "scan" /\ TypeOK /\ IndexInv /\ AckedInv /\ AgreeInv
        /\ lastIndex \in Nat /\ Len(acked) \in Nat /\ Len(acked) <= lastIndex
    BY <1>1 DEF Loaded, IInv, AgreeInv, TypeOK
  <2>2. ASSUME NEW i \in 1 .. Len(acked)
        PROVE  Log[i] = acked[i].frame
    <3>1. i \in 1 .. lastIndex /\ i <= lastIndex
      BY <2>1
    <3>2. HeadAt(file, offsetIndex[i]) = acked[i].frame
      BY <2>1, <3>1, AckedIndexed
    <3> QED BY <3>1, <3>2 DEF Log
  <2> QED BY <2>1, <2>2 DEF AckedVisible
<1> QED BY <1>1, Invariant, PTL

-----------------------------------------------------------------------------
(* What lies past the end of an open log: open() and truncateFrom() leave   *)
(* nothing there, and every append() since then that failed was at the      *)
(* index the next one uses, or a lower one.                                 *)
GhostInv ==
  Loaded => \A k \in writeOffset + 1 .. Len(file) : file[k].frame.index <= lastIndex + 1

LEMMA PwriteGhost ==
  ASSUME IInv, GhostInv, NEW n \in 1 .. FrameSize(pending), Pwrite(n)
  PROVE  GhostInv'
<1> DEFINE at == writeOffset + written
<1>1. /\ phase = "append" /\ fd /\ Loaded
      /\ lastIndex' = lastIndex /\ writeOffset' = writeOffset
      /\ file' = WriteCells(file, at, pending, written, n)
  BY DEF IInv, CallInv, Pwrite, mem, Loaded
<1>2. /\ pending \in Entry /\ pending.index = lastIndex + 1 /\ lastIndex \in Nat
      /\ writeOffset \in Nat /\ written \in Nat /\ n \in Nat
      /\ at \in Nat /\ at <= Len(file) /\ Len(file) \in Nat
  BY <1>1, FrameSizeType DEF IInv, CallInv, TypeOK
<1> HIDE DEF at
<1>3. /\ Len(file') = IF at + n > Len(file) THEN at + n ELSE Len(file)
      /\ \A k \in 1 .. Len(file') :
           file'[k] = IF k \in at + 1 .. at + n THEN Cell(pending, written + k - at) ELSE file[k]
  BY <1>1, <1>2 DEF WriteCells
<1>4. ASSUME NEW k \in writeOffset + 1 .. Len(file')
      PROVE  file'[k].frame.index <= lastIndex + 1
  <2>1. k \in 1 .. Len(file')
    BY <1>2, <1>3
  <2>2. CASE k \in at + 1 .. at + n
    <3>1. file'[k] = Cell(pending, written + k - at)
      BY <1>3, <2>1, <2>2
    <3>2. file'[k].frame = pending
      BY <3>1 DEF Cell
    <3> QED BY <1>2, <3>2
  <2>3. CASE k \notin at + 1 .. at + n
    <3>1. k \in writeOffset + 1 .. Len(file) /\ file'[k] = file[k]
      BY <1>2, <1>3, <2>1, <2>3
    <3> QED BY <1>1, <3>1 DEF GhostInv
  <2> QED BY <2>2, <2>3
<1> QED BY <1>1, <1>4 DEF GhostInv

(* The steps that end with an open log and nothing past its end.            *)
LEMMA CutGhost ==
  ASSUME IInv,
         \/ ScanCut \/ TruncateAll \/ \E i \in 0 .. MaxIndex + 1 : TruncateTail(i)
  PROVE  GhostInv'
<1>1. Len(file') = writeOffset' /\ writeOffset' \in Nat
  <2>1. CASE ScanCut
    BY <2>1, ResizeProperties DEF IInv, TypeOK, ScanCut
  <2>2. CASE TruncateAll
    BY <2>2 DEF TruncateAll, EmptyMem
  <2>3. CASE \E i \in 0 .. MaxIndex + 1 : TruncateTail(i)
    <3> PICK i \in 0 .. MaxIndex + 1 : TruncateTail(i)
      BY <2>3
    <3>1. /\ file' = Resize(file, offsetIndex[i]) /\ writeOffset' = offsetIndex[i]
          /\ i \in 1 .. lastIndex /\ fd
      BY DEF TruncateTail
    <3>2. offsetIndex[i] \in Nat /\ file \in Seq(Cells)
      BY <3>1 DEF IInv, IndexInv, TypeOK
    <3> QED BY <3>1, <3>2, ResizeProperties
  <2> QED BY <2>1, <2>2, <2>3
<1>2. \A k \in writeOffset' + 1 .. Len(file') : FALSE
  <2>1. \A n \in Nat : \A k \in n + 1 .. n : FALSE
    OBVIOUS
  <2> QED BY <1>1, <2>1
<1> QED BY <1>2 DEF GhostInv

LEMMA FsyncGhost == IInv /\ GhostInv /\ FsyncOk => GhostInv'
<1> SUFFICES ASSUME IInv, GhostInv, FsyncOk PROVE GhostInv'
  OBVIOUS
<1>1. /\ Loaded /\ file' = file /\ file \in Seq(Cells)
      /\ lastIndex' = lastIndex + 1 /\ lastIndex \in Nat
      /\ writeOffset' = writeOffset + FrameSize(pending) /\ writeOffset \in Nat
      /\ FrameSize(pending) \in Nat
  BY FrameSizeType DEF IInv, CallInv, TypeOK, FsyncOk, Loaded
<1>2. ASSUME NEW k \in writeOffset' + 1 .. Len(file')
      PROVE  file'[k].frame.index <= lastIndex' + 1
  <2>1. k \in writeOffset + 1 .. Len(file) /\ k \in 1 .. Len(file)
    BY <1>1
  <2>2. file[k].frame.index <= lastIndex + 1
    BY <1>1, <2>1 DEF GhostInv
  <2>3. file[k].frame.index \in Nat
    <3>1. file[k] \in Cells
      BY <1>1, <2>1
    <3> QED BY <3>1 DEF Cells, Zero, Cell, NoFrame, Entry, INVALID_LOG_INDEX
  <2> QED BY <1>1, <2>2, <2>3
<1> QED BY <1>2 DEF GhostInv

LEMMA NextGhost ==
  ASSUME IInv, GhostInv, [Next]_vars
  PROVE  GhostInv'
<1>1. ASSUME ~Loaded' PROVE GhostInv'
  BY <1>1 DEF GhostInv
<1>2. ASSUME OpenFails \/ SizeFails \/ OpenBegin \/ ScanAccept \/ ScanReadError
             \/ ScanTruncateError \/ Destroy \/ ProcessCrash \/ PowerLoss
      PROVE  GhostInv'
  <2>1. ~Loaded'
    BY <1>2 DEF OpenFails, SizeFails, OpenBegin, ScanAccept, ScanReadError,
                ScanTruncateError, Destroy, ProcessCrash, PowerLoss, Loaded
  <2> QED BY <1>1, <2>1
<1>3. ASSUME file' = file, lastIndex' = lastIndex, writeOffset' = writeOffset, Loaded' = Loaded
      PROVE  GhostInv'
  BY <1>3 DEF GhostInv
<1>4. CASE OpenStep
  BY <1>2, <1>4, ScanStopCuts, ScanShortCuts, CutGhost DEF OpenStep
<1>5. CASE AppendStep
  <2>1. CASE PwriteError \/ FsyncError
    BY <1>3, <2>1 DEF PwriteError, FsyncError, EndCall, mem, Loaded
  <2> QED BY <1>5, <2>1, PwriteGhost, FsyncGhost DEF AppendStep
<1>6. CASE TruncateFrom
  <2>1. CASE \E i \in 0 .. MaxIndex + 1 : TruncateClosed(i) \/ TruncateNothing(i) \/ TruncateError(i)
    BY <1>3, <2>1 DEF TruncateClosed, TruncateNothing, TruncateError, mem, Loaded
  <2> QED BY <1>6, <2>1, CutGhost DEF TruncateFrom
<1>7. CASE Environment
  <2>1. CASE WritebackSize \/ \E i \in DOMAIN file : WritebackCell(i)
    BY <1>3, <2>1 DEF WritebackSize, WritebackCell, mem, Loaded
  <2> QED BY <1>2, <1>7, <2>1 DEF Environment
<1>8. CASE AppendClosed \/ (\E t \in Terms, p \in Payloads : AppendBegin(t, p)) \/ UNCHANGED vars
  BY <1>3, <1>8 DEF AppendClosed, AppendBegin, vars, mem, Loaded
<1> QED BY <1>2, <1>4, <1>5, <1>6, <1>7, <1>8 DEF Next

(* Of all the appends that failed since the log was opened or cut, at most  *)
(* one whole entry lies past the end of the open log.                       *)
THEOREM FailedAppendsLeaveOneEntry == Spec => []AtMostOneGhost
<1>1. Init => GhostInv
  BY DEF Init, GhostInv, Loaded
<1>2. IInv /\ GhostInv /\ [Next]_vars => GhostInv'
  BY NextGhost
<1>3. ASSUME IInv, GhostInv PROVE AtMostOneGhost
  <2> SUFFICES ASSUME Loaded, NEW off \in writeOffset .. Len(file),
                      ValidFrame(file, off, lastIndex + 2)
               PROVE  FALSE
    BY DEF AtMostOneGhost
  <2>1. writeOffset \in Nat /\ Len(file) \in Nat /\ lastIndex \in Nat
    BY <1>3 DEF IInv, TypeOK
  <2>2. off + 1 \in writeOffset + 1 .. Len(file)
    BY <2>1 DEF ValidFrame
  <2>3. file[off + 1].frame.index <= lastIndex + 1
    BY <1>3, <2>2 DEF GhostInv
  <2>4. file[off + 1].frame.index = lastIndex + 2
    BY DEF ValidFrame, HeadAt
  <2> QED BY <2>1, <2>3, <2>4
<1> QED BY <1>1, <1>2, <1>3, Invariant, PTL DEF Spec

-----------------------------------------------------------------------------
(* WriteAheadLog implements DurableLog: the file, the index and the scan,   *)
(* with every crash and every failed system call, show a caller nothing     *)
(* but a sequence that append() extends, truncateFrom() cuts, and a         *)
(* restart returns to with every confirmed entry, or with those before one  *)
(* that was read short.  Each step of the log is a step of DurableLog or    *)
(* leaves its three variables as they are.                                  *)

(* SubSeq(s, 1, n), read element by element.                                *)
LEMMA UptoProperties ==
  ASSUME NEW S, NEW s \in Seq(S), NEW n \in 0 .. Len(s)
  PROVE  /\ Durable!Upto(s, n) \in Seq(S)
         /\ Len(Durable!Upto(s, n)) = n
         /\ \A i \in 1 .. n : Durable!Upto(s, n)[i] = s[i]
<1>1. n \in Nat /\ Len(s) \in Nat /\ \A i \in 1 .. n : s[i] \in S
  BY ElementOfSeq
<1> QED BY <1>1, SubSeqProperties DEF Durable!Upto

(* A sequence that agrees with s on a prefix of s is that prefix.           *)
LEMMA UptoIsPrefix ==
  ASSUME NEW S, NEW s \in Seq(S), NEW t \in Seq(S),
         Len(t) <= Len(s), \A i \in 1 .. Len(t) : s[i] = t[i]
  PROVE  Durable!Upto(s, Len(t)) = t
<1>1. Len(t) \in 0 .. Len(s)
  BY LenProperties
<1> QED BY <1>1, UptoProperties, SeqEqual

-----------------------------------------------------------------------------
(* The two sequences a caller may be shown.                                *)

(* One entry at each index, the one the file holds there.                   *)
LogTyped ==
  /\ Log \in Seq(Entry) /\ Len(Log) = lastIndex
  /\ \A i \in 1 .. lastIndex : /\ Log[i] = HeadAt(file, offsetIndex[i])
                               /\ Log[i] \in Entry
                               /\ Log[i].index = i

(* The confirmed entries are the first ones of an open log.                 *)
AckedFirst ==
  /\ Len(acked) <= lastIndex
  /\ Durable!Upto(Log, Len(acked)) = AckedLog

LEMMA LogType == IInv /\ Loaded => LogTyped
<1> SUFFICES ASSUME IInv, Loaded PROVE LogTyped
  OBVIOUS
<1>1. TypeOK /\ IndexInv /\ fd /\ lastIndex \in Nat
  BY DEF IInv, TypeOK, Loaded
<1>2. \A i \in 1 .. lastIndex : HeadAt(file, offsetIndex[i]) \in Entry
  BY <1>1, IndexType
<1>3. \A i \in 1 .. lastIndex : HeadAt(file, offsetIndex[i]).index = i
  BY <1>1 DEF IndexInv, ValidFrame
<1>4. Log \in Seq(Entry) /\ Len(Log) = lastIndex
  BY <1>1, <1>2 DEF Log
<1> QED BY <1>2, <1>3, <1>4 DEF Log, LogTyped

LEMMA AckedLogType ==
  IInv => /\ AckedLog \in Seq(Entry) /\ Len(AckedLog) = Len(acked) /\ Len(acked) \in Nat
          /\ \A i \in 1 .. Len(acked) : AckedLog[i] = acked[i].frame
<1> SUFFICES ASSUME IInv
             PROVE  /\ AckedLog \in Seq(Entry) /\ Len(AckedLog) = Len(acked) /\ Len(acked) \in Nat
                    /\ \A i \in 1 .. Len(acked) : AckedLog[i] = acked[i].frame
  OBVIOUS
<1>1. TypeOK /\ Len(acked) \in Nat
  BY DEF IInv, TypeOK
<1>2. \A i \in 1 .. Len(acked) : acked[i].frame \in Entry
  BY <1>1, AckedType
<1> QED BY <1>1, <1>2 DEF AckedLog

LEMMA AckedIsPrefix == IInv /\ Loaded => AckedFirst
<1> SUFFICES ASSUME IInv, Loaded PROVE AckedFirst
  OBVIOUS
<1>1. /\ TypeOK /\ IndexInv /\ AckedInv /\ AgreeInv /\ fd
      /\ lastIndex \in Nat /\ Len(acked) \in Nat /\ Len(acked) <= lastIndex
  BY DEF IInv, AgreeInv, TypeOK, Loaded
<1>2. ASSUME NEW i \in 1 .. Len(acked) PROVE Log[i] = AckedLog[i]
  <2>1. i \in 1 .. lastIndex /\ i <= lastIndex
    BY <1>1
  <2>2. HeadAt(file, offsetIndex[i]) = acked[i].frame
    BY <1>1, <2>1, AckedIndexed
  <2> QED BY <2>1, <2>2, LogType, AckedLogType DEF LogTyped
<1> QED BY <1>1, <1>2, LogType, AckedLogType, UptoIsPrefix DEF LogTyped, AckedFirst

LEMMA AfterStep == (IInv /\ Loaded)' => LogTyped' /\ AckedFirst'
BY LogType, AckedIsPrefix, PTL

-----------------------------------------------------------------------------
(* Steps that leave what the caller is shown as it was.                    *)

LEMMA StutterStep ==
  ASSUME IInv, IInv', Loaded' = Loaded, acked' = acked,
         Loaded => /\ lastIndex' = lastIndex
                   /\ \A i \in 1 .. lastIndex :
                        HeadAt(file', offsetIndex'[i]) = HeadAt(file, offsetIndex[i])
  PROVE  UNCHANGED Durable!vars
<1>1. AckedLog' = AckedLog /\ Len(acked') = Len(acked)
  BY DEF AckedLog
<1>2. Loaded => Log' = Log
  BY DEF Log
<1> QED BY <1>1, <1>2 DEF Durable!vars

(* Only the file moves, past the end of the log.                            *)
LEMMA PwriteStep ==
  ASSUME IInv, IInv', NEW n \in 1 .. FrameSize(pending), Pwrite(n)
  PROVE  UNCHANGED Durable!vars
<1> DEFINE at == writeOffset + written
<1>1. /\ phase = "append" /\ fd /\ Loaded /\ Loaded'
      /\ offsetIndex' = offsetIndex /\ lastIndex' = lastIndex /\ acked' = acked
      /\ file' = WriteCells(file, at, pending, written, n)
  BY DEF IInv, CallInv, Pwrite, mem, Loaded
<1>2. /\ TypeOK /\ IndexInv /\ pending \in Entry /\ n \in Nat /\ written \in Nat
      /\ at \in Nat /\ at <= Len(file) /\ writeOffset <= at /\ LogEnd = writeOffset
      /\ Len(file) \in Nat /\ writeOffset \in Nat
  BY <1>1, FrameSizeType DEF IInv, CallInv, TypeOK, LogEnd
<1>3. /\ file' \in Seq(Cells) /\ Len(file') >= Len(file)
      /\ \A k \in 1 .. at : file'[k] = file[k]
  BY <1>1, <1>2, WriteProperties DEF TypeOK
<1>4. at <= Len(file') /\ \A k \in 1 .. at : k <= Len(file) => file'[k] = file[k]
  BY <1>2, <1>3 DEF TypeOK
<1> HIDE DEF at
<1>5. ASSUME NEW i \in 1 .. lastIndex
      PROVE  HeadAt(file', offsetIndex'[i]) = HeadAt(file, offsetIndex[i])
  <2>1. FrameEnd(file, offsetIndex[i]) <= at
    BY <1>1, <1>2, IndexType DEF IndexInv
  <2> QED BY <1>1, <1>2, <1>3, <1>4, <2>1, IndexKept
<1> QED BY <1>1, <1>5, StutterStep

LEMMA QuietStep ==
  ASSUME IInv, IInv',
         \/ ScanAccept \/ AppendClosed
         \/ (\E t \in Terms, p \in Payloads : AppendBegin(t, p))
         \/ PwriteError \/ FsyncError
         \/ (\E i \in 0 .. MaxIndex + 1 : TruncateClosed(i) \/ TruncateNothing(i) \/ TruncateError(i))
         \/ WritebackSize \/ (\E i \in DOMAIN file : WritebackCell(i))
         \/ UNCHANGED vars
  PROVE  UNCHANGED Durable!vars
<1>1. Loaded' = Loaded /\ acked' = acked /\ file' = file
  BY DEF ScanAccept, AppendClosed, AppendBegin, PwriteError, FsyncError, EndCall,
         TruncateClosed, TruncateNothing, TruncateError, WritebackSize, WritebackCell,
         vars, Loaded, mem, call
<1>2. Loaded => lastIndex' = lastIndex /\ offsetIndex' = offsetIndex
  BY DEF ScanAccept, AppendClosed, AppendBegin, PwriteError, FsyncError,
         TruncateClosed, TruncateNothing, TruncateError, WritebackSize, WritebackCell,
         vars, Loaded, mem, call
<1> QED BY <1>1, <1>2, StutterStep DEF HeadAt

-----------------------------------------------------------------------------
(* Steps of DurableLog.                                                    *)

(* The log closes, or a scan begins: an open log is cut back to what is     *)
(* promised, a closed one keeps promising that.                             *)
LEMMA StopStep ==
  ASSUME IInv, IInv', ~Loaded', acked' = acked
  PROVE  Durable!Stop \/ UNCHANGED Durable!vars
<1>1. AckedLog' = AckedLog /\ Len(acked') = Len(acked)
  BY DEF AckedLog
<1>2. CASE Loaded
  BY <1>1, <1>2, AckedIsPrefix DEF Durable!Stop, AckedFirst
<1>3. CASE ~Loaded
  <2>1. Loaded' = Loaded
    BY <1>3 DEF Loaded
  <2> QED BY <1>1, <1>3, <2>1 DEF Durable!vars
<1> QED BY <1>2, <1>3

(* open() returns OK: every confirmed entry is back, at its index ...       *)
LEMMA RecoverStep ==
  ASSUME IInv, IInv', ScanCut, acked' = acked
  PROVE  Durable!Recover
<1>1. ~Loaded /\ Loaded' /\ acked' = acked /\ AckedLog' = AckedLog
  BY DEF IInv, CallInv, ScanCut, EndCall, Loaded, AckedLog
<1>2. /\ Len(acked') <= lastIndex' /\ Durable!Upto(Log', Len(acked')) = AckedLog'
      /\ Log' \in Seq(Entry) /\ Len(Log') = lastIndex'
      /\ \A i \in 1 .. lastIndex' : Log'[i] \in Entry /\ Log'[i].index = i
  BY <1>1, AfterStep DEF LogTyped, AckedFirst
<1>3. Len(AckedLog) = Len(acked)
  BY AckedLogType
<1> QED BY <1>1, <1>2, <1>3 DEF Durable!Recover, Durable!Extends, Durable!Entry, Entry

(* ... or the first one missing is one whose frame was read short.          *)
LEMMA RecoverShortStep ==
  ASSUME IInv, IInv', ScanShort
  PROVE  Durable!Recover \/ Durable!RecoverShort
<1> DEFINE n == lastIndex
<1>1. ScanCut /\ TypeOK /\ IndexInv /\ AckedInv /\ AgreeInv /\ fd /\ phase = "scan"
  BY ScanShortCuts DEF IInv, CallInv, ScanShort
<1>2. /\ n \in Nat /\ n = Len(offsetIndex) /\ Len(acked) \in Nat
      /\ lastIndex' = n /\ acked' = FirstAcked(n)
  BY <1>1 DEF IndexInv, TypeOK, ScanCut
<1>3. CASE Len(acked) <= n
  <2>1. acked' = acked
    BY <1>1, <1>2, <1>3 DEF FirstAcked, TypeOK
  <2> QED BY <1>1, <2>1, RecoverStep
<1>4. CASE n < Len(acked)
  <2>1. ~Loaded /\ Loaded'
    BY <1>1 DEF ScanCut, EndCall, Loaded
  <2>2. /\ Len(acked') = n
        /\ \A i \in 1 .. n : i \in 1 .. Len(acked) /\ acked'[i] = acked[i]
    BY <1>1, <1>2, <1>4, FirstAckedType
  <2>3. n + 1 \in 1 .. Len(acked) /\ pos = acked[n + 1].off
    BY <1>1, <1>2, <1>4 DEF AgreeInv
  <2>4. FrameAt(file, pos, acked[n + 1].frame)
    BY <1>1, <2>3 DEF AckedInv, AckedOnDisk
  <2>5. HeadAt(file, pos) = acked[n + 1].frame
    BY <1>1, <2>3, <2>4, AckedType, FrameIsValid DEF TypeOK
  <2>6. acked[n + 1].frame.payload \in ShortReads
    BY <1>2, <2>5 DEF ScanShort, ShortRead
  <2>7. /\ AckedLog \in Seq(Entry) /\ Len(AckedLog) = Len(acked)
        /\ AckedLog[n + 1] = acked[n + 1].frame
    BY <1>1, <2>3, AckedLogType DEF AckedLog
  <2>8. /\ Len(Log') = n /\ Log' \in Seq(Entry)
        /\ Durable!Upto(Log', n) = AckedLog'
    BY <1>2, <2>1, <2>2, AfterStep DEF LogTyped, AckedFirst
  <2>9. Durable!Upto(Log', n) = Log'
    BY <1>2, <2>8, UptoIsPrefix
  <2>10. Len(AckedLog') = n /\ \A i \in 1 .. n : AckedLog'[i] = AckedLog[i]
    BY <1>2, <2>2 DEF AckedLog
  <2>11. Durable!Upto(AckedLog, n) = Log'
    <3>1. Len(Log') <= Len(AckedLog) /\ \A i \in 1 .. Len(Log') : AckedLog[i] = Log'[i]
      BY <1>2, <1>4, <2>7, <2>8, <2>9, <2>10
    <3> QED BY <2>7, <2>8, <3>1, UptoIsPrefix
  <2>12. n \in 0 .. Len(AckedLog) - 1
    BY <1>2, <1>4, <2>7
  <2> HIDE DEF n
  <2> QED BY <2>1, <2>2, <2>6, <2>7, <2>11, <2>12 DEF Durable!RecoverShort
<1> QED BY <1>2, <1>3, <1>4

(* append() returns OK: one entry more, and the whole log confirmed.        *)
LEMMA AppendStepRefines ==
  ASSUME IInv, IInv', FsyncOk
  PROVE  Durable!AppendEntry
<1>1. TypeOK /\ IndexInv /\ fd /\ phase = "append" /\ Loaded /\ Loaded'
  BY DEF IInv, CallInv, FsyncOk, EndCall, Loaded
<1>2. /\ file' = file /\ lastIndex' = lastIndex + 1 /\ lastIndex \in Nat
      /\ Len(offsetIndex) = lastIndex /\ writeOffset \in Nat
      /\ offsetIndex' = Append(offsetIndex, writeOffset)
  BY <1>1 DEF IInv, CallInv, FsyncOk, IndexInv, TypeOK
<1>3. Len(acked') = lastIndex'
  BY <1>1, <1>2 DEF IInv, CallInv, FsyncOk
<1>4. /\ Log \in Seq(Entry) /\ Len(Log) = lastIndex
      /\ \A i \in 1 .. lastIndex : Log[i] = HeadAt(file, offsetIndex[i])
  BY <1>1, LogType DEF LogTyped
<1>5. /\ Log' \in Seq(Entry) /\ Len(Log') = lastIndex'
      /\ \A i \in 1 .. lastIndex' : Log'[i] = HeadAt(file', offsetIndex'[i]) /\ Log'[i].index = i
  BY <1>1, AfterStep DEF LogTyped
<1>6. \A i \in 1 .. lastIndex : Log'[i] = Log[i]
  <2>1. \A i \in 1 .. lastIndex : offsetIndex'[i] = offsetIndex[i]
    BY <1>2 DEF TypeOK
  <2>2. \A i \in 1 .. lastIndex : i \in 1 .. lastIndex'
    BY <1>2
  <2> QED BY <1>1, <1>2, <1>4, <1>5, <2>1, <2>2
<1>7. Durable!Extends(Log', Log)
  <2>1. Len(Log) <= Len(Log') /\ Log \in Seq(Entry) /\ Log' \in Seq(Entry)
    BY <1>2, <1>4, <1>5
  <2>2. \A i \in 1 .. Len(Log) : Log'[i] = Log[i]
    BY <1>4, <1>6
  <2>3. Durable!Upto(Log', Len(Log)) = Log
    BY <2>1, <2>2, UptoIsPrefix
  <2> QED BY <2>1, <2>3 DEF Durable!Extends
<1>8. Log'[lastIndex'].index = lastIndex'
  BY <1>1, <1>2, <1>5
<1> QED BY <1>1, <1>2, <1>3, <1>4, <1>5, <1>7, <1>8 DEF Durable!AppendEntry

LEMMA TruncateAllStep ==
  ASSUME IInv, IInv', TruncateAll
  PROVE  Durable!Truncate
<1>1. Loaded /\ Loaded' /\ lastIndex' = 0 /\ acked' = <<>>
  BY DEF TruncateAll, EmptyMem, Loaded, INVALID_LOG_INDEX
<1>2. Log \in Seq(Entry) /\ Len(Log) \in Nat
  BY <1>1, LogType DEF LogTyped
<1>3. Log' = <<>> /\ Len(acked') = 0 /\ Len(acked) \in Nat
  BY <1>1, AckedLogType DEF Log
<1>4. Durable!Upto(Log, 0) = <<>>
  BY SubSeqEmpty DEF Durable!Upto
<1>5. 0 \in 0 .. Len(Log) /\ (0 = IF 0 < Len(acked) THEN 0 ELSE Len(acked))
  BY <1>2, <1>3
<1> QED BY <1>1, <1>3, <1>4, <1>5 DEF Durable!Truncate

LEMMA TruncateTailStep ==
  ASSUME IInv, IInv', NEW i \in Nat, TruncateTail(i)
  PROVE  Durable!Truncate
<1> DEFINE n == i - 1
<1>1. /\ fd /\ Loaded /\ Loaded' /\ phase = "idle" /\ i \in 1 .. lastIndex
      /\ file' = Resize(file, offsetIndex[i]) /\ lastIndex' = n
      /\ offsetIndex' = [j \in 1 .. n |-> offsetIndex[j]]
      /\ acked' = [j \in 1 .. (IF n < Len(acked) THEN n ELSE Len(acked)) |-> acked[j]]
  BY DEF TruncateTail, FirstAcked, Loaded
<1>2. /\ TypeOK /\ IndexInv /\ lastIndex \in Nat /\ Len(acked) \in Nat
      /\ n \in Nat /\ n < lastIndex /\ file \in Seq(Cells)
      /\ offsetIndex[i] \in Nat /\ offsetIndex[i] <= Len(file)
  <2>1. TypeOK /\ IndexInv /\ lastIndex = Len(offsetIndex)
    BY <1>1 DEF IInv, IndexInv
  <2>2. ValidFrame(file, offsetIndex[i], i)
    BY <1>1, <2>1 DEF IndexInv
  <2>3. offsetIndex[i] \in Nat /\ Len(file) \in Nat
    BY <1>1, <2>1 DEF TypeOK
  <2> QED BY <1>1, <2>1, <2>2, <2>3 DEF TypeOK, ValidFrame
<1>3. /\ file' \in Seq(Cells) /\ Len(file') = offsetIndex[i]
      /\ \A k \in 1 .. offsetIndex[i] : k <= Len(file) => file'[k] = file[k]
  BY <1>1, <1>2, ResizeProperties
<1>4. ASSUME NEW j \in 1 .. n
      PROVE  HeadAt(file', offsetIndex'[j]) = HeadAt(file, offsetIndex[j])
  <2>1. j \in 1 .. lastIndex /\ j < i /\ offsetIndex'[j] = offsetIndex[j]
    BY <1>1, <1>2
  <2>2. FrameEnd(file, offsetIndex[j]) <= offsetIndex[i]
    BY <1>1, <1>2, <2>1 DEF IndexInv
  <2>3. offsetIndex[i] <= Len(file')
    BY <1>2, <1>3
  <2> QED BY <1>1, <1>2, <1>3, <2>1, <2>2, <2>3, IndexKept
<1>5. /\ Log \in Seq(Entry) /\ Len(Log) = lastIndex
      /\ \A j \in 1 .. lastIndex : Log[j] = HeadAt(file, offsetIndex[j])
  BY <1>1, LogType DEF LogTyped
<1>6. /\ Log' \in Seq(Entry) /\ Len(Log') = lastIndex'
        /\ \A j \in 1 .. lastIndex' : Log'[j] = HeadAt(file', offsetIndex'[j])
  BY <1>1, AfterStep DEF LogTyped
<1>7. \A j \in 1 .. n : Log[j] = Log'[j]
  <2>1. \A j \in 1 .. n : j \in 1 .. lastIndex
    BY <1>2
  <2> QED BY <1>1, <1>4, <1>5, <1>6, <2>1
<1>8. Durable!Upto(Log, n) = Log'
  <2>1. Len(Log') = n /\ Len(Log') <= Len(Log)
    BY <1>1, <1>2, <1>5, <1>6
  <2> HIDE DEF n
  <2> QED BY <1>5, <1>6, <1>7, <2>1, UptoIsPrefix
<1>9. Len(acked') = IF n < Len(acked) THEN n ELSE Len(acked)
  BY <1>1, <1>2
<1>10. n \in 0 .. Len(Log)
  BY <1>2, <1>5
<1> HIDE DEF n
<1> QED BY <1>1, <1>8, <1>9, <1>10 DEF Durable!Truncate

-----------------------------------------------------------------------------
LEMMA InitRefines == Init => Durable!Init
<1> SUFFICES ASSUME Init PROVE Durable!Init
  OBVIOUS
<1>1. ~Loaded /\ acked = <<>>
  BY DEF Init, Loaded
<1> QED BY <1>1 DEF Durable!Init, AckedLog

LEMMA StepRefines ==
  ASSUME IInv, IInv', [Next]_vars
  PROVE  [Durable!Next]_(Durable!vars)
<1>1. ASSUME OpenFails \/ SizeFails \/ OpenBegin \/ ScanReadError \/ ScanTruncateError
             \/ Destroy \/ ProcessCrash \/ PowerLoss
      PROVE  Durable!Stop \/ UNCHANGED Durable!vars
  <2>1. ~Loaded' /\ acked' = acked
    BY <1>1 DEF OpenFails, SizeFails, OpenBegin, ScanReadError, ScanTruncateError,
                Destroy, ProcessCrash, PowerLoss, Loaded
  <2> QED BY <2>1, StopStep
<1>2. CASE OpenStep
  <2>1. CASE ScanStop
    <3>1. acked' = acked
      BY <2>1 DEF ScanStop
    <3> QED BY <2>1, <3>1, ScanStopCuts, RecoverStep DEF Durable!Next
  <2>2. CASE ScanShort
    BY <2>2, RecoverShortStep DEF Durable!Next
  <2> QED BY <1>1, <1>2, <2>1, <2>2, QuietStep DEF OpenStep, Durable!Next
<1>3. CASE AppendStep
  BY <1>3, PwriteStep, QuietStep, AppendStepRefines DEF AppendStep, Durable!Next
<1>4. CASE TruncateFrom
  <2>1. \A i \in 0 .. MaxIndex + 1 : i \in Nat
    BY WALAssumption
  <2> QED BY <1>4, <2>1, QuietStep, TruncateAllStep, TruncateTailStep DEF TruncateFrom, Durable!Next
<1>5. CASE Environment
  BY <1>1, <1>5, QuietStep DEF Environment, Durable!Next
<1>6. CASE OpenFails \/ SizeFails \/ OpenBegin \/ Destroy
  BY <1>1, <1>6 DEF Durable!Next
<1>7. CASE AppendClosed \/ (\E t \in Terms, p \in Payloads : AppendBegin(t, p)) \/ UNCHANGED vars
  BY <1>7, QuietStep
<1> QED BY <1>2, <1>3, <1>4, <1>5, <1>6, <1>7 DEF Next

(* Whatever fails and wherever a crash falls, the log behaves as DurableLog *)
(* says: append() and truncateFrom() are atomic to the caller, and open()   *)
(* never reorders or alters a confirmed entry, and loses one only with all  *)
(* that follow it and only from one whose frame may be read short.          *)
THEOREM ImplementsDurableLog == Spec => DurableLogSpec
<1>1. IInv /\ IInv' /\ [Next]_vars => [Durable!Next]_(Durable!vars)
  BY StepRefines
<1> QED BY <1>1, InitRefines, Invariant, PTL DEF Spec, DurableLogSpec, Durable!Spec

=============================================================================
