--------------------------- MODULE AtomicFileProofs ---------------------------
(***************************************************************************)
(* What writeFileAtomic and readFile guarantee for every set of contents   *)
(* and every size of theirs.                                               *)
(***************************************************************************)
EXTENDS AtomicFile, TLAPS

-----------------------------------------------------------------------------
(* The inductive invariant.                                                *)

(* path.tmp shares its inode with nothing that anyone may read as path.     *)
DirInv ==
  /\ dir["tmp"] # Nothing => dir["tmp"] \notin {dir["path"], diskDir["path"], rfile}
  /\ diskDir["tmp"] # Nothing => diskDir["tmp"] # diskDir["path"]

(* What path names is whole and synced: only then may the directory entry   *)
(* reach the disk, and no writeback has anything left to do there.          *)
PathInv ==
  /\ dir["path"] # Nothing => /\ data[dir["path"]] \in Wholes
                              /\ disk[dir["path"]] = data[dir["path"]]
  /\ diskDir["path"] # Nothing => disk[diskDir["path"]] \in Wholes

Upto(c, n) == [k \in 1 .. n |-> <<c, k>>]

(* path.tmp holds what has been written and nothing else.                   *)
SaveInv ==
  /\ pc = "idle" => content = Nothing
  /\ pc = "write" => written <= Size[content] /\ data[fd] = Upto(content, written)
  /\ pc = "rename" => data[fd] = Whole(content) /\ disk[fd] = data[fd]

(* The inode that readFile opened stays whole, whatever becomes of path.    *)
ReadInv ==
  /\ rpc = "open" => dir["path"] # Nothing
  /\ rpc = "read" => rfile \in Inodes /\ data[rfile] \in Wholes
  /\ rpc # "read" => rfile = Nothing
  /\ ReadNeverMixes

IInv == TypeOK /\ DirInv /\ PathInv /\ SaveInv /\ ReadInv

-----------------------------------------------------------------------------
(* Cells and inodes.                                                       *)

LEMMA UptoType ==
  ASSUME NEW c \in Contents, NEW n \in Nat
  PROVE  /\ Upto(c, n) \in Seq(Cells) /\ Len(Upto(c, n)) = n
         /\ \A k \in 1 .. n : Upto(c, n)[k] = <<c, k>>
<1>1. \A k \in 1 .. n : <<c, k>> \in Cells
  BY DEF Cells
<1> QED BY <1>1 DEF Upto

LEMMA WholeType ==
  ASSUME NEW c \in Contents
  PROVE  /\ Whole(c) = Upto(c, Size[c]) /\ Size[c] \in Nat
         /\ Whole(c) \in Seq(Cells) /\ Whole(c) \in Wholes
<1>1. Size[c] \in Nat /\ Whole(c) = Upto(c, Size[c])
  BY AtomicFileAssumption DEF Whole, Upto
<1> QED BY <1>1, UptoType DEF Wholes

(* Two contents differ in some cell, or in their number.                    *)
LEMMA WholeInjective ==
  ASSUME NEW c \in Contents, NEW e \in Contents, Whole(c) = Whole(e)
  PROVE  c = e
<1>1. Size[c] \in Nat /\ Size[e] \in Nat /\ Size[c] = Size[e]
  BY WholeType, UptoType
<1>2. CASE Size[c] = 0
  BY <1>1, <1>2, AtomicFileAssumption
<1>3. CASE Size[c] # 0
  <2>1. 1 \in 1 .. Size[c] /\ 1 \in 1 .. Size[e]
    BY <1>1, <1>3
  <2>2. Whole(c)[1] = <<c, 1>> /\ Whole(e)[1] = <<e, 1>>
    BY <2>1 DEF Whole
  <2> QED BY <2>2
<1> QED BY <1>2, <1>3

(* Four names and descriptors leave one of the five inodes free.            *)
LEMMA FreeInode ==
  ASSUME NEW S, NEW a, NEW b, NEW c, NEW d, S \subseteq {a, b, c, d, Nothing}
  PROVE  \E i \in Inodes \ S : \A j \in Inodes \ S : i <= j
<1> DEFINE P(i) == i \in Inodes \ S
<1>1. Inodes = {1, 2, 3, 4, 5}
  BY DEF Inodes
<1>2. P(1) \/ P(2) \/ P(3) \/ P(4) \/ P(5)
  BY <1>1, AtomicFileAssumption
<1> HIDE DEF P
<1>3. \E i \in {1, 2, 3, 4, 5} : P(i) /\ \A j \in {1, 2, 3, 4, 5} : P(j) => i <= j
  BY <1>2
<1> QED BY <1>1, <1>3 DEF P

LEMMA NewInodeIsFree ==
  ASSUME dir["tmp"] = Nothing
  PROVE  NewInode \in Inodes \ InUse
<1>1. InUse \subseteq {dir["path"], diskDir["path"], diskDir["tmp"], rfile, Nothing}
  BY DEF InUse, Names
<1>2. \E i \in Inodes \ InUse : \A j \in Inodes \ InUse : i <= j
  BY <1>1, FreeInode
<1> QED BY <1>2 DEF NewInode

LEMMA Held ==
  ASSUME NEW n \in Names
  PROVE  dir'[n] \in InUse' /\ diskDir'[n] \in InUse' /\ rfile' \in InUse'
BY DEF InUse

LEMMA FreeUnusedKeeps ==
  ASSUME TypeOK, NEW d \in [Inodes -> Seq(Cells)], FreeUnused(d)
  PROVE  /\ data' \in [Inodes -> Seq(Cells)] /\ disk' \in [Inodes -> Seq(Cells)]
         /\ \A i \in Inodes : i \in InUse' => data'[i] = d[i] /\ disk'[i] = disk[i]
<1>1. <<>> \in Seq(Cells)
  OBVIOUS
<1>2. /\ data' = [i \in Inodes |-> IF i \in InUse' THEN d[i] ELSE <<>>]
      /\ disk' = [i \in Inodes |-> IF i \in InUse' THEN disk[i] ELSE <<>>]
  BY DEF FreeUnused
<1>3. disk \in [Inodes -> Seq(Cells)]
  BY DEF TypeOK
<1> HIDE DEF InUse
<1> QED BY <1>1, <1>2, <1>3

LEMMA EndsSave ==
  ASSUME NEW o \in {"none", "OK", "IO_ERROR", "throws"}, SaverEnds(o)
  PROVE  SaveInv' /\ pc' = "idle" /\ written' \in Nat /\ outcome' \in {"none", "OK", "IO_ERROR", "throws"}
BY DEF SaverEnds, SaveInv

-----------------------------------------------------------------------------
(* One lemma for each step.                                                *)

LEMMA InitInv == Init => IInv
<1> SUFFICES ASSUME Init PROVE IInv
  OBVIOUS
<1>1. TypeOK
  <2>1. <<>> \in Seq(Cells)
    OBVIOUS
  <2> QED BY <2>1 DEF Init, TypeOK
<1>2. DirInv /\ PathInv /\ SaveInv /\ ReadInv
  BY DEF Init, DirInv, PathInv, SaveInv, ReadInv, ReadNeverMixes, Names
<1> QED BY <1>1, <1>2 DEF IInv

LEMMA OpenInv ==
  ASSUME IInv, NEW c \in Contents, Open(c)
  PROVE  IInv'
<1> DEFINE i == IF dir["tmp"] = Nothing THEN NewInode ELSE dir["tmp"]
<1>1. /\ TypeOK /\ DirInv /\ PathInv /\ ReadInv
      /\ data \in [Inodes -> Seq(Cells)] /\ disk \in [Inodes -> Seq(Cells)]
      /\ dir \in [Names -> Inodes \cup {Nothing}] /\ diskDir \in [Names -> Inodes \cup {Nothing}]
  BY DEF IInv, TypeOK
<1>2. i \in Inodes /\ i # Nothing /\ i \notin {dir["path"], diskDir["path"], rfile}
  <2>1. CASE dir["tmp"] = Nothing
    BY <2>1, NewInodeIsFree, AtomicFileAssumption DEF InUse, Names
  <2>2. CASE dir["tmp"] # Nothing
    BY <1>1, <2>2 DEF DirInv, Names
  <2> QED BY <2>1, <2>2
<1>3. /\ dir' = [dir EXCEPT !["tmp"] = i] /\ diskDir' = diskDir
      /\ data' = [data EXCEPT ![i] = <<>>]
      /\ disk' = [disk EXCEPT ![i] = IF dir["tmp"] = Nothing THEN <<>> ELSE @]
      /\ fd' = i /\ pc' = "write" /\ content' = c /\ written' = 0 /\ outcome' = "none"
      /\ rpc' = rpc /\ rsize' = rsize /\ rfile' = rfile /\ got' = got
  BY DEF Open, reader
<1> HIDE DEF i
<1>4. /\ dir'["path"] = dir["path"] /\ dir'["tmp"] = i
      /\ \A j \in Inodes \ {i} : data'[j] = data[j] /\ disk'[j] = disk[j]
      /\ data'[i] = <<>>
  BY <1>1, <1>2, <1>3 DEF Names
<1>5. TypeOK'
  <2>1. <<>> \in Seq(Cells) /\ disk[i] \in Seq(Cells)
    BY <1>1, <1>2
  <2>2. data' \in [Inodes -> Seq(Cells)] /\ disk' \in [Inodes -> Seq(Cells)]
    BY <1>1, <1>2, <1>3, <2>1
  <2>3. dir' \in [Names -> Inodes \cup {Nothing}]
    BY <1>1, <1>2, <1>3
  <2> QED BY <1>1, <1>2, <1>3, <1>4, <2>2, <2>3 DEF TypeOK
<1>6. DirInv'
  BY <1>1, <1>2, <1>3, <1>4 DEF DirInv
<1>7. PathInv'
  <2>1. dir["path"] \in Inodes \cup {Nothing} /\ diskDir["path"] \in Inodes \cup {Nothing}
    BY <1>1 DEF Names
  <2> QED BY <1>1, <1>2, <1>3, <1>4, <2>1 DEF PathInv
<1>8. SaveInv'
  <2>1. Upto(c, 0) = <<>> /\ 0 <= Size[c]
    BY WholeType DEF Upto
  <2> QED BY <1>3, <1>4, <2>1 DEF SaveInv
<1>9. ReadInv'
  BY <1>1, <1>2, <1>3, <1>4 DEF ReadInv, ReadNeverMixes
<1> QED BY <1>5, <1>6, <1>7, <1>8, <1>9 DEF IInv

LEMMA WriteInv ==
  ASSUME IInv, pc = "write", NEW n \in 1 .. Size[content], Write(n)
  PROVE  IInv'
<1>1. /\ TypeOK /\ DirInv /\ PathInv /\ ReadInv
      /\ data \in [Inodes -> Seq(Cells)]
      /\ dir \in [Names -> Inodes \cup {Nothing}] /\ diskDir \in [Names -> Inodes \cup {Nothing}]
  BY DEF IInv, TypeOK
<1>2. /\ fd = dir["tmp"] /\ fd \in Inodes /\ fd # Nothing /\ content \in Contents
      /\ Size[content] \in Nat /\ written \in Nat /\ n \in Nat /\ written + n <= Size[content]
      /\ data[fd] = Upto(content, written)
      /\ fd \notin {dir["path"], diskDir["path"], rfile}
  BY AtomicFileAssumption, WholeType DEF IInv, TypeOK, SaveInv, DirInv, Write
<1>3. /\ data' = [data EXCEPT ![fd] =
           [k \in 1 .. (IF Len(@) > written + n THEN Len(@) ELSE written + n) |->
              IF k \in written + 1 .. written + n THEN <<content, k>> ELSE @[k]]]
      /\ written' = written + n /\ disk' = disk /\ dir' = dir /\ diskDir' = diskDir
      /\ pc' = pc /\ fd' = fd /\ content' = content /\ outcome' = outcome
      /\ rpc' = rpc /\ rsize' = rsize /\ rfile' = rfile /\ got' = got
  BY DEF Write, reader
<1>4. data' = [data EXCEPT ![fd] = Upto(content, written + n)]
  <2>1. Len(data[fd]) = written /\ \A k \in 1 .. written : data[fd][k] = <<content, k>>
    BY <1>2, UptoType
  <2>2. (IF Len(data[fd]) > written + n THEN Len(data[fd]) ELSE written + n) = written + n
    BY <1>2, <2>1
  <2>3. \A k \in 1 .. written + n :
          (IF k \in written + 1 .. written + n THEN <<content, k>> ELSE data[fd][k]) = <<content, k>>
    BY <1>2, <2>1
  <2>4. [k \in 1 .. (IF Len(data[fd]) > written + n THEN Len(data[fd]) ELSE written + n) |->
              IF k \in written + 1 .. written + n THEN <<content, k>> ELSE data[fd][k]]
          = Upto(content, written + n)
    BY <2>2, <2>3 DEF Upto
  <2> QED BY <1>3, <2>4
<1>5. /\ Upto(content, written + n) \in Seq(Cells) /\ data'[fd] = Upto(content, written + n)
      /\ \A j \in Inodes \ {fd} : data'[j] = data[j]
  BY <1>1, <1>2, <1>4, UptoType
<1>6. TypeOK'
  <2>1. data' \in [Inodes -> Seq(Cells)]
    BY <1>1, <1>2, <1>4, <1>5
  <2> QED BY <1>1, <1>2, <1>3, <2>1 DEF TypeOK
<1>7. PathInv'
  <2>1. dir["path"] \in Inodes \cup {Nothing}
    BY <1>1 DEF Names
  <2> QED BY <1>1, <1>2, <1>3, <1>5, <2>1 DEF PathInv
<1>8. DirInv' /\ ReadInv'
  BY <1>1, <1>2, <1>3, <1>5 DEF DirInv, ReadInv, ReadNeverMixes
<1>9. SaveInv'
  BY <1>2, <1>3, <1>5 DEF SaveInv
<1> QED BY <1>6, <1>7, <1>8, <1>9 DEF IInv

(* The save ends, or the rename fails, and no file changes.                 *)
LEMMA SaverOnlyInv ==
  ASSUME IInv, OpenFails \/ WriteError \/ ProcessCrash \/ RenameError \/ UNCHANGED vars
  PROVE  IInv'
<1>1. UNCHANGED <<files, reader>>
  BY DEF OpenFails, WriteError, ProcessCrash, RenameError, vars
<1>2. SaveInv' /\ written' \in Nat /\ outcome' \in {"none", "OK", "IO_ERROR", "throws"}
      /\ pc' \in {"idle", "write", "rename", "remove"}
      /\ (pc' # "idle" => fd' = dir["tmp"] /\ fd' \in Inodes /\ content' \in Contents)
  <2>1. CASE OpenFails \/ WriteError \/ ProcessCrash
    BY <2>1, EndsSave DEF OpenFails, WriteError, ProcessCrash
  <2>2. CASE RenameError
    BY <2>2 DEF IInv, TypeOK, RenameError, SaveInv
  <2>3. CASE UNCHANGED vars
    BY <2>3 DEF IInv, TypeOK, vars, files, saver, SaveInv
  <2> QED BY <2>1, <2>2, <2>3
<1>3. TypeOK'
  BY <1>1, <1>2 DEF IInv, TypeOK, files, reader
<1>4. DirInv' /\ PathInv' /\ ReadInv'
  BY <1>1 DEF IInv, files, reader, DirInv, PathInv, ReadInv, ReadNeverMixes
<1> QED BY <1>2, <1>3, <1>4 DEF IInv

LEMMA FsyncInv ==
  ASSUME IInv, Fsync
  PROVE  IInv'
<1>1. /\ TypeOK /\ DirInv /\ PathInv /\ ReadInv
      /\ data \in [Inodes -> Seq(Cells)] /\ disk \in [Inodes -> Seq(Cells)]
      /\ dir \in [Names -> Inodes \cup {Nothing}] /\ diskDir \in [Names -> Inodes \cup {Nothing}]
  BY DEF IInv, TypeOK
<1>2. /\ fd = dir["tmp"] /\ fd \in Inodes /\ fd # Nothing /\ content \in Contents
      /\ fd \notin {dir["path"], diskDir["path"], rfile}
      /\ data[fd] = Upto(content, written) /\ written = Size[content]
  BY AtomicFileAssumption DEF IInv, TypeOK, SaveInv, DirInv, Fsync
<1>3. data[fd] = Whole(content)
  BY <1>2, WholeType
<1>4. /\ disk' = [disk EXCEPT ![fd] = data[fd]] /\ pc' = "rename"
      /\ data' = data /\ dir' = dir /\ diskDir' = diskDir
      /\ fd' = fd /\ content' = content /\ written' = written /\ outcome' = outcome
      /\ rpc' = rpc /\ rsize' = rsize /\ rfile' = rfile /\ got' = got
  BY DEF Fsync, reader
<1>5. disk'[fd] = data[fd] /\ \A j \in Inodes \ {fd} : disk'[j] = disk[j]
  BY <1>1, <1>2, <1>4
<1>6. TypeOK'
  <2>1. disk' \in [Inodes -> Seq(Cells)]
    BY <1>1, <1>2, <1>4
  <2> QED BY <1>1, <1>2, <1>4, <2>1 DEF TypeOK
<1>7. PathInv'
  <2>1. dir["path"] \in Inodes \cup {Nothing} /\ diskDir["path"] \in Inodes \cup {Nothing}
    BY <1>1 DEF Names
  <2> QED BY <1>1, <1>2, <1>4, <1>5, <2>1 DEF PathInv
<1>8. DirInv' /\ ReadInv' /\ SaveInv'
  BY <1>1, <1>3, <1>4, <1>5 DEF DirInv, ReadInv, ReadNeverMixes, SaveInv
<1> QED BY <1>6, <1>7, <1>8 DEF IInv

(* The inode of path.tmp, whole and synced, becomes path's.                 *)
LEMMA RenameInv ==
  ASSUME IInv, Rename
  PROVE  IInv'
<1>1. /\ TypeOK /\ DirInv /\ PathInv /\ ReadInv /\ data \in [Inodes -> Seq(Cells)]
      /\ dir \in [Names -> Inodes \cup {Nothing}] /\ diskDir \in [Names -> Inodes \cup {Nothing}]
      /\ rfile \in Inodes \cup {Nothing}
  BY DEF IInv, TypeOK
<1>2. /\ fd = dir["tmp"] /\ fd \in Inodes /\ content \in Contents
      /\ data[fd] = Whole(content) /\ disk[fd] = data[fd]
  BY DEF IInv, TypeOK, SaveInv, Rename
<1>3. /\ dir'["path"] = fd /\ dir'["tmp"] = Nothing /\ dir' \in [Names -> Inodes \cup {Nothing}]
      /\ diskDir' = diskDir /\ pc' = "idle"
      /\ rpc' = rpc /\ rsize' = rsize /\ rfile' = rfile /\ got' = got
  BY <1>1, <1>2 DEF Rename, SaverEnds, reader, Names
<1>4. SaveInv' /\ written' \in Nat /\ outcome' \in {"none", "OK", "IO_ERROR", "throws"}
  BY EndsSave DEF Rename
<1>5. /\ data' \in [Inodes -> Seq(Cells)] /\ disk' \in [Inodes -> Seq(Cells)]
      /\ \A i \in Inodes : i \in InUse' => data'[i] = data[i] /\ disk'[i] = disk[i]
  BY <1>1, FreeUnusedKeeps DEF Rename
<1>6. fd \in InUse' /\ diskDir["path"] \in InUse' /\ rfile \in InUse'
  BY <1>3, Held DEF Names
<1>7. TypeOK'
  BY <1>1, <1>3, <1>4, <1>5 DEF TypeOK
<1>8. DirInv'
  BY <1>1, <1>3 DEF DirInv
<1>9. PathInv'
  <2>1. diskDir["path"] \in Inodes \cup {Nothing}
    BY <1>1 DEF Names
  <2> QED BY <1>1, <1>2, <1>3, <1>5, <1>6, <2>1, WholeType DEF PathInv
<1>10. ReadInv'
  BY <1>1, <1>2, <1>3, <1>5, <1>6, AtomicFileAssumption DEF ReadInv, ReadNeverMixes
<1> QED BY <1>4, <1>7, <1>8, <1>9, <1>10 DEF IInv

LEMMA RemoveTmpInv ==
  ASSUME IInv, RemoveTmp
  PROVE  IInv'
<1>1. /\ TypeOK /\ DirInv /\ PathInv /\ ReadInv /\ data \in [Inodes -> Seq(Cells)]
      /\ dir \in [Names -> Inodes \cup {Nothing}] /\ diskDir \in [Names -> Inodes \cup {Nothing}]
      /\ rfile \in Inodes \cup {Nothing}
  BY DEF IInv, TypeOK
<1>2. /\ dir'["path"] = dir["path"] /\ dir'["tmp"] \in {Nothing, dir["tmp"]}
      /\ dir' \in [Names -> Inodes \cup {Nothing}]
      /\ diskDir' = diskDir /\ pc' = "idle"
      /\ rpc' = rpc /\ rsize' = rsize /\ rfile' = rfile /\ got' = got
  BY <1>1 DEF RemoveTmp, SaverEnds, reader, Names
<1>3. SaveInv' /\ written' \in Nat /\ outcome' \in {"none", "OK", "IO_ERROR", "throws"}
  BY EndsSave DEF RemoveTmp
<1>4. /\ data' \in [Inodes -> Seq(Cells)] /\ disk' \in [Inodes -> Seq(Cells)]
      /\ \A i \in Inodes : i \in InUse' => data'[i] = data[i] /\ disk'[i] = disk[i]
  BY <1>1, FreeUnusedKeeps DEF RemoveTmp
<1>5. dir["path"] \in InUse' /\ diskDir["path"] \in InUse' /\ rfile \in InUse'
  BY <1>2, Held DEF Names
<1>6. TypeOK'
  BY <1>1, <1>2, <1>3, <1>4 DEF TypeOK
<1>7. DirInv'
  BY <1>1, <1>2 DEF DirInv
<1>8. PathInv'
  <2>1. dir["path"] \in Inodes \cup {Nothing} /\ diskDir["path"] \in Inodes \cup {Nothing}
    BY <1>1 DEF Names
  <2> QED BY <1>1, <1>2, <1>4, <1>5, <2>1 DEF PathInv
<1>9. ReadInv'
  BY <1>1, <1>2, <1>4, <1>5 DEF ReadInv, ReadNeverMixes
<1> QED BY <1>3, <1>6, <1>7, <1>8, <1>9 DEF IInv

LEMMA ReadSizeOpenInv ==
  ASSUME IInv, ReadSize \/ ReadOpen
  PROVE  IInv'
<1>1. /\ TypeOK /\ DirInv /\ PathInv /\ ReadInv /\ data \in [Inodes -> Seq(Cells)]
      /\ dir["path"] \in Inodes \cup {Nothing}
  BY DEF IInv, TypeOK, Names
<1>2. UNCHANGED <<files, saver>>
  BY DEF ReadSize, ReadOpen
<1>3. rsize' \in Nat /\ rpc' \in {"open", "read"} /\ rfile' \in Inodes \cup {Nothing}
  <2>1. CASE ReadSize
    BY <1>1, <2>1 DEF ReadSize, TypeOK
  <2>2. CASE ReadOpen
    BY <1>1, <2>2 DEF ReadOpen, TypeOK
  <2> QED BY <2>1, <2>2
<1>4. TypeOK'
  BY <1>1, <1>2, <1>3 DEF TypeOK, files, saver
<1>5. DirInv' /\ PathInv' /\ SaveInv'
  <2>1. rfile' \in {Nothing, dir["path"]}
    BY <1>1 DEF ReadSize, ReadOpen, ReadInv
  <2> QED BY <1>1, <1>2, <2>1 DEF IInv, files, saver, DirInv, PathInv, SaveInv
<1>6. ReadInv'
  <2>1. CASE ReadSize
    BY <1>1, <1>2, <2>1 DEF ReadSize, ReadInv, ReadNeverMixes, files
  <2>2. CASE ReadOpen
    BY <1>1, <1>2, <2>2 DEF ReadOpen, ReadInv, ReadNeverMixes, files, PathInv
  <2> QED BY <2>1, <2>2
<1> QED BY <1>4, <1>5, <1>6 DEF IInv

LEMMA PrefixOfWhole ==
  ASSUME NEW c \in Contents, NEW n \in Nat, n <= Len(Whole(c))
  PROVE  IsPrefix(SubSeq(Whole(c), 1, n), Whole(c))
<1> DEFINE w == Whole(c)
           p == SubSeq(w, 1, n)
<1>1. w \in Seq(Cells) /\ n <= Len(w) /\ Len(w) \in Nat
  BY WholeType
<1> HIDE DEF w
<1>2. p \in Seq(Cells) /\ Len(p) = n /\ \A k \in 1 .. n : p[k] = w[k]
  BY <1>1
<1>3. SubSeq(p, 1, n) = p
  BY <1>1, <1>2
<1> HIDE DEF p
<1>4. Len(p) <= Len(w) /\ SubSeq(p, 1, Len(p)) = SubSeq(w, 1, Len(p))
  BY <1>1, <1>2, <1>3 DEF p
<1> QED BY <1>4 DEF IsPrefix, p, w

(* What was read is a prefix of the one content the opened inode holds.     *)
LEMMA ReadEndsInv ==
  ASSUME IInv, Read \/ ReadError
  PROVE  IInv'
<1>1. /\ TypeOK /\ DirInv /\ PathInv /\ SaveInv /\ ReadInv /\ data \in [Inodes -> Seq(Cells)]
      /\ dir["path"] \in Inodes \cup {Nothing} /\ diskDir["path"] \in Inodes \cup {Nothing}
  BY DEF IInv, TypeOK, Names
<1>2. /\ dir' = dir /\ diskDir' = diskDir /\ pc' = pc /\ fd' = fd /\ content' = content
      /\ written' = written /\ outcome' = outcome
      /\ rpc' = "idle" /\ rsize' = 0 /\ rfile' = Nothing
  BY DEF Read, ReadError, ReadEnds, saver
<1>3. /\ data' \in [Inodes -> Seq(Cells)] /\ disk' \in [Inodes -> Seq(Cells)]
      /\ \A i \in Inodes : i \in InUse' => data'[i] = data[i] /\ disk'[i] = disk[i]
  BY <1>1, FreeUnusedKeeps DEF Read, ReadError
<1>4. dir["path"] \in InUse' /\ diskDir["path"] \in InUse' /\ dir["tmp"] \in InUse'
  BY <1>2, Held DEF Names
<1>5. TypeOK'
  BY <1>1, <1>2, <1>3 DEF TypeOK
<1>6. DirInv'
  BY <1>1, <1>2 DEF DirInv
<1>7. PathInv'
  BY <1>1, <1>2, <1>3, <1>4 DEF PathInv
<1>8. SaveInv'
  BY <1>1, <1>2, <1>3, <1>4 DEF SaveInv, TypeOK
<1>9. ReadNeverMixes'
  <2>1. CASE Read
    <3>1. /\ rfile \in Inodes /\ data[rfile] \in Wholes /\ rsize \in Nat
          /\ rsize <= Len(data[rfile]) /\ got' = SubSeq(data[rfile], 1, rsize)
      BY <1>1, <2>1 DEF Read, ReadEnds, ReadInv, TypeOK
    <3>2. PICK c \in Contents : data[rfile] = Whole(c)
      BY <3>1 DEF Wholes
    <3>3. IsPrefix(got', Whole(c))
      BY <3>1, <3>2, PrefixOfWhole
    <3> QED BY <3>3 DEF ReadNeverMixes
  <2>2. CASE ReadError
    BY <2>2 DEF ReadError, ReadEnds, ReadNeverMixes
  <2> QED BY <2>1, <2>2
<1>10. ReadInv'
  BY <1>2, <1>9 DEF ReadInv
<1> QED BY <1>5, <1>6, <1>7, <1>8, <1>10 DEF IInv

(* The names are those on disk, with what is on disk under them.            *)
LEMMA PowerLossInv ==
  ASSUME IInv, PowerLoss
  PROVE  IInv'
<1>1. /\ TypeOK /\ DirInv /\ PathInv /\ disk \in [Inodes -> Seq(Cells)]
      /\ diskDir \in [Names -> Inodes \cup {Nothing}]
      /\ diskDir["path"] \in Inodes \cup {Nothing}
  BY DEF IInv, TypeOK, Names
<1>2. /\ dir' = diskDir /\ diskDir' = diskDir /\ pc' = "idle"
      /\ rpc' = "idle" /\ rsize' = 0 /\ rfile' = Nothing /\ got' = Nothing
  BY DEF PowerLoss, SaverEnds, ReadEnds
<1>3. SaveInv' /\ written' \in Nat /\ outcome' \in {"none", "OK", "IO_ERROR", "throws"}
  BY EndsSave DEF PowerLoss
<1>4. /\ data' \in [Inodes -> Seq(Cells)] /\ disk' \in [Inodes -> Seq(Cells)]
      /\ \A i \in Inodes : i \in InUse' => data'[i] = disk[i] /\ disk'[i] = disk[i]
  BY <1>1, FreeUnusedKeeps DEF PowerLoss
<1>5. diskDir["path"] \in InUse'
  BY <1>2, Held DEF Names
<1>6. TypeOK'
  BY <1>1, <1>2, <1>3, <1>4 DEF TypeOK
<1>7. DirInv'
  BY <1>1, <1>2 DEF DirInv
<1>8. PathInv'
  BY <1>1, <1>2, <1>4, <1>5 DEF PathInv
<1>9. ReadInv'
  BY <1>2 DEF ReadInv, ReadNeverMixes
<1> QED BY <1>3, <1>6, <1>7, <1>8, <1>9 DEF IInv

(* Only path.tmp, before its fsync, has anything to write back.             *)
LEMMA WritebackDataInv ==
  ASSUME IInv, NEW i \in Inodes, WritebackData(i)
  PROVE  IInv'
<1>1. /\ TypeOK /\ DirInv /\ PathInv /\ SaveInv /\ ReadInv
      /\ data \in [Inodes -> Seq(Cells)] /\ disk \in [Inodes -> Seq(Cells)]
      /\ dir["path"] \in Inodes \cup {Nothing} /\ diskDir["path"] \in Inodes \cup {Nothing}
  BY DEF IInv, TypeOK, Names
<1>2. PICK n \in 0 .. Len(data[i]) : disk[i] # data[i] /\ disk' = [disk EXCEPT ![i] = SubSeq(data[i], 1, n)]
  BY DEF WritebackData
<1>3. UNCHANGED <<data, dir, diskDir, saver, reader>>
  BY DEF WritebackData
<1>4. i = dir["tmp"] /\ i # Nothing /\ i # dir["path"] /\ i # diskDir["path"]
  BY <1>1, <1>2 DEF WritebackData, PathInv, DirInv, Names
<1>5. disk' \in [Inodes -> Seq(Cells)]
  <2>1. data[i] \in Seq(Cells) /\ n \in Nat /\ n <= Len(data[i])
    BY <1>1
  <2>2. SubSeq(data[i], 1, n) \in Seq(Cells)
    BY <2>1
  <2> QED BY <1>1, <1>2, <2>2
<1>6. \A j \in Inodes \ {i} : disk'[j] = disk[j]
  BY <1>1, <1>2
<1>7. TypeOK'
  BY <1>1, <1>3, <1>5 DEF TypeOK, saver, reader
<1>8. DirInv' /\ ReadInv'
  BY <1>1, <1>3 DEF DirInv, ReadInv, ReadNeverMixes, reader
<1>9. PathInv'
  BY <1>1, <1>3, <1>4, <1>6 DEF PathInv
<1>10. SaveInv'
  <2>1. pc # "rename"
    BY <1>1, <1>2, <1>4 DEF SaveInv, TypeOK
  <2> QED BY <1>1, <1>3, <2>1 DEF SaveInv, saver
<1> QED BY <1>7, <1>8, <1>9, <1>10 DEF IInv

LEMMA WritebackDirInv ==
  ASSUME IInv, WritebackDir
  PROVE  IInv'
<1>1. /\ TypeOK /\ DirInv /\ PathInv /\ SaveInv /\ ReadInv /\ data \in [Inodes -> Seq(Cells)]
      /\ dir["path"] \in Inodes \cup {Nothing}
  BY DEF IInv, TypeOK, Names
<1>2. /\ dir' = dir /\ diskDir' = dir /\ pc' = pc /\ fd' = fd /\ content' = content
      /\ written' = written /\ outcome' = outcome
      /\ rpc' = rpc /\ rsize' = rsize /\ rfile' = rfile /\ got' = got
  BY DEF WritebackDir, saver, reader
<1>3. /\ data' \in [Inodes -> Seq(Cells)] /\ disk' \in [Inodes -> Seq(Cells)]
      /\ \A i \in Inodes : i \in InUse' => data'[i] = data[i] /\ disk'[i] = disk[i]
  BY <1>1, FreeUnusedKeeps DEF WritebackDir
<1>4. dir["path"] \in InUse' /\ dir["tmp"] \in InUse' /\ rfile \in InUse'
  BY <1>2, Held DEF Names
<1>5. TypeOK'
  BY <1>1, <1>2, <1>3 DEF TypeOK
<1>6. DirInv'
  BY <1>1, <1>2 DEF DirInv
<1>7. PathInv'
  BY <1>1, <1>2, <1>3, <1>4 DEF PathInv
<1>8. SaveInv'
  BY <1>1, <1>2, <1>3, <1>4 DEF SaveInv, TypeOK
<1>9. ReadInv'
  BY <1>1, <1>2, <1>3, <1>4 DEF ReadInv, ReadNeverMixes
<1> QED BY <1>5, <1>6, <1>7, <1>8, <1>9 DEF IInv

LEMMA NextInv == IInv /\ [Next]_vars => IInv'
BY OpenInv, WriteInv, SaverOnlyInv, FsyncInv, RenameInv, RemoveTmpInv, ReadSizeOpenInv,
   ReadEndsInv, PowerLossInv, WritebackDataInv, WritebackDirInv DEF Next

-----------------------------------------------------------------------------
(* The invariant holds wherever a call fails and wherever the process or    *)
(* the machine stops.                                                       *)
THEOREM Invariant == Spec => []IInv
BY InitInv, NextInv, PTL DEF Spec

(* The inodes, the names and the two calls keep their types.                *)
THEOREM TypeCorrect == Spec => []TypeOK
<1>1. IInv => TypeOK
  BY DEF IInv
<1> QED BY <1>1, Invariant, PTL

(* The path never names part of a content, or a mix, before or after a      *)
(* power loss.                                                              *)
THEOREM PathStaysWhole == Spec => []PathIsWhole
<1>1. IInv => PathIsWhole
  BY DEF IInv, PathInv, PathIsWhole
<1> QED BY <1>1, Invariant, PTL

(* readFile never returns cells of two contents with OK.                    *)
THEOREM ReadsDoNotMix == Spec => []ReadNeverMixes
<1>1. IInv => ReadNeverMixes
  BY DEF IInv, ReadInv
<1> QED BY <1>1, Invariant, PTL

-----------------------------------------------------------------------------
(* The path is an AtomicRegister.                                          *)

LEMMA SameContent ==
  ASSUME NEW d, NEW e, NEW i, i # Nothing => d[i] = e[i]
  PROVE  ContentAt(d, i) = ContentAt(e, i)
BY DEF ContentAt

LEMMA ContentOfWhole ==
  ASSUME NEW d, NEW i \in Inodes, NEW c \in Contents, d[i] = Whole(c)
  PROVE  ContentAt(d, i) = c
<1>1. d[i] \in Wholes /\ i # Nothing
  BY WholeType, AtomicFileAssumption
<1>2. (CHOOSE e \in Contents : Whole(e) = d[i]) = c
  BY WholeInjective
<1> QED BY <1>1, <1>2 DEF ContentAt, ContentOf

Value == ContentAt(data, dir["path"])
Stable == ContentAt(disk, diskDir["path"])

(* A step that leaves both names, and the inodes of both, leaves both.      *)
LEMMA BothKept ==
  ASSUME dir'["path"] = dir["path"], diskDir' = diskDir,
         dir["path"] # Nothing => data'[dir["path"]] = data[dir["path"]],
         diskDir["path"] # Nothing => disk'[diskDir["path"]] = disk[diskDir["path"]]
  PROVE  Value' = Value /\ Stable' = Stable
BY SameContent DEF Value, Stable

(* Nothing changes but path.tmp, in inode i.                                *)
OnlyAt(i) ==
  /\ i # dir["path"] /\ i # diskDir["path"]
  /\ \A j \in Inodes \ {i} : data'[j] = data[j] /\ disk'[j] = disk[j]
  /\ dir'["path"] = dir["path"] /\ diskDir' = diskDir

(* Opening, writing and syncing path.tmp.                                   *)
LEMMA TmpStep ==
  ASSUME IInv,
         \/ (\E c \in Contents : Open(c)) \/ (pc = "write" /\ \E n \in 1 .. Size[content] : Write(n))
         \/ Fsync \/ (\E i \in Inodes : WritebackData(i))
  PROVE  Value' = Value /\ Stable' = Stable
<1>1. /\ TypeOK /\ DirInv /\ PathInv /\ SaveInv
      /\ data \in [Inodes -> Seq(Cells)] /\ disk \in [Inodes -> Seq(Cells)]
      /\ dir \in [Names -> Inodes \cup {Nothing}]
      /\ dir["path"] \in Inodes \cup {Nothing} /\ diskDir["path"] \in Inodes \cup {Nothing}
  BY DEF IInv, TypeOK, Names
<1>2. PICK i \in Inodes : OnlyAt(i)
  <2>1. ASSUME NEW c \in Contents, Open(c)
        PROVE  \E i \in Inodes : OnlyAt(i)
    <3> DEFINE i == IF dir["tmp"] = Nothing THEN NewInode ELSE dir["tmp"]
    <3>1. i \in Inodes /\ i # Nothing /\ i \notin {dir["path"], diskDir["path"], rfile}
      <4>1. CASE dir["tmp"] = Nothing
        BY <4>1, NewInodeIsFree, AtomicFileAssumption DEF InUse, Names
      <4>2. CASE dir["tmp"] # Nothing
        BY <1>1, <4>2 DEF DirInv, Names
      <4> QED BY <4>1, <4>2
    <3>2. /\ dir' = [dir EXCEPT !["tmp"] = i] /\ diskDir' = diskDir
          /\ data' = [data EXCEPT ![i] = <<>>]
          /\ disk' = [disk EXCEPT ![i] = IF dir["tmp"] = Nothing THEN <<>> ELSE @]
      BY <2>1 DEF Open
    <3> HIDE DEF i
    <3>3. \A j \in Inodes \ {i} : data'[j] = data[j] /\ disk'[j] = disk[j]
      BY <1>1, <3>1, <3>2
    <3> QED BY <1>1, <3>1, <3>2, <3>3 DEF Names, OnlyAt
  <2>2. ASSUME pc = "write", NEW n \in 1 .. Size[content], Write(n)
        PROVE  fd \in Inodes /\ OnlyAt(fd)
    <3>1. fd = dir["tmp"] /\ fd \in Inodes /\ fd # Nothing
      BY <1>1, <2>2, AtomicFileAssumption DEF TypeOK
    <3> QED BY <1>1, <2>2, <3>1 DEF Write, DirInv, OnlyAt
  <2>3. ASSUME Fsync
        PROVE  fd \in Inodes /\ OnlyAt(fd)
    <3>1. fd = dir["tmp"] /\ fd \in Inodes /\ fd # Nothing
      BY <1>1, <2>3, AtomicFileAssumption DEF TypeOK, Fsync
    <3> QED BY <1>1, <2>3, <3>1 DEF Fsync, DirInv, OnlyAt
  <2>4. ASSUME NEW i \in Inodes, WritebackData(i)
        PROVE  OnlyAt(i)
    <3>1. i \in {dir["path"], dir["tmp"]} /\ i # Nothing /\ disk[i] # data[i]
      BY <2>4 DEF WritebackData, Names
    <3>2. i # dir["path"] /\ i # diskDir["path"]
      BY <1>1, <3>1 DEF PathInv, DirInv
    <3> QED BY <1>1, <2>4, <3>2 DEF WritebackData, OnlyAt
  <2> QED BY <2>1, <2>2, <2>3, <2>4
<1> QED BY <1>1, <1>2, BothKept DEF OnlyAt

(* Steps that free what nobody holds any more, under the same names.        *)
LEMMA FreeStep ==
  ASSUME IInv, RemoveTmp \/ Read \/ ReadError
  PROVE  Value' = Value /\ Stable' = Stable
<1>1. /\ TypeOK /\ data \in [Inodes -> Seq(Cells)]
      /\ dir \in [Names -> Inodes \cup {Nothing}]
      /\ dir["path"] \in Inodes \cup {Nothing} /\ diskDir["path"] \in Inodes \cup {Nothing}
  BY DEF IInv, TypeOK, Names
<1>2. dir'["path"] = dir["path"] /\ diskDir' = diskDir
  BY <1>1 DEF RemoveTmp, Read, ReadError, Names
<1>3. \A i \in Inodes : i \in InUse' => data'[i] = data[i] /\ disk'[i] = disk[i]
  BY <1>1, FreeUnusedKeeps DEF RemoveTmp, Read, ReadError
<1>4. dir["path"] \in InUse' /\ diskDir["path"] \in InUse'
  BY <1>2, Held DEF Names
<1> QED BY <1>1, <1>2, <1>3, <1>4, BothKept

LEMMA RenameStep ==
  ASSUME IInv, Rename
  PROVE  Value' = content /\ Stable' = Stable /\ content # Nothing
<1>1. /\ TypeOK /\ data \in [Inodes -> Seq(Cells)] /\ fd = dir["tmp"] /\ fd \in Inodes
      /\ content \in Contents /\ data[fd] = Whole(content)
      /\ diskDir["path"] \in Inodes \cup {Nothing}
  BY DEF IInv, TypeOK, SaveInv, Rename, Names
<1>2. dir'["path"] = fd /\ diskDir' = diskDir
  BY <1>1 DEF Rename, Names
<1>3. \A i \in Inodes : i \in InUse' => data'[i] = data[i] /\ disk'[i] = disk[i]
  BY <1>1, FreeUnusedKeeps DEF Rename
<1>4. fd \in InUse' /\ diskDir["path"] \in InUse'
  BY <1>2, Held DEF Names
<1>5. Value' = content
  BY <1>1, <1>2, <1>3, <1>4, ContentOfWhole DEF Value
<1>6. Stable' = Stable
  BY <1>1, <1>2, <1>3, <1>4, SameContent DEF Stable
<1> QED BY <1>1, <1>5, <1>6, AtomicFileAssumption

LEMMA PowerLossStep ==
  ASSUME IInv, PowerLoss
  PROVE  Value' = Stable /\ Stable' = Stable
<1>1. TypeOK /\ disk \in [Inodes -> Seq(Cells)] /\ diskDir["path"] \in Inodes \cup {Nothing}
  BY DEF IInv, TypeOK, Names
<1>2. dir' = diskDir /\ diskDir' = diskDir
  BY DEF PowerLoss
<1>3. \A i \in Inodes : i \in InUse' => data'[i] = disk[i] /\ disk'[i] = disk[i]
  BY <1>1, FreeUnusedKeeps DEF PowerLoss
<1>4. diskDir["path"] \in InUse'
  BY <1>2, Held DEF Names
<1> QED BY <1>1, <1>2, <1>3, <1>4, SameContent DEF Value, Stable

LEMMA WritebackDirStep ==
  ASSUME IInv, WritebackDir
  PROVE  Value' = Value /\ Stable' = Value
<1>1. /\ TypeOK /\ PathInv /\ data \in [Inodes -> Seq(Cells)]
      /\ dir["path"] \in Inodes \cup {Nothing}
  BY DEF IInv, TypeOK, Names
<1>2. dir' = dir /\ diskDir' = dir
  BY DEF WritebackDir
<1>3. \A i \in Inodes : i \in InUse' => data'[i] = data[i] /\ disk'[i] = disk[i]
  BY <1>1, FreeUnusedKeeps DEF WritebackDir
<1>4. dir["path"] \in InUse'
  BY <1>2, Held DEF Names
<1>5. dir["path"] # Nothing =>
        data'[dir["path"]] = data[dir["path"]] /\ disk'[dir["path"]] = data[dir["path"]]
  BY <1>1, <1>3, <1>4 DEF PathInv
<1> QED BY <1>2, <1>5, SameContent DEF Value, Stable

LEMMA StepRefines ==
  ASSUME IInv, [Next]_vars
  PROVE  [Register!Next]_(Register!vars)
<1> USE DEF Value, Stable, Register!Next
<1>1. ASSUME NEW c \in Contents, Open(c) PROVE Register!Begin(c)
  BY <1>1, TmpStep DEF IInv, SaveInv, Open, Register!Begin
<1>2. ASSUME \/ (pc = "write" /\ \E n \in 1 .. Size[content] : Write(n))
             \/ Fsync \/ (\E i \in Inodes : WritebackData(i))
      PROVE  UNCHANGED Register!vars
  BY <1>2, TmpStep DEF Write, Fsync, WritebackData, saver, Register!vars
<1>3. CASE OpenFails \/ WriteError
  BY <1>3 DEF OpenFails, WriteError, SaverEnds, files, Register!Fail
<1>4. CASE ProcessCrash
  BY <1>4 DEF ProcessCrash, SaverEnds, files, Register!Fail
<1>5. CASE RenameError \/ ReadSize \/ ReadOpen \/ UNCHANGED vars
  BY <1>5 DEF RenameError, ReadSize, ReadOpen, vars, files, saver, Register!vars
<1>6. CASE Rename
  BY <1>6, RenameStep DEF Rename, SaverEnds, Register!Save
<1>7. CASE RemoveTmp
  BY <1>7, FreeStep DEF RemoveTmp, SaverEnds, Register!Fail
<1>8. CASE Read \/ ReadError
  BY <1>8, FreeStep DEF Read, ReadError, saver, Register!vars
<1>9. CASE PowerLoss
  BY <1>9, PowerLossStep DEF PowerLoss, SaverEnds, Register!PowerLoss
<1>10. CASE WritebackDir
  BY <1>10, WritebackDirStep DEF WritebackDir, saver, Register!Settle
<1> QED BY <1>1, <1>2, <1>3, <1>4, <1>5, <1>6, <1>7, <1>8, <1>9, <1>10 DEF Next

(* writeFileAtomic is atomic: OK exactly when path has become what was      *)
(* asked; a failure, a throw or a crash leaves it; a power loss goes back   *)
(* to a content that path had.                                              *)
THEOREM SavesAreAtomic == Spec => RegisterSpec
<1>1. Init => Register!Init
  BY DEF Init, Register!Init, ContentAt, Names
<1>2. IInv /\ [Next]_vars => [Register!Next]_(Register!vars)
  BY StepRefines
<1> QED BY <1>1, <1>2, Invariant, PTL DEF Spec, RegisterSpec, Register!Spec
=============================================================================
