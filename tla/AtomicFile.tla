------------------------------ MODULE AtomicFile ------------------------------
(***************************************************************************)
(* Common/FileIO.h, writeFileAtomic and readFile: a saver that writes      *)
(* path.tmp, syncs it and renames it over path, and a reader of path, each *)
(* between any two system calls of the other.                              *)
(*                                                                         *)
(* A file is an inode with a sequence of cells, the k-th cell of content c *)
(* being <<c, k>>.  data and dir are what system calls see, disk and       *)
(* diskDir what stable storage holds.  fsync makes an inode's data stable, *)
(* not the directory; a rename reaches the disk as a whole or not at all.  *)
(* Saves of one path follow one another: two at a time would share path.tmp.*)
(***************************************************************************)
EXTENDS Naturals, SequencesExt

CONSTANTS Contents,    \* what callers save
          Size,        \* cells a content takes
          Nothing      \* no file, no inode, no content

Inodes == 1 .. 5      \* path, both on disk, the reader's, and a new tmp

ASSUME AtomicFileAssumption ==
  /\ Size \in [Contents -> Nat]
  /\ \A c, d \in Contents : Size[c] = 0 /\ Size[d] = 0 => c = d   \* the empty content
  /\ Nothing \notin Contents \cup Inodes

VARIABLES
  data, disk,        \* inode -> cells
  dir, diskDir,      \* "path" and "tmp" -> inode or Nothing
  pc,                \* where writeFileAtomic is: "idle", "write", "rename", "remove"
  fd, content,       \* its descriptor's inode, and its argument
  written,           \* the cells of it that the loop has written
  outcome,           \* the Status of the last save, or "throws"
  rpc, rsize, rfile, \* where readFile is, its size, and the inode it opened
  got                \* what readFile returned with OK, Nothing before

saver == <<pc, fd, content, written, outcome>>
reader == <<rpc, rsize, rfile, got>>
files == <<data, disk, dir, diskDir>>
vars == <<files, saver, reader>>

Names == {"path", "tmp"}
Whole(c) == [k \in 1 .. Size[c] |-> <<c, k>>]
Wholes == {Whole(c) : c \in Contents}

InUse == {dir[n] : n \in Names} \cup {diskDir[n] : n \in Names} \cup {rfile}
NewInode == CHOOSE i \in Inodes \ InUse : \A j \in Inodes \ InUse : i <= j

(* What no name and no descriptor holds any more is freed: d becomes data.  *)
FreeUnused(d) ==
  LET kept(f) == [i \in Inodes |-> IF i \in InUse' THEN f[i] ELSE <<>>]
  IN data' = kept(d) /\ disk' = kept(disk)

Init == /\ data = [i \in Inodes |-> <<>>] /\ disk = data
        /\ dir = [n \in Names |-> Nothing] /\ diskDir = dir
        /\ pc = "idle" /\ fd = Nothing /\ content = Nothing /\ written = 0
        /\ outcome = "none"
        /\ rpc = "idle" /\ rsize = 0 /\ rfile = Nothing /\ got = Nothing

SaverEnds(o) == /\ pc' = "idle" /\ fd' = Nothing /\ content' = Nothing /\ written' = 0
                /\ outcome' = o

-----------------------------------------------------------------------------
(* writeFileAtomic(path, content).                                         *)

OpenFails == pc = "idle" /\ SaverEnds("IO_ERROR") /\ UNCHANGED <<files, reader>>

(* Mutant: open() without O_TRUNC.                                          *)
OpenKeepsOld(c) ==
  /\ pc = "idle"
  /\ LET i == IF dir["tmp"] = Nothing THEN NewInode ELSE dir["tmp"] IN
       /\ dir' = [dir EXCEPT !["tmp"] = i]
       /\ data' = [data EXCEPT ![i] = IF dir["tmp"] = Nothing THEN <<>> ELSE @]
       /\ disk' = [disk EXCEPT ![i] = IF dir["tmp"] = Nothing THEN <<>> ELSE @]
       /\ fd' = i
  /\ pc' = "write" /\ content' = c /\ written' = 0 /\ outcome' = "none"
  /\ UNCHANGED <<diskDir, reader>>

(* A path.tmp left behind by a failure or a crash is cut to nothing.        *)
Open(c) ==
  /\ pc = "idle"
  /\ LET i == IF dir["tmp"] = Nothing THEN NewInode ELSE dir["tmp"] IN
       /\ dir' = [dir EXCEPT !["tmp"] = i]
       /\ data' = [data EXCEPT ![i] = <<>>]
       /\ disk' = [disk EXCEPT ![i] = IF dir["tmp"] = Nothing THEN <<>> ELSE @]
       /\ fd' = i
  /\ pc' = "write" /\ content' = c /\ written' = 0 /\ outcome' = "none"
  /\ UNCHANGED <<diskDir, reader>>

(* ::write puts n of the cells that remain behind those written.            *)
Write(n) ==
  /\ pc = "write"
  /\ n \in 1 .. Size[content] - written
  /\ data' = [data EXCEPT ![fd] =
       [k \in 1 .. (IF Len(@) > written + n THEN Len(@) ELSE written + n) |->
          IF k \in written + 1 .. written + n THEN <<content, k>> ELSE @[k]]]
  /\ written' = written + n
  /\ UNCHANGED <<disk, dir, diskDir, pc, fd, content, outcome, reader>>

(* ::write fails, or fsync does: path.tmp stays as it is.                   *)
WriteError ==
  /\ pc = "write"
  /\ SaverEnds("IO_ERROR")
  /\ UNCHANGED <<files, reader>>

(* Mutant: no fsync before the rename.                                      *)
FsyncSkipped ==
  /\ pc = "write"
  /\ written = Size[content]
  /\ pc' = "rename"
  /\ UNCHANGED <<files, fd, content, written, outcome, reader>>

Fsync ==
  /\ pc = "write"
  /\ written = Size[content]
  /\ disk' = [disk EXCEPT ![fd] = data[fd]]
  /\ pc' = "rename"
  /\ UNCHANGED <<data, dir, diskDir, fd, content, written, outcome, reader>>

(* Mutant: the error code of the rename is not looked at.                   *)
RenameUnchecked ==
  /\ pc = "rename"
  /\ SaverEnds("OK")
  /\ UNCHANGED <<files, reader>>

Rename ==
  /\ pc = "rename"
  /\ dir' = [n \in Names |-> IF n = "path" THEN dir["tmp"] ELSE Nothing]
  /\ SaverEnds("OK")
  /\ UNCHANGED <<diskDir, reader>>
  /\ FreeUnused(data)

RenameError ==
  /\ pc = "rename"
  /\ pc' = "remove"
  /\ UNCHANGED <<files, fd, content, written, outcome, reader>>

(* Mutant: after the failed rename, path.tmp goes and the rename is retried.*)
RemoveThenRetry ==
  /\ pc = "remove"
  /\ dir' = [dir EXCEPT !["tmp"] = Nothing]
  /\ pc' = "rename"
  /\ UNCHANGED <<diskDir, fd, content, written, outcome, reader>>
  /\ FreeUnused(data)

(* std::filesystem::remove without an error_code: it throws when it fails.  *)
RemoveTmp ==
  /\ pc = "remove"
  /\ \/ dir' = [dir EXCEPT !["tmp"] = Nothing] /\ SaverEnds("IO_ERROR")
     \/ UNCHANGED dir /\ SaverEnds("throws")
  /\ UNCHANGED <<diskDir, reader>>
  /\ FreeUnused(data)

-----------------------------------------------------------------------------
(* readFile(path): file_size, then the open, then one read of that size.   *)

ReadSize ==
  /\ rpc = "idle" /\ dir["path"] # Nothing
  /\ rpc' = "open" /\ rsize' = Len(data[dir["path"]]) /\ got' = Nothing
  /\ UNCHANGED <<files, saver, rfile>>

ReadOpen ==
  /\ rpc = "open"
  /\ rpc' = "read" /\ rfile' = dir["path"]
  /\ UNCHANGED <<files, saver, rsize, got>>

ReadEnds(result) == rpc' = "idle" /\ rsize' = 0 /\ rfile' = Nothing /\ got' = result

Read ==
  /\ rpc = "read"
  /\ rsize <= Len(data[rfile])
  /\ ReadEnds(SubSeq(data[rfile], 1, rsize))
  /\ UNCHANGED <<dir, diskDir, saver>>
  /\ FreeUnused(data)

(* The size, the open or the read fails, or the file has become shorter.    *)
ReadError ==
  /\ rpc # "idle"
  /\ ReadEnds(Nothing)
  /\ UNCHANGED <<dir, diskDir, saver>>
  /\ FreeUnused(data)

-----------------------------------------------------------------------------
(* The saver's process ends; the reader is of another, or ends by ReadError. *)
ProcessCrash == pc # "idle" /\ SaverEnds("none") /\ UNCHANGED <<files, reader>>

PowerLoss == /\ dir' = diskDir
             /\ SaverEnds("none") /\ ReadEnds(Nothing)
             /\ UNCHANGED diskDir
             /\ FreeUnused(disk)

(* The kernel writes an inode back, up to some cell, or the directory.      *)
WritebackData(i) ==
  /\ i \in {dir[n] : n \in Names} \ {Nothing}
  /\ \E n \in 0 .. Len(data[i]) :
       /\ disk[i] # data[i]
       /\ disk' = [disk EXCEPT ![i] = SubSeq(data[i], 1, n)]
  /\ UNCHANGED <<data, dir, diskDir, saver, reader>>

WritebackDir == /\ diskDir' = dir
                /\ UNCHANGED <<dir, saver, reader>>
                /\ FreeUnused(data)

Next == \/ OpenFails \/ (\E c \in Contents : Open(c))
        \/ (pc = "write" /\ \E n \in 1 .. Size[content] : Write(n))
        \/ WriteError \/ Fsync \/ Rename \/ RenameError \/ RemoveTmp
        \/ ReadSize \/ ReadOpen \/ Read \/ ReadError
        \/ ProcessCrash \/ PowerLoss
        \/ (\E i \in Inodes : WritebackData(i)) \/ WritebackDir

Spec == Init /\ [][Next]_vars

-----------------------------------------------------------------------------
Cells == Contents \X Nat

TypeOK ==
  /\ data \in [Inodes -> Seq(Cells)] /\ disk \in [Inodes -> Seq(Cells)]
  /\ dir \in [Names -> Inodes \cup {Nothing}]
  /\ diskDir \in [Names -> Inodes \cup {Nothing}]
  /\ pc \in {"idle", "write", "rename", "remove"}
  /\ pc # "idle" => fd = dir["tmp"] /\ fd \in Inodes /\ content \in Contents
  /\ written \in Nat /\ outcome \in {"none", "OK", "IO_ERROR", "throws"}
  /\ rpc \in {"idle", "open", "read"} /\ rsize \in Nat
  /\ rfile \in Inodes \cup {Nothing}

(* Whatever is cut short, the path names the whole of one content, and so   *)
(* it does after a power loss.  A rename never publishes cells that are not *)
(* written, not synced, or left from an earlier path.tmp.                   *)
PathIsWhole ==
  /\ dir["path"] # Nothing => data[dir["path"]] \in Wholes
  /\ diskDir["path"] # Nothing => disk[diskDir["path"]] \in Wholes

(* A read that returns OK, while saves go on, has cells of one content from *)
(* its first on: never of two, and never one twice.  (It may be short: the  *)
(* size may be an older, smaller file's.)                                   *)
ReadNeverMixes ==
  got # Nothing => \E c \in Contents : IsPrefix(got, Whole(c))

ContentOf(cells) == IF cells \in Wholes THEN CHOOSE c \in Contents : Whole(c) = cells
                    ELSE cells
ContentAt(d, i) == IF i = Nothing THEN Nothing ELSE ContentOf(d[i])

(* The path is an AtomicRegister of contents: OK is returned exactly when   *)
(* the path has become what was asked, any other outcome, throw or crash    *)
(* leaves it, and stable storage only ever holds a content the path had.    *)
Register == INSTANCE AtomicRegister WITH
              asked <- content,
              value <- ContentAt(data, dir["path"]),
              stable <- ContentAt(disk, diskDir["path"])
RegisterSpec == Register!Spec
=============================================================================
