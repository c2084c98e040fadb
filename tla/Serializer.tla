----------------------------- MODULE Serializer -----------------------------
(***************************************************************************)
(* MiniDB::Engine::Serializer: export of a table, or of every table of a   *)
(* database, as flat arrays of records, and import of such a file into     *)
(* tables in use.  A table is the RecordMap that module Table implements;  *)
(* an import is a loop of Table::insertRecord() calls, one action each.    *)
(*                                                                         *)
(* Of a record's data the model keeps its field named "id", which the      *)
(* format uses for itself, and one value that stands for the rest.         *)
(***************************************************************************)
EXTENDS Naturals, Sequences, FiniteSets

CONSTANTS Tables,      \* names of tables
          Ids,         \* the ids callers give their records
          Payloads,    \* the rest of a record's data, which the text of the
                       \* file brings back: no NaN
          Rejected,    \* the values the schema rejects
          OwnIds,      \* what a caller's own field "id" holds, NoId for none
          Foreign,     \* arrays another program wrote
          MaxHeld,     \* bound: callers insert while the tables hold fewer in all
          IntSpan, IdSpan,  \* 2^31 and 2^64
          NoId,        \* an entry without "id"
          Text,        \* an "id" that is no number
          Absent,      \* no such table
          NoFile, Garbage, NoJob

Entries == [id : 0 .. 2 * IntSpan - 1 \cup {NoId, Text}, value : Payloads]

ASSUME SerializerAssumption ==
  /\ IntSpan \in Nat \ {0} /\ IdSpan \in Nat /\ 2 * IntSpan <= IdSpan
  /\ Ids \subseteq 0 .. IdSpan - 1
  /\ Rejected \subseteq Payloads
  /\ OwnIds \subseteq 0 .. IntSpan - 1 \cup {NoId, Text}
  /\ NoId \notin 0 .. 2 * IntSpan - 1 /\ Text \notin 0 .. 2 * IntSpan - 1
  /\ Foreign \subseteq Seq(Entries) /\ \A a \in Foreign : Len(a) <= IdSpan
  /\ Absent \notin Tables /\ \A S \in SUBSET (0 .. IdSpan - 1) : Absent \notin [S -> Entries]

VARIABLES
  tables,  \* Tables -> its records, or Absent
  disk,    \* what the path holds
  job      \* the import under way, or the last one

transferVars == <<tables, disk, job>>

-----------------------------------------------------------------------------
(* The entries of an array.                                                *)

HasNumber(e) == e.id \notin {NoId, Text}

Extend(f, k, v) == [x \in DOMAIN f \cup {k} |-> IF x = k THEN v ELSE f[x]]

(* static_cast<int>: the low bits, and what they are read back as.          *)
ReadBack(low) == IF low < IntSpan THEN {low} ELSE {0, IdSpan - (2 * IntSpan - low)}

(* exportTableToJson(): in the order of the scan.                           *)
Scans(m) == {f \in [1 .. Cardinality(DOMAIN m) -> DOMAIN m] :
               DOMAIN m = {f[k] : k \in DOMAIN f}}
Arrays(m) == {[k \in DOMAIN f |-> [m[f[k]] EXCEPT !.id = f[k] % (2 * IntSpan)]] :
                f \in Scans(m)}

(* Mutant: the counter is one too low.                                      *)
IdsFromMinusOne(a, k) == IF HasNumber(a[k]) THEN ReadBack(a[k].id) ELSE {k - 2}

(* importTableFromJson(): the id of the k-th entry.                         *)
RecordIds(a, k) == IF HasNumber(a[k]) THEN ReadBack(a[k].id) ELSE {k - 1}

(* Mutant: the exported "id" stays in the data.                             *)
Unstripped(e) == e

CleanData(e) == IF HasNumber(e) THEN [e EXCEPT !.id = NoId] ELSE e

TransferInit == /\ tables = [t \in Tables |-> Absent] /\ disk = NoFile /\ job = NoJob

Importing == job # NoJob /\ job.status = "running"

-----------------------------------------------------------------------------
(* What the program does between exports and imports.  The path is written  *)
(* once, after the caller's inserts, and imported any number of times (a    *)
(* bound).                                                                 *)

CreateTable(t) == /\ ~Importing /\ tables[t] = Absent
                  /\ tables' = [tables EXCEPT ![t] = <<>>]
                  /\ job' = NoJob /\ UNCHANGED disk
DropTable(t) == /\ ~Importing /\ tables[t] # Absent
                /\ tables' = [tables EXCEPT ![t] = Absent]
                /\ job' = NoJob /\ UNCHANGED disk
Insert(t, id, d) == /\ ~Importing /\ disk = NoFile /\ tables[t] # Absent /\ id \notin DOMAIN tables[t]
                    /\ Cardinality({at \in Tables \X (0 .. IdSpan - 1) :
                          tables[at[1]] # Absent /\ at[2] \in DOMAIN tables[at[1]]}) < MaxHeld
                    /\ tables' = [tables EXCEPT ![t] = Extend(@, id, d)]
                    /\ job' = NoJob /\ UNCHANGED disk

-----------------------------------------------------------------------------
(* Exports.  A write that fails leaves the path as it was (AtomicFile).     *)

exportTableToFile(t) ==
  /\ ~Importing /\ disk = NoFile /\ tables[t] # Absent
  /\ \E a \in Arrays(tables[t]) :
       disk' = [kind |-> "array", arrays |-> [n \in {t} |-> a],
                of |-> [n \in {t} |-> tables[t]]]
  /\ job' = NoJob /\ UNCHANGED tables

Present == {t \in Tables : tables[t] # Absent}
exportDatabaseToJson ==
  /\ ~Importing /\ disk = NoFile
  /\ \E as \in [Present -> UNION {Arrays(tables[t]) : t \in Present}] :
       /\ \A t \in Present : as[t] \in Arrays(tables[t])
       /\ disk' = [kind |-> "object", arrays |-> as, of |-> [t \in Present |-> tables[t]]]
  /\ job' = NoJob /\ UNCHANGED tables

(* Another program writes an array, or something that is no JSON.           *)
ForeignFile(t) ==
  /\ ~Importing /\ disk = NoFile
  /\ \/ \E a \in Foreign : disk' = [kind |-> "array", arrays |-> [n \in {t} |-> a],
                                    of |-> [n \in {t} |-> Absent]]
     \/ disk' = Garbage
  /\ job' = NoJob /\ UNCHANGED tables

-----------------------------------------------------------------------------
(* Imports.  job.left are the tables of the file still to come, job.done    *)
(* how many entries of job.array are in the table, job.before what the      *)
(* table held at first.                                                     *)

Readable == disk \notin {NoFile, Garbage}

NewJob(left) == [status |-> "running", left |-> left, table |-> Absent,
                 array |-> <<>>, done |-> 0, before |-> <<>>, of |-> Absent]
Begin(left, t, n) ==
  job' = [status |-> "running", left |-> left, table |-> t, array |-> disk.arrays[n],
          done |-> 0, before |-> tables[t], of |-> disk.of[n]]
EndsWith(s) == job' = [job EXCEPT !.status = s] /\ UNCHANGED <<tables, disk>>
Fails(s) == job' = [NewJob({}) EXCEPT !.status = s] /\ UNCHANGED <<tables, disk>>

ImportUnreadable == ~Importing /\ disk = NoFile /\ Fails("IO_ERROR")

(* Json::parse throws and nothing here catches it.                          *)
ImportThrows == ~Importing /\ disk = Garbage /\ Fails("EXCEPTION")

ImportWrongKind == /\ ~Importing /\ Readable /\ disk.kind = "object"
                   /\ Fails("PARSE_ERROR")

importTableFromFile(t) ==
  /\ ~Importing /\ tables[t] # Absent
  /\ Readable /\ disk.kind = "array"
  /\ \E n \in DOMAIN disk.arrays : Begin({}, t, n)
  /\ UNCHANGED <<tables, disk>>

importDatabaseFromJson ==
  /\ ~Importing /\ Readable /\ disk.kind = "object"
  /\ job' = NewJob(DOMAIN disk.arrays)
  /\ UNCHANGED <<tables, disk>>

AtEnd == Importing /\ job.done = Len(job.array)

(* The next table of the object, in the order of its keys; a table that     *)
(* does not exist is skipped.                                               *)
NextTable(t) ==
  /\ AtEnd /\ t \in job.left
  /\ IF tables[t] = Absent
       THEN job' = [job EXCEPT !.left = @ \ {t}]
       ELSE Begin(job.left \ {t}, t, t)
  /\ UNCHANGED <<tables, disk>>

ImportDone == AtEnd /\ job.left = {} /\ EndsWith("OK")

Entry == job.array[job.done + 1]
EntryPending == Importing /\ job.done < Len(job.array)

EntryInvalid == EntryPending /\ Entry.value \in Rejected /\ EndsWith("INVALID")

(* Mutant: an entry whose id is taken is tried again.                       *)
EntryRetried ==
  /\ EntryPending /\ Entry.value \notin Rejected
  /\ \E id \in RecordIds(job.array, job.done + 1) : id \in DOMAIN tables[job.table]
  /\ UNCHANGED transferVars

EntryDuplicate ==
  /\ EntryPending /\ Entry.value \notin Rejected
  /\ \E id \in RecordIds(job.array, job.done + 1) : id \in DOMAIN tables[job.table]
  /\ EndsWith("DUPLICATE_KEY")

(* Mutant: an entry replaces the record of its id.                          *)
EntryOverwrites ==
  /\ EntryPending /\ Entry.value \notin Rejected
  /\ \E id \in RecordIds(job.array, job.done + 1) :
       tables' = [tables EXCEPT ![job.table] = Extend(@, id, CleanData(Entry))]
  /\ job' = [job EXCEPT !.done = @ + 1] /\ UNCHANGED disk

EntryInserted ==
  /\ EntryPending /\ Entry.value \notin Rejected
  /\ \E id \in RecordIds(job.array, job.done + 1) :
       /\ id \notin DOMAIN tables[job.table]
       /\ tables' = [tables EXCEPT ![job.table] = Extend(@, id, CleanData(Entry))]
  /\ job' = [job EXCEPT !.done = @ + 1] /\ UNCHANGED disk

-----------------------------------------------------------------------------
Import == \/ EntryInvalid \/ EntryDuplicate \/ EntryInserted
          \/ \E t \in Tables : NextTable(t)
          \/ ImportDone

TransferNext == \/ \E t \in Tables :
                     \/ CreateTable(t) \/ DropTable(t)
                     \/ \E id \in Ids, d \in [id : OwnIds, value : Payloads \ Rejected] :
                          Insert(t, id, d)
                     \/ exportTableToFile(t) \/ ForeignFile(t) \/ importTableFromFile(t)
                \/ exportDatabaseToJson \/ importDatabaseFromJson
                \/ ImportUnreadable \/ ImportThrows \/ ImportWrongKind
                \/ Import

TransferSpec == TransferInit /\ [][TransferNext]_transferVars
TransferFairSpec == TransferSpec /\ WF_transferVars(Import)

-----------------------------------------------------------------------------
IsTable(m) == /\ DOMAIN m \subseteq 0 .. IdSpan - 1
              /\ \A id \in DOMAIN m : m[id] \in Entries /\ m[id].value \notin Rejected

TransferTypeOK ==
  /\ DOMAIN tables = Tables
  /\ \A t \in Tables : tables[t] = Absent \/ IsTable(tables[t])
  /\ Readable => \A n \in DOMAIN disk.arrays : disk.arrays[n] \in Seq(Entries)
  /\ job # NoJob => job.done \in 0 .. Len(job.array)

(* An import that stopped, or that is under way, has added exactly the      *)
(* entries before the one it is at, each under an id the format gives it,   *)
(* to what the table held, of which it changed nothing.                     *)
ImportIsPrefix ==
  job # NoJob /\ job.table # Absent =>
    LET now == tables[job.table] IN
      /\ \A id \in DOMAIN job.before : id \in DOMAIN now /\ now[id] = job.before[id]
      /\ Cardinality(DOMAIN now) = Cardinality(DOMAIN job.before) + job.done
      /\ \A k \in 1 .. job.done : \E id \in RecordIds(job.array, k) :
           id \in DOMAIN now \ DOMAIN job.before /\ now[id] = CleanData(job.array[k])

(* What an export wrote is never rejected by an empty table, and comes back *)
(* as it was when the import says OK, if the ids fit an int and no record   *)
(* has a field of its own that the format takes for its "id".               *)
Plain(m) == m # Absent /\ \A id \in DOMAIN m : id < IntSpan /\ m[id].id = NoId
RoundTrip ==
  job # NoJob /\ job.table # Absent /\ Plain(job.of) /\ job.before = <<>> =>
    /\ job.status \in {"running", "OK"}
    /\ job.status = "OK" => tables[job.table] = job.of

(* The import loops end.                                                    *)
ImportEnds == Importing ~> ~Importing
=============================================================================
