----------------------------- MODULE EngineProofs -----------------------------
(***************************************************************************)
(* Theorems about the two helpers of MiniDB::Engine.  Serializer, for any  *)
(* tables, ids, values and foreign files: an import adds a prefix of what  *)
(* it reads and changes nothing else, and what an export wrote comes back  *)
(* as it was.  Concurrency, for any number of tables and workers, any      *)
(* operations and Status values, and any bound on the calls: two tasks     *)
(* never share a table, and a call returns the verdict of the last table   *)
(* that failed.                                                            *)
(***************************************************************************)
EXTENDS Serializer, Concurrency, FiniteSetTheorems, SequenceTheorems, TLAPS

-----------------------------------------------------------------------------
(* The inductive invariant.                                                *)

(* Nothing but records that the schema accepts gets into a table.           *)
Tabular(m) == /\ m = [id \in DOMAIN m |-> m[id]]
              /\ IsTable(m)
              /\ \A id \in DOMAIN m : m[id].value \notin Rejected

TablesInv == /\ DOMAIN tables = Tables
             /\ \A t \in Tables : tables[t] = Absent \/ Tabular(tables[t])

(* The array a is one another program wrote, or an export of m.             *)
Exported(a, m) == /\ a \in Seq(Entries) /\ Len(a) <= IdSpan
                  /\ m # Absent => Tabular(m) /\ a \in Arrays(m)

FileInv == Readable => /\ DOMAIN disk.arrays \subseteq Tables
                       /\ \A n \in DOMAIN disk.arrays : Exported(disk.arrays[n], disk.of[n])

JobTyped(j) ==
  /\ j = [status |-> j.status, left |-> j.left, table |-> j.table, array |-> j.array,
          done |-> j.done, before |-> j.before, of |-> j.of]
  /\ Exported(j.array, j.of) /\ j.done \in 0 .. Len(j.array)
  /\ IF j.table = Absent THEN j.array = <<>>
     ELSE j.table \in Tables /\ tables[j.table] # Absent /\ Tabular(j.before)
  /\ j.status = "running" => Readable /\ j.left \subseteq DOMAIN disk.arrays

(* ImportIsPrefix of the table m at the k-th entry of a.                    *)
AddsPrefix(m, before, a, k) ==
  /\ \A id \in DOMAIN before : id \in DOMAIN m /\ m[id] = before[id]
  /\ Cardinality(DOMAIN m) = Cardinality(DOMAIN before) + k
  /\ \A i \in 1 .. k : \E id \in RecordIds(a, i) :
       id \in DOMAIN m \ DOMAIN before /\ m[id] = CleanData(a[i])

(* The table m holds the first k records of an export of n, and no more.    *)
RestoresPrefix(m, n, a, k) ==
  /\ DOMAIN m = {a[i].id : i \in 1 .. k}
  /\ \A i \in 1 .. k : m[a[i].id] = n[a[i].id]

JobOK(j) ==
  j # NoJob =>
    /\ JobTyped(j)
    /\ j.table # Absent =>
         /\ AddsPrefix(tables[j.table], j.before, j.array, j.done)
         /\ Plain(j.of) /\ j.before = <<>> =>
              /\ RestoresPrefix(tables[j.table], j.of, j.array, j.done)
              /\ j.status \in {"running", "OK"}
              /\ j.status = "OK" => j.done = Len(j.array)

IInv == TablesInv /\ FileInv /\ JobOK(job)

-----------------------------------------------------------------------------
(* Tables.                                                                 *)

LEMMA Interval ==
  ASSUME NEW n \in Nat
  PROVE  IsFiniteSet(1 .. n) /\ Cardinality(1 .. n) = n
<1>1. 1 \in Int /\ n \in Int
  OBVIOUS
<1>2. Cardinality(1 .. n) = IF 1 > n THEN 0 ELSE n - 1 + 1
  BY <1>1, FS_Interval
<1> QED BY <1>1, <1>2, FS_Interval

LEMMA TableIsFinite ==
  ASSUME NEW m, IsTable(m)
  PROVE  IsFiniteSet(DOMAIN m) /\ Cardinality(DOMAIN m) \in Nat
<1>1. 0 \in Int /\ IdSpan - 1 \in Int
  BY SerializerAssumption
<1>2. IsFiniteSet(0 .. IdSpan - 1)
  BY <1>1, FS_Interval
<1>3. IsFiniteSet(DOMAIN m)
  BY <1>2, FS_Subset DEF IsTable
<1> QED BY <1>3, FS_CardinalityType

LEMMA TableIsPresent ==
  ASSUME NEW m, Tabular(m)
  PROVE  m # Absent
<1>1. DOMAIN m \in SUBSET (0 .. IdSpan - 1) /\ m \in [DOMAIN m -> Entries]
  BY DEF Tabular, IsTable
<1> QED BY <1>1, SerializerAssumption

LEMMA EmptyIsTable ==
  Tabular(<<>>) /\ DOMAIN <<>> = {}
<1>1. DOMAIN <<>> = {}
  OBVIOUS
<1>2. <<>> = [id \in DOMAIN <<>> |-> <<>>[id]]
  BY <1>1
<1> QED BY <1>1, <1>2 DEF Tabular, IsTable

LEMMA ExtendIs ==
  ASSUME NEW m, NEW id, NEW d, id \notin DOMAIN m
  PROVE  /\ DOMAIN Extend(m, id, d) = DOMAIN m \cup {id}
         /\ Extend(m, id, d)[id] = d
         /\ \A x \in DOMAIN m : Extend(m, id, d)[x] = m[x]
BY DEF Extend

LEMMA ExtendIsTable ==
  ASSUME NEW m, Tabular(m), NEW id \in 0 .. IdSpan - 1, id \notin DOMAIN m,
         NEW d \in Entries, d.value \notin Rejected
  PROVE  /\ Tabular(Extend(m, id, d))
         /\ Cardinality(DOMAIN Extend(m, id, d)) = Cardinality(DOMAIN m) + 1
<1> DEFINE e == Extend(m, id, d)
<1>1. DOMAIN e = DOMAIN m \cup {id} /\ e[id] = d /\ \A x \in DOMAIN m : e[x] = m[x]
  BY DEF Extend
<1>2. e = [x \in DOMAIN e |-> e[x]]
  BY DEF Extend
<1>3. Cardinality(DOMAIN m \cup {id}) = Cardinality(DOMAIN m) + 1
  BY TableIsFinite, FS_AddElement DEF Tabular
<1> HIDE DEF e
<1>4. IsTable(e) /\ \A x \in DOMAIN e : e[x].value \notin Rejected
  BY <1>1 DEF Tabular, IsTable
<1> QED BY <1>1, <1>2, <1>3, <1>4 DEF Tabular, e

-----------------------------------------------------------------------------
(* Entries and arrays.                                                     *)

LEMMA CleanDataType ==
  ASSUME NEW e \in Entries
  PROVE  CleanData(e) \in Entries /\ CleanData(e).value = e.value
BY DEF CleanData, Entries

LEMMA RecordIdType ==
  ASSUME NEW a \in Seq(Entries), NEW k \in 1 .. Len(a), Len(a) <= IdSpan, NEW id \in RecordIds(a, k)
  PROVE  id \in 0 .. IdSpan - 1
<1>1. a[k] \in Entries /\ k \in Nat /\ Len(a) \in Nat
  OBVIOUS
<1>2. CASE HasNumber(a[k])
  <2>1. a[k].id \in 0 .. 2 * IntSpan - 1
    BY <1>1, <1>2 DEF HasNumber, Entries
  <2>2. id \in ReadBack(a[k].id)
    BY <1>2 DEF RecordIds
  <2> QED BY <2>1, <2>2, SerializerAssumption DEF ReadBack
<1>3. CASE ~HasNumber(a[k])
  BY <1>1, <1>3, SerializerAssumption DEF RecordIds
<1> QED BY <1>2, <1>3

(* What an export of m holds: m[f[k]] at the place k, under the id f[k].    *)
ArrayOf(a, m, f) ==
  /\ DOMAIN a = 1 .. Cardinality(DOMAIN m)
  /\ \A k \in DOMAIN a : a[k] = [m[f[k]] EXCEPT !.id = f[k] % (2 * IntSpan)]

LEMMA ScanOf ==
  ASSUME NEW m, Tabular(m), NEW a \in Arrays(m)
  PROVE  \E f : /\ f \in Scans(m) /\ ArrayOf(a, m, f)
                /\ \A k \in DOMAIN a : f[k] \in DOMAIN m
                /\ \A id \in DOMAIN m : \E k \in DOMAIN a : f[k] = id
<1>1. PICK f \in Scans(m) : a = [k \in DOMAIN f |-> [m[f[k]] EXCEPT !.id = f[k] % (2 * IntSpan)]]
  BY DEF Arrays
<1>2. /\ f \in [1 .. Cardinality(DOMAIN m) -> DOMAIN m]
      /\ DOMAIN m = {f[k] : k \in DOMAIN f}
  BY DEF Scans
<1>3. ArrayOf(a, m, f)
  BY <1>1, <1>2 DEF ArrayOf
<1>4. \A k \in DOMAIN a : f[k] \in DOMAIN m
  BY <1>2, <1>3 DEF ArrayOf
<1>5. \A id \in DOMAIN m : \E k \in DOMAIN a : f[k] = id
  BY <1>2, <1>3 DEF ArrayOf
<1> QED BY <1>3, <1>4, <1>5

LEMMA LowBits ==
  ASSUME NEW id \in 0 .. IdSpan - 1
  PROVE  /\ id % (2 * IntSpan) \in 0 .. 2 * IntSpan - 1
         /\ id < IntSpan => id % (2 * IntSpan) = id
<1> DEFINE d == 2 * IntSpan
<1>1. id \in Nat /\ d \in Nat \ {0} /\ (id < IntSpan => id < d)
  BY SerializerAssumption
<1> HIDE DEF d
<1>2. id % d \in 0 .. d - 1 /\ (id < d => id % d = id)
  BY <1>1
<1> QED BY <1>1, <1>2 DEF d

LEMMA ArrayIsExported ==
  ASSUME NEW m, Tabular(m), NEW a \in Arrays(m)
  PROVE  Exported(a, m)
<1> DEFINE n == Cardinality(DOMAIN m)
<1>1. PICK f : ArrayOf(a, m, f) /\ \A k \in DOMAIN a : f[k] \in DOMAIN m
  BY ScanOf
<1>2. n \in Nat /\ DOMAIN a = 1 .. n
  BY <1>1, TableIsFinite DEF ArrayOf, Tabular
<1>3. \A k \in 1 .. n : a[k] \in Entries
  <2> SUFFICES ASSUME NEW k \in 1 .. n PROVE a[k] \in Entries
    OBVIOUS
  <2>1. f[k] \in 0 .. IdSpan - 1 /\ m[f[k]] \in Entries
    BY <1>1, <1>2 DEF Tabular, IsTable
  <2>2. a[k] = [m[f[k]] EXCEPT !.id = f[k] % (2 * IntSpan)]
    BY <1>1, <1>2 DEF ArrayOf
  <2> QED BY <2>1, <2>2, LowBits DEF Entries
<1>4. a = [k \in 1 .. n |-> a[k]]
  <2>1. PICK g \in Scans(m) : a = [k \in DOMAIN g |-> [m[g[k]] EXCEPT !.id = g[k] % (2 * IntSpan)]]
    BY DEF Arrays
  <2> QED BY <1>2, <2>1
<1>5. n <= IdSpan
  <2>1. 0 \in Int /\ IdSpan - 1 \in Int /\ IdSpan \in Nat \ {0}
    BY SerializerAssumption
  <2>2. IsFiniteSet(0 .. IdSpan - 1) /\ Cardinality(0 .. IdSpan - 1) = IdSpan
    BY <2>1, FS_Interval
  <2> QED BY <2>2, FS_Subset DEF Tabular, IsTable
<1> HIDE DEF n
<1>6. a \in Seq(Entries) /\ Len(a) = n
  BY <1>2, <1>3, <1>4
<1> QED BY <1>5, <1>6 DEF Exported

(* An export that an empty table takes back: every id once, and with it the *)
(* record it was.                                                           *)
Restores(a, m) ==
  /\ DOMAIN m = {a[k].id : k \in DOMAIN a}
  /\ \A j, k \in DOMAIN a : a[j].id = a[k].id => j = k
  /\ \A k \in DOMAIN a : /\ RecordIds(a, k) = {a[k].id}
                         /\ CleanData(a[k]) = m[a[k].id]
                         /\ a[k].value \notin Rejected

LEMMA PlainRestores ==
  ASSUME NEW m, Tabular(m), Plain(m), NEW a \in Arrays(m)
  PROVE  Restores(a, m)
<1> DEFINE n == Cardinality(DOMAIN m)
<1>1. PICK f : /\ f \in Scans(m) /\ ArrayOf(a, m, f)
               /\ \A k \in DOMAIN a : f[k] \in DOMAIN m
               /\ \A id \in DOMAIN m : \E k \in DOMAIN a : f[k] = id
  BY ScanOf
<1>2. n \in Nat /\ DOMAIN a = 1 .. n
  BY <1>1, TableIsFinite DEF ArrayOf, Tabular
<1>3. ASSUME NEW k \in 1 .. n
      PROVE  /\ a[k].id = f[k]
             /\ RecordIds(a, k) = {a[k].id}
             /\ CleanData(a[k]) = m[a[k].id]
             /\ a[k].value \notin Rejected
  <2> DEFINE r == m[f[k]]
  <2>1. f[k] \in 0 .. IdSpan - 1 /\ r \in Entries /\ f[k] < IntSpan /\ r.id = NoId
        /\ r.value \notin Rejected
    BY <1>1, <1>2 DEF Tabular, IsTable, Plain
  <2>2. f[k] % (2 * IntSpan) = f[k] /\ f[k] \in 0 .. 2 * IntSpan - 1
    BY <2>1, LowBits
  <2>3. a[k] = [r EXCEPT !.id = f[k]]
    BY <1>1, <1>2, <2>2 DEF ArrayOf
  <2> HIDE DEF r
  <2>4. a[k].id = f[k] /\ a[k].value = r.value /\ HasNumber(a[k])
    BY <2>1, <2>2, <2>3, SerializerAssumption DEF Entries, HasNumber
  <2>5. RecordIds(a, k) = {f[k]}
    BY <2>1, <2>4 DEF RecordIds, ReadBack
  <2>6. CleanData(a[k]) = r
    BY <2>1, <2>3, <2>4 DEF CleanData, Entries
  <2> QED BY <2>1, <2>4, <2>5, <2>6 DEF r
<1>4. DOMAIN m = {a[k].id : k \in DOMAIN a}
  <2>1. \A k \in DOMAIN a : a[k].id \in DOMAIN m
    BY <1>1, <1>2, <1>3
  <2>2. \A id \in DOMAIN m : \E k \in DOMAIN a : a[k].id = id
    BY <1>1, <1>2, <1>3
  <2> QED BY <2>1, <2>2
<1>5. \A j, k \in DOMAIN a : a[j].id = a[k].id => j = k
  <2>1. f \in [1 .. n -> DOMAIN m] /\ DOMAIN m = {f[k] : k \in 1 .. n}
    BY <1>1 DEF Scans
  <2>2. f \in Surjection(1 .. n, DOMAIN m)
    BY <2>1 DEF Surjection
  <2>3. IsFiniteSet(1 .. n) /\ Cardinality(1 .. n) = n
    BY <1>2, Interval
  <2>4. f \in Injection(1 .. n, DOMAIN m)
    BY <2>2, <2>3, FS_Surjection
  <2>5. \A j, k \in 1 .. n : f[j] = f[k] => j = k
    BY <2>4 DEF Injection, IsInjective
  <2> QED BY <1>2, <1>3, <2>5
<1> QED BY <1>2, <1>3, <1>4, <1>5 DEF Restores

-----------------------------------------------------------------------------
(* What the program does between imports.                                  *)

LEMMA InitInv == TransferInit => IInv
BY DEF TransferInit, IInv, TablesInv, FileInv, JobOK, Readable

LEMMA NoJobInv ==
  ASSUME TablesInv', FileInv', job' = NoJob
  PROVE  IInv'
BY DEF IInv, JobOK

LEMMA SetTable ==
  ASSUME TablesInv, FileInv, NEW t \in Tables, NEW m, m = Absent \/ Tabular(m),
         tables' = [tables EXCEPT ![t] = m], disk' = disk
  PROVE  TablesInv' /\ FileInv'
BY DEF TablesInv, FileInv, Readable

LEMMA CallerTables ==
  ASSUME IInv, NEW t \in Tables,
         \/ CreateTable(t) \/ DropTable(t)
         \/ \E id \in Ids, d \in [id : OwnIds, value : Payloads \ Rejected] : Insert(t, id, d)
  PROVE  IInv'
<1>1. TablesInv /\ FileInv
  BY DEF IInv
<1>2. CASE CreateTable(t)
  BY <1>1, <1>2, EmptyIsTable, SetTable, NoJobInv DEF CreateTable
<1>3. CASE DropTable(t)
  BY <1>1, <1>3, SetTable, NoJobInv DEF DropTable
<1>4. ASSUME NEW id \in Ids, NEW d \in [id : OwnIds, value : Payloads \ Rejected], Insert(t, id, d)
      PROVE  IInv'
  <2>1. /\ tables[t] # Absent /\ id \notin DOMAIN tables[t] /\ disk' = disk /\ job' = NoJob
        /\ tables' = [tables EXCEPT ![t] = Extend(tables[t], id, d)]
    BY <1>4 DEF Insert
  <2>2. id \in 0 .. IdSpan - 1 /\ d \in Entries /\ d.value \notin Rejected
    <3>1. \A i \in OwnIds : i \in 0 .. 2 * IntSpan - 1 \cup {NoId, Text}
      BY SerializerAssumption
    <3>2. d.id \in OwnIds /\ d.value \in Payloads \ Rejected /\ d = [id |-> d.id, value |-> d.value]
      OBVIOUS
    <3> QED BY <3>1, <3>2, SerializerAssumption DEF Entries
  <2>3. Tabular(tables[t])
    BY <1>1, <2>1 DEF TablesInv
  <2>4. Tabular(Extend(tables[t], id, d))
    BY <2>1, <2>2, <2>3, ExtendIsTable
  <2> QED BY <1>1, <2>1, <2>4, SetTable, NoJobInv
<1> QED BY <1>2, <1>3, <1>4

(* An export writes what each table of the file held.                       *)
LEMMA Exports ==
  ASSUME IInv, NEW S \in SUBSET Tables, NEW k, NEW as, NEW of,
         \A t \in S : Exported(as[t], of[t]),
         disk' = [kind |-> k, arrays |-> [t \in S |-> as[t]], of |-> [t \in S |-> of[t]]],
         job' = NoJob, tables' = tables
  PROVE  IInv'
<1>1. TablesInv'
  BY DEF IInv, TablesInv
<1>2. FileInv'
  BY DEF FileInv
<1> QED BY <1>1, <1>2, NoJobInv

LEMMA FileWritten ==
  ASSUME IInv,
         \/ \E t \in Tables : exportTableToFile(t) \/ ForeignFile(t)
         \/ exportDatabaseToJson
  PROVE  IInv'
<1>1. \A t \in Tables : tables[t] # Absent => Tabular(tables[t])
  BY DEF IInv, TablesInv
<1>2. ASSUME NEW t \in Tables, exportTableToFile(t) PROVE IInv'
  <2>1. PICK a \in Arrays(tables[t]) :
          disk' = [kind |-> "array", arrays |-> [n \in {t} |-> a], of |-> [n \in {t} |-> tables[t]]]
    BY <1>2 DEF exportTableToFile
  <2> DEFINE as == [n \in {t} |-> a]
             of == [n \in {t} |-> tables[t]]
  <2>2. Exported(a, tables[t]) /\ job' = NoJob /\ tables' = tables
    BY <1>1, <1>2, <2>1, ArrayIsExported DEF exportTableToFile
  <2>3. \A n \in {t} : Exported(as[n], of[n])
    BY <2>2
  <2>4. as = [n \in {t} |-> as[n]] /\ of = [n \in {t} |-> of[n]]
    OBVIOUS
  <2>5. disk' = [kind |-> "array", arrays |-> as, of |-> of]
    BY <2>1
  <2> HIDE DEF as, of
  <2>6. disk' = [kind |-> "array", arrays |-> [n \in {t} |-> as[n]], of |-> [n \in {t} |-> of[n]]]
    BY <2>4, <2>5
  <2>7. {t} \in SUBSET Tables
    OBVIOUS
  <2> QED BY <2>2, <2>3, <2>6, <2>7, Exports
<1>3. ASSUME NEW t \in Tables, ForeignFile(t) PROVE IInv'
  <2>1. job' = NoJob /\ tables' = tables
    BY <1>3 DEF ForeignFile
  <2>2. CASE disk' = Garbage
    BY <2>1, <2>2, NoJobInv DEF IInv, TablesInv, FileInv, Readable
  <2>3. ASSUME NEW a \in Foreign,
               disk' = [kind |-> "array", arrays |-> [n \in {t} |-> a], of |-> [n \in {t} |-> Absent]]
        PROVE  IInv'
    <3> DEFINE as == [n \in {t} |-> a]
               of == [n \in {t} |-> Absent]
    <3>1. Exported(a, Absent)
      BY SerializerAssumption DEF Exported
    <3>2. \A n \in {t} : Exported(as[n], of[n])
      BY <3>1
    <3>3. as = [n \in {t} |-> as[n]] /\ of = [n \in {t} |-> of[n]]
      OBVIOUS
    <3>4. disk' = [kind |-> "array", arrays |-> as, of |-> of]
      BY <2>3
    <3> HIDE DEF as, of
    <3>5. disk' = [kind |-> "array", arrays |-> [n \in {t} |-> as[n]], of |-> [n \in {t} |-> of[n]]]
      BY <3>3, <3>4
    <3>6. {t} \in SUBSET Tables
      OBVIOUS
    <3> QED BY <2>1, <3>2, <3>5, <3>6, Exports
  <2> QED BY <1>3, <2>2, <2>3 DEF ForeignFile
<1>4. ASSUME exportDatabaseToJson PROVE IInv'
  <2>1. PICK as \in [Present -> UNION {Arrays(tables[t]) : t \in Present}] :
          /\ \A t \in Present : as[t] \in Arrays(tables[t])
          /\ disk' = [kind |-> "object", arrays |-> as, of |-> [t \in Present |-> tables[t]]]
    BY <1>4 DEF exportDatabaseToJson
  <2>2. Present \subseteq Tables /\ \A t \in Present : Exported(as[t], tables[t])
    BY <1>1, <2>1, ArrayIsExported DEF Present
  <2>3. as = [t \in Present |-> as[t]]
    BY <2>1
  <2>4. disk' = [kind |-> "object", arrays |-> [t \in Present |-> as[t]],
                 of |-> [t \in Present |-> tables[t]]]
    BY <2>1, <2>3
  <2>5. job' = NoJob /\ tables' = tables
    BY <1>4 DEF exportDatabaseToJson
  <2> QED BY <2>2, <2>4, <2>5, Exports
<1> QED BY <1>2, <1>3, <1>4

-----------------------------------------------------------------------------
(* Imports, as far as they change no table.                                *)

LEMMA SameTables ==
  ASSUME IInv, tables' = tables, disk' = disk, JobOK(job')
  PROVE  IInv'
BY DEF IInv, TablesInv, FileInv, JobOK, JobTyped, Readable

LEMMA NewJobOK ==
  ASSUME NEW s, NEW left, s = "running" => Readable /\ left \subseteq DOMAIN disk.arrays
  PROVE  JobOK([NewJob(left) EXCEPT !.status = s])
<1> DEFINE j == [NewJob(left) EXCEPT !.status = s]
<1>1. j = [status |-> s, left |-> left, table |-> Absent, array |-> <<>>, done |-> 0,
           before |-> <<>>, of |-> Absent]
  BY DEF NewJob
<1> HIDE DEF j
<1>2. /\ j.status = s /\ j.left = left /\ j.table = Absent /\ j.array = <<>> /\ j.done = 0
      /\ j.before = <<>> /\ j.of = Absent
  BY <1>1
<1>3. Exported(<<>>, Absent) /\ 0 \in 0 .. Len(<<>>)
  BY SerializerAssumption DEF Exported
<1>4. JobTyped(j)
  BY <1>1, <1>2, <1>3 DEF JobTyped
<1>5. JobOK(j)
  BY <1>2, <1>4 DEF JobOK
<1> QED BY <1>5 DEF j

LEMMA BeginOK ==
  ASSUME IInv, Readable, NEW n \in DOMAIN disk.arrays, NEW t \in Tables, tables[t] # Absent,
         NEW left \in SUBSET DOMAIN disk.arrays, Begin(left, t, n)
  PROVE  JobOK(job')
<1> DEFINE j == job'
           m == tables[t]
           a == disk.arrays[n]
<1>1. j = [status |-> "running", left |-> left, table |-> t, array |-> a,
           done |-> 0, before |-> m, of |-> disk.of[n]]
  BY DEF Begin
<1>2. Tabular(m) /\ Exported(a, disk.of[n]) /\ a \in Seq(Entries)
  BY DEF IInv, TablesInv, FileInv, Exported
<1> HIDE DEF j, m, a
<1>3. /\ j.status = "running" /\ j.left = left /\ j.table = t /\ j.array = a /\ j.done = 0
      /\ j.before = m /\ j.of = disk.of[n]
  BY <1>1
<1>4. tables[j.table] = m /\ t # Absent
  BY <1>3, SerializerAssumption DEF m
<1>5. JobTyped(j)
  <2>1. 0 \in 0 .. Len(a)
    BY <1>2
  <2> QED BY <1>1, <1>2, <1>3, <1>4, <2>1 DEF JobTyped
<1>6. AddsPrefix(m, m, a, 0)
  <2>1. Cardinality(DOMAIN m) = Cardinality(DOMAIN m) + 0
    BY <1>2, TableIsFinite DEF Tabular
  <2> QED BY <2>1 DEF AddsPrefix
<1>7. m = <<>> => RestoresPrefix(m, disk.of[n], a, 0)
  <2>1. {a[i].id : i \in 1 .. 0} = {}
    OBVIOUS
  <2> QED BY <2>1, EmptyIsTable DEF RestoresPrefix
<1>8. JobOK(j)
  BY <1>3, <1>4, <1>5, <1>6, <1>7 DEF JobOK
<1> QED BY <1>8 DEF j

(* An import that is under way is a job with a table, or at no array yet.   *)
LEMMA RunningFacts ==
  ASSUME IInv, Importing
  PROVE  /\ job # NoJob /\ JobTyped(job) /\ Readable
         /\ job.array \in Seq(Entries) /\ Len(job.array) \in Nat /\ Len(job.array) <= IdSpan
         /\ job.done \in 0 .. Len(job.array)
BY DEF IInv, JobOK, JobTyped, Importing, Exported

LEMMA EndsOK ==
  ASSUME IInv, Importing, NEW s, s # "running", job' = [job EXCEPT !.status = s],
         job.table # Absent /\ Plain(job.of) /\ job.before = <<>> =>
           s = "OK" /\ job.done = Len(job.array)
  PROVE  JobOK(job')
<1> DEFINE j == job'
<1>1. /\ job # NoJob /\ JobTyped(job)
  BY RunningFacts
<1>2. j = [status |-> s, left |-> job.left, table |-> job.table, array |-> job.array,
           done |-> job.done, before |-> job.before, of |-> job.of]
  BY <1>1 DEF JobTyped
<1> HIDE DEF j
<1>3. /\ j.status = s /\ j.left = job.left /\ j.table = job.table /\ j.array = job.array
      /\ j.done = job.done /\ j.before = job.before /\ j.of = job.of
  BY <1>2
<1>4. JobTyped(j)
  BY <1>1, <1>2, <1>3 DEF JobTyped
<1>5. j.table # Absent => AddsPrefix(tables[j.table], j.before, j.array, j.done)
  BY <1>1, <1>3 DEF IInv, JobOK
<1>6. j.table # Absent /\ Plain(j.of) /\ j.before = <<>> =>
        /\ RestoresPrefix(tables[j.table], j.of, j.array, j.done)
        /\ j.status = "OK" /\ j.done = Len(j.array)
  BY <1>1, <1>3 DEF IInv, JobOK
<1>7. JobOK(j)
  BY <1>4, <1>5, <1>6 DEF JobOK
<1> QED BY <1>7 DEF j

LEMMA SkipOK ==
  ASSUME IInv, Importing, NEW t, job' = [job EXCEPT !.left = @ \ {t}]
  PROVE  JobOK(job')
<1> DEFINE j == job'
<1>1. /\ job # NoJob /\ JobTyped(job)
  BY RunningFacts
<1>2. j = [status |-> job.status, left |-> job.left \ {t}, table |-> job.table,
           array |-> job.array, done |-> job.done, before |-> job.before, of |-> job.of]
  BY <1>1 DEF JobTyped
<1> HIDE DEF j
<1>3. /\ j.status = job.status /\ j.left = job.left \ {t} /\ j.table = job.table
      /\ j.array = job.array /\ j.done = job.done /\ j.before = job.before /\ j.of = job.of
  BY <1>2
<1>4. JobTyped(j)
  BY <1>1, <1>2, <1>3 DEF JobTyped
<1>5. JobOK(j)
  BY <1>1, <1>3, <1>4 DEF JobOK, IInv
<1> QED BY <1>5 DEF j

(* The entry an import is at, when the array is a plain export and the      *)
(* table was empty: it fits, and its id is free.                            *)
LEMMA PlainEntry ==
  ASSUME IInv, EntryPending, job.table # Absent, Plain(job.of), job.before = <<>>
  PROVE  /\ Entry.value \notin Rejected
         /\ RecordIds(job.array, job.done + 1) = {Entry.id}
         /\ CleanData(Entry) = job.of[Entry.id]
         /\ Entry.id \notin DOMAIN tables[job.table]
<1>1. Importing /\ job.done < Len(job.array)
  BY DEF EntryPending
<1>2. /\ job # NoJob /\ JobTyped(job)
      /\ job.array \in Seq(Entries) /\ Len(job.array) \in Nat /\ job.done \in 0 .. Len(job.array)
  BY <1>1, RunningFacts
<1>3. job.done + 1 \in DOMAIN job.array /\ \A i \in 1 .. job.done : i \in DOMAIN job.array /\ i # job.done + 1
  BY <1>1, <1>2
<1>4. Restores(job.array, job.of)
  BY <1>2, PlainRestores DEF JobTyped, Exported, Plain
<1>5. RestoresPrefix(tables[job.table], job.of, job.array, job.done)
  BY <1>2 DEF IInv, JobOK
<1>6. Entry.id \notin DOMAIN tables[job.table]
  <2> SUFFICES ASSUME Entry.id \in DOMAIN tables[job.table] PROVE FALSE
    OBVIOUS
  <2>1. PICK i \in 1 .. job.done : job.array[i].id = Entry.id
    BY <1>5 DEF RestoresPrefix
  <2> QED BY <1>3, <1>4, <2>1 DEF Restores, Entry
<1> QED BY <1>3, <1>4, <1>6 DEF Restores, Entry

LEMMA QuietImport ==
  ASSUME IInv,
         \/ EntryInvalid \/ EntryDuplicate \/ ImportDone
         \/ \E t \in Tables : NextTable(t) \/ importTableFromFile(t)
         \/ importDatabaseFromJson \/ ImportUnreadable \/ ImportThrows \/ ImportWrongKind
  PROVE  IInv'
<1>1. CASE EntryInvalid
  <2>1. Importing /\ EntryPending /\ job' = [job EXCEPT !.status = "INVALID"]
        /\ tables' = tables /\ disk' = disk /\ Entry.value \in Rejected
    BY <1>1 DEF EntryInvalid, EndsWith, EntryPending
  <2> QED BY <2>1, PlainEntry, EndsOK, SameTables
<1>2. CASE EntryDuplicate
  <2>1. Importing /\ EntryPending /\ job' = [job EXCEPT !.status = "DUPLICATE_KEY"]
        /\ tables' = tables /\ disk' = disk
        /\ \E id \in RecordIds(job.array, job.done + 1) : id \in DOMAIN tables[job.table]
    BY <1>2 DEF EntryDuplicate, EndsWith, EntryPending
  <2> QED BY <2>1, PlainEntry, EndsOK, SameTables
<1>3. CASE ImportDone
  <2>1. Importing /\ job' = [job EXCEPT !.status = "OK"] /\ tables' = tables /\ disk' = disk
        /\ job.done = Len(job.array)
    BY <1>3 DEF ImportDone, EndsWith, AtEnd
  <2> QED BY <2>1, EndsOK, SameTables
<1>4. ASSUME NEW t \in Tables, NextTable(t) PROVE IInv'
  <2>1. Importing /\ t \in job.left /\ tables' = tables /\ disk' = disk
    BY <1>4 DEF NextTable, AtEnd
  <2>2. CASE tables[t] = Absent
    <3>1. job' = [job EXCEPT !.left = @ \ {t}]
      BY <1>4, <2>2 DEF NextTable
    <3> QED BY <2>1, <3>1, SkipOK, SameTables
  <2>3. CASE tables[t] # Absent
    <3>1. Begin(job.left \ {t}, t, t)
      BY <1>4, <2>3 DEF NextTable
    <3>2. Readable /\ job.left \subseteq DOMAIN disk.arrays
      BY <2>1, RunningFacts DEF JobTyped, Importing
    <3>3. t \in DOMAIN disk.arrays /\ job.left \ {t} \in SUBSET DOMAIN disk.arrays
      BY <2>1, <3>2
    <3> QED BY <2>1, <2>3, <3>1, <3>2, <3>3, BeginOK, SameTables
  <2> QED BY <2>2, <2>3
<1>5. ASSUME NEW t \in Tables, importTableFromFile(t) PROVE IInv'
  <2>1. PICK n \in DOMAIN disk.arrays : Begin({}, t, n)
    BY <1>5 DEF importTableFromFile
  <2>2. Readable /\ tables[t] # Absent /\ tables' = tables /\ disk' = disk
        /\ {} \in SUBSET DOMAIN disk.arrays
    BY <1>5 DEF importTableFromFile
  <2> QED BY <2>1, <2>2, BeginOK, SameTables
<1>6. CASE importDatabaseFromJson
  <2>1. job' = NewJob(DOMAIN disk.arrays) /\ Readable /\ tables' = tables /\ disk' = disk
    BY <1>6 DEF importDatabaseFromJson
  <2>2. job' = [NewJob(DOMAIN disk.arrays) EXCEPT !.status = "running"]
    BY <2>1 DEF NewJob
  <2> QED BY <2>1, <2>2, NewJobOK, SameTables
<1>7. ASSUME NEW s, s # "running", Fails(s) PROVE IInv'
  <2>1. job' = [NewJob({}) EXCEPT !.status = s] /\ tables' = tables /\ disk' = disk
    BY <1>7 DEF Fails
  <2>2. JobOK(job')
    BY <1>7, <2>1, NewJobOK
  <2> QED BY <2>1, <2>2, SameTables
<1>8. CASE ImportUnreadable \/ ImportThrows \/ ImportWrongKind
  BY <1>7, <1>8 DEF ImportUnreadable, ImportThrows, ImportWrongKind
<1> QED BY <1>1, <1>2, <1>3, <1>4, <1>5, <1>6, <1>8

-----------------------------------------------------------------------------
(* The one step of an import that changes a table.                         *)

LEMMA PrefixGrows ==
  ASSUME NEW m, Tabular(m), NEW before, Tabular(before), NEW a \in Seq(Entries),
         NEW k \in Nat, k < Len(a), AddsPrefix(m, before, a, k),
         NEW id \in RecordIds(a, k + 1), id \in 0 .. IdSpan - 1, id \notin DOMAIN m,
         a[k + 1].value \notin Rejected
  PROVE  LET q == Extend(m, id, CleanData(a[k + 1])) IN
           Tabular(q) /\ AddsPrefix(q, before, a, k + 1)
<1> DEFINE q == Extend(m, id, CleanData(a[k + 1]))
<1>1. k + 1 \in 1 .. Len(a) /\ a[k + 1] \in Entries
  OBVIOUS
<1>2. CleanData(a[k + 1]) \in Entries /\ CleanData(a[k + 1]).value \notin Rejected
  BY <1>1, CleanDataType
<1>3. Tabular(q) /\ Cardinality(DOMAIN q) = Cardinality(DOMAIN m) + 1
  BY <1>2, ExtendIsTable
<1>4. /\ DOMAIN q = DOMAIN m \cup {id} /\ q[id] = CleanData(a[k + 1])
      /\ \A x \in DOMAIN m : q[x] = m[x]
  BY DEF Extend
<1> HIDE DEF q
<1>5. \A x \in DOMAIN before : x \in DOMAIN m /\ m[x] = before[x]
  BY DEF AddsPrefix
<1>6. \A x \in DOMAIN before : x \in DOMAIN q /\ q[x] = before[x]
  BY <1>4, <1>5
<1>7. Cardinality(DOMAIN q) = Cardinality(DOMAIN before) + (k + 1)
  <2>1. Cardinality(DOMAIN m) \in Nat /\ Cardinality(DOMAIN before) \in Nat
    BY TableIsFinite DEF Tabular
  <2>2. Cardinality(DOMAIN m) = Cardinality(DOMAIN before) + k
    BY DEF AddsPrefix
  <2> QED BY <1>3, <2>1, <2>2
<1>8. ASSUME NEW i \in 1 .. k + 1
      PROVE  \E x \in RecordIds(a, i) : x \in DOMAIN q \ DOMAIN before /\ q[x] = CleanData(a[i])
  <2>1. CASE i = k + 1
    BY <1>4, <1>5, <2>1
  <2>2. CASE i # k + 1
    <3>1. i \in 1 .. k
      BY <2>2
    <3>2. PICK x \in RecordIds(a, i) : x \in DOMAIN m \ DOMAIN before /\ m[x] = CleanData(a[i])
      BY <3>1 DEF AddsPrefix
    <3> QED BY <1>4, <3>2
  <2> QED BY <2>1, <2>2
<1>9. AddsPrefix(q, before, a, k + 1)
  BY <1>6, <1>7, <1>8 DEF AddsPrefix
<1> QED BY <1>3, <1>9 DEF q

LEMMA RestoredGrows ==
  ASSUME NEW m, NEW n, NEW a, NEW k \in Nat, RestoresPrefix(m, n, a, k),
         a[k + 1].id \notin DOMAIN m, CleanData(a[k + 1]) = n[a[k + 1].id]
  PROVE  RestoresPrefix(Extend(m, a[k + 1].id, CleanData(a[k + 1])), n, a, k + 1)
<1> DEFINE id == a[k + 1].id
           q == Extend(m, id, CleanData(a[k + 1]))
<1>1. /\ DOMAIN q = DOMAIN m \cup {id} /\ q[id] = n[id]
      /\ \A x \in DOMAIN m : q[x] = m[x]
  BY DEF Extend
<1>2. /\ DOMAIN m = {a[i].id : i \in 1 .. k} /\ \A i \in 1 .. k : m[a[i].id] = n[a[i].id]
  BY DEF RestoresPrefix
<1>3. \A i \in 1 .. k + 1 : i \in 1 .. k \/ i = k + 1
  OBVIOUS
<1>4. \A i \in 1 .. k : i \in 1 .. k + 1 /\ a[i].id \in DOMAIN m
  BY <1>2
<1>5. k + 1 \in 1 .. k + 1 /\ a[k + 1].id = id
  OBVIOUS
<1> HIDE DEF id, q
<1>6. \A i \in 1 .. k + 1 : a[i].id \in DOMAIN q /\ q[a[i].id] = n[a[i].id]
  BY <1>1, <1>2, <1>3, <1>4, <1>5
<1>7. \A x \in DOMAIN q : \E i \in 1 .. k + 1 : a[i].id = x
  BY <1>1, <1>2, <1>4, <1>5
<1>8. DOMAIN q = {a[i].id : i \in 1 .. k + 1}
  BY <1>6, <1>7
<1>9. RestoresPrefix(q, n, a, k + 1)
  BY <1>6, <1>8 DEF RestoresPrefix
<1> QED BY <1>9 DEF q, id

LEMMA InsertedInv ==
  ASSUME IInv, EntryInserted
  PROVE  IInv'
<1> DEFINE a == job.array
           k == job.done
           t == job.table
           m == tables[t]
           j == job'
<1>1. PICK id \in RecordIds(a, k + 1) :
        id \notin DOMAIN m /\ tables' = [tables EXCEPT ![t] = Extend(m, id, CleanData(Entry))]
  BY DEF EntryInserted
<1>2. /\ EntryPending /\ Importing /\ Entry.value \notin Rejected /\ k < Len(a)
      /\ job' = [job EXCEPT !.done = @ + 1] /\ disk' = disk
  BY DEF EntryInserted, EntryPending
<1>3. /\ job # NoJob /\ JobTyped(job) /\ a \in Seq(Entries) /\ Len(a) \in Nat /\ Len(a) <= IdSpan
      /\ k \in 0 .. Len(a)
  BY <1>2, RunningFacts
<1>4. /\ t # Absent /\ t \in Tables /\ m # Absent /\ Tabular(job.before)
      /\ AddsPrefix(m, job.before, a, k)
  <2>1. a # <<>>
    BY <1>2, <1>3
  <2>2. t # Absent
    BY <1>3, <2>1 DEF JobTyped
  <2> QED BY <1>3, <2>2 DEF JobTyped, IInv, JobOK
<1>5. Tabular(m) /\ DOMAIN tables = Tables
  BY <1>4 DEF IInv, TablesInv
<1> DEFINE q == Extend(m, id, CleanData(Entry))
<1>6. Entry = a[k + 1] /\ id \in 0 .. IdSpan - 1 /\ k \in Nat
  <2>1. k + 1 \in 1 .. Len(a)
    BY <1>2, <1>3
  <2> QED BY <1>1, <1>3, <2>1, RecordIdType DEF Entry
<1>7. j = [status |-> job.status, left |-> job.left, table |-> t, array |-> a,
           done |-> k + 1, before |-> job.before, of |-> job.of]
  BY <1>2, <1>3 DEF JobTyped
<1>8. Plain(job.of) /\ job.before = <<>> =>
        /\ RestoresPrefix(q, job.of, a, k + 1)
        /\ job.status \in {"running", "OK"} /\ job.status # "OK"
  <2> SUFFICES ASSUME Plain(job.of), job.before = <<>>
               PROVE  RestoresPrefix(q, job.of, a, k + 1) /\ job.status = "running"
    OBVIOUS
  <2>1. /\ RecordIds(a, k + 1) = {Entry.id} /\ CleanData(Entry) = job.of[Entry.id]
        /\ Entry.id \notin DOMAIN m
    BY <1>2, <1>4, PlainEntry
  <2>2. RestoresPrefix(m, job.of, a, k)
    BY <1>3, <1>4 DEF IInv, JobOK
  <2>3. id = a[k + 1].id
    BY <1>1, <1>6, <2>1
  <2> HIDE DEF a, k, m
  <2>4. RestoresPrefix(q, job.of, a, k + 1)
    BY <1>6, <2>1, <2>2, <2>3, RestoredGrows
  <2> QED BY <1>2, <2>4 DEF Importing
<1> HIDE DEF a, k, t, m, j
<1>9. Tabular(q) /\ AddsPrefix(q, job.before, a, k + 1)
  BY <1>1, <1>2, <1>3, <1>4, <1>5, <1>6, PrefixGrows
<1> HIDE DEF q
<1>10. tables'[t] = q /\ q # Absent
  BY <1>1, <1>4, <1>5, <1>9, TableIsPresent DEF q
<1>11. TablesInv' /\ FileInv'
  BY <1>1, <1>2, <1>4, <1>9, SetTable DEF IInv, q
<1>12. /\ j.status = job.status /\ j.left = job.left /\ j.table = t /\ j.array = a
       /\ j.done = k + 1 /\ j.before = job.before /\ j.of = job.of
  BY <1>7
<1>13. JobTyped(job)'
  <2>1. k + 1 \in 0 .. Len(a)
    BY <1>2, <1>3
  <2>2. Exported(a, job.of) /\ (job.status = "running" => Readable /\ job.left \subseteq DOMAIN disk.arrays)
    BY <1>3 DEF JobTyped, a
  <2> QED BY <1>2, <1>4, <1>7, <1>10, <1>12, <2>1, <2>2 DEF JobTyped, Readable, j
<1>14. JobOK(job)'
  BY <1>4, <1>8, <1>9, <1>10, <1>12, <1>13 DEF JobOK, j
<1> QED BY <1>11, <1>14 DEF IInv

-----------------------------------------------------------------------------
LEMMA StepInv ==
  ASSUME IInv, [TransferNext]_transferVars
  PROVE  IInv'
<1>1. CASE UNCHANGED transferVars
  <2>1. tables' = tables /\ disk' = disk /\ job' = job /\ JobOK(job')
    BY <1>1 DEF transferVars, IInv
  <2> QED BY <2>1, SameTables
<1>2. CASE Import
  BY <1>2, QuietImport, InsertedInv DEF Import
<1>3. ASSUME NEW t \in Tables,
             \/ CreateTable(t) \/ DropTable(t)
             \/ \E id \in Ids, d \in [id : OwnIds, value : Payloads \ Rejected] : Insert(t, id, d)
      PROVE  IInv'
  BY <1>3, CallerTables
<1>4. ASSUME NEW t \in Tables, exportTableToFile(t) \/ ForeignFile(t) \/ importTableFromFile(t)
      PROVE  IInv'
  BY <1>4, FileWritten, QuietImport
<1>5. CASE exportDatabaseToJson \/ importDatabaseFromJson
           \/ ImportUnreadable \/ ImportThrows \/ ImportWrongKind
  BY <1>5, FileWritten, QuietImport
<1> QED BY <1>1, <1>2, <1>3, <1>4, <1>5 DEF TransferNext

(* The inductive invariant holds in every reachable state.                  *)
THEOREM Invariant == TransferSpec => []IInv
<1>1. IInv /\ [TransferNext]_transferVars => IInv'
  BY StepInv
<1> QED BY InitInv, <1>1, PTL DEF TransferSpec

(* Tables hold data under ids of 64 bits and no record that their schema    *)
(* rejects, a readable file holds arrays of entries, and no import counts   *)
(* past the end of its array.                                               *)
THEOREM TypeCorrect == TransferSpec => []TransferTypeOK
<1>1. ASSUME IInv PROVE TransferTypeOK
  <2>1. \A t \in Tables : tables[t] = Absent \/ IsTable(tables[t])
    BY <1>1 DEF IInv, TablesInv, Tabular
  <2>2. Readable => \A n \in DOMAIN disk.arrays : disk.arrays[n] \in Seq(Entries)
    BY <1>1 DEF IInv, FileInv, Exported
  <2>3. job # NoJob => job.done \in 0 .. Len(job.array)
    BY <1>1 DEF IInv, JobOK, JobTyped
  <2> QED BY <1>1, <2>1, <2>2, <2>3 DEF TransferTypeOK, IInv, TablesInv
<1> QED BY <1>1, Invariant, PTL

(* An import that stopped anywhere has added exactly the entries before     *)
(* that place, each under an id of its own that was free, and has changed   *)
(* nothing that the table held.                                             *)
THEOREM ImportsAddPrefixes == TransferSpec => []ImportIsPrefix
<1>1. ASSUME IInv PROVE ImportIsPrefix
  BY <1>1 DEF IInv, JobOK, AddsPrefix, ImportIsPrefix
<1> QED BY <1>1, Invariant, PTL

(* An import of what a plain table was exported as, into an empty table, is *)
(* never refused, and when it is done the table is the one that was         *)
(* exported: any number of records, in whichever order the scan had them.   *)
THEOREM ExportsComeBack == TransferSpec => []RoundTrip
<1>1. ASSUME IInv PROVE RoundTrip
  <2> SUFFICES ASSUME job # NoJob, job.table # Absent, Plain(job.of), job.before = <<>>
               PROVE  /\ job.status \in {"running", "OK"}
                      /\ job.status = "OK" => tables[job.table] = job.of
    BY DEF RoundTrip
  <2> DEFINE m == tables[job.table]
             n == job.of
             a == job.array
  <2>1. /\ JobTyped(job) /\ RestoresPrefix(m, n, a, job.done)
        /\ job.status \in {"running", "OK"} /\ (job.status = "OK" => job.done = Len(a))
    BY <1>1 DEF IInv, JobOK
  <2>2. Tabular(n) /\ n # Absent /\ a \in Arrays(n) /\ a \in Seq(Entries)
    BY <2>1 DEF JobTyped, Exported, Plain
  <2>3. Tabular(m)
    BY <1>1, <2>1 DEF IInv, TablesInv, JobTyped
  <2> HIDE DEF m, n, a
  <2>4. Restores(a, n)
    BY <2>2, PlainRestores DEF n
  <2>5. ASSUME job.status = "OK" PROVE m = n
    <3>1. job.done = Len(a) /\ DOMAIN a = 1 .. Len(a)
      BY <2>1, <2>2, <2>5
    <3>2. DOMAIN m = DOMAIN n
      BY <2>1, <2>4, <3>1 DEF RestoresPrefix, Restores
    <3>3. \A i \in DOMAIN a : m[a[i].id] = n[a[i].id]
      BY <2>1, <3>1 DEF RestoresPrefix
    <3>4. \A id \in DOMAIN n : \E i \in DOMAIN a : a[i].id = id
      BY <2>4 DEF Restores
    <3>5. \A id \in DOMAIN n : m[id] = n[id]
      BY <3>3, <3>4
    <3>6. m = [id \in DOMAIN m |-> m[id]] /\ n = [id \in DOMAIN n |-> n[id]]
      BY <2>2, <2>3 DEF Tabular
    <3> QED BY <3>2, <3>5, <3>6
  <2> QED BY <2>1, <2>5 DEF m, n
<1> QED BY <1>1, Invariant, PTL

USE DEF Positions

-----------------------------------------------------------------------------
(* Concurrency.  The inductive invariant: the tasks of the call under way   *)
(* are those whose number is calls; tasks of an earlier one only exist once *)
(* a call ended with an exception.                                          *)

(* No two tasks of the call are for one table, wherever they are.           *)
Distinct ==
  /\ \A i, j \in DOMAIN queue :
       queue[i].call = calls /\ queue[j].call = calls /\ queue[i].table = queue[j].table => i = j
  /\ \A v, w \in Workers :
       /\ running[v] # Idle /\ running[w] # Idle
       /\ running[v].call = calls /\ running[w].call = calls /\ running[v].table = running[w].table
       => v = w
  /\ \A i \in DOMAIN queue, w \in Workers :
       running[w] # Idle /\ queue[i].call = calls /\ running[w].call = calls
         => queue[i].table # running[w].table

(* A task that has not ended holds back the future of its table.            *)
Waiting(k) == /\ k.call <= calls
              /\ k.call = calls => /\ futures[k.table] = Pending
                                   /\ pc = "enqueue" => k.table < pos
Unready == /\ \A i \in DOMAIN queue : Waiting(queue[i])
           /\ \A w \in Workers : running[w] # Idle => Waiting(running[w])

(* The futures of the tables the first loop has not reached.                *)
Untouched == pc = "enqueue" => \A t \in Positions : t >= pos => futures[t] = Pending

(* What the second loop knows of the tables it has passed.                  *)
Folded ==
  pc = "collect" =>
    /\ \A t \in Positions : t < pos => futures[t] \in Verdicts
    /\ \/ final = "OK" /\ \A t \in Positions : t < pos => futures[t] = "OK"
       \/ /\ final # "OK"
          /\ \E m \in Positions : /\ m < pos /\ futures[m] = final
                                  /\ \A t \in Positions : t < pos /\ futures[t] # "OK" => t <= m

(* Until a call throws there are no tasks of another, and none between calls. *)
OneCall ==
  ~threw => /\ \A i \in DOMAIN queue : queue[i].call = calls
            /\ \A w \in Workers : running[w] # Idle => running[w].call = calls
            /\ pc = "idle" => \A t \in Positions : futures[t] # Pending

PoolInv == PoolTypeOK /\ Distinct /\ Unready /\ Untouched /\ Folded /\ OneCall

-----------------------------------------------------------------------------
(* A task ends with a Status or an exception, and its future is ready then. *)
LEMMA EndingsType ==
  ASSUME NEW o \in Operations, NEW s \in Endings(o)
  PROVE  s \in Verdicts \cup {Throws} /\ s # Pending
  BY ConcurrencyAssumption DEF Endings

(* The components of a task are in their sets.                              *)
LEMMA TaskType ==
  ASSUME NEW k \in Task
  PROVE  k.call \in Nat /\ k.op \in Operations /\ k.table \in Positions
  BY DEF Task

(* What the queue is made of, and what a worker or the caller makes of it.  *)
LEMMA QueueType ==
  ASSUME PoolTypeOK
  PROVE  /\ Len(queue) \in Nat /\ DOMAIN queue = 1 .. Len(queue)
         /\ \A i \in DOMAIN queue : queue[i] \in Task
         /\ \A w \in Workers : running[w] # Idle => running[w] \in Task
         /\ calls \in Nat /\ pos \in Nat /\ NumTables \in Nat
  BY ConcurrencyAssumption DEF PoolTypeOK

(* What push leaves in the queue: the old tasks, and the new one last.      *)
LEMMA Appended ==
  ASSUME NEW q \in Seq(Task), NEW k \in Task
  PROVE  /\ Append(q, k) \in Seq(Task)
         /\ DOMAIN q = 1 .. Len(q) /\ Len(q) \in Nat
         /\ DOMAIN Append(q, k) = 1 .. Len(q) + 1
         /\ \A i \in 1 .. Len(q) + 1 : Append(q, k)[i] = IF i = Len(q) + 1 THEN k ELSE q[i]
  OBVIOUS

(* What a worker leaves in the queue: every task but the first, one place on. *)
LEMMA Taken ==
  ASSUME NEW q \in Seq(Task), q # <<>>
  PROVE  /\ Head(q) \in Task /\ Tail(q) \in Seq(Task)
         /\ DOMAIN q = 1 .. Len(q) /\ Len(q) \in Nat \ {0}
         /\ Head(q) = q[1]
         /\ DOMAIN Tail(q) = 1 .. Len(q) - 1
         /\ \A i \in 1 .. Len(q) - 1 : Tail(q)[i] = q[i + 1]
  OBVIOUS

(* The invariant holds when the pool is built.                              *)
LEMMA PoolInvStarts == PoolInit => PoolInv
  <1> SUFFICES ASSUME PoolInit PROVE PoolInv  OBVIOUS
  <1> USE ConcurrencyAssumption DEF PoolInit
  <1>1. PoolTypeOK
    <2>1. futures \in [Positions -> Verdicts \cup {Pending, Throws}]  OBVIOUS
    <2>2. running \in [Workers -> Task \cup {Idle}]  OBVIOUS
    <2>3. pos \in 1 .. NumTables + 1 /\ calls \in 0 .. MaxCalls  OBVIOUS
    <2>4. queue \in Seq(Task)  OBVIOUS
    <2> QED  BY <2>1, <2>2, <2>3, <2>4 DEF PoolTypeOK
  <1>2. Distinct /\ Unready /\ Untouched  BY DEF Distinct, Unready, Untouched
  <1>3. Folded /\ OneCall  BY DEF Folded, OneCall
  <1> QED  BY <1>1, <1>2, <1>3 DEF PoolInv

(* One lemma per action from here on: it keeps every part of PoolInv.       *)
LEMMA CallKeeps ==
  ASSUME PoolInv, NEW o \in Operations, Call(o)
  PROVE  PoolInv'
  <1> USE DEF PoolInv, Call
  <1>0. \A i \in DOMAIN queue : queue[i].call \in Nat /\ queue[i].call <= calls
    BY QueueType, TaskType DEF Unready, Waiting
  <1>00. \A w \in Workers : running[w] # Idle => running[w].call \in Nat /\ running[w].call <= calls
    BY QueueType, TaskType DEF Unready, Waiting
  <1>000. calls \in Nat /\ calls' = calls + 1  BY QueueType
  <1>1. PoolTypeOK'  BY ConcurrencyAssumption DEF PoolTypeOK
  <1>2. Distinct'  BY <1>0, <1>00, <1>000 DEF Distinct
  <1>3. Unready'  BY <1>0, <1>00, <1>000 DEF Unready, Waiting
  <1>4. Untouched'  BY DEF Untouched
  <1>5. Folded'  BY DEF Folded
  <1>6. OneCall'
    <2> SUFFICES ASSUME ~threw PROVE queue = <<>> /\ \A w \in Workers : running[w] = Idle
      BY DEF OneCall
    <2>1. \A t \in Positions : futures[t] # Pending  BY DEF OneCall
    <2>2. \A w \in Workers : running[w] = Idle
      BY <2>1, QueueType, TaskType DEF OneCall, Unready, Waiting
    <2>3. \A i \in DOMAIN queue : FALSE
      BY <2>1, QueueType, TaskType DEF OneCall, Unready, Waiting
    <2>4. Len(queue) = 0
      <3>1. Len(queue) \in Nat /\ DOMAIN queue = 1 .. Len(queue)  BY QueueType
      <3> QED  BY ONLY <2>3, <3>1
    <2>5. queue = <<>>  BY <2>4, EmptySeq DEF PoolTypeOK
    <2> QED  BY <2>2, <2>5
  <1> QED  BY <1>1, <1>2, <1>3, <1>4, <1>5, <1>6

(* A task is enqueued for a table that has none yet.                        *)
LEMMA EnqueueKeeps ==
  ASSUME PoolInv, Enqueue
  PROVE  PoolInv'
  <1> USE DEF PoolInv, Enqueue
  <1>a. PICK new \in Task : new.call = calls /\ new.table = pos /\ queue' = Append(queue, new)
    BY QueueType DEF PoolTypeOK, Task
  <1>b. queue \in Seq(Task)  BY DEF PoolTypeOK
  <1>c. /\ DOMAIN queue = 1 .. Len(queue) /\ Len(queue) \in Nat
        /\ queue' \in Seq(Task) /\ DOMAIN queue' = 1 .. Len(queue) + 1
        /\ \A i \in DOMAIN queue' : queue'[i] = IF i = Len(queue) + 1 THEN new ELSE queue[i]
    BY <1>a, <1>b, Appended
  <1>d. \A i \in DOMAIN queue' : i = Len(queue) + 1 \/ i \in DOMAIN queue  BY <1>c
  <1>e. Waiting(new)'  BY <1>a, QueueType, ConcurrencyAssumption DEF Waiting, Untouched
  <1>1. PoolTypeOK'
    <2>1. pos' \in 1 .. NumTables + 1  BY QueueType
    <2> QED  BY <1>c, <2>1 DEF PoolTypeOK
  <1>2. Distinct'
    <2>1. \A i \in DOMAIN queue : queue[i].call = calls => queue[i].table # pos
      BY QueueType, TaskType DEF Unready, Waiting
    <2>2. \A w \in Workers : running[w] # Idle /\ running[w].call = calls => running[w].table # pos
      BY QueueType, TaskType DEF Unready, Waiting
    <2> QED  BY <1>a, <1>c, <1>d, <2>1, <2>2 DEF Distinct
  <1>3. Unready'
    <2>1. ASSUME NEW k \in Task, Waiting(k) PROVE Waiting(k)'
      BY <2>1, QueueType, TaskType DEF Waiting
    <2>2. \A i \in DOMAIN queue : Waiting(queue[i])'  BY <2>1, QueueType DEF Unready
    <2>3. \A w \in Workers : running[w] # Idle => Waiting(running[w])'
      BY <2>1, QueueType DEF Unready
    <2> QED  BY <1>c, <1>d, <1>e, <2>2, <2>3 DEF Unready, Waiting
  <1>4. Untouched'  BY QueueType DEF Untouched
  <1>5. Folded'  BY DEF Folded
  <1>6. OneCall'  BY <1>a, <1>c, <1>d DEF OneCall
  <1> QED  BY <1>1, <1>2, <1>3, <1>4, <1>5, <1>6

(* The second loop starts with nothing folded.                              *)
LEMMA StartCollectingKeeps ==
  ASSUME PoolInv, StartCollecting
  PROVE  PoolInv'
  <1> USE ConcurrencyAssumption DEF PoolInv, StartCollecting
  <1>1. PoolTypeOK'  BY DEF PoolTypeOK
  <1>2. Distinct'  BY DEF Distinct
  <1>3. Unready'  BY DEF Unready, Waiting
  <1>4. Untouched'  BY DEF Untouched
  <1>5. Folded'  BY DEF Folded
  <1>6. OneCall'  BY DEF OneCall
  <1> QED  BY <1>1, <1>2, <1>3, <1>4, <1>5, <1>6

(* One more future is folded into finalStatus.                              *)
LEMMA CollectKeeps ==
  ASSUME PoolInv, Collect
  PROVE  PoolInv'
  <1> USE ConcurrencyAssumption DEF PoolInv, Collect
  <1>1. PoolTypeOK'
    <2>1. pos' \in 1 .. NumTables + 1  BY QueueType
    <2>2. final' \in Verdicts  BY DEF Fold, PoolTypeOK
    <2> QED  BY <2>1, <2>2 DEF PoolTypeOK
  <1>2. Distinct'  BY DEF Distinct
  <1>3. Unready'  BY DEF Unready, Waiting
  <1>4. Untouched'  BY DEF Untouched
  <1>5. Folded'
    <2>1. pos' = pos + 1 /\ pos \in Nat /\ pos \in Positions /\ pc = "collect" /\ futures' = futures
      BY QueueType
    <2>2. \A t \in Positions : t < pos' <=> (t < pos \/ t = pos)  BY <2>1
    <2>3. \A t \in Positions : t < pos' => futures'[t] \in Verdicts  BY <2>1, <2>2 DEF Folded
    <2>4. CASE futures[pos] # "OK"
      <3>1. final' = futures[pos] /\ final' # "OK"  BY <2>4 DEF Fold
      <3>2. \A t \in Positions : t < pos' => t <= pos  BY <2>1, <2>2
      <3> QED  BY <2>1, <2>2, <2>3, <3>1, <3>2 DEF Folded
    <2>5. CASE futures[pos] = "OK"
      <3>1. final' = final  BY <2>5 DEF Fold
      <3> QED  BY <2>1, <2>2, <2>3, <2>5, <3>1 DEF Folded
    <2> QED  BY <2>4, <2>5
  <1>6. OneCall'  BY DEF OneCall
  <1> QED  BY <1>1, <1>2, <1>3, <1>4, <1>5, <1>6

(* A call that ends here may leave tasks behind: threw says so.             *)
LEMMA CollectThrowsKeeps ==
  ASSUME PoolInv, CollectThrows
  PROVE  PoolInv'
  <1> USE ConcurrencyAssumption DEF PoolInv, CollectThrows
  <1>1. PoolTypeOK'  BY DEF PoolTypeOK
  <1>2. Distinct'  BY DEF Distinct
  <1>3. Unready'  BY DEF Unready, Waiting
  <1>4. Untouched'  BY DEF Untouched
  <1>5. Folded'  BY DEF Folded
  <1>6. OneCall'  BY DEF OneCall
  <1> QED  BY <1>1, <1>2, <1>3, <1>4, <1>5, <1>6

(* A call that returns a Status has a verdict from every table.             *)
LEMMA AllDecided ==
  ASSUME PoolInv, Return
  PROVE  \A t \in Positions : futures[t] \in Verdicts /\ t < pos
  BY QueueType DEF PoolInv, Return, PoolTypeOK, Folded

(* So none of its tasks is left when it returns.                            *)
LEMMA ReturnKeeps ==
  ASSUME PoolInv, Return
  PROVE  PoolInv'
  <1> USE ConcurrencyAssumption DEF PoolInv, Return
  <1>1. PoolTypeOK'  BY DEF PoolTypeOK
  <1>2. Distinct'  BY DEF Distinct
  <1>3. Unready'  BY DEF Unready, Waiting
  <1>4. Untouched'  BY DEF Untouched
  <1>5. Folded'  BY DEF Folded
  <1>6. OneCall'  BY AllDecided DEF OneCall
  <1> QED  BY <1>1, <1>2, <1>3, <1>4, <1>5, <1>6

(* A task moves from the head of the queue to a worker.                     *)
LEMMA StartKeeps ==
  ASSUME PoolInv, NEW w \in Workers, Start(w)
  PROVE  PoolInv'
  <1> USE DEF PoolInv, Start
  <1>a. queue \in Seq(Task) /\ queue # <<>>  BY DEF PoolTypeOK
  <1>b. /\ DOMAIN queue = 1 .. Len(queue) /\ Len(queue) \in Nat \ {0}
        /\ queue[1] \in Task /\ queue' \in Seq(Task)
        /\ DOMAIN queue' = 1 .. Len(queue) - 1
        /\ \A i \in DOMAIN queue' : queue'[i] = queue[i + 1] /\ i + 1 \in DOMAIN queue /\ i + 1 # 1
        /\ \A i, j \in DOMAIN queue' : i + 1 = j + 1 => i = j
    BY <1>a, Taken
  <1>c. 1 \in DOMAIN queue  BY <1>b
  <1>d. running' = [running EXCEPT ![w] = queue[1]]  BY <1>a, Taken
  <1>e. \A v \in Workers : running'[v] = IF v = w THEN queue[1] ELSE running[v]
    BY <1>d DEF PoolTypeOK
  <1>f. running[w] = Idle  OBVIOUS
  <1>1. PoolTypeOK'  BY <1>b, <1>d DEF PoolTypeOK
  <1>2. Distinct'
    <2>1. ASSUME NEW i \in DOMAIN queue', NEW j \in DOMAIN queue',
                 queue'[i].call = calls, queue'[j].call = calls, queue'[i].table = queue'[j].table
          PROVE  i = j
      BY <2>1, <1>b DEF Distinct
    <2>2. ASSUME NEW u \in Workers, NEW v \in Workers, running'[u] # Idle, running'[v] # Idle,
                 running'[u].call = calls, running'[v].call = calls,
                 running'[u].table = running'[v].table
          PROVE  u = v
      BY <2>2, <1>c, <1>e DEF Distinct
    <2>3. ASSUME NEW i \in DOMAIN queue', NEW v \in Workers, running'[v] # Idle,
                 queue'[i].call = calls, running'[v].call = calls
          PROVE  queue'[i].table # running'[v].table
      <3>1. CASE v = w  BY <3>1, <2>3, <1>b, <1>c, <1>e DEF Distinct
      <3>2. CASE v # w  BY <3>2, <2>3, <1>b, <1>e DEF Distinct
      <3> QED  BY <3>1, <3>2
    <2> QED  BY <2>1, <2>2, <2>3 DEF Distinct
  <1>3. Unready'
    <2>1. \A i \in DOMAIN queue' : Waiting(queue'[i])  BY <1>b DEF Unready
    <2>2. \A v \in Workers : running'[v] # Idle => Waiting(running'[v])  BY <1>c, <1>e DEF Unready
    <2> QED  BY <2>1, <2>2 DEF Unready, Waiting
  <1>4. Untouched'  BY DEF Untouched
  <1>5. Folded'  BY DEF Folded
  <1>6. OneCall'  BY <1>b, <1>c, <1>e DEF OneCall
  <1> QED  BY <1>1, <1>2, <1>3, <1>4, <1>5, <1>6

(* The task of w ends with s: of its future, if that is still there, no     *)
(* other task is the one to write it.                                       *)
LEMMA FinishKeeps ==
  ASSUME PoolInv, NEW w \in Workers, Finish(w)
  PROVE  PoolInv'
  <1> USE DEF PoolInv
  <1> DEFINE k == running[w]
  <1>a. k \in Task /\ k # Idle /\ k.op \in Operations /\ k.table \in Positions
    BY QueueType, TaskType DEF Finish
  <1>b. PICK s \in Endings(k.op) :
          futures' = IF k.call = calls THEN [futures EXCEPT ![k.table] = s] ELSE futures
    BY DEF Finish
  <1>c. s \in Verdicts \cup {Throws} /\ s # Pending  BY <1>a, EndingsType
  <1>d. \A v \in Workers : running'[v] = IF v = w THEN Idle ELSE running[v]
    BY DEF Finish, PoolTypeOK
  <1>e. Waiting(k)  BY <1>a DEF Unready
  <1>f. \A t \in Positions : futures'[t] = IF k.call = calls /\ t = k.table THEN s ELSE futures[t]
    BY <1>a, <1>b DEF PoolTypeOK
  <1>g. UNCHANGED <<pc, op, calls, pos, queue, final, outcome, threw>>  BY DEF Finish
  <1>h. k.call = calls => futures[k.table] = Pending /\ (pc = "enqueue" => k.table < pos)
    BY <1>e DEF Waiting
  <1> HIDE DEF k
  <1>1. PoolTypeOK'
    <2>1. running' \in [Workers -> Task \cup {Idle}]  BY DEF Finish, PoolTypeOK
    <2>2. futures' \in [Positions -> Verdicts \cup {Pending, Throws}]  BY <1>a, <1>b, <1>c DEF PoolTypeOK
    <2> QED  BY <1>g, <2>1, <2>2 DEF PoolTypeOK
  <1>2. Distinct'  BY <1>d, <1>g DEF Distinct
  <1>3. Unready'
    <2>1. \A i \in DOMAIN queue : Waiting(queue[i])'
      <3> TAKE i \in DOMAIN queue
      <3>1. queue[i].table \in Positions /\ Waiting(queue[i])  BY QueueType, TaskType DEF Unready
      <3>2. queue[i].call = calls /\ k.call = calls => queue[i].table # k.table
        BY <1>a DEF Distinct, k
      <3> QED  BY <3>1, <3>2, <1>f, <1>g DEF Waiting
    <2>2. \A v \in Workers : running'[v] # Idle => Waiting(running[v])' /\ running'[v] = running[v]
      <3> TAKE v \in Workers
      <3> HAVE running'[v] # Idle
      <3>1. v # w /\ running'[v] = running[v] /\ running[v] # Idle  BY <1>d
      <3>2. running[v].table \in Positions /\ Waiting(running[v])
        BY <3>1, QueueType, TaskType DEF Unready
      <3>3. running[v].call = calls /\ k.call = calls => running[v].table # k.table
        BY <1>a, <3>1 DEF Distinct, k
      <3> QED  BY <3>1, <3>2, <3>3, <1>f, <1>g DEF Waiting
    <2> QED  BY <1>g, <2>1, <2>2 DEF Unready, Waiting
  <1>4. Untouched'
    <2>1. \A t \in Positions : pc = "enqueue" /\ t >= pos /\ k.call = calls => t # k.table
      BY <1>a, <1>h, QueueType
    <2> QED  BY <1>f, <1>g, <2>1 DEF Untouched
  <1>5. Folded'
    <2>1. \A t \in Positions : pc = "collect" /\ t < pos /\ k.call = calls => t # k.table
      BY <1>h, ConcurrencyAssumption DEF Folded
    <2>2. pc = "collect" => \A t \in Positions : t < pos => futures'[t] = futures[t]
      BY <1>f, <2>1
    <2> QED  BY <1>g, <2>2 DEF Folded
  <1>6. OneCall'  BY <1>c, <1>d, <1>f, <1>g DEF OneCall
  <1> QED  BY <1>1, <1>2, <1>3, <1>4, <1>5, <1>6

(* PoolInv holds in every reachable state: the invariant the theorems below use
   (runParallel and the pool's workers in Concurrency.cpp).                 *)
THEOREM PoolInvariance == PoolSpec => []PoolInv
  <1>1. ASSUME PoolInv, [PoolNext]_poolVars PROVE PoolInv'
    <2>1. CASE UNCHANGED poolVars
      BY <1>1, <2>1 DEF PoolInv, PoolTypeOK, Distinct, Unready, Waiting, Untouched, Folded, OneCall, poolVars
    <2>2. CASE PoolNext
      BY <1>1, <2>2, CallKeeps, EnqueueKeeps, StartCollectingKeeps, CollectKeeps,
         CollectThrowsKeeps, ReturnKeeps, StartKeeps, FinishKeeps DEF PoolNext
    <2> QED  BY <1>1, <2>1, <2>2
  <1> QED  BY PoolInvStarts, <1>1, PTL DEF PoolSpec

(* Every reachable state of the caller and the pool is well typed
   (runParallel in Concurrency.cpp).                                        *)
THEOREM PoolTypes == PoolSpec => []PoolTypeOK
  <1>1. PoolInv => PoolTypeOK  BY DEF PoolInv
  <1> QED  BY <1>1, PoolInvariance, PTL

(* Two workers never have tasks of the same table, as long as no call ended
   with an exception (Concurrency.cpp: one task per table, and a barrier).  *)
THEOREM TablesAreNotShared == PoolSpec => []OneTaskPerTable
  <1>1. PoolInv => OneTaskPerTable  BY DEF PoolInv, Distinct, OneCall, OneTaskPerTable
  <1> QED  BY <1>1, PoolInvariance, PTL

-----------------------------------------------------------------------------
(* The refinement.  The tasks stand for the order in which FanOut decides;  *)
(* the fold is its last failure.                                            *)
LEMMA FoldIsLastFailure ==
  ASSUME PoolInv, Return
  PROVE  final = Fan!LastFailure(futures)
  <1>1. \A t \in Positions : futures[t] \in Verdicts /\ t < pos  BY AllDecided
  <1>2. Folded /\ pc = "collect"  BY DEF PoolInv, Return
  <1>3. CASE final = "OK"
    <2>1. \A t \in Positions : futures[t] = "OK"  BY <1>1, <1>2, <1>3 DEF Folded
    <2> QED  BY <1>3, <2>1 DEF Fan!LastFailure, Fan!Failing, Fan!Positions
  <1>4. CASE final # "OK"
    <2>1. PICK m \in Positions : /\ futures[m] = final
                                 /\ \A t \in Positions : futures[t] # "OK" => t <= m
      BY <1>1, <1>2, <1>4 DEF Folded
    <2>2. m \in Fan!Failing(futures) /\ \A j \in Fan!Failing(futures) : j <= m
      BY <1>4, <2>1 DEF Fan!Failing, Fan!Positions
    <2>3. \A n \in Fan!Failing(futures) :
            (\A j \in Fan!Failing(futures) : j <= n) => n = m
      BY <2>2, ConcurrencyAssumption DEF Fan!Failing, Fan!Positions
    <2>4. (CHOOSE n \in Fan!Failing(futures) : \A j \in Fan!Failing(futures) : j <= n) = m
      BY <2>2, <2>3
    <2>5. Fan!Failing(futures) # {}  BY <2>2
    <2>6. Fan!LastFailure(futures) =
            futures[CHOOSE n \in Fan!Failing(futures) : \A j \in Fan!Failing(futures) : j <= n]
      BY <2>5, Zenon DEF Fan!LastFailure
    <2> QED  BY <2>1, <2>4, <2>6
  <1> QED  BY <1>3, <1>4

(* A parallel call that returns a Status has waited for every table's
   verdict, and the Status is that of the last one that failed.  It rethrows
   only when a task threw, and then it may end before the others have
   (runParallel in Concurrency.cpp).                                        *)
THEOREM CallsFanOut == PoolSpec => FanOutSpec
  <1> USE ConcurrencyAssumption
  <1>1. PoolInit => Fan!Init  BY DEF PoolInit, Fan!Init, Fan!Positions
  <1>2. ASSUME PoolInv, [PoolNext]_poolVars PROVE [Fan!Next]_(Fan!fanOutVars)
    <2> USE DEF Fan!fanOutVars
    <2>1. ASSUME NEW o \in Operations, Call(o) PROVE Fan!Begin
      BY <2>1 DEF Call, Fan!Begin, Fan!Positions
    <2>2. CASE Enqueue \/ StartCollecting \/ Collect
      BY <2>2 DEF Enqueue, StartCollecting, Collect
    <2>3. CASE CollectThrows
      BY <2>3 DEF CollectThrows, Fan!Next, Fan!Rethrow, Fan!Positions
    <2>4. CASE Return
      <3>1. Fan!Return
        BY <1>2, <2>4, AllDecided, FoldIsLastFailure DEF Return, Fan!Return, Fan!Positions
      <3> QED  BY <3>1 DEF Fan!Next
    <2>5. ASSUME NEW w \in Workers, Start(w) PROVE UNCHANGED Fan!fanOutVars
      BY <2>5 DEF Start
    <2>6. ASSUME NEW w \in Workers, Finish(w) PROVE Fan!Decide \/ UNCHANGED Fan!fanOutVars
      <3>1. /\ running[w] \in Task /\ Waiting(running[w])
            /\ running[w].op \in Operations /\ running[w].table \in Positions
        BY <1>2, <2>6, QueueType, TaskType DEF Finish, PoolInv, Unready
      <3>2. PICK s \in Endings(running[w].op) :
              futures' = IF running[w].call = calls
                           THEN [futures EXCEPT ![running[w].table] = s] ELSE futures
        BY <2>6 DEF Finish
      <3>3. s \in Verdicts \cup {Throws}  BY <3>1, <3>2, EndingsType
      <3>4. UNCHANGED <<pc, outcome>>  BY <2>6 DEF Finish
      <3> QED  BY <3>1, <3>2, <3>3, <3>4 DEF Waiting, Fan!Decide, Fan!Positions
    <2>7. CASE UNCHANGED poolVars  BY <2>7 DEF poolVars
    <2> QED  BY <1>2, <2>1, <2>2, <2>3, <2>4, <2>5, <2>6, <2>7 DEF PoolNext, Fan!Next
  <1> QED  BY <1>1, <1>2, PoolInvariance, PTL DEF PoolSpec, FanOutSpec, Fan!Spec

=============================================================================
