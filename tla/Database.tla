------------------------------ MODULE Database ------------------------------
(***************************************************************************)
(* MiniDB::Core::Database: several Database objects, the Table objects     *)
(* they own on the heap, and the file they are saved to and loaded from.   *)
(*                                                                         *)
(* A Table is what its database sees of it: a name, an id and its content  *)
(* (module Table models what is inside).  A Table* is an address; new      *)
(* takes the lowest free one, so that a freed address is used again at     *)
(* once.  A foreign or damaged file reaches load() in every way fromJson() *)
(* tells apart.  The database's own name and its dirty flag are data that  *)
(* no call depends on: of them only the presence of __db_name__ in a file  *)
(* is kept.  A call that returns an error Status changes nothing.          *)
(*                                                                         *)
(* A Table that a caller was led to may be read anew in place, which gives *)
(* it another name and id; its database is not told.  What such an object  *)
(* does from then on is modelled too, and adrift tells it from the others. *)
(***************************************************************************)
EXTENDS Naturals, Sequences, FiniteSets

CONSTANTS Dbs,        \* the Database objects
          Names,      \* names of tables
          Contents,   \* what a table may hold
          New,        \* what a new table holds
          MaxTables,  \* DBConstants::MAX_TABLES
          MaxId,      \* bound: no createTable beyond this id
          MaxChanges, \* bound: the calls that change a Table
          HeapSize,   \* bound: the addresses a Table can have
          NullTable,  \* a table of the envelope that is null
          BadTable,   \* a table of the envelope that lacks a key
          NoFile,     \* nothing at the path
          Gone,       \* no such object
          Lost        \* what a leaked Table held

Addr == 1 .. HeapSize
Ids == {i \in 0 .. MaxId : i < MaxId}
TableObject == [name : Names, id : Ids, data : Contents]
PartialFunctions(S, T) == UNION {[D -> T] : D \in SUBSET S}

Objects == [tables : Seq(Addr),                          \* tables_
            index : PartialFunctions(Names, Ids),        \* name -> id
            tableIndex : PartialFunctions(Ids, Addr),    \* id -> Table*
            nextTableId : 0 .. MaxId]                    \* nextTableID_
Files == [named : BOOLEAN, tables : Seq(TableObject)]

ASSUME DatabaseAssumption ==
  /\ MaxTables \in Nat /\ MaxId \in Nat /\ HeapSize \in Nat
  /\ New \in Contents
  /\ Gone \notin Objects /\ NoFile \notin Files /\ Gone # Lost
  /\ \A none \in {Gone, Lost, NoFile} : none \notin Seq([name : Names, data : Contents])

VARIABLES
  db,      \* Dbs -> the members of the object, or Gone
  heap,    \* address -> the Table there
  file,    \* what the path holds
  torn,    \* history: the objects a load left with deleted tables
  adrift,  \* history: the objects whose Tables can differ from the indices
  changes, \* the calls so far that changed a Table
  leaked   \* history: Tables a load that threw will never delete

vars == <<db, heap, file, torn, adrift, leaked, changes>>

-----------------------------------------------------------------------------
Elements(s) == {s[k] : k \in DOMAIN s}
Extend(f, k, v) == [x \in DOMAIN f \cup {k} |-> IF x = k THEN v ELSE f[x]]
Erase(f, ks) == [x \in DOMAIN f \ ks |-> f[x]]

Empty == [tables |-> <<>>, index |-> <<>>, tableIndex |-> <<>>, nextTableId |-> 0]

(* new, n times: the lowest addresses that are free.                        *)
Free == Addr \ DOMAIN heap
Fresh(n) == {f \in [1 .. n -> Free] :
               /\ \A i, j \in DOMAIN f : i < j => f[i] < f[j]
               /\ \A a \in Free \ Elements(f), i \in DOMAIN f : f[i] < a}

(* The heap with the Tables ts at the addresses f.                          *)
With(h, f, ts) ==
  [a \in DOMAIN h \cup Elements(f) |->
     IF a \in DOMAIN h THEN h[a] ELSE ts[CHOOSE k \in DOMAIN f : f[k] = a]]

(* remove_if: the rest of s, in its order.                                  *)
Removed(s, gone) ==
  LET kept == {k \in DOMAIN s : s[k] \notin gone} IN
    {[k \in DOMAIN f |-> s[f[k]]] :
       f \in {g \in [1 .. Cardinality(kept) -> kept] :
                \A i, j \in DOMAIN g : i < j => g[i] < g[j]}}

(* After a load that tore it nothing defined can be done with an object.    *)
Usable(d) == db[d] # Gone /\ d \notin torn
Owned(d) == IF Usable(d) THEN Elements(db[d].tables) ELSE {}

Init == /\ db = [d \in Dbs |-> Gone] /\ heap = <<>> /\ file = NoFile
        /\ torn = {} /\ adrift = {} /\ leaked = {} /\ changes = 0

-----------------------------------------------------------------------------
(* Constructors, destructor, move assignment.                              *)

Construct(d) ==
  /\ db[d] = Gone
  /\ db' = [db EXCEPT ![d] = Empty]
  /\ UNCHANGED <<heap, file, torn, leaked, adrift, changes>>

Destroy(d) ==
  /\ Usable(d)
  /\ db' = [db EXCEPT ![d] = Gone]
  /\ heap' = Erase(heap, Owned(d))
  /\ adrift' = adrift \ {d}
  /\ UNCHANGED <<file, torn, leaked, changes>>

Drifts(d, yes) == IF yes THEN adrift \cup {d} ELSE adrift \ {d}

(* Mutant: the source keeps its members.                                    *)
MoveKeepsSource(d, e) ==
  db' = [db EXCEPT ![d] = db[e]] /\ adrift' = Drifts(d, e \in adrift)

MoveMembers(d, e) ==
  /\ db' = [db EXCEPT ![d] = db[e], ![e] = Empty]
  /\ adrift' = Drifts(d, e \in adrift) \ {e}

MoveConstruct(d, e) ==
  /\ db[d] = Gone /\ Usable(e)
  /\ MoveMembers(d, e)
  /\ UNCHANGED <<heap, file, torn, leaked, changes>>

MoveAssign(d, e) ==
  /\ Usable(d) /\ Usable(e) /\ d # e
  /\ MoveMembers(d, e)
  /\ heap' = Erase(heap, Owned(d))
  /\ UNCHANGED <<file, torn, leaked, changes>>

-----------------------------------------------------------------------------
(* Table management.                                                       *)

hasTable(d, n) == n \in DOMAIN db[d].index

(* Mutant: the number of tables, which dropTable() lowers.                  *)
TableCountAsId(d) == Len(db[d].tables)

nextTableID(d) == db[d].nextTableId

HasRoom(d) == Len(db[d].tables) < MaxTables

createTable(d, n) ==
  /\ Usable(d) /\ HasRoom(d) /\ ~hasTable(d, n)
  /\ nextTableID(d) < MaxId
  /\ \E f \in Fresh(1) :
       LET tid == nextTableID(d) IN
         /\ heap' = Extend(heap, f[1], [name |-> n, id |-> tid, data |-> New])
         /\ db' = [db EXCEPT ![d].tables = Append(@, f[1]),
                             ![d].index = Extend(@, n, tid),
                             ![d].tableIndex = Extend(@, tid, f[1]),
                             ![d].nextTableId = @ + 1]
  /\ UNCHANGED <<file, torn, leaked, adrift, changes>>

dropTable(d, n) ==
  /\ Usable(d) /\ hasTable(d, n)
  /\ LET tid == db[d].index[n]
         gone == {a \in Owned(d) : heap[a].id = tid} IN
       /\ \E rest \in Removed(db[d].tables, gone) :
            db' = [db EXCEPT ![d].tables = rest,
                             ![d].index = Erase(@, {n}),
                             ![d].tableIndex = Erase(@, {tid})]
       /\ heap' = Erase(heap, gone)
  /\ UNCHANGED <<file, torn, leaked, adrift, changes>>

(* The Table* getTable() returns, as a set of at most one address.          *)
getTable(d, n) ==
  IF hasTable(d, n) /\ db[d].index[n] \in DOMAIN db[d].tableIndex
    THEN {db[d].tableIndex[db[d].index[n]]}
    ELSE {}

(* A call of a Table that getTable() or getTables() led to; the database is *)
(* not told.  Its id and name are public, and Table::fromJson() overwrites  *)
(* both, also when it then fails.                                           *)
ChangeTable(d, a, t) ==
  /\ Usable(d) /\ a \in Owned(d)
  /\ heap' = [heap EXCEPT ![a] = t]
  /\ changes < MaxChanges /\ changes' = changes + 1
  /\ adrift' = IF t.name = heap[a].name /\ t.id = heap[a].id
                 THEN adrift ELSE adrift \cup {d}
  /\ UNCHANGED <<db, file, torn, leaked>>

-----------------------------------------------------------------------------
(* save and load.                                                          *)

toJson(d) == [named |-> TRUE,
              tables |-> [k \in DOMAIN db[d].tables |-> heap[db[d].tables[k]]]]

save(d) == /\ Usable(d) /\ file' = toJson(d)
           /\ UNCHANGED <<db, heap, torn, leaked, adrift, changes>>

(* What a load finds at the path: the envelope of the last save, or a       *)
(* damaged one, or another program's file; none of them before a save.      *)
Damaged(e) == {[e EXCEPT !.named = FALSE]} \cup
  {[e EXCEPT !.tables[k] = bad] : k \in DOMAIN e.tables, bad \in {NullTable, BadTable}}
Envelopes == IF file = NoFile THEN {} ELSE {file} \cup Damaged(file)

IsTable(t) == t \notin {NullTable, BadTable}
FirstBad(ts, k) == ~IsTable(ts[k]) /\ \A j \in 1 .. k - 1 : IsTable(ts[j])
AllTables(ts) == \A k \in DOMAIN ts : IsTable(ts[k])

TopId(ts) == CHOOSE top \in {0} \cup {ts[k].id : k \in DOMAIN ts} :
               \A k \in DOMAIN ts : ts[k].id <= top

(* No name and no id occurs twice, which only an object adrift saves.       *)
Distinct(ts) ==
  \A j, k \in DOMAIN ts : ts[j].name = ts[k].name \/ ts[j].id = ts[k].id => j = k

(* The indices that insertions for the Tables ts at f make.  When two of    *)
(* them have the same key, either may be the one that counts.               *)
IdsInserted(ts) ==
  {ix \in [{t.name : t \in Elements(ts)} -> {t.id : t \in Elements(ts)}] :
     \A n \in DOMAIN ix : \E t \in Elements(ts) : t.name = n /\ ix[n] = t.id}
TablesInserted(ts, f) ==
  {tx \in [{t.id : t \in Elements(ts)} -> Elements(f)] :
     \A i \in DOMAIN tx : \E k \in DOMAIN f : ts[k].id = i /\ tx[i] = f[k]}

(* The members of an object that read ts into the Tables at f.              *)
Loaded(ts, f) ==
  {[tables |-> f, index |-> ix, tableIndex |-> tx,
    nextTableId |-> IF f = <<>> THEN 0 ELSE TopId(ts) + 1] :
     ix \in IdsInserted(ts), tx \in TablesInserted(ts, f)}

(* Mutant: the list is filled in place, up to the table that fails.         *)
LoadTableFailsInPlace(d) ==
  /\ Usable(d)
  /\ \E e \in Envelopes : \E k \in DOMAIN e.tables :
       /\ FirstBad(e.tables, k) /\ e.tables[k] = NullTable
       /\ LET ts == SubSeq(e.tables, 1, k - 1) IN
            \E f \in Fresh(k - 1) :
              /\ heap' = Erase(With(heap, f, ts), Owned(d))
              /\ \E o \in Loaded(ts, f) : db' = [db EXCEPT ![d] = o]
              /\ adrift' = Drifts(d, ~Distinct(ts))
  /\ UNCHANGED <<file, torn, leaked, changes>>

(* Mutant: the scratch Tables are not deleted.                              *)
LoadTableFailsNoCleanup(d) ==
  /\ Usable(d)
  /\ \E e \in Envelopes : \E k \in DOMAIN e.tables :
       /\ FirstBad(e.tables, k) /\ e.tables[k] = NullTable
       /\ \E f \in Fresh(k - 1) : heap' = With(heap, f, [j \in 1 .. k - 1 |-> Lost])
  /\ UNCHANGED <<db, file, torn, leaked, adrift, changes>>

(* Table::fromJson() returns an error: the scratch Tables are deleted.      *)
LoadTableFails(d) ==
  /\ Usable(d)
  /\ \E e \in Envelopes : \E k \in DOMAIN e.tables :
       FirstBad(e.tables, k) /\ e.tables[k] = NullTable
  /\ UNCHANGED vars

(* Bound: one load in a behaviour leaks.                                    *)
NoneLeaked == leaked = {}

(* Table::fromJson() throws: nothing deletes the scratch Tables, nor the    *)
(* one it was called on.                                                    *)
LoadTableThrows(d) ==
  /\ Usable(d) /\ NoneLeaked
  /\ \E e \in Envelopes : \E k \in DOMAIN e.tables :
       /\ FirstBad(e.tables, k) /\ e.tables[k] = BadTable
       /\ \E f \in Fresh(k) :
            /\ heap' = With(heap, f, [j \in 1 .. k |-> Lost])
            /\ leaked' = leaked \cup Elements(f)
  /\ UNCHANGED <<db, file, torn, adrift, changes>>

(* __db_name__ throws, when the live Tables are already deleted.            *)
LoadNameThrows(d) ==
  /\ Usable(d) /\ NoneLeaked
  /\ \E e \in Envelopes :
       /\ AllTables(e.tables) /\ ~e.named
       /\ \E f \in Fresh(Len(e.tables)) :
            /\ heap' = Erase(With(heap, f, [k \in DOMAIN f |-> Lost]), Owned(d))
            /\ leaked' = leaked \cup Elements(f)
  /\ torn' = IF Owned(d) = {} THEN torn ELSE torn \cup {d}
  /\ UNCHANGED <<db, file, adrift, changes>>

load(d) ==
  /\ Usable(d)
  /\ \E e \in Envelopes :
       /\ AllTables(e.tables) /\ e.named
       /\ \E f \in Fresh(Len(e.tables)) :
            /\ heap' = Erase(With(heap, f, e.tables), Owned(d))
            /\ \E o \in Loaded(e.tables, f) : db' = [db EXCEPT ![d] = o]
       /\ adrift' = Drifts(d, ~Distinct(e.tables))
  /\ UNCHANGED <<file, torn, leaked, changes>>

-----------------------------------------------------------------------------
(* The other calls that return an error or throw, and change nothing.      *)
Statuses == {"OUT_OF_MEMORY", "TABLE_ALREADY_EXISTS", "TABLE_NOT_FOUND",
             "IO_ERROR", "PARSE_ERROR", "EXCEPTION"}

CreateFails(d, s) ==
  \/ s = "OUT_OF_MEMORY" /\ ~HasRoom(d)
  \/ s = "TABLE_ALREADY_EXISTS" /\ HasRoom(d) /\ \E n \in Names : hasTable(d, n)

DropFails(d, s) == s = "TABLE_NOT_FOUND" /\ \E n \in Names : ~hasTable(d, n)

(* AtomicFile: the path is what it was.                                     *)
SaveFails(s) == s \in {"IO_ERROR", "EXCEPTION"}

(* No file; no JSON, or null; a list that is too long.                      *)
LoadFails(s) == \/ s = "IO_ERROR"
                \/ s \in {"PARSE_ERROR", "OUT_OF_MEMORY"} /\ file # NoFile

CallFails(d) ==
  /\ Usable(d)
  /\ {s \in Statuses : CreateFails(d, s) \/ DropFails(d, s)
                         \/ SaveFails(s) \/ LoadFails(s)} # {}
  /\ UNCHANGED vars

Next ==
  \/ \E d \in Dbs :
       \/ Construct(d) \/ Destroy(d)
       \/ \E e \in Dbs : MoveConstruct(d, e) \/ MoveAssign(d, e)
       \/ \E n \in Names : createTable(d, n) \/ dropTable(d, n)
       \/ \E a \in Owned(d), t \in TableObject : ChangeTable(d, a, t)
       \/ save(d) \/ load(d)
       \/ LoadTableFails(d) \/ LoadTableThrows(d) \/ LoadNameThrows(d)
       \/ CallFails(d)

Spec == Init /\ [][Next]_vars

-----------------------------------------------------------------------------
TypeOK ==
  /\ db \in [Dbs -> Objects \cup {Gone}]
  /\ \A d \in Dbs : db[d] # Gone => Len(db[d].tables) <= MaxTables
  /\ DOMAIN heap \subseteq Addr
  /\ \A a \in DOMAIN heap : heap[a] \in IF a \in leaked THEN {Lost} ELSE TableObject
  /\ file \in Files \cup {NoFile}
  /\ torn \subseteq Dbs /\ adrift \subseteq Dbs /\ leaked \subseteq Addr

(* Every Table on the heap has exactly one owner: no pointer of an object   *)
(* dangles, no two objects or two places of one object own the same Table   *)
(* (it would be deleted twice), and none is without an owner but those a    *)
(* load that threw leaked.  Moves, drops, loads and destructors keep this,  *)
(* also on an object adrift, where one drop may delete several Tables.      *)
Ownership ==
  /\ \A d \in Dbs : Usable(d) =>
       \A i, j \in DOMAIN db[d].tables : db[d].tables[i] = db[d].tables[j] => i = j
  /\ \A d, e \in Dbs : d # e => Owned(d) \cap Owned(e) = {}
  /\ DOMAIN heap = leaked \cup UNION {Owned(d) : d \in Dbs}
  /\ leaked \cap UNION {Owned(d) : d \in Dbs} = {}

(* The two indices lead from the name of each table to that table and       *)
(* nowhere else, and the counter is above every id: getTable(), the         *)
(* duplicate check and the next createTable() agree with the list.  An      *)
(* object whose Tables were given another name or id, or that read a file   *)
(* in which two share one, has lost this, until a load or a move in.        *)
LookupsAgree ==
  \A d \in Dbs : Usable(d) /\ d \notin adrift =>
    /\ DOMAIN db[d].index = {heap[a].name : a \in Owned(d)}
    /\ DOMAIN db[d].tableIndex = {heap[a].id : a \in Owned(d)}
    /\ \A a \in Owned(d) :
         /\ getTable(d, heap[a].name) = {a}
         /\ heap[a].id < db[d].nextTableId

(* The objects and the file are a Catalog: no id, pointer or index shows,   *)
(* but on an object adrift, whose drops and creations go by them.           *)
Listed(ts) == [k \in DOMAIN ts |-> [name |-> ts[k].name, data |-> ts[k].data]]
Shown(d) == IF db[d] = Gone THEN Gone
            ELSE IF d \in torn THEN Lost
            ELSE Listed(toJson(d).tables)
Catalogs == [d \in Dbs |-> Shown(d)]
Stored == IF file = NoFile THEN NoFile ELSE Listed(file.tables)
Mixed == file # NoFile /\ ~Distinct(file.tables)
Cat == INSTANCE Catalog WITH cat <- Catalogs, disk <- Stored,
                             stray <- adrift, mixed <- Mixed
CatalogSpec == Cat!Spec

-----------------------------------------------------------------------------
(* Database.h on fromJson(): "a failure partway through leaves the existing *)
(* database untouched": a load that reports an error changes no object and  *)
(* none of the Tables it owns.                                              *)
LoadAllOrNothing ==
  [][\A d \in Dbs : LoadTableFails(d) \/ LoadTableThrows(d) \/ LoadNameThrows(d)
       => \A a \in Owned(d) : a \in DOMAIN heap' /\ heap'[a] = heap[a]]_vars
=============================================================================
