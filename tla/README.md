# MiniDatabase: TLA+ models, checks and proofs

MiniDatabase (`MiniDB`) is an embedded single-process database in C++23. This
directory holds its formal models: TLA+ modules translated from the code under
`src/` and `include/`, TLC configurations that check them on small instances, and
proofs checked by TLAPS. Paths below are relative to the repository root.

    tlasany M.tla                        parse
    tlc -config X.cfg M                  check (see "Runs" for the pairs)
    tlapm M.tla                          check the proofs of M: WriteAheadLogProofs,
                                         AtomicFileProofs, StorageEngineProofs,
                                         TableProofs, DatabaseProofs, EngineProofs,
                                         QueryEngineProofs, RegressionProofs (the
                                         longest: about ten minutes)

## 1. Inventory of the system

| Component | Source | State it keeps | Operations |
|---|---|---|---|
| `Storage::WriteAheadLog` | `src/MiniDB/Storage/WriteAheadLog.cpp` | the log file, `fd_`, `offsetIndex_`, `lastIndex_`, `lastTerm_`, `writeOffset_` | `open` (recovery scan), `append`, `entryAt`, `range`, `truncateFrom` |
| `Common::FileIO` | `include/MiniDB/Common/FileIO.h` | files: fixed-size slots; whole files and their `.tmp` | `writeSlot`, `readSlot`, `readFile`, `writeFileAtomic` |
| `Core::Record` | `src/MiniDB/Core/Record.cpp` | `id`, `data`, `deleted` | fields, `validate`, `toJson`, `fromJson`, `markDeleted` |
| `Core::Page` | `src/MiniDB/Core/Page.cpp` | `id`, `records` (pool slots), `dirty` | `addRecord`, `getRecord`, `updateRecord`, `deleteRecord` (soft), `compact`, JSON |
| `Core::Table` | `src/MiniDB/Core/Table.cpp` | `pages`, `index`, `pageIndex`, `nextPageId_`, `dirty`, `schema` | CRUD, `compact`, `rebuildIndex`, JSON |
| `Core::Database` | `src/MiniDB/Core/Database.cpp` | `tables`, `index`, `tableIndex`, `nextTableId_`, `dirty` | `createTable`, `dropTable`, `getTable`, `save`, `load`, `compact`, moves |
| `Engine::StorageEngine` | `src/MiniDB/Engine/StorageEngine.cpp` | `pageCache` (LRU), slot files | `fetchPage`, `cachePage`, `getCachedPage`, `writePage`, `flushPage`, `evictPage` |
| `Engine::Serializer` | `src/MiniDB/Engine/Serializer.cpp` | none | export and import of tables and databases |
| `Engine::Concurrency` | `src/MiniDB/Engine/Concurrency.cpp` | a thread pool | one task per table: save, load, export, reindex |
| `Engine::QueryEngine` | `src/MiniDB/Engine/QueryEngine.cpp` | none | `select`, `selectByID`, `count`, `sum`, `avg`, `max`, `min` |
| regression tools | `regression/google`, `regression/custom` | snapshots on disk; the report being built | `list`, `methods`, the comparison of two benchmark snapshots |

**How they interact.** A `Database` owns `Table`s, a `Table` owns `Page`s, a `Page`
owns `Record`s in a pool; all of it is plain calls in one thread, and it reaches the
disk only as one JSON envelope through `FileIO::writeFileAtomic`. `StorageEngine`
stores single pages, copied out of any table, in slot files through `writeSlot`, with an
LRU cache in front. The write-ahead log stands alone: nothing in the repository calls it
yet except tests, and its callers are to be a replicated log. `Concurrency` runs
`Serializer` calls on a pool, one table per task; `QueryEngine` only reads a table. The
two regression tools are programs of their own: they read the snapshots that the benchmark
programs left and share nothing with the engine. HashMap, Vector, LRU cache, thread pool,
JSON and memory pool come from submodules whose sources are not in the repository.

**What is hard, and what correctness means.**

- *WriteAheadLog*: three system calls stand between a caller and a durable entry, any of
  them fails, and the process or the machine may stop at any point. Correct: an entry
  whose `append` returned OK is there after any restart, at its index, with its content;
  the index in memory always describes the file.
- *StorageEngine over FileIO slots*: three copies of a page (cache, page cache of the
  kernel, disk) and a flag that says which is newer. Correct: no update is lost and no old version is
  served while the caller keeps the rules; failed writes are recoverable.
- *Table, Page, Record*: two hash indices, a counter and soft-deleted records that must
  agree after every sequence of calls and every trip through JSON. Correct: the table is a
  map from ids to data.
- *Database*: raw pointers in three containers, moves, and a load that builds in scratch
  containers and may fail or throw anywhere. Correct: every `Table` has one owner, the maps
  agree with the list, and a load replaces everything or nothing.
- *writeFileAtomic*: crashes between write, sync and rename, with a reader in between.
  Correct: the path is an atomic register.
- *Concurrency*: tasks that end in any order, fail, or throw. Correct: a call that returns a
  Status has waited for all of its tasks, and two tasks never use one table.
- *Serializer*: an import is a loop of inserts with no way back. Correct: what was
  there stays, what was added is a prefix of the file, an export comes back as it was.
- *QueryEngine*: a limit before the sort, and comparisons of mixed types. Correct: each answer is
  what its definition over the set of live records says, and a sort has an order but where a value is missing or NaN.
- *Regression tools*: two files joined by name, ids that one run prints and another
  resolves, tables with a state of their own. Correct: the report is about the benchmarks that were
  asked for, with their own values.

`PROJECT.json` lists every hazard of this kind with its line and the properties that
would show it going wrong.

## 2. Modules

| Module | Models | Notes |
|---|---|---|
| `WriteAheadLog` | `WriteAheadLog.cpp` | state, one action per operation or per system call |
| `DurableLog` | what the log promises | abstract specification, implemented by `WriteAheadLog` |
| `MCWriteAheadLog` | – | payloads of one and two cells for TLC, and which may be read short |
| `WriteAheadLogProofs` | – | the theorems about the log, the refinement among them |
| `SlotFile` | `writeSlot`, `readSlot` | operators and variables used by `StorageEngine` |
| `StorageEngine` | `StorageEngine.cpp`, the page flags of `Page.cpp` | extends `SlotFile` |
| `StorageEngineProofs` | – | the theorems about the page cache |
| `AtomicFile` | `writeFileAtomic`, `readFile` | one action per system call |
| `AtomicRegister` | what `writeFileAtomic` promises | abstract specification, implemented by `AtomicFile` |
| `MCAtomicFile` | – | a short and a long content for TLC |
| `AtomicFileProofs` | – | the theorems about whole files, the refinement among them |
| `MCFiles` | – | `AtomicFile` and `StorageEngine` in one run: a behaviour takes steps of one of them |
| `Table` | `Table.cpp`, `Page.cpp`, `Record.cpp` | |
| `RecordMap` | what a table promises | abstract specification, implemented by `Table` |
| `TableProofs` | – | the theorems about tables, the refinement among them |
| `Database` | `Database.cpp`, `Database.h` | several objects, the heap they share, and one file |
| `Catalog` | what databases promise | abstract specification, implemented by `Database` |
| `MCDatabase` | – | symmetry |
| `DatabaseProofs` | – | the theorems about databases, the refinement among them |
| `Concurrency` | `Concurrency.cpp` | the caller, the queue of the pool and its workers |
| `FanOut` | what a parallel call promises | abstract specification, implemented by `Concurrency` |
| `Serializer`, `MCSerializer` | `Serializer.cpp` | an import is one action per entry |
| `EngineProofs` | – | the theorems about the parallel calls, and about exports and imports |
| `Record` | `Record.cpp` | operators on fields, and `validate` |
| `QueryEngine`, `MCQueryEngine` | `QueryEngine.cpp` | extends `Record`; one record a step |
| `QueryEngineProofs` | – | the theorems about queries, and about sums |
| `MCEngine` | – | `Concurrency`, `Serializer` and `QueryEngine` in one run: a behaviour takes steps of one of them |
| `Benchmarks` | what the two regression tools share | operators: ids, versions, widths |
| `GoogleSuite`, `CustomSuite` | `support/helpers.h`, `support/framework.h` of each tool | extend `Benchmarks` |
| `Regression`, `MCRegression` | `regression_main.cpp`, `export.h`, the loops of `framework.h` | a run of either tool |
| `RegressionProofs` | – | the theorems about the regression tools |

### WriteAheadLog

| TLA+ | Code |
|---|---|
| `file` | the bytes a `pread` returns |
| `synced` | the bytes on stable storage (no variable of the code) |
| `fd`, `offsetIndex`, `lastIndex`, `lastTerm`, `writeOffset` | the members of the same names |
| `phase`, `pos`, `pending`, `written` | where a call in progress is, `open`'s `pos`, `append`'s `buf` and `written` |
| `ret` | the Status the last call returned |
| `acked` | history: entries confirmed and neither truncated nor cut off by a short read since |

A file is a sequence of *cells*. A frame of payload `p` is `Blocks[p]` cells, cell `k`
being `<<frame, k>>`. A frame that was cut, or overwritten in part, is one whose cells do
not agree; that is what the length fields and the CRC tell the scan, so `FrameAt` stands
for lines 302-355 of `open`. The byte layout, CRC arithmetic and 64-bit offsets are abstracted.
The model supposes that the CRC detects every mixture and that no payload has
a frame inside it.

`open` is `OpenBegin`, one `ScanAccept` per frame, then `ScanStop` (which cuts the file
behind the last good frame), or `ScanShort`, or one of its error returns. `ScanShort` is the
`pread` of a *whole* frame that returns fewer bytes than asked for (lines 311-313 and 331-333): the
scan ends there, reports OK, and cuts that frame and all behind it off the file. `ShortReads` is the set of payloads whose
frames may be read short: for POSIX any read may, in practice on Linux one of more than
0x7ffff000 bytes. `entryAt` and `range` treat the same short read as an I/O error
(`readFrameAt`, lines 438-451) and change nothing. `append` is `AppendBegin`, any
number of `Pwrite(n)`, each of any length a short write may have, then `FsyncOk`,
or `PwriteError` or `FsyncError`. `truncateFrom` has no point at which a crash leaves anything
else than before or after it, so each branch is one action. Between any two actions the
process may end (`ProcessCrash`) or the power (`PowerLoss`), after which `file`
is `synced`. `WritebackSize` and `WritebackCell` let the kernel write the size and
the single cells back in any order, so `synced` is any mixture of what the file was and is.

After a failed `fsync` the model keeps the written cells in the page cache; a kernel that drops
them is not modelled.

### SlotFile and StorageEngine

`slots[k]` is what a read of slot `k` finds, `stable[k]` what the disk holds: a content,
`Empty` (no file, past its end, or length 0), or `Torn` (part old, part new). `writeSlot` writes
in place and never syncs. `WriteSlotError` leaves the slot as it was, torn, or written.
A torn slot is modelled as one whose payload does not parse.

`cache` is the LRU cache as a sequence, most recent first; its library is external,
and `Put` and `Touched` say what the code relies on. Each action is one public method with one
outcome, and includes the change of recency that `get` makes. `flushPage` and `evictPage` share
the actions `Flush...`, as `evictPage` calls `flushPage` and erases the entry on OK.
A page's *plain life cycle* is to be cached dirty, changed through the cached pointer, flushed, evicted and
fetched. The caller may also do the following, in any state:

| Move | Meaning |
|---|---|
| replace | `cachePage` on a key that is cached |
| clean | `cachePage` of a page whose `dirty` is false |
| compact | `Page::compact` on a cached page, which clears `dirty` |
| direct | `writePage` of a page of its own |
| overflow | a put that makes a full cache drop a dirty page (`Pushed`), which the code does not write (`StorageEngine.cpp:121`, `:135`) |

`plain` remembers the pages to which no such move was done: `LatestHeld` and `FetchSeesLatest` speak of these, whatever
is done to the others. `latest` remembers the content the caller
gave each page last. Left out: the pointers `fetchPage` hands out, and the hit statistics.

### AtomicFile

`data` and `dir` are what system calls see, inodes and the two names `path` and `tmp`
(`path + ".tmp"`); `disk` and `diskDir` are what a power loss leaves. `pc`, `fd`, `content` and
`written` are where a `writeFileAtomic` is, `outcome` what it returned (or `"throws"`,
as `remove(tmp)` may); `rpc`, `rsize`, `rfile` and `got` the same of a `readFile`. A content `c` is
`Size[c]` cells `<<c, k>>`. `Fsync` makes the data stable, `WritebackData` and `WritebackDir`
let the kernel do so at any time, the data up to any cell; the directory goes
as a whole, that is, the file system orders its own metadata. An inode that no name and no descriptor holds is
freed. A `path.tmp` that a failed save left stays, and the next save truncates it.
The POSIX branch is modelled. Saves of one path are one at a time: two would share
`path.tmp`, and the code has nothing against it (section 5).

`AtomicRegister` has the content asked for, the value, the value on stable storage and the
outcome; `AtomicFile` maps an inode to the content it holds as a whole, and to its cells if
it holds none, which no state of the register is.

### Table

`pages` is the sequence of pages in creation order, each with its records in order; a
soft-deleted record is the value `Dead`, as nothing reads what it held. `index`, `pageIndex` and
`nextPageId` are the members; a `Page*` is a position in `pages`. `saved` is the envelope
`toJson` built last, `savedMap` its records as a map. `toJson` and `fromJson` are modelled by
what they do: live records only, in order; the 64-bit id goes out through a 32-bit int and
comes back through a double (`ReadBack`; a negative double converts to `uint64_t` with
undefined behaviour, so either plausible outcome is allowed). `fromJson` is the load into a new `Table`, as
`Database::fromJson` does it; `deserialize` the load into one in use, where the pages are
appended; `deserializeFails` the load that stops at a page that does not parse.
`LiveRecords` picks the live records in order by an order-preserving numbering and not by
`SelectSeq`, so that no recursive definition stands in the way of a proof.

Left out: the columns (a datum is valid or not; `Record` has them), the object pool, allocation failure
(`OUT_OF_MEMORY` of `findPageWithSlot` and `addRecord` cannot otherwise be returned), move
construction and assignment.

### Database

`db[d]` is a `Database` object with the members of the code, or `Gone`. `heap` maps the address
of each `Table` to its name, id and content; `new` takes the lowest free addresses, so that a
dangling pointer soon points to another table. `file` is the envelope of the last `save`. A Table that `getTable()` or `getTables()` led to may be changed in any way,
`ChangeTable`: `Table::fromJson()` and `deserialize()` are public and overwrite its name and its id
(`Table.cpp:242-243`) without the database hearing of it. The object is then *adrift*: its maps no longer lead to its list,
so that a drop may delete another Table, several, or none, and a creation may repeat a name. The model follows all
this; `adrift` remembers the object, `LookupsAgree` makes an exception of it, `Ownership` does not, and in `Catalog` such an
object is `stray`. It ends when a load or a move gives the object another list. A file an object
adrift saved may have one name or id twice; which of them the maps of a load then keep is left open. A load
reads it as it is, or without `__db_name__`, or with one table that is null (`Table::fromJson` returns an
error) or lacks a key (it throws): `load`, `LoadNameThrows`, `LoadTableFails`, `LoadTableThrows`.
`torn` remembers the objects whose tables a load deleted without replacing them: any further call on
them is undefined behaviour, and the model makes none. `leaked` remembers the `Table`s that no
one will delete. `Catalog` keeps of all this a list of named tables per object, and one on the
disk. Left out: the name and the dirty flag of a database, `compact()` and `rebuildIndex()`, which
only call those of each table, ids that wrap around, and ids above `MaxId` from a re-read. The pointers callers keep
across a drop or a load are not modelled, and what an object adrift finds at a `tableIndex` entry whose Table it has deleted is
the caller's undefined use.

### Concurrency

`Call(o)` is any of the four calls; `Enqueue`, `Collect`, `CollectThrows` and `Return` are the two
loops of `runParallel`, one turn an action; `Start(w)` and `Finish(w)` are a worker of the pool. A
task owns its table and its file from `Start` to `Finish`, and ends with any Status, or with an
exception (`rebuildIndex` cannot fail). When `f.get()` rethrows, the call is over
and its other tasks go on, also with the file name they captured by reference (`Concurrency.cpp:73`, `:80`): `threw` remembers
it, `OneTaskPerTable` says nothing after that, and run `parallel_throw` shows it against the comment of `Concurrency.h`.
The pool is external: a FIFO queue that runs a task once and stores its result or its exception.
The module names its specification `PoolSpec`, and its parts alike (`PoolInit`, `PoolNext`, `PoolTypeOK`), as `Serializer`
(`TransferSpec`), `QueryEngine` (`QuerySpec`) and `StorageEngine` (`CacheSpec`) do, so that one module can
extend several of them.

### Serializer

A table is the map that `Table` was shown to implement (`RecordMap`), so a call of `insertRecord` is
one step here. A record's data is its own field `"id"`, if it has one, and the rest as one value: the
format writes the record's id under that name, and takes it away again on import. `ReadBack` is the trip
of an id through `static_cast<int>` and a double, as in `Table`. `Foreign` are arrays that no
export wrote. An entry without a numeric id gets its place in the array, counted from 0 over all entries
(`Serializer.cpp:51-53`); "sequential ids starting from 0" (`Serializer.h:87-88`) could also mean the entries
without one, and the model follows the code. The JSON text of NaN is JsonPro's, so no payload is NaN. `job` is the import under way, with what its table held before.

### Record and QueryEngine

A record's data is a function from field names to typed values; a string is its rank, and numbers count in halves. NaN is a type of its own that `isNumber()` takes for a
number: a DOUBLE column accepts it (`Record.cpp:107-108`), no comparison with it holds, and a sum it entered stays NaN.
Infinities and the rounding of sums are not modelled.
`validate` gives the verdict on the first column that is not in order. A query is `Ask`, then one
action per record (`Skip`, `Select`, `Count`, `Sum`, `Compare`), `NextPage`, `ScanEnds`,
`finishSelect` with the sort, and `TakeAnswer`. A result names its records by position, as
the code holds pointers into the pages. `Sorts` is what the standard says of `std::sort`: an ordered permutation,
if the comparator is a strict weak order on the records. If it is none, the behaviour is undefined: the query is then in
the phase `"undefined"`, in which nothing more happens.

### Regression tools

`Regression` is one run of either program (`tool`) on a directory (`world`) and a command line (`argv`), in
the order of `main()`: the commands, or `ChooseFiles`, `Resolve`, `Load`, one `PrintEntry` per
benchmark, `EndRegression`, `printSummary`, `exportJson`, `exportMarkdown`; every `throw` leads to the
`catch` and the exit code 1. The operations that the tools do not share come from
`GoogleSuite` and `CustomSuite`. A name is a sequence of tokens with a width, a place in the alphabet and a first letter; a
version tag is what it parses to; a line of the terminal is its kind and its width in columns. Times are whole
nanoseconds below one second (`MAX_NS`), so the branch of `formatDuration` for seconds (`helpers.h:705`) is not reached. `Sorted` is stable, as `std::sort` of libstdc++ is up to sixteen names; only
names that differ in nothing but case could tell the difference. Wording and colours are left out.

Four places where the properties of the tools make an exception, each for what the code does there:
`printRegression()` starts with the group `" "` and the custom tool with an empty operation, so a benchmark that
really has one of these is taken for the first row's predecessor (`Unnamed`); a label wider than its column is
never cut (`LabelsFit`); a change of ten million per cent is wider than its own (`TooWide`); and `?` groups
the empty name and the names that begin with it. An id whose first character is no letter, such as `[81]` of a benchmark that begins with
a digit, is shown by `methods` but taken for a name when it is given (`looksLikeMethodId`, `helpers.h:337-346`), although
`regression/google/README.md:88-92` says that an id shown can be given instead of the name: `ListingIsFaithful` speaks of every
word of the command lines that the tool does take for the id (`ReadsAs`), and a run has such names and words.

## 3. Runs

| Run | Instance | Shows |
|---|---|---|
| `wal` | `MCWriteAheadLog`, `WAL.cfg` | `TypeOK`, `IndexMatchesFile`, `AckedOnDisk`, `AckedVisible`, `AtMostOneGhost`, the refinement `DurableLogSpec` and the liveness `CallsReturn`, under crashes, power loss, short reads and every failing call |
| `wal_truncated_is_gone` | `WALTruncatedIsGone.cfg` | violation: `truncateFrom(lastIndex() + 1)` leaves the entry of a failed append |
| `wal_short_read` | `WALShortRead.cfg` | violation of `OpenKeepsConfirmed`: a short read in `open()` costs confirmed entries |
| `files` | `MCFiles`, `Files.cfg` | of whole files `TypeOK`, `PathIsWhole`, `ReadNeverMixes` and the refinement `RegisterSpec`; of slot files and the page cache `CacheTypeOK`, `LatestHeld`, `FetchSeesLatest`, `OnlyOverflowDropsDirty` |
| `cache_overflow` | `StorageEngine`, `CacheOverflow.cfg` | violation of `DirtyNeverDropped`: a put into a full cache drops a dirty page without a write |
| `table` | `Table`, `Table.cfg` | `TypeOK`, `IndicesAgree`, `PageIdsBelowCounter`, the refinement `RecordMapSpec`, and, also under loads into a table in use, `PagesWithinCapacity` |
| `database` | `MCDatabase`, `Database.cfg` | `TypeOK`, `Ownership`, `LookupsAgree`, and the refinement `CatalogSpec` |
| `database_load` | `DatabaseLoad.cfg` | violation of `LoadAllOrNothing`: a file without `__db_name__` costs the live object its tables |
| `engine` | `MCEngine`, `Engine.cfg` | of the parallel calls `PoolTypeOK`, `OneTaskPerTable`, the refinement `FanOutSpec`, the liveness `CallsReturn`; of transfers `TransferTypeOK`, `ImportIsPrefix`, `RoundTrip`, the liveness `ImportEnds`; of queries `QueryTypeOK`, `AnswerIsRight`, `SortIsDefined`, the liveness `QueryEnds` |
| `parallel_throw` | `Concurrency`, `ParallelThrow.cfg` | violation of `CallWaitsForAll`: a call ends with the exception of one task while others wait or run |
| `query_total` | `MCQueryEngine`, `QueryTotal.cfg` | violation of `TotalIsBeforeLimit`: `totalMatched` stops at the limit |
| `regression` | `MCRegression`, `Regression.cfg` | `TypeOK`, `ReportIsFaithful`, `TablesAreWhole`, `ListingIsFaithful` |

A run marked violation states what a comment says, and TLC finds
a behaviour of the code that contradicts it; `PROJECT.json` quotes both sides under
"findings". Deadlock is not looked for where the model may stop: a run of a regression tool ends, the
program may stop calling the parallel operations, a query that is lost in `std::sort` has no next step, and a database whose
bounds of ids and leaks are used up may have no further call.

**What the code does and a comment does not say.** These were met while modelling and
have no run of their own; where a property meets one of them, it is stated of the rest.

- `include/MiniDB/Storage/WriteAheadLog.h:115` calls `lastIndex()` the "last durable" index; after an
  `open()` it counts an entry whose `fsync` failed and that a power loss may still take.
- `writeSlot` has no `fsync`: a flush that returned OK may be lost, or torn, by a power loss.
- `Table::deserialize` on a table in use appends pages and lowers `nextPageId_`
  (`Table.cpp:268`); two pages then share an id.
- An id from 2^31 on does not survive the trip through JSON (`Record.cpp:130`, `Serializer.cpp:38`).
- `QueryEngine.cpp:243-246` calls the `std::sort` of `sortResults` correct; with a column that some records miss, with values of
  different types outside the schema, or with a NaN its comparator is no order. `SortIsDefined` says exactly when.
- `Table::fromJson` on a Table that a database owns changes the name and the id under which the database keeps it
  (`Table.cpp:242-243`).
- An INT column accepts 2^63, as `(double)INT64_MAX` rounds up to it (`Record.cpp:103`).
- `Json::parse` in `Serializer` throws, and its callers get the exception and no `PARSE_ERROR`.
- The id of a dropped table may be given again after a save and a load (`Database.cpp:200`).
- `getCns` of the custom tool ignores the suite (`regression/custom/support/helpers.h:166`): where two suites
  have the same operation and tier, both rows show the current time of the first. `ReportIsFaithful` says so: the first
  entry with the operation and the iterations answers.
- `regression/google/README.md:88-92`: an id that `methods` shows can be given instead of the name; not where the name begins
  with no letter (`helpers.h:337-346`).
- In both tools a benchmark that the current side lacks reads as 0 ns and counts as faster by infinity per cent, and one
  that took 0 ns in the baseline counts as a tie.
- A folder such as `v2.0.0-rc` is listed, and may be the latest, but cannot be named as a comparison's version; one that starts with
  `v` and does not parse makes `list`, `methods` and the search for the latest end with an error.
- A change of ten million per cent or more is wider than its column. `TablesAreWhole` excepts that row.
- The reports are always `regression_results.md` and `.json`; `README.md:372` describes names with versions.

**Bounds and why they are enough.**

- Log: `MaxIndex` 2 entries; two payloads of one cell and one of two, of which the long one may be read short. Two lengths are
  what a long failed frame overwritten by a short one needs, two cells what a torn frame needs, and two payloads of one length what a
  frame exactly in the place of another needs. Nothing relates entries that are not neighbours, so two give all there is to see of order.
  The passing run has one term; that `lastTerm` is right among several is what the theorem `IndexCorrect` adds.
  Failed appends, reopenings, truncations and crashes are unbounded in number.
- Page cache: two pages and a cache of one, so that every second load or insertion evicts or overflows; the files of two pages
  share nothing else. Two contents tell old from new, `big` never fits its slot.
- Files: two contents of one and two cells, so that a short one follows a longer `path.tmp` and a
  longer one is cut anywhere; five inodes are as many as the two names, on disk and in
  memory, and the reader can hold at a time. Saves, reads, failures and crashes are unbounded in number.
- Table: two ids, pages of two records, two pages. With deletions the two
  ids fill both pages; a third page or id repeats what the second shows. Two valid data tell an
  update from the original. `IntSpan` 4 and `IdSpan` 16 stand for 2^31 and 2^64 and keep
  their order.
- Database: two objects (what one does to another needs two), two names, at most two tables in each, two contents,
  ids up to `MaxId` 2 so that an id is left behind by a drop; `HeapSize` 3 addresses, so that a load of one table, or of two into
  an object of one, runs beside live tables, and freed addresses are used again at once. One change of a Table (`MaxChanges`), of its content, name or id, is what
  it takes to set an object adrift; the calls after it are unbounded. One load in a behaviour leaks (`NoneLeaked`), as leaked tables only take addresses
  away.
- Parallel calls: three tables for two workers, so that a task waits; three calls, so that tasks left
  behind by one meet the next; two failing Statuses, so that the last can differ from the first;
  one operation that fails and one that cannot.
- Serializer: two tables, ids 0, 2 and 6 with `IntSpan` 4 (6 comes back as another id), at most two records
  before the export (`MaxHeld`), foreign arrays of two entries: a good one before a bad one, entries without a number, and
  an id that collides with a place.
- Queries: three records on pages of two, two fields, three schemas; values that differ, tie, are negative, have a fraction
  (an INT column rejects it), are NaN, or are of another type; limits 0 and 2.
- Regression tools: four snapshots for each tool with equal, slower, faster, new and missing benchmarks, names that share letters and
  groups or begin with a digit, three tiers; directories that are missing, empty, lack a snapshot, or hold a broken or foreign one; version
  1.10.0 beside 1.9.0; and every form of the command line that `main()` tells apart.
- `MaxPages`, `MaxIndex`, `MaxId`, `MaxChanges`, `HeapSize`, `MaxCalls`, `MaxHeld` and `MaxRecords` are bounds of the
  models and stand in the guards of the actions that would pass them.

**Fairness.** `wal`: weak fairness of the scan and of the write
loop making progress. `engine`: of the loop of an import and of the scan of a query. Each is a loop of one thread over calls that
return; no lock, no callback and no other thread can hold it. For the parallel calls, of the caller's loops, and of each worker
starting the next task and ending its task: a thread of the pool sleeps only while the queue is empty,
and a task is one of the finite loops above. A failing call is never assumed, nor is any call of the
program's.

## 4. Proofs

Every theorem is for all values of the constants its module's assumption admits: any number of
pages, names, tables, objects, contents and sizes. An assumption is evaluated by TLC in each run of the module
it stands in, and says of the constants what the code takes for granted:

| Assumption | Says |
|---|---|
| `WALAssumption`, `ConcurrencyAssumption` | the types of the constants; which frames may be read short is any set |
| `SlotAssumption`, `EngineAssumption` | "no file" and "torn" are no contents; the cache holds at least one page |
| `AtomicFileAssumption` | sizes are natural numbers, at most one content is empty, the marker `Nothing` is none of the values |
| `TableAssumption` | ids are below `IdSpan`, at least twice `IntSpan`, `Dead` is no record and `Garbled` no map, pages hold at least one record |
| `DatabaseAssumption` | a new table's content is a content; the markers `Gone`, `NoFile` and `Lost` are none of the data |
| `SerializerAssumption` | ids are below `IdSpan`, at least twice `IntSpan`, and no array is longer than that; `NoId`, `Text` and `Absent` are no ids and no tables |
| `BenchmarksAssumption` | widths and places in the alphabet are natural numbers; the order of names looks at first characters first; a letter is a token and not `?`; a folder's version has its parts, and two folders differ in name |
| `RegressionAssumption` | `Live` is no folder; command lines are sequences of words; a world has finitely many folders, and each snapshot is there at most once and holds entries |
| `RecordAssumption`, `QueryAssumption` | a value has a type, NaN one of its own, and an integer rank; a schema numbers its columns; a query is one of the six kinds, and the limit of a select is a natural number; `NoQuery` is no query; pages hold at least one record |

One theorem group has a hypothesis of its own, which names a rule that the code does not enforce; the
run whose properties they state satisfies it:

- `IdsFitTheEnvelope` (`TableProofs`): ids are below 2^31. `toJson` passes them through `static_cast<int>`
  (`Record.cpp:130`); two larger ids may come back as one. The theorems that do not
  depend on what an id comes back as have no such hypothesis.

### The write-ahead log

| Theorem | Statement |
|---|---|
| `TypeCorrect` | `Spec => []TypeOK` |
| `IndexCorrect` | `Spec => []IndexMatchesFile` |
| `ConfirmedIsDurable` | `Spec => []AckedOnDisk`, of the entries that neither `truncateFrom` nor a short read took away |
| `ConfirmedIsVisible` | `Spec => []AckedVisible`, of the same entries |
| `FailedAppendsLeaveOneEntry` | `Spec => []AtMostOneGhost`, since the log was opened; over several reopens such entries add up |
| `ImplementsDurableLog` | `Spec => DurableLogSpec`: every step of the log, crashes, short reads and failed calls included, is one of `DurableLog` or a stutter |

The properties are not inductive alone. The invariant `IInv` joins `TypeOK` with: what the
scan has accepted so far is a run of contiguous frames from offset 0 up to `pos`; a loaded log's
`offsetIndex` is such a run up to `writeOffset`; an append in progress has put exactly its first
`written` cells behind it; and the confirmed entries form a run of contiguous frames that is
in `file` and in `synced` and a prefix of what is, or will be, loaded. The last part is
where the argument lies: `append` writes, and `open` cuts, only at or behind the
end of the accepted run, so neither touches a confirmed frame, and write-back copies
cells that agree already. Each action has one step, under it one step per part it can disturb; the lemmas
about frames, `Resize` and `WriteCells` come first.

`AtMostOneGhost` needs one part more, `GhostInv`: whatever stands behind the end of an open log is of
an index that the next `append` uses, or a lower one. An append that fails leaves cells of exactly that index,
and `open` and `truncateFrom` leave nothing there. Since the indices of contiguous frames go up by one, a scan can
take in at most one of what failed appends left. The refinement needs no new invariant: `IInv` makes the entries that
`entryAt` returns a sequence, an append that is confirmed extends it, and a restart returns to a
sequence that the confirmed entries are a prefix of. A short read cuts at the end of the accepted run, so it is a step of `DurableLog`
(`RecoverShort`), which allows it only where an entry that may be read short follows; with `ShortReads` empty the log loses nothing.

### Slot files and the page cache

| Theorem | Statement |
|---|---|
| `TypeCorrect` | `CacheSpec => []CacheTypeOK` |
| `NoUpdateIsLost` | `CacheSpec => []LatestHeld` |
| `FetchesAreLatest` | `CacheSpec => []FetchSeesLatest` |
| `DirtyPagesAreSaved` | `CacheSpec => OnlyOverflowDropsDirty` |

None has a hypothesis on the caller. `CacheTypeOK` holds the one fact about the structure of the cache that the rest needs, that no key has two
entries; `LatestHeld` and `FetchSeesLatest` are then inductive together. The order of the entries matters only for
which is dropped, so lemmas first turn `Put`, `Touched` and `Without` into changes of the set of entries, and every call is shown
to be safe (`Safe`): it leaves the slots of the other pages alone and drops at most a clean one of them, or a dirty one that it pushes
out of a full cache and that is no plain page any more; and of its own page it drops nothing unsaved.

### Whole files

| Theorem | Statement |
|---|---|
| `TypeCorrect` | `Spec => []TypeOK` |
| `PathStaysWhole` | `Spec => []PathIsWhole` |
| `ReadsDoNotMix` | `Spec => []ReadNeverMixes` |
| `SavesAreAtomic` | `Spec => RegisterSpec` |

`PathIsWhole` alone is lost by a rename of a half-written file or by a write to an inode that `path`
names. `IInv` adds: `path.tmp` shares its inode neither with `path`, in memory or on disk, nor with the reader; what
`path` names is whole *and synced*, so that neither a crash nor a write-back can take it; the saver's inode holds the first
`written` cells, and before the rename all of them, synced; the inode `readFile` has opened
stays whole whatever `path` names since. The refinement is then a case for each system call; two different
contents have different cells (this is what the assumption of one empty content is for).

### Table

| Theorem | Statement |
|---|---|
| `TypeCorrect` | `Spec => []TypeOK` |
| `PagesNeverOverflow` | `Spec => []PagesWithinCapacity` |
| `PageIdsStayBelow` | `Spec => []PageIdsBelowCounter` |
| `LookupsAndPagesAgree` | `IdsFitTheEnvelope`: `Spec => []IndicesAgree` |
| `ImplementsRecordMap` | `IdsFitTheEnvelope`: `Spec => RecordMapSpec` |

The first three come from `BaseInv`, which adds that the pages of the envelope keep within their
capacity, too, as a load makes them the table's. The other two come from `IndexInv`: the set of *spots* (a page and a place
in it that holds a live record) has no id twice; `index` leads from each id to the page its spot is
in, `pageIndex` from each page id to that page; and the same is true of the envelope, which moreover
stands for `savedMap`. That a page id is new follows from the counter being above all of them, which is
`PageIdsBelowCounter`. Compaction and every trip through JSON renumber the spots without making two of one, and an id below
2^31 comes back as itself. The refinement rests on the uniqueness of the map that a set of pages stands for:
what each call does to one spot, it does to one id of the map.

### Database

| Theorem | Statement |
|---|---|
| `TypeCorrect` | `Spec => []TypeOK` |
| `EveryTableHasOneOwner` | `Spec => []Ownership` |
| `IndicesFindEachTable` | `Spec => []LookupsAgree` |
| `ImplementsCatalog` | `Spec => CatalogSpec` |

`IInv` says of every usable object that it names no Table twice, and of one that is not adrift that both indices lead to each Table
of its list by its own name and id (`Agrees`); and of the heap that each Table is some one object's or leaked (`OwnerInv`). That the indices lead
to the owner of a name is what makes a drop on such an object delete exactly the Table it takes out of the list; on one adrift,
`dropTable` deletes the same Tables that it takes out, whichever they are, since both go by the *id* of the Table itself, and so
`Ownership` needs no exception. The file is only a list within `MAX_TABLES`: a load sets an object adrift exactly if a name or an id occurs
twice in it, and makes it whole otherwise. The ids a load finds have a largest one (the least-element argument on natural numbers), above
which `nextTableID_` is set. A Table that no object owns is one that a throwing load leaked, and `new` gives a free
address, so it aliases none.

### The parallel calls

| Theorem | Statement |
|---|---|
| `PoolTypes` | `PoolSpec => []PoolTypeOK` |
| `TablesAreNotShared` | `PoolSpec => []OneTaskPerTable` |
| `CallsFanOut` | `PoolSpec => FanOutSpec`: every step of the caller and the pool is one of `FanOut` or a stutter |

Its `PoolInv` (`PoolInvariance`) joins `PoolTypeOK` with: no two tasks of the call, queued or running, are for one
table; a task that has not ended has its future still pending, and in the first loop is for a table already passed; the
futures the first loop has not reached are pending; what the second loop has folded is the
last failure of the tables it has passed, each of which has a Status; and until a call throws
there are only tasks of the last call, with no pending future between calls. `OneTaskPerTable` follows from
the first and last parts. It is not inductive alone, since nothing in it stops a queued task from
being started beside a running one of the same table: that takes the barrier, which is the part about
pending futures. The same part gives the refinement: a task that ends decides a pending verdict
exactly once, and `Return` finds all of them decided. `FanOut` lets a call end with an exception (`Rethrow`) as soon as one verdict is one,
which is what `f.get()` does, whatever the others are doing.

### Serializer

| Theorem | Statement |
|---|---|
| `TypeCorrect` | `TransferSpec => []TransferTypeOK` |
| `ImportsAddPrefixes` | `TransferSpec => []ImportIsPrefix` |
| `ExportsComeBack` | `TransferSpec => []RoundTrip` |

The three follow from one `IInv`: tables hold accepted records only; each array of the file is a foreign one, or an
export of the table the history says (`Exported`); and an import under way has added a prefix of its array
(`AddsPrefix`), and, into an empty table from an export of plain ids, exactly the first records of that
table (`RestoresPrefix`). An export lists the records of a map in some order; that the order reaches each id once,
so that no two entries of one export collide, follows from its length being the number of ids (a surjection of a
finite set on one as large is injective). This is what makes every insert of such an import succeed.

### Queries

| Theorem | Statement |
|---|---|
| `TypeCorrect` | `QuerySpec => []QueryTypeOK` |
| `AnswersAreRight` | `QuerySpec => []AnswerIsRight`, of queries that answer |
| `SortsAreDefined` | `QuerySpec => []SortIsDefined`: when a sort may be undefined |

`IInv` joins three parts: every live record in the pages was accepted by `validate` (`TableInv`); what each place of a query's
life fixes of its scan and its result (`QueryInv`); and the result is `Right` about `Passed`, the wanted
records before the place of the scan, while a select has not reached its limit (`RightInv`). A step over a
wanted record adds one element to `Passed`, which all the others precede; a step over another one, or to
the next page, adds none; and past the last page `Passed` is all there is. A sort permutes what was
selected. What is lost in a sort is a set of wanted records whose comparator is no order (`LostInv`): since values of one type are ordered,
two of them compare and a third, of another type, compares with neither; and a record that passed `validate` has, in a column of the
schema, a value of the column's type unless it misses it or it is NaN, which is `SortsAreDefined`.

A sum is a fold over a set in an order that `CHOOSE` picks. `SumOverAdd`, that one element more adds its number whatever
the order, is proved by an induction that needs no induction theorem: a set of naturals that has a member has
a least one (`LeastElement`, from the library's well-founded strict inclusion of finite sets), so one that contains 0 and with each
`n` also `n + 1` is `Nat` (`AllNaturals`). It is applied to the sets of sizes up to which a function that takes
elements away one by one exists, does not depend on the first one, and agrees between a set and its subsets.

### Regression tools

| Theorem | Statement |
|---|---|
| `TypeCorrect` | `Spec => []TypeOK` |
| `ListingFaithful` | `Spec => []ListingIsFaithful` |
| `ReportFaithful` | `Spec => []ReportIsFaithful` |
| `TablesWhole` | `Spec => []TablesAreWhole` |

All four hold for any number of folders, benchmarks and names, for both tools at once. None of the properties is
inductive, since each speaks of a run's end, or of a list as a whole, and a run builds its lists one element a
step. The four invariants say what the lists are on the way:

- `LInv`: what `methods` has printed so far is, baseline by baseline, the numbered groups of the baselines
  before `pos`, and `listing` is the sorted list of this tool's folders, or the one that was named.
- `CInv`: in each phase of a comparison, the files are the ones that the command line or the newest
  folder gives; the filter is the words of the command line or what they were resolved to; what is loaded is
  exactly the entries asked for; row `k` is entry `k` with the time found for it, and there are `pos - 1` rows;
  the summary and the saved files are made of these rows.
- `TInv`: the table so far is whole, with each row in the table of its own group, and its last line is of the
  kind that fits the open group and the last row, so that any line that `printEntry` adds next may follow it.
- `YInv`: the few parts of the type that these do not give.

They rest on the operators. `InOrder` lists a finite set along a strict total order: each element has the place that
the number of those before it gives, and these places are all different and leave none out (a
counting argument on finite sets, `FS_` theorems of the library). From it follow that `Kept` keeps order and positions,
that `FirstSeen` has each name once, that `Sorted` is a permutation in which the names of one letter are next to each
other (this is where the assumption about first characters is used), and so that the place
`groupMethodsByLetter` gives a name is the number of those before it in its group, `PlaceOf`: a word
that the tool reads as an id that `methods` shows is resolved to the benchmark it was shown for (`IdResolves`). That `Precedes` is transitive takes the least position at
which two names differ; that `OldestFirst` is by version takes the lexical order of three numbers. The widths of lines come from
`DigitCount` and `formatDuration`, whose bounds are proved for every time below `MAX_NS`.

The folds in this component (`Join` over the command line, `Number` over the digits of an id) are the same
terms on both sides of what is proved, so no induction over them is needed.

### Only model-checked

Every invariant, action property and refinement that a passing run checks is proved, two of
the table under the hypothesis named above. What stays with TLC is liveness:
`CallsReturn` of the log and of the parallel calls, `ImportEnds`, `QueryEnds`. It needs `ENABLED` and fairness, which are outside
the prover's reach. The properties of the six runs marked violation are refuted.

What a recursive definition computes for every input would need an induction theorem that takes an operator, which the
provers cannot instantiate. Where a proof depends on such a value (the sum of a query, the width of a name), the induction is
done on a set of naturals, as said above.

## 5. Plan

All of the engine's components and both regression tools are modelled, and each property of a run
but the liveness is a theorem. What is left, in order:

1. A variant of `AtomicFile` with two savers of one path and their shared `path.tmp`.
2. Move construction and assignment of the log, the table and the page.
3. `std::sort` of more than sixteen names, which is not stable: `Sorted` as any ordered permutation.
4. Times of a second and more in the reports, and infinities in queries.

## 6. Not modelled

The libraries in submodules (their sources are not here), the Windows and `fstream` branches of the I/O
code, the object pool behind a page, allocation failure, the name and the dirty flag of a database, cache
statistics, and the wording and colours of the reports. Benchmarks, fuzzers, examples, packaging and tests are
no part of the engine. The Google-Benchmark and custom snapshots themselves are read, not produced.
