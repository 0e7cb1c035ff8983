# TLA+ models of OpenADS

OpenADS is a drop-in replacement for the Advantage Client Engine: a C++
library that opens DBF and ADT tables, their indexes and memos, in the process
of the application or through a server, and exports the ACE API. This directory
holds TLA+ modules that model its core, TLC configurations that check them on
small instances, and proofs that TLAPS checks.

Paths below are relative to the repository; `src/` is its library source.
Section 1 is the inventory, 2 the modules, 3 the runs, 4 the abstractions, 5
the proofs, 6 where the code differs from what its documents say, 7 what is
left out, 8 the plan.

## 1. The system

| Part | State it keeps | Operations | Interacts with |
|---|---|---|---|
| Tx (`engine/tx.cpp`) | before-images by (handle, record), appended keys, ordered operations, savepoint marks | note an image, note an append, create / release / truncate to a mark | filled by Table, drained by Connection, logs through TxLog |
| Connection (`session/connection.cpp`) | open tables, the Tx, nesting depth, the log | open, begin, commit, rollback, savepoints, recovery | calls Table and the drivers in loops that skip over failures |
| TxLog, LsnMap (`engine/tx_log.cpp`, `lsn_map.cpp`) | record file, next LSN, what is synced; applied LSN per record | append, group sync, read, truncate; flush, clear | written before a row is, replayed by `recover_orphan_tx_` |
| LockMgr (`engine/lock_mgr.cpp`, `platform/lock_*.cpp`) | acquisitions per byte offset; LockHandles in Table; byte ranges in the kernel | lock and unlock a record or the file, with a retry policy | ACE lock calls, appends, closing a table |
| Table (`engine/table.cpp`) | cursor state, record buffer, bound orders, filter | navigation, field writes, append, delete, pack, zap | drivers below, indexes beside, Tx above |
| Drivers (`drivers/cdx`, `ntx`, `adt`, `dbf_common`) | header, cached record count, read-ahead block, autoincrement | read, write, append, pop rows | one file shared by many handles and processes |
| Index drivers (`drivers/cdx`, `ntx`, `adi`) | B+tree pages, root, free list, cursor | seek, next, prev, insert, erase, flush | kept in step by `Table::sync_all_indexes_` |
| Memo stores (`drivers/fpt`, `dbt`, `adm`) | block file, cached next block | read, write | Table fields |
| Expressions, AOF, FTS (`engine/index_expr`, `aof_*`, `fts`) | bitmaps | evaluate | index keys, filters |
| Data dictionary (`engine/data_dict.cpp`) | objects and their texts, one copy per connection, two files | maintain, save, load | opening tables, RI |
| RI (`abi/ace_exports.cpp`) | a snapshot of the key of each parent handle | check and apply rules on write and delete | dictionary, handles of the connection |
| SQL (`sql/`, `sql_backend/`) | parse trees, foreign handles | execute | Table, other databases |
| ACE entry points (`abi/`) | handle registry, caches per remote table | the exported API | everything |
| Server (`network/server.cpp`) | sessions, their threads and copies of their sockets; table ids, one Table (and perhaps one ABI handle) per id | accept, one handler per opcode, list, kill, stop | Connection, Table, console |
| Remote client (`network/client.cpp`, remote branches of `ace_exports.cpp`) | cached row, prefetch queue, rows served without a round trip, record count | one request per call | the server's cursor |

What is hard about it, part by part, and the property that has to survive it:

* *Transactions.* Two unordered maps, a list of operations and savepoint marks
  describe one history from three sides; a rollback walks them with loops that
  swallow errors, while other connections append to the same files. Right
  means: everything of the transaction is undone, nothing else is, and index,
  buffer and cursor agree with the file afterwards.
* *Recovery.* It can itself be interrupted at any step and runs again from
  whatever it left. Right means: the next open ends in the rows before the
  transaction or after its commit, never between, and it ends.
* *Locks.* Three layers count the same lock in three ways. Right means: one
  owner at a time as the *clients* see it, no residue after an unlock, and a
  lock call that returns.
* *Shared files.* Each driver instance caches the record count, rows and the
  next memo block of a file that others write. Right means: with locks used as
  documented, no write is lost and no memo is overwritten.
* *Indexes.* Splits and erasures move separators, siblings and roots in pages
  that are cached and written later. Right means: the tree has the entries of
  the rows, in order, reachable by descent, and each answer is that of an
  ordered set.
* *Work areas.* Record, index cursor and filter sequence are three positions that
  calls keep in step by hand. Right means: one cursor on the line of the rows
  that are shown.
* *Dictionary and RI.* Rules are applied one after another on rows that are
  already written, from a copy of the dictionary another connection may have
  replaced. Right means: rows refer to rows; a call takes effect whole or not at all.
* *Remote cursors.* The client moves over prefetched rows while the server's
  cursor stays. Right means: nobody can tell.
* *Sessions.* Descriptors are copied between threads and reused by the system;
  stop joins threads under a mutex they need. Right means: nobody closes what
  is not his, a kill ends whom it names, and stop returns.

`PROJECT.json` lists all components with what is modelled of each, and the
hazards at their lines with the properties that would catch them going wrong.
Three hazards have no property because the code has no protection there that
a property of a passing run could state; their notes say so.

## 2. The modules

| Module | Models |
|---|---|
| `Tx` | the data structures of `class Tx` as pure operators |
| `TxConnection` (extends `Tx`) | transactions of a live connection over tables, work areas and indexes |
| `TxConnectionProofs` | its invariants, for every value of the constants |
| `TxRecovery` (extends `Tx`) | log, LSN map, recovery, crashes and power failures |
| `TxRecoveryProofs` | its invariants |
| `LockRanges` | byte offsets of the locks of every table type |
| `LockMgr` (extends `LockRanges`) | kernel, counts, LockHandles and clients |
| `LockService` | abstract: a lock has at most one owner |
| `LockMgrProofs` | that the ranges are disjoint, the inductive invariant of the lock manager, and that it implements `LockService` |
| `SharedTable` | several driver instances over one table and memo file |
| `SharedTableProofs` | that no write is lost and no memo overwritten |
| `CdxTree`, `NtxTree`, `AdiTree` | the pages of the three index drivers as pure operators: descent, split, erase, moves |
| `IndexTree` (instances of the three) | the indexes of one table: writes, searches, moves, flush, reopen, reindex |
| `OrderedIndex` | abstract: a set of entries per tag, walked in order |
| `WorkArea` | one work area: record order, index order, scopes, SET DELETED, AOF |
| `Browse` | abstract: a cursor on the line of the rows that are shown |
| `DataDict` | the dictionary: a copy per connection, the two files, the steps of a save |
| `RefIntegrity` (extends `DataDict`) | calls that apply the rules of the dictionary step by step |
| `Relations` | abstract: rows refer to rows, calls are whole, objects are what was asked for |
| `RefIntegrityProofs` | the inductive invariant of dictionary and rows, and that they implement `Relations` |
| `TableCursor` | the Table's cursor in physical order as pure operators |
| `PlainCursor` (extends `TableCursor`) | abstract: a table handle that asks the server every time |
| `RemoteCursor` (extends `TableCursor`) | a prefetching remote handle and the server's handlers |
| `RemoteCursorProofs` | that it implements `PlainCursor` |
| `Sessions` | accept, list, kill, end and stop of the server's sessions |
| `SessionsProofs` | where the misuse of a descriptor begins, and that stop ends every session |
| `LeastNumber` | smallest and largest elements of sets of numbers; induction over a set in a form the provers can use |
| `MC…` | instances: initial rows, symmetry, step sizes |

Four pairs of modules are an abstract specification and the detailed one that
implements it under a refinement mapping: `LockService`/`LockMgr`,
`OrderedIndex`/`IndexTree`, `Browse`/`WorkArea`, `Relations`/`RefIntegrity`,
and a fifth, `PlainCursor`/`RemoteCursor`, in which both sides are code.
TLC checks all five; `LockService`, `Relations` and `PlainCursor` are also proved.

### Tx and TxConnection

`tx` is the Tx object: `before` holds at most one image per key (the first
one), `appended` the keys of new rows, `ops` the ordered operations that
savepoints index into, `saves` the marks. A key names the *handle* (table and
generation), as in the code, so a table closed and opened again has new keys.

`rows` are the table files, one key column and the delete flag per row; `idx`
is the bound index as a set of pairs; `wa` is the work area (Table plus the
record count its driver knows). `RollbackTx` and `RollbackToSavepoint` enter a
rollback; each driver call of it is a step of its own (`RestoreImage`,
`RollbackAppend`, `SavepointAppend`, `UndoOp`), so that other connections'
appends fall in between, in any of the orders the unordered maps allow. The
`…Finish` action is the tail of the call. All other calls are one action each;
a field write includes the note in the Tx, the write of the whole buffer and
the index sync, because the code does all three before it returns.
`snap`, `marks` and `foreign` are history variables: no action reads them,
except for the bound on foreign appends.

### TxRecovery

One table, one connection, one transaction after another. Every write to a file
is a separate step: the log record of an update before the row, the append of
a row before its log record, the commit record and its sync, the flush of the
tables, the truncation of the log; and in the recovery the undo of an update,
the delete of an append, the abort record, the flush of the tables, the flush
of the LSN map, the truncation, the clearing of the map. `Crash` may happen
before each of them; `PowerLoss` also chooses per row between the written and
the flushed version and keeps a prefix of the log that contains the synced
part, perhaps with a torn record behind it. `ReadAll` stops at the first
torn record as the code does.

### LockRanges and LockMgr

`LockRanges` gives the byte range of each lock from the file base and record
number for the table types, and of the header lock that appends take. The bases are
constants: TLC runs with small ones, the proof (`RangesDisjoint` in `LockMgrProofs`) covers all that respect
`LockRangesAssumption`, the code's among them. `os` is what the kernel granted,
`held` the counts, `slot` the LockHandles (`real` or the empty `phantom`), `owned` what
the client's calls returned. One attempt of `lock_with_retry` is one step;
between attempts the call sleeps and other handles run. Appends and their
rollback are there because they take locks and, in a CDX table, take records away
(`Popped`; the other drivers mark them deleted).

A granted record is loaded before the call returns (`Finish`). Whether it loads
depends on `seen`, the number of records the handle's driver knows: the DBF drivers
read the number in the file again when a record is above it (`LooksAgain`), the
ADT driver does not, and only its own append or the next open tells it more.
A client can see that number (`AdsGetRecordCount`).

### SharedTable

`file` and `memo` are the two files; `drv[h]` is what one driver instance caches
(record count, the aligned read-ahead block of DBF tables, the next memo block);
`wa[h]` is the work area above it, whose buffer holds the *whole* row, so a
write of one field sends the others back too. A write of a field, the steps of an
append (lock the header, read the count, write the row, write the header), a memo
allocation, pack, zap, refresh, close and open are actions; record locks are those
of `LockService`. `truth` is the history of what the rows would be if each field
write had gone to the current row, `stored` that of the last memo of each row.

### CdxTree, NtxTree, AdiTree and IndexTree

The tree modules have the pages as records (entries, children, siblings, free
list) and the drivers' descents, splits, erasures and moves as operators.
`IndexTree` is the table above them: `WriteRow` is `Table::sync_all_indexes_`
(`table.cpp:196-226`), `Recreate` is `AdsCreateIndex61` on a tag that exists,
`Reindex` is `Table::reindex`, `Flush` and `Reopen` write and re-read the pages.
What a tag's instance caches, what is on file and what the headers say are
separate variables. `Freedoms` names the uses under which a driver is known to go wrong
(section 6); the run has none.

### WorkArea

The calls of one work area over a small table: top, bottom, skip, go, seek, order,
direction, scopes, SET DELETED, AdsSetAOF, writes, deletes, counts and key numbers.
`cur` is the Table's position, `cdx` that of the index cursor, `seqAt` that in the sequence
a filter installs. `Browse` sees the rows in walking order, which are shown, and
one cursor; `Line`, `Shown`, `Passing` and `Place` are the mapping. `lost` is the
history of calls after which a position must be sought again. `Daring` names what
careful programs do not do (section 6).

### DataDict and RefIntegrity

Each connection has a `copy` of the dictionary; every change saves all of it
through two temporary files and two renames, which are separate steps, and a
connection may die between them. `RefIntegrity` has two related tables over it:
a call sets fields (in the file at once), and on the write applies the rules found in its
copy, one rule per step, in any order of the map, on the handle the connection
has open. SQL statements and triggers are there as far as they change rows. `settled` is
the history of the rows when a call last ended. `Relations` is what a user relies on.

### TableCursor, PlainCursor and RemoteCursor

`TableCursor` has the four states of the cursor (before the first row, on a
row, past the end, in limbo) and the moves between them, with the filter's
hidden rows. `RemoteCursor` has the server's cursor and the client's
`RemoteTable`. Each API call is one action, because a client waits for the
answer and the cursor belongs to its session; the invisible part of
a call (settling, the lookahead walk there and back) is inside the action.
`PlainCursor` is what a client that did not announce the prefetch capability
sees, and `BehavesLikePlain` says that `RemoteCursor` implements it with the
application's position as refinement mapping: the server's cursor with
`consumed` rows added.

### Sessions

Descriptors are numbers that the system gives out again after a close.
`Server::sockets_` holds copies, so a thread may hold a number that now
means another connection or a table file. The accept thread, one
thread per session, the two administrators (a client on a management connection and
the web console) and the stop of the server are processes; a step is what a thread does
between two acquisitions of a mutex or two calls that can block. `stop` includes
the connection it makes to itself to wake the accept thread. `Daring` names the
moments at which administrators act without care (section 6); the run has one of them.

## 3. The runs

`tlc -config <cfg> <module>` reproduces each; the cfg is named
`<module>_<run>.cfg`.

| Run | Question | Bounds, and why they are enough |
|---|---|---|
| `savepoints` (`MCTxConnection`) | do partial and full rollbacks undo exactly what they promise? | two names, two live marks, three operations, two rows: one operation below, between and above two marks; a name can be reused |
| `rollback` (`MCTxConnection`) | does a full rollback leave rows, index, buffer and other connections' rows right? | two operations, nested begin, a handle closed and reopened, one foreign append, three rows: the foreign row can be above, between or below appended ones |
| `crash` (`MCTxRecovery`) | does recovery restore, keep commits, delete appends and end; does an acknowledged commit survive a power failure? | two transactions (the second meets what the first recovery left) of two operations on up to three rows; `MaxCrashes` = 3 is spent on process deaths (1 each) and power failures (2 each): in the transaction, in the recovery, in the recovery of the recovery |
| `discipline` (`MCLockMgr`) | do the lock layers agree and implement the lock service? | three handles (holder, waiter, third party), file and three records of an ADT table: one from the start, one another handle appends, and one more so that a handle that lagged behind catches up; appends in and outside transactions; handles are interchangeable (`SYMMETRY`) |
| `returns` (`MCLockMgr`) | with undisciplined clients: do the LockHandles stay true, does every call return? | two handles, file and one record of a CDX table (whose rollback takes it away again), counts up to two, three attempts |
| `prefetch` (`MCRemoteCursor`) | can an application tell that rows are prefetched? | up to five rows, lookahead of two (the queue empties and refills, also over the end of the table), moves of up to two rows either way |
| `shared` (`MCSharedTable`) | is a write lost, a memo overwritten, a locked row stale? | two handles, the three table types, two fields (the other one is what a stale buffer sends back), blocks of two rows, memos that fit one block and that need two, three writes |
| `index` (`MCIndexTree`) | is each tree an ordered set, in memory and on file? | three drivers, CDX files of one and two tags, two entries per page: each write can split a leaf, a branch and the root; how many rows and writes each driver gets is in `MCIndexTree` |
| `queries` (`MCWorkArea`) | is a work area one cursor on the line of shown rows? | tables of 0, 4 and 3 rows over three values, among them duplicates and deleted rows, six calls: set up an order, scope or filter, walk off an end and back |
| `integrity` (`MCRefIntegrity`) | do rows refer to rows, are calls whole, is the dictionary what was asked for? | parent and child, two connections, two keys, three texts of rules, two rows, two open handles, two table calls or dictionary changes together (opens, moves, field writes are free) |
| `server` (`MCSessions`) | who closes what, whom does a kill end, does stop return? | two sessions of which one manages, the web console, four numbers (a number closed is given out again at once), two requests; clients open tables while a session is ended (`Daring`), so a killer may close a table file instead of a socket |
| `lost_child` (`MCIndexTree`) | the one run that expects a violation: section 6 | an NTX index of up to seven rows inserted out of order |

Each property of a passing run has a mutant in `PROJECT.json`: a plausible mistake
in one operator under which TLC finds that property violated, so none holds
for lack of cases. The definitions marked "Mutant" in the modules are those
mistakes.

What the passing runs show, in the terms of the code:

* `RollbackRestores`, `SavepointRestores`, `MarksNested`: without unique
  indexes and with the handles open, a rollback restores every row whatever
  order the maps are walked in; the marks stay nested through reuse and release.
* `BufferCurrent`, `IndexExact`, `ForeignKept` hold for full rollbacks. With
  savepoints they do not (section 6). `RollbackRestores` was also checked with
  two tables (`Tables = {t1, t2}`, `InitRows <- TwoTables`, no index: 3.15 million states).
* `RecoveryRestores`, `CommittedKept`, `AppendsDeleted`: recovery is right for
  rows written once by a transaction that found an empty LSN map, through any
  interruption. The two exceptions are real (section 6).
* `AcknowledgedKept`: the flush before the return of commit is what makes a
  commit durable, not the log.
* `KernelAgrees` holds even for undisciplined clients: the LockHandle always
  tells what the kernel granted; it is the counts and the clients' view that drift.
* `ImplementsService`: under the rules of section 5 the lock calls are
  the lock service.
* `QueueNeverStale`, `BehavesLikePlain`: if seeks, appends and flushes come
  only with nothing to settle, the prefetching handle cannot be told from a
  plain one, in moves, writes and answers.
* `NoLostWrite`, `LockedIsCurrent`, `MemoKept`: clients that lock a row, refresh it and
  then write it lose nothing; taking the lock alone is not enough (section 6). One
  writer of memos never overwrites one.
* `EntriesInOrder`, `FileIsTree`, `ImplementsOrderedIndex`: for distinct keys, the three
  drivers keep a tree that is an ordered set, on file after each flush. ADI and NTX rows are
  written once in the run, because their updates go wrong (section 6).
* `FilterIsCondition`, `ImplementsBrowse`: a filter has the rows of its condition,
  and a program that moves by the rules of `Dares` sees one cursor.
* `ReferencesKept`, `SnapshotTrue`, `ImplementsRelations`: careful connections keep
  references, whole calls and their objects, while processes die between two steps.
* `OnlyKillsStray`: the number a kill takes may be closed and given out again before it is
  used, and the run lets that happen: in it a killer closes another session's table file.
  The damage begins nowhere else: not on the accept thread, in the stop or in a session nobody
  ended. With all phrases of `Daring` and three requests TLC found the same (15,332,781
  states).
* `KillHitsTarget`, `StoppedMeansEnded`, `KilledSessionEnds`, `StopReturns`: a kill ends
  whom it names and the session ends wherever it was, also when the number went to a table
  file; stop leaves no thread. For this the code needs administrators who
  do not kill while sessions come or go (section 6).

Some definitions stay in the modules although no run lists them, because a
theorem or a reader uses them: `TypeOK` of `SharedTable` (proved), of `IndexTree` and of
`WorkArea`, and the properties of section 6 (`OwnSocketOnly` and others).

### Fairness

Three specifications assume that something happens. `FairSpec` of `TxRecovery` has weak
fairness on the steps of a call that was entered and of the recovery: they run
in one thread that waits for nobody, and only a crash (bounded by
`MaxCrashes`) stops them. `FairSpec` of `LockMgr` has weak fairness on the
attempts of a lock call: the call sleeps for a fixed time and wakes up. No
fairness is assumed of applications, of other clients or of unlocks, so
`LockReturns` holds although a lock may never be released: the attempts are
counted. `RecoveryEnds` is a leads-to to `idle` or `closed`: an interrupted
recovery is closed and has no duty to be opened again. `FairSpec` of `Sessions` has weak
fairness on each thread of the server, which runs whenever it is not blocked, and on
clients hanging up *while the server stops*: `stop()` joins sessions that wait in
`recv` and does not wake them, so `StopReturns` is only true of clients that leave.
Nothing obliges a client to leave a server that does not stop.

### Deadlock checking

`savepoints`, `rollback`, `crash`, `discipline`, `returns`, `prefetch` and
`shared` check it: their systems can always make a step. It is off where the model may stop:
in `index`, `queries` and `integrity` when the bounded calls are used up, in
`server` when the server has stopped and all clients are gone.

## 4. Abstractions common to the models

* A row is one value and the delete flag (two fields in `SharedTable`, a key and a
  value in `WorkArea`); field types, conversions and null flags are left out.
* Errors of the operating system (disk full, read errors) are left out except
  where a loop reacts to a failure that the model can produce (a refused
  unique key, a record past the end).
* Counters are bounded by the constants marked "bound" in each module; no guard
  but a bound is added to the code's, except the rules for clients below.
* What a client must not do for the code to be right is a constant of its own
  (`Discipline`'s four flags, `Liberties`, `RefreshAfterLock`, `SharedMaintenance`,
  `MemoWriters`, `Freedoms`, `Daring`). The runs show what holds under the rule; setting
  the constant shows what happens without it (section 6). A rule is never a guard of the code.
* Page sizes, block sizes and lock bases are constants, so that small instances
  reach the cases and the proofs cover the code's values.

## 5. Proofs

`tlapm <module>.tla` checks each of `LockMgrProofs`, `TxConnectionProofs`,
`TxRecoveryProofs`, `SharedTableProofs`, `RemoteCursorProofs`, `SessionsProofs`,
`RefIntegrityProofs` and `LeastNumber`; no step is left out. All theorems hold for every value of the
constants that satisfies the module's `…Assumption`, which TLC evaluates on the runs. The
bounds are constants too, so a theorem is about any number of rows, operations,
transactions and crashes. Hypotheses beyond the assumptions are in the statements; each
was needed, and TLC's counterexample without it is in section 6 or named here.

| Module | Theorem | Property | Under |
|---|---|---|---|
| `LockMgrProofs` | `RangesDisjoint` | | |
| | `TypeCorrect`, `HandlesTrue`, `MutualExclusion`, `NothingLingers`, `Refinement` | `TypeOK`, `KernelAgrees`, `Exclusive`, `UnlockForgets`, `ImplementsService` | `Discipline` |
| `TxConnectionProofs` | `TypeCorrect`, `MarksStayNested` | `TypeOK`, `MarksNested` | |
| | `RollbackUndoes` | `RollbackRestores` | `Unique = FALSE` |
| | `SavepointsUndo` | `SavepointRestores` | `MaxOpens = 1` |
| | `BuffersAreCurrent`, `IndexIsExact`, `ForeignRowsStay` | `BufferCurrent`, `IndexExact`, `ForeignKept` | `Names = {}` |
| `TxRecoveryProofs` | `TypeCorrect`, `AcknowledgedIsKept`, `CommittedIsNeverUndone`, `AppendsAreDeleted`, `RecoveryRestoresRows` | `TypeOK`, `AcknowledgedKept`, `CommittedKept`, `AppendsDeleted`, `RecoveryRestores` | |
| `SharedTableProofs` | `TypeCorrect` | `TypeOK` | |
| | `NoWriteIsLost`, `LockedRowsAreCurrent` | `NoLostWrite`, `LockedIsCurrent` | `Careful` |
| | `MemosAreKept` | `MemoKept` (FPT, ADM) | `OneWriter` |
| `RemoteCursorProofs` | `TypeCorrect` | `TypeOK` | |
| | `QueueIsFresh`, `Refinement` | `QueueNeverStale`, `BehavesLikePlain` | `Careful` |
| `SessionsProofs` | `StraysFromKills`, `StopEndsAll` | `OnlyKillsStray`, `StoppedMeansEnded` | |
| `RefIntegrityProofs` | `TypeCorrect`, `NoOrphans`, `SnapshotsTrue` | `TypeOK`, `ReferencesKept`, `SnapshotTrue` | `Careful` |
| | `PromisesKept` | `ImplementsRelations` | `Careful`, `Superseded = {}` |

Every proof has the same plan: the invariant that the runs check is not
inductive, so it is strengthened; `Init` implies the strengthening; each action
keeps it, in one step per action and a lemma per part an action can disturb; the property follows.
TLC checked each strengthening before it was proved.

* **Locks.** `RangesDisjoint`: for every table type and two records, the ranges of
  the records, of the file lock and of the header are pairwise disjoint unless they are the same
  record; `LockRangesAssumption` says the bases leave room for the record numbers.
  `Exclusive` speaks of `owned` only, and says nothing of a handle
  whose count or LockHandle has drifted. `IInv` adds that the three layers agree
  lock by lock (`LayersAgree`), that a call in progress is after a lock its
  handle does not have (`WaitsForNew`, so that the counted path never runs),
  that the kernel grants a lock once (`KernelExclusive`), that locks are on
  records that exist (`LocksExist`, so that an append finds its record free), that
  an ADT handle waits only for records its driver has seen (`WaitsForSeen`, so
  that they load) and that no rollback of a CDX table is pending (`NothingFresh`). `OverlapIsSame` turns byte ranges into locks by
  `RangesDisjoint`. `Discipline`: clients do not lock what they own
  (`Relock = FALSE`) and lock records that exist (`Strays = FALSE`); on an ADT table
  they lock records their own handle counts (`Unseen = FALSE`), on a CDX
  table they do not roll back appends (`Rollbacks = FALSE`).
* **Transactions.** `Shape` (types, bounds, `MarksNested`) is inductive without hypotheses. The
  full rollback needs `RInv`: each image is in the file's range and old (`ImagesInFile`,
  `ImagesAreOld`), each appended key is above the rows the transaction found and
  below what has grown since (`AppendedAbove`, `Grown`), each row that differs has an
  image or is an append (`OldRows`, `NewRows`). The order of the two maps does not occur in
  it, which is why every order is right. Savepoints need `MInv`: `GoesBack` says what the
  rows become if the operations above a mark are undone from the newest down, and
  `Rewinds` that this is the rows at the mark, for every mark at once; a release or a reuse of
  a name removes a conjunct, an operation extends all. `Exact` relates buffer, index and rows.
  The hypotheses are where the code goes wrong: a unique index stops a rollback half
  way; a handle reopened inside a transaction has operations that are
  skipped; a rollback to a savepoint writes below the buffer and the index and keeps appended keys.
* **Recovery.** No hypothesis: the properties carry their own scope (rows
  written once, an LSN map found empty). The log, the Tx object, the running rollback and
  the running recovery each tell what is left to undo (`LogTells`,
  `TxTells`, `RollbackTells`, `RecoveryTells`); a crash turns the first three into the last,
  a power failure keeps a prefix of the log (`LogWhole`: the part that counts is synced).
  `LogInOrder` (LSNs grow along the readable log) is what the map's comparison rests on.
* **Shared tables.** The danger is a cached count that runs ahead of the file, and
  a buffer that is older than it. `CountsBehind` bounds the first (only the holder of
  the header lock may be ahead, by one: `HeaderHeld`), `FreshIsTrue` the second;
  `RowsTrue`, `TruthOnFile` and `TruthToAppend` tie rows to the history, also in the middle of a pack
  (`PackAlone`). `Careful` is `RefreshAfterLock` and no pack or zap beside others. Memos need
  only `NextBlockKnown` and `MemosWhole`, with one storing handle and no other care. That
  a DBT memo is read back whole stays with TLC: the reader scans for an end mark and is
  a recursive definition.
* **Remote cursor.** `Fits`: the rows in debt, the cached row and the queue are the rows that
  follow the server's cursor, in this order, and a known count is the count. From it the queue is
  fresh and each call maps to a call of `PlainCursor` or a stutter. `Careful`: no filter,
  and no seek, append or flush on a debt.
* **Sessions.** Neither theorem has a hypothesis on what clients and administrators dare.
  The invariant of `StraysFromKills` holds until a call goes astray, and nothing is claimed
  after that. Until then `Threads` says what the place of each thread implies, `Newcomers`
  that a connection is in the backlog, with the accept thread or with its session and only
  one of them, and `NumbersStand` that the number of a session that was not ended stands for
  its connection. So a step that goes astray (`StrayBy`) is of a session that was ended or
  closes a number that was taken. Not proved: `KillHitsTarget`, which depends on when the
  list changes and stays with TLC.
* **Dictionary and referential integrity.** The three invariants speak of states in which no
  call is under way, so they say nothing of the steps in between. `IInv` has two parts.
  `CopiesInv` and `FilesInv` are about the dictionary: every copy is `Sound`, the one that
  saves is `Good` (one parent per child, texts of the right kind), the temporary files are those of
  the saver, and the two files together are those of one good copy, but between the renames,
  when one is of the old and the other of the new. `Sound` is weaker than `Good`
  because a connection may load just then and find a text of another kind under a
  user's name. `Shape`, `Hands`, `Settled` and `Busy` are about the rows. `settled` is what
  the rows were before the call; `Busy` says how far the call has come: a field
  is changed and not written (`Editing`), a row is written and some rules are done
  (`Acting`), and `Progress` says which: the tables of the rules that are done are what the rules
  make of the settled rows (`TablesMade`), those of the rest are still settled. Rules run in
  any order, so `TablesMade` speaks of the set of rules that are done and never of a
  sequence. `OneMore` is the step: a table that several rules name is what the first of them
  made it and no later one changes it; it needs that no rule refuses after
  another acted (`Unmixed`) and that no rule acts on its own table or on rows that others refer to
  (`Unchained`). The code looks at neither; both are the rules for clients
  "rules that refuse and act" and "a chain of rules" of section 6.
  `Holds` - rows refer to rows - follows for the new rows when the last rule is done. `Careful` is
  `Daring = {}`, but properties of tables may be set (`RulesStay`: no rule changes with them);
  the run leaves those out, because with them it has 1,298,030 states and takes too long.
* **`Relations`.** The rows are seen as the live ones of `settled`, the dictionary as what the files say,
  but from the first rename to the second as what the saver's copy says (`Kept`): the first
  rename is the moment of the change. A step inside a call is a stutter; its last step is
  `Rekey`, `Remove`, `Insert` or a refusal (`FinishWriteSeen`, `FinishDeleteSeen`, `Sql…Seen`,
  `RuleStepsSeen`). `Writing` is what the saver owes: its copy differs from the file by
  one object and what goes with it. `Superseded = {}`: a deletion that an INSTEAD OF DELETE trigger
  stops has applied its rules and leaves the row, which no step of `Relations` is (section 6); rows
  refer to rows all the same, so `NoOrphans` does without. That each save is one change is proved
  for one saver at a time on a fresh copy, the rules "two savers" and "change a stale copy".
* **`LeastNumber`.** The library states induction with operator parameters, which no
  prover here can instantiate. `SetInduction` states it for sets, proved by least
  counterexample from the finite-set theorems; `RemoteCursorProofs` and
  `SharedTableProofs` use it and its relatives for sequences sorted from sets.

Only model-checked, and why:

* the liveness properties `RecoveryEnds`, `LockReturns`, `KilledSessionEnds` and
  `StopReturns` (liveness under fairness and ENABLED are beyond the prover);
* everything about `IndexTree`: descents, walks and splits are recursive functions over trees
  of pages, and what they compute would take an induction over those trees;
* `FilterIsCondition`: what a filter means is a recursive function over nested conditions, and that
  bitmaps and comparisons agree is an induction over them;
* `ImplementsBrowse`: moves under a filter search the sequence built from its bitmap and
  moves in an order the walk of the tree, functions of the same kind (section 8);
* `KernelAgrees` for undisciplined clients; DBT memos.

## 6. Known divergences

In each row TLC finds a behaviour in which the code does not do what a document,
comment or test of the repository says, or does what no client would expect.
To see it, change the constants named in the cfg of the base run, and check the
property alone (`INVARIANT`, or `PROPERTY` where marked †). Only the first,
`lost_child`, is a run of its own, with the quotation under "findings".

| Base run and change | Violates | What happens |
|---|---|---|
| **`lost_child`** as it is | `EntriesInOrder` | splitting any NTX child but the last overwrites the rightmost one in the parent (`drivers/ntx/ntx_index.cpp:560`); README.md:664 |
| `rollback`: `Names = {s1}`, `MaxSaves = 1`, `MaxRows = 2`, `Indexed = {}`, `MaxOpens = 1` | `ForeignKept` | after a rollback to a savepoint popped a row, the full rollback pops another connection's row with that number (`engine/tx.cpp:45-51` keeps the key) |
| `rollback`: `Names = {s1}`, `MaxSaves = 1`, `MaxOpens = 1`, `MaxForeign = 0` | `IndexExact` | a rollback to a savepoint bypasses the indexes (`session/connection.cpp:350-362`); README.md:662-663 promises automatic sync |
| the same, `Indexed = {}` | `BufferCurrent` | it also leaves the buffer of a table touched only after the mark (`connection.cpp:363-371`), and the next write stores it |
| `rollback`: `Unique = TRUE`, `InitRows <- OneTable`, `MaxOps = 4`, `MaxOpens = 1`, `MaxForeign = 0` | `RollbackRestores` | with a unique index a rollback can stop half way (`connection.cpp:270`), depending on map order |
| `rollback`: `Indexed = {}`, `MaxRows = 2`, `MaxForeign = 0` | `RollbackRestoresAll` | rows changed through a handle closed since are skipped (`connection.cpp:271-272`) |
| `rollback` as it is | `IndexComplete` | a row whose key stays blank has no index entry (`engine/table.cpp:199`, `652-686`) |
| `rollback`: `Indexed = {}` | `AppendsTombstoned` | rolled-back appends are popped; README.md:696-697 says they are marked deleted |
| `crash`: `InitRows <- OneRow`, `MaxRows = 1`, `PowerFails = FALSE`, `MaxTxs = 1`, `MaxCrashes = 1` | `OrphanUndone` | a row written twice by an orphan is restored to its middle value (`connection.cpp:441-443`) |
| `crash`: `InitRows <- OneRow`, `MaxRows = 1`, `PowerFails = FALSE`, `MaxOps = 1` | `OrphanUndone` | a crash between truncating the log and clearing the map (`connection.cpp:490-495`) hides later images |
| `crash`: `InitRows <- OneRow`, `MaxRows = 2`, `PowerFails = FALSE`, `MaxOps = 1`, `MaxTxs = 1`, `MaxCrashes = 1` | `NoStrayRows` | a crash between an append and its record leaves a live row (`table.cpp:677-684`) |
| `crash`: `InitRows <- OneRow`, `MaxRows = 1`, `MaxOps = 1`, `MaxTxs = 1` | `OrphanUndone` | the log record of an update is not synced before the row is written (`table.cpp:238-241`) |
| `crash`: `InitRows <- OneRow`, `MaxRows = 1`, `MaxOps = 1` | `LogReadable` | later records go behind a torn one, where nothing reads them (`connection.cpp:393`, `tx_log.cpp:69`) |
| `discipline`: `Handles = {h1, h2}`, `Type = "Cdx"` | `Exclusive` | locks of popped records stay; two clients end up owning one record |
| `discipline`: `Handles = {h1, h2}`, `InitCount = 2`, `Relock = TRUE` | `Exclusive` | locking a table twice releases its kernel lock (`table.cpp:1167-1174`) |
| the same | `UnlockForgets` | two acquisitions, one unlock: the count stays (`lock_mgr.cpp:122-128`) |
| `discipline`: `Handles = {h1, h2}`, `Unseen = TRUE` | `UnlockForgets` | a record of an ADT table that another handle appended does not load (`drivers/adt/adt_driver.cpp:196`): the retry counts its lock again, the call fails with the lock in hand, and an unlock leaves a count |
| the same | `Exclusive` | after the handle's own append the count lets it lock that record without the kernel: two owners |
| `discipline`: `Handles = {h1, h2}` | `FileLockExcludes` | the file lock and record locks do not exclude each other; README.md:1417 |
| `discipline`: `Handles = {h1, h2}`, `Type = "Cdx"`, `Strays = TRUE` | `RetryOnlyContended` † | locking past the end is retried as contention and leaves the lock (`table.cpp:1132-1139`) |
| `discipline`: `Handles = {h1, h2}`, `OffsetLimit = 999` | `RetryOnlyContended` † | the ADT offsets are negative as `off_t` (`platform/lock_posix.cpp:42-47`) |
| `prefetch`: `MaxCount = 4`, `InitCount = 3`, `Liberties = {"seek"}` | `QueueNeverStale` | a seek keeps the queue and the debt of the position it left (`abi/ace_exports.cpp:9476-9491`); client.h:211-212 |
| the same, `{"append"}` | `QueueNeverStale` | so does an append (`ace_exports.cpp:5545-5553`) |
| the same, `{"flush"}` | `BehavesLikePlain` † | `AdsWriteRecord` drops the cached row without settling (`ace_exports.cpp:5574-5580`) |
| `prefetch`: `MaxCount = 4`, `InitCount = 3`, `Hidden = {2}` | `BehavesLikePlain` † | with an AOF the walk back counts hidden rows (`network/server.cpp:681-689`) |
| `shared`: `RefreshAfterLock = FALSE` | `LockLoadsRow` †, `NoLostWrite` | taking a record lock does not drop the read-ahead block: the owner sees, and writes back, an old row (`drivers/cdx/cdx_driver.cpp:143`, `table.cpp:1138`) |
| `shared`: `SharedMaintenance = TRUE` | `NoLostWrite` | pack and zap need no exclusive open and take no header lock (`table.cpp:983`) |
| `shared`: `MemoWriters = {h1, h2}`, `MaxWrites = 4` | `MemoKept` | two handles give out one memo block (`drivers/fpt/fpt_memo.cpp:91`) |
| `shared`: `Kinds = {"ntx"}`, `MemoSizes = {2}`, `MaxWrites = 4` | `MemoKept` | a DBT end mark that crosses a block is not found (`drivers/dbt/dbt_memo.cpp:70`) |
| `shared`: `Kinds = {"ntx"}` | `RefreshIsCurrent` | the NTX driver has no call that drops the block (`drivers/ntx/ntx_driver.h:11`) |
| `shared`: `Kinds = {"adt"}`, `HasAutoinc = TRUE`, `MemoWriters = {}`, `MaxWrites = 4` | `NumbersApart` | the autoincrement counter is written without the header lock (`cdx_driver.cpp:369`) |
| `index`: `Drivers = {"cdx"}`, `Freedoms = {"duplicates"}` | `EntriesInOrder` | descents go by key only; equal keys over several leaves are missed (`cdx_index.cpp:923`, `1025`) |
| `index`: `Drivers = {"cdx"}` | `RootIsOnFile` | the root is in the header before its pages are on file |
| `index`: `Drivers = {"ntx"}`, `Freedoms = {"updates"}` | `EntriesInOrder` | the slot of an erased entry is given out while it is in use |
| `index`: `Drivers = {"ntx"}`, `Freedoms = {"soft_past_end"}` | `ImplementsOrderedIndex` † | a soft seek past the last key answers with the last row |
| `index`: `Drivers = {"adi"}`, `Freedoms = {"updates"}` | `EntriesInOrder` | the old entry of an updated row stays |
| `index`: `Drivers = {"adi"}`, `RecLimit = 3` | `EntriesInOrder` | record numbers are cut to the width of the entry |
| `index`: `Drivers = {"adi"}`, `Freedoms = {"reindex"}` | `ImplementsOrderedIndex` † | an emptied leaf stays linked and a reindex breaks the links |
| `queries`: `Exprs <- Longer`, or `Excluded = {1}` | `FilterIsCondition` | a literal longer than the field is cut for the index (`aof_eval.cpp:213`); a conditional index answers for rows it has not |
| `server`: `PipeIgnored = FALSE` | `ClientEndsAlone` | a send to a client that left raises SIGPIPE, which only the web console has switched off (`server.cpp:2065`) |
| `integrity`: `Superseded = {p}` | `ImplementsRelations` † | with an INSTEAD OF DELETE trigger the rules have already been applied to the children |

What careful clients avoid in `queries`, `integrity` and `server` is a set of phrases:
`Daring = {"<phrase>"}` lets them do one of it. Each phrase of the tables below was
seen to violate the property beside it (the other constants as in the run).

| Run | Violates | Phrases |
|---|---|---|
| `queries` | `ImplementsBrowse` † | "bottom of a descending order" (`table.cpp:347`), "bottom with a top scope" (`:362`), "bottom of an empty filter" (with `Exprs <- NoneMatches`), "steps over hidden rows", "skip past a scope twice", "go under a filter", "go out of scope", "seek under a scope", "seek in a descending order", "count off the rows", "key number off the rows", "key number in a descending order", "filter with an order", "filter beside SET DELETED", "scope in a descending order", "skip after a change of order", "skip after a write" |
| `queries` | `FilterIsCondition` | "write under a filter" |
| `integrity` | `ImplementsRelations` † | "alias again", "a rule without its table", "die between the renames", "two savers", "change a stale copy", "write twice without a move", "write over another change", "touch a deleted row", "leave a change unwritten", "rules that refuse and act", "give up a row with a key in use"; "trust a cursor the rules moved" (`ace_exports.cpp:2361`: its snapshot is of the row before), with a third table that refers to the child, `MaxCalls = 4`, one connection and no change of the dictionary |
| `integrity` | `ReferencesKept` | "two at once", "stale rules", "filter a child", "write again after a refusal", "change a foreign key", "delete a changed row", "recall a row that refers to nothing", "update with SQL", "delete with SQL", "insert with SQL", "die in the middle"; with `MaxCalls = 3`, `MaxOpen = 1` also "a rule the rows break"; "a rule without its table" (`data_dict.cpp:2043`: a table goes, its rules stay); "a child with two parents", with a third table whose rows the child refers to as well (`:2214`, `ace_exports.cpp:7957`); "a chain of rules", with a rule of the parent on itself or a third table that refers to the child (`:2333`); "give up a row a trigger keeps", with `Superseded = {kid}` |
| `integrity` | `SnapshotTrue` | "change rules in the middle" |
| `server` | `OwnSocketOnly` (nothing goes astray at all; violated in the run itself) | "connect during a kill", "open a table during a kill", "kill while a number is taken" |
| `server` | `KillHitsTarget` | "leave during a kill", "two administrators at once", "kill from an old list" |
| `server` | `StopReturns` † | "stop during a kill", "list while the server stops" |
| `server` | `KilledSessionEnds` † | "connect during a kill", "kill while a number is taken", or both phrases about the stop together |

Where a document says otherwise:

* **Dictionary.** The comment of `save()` says "atomically replace"
  (`engine/data_dict.cpp:1782-1783`) and docs/en/data-dictionary.md that a crash in mid-save
  leaves the previous contents intact: there are two renames, of two files, and all
  connections use the same temporary names. "Implicit save on AdsDisconnect": it saves
  nothing, nor does `AdsDDSetTableProperty`. "Unknown rows are preserved on load":
  `load_` skips them.
* **RI.** README.md:711-714 says the engine enforces it on the server's side: SQL INSERT, UPDATE and
  DELETE apply no rule, nor do the requests of remote sessions (`server.cpp:1782`, `1854`). The snapshot of the parent key is
  not renewed after a write or an append; a refused insert stays in the file and a second write of it is
  accepted; a change of a child's key is not checked; cascades go one level deep; the scan
  for children uses the application's handle with its filter and scope, and moves it; the
  option words `cascade` and `restrict` fail to parse as numbers and mean RESTRICT.
* **Work area.** README says an unsupported filter returns AE_PARSE_ERROR: `AdsSetAOF`
  clears the filter and succeeds (`ace_exports.cpp:10044-10055`). `AdsSeekLast` on a local
  table is a hard `AdsSeek` (docs/wire-protocol.md:205). Selecting an order drops scopes and direction.
* **Server.** docs/en/service-deployment.md:12-15 says a stop drains connections:
  `stop()` joins them under `sessions_mu_` without waking them, so a session waiting in
  `recv` holds it until its client leaves, and one that lists sessions waits for
  ever (`server.cpp:300`). The test "M12.3 server stop() drops in-flight connection cleanly"
  (`network_server_test.cpp:849`) passes when the connection has ended first.
  An error of `accept` ends the accept thread with `running_` still true.
* **Remote tables.** docs/wire-protocol.md, 5.16 has lock requests: they are acknowledged
  only (`server.cpp:1357`). 5.19 says `SetOrder` 0 clears the order: it answers "bad index id". Navigation uses the engine's
  table without the order a client set through the ABI twin of the session. docs/known-issues.md:35-41 says
  prefetching is off, while it is on for clients that announce it (`server.cpp:895-907`).
* **Recovery.** README.md:1396 says committed transactions are rolled forward: there is no redo pass;
  the flush before the return of commit is what keeps them.

## 7. Not modelled

The components of `PROJECT.json` with status `not_modelled` give the reason each:
pure input/output or operating-system calls (sockets, TLS, platform files),
translations to foreign databases, pure functions with test vectors
(encryption, code pages), text parsing, bindings and vendored code. They are most of
the repository's lines: the SQL parser, the ABI's entry points that
only dispatch and convert, the HTTP console and its page, and the protocols of other
databases have no state of their own that interleaves or fails part way.

Of the parts that are modelled, left out are: shared locks (no API call takes
one), stored procedures, and free-table resolution of Connection; relations,
bookmarks and custom orders of Table; the SELECT executor and its cursors (`ace_exports.cpp`
13256-17062); index expressions and full-text search; permissions, links, procedures and
views of the dictionary, which are more objects in the same files; the second connection
a session of the server opens through the ABI for indexes and SQL; other sessions' writes under a remote
cursor; several connections of one directory over one log (every open of the
directory recovers the log, also under a live transaction, `connection.cpp:66`: there is no
protection a property could be about); group commit across threads.

## 8. Plan

Done: the core (transactions, recovery, locks, remote cursors), shared files, indexes, work
areas, dictionary and RI, sessions; proofs of the safety properties of all but indexes and
work areas, and of the refinements `LockService`, `PlainCursor` and `Relations`. Left:

1. `WorkArea`: a condition as a sequence of leaves instead of a nest of them would make
   `FilterIsCondition` a statement about one leaf, that key ranges and comparisons select the
   same rows, and provable; the code's evaluator is recursive, so this is a second model to compare.
2. `IndexTree`: the leaf operations of `CdxTree` as lemmas about sequences; the descent by
   set induction.
3. Several connections over one log; the SELECT executor over `WorkArea`.
