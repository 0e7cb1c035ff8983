----------------------------- MODULE TxRecovery -----------------------------
(***************************************************************************)
(* The write-ahead log (engine/tx_log.cpp), the LSN map (engine/           *)
(* lsn_map.cpp) and the recovery pass that Connection::open runs           *)
(* (session/connection.cpp), for one connection, one table and crashes at  *)
(* every step of a transaction, of its end and of the recovery itself.     *)
(*                                                                         *)
(* A crash of the process keeps what was written to the files.  A power    *)
(* failure, when the instance allows it, keeps of every row either the     *)
(* last written or the last flushed version, and of the log a prefix that  *)
(* holds at least the synced records, with a torn record behind it.        *)
(* Appending a record and syncing it is one step where the code does both: *)
(* a power failure in between leaves the log as it was before or after.    *)
(* Cutting the log file short and renaming the map file are atomic and     *)
(* durable.                                                                *)
(***************************************************************************)
EXTENDS Tx, FiniteSetsExt, SequencesExt

CONSTANTS
    Vals,         \* values of the only column
    Blank,        \* the value of a freshly appended row
    InitRows,     \* the rows the table starts with
    PowerFails,   \* TRUE when the machine may lose power
    MaxRows,      \* bound: rows in the table
    MaxOps,       \* bound: mutations per transaction
    MaxTxs,       \* bound: transactions
    MaxCrashes    \* bound: crashes and power failures

Row == [val : Vals, del : BOOLEAN]
BlankRow == [val |-> Blank, del |-> FALSE]
Recnos == 1..MaxRows

ASSUME TxRecoveryAssumption ==
    /\ Blank \in Vals
    /\ PowerFails \in BOOLEAN
    /\ {MaxRows, MaxOps, MaxTxs, MaxCrashes} \subseteq Nat
    /\ InitRows \in Seq(Row) /\ Len(InitRows) <= MaxRows

VARIABLES
    rows,     \* the table file as the process sees it
    safe,     \* the table file as of its last flush
    log,      \* the records of openads.txlog, in file order
    synced,   \* how many of them are on disk for certain
    nextLsn,  \* TxLog::next_lsn_
    lsnMap,   \* LsnMap::entries_ in memory, 0 where there is no entry
    lsnFile,  \* openads.lsnmap on disk
    tx,       \* the Tx object; keys are record numbers
    pc,       \* where the connection is, "closed" before it is opened
    job,      \* locals of the running call
    base,     \* history: the rows when the last transaction began
    goal,     \* history: the rows that transaction has to leave behind
    committed,\* history: its commit record is in the log
    acked,    \* history: the commit of a transaction that wrote has returned
    twice,    \* history: the rows it wrote more than once
    skew,     \* history: it began with leftovers in the LSN map
    outage,   \* history: the machine has lost power
    txs,      \* how many transactions began
    crashes   \* how many crashes happened

store == <<rows, safe>>
wal == <<log, synced, nextLsn>>
maps == <<lsnMap, lsnFile>>
hist == <<base, goal, committed, acked, twice, skew, outage, txs, crashes>>
vars == <<store, wal, maps, tx, pc, job, hist>>

NoLsns == [r \in Recnos |-> 0]
NoJob == [recno |-> 0, new |-> BlankRow, images |-> {}, appends |-> {},
          updates |-> {}, opened |-> FALSE]

InFile(r) == r \in 1..Len(rows)

-----------------------------------------------------------------------------
(* The log *)

Torn == [type |-> "torn", lsn |-> 0, recno |-> 0, before |-> NoImage]

\* read_all stops at the first record that does not check out.
Readable(file) ==
    CHOOSE n \in 0..Len(file) :
        /\ \A i \in 1..n : file[i].type # "torn"
        /\ n < Len(file) => file[n + 1].type = "torn"

ReadAll(file) == SubSeq(file, 1, Readable(file))

HasRecord(recs, type) == \E i \in 1..Len(recs) : recs[i].type = type

\* Mutant: only an abort record ends a transaction.
Aborted(recs) == HasRecord(recs, "abort")

Ended(recs) == HasRecord(recs, "commit") \/ HasRecord(recs, "abort")

\* The places of the records of a type.
OfType(recs, type) == {i \in 1..Len(recs) : recs[i].type = type}

\* Mutant: the highest readable LSN is handed out again.
ReusedLsn(recs) == IF recs = <<>> THEN 1 ELSE Last(recs).lsn

\* open() resumes after the highest readable LSN; records are in LSN order.
ResumedLsn(recs) == IF recs = <<>> THEN 1 ELSE Last(recs).lsn + 1

\* append_record_
LogRecord(type, recno, before) ==
    /\ log' = Append(log, [type |-> type, lsn |-> nextLsn, recno |-> recno, before |-> before])
    /\ nextLsn' = nextLsn + 1

Unsynced == UNCHANGED synced

\* sync_to, right after the record was appended
SyncLog == synced' = Len(log')

\* truncate() recreates the file and restarts the LSNs.
CutLog ==
    /\ log' = <<>>
    /\ synced' = 0
    /\ nextLsn' = 1

-----------------------------------------------------------------------------
Init ==
    /\ rows = InitRows /\ safe = InitRows
    /\ log = <<>> /\ synced = 0 /\ nextLsn = 1
    /\ lsnMap = NoLsns /\ lsnFile = NoLsns
    /\ tx = IdleTx
    /\ pc = "closed"
    /\ job = NoJob
    /\ base = InitRows /\ goal = InitRows /\ committed = FALSE /\ acked = FALSE
    /\ twice = {} /\ skew = FALSE /\ outage = FALSE
    /\ txs = 0 /\ crashes = 0

-----------------------------------------------------------------------------
(* A transaction.  An update is logged before it is written to the file, an
   append after it. *)

BeginTx ==
    /\ pc = "idle" /\ txs < MaxTxs
    /\ tx' = Activate(tx)
    /\ LogRecord("begin", 0, NoImage) /\ Unsynced
    /\ pc' = "tx"
    /\ base' = rows /\ goal' = rows /\ committed' = FALSE /\ acked' = FALSE
    /\ twice' = {} /\ skew' = (lsnMap # NoLsns)
    /\ txs' = txs + 1
    /\ UNCHANGED <<store, maps, job, outage, crashes>>

LogUpdate(r, new) ==
    /\ pc = "tx" /\ InFile(r) /\ Len(tx.ops) < MaxOps
    /\ tx' = NoteBeforeImage(tx, r, rows[r])
    /\ LogRecord("update", r, rows[r]) /\ Unsynced
    /\ twice' = IF \E i \in 1..Len(tx.ops) : tx.ops[i].key = r /\ ~tx.ops[i].isAppend
                THEN twice \cup {r} ELSE twice
    /\ job' = [NoJob EXCEPT !.recno = r, !.new = new]
    /\ pc' = "write"
    /\ UNCHANGED <<store, maps, base, goal, committed, acked, skew, outage, txs, crashes>>

WriteRow ==
    /\ pc = "write"
    /\ rows' = [rows EXCEPT ![job.recno] = job.new]
    /\ job' = NoJob
    /\ pc' = "tx"
    /\ UNCHANGED <<safe, wal, maps, tx, hist>>

AppendRow ==
    /\ pc = "tx" /\ Len(rows) < MaxRows /\ Len(tx.ops) < MaxOps
    /\ rows' = Append(rows, BlankRow)
    /\ job' = [NoJob EXCEPT !.recno = Len(rows) + 1]
    /\ pc' = "note"
    /\ UNCHANGED <<safe, wal, maps, tx, hist>>

LogAppend ==
    /\ pc = "note"
    /\ tx' = NoteAppend(tx, job.recno)
    /\ LogRecord("append", job.recno, NoImage) /\ Unsynced
    /\ job' = NoJob
    /\ pc' = "tx"
    /\ UNCHANGED <<store, maps, hist>>

CommitTx ==
    /\ pc = "tx"
    /\ LogRecord("commit", 0, NoImage) /\ SyncLog
    /\ goal' = rows /\ committed' = TRUE
    /\ pc' = "flush"
    /\ UNCHANGED <<store, maps, tx, job, base, acked, twice, skew, outage, txs, crashes>>

RollbackTx ==
    /\ pc = "tx"
    /\ job' = [NoJob EXCEPT !.images = tx.before, !.appends = tx.appended]
    /\ pc' = "rollback"
    /\ UNCHANGED <<store, wal, maps, tx, hist>>

RestoreImage(b) ==
    /\ pc = "rollback" /\ b \in job.images
    /\ rows' = [rows EXCEPT ![b.key] = b.image]
    /\ job' = [job EXCEPT !.images = @ \ {b}]
    /\ UNCHANGED <<safe, wal, maps, tx, pc, hist>>

\* The rows this transaction appended are the last ones of the file.
PopAppend ==
    /\ pc = "rollback" /\ job.images = {} /\ Len(rows) \in job.appends
    /\ rows' = Front(rows)
    /\ job' = [job EXCEPT !.appends = @ \ {Len(rows)}]
    /\ UNCHANGED <<safe, wal, maps, tx, pc, hist>>

LogAbort ==
    /\ pc = "rollback" /\ job.images = {} /\ job.appends = {}
    /\ LogRecord("abort", 0, NoImage) /\ SyncLog
    /\ job' = NoJob
    /\ pc' = "flush"
    /\ UNCHANGED <<store, maps, tx, hist>>

\* Mutant: the set of touched tables is computed after it was cleared.
FlushNothing ==
    /\ pc = "flush"
    /\ pc' = "end"
    /\ UNCHANGED <<store, wal, maps, tx, job, hist>>

FlushTx ==
    /\ pc = "flush"
    /\ safe' = IF tx.ops = <<>> THEN safe ELSE rows
    /\ pc' = "end"
    /\ UNCHANGED <<rows, wal, maps, tx, job, hist>>

EndTx ==
    /\ pc = "end"
    /\ tx' = IdleTx
    /\ CutLog
    /\ acked' = (committed /\ tx.ops # <<>>)
    /\ pc' = "idle"
    /\ UNCHANGED <<store, maps, job, base, goal, committed, twice, skew, outage, txs, crashes>>

\* The client disconnects between transactions.
Close ==
    /\ pc = "idle"
    /\ pc' = "closed"
    /\ UNCHANGED <<store, wal, maps, tx, job, hist>>

-----------------------------------------------------------------------------
(* Connection::open and recover_orphan_tx_ *)

\* An empty log ends the recovery before it looks at the LSN map.
Open ==
    LET recs == ReadAll(log)
        orphan == ~Ended(recs)
    IN  /\ pc = "closed"
        /\ nextLsn' = ResumedLsn(recs)
        /\ lsnMap' = lsnFile
        /\ job' = IF orphan
                  THEN [NoJob EXCEPT !.updates = OfType(recs, "update"),
                                     !.appends = {recs[i].recno : i \in OfType(recs, "append")}]
                  ELSE NoJob
        /\ pc' = IF recs = <<>> THEN "idle" ELSE "undo"
        /\ UNCHANGED <<store, log, synced, lsnFile, tx, hist>>

\* Mutant: a skipped record is looked at again and again.
UndoUpdateStuck ==
    LET last == Max(job.updates)
        u == log[last]
        applied == lsnMap[u.recno] >= u.lsn
    IN  /\ pc = "undo" /\ job.updates # {}
        /\ rows' = IF ~applied /\ InFile(u.recno)
                   THEN [rows EXCEPT ![u.recno] = u.before] ELSE rows
        /\ lsnMap' = IF applied THEN lsnMap ELSE [lsnMap EXCEPT ![u.recno] = u.lsn]
        /\ job' = IF applied THEN job ELSE [job EXCEPT !.updates = @ \ {last}, !.opened = TRUE]
        /\ UNCHANGED <<safe, wal, lsnFile, tx, pc, hist>>

\* The updates are gone through from the last one to the first: an image is
\* written back unless the map says that it, or a later one of its row, was.
UndoUpdate ==
    LET last == Max(job.updates)
        u == log[last]
        applied == lsnMap[u.recno] >= u.lsn
    IN  /\ pc = "undo" /\ job.updates # {}
        /\ rows' = IF ~applied /\ InFile(u.recno)
                   THEN [rows EXCEPT ![u.recno] = u.before] ELSE rows
        /\ lsnMap' = IF applied THEN lsnMap ELSE [lsnMap EXCEPT ![u.recno] = u.lsn]
        /\ job' = [job EXCEPT !.updates = @ \ {last}, !.opened = @ \/ ~applied]
        /\ UNCHANGED <<safe, wal, lsnFile, tx, pc, hist>>

\* Mutant: appended rows are marked first, so that an image undone later
\* brings them back.
DeleteAppendEarly(r) ==
    /\ pc = "undo" /\ r \in job.appends
    /\ rows' = IF InFile(r) THEN [rows EXCEPT ![r].del = TRUE] ELSE rows
    /\ job' = [job EXCEPT !.appends = @ \ {r}, !.opened = TRUE]
    /\ UNCHANGED <<safe, wal, maps, tx, pc, hist>>

DeleteAppend(r) ==
    /\ pc = "undo" /\ job.updates = {} /\ r \in job.appends
    /\ rows' = IF InFile(r) THEN [rows EXCEPT ![r].del = TRUE] ELSE rows
    /\ job' = [job EXCEPT !.appends = @ \ {r}, !.opened = TRUE]
    /\ UNCHANGED <<safe, wal, maps, tx, pc, hist>>

\* Mutant: the abort record is written before the images are.
AbortOrphanEarly ==
    /\ pc = "undo" /\ job.appends = {}
    /\ IF Ended(ReadAll(log)) THEN UNCHANGED wal
       ELSE LogRecord("abort", 0, NoImage) /\ SyncLog
    /\ pc' = "save"
    /\ UNCHANGED <<store, maps, tx, job, hist>>

AbortOrphan ==
    /\ pc = "undo" /\ job.updates = {} /\ job.appends = {}
    /\ IF Ended(ReadAll(log)) THEN UNCHANGED wal
       ELSE LogRecord("abort", 0, NoImage) /\ SyncLog
    /\ pc' = "save"
    /\ UNCHANGED <<store, maps, tx, job, hist>>

SaveTables ==
    /\ pc = "save"
    /\ safe' = IF job.opened THEN rows ELSE safe
    /\ job' = NoJob
    /\ pc' = "map"
    /\ UNCHANGED <<rows, wal, maps, tx, hist>>

FlushMap ==
    /\ pc = "map"
    /\ lsnFile' = lsnMap
    /\ pc' = "cut"
    /\ UNCHANGED <<store, wal, lsnMap, tx, job, hist>>

CutRecoveredLog ==
    /\ pc = "cut"
    /\ CutLog
    /\ pc' = "clear"
    /\ UNCHANGED <<store, maps, tx, job, hist>>

ClearMap ==
    /\ pc = "clear"
    /\ lsnMap' = NoLsns /\ lsnFile' = NoLsns
    /\ pc' = "idle"
    /\ UNCHANGED <<store, wal, tx, job, hist>>

-----------------------------------------------------------------------------
(* Crashes *)

Die(weight) ==
    /\ pc # "closed" /\ crashes + weight <= MaxCrashes
    /\ crashes' = crashes + weight
    /\ tx' = IdleTx
    /\ job' = NoJob
    /\ pc' = "closed"
    /\ UNCHANGED <<lsnMap, lsnFile, nextLsn, base, acked, twice, skew, txs>>

\* The process dies, or the client disconnects in the middle of a call.
Crash ==
    /\ Die(1)
    /\ UNCHANGED <<store, log, synced, goal, committed, outage>>

\* What the disk may hold of the table: the header's count and each row are
\* either the flushed or the written version.
Survivors ==
    LET len == IF Len(rows) < Len(safe) THEN Len(rows) ELSE Len(safe)
        Common == [1..len -> {"written", "flushed"}]
        Longer == IF Len(rows) > len THEN rows ELSE safe
        Mix(pick) == [r \in 1..len |-> IF pick[r] = "written" THEN rows[r] ELSE safe[r]]
    IN  UNION {{Mix(pick), Mix(pick) \o SubSeq(Longer, len + 1, Len(Longer))} : pick \in Common}

\* The machine loses power.
PowerLoss ==
    /\ PowerFails
    /\ Die(2)
    /\ outage' = TRUE
    /\ \E disk \in Survivors : rows' = disk /\ safe' = disk
    /\ \E n \in synced..Len(log) :
         \/ log' = SubSeq(log, 1, n)
         \/ n < Len(log) /\ log' = Append(SubSeq(log, 1, n), Torn)
    /\ synced' = Len(log')
    /\ IF HasRecord(log, "commit") /\ ~HasRecord(log', "commit")
       THEN goal' = base /\ committed' = FALSE
       ELSE UNCHANGED <<goal, committed>>

-----------------------------------------------------------------------------
TxStep ==
    \/ BeginTx \/ Close \/ AppendRow \/ CommitTx \/ RollbackTx
    \/ \E r \in Recnos, new \in Row : LogUpdate(r, new)

CallStep ==
    \/ WriteRow \/ LogAppend
    \/ \E b \in job.images : RestoreImage(b)
    \/ PopAppend \/ LogAbort \/ FlushTx \/ EndTx

RecoveryStep ==
    \/ UndoUpdate
    \/ \E r \in job.appends : DeleteAppend(r)
    \/ AbortOrphan \/ SaveTables \/ FlushMap \/ CutRecoveredLog \/ ClearMap

Next == TxStep \/ CallStep \/ Open \/ RecoveryStep \/ Crash \/ PowerLoss

Spec == Init /\ [][Next]_vars

\* A call that was entered runs to its end unless the process dies.
FairSpec == Spec /\ WF_vars(CallStep) /\ WF_vars(RecoveryStep)

-----------------------------------------------------------------------------
(* Properties *)

\* The state's shape, and the log's: LSNs grow along what can be read of it.
TypeOK ==
    /\ rows \in Seq(Row) /\ safe \in Seq(Row) /\ Len(rows) <= MaxRows
    /\ synced \in 0..Len(log)
    /\ lsnMap \in [Recnos -> Nat] /\ lsnFile \in [Recnos -> Nat]
    /\ tx.active => pc \in {"tx", "write", "note", "rollback", "flush", "end"}
    /\ twice \subseteq Recnos /\ outage \in BOOLEAN
    /\ \A i, j \in 1..Len(ReadAll(log)) : i < j => log[i].lsn < log[j].lsn

\* Connection::open hands out a connection whose files hold what the last
\* transaction promised: its rows if the commit record was written, the rows
\* at BEGIN otherwise (connection.cpp:389-497).
OrphanUndone ==
    pc = "idle" => \A r \in 1..Len(goal) : InFile(r) /\ rows[r] = goal[r]

\* The part of that promise the LSN map leaves intact: rows written once, by a
\* transaction that found the map empty, through any number of crashes of
\* the recovery itself.
RecoveryRestores ==
    pc = "idle" /\ ~skew /\ ~outage =>
        \A r \in 1..Len(goal) : r \notin twice => InFile(r) /\ rows[r] = goal[r]

\* A transaction whose commit record was written keeps its rows, and only
\* its rows, whenever the process dies afterwards.
CommittedKept == pc = "idle" /\ committed /\ ~outage => rows = goal

\* A commit that returned survives a power failure too.
AcknowledgedKept == pc = "idle" /\ acked => rows = goal

\* Once the rows are undone, no row whose append was logged by the orphan is
\* live: the images of its updates do not bring it back.
AppendsDeleted ==
    pc \in {"map", "cut"} /\ ~committed /\ ~outage =>
        \A i \in 1..Len(ReadAll(log)) :
            log[i].type = "append" /\ InFile(log[i].recno) => rows[log[i].recno].del

\* No live row of an orphan is left behind.
NoStrayRows ==
    pc = "idle" => \A r \in (Len(goal) + 1)..Len(rows) : rows[r].del

\* The records of the running transaction can be read back by a recovery.
LogReadable == pc = "tx" => ReadAll(log) = log

\* A recovery that is not interrupted for ever opens the connection.
RecoveryEnds == pc \in {"undo", "save", "map", "cut", "clear"} ~> pc \in {"idle", "closed"}

=============================================================================
