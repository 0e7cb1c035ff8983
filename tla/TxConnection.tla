---------------------------- MODULE TxConnection ----------------------------
(***************************************************************************)
(* Transactions of one Connection (session/connection.cpp) over its open   *)
(* tables (engine/table.cpp) while the process lives: nested begin and     *)
(* commit, full rollback, named savepoints, tables closed and reopened in  *)
(* the middle of a transaction, and rows that other connections append to  *)
(* the same files.  Crashes and the write-ahead log are in TxRecovery.     *)
(*                                                                         *)
(* A table file is a sequence of rows, one key column and the delete flag  *)
(* each.  An indexed table has one bound index, a set of <<recno, key>>    *)
(* pairs, maintained the way Table::sync_all_indexes_ does.  A work area   *)
(* is the Table's cursor, its record buffer and the record count of its    *)
(* driver; a connection has at most one work area per file here.           *)
(*                                                                         *)
(* A rollback is a sequence of driver calls.  They are separate steps, so  *)
(* that appends of other connections interleave with them; the calls of    *)
(* this connection wait for the end (pc = "api").                          *)
(***************************************************************************)
EXTENDS Tx, FiniteSets

CONSTANTS
    Tables,      \* table files of the data directory
    Vals,        \* values of the key column
    Blank,       \* the value of a freshly appended row
    Names,       \* savepoint names
    Indexed,     \* tables with a bound index
    Unique,      \* TRUE when the indexes reject duplicate keys
    InitRows,    \* the rows each table starts with
    MaxRows,     \* bound: rows per table
    MaxOps,      \* bound: mutations per transaction
    MaxSaves,    \* bound: live savepoints
    MaxDepth,    \* bound: nesting of begin
    MaxOpens,    \* bound: handles handed out per table
    MaxForeign   \* bound: rows other connections append to a table

Row == [val : Vals, del : BOOLEAN]
BlankRow == [val |-> Blank, del |-> FALSE]
NewKey(t, g, r) == [table |-> t, gen |-> g, recno |-> r]

ASSUME TxConnectionAssumption ==
    /\ Blank \in Vals
    /\ Indexed \subseteq Tables
    /\ Unique \in BOOLEAN
    /\ {MaxRows, MaxOps, MaxSaves, MaxDepth, MaxOpens, MaxForeign} \subseteq Nat
    /\ MaxDepth > 0
    /\ InitRows \in [Tables -> Seq(Row)]
    /\ \A t \in Tables : Len(InitRows[t]) <= MaxRows

VARIABLES
    rows,      \* [Tables -> Seq(Row)]: the files
    idx,       \* [Tables -> set of <<recno, key>>]: the bound index
    wa,        \* [Tables -> work area]
    tx,        \* the Tx object
    depth,     \* tx_nest_depth_
    pc,        \* where a rollback is, "api" when none runs
    job,       \* locals of the running rollback
    snap,      \* history: the files when the running transaction began
    marks,     \* history: the files at each live savepoint
    foreign    \* history: [Tables -> recnos appended by other connections]

vars == <<rows, idx, wa, tx, depth, pc, job, snap, marks, foreign>>

NoJob == [images |-> {}, appends |-> {}, skip |-> {}, next |-> 0, idx |-> 0, mark |-> 0]

-----------------------------------------------------------------------------
(* Helpers *)

Here(t, r) == NewKey(t, wa[t].gen, r)

\* tables_.find(handle): the handle is still open.
IsOpen(key) == wa[key.table].open /\ wa[key.table].gen = key.gen

InFile(t, r) == r \in 1..Len(rows[t])

Positioned(t) == wa[t].open /\ wa[t].pos

\* The record a strict seek for key k lands on in index entries e.
Hits(e, k) == {x[1] : x \in {y \in e : y[2] = k}}
FirstHit(e, k) == CHOOSE r \in Hits(e, k) : \A s \in Hits(e, k) : r <= s

\* The new key is refused when it is found first at another record.
Refused(e, r, k) == Unique /\ Hits(e, k) # {} /\ FirstHit(e, k) # r

\* Mutant: the previous key stays in the index.
SyncedKeepingOld(t, r, prev, new) ==
    IF t \notin Indexed \/ prev = new THEN idx[t] ELSE idx[t] \cup {<<r, new>>}

\* sync_all_indexes_: the previous key is erased, then the new one inserted
\* unless it is refused.
Synced(t, r, prev, new) ==
    LET cut == idx[t] \ {<<r, prev>>}
    IN  IF t \notin Indexed \/ prev = new THEN idx[t]
        ELSE IF Refused(cut, r, new) THEN cut
        ELSE cut \cup {<<r, new>>}

SyncFails(t, r, prev, new) ==
    t \in Indexed /\ prev # new /\ Refused(idx[t] \ {<<r, prev>>}, r, new)

\* Mutant: the cursor survives the structural change.
KeepCursor(w) == w

\* The cursor loses its record (state Bof, Eof or Limbo).
Reset(w) == [w EXCEPT !.pos = FALSE, !.recno = 0]

-----------------------------------------------------------------------------
Init ==
    /\ rows = InitRows
    /\ idx = [t \in Tables |->
                IF t \in Indexed THEN {<<r, InitRows[t][r].val>> : r \in 1..Len(InitRows[t])}
                ELSE {}]
    /\ wa = [t \in Tables |->
                [open |-> FALSE, gen |-> 0, cnt |-> 0, pos |-> FALSE, recno |-> 0, buf |-> BlankRow]]
    /\ tx = IdleTx
    /\ depth = 0
    /\ pc = "api"
    /\ job = NoJob
    /\ snap = InitRows
    /\ marks = <<>>
    /\ foreign = [t \in Tables |-> {}]

-----------------------------------------------------------------------------
(* Tables and cursors *)

OpenTable(t) ==
    /\ pc = "api" /\ ~wa[t].open /\ wa[t].gen < MaxOpens
    /\ wa' = [wa EXCEPT ![t] =
                [open |-> TRUE, gen |-> @.gen + 1, cnt |-> Len(rows[t]),
                 pos |-> FALSE, recno |-> 0, buf |-> BlankRow]]
    /\ UNCHANGED <<rows, idx, tx, depth, pc, job, snap, marks, foreign>>

CloseTable(t) ==
    /\ pc = "api" /\ wa[t].open
    /\ wa' = [wa EXCEPT ![t] = [Reset(@) EXCEPT !.open = FALSE, !.cnt = 0, !.buf = BlankRow]]
    /\ UNCHANGED <<rows, idx, tx, depth, pc, job, snap, marks, foreign>>

\* GO past either end, by the record count this handle knows, is a phantom
\* position and leaves the buffer alone.
GotoRecord(t, r) ==
    /\ pc = "api" /\ wa[t].open
    /\ wa' = [wa EXCEPT ![t] =
                IF r \in 1..@.cnt THEN [@ EXCEPT !.pos = TRUE, !.recno = r, !.buf = rows[t][r]]
                ELSE Reset(@)]
    /\ UNCHANGED <<rows, idx, tx, depth, pc, job, snap, marks, foreign>>

\* writeback_record_ and the index sync of a mutation of the current record:
\* the note takes the row from the file, the write sends the whole buffer.
WriteRecord(t, new) ==
    LET r == wa[t].recno
    IN  /\ pc = "api" /\ Positioned(t) /\ InFile(t, r)
        /\ tx.active => Len(tx.ops) < MaxOps
        /\ rows' = [rows EXCEPT ![t][r] = new]
        /\ wa' = [wa EXCEPT ![t].buf = new]
        /\ tx' = IF tx.active THEN NoteBeforeImage(tx, Here(t, r), rows[t][r]) ELSE tx
        /\ idx' = [idx EXCEPT ![t] = Synced(t, r, wa[t].buf.val, new.val)]
        /\ UNCHANGED <<depth, pc, job, snap, marks, foreign>>

SetField(t, v) == WriteRecord(t, [wa[t].buf EXCEPT !.val = v])
MarkDeleted(t) == WriteRecord(t, [wa[t].buf EXCEPT !.del = TRUE])
RecallDeleted(t) == WriteRecord(t, [wa[t].buf EXCEPT !.del = FALSE])

\* append_record: the driver appends first, the note comes after; no index
\* entry is made until a field write changes the key.
AppendRecord(t) ==
    LET r == Len(rows[t]) + 1
    IN  /\ pc = "api" /\ wa[t].open /\ r <= MaxRows
        /\ tx.active => Len(tx.ops) < MaxOps
        /\ rows' = [rows EXCEPT ![t] = Append(@, BlankRow)]
        /\ wa' = [wa EXCEPT ![t] = [@ EXCEPT !.cnt = r, !.pos = TRUE, !.recno = r, !.buf = BlankRow]]
        /\ tx' = IF tx.active THEN NoteAppend(tx, Here(t, r)) ELSE tx
        /\ UNCHANGED <<idx, depth, pc, job, snap, marks, foreign>>

\* Another connection appends a row outside any transaction and fills it in.
ForeignAppend(t, v) ==
    LET r == Len(rows[t]) + 1
    IN  /\ r <= MaxRows /\ Cardinality(foreign[t]) < MaxForeign
        /\ Unique => Hits(idx[t], v) = {}
        /\ rows' = [rows EXCEPT ![t] = Append(@, [val |-> v, del |-> FALSE])]
        /\ idx' = [idx EXCEPT ![t] = IF t \in Indexed THEN @ \cup {<<r, v>>} ELSE @]
        /\ foreign' = [foreign EXCEPT ![t] = @ \cup {r}]
        /\ UNCHANGED <<wa, tx, depth, pc, job, snap, marks>>

-----------------------------------------------------------------------------
(* Transaction calls *)

BeginTx ==
    /\ pc = "api"
    /\ IF tx.active
       THEN depth < MaxDepth /\ depth' = depth + 1 /\ UNCHANGED <<tx, snap>>
       ELSE depth' = 1 /\ tx' = Activate(tx) /\ snap' = rows
    /\ UNCHANGED <<rows, idx, wa, pc, job, marks, foreign>>

CommitTx ==
    /\ pc = "api" /\ tx.active
    /\ IF depth > 1
       THEN depth' = depth - 1 /\ UNCHANGED <<tx, marks>>
       ELSE depth' = 0 /\ tx' = IdleTx /\ marks' = <<>>
    /\ snap' = IF depth > 1 THEN snap ELSE InitRows
    /\ UNCHANGED <<rows, idx, wa, pc, job, foreign>>

SavepointTx(n) ==
    /\ pc = "api" /\ tx.active /\ Len(tx.saves) < MaxSaves
    /\ tx' = CreateSavepoint(tx, n)
    /\ marks' = Append(marks, rows)
    /\ UNCHANGED <<rows, idx, wa, depth, pc, job, snap, foreign>>

ReleaseTx(n) ==
    /\ pc = "api" /\ tx.active /\ MarksNamed(tx, n) # {}
    /\ LET at == LatestMark(tx, n)
       IN  marks' = SubSeq(marks, 1, at - 1) \o SubSeq(marks, at + 1, Len(marks))
    /\ tx' = ReleaseSavepoint(tx, n)
    /\ UNCHANGED <<rows, idx, wa, depth, pc, job, snap, foreign>>

(* Full rollback: before-images in map order, then the appended rows of each
   table from the top, then the end of the transaction. *)

RollbackTx ==
    /\ pc = "api" /\ tx.active
    /\ pc' = "rollback"
    /\ job' = [NoJob EXCEPT !.images = tx.before, !.appends = tx.appended]
    /\ UNCHANGED <<rows, idx, wa, tx, depth, snap, marks, foreign>>

\* apply_tx_rollback loads the record, writes the image over it and syncs the
\* indexes.  The first failure makes the loop skip the remaining images, and
\* the rollback goes on.
RestoreImage(b) ==
    LET t == b.key.table
        r == b.key.recno
        prev == rows[t][r].val
    IN  /\ pc = "rollback" /\ b \in job.images
        /\ IF IsOpen(b.key) /\ InFile(t, r)
           THEN /\ rows' = [rows EXCEPT ![t][r] = b.image]
                /\ wa' = [wa EXCEPT ![t] = [@ EXCEPT !.pos = TRUE, !.recno = r, !.buf = b.image]]
                /\ idx' = [idx EXCEPT ![t] = Synced(t, r, prev, b.image.val)]
                /\ job' = [job EXCEPT !.images =
                              IF SyncFails(t, r, prev, b.image.val) THEN {} ELSE @ \ {b}]
           ELSE /\ job' = [job EXCEPT !.images = IF IsOpen(b.key) THEN {} ELSE @ \ {b}]
                /\ UNCHANGED <<rows, wa, idx>>
        /\ UNCHANGED <<tx, depth, pc, snap, marks, foreign>>

\* Mutant: the row and everything above it is cut off.
PopAllAbove(file, r) == IF r \in 1..Len(file) THEN SubSeq(file, 1, r - 1) ELSE file

\* truncate_trailing pops the row when it is the last one by the count on
\* disk; the caller marks it deleted when something was appended above it.
PopOrDelete(file, r) ==
    IF r = Len(file) THEN SubSeq(file, 1, r - 1)
    ELSE IF r \in 1..Len(file) THEN [file EXCEPT ![r].del = TRUE]
    ELSE file

\* One round of rollback_appends: de-index the row, then pop or delete it.
RemoveAppended(key) ==
    LET t == key.table
        r == key.recno
    IN  /\ job.images = {} /\ key \in job.appends
        /\ \A k \in job.appends : k.table = t /\ k.gen = key.gen => k.recno <= r
        /\ job' = [job EXCEPT !.appends = @ \ {key}]
        /\ IF IsOpen(key)
           THEN /\ idx' = [idx EXCEPT ![t] =
                              IF InFile(t, r) THEN @ \ {<<r, rows[t][r].val>>} ELSE @]
                /\ rows' = [rows EXCEPT ![t] = PopOrDelete(@, r)]
                /\ wa' = [wa EXCEPT ![t] = [Reset(@) EXCEPT !.cnt = Len(rows'[t])]]
           ELSE UNCHANGED <<idx, rows, wa>>
        /\ UNCHANGED <<tx, depth, pc, snap, marks, foreign>>

RollbackAppend(key) == pc = "rollback" /\ RemoveAppended(key)

\* refresh_record_buffer: reload a positioned record; a failing load is ignored.
Refreshed(t) ==
    IF Positioned(t) /\ InFile(t, wa[t].recno)
    THEN [wa[t] EXCEPT !.buf = rows[t][wa[t].recno]]
    ELSE wa[t]

RowsUndone == pc = "rollback" /\ job.images = {} /\ job.appends = {}

RollbackFinish ==
    /\ RowsUndone
    /\ wa' = [t \in Tables |->
                IF \E k \in tx.appended \cup {b.key : b \in tx.before} :
                       k.table = t /\ IsOpen(k)
                THEN Refreshed(t) ELSE wa[t]]
    /\ tx' = IdleTx
    /\ depth' = 0
    /\ pc' = "api"
    /\ job' = NoJob
    /\ marks' = <<>>
    /\ snap' = InitRows
    /\ UNCHANGED <<rows, idx, foreign>>

(* Partial rollback: pop the rows appended since the mark, write the images
   of the other operations newest first, drop the operations. *)

RollbackToSavepoint(n) ==
    /\ pc = "api" /\ tx.active /\ MarksNamed(tx, n) # {}
    /\ LET at == LatestMark(tx, n)
           to == tx.saves[at].idx
           gone == {tx.ops[i].key : i \in {j \in (to + 1)..Len(tx.ops) : tx.ops[j].isAppend}}
       IN  job' = [images |-> {}, appends |-> gone, skip |-> gone,
                   next |-> Len(tx.ops), idx |-> to, mark |-> at]
    /\ pc' = "savepoint"
    /\ UNCHANGED <<rows, idx, wa, tx, depth, snap, marks, foreign>>

SavepointAppend(key) == pc = "savepoint" /\ RemoveAppended(key)

\* The image goes straight to the driver: neither the index nor the work
\* area's buffer follows.
UndoOp ==
    LET op == tx.ops[job.next]
        t == op.key.table
        r == op.key.recno
        written == ~op.isAppend /\ op.key \notin job.skip /\ IsOpen(op.key) /\ InFile(t, r)
    IN  /\ pc = "savepoint" /\ job.appends = {} /\ job.next > job.idx
        /\ rows' = IF written THEN [rows EXCEPT ![t][r] = op.image] ELSE rows
        /\ job' = [job EXCEPT !.next = @ - 1]
        /\ UNCHANGED <<idx, wa, tx, depth, pc, snap, marks, foreign>>

OpsUndone == pc = "savepoint" /\ job.appends = {} /\ job.next = job.idx

\* The refresh covers the tables of the operations that are left.
SavepointFinish ==
    /\ OpsUndone
    /\ tx' = TruncateOpsTo(tx, job.idx)
    /\ wa' = [t \in Tables |->
                IF \E i \in 1..job.idx : tx.ops[i].key.table = t /\ IsOpen(tx.ops[i].key)
                THEN Refreshed(t) ELSE wa[t]]
    /\ marks' = SubSeq(marks, 1, MarksKept(tx, job.idx))
    /\ pc' = "api"
    /\ job' = NoJob
    /\ UNCHANGED <<rows, idx, depth, snap, foreign>>

-----------------------------------------------------------------------------
Mutate ==
    \E t \in Tables :
        \/ \E v \in Vals : SetField(t, v) \/ ForeignAppend(t, v)
        \/ MarkDeleted(t) \/ RecallDeleted(t) \/ AppendRecord(t)

Navigate ==
    \E t \in Tables :
        OpenTable(t) \/ CloseTable(t) \/ \E r \in 0..MaxRows : GotoRecord(t, r)

TxCall ==
    \/ BeginTx \/ CommitTx \/ RollbackTx
    \/ \E n \in Names : SavepointTx(n) \/ ReleaseTx(n) \/ RollbackToSavepoint(n)

TxStep ==
    \/ \E b \in job.images : RestoreImage(b)
    \/ \E k \in job.appends : RollbackAppend(k) \/ SavepointAppend(k)
    \/ RollbackFinish \/ UndoOp \/ SavepointFinish

Next == Mutate \/ Navigate \/ TxCall \/ TxStep

Spec == Init /\ [][Next]_vars

-----------------------------------------------------------------------------
(* Properties *)

Keys == [table : Tables, gen : 1..MaxOpens, recno : 1..MaxRows]

\* The state's shape; the ordered list and the marks stay within their bounds.
TypeOK ==
    /\ \A t \in Tables : rows[t] \in Seq(Row) /\ Len(rows[t]) <= MaxRows
    /\ \A t \in Tables : idx[t] \subseteq (1..MaxRows) \X Vals
    /\ wa \in [Tables -> [open : BOOLEAN, gen : 0..MaxOpens, cnt : 0..MaxRows, pos : BOOLEAN,
                          recno : 0..MaxRows, buf : Row]]
    /\ \A t \in Tables : wa[t].cnt <= Len(rows[t])
    /\ tx.active \in BOOLEAN
    /\ tx.before \subseteq [key : Keys, image : Row]
    /\ tx.appended \subseteq Keys
    /\ Len(tx.ops) <= MaxOps /\ Len(tx.saves) <= MaxSaves
    /\ depth \in 0..MaxDepth /\ (depth > 0 <=> tx.active)
    /\ pc \in {"api", "rollback", "savepoint"} /\ (pc # "api" => tx.active)

\* No handle that took part in the transaction was closed since.
Intact(t, keys) == wa[t].open /\ \A k \in keys : k.table = t => IsOpen(k)

\* The rows of `old' are back and what was added by this connection is gone
\* or, below a foreign row, marked deleted.
Restored(t, old) ==
    /\ \A r \in 1..Len(old) : InFile(t, r) /\ rows[t][r] = old[r]
    /\ \A r \in (Len(old) + 1)..Len(rows[t]) : r \in foreign[t] \/ rows[t][r].del

TxKeys == tx.appended \cup {b.key : b \in tx.before}

\* rollback_tx undoes everything: when its row work is over, every table whose
\* handles stayed open holds the rows it had at BEGIN, whatever the order in
\* which the two unordered maps were walked and whatever savepoints came and
\* went in between (connection.cpp:253-305, tx.cpp:5-31).
RollbackRestores ==
    RowsUndone => \A t \in Tables : Intact(t, TxKeys) => Restored(t, snap[t])

\* The same promise without the caveat on handles: closing a table in the
\* middle of a transaction does not take its rows out of the rollback.
RollbackRestoresAll ==
    RowsUndone => \A t \in Tables : Restored(t, snap[t])

\* rollback_to_savepoint undoes the operations after the mark and only those,
\* through nested, released and reused marks (connection.cpp:316-373).
SavepointRestores ==
    OpsUndone =>
        \A t \in Tables :
            Intact(t, {tx.ops[i].key : i \in (job.idx + 1)..Len(tx.ops)})
                => Restored(t, marks[job.mark][t])

\* Between calls the record buffer of a positioned work area is the row in the
\* file: a buffer left behind by a rollback would be written back, undone
\* values included, by the next field write (table.cpp:227-243).
BufferCurrent ==
    pc = "api" =>
        \A t \in Tables : Positioned(t) =>
            InFile(t, wa[t].recno) /\ wa[t].buf = rows[t][wa[t].recno]

\* Every index entry points at a row that has its key, so a seek never lands
\* on a row without the key it looked for.
IndexExact ==
    pc = "api" =>
        \A t \in Tables : \A e \in idx[t] : InFile(t, e[1]) /\ rows[t][e[1]].val = e[2]

\* Every row can be reached through the index.
IndexComplete ==
    pc = "api" =>
        \A t \in Indexed : \A r \in 1..Len(rows[t]) : <<r, rows[t][r].val>> \in idx[t]

\* A rollback pops rows of its own transaction only: a row that another
\* connection appended stays in the file.
ForeignKept == \A t \in Tables : \A r \in foreign[t] : InFile(t, r)

\* A rolled-back append leaves its row in the file, marked deleted.
AppendsTombstoned ==
    RowsUndone =>
        \A k \in tx.appended : IsOpen(k) => InFile(k.table, k.recno) /\ rows[k.table][k.recno].del

\* Marks point into the list of operations, in order: a rollback to any live
\* mark undoes a suffix of what an outer mark would undo.
MarksNested ==
    /\ \A i \in 1..Len(tx.saves) : tx.saves[i].idx <= Len(tx.ops)
    /\ \A i, j \in 1..Len(tx.saves) : i < j => tx.saves[i].idx <= tx.saves[j].idx

=============================================================================
