------------------------- MODULE TxConnectionProofs -------------------------
(***************************************************************************)
(* What a rollback promises, for any number of tables, rows, operations,   *)
(* savepoints, handles and values.                                         *)
(*   - The full rollback (RInv) is proved for indexes that accept every    *)
(*     key: a unique index can stop it half way.                           *)
(*   - The rollback to a savepoint (MInv) is proved for tables that are    *)
(*     opened once: an image of a handle closed since is skipped, and the  *)
(*     mark forgets that it was.                                           *)
(*   - The buffer, the index and the rows of other connections (Exact) are *)
(*     exact as long as there are no savepoints, whose rollback leaves     *)
(*     them behind.                                                        *)
(* TLC shows a counterexample to each property without its hypothesis.     *)
(***************************************************************************)
EXTENDS TxConnection, LeastNumber, SequenceTheorems

Images == [key : Keys, image : Row]
OpRecords == [key : Keys, isAppend : BOOLEAN, image : Row \cup {NoImage}]
MarkRecords == [name : Names, idx : Nat]
TxRecords ==
    [active : BOOLEAN, before : SUBSET Images, appended : SUBSET Keys,
     ops : Seq(OpRecords), saves : Seq(MarkRecords)]
Files == [Tables -> Seq(Row)]
WorkAreas ==
    [open : BOOLEAN, gen : 0..MaxOpens, cnt : 0..MaxRows, pos : BOOLEAN,
     recno : 0..MaxRows, buf : Row]

-----------------------------------------------------------------------------
(* What the steps do to a file *)

\* The elements of a list.
LEMMA Elements ==
    ASSUME NEW S, NEW q \in Seq(S)
    PROVE  \A i \in 1..Len(q) : q[i] \in S
OBVIOUS

\* One row is stored.
Stores(t, r, row) == InFile(t, r) /\ rows' = [rows EXCEPT ![t][r] = row]

\* What that does to the files.
LEMMA StoreRow ==
    ASSUME rows \in Files, NEW t \in Tables, NEW r, NEW row \in Row, Stores(t, r, row)
    PROVE  /\ rows' \in Files
           /\ \A u \in Tables : Len(rows'[u]) = Len(rows[u])
           /\ \A u \in Tables : u # t => rows'[u] = rows[u]
           /\ \A j \in 1..Len(rows[t]) : rows'[t][j] = IF j = r THEN row ELSE rows[t][j]
<1> DEFINE q == [rows[t] EXCEPT ![r] = row]
<1>1. rows[t] \in Seq(Row) /\ r \in 1..Len(rows[t])
    BY DEF Files, InFile, Stores
<1>2. q \in Seq(Row) /\ Len(q) = Len(rows[t])
      /\ \A j \in 1..Len(rows[t]) : q[j] = IF j = r THEN row ELSE rows[t][j]
    BY <1>1, ExceptSeq
<1>3. rows' = [rows EXCEPT ![t] = q]
    BY DEF Stores
<1> HIDE DEF q
<1>4. rows' \in Files /\ rows'[t] = q /\ \A u \in Tables : u # t => rows'[u] = rows[u]
    BY <1>2, <1>3 DEF Files
<1>5. \A u \in Tables : Len(rows'[u]) = Len(rows[u])
    BY <1>2, <1>4
<1> QED
    BY <1>2, <1>4, <1>5

\* One row is added.
LEMMA AddRow ==
    ASSUME rows \in Files, NEW t \in Tables, NEW row \in Row,
           rows' = [rows EXCEPT ![t] = Append(@, row)]
    PROVE  /\ rows' \in Files
           /\ Len(rows'[t]) = Len(rows[t]) + 1 /\ rows'[t][Len(rows[t]) + 1] = row
           /\ \A u \in Tables : u # t => rows'[u] = rows[u]
           /\ \A u \in Tables : Len(rows[u]) \in Nat /\ Len(rows[u]) <= Len(rows'[u])
           /\ \A u \in Tables : \A j \in 1..Len(rows[u]) : rows'[u][j] = rows[u][j]
<1> DEFINE q == Append(rows[t], row)
<1>1. rows[t] \in Seq(Row) /\ \A u \in Tables : Len(rows[u]) \in Nat
    BY DEF Files
<1>2. q \in Seq(Row) /\ Len(q) = Len(rows[t]) + 1 /\ q[Len(rows[t]) + 1] = row
      /\ \A j \in 1..Len(rows[t]) : q[j] = rows[t][j]
    BY <1>1, AppendProperties
<1>3. rows' = [rows EXCEPT ![t] = q]
    OBVIOUS
<1> HIDE DEF q
<1>4. rows' \in Files /\ rows'[t] = q /\ \A u \in Tables : u # t => rows'[u] = rows[u]
    BY <1>2, <1>3 DEF Files
<1>5. \A u \in Tables : Len(rows[u]) <= Len(rows'[u])
    BY <1>1, <1>2, <1>4
<1>6. \A u \in Tables : \A j \in 1..Len(rows[u]) : rows'[u][j] = rows[u][j]
    BY <1>2, <1>4
<1> QED
    BY <1>1, <1>2, <1>4, <1>5, <1>6

\* What is left of the rows when one is popped or marked deleted.
LEMMA PoppedRows ==
    ASSUME NEW q \in Seq(Row), NEW r \in Nat \ {0}
    PROVE  LET p == PopOrDelete(q, r)
           IN  /\ p \in Seq(Row) /\ Len(p) \in {Len(q), Len(q) - 1}
               /\ Len(p) = Len(q) - 1 <=> r = Len(q)
               /\ \A j \in 1..Len(p) : j # r => p[j] = q[j]
               /\ r \in 1..Len(p) => p[r] = [q[r] EXCEPT !.del = TRUE]
<1> DEFINE cut == SubSeq(q, 1, r - 1)
           gone == [q[r] EXCEPT !.del = TRUE]
           del == [q EXCEPT ![r] = gone]
<1>1. Len(q) \in Nat
    OBVIOUS
<1>2. CASE r = Len(q)
  <2>1. \A i \in 1..(r - 1) : q[i] \in Row
    BY <1>1, <1>2
  <2>2. cut \in Seq(Row) /\ Len(cut) = r - 1 /\ \A j \in 1..(r - 1) : cut[j] = q[j]
    BY <2>1, SubSeqProperties
  <2>3. PopOrDelete(q, r) = cut
    BY <1>2 DEF PopOrDelete
  <2> HIDE DEF cut
  <2> QED
    BY <1>1, <1>2, <2>2, <2>3
<1>3. CASE r # Len(q) /\ r \in 1..Len(q)
  <2>1. q[r] \in Row
    BY <1>3
  <2>2. gone \in Row
    BY <2>1 DEF Row
  <2>3. PopOrDelete(q, r) = del
    BY <1>3 DEF PopOrDelete
  <2> HIDE DEF gone
  <2>4. del \in Seq(Row) /\ Len(del) = Len(q)
        /\ \A j \in 1..Len(q) : del[j] = IF j = r THEN gone ELSE q[j]
    BY <1>3, <2>2, ExceptSeq
  <2>5. del[r] = gone /\ \A j \in 1..Len(q) : j # r => del[j] = q[j]
    BY <1>3, <2>4
  <2> HIDE DEF del
  <2> QED
    BY <1>1, <1>3, <2>3, <2>4, <2>5 DEF gone
<1>4. CASE r # Len(q) /\ r \notin 1..Len(q)
  <2>1. PopOrDelete(q, r) = q
    BY <1>4 DEF PopOrDelete
  <2> QED
    BY <1>1, <1>4, <2>1
<1> QED
    BY <1>2, <1>3, <1>4

-----------------------------------------------------------------------------
(* The marks of a transaction *)

\* The latest mark of a name that has one.
LEMMA LatestIsMark ==
    ASSUME NEW n, tx.saves \in Seq(MarkRecords), MarksNamed(tx, n) # {}
    PROVE  /\ LatestMark(tx, n) \in 1..Len(tx.saves)
           /\ tx.saves[LatestMark(tx, n)].name = n
<1> DEFINE T == MarksNamed(tx, n)
<1>1. T \in SUBSET Int /\ Len(tx.saves) \in Int /\ \A x \in T : x <= Len(tx.saves)
    BY DEF MarksNamed
<1> HIDE DEF T
<1>2. \E x \in T : \A y \in T : y <= x
    BY <1>1, LargestInt DEF T
<1>3. LatestMark(tx, n) \in T
    BY <1>2 DEF LatestMark, T
<1> QED
    BY <1>3 DEF T, MarksNamed

\* How many marks survive a truncation.
LEMMA KeptMarks ==
    ASSUME NEW x, x.saves \in Seq(MarkRecords), NEW to \in Nat
    PROVE  LET n == MarksKept(x, to)
           IN  /\ n \in 0..Len(x.saves)
               /\ n > 0 => x.saves[n].idx <= to
               /\ \A i \in (n + 1)..Len(x.saves) : x.saves[i].idx > to
<1> DEFINE T == {i \in 1..Len(x.saves) : x.saves[i].idx <= to}
           Fit(n) == /\ n > 0 => x.saves[n].idx <= to
                     /\ \A i \in (n + 1)..Len(x.saves) : x.saves[i].idx > to
<1>1. Len(x.saves) \in Nat /\ \A i \in 1..Len(x.saves) : x.saves[i].idx \in Nat
  <2>1. \A i \in 1..Len(x.saves) : x.saves[i] \in MarkRecords
    BY Elements
  <2> QED
    BY <2>1 DEF MarkRecords
<1>2. \E n \in 0..Len(x.saves) : Fit(n)
  <2>1. CASE T = {}
    BY <1>1, <2>1, 0 \in 0..Len(x.saves)
  <2>2. CASE T # {}
    <3>1. T \in SUBSET Int /\ Len(x.saves) \in Int /\ \A i \in T : i <= Len(x.saves)
      BY <1>1
    <3>2. PICK n \in T : \A i \in T : i <= n
      BY <2>2, <3>1, LargestInt
    <3>3. n \in 0..Len(x.saves) /\ x.saves[n].idx <= to
      BY <3>2
    <3>4. \A i \in (n + 1)..Len(x.saves) : i \in 1..Len(x.saves) /\ ~(i <= n)
      BY <1>1, <3>3
    <3>5. \A i \in (n + 1)..Len(x.saves) : x.saves[i].idx > to
      BY <1>1, <3>2, <3>4
    <3> QED
      BY <3>3, <3>5
  <2> QED
    BY <2>1, <2>2
<1>3. MarksKept(x, to) \in 0..Len(x.saves) /\ Fit(MarksKept(x, to))
    BY <1>2 DEF MarksKept
<1> QED
    BY <1>3

\* The beginning of a list.
LEMMA Prefix ==
    ASSUME NEW S, NEW q \in Seq(S), NEW n \in 0..Len(q)
    PROVE  /\ SubSeq(q, 1, n) \in Seq(S) /\ Len(SubSeq(q, 1, n)) = n
           /\ \A i \in 1..n : SubSeq(q, 1, n)[i] = q[i]
<1>1. \A i \in 1..n : q[i] \in S
    OBVIOUS
<1> QED
    BY <1>1, SubSeqProperties

\* A list without one of its elements.
LEMMA Without ==
    ASSUME NEW S, NEW q \in Seq(S), NEW k \in 1..Len(q)
    PROVE  LET w == SubSeq(q, 1, k - 1) \o SubSeq(q, k + 1, Len(q))
           IN  /\ w \in Seq(S) /\ Len(w) = Len(q) - 1
               /\ \A i \in 1..(Len(q) - 1) : w[i] = IF i < k THEN q[i] ELSE q[i + 1]
<1> DEFINE b == SubSeq(q, 1, k - 1)
           c == SubSeq(q, k + 1, Len(q))
<1>1. Len(q) \in Nat /\ k \in Nat
    OBVIOUS
<1>2. b \in Seq(S) /\ Len(b) = k - 1 /\ \A i \in 1..(k - 1) : b[i] = q[i]
    BY <1>1, Prefix
<1>3. c \in Seq(S) /\ Len(c) = Len(q) - k /\ \A i \in 1..(Len(q) - k) : c[i] = q[k + i]
  <2>1. \A i \in (k + 1)..Len(q) : q[i] \in S
    OBVIOUS
  <2>2. c \in Seq(S) /\ Len(c) = (IF k + 1 <= Len(q) THEN Len(q) - (k + 1) + 1 ELSE 0)
        /\ \A i \in 1..(Len(q) - (k + 1) + 1) : c[i] = q[k + 1 + i - 1]
    BY <1>1, <2>1, SubSeqProperties
  <2> HIDE DEF c
  <2>3. Len(c) = Len(q) - k /\ Len(q) - (k + 1) + 1 = Len(q) - k
    BY <1>1, <2>2
  <2>4. \A i \in 1..(Len(q) - k) : k + 1 + i - 1 = k + i
    BY <1>1
  <2> QED
    BY <2>2, <2>3, <2>4
<1> HIDE DEF b, c
<1>4. b \o c \in Seq(S) /\ Len(b \o c) = Len(b) + Len(c)
      /\ \A i \in 1..(Len(b) + Len(c)) : (b \o c)[i] = IF i <= Len(b) THEN b[i] ELSE c[i - Len(b)]
    BY <1>2, <1>3, ConcatProperties
<1>5. Len(b) + Len(c) = Len(q) - 1
    BY <1>1, <1>2, <1>3
<1>6. ASSUME NEW i \in 1..(Len(q) - 1)
      PROVE  (b \o c)[i] = IF i < k THEN q[i] ELSE q[i + 1]
  <2>1. ASSUME i < k PROVE (b \o c)[i] = q[i]
    BY <1>1, <1>2, <1>4, <1>5, <2>1
  <2>2. ASSUME ~(i < k) PROVE (b \o c)[i] = q[i + 1]
    <3>1. i - (k - 1) \in 1..(Len(q) - k) /\ k + (i - (k - 1)) = i + 1 /\ ~(i <= k - 1)
      BY <1>1, <2>2
    <3>2. (b \o c)[i] = c[i - (k - 1)]
      BY <1>2, <1>4, <1>5, <3>1
    <3> QED
      BY <1>3, <3>1, <3>2
  <2> QED
    BY <2>1, <2>2
<1>7. b \o c = SubSeq(q, 1, k - 1) \o SubSeq(q, k + 1, Len(q))
    BY DEF b, c
<1> QED
    BY <1>4, <1>5, <1>6, <1>7

-----------------------------------------------------------------------------
(* The shape of the state *)

\* The files, the indexes and the work areas.
DataShape ==
    /\ rows \in Files /\ \A t \in Tables : Len(rows[t]) <= MaxRows
    /\ idx \in [Tables -> SUBSET ((1..MaxRows) \X Vals)]
    /\ wa \in [Tables -> WorkAreas]
    /\ \A t \in Tables : wa[t].cnt <= Len(rows[t]) /\ (wa[t].open => wa[t].gen > 0)
    /\ foreign \in [Tables -> SUBSET (1..MaxRows)]

\* The Tx object.
TxShape ==
    /\ tx \in TxRecords
    /\ ~tx.active => tx = IdleTx
    /\ Len(tx.ops) <= MaxOps /\ Len(tx.saves) <= MaxSaves
    /\ \A i \in 1..Len(tx.ops) : ~tx.ops[i].isAppend => tx.ops[i].image \in Row
    /\ depth \in 0..MaxDepth /\ (depth > 0 <=> tx.active)

\* The rollback that runs.
JobShape ==
    /\ pc \in {"api", "rollback", "savepoint"} /\ (pc # "api" => tx.active)
    /\ job \in [images : SUBSET Images, appends : SUBSET Keys, skip : SUBSET Keys,
                next : Nat, idx : Nat, mark : Nat]
    /\ pc = "rollback" => job.images \subseteq tx.before /\ job.appends \subseteq tx.appended
    /\ pc = "savepoint" =>
          /\ job.images = {} /\ job.appends \subseteq job.skip
          /\ job.idx <= job.next /\ job.next <= Len(tx.ops)
          /\ job.mark \in 1..Len(tx.saves) /\ job.idx = tx.saves[job.mark].idx

\* The history.
HistoryShape ==
    /\ snap \in Files
    /\ marks \in Seq(Files) /\ Len(marks) = Len(tx.saves)

Shape == DataShape /\ TxShape /\ JobShape /\ HistoryShape /\ MarksNested

\* A table and what is in it.
LEMMA TableShape ==
    ASSUME DataShape, NEW t \in Tables
    PROVE  /\ rows[t] \in Seq(Row) /\ Len(rows[t]) \in 0..MaxRows
           /\ \A r \in 1..Len(rows[t]) : rows[t][r] \in Row /\ rows[t][r].val \in Vals
           /\ idx[t] \in SUBSET ((1..MaxRows) \X Vals)
           /\ wa[t] \in WorkAreas /\ wa[t].buf \in Row /\ wa[t].recno \in 0..MaxRows
           /\ wa[t].cnt \in 0..Len(rows[t])
           /\ wa[t].gen \in 0..MaxOpens /\ (wa[t].open => wa[t].gen \in 1..MaxOpens)
<1> USE TxConnectionAssumption
<1>1. rows[t] \in Seq(Row) /\ Len(rows[t]) \in 0..MaxRows
    BY DEF DataShape, Files
<1>2. \A r \in 1..Len(rows[t]) : rows[t][r] \in Row
    BY <1>1, Elements
<1>3. wa[t] \in WorkAreas /\ wa[t].cnt <= Len(rows[t]) /\ (wa[t].open => wa[t].gen > 0)
    BY DEF DataShape
<1> QED
    BY <1>1, <1>2, <1>3 DEF DataShape, WorkAreas, Row

\* What the Tx object holds.
LEMMA TxElements ==
    ASSUME tx \in TxRecords
    PROVE  /\ tx.ops \in Seq(OpRecords) /\ tx.saves \in Seq(MarkRecords)
           /\ Len(tx.ops) \in Nat /\ Len(tx.saves) \in Nat
           /\ \A i \in 1..Len(tx.ops) : tx.ops[i] \in OpRecords /\ tx.ops[i].key \in Keys
           /\ \A i \in 1..Len(tx.saves) : tx.saves[i] \in MarkRecords /\ tx.saves[i].idx \in Nat
<1>1. tx.ops \in Seq(OpRecords) /\ tx.saves \in Seq(MarkRecords)
    BY DEF TxRecords
<1>2. \A i \in 1..Len(tx.ops) : tx.ops[i] \in OpRecords
    BY <1>1, Elements
<1>3. \A i \in 1..Len(tx.saves) : tx.saves[i] \in MarkRecords
    BY <1>1, Elements
<1> QED
    BY <1>1, <1>2, <1>3 DEF OpRecords, MarkRecords

\* The key of a row of a table that is open.
LEMMA HereIsKey ==
    ASSUME DataShape, NEW t \in Tables, wa[t].open, NEW r \in 1..MaxRows
    PROVE  Here(t, r) \in Keys
<1>1. wa[t].gen \in 1..MaxOpens
    BY TableShape
<1> QED
    BY <1>1 DEF Here, NewKey, Keys

\* The three calls that write the current record write a row.
LEMMA WritesRow ==
    ASSUME DataShape, NEW t \in Tables,
           \/ \E v \in Vals : SetField(t, v)
           \/ MarkDeleted(t) \/ RecallDeleted(t)
    PROVE  \E new \in Row : WriteRecord(t, new)
<1>1. wa[t].buf \in Row
    BY TableShape
<1>2. /\ \A v \in Vals : [wa[t].buf EXCEPT !.val = v] \in Row
      /\ [wa[t].buf EXCEPT !.del = TRUE] \in Row /\ [wa[t].buf EXCEPT !.del = FALSE] \in Row
    BY <1>1 DEF Row
<1> QED
    BY <1>2 DEF SetField, MarkDeleted, RecallDeleted

\* The index stays an index.
LEMMA SyncedShape ==
    ASSUME DataShape, NEW t \in Tables, NEW r \in 1..MaxRows, NEW prev, NEW new \in Vals
    PROVE  Synced(t, r, prev, new) \in SUBSET ((1..MaxRows) \X Vals)
BY TableShape DEF Synced

\* A work area that loses its record.
LEMMA ResetArea ==
    ASSUME NEW w \in WorkAreas
    PROVE  /\ Reset(w) \in WorkAreas /\ ~Reset(w).pos /\ Reset(w).buf = w.buf
           /\ Reset(w).open = w.open /\ Reset(w).gen = w.gen /\ Reset(w).cnt = w.cnt
<1>1. 0 \in 0..MaxRows
    BY TxConnectionAssumption
<1> QED
    BY <1>1 DEF WorkAreas, Reset

\* A row that is stored comes with its work area and index.
LEMMA StoreKeepsData ==
    ASSUME DataShape, NEW t \in Tables, NEW r, NEW row \in Row, Stores(t, r, row),
           NEW w \in WorkAreas, w.cnt = wa[t].cnt, w.open = wa[t].open, w.gen = wa[t].gen,
           wa' = [wa EXCEPT ![t] = w],
           NEW e \in SUBSET ((1..MaxRows) \X Vals), idx' = [idx EXCEPT ![t] = e],
           foreign' = foreign
    PROVE  DataShape'
<1>1. rows \in Files
    BY DEF DataShape
<1>2. rows' \in Files /\ \A u \in Tables : Len(rows'[u]) = Len(rows[u])
    BY <1>1, StoreRow
<1>3. \A u \in Tables : wa'[u] \in WorkAreas /\ wa'[u].cnt <= Len(rows'[u])
                        /\ (wa'[u].open => wa'[u].gen > 0)
    BY <1>2 DEF DataShape
<1> QED
    BY <1>2, <1>3 DEF DataShape

\* A work area that moves leaves the rest alone.
LEMMA MoveKeepsData ==
    ASSUME DataShape, UNCHANGED <<rows, idx, foreign>>, NEW t \in Tables, NEW w \in WorkAreas,
           w.cnt <= Len(rows[t]), w.open => w.gen > 0,
           wa' = [wa EXCEPT ![t] = w]
    PROVE  DataShape'
BY DEF DataShape

\* A reloaded buffer is a row.
LEMMA RefreshKeepsData ==
    ASSUME DataShape, UNCHANGED <<rows, idx, foreign>>, NEW T,
           wa' = [t \in Tables |-> IF t \in T THEN Refreshed(t) ELSE wa[t]]
    PROVE  DataShape'
<1>1. ASSUME NEW t \in Tables
      PROVE  /\ wa'[t] \in WorkAreas /\ wa'[t].cnt <= Len(rows[t])
             /\ (wa'[t].open => wa'[t].gen > 0)
  <2> DEFINE row == rows[t][wa[t].recno]
             w == [wa[t] EXCEPT !.buf = row]
  <2>1. /\ wa[t] \in WorkAreas /\ wa[t].cnt <= Len(rows[t]) /\ (wa[t].open => wa[t].gen > 0)
        /\ InFile(t, wa[t].recno) => row \in Row
    BY TableShape DEF DataShape, InFile
  <2>2. ASSUME wa'[t] = wa[t] PROVE  wa'[t] \in WorkAreas /\ wa'[t].cnt <= Len(rows[t]) /\ (wa'[t].open => wa'[t].gen > 0)
    BY <2>1, <2>2
  <2>3. ASSUME wa'[t] = w, row \in Row PROVE  wa'[t] \in WorkAreas /\ wa'[t].cnt <= Len(rows[t]) /\ (wa'[t].open => wa'[t].gen > 0)
    <3>1. w \in WorkAreas
      BY <2>1, <2>3 DEF WorkAreas
    <3>2. w.open = wa[t].open /\ w.gen = wa[t].gen /\ w.cnt = wa[t].cnt
      BY <2>1 DEF WorkAreas
    <3> QED
      BY <2>1, <2>3, <3>1, <3>2
  <2>4. wa'[t] = wa[t] \/ (wa'[t] = w /\ InFile(t, wa[t].recno))
    BY DEF Refreshed
  <2> QED
    BY <2>1, <2>2, <2>3, <2>4
<1> QED
    BY <1>1 DEF DataShape

\* A row popped or marked deleted.
LEMMA RemoveKeepsData ==
    ASSUME DataShape, NEW key \in Keys, RemoveAppended(key)
    PROVE  DataShape'
<1> USE TxConnectionAssumption
<1> DEFINE t == key.table
           r == key.recno
           p == PopOrDelete(rows[t], r)
<1>1. t \in Tables /\ r \in 1..MaxRows /\ r \in Nat \ {0}
    BY DEF Keys
<1>2. CASE ~IsOpen(key)
    BY <1>2 DEF RemoveAppended, DataShape
<1>3. CASE IsOpen(key)
  <2>1. /\ idx' = [idx EXCEPT ![t] = IF InFile(t, r) THEN @ \ {<<r, rows[t][r].val>>} ELSE @]
        /\ rows' = [rows EXCEPT ![t] = p]
        /\ wa' = [wa EXCEPT ![t] = [Reset(@) EXCEPT !.cnt = Len(rows'[t])]]
        /\ foreign' = foreign
    BY <1>3 DEF RemoveAppended
  <2>2. p \in Seq(Row) /\ Len(p) <= Len(rows[t]) /\ Len(p) \in Nat
    <3>1. rows[t] \in Seq(Row) /\ Len(rows[t]) \in Nat
      BY <1>1, TableShape
    <3>2. p \in Seq(Row) /\ Len(p) \in {Len(rows[t]), Len(rows[t]) - 1}
      BY <1>1, <3>1, PoppedRows
    <3>3. Len(p) \in Nat
      BY <3>2
    <3> QED
      BY <3>1, <3>2, <3>3
  <2> HIDE DEF p
  <2>3. rows' \in Files /\ rows'[t] = p /\ \A u \in Tables : u # t => rows'[u] = rows[u]
    BY <1>1, <2>1, <2>2 DEF DataShape, Files
  <2>4. Len(p) \in 0..MaxRows
    BY <1>1, <2>2, TableShape
  <2>5. idx' \in [Tables -> SUBSET ((1..MaxRows) \X Vals)]
    BY <1>1, <2>1 DEF DataShape
  <2>6. wa[t] \in WorkAreas
    BY <1>1, TableShape
  <2>7. wa'[t] = [Reset(wa[t]) EXCEPT !.cnt = Len(p)]
    BY <1>1, <2>1, <2>3 DEF DataShape
  <2>8. /\ wa'[t] \in WorkAreas /\ wa'[t].cnt = Len(p)
        /\ wa'[t].open = wa[t].open /\ wa'[t].gen = wa[t].gen
    <3> DEFINE v == Reset(wa[t])
    <3>1. v \in WorkAreas /\ v.open = wa[t].open /\ v.gen = wa[t].gen
      BY <2>6, ResetArea
    <3>2. wa'[t] = [v EXCEPT !.cnt = Len(p)]
      BY <2>7
    <3> HIDE DEF v
    <3> QED
      BY <2>4, <3>1, <3>2 DEF WorkAreas
  <2>9. wa' \in [Tables -> WorkAreas] /\ \A u \in Tables : u # t => wa'[u] = wa[u]
    BY <1>1, <2>1, <2>8 DEF DataShape
  <2>10. \A u \in Tables : /\ Len(rows'[u]) <= MaxRows /\ wa'[u].cnt <= Len(rows'[u])
                           /\ (wa'[u].open => wa'[u].gen > 0)
    <3>1. ASSUME NEW u \in Tables, u # t
          PROVE  /\ Len(rows'[u]) <= MaxRows /\ wa'[u].cnt <= Len(rows'[u])
                 /\ (wa'[u].open => wa'[u].gen > 0)
      BY <2>3, <2>9, <3>1 DEF DataShape
    <3>2. Len(rows'[t]) <= MaxRows /\ wa'[t].cnt <= Len(rows'[t])
      BY <2>3, <2>4, <2>8
    <3>3. wa'[t].open => wa'[t].gen > 0
      BY <1>1, <2>8 DEF DataShape
    <3> QED
      BY <3>1, <3>2, <3>3
  <2> QED
    BY <2>1, <2>3, <2>5, <2>9, <2>10 DEF DataShape
<1> QED
    BY <1>2, <1>3

\* Every step keeps the shape of the data.
LEMMA DataKept ==
    ASSUME Shape, Next
    PROVE  DataShape'
<1> USE TxConnectionAssumption
<1>0. DataShape /\ TxShape /\ JobShape
    BY DEF Shape
<1>1. ASSUME NEW t \in Tables, NEW new \in Row, WriteRecord(t, new)
      PROVE  DataShape'
  <2> DEFINE r == wa[t].recno
             w == [wa[t] EXCEPT !.buf = new]
             e == Synced(t, r, wa[t].buf.val, new.val)
  <2>1. /\ Stores(t, r, new) /\ foreign' = foreign
        /\ wa' = [wa EXCEPT ![t] = w] /\ idx' = [idx EXCEPT ![t] = e]
    BY <1>1 DEF WriteRecord, Stores
  <2>2. w \in WorkAreas /\ w.cnt = wa[t].cnt /\ w.open = wa[t].open /\ w.gen = wa[t].gen
    <3>1. wa[t] \in WorkAreas
      BY <1>0, TableShape
    <3> QED
      BY <3>1 DEF WorkAreas
  <2>3. r \in 1..MaxRows /\ new.val \in Vals
    BY <1>0, <2>1, TableShape DEF InFile, Stores, Row
  <2>4. e \in SUBSET ((1..MaxRows) \X Vals)
    BY <1>0, <2>3, SyncedShape
  <2> HIDE DEF r, w, e
  <2> QED
    BY <1>0, <2>1, <2>2, <2>4, StoreKeepsData
<1>2. ASSUME NEW t \in Tables,
             \/ \E v \in Vals : SetField(t, v)
             \/ MarkDeleted(t) \/ RecallDeleted(t)
      PROVE  DataShape'
  <2>1. PICK new \in Row : WriteRecord(t, new)
    BY <1>0, <1>2, WritesRow
  <2> QED
    BY <1>1, <2>1
<1>3. ASSUME NEW t \in Tables, NEW v \in Vals, ForeignAppend(t, v)
      PROVE  DataShape'
  <2> DEFINE row == [val |-> v, del |-> FALSE]
             r == Len(rows[t]) + 1
  <2>1. /\ r <= MaxRows /\ rows' = [rows EXCEPT ![t] = Append(@, row)] /\ wa' = wa
        /\ idx' = [idx EXCEPT ![t] = IF t \in Indexed THEN @ \cup {<<r, v>>} ELSE @]
        /\ foreign' = [foreign EXCEPT ![t] = @ \cup {r}]
    BY <1>3 DEF ForeignAppend
  <2>2. row \in Row /\ rows \in Files /\ r \in 1..MaxRows
    BY <1>0, <2>1, TableShape DEF Row, DataShape
  <2>3. /\ rows' \in Files /\ Len(rows'[t]) = r
        /\ \A u \in Tables : u # t => rows'[u] = rows[u]
    BY <2>1, <2>2, AddRow
  <2>4. idx' \in [Tables -> SUBSET ((1..MaxRows) \X Vals)]
        /\ foreign' \in [Tables -> SUBSET (1..MaxRows)]
    BY <1>0, <2>1, <2>2 DEF DataShape
  <2>5. \A u \in Tables : Len(rows'[u]) <= MaxRows /\ Len(rows[u]) <= Len(rows'[u])
    <3>1. \A u \in Tables : Len(rows[u]) <= Len(rows'[u]) /\ Len(rows[u]) <= MaxRows
      BY <1>0, <2>1, <2>2, AddRow DEF DataShape
    <3>2. Len(rows'[t]) <= MaxRows
      BY <2>1, <2>3
    <3> QED
      BY <2>3, <3>1, <3>2
  <2>6. \A u \in Tables : wa[u].cnt <= Len(rows'[u])
    <3>1. ASSUME NEW u \in Tables PROVE wa[u].cnt <= Len(rows'[u])
      <4>1. /\ wa[u].cnt \in 0..Len(rows[u]) /\ Len(rows[u]) \in 0..MaxRows
            /\ Len(rows[u]) <= Len(rows'[u])
        BY <1>0, <2>5, TableShape
      <4>2. Len(rows'[u]) \in Nat
        BY <2>3 DEF Files
      <4> QED
        BY <4>1, <4>2
    <3> QED
      BY <3>1
  <2> QED
    BY <1>0, <2>1, <2>3, <2>4, <2>5, <2>6 DEF DataShape
<1>4. ASSUME NEW t \in Tables, AppendRecord(t)
      PROVE  DataShape'
  <2> DEFINE r == Len(rows[t]) + 1
             w == [wa[t] EXCEPT !.cnt = r, !.pos = TRUE, !.recno = r, !.buf = BlankRow]
  <2>1. /\ r <= MaxRows /\ rows' = [rows EXCEPT ![t] = Append(@, BlankRow)]
        /\ wa' = [wa EXCEPT ![t] = w] /\ idx' = idx /\ foreign' = foreign
    BY <1>4 DEF AppendRecord
  <2>2. BlankRow \in Row /\ rows \in Files /\ r \in 1..MaxRows
    BY <1>0, <2>1, TableShape DEF Row, BlankRow, DataShape
  <2>3. /\ rows' \in Files /\ Len(rows'[t]) = r
        /\ \A u \in Tables : u # t => rows'[u] = rows[u]
    BY <2>1, <2>2, AddRow
  <2>4. w \in WorkAreas /\ w.cnt = r /\ w.open = wa[t].open /\ w.gen = wa[t].gen
    <3>1. wa[t] \in WorkAreas /\ r \in 0..MaxRows
      BY <1>0, <2>2, TableShape
    <3> HIDE DEF r
    <3> QED
      BY <2>2, <3>1 DEF WorkAreas
  <2> HIDE DEF w
  <2>5. wa' \in [Tables -> WorkAreas]
        /\ \A u \in Tables : wa'[u].cnt <= Len(rows'[u]) /\ (wa'[u].open => wa'[u].gen > 0)
    BY <1>0, <2>1, <2>2, <2>3, <2>4 DEF DataShape
  <2>6. \A u \in Tables : Len(rows'[u]) <= MaxRows
    BY <1>0, <2>1, <2>3 DEF DataShape
  <2> QED
    BY <1>0, <2>1, <2>3, <2>5, <2>6 DEF DataShape
<1>5. ASSUME NEW t \in Tables, OpenTable(t)
      PROVE  DataShape'
  <2> DEFINE w == [open |-> TRUE, gen |-> wa[t].gen + 1, cnt |-> Len(rows[t]),
                   pos |-> FALSE, recno |-> 0, buf |-> BlankRow]
  <2>1. wa' = [wa EXCEPT ![t] = w] /\ UNCHANGED <<rows, idx, foreign>> /\ wa[t].gen < MaxOpens
    BY <1>5 DEF OpenTable
  <2>2. wa[t].gen \in 0..MaxOpens /\ Len(rows[t]) \in 0..MaxRows /\ BlankRow \in Row
    BY <1>0, TableShape DEF Row, BlankRow
  <2>3. w \in WorkAreas /\ w.cnt <= Len(rows[t]) /\ w.gen > 0
    BY <2>1, <2>2 DEF WorkAreas
  <2> QED
    BY <1>0, <2>1, <2>3, MoveKeepsData
<1>6. ASSUME NEW t \in Tables, CloseTable(t)
      PROVE  DataShape'
  <2> DEFINE w == [Reset(wa[t]) EXCEPT !.open = FALSE, !.cnt = 0, !.buf = BlankRow]
  <2>1. wa' = [wa EXCEPT ![t] = w] /\ UNCHANGED <<rows, idx, foreign>>
    BY <1>6 DEF CloseTable
  <2>2. BlankRow \in Row /\ wa[t] \in WorkAreas /\ Len(rows[t]) \in Nat
    BY <1>0, TableShape DEF Row, BlankRow
  <2>3. w \in WorkAreas /\ w.cnt <= Len(rows[t]) /\ ~w.open
    <3> DEFINE v == Reset(wa[t])
    <3>1. v \in WorkAreas
      BY <2>2, ResetArea
    <3>2. w = [v EXCEPT !.open = FALSE, !.cnt = 0, !.buf = BlankRow]
      OBVIOUS
    <3> HIDE DEF v, w
    <3>3. 0 \in 0..MaxRows /\ 0 <= Len(rows[t])
      BY <2>2
    <3>4. w \in WorkAreas /\ w.cnt = 0 /\ ~w.open
      BY <2>2, <3>1, <3>2, <3>3 DEF WorkAreas
    <3> QED
      BY <3>3, <3>4
  <2> QED
    BY <1>0, <2>1, <2>3, MoveKeepsData
<1>7. ASSUME NEW t \in Tables, NEW r \in 0..MaxRows, GotoRecord(t, r)
      PROVE  DataShape'
  <2> DEFINE w == IF r \in 1..wa[t].cnt
                  THEN [wa[t] EXCEPT !.pos = TRUE, !.recno = r, !.buf = rows[t][r]]
                  ELSE Reset(wa[t])
  <2>1. wa' = [wa EXCEPT ![t] = w] /\ UNCHANGED <<rows, idx, foreign>>
    BY <1>7 DEF GotoRecord
  <2>2. r \in 1..wa[t].cnt => rows[t][r] \in Row
    BY <1>0, TableShape
  <2>3. w \in WorkAreas /\ w.cnt = wa[t].cnt /\ w.gen = wa[t].gen /\ w.open = wa[t].open
    <3>1. wa[t] \in WorkAreas /\ wa[t].buf \in Row
      BY <1>0, TableShape
    <3>2. CASE r \in 1..wa[t].cnt
      <4>1. w = [wa[t] EXCEPT !.pos = TRUE, !.recno = r, !.buf = rows[t][r]]
        BY <3>2
      <4> HIDE DEF w
      <4> QED
        BY <2>2, <3>1, <3>2, <4>1 DEF WorkAreas
    <3>3. CASE r \notin 1..wa[t].cnt
      <4>1. w = Reset(wa[t])
        BY <3>3
      <4> HIDE DEF w
      <4> QED
        BY <3>1, <4>1, ResetArea
    <3> QED
      BY <3>2, <3>3
  <2>4. wa[t].cnt <= Len(rows[t]) /\ (wa[t].open => wa[t].gen > 0)
    BY <1>0 DEF DataShape
  <2> HIDE DEF w
  <2> QED
    BY <1>0, <2>1, <2>3, <2>4, MoveKeepsData
<1>8. ASSUME NEW b \in job.images, RestoreImage(b)
      PROVE  DataShape'
  <2> DEFINE t == b.key.table
             r == b.key.recno
             w == [wa[t] EXCEPT !.pos = TRUE, !.recno = r, !.buf = b.image]
             e == Synced(t, r, rows[t][r].val, b.image.val)
  <2>1. t \in Tables /\ r \in 1..MaxRows /\ b.image \in Row /\ b.image.val \in Vals
    BY <1>0 DEF JobShape, Images, Keys, Row
  <2>2. CASE IsOpen(b.key) /\ InFile(t, r)
    <3>1. /\ Stores(t, r, b.image) /\ foreign' = foreign
          /\ wa' = [wa EXCEPT ![t] = w] /\ idx' = [idx EXCEPT ![t] = e]
      BY <1>8, <2>2 DEF RestoreImage, Stores
    <3>2. w \in WorkAreas /\ w.cnt = wa[t].cnt /\ w.open = wa[t].open /\ w.gen = wa[t].gen
      <4>1. r \in 0..MaxRows /\ wa[t] \in WorkAreas
        BY <1>0, <2>1, TableShape
      <4> HIDE DEF t, r
      <4> QED
        BY <2>1, <4>1 DEF WorkAreas
    <3>3. e \in SUBSET ((1..MaxRows) \X Vals)
      BY <1>0, <2>1, SyncedShape
    <3> HIDE DEF t, r, w, e
    <3> QED
      BY <1>0, <2>1, <3>1, <3>2, <3>3, StoreKeepsData
  <2>3. CASE ~(IsOpen(b.key) /\ InFile(t, r))
    BY <1>0, <1>8, <2>3 DEF RestoreImage, DataShape
  <2> QED
    BY <2>2, <2>3
<1>9. ASSUME NEW k \in job.appends, RollbackAppend(k) \/ SavepointAppend(k)
      PROVE  DataShape'
  <2>1. k \in Keys
    BY <1>0 DEF JobShape
  <2> QED
    BY <1>0, <1>9, <2>1, RemoveKeepsData DEF RollbackAppend, SavepointAppend
<1>10. CASE UndoOp
  <2> DEFINE op == tx.ops[job.next]
             t == op.key.table
             r == op.key.recno
  <2>1. /\ \/ rows' = rows
           \/ ~op.isAppend /\ Stores(t, r, op.image)
        /\ UNCHANGED <<idx, wa, foreign>>
    BY <1>10 DEF UndoOp, Stores
  <2>2. job.next \in 1..Len(tx.ops)
    BY <1>0, <1>10 DEF UndoOp, JobShape, TxShape
  <2>3. op \in OpRecords /\ (~op.isAppend => op.image \in Row)
    BY <1>0, <2>2, TxElements DEF TxShape
  <2>4. t \in Tables
    BY <2>3 DEF OpRecords, Keys
  <2> HIDE DEF op
  <2>5. CASE rows' = rows
    BY <1>0, <2>1, <2>5 DEF DataShape
  <2>6. CASE ~op.isAppend /\ Stores(t, r, op.image)
    <3>1. rows \in Files /\ op.image \in Row
      BY <1>0, <2>3, <2>6 DEF DataShape
    <3>2. rows' \in Files /\ \A u \in Tables : Len(rows'[u]) = Len(rows[u])
      <4> HIDE DEF t, r
      <4> QED
        BY <2>4, <2>6, <3>1, StoreRow
    <3> QED
      BY <1>0, <2>1, <3>2 DEF DataShape
  <2> QED
    BY <2>1, <2>5, <2>6
<1>11. CASE RollbackFinish
  <2> DEFINE T == {t \in Tables : \E k \in tx.appended \cup {b.key : b \in tx.before} :
                                     k.table = t /\ IsOpen(k)}
  <2>1. wa' = [t \in Tables |-> IF t \in T THEN Refreshed(t) ELSE wa[t]]
        /\ UNCHANGED <<rows, idx, foreign>>
    BY <1>11 DEF RollbackFinish
  <2> HIDE DEF T
  <2> QED
    BY <1>0, <2>1, RefreshKeepsData
<1>12. CASE SavepointFinish
  <2> DEFINE T == {t \in Tables : \E i \in 1..job.idx :
                                     tx.ops[i].key.table = t /\ IsOpen(tx.ops[i].key)}
  <2>1. wa' = [t \in Tables |-> IF t \in T THEN Refreshed(t) ELSE wa[t]]
        /\ UNCHANGED <<rows, idx, foreign>>
    BY <1>12 DEF SavepointFinish
  <2> HIDE DEF T
  <2> QED
    BY <1>0, <2>1, RefreshKeepsData
<1>13. CASE TxCall
    BY <1>0, <1>13 DEF TxCall, BeginTx, CommitTx, RollbackTx, SavepointTx, ReleaseTx,
                       RollbackToSavepoint, DataShape
<1> QED
    BY <1>2, <1>3, <1>4, <1>5, <1>6, <1>7, <1>8, <1>9, <1>10, <1>11, <1>12, <1>13
       DEF Next, Mutate, Navigate, TxStep

-----------------------------------------------------------------------------
(* The Tx object *)

\* A mutation is noted.
LEMMA NotedImage ==
    ASSUME tx \in TxRecords, NEW key \in Keys, NEW image \in Row,
           tx' = NoteBeforeImage(tx, key, image)
    PROVE  /\ tx' \in TxRecords /\ tx'.active = tx.active /\ tx'.saves = tx.saves
           /\ tx'.appended = tx.appended
           /\ tx'.before = IF Touched(tx, key) THEN tx.before
                           ELSE tx.before \cup {[key |-> key, image |-> image]}
           /\ tx'.ops \in Seq(OpRecords) /\ Len(tx'.ops) = Len(tx.ops) + 1
           /\ tx'.ops[Len(tx.ops) + 1] = [key |-> key, isAppend |-> FALSE, image |-> image]
           /\ \A i \in 1..Len(tx.ops) : tx'.ops[i] = tx.ops[i]
<1> DEFINE op == [key |-> key, isAppend |-> FALSE, image |-> image]
           q == Append(tx.ops, op)
           b == IF Touched(tx, key) THEN tx.before
                ELSE tx.before \cup {[key |-> key, image |-> image]}
<1>1. op \in OpRecords /\ tx.ops \in Seq(OpRecords)
    BY DEF OpRecords, TxRecords
<1>2. /\ q \in Seq(OpRecords) /\ Len(q) = Len(tx.ops) + 1 /\ q[Len(tx.ops) + 1] = op
      /\ \A i \in 1..Len(tx.ops) : q[i] = tx.ops[i]
  <2> HIDE DEF op
  <2> QED
    BY <1>1, AppendProperties
<1>3. b \in SUBSET Images
    BY DEF Images, TxRecords
<1>4. tx' = [tx EXCEPT !.before = b, !.ops = q]
    BY DEF NoteBeforeImage
<1> HIDE DEF b, q
<1>5. /\ tx' \in TxRecords /\ tx'.active = tx.active /\ tx'.saves = tx.saves
      /\ tx'.appended = tx.appended /\ tx'.before = b /\ tx'.ops = q
    BY <1>2, <1>3, <1>4 DEF TxRecords
<1> QED
    BY <1>2, <1>5 DEF b

\* An append is noted.
LEMMA NotedAppend ==
    ASSUME tx \in TxRecords, NEW key \in Keys, tx' = NoteAppend(tx, key)
    PROVE  /\ tx' \in TxRecords /\ tx'.active = tx.active /\ tx'.saves = tx.saves
           /\ tx'.appended = tx.appended \cup {key} /\ tx'.before = tx.before
           /\ tx'.ops \in Seq(OpRecords) /\ Len(tx'.ops) = Len(tx.ops) + 1
           /\ tx'.ops[Len(tx.ops) + 1] = [key |-> key, isAppend |-> TRUE, image |-> NoImage]
           /\ \A i \in 1..Len(tx.ops) : tx'.ops[i] = tx.ops[i]
<1> DEFINE op == [key |-> key, isAppend |-> TRUE, image |-> NoImage]
           q == Append(tx.ops, op)
<1>1. op \in OpRecords /\ tx.ops \in Seq(OpRecords)
    BY DEF OpRecords, TxRecords
<1>2. /\ q \in Seq(OpRecords) /\ Len(q) = Len(tx.ops) + 1 /\ q[Len(tx.ops) + 1] = op
      /\ \A i \in 1..Len(tx.ops) : q[i] = tx.ops[i]
  <2> HIDE DEF op
  <2> QED
    BY <1>1, AppendProperties
<1>3. tx' = [tx EXCEPT !.appended = @ \cup {key}, !.ops = q]
    BY DEF NoteAppend
<1> HIDE DEF q
<1>4. /\ tx' \in TxRecords /\ tx'.active = tx.active /\ tx'.saves = tx.saves
      /\ tx'.appended = tx.appended \cup {key} /\ tx'.before = tx.before /\ tx'.ops = q
    BY <1>2, <1>3 DEF TxRecords
<1> QED
    BY <1>2, <1>4

\* A mark is set.
LEMMA Marked ==
    ASSUME tx \in TxRecords, NEW n \in Names, tx' = CreateSavepoint(tx, n)
    PROVE  /\ tx' \in TxRecords /\ tx'.active = tx.active /\ tx'.ops = tx.ops
           /\ tx'.before = tx.before /\ tx'.appended = tx.appended
           /\ Len(tx'.saves) = Len(tx.saves) + 1
           /\ tx'.saves[Len(tx.saves) + 1].idx = Len(tx.ops)
           /\ \A i \in 1..Len(tx.saves) : tx'.saves[i] = tx.saves[i]
<1> DEFINE mark == [name |-> n, idx |-> Len(tx.ops)]
           q == Append(tx.saves, mark)
<1>1. mark \in MarkRecords /\ tx.saves \in Seq(MarkRecords)
    BY DEF MarkRecords, TxRecords
<1>2. /\ q \in Seq(MarkRecords) /\ Len(q) = Len(tx.saves) + 1 /\ q[Len(tx.saves) + 1] = mark
      /\ \A i \in 1..Len(tx.saves) : q[i] = tx.saves[i]
  <2> HIDE DEF mark
  <2> QED
    BY <1>1, AppendProperties
<1>3. tx' = [tx EXCEPT !.saves = q]
    BY DEF CreateSavepoint
<1> HIDE DEF q
<1>4. /\ tx' \in TxRecords /\ tx'.active = tx.active /\ tx'.ops = tx.ops
      /\ tx'.before = tx.before /\ tx'.appended = tx.appended /\ tx'.saves = q
    BY <1>2, <1>3 DEF TxRecords
<1> QED
    BY <1>2, <1>4

\* A mark is dropped.
LEMMA Dropped ==
    ASSUME tx \in TxRecords, NEW n, MarksNamed(tx, n) # {}, tx' = ReleaseSavepoint(tx, n)
    PROVE  LET at == LatestMark(tx, n)
           IN  /\ tx' \in TxRecords /\ tx'.active = tx.active /\ tx'.ops = tx.ops
               /\ tx'.before = tx.before /\ tx'.appended = tx.appended
               /\ at \in 1..Len(tx.saves) /\ Len(tx'.saves) = Len(tx.saves) - 1
               /\ \A i \in 1..(Len(tx.saves) - 1) :
                     tx'.saves[i] = IF i < at THEN tx.saves[i] ELSE tx.saves[i + 1]
<1> DEFINE at == LatestMark(tx, n)
           q == SubSeq(tx.saves, 1, at - 1) \o SubSeq(tx.saves, at + 1, Len(tx.saves))
<1>1. tx.saves \in Seq(MarkRecords)
    BY DEF TxRecords
<1>2. at \in 1..Len(tx.saves)
    BY <1>1, LatestIsMark
<1>3. tx' = [tx EXCEPT !.saves = q]
    BY DEF ReleaseSavepoint
<1> HIDE DEF at
<1>4. /\ q \in Seq(MarkRecords) /\ Len(q) = Len(tx.saves) - 1
      /\ \A i \in 1..(Len(tx.saves) - 1) :
            q[i] = IF i < at THEN tx.saves[i] ELSE tx.saves[i + 1]
    BY <1>1, <1>2, Without
<1> HIDE DEF q
<1>5. /\ tx' \in TxRecords /\ tx'.active = tx.active /\ tx'.ops = tx.ops
      /\ tx'.before = tx.before /\ tx'.appended = tx.appended /\ tx'.saves = q
    BY <1>3, <1>4 DEF TxRecords
<1> QED
    BY <1>2, <1>4, <1>5 DEF at

\* The operations are cut to those before a mark.
LEMMA Truncated ==
    ASSUME tx \in TxRecords, NEW to \in 0..Len(tx.ops), tx' = TruncateOpsTo(tx, to)
    PROVE  LET n == MarksKept(tx, to)
           IN  /\ tx' \in TxRecords /\ tx'.active = tx.active
               /\ tx'.before = tx.before /\ tx'.appended = tx.appended
               /\ Len(tx'.ops) = to /\ \A i \in 1..to : tx'.ops[i] = tx.ops[i]
               /\ n \in 0..Len(tx.saves) /\ Len(tx'.saves) = n
               /\ \A i \in 1..n : tx'.saves[i] = tx.saves[i]
               /\ n > 0 => tx.saves[n].idx <= to
<1> DEFINE n == MarksKept(tx, to)
           o == IF to < Len(tx.ops) THEN SubSeq(tx.ops, 1, to) ELSE tx.ops
           q == SubSeq(tx.saves, 1, n)
<1>1. tx.saves \in Seq(MarkRecords) /\ tx.ops \in Seq(OpRecords) /\ to \in Nat
    BY DEF TxRecords
<1>2. n \in 0..Len(tx.saves) /\ (n > 0 => tx.saves[n].idx <= to)
    BY <1>1, KeptMarks
<1>3. tx' = [tx EXCEPT !.ops = o, !.saves = q]
    BY DEF TruncateOpsTo
<1>4. o \in Seq(OpRecords) /\ Len(o) = to /\ \A i \in 1..to : o[i] = tx.ops[i]
  <2>1. /\ SubSeq(tx.ops, 1, to) \in Seq(OpRecords) /\ Len(SubSeq(tx.ops, 1, to)) = to
        /\ \A i \in 1..to : SubSeq(tx.ops, 1, to)[i] = tx.ops[i]
    BY <1>1, Prefix
  <2> QED
    BY <1>1, <2>1
<1> HIDE DEF n
<1>5. q \in Seq(MarkRecords) /\ Len(q) = n /\ \A i \in 1..n : q[i] = tx.saves[i]
    BY <1>1, <1>2, Prefix
<1> HIDE DEF o, q
<1>6. /\ tx' \in TxRecords /\ tx'.active = tx.active
      /\ tx'.before = tx.before /\ tx'.appended = tx.appended /\ tx'.ops = o /\ tx'.saves = q
    BY <1>3, <1>4, <1>5 DEF TxRecords
<1> QED
    BY <1>2, <1>4, <1>5, <1>6 DEF n

\* The Tx object between transactions, and a fresh one.
LEMMA IdleShape ==
    /\ IdleTx \in TxRecords /\ Activate(IdleTx) \in TxRecords
    /\ \A x \in {IdleTx, Activate(IdleTx)} :
          x.ops = <<>> /\ x.saves = <<>> /\ x.before = {} /\ x.appended = {}
    /\ ~IdleTx.active /\ Activate(IdleTx).active
<1> DEFINE e == <<>>
           idle == [active |-> FALSE, before |-> {}, appended |-> {}, ops |-> e, saves |-> e]
           live == [active |-> TRUE, before |-> {}, appended |-> {}, ops |-> e, saves |-> e]
<1>1. e \in Seq(OpRecords) /\ e \in Seq(MarkRecords)
    OBVIOUS
<1>2. IdleTx = idle /\ Activate(IdleTx) = [idle EXCEPT !.active = TRUE, !.before = {}, !.appended = {}]
    BY Zenon DEF IdleTx, Activate
<1>3. <<>> = e
    OBVIOUS
<1> HIDE DEF e
<1>4. Activate(IdleTx) = live
    BY <1>2
<1>5. idle \in TxRecords /\ live \in TxRecords
    BY <1>1 DEF TxRecords
<1>6. \A x \in {idle, live} : x.ops = e /\ x.saves = e /\ x.before = {} /\ x.appended = {}
    OBVIOUS
<1>7. ~idle.active /\ live.active
    OBVIOUS
<1> HIDE DEF idle, live
<1> QED
    BY <1>2, <1>3, <1>4, <1>5, <1>6, <1>7

-----------------------------------------------------------------------------
(* The other steps and the shape *)

\* Every step keeps the shape of the Tx object and the order of its marks.
LEMMA TxKept ==
    ASSUME Shape, Next
    PROVE  TxShape' /\ MarksNested'
<1> USE TxConnectionAssumption
<1>0. /\ DataShape /\ TxShape /\ JobShape /\ MarksNested /\ tx \in TxRecords
      /\ Len(tx.ops) \in Nat /\ Len(tx.saves) \in Nat
      /\ \A i \in 1..Len(tx.saves) : tx.saves[i].idx \in Nat
    BY TxElements DEF Shape, TxShape
<1>1. ASSUME UNCHANGED <<tx, depth>>
      PROVE  TxShape' /\ MarksNested'
    BY <1>0, <1>1 DEF TxShape, MarksNested
<1>2. ASSUME tx' = IdleTx, depth' = 0
      PROVE  TxShape' /\ MarksNested'
  <2>1. tx' \in TxRecords /\ ~tx'.active /\ tx'.ops = <<>> /\ tx'.saves = <<>>
    BY <1>2, IdleShape
  <2>2. Len(tx'.ops) = 0 /\ Len(tx'.saves) = 0
    BY <2>1
  <2> QED
    BY <1>2, <2>1, <2>2 DEF TxShape, MarksNested
<1>3. ASSUME tx.active, UNCHANGED depth, tx' \in TxRecords, tx'.active = tx.active,
             tx'.saves = tx.saves, Len(tx'.ops) = Len(tx.ops) + 1, Len(tx.ops) < MaxOps,
             \A i \in 1..Len(tx.ops) : tx'.ops[i] = tx.ops[i],
             LET op == tx'.ops[Len(tx.ops) + 1]
             IN  ~op.isAppend => op.image \in Row
      PROVE  TxShape' /\ MarksNested'
  <2>1. \A i \in 1..Len(tx'.ops) : ~tx'.ops[i].isAppend => tx'.ops[i].image \in Row
    <3>1. \A i \in 1..Len(tx'.ops) : i \in 1..Len(tx.ops) \/ i = Len(tx.ops) + 1
      BY <1>0, <1>3
    <3> QED
      BY <1>0, <1>3, <3>1 DEF TxShape
  <2>2. Len(tx'.ops) <= MaxOps
    BY <1>0, <1>3
  <2>3. TxShape'
    BY <1>0, <1>3, <2>1, <2>2 DEF TxShape
  <2>4. MarksNested'
    BY <1>0, <1>3 DEF MarksNested
  <2> QED
    BY <2>3, <2>4
<1>4. ASSUME NEW t \in Tables, NEW new \in Row, WriteRecord(t, new)
      PROVE  TxShape' /\ MarksNested'
  <2> DEFINE key == Here(t, wa[t].recno)
             image == rows[t][wa[t].recno]
  <2>1. CASE ~tx.active
    BY <1>1, <1>4, <2>1 DEF WriteRecord
  <2>2. CASE tx.active
    <3>1. tx' = NoteBeforeImage(tx, key, image) /\ depth' = depth /\ Len(tx.ops) < MaxOps
      BY <1>4, <2>2 DEF WriteRecord
    <3>2. key \in Keys /\ image \in Row
      BY <1>0, <1>4, HereIsKey, TableShape DEF WriteRecord, InFile, Positioned
    <3> HIDE DEF key, image
    <3>3. /\ tx' \in TxRecords /\ tx'.active = tx.active /\ tx'.saves = tx.saves
          /\ Len(tx'.ops) = Len(tx.ops) + 1
          /\ \A i \in 1..Len(tx.ops) : tx'.ops[i] = tx.ops[i]
          /\ tx'.ops[Len(tx.ops) + 1] = [key |-> key, isAppend |-> FALSE, image |-> image]
      BY <1>0, <3>1, <3>2, NotedImage
    <3> QED
      BY <1>3, <2>2, <3>1, <3>2, <3>3
  <2> QED
    BY <2>1, <2>2
<1>5. ASSUME NEW t \in Tables,
             \/ \E v \in Vals : SetField(t, v)
             \/ MarkDeleted(t) \/ RecallDeleted(t)
      PROVE  TxShape' /\ MarksNested'
  <2>1. PICK new \in Row : WriteRecord(t, new)
    BY <1>0, <1>5, WritesRow
  <2> QED
    BY <1>4, <2>1
<1>6. ASSUME NEW t \in Tables, AppendRecord(t)
      PROVE  TxShape' /\ MarksNested'
  <2> DEFINE key == Here(t, Len(rows[t]) + 1)
  <2>1. CASE ~tx.active
    BY <1>1, <1>6, <2>1 DEF AppendRecord
  <2>2. CASE tx.active
    <3>1. tx' = NoteAppend(tx, key) /\ depth' = depth /\ Len(tx.ops) < MaxOps
      BY <1>6, <2>2 DEF AppendRecord
    <3>2. key \in Keys
      <4>1. Len(rows[t]) + 1 \in 1..MaxRows /\ wa[t].open
        BY <1>0, <1>6, TableShape DEF AppendRecord
      <4> QED
        BY <1>0, <4>1, HereIsKey
    <3> HIDE DEF key
    <3>3. /\ tx' \in TxRecords /\ tx'.active = tx.active /\ tx'.saves = tx.saves
          /\ Len(tx'.ops) = Len(tx.ops) + 1
          /\ \A i \in 1..Len(tx.ops) : tx'.ops[i] = tx.ops[i]
          /\ tx'.ops[Len(tx.ops) + 1] = [key |-> key, isAppend |-> TRUE, image |-> NoImage]
      BY <1>0, <3>1, <3>2, NotedAppend
    <3> QED
      BY <1>3, <2>2, <3>1, <3>3
  <2> QED
    BY <2>1, <2>2
<1>7. CASE BeginTx
  <2>1. CASE tx.active
    <3>1. tx' = tx /\ depth' = depth + 1 /\ depth < MaxDepth
      BY <1>7, <2>1 DEF BeginTx
    <3> QED
      BY <1>0, <2>1, <3>1 DEF TxShape, MarksNested
  <2>2. CASE ~tx.active
    <3>1. tx' = Activate(IdleTx) /\ depth' = 1
      BY <1>0, <1>7, <2>2 DEF BeginTx, TxShape
    <3>2. tx' \in TxRecords /\ tx'.active /\ tx'.ops = <<>> /\ tx'.saves = <<>>
      BY <3>1, IdleShape
    <3>3. Len(tx'.ops) = 0 /\ Len(tx'.saves) = 0
      BY <3>2
    <3> QED
      BY <3>1, <3>2, <3>3 DEF TxShape, MarksNested
  <2> QED
    BY <2>1, <2>2
<1>8. CASE CommitTx
  <2>1. CASE depth > 1
    BY <1>0, <1>8, <2>1 DEF CommitTx, TxShape, MarksNested
  <2>2. CASE ~(depth > 1)
    BY <1>2, <1>8, <2>2 DEF CommitTx
  <2> QED
    BY <2>1, <2>2
<1>9. ASSUME NEW n \in Names, SavepointTx(n)
      PROVE  TxShape' /\ MarksNested'
  <2>1. tx' = CreateSavepoint(tx, n) /\ depth' = depth /\ tx.active /\ Len(tx.saves) < MaxSaves
    BY <1>9 DEF SavepointTx
  <2>2. /\ tx' \in TxRecords /\ tx'.active = tx.active /\ tx'.ops = tx.ops
        /\ Len(tx'.saves) = Len(tx.saves) + 1
        /\ tx'.saves[Len(tx.saves) + 1].idx = Len(tx.ops)
        /\ \A i \in 1..Len(tx.saves) : tx'.saves[i] = tx.saves[i]
    BY <1>0, <2>1, Marked
  <2>3. TxShape'
    BY <1>0, <2>1, <2>2 DEF TxShape
  <2>4. MarksNested'
    <3>1. \A i \in 1..Len(tx'.saves) : i \in 1..Len(tx.saves) \/ i = Len(tx.saves) + 1
      BY <1>0, <2>2
    <3>2. \A i \in 1..Len(tx'.saves) : tx'.saves[i].idx <= Len(tx'.ops)
      <4>1. \A i \in 1..Len(tx.saves) : tx.saves[i].idx <= Len(tx.ops)
        BY <1>0 DEF MarksNested
      <4>2. tx'.saves[Len(tx.saves) + 1].idx <= Len(tx'.ops)
        BY <1>0, <2>2
      <4>3. \A i \in 1..Len(tx.saves) : tx'.saves[i].idx <= Len(tx'.ops)
        BY <2>2, <4>1
      <4> QED
        BY <3>1, <4>2, <4>3
    <3>3. ASSUME NEW i \in 1..Len(tx'.saves), NEW j \in 1..Len(tx'.saves), i < j
          PROVE  tx'.saves[i].idx <= tx'.saves[j].idx
      <4>1. i \in 1..Len(tx.saves)
        BY <1>0, <2>2, <3>3
      <4>2. CASE j \in 1..Len(tx.saves)
        BY <1>0, <2>2, <3>3, <4>1, <4>2 DEF MarksNested
      <4>3. CASE j = Len(tx.saves) + 1
        BY <1>0, <2>2, <4>1, <4>3 DEF MarksNested
      <4> QED
        BY <3>1, <4>2, <4>3
    <3> QED
      BY <3>2, <3>3 DEF MarksNested
  <2> QED
    BY <2>3, <2>4
<1>10. ASSUME NEW n \in Names, ReleaseTx(n)
      PROVE  TxShape' /\ MarksNested'
  <2> DEFINE at == LatestMark(tx, n)
  <2>1. tx' = ReleaseSavepoint(tx, n) /\ depth' = depth /\ tx.active /\ MarksNamed(tx, n) # {}
    BY <1>10 DEF ReleaseTx
  <2>2. /\ tx' \in TxRecords /\ tx'.active = tx.active /\ tx'.ops = tx.ops
        /\ at \in 1..Len(tx.saves) /\ Len(tx'.saves) = Len(tx.saves) - 1
        /\ \A i \in 1..(Len(tx.saves) - 1) :
              tx'.saves[i] = IF i < at THEN tx.saves[i] ELSE tx.saves[i + 1]
    BY <1>0, <2>1, Dropped
  <2> HIDE DEF at
  <2>3. TxShape'
    BY <1>0, <2>1, <2>2 DEF TxShape
  <2>4. MarksNested'
    <3> DEFINE from(i) == IF i < at THEN i ELSE i + 1
    <3>1. \A i \in 1..Len(tx'.saves) :
             from(i) \in 1..Len(tx.saves) /\ tx'.saves[i] = tx.saves[from(i)]
      BY <1>0, <2>2
    <3>2. \A i, j \in 1..Len(tx'.saves) : i < j => from(i) < from(j)
      BY <1>0, <2>2
    <3> HIDE DEF from
    <3> QED
      BY <1>0, <2>2, <3>1, <3>2 DEF MarksNested
  <2> QED
    BY <2>3, <2>4
<1>11. CASE SavepointFinish
  <2> DEFINE to == job.idx
             n == MarksKept(tx, to)
  <2>1. tx' = TruncateOpsTo(tx, to) /\ depth' = depth /\ tx.active
    BY <1>0, <1>11 DEF SavepointFinish, OpsUndone, JobShape
  <2>2. to \in 0..Len(tx.ops)
    BY <1>0, <1>11 DEF SavepointFinish, OpsUndone, JobShape
  <2>3. /\ tx' \in TxRecords /\ tx'.active = tx.active
        /\ Len(tx'.ops) = to /\ \A i \in 1..to : tx'.ops[i] = tx.ops[i]
        /\ n \in 0..Len(tx.saves) /\ Len(tx'.saves) = n
        /\ \A i \in 1..n : tx'.saves[i] = tx.saves[i]
        /\ n > 0 => tx.saves[n].idx <= to
    BY <1>0, <2>1, <2>2, Truncated
  <2> HIDE DEF to, n
  <2>4. TxShape'
    <3>1. Len(tx'.ops) <= MaxOps /\ Len(tx'.saves) <= MaxSaves
      BY <1>0, <2>2, <2>3 DEF TxShape
    <3>2. \A i \in 1..Len(tx'.ops) : ~tx'.ops[i].isAppend => tx'.ops[i].image \in Row
      <4>1. \A i \in 1..to : i \in 1..Len(tx.ops)
        BY <1>0, <2>2
      <4> QED
        BY <1>0, <2>3, <4>1 DEF TxShape
    <3> QED
      BY <1>0, <2>1, <2>3, <3>1, <3>2 DEF TxShape
  <2>5. MarksNested'
    <3>1. \A i \in 1..n : i \in 1..Len(tx.saves) /\ n \in 1..Len(tx.saves) /\ n > 0
      BY <1>0, <2>3
    <3>2. \A i \in 1..n : tx.saves[i].idx <= tx.saves[n].idx
      BY <1>0, <3>1 DEF MarksNested
    <3>3. \A i \in 1..n : tx'.saves[i].idx <= to
      <4>1. ASSUME NEW i \in 1..n
            PROVE  tx'.saves[i].idx <= to
        <5>1. tx'.saves[i].idx = tx.saves[i].idx /\ tx.saves[n].idx <= to
          BY <2>3, <3>1
        <5>2. tx.saves[i].idx \in Nat /\ tx.saves[n].idx \in Nat /\ to \in Nat
          BY <1>0, <2>2, <3>1
        <5> QED
          BY <3>2, <5>1, <5>2
      <4> QED
        BY <4>1
    <3>4. \A i, j \in 1..n : i < j => tx'.saves[i].idx <= tx'.saves[j].idx
      BY <1>0, <2>3, <3>1 DEF MarksNested
    <3> QED
      BY <2>3, <3>3, <3>4 DEF MarksNested
  <2> QED
    BY <2>4, <2>5
<1>12. CASE RollbackFinish
    BY <1>2, <1>12 DEF RollbackFinish
<1>13. ASSUME \/ \E t \in Tables, v \in Vals : ForeignAppend(t, v)
              \/ Navigate
              \/ RollbackTx
              \/ \E n \in Names : RollbackToSavepoint(n)
              \/ \E b \in job.images : RestoreImage(b)
              \/ \E k \in job.appends : RollbackAppend(k) \/ SavepointAppend(k)
              \/ UndoOp
       PROVE  UNCHANGED <<tx, depth>>
    BY <1>13 DEF ForeignAppend, Navigate, OpenTable, CloseTable, GotoRecord, RollbackTx,
                 RollbackToSavepoint, RestoreImage, RollbackAppend, SavepointAppend,
                 RemoveAppended, UndoOp
<1> QED
    BY <1>1, <1>5, <1>6, <1>7, <1>8, <1>9, <1>10, <1>11, <1>12, <1>13
       DEF Next, Mutate, TxCall, TxStep

\* Every step keeps the shape of the rollback that runs.
LEMMA JobKept ==
    ASSUME Shape, Next
    PROVE  JobShape'
<1> USE TxConnectionAssumption
<1>0. /\ DataShape /\ TxShape /\ JobShape /\ MarksNested /\ tx \in TxRecords
      /\ Len(tx.ops) \in Nat /\ Len(tx.saves) \in Nat
      /\ \A i \in 1..Len(tx.saves) : tx.saves[i].idx \in Nat
    BY TxElements DEF Shape, TxShape
<1>1. NoJob \in [images : SUBSET Images, appends : SUBSET Keys, skip : SUBSET Keys,
                 next : Nat, idx : Nat, mark : Nat]
    BY DEF NoJob
<1>2. ASSUME pc = "api", UNCHANGED <<pc, job>>
      PROVE  JobShape'
    BY <1>0, <1>2 DEF JobShape
<1>3. ASSUME UNCHANGED <<pc, job, tx>>
      PROVE  JobShape'
    BY <1>0, <1>3 DEF JobShape
<1>4. ASSUME pc' = "api", job' = NoJob
      PROVE  JobShape'
    BY <1>1, <1>4 DEF JobShape
<1>5. CASE RollbackTx
  <2>1. /\ pc' = "rollback" /\ job' = [NoJob EXCEPT !.images = tx.before, !.appends = tx.appended]
        /\ tx' = tx /\ tx.active
    BY <1>5 DEF RollbackTx
  <2>2. tx.before \in SUBSET Images /\ tx.appended \in SUBSET Keys
    BY <1>0 DEF TxRecords
  <2> QED
    BY <1>1, <2>1, <2>2 DEF JobShape
<1>6. ASSUME NEW b \in job.images, RestoreImage(b)
      PROVE  JobShape'
  <2>1. PICK X \in SUBSET job.images : job' = [job EXCEPT !.images = X]
    BY <1>6 DEF RestoreImage
  <2>2. pc = "rollback" /\ pc' = pc /\ tx' = tx
    BY <1>6 DEF RestoreImage
  <2> QED
    BY <1>0, <2>1, <2>2 DEF JobShape
<1>7. ASSUME NEW k \in job.appends, RollbackAppend(k) \/ SavepointAppend(k)
      PROVE  JobShape'
  <2>1. job' = [job EXCEPT !.appends = @ \ {k}] /\ pc' = pc /\ tx' = tx
    BY <1>7 DEF RollbackAppend, SavepointAppend, RemoveAppended
  <2> QED
    BY <1>0, <2>1 DEF JobShape
<1>8. ASSUME NEW n \in Names, RollbackToSavepoint(n)
      PROVE  JobShape'
  <2> DEFINE at == LatestMark(tx, n)
             to == tx.saves[at].idx
             gone == {tx.ops[i].key : i \in {j \in (to + 1)..Len(tx.ops) : tx.ops[j].isAppend}}
  <2>1. /\ job' = [images |-> {}, appends |-> gone, skip |-> gone,
                   next |-> Len(tx.ops), idx |-> to, mark |-> at]
        /\ pc' = "savepoint" /\ tx' = tx /\ tx.active /\ MarksNamed(tx, n) # {}
    BY <1>8 DEF RollbackToSavepoint
  <2>2. at \in 1..Len(tx.saves)
    BY <1>0, <2>1, LatestIsMark, TxElements
  <2>3. to \in Nat /\ to <= Len(tx.ops)
    BY <1>0, <2>2 DEF MarksNested
  <2>4. gone \in SUBSET Keys
    <3>1. \A i \in (to + 1)..Len(tx.ops) : i \in 1..Len(tx.ops)
      BY <1>0, <2>3
    <3> HIDE DEF to
    <3> QED
      BY <1>0, <3>1, TxElements
  <2>5. to = tx.saves[at].idx
    OBVIOUS
  <2> HIDE DEF at, to, gone
  <2> QED
    BY <1>0, <2>1, <2>2, <2>3, <2>4, <2>5 DEF JobShape
<1>9. CASE UndoOp
  <2>1. /\ job' = [job EXCEPT !.next = @ - 1] /\ UNCHANGED <<pc, tx>>
        /\ pc = "savepoint" /\ job.next > job.idx
    BY <1>9 DEF UndoOp
  <2>2. job.next \in Nat /\ job.idx \in Nat /\ job.next <= Len(tx.ops)
    BY <1>0, <2>1 DEF JobShape
  <2>3. PICK n \in Nat : n = job.next - 1 /\ job.idx <= n /\ n <= Len(tx.ops)
    BY <1>0, <2>1, <2>2
  <2>4. job' = [job EXCEPT !.next = n]
    BY <2>1, <2>3
  <2> QED
    BY <1>0, <2>1, <2>3, <2>4 DEF JobShape
<1>10. ASSUME NEW t \in Tables, NEW v \in Vals, ForeignAppend(t, v)
       PROVE  JobShape'
    BY <1>3, <1>10 DEF ForeignAppend
<1>11. ASSUME \/ \E t \in Tables : \/ \E v \in Vals : SetField(t, v)
                                   \/ MarkDeleted(t) \/ RecallDeleted(t) \/ AppendRecord(t)
              \/ Navigate \/ BeginTx \/ CommitTx
              \/ \E n \in Names : SavepointTx(n) \/ ReleaseTx(n)
       PROVE  JobShape'
  <2>1. pc = "api" /\ UNCHANGED <<pc, job>>
    BY <1>11 DEF SetField, MarkDeleted, RecallDeleted, WriteRecord, AppendRecord, Navigate,
                 OpenTable, CloseTable, GotoRecord, BeginTx, CommitTx, SavepointTx, ReleaseTx
  <2> QED
    BY <1>2, <2>1
<1>12. CASE RollbackFinish \/ SavepointFinish
    BY <1>4, <1>12 DEF RollbackFinish, SavepointFinish
<1> QED
    BY <1>5, <1>6, <1>7, <1>8, <1>9, <1>10, <1>11, <1>12
       DEF Next, Mutate, TxCall, TxStep

\* Every step keeps the shape of the history.
LEMMA HistoryKept ==
    ASSUME Shape, Next
    PROVE  HistoryShape'
<1>0. /\ DataShape /\ TxShape /\ JobShape /\ HistoryShape /\ tx \in TxRecords
      /\ Len(tx.saves) \in Nat /\ rows \in Files /\ InitRows \in Files
      /\ marks \in Seq(Files) /\ Len(marks) = Len(tx.saves)
    BY TxElements, TxConnectionAssumption DEF Shape, TxShape, DataShape, HistoryShape, Files
<1>1. snap' \in {snap, rows, InitRows}
    BY DEF Next, Mutate, SetField, MarkDeleted, RecallDeleted, WriteRecord, AppendRecord,
           ForeignAppend, Navigate, OpenTable, CloseTable, GotoRecord, TxCall, BeginTx,
           CommitTx, RollbackTx, SavepointTx, ReleaseTx, RollbackToSavepoint, TxStep,
           RestoreImage, RollbackAppend, SavepointAppend, RemoveAppended, RollbackFinish,
           UndoOp, SavepointFinish
<1>2. snap' \in Files
    BY <1>0, <1>1 DEF HistoryShape
<1>3. ASSUME marks' = marks, Len(tx'.saves) = Len(tx.saves)
      PROVE  HistoryShape'
    BY <1>0, <1>2, <1>3 DEF HistoryShape
<1>4. ASSUME NEW t \in Tables, NEW new \in Row, WriteRecord(t, new)
      PROVE  HistoryShape'
  <2>1. marks' = marks /\ tx'.saves = tx.saves
    BY <1>0, <1>4 DEF WriteRecord, NoteBeforeImage, TxRecords
  <2> QED
    BY <1>3, <2>1
<1>5. ASSUME NEW t \in Tables,
             \/ \E v \in Vals : SetField(t, v)
             \/ MarkDeleted(t) \/ RecallDeleted(t)
      PROVE  HistoryShape'
  <2>1. PICK new \in Row : WriteRecord(t, new)
    BY <1>0, <1>5, WritesRow
  <2> QED
    BY <1>4, <2>1
<1>6. ASSUME NEW t \in Tables, AppendRecord(t)
      PROVE  HistoryShape'
  <2>1. marks' = marks /\ tx'.saves = tx.saves
    BY <1>0, <1>6 DEF AppendRecord, NoteAppend, TxRecords
  <2> QED
    BY <1>3, <2>1
<1>7. CASE BeginTx
  <2>1. marks' = marks /\ tx'.saves = tx.saves
    BY <1>0, <1>7 DEF BeginTx, Activate, TxRecords
  <2> QED
    BY <1>3, <2>1
<1>8. ASSUME marks' = <<>>, tx' = IdleTx
      PROVE  HistoryShape'
  <2>1. marks' \in Seq(Files) /\ Len(marks') = 0 /\ tx'.saves = <<>>
    BY <1>8, IdleShape
  <2>2. Len(tx'.saves) = 0
    BY <2>1
  <2> QED
    BY <1>2, <2>1, <2>2 DEF HistoryShape
<1>9. CASE CommitTx
  <2>1. CASE depth > 1
    BY <1>3, <1>9, <2>1 DEF CommitTx
  <2>2. CASE ~(depth > 1)
    BY <1>8, <1>9, <2>2 DEF CommitTx
  <2> QED
    BY <2>1, <2>2
<1>10. ASSUME NEW n \in Names, SavepointTx(n)
       PROVE  HistoryShape'
  <2>1. tx' = CreateSavepoint(tx, n) /\ marks' = Append(marks, rows)
    BY <1>10 DEF SavepointTx
  <2>2. Len(tx'.saves) = Len(tx.saves) + 1
    BY <1>0, <2>1, Marked
  <2>3. marks' \in Seq(Files) /\ Len(marks') = Len(marks) + 1
    BY <1>0, <2>1, AppendProperties
  <2> QED
    BY <1>0, <1>2, <2>2, <2>3 DEF HistoryShape
<1>11. ASSUME NEW n \in Names, ReleaseTx(n)
       PROVE  HistoryShape'
  <2> DEFINE at == LatestMark(tx, n)
  <2>1. /\ tx' = ReleaseSavepoint(tx, n) /\ MarksNamed(tx, n) # {}
        /\ marks' = SubSeq(marks, 1, at - 1) \o SubSeq(marks, at + 1, Len(marks))
    BY <1>11 DEF ReleaseTx
  <2>2. at \in 1..Len(marks) /\ Len(tx'.saves) = Len(tx.saves) - 1
    BY <1>0, <2>1, Dropped
  <2> HIDE DEF at
  <2>3. marks' \in Seq(Files) /\ Len(marks') = Len(marks) - 1
    BY <1>0, <2>1, <2>2, Without
  <2> QED
    BY <1>0, <1>2, <2>2, <2>3 DEF HistoryShape
<1>12. CASE SavepointFinish
  <2> DEFINE n == MarksKept(tx, job.idx)
  <2>1. tx' = TruncateOpsTo(tx, job.idx) /\ marks' = SubSeq(marks, 1, n)
    BY <1>12 DEF SavepointFinish
  <2>2. job.idx \in 0..Len(tx.ops)
    BY <1>0, <1>12, TxElements DEF SavepointFinish, OpsUndone, JobShape
  <2>3. n \in 0..Len(marks) /\ Len(tx'.saves) = n
    BY <1>0, <2>1, <2>2, Truncated
  <2> HIDE DEF n
  <2>4. marks' \in Seq(Files) /\ Len(marks') = n
    BY <1>0, <2>1, <2>3, Prefix
  <2> QED
    BY <1>2, <2>3, <2>4 DEF HistoryShape
<1>13. CASE RollbackFinish
    BY <1>8, <1>13 DEF RollbackFinish
<1>14. ASSUME \/ \E t \in Tables, v \in Vals : ForeignAppend(t, v)
              \/ Navigate
              \/ RollbackTx
              \/ \E n \in Names : RollbackToSavepoint(n)
              \/ \E b \in job.images : RestoreImage(b)
              \/ \E k \in job.appends : RollbackAppend(k) \/ SavepointAppend(k)
              \/ UndoOp
       PROVE  HistoryShape'
  <2>1. UNCHANGED <<tx, marks>>
    BY <1>14 DEF ForeignAppend, Navigate, OpenTable, CloseTable, GotoRecord, RollbackTx,
                 RollbackToSavepoint, RestoreImage, RollbackAppend, SavepointAppend,
                 RemoveAppended, UndoOp
  <2> QED
    BY <1>3, <2>1
<1> QED
    BY <1>5, <1>6, <1>7, <1>9, <1>10, <1>11, <1>12, <1>13, <1>14
       DEF Next, Mutate, TxCall, TxStep

\* The initial states have the shape.
LEMMA InitShape == Init => Shape
<1> SUFFICES ASSUME Init PROVE Shape
    OBVIOUS
<1> USE TxConnectionAssumption
<1>1. BlankRow \in Row /\ InitRows \in Files
    BY DEF BlankRow, Row, Files
<1>2. \A t \in Tables : \A r \in 1..Len(InitRows[t]) :
         r \in 1..MaxRows /\ InitRows[t][r].val \in Vals
  <2>1. ASSUME NEW t \in Tables, NEW r \in 1..Len(InitRows[t])
        PROVE  r \in 1..MaxRows /\ InitRows[t][r].val \in Vals
    <3>1. InitRows[t] \in Seq(Row) /\ Len(InitRows[t]) <= MaxRows
      OBVIOUS
    <3>2. InitRows[t][r] \in Row
      BY <3>1, Elements
    <3> QED
      BY <3>1, <3>2 DEF Row
  <2> QED
    BY <2>1
<1>3. DataShape
  <2>1. rows \in Files /\ \A t \in Tables : Len(rows[t]) <= MaxRows /\ 0 <= Len(rows[t])
    BY <1>1 DEF Init
  <2>2. idx \in [Tables -> SUBSET ((1..MaxRows) \X Vals)]
    <3>1. idx = [t \in Tables |->
                    IF t \in Indexed
                    THEN {<<r, InitRows[t][r].val>> : r \in 1..Len(InitRows[t])} ELSE {}]
      BY DEF Init
    <3>2. \A t \in Tables : {<<r, InitRows[t][r].val>> : r \in 1..Len(InitRows[t])}
                               \in SUBSET ((1..MaxRows) \X Vals)
      BY <1>2
    <3> QED
      BY <3>1, <3>2
  <2>3. 0 \in 0..MaxOpens /\ 0 \in 0..MaxRows
    OBVIOUS
  <2>4. wa \in [Tables -> WorkAreas] /\ \A t \in Tables : wa[t].cnt = 0 /\ ~wa[t].open
    BY <1>1, <2>3 DEF Init, WorkAreas
  <2>5. foreign \in [Tables -> SUBSET (1..MaxRows)]
    BY DEF Init
  <2> QED
    BY <2>1, <2>2, <2>4, <2>5 DEF DataShape
<1>4. tx = IdleTx /\ tx \in TxRecords /\ Len(tx.ops) = 0 /\ Len(tx.saves) = 0 /\ ~tx.active
  <2>1. tx = IdleTx
    BY DEF Init
  <2>2. tx \in TxRecords /\ tx.ops = <<>> /\ tx.saves = <<>> /\ ~tx.active
    BY <2>1, IdleShape
  <2> QED
    BY <2>1, <2>2
<1>5. TxShape /\ MarksNested
  <2>1. depth = 0
    BY DEF Init
  <2> QED
    BY <1>4, <2>1 DEF TxShape, MarksNested
<1>6. JobShape
    BY DEF Init, JobShape, NoJob
<1>7. HistoryShape
  <2>1. snap = InitRows /\ marks = <<>>
    BY DEF Init
  <2>2. marks \in Seq(Files) /\ Len(marks) = 0
    BY <2>1
  <2> QED
    BY <1>1, <1>4, <2>1, <2>2 DEF HistoryShape
<1> QED
    BY <1>3, <1>5, <1>6, <1>7 DEF Shape

\* Every step keeps the shape.
LEMMA ShapeKept ==
    ASSUME Shape, [Next]_vars
    PROVE  Shape'
<1>1. CASE Next
    BY <1>1, DataKept, TxKept, JobKept, HistoryKept DEF Shape
<1>2. CASE UNCHANGED vars
    BY <1>2 DEF vars, Shape, DataShape, TxShape, JobShape, HistoryShape, MarksNested
<1> QED
    BY <1>1, <1>2

\* The state has its shape, and the lists stay within their bounds, whatever
\* the constants are (session/connection.cpp:221-385, engine/tx.cpp).
THEOREM TypeCorrect == Spec => []TypeOK
<1>1. Shape => TypeOK
  <2> SUFFICES ASSUME Shape PROVE TypeOK
    OBVIOUS
  <2>1. DataShape /\ TxShape /\ JobShape
    BY DEF Shape
  <2>2. \A t \in Tables : rows[t] \in Seq(Row) /\ Len(rows[t]) <= MaxRows
    BY <2>1 DEF DataShape, Files
  <2>3. \A t \in Tables : idx[t] \subseteq (1..MaxRows) \X Vals
    BY <2>1 DEF DataShape
  <2>4. wa \in [Tables -> WorkAreas] /\ \A t \in Tables : wa[t].cnt <= Len(rows[t])
    BY <2>1 DEF DataShape
  <2>5. /\ tx.active \in BOOLEAN /\ tx.before \subseteq Images /\ tx.appended \subseteq Keys
        /\ Len(tx.ops) <= MaxOps /\ Len(tx.saves) <= MaxSaves
        /\ depth \in 0..MaxDepth /\ (depth > 0 <=> tx.active)
    BY <2>1 DEF TxShape, TxRecords
  <2>6. pc \in {"api", "rollback", "savepoint"} /\ (pc # "api" => tx.active)
    BY <2>1 DEF JobShape
  <2> QED
    BY <2>2, <2>3, <2>4, <2>5, <2>6 DEF TypeOK, WorkAreas, Images
<1> QED
    BY <1>1, InitShape, ShapeKept, PTL DEF Spec

\* Live marks point into the list of operations, in order, so a rollback to
\* any of them undoes a suffix of what an outer one would undo (tx.cpp:33-74).
THEOREM MarksStayNested == Spec => []MarksNested
<1>1. Shape => MarksNested
    BY DEF Shape
<1> QED
    BY <1>1, InitShape, ShapeKept, PTL DEF Spec

-----------------------------------------------------------------------------
(* Without savepoints: the buffers, the indexes and the rows of others *)

\* A positioned work area holds the row of the file, at any time.
Buffers ==
    \A t \in Tables : Positioned(t) =>
        InFile(t, wa[t].recno) /\ wa[t].buf = rows[t][wa[t].recno]

\* An index entry points at a row that has its key, at any time.
Entries ==
    \A t \in Tables :
        /\ t \notin Indexed => idx[t] = {}
        /\ \A e \in idx[t] : InFile(t, e[1]) /\ rows[t][e[1]].val = e[2]

\* The appended rows a rollback has still to remove.
LiveAppends == IF pc = "rollback" THEN job.appends ELSE tx.appended

\* They are in the file, and nobody else appended them.
Apart ==
    /\ ForeignKept
    /\ \A k \in LiveAppends : InFile(k.table, k.recno) /\ k.recno \notin foreign[k.table]
    /\ \A k, l \in LiveAppends : k.table = l.table /\ k.recno = l.recno => k = l

Exact == Shape /\ pc # "savepoint" /\ Buffers /\ Entries /\ Apart

\* What the removal of an appended row does to its table.
LEMMA RemovedRow ==
    ASSUME DataShape, NEW key \in Keys, RemoveAppended(key), IsOpen(key)
    PROVE  LET t == key.table
               r == key.recno
           IN  /\ t \in Tables /\ r \in 1..MaxRows
               /\ Len(rows[t]) \in Nat /\ Len(rows'[t]) \in {Len(rows[t]), Len(rows[t]) - 1}
               /\ Len(rows'[t]) = Len(rows[t]) - 1 <=> r = Len(rows[t])
               /\ \A j \in 1..Len(rows'[t]) : j # r => rows'[t][j] = rows[t][j]
               /\ r \in 1..Len(rows'[t]) => rows'[t][r] = [rows[t][r] EXCEPT !.del = TRUE]
               /\ idx'[t] = IF InFile(t, r) THEN idx[t] \ {<<r, rows[t][r].val>>} ELSE idx[t]
               /\ ~wa'[t].pos /\ wa'[t].open = wa[t].open /\ wa'[t].gen = wa[t].gen
               /\ \A u \in Tables : u # t => /\ rows'[u] = rows[u] /\ wa'[u] = wa[u]
                                             /\ idx'[u] = idx[u]
<1> DEFINE t == key.table
           r == key.recno
           p == PopOrDelete(rows[t], r)
           w == Reset(wa[t])
<1>1. t \in Tables /\ r \in 1..MaxRows /\ r \in Nat \ {0}
    BY TxConnectionAssumption DEF Keys
<1>2. /\ idx' = [idx EXCEPT ![t] = IF InFile(t, r) THEN @ \ {<<r, rows[t][r].val>>} ELSE @]
      /\ rows' = [rows EXCEPT ![t] = p]
      /\ wa' = [wa EXCEPT ![t] = [Reset(@) EXCEPT !.cnt = Len(rows'[t])]]
    BY DEF RemoveAppended
<1>3. rows[t] \in Seq(Row) /\ Len(rows[t]) \in Nat /\ wa[t] \in WorkAreas
    BY <1>1, TableShape
<1>4. /\ Len(p) \in {Len(rows[t]), Len(rows[t]) - 1}
      /\ Len(p) = Len(rows[t]) - 1 <=> r = Len(rows[t])
      /\ \A j \in 1..Len(p) : j # r => p[j] = rows[t][j]
      /\ r \in 1..Len(p) => p[r] = [rows[t][r] EXCEPT !.del = TRUE]
  <2> HIDE DEF t, r
  <2> QED
    BY <1>1, <1>3, PoppedRows
<1>5. w \in WorkAreas /\ ~w.pos /\ w.open = wa[t].open /\ w.gen = wa[t].gen
    BY <1>3, ResetArea
<1> HIDE DEF p
<1>6. rows'[t] = p /\ \A u \in Tables : u # t => rows'[u] = rows[u]
    BY <1>1, <1>2 DEF DataShape, Files
<1>7. /\ idx'[t] = IF InFile(t, r) THEN idx[t] \ {<<r, rows[t][r].val>>} ELSE idx[t]
      /\ \A u \in Tables : u # t => idx'[u] = idx[u]
    BY <1>1, <1>2 DEF DataShape
<1>8. wa'[t] = [w EXCEPT !.cnt = Len(p)] /\ \A u \in Tables : u # t => wa'[u] = wa[u]
    BY <1>1, <1>2, <1>6 DEF DataShape
<1> HIDE DEF w
<1>9. ~wa'[t].pos /\ wa'[t].open = wa[t].open /\ wa'[t].gen = wa[t].gen
    BY <1>5, <1>8 DEF WorkAreas
<1> QED
    BY <1>1, <1>3, <1>4, <1>6, <1>7, <1>8, <1>9

\* Storing a row and following it in the index.
LEMMA SyncedExact ==
    ASSUME DataShape, Entries, NEW t \in Tables, NEW r, NEW row \in Row, Stores(t, r, row),
           idx' = [idx EXCEPT ![t] = Synced(t, r, rows[t][r].val, row.val)]
    PROVE  Entries'
<1> DEFINE prev == rows[t][r].val
<1>1. rows \in Files /\ idx \in [Tables -> SUBSET ((1..MaxRows) \X Vals)]
    BY DEF DataShape
<1>2. /\ \A u \in Tables : Len(rows'[u]) = Len(rows[u])
      /\ \A u \in Tables : u # t => rows'[u] = rows[u]
      /\ \A j \in 1..Len(rows[t]) : rows'[t][j] = IF j = r THEN row ELSE rows[t][j]
    BY <1>1, StoreRow
<1>3. /\ idx'[t] = Synced(t, r, prev, row.val)
      /\ \A u \in Tables : u # t => idx'[u] = idx[u]
    BY <1>1
<1>4. ASSUME NEW u \in Tables, u # t
      PROVE  /\ u \notin Indexed => idx'[u] = {}
             /\ \A e \in idx'[u] : (InFile(u, e[1]))' /\ rows'[u][e[1]].val = e[2]
    BY <1>2, <1>3, <1>4 DEF Entries, InFile
<1>5. t \notin Indexed => idx'[t] = {}
    BY <1>3 DEF Synced, Entries
<1>6. ASSUME NEW e \in idx'[t]
      PROVE  (InFile(t, e[1]))' /\ rows'[t][e[1]].val = e[2]
  <2>1. CASE t \notin Indexed
    BY <1>5, <1>6, <2>1
  <2>2. CASE t \in Indexed /\ prev = row.val
    <3>1. e \in idx[t]
      BY <1>3, <2>2 DEF Synced
    <3>2. InFile(t, e[1]) /\ rows[t][e[1]].val = e[2]
      BY <3>1 DEF Entries
    <3> QED
      BY <1>2, <2>2, <3>2 DEF InFile
  <2>3. CASE t \in Indexed /\ prev # row.val
    <3>1. e \in idx[t] \ {<<r, prev>>} \/ e = <<r, row.val>>
      BY <1>3, <2>3 DEF Synced
    <3>2. CASE e = <<r, row.val>>
      BY <1>2, <3>2 DEF InFile, Stores
    <3>3. CASE e \in idx[t] \ {<<r, prev>>}
      <4>1. InFile(t, e[1]) /\ rows[t][e[1]].val = e[2] /\ e = <<e[1], e[2]>>
        BY <1>1, <3>3 DEF Entries
      <4>2. e[1] # r
        BY <3>3, <4>1
      <4> QED
        BY <1>2, <4>1, <4>2 DEF InFile
    <3> QED
      BY <3>1, <3>2, <3>3
  <2> QED
    BY <2>1, <2>2, <2>3
<1> QED
    BY <1>4, <1>5, <1>6 DEF Entries

\* Adding a row below which nothing changes.
LEMMA AddedExact ==
    ASSUME DataShape, Entries, NEW t \in Tables, NEW row \in Row,
           rows' = [rows EXCEPT ![t] = Append(@, row)],
           \/ idx' = idx
           \/ idx' = [idx EXCEPT ![t] = IF t \in Indexed THEN @ \cup {<<Len(rows[t]) + 1, row.val>>}
                                        ELSE @]
    PROVE  Entries'
<1>1. rows \in Files /\ idx \in [Tables -> SUBSET ((1..MaxRows) \X Vals)]
    BY DEF DataShape
<1>2. /\ Len(rows'[t]) = Len(rows[t]) + 1 /\ rows'[t][Len(rows[t]) + 1] = row
      /\ \A u \in Tables : Len(rows[u]) \in Nat /\ Len(rows[u]) <= Len(rows'[u])
      /\ \A u \in Tables : \A j \in 1..Len(rows[u]) : rows'[u][j] = rows[u][j]
      /\ rows' \in Files
    BY <1>1, AddRow
<1>3. \A u \in Tables : u \notin Indexed => idx'[u] = {}
    BY <1>1 DEF Entries
<1>4. \A u \in Tables : Len(rows'[u]) \in Nat
    BY <1>2 DEF Files
<1>5. ASSUME NEW u \in Tables, NEW e \in idx'[u]
      PROVE  (InFile(u, e[1]))' /\ rows'[u][e[1]].val = e[2]
  <2>1. e \in idx[u] \/ (u = t /\ e = <<Len(rows[t]) + 1, row.val>>)
    BY <1>1, <1>5
  <2>2. CASE e \in idx[u]
    <3>1. InFile(u, e[1]) /\ rows[u][e[1]].val = e[2]
      BY <2>2 DEF Entries
    <3>2. Len(rows[u]) \in Nat /\ Len(rows[u]) <= Len(rows'[u]) /\ Len(rows'[u]) \in Nat
      BY <1>2, <1>4
    <3>3. e[1] \in 1..Len(rows'[u]) /\ rows'[u][e[1]] = rows[u][e[1]]
      BY <1>2, <3>1, <3>2 DEF InFile
    <3> QED
      BY <3>1, <3>3 DEF InFile
  <2>3. CASE u = t /\ e = <<Len(rows[t]) + 1, row.val>>
    <3>1. Len(rows[t]) + 1 \in 1..Len(rows'[t])
      BY <1>2
    <3> QED
      BY <1>2, <2>3, <3>1 DEF InFile
  <2> QED
    BY <2>1, <2>2, <2>3
<1> QED
    BY <1>3, <1>5 DEF Entries

\* Buffers of the other tables, and of tables that only grow.
LEMMA BuffersElsewhere ==
    ASSUME Buffers, NEW u \in Tables, wa'[u] = wa[u], Len(rows[u]) \in Nat,
           Len(rows'[u]) \in Nat, Len(rows[u]) <= Len(rows'[u]),
           \A j \in 1..Len(rows[u]) : rows'[u][j] = rows[u][j]
    PROVE  (Positioned(u) => InFile(u, wa[u].recno) /\ wa[u].buf = rows[u][wa[u].recno])'
<1>1. Positioned(u) => InFile(u, wa[u].recno) /\ wa[u].buf = rows[u][wa[u].recno]
    BY DEF Buffers
<1>2. \A j : InFile(u, j) => (InFile(u, j))' /\ rows'[u][j] = rows[u][j]
    BY DEF InFile
<1> QED
    BY <1>1, <1>2 DEF Positioned

\* The buffers follow the file in every step but those of a savepoint.
LEMMA BuffersKept ==
    ASSUME Exact, Next, Names = {}
    PROVE  Buffers'
<1>0. /\ DataShape /\ TxShape /\ JobShape /\ Buffers /\ pc # "savepoint" /\ rows \in Files
      /\ wa \in [Tables -> WorkAreas] /\ \A u \in Tables : Len(rows[u]) \in Nat
    BY TableShape DEF Exact, Shape, DataShape
<1> DEFINE Good(u) == (Positioned(u) => InFile(u, wa[u].recno) /\ wa[u].buf = rows[u][wa[u].recno])'
<1>1. ASSUME NEW u \in Tables, wa'[u] = wa[u], rows'[u] = rows[u]
      PROVE  Good(u)
    BY <1>0, <1>1, BuffersElsewhere
<1>2. ASSUME NEW u \in Tables, ~wa'[u].pos
      PROVE  Good(u)
    BY <1>2 DEF Positioned
<1>3. ASSUME NEW t \in Tables, NEW r, NEW row \in Row, Stores(t, r, row),
             wa'[t].recno = r, wa'[t].buf = row, \A u \in Tables : u # t => wa'[u] = wa[u]
      PROVE  Buffers'
  <2>1. /\ \A u \in Tables : Len(rows'[u]) = Len(rows[u])
        /\ \A u \in Tables : u # t => rows'[u] = rows[u]
        /\ \A j \in 1..Len(rows[t]) : rows'[t][j] = IF j = r THEN row ELSE rows[t][j]
    BY <1>0, <1>3, StoreRow
  <2>2. Good(t)
    BY <1>3, <2>1 DEF Stores, InFile
  <2>3. \A u \in Tables : u # t => Good(u)
    BY <1>1, <1>3, <2>1
  <2> HIDE DEF Good
  <2>4. \A u \in Tables : Good(u)
    BY <2>2, <2>3
  <2> QED
    BY <2>4 DEF Good, Buffers
<1>4. ASSUME NEW t \in Tables, NEW new \in Row, WriteRecord(t, new)
      PROVE  Buffers'
  <2>1. /\ Stores(t, wa[t].recno, new) /\ wa' = [wa EXCEPT ![t] = [wa[t] EXCEPT !.buf = new]]
    BY <1>4 DEF WriteRecord, Stores
  <2>2. wa[t] \in WorkAreas
    BY <1>0
  <2>3. wa'[t].recno = wa[t].recno /\ wa'[t].buf = new
    BY <1>0, <2>1, <2>2 DEF WorkAreas
  <2>4. \A u \in Tables : u # t => wa'[u] = wa[u]
    BY <1>0, <2>1
  <2> QED
    BY <1>3, <2>1, <2>3, <2>4
<1>5. ASSUME NEW t \in Tables,
             \/ \E v \in Vals : SetField(t, v)
             \/ MarkDeleted(t) \/ RecallDeleted(t)
      PROVE  Buffers'
  <2>1. PICK new \in Row : WriteRecord(t, new)
    BY <1>0, <1>5, WritesRow
  <2> QED
    BY <1>4, <2>1
<1>6. ASSUME NEW t \in Tables, NEW row \in Row, rows' = [rows EXCEPT ![t] = Append(@, row)],
             \/ wa' = wa
             \/ /\ \A u \in Tables : u # t => wa'[u] = wa[u]
                /\ wa'[t].recno = Len(rows[t]) + 1 /\ wa'[t].buf = row
      PROVE  Buffers'
  <2>1. /\ Len(rows'[t]) = Len(rows[t]) + 1 /\ rows'[t][Len(rows[t]) + 1] = row /\ rows' \in Files
        /\ \A u \in Tables : Len(rows[u]) \in Nat /\ Len(rows[u]) <= Len(rows'[u])
        /\ \A u \in Tables : \A j \in 1..Len(rows[u]) : rows'[u][j] = rows[u][j]
    BY <1>0, <1>6, AddRow
  <2>2. \A u \in Tables : Len(rows'[u]) \in Nat
    BY <2>1 DEF Files
  <2>3. ASSUME NEW u \in Tables, wa'[u] = wa[u]
        PROVE  Good(u)
    BY <1>0, <2>1, <2>2, <2>3, BuffersElsewhere
  <2>4. ASSUME wa'[t].recno = Len(rows[t]) + 1, wa'[t].buf = row
        PROVE  Good(t)
    BY <1>0, <2>1, <2>4 DEF InFile
  <2> HIDE DEF Good
  <2>5. \A u \in Tables : Good(u)
    BY <1>6, <2>3, <2>4
  <2> QED
    BY <2>5 DEF Good, Buffers
<1>7. ASSUME NEW t \in Tables, NEW v \in Vals, ForeignAppend(t, v)
      PROVE  Buffers'
  <2>1. rows' = [rows EXCEPT ![t] = Append(@, [val |-> v, del |-> FALSE])] /\ wa' = wa
    BY <1>7 DEF ForeignAppend
  <2>2. [val |-> v, del |-> FALSE] \in Row
    BY DEF Row
  <2> QED
    BY <1>6, <2>1, <2>2
<1>8. ASSUME NEW t \in Tables, AppendRecord(t)
      PROVE  Buffers'
  <2>1. /\ rows' = [rows EXCEPT ![t] = Append(@, BlankRow)]
        /\ wa' = [wa EXCEPT ![t] = [@ EXCEPT !.cnt = Len(rows[t]) + 1, !.pos = TRUE,
                                             !.recno = Len(rows[t]) + 1, !.buf = BlankRow]]
    BY <1>8 DEF AppendRecord
  <2>2. BlankRow \in Row
    BY TxConnectionAssumption DEF BlankRow, Row
  <2>3. /\ \A u \in Tables : u # t => wa'[u] = wa[u]
        /\ wa'[t].recno = Len(rows[t]) + 1 /\ wa'[t].buf = BlankRow
    <3>1. wa[t] \in WorkAreas
      BY <1>0
    <3> QED
      BY <1>0, <2>1, <3>1 DEF WorkAreas
  <2> QED
    BY <1>6, <2>1, <2>2, <2>3
<1>9. ASSUME NEW t \in Tables, rows' = rows, \A u \in Tables : u # t => wa'[u] = wa[u], Good(t)
      PROVE  Buffers'
  <2> HIDE DEF Good
  <2>1. \A u \in Tables : Good(u)
    BY <1>1, <1>9
  <2> QED
    BY <2>1 DEF Good, Buffers
<1>10. ASSUME NEW t \in Tables, OpenTable(t) \/ CloseTable(t)
       PROVE  Buffers'
  <2>1. /\ rows' = rows /\ \A u \in Tables : u # t => wa'[u] = wa[u]
        /\ \/ wa'[t].pos = FALSE
           \/ wa' = [wa EXCEPT ![t] = [Reset(wa[t]) EXCEPT !.open = FALSE, !.cnt = 0, !.buf = BlankRow]]
    BY <1>0, <1>10 DEF OpenTable, CloseTable
  <2>2. ~wa'[t].pos
    <3> DEFINE v == Reset(wa[t])
    <3>1. v \in WorkAreas /\ ~v.pos
      BY <1>0, ResetArea
    <3> HIDE DEF v
    <3>2. ~[v EXCEPT !.open = FALSE, !.cnt = 0, !.buf = BlankRow].pos
      BY <3>1 DEF WorkAreas
    <3> QED
      BY <1>0, <2>1, <3>2 DEF v
  <2>3. Good(t)
    BY <1>2, <2>2
  <2> HIDE DEF Good
  <2> QED
    BY <1>9, <2>1, <2>3
<1>11. ASSUME NEW t \in Tables, NEW r \in 0..MaxRows, GotoRecord(t, r)
       PROVE  Buffers'
  <2>1. rows' = rows /\ \A u \in Tables : u # t => wa'[u] = wa[u]
    BY <1>0, <1>11 DEF GotoRecord
  <2>2. Good(t)
    <3>1. CASE r \in 1..wa[t].cnt
      <4>1. wa'[t] = [wa[t] EXCEPT !.pos = TRUE, !.recno = r, !.buf = rows[t][r]]
        BY <1>0, <1>11, <3>1 DEF GotoRecord
      <4>2. wa[t] \in WorkAreas /\ r \in 1..Len(rows[t])
        BY <1>0, <3>1, TableShape
      <4>3. wa'[t].recno = r /\ wa'[t].buf = rows[t][r]
        BY <4>1, <4>2 DEF WorkAreas
      <4> QED
        BY <2>1, <4>2, <4>3 DEF InFile
    <3>2. CASE r \notin 1..wa[t].cnt
      <4>1. wa'[t] = Reset(wa[t])
        BY <1>0, <1>11, <3>2 DEF GotoRecord
      <4>2. ~wa'[t].pos
        BY <1>0, <4>1, ResetArea
      <4> QED
        BY <1>2, <4>2
    <3> QED
      BY <3>1, <3>2
  <2> HIDE DEF Good
  <2> QED
    BY <1>9, <2>1, <2>2
<1>12. ASSUME UNCHANGED <<rows, wa>>
       PROVE  Buffers'
    BY <1>0, <1>12 DEF Buffers, Positioned, InFile
<1>13. ASSUME NEW b \in job.images, RestoreImage(b)
       PROVE  Buffers'
  <2> DEFINE t == b.key.table
             r == b.key.recno
  <2>1. t \in Tables /\ b.image \in Row
    BY <1>0 DEF JobShape, Images, Keys
  <2>2. CASE IsOpen(b.key) /\ InFile(t, r)
    <3>1. /\ Stores(t, r, b.image)
          /\ wa' = [wa EXCEPT ![t] = [wa[t] EXCEPT !.pos = TRUE, !.recno = r, !.buf = b.image]]
      BY <1>13, <2>2 DEF RestoreImage, Stores
    <3> HIDE DEF t, r
    <3>2. wa[t] \in WorkAreas
      BY <1>0, <2>1
    <3>3. wa'[t].recno = r /\ wa'[t].buf = b.image /\ \A u \in Tables : u # t => wa'[u] = wa[u]
      BY <1>0, <2>1, <3>1, <3>2 DEF WorkAreas
    <3> QED
      BY <1>3, <2>1, <3>1, <3>3
  <2>3. CASE ~(IsOpen(b.key) /\ InFile(t, r))
    BY <1>12, <1>13, <2>3 DEF RestoreImage
  <2> QED
    BY <2>2, <2>3
<1>14. ASSUME NEW k \in job.appends, RollbackAppend(k)
       PROVE  Buffers'
  <2>1. k \in Keys /\ RemoveAppended(k)
    BY <1>0, <1>14 DEF JobShape, RollbackAppend
  <2>2. CASE ~IsOpen(k)
    BY <1>12, <2>1, <2>2 DEF RemoveAppended
  <2>3. CASE IsOpen(k)
    <3>1. /\ k.table \in Tables /\ ~wa'[k.table].pos
          /\ \A u \in Tables : u # k.table => rows'[u] = rows[u] /\ wa'[u] = wa[u]
      BY <1>0, <2>1, <2>3, RemovedRow
    <3>2. \A u \in Tables : Good(u)
      BY <1>1, <1>2, <3>1
    <3> HIDE DEF Good
    <3> QED
      BY <3>2 DEF Good, Buffers
  <2> QED
    BY <2>2, <2>3
<1>15. CASE RollbackFinish
  <2>1. /\ rows' = rows
        /\ wa' = [t \in Tables |->
                     IF \E k \in tx.appended \cup {b.key : b \in tx.before} :
                            k.table = t /\ IsOpen(k)
                     THEN Refreshed(t) ELSE wa[t]]
    BY <1>15 DEF RollbackFinish
  <2>2. ASSUME NEW u \in Tables
        PROVE  Good(u)
    <3>1. CASE wa'[u] = wa[u]
      BY <1>1, <2>1, <3>1
    <3>2. CASE wa'[u] # wa[u]
      <4>1. InFile(u, wa[u].recno) /\ wa'[u] = [wa[u] EXCEPT !.buf = rows[u][wa[u].recno]]
        BY <2>1, <3>2 DEF Refreshed
      <4>2. wa[u] \in WorkAreas
        BY <1>0
      <4>3. wa'[u].recno = wa[u].recno /\ wa'[u].buf = rows[u][wa[u].recno]
        BY <4>1, <4>2 DEF WorkAreas
      <4> QED
        BY <2>1, <4>1, <4>3 DEF InFile
    <3> QED
      BY <3>1, <3>2
  <2> HIDE DEF Good
  <2>3. \A u \in Tables : Good(u)
    BY <2>2
  <2> QED
    BY <2>3 DEF Good, Buffers
<1>16. CASE BeginTx \/ CommitTx \/ RollbackTx
    BY <1>12, <1>16 DEF BeginTx, CommitTx, RollbackTx
<1> HIDE DEF Good
<1> QED
    BY <1>0, <1>5, <1>7, <1>8, <1>10, <1>11, <1>13, <1>14, <1>15, <1>16
       DEF Next, Mutate, Navigate, TxCall, TxStep, SavepointAppend, UndoOp, SavepointFinish,
           OpsUndone

\* So does the index.
LEMMA EntriesKept ==
    ASSUME Exact, Next, Names = {}
    PROVE  Entries'
<1>0. /\ DataShape /\ TxShape /\ JobShape /\ Buffers /\ Entries /\ pc # "savepoint"
      /\ \A u \in Tables : Len(rows[u]) \in Nat
    BY TableShape DEF Exact, Shape
<1>1. ASSUME NEW t \in Tables, NEW new \in Row, WriteRecord(t, new)
      PROVE  Entries'
  <2> DEFINE r == wa[t].recno
  <2>1. /\ Stores(t, r, new) /\ Positioned(t)
        /\ idx' = [idx EXCEPT ![t] = Synced(t, r, wa[t].buf.val, new.val)]
    BY <1>1 DEF WriteRecord, Stores
  <2>2. wa[t].buf = rows[t][r]
    BY <1>0, <2>1 DEF Buffers
  <2> HIDE DEF r
  <2> QED
    BY <1>0, <2>1, <2>2, SyncedExact
<1>2. ASSUME NEW t \in Tables,
             \/ \E v \in Vals : SetField(t, v)
             \/ MarkDeleted(t) \/ RecallDeleted(t)
      PROVE  Entries'
  <2>1. PICK new \in Row : WriteRecord(t, new)
    BY <1>0, <1>2, WritesRow
  <2> QED
    BY <1>1, <2>1
<1>3. ASSUME NEW t \in Tables, NEW v \in Vals, ForeignAppend(t, v)
      PROVE  Entries'
  <2> DEFINE row == [val |-> v, del |-> FALSE]
  <2>1. /\ rows' = [rows EXCEPT ![t] = Append(@, row)]
        /\ idx' = [idx EXCEPT ![t] = IF t \in Indexed THEN @ \cup {<<Len(rows[t]) + 1, v>>} ELSE @]
    BY <1>3 DEF ForeignAppend
  <2>2. row \in Row /\ row.val = v
    BY DEF Row
  <2> HIDE DEF row
  <2> QED
    BY <1>0, <2>1, <2>2, AddedExact
<1>4. ASSUME NEW t \in Tables, AppendRecord(t)
      PROVE  Entries'
  <2>1. rows' = [rows EXCEPT ![t] = Append(@, BlankRow)] /\ idx' = idx
    BY <1>4 DEF AppendRecord
  <2>2. BlankRow \in Row
    BY TxConnectionAssumption DEF BlankRow, Row
  <2> QED
    BY <1>0, <2>1, <2>2, AddedExact
<1>5. ASSUME UNCHANGED <<rows, idx>>
      PROVE  Entries'
    BY <1>0, <1>5 DEF Entries, InFile
<1>6. ASSUME NEW b \in job.images, RestoreImage(b)
      PROVE  Entries'
  <2> DEFINE t == b.key.table
             r == b.key.recno
  <2>1. t \in Tables /\ b.image \in Row
    BY <1>0 DEF JobShape, Images, Keys
  <2>2. CASE IsOpen(b.key) /\ InFile(t, r)
    <3>1. /\ Stores(t, r, b.image)
          /\ idx' = [idx EXCEPT ![t] = Synced(t, r, rows[t][r].val, b.image.val)]
      BY <1>6, <2>2 DEF RestoreImage, Stores
    <3> HIDE DEF t, r
    <3> QED
      BY <1>0, <2>1, <3>1, SyncedExact
  <2>3. CASE ~(IsOpen(b.key) /\ InFile(t, r))
    BY <1>5, <1>6, <2>3 DEF RestoreImage
  <2> QED
    BY <2>2, <2>3
<1>7. ASSUME NEW k \in job.appends, RollbackAppend(k)
      PROVE  Entries'
  <2>1. k \in Keys /\ RemoveAppended(k)
    BY <1>0, <1>7 DEF JobShape, RollbackAppend
  <2>2. CASE ~IsOpen(k)
    BY <1>5, <2>1, <2>2 DEF RemoveAppended
  <2>3. CASE IsOpen(k)
    <3> DEFINE t == k.table
               r == k.recno
    <3>1. /\ t \in Tables /\ r \in 1..MaxRows
          /\ Len(rows[t]) \in Nat /\ Len(rows'[t]) \in {Len(rows[t]), Len(rows[t]) - 1}
          /\ Len(rows'[t]) = Len(rows[t]) - 1 <=> r = Len(rows[t])
          /\ \A j \in 1..Len(rows'[t]) : j # r => rows'[t][j] = rows[t][j]
          /\ r \in 1..Len(rows'[t]) => rows'[t][r] = [rows[t][r] EXCEPT !.del = TRUE]
          /\ idx'[t] = IF InFile(t, r) THEN idx[t] \ {<<r, rows[t][r].val>>} ELSE idx[t]
          /\ \A u \in Tables : u # t => rows'[u] = rows[u] /\ idx'[u] = idx[u]
      BY <1>0, <2>1, <2>3, RemovedRow
    <3> HIDE DEF t, r
    <3>2. \A u \in Tables : u # t =>
             /\ u \notin Indexed => idx'[u] = {}
             /\ \A e \in idx'[u] : (InFile(u, e[1]))' /\ rows'[u][e[1]].val = e[2]
      BY <1>0, <3>1 DEF Entries, InFile
    <3>3. t \notin Indexed => idx'[t] = {}
      BY <1>0, <3>1 DEF Entries
    <3>4. ASSUME NEW e \in idx'[t]
          PROVE  (InFile(t, e[1]))' /\ rows'[t][e[1]].val = e[2]
      <4>1. e \in idx[t]
        BY <3>1
      <4>2. InFile(t, e[1]) /\ rows[t][e[1]].val = e[2] /\ e = <<e[1], e[2]>>
        BY <1>0, <3>1, <4>1 DEF Entries, DataShape
      <4>3. e[1] # r
        BY <3>1, <4>1, <4>2
      <4>4. e[1] \in 1..Len(rows'[t])
        BY <3>1, <4>2, <4>3 DEF InFile
      <4> QED
        BY <3>1, <4>2, <4>3, <4>4 DEF InFile
    <3> QED
      BY <3>2, <3>3, <3>4 DEF Entries
  <2> QED
    BY <2>2, <2>3
<1>8. CASE Navigate \/ BeginTx \/ CommitTx \/ RollbackTx \/ RollbackFinish
  <2>1. UNCHANGED <<rows, idx>>
    BY <1>8 DEF Navigate, OpenTable, CloseTable, GotoRecord, BeginTx, CommitTx, RollbackTx,
                RollbackFinish
  <2> QED
    BY <1>5, <2>1
<1> QED
    BY <1>0, <1>2, <1>3, <1>4, <1>6, <1>7, <1>8
       DEF Next, Mutate, TxCall, TxStep, SavepointAppend, UndoOp, SavepointFinish, OpsUndone

\* The rows of other connections stay apart from those a rollback removes.
LEMMA ApartKept ==
    ASSUME Exact, Next, Names = {}
    PROVE  Apart'
<1>0. /\ DataShape /\ TxShape /\ JobShape /\ Apart /\ pc # "savepoint" /\ rows \in Files
      /\ pc \in {"api", "rollback"} /\ tx \in TxRecords /\ LiveAppends \in SUBSET Keys
      /\ \A u \in Tables : Len(rows[u]) \in Nat
  <2>1. /\ DataShape /\ TxShape /\ JobShape /\ Apart /\ pc # "savepoint" /\ rows \in Files
        /\ tx \in TxRecords /\ \A u \in Tables : Len(rows[u]) \in Nat
    BY TableShape DEF Exact, Shape, DataShape, TxShape
  <2>2. pc \in {"api", "rollback"} /\ tx.appended \in SUBSET Keys /\ job.appends \in SUBSET Keys
    BY <2>1 DEF JobShape, TxRecords
  <2> QED
    BY <2>1, <2>2 DEF LiveAppends
<1>1. ASSUME \A u \in Tables : Len(rows'[u]) = Len(rows[u]), foreign' = foreign,
             LiveAppends' \subseteq LiveAppends
      PROVE  Apart'
    BY <1>0, <1>1 DEF Apart, ForeignKept, InFile, Keys
<1>2. ASSUME NEW t \in Tables, NEW new \in Row, WriteRecord(t, new)
      PROVE  Apart'
  <2>1. Stores(t, wa[t].recno, new) /\ foreign' = foreign /\ pc = "api" /\ pc' = pc
    BY <1>2 DEF WriteRecord, Stores
  <2>2. \A u \in Tables : Len(rows'[u]) = Len(rows[u])
    BY <1>0, <2>1, StoreRow
  <2>3. tx'.appended = tx.appended
    BY <1>0, <1>2 DEF WriteRecord, NoteBeforeImage, TxRecords
  <2>4. LiveAppends' = LiveAppends
    BY <2>1, <2>3 DEF LiveAppends
  <2> QED
    BY <1>1, <2>1, <2>2, <2>4
<1>3. ASSUME NEW t \in Tables,
             \/ \E v \in Vals : SetField(t, v)
             \/ MarkDeleted(t) \/ RecallDeleted(t)
      PROVE  Apart'
  <2>1. PICK new \in Row : WriteRecord(t, new)
    BY <1>0, <1>3, WritesRow
  <2> QED
    BY <1>2, <2>1
<1>4. ASSUME NEW t \in Tables, NEW row \in Row, rows' = [rows EXCEPT ![t] = Append(@, row)]
      PROVE  /\ \A u \in Tables : \A r : InFile(u, r) => (InFile(u, r))' /\ r # Len(rows[u]) + 1
             /\ Len(rows[t]) + 1 \in 1..Len(rows'[t])
  <2>1. /\ Len(rows'[t]) = Len(rows[t]) + 1 /\ rows' \in Files
        /\ \A u \in Tables : Len(rows[u]) \in Nat /\ Len(rows[u]) <= Len(rows'[u])
    BY <1>0, <1>4, AddRow
  <2>2. \A u \in Tables : Len(rows'[u]) \in Nat
    BY <2>1 DEF Files
  <2>3. Len(rows[t]) + 1 \in 1..Len(rows'[t])
    BY <2>1
  <2>4. ASSUME NEW u \in Tables, NEW r, r \in 1..Len(rows[u])
        PROVE  r \in 1..Len(rows'[u]) /\ r # Len(rows[u]) + 1
    BY <2>1, <2>2, <2>4
  <2> QED
    BY <2>3, <2>4 DEF InFile
<1>5. ASSUME NEW t \in Tables, NEW v \in Vals, ForeignAppend(t, v)
      PROVE  Apart'
  <2> DEFINE r == Len(rows[t]) + 1
  <2>1. /\ rows' = [rows EXCEPT ![t] = Append(@, [val |-> v, del |-> FALSE])]
        /\ foreign' = [foreign EXCEPT ![t] = @ \cup {r}] /\ UNCHANGED <<tx, pc, job>>
    BY <1>5 DEF ForeignAppend
  <2>2. [val |-> v, del |-> FALSE] \in Row
    BY DEF Row
  <2>3. /\ \A u \in Tables : \A j : InFile(u, j) => (InFile(u, j))' /\ j # Len(rows[u]) + 1
        /\ r \in 1..Len(rows'[t])
    BY <1>4, <2>1, <2>2
  <2>4. foreign'[t] = foreign[t] \cup {r} /\ \A u \in Tables : u # t => foreign'[u] = foreign[u]
    BY <1>0, <2>1 DEF DataShape
  <2> HIDE DEF r
  <2>5. ForeignKept'
    <3>1. ASSUME NEW u \in Tables, NEW j \in foreign'[u]
          PROVE  (InFile(u, j))'
      <4>1. j \in foreign[u] \/ (u = t /\ j = r)
        BY <2>4
      <4>2. CASE j \in foreign[u]
        BY <1>0, <2>3, <4>2 DEF Apart, ForeignKept
      <4>3. CASE u = t /\ j = r
        BY <2>3, <4>3 DEF InFile
      <4> QED
        BY <4>1, <4>2, <4>3
    <3> QED
      BY <3>1 DEF ForeignKept
  <2>6. LiveAppends' = LiveAppends
    BY <2>1 DEF LiveAppends
  <2>7. ASSUME NEW k \in LiveAppends'
        PROVE  (InFile(k.table, k.recno))' /\ k.recno \notin foreign'[k.table]
    <3>1. /\ k \in LiveAppends /\ k.table \in Tables
          /\ InFile(k.table, k.recno) /\ k.recno \notin foreign[k.table]
      BY <1>0, <2>6 DEF Apart, Keys
    <3>2. (InFile(k.table, k.recno))' /\ k.recno # Len(rows[k.table]) + 1
      BY <2>3, <3>1
    <3> QED
      BY <2>4, <3>1, <3>2 DEF r
  <2>8. \A k, l \in LiveAppends' : k.table = l.table /\ k.recno = l.recno => k = l
    BY <1>0, <2>6 DEF Apart
  <2> QED
    BY <2>5, <2>7, <2>8 DEF Apart
<1>6. ASSUME NEW t \in Tables, AppendRecord(t)
      PROVE  Apart'
  <2> DEFINE r == Len(rows[t]) + 1
             key == Here(t, r)
  <2>1. /\ rows' = [rows EXCEPT ![t] = Append(@, BlankRow)] /\ wa[t].open /\ r <= MaxRows
        /\ UNCHANGED <<foreign, pc, job>> /\ pc = "api"
        /\ tx' = IF tx.active THEN NoteAppend(tx, key) ELSE tx
    BY <1>6 DEF AppendRecord
  <2>2. BlankRow \in Row
    BY TxConnectionAssumption DEF BlankRow, Row
  <2>3. /\ \A u \in Tables : \A j : InFile(u, j) => (InFile(u, j))' /\ j # Len(rows[u]) + 1
        /\ r \in 1..Len(rows'[t])
    BY <1>4, <2>1, <2>2
  <2>4. key.table = t /\ key.recno = r
    BY DEF Here, NewKey
  <2> HIDE DEF r, key
  <2>5. ForeignKept'
    BY <1>0, <2>1, <2>3 DEF Apart, ForeignKept
  <2>6. LiveAppends' \subseteq LiveAppends \cup {key}
    BY <1>0, <2>1 DEF LiveAppends, NoteAppend, TxRecords
  <2>7. ASSUME NEW k \in LiveAppends
        PROVE  /\ (InFile(k.table, k.recno))' /\ k.recno \notin foreign'[k.table]
               /\ ~(k.table = key.table /\ k.recno = key.recno)
    <3>1. k.table \in Tables /\ InFile(k.table, k.recno) /\ k.recno \notin foreign[k.table]
      BY <1>0 DEF Apart, Keys
    <3>2. (InFile(k.table, k.recno))' /\ k.recno # Len(rows[k.table]) + 1
      BY <2>3, <3>1
    <3> QED
      BY <2>1, <2>4, <3>1, <3>2 DEF r
  <2>8. key.recno \in 1..Len(rows'[key.table]) /\ key.recno \notin foreign'[key.table]
    <3>1. \A j \in foreign[t] : InFile(t, j)
      BY <1>0 DEF Apart, ForeignKept
    <3>2. r \notin foreign[t]
      BY <2>3, <3>1 DEF r
    <3> QED
      BY <2>1, <2>3, <2>4, <3>2
  <2>9. \A k \in LiveAppends' : (InFile(k.table, k.recno))' /\ k.recno \notin foreign'[k.table]
    BY <2>6, <2>7, <2>8 DEF InFile
  <2>10. \A k, l \in LiveAppends' : k.table = l.table /\ k.recno = l.recno => k = l
    BY <1>0, <2>6, <2>7 DEF Apart
  <2> QED
    BY <2>5, <2>9, <2>10 DEF Apart
<1>7. ASSUME NEW b \in job.images, RestoreImage(b)
      PROVE  Apart'
  <2> DEFINE t == b.key.table
             r == b.key.recno
  <2>1. t \in Tables /\ b.image \in Row
    BY <1>0 DEF JobShape, Images, Keys
  <2>2. rows' = rows \/ Stores(t, r, b.image)
    BY <1>7 DEF RestoreImage, Stores
  <2> HIDE DEF t, r
  <2>3. \A u \in Tables : Len(rows'[u]) = Len(rows[u])
    BY <1>0, <2>1, <2>2, StoreRow
  <2>4. foreign' = foreign /\ LiveAppends' = LiveAppends
    <3>1. PICK X : job' = [job EXCEPT !.images = X]
      BY <1>7 DEF RestoreImage
    <3>2. job'.appends = job.appends
      BY <1>0, <3>1 DEF JobShape
    <3> QED
      BY <1>7, <3>2 DEF RestoreImage, LiveAppends
  <2> QED
    BY <1>1, <2>3, <2>4
<1>8. ASSUME NEW key \in job.appends, RollbackAppend(key)
      PROVE  Apart'
  <2>1. key \in Keys /\ RemoveAppended(key) /\ pc = "rollback" /\ pc' = pc /\ foreign' = foreign
    BY <1>0, <1>8 DEF JobShape, RollbackAppend, RemoveAppended
  <2>2. key \in LiveAppends /\ LiveAppends' = LiveAppends \ {key}
    <3>1. job' = [job EXCEPT !.appends = @ \ {key}]
      BY <2>1 DEF RemoveAppended
    <3>2. job'.appends = job.appends \ {key}
      BY <1>0, <3>1 DEF JobShape
    <3> QED
      BY <1>8, <2>1, <3>2 DEF LiveAppends
  <2>3. CASE ~IsOpen(key)
    <3>1. rows' = rows
      BY <2>1, <2>3 DEF RemoveAppended
    <3> QED
      BY <1>1, <2>1, <2>2, <3>1
  <2>4. CASE IsOpen(key)
    <3> DEFINE t == key.table
               r == key.recno
    <3>1. /\ t \in Tables /\ r \in 1..MaxRows
          /\ Len(rows[t]) \in Nat /\ Len(rows'[t]) \in {Len(rows[t]), Len(rows[t]) - 1}
          /\ Len(rows'[t]) = Len(rows[t]) - 1 <=> r = Len(rows[t])
          /\ \A u \in Tables : u # t => rows'[u] = rows[u]
      BY <1>0, <2>1, <2>4, RemovedRow
    <3> HIDE DEF t, r
    <3>2. ASSUME NEW j, InFile(t, j), j # r
          PROVE  (InFile(t, j))'
      BY <3>1, <3>2 DEF InFile
    <3>3. \A u \in Tables : \A j : InFile(u, j) /\ (u # t \/ j # r) => (InFile(u, j))'
      BY <3>1, <3>2 DEF InFile
    <3>4. ForeignKept'
      <4>1. r \notin foreign[t] /\ \A u \in Tables : \A j \in foreign[u] : InFile(u, j)
        BY <1>0, <2>2 DEF Apart, ForeignKept, t, r
      <4> QED
        BY <2>1, <3>3, <4>1 DEF ForeignKept
    <3>5. ASSUME NEW k \in LiveAppends'
          PROVE  (InFile(k.table, k.recno))' /\ k.recno \notin foreign'[k.table]
      <4>1. /\ k \in LiveAppends /\ k # key /\ k.table \in Tables
            /\ InFile(k.table, k.recno) /\ k.recno \notin foreign[k.table]
        BY <1>0, <2>2 DEF Apart, Keys
      <4>2. k.table # t \/ k.recno # r
        BY <1>0, <2>2, <4>1 DEF Apart, t, r
      <4> QED
        BY <2>1, <3>3, <4>1, <4>2
    <3>6. \A k, l \in LiveAppends' : k.table = l.table /\ k.recno = l.recno => k = l
      BY <1>0, <2>2 DEF Apart
    <3> QED
      BY <3>4, <3>5, <3>6 DEF Apart
  <2> QED
    BY <2>3, <2>4
<1>9. ASSUME UNCHANGED <<rows, foreign>>, LiveAppends' \subseteq LiveAppends
      PROVE  Apart'
    BY <1>1, <1>9
<1>10. CASE Navigate
    BY <1>9, <1>10 DEF Navigate, OpenTable, CloseTable, GotoRecord, LiveAppends
<1>11. CASE BeginTx \/ CommitTx \/ RollbackFinish
  <2>1. pc' = "api" /\ UNCHANGED <<rows, foreign>>
    BY <1>11 DEF BeginTx, CommitTx, RollbackFinish
  <2>2. tx' = IdleTx \/ (pc = "api" /\ (tx' = tx \/ tx' = Activate(tx)))
    BY <1>11 DEF BeginTx, CommitTx, RollbackFinish
  <2>3. tx'.appended = {} \/ (pc = "api" /\ tx' = tx)
    <3>1. IdleTx.appended = {}
      BY IdleShape
    <3>2. Activate(tx).appended = {}
      BY <1>0 DEF Activate, TxRecords
    <3> QED
      BY <2>2, <3>1, <3>2
  <2>4. LiveAppends' \subseteq LiveAppends
    BY <2>1, <2>3 DEF LiveAppends
  <2> QED
    BY <1>9, <2>1, <2>4
<1>12. CASE RollbackTx
  <2>1. /\ pc = "api" /\ pc' = "rollback" /\ UNCHANGED <<rows, foreign>>
        /\ job' = [NoJob EXCEPT !.images = tx.before, !.appends = tx.appended]
    BY <1>12 DEF RollbackTx
  <2>2. job'.appends = tx.appended
    BY <2>1 DEF NoJob
  <2>3. LiveAppends' = LiveAppends
    BY <2>1, <2>2 DEF LiveAppends
  <2> QED
    BY <1>9, <2>1, <2>3
<1> QED
    BY <1>0, <1>3, <1>5, <1>6, <1>7, <1>8, <1>10, <1>11, <1>12
       DEF Next, Mutate, TxCall, TxStep, SavepointAppend, UndoOp, SavepointFinish, OpsUndone

\* No rollback to a savepoint ever runs.
LEMMA NoSavepoint ==
    ASSUME Exact, Next, Names = {}
    PROVE  pc' # "savepoint"
<1>1. pc # "savepoint"
    BY DEF Exact
<1>2. pc' = pc \/ pc' \in {"api", "rollback"}
    BY DEF Next, Mutate, SetField, MarkDeleted, RecallDeleted, WriteRecord, AppendRecord,
           ForeignAppend, Navigate, OpenTable, CloseTable, GotoRecord, TxCall, BeginTx,
           CommitTx, RollbackTx, TxStep, RestoreImage, RollbackAppend, SavepointAppend,
           RemoveAppended, RollbackFinish, UndoOp, SavepointFinish
<1> QED
    BY <1>1, <1>2

\* The invariant of a connection that sets no savepoints.
THEOREM ExactAlways == ASSUME Names = {} PROVE Spec => []Exact
<1>1. Init => Exact
  <2> SUFFICES ASSUME Init PROVE Exact
    OBVIOUS
  <2>1. Shape /\ pc # "savepoint"
    BY InitShape DEF Init
  <2>2. Buffers
    BY DEF Init, Buffers, Positioned
  <2>3. Entries
    <3>1. \A t \in Tables : \A e \in idx[t] : InFile(t, e[1]) /\ rows[t][e[1]].val = e[2]
      BY DEF Init, InFile
    <3> QED
      BY <3>1 DEF Init, Entries
  <2>4. Apart
    <3>1. LiveAppends = {}
      BY DEF Init, LiveAppends, IdleTx
    <3> QED
      BY <3>1 DEF Init, Apart, ForeignKept
  <2> QED
    BY <2>1, <2>2, <2>3, <2>4 DEF Exact
<1>2. ASSUME Exact, [Next]_vars
      PROVE  Exact'
  <2>1. CASE Next
    <3>1. Shape'
      BY <1>2, ShapeKept DEF Exact
    <3> QED
      BY <1>2, <2>1, <3>1, BuffersKept, EntriesKept, ApartKept, NoSavepoint DEF Exact
  <2>2. CASE UNCHANGED vars
    <3>1. Shape'
      BY <1>2, ShapeKept DEF Exact
    <3>2. Buffers' /\ Entries' /\ Apart'
      BY <1>2, <2>2 DEF vars, Exact, Buffers, Positioned, InFile, Entries, Apart, ForeignKept,
                        LiveAppends
    <3> QED
      BY <1>2, <2>2, <3>1, <3>2 DEF Exact, vars
  <2> QED
    BY <1>2, <2>1, <2>2
<1> QED
    BY <1>1, <1>2, PTL DEF Spec

\* Without savepoints a positioned work area always holds the row of the file,
\* so no write sends back what a rollback undid (table.cpp:227-243).
THEOREM BuffersAreCurrent == ASSUME Names = {} PROVE Spec => []BufferCurrent
<1>1. Exact => BufferCurrent
    BY DEF Exact, Buffers, BufferCurrent
<1> QED
    BY <1>1, ExactAlways, PTL

\* Without savepoints an index never leads to a row that has another key, with
\* unique indexes and with rollbacks they stop half way (table.cpp:196-226).
THEOREM IndexIsExact == ASSUME Names = {} PROVE Spec => []IndexExact
<1>1. Exact => IndexExact
    BY DEF Exact, Entries, IndexExact
<1> QED
    BY <1>1, ExactAlways, PTL

\* Without savepoints no rollback takes away a row that another connection
\* appended, however its appends interleave with it (table.cpp:1128-1160).
THEOREM ForeignRowsStay == ASSUME Names = {} PROVE Spec => []ForeignKept
<1>1. Exact => ForeignKept
    BY DEF Exact, Apart
<1> QED
    BY <1>1, ExactAlways, PTL

-----------------------------------------------------------------------------
(* The full rollback, with savepoints, handles and other connections *)

\* The images a rollback has still to write.
LiveImages == IF pc = "rollback" THEN job.images ELSE tx.before

\* Every mutation of the table went through the handle that it has now.
SameHandle(t) == \A k \in TxKeys : k.table = t => k.gen = wa[t].gen

\* The rollback reaches the table.
Followed(t) == SameHandle(t) /\ (pc = "rollback" => wa[t].open)

\* Keys belong to handles that were handed out.
KeysOfHandles == \A k \in TxKeys : k.gen <= wa[k.table].gen

\* No file is shorter than at BEGIN.
Grown == \A t \in Tables : Len(snap[t]) <= Len(rows[t])

\* Appended rows came after the rows at BEGIN.
AppendedAbove == \A k \in tx.appended : k.recno > Len(snap[k.table])

\* The ordered list names no row the keyed maps do not know.
OpsTouch ==
    \A i \in 1..Len(tx.ops) :
        tx.ops[i].key \in IF tx.ops[i].isAppend THEN tx.appended ELSE TxKeys

\* A row with an image is not an appended one, and it is there as long as its
\* handle is the table's: the rollback never stops at an image.
ImagesInFile ==
    \A b \in tx.before :
        /\ b.key \notin tx.appended
        /\ b.key.gen = wa[b.key.table].gen => InFile(b.key.table, b.key.recno)

\* An image of a row that was there at BEGIN is that row.
ImagesAreOld ==
    \A t \in Tables : SameHandle(t) =>
        \A b \in tx.before :
            b.key.table = t /\ b.key.recno <= Len(snap[t]) => b.image = snap[t][b.key.recno]

\* A row that is not what it was at BEGIN has an image.
OldRows ==
    \A t \in Tables : Followed(t) =>
        \A r \in 1..Len(snap[t]) :
            rows[t][r] = snap[t][r] \/ \E b \in LiveImages : b.key.table = t /\ b.key.recno = r

\* A row that was not there is another connection's, or an append to undo.
NewRows ==
    \A t \in Tables : Followed(t) =>
        \A r \in (Len(snap[t]) + 1)..Len(rows[t]) :
            \/ r \in foreign[t]
            \/ \E k \in LiveAppends : k.table = t /\ k.recno = r
            \/ pc = "rollback" /\ job.images = {} /\ rows[t][r].del

Undoable ==
    /\ KeysOfHandles /\ Grown /\ AppendedAbove /\ OpsTouch
    /\ ImagesInFile /\ ImagesAreOld /\ OldRows /\ NewRows

RInv ==
    /\ Shape /\ (tx.active => Undoable)
    /\ pc = "savepoint" => job.appends \subseteq tx.appended

\* What a transaction keeps, and what belongs to it.
LEMMA KeptShape ==
    ASSUME Shape
    PROVE  /\ \A b \in tx.before : b.key \in Keys /\ b.image \in Row /\ b.key \in TxKeys
           /\ \A k \in tx.appended : k \in Keys /\ k \in TxKeys
           /\ TxKeys \in SUBSET Keys
           /\ \A k \in Keys : k.table \in Tables /\ k.gen \in Nat /\ k.recno \in Nat \ {0}
           /\ \A t \in Tables : /\ rows[t] \in Seq(Row) /\ Len(rows[t]) \in Nat
                                /\ snap[t] \in Seq(Row) /\ Len(snap[t]) \in Nat
                                /\ wa[t] \in WorkAreas /\ wa[t].gen \in Nat
           /\ tx \in TxRecords /\ rows \in Files /\ Len(tx.ops) \in Nat
<1> USE TxConnectionAssumption
<1>1. DataShape /\ TxShape /\ HistoryShape /\ tx \in TxRecords
    BY DEF Shape, TxShape
<1>2. tx.before \in SUBSET Images /\ tx.appended \in SUBSET Keys
    BY <1>1 DEF TxRecords
<1>3. TxKeys \in SUBSET Keys
    BY <1>2 DEF TxKeys, Images
<1>4. \A k \in Keys : k.table \in Tables /\ k.gen \in Nat /\ k.recno \in Nat \ {0}
    BY DEF Keys
<1>5. \A t \in Tables : /\ rows[t] \in Seq(Row) /\ Len(rows[t]) \in Nat
                        /\ snap[t] \in Seq(Row) /\ Len(snap[t]) \in Nat
    BY <1>1 DEF DataShape, HistoryShape, Files
<1>6. \A t \in Tables : wa[t] \in WorkAreas /\ wa[t].gen \in Nat
    BY <1>1 DEF DataShape, WorkAreas
<1> QED
    BY <1>1, <1>2, <1>3, <1>4, <1>5, <1>6, TxElements DEF TxKeys, Images, DataShape

\* A key is its fields.
LEMMA SameKey ==
    ASSUME NEW k \in Keys, NEW l \in Keys, k.table = l.table, k.gen = l.gen, k.recno = l.recno
    PROVE  k = l
BY DEF Keys

\* A step that leaves the files and the keyed maps alone, before a rollback.
LEMMA Quiet ==
    ASSUME Shape, Undoable, pc # "rollback", UNCHANGED <<rows, foreign, snap>>,
           tx'.before = tx.before, tx'.appended = tx.appended,
           \A i \in 1..Len(tx'.ops) : i \in 1..Len(tx.ops) /\ tx'.ops[i] = tx.ops[i],
           \A t \in Tables : wa'[t].gen = wa[t].gen \/ wa'[t].gen = wa[t].gen + 1,
           LiveImages' = LiveImages, LiveAppends' = LiveAppends
    PROVE  Undoable'
<1>0. TxKeys' = TxKeys
    BY DEF TxKeys
<1>1. ASSUME NEW k \in TxKeys
      PROVE  /\ k.table \in Tables /\ k.gen <= wa[k.table].gen /\ k.gen <= wa'[k.table].gen
             /\ k.gen = wa'[k.table].gen => wa'[k.table].gen = wa[k.table].gen
  <2>1. k \in Keys /\ k.table \in Tables /\ k.gen \in Nat /\ wa[k.table].gen \in Nat
    BY KeptShape
  <2>2. k.gen <= wa[k.table].gen
    BY DEF Undoable, KeysOfHandles
  <2>3. wa'[k.table].gen = wa[k.table].gen \/ wa'[k.table].gen = wa[k.table].gen + 1
    BY <2>1
  <2> QED
    BY <2>1, <2>2, <2>3
<1>2. \A t \in Tables : (SameHandle(t))' => SameHandle(t)
    BY <1>0, <1>1 DEF SameHandle
<1>3. \A t \in Tables : (Followed(t))' => Followed(t)
    BY <1>2 DEF Followed
<1>4. KeysOfHandles'
    BY <1>0, <1>1 DEF KeysOfHandles
<1>5. Grown' /\ AppendedAbove' /\ OpsTouch'
    BY <1>0 DEF Undoable, Grown, AppendedAbove, OpsTouch
<1>6. ImagesInFile'
  <2>1. ASSUME NEW b \in tx.before
        PROVE  /\ b.key \notin tx.appended
               /\ b.key.gen = wa'[b.key.table].gen => InFile(b.key.table, b.key.recno)
    <3>1. b.key \in TxKeys
      BY KeptShape
    <3> QED
      BY <1>1, <3>1 DEF Undoable, ImagesInFile
  <2> QED
    BY <2>1 DEF ImagesInFile, InFile
<1>7. ImagesAreOld'
    BY <1>2 DEF Undoable, ImagesAreOld
<1>8. OldRows'
    BY <1>3 DEF Undoable, OldRows
<1>9. NewRows'
    BY <1>3 DEF Undoable, NewRows
<1> QED
    BY <1>4, <1>5, <1>6, <1>7, <1>8, <1>9 DEF Undoable

\* What is noted stays true while nothing is noted.
LEMMA NotedStays ==
    ASSUME Shape, Undoable, UNCHANGED <<tx, snap>>,
           \A t \in Tables : wa'[t].gen = wa[t].gen /\ wa'[t].open = wa[t].open
    PROVE  /\ KeysOfHandles' /\ AppendedAbove' /\ OpsTouch' /\ ImagesAreOld'
           /\ \A t \in Tables : (SameHandle(t))' = SameHandle(t)
<1>0. TxKeys' = TxKeys /\ \A k \in TxKeys : k.table \in Tables
    BY KeptShape DEF TxKeys
<1>1. \A t \in Tables : (SameHandle(t))' = SameHandle(t)
    BY <1>0 DEF SameHandle
<1>2. KeysOfHandles' /\ AppendedAbove' /\ OpsTouch'
    BY <1>0 DEF Undoable, KeysOfHandles, AppendedAbove, OpsTouch
<1>3. ImagesAreOld'
    BY <1>1 DEF Undoable, ImagesAreOld
<1> QED
    BY <1>1, <1>2, <1>3

\* A write notes the row that it changes.
LEMMA WriteUndoable ==
    ASSUME Shape, Undoable, tx.active, NEW t \in Tables, NEW new \in Row, WriteRecord(t, new)
    PROVE  Undoable'
<1> DEFINE r == wa[t].recno
           key == Here(t, r)
           image == rows[t][r]
           rec == [key |-> key, image |-> image]
<1>1. /\ pc = "api" /\ pc' = "api" /\ wa[t].open /\ r \in 1..Len(rows[t]) /\ Stores(t, r, new)
      /\ wa' = [wa EXCEPT ![t].buf = new] /\ tx' = NoteBeforeImage(tx, key, image)
      /\ UNCHANGED <<snap, foreign>>
    BY DEF WriteRecord, Positioned, InFile, Stores
<1>2. DataShape /\ tx \in TxRecords /\ rows \in Files /\ Len(tx.ops) \in Nat
    BY KeptShape DEF Shape
<1>3. /\ \A u \in Tables : Len(rows'[u]) = Len(rows[u])
      /\ \A u \in Tables : u # t => rows'[u] = rows[u]
      /\ \A j \in 1..Len(rows[t]) : j # r => rows'[t][j] = rows[t][j]
    BY <1>1, <1>2, StoreRow
<1>4. key \in Keys /\ image \in Row /\ key.table = t /\ key.gen = wa[t].gen /\ key.recno = r
  <2>1. r \in 1..MaxRows /\ image \in Row
    BY <1>1, <1>2, TableShape
  <2>2. key \in Keys
    BY <1>1, <1>2, <2>1, HereIsKey
  <2> QED
    BY <2>1, <2>2 DEF Here, NewKey
<1>5. \A u \in Tables : wa'[u].gen = wa[u].gen /\ wa'[u].open = wa[u].open
    BY <1>1, KeptShape DEF WorkAreas
<1> HIDE DEF key, image
<1>6. /\ tx'.appended = tx.appended
      /\ tx'.before = IF Touched(tx, key) THEN tx.before ELSE tx.before \cup {rec}
      /\ Len(tx'.ops) = Len(tx.ops) + 1
      /\ tx'.ops[Len(tx.ops) + 1] = [key |-> key, isAppend |-> FALSE, image |-> image]
      /\ \A i \in 1..Len(tx.ops) : tx'.ops[i] = tx.ops[i]
    BY <1>1, <1>2, <1>4, NotedImage
<1>7. /\ Touched(tx, key) <=> key \in TxKeys
      /\ TxKeys' = TxKeys \cup {key} /\ rec.key = key /\ rec.image = image
  <2>1. rec.key = key /\ rec.image = image
    OBVIOUS
  <2>2. Touched(tx, key) <=> key \in TxKeys
    BY DEF TxKeys, Touched
  <2> HIDE DEF rec
  <2>3. CASE key \in TxKeys
    <3>1. tx'.before = tx.before /\ tx'.appended = tx.appended
      BY <1>6, <2>2, <2>3
    <3> QED
      BY <2>1, <2>2, <2>3, <3>1 DEF TxKeys
  <2>4. CASE key \notin TxKeys
    <3>1. tx'.before = tx.before \cup {rec} /\ tx'.appended = tx.appended
      BY <1>6, <2>2, <2>4
    <3> QED
      BY <2>1, <2>2, <3>1 DEF TxKeys
  <2> QED
    BY <2>3, <2>4
<1> HIDE DEF r, rec
<1>8. KeysOfHandles' /\ Grown' /\ AppendedAbove'
  <2>1. KeysOfHandles'
    BY <1>4, <1>5, <1>7, KeptShape DEF Undoable, KeysOfHandles
  <2>2. Grown'
    BY <1>1, <1>3 DEF Undoable, Grown
  <2>3. AppendedAbove'
    BY <1>1, <1>6 DEF Undoable, AppendedAbove
  <2> QED
    BY <2>1, <2>2, <2>3
<1>9. OpsTouch'
  <2>1. \A i \in 1..Len(tx'.ops) : i \in 1..Len(tx.ops) \/ i = Len(tx.ops) + 1
    BY <1>2, <1>6
  <2>2. \A i \in 1..Len(tx.ops) :
           tx'.ops[i].key \in IF tx'.ops[i].isAppend THEN tx'.appended ELSE TxKeys'
    BY <1>6, <1>7 DEF Undoable, OpsTouch
  <2>3. tx'.ops[Len(tx.ops) + 1].key \in TxKeys' /\ ~tx'.ops[Len(tx.ops) + 1].isAppend
    BY <1>6, <1>7
  <2> QED
    BY <2>1, <2>2, <2>3 DEF OpsTouch
<1>10. ImagesInFile'
  <2>1. \A b \in tx.before : b.key.table \in Tables
    BY KeptShape
  <2>2. ASSUME NEW b \in tx'.before
        PROVE  /\ b.key \notin tx'.appended
               /\ b.key.gen = wa'[b.key.table].gen => b.key.recno \in 1..Len(rows'[b.key.table])
    <3>1. CASE b \in tx.before
      BY <1>3, <1>5, <1>6, <2>1, <3>1 DEF Undoable, ImagesInFile, InFile
    <3>2. CASE b = rec /\ key \notin TxKeys
      <4>1. key \notin tx.appended
        BY <3>2 DEF TxKeys
      <4> QED
        BY <1>1, <1>3, <1>4, <1>6, <1>7, <3>2, <4>1
    <3> QED
      BY <1>6, <1>7, <2>2, <3>1, <3>2
  <2> QED
    BY <2>2 DEF ImagesInFile, InFile
<1>11. \A u \in Tables : (SameHandle(u))' => SameHandle(u)
    BY <1>5, <1>7 DEF SameHandle
<1>12. ASSUME NEW b \in tx.before, SameHandle(t), b.key.table = t, b.key.recno = r
       PROVE  b.key = key
  <2>1. b.key \in Keys /\ b.key \in TxKeys
    BY KeptShape
  <2>2. b.key.gen = wa[t].gen
    BY <1>12, <2>1 DEF SameHandle
  <2> QED
    BY <1>4, <1>12, <2>1, <2>2, SameKey
<1>13. ImagesAreOld'
  <2>1. ASSUME NEW u \in Tables, (SameHandle(u))', NEW b \in tx'.before,
               b.key.table = u, b.key.recno <= Len(snap[u])
        PROVE  b.image = snap[u][b.key.recno]
    <3>1. SameHandle(u)
      BY <1>11, <2>1
    <3>2. CASE b \in tx.before
      BY <2>1, <3>1, <3>2 DEF Undoable, ImagesAreOld
    <3>3. CASE b = rec /\ key \notin TxKeys
      <4>1. u = t /\ r \in 1..Len(snap[t])
        BY <1>1, <1>4, <1>7, <2>1, <3>3, KeptShape
      <4>2. rows[t][r] = snap[t][r] \/ \E c \in tx.before : c.key.table = t /\ c.key.recno = r
        BY <1>1, <3>1, <4>1 DEF Undoable, OldRows, Followed, LiveImages
      <4>3. ~\E c \in tx.before : c.key.table = t /\ c.key.recno = r
        BY <1>12, <3>1, <3>3, <4>1, KeptShape
      <4> QED
        BY <1>4, <1>7, <3>3, <4>1, <4>2, <4>3 DEF image, r
    <3> QED
      BY <1>6, <1>7, <2>1, <3>2, <3>3
  <2> QED
    BY <1>1, <2>1 DEF ImagesAreOld
<1>14. OldRows'
  <2>1. ASSUME NEW u \in Tables, (SameHandle(u))', NEW j \in 1..Len(snap[u])
        PROVE  rows'[u][j] = snap[u][j] \/ \E b \in tx'.before : b.key.table = u /\ b.key.recno = j
    <3>1. SameHandle(u) /\ j \in 1..Len(rows[u])
      BY <1>11, <2>1, KeptShape DEF Undoable, Grown
    <3>2. rows[u][j] = snap[u][j] \/ \E b \in tx.before : b.key.table = u /\ b.key.recno = j
      BY <1>1, <3>1 DEF Undoable, OldRows, Followed, LiveImages
    <3>3. CASE u # t \/ j # r
      BY <1>3, <1>6, <3>1, <3>2, <3>3
    <3>4. CASE u = t /\ j = r
      <4>1. key \notin tx.appended
        BY <1>4, <3>4, KeptShape DEF Undoable, AppendedAbove
      <4>2. \E b \in tx'.before : b.key = key
        BY <1>6, <1>7, <4>1 DEF Touched
      <4> QED
        BY <1>4, <3>4, <4>2
    <3> QED
      BY <3>3, <3>4
  <2>2. /\ snap' = snap /\ LiveImages' = tx'.before
        /\ \A u \in Tables : (Followed(u))' => (SameHandle(u))'
    BY <1>1 DEF LiveImages, Followed
  <2> QED
    BY <2>1, <2>2 DEF OldRows
<1>15. NewRows'
  <2>1. ASSUME NEW u \in Tables, (SameHandle(u))', NEW j \in (Len(snap[u]) + 1)..Len(rows'[u])
        PROVE  j \in foreign[u] \/ \E k \in tx'.appended : k.table = u /\ k.recno = j
    BY <1>1, <1>3, <1>6, <1>11, <2>1 DEF Undoable, NewRows, Followed, LiveAppends
  <2> QED
    BY <1>1, <2>1 DEF NewRows, Followed, LiveAppends
<1> QED
    BY <1>8, <1>9, <1>10, <1>13, <1>14, <1>15 DEF Undoable

\* A row that another connection appends.
LEMMA ForeignUndoable ==
    ASSUME Shape, Undoable, NEW t \in Tables, NEW v \in Vals, ForeignAppend(t, v)
    PROVE  Undoable'
<1> DEFINE r == Len(rows[t]) + 1
<1>1. /\ rows' = [rows EXCEPT ![t] = Append(@, [val |-> v, del |-> FALSE])]
      /\ foreign' = [foreign EXCEPT ![t] = @ \cup {r}] /\ UNCHANGED <<tx, snap, wa, pc, job>>
    BY DEF ForeignAppend
<1>2. [val |-> v, del |-> FALSE] \in Row /\ rows \in Files /\ DataShape
    BY DEF Row, Shape, DataShape
<1>3. /\ rows' \in Files /\ Len(rows'[t]) = r
      /\ \A u \in Tables : u # t => rows'[u] = rows[u]
      /\ \A u \in Tables : Len(rows[u]) \in Nat /\ Len(rows[u]) <= Len(rows'[u])
      /\ \A u \in Tables : \A j \in 1..Len(rows[u]) : rows'[u][j] = rows[u][j]
    BY <1>1, <1>2, AddRow
<1>4. \A u \in Tables : Len(rows'[u]) \in Nat
    BY <1>3 DEF Files
<1>5. foreign'[t] = foreign[t] \cup {r} /\ \A u \in Tables : u # t => foreign'[u] = foreign[u]
    BY <1>1, <1>2 DEF DataShape
<1> HIDE DEF r
<1>6. /\ KeysOfHandles' /\ AppendedAbove' /\ OpsTouch' /\ ImagesAreOld'
      /\ \A u \in Tables : (SameHandle(u))' = SameHandle(u)
    BY <1>1, NotedStays
<1>7. \A u \in Tables : (Followed(u))' => Followed(u)
    BY <1>1, <1>6 DEF Followed
<1>8. Grown'
  <2>1. ASSUME NEW u \in Tables PROVE Len(snap[u]) <= Len(rows'[u])
    BY <1>3, <1>4, KeptShape DEF Undoable, Grown
  <2> QED
    BY <1>1, <2>1 DEF Grown
<1>9. ImagesInFile'
  <2>1. ASSUME NEW b \in tx.before, b.key.recno \in 1..Len(rows[b.key.table])
        PROVE  b.key.recno \in 1..Len(rows'[b.key.table])
    BY <1>3, <1>4, <2>1, KeptShape
  <2> QED
    BY <1>1, <2>1 DEF Undoable, ImagesInFile, InFile
<1>10. OldRows'
  <2>1. ASSUME NEW u \in Tables, (Followed(u))', NEW j \in 1..Len(snap[u])
        PROVE  rows'[u][j] = snap[u][j] \/ \E b \in LiveImages : b.key.table = u /\ b.key.recno = j
    <3>1. Followed(u) /\ j \in 1..Len(rows[u])
      BY <1>7, <2>1, KeptShape DEF Undoable, Grown
    <3> QED
      BY <1>3, <3>1 DEF Undoable, OldRows
  <2>2. snap' = snap /\ LiveImages' = LiveImages
    BY <1>1 DEF LiveImages
  <2> QED
    BY <2>1, <2>2 DEF OldRows
<1>11. NewRows'
  <2>1. ASSUME NEW u \in Tables, (Followed(u))', NEW j \in (Len(snap[u]) + 1)..Len(rows'[u])
        PROVE  \/ j \in foreign'[u]
               \/ \E k \in LiveAppends : k.table = u /\ k.recno = j
               \/ pc = "rollback" /\ job.images = {} /\ rows'[u][j].del
    <3>1. Followed(u) /\ Len(snap[u]) \in Nat
      BY <1>7, <2>1, KeptShape
    <3>2. j \in (Len(snap[u]) + 1)..Len(rows[u]) \/ (u = t /\ j = r)
      BY <1>3, <1>4, <3>1 DEF r
    <3>3. CASE u = t /\ j = r
      BY <1>5, <3>3
    <3>4. CASE j \in (Len(snap[u]) + 1)..Len(rows[u])
      <4>1. j \in 1..Len(rows[u])
        BY <3>1, <3>4
      <4>2. rows'[u][j] = rows[u][j] /\ foreign[u] \subseteq foreign'[u]
        BY <1>3, <1>5, <4>1
      <4> QED
        BY <3>1, <3>4, <4>2 DEF Undoable, NewRows
    <3> QED
      BY <3>2, <3>3, <3>4
  <2> QED
    BY <1>1, <2>1 DEF NewRows, LiveAppends
<1> QED
    BY <1>6, <1>8, <1>9, <1>10, <1>11 DEF Undoable

\* A row that this connection appends.
LEMMA AppendUndoable ==
    ASSUME Shape, Undoable, tx.active, NEW t \in Tables, AppendRecord(t)
    PROVE  Undoable'
<1> DEFINE r == Len(rows[t]) + 1
           key == Here(t, r)
<1>1. /\ pc = "api" /\ pc' = "api" /\ wa[t].open /\ r <= MaxRows
      /\ rows' = [rows EXCEPT ![t] = Append(@, BlankRow)]
      /\ wa' = [wa EXCEPT ![t] = [@ EXCEPT !.cnt = r, !.pos = TRUE, !.recno = r, !.buf = BlankRow]]
      /\ tx' = NoteAppend(tx, key) /\ UNCHANGED <<snap, foreign>>
    BY DEF AppendRecord
<1>2. DataShape /\ tx \in TxRecords /\ rows \in Files /\ Len(tx.ops) \in Nat /\ BlankRow \in Row
    BY KeptShape, TxConnectionAssumption DEF Shape, BlankRow, Row
<1>3. /\ rows' \in Files /\ Len(rows'[t]) = r
      /\ \A u \in Tables : u # t => rows'[u] = rows[u]
      /\ \A u \in Tables : Len(rows[u]) \in Nat /\ Len(rows[u]) <= Len(rows'[u])
      /\ \A u \in Tables : \A j \in 1..Len(rows[u]) : rows'[u][j] = rows[u][j]
    BY <1>1, <1>2, AddRow
<1>4. \A u \in Tables : Len(rows'[u]) \in Nat
    BY <1>3 DEF Files
<1>5. key \in Keys /\ key.table = t /\ key.gen = wa[t].gen /\ key.recno = r
  <2>1. r \in 1..MaxRows
    BY <1>1, <1>3
  <2>2. key \in Keys
    BY <1>1, <1>2, <2>1, HereIsKey
  <2> QED
    BY <2>2 DEF Here, NewKey
<1>6. \A u \in Tables : wa'[u].gen = wa[u].gen /\ wa'[u].open = wa[u].open
    BY <1>1, KeptShape DEF WorkAreas
<1> HIDE DEF key
<1>7. /\ tx'.appended = tx.appended \cup {key} /\ tx'.before = tx.before
      /\ Len(tx'.ops) = Len(tx.ops) + 1
      /\ tx'.ops[Len(tx.ops) + 1] = [key |-> key, isAppend |-> TRUE, image |-> NoImage]
      /\ \A i \in 1..Len(tx.ops) : tx'.ops[i] = tx.ops[i]
    BY <1>1, <1>2, <1>5, NotedAppend
<1>8. TxKeys' = TxKeys \cup {key}
    BY <1>7 DEF TxKeys
<1> HIDE DEF r
<1>9. KeysOfHandles'
    BY <1>5, <1>6, <1>8, KeptShape DEF Undoable, KeysOfHandles
<1>10. Grown'
  <2>1. ASSUME NEW u \in Tables PROVE Len(snap[u]) <= Len(rows'[u])
    BY <1>3, <1>4, KeptShape DEF Undoable, Grown
  <2> QED
    BY <1>1, <2>1 DEF Grown
<1>11. AppendedAbove'
  <2>1. r > Len(snap[t])
    BY <1>3, KeptShape DEF Undoable, Grown, r
  <2> QED
    BY <1>1, <1>5, <1>7, <2>1 DEF Undoable, AppendedAbove
<1>12. OpsTouch'
  <2>1. \A i \in 1..Len(tx'.ops) : i \in 1..Len(tx.ops) \/ i = Len(tx.ops) + 1
    BY <1>2, <1>7
  <2>2. \A i \in 1..Len(tx.ops) :
           tx'.ops[i].key \in IF tx'.ops[i].isAppend THEN tx'.appended ELSE TxKeys'
    BY <1>7, <1>8 DEF Undoable, OpsTouch
  <2>3. tx'.ops[Len(tx.ops) + 1].key \in tx'.appended /\ tx'.ops[Len(tx.ops) + 1].isAppend
    BY <1>7
  <2> QED
    BY <2>1, <2>2, <2>3 DEF OpsTouch
<1>13. ImagesInFile'
  <2>1. ASSUME NEW b \in tx.before
        PROVE  /\ b.key \notin tx'.appended
               /\ b.key.gen = wa'[b.key.table].gen => b.key.recno \in 1..Len(rows'[b.key.table])
    <3>1. b.key \notin tx.appended /\ b.key.table \in Tables
          /\ (b.key.gen = wa[b.key.table].gen => b.key.recno \in 1..Len(rows[b.key.table]))
      BY KeptShape DEF Undoable, ImagesInFile, InFile
    <3>2. b.key # key
      BY <1>3, <1>5, <3>1 DEF r
    <3>3. b.key.recno \in 1..Len(rows[b.key.table]) => b.key.recno \in 1..Len(rows'[b.key.table])
      BY <1>3, <1>4, <3>1
    <3> QED
      BY <1>6, <1>7, <3>1, <3>2, <3>3
  <2> QED
    BY <1>7, <2>1 DEF ImagesInFile, InFile
<1>14. \A u \in Tables : (SameHandle(u))' => SameHandle(u)
    BY <1>6, <1>8 DEF SameHandle
<1>15. ImagesAreOld'
    BY <1>1, <1>7, <1>14 DEF Undoable, ImagesAreOld
<1>16. OldRows'
  <2>1. ASSUME NEW u \in Tables, (SameHandle(u))', NEW j \in 1..Len(snap[u])
        PROVE  rows'[u][j] = snap[u][j] \/ \E b \in tx'.before : b.key.table = u /\ b.key.recno = j
    <3>1. SameHandle(u) /\ j \in 1..Len(rows[u])
      BY <1>14, <2>1, KeptShape DEF Undoable, Grown
    <3>2. rows[u][j] = snap[u][j] \/ \E b \in tx.before : b.key.table = u /\ b.key.recno = j
      BY <1>1, <3>1 DEF Undoable, OldRows, Followed, LiveImages
    <3> QED
      BY <1>3, <1>7, <3>1, <3>2
  <2>2. /\ snap' = snap /\ LiveImages' = tx'.before
        /\ \A u \in Tables : (Followed(u))' => (SameHandle(u))'
    BY <1>1 DEF LiveImages, Followed
  <2> QED
    BY <2>1, <2>2 DEF OldRows
<1>17. NewRows'
  <2>1. ASSUME NEW u \in Tables, (SameHandle(u))', NEW j \in (Len(snap[u]) + 1)..Len(rows'[u])
        PROVE  j \in foreign[u] \/ \E k \in tx'.appended : k.table = u /\ k.recno = j
    <3>1. SameHandle(u) /\ Len(snap[u]) \in Nat
      BY <1>14, <2>1, KeptShape
    <3>2. j \in (Len(snap[u]) + 1)..Len(rows[u]) \/ (u = t /\ j = r)
      BY <1>3, <1>4, <3>1 DEF r
    <3>3. CASE u = t /\ j = r
      BY <1>5, <1>7, <3>3
    <3>4. CASE j \in (Len(snap[u]) + 1)..Len(rows[u])
      BY <1>1, <1>7, <3>1, <3>4 DEF Undoable, NewRows, Followed, LiveAppends
    <3> QED
      BY <3>2, <3>3, <3>4
  <2> QED
    BY <1>1, <2>1 DEF NewRows, Followed, LiveAppends
<1> QED
    BY <1>9, <1>10, <1>11, <1>12, <1>13, <1>15, <1>16, <1>17 DEF Undoable

\* A new transaction.
LEMMA BeginUndoable ==
    ASSUME Shape, ~tx.active, BeginTx
    PROVE  Undoable'
<1>1. /\ pc = "api" /\ pc' = "api" /\ tx = IdleTx /\ tx' = Activate(IdleTx)
      /\ snap' = rows /\ rows' = rows
    BY DEF BeginTx, Shape, TxShape
<1>2. tx'.before = {} /\ tx'.appended = {} /\ tx'.ops = <<>>
    BY <1>1, IdleShape
<1>3. TxKeys' = {} /\ Len(tx'.ops) = 0
    BY <1>2 DEF TxKeys
<1>4. \A u \in Tables : Len(rows[u]) \in Nat
    BY KeptShape
<1>5. KeysOfHandles' /\ AppendedAbove' /\ ImagesInFile' /\ ImagesAreOld'
    BY <1>2, <1>3 DEF KeysOfHandles, AppendedAbove, ImagesInFile, ImagesAreOld
<1>6. Grown' /\ OpsTouch'
    BY <1>1, <1>3, <1>4 DEF Grown, OpsTouch
<1>7. OldRows'
    BY <1>1 DEF OldRows
<1>8. NewRows'
    BY <1>1, <1>4 DEF NewRows
<1> QED
    BY <1>5, <1>6, <1>7, <1>8 DEF Undoable

\* An image is written, and the index takes every key.
LEMMA RestoreUndoable ==
    ASSUME Shape, Undoable, Unique = FALSE, NEW b \in job.images, RestoreImage(b)
    PROVE  Undoable'
<1> DEFINE t == b.key.table
           r == b.key.recno
<1>1. /\ pc = "rollback" /\ pc' = pc /\ UNCHANGED <<tx, snap, foreign>>
      /\ b \in tx.before
    BY DEF RestoreImage, Shape, JobShape
<1>2. /\ b.key \in TxKeys /\ b.key \in Keys /\ b.image \in Row /\ t \in Tables
      /\ r \in Nat \ {0} /\ rows \in Files
    BY <1>1, KeptShape
<1>3. IsOpen(b.key) => InFile(t, r)
    BY <1>1 DEF Undoable, ImagesInFile, IsOpen
<1>4. ~SyncFails(t, r, rows[t][r].val, b.image.val)
    BY DEF SyncFails, Refused
<1>5. /\ job' = [job EXCEPT !.images = @ \ {b}]
      /\ \/ rows' = rows /\ wa' = wa /\ ~IsOpen(b.key)
         \/ /\ Stores(t, r, b.image) /\ IsOpen(b.key)
            /\ wa' = [wa EXCEPT ![t] = [@ EXCEPT !.pos = TRUE, !.recno = r, !.buf = b.image]]
    BY <1>3, <1>4 DEF RestoreImage, Stores
<1>6. job'.images = job.images \ {b} /\ job'.appends = job.appends
    BY <1>5 DEF Shape, JobShape
<1> HIDE DEF t, r
<1>7. ASSUME NEW u \in Tables
      PROVE  wa'[u].gen = wa[u].gen /\ wa'[u].open = wa[u].open
  <2>1. wa \in [Tables -> WorkAreas] /\ wa[t] \in WorkAreas
    BY <1>2, KeptShape DEF Shape, DataShape, WorkAreas
  <2>2. CASE wa' = [wa EXCEPT ![t] = [@ EXCEPT !.pos = TRUE, !.recno = r, !.buf = b.image]]
    <3>1. u # t => wa'[u] = wa[u]
      BY <1>2, <2>1, <2>2
    <3>2. wa'[t] = [wa[t] EXCEPT !.pos = TRUE, !.recno = r, !.buf = b.image]
      BY <1>2, <2>1, <2>2
    <3>3. wa'[t].gen = wa[t].gen /\ wa'[t].open = wa[t].open
      BY <2>1, <3>2 DEF WorkAreas
    <3> QED
      BY <3>1, <3>3
  <2> QED
    BY <1>5, <2>2
<1>8. /\ \A u \in Tables : Len(rows'[u]) = Len(rows[u])
      /\ \A u \in Tables : \A j \in 1..Len(rows[u]) :
            IF u = t /\ j = r /\ IsOpen(b.key) THEN rows'[u][j] = b.image
            ELSE rows'[u][j] = rows[u][j]
    BY <1>2, <1>5, StoreRow
<1>9. /\ KeysOfHandles' /\ AppendedAbove' /\ OpsTouch' /\ ImagesAreOld'
      /\ \A u \in Tables : (SameHandle(u))' = SameHandle(u)
    BY <1>1, <1>7, NotedStays
<1>10. \A u \in Tables : (Followed(u))' => Followed(u) /\ SameHandle(u) /\ wa[u].open
    BY <1>1, <1>7, <1>9 DEF Followed
<1>11. Grown'
    BY <1>1, <1>8 DEF Undoable, Grown
<1>12. ImagesInFile'
  <2>1. \A c \in tx.before : c.key.table \in Tables
    BY KeptShape
  <2> QED
    BY <1>1, <1>7, <1>8, <2>1 DEF Undoable, ImagesInFile, InFile
<1>13. \A u \in Tables : Followed(u) /\ wa[u].open /\ u = t => IsOpen(b.key)
    BY <1>2 DEF Followed, SameHandle, IsOpen, t
<1>14. OldRows'
  <2>1. ASSUME NEW u \in Tables, (Followed(u))', NEW j \in 1..Len(snap[u])
        PROVE  rows'[u][j] = snap[u][j] \/ \E c \in job'.images : c.key.table = u /\ c.key.recno = j
    <3>1. Followed(u) /\ SameHandle(u) /\ wa[u].open /\ j \in 1..Len(rows[u])
      BY <1>10, <2>1, KeptShape DEF Undoable, Grown
    <3>2. rows[u][j] = snap[u][j] \/ \E c \in job.images : c.key.table = u /\ c.key.recno = j
      BY <1>1, <3>1 DEF Undoable, OldRows, LiveImages
    <3>3. CASE u = t /\ j = r
      <4>1. rows'[u][j] = b.image
        BY <1>8, <1>13, <3>1, <3>3
      <4>2. b.image = snap[u][j]
        BY <1>1, <3>1, <3>3, KeptShape DEF Undoable, ImagesAreOld, t, r
      <4> QED
        BY <4>1, <4>2
    <3>4. CASE ~(u = t /\ j = r)
      BY <1>6, <1>8, <3>1, <3>2, <3>4 DEF t, r
    <3> QED
      BY <3>3, <3>4
  <2>2. snap' = snap /\ LiveImages' = job'.images
    BY <1>1 DEF LiveImages
  <2> QED
    BY <2>1, <2>2 DEF OldRows
<1>15. NewRows'
  <2>1. ASSUME NEW u \in Tables, (Followed(u))', NEW j \in (Len(snap[u]) + 1)..Len(rows'[u])
        PROVE  j \in foreign[u] \/ \E k \in job'.appends : k.table = u /\ k.recno = j
    <3>1. j \in (Len(snap[u]) + 1)..Len(rows[u]) /\ Followed(u) /\ job.images # {}
      BY <1>8, <1>10, <2>1
    <3> QED
      BY <1>1, <1>6, <3>1 DEF Undoable, NewRows, LiveAppends
  <2>2. UNCHANGED <<snap, foreign>> /\ LiveAppends' = job'.appends
    BY <1>1 DEF LiveAppends
  <2> QED
    BY <2>1, <2>2 DEF NewRows
<1> QED
    BY <1>9, <1>11, <1>12, <1>14, <1>15 DEF Undoable

\* An appended row is removed, in a full rollback or in one to a savepoint.
LEMMA RemoveUndoable ==
    ASSUME Shape, Undoable, NEW key \in tx.appended, RemoveAppended(key), pc' = pc
    PROVE  Undoable'
<1> DEFINE t == key.table
           r == key.recno
<1>1. /\ UNCHANGED <<tx, snap, foreign>> /\ job.images = {}
      /\ job' = [job EXCEPT !.appends = @ \ {key}]
    BY DEF RemoveAppended
<1>2. key \in Keys /\ key \in TxKeys /\ t \in Tables /\ r \in Nat \ {0} /\ DataShape
    BY KeptShape DEF Shape
<1>3. job'.images = {} /\ job'.appends = job.appends \ {key}
    BY <1>1 DEF Shape, JobShape
<1>4. CASE ~IsOpen(key)
  <2>1. UNCHANGED <<rows, wa>>
    BY <1>4 DEF RemoveAppended
  <2>2. /\ KeysOfHandles' /\ AppendedAbove' /\ OpsTouch' /\ ImagesAreOld'
        /\ \A u \in Tables : (SameHandle(u))' = SameHandle(u)
    BY <1>1, <2>1, NotedStays
  <2>3. Grown' /\ ImagesInFile'
    BY <1>1, <2>1 DEF Undoable, Grown, ImagesInFile, InFile
  <2>4. \A u \in Tables : (Followed(u))' => Followed(u) /\ (pc = "rollback" => u # t)
    BY <1>2, <1>4, <2>1, <2>2 DEF Followed, SameHandle, IsOpen
  <2> HIDE DEF t, r
  <2>5. OldRows'
    <3>1. LiveImages' = LiveImages
      BY <1>1, <1>3 DEF LiveImages
    <3> QED
      BY <1>1, <2>1, <2>4, <3>1 DEF Undoable, OldRows
  <2>6. NewRows'
    <3>1. \A k \in LiveAppends : k \in LiveAppends' \/ (pc = "rollback" /\ k = key)
      BY <1>1, <1>3 DEF LiveAppends
    <3>2. ASSUME NEW u \in Tables, (Followed(u))', NEW j \in (Len(snap[u]) + 1)..Len(rows[u])
          PROVE  \/ j \in foreign[u]
                 \/ \E k \in LiveAppends' : k.table = u /\ k.recno = j
                 \/ pc = "rollback" /\ rows[u][j].del
      BY <2>4, <3>1, <3>2 DEF Undoable, NewRows, t
    <3> QED
      BY <1>1, <1>3, <2>1, <3>2 DEF NewRows
  <2> QED
    BY <2>2, <2>3, <2>5, <2>6 DEF Undoable
<1>5. CASE IsOpen(key)
  <2>1. /\ Len(rows[t]) \in Nat /\ Len(rows'[t]) \in {Len(rows[t]), Len(rows[t]) - 1}
        /\ Len(rows'[t]) = Len(rows[t]) - 1 <=> r = Len(rows[t])
        /\ \A j \in 1..Len(rows'[t]) : j # r => rows'[t][j] = rows[t][j]
        /\ r \in 1..Len(rows'[t]) => rows'[t][r] = [rows[t][r] EXCEPT !.del = TRUE]
        /\ wa'[t].open = wa[t].open /\ wa'[t].gen = wa[t].gen
        /\ \A u \in Tables : u # t => rows'[u] = rows[u] /\ wa'[u] = wa[u]
    BY <1>2, <1>5, RemovedRow
  <2>2. \A u \in Tables : wa'[u].gen = wa[u].gen /\ wa'[u].open = wa[u].open
    BY <2>1
  <2>3. /\ KeysOfHandles' /\ AppendedAbove' /\ OpsTouch' /\ ImagesAreOld'
        /\ \A u \in Tables : (SameHandle(u))' = SameHandle(u)
    BY <1>1, <2>2, NotedStays
  <2>4. \A u \in Tables : (Followed(u))' => Followed(u)
    BY <2>2, <2>3 DEF Followed
  <2>5. r > Len(snap[t]) /\ Len(snap[t]) \in Nat /\ key.gen = wa[t].gen
    BY <1>2, <1>5, KeptShape DEF Undoable, AppendedAbove, IsOpen
  <2>6. r \in 1..Len(rows'[t]) => rows'[t][r].del
    <3>1. \A j \in 1..Len(rows[t]) : rows[t][j] \in Row
      BY <1>2, TableShape
    <3>2. r \in 1..Len(rows'[t]) => r \in 1..Len(rows[t])
      BY <2>1
    <3> HIDE DEF t, r
    <3> QED
      BY <2>1, <3>1, <3>2 DEF Row
  <2> HIDE DEF t, r
  <2>7. Len(snap[t]) <= Len(rows'[t]) /\ Len(rows'[t]) \in Nat
    BY <1>2, <2>1, <2>5, KeptShape DEF Undoable, Grown
  <2>8. Grown'
    BY <1>1, <2>1, <2>7 DEF Undoable, Grown
  <2>9. ImagesInFile'
    <3>1. ASSUME NEW b \in tx.before, b.key.gen = wa[b.key.table].gen
          PROVE  b.key.recno \in 1..Len(rows'[b.key.table])
      <4>1. b.key.recno \in 1..Len(rows[b.key.table]) /\ b.key \in Keys /\ b.key # key
        BY <3>1, KeptShape DEF Undoable, ImagesInFile, InFile
      <4>2. b.key.table = t => b.key.recno # r
        BY <1>2, <2>5, <3>1, <4>1, SameKey DEF t, r
      <4>3. b.key.table \in Tables
        BY KeptShape
      <4> QED
        BY <2>1, <2>7, <4>1, <4>2, <4>3
    <3> QED
      BY <1>1, <2>2, <3>1, KeptShape DEF Undoable, ImagesInFile, InFile
  <2>10. OldRows'
    <3>1. LiveImages' = LiveImages
      BY <1>1, <1>3 DEF LiveImages
    <3>2. ASSUME NEW u \in Tables, NEW j \in 1..Len(snap[u])
          PROVE  rows'[u][j] = rows[u][j]
      <4>1. u = t => j # r /\ j \in 1..Len(rows'[t])
        BY <2>5, <2>7
      <4> QED
        BY <2>1, <4>1
    <3> QED
      BY <1>1, <2>4, <3>1, <3>2 DEF Undoable, OldRows
  <2>11. NewRows'
    <3>1. ASSUME NEW u \in Tables, (Followed(u))', NEW j \in (Len(snap[u]) + 1)..Len(rows'[u])
          PROVE  \/ j \in foreign[u]
                 \/ \E k \in LiveAppends' : k.table = u /\ k.recno = j
                 \/ pc = "rollback" /\ rows'[u][j].del
      <4>1. \A k \in LiveAppends : k \in LiveAppends' \/ (pc = "rollback" /\ k = key)
        BY <1>1, <1>3 DEF LiveAppends
      <4>2. CASE u = t /\ j = r
        <5>1. rows'[u][j].del
          BY <2>5, <2>6, <2>7, <3>1, <4>2
        <5>2. key \in LiveAppends' \/ pc = "rollback"
          BY <1>1 DEF LiveAppends
        <5> QED
          BY <4>2, <5>1, <5>2 DEF t, r
      <4>3. CASE ~(u = t /\ j = r)
        <5>1. /\ j \in (Len(snap[u]) + 1)..Len(rows[u]) /\ Followed(u)
              /\ rows'[u][j] = rows[u][j]
          <6>1. CASE u # t
            BY <2>1, <2>4, <3>1, <6>1
          <6>2. CASE u = t
            BY <2>1, <2>4, <2>5, <2>7, <3>1, <4>3, <6>2
          <6> QED
            BY <6>1, <6>2
        <5>2. \/ j \in foreign[u]
              \/ \E k \in LiveAppends : k.table = u /\ k.recno = j
              \/ pc = "rollback" /\ rows[u][j].del
          BY <5>1 DEF Undoable, NewRows
        <5> QED
          BY <4>1, <4>3, <5>1, <5>2 DEF t, r
      <4> QED
        BY <4>2, <4>3
    <3> QED
      BY <1>1, <1>3, <3>1 DEF NewRows
  <2> QED
    BY <2>3, <2>8, <2>9, <2>10, <2>11 DEF Undoable
<1> QED
    BY <1>4, <1>5

\* An operation is undone by its own image, in a row that already has one.
LEMMA UndoUndoable ==
    ASSUME Shape, Undoable, UndoOp
    PROVE  Undoable'
<1> DEFINE op == tx.ops[job.next]
           t == op.key.table
           r == op.key.recno
<1>1. /\ pc = "savepoint" /\ pc' = pc /\ UNCHANGED <<tx, wa, snap, foreign>>
      /\ rows' = rows \/ (~op.isAppend /\ Stores(t, r, op.image))
    BY DEF UndoOp, Stores
<1>2. /\ job.next \in 1..Len(tx.ops) /\ rows \in Files
      /\ LiveImages' = LiveImages /\ LiveImages = tx.before
      /\ LiveAppends' = LiveAppends /\ LiveAppends = tx.appended
  <2>1. job.next \in Nat /\ job.idx \in Nat /\ job.next > job.idx /\ job.next <= Len(tx.ops)
    BY <1>1 DEF UndoOp, Shape, JobShape
  <2> QED
    BY <1>1, <2>1, KeptShape DEF LiveImages, LiveAppends
<1>3. op.key \in Keys /\ (~op.isAppend => op.image \in Row) /\ op.key \in TxKeys /\ t \in Tables
  <2>1. op.key \in TxKeys
    BY <1>2 DEF Undoable, OpsTouch, TxKeys
  <2> QED
    BY <1>2, <2>1, KeptShape DEF Shape, TxShape
<1> HIDE DEF op
<1>4. /\ \A u \in Tables : Len(rows'[u]) = Len(rows[u])
      /\ \A u \in Tables : \A j \in 1..Len(rows[u]) :
            ~(u = t /\ j = r) => rows'[u][j] = rows[u][j]
  <2> HIDE DEF t, r
  <2> QED
    BY <1>1, <1>2, <1>3, StoreRow
<1>5. /\ KeysOfHandles' /\ AppendedAbove' /\ OpsTouch' /\ ImagesAreOld'
      /\ \A u \in Tables : (SameHandle(u))' = SameHandle(u)
    BY <1>1, NotedStays
<1>6. \A u \in Tables : (Followed(u))' => Followed(u)
    BY <1>1, <1>5 DEF Followed
<1>7. Grown'
    BY <1>1, <1>4 DEF Undoable, Grown
<1>8. ImagesInFile'
  <2>1. \A b \in tx.before : b.key.table \in Tables
    BY KeptShape
  <2> QED
    BY <1>1, <1>4, <2>1 DEF Undoable, ImagesInFile, InFile
<1>9. OldRows'
  <2>1. ASSUME NEW u \in Tables, (Followed(u))', NEW j \in 1..Len(snap[u])
        PROVE  rows'[u][j] = snap[u][j] \/ \E b \in tx.before : b.key.table = u /\ b.key.recno = j
    <3>1. Followed(u) /\ j \in 1..Len(rows[u])
      BY <1>6, <2>1, KeptShape DEF Undoable, Grown
    <3>2. rows[u][j] = snap[u][j] \/ \E b \in tx.before : b.key.table = u /\ b.key.recno = j
      BY <1>2, <3>1 DEF Undoable, OldRows
    <3>3. CASE u = t /\ j = r
      <4>1. op.key \notin tx.appended
        BY <2>1, <3>3, KeptShape DEF Undoable, AppendedAbove
      <4>2. \E b \in tx.before : b.key = op.key
        BY <1>3, <4>1 DEF TxKeys
      <4> QED
        BY <3>3, <4>2
    <3>4. CASE ~(u = t /\ j = r)
      BY <1>4, <3>1, <3>2, <3>4
    <3> QED
      BY <3>3, <3>4
  <2> QED
    BY <1>1, <1>2, <2>1 DEF OldRows
<1>10. NewRows'
  <2>1. ASSUME NEW u \in Tables, (Followed(u))', NEW j \in (Len(snap[u]) + 1)..Len(rows'[u])
        PROVE  j \in foreign[u] \/ \E k \in tx.appended : k.table = u /\ k.recno = j
    BY <1>1, <1>2, <1>4, <1>6, <2>1 DEF Undoable, NewRows
  <2> QED
    BY <1>1, <1>2, <2>1 DEF NewRows
<1> QED
    BY <1>5, <1>7, <1>8, <1>9, <1>10 DEF Undoable

\* A move of a work area hands out a handle at most.
LEMMA HandleAfterMove ==
    ASSUME Shape, NEW t \in Tables,
           OpenTable(t) \/ CloseTable(t) \/ \E r \in 0..MaxRows : GotoRecord(t, r)
    PROVE  \A u \in Tables : wa'[u].gen = wa[u].gen \/ wa'[u].gen = wa[u].gen + 1
<1>1. wa \in [Tables -> WorkAreas] /\ wa[t] \in WorkAreas
    BY DEF Shape, DataShape
<1>2. ASSUME NEW w, wa' = [wa EXCEPT ![t] = w], w.gen = wa[t].gen \/ w.gen = wa[t].gen + 1
      PROVE  \A u \in Tables : wa'[u].gen = wa[u].gen \/ wa'[u].gen = wa[u].gen + 1
    BY <1>1, <1>2
<1>3. CASE OpenTable(t)
    BY <1>2, <1>3 DEF OpenTable
<1>4. CASE CloseTable(t)
  <2>1. Reset(wa[t]) \in WorkAreas /\ Reset(wa[t]).gen = wa[t].gen
    BY <1>1, ResetArea DEF Reset, WorkAreas
  <2>2. [Reset(wa[t]) EXCEPT !.open = FALSE, !.cnt = 0, !.buf = BlankRow].gen = wa[t].gen
    BY <2>1 DEF WorkAreas
  <2> QED
    BY <1>2, <1>4, <2>2 DEF CloseTable
<1>5. ASSUME NEW r \in 0..MaxRows, GotoRecord(t, r)
      PROVE  \A u \in Tables : wa'[u].gen = wa[u].gen \/ wa'[u].gen = wa[u].gen + 1
  <2>1. Reset(wa[t]).gen = wa[t].gen
    BY <1>1 DEF Reset, WorkAreas
  <2>2. [wa[t] EXCEPT !.pos = TRUE, !.recno = r, !.buf = rows[t][r]].gen = wa[t].gen
    BY <1>1 DEF WorkAreas
  <2> QED
    BY <1>2, <1>5, <2>1, <2>2 DEF GotoRecord
<1> QED
    BY <1>3, <1>4, <1>5

\* Neither a move nor a call that makes, drops or ends a mark touches what the
\* rollback needs.
LEMMA CallUndoable ==
    ASSUME Shape, Undoable, tx.active,
           \/ Navigate \/ RollbackTx \/ SavepointFinish
           \/ \E n \in Names : SavepointTx(n) \/ ReleaseTx(n) \/ RollbackToSavepoint(n)
           \/ (BeginTx \/ CommitTx) /\ tx' = tx
    PROVE  Undoable'
<1> USE DEF LiveImages, LiveAppends
<1>1. tx \in TxRecords /\ Len(tx.ops) \in Nat
    BY KeptShape
<1>2. CASE Navigate
  <2>1. PICK t \in Tables : OpenTable(t) \/ CloseTable(t) \/ \E r \in 0..MaxRows : GotoRecord(t, r)
    BY <1>2 DEF Navigate
  <2>2. pc = "api" /\ UNCHANGED <<rows, foreign, snap, tx, pc, job>>
    BY <2>1 DEF OpenTable, CloseTable, GotoRecord
  <2>3. \A u \in Tables : wa'[u].gen = wa[u].gen \/ wa'[u].gen = wa[u].gen + 1
    BY <2>1, HandleAfterMove
  <2> QED
    BY <2>2, <2>3, Quiet
<1>3. CASE RollbackTx
  <2>1. /\ pc = "api" /\ pc' = "rollback" /\ UNCHANGED <<rows, foreign, snap, tx, wa>>
        /\ job' = [NoJob EXCEPT !.images = tx.before, !.appends = tx.appended]
    BY <1>3 DEF RollbackTx
  <2>2. job'.images = tx.before /\ job'.appends = tx.appended
    BY <2>1 DEF NoJob
  <2> QED
    BY <2>1, <2>2, Quiet
<1>4. CASE SavepointFinish
  <2>1. /\ pc = "savepoint" /\ pc' = "api" /\ UNCHANGED <<rows, foreign, snap>>
        /\ tx' = TruncateOpsTo(tx, job.idx)
        /\ \A t \in Tables : wa'[t] \in {wa[t], Refreshed(t)}
    BY <1>4 DEF SavepointFinish, OpsUndone
  <2>2. job.idx \in 0..Len(tx.ops)
    BY <2>1, <1>1 DEF Shape, JobShape
  <2>3. tx'.before = tx.before /\ tx'.appended = tx.appended
        /\ \A i \in 1..Len(tx'.ops) : i \in 1..Len(tx.ops) /\ tx'.ops[i] = tx.ops[i]
    <3>1. /\ tx'.before = tx.before /\ tx'.appended = tx.appended
          /\ Len(tx'.ops) = job.idx /\ \A i \in 1..job.idx : tx'.ops[i] = tx.ops[i]
      BY <1>1, <2>1, <2>2, Truncated
    <3> QED
      BY <1>1, <2>2, <3>1
  <2>4. \A t \in Tables : wa'[t].gen = wa[t].gen
    <3>1. \A t \in Tables : wa[t] \in WorkAreas
      BY KeptShape
    <3>2. ASSUME NEW t \in Tables PROVE Refreshed(t).gen = wa[t].gen
      BY <3>1 DEF Refreshed, WorkAreas
    <3> QED
      BY <2>1, <3>2
  <2> QED
    BY <2>1, <2>3, <2>4, Quiet
<1>5. ASSUME NEW n \in Names, SavepointTx(n) PROVE Undoable'
  <2>1. /\ pc = "api" /\ tx' = CreateSavepoint(tx, n)
        /\ UNCHANGED <<rows, foreign, snap, wa, pc, job>>
    BY <1>5 DEF SavepointTx
  <2>2. tx'.before = tx.before /\ tx'.appended = tx.appended /\ tx'.ops = tx.ops
    BY <1>1, <2>1, Marked
  <2> QED
    BY <2>1, <2>2, Quiet
<1>6. ASSUME NEW n \in Names, ReleaseTx(n) PROVE Undoable'
  <2>1. /\ pc = "api" /\ tx' = ReleaseSavepoint(tx, n) /\ MarksNamed(tx, n) # {}
        /\ UNCHANGED <<rows, foreign, snap, wa, pc, job>>
    BY <1>6 DEF ReleaseTx
  <2>2. tx'.before = tx.before /\ tx'.appended = tx.appended /\ tx'.ops = tx.ops
    BY <1>1, <2>1, Dropped
  <2> QED
    BY <2>1, <2>2, Quiet
<1>7. ASSUME NEW n \in Names, RollbackToSavepoint(n) PROVE Undoable'
  <2>1. pc = "api" /\ pc' = "savepoint" /\ UNCHANGED <<rows, foreign, snap, wa, tx>>
    BY <1>7 DEF RollbackToSavepoint
  <2> QED
    BY <2>1, Quiet
<1>8. CASE (BeginTx \/ CommitTx) /\ tx' = tx
  <2>1. pc = "api" /\ UNCHANGED <<rows, foreign, snap, wa, pc, job>>
    <3>1. CASE BeginTx
      BY <3>1 DEF BeginTx
    <3>2. CASE CommitTx
      <4>1. depth > 1
        BY <1>8, <3>2, IdleShape DEF CommitTx
      <4> QED
        BY <3>2, <4>1 DEF CommitTx
    <3> QED
      BY <1>8, <3>1, <3>2
  <2> QED
    BY <1>8, <2>1, Quiet
<1> QED
    BY <1>2, <1>3, <1>4, <1>5, <1>6, <1>7, <1>8

\* A step of a transaction that goes on.
LEMMA UndoableKept ==
    ASSUME RInv, Unique = FALSE, Next, tx'.active
    PROVE  Undoable'
<1> USE DEF RInv
<1>1. ASSUME NEW t \in Tables, NEW new \in Row, WriteRecord(t, new)
      PROVE  Undoable'
  <2>1. tx.active
    BY <1>1 DEF WriteRecord
  <2> QED
    BY <1>1, <2>1, WriteUndoable
<1>2. CASE Mutate
  <2>1. PICK t \in Tables :
           \/ \E v \in Vals : SetField(t, v) \/ ForeignAppend(t, v)
           \/ MarkDeleted(t) \/ RecallDeleted(t) \/ AppendRecord(t)
    BY <1>2 DEF Mutate
  <2>2. ASSUME NEW v \in Vals, SetField(t, v) PROVE Undoable'
    BY <1>1, <2>2, WritesRow DEF Shape
  <2>3. ASSUME NEW v \in Vals, ForeignAppend(t, v) PROVE Undoable'
    BY <2>3, ForeignUndoable DEF ForeignAppend
  <2>4. ASSUME MarkDeleted(t) \/ RecallDeleted(t) PROVE Undoable'
    BY <1>1, <2>4, WritesRow DEF Shape
  <2>5. ASSUME AppendRecord(t) PROVE Undoable'
    BY <2>5, AppendUndoable DEF AppendRecord
  <2> QED
    BY <2>1, <2>2, <2>3, <2>4, <2>5
<1>3. CASE Navigate
  <2>1. tx' = tx
    BY <1>3 DEF Navigate, OpenTable, CloseTable, GotoRecord
  <2> QED
    BY <1>3, <2>1, CallUndoable
<1>4. CASE TxCall
  <2>1. ASSUME BeginTx, ~tx.active PROVE Undoable'
    BY <2>1, BeginUndoable
  <2>2. ASSUME BeginTx, tx.active PROVE Undoable'
    BY <2>2, CallUndoable DEF BeginTx
  <2>3. ASSUME CommitTx PROVE Undoable'
    BY <2>3, CallUndoable, IdleShape DEF CommitTx
  <2>4. ASSUME RollbackTx PROVE Undoable'
    BY <2>4, CallUndoable DEF RollbackTx
  <2>5. ASSUME \E n \in Names : SavepointTx(n) \/ ReleaseTx(n) \/ RollbackToSavepoint(n)
        PROVE  Undoable'
    BY <2>5, CallUndoable DEF SavepointTx, ReleaseTx, RollbackToSavepoint
  <2> QED
    BY <1>4, <2>1, <2>2, <2>3, <2>4, <2>5 DEF TxCall
<1>5. CASE TxStep
  <2>1. ASSUME NEW b \in job.images, RestoreImage(b) PROVE Undoable'
    BY <2>1, RestoreUndoable DEF RestoreImage
  <2>2. ASSUME NEW k \in job.appends, RollbackAppend(k) \/ SavepointAppend(k) PROVE Undoable'
    <3>1. k \in tx.appended /\ tx.active /\ RemoveAppended(k) /\ pc' = pc
      BY <2>2 DEF RollbackAppend, SavepointAppend, RemoveAppended, Shape, JobShape
    <3> QED
      BY <3>1, RemoveUndoable
  <2>3. ~RollbackFinish
    BY IdleShape DEF RollbackFinish
  <2>4. ASSUME UndoOp PROVE Undoable'
    BY <2>4, UndoUndoable DEF UndoOp
  <2>5. ASSUME SavepointFinish PROVE Undoable'
    BY <2>5, CallUndoable DEF SavepointFinish, OpsUndone, Shape, JobShape
  <2> QED
    BY <1>5, <2>1, <2>2, <2>3, <2>4, <2>5 DEF TxStep
<1> QED
    BY <1>2, <1>3, <1>4, <1>5 DEF Next

\* A partial rollback takes away appends of its transaction.
LEMMA GoneAppends ==
    ASSUME RInv, Next, pc' = "savepoint"
    PROVE  job'.appends \subseteq tx'.appended
<1>1. CASE pc # "savepoint"
  <2>1. PICK n \in Names : RollbackToSavepoint(n)
    BY <1>1 DEF Next, Mutate, SetField, MarkDeleted, RecallDeleted, WriteRecord, AppendRecord,
           ForeignAppend, Navigate, OpenTable, CloseTable, GotoRecord, TxCall, BeginTx,
           CommitTx, SavepointTx, ReleaseTx, RollbackTx, TxStep, RestoreImage, RollbackAppend,
           SavepointAppend, RemoveAppended, RollbackFinish, UndoOp, SavepointFinish
  <2>2. /\ tx' = tx /\ tx.active
        /\ \A k \in job'.appends :
              \E i \in (tx.saves[LatestMark(tx, n)].idx + 1)..Len(tx.ops) :
                 tx.ops[i].isAppend /\ k = tx.ops[i].key
    BY <2>1 DEF RollbackToSavepoint
  <2>3. tx.saves[LatestMark(tx, n)].idx \in Nat /\ Len(tx.ops) \in Nat
    <3>1. LatestMark(tx, n) \in 1..Len(tx.saves)
      BY <2>1, KeptShape, TxElements, LatestIsMark DEF RInv, RollbackToSavepoint
    <3> QED
      BY <3>1, KeptShape, TxElements DEF RInv
  <2> QED
    BY <2>2, <2>3 DEF RInv, Undoable, OpsTouch
<1>2. CASE pc = "savepoint"
  <2>1. /\ tx' = tx
        /\ job' = job \/ (\E k : job' = [job EXCEPT !.appends = @ \ {k}])
                      \/ job' = [job EXCEPT !.next = @ - 1]
    BY <1>2 DEF Next, Mutate, SetField, MarkDeleted, RecallDeleted, WriteRecord, AppendRecord,
           ForeignAppend, Navigate, OpenTable, CloseTable, GotoRecord, TxCall, BeginTx,
           CommitTx, SavepointTx, ReleaseTx, RollbackToSavepoint, RollbackTx, TxStep,
           RestoreImage, RollbackAppend, SavepointAppend, RemoveAppended, RollbackFinish,
           UndoOp, SavepointFinish, RowsUndone
  <2>2. job'.appends \subseteq job.appends
    BY <2>1 DEF RInv, Shape, JobShape
  <2> QED
    BY <1>2, <2>1, <2>2 DEF RInv
<1> QED
    BY <1>1, <1>2

\* The invariant of a connection whose indexes accept every key.
THEOREM RollbackInvariant == ASSUME Unique = FALSE PROVE Spec => []RInv
<1>1. Init => RInv
    BY InitShape DEF Init, IdleTx, RInv
<1>2. ASSUME RInv, [Next]_vars
      PROVE  RInv'
  <2>1. Shape'
    BY <1>2, ShapeKept DEF RInv
  <2>2. CASE Next
    BY <1>2, <2>1, <2>2, UndoableKept, GoneAppends DEF RInv
  <2>3. CASE UNCHANGED vars
    <3>1. /\ UNCHANGED <<rows, foreign, snap, wa, tx, pc, job>>
      BY <2>3 DEF vars
    <3>2. tx'.active => Undoable'
      BY <1>2, <3>1 DEF RInv, Undoable, KeysOfHandles, Grown, AppendedAbove, OpsTouch, TxKeys,
             ImagesInFile, InFile, ImagesAreOld, SameHandle, OldRows, NewRows, Followed,
             LiveImages, LiveAppends
    <3> QED
      BY <1>2, <2>1, <3>1, <3>2 DEF RInv
  <2> QED
    BY <1>2, <2>2, <2>3
<1> QED
    BY <1>1, <1>2, PTL DEF Spec

\* rollback_tx brings back every table whose handles stayed open, in whatever
\* order the two unordered maps are walked, whatever savepoints came and went
\* and however many rows other connections appended in between
\* (connection.cpp:253-305).
THEOREM RollbackUndoes == ASSUME Unique = FALSE PROVE Spec => []RollbackRestores
<1>1. ASSUME RInv, RowsUndone, NEW t \in Tables, Intact(t, TxKeys)
      PROVE  Restored(t, snap[t])
  <2>1. /\ Shape /\ Undoable /\ pc = "rollback" /\ job.images = {}
        /\ LiveImages = {} /\ LiveAppends = {}
    BY <1>1 DEF RInv, RowsUndone, Shape, JobShape, LiveImages, LiveAppends
  <2>2. Followed(t)
    BY <1>1 DEF Intact, IsOpen, Followed, SameHandle
  <2>3. Len(snap[t]) \in Nat /\ Len(rows[t]) \in Nat /\ Len(snap[t]) <= Len(rows[t])
    BY <2>1, KeptShape DEF Undoable, Grown
  <2>4. \A r \in 1..Len(snap[t]) : InFile(t, r) /\ rows[t][r] = snap[t][r]
    BY <2>1, <2>2, <2>3 DEF Undoable, OldRows, InFile
  <2>5. \A r \in (Len(snap[t]) + 1)..Len(rows[t]) : r \in foreign[t] \/ rows[t][r].del
    BY <2>1, <2>2 DEF Undoable, NewRows
  <2> QED
    BY <2>4, <2>5 DEF Restored
<1>2. RInv => RollbackRestores
    BY <1>1 DEF RollbackRestores
<1> QED
    BY <1>2, RollbackInvariant, PTL

-----------------------------------------------------------------------------
(* The rollback to a savepoint, of tables that are opened once *)

\* The operations that are not undone yet, and those that will stay.
Last == IF pc = "savepoint" THEN job.next ELSE Len(tx.ops)
Base == IF pc = "savepoint" THEN job.idx ELSE Len(tx.ops)

\* The marks that survive, and the operations each of them follows.
MarkIdx(i) == tx.saves[i].idx
LiveMarks == {i \in 1..Len(tx.saves) : MarkIdx(i) <= Base}

\* The table's handle was not closed.
Usable(t) == wa[t].open \/ wa[t].gen = 0

On(op, t, r) == op.key.table = t /\ op.key.recno = r

\* Undoing the operations of a list from the last one down to the one after
\* `from' leaves this row.
GoesBack(file, ops, last, from, t, r, row) ==
    \/ /\ \A j \in (from + 1)..last : ~On(ops[j], t, r)
       /\ file[t][r] = row
    \/ \E j \in (from + 1)..last :
          /\ On(ops[j], t, r) /\ ~ops[j].isAppend /\ ops[j].image = row
          /\ \A k \in (from + 1)..(j - 1) : ~On(ops[k], t, r)

\* Rows that the rollback takes away, and those it has still to take away.
Leaving(t, r) == pc = "savepoint" /\ \E k \in job.skip : k.table = t /\ k.recno = r
Waiting(t, r) == pc = "savepoint" /\ \E k \in job.appends : k.table = t /\ k.recno = r

\* A row above those of a mark: it is another connection's, or it is taken
\* away with the operations since, or undoing them leaves it deleted.
NewAt(i, t, r) ==
    \/ r \in foreign[t]
    \/ \E j \in (MarkIdx(i) + 1)..Base : tx.ops[j].isAppend /\ On(tx.ops[j], t, r)
    \/ Waiting(t, r)
    \/ Leaving(t, r) /\ rows[t][r].del
    \/ ~Leaving(t, r) /\ \E row \in Row : row.del /\ GoesBack(rows, tx.ops, Last, MarkIdx(i), t, r, row)

\* Operations are made through handles that were handed out.
OpsOfHandles == \A j \in 1..Len(tx.ops) : wa[tx.ops[j].key.table].gen # 0

\* Operations that stay are on rows of the file, and so are appends to remove.
OpsInFile ==
    /\ \A j \in 1..Base : InFile(tx.ops[j].key.table, tx.ops[j].key.recno)
    /\ pc = "savepoint" => \A k \in job.appends : InFile(k.table, k.recno)

\* Nothing is done to a row before it is appended.
AppendsFirst ==
    \A j, k \in 1..Len(tx.ops) :
        tx.ops[j].isAppend /\ tx.ops[k].key = tx.ops[j].key => j <= k

\* The rollback takes away what was appended after the mark.
SkipsAppends ==
    pc = "savepoint" =>
        /\ \A k \in job.skip :
              \E j \in (job.idx + 1)..Len(tx.ops) : tx.ops[j].isAppend /\ tx.ops[j].key = k
        /\ \A j \in (job.idx + 1)..Len(tx.ops) : tx.ops[j].isAppend => tx.ops[j].key \in job.skip

\* Since a mark the file grew, and by appends.
MarksGrown ==
    \A i \in LiveMarks :
        /\ \A t \in Tables : Len(marks[i][t]) <= Len(rows[t])
        /\ \A j \in (MarkIdx(i) + 1)..Len(tx.ops) :
              tx.ops[j].isAppend => tx.ops[j].key.recno > Len(marks[i][tx.ops[j].key.table])

\* Undoing brings every row of a mark back, and explains every row above.
OldGoBack ==
    \A i \in LiveMarks : \A t \in Tables : Usable(t) =>
        \A r \in 1..Len(marks[i][t]) :
            GoesBack(rows, tx.ops, Last, MarkIdx(i), t, r, marks[i][t][r])
NewGo ==
    \A i \in LiveMarks : \A t \in Tables : Usable(t) =>
        \A r \in (Len(marks[i][t]) + 1)..Len(rows[t]) : NewAt(i, t, r)

Rewinds ==
    /\ OpsOfHandles /\ OpsInFile /\ AppendsFirst /\ SkipsAppends
    /\ MarksGrown /\ OldGoBack /\ NewGo

MInv == Shape /\ (pc # "rollback" => Rewinds)

\* The bounds of what a rollback to a mark undoes.
LEMMA MarkShape ==
    ASSUME Shape, MaxOpens = 1, pc # "rollback"
    PROVE  /\ Len(tx.ops) \in Nat /\ Len(tx.saves) \in Nat /\ tx \in TxRecords /\ rows \in Files
           /\ Base \in Nat /\ Last \in Nat /\ Base <= Last /\ Last <= Len(tx.ops)
           /\ pc = "api" => Base = Len(tx.ops) /\ Last = Len(tx.ops)
           /\ \A i \in 1..Len(tx.saves) :
                 /\ MarkIdx(i) \in Nat /\ MarkIdx(i) <= Len(tx.ops)
                 /\ \A t \in Tables : marks[i][t] \in Seq(Row) /\ Len(marks[i][t]) \in Nat
           /\ \A j \in 1..Len(tx.ops) :
                 /\ tx.ops[j].key \in Keys /\ tx.ops[j].key.table \in Tables
                 /\ tx.ops[j].key.recno \in Nat \ {0} /\ tx.ops[j].key.gen = 1
           /\ \A t \in Tables : /\ Len(rows[t]) \in Nat
                                /\ \A r \in 1..Len(rows[t]) : rows[t][r] \in Row
<1>1. tx \in TxRecords /\ rows \in Files /\ DataShape /\ JobShape /\ HistoryShape
    BY KeptShape DEF Shape
<1>2. /\ Len(tx.ops) \in Nat /\ Len(tx.saves) \in Nat
      /\ \A j \in 1..Len(tx.ops) : tx.ops[j].key \in Keys
      /\ \A i \in 1..Len(tx.saves) : tx.saves[i].idx \in Nat
    BY <1>1, TxElements
<1>3. \A k \in Keys : k.table \in Tables /\ k.recno \in Nat \ {0} /\ k.gen = 1
    BY TxConnectionAssumption DEF Keys
<1>4. \A t \in Tables : Len(rows[t]) \in Nat /\ \A r \in 1..Len(rows[t]) : rows[t][r] \in Row
    BY <1>1, TableShape
<1>5. \A i \in 1..Len(tx.saves) : \A t \in Tables :
         marks[i][t] \in Seq(Row) /\ Len(marks[i][t]) \in Nat
  <2>1. marks \in Seq(Files) /\ Len(marks) = Len(tx.saves)
    BY <1>1 DEF HistoryShape
  <2>2. \A i \in 1..Len(tx.saves) : marks[i] \in Files
    BY <2>1, Elements
  <2> QED
    BY <2>2 DEF Files
<1>6. \A i \in 1..Len(tx.saves) : tx.saves[i].idx <= Len(tx.ops)
    BY DEF Shape, MarksNested
<1>7. CASE pc = "api"
  <2>1. Base = Len(tx.ops) /\ Last = Len(tx.ops)
    BY <1>7 DEF Base, Last
  <2> QED
    BY <1>1, <1>2, <1>3, <1>4, <1>5, <1>6, <2>1 DEF MarkIdx
<1>8. CASE pc = "savepoint"
  <2>1. Base = job.idx /\ Last = job.next
    BY <1>8 DEF Base, Last
  <2>2. job.idx \in Nat /\ job.next \in Nat /\ job.idx <= job.next /\ job.next <= Len(tx.ops)
    BY <1>1, <1>8 DEF JobShape
  <2> QED
    BY <1>1, <1>2, <1>3, <1>4, <1>5, <1>6, <1>8, <2>1, <2>2 DEF MarkIdx
<1> QED
    BY <1>1, <1>7, <1>8 DEF JobShape

\* With one handle a table and a record number tell the row.
LEMMA SameRow ==
    ASSUME MaxOpens = 1, NEW k \in Keys, NEW l \in Keys, k.table = l.table, k.recno = l.recno
    PROVE  k = l
<1>1. k.gen = 1 /\ l.gen = 1
    BY DEF Keys
<1> QED
    BY <1>1, SameKey

\* The same operations on the same row.
LEMMA SameBack ==
    ASSUME NEW file, NEW file2, NEW ops, NEW ops2, NEW last \in Nat, NEW from \in Nat,
           NEW t, NEW r, NEW row, GoesBack(file, ops, last, from, t, r, row),
           file2[t][r] = file[t][r], \A j \in (from + 1)..last : ops2[j] = ops[j]
    PROVE  GoesBack(file2, ops2, last, from, t, r, row)
<1>1. CASE (\A j \in (from + 1)..last : ~On(ops[j], t, r)) /\ file[t][r] = row
    BY <1>1 DEF GoesBack
<1>2. CASE \E j \in (from + 1)..last :
              /\ On(ops[j], t, r) /\ ~ops[j].isAppend /\ ops[j].image = row
              /\ \A k \in (from + 1)..(j - 1) : ~On(ops[k], t, r)
  <2>1. PICK j \in (from + 1)..last :
              /\ On(ops[j], t, r) /\ ~ops[j].isAppend /\ ops[j].image = row
              /\ \A k \in (from + 1)..(j - 1) : ~On(ops[k], t, r)
    BY <1>2
  <2>2. \A k \in (from + 1)..(j - 1) : k \in (from + 1)..last
    BY <2>1
  <2>3. \A k \in (from + 1)..(j - 1) : ~On(ops2[k], t, r)
    BY <2>1, <2>2
  <2>4. On(ops2[j], t, r) /\ ~ops2[j].isAppend /\ ops2[j].image = row
    BY <2>1
  <2> QED
    BY <2>1, <2>3, <2>4 DEF GoesBack
<1> QED
    BY <1>1, <1>2 DEF GoesBack

\* One more operation, which knows the row that it changes.
LEMMA BackWithOneMore ==
    ASSUME NEW file, NEW file2, NEW ops, NEW ops2, NEW last \in Nat, NEW from \in Nat,
           NEW t, NEW r, NEW row, GoesBack(file, ops, last, from, t, r, row), from <= last,
           \A j \in (from + 1)..last : ops2[j] = ops[j],
           IF On(ops2[last + 1], t, r)
           THEN ~ops2[last + 1].isAppend /\ ops2[last + 1].image = file[t][r]
           ELSE file2[t][r] = file[t][r]
    PROVE  GoesBack(file2, ops2, last + 1, from, t, r, row)
<1>0. \A j \in (from + 1)..(last + 1) : j = last + 1 \/ j \in (from + 1)..last
    OBVIOUS
<1>1. CASE (\A j \in (from + 1)..last : ~On(ops[j], t, r)) /\ file[t][r] = row
  <2>1. \A j \in (from + 1)..last : ~On(ops2[j], t, r)
    BY <1>1
  <2>2. CASE On(ops2[last + 1], t, r)
    <3>1. last + 1 \in (from + 1)..(last + 1) /\ (last + 1) - 1 = last
      OBVIOUS
    <3> QED
      BY <1>1, <2>1, <2>2, <3>1 DEF GoesBack
  <2>3. CASE ~On(ops2[last + 1], t, r)
    BY <1>0, <1>1, <2>1, <2>3 DEF GoesBack
  <2> QED
    BY <2>2, <2>3
<1>2. CASE \E j \in (from + 1)..last :
              /\ On(ops[j], t, r) /\ ~ops[j].isAppend /\ ops[j].image = row
              /\ \A k \in (from + 1)..(j - 1) : ~On(ops[k], t, r)
  <2>1. PICK j \in (from + 1)..last :
              /\ On(ops[j], t, r) /\ ~ops[j].isAppend /\ ops[j].image = row
              /\ \A k \in (from + 1)..(j - 1) : ~On(ops[k], t, r)
    BY <1>2
  <2>2. (\A k \in (from + 1)..(j - 1) : k \in (from + 1)..last) /\ j \in (from + 1)..(last + 1)
    BY <2>1
  <2>3. \A k \in (from + 1)..(j - 1) : ~On(ops2[k], t, r)
    BY <2>1, <2>2
  <2>4. On(ops2[j], t, r) /\ ~ops2[j].isAppend /\ ops2[j].image = row
    BY <2>1
  <2> QED
    BY <2>2, <2>3, <2>4 DEF GoesBack
<1> QED
    BY <1>1, <1>2 DEF GoesBack

\* One operation less, when its row got its image.
LEMMA BackWithOneLess ==
    ASSUME NEW file, NEW file2, NEW ops, NEW last \in Nat, NEW from \in Nat,
           NEW t, NEW r, NEW row, GoesBack(file, ops, last, from, t, r, row), from < last,
           IF On(ops[last], t, r) THEN file2[t][r] = ops[last].image
           ELSE file2[t][r] = file[t][r]
    PROVE  GoesBack(file2, ops, last - 1, from, t, r, row)
<1>0. /\ \A j \in (from + 1)..last : j = last \/ j \in (from + 1)..(last - 1)
      /\ \A j \in (from + 1)..(last - 1) : j \in (from + 1)..last
      /\ last \in (from + 1)..last
    OBVIOUS
<1>1. CASE (\A j \in (from + 1)..last : ~On(ops[j], t, r)) /\ file[t][r] = row
    BY <1>0, <1>1 DEF GoesBack
<1>2. CASE \E j \in (from + 1)..last :
              /\ On(ops[j], t, r) /\ ~ops[j].isAppend /\ ops[j].image = row
              /\ \A k \in (from + 1)..(j - 1) : ~On(ops[k], t, r)
  <2>1. PICK j \in (from + 1)..last :
              /\ On(ops[j], t, r) /\ ~ops[j].isAppend /\ ops[j].image = row
              /\ \A k \in (from + 1)..(j - 1) : ~On(ops[k], t, r)
    BY <1>2
  <2>2. CASE j = last
    BY <2>1, <2>2 DEF GoesBack
  <2>3. CASE j # last
    <3>1. j \in (from + 1)..(last - 1)
      BY <1>0, <2>3
    <3> QED
      BY <2>1, <3>1 DEF GoesBack
  <2> QED
    BY <2>2, <2>3
<1> QED
    BY <1>1, <1>2 DEF GoesBack

\* No transaction, or a new one.
LEMMA EmptyRewinds ==
    ASSUME pc' = "api", tx'.ops = <<>>, tx'.saves = <<>>
    PROVE  Rewinds'
<1>1. Len(tx'.ops) = 0 /\ Len(tx'.saves) = 0 /\ pc' # "savepoint"
    OBVIOUS
<1>2. LiveMarks' = {}
    BY <1>1 DEF LiveMarks
<1>3. OpsOfHandles' /\ OpsInFile' /\ AppendsFirst' /\ SkipsAppends'
    BY <1>1 DEF OpsOfHandles, OpsInFile, AppendsFirst, SkipsAppends, Base
<1>4. MarksGrown' /\ OldGoBack' /\ NewGo'
    BY <1>2 DEF MarksGrown, OldGoBack, NewGo
<1> QED
    BY <1>3, <1>4 DEF Rewinds

\* A call that leaves the files and the transaction alone.
LEMMA CallRewinds ==
    ASSUME Rewinds, UNCHANGED <<rows, foreign, marks, tx, pc, job>>,
           \A t \in Tables : wa[t].gen # 0 => wa'[t].gen # 0,
           \A t \in Tables : (Usable(t))' => Usable(t),
           \A j \in 1..Len(tx.ops) : tx.ops[j].key.table \in Tables
    PROVE  Rewinds'
<1>1. OpsOfHandles' /\ OpsInFile' /\ AppendsFirst' /\ SkipsAppends'
    BY DEF Rewinds, OpsOfHandles, OpsInFile, AppendsFirst, SkipsAppends, Base, InFile
<1>2. LiveMarks' = LiveMarks /\ Base' = Base /\ Last' = Last
    BY DEF LiveMarks, Base, Last, MarkIdx
<1>3. MarksGrown' /\ OldGoBack'
    BY <1>2 DEF Rewinds, MarksGrown, OldGoBack, MarkIdx
<1>4. NewGo'
    BY <1>2 DEF Rewinds, NewGo, NewAt, MarkIdx, Waiting, Leaving
<1> QED
    BY <1>1, <1>3, <1>4 DEF Rewinds

\* A table is opened once.
LEMMA MoveRewinds ==
    ASSUME Shape, MaxOpens = 1, Rewinds, Navigate
    PROVE  Rewinds'
<1>1. PICK t \in Tables : OpenTable(t) \/ CloseTable(t) \/ \E r \in 0..MaxRows : GotoRecord(t, r)
    BY DEF Navigate
<1>2. pc = "api" /\ UNCHANGED <<rows, foreign, marks, tx, pc, job>>
    BY <1>1 DEF OpenTable, CloseTable, GotoRecord
<1>3. \A u \in Tables : wa'[u].gen = wa[u].gen \/ wa'[u].gen = wa[u].gen + 1
    BY <1>1, HandleAfterMove
<1>4. \A u \in Tables : wa[u] \in WorkAreas /\ wa[u].gen \in Nat /\ (wa[u].open => wa[u].gen # 0)
    BY KeptShape DEF Shape, DataShape
<1>5. \A u \in Tables : u # t => wa'[u] = wa[u]
    BY <1>1 DEF OpenTable, CloseTable, GotoRecord, Shape, DataShape
<1>6. (Usable(t))' => Usable(t)
  <2>1. CASE OpenTable(t)
    BY <1>4, <2>1 DEF OpenTable, Usable
  <2>2. CASE CloseTable(t)
    BY <1>3, <1>4, <2>2 DEF CloseTable, Usable
  <2>3. CASE \E r \in 0..MaxRows : GotoRecord(t, r)
    BY <2>3 DEF GotoRecord, Usable
  <2> QED
    BY <1>1, <2>1, <2>2, <2>3
<1>7. \A u \in Tables : (Usable(u))' => Usable(u)
    BY <1>5, <1>6 DEF Usable
<1>8. \A u \in Tables : wa[u].gen # 0 => wa'[u].gen # 0
    BY <1>3, <1>4
<1>9. \A j \in 1..Len(tx.ops) : tx.ops[j].key.table \in Tables
    BY <1>2, MarkShape
<1> QED
    BY <1>2, <1>7, <1>8, <1>9, CallRewinds

\* A write notes the row that it changes.
LEMMA WriteRewinds ==
    ASSUME Shape, MaxOpens = 1, Rewinds, tx.active,
           NEW t \in Tables, NEW new \in Row, WriteRecord(t, new)
    PROVE  Rewinds'
<1> DEFINE r == wa[t].recno
           key == Here(t, r)
           image == rows[t][r]
           n == Len(tx.ops)
<1>1. /\ pc = "api" /\ pc' = "api" /\ wa[t].open /\ r \in 1..Len(rows[t]) /\ Stores(t, r, new)
      /\ wa' = [wa EXCEPT ![t].buf = new] /\ tx' = NoteBeforeImage(tx, key, image)
      /\ UNCHANGED <<marks, foreign>>
    BY DEF WriteRecord, Positioned, InFile, Stores
<1>2. DataShape /\ tx \in TxRecords /\ rows \in Files /\ n \in Nat
    BY <1>1, MarkShape DEF Shape
<1>3. /\ \A u \in Tables : Len(rows'[u]) = Len(rows[u])
      /\ \A u \in Tables : \A j \in 1..Len(rows[u]) :
            ~(u = t /\ j = r) => rows'[u][j] = rows[u][j]
    BY <1>1, <1>2, StoreRow
<1>4. key \in Keys /\ image \in Row /\ key.table = t /\ key.recno = r
  <2>1. r \in 1..MaxRows /\ image \in Row
    BY <1>1, <1>2, TableShape
  <2>2. key \in Keys
    BY <1>1, <1>2, <2>1, HereIsKey
  <2> QED
    BY <2>2, <2>1 DEF Here, NewKey
<1>5. \A u \in Tables : wa'[u].gen = wa[u].gen /\ wa'[u].open = wa[u].open
    BY <1>1, KeptShape DEF WorkAreas
<1> HIDE DEF key, image, n
<1>6. /\ tx'.saves = tx.saves /\ Len(tx'.ops) = n + 1
      /\ tx'.ops[n + 1] = [key |-> key, isAppend |-> FALSE, image |-> image]
      /\ \A j \in 1..n : tx'.ops[j] = tx.ops[j]
    BY <1>1, <1>2, <1>4, NotedImage DEF n
<1>7. tx'.ops[n + 1].key = key /\ ~tx'.ops[n + 1].isAppend /\ tx'.ops[n + 1].image = image
    BY <1>6
<1>8. /\ \A j \in 1..(n + 1) : j \in 1..n \/ j = n + 1
      /\ \A i \in 1..Len(tx.saves) : MarkIdx(i) \in Nat /\ MarkIdx(i) <= n
      /\ Base = n /\ Last = n /\ Base' = n + 1 /\ Last' = n + 1
    BY <1>1, <1>2, <1>6, MarkShape DEF Base, Last, n
<1>9. LiveMarks = 1..Len(tx.saves) /\ LiveMarks' = 1..Len(tx.saves)
      /\ \A i \in 1..Len(tx.saves) : (MarkIdx(i))' = MarkIdx(i)
    BY <1>2, <1>6, <1>8 DEF LiveMarks, MarkIdx
<1>10. \A u \in Tables : (Usable(u))' = Usable(u)
    BY <1>5 DEF Usable
<1> HIDE DEF r
<1>11. OpsOfHandles'
  <2>1. \A j \in 1..n : tx.ops[j].key.table \in Tables /\ wa[tx.ops[j].key.table].gen # 0
    BY <1>1, MarkShape DEF Rewinds, OpsOfHandles, n
  <2>2. wa[t].gen # 0
    BY <1>1, <1>2 DEF DataShape
  <2> QED
    BY <1>4, <1>5, <1>6, <1>7, <1>8, <2>1, <2>2 DEF OpsOfHandles
<1>12. OpsInFile'
  <2>1. \A j \in 1..n : tx.ops[j].key.table \in Tables
                        /\ tx.ops[j].key.recno \in 1..Len(rows[tx.ops[j].key.table])
    BY <1>1, <1>8, MarkShape DEF Rewinds, OpsInFile, InFile, n
  <2>2. \A j \in 1..n : tx'.ops[j].key.recno \in 1..Len(rows'[tx'.ops[j].key.table])
    BY <1>3, <1>6, <2>1
  <2>3. tx'.ops[n + 1].key.recno \in 1..Len(rows'[tx'.ops[n + 1].key.table])
    BY <1>1, <1>3, <1>4, <1>7
  <2>4. \A j \in 1..(n + 1) : tx'.ops[j].key.recno \in 1..Len(rows'[tx'.ops[j].key.table])
    BY <1>8, <2>2, <2>3
  <2> QED
    BY <1>1, <1>8, <2>4 DEF OpsInFile, InFile
<1>13. AppendsFirst' /\ SkipsAppends'
  <2>1. ASSUME NEW j \in 1..(n + 1), NEW k \in 1..(n + 1), tx'.ops[j].isAppend,
               tx'.ops[k].key = tx'.ops[j].key
        PROVE  j <= k
    <3>1. j \in 1..n
      BY <1>7, <1>8, <2>1
    <3>2. CASE k = n + 1
      BY <1>2, <3>1, <3>2 DEF n
    <3>3. CASE k \in 1..n
      BY <1>6, <2>1, <3>1, <3>3 DEF Rewinds, AppendsFirst, n
    <3> QED
      BY <1>8, <3>2, <3>3
  <2> QED
    BY <1>1, <1>6, <2>1 DEF AppendsFirst, SkipsAppends
<1>14. MarksGrown'
  <2>1. ASSUME NEW i \in 1..Len(tx.saves)
        PROVE  /\ \A u \in Tables : Len(marks[i][u]) <= Len(rows'[u])
               /\ \A j \in (MarkIdx(i) + 1)..(n + 1) :
                     tx'.ops[j].isAppend => tx'.ops[j].key.recno > Len(marks[i][tx'.ops[j].key.table])
    <3>1. ASSUME NEW j \in (MarkIdx(i) + 1)..(n + 1), tx'.ops[j].isAppend
          PROVE  j \in (MarkIdx(i) + 1)..n /\ j \in 1..n
      <4>1. j \in 1..(n + 1) /\ (j # n + 1 => j \in (MarkIdx(i) + 1)..n)
        BY <1>2, <1>8 DEF n
      <4> QED
        BY <1>7, <1>8, <3>1, <4>1
    <3> QED
      BY <1>3, <1>6, <1>9, <3>1 DEF Rewinds, MarksGrown, n
  <2> QED
    BY <1>1, <1>6, <1>9, <2>1 DEF MarksGrown
<1>15. ASSUME NEW i \in 1..Len(tx.saves), NEW u \in Tables, NEW j \in 1..Len(rows[u]), NEW row,
              GoesBack(rows, tx.ops, n, MarkIdx(i), u, j, row)
       PROVE  GoesBack(rows', tx'.ops, n + 1, MarkIdx(i), u, j, row)
  <2>1. IF On(tx'.ops[n + 1], u, j)
        THEN ~tx'.ops[n + 1].isAppend /\ tx'.ops[n + 1].image = rows[u][j]
        ELSE rows'[u][j] = rows[u][j]
    BY <1>3, <1>4, <1>7 DEF On, image
  <2>2. \A k \in (MarkIdx(i) + 1)..n : tx'.ops[k] = tx.ops[k]
    BY <1>6, <1>8
  <2> QED
    BY <1>2, <1>8, <1>15, <2>1, <2>2, BackWithOneMore DEF n
<1>16. OldGoBack'
  <2>1. ASSUME NEW i \in 1..Len(tx.saves), NEW u \in Tables, Usable(u), NEW j \in 1..Len(marks[i][u])
        PROVE  GoesBack(rows', tx'.ops, n + 1, MarkIdx(i), u, j, marks[i][u][j])
    <3>1. j \in 1..Len(rows[u])
      BY <1>1, <1>9, MarkShape DEF Rewinds, MarksGrown
    <3>2. GoesBack(rows, tx.ops, n, MarkIdx(i), u, j, marks[i][u][j])
      BY <1>8, <1>9, <2>1 DEF Rewinds, OldGoBack
    <3> QED
      BY <1>15, <3>1, <3>2
  <2>2. marks' = marks /\ Last' = n + 1
    BY <1>1, <1>8
  <2> QED
    BY <1>9, <1>10, <2>1, <2>2 DEF OldGoBack
<1>17. NewGo'
  <2>1. ASSUME NEW i \in 1..Len(tx.saves), NEW u \in Tables, Usable(u),
               NEW j \in (Len(marks[i][u]) + 1)..Len(rows[u])
        PROVE  (NewAt(i, u, j))'
    <3>1. j \in 1..Len(rows[u])
      BY <1>1, MarkShape
    <3>2. /\ NewAt(i, u, j)
          /\ ~Waiting(u, j) /\ ~Leaving(u, j) /\ (~Leaving(u, j))'
      BY <1>1, <1>9, <2>1 DEF Rewinds, NewGo, Waiting, Leaving
    <3>3. CASE j \in foreign[u]
      BY <1>1, <3>3 DEF NewAt
    <3>4. CASE \E k \in (MarkIdx(i) + 1)..n : tx.ops[k].isAppend /\ On(tx.ops[k], u, j)
      <4>1. PICK k \in (MarkIdx(i) + 1)..n : tx.ops[k].isAppend /\ On(tx.ops[k], u, j)
        BY <3>4
      <4>2. MarkIdx(i) \in Nat /\ n \in Nat
        BY <1>2, <1>8 DEF n
      <4>3. k \in (MarkIdx(i) + 1)..(n + 1) /\ k \in 1..n
        BY <4>1, <4>2
      <4>4. tx'.ops[k] = tx.ops[k]
        BY <1>6, <4>3
      <4> QED
        BY <1>8, <1>9, <4>1, <4>3, <4>4 DEF NewAt
    <3>5. ASSUME NEW row \in Row, row.del, GoesBack(rows, tx.ops, n, MarkIdx(i), u, j, row)
          PROVE  (NewAt(i, u, j))'
      <4>1. GoesBack(rows', tx'.ops, n + 1, MarkIdx(i), u, j, row)
        BY <1>15, <3>1, <3>5
      <4> QED
        BY <1>8, <1>9, <3>2, <3>5, <4>1 DEF NewAt
    <3> QED
      BY <1>8, <3>2, <3>3, <3>4, <3>5 DEF NewAt
  <2> QED
    BY <1>1, <1>3, <1>9, <1>10, <2>1 DEF NewGo
<1> QED
    BY <1>11, <1>12, <1>13, <1>14, <1>16, <1>17 DEF Rewinds

\* A row that another connection appends.
LEMMA ForeignRewinds ==
    ASSUME Shape, MaxOpens = 1, Rewinds, pc # "rollback",
           NEW t \in Tables, NEW v \in Vals, ForeignAppend(t, v)
    PROVE  Rewinds'
<1> DEFINE r == Len(rows[t]) + 1
<1>1. /\ rows' = [rows EXCEPT ![t] = Append(@, [val |-> v, del |-> FALSE])]
      /\ foreign' = [foreign EXCEPT ![t] = @ \cup {r}] /\ UNCHANGED <<tx, marks, wa, pc, job>>
    BY DEF ForeignAppend
<1>2. [val |-> v, del |-> FALSE] \in Row /\ rows \in Files /\ DataShape
    BY MarkShape DEF Row, Shape
<1>3. /\ rows' \in Files /\ Len(rows'[t]) = r
      /\ \A u \in Tables : u # t => rows'[u] = rows[u]
      /\ \A u \in Tables : Len(rows[u]) \in Nat /\ Len(rows[u]) <= Len(rows'[u])
      /\ \A u \in Tables : \A j \in 1..Len(rows[u]) : rows'[u][j] = rows[u][j]
    BY <1>1, <1>2, AddRow
<1>4. \A u \in Tables : Len(rows'[u]) \in Nat
    BY <1>3 DEF Files
<1>5. foreign'[t] = foreign[t] \cup {r} /\ \A u \in Tables : u # t => foreign'[u] = foreign[u]
    BY <1>1, <1>2 DEF DataShape
<1> HIDE DEF r
<1>6. LiveMarks' = LiveMarks /\ Base' = Base /\ Last' = Last
      /\ \A i \in LiveMarks : (MarkIdx(i))' = MarkIdx(i) /\ i \in 1..Len(tx.saves)
    BY <1>1 DEF LiveMarks, Base, Last, MarkIdx
<1>7. \A u \in Tables : (Usable(u))' = Usable(u)
    BY <1>1 DEF Usable
<1>8. \A u \in Tables : \A j \in 1..Len(rows[u]) : j \in 1..Len(rows'[u])
    BY <1>3, <1>4
<1>9. \A i \in LiveMarks : /\ MarkIdx(i) \in Nat /\ MarkIdx(i) <= Last
                           /\ \A u \in Tables : /\ Len(marks[i][u]) \in Nat
                                                /\ Len(marks[i][u]) <= Len(rows[u])
    BY MarkShape DEF LiveMarks, Rewinds, MarksGrown
<1>10. OpsOfHandles' /\ OpsInFile' /\ AppendsFirst' /\ SkipsAppends'
  <2>1. OpsInFile'
    <3>1. \A j \in 1..Base : j \in 1..Len(tx.ops)
      BY MarkShape
    <3>2. pc = "savepoint" => \A k \in job.appends : k.table \in Tables
      BY KeptShape DEF Shape, JobShape
    <3> QED
      BY <1>1, <1>6, <1>8, <3>1, <3>2, MarkShape DEF Rewinds, OpsInFile, InFile
  <2> QED
    BY <1>1, <2>1 DEF Rewinds, OpsOfHandles, AppendsFirst, SkipsAppends
<1>11. MarksGrown'
  <2>1. ASSUME NEW i \in LiveMarks, NEW u \in Tables PROVE Len(marks[i][u]) <= Len(rows'[u])
    BY <1>3, <1>4, <1>9
  <2> QED
    BY <1>1, <1>6, <2>1 DEF Rewinds, MarksGrown
<1>12. ASSUME NEW i \in LiveMarks, NEW u \in Tables, NEW j \in 1..Len(rows[u]), NEW row,
              GoesBack(rows, tx.ops, Last, MarkIdx(i), u, j, row)
       PROVE  GoesBack(rows', tx.ops, Last, MarkIdx(i), u, j, row)
  <2>1. rows'[u][j] = rows[u][j] /\ Last \in Nat
    BY <1>3, MarkShape
  <2> QED
    BY <1>9, <1>12, <2>1, SameBack
<1>13. OldGoBack'
  <2>1. ASSUME NEW i \in LiveMarks, NEW u \in Tables, Usable(u), NEW j \in 1..Len(marks[i][u])
        PROVE  GoesBack(rows', tx.ops, Last, MarkIdx(i), u, j, marks[i][u][j])
    <3>1. j \in 1..Len(rows[u])
      BY <1>3, <1>9
    <3> QED
      BY <1>12, <2>1, <3>1 DEF Rewinds, OldGoBack
  <2> QED
    BY <1>1, <1>6, <1>7, <2>1 DEF OldGoBack
<1>14. NewGo'
  <2>1. ASSUME NEW i \in LiveMarks, NEW u \in Tables, Usable(u),
               NEW j \in (Len(marks[i][u]) + 1)..Len(rows'[u])
        PROVE  (NewAt(i, u, j))'
    <3>1. j \in (Len(marks[i][u]) + 1)..Len(rows[u]) \/ (u = t /\ j = r)
      BY <1>3, <1>4, <1>9 DEF r
    <3>2. CASE u = t /\ j = r
      BY <1>5, <3>2 DEF NewAt
    <3>3. CASE j \in (Len(marks[i][u]) + 1)..Len(rows[u])
      <4>1. NewAt(i, u, j) /\ j \in 1..Len(rows[u])
        BY <1>3, <1>9, <2>1, <3>3 DEF Rewinds, NewGo
      <4>2. /\ foreign[u] \subseteq foreign'[u] /\ rows'[u][j] = rows[u][j]
            /\ (Waiting(u, j))' = Waiting(u, j) /\ (Leaving(u, j))' = Leaving(u, j)
        BY <1>1, <1>3, <1>5, <4>1 DEF Waiting, Leaving
      <4>3. CASE ~Leaving(u, j) /\ \E row \in Row :
                    row.del /\ GoesBack(rows, tx.ops, Last, MarkIdx(i), u, j, row)
        <5>1. PICK row \in Row : row.del /\ GoesBack(rows, tx.ops, Last, MarkIdx(i), u, j, row)
          BY <4>3
        <5>2. GoesBack(rows', tx.ops, Last, MarkIdx(i), u, j, row)
          BY <1>12, <4>1, <5>1
        <5> QED
          BY <1>1, <1>6, <4>2, <4>3, <5>1, <5>2 DEF NewAt
      <4> QED
        BY <1>1, <1>6, <4>1, <4>2, <4>3 DEF NewAt
    <3> QED
      BY <3>1, <3>2, <3>3
  <2> QED
    BY <1>1, <1>6, <1>7, <2>1 DEF NewGo
<1> QED
    BY <1>10, <1>11, <1>13, <1>14 DEF Rewinds

\* A row that this connection appends.
LEMMA AppendRewinds ==
    ASSUME Shape, MaxOpens = 1, Rewinds, tx.active, NEW t \in Tables, AppendRecord(t)
    PROVE  Rewinds'
<1> DEFINE r == Len(rows[t]) + 1
           key == Here(t, r)
           n == Len(tx.ops)
<1>1. /\ pc = "api" /\ pc' = "api" /\ wa[t].open /\ r <= MaxRows
      /\ rows' = [rows EXCEPT ![t] = Append(@, BlankRow)]
      /\ wa' = [wa EXCEPT ![t] = [@ EXCEPT !.cnt = r, !.pos = TRUE, !.recno = r, !.buf = BlankRow]]
      /\ tx' = NoteAppend(tx, key) /\ UNCHANGED <<marks, foreign>>
    BY DEF AppendRecord
<1>2. DataShape /\ tx \in TxRecords /\ rows \in Files /\ n \in Nat /\ BlankRow \in Row
    BY <1>1, MarkShape, TxConnectionAssumption DEF Shape, BlankRow, Row
<1>3. /\ rows' \in Files /\ Len(rows'[t]) = r
      /\ \A u \in Tables : u # t => rows'[u] = rows[u]
      /\ \A u \in Tables : Len(rows[u]) \in Nat /\ Len(rows[u]) <= Len(rows'[u])
      /\ \A u \in Tables : \A j \in 1..Len(rows[u]) : rows'[u][j] = rows[u][j]
    BY <1>1, <1>2, AddRow
<1>4. \A u \in Tables : Len(rows'[u]) \in Nat
    BY <1>3 DEF Files
<1>5. key \in Keys /\ key.table = t /\ key.recno = r
  <2>1. r \in 1..MaxRows
    BY <1>1, <1>3
  <2>2. key \in Keys
    BY <1>1, <1>2, <2>1, HereIsKey
  <2> QED
    BY <2>2 DEF Here, NewKey
<1>6. \A u \in Tables : wa'[u].gen = wa[u].gen /\ wa'[u].open = wa[u].open
    BY <1>1, KeptShape DEF WorkAreas
<1> HIDE DEF key, n
<1>7. /\ tx'.saves = tx.saves /\ Len(tx'.ops) = n + 1
      /\ tx'.ops[n + 1] = [key |-> key, isAppend |-> TRUE, image |-> NoImage]
      /\ \A j \in 1..n : tx'.ops[j] = tx.ops[j]
    BY <1>1, <1>2, <1>5, NotedAppend DEF n
<1>8. tx'.ops[n + 1].key = key /\ tx'.ops[n + 1].isAppend
    BY <1>7
<1>9. /\ \A j \in 1..(n + 1) : j \in 1..n \/ j = n + 1
      /\ \A i \in 1..Len(tx.saves) : /\ MarkIdx(i) \in Nat /\ MarkIdx(i) <= n
                                     /\ \A u \in Tables : Len(marks[i][u]) \in Nat
      /\ Base = n /\ Last = n /\ Base' = n + 1 /\ Last' = n + 1
    BY <1>1, <1>2, <1>7, MarkShape DEF Base, Last, n
<1>10. LiveMarks = 1..Len(tx.saves) /\ LiveMarks' = 1..Len(tx.saves)
      /\ \A i \in 1..Len(tx.saves) : (MarkIdx(i))' = MarkIdx(i)
    BY <1>2, <1>7, <1>9 DEF LiveMarks, MarkIdx
<1>11. \A u \in Tables : (Usable(u))' = Usable(u)
    BY <1>6 DEF Usable
<1>12. \A i \in 1..Len(tx.saves), u \in Tables : Len(marks[i][u]) <= Len(rows[u])
    BY <1>10 DEF Rewinds, MarksGrown
<1>13. r \in Nat /\ \A j \in 1..n : /\ tx.ops[j].key.table \in Tables /\ tx.ops[j].key.recno \in Nat
                                  /\ tx.ops[j].key.recno \in 1..Len(rows[tx.ops[j].key.table])
    BY <1>1, <1>3, <1>9, MarkShape DEF Rewinds, OpsInFile, InFile, n
<1> HIDE DEF r
<1>14. OpsOfHandles'
  <2>1. \A j \in 1..n : tx.ops[j].key.table \in Tables /\ wa[tx.ops[j].key.table].gen # 0
    BY <1>13 DEF Rewinds, OpsOfHandles, n
  <2>2. wa[t].gen # 0
    BY <1>1, <1>2 DEF DataShape
  <2> QED
    BY <1>5, <1>6, <1>7, <1>8, <1>9, <2>1, <2>2 DEF OpsOfHandles
<1>15. OpsInFile'
  <2>1. \A j \in 1..n : tx'.ops[j].key.recno \in 1..Len(rows'[tx'.ops[j].key.table])
    <3>1. \A u \in Tables : \A x \in 1..Len(rows[u]) : x \in 1..Len(rows'[u])
      BY <1>3, <1>4
    <3> QED
      BY <1>7, <1>13, <3>1
  <2>2. tx'.ops[n + 1].key.recno \in 1..Len(rows'[tx'.ops[n + 1].key.table])
    BY <1>3, <1>5, <1>8 DEF r
  <2>3. \A j \in 1..(n + 1) : tx'.ops[j].key.recno \in 1..Len(rows'[tx'.ops[j].key.table])
    BY <1>9, <2>1, <2>2
  <2> QED
    BY <1>1, <1>9, <2>3 DEF OpsInFile, InFile
<1>16. AppendsFirst' /\ SkipsAppends'
  <2>1. ASSUME NEW j \in 1..(n + 1), NEW k \in 1..(n + 1), tx'.ops[j].isAppend,
               tx'.ops[k].key = tx'.ops[j].key
        PROVE  j <= k
    <3>1. CASE k = n + 1
      BY <1>2, <3>1 DEF n
    <3>2. CASE k \in 1..n /\ j \in 1..n
      BY <1>7, <2>1, <3>2 DEF Rewinds, AppendsFirst, n
    <3>3. CASE k \in 1..n /\ j = n + 1
      <4>1. tx.ops[k].key.table = t /\ tx.ops[k].key.recno = r
        BY <1>5, <1>7, <1>8, <2>1, <3>3
      <4>2. r \in 1..Len(rows[t])
        BY <1>13, <3>3, <4>1
      <4> QED
        BY <1>3, <4>2 DEF r
    <3> QED
      BY <1>9, <3>1, <3>2, <3>3
  <2> QED
    BY <1>1, <1>7, <2>1 DEF AppendsFirst, SkipsAppends
<1>17. MarksGrown'
  <2>1. ASSUME NEW i \in 1..Len(tx.saves), NEW u \in Tables PROVE Len(marks[i][u]) <= Len(rows'[u])
    BY <1>3, <1>4, <1>9, <1>12
  <2>2. ASSUME NEW i \in 1..Len(tx.saves), NEW j \in (MarkIdx(i) + 1)..(n + 1), tx'.ops[j].isAppend
        PROVE  tx'.ops[j].key.recno > Len(marks[i][tx'.ops[j].key.table])
    <3>1. CASE j = n + 1
      <4>1. r > Len(marks[i][t])
        BY <1>3, <1>9, <1>12 DEF r
      <4> QED
        BY <1>5, <1>8, <3>1, <4>1
    <3>2. CASE j # n + 1
      <4>1. j \in (MarkIdx(i) + 1)..n /\ j \in 1..n
        BY <1>2, <1>9, <3>2 DEF n
      <4> QED
        BY <1>7, <1>10, <2>2, <4>1 DEF Rewinds, MarksGrown, n
    <3> QED
      BY <3>1, <3>2
  <2> QED
    BY <1>1, <1>7, <1>10, <2>1, <2>2 DEF MarksGrown
<1>18. ASSUME NEW i \in 1..Len(tx.saves), NEW u \in Tables, NEW j \in 1..Len(rows[u]), NEW row,
              GoesBack(rows, tx.ops, n, MarkIdx(i), u, j, row)
       PROVE  GoesBack(rows', tx'.ops, n + 1, MarkIdx(i), u, j, row)
  <2>1. ~On(tx'.ops[n + 1], u, j)
    BY <1>3, <1>5, <1>8 DEF On, r
  <2>2. \A k \in (MarkIdx(i) + 1)..n : tx'.ops[k] = tx.ops[k]
    BY <1>7, <1>9
  <2>3. rows'[u][j] = rows[u][j]
    BY <1>3
  <2> QED
    BY <1>2, <1>9, <1>18, <2>1, <2>2, <2>3, BackWithOneMore DEF n
<1>19. OldGoBack'
  <2>1. ASSUME NEW i \in 1..Len(tx.saves), NEW u \in Tables, Usable(u), NEW j \in 1..Len(marks[i][u])
        PROVE  GoesBack(rows', tx'.ops, n + 1, MarkIdx(i), u, j, marks[i][u][j])
    <3>1. j \in 1..Len(rows[u])
      BY <1>3, <1>9, <1>12
    <3>2. GoesBack(rows, tx.ops, n, MarkIdx(i), u, j, marks[i][u][j])
      BY <1>9, <1>10, <2>1 DEF Rewinds, OldGoBack
    <3> QED
      BY <1>18, <3>1, <3>2
  <2>2. marks' = marks /\ Last' = n + 1
    BY <1>1, <1>9
  <2> QED
    BY <1>10, <1>11, <2>1, <2>2 DEF OldGoBack
<1>20. NewGo'
  <2>1. ASSUME NEW i \in 1..Len(tx.saves), NEW u \in Tables, Usable(u),
               NEW j \in (Len(marks[i][u]) + 1)..Len(rows'[u])
        PROVE  (NewAt(i, u, j))'
    <3>1. j \in (Len(marks[i][u]) + 1)..Len(rows[u]) \/ (u = t /\ j = r)
      BY <1>3, <1>4, <1>9 DEF r
    <3>2. CASE u = t /\ j = r
      <4>1. On(tx'.ops[n + 1], u, j) /\ n + 1 \in (MarkIdx(i) + 1)..(n + 1)
        BY <1>2, <1>5, <1>8, <1>9, <3>2 DEF On, n
      <4> QED
        BY <1>8, <1>9, <1>10, <4>1 DEF NewAt
    <3>3. CASE j \in (Len(marks[i][u]) + 1)..Len(rows[u])
      <4>1. j \in 1..Len(rows[u])
        BY <1>3, <1>9, <3>3
      <4>2. NewAt(i, u, j) /\ ~Waiting(u, j) /\ ~Leaving(u, j) /\ (~Leaving(u, j))'
        BY <1>1, <1>10, <2>1, <3>3 DEF Rewinds, NewGo, Waiting, Leaving
      <4>3. CASE j \in foreign[u]
        BY <1>1, <4>3 DEF NewAt
      <4>4. CASE \E k \in (MarkIdx(i) + 1)..n : tx.ops[k].isAppend /\ On(tx.ops[k], u, j)
        <5>1. PICK k \in (MarkIdx(i) + 1)..n : tx.ops[k].isAppend /\ On(tx.ops[k], u, j)
          BY <4>4
        <5>2. k \in (MarkIdx(i) + 1)..(n + 1) /\ tx'.ops[k] = tx.ops[k]
          BY <1>2, <1>7, <1>9, <5>1 DEF n
        <5> QED
          BY <1>9, <1>10, <5>1, <5>2 DEF NewAt
      <4>5. ASSUME NEW row \in Row, row.del, GoesBack(rows, tx.ops, n, MarkIdx(i), u, j, row)
            PROVE  (NewAt(i, u, j))'
        <5>1. GoesBack(rows', tx'.ops, n + 1, MarkIdx(i), u, j, row)
          BY <1>18, <4>1, <4>5
        <5> QED
          BY <1>9, <1>10, <4>2, <4>5, <5>1 DEF NewAt
      <4> QED
        BY <1>9, <4>2, <4>3, <4>4, <4>5 DEF NewAt
    <3> QED
      BY <3>1, <3>2, <3>3
  <2> QED
    BY <1>1, <1>10, <1>11, <2>1 DEF NewGo
<1> QED
    BY <1>14, <1>15, <1>16, <1>17, <1>19, <1>20 DEF Rewinds

\* A new mark: nothing is undone by it.
LEMMA MarkRewinds ==
    ASSUME Shape, MaxOpens = 1, Rewinds, NEW n \in Names, SavepointTx(n)
    PROVE  Rewinds'
<1> DEFINE m == Len(tx.saves) + 1
<1>1. /\ pc = "api" /\ pc' = pc /\ UNCHANGED <<rows, foreign, wa, job>>
      /\ tx' = CreateSavepoint(tx, n) /\ marks' = Append(marks, rows)
    BY DEF SavepointTx
<1>2. /\ tx \in TxRecords /\ rows \in Files /\ Len(tx.ops) \in Nat /\ Len(tx.saves) \in Nat
      /\ marks \in Seq(Files) /\ Len(marks) = Len(tx.saves)
    BY <1>1, MarkShape DEF Shape, HistoryShape
<1>3. /\ tx'.ops = tx.ops /\ Len(tx'.saves) = m /\ tx'.saves[m].idx = Len(tx.ops)
      /\ \A i \in 1..Len(tx.saves) : tx'.saves[i] = tx.saves[i]
    BY <1>1, <1>2, Marked
<1>4. marks'[m] = rows /\ \A i \in 1..Len(tx.saves) : marks'[i] = marks[i]
    BY <1>1, <1>2, AppendProperties
<1>5. /\ \A i \in 1..m : i \in 1..Len(tx.saves) \/ i = m
      /\ Base = Len(tx.ops) /\ Last = Len(tx.ops) /\ Base' = Base /\ Last' = Last
    BY <1>1, <1>2, <1>3, MarkShape DEF Base, Last
<1>6. LiveMarks = 1..Len(tx.saves) /\ LiveMarks' \subseteq 1..m
    BY <1>1, <1>3, <1>5, MarkShape DEF LiveMarks
<1>7. /\ \A i \in 1..Len(tx.saves) : (MarkIdx(i))' = MarkIdx(i)
      /\ \A i \in 1..m : i = m => (MarkIdx(i))' = Len(tx.ops)
    BY <1>3 DEF MarkIdx
<1>8. \A u \in Tables : (Usable(u))' = Usable(u)
    BY <1>1 DEF Usable
<1> HIDE DEF m
<1>9. OpsOfHandles' /\ OpsInFile' /\ AppendsFirst' /\ SkipsAppends'
  <2>1. tx'.ops = tx.ops /\ Base' = Base /\ pc' # "savepoint" /\ UNCHANGED <<rows, wa>>
    BY <1>1, <1>3, <1>5
  <2>2. OpsInFile'
    BY <2>1 DEF Rewinds, OpsInFile, InFile
  <2> QED
    BY <2>1, <2>2 DEF Rewinds, OpsOfHandles, AppendsFirst, SkipsAppends
<1>10. ASSUME NEW i \in 1..m
       PROVE  /\ \A t \in Tables : Len(marks'[i][t]) <= Len(rows[t])
              /\ \A j \in ((MarkIdx(i))' + 1)..Len(tx.ops) :
                    tx.ops[j].isAppend => tx.ops[j].key.recno > Len(marks'[i][tx.ops[j].key.table])
              /\ \A t \in Tables : Usable(t) =>
                    /\ \A r \in 1..Len(marks'[i][t]) :
                          GoesBack(rows, tx.ops, Len(tx.ops), (MarkIdx(i))', t, r, marks'[i][t][r])
                    /\ \A r \in (Len(marks'[i][t]) + 1)..Len(rows[t]) : (NewAt(i, t, r))'
  <2>1. CASE i \in 1..Len(tx.saves)
    <3>1. marks'[i] = marks[i] /\ (MarkIdx(i))' = MarkIdx(i)
      BY <1>4, <1>7, <2>1
    <3>2. \A t \in Tables, r \in Nat : NewAt(i, t, r) => (NewAt(i, t, r))'
      BY <1>1, <1>3, <1>5, <3>1 DEF NewAt, Waiting, Leaving
    <3>3. \A t \in Tables : \A r \in (Len(marks[i][t]) + 1)..Len(rows[t]) : r \in Nat
      BY <1>1, <2>1, MarkShape
    <3> QED
      BY <1>5, <1>6, <2>1, <3>1, <3>2, <3>3 DEF Rewinds, MarksGrown, OldGoBack, NewGo
  <2>2. CASE i = m
    <3>1. marks'[i] = rows /\ (MarkIdx(i))' = Len(tx.ops)
      BY <1>4, <1>7, <2>2
    <3>2. \A j \in (Len(tx.ops) + 1)..Len(tx.ops) : FALSE
      BY <1>2
    <3>3. \A t \in Tables : Len(rows[t]) \in Nat
      BY <1>1, MarkShape
    <3>4. \A t \in Tables : \A r \in (Len(rows[t]) + 1)..Len(rows[t]) : FALSE
      BY <3>3
    <3>5. \A t \in Tables : \A r \in 1..Len(rows[t]) :
             GoesBack(rows, tx.ops, Len(tx.ops), Len(tx.ops), t, r, rows[t][r])
      BY <3>2 DEF GoesBack
    <3> QED
      BY <3>1, <3>2, <3>3, <3>4, <3>5
  <2> QED
    BY <1>5, <2>1, <2>2
<1>11. MarksGrown'
    BY <1>1, <1>3, <1>6, <1>10 DEF MarksGrown
<1>12. OldGoBack'
    BY <1>1, <1>3, <1>5, <1>6, <1>8, <1>10 DEF OldGoBack
<1>13. NewGo'
    BY <1>1, <1>6, <1>8, <1>10 DEF NewGo
<1> QED
    BY <1>9, <1>11, <1>12, <1>13 DEF Rewinds

\* What a mark promises does not depend on its place in the list.
LEMMA MarksMoved ==
    ASSUME Shape, MaxOpens = 1, Rewinds, pc' # "rollback", UNCHANGED <<rows, foreign>>,
           OpsOfHandles' /\ OpsInFile' /\ AppendsFirst' /\ SkipsAppends',
           \A u \in Tables : (Usable(u))' => Usable(u),
           \A i \in LiveMarks' :
              \E k \in LiveMarks :
                 /\ (MarkIdx(i))' = MarkIdx(k) /\ marks'[i] = marks[k]
                 /\ \A j \in (MarkIdx(k) + 1)..Len(tx'.ops) :
                       j \in (MarkIdx(k) + 1)..Len(tx.ops) /\ tx'.ops[j] = tx.ops[j]
                 /\ \A t \in Tables, r \in Nat, row \in Row :
                       Usable(t) /\ GoesBack(rows, tx.ops, Last, MarkIdx(k), t, r, row)
                          => GoesBack(rows, tx'.ops, Last', MarkIdx(k), t, r, row)
                 /\ \A t \in Tables, r \in Nat :
                       Usable(t) /\ NewAt(k, t, r) /\ InFile(t, r) => (NewAt(i, t, r))',
           pc # "rollback"
    PROVE  Rewinds'
<1>1. ASSUME NEW i \in LiveMarks'
      PROVE  /\ \A t \in Tables : Len(marks'[i][t]) <= Len(rows[t])
             /\ \A j \in ((MarkIdx(i))' + 1)..Len(tx'.ops) :
                   tx'.ops[j].isAppend => tx'.ops[j].key.recno > Len(marks'[i][tx'.ops[j].key.table])
             /\ \A t \in Tables : Usable(t) =>
                   /\ \A r \in 1..Len(marks'[i][t]) :
                         GoesBack(rows, tx'.ops, Last', (MarkIdx(i))', t, r, marks'[i][t][r])
                   /\ \A r \in (Len(marks'[i][t]) + 1)..Len(rows[t]) : (NewAt(i, t, r))'
  <2>1. PICK k \in LiveMarks :
                 /\ (MarkIdx(i))' = MarkIdx(k) /\ marks'[i] = marks[k]
                 /\ \A j \in (MarkIdx(k) + 1)..Len(tx'.ops) :
                       j \in (MarkIdx(k) + 1)..Len(tx.ops) /\ tx'.ops[j] = tx.ops[j]
                 /\ \A t \in Tables, r \in Nat, row \in Row :
                       Usable(t) /\ GoesBack(rows, tx.ops, Last, MarkIdx(k), t, r, row)
                          => GoesBack(rows, tx'.ops, Last', MarkIdx(k), t, r, row)
                 /\ \A t \in Tables, r \in Nat :
                       Usable(t) /\ NewAt(k, t, r) /\ InFile(t, r) => (NewAt(i, t, r))'
    BY <1>1
  <2>2. /\ k \in 1..Len(tx.saves)
        /\ \A t \in Tables : /\ marks[k][t] \in Seq(Row) /\ Len(marks[k][t]) \in Nat
                             /\ Len(marks[k][t]) <= Len(rows[t]) /\ Len(rows[t]) \in Nat
    BY MarkShape DEF LiveMarks, Rewinds, MarksGrown
  <2>3. \A j \in (MarkIdx(k) + 1)..Len(tx'.ops) :
           tx'.ops[j].isAppend => tx'.ops[j].key.recno > Len(marks[k][tx'.ops[j].key.table])
    BY <2>1 DEF Rewinds, MarksGrown
  <2>4. ASSUME NEW t \in Tables, Usable(t), NEW r \in 1..Len(marks[k][t])
        PROVE  GoesBack(rows, tx'.ops, Last', MarkIdx(k), t, r, marks[k][t][r])
    <3>1. GoesBack(rows, tx.ops, Last, MarkIdx(k), t, r, marks[k][t][r])
      BY <2>4 DEF Rewinds, OldGoBack
    <3>2. marks[k][t][r] \in Row /\ r \in Nat
      BY <2>2, Elements
    <3> QED
      BY <2>1, <2>4, <3>1, <3>2
  <2>5. ASSUME NEW t \in Tables, Usable(t), NEW r \in (Len(marks[k][t]) + 1)..Len(rows[t])
        PROVE  (NewAt(i, t, r))'
    <3>1. NewAt(k, t, r)
      BY <2>5 DEF Rewinds, NewGo
    <3>2. r \in Nat /\ InFile(t, r)
      BY <2>2 DEF InFile
    <3> QED
      BY <2>1, <2>5, <3>1, <3>2
  <2> QED
    BY <2>1, <2>2, <2>3, <2>4, <2>5
<1>2. MarksGrown'
    BY <1>1 DEF MarksGrown
<1>3. OldGoBack'
    BY <1>1 DEF OldGoBack
<1>4. NewGo'
    BY <1>1 DEF NewGo
<1> QED
    BY <1>2, <1>3, <1>4 DEF Rewinds

\* A mark is dropped.
LEMMA DropRewinds ==
    ASSUME Shape, MaxOpens = 1, Rewinds, NEW n \in Names, ReleaseTx(n)
    PROVE  Rewinds'
<1> DEFINE at == LatestMark(tx, n)
<1>1. /\ pc = "api" /\ pc' = pc /\ UNCHANGED <<rows, foreign, wa, job>>
      /\ tx' = ReleaseSavepoint(tx, n) /\ MarksNamed(tx, n) # {}
      /\ marks' = SubSeq(marks, 1, at - 1) \o SubSeq(marks, at + 1, Len(marks))
    BY DEF ReleaseTx
<1>2. /\ tx \in TxRecords /\ Len(tx.saves) \in Nat
      /\ marks \in Seq(Files) /\ Len(marks) = Len(tx.saves)
    BY <1>1, MarkShape DEF Shape, HistoryShape
<1>3. /\ tx'.ops = tx.ops /\ at \in 1..Len(tx.saves) /\ Len(tx'.saves) = Len(tx.saves) - 1
      /\ \A i \in 1..(Len(tx.saves) - 1) :
            tx'.saves[i] = IF i < at THEN tx.saves[i] ELSE tx.saves[i + 1]
    BY <1>1, <1>2, Dropped
<1> HIDE DEF at
<1>4. \A i \in 1..(Len(tx.saves) - 1) : marks'[i] = IF i < at THEN marks[i] ELSE marks[i + 1]
  <2>1. at \in 1..Len(marks)
    BY <1>2, <1>3
  <2>2. \A i \in 1..(Len(marks) - 1) : marks'[i] = IF i < at THEN marks[i] ELSE marks[i + 1]
    BY <1>1, <1>2, <2>1, Without
  <2> QED
    BY <1>2, <2>2
<1>5. Base' = Base /\ Last' = Last /\ LiveMarks = 1..Len(tx.saves)
      /\ LiveMarks' \subseteq 1..(Len(tx.saves) - 1)
    BY <1>1, <1>3, MarkShape DEF Base, Last, LiveMarks
<1>6. OpsOfHandles' /\ OpsInFile' /\ AppendsFirst' /\ SkipsAppends'
    BY <1>1, <1>3, <1>5 DEF Rewinds, OpsOfHandles, OpsInFile, AppendsFirst, SkipsAppends, InFile
<1>7. \A u \in Tables : (Usable(u))' = Usable(u)
    BY <1>1 DEF Usable
<1>8. ASSUME NEW i \in LiveMarks'
      PROVE  \E k \in LiveMarks :
                 /\ (MarkIdx(i))' = MarkIdx(k) /\ marks'[i] = marks[k]
                 /\ \A t \in Tables, r \in Nat : NewAt(k, t, r) => (NewAt(i, t, r))'
  <2>1. i \in 1..(Len(tx.saves) - 1)
    BY <1>5
  <2>2. PICK k \in 1..Len(tx.saves) : k = IF i < at THEN i ELSE i + 1
    BY <1>2, <2>1
  <2>3. (MarkIdx(i))' = MarkIdx(k) /\ marks'[i] = marks[k]
    BY <1>3, <1>4, <2>1, <2>2 DEF MarkIdx
  <2>4. \A t \in Tables, r \in Nat : NewAt(k, t, r) => (NewAt(i, t, r))'
    BY <1>1, <1>3, <1>5, <2>3 DEF NewAt, Waiting, Leaving
  <2> QED
    BY <1>5, <2>3, <2>4
<1> QED
    BY <1>1, <1>3, <1>5, <1>6, <1>7, <1>8, MarksMoved

\* A rollback to a mark starts: what was appended since will be taken away.
LEMMA StartRewinds ==
    ASSUME Shape, MaxOpens = 1, Rewinds, NEW n \in Names, RollbackToSavepoint(n)
    PROVE  Rewinds'
<1> DEFINE to == tx.saves[LatestMark(tx, n)].idx
           gone == {tx.ops[j].key : j \in {k \in (to + 1)..Len(tx.ops) : tx.ops[k].isAppend}}
<1>1. /\ pc = "api" /\ pc' = "savepoint" /\ UNCHANGED <<rows, foreign, wa, tx, marks>>
      /\ job' = [images |-> {}, appends |-> gone, skip |-> gone,
                 next |-> Len(tx.ops), idx |-> to, mark |-> LatestMark(tx, n)]
    BY DEF RollbackToSavepoint
<1>2. job'.appends = gone /\ job'.skip = gone /\ job'.next = Len(tx.ops) /\ job'.idx = to
    BY <1>1
<1>3. /\ Len(tx.ops) \in Nat /\ Base = Len(tx.ops) /\ Last = Len(tx.ops)
      /\ Base' = to /\ Last' = Len(tx.ops)
    BY <1>1, <1>2, MarkShape DEF Base, Last
<1>4. to \in Nat /\ to <= Len(tx.ops)
  <2>1. LatestMark(tx, n) \in 1..Len(tx.saves)
    BY <1>1, MarkShape, LatestIsMark, TxElements DEF RollbackToSavepoint
  <2> QED
    BY <1>1, <2>1, MarkShape DEF MarkIdx
<1>5. /\ \A k \in gone : \E j \in (to + 1)..Len(tx.ops) : tx.ops[j].isAppend /\ tx.ops[j].key = k
      /\ \A j \in (to + 1)..Len(tx.ops) : tx.ops[j].isAppend => tx.ops[j].key \in gone
    OBVIOUS
<1> HIDE DEF to, gone
<1>6. LiveMarks' \subseteq LiveMarks /\ \A i \in LiveMarks : (MarkIdx(i))' = MarkIdx(i)
    BY <1>1, <1>3, MarkShape DEF LiveMarks, MarkIdx
<1>7. \A j \in (to + 1)..Len(tx.ops) : j \in 1..Len(tx.ops)
    BY <1>3, <1>4
<1>8. OpsOfHandles' /\ AppendsFirst'
    BY <1>1 DEF Rewinds, OpsOfHandles, AppendsFirst
<1>9. OpsInFile' /\ SkipsAppends'
  <2>1. \A j \in 1..Len(tx.ops) : tx.ops[j].key.recno \in 1..Len(rows[tx.ops[j].key.table])
    BY <1>3 DEF Rewinds, OpsInFile, InFile
  <2>2. \A j \in 1..to : j \in 1..Len(tx.ops)
    BY <1>3, <1>4
  <2>3. \A k \in gone : k.recno \in 1..Len(rows[k.table])
    BY <1>5, <1>7, <2>1
  <2>4. OpsInFile'
    BY <1>1, <1>2, <1>3, <2>1, <2>2, <2>3 DEF OpsInFile, InFile
  <2> QED
    BY <1>1, <1>2, <1>5, <2>4 DEF SkipsAppends
<1>10. \A u \in Tables : (Usable(u))' = Usable(u)
    BY <1>1 DEF Usable
<1>11. ASSUME NEW i \in LiveMarks', NEW t \in Tables, NEW r \in Nat, NewAt(i, t, r)
       PROVE  (NewAt(i, t, r))'
  <2>1. ~Waiting(t, r) /\ ~Leaving(t, r)
    BY <1>1 DEF Waiting, Leaving
  <2>2. /\ i \in 1..Len(tx.saves) /\ MarkIdx(i) \in Nat
        /\ MarkIdx(i) <= to /\ (MarkIdx(i))' = MarkIdx(i)
    BY <1>1, <1>3, <1>6, MarkShape DEF LiveMarks, MarkIdx
  <2>3. (Leaving(t, r))' => (Waiting(t, r))'
    BY <1>1, <1>2 DEF Leaving, Waiting
  <2>4. CASE \E j \in (MarkIdx(i) + 1)..Len(tx.ops) : tx.ops[j].isAppend /\ On(tx.ops[j], t, r)
    <3>1. PICK j \in (MarkIdx(i) + 1)..Len(tx.ops) : tx.ops[j].isAppend /\ On(tx.ops[j], t, r)
      BY <2>4
    <3>2. CASE j <= to
      <4>1. j \in (MarkIdx(i) + 1)..to
        BY <1>3, <1>4, <2>2, <3>2
      <4> QED
        BY <1>1, <1>3, <2>2, <3>1, <4>1 DEF NewAt
    <3>3. CASE ~(j <= to)
      <4>1. j \in (to + 1)..Len(tx.ops)
        BY <1>3, <1>4, <2>2, <3>3
      <4>2. (Waiting(t, r))'
        BY <1>1, <1>2, <1>5, <3>1, <4>1 DEF Waiting, On
      <4> QED
        BY <4>2 DEF NewAt
    <3> QED
      BY <3>2, <3>3
  <2>5. CASE r \in foreign[t]
    BY <1>1, <2>5 DEF NewAt
  <2>6. ASSUME NEW row \in Row, row.del, GoesBack(rows, tx.ops, Last, MarkIdx(i), t, r, row)
        PROVE  (NewAt(i, t, r))'
    <3>1. GoesBack(rows', tx'.ops, Last', (MarkIdx(i))', t, r, row)
      BY <1>1, <1>3, <2>2, <2>6
    <3> QED
      BY <2>3, <2>6, <3>1 DEF NewAt
  <2> QED
    BY <1>3, <1>11, <2>1, <2>4, <2>5, <2>6 DEF NewAt
<1>12. ASSUME NEW i \in LiveMarks'
       PROVE  \E k \in LiveMarks :
                 /\ (MarkIdx(i))' = MarkIdx(k) /\ marks'[i] = marks[k]
                 /\ \A t \in Tables, r \in Nat : NewAt(k, t, r) => (NewAt(i, t, r))'
    BY <1>1, <1>6, <1>11
<1> QED
    BY <1>1, <1>3, <1>8, <1>9, <1>10, <1>12, MarksMoved

\* An append made after the mark is removed.
LEMMA RemoveRewinds ==
    ASSUME Shape, MaxOpens = 1, Rewinds, NEW key \in job.appends, SavepointAppend(key)
    PROVE  Rewinds'
<1> DEFINE t == key.table
           r == key.recno
<1>1. /\ pc = "savepoint" /\ pc' = pc /\ UNCHANGED <<foreign, tx, marks>>
      /\ RemoveAppended(key)
      /\ \A k \in job.appends : k.table = t /\ k.gen = key.gen => k.recno <= r
    BY DEF SavepointAppend, RemoveAppended
<1>2. job'.appends = job.appends \ {key} /\ job'.skip = job.skip
      /\ job'.next = job.next /\ job'.idx = job.idx
    BY <1>1 DEF RemoveAppended, Shape, JobShape
<1>3. /\ key \in Keys /\ key \in job.skip /\ job.appends \subseteq Keys /\ job.skip \subseteq Keys
      /\ \A k \in Keys : k.table \in Tables /\ k.recno \in Nat \ {0} /\ k.gen = 1
    BY <1>1, TxConnectionAssumption DEF Shape, JobShape, Keys
<1>4. DataShape /\ \A u \in Tables : wa[u].gen \in Nat /\ Len(rows[u]) \in Nat
    BY <1>1, KeptShape DEF Shape
<1>5. PICK a \in (job.idx + 1)..Len(tx.ops) : tx.ops[a].isAppend /\ tx.ops[a].key = key
    BY <1>1, <1>3 DEF Rewinds, SkipsAppends
<1>6. /\ Base' = Base /\ Last' = Last /\ LiveMarks' = LiveMarks /\ Base = job.idx
      /\ \A i \in LiveMarks : (MarkIdx(i))' = MarkIdx(i)
    BY <1>1, <1>2 DEF Base, Last, LiveMarks, MarkIdx
<1>7. /\ a \in 1..Len(tx.ops) /\ a > Base /\ Base \in Nat /\ Len(tx.ops) \in Nat
      /\ \A i \in LiveMarks : /\ MarkIdx(i) \in Nat /\ a \in (MarkIdx(i) + 1)..Len(tx.ops)
                              /\ \A u \in Tables : Len(marks[i][u]) \in Nat
  <2>1. Base \in Nat /\ Base <= Len(tx.ops) /\ Len(tx.ops) \in Nat
    BY <1>1, MarkShape
  <2>2. \A i \in LiveMarks : MarkIdx(i) \in Nat /\ MarkIdx(i) <= Base
                             /\ \A u \in Tables : Len(marks[i][u]) \in Nat
    BY <1>1, MarkShape DEF LiveMarks
  <2> QED
    BY <1>5, <1>6, <2>1, <2>2
<1>8. \A i \in LiveMarks : r > Len(marks[i][t])
    BY <1>5, <1>7 DEF Rewinds, MarksGrown
<1>9. \A j \in 1..Base : j \in 1..Len(tx.ops) /\ tx.ops[j].key # key
    BY <1>5, <1>7 DEF Rewinds, AppendsFirst
<1>10. \A j \in 1..Base : /\ tx.ops[j].key.table \in Tables
                          /\ ~(tx.ops[j].key.table = t /\ tx.ops[j].key.recno = r)
    BY <1>1, <1>3, <1>9, MarkShape, SameRow
<1> HIDE DEF t, r
<1>11. IsOpen(key) \/ ~Usable(t)
  <2>1. wa[t].gen # 0
    BY <1>5, <1>7 DEF Rewinds, OpsOfHandles, t
  <2>2. wa[t].gen \in 0..1
    BY <1>3, <1>4, TableShape DEF t
  <2> QED
    BY <1>3, <2>1, <2>2 DEF IsOpen, Usable, t
<1>12. /\ \A u \in Tables : wa'[u].gen = wa[u].gen /\ wa'[u].open = wa[u].open
       /\ \A u \in Tables : /\ Len(rows'[u]) \in Nat
                            /\ IF u = t /\ IsOpen(key) THEN Len(rows'[u]) \in {Len(rows[u]), Len(rows[u]) - 1}
                               ELSE rows'[u] = rows[u]
                            /\ u = t /\ Len(rows'[u]) = Len(rows[u]) - 1 => r = Len(rows[u])
                            /\ \A j \in 1..Len(rows'[u]) : ~(u = t /\ j = r) => rows'[u][j] = rows[u][j]
       /\ IsOpen(key) /\ r \in 1..Len(rows'[t]) => rows'[t][r].del
  <2>1. CASE ~IsOpen(key)
    <3>1. UNCHANGED <<rows, wa>>
      BY <1>1, <2>1 DEF RemoveAppended
    <3> QED
      BY <1>4, <2>1, <3>1
  <2>2. CASE IsOpen(key)
    <3>1. /\ t \in Tables
          /\ Len(rows'[t]) \in {Len(rows[t]), Len(rows[t]) - 1}
          /\ Len(rows'[t]) = Len(rows[t]) - 1 <=> r = Len(rows[t])
          /\ \A j \in 1..Len(rows'[t]) : j # r => rows'[t][j] = rows[t][j]
          /\ r \in 1..Len(rows'[t]) => rows'[t][r] = [rows[t][r] EXCEPT !.del = TRUE]
          /\ wa'[t].open = wa[t].open /\ wa'[t].gen = wa[t].gen
          /\ \A u \in Tables : u # t => rows'[u] = rows[u] /\ wa'[u] = wa[u]
      BY <1>1, <1>3, <1>4, <2>2, RemovedRow DEF t, r
    <3>2. Len(rows[t]) \in Nat /\ r \in Nat \ {0} /\ \A j \in 1..Len(rows[t]) : rows[t][j] \in Row
      BY <1>3, <1>4, <3>1, TableShape DEF r
    <3>3. Len(rows'[t]) \in Nat
      <4>1. Len(rows'[t]) = Len(rows[t]) - 1 => Len(rows[t]) # 0
        BY <3>1, <3>2
      <4> QED
        BY <3>1, <3>2, <4>1
    <3>4. r \in 1..Len(rows'[t]) => rows'[t][r].del
      <4>1. r \in 1..Len(rows'[t]) => r \in 1..Len(rows[t])
        BY <3>1, <3>2
      <4> QED
        BY <3>1, <3>2, <4>1 DEF Row
    <3>5. ASSUME NEW u \in Tables
          PROVE  /\ wa'[u].gen = wa[u].gen /\ wa'[u].open = wa[u].open
                 /\ Len(rows'[u]) \in Nat
                 /\ IF u = t /\ IsOpen(key) THEN Len(rows'[u]) \in {Len(rows[u]), Len(rows[u]) - 1}
                    ELSE rows'[u] = rows[u]
                 /\ u = t /\ Len(rows'[u]) = Len(rows[u]) - 1 => r = Len(rows[u])
                 /\ \A j \in 1..Len(rows'[u]) : ~(u = t /\ j = r) => rows'[u][j] = rows[u][j]
      BY <1>4, <2>2, <3>1, <3>3
    <3> QED
      BY <3>4, <3>5
  <2> QED
    BY <2>1, <2>2
<1>13. \A u \in Tables, x \in Nat :
          x \in 1..Len(rows[u]) /\ ~(u = t /\ x = r) => x \in 1..Len(rows'[u])
    BY <1>4, <1>12
<1>14. \A u \in Tables : (Usable(u))' = Usable(u)
    BY <1>12 DEF Usable
<1>15. OpsOfHandles' /\ AppendsFirst' /\ SkipsAppends'
  <2>1. \A j \in 1..Len(tx.ops) : tx.ops[j].key.table \in Tables
    BY <1>1, MarkShape
  <2> QED
    BY <1>1, <1>2, <1>12, <2>1 DEF Rewinds, OpsOfHandles, AppendsFirst, SkipsAppends
<1>16. OpsInFile'
  <2>1. ASSUME NEW j \in 1..Base
        PROVE  tx.ops[j].key.recno \in 1..Len(rows'[tx.ops[j].key.table])
    <3>1. tx.ops[j].key.recno \in 1..Len(rows[tx.ops[j].key.table])
      BY DEF Rewinds, OpsInFile, InFile
    <3> QED
      BY <1>10, <1>13, <3>1
  <2>2. ASSUME NEW k \in job.appends, k # key
        PROVE  k.recno \in 1..Len(rows'[k.table])
    <3>1. k.recno \in 1..Len(rows[k.table]) /\ k.table \in Tables
      BY <1>1, <1>3 DEF Rewinds, OpsInFile, InFile
    <3>2. ~(k.table = t /\ k.recno = r)
      BY <1>3, <2>2, SameRow DEF t, r
    <3> QED
      BY <1>13, <3>1, <3>2
  <2> QED
    BY <1>1, <1>2, <1>6, <2>1, <2>2 DEF OpsInFile, InFile
<1>17. MarksGrown'
  <2>1. ASSUME NEW i \in LiveMarks, NEW u \in Tables
        PROVE  Len(marks[i][u]) <= Len(rows'[u])
    <3>1. Len(marks[i][u]) <= Len(rows[u]) /\ Len(marks[i][u]) \in Nat
      BY <1>7 DEF Rewinds, MarksGrown
    <3>2. CASE u = t
      <4>1. /\ Len(rows'[u]) \in {Len(rows[u]), Len(rows[u]) - 1}
            /\ Len(rows'[u]) = Len(rows[u]) - 1 => r = Len(rows[u])
        BY <1>12, <3>2
      <4>2. r > Len(marks[i][u]) /\ Len(rows[u]) \in Nat
        BY <1>4, <1>8, <3>2
      <4> QED
        BY <3>1, <4>1, <4>2
    <3>3. CASE u # t
      <4>1. rows'[u] = rows[u]
        BY <1>12, <3>3
      <4> QED
        BY <3>1, <4>1
    <3> QED
      BY <3>2, <3>3
  <2> QED
    BY <1>1, <1>6, <2>1 DEF Rewinds, MarksGrown
<1>18. ASSUME NEW i \in LiveMarks, NEW u \in Tables, NEW j \in 1..Len(rows'[u]), ~(u = t /\ j = r),
              NEW row, GoesBack(rows, tx.ops, Last, MarkIdx(i), u, j, row)
       PROVE  GoesBack(rows', tx.ops, Last, MarkIdx(i), u, j, row)
  <2>1. rows'[u][j] = rows[u][j] /\ Last \in Nat /\ MarkIdx(i) \in Nat
    BY <1>1, <1>7, <1>12, <1>18, MarkShape
  <2> QED
    BY <1>18, <2>1, SameBack
<1>19. OldGoBack'
  <2>1. ASSUME NEW i \in LiveMarks, NEW u \in Tables, Usable(u), NEW j \in 1..Len(marks[i][u])
        PROVE  GoesBack(rows', tx.ops, Last, MarkIdx(i), u, j, marks[i][u][j])
    <3>1. j \in 1..Len(rows'[u]) /\ ~(u = t /\ j = r)
      BY <1>6, <1>7, <1>8, <1>12, <1>17, <1>1 DEF MarksGrown
    <3> QED
      BY <1>18, <2>1, <3>1 DEF Rewinds, OldGoBack
  <2> QED
    BY <1>1, <1>6, <1>14, <2>1 DEF OldGoBack
<1>20. NewGo'
  <2>1. ASSUME NEW i \in LiveMarks, NEW u \in Tables, Usable(u),
               NEW j \in (Len(marks[i][u]) + 1)..Len(rows'[u])
        PROVE  (NewAt(i, u, j))'
    <3>1. j \in 1..Len(rows'[u])
      BY <1>7, <1>12
    <3>2. CASE u = t /\ j = r
      <4>1. rows'[t][r].del
        BY <1>11, <1>12, <2>1, <3>1, <3>2
      <4>2. (Leaving(u, j))'
        BY <1>1, <1>2, <1>3, <3>2 DEF Leaving, t, r
      <4> QED
        BY <3>2, <4>1, <4>2 DEF NewAt
    <3>3. CASE ~(u = t /\ j = r)
      <4>1. j \in (Len(marks[i][u]) + 1)..Len(rows[u]) /\ rows'[u][j] = rows[u][j]
        BY <1>4, <1>7, <1>12, <3>1, <3>3
      <4>2. NewAt(i, u, j)
        BY <2>1, <4>1 DEF Rewinds, NewGo
      <4>3. (Leaving(u, j))' = Leaving(u, j) /\ (Waiting(u, j) => (Waiting(u, j))')
        BY <1>1, <1>2, <3>3 DEF Leaving, Waiting, t, r
      <4>4. ASSUME ~Leaving(u, j), NEW row \in Row, row.del,
                   GoesBack(rows, tx.ops, Last, MarkIdx(i), u, j, row)
            PROVE  (NewAt(i, u, j))'
        <5>1. GoesBack(rows', tx.ops, Last, MarkIdx(i), u, j, row)
          BY <1>18, <3>1, <3>3, <4>4
        <5> QED
          BY <1>1, <1>6, <4>3, <4>4, <5>1 DEF NewAt
      <4> QED
        BY <1>1, <1>6, <4>1, <4>2, <4>3, <4>4 DEF NewAt
    <3> QED
      BY <3>2, <3>3
  <2> QED
    BY <1>1, <1>6, <1>14, <2>1 DEF NewGo
<1> QED
    BY <1>15, <1>16, <1>17, <1>19, <1>20 DEF Rewinds

\* An operation is undone.
LEMMA UndoRewinds ==
    ASSUME Shape, MaxOpens = 1, Rewinds, UndoOp
    PROVE  Rewinds'
<1> DEFINE n == job.next
           op == tx.ops[n]
           written == ~op.isAppend /\ op.key \notin job.skip /\ IsOpen(op.key)
                      /\ InFile(op.key.table, op.key.recno)
<1>1. /\ pc = "savepoint" /\ pc' = pc /\ UNCHANGED <<foreign, tx, marks, wa>>
      /\ job.appends = {} /\ n > job.idx /\ job' = [job EXCEPT !.next = @ - 1]
      /\ rows' = IF written THEN [rows EXCEPT ![op.key.table][op.key.recno] = op.image] ELSE rows
    BY DEF UndoOp
<1>2. /\ job'.appends = {} /\ job'.skip = job.skip /\ job'.next = n - 1 /\ job'.idx = job.idx
      /\ job.skip \subseteq Keys
    BY <1>1 DEF Shape, JobShape
<1>3. /\ Base' = Base /\ Last = n /\ Last' = n - 1 /\ LiveMarks' = LiveMarks /\ Base = job.idx
      /\ \A i \in LiveMarks : (MarkIdx(i))' = MarkIdx(i)
    BY <1>1, <1>2 DEF Base, Last, LiveMarks, MarkIdx
<1>4. /\ n \in 1..Len(tx.ops) /\ n \in (job.idx + 1)..Len(tx.ops) /\ n \in Nat
      /\ job.idx \in Nat /\ Len(tx.ops) \in Nat
    BY <1>1, <1>3, MarkShape
<1>5. /\ op.key \in Keys /\ op.key.table \in Tables /\ op.key.gen = 1
      /\ ~op.isAppend => op.image \in Row
    BY <1>1, <1>4, MarkShape DEF Shape, TxShape
<1>6. \A i \in LiveMarks : /\ MarkIdx(i) \in Nat /\ MarkIdx(i) < n /\ MarkIdx(i) <= job.idx
                           /\ \A u \in Tables : /\ Len(marks[i][u]) \in Nat
                                                /\ Len(marks[i][u]) <= Len(rows[u])
  <2>1. \A i \in LiveMarks : MarkIdx(i) \in Nat /\ MarkIdx(i) <= job.idx
                             /\ \A u \in Tables : Len(marks[i][u]) \in Nat
    BY <1>1, <1>3, MarkShape DEF LiveMarks
  <2> QED
    BY <1>1, <1>4, <2>1 DEF Rewinds, MarksGrown
<1>7. op.isAppend => op.key \in job.skip
    BY <1>1, <1>4 DEF Rewinds, SkipsAppends
<1>8. \A u \in Tables, j \in Nat :
         On(op, u, j) => (op.key \in job.skip <=> \E k \in job.skip : k.table = u /\ k.recno = j)
    BY <1>2, <1>5, SameRow DEF On
<1>9. \A u \in Tables, j \in Nat : On(op, u, j) /\ Usable(u) => IsOpen(op.key)
  <2>1. wa[op.key.table].gen # 0
    BY <1>4 DEF Rewinds, OpsOfHandles
  <2>2. wa[op.key.table].gen \in 0..1
    BY <1>5, TableShape DEF Shape
  <2> QED
    BY <1>5, <2>1, <2>2 DEF On, Usable, IsOpen
<1>10. (rows' = rows /\ ~written) \/ (written /\ Stores(op.key.table, op.key.recno, op.image))
    BY <1>1 DEF Stores
<1>11. rows \in Files /\ \A u \in Tables : Len(rows[u]) \in Nat
    BY <1>1, MarkShape
<1> HIDE DEF op, n
<1>12. /\ \A u \in Tables : Len(rows'[u]) = Len(rows[u])
       /\ \A u \in Tables : \A j \in 1..Len(rows[u]) :
             rows'[u][j] = IF On(op, u, j) /\ written THEN op.image ELSE rows[u][j]
  <2>1. CASE rows' = rows /\ ~written
    BY <2>1
  <2>2. CASE written /\ Stores(op.key.table, op.key.recno, op.image)
    <3>1. op.image \in Row
      BY <1>5, <2>2
    <3>2. written
      BY <2>2
    <3> HIDE DEF written
    <3>3. /\ \A u \in Tables : Len(rows'[u]) = Len(rows[u])
          /\ \A u \in Tables : u # op.key.table => rows'[u] = rows[u]
          /\ \A j \in 1..Len(rows[op.key.table]) : rows'[op.key.table][j] =
                IF j = op.key.recno THEN op.image ELSE rows[op.key.table][j]
      BY <1>5, <1>11, <2>2, <3>1, StoreRow
    <3> QED
      BY <3>2, <3>3 DEF On
  <2> HIDE DEF written
  <2> QED
    BY <1>10, <2>1, <2>2
<1>13. ASSUME NEW u \in Tables, Usable(u), NEW j \in 1..Len(rows[u]), On(op, u, j)
       PROVE  IF Leaving(u, j) THEN rows'[u][j] = rows[u][j] ELSE rows'[u][j] = op.image
  <2>1. j \in Nat /\ InFile(op.key.table, op.key.recno)
    BY <1>11, <1>13 DEF On, InFile
  <2>2. Leaving(u, j) <=> op.key \in job.skip
    BY <1>1, <1>8, <1>13, <2>1 DEF Leaving
  <2>3. IsOpen(op.key)
    BY <1>9, <1>13, <2>1
  <2>4. written <=> ~Leaving(u, j)
    BY <1>7, <2>1, <2>2, <2>3
  <2> HIDE DEF written
  <2> QED
    BY <1>12, <1>13, <2>4
<1> HIDE DEF written
<1>14. \A u \in Tables, j \in Nat :
          (Leaving(u, j))' = Leaving(u, j) /\ (Waiting(u, j))' = Waiting(u, j)
    BY <1>1, <1>2 DEF Leaving, Waiting
<1>15. \A u \in Tables : (Usable(u))' = Usable(u)
    BY <1>1 DEF Usable
<1>16. OpsOfHandles' /\ AppendsFirst' /\ SkipsAppends'
    BY <1>1, <1>2 DEF Rewinds, OpsOfHandles, AppendsFirst, SkipsAppends
<1>17. OpsInFile'
  <2>1. \A j \in 1..Base : tx.ops[j].key.table \in Tables
    BY <1>1, MarkShape
  <2> QED
    BY <1>1, <1>2, <1>3, <1>12, <2>1 DEF Rewinds, OpsInFile, InFile
<1>18. MarksGrown'
    BY <1>1, <1>3, <1>12 DEF Rewinds, MarksGrown
<1>19. ASSUME NEW i \in LiveMarks, NEW u \in Tables, Usable(u), NEW j \in 1..Len(rows[u]),
              ~Leaving(u, j), NEW row, GoesBack(rows, tx.ops, n, MarkIdx(i), u, j, row)
       PROVE  GoesBack(rows', tx.ops, n - 1, MarkIdx(i), u, j, row)
  <2>1. IF On(tx.ops[n], u, j) THEN rows'[u][j] = tx.ops[n].image ELSE rows'[u][j] = rows[u][j]
    BY <1>12, <1>13, <1>19 DEF op
  <2> QED
    BY <1>4, <1>6, <1>19, <2>1, BackWithOneLess
<1>20. OldGoBack'
  <2>1. ASSUME NEW i \in LiveMarks, NEW u \in Tables, Usable(u), NEW j \in 1..Len(marks[i][u])
        PROVE  GoesBack(rows', tx.ops, n - 1, MarkIdx(i), u, j, marks[i][u][j])
    <3>1. j \in 1..Len(rows[u])
      BY <1>6, <1>11
    <3>2. ~Leaving(u, j)
      <4>1. ASSUME NEW k \in job.skip, k.table = u, k.recno = j PROVE FALSE
        <5>1. PICK a \in (job.idx + 1)..Len(tx.ops) : tx.ops[a].isAppend /\ tx.ops[a].key = k
          BY <1>1, <4>1 DEF Rewinds, SkipsAppends
        <5>2. a \in (MarkIdx(i) + 1)..Len(tx.ops)
          BY <1>4, <1>6, <5>1
        <5>3. j > Len(marks[i][u])
          BY <4>1, <5>1, <5>2 DEF Rewinds, MarksGrown
        <5> QED
          BY <1>6, <5>3
      <4> QED
        BY <4>1 DEF Leaving
    <3>3. GoesBack(rows, tx.ops, n, MarkIdx(i), u, j, marks[i][u][j])
      BY <1>3, <2>1 DEF Rewinds, OldGoBack
    <3> QED
      BY <1>19, <2>1, <3>1, <3>2, <3>3
  <2> QED
    BY <1>1, <1>3, <1>15, <2>1 DEF OldGoBack
<1>21. NewGo'
  <2>1. ASSUME NEW i \in LiveMarks, NEW u \in Tables, Usable(u),
               NEW j \in (Len(marks[i][u]) + 1)..Len(rows[u])
        PROVE  (NewAt(i, u, j))'
    <3>1. j \in 1..Len(rows[u]) /\ j \in Nat
      BY <1>6, <1>11
    <3>2. NewAt(i, u, j)
      BY <2>1 DEF Rewinds, NewGo
    <3>3. CASE Leaving(u, j) /\ rows[u][j].del
      <4>1. rows'[u][j] = rows[u][j]
        BY <1>12, <1>13, <2>1, <3>1, <3>3
      <4> QED
        BY <1>14, <3>1, <3>3, <4>1 DEF NewAt
    <3>4. ASSUME ~Leaving(u, j), NEW row \in Row, row.del,
                 GoesBack(rows, tx.ops, n, MarkIdx(i), u, j, row)
          PROVE  (NewAt(i, u, j))'
      <4>1. GoesBack(rows', tx.ops, n - 1, MarkIdx(i), u, j, row)
        BY <1>19, <2>1, <3>1, <3>4
      <4> QED
        BY <1>1, <1>3, <1>14, <3>1, <3>4, <4>1 DEF NewAt
    <3> QED
      BY <1>1, <1>3, <1>14, <3>1, <3>2, <3>3, <3>4 DEF NewAt
  <2> QED
    BY <1>1, <1>3, <1>12, <1>15, <2>1 DEF NewGo
<1> QED
    BY <1>16, <1>17, <1>18, <1>20, <1>21 DEF Rewinds

\* The rollback to a mark ends: its operations are forgotten.
LEMMA FinishRewinds ==
    ASSUME Shape, MaxOpens = 1, Rewinds, SavepointFinish
    PROVE  Rewinds'
<1> DEFINE to == job.idx
<1>1. /\ pc = "savepoint" /\ pc' = "api" /\ UNCHANGED <<rows, foreign>>
      /\ job.appends = {} /\ job.next = to
      /\ tx' = TruncateOpsTo(tx, to) /\ marks' = SubSeq(marks, 1, MarksKept(tx, to))
      /\ \A u \in Tables : wa'[u] \in {wa[u], Refreshed(u)}
    BY DEF SavepointFinish, OpsUndone
<1>2. /\ Base = to /\ Last = to /\ to \in Nat /\ Len(tx.ops) \in Nat /\ to \in 0..Len(tx.ops)
      /\ tx \in TxRecords /\ \A k \in job.skip : k \in Keys
      /\ marks \in Seq(Files) /\ Len(marks) = Len(tx.saves)
  <2>1. Base = to /\ Last = to
    BY <1>1 DEF Base, Last
  <2> QED
    BY <1>1, <2>1, MarkShape DEF Shape, JobShape, HistoryShape
<1> HIDE DEF to
<1>3. PICK n \in 0..Len(tx.saves) :
         /\ n = MarksKept(tx, to)
         /\ Len(tx'.ops) = to /\ \A j \in 1..to : tx'.ops[j] = tx.ops[j]
         /\ Len(tx'.saves) = n /\ \A i \in 1..n : tx'.saves[i] = tx.saves[i]
         /\ n > 0 => tx.saves[n].idx <= to
    BY <1>1, <1>2, Truncated
<1>4. \A i \in 1..n : marks'[i] = marks[i]
    BY <1>1, <1>2, <1>3, Prefix
<1>5. \A i \in 1..n : i \in 1..Len(tx.saves) /\ (MarkIdx(i))' = MarkIdx(i) /\ MarkIdx(i) <= to
  <2>1. ASSUME NEW i \in 1..n PROVE MarkIdx(i) <= to
    <3>1. i \in 1..Len(tx.saves) /\ n \in 1..Len(tx.saves) /\ n > 0 /\ (i < n \/ i = n)
      BY <1>3
    <3>2. MarkIdx(i) <= MarkIdx(n)
      <4>1. MarkIdx(i) \in Nat
        BY <1>1, <3>1, MarkShape
      <4> QED
        BY <3>1, <4>1 DEF Shape, MarksNested, MarkIdx
    <3>3. MarkIdx(i) \in Nat /\ MarkIdx(n) \in Nat /\ MarkIdx(n) <= to
      BY <1>1, <1>3, <3>1, MarkShape DEF MarkIdx
    <3> QED
      BY <1>2, <3>2, <3>3
  <2>2. \A i \in 1..n : i \in 1..Len(tx.saves)
    BY <1>3
  <2> QED
    BY <1>3, <2>1, <2>2 DEF MarkIdx
<1>6. Base' = to /\ Last' = to /\ LiveMarks' \subseteq 1..n /\ 1..n \subseteq LiveMarks
    BY <1>1, <1>2, <1>3, <1>5 DEF Base, Last, LiveMarks
<1>7. \A u \in Tables : wa'[u].gen = wa[u].gen /\ wa'[u].open = wa[u].open
  <2>1. \A u \in Tables : wa[u] \in WorkAreas
    BY KeptShape
  <2>2. ASSUME NEW u \in Tables
        PROVE  Refreshed(u).gen = wa[u].gen /\ Refreshed(u).open = wa[u].open
    BY <2>1 DEF Refreshed, WorkAreas
  <2> QED
    BY <1>1, <2>2
<1>8. \A u \in Tables : (Usable(u))' = Usable(u)
    BY <1>7 DEF Usable
<1>9. \A j \in 1..to : j \in 1..Len(tx.ops) /\ tx.ops[j].key.table \in Tables
    BY <1>1, <1>2, MarkShape
<1>10. OpsOfHandles' /\ OpsInFile' /\ AppendsFirst' /\ SkipsAppends'
  <2>1. OpsOfHandles'
    BY <1>3, <1>7, <1>9 DEF Rewinds, OpsOfHandles
  <2>2. OpsInFile'
    BY <1>1, <1>2, <1>3, <1>6 DEF Rewinds, OpsInFile, InFile
  <2>3. AppendsFirst'
    BY <1>3, <1>9 DEF Rewinds, AppendsFirst
  <2> QED
    BY <1>1, <2>1, <2>2, <2>3 DEF SkipsAppends
<1>11. ASSUME NEW i \in 1..n, NEW t, NEW r, NEW row,
              GoesBack(rows, tx.ops, to, MarkIdx(i), t, r, row)
       PROVE  GoesBack(rows, tx'.ops, to, MarkIdx(i), t, r, row)
  <2>1. MarkIdx(i) \in Nat /\ \A j \in (MarkIdx(i) + 1)..to : tx'.ops[j] = tx.ops[j]
    BY <1>1, <1>3, <1>5, MarkShape
  <2> QED
    BY <1>2, <1>11, <2>1, SameBack
<1>12. ASSUME NEW i \in 1..n, NEW t \in Tables, NEW r \in Nat, NewAt(i, t, r), InFile(t, r)
       PROVE  (NewAt(i, t, r))'
  <2>1. MarkIdx(i) \in Nat /\ (MarkIdx(i))' = MarkIdx(i) /\ ~(Leaving(t, r))' /\ rows[t][r] \in Row
    BY <1>1, <1>5, <1>12, MarkShape DEF Leaving, InFile
  <2>2. ~Waiting(t, r)
    BY <1>1 DEF Waiting
  <2>3. ASSUME NEW row \in Row, row.del, GoesBack(rows, tx.ops, to, MarkIdx(i), t, r, row)
        PROVE  (NewAt(i, t, r))'
    <3>1. GoesBack(rows, tx'.ops, to, MarkIdx(i), t, r, row)
      BY <1>11, <2>3
    <3> QED
      BY <1>1, <1>6, <2>1, <2>3, <3>1 DEF NewAt
  <2>4. CASE Leaving(t, r) /\ rows[t][r].del
    <3>1. PICK k \in job.skip : k.table = t /\ k.recno = r
      BY <2>4 DEF Leaving
    <3>2. PICK a \in (to + 1)..Len(tx.ops) : tx.ops[a].isAppend /\ tx.ops[a].key = k
      BY <1>1, <3>1 DEF Rewinds, SkipsAppends, to
    <3>3. ASSUME NEW j \in (MarkIdx(i) + 1)..to, On(tx.ops[j], t, r) PROVE FALSE
      <4>1. j \in 1..Len(tx.ops) /\ a \in 1..Len(tx.ops) /\ a > j
        BY <1>2, <2>1, <3>2
      <4>2. tx.ops[j].key = k
        BY <1>1, <1>2, <3>1, <3>3, <4>1, MarkShape, SameRow DEF On
      <4> QED
        BY <3>2, <4>1, <4>2 DEF Rewinds, AppendsFirst
    <3>4. GoesBack(rows, tx.ops, to, MarkIdx(i), t, r, rows[t][r])
      BY <3>3 DEF GoesBack
    <3> QED
      BY <2>1, <2>3, <2>4, <3>4
  <2>5. CASE r \in foreign[t]
    BY <1>1, <2>5 DEF NewAt
  <2>6. CASE \E j \in (MarkIdx(i) + 1)..to : tx.ops[j].isAppend /\ On(tx.ops[j], t, r)
    <3>1. PICK j \in (MarkIdx(i) + 1)..to : tx.ops[j].isAppend /\ On(tx.ops[j], t, r)
      BY <2>6
    <3>2. tx'.ops[j] = tx.ops[j]
      BY <1>2, <1>3, <2>1
    <3> QED
      BY <1>6, <2>1, <3>1, <3>2 DEF NewAt
  <2> QED
    BY <1>2, <1>12, <2>2, <2>3, <2>4, <2>5, <2>6 DEF NewAt
<1>13. ASSUME NEW i \in LiveMarks'
       PROVE  \E k \in LiveMarks :
                 /\ (MarkIdx(i))' = MarkIdx(k) /\ marks'[i] = marks[k]
                 /\ \A j \in (MarkIdx(k) + 1)..Len(tx'.ops) :
                       j \in (MarkIdx(k) + 1)..Len(tx.ops) /\ tx'.ops[j] = tx.ops[j]
                 /\ \A t \in Tables, r \in Nat, row \in Row :
                       Usable(t) /\ GoesBack(rows, tx.ops, Last, MarkIdx(k), t, r, row)
                          => GoesBack(rows, tx'.ops, Last', MarkIdx(k), t, r, row)
                 /\ \A t \in Tables, r \in Nat :
                       Usable(t) /\ NewAt(k, t, r) /\ InFile(t, r) => (NewAt(i, t, r))'
  <2>1. i \in 1..n /\ i \in LiveMarks /\ (MarkIdx(i))' = MarkIdx(i) /\ marks'[i] = marks[i]
    BY <1>4, <1>5, <1>6
  <2>2. MarkIdx(i) \in Nat
    BY <1>1, <1>5, <2>1, MarkShape
  <2>3. \A j \in (MarkIdx(i) + 1)..Len(tx'.ops) :
           j \in (MarkIdx(i) + 1)..Len(tx.ops) /\ tx'.ops[j] = tx.ops[j]
    BY <1>2, <1>3, <2>2
  <2>4. \A t \in Tables, r \in Nat, row \in Row :
           GoesBack(rows, tx.ops, Last, MarkIdx(i), t, r, row)
              => GoesBack(rows, tx'.ops, Last', MarkIdx(i), t, r, row)
    BY <1>2, <1>6, <1>11, <2>1
  <2>5. \A t \in Tables, r \in Nat : NewAt(i, t, r) /\ InFile(t, r) => (NewAt(i, t, r))'
    BY <1>12, <2>1
  <2> QED
    BY <2>1, <2>3, <2>4, <2>5
<1> QED
    BY <1>1, <1>8, <1>10, <1>13, MarksMoved

\* A step outside the full rollback.
LEMMA RewindsKept ==
    ASSUME MInv, MaxOpens = 1, Next, pc' # "rollback"
    PROVE  Rewinds'
<1> USE DEF MInv
<1>1. ~tx.active => tx.ops = <<>> /\ tx.saves = <<>>
    BY IdleShape DEF Shape, TxShape
<1>2. CASE Mutate
  <2>1. PICK t \in Tables :
           \/ \E v \in Vals : SetField(t, v) \/ ForeignAppend(t, v)
           \/ MarkDeleted(t) \/ RecallDeleted(t) \/ AppendRecord(t)
    BY <1>2 DEF Mutate
  <2>2. ASSUME NEW new \in Row, WriteRecord(t, new) PROVE Rewinds'
    <3>1. CASE tx.active
      BY <2>2, <3>1, WriteRewinds DEF WriteRecord
    <3>2. CASE ~tx.active
      BY <1>1, <2>2, <3>2, EmptyRewinds DEF WriteRecord
    <3> QED
      BY <3>1, <3>2
  <2>3. ASSUME NEW v \in Vals, ForeignAppend(t, v) PROVE Rewinds'
    BY <2>3, ForeignRewinds DEF ForeignAppend
  <2>4. ASSUME AppendRecord(t) PROVE Rewinds'
    <3>1. CASE tx.active
      BY <2>4, <3>1, AppendRewinds DEF AppendRecord
    <3>2. CASE ~tx.active
      BY <1>1, <2>4, <3>2, EmptyRewinds DEF AppendRecord
    <3> QED
      BY <3>1, <3>2
  <2>5. ASSUME (\E v \in Vals : SetField(t, v)) \/ MarkDeleted(t) \/ RecallDeleted(t)
        PROVE  Rewinds'
    BY <2>2, <2>5, WritesRow DEF Shape
  <2> QED
    BY <2>1, <2>3, <2>4, <2>5
<1>3. CASE Navigate
  <2>1. pc = "api"
    BY <1>3 DEF Navigate, OpenTable, CloseTable, GotoRecord
  <2> QED
    BY <1>3, <2>1, MoveRewinds
<1>4. ASSUME pc = "api", pc' = "api", UNCHANGED <<rows, foreign, marks, tx, wa, job>>
      PROVE  Rewinds'
    BY <1>4, CallRewinds, MarkShape DEF Usable
<1>5. CASE TxCall
  <2>1. ASSUME BeginTx PROVE Rewinds'
    <3>1. CASE tx.active
      BY <1>4, <2>1, <3>1 DEF BeginTx
    <3>2. CASE ~tx.active
      <4>1. tx' = Activate(IdleTx) /\ pc' = "api"
        BY <2>1, <3>2 DEF BeginTx, Shape, TxShape
      <4> QED
        BY <4>1, IdleShape, EmptyRewinds
    <3> QED
      BY <3>1, <3>2
  <2>2. ASSUME CommitTx PROVE Rewinds'
    <3>1. CASE depth > 1
      BY <1>4, <2>2, <3>1 DEF CommitTx
    <3>2. CASE ~(depth > 1)
      BY <2>2, <3>2, IdleShape, EmptyRewinds DEF CommitTx
    <3> QED
      BY <3>1, <3>2
  <2>3. ~RollbackTx
    BY DEF RollbackTx
  <2>4. ASSUME NEW n \in Names, SavepointTx(n) PROVE Rewinds'
    BY <2>4, MarkRewinds DEF SavepointTx
  <2>5. ASSUME NEW n \in Names, ReleaseTx(n) PROVE Rewinds'
    BY <2>5, DropRewinds DEF ReleaseTx
  <2>6. ASSUME NEW n \in Names, RollbackToSavepoint(n) PROVE Rewinds'
    BY <2>6, StartRewinds DEF RollbackToSavepoint
  <2> QED
    BY <1>5, <2>1, <2>2, <2>3, <2>4, <2>5, <2>6 DEF TxCall
<1>6. CASE TxStep
  <2>1. ASSUME NEW b \in job.images PROVE ~RestoreImage(b)
    BY DEF RestoreImage
  <2>2. ASSUME NEW k \in job.appends PROVE ~RollbackAppend(k)
    BY DEF RollbackAppend, RemoveAppended
  <2>3. ASSUME NEW k \in job.appends, SavepointAppend(k) PROVE Rewinds'
    BY <2>3, RemoveRewinds DEF SavepointAppend
  <2>4. ASSUME RollbackFinish PROVE Rewinds'
    BY <2>4, IdleShape, EmptyRewinds DEF RollbackFinish
  <2>5. ASSUME UndoOp PROVE Rewinds'
    BY <2>5, UndoRewinds DEF UndoOp
  <2>6. ASSUME SavepointFinish PROVE Rewinds'
    BY <2>6, FinishRewinds DEF SavepointFinish, OpsUndone
  <2> QED
    BY <1>6, <2>1, <2>2, <2>3, <2>4, <2>5, <2>6 DEF TxStep
<1> QED
    BY <1>2, <1>3, <1>5, <1>6 DEF Next

\* The invariant of a connection that opens each table once.
THEOREM MarksInvariant == ASSUME MaxOpens = 1 PROVE Spec => []MInv
<1>1. Init => MInv
  <2> SUFFICES ASSUME Init PROVE MInv
    OBVIOUS
  <2>1. Shape /\ pc = "api" /\ tx = IdleTx
    BY InitShape DEF Init
  <2>2. Len(tx.ops) = 0 /\ Len(tx.saves) = 0
    BY <2>1, IdleShape
  <2>3. LiveMarks = {}
    BY <2>2 DEF LiveMarks
  <2>4. Rewinds
    BY <2>1, <2>2, <2>3 DEF Rewinds, OpsOfHandles, OpsInFile, Base, AppendsFirst, SkipsAppends,
           MarksGrown, OldGoBack, NewGo
  <2> QED
    BY <2>1, <2>4 DEF MInv
<1>2. ASSUME MInv, [Next]_vars, MaxOpens = 1
      PROVE  MInv'
  <2>1. Shape'
    BY <1>2, ShapeKept DEF MInv
  <2>2. CASE Next
    BY <1>2, <2>1, <2>2, RewindsKept DEF MInv
  <2>3. CASE UNCHANGED vars
    <3>1. UNCHANGED <<rows, foreign, wa, tx, pc, job, marks>>
      BY <2>3 DEF vars
    <3>2. ASSUME pc # "rollback" PROVE Rewinds'
      BY <1>2, <3>1, <3>2, CallRewinds, MarkShape DEF MInv, Usable
    <3> QED
      BY <2>1, <3>1, <3>2 DEF MInv
  <2> QED
    BY <1>2, <2>2, <2>3
<1> QED
    BY <1>1, <1>2, PTL DEF Spec

\* rollback_to_savepoint undoes what was done since the mark and nothing else,
\* through nested, released and reused marks, earlier rollbacks and the rows
\* that other connections append in between (connection.cpp:316-373).
THEOREM SavepointsUndo == ASSUME MaxOpens = 1 PROVE Spec => []SavepointRestores
<1>1. ASSUME MInv, OpsUndone, NEW t \in Tables, wa[t].open, MaxOpens = 1
      PROVE  Restored(t, marks[job.mark][t])
  <2> DEFINE m == job.mark
             old == marks[m][t]
  <2>1. /\ pc = "savepoint" /\ Shape /\ Rewinds /\ job.appends = {} /\ job.next = job.idx
        /\ m \in 1..Len(tx.saves) /\ job.idx = MarkIdx(m) /\ Usable(t)
    BY <1>1 DEF MInv, OpsUndone, Shape, JobShape, MarkIdx, Usable
  <2>2. /\ Base = MarkIdx(m) /\ Last = MarkIdx(m) /\ MarkIdx(m) \in Nat
        /\ Len(old) \in Nat /\ Len(rows[t]) \in Nat
    BY <2>1, MarkShape DEF Base, Last
  <2>3. m \in LiveMarks
    BY <2>1, <2>2 DEF LiveMarks
  <2> HIDE DEF m
  <2>4. \A r, row : GoesBack(rows, tx.ops, Last, MarkIdx(m), t, r, row) => rows[t][r] = row
    BY <2>2 DEF GoesBack
  <2>5. ASSUME NEW r \in 1..Len(old) PROVE InFile(t, r) /\ rows[t][r] = old[r]
    <3>1. Len(old) <= Len(rows[t])
      BY <2>1, <2>3 DEF Rewinds, MarksGrown
    <3>2. GoesBack(rows, tx.ops, Last, MarkIdx(m), t, r, old[r])
      BY <2>1, <2>3 DEF Rewinds, OldGoBack
    <3> QED
      BY <2>2, <2>4, <3>1, <3>2 DEF InFile
  <2>6. ASSUME NEW r \in (Len(old) + 1)..Len(rows[t]) PROVE r \in foreign[t] \/ rows[t][r].del
    <3>1. NewAt(m, t, r)
      BY <2>1, <2>3 DEF Rewinds, NewGo
    <3>2. ~Waiting(t, r) /\ \A j \in (MarkIdx(m) + 1)..Base : FALSE
      BY <2>1, <2>2 DEF Waiting
    <3> QED
      BY <2>4, <3>1, <3>2 DEF NewAt
  <2> QED
    BY <2>5, <2>6 DEF Restored, m
<1>2. MInv /\ MaxOpens = 1 => SavepointRestores
    BY <1>1 DEF SavepointRestores, Intact
<1> QED
    BY <1>2, MarksInvariant, PTL

=============================================================================
