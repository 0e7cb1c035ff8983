---------------------------- MODULE SharedTable ----------------------------
(* Several handles on one table file and its memo file: the record count,   *)
(* autoincrement counter and next memo block that every driver instance     *)
(* caches at open, the read-ahead block of DBF tables, the header lock of    *)
(* appends, and the record locks as the abstract service of LockService.    *)
EXTENDS Naturals, Sequences, FiniteSets, SequencesExt, FiniteSetsExt

CONSTANTS
  Handles,           \* one driver instance and work area each
  NoHandle,
  Kinds,             \* table types: "cdx" and "ntx" (DBF), "adt"
  Fields,            \* data fields; each work area writes the whole row
  Values, Blank,
  BlockRecs,         \* rows of an aligned read-ahead block
  BlockUnits,        \* length of a memo block
  MemoSizes,         \* lengths of the memos clients store
  HasAutoinc,        \* the table has an autoincrement column
  RefreshAfterLock,  \* clients refresh a row after locking it, before writing
  SharedMaintenance, \* pack and zap also run beside other handles, or on a
                     \* handle that has not seen all rows
  MemoWriters,       \* handles that store memos
  MaxRows, MaxWrites, MaxBlocks  \* bounds

ASSUME SharedTableAssumption ==
  /\ NoHandle \notin Handles /\ Blank \in Values /\ MemoWriters \subseteq Handles
  /\ Kinds \subseteq {"cdx", "ntx", "adt"} /\ MemoSizes \subseteq Nat \ {0}
  /\ BlockRecs \in Nat \ {0} /\ BlockUnits \in Nat \ {0, 1}
  /\ MaxRows \in Nat /\ MaxWrites \in Nat

VARIABLES
  kind,    \* the table type
  file,    \* header count, rows by number, autoincrement counter
  memo,    \* memo file: next free block of the header, units by offset
  header,  \* the handle that holds the header lock exclusively
  owner,   \* record locks
  drv,     \* what each driver instance caches; closed handles included
  wa,      \* work areas: record number (0 for none) and record buffer
  call,    \* the call each handle is in
  truth,   \* history: the rows if every field write went to the current row
  stored,  \* history: the memo last stored in each row, and the reference to it
  writes   \* bound: appends begun and rows written so far
vars == <<kind, file, memo, header, owner, drv, wa, call, truth, stored, writes>>

Recs == 1..MaxRows
NoBlock == <<>>
NoMemo == [block |-> 0, len |-> 0]
FreshRow(n) == [f |-> [x \in Fields |-> Blank], del |-> FALSE, memo |-> NoMemo, num |-> n]
Closed == [open |-> FALSE, count |-> 0, next |-> 1, block |-> NoBlock, mnext |-> 1]
Idle == [op |-> "idle"]
Nowhere == [rec |-> 0, buf |-> FreshRow(0), fresh |-> FALSE]

\* What f holds over what g holds, and one row over others.
Over(f, g) == [x \in DOMAIN f \cup DOMAIN g |-> IF x \in DOMAIN f THEN f[x] ELSE g[x]]
Put(g, r, row) == Over([x \in {r} |-> row], g)

---------------------------------------------------------------------------
(* The drivers *)

\* The bytes of a row; rows past the header count stay in a DBF until reused.
OnDisk(r) == r \in DOMAIN file.rows

\* The record count a read or a write of row r goes by: a DBF driver looks
\* again when the row is past its cached count, an ADT driver does not.
DbfCountFor(d, r) == IF r > d.count THEN file.count ELSE d.count
CountFor(d, r) == IF kind = "adt" THEN d.count ELSE DbfCountFor(d, r)

\* The aligned block that contains row r, as far as the count and the file go.
BlockAt(r, count) ==
  LET first == ((r - 1) \div BlockRecs) * BlockRecs + 1
      last  == Min({first + BlockRecs - 1, count})
  IN  [x \in {y \in first..last : OnDisk(y)} |-> file.rows[x]]

\* read_record_raw: does it succeed, what it returns, what it caches.
CanRead(d, r) == r > 0 /\ r <= CountFor(d, r) /\ (r \in DOMAIN d.block \/ OnDisk(r))
RowRead(d, r) == IF r \in DOMAIN d.block THEN d.block[r] ELSE file.rows[r]
DbfAfterRead(d, r) ==
  LET n == DbfCountFor(d, r)
  IN  [d EXCEPT !.count = n,
                !.block = IF ~CanRead(d, r) THEN NoBlock
                          ELSE IF r \in DOMAIN @ THEN @ ELSE BlockAt(r, n)]
AfterRead(d, r) == IF kind = "adt" THEN d ELSE DbfAfterRead(d, r)

Dropped(d) == [d EXCEPT !.block = NoBlock]

\* Mutant: an absolute move serves the row from the block.
MutantInvalidated(d) == d

\* What an absolute move asks the driver to do; the NTX driver wraps a CDX
\* driver and does not pass it on.
Invalidated(d) == IF kind = "ntx" THEN d ELSE Dropped(d)

\* load_record_: the work area moves only when the row could be read.
Load(h, d, r, fresh) ==
  /\ drv' = [drv EXCEPT ![h] = AfterRead(d, r)]
  /\ wa' = IF CanRead(d, r)
           THEN [wa EXCEPT ![h] = [rec |-> r, buf |-> RowRead(d, r), fresh |-> fresh]]
           ELSE wa

\* write_record_raw of the whole buffer.
CanWrite(d, r) == r > 0 /\ r <= CountFor(d, r)
Written(d, r) == [Dropped(d) EXCEPT !.count = CountFor(d, r)]
WriteRow(h, buf) ==
  LET r == wa[h].rec IN
  /\ CanWrite(drv[h], r)
  /\ file' = [file EXCEPT !.rows = Put(@, r, buf)]
  /\ drv' = [drv EXCEPT ![h] = Written(@, r)]
  /\ wa' = [wa EXCEPT ![h].buf = buf]

Ready(h) == drv[h].open /\ call[h].op = "idle"

---------------------------------------------------------------------------
(* The memo stores: FPT beside a CDX table, DBT beside NTX, ADM beside ADT *)

Ceil(n, d) == (n + d - 1) \div d

\* How many blocks a memo of n units takes: an FPT entry begins with its
\* length, a DBT entry ends with two end marks, an ADM entry is bare.
FptBlocks(n) == Ceil(n + 1, BlockUnits)
DbtBlocks(n) == Ceil(n + 2, BlockUnits)
AdmBlocks(n) == Max({1, Ceil(n, BlockUnits)})
\* Mutant: the room for the end marks and the length is forgotten.
MutantBlocksFor(n) == AdmBlocks(n)

BlocksFor(n) == CASE kind = "cdx" -> FptBlocks(n)
                  [] kind = "ntx" -> DbtBlocks(n)
                  [] kind = "adt" -> AdmBlocks(n)

\* The units written, padded to whole blocks.
End == <<"end">>
FptEntry(p) == <<<<"len", Len(p)>>>> \o p
DbtEntry(p) == p \o <<End, End>>
Entry(p) == CASE kind = "cdx" -> FptEntry(p) [] kind = "ntx" -> DbtEntry(p) [] kind = "adt" -> p
Units(p) == [i \in 1..(BlocksFor(Len(p)) * BlockUnits) |->
               IF i \in DOMAIN Entry(p) THEN Entry(p)[i] ELSE <<"pad">>]

MemoNext(start, n) == start + BlocksFor(n)
Offset(b) == b * BlockUnits
MemoWrite(start, p) ==
  [next |-> MemoNext(start, Len(p)),
   units |-> Over([x \in (Offset(start) + 1)..(Offset(start) + Len(Units(p))) |->
                     Units(p)[x - Offset(start)]], memo.units)]

\* Reading: FPT takes the length it finds, ADM the length in the row, DBT
\* looks for two end marks within one block after the other.
Window(from, n) == [i \in 1..Cardinality({x \in (from + 1)..(from + n) : x \in DOMAIN memo.units})
                      |-> memo.units[from + i]]
FptRead(ref) == Window(Offset(ref.block) + 1, memo.units[Offset(ref.block) + 1][2])
AdmRead(ref) == Window(Offset(ref.block), ref.len)
EndMarks(w) == {i \in 1..(Len(w) - 1) : w[i] = End /\ w[i + 1] = End}
DbtRead(ref) ==
  LET from[b \in 0..(MaxBlocks + 1)] ==
        LET w == Window(Offset(b), BlockUnits) IN
        IF EndMarks(w) # {} THEN SubSeq(w, 1, Min(EndMarks(w)) - 1)
        ELSE IF Len(w) < BlockUnits THEN w
        ELSE w \o from[b + 1]
  IN  from[ref.block]
MemoRead(ref) == CASE kind = "cdx" -> FptRead(ref)
                   [] kind = "ntx" -> DbtRead(ref)
                   [] kind = "adt" -> AdmRead(ref)

---------------------------------------------------------------------------
(* Opening and closing *)

Init ==
  /\ kind \in Kinds
  /\ file = [count |-> 0, rows |-> <<>>, next |-> 1]
  /\ memo = [next |-> 1, units |-> <<>>]
  /\ header = NoHandle
  /\ owner = [r \in Recs |-> NoHandle]
  /\ drv = [h \in Handles |-> Closed]
  /\ wa = [h \in Handles |-> Nowhere]
  /\ call = [h \in Handles |-> Idle]
  /\ truth = <<>> /\ stored = <<>> /\ writes = 0

\* An ADT table does not store its counter: it is seeded from the rows.
SeedFromRows ==
  LET seen == {file.rows[r].num : r \in {x \in 1..file.count : OnDisk(x)}}
  IN  IF seen = {} THEN 1 ELSE Max(seen) + 1

NotPacking == \A h \in Handles : call[h].op # "pack"
Opened(next) == [open |-> TRUE, count |-> file.count, next |-> next,
                 block |-> NoBlock, mnext |-> memo.next]

\* A DBF driver waits for an append that holds the header; an ADT driver does not.
DbfOpened(h) == header = NoHandle /\ drv' = [drv EXCEPT ![h] = Opened(file.next)]
AdtOpened(h) == drv' = [drv EXCEPT ![h] = Opened(IF HasAutoinc THEN SeedFromRows ELSE 1)]
Open(h) ==
  /\ ~drv[h].open
  /\ SharedMaintenance \/ NotPacking
  /\ IF kind = "adt" THEN AdtOpened(h) ELSE DbfOpened(h)
  /\ wa' = [wa EXCEPT ![h] = Nowhere]
  /\ UNCHANGED <<kind, file, memo, header, owner, call, truth, stored, writes>>

Close(h) ==
  /\ Ready(h)
  /\ drv' = [drv EXCEPT ![h] = Closed]
  /\ wa' = [wa EXCEPT ![h] = Nowhere]
  /\ owner' = [r \in Recs |-> IF owner[r] = h THEN NoHandle ELSE owner[r]]
  /\ UNCHANGED <<kind, file, memo, header, call, truth, stored, writes>>

---------------------------------------------------------------------------
(* Reading and locking *)

\* An absolute move (also a refresh) drops the block; past the cached count it
\* ends on no record, without asking the file.
GotoRecord(h, r) ==
  /\ Ready(h)
  /\ IF r > drv[h].count
     THEN /\ wa' = [wa EXCEPT ![h].rec = 0, ![h].fresh = FALSE]
          /\ drv' = [drv EXCEPT ![h] = Invalidated(@)]
     ELSE Load(h, Invalidated(drv[h]), r, owner[r] = h)
  /\ UNCHANGED <<kind, file, memo, header, owner, call, truth, stored, writes>>

\* A relative move reads from the block.
Skip(h, delta) ==
  /\ Ready(h) /\ wa[h].rec > 0
  /\ LET r == wa[h].rec + delta IN
     IF r \in 1..drv[h].count THEN Load(h, drv[h], r, FALSE)
     ELSE /\ wa' = [wa EXCEPT ![h].rec = 0, ![h].fresh = FALSE]
          /\ UNCHANGED drv
  /\ UNCHANGED <<kind, file, memo, header, owner, call, truth, stored, writes>>

\* A granted lock call loads the row, from the block when it is there.
LockRecord(h, r) ==
  /\ Ready(h) /\ owner[r] = NoHandle
  /\ owner' = [owner EXCEPT ![r] = h]
  /\ Load(h, drv[h], r, FALSE)
  /\ UNCHANGED <<kind, file, memo, header, call, truth, stored, writes>>

UnlockRecord(h, r) ==
  /\ Ready(h) /\ owner[r] = h
  /\ owner' = [owner EXCEPT ![r] = NoHandle]
  /\ wa' = [wa EXCEPT ![h].fresh = @ /\ wa[h].rec # r]
  /\ UNCHANGED <<kind, file, memo, header, drv, call, truth, stored, writes>>

---------------------------------------------------------------------------
(* Writing *)

\* What well-behaved clients do before a write.
MayWrite(h) ==
  /\ Ready(h) /\ wa[h].rec > 0 /\ owner[wa[h].rec] = h
  /\ writes < MaxWrites /\ writes' = writes + 1
  /\ RefreshAfterLock => wa[h].fresh

\* A field write stores the whole buffer of the work area.
SetField(h, x, v) ==
  /\ MayWrite(h)
  /\ WriteRow(h, [wa[h].buf EXCEPT !.f[x] = v])
  /\ truth' = [truth EXCEPT ![wa[h].rec].f[x] = v]
  /\ UNCHANGED <<kind, memo, header, owner, call, stored>>

MarkDeleted(h, b) ==
  /\ MayWrite(h)
  /\ WriteRow(h, [wa[h].buf EXCEPT !.del = b])
  /\ truth' = [truth EXCEPT ![wa[h].rec].del = b]
  /\ UNCHANGED <<kind, memo, header, owner, call, stored>>

\* A memo store hands out blocks from the number it read when it was opened,
\* writes the payload, the header, and then the row that refers to it.
Payload(h, n) == [i \in 1..n |-> <<h, i>>]
SetMemo(h, n) ==
  LET start == drv[h].mnext
      ref   == [block |-> start, len |-> n]
      r     == wa[h].rec
      d     == [drv[h] EXCEPT !.mnext = start + BlocksFor(n)]
      buf   == [wa[h].buf EXCEPT !.memo = ref]
  IN
  /\ MayWrite(h) /\ h \in MemoWriters /\ start + BlocksFor(n) - 1 <= MaxBlocks
  /\ CanWrite(d, r)
  /\ memo' = MemoWrite(start, Payload(h, n))
  /\ file' = [file EXCEPT !.rows = Put(@, r, buf)]
  /\ drv' = [drv EXCEPT ![h] = Written(d, r)]
  /\ wa' = [wa EXCEPT ![h].buf = buf]
  /\ truth' = [truth EXCEPT ![r].memo = ref]
  /\ stored' = Put(stored, r, [ref |-> ref, memo |-> Payload(h, n)])
  /\ UNCHANGED <<kind, header, owner, call>>

---------------------------------------------------------------------------
(* Appending: counter, header lock and count, row, header, record lock *)

\* The counter is taken and advanced before any lock. The NTX driver has none:
\* its rows stay without a number. An ADT driver keeps the counter to itself.
CdxBumped(n) == [file EXCEPT !.next = n + 1]
Numbered == HasAutoinc /\ kind # "ntx"
AppendRecord(h) ==
  /\ Ready(h) /\ file.count < MaxRows /\ writes < MaxWrites
  /\ writes' = writes + 1
  /\ LET n == drv[h].next IN
     /\ call' = [call EXCEPT ![h] = [op |-> "append", num |-> IF Numbered THEN n ELSE 0]]
     /\ drv' = IF Numbered THEN [drv EXCEPT ![h].next = n + 1] ELSE drv
     /\ file' = IF Numbered /\ kind = "cdx" THEN CdxBumped(n) ELSE file
  /\ UNCHANGED <<kind, memo, header, owner, wa, truth, stored>>

\* Mutant: the row goes behind the count cached at open.
MutantBehind(h) == drv[h].count + 1

\* Under the header lock: the count of the file, and the row behind it.
Behind(h) == file.count + 1
AppendRow(h) ==
  /\ call[h].op = "append" /\ header = NoHandle /\ file.count < MaxRows
  /\ LET r == Behind(h) IN
     /\ header' = h
     /\ file' = [file EXCEPT !.rows = Put(@, r, FreshRow(call[h].num))]
     /\ drv' = [drv EXCEPT ![h] = [Dropped(@) EXCEPT !.count = r]]
     /\ call' = [call EXCEPT ![h] = [op |-> "header", rec |-> r, num |-> call[h].num]]
  /\ UNCHANGED <<kind, memo, owner, wa, truth, stored, writes>>

\* The lock could not be had in the attempts the driver makes.
AppendRefused(h) ==
  /\ call[h].op = "append" /\ (header # NoHandle \/ file.count >= MaxRows)
  /\ call' = [call EXCEPT ![h] = Idle]
  /\ UNCHANGED <<kind, file, memo, header, owner, drv, wa, truth, stored, writes>>

\* The header is written and released; the call then locks the new row if it
\* can, which loads it.
AppendHeader(h) ==
  /\ call[h].op = "header"
  /\ LET r == call[h].rec
         new == FreshRow(call[h].num)
         granted == owner[r] \in {NoHandle, h} IN
     /\ file' = [file EXCEPT !.count = drv[h].count]
     /\ header' = NoHandle
     /\ owner' = [owner EXCEPT ![r] = IF granted THEN h ELSE @]
     /\ drv' = [drv EXCEPT ![h] = IF granted THEN AfterRead(@, r) ELSE @]
     /\ wa' = [wa EXCEPT ![h] = [rec |-> r, buf |-> new, fresh |-> granted]]
     /\ truth' = Put(truth, r, new)
     /\ stored' = [x \in DOMAIN stored \ {r} |-> stored[x]]
     /\ call' = [call EXCEPT ![h] = Idle]
  /\ UNCHANGED <<kind, memo, writes>>

---------------------------------------------------------------------------
(* Maintenance; nothing in the code asks for an exclusive open *)

MayMaintain(h) ==
  /\ Ready(h)
  /\ \/ SharedMaintenance
     \/ drv[h].count = file.count /\ \A g \in Handles \ {h} : ~drv[g].open

\* The driver's zap: the count goes to zero without the header lock; an ADT
\* file is also cut.
Emptied == [file EXCEPT !.count = 0, !.rows = IF kind = "adt" THEN <<>> ELSE @]
ZapTable(h) ==
  /\ MayMaintain(h)
  /\ file' = Emptied
  /\ drv' = [drv EXCEPT ![h] = [Dropped(@) EXCEPT !.count = 0]]
  /\ wa' = [wa EXCEPT ![h] = Nowhere]
  /\ truth' = <<>> /\ stored' = <<>>
  /\ UNCHANGED <<kind, memo, header, owner, call, writes>>

\* pack: the rows it sees that are not deleted, written over the first ones,
\* kept in memory, and appended again after a zap.
Ascending(S) == [i \in 1..Cardinality(S) |-> CHOOSE r \in S : Cardinality({q \in S : q <= r}) = i]
Survivors(h) == Ascending({r \in 1..drv[h].count : ~file.rows[r].del})
Packed(old, keep) == [i \in 1..Len(keep) |-> old[keep[i]]]
PackTable(h) ==
  /\ MayMaintain(h)
  /\ \A r \in 1..drv[h].count : OnDisk(r)
  /\ LET keep == Survivors(h)
         all  == Ascending({r \in DOMAIN truth : ~truth[r].del}) IN
     /\ call' = [call EXCEPT ![h] = [op |-> "pack", todo |-> Packed(file.rows, keep)]]
     /\ file' = [Emptied EXCEPT !.rows = IF kind = "adt" THEN @ ELSE Over(Packed(file.rows, keep), @)]
     /\ truth' = Packed(truth, all)
     /\ stored' = [i \in {j \in DOMAIN all : all[j] \in DOMAIN stored} |-> stored[all[i]]]
  /\ drv' = [drv EXCEPT ![h] = [Dropped(@) EXCEPT !.count = 0]]
  /\ wa' = [wa EXCEPT ![h] = Nowhere]
  /\ UNCHANGED <<kind, memo, header, owner, writes>>

PackAppend(h) ==
  /\ call[h].op = "pack" /\ call[h].todo # <<>> /\ header = NoHandle /\ file.count < MaxRows
  /\ LET r == Behind(h) IN
     /\ file' = [file EXCEPT !.count = r, !.rows = Put(@, r, Head(call[h].todo))]
     /\ drv' = [drv EXCEPT ![h] = [Dropped(@) EXCEPT !.count = r]]
  /\ call' = [call EXCEPT ![h].todo = Tail(@)]
  /\ UNCHANGED <<kind, memo, header, owner, wa, truth, stored, writes>>

PackFinish(h) ==
  /\ call[h].op = "pack" /\ call[h].todo = <<>>
  /\ call' = [call EXCEPT ![h] = Idle]
  /\ UNCHANGED <<kind, file, memo, header, owner, drv, wa, truth, stored, writes>>

Next == \E h \in Handles :
  \/ Open(h) \/ Close(h)
  \/ \E r \in Recs : GotoRecord(h, r) \/ LockRecord(h, r) \/ UnlockRecord(h, r)
  \/ \E delta \in {-1, 1} : Skip(h, delta)
  \/ \E x \in Fields, v \in Values : SetField(h, x, v)
  \/ \E b \in BOOLEAN : MarkDeleted(h, b)
  \/ \E n \in MemoSizes : SetMemo(h, n)
  \/ AppendRecord(h) \/ AppendRow(h) \/ AppendRefused(h) \/ AppendHeader(h)
  \/ ZapTable(h) \/ PackTable(h) \/ PackAppend(h) \/ PackFinish(h)

Spec == Init /\ [][Next]_vars

---------------------------------------------------------------------------
(* Properties *)

\* Types and bounds.
TypeOK ==
  /\ kind \in Kinds /\ header \in Handles \cup {NoHandle}
  /\ file.count \in 0..MaxRows /\ DOMAIN file.rows \subseteq Recs
  /\ \A h \in Handles : drv[h].count \in 0..MaxRows /\ wa[h].rec \in 0..MaxRows
  /\ \A r \in Recs : owner[r] \in Handles \cup {NoHandle}

\* Every row is what the field writes of all handles made of it, each applied
\* to the row as it was: no write brings back an older value of another field
\* or row, and no append loses a row another handle appended. (Clients of an
\* NTX table have no call that drops the read-ahead block.)
RowsAreTruth ==
  NotPacking => /\ file.count = Cardinality(DOMAIN truth)
                /\ \A r \in 1..file.count : OnDisk(r) /\ file.rows[r] = truth[r]
NoLostWrite == kind # "ntx" => RowsAreTruth

\* The memo a row refers to is the one that was stored in it: no later memo of
\* any row is written over it.
MemoKept == \A r \in DOMAIN stored : MemoRead(stored[r].ref) = stored[r].memo

\* A client that has refreshed a row it locked sees the row in the file, until
\* it unlocks it.
RefreshIsCurrent ==
  \A h \in Handles : wa[h].fresh /\ wa[h].rec > 0 /\ wa[h].rec <= file.count /\ call[h].op # "pack"
    => wa[h].buf = file.rows[wa[h].rec]
LockedIsCurrent == kind # "ntx" => RefreshIsCurrent

\* Two rows never get one number from the autoincrement counter.
NumbersApart ==
  HasAutoinc => \A r, s \in 1..file.count :
    OnDisk(r) /\ OnDisk(s) /\ r # s => file.rows[r].num # file.rows[s].num

\* Taking a record lock shows the owner the row as it is in the file.
LockLoadsRow ==
  [][\A h \in Handles, r \in Recs :
       owner[r] = NoHandle /\ owner'[r] = h /\ wa'[h].rec = r => wa'[h].buf = file'.rows[r]]_vars
===========================================================================
