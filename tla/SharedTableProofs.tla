------------------------- MODULE SharedTableProofs --------------------------
(***************************************************************************)
(* What several handles on one table file promise each other, for any      *)
(* number of handles, rows, fields and values: with record locks and a     *)
(* refresh after the lock no write and no append is lost, and a locked row *)
(* is shown as it is, although every driver caches the record count and    *)
(* the rows it read.  Two hypotheses (Careful): clients refresh a row they *)
(* locked before they write it, and pack and zap run alone.  TLC has a     *)
(* lost write without either of them.  Memos are kept whole under another: *)
(* one handle stores them.                                                 *)
(***************************************************************************)
EXTENDS SharedTable, LeastNumber, SequenceTheorems

Row == [f : [Fields -> Values], del : BOOLEAN, memo : [block : Nat, len : Nat], num : Nat]
RowMaps == UNION {[D -> Row] : D \in SUBSET Recs}
Files == [count : 0..MaxRows, rows : RowMaps, next : Nat]
Drivers == [open : BOOLEAN, count : 0..MaxRows, next : Nat, block : RowMaps, mnext : Nat]
WorkAreas == [rec : 0..MaxRows, buf : Row, fresh : BOOLEAN]
Calls ==
    [op : {"idle"}] \cup [op : {"append"}, num : Nat]
      \cup [op : {"header"}, rec : Recs, num : Nat] \cup [op : {"pack"}, todo : Seq(Row)]

Shape ==
    /\ kind \in Kinds /\ header \in Handles \cup {NoHandle}
    /\ file \in Files /\ truth \in RowMaps /\ memo.next \in Nat
    /\ owner \in [Recs -> Handles \cup {NoHandle}]
    /\ drv \in [Handles -> Drivers]
    /\ wa \in [Handles -> WorkAreas]
    /\ call \in [Handles -> Calls]

-----------------------------------------------------------------------------
(* The invariant *)

\* What the code leaves to the clients.
Careful == RefreshAfterLock = TRUE /\ SharedMaintenance = FALSE

\* A call runs on an open handle; a closed one has seen nothing.
OpenOrIdle ==
    \A h \in Handles :
      /\ call[h].op # "idle" => drv[h].open
      /\ ~drv[h].open => drv[h].count = 0 /\ wa[h].rec = 0

\* The header lock is held from the row of an append to its header.
HeaderHeld ==
    \A h \in Handles :
      /\ call[h].op = "header" <=> header = h
      /\ header = h => /\ call[h].rec = file.count + 1 /\ drv[h].count = file.count + 1
                       /\ OnDisk(file.count + 1)
                       /\ file.rows[file.count + 1] = FreshRow(call[h].num)

\* No cached count runs ahead of the file, except that of an append.
CountsBehind == \A h \in Handles : header # h => drv[h].count <= file.count

\* A pack has the table for itself.
PackAlone ==
    \A h \in Handles : call[h].op = "pack" =>
      wa[h].rec = 0 /\ \A g \in Handles \ {h} : ~drv[g].open

\* The rows the header counts are the true ones ...
RowsTrue ==
    \A r \in 1..file.count : OnDisk(r) /\ r \in DOMAIN truth /\ file.rows[r] = truth[r]

\* ... and there are no others, but those that a pack has still to append.
TruthOnFile == NotPacking => DOMAIN truth = 1..file.count
TruthToAppend ==
    \A h \in Handles : call[h].op = "pack" =>
      /\ DOMAIN truth = 1..(file.count + Len(call[h].todo))
      /\ \A i \in 1..Len(call[h].todo) : truth[file.count + i] = call[h].todo[i]

\* A row that was refreshed under its lock stays what the buffer shows.
FreshIsTrue ==
    \A h \in Handles : wa[h].fresh /\ wa[h].rec # 0 =>
      /\ wa[h].rec <= file.count /\ owner[wa[h].rec] = h
      /\ wa[h].buf = file.rows[wa[h].rec]

Sound ==
    /\ OpenOrIdle /\ HeaderHeld /\ CountsBehind /\ PackAlone
    /\ RowsTrue /\ TruthOnFile /\ TruthToAppend /\ FreshIsTrue

IInv == Shape /\ (kind # "ntx" => Sound)

-----------------------------------------------------------------------------
(* Rows *)

\* A map of rows is a function.
LEMMA RowMapShape ==
    ASSUME NEW g \in RowMaps
    PROVE  /\ DOMAIN g \in SUBSET Recs /\ g = [x \in DOMAIN g |-> g[x]]
           /\ \A x \in DOMAIN g : g[x] \in Row
<1>1. PICK D \in SUBSET Recs : g \in [D -> Row]
    BY DEF RowMaps
<1> QED
    BY <1>1

\* What is needed for one.
LEMMA IsRowMap ==
    ASSUME NEW D \in SUBSET Recs, NEW g \in [D -> Row]
    PROVE  g \in RowMaps /\ DOMAIN g = D
BY DEF RowMaps

\* The rows of a part of a map.
LEMMA PartOfRowMap ==
    ASSUME NEW g \in RowMaps, NEW D \in SUBSET DOMAIN g
    PROVE  [x \in D |-> g[x]] \in RowMaps
<1>1. D \in SUBSET Recs /\ [x \in D |-> g[x]] \in [D -> Row]
    BY RowMapShape
<1> QED
    BY <1>1, IsRowMap

\* Rows over others.
LEMMA OverRows ==
    ASSUME NEW f \in RowMaps, NEW g \in RowMaps
    PROVE  /\ Over(f, g) \in RowMaps /\ DOMAIN Over(f, g) = DOMAIN f \cup DOMAIN g
           /\ \A x \in DOMAIN f : Over(f, g)[x] = f[x]
           /\ \A x \in DOMAIN g \ DOMAIN f : Over(f, g)[x] = g[x]
<1> DEFINE D == DOMAIN f \cup DOMAIN g
<1>1. D \in SUBSET Recs /\ Over(f, g) \in [D -> Row]
    BY RowMapShape DEF Over
<1> QED
    BY <1>1, IsRowMap DEF Over

\* One row over others.
LEMMA PutRow ==
    ASSUME NEW g \in RowMaps, NEW r \in Recs, NEW row \in Row
    PROVE  /\ Put(g, r, row) \in RowMaps /\ DOMAIN Put(g, r, row) = DOMAIN g \cup {r}
           /\ Put(g, r, row)[r] = row
           /\ \A x \in DOMAIN g : x # r => Put(g, r, row)[x] = g[x]
<1> DEFINE one == [x \in {r} |-> row]
<1>1. one \in RowMaps /\ DOMAIN one = {r} /\ one[r] = row
  <2>1. {r} \in SUBSET Recs /\ one \in [{r} -> Row]
    OBVIOUS
  <2> QED
    BY <2>1, IsRowMap
<1>2. Put(g, r, row) = Over(one, g)
    BY DEF Put
<1> HIDE DEF one
<1>3. /\ Over(one, g) \in RowMaps /\ DOMAIN Over(one, g) = {r} \cup DOMAIN g
      /\ \A x \in {r} : Over(one, g)[x] = one[x]
      /\ \A x \in DOMAIN g \ {r} : Over(one, g)[x] = g[x]
  <2>1. /\ Over(one, g) \in RowMaps /\ DOMAIN Over(one, g) = DOMAIN one \cup DOMAIN g
        /\ \A x \in DOMAIN one : Over(one, g)[x] = one[x]
        /\ \A x \in DOMAIN g \ DOMAIN one : Over(one, g)[x] = g[x]
    BY <1>1, OverRows, Zenon
  <2> QED
    BY <1>1, <2>1, Zenon
<1> QED
    BY <1>1, <1>2, <1>3

\* A row that is changed in place.
LEMMA ChangeRow ==
    ASSUME NEW g \in RowMaps, NEW r \in DOMAIN g, NEW row \in Row
    PROVE  /\ [g EXCEPT ![r] = row] \in RowMaps
           /\ DOMAIN [g EXCEPT ![r] = row] = DOMAIN g
           /\ [g EXCEPT ![r] = row][r] = row
           /\ \A x \in DOMAIN g : x # r => [g EXCEPT ![r] = row][x] = g[x]
<1>1. DOMAIN g \in SUBSET Recs /\ [g EXCEPT ![r] = row] \in [DOMAIN g -> Row]
    BY RowMapShape
<1> QED
    BY <1>1, IsRowMap

\* No rows.
LEMMA NoRows ==
    <<>> \in RowMaps /\ DOMAIN <<>> = {}
<1>1. <<>> \in Seq(Row) /\ Len(<<>>) = 0 /\ 1..0 = {}
    BY EmptySeq
<1>2. <<>> \in [{} -> Row]
    BY <1>1, LenProperties
<1>3. {} \in SUBSET Recs
    OBVIOUS
<1> QED
    BY <1>2, <1>3, IsRowMap

\* A list of rows that fits is a map.
LEMMA ListOfRows ==
    ASSUME NEW n \in 0..MaxRows, NEW g \in [1..n -> Row]
    PROVE  g \in RowMaps /\ DOMAIN g = 1..n
<1>1. 1..n \in SUBSET Recs
    BY SharedTableAssumption DEF Recs
<1> QED
    BY <1>1, IsRowMap

\* A new row.
LEMMA NewRow ==
    ASSUME NEW n \in Nat
    PROVE  FreshRow(n) \in Row
BY SharedTableAssumption DEF FreshRow, Row, NoMemo

\* What a write makes of a row.
LEMMA WrittenRow ==
    ASSUME NEW row \in Row
    PROVE  /\ \A x \in Fields, v \in Values : [row EXCEPT !.f[x] = v] \in Row
           /\ \A b \in BOOLEAN : [row EXCEPT !.del = b] \in Row
           /\ \A m \in [block : Nat, len : Nat] : [row EXCEPT !.memo = m] \in Row
<1>1. \A x \in Fields, v \in Values : [row.f EXCEPT ![x] = v] \in [Fields -> Values]
    BY DEF Row
<1>2. \A x \in Fields, v \in Values : [row EXCEPT !.f[x] = v] = [row EXCEPT !.f = [row.f EXCEPT ![x] = v]]
    OBVIOUS
<1>3. \A c \in [Fields -> Values] : [row EXCEPT !.f = c] \in Row
    BY DEF Row
<1> QED
    BY <1>1, <1>2, <1>3 DEF Row

-----------------------------------------------------------------------------
(* The drivers *)

\* Dropping the block changes nothing else.
LEMMA DroppedDriver ==
    ASSUME NEW d \in Drivers
    PROVE  /\ Dropped(d) \in Drivers /\ Dropped(d).open = d.open /\ Dropped(d).count = d.count
           /\ Dropped(d).block = <<>>
           /\ Invalidated(d) \in Drivers
           /\ Invalidated(d).open = d.open /\ Invalidated(d).count = d.count
           /\ kind # "ntx" => Invalidated(d).block = <<>>
<1>1. Dropped(d) = [d EXCEPT !.block = <<>>]
    BY DEF Dropped, NoBlock
<1>2. /\ Dropped(d) \in Drivers /\ Dropped(d).open = d.open /\ Dropped(d).count = d.count
      /\ Dropped(d).block = <<>>
    BY <1>1, NoRows DEF Drivers
<1> QED
    BY <1>2 DEF Invalidated

\* So does a read, but for the count and the block.
LEMMA ReadingDriver ==
    ASSUME file \in Files, NEW d \in Drivers, NEW r \in Nat
    PROVE  /\ AfterRead(d, r) \in Drivers /\ AfterRead(d, r).open = d.open
           /\ AfterRead(d, r).count \in {d.count, file.count}
           /\ CountFor(d, r) \in {d.count, file.count}
           /\ r > d.count /\ kind # "adt" => AfterRead(d, r).count = file.count
<1> USE SharedTableAssumption
<1>1. DbfCountFor(d, r) \in {d.count, file.count} /\ d.count \in 0..MaxRows /\ file.count \in 0..MaxRows
      /\ (r > d.count => DbfCountFor(d, r) = file.count)
    BY DEF DbfCountFor, Files, Drivers
<1>2. BlockAt(r, DbfCountFor(d, r)) \in RowMaps
  <2>1. file.rows \in RowMaps
    BY DEF Files
  <2>2. PICK D \in SUBSET DOMAIN file.rows :
          BlockAt(r, DbfCountFor(d, r)) = [x \in D |-> file.rows[x]]
    BY DEF BlockAt, OnDisk
  <2> QED
    BY <2>1, <2>2, PartOfRowMap
<1> DEFINE new(n, b) == [d EXCEPT !.count = n, !.block = b]
<1>3. ASSUME NEW n \in 0..MaxRows, NEW b \in RowMaps
      PROVE  new(n, b) \in Drivers /\ new(n, b).open = d.open /\ new(n, b).count = n
    BY DEF Drivers
<1>4. PICK b \in RowMaps : DbfAfterRead(d, r) = new(DbfCountFor(d, r), b)
  <2>1. d.block \in RowMaps /\ NoBlock \in RowMaps
    BY NoRows DEF Drivers, NoBlock
  <2> QED
    BY <1>2, <2>1 DEF DbfAfterRead
<1>5. /\ DbfAfterRead(d, r) \in Drivers /\ DbfAfterRead(d, r).open = d.open
      /\ DbfAfterRead(d, r).count = DbfCountFor(d, r)
  <2> HIDE DEF new
  <2>1. DbfCountFor(d, r) \in 0..MaxRows
    BY <1>1
  <2> QED
    BY <1>3, <1>4, <2>1
<1> QED
    BY <1>1, <1>5 DEF AfterRead, CountFor

\* What is read is a row; without a block it is the row of the file.
LEMMA ReadsRow ==
    ASSUME file \in Files, NEW d \in Drivers, NEW r \in Nat, CanRead(d, r)
    PROVE  /\ RowRead(d, r) \in Row /\ r \in 1..MaxRows
           /\ d.block = <<>> => RowRead(d, r) = file.rows[r] /\ OnDisk(r)
           /\ r <= d.count \/ r <= file.count
<1> USE SharedTableAssumption
<1>1. file.rows \in RowMaps /\ d.block \in RowMaps /\ d.count \in 0..MaxRows /\ file.count \in 0..MaxRows
    BY DEF Files, Drivers
<1>2. RowRead(d, r) \in Row
    BY <1>1, RowMapShape DEF CanRead, RowRead, OnDisk
<1>3. r > 0 /\ (r <= d.count \/ r <= file.count)
    BY <1>1, ReadingDriver DEF CanRead
<1>4. r \in 1..MaxRows
    BY <1>1, <1>3
<1>5. d.block = <<>> => RowRead(d, r) = file.rows[r] /\ OnDisk(r)
    BY NoRows DEF CanRead, RowRead
<1> QED
    BY <1>2, <1>3, <1>4, <1>5

-----------------------------------------------------------------------------
(* The shape of the state, whatever clients do *)

\* A load reads a row or leaves the work area alone.
LEMMA Loads ==
    ASSUME Shape, NEW h \in Handles, NEW d \in Drivers, NEW r \in Nat, NEW b \in BOOLEAN,
           Load(h, d, r, b)
    PROVE  /\ drv' \in [Handles -> Drivers] /\ wa' \in [Handles -> WorkAreas]
           /\ \A g \in Handles \ {h} : drv'[g] = drv[g] /\ wa'[g] = wa[g]
           /\ drv'[h].open = d.open /\ drv'[h].count \in {d.count, file.count}
           /\ \/ wa'[h] = wa[h]
              \/ CanRead(d, r) /\ wa'[h].rec = r /\ wa'[h].buf = RowRead(d, r) /\ wa'[h].fresh = b
<1>1. /\ file \in Files /\ drv \in [Handles -> Drivers] /\ wa \in [Handles -> WorkAreas]
    BY DEF Shape
<1>2. /\ AfterRead(d, r) \in Drivers /\ AfterRead(d, r).open = d.open
      /\ AfterRead(d, r).count \in {d.count, file.count}
      /\ drv' = [drv EXCEPT ![h] = AfterRead(d, r)]
    BY <1>1, ReadingDriver DEF Load
<1>3. /\ drv' \in [Handles -> Drivers] /\ drv'[h] = AfterRead(d, r)
      /\ \A g \in Handles \ {h} : drv'[g] = drv[g]
    BY <1>1, <1>2
<1>4. CASE CanRead(d, r)
  <2> DEFINE w == [rec |-> r, buf |-> RowRead(d, r), fresh |-> b]
  <2>1. RowRead(d, r) \in Row /\ r \in 0..MaxRows
    BY <1>1, <1>4, ReadsRow
  <2>2. w \in WorkAreas /\ w.rec = r /\ w.buf = RowRead(d, r) /\ w.fresh = b
    BY <2>1 DEF WorkAreas
  <2>3. wa' = [wa EXCEPT ![h] = w]
    BY <1>4 DEF Load
  <2> HIDE DEF w
  <2>4. /\ wa' \in [Handles -> WorkAreas] /\ wa'[h] = w
        /\ \A g \in Handles \ {h} : wa'[g] = wa[g]
    BY <1>1, <2>2, <2>3
  <2> QED
    BY <1>2, <1>3, <1>4, <2>2, <2>4
<1>5. CASE ~CanRead(d, r)
  <2>1. wa' = wa
    BY <1>5 DEF Load
  <2> QED
    BY <1>1, <1>2, <1>3, <2>1
<1> QED
    BY <1>4, <1>5

\* One handle's records change.
LEMMA OneDriver ==
    ASSUME drv \in [Handles -> Drivers], NEW h \in Handles, NEW d \in Drivers,
           drv' = [drv EXCEPT ![h] = d]
    PROVE  /\ drv' \in [Handles -> Drivers] /\ drv'[h] = d
           /\ \A g \in Handles \ {h} : drv'[g] = drv[g]
OBVIOUS

LEMMA OneWorkArea ==
    ASSUME wa \in [Handles -> WorkAreas], NEW h \in Handles, NEW w \in WorkAreas,
           wa' = [wa EXCEPT ![h] = w]
    PROVE  /\ wa' \in [Handles -> WorkAreas] /\ wa'[h] = w
           /\ \A g \in Handles \ {h} : wa'[g] = wa[g]
OBVIOUS

LEMMA OneCall ==
    ASSUME call \in [Handles -> Calls], NEW h \in Handles, NEW c \in Calls,
           call' = [call EXCEPT ![h] = c]
    PROVE  /\ call' \in [Handles -> Calls] /\ call'[h] = c
           /\ \A g \in Handles \ {h} : call'[g] = call[g]
OBVIOUS

\* The work areas a handle may be in.
LEMMA SomeWorkAreas ==
    /\ Nowhere \in WorkAreas /\ Nowhere.rec = 0 /\ Nowhere.fresh = FALSE
    /\ \A w \in WorkAreas : /\ \A row \in Row : [w EXCEPT !.buf = row] \in WorkAreas
                            /\ [w EXCEPT !.rec = 0, !.fresh = FALSE] \in WorkAreas
                            /\ \A b \in BOOLEAN : [w EXCEPT !.fresh = b] \in WorkAreas
<1>1. FreshRow(0) \in Row
    BY NewRow
<1>2. Nowhere \in WorkAreas /\ Nowhere.rec = 0 /\ Nowhere.fresh = FALSE
    BY <1>1, SharedTableAssumption DEF WorkAreas, Nowhere
<1>3. ASSUME NEW w \in WorkAreas
      PROVE  /\ \A row \in Row : [w EXCEPT !.buf = row] \in WorkAreas
             /\ [w EXCEPT !.rec = 0, !.fresh = FALSE] \in WorkAreas
             /\ \A b \in BOOLEAN : [w EXCEPT !.fresh = b] \in WorkAreas
  <2>1. 0 \in 0..MaxRows
    BY SharedTableAssumption
  <2> QED
    BY <2>1 DEF WorkAreas
<1> QED
    BY <1>2, <1>3

\* The calls it may be in.
LEMMA SomeCalls ==
    /\ Idle \in Calls /\ Idle.op = "idle"
    /\ \A n \in Nat : [op |-> "append", num |-> n] \in Calls
    /\ \A n \in Nat, r \in Recs : [op |-> "header", rec |-> r, num |-> n] \in Calls
    /\ \A q \in Seq(Row) : [op |-> "pack", todo |-> q] \in Calls
BY DEF Calls, Idle

\* What a call carries.
LEMMA CallShape ==
    ASSUME NEW c \in Calls
    PROVE  /\ c.op = "append" => c.num \in Nat
           /\ c.op = "header" => c.num \in Nat /\ c.rec \in Recs
           /\ c.op = "pack" => c.todo \in Seq(Row)
BY DEF Calls

\* What a pack has still to append is taken from the list.
LEMMA PackCall ==
    ASSUME NEW c \in Calls, c.op = "pack", NEW q \in Seq(Row)
    PROVE  [c EXCEPT !.todo = q] = [op |-> "pack", todo |-> q]
<1>1. c \in [op : {"pack"}, todo : Seq(Row)]
    BY DEF Calls
<1> QED
    BY <1>1

\* The files after a change of a part.
LEMMA SomeFiles ==
    ASSUME NEW x \in Files
    PROVE  /\ x.count \in 0..MaxRows /\ x.rows \in RowMaps /\ x.next \in Nat
           /\ \A n \in Nat : /\ [x EXCEPT !.next = n] \in Files
                             /\ [x EXCEPT !.next = n].count = x.count
                             /\ [x EXCEPT !.next = n].rows = x.rows
BY DEF Files

LEMMA FileRows ==
    ASSUME file \in Files, NEW g \in RowMaps, file' = [file EXCEPT !.rows = g]
    PROVE  file' \in Files /\ file'.rows = g /\ file'.count = file.count
BY DEF Files

LEMMA FileCount ==
    ASSUME file \in Files, NEW n \in 0..MaxRows, file' = [file EXCEPT !.count = n]
    PROVE  file' \in Files /\ file'.rows = file.rows /\ file'.count = n
BY DEF Files

LEMMA FileCountAndRows ==
    ASSUME file \in Files, NEW n \in 0..MaxRows, NEW g \in RowMaps,
           file' = [file EXCEPT !.count = n, !.rows = g]
    PROVE  file' \in Files /\ file'.rows = g /\ file'.count = n
BY DEF Files

LEMMA SomeDrivers ==
    ASSUME NEW d \in Drivers
    PROVE  /\ d.open \in BOOLEAN /\ d.count \in 0..MaxRows /\ d.next \in Nat /\ d.mnext \in Nat
           /\ \A n \in 0..MaxRows : /\ [d EXCEPT !.count = n] \in Drivers
                                    /\ [d EXCEPT !.count = n].count = n
                                    /\ [d EXCEPT !.count = n].open = d.open
           /\ \A n \in Nat : /\ [d EXCEPT !.next = n] \in Drivers
                             /\ [d EXCEPT !.next = n].count = d.count
                             /\ [d EXCEPT !.next = n].open = d.open
                             /\ [d EXCEPT !.mnext = n] \in Drivers
                             /\ [d EXCEPT !.mnext = n].count = d.count
                             /\ [d EXCEPT !.mnext = n].open = d.open
BY DEF Drivers

\* The counter an ADT table starts from.
LEMMA SeedIsNumber ==
    ASSUME file \in Files
    PROVE  SeedFromRows \in Nat
<1> DEFINE on == {x \in 1..file.count : OnDisk(x)}
           seen == {file.rows[r].num : r \in on}
           P == {n \in Nat : \E b \in Nat : \A r \in on : r <= n => file.rows[r].num <= b}
<1>1. \A r \in on : file.rows[r].num \in Nat
  <2>1. \A r \in on : file.rows[r] \in Row
    BY SomeFiles, RowMapShape DEF OnDisk
  <2> QED
    BY <2>1 DEF Row
<1>2. on \in SUBSET (Nat \ {0}) /\ file.count \in Nat /\ \A r \in on : r <= file.count
  <2>1. file.count \in 0..MaxRows /\ MaxRows \in Nat
    BY SharedTableAssumption DEF Files
  <2> QED
    BY <2>1
<1> HIDE DEF on
<1>3. 0 \in P
  <2>1. \A r \in on : ~(r <= 0)
    BY <1>2
  <2> QED
    BY <2>1
<1>4. ASSUME NEW n \in Nat, n \in P PROVE n + 1 \in P
  <2>1. PICK b \in Nat : \A r \in on : r <= n => file.rows[r].num <= b
    BY <1>4
  <2>2. \A r \in on : r <= n + 1 => r <= n \/ r = n + 1
    BY <1>2
  <2>3. CASE n + 1 \in on
    <3>1. PICK c \in Nat : b <= c /\ file.rows[n + 1].num <= c
      <4>1. file.rows[n + 1].num \in Nat
        BY <1>1, <2>3
      <4> QED
        BY <4>1
    <3>2. \A r \in on : r <= n + 1 => file.rows[r].num <= c
      BY <1>1, <2>1, <2>2, <3>1
    <3> QED
      BY <3>2
  <2>4. CASE n + 1 \notin on
    <3>1. \A r \in on : r <= n + 1 => file.rows[r].num <= b
      BY <2>1, <2>2, <2>4
    <3> QED
      BY <3>1
  <2> QED
    BY <2>3, <2>4
<1> HIDE DEF P
<1>5. file.count \in P
    BY <1>2, <1>3, <1>4, SetInduction
<1>6. PICK b \in Nat : \A r \in on : file.rows[r].num <= b
    BY <1>2, <1>5 DEF P
<1>7. seen \in SUBSET Int /\ \A x \in seen : x <= b /\ x \in Nat
    BY <1>1, <1>6
<1>8. SeedFromRows = IF seen = {} THEN 1 ELSE Max(seen) + 1
    BY DEF SeedFromRows, on
<1> HIDE DEF seen
<1>9. ASSUME seen # {} PROVE Max(seen) \in Nat
  <2>1. Max(seen) \in seen
    BY <1>7, <1>9, MaxOfSet
  <2> QED
    BY <1>7, <2>1
<1> QED
    BY <1>8, <1>9

\* Blocks are counted in natural numbers.
LEMMA BlocksAreNumbers ==
    ASSUME kind \in Kinds, NEW n \in Nat
    PROVE  BlocksFor(n) \in Nat
<1> USE SharedTableAssumption
<1>1. \A m \in Nat : Ceil(m, BlockUnits) \in Nat
    BY DEF Ceil
<1>2. AdmBlocks(n) \in Nat
  <2> DEFINE c == Ceil(n, BlockUnits)
  <2>1. c \in Nat
    BY <1>1
  <2> HIDE DEF c
  <2>2. {1, c} \in SUBSET Int /\ {1, c} # {} /\ 1 + c \in Int /\ \A x \in {1, c} : x <= 1 + c
    BY <2>1
  <2>3. Max({1, c}) \in {1, c}
    BY <2>2, MaxOfSet
  <2> QED
    BY <2>1, <2>3 DEF AdmBlocks, c
<1>3. FptBlocks(n) \in Nat /\ DbtBlocks(n) \in Nat
    BY <1>1 DEF FptBlocks, DbtBlocks
<1> QED
    BY <1>2, <1>3 DEF BlocksFor

\* The blank state.
LEMMA InitShape ==
    Init => Shape
<1> SUFFICES ASSUME Init PROVE Shape
    OBVIOUS
<1> USE SharedTableAssumption
<1>1. file \in Files /\ truth \in RowMaps
    BY NoRows DEF Init, Files
<1>2. Closed \in Drivers
    BY NoRows DEF Closed, Drivers, NoBlock
<1>3. memo.next \in Nat /\ kind \in Kinds /\ header \in Handles \cup {NoHandle}
    BY DEF Init
<1>4. owner \in [Recs -> Handles \cup {NoHandle}] /\ drv \in [Handles -> Drivers]
      /\ wa \in [Handles -> WorkAreas] /\ call \in [Handles -> Calls]
    BY <1>2, SomeWorkAreas, SomeCalls DEF Init
<1> QED
    BY <1>1, <1>3, <1>4 DEF Shape

LEMMA OpenShape ==
    ASSUME Shape, NEW h \in Handles, Open(h)
    PROVE  /\ Shape' /\ drv'[h].count = file.count /\ drv'[h].open
           /\ \A g \in Handles \ {h} : drv'[g] = drv[g] /\ wa'[g] = wa[g]
           /\ wa'[h] = Nowhere
<1>1. /\ drv \in [Handles -> Drivers] /\ wa \in [Handles -> WorkAreas] /\ file \in Files
      /\ UNCHANGED <<kind, file, memo, header, owner, call, truth>>
      /\ wa' = [wa EXCEPT ![h] = Nowhere]
    BY DEF Shape, Open
<1>2. PICK n \in Nat : drv' = [drv EXCEPT ![h] = Opened(n)]
  <2>1. file.next \in Nat /\ SeedFromRows \in Nat /\ 1 \in Nat
    BY <1>1, SomeFiles, SeedIsNumber
  <2> QED
    BY <2>1 DEF Open, DbfOpened, AdtOpened
<1>3. Opened(n) \in Drivers /\ Opened(n).count = file.count /\ Opened(n).open
  <2>1. file.count \in 0..MaxRows /\ memo.next \in Nat
    BY <1>1, SomeFiles DEF Shape
  <2> QED
    BY <2>1, NoRows DEF Opened, Drivers, NoBlock
<1>4. /\ drv' \in [Handles -> Drivers] /\ drv'[h] = Opened(n)
      /\ \A g \in Handles \ {h} : drv'[g] = drv[g]
    BY <1>1, <1>2, <1>3, OneDriver
<1>5. /\ wa' \in [Handles -> WorkAreas] /\ wa'[h] = Nowhere
      /\ \A g \in Handles \ {h} : wa'[g] = wa[g]
    BY <1>1, SomeWorkAreas, OneWorkArea
<1>6. Shape'
    BY <1>1, <1>4, <1>5 DEF Shape
<1> QED
    BY <1>3, <1>4, <1>5, <1>6

LEMMA CloseShape ==
    ASSUME Shape, NEW h \in Handles, Close(h)
    PROVE  /\ Shape' /\ drv'[h].count = 0 /\ drv'[h].open = FALSE
           /\ \A g \in Handles \ {h} : drv'[g] = drv[g] /\ wa'[g] = wa[g]
           /\ wa'[h] = Nowhere
           /\ \A r \in Recs : owner'[r] = IF owner[r] = h THEN NoHandle ELSE owner[r]
<1>1. /\ drv \in [Handles -> Drivers] /\ wa \in [Handles -> WorkAreas]
      /\ owner \in [Recs -> Handles \cup {NoHandle}]
      /\ UNCHANGED <<kind, file, memo, header, call, truth>>
      /\ drv' = [drv EXCEPT ![h] = Closed] /\ wa' = [wa EXCEPT ![h] = Nowhere]
      /\ owner' = [r \in Recs |-> IF owner[r] = h THEN NoHandle ELSE owner[r]]
    BY DEF Shape, Close
<1>2. Closed \in Drivers /\ Closed.count = 0 /\ Closed.open = FALSE
    BY NoRows, SharedTableAssumption DEF Closed, Drivers, NoBlock
<1>3. /\ drv' \in [Handles -> Drivers] /\ drv'[h] = Closed
      /\ \A g \in Handles \ {h} : drv'[g] = drv[g]
    BY <1>1, <1>2, OneDriver
<1>4. /\ wa' \in [Handles -> WorkAreas] /\ wa'[h] = Nowhere
      /\ \A g \in Handles \ {h} : wa'[g] = wa[g]
    BY <1>1, SomeWorkAreas, OneWorkArea
<1>5. owner' \in [Recs -> Handles \cup {NoHandle}]
    BY <1>1
<1>6. Shape'
    BY <1>1, <1>3, <1>4, <1>5 DEF Shape
<1> QED
    BY <1>1, <1>2, <1>3, <1>4, <1>6

\* What a call that only reads does.
Browses(h) ==
    /\ drv' \in [Handles -> Drivers] /\ wa' \in [Handles -> WorkAreas]
    /\ \A g \in Handles \ {h} : drv'[g] = drv[g] /\ wa'[g] = wa[g]
    /\ drv'[h].open = drv[h].open /\ drv'[h].count \in {drv[h].count, file.count}
    /\ UNCHANGED <<kind, file, memo, header, call, truth>>

LEMMA GotoBrowses ==
    ASSUME Shape, NEW h \in Handles, NEW r \in Recs, GotoRecord(h, r)
    PROVE  /\ Browses(h) /\ owner' = owner
           /\ \/ wa'[h] = wa[h] \/ wa'[h].rec = 0
              \/ /\ r <= drv[h].count /\ wa'[h].rec = r /\ wa'[h].fresh = (owner[r] = h)
                 /\ kind # "ntx" => wa'[h].buf = file.rows[r]
<1> DEFINE d == Invalidated(drv[h])
           b == owner[r] = h
<1>1. /\ drv \in [Handles -> Drivers] /\ wa \in [Handles -> WorkAreas] /\ file \in Files
      /\ UNCHANGED <<kind, file, memo, header, owner, call, truth>>
    BY DEF Shape, GotoRecord
<1>2. /\ d \in Drivers /\ d.open = drv[h].open /\ d.count = drv[h].count
      /\ kind # "ntx" => d.block = <<>>
      /\ r \in Nat /\ b \in BOOLEAN
    BY <1>1, DroppedDriver DEF Recs
<1>3. /\ r > drv[h].count => /\ wa' = [wa EXCEPT ![h].rec = 0, ![h].fresh = FALSE]
                             /\ drv' = [drv EXCEPT ![h] = d]
      /\ ~(r > drv[h].count) => Load(h, d, r, b)
    BY DEF GotoRecord
<1> HIDE DEF d, b
<1>4. CASE r > drv[h].count
  <2>1. /\ drv' \in [Handles -> Drivers] /\ drv'[h] = d
        /\ \A g \in Handles \ {h} : drv'[g] = drv[g]
    BY <1>1, <1>2, <1>3, <1>4, OneDriver
  <2>2. [wa[h] EXCEPT !.rec = 0, !.fresh = FALSE] \in WorkAreas
        /\ [wa[h] EXCEPT !.rec = 0, !.fresh = FALSE].rec = 0
    <3>1. wa[h] \in WorkAreas
      BY <1>1
    <3> QED
      BY <3>1, SomeWorkAreas DEF WorkAreas
  <2>3. wa' = [wa EXCEPT ![h] = [wa[h] EXCEPT !.rec = 0, !.fresh = FALSE]]
    BY <1>1, <1>3, <1>4
  <2>4. /\ wa' \in [Handles -> WorkAreas] /\ wa'[h].rec = 0
        /\ \A g \in Handles \ {h} : wa'[g] = wa[g]
    BY <1>1, <2>2, <2>3, OneWorkArea
  <2> QED
    BY <1>1, <1>2, <2>1, <2>4 DEF Browses
<1>5. CASE ~(r > drv[h].count)
  <2>1. /\ drv' \in [Handles -> Drivers] /\ wa' \in [Handles -> WorkAreas]
        /\ \A g \in Handles \ {h} : drv'[g] = drv[g] /\ wa'[g] = wa[g]
        /\ drv'[h].open = d.open /\ drv'[h].count \in {d.count, file.count}
        /\ \/ wa'[h] = wa[h]
           \/ CanRead(d, r) /\ wa'[h].rec = r /\ wa'[h].buf = RowRead(d, r) /\ wa'[h].fresh = b
    BY <1>2, <1>3, <1>5, Loads
  <2>2. CanRead(d, r) /\ kind # "ntx" => RowRead(d, r) = file.rows[r]
    BY <1>1, <1>2, ReadsRow
  <2>3. r <= drv[h].count
    BY <1>1, <1>2, <1>5, SomeDrivers, SharedTableAssumption
  <2> QED
    BY <1>1, <1>2, <2>1, <2>2, <2>3 DEF Browses, b
<1> QED
    BY <1>4, <1>5

LEMMA SkipBrowses ==
    ASSUME Shape, NEW h \in Handles, NEW delta \in {-1, 1}, Skip(h, delta)
    PROVE  /\ Browses(h) /\ owner' = owner
           /\ wa'[h] = wa[h] \/ wa'[h].rec = 0 \/ wa'[h].fresh = FALSE
<1> DEFINE r == wa[h].rec + delta
<1>1. /\ drv \in [Handles -> Drivers] /\ wa \in [Handles -> WorkAreas] /\ file \in Files
      /\ UNCHANGED <<kind, file, memo, header, owner, call, truth>>
    BY DEF Shape, Skip
<1>2. /\ r \in 1..drv[h].count => Load(h, drv[h], r, FALSE)
      /\ ~(r \in 1..drv[h].count) => /\ wa' = [wa EXCEPT ![h].rec = 0, ![h].fresh = FALSE]
                                     /\ drv' = drv
    BY DEF Skip
<1> HIDE DEF r
<1>3. CASE r \in 1..drv[h].count
  <2>1. r \in Nat /\ drv[h] \in Drivers
    BY <1>1, <1>3
  <2>2. /\ drv' \in [Handles -> Drivers] /\ wa' \in [Handles -> WorkAreas]
        /\ \A g \in Handles \ {h} : drv'[g] = drv[g] /\ wa'[g] = wa[g]
        /\ drv'[h].open = drv[h].open /\ drv'[h].count \in {drv[h].count, file.count}
        /\ wa'[h] = wa[h] \/ wa'[h].fresh = FALSE
    BY <1>2, <1>3, <2>1, Loads
  <2> QED
    BY <1>1, <2>2 DEF Browses
<1>4. CASE ~(r \in 1..drv[h].count)
  <2>1. [wa[h] EXCEPT !.rec = 0, !.fresh = FALSE] \in WorkAreas
        /\ [wa[h] EXCEPT !.rec = 0, !.fresh = FALSE].rec = 0
    <3>1. wa[h] \in WorkAreas
      BY <1>1
    <3> QED
      BY <3>1, SomeWorkAreas DEF WorkAreas
  <2>2. wa' = [wa EXCEPT ![h] = [wa[h] EXCEPT !.rec = 0, !.fresh = FALSE]]
    BY <1>1, <1>2, <1>4
  <2>3. /\ wa' \in [Handles -> WorkAreas] /\ wa'[h].rec = 0
        /\ \A g \in Handles \ {h} : wa'[g] = wa[g]
    BY <1>1, <2>1, <2>2, OneWorkArea
  <2> QED
    BY <1>1, <1>2, <1>4, <2>3 DEF Browses
<1> QED
    BY <1>3, <1>4

LEMMA LockBrowses ==
    ASSUME Shape, NEW h \in Handles, NEW r \in Recs, LockRecord(h, r)
    PROVE  /\ Browses(h) /\ owner' \in [Recs -> Handles \cup {NoHandle}]
           /\ owner'[r] = h /\ \A x \in Recs \ {r} : owner'[x] = owner[x]
           /\ wa'[h] = wa[h] \/ wa'[h].fresh = FALSE
<1>1. /\ drv \in [Handles -> Drivers] /\ owner \in [Recs -> Handles \cup {NoHandle}]
      /\ UNCHANGED <<kind, file, memo, header, call, truth>>
      /\ owner' = [owner EXCEPT ![r] = h] /\ Load(h, drv[h], r, FALSE)
    BY DEF Shape, LockRecord
<1>2. r \in Nat /\ drv[h] \in Drivers
    BY <1>1 DEF Recs
<1>3. /\ drv' \in [Handles -> Drivers] /\ wa' \in [Handles -> WorkAreas]
      /\ \A g \in Handles \ {h} : drv'[g] = drv[g] /\ wa'[g] = wa[g]
      /\ drv'[h].open = drv[h].open /\ drv'[h].count \in {drv[h].count, file.count}
      /\ wa'[h] = wa[h] \/ wa'[h].fresh = FALSE
    BY <1>1, <1>2, Loads
<1> QED
    BY <1>1, <1>3 DEF Browses

LEMMA UnlockBrowses ==
    ASSUME Shape, NEW h \in Handles, NEW r \in Recs, UnlockRecord(h, r)
    PROVE  /\ Browses(h) /\ owner' \in [Recs -> Handles \cup {NoHandle}]
           /\ owner[r] = h /\ \A x \in Recs \ {r} : owner'[x] = owner[x]
           /\ wa'[h].fresh => wa'[h] = wa[h] /\ wa[h].rec # r
<1> DEFINE b == wa[h].fresh /\ wa[h].rec # r
<1>1. /\ drv \in [Handles -> Drivers] /\ wa \in [Handles -> WorkAreas]
      /\ owner \in [Recs -> Handles \cup {NoHandle}] /\ owner[r] = h
      /\ UNCHANGED <<kind, file, memo, header, drv, call, truth>>
      /\ owner' = [owner EXCEPT ![r] = NoHandle]
      /\ wa' = [wa EXCEPT ![h] = [wa[h] EXCEPT !.fresh = b]]
    BY DEF Shape, UnlockRecord
<1>2. wa[h] \in WorkAreas /\ b \in BOOLEAN
    BY <1>1
<1>3. [wa[h] EXCEPT !.fresh = b] \in WorkAreas /\ [wa[h] EXCEPT !.fresh = b].fresh = b
      /\ (b => [wa[h] EXCEPT !.fresh = b] = wa[h])
    BY <1>2 DEF WorkAreas
<1> HIDE DEF b
<1>4. /\ wa' \in [Handles -> WorkAreas] /\ wa'[h] = [wa[h] EXCEPT !.fresh = b]
      /\ \A g \in Handles \ {h} : wa'[g] = wa[g]
    BY <1>1, <1>3, OneWorkArea
<1>5. wa'[h].fresh => wa'[h] = wa[h] /\ wa[h].rec # r
    BY <1>3, <1>4 DEF b
<1> QED
    BY <1>1, <1>4, <1>5 DEF Browses

\* A call that only reads keeps the shape.
LEMMA BrowsesShape ==
    ASSUME Shape, NEW h \in Handles, Browses(h), owner' \in [Recs -> Handles \cup {NoHandle}]
    PROVE  Shape'
BY DEF Shape, Browses

\* What a write of the buffer does: row goes to the file, and true to the rows
\* as they should be; they are the same when the buffer was.
Writes(h, row, true) ==
    LET r == wa[h].rec IN
    /\ drv' \in [Handles -> Drivers] /\ wa' \in [Handles -> WorkAreas]
    /\ \A g \in Handles \ {h} : drv'[g] = drv[g] /\ wa'[g] = wa[g]
    /\ drv'[h].open = drv[h].open /\ drv'[h].count \in {drv[h].count, file.count}
    /\ wa'[h].rec = r /\ wa'[h].fresh = wa[h].fresh /\ wa'[h].buf = row
    /\ r \in Recs /\ row \in Row
    /\ file' = [file EXCEPT !.rows = Put(file.rows, r, row)]
    /\ truth' = [truth EXCEPT ![r] = true]
    /\ r \in DOMAIN truth => true \in Row /\ (wa[h].buf = truth[r] => true = row)
    /\ UNCHANGED <<kind, header, owner, call>>

\* The driver and the work area of a write.
LEMMA WritesRow ==
    ASSUME Shape, NEW h \in Handles, wa[h].rec > 0, NEW d \in Drivers,
           d.open = drv[h].open, d.count = drv[h].count, CanWrite(d, wa[h].rec),
           NEW row \in Row, drv' = [drv EXCEPT ![h] = Written(d, wa[h].rec)],
           wa' = [wa EXCEPT ![h].buf = row]
    PROVE  /\ drv' \in [Handles -> Drivers] /\ wa' \in [Handles -> WorkAreas]
           /\ \A g \in Handles \ {h} : drv'[g] = drv[g] /\ wa'[g] = wa[g]
           /\ drv'[h].open = drv[h].open /\ drv'[h].count \in {drv[h].count, file.count}
           /\ wa'[h].rec = wa[h].rec /\ wa'[h].fresh = wa[h].fresh /\ wa'[h].buf = row
           /\ wa[h].rec \in Recs
<1> USE SharedTableAssumption
<1> DEFINE r == wa[h].rec
           n == CountFor(d, r)
           w == [wa[h] EXCEPT !.buf = row]
<1>1. /\ file \in Files /\ drv \in [Handles -> Drivers] /\ wa \in [Handles -> WorkAreas]
      /\ wa[h] \in WorkAreas
    BY DEF Shape
<1>2. r \in Recs
    BY <1>1 DEF WorkAreas, Recs
<1>3. n \in {drv[h].count, file.count} /\ n \in 0..MaxRows
  <2>1. r \in Nat
    BY <1>2 DEF Recs
  <2> HIDE DEF r
  <2>2. n \in {d.count, file.count}
    BY <1>1, <2>1, ReadingDriver
  <2> QED
    BY <1>1, <2>2 DEF Files, Drivers
<1>4. /\ Written(d, r) \in Drivers /\ Written(d, r).open = drv[h].open /\ Written(d, r).count = n
  <2> HIDE DEF n, r
  <2>1. Written(d, r) = [Dropped(d) EXCEPT !.count = n]
    BY DEF Written, n
  <2> QED
    BY <1>3, <2>1, DroppedDriver, SomeDrivers
<1>5. /\ drv' \in [Handles -> Drivers] /\ drv'[h] = Written(d, r)
      /\ \A g \in Handles \ {h} : drv'[g] = drv[g]
    BY <1>1, <1>4, OneDriver
<1>6. w \in WorkAreas /\ w.rec = r /\ w.fresh = wa[h].fresh /\ w.buf = row
    BY <1>1 DEF WorkAreas
<1>7. wa' = [wa EXCEPT ![h] = w]
    BY <1>1
<1> HIDE DEF w
<1>8. /\ wa' \in [Handles -> WorkAreas] /\ wa'[h] = w
      /\ \A g \in Handles \ {h} : wa'[g] = wa[g]
    BY <1>1, <1>6, <1>7, OneWorkArea
<1> QED
    BY <1>2, <1>3, <1>4, <1>5, <1>6, <1>8

LEMMA SetFieldWrites ==
    ASSUME Shape, NEW h \in Handles, NEW x \in Fields, NEW v \in Values, SetField(h, x, v)
    PROVE  \E row, true : Writes(h, row, true) /\ memo' = memo
<1> DEFINE r == wa[h].rec
           row == [wa[h].buf EXCEPT !.f[x] = v]
           true == [truth[r] EXCEPT !.f[x] = v]
<1>1. /\ drv \in [Handles -> Drivers] /\ wa \in [Handles -> WorkAreas] /\ truth \in RowMaps
      /\ UNCHANGED <<kind, memo, header, owner, call>>
      /\ r > 0 /\ CanWrite(drv[h], r)
      /\ file' = [file EXCEPT !.rows = Put(file.rows, r, row)]
      /\ drv' = [drv EXCEPT ![h] = Written(drv[h], r)] /\ wa' = [wa EXCEPT ![h].buf = row]
      /\ truth' = [truth EXCEPT ![r].f[x] = v]
    BY DEF Shape, SetField, MayWrite, WriteRow
<1>2. truth' = [truth EXCEPT ![r] = true]
    BY <1>1
<1>3. row \in Row
  <2>1. wa[h].buf \in Row
    BY <1>1 DEF WorkAreas
  <2> QED
    BY <2>1, WrittenRow
<1>4. r \in DOMAIN truth => true \in Row /\ (wa[h].buf = truth[r] => true = row)
  <2>1. r \in DOMAIN truth => truth[r] \in Row
    BY <1>1, RowMapShape
  <2> QED
    BY <2>1, WrittenRow
<1> HIDE DEF row, true
<1>5. /\ drv' \in [Handles -> Drivers] /\ wa' \in [Handles -> WorkAreas]
      /\ \A g \in Handles \ {h} : drv'[g] = drv[g] /\ wa'[g] = wa[g]
      /\ drv'[h].open = drv[h].open /\ drv'[h].count \in {drv[h].count, file.count}
      /\ wa'[h].rec = r /\ wa'[h].fresh = wa[h].fresh /\ wa'[h].buf = row
      /\ r \in Recs
    BY <1>1, <1>3, WritesRow
<1> QED
    BY <1>1, <1>2, <1>3, <1>4, <1>5 DEF Writes

LEMMA MarkDeletedWrites ==
    ASSUME Shape, NEW h \in Handles, NEW b \in BOOLEAN, MarkDeleted(h, b)
    PROVE  \E row, true : Writes(h, row, true) /\ memo' = memo
<1> DEFINE r == wa[h].rec
           row == [wa[h].buf EXCEPT !.del = b]
           true == [truth[r] EXCEPT !.del = b]
<1>1. /\ drv \in [Handles -> Drivers] /\ wa \in [Handles -> WorkAreas] /\ truth \in RowMaps
      /\ UNCHANGED <<kind, memo, header, owner, call>>
      /\ r > 0 /\ CanWrite(drv[h], r)
      /\ file' = [file EXCEPT !.rows = Put(file.rows, r, row)]
      /\ drv' = [drv EXCEPT ![h] = Written(drv[h], r)] /\ wa' = [wa EXCEPT ![h].buf = row]
      /\ truth' = [truth EXCEPT ![r].del = b]
    BY DEF Shape, MarkDeleted, MayWrite, WriteRow
<1>2. truth' = [truth EXCEPT ![r] = true]
    BY <1>1
<1>3. row \in Row
  <2>1. wa[h].buf \in Row
    BY <1>1 DEF WorkAreas
  <2> QED
    BY <2>1, WrittenRow
<1>4. r \in DOMAIN truth => true \in Row /\ (wa[h].buf = truth[r] => true = row)
  <2>1. r \in DOMAIN truth => truth[r] \in Row
    BY <1>1, RowMapShape
  <2> QED
    BY <2>1, WrittenRow
<1> HIDE DEF row, true
<1>5. /\ drv' \in [Handles -> Drivers] /\ wa' \in [Handles -> WorkAreas]
      /\ \A g \in Handles \ {h} : drv'[g] = drv[g] /\ wa'[g] = wa[g]
      /\ drv'[h].open = drv[h].open /\ drv'[h].count \in {drv[h].count, file.count}
      /\ wa'[h].rec = r /\ wa'[h].fresh = wa[h].fresh /\ wa'[h].buf = row
      /\ r \in Recs
    BY <1>1, <1>3, WritesRow
<1> QED
    BY <1>1, <1>2, <1>3, <1>4, <1>5 DEF Writes

LEMMA SetMemoWrites ==
    ASSUME Shape, NEW h \in Handles, NEW n \in MemoSizes, SetMemo(h, n)
    PROVE  \E row, true : Writes(h, row, true) /\ memo'.next \in Nat
<1> USE SharedTableAssumption
<1> DEFINE r == wa[h].rec
           start == drv[h].mnext
           ref == [block |-> start, len |-> n]
           d == [drv[h] EXCEPT !.mnext = start + BlocksFor(n)]
           row == [wa[h].buf EXCEPT !.memo = ref]
           true == [truth[r] EXCEPT !.memo = ref]
<1>1. /\ drv \in [Handles -> Drivers] /\ wa \in [Handles -> WorkAreas] /\ truth \in RowMaps
      /\ kind \in Kinds
      /\ UNCHANGED <<kind, header, owner, call>>
      /\ r > 0 /\ CanWrite(d, r)
      /\ file' = [file EXCEPT !.rows = Put(file.rows, r, row)]
      /\ drv' = [drv EXCEPT ![h] = Written(d, r)] /\ wa' = [wa EXCEPT ![h].buf = row]
      /\ truth' = [truth EXCEPT ![r].memo = ref]
      /\ memo' = MemoWrite(start, Payload(h, n))
    BY DEF Shape, SetMemo, MayWrite
<1>2. truth' = [truth EXCEPT ![r] = true]
    BY <1>1
<1>3. start \in Nat /\ ref \in [block : Nat, len : Nat] /\ n \in Nat
    BY <1>1, SomeDrivers
<1>4. row \in Row
  <2>1. wa[h].buf \in Row
    BY <1>1 DEF WorkAreas
  <2> QED
    BY <1>3, <2>1, WrittenRow
<1>5. r \in DOMAIN truth => true \in Row /\ (wa[h].buf = truth[r] => true = row)
  <2>1. r \in DOMAIN truth => truth[r] \in Row
    BY <1>1, RowMapShape
  <2> QED
    BY <1>3, <2>1, WrittenRow
<1>6. memo'.next \in Nat
  <2>1. Len(Payload(h, n)) = n
    BY <1>3 DEF Payload
  <2>2. memo'.next = start + BlocksFor(n)
    BY <1>1, <2>1 DEF MemoWrite, MemoNext
  <2> QED
    BY <1>1, <1>3, <2>2, BlocksAreNumbers
<1>7. d \in Drivers /\ d.open = drv[h].open /\ d.count = drv[h].count
  <2>1. start + BlocksFor(n) \in Nat
    BY <1>1, <1>3, BlocksAreNumbers
  <2> HIDE DEF start
  <2> QED
    BY <1>1, <2>1, SomeDrivers
<1> HIDE DEF row, true, d, ref
<1>8. /\ drv' \in [Handles -> Drivers] /\ wa' \in [Handles -> WorkAreas]
      /\ \A g \in Handles \ {h} : drv'[g] = drv[g] /\ wa'[g] = wa[g]
      /\ drv'[h].open = drv[h].open /\ drv'[h].count \in {drv[h].count, file.count}
      /\ wa'[h].rec = r /\ wa'[h].fresh = wa[h].fresh /\ wa'[h].buf = row
      /\ r \in Recs
    BY <1>1, <1>4, <1>7, WritesRow
<1> QED
    BY <1>1, <1>2, <1>4, <1>5, <1>6, <1>8 DEF Writes

\* A write keeps the shape.
LEMMA WritesShape ==
    ASSUME Shape, NEW h \in Handles, NEW row, NEW true, Writes(h, row, true), memo'.next \in Nat
    PROVE  Shape'
<1> DEFINE r == wa[h].rec
<1>1. /\ file \in Files /\ truth \in RowMaps /\ r \in Recs /\ row \in Row
      /\ file' = [file EXCEPT !.rows = Put(file.rows, r, row)]
      /\ truth' = [truth EXCEPT ![r] = true] /\ (r \in DOMAIN truth => true \in Row)
    BY DEF Shape, Writes
<1>2. file' \in Files
  <2>1. file.rows \in RowMaps
    BY <1>1, SomeFiles
  <2>2. Put(file.rows, r, row) \in RowMaps
    BY <1>1, <2>1, PutRow
  <2> QED
    BY <1>1, <2>2, FileRows
<1>3. truth' \in RowMaps
  <2>1. CASE r \in DOMAIN truth
    BY <1>1, <2>1, ChangeRow
  <2>2. CASE r \notin DOMAIN truth
    <3>1. truth' = truth
      BY <1>1, <2>2, RowMapShape
    <3> QED
      BY <1>1, <3>1
  <2> QED
    BY <2>1, <2>2
<1> QED
    BY <1>2, <1>3 DEF Shape, Writes

\* An append begins: the counter may move, nothing else.
LEMMA AppendRecordShape ==
    ASSUME Shape, NEW h \in Handles, AppendRecord(h)
    PROVE  /\ Shape' /\ drv'[h].open = drv[h].open /\ drv'[h].count = drv[h].count
           /\ \A g \in Handles \ {h} : drv'[g] = drv[g] /\ call'[g] = call[g]
           /\ call[h].op = "idle" /\ call'[h].op = "append"
           /\ file'.count = file.count /\ file'.rows = file.rows
           /\ UNCHANGED <<kind, header, owner, wa, truth>>
<1> DEFINE n == drv[h].next
           c == [op |-> "append", num |-> IF Numbered THEN n ELSE 0]
<1>1. /\ drv \in [Handles -> Drivers] /\ file \in Files /\ call \in [Handles -> Calls]
      /\ drv[h] \in Drivers /\ drv[h].open /\ call[h].op = "idle"
      /\ UNCHANGED <<kind, memo, header, owner, wa, truth>>
      /\ call' = [call EXCEPT ![h] = c]
      /\ drv' = IF Numbered THEN [drv EXCEPT ![h] = [drv[h] EXCEPT !.next = n + 1]] ELSE drv
      /\ file' = IF Numbered /\ kind = "cdx" THEN [file EXCEPT !.next = n + 1] ELSE file
    BY DEF Shape, AppendRecord, Ready, CdxBumped
<1>2. n \in Nat /\ n + 1 \in Nat /\ c \in Calls /\ c.op = "append"
  <2>1. n \in Nat
    BY <1>1, SomeDrivers
  <2>2. (IF Numbered THEN n ELSE 0) \in Nat
    BY <2>1
  <2> QED
    BY <2>1, <2>2, SomeCalls
<1>3. /\ call' \in [Handles -> Calls] /\ call'[h] = c
      /\ \A g \in Handles \ {h} : call'[g] = call[g]
  <2> HIDE DEF c
  <2> QED
    BY <1>1, <1>2, OneCall
<1> HIDE DEF n
<1>4. file' \in Files /\ file'.count = file.count /\ file'.rows = file.rows
  <2>1. CASE Numbered /\ kind = "cdx"
    BY <1>1, <1>2, <2>1, SomeFiles
  <2>2. CASE ~(Numbered /\ kind = "cdx")
    BY <1>1, <2>2
  <2> QED
    BY <2>1, <2>2
<1>5. /\ drv' \in [Handles -> Drivers] /\ \A g \in Handles \ {h} : drv'[g] = drv[g]
      /\ drv'[h].open = drv[h].open /\ drv'[h].count = drv[h].count
  <2> DEFINE d == [drv[h] EXCEPT !.next = n + 1]
  <2>1. d \in Drivers /\ d.open = drv[h].open /\ d.count = drv[h].count
    BY <1>1, <1>2, SomeDrivers
  <2>2. CASE Numbered
    <3>1. drv' = [drv EXCEPT ![h] = d]
      BY <1>1, <2>2
    <3> HIDE DEF d
    <3> QED
      BY <1>1, <2>1, <3>1, OneDriver
  <2>3. CASE ~Numbered
    BY <1>1, <2>3
  <2> QED
    BY <2>2, <2>3
<1>6. Shape'
    BY <1>1, <1>3, <1>4, <1>5 DEF Shape
<1> QED
    BY <1>1, <1>2, <1>3, <1>4, <1>5, <1>6

\* The row is behind the others, under the header lock.
LEMMA AppendRowShape ==
    ASSUME Shape, NEW h \in Handles, AppendRow(h)
    PROVE  /\ Shape' /\ drv'[h].open = drv[h].open /\ drv'[h].count = file.count + 1
           /\ \A g \in Handles \ {h} : drv'[g] = drv[g] /\ call'[g] = call[g]
           /\ call[h].op = "append" /\ call'[h].op = "header"
           /\ call'[h].rec = file.count + 1 /\ call'[h].num \in Nat
           /\ header = NoHandle /\ header' = h /\ file'.count = file.count
           /\ DOMAIN file'.rows = DOMAIN file.rows \cup {file.count + 1}
           /\ file'.rows[file.count + 1] = FreshRow(call'[h].num)
           /\ \A x \in DOMAIN file.rows : x # file.count + 1 => file'.rows[x] = file.rows[x]
           /\ UNCHANGED <<kind, owner, wa, truth>>
<1> USE SharedTableAssumption
<1> DEFINE r == file.count + 1
           row == FreshRow(call[h].num)
           d == [Dropped(drv[h]) EXCEPT !.count = r]
           c == [op |-> "header", rec |-> r, num |-> call[h].num]
<1>1. /\ drv \in [Handles -> Drivers] /\ file \in Files /\ call \in [Handles -> Calls]
      /\ call[h].op = "append" /\ header = NoHandle /\ header' = h /\ file.count < MaxRows
      /\ file' = [file EXCEPT !.rows = Put(file.rows, r, row)]
      /\ drv' = [drv EXCEPT ![h] = d] /\ call' = [call EXCEPT ![h] = c]
      /\ UNCHANGED <<kind, memo, owner, wa, truth>>
    BY DEF Shape, AppendRow, Behind
<1>2. call[h].num \in Nat /\ r \in Recs /\ r \in 0..MaxRows /\ row \in Row
  <2>1. call[h].num \in Nat
    BY <1>1, CallShape
  <2>2. file.count \in 0..MaxRows
    BY <1>1 DEF Files
  <2> QED
    BY <1>1, <2>1, <2>2, NewRow DEF Recs
<1>3. d \in Drivers /\ d.open = drv[h].open /\ d.count = r
  <2> HIDE DEF r
  <2> QED
    BY <1>1, <1>2, DroppedDriver, SomeDrivers
<1>4. c \in Calls /\ c.op = "header" /\ c.rec = r /\ c.num = call[h].num
  <2> HIDE DEF r
  <2> QED
    BY <1>2, SomeCalls
<1>5. /\ file' \in Files /\ file'.count = file.count
      /\ DOMAIN file'.rows = DOMAIN file.rows \cup {r} /\ file'.rows[r] = row
      /\ \A x \in DOMAIN file.rows : x # r => file'.rows[x] = file.rows[x]
  <2> HIDE DEF r, row
  <2>1. file.rows \in RowMaps
    BY <1>1, SomeFiles
  <2>2. /\ Put(file.rows, r, row) \in RowMaps
        /\ DOMAIN Put(file.rows, r, row) = DOMAIN file.rows \cup {r}
        /\ Put(file.rows, r, row)[r] = row
        /\ \A x \in DOMAIN file.rows : x # r => Put(file.rows, r, row)[x] = file.rows[x]
    BY <1>2, <2>1, PutRow
  <2>3. file' \in Files /\ file'.count = file.count /\ file'.rows = Put(file.rows, r, row)
    BY <1>1, <2>2, FileRows
  <2> QED
    BY <2>2, <2>3
<1> HIDE DEF d, c, r
<1>6. /\ drv' \in [Handles -> Drivers] /\ drv'[h] = d
      /\ \A g \in Handles \ {h} : drv'[g] = drv[g]
    BY <1>1, <1>3, OneDriver
<1>7. /\ call' \in [Handles -> Calls] /\ call'[h] = c
      /\ \A g \in Handles \ {h} : call'[g] = call[g]
    BY <1>1, <1>4, OneCall
<1>8. Shape'
    BY <1>1, <1>5, <1>6, <1>7 DEF Shape
<1> QED
    BY <1>1, <1>2, <1>3, <1>4, <1>5, <1>6, <1>7, <1>8 DEF r

LEMMA AppendRefusedShape ==
    ASSUME Shape, NEW h \in Handles, AppendRefused(h)
    PROVE  /\ Shape' /\ call[h].op = "append" /\ call'[h].op = "idle"
           /\ \A g \in Handles \ {h} : call'[g] = call[g]
           /\ UNCHANGED <<kind, file, header, owner, drv, wa, truth>>
<1>1. /\ call \in [Handles -> Calls] /\ call[h].op = "append"
      /\ call' = [call EXCEPT ![h] = Idle]
      /\ UNCHANGED <<kind, file, memo, header, owner, drv, wa, truth>>
    BY DEF Shape, AppendRefused
<1>2. /\ call' \in [Handles -> Calls] /\ call'[h] = Idle
      /\ \A g \in Handles \ {h} : call'[g] = call[g]
    BY <1>1, SomeCalls, OneCall
<1> QED
    BY <1>1, <1>2, SomeCalls DEF Shape

\* The header counts the row, which is locked if nobody holds it.
LEMMA AppendHeaderShape ==
    ASSUME Shape, NEW h \in Handles, AppendHeader(h)
    PROVE  /\ Shape' /\ drv'[h].open = drv[h].open
           /\ drv'[h].count \in {drv[h].count, file.count}
           /\ \A g \in Handles \ {h} : drv'[g] = drv[g] /\ call'[g] = call[g] /\ wa'[g] = wa[g]
           /\ call[h].op = "header" /\ call'[h].op = "idle" /\ header' = NoHandle
           /\ file'.count = drv[h].count /\ file'.rows = file.rows
           /\ DOMAIN truth' = DOMAIN truth \cup {call[h].rec}
           /\ truth'[call[h].rec] = FreshRow(call[h].num)
           /\ \A x \in DOMAIN truth : x # call[h].rec => truth'[x] = truth[x]
           /\ wa'[h].rec = call[h].rec /\ wa'[h].buf = FreshRow(call[h].num)
           /\ wa'[h].fresh => owner'[call[h].rec] = h
           /\ \A x \in Recs : owner[x] # NoHandle => owner'[x] = owner[x]
           /\ UNCHANGED kind
<1> USE SharedTableAssumption
<1> DEFINE r == call[h].rec
           new == FreshRow(call[h].num)
           granted == owner[r] \in {NoHandle, h}
           o == IF granted THEN h ELSE owner[r]
           d == IF granted THEN AfterRead(drv[h], r) ELSE drv[h]
           w == [rec |-> r, buf |-> new, fresh |-> granted]
<1>1. /\ drv \in [Handles -> Drivers] /\ file \in Files /\ call \in [Handles -> Calls]
      /\ wa \in [Handles -> WorkAreas] /\ owner \in [Recs -> Handles \cup {NoHandle}]
      /\ truth \in RowMaps /\ call[h] \in Calls /\ drv[h] \in Drivers
      /\ call[h].op = "header"
      /\ file' = [file EXCEPT !.count = drv[h].count] /\ header' = NoHandle
      /\ owner' = [owner EXCEPT ![r] = o] /\ drv' = [drv EXCEPT ![h] = d]
      /\ wa' = [wa EXCEPT ![h] = w] /\ truth' = Put(truth, r, new)
      /\ call' = [call EXCEPT ![h] = Idle]
      /\ UNCHANGED <<kind, memo>>
    BY DEF Shape, AppendHeader
<1>2. r \in Recs /\ r \in Nat /\ call[h].num \in Nat /\ new \in Row
  <2>1. r \in Recs /\ call[h].num \in Nat
    BY <1>1, CallShape
  <2> QED
    BY <2>1, NewRow DEF Recs
<1>3. d \in Drivers /\ d.open = drv[h].open /\ d.count \in {drv[h].count, file.count}
  <2> HIDE DEF granted, r
  <2> QED
    BY <1>1, <1>2, ReadingDriver
<1>4. /\ o \in Handles \cup {NoHandle} /\ (granted => o = h) /\ (~granted => o = owner[r])
      /\ granted \in BOOLEAN
    BY <1>1, <1>2
<1>5. w \in WorkAreas /\ w.rec = r /\ w.buf = new /\ w.fresh = granted
  <2>1. r \in 0..MaxRows
    BY <1>2 DEF Recs
  <2> HIDE DEF granted, r, new
  <2> QED
    BY <1>2, <1>4, <2>1 DEF WorkAreas
<1> HIDE DEF d, w, o
<1>6. file' \in Files /\ file'.count = drv[h].count /\ file'.rows = file.rows
  <2>1. drv[h].count \in 0..MaxRows
    BY <1>1, SomeDrivers
  <2> QED
    BY <1>1, <2>1, FileCount
<1>7. /\ drv' \in [Handles -> Drivers] /\ drv'[h] = d
      /\ \A g \in Handles \ {h} : drv'[g] = drv[g]
    BY <1>1, <1>3, OneDriver
<1>8. /\ wa' \in [Handles -> WorkAreas] /\ wa'[h] = w
      /\ \A g \in Handles \ {h} : wa'[g] = wa[g]
    BY <1>1, <1>5, OneWorkArea
<1>9. /\ call' \in [Handles -> Calls] /\ call'[h] = Idle
      /\ \A g \in Handles \ {h} : call'[g] = call[g]
    BY <1>1, SomeCalls, OneCall
<1>10. /\ truth' \in RowMaps /\ DOMAIN truth' = DOMAIN truth \cup {r} /\ truth'[r] = new
       /\ \A x \in DOMAIN truth : x # r => truth'[x] = truth[x]
  <2>1. truth \in RowMaps /\ r \in Recs /\ new \in Row /\ truth' = Put(truth, r, new)
    BY <1>1, <1>2
  <2> HIDE DEF r, new, granted
  <2>2. /\ Put(truth, r, new) \in RowMaps /\ DOMAIN Put(truth, r, new) = DOMAIN truth \cup {r}
        /\ Put(truth, r, new)[r] = new
        /\ \A x \in DOMAIN truth : x # r => Put(truth, r, new)[x] = truth[x]
    BY <2>1, PutRow
  <2> QED
    BY <2>1, <2>2
<1>11. /\ owner' \in [Recs -> Handles \cup {NoHandle}] /\ owner'[r] = o
       /\ \A x \in Recs : x # r => owner'[x] = owner[x]
  <2> HIDE DEF r, granted
  <2> QED
    BY <1>1, <1>2, <1>4
<1>12. \A x \in Recs : owner[x] # NoHandle => owner'[x] = owner[x]
  <2>1. owner[r] # NoHandle => o = owner[r]
    BY <1>4
  <2> QED
    BY <1>11, <2>1
<1>13. Shape'
    BY <1>1, <1>6, <1>7, <1>8, <1>9, <1>10, <1>11 DEF Shape
<1> QED
    BY <1>1, <1>3, <1>4, <1>5, <1>6, <1>7, <1>8, <1>9, <1>10, <1>11, <1>12, <1>13, SomeCalls

\* A list over a set is one over a larger set.
LEMMA ListGrows ==
    ASSUME NEW S, NEW T, S \subseteq T, NEW q \in Seq(S)
    PROVE  q \in Seq(T)
<1>1. Len(q) \in Nat /\ q \in [1..Len(q) -> S]
    BY LenProperties
<1>2. q \in [1..Len(q) -> T]
    BY <1>1
<1> QED
    BY <1>1, <1>2, SeqDef

\* A set of record numbers in order.
LEMMA AscendingNumbers ==
    ASSUME NEW n \in Nat, NEW S \in SUBSET (1..n)
    PROVE  /\ Ascending(S) \in Seq(S) /\ Len(Ascending(S)) \in 0..n
           /\ \A i \in 1..Len(Ascending(S)) : Ascending(S)[i] \in S
<1> DEFINE m == Cardinality(S)
           q == [i \in 1..m |-> CHOOSE r \in S : Cardinality({x \in S : x <= r}) = i]
<1>1. IsFiniteSet(S) /\ m \in 0..n
  <2>1. IsFiniteSet(1..n) /\ Cardinality(1..n) = n
    BY FS_Interval
  <2>2. IsFiniteSet(S) /\ m <= n
    BY <2>1, FS_Subset
  <2> QED
    BY <2>2, FS_CardinalityType
<1>2. ASSUME NEW i \in 1..m
      PROVE  (CHOOSE r \in S : Cardinality({x \in S : x <= r}) = i) \in S
  <2>1. S \in SUBSET Int
    OBVIOUS
  <2>2. \E r \in S : Cardinality({x \in S : x <= r}) = i
    BY <1>1, <2>1, IthOfSet
  <2> QED
    BY <2>2
<1>3. q \in [1..m -> S]
    BY <1>2
<1>4. Ascending(S) = q
    BY DEF Ascending
<1> HIDE DEF m, q
<1>5. q \in Seq(S) /\ Len(q) = m
    BY <1>1, <1>3
<1> QED
    BY <1>1, <1>3, <1>4, <1>5

\* The rows with those numbers.
LEMMA PackedRows ==
    ASSUME NEW old \in RowMaps, NEW keep \in Seq(DOMAIN old), Len(keep) \in 0..MaxRows
    PROVE  /\ Packed(old, keep) \in Seq(Row) /\ Len(Packed(old, keep)) = Len(keep)
           /\ Packed(old, keep) \in RowMaps /\ DOMAIN Packed(old, keep) = 1..Len(keep)
           /\ \A i \in 1..Len(keep) : Packed(old, keep)[i] = old[keep[i]]
<1>1. \A i \in 1..Len(keep) : old[keep[i]] \in Row
    BY RowMapShape
<1>2. Packed(old, keep) \in [1..Len(keep) -> Row]
    BY <1>1 DEF Packed
<1>3. Len(keep) \in Nat
    OBVIOUS
<1>4. Packed(old, keep) \in Seq(Row) /\ Len(Packed(old, keep)) = Len(keep)
    BY <1>2, <1>3
<1>5. Packed(old, keep) \in RowMaps
    BY <1>2, ListOfRows
<1> QED
    BY <1>2, <1>4, <1>5 DEF Packed

\* What a zap leaves.
LEMMA EmptiedFile ==
    ASSUME file \in Files
    PROVE  Emptied \in Files /\ Emptied.count = 0 /\ Emptied.rows \in RowMaps
<1> DEFINE g == IF kind = "adt" THEN <<>> ELSE file.rows
<1>1. g \in RowMaps /\ 0 \in 0..MaxRows
    BY SomeFiles, NoRows, SharedTableAssumption
<1>2. Emptied = [file EXCEPT !.count = 0, !.rows = g]
    BY DEF Emptied
<1> HIDE DEF g
<1> QED
    BY <1>1, <1>2 DEF Files

LEMMA ZapShape ==
    ASSUME Shape, NEW h \in Handles, ZapTable(h)
    PROVE  /\ Shape' /\ drv'[h].open = drv[h].open /\ drv'[h].count = 0
           /\ \A g \in Handles \ {h} : drv'[g] = drv[g] /\ wa'[g] = wa[g]
           /\ wa'[h] = Nowhere /\ file'.count = 0 /\ DOMAIN truth' = {}
           /\ UNCHANGED <<kind, header, owner, call>>
<1> DEFINE d == [Dropped(drv[h]) EXCEPT !.count = 0]
<1>1. /\ drv \in [Handles -> Drivers] /\ file \in Files /\ wa \in [Handles -> WorkAreas]
      /\ file' = Emptied /\ drv' = [drv EXCEPT ![h] = d] /\ wa' = [wa EXCEPT ![h] = Nowhere]
      /\ truth' = <<>>
      /\ UNCHANGED <<kind, memo, header, owner, call>>
    BY DEF Shape, ZapTable
<1>2. d \in Drivers /\ d.open = drv[h].open /\ d.count = 0
  <2>1. 0 \in 0..MaxRows /\ drv[h] \in Drivers
    BY <1>1, SharedTableAssumption
  <2> QED
    BY <2>1, DroppedDriver, SomeDrivers
<1> HIDE DEF d
<1>3. /\ drv' \in [Handles -> Drivers] /\ drv'[h] = d
      /\ \A g \in Handles \ {h} : drv'[g] = drv[g]
    BY <1>1, <1>2, OneDriver
<1>4. /\ wa' \in [Handles -> WorkAreas] /\ wa'[h] = Nowhere
      /\ \A g \in Handles \ {h} : wa'[g] = wa[g]
    BY <1>1, SomeWorkAreas, OneWorkArea
<1>5. file' \in Files /\ file'.count = 0 /\ truth' \in RowMaps /\ DOMAIN truth' = {}
    BY <1>1, EmptiedFile, NoRows
<1>6. Shape'
    BY <1>1, <1>3, <1>4, <1>5 DEF Shape
<1> QED
    BY <1>1, <1>2, <1>3, <1>4, <1>5, <1>6

\* The rows a pack keeps, and the true rows that are not deleted.
AllLeft == Ascending({r \in DOMAIN truth : ~truth[r].del})

LEMMA PackShape ==
    ASSUME Shape, NEW h \in Handles, PackTable(h)
    PROVE  /\ Shape' /\ drv'[h].open = drv[h].open /\ drv'[h].count = 0
           /\ \A g \in Handles \ {h} : drv'[g] = drv[g] /\ wa'[g] = wa[g] /\ call'[g] = call[g]
           /\ wa'[h] = Nowhere /\ file'.count = 0
           /\ call[h].op = "idle" /\ call'[h].op = "pack"
           /\ call'[h].todo = Packed(file.rows, Survivors(h))
           /\ truth' = Packed(truth, AllLeft)
           /\ UNCHANGED <<kind, header, owner>>
<1> USE SharedTableAssumption
<1> DEFINE d == [Dropped(drv[h]) EXCEPT !.count = 0]
           keep == Survivors(h)
           todo == Packed(file.rows, keep)
           c == [op |-> "pack", todo |-> todo]
           g == IF kind = "adt" THEN Emptied.rows ELSE Over(todo, Emptied.rows)
<1>1. /\ drv \in [Handles -> Drivers] /\ file \in Files /\ wa \in [Handles -> WorkAreas]
      /\ call \in [Handles -> Calls] /\ truth \in RowMaps /\ drv[h] \in Drivers
      /\ call[h].op = "idle" /\ \A r \in 1..drv[h].count : OnDisk(r)
      /\ file' = [Emptied EXCEPT !.rows = g]
      /\ drv' = [drv EXCEPT ![h] = d] /\ wa' = [wa EXCEPT ![h] = Nowhere]
      /\ call' = [call EXCEPT ![h] = c] /\ truth' = Packed(truth, AllLeft)
      /\ UNCHANGED <<kind, memo, header, owner>>
    BY DEF Shape, PackTable, MayMaintain, Ready, AllLeft
<1>2. d \in Drivers /\ d.open = drv[h].open /\ d.count = 0
  <2>1. 0 \in 0..MaxRows /\ drv[h] \in Drivers
    BY <1>1
  <2> QED
    BY <2>1, DroppedDriver, SomeDrivers
<1>3. keep \in Seq(DOMAIN file.rows) /\ Len(keep) \in 0..MaxRows /\ file.rows \in RowMaps
  <2> DEFINE S == {r \in 1..drv[h].count : ~file.rows[r].del}
  <2>1. drv[h].count \in 0..MaxRows /\ file.rows \in RowMaps
    BY <1>1, SomeDrivers, SomeFiles
  <2>2. S \in SUBSET (1..drv[h].count) /\ S \subseteq DOMAIN file.rows
    BY <1>1 DEF OnDisk
  <2>3. keep = Ascending(S)
    BY DEF Survivors
  <2> HIDE DEF S
  <2>4. Ascending(S) \in Seq(S) /\ Len(Ascending(S)) \in 0..drv[h].count
    BY <2>1, <2>2, AscendingNumbers
  <2>5. Ascending(S) \in Seq(DOMAIN file.rows)
    BY <2>2, <2>4, ListGrows
  <2> QED
    BY <2>1, <2>3, <2>4, <2>5
<1> HIDE DEF keep
<1>4. todo \in Seq(Row) /\ todo \in RowMaps
    BY <1>3, PackedRows
<1>5. truth' \in RowMaps
  <2> DEFINE S == {r \in DOMAIN truth : ~truth[r].del}
  <2>1. S \in SUBSET (1..MaxRows) /\ S \subseteq DOMAIN truth
    BY <1>1, RowMapShape DEF Recs
  <2>2. AllLeft = Ascending(S)
    BY DEF AllLeft
  <2> HIDE DEF S
  <2>3. Ascending(S) \in Seq(S) /\ Len(Ascending(S)) \in 0..MaxRows
    BY <2>1, AscendingNumbers
  <2>4. Ascending(S) \in Seq(DOMAIN truth)
    BY <2>1, <2>3, ListGrows
  <2> QED
    BY <1>1, <2>2, <2>3, <2>4, PackedRows
<1> HIDE DEF todo
<1>6. c \in Calls /\ c.op = "pack" /\ c.todo = todo
    BY <1>4, SomeCalls
<1>7. Emptied \in Files /\ Emptied.count = 0 /\ g \in RowMaps
    BY <1>1, <1>4, EmptiedFile, OverRows
<1> HIDE DEF c, d, g
<1>8. file' \in Files /\ file'.count = 0
    BY <1>1, <1>7 DEF Files
<1>9. /\ drv' \in [Handles -> Drivers] /\ drv'[h] = d
      /\ \A x \in Handles \ {h} : drv'[x] = drv[x]
    BY <1>1, <1>2, OneDriver
<1>10. /\ wa' \in [Handles -> WorkAreas] /\ wa'[h] = Nowhere
       /\ \A x \in Handles \ {h} : wa'[x] = wa[x]
    BY <1>1, SomeWorkAreas, OneWorkArea
<1>11. /\ call' \in [Handles -> Calls] /\ call'[h] = c
       /\ \A x \in Handles \ {h} : call'[x] = call[x]
    BY <1>1, <1>6, OneCall
<1>12. Shape'
    BY <1>1, <1>5, <1>8, <1>9, <1>10, <1>11 DEF Shape
<1> QED
    BY <1>1, <1>2, <1>6, <1>8, <1>9, <1>10, <1>11, <1>12 DEF todo, keep

LEMMA PackAppendShape ==
    ASSUME Shape, NEW h \in Handles, PackAppend(h)
    PROVE  /\ Shape' /\ drv'[h].open = drv[h].open /\ drv'[h].count = file.count + 1
           /\ \A g \in Handles \ {h} : drv'[g] = drv[g] /\ call'[g] = call[g]
           /\ call[h].op = "pack" /\ call'[h].op = "pack"
           /\ call[h].todo \in Seq(Row) /\ call[h].todo # <<>> /\ call'[h].todo = Tail(call[h].todo)
           /\ file'.count = file.count + 1
           /\ DOMAIN file'.rows = DOMAIN file.rows \cup {file.count + 1}
           /\ file'.rows[file.count + 1] = Head(call[h].todo)
           /\ \A x \in DOMAIN file.rows : x # file.count + 1 => file'.rows[x] = file.rows[x]
           /\ UNCHANGED <<kind, header, owner, wa, truth>>
<1> USE SharedTableAssumption
<1> DEFINE r == file.count + 1
           todo == call[h].todo
           d == [Dropped(drv[h]) EXCEPT !.count = r]
           c == [op |-> "pack", todo |-> Tail(todo)]
           first == Head(todo)
           g == Put(file.rows, r, first)
<1>1. /\ drv \in [Handles -> Drivers] /\ file \in Files /\ call \in [Handles -> Calls]
      /\ call[h] \in Calls /\ drv[h] \in Drivers
      /\ call[h].op = "pack" /\ todo # <<>> /\ file.count < MaxRows
      /\ file' = [file EXCEPT !.count = r, !.rows = g]
      /\ drv' = [drv EXCEPT ![h] = d] /\ call' = [call EXCEPT ![h].todo = Tail(todo)]
      /\ UNCHANGED <<kind, memo, header, owner, wa, truth>>
    BY DEF Shape, PackAppend, Behind
<1>2. todo \in Seq(Row)
    BY <1>1, CallShape
<1>3. first \in Row /\ Tail(todo) \in Seq(Row)
    BY <1>1, <1>2, HeadTailProperties
<1>4. call' = [call EXCEPT ![h] = c]
  <2>1. [call[h] EXCEPT !.todo = Tail(todo)] = c
    BY <1>1, <1>3, PackCall
  <2>2. call' = [call EXCEPT ![h] = [call[h] EXCEPT !.todo = Tail(todo)]]
    BY <1>1
  <2> QED
    BY <2>1, <2>2
<1>5. r \in Recs /\ r \in 0..MaxRows /\ file.rows \in RowMaps
  <2>1. file.count \in 0..MaxRows /\ file.rows \in RowMaps
    BY <1>1 DEF Files
  <2> QED
    BY <1>1, <2>1 DEF Recs
<1> HIDE DEF todo
<1>6. c \in Calls /\ c.op = "pack" /\ c.todo = Tail(todo)
    BY <1>3, SomeCalls
<1> HIDE DEF r
<1>7. d \in Drivers /\ d.open = drv[h].open /\ d.count = r
    BY <1>1, <1>5, DroppedDriver, SomeDrivers
<1> HIDE DEF first
<1>8. /\ g \in RowMaps /\ DOMAIN g = DOMAIN file.rows \cup {r} /\ g[r] = first
      /\ \A x \in DOMAIN file.rows : x # r => g[x] = file.rows[x]
  <2> DEFINE old == file.rows
  <2>1. old \in RowMaps /\ r \in Recs /\ first \in Row
    BY <1>3, <1>5
  <2> HIDE DEF old
  <2>2. /\ Put(old, r, first) \in RowMaps /\ DOMAIN Put(old, r, first) = DOMAIN old \cup {r}
        /\ Put(old, r, first)[r] = first
        /\ \A x \in DOMAIN old : x # r => Put(old, r, first)[x] = old[x]
    BY <2>1, PutRow
  <2> QED
    BY <2>2 DEF old
<1> HIDE DEF c, d, g
<1>9. file' \in Files /\ file'.count = r /\ file'.rows = g
    BY <1>1, <1>5, <1>8, FileCountAndRows
<1>10. /\ drv' \in [Handles -> Drivers] /\ drv'[h] = d
       /\ \A x \in Handles \ {h} : drv'[x] = drv[x]
    BY <1>1, <1>7, OneDriver
<1>11. /\ call' \in [Handles -> Calls] /\ call'[h] = c
       /\ \A x \in Handles \ {h} : call'[x] = call[x]
    BY <1>1, <1>4, <1>6, OneCall
<1>12. Shape'
    BY <1>1, <1>9, <1>10, <1>11 DEF Shape
<1> QED
    BY <1>1, <1>2, <1>6, <1>7, <1>8, <1>9, <1>10, <1>11, <1>12 DEF r, todo, first

LEMMA PackFinishShape ==
    ASSUME Shape, NEW h \in Handles, PackFinish(h)
    PROVE  /\ Shape' /\ call[h].op = "pack" /\ call[h].todo = <<>> /\ call'[h].op = "idle"
           /\ \A g \in Handles \ {h} : call'[g] = call[g]
           /\ UNCHANGED <<kind, file, header, owner, drv, wa, truth>>
<1>1. /\ call \in [Handles -> Calls] /\ call[h].op = "pack" /\ call[h].todo = <<>>
      /\ call' = [call EXCEPT ![h] = Idle]
      /\ UNCHANGED <<kind, file, memo, header, owner, drv, wa, truth>>
    BY DEF Shape, PackFinish
<1>2. /\ call' \in [Handles -> Calls] /\ call'[h] = Idle
      /\ \A g \in Handles \ {h} : call'[g] = call[g]
    BY <1>1, SomeCalls, OneCall
<1> QED
    BY <1>1, <1>2, SomeCalls DEF Shape

\* Every step keeps the shape.
LEMMA StepShape ==
    ASSUME Shape, [Next]_vars
    PROVE  Shape' /\ kind' = kind
<1>1. CASE UNCHANGED vars
    BY <1>1 DEF vars, Shape
<1>2. ASSUME NEW h \in Handles,
             Open(h) \/ Close(h) \/ AppendRecord(h) \/ AppendRow(h) \/ AppendRefused(h)
               \/ AppendHeader(h) \/ ZapTable(h) \/ PackTable(h) \/ PackAppend(h) \/ PackFinish(h)
      PROVE  Shape' /\ kind' = kind
  <2>1. CASE Open(h)
    BY <2>1, OpenShape DEF Open
  <2>2. CASE Close(h)
    BY <2>2, CloseShape DEF Close
  <2>3. CASE AppendRecord(h)
    BY <2>3, AppendRecordShape
  <2>4. CASE AppendRow(h)
    BY <2>4, AppendRowShape
  <2>5. CASE AppendRefused(h)
    BY <2>5, AppendRefusedShape
  <2>6. CASE AppendHeader(h)
    BY <2>6, AppendHeaderShape
  <2>7. CASE ZapTable(h)
    BY <2>7, ZapShape
  <2>8. CASE PackTable(h)
    BY <2>8, PackShape
  <2>9. CASE PackAppend(h)
    BY <2>9, PackAppendShape
  <2>10. CASE PackFinish(h)
    BY <2>10, PackFinishShape
  <2> QED
    BY <1>2, <2>1, <2>2, <2>3, <2>4, <2>5, <2>6, <2>7, <2>8, <2>9, <2>10
<1>3. ASSUME NEW h \in Handles, Browses(h), owner' \in [Recs -> Handles \cup {NoHandle}]
      PROVE  Shape' /\ kind' = kind
    BY <1>3, BrowsesShape DEF Browses
<1>4. owner \in [Recs -> Handles \cup {NoHandle}] /\ memo.next \in Nat
    BY DEF Shape
<1>5. ASSUME NEW h \in Handles, NEW r \in Recs, GotoRecord(h, r) \/ LockRecord(h, r) \/ UnlockRecord(h, r)
      PROVE  Shape' /\ kind' = kind
  <2>1. CASE GotoRecord(h, r)
    BY <1>3, <1>4, <2>1, GotoBrowses
  <2>2. CASE LockRecord(h, r)
    BY <1>3, <2>2, LockBrowses
  <2>3. CASE UnlockRecord(h, r)
    BY <1>3, <2>3, UnlockBrowses
  <2> QED
    BY <1>5, <2>1, <2>2, <2>3
<1>6. ASSUME NEW h \in Handles, NEW delta \in {-1, 1}, Skip(h, delta)
      PROVE  Shape' /\ kind' = kind
    BY <1>3, <1>4, <1>6, SkipBrowses
<1>7. ASSUME NEW h \in Handles, \E row, true : Writes(h, row, true) /\ memo'.next \in Nat
      PROVE  Shape' /\ kind' = kind
  <2>1. PICK row, true : Writes(h, row, true) /\ memo'.next \in Nat
    BY <1>7
  <2> QED
    BY <2>1, WritesShape DEF Writes
<1>8. ASSUME NEW h \in Handles, NEW x \in Fields, NEW v \in Values, SetField(h, x, v)
      PROVE  Shape' /\ kind' = kind
    BY <1>4, <1>7, <1>8, SetFieldWrites
<1>9. ASSUME NEW h \in Handles, NEW b \in BOOLEAN, MarkDeleted(h, b)
      PROVE  Shape' /\ kind' = kind
    BY <1>4, <1>7, <1>9, MarkDeletedWrites
<1>10. ASSUME NEW h \in Handles, NEW n \in MemoSizes, SetMemo(h, n)
       PROVE  Shape' /\ kind' = kind
    BY <1>7, <1>10, SetMemoWrites
<1> QED
    BY <1>1, <1>2, <1>5, <1>6, <1>8, <1>9, <1>10 DEF Next

-----------------------------------------------------------------------------
(* The rest of the invariant, for clients that do what is left to them *)

\* The numbers in the state.
LEMMA Numbers ==
    ASSUME Shape
    PROVE  /\ file.count \in 0..MaxRows /\ file.rows \in RowMaps /\ MaxRows \in Nat
           /\ \A g \in Handles : /\ drv[g] \in Drivers /\ drv[g].count \in 0..MaxRows
                                 /\ wa[g].rec \in 0..MaxRows /\ call[g] \in Calls
                                 /\ wa[g].rec # 0 => wa[g].rec \in Recs
<1>1. file.count \in 0..MaxRows /\ file.rows \in RowMaps /\ MaxRows \in Nat
    BY SharedTableAssumption DEF Shape, Files
<1>2. ASSUME NEW g \in Handles
      PROVE  /\ drv[g] \in Drivers /\ drv[g].count \in 0..MaxRows
             /\ wa[g].rec \in 0..MaxRows /\ call[g] \in Calls
  <2>1. drv[g] \in Drivers /\ wa[g] \in WorkAreas /\ call[g] \in Calls
    BY DEF Shape
  <2> QED
    BY <2>1 DEF Drivers, WorkAreas
<1>3. \A r \in 0..MaxRows : r # 0 => r \in Recs
    BY <1>1 DEF Recs
<1> QED
    BY <1>1, <1>2, <1>3

\* While a handle is open and not packing, no handle packs.
LEMMA NobodyPacks ==
    ASSUME OpenOrIdle, PackAlone, NEW h \in Handles, drv[h].open, call[h].op # "pack"
    PROVE  NotPacking
BY DEF OpenOrIdle, PackAlone, NotPacking

\* While all others are closed, they are in no call.
LEMMA AloneIsIdle ==
    ASSUME Sound, NEW h \in Handles, \A g \in Handles \ {h} : ~drv[g].open
    PROVE  \A g \in Handles \ {h} :
             call[g].op = "idle" /\ header # g /\ drv[g].count = 0 /\ wa[g].rec = 0
BY DEF Sound, OpenOrIdle, HeaderHeld

\* A call that only reads disturbs nothing but the promise of fresh rows.
LEMMA BrowsesSound ==
    ASSUME Shape, Sound, NEW h \in Handles, Browses(h), Ready(h)
    PROVE  /\ OpenOrIdle' /\ HeaderHeld' /\ CountsBehind' /\ PackAlone'
           /\ RowsTrue' /\ TruthOnFile' /\ TruthToAppend'
<1>1. /\ OpenOrIdle /\ HeaderHeld /\ CountsBehind /\ PackAlone /\ RowsTrue
      /\ TruthOnFile /\ TruthToAppend
    BY DEF Sound
<1>2. /\ \A g \in Handles \ {h} : drv'[g] = drv[g] /\ wa'[g] = wa[g]
      /\ \A g \in Handles : drv'[g].open = drv[g].open
      /\ drv'[h].count \in {drv[h].count, file.count}
      /\ file' = file /\ header' = header /\ call' = call /\ truth' = truth
      /\ drv[h].open /\ call[h].op = "idle"
    BY DEF Browses, Ready
<1>3. OpenOrIdle'
    BY <1>1, <1>2 DEF OpenOrIdle
<1>4. HeaderHeld'
    BY <1>1, <1>2 DEF HeaderHeld, OnDisk
<1>5. CountsBehind'
  <2>1. drv'[h].count <= file.count
    BY <1>1, <1>2, Numbers DEF CountsBehind, HeaderHeld
  <2> QED
    BY <1>1, <1>2, <2>1 DEF CountsBehind
<1>6. PackAlone'
    BY <1>1, <1>2 DEF PackAlone
<1>7. RowsTrue' /\ TruthOnFile' /\ TruthToAppend'
    BY <1>1, <1>2 DEF RowsTrue, TruthOnFile, TruthToAppend, OnDisk, NotPacking
<1> QED
    BY <1>3, <1>4, <1>5, <1>6, <1>7

\* Other handles' fresh rows stay theirs while nobody writes and their locks stay.
LEMMA OthersFresh ==
    ASSUME Shape, Sound, NEW h \in Handles, file' = file,
           \A g \in Handles \ {h} : wa'[g] = wa[g],
           \A g \in Handles \ {h}, r \in Recs : owner[r] = g => owner'[r] = g,
           wa'[h].fresh /\ wa'[h].rec # 0 =>
             /\ wa'[h].rec <= file.count /\ owner'[wa'[h].rec] = h
             /\ wa'[h].buf = file.rows[wa'[h].rec]
    PROVE  FreshIsTrue'
<1>1. \A g \in Handles : wa[g].rec # 0 => wa[g].rec \in Recs
    BY Numbers
<1>2. ASSUME NEW g \in Handles \ {h}, wa'[g].fresh, wa'[g].rec # 0
      PROVE  /\ wa'[g].rec <= file'.count /\ owner'[wa'[g].rec] = g
             /\ wa'[g].buf = file'.rows[wa'[g].rec]
  <2>1. wa[g].fresh /\ wa[g].rec # 0 /\ wa'[g] = wa[g]
    BY <1>2
  <2>2. /\ wa[g].rec <= file.count /\ owner[wa[g].rec] = g
        /\ wa[g].buf = file.rows[wa[g].rec]
    BY <2>1 DEF Sound, FreshIsTrue
  <2> QED
    BY <1>1, <2>1, <2>2
<1>3. ASSUME NEW g \in Handles
      PROVE  (wa'[g].fresh /\ wa'[g].rec # 0 =>
               /\ wa'[g].rec <= file'.count /\ owner'[wa'[g].rec] = g
               /\ wa'[g].buf = file'.rows[wa'[g].rec])
    BY <1>2
<1> QED
    BY <1>3 DEF FreshIsTrue

LEMMA GotoSound ==
    ASSUME Shape, Sound, kind # "ntx", NEW h \in Handles, NEW r \in Recs, GotoRecord(h, r)
    PROVE  Sound'
<1>1. /\ Browses(h) /\ owner' = owner
      /\ \/ wa'[h] = wa[h] \/ wa'[h].rec = 0
         \/ /\ r <= drv[h].count /\ wa'[h].rec = r /\ wa'[h].fresh = (owner[r] = h)
            /\ kind # "ntx" => wa'[h].buf = file.rows[r]
    BY GotoBrowses
<1>2. Ready(h)
    BY DEF GotoRecord
<1>3. drv[h].count <= file.count
    BY <1>2 DEF Sound, CountsBehind, HeaderHeld, Ready
<1>4. r <= drv[h].count => r <= file.count
    BY <1>3, Numbers DEF Recs
<1>5. wa'[h].fresh /\ wa'[h].rec # 0 =>
        /\ wa'[h].rec <= file.count /\ owner'[wa'[h].rec] = h
        /\ wa'[h].buf = file.rows[wa'[h].rec]
  <2>1. CASE wa'[h] = wa[h]
    BY <1>1, <2>1 DEF Sound, FreshIsTrue
  <2>2. CASE wa'[h].rec = 0
    BY <2>2
  <2>3. CASE /\ r <= drv[h].count /\ wa'[h].rec = r /\ wa'[h].fresh = (owner[r] = h)
             /\ kind # "ntx" => wa'[h].buf = file.rows[r]
    BY <1>1, <1>4, <2>3
  <2> QED
    BY <1>1, <2>1, <2>2, <2>3
<1>6. FreshIsTrue'
    BY <1>1, <1>5, OthersFresh DEF Browses
<1> QED
    BY <1>1, <1>2, <1>6, BrowsesSound DEF Sound

LEMMA SkipSound ==
    ASSUME Shape, Sound, NEW h \in Handles, NEW delta \in {-1, 1}, Skip(h, delta)
    PROVE  Sound'
<1>1. Browses(h) /\ owner' = owner /\ (wa'[h] = wa[h] \/ wa'[h].rec = 0 \/ wa'[h].fresh = FALSE)
    BY SkipBrowses
<1>2. Ready(h)
    BY DEF Skip
<1>3. wa'[h].fresh /\ wa'[h].rec # 0 =>
        /\ wa'[h].rec <= file.count /\ owner'[wa'[h].rec] = h
        /\ wa'[h].buf = file.rows[wa'[h].rec]
    BY <1>1 DEF Sound, FreshIsTrue
<1>4. FreshIsTrue'
    BY <1>1, <1>3, OthersFresh DEF Browses
<1> QED
    BY <1>1, <1>2, <1>4, BrowsesSound DEF Sound

LEMMA LockSound ==
    ASSUME Shape, Sound, NEW h \in Handles, NEW r \in Recs, LockRecord(h, r)
    PROVE  Sound'
<1>1. /\ Browses(h) /\ owner'[r] = h /\ \A x \in Recs \ {r} : owner'[x] = owner[x]
      /\ wa'[h] = wa[h] \/ wa'[h].fresh = FALSE
    BY LockBrowses
<1>2. Ready(h) /\ owner[r] = NoHandle /\ NoHandle \notin Handles
    BY SharedTableAssumption DEF LockRecord
<1>3. \A g \in Handles, x \in Recs : owner[x] = g => owner'[x] = g
    BY <1>1, <1>2
<1>4. wa[h].rec # 0 => wa[h].rec \in Recs
    BY Numbers
<1>5. wa'[h].fresh /\ wa'[h].rec # 0 =>
        /\ wa'[h].rec <= file.count /\ owner'[wa'[h].rec] = h
        /\ wa'[h].buf = file.rows[wa'[h].rec]
    BY <1>1, <1>3, <1>4 DEF Sound, FreshIsTrue
<1>6. FreshIsTrue'
    BY <1>1, <1>3, <1>5, OthersFresh DEF Browses
<1> QED
    BY <1>1, <1>2, <1>6, BrowsesSound DEF Sound

LEMMA UnlockSound ==
    ASSUME Shape, Sound, NEW h \in Handles, NEW r \in Recs, UnlockRecord(h, r)
    PROVE  Sound'
<1>1. /\ Browses(h) /\ owner[r] = h /\ \A x \in Recs \ {r} : owner'[x] = owner[x]
      /\ wa'[h].fresh => wa'[h] = wa[h] /\ wa[h].rec # r
    BY UnlockBrowses
<1>2. Ready(h)
    BY DEF UnlockRecord
<1>3. \A g \in Handles \ {h}, x \in Recs : owner[x] = g => owner'[x] = g
    BY <1>1
<1>4. wa[h].rec # 0 => wa[h].rec \in Recs
    BY Numbers
<1>5. wa'[h].fresh /\ wa'[h].rec # 0 =>
        /\ wa'[h].rec <= file.count /\ owner'[wa'[h].rec] = h
        /\ wa'[h].buf = file.rows[wa'[h].rec]
  <2> SUFFICES ASSUME wa'[h].fresh, wa'[h].rec # 0
               PROVE  /\ wa'[h].rec <= file.count /\ owner'[wa'[h].rec] = h
                      /\ wa'[h].buf = file.rows[wa'[h].rec]
    OBVIOUS
  <2>1. wa'[h] = wa[h] /\ wa[h].rec # r /\ wa[h].rec \in Recs /\ wa[h].fresh /\ wa[h].rec # 0
    BY <1>1, <1>4
  <2>2. /\ wa[h].rec <= file.count /\ owner[wa[h].rec] = h
        /\ wa[h].buf = file.rows[wa[h].rec]
    BY <2>1 DEF Sound, FreshIsTrue
  <2> QED
    BY <1>1, <2>1, <2>2
<1>6. FreshIsTrue'
    BY <1>1, <1>3, <1>5, OthersFresh DEF Browses
<1> QED
    BY <1>1, <1>2, <1>6, BrowsesSound DEF Sound

LEMMA OpenSound ==
    ASSUME Careful, Shape, Sound, NEW h \in Handles, Open(h)
    PROVE  Sound'
<1>1. /\ drv'[h].count = file.count /\ drv'[h].open
      /\ \A g \in Handles \ {h} : drv'[g] = drv[g] /\ wa'[g] = wa[g]
      /\ wa'[h].rec = 0
    BY OpenShape, SomeWorkAreas
<1>2. /\ ~drv[h].open /\ NotPacking
      /\ UNCHANGED <<file, header, owner, call, truth>>
    BY DEF Open, Careful
<1>3. call[h].op = "idle" /\ header # h
    BY <1>2 DEF Sound, OpenOrIdle, HeaderHeld
<1>4. OpenOrIdle'
    BY <1>1, <1>2 DEF Sound, OpenOrIdle
<1>5. HeaderHeld'
    BY <1>1, <1>2, <1>3 DEF Sound, HeaderHeld, OnDisk
<1>6. CountsBehind'
    BY <1>1, <1>2, Numbers DEF Sound, CountsBehind
<1>7. PackAlone' /\ TruthToAppend'
    BY <1>2 DEF PackAlone, TruthToAppend, NotPacking
<1>8. RowsTrue' /\ TruthOnFile'
    BY <1>2 DEF Sound, RowsTrue, TruthOnFile, OnDisk, NotPacking
<1>9. FreshIsTrue'
    BY <1>1, <1>2, OthersFresh
<1> QED
    BY <1>4, <1>5, <1>6, <1>7, <1>8, <1>9 DEF Sound

LEMMA CloseSound ==
    ASSUME Shape, Sound, NEW h \in Handles, Close(h)
    PROVE  Sound'
<1>1. /\ drv'[h].count = 0 /\ drv'[h].open = FALSE
      /\ \A g \in Handles \ {h} : drv'[g] = drv[g] /\ wa'[g] = wa[g]
      /\ wa'[h].rec = 0
      /\ \A r \in Recs : owner'[r] = IF owner[r] = h THEN NoHandle ELSE owner[r]
    BY CloseShape, SomeWorkAreas
<1>2. /\ drv[h].open /\ call[h].op = "idle"
      /\ UNCHANGED <<file, header, call, truth>>
    BY DEF Close, Ready
<1>3. NotPacking /\ header # h
    BY <1>2, NobodyPacks DEF Sound, HeaderHeld
<1>4. OpenOrIdle'
    BY <1>1, <1>2 DEF Sound, OpenOrIdle
<1>5. HeaderHeld'
    BY <1>1, <1>2, <1>3 DEF Sound, HeaderHeld, OnDisk
<1>6. CountsBehind'
    BY <1>1, <1>2, Numbers DEF Sound, CountsBehind
<1>7. PackAlone' /\ TruthToAppend'
    BY <1>2, <1>3 DEF PackAlone, TruthToAppend, NotPacking
<1>8. RowsTrue' /\ TruthOnFile'
    BY <1>2 DEF Sound, RowsTrue, TruthOnFile, OnDisk, NotPacking
<1>9. \A g \in Handles \ {h}, r \in Recs : owner[r] = g => owner'[r] = g
    BY <1>1
<1>10. FreshIsTrue'
    BY <1>1, <1>2, <1>9, OthersFresh
<1> QED
    BY <1>4, <1>5, <1>6, <1>7, <1>8, <1>10 DEF Sound

\* A write goes to a row that was refreshed under its lock.
LEMMA WriteSound ==
    ASSUME Careful, Shape, Sound, NEW h \in Handles, MayWrite(h),
           NEW row, NEW true, Writes(h, row, true)
    PROVE  Sound'
<1> DEFINE r == wa[h].rec
<1>1. /\ drv[h].open /\ call[h].op = "idle" /\ r # 0 /\ r \in Recs /\ owner[r] = h /\ wa[h].fresh
    BY Numbers DEF MayWrite, Ready, Careful
<1>2. r <= file.count /\ r \in 1..file.count /\ wa[h].buf = file.rows[r]
  <2>1. r <= file.count /\ wa[h].buf = file.rows[r]
    BY <1>1 DEF Sound, FreshIsTrue
  <2> QED
    BY <1>1, <2>1, Numbers DEF Recs
<1>3. OnDisk(r) /\ r \in DOMAIN truth /\ file.rows[r] = truth[r]
    BY <1>2 DEF Sound, RowsTrue
<1>4. NotPacking
    BY <1>1, NobodyPacks DEF Sound
<1>5. /\ \A g \in Handles \ {h} : drv'[g] = drv[g] /\ wa'[g] = wa[g]
      /\ drv'[h].open = drv[h].open /\ drv'[h].count \in {drv[h].count, file.count}
      /\ wa'[h].rec = r /\ wa'[h].buf = row
      /\ row \in Row
      /\ header' = header /\ owner' = owner /\ call' = call
    BY DEF Writes
<1>6. /\ file' \in Files /\ file'.count = file.count /\ DOMAIN file'.rows = DOMAIN file.rows
      /\ file'.rows[r] = row
      /\ \A x \in DOMAIN file.rows : x # r => file'.rows[x] = file.rows[x]
  <2> DEFINE old == file.rows
  <2>1. old \in RowMaps /\ file \in Files /\ r \in DOMAIN old
    BY <1>3, Numbers DEF Shape, OnDisk
  <2>2. file' = [file EXCEPT !.rows = Put(old, r, row)]
    BY DEF Writes
  <2> HIDE DEF old, r
  <2>3. /\ Put(old, r, row) \in RowMaps /\ DOMAIN Put(old, r, row) = DOMAIN old \cup {r}
        /\ Put(old, r, row)[r] = row
        /\ \A x \in DOMAIN old : x # r => Put(old, r, row)[x] = old[x]
    BY <1>1, <1>5, <2>1, PutRow
  <2>4. file' \in Files /\ file'.rows = Put(old, r, row) /\ file'.count = file.count
    BY <2>1, <2>2, <2>3, FileRows
  <2> QED
    BY <2>1, <2>3, <2>4 DEF old
<1>7. /\ DOMAIN truth' = DOMAIN truth /\ truth'[r] = row
      /\ \A x \in DOMAIN truth : x # r => truth'[x] = truth[x]
  <2>1. truth \in RowMaps /\ truth' = [truth EXCEPT ![r] = true] /\ true \in Row /\ true = row
    BY <1>2, <1>3 DEF Shape, Writes
  <2> HIDE DEF r
  <2> QED
    BY <1>3, <2>1, ChangeRow
<1> HIDE DEF r
<1>8. OpenOrIdle'
    BY <1>1, <1>5 DEF Sound, OpenOrIdle
<1>9. header # h /\ drv[h].count <= file.count
    BY <1>1 DEF Sound, HeaderHeld, CountsBehind
<1>10. HeaderHeld'
  <2>1. file.count + 1 # r
    BY <1>2, Numbers
  <2>2. \A g \in Handles : header = g => drv'[g] = drv[g]
    BY <1>5, <1>9
  <2> QED
    BY <1>5, <1>6, <2>1, <2>2 DEF Sound, HeaderHeld, OnDisk
<1>11. CountsBehind'
  <2>1. drv'[h].count <= file.count
    BY <1>5, <1>9, Numbers
  <2> QED
    BY <1>5, <1>6, <2>1 DEF Sound, CountsBehind
<1>12. PackAlone' /\ TruthToAppend'
    BY <1>4, <1>5 DEF PackAlone, TruthToAppend, NotPacking
<1>13. RowsTrue'
    BY <1>6, <1>7 DEF Sound, RowsTrue, OnDisk
<1>14. TruthOnFile'
    BY <1>4, <1>6, <1>7 DEF Sound, TruthOnFile
<1>15. FreshIsTrue'
  <2>1. ASSUME NEW g \in Handles, wa'[g].fresh, wa'[g].rec # 0
        PROVE  /\ wa'[g].rec <= file'.count /\ owner'[wa'[g].rec] = g
               /\ wa'[g].buf = file'.rows[wa'[g].rec]
    <3>1. CASE g = h
      BY <1>1, <1>2, <1>5, <1>6, <3>1
    <3>2. CASE g # h
      <4>1. wa[g].fresh /\ wa[g].rec # 0 /\ wa'[g] = wa[g]
        BY <1>5, <2>1, <3>2
      <4>2. /\ wa[g].rec <= file.count /\ owner[wa[g].rec] = g
            /\ wa[g].buf = file.rows[wa[g].rec]
        BY <4>1 DEF Sound, FreshIsTrue
      <4>3. wa[g].rec \in 1..file.count /\ wa[g].rec # r
        BY <1>1, <3>2, <4>1, <4>2, Numbers
      <4>4. wa[g].rec \in DOMAIN file.rows
        BY <4>3 DEF Sound, RowsTrue, OnDisk
      <4> QED
        BY <1>5, <1>6, <4>1, <4>2, <4>3, <4>4
    <3> QED
      BY <3>1, <3>2
  <2> QED
    BY <2>1 DEF FreshIsTrue
<1> QED
    BY <1>8, <1>10, <1>11, <1>12, <1>13, <1>14, <1>15 DEF Sound

LEMMA AppendRecordSound ==
    ASSUME Shape, Sound, NEW h \in Handles, AppendRecord(h)
    PROVE  Sound'
<1>1. /\ drv'[h].open = drv[h].open /\ drv'[h].count = drv[h].count
      /\ \A g \in Handles \ {h} : drv'[g] = drv[g] /\ call'[g] = call[g]
      /\ call[h].op = "idle" /\ call'[h].op = "append"
      /\ file'.count = file.count /\ file'.rows = file.rows
      /\ UNCHANGED <<header, owner, wa, truth>>
    BY AppendRecordShape
<1>2. drv[h].open
    BY DEF AppendRecord, Ready
<1>3. header # h
    BY <1>1 DEF Sound, HeaderHeld
<1>4. NotPacking /\ NotPacking'
  <2>1. NotPacking
    BY <1>1, <1>2, NobodyPacks DEF Sound
  <2> QED
    BY <1>1, <2>1 DEF NotPacking
<1>5. OpenOrIdle'
    BY <1>1, <1>2 DEF Sound, OpenOrIdle
<1>6. HeaderHeld'
    BY <1>1, <1>3 DEF Sound, HeaderHeld, OnDisk
<1>7. CountsBehind'
    BY <1>1 DEF Sound, CountsBehind
<1>8. PackAlone' /\ TruthToAppend'
    BY <1>4 DEF PackAlone, TruthToAppend, NotPacking
<1>9. RowsTrue' /\ TruthOnFile'
    BY <1>1, <1>4 DEF Sound, RowsTrue, TruthOnFile, OnDisk
<1>10. FreshIsTrue'
    BY <1>1 DEF Sound, FreshIsTrue
<1> QED
    BY <1>5, <1>6, <1>7, <1>8, <1>9, <1>10 DEF Sound

LEMMA AppendRowSound ==
    ASSUME Shape, Sound, NEW h \in Handles, AppendRow(h)
    PROVE  Sound'
<1> DEFINE r == file.count + 1
<1>1. /\ drv'[h].open = drv[h].open /\ drv'[h].count = r
      /\ \A g \in Handles \ {h} : drv'[g] = drv[g] /\ call'[g] = call[g]
      /\ call[h].op = "append" /\ call'[h].op = "header"
      /\ call'[h].rec = r
      /\ header = NoHandle /\ header' = h /\ file'.count = file.count
      /\ DOMAIN file'.rows = DOMAIN file.rows \cup {r}
      /\ file'.rows[r] = FreshRow(call'[h].num)
      /\ \A x \in DOMAIN file.rows : x # r => file'.rows[x] = file.rows[x]
      /\ UNCHANGED <<owner, wa, truth>>
    BY AppendRowShape
<1>2. drv[h].open
    BY <1>1 DEF Sound, OpenOrIdle
<1>3. NotPacking /\ NotPacking'
  <2>1. NotPacking
    BY <1>1, <1>2, NobodyPacks DEF Sound
  <2> QED
    BY <1>1, <2>1 DEF NotPacking
<1>4. \A x \in 1..file.count : x # r
    BY Numbers
<1>5. r = file'.count + 1
    BY <1>1
<1> HIDE DEF r
<1>6. OpenOrIdle'
    BY <1>1, <1>2 DEF Sound, OpenOrIdle
<1>7. HeaderHeld'
  <2>1. \A g \in Handles \ {h} : call[g].op # "header"
    BY <1>1, SharedTableAssumption DEF Sound, HeaderHeld
  <2>2. file'.count + 1 \in DOMAIN file'.rows
    BY <1>1, <1>5
  <2>3. ASSUME NEW g \in Handles
        PROVE  /\ call'[g].op = "header" <=> header' = g
               /\ header' = g => /\ call'[g].rec = file'.count + 1 /\ drv'[g].count = file'.count + 1
                                 /\ file'.count + 1 \in DOMAIN file'.rows
                                 /\ file'.rows[file'.count + 1] = FreshRow(call'[g].num)
    BY <1>1, <1>5, <2>1, <2>2
  <2> QED
    BY <2>3 DEF HeaderHeld, OnDisk
<1>8. CountsBehind'
    BY <1>1, SharedTableAssumption DEF Sound, CountsBehind
<1>9. PackAlone' /\ TruthToAppend'
    BY <1>3 DEF PackAlone, TruthToAppend, NotPacking
<1>10. RowsTrue' /\ TruthOnFile'
    BY <1>1, <1>3, <1>4 DEF Sound, RowsTrue, TruthOnFile, OnDisk
<1>11. FreshIsTrue'
  <2>1. ASSUME NEW g \in Handles, wa[g].fresh, wa[g].rec # 0
        PROVE  /\ wa[g].rec <= file.count /\ owner[wa[g].rec] = g
               /\ wa[g].buf = file'.rows[wa[g].rec]
    <3>1. /\ wa[g].rec <= file.count /\ owner[wa[g].rec] = g
          /\ wa[g].buf = file.rows[wa[g].rec]
      BY <2>1 DEF Sound, FreshIsTrue
    <3>2. wa[g].rec \in 1..file.count
      BY <2>1, <3>1, Numbers
    <3>3. wa[g].rec \in DOMAIN file.rows
      BY <3>2 DEF Sound, RowsTrue, OnDisk
    <3> QED
      BY <1>1, <1>4, <3>1, <3>2, <3>3
  <2> QED
    BY <1>1, <2>1 DEF FreshIsTrue
<1> QED
    BY <1>6, <1>7, <1>8, <1>9, <1>10, <1>11 DEF Sound

LEMMA AppendRefusedSound ==
    ASSUME Shape, Sound, NEW h \in Handles, AppendRefused(h)
    PROVE  Sound'
<1>1. /\ call[h].op = "append" /\ call'[h].op = "idle"
      /\ \A g \in Handles \ {h} : call'[g] = call[g]
      /\ UNCHANGED <<file, header, owner, drv, wa, truth>>
    BY AppendRefusedShape
<1>2. header # h
    BY <1>1 DEF Sound, HeaderHeld
<1>3. OpenOrIdle'
    BY <1>1 DEF Sound, OpenOrIdle
<1>4. HeaderHeld'
    BY <1>1, <1>2 DEF Sound, HeaderHeld, OnDisk
<1>5. CountsBehind' /\ PackAlone' /\ FreshIsTrue'
    BY <1>1 DEF Sound, CountsBehind, PackAlone, FreshIsTrue
<1>6. RowsTrue' /\ TruthOnFile' /\ TruthToAppend'
    BY <1>1 DEF Sound, RowsTrue, TruthOnFile, TruthToAppend, OnDisk, NotPacking
<1> QED
    BY <1>3, <1>4, <1>5, <1>6 DEF Sound

LEMMA AppendHeaderSound ==
    ASSUME Shape, Sound, NEW h \in Handles, AppendHeader(h)
    PROVE  Sound'
<1> DEFINE r == call[h].rec
           new == FreshRow(call[h].num)
<1>1. /\ drv'[h].open = drv[h].open /\ drv'[h].count \in {drv[h].count, file.count}
      /\ \A g \in Handles \ {h} : drv'[g] = drv[g] /\ call'[g] = call[g] /\ wa'[g] = wa[g]
      /\ call[h].op = "header" /\ call'[h].op = "idle" /\ header' = NoHandle
      /\ file'.count = drv[h].count /\ file'.rows = file.rows
      /\ DOMAIN truth' = DOMAIN truth \cup {r} /\ truth'[r] = new
      /\ \A x \in DOMAIN truth : x # r => truth'[x] = truth[x]
      /\ wa'[h].rec = r /\ wa'[h].buf = new
      /\ wa'[h].fresh => owner'[r] = h
      /\ \A x \in Recs : owner[x] # NoHandle => owner'[x] = owner[x]
    BY AppendHeaderShape
<1> HIDE DEF new
<1>2. /\ header = h /\ r = file.count + 1 /\ file'.count = r
      /\ OnDisk(r) /\ file.rows[r] = new
    BY <1>1 DEF Sound, HeaderHeld, new
<1>3. drv[h].open
    BY <1>1 DEF Sound, OpenOrIdle
<1>4. NotPacking /\ NotPacking'
  <2>1. NotPacking
    BY <1>1, <1>3, NobodyPacks DEF Sound
  <2> QED
    BY <1>1, <2>1 DEF NotPacking
<1>5. file.count \in Nat /\ \A x \in 1..file.count : x # r
    BY <1>2, Numbers
<1>6. OpenOrIdle'
    BY <1>1, <1>3 DEF Sound, OpenOrIdle
<1>7. HeaderHeld'
    BY <1>1, <1>2, SharedTableAssumption DEF Sound, HeaderHeld
<1>8. CountsBehind'
  <2>1. drv'[h].count <= file'.count
    BY <1>1, <1>2, <1>5
  <2>2. \A g \in Handles \ {h} : drv[g].count <= file'.count
    <3>1. \A g \in Handles \ {h} : drv[g].count <= file.count
      BY <1>2 DEF Sound, CountsBehind
    <3> QED
      BY <1>2, <1>5, <3>1, Numbers
  <2> QED
    BY <1>1, <2>1, <2>2 DEF CountsBehind
<1>9. PackAlone' /\ TruthToAppend'
    BY <1>4 DEF PackAlone, TruthToAppend, NotPacking
<1> HIDE DEF r
<1>10. 1..file'.count = 1..file.count \cup {r}
    BY <1>2, <1>5
<1>11. RowsTrue'
  <2>1. ASSUME NEW x \in 1..file'.count
        PROVE  OnDisk(x)' /\ x \in DOMAIN truth' /\ file'.rows[x] = truth'[x]
    <3>1. CASE x = r
      BY <1>1, <1>2, <3>1 DEF OnDisk
    <3>2. CASE x \in 1..file.count
      <4>1. OnDisk(x) /\ x \in DOMAIN truth /\ file.rows[x] = truth[x] /\ x # r
        BY <1>5, <3>2 DEF Sound, RowsTrue
      <4> QED
        BY <1>1, <4>1 DEF OnDisk
    <3> QED
      BY <1>10, <3>1, <3>2
  <2> QED
    BY <2>1 DEF RowsTrue
<1>12. TruthOnFile'
    BY <1>1, <1>4, <1>10 DEF Sound, TruthOnFile
<1>13. FreshIsTrue'
  <2>1. ASSUME NEW g \in Handles, wa'[g].fresh, wa'[g].rec # 0
        PROVE  /\ wa'[g].rec <= file'.count /\ owner'[wa'[g].rec] = g
               /\ wa'[g].buf = file'.rows[wa'[g].rec]
    <3>1. CASE g = h
      BY <1>1, <1>2, <1>5, <2>1, <3>1
    <3>2. CASE g # h
      <4>1. wa[g].fresh /\ wa[g].rec # 0 /\ wa'[g] = wa[g]
        BY <1>1, <2>1, <3>2
      <4>2. /\ wa[g].rec <= file.count /\ owner[wa[g].rec] = g
            /\ wa[g].buf = file.rows[wa[g].rec]
        BY <4>1 DEF Sound, FreshIsTrue
      <4>3. wa[g].rec \in Recs /\ wa[g].rec <= r
        BY <1>2, <1>5, <4>1, <4>2, Numbers
      <4> QED
        BY <1>1, <1>2, <4>1, <4>2, <4>3, SharedTableAssumption
    <3> QED
      BY <3>1, <3>2
  <2> QED
    BY <2>1 DEF FreshIsTrue
<1> QED
    BY <1>6, <1>7, <1>8, <1>9, <1>11, <1>12, <1>13 DEF Sound

LEMMA ZapSound ==
    ASSUME Careful, Shape, Sound, NEW h \in Handles, ZapTable(h)
    PROVE  Sound'
<1>1. /\ drv'[h].open = drv[h].open /\ drv'[h].count = 0
      /\ \A g \in Handles \ {h} : drv'[g] = drv[g] /\ wa'[g] = wa[g]
      /\ wa'[h].rec = 0 /\ file'.count = 0 /\ DOMAIN truth' = {}
      /\ UNCHANGED <<header, owner, call>>
    BY ZapShape, SomeWorkAreas
<1>2. /\ drv[h].open /\ call[h].op = "idle"
      /\ \A g \in Handles \ {h} : ~drv[g].open
    BY DEF ZapTable, MayMaintain, Ready, Careful
<1>3. \A g \in Handles : /\ call'[g].op = "idle" /\ header' # g /\ drv'[g].count = 0
                         /\ wa'[g].rec = 0
    BY <1>1, <1>2, AloneIsIdle DEF Sound, HeaderHeld
<1>4. OpenOrIdle' /\ HeaderHeld' /\ CountsBehind'
    BY <1>1, <1>3 DEF OpenOrIdle, HeaderHeld, CountsBehind
<1>5. PackAlone' /\ TruthToAppend' /\ FreshIsTrue'
    BY <1>3 DEF PackAlone, TruthToAppend, FreshIsTrue
<1>6. RowsTrue' /\ TruthOnFile'
    BY <1>1 DEF RowsTrue, TruthOnFile
<1> QED
    BY <1>4, <1>5, <1>6 DEF Sound

\* The rows that are not deleted are the true ones that are not, and as many
\* are still to be appended.
LEMMA PackSound ==
    ASSUME Careful, Shape, Sound, NEW h \in Handles, PackTable(h)
    PROVE  Sound'
<1> DEFINE keep == Survivors(h)
           todo == call'[h].todo
<1>1. /\ drv'[h].open = drv[h].open /\ drv'[h].count = 0
      /\ \A g \in Handles \ {h} : drv'[g] = drv[g] /\ wa'[g] = wa[g] /\ call'[g] = call[g]
      /\ wa'[h].rec = 0 /\ file'.count = 0
      /\ call[h].op = "idle" /\ call'[h].op = "pack"
      /\ todo = Packed(file.rows, keep)
      /\ truth' = Packed(truth, AllLeft)
      /\ UNCHANGED <<header, owner>>
    BY PackShape, SomeWorkAreas
<1>2. /\ drv[h].open /\ call[h].op = "idle" /\ drv[h].count = file.count
      /\ \A g \in Handles \ {h} : ~drv[g].open
    BY DEF PackTable, MayMaintain, Ready, Careful
<1>3. \A g \in Handles : /\ g # h => call'[g].op = "idle"
                         /\ header' # g /\ drv'[g].count = 0 /\ wa'[g].rec = 0
    BY <1>1, <1>2, AloneIsIdle DEF Sound, HeaderHeld
<1>4. OpenOrIdle' /\ HeaderHeld' /\ CountsBehind'
  <2>1. OpenOrIdle'
    BY <1>1, <1>2, <1>3 DEF OpenOrIdle
  <2>2. HeaderHeld'
    <3>1. \A g \in Handles : call'[g].op # "header" /\ header' # g
      BY <1>1, <1>3
    <3> QED
      BY <3>1 DEF HeaderHeld
  <2>3. CountsBehind'
    BY <1>1, <1>3 DEF CountsBehind
  <2> QED
    BY <2>1, <2>2, <2>3
<1>5. PackAlone' /\ FreshIsTrue' /\ RowsTrue' /\ TruthOnFile'
    BY <1>1, <1>2, <1>3 DEF PackAlone, FreshIsTrue, RowsTrue, TruthOnFile, NotPacking
<1>6. /\ DOMAIN truth = 1..file.count /\ truth \in RowMaps /\ file.rows \in RowMaps
      /\ file.count \in 0..MaxRows /\ MaxRows \in Nat
      /\ \A r \in 1..file.count : r \in DOMAIN file.rows /\ file.rows[r] = truth[r]
  <2>1. NotPacking
    BY <1>2, NobodyPacks DEF Sound
  <2> QED
    BY <2>1, Numbers DEF Sound, TruthOnFile, RowsTrue, OnDisk, Shape
<1>7. /\ keep = AllLeft /\ keep \in Seq(1..file.count) /\ Len(keep) \in 0..MaxRows
  <2> DEFINE S == {r \in 1..file.count : ~file.rows[r].del}
             T == {r \in DOMAIN truth : ~truth[r].del}
  <2>1. S = T
    BY <1>6
  <2>2. S \in SUBSET (1..file.count) /\ file.count \in Nat
    BY <1>6
  <2>3. keep = Ascending(S) /\ AllLeft = Ascending(T)
    BY <1>2 DEF Survivors, AllLeft
  <2> HIDE DEF S, T
  <2>4. Ascending(S) \in Seq(S) /\ Len(Ascending(S)) \in 0..file.count
    BY <2>2, AscendingNumbers
  <2>5. Ascending(S) \in Seq(1..file.count)
    BY <2>2, <2>4, ListGrows
  <2>6. Len(Ascending(S)) \in 0..MaxRows
    BY <1>6, <2>4
  <2> QED
    BY <2>1, <2>3, <2>5, <2>6
<1> HIDE DEF keep
<1>8. /\ todo \in Seq(Row) /\ Len(todo) = Len(keep)
      /\ \A i \in 1..Len(keep) : todo[i] = file.rows[keep[i]]
  <2>1. keep \in Seq(DOMAIN file.rows)
    BY <1>6, <1>7, ListGrows
  <2> QED
    BY <1>1, <1>6, <1>7, <2>1, PackedRows
<1>9. /\ DOMAIN truth' = 1..Len(keep)
      /\ \A i \in 1..Len(keep) : truth'[i] = truth[keep[i]]
  <2>1. keep \in Seq(DOMAIN truth) /\ truth' = Packed(truth, keep)
    BY <1>1, <1>6, <1>7
  <2> QED
    BY <1>6, <1>7, <2>1, PackedRows
<1>10. \A i \in 1..Len(keep) : todo[i] = truth'[i]
  <2>1. \A i \in 1..Len(keep) : keep[i] \in 1..file.count
    BY <1>7, ElementOfSeq
  <2> QED
    BY <1>6, <1>8, <1>9, <2>1
<1>11. Len(keep) \in Nat
    BY <1>7
<1> HIDE DEF todo
<1>12. TruthToAppend'
  <2>1. DOMAIN truth' = 1..(file'.count + Len(todo))
    BY <1>1, <1>8, <1>9, <1>11
  <2>2. \A i \in 1..Len(todo) : truth'[file'.count + i] = todo[i]
    BY <1>1, <1>8, <1>10
  <2>3. \A g \in Handles : call'[g].op = "pack" => g = h
    BY <1>3
  <2> QED
    BY <2>1, <2>2, <2>3 DEF TruthToAppend, todo
<1> QED
    BY <1>4, <1>5, <1>12 DEF Sound

LEMMA PackAppendSound ==
    ASSUME Shape, Sound, NEW h \in Handles, PackAppend(h)
    PROVE  Sound'
<1> DEFINE r == file.count + 1
           todo == call[h].todo
           n == Len(todo)
<1>1. /\ drv'[h].open = drv[h].open /\ drv'[h].count = r
      /\ \A g \in Handles \ {h} : drv'[g] = drv[g] /\ call'[g] = call[g]
      /\ call[h].op = "pack" /\ call'[h].op = "pack"
      /\ todo \in Seq(Row) /\ todo # <<>> /\ call'[h].todo = Tail(todo)
      /\ file'.count = r
      /\ DOMAIN file'.rows = DOMAIN file.rows \cup {r}
      /\ file'.rows[r] = Head(todo)
      /\ \A x \in DOMAIN file.rows : x # r => file'.rows[x] = file.rows[x]
      /\ UNCHANGED <<header, owner, wa, truth>>
    BY PackAppendShape
<1>2. /\ \A g \in Handles \ {h} : ~drv[g].open
      /\ drv[h].open /\ wa[h].rec = 0 /\ header # h
    BY <1>1 DEF Sound, PackAlone, OpenOrIdle, HeaderHeld
<1>3. \A g \in Handles \ {h} :
        call[g].op = "idle" /\ header # g /\ drv[g].count = 0 /\ wa[g].rec = 0
    BY <1>2, AloneIsIdle
<1>4. /\ DOMAIN truth = 1..(file.count + n)
      /\ \A i \in 1..n : truth[file.count + i] = todo[i]
    BY <1>1 DEF Sound, TruthToAppend
<1>5. /\ n \in Nat /\ n > 0 /\ Head(todo) = todo[1] /\ Len(Tail(todo)) = n - 1
      /\ \A i \in 1..(n - 1) : Tail(todo)[i] = todo[i + 1]
  <2>1. todo \in Seq(Row) /\ todo # <<>>
    BY <1>1
  <2> HIDE DEF todo
  <2>2. n \in Nat /\ n # 0
    BY <2>1, LenProperties, EmptySeq
  <2> QED
    BY <2>1, <2>2, HeadTailProperties
<1> HIDE DEF todo, n
<1>6. file.count \in Nat /\ r \in Nat
    BY Numbers
<1>7. OpenOrIdle' /\ HeaderHeld'
    BY <1>1, <1>2, <1>3 DEF OpenOrIdle, HeaderHeld
<1>8. CountsBehind' /\ PackAlone' /\ FreshIsTrue' /\ TruthOnFile'
    BY <1>1, <1>2, <1>3, <1>6 DEF CountsBehind, PackAlone, FreshIsTrue, TruthOnFile, NotPacking
<1>9. RowsTrue'
  <2>1. 1..r = 1..file.count \cup {r} /\ \A x \in 1..file.count : x # r
    BY <1>6
  <2>2. r \in DOMAIN truth /\ truth[r] = Head(todo)
    BY <1>4, <1>5, <1>6
  <2> HIDE DEF r
  <2>3. ASSUME NEW x \in 1..r
        PROVE  x \in DOMAIN file'.rows /\ x \in DOMAIN truth /\ file'.rows[x] = truth[x]
    <3>1. CASE x = r
      BY <1>1, <2>2, <3>1
    <3>2. CASE x \in 1..file.count
      <4>1. x \in DOMAIN file.rows /\ x \in DOMAIN truth /\ file.rows[x] = truth[x] /\ x # r
        BY <2>1, <3>2 DEF Sound, RowsTrue, OnDisk
      <4> QED
        BY <1>1, <4>1
    <3> QED
      BY <2>1, <3>1, <3>2
  <2> QED
    BY <1>1, <2>3 DEF RowsTrue, OnDisk
<1>10. TruthToAppend'
  <2>1. DOMAIN truth' = 1..(r + Len(Tail(todo)))
    BY <1>1, <1>4, <1>5, <1>6
  <2>2. \A i \in 1..Len(Tail(todo)) : truth'[r + i] = Tail(todo)[i]
    <3> SUFFICES ASSUME NEW i \in 1..(n - 1)
                 PROVE  truth'[r + i] = Tail(todo)[i]
      BY <1>5
    <3>1. i + 1 \in 1..n /\ file.count + (i + 1) = r + i
      BY <1>5, <1>6
    <3>2. truth[file.count + (i + 1)] = todo[i + 1]
      BY <1>4, <3>1
    <3> QED
      BY <1>1, <1>5, <3>1, <3>2
  <2>3. \A g \in Handles : call'[g].op = "pack" => g = h
    BY <1>1, <1>3
  <2> HIDE DEF r
  <2> QED
    BY <1>1, <2>1, <2>2, <2>3 DEF TruthToAppend
<1> QED
    BY <1>7, <1>8, <1>9, <1>10 DEF Sound

LEMMA PackFinishSound ==
    ASSUME Shape, Sound, NEW h \in Handles, PackFinish(h)
    PROVE  Sound'
<1>1. /\ call[h].op = "pack" /\ call[h].todo = <<>> /\ call'[h].op = "idle"
      /\ \A g \in Handles \ {h} : call'[g] = call[g]
      /\ UNCHANGED <<file, header, owner, drv, wa, truth>>
    BY PackFinishShape
<1>2. header # h
    BY <1>1 DEF Sound, HeaderHeld
<1>3. OpenOrIdle'
    BY <1>1 DEF Sound, OpenOrIdle
<1>4. HeaderHeld'
    BY <1>1, <1>2 DEF Sound, HeaderHeld, OnDisk
<1>5. CountsBehind' /\ PackAlone' /\ FreshIsTrue'
    BY <1>1 DEF Sound, CountsBehind, PackAlone, FreshIsTrue
<1>6. RowsTrue' /\ TruthToAppend'
    BY <1>1 DEF Sound, RowsTrue, TruthToAppend, OnDisk
<1>7. TruthOnFile'
  <2>1. DOMAIN truth = 1..(file.count + Len(call[h].todo))
    BY <1>1 DEF Sound, TruthToAppend
  <2>2. Len(call[h].todo) = 0
    BY <1>1, EmptySeq
  <2>3. DOMAIN truth = 1..file.count
    BY <2>1, <2>2, Numbers
  <2> QED
    BY <1>1, <2>3 DEF TruthOnFile
<1> QED
    BY <1>3, <1>4, <1>5, <1>6, <1>7 DEF Sound

\* The blank state keeps every promise.
LEMMA InitSound ==
    Init => Sound
<1> SUFFICES ASSUME Init PROVE Sound
    OBVIOUS
<1>1. \A h \in Handles : /\ call[h].op = "idle" /\ header # h /\ drv[h].count = 0
                         /\ wa[h].rec = 0
    BY SharedTableAssumption DEF Init, Idle, Closed, Nowhere
<1>2. file.count = 0 /\ DOMAIN truth = {}
    BY NoRows DEF Init
<1>3. OpenOrIdle /\ HeaderHeld /\ CountsBehind
    BY <1>1, <1>2 DEF OpenOrIdle, HeaderHeld, CountsBehind
<1>4. PackAlone /\ TruthToAppend /\ FreshIsTrue
    BY <1>1 DEF PackAlone, TruthToAppend, FreshIsTrue
<1>5. RowsTrue /\ TruthOnFile
    BY <1>2 DEF RowsTrue, TruthOnFile
<1> QED
    BY <1>3, <1>4, <1>5 DEF Sound

\* Every step keeps the promises.
LEMMA StepSound ==
    ASSUME Careful, Shape, Sound, kind # "ntx", [Next]_vars
    PROVE  Sound'
<1>1. CASE UNCHANGED vars
  <2>1. UNCHANGED <<kind, file, header, owner, drv, wa, call, truth>>
    BY <1>1 DEF vars
  <2>2. OpenOrIdle' /\ HeaderHeld' /\ CountsBehind' /\ PackAlone'
    BY <2>1 DEF Sound, OpenOrIdle, HeaderHeld, CountsBehind, PackAlone, OnDisk
  <2>3. RowsTrue' /\ TruthOnFile' /\ TruthToAppend' /\ FreshIsTrue'
    BY <2>1 DEF Sound, RowsTrue, TruthOnFile, TruthToAppend, FreshIsTrue, OnDisk, NotPacking
  <2> QED
    BY <2>2, <2>3 DEF Sound
<1>2. ASSUME NEW h \in Handles,
             Open(h) \/ Close(h) \/ AppendRecord(h) \/ AppendRow(h) \/ AppendRefused(h)
               \/ AppendHeader(h) \/ ZapTable(h) \/ PackTable(h) \/ PackAppend(h) \/ PackFinish(h)
      PROVE  Sound'
  <2>1. CASE Open(h)
    BY <2>1, OpenSound
  <2>2. CASE Close(h)
    BY <2>2, CloseSound
  <2>3. CASE AppendRecord(h)
    BY <2>3, AppendRecordSound
  <2>4. CASE AppendRow(h)
    BY <2>4, AppendRowSound
  <2>5. CASE AppendRefused(h)
    BY <2>5, AppendRefusedSound
  <2>6. CASE AppendHeader(h)
    BY <2>6, AppendHeaderSound
  <2>7. CASE ZapTable(h)
    BY <2>7, ZapSound
  <2>8. CASE PackTable(h)
    BY <2>8, PackSound
  <2>9. CASE PackAppend(h)
    BY <2>9, PackAppendSound
  <2>10. CASE PackFinish(h)
    BY <2>10, PackFinishSound
  <2> QED
    BY <1>2, <2>1, <2>2, <2>3, <2>4, <2>5, <2>6, <2>7, <2>8, <2>9, <2>10
<1>3. ASSUME NEW h \in Handles, NEW r \in Recs, GotoRecord(h, r) \/ LockRecord(h, r) \/ UnlockRecord(h, r)
      PROVE  Sound'
    BY <1>3, GotoSound, LockSound, UnlockSound
<1>4. ASSUME NEW h \in Handles, NEW delta \in {-1, 1}, Skip(h, delta)
      PROVE  Sound'
    BY <1>4, SkipSound
<1>5. ASSUME NEW h \in Handles, MayWrite(h), \E row, true : Writes(h, row, true)
      PROVE  Sound'
    BY <1>5, WriteSound
<1>6. ASSUME NEW h \in Handles, NEW x \in Fields, NEW v \in Values, SetField(h, x, v)
      PROVE  Sound'
    BY <1>5, <1>6, SetFieldWrites DEF SetField
<1>7. ASSUME NEW h \in Handles, NEW b \in BOOLEAN, MarkDeleted(h, b)
      PROVE  Sound'
    BY <1>5, <1>7, MarkDeletedWrites DEF MarkDeleted
<1>8. ASSUME NEW h \in Handles, NEW n \in MemoSizes, SetMemo(h, n)
      PROVE  Sound'
    BY <1>5, <1>8, SetMemoWrites DEF SetMemo
<1> QED
    BY <1>1, <1>2, <1>3, <1>4, <1>6, <1>7, <1>8 DEF Next

-----------------------------------------------------------------------------
(* Memos *)

\* A second hypothesis, for memos only: one handle stores them.
OneWriter == \A g, h \in MemoWriters : g = h

\* The blocks of a stored memo hold it, below the next free block.
KeptWhole(s) ==
    \E g \in MemoWriters, n \in MemoSizes :
      /\ s.memo = Payload(g, n) /\ s.ref.len = n /\ s.ref.block \in Nat
      /\ s.ref.block + BlocksFor(n) <= memo.next
      /\ \A i \in 1..(BlocksFor(n) * BlockUnits) :
           /\ Offset(s.ref.block) + i \in DOMAIN memo.units
           /\ memo.units[Offset(s.ref.block) + i] = Units(s.memo)[i]
MemosWhole == \A r \in DOMAIN stored : KeptWhole(stored[r])

\* The writer's next block is the one of the file.
NextBlockKnown == \A h \in MemoWriters : drv[h].open => drv[h].mnext = memo.next

MInv == Shape /\ NextBlockKnown /\ MemosWhole

\* More blocks have more room.
LEMMA MoreBlocks ==
    ASSUME NEW a \in Nat, NEW b \in Nat, a <= b, NEW u \in Nat
    PROVE  a * u <= b * u /\ a * u \in Nat /\ (a + b) * u = a * u + b * u
OBVIOUS

\* Blocks have room for what they were counted for.
LEMMA CeilRoom ==
    ASSUME NEW n \in Nat, NEW d \in Nat \ {0}
    PROVE  Ceil(n, d) \in Nat /\ n <= Ceil(n, d) * d
<1>1. ASSUME NEW m \in Nat
      PROVE  m \div d \in Nat /\ m < (m \div d) * d + d
    OBVIOUS
<1>2. n + d - 1 \in Nat /\ Ceil(n, d) = (n + d - 1) \div d
    BY DEF Ceil
<1>3. Ceil(n, d) \in Nat /\ n + d - 1 < Ceil(n, d) * d + d
    BY <1>1, <1>2
<1> QED
    BY <1>3, MoreBlocks

\* An entry fits the blocks counted for it.
LEMMA EntryFits ==
    ASSUME kind \in Kinds, NEW n \in Nat
    PROVE  /\ BlocksFor(n) \in Nat /\ BlocksFor(n) * BlockUnits \in Nat
           /\ kind = "cdx" => n + 1 <= BlocksFor(n) * BlockUnits
           /\ kind = "adt" => n <= BlocksFor(n) * BlockUnits
<1> USE SharedTableAssumption
<1>1. BlocksFor(n) \in Nat
    BY BlocksAreNumbers
<1>2. BlocksFor(n) * BlockUnits \in Nat
    BY <1>1, MoreBlocks
<1>3. ASSUME kind = "cdx" PROVE n + 1 <= BlocksFor(n) * BlockUnits
    BY <1>3, CeilRoom DEF BlocksFor, FptBlocks
<1>4. ASSUME kind = "adt" PROVE n <= BlocksFor(n) * BlockUnits
  <2> DEFINE c == Ceil(n, BlockUnits)
             m == Max({1, c})
  <2>1. c \in Nat /\ n <= c * BlockUnits
    BY CeilRoom
  <2>2. BlocksFor(n) = m
    BY <1>4 DEF BlocksFor, AdmBlocks
  <2> HIDE DEF c
  <2>3. {1, c} \in SUBSET Int /\ {1, c} # {} /\ 1 + c \in Int /\ \A x \in {1, c} : x <= 1 + c
    BY <2>1
  <2>4. m \in {1, c} /\ c <= m
    BY <2>3, MaxOfSet
  <2> HIDE DEF m
  <2>5. m \in Nat /\ c * BlockUnits <= m * BlockUnits
    BY <2>1, <2>4, MoreBlocks
  <2>6. m * BlockUnits \in Nat /\ c * BlockUnits \in Nat
    BY <2>1, <2>5, MoreBlocks
  <2> QED
    BY <2>1, <2>2, <2>5, <2>6
<1> QED
    BY <1>1, <1>2, <1>3, <1>4

\* The units of a payload.
LEMMA UnitsOfPayload ==
    ASSUME kind \in Kinds, NEW g, NEW n \in Nat
    PROVE  /\ Len(Payload(g, n)) = n
           /\ Len(Units(Payload(g, n))) = BlocksFor(n) * BlockUnits
           /\ kind = "cdx" => /\ Units(Payload(g, n))[1] = <<"len", n>>
                              /\ \A i \in 1..n : Units(Payload(g, n))[i + 1] = Payload(g, n)[i]
                              /\ n + 1 <= BlocksFor(n) * BlockUnits
           /\ kind = "adt" => /\ \A i \in 1..n : Units(Payload(g, n))[i] = Payload(g, n)[i]
                              /\ n <= BlocksFor(n) * BlockUnits
<1> DEFINE p == Payload(g, n)
           size == BlocksFor(n) * BlockUnits
           e == Entry(p)
<1>1. p \in Seq({<<g, i>> : i \in 1..n}) /\ Len(p) = n /\ DOMAIN p = 1..n
    BY DEF Payload
<1>2. size \in Nat /\ (kind = "cdx" => n + 1 <= size) /\ (kind = "adt" => n <= size)
    BY EntryFits
<1> HIDE DEF p, size
<1>3. Units(p) = [i \in 1..size |-> IF i \in DOMAIN e THEN e[i] ELSE <<"pad">>]
    BY <1>1 DEF Units, size
<1>4. ASSUME kind = "cdx"
      PROVE  DOMAIN e = 1..(n + 1) /\ e[1] = <<"len", n>> /\ \A i \in 1..n : e[i + 1] = p[i]
  <2> DEFINE one == <<"len", n>>
  <2>1. e = <<one>> \o p
    BY <1>1, <1>4 DEF Entry, FptEntry
  <2> HIDE DEF one, e
  <2>2. <<one>> \in Seq({one} \cup {<<g, i>> : i \in 1..n}) /\ Len(<<one>>) = 1 /\ <<one>>[1] = one
    OBVIOUS
  <2>3. p \in Seq({one} \cup {<<g, i>> : i \in 1..n})
    BY <1>1, ListGrows
  <2>4. /\ Len(<<one>> \o p) = n + 1 /\ DOMAIN (<<one>> \o p) = 1..(n + 1)
        /\ (<<one>> \o p)[1] = one /\ \A i \in 1..n : (<<one>> \o p)[i + 1] = p[i]
    BY <1>1, <2>2, <2>3
  <2> QED
    BY <2>1, <2>4 DEF one
<1>5. ASSUME kind = "adt" PROVE e = p
    BY <1>5 DEF Entry
<1> HIDE DEF e
<1>6. Len(Units(p)) = size /\ \A i \in 1..size : i \in DOMAIN e => Units(p)[i] = e[i]
    BY <1>2, <1>3
<1>7. ASSUME kind = "cdx"
      PROVE  Units(p)[1] = <<"len", n>> /\ \A i \in 1..n : Units(p)[i + 1] = p[i]
  <2>1. 1 \in 1..size /\ 1 \in 1..(n + 1) /\ \A i \in 1..n : i + 1 \in 1..size /\ i + 1 \in 1..(n + 1)
    BY <1>2, <1>7
  <2> QED
    BY <1>4, <1>6, <1>7, <2>1
<1>8. ASSUME kind = "adt"
      PROVE  \A i \in 1..n : Units(p)[i] = p[i]
  <2>1. \A i \in 1..n : i \in 1..size
    BY <1>2, <1>8
  <2> QED
    BY <1>1, <1>5, <1>6, <1>8, <2>1
<1> QED
    BY <1>1, <1>2, <1>6, <1>7, <1>8 DEF p, size

\* A window whose units are all there.
LEMMA WholeWindow ==
    ASSUME NEW from \in Nat, NEW n \in Nat, \A i \in 1..n : from + i \in DOMAIN memo.units
    PROVE  Window(from, n) = [i \in 1..n |-> memo.units[from + i]]
<1>1. {x \in (from + 1)..(from + n) : x \in DOMAIN memo.units} = (from + 1)..(from + n)
  <2>1. \A x \in (from + 1)..(from + n) : x - from \in 1..n /\ from + (x - from) = x
    OBVIOUS
  <2> QED
    BY <2>1
<1>2. Cardinality((from + 1)..(from + n)) = n
  <2>1. Cardinality((from + 1)..(from + n)) =
          IF from + 1 > from + n THEN 0 ELSE (from + n) - (from + 1) + 1
    BY FS_Interval
  <2> QED
    BY <2>1
<1> QED
    BY <1>1, <1>2 DEF Window

\* What is whole is read back.
LEMMA WholeIsRead ==
    ASSUME Shape, kind # "ntx", NEW s, KeptWhole(s)
    PROVE  MemoRead(s.ref) = s.memo
<1> USE SharedTableAssumption
<1>1. PICK g \in MemoWriters, n \in MemoSizes :
        /\ s.memo = Payload(g, n) /\ s.ref.len = n /\ s.ref.block \in Nat
        /\ \A i \in 1..(BlocksFor(n) * BlockUnits) :
             /\ Offset(s.ref.block) + i \in DOMAIN memo.units
             /\ memo.units[Offset(s.ref.block) + i] = Units(s.memo)[i]
    BY DEF KeptWhole
<1> DEFINE o == Offset(s.ref.block)
           size == BlocksFor(n) * BlockUnits
           p == Payload(g, n)
<1>2. n \in Nat /\ kind \in Kinds /\ size \in Nat /\ o \in Nat /\ n # 0
  <2>1. n \in Nat /\ kind \in Kinds /\ n # 0
    BY DEF Shape
  <2>2. o \in Nat
    BY <1>1, MoreBlocks DEF Offset
  <2> QED
    BY <2>1, <2>2, EntryFits
<1>3. /\ p = [i \in 1..n |-> p[i]]
      /\ kind = "cdx" => /\ Units(p)[1] = <<"len", n>> /\ n + 1 <= size
                         /\ \A i \in 1..n : Units(p)[i + 1] = p[i]
      /\ kind = "adt" => n <= size /\ \A i \in 1..n : Units(p)[i] = p[i]
  <2>1. p = [i \in 1..n |-> p[i]]
    BY DEF Payload
  <2>2. /\ kind = "cdx" => /\ Units(Payload(g, n))[1] = <<"len", n>>
                           /\ \A i \in 1..n : Units(Payload(g, n))[i + 1] = Payload(g, n)[i]
                           /\ n + 1 <= BlocksFor(n) * BlockUnits
        /\ kind = "adt" => /\ \A i \in 1..n : Units(Payload(g, n))[i] = Payload(g, n)[i]
                           /\ n <= BlocksFor(n) * BlockUnits
    BY <1>2, UnitsOfPayload
  <2> QED
    BY <2>1, <2>2
<1>4. \A i \in 1..size : o + i \in DOMAIN memo.units /\ memo.units[o + i] = Units(p)[i]
    BY <1>1
<1> HIDE DEF o, size, p
<1>5. ASSUME kind = "adt" PROVE MemoRead(s.ref) = p
  <2>1. \A i \in 1..n : i \in 1..size
    BY <1>2, <1>3, <1>5
  <2>2. Window(o, n) = [i \in 1..n |-> memo.units[o + i]]
    BY <1>2, <1>4, <2>1, WholeWindow
  <2>3. [i \in 1..n |-> memo.units[o + i]] = [i \in 1..n |-> p[i]]
    BY <1>3, <1>4, <1>5, <2>1
  <2>4. MemoRead(s.ref) = Window(o, n)
    BY <1>1, <1>5 DEF MemoRead, AdmRead, o
  <2> QED
    BY <1>3, <2>2, <2>3, <2>4
<1>6. ASSUME kind = "cdx" PROVE MemoRead(s.ref) = p
  <2>1. \A i \in 1..n : i + 1 \in 1..size /\ o + 1 + i = o + (i + 1)
    BY <1>2, <1>3, <1>6
  <2>2. Window(o + 1, n) = [i \in 1..n |-> memo.units[o + 1 + i]]
    <3>1. o + 1 \in Nat /\ \A i \in 1..n : (o + 1) + i \in DOMAIN memo.units
      BY <1>2, <1>4, <2>1
    <3> QED
      BY <1>2, <3>1, WholeWindow
  <2>3. [i \in 1..n |-> memo.units[o + 1 + i]] = [i \in 1..n |-> p[i]]
    <3>1. \A i \in 1..n : memo.units[o + 1 + i] = p[i]
      BY <1>3, <1>4, <1>6, <2>1
    <3> QED
      BY <3>1
  <2>4. memo.units[o + 1] = <<"len", n>>
    <3>1. 1 \in 1..size
      BY <1>2, <1>3, <1>6
    <3> QED
      BY <1>3, <1>4, <1>6, <3>1
  <2>5. MemoRead(s.ref) = Window(o + 1, n)
    BY <1>6, <2>4 DEF MemoRead, FptRead, o
  <2> QED
    BY <1>3, <2>2, <2>3, <2>5
<1> QED
    BY <1>1, <1>2, <1>5, <1>6 DEF p

\* Steps that open, close and store nothing: the memo file and the next block
\* every driver knows stay.
MemoAlone ==
    /\ kind' = kind /\ memo' = memo
    /\ \A g \in Handles : drv'[g].open = drv[g].open /\ drv'[g].mnext = drv[g].mnext

\* The driver's operations leave the memo's part of a driver alone.
LEMMA DriverMemo ==
    ASSUME Shape, NEW d \in Drivers
    PROVE  /\ Dropped(d).mnext = d.mnext /\ Invalidated(d).mnext = d.mnext
           /\ \A r \in Nat : AfterRead(d, r).mnext = d.mnext /\ Written(d, r).mnext = d.mnext
           /\ \A n \in 0..MaxRows : [Dropped(d) EXCEPT !.count = n].mnext = d.mnext
<1>1. Dropped(d).mnext = d.mnext /\ Dropped(d) \in Drivers
  <2>1. Dropped(d).mnext = d.mnext
    BY DEF Dropped, Drivers
  <2> QED
    BY <2>1, DroppedDriver
<1>2. Invalidated(d).mnext = d.mnext
    BY <1>1 DEF Invalidated
<1>3. \A n : [Dropped(d) EXCEPT !.count = n].mnext = d.mnext
    BY <1>1 DEF Drivers
<1>4. \A r \in Nat : AfterRead(d, r).mnext = d.mnext
    BY DEF AfterRead, DbfAfterRead, Drivers
<1>5. \A r \in Nat : Written(d, r).mnext = d.mnext
    BY <1>3 DEF Written
<1> QED
    BY <1>1, <1>2, <1>3, <1>4, <1>5

\* A change of one driver that leaves them alone.
LEMMA OneDriverAlone ==
    ASSUME Shape, NEW h \in Handles, NEW d, d.open = drv[h].open, d.mnext = drv[h].mnext,
           drv' = [drv EXCEPT ![h] = d], kind' = kind, memo' = memo
    PROVE  MemoAlone
BY DEF Shape, MemoAlone

\* Blocks and units depend on the table type only.
LEMMA SameKind ==
    ASSUME kind' = kind
    PROVE  /\ \A n : (BlocksFor(n))' = BlocksFor(n)
           /\ \A p : (Units(p))' = Units(p)
<1>1. \A n : (BlocksFor(n))' = BlocksFor(n)
    BY DEF BlocksFor
<1>2. \A p : (Entry(p))' = Entry(p)
    BY DEF Entry
<1> QED
    BY <1>1, <1>2 DEF Units

\* What a whole memo is made of, in the next state.
LEMMA WholeNext ==
    ASSUME kind' = kind, NEW s, NEW g \in MemoWriters, NEW n \in MemoSizes,
           s.memo = Payload(g, n), s.ref.len = n, s.ref.block \in Nat,
           s.ref.block + BlocksFor(n) <= memo'.next,
           \A i \in 1..(BlocksFor(n) * BlockUnits) :
             /\ Offset(s.ref.block) + i \in DOMAIN memo'.units
             /\ memo'.units[Offset(s.ref.block) + i] = Units(s.memo)[i],
           NEW r \in DOMAIN stored', stored'[r] = s
    PROVE  (KeptWhole(stored[r]))'
BY SameKind DEF KeptWhole

\* Memos stay whole while the memo file stays, whatever rows refer to them.
LEMMA KeepsMemos ==
    ASSUME MemosWhole, kind' = kind, memo' = memo,
           \A r \in DOMAIN stored' : \E q \in DOMAIN stored : stored'[r] = stored[q]
    PROVE  MemosWhole'
<1>1. ASSUME NEW r \in DOMAIN stored'
      PROVE  (KeptWhole(stored[r]))'
  <2>1. PICK q \in DOMAIN stored : stored'[r] = stored[q]
    OBVIOUS
  <2> DEFINE s == stored[q]
  <2>2. PICK g \in MemoWriters, n \in MemoSizes :
          /\ s.memo = Payload(g, n) /\ s.ref.len = n /\ s.ref.block \in Nat
          /\ s.ref.block + BlocksFor(n) <= memo.next
          /\ \A i \in 1..(BlocksFor(n) * BlockUnits) :
               /\ Offset(s.ref.block) + i \in DOMAIN memo.units
               /\ memo.units[Offset(s.ref.block) + i] = Units(s.memo)[i]
    BY DEF MemosWhole, KeptWhole
  <2> HIDE DEF s
  <2> QED
    BY <2>1, <2>2, WholeNext DEF s
<1> QED
    BY <1>1 DEF MemosWhole

\* What f holds over what g holds.
LEMMA OverAny ==
    ASSUME NEW f, NEW g
    PROVE  /\ DOMAIN Over(f, g) = DOMAIN f \cup DOMAIN g
           /\ \A x \in DOMAIN f : Over(f, g)[x] = f[x]
           /\ \A x \in DOMAIN g \ DOMAIN f : Over(f, g)[x] = g[x]
BY DEF Over

\* The writer opens: it reads the next block from the file.
LEMMA OpenMemo ==
    ASSUME MInv, NEW h \in Handles, Open(h)
    PROVE  NextBlockKnown' /\ MemosWhole'
<1>1. /\ drv \in [Handles -> Drivers] /\ UNCHANGED <<kind, file, memo, stored>>
      /\ \E n : drv' = [drv EXCEPT ![h] = Opened(n)]
    BY DEF MInv, Shape, Open, DbfOpened, AdtOpened
<1>2. /\ drv'[h].mnext = memo.next
      /\ \A g \in Handles \ {h} : drv'[g] = drv[g]
    BY <1>1 DEF Opened
<1>3. NextBlockKnown'
    BY <1>1, <1>2, SharedTableAssumption DEF MInv, NextBlockKnown
<1> QED
    BY <1>1, <1>3, KeepsMemos DEF MInv

\* It closes, and knows none.
LEMMA CloseMemo ==
    ASSUME MInv, NEW h \in Handles, Close(h)
    PROVE  NextBlockKnown' /\ MemosWhole'
<1>1. drv \in [Handles -> Drivers] /\ drv' = [drv EXCEPT ![h] = Closed]
      /\ UNCHANGED <<kind, memo, stored>>
    BY DEF MInv, Shape, Close
<1>2. drv'[h].open = FALSE /\ \A g \in Handles \ {h} : drv'[g] = drv[g]
    BY <1>1 DEF Closed
<1>3. NextBlockKnown'
    BY <1>1, <1>2, SharedTableAssumption DEF MInv, NextBlockKnown
<1> QED
    BY <1>1, <1>3, KeepsMemos DEF MInv

\* It stores behind everything that is stored.
LEMMA StoreMemo ==
    ASSUME OneWriter, MInv, NEW h \in Handles, NEW n \in MemoSizes, SetMemo(h, n)
    PROVE  NextBlockKnown' /\ MemosWhole'
<1> USE SharedTableAssumption
<1> DEFINE r == wa[h].rec
           start == drv[h].mnext
           ref == [block |-> start, len |-> n]
           d == [drv[h] EXCEPT !.mnext = start + BlocksFor(n)]
           p == Payload(h, n)
           new == [ref |-> ref, memo |-> p]
           size == BlocksFor(n) * BlockUnits
           units == [x \in (Offset(start) + 1)..(Offset(start) + Len(Units(p))) |->
                       Units(p)[x - Offset(start)]]
<1>1. /\ Shape /\ drv \in [Handles -> Drivers] /\ drv[h] \in Drivers /\ wa[h].rec \in Nat
      /\ kind \in Kinds /\ n \in Nat /\ h \in MemoWriters /\ drv[h].open
      /\ kind' = kind /\ memo' = MemoWrite(start, p)
      /\ drv' = [drv EXCEPT ![h] = Written(d, r)]
      /\ stored' = Put(stored, r, new)
    BY Numbers DEF MInv, Shape, SetMemo, MayWrite, Ready
<1>2. start = memo.next /\ start \in Nat /\ BlocksFor(n) \in Nat /\ size \in Nat
    BY <1>1, EntryFits DEF MInv, NextBlockKnown, Shape
<1>3. /\ Len(Units(p)) = size /\ Len(p) = n
      /\ memo'.next = start + BlocksFor(n) /\ memo'.units = Over(units, memo.units)
  <2>1. Len(Units(p)) = size /\ Len(p) = n
    BY <1>1, UnitsOfPayload
  <2> QED
    BY <1>1, <2>1 DEF MemoWrite, MemoNext
<1>4. Written(d, r).mnext = start + BlocksFor(n)
  <2>1. start + BlocksFor(n) \in Nat
    BY <1>2
  <2> HIDE DEF start, r
  <2>2. d \in Drivers /\ d.mnext = start + BlocksFor(n)
    BY <1>1, <2>1, SomeDrivers DEF Drivers
  <2> HIDE DEF d
  <2>3. \A x \in Nat : Written(d, x).mnext = d.mnext
    BY <1>1, <2>2, DriverMemo
  <2> QED
    BY <1>1, <2>2, <2>3 DEF r
<1>5. NextBlockKnown'
  <2>1. \A g \in MemoWriters : g = h
    BY <1>1 DEF OneWriter
  <2>2. drv'[h].mnext = memo'.next
    BY <1>1, <1>3, <1>4
  <2> QED
    BY <2>1, <2>2 DEF NextBlockKnown
<1>6. Offset(start) \in Nat /\ DOMAIN units = (Offset(start) + 1)..(Offset(start) + size)
    BY <1>2, <1>3, MoreBlocks DEF Offset
<1>7. /\ \A x \in DOMAIN units : x \in DOMAIN memo'.units /\ memo'.units[x] = units[x]
      /\ \A x \in DOMAIN memo.units \ DOMAIN units : /\ x \in DOMAIN memo'.units
                                                     /\ memo'.units[x] = memo.units[x]
  <2>1. memo'.units = Over(units, memo.units)
    BY <1>3
  <2> HIDE DEF units
  <2>2. /\ DOMAIN Over(units, memo.units) = DOMAIN units \cup DOMAIN memo.units
        /\ \A x \in DOMAIN units : Over(units, memo.units)[x] = units[x]
        /\ \A x \in DOMAIN memo.units \ DOMAIN units :
             Over(units, memo.units)[x] = memo.units[x]
    BY OverAny
  <2> QED
    BY <2>1, <2>2
<1>8. ASSUME NEW q \in DOMAIN stored', stored'[q] = new
      PROVE  (KeptWhole(stored[q]))'
  <2>1. \A i \in 1..size : /\ Offset(start) + i \in DOMAIN memo'.units
                           /\ memo'.units[Offset(start) + i] = Units(p)[i]
    <3> SUFFICES ASSUME NEW i \in 1..size
                 PROVE  /\ Offset(start) + i \in DOMAIN memo'.units
                        /\ memo'.units[Offset(start) + i] = Units(p)[i]
      OBVIOUS
    <3> DEFINE x == Offset(start) + i
    <3>1. x \in (Offset(start) + 1)..(Offset(start) + size) /\ x - Offset(start) = i
      BY <1>2, <1>6
    <3> HIDE DEF x, p, size
    <3>2. x \in DOMAIN units /\ units[x] = Units(p)[i]
      BY <1>3, <3>1
    <3> HIDE DEF units
    <3> QED
      BY <1>7, <3>2 DEF x
  <2>2. new.memo = p /\ new.ref.len = n /\ new.ref.block = start
    OBVIOUS
  <2>3. start + BlocksFor(n) <= memo'.next
    BY <1>2, <1>3
  <2> HIDE DEF new, start, units
  <2> QED
    BY <1>1, <1>2, <1>8, <2>1, <2>2, <2>3, WholeNext
<1>9. ASSUME NEW q \in DOMAIN stored', q \in DOMAIN stored, stored'[q] = stored[q]
      PROVE  (KeptWhole(stored[q]))'
  <2> DEFINE s == stored[q]
  <2>1. PICK g \in MemoWriters, m \in MemoSizes :
          /\ s.memo = Payload(g, m) /\ s.ref.len = m /\ s.ref.block \in Nat
          /\ s.ref.block + BlocksFor(m) <= memo.next
          /\ \A i \in 1..(BlocksFor(m) * BlockUnits) :
               /\ Offset(s.ref.block) + i \in DOMAIN memo.units
               /\ memo.units[Offset(s.ref.block) + i] = Units(s.memo)[i]
    BY <1>9 DEF MInv, MemosWhole, KeptWhole
  <2> DEFINE b == s.ref.block
             k == BlocksFor(m)
  <2>2. b \in Nat /\ k \in Nat /\ b + k <= start
    BY <1>1, <1>2, <2>1, EntryFits
  <2> HIDE DEF s, b, k, start, units
  <2>3. /\ (b + k) * BlockUnits <= start * BlockUnits
        /\ (b + k) * BlockUnits = b * BlockUnits + k * BlockUnits
        /\ b * BlockUnits \in Nat /\ k * BlockUnits \in Nat
    <3>1. b + k \in Nat /\ BlockUnits \in Nat
      BY <2>2
    <3>2. (b + k) * BlockUnits <= start * BlockUnits
      BY <1>2, <2>2, <3>1, MoreBlocks
    <3>3. b * BlockUnits \in Nat /\ k * BlockUnits \in Nat
      BY <2>2, <3>1, MoreBlocks
    <3>4. (b + k) * BlockUnits = b * BlockUnits + k * BlockUnits
      BY <2>2, <3>1
    <3> QED
      BY <3>2, <3>3, <3>4
  <2>4. ASSUME NEW i \in 1..(k * BlockUnits)
        PROVE  /\ Offset(b) + i \in DOMAIN memo'.units
               /\ memo'.units[Offset(b) + i] = Units(s.memo)[i]
    <3>1. Offset(b) + i <= Offset(start)
      BY <1>6, <2>3 DEF Offset
    <3>2. Offset(b) + i \notin DOMAIN units
      BY <1>6, <3>1
    <3>3. /\ Offset(b) + i \in DOMAIN memo.units
          /\ memo.units[Offset(b) + i] = Units(s.memo)[i]
      BY <2>1 DEF b, k
    <3> QED
      BY <1>7, <3>2, <3>3
  <2>5. s.ref.block + BlocksFor(m) <= memo'.next
    BY <1>2, <1>3, <2>2 DEF b, k
  <2>6. \A i \in 1..(BlocksFor(m) * BlockUnits) :
          /\ Offset(s.ref.block) + i \in DOMAIN memo'.units
          /\ memo'.units[Offset(s.ref.block) + i] = Units(s.memo)[i]
    BY <2>4 DEF b, k
  <2>7. stored'[q] = s
    BY <1>9 DEF s
  <2> QED
    BY <1>1, <2>1, <2>5, <2>6, <2>7, WholeNext
<1>10. ASSUME NEW q \in DOMAIN stored'
       PROVE  stored'[q] = new \/ (q \in DOMAIN stored /\ stored'[q] = stored[q])
    BY <1>1 DEF Put, Over
<1>11. MemosWhole'
    BY <1>8, <1>9, <1>10 DEF MemosWhole
<1> QED
    BY <1>5, <1>11

\* The other calls leave the memo file alone.
LEMMA BrowsingLeavesMemos ==
    ASSUME Shape, NEW h \in Handles,
           \/ \E r \in Recs : GotoRecord(h, r) \/ LockRecord(h, r) \/ UnlockRecord(h, r)
           \/ \E delta \in {-1, 1} : Skip(h, delta)
    PROVE  MemoAlone /\ stored' = stored
<1> USE SharedTableAssumption
<1>1. drv \in [Handles -> Drivers] /\ drv[h] \in Drivers
    BY DEF Shape
<1>2. ASSUME NEW d \in Drivers, d.open = drv[h].open, d.mnext = drv[h].mnext,
             NEW r \in Nat, NEW b \in BOOLEAN, Load(h, d, r, b), kind' = kind, memo' = memo
      PROVE  MemoAlone
  <2>1. AfterRead(d, r).open = d.open /\ AfterRead(d, r).mnext = d.mnext
    BY ReadingDriver, DriverMemo DEF Shape
  <2>2. drv' = [drv EXCEPT ![h] = AfterRead(d, r)]
    BY <1>2 DEF Load
  <2> QED
    BY <1>2, <2>1, <2>2, OneDriverAlone
<1>3. ASSUME drv' = drv, kind' = kind, memo' = memo PROVE MemoAlone
    BY <1>3 DEF MemoAlone
<1>4. ASSUME NEW r \in Recs, GotoRecord(h, r) PROVE MemoAlone /\ stored' = stored
  <2> DEFINE d == Invalidated(drv[h])
  <2>1. d \in Drivers /\ d.open = drv[h].open /\ d.mnext = drv[h].mnext /\ r \in Nat
    BY <1>1, DroppedDriver, DriverMemo DEF Recs
  <2>2. /\ kind' = kind /\ memo' = memo /\ stored' = stored
        /\ drv' = [drv EXCEPT ![h] = d] \/ Load(h, d, r, owner[r] = h)
    BY <1>4 DEF GotoRecord
  <2> HIDE DEF d
  <2> QED
    BY <1>2, <2>1, <2>2, OneDriverAlone
<1>5. ASSUME NEW r \in Recs, LockRecord(h, r) PROVE MemoAlone /\ stored' = stored
  <2>1. kind' = kind /\ memo' = memo /\ stored' = stored /\ Load(h, drv[h], r, FALSE)
    BY <1>5 DEF LockRecord
  <2>2. r \in Nat
    BY DEF Recs
  <2> QED
    BY <1>1, <1>2, <2>1, <2>2
<1>6. ASSUME NEW r \in Recs, UnlockRecord(h, r) PROVE MemoAlone /\ stored' = stored
    BY <1>3, <1>6 DEF UnlockRecord
<1>7. ASSUME NEW delta \in {-1, 1}, Skip(h, delta) PROVE MemoAlone /\ stored' = stored
  <2> DEFINE r == wa[h].rec + delta
  <2>1. /\ kind' = kind /\ memo' = memo /\ stored' = stored
        /\ (r \in 1..drv[h].count /\ Load(h, drv[h], r, FALSE)) \/ drv' = drv
    BY <1>7 DEF Skip
  <2> HIDE DEF r
  <2>2. CASE r \in 1..drv[h].count /\ Load(h, drv[h], r, FALSE)
    <3>1. drv[h].count \in Nat
      BY <1>1, SomeDrivers
    <3>2. r \in Nat
      BY <2>2, <3>1
    <3>3. FALSE \in BOOLEAN /\ Load(h, drv[h], r, FALSE)
      BY <2>2
    <3>4. MemoAlone
      BY <1>1, <1>2, <2>1, <3>2, <3>3
    <3> QED
      BY <2>1, <3>4
  <2>3. CASE drv' = drv
    BY <1>3, <2>1, <2>3
  <2> QED
    BY <2>1, <2>2, <2>3
<1> QED
    BY <1>4, <1>5, <1>6, <1>7

LEMMA WritingLeavesMemos ==
    ASSUME Shape, NEW h \in Handles,
           \/ \E x \in Fields, v \in Values : SetField(h, x, v)
           \/ \E b \in BOOLEAN : MarkDeleted(h, b)
    PROVE  MemoAlone /\ stored' = stored
<1> DEFINE r == wa[h].rec
<1>1. /\ kind' = kind /\ memo' = memo /\ stored' = stored
      /\ drv' = [drv EXCEPT ![h] = Written(drv[h], r)]
    BY DEF SetField, MarkDeleted, WriteRow
<1>2. drv[h] \in Drivers /\ r \in Nat
    BY Numbers DEF Shape
<1> HIDE DEF r
<1>3. CountFor(drv[h], r) \in 0..MaxRows
  <2>1. CountFor(drv[h], r) \in {drv[h].count, file.count}
    BY <1>2, ReadingDriver DEF Shape
  <2> QED
    BY <2>1, Numbers
<1>4. Written(drv[h], r).open = drv[h].open /\ Written(drv[h], r).mnext = drv[h].mnext
  <2>1. Written(drv[h], r).mnext = drv[h].mnext
    BY <1>2, DriverMemo
  <2>2. Dropped(drv[h]) \in Drivers /\ Dropped(drv[h]).open = drv[h].open
    BY <1>2, DroppedDriver
  <2>3. [Dropped(drv[h]) EXCEPT !.count = CountFor(drv[h], r)].open = Dropped(drv[h]).open
    BY <1>3, <2>2, SomeDrivers
  <2> QED
    BY <2>1, <2>2, <2>3 DEF Written
<1> QED
    BY <1>1, <1>4, OneDriverAlone

LEMMA AppendingLeavesMemos ==
    ASSUME Shape, NEW h \in Handles,
           AppendRecord(h) \/ AppendRow(h) \/ AppendRefused(h) \/ AppendHeader(h)
    PROVE  MemoAlone /\ \A r \in DOMAIN stored' : \E q \in DOMAIN stored : stored'[r] = stored[q]
<1>1. drv[h] \in Drivers /\ drv \in [Handles -> Drivers]
    BY DEF Shape
<1>2. ASSUME AppendRecord(h) PROVE MemoAlone /\ stored' = stored
  <2> DEFINE d == [drv[h] EXCEPT !.next = drv[h].next + 1]
  <2>1. d.open = drv[h].open /\ d.mnext = drv[h].mnext
    BY <1>1 DEF Drivers
  <2>2. /\ kind' = kind /\ memo' = memo /\ stored' = stored
        /\ drv' = [drv EXCEPT ![h] = d] \/ drv' = drv
    BY <1>2 DEF AppendRecord
  <2>3. drv' = drv => MemoAlone
    BY <2>2 DEF MemoAlone
  <2> HIDE DEF d
  <2> QED
    BY <2>1, <2>2, <2>3, OneDriverAlone
<1>3. ASSUME AppendRow(h) PROVE MemoAlone /\ stored' = stored
  <2> DEFINE n == file.count + 1
             d == [Dropped(drv[h]) EXCEPT !.count = n]
  <2>1. n \in 0..MaxRows
    BY <1>3, Numbers DEF AppendRow
  <2>2. /\ kind' = kind /\ memo' = memo /\ stored' = stored
        /\ drv' = [drv EXCEPT ![h] = d]
    BY <1>3 DEF AppendRow, Behind
  <2> HIDE DEF n
  <2>3. d.open = drv[h].open /\ d.mnext = drv[h].mnext
    BY <1>1, <2>1, DriverMemo, DroppedDriver, SomeDrivers
  <2> HIDE DEF d
  <2> QED
    BY <2>2, <2>3, OneDriverAlone
<1>4. ASSUME AppendRefused(h) PROVE MemoAlone /\ stored' = stored
    BY <1>4 DEF AppendRefused, MemoAlone
<1>5. ASSUME AppendHeader(h)
      PROVE  MemoAlone /\ \A r \in DOMAIN stored' : r \in DOMAIN stored /\ stored'[r] = stored[r]
  <2> DEFINE n == call[h].rec
  <2>1. n \in Nat
    <3>1. call[h].op = "header" /\ call[h] \in Calls
      BY <1>5 DEF AppendHeader, Shape
    <3> QED
      BY <3>1, CallShape DEF Recs
  <2>2. /\ kind' = kind /\ memo' = memo /\ stored' = [x \in DOMAIN stored \ {n} |-> stored[x]]
        /\ drv' = [drv EXCEPT ![h] = AfterRead(drv[h], n)] \/ drv' = [drv EXCEPT ![h] = drv[h]]
    BY <1>5 DEF AppendHeader
  <2> HIDE DEF n
  <2>3. AfterRead(drv[h], n).open = drv[h].open /\ AfterRead(drv[h], n).mnext = drv[h].mnext
    BY <1>1, <2>1, ReadingDriver, DriverMemo DEF Shape
  <2>4. MemoAlone
    BY <2>2, <2>3, OneDriverAlone
  <2> QED
    BY <2>2, <2>4
<1> QED
    BY <1>2, <1>3, <1>4, <1>5

LEMMA MaintenanceLeavesMemos ==
    ASSUME Shape, NEW h \in Handles,
           ZapTable(h) \/ PackTable(h) \/ PackAppend(h) \/ PackFinish(h)
    PROVE  MemoAlone /\ \A r \in DOMAIN stored' : \E q \in DOMAIN stored : stored'[r] = stored[q]
<1>1. drv[h] \in Drivers /\ drv \in [Handles -> Drivers]
    BY DEF Shape
<1>2. ASSUME NEW n \in 0..MaxRows, kind' = kind, memo' = memo,
             drv' = [drv EXCEPT ![h] = [Dropped(drv[h]) EXCEPT !.count = n]]
      PROVE  MemoAlone
  <2> DEFINE d == [Dropped(drv[h]) EXCEPT !.count = n]
  <2>1. d.open = drv[h].open /\ d.mnext = drv[h].mnext
    BY <1>1, DriverMemo, DroppedDriver, SomeDrivers
  <2> HIDE DEF d
  <2>2. drv' = [drv EXCEPT ![h] = d]
    BY <1>2 DEF d
  <2> QED
    BY <1>2, <2>1, <2>2, OneDriverAlone
<1>3. 0 \in 0..MaxRows
    BY SharedTableAssumption
<1>4. ASSUME ZapTable(h) PROVE MemoAlone /\ DOMAIN stored' = {}
    BY <1>2, <1>3, <1>4, NoRows DEF ZapTable
<1>5. ASSUME PackTable(h)
      PROVE  MemoAlone /\ \A r \in DOMAIN stored' : \E q \in DOMAIN stored : stored'[r] = stored[q]
  <2>1. /\ stored' = [i \in {j \in DOMAIN AllLeft : AllLeft[j] \in DOMAIN stored} |->
                        stored[AllLeft[i]]]
        /\ kind' = kind /\ memo' = memo
        /\ drv' = [drv EXCEPT ![h] = [Dropped(drv[h]) EXCEPT !.count = 0]]
    BY <1>5 DEF PackTable, AllLeft
  <2>2. MemoAlone
    BY <1>2, <1>3, <2>1
  <2>3. ASSUME NEW r \in DOMAIN stored'
        PROVE  AllLeft[r] \in DOMAIN stored /\ stored'[r] = stored[AllLeft[r]]
    BY <2>1
  <2> QED
    BY <2>2, <2>3
<1>6. ASSUME PackAppend(h) PROVE MemoAlone /\ stored' = stored
  <2>1. file.count + 1 \in 0..MaxRows
    BY <1>6, Numbers DEF PackAppend
  <2> QED
    BY <1>2, <1>6, <2>1 DEF PackAppend, Behind
<1>7. ASSUME PackFinish(h) PROVE MemoAlone /\ stored' = stored
    BY <1>7 DEF PackFinish, MemoAlone
<1> QED
    BY <1>4, <1>5, <1>6, <1>7

\* Every step keeps the memos whole.
LEMMA StepMemo ==
    ASSUME OneWriter, MInv, [Next]_vars
    PROVE  MInv'
<1>1. Shape /\ Shape'
    BY StepShape DEF MInv
<1>2. ASSUME MemoAlone,
             \A r \in DOMAIN stored' : \E q \in DOMAIN stored : stored'[r] = stored[q]
      PROVE  NextBlockKnown' /\ MemosWhole'
  <2>1. NextBlockKnown'
    BY <1>2, SharedTableAssumption DEF MInv, NextBlockKnown, MemoAlone
  <2>2. MemosWhole'
    BY <1>2, KeepsMemos DEF MInv, MemoAlone
  <2> QED
    BY <2>1, <2>2
<1>3. ASSUME UNCHANGED vars PROVE MemoAlone /\ stored' = stored
    BY <1>3 DEF vars, MemoAlone
<1>4. NextBlockKnown' /\ MemosWhole'
  <2>1. CASE UNCHANGED vars
    BY <1>2, <1>3, <2>1
  <2>2. ASSUME NEW h \in Handles, Open(h) \/ Close(h)
        PROVE  NextBlockKnown' /\ MemosWhole'
    BY <2>2, OpenMemo, CloseMemo
  <2>3. ASSUME NEW h \in Handles,
               \/ \E r \in Recs : GotoRecord(h, r) \/ LockRecord(h, r) \/ UnlockRecord(h, r)
               \/ \E delta \in {-1, 1} : Skip(h, delta)
        PROVE  NextBlockKnown' /\ MemosWhole'
    BY <1>1, <1>2, <2>3, BrowsingLeavesMemos
  <2>4. ASSUME NEW h \in Handles,
               \/ \E x \in Fields, v \in Values : SetField(h, x, v)
               \/ \E b \in BOOLEAN : MarkDeleted(h, b)
        PROVE  NextBlockKnown' /\ MemosWhole'
    BY <1>1, <1>2, <2>4, WritingLeavesMemos
  <2>5. ASSUME NEW h \in Handles, NEW n \in MemoSizes, SetMemo(h, n)
        PROVE  NextBlockKnown' /\ MemosWhole'
    BY <2>5, StoreMemo
  <2>6. ASSUME NEW h \in Handles,
               AppendRecord(h) \/ AppendRow(h) \/ AppendRefused(h) \/ AppendHeader(h)
        PROVE  NextBlockKnown' /\ MemosWhole'
    BY <1>1, <1>2, <2>6, AppendingLeavesMemos
  <2>7. ASSUME NEW h \in Handles,
               ZapTable(h) \/ PackTable(h) \/ PackAppend(h) \/ PackFinish(h)
        PROVE  NextBlockKnown' /\ MemosWhole'
    BY <1>1, <1>2, <2>7, MaintenanceLeavesMemos
  <2> QED
    BY <2>1, <2>2, <2>3, <2>4, <2>5, <2>6, <2>7 DEF Next
<1> QED
    BY <1>1, <1>4 DEF MInv

-----------------------------------------------------------------------------
(* The theorems *)

\* The state keeps its types and bounds, whatever clients do: no count, record
\* number or lock owner is ever one that does not exist.
THEOREM TypeCorrect == Spec => []TypeOK
<1>1. Shape => TypeOK
  <2> SUFFICES ASSUME Shape PROVE TypeOK
    OBVIOUS
  <2>1. DOMAIN file.rows \subseteq Recs /\ \A h \in Handles : drv[h].count \in 0..MaxRows /\ wa[h].rec \in 0..MaxRows
    BY Numbers, RowMapShape
  <2> QED
    BY <2>1, Numbers DEF TypeOK, Shape
<1> QED
    BY <1>1, InitShape, StepShape, PTL DEF Spec

\* The inductive invariant of clients that refresh a row they locked before
\* they write it, and pack and zap alone.
THEOREM Invariance == ASSUME Careful PROVE Spec => []IInv
<1>1. Init => IInv
    BY InitShape, InitSound DEF IInv
<1>2. IInv /\ [Next]_vars => IInv'
    BY StepShape, StepSound DEF IInv
<1> QED
    BY <1>1, <1>2, PTL DEF Spec

\* No write brings back an older value, and no append loses a row (the drivers
\* read the count again under the header lock; the block is dropped by a
\* refresh).
THEOREM NoWriteIsLost == ASSUME Careful PROVE Spec => []NoLostWrite
<1>1. IInv => NoLostWrite
  <2> SUFFICES ASSUME IInv, kind # "ntx", NotPacking
               PROVE  /\ file.count = Cardinality(DOMAIN truth)
                      /\ \A r \in 1..file.count : OnDisk(r) /\ file.rows[r] = truth[r]
    BY DEF NoLostWrite, RowsAreTruth
  <2>1. Shape /\ RowsTrue /\ DOMAIN truth = 1..file.count
    BY DEF IInv, Sound, TruthOnFile
  <2>2. file.count \in Nat
    BY <2>1, Numbers
  <2>3. Cardinality(1..file.count) = file.count
    BY <2>2, FS_Interval
  <2> QED
    BY <2>1, <2>3 DEF RowsTrue
<1> QED
    BY <1>1, Invariance, PTL

\* A client that refreshed a row it locked sees the row in the file until it
\* unlocks it, whatever others write, append or lock meanwhile.
THEOREM LockedRowsAreCurrent == ASSUME Careful PROVE Spec => []LockedIsCurrent
<1>1. IInv => LockedIsCurrent
  <2> SUFFICES ASSUME IInv, kind # "ntx", NEW h \in Handles, wa[h].fresh, wa[h].rec > 0
               PROVE  wa[h].buf = file.rows[wa[h].rec]
    BY DEF LockedIsCurrent, RefreshIsCurrent
  <2>1. wa[h].rec # 0
    BY Numbers DEF IInv
  <2> QED
    BY <2>1 DEF IInv, Sound, FreshIsTrue
<1> QED
    BY <1>1, Invariance, PTL

\* With one handle that stores memos, every row reads back the memo that was
\* stored in it, whatever is stored, appended, packed or reopened later, for
\* tables whose memo blocks tell their length (FPT) or whose rows do (ADM).
\* The text of a DBT memo is looked for block by block; TLC checks that.
THEOREM MemosAreKept == ASSUME OneWriter PROVE Spec => [](kind # "ntx" => MemoKept)
<1>1. Init => MInv
  <2> SUFFICES ASSUME Init PROVE NextBlockKnown /\ MemosWhole
    BY InitShape DEF MInv
  <2>1. DOMAIN stored = {} /\ \A h \in Handles : drv[h].open = FALSE
    BY NoRows DEF Init, Closed
  <2> QED
    BY <2>1, SharedTableAssumption DEF NextBlockKnown, MemosWhole
<1>2. MInv /\ [Next]_vars => MInv'
    BY StepMemo
<1>3. MInv => (kind # "ntx" => MemoKept)
    BY WholeIsRead DEF MInv, MemosWhole, MemoKept
<1> QED
    BY <1>1, <1>2, <1>3, PTL DEF Spec

=============================================================================
