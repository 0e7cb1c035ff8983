------------------------- MODULE RemoteCursorProofs -------------------------
(***************************************************************************)
(* What prefetching may not change, for every table, number of rows looked *)
(* ahead and list of steps.  The shape of the state holds with any filter  *)
(* and whatever the application calls; that the queue is never stale, and  *)
(* that a handle with prefetch implements one without, holds for a table   *)
(* without filter and an application that takes no liberties (Careful):    *)
(* with either, TLC shows a counterexample.                                *)
(***************************************************************************)
EXTENDS RemoteCursor, LeastNumber, SequenceTheorems

Contents == Values \cup {Blank}
CachedRows == [recno : 0..MaxCount, val : Contents]
ClientRecords ==
    [row : CachedRows, queue : Seq(CachedRows), consumed : 0..Lookahead,
     known : {Unknown} \cup 0..MaxCount]

\* A cursor on a record is on one of the n.
Placed(c, n) == c \in Cursors /\ (c.at = "on" => c.recno \in 1..n)

\* The rows looked ahead are either queued or in debt.
Bounded(cl) == cl \in ClientRecords /\ cl.consumed + Len(cl.queue) <= Lookahead

Shape ==
    /\ Placed(server, count)
    /\ rows \in Seq(Contents) /\ count \in 0..MaxCount
    /\ Bounded(client)

-----------------------------------------------------------------------------
(* The moves of a cursor *)

\* The elements of a list.
LEMMA Elements ==
    ASSUME NEW S, NEW q \in Seq(S)
    PROVE  \A i \in 1..Len(q) : q[i] \in S
OBVIOUS

\* A scan visits records of the table.
LEMMA FollowingIsRows ==
    ASSUME NEW c \in Cursors, NEW n \in 0..MaxCount
    PROVE  Following(c, n) \in Seq(1..n)
<1> USE TableCursorAssumption
<1> DEFINE shown == ((c.recno + 1)..n) \ Hidden
           f == [i \in 1..Cardinality(shown) |->
                   CHOOSE r \in shown : Cardinality({q \in shown : q <= r}) = i]
<1>1. c.recno \in Nat /\ n \in Nat
    BY DEF Cursors
<1>2. shown \in SUBSET (1..n)
    BY <1>1
<1>3. IsFiniteSet(shown) /\ Cardinality(shown) \in Nat
  <2>1. IsFiniteSet(1..n)
    BY <1>1, FS_Interval
  <2> QED
    BY <1>2, <2>1, FS_Subset, FS_CardinalityType
<1>4. ASSUME NEW i \in 1..Cardinality(shown) PROVE f[i] \in 1..n
  <2>1. shown \in SUBSET Int
    BY <1>1, <1>2
  <2>2. \E r \in shown : Cardinality({q \in shown : q <= r}) = i
    BY <1>3, <2>1, IthOfSet
  <2> QED
    BY <1>2, <2>2
<1>5. f \in [1..Cardinality(shown) -> 1..n]
    BY <1>4
<1> HIDE DEF shown
<1>6. f \in Seq(1..n)
    BY <1>3, <1>5, SeqDef
<1> QED
    BY <1>6 DEF Following, shown

\* Where a filtered move lands.
LEMMA Landings ==
    ASSUME NEW n \in 0..MaxCount, NEW r \in 1..n
    PROVE  Placed(Forward(r, n), n) /\ Placed(Backward(r), n)
<1> USE TableCursorAssumption
<1> DEFINE up == (r..n) \ Hidden
           down == (1..r) \ Hidden
<1>1. n \in Nat /\ r \in Nat /\ up \in SUBSET (1..n) /\ down \in SUBSET (1..n)
    OBVIOUS
<1>2. up # {} => Min(up) \in 1..n
    BY <1>1, MinOfSet
<1>3. down # {} => Max(down) \in 1..n
  <2>1. down \in SUBSET Int /\ n \in Int /\ \A x \in down : x <= n
    BY <1>1
  <2> HIDE DEF down
  <2> QED
    BY <1>1, <2>1, MaxOfSet
<1>4. Placed(Forward(r, n), n)
    BY <1>1, <1>2 DEF Forward, Placed, Cursors, Eof, On
<1>5. Placed(Backward(r), n)
    BY <1>1, <1>3 DEF Backward, Placed, Cursors, Bof, On
<1> QED
    BY <1>4, <1>5

\* A skip leaves the cursor on a row of the table or on none.
LEMMA SkippedPlaced ==
    ASSUME NEW n \in 0..MaxCount, NEW c, Placed(c, n), NEW d \in Int
    PROVE  Placed(Skipped(c, d, n), n)
<1> USE TableCursorAssumption
<1> DEFINE target == (IF c.at = "bof" /\ d > 0 THEN 0 ELSE c.recno) + d
<1>1. target \in Int /\ n \in Nat
    BY DEF Placed, Cursors
<1>2. target \in 1..n => Placed(Forward(target, n), n) /\ Placed(Backward(target), n)
    BY Landings
<1>3. Placed(Eof(0), n) /\ Placed(Bof, n) /\ Placed(Eof(n + 1), n)
    BY <1>1 DEF Placed, Cursors, Eof, Bof
<1>4. n = 0 => Placed([c EXCEPT !.recno = 0], n)
    BY DEF Placed, Cursors
<1> HIDE DEF target
<1>5. CASE n = 0
    BY <1>1, <1>3, <1>4, <1>5 DEF Skipped
<1>6. CASE n > 0
  <2>1. target < 1 \/ target > n \/ target \in 1..n
    BY <1>1
  <2> QED
    BY <1>1, <1>2, <1>3, <1>6, <2>1 DEF Skipped, target
<1> QED
    BY <1>1, <1>5, <1>6

\* So do the other moves.
LEMMA MovesPlaced ==
    ASSUME NEW n \in 0..MaxCount, NEW c, Placed(c, n), NEW r \in Nat
    PROVE  /\ Placed(Opened(n), n) /\ Placed(Top(n), n) /\ Placed(Bottom(n), n)
           /\ Placed(Gone(c, r, n), n)
           /\ RecnoOf(c, n) \in Nat
<1> USE TableCursorAssumption
<1>1. /\ Placed(Limbo, n) /\ Placed(Bof, n) /\ Placed(Eof(0), n)
      /\ r \in 1..n => Placed(On(r), n)
      /\ n # 0 => Placed(On(n), n) /\ Placed(On(1), n)
    BY DEF Placed, Cursors, Limbo, Bof, Eof, On
<1>2. n # 0 => Placed(Skipped(On(1), 1, n), n)
    BY <1>1, SkippedPlaced
<1>3. RecnoOf(c, n) \in Nat
    BY DEF RecnoOf, Placed, Cursors
<1> QED
    BY <1>1, <1>2, <1>3 DEF Opened, Top, Bottom, Gone

-----------------------------------------------------------------------------
(* The state keeps its shape *)

\* A row of the table is what a client caches of it.
LEMMA RowsCached ==
    ASSUME Shape
    PROVE  /\ NoRow \in CachedRows
           /\ \A r \in 1..count : RowAt(r) \in CachedRows
<1> USE TableCursorAssumption
<1>1. \A r \in 1..count : rows[r] \in Contents /\ r \in 0..MaxCount
    BY DEF Shape, count
<1> QED
    BY <1>1 DEF CachedRows, NoRow, RowAt, Contents

\* What the client makes of an answer.
LEMMA ParsedBounded ==
    ASSUME Shape, NEW c, Placed(c, count),
           NEW ahead \in Seq(1..count), Len(ahead) <= Lookahead
    PROVE  /\ Bounded(Parsed(c, ahead)) /\ Parsed(c, ahead).known = client.known
           /\ Parsed(c, ahead).consumed = 0
           /\ Parsed(c, ahead).row = (IF c.at = "on" THEN RowAt(c.recno) ELSE NoRow)
           /\ Len(Parsed(c, ahead).queue) = Len(ahead)
           /\ \A i \in 1..Len(ahead) : Parsed(c, ahead).queue[i] = RowAt(ahead[i])
<1> USE RemoteCursorAssumption
<1> DEFINE fresh == [i \in DOMAIN ahead |-> RowAt(ahead[i])]
           first == IF c.at = "on" THEN RowAt(c.recno) ELSE NoRow
<1>1. first \in CachedRows
    BY RowsCached DEF Placed
<1>2. DOMAIN ahead = 1..Len(ahead) /\ Len(ahead) \in Nat
    OBVIOUS
<1>3. fresh \in Seq(CachedRows) /\ Len(fresh) = Len(ahead)
  <2>1. \A i \in 1..Len(ahead) : ahead[i] \in 1..count
    BY Elements
  <2>2. fresh \in [1..Len(ahead) -> CachedRows]
    BY <1>2, <2>1, RowsCached
  <2> QED
    BY <1>2, <2>2, SeqDef
<1>4. client \in ClientRecords
    BY DEF Shape, Bounded
<1>5. Parsed(c, ahead) = [client EXCEPT !.row = first, !.queue = fresh, !.consumed = 0]
    BY DEF Parsed
<1>6. \A i \in 1..Len(ahead) : fresh[i] = RowAt(ahead[i])
    BY <1>2
<1> HIDE DEF fresh, first
<1>7. 0 \in 0..Lookahead
    OBVIOUS
<1>8. Parsed(c, ahead) \in ClientRecords
    BY <1>1, <1>3, <1>4, <1>5, <1>7 DEF ClientRecords
<1>9. Parsed(c, ahead).queue = fresh /\ Parsed(c, ahead).consumed = 0
      /\ Parsed(c, ahead).row = first /\ Parsed(c, ahead).known = client.known
    BY <1>4, <1>5 DEF ClientRecords
<1> QED
    BY <1>2, <1>3, <1>6, <1>8, <1>9 DEF Bounded, first

\* The rows looked ahead are rows of the table, and no more than agreed.
LEMMA AheadIsRows ==
    ASSUME Shape, NEW c \in Cursors
    PROVE  /\ Ahead(c) \in Seq(1..count)
           /\ Len(Ahead(c)) = IF Lookahead <= Len(Following(c, count))
                              THEN Lookahead ELSE Len(Following(c, count))
           /\ \A i \in 1..Len(Ahead(c)) : Ahead(c)[i] = Following(c, count)[i]
<1> USE RemoteCursorAssumption
<1> DEFINE next == Following(c, count)
           k == Min({Lookahead, Len(next)})
<1>1. next \in Seq(1..count)
    BY FollowingIsRows DEF Shape
<1> HIDE DEF next
<1>2. k \in {Lookahead, Len(next)} /\ k <= Lookahead /\ k <= Len(next)
  <2>1. {Lookahead, Len(next)} \in SUBSET Nat
    BY <1>1
  <2> QED
    BY <2>1, MinOfSet
<1> HIDE DEF k
<1>3. k \in 0..Len(next)
    BY <1>1, <1>2
<1>4. \A i \in 1..k : next[i] \in 1..count
  <2>1. \A i \in 1..Len(next) : next[i] \in 1..count
    BY <1>1, Elements
  <2> QED
    BY <1>1, <1>3, <2>1
<1>5. SubSeq(next, 1, k) \in Seq(1..count) /\ Len(SubSeq(next, 1, k)) = k
      /\ \A i \in 1..k : SubSeq(next, 1, k)[i] = next[i]
    BY <1>3, <1>4, SubSeqProperties
<1>6. Ahead(c) = SubSeq(next, 1, k)
    BY DEF Ahead, next, k
<1>7. k = IF Lookahead <= Len(next) THEN Lookahead ELSE Len(next)
    BY <1>1, <1>2
<1> QED
    BY <1>5, <1>6, <1>7 DEF next

\* The walk back ends on a row of the table or on none.
LEMMA WalkedBackPlaced ==
    ASSUME Shape, NEW c \in Cursors
    PROVE  Placed(WalkedBack(c), count)
<1> USE RemoteCursorAssumption, TableCursorAssumption
<1> DEFINE ahead == Ahead(c)
           short == Len(ahead) < Lookahead
           end == IF short THEN Eof(count + 1) ELSE On(Last(ahead))
           back == -(Len(ahead) + (IF short THEN 1 ELSE 0))
<1>1. ahead \in Seq(1..count) /\ Len(ahead) \in Nat /\ count \in 0..MaxCount
    BY AheadIsRows DEF Shape
<1>2. ~short => Last(ahead) \in 1..count
    BY <1>1 DEF Last
<1>3. Placed(end, count)
    BY <1>1, <1>2 DEF Placed, Cursors, Eof, On
<1>4. back \in Int
    BY <1>1
<1>5. WalkedBack(c) = Skipped(end, back, count)
    BY DEF WalkedBack
<1> HIDE DEF end, back
<1> QED
    BY <1>1, <1>3, <1>4, <1>5, SkippedPlaced

\* A move that goes over the wire.
LEMMA AcksShaped ==
    ASSUME Shape
    PROVE  /\ \A c : Placed(c, count) =>
                 Placed(Acked(c).server, count) /\ Bounded(Acked(c).client)
           /\ \A d \in Int :
                 Placed(SkipAcked(d).server, count) /\ Bounded(SkipAcked(d).client)
           /\ Placed(Settled.server, count) /\ Bounded(Settled.client)
<1> USE RemoteCursorAssumption
<1>1. ASSUME NEW c, Placed(c, count)
      PROVE  Placed(Acked(c).server, count) /\ Bounded(Acked(c).client)
  <2>1. <<>> \in Seq(1..count) /\ Len(<<>>) <= Lookahead
    OBVIOUS
  <2>2. Bounded(Parsed(c, <<>>))
    BY <1>1, <2>1, ParsedBounded
  <2> QED
    BY <1>1, <2>2 DEF Acked
<1>2. ASSUME NEW d \in Int
      PROVE  Placed(SkipAcked(d).server, count) /\ Bounded(SkipAcked(d).client)
  <2> DEFINE step == d + client.consumed
             c == Skipped(server, step, count)
  <2>1. Placed(server, count) /\ count \in 0..MaxCount /\ step \in Int
    BY DEF Shape, Bounded, ClientRecords
  <2>2. SkipAcked(d) = IF step >= 1 /\ c.at = "on"
                       THEN [server |-> WalkedBack(c), client |-> Parsed(c, Ahead(c))]
                       ELSE Acked(c)
    BY DEF SkipAcked
  <2> HIDE DEF step
  <2>3. Placed(c, count)
    BY <2>1, SkippedPlaced
  <2> HIDE DEF c
  <2>4. c \in Cursors
    BY <2>3 DEF Placed
  <2>5. Len(Ahead(c)) <= Lookahead /\ Ahead(c) \in Seq(1..count)
    <3>1. Following(c, count) \in Seq(1..count)
      BY <2>1, <2>4, FollowingIsRows
    <3> QED
      BY <2>4, <3>1, AheadIsRows
  <2>6. Bounded(Parsed(c, Ahead(c)))
    BY <2>3, <2>5, ParsedBounded
  <2> QED
    BY <1>1, <2>2, <2>3, <2>4, <2>6, WalkedBackPlaced
<1>3. Placed(Settled.server, count) /\ Bounded(Settled.client)
    BY <1>2 DEF Settled, Shape
<1> QED
    BY <1>1, <1>2, <1>3

\* Forgetting the row or the number of records.
LEMMA DropsBounded ==
    ASSUME Shape, NEW cl, Bounded(cl)
    PROVE  /\ Bounded(DropRow(cl)) /\ Bounded(DropCount(cl))
           /\ DropRow(cl).row = NoRow /\ DropRow(cl).queue = cl.queue
           /\ DropRow(cl).consumed = cl.consumed /\ DropRow(cl).known = cl.known
           /\ DropCount(cl).row = cl.row /\ DropCount(cl).queue = cl.queue
           /\ DropCount(cl).consumed = cl.consumed /\ DropCount(cl).known = Unknown
<1>1. NoRow \in CachedRows
    BY RowsCached
<1>2. cl \in ClientRecords
    BY DEF Bounded
<1>3. /\ DropRow(cl).row = NoRow /\ DropRow(cl).queue = cl.queue
      /\ DropRow(cl).consumed = cl.consumed /\ DropRow(cl).known = cl.known
      /\ DropCount(cl).row = cl.row /\ DropCount(cl).queue = cl.queue
      /\ DropCount(cl).consumed = cl.consumed /\ DropCount(cl).known = Unknown
    BY <1>2 DEF DropRow, DropCount, ClientRecords
<1>4. DropRow(cl) \in ClientRecords /\ DropCount(cl) \in ClientRecords
    BY <1>1, <1>2 DEF DropRow, DropCount, ClientRecords
<1> QED
    BY <1>3, <1>4 DEF Bounded

\* The handle starts in shape.
LEMMA InitShape == Init => Shape
<1> SUFFICES ASSUME Init PROVE Shape
    OBVIOUS
<1> USE RemoteCursorAssumption, TableCursorAssumption
<1>1. rows \in Seq(Contents) /\ Len(rows) = InitCount
    BY SeqDef DEF Init, Contents
<1>2. Placed(Opened(InitCount), InitCount)
    BY DEF Opened, Limbo, Bof, Placed, Cursors
<1>3. client = [row |-> NoRow, queue |-> <<>>, consumed |-> 0, known |-> Unknown]
      /\ server = Opened(InitCount)
    BY DEF Init
<1>4. NoRow \in CachedRows
    BY DEF NoRow, CachedRows, Contents
<1>5. Bounded(client)
  <2>1. client \in ClientRecords /\ client.consumed = 0 /\ client.queue = <<>>
    BY <1>3, <1>4 DEF ClientRecords
  <2> QED
    BY <2>1 DEF Bounded
<1> QED
    BY <1>1, <1>2, <1>3, <1>5 DEF Shape, count

\* A call that leaves the rows alone.
LEMMA CursorMoves ==
    ASSUME Shape, rows' = rows, Placed(server', count), Bounded(client')
    PROVE  Shape'
BY DEF Shape, count, Bounded, ClientRecords, CachedRows, Contents, Placed, Cursors

\* A write stores one row.
LEMMA PutKeeps ==
    ASSUME Shape, NEW v \in Values, NEW s, Placed(s.server, count), Put(v, s)
    PROVE  rows' \in Seq(Contents) /\ count' = count
<1>1. v \in Contents /\ rows \in Seq(Contents)
    BY DEF Shape, Contents
<1>2. \/ rows' = rows
      \/ /\ s.server.recno \in 1..Len(rows)
         /\ rows' = [rows EXCEPT ![s.server.recno] = v]
    BY DEF Put, Placed, count
<1>3. \A r \in 1..Len(rows) :
          /\ [rows EXCEPT ![r] = v] \in Seq(Contents)
          /\ Len([rows EXCEPT ![r] = v]) = Len(rows)
    BY <1>1, ExceptSeq
<1> QED
    BY <1>1, <1>2, <1>3 DEF count

\* Every call keeps the shape, with any filter and any liberties.
LEMMA ShapeKept ==
    ASSUME Shape, [Next]_vars
    PROVE  Shape'
<1> USE RemoteCursorAssumption, TableCursorAssumption
<1>0. Placed(server, count) /\ count \in 0..MaxCount /\ rows \in Seq(Contents)
      /\ Bounded(client)
    BY DEF Shape
<1>1. CASE UNCHANGED vars
    BY <1>0, <1>1, CursorMoves DEF vars
<1>2. ASSUME NEW c, Placed(c, count), Moved(Acked(c))
      PROVE  Shape'
    BY <1>2, AcksShaped, CursorMoves DEF Moved
<1>3. CASE GotoTop \/ GotoBottom
    BY <1>0, <1>2, <1>3, MovesPlaced, 0 \in Nat DEF GotoTop, GotoBottom
<1>4. ASSUME NEW r \in 0..MaxCount + 1, GotoRecord(r)
      PROVE  Shape'
  <2>1. r \in Nat
    OBVIOUS
  <2> QED
    BY <1>0, <1>2, <1>4, <2>1, MovesPlaced DEF GotoRecord
<1>5. CASE SkipLocal
  <2>1. client \in ClientRecords /\ client.queue \in Seq(CachedRows)
        /\ client.queue # <<>> /\ client.consumed + Len(client.queue) <= Lookahead
        /\ client.consumed \in Nat
    BY <1>0, <1>5 DEF SkipLocal, Bounded, ClientRecords
  <2>2. Head(client.queue) \in CachedRows /\ Tail(client.queue) \in Seq(CachedRows)
        /\ Len(Tail(client.queue)) = Len(client.queue) - 1
    BY <2>1, HeadTailProperties
  <2>3. Len(client.queue) \in Nat /\ Len(client.queue) > 0
    BY <2>1
  <2>4. client.consumed + 1 \in 0..Lookahead
    BY <2>1, <2>3
  <2>5. client' \in ClientRecords /\ client'.queue = Tail(client.queue)
        /\ client'.consumed = client.consumed + 1
    BY <1>5, <2>1, <2>2, <2>4 DEF SkipLocal, ClientRecords
  <2>6. Bounded(client')
    BY <2>1, <2>2, <2>3, <2>5 DEF Bounded
  <2> QED
    BY <1>0, <1>5, <2>6, CursorMoves DEF SkipLocal
<1>6. ASSUME NEW d \in Steps, SkipWire(d)
      PROVE  Shape'
  <2>1. d \in Int
    OBVIOUS
  <2> QED
    BY <1>6, <2>1, AcksShaped, CursorMoves DEF SkipWire, Moved
<1>7. ASSUME NEW r \in 1..count + 1, Seek(r)
      PROVE  Shape'
  <2>1. r \in Nat
    BY <1>0
  <2>2. Placed(Gone(server, r, count), count) /\ Bounded(DropRow(client))
    BY <1>0, <2>1, MovesPlaced, DropsBounded
  <2> QED
    BY <1>7, <2>2, CursorMoves DEF Seek, Moved
<1>8. CASE Refresh
  <2>1. Placed(Settled.server, count) /\ Bounded(DropRow(Settled.client))
    BY AcksShaped, DropsBounded
  <2>2. RecnoOf(Settled.server, count) \in Nat
    BY <1>0, <2>1, MovesPlaced, 0 \in Nat
  <2>3. Placed(Gone(Settled.server, RecnoOf(Settled.server, count), count), count)
    BY <1>0, <2>1, <2>2, MovesPlaced
  <2> QED
    BY <1>8, <2>1, <2>3, CursorMoves DEF Refresh, Moved
<1>9. CASE AppendRecord
  <2>1. Bounded(DropCount(DropRow(Settled.client)))
    BY AcksShaped, DropsBounded
  <2>2. rows' \in Seq(Contents) /\ count' = count + 1
    BY <1>0, <1>9, AppendProperties DEF AppendRecord, count, Contents
  <2>3. count' \in 0..MaxCount /\ server' = On(count')
    BY <1>0, <1>9, <2>2 DEF AppendRecord
  <2>4. Placed(server', count')
    BY <1>0, <2>2, <2>3 DEF Placed, Cursors, On
  <2>5. client' = DropCount(DropRow(Settled.client))
    BY <1>9 DEF AppendRecord
  <2> QED
    BY <2>1, <2>2, <2>3, <2>4, <2>5
       DEF Shape, Placed, Bounded, ClientRecords, CachedRows, Contents, Cursors
<1>10. ASSUME NEW v \in Values, SetField(v) \/ FlagRecord(v)
       PROVE  Shape'
  <2>1. Placed(Settled.server, count) /\ Bounded(DropRow(Settled.client))
        /\ Bounded(DropCount(DropRow(Settled.client)))
    BY AcksShaped, DropsBounded
  <2>2. Put(v, Settled) /\ server' = Settled.server
        /\ client' \in {DropRow(Settled.client), DropCount(DropRow(Settled.client))}
    BY <1>10 DEF SetField, FlagRecord, Put
  <2>3. rows' \in Seq(Contents) /\ count' = count
    BY <2>1, <2>2, PutKeeps
  <2>4. Placed(server', count) /\ Bounded(client')
    BY <2>1, <2>2
  <2> QED
    BY <1>0, <2>3, <2>4
       DEF Shape, Placed, Bounded, ClientRecords, CachedRows, Contents, Cursors
<1>11. CASE WriteRecord
    BY <1>0, <1>11, DropsBounded, CursorMoves DEF WriteRecord
<1>12. CASE Ask
  <2>1. Bounded([client EXCEPT !.known = count])
        /\ (client.known # Unknown => [client EXCEPT !.known = client.known] = client)
    BY <1>0 DEF Bounded, ClientRecords
  <2>2. <<>> \in Seq(1..count) /\ Len(<<>>) <= Lookahead
    OBVIOUS
  <2>3. Bounded(Parsed(server, <<>>))
    BY <1>0, <2>2, ParsedBounded
  <2>4. server' = server /\ rows' = rows /\ Bounded(client')
    BY <1>0, <1>12, <2>1, <2>3
       DEF Ask, AskRecno, AskEof, AskBof, AskCount, AskField, Told
  <2> QED
    BY <1>0, <2>4, CursorMoves
<1> QED
    BY <1>1, <1>3, <1>4, <1>5, <1>6, <1>7, <1>8, <1>9, <1>10, <1>11, <1>12 DEF Next

\* The queue and the debt together stay within the rows looked ahead, and the
\* server's cursor within the table, with any filter and whatever is called
\* (client.cpp parse_row_trailer_into, server.cpp pack_row_trailer).
THEOREM TypeCorrect == Spec => []TypeOK
<1>1. Shape /\ [Next]_vars => Shape'
    BY ShapeKept
<1>2. Shape => TypeOK
  <2> SUFFICES ASSUME Shape PROVE TypeOK
    OBVIOUS
  <2>1. rows \in BoundedSeq(Values \cup {Blank}, MaxCount)
    <3>1. rows \in [1..Len(rows) -> Contents] /\ Len(rows) \in 0..MaxCount
      BY DEF Shape, count
    <3> QED
      BY <3>1 DEF BoundedSeq, SeqOf, Contents
  <2> QED
    BY <2>1 DEF Shape, TypeOK, Placed, Bounded, ClientRecords, CachedRows, Contents
<1> QED
    BY <1>1, <1>2, InitShape, PTL DEF Spec

-----------------------------------------------------------------------------
(* What the handle knows is true, without a filter and without liberties *)

Careful == Hidden = {} /\ Liberties = {}

RowOf(rs, r) == [recno |-> r, val |-> rs[r]]

\* The client holds the rows that follow the server's cursor s: first those in
\* debt, of which the last is cached, then the queue.
Fits(s, cl, rs) ==
    /\ cl.consumed > 0 \/ cl.queue # <<>> =>
          s.at = "on" /\ s.recno + cl.consumed + Len(cl.queue) <= Len(rs)
    /\ \A i \in 1..Len(cl.queue) : cl.queue[i] = RowOf(rs, s.recno + cl.consumed + i)
    /\ cl.row # NoRow => s.at = "on" /\ cl.row = RowOf(rs, s.recno + cl.consumed)
    /\ cl.consumed > 0 => cl.row # NoRow
    /\ cl.known \in {Unknown, Len(rs)}

IInv == Shape /\ Fits(server, client, rows)

\* The records between two.
LEMMA SpanSize ==
    ASSUME NEW a \in Nat, NEW b \in Nat, a <= b
    PROVE  Cardinality((a + 1)..b) = b - a
<1>1. a + 1 \in Int /\ b \in Int
    OBVIOUS
<1>2. Cardinality((a + 1)..b) = IF a + 1 > b THEN 0 ELSE b - (a + 1) + 1
    BY <1>1, FS_Interval
<1> QED
    BY <1>2

\* Without a filter a scan visits the next record number.
LEMMA FollowingExact ==
    ASSUME Careful, NEW n \in Nat, NEW c, c.recno \in 0..n
    PROVE  /\ DOMAIN Following(c, n) = 1..(n - c.recno)
           /\ Following(c, n) \in Seq(Int) /\ Len(Following(c, n)) = n - c.recno
           /\ \A i \in 1..(n - c.recno) : Following(c, n)[i] = c.recno + i
<1> DEFINE shown == ((c.recno + 1)..n) \ Hidden
           ith(i) == CHOOSE r \in shown : Cardinality({q \in shown : q <= r}) = i
           f == [i \in 1..Cardinality(shown) |-> ith(i)]
<1>1. shown = (c.recno + 1)..n /\ c.recno \in Nat /\ c.recno <= n
    BY DEF Careful
<1>2. Cardinality(shown) = n - c.recno
  <2>1. Cardinality((c.recno + 1)..n) = n - c.recno
    BY <1>1, SpanSize
  <2> HIDE DEF shown
  <2> QED
    BY <1>1, <2>1
<1>3. ASSUME NEW r \in shown
      PROVE  Cardinality({q \in shown : q <= r}) = r - c.recno
  <2>1. {q \in shown : q <= r} = (c.recno + 1)..r
    BY <1>1
  <2>2. r \in Nat /\ c.recno <= r
    BY <1>1
  <2> QED
    BY <1>1, <2>1, <2>2, SpanSize
<1>4. ASSUME NEW i \in 1..(n - c.recno) PROVE ith(i) = c.recno + i
  <2>1. c.recno + i \in shown
    BY <1>1
  <2>2. \A r \in shown : r - c.recno = i <=> r = c.recno + i
    BY <1>1
  <2>3. ith(i) = c.recno + i
    <3>1. Cardinality({q \in shown : q <= c.recno + i}) = i
      BY <1>1, <1>3, <2>1
    <3>2. \A r \in shown : Cardinality({q \in shown : q <= r}) = i => r = c.recno + i
      BY <1>3, <2>2
    <3> HIDE DEF shown
    <3> QED
      BY <2>1, <3>1, <3>2
  <2> QED
    BY <2>3
<1>5. Following(c, n) = f
    BY DEF Following
<1> HIDE DEF shown, ith
<1>6. DOMAIN f = 1..(n - c.recno) /\ \A i \in 1..(n - c.recno) : f[i] = c.recno + i
    BY <1>2, <1>4
<1>7. f \in [1..(n - c.recno) -> Int]
    BY <1>1, <1>2, <1>4
<1>8. n - c.recno \in Nat
    OBVIOUS
<1> HIDE DEF f
<1>9. f \in Seq(Int) /\ Len(f) = n - c.recno
    BY <1>7, <1>8, SeqDef
<1> QED
    BY <1>5, <1>6, <1>9

\* Without a filter a skip lands on the record it names.
LEMMA SkippedExact ==
    ASSUME Careful, NEW n \in Nat, NEW c, NEW d \in Int, c.recno \in Int,
           c.at = "bof" => d <= 0,
           c.recno + d \in 1..n
    PROVE  Skipped(c, d, n) = On(c.recno + d)
<1> DEFINE r == c.recno + d
<1>1. r \in 1..n /\ n > 0 /\ (IF c.at = "bof" /\ d > 0 THEN 0 ELSE c.recno) + d = r
    OBVIOUS
<1>2. Forward(r, n) = On(r)
  <2>1. (r..n) \ Hidden \in SUBSET Nat /\ r \in (r..n) \ Hidden
        /\ \A x \in (r..n) \ Hidden : r <= x
    BY <1>1 DEF Careful
  <2>2. Min((r..n) \ Hidden) = r
    <3>1. Min((r..n) \ Hidden) \in Nat /\ Min((r..n) \ Hidden) <= r
          /\ r <= Min((r..n) \ Hidden)
      BY <2>1, MinOfSet
    <3> QED
      BY <1>1, <3>1
  <2> QED
    BY <2>1, <2>2 DEF Forward
<1>3. Backward(r) = On(r)
  <2>1. (1..r) \ Hidden \in SUBSET Int /\ r \in (1..r) \ Hidden /\ r \in Int
        /\ \A x \in (1..r) \ Hidden : x <= r
    BY <1>1 DEF Careful
  <2>2. Max((1..r) \ Hidden) = r
    <3>1. Max((1..r) \ Hidden) \in Int /\ Max((1..r) \ Hidden) <= r
          /\ r <= Max((1..r) \ Hidden)
      BY <2>1, MaxOfSet
    <3> QED
      BY <1>1, <3>1
  <2> QED
    BY <2>1, <2>2 DEF Backward
<1> QED
    BY <1>1, <1>2, <1>3 DEF Skipped

\* Walking ahead and back leaves the server's cursor where it was.
LEMMA AheadExact ==
    ASSUME Careful, Shape, NEW c, Placed(c, count), c.at = "on"
    PROVE  /\ c = On(c.recno) /\ WalkedBack(c) = c
           /\ Ahead(c) \in Seq(1..count) /\ Len(Ahead(c)) <= Lookahead
           /\ c.recno + Len(Ahead(c)) <= count
           /\ \A i \in 1..Len(Ahead(c)) : Ahead(c)[i] = c.recno + i
<1> USE RemoteCursorAssumption, TableCursorAssumption
<1> DEFINE r == c.recno
           ahead == Ahead(c)
<1>1. c \in Cursors /\ r \in 1..count /\ count \in Nat /\ r \in 0..count /\ r \in Nat
    BY DEF Placed, Shape
<1>2. c = On(r)
    BY <1>1 DEF Cursors, On
<1>3. /\ Len(Following(c, count)) = count - r
      /\ \A i \in 1..(count - r) : Following(c, count)[i] = r + i
    BY <1>1, FollowingExact
<1>4. /\ ahead \in Seq(1..count)
      /\ Len(ahead) = IF Lookahead <= count - r THEN Lookahead ELSE count - r
      /\ \A i \in 1..Len(ahead) : ahead[i] = Following(c, count)[i]
    BY <1>1, <1>3, AheadIsRows
<1>5. Len(ahead) \in Nat /\ Len(ahead) <= Lookahead /\ Len(ahead) <= count - r
    BY <1>1, <1>4
<1>6. \A i \in 1..Len(ahead) : ahead[i] = r + i
    BY <1>1, <1>3, <1>4, <1>5
<1> HIDE DEF ahead
<1>7. ASSUME Len(ahead) < Lookahead PROVE WalkedBack(c) = c
  <2>1. Len(ahead) = count - r
    BY <1>4, <1>7
  <2>2. WalkedBack(c) = Skipped(Eof(count + 1), -(Len(ahead) + 1), count)
    BY <1>7 DEF WalkedBack, ahead
  <2>3. -(Len(ahead) + 1) \in Int /\ count + 1 + (-(Len(ahead) + 1)) = r /\ count + 1 \in Int
    BY <1>1, <2>1
  <2>4. Eof(count + 1).recno = count + 1 /\ Eof(count + 1).at = "eof"
    BY DEF Eof
  <2> QED
    BY <1>1, <1>2, <2>2, <2>3, <2>4, SkippedExact
<1>8. ASSUME ~(Len(ahead) < Lookahead) PROVE WalkedBack(c) = c
  <2>1. Len(ahead) \in 1..Len(ahead)
    BY <1>5, <1>8
  <2>2. Last(ahead) = r + Len(ahead)
    BY <1>6, <2>1 DEF Last
  <2>3. WalkedBack(c) = Skipped(On(r + Len(ahead)), -(Len(ahead) + 0), count)
    BY <1>8, <2>2 DEF WalkedBack, ahead
  <2>4. -(Len(ahead) + 0) \in Int /\ r + Len(ahead) + (-(Len(ahead) + 0)) = r
        /\ r + Len(ahead) \in Int
    BY <1>1, <1>5
  <2>5. On(r + Len(ahead)).recno = r + Len(ahead) /\ On(r + Len(ahead)).at = "on"
    BY DEF On
  <2> QED
    BY <1>1, <1>2, <2>3, <2>4, <2>5, SkippedExact
<1> QED
    BY <1>1, <1>2, <1>4, <1>5, <1>6, <1>7, <1>8 DEF ahead

\* Where the application is, when the handle owes moves.
LEMMA PositionExact ==
    ASSUME Careful, IInv
    PROVE  /\ client.consumed \in Nat /\ Placed(position, count)
           /\ client.consumed = 0 => position = server
           /\ client.consumed > 0 => /\ server.at = "on" /\ position.at = "on"
                                     /\ position = On(server.recno + client.consumed)
                                     /\ server.recno \in 1..count
                                     /\ server.recno + client.consumed \in 1..count
<1>1. Placed(server, count) /\ count \in Nat /\ client.consumed \in Nat
      /\ client.queue \in Seq(CachedRows) /\ count \in 0..MaxCount
    BY TableCursorAssumption, RemoteCursorAssumption DEF IInv, Shape, Bounded, ClientRecords
<1>2. client.consumed = 0 => position = server
    BY DEF position
<1>3. CASE client.consumed > 0
  <2>1. server.at = "on" /\ server.recno + client.consumed + Len(client.queue) <= Len(rows)
    BY <1>3 DEF IInv, Fits
  <2>2. Len(client.queue) \in Nat /\ server.recno \in 1..count /\ count = Len(rows)
    BY <1>1, <2>1 DEF Placed, count
  <2>3. server.recno + client.consumed \in 1..count
    BY <1>1, <2>1, <2>2
  <2>4. position = On(server.recno + client.consumed)
    BY <1>1, <1>3, <2>1, <2>2, <2>3, SkippedExact DEF position
  <2>5. position.at = "on" /\ Placed(position, count)
    BY <1>1, <2>3, <2>4, TableCursorAssumption DEF On, Placed, Cursors
  <2> QED
    BY <1>1, <1>3, <2>1, <2>2, <2>3, <2>4, <2>5
<1> QED
    BY <1>1, <1>2, <1>3

\* A skip over the wire takes the application where its own cursor would go.
LEMMA DebtFolds ==
    ASSUME Careful, IInv, NEW d \in Int
    PROVE  Skipped(server, d + client.consumed, count) = Skipped(position, d, count)
<1>1. CASE client.consumed = 0
  <2>1. d + client.consumed = d /\ position = server
    BY <1>1, PositionExact
  <2> QED
    BY <2>1
<1>2. CASE client.consumed > 0
  <2> DEFINE r == server.recno + client.consumed + d
  <2>1. /\ client.consumed \in Nat /\ server.at = "on" /\ position.at = "on"
        /\ server.recno \in Int /\ count \in Nat /\ count > 0
        /\ position.recno = server.recno + client.consumed
    BY <1>2, PositionExact, TableCursorAssumption DEF On, IInv, Shape
  <2>2. /\ server.recno + (d + client.consumed) = r /\ position.recno + d = r
        /\ r \in Int /\ d + client.consumed \in Int
    BY <2>1
  <2>3. CASE r \in 1..count
    <3>1. Skipped(server, d + client.consumed, count) = On(r)
      BY <2>1, <2>2, <2>3, SkippedExact
    <3>2. Skipped(position, d, count) = On(r)
      BY <2>1, <2>2, <2>3, SkippedExact
    <3> QED
      BY <3>1, <3>2
  <2>4. CASE r < 1
    BY <2>1, <2>2, <2>4 DEF Skipped
  <2>5. CASE r > count
    BY <2>1, <2>2, <2>5 DEF Skipped
  <2> QED
    BY <2>1, <2>2, <2>3, <2>4, <2>5
<1> QED
    BY <1>1, <1>2, PositionExact

-----------------------------------------------------------------------------
(* The calls *)

\* A fresh answer fits the cursor it came from.
LEMMA FreshFits ==
    ASSUME Careful, IInv, NEW c, Placed(c, count)
    PROVE  /\ Fits(c, Parsed(c, <<>>), rows)
           /\ c.at = "on" => WalkedBack(c) = c /\ Fits(c, Parsed(c, Ahead(c)), rows)
<1>1. Shape /\ client.known \in {Unknown, Len(rows)} /\ count = Len(rows)
      /\ c.recno \in Nat /\ count \in Nat /\ c.recno + 0 = c.recno
    BY DEF IInv, Fits, count, Shape, Placed, Cursors
<1>2. ASSUME NEW ahead \in Seq(1..count), Len(ahead) <= Lookahead,
             ahead # <<>> => c.at = "on",
             c.at = "on" => c.recno + Len(ahead) <= count,
             \A i \in 1..Len(ahead) : ahead[i] = c.recno + i
      PROVE  Fits(c, Parsed(c, ahead), rows)
  <2> DEFINE cl == Parsed(c, ahead)
  <2>1. /\ cl.known = client.known /\ cl.consumed = 0
        /\ cl.row = (IF c.at = "on" THEN RowAt(c.recno) ELSE NoRow)
        /\ Len(cl.queue) = Len(ahead)
        /\ \A i \in 1..Len(ahead) : cl.queue[i] = RowAt(ahead[i])
        /\ cl.queue \in Seq(CachedRows)
    BY <1>1, <1>2, ParsedBounded DEF Bounded, ClientRecords
  <2> HIDE DEF cl
  <2>2. \A i \in 1..Len(cl.queue) : cl.queue[i] = RowOf(rows, c.recno + cl.consumed + i)
    BY <1>1, <1>2, <2>1 DEF RowAt, RowOf
  <2>3. cl.queue # <<>> => ahead # <<>>
    BY <2>1
  <2>4. cl.row # NoRow => c.at = "on" /\ cl.row = RowOf(rows, c.recno + cl.consumed)
    BY <1>1, <2>1 DEF RowAt, RowOf
  <2>5. cl.consumed > 0 \/ cl.queue # <<>> =>
            c.at = "on" /\ c.recno + cl.consumed + Len(cl.queue) <= Len(rows)
    BY <1>1, <1>2, <2>1, <2>3
  <2>6. Fits(c, cl, rows)
    BY <1>1, <2>1, <2>2, <2>4, <2>5 DEF Fits
  <2> QED
    BY <2>6 DEF cl
<1>3. Fits(c, Parsed(c, <<>>), rows)
  <2>1. <<>> \in Seq(1..count) /\ Len(<<>>) <= Lookahead
    BY RemoteCursorAssumption
  <2>2. c.at = "on" => c.recno + Len(<<>>) <= count
    BY <1>1 DEF Placed
  <2>3. \A i \in 1..Len(<<>>) : <<>>[i] = c.recno + i
    OBVIOUS
  <2> QED
    BY <1>2, <2>1, <2>2, <2>3
<1>4. c.at = "on" => WalkedBack(c) = c /\ Fits(c, Parsed(c, Ahead(c)), rows)
    BY <1>1, <1>2, AheadExact
<1> QED
    BY <1>3, <1>4

\* An answer over the wire: the debt is paid and the cursor is where the
\* application expects it.
LEMMA AcksFit ==
    ASSUME Careful, IInv
    PROVE  /\ \A d \in Int :
                 /\ SkipAcked(d).server = Skipped(position, d, count)
                 /\ SkipAcked(d).client.consumed = 0
                 /\ Fits(SkipAcked(d).server, SkipAcked(d).client, rows)
           /\ Settled.server = position /\ Settled.client.consumed = 0
           /\ Fits(Settled.server, Settled.client, rows)
<1>1. Shape /\ count \in 0..MaxCount /\ Placed(position, count)
    BY PositionExact DEF IInv, Shape
<1>2. ASSUME NEW d \in Int
      PROVE  /\ SkipAcked(d).server = Skipped(position, d, count)
             /\ SkipAcked(d).client.consumed = 0
             /\ Fits(SkipAcked(d).server, SkipAcked(d).client, rows)
  <2> DEFINE step == d + client.consumed
             c == Skipped(server, step, count)
  <2>1. SkipAcked(d) = IF step >= 1 /\ c.at = "on"
                       THEN [server |-> WalkedBack(c), client |-> Parsed(c, Ahead(c))]
                       ELSE [server |-> c, client |-> Parsed(c, <<>>)]
    BY DEF SkipAcked, Acked
  <2>2. c = Skipped(position, d, count)
    BY DebtFolds
  <2> HIDE DEF c
  <2>3. Placed(c, count)
    BY <1>1, <2>2, SkippedPlaced
  <2>4. Parsed(c, Ahead(c)).consumed = 0 /\ Parsed(c, <<>>).consumed = 0
    BY <1>1 DEF Parsed, Shape, Bounded, ClientRecords
  <2> QED
    BY <2>1, <2>2, <2>3, <2>4, FreshFits
<1>3. ASSUME client.consumed > 0
      PROVE  /\ Settled.server = position /\ Settled.client.consumed = 0
             /\ Fits(Settled.server, Settled.client, rows)
  <2>1. Settled = SkipAcked(0)
    BY <1>3 DEF Settled
  <2>2. Skipped(position, 0, count) = position
    <3>1. position.at = "on" /\ position = On(position.recno)
          /\ position.recno \in 1..count /\ count \in Nat
          /\ position.recno + 0 = position.recno /\ position.recno \in Int
      BY <1>1, <1>3, PositionExact DEF On
    <3> QED
      BY <3>1, SkippedExact
  <2> QED
    BY <1>2, <2>1, <2>2
<1>4. ASSUME ~(client.consumed > 0)
      PROVE  /\ Settled.server = position /\ Settled.client.consumed = 0
             /\ Fits(Settled.server, Settled.client, rows)
  <2>1. client.consumed = 0
    BY <1>4, PositionExact
  <2>2. Settled = [server |-> server, client |-> client]
    BY <1>4 DEF Settled
  <2> QED
    BY <2>1, <2>2, PositionExact DEF IInv
<1> QED
    BY <1>2, <1>3, <1>4

\* A row forgotten leaves nothing to contradict.
LEMMA DropFits ==
    ASSUME Shape, NEW s, NEW cl, Bounded(cl), cl.consumed = 0, NEW rs, Fits(s, cl, rs)
    PROVE  Fits(s, DropRow(cl), rs) /\ Fits(s, DropCount(DropRow(cl)), rs)
<1>1. Bounded(DropRow(cl)) /\ cl.queue \in Seq(CachedRows)
    BY DropsBounded DEF Bounded, ClientRecords
<1>2. /\ DropRow(cl).row = NoRow /\ DropRow(cl).queue = cl.queue
      /\ DropRow(cl).consumed = 0 /\ DropRow(cl).known = cl.known
      /\ DropCount(DropRow(cl)).row = NoRow /\ DropCount(DropRow(cl)).queue = cl.queue
      /\ DropCount(DropRow(cl)).consumed = 0 /\ DropCount(DropRow(cl)).known = Unknown
    BY <1>1, DropsBounded
<1> QED
    BY <1>2 DEF Fits

\* The handle starts knowing nothing.
LEMMA InitFits == Init => IInv
<1> SUFFICES ASSUME Init PROVE Fits(server, client, rows)
    BY InitShape DEF IInv
<1>1. client.row = NoRow /\ client.queue = <<>> /\ client.consumed = 0
      /\ client.known = Unknown
    BY DEF Init
<1> QED
    BY <1>1 DEF Fits

\* A careful handle serves a row from the queue as the server would.
LEMMA QueueServes ==
    ASSUME Careful, IInv, SkipLocal
    PROVE  /\ Fits(server', client', rows')
           /\ position' = Skipped(position, 1, count)
<1>1. /\ Shape /\ client \in ClientRecords /\ client.queue \in Seq(CachedRows)
      /\ client.queue # <<>> /\ client.consumed \in Nat /\ count = Len(rows)
      /\ Placed(server, count) /\ count \in Nat
    BY DEF IInv, Shape, Bounded, ClientRecords, SkipLocal, count
<1>2. /\ server.at = "on" /\ server.recno \in 1..count
      /\ server.recno + client.consumed + Len(client.queue) <= count
    BY <1>1 DEF IInv, Fits, Placed
<1>3. /\ Tail(client.queue) \in Seq(CachedRows) /\ Len(client.queue) \in Nat
      /\ Len(Tail(client.queue)) = Len(client.queue) - 1 /\ Len(client.queue) > 0
      /\ \A i \in 1..Len(Tail(client.queue)) : Tail(client.queue)[i] = client.queue[i + 1]
      /\ Head(client.queue) = client.queue[1]
    BY <1>1, HeadTailProperties
<1> DEFINE r == server.recno + client.consumed
<1>4. \A i \in 1..Len(client.queue) : client.queue[i] = RowOf(rows, r + i)
    BY DEF IInv, Fits
<1>5. /\ server' = server /\ rows' = rows
      /\ client'.row = Head(client.queue) /\ client'.queue = Tail(client.queue)
      /\ client'.consumed = client.consumed + 1 /\ client'.known = client.known
    BY <1>1 DEF SkipLocal, ClientRecords
<1>6. r \in Nat /\ r + 1 \in 1..count /\ r \in Int
      /\ server.recno + (client.consumed + 1) = r + 1
    BY <1>1, <1>2, <1>3
<1>7. Fits(server', client', rows')
  <2>1. client'.row = RowOf(rows, server.recno + client'.consumed)
    BY <1>3, <1>4, <1>5, <1>6
  <2>2. \A i \in 1..Len(client'.queue) :
            client'.queue[i] = RowOf(rows, server.recno + client'.consumed + i)
    <3> TAKE i \in 1..Len(client'.queue)
    <3>1. client'.queue[i] = client.queue[i + 1] /\ i + 1 \in 1..Len(client.queue)
      BY <1>3, <1>5
    <3>2. server.recno + client'.consumed + i = r + (i + 1)
      <4>1. server.recno \in Int /\ client.consumed \in Int /\ i \in Int
        BY <1>1, <1>2, <1>3, <1>5
      <4>2. client'.consumed = client.consumed + 1
        BY <1>5
      <4> QED
        BY <4>1, <4>2
    <3> QED
      BY <1>4, <3>1, <3>2
  <2>3. server.recno + client'.consumed + Len(client'.queue) <= Len(rows)
    BY <1>1, <1>2, <1>3, <1>5
  <2>4. client'.row # NoRow
    BY <1>6, <2>1, <1>5 DEF RowOf, NoRow
  <2>5. client'.known \in {Unknown, Len(rows)}
    BY <1>5 DEF IInv, Fits
  <2> QED
    BY <1>2, <1>5, <2>1, <2>2, <2>3, <2>4, <2>5 DEF Fits
<1>8. Skipped(position, 1, count) = On(r + 1)
  <2>1. position.recno = r /\ position.at = "on"
    BY <1>1, <1>2, <1>6, PositionExact DEF On
  <2> QED
    BY <1>1, <1>6, <2>1, SkippedExact
<1>9. position' = On(r + 1)
  <2>1. position' = Skipped(server, client.consumed + 1, count)
    BY <1>1, <1>5 DEF position, count
  <2> QED
    BY <1>1, <1>2, <1>6, <2>1, SkippedExact
<1> QED
    BY <1>7, <1>8, <1>9

\* A write hits the row the application is on and no row of the queue.
LEMMA WriteFits ==
    ASSUME Careful, IInv, NEW v \in Values, Put(v, Settled), NEW cl,
           cl \in {DropRow(Settled.client), DropCount(DropRow(Settled.client))}
    PROVE  Fits(server', cl, rows')
<1> DEFINE s == Settled.server
<1>1. /\ Shape /\ Placed(s, count) /\ Bounded(Settled.client)
      /\ Settled.client.consumed = 0 /\ Fits(s, Settled.client, rows)
    BY AcksShaped, AcksFit DEF IInv
<1>2. Fits(s, cl, rows) /\ cl.consumed = 0 /\ cl.row = NoRow
    BY <1>1, DropFits, DropsBounded
<1>3. server' = s /\ Len(rows') = Len(rows)
    BY <1>1, PutKeeps DEF Put, count
<1>4. \A r \in 1..Len(rows) : r > s.recno => rows'[r] = rows[r]
    BY <1>1 DEF Put, Shape, count, Placed, Cursors
<1>5. ASSUME NEW i \in 1..Len(cl.queue)
      PROVE  cl.queue[i] = RowOf(rows', s.recno + cl.consumed + i)
  <2>1. cl.queue # <<>> /\ Len(cl.queue) \in Nat
    <3>1. cl.queue \in Seq(CachedRows)
      BY <1>1, DropsBounded DEF Bounded, ClientRecords
    <3> QED
      BY <3>1
  <2>2. s.recno + 0 + Len(cl.queue) <= Len(rows) /\ s.recno \in Nat
    BY <1>1, <1>2, <2>1 DEF Fits, Placed, Cursors
  <2>3. s.recno + 0 + i \in 1..Len(rows) /\ s.recno + 0 + i > s.recno
    BY <1>1, <2>1, <2>2 DEF Shape, count
  <2> QED
    BY <1>2, <1>4, <2>3 DEF Fits, RowOf
<1> QED
    BY <1>2, <1>3, <1>5 DEF Fits

\* Every call of a careful application keeps what the handle knows true, and
\* is a call of the plain handle or changes nothing the application sees.
LEMMA StepFits ==
    ASSUME Careful, IInv, Next
    PROVE  Fits(server', client', rows')
<1> USE RemoteCursorAssumption, TableCursorAssumption
<1>0. /\ Shape /\ Placed(server, count) /\ Bounded(client) /\ count = Len(rows)
      /\ count \in Nat /\ client \in ClientRecords /\ Fits(server, client, rows)
    BY DEF IInv, Shape, Bounded, count
<1>1. ASSUME NEW c, Placed(c, count), Moved(Acked(c))
      PROVE  Fits(server', client', rows')
    BY <1>1, FreshFits DEF Moved, Acked
<1>2. CASE GotoTop \/ GotoBottom
    BY <1>0, <1>1, <1>2, MovesPlaced, 0 \in Nat DEF GotoTop, GotoBottom, Shape
<1>3. ASSUME NEW r \in 0..MaxCount + 1, GotoRecord(r)
      PROVE  Fits(server', client', rows')
  <2>1. Placed(Gone(server, r, count), count)
    BY <1>0, MovesPlaced DEF Shape
  <2> QED
    BY <1>1, <1>3, <2>1 DEF GotoRecord
<1>4. CASE SkipLocal
    BY <1>4, QueueServes
<1>5. ASSUME NEW d \in Steps, SkipWire(d)
      PROVE  Fits(server', client', rows')
  <2>1. d \in Int
    OBVIOUS
  <2> QED
    BY <1>5, <2>1, AcksFit DEF SkipWire, Moved
<1>6. ASSUME NEW r \in 1..count + 1, Seek(r)
      PROVE  Fits(server', client', rows')
  <2>1. client.consumed = 0 /\ client.queue = <<>>
    BY <1>6 DEF Seek, Allowed, Careful
  <2>2. client' = DropRow(client) /\ rows' = rows
    BY <1>6 DEF Seek, Moved
  <2>3. client'.row = NoRow /\ client'.queue = <<>> /\ client'.consumed = 0
        /\ client'.known = client.known
    BY <1>0, <2>1, <2>2, DropsBounded
  <2> QED
    BY <1>0, <2>2, <2>3 DEF Fits
<1>7. CASE Refresh
  <2> DEFINE s == Settled.server
  <2>1. /\ Placed(s, count) /\ Bounded(Settled.client)
        /\ Settled.client.consumed = 0 /\ Fits(s, Settled.client, rows)
    BY <1>0, AcksShaped, AcksFit
  <2>2. client' = DropRow(Settled.client) /\ rows' = rows
        /\ server' = Gone(s, RecnoOf(s, count), count)
    BY <1>7 DEF Refresh, Moved
  <2>3. /\ Fits(s, client', rows) /\ client'.row = NoRow /\ client'.consumed = 0
        /\ client'.queue \in Seq(CachedRows)
    BY <1>0, <2>1, <2>2, DropFits, DropsBounded DEF Bounded, ClientRecords
  <2>4. s.at = "on" => server' = s
    BY <1>0, <2>1, <2>2 DEF Placed, Cursors, RecnoOf, AtEof, Gone, On
  <2>5. CASE client'.queue # <<>>
    BY <2>2, <2>3, <2>4, <2>5 DEF Fits
  <2>6. CASE client'.queue = <<>>
    BY <2>2, <2>3, <2>6 DEF Fits
  <2> QED
    BY <2>5, <2>6
<1>8. CASE AppendRecord
  <2>1. Bounded(Settled.client) /\ Settled.client.consumed = 0
        /\ Bounded(DropRow(Settled.client))
    BY <1>0, AcksShaped, AcksFit, DropsBounded
  <2>2. Settled.client.queue = <<>> /\ client' = DropCount(DropRow(Settled.client))
    BY <1>8 DEF AppendRecord, Allowed, Careful
  <2>3. client'.queue = <<>> /\ client'.row = NoRow /\ client'.consumed = 0
        /\ client'.known = Unknown
    BY <1>0, <2>1, <2>2, DropsBounded
  <2> QED
    BY <2>3 DEF Fits
<1>9. ASSUME NEW v \in Values, SetField(v) \/ FlagRecord(v)
      PROVE  Fits(server', client', rows')
    BY <1>9, WriteFits DEF SetField, FlagRecord
<1>10. CASE WriteRecord
  <2>1. client.consumed = 0 /\ client' = DropRow(client) /\ server' = server /\ rows' = rows
    BY <1>10 DEF WriteRecord, Allowed, Careful
  <2> QED
    BY <1>0, <2>1, DropFits
<1>11. CASE AskCount
  <2>1. client' \in {client, [client EXCEPT !.known = Len(rows)]}
        /\ server' = server /\ rows' = rows
    BY <1>0, <1>11 DEF AskCount, Told, ClientRecords, Fits
  <2>2. client'.row = client.row /\ client'.queue = client.queue
        /\ client'.consumed = client.consumed
        /\ client'.known \in {client.known, Len(rows)}
    BY <1>0, <2>1 DEF ClientRecords
  <2> QED
    BY <1>0, <2>1, <2>2 DEF Fits
<1>12. CASE AskField
  <2>1. client' \in {client, Parsed(server, <<>>)} /\ server' = server /\ rows' = rows
    BY <1>12 DEF AskField, Told
  <2> QED
    BY <1>0, <2>1, FreshFits
<1>13. CASE AskRecno \/ AskEof \/ AskBof
    BY <1>0, <1>13 DEF AskRecno, AskEof, AskBof, Told
<1> QED
    BY <1>2, <1>3, <1>4, <1>5, <1>6, <1>7, <1>8, <1>9, <1>10, <1>11, <1>12, <1>13
       DEF Next, Ask

\* The inductive invariant: the client's rows fit the server's cursor.
THEOREM Invariance == ASSUME Careful PROVE Spec => []IInv
<1>1. IInv /\ [Next]_vars => IInv'
  <2> SUFFICES ASSUME IInv, [Next]_vars PROVE IInv'
    OBVIOUS
  <2>1. Shape'
    BY ShapeKept DEF IInv
  <2>2. Fits(server', client', rows')
    BY StepFits DEF IInv, vars
  <2> QED
    BY <2>1, <2>2 DEF IInv, Fits, RowOf
<1> QED
    BY <1>1, InitFits, PTL DEF Spec

\* The queue holds the rows that follow the application's position, with their
\* present contents, for any table and number of rows looked ahead
\* (client.h prefetch_queue).
THEOREM QueueIsFresh == ASSUME Careful PROVE Spec => []QueueNeverStale
<1>1. ASSUME IInv PROVE QueueNeverStale
  <2>1. /\ client.queue \in Seq(CachedRows) /\ count = Len(rows) /\ count \in Nat
        /\ Placed(position, count) /\ Fits(server, client, rows)
        /\ client.consumed \in Nat
    BY <1>1, PositionExact DEF IInv, Shape, Bounded, ClientRecords, count
  <2>2. server.at = "on" => /\ position.at = "on"
                            /\ position.recno = server.recno + client.consumed
    <3>1. CASE client.consumed > 0
      BY <1>1, <3>1, PositionExact DEF On
    <3>2. CASE client.consumed = 0
      BY <1>1, <2>1, <3>2, PositionExact DEF Placed, Cursors
    <3> QED
      BY <2>1, <3>1, <3>2
  <2>3. ASSUME NEW i \in DOMAIN client.queue
        PROVE  /\ i <= Len(Following(position, count))
               /\ client.queue[i] = RowAt(Following(position, count)[i])
    <3>1. i \in 1..Len(client.queue) /\ Len(client.queue) \in Nat /\ client.queue # <<>>
      BY <2>1
    <3>2. /\ server.at = "on" /\ server.recno + client.consumed + Len(client.queue) <= count
          /\ client.queue[i] = RowOf(rows, server.recno + client.consumed + i)
      BY <2>1, <3>1 DEF Fits
    <3>3. position.recno \in 0..count /\ i \in 1..(count - position.recno)
      BY <2>1, <2>2, <3>1, <3>2 DEF Placed
    <3>4. Following(position, count)[i] = position.recno + i
          /\ Len(Following(position, count)) = count - position.recno
      BY <1>1, <2>1, <3>3, FollowingExact
    <3> QED
      BY <2>2, <3>2, <3>3, <3>4 DEF RowAt, RowOf
  <2>4. Cached => position.at = "on" /\ client.row = RowAt(position.recno)
    BY <2>1, <2>2 DEF Cached, Fits, RowAt, RowOf
  <2> QED
    BY <2>3, <2>4 DEF QueueNeverStale
<1> QED
    BY <1>1, Invariance, PTL

-----------------------------------------------------------------------------
(* Prefetching does not show *)

\* The plain handle moves its cursor by the same functions.
LEMMA SameMoves ==
    /\ \A n \in Nat : /\ Plain!Top(n) = Top(n) /\ Plain!Bottom(n) = Bottom(n)
                      /\ Plain!Opened(n) = Opened(n)
    /\ \A c, r, n : Plain!Gone(c, r, n) = Gone(c, r, n)
    /\ \A c : \A d \in Int, n \in Nat :
          c.recno \in Int => Plain!Skipped(c, d, n) = Skipped(c, d, n)
    /\ \A c, n : Plain!RecnoOf(c, n) = RecnoOf(c, n)
    /\ \A c : Plain!AtEof(c) = AtEof(c) /\ Plain!AtBof(c) = AtBof(c)
    /\ \A r : Plain!On(r) = On(r)
    /\ Plain!count = count
<1>1. /\ \A r, n : Plain!Forward(r, n) = Forward(r, n)
      /\ \A r : Plain!Backward(r) = Backward(r)
    BY DEF Plain!Forward, Plain!Backward, Forward, Backward, Plain!Min, Plain!Max,
           Min, Max, Plain!Eof, Eof, Plain!Bof, Bof, Plain!On, On
<1>2. /\ \A r : Plain!On(r) = On(r) /\ Plain!Eof(r) = Eof(r)
      /\ Plain!Bof = Bof /\ Plain!Limbo = Limbo
    BY DEF Plain!Eof, Eof, Plain!Bof, Bof, Plain!On, On, Plain!Limbo, Limbo
<1>3. ASSUME NEW c, NEW d \in Int, NEW n \in Nat, c.recno \in Int
      PROVE  Plain!Skipped(c, d, n) = Skipped(c, d, n)
  <2> DEFINE target == (IF c.at = "bof" /\ d > 0 THEN 0 ELSE c.recno) + d
  <2>1. target \in Int
    BY <1>3
  <2>2. CASE n = 0
    BY <1>2, <2>2 DEF Plain!Skipped, Skipped
  <2>3. CASE n > 0
    <3>1. target < 1 \/ target > n \/ target \in 1..n
      BY <2>1
    <3> QED
      BY <1>1, <1>2, <2>3, <3>1 DEF Plain!Skipped, Skipped
  <2> QED
    BY <2>2, <2>3
<1>4. \A c : Plain!AtEof(c) = AtEof(c) /\ Plain!AtBof(c) = AtBof(c)
    BY DEF Plain!AtEof, AtEof, Plain!AtBof, AtBof
<1>5. \A c, n : Plain!RecnoOf(c, n) = RecnoOf(c, n)
    BY <1>4 DEF Plain!RecnoOf, RecnoOf
<1>6. \A n \in Nat : /\ Plain!Top(n) = Top(n) /\ Plain!Bottom(n) = Bottom(n)
                     /\ Plain!Opened(n) = Opened(n)
  <2>1. \A n \in Nat : Plain!Skipped(On(1), 1, n) = Skipped(On(1), 1, n)
    BY <1>3 DEF On
  <2> QED
    BY <1>2, <2>1 DEF Plain!Top, Top, Plain!Bottom, Bottom, Plain!Opened, Opened
<1>7. \A c, r, n : Plain!Gone(c, r, n) = Gone(c, r, n)
    BY <1>2 DEF Plain!Gone, Gone
<1>8. Plain!count = count
    BY DEF Plain!count, count
<1> QED
    BY <1>2, <1>3, <1>4, <1>5, <1>6, <1>7, <1>8

\* A handle just opened is a plain handle just opened.
LEMMA InitPlain == Init => Plain!Init
<1> SUFFICES ASSUME Init PROVE Plain!Init
    OBVIOUS
<1>1. client.consumed = 0
    BY DEF Init
<1>2. position = server
    BY <1>1 DEF position
<1>3. InitCount \in Nat
    BY RemoteCursorAssumption, TableCursorAssumption
<1> QED
    BY <1>2, <1>3, SameMoves DEF Init, Plain!Init

\* A placed cursor has a number.
LEMMA PlacedRecno == \A c, n : Placed(c, n) => c.recno \in Int
BY DEF Placed, Cursors

\* With no debt the application is where the server's cursor is.
LEMMA NextPosition ==
    ASSUME client'.consumed = 0
    PROVE  position' = server'
BY DEF position

\* Each call is one of the plain handle's, or a stutter.
LEMMA StepPlain ==
    ASSUME Careful, IInv, [Next]_vars
    PROVE  [Plain!Next]_(Plain!vars)
<1> USE RemoteCursorAssumption, TableCursorAssumption
<1>0. /\ Shape /\ Placed(server, count) /\ Bounded(client) /\ count = Len(rows)
      /\ count \in 0..MaxCount /\ client \in ClientRecords /\ Fits(server, client, rows)
      /\ Placed(position, count) /\ count \in Nat
    BY PositionExact DEF IInv, Shape, Bounded, count
<1>1. CASE UNCHANGED vars
    BY <1>1 DEF vars, Plain!vars, position, count
<1>2. ASSUME NEW c, Placed(c, count), Moved(Acked(c))
      PROVE  position' = c /\ UNCHANGED <<rows, answer>>
  <2>1. Parsed(c, <<>>).consumed = 0
    BY <1>0 DEF Parsed, ClientRecords
  <2> QED
    BY <1>2, <2>1, NextPosition DEF Moved, Acked
<1>3. CASE GotoTop
  <2>1. Plain!GotoTop
    BY <1>0, <1>2, <1>3, MovesPlaced, SameMoves, 0 \in Nat
       DEF GotoTop, Plain!GotoTop, Plain!Move
  <2> QED
    BY <2>1 DEF Plain!Next
<1>4. CASE GotoBottom
  <2>1. Plain!GotoBottom
    BY <1>0, <1>2, <1>4, MovesPlaced, SameMoves, 0 \in Nat
       DEF GotoBottom, Plain!GotoBottom, Plain!Move
  <2> QED
    BY <2>1 DEF Plain!Next
<1>5. ASSUME NEW r \in 0..MaxCount + 1, GotoRecord(r)
      PROVE  Plain!Next
  <2>1. Placed(Gone(server, r, count), count)
    BY <1>0, MovesPlaced
  <2>2. Gone(server, r, count) = Gone(position, r, count)
    BY <1>0, PositionExact DEF Gone
  <2>3. Plain!GotoRecord(r)
    BY <1>2, <1>5, <2>1, <2>2, SameMoves DEF GotoRecord, Plain!GotoRecord, Plain!Move
  <2> QED
    BY <2>3 DEF Plain!Next
<1>6. CASE SkipLocal
  <2>1. Plain!Skip(1)
    BY <1>0, <1>6, QueueServes, SameMoves, PlacedRecno DEF SkipLocal, Plain!Skip, Plain!Move
  <2> QED
    BY <2>1 DEF Plain!Next
<1>7. ASSUME NEW d \in Steps, SkipWire(d)
      PROVE  Plain!Next
  <2>1. SkipAcked(d).server = Skipped(position, d, count) /\ SkipAcked(d).client.consumed = 0
    BY AcksFit
  <2>2. position' = Skipped(position, d, count) /\ UNCHANGED <<rows, answer>>
    BY <1>7, <2>1, NextPosition DEF SkipWire, Moved
  <2>3. Plain!Skip(d)
    BY <1>0, <2>2, SameMoves, PlacedRecno DEF Plain!Skip, Plain!Move
  <2> QED
    BY <2>3 DEF Plain!Next
<1>8. ASSUME NEW r \in 1..count + 1, Seek(r)
      PROVE  Plain!Next
  <2>1. client.consumed = 0 /\ position = server
    BY <1>8, PositionExact DEF Seek, Allowed, Careful
  <2>2. client'.consumed = 0
    BY <1>0, <1>8, <2>1, DropsBounded DEF Seek, Moved
  <2>3. position' = Gone(position, r, count) /\ UNCHANGED <<rows, answer>>
    BY <1>8, <2>1, <2>2, NextPosition DEF Seek, Moved
  <2>4. Plain!GotoRecord(r) /\ r \in 0..MaxCount + 1
    BY <1>0, <2>3, SameMoves DEF Plain!GotoRecord, Plain!Move
  <2> QED
    BY <2>4 DEF Plain!Next
<1>9. CASE Refresh
  <2>1. Settled.server = position /\ Settled.client.consumed = 0 /\ Bounded(Settled.client)
    BY <1>0, AcksFit, AcksShaped
  <2>2. client'.consumed = 0
    BY <1>0, <1>9, <2>1, DropsBounded DEF Refresh, Moved
  <2>3. position' = Gone(position, RecnoOf(position, count), count)
        /\ UNCHANGED <<rows, answer>>
    BY <1>9, <2>1, <2>2, NextPosition DEF Refresh, Moved
  <2>4. Plain!Refresh
    BY <2>3, SameMoves DEF Plain!Refresh, Plain!Move
  <2> QED
    BY <2>4 DEF Plain!Next
<1>10. CASE AppendRecord
  <2>1. Settled.client.consumed = 0 /\ Bounded(Settled.client)
        /\ Bounded(DropRow(Settled.client))
    BY <1>0, AcksFit, AcksShaped, DropsBounded
  <2>2. client'.consumed = 0
    BY <1>0, <1>10, <2>1, DropsBounded DEF AppendRecord
  <2>3. position' = On(count + 1)
    BY <1>10, <2>2, NextPosition DEF AppendRecord
  <2>4. Plain!AppendRecord
    BY <1>10, <2>3, SameMoves DEF AppendRecord, Plain!AppendRecord
  <2> QED
    BY <2>4 DEF Plain!Next
<1>11. ASSUME NEW v \in Values, SetField(v) \/ FlagRecord(v)
       PROVE  Plain!Next
  <2>1. Settled.server = position /\ Settled.client.consumed = 0 /\ Bounded(Settled.client)
        /\ Bounded(DropRow(Settled.client))
    BY <1>0, AcksFit, AcksShaped, DropsBounded
  <2>2. client'.consumed = 0
    BY <1>0, <1>11, <2>1, DropsBounded DEF SetField, FlagRecord
  <2>3. position' = position /\ Put(v, Settled)
    BY <1>11, <2>1, <2>2, NextPosition DEF SetField, FlagRecord, Put
  <2>4. Plain!Write(v)
    BY <2>1, <2>3 DEF Put, Plain!Write
  <2> QED
    BY <2>4 DEF Plain!Next
<1>12. CASE WriteRecord
  <2>1. client.consumed = 0 /\ position = server
    BY <1>12, PositionExact DEF WriteRecord, Allowed, Careful
  <2>2. client'.consumed = 0
    BY <1>0, <1>12, <2>1, DropsBounded DEF WriteRecord
  <2>3. UNCHANGED <<position, rows, answer>>
    BY <1>12, <2>1, <2>2, NextPosition DEF WriteRecord
  <2> QED
    BY <2>3 DEF Plain!vars
<1>13. CASE Ask
  <2>1. server' = server /\ rows' = rows /\ count' = count
    BY <1>13 DEF Ask, AskRecno, AskEof, AskBof, AskCount, AskField, Told, count
  <2>2. ~Cached => client.consumed = 0 /\ position = server
    BY <1>0, PositionExact DEF Fits, Cached
  <2>3. Cached => /\ position.at = "on" /\ position.recno \in 1..count
                  /\ client.row = RowAt(position.recno)
    <3>1. CASE client.consumed > 0
      BY <1>0, <3>1, PositionExact DEF Cached, Fits, RowAt, RowOf, On
    <3>2. CASE client.consumed = 0
      BY <1>0, <3>2, PositionExact DEF Cached, Fits, RowAt, RowOf, Placed, Cursors
    <3> QED
      BY <1>0, <3>1, <3>2 DEF ClientRecords
  <2>4. CASE AskRecno
    <3>1. (IF Cached THEN client.row.recno ELSE RecnoOf(server, count))
              = RecnoOf(position, count)
      BY <1>0, <2>2, <2>3 DEF RecnoOf, AtEof, RowAt
    <3>2. position' = position
      BY <2>1, <2>4 DEF AskRecno, position
    <3>3. Plain!AskRecno
      BY <2>4, <3>1, <3>2, SameMoves DEF AskRecno, Told, Plain!AskRecno, Plain!Told
    <3> QED
      BY <3>3 DEF Plain!Next
  <2>5. CASE AskEof
    <3>1. (~Cached /\ AtEof(server)) = AtEof(position)
      BY <2>2, <2>3 DEF AtEof
    <3>2. position' = position
      BY <2>1, <2>5 DEF AskEof, position
    <3>3. Plain!AskEof
      BY <2>5, <3>1, <3>2, SameMoves DEF AskEof, Told, Plain!AskEof, Plain!Told
    <3> QED
      BY <3>3 DEF Plain!Next
  <2>6. CASE AskBof
    <3>1. (~Cached /\ AtBof(server)) = AtBof(position)
      BY <2>2, <2>3 DEF AtBof
    <3>2. position' = position
      BY <2>1, <2>6 DEF AskBof, position
    <3>3. Plain!AskBof
      BY <2>6, <3>1, <3>2, SameMoves DEF AskBof, Told, Plain!AskBof, Plain!Told
    <3> QED
      BY <3>3 DEF Plain!Next
  <2>7. CASE AskCount
    <3>1. answer' = <<"count", count>>
      BY <1>0, <2>7 DEF AskCount, Told, Fits
    <3>2. client'.consumed = client.consumed
      BY <1>0, <2>7 DEF AskCount, ClientRecords
    <3>3. position' = position
      BY <2>1, <3>2 DEF position
    <3>4. Plain!AskCount
      BY <2>1, <3>1, <3>3, SameMoves DEF Plain!AskCount, Plain!Told
    <3> QED
      BY <3>4 DEF Plain!Next
  <2>8. CASE AskField
    <3> DEFINE cl == IF Cached THEN client ELSE Parsed(server, <<>>)
    <3>1. ~Cached => /\ Parsed(server, <<>>).consumed = 0
                     /\ Parsed(server, <<>>).row
                            = IF server.at = "on" THEN RowAt(server.recno) ELSE NoRow
      BY <1>0 DEF Parsed, ClientRecords
    <3>2. client' = cl
          /\ answer' = <<"field", IF cl.row # NoRow THEN cl.row.val ELSE "none">>
      BY <2>8 DEF AskField, Told
    <3>3. client'.consumed = client.consumed
      BY <2>2, <3>1, <3>2
    <3>4. position' = position
      BY <2>1, <3>3 DEF position
    <3>5. (IF cl.row # NoRow THEN cl.row.val ELSE "none")
              = IF position.at = "on" THEN rows[position.recno] ELSE "none"
      <4>1. CASE Cached
        BY <2>3, <4>1 DEF RowAt, Cached
      <4>2. CASE ~Cached
        <5>1. cl.row = IF position.at = "on" THEN RowAt(position.recno) ELSE NoRow
          BY <2>2, <3>1, <4>2
        <5>2. position.at = "on" => /\ RowAt(position.recno) # NoRow
                                    /\ RowAt(position.recno).val = rows[position.recno]
          BY <1>0 DEF Placed, RowAt, NoRow
        <5> QED
          BY <5>1, <5>2
      <4> QED
        BY <4>1, <4>2
    <3>6. Plain!AskField
      BY <2>1, <3>2, <3>4, <3>5 DEF Plain!AskField, Plain!Told
    <3> QED
      BY <3>6 DEF Plain!Next
  <2> QED
    BY <1>13, <2>4, <2>5, <2>6, <2>7, <2>8 DEF Ask
<1> QED
    BY <1>1, <1>3, <1>4, <1>5, <1>6, <1>7, <1>8, <1>9, <1>10, <1>11, <1>12, <1>13 DEF Next

\* The application cannot tell a handle that prefetches from one that asks the
\* server every time (server.cpp pack_row_trailer, client.cpp skip).
THEOREM Refinement == ASSUME Careful PROVE Spec => BehavesLikePlain
<1>1. IInv /\ [Next]_vars => [Plain!Next]_(Plain!vars)
    BY StepPlain
<1>2. Spec => []IInv
    BY Invariance
<1> QED
    BY <1>1, <1>2, InitPlain, PTL DEF Spec, BehavesLikePlain, Plain!Spec

=============================================================================
