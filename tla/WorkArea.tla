----------------------------- MODULE WorkArea -----------------------------
(* One work area that walks a table: in record order, by an index (up or     *)
(* down, between two scopes), or over the rows of an optimised filter (AOF); *)
(* SET DELETED hides deleted rows.  What each call does to the record and to *)
(* the cursor of the index, which the calls keep in step by hand, against    *)
(* the line of rows a user believes to walk (Browse).                        *)
EXTENDS Integers, Sequences, FiniteSets, SequencesExt, FiniteSetsExt, Functions

CONSTANTS
  Tables,    \* the tables to start with: sequences of rows [f, g, del]
  Values,    \* values of the indexed character field f
  Exprs,     \* conditions of AdsSetAOF
  Steps,     \* arguments of AdsSkip
  NoScope,
  Excluded,  \* values the FOR condition of the index leaves out
  Daring,    \* what a careful client does not do, see Dares
  MaxCalls   \* bound

ASSUME WorkAreaAssumption ==
  /\ Values \subseteq Nat /\ Values # {} /\ NoScope \notin Values
  /\ Excluded \subseteq Values /\ Steps \subseteq Int \ {0} /\ MaxCalls \in Nat

VARIABLES
  rows,         \* the records
  order,        \* the active order: index or not, direction, scopes
  cdx,          \* where the index cursor stands
  cur,          \* state_ and recno_ of the Table
  aof,          \* the filter: its condition, the rows of its bitmap
  seqAt,        \* position in the record sequence the filter installs
  showDeleted,  \* SET DELETED OFF
  told,         \* the kind of the last call, and its answer
  lost,         \* history: a careful client has to place the cursor again
  calls         \* bound
vars == <<rows, order, cdx, cur, aof, seqAt, showDeleted, told, lost, calls>>

Recs == DOMAIN rows
Count == Len(rows)
Dares(what) == what \in Daring

At(place, rec) == [at |-> place, rec |-> rec]
On(r) == At("on", r)
Limbo == At("limbo", 0)
AtEof == At("eof", 0)
NaturalOrder == [index |-> FALSE, down |-> FALSE, top |-> NoScope, bottom |-> NoScope]
IndexOrder == [NaturalOrder EXCEPT !.index = TRUE]
NoAof == [on |-> FALSE, expr |-> [kind |-> "none"], set |-> {}]
Sequence == SetToSortSeq(aof.set, <)

---------------------------------------------------------------------------
(* The index: pairs of a key and a record, and a cursor among them *)

Pair(r) == [k |-> rows[r].f, r |-> r]
Entries == {Pair(r) : r \in {x \in Recs : rows[x].f \notin Excluded}}
Less(d, e) == d.k < e.k \/ (d.k = e.k /\ d.r < e.r)
Least(S) == CHOOSE e \in S : \A d \in S : d = e \/ Less(e, d)
Greatest(S) == CHOOSE e \in S : \A d \in S : d = e \/ Less(d, e)
Nearest(S, forward) == IF forward THEN Least(S) ELSE Greatest(S)

Between(k) == [st |-> "on", k |-> k, r |-> 0]
OnEntry(e) == [st |-> "on", k |-> e.k, r |-> e.r]
Edge(st) == [st |-> st, k |-> 0, r |-> 0]
Initial == Edge("initial")  \* next and prev find nothing
Astray == Edge("astray")    \* wherever an evaluation left it

\* The entries next() or prev() would visit from here.
Ahead(forward) ==
  CASE cdx.st = "on" -> {e \in Entries : IF forward THEN Less(cdx, e) ELSE Less(e, cdx)}
    [] cdx.st = "begin" -> IF forward THEN Entries ELSE {}
    [] cdx.st = "end" -> IF forward THEN {} ELSE Entries
    [] cdx.st = "endkey" -> Entries
    [] OTHER -> {}
RanOff(forward) == Edge(IF forward THEN "end" ELSE "begin")

\* Where a hard search that finds nothing leaves the index cursor.
Missed(k) == IF \E e \in Entries : e.k > k THEN Between(k) ELSE Edge("endkey")

AboveTop(k) == order.top # NoScope => k >= order.top
BelowBottom(k) == order.bottom # NoScope => k <= order.bottom
InScope(k) == AboveTop(k) /\ BelowBottom(k)

Live(r) == showDeleted \/ ~rows[r].del
LiveOf(S) == {e \in S : Live(e.r)}

---------------------------------------------------------------------------
(* Filters: a condition of AdsSetAOF as a bitmap *)

\* A literal against a value of the field: one longer than the field is wide,
\* or with trailing blanks, stands just after the value it begins with.
Sign(x, lit) == IF x < lit.v \/ (x = lit.v /\ lit.tail # "exact") THEN -1
                ELSE IF x = lit.v THEN 0 ELSE 1
Satisfies(op, sign) ==
  CASE op = "eq" -> sign[1] = 0
    [] op = "ne" -> sign[1] # 0
    [] op = "lt" -> sign[1] < 0
    [] op = "le" -> sign[1] <= 0
    [] op = "gt" -> sign[1] > 0
    [] op = "ge" -> sign[1] >= 0
    [] op = "between" -> sign[1] >= 0 /\ sign[2] <= 0
    [] op = "in" -> \E i \in DOMAIN sign : sign[i] = 0
LeafHolds(leaf, row) ==
  Satisfies(leaf.op, [i \in DOMAIN leaf.lits |-> Sign(row[leaf.field], leaf.lits[i])])

\* The rows a scan of the index finds: it knows the literals as keys.
Key(lit) == lit.v
\* Mutant: the upper end of a range is left out.
MutantInRange(lo, hi, k) == lo <= k /\ k < hi
InRange(lo, hi, k) == lo <= k /\ k <= hi
Scanned(leaf) ==
  LET key(i) == Key(leaf.lits[i])
      keep(k) == CASE leaf.op = "eq" -> k = key(1)
                   [] leaf.op = "lt" -> k < key(1)
                   [] leaf.op = "le" -> k <= key(1)
                   [] leaf.op = "gt" -> k > key(1)
                   [] leaf.op = "ge" -> k >= key(1)
                   [] leaf.op = "between" -> InRange(key(1), key(2), k)
                   [] leaf.op = "in" -> \E i \in DOMAIN leaf.lits : k = key(i)
  IN  IF leaf.op = "ne" THEN Recs \ {e.r : e \in {d \in Entries : d.k = key(1)}}
      ELSE {e.r : e \in {d \in Entries : keep(d.k)}}

LeafBits(leaf) == IF leaf.field = "f" THEN Scanned(leaf) ELSE {r \in Recs : LeafHolds(leaf, rows[r])}

\* Conditions nest; a condition is built of ones listed in Exprs.
Bits[e \in Exprs] ==
  CASE e.kind = "leaf" -> LeafBits(e)
    [] e.kind = "not" -> Recs \ Bits[e.kid]
    [] e.kind = "and" -> {r \in Recs : \A kid \in e.kids : r \in Bits[kid]}
    [] e.kind = "or" -> UNION {Bits[kid] : kid \in e.kids}

\* One record against a condition, without bitmaps: evaluate_record.
Holds[e \in Exprs, r \in Recs] ==
  CASE e.kind = "leaf" -> LeafHolds(e, rows[r])
    [] e.kind = "not" -> ~Holds[e.kid, r]
    [] e.kind = "and" -> \A kid \in e.kids : Holds[kid, r]
    [] e.kind = "or" -> \E kid \in e.kids : Holds[kid, r]

---------------------------------------------------------------------------
(* Moves *)

Filtered == aof.on /\ aof.set = {}   \* an empty sequence means record order
BySequence == aof.on /\ aof.set # {}

Changed == <<"changed", 0>>
MoveOr(place, index, forgets) ==
  /\ cur' = place /\ cdx' = index /\ lost' = forgets
  /\ UNCHANGED <<rows, order, aof, showDeleted>>
Move(place, index) == MoveOr(place, index, FALSE)

Clamped(i) == Max({0, Min({i, Len(Sequence) + 1})})
SequenceTo(i) ==
  /\ seqAt' = i
  /\ Move(CASE i = 0 -> At("bof", 0) [] i > Len(Sequence) -> AtEof [] OTHER -> On(Sequence[i]), cdx)

\* Record order: the landing steps over rows that must not be shown.
Shows(r) == Live(r) /\ ~Filtered
NaturalFrom(target, forward) ==
  LET seen == {r \in Recs : Shows(r) /\ (IF forward THEN r >= target ELSE r <= target)}
  IN  IF seen # {} THEN On(IF forward THEN Min(seen) ELSE Max(seen))
      ELSE IF forward THEN At("eof", Count + 1) ELSE At("bof", 0)

NaturalTop == IF Filtered \/ \E r \in Recs : Live(r) THEN NaturalFrom(1, TRUE) ELSE Limbo
NaturalBottom == IF \E r \in Recs : Live(r) THEN On(Max({r \in Recs : Live(r)})) ELSE Limbo

NaturalSkip(d) ==
  LET target == (IF cur.at = "bof" /\ d > 0 THEN 0 ELSE cur.rec) + d
  IN  IF Count = 0 THEN At(IF d > 0 THEN "eof" ELSE "bof", 0)
      ELSE IF target < 1 THEN At("bof", 0)
      ELSE IF target > Count THEN At("eof", Count + 1)
      ELSE NaturalFrom(target, d > 0)

\* Index order: the first entry, then past deleted ones up to the bottom scope.
IndexTop ==
  LET start == IF order.down THEN Entries ELSE {e \in Entries : AboveTop(e.k)}
      first == Nearest(start, ~order.down)
      stops == {e \in start : Live(e.r) \/ ~BelowBottom(e.k)}
      stop  == Nearest(stops, ~order.down)
  IN  IF start = {} THEN Move(Limbo, RanOff(TRUE))
      ELSE IF ~BelowBottom(first.k) THEN Move(AtEof, OnEntry(first))
      ELSE IF stops = {} THEN Move(Limbo, RanOff(~order.down))
      ELSE Move(IF BelowBottom(stop.k) THEN On(stop.r) ELSE Limbo, OnEntry(stop))

IndexBottom ==
  LET start == {e \in Entries : BelowBottom(e.k)}
      last  == Greatest(start)
      live  == LiveOf(start)
  IN  IF Entries = {} THEN Move(Limbo, RanOff(TRUE))
      ELSE IF start = {} THEN Move(AtEof, RanOff(FALSE))
      ELSE IF ~AboveTop(last.k) THEN Move(AtEof, OnEntry(last))
      ELSE IF live = {} THEN Move(Limbo, RanOff(FALSE))
      ELSE Move(On(Greatest(live).r), OnEntry(Greatest(live)))

\* Skip visits entries until it has counted enough live ones, the entries end,
\* or one is out of scope; past the beginning the last row seen stays loaded.
\* Mutant: a scope is not consulted while skipping.
MutantOutside(ahead) == {}
Outside(ahead) == {e \in ahead : ~InScope(e.k)}
IndexSkip(d) ==
  LET forward == (d > 0) # order.down
      ahead   == Ahead(forward)
      out     == Outside(ahead)
      reach   == LiveOf({e \in ahead : \A o \in out : IF forward THEN Less(e, o) ELSE Less(o, e)})
      sorted  == SetToSortSeq(reach, LAMBDA x, y : IF forward THEN Less(x, y) ELSE Less(y, x))
      want    == IF d > 0 THEN d ELSE -d
      seen    == IF sorted = <<>> THEN cur.rec ELSE Last(sorted).r
  IN  IF want <= Len(sorted) THEN Move(On(sorted[want].r), OnEntry(sorted[want]))
      ELSE Move(IF d > 0 THEN AtEof ELSE At("bof", seen),
                IF out = {} THEN RanOff(forward) ELSE OnEntry(Nearest(out, forward)))

Positioned(r) == IF Pair(r) \in Entries THEN OnEntry(Pair(r)) ELSE Missed(rows[r].f)

---------------------------------------------------------------------------
(* Calls *)

GotoTop ==
  /\ told' = <<"top", 0>>
  /\ IF Count = 0 THEN Move(Limbo, cdx) /\ UNCHANGED seqAt
     ELSE IF BySequence THEN SequenceTo(1)
     ELSE UNCHANGED seqAt /\ (IF order.index THEN IndexTop ELSE Move(NaturalTop, cdx))

GotoBottom ==
  /\ told' = <<"bottom", 0>>
  /\ order.down => Dares("bottom of a descending order")
  /\ Filtered => Dares("bottom of an empty filter")
  /\ (order.top # NoScope /\ ~showDeleted) => Dares("bottom with a top scope")
  /\ IF Count = 0 THEN Move(Limbo, cdx) /\ UNCHANGED seqAt
     ELSE IF BySequence THEN SequenceTo(Len(Sequence))
     ELSE UNCHANGED seqAt /\ (IF order.index THEN IndexBottom ELSE Move(NaturalBottom, cdx))

Skip(d) ==
  /\ ~lost
  /\ told' = <<"skip", d>>
  /\ (~order.index /\ ~showDeleted) => (d \in {-1, 1} \/ Dares("steps over hidden rows"))
  /\ (order.top # NoScope \/ order.bottom # NoScope) =>
       (<<cur.at, d > 0>> \notin {<<"eof", TRUE>>, <<"bof", FALSE>>} \/ Dares("skip past a scope twice"))
  /\ IF BySequence
     THEN LET from == CASE cur.at = "bof" -> 0 [] cur.at = "eof" -> Len(Sequence) + 1 [] OTHER -> seqAt
          IN  SequenceTo(Clamped(from + d))
     ELSE UNCHANGED seqAt /\ (IF order.index THEN IndexSkip(d) ELSE Move(NaturalSkip(d), cdx))

\* Record 0 and the records past the end are phantom positions.
GotoRecord(r) ==
  /\ told' = <<"go", r>>
  /\ aof.on => Dares("go under a filter")
  /\ (order.index /\ r \in Recs) => (InScope(rows[r].f) \/ Dares("go out of scope"))
  /\ IF r \in Recs THEN Move(On(r), IF order.index THEN Positioned(r) ELSE cdx)
     ELSE MoveOr(IF r = 0 /\ Count > 0 /\ cur.at # "limbo" THEN AtEof ELSE Limbo, cdx, TRUE)
  /\ UNCHANGED seqAt

Found(yes) == <<"found", yes>>
Land(e, index, yes) == cur' = On(e.r) /\ cdx' = index /\ told' = Found(yes) /\ lost' = FALSE
MissAt(index) == cur' = (IF Count = 0 THEN Limbo ELSE AtEof) /\ cdx' = index /\ told' = Found(FALSE) /\ lost' = (index # RanOff(TRUE))

PastDeleted(S) == LiveOf(S)
\* The first entry with the key, or the next key for a soft search; deleted
\* rows are walked over; a descending order takes the last of equal keys.
Seek(k, soft) ==
  LET equal   == {e \in Entries : e.k = k}
      onward  == {e \in Entries : e.k >= k}
      landing == PastDeleted(onward)
      hit     == Least(landing)
      group   == LiveOf(equal)
      last    == Greatest(group)
  IN  /\ order.index
      /\ (order.top # NoScope \/ order.bottom # NoScope) => Dares("seek under a scope")
      /\ (order.down /\ (group = {} \/ ~\E e \in Entries : e.k > k)) => Dares("seek in a descending order")
      /\ ~aof.on
      /\ IF equal = {} /\ ~soft THEN MissAt(Missed(k))
         ELSE IF landing = {} THEN MissAt(RanOff(TRUE))
         ELSE IF hit.k = k /\ order.down
         THEN Land(last, IF \E e \in Entries : e.k > k \/ ~Live(Greatest(equal).r) THEN OnEntry(last) ELSE RanOff(TRUE), TRUE)
         ELSE Land(hit, OnEntry(hit), hit.k = k)
      /\ UNCHANGED <<rows, order, aof, seqAt, showDeleted>>

---------------------------------------------------------------------------
(* Questions: the cursor is walked over the rows and put back *)

RecordNumber == IF cur.at \in {"eof", "limbo"} /\ cur.rec \notin Recs THEN Count + 1 ELSE cur.rec
PutBack(from) ==
  LET r == RecordNumber
  IN  IF r \in Recs THEN cur' = On(r) /\ cdx' = (IF order.index THEN Positioned(r) ELSE cdx)
      ELSE cur' = (IF r = 0 THEN AtEof ELSE Limbo) /\ cdx' = from
Answer(what, n) == told' = <<what, n>> /\ UNCHANGED <<rows, order, aof, seqAt, showDeleted, lost>>

GetRecordCount ==
  /\ Filtered => Dares("count an empty filter")
  /\ (~showDeleted /\ cur.at # "on") => Dares("count off the rows")
  /\ IF BySequence THEN Answer("count", Len(Sequence)) /\ UNCHANGED <<cur, cdx>>
     ELSE IF Filtered THEN Answer("count", 0) /\ cur' = (IF Count = 0 THEN cur ELSE On(Count)) /\ UNCHANGED cdx
     ELSE IF ~showDeleted THEN Answer("count", Cardinality({r \in Recs : Live(r)})) /\ PutBack(cdx)
     ELSE Answer("count", Count) /\ UNCHANGED <<cur, cdx>>

GetKeyNum ==
  /\ (lost \/ cur.at # "on") => Dares("key number off the rows")
  /\ order.down => Dares("key number in a descending order")
  /\ IF order.index
     THEN Answer("key", Cardinality({e \in Entries : e = Pair(cur.rec) \/ Less(e, Pair(cur.rec))})) /\ PutBack(Initial)
     ELSE Answer("key", RecordNumber) /\ UNCHANGED <<cur, cdx>>

---------------------------------------------------------------------------
(* Changes of the view *)

Change(forgets) == told' = Changed /\ lost' = (lost \/ cur.at # "on" \/ forgets)

\* Parking an index drops its Order, and with it scopes and direction.
SetOrder(index) ==
  /\ order.index # index
  /\ aof.on => Dares("filter with an order")
  /\ order' = IF index THEN IndexOrder ELSE NaturalOrder
  /\ Change(index /\ ~Dares("skip after a change of order"))
  /\ UNCHANGED <<rows, cdx, cur, aof, seqAt, showDeleted>>

SetDirection(down) ==
  /\ order.index /\ order.down # down
  /\ (order.top # NoScope \/ order.bottom # NoScope) => Dares("scope in a descending order")
  /\ order' = [order EXCEPT !.down = down]
  /\ Change(FALSE)
  /\ UNCHANGED <<rows, cdx, cur, aof, seqAt, showDeleted>>

\* Also AdsClearScope.
SetScope(top, bottom) ==
  /\ order.index /\ <<top, bottom>> # <<order.top, order.bottom>>
  /\ order.down => Dares("scope in a descending order")
  /\ order' = [order EXCEPT !.top = top, !.bottom = bottom]
  /\ UNCHANGED <<rows, cdx, cur, aof, seqAt, showDeleted>>
  /\ Change(cur.rec \in Recs => ~InScope(rows[cur.rec].f)')

SetAof(e) ==
  /\ order.index => Dares("filter with an order")
  /\ ~showDeleted => Dares("filter beside SET DELETED")
  /\ aof' = [on |-> TRUE, expr |-> e, set |-> Bits[e]]
  /\ seqAt' = 0
  /\ cdx' = Astray
  /\ cur' \in {cur} \cup {On(r) : r \in {Count} \cap Recs}
  /\ Change(TRUE)
  /\ UNCHANGED <<rows, order, showDeleted>>

\* Also AdsSetAOF with a condition it cannot parse.
ClearAof ==
  /\ aof.on
  /\ aof' = NoAof /\ seqAt' = 0
  /\ Change(FALSE)
  /\ UNCHANGED <<rows, order, cdx, cur, showDeleted>>

ShowDeleted ==
  /\ aof.on => Dares("filter beside SET DELETED")
  /\ showDeleted' = ~showDeleted
  /\ Change(FALSE)
  /\ UNCHANGED <<rows, order, cdx, cur, aof, seqAt>>

MarkDeleted(del) ==
  /\ cur.at = "on" /\ rows[cur.rec].del # del
  /\ rows' = [rows EXCEPT ![cur.rec].del = del]
  /\ Change(FALSE)
  /\ UNCHANGED <<order, cdx, cur, aof, seqAt, showDeleted>>

\* A new key is erased and inserted, which forgets where the index stood.
Replace(v) ==
  /\ cur.at = "on" /\ rows[cur.rec].f # v
  /\ rows' = [rows EXCEPT ![cur.rec].f = v]
  /\ cdx' = Initial
  /\ UNCHANGED <<order, cur, aof, seqAt, showDeleted>>
  /\ aof.on => (Holds[aof.expr, cur.rec] = Holds[aof.expr, cur.rec]' \/ Dares("write under a filter"))
  /\ Change(order.index /\ ~Dares("skip after a write"))

---------------------------------------------------------------------------
Init ==
  /\ rows \in Tables
  /\ order = NaturalOrder /\ cdx = Initial /\ aof = NoAof /\ seqAt = 0
  /\ cur = (IF rows = <<>> THEN Limbo ELSE At("bof", 0))
  /\ showDeleted = TRUE /\ told = Changed /\ lost = FALSE /\ calls = 0

Call == \/ GotoTop \/ GotoBottom \/ GetRecordCount \/ GetKeyNum \/ ClearAof \/ ShowDeleted
        \/ \E d \in Steps : Skip(d)
        \/ \E r \in Recs \cup {0, Count + 1} : GotoRecord(r)
        \/ \E k \in Values, soft \in BOOLEAN : Seek(k, soft)
        \/ \E b \in BOOLEAN : SetOrder(b) \/ SetDirection(b) \/ MarkDeleted(b)
        \/ \E t, b \in Values \cup {NoScope} : SetScope(t, b)
        \/ \E e \in Exprs : SetAof(e)
        \/ \E v \in Values : Replace(v)
Next == calls < MaxCalls /\ calls' = calls + 1 /\ Call
Spec == Init /\ [][Next]_vars

---------------------------------------------------------------------------
(* Properties *)

MaxRows == Max({Len(t) : t \in Tables})
\* The state is well formed, and the sequence position is within the filter.
TypeOK ==
  /\ \A r \in Recs : rows[r].f \in Values /\ rows[r].del \in BOOLEAN
  /\ order.top \in Values \cup {NoScope} /\ order.bottom \in Values \cup {NoScope}
  /\ cur.at \in {"bof", "on", "eof", "limbo"} /\ cur.rec \in 0..Count + 1
  /\ cur.at = "on" => cur.rec \in Recs
  /\ cdx.st \in {"initial", "on", "begin", "end", "endkey", "astray"}
  /\ aof.set \subseteq Recs /\ seqAt \in 0..Len(Sequence) + 1

\* While a filter is set, its bitmap holds exactly the rows that satisfy the
\* condition, however the condition was evaluated and whatever was written
\* since (AdsSetAOF, engine/aof_eval.cpp).
FilterIsCondition == aof.on => aof.set = {r \in Recs : Holds[aof.expr, r]}

\* The rows a user believes to walk.
Line ==
  IF ~order.index THEN [i \in Recs |-> i]
  ELSE LET sorted == SetToSortSeq(Entries, Less)
           recs   == [i \in DOMAIN sorted |-> sorted[i].r]
       IN  IF order.down THEN Reverse(recs) ELSE recs
Passing == {r \in Recs : Live(r) /\ (aof.on => Holds[aof.expr, r])}
Shown == {r \in Passing : order.index => InScope(rows[r].f)}
Place == IF lost \/ cur.at = "limbo" THEN [place |-> "nowhere", rec |-> 0]
         ELSE CASE cur.at = "on" -> [place |-> "on", rec |-> cur.rec]
                [] cur.at = "bof" -> [place |-> "before", rec |-> 0]
                [] OTHER -> [place |-> "after", rec |-> 0]
KeyOf == [r \in Recs |-> rows[r].f]

B == INSTANCE Browse WITH
  Recs <- 1..MaxRows, Keys <- Values, line <- Line, shown <- Shown, passing <- Passing,
  keys <- KeyOf, at <- Place

\* The moves, searches and questions of a work area are those of a cursor on
\* the line of shown rows: the record the table holds, the place of the index
\* cursor and the place in the filter's sequence never come apart.
ImplementsBrowse == B!Spec
===========================================================================
