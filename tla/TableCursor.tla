---------------------------- MODULE TableCursor ----------------------------
(***************************************************************************)
(* The cursor of an open table in physical record order (the navigation    *)
(* methods of engine/table.cpp without an active index or record           *)
(* sequence), as functions from a cursor and a record count to a cursor.   *)
(* Deleted rows count as visible here (SET DELETED OFF); Hidden are the    *)
(* rows an AOF or a filter rejects.                                        *)
(***************************************************************************)
EXTENDS Integers, Sequences, FiniteSetsExt, SequencesExt

CONSTANTS MaxCount,   \* bound: the table never has more records
          Hidden      \* rows the table's filter rejects

ASSUME TableCursorAssumption == MaxCount \in Nat /\ Hidden \subseteq 1..MaxCount

Recno == 1..MaxCount

\* state_ and recno_ of a Table
Cursors == [at : {"bof", "on", "eof", "limbo"}, recno : 0..MaxCount + 1]

Bof == [at |-> "bof", recno |-> 0]
Eof(r) == [at |-> "eof", recno |-> r]
Limbo == [at |-> "limbo", recno |-> 0]
On(r) == [at |-> "on", recno |-> r]

AtEof(c) == c.at \in {"eof", "limbo"}
AtBof(c) == c.at \in {"bof", "limbo"}

\* The record number the cursor reports: LastRec() + 1 past the end.
RecnoOf(c, n) ==
    IF (AtEof(c) \/ n = 0) /\ c.recno \notin 1..n THEN n + 1 ELSE c.recno

Opened(n) == IF n = 0 THEN Limbo ELSE Bof

\* The first record at or after r (at or before it, going back) the filter lets pass
Forward(r, n) ==
    LET shown == (r..n) \ Hidden IN IF shown = {} THEN Eof(n + 1) ELSE On(Min(shown))
Backward(r) ==
    LET shown == (1..r) \ Hidden IN IF shown = {} THEN Bof ELSE On(Max(shown))

\* delta counts records; only the landing steps over hidden ones.
Skipped(c, delta, n) ==
    LET target == (IF c.at = "bof" /\ delta > 0 THEN 0 ELSE c.recno) + delta IN
    CASE n = 0 /\ delta > 0 -> Eof(0)
      [] n = 0 /\ delta < 0 -> Bof
      [] n = 0 /\ delta = 0 -> [c EXCEPT !.recno = 0]
      [] n > 0 /\ target < 1 -> Bof
      [] n > 0 /\ target > n -> Eof(n + 1)
      [] n > 0 /\ target \in 1..n /\ delta >= 0 -> Forward(target, n)
      [] n > 0 /\ target \in 1..n /\ delta < 0 -> Backward(target)

Top(n) ==
    IF n = 0 THEN Limbo
    ELSE IF 1 \in Hidden THEN Skipped(On(1), 1, n) ELSE On(1)

\* goto_bottom does not consult the filter.
Bottom(n) == IF n = 0 THEN Limbo ELSE On(n)

\* GO r: record 0 and the records past the end are phantom positions.
Gone(c, r, n) ==
    IF r \in 1..n THEN On(r)
    ELSE IF r = 0 /\ n > 0 /\ c.at # "limbo" THEN Eof(0) ELSE Limbo

\* The records a scan visits after c, in order: the i-th has i up to itself.
Following(c, n) ==
    LET shown == ((c.recno + 1)..n) \ Hidden IN
    [i \in 1..Cardinality(shown) |->
        CHOOSE r \in shown : Cardinality({q \in shown : q <= r}) = i]

=============================================================================
