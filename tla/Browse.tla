------------------------------ MODULE Browse ------------------------------
(* What a program that browses a work area relies on: the rows stand in a    *)
(* line, some of them are shown, and the cursor moves over the shown ones.   *)
EXTENDS Integers, Sequences, FiniteSets, SequencesExt, FiniteSetsExt

CONSTANTS Recs, Keys, Steps
VARIABLES
  line,    \* the rows in walking order
  shown,   \* those the walk stops at
  passing, \* those that a count of the records counts
  keys,    \* the key of each row
  at,      \* where the cursor is
  told     \* the kind of the last call, and its answer
vars == <<line, shown, passing, keys, at, told>>

On(r) == [place |-> "on", rec |-> r]
Before == [place |-> "before", rec |-> 0]
After == [place |-> "after", rec |-> 0]
Nowhere == [place |-> "nowhere", rec |-> 0]
Places == {Before, After, Nowhere} \cup {On(r) : r \in Recs}
Changed == <<"changed", 0>>

Index(r) == CHOOSE i \in DOMAIN line : line[i] = r
Row(i) == line[i]
Shown == {i \in DOMAIN line : Row(i) \in shown}

\* The shown rows ahead of the cursor, nearest first.
Forward == SetToSortSeq({i \in Shown : at.place = "before" \/ (at.place = "on" /\ i > Index(at.rec))}, <)
Backward == SetToSortSeq({i \in Shown : at.place = "after" \/ (at.place = "on" /\ i < Index(at.rec))}, >)

View == <<line, shown, passing, keys>>
MoveTo(call, place) == at' = place /\ told' = call /\ UNCHANGED View

Off == {Before, After, Nowhere}
Top == \E p \in IF Shown = {} THEN Off ELSE {On(Row(Min(Shown)))} : MoveTo(<<"top", 0>>, p)
Bottom == \E p \in IF Shown = {} THEN Off ELSE {On(Row(Max(Shown)))} : MoveTo(<<"bottom", 0>>, p)
Skip(d) ==
  LET ahead == IF d > 0 THEN Forward ELSE Backward
      n == IF d > 0 THEN d ELSE -d
      there == IF n <= Len(ahead) THEN On(Row(ahead[n])) ELSE IF d > 0 THEN After ELSE Before
  IN  \E p \in IF at.place = "nowhere" THEN Places ELSE {there} : MoveTo(<<"skip", d>>, p)
Go(r) == MoveTo(<<"go", r>>, IF r \in Range(line) THEN On(r) ELSE Nowhere)

\* A search finds the first shown row with the key; a soft one otherwise stops
\* at the next key, and so may a hard one.
Seek(k, soft) ==
  LET hits == {i \in Shown : keys[Row(i)] = k}
      next == {i \in Shown : keys[Row(i)] > k}
  IN  /\ told' = <<"found", hits # {}>>
      /\ at' \in IF hits # {} THEN {On(Row(Min(hits)))}
                 ELSE IF next = {} THEN {Nowhere, After}
                 ELSE {On(Row(Min(next)))} \cup (IF soft THEN {} ELSE {Nowhere})
      /\ UNCHANGED View

\* Asking does not move.
Ask == /\ told' \in {<<"count", Cardinality(passing)>>}
                    \cup (IF at.place = "on" THEN {<<"key", Index(at.rec)>>} ELSE {})
       /\ UNCHANGED <<View, at>>

\* A change of the order, the scopes, the filter or a row: the cursor keeps its
\* row or has to be placed again.
Change == at' \in {at, Nowhere} /\ told' = Changed

Init == at \in Places /\ told = Changed
Next == \/ Top \/ Bottom \/ Ask \/ Change
        \/ \E d \in Steps : Skip(d)
        \/ \E r \in 0..Max(Recs) + 1 : Go(r)
        \/ \E k \in Keys, soft \in BOOLEAN : Seek(k, soft)
Spec == Init /\ [][Next]_vars
===========================================================================
