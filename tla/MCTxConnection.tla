--------------------------- MODULE MCTxConnection ---------------------------
(* Instances of TxConnection: the rows the tables start with. *)
EXTENDS TxConnection, TLC

CONSTANTS a, b, t1, t2

\* Savepoint names are interchangeable.
NameSymmetry == Permutations(Names)

\* So are tables that start with the same rows.
TableSymmetry == Permutations(Tables)

Live(v) == [val |-> v, del |-> FALSE]

OneTable == [t \in {t1} |-> <<Live(a), Live(b)>>]
OneRow   == [t \in {t1} |-> <<Live(a)>>]
TwoTables == [t \in {t1, t2} |-> <<Live(a)>>]

=============================================================================
