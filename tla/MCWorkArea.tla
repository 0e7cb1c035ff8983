---------------------------- MODULE MCWorkArea ----------------------------
EXTENDS WorkArea, TLC

OneOrTwo == {-2, -1, 1, 2}
Row(f, g, del) == [f |-> f, g |-> g, del |-> del]
\* Equal keys, out of record order, with and without deleted rows.
SmallTables == {<<>>,
  <<Row(2, 1, FALSE), Row(1, 2, FALSE), Row(2, 2, TRUE), Row(3, 1, FALSE)>>,
  <<Row(3, 1, TRUE), Row(1, 1, FALSE), Row(1, 2, TRUE)>>}

Exact(v) == [v |-> v, tail |-> "exact"]
Leaf(field, op, lits) == [kind |-> "leaf", field |-> field, op |-> op, lits |-> lits]
Not(e) == [kind |-> "not", kid |-> e]
And(kids) == [kind |-> "and", kids |-> kids]
Or(kids) == [kind |-> "or", kids |-> kids]

Between12 == Leaf("f", "between", <<Exact(1), Exact(2)>>)
In13 == Leaf("f", "in", <<Exact(1), Exact(3)>>)
Is1 == Leaf("g", "eq", <<Exact(1)>>)
Singles == {Leaf("f", op, <<Exact(2)>>) : op \in {"eq", "ne", "lt", "le", "gt", "ge"}}
Conditions == Singles \cup {Between12, In13, Is1, Not(Between12), And({In13, Is1}), Or({Not(Between12), Is1})}

\* A literal longer than the field is wide.
Longer == {Leaf("f", "eq", <<[v |-> 2, tail |-> "more"]>>)}
NoneMatches == {Leaf("g", "gt", <<Exact(2)>>)}
===========================================================================
