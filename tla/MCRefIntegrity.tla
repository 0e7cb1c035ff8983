-------------------------- MODULE MCRefIntegrity --------------------------
(* A parent and a child table, and a dictionary with one more alias, a user,  *)
(* a built-in group and two rules.                                           *)
EXTENDS RefIntegrity, TLC

CONSTANTS p, kid, g, old, k1, k2, c1, c2, usr, gr, x, r1, r2

MCConns == {c1, c2}
MCTables == {p, kid}
MCObjects == <<p, kid, old, usr, gr, x, r1, r2>>
MCKind == (p :> "Table") @@ (kid :> "Table") @@ (old :> "Table") @@ (usr :> "User") @@ (gr :> "Group")
          @@ (x :> "Member") @@ (r1 :> "RI") @@ (r2 :> "RI")
MCMemberUser == x :> usr
MCMemberGroup == x :> gr
Rule1 == [kind |-> "RI", parent |-> p, child |-> kid, upd |-> "cascade", del |-> "setnull"]
Rule2 == [kind |-> "RI", parent |-> p, child |-> kid, upd |-> "setnull", del |-> "cascade"]
Rule3 == [kind |-> "RI", parent |-> p, child |-> kid, upd |-> "restrict", del |-> "restrict"]
MCRuleTexts == {Rule1, Rule2, Rule3}
MCFirstCopy ==
  [objs |-> {p, kid, old, usr, r1},
   text |-> [o \in Range(MCObjects) |-> CASE o = r1 -> Rule1
                                        [] o = old -> [kind |-> "Table", primary |-> TRUE]
                                        [] OTHER -> Default(o)]]
FirstRow(k) == [live |-> TRUE, key |-> k]
MCFirstRows == (p :> <<FirstRow(k1)>>) @@ (kid :> <<FirstRow(k1)>>)
Sym == Permutations(MCConns)
===========================================================================
