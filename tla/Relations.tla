---------------------------- MODULE Relations -----------------------------
(* What a data dictionary with referential integrity promises: rows refer    *)
(* to rows that exist; a call takes effect whole, on every row a rule names, *)
(* or is refused and changes nothing; and every object a call defines or     *)
(* drops is at once what the dictionary says.                                *)
EXTENDS Integers, FiniteSets

CONSTANTS
  Tables, Keys, Blank, MaxRows,
  FirstText,       \* the text of an object that is new, a function on the objects
  Brings, Needing  \* what comes with an object, and what goes with it
VARIABLES
  live,  \* the keys of the live rows, table by table
  kept,  \* the dictionary
  told   \* what the last call on a table did: its name, table, key and result
vars == <<live, kept, told>>

IsRule(o) == FirstText[o].kind = "RI"
RulesIn(m) == {m.text[o] : o \in {x \in m.objs : IsRule(x) /\ m.text[x] # FirstText[x]}}
Rules == RulesIn(kept)
Having(t, k) == {r \in DOMAIN live[t] : live[t][r] = k}
Whole == \A rule \in Rules : \A r \in DOMAIN live[rule.child] :
           live[rule.child][r] # Blank => Having(rule.parent, live[rule.child][r]) # {}

Says(op, t, k, result) == told' = <<op, t, k, result>>
Without(f, S) == [r \in DOMAIN f \ S |-> f[r]]
Blanked(f, S, k) == [r \in DOMAIN f |-> IF r \in S THEN k ELSE f[r]]
\* A table after what the rules do to the rows that referred to k.
Applied(u, rules, k, option, new) ==
  CASE \E rule \in rules : rule.child = u /\ rule[option] = "cascade" ->
         (IF option = "del" THEN Without(live[u], Having(u, k)) ELSE Blanked(live[u], Having(u, k), new))
    [] \E rule \in rules : rule.child = u /\ rule[option] = "setnull" -> Blanked(live[u], Having(u, k), Blank)
    [] OTHER -> live[u]
From(t) == {rule \in Rules : rule.parent = t}
Held(t, k, option) == k # Blank /\ \E rule \in From(t) : rule[option] = "restrict" /\ Having(rule.child, k) # {}
Orphaned(t, k) == k # Blank /\ \E rule \in Rules : rule.child = t /\ Having(rule.parent, k) = {}

Insert(t, r, k) ==
  /\ Says("insert", t, k, "done") /\ r \notin DOMAIN live[t]
  /\ live' = [live EXCEPT ![t] = [x \in DOMAIN live[t] \cup {r} |-> IF x = r THEN k ELSE live[t][x]]]
  /\ Whole'

\* The rows of a table that have one key get another, or go.
Rekey(t, R, k, new) ==
  /\ Says("update", t, k, "done")
  /\ R \subseteq Having(t, k) /\ R # {} /\ ~(k # new /\ Held(t, k, "upd"))
  /\ live' = [u \in Tables |-> IF u = t THEN Blanked(live[t], R, new)
                               ELSE IF k \in {Blank, new} THEN live[u] ELSE Applied(u, From(t), k, "upd", new)]
  /\ Whole'
Remove(t, R, k) ==
  /\ Says("delete", t, k, "done")
  /\ R \subseteq Having(t, k) /\ R # {} /\ ~Held(t, k, "del")
  /\ live' = [u \in Tables |-> IF u = t THEN Without(live[t], R)
                               ELSE IF k = Blank THEN live[u] ELSE Applied(u, From(t), k, "del", Blank)]
  /\ Whole'
Refuse(op, t, k) ==
  /\ Says(op, t, k, "refused") /\ UNCHANGED live
  /\ CASE op = "insert" -> Orphaned(t, k)
       [] op = "update" -> Held(t, k, "upd")
       [] OTHER -> Held(t, k, "del")

\* From one dictionary to another an object appears, with what it brings along
\* and the text a new one has, or with a rule; or it changes its text; or it
\* goes, with what cannot be without it.
Texts(m, n, S) == \A x \in S : n.text[x] = IF x \in m.objs THEN m.text[x] ELSE FirstText[x]
Defined(m, n, o) ==
  /\ n.objs = m.objs \cup {o} \cup Brings[o]
  /\ Texts(m, n, IF IsRule(o) THEN n.objs \ {o} ELSE n.objs)
Rewritten(m, n, o) == o \in m.objs /\ n.objs = m.objs /\ Texts(m, n, m.objs \ {o})
Dropped(m, n, o) == n.objs = m.objs \ ({o} \cup Needing[o]) /\ Texts(m, n, n.objs)
Altered(m, n) == \E o \in DOMAIN FirstText : Defined(m, n, o) \/ Rewritten(m, n, o) \/ Dropped(m, n, o)

Init == told = <<"none", "none", Blank, "done">> /\ Whole
OnRows ==
  \E t \in Tables, k \in Keys \cup {Blank} :
    \/ \E r \in 1..MaxRows : Insert(t, r, k)
    \/ \E R \in SUBSET (1..MaxRows) :
         \/ Remove(t, R, k)
         \/ \E new \in Keys \cup {Blank} : Rekey(t, R, k, new)
    \/ \E op \in {"insert", "update", "delete"} : Refuse(op, t, k)
\* Steps that change something: the calls on tables and those on the dictionary.
Next ==
  \/ kept' = kept /\ <<told, live>>' # <<told, live>> /\ OnRows
  \/ kept' # kept /\ UNCHANGED <<told, live>> /\ Altered(kept, kept') /\ Whole'
Spec == Init /\ [][Next]_vars
===========================================================================
