--------------------------- MODULE RefIntegrity ---------------------------
(* Referential integrity as the calls on tables enforce it: the rules are    *)
(* those in the connection's copy of the dictionary (DataDict), a field is   *)
(* in the file as soon as it is set and checked only when the record is      *)
(* written, and the rules are applied one after the other, on the handle the *)
(* connection already has open.                                              *)
EXTENDS DataDict

CONSTANTS
  Tables,      \* aliases; the field of the rules is the only one modelled
  Keys, Blank, \* its values, and a blank one
  FirstRows,   \* the rows to start with
  Narrow,      \* the key an application filters a table on
  Superseded,  \* tables with an INSTEAD OF DELETE trigger
  MaxRows, MaxOpen, MaxCalls  \* bounds: rows, open handles, calls and changes

ASSUME RefIntegrityAssumption ==
  /\ Blank \notin Keys /\ Narrow \in Keys /\ None \notin Keys \cup {Blank}
  /\ Superseded \subseteq Tables /\ Tables \subseteq Of("Table")
  /\ \A r \in RuleTexts : {r.parent, r.child} \subseteq Tables
  /\ FirstRows \in [Tables -> Seq([live : BOOLEAN, key : Keys \cup {Blank}])]
  /\ \A t \in Tables : Len(FirstRows[t]) <= MaxRows
  /\ MaxRows \in Nat /\ MaxOpen \in Nat /\ MaxCalls \in Nat

VARIABLES
  rows,    \* the tables
  hand,    \* the handle each connection has on each table, or Shut
  call,    \* the call that is applying rules, or Idle
  told,    \* the last call on a table, and its result
  turn,    \* who has set a field or appended a row and has not written it
  settled, \* history: the rows when a call on tables last ended
  calls    \* bound
dataVars == <<rows, hand, call, told, turn, settled, calls>>
vars == <<dictVars, dataVars>>

Row(live, key) == [live |-> live, key |-> key]
Shut == [open |-> FALSE]
Unset == None
Idle == [op |-> "idle"]
FreeTurn == <<>>
At(h, r, row) == [h EXCEPT !.rec = r, !.row = row]

Knows(c, t) == t \in copy[c].objs
InForce(c) == {n \in Of("RI") : n \in copy[c].objs}
Rule(c, n) == copy[c].text[n]
\* The rules of which t is the parent; of which it is the child.
Parenting(c, t) == {n \in InForce(c) : Knows(c, t) /\ Rule(c, n).parent = t}
Referring(c, t) == {n \in InForce(c) : Knows(c, t) /\ Rule(c, n).child = t}
Live(t, k) == {r \in DOMAIN rows[t] : rows[t][r] = Row(TRUE, k)}

\* ri_scan: the rows it sees walk the filter of the handle it is given.
Scanned(c, t, k) ==
  IF hand[c][t].open /\ hand[c][t].narrow /\ k # Narrow THEN {} ELSE Live(t, k)

\* Mutant: the first snapshot of a handle stays.
MutantSnapped(c, t, h) == IF Parenting(c, t) = {} \/ h.snap # Unset THEN h ELSE [h EXCEPT !.snap = h.row.key]
\* snapshot_ri_pks, after a move.
Snapped(c, t, h) == IF Parenting(c, t) = {} THEN h ELSE [h EXCEPT !.snap = h.row.key]

---------------------------------------------------------------------------
(* What a careful client does not do *)

\* Rows that refer to key k of table t, by the rules the client knows.
Known(c) == RulesOf(copy[c])
Children(c, t, k) ==
  UNION {{<<r.child, x>> : x \in Live(r.child, k)} : r \in {q \in Known(c) : q.parent = t /\ k # Blank}}
Refers(c, t, k) == k # Blank => \A r \in Known(c) : r.child = t => Live(r.parent, k) # {}
\* Two rules want different things: which comes first is not defined.
Mixed(c, t, k, option) ==
  \E q, r \in {x \in Known(c) : x.parent = t} :
    /\ q[option] # r[option] /\ (q.child = r.child \/ q[option] = "restrict")
    /\ Live(q.child, k) # {} /\ Live(r.child, k) # {}
\* A rule acts on rows that other rows refer to.
Chained(c, t, k) == \E r \in Known(c) :
  r.parent = t /\ (r.child = t \/ (Live(r.child, k) # {} /\ Children(c, r.child, k) # {}))
Alone(c, t) ==
  /\ May("two at once", turn \in {FreeTurn, <<c, t>>} /\ \A d \in Conns : Resting(d))
  /\ May("stale rules", Known(c) = RulesOf(InFile))
\* Where every call on a table starts, see OnTable.
Ready(c, t) ==
  /\ Here(c) /\ Resting(c) /\ call[c] = Idle /\ calls + changes < MaxCalls
  /\ Alone(c, t)
\* The handle is on the row the client believes, and the row is as it read it.
Sure(c, t) ==
  LET h == hand[c][t] IN
  /\ h.open /\ h.rec # 0
  /\ May("write twice without a move", h.trust # "written")
  /\ May("trust a cursor the rules moved", h.trust # "moved")
  /\ May("write over another change", rows[t][h.rec] = h.row)
  /\ May("touch a deleted row", h.row.live)

---------------------------------------------------------------------------
(* Moves and edits *)

Put(t, h) == rows' = [rows EXCEPT ![t][h.rec] = h.row]
Hold(c, t, h) == hand' = [hand EXCEPT ![c][t] = h]
Counted == calls' = calls + 1 /\ UNCHANGED dictVars
Uncounted == UNCHANGED <<calls, dictVars>>

OpenTable(c, t) ==
  /\ ~hand[c][t].open /\ Knows(c, t)
  /\ Cardinality({place \in Conns \X Tables : hand[place[1]][place[2]].open}) < MaxOpen
  /\ Hold(c, t, [open |-> TRUE, rec |-> 0, row |-> Row(FALSE, Blank), snap |-> Unset,
                 fresh |-> FALSE, narrow |-> FALSE, trust |-> "sure"])
  /\ UNCHANGED <<rows, call, told, turn, settled>> /\ Uncounted
CloseTable(c, t) ==
  /\ hand[c][t].open /\ May("leave a change unwritten", turn = FreeTurn)
  /\ Hold(c, t, Shut)
  /\ UNCHANGED <<rows, call, told, turn, settled>> /\ Uncounted

\* Any move of the application, under a filter or not.
Move(c, t) ==
  /\ hand[c][t].open /\ May("leave a change unwritten", turn = FreeTurn)
  /\ \E r \in DOMAIN rows[t], narrow \in BOOLEAN :
       /\ narrow => rows[t][r].key = Narrow
       /\ May("filter a child", narrow => \A q \in Known(c) : q.child # t)
       /\ Hold(c, t, [Snapped(c, t, At(hand[c][t], r, rows[t][r])) EXCEPT !.trust = "sure", !.narrow = narrow])
  /\ UNCHANGED <<rows, call, told, turn, settled>> /\ Uncounted
\* The snapshot stays that of the row the handle was on.
AppendRecord(c, t) ==
  /\ hand[c][t].open /\ Len(rows[t]) < MaxRows
  /\ May("leave a change unwritten", turn = FreeTurn)
  /\ rows' = [rows EXCEPT ![t] = Append(@, Row(TRUE, Blank))]
  /\ Hold(c, t, [At(hand[c][t], Len(rows[t]) + 1, Row(TRUE, Blank)) EXCEPT !.fresh = TRUE, !.trust = "sure"])
  /\ turn' = <<c, t>>
  /\ UNCHANGED <<call, told, settled>> /\ Uncounted

\* AdsSetString writes the row at once.
SetField(c, t, k) ==
  LET h == [hand[c][t] EXCEPT !.row.key = k] IN
  /\ Sure(c, t)
  /\ May("write again after a refusal", hand[c][t].trust # "refused")
  /\ May("change a foreign key", hand[c][t].fresh \/ Refers(c, t, k))
  /\ Hold(c, t, h) /\ Put(t, h)
  /\ turn' = <<c, t>>
  /\ UNCHANGED <<call, told, settled>> /\ Uncounted

---------------------------------------------------------------------------
(* Calls that apply the rules *)

Answer(op, t, k, result) == told' = <<op, t, k, result>>
\* The key of a record before the call. A row that was appended and never written
\* has none, and giving it up is no call of its own.
Before(c, t) == settled[t][hand[c][t].rec].key
Given(c, t) == hand[c][t].rec \in DOMAIN settled[t]
Begin(c, op, t) == call' = [call EXCEPT ![c] = [op |-> op, table |-> t, todo |-> Parenting(c, t)]]

\* Mutant: a deleted parent is as good as another.
MutantOrphan(c, t) ==
  LET k == hand[c][t].row.key IN
  k # Blank /\ \E n \in Referring(c, t) : \A row \in Range(rows[Rule(c, n).parent]) : row.key # k
\* ri_check_insert: every rule wants its parent; a row that is refused stays.
Orphan(c, t) ==
  LET k == hand[c][t].row.key IN
  k # Blank /\ \E n \in Referring(c, t) : ~Knows(c, Rule(c, n).parent) \/ Live(Rule(c, n).parent, k) = {}
WriteAppended(c, t) ==
  LET h == hand[c][t] IN
  /\ Sure(c, t) /\ h.fresh
  /\ Hold(c, t, [h EXCEPT !.fresh = FALSE, !.trust = IF Orphan(c, t) THEN "refused" ELSE "written"])
  /\ Answer("insert", t, h.row.key, IF Orphan(c, t) THEN "refused" ELSE "done")
  /\ settled' = IF Orphan(c, t) THEN settled ELSE rows
  /\ turn' = IF Orphan(c, t) THEN turn ELSE FreeTurn
  /\ UNCHANGED <<rows, call>> /\ Counted

WriteChanged(c, t) ==
  /\ Sure(c, t) /\ ~hand[c][t].fresh
  /\ May("write again after a refusal", hand[c][t].trust # "refused")
  /\ May("rules that refuse and act", ~Mixed(c, t, hand[c][t].snap, "upd"))
  /\ May("a chain of rules", hand[c][t].snap # hand[c][t].row.key => ~Chained(c, t, hand[c][t].snap))
  /\ Begin(c, "upd", t)
  /\ turn' = <<c, t>>
  /\ UNCHANGED <<rows, hand, told, settled>> /\ Counted

DeleteRecord(c, t) ==
  LET k == hand[c][t].row.key IN
  /\ Sure(c, t)
  /\ May("delete a changed row", turn = FreeTurn \/ hand[c][t].trust = "refused" \/ hand[c][t].fresh)
  /\ May("give up a row with a key in use", Given(c, t) \/ Children(c, t, k) = {})
  /\ May("give up a row a trigger keeps", Given(c, t) \/ t \notin Superseded)
  /\ May("rules that refuse and act", ~Mixed(c, t, k, "del"))
  /\ May("a chain of rules", ~Chained(c, t, k))
  /\ Begin(c, "del", t)
  /\ hand' = [hand EXCEPT ![c][t].fresh = FALSE]
  /\ turn' = <<c, t>>
  /\ UNCHANGED <<rows, told, settled>> /\ Counted

\* Mutant: the key the record has now.
MutantOldKey(c) == hand[c][call[c].table].row.key
\* The key whose children a rule acts on: of the record, or of the last move.
OldKey(c) == LET h == hand[c][call[c].table] IN IF call[c].op = "upd" THEN h.snap ELSE h.row.key
Concerned(c) ==
  LET h == hand[c][call[c].table] IN
  OldKey(c) \notin {Unset, Blank} /\ (call[c].op = "upd" => h.snap # h.row.key)

\* Where the handle of the child is after the rows were collected and changed.
MovedTo(c, u, after, found, stop) ==
  LET r == IF found = {} THEN 0 ELSE IF stop THEN CHOOSE x \in found : \A y \in found : x <= y
           ELSE CHOOSE x \in found : \A y \in found : y <= x
  IN [At(hand[c][u], r, IF r = 0 THEN Row(FALSE, Blank) ELSE after[r]) EXCEPT !.trust = "moved"]
Moved(c, u, after, found, stop) ==
  [hand[c] EXCEPT ![u] = IF hand[c][u].open THEN MovedTo(c, u, after, found, stop) ELSE Shut]

\* One rule with nothing to do, or whose child cannot be opened.
PassRule(c) ==
  /\ call[c] # Idle
  /\ \E n \in call[c].todo :
       /\ ~Concerned(c) \/ ~Knows(c, Rule(c, n).child)
       /\ call' = [call EXCEPT ![c].todo = @ \ {n}]
  /\ UNCHANGED <<rows, hand, told, turn, settled, calls, dictVars>>

\* RESTRICT: the parent's key is put back, what other rules did stays.
Refuse(c) ==
  /\ call[c] # Idle
  /\ \E n \in call[c].todo :
       LET rule == Rule(c, n)
           t == call[c].table
           found == Scanned(c, rule.child, OldKey(c))
           moved == Moved(c, rule.child, rows[rule.child], found, TRUE)
           back == [moved[t] EXCEPT !.row.key = IF call[c].op = "upd" THEN OldKey(c) ELSE @]
       IN /\ Concerned(c) /\ Knows(c, rule.child) /\ rule[call[c].op] = "restrict" /\ found # {}
          /\ hand' = [hand EXCEPT ![c] = [moved EXCEPT ![t] = [back EXCEPT !.trust = "written"]]]
          /\ rows' = IF call[c].op = "upd" THEN [rows EXCEPT ![t][back.rec] = back.row] ELSE rows
          /\ IF Given(c, t) THEN Answer(IF call[c].op = "upd" THEN "update" ELSE "delete", t, Before(c, t), "refused")
             ELSE UNCHANGED told
  /\ call' = [call EXCEPT ![c] = Idle]
  /\ turn' = FreeTurn
  /\ UNCHANGED <<settled, calls, dictVars>>

\* CASCADE and SETNULL act on every row that was found.
Acted(row, option, op, new) ==
  CASE option = "cascade" /\ op = "del" -> [row EXCEPT !.live = FALSE]
    [] option = "cascade" /\ op = "upd" -> [row EXCEPT !.key = new]
    [] OTHER -> [row EXCEPT !.key = Blank]
Apply(c) ==
  /\ call[c] # Idle
  /\ \E n \in call[c].todo :
       LET rule == Rule(c, n)
           u == rule.child
           option == rule[call[c].op]
           found == Scanned(c, u, OldKey(c))
           after == [r \in DOMAIN rows[u] |->
                       IF r \in found /\ option # "restrict"
                       THEN Acted(rows[u][r], option, call[c].op, hand[c][call[c].table].row.key) ELSE rows[u][r]]
       IN /\ Concerned(c) /\ Knows(c, u) /\ (option = "restrict" => found = {})
          /\ rows' = [rows EXCEPT ![u] = after]
          /\ hand' = [hand EXCEPT ![c] = Moved(c, u, after, found, FALSE)]
          /\ call' = [call EXCEPT ![c].todo = @ \ {n}]
  /\ UNCHANGED <<told, turn, settled, calls, dictVars>>

FinishWrite(c) ==
  LET t == call[c].table h == hand[c][t] IN
  /\ call[c] # Idle /\ call[c].op = "upd" /\ call[c].todo = {}
  /\ Hold(c, t, [h EXCEPT !.trust = "written"])
  /\ IF Given(c, t) THEN Answer("update", t, Before(c, t), "done") ELSE Answer("insert", t, h.row.key, "done")
  /\ call' = [call EXCEPT ![c] = Idle]
  /\ settled' = rows /\ turn' = FreeTurn
  /\ UNCHANGED <<rows, calls, dictVars>>

\* A trigger may take the place of the delete, not of what the rules did.
FinishDelete(c) ==
  LET t == call[c].table
      h == [hand[c][t] EXCEPT !.row.live = t \in Superseded]
      found == hand[c][t].rec # 0
  IN /\ call[c] # Idle /\ call[c].op = "del" /\ call[c].todo = {}
     /\ rows' = IF found THEN [rows EXCEPT ![t][h.rec] = h.row] ELSE rows
     /\ Hold(c, t, IF found THEN [h EXCEPT !.trust = "written"] ELSE h)
     /\ IF Given(c, t) THEN Answer("delete", t, Before(c, t), "done") ELSE UNCHANGED told
     /\ call' = [call EXCEPT ![c] = Idle]
     /\ settled' = rows' /\ turn' = FreeTurn
     /\ UNCHANGED <<calls, dictVars>>

RecallRecord(c, t) ==
  LET h == [hand[c][t] EXCEPT !.row.live = TRUE] IN
  /\ hand[c][t].open /\ hand[c][t].rec # 0 /\ ~hand[c][t].row.live
  /\ May("write over another change", rows[t][h.rec] = hand[c][t].row)
  /\ May("recall a row that refers to nothing", Refers(c, t, h.row.key))
  /\ turn = FreeTurn
  /\ Hold(c, t, h) /\ Put(t, h)
  /\ Answer("insert", t, h.row.key, "done")
  /\ settled' = rows'
  /\ UNCHANGED <<call, turn>> /\ Counted

---------------------------------------------------------------------------
(* SQL statements work on a handle of their own and apply no rule *)

Executing(c, t) == Knows(c, t) /\ turn = FreeTurn
Statement(c, t, op, k, now) ==
  /\ rows' = [rows EXCEPT ![t] = now]
  /\ settled' = rows'
  /\ Answer(op, t, k, "done")
  /\ UNCHANGED <<hand, call, turn>> /\ Counted
SqlUpdate(c, t, k, new) ==
  /\ Live(t, k) # {}
  /\ May("update with SQL", Refers(c, t, new) /\ (k # new => Children(c, t, k) = {}))
  /\ Statement(c, t, "update", k, [r \in DOMAIN rows[t] |-> IF r \in Live(t, k) THEN Row(TRUE, new) ELSE rows[t][r]])
SqlDelete(c, t, k) ==
  /\ Live(t, k) # {} /\ t \notin Superseded
  /\ May("delete with SQL", Children(c, t, k) = {})
  /\ Statement(c, t, "delete", k, [r \in DOMAIN rows[t] |-> IF r \in Live(t, k) THEN Row(FALSE, k) ELSE rows[t][r]])
SqlInsert(c, t, k) ==
  /\ Len(rows[t]) < MaxRows
  /\ May("insert with SQL", Refers(c, t, k))
  /\ Statement(c, t, "insert", k, Append(rows[t], Row(TRUE, k)))

---------------------------------------------------------------------------
(* The dictionary, and the specification *)

Data == UNCHANGED dataVars
\* A rule is created without a look at the rows, at the tables it names, or at
\* the other rules that want something of the same field of the child.
RuleTables(m) == UNION {{r.parent, r.child} : r \in RulesOf(m)}
OneParent(m) == \A q, r \in RulesOf(m) : q.child = r.child => q.parent = r.parent
Satisfied(m) == \A r \in RulesOf(m) : \A x \in Range(rows[r.child]) :
                  x.live /\ x.key # Blank => Live(r.parent, x.key) # {}
DictChange(c) ==
  /\ Data /\ Here(c) /\ call[c] = Idle
  /\ calls + changes < MaxCalls
  /\ May("change rules in the middle", turn = FreeTurn /\ \A t \in Tables : ~hand[c][t].open)
  /\ \E m \in Tabled(copy[c]) \cup Peopled(copy[c]) \cup Ruled(copy[c]) :
       /\ May("a rule the rows break", Satisfied(m))
       /\ May("a rule without its table", RuleTables(m) \subseteq m.objs)
       /\ May("a child with two parents", OneParent(m))
       /\ Change(c, m)
Saving(c) == Data /\ (SaveMemo(c) \/ SwapAdd(c) \/ SwapMemo(c))
Joining(c) == Data /\ Connect(c)
Setting(c) == Data /\ Here(c) /\ call[c] = Idle /\ \E t \in Of("Table"), text \in {Plain("Table"), Keyed} : SetTableProperty(c, t, text)
\* A connection that ends closes its tables; one that dies leaves rows as they are.
Leaving(c) ==
  /\ Leave(c)
  /\ May("die in the middle", turn = FreeTurn)
  /\ hand' = [hand EXCEPT ![c] = [t \in Tables |-> Shut]]
  /\ call' = [call EXCEPT ![c] = Idle]
  /\ turn' = IF turn # FreeTurn /\ turn[1] = c THEN FreeTurn ELSE turn
  /\ UNCHANGED <<rows, told, settled, calls>>

\* The dictionary and the rows to start with are such as careful clients leave.
ASSUME FirstAssumption ==
  /\ FirstCopy \in [objs : SUBSET Names, text : [Names -> AllTexts]]
  /\ \A o \in Names : /\ FirstCopy.text[o] \in Texts(o)
                      /\ o \in FirstCopy.objs \/ Kind[o] = "Table" \/ FirstCopy.text[o] = Default(o)
  /\ RuleTables(FirstCopy) \subseteq FirstCopy.objs /\ OneParent(FirstCopy)
  /\ \A r \in RulesOf(FirstCopy) : \A x \in Range(FirstRows[r.child]) :
       x.live /\ x.key # Blank => Row(TRUE, x.key) \in Range(FirstRows[r.parent])
Init ==
  /\ DictInit
  /\ rows = FirstRows /\ settled = FirstRows
  /\ hand = [c \in Conns |-> [t \in Tables |-> Shut]]
  /\ call = [c \in Conns |-> Idle]
  /\ told = <<"none", "none", Blank, "done">> /\ turn = FreeTurn /\ calls = 0

OnTable(c, t) ==
  /\ Ready(c, t)
  /\ \/ OpenTable(c, t) \/ CloseTable(c, t) \/ Move(c, t)
     \/ AppendRecord(c, t) \/ WriteAppended(c, t) \/ WriteChanged(c, t)
     \/ DeleteRecord(c, t) \/ RecallRecord(c, t)
     \/ \E k \in Keys \cup {Blank} :
          \/ SetField(c, t, k)
          \/ /\ Executing(c, t)
             /\ \/ SqlDelete(c, t, k) \/ SqlInsert(c, t, k)
                \/ \E new \in Keys \cup {Blank} : SqlUpdate(c, t, k, new)
InRule(c) == PassRule(c) \/ Refuse(c) \/ Apply(c) \/ FinishWrite(c) \/ FinishDelete(c)
OnDictionary(c) == DictChange(c) \/ Saving(c) \/ Joining(c) \/ Setting(c) \/ Leaving(c)
Next == \E c \in Conns : (\E t \in Tables : OnTable(c, t)) \/ InRule(c) \/ OnDictionary(c)
Spec == Init /\ [][Next]_vars

---------------------------------------------------------------------------
(* Properties *)

RowType == [live : BOOLEAN, key : Keys \cup {Blank}]
HandType == [open : {TRUE}, rec : 0..MaxRows, row : RowType, snap : Keys \cup {Blank, Unset},
             fresh : BOOLEAN, narrow : BOOLEAN, trust : {"sure", "written", "moved", "refused"}]
TypeOK ==
  /\ DictTypeOK
  /\ \A t \in Tables : {rows[t], settled[t]} \subseteq Seq(RowType) /\ Len(settled[t]) <= Len(rows[t])
  /\ \A c \in Conns, t \in Tables :
       hand[c][t] # Shut => hand[c][t] \in HandType /\ hand[c][t].rec \in 0..Len(rows[t])
  /\ \A c \in Conns : call[c] # Idle => call[c].todo \subseteq InForce(c) /\ turn = <<c, call[c].table>>
  /\ told[4] \in {"done", "refused"}

\* Every row of a child table that is settled refers to a row of the parent, by
\* every rule of the dictionary in the file: ri_check_insert, ri_enforce_update
\* and ri_enforce_delete together leave no orphan, from any connection.
Undisturbed == turn = FreeTurn /\ \A c \in Conns : Resting(c)
ReferencesKept ==
  Undisturbed => \A r \in RulesOf(InFile) : \A x \in Range(rows[r.child]) :
                   x.live /\ x.key # Blank => Live(r.parent, x.key) # {}

\* The key ri_enforce_update takes for the old one is the key of the record the
\* handle is on, whenever the application may go on to change it: the snapshot
\* is neither that of another row nor older than the row.
SnapshotTrue ==
  \A c \in Conns, t \in Tables :
    LET h == hand[c][t] IN
    /\ Here(c) /\ h.open /\ Parenting(c, t) # {}
    /\ turn = FreeTurn /\ h.rec # 0 /\ h.trust = "sure" /\ rows[t][h.rec] = h.row
    => h.snap = h.row.key

\* Rows and dictionary do what Relations promises: each call takes effect whole
\* or is refused and changes nothing, each change of the dictionary is the one
\* that was asked for, and a connection that joins or leaves changes neither.
R == INSTANCE Relations WITH
  live <- [t \in Tables |-> [r \in {x \in DOMAIN settled[t] : settled[t][x].live} |-> settled[t][r].key]],
  kept <- IF \E c \in Conns : stage[c] = "swap memo"
          THEN Said(copy[CHOOSE c \in Conns : stage[c] = "swap memo"]) ELSE InFile,
  told <- told,
  FirstText <- [o \in Names |-> Default(o)],
  Brings <- [o \in Names |-> IF Kind[o] = "Member" THEN {MemberGroup[o]} \cap BuiltIn ELSE {}],
  Needing <- [o \in Names |-> {x \in Of("Member") : o \in {MemberUser[x], MemberGroup[x]}}]
ImplementsRelations == R!Spec
===========================================================================
