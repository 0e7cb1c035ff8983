----------------------------- MODULE DataDict -----------------------------
(* The data dictionary: every connection works on its own copy of the        *)
(* objects, and every change writes the whole copy to a pair of files, the   *)
(* records (.add) and their texts (.am), by way of two temporary files.      *)
EXTENDS Integers, Sequences, FiniteSets, Functions

CONSTANTS
  Conns,       \* the connections, each in a process of its own
  Objects,     \* the objects, in the order save() writes them: a sequence
  Kind,        \* "Table", "User", "Group", "Member" or "RI", of each object
  MemberUser, MemberGroup,  \* the two ends of a Member
  BuiltIn,     \* groups whose name begins with DB:
  RuleTexts,   \* the rules an RI object may hold
  FirstCopy,   \* the dictionary to start with
  None, Gone,
  Daring,      \* what careful clients do not do, see May
  MaxChanges   \* bound: changes of the dictionary

VARIABLES
  copy,      \* the DataDict of each connection, or Gone
  stage,     \* how far the save() of each connection is
  add, memo,       \* the two files
  addNew, memoNew, \* the temporary files
  changes    \* bound
dictVars == <<copy, stage, add, memo, addNew, memoNew, changes>>

\* A careful client does a thing only when it is safe to.
May(what, safe) == what \notin Daring => safe

Names == Range(Objects)
Of(kind) == {o \in Names : Kind[o] = kind}
NoRule == [kind |-> "RI", parent |-> None, child |-> None, upd |-> "restrict", del |-> "restrict"]
Plain(kind) == [kind |-> kind]
Keyed == [kind |-> "Table", primary |-> TRUE]  \* a table with its primary key set
Default(o) == IF Kind[o] = "RI" THEN NoRule ELSE Plain(Kind[o])
Texts(o) == CASE Kind[o] = "RI" -> RuleTexts \cup {NoRule}
              [] Kind[o] = "Table" -> {Plain("Table"), Keyed}
              [] OTHER -> {Default(o)}
AllTexts == UNION {Texts(o) : o \in Names}

---------------------------------------------------------------------------
ASSUME ObjectsAssumption ==
  /\ Objects \in Seq(Names) /\ \A i, j \in DOMAIN Objects : Objects[i] = Objects[j] => i = j
  /\ Kind \in [Names -> {"Table", "User", "Group", "Member", "RI"}]
  /\ \A x \in Of("Member") : MemberUser[x] \in Of("User") /\ MemberGroup[x] \in Of("Group")
  /\ RuleTexts \subseteq [kind : {"RI"}, parent : Of("Table"), child : Of("Table"),
                          upd : {"cascade", "setnull", "restrict"}, del : {"cascade", "setnull", "restrict"}]
  /\ None \notin Names /\ MaxChanges \in Nat
  /\ \A n \in 0..Len(Objects) : None \notin [1..n -> Names \cup AllTexts]  \* a file
  /\ Gone \notin [objs : SUBSET Names, text : [Names -> AllTexts]]

(* Writing and reading the pair of files *)

\* The objects of m, in their order.
Recorded(m) ==
  LET places == {i \in DOMAIN Objects : Objects[i] \in m.objs}
  IN [n \in 1..Cardinality(places) |->
        Objects[CHOOSE i \in places : Cardinality({j \in places : j <= i}) = n]]
Texted(m) == LET recs == Recorded(m) IN [i \in DOMAIN recs |-> m.text[recs[i]]]

\* Mutant: whatever text stands there is taken.
MutantTextAt(o, i, texts) == IF i \in DOMAIN texts THEN texts[i] ELSE Default(o)
\* The record of an object names a block of the other file: the text that stands
\* there now, if it has the fields this kind of object reads.
TextAt(o, i, texts) ==
  IF i \in DOMAIN texts /\ (texts[i].kind = Kind[o] \/ Kind[o] = "User") THEN texts[i] ELSE Default(o)
\* What a pair of files says, and what a connection makes of it.
Saying(recs, texts) ==
  [objs |-> Range(recs),
   text |-> [o \in Range(recs) |-> TextAt(o, CHOOSE i \in DOMAIN recs : recs[i] = o, texts)]]
Loaded(said) == [said EXCEPT !.text = [o \in Names |-> IF o \in said.objs THEN said.text[o] ELSE Default(o)]]

---------------------------------------------------------------------------
(* The changes, in memory *)

With(m, o) == [m EXCEPT !.objs = @ \cup {o}]
Without(m, S) == [m EXCEPT !.objs = @ \ S]
\* The properties of a table stay behind when its alias goes.
AddTable(m, t) == With(m, t)
RemoveTable(m, t) == Without(m, {t})
CreateUser(m, u) == With(m, u)
DeleteUser(m, u) ==
  [Without(m, {u} \cup {x \in Of("Member") : MemberUser[x] = u}) EXCEPT !.text[u] = Default(u)]
AddUserToGroup(m, x) ==
  [m EXCEPT !.objs = @ \cup {x} \cup ({MemberGroup[x]} \cap BuiltIn)]
RemoveUserFromGroup(m, x) == Without(m, {x})
CreateGroup(m, g) == With(m, g)
DeleteGroup(m, g) == Without(m, {g} \cup {x \in Of("Member") : MemberGroup[x] = g})
CreateRi(m, n, rule) == [With(m, n) EXCEPT !.text[n] = rule]
RemoveRi(m, n) == [Without(m, {n}) EXCEPT !.text[n] = Default(n)]

RulesOf(m) == {m.text[n] : n \in Of("RI") \cap m.objs} \ {NoRule}
Tabled(m) == {AddTable(m, t) : t \in {x \in Of("Table") : May("alias again", x \in m.objs \/ m.text[x] = Default(x))}}
             \cup {RemoveTable(m, t) : t \in Of("Table")}
Peopled(m) == {CreateUser(m, u) : u \in Of("User")} \cup {DeleteUser(m, u) : u \in Of("User")}
              \cup {AddUserToGroup(m, x) : x \in Of("Member")} \cup {RemoveUserFromGroup(m, x) : x \in Of("Member")}
              \cup {CreateGroup(m, g) : g \in Of("Group")} \cup {DeleteGroup(m, g) : g \in Of("Group")}
Ruled(m) == {CreateRi(m, n, r) : n \in Of("RI"), r \in RuleTexts} \cup {RemoveRi(m, n) : n \in Of("RI")}

Here(c) == copy[c] # Gone
Resting(c) == stage[c] = "idle"
InFile == Saying(add, memo)
\* What a dictionary says, without the leftovers of objects it no longer has.
Said(m) == [objs |-> m.objs, text |-> [o \in m.objs |-> m.text[o]]]

---------------------------------------------------------------------------
(* Calls, and the steps of save() *)

Connect(c) ==
  /\ ~Here(c)
  /\ copy' = [copy EXCEPT ![c] = Loaded(InFile)]
  /\ UNCHANGED <<stage, add, memo, addNew, memoNew, changes>>

\* AdsDisconnect saves nothing, so a connection ends as a process dies.
Leave(c) ==
  /\ Here(c)
  /\ May("die between the renames", stage[c] # "swap memo")
  /\ copy' = [copy EXCEPT ![c] = Gone]
  /\ stage' = [stage EXCEPT ![c] = "idle"]
  /\ UNCHANGED <<add, memo, addNew, memoNew, changes>>

\* A change of the copy, and the first temporary file.
Change(c, m) ==
  /\ Here(c) /\ Resting(c) /\ changes < MaxChanges
  /\ May("two savers", \A d \in Conns : Resting(d))
  /\ May("change a stale copy", Said(copy[c]) = InFile)
  /\ copy' = [copy EXCEPT ![c] = m]
  /\ stage' = [stage EXCEPT ![c] = "memo"]
  /\ addNew' = Recorded(m)
  /\ changes' = changes + 1
  /\ UNCHANGED <<add, memo, memoNew>>

SaveMemo(c) ==
  /\ stage[c] = "memo"
  /\ stage' = [stage EXCEPT ![c] = "swap add"]
  /\ memoNew' = Texted(copy[c])
  /\ UNCHANGED <<copy, add, memo, addNew, changes>>

\* A temporary file another connection has renamed fails the rename and the
\* save; the copy keeps the change.
SwapAdd(c) ==
  /\ stage[c] = "swap add"
  /\ stage' = [stage EXCEPT ![c] = IF addNew = None THEN "idle" ELSE "swap memo"]
  /\ add' = IF addNew = None THEN add ELSE addNew
  /\ addNew' = None
  /\ UNCHANGED <<copy, memo, memoNew, changes>>

SwapMemo(c) ==
  /\ stage[c] = "swap memo"
  /\ stage' = [stage EXCEPT ![c] = "idle"]
  /\ memo' = IF memoNew = None THEN memo ELSE memoNew
  /\ memoNew' = None
  /\ UNCHANGED <<copy, add, addNew, changes>>

\* AdsDDSetTableProperty changes the copy and does not save.
SetTableProperty(c, t, text) ==
  /\ Here(c) /\ Resting(c) /\ t \in copy[c].objs /\ changes < MaxChanges
  /\ May("set a property and save nothing", text = copy[c].text[t])
  /\ copy' = [copy EXCEPT ![c].text[t] = text]
  /\ changes' = changes + 1
  /\ UNCHANGED <<stage, add, memo, addNew, memoNew>>

DictInit ==
  /\ copy = [c \in Conns |-> Gone]
  /\ stage = [c \in Conns |-> "idle"]
  /\ add = Recorded(FirstCopy) /\ memo = Texted(FirstCopy)
  /\ addNew = None /\ memoNew = None
  /\ changes = 0

DictTypeOK ==
  /\ \A c \in Conns : Here(c) => /\ copy[c].objs \subseteq Names
                                 /\ \A o \in Names : Kind[o] = "User" \/ copy[c].text[o] \in Texts(o)
  /\ stage \in [Conns -> {"idle", "memo", "swap add", "swap memo"}]
  /\ \A f \in {add, addNew} \ {None} : f \in Seq(Names) /\ Cardinality(Range(f)) = Len(f)
  /\ \A f \in {memo, memoNew} \ {None} : Range(f) \subseteq UNION {Texts(o) : o \in Names}
===========================================================================
