------------------------ MODULE RefIntegrityProofs ------------------------
(***************************************************************************)
(* What careful clients of the data dictionary and of the tables under its *)
(* rules can rely on, for every set of connections, objects, rules and     *)
(* rows: types, snapshots that are true, references that are kept, and the *)
(* promises of Relations.  The inductive invariant has a part for the      *)
(* dictionary - which copies there are and what the two files say at each  *)
(* step of a save - and a part for the rows: how far the one call that is  *)
(* applying rules has come, in terms of the rows before it.                *)
(***************************************************************************)
EXTENDS RefIntegrity, LeastNumber, SequenceTheorems, TLAPS

(* Dictionaries *)

Copies == [objs : SUBSET Names, text : [Names -> AllTexts]]
\* A copy has every text in its place; but one that was read between the two
\* renames of another connection may have a text of any kind for a user.
Placed(m) ==
  \A o \in Names : m.text[o] \in Texts(o) \/ (Kind[o] = "User" /\ o \in m.objs)
\* What every copy is, and what the copy of a connection that saves is.
Sound(m) ==
  /\ m \in Copies /\ Placed(m) /\ RuleTables(m) \subseteq m.objs
  /\ \A o \in Names \ m.objs : Kind[o] # "Table" => m.text[o] = Default(o)
Good(m) == Sound(m) /\ OneParent(m) /\ \A o \in Names : m.text[o] \in Texts(o)

SwapsMemo == \E c \in Conns : stage[c] = "swap memo"
FilesOf(m) == add = Recorded(m) /\ memo = Texted(m)
\* Only one connection saves, it works on a good copy, and the others are sound.
CopiesInv ==
  /\ copy \in [Conns -> Copies \cup {Gone}]
  /\ stage \in [Conns -> {"idle", "memo", "swap add", "swap memo"}]
  /\ \A c \in Conns : Here(c) => Sound(copy[c])
  /\ \A c \in Conns : ~Here(c) => Resting(c)
  /\ \A c \in Conns : ~Resting(c) => Good(copy[c])
  /\ \A c, d \in Conns : ~Resting(c) /\ ~Resting(d) => c = d
\* The files are those of a good copy, but between the two renames, when they
\* are those of two; and no table goes that a rule of the old one names.
FilesInv ==
  /\ addNew = None \/ \E m \in Copies : Good(m) /\ addNew = Recorded(m)
  /\ memoNew = None \/ \E m \in Copies : Good(m) /\ memoNew = Texted(m)
  /\ ~SwapsMemo => \E m \in Copies : Good(m) /\ FilesOf(m)
  /\ \A c \in Conns : stage[c] \in {"memo", "swap add"} =>
       addNew = Recorded(copy[c]) /\ RuleTables(InFile) \subseteq copy[c].objs
  /\ \A c \in Conns : stage[c] \in {"swap add", "swap memo"} => memoNew = Texted(copy[c])
  /\ \A c \in Conns : stage[c] = "swap memo" =>
       /\ add = Recorded(copy[c])
       /\ \E m \in Copies : Good(m) /\ memo = Texted(m) /\ RuleTables(m) \subseteq copy[c].objs
DictInv == CopiesInv /\ FilesInv

\* Clients dare nothing that May rules out, but may set properties of tables,
\* which no call saves.
Careful == Daring \subseteq {"set a property and save nothing"}

---------------------------------------------------------------------------
(* What the files say *)

\* Texts have the kind of their object.
LEMMA TextKinds ==
  ASSUME NEW o \in Names
  PROVE  /\ Default(o) \in Texts(o) /\ Texts(o) \subseteq AllTexts
         /\ \A x \in Texts(o) : x.kind = Kind[o]
<1>1. Kind[o] \in {"Table", "User", "Group", "Member", "RI"}
  BY ObjectsAssumption
<1>2. \A r \in RuleTexts : r.kind = "RI"
  BY ObjectsAssumption
<1>3. Texts(o) \subseteq AllTexts
  BY DEF AllTexts
<1>4. CASE Kind[o] = "RI"
  <2>1. Texts(o) = RuleTexts \cup {NoRule} /\ Default(o) = NoRule /\ NoRule.kind = "RI"
    BY <1>4 DEF Texts, Default, NoRule
  <2> QED
    BY <1>2, <1>3, <1>4, <2>1
<1>5. CASE Kind[o] = "Table"
  <2>1. Texts(o) = {Plain("Table"), Keyed} /\ Default(o) = Plain("Table")
    BY <1>5 DEF Texts, Default
  <2>2. Plain("Table").kind = "Table" /\ Keyed.kind = "Table"
    BY DEF Plain, Keyed
  <2> QED
    BY <1>3, <1>5, <2>1, <2>2
<1>6. CASE Kind[o] \notin {"RI", "Table"}
  <2>1. Texts(o) = {Default(o)} /\ Default(o) = Plain(Kind[o])
    BY <1>6 DEF Texts, Default
  <2>2. Plain(Kind[o]).kind = Kind[o]
    BY DEF Plain
  <2> QED
    BY <1>3, <2>1, <2>2
<1> QED
  BY <1>4, <1>5, <1>6

\* The records of a copy: every object once, in a file that exists.
LEMMA Records ==
  ASSUME NEW m, m.objs \in SUBSET Names
  PROVE  /\ Recorded(m) \in Seq(Names) /\ Range(Recorded(m)) = m.objs
         /\ \A i, j \in DOMAIN Recorded(m) : Recorded(m)[i] = Recorded(m)[j] => i = j
         /\ Len(Recorded(m)) \in 0..Len(Objects) /\ Recorded(m) # None
<1> DEFINE places == {i \in DOMAIN Objects : Objects[i] \in m.objs}
           N == Cardinality(places)
           upto(i) == Cardinality({j \in places : j <= i})
           pick == [n \in 1..N |-> CHOOSE i \in places : upto(i) = n]
           q == [n \in 1..N |-> Objects[CHOOSE i \in places : upto(i) = n]]
<1>1. Recorded(m) = q
  BY DEF Recorded
<1>2. Objects \in Seq(Names) /\ DOMAIN Objects = 1..Len(Objects) /\ Len(Objects) \in Nat
  BY ObjectsAssumption
<1>3. IsFiniteSet(places) /\ N \in 0..Len(Objects) /\ places \in SUBSET Int
  <2>1. IsFiniteSet(1..Len(Objects)) /\ Cardinality(1..Len(Objects)) = Len(Objects)
    BY <1>2, FS_Interval
  <2>2. places \subseteq 1..Len(Objects)
    BY <1>2
  <2> QED
    BY <1>2, <2>1, <2>2, FS_Subset, FS_CardinalityType
<1>4. ASSUME NEW n \in 1..N PROVE pick[n] \in places /\ upto(pick[n]) = n
  <2>1. \E i \in places : upto(i) = n
    BY <1>3, IthOfSet
  <2> QED
    BY <2>1
<1>5. pick \in Injection(1..N, places)
  <2>1. pick \in [1..N -> places]
    BY <1>4
  <2>2. ASSUME NEW i \in 1..N, NEW j \in 1..N, pick[i] = pick[j] PROVE i = j
    <3>1. upto(pick[i]) = i /\ upto(pick[j]) = j
      BY <1>4
    <3> HIDE DEF pick, upto
    <3> QED
      BY <2>2, <3>1
  <2> HIDE DEF pick
  <2> QED
    BY <2>1, <2>2 DEF Injection, IsInjective
<1>6. pick \in Surjection(1..N, places)
  <2>1. IsFiniteSet(1..N) /\ Cardinality(1..N) = N
    BY <1>3, FS_Interval
  <2> QED
    BY <1>3, <1>5, <2>1, FS_Injection
<1>7. \A n \in 1..N : q[n] = Objects[pick[n]]
  OBVIOUS
<1> HIDE DEF pick, q
<1>8. DOMAIN q = 1..N
  BY DEF q
<1>9. \A n \in 1..N : q[n] \in m.objs
  BY <1>4, <1>7
<1>10. q \in Seq(Names) /\ Len(q) = N
  <2>1. q \in [1..N -> Names]
    BY <1>9, ObjectsAssumption DEF q
  <2>2. N \in Nat
    BY <1>2, <1>3
  <2> QED
    BY <2>1, <2>2
<1>11. \A o \in m.objs : \E n \in 1..N : q[n] = o
  <2> SUFFICES ASSUME NEW o \in m.objs PROVE \E n \in 1..N : q[n] = o
    OBVIOUS
  <2>1. PICK i \in DOMAIN Objects : Objects[i] = o
    BY DEF Names, Range
  <2>2. PICK n \in 1..N : pick[n] = i
    BY <1>6, <2>1 DEF Surjection
  <2> QED
    BY <1>7, <2>1, <2>2
<1>12. \A i, j \in 1..N : q[i] = q[j] => i = j
  <2>1. \A i, j \in 1..N : pick[i] = pick[j] => i = j
    BY <1>4
  <2>2. \A i, j \in DOMAIN Objects : Objects[i] = Objects[j] => i = j
    BY ObjectsAssumption
  <2>3. \A i \in 1..N : pick[i] \in DOMAIN Objects
    BY <1>4
  <2> QED
    BY <1>7, <2>1, <2>2, <2>3
<1>13. Range(q) = m.objs
  BY <1>8, <1>9, <1>11 DEF Range
<1>14. q # None
  <2>1. q \in [1..N -> Names \cup AllTexts]
    BY <1>9 DEF q
  <2> QED
    BY <1>3, <2>1, ObjectsAssumption
<1> QED
  BY <1>1, <1>3, <1>8, <1>10, <1>12, <1>13, <1>14

\* The texts of a copy: one for each record, in a file that exists.
LEMMA TextsOfCopy ==
  ASSUME NEW m \in Copies
  PROVE  /\ Texted(m) \in Seq(AllTexts) /\ DOMAIN Texted(m) = DOMAIN Recorded(m)
         /\ \A i \in DOMAIN Texted(m) : /\ Recorded(m)[i] \in m.objs
                                        /\ Texted(m)[i] = m.text[Recorded(m)[i]]
         /\ Texted(m) # None
<1> DEFINE recs == Recorded(m)
<1>1. m.objs \in SUBSET Names /\ m.text \in [Names -> AllTexts]
  BY DEF Copies
<1>2. recs \in Seq(Names) /\ Range(recs) = m.objs /\ Len(recs) \in 0..Len(Objects)
  BY <1>1, Records
<1>3. Texted(m) = [i \in DOMAIN recs |-> m.text[recs[i]]]
  BY DEF Texted
<1>4. \A i \in DOMAIN recs : recs[i] \in m.objs
  BY <1>2 DEF Range
<1> HIDE DEF recs
<1>5. DOMAIN recs = 1..Len(recs) /\ Len(recs) \in Nat
  BY <1>2
<1>6. Texted(m) \in [1..Len(recs) -> AllTexts]
  BY <1>1, <1>3, <1>4, <1>5
<1>7. Texted(m) \in Seq(AllTexts)
  BY <1>5, <1>6
<1>8. Texted(m) # None
  <2>1. Texted(m) \in [1..Len(recs) -> Names \cup AllTexts]
    BY <1>6
  <2> QED
    BY <1>2, <2>1, ObjectsAssumption
<1>9. \A i \in DOMAIN recs : Texted(m)[i] = m.text[recs[i]]
  BY <1>3
<1>10. DOMAIN Texted(m) = DOMAIN recs
  BY <1>3
<1> QED
  BY <1>4, <1>7, <1>8, <1>9, <1>10 DEF recs

\* The place of an object in the records.
LEMMA PlaceOf ==
  ASSUME NEW m \in Copies, NEW o \in m.objs
  PROVE  LET i == CHOOSE j \in DOMAIN Recorded(m) : Recorded(m)[j] = o
         IN  i \in DOMAIN Recorded(m) /\ Recorded(m)[i] = o
<1>1. m.objs \in SUBSET Names
  BY DEF Copies
<1>2. Range(Recorded(m)) = m.objs
  BY <1>1, Records
<1>3. \E j \in DOMAIN Recorded(m) : Recorded(m)[j] = o
  BY <1>2 DEF Range
<1> QED
  BY <1>3

\* A pair of files that one copy was written to says what the copy says.
LEMMA FilesTellCopy ==
  ASSUME NEW m \in Copies, \A o \in Names : m.text[o] \in Texts(o)
  PROVE  Saying(Recorded(m), Texted(m)) = Said(m)
<1>1. m.objs \in SUBSET Names /\ Range(Recorded(m)) = m.objs
  BY Records DEF Copies
<1>2. ASSUME NEW o \in m.objs
      PROVE  TextAt(o, CHOOSE i \in DOMAIN Recorded(m) : Recorded(m)[i] = o, Texted(m)) = m.text[o]
  <2> DEFINE i == CHOOSE j \in DOMAIN Recorded(m) : Recorded(m)[j] = o
  <2>1. i \in DOMAIN Recorded(m) /\ Recorded(m)[i] = o
    BY PlaceOf
  <2>2. i \in DOMAIN Texted(m) /\ Texted(m)[i] = m.text[o]
    BY <2>1, TextsOfCopy
  <2>3. m.text[o].kind = Kind[o]
    BY <1>1, TextKinds
  <2> HIDE DEF i
  <2>4. TextAt(o, i, Texted(m)) = m.text[o]
    BY <2>2, <2>3 DEF TextAt
  <2> QED
    BY <2>4 DEF i
<1>3. [o \in Range(Recorded(m)) |-> TextAt(o, CHOOSE i \in DOMAIN Recorded(m) : Recorded(m)[i] = o, Texted(m))]
        = [o \in m.objs |-> m.text[o]]
  BY <1>1, <1>2
<1> QED
  BY <1>1, <1>3 DEF Saying, Said

\* Records of one copy with the texts of another say the objects of the first,
\* with texts of their kinds, and no rule that the second has not.
LEMMA FilesMixed ==
  ASSUME NEW m \in Copies, NEW old \in Copies, \A o \in Names : old.text[o] \in Texts(o)
  PROVE  LET said == Saying(Recorded(m), Texted(old))
         IN  /\ said.objs = m.objs /\ said.objs \in SUBSET Names
             /\ \A o \in m.objs :
                  /\ said.text[o] \in AllTexts
                  /\ Kind[o] # "User" => said.text[o] \in Texts(o)
                  /\ Kind[o] = "RI" => said.text[o] \in RulesOf(old) \cup {NoRule}
<1> DEFINE said == Saying(Recorded(m), Texted(old))
           place(o) == CHOOSE i \in DOMAIN Recorded(m) : Recorded(m)[i] = o
<1>1. m.objs \in SUBSET Names /\ Range(Recorded(m)) = m.objs
  BY Records DEF Copies
<1>2. said.objs = m.objs /\ \A o \in m.objs : said.text[o] = TextAt(o, place(o), Texted(old))
  BY <1>1 DEF Saying
<1>3. ASSUME NEW o \in m.objs
      PROVE  /\ said.text[o] \in AllTexts
             /\ Kind[o] # "User" => said.text[o] \in Texts(o)
             /\ Kind[o] = "RI" => said.text[o] \in RulesOf(old) \cup {NoRule}
  <2>1. o \in Names
    BY <1>1
  <2>2. CASE said.text[o] = Default(o)
    <3>1. Kind[o] = "RI" => Default(o) = NoRule
      BY DEF Default
    <3>2. Default(o) \in Texts(o) /\ Texts(o) \subseteq AllTexts
      BY <2>1, TextKinds
    <3> QED
      BY <2>2, <3>1, <3>2
  <2>3. CASE said.text[o] # Default(o)
    <3>1. PICK i \in DOMAIN Texted(old) : /\ said.text[o] = Texted(old)[i]
                                          /\ Texted(old)[i].kind = Kind[o] \/ Kind[o] = "User"
      BY <1>2, <2>3 DEF TextAt
    <3>2. PICK x \in old.objs : said.text[o] = old.text[x]
      BY <3>1, TextsOfCopy
    <3>3. x \in Names /\ old.text[x] \in Texts(x) /\ Texts(x) \subseteq AllTexts /\ old.text[x].kind = Kind[x]
      BY TextKinds DEF Copies
    <3>4. ASSUME Kind[o] # "User" PROVE said.text[o] \in Texts(o)
      <4>1. Kind[x] = Kind[o]
        BY <3>1, <3>2, <3>3, <3>4
      <4>2. Texts(x) = Texts(o)
        BY <4>1 DEF Texts, Default
      <4> QED
        BY <3>2, <3>3, <4>2
    <3>5. ASSUME Kind[o] = "RI" PROVE said.text[o] \in RulesOf(old) \cup {NoRule}
      <4>1. x \in Of("RI")
        BY <3>1, <3>2, <3>3, <3>5 DEF Of
      <4> QED
        BY <3>2, <4>1 DEF RulesOf
    <3> QED
      BY <3>2, <3>3, <3>4, <3>5
  <2> QED
    BY <2>2, <2>3
<1> HIDE DEF said
<1>4. said.objs \in SUBSET Names
  BY <1>1, <1>2
<1> QED
  BY <1>2, <1>3, <1>4 DEF said

\* The rules of a copy, and the tables they name.
LEMMA RulesOfCopy ==
  ASSUME NEW m \in Copies, Placed(m)
  PROVE  /\ RulesOf(m) \subseteq RuleTexts
         /\ \A r \in RulesOf(m) : /\ r.parent \in Of("Table") /\ r.child \in Of("Table") /\ r # NoRule
                                  /\ r.parent \in Tables /\ r.child \in Tables
                                  /\ {r.parent, r.child} \subseteq RuleTables(m)
<1>1. ASSUME NEW r \in RulesOf(m) PROVE r \in RuleTexts /\ r # NoRule
  <2>1. PICK n \in Of("RI") \cap m.objs : r = m.text[n] /\ r # NoRule
    BY DEF RulesOf
  <2>2. n \in Names /\ Kind[n] = "RI"
    BY <2>1 DEF Of
  <2>3. r \in Texts(n)
    BY <2>1, <2>2 DEF Placed
  <2> QED
    BY <2>1, <2>2, <2>3 DEF Texts
<1>2. ASSUME NEW r \in RulesOf(m)
      PROVE  /\ r.parent \in Of("Table") /\ r.child \in Of("Table")
             /\ r.parent \in Tables /\ r.child \in Tables
  BY <1>1, ObjectsAssumption, RefIntegrityAssumption
<1>3. ASSUME NEW r \in RulesOf(m) PROVE {r.parent, r.child} \subseteq RuleTables(m)
  BY DEF RuleTables
<1> QED
  BY <1>1, <1>2, <1>3

\* Rules name tables that are there when the rules of another copy, of which they
\* are some, do.
LEMMA FewerRules ==
  ASSUME NEW m, NEW n, RulesOf(m) \subseteq RulesOf(n)
  PROVE  RuleTables(m) \subseteq RuleTables(n)
BY DEF RuleTables

\* What a connection that joins between two steps of a save is given.
LEMMA LoadedIsSound ==
  ASSUME NEW m \in Copies, NEW old \in Copies, \A o \in Names : old.text[o] \in Texts(o),
         RuleTables(old) \subseteq m.objs
  PROVE  Sound(Loaded(Saying(Recorded(m), Texted(old))))
<1> DEFINE said == Saying(Recorded(m), Texted(old))
           new == Loaded(said)
<1>1. /\ said.objs = m.objs /\ said.objs \in SUBSET Names
      /\ \A o \in m.objs : /\ said.text[o] \in AllTexts
                           /\ Kind[o] # "User" => said.text[o] \in Texts(o)
                           /\ Kind[o] = "RI" => said.text[o] \in RulesOf(old) \cup {NoRule}
  BY FilesMixed
<1>2. new = [objs |-> m.objs, text |-> [o \in Names |-> IF o \in m.objs THEN said.text[o] ELSE Default(o)]]
  <2>1. said = [objs |-> said.objs, text |-> said.text]
    BY DEF Saying
  <2> HIDE DEF said
  <2>2. [said EXCEPT !.text = [o \in Names |-> IF o \in said.objs THEN said.text[o] ELSE Default(o)]]
          = [objs |-> said.objs, text |-> [o \in Names |-> IF o \in said.objs THEN said.text[o] ELSE Default(o)]]
    BY <2>1
  <2> QED
    BY <1>1, <2>2 DEF Loaded
<1> HIDE DEF said, new
<1>3. \A o \in Names : Default(o) \in Texts(o) /\ Texts(o) \subseteq AllTexts
  BY TextKinds
<1>4. new \in Copies
  <2>1. [o \in Names |-> IF o \in m.objs THEN said.text[o] ELSE Default(o)] \in [Names -> AllTexts]
    BY <1>1, <1>3
  <2>2. m.objs \in SUBSET Names
    BY DEF Copies
  <2> QED
    BY <1>2, <2>1, <2>2 DEF Copies
<1>5. Placed(new)
  BY <1>1, <1>2, <1>3 DEF Placed
<1>6. RulesOf(new) \subseteq RulesOf(old)
  BY <1>1, <1>2 DEF RulesOf, Of
<1>7. RuleTables(new) \subseteq new.objs
  BY <1>2, <1>6, FewerRules
<1>8. \A o \in Names \ new.objs : new.text[o] = Default(o)
  BY <1>2
<1> QED
  BY <1>4, <1>5, <1>7, <1>8 DEF Sound, new, said

\* A copy says the rules it has.
LEMMA SaidRules ==
  ASSUME NEW m
  PROVE  RulesOf(Said(m)) = RulesOf(m) /\ RuleTables(Said(m)) = RuleTables(m)
<1>1. RulesOf(Said(m)) = RulesOf(m)
  BY DEF RulesOf, Said
<1> QED
  BY <1>1 DEF RuleTables

\* What a change makes of a copy: the objects that come and go, and their texts.
Changes(m) == Tabled(m) \cup Peopled(m) \cup Ruled(m)
LEMMA ChangeKinds ==
  ASSUME NEW m, NEW n \in Changes(m), Careful
  PROVE  \/ \E t \in Of("Table") : n = AddTable(m, t) /\ (t \in m.objs \/ m.text[t] = Default(t))
         \/ \E t \in Of("Table") : n = RemoveTable(m, t)
         \/ \E u \in Of("User") : n = CreateUser(m, u) \/ n = DeleteUser(m, u)
         \/ \E x \in Of("Member") : n = AddUserToGroup(m, x) \/ n = RemoveUserFromGroup(m, x)
         \/ \E g \in Of("Group") : n = CreateGroup(m, g) \/ n = DeleteGroup(m, g)
         \/ \E o \in Of("RI"), r \in RuleTexts : n = CreateRi(m, o, r)
         \/ \E o \in Of("RI") : n = RemoveRi(m, o)
<1>1. CASE n \in Tabled(m)
  BY <1>1 DEF Tabled, May, Careful
<1>2. CASE n \in Peopled(m)
  BY <1>2 DEF Peopled
<1>3. CASE n \in Ruled(m)
  BY <1>3 DEF Ruled
<1> QED
  BY <1>1, <1>2, <1>3 DEF Changes

\* A copy is good again when objects come and go, one text at most is replaced,
\* and a rule that goes leaves nothing behind.
LEMMA GoodAgain ==
  ASSUME NEW m, Good(m), NEW O \in SUBSET Names, NEW o \in Names, NEW d \in Texts(o),
         NEW n, n = [objs |-> O, text |-> [m.text EXCEPT ![o] = d]],
         o \in O \/ d = Default(o), \A x \in m.objs \ O : Kind[x] # "RI" \/ x = o,
         RuleTables(n) \subseteq n.objs, OneParent(n)
  PROVE  Good(n)
<1>1. m.text \in [Names -> AllTexts] /\ m.objs \in SUBSET Names
  BY DEF Good, Sound, Copies
<1>2. \A x \in Names : Texts(x) \subseteq AllTexts /\ m.text[x] \in Texts(x)
  BY TextKinds DEF Good
<1>3. \A x \in Names : n.text[x] = IF x = o THEN d ELSE m.text[x]
  BY <1>1
<1>4. n \in Copies
  <2>1. [m.text EXCEPT ![o] = d] \in [Names -> AllTexts]
    BY <1>1, <1>2
  <2> QED
    BY <2>1 DEF Copies
<1>5. \A x \in Names : n.text[x] \in Texts(x)
  BY <1>2, <1>3
<1>6. ASSUME NEW x \in Names \ n.objs, Kind[x] # "Table" PROVE n.text[x] = Default(x)
  <2>1. CASE x = o
    BY <1>3, <1>6, <2>1
  <2>2. CASE x # o /\ x \notin m.objs
    BY <1>3, <1>6, <2>2 DEF Good, Sound
  <2>3. CASE x # o /\ x \in m.objs
    <3>1. Kind[x] # "RI"
      BY <1>6, <2>3
    <3>2. Texts(x) = {Default(x)}
      BY <1>6, <3>1 DEF Texts
    <3> QED
      BY <1>2, <1>3, <1>6, <2>3, <3>2
  <2> QED
    BY <2>1, <2>2, <2>3
<1> QED
  BY <1>4, <1>5, <1>6 DEF Good, Sound, Placed

\* The changes a careful client makes leave a good copy good, and take no table
\* away that a rule names.
LEMMA ChangedIsGood ==
  ASSUME NEW m, Good(m), NEW n \in Changes(m), Careful, RuleTables(n) \subseteq n.objs, OneParent(n)
  PROVE  Good(n) /\ RuleTables(m) \subseteq n.objs
<1>1. m = [objs |-> m.objs, text |-> m.text] /\ m.text \in [Names -> AllTexts] /\ m.objs \in SUBSET Names
  BY DEF Good, Sound, Copies
<1>2. /\ RuleTables(m) \subseteq m.objs /\ RuleTables(m) \subseteq Of("Table")
      /\ \A x \in Names : m.text[x] \in Texts(x)
  <2>1. RuleTables(m) \subseteq Of("Table")
    BY RulesOfCopy DEF RuleTables, Good, Sound
  <2> QED
    BY <2>1 DEF Good, Sound
<1>3. \A kind : \A o \in Of(kind) : o \in Names /\ Kind[o] = kind
  BY DEF Of
<1>4. \A x \in Names : Default(x) \in Texts(x)
  BY TextKinds
<1>5. ASSUME NEW o \in Names, NEW d \in Texts(o), NEW O \in SUBSET Names,
             n = [objs |-> O, text |-> [m.text EXCEPT ![o] = d]],
             o \in O \/ d = Default(o), \A x \in m.objs \ O : Kind[x] # "RI" \/ x = o,
             \A t \in m.objs \ O : Kind[t] # "Table"
      PROVE  Good(n) /\ RuleTables(m) \subseteq n.objs
  <2>1. Good(n)
    BY <1>5, GoodAgain
  <2>2. RuleTables(m) \subseteq O
    BY <1>2, <1>3, <1>5
  <2> QED
    BY <1>5, <2>1, <2>2
<1>6. \A o \in Names : [m.text EXCEPT ![o] = m.text[o]] = m.text
  BY <1>1
<1>7. ASSUME NEW o \in Names, NEW O \in SUBSET Names, n = [objs |-> O, text |-> m.text],
             o \in O \/ m.text[o] = Default(o), \A x \in m.objs \ O : Kind[x] \notin {"RI", "Table"}
      PROVE  Good(n) /\ RuleTables(m) \subseteq n.objs
  <2>1. n = [objs |-> O, text |-> [m.text EXCEPT ![o] = m.text[o]]]
    BY <1>6, <1>7
  <2> QED
    BY <1>2, <1>5, <1>7, <2>1
<1>8. \A S : With(m, S) = [objs |-> m.objs \cup {S}, text |-> m.text]
  BY <1>1 DEF With
<1>9. \A S : Without(m, S) = [objs |-> m.objs \ S, text |-> m.text]
  BY <1>1 DEF Without
<1>10. ASSUME NEW t \in Of("Table"), n = AddTable(m, t)
       PROVE  Good(n) /\ RuleTables(m) \subseteq n.objs
  <2>1. m.objs \cup {t} \in SUBSET Names /\ t \in Names
    BY <1>1, <1>3
  <2> QED
    BY <1>7, <1>8, <1>10, <2>1 DEF AddTable
<1>11. ASSUME NEW t \in Of("Table"), n = RemoveTable(m, t)
       PROVE  Good(n) /\ RuleTables(m) \subseteq n.objs
  <2>1. n.objs = m.objs \ {t} /\ n.text = m.text /\ n.objs \in SUBSET Names
    BY <1>1, <1>9, <1>11 DEF RemoveTable
  <2>2. t \in Names /\ Kind[t] = "Table"
    BY <1>3
  <2>3. RulesOf(m) = RulesOf(n)
    BY <2>1, <2>2 DEF RulesOf, Of
  <2>4. RuleTables(m) = RuleTables(n)
    BY <2>3 DEF RuleTables
  <2>5. n = [objs |-> n.objs, text |-> [m.text EXCEPT ![t] = m.text[t]]]
    BY <1>6, <1>9, <1>11, <2>1, <2>2 DEF RemoveTable
  <2>6. CASE \E o \in n.objs : TRUE
    <3>1. PICK o \in n.objs : TRUE
      BY <2>6
    <3>2. n = [objs |-> n.objs, text |-> [m.text EXCEPT ![o] = m.text[o]]]
      BY <1>6, <2>1, <2>5, <3>1
    <3>3. \A x \in m.objs \ n.objs : Kind[x] # "RI"
      BY <2>1, <2>2
    <3>4. o \in Names /\ m.text[o] \in Texts(o)
      BY <1>2, <2>1, <3>1
    <3>5. Good(n)
      BY <2>1, <3>1, <3>2, <3>3, <3>4, GoodAgain
    <3> QED
      BY <2>4, <3>5
  <2>7. CASE n.objs = {}
    <3>1. n.text \in [Names -> AllTexts] /\ \A x \in Names : n.text[x] \in Texts(x)
      BY <1>1, <1>2, <2>1
    <3>2. n \in Copies
      BY <1>9, <1>11, <2>1, <3>1 DEF Copies, RemoveTable
    <3>3. \A x \in Names : Kind[x] # "Table" => n.text[x] = Default(x)
      BY <2>1, <2>2, <2>7 DEF Good, Sound
    <3> QED
      BY <2>4, <3>1, <3>2, <3>3 DEF Good, Sound, Placed
  <2> QED
    BY <2>6, <2>7
<1>12. ASSUME NEW o \in Of("User") \cup Of("Group"), n = CreateUser(m, o) \/ n = CreateGroup(m, o)
       PROVE  Good(n) /\ RuleTables(m) \subseteq n.objs
  <2>1. m.objs \cup {o} \in SUBSET Names /\ o \in Names
    BY <1>1, <1>3
  <2> QED
    BY <1>7, <1>8, <1>12, <2>1 DEF CreateUser, CreateGroup
<1>13. ASSUME NEW u \in Of("User"), n = DeleteUser(m, u)
       PROVE  Good(n) /\ RuleTables(m) \subseteq n.objs
  <2> DEFINE S == {u} \cup {x \in Of("Member") : MemberUser[x] = u}
  <2>1. \A x \in S : Kind[x] \notin {"RI", "Table"}
    BY <1>3
  <2>2. n = [objs |-> m.objs \ S, text |-> [m.text EXCEPT ![u] = Default(u)]]
    <3>1. Without(m, S) = [objs |-> m.objs \ S, text |-> m.text]
      BY <1>9
    <3>2. n = [Without(m, S) EXCEPT !.text[u] = Default(u)]
      BY <1>13 DEF DeleteUser
    <3> HIDE DEF S
    <3>3. [[objs |-> m.objs \ S, text |-> m.text] EXCEPT !.text[u] = Default(u)]
            = [objs |-> m.objs \ S, text |-> [m.text EXCEPT ![u] = Default(u)]]
      OBVIOUS
    <3> QED
      BY <3>1, <3>2, <3>3
  <2>3. m.objs \ S \in SUBSET Names /\ u \in Names /\ u \notin m.objs \ S
    BY <1>1, <1>3
  <2> HIDE DEF S
  <2> QED
    BY <1>4, <1>5, <2>1, <2>2, <2>3
<1>14. ASSUME NEW x \in Of("Member"), n = AddUserToGroup(m, x)
       PROVE  Good(n) /\ RuleTables(m) \subseteq n.objs
  <2> DEFINE O == m.objs \cup {x} \cup ({MemberGroup[x]} \cap BuiltIn)
  <2>1. O \in SUBSET Names /\ x \in Names
    BY <1>1, <1>3, ObjectsAssumption
  <2>2. n = [objs |-> O, text |-> m.text]
    BY <1>1, <1>14 DEF AddUserToGroup
  <2> QED
    BY <1>7, <2>1, <2>2
<1>15. ASSUME NEW x \in Of("Member"), n = RemoveUserFromGroup(m, x)
       PROVE  Good(n) /\ RuleTables(m) \subseteq n.objs
  <2>1. m.objs \ {x} \in SUBSET Names /\ x \in Names /\ Kind[x] = "Member"
    BY <1>1, <1>3
  <2>2. m.text[x] = Default(x)
    BY <1>2, <2>1 DEF Texts
  <2> DEFINE O == m.objs \ {x}
  <2>3. n = [objs |-> O, text |-> m.text] /\ O \in SUBSET Names
    BY <1>9, <1>15, <2>1 DEF RemoveUserFromGroup
  <2>4. \A y \in m.objs \ O : Kind[y] \notin {"RI", "Table"}
    BY <2>1
  <2> HIDE DEF O
  <2> QED
    BY <1>7, <2>1, <2>2, <2>3, <2>4
<1>16. ASSUME NEW g \in Of("Group"), n = DeleteGroup(m, g)
       PROVE  Good(n) /\ RuleTables(m) \subseteq n.objs
  <2> DEFINE S == {g} \cup {x \in Of("Member") : MemberGroup[x] = g}
  <2>1. \A x \in S : Kind[x] \notin {"RI", "Table"}
    BY <1>3
  <2>2. m.objs \ S \in SUBSET Names /\ g \in Names /\ Kind[g] = "Group"
    BY <1>1, <1>3
  <2>3. m.text[g] = Default(g)
    BY <1>2, <2>2 DEF Texts
  <2>4. n = [objs |-> m.objs \ S, text |-> m.text]
    BY <1>9, <1>16 DEF DeleteGroup
  <2> HIDE DEF S
  <2> QED
    BY <1>7, <2>1, <2>2, <2>3, <2>4
<1>17. ASSUME NEW o \in Of("RI"), NEW r \in RuleTexts, n = CreateRi(m, o, r)
       PROVE  Good(n) /\ RuleTables(m) \subseteq n.objs
  <2>1. m.objs \cup {o} \in SUBSET Names /\ o \in Names /\ Kind[o] = "RI"
    BY <1>1, <1>3
  <2>2. r \in Texts(o)
    BY <2>1 DEF Texts
  <2>3. n = [objs |-> m.objs \cup {o}, text |-> [m.text EXCEPT ![o] = r]]
    <3>1. With(m, o) = [objs |-> m.objs \cup {o}, text |-> m.text]
      BY <1>8
    <3>2. n = [With(m, o) EXCEPT !.text[o] = r]
      BY <1>17 DEF CreateRi
    <3>3. [[objs |-> m.objs \cup {o}, text |-> m.text] EXCEPT !.text[o] = r]
            = [objs |-> m.objs \cup {o}, text |-> [m.text EXCEPT ![o] = r]]
      OBVIOUS
    <3> QED
      BY <3>1, <3>2, <3>3
  <2> QED
    BY <1>5, <2>1, <2>2, <2>3
<1>18. ASSUME NEW o \in Of("RI"), n = RemoveRi(m, o)
       PROVE  Good(n) /\ RuleTables(m) \subseteq n.objs
  <2>1. m.objs \ {o} \in SUBSET Names /\ o \in Names /\ Kind[o] = "RI"
    BY <1>1, <1>3
  <2>2. n = [objs |-> m.objs \ {o}, text |-> [m.text EXCEPT ![o] = Default(o)]]
    <3>1. Without(m, {o}) = [objs |-> m.objs \ {o}, text |-> m.text]
      BY <1>9
    <3>2. n = [Without(m, {o}) EXCEPT !.text[o] = Default(o)]
      BY <1>18 DEF RemoveRi
    <3>3. [[objs |-> m.objs \ {o}, text |-> m.text] EXCEPT !.text[o] = Default(o)]
            = [objs |-> m.objs \ {o}, text |-> [m.text EXCEPT ![o] = Default(o)]]
      OBVIOUS
    <3> QED
      BY <3>1, <3>2, <3>3
  <2>3. \A x \in m.objs \ (m.objs \ {o}) : x = o
    OBVIOUS
  <2> DEFINE O == m.objs \ {o}
  <2> HIDE DEF O
  <2>4. O \in SUBSET Names /\ (\A x \in m.objs \ O : x = o) /\ n = [objs |-> O, text |-> [m.text EXCEPT ![o] = Default(o)]]
    BY <2>1, <2>2, <2>3 DEF O
  <2>5. Default(o) \in Texts(o) /\ \A x \in m.objs \ O : (Kind[x] # "RI" \/ x = o) /\ Kind[x] # "Table"
    BY <1>4, <2>1, <2>4
  <2> QED
    BY <1>5, <2>1, <2>4, <2>5
<1> QED
  BY ChangeKinds, <1>10, <1>11, <1>12, <1>13, <1>14, <1>15, <1>16, <1>17, <1>18

---------------------------------------------------------------------------
(* The steps of the dictionary *)

\* When no connection is between its renames, the files say what one copy says.
LEMMA FileIsCopy ==
  ASSUME DictInv, ~SwapsMemo
  PROVE  \E m \in Copies : /\ Good(m) /\ FilesOf(m) /\ InFile = Said(m)
                           /\ RulesOf(InFile) = RulesOf(m) /\ RuleTables(InFile) = RuleTables(m)
<1>1. PICK m \in Copies : Good(m) /\ FilesOf(m)
  BY DEF DictInv, FilesInv
<1>2. InFile = Said(m)
  BY <1>1, FilesTellCopy DEF InFile, FilesOf, Good
<1> QED
  BY <1>1, <1>2, SaidRules

LEMMA NotGone == ASSUME NEW m \in Copies PROVE m # Gone
BY ObjectsAssumption DEF Copies

LEMMA ConnectSteps ==
  ASSUME DictInv, NEW c \in Conns, Connect(c)
  PROVE  DictInv' /\ Sound(Loaded(InFile))
<1>1. Sound(Loaded(InFile))
  <2>1. CASE ~SwapsMemo
    <3>1. PICK m \in Copies : Good(m) /\ FilesOf(m)
      BY <2>1, FileIsCopy
    <3> QED
      BY <3>1, LoadedIsSound DEF FilesOf, InFile, Good, Sound
  <2>2. CASE SwapsMemo
    <3>1. PICK d \in Conns : stage[d] = "swap memo"
      BY <2>2 DEF SwapsMemo
    <3>2. add = Recorded(copy[d]) /\ Good(copy[d])
      BY <3>1 DEF DictInv, FilesInv, CopiesInv, Resting
    <3>3. PICK m \in Copies : Good(m) /\ memo = Texted(m) /\ RuleTables(m) \subseteq copy[d].objs
      BY <3>1 DEF DictInv, FilesInv
    <3> QED
      BY <3>2, <3>3, LoadedIsSound DEF InFile, Good, Sound
  <2> QED
    BY <2>1, <2>2
<1>2. Loaded(InFile) \in Copies
  BY <1>1 DEF Sound
<1>3. /\ ~Here(c) /\ copy' = [copy EXCEPT ![c] = Loaded(InFile)]
      /\ UNCHANGED <<stage, add, memo, addNew, memoNew, changes>>
  BY DEF Connect
<1>4. CopiesInv'
  BY <1>1, <1>2, <1>3, NotGone DEF DictInv, CopiesInv, Here, Resting
<1>5. stage[c] = "idle"
  BY <1>3 DEF DictInv, CopiesInv, Resting
<1>6. \A d \in Conns : stage[d] # "idle" => copy'[d] = copy[d]
  BY <1>3, <1>5 DEF DictInv, CopiesInv
<1>7. InFile' = InFile
  BY <1>3 DEF InFile
<1>8. FilesInv'
  BY <1>3, <1>6, <1>7 DEF DictInv, FilesInv, SwapsMemo, FilesOf
<1> QED
  BY <1>1, <1>4, <1>8 DEF DictInv

LEMMA LeaveSteps ==
  ASSUME DictInv, NEW c \in Conns, Leave(c), Careful
  PROVE  DictInv'
<1>1. /\ Here(c) /\ stage[c] # "swap memo" /\ copy' = [copy EXCEPT ![c] = Gone]
      /\ stage' = [stage EXCEPT ![c] = "idle"] /\ UNCHANGED <<add, memo, addNew, memoNew, changes>>
  BY DEF Leave, May, Careful
<1>2. CopiesInv'
  BY <1>1 DEF DictInv, CopiesInv, Here, Resting
<1>3. /\ stage'[c] = "idle" /\ SwapsMemo' = SwapsMemo /\ InFile' = InFile
      /\ \A d \in Conns : d # c => copy'[d] = copy[d] /\ stage'[d] = stage[d]
  BY <1>1 DEF DictInv, CopiesInv, SwapsMemo, InFile
<1>4. FilesInv'
  BY <1>1, <1>3 DEF DictInv, FilesInv, FilesOf
<1> QED
  BY <1>2, <1>4 DEF DictInv

\* A careful client changes a good copy.
LEMMA ChangerIsGood ==
  ASSUME DictInv, NEW c \in Conns, NEW n \in Changes(copy[c]), Change(c, n), Careful,
         RuleTables(n) \subseteq n.objs, OneParent(n)
  PROVE  /\ Good(copy[c]) /\ Good(n) /\ Said(copy[c]) = InFile
         /\ RuleTables(InFile) \subseteq n.objs /\ \A d \in Conns : Resting(d)
<1>1. Here(c) /\ (\A d \in Conns : Resting(d)) /\ Said(copy[c]) = InFile
  BY DEF Change, May, Careful
<1>2. ~SwapsMemo
  BY <1>1 DEF SwapsMemo, Resting
<1>3. PICK m \in Copies : Good(m) /\ InFile = Said(m) /\ RulesOf(InFile) = RulesOf(m) /\ RuleTables(InFile) = RuleTables(m)
  BY <1>2, FileIsCopy
<1>4. Sound(copy[c])
  BY <1>1 DEF DictInv, CopiesInv
<1>5. copy[c].objs = m.objs /\ \A o \in m.objs : copy[c].text[o] = m.text[o]
  <2>1. Said(copy[c]).objs = Said(m).objs /\ Said(copy[c]).text = Said(m).text
    BY <1>1, <1>3
  <2>2. Said(copy[c]).objs = copy[c].objs /\ Said(m).objs = m.objs
    BY DEF Said
  <2>3. /\ \A o \in copy[c].objs : Said(copy[c]).text[o] = copy[c].text[o]
        /\ \A o \in m.objs : Said(m).text[o] = m.text[o]
    BY DEF Said
  <2> QED
    BY <2>1, <2>2, <2>3
<1>6. RulesOf(copy[c]) = RulesOf(m)
  BY <1>1, <1>3, SaidRules
<1>7. Good(copy[c])
  <2>1. OneParent(copy[c])
    BY <1>3, <1>6 DEF OneParent, Good
  <2>2. \A o \in Names : copy[c].text[o] \in Texts(o)
    BY <1>3, <1>4, <1>5 DEF Good, Sound, Placed
  <2> QED
    BY <1>4, <2>1, <2>2 DEF Good
<1>8. RuleTables(InFile) = RuleTables(copy[c])
  BY <1>1, SaidRules
<1> QED
  BY <1>1, <1>7, <1>8, ChangedIsGood

LEMMA ChangeSteps ==
  ASSUME DictInv, NEW c \in Conns, NEW n \in Changes(copy[c]), Change(c, n), Careful,
         RuleTables(n) \subseteq n.objs, OneParent(n)
  PROVE  DictInv'
<1>1. /\ Here(c) /\ Resting(c) /\ copy' = [copy EXCEPT ![c] = n] /\ stage' = [stage EXCEPT ![c] = "memo"]
      /\ addNew' = Recorded(n) /\ changes' = changes + 1 /\ UNCHANGED <<add, memo, memoNew>>
  BY DEF Change
<1>2. Good(n) /\ RuleTables(InFile) \subseteq n.objs /\ \A d \in Conns : stage[d] = "idle"
  BY ChangerIsGood DEF Resting
<1>3. n \in Copies /\ Sound(n)
  BY <1>2 DEF Good, Sound
<1>4. CopiesInv'
  <2>1. copy' = [copy EXCEPT ![c] = n] /\ stage' = [stage EXCEPT ![c] = "memo"]
    BY <1>1
  <2> HIDE <1>1
  <2> QED
    BY <1>2, <1>3, <2>1, NotGone DEF DictInv, CopiesInv, Here, Resting
<1>5. InFile' = InFile /\ ~SwapsMemo /\ ~SwapsMemo'
  BY <1>1, <1>2 DEF InFile, SwapsMemo, DictInv, CopiesInv
<1>6. /\ stage'[c] = "memo" /\ copy'[c] = n
      /\ \A d \in Conns : d # c => stage'[d] = "idle"
  BY <1>1, <1>2 DEF DictInv, CopiesInv
<1>7. FilesInv'
  BY <1>1, <1>2, <1>3, <1>5, <1>6 DEF DictInv, FilesInv, FilesOf
<1> QED
  BY <1>4, <1>7 DEF DictInv

LEMMA SaveMemoSteps ==
  ASSUME DictInv, NEW c \in Conns, SaveMemo(c)
  PROVE  DictInv'
<1>1. /\ stage[c] = "memo" /\ stage' = [stage EXCEPT ![c] = "swap add"]
      /\ memoNew' = Texted(copy[c]) /\ UNCHANGED <<copy, add, memo, addNew, changes>>
  BY DEF SaveMemo
<1>2. Good(copy[c]) /\ copy[c] \in Copies /\ \A d \in Conns : d # c => stage[d] = "idle"
  BY <1>1 DEF DictInv, CopiesInv, Resting, Good, Sound
<1>3. CopiesInv'
  BY <1>1, <1>2 DEF DictInv, CopiesInv, Here, Resting
<1>4. InFile' = InFile /\ ~SwapsMemo /\ ~SwapsMemo' /\ stage'[c] = "swap add"
      /\ \A d \in Conns : d # c => stage'[d] = "idle"
  BY <1>1, <1>2 DEF InFile, SwapsMemo, DictInv, CopiesInv
<1>5. FilesInv'
  BY <1>1, <1>2, <1>4 DEF DictInv, FilesInv, FilesOf
<1> QED
  BY <1>3, <1>5 DEF DictInv

LEMMA SwapAddSteps ==
  ASSUME DictInv, NEW c \in Conns, SwapAdd(c)
  PROVE  /\ DictInv' /\ addNew = Recorded(copy[c]) /\ Good(copy[c]) /\ stage' = [stage EXCEPT ![c] = "swap memo"]
         /\ UNCHANGED copy /\ stage[c] = "swap add" /\ ~SwapsMemo /\ \A d \in Conns : d # c => stage[d] = "idle"
<1>1. stage[c] = "swap add" /\ addNew = Recorded(copy[c]) /\ memoNew = Texted(copy[c])
      /\ RuleTables(InFile) \subseteq copy[c].objs
  BY DEF SwapAdd, DictInv, FilesInv
<1>2. Good(copy[c]) /\ copy[c] \in Copies /\ \A d \in Conns : d # c => stage[d] = "idle"
  BY <1>1 DEF DictInv, CopiesInv, Resting, Good, Sound
<1>3. addNew # None
  BY <1>1, <1>2, Records DEF Copies
<1>4. /\ stage' = [stage EXCEPT ![c] = "swap memo"] /\ add' = addNew /\ addNew' = None
      /\ UNCHANGED <<copy, memo, memoNew, changes>>
  BY <1>3 DEF SwapAdd
<1>5. CopiesInv'
  BY <1>1, <1>2, <1>4 DEF DictInv, CopiesInv, Here, Resting
<1>6. ~SwapsMemo /\ SwapsMemo'
  BY <1>1, <1>2, <1>4 DEF SwapsMemo, DictInv, CopiesInv
<1>7. PICK m \in Copies : Good(m) /\ FilesOf(m) /\ RuleTables(InFile) = RuleTables(m)
  BY <1>6, FileIsCopy
<1>8. /\ stage'[c] = "swap memo" /\ \A d \in Conns : d # c => stage'[d] = "idle"
      /\ memo' = Texted(m) /\ add' = Recorded(copy'[c]) /\ RuleTables(m) \subseteq copy'[c].objs
  BY <1>1, <1>2, <1>4, <1>7 DEF FilesOf, DictInv, CopiesInv
<1>9. FilesInv'
  BY <1>1, <1>4, <1>6, <1>7, <1>8 DEF DictInv, FilesInv, FilesOf
<1> QED
  BY <1>1, <1>2, <1>4, <1>5, <1>6, <1>9 DEF DictInv

LEMMA SwapMemoSteps ==
  ASSUME DictInv, NEW c \in Conns, SwapMemo(c)
  PROVE  /\ DictInv' /\ Good(copy[c]) /\ stage[c] = "swap memo" /\ stage' = [stage EXCEPT ![c] = "idle"]
         /\ UNCHANGED copy /\ \A d \in Conns : d # c => stage[d] = "idle"
         /\ ~SwapsMemo' /\ InFile' = Said(copy[c])
<1>1. stage[c] = "swap memo" /\ add = Recorded(copy[c]) /\ memoNew = Texted(copy[c])
  BY DEF SwapMemo, DictInv, FilesInv
<1>2. Good(copy[c]) /\ copy[c] \in Copies /\ \A d \in Conns : d # c => stage[d] = "idle"
  BY <1>1 DEF DictInv, CopiesInv, Resting, Good, Sound
<1>3. memoNew # None
  BY <1>1, <1>2, TextsOfCopy
<1>4. /\ stage' = [stage EXCEPT ![c] = "idle"] /\ memo' = memoNew /\ memoNew' = None
      /\ UNCHANGED <<copy, add, addNew, changes>>
  BY <1>3 DEF SwapMemo
<1>5. CopiesInv'
  BY <1>1, <1>2, <1>4 DEF DictInv, CopiesInv, Here, Resting
<1>6. \A d \in Conns : stage'[d] = "idle"
  BY <1>2, <1>4 DEF DictInv, CopiesInv
<1>7. ~SwapsMemo' /\ FilesOf(copy[c])'
  BY <1>1, <1>4, <1>6 DEF SwapsMemo, FilesOf
<1>8. \E m \in Copies : Good(m) /\ FilesOf(m)'
  BY <1>1, <1>2, <1>4 DEF FilesOf
<1>9. FilesInv'
  BY <1>4, <1>6, <1>8 DEF DictInv, FilesInv, FilesOf
<1>10. InFile' = Said(copy[c])
  BY <1>1, <1>2, <1>4, FilesTellCopy DEF InFile, Good
<1> QED
  BY <1>1, <1>2, <1>4, <1>5, <1>7, <1>9, <1>10 DEF DictInv

\* One connection has another text for a table, and the same rules.
RulesStay(c) ==
  /\ copy'[c].objs = copy[c].objs /\ Here(c)' = Here(c)
  /\ \A n \in Of("RI") : copy'[c].text[n] = copy[c].text[n]
LEMMA PropertySteps ==
  ASSUME DictInv, NEW c \in Conns, NEW t \in Of("Table"), NEW text \in {Plain("Table"), Keyed},
         SetTableProperty(c, t, text)
  PROVE  /\ DictInv' /\ UNCHANGED <<stage, add, memo, addNew, memoNew>> /\ Resting(c)
         /\ (\A d \in Conns : d # c => copy'[d] = copy[d]) /\ \A d \in Conns : RulesStay(d)
<1> DEFINE m == copy[c]
           n == [m EXCEPT !.text[t] = text]
<1>1. /\ Here(c) /\ Resting(c) /\ copy' = [copy EXCEPT ![c] = n] /\ UNCHANGED <<stage, add, memo, addNew, memoNew>>
  BY DEF SetTableProperty
<1>2. Sound(m) /\ m \in Copies /\ copy \in [Conns -> Copies \cup {Gone}]
  BY <1>1 DEF DictInv, CopiesInv, Sound
<1>3. t \in Names /\ Kind[t] = "Table" /\ text \in Texts(t) /\ text \in AllTexts
  <2>1. t \in Names /\ Kind[t] = "Table"
    BY DEF Of
  <2>2. text \in Texts(t)
    BY <2>1 DEF Texts
  <2> QED
    BY <2>1, <2>2 DEF AllTexts
<1>4. /\ n \in Copies /\ n.objs = m.objs /\ n.text[t] = text
      /\ \A o \in Names : o # t => n.text[o] = m.text[o]
  BY <1>2, <1>3 DEF Copies
<1> HIDE DEF n
<1>5. \A o \in Of("RI") : o \in Names /\ o # t /\ n.text[o] = m.text[o]
  BY <1>3, <1>4 DEF Of
<1>6. Sound(n)
  <2>1. RulesOf(n) = RulesOf(m)
    BY <1>4, <1>5 DEF RulesOf
  <2>2. RuleTables(n) \subseteq n.objs
    BY <1>2, <1>4, <2>1 DEF Sound, RuleTables
  <2>3. Placed(n)
    BY <1>2, <1>3, <1>4 DEF Sound, Placed
  <2> QED
    BY <1>2, <1>3, <1>4, <2>2, <2>3 DEF Sound
<1>7. n # Gone /\ copy'[c] = n /\ \A d \in Conns : d # c => copy'[d] = copy[d]
  <2>1. Gone \notin Copies
    BY ObjectsAssumption DEF Copies
  <2> QED
    BY <1>1, <1>2, <1>4, <2>1
<1>8. CopiesInv'
  BY <1>1, <1>2, <1>4, <1>6, <1>7 DEF DictInv, CopiesInv, Here, Resting
<1>9. FilesInv'
  <2>1. \A d \in Conns : stage[d] # "idle" => copy'[d] = copy[d]
    BY <1>1, <1>7 DEF Resting
  <2> QED
    BY <1>1, <2>1 DEF DictInv, FilesInv, SwapsMemo, FilesOf, InFile
<1>10. \A d \in Conns : RulesStay(d)
  BY <1>1, <1>4, <1>5, <1>7 DEF RulesStay, Here
<1> QED
  BY <1>1, <1>7, <1>8, <1>9, <1>10 DEF DictInv

LEMMA DictStays ==
  ASSUME DictInv, UNCHANGED dictVars
  PROVE  DictInv'
BY DEF dictVars, DictInv, CopiesInv, FilesInv, Here, Resting, SwapsMemo, FilesOf, InFile

---------------------------------------------------------------------------
(* Rows and rules, whatever the state *)

Present(k) == Row(TRUE, k)
Absent(k) == Row(FALSE, k)
LiveIn(rs, t, k) == {i \in DOMAIN rs[t] : rs[t][i] = Present(k)}
Holds(rs, rules) ==
  \A r \in rules : \A i \in DOMAIN rs[r.child] :
    rs[r.child][i].live /\ rs[r.child][i].key # Blank => LiveIn(rs, r.parent, rs[r.child][i].key) # {}

\* A table after a rule acted on its rows with key k, and a rule that has made
\* its table that.
ActedOn(s, option, op, k, new) ==
  [i \in DOMAIN s |-> IF s[i] = Present(k) THEN Acted(s[i], option, op, new) ELSE s[i]]
Made(s, w, r, op, k, new) ==
  r[op] # "restrict" /\ w[r.child] = ActedOn(s[r.child], r[op], op, k, new)
\* What a call on table t has come to, from rows s to rows w: every other table is
\* as it was or as a rule makes it, and a rule is still to come, had nothing to
\* refuse, or has made its table what it should be.
TablesMade(s, w, rs, t, op, k, new) ==
  \A u \in Tables : u # t => w[u] = s[u] \/ \E r \in rs : r.child = u /\ Made(s, w, r, op, k, new)
RulesMet(s, w, rs, coming, op, k, new) ==
  \A r \in rs : \/ r \in coming
                \/ r[op] = "restrict" /\ LiveIn(s, r.child, k) = {}
                \/ Made(s, w, r, op, k, new)
\* No two rules want different things of the same rows, or of others when one of
\* them refuses; and no rule acts on rows that others refer to.
Unmixed(s, rs, op, k) ==
  \A q, r \in rs : q[op] # r[op] /\ (q.child = r.child \/ q[op] = "restrict")
                   => LiveIn(s, q.child, k) = {} \/ LiveIn(s, r.child, k) = {}
Unchained(s, rules, t, k) ==
  \A r \in rules : r.parent = t =>
    /\ r.child # t
    /\ LiveIn(s, r.child, k) # {} => \A q \in rules : q.parent = r.child => LiveIn(s, q.child, k) = {}
From(rules, t) == {r \in rules : r.parent = t}
RowsType == [Tables -> Seq(RowType)]

LEMMA RuleShape ==
  ASSUME NEW r \in RuleTexts
  PROVE  /\ r.parent \in Tables /\ r.child \in Tables
         /\ r.upd \in {"cascade", "setnull", "restrict"} /\ r.del \in {"cascade", "setnull", "restrict"}
         /\ r["upd"] = r.upd /\ r["del"] = r.del
BY ObjectsAssumption, RefIntegrityAssumption

LEMMA RowShape ==
  /\ \A x \in RowType : x.live \in BOOLEAN /\ x.key \in Keys \cup {Blank} /\ x = Row(x.live, x.key)
  /\ \A live \in BOOLEAN, key \in Keys \cup {Blank} :
       Row(live, key) \in RowType /\ Row(live, key).live = live /\ Row(live, key).key = key
BY DEF RowType, Row

LEMMA KeyShape ==
  ASSUME NEW k \in Keys \cup {Blank}
  PROVE  /\ Present(k) \in RowType /\ Present(k).live = TRUE /\ Present(k).key = k
         /\ Absent(k) \in RowType /\ Absent(k).live = FALSE /\ Absent(k).key = k
BY DEF RowType, Row, Present, Absent

LEMMA LiveRow ==
  ASSUME NEW x \in RowType
  PROVE  /\ x.live => x = Present(x.key)
         /\ ~x.live => x = Absent(x.key)
BY DEF RowType, Row, Present, Absent

LEMMA RowEdits ==
  ASSUME NEW row \in RowType
  PROVE  /\ \A key \in Keys \cup {Blank} : [row EXCEPT !.key = key] = Row(row.live, key)
         /\ \A live \in BOOLEAN : [row EXCEPT !.live = live] = Row(live, row.key)
<1>1. ASSUME NEW key \in Keys \cup {Blank} PROVE [row EXCEPT !.key = key] = Row(row.live, key)
  <2>1. [row EXCEPT !.key = key] = [live |-> row.live, key |-> key]
    BY DEF RowType
  <2> QED
    BY <2>1 DEF Row
<1>2. ASSUME NEW live \in BOOLEAN PROVE [row EXCEPT !.live = live] = Row(live, row.key)
  BY DEF RowType, Row
<1> QED
  BY <1>1, <1>2

LEMMA ActedRow ==
  ASSUME NEW option \in {"cascade", "setnull"}, NEW op \in {"upd", "del"}, NEW k \in Keys,
         NEW new \in Keys \cup {Blank}
  PROVE  Acted(Present(k), option, op, new) =
           IF option = "setnull" THEN Present(Blank) ELSE IF op = "del" THEN Absent(k) ELSE Present(new)
<1>1. Present(k) \in RowType /\ Present(k).live = TRUE /\ Present(k).key = k
  BY KeyShape
<1> DEFINE row == Present(k)
           e == Acted(row, option, op, new)
<1>2. CASE option = "setnull"
  <2>1. e = [row EXCEPT !.key = Blank]
    BY <1>2 DEF Acted
  <2>2. e = Row(row.live, Blank)
    BY <1>1, <2>1, RowEdits
  <2> QED
    BY <1>1, <1>2, <2>2 DEF Present
<1>3. CASE option = "cascade" /\ op = "del"
  <2>1. e = [row EXCEPT !.live = FALSE]
    BY <1>3 DEF Acted
  <2>2. \A live \in BOOLEAN : [row EXCEPT !.live = live] = Row(live, row.key)
    BY <1>1, RowEdits
  <2>3. e = Row(FALSE, k)
    BY <1>1, <2>1, <2>2
  <2> QED
    BY <1>3, <2>3 DEF Absent
<1>4. CASE option = "cascade" /\ op = "upd"
  <2>1. e = [row EXCEPT !.key = new]
    BY <1>4 DEF Acted
  <2>2. e = Row(row.live, new)
    BY <1>1, <2>1, RowEdits
  <2> QED
    BY <1>1, <1>4, <2>2 DEF Present
<1> QED
  BY <1>2, <1>3, <1>4

\* What a rule does to table s: it changes the rows with the key, leaves the
\* others, and none of them has the key any more.
Changed(a, s, option, op, k, new) ==
  /\ a \in Seq(RowType) /\ DOMAIN a = DOMAIN s /\ Len(a) = Len(s)
  /\ \A i \in DOMAIN s :
       /\ s[i] # Present(k) => a[i] = s[i]
       /\ a[i] # Present(k)
       /\ s[i] = Present(k) =>
            a[i] = IF option = "setnull" THEN Present(Blank)
                   ELSE IF op = "del" THEN Absent(k) ELSE Present(new)
LEMMA ActedRows ==
  ASSUME NEW s \in Seq(RowType), NEW option \in {"cascade", "setnull"}, NEW op \in {"upd", "del"},
         NEW k \in Keys, NEW new \in Keys \cup {Blank}, op = "upd" => new # k
  PROVE  Changed(ActedOn(s, option, op, k, new), s, option, op, k, new)
<1> DEFINE a == ActedOn(s, option, op, k, new)
<1>1. Blank \notin Keys
  BY RefIntegrityAssumption
<1>2. Acted(Present(k), option, op, new) = IF option = "setnull" THEN Present(Blank)
                                             ELSE IF op = "del" THEN Absent(k) ELSE Present(new)
  BY ActedRow
<1>3. /\ DOMAIN a = DOMAIN s
      /\ \A i \in DOMAIN s : a[i] = IF s[i] = Present(k) THEN Acted(Present(k), option, op, new) ELSE s[i]
  BY DEF ActedOn
<1>4. Present(Blank) # Present(k) /\ Absent(k) # Present(k) /\ (op = "upd" => Present(new) # Present(k))
  <2>1. Present(k).key = k /\ Present(k).live = TRUE
    BY KeyShape
  <2>2. Present(Blank).key = Blank /\ Present(new).key = new /\ Absent(k).live = FALSE
    BY KeyShape
  <2> QED
    BY <1>1, <2>1, <2>2
<1>5. Present(Blank) \in RowType /\ Absent(k) \in RowType /\ Present(new) \in RowType
  BY KeyShape
<1>6. DOMAIN s = 1..Len(s) /\ Len(s) \in Nat /\ \A i \in DOMAIN s : s[i] \in RowType
  OBVIOUS
<1> HIDE DEF a
<1>7. \A i \in DOMAIN s : a[i] \in RowType
  BY <1>2, <1>3, <1>5, <1>6
<1>8. a \in [1..Len(s) -> RowType]
  <2>1. a = [i \in DOMAIN s |-> a[i]]
    BY DEF a, ActedOn
  <2> QED
    BY <1>3, <1>6, <1>7, <2>1
<1>9. a \in Seq(RowType) /\ Len(a) = Len(s)
  BY <1>6, <1>8
<1>10. \A i \in DOMAIN s : /\ s[i] # Present(k) => a[i] = s[i]
                           /\ s[i] = Present(k) =>
                                a[i] = IF option = "setnull" THEN Present(Blank)
                                       ELSE IF op = "del" THEN Absent(k) ELSE Present(new)
  BY <1>2, <1>3
<1>11. \A i \in DOMAIN s : a[i] # Present(k)
  <2> SUFFICES ASSUME NEW i \in DOMAIN s PROVE a[i] # Present(k)
    OBVIOUS
  <2>1. CASE s[i] # Present(k)
    <3>1. a[i] = s[i]
      BY <1>10, <2>1
    <3> QED
      BY <2>1, <3>1
  <2>2. CASE s[i] = Present(k)
    <3>1. a[i] \in {Present(Blank), Absent(k)} \/ (op = "upd" /\ a[i] = Present(new))
      BY <1>10, <2>2
    <3> QED
      BY <1>4, <3>1
  <2> QED
    BY <2>1, <2>2
<1> QED
  BY <1>3, <1>9, <1>10, <1>11 DEF a, Changed

\* A rule that finds no row leaves its table as it is.
LEMMA ActedOnNone ==
  ASSUME NEW s \in Seq(RowType), NEW option, NEW op, NEW k, NEW new, \A i \in DOMAIN s : s[i] # Present(k)
  PROVE  ActedOn(s, option, op, k, new) = s
<1>1. ActedOn(s, option, op, k, new) = [i \in DOMAIN s |-> s[i]]
  BY DEF ActedOn
<1>2. s = [i \in DOMAIN s |-> s[i]]
  OBVIOUS
<1> QED
  BY <1>1, <1>2

LEMMA RowsShape ==
  ASSUME NEW s \in RowsType, NEW t \in Tables
  PROVE  /\ s[t] \in Seq(RowType) /\ DOMAIN s[t] = 1..Len(s[t]) /\ Len(s[t]) \in Nat
         /\ \A i \in DOMAIN s[t] : s[t][i] \in RowType
<1>1. s[t] \in Seq(RowType)
  BY DEF RowsType
<1> QED
  BY <1>1

\* References are kept: every live row has, for each rule, a live row of its key.
LEMMA HoldsRows ==
  ASSUME NEW s \in RowsType, NEW rules \in SUBSET RuleTexts
  PROVE  Holds(s, rules) <=>
           \A r \in rules, k \in Keys : LiveIn(s, r.child, k) # {} => LiveIn(s, r.parent, k) # {}
<1>1. Blank \notin Keys
  BY RefIntegrityAssumption
<1>2. ASSUME Holds(s, rules), NEW r \in rules, NEW k \in Keys, LiveIn(s, r.child, k) # {}
      PROVE  LiveIn(s, r.parent, k) # {}
  <2>1. r.child \in Tables
    BY RuleShape
  <2>2. PICK i : i \in LiveIn(s, r.child, k)
    BY <1>2
  <2>3. i \in DOMAIN s[r.child] /\ s[r.child][i].live /\ s[r.child][i].key = k
    <3>1. i \in DOMAIN s[r.child] /\ s[r.child][i] = Present(k)
      BY <2>2 DEF LiveIn
    <3>2. Present(k).live /\ Present(k).key = k
      BY KeyShape
    <3> QED
      BY <3>1, <3>2
  <2> QED
    BY <1>1, <1>2, <2>3 DEF Holds
<1>3. ASSUME \A r \in rules, k \in Keys : LiveIn(s, r.child, k) # {} => LiveIn(s, r.parent, k) # {},
             NEW r \in rules, NEW i \in DOMAIN s[r.child], s[r.child][i].live, s[r.child][i].key # Blank
      PROVE  LiveIn(s, r.parent, s[r.child][i].key) # {}
  <2> DEFINE k == s[r.child][i].key
  <2>1. r.child \in Tables
    BY RuleShape
  <2>2. k \in Keys
    <3>1. s[r.child][i] \in RowType
      BY <1>3, <2>1, RowsShape
    <3> QED
      BY <1>3, <3>1, RowShape
  <2> HIDE DEF k
  <2>3. i \in LiveIn(s, r.child, k)
    <3>1. s[r.child][i].live /\ s[r.child][i].key = k /\ s[r.child][i] \in RowType
      BY <1>3, <2>1, RowsShape DEF k
    <3>2. s[r.child][i] = Present(k)
      BY <3>1, LiveRow
    <3> QED
      BY <1>3, <3>2 DEF LiveIn
  <2>4. LiveIn(s, r.parent, k) # {}
    BY <1>3, <2>2, <2>3
  <2> QED
    BY <2>4 DEF k
<1> QED
  BY <1>2, <1>3 DEF Holds

\* A call that changes one table alone keeps the references, if what is live in
\* it refers, and no key that others refer to is gone.
OneChanged(s, w, rules, t) ==
  /\ \A u \in Tables : u # t => w[u] = s[u]
  /\ \A r \in rules, k \in Keys : r.child = t /\ r.parent # t /\ LiveIn(w, t, k) # {} => LiveIn(s, r.parent, k) # {}
  /\ \A r \in rules, k \in Keys : r.parent = t /\ r.child # t /\ LiveIn(s, t, k) # {} /\ LiveIn(s, r.child, k) # {}
                                  => LiveIn(w, t, k) # {}
LEMMA OneTable ==
  ASSUME NEW s \in RowsType, NEW w \in RowsType, NEW rules \in SUBSET RuleTexts, NEW t \in Tables,
         Holds(s, rules), OneChanged(s, w, rules, t)
  PROVE  Holds(w, rules)
<1>1. ASSUME NEW r \in rules, NEW k \in Keys, LiveIn(w, r.child, k) # {} PROVE LiveIn(w, r.parent, k) # {}
  <2>1. r.child \in Tables /\ r.parent \in Tables
    BY RuleShape
  <2>2. \A u \in Tables : u # t => LiveIn(w, u, k) = LiveIn(s, u, k)
    BY DEF LiveIn, OneChanged
  <2>3. LiveIn(s, r.child, k) # {} => LiveIn(s, r.parent, k) # {}
    BY HoldsRows
  <2> QED
    BY <1>1, <2>1, <2>2, <2>3 DEF OneChanged
<1> QED
  BY <1>1, HoldsRows

\* Rules, as long as they name one parent for a child.
Single(rules) == \A q, r \in rules : q.child = r.child => q.parent = r.parent

\* A table that a rule acted on: it has the rows it had, but those with the key.
MadeTable(s, w, u, op, k, new) ==
  /\ w[u] \in Seq(RowType) /\ Len(w[u]) = Len(s[u])
  /\ LiveIn(w, u, k) = {}
  /\ \A x \in Keys : LiveIn(s, u, x) # {} /\ x # k => LiveIn(w, u, x) # {}
  /\ \A x \in Keys : LiveIn(w, u, x) # {} => \/ LiveIn(s, u, x) # {}
                                             \/ op = "upd" /\ x = new /\ LiveIn(s, u, k) # {}
  /\ LiveIn(s, u, k) = {} => w[u] = s[u]
LEMMA MadeRows ==
  ASSUME NEW s \in RowsType, NEW w, NEW r \in RuleTexts, NEW op \in {"upd", "del"},
         NEW k \in Keys, NEW new \in Keys \cup {Blank}, op = "upd" => new # k, Made(s, w, r, op, k, new)
  PROVE  MadeTable(s, w, r.child, op, k, new)
<1> DEFINE u == r.child
           a == s[u]
           option == r[op]
           b == ActedOn(a, option, op, k, new)
<1>1. u \in Tables /\ option \in {"cascade", "setnull"}
  BY RuleShape DEF Made
<1>2. w[u] = b
  BY DEF Made
<1>3. a \in Seq(RowType)
  BY <1>1, RowsShape
<1> HIDE DEF a, option
<1>4. /\ b \in Seq(RowType) /\ DOMAIN b = DOMAIN a /\ Len(b) = Len(a)
      /\ \A i \in DOMAIN a :
           /\ a[i] # Present(k) => b[i] = a[i]
           /\ b[i] # Present(k)
           /\ a[i] = Present(k) =>
                b[i] = IF option = "setnull" THEN Present(Blank)
                       ELSE IF op = "del" THEN Absent(k) ELSE Present(new)
  <2>1. Changed(b, a, option, op, k, new)
    BY <1>1, <1>3, ActedRows
  <2> QED
    BY <2>1 DEF Changed
<1>5. LiveIn(s, u, k) = {} => b = a
  <2>1. ASSUME LiveIn(s, u, k) = {} PROVE \A i \in DOMAIN a : a[i] # Present(k)
    BY <2>1 DEF LiveIn, a
  <2> QED
    BY <1>3, <2>1, ActedOnNone
<1> HIDE DEF b
<1>6. \A x : LiveIn(w, u, x) = {i \in DOMAIN a : b[i] = Present(x)} /\ LiveIn(s, u, x) = {i \in DOMAIN a : a[i] = Present(x)}
  BY <1>2, <1>4 DEF LiveIn, a
<1>7. \A x, y \in Keys \cup {Blank} : Present(x) = Present(y) => x = y
  BY KeyShape
<1>8. ASSUME NEW x \in Keys, x # k, NEW i \in DOMAIN a, a[i] = Present(x) PROVE b[i] = Present(x)
  BY <1>4, <1>7, <1>8
<1>9. ASSUME NEW x \in Keys, NEW i \in DOMAIN a, b[i] = Present(x), a[i] # Present(x)
      PROVE  op = "upd" /\ x = new /\ a[i] = Present(k)
  <2>1. a[i] = Present(k)
    BY <1>4, <1>9
  <2>2. x # Blank
    BY RefIntegrityAssumption
  <2>3. Present(x) # Present(Blank) /\ Present(x) # Absent(k)
    <3>1. Present(x).key = x /\ Present(x).live = TRUE
      BY KeyShape
    <3>2. Present(Blank).key = Blank /\ Absent(k).live = FALSE
      BY KeyShape
    <3> QED
      BY <2>2, <3>1, <3>2
  <2>4. op # "del" /\ b[i] = Present(new)
    BY <1>4, <1>9, <2>1, <2>3
  <2> QED
    BY <1>7, <1>9, <2>1, <2>4
<1>10. LiveIn(w, u, k) = {}
  BY <1>4, <1>6
<1>11. \A x \in Keys : LiveIn(s, u, x) # {} /\ x # k => LiveIn(w, u, x) # {}
  BY <1>6, <1>8
<1>12. ASSUME NEW x \in Keys, LiveIn(w, u, x) # {}, LiveIn(s, u, x) = {}
       PROVE  op = "upd" /\ x = new /\ LiveIn(s, u, k) # {}
  <2>1. PICK i \in DOMAIN a : b[i] = Present(x)
    BY <1>6, <1>12
  <2>2. a[i] # Present(x)
    BY <1>6, <1>12
  <2> QED
    BY <1>6, <1>9, <2>1, <2>2
<1>13. w[u] \in Seq(RowType) /\ Len(w[u]) = Len(s[u]) /\ (LiveIn(s, u, k) = {} => w[u] = s[u])
  BY <1>2, <1>4, <1>5 DEF a
<1> QED
  BY <1>10, <1>11, <1>12, <1>13 DEF MadeTable

\* What became of another table, in a call that applies the rules rs.
Other(s, w, rs, u, op, k, new) ==
  /\ Len(w[u]) = Len(s[u])
  /\ \A x \in Keys : LiveIn(s, u, x) # {} /\ x # k => LiveIn(w, u, x) # {}
  /\ \A x \in Keys : LiveIn(w, u, x) # {} => \/ LiveIn(s, u, x) # {}
                                             \/ op = "upd" /\ x = new /\ \E q \in rs : q.child = u
  /\ w[u] = s[u] \/ \E q \in rs : q.child = u /\ LiveIn(s, u, k) # {} /\ q[op] # "restrict"
LEMMA OtherTables ==
  ASSUME NEW s \in RowsType, NEW w \in RowsType, NEW rs \in SUBSET RuleTexts, NEW t \in Tables,
         NEW op \in {"upd", "del"}, NEW k \in Keys, NEW new \in Keys \cup {Blank}, op = "upd" => new # k,
         TablesMade(s, w, rs, t, op, k, new), NEW u \in Tables, u # t
  PROVE  Other(s, w, rs, u, op, k, new)
<1>1. CASE w[u] = s[u]
  BY <1>1 DEF LiveIn, Other
<1>2. CASE w[u] # s[u]
  <2>1. PICK q \in rs : q.child = u /\ Made(s, w, q, op, k, new)
    BY <1>2 DEF TablesMade
  <2>2. q[op] # "restrict"
    BY <2>1 DEF Made
  <2>3. MadeTable(s, w, u, op, k, new)
    BY <2>1, MadeRows
  <2> QED
    BY <1>2, <2>1, <2>2, <2>3 DEF MadeTable, Other
<1> QED
  BY <1>1, <1>2

\* What the call did to its own table: from s, and start when its rules began, to w.
OwnTable(s, w, start, rules, t, op, k, new) ==
  /\ \A u \in Tables : u # t => start[u] = s[u]
  /\ \A x \in Keys : LiveIn(w, t, x) # {} => LiveIn(start, t, x) # {}
  /\ \A r \in rules, x \in Keys :
       r.child = t /\ r.parent # t /\ LiveIn(w, t, x) # {} => LiveIn(s, r.parent, x) # {}
  /\ From(rules, t) # {} =>
       \A x \in Keys : (LiveIn(s, t, x) # {} /\ x # k) \/ (op = "upd" /\ x = new) => LiveIn(w, t, x) # {}

\* A call that ran its rules to the end keeps the references.
LEMMA AfterCall ==
  ASSUME NEW s \in RowsType, NEW w \in RowsType, NEW start \in RowsType, NEW rules \in SUBSET RuleTexts,
         NEW t \in Tables, NEW op \in {"upd", "del"}, NEW k \in Keys, NEW new \in Keys \cup {Blank},
         op = "upd" => new # k, Single(rules), Holds(s, rules),
         TablesMade(s, w, From(rules, t), t, op, k, new), RulesMet(s, w, From(rules, t), {}, op, k, new),
         Unchained(start, rules, t, k), OwnTable(s, w, start, rules, t, op, k, new)
  PROVE  Holds(w, rules)
<1> DEFINE rs == From(rules, t)
<1>1. rs \in SUBSET RuleTexts /\ \A r : r \in rs <=> r \in rules /\ r.parent = t
  BY DEF From
<1>6. rs # {} =>
        \A x \in Keys : (LiveIn(s, t, x) # {} /\ x # k) \/ (op = "upd" /\ x = new) => LiveIn(w, t, x) # {}
  BY DEF OwnTable
<1> HIDE DEF rs
<1>2. TablesMade(s, w, rs, t, op, k, new) /\ RulesMet(s, w, rs, {}, op, k, new)
  BY DEF rs
<1>3. ASSUME NEW u \in Tables, u # t
      PROVE  /\ \A x \in Keys : LiveIn(s, u, x) # {} /\ x # k => LiveIn(w, u, x) # {}
             /\ \A x \in Keys : LiveIn(w, u, x) # {} => \/ LiveIn(s, u, x) # {}
                                                        \/ op = "upd" /\ x = new /\ \E q \in rs : q.child = u
             /\ LiveIn(w, u, k) = LiveIn(s, u, k) \/ \E q \in rs : q.child = u /\ LiveIn(s, u, k) # {}
             /\ LiveIn(start, u, k) = LiveIn(s, u, k)
  <2>1. w[u] = s[u] => LiveIn(w, u, k) = LiveIn(s, u, k)
    BY DEF LiveIn
  <2>2. LiveIn(start, u, k) = LiveIn(s, u, k)
    BY <1>3 DEF LiveIn, OwnTable
  <2>3. Other(s, w, rs, u, op, k, new)
    BY <1>1, <1>2, <1>3, OtherTables
  <2> QED
    BY <2>1, <2>2, <2>3 DEF Other
<1>4. \A q \in rs : LiveIn(start, q.child, k) # {} =>
        \A r \in rules : r.parent = q.child => LiveIn(start, r.child, k) = {}
  BY <1>1 DEF Unchained
<1>5. ASSUME NEW r \in rules, NEW x \in Keys, LiveIn(w, r.child, x) # {} PROVE LiveIn(w, r.parent, x) # {}
  <2>1. r.child \in Tables /\ r.parent \in Tables
    BY RuleShape
  <2>2. CASE r.child = r.parent
    BY <1>5, <2>2
  <2>3. CASE r.parent = t /\ r.child # t
    <3>1. r \in rs
      BY <1>1, <2>3
    <3>2. CASE op = "upd" /\ x = new
      BY <1>1, <1>6, <2>3, <3>1, <3>2
    <3>3. CASE LiveIn(s, r.child, x) # {}
      <4>1. LiveIn(s, t, x) # {}
        BY <2>3, <3>3, HoldsRows
      <4>2. x # k
        <5>1. \/ r[op] = "restrict" /\ LiveIn(s, r.child, k) = {}
              \/ Made(s, w, r, op, k, new)
          BY <1>2, <3>1 DEF RulesMet
        <5>2. Made(s, w, r, op, k, new) => MadeTable(s, w, r.child, op, k, new)
          BY MadeRows
        <5> QED
          BY <1>5, <3>3, <5>1, <5>2 DEF MadeTable
      <4> QED
        BY <1>6, <2>3, <3>1, <4>1, <4>2
    <3> QED
      BY <1>3, <1>5, <2>1, <2>3, <3>2, <3>3
  <2>4. CASE r.parent # t /\ r.child = t
    <3>1. LiveIn(s, r.parent, x) # {}
      BY <1>5, <2>4 DEF OwnTable
    <3>2. CASE x # k
      BY <1>3, <2>1, <2>4, <3>1, <3>2
    <3>3. CASE x = k
      <4>1. LiveIn(start, t, k) # {}
        BY <1>5, <2>4, <3>3 DEF OwnTable
      <4>2. ~ \E q \in rs : q.child = r.parent /\ LiveIn(s, r.parent, k) # {}
        BY <1>3, <1>4, <2>1, <2>4, <4>1
      <4> QED
        BY <1>3, <2>1, <2>4, <3>1, <3>3, <4>2
    <3> QED
      BY <3>2, <3>3
  <2>5. CASE r.parent # t /\ r.child # t
    <3>1. ~ \E q \in rs : q.child = r.child
      BY <1>1, <2>5 DEF Single
    <3>2. LiveIn(s, r.child, x) # {}
      BY <1>3, <1>5, <2>1, <2>5, <3>1
    <3>3. LiveIn(s, r.parent, x) # {}
      BY <3>2, HoldsRows
    <3>4. CASE x # k
      BY <1>3, <2>1, <2>5, <3>3, <3>4
    <3>5. CASE x = k
      <4>1. LiveIn(start, r.child, k) # {}
        BY <1>3, <2>1, <2>5, <3>2, <3>5
      <4>2. ~ \E q \in rs : q.child = r.parent /\ LiveIn(s, r.parent, k) # {}
        BY <1>3, <1>4, <2>1, <2>5, <4>1
      <4> QED
        BY <1>3, <2>1, <2>5, <3>3, <3>5, <4>2
    <3> QED
      BY <3>4, <3>5
  <2> QED
    BY <2>2, <2>3, <2>4, <2>5
<1> QED
  BY <1>5, HoldsRows

\* A call that is refused has changed no table but its own.
Refused(s, w, t, u, k) == LiveIn(s, u, k) # {} /\ \A y \in Tables : y # t => w[y] = s[y]
LEMMA RefusedRows ==
  ASSUME NEW s \in RowsType, NEW w \in RowsType, NEW rs \in SUBSET RuleTexts, NEW t \in Tables,
         NEW op \in {"upd", "del"}, NEW k \in Keys, NEW new \in Keys \cup {Blank}, op = "upd" => new # k,
         TablesMade(s, w, rs, t, op, k, new), Unmixed(s, rs, op, k),
         NEW r \in rs, r[op] = "restrict", r.child # t, LiveIn(w, r.child, k) # {}
  PROVE  Refused(s, w, t, r.child, k)
<1>1. r.child \in Tables
  BY RuleShape
<1>2. \A u \in Tables : u # t => Other(s, w, rs, u, op, k, new)
  BY OtherTables
<1>3. LiveIn(s, r.child, k) # {}
  <2>1. ~ Made(s, w, r, op, k, new)
    BY DEF Made
  <2>2. w[r.child] = s[r.child] \/ \E q \in rs : q.child = r.child /\ LiveIn(s, r.child, k) # {}
    BY <1>1, <1>2 DEF Other
  <2> QED
    BY <2>2 DEF LiveIn
<1>4. ASSUME NEW u \in Tables, u # t PROVE w[u] = s[u]
  <2>1. SUFFICES ASSUME NEW q \in rs, q.child = u, LiveIn(s, u, k) # {}, q[op] # "restrict" PROVE FALSE
    BY <1>2, <1>4 DEF Other
  <2>2. r[op] # q[op] /\ r[op] = "restrict"
    BY <2>1
  <2> QED
    BY <1>3, <2>1, <2>2 DEF Unmixed
<1> QED
  BY <1>3, <1>4 DEF Refused

\* One rule more: v is what it makes of w.
OneMore(s, w, v, rs, t, u, op, k, new, left) ==
  /\ v \in RowsType /\ v[t] = w[t] /\ v[u] \in Seq(RowType) /\ Len(v[u]) = Len(w[u])
  /\ \A y \in Tables : y # u => v[y] = w[y]
  /\ TablesMade(s, v, rs, t, op, k, new) /\ RulesMet(s, v, rs, left, op, k, new)
LEMMA AppliedRule ==
  ASSUME NEW s \in RowsType, NEW w \in RowsType, NEW rs \in SUBSET RuleTexts, NEW t \in Tables,
         NEW op \in {"upd", "del"}, NEW k \in Keys, NEW new \in Keys \cup {Blank}, op = "upd" => new # k,
         NEW coming, NEW left, NEW r \in rs, coming \subseteq left \cup {r}, r.child # t,
         TablesMade(s, w, rs, t, op, k, new), RulesMet(s, w, rs, coming, op, k, new), Unmixed(s, rs, op, k),
         r[op] = "restrict" => LiveIn(w, r.child, k) = {},
         NEW v, v = [w EXCEPT ![r.child] = IF r[op] = "restrict" THEN w[r.child]
                                           ELSE ActedOn(w[r.child], r[op], op, k, new)]
  PROVE  OneMore(s, w, v, rs, t, r.child, op, k, new, left)
<1> DEFINE u == r.child
           option == r[op]
<1>1. u \in Tables /\ t \in Tables /\ u # t /\ option \in {"cascade", "setnull", "restrict"}
  BY RuleShape
<1>2. /\ v[u] = IF option = "restrict" THEN w[u] ELSE ActedOn(w[u], option, op, k, new)
      /\ \A y \in Tables : y # u => v[y] = w[y]
      /\ DOMAIN v = Tables
  BY <1>1 DEF RowsType
<1>3. w[u] \in Seq(RowType) /\ s[u] \in Seq(RowType) /\ Other(s, w, rs, u, op, k, new)
  <2>1. w[u] \in Seq(RowType) /\ s[u] \in Seq(RowType)
    BY <1>1, RowsShape
  <2>2. \A y \in Tables : y # t => Other(s, w, rs, y, op, k, new)
    BY OtherTables
  <2> QED
    BY <1>1, <2>1, <2>2
<1>4. option # "restrict" => Changed(ActedOn(w[u], option, op, k, new), w[u], option, op, k, new)
  BY <1>1, <1>3, ActedRows
<1>5. v[u] \in Seq(RowType) /\ Len(v[u]) = Len(w[u])
  BY <1>2, <1>3, <1>4 DEF Changed
<1>6. v \in RowsType
  <2>1. \A y \in Tables : v[y] \in Seq(RowType)
    BY <1>2, <1>5, RowsShape
  <2>2. v = [y \in Tables |-> v[y]]
    BY <1>2
  <2> QED
    BY <2>1, <2>2 DEF RowsType
<1>7. LiveIn(w, u, k) = {} => v[u] = w[u]
  <2>1. SUFFICES ASSUME LiveIn(w, u, k) = {}, option # "restrict" PROVE ActedOn(w[u], option, op, k, new) = w[u]
    BY <1>2
  <2>2. \A i \in DOMAIN w[u] : w[u][i] # Present(k)
    BY <2>1 DEF LiveIn
  <2> QED
    BY <1>3, <2>2, ActedOnNone
\* A rule of the same child has acted before: it left nothing to do.
<1>8. ASSUME NEW q \in rs, q.child = u, Made(s, w, q, op, k, new) PROVE v[u] = w[u]
  <2>1. MadeTable(s, w, q.child, op, k, new)
    BY <1>8, MadeRows
  <2> QED
    BY <1>7, <1>8, <2>1 DEF MadeTable
<1>9. option # "restrict" => Made(s, v, r, op, k, new)
  <2>1. SUFFICES ASSUME option # "restrict" PROVE v[u] = ActedOn(s[u], option, op, k, new)
    BY DEF Made
  <2>2. CASE w[u] = s[u]
    BY <1>2, <2>1, <2>2
  <2>3. CASE w[u] # s[u]
    <3>1. PICK q \in rs : q.child = u /\ Made(s, w, q, op, k, new)
      BY <1>1, <2>3 DEF TablesMade
    <3>2. MadeTable(s, w, u, op, k, new)
      BY <3>1, MadeRows
    <3>3. LiveIn(s, u, k) # {}
      BY <2>3, <3>2 DEF MadeTable
    <3>4. q[op] = option
      BY <3>1, <3>3 DEF Unmixed
    <3> QED
      BY <1>8, <3>1, <3>4 DEF Made
  <2> QED
    BY <2>2, <2>3
<1>10. TablesMade(s, v, rs, t, op, k, new)
  <2> SUFFICES ASSUME NEW y \in Tables, y # t
               PROVE  v[y] = s[y] \/ \E q \in rs : q.child = y /\ Made(s, v, q, op, k, new)
    BY DEF TablesMade
  <2>1. w[y] = s[y] \/ \E q \in rs : q.child = y /\ Made(s, w, q, op, k, new)
    BY DEF TablesMade
  <2>2. CASE y # u
    <3>1. \A q \in rs : q.child = y /\ Made(s, w, q, op, k, new) => Made(s, v, q, op, k, new)
      BY <1>2, <2>2 DEF Made
    <3> QED
      BY <1>2, <2>1, <2>2, <3>1
  <2>3. CASE y = u /\ option # "restrict"
    BY <1>9, <2>3
  <2>4. CASE y = u /\ option = "restrict"
    <3>1. v[y] = w[y]
      BY <1>2, <2>4
    <3>2. \A q \in rs : q.child = y /\ Made(s, w, q, op, k, new) => Made(s, v, q, op, k, new)
      BY <2>4, <3>1 DEF Made
    <3> QED
      BY <2>1, <3>1, <3>2
  <2> QED
    BY <2>2, <2>3, <2>4
<1>11. RulesMet(s, v, rs, left, op, k, new)
  <2> SUFFICES ASSUME NEW q \in rs
               PROVE  \/ q \in left
                      \/ q[op] = "restrict" /\ LiveIn(s, q.child, k) = {}
                      \/ Made(s, v, q, op, k, new)
    BY DEF RulesMet
  <2>1. \/ q \in coming
        \/ q[op] = "restrict" /\ LiveIn(s, q.child, k) = {}
        \/ Made(s, w, q, op, k, new)
    BY DEF RulesMet
  <2>2. CASE q \in coming /\ q # r
    BY <2>2
  <2>3. CASE q = r
    <3>1. CASE option # "restrict"
      BY <1>9, <2>3, <3>1
    <3>2. CASE option = "restrict"
      <4>1. LiveIn(w, u, k) = {}
        BY <3>2
      <4>2. w[u] = s[u] => LiveIn(s, u, k) = {}
        BY <4>1 DEF LiveIn
      <4>3. ASSUME NEW p \in rs, p.child = u, LiveIn(s, u, k) # {}, p[op] # "restrict" PROVE FALSE
        <5>1. r[op] # p[op] /\ r[op] = "restrict"
          BY <3>2, <4>3
        <5> QED
          BY <4>3, <5>1 DEF Unmixed
      <4>4. LiveIn(s, u, k) = {}
        BY <1>3, <4>2, <4>3 DEF Other
      <4> QED
        BY <2>3, <3>2, <4>4
    <3> QED
      BY <3>1, <3>2
  <2>4. CASE Made(s, w, q, op, k, new)
    <3>1. v[q.child] = w[q.child]
      <4>1. q.child \in Tables
        BY RuleShape
      <4> QED
        BY <1>2, <1>8, <2>4, <4>1
    <3> QED
      BY <2>4, <3>1 DEF Made
  <2> QED
    BY <2>1, <2>2, <2>3, <2>4
<1> QED
  BY <1>1, <1>2, <1>5, <1>6, <1>10, <1>11 DEF OneMore

---------------------------------------------------------------------------
(* The invariant on rows, handles and calls *)

CallType == [op : {"upd", "del"}, table : Tables, todo : SUBSET Of("RI")]
Shape ==
  /\ rows \in RowsType /\ settled \in RowsType
  /\ \A t \in Tables : Len(settled[t]) <= Len(rows[t]) /\ Len(rows[t]) <= MaxRows
  /\ hand \in [Conns -> [Tables -> HandType \cup {Shut}]]
  /\ \A c \in Conns, t \in Tables : hand[c][t].open => hand[c][t].rec <= Len(rows[t])
  /\ call \in [Conns -> CallType \cup {Idle}]
  /\ turn \in {FreeTurn} \cup (Conns \X Tables)
  /\ told[4] \in {"done", "refused"}

\* What a handle knows of the row it is on, h being the handle of c on t.
Knowing(c, t, h) ==
  h.open => /\ Knows(c, t)
            /\ h.narrow => \A r \in Known(c) : r.child # t
            /\ h.fresh => turn = <<c, t>> /\ h.trust = "sure"
            /\ h.trust = "refused" => turn = <<c, t>>
            /\ h.trust = "sure" /\ turn # <<c, t>> /\ h.rec # 0 /\ Parenting(c, t) # {} => h.snap = h.row.key
\* A connection that is not there has no handle and makes no call.
Hands ==
  \A c \in Conns :
    /\ ~Here(c) => call[c] = Idle /\ \A t \in Tables : hand[c][t] = Shut
    /\ call[c] # Idle => turn = <<c, call[c].table>>
    /\ \A t \in Tables : Knowing(c, t, hand[c][t])

\* Rows that are settled keep the references: by the rules in the file, and by
\* those a connection is writing.
Settled ==
  /\ \A c \in Conns : ~Resting(c) => turn = FreeTurn /\ Holds(settled, RulesOf(copy[c]))
  /\ ~SwapsMemo => Holds(settled, RulesOf(InFile))
  /\ turn = FreeTurn => rows = settled /\ \A c \in Conns : call[c] = Idle

\* The record that is being changed refers to a row, unless to one of its own
\* table; its key before the change is the one ri_enforce_update will take.
Referred(c, t, h) ==
  h.row.key # Blank => \A r \in Known(c) : r.child = t /\ r.parent # t => LiveIn(settled, r.parent, h.row.key) # {}
KeyKnown(c, t, h) ==
  settled[t][h.rec].live /\ (Parenting(c, t) # {} => h.snap = settled[t][h.rec].key)
Unchanged(t) == \A u \in Tables : u # t => rows[u] = settled[u]
Edited(t, h) ==
  /\ DOMAIN rows[t] = DOMAIN settled[t] \cup {h.rec} /\ rows[t][h.rec] = h.row
  /\ \A i \in DOMAIN settled[t] : i # h.rec => rows[t][i] = settled[t][i]
\* A field was set or a row appended, and no call has been made.
Editing(c, t, h) ==
  /\ Unchanged(t)
  /\ h.rec \in DOMAIN settled[t] => h.trust = "sure" /\ ~h.fresh /\ KeyKnown(c, t, h) /\ Referred(c, t, h)
  /\ h.rec \notin DOMAIN settled[t] => h.fresh \/ h.trust = "refused"
\* A call with key k before and new after has come this far with its rules.
Start(t) == [settled EXCEPT ![t] = rows[t]]
Coming(c) == {Rule(c, n) : n \in call[c].todo}
Progress(c, t, op, k, new) ==
  LET rs == From(Known(c), t) IN
  /\ k \in Keys /\ (op = "upd" => new # k)
  /\ TablesMade(settled, rows, rs, t, op, k, new) /\ RulesMet(settled, rows, rs, Coming(c), op, k, new)
  /\ Unmixed(settled, rs, op, k) /\ Unchained(Start(t), Known(c), t, k)
Acting(c, t, h) ==
  /\ call[c].table = t /\ call[c].todo \subseteq Parenting(c, t)
  /\ call[c].op = "upd" => h.rec \in DOMAIN settled[t] /\ KeyKnown(c, t, h) /\ Referred(c, t, h)
  /\ call[c].op = "del" /\ h.rec \in DOMAIN settled[t] => settled[t][h.rec] = h.row
  /\ call[c].op = "del" /\ h.rec \notin DOMAIN settled[t] =>
       t \notin Superseded /\ \A r \in From(Known(c), t) : h.row.key # Blank => LiveIn(settled, r.child, h.row.key) = {}
  /\ ~Concerned(c) => Unchanged(t)
  /\ Concerned(c) => Progress(c, t, call[c].op, OldKey(c), h.row.key)
\* Nobody else does anything while c works on t.
Busy(c, t) ==
  LET h == hand[c][t] IN
  /\ Here(c) /\ Known(c) = RulesOf(InFile) /\ \A d \in Conns : Resting(d)
  /\ \A d \in Conns : d # c => call[d] = Idle
  /\ h.open /\ h.rec \in 1..Len(settled[t]) + 1 /\ h.row.live /\ Edited(t, h)
  /\ call[c] = Idle => Editing(c, t, h)
  /\ call[c] # Idle => ~h.fresh /\ Acting(c, t, h)

DataInv == Shape /\ Hands /\ Settled /\ \A c \in Conns, t \in Tables : turn = <<c, t>> => Busy(c, t)
IInv == DictInv /\ DataInv

---------------------------------------------------------------------------
(* What follows from it *)

LEMMA HandShape ==
  ASSUME NEW h \in HandType \cup {Shut}
  PROVE  /\ h.open \in BOOLEAN /\ (h.open <=> h # Shut)
         /\ h.open => /\ h \in HandType /\ h.rec \in 0..MaxRows /\ h.row \in RowType
                      /\ h.snap \in Keys \cup {Blank, Unset} /\ h.fresh \in BOOLEAN /\ h.narrow \in BOOLEAN
                      /\ h.trust \in {"sure", "written", "moved", "refused"}
<1>1. CASE h \in HandType
  <2>1. h.open = TRUE
    BY <1>1 DEF HandType
  <2>2. /\ h.rec \in 0..MaxRows /\ h.row \in RowType /\ h.snap \in Keys \cup {Blank, Unset}
        /\ h.fresh \in BOOLEAN /\ h.narrow \in BOOLEAN /\ h.trust \in {"sure", "written", "moved", "refused"}
    BY <1>1 DEF HandType
  <2>3. Shut.open = FALSE
    BY DEF Shut
  <2> QED
    BY <1>1, <2>1, <2>2, <2>3
<1>2. CASE h = Shut
  <2>1. Shut.open = FALSE
    BY DEF Shut
  <2> QED
    BY <1>2, <2>1
<1> QED
  BY <1>1, <1>2

LEMMA CallShape ==
  ASSUME NEW x \in CallType \cup {Idle}
  PROVE  x # Idle => x \in CallType /\ x.op \in {"upd", "del"} /\ x.table \in Tables /\ x.todo \subseteq Of("RI")
BY DEF CallType

\* The rules a connection knows, and their names in its copy.
LEMMA RuleFacts ==
  ASSUME DictInv, NEW c \in Conns, Here(c)
  PROVE  /\ Known(c) \in SUBSET RuleTexts
         /\ \A r \in Known(c) : Knows(c, r.parent) /\ Knows(c, r.child)
         /\ \A t \in Tables : \A n \in Parenting(c, t) : n \in Of("RI") /\ Rule(c, n) \in From(Known(c), t)
         /\ \A t \in Tables : \A r \in From(Known(c), t) : \E n \in Parenting(c, t) : Rule(c, n) = r
         /\ \A t \in Tables : \A r \in Known(c) : r.child = t => \E n \in Referring(c, t) : Rule(c, n) = r
<1> DEFINE m == copy[c]
<1>1. m \in Copies /\ RuleTables(m) \subseteq m.objs /\ Placed(m)
  BY DEF DictInv, CopiesInv, Sound
<1> HIDE DEF m
<1>2. ASSUME NEW n \in Of("RI") \cap m.objs PROVE m.text[n] \in RuleTexts \cup {NoRule}
  <2>1. n \in Names /\ Kind[n] = "RI"
    BY <1>2 DEF Of
  <2> QED
    BY <1>1, <2>1 DEF Placed, Texts
<1>3. NoRule.parent = None /\ \A t \in Tables : t # None
  <2>1. \A t \in Tables : t \in Names
    BY RefIntegrityAssumption DEF Of
  <2> QED
    BY <2>1, ObjectsAssumption DEF NoRule
<1>4. Known(c) = {m.text[n] : n \in Of("RI") \cap m.objs} \ {NoRule}
  BY DEF Known, RulesOf, m
<1>5. Known(c) \in SUBSET RuleTexts
  BY <1>2, <1>4
<1>6. ASSUME NEW r \in Known(c) PROVE r.parent \in m.objs /\ r.child \in m.objs
  <2>1. r \in RulesOf(m)
    BY DEF Known, m
  <2> QED
    BY <1>1, <2>1 DEF RuleTables
<1>7. ASSUME NEW t \in Tables, NEW n \in Parenting(c, t) PROVE n \in Of("RI") /\ Rule(c, n) \in From(Known(c), t)
  <2>1. n \in Of("RI") \cap m.objs /\ m.text[n].parent = t /\ Rule(c, n) = m.text[n]
    BY <1>7 DEF Parenting, InForce, Rule, m
  <2>2. m.text[n] # NoRule
    BY <1>3, <2>1
  <2> QED
    BY <1>4, <2>1, <2>2 DEF From
<1>8. ASSUME NEW r \in Known(c) PROVE \E n \in InForce(c) : Rule(c, n) = r
  <2>1. PICK n \in Of("RI") \cap m.objs : r = m.text[n]
    BY <1>4
  <2> QED
    BY <2>1 DEF InForce, Rule, m
<1>9. ASSUME NEW t \in Tables, NEW r \in From(Known(c), t) PROVE \E n \in Parenting(c, t) : Rule(c, n) = r
  <2>1. r \in Known(c) /\ r.parent = t
    BY DEF From
  <2> QED
    BY <1>6, <1>8, <2>1 DEF Parenting, Knows, m
<1>10. ASSUME NEW t \in Tables, NEW r \in Known(c), r.child = t PROVE \E n \in Referring(c, t) : Rule(c, n) = r
  BY <1>6, <1>8, <1>10 DEF Referring, Knows, m
<1> QED
  BY <1>5, <1>6, <1>7, <1>9, <1>10 DEF Knows, m

\* Where every call on a table starts: nobody else is in the middle of anything.
Calm(c) ==
  /\ Here(c) /\ \A d \in Conns : Resting(d) /\ call[d] = Idle
  /\ Known(c) = RulesOf(InFile) /\ Single(Known(c)) /\ Holds(settled, Known(c))

LEMMA SingleRules ==
  ASSUME DictInv, \A d \in Conns : Resting(d)
  PROVE  ~SwapsMemo /\ Single(RulesOf(InFile))
<1>1. ~SwapsMemo
  BY DEF SwapsMemo, Resting
<1>2. PICK m \in Copies : Good(m) /\ FilesOf(m) /\ RulesOf(InFile) = RulesOf(m)
  BY <1>1, FileIsCopy
<1> QED
  BY <1>1, <1>2 DEF Good, OneParent, Single

LEMMA CallsAreCalm ==
  ASSUME IInv, NEW c \in Conns, NEW t \in Tables, Ready(c, t), Careful
  PROVE  /\ Calm(c) /\ turn \in {FreeTurn, <<c, t>>}
         /\ turn = FreeTurn => rows = settled
         /\ turn = <<c, t>> => Busy(c, t) /\ Editing(c, t, hand[c][t])
<1>1. /\ Here(c) /\ call[c] = Idle /\ turn \in {FreeTurn, <<c, t>>} /\ \A d \in Conns : Resting(d)
      /\ Known(c) = RulesOf(InFile)
  BY DEF Ready, Alone, May, Careful
<1>2. turn = FreeTurn => rows = settled /\ \A d \in Conns : call[d] = Idle
  BY DEF IInv, DataInv, Settled
<1>3. turn = <<c, t>> => Busy(c, t) /\ Editing(c, t, hand[c][t])
  BY <1>1 DEF IInv, DataInv, Busy
<1>4. \A d \in Conns : call[d] = Idle
  BY <1>1, <1>2, <1>3 DEF Busy
<1>5. ~SwapsMemo /\ Single(RulesOf(InFile))
  BY <1>1, SingleRules DEF IInv
<1>6. Holds(settled, RulesOf(InFile))
  BY <1>5 DEF IInv, DataInv, Settled
<1> QED
  BY <1>1, <1>2, <1>3, <1>4, <1>5, <1>6 DEF Calm

\* The handle a call works on.
LEMMA HandOf ==
  ASSUME Shape, NEW c \in Conns, NEW t \in Tables
  PROVE  /\ hand[c][t] \in HandType \cup {Shut}
         /\ hand[c][t].open => hand[c][t] \in HandType /\ hand[c][t].rec \in 0..Len(rows[t])
<1>1. hand[c][t] \in HandType \cup {Shut}
  BY DEF Shape
<1>2. hand[c][t].open => hand[c][t] \in HandType /\ hand[c][t].rec \in 0..MaxRows
  BY <1>1, HandShape
<1>3. MaxRows \in Nat /\ Len(rows[t]) \in Nat
  BY RefIntegrityAssumption, RowsShape DEF Shape
<1>4. hand[c][t].open => hand[c][t].rec <= Len(rows[t])
  BY DEF Shape
<1> QED
  BY <1>1, <1>2, <1>3, <1>4

\* The definitions that read the copies of the dictionary, when no copy changes.
LEMMA SameCopies ==
  ASSUME copy' = copy
  PROVE  \A c \in Conns : /\ Here(c)' = Here(c) /\ Known(c)' = Known(c)
                          /\ \A t \in Tables : /\ Knows(c, t)' = Knows(c, t) /\ Parenting(c, t)' = Parenting(c, t)
                                               /\ Referring(c, t)' = Referring(c, t)
                          /\ \A n : Rule(c, n)' = Rule(c, n)
BY DEF Here, Known, Knows, Parenting, Referring, Rule, InForce
LEMMA SameDict ==
  ASSUME UNCHANGED dictVars
  PROVE  /\ copy' = copy /\ InFile' = InFile /\ SwapsMemo' = SwapsMemo
         /\ \A c \in Conns : Resting(c)' = Resting(c)
         /\ DictInv => DictInv'
BY DictStays DEF dictVars, InFile, SwapsMemo, Resting

---------------------------------------------------------------------------
(* Steps of a handle *)

\* One handle changes.
OneHand(c, t, h) ==
  /\ hand' \in [Conns -> [Tables -> HandType \cup {Shut}]] /\ hand'[c][t] = h
  /\ \A d \in Conns, u \in Tables : d # c \/ u # t => hand'[d][u] = hand[d][u]
LEMMA NewHand ==
  ASSUME Shape, NEW c \in Conns, NEW t \in Tables, NEW h, h \in HandType \/ h = Shut, hand' = [hand EXCEPT ![c][t] = h]
  PROVE  OneHand(c, t, h)
BY DEF Shape, OneHand

\* The others know what they knew, when only c may be in the middle of a call on t.
LEMMA HandsKept ==
  ASSUME Hands, copy' = copy, NEW c \in Conns, NEW t \in Tables, Here(c),
         turn \in {FreeTurn, <<c, t>>}, turn' \in {FreeTurn, <<c, t>>},
         \A d \in Conns, u \in Tables :
           d # c \/ u # t => hand'[d][u] = hand[d][u] \/ (d = c /\ Knowing(d, u, hand[d][u])'),
         Knowing(c, t, hand[c][t])',
         \A d \in Conns : d # c => call'[d] = Idle,
         call'[c] # Idle => turn' = <<c, call'[c].table>>
  PROVE  Hands'
<1> SUFFICES ASSUME NEW d \in Conns
             PROVE  /\ ~Here(d)' => call'[d] = Idle /\ \A u \in Tables : hand'[d][u] = Shut
                    /\ call'[d] # Idle => turn' = <<d, call'[d].table>>
                    /\ \A u \in Tables : Knowing(d, u, hand[d][u])'
  BY DEF Hands
<1>1. Here(d)' = Here(d)
  BY SameCopies
<1>2. ASSUME NEW u \in Tables, d # c \/ u # t, hand'[d][u] = hand[d][u] PROVE Knowing(d, u, hand[d][u])'
  <2>1. turn # <<d, u>> /\ turn' # <<d, u>>
    BY <1>2 DEF FreeTurn
  <2>2. Knows(d, u)' = Knows(d, u) /\ Known(d)' = Known(d) /\ Parenting(d, u)' = Parenting(d, u)
    BY SameCopies
  <2>3. Knowing(d, u, hand[d][u])
    BY DEF Hands
  <2> QED
    BY <1>2, <2>1, <2>2, <2>3 DEF Knowing
<1>3. ~Here(d)' => call'[d] = Idle /\ \A u \in Tables : hand'[d][u] = Shut
  <2>1. ASSUME ~Here(d)' PROVE d # c
    BY <1>1, <2>1
  <2> QED
    BY <1>1, <2>1 DEF Hands
<1> QED
  BY <1>2, <1>3

LEMMA QuietHand ==
  ASSUME IInv, NEW c \in Conns, NEW t \in Tables, Calm(c), turn = FreeTurn,
         NEW h \in HandType \cup {Shut}, h.open => h.rec <= Len(rows[t]), Knowing(c, t, h),
         hand' = [hand EXCEPT ![c][t] = h], UNCHANGED <<rows, call, told, turn, settled>>, UNCHANGED dictVars
  PROVE  DataInv'
<1>1. Shape /\ Hands /\ Settled /\ copy' = copy /\ InFile' = InFile /\ SwapsMemo' = SwapsMemo
  BY SameDict DEF IInv, DataInv
<1>2. /\ hand' \in [Conns -> [Tables -> HandType \cup {Shut}]] /\ hand'[c][t] = h
      /\ \A d \in Conns, u \in Tables : d # c \/ u # t => hand'[d][u] = hand[d][u]
  BY <1>1, NewHand DEF OneHand
<1>3. Shape'
  <2>1. ASSUME NEW d \in Conns, NEW u \in Tables, hand'[d][u].open PROVE hand'[d][u].rec <= Len(rows'[u])
    BY <1>1, <1>2, <2>1 DEF Shape
  <2> QED
    BY <1>1, <1>2, <2>1 DEF Shape
<1>4. Knowing(c, t, hand[c][t])'
  <2>1. Knows(c, t)' = Knows(c, t) /\ Known(c)' = Known(c) /\ Parenting(c, t)' = Parenting(c, t)
    BY <1>1, SameCopies
  <2> QED
    BY <1>2, <2>1 DEF Knowing
<1>5. Hands'
  <2>1. Here(c) /\ (\A d \in Conns : call'[d] = Idle)
    BY DEF Calm
  <2> QED
    BY <1>1, <1>2, <1>4, <2>1, HandsKept
<1>6. Settled'
  <2>1. \A d \in Conns : Resting(d)' = Resting(d)
    BY SameDict
  <2> QED
    BY <1>1, <2>1 DEF Settled
<1>7. turn' = FreeTurn /\ \A d \in Conns, u \in Tables : turn' # <<d, u>>
  BY DEF FreeTurn
<1> QED
  BY <1>3, <1>5, <1>6, <1>7 DEF DataInv

LEMMA OpenSteps ==
  ASSUME IInv, NEW c \in Conns, NEW t \in Tables, Ready(c, t), OpenTable(c, t), Careful
  PROVE  DataInv'
<1> DEFINE h == [open |-> TRUE, rec |-> 0, row |-> Row(FALSE, Blank), snap |-> Unset,
                 fresh |-> FALSE, narrow |-> FALSE, trust |-> "sure"]
<1>1. Calm(c) /\ turn = FreeTurn
  <2>1. ~hand[c][t].open
    BY DEF OpenTable
  <2> QED
    BY <2>1, CallsAreCalm DEF Busy
<1>2. h \in HandType
  <2>1. Absent(Blank) \in RowType /\ Row(FALSE, Blank) = Absent(Blank)
    BY KeyShape DEF Absent
  <2>2. 0 \in 0..MaxRows
    BY RefIntegrityAssumption
  <2> QED
    BY <2>1, <2>2 DEF HandType
<1>3. Knowing(c, t, h)
  BY DEF Knowing, OpenTable
<1>4. h.rec <= Len(rows[t])
  BY RowsShape DEF IInv, DataInv, Shape
<1>5. hand' = [hand EXCEPT ![c][t] = h] /\ UNCHANGED <<rows, call, told, turn, settled>> /\ UNCHANGED dictVars
  BY DEF OpenTable, Hold, Uncounted
<1> HIDE DEF h
<1> QED
  BY <1>1, <1>2, <1>3, <1>4, <1>5, QuietHand

LEMMA CloseSteps ==
  ASSUME IInv, NEW c \in Conns, NEW t \in Tables, Ready(c, t), CloseTable(c, t), Careful
  PROVE  DataInv'
<1>1. Calm(c) /\ turn = FreeTurn
  BY CallsAreCalm DEF CloseTable, May, Careful
<1>2. ~Shut.open
  BY DEF Shut
<1>3. Knowing(c, t, Shut)
  BY <1>2 DEF Knowing
<1>4. hand' = [hand EXCEPT ![c][t] = Shut] /\ UNCHANGED <<rows, call, told, turn, settled>> /\ UNCHANGED dictVars
  BY DEF CloseTable, Hold, Uncounted
<1> QED
  BY <1>1, <1>2, <1>3, <1>4, QuietHand

LEMMA MoveSteps ==
  ASSUME IInv, NEW c \in Conns, NEW t \in Tables, Ready(c, t), Move(c, t), Careful
  PROVE  DataInv'
<1> DEFINE g == hand[c][t]
           h(r, narrow) == [Snapped(c, t, At(g, r, rows[t][r])) EXCEPT !.trust = "sure", !.narrow = narrow]
<1>1. Calm(c) /\ turn = FreeTurn /\ g.open
  BY CallsAreCalm DEF Move, May, Careful
<1>2. PICK r \in DOMAIN rows[t], narrow \in BOOLEAN :
        /\ narrow => \A q \in Known(c) : q.child # t
        /\ hand' = [hand EXCEPT ![c][t] = h(r, narrow)]
  BY DEF Move, Hold, May, Careful
<1>3. /\ g \in HandType /\ rows[t][r] \in RowType /\ DOMAIN rows[t] = 1..Len(rows[t]) /\ Len(rows[t]) \in Nat
      /\ Len(rows[t]) <= MaxRows /\ MaxRows \in Nat /\ Knows(c, t) /\ ~g.fresh
  <2>1. Shape /\ Hands
    BY DEF IInv, DataInv
  <2>2. g \in HandType
    BY <1>1, <2>1, HandOf
  <2>3. rows[t][r] \in RowType /\ DOMAIN rows[t] = 1..Len(rows[t]) /\ Len(rows[t]) \in Nat /\ Len(rows[t]) <= MaxRows
    BY <2>1, RowsShape DEF Shape
  <2>4. Knowing(c, t, g)
    BY <2>1 DEF Hands
  <2> QED
    BY <1>1, <2>2, <2>3, <2>4, RefIntegrityAssumption DEF Knowing, FreeTurn
<1> DEFINE new == h(r, narrow)
           at == At(g, r, rows[t][r])
           snapped == Snapped(c, t, at)
<1>4. /\ at \in HandType /\ at.rec = r /\ at.row = rows[t][r] /\ at.fresh = g.fresh
  <2>1. r \in 0..MaxRows
    BY <1>3
  <2> QED
    BY <1>3, <2>1 DEF At, HandType
<1>5. /\ snapped \in HandType /\ snapped.rec = r /\ snapped.row = rows[t][r] /\ snapped.fresh = g.fresh
      /\ Parenting(c, t) # {} => snapped.snap = rows[t][r].key
  <2> HIDE DEF at
  <2>1. at.row.key \in Keys \cup {Blank, Unset}
    BY <1>3, <1>4 DEF RowType
  <2> QED
    BY <1>4, <2>1 DEF Snapped, HandType
<1>6. /\ new \in HandType /\ new.rec = r /\ new.row = rows[t][r] /\ new.fresh = g.fresh /\ new.narrow = narrow
      /\ new.trust = "sure" /\ new.snap = snapped.snap
  <2>1. new = [snapped EXCEPT !.trust = "sure", !.narrow = narrow]
    OBVIOUS
  <2> HIDE DEF snapped, new
  <2> QED
    BY <1>5, <2>1 DEF HandType
<1> HIDE DEF new, snapped
<1>7. Knowing(c, t, new)
  BY <1>2, <1>3, <1>5, <1>6 DEF Knowing
<1>8. UNCHANGED <<rows, call, told, turn, settled>> /\ UNCHANGED dictVars /\ hand' = [hand EXCEPT ![c][t] = new]
  BY <1>2 DEF Move, Uncounted, new
<1>9. new.rec <= Len(rows[t])
  BY <1>3, <1>6
<1> QED
  BY <1>1, <1>6, <1>7, <1>8, <1>9, QuietHand

---------------------------------------------------------------------------
(* Steps of a record that is being changed *)

\* c goes on changing its record of t and makes no call.
LEMMA Edits ==
  ASSUME IInv, NEW c \in Conns, NEW t \in Tables, Calm(c), turn \in {FreeTurn, <<c, t>>},
         NEW h \in HandType, h.open, Knows(c, t), h.narrow => \A r \in Known(c) : r.child # t, h.row.live,
         h.fresh => h.trust = "sure", h.rec \in 1..Len(settled[t]) + 1,
         h.rec \in DOMAIN settled[t] => h.trust = "sure" /\ ~h.fresh /\ KeyKnown(c, t, h) /\ Referred(c, t, h),
         h.rec \notin DOMAIN settled[t] => h.fresh \/ h.trust = "refused",
         hand' = [hand EXCEPT ![c][t] = h], turn' = <<c, t>>, UNCHANGED <<call, settled>>, UNCHANGED dictVars,
         told'[4] \in {"done", "refused"},
         rows' \in RowsType, \A u \in Tables : u # t => rows'[u] = settled[u] /\ rows'[u] = rows[u],
         Len(rows[t]) <= Len(rows'[t]), Len(rows'[t]) <= MaxRows,
         DOMAIN rows'[t] = DOMAIN settled[t] \cup {h.rec}, rows'[t][h.rec] = h.row,
         \A i \in DOMAIN settled[t] : i # h.rec => rows'[t][i] = settled[t][i]
  PROVE  DataInv'
<1>1. Shape /\ Hands /\ Settled /\ copy' = copy /\ InFile' = InFile /\ SwapsMemo' = SwapsMemo
  BY SameDict DEF IInv, DataInv
<1>2. /\ hand' \in [Conns -> [Tables -> HandType \cup {Shut}]] /\ hand'[c][t] = h
      /\ \A d \in Conns, u \in Tables : d # c \/ u # t => hand'[d][u] = hand[d][u]
  <2>1. OneHand(c, t, h)
    BY <1>1, NewHand
  <2> QED
    BY <2>1 DEF OneHand
<1>3. \A u \in Tables : Len(rows[u]) <= Len(rows'[u]) /\ Len(rows[u]) \in Nat /\ Len(rows'[u]) \in Nat
  BY <1>1, RowsShape DEF Shape
<1>4. Len(settled[t]) <= Len(rows'[t]) /\ h.rec <= Len(rows'[t])
  <2>1. Len(settled[t]) \in Nat /\ Len(settled[t]) <= Len(rows[t])
    BY <1>1, RowsShape DEF Shape
  <2>2. DOMAIN rows'[t] = 1..Len(rows'[t])
    BY RowsShape
  <2>3. h.rec \in 1..Len(rows'[t])
    BY <2>2
  <2> QED
    BY <1>3, <2>1, <2>3
<1>5. Shape'
  <2>1. ASSUME NEW d \in Conns, NEW u \in Tables, hand'[d][u].open PROVE hand'[d][u].rec <= Len(rows'[u])
    <3>1. CASE d = c /\ u = t
      BY <1>2, <1>4, <3>1
    <3>2. CASE d # c \/ u # t
      <4>1. hand[d][u].rec \in 0..Len(rows[u])
        BY <1>1, <1>2, <2>1, <3>2, HandOf
      <4> QED
        BY <1>2, <1>3, <3>2, <4>1
    <3> QED
      BY <3>1, <3>2
  <2>2. \A u \in Tables : Len(settled'[u]) <= Len(rows'[u]) /\ Len(rows'[u]) <= MaxRows
    BY <1>1, <1>4 DEF Shape
  <2> QED
    BY <1>1, <1>2, <2>1, <2>2 DEF Shape
<1>6. Known(c)' = Known(c) /\ Here(c)' = Here(c) /\ Knows(c, t)' = Knows(c, t) /\ Parenting(c, t)' = Parenting(c, t)
  BY <1>1, SameCopies
<1>7. Knowing(c, t, hand[c][t])'
  BY <1>2, <1>6 DEF Knowing
<1>8. Hands'
  <2>1. Here(c) /\ \A d \in Conns : call'[d] = Idle
    BY DEF Calm
  <2> QED
    BY <1>1, <1>2, <1>7, <2>1, HandsKept
<1>9. \A d \in Conns : Resting(d)' /\ call'[d] = Idle
  BY SameDict DEF Calm
<1>10. Settled'
  BY <1>1, <1>9 DEF Settled, FreeTurn
<1>11. Busy(c, t)'
  <2>1. Here(c) /\ Known(c) = RulesOf(InFile)
    BY DEF Calm
  <2>2. Here(c)' /\ Known(c)' = RulesOf(InFile)'
    BY <1>1, <1>6, <2>1
  <2>3. Unchanged(t)' /\ Edited(t, hand[c][t])'
    BY <1>2 DEF Unchanged, Edited
  <2>4. Editing(c, t, hand[c][t])'
    BY <1>2, <1>6, <2>3 DEF Editing, KeyKnown, Referred
  <2> QED
    BY <1>2, <1>9, <2>2, <2>3, <2>4 DEF Busy
<1> QED
  <2>1. \A d \in Conns, u \in Tables : turn' = <<d, u>> => d = c /\ u = t
    OBVIOUS
  <2> QED
    BY <1>5, <1>8, <1>10, <1>11, <2>1 DEF DataInv

LEMMA AppendSteps ==
  ASSUME IInv, NEW c \in Conns, NEW t \in Tables, Ready(c, t), AppendRecord(c, t), Careful
  PROVE  DataInv'
<1> DEFINE g == hand[c][t]
           n == Len(rows[t]) + 1
           at == At(g, n, Present(Blank))
           h == [at EXCEPT !.fresh = TRUE, !.trust = "sure"]
<1>1. Calm(c) /\ turn = FreeTurn /\ g.open /\ rows = settled /\ Shape /\ Hands
  BY CallsAreCalm DEF AppendRecord, May, Careful, IInv, DataInv
<1>2. g \in HandType /\ Knows(c, t) /\ (g.narrow => \A r \in Known(c) : r.child # t)
  BY <1>1, HandOf DEF Hands, Knowing
<1>3. /\ rows[t] \in Seq(RowType) /\ DOMAIN rows[t] = 1..Len(rows[t]) /\ Len(rows[t]) \in Nat /\ n \in 0..MaxRows
      /\ rows \in RowsType
  <2>1. rows \in RowsType /\ Len(rows[t]) < MaxRows
    BY <1>1 DEF Shape, AppendRecord
  <2>2. rows[t] \in Seq(RowType) /\ DOMAIN rows[t] = 1..Len(rows[t]) /\ Len(rows[t]) \in Nat
    BY <2>1, RowsShape
  <2>3. n \in 0..MaxRows
    BY <2>1, <2>2, RefIntegrityAssumption
  <2> QED
    BY <2>1, <2>2, <2>3
<1>4. Present(Blank) \in RowType /\ Present(Blank).live /\ Row(TRUE, Blank) = Present(Blank)
  BY KeyShape DEF Present
<1>5. at \in HandType /\ at.rec = n /\ at.row = Present(Blank) /\ at.narrow = g.narrow
  BY <1>2, <1>3, <1>4 DEF At, HandType
<1>6. /\ h \in HandType /\ h.rec = n /\ h.row = Present(Blank) /\ h.narrow = g.narrow /\ h.fresh /\ h.trust = "sure"
      /\ h.open
  <2> HIDE DEF at
  <2> QED
    BY <1>5 DEF HandType
<1>7. hand' = [hand EXCEPT ![c][t] = h] /\ rows' = [rows EXCEPT ![t] = Append(rows[t], Present(Blank))]
  <2>1. rows' = [rows EXCEPT ![t] = Append(@, Row(TRUE, Blank))]
    BY DEF AppendRecord
  <2>2. Append(rows[t], Row(TRUE, Blank)) = Append(rows[t], Present(Blank))
    BY <1>4
  <2> QED
    BY <1>3, <1>4, <2>1, <2>2 DEF AppendRecord, Hold, RowsType
<1> HIDE DEF h
<1> DEFINE now == Append(rows[t], Present(Blank))
<1>8. /\ now \in Seq(RowType) /\ Len(now) = n /\ DOMAIN now = DOMAIN rows[t] \cup {n} /\ now[n] = Present(Blank)
      /\ \A i \in DOMAIN rows[t] : now[i] = rows[t][i]
  BY <1>3, <1>4
<1> HIDE DEF now
<1>9. rows' \in RowsType /\ rows'[t] = now /\ \A u \in Tables : u # t => rows'[u] = rows[u]
  BY <1>3, <1>7, <1>8 DEF RowsType, now
<1>10. /\ turn' = <<c, t>> /\ UNCHANGED <<call, settled>> /\ UNCHANGED dictVars /\ told'[4] \in {"done", "refused"}
  BY <1>1 DEF AppendRecord, Uncounted, Shape
<1>11. Len(rows[t]) <= Len(rows'[t]) /\ Len(rows'[t]) <= MaxRows /\ h.rec \in 1..Len(settled[t]) + 1 /\ h.rec \notin DOMAIN settled[t]
  <2>1. n \in 0..MaxRows /\ Len(rows'[t]) = n
    BY <1>3, <1>8, <1>9
  <2> QED
    BY <1>1, <1>3, <1>6, <2>1, RefIntegrityAssumption
<1>12. /\ DOMAIN rows'[t] = DOMAIN settled[t] \cup {h.rec} /\ rows'[t][h.rec] = h.row /\ h.row.live
       /\ \A i \in DOMAIN settled[t] : i # h.rec => rows'[t][i] = settled[t][i]
  BY <1>1, <1>4, <1>6, <1>8, <1>9
<1>13. \A u \in Tables : u # t => rows'[u] = settled[u] /\ rows'[u] = rows[u]
  BY <1>1, <1>9
<1>14. h.narrow => \A r \in Known(c) : r.child # t
  BY <1>2, <1>6
<1> QED
  BY <1>1, <1>2, <1>6, <1>7, <1>9, <1>10, <1>11, <1>12, <1>13, <1>14, Edits

\* One row is written.
PutTo(w, v, t, r, row) ==
  /\ v \in RowsType /\ DOMAIN v[t] = DOMAIN w[t] /\ Len(v[t]) = Len(w[t]) /\ v[t][r] = row
  /\ \A i \in DOMAIN w[t] : i # r => v[t][i] = w[t][i]
  /\ \A u \in Tables : u # t => v[u] = w[u]
LEMMA PutRow ==
  ASSUME NEW w \in RowsType, NEW t \in Tables, NEW r \in DOMAIN w[t], NEW row \in RowType,
         NEW v, v = [w EXCEPT ![t][r] = row]
  PROVE  PutTo(w, v, t, r, row)
<1> DEFINE now == [w[t] EXCEPT ![r] = row]
<1>1. w[t] \in Seq(RowType) /\ DOMAIN w[t] = 1..Len(w[t]) /\ Len(w[t]) \in Nat
  BY RowsShape
<1>2. /\ now \in Seq(RowType) /\ DOMAIN now = DOMAIN w[t] /\ Len(now) = Len(w[t]) /\ now[r] = row
      /\ \A i \in DOMAIN w[t] : i # r => now[i] = w[t][i]
  BY <1>1
<1>3. v = [w EXCEPT ![t] = now]
  OBVIOUS
<1> HIDE DEF now
<1>4. v \in RowsType /\ v[t] = now /\ \A u \in Tables : u # t => v[u] = w[u]
  BY <1>2, <1>3 DEF RowsType
<1> QED
  BY <1>2, <1>4 DEF PutTo

\* What a careful client knows before it writes.
LEMMA SureFacts ==
  ASSUME IInv, NEW c \in Conns, NEW t \in Tables, Ready(c, t), Sure(c, t), Careful
  PROVE  LET h == hand[c][t] IN
         /\ Calm(c) /\ turn \in {FreeTurn, <<c, t>>} /\ Shape
         /\ h \in HandType /\ h.open /\ Knows(c, t) /\ (h.narrow => \A r \in Known(c) : r.child # t)
         /\ (h.fresh => h.trust = "sure") /\ h.trust \in {"sure", "refused"}
         /\ h.row \in RowType /\ h.row.live /\ h.row = Present(h.row.key)
         /\ h.rec \in DOMAIN rows[t] /\ h.rec \in 1..Len(settled[t]) + 1 /\ Unchanged(t) /\ Edited(t, h)
         /\ turn = FreeTurn =>
              /\ rows = settled /\ h.rec \in DOMAIN settled[t] /\ h.trust = "sure" /\ ~h.fresh
              /\ Parenting(c, t) # {} => h.snap = h.row.key
         /\ turn = <<c, t>> => Editing(c, t, h)
<1> DEFINE h == hand[c][t]
<1>1. /\ Calm(c) /\ turn \in {FreeTurn, <<c, t>>} /\ (turn = FreeTurn => rows = settled)
      /\ turn = <<c, t>> => Busy(c, t) /\ Editing(c, t, h)
  BY CallsAreCalm
<1>2. Shape /\ Hands
  BY DEF IInv, DataInv
<1>3. h.open /\ h.rec # 0 /\ h.trust # "written" /\ h.trust # "moved" /\ rows[t][h.rec] = h.row /\ h.row.live
  BY DEF Sure, May, Careful
<1>4. h \in HandType /\ h.rec \in 0..Len(rows[t])
  BY <1>2, <1>3, HandOf
<1>5. Knowing(c, t, h)
  BY <1>2 DEF Hands
<1> HIDE DEF h
<1>6. h.row \in RowType /\ h.trust \in {"sure", "refused"} /\ h.row = Present(h.row.key)
  <2>1. h.row \in RowType /\ h.trust \in {"sure", "refused"}
    BY <1>3, <1>4 DEF HandType
  <2> QED
    BY <1>3, <2>1, LiveRow
<1>7. /\ h.rec \in DOMAIN rows[t]
      /\ DOMAIN rows[t] = 1..Len(rows[t]) /\ Len(rows[t]) \in Nat
  BY <1>2, <1>3, <1>4, RowsShape DEF Shape
<1>8. ASSUME turn = FreeTurn
      PROVE  /\ rows = settled /\ h.rec \in DOMAIN settled[t] /\ h.trust = "sure" /\ ~h.fresh
             /\ Parenting(c, t) # {} => h.snap = h.row.key
             /\ Unchanged(t) /\ Edited(t, h) /\ h.rec \in 1..Len(settled[t]) + 1
  <2>1. rows = settled /\ turn # <<c, t>>
    BY <1>1, <1>8 DEF FreeTurn
  <2>2. Unchanged(t) /\ Edited(t, h)
    BY <1>3, <1>7, <2>1 DEF Unchanged, Edited
  <2>3. h.rec \in 1..Len(settled[t]) + 1
    BY <1>7, <2>1
  <2> QED
    BY <1>3, <1>5, <1>6, <1>7, <2>1, <2>2, <2>3 DEF Knowing
<1>9. ASSUME turn = <<c, t>> PROVE Unchanged(t) /\ Edited(t, h) /\ h.rec \in 1..Len(settled[t]) + 1
  BY <1>1, <1>9 DEF Busy, Editing, h
<1>10. h.narrow => \A r \in Known(c) : r.child # t
  BY <1>3, <1>5 DEF Knowing
<1>11. Knows(c, t) /\ (h.fresh => h.trust = "sure")
  BY <1>3, <1>5 DEF Knowing
<1> QED
  BY <1>1, <1>2, <1>3, <1>4, <1>6, <1>7, <1>8, <1>9, <1>10, <1>11 DEF h

\* What the client knows of a key another row may refer to.
LEMMA RefersTo ==
  ASSUME NEW c \in Conns, NEW t \in Tables, NEW k \in Keys \cup {Blank}, Refers(c, t, k), k # Blank
  PROVE  \A r \in Known(c) : r.child = t => LiveIn(rows, r.parent, k) # {}
BY DEF Refers, Live, LiveIn, Present

LEMMA SetFieldSteps ==
  ASSUME IInv, NEW c \in Conns, NEW t \in Tables, NEW k \in Keys \cup {Blank}, Ready(c, t), SetField(c, t, k),
         Careful
  PROVE  DataInv'
<1> DEFINE g == hand[c][t]
           h == [g EXCEPT !.row.key = k]
<1>1. /\ Calm(c) /\ turn \in {FreeTurn, <<c, t>>} /\ Shape
      /\ g \in HandType /\ g.open /\ Knows(c, t) /\ (g.narrow => \A r \in Known(c) : r.child # t)
      /\ (g.fresh => g.trust = "sure") /\ g.row \in RowType /\ g.row.live
      /\ g.rec \in DOMAIN rows[t] /\ g.rec \in 1..Len(settled[t]) + 1 /\ Unchanged(t) /\ Edited(t, g)
      /\ turn = FreeTurn =>
           /\ rows = settled /\ g.rec \in DOMAIN settled[t] /\ g.trust = "sure" /\ ~g.fresh
           /\ Parenting(c, t) # {} => g.snap = g.row.key
      /\ turn = <<c, t>> => Editing(c, t, g)
  BY SureFacts DEF SetField
<1>2. /\ g.trust # "refused" /\ (g.fresh \/ Refers(c, t, k)) /\ hand' = [hand EXCEPT ![c][t] = h]
      /\ rows' = [rows EXCEPT ![t][h.rec] = h.row] /\ turn' = <<c, t>> /\ UNCHANGED <<call, told, settled>>
      /\ UNCHANGED dictVars
  BY DEF SetField, May, Careful, Hold, Put, Uncounted
<1> HIDE DEF g
<1>3. /\ h \in HandType /\ h.rec = g.rec /\ h.fresh = g.fresh /\ h.trust = g.trust /\ h.narrow = g.narrow /\ h.snap = g.snap
      /\ h.open /\ h.row = [g.row EXCEPT !.key = k]
  <2>1. [g.row EXCEPT !.key = k] \in RowType
    BY <1>1 DEF RowType
  <2> QED
    BY <1>1, <2>1 DEF HandType
<1>4. h.row \in RowType /\ h.row.live /\ h.row.key = k
  BY <1>1, <1>3 DEF RowType
<1> HIDE DEF h
<1>5. /\ rows' \in RowsType /\ DOMAIN rows'[t] = DOMAIN rows[t] /\ Len(rows'[t]) = Len(rows[t]) /\ rows'[t][h.rec] = h.row
      /\ \A i \in DOMAIN rows[t] : i # h.rec => rows'[t][i] = rows[t][i]
      /\ \A u \in Tables : u # t => rows'[u] = rows[u]
  <2>1. rows \in RowsType
    BY <1>1 DEF Shape
  <2>2. h.rec \in DOMAIN rows[t] /\ h.row \in RowType /\ rows' = [rows EXCEPT ![t][h.rec] = h.row]
    BY <1>1, <1>2, <1>3, <1>4
  <2>3. PutTo(rows, rows', t, h.rec, h.row)
    BY <2>1, <2>2, PutRow
  <2> QED
    BY <2>3 DEF PutTo
<1>6. Len(rows[t]) <= Len(rows'[t]) /\ Len(rows'[t]) <= MaxRows
  <2>1. Len(rows[t]) \in Nat /\ Len(rows[t]) <= MaxRows
    BY <1>1, RowsShape DEF Shape
  <2> QED
    BY <1>5, <2>1
<1>7. \A u \in Tables : u # t => rows'[u] = settled[u] /\ rows'[u] = rows[u]
  BY <1>1, <1>5 DEF Unchanged
<1>8. /\ DOMAIN rows'[t] = DOMAIN settled[t] \cup {h.rec}
      /\ \A i \in DOMAIN settled[t] : i # h.rec => rows'[t][i] = settled[t][i]
  BY <1>1, <1>3, <1>5 DEF Edited
<1>9. ASSUME h.rec \in DOMAIN settled[t] PROVE h.trust = "sure" /\ ~h.fresh /\ KeyKnown(c, t, h) /\ Referred(c, t, h)
  <2>1. g.trust = "sure" /\ ~g.fresh /\ KeyKnown(c, t, g)
    <3>1. CASE turn = FreeTurn
      <4>1. settled[t][g.rec] = g.row
        BY <1>1, <3>1 DEF Edited
      <4> QED
        BY <1>1, <3>1, <4>1 DEF KeyKnown
    <3>2. CASE turn = <<c, t>>
      BY <1>1, <1>3, <1>9, <3>2 DEF Editing
    <3> QED
      BY <1>1, <3>1, <3>2
  <2>2. KeyKnown(c, t, h)
    BY <1>3, <2>1 DEF KeyKnown
  <2>3. ASSUME NEW r \in Known(c), r.child = t, r.parent # t, k # Blank PROVE LiveIn(settled, r.parent, k) # {}
    <3>1. LiveIn(rows, r.parent, k) # {}
      BY <1>2, <2>1, <2>3, RefersTo
    <3>2. r.parent \in Tables
      BY <1>1, RuleFacts, RuleShape DEF IInv, Calm
    <3>3. rows[r.parent] = settled[r.parent]
      BY <1>1, <2>3, <3>2 DEF Unchanged
    <3> QED
      BY <3>1, <3>3 DEF LiveIn
  <2>4. Referred(c, t, h)
    BY <1>4, <2>3 DEF Referred
  <2> QED
    BY <1>3, <2>1, <2>2, <2>4
<1>10. ASSUME h.rec \notin DOMAIN settled[t] PROVE h.fresh \/ h.trust = "refused"
  BY <1>1, <1>3, <1>10 DEF Editing
<1>11. (h.narrow => \A r \in Known(c) : r.child # t) /\ (h.fresh => h.trust = "sure") /\ h.rec \in 1..Len(settled[t]) + 1
  BY <1>1, <1>3
<1>12. told'[4] \in {"done", "refused"}
  BY <1>1, <1>2 DEF Shape
<1> QED
  BY <1>1, <1>2, <1>3, <1>4, <1>5, <1>6, <1>7, <1>8, <1>9, <1>10, <1>11, <1>12, Edits

---------------------------------------------------------------------------
(* Steps that end a call *)

\* The call of c on t is over: what is in the tables is settled.
LEMMA Ends ==
  ASSUME IInv, NEW c \in Conns, NEW t \in Tables, Here(c), Known(c) = RulesOf(InFile), \A d \in Conns : Resting(d),
         turn \in {FreeTurn, <<c, t>>}, UNCHANGED dictVars,
         call' \in [Conns -> CallType \cup {Idle}], \A d \in Conns : call'[d] = Idle,
         hand' \in [Conns -> [Tables -> HandType \cup {Shut}]],
         \A d \in Conns, u \in Tables :
           d # c \/ u # t => hand'[d][u] = hand[d][u] \/ (d = c /\ Knowing(d, u, hand[d][u])'),
         Knowing(c, t, hand[c][t])',
         \A d \in Conns, u \in Tables : hand'[d][u].open => hand'[d][u].rec <= Len(rows'[u]),
         turn' = FreeTurn, rows' \in RowsType, settled' = rows', \A u \in Tables : Len(rows'[u]) <= MaxRows,
         told'[4] \in {"done", "refused"}, Holds(rows', Known(c))
  PROVE  DataInv'
<1>1. Hands /\ copy' = copy /\ InFile' = InFile
  BY SameDict DEF IInv, DataInv
<1>2. \A u \in Tables : Len(settled'[u]) <= Len(rows'[u])
  BY RowsShape
<1>3. Shape'
  BY <1>2 DEF Shape
<1>4. Hands'
  BY <1>1, HandsKept
<1>5. \A d \in Conns : Resting(d)'
  BY SameDict
<1>6. Settled'
  BY <1>1, <1>5 DEF Settled
<1> QED
  BY <1>3, <1>4, <1>6 DEF DataInv, FreeTurn

\* The handle of a record that is written.
LEMMA WrittenHand ==
  ASSUME NEW c \in Conns, NEW t \in Tables, copy' = copy, Knows(c, t), NEW h, hand'[c][t] = h,
         ~h.fresh, h.trust = "written", h.narrow => \A r \in Known(c) : r.child # t
  PROVE  Knowing(c, t, hand[c][t])'
<1>1. Known(c)' = Known(c) /\ Knows(c, t)' = Knows(c, t)
  BY SameCopies
<1> QED
  BY <1>1 DEF Knowing

LEMMA WriteAppendedSteps ==
  ASSUME IInv, NEW c \in Conns, NEW t \in Tables, Ready(c, t), WriteAppended(c, t), Careful
  PROVE  DataInv'
<1> DEFINE g == hand[c][t]
           k == g.row.key
           rs == Known(c)
           trust == IF Orphan(c, t) THEN "refused" ELSE "written"
           h == [g EXCEPT !.fresh = FALSE, !.trust = trust]
<1>1. /\ Calm(c) /\ turn \in {FreeTurn, <<c, t>>} /\ Shape
      /\ g \in HandType /\ g.open /\ Knows(c, t) /\ (g.narrow => \A r \in Known(c) : r.child # t)
      /\ g.row \in RowType /\ g.row.live /\ g.row = Present(k)
      /\ g.rec \in DOMAIN rows[t] /\ g.rec \in 1..Len(settled[t]) + 1 /\ Unchanged(t) /\ Edited(t, g)
      /\ turn = FreeTurn => ~g.fresh
      /\ turn = <<c, t>> => Editing(c, t, g)
  BY SureFacts DEF WriteAppended
<1>2. /\ g.fresh /\ hand' = [hand EXCEPT ![c][t] = h] /\ UNCHANGED <<rows, call>> /\ UNCHANGED dictVars
      /\ told' = <<"insert", t, k, IF Orphan(c, t) THEN "refused" ELSE "done">>
      /\ settled' = (IF Orphan(c, t) THEN settled ELSE rows) /\ turn' = (IF Orphan(c, t) THEN turn ELSE FreeTurn)
  BY DEF WriteAppended, Hold, Answer, Counted
<1> HIDE DEF g
<1>3. turn = <<c, t>> /\ Editing(c, t, g) /\ g.rec \notin DOMAIN settled[t]
  BY <1>1, <1>2 DEF Editing
<1>4. /\ h \in HandType /\ h.rec = g.rec /\ ~h.fresh /\ h.trust = trust /\ h.narrow = g.narrow
      /\ h.open /\ h.row = g.row
  BY <1>1 DEF HandType
<1>5. rows \in RowsType /\ settled \in RowsType /\ \A u \in Tables : Len(rows[u]) \in Nat /\ Len(rows[u]) <= MaxRows
  BY <1>1, RowsShape DEF Shape
<1>6. copy' = copy
  BY <1>2, SameDict
<1> HIDE DEF h
<1>7. CASE Orphan(c, t)
  <2>1. told'[4] \in {"done", "refused"} /\ turn' = <<c, t>> /\ UNCHANGED <<call, settled>> /\ rows' = rows
    BY <1>2, <1>3, <1>7
  <2>2. /\ h.row.live /\ (h.fresh => h.trust = "sure") /\ h.trust = "refused" /\ h.rec \in 1..Len(settled[t]) + 1
        /\ h.rec \notin DOMAIN settled[t] /\ (h.narrow => \A r \in Known(c) : r.child # t)
    BY <1>1, <1>3, <1>4, <1>7
  <2>3. /\ rows' \in RowsType /\ \A u \in Tables : u # t => rows'[u] = settled[u] /\ rows'[u] = rows[u]
        /\ Len(rows[t]) <= Len(rows'[t]) /\ Len(rows'[t]) <= MaxRows
    BY <1>1, <1>5, <2>1 DEF Unchanged
  <2>4. /\ DOMAIN rows'[t] = DOMAIN settled[t] \cup {h.rec} /\ rows'[t][h.rec] = h.row
        /\ \A i \in DOMAIN settled[t] : i # h.rec => rows'[t][i] = settled[t][i]
    BY <1>1, <1>4, <2>1 DEF Edited
  <2> QED
    BY <1>1, <1>2, <1>4, <2>1, <2>2, <2>3, <2>4, Edits
<1>8. CASE ~Orphan(c, t)
  <2>1. told'[4] \in {"done", "refused"} /\ turn' = FreeTurn /\ call' = call /\ rows' = rows /\ settled' = rows'
    BY <1>2, <1>8
  <2>2. Here(c) /\ rs = RulesOf(InFile) /\ (\A d \in Conns : Resting(d) /\ call[d] = Idle) /\ Holds(settled, rs)
    BY <1>1 DEF Calm
  <2>3. rs \in SUBSET RuleTexts /\ \A r \in rs : r.child = t => \E n \in Referring(c, t) : Rule(c, n) = r
    BY <2>2, RuleFacts DEF IInv
  <2> HIDE DEF rs
  <2>4. ASSUME NEW r \in rs, NEW x \in Keys, r.child = t, r.parent # t, LiveIn(rows, t, x) # {}
        PROVE  LiveIn(settled, r.parent, x) # {}
    <3>1. PICK i \in DOMAIN rows[t] : rows[t][i] = Present(x)
      BY <2>4 DEF LiveIn
    <3>2. CASE i = g.rec
      <4>1. Present(x) = Present(k)
        BY <1>1, <3>1, <3>2 DEF Edited
      <4>2. Present(x).key = x
        BY KeyShape
      <4>3. Present(k).key = k
        <5>1. k \in Keys \cup {Blank}
          BY <1>1, RowShape
        <5> QED
          BY <5>1, KeyShape
      <4>4. x = k /\ k # Blank
        BY <4>1, <4>2, <4>3, RefIntegrityAssumption
      <4>5. PICK n \in Referring(c, t) : Rule(c, n) = r
        BY <2>3, <2>4
      <4>6. Live(r.parent, k) # {}
        BY <1>8, <4>4, <4>5 DEF Orphan, g
      <4>7. Live(r.parent, x) = LiveIn(rows, r.parent, x)
        BY DEF Live, LiveIn, Present
      <4>8. rows[r.parent] = settled[r.parent]
        BY <1>1, <2>3, <2>4, RuleShape DEF Unchanged
      <4> QED
        BY <4>4, <4>6, <4>7, <4>8 DEF LiveIn
    <3>3. CASE i # g.rec
      <4>1. i \in LiveIn(settled, t, x)
        BY <1>1, <3>1, <3>3 DEF Edited, LiveIn
      <4> QED
        BY <1>5, <2>2, <2>3, <2>4, <4>1, HoldsRows
    <3> QED
      BY <3>2, <3>3
  <2>5. \A x : LiveIn(settled, t, x) # {} => LiveIn(rows, t, x) # {}
    <3>1. \A i \in DOMAIN settled[t] : i \in DOMAIN rows[t] /\ rows[t][i] = settled[t][i]
      BY <1>1, <1>3 DEF Edited
    <3> QED
      BY <3>1 DEF LiveIn
  <2>6. \A u \in Tables : u # t => rows[u] = settled[u]
    BY <1>1 DEF Unchanged
  <2>7. Holds(rows, rs)
    <3>1. OneChanged(settled, rows, rs, t)
      BY <2>4, <2>5, <2>6 DEF OneChanged
    <3> QED
      BY <1>5, <1>1, <2>2, <2>3, <3>1, OneTable
  <2>8. /\ hand' \in [Conns -> [Tables -> HandType \cup {Shut}]] /\ hand'[c][t] = h
        /\ \A d \in Conns, u \in Tables : d # c \/ u # t => hand'[d][u] = hand[d][u]
    <3>1. OneHand(c, t, h)
      BY <1>1, <1>2, <1>4, NewHand
    <3> QED
      BY <3>1 DEF OneHand
  <2>9. Knowing(c, t, hand[c][t])'
    BY <1>1, <1>4, <1>6, <1>8, <2>8, WrittenHand
  <2>10. ASSUME NEW d \in Conns, NEW u \in Tables, hand'[d][u].open PROVE hand'[d][u].rec <= Len(rows'[u])
    <3>1. hand'[d][u].rec = hand[d][u].rec /\ hand[d][u].open
      BY <1>1, <1>4, <2>8, <2>10 DEF g
    <3> QED
      BY <1>1, <2>1, <3>1 DEF Shape
  <2>11. call' \in [Conns -> CallType \cup {Idle}] /\ \A d \in Conns : call'[d] = Idle
    BY <1>1, <2>1, <2>2 DEF Shape
  <2> QED
    BY <1>1, <1>2, <1>5, <2>1, <2>2, <2>7, <2>8, <2>9, <2>10, <2>11, Ends DEF rs
<1> QED
  BY <1>7, <1>8

---------------------------------------------------------------------------
(* Steps that begin a call *)

LEMMA LiveIs ==
  ASSUME NEW u, NEW k
  PROVE  Live(u, k) = LiveIn(rows, u, k)
BY DEF Live, LiveIn, Present

\* No children: no rule has any.
LEMMA NoChildren ==
  ASSUME NEW c \in Conns, NEW t, NEW k \in Keys, Children(c, t, k) = {}, NEW q \in Known(c), q.parent = t
  PROVE  LiveIn(rows, q.child, k) = {}
<1>1. k # Blank
  BY RefIntegrityAssumption
<1>2. SUFFICES ASSUME NEW i \in LiveIn(rows, q.child, k) PROVE FALSE
  OBVIOUS
<1>3. i \in Live(q.child, k)
  BY LiveIs
<1>4. <<q.child, i>> \in {<<q.child, x>> : x \in Live(q.child, k)}
  BY <1>3
<1>5. <<q.child, i>> \in Children(c, t, k)
  BY <1>1, <1>4 DEF Children
<1> QED
  BY <1>5

\* What a careful client sees to before it begins is what the call relies on.
LEMMA CarefulRules ==
  ASSUME Shape, DictInv, NEW c \in Conns, Here(c), NEW t \in Tables, NEW k \in Keys, NEW op \in {"upd", "del"},
         Unchanged(t), ~Mixed(c, t, k, op), ~Chained(c, t, k)
  PROVE  Unmixed(settled, From(Known(c), t), op, k) /\ Unchained(Start(t), Known(c), t, k)
<1>1. Known(c) \in SUBSET RuleTexts
  BY RuleFacts
<1>2. Start(t) = rows
  <2>1. rows \in RowsType /\ settled \in RowsType
    BY DEF Shape
  <2>2. DOMAIN Start(t) = Tables /\ \A u \in Tables : Start(t)[u] = rows[u]
    BY <2>1 DEF Start, Unchanged, RowsType
  <2>3. Start(t) = [u \in Tables |-> Start(t)[u]] /\ rows = [u \in Tables |-> rows[u]]
    BY <2>1 DEF Start, RowsType
  <2> QED
    BY <2>2, <2>3
<1>3. ASSUME NEW r \in Known(c), r.parent = t
      PROVE  /\ r.child # t /\ LiveIn(settled, r.child, k) = LiveIn(rows, r.child, k)
             /\ LiveIn(rows, r.child, k) # {} => \A q \in Known(c) : q.parent = r.child => LiveIn(rows, q.child, k) = {}
  <2>1. r.child \in Tables
    BY <1>1, RuleShape
  <2>2. r.child # t /\ (Live(r.child, k) = {} \/ Children(c, r.child, k) = {})
    BY <1>3 DEF Chained
  <2>3. rows[r.child] = settled[r.child]
    BY <2>1, <2>2 DEF Unchanged
  <2>4. LiveIn(settled, r.child, k) = LiveIn(rows, r.child, k)
    BY <2>3 DEF LiveIn
  <2> QED
    BY <2>2, <2>4, LiveIs, NoChildren
<1>4. Unchained(Start(t), Known(c), t, k)
  BY <1>2, <1>3 DEF Unchained
<1>5. ASSUME NEW q \in From(Known(c), t), NEW r \in From(Known(c), t), q[op] # r[op], q.child = r.child \/ q[op] = "restrict"
      PROVE  LiveIn(settled, q.child, k) = {} \/ LiveIn(settled, r.child, k) = {}
  <2>1. q \in Known(c) /\ r \in Known(c) /\ q.parent = t /\ r.parent = t
    BY DEF From
  <2>2. Live(q.child, k) = {} \/ Live(r.child, k) = {}
    BY <1>5, <2>1 DEF Mixed
  <2> QED
    BY <1>3, <2>1, <2>2, LiveIs
<1> QED
  BY <1>4, <1>5 DEF Unmixed

LEMMA Begins ==
  ASSUME IInv, NEW c \in Conns, NEW t \in Tables, Calm(c), turn \in {FreeTurn, <<c, t>>}, NEW op \in {"upd", "del"},
         NEW h \in HandType, h.open, Knows(c, t), h.narrow => \A r \in Known(c) : r.child # t, ~h.fresh,
         h.rec \in 1..Len(settled[t]) + 1, h.rec <= Len(rows[t]), h.row.live, Edited(t, h), Unchanged(t),
         OneHand(c, t, h), call' = [call EXCEPT ![c] = [op |-> op, table |-> t, todo |-> Parenting(c, t)]],
         turn' = <<c, t>>, UNCHANGED <<rows, told, settled>>, UNCHANGED dictVars,
         op = "upd" => h.rec \in DOMAIN settled[t] /\ KeyKnown(c, t, h) /\ Referred(c, t, h),
         op = "del" /\ h.rec \in DOMAIN settled[t] => settled[t][h.rec] = h.row,
         op = "del" /\ h.rec \notin DOMAIN settled[t] =>
           t \notin Superseded /\ \A r \in From(Known(c), t) : h.row.key # Blank => LiveIn(settled, r.child, h.row.key) = {},
         NEW k, k = IF op = "upd" THEN h.snap ELSE h.row.key,
         k \notin {Unset, Blank} /\ (op = "upd" => k # h.row.key) =>
           Unmixed(settled, From(Known(c), t), op, k) /\ Unchained(Start(t), Known(c), t, k)
  PROVE  DataInv'
<1>1. Shape /\ Hands /\ Settled /\ copy' = copy /\ InFile' = InFile /\ SwapsMemo' = SwapsMemo
  BY SameDict DEF IInv, DataInv
<1>2. /\ hand' \in [Conns -> [Tables -> HandType \cup {Shut}]] /\ hand'[c][t] = h
      /\ \A d \in Conns, u \in Tables : d # c \/ u # t => hand'[d][u] = hand[d][u]
  BY DEF OneHand
<1>3. Here(c) /\ Known(c) = RulesOf(InFile) /\ \A d \in Conns : Resting(d) /\ call[d] = Idle
  BY DEF Calm
<1>4. /\ Parenting(c, t) \subseteq Of("RI")
      /\ \A r \in From(Known(c), t) : \E n \in Parenting(c, t) : Rule(c, n) = r
  BY <1>3, RuleFacts DEF IInv
<1> DEFINE new == [op |-> op, table |-> t, todo |-> Parenting(c, t)]
<1>5. new \in CallType /\ new.op = op /\ new.table = t /\ new.todo = Parenting(c, t) /\ new # Idle
  <2>1. new \in CallType /\ new.op = op /\ new.table = t /\ new.todo = Parenting(c, t)
    BY <1>4 DEF CallType
  <2>2. Idle.op = "idle"
    BY DEF Idle
  <2> QED
    BY <2>1, <2>2
<1> HIDE DEF new
<1>6. /\ call' \in [Conns -> CallType \cup {Idle}] /\ call'[c] = new /\ \A d \in Conns : d # c => call'[d] = Idle
  <2>1. call \in [Conns -> CallType \cup {Idle}] /\ call' = [call EXCEPT ![c] = new]
    BY <1>1 DEF Shape, new
  <2> QED
    BY <1>3, <1>5, <2>1
<1>7. Shape'
  <2>1. ASSUME NEW d \in Conns, NEW u \in Tables, hand'[d][u].open PROVE hand'[d][u].rec <= Len(rows'[u])
    BY <1>1, <1>2, <2>1 DEF Shape
  <2> QED
    BY <1>1, <1>2, <1>6, <2>1 DEF Shape
<1>8. Known(c)' = Known(c) /\ Here(c)' = Here(c) /\ Knows(c, t)' = Knows(c, t) /\ Parenting(c, t)' = Parenting(c, t)
      /\ \A n : Rule(c, n)' = Rule(c, n)
  BY <1>1, SameCopies
<1>9. Knowing(c, t, hand[c][t])'
  BY <1>2, <1>8 DEF Knowing
<1>10. Hands'
  BY <1>1, <1>2, <1>3, <1>5, <1>6, <1>9, HandsKept
<1>11. \A d \in Conns : Resting(d)'
  BY <1>3, SameDict
<1>12. Settled'
  BY <1>1, <1>11 DEF Settled, FreeTurn
<1>13. OldKey(c)' = k /\ (Concerned(c)' <=> k \notin {Unset, Blank} /\ (op = "upd" => k # h.row.key))
  <2>1. OldKey(c)' = k
    BY <1>2, <1>5, <1>6 DEF OldKey
  <2> QED
    BY <1>2, <1>5, <1>6, <2>1 DEF Concerned
<1>14. ASSUME Concerned(c)' PROVE Progress(c, t, op, k, h.row.key)'
  <2> DEFINE rs == From(Known(c), t)
  <2>1. k \in Keys /\ (op = "upd" => h.row.key # k)
    <3>1. h.snap \in Keys \cup {Blank, Unset} /\ h.row.key \in Keys \cup {Blank}
      BY DEF HandType, RowType
    <3> QED
      BY <1>13, <1>14, <3>1
  <2>2. TablesMade(settled, rows, rs, t, op, k, h.row.key)
    BY DEF TablesMade, Unchanged
  <2>3. RulesMet(settled, rows, rs, {Rule(c, n) : n \in Parenting(c, t)}, op, k, h.row.key)
    BY <1>4 DEF RulesMet
  <2>4. Coming(c)' = {Rule(c, n) : n \in Parenting(c, t)}
    BY <1>5, <1>6, <1>8 DEF Coming
  <2>5. Unmixed(settled, rs, op, k) /\ Unchained(Start(t), Known(c), t, k)
    BY <1>13, <1>14
  <2>6. Start(t)' = Start(t)
    BY DEF Start
  <2> QED
    BY <1>8, <2>1, <2>2, <2>3, <2>4, <2>5, <2>6 DEF Progress
<1>15. Unchanged(t)' /\ Edited(t, hand[c][t])'
  BY <1>2 DEF Unchanged, Edited
<1>16. Acting(c, t, hand[c][t])'
  <2>1. call'[c].table = t /\ call'[c].todo = Parenting(c, t) /\ call'[c].op = op
    BY <1>5, <1>6
  <2>2. op = "upd" => KeyKnown(c, t, hand[c][t])' /\ Referred(c, t, hand[c][t])'
    BY <1>2, <1>8 DEF KeyKnown, Referred
  <2>3. Concerned(c)' => Progress(c, t, call[c].op, OldKey(c), hand[c][t].row.key)'
    <3>1. ASSUME Concerned(c)' PROVE Progress(c, t, op, k, h.row.key)'
      BY <1>14, <3>1
    <3> QED
      BY <1>2, <1>13, <2>1, <3>1 DEF Progress
  <2> QED
    BY <1>2, <1>8, <1>15, <2>1, <2>2, <2>3 DEF Acting
<1>17. Busy(c, t)'
  BY <1>1, <1>2, <1>3, <1>5, <1>6, <1>8, <1>11, <1>15, <1>16 DEF Busy
<1> QED
  <2>1. \A d \in Conns, u \in Tables : turn' = <<d, u>> => d = c /\ u = t
    OBVIOUS
  <2> QED
    BY <1>7, <1>10, <1>12, <1>17, <2>1 DEF DataInv

\* The record that is written refers to a row: it was checked when the field was
\* set, or the row is as it was.
LEMMA StillRefers ==
  ASSUME IInv, NEW c \in Conns, NEW t \in Tables, Calm(c), NEW h, h.rec \in DOMAIN settled[t],
         settled[t][h.rec] = h.row, h.row = Present(h.row.key), h.row.key \in Keys \cup {Blank}
  PROVE  Referred(c, t, h)
<1> SUFFICES ASSUME h.row.key # Blank, NEW r \in Known(c), r.child = t
             PROVE  LiveIn(settled, r.parent, h.row.key) # {}
  BY DEF Referred
<1>1. Known(c) \in SUBSET RuleTexts /\ Holds(settled, Known(c)) /\ settled \in RowsType
  BY RuleFacts DEF Calm, IInv, DataInv, Shape
<1>2. LiveIn(settled, t, h.row.key) # {}
  BY DEF LiveIn
<1> QED
  BY <1>1, <1>2, HoldsRows

LEMMA WriteChangedSteps ==
  ASSUME IInv, NEW c \in Conns, NEW t \in Tables, Ready(c, t), WriteChanged(c, t), Careful
  PROVE  DataInv'
<1> DEFINE h == hand[c][t]
           k == h.snap
<1>1. /\ Calm(c) /\ turn \in {FreeTurn, <<c, t>>} /\ Shape
      /\ h \in HandType /\ h.open /\ Knows(c, t) /\ (h.narrow => \A r \in Known(c) : r.child # t)
      /\ h.row \in RowType /\ h.row.live /\ h.row = Present(h.row.key) /\ h.trust \in {"sure", "refused"}
      /\ h.rec \in DOMAIN rows[t] /\ h.rec \in 1..Len(settled[t]) + 1 /\ Unchanged(t) /\ Edited(t, h)
      /\ turn = FreeTurn =>
           /\ rows = settled /\ h.rec \in DOMAIN settled[t] /\ h.trust = "sure" /\ ~h.fresh
           /\ Parenting(c, t) # {} => h.snap = h.row.key
      /\ turn = <<c, t>> => Editing(c, t, h)
  BY SureFacts DEF WriteChanged
<1>2. /\ ~h.fresh /\ h.trust # "refused" /\ ~Mixed(c, t, k, "upd") /\ (k # h.row.key => ~Chained(c, t, k))
      /\ call' = [call EXCEPT ![c] = [op |-> "upd", table |-> t, todo |-> Parenting(c, t)]]
      /\ turn' = <<c, t>> /\ UNCHANGED <<rows, hand, told, settled>> /\ UNCHANGED dictVars
  BY DEF WriteChanged, May, Careful, Begin, Counted
<1>3. OneHand(c, t, h)
  BY <1>1, <1>2 DEF OneHand, Shape
<1> HIDE DEF h
<1>4. h.rec \in DOMAIN settled[t] /\ KeyKnown(c, t, h) /\ Referred(c, t, h)
  <2>1. CASE turn = FreeTurn
    <3>1. settled[t][h.rec] = h.row
      BY <1>1, <2>1 DEF Edited
    <3>2. Referred(c, t, h)
      <4>1. h.row.key \in Keys \cup {Blank}
        BY <1>1, RowShape
      <4> QED
        BY <1>1, <2>1, <3>1, <4>1, StillRefers
    <3> QED
      BY <1>1, <2>1, <3>1, <3>2 DEF KeyKnown
  <2>2. CASE turn = <<c, t>>
    BY <1>1, <1>2, <2>2 DEF Editing
  <2> QED
    BY <1>1, <2>1, <2>2
<1>5. k \notin {Unset, Blank} /\ k # h.row.key =>
        Unmixed(settled, From(Known(c), t), "upd", k) /\ Unchained(Start(t), Known(c), t, k)
  <2>1. SUFFICES ASSUME k \notin {Unset, Blank}, k # h.row.key
                 PROVE  Unmixed(settled, From(Known(c), t), "upd", k) /\ Unchained(Start(t), Known(c), t, k)
    OBVIOUS
  <2>2. k \in Keys
    BY <1>1, <2>1 DEF HandType
  <2>3. Here(c) /\ DictInv
    BY <1>1 DEF Calm, IInv
  <2> QED
    BY <1>1, <1>2, <2>1, <2>2, <2>3, CarefulRules
<1>6. h.rec <= Len(rows[t])
  BY <1>1, RowsShape DEF Shape
<1> QED
  BY <1>1, <1>2, <1>3, <1>4, <1>5, <1>6, Begins

LEMMA DeleteSteps ==
  ASSUME IInv, NEW c \in Conns, NEW t \in Tables, Ready(c, t), DeleteRecord(c, t), Careful
  PROVE  DataInv'
<1> DEFINE g == hand[c][t]
           h == [g EXCEPT !.fresh = FALSE]
           k == g.row.key
<1>1. /\ Calm(c) /\ turn \in {FreeTurn, <<c, t>>} /\ Shape
      /\ g \in HandType /\ g.open /\ Knows(c, t) /\ (g.narrow => \A r \in Known(c) : r.child # t)
      /\ g.row \in RowType /\ g.row.live
      /\ g.rec \in DOMAIN rows[t] /\ g.rec \in 1..Len(settled[t]) + 1 /\ Unchanged(t) /\ Edited(t, g)
      /\ turn = FreeTurn => rows = settled
      /\ turn = <<c, t>> => Editing(c, t, g)
  BY SureFacts DEF DeleteRecord
<1>2. /\ turn = FreeTurn \/ g.trust = "refused" \/ g.fresh
      /\ g.rec \notin DOMAIN settled[t] => Children(c, t, k) = {} /\ t \notin Superseded
      /\ ~Mixed(c, t, k, "del") /\ ~Chained(c, t, k) /\ hand' = [hand EXCEPT ![c][t].fresh = FALSE]
      /\ call' = [call EXCEPT ![c] = [op |-> "del", table |-> t, todo |-> Parenting(c, t)]]
      /\ turn' = <<c, t>> /\ UNCHANGED <<rows, told, settled>> /\ UNCHANGED dictVars
  BY DEF DeleteRecord, May, Careful, Begin, Counted, Given
<1>3. hand' = [hand EXCEPT ![c][t] = h]
  BY <1>1, <1>2 DEF Shape
<1> HIDE DEF g
<1>4. /\ h \in HandType /\ h.rec = g.rec /\ ~h.fresh /\ h.trust = g.trust /\ h.narrow = g.narrow
      /\ h.open /\ h.row = g.row
  BY <1>1 DEF HandType
<1> HIDE DEF h
<1>5. OneHand(c, t, h)
  BY <1>1, <1>3, <1>4, NewHand
<1>6. Edited(t, h) /\ h.row.live /\ h.rec \in 1..Len(settled[t]) + 1 /\ (h.narrow => \A r \in Known(c) : r.child # t)
  BY <1>1, <1>4 DEF Edited
<1>7. h.rec \in DOMAIN settled[t] => settled[t][h.rec] = h.row
  <2>1. SUFFICES ASSUME g.rec \in DOMAIN settled[t] PROVE settled[t][g.rec] = g.row
    BY <1>4
  <2>2. turn = FreeTurn
    BY <1>1, <1>2, <2>1 DEF Editing
  <2> QED
    BY <1>1, <2>2 DEF Edited
<1>8. Known(c) \in SUBSET RuleTexts /\ DictInv /\ Here(c)
  BY <1>1, RuleFacts DEF Calm, IInv
<1>9. ASSUME h.rec \notin DOMAIN settled[t]
      PROVE  t \notin Superseded /\ \A r \in From(Known(c), t) : h.row.key # Blank => LiveIn(settled, r.child, h.row.key) = {}
  <2>1. Children(c, t, k) = {} /\ t \notin Superseded
    BY <1>2, <1>4, <1>9
  <2>2. ASSUME NEW r \in From(Known(c), t), k # Blank PROVE LiveIn(settled, r.child, k) = {}
    <3>1. r \in Known(c) /\ r.parent = t /\ r.child # t /\ r.child \in Tables
      BY <1>2, <1>8, RuleShape DEF From, Chained
    <3>2. k \in Keys
      BY <1>1, <2>2 DEF RowType
    <3>3. LiveIn(rows, r.child, k) = {}
      BY <2>1, <3>1, <3>2, NoChildren
    <3>4. rows[r.child] = settled[r.child]
      BY <1>1, <3>1 DEF Unchanged
    <3> QED
      BY <3>3, <3>4 DEF LiveIn
  <2> QED
    BY <1>4, <2>1, <2>2
<1>10. k \notin {Unset, Blank} => Unmixed(settled, From(Known(c), t), "del", k) /\ Unchained(Start(t), Known(c), t, k)
  <2>1. k \notin {Unset, Blank} => k \in Keys
    BY <1>1 DEF RowType
  <2> QED
    BY <1>1, <1>2, <1>8, <2>1, CarefulRules
<1>11. k = h.row.key /\ h.rec <= Len(rows[t])
  BY <1>1, <1>4, RowsShape DEF Shape
<1> HIDE DEF k
<1> QED
  BY <1>1, <1>2, <1>4, <1>5, <1>6, <1>7, <1>9, <1>10, <1>11, Begins

---------------------------------------------------------------------------
(* Steps of a call that applies rules *)

\* A call of c on t is under way.
InCall(c, t) ==
  LET h == hand[c][t] IN
  /\ Shape /\ t \in Tables /\ call[c] # Idle /\ call[c] \in CallType /\ call[c].table = t /\ turn = <<c, t>>
  /\ call[c].op \in {"upd", "del"} /\ call[c].todo \subseteq Parenting(c, t)
  /\ Here(c) /\ Known(c) = RulesOf(InFile) /\ (\A d \in Conns : Resting(d)) /\ \A d \in Conns : d # c => call[d] = Idle
  /\ Known(c) \in SUBSET RuleTexts /\ Single(Known(c)) /\ Holds(settled, Known(c))
  /\ \A n \in call[c].todo : Rule(c, n) \in From(Known(c), t) /\ Knows(c, Rule(c, n).child)
  /\ h \in HandType /\ h.open /\ ~h.fresh /\ Knows(c, t) /\ (h.narrow => \A r \in Known(c) : r.child # t)
  /\ h.row \in RowType /\ h.row.live /\ h.row = Present(h.row.key) /\ h.row.key \in Keys \cup {Blank}
  /\ h.rec \in 1..Len(settled[t]) + 1 /\ h.rec \in DOMAIN rows[t] /\ Edited(t, h) /\ Acting(c, t, h)

LEMMA CallsUnderWay ==
  ASSUME IInv, NEW c \in Conns, call[c] # Idle
  PROVE  InCall(c, call[c].table)
<1> DEFINE t == call[c].table
           h == hand[c][t]
<1>1. Shape /\ Hands /\ Settled /\ DictInv
  BY DEF IInv, DataInv
<1>2. call[c] \in CallType /\ call[c].op \in {"upd", "del"} /\ t \in Tables
  <2>1. call[c] \in CallType \cup {Idle}
    BY <1>1 DEF Shape
  <2> QED
    BY <2>1, CallShape
<1> HIDE DEF t
<1>3. turn = <<c, t>>
  BY <1>1 DEF Hands, t
<1>4. Busy(c, t)
  BY <1>2, <1>3 DEF IInv, DataInv
<1>5. /\ Here(c) /\ Known(c) = RulesOf(InFile) /\ (\A d \in Conns : Resting(d)) /\ \A d \in Conns : d # c => call[d] = Idle
      /\ h.open /\ h.rec \in 1..Len(settled[t]) + 1 /\ h.row.live /\ Edited(t, h) /\ ~h.fresh /\ Acting(c, t, h)
  BY <1>4 DEF Busy
<1>6. call[c].todo \subseteq Parenting(c, t)
  BY <1>5 DEF Acting
<1>7. Known(c) \in SUBSET RuleTexts /\ \A n \in call[c].todo : Rule(c, n) \in From(Known(c), t) /\ Knows(c, Rule(c, n).child)
  <2>1. /\ Known(c) \in SUBSET RuleTexts /\ \A r \in Known(c) : Knows(c, r.parent) /\ Knows(c, r.child)
        /\ \A n \in Parenting(c, t) : n \in Of("RI") /\ Rule(c, n) \in From(Known(c), t)
    BY <1>1, <1>2, <1>5, RuleFacts
  <2> QED
    BY <1>6, <2>1 DEF From
<1>8. Single(Known(c)) /\ Holds(settled, Known(c))
  <2>1. ~SwapsMemo /\ Single(RulesOf(InFile))
    BY <1>1, <1>5, SingleRules
  <2> QED
    BY <1>1, <1>5, <2>1 DEF Settled
<1>9. h \in HandType /\ Knowing(c, t, h)
  BY <1>1, <1>2, <1>5, HandOf DEF Hands
<1> HIDE DEF h
<1>10. Knows(c, t) /\ (h.narrow => \A r \in Known(c) : r.child # t)
  BY <1>5, <1>9 DEF Knowing
<1>11. h.row \in RowType /\ h.row = Present(h.row.key) /\ h.row.key \in Keys \cup {Blank}
  <2>1. h.row \in RowType
    BY <1>9 DEF HandType
  <2> QED
    BY <1>5, <2>1, LiveRow, RowShape
<1>12. h.rec \in DOMAIN rows[t]
  BY <1>5 DEF Edited
<1> QED
  BY <1>1, <1>2, <1>3, <1>5, <1>6, <1>7, <1>8, <1>9, <1>10, <1>11, <1>12 DEF InCall, h, t

\* Rule n is dealt with, and the call goes on.
Left(c, n) == {Rule(c, m) : m \in call[c].todo \ {n}}
RowsGoOn(c, t, n, v) ==
  LET rs == From(Known(c), t)
      op == call[c].op
      new == hand[c][t].row.key
  IN /\ v \in RowsType /\ v[t] = rows[t] /\ \A u \in Tables : Len(v[u]) = Len(rows[u])
     /\ ~Concerned(c) => v = rows
     /\ Concerned(c) => /\ TablesMade(settled, v, rs, t, op, OldKey(c), new)
                        /\ RulesMet(settled, v, rs, Left(c, n), op, OldKey(c), new)
LEMMA GoesOn ==
  ASSUME IInv, NEW c \in Conns, NEW t, InCall(c, t), NEW n \in call[c].todo,
         UNCHANGED <<told, turn, settled>>, UNCHANGED dictVars,
         call' = [call EXCEPT ![c].todo = @ \ {n}],
         hand' \in [Conns -> [Tables -> HandType \cup {Shut}]], hand'[c][t] = hand[c][t],
         \A d \in Conns, u \in Tables :
           d # c \/ u # t => hand'[d][u] = hand[d][u] \/ (d = c /\ Knowing(d, u, hand[d][u])'),
         \A d \in Conns, u \in Tables : hand'[d][u].open => hand'[d][u].rec <= Len(rows'[u]),
         RowsGoOn(c, t, n, rows')
  PROVE  DataInv'
<1> DEFINE h == hand[c][t]
           op == call[c].op
           new == [op |-> op, table |-> t, todo |-> call[c].todo \ {n}]
<1>1. /\ Shape /\ Hands /\ Settled /\ copy' = copy /\ InFile' = InFile /\ SwapsMemo' = SwapsMemo
  BY SameDict DEF IInv, DataInv
<1>2. /\ t \in Tables /\ call[c] # Idle /\ call[c] \in CallType /\ call[c].table = t /\ turn = <<c, t>>
      /\ op \in {"upd", "del"} /\ call[c].todo \subseteq Parenting(c, t)
      /\ Here(c) /\ Known(c) = RulesOf(InFile) /\ (\A d \in Conns : Resting(d)) /\ (\A d \in Conns : d # c => call[d] = Idle)
      /\ h.open /\ ~h.fresh /\ h.row.live /\ h.rec \in 1..Len(settled[t]) + 1 /\ Edited(t, h) /\ Acting(c, t, h)
  BY DEF InCall
<1>3. new \in CallType /\ new # Idle
  <2>1. call[c].todo \subseteq Of("RI")
    BY <1>2 DEF CallType
  <2>2. new \in CallType
    BY <1>2, <2>1 DEF CallType
  <2>3. new.op \in {"upd", "del"} /\ Idle.op = "idle"
    BY <1>2 DEF Idle
  <2> QED
    BY <2>2, <2>3
<1>4. call' \in [Conns -> CallType \cup {Idle}] /\ call'[c] = new /\ \A d \in Conns : d # c => call'[d] = call[d]
  <2>1. [call[c] EXCEPT !.todo = @ \ {n}] = new
    <3>1. \A x \in CallType : \A todo : [x EXCEPT !.todo = todo] = [op |-> x.op, table |-> x.table, todo |-> todo]
      BY DEF CallType
    <3> QED
      BY <1>2, <3>1
  <2>2. call \in [Conns -> CallType \cup {Idle}]
    BY <1>1 DEF Shape
  <2>3. call' = [call EXCEPT ![c] = new]
    BY <2>1, <2>2
  <2> HIDE DEF new
  <2> QED
    BY <1>3, <2>2, <2>3
<1>5. call'[c].op = op /\ call'[c].table = t /\ call'[c].todo = call[c].todo \ {n} /\ call'[c] # Idle
  BY <1>3, <1>4
<1> HIDE DEF new, h
<1>6. hand'[c][t] = h
  BY DEF h
<1>7. Shape'
  BY <1>1, <1>4 DEF Shape, RowsGoOn
<1>8. Known(c)' = Known(c) /\ Here(c)' = Here(c) /\ Knows(c, t)' = Knows(c, t) /\ Parenting(c, t)' = Parenting(c, t)
      /\ \A m : Rule(c, m)' = Rule(c, m)
  BY <1>1, <1>2, SameCopies
<1>9. Knowing(c, t, hand[c][t])'
  <2>1. Knowing(c, t, hand[c][t])
    BY <1>1, <1>2 DEF Hands
  <2> QED
    BY <1>8, <2>1 DEF Knowing
<1>10. Hands'
  <2>1. turn \in {FreeTurn, <<c, t>>} /\ turn' \in {FreeTurn, <<c, t>>} /\ turn' = <<c, call'[c].table>>
    BY <1>2, <1>5
  <2>2. \A d \in Conns : d # c => call'[d] = Idle
    BY <1>2, <1>4
  <2> QED
    BY <1>1, <1>2, <1>9, <2>1, <2>2, HandsKept
<1>11. \A d \in Conns : Resting(d)'
  BY <1>2, SameDict
<1>12. Settled'
  BY <1>1, <1>2, <1>11 DEF Settled, FreeTurn
<1>13. OldKey(c)' = OldKey(c) /\ (Concerned(c)' <=> Concerned(c))
  <2>1. OldKey(c)' = OldKey(c)
    BY <1>2, <1>5 DEF OldKey
  <2> QED
    BY <1>2, <1>5, <2>1 DEF Concerned
<1>14. ASSUME Concerned(c) PROVE Progress(c, t, call[c].op, OldKey(c), hand[c][t].row.key)'
  <2> DEFINE rs == From(Known(c), t)
  <2>1. /\ OldKey(c) \in Keys /\ (op = "upd" => h.row.key # OldKey(c))
        /\ Unmixed(settled, rs, op, OldKey(c)) /\ Unchained(Start(t), Known(c), t, OldKey(c))
    BY <1>2, <1>14 DEF Acting, Progress
  <2>2. /\ TablesMade(settled, rows', rs, t, op, OldKey(c), h.row.key)
        /\ RulesMet(settled, rows', rs, Left(c, n), op, OldKey(c), h.row.key)
    BY <1>14 DEF h, RowsGoOn
  <2>3. Coming(c)' = Left(c, n)
    BY <1>5, <1>8 DEF Coming, Left
  <2>4. Start(t)' = Start(t)
    BY DEF Start, RowsGoOn
  <2> QED
    BY <1>5, <1>6, <1>8, <1>13, <2>1, <2>2, <2>3, <2>4 DEF Progress
<1>15. Edited(t, hand[c][t])' /\ (~Concerned(c) => Unchanged(t)')
  BY <1>2, <1>6 DEF Unchanged, Edited, Acting, RowsGoOn
<1>16. Acting(c, t, hand[c][t])'
  <2>1. op = "upd" => KeyKnown(c, t, hand[c][t])' /\ Referred(c, t, hand[c][t])'
    BY <1>2, <1>6, <1>8 DEF KeyKnown, Referred, Acting
  <2>2. Concerned(c)' => Progress(c, t, call[c].op, OldKey(c), hand[c][t].row.key)'
    BY <1>13, <1>14
  <2>3. /\ op = "upd" => h.rec \in DOMAIN settled[t]
        /\ op = "del" /\ h.rec \in DOMAIN settled[t] => settled[t][h.rec] = h.row
        /\ op = "del" /\ h.rec \notin DOMAIN settled[t] =>
             t \notin Superseded /\ \A r \in From(Known(c), t) : h.row.key # Blank => LiveIn(settled, r.child, h.row.key) = {}
    BY <1>2 DEF Acting
  <2>4. call'[c].todo \subseteq Parenting(c, t)'
    BY <1>2, <1>5, <1>8
  <2> QED
    BY <1>5, <1>6, <1>8, <1>13, <1>15, <2>1, <2>2, <2>3, <2>4 DEF Acting
<1>17. Busy(c, t)'
  BY <1>1, <1>2, <1>4, <1>5, <1>6, <1>8, <1>11, <1>15, <1>16 DEF Busy
<1> QED
  <2>1. \A d \in Conns, u \in Tables : turn' = <<d, u>> => d = c /\ u = t
    BY <1>2
  <2> QED
    BY <1>7, <1>10, <1>12, <1>17, <2>1 DEF DataInv

LEMMA PassSteps ==
  ASSUME IInv, NEW c \in Conns, PassRule(c)
  PROVE  DataInv'
<1> DEFINE t == call[c].table
<1>1. call[c] # Idle /\ InCall(c, t)
  BY CallsUnderWay DEF PassRule
<1>2. PICK n \in call[c].todo : /\ ~Concerned(c) \/ ~Knows(c, Rule(c, n).child)
                               /\ call' = [call EXCEPT ![c].todo = @ \ {n}]
  BY DEF PassRule
<1>3. UNCHANGED <<rows, hand, told, turn, settled, calls, dictVars>>
  BY DEF PassRule
<1>4. ~Concerned(c)
  BY <1>1, <1>2 DEF InCall
<1>5. Shape
  BY DEF IInv, DataInv
<1> HIDE DEF t
<1>6. /\ hand' \in [Conns -> [Tables -> HandType \cup {Shut}]] /\ hand' = hand /\ rows' = rows /\ rows' \in RowsType
      /\ \A d \in Conns, u \in Tables : hand'[d][u].open => hand'[d][u].rec <= Len(rows'[u])
  BY <1>3, <1>5 DEF Shape
<1>7. RowsGoOn(c, t, n, rows')
  BY <1>4, <1>6 DEF RowsGoOn
<1> QED
  BY <1>1, <1>2, <1>3, <1>6, <1>7, GoesOn

\* The handles of c, when the one on u has moved over the rows of a child.
MovedOn(c, u, m) ==
  /\ m \in [Tables -> HandType \cup {Shut}] /\ \A y \in Tables : y # u => m[y] = hand[c][y]
  /\ m[u].open => m[u].rec <= Len(rows[u])
\* The handle on the child of a rule, when the rule has done with its rows.
LEMMA MovedHands ==
  ASSUME IInv, NEW c \in Conns, NEW t, InCall(c, t), NEW u \in Tables, u # t, copy' = copy,
         NEW after \in Seq(RowType), Len(after) = Len(rows[u]), NEW found \in SUBSET (DOMAIN rows[u]),
         NEW stop \in BOOLEAN, NEW m, m = Moved(c, u, after, found, stop)
  PROVE  MovedOn(c, u, m) /\ (hand'[c][u] = m[u] => Knowing(c, u, hand[c][u])')
<1> DEFINE h == hand[c][u]
           least == CHOOSE x \in found : \A y \in found : x <= y
           greatest == CHOOSE x \in found : \A y \in found : y <= x
           r == IF found = {} THEN 0 ELSE IF stop THEN least ELSE greatest
           row == IF r = 0 THEN Row(FALSE, Blank) ELSE after[r]
           at == At(h, r, row)
           new == [at EXCEPT !.trust = "moved"]
<1>1. Shape /\ Hands /\ turn = <<c, t>>
  BY DEF IInv, DataInv, InCall
<1>2. DOMAIN rows[u] = 1..Len(rows[u]) /\ Len(rows[u]) \in Nat /\ Len(rows[u]) <= MaxRows /\ MaxRows \in Nat
  BY <1>1, RowsShape, RefIntegrityAssumption DEF Shape
<1>3. r \in 0..Len(rows[u])
  <2>1. CASE found = {}
    BY <1>2, <2>1
  <2>2. CASE found # {}
    <3>1. found \in SUBSET Nat /\ found \in SUBSET Int /\ \A x \in found : x <= Len(rows[u])
      BY <1>2
    <3>2. \E x \in found : \A y \in found : x <= y
      BY <2>2, <3>1, LeastNat
    <3>3. \E x \in found : \A y \in found : y <= x
      <4>1. \A z \in Int : (\A x \in found : x <= z) => \E x \in found : \A y \in found : y <= x
        BY <2>2, <3>1, LargestInt
      <4>2. Len(rows[u]) \in Int
        BY <1>2
      <4> HIDE DEF least, greatest
      <4> QED
        BY <3>1, <4>1, <4>2
    <3>4. least \in found /\ greatest \in found
      BY <3>2, <3>3
    <3> HIDE DEF least, greatest
    <3> QED
      BY <1>2, <2>2, <3>4
  <2> QED
    BY <2>1, <2>2
<1> HIDE DEF r
<1>4. row \in RowType
  <2>1. CASE r = 0
    <3>1. row = Absent(Blank)
      BY <2>1 DEF Absent
    <3> HIDE DEF row
    <3> QED
      BY <3>1, KeyShape
  <2>2. CASE r # 0
    <3>1. r \in DOMAIN after
      BY <1>2, <1>3, <2>2
    <3> QED
      BY <2>2, <3>1
  <2> QED
    BY <2>1, <2>2
<1> HIDE DEF row
<1>5. h \in HandType \cup {Shut} /\ (h.open => h \in HandType) /\ Knowing(c, u, h)
  BY <1>1, HandOf DEF Hands
<1> HIDE DEF h
<1>6. h.open => /\ at \in HandType /\ at.rec = r /\ at.narrow = h.narrow /\ at.fresh = h.fresh
  <2>1. r \in 0..MaxRows
    BY <1>2, <1>3
  <2> QED
    BY <1>4, <1>5, <2>1 DEF At, HandType
<1> HIDE DEF at
<1>7. h.open => /\ new \in HandType /\ new.rec = r /\ new.narrow = h.narrow /\ new.fresh = h.fresh /\ new.trust = "moved"
  BY <1>6 DEF HandType
<1> HIDE DEF new
<1> DEFINE now == IF h.open THEN new ELSE Shut
<1>8. MovedTo(c, u, after, found, stop) = new
  BY DEF MovedTo, new, at, row, r, h
<1>9. m = [hand[c] EXCEPT ![u] = now]
  BY <1>8 DEF Moved, h
<1>10. now \in HandType \cup {Shut} /\ (now.open <=> h.open)
  <2>1. ~Shut.open
    BY DEF Shut
  <2>2. CASE h.open
    BY <1>7, <2>2, HandShape DEF HandType
  <2>3. CASE ~h.open
    BY <2>1, <2>3
  <2> QED
    BY <2>2, <2>3
<1>11. m \in [Tables -> HandType \cup {Shut}] /\ m[u] = now /\ \A y \in Tables : y # u => m[y] = hand[c][y]
  <2>1. hand[c] \in [Tables -> HandType \cup {Shut}]
    BY <1>1 DEF Shape
  <2> HIDE DEF now
  <2> QED
    BY <1>9, <1>10, <2>1
<1>12. m[u].open => m[u].rec <= Len(rows[u])
  BY <1>2, <1>3, <1>7, <1>10, <1>11
<1>13. ASSUME hand'[c][u] = m[u] PROVE Knowing(c, u, hand[c][u])'
  <2>1. Knows(c, u)' = Knows(c, u) /\ Known(c)' = Known(c)
    BY SameCopies
  <2>2. h.open => ~h.fresh
    BY <1>1, <1>5 DEF Knowing
  <2> QED
    BY <1>5, <1>7, <1>10, <1>11, <1>13, <2>1, <2>2 DEF Knowing
<1> QED
  BY <1>11, <1>12, <1>13 DEF MovedOn

LEMMA ApplySteps ==
  ASSUME IInv, NEW c \in Conns, NEW t, call[c].table = t, Apply(c)
  PROVE  DataInv'
<1> DEFINE op == call[c].op
           k == OldKey(c)
           new == hand[c][t].row.key
           rs == From(Known(c), t)
<1>1. call[c] # Idle /\ InCall(c, t)
  BY CallsUnderWay DEF Apply
<1>2. PICK n \in call[c].todo :
       LET rule == Rule(c, n)
           u == rule.child
           option == rule[op]
           found == Scanned(c, u, k)
           after == [r \in DOMAIN rows[u] |->
                       IF r \in found /\ option # "restrict" THEN Acted(rows[u][r], option, op, new) ELSE rows[u][r]]
       IN /\ Concerned(c) /\ (option = "restrict" => found = {})
          /\ rows' = [rows EXCEPT ![u] = after]
          /\ hand' = [hand EXCEPT ![c] = Moved(c, u, after, found, FALSE)]
          /\ call' = [call EXCEPT ![c].todo = @ \ {n}]
  BY DEF Apply
<1> DEFINE rule == Rule(c, n)
           u == rule.child
           option == rule[op]
           found == Scanned(c, u, k)
           after == [r \in DOMAIN rows[u] |->
                       IF r \in found /\ option # "restrict" THEN Acted(rows[u][r], option, op, new) ELSE rows[u][r]]
<1>3. /\ Concerned(c) /\ (option = "restrict" => found = {}) /\ rows' = [rows EXCEPT ![u] = after]
      /\ hand' = [hand EXCEPT ![c] = Moved(c, u, after, found, FALSE)] /\ call' = [call EXCEPT ![c].todo = @ \ {n}]
  BY <1>2
<1>4. UNCHANGED <<told, turn, settled, calls, dictVars>> /\ copy' = copy
  BY SameDict DEF Apply
<1>5. /\ Shape /\ Hands /\ t \in Tables /\ op \in {"upd", "del"} /\ Acting(c, t, hand[c][t]) /\ new \in Keys \cup {Blank}
      /\ Known(c) \in SUBSET RuleTexts /\ rule \in rs /\ turn = <<c, t>>
  BY <1>1 DEF InCall, IInv, DataInv
<1>6. /\ k \in Keys /\ (op = "upd" => new # k) /\ TablesMade(settled, rows, rs, t, op, k, new)
      /\ RulesMet(settled, rows, rs, Coming(c), op, k, new) /\ Unmixed(settled, rs, op, k)
      /\ Unchained(Start(t), Known(c), t, k)
  BY <1>3, <1>5 DEF Acting, Progress
<1>7. /\ rs \in SUBSET RuleTexts /\ rule \in Known(c) /\ rule.parent = t /\ u \in Tables /\ u # t
      /\ option \in {"cascade", "setnull", "restrict"}
  <2>1. rule \in Known(c) /\ rule.parent = t /\ rs \in SUBSET RuleTexts
    BY <1>5 DEF From
  <2>2. rule.child # t
    BY <1>6, <2>1 DEF Unchained
  <2> QED
    BY <1>5, <2>1, <2>2, RuleShape
<1> PICK w \in Tables : w = u
  BY <1>7
<1>8. found = LiveIn(rows, u, k)
  <2>1. ~(hand[c][u].open /\ hand[c][u].narrow)
    BY <1>5, <1>7 DEF Hands, Knowing
  <2> QED
    BY <2>1, LiveIs DEF Scanned
<1> HIDE DEF k, new, rule, found, op
<1>9. rows \in RowsType /\ settled \in RowsType /\ rows[u] \in Seq(RowType)
  BY <1>5, <1>7, RowsShape DEF Shape
<1>10. after = IF option = "restrict" THEN rows[u] ELSE ActedOn(rows[u], option, op, k, new)
  <2>1. CASE option = "restrict"
    <3>1. after = [r \in DOMAIN rows[u] |-> rows[u][r]]
      BY <2>1
    <3>2. rows[u] = [r \in DOMAIN rows[u] |-> rows[u][r]]
      BY <1>9
    <3> HIDE DEF after
    <3> QED
      BY <2>1, <3>1, <3>2
  <2>2. CASE option # "restrict"
    <3>1. \A r \in DOMAIN rows[u] : r \in found <=> rows[u][r] = Present(k)
      BY <1>8 DEF LiveIn
    <3>2. after = [r \in DOMAIN rows[u] |-> IF rows[u][r] = Present(k) THEN Acted(rows[u][r], option, op, new) ELSE rows[u][r]]
      BY <2>2, <3>1
    <3> HIDE DEF after
    <3> QED
      BY <2>2, <3>2 DEF ActedOn
  <2> QED
    BY <2>1, <2>2
<1> HIDE DEF after
<1> DEFINE left == Left(c, n)
<1>11. Coming(c) \subseteq left \cup {rule}
  BY DEF Coming, rule, Left
<1>12. OneMore(settled, rows, rows', rs, t, u, op, k, new, left)
  <2>1. rows' = [rows EXCEPT ![u] = IF option = "restrict" THEN rows[u] ELSE ActedOn(rows[u], option, op, k, new)]
    BY <1>3, <1>10
  <2> HIDE DEF left
  <2>2. option = "restrict" => LiveIn(rows, u, k) = {}
    BY <1>3, <1>8
  <2>3. PICK r \in rs : r = rule
    BY <1>5
  <2>4. /\ Coming(c) \subseteq left \cup {r} /\ r.child # t /\ (r[op] = "restrict" => LiveIn(rows, r.child, k) = {})
        /\ rows' = [rows EXCEPT ![r.child] = IF r[op] = "restrict" THEN rows[r.child]
                                             ELSE ActedOn(rows[r.child], r[op], op, k, new)]
    BY <1>7, <1>11, <2>1, <2>2, <2>3
  <2>5. rs \in SUBSET RuleTexts
    BY <1>7
  <2> HIDE DEF rs
  <2>6. OneMore(settled, rows, rows', rs, t, r.child, op, k, new, left)
    BY <1>5, <1>6, <1>9, <2>4, <2>5, AppliedRule
  <2> QED
    BY <2>3, <2>6
<1> HIDE DEF left
<1>13. /\ rows' \in RowsType /\ rows'[t] = rows[t] /\ (\A y \in Tables : Len(rows'[y]) = Len(rows[y]))
       /\ rows'[u] \in Seq(RowType) /\ rows'[u] = after /\ Len(after) = Len(rows[u])
       /\ TablesMade(settled, rows', rs, t, op, k, new) /\ RulesMet(settled, rows', rs, left, op, k, new)
  <2>1. rows'[u] = after
    BY <1>3, <1>7, <1>9 DEF RowsType
  <2>2. \A y \in Tables : Len(rows'[y]) = Len(rows[y])
    BY <1>12 DEF OneMore
  <2> QED
    BY <1>7, <1>12, <2>1, <2>2 DEF OneMore
<1> DEFINE m == Moved(c, u, after, found, FALSE)
<1>14. MovedOn(c, w, m) /\ (hand'[c][w] = m[w] => Knowing(c, w, hand[c][w])')
  <2>1. found \in SUBSET (DOMAIN rows[w]) /\ after \in Seq(RowType) /\ Len(after) = Len(rows[w]) /\ w # t
    BY <1>7, <1>8, <1>13 DEF LiveIn
  <2>2. m = Moved(c, w, after, found, FALSE)
    OBVIOUS
  <2> HIDE DEF m
  <2> QED
    BY <1>1, <1>4, <2>1, <2>2, MovedHands
<1> HIDE DEF m
<1>15. hand \in [Conns -> [Tables -> HandType \cup {Shut}]] /\ hand' = [hand EXCEPT ![c] = m]
  BY <1>3, <1>5 DEF Shape, m
<1>16. /\ hand' \in [Conns -> [Tables -> HandType \cup {Shut}]] /\ hand'[c] = m
       /\ \A d \in Conns : d # c => hand'[d] = hand[d]
  BY <1>14, <1>15 DEF MovedOn
<1>17. ASSUME NEW d \in Conns, NEW y \in Tables, d # c \/ y # t
       PROVE  hand'[d][y] = hand[d][y] \/ (d = c /\ Knowing(d, y, hand[d][y])')
  <2>1. CASE d # c
    BY <1>16, <2>1
  <2>2. CASE d = c /\ y # u
    BY <1>14, <1>16, <2>2 DEF MovedOn
  <2>3. CASE d = c /\ y = u
    BY <1>14, <1>16, <2>3
  <2> QED
    BY <2>1, <2>2, <2>3
<1>18. ASSUME NEW d \in Conns, NEW y \in Tables, hand'[d][y].open PROVE hand'[d][y].rec <= Len(rows'[y])
  <2>1. CASE d = c /\ y = u
    BY <1>7, <1>13, <1>14, <1>16, <1>18, <2>1 DEF MovedOn
  <2>2. CASE d # c \/ y # u
    BY <1>5, <1>13, <1>14, <1>16, <1>18, <2>2 DEF Shape, MovedOn
  <2> QED
    BY <2>1, <2>2
<1>19. hand'[c][t] = hand[c][t]
  BY <1>5, <1>7, <1>14, <1>16 DEF MovedOn
<1>20. RowsGoOn(c, t, n, rows')
  BY <1>3, <1>13 DEF RowsGoOn, left, k, new, op
<1>21. /\ UNCHANGED <<told, turn, settled>> /\ UNCHANGED dictVars /\ Concerned(c)
       /\ call' = [call EXCEPT ![c].todo = @ \ {n}]
  BY <1>3, <1>4
<1> HIDE DEF rs, rule, u, option
<1>22. hand' \in [Conns -> [Tables -> HandType \cup {Shut}]]
  BY <1>16
<1> QED
  BY <1>1, <1>17, <1>18, <1>19, <1>20, <1>21, <1>22, GoesOn

\* Two states of the tables that differ nowhere.
LEMMA SameRows ==
  ASSUME NEW v \in RowsType, NEW s \in RowsType, NEW t \in Tables, \A u \in Tables : u # t => v[u] = s[u],
         DOMAIN v[t] = DOMAIN s[t], \A i \in DOMAIN s[t] : v[t][i] = s[t][i]
  PROVE  v = s
<1>1. v[t] = s[t]
  <2>1. v[t] \in Seq(RowType) /\ s[t] \in Seq(RowType)
    BY RowsShape
  <2>2. v[t] = [i \in DOMAIN v[t] |-> v[t][i]] /\ s[t] = [i \in DOMAIN s[t] |-> s[t][i]]
    BY <2>1
  <2>3. [i \in DOMAIN v[t] |-> v[t][i]] = [i \in DOMAIN s[t] |-> s[t][i]]
    OBVIOUS
  <2> QED
    BY <2>2, <2>3
<1> QED
  BY <1>1 DEF RowsType

\* The row of a record whose key is put back.
LEMMA KeyBack ==
  ASSUME NEW row \in RowType, row.live, NEW k \in Keys
  PROVE  [row EXCEPT !.key = k] = Present(k) /\ Present(k) \in RowType
<1> DEFINE e == [row EXCEPT !.key = k]
<1>1. e \in RowType /\ e.key = k /\ e.live
  BY DEF RowType
<1> HIDE DEF e
<1>2. e = Present(k)
  BY <1>1, LiveRow
<1> QED
  BY <1>2, KeyShape DEF e

LEMMA RefuseSteps ==
  ASSUME IInv, NEW c \in Conns, NEW t, call[c].table = t, Refuse(c)
  PROVE  DataInv'
<1> DEFINE op == call[c].op
           k == OldKey(c)
           h == hand[c][t]
           rs == From(Known(c), t)
<1>1. call[c] # Idle /\ InCall(c, t)
  BY CallsUnderWay DEF Refuse
<1>2. PICK n \in call[c].todo :
       LET rule == Rule(c, n)
           found == Scanned(c, rule.child, k)
           moved == Moved(c, rule.child, rows[rule.child], found, TRUE)
           back == [moved[t] EXCEPT !.row.key = IF op = "upd" THEN k ELSE @]
       IN /\ Concerned(c) /\ rule[op] = "restrict" /\ found # {}
          /\ hand' = [hand EXCEPT ![c] = [moved EXCEPT ![t] = [back EXCEPT !.trust = "written"]]]
          /\ rows' = IF op = "upd" THEN [rows EXCEPT ![t][back.rec] = back.row] ELSE rows
          /\ IF Given(c, t) THEN Answer(IF op = "upd" THEN "update" ELSE "delete", t, Before(c, t), "refused")
             ELSE UNCHANGED told
  BY DEF Refuse
<1> DEFINE rule == Rule(c, n)
           found == Scanned(c, rule.child, k)
           moved == Moved(c, rule.child, rows[rule.child], found, TRUE)
           back == [moved[t] EXCEPT !.row.key = IF op = "upd" THEN k ELSE @]
           now == [back EXCEPT !.trust = "written"]
<1>3. /\ Concerned(c) /\ rule[op] = "restrict" /\ found # {}
      /\ hand' = [hand EXCEPT ![c] = [moved EXCEPT ![t] = now]]
      /\ rows' = IF op = "upd" THEN [rows EXCEPT ![t][back.rec] = back.row] ELSE rows
      /\ Given(c, t) => told'[4] = "refused"
  BY <1>2 DEF Answer
<1>4. /\ call' = [call EXCEPT ![c] = Idle] /\ turn' = FreeTurn /\ settled' = settled /\ UNCHANGED dictVars /\ copy' = copy
  BY SameDict DEF Refuse
<1>5. /\ Shape /\ Hands /\ t \in Tables /\ op \in {"upd", "del"} /\ Acting(c, t, h) /\ h.row.key \in Keys \cup {Blank}
      /\ Known(c) \in SUBSET RuleTexts /\ rule \in rs /\ turn = <<c, t>> /\ Edited(t, h) /\ h.open /\ ~h.fresh
      /\ h \in HandType /\ h.row.live /\ h.row \in RowType /\ h.rec \in DOMAIN rows[t] /\ Knows(c, t)
      /\ (h.narrow => \A r \in Known(c) : r.child # t) /\ Parenting(c, t) # {}
  BY <1>1 DEF InCall, IInv, DataInv
<1>6. /\ k \in Keys /\ (op = "upd" => h.row.key # k) /\ TablesMade(settled, rows, rs, t, op, k, h.row.key)
      /\ Unmixed(settled, rs, op, k) /\ Unchained(Start(t), Known(c), t, k)
  BY <1>3, <1>5 DEF Acting, Progress
<1>7. rs \in SUBSET RuleTexts /\ rule.child \in Tables /\ rule.child # t
  <2>1. rule \in Known(c) /\ rule.parent = t /\ rs \in SUBSET RuleTexts
    BY <1>5 DEF From
  <2>2. rule.child # t
    BY <1>6, <2>1 DEF Unchained
  <2> QED
    BY <1>5, <2>1, <2>2, RuleShape
<1> PICK w \in Tables : w = rule.child /\ w # t
  BY <1>7
<1>8. found = LiveIn(rows, w, k) /\ found \in SUBSET (DOMAIN rows[w])
  <2>1. ~(hand[c][w].open /\ hand[c][w].narrow)
    BY <1>5, <1>7 DEF Hands, Knowing, From
  <2> QED
    BY <2>1, LiveIs DEF Scanned, LiveIn
<1>9. rows \in RowsType /\ settled \in RowsType /\ rows[w] \in Seq(RowType)
  BY <1>5, RowsShape DEF Shape
<1>10. moved = Moved(c, w, rows[w], found, TRUE)
  OBVIOUS
<1> HIDE DEF found, moved
<1>11. MovedOn(c, w, moved) /\ (hand'[c][w] = moved[w] => Knowing(c, w, hand[c][w])')
  BY <1>1, <1>4, <1>8, <1>9, <1>10, MovedHands
<1>12. moved \in [Tables -> HandType \cup {Shut}] /\ moved[t] = h
  BY <1>5, <1>11 DEF MovedOn
<1>13. back = IF op = "upd" THEN [h EXCEPT !.row = [h.row EXCEPT !.key = k]] ELSE [h EXCEPT !.row = [h.row EXCEPT !.key = @]]
  BY <1>12
<1>14. /\ back \in HandType /\ back.rec = h.rec /\ back.open /\ back.fresh = h.fresh /\ back.narrow = h.narrow
       /\ op = "upd" => back.row = Present(k)
  <2>1. [h.row EXCEPT !.key = k] = Present(k) /\ Present(k) \in RowType /\ [h.row EXCEPT !.key = @] = h.row
    BY <1>5, <1>6, KeyBack DEF RowType
  <2> HIDE DEF back
  <2> QED
    BY <1>5, <1>13, <2>1 DEF HandType
<1> HIDE DEF back
<1>15. now \in HandType /\ now.rec = h.rec /\ now.open /\ ~now.fresh /\ now.narrow = h.narrow /\ now.trust = "written"
  BY <1>5, <1>14 DEF HandType
<1> HIDE DEF now
\* Nothing but the key of the record had changed.
<1>16. LiveIn(settled, w, k) # {} /\ \A u \in Tables : u # t => rows[u] = settled[u]
  <2>1. PICK r \in rs : r = rule
    BY <1>5
  <2>2. r[op] = "restrict" /\ r.child # t /\ LiveIn(rows, r.child, k) # {} /\ rs \in SUBSET RuleTexts /\ r.child = w
    BY <1>3, <1>7, <1>8, <2>1
  <2> HIDE DEF rs
  <2>3. Refused(settled, rows, t, r.child, k)
    BY <1>5, <1>6, <1>9, <2>2, RefusedRows
  <2> QED
    BY <2>2, <2>3 DEF Refused
<1>17. h.rec \in DOMAIN settled[t]
  <2>1. SUFFICES ASSUME op = "del", h.rec \notin DOMAIN settled[t] PROVE FALSE
    BY <1>5 DEF Acting
  <2>2. k = h.row.key /\ k # Blank
    BY <1>3, <1>5, <2>1 DEF OldKey, Concerned
  <2>3. LiveIn(settled, rule.child, h.row.key) = {}
    BY <1>5, <2>1, <2>2 DEF Acting
  <2> QED
    BY <1>16, <2>2, <2>3
<1>18. rows' = settled /\ Len(rows'[t]) = Len(rows[t])
  <2>1. rows' \in RowsType /\ DOMAIN rows'[t] = DOMAIN rows[t] /\ Len(rows'[t]) = Len(rows[t]) /\ rows'[t][h.rec] = settled[t][h.rec]
        /\ (\A i \in DOMAIN rows[t] : i # h.rec => rows'[t][i] = rows[t][i])
        /\ \A u \in Tables : u # t => rows'[u] = rows[u]
    <3>1. CASE op = "upd"
      <4>1. settled[t][h.rec].live /\ settled[t][h.rec].key = k
        BY <1>5, <3>1 DEF Acting, KeyKnown, OldKey
      <4>2. settled[t][h.rec] \in RowType
        BY <1>9, <1>5, <1>17, RowsShape
      <4>3. settled[t][h.rec] = Present(k)
        BY <4>1, <4>2, LiveRow
      <4>4. rows' = [rows EXCEPT ![t][h.rec] = Present(k)] /\ Present(k) \in RowType
        BY <1>3, <1>6, <1>14, <3>1, KeyShape
      <4>5. PutTo(rows, rows', t, h.rec, Present(k))
        BY <1>5, <1>9, <4>4, PutRow
      <4> QED
        BY <4>3, <4>5 DEF PutTo
    <3>2. CASE op = "del"
      <4>1. settled[t][h.rec] = h.row /\ rows' = rows
        BY <1>3, <1>5, <1>17, <3>2 DEF Acting
      <4> QED
        BY <1>5, <1>9, <4>1 DEF Edited
    <3> QED
      BY <1>5, <3>1, <3>2
  <2>2. DOMAIN rows'[t] = DOMAIN settled[t] /\ \A i \in DOMAIN settled[t] : rows'[t][i] = settled[t][i]
    BY <1>5, <1>17, <2>1 DEF Edited
  <2>3. \A u \in Tables : u # t => rows'[u] = settled[u]
    BY <1>16, <2>1
  <2> QED
    BY <1>5, <1>9, <2>1, <2>2, <2>3, SameRows
<1>19. told'[4] \in {"done", "refused"}
  BY <1>3, <1>17 DEF Given
<1>20. /\ hand' \in [Conns -> [Tables -> HandType \cup {Shut}]] /\ hand'[c][t] = now
       /\ (\A y \in Tables : y # t => hand'[c][y] = moved[y]) /\ \A d \in Conns : d # c => hand'[d] = hand[d]
  <2>1. hand \in [Conns -> [Tables -> HandType \cup {Shut}]]
    BY <1>5 DEF Shape
  <2>2. [moved EXCEPT ![t] = now] \in [Tables -> HandType \cup {Shut}]
    BY <1>12, <1>15
  <2> QED
    BY <1>3, <1>5, <1>12, <2>1, <2>2
<1>21. ASSUME NEW d \in Conns, NEW y \in Tables, d # c \/ y # t
       PROVE  hand'[d][y] = hand[d][y] \/ (d = c /\ Knowing(d, y, hand[d][y])')
  <2>1. CASE d # c
    BY <1>20, <2>1
  <2>2. CASE d = c /\ y # w
    BY <1>11, <1>20, <1>21, <2>2 DEF MovedOn
  <2>3. CASE d = c /\ y = w
    BY <1>11, <1>20, <2>3
  <2> QED
    BY <2>1, <2>2, <2>3
<1>22. Knowing(c, t, hand[c][t])'
  BY <1>4, <1>5, <1>15, <1>20, WrittenHand
<1>23. \A u \in Tables : Len(rows'[u]) = Len(settled[u]) /\ Len(rows'[u]) \in Nat /\ Len(rows[u]) \in Nat
         /\ Len(settled[u]) <= MaxRows /\ (u # t => rows[u] = rows'[u])
  <2>1. \A u \in Tables : Len(settled[u]) <= Len(rows[u]) /\ Len(rows[u]) <= MaxRows
    BY <1>5 DEF Shape
  <2>2. \A u \in Tables : Len(settled[u]) \in Nat /\ Len(rows[u]) \in Nat
    BY <1>9, RowsShape
  <2> QED
    BY <1>16, <1>18, <2>1, <2>2, RefIntegrityAssumption
<1>24. \A u \in Tables : Len(rows'[u]) = Len(rows[u])
  BY <1>18, <1>23
<1>25. ASSUME NEW d \in Conns, NEW y \in Tables, hand'[d][y].open PROVE hand'[d][y].rec <= Len(rows'[y])
  <2>1. CASE d = c /\ y = t
    BY <1>5, <1>15, <1>20, <1>24, <2>1 DEF Shape
  <2>2. CASE d = c /\ y = w
    BY <1>11, <1>20, <1>24, <1>25, <2>2 DEF MovedOn
  <2>3. CASE d # c \/ y \notin {t, w}
    <3>1. hand'[d][y] = hand[d][y]
      BY <1>11, <1>20, <2>3 DEF MovedOn
    <3> QED
      BY <1>5, <1>24, <1>25, <3>1 DEF Shape
  <2> QED
    BY <2>1, <2>2, <2>3
<1>26. /\ Here(c) /\ Known(c) = RulesOf(InFile) /\ (\A d \in Conns : Resting(d)) /\ turn \in {FreeTurn, <<c, t>>}
       /\ (\A d \in Conns : d # c => call[d] = Idle) /\ Holds(settled, Known(c))
  BY <1>1 DEF InCall
<1>27. call' \in [Conns -> CallType \cup {Idle}] /\ \A d \in Conns : call'[d] = Idle
  BY <1>4, <1>5, <1>26 DEF Shape
<1>28. rows' \in RowsType /\ settled' = rows' /\ Holds(rows', Known(c)) /\ \A u \in Tables : Len(rows'[u]) <= MaxRows
  BY <1>4, <1>9, <1>18, <1>23, <1>26
<1>29. hand' \in [Conns -> [Tables -> HandType \cup {Shut}]]
  BY <1>20
<1> HIDE DEF rs, rule, k, h, op
<1> QED
  BY <1>4, <1>5, <1>19, <1>21, <1>22, <1>25, <1>26, <1>27, <1>28, <1>29, Ends

\* A call whose rules are all dealt with is over.
LEMMA Finishes ==
  ASSUME IInv, NEW c \in Conns, NEW t, InCall(c, t), UNCHANGED dictVars,
         NEW h \in HandType, h.open, h.rec = hand[c][t].rec, ~h.fresh, h.trust = "written", h.narrow = hand[c][t].narrow,
         hand' = [hand EXCEPT ![c][t] = h], call' = [call EXCEPT ![c] = Idle], turn' = FreeTurn,
         rows' \in RowsType, \A u \in Tables : Len(rows'[u]) = Len(rows[u]), settled' = rows',
         told'[4] \in {"done", "refused"}, Holds(rows', Known(c))
  PROVE  DataInv'
<1>1. /\ Shape /\ t \in Tables /\ turn \in {FreeTurn, <<c, t>>} /\ Here(c) /\ Known(c) = RulesOf(InFile) /\ Knows(c, t)
      /\ (\A d \in Conns : Resting(d)) /\ (\A d \in Conns : d # c => call[d] = Idle) /\ hand[c][t].open
      /\ (hand[c][t].narrow => \A r \in Known(c) : r.child # t)
  BY DEF InCall
<1>2. copy' = copy
  BY SameDict
<1>3. /\ hand' \in [Conns -> [Tables -> HandType \cup {Shut}]] /\ hand'[c][t] = h
      /\ \A d \in Conns, u \in Tables : d # c \/ u # t => hand'[d][u] = hand[d][u]
  <2>1. OneHand(c, t, h)
    BY <1>1, NewHand
  <2> QED
    BY <2>1 DEF OneHand
<1>4. Knowing(c, t, hand[c][t])'
  BY <1>1, <1>2, <1>3, WrittenHand
<1>5. ASSUME NEW d \in Conns, NEW u \in Tables, hand'[d][u].open PROVE hand'[d][u].rec <= Len(rows'[u])
  <2>1. hand[d][u].open /\ hand'[d][u].rec = hand[d][u].rec
    BY <1>1, <1>3, <1>5
  <2> QED
    BY <1>1, <2>1 DEF Shape
<1>6. call' \in [Conns -> CallType \cup {Idle}] /\ \A d \in Conns : call'[d] = Idle
  BY <1>1 DEF Shape
<1>7. \A u \in Tables : Len(rows'[u]) <= MaxRows
  BY <1>1 DEF Shape
<1> QED
  BY <1>1, <1>3, <1>4, <1>5, <1>6, <1>7, Ends

\* A row of the edited table is one of the settled rows, or the record.
LEMMA EditedRow ==
  ASSUME NEW t, NEW h, Edited(t, h), NEW x, NEW i \in LiveIn(rows, t, x)
  PROVE  i # h.rec => i \in LiveIn(settled, t, x)
BY DEF Edited, LiveIn
LEMMA KeptRow ==
  ASSUME NEW t, NEW h, Edited(t, h), NEW x, NEW i \in LiveIn(settled, t, x)
  PROVE  i # h.rec => i \in LiveIn(rows, t, x)
BY DEF Edited, LiveIn

LEMMA FinishWriteSteps ==
  ASSUME IInv, NEW c \in Conns, NEW t, call[c].table = t, FinishWrite(c)
  PROVE  DataInv'
<1> DEFINE h == hand[c][t]
           k == OldKey(c)
           now == [h EXCEPT !.trust = "written"]
           rules == Known(c)
           rs == From(rules, t)
           new == h.row.key
<1>1. call[c] # Idle /\ InCall(c, t) /\ call[c].op = "upd" /\ call[c].todo = {}
  BY CallsUnderWay DEF FinishWrite
<1>2. /\ hand' = [hand EXCEPT ![c][t] = now] /\ call' = [call EXCEPT ![c] = Idle] /\ settled' = rows /\ turn' = FreeTurn
      /\ rows' = rows /\ UNCHANGED dictVars
  BY DEF FinishWrite, Hold
<1>3. told'[4] = "done"
  BY DEF FinishWrite, Answer
<1>4. /\ Shape /\ t \in Tables /\ rules \in SUBSET RuleTexts /\ Single(rules) /\ Holds(settled, rules) /\ Here(c)
      /\ h \in HandType /\ h.open /\ ~h.fresh /\ h.row \in RowType /\ h.row = Present(new) /\ new \in Keys \cup {Blank}
      /\ h.rec \in DOMAIN rows[t] /\ Edited(t, h) /\ Acting(c, t, h) /\ DictInv
  BY <1>1 DEF InCall, IInv
<1>5. rows \in RowsType /\ settled \in RowsType
  BY <1>4 DEF Shape
<1>6. h.rec \in DOMAIN settled[t] /\ KeyKnown(c, t, h) /\ Referred(c, t, h) /\ settled[t][h.rec] \in RowType
  BY <1>1, <1>4, <1>5, RowsShape DEF Acting
<1>7. rs # {} => h.snap = settled[t][h.rec].key
  BY <1>4, <1>6, RuleFacts DEF KeyKnown
<1>8. k = h.snap
  BY <1>1 DEF OldKey, InCall
<1>9. rows[t][h.rec] = Present(new)
  BY <1>4 DEF Edited
<1> HIDE DEF h
<1> HIDE DEF rs, k, new
<1>10. ASSUME NEW r \in rules, NEW x \in Keys, r.child = t, r.parent # t, LiveIn(rows, t, x) # {}
       PROVE  LiveIn(settled, r.parent, x) # {}
  <2>1. PICK i \in LiveIn(rows, t, x) : TRUE
    BY <1>10
  <2>2. CASE i = h.rec
    <3>1. Present(x) = Present(new)
      BY <1>9, <2>1, <2>2 DEF LiveIn
    <3>2. Present(x).key = x /\ Present(new).key = new /\ x # Blank
      BY <1>4, KeyShape, RefIntegrityAssumption
    <3>3. x = new
      BY <3>1, <3>2
    <3> QED
      BY <1>6, <1>10, <3>2, <3>3 DEF Referred, new
  <2>3. CASE i # h.rec
    <3>1. LiveIn(settled, t, x) # {}
      BY <1>4, <2>1, <2>3, EditedRow
    <3> QED
      BY <1>4, <1>5, <1>10, <3>1, HoldsRows
  <2> QED
    BY <2>2, <2>3
<1>11. ASSUME rs # {}, NEW x \in Keys, LiveIn(settled, t, x) # {}, x # k PROVE LiveIn(rows, t, x) # {}
  <2>1. PICK i \in LiveIn(settled, t, x) : TRUE
    BY <1>11
  <2>2. settled[t][i].key = x
    BY <2>1, KeyShape DEF LiveIn
  <2>3. i # h.rec
    BY <1>7, <1>8, <1>11, <2>2
  <2> QED
    BY <1>4, <2>1, <2>3, KeptRow
<1>12. LiveIn(rows, t, new) # {}
  BY <1>4, <1>9 DEF LiveIn
<1>13. ASSUME Concerned(c) PROVE Holds(rows, rules)
  <2>1. /\ k \in Keys /\ new # k /\ TablesMade(settled, rows, rs, t, "upd", k, new)
        /\ RulesMet(settled, rows, rs, Coming(c), "upd", k, new) /\ Unchained(Start(t), rules, t, k)
    BY <1>1, <1>4, <1>13 DEF Acting, Progress, rs, k, new, h
  <2>2. Coming(c) = {}
    BY <1>1 DEF Coming
  <2>3. Start(t) \in RowsType /\ Start(t)[t] = rows[t] /\ \A u \in Tables : u # t => Start(t)[u] = settled[u]
    BY <1>4, <1>5 DEF Start, RowsType
  <2>4. \A x \in Keys : LiveIn(rows, t, x) # {} => LiveIn(Start(t), t, x) # {}
    BY <2>3 DEF LiveIn
  <2>5. PICK op \in {"upd", "del"} : op = "upd"
    OBVIOUS
  <2>6. From(rules, t) # {} =>
          \A x \in Keys : (LiveIn(settled, t, x) # {} /\ x # k) \/ (op = "upd" /\ x = new) => LiveIn(rows, t, x) # {}
    BY <1>11, <1>12 DEF rs
  <2>7. /\ TablesMade(settled, rows, From(rules, t), t, op, k, new) /\ (op = "upd" => new # k)
        /\ RulesMet(settled, rows, From(rules, t), {}, op, k, new)
    BY <2>1, <2>2, <2>5 DEF rs
  <2>8. OwnTable(settled, rows, Start(t), rules, t, op, k, new)
    BY <1>10, <2>3, <2>4, <2>6 DEF OwnTable
  <2> HIDE DEF rules
  <2> QED
    BY <1>4, <1>5, <2>1, <2>3, <2>7, <2>8, AfterCall
<1>14. ASSUME ~Concerned(c) PROVE Holds(rows, rules)
  <2>1. \A u \in Tables : u # t => rows[u] = settled[u]
    BY <1>4, <1>14 DEF Acting, Unchanged, h
  <2>2. ASSUME NEW r \in rules, NEW x \in Keys, r.parent = t, r.child # t, LiveIn(settled, t, x) # {}
        PROVE  LiveIn(rows, t, x) # {}
    <3>1. r \in rs
      BY <2>2 DEF rs, From
    <3>2. CASE x # k
      BY <1>11, <2>2, <3>1, <3>2
    <3>3. CASE x = k
      <4>1. x \notin {Unset, Blank}
        BY RefIntegrityAssumption DEF Unset
      <4>2. x = new
        BY <1>1, <1>8, <1>14, <3>3, <4>1 DEF Concerned, h, k, new, InCall
      <4> QED
        BY <1>12, <4>2
    <3> QED
      BY <3>2, <3>3
  <2>3. OneChanged(settled, rows, rules, t)
    BY <1>10, <2>1, <2>2 DEF OneChanged
  <2> HIDE DEF rules
  <2> QED
    BY <1>4, <1>5, <2>3, OneTable
<1>15. Holds(rows, rules)
  BY <1>13, <1>14
<1>16. /\ now \in HandType /\ now.open /\ now.rec = h.rec /\ ~now.fresh /\ now.trust = "written" /\ now.narrow = h.narrow
  BY <1>4 DEF HandType
<1> HIDE DEF now
<1> QED
  BY <1>1, <1>2, <1>3, <1>5, <1>15, <1>16, Finishes DEF h

\* What the rules did to the other tables does not depend on the table of the call.
LEMMA RulesElsewhere ==
  ASSUME NEW s, NEW w, NEW v, NEW rs \in SUBSET RuleTexts, NEW t, NEW op, NEW k, NEW new, NEW coming,
         \A u \in Tables : u # t => v[u] = w[u], \A q \in rs : q.child # t,
         TablesMade(s, w, rs, t, op, k, new), RulesMet(s, w, rs, coming, op, k, new)
  PROVE  TablesMade(s, v, rs, t, op, k, new) /\ RulesMet(s, v, rs, coming, op, k, new)
<1>1. \A q \in rs : v[q.child] = w[q.child]
  BY RuleShape
<1>2. \A q \in rs : Made(s, v, q, op, k, new) <=> Made(s, w, q, op, k, new)
  BY <1>1 DEF Made
<1>3. TablesMade(s, v, rs, t, op, k, new)
  BY <1>2 DEF TablesMade
<1>4. RulesMet(s, v, rs, coming, op, k, new)
  BY <1>2 DEF RulesMet
<1> QED
  BY <1>3, <1>4

LEMMA FinishDeleteSteps ==
  ASSUME IInv, NEW c \in Conns, NEW t, call[c].table = t, FinishDelete(c)
  PROVE  DataInv'
<1> DEFINE g == hand[c][t]
           h == [g EXCEPT !.row.live = t \in Superseded]
           now == [h EXCEPT !.trust = "written"]
           rules == Known(c)
           rs == From(rules, t)
           k == g.row.key
           rec == g.rec
<1>1. call[c] # Idle /\ InCall(c, t) /\ call[c].op = "del" /\ call[c].todo = {}
  BY CallsUnderWay DEF FinishDelete
<1>2. /\ Shape /\ t \in Tables /\ rules \in SUBSET RuleTexts /\ Single(rules) /\ Holds(settled, rules) /\ Here(c)
      /\ g \in HandType /\ g.open /\ ~g.fresh /\ g.row \in RowType /\ g.row = Present(k) /\ k \in Keys \cup {Blank}
      /\ rec \in DOMAIN rows[t] /\ rec # 0 /\ Edited(t, g) /\ Acting(c, t, g) /\ DictInv
  BY <1>1 DEF InCall, IInv
<1>3. /\ hand' = [hand EXCEPT ![c][t] = now] /\ call' = [call EXCEPT ![c] = Idle] /\ settled' = rows' /\ turn' = FreeTurn
      /\ rows' = [rows EXCEPT ![t][h.rec] = h.row] /\ UNCHANGED dictVars
  BY <1>2 DEF FinishDelete, Hold
<1>4. told'[4] \in {"done", "refused"}
  BY <1>2 DEF FinishDelete, Answer, Shape
<1>5. rows \in RowsType /\ settled \in RowsType
  BY <1>2 DEF Shape
<1> DEFINE row == [g.row EXCEPT !.live = t \in Superseded]
<1>6. row \in RowType /\ (row.live <=> t \in Superseded) /\ row.key = k
  <2>1. CASE t \in Superseded
    <3>1. row = [g.row EXCEPT !.live = TRUE]
      BY <2>1
    <3> HIDE DEF row
    <3> QED
      BY <1>2, <2>1, <3>1 DEF RowType
  <2>2. CASE t \notin Superseded
    <3>0. (t \in Superseded) = FALSE
      BY <2>2
    <3>1. row = [g.row EXCEPT !.live = FALSE]
      BY <3>0
    <3> HIDE DEF row
    <3> QED
      BY <1>2, <2>2, <3>1 DEF RowType
  <2> QED
    BY <2>1, <2>2
<1>7. row.live => row = g.row
  BY <1>2, <1>6, LiveRow
<1>8. h = [g EXCEPT !.row = row]
  OBVIOUS
<1> HIDE DEF row
<1>9. h \in HandType /\ h.rec = rec /\ h.open /\ ~h.fresh /\ h.narrow = g.narrow /\ h.row = row
  <2> HIDE DEF h
  <2> QED
    BY <1>2, <1>6, <1>8 DEF HandType
<1> HIDE DEF h
<1>10. now \in HandType /\ now.open /\ now.rec = rec /\ ~now.fresh /\ now.trust = "written" /\ now.narrow = g.narrow
  BY <1>9 DEF HandType
<1> HIDE DEF now
<1>11. PutTo(rows, rows', t, rec, row)
  BY <1>2, <1>3, <1>5, <1>6, <1>9, PutRow
<1> HIDE DEF rec, k, g
<1>12. /\ rows' \in RowsType /\ (\A u \in Tables : u # t => rows'[u] = rows[u]) /\ \A u \in Tables : Len(rows'[u]) = Len(rows[u])
  BY <1>11 DEF PutTo
<1>13. DOMAIN rows'[t] = DOMAIN rows[t] /\ rows'[t][rec] = row /\ \A i \in DOMAIN rows[t] : i # rec => rows'[t][i] = rows[t][i]
  BY <1>11 DEF PutTo
\* A live row of the table is as it was; a row is live unless it is the record.
<1>14. ASSUME NEW x \in Keys, NEW i \in LiveIn(rows', t, x) PROVE i \in LiveIn(rows, t, x) /\ (i = rec => t \in Superseded)
  <2>1. i \in DOMAIN rows'[t] /\ rows'[t][i] = Present(x) /\ Present(x).live
    BY <1>14, KeyShape DEF LiveIn
  <2>2. CASE i = rec
    <3>1. row = Present(x) /\ row.live /\ row = g.row
      BY <1>7, <1>13, <2>1, <2>2
    <3>2. rows[t][rec] = g.row
      BY <1>2 DEF Edited, rec
    <3> QED
      BY <1>6, <1>13, <2>1, <2>2, <3>1, <3>2 DEF LiveIn
  <2>3. CASE i # rec
    BY <1>13, <2>1, <2>3 DEF LiveIn
  <2> QED
    BY <2>2, <2>3
<1>15. ASSUME NEW x \in Keys, NEW i \in LiveIn(rows, t, x), i # rec PROVE i \in LiveIn(rows', t, x)
  BY <1>13, <1>15 DEF LiveIn
<1>16. ASSUME NEW x \in Keys, NEW i \in LiveIn(settled, t, x), x # k PROVE i \in LiveIn(rows', t, x)
  <2>1. i # rec
    <3>1. SUFFICES ASSUME i = rec PROVE FALSE
      OBVIOUS
    <3>2. settled[t][rec] = Present(x) /\ rec \in DOMAIN settled[t]
      BY <1>16, <3>1 DEF LiveIn
    <3>3. settled[t][rec] = Present(k)
      BY <1>1, <1>2, <3>2 DEF Acting, rec, k, g
    <3>4. Present(x).key = x /\ Present(k).key = k
      BY <1>2, KeyShape
    <3> QED
      BY <1>16, <3>2, <3>3, <3>4
  <2>2. i \in LiveIn(rows, t, x)
    BY <1>2, <2>1, KeptRow DEF rec, g
  <2> QED
    BY <1>15, <2>1, <2>2
<1>17. ASSUME NEW x \in Keys, LiveIn(rows', t, x) # {} PROVE LiveIn(settled, t, x) # {}
  <2>1. PICK i \in LiveIn(rows', t, x) : i \in LiveIn(rows, t, x) /\ (i = rec => t \in Superseded)
    BY <1>14, <1>17
  <2>2. CASE i = rec
    <3>1. rec \in DOMAIN settled[t]
      BY <1>1, <1>2, <2>1, <2>2 DEF Acting, rec, g
    <3>2. settled[t][rec] = g.row /\ rows[t][rec] = g.row
      BY <1>1, <1>2, <3>1 DEF Acting, Edited, rec, g
    <3>3. i \in LiveIn(settled, t, x)
      BY <2>1, <2>2, <3>1, <3>2 DEF LiveIn
    <3> QED
      BY <3>3
  <2>3. CASE i # rec
    <3>1. i \in LiveIn(settled, t, x)
      BY <1>2, <2>1, <2>3, EditedRow DEF rec, g
    <3> QED
      BY <3>1
  <2> QED
    BY <2>2, <2>3
<1>18. ASSUME NEW r \in rules, NEW x \in Keys, r.child = t, r.parent # t, LiveIn(rows', t, x) # {}
       PROVE  LiveIn(settled, r.parent, x) # {}
  BY <1>2, <1>5, <1>17, <1>18, HoldsRows
<1>19. OldKey(c) = k /\ (Concerned(c) <=> k \notin {Unset, Blank}) /\ (Concerned(c) <=> k # Blank)
  <2>1. OldKey(c) = k
    BY <1>1 DEF OldKey, InCall, k, g
  <2>2. k # Unset
    BY <1>2, RefIntegrityAssumption DEF Unset
  <2> QED
    BY <1>1, <2>1, <2>2 DEF Concerned
<1>20. ASSUME Concerned(c)
       PROVE  /\ k \in Keys /\ TablesMade(settled, rows, rs, t, "del", k, k)
              /\ RulesMet(settled, rows, rs, {}, "del", k, k) /\ Unchained(Start(t), rules, t, k)
  <2>1. Progress(c, t, "del", k, k)
    BY <1>1, <1>2, <1>19, <1>20 DEF Acting, k, g
  <2>2. Coming(c) = {}
    BY <1>1 DEF Coming
  <2> QED
    BY <2>1, <2>2 DEF Progress
<1>21. ASSUME Unchanged(t), Concerned(c) => \A r \in rs : LiveIn(settled, r.child, k) = {} PROVE Holds(rows', rules)
  <2>1. \A u \in Tables : u # t => rows'[u] = settled[u]
    BY <1>12, <1>21 DEF Unchanged
  <2>2. ASSUME NEW r \in rules, NEW x \in Keys, r.parent = t, r.child # t, LiveIn(settled, t, x) # {}, LiveIn(settled, r.child, x) # {}
        PROVE  LiveIn(rows', t, x) # {}
    <3>1. r \in rs
      BY <2>2 DEF From
    <3>2. x # Blank
      BY RefIntegrityAssumption
    <3>3. x # k
      BY <1>19, <1>21, <2>2, <3>1, <3>2
    <3> QED
      BY <1>16, <2>2, <3>3
  <2>3. t \in Tables /\ rules \in SUBSET RuleTexts /\ Holds(settled, rules)
    BY <1>2
  <2>4. rows' \in RowsType
    BY <1>12
  <2> HIDE DEF rules
  <2>5. OneChanged(settled, rows', rules, t)
    BY <1>18, <2>1, <2>2 DEF OneChanged
  <2> QED
    BY <1>5, <2>3, <2>4, <2>5, OneTable
<1>22. ASSUME Concerned(c), rec \in DOMAIN settled[t] PROVE Holds(rows', rules)
  <2>1. PICK op \in {"upd", "del"} : op = "del"
    OBVIOUS
  <2>2. Start(t) \in RowsType /\ Start(t)[t] = rows[t] /\ \A u \in Tables : u # t => Start(t)[u] = settled[u]
    BY <1>2, <1>5 DEF Start, RowsType
  <2>3. \A x \in Keys : LiveIn(rows', t, x) # {} => LiveIn(Start(t), t, x) # {}
    <3>1. \A x \in Keys : LiveIn(rows', t, x) # {} => LiveIn(rows, t, x) # {}
      BY <1>14
    <3> QED
      BY <2>2, <3>1 DEF LiveIn
  <2>4. \A x \in Keys : LiveIn(settled, t, x) # {} /\ x # k => LiveIn(rows', t, x) # {}
    BY <1>16
  <2>5. OwnTable(settled, rows', Start(t), rules, t, op, k, k)
    BY <1>18, <2>1, <2>2, <2>3, <2>4 DEF OwnTable
  <2>6. \A q \in rs : q.child # t
    BY <1>20, <1>22 DEF Unchained, From
  <2>7. rs \in SUBSET RuleTexts
    BY <1>2 DEF From
  <2>8. TablesMade(settled, rows, rs, t, op, k, k) /\ RulesMet(settled, rows, rs, {}, op, k, k)
    BY <1>20, <1>22, <2>1
  <2>9. TablesMade(settled, rows', rs, t, op, k, k) /\ RulesMet(settled, rows', rs, {}, op, k, k)
    <3> HIDE DEF rs
    <3> QED
      BY <1>12, <2>6, <2>7, <2>8, RulesElsewhere
  <2>10. op = "upd" => k # k
    BY <2>1
  <2>11. k \in Keys /\ Unchained(Start(t), rules, t, k)
    BY <1>20, <1>22
  <2> HIDE DEF rules
  <2> QED
    BY <1>2, <1>5, <1>12, <2>2, <2>5, <2>9, <2>10, <2>11, AfterCall
<1>23. ASSUME rec \notin DOMAIN settled[t] PROVE Unchanged(t) /\ (Concerned(c) => \A r \in rs : LiveIn(settled, r.child, k) = {})
  <2>1. \A r \in rs : k # Blank => LiveIn(settled, r.child, k) = {}
    BY <1>1, <1>2, <1>23 DEF Acting, rec, k, g
  <2>2. Concerned(c) => \A r \in rs : LiveIn(settled, r.child, k) = {}
    BY <1>19, <2>1
  <2>3. ASSUME Concerned(c), NEW u \in Tables, u # t PROVE rows[u] = settled[u]
    <3>1. PICK op \in {"upd", "del"} : op = "del"
      OBVIOUS
    <3>2. k \in Keys /\ TablesMade(settled, rows, rs, t, op, k, k) /\ (op = "upd" => k # k) /\ rs \in SUBSET RuleTexts
      BY <1>2, <1>20, <2>3, <3>1 DEF From
    <3>3. Other(settled, rows, rs, u, op, k, k)
      <4> HIDE DEF rs
      <4> QED
        BY <1>2, <1>5, <2>3, <3>2, OtherTables
    <3> QED
      BY <2>2, <2>3, <3>3 DEF Other
  <2>4. ~Concerned(c) => Unchanged(t)
    BY <1>2 DEF Acting
  <2> QED
    BY <2>2, <2>3, <2>4 DEF Unchanged
<1>24. Holds(rows', rules)
  <2>1. CASE ~Concerned(c)
    BY <1>2, <1>21, <2>1 DEF Acting
  <2> QED
    BY <1>21, <1>22, <1>23, <2>1
<1> HIDE DEF rs
<1> QED
  BY <1>1, <1>3, <1>4, <1>10, <1>12, <1>24, Finishes DEF rec, g

---------------------------------------------------------------------------
(* Calls that are over at once *)

LEMMA AtOnce ==
  ASSUME IInv, NEW c \in Conns, NEW t \in Tables, Calm(c), turn = FreeTurn,
         NEW h \in HandType \cup {Shut}, h.open => h.rec <= Len(rows[t]), Knowing(c, t, h),
         hand' = [hand EXCEPT ![c][t] = h], UNCHANGED <<call, turn>>, UNCHANGED dictVars,
         rows' \in RowsType, settled' = rows', told'[4] \in {"done", "refused"},
         \A u \in Tables : Len(rows[u]) <= Len(rows'[u]) /\ Len(rows'[u]) <= MaxRows,
         OneChanged(settled, rows', Known(c), t)
  PROVE  DataInv'
<1>1. Shape /\ Hands /\ Settled /\ copy' = copy
  BY SameDict DEF IInv, DataInv
<1>2. Here(c) /\ Known(c) = RulesOf(InFile) /\ (\A d \in Conns : Resting(d) /\ call[d] = Idle) /\ Holds(settled, Known(c))
  BY DEF Calm
<1>3. /\ hand' \in [Conns -> [Tables -> HandType \cup {Shut}]] /\ hand'[c][t] = h
      /\ \A d \in Conns, u \in Tables : d # c \/ u # t => hand'[d][u] = hand[d][u]
  <2>1. OneHand(c, t, h)
    BY <1>1, NewHand
  <2> QED
    BY <2>1 DEF OneHand
<1>4. Knowing(c, t, hand[c][t])'
  <2>1. Knows(c, t)' = Knows(c, t) /\ Known(c)' = Known(c) /\ Parenting(c, t)' = Parenting(c, t)
    BY <1>1, SameCopies
  <2> QED
    BY <1>3, <2>1 DEF Knowing
<1>5. ASSUME NEW d \in Conns, NEW u \in Tables, hand'[d][u].open PROVE hand'[d][u].rec <= Len(rows'[u])
  <2>1. hand'[d][u].rec \in Nat /\ hand'[d][u].rec <= Len(rows[u])
    <3>1. CASE d = c /\ u = t
      BY <1>3, <1>5, <3>1, HandShape, RefIntegrityAssumption
    <3>2. CASE d # c \/ u # t
      BY <1>1, <1>3, <1>5, <3>2, HandOf
    <3> QED
      BY <3>1, <3>2
  <2>2. Len(rows[u]) \in Nat /\ Len(rows'[u]) \in Nat
    BY <1>1, RowsShape DEF Shape
  <2> QED
    BY <2>1, <2>2
<1>6. Holds(rows', Known(c))
  <2>1. Known(c) \in SUBSET RuleTexts /\ settled \in RowsType
    BY <1>1, <1>2, RuleFacts DEF IInv, Shape
  <2> QED
    BY <1>2, <2>1, OneTable
<1>7. call' \in [Conns -> CallType \cup {Idle}] /\ \A d \in Conns : call'[d] = Idle
  BY <1>1, <1>2 DEF Shape
<1> QED
  BY <1>1, <1>2, <1>3, <1>4, <1>5, <1>6, <1>7, Ends

\* A row that is put where it refers to what is there.
LEMMA PutRefers ==
  ASSUME NEW s \in RowsType, NEW w, NEW t \in Tables, NEW rec \in DOMAIN s[t], NEW row \in RowType,
         PutTo(s, w, t, rec, row), NEW rules \in SUBSET RuleTexts, Holds(s, rules), ~s[t][rec].live,
         row.live /\ row.key # Blank => \A r \in rules : r.child = t => LiveIn(s, r.parent, row.key) # {}
  PROVE  OneChanged(s, w, rules, t)
<1>1. /\ DOMAIN w[t] = DOMAIN s[t] /\ w[t][rec] = row /\ (\A i \in DOMAIN s[t] : i # rec => w[t][i] = s[t][i])
      /\ \A u \in Tables : u # t => w[u] = s[u]
  BY DEF PutTo
<1>2. ASSUME NEW r \in rules, NEW x \in Keys, r.child = t, LiveIn(w, t, x) # {} PROVE LiveIn(s, r.parent, x) # {}
  <2>1. PICK i \in DOMAIN w[t] : w[t][i] = Present(x)
    BY <1>2 DEF LiveIn
  <2>2. CASE i = rec
    <3>1. row = Present(x)
      BY <1>1, <2>1, <2>2
    <3>2. row.live /\ row.key = x /\ x # Blank
      BY <3>1, KeyShape, RefIntegrityAssumption
    <3> QED
      BY <1>2, <3>2
  <2>3. CASE i # rec
    <3>1. LiveIn(s, t, x) # {}
      BY <1>1, <2>1, <2>3 DEF LiveIn
    <3> QED
      BY <1>2, <3>1, HoldsRows
  <2> QED
    BY <2>2, <2>3
<1>3. ASSUME NEW x \in Keys, LiveIn(s, t, x) # {} PROVE LiveIn(w, t, x) # {}
  <2>1. PICK i \in DOMAIN s[t] : s[t][i] = Present(x)
    BY <1>3 DEF LiveIn
  <2>2. i # rec
    BY <2>1, KeyShape
  <2> QED
    BY <1>1, <2>1, <2>2 DEF LiveIn
<1> QED
  BY <1>1, <1>2, <1>3 DEF OneChanged

LEMMA RecallSteps ==
  ASSUME IInv, NEW c \in Conns, NEW t \in Tables, Ready(c, t), RecallRecord(c, t), Careful
  PROVE  DataInv'
<1> DEFINE g == hand[c][t]
           h == [g EXCEPT !.row.live = TRUE]
<1>a. g.open /\ g.rec # 0 /\ ~g.row.live /\ rows[t][h.rec] = g.row /\ Refers(c, t, h.row.key) /\ turn = FreeTurn
  BY DEF RecallRecord, May, Careful
<1>b. h.rec = g.rec
  <2>1. g \in HandType
    BY <1>a, HandOf DEF IInv, DataInv
  <2> QED
    BY <2>1 DEF HandType
<1>1. /\ g.open /\ g.rec # 0 /\ ~g.row.live /\ rows[t][g.rec] = g.row /\ Refers(c, t, h.row.key) /\ turn = FreeTurn
      /\ hand' = [hand EXCEPT ![c][t] = h] /\ rows' = [rows EXCEPT ![t][h.rec] = h.row]
      /\ told'[4] = "done" /\ settled' = rows' /\ UNCHANGED <<call, turn>> /\ UNCHANGED dictVars
  <2>1. hand' = [hand EXCEPT ![c][t] = h] /\ rows' = [rows EXCEPT ![t][h.rec] = h.row]
    BY DEF RecallRecord, Hold, Put
  <2>2. told' = <<"insert", t, h.row.key, "done">> /\ settled' = rows' /\ UNCHANGED <<call, turn>> /\ UNCHANGED dictVars
    BY DEF RecallRecord, Answer, Counted
  <2>3. told'[4] = "done"
    BY <2>2
  <2> QED
    BY <1>a, <1>b, <2>1, <2>2, <2>3
<1>2. Calm(c) /\ rows = settled
  BY <1>1, CallsAreCalm
<1>3. Shape /\ Hands
  BY DEF IInv, DataInv
<1>4. g \in HandType /\ g.rec \in 0..Len(rows[t]) /\ Knowing(c, t, g)
  BY <1>1, <1>3, HandOf DEF Hands
<1>5. rows \in RowsType /\ rows[t] \in Seq(RowType) /\ Len(rows[t]) \in Nat /\ g.rec \in DOMAIN rows[t]
  BY <1>1, <1>3, <1>4, RowsShape DEF Shape
<1> HIDE DEF g
<1>6. /\ h \in HandType /\ h.rec = g.rec /\ h.open /\ h.fresh = g.fresh /\ h.narrow = g.narrow /\ h.trust = g.trust
      /\ h.snap = g.snap /\ h.row \in RowType /\ h.row.live /\ h.row.key = g.row.key
  <2>1. [g.row EXCEPT !.live = TRUE] \in RowType /\ [g.row EXCEPT !.live = TRUE].key = g.row.key
        /\ [g.row EXCEPT !.live = TRUE].live
    BY <1>4 DEF HandType, RowType
  <2> QED
    BY <1>1, <1>4, <2>1 DEF HandType
<1> HIDE DEF h
<1>7. Knowing(c, t, h)
  BY <1>1, <1>4, <1>6 DEF Knowing
<1>8. PutTo(rows, rows', t, g.rec, h.row)
  BY <1>1, <1>5, <1>6, PutRow
<1>9. OneChanged(settled, rows', Known(c), t)
  <2>1. Known(c) \in SUBSET RuleTexts /\ Holds(settled, Known(c))
    BY <1>2, RuleFacts DEF Calm, IInv
  <2>2. h.row.live /\ h.row.key # Blank => \A r \in Known(c) : r.child = t => LiveIn(settled, r.parent, h.row.key) # {}
    BY <1>1, <1>2, <1>6, RefersTo, RowShape
  <2> QED
    BY <1>1, <1>2, <1>5, <1>6, <1>8, <2>1, <2>2, PutRefers
<1>10. \A u \in Tables : Len(rows[u]) <= Len(rows'[u]) /\ Len(rows'[u]) <= MaxRows
  <2>1. \A u \in Tables : Len(rows'[u]) = Len(rows[u]) /\ Len(rows[u]) \in Nat /\ Len(rows[u]) <= MaxRows
    BY <1>3, <1>5, <1>8, RowsShape DEF PutTo, Shape
  <2> QED
    BY <2>1
<1>11. h.rec <= Len(rows[t]) /\ rows' \in RowsType
  BY <1>4, <1>6, <1>8 DEF PutTo
<1> QED
  BY <1>1, <1>2, <1>6, <1>7, <1>9, <1>10, <1>11, AtOnce

\* Statements leave the handles alone.
LEMMA StatementSteps ==
  ASSUME IInv, NEW c \in Conns, NEW t \in Tables, Ready(c, t), turn = FreeTurn, Careful,
         NEW op, NEW k, NEW now \in Seq(RowType), Statement(c, t, op, k, now),
         Len(rows[t]) <= Len(now), Len(now) <= MaxRows,
         NEW v \in RowsType, v = [rows EXCEPT ![t] = now], OneChanged(rows, v, Known(c), t)
  PROVE  DataInv'
<1>1. /\ rows' = v /\ settled' = rows' /\ told'[4] = "done" /\ UNCHANGED <<hand, call, turn>> /\ UNCHANGED dictVars
  BY DEF Statement, Answer, Counted
<1>2. Calm(c) /\ rows = settled
  BY CallsAreCalm
<1>3. Shape /\ Hands
  BY DEF IInv, DataInv
<1>4. hand[c][t] \in HandType \cup {Shut} /\ Knowing(c, t, hand[c][t]) /\ (hand[c][t].open => hand[c][t].rec <= Len(rows[t]))
  BY <1>3 DEF Hands, Shape
<1>5. hand' = [hand EXCEPT ![c][t] = hand[c][t]]
  BY <1>1, <1>3 DEF Shape
<1>6. \A u \in Tables : Len(rows[u]) <= Len(rows'[u]) /\ Len(rows'[u]) <= MaxRows
  <2>1. \A u \in Tables : Len(rows[u]) \in Nat /\ Len(rows[u]) <= MaxRows
    BY <1>3, RowsShape DEF Shape
  <2>2. rows'[t] = now /\ \A u \in Tables : u # t => rows'[u] = rows[u]
    BY <1>1, <1>3 DEF Shape, RowsType
  <2> QED
    BY <2>1, <2>2
<1>7. OneChanged(settled, rows', Known(c), t)
  BY <1>1, <1>2
<1> QED
  BY <1>1, <1>2, <1>4, <1>5, <1>6, <1>7, AtOnce

\* Rows that are changed one by one.
RowsEdited(now, w, k, row) ==
  /\ now \in Seq(RowType) /\ Len(now) = Len(w) /\ DOMAIN now = DOMAIN w
  /\ \A i \in DOMAIN w : now[i] = IF w[i] = Present(k) THEN row ELSE w[i]
LEMMA EditRows ==
  ASSUME NEW w \in Seq(RowType), NEW k, NEW row \in RowType, NEW now,
         now = [r \in DOMAIN w |-> IF w[r] = Present(k) THEN row ELSE w[r]]
  PROVE  RowsEdited(now, w, k, row)
<1>1. DOMAIN w = 1..Len(w) /\ Len(w) \in Nat /\ \A i \in DOMAIN w : w[i] \in RowType
  OBVIOUS
<1>2. DOMAIN now = DOMAIN w /\ \A i \in DOMAIN w : now[i] = IF w[i] = Present(k) THEN row ELSE w[i]
  OBVIOUS
<1>3. now \in [1..Len(w) -> RowType]
  BY <1>1
<1>4. now \in Seq(RowType) /\ Len(now) = Len(w)
  BY <1>1, <1>3
<1> QED
  BY <1>2, <1>4 DEF RowsEdited

\* The row of a key and of a statement.
LEMMA KeysDiffer ==
  ASSUME NEW x \in Keys, NEW k \in Keys \cup {Blank}
  PROVE  /\ Present(x) = Present(k) => x = k
         /\ Present(x) # Absent(k) /\ x # Blank
<1>1. Present(x).key = x /\ Present(k).key = k /\ Present(x).live = TRUE /\ Absent(k).live = FALSE
  BY KeyShape
<1>2. x # Blank
  BY RefIntegrityAssumption
<1> QED
  BY <1>1, <1>2

LEMMA SqlUpdateSteps ==
  ASSUME IInv, NEW c \in Conns, NEW t \in Tables, Ready(c, t), Careful, Executing(c, t),
         NEW k \in Keys \cup {Blank}, NEW new \in Keys \cup {Blank}, SqlUpdate(c, t, k, new)
  PROVE  DataInv'
<1> DEFINE now == [r \in DOMAIN rows[t] |-> IF r \in Live(t, k) THEN Row(TRUE, new) ELSE rows[t][r]]
           v == [rows EXCEPT ![t] = now]
           rules == Known(c)
<1>1. /\ turn = FreeTurn /\ Refers(c, t, new) /\ (k # new => Children(c, t, k) = {})
      /\ Statement(c, t, "update", k, now)
  BY DEF SqlUpdate, May, Careful, Executing
<1>2. Calm(c) /\ rows = settled /\ Shape
  BY <1>1, CallsAreCalm DEF IInv, DataInv
<1>3. /\ rules \in SUBSET RuleTexts /\ Holds(rows, rules) /\ rows \in RowsType
      /\ \A r \in rules : r.child \in Tables /\ r.parent \in Tables
  BY <1>2, RuleFacts, RuleShape DEF Calm, IInv, Shape
<1>4. /\ rows[t] \in Seq(RowType) /\ DOMAIN rows[t] = 1..Len(rows[t]) /\ Len(rows[t]) \in Nat /\ Len(rows[t]) <= MaxRows
  BY <1>2, <1>3, RowsShape DEF Shape
<1>5. now = [r \in DOMAIN rows[t] |-> IF rows[t][r] = Present(k) THEN Present(new) ELSE rows[t][r]]
  BY LiveIs DEF LiveIn, Present
<1> HIDE DEF now
<1>6. /\ now \in Seq(RowType) /\ Len(now) = Len(rows[t]) /\ DOMAIN now = DOMAIN rows[t]
      /\ \A i \in DOMAIN rows[t] : now[i] = IF rows[t][i] = Present(k) THEN Present(new) ELSE rows[t][i]
  <2>1. RowsEdited(now, rows[t], k, Present(new))
    BY <1>4, <1>5, KeyShape, EditRows
  <2> QED
    BY <2>1 DEF RowsEdited
<1>7. v \in RowsType /\ v[t] = now /\ \A u \in Tables : u # t => v[u] = rows[u]
  BY <1>3, <1>6 DEF RowsType
<1> HIDE DEF v
<1>8. ASSUME NEW r \in rules, NEW x \in Keys, r.child = t, LiveIn(v, t, x) # {} PROVE LiveIn(rows, r.parent, x) # {}
  <2>1. PICK i \in DOMAIN now : now[i] = Present(x)
    BY <1>7, <1>8 DEF LiveIn
  <2>2. CASE rows[t][i] = Present(k)
    <3>1. x = new /\ x # Blank
      BY <1>6, <2>1, <2>2, KeysDiffer
    <3> QED
      BY <1>1, <1>8, <3>1, RefersTo
  <2>3. CASE rows[t][i] # Present(k)
    <3>1. LiveIn(rows, t, x) # {}
      BY <1>6, <2>1, <2>3 DEF LiveIn
    <3> QED
      BY <1>3, <1>8, <3>1, HoldsRows
  <2> QED
    BY <2>2, <2>3
<1>9. ASSUME NEW r \in rules, NEW x \in Keys, r.parent = t, LiveIn(rows, t, x) # {}, LiveIn(rows, r.child, x) # {}
      PROVE  LiveIn(v, t, x) # {}
  <2>1. PICK i \in DOMAIN rows[t] : rows[t][i] = Present(x)
    BY <1>9 DEF LiveIn
  <2>2. x = k => k = new
    BY <1>1, <1>9, NoChildren
  <2>3. now[i] = Present(x)
    BY <1>6, <2>1, <2>2, KeysDiffer
  <2> QED
    BY <1>6, <1>7, <2>3 DEF LiveIn
<1>10. OneChanged(rows, v, rules, t)
  BY <1>7, <1>8, <1>9 DEF OneChanged
<1>11. v = [rows EXCEPT ![t] = now] /\ Len(rows[t]) <= Len(now) /\ Len(now) <= MaxRows
  BY <1>4, <1>6 DEF v
<1> QED
  BY <1>1, <1>6, <1>7, <1>10, <1>11, StatementSteps

LEMMA SqlDeleteSteps ==
  ASSUME IInv, NEW c \in Conns, NEW t \in Tables, Ready(c, t), Careful, Executing(c, t),
         NEW k \in Keys \cup {Blank}, SqlDelete(c, t, k)
  PROVE  DataInv'
<1> DEFINE now == [r \in DOMAIN rows[t] |-> IF r \in Live(t, k) THEN Row(FALSE, k) ELSE rows[t][r]]
           v == [rows EXCEPT ![t] = now]
           rules == Known(c)
<1>1. /\ turn = FreeTurn /\ Children(c, t, k) = {} /\ Statement(c, t, "delete", k, now)
  BY DEF SqlDelete, May, Careful, Executing
<1>2. Calm(c) /\ rows = settled /\ Shape
  BY <1>1, CallsAreCalm DEF IInv, DataInv
<1>3. /\ rules \in SUBSET RuleTexts /\ Holds(rows, rules) /\ rows \in RowsType
      /\ \A r \in rules : r.child \in Tables /\ r.parent \in Tables
  BY <1>2, RuleFacts, RuleShape DEF Calm, IInv, Shape
<1>4. /\ rows[t] \in Seq(RowType) /\ DOMAIN rows[t] = 1..Len(rows[t]) /\ Len(rows[t]) \in Nat /\ Len(rows[t]) <= MaxRows
  BY <1>2, <1>3, RowsShape DEF Shape
<1>5. now = [r \in DOMAIN rows[t] |-> IF rows[t][r] = Present(k) THEN Absent(k) ELSE rows[t][r]]
  BY LiveIs DEF LiveIn, Absent
<1> HIDE DEF now
<1>6. /\ now \in Seq(RowType) /\ Len(now) = Len(rows[t]) /\ DOMAIN now = DOMAIN rows[t]
      /\ \A i \in DOMAIN rows[t] : now[i] = IF rows[t][i] = Present(k) THEN Absent(k) ELSE rows[t][i]
  <2>1. RowsEdited(now, rows[t], k, Absent(k))
    BY <1>4, <1>5, KeyShape, EditRows
  <2> QED
    BY <2>1 DEF RowsEdited
<1>7. v \in RowsType /\ v[t] = now /\ \A u \in Tables : u # t => v[u] = rows[u]
  BY <1>3, <1>6 DEF RowsType
<1> HIDE DEF v
<1>8. ASSUME NEW r \in rules, NEW x \in Keys, r.child = t, LiveIn(v, t, x) # {} PROVE LiveIn(rows, r.parent, x) # {}
  <2>1. PICK i \in DOMAIN now : now[i] = Present(x)
    BY <1>7, <1>8 DEF LiveIn
  <2>2. rows[t][i] = Present(x)
    BY <1>6, <2>1, KeysDiffer
  <2>3. LiveIn(rows, t, x) # {}
    BY <1>6, <2>1, <2>2 DEF LiveIn
  <2> QED
    BY <1>3, <1>8, <2>3, HoldsRows
<1>9. ASSUME NEW r \in rules, NEW x \in Keys, r.parent = t, LiveIn(rows, t, x) # {}, LiveIn(rows, r.child, x) # {}
      PROVE  LiveIn(v, t, x) # {}
  <2>1. PICK i \in DOMAIN rows[t] : rows[t][i] = Present(x)
    BY <1>9 DEF LiveIn
  <2>2. x # k
    BY <1>1, <1>9, NoChildren
  <2>3. now[i] = Present(x)
    BY <1>6, <2>1, <2>2, KeysDiffer
  <2> QED
    BY <1>6, <1>7, <2>3 DEF LiveIn
<1>10. OneChanged(rows, v, rules, t)
  BY <1>7, <1>8, <1>9 DEF OneChanged
<1>11. v = [rows EXCEPT ![t] = now] /\ Len(rows[t]) <= Len(now) /\ Len(now) <= MaxRows
  BY <1>4, <1>6 DEF v
<1> QED
  BY <1>1, <1>6, <1>7, <1>10, <1>11, StatementSteps

LEMMA SqlInsertSteps ==
  ASSUME IInv, NEW c \in Conns, NEW t \in Tables, Ready(c, t), Careful, Executing(c, t),
         NEW k \in Keys \cup {Blank}, SqlInsert(c, t, k)
  PROVE  DataInv'
<1> DEFINE now == Append(rows[t], Present(k))
           v == [rows EXCEPT ![t] = now]
           rules == Known(c)
<1>1. turn = FreeTurn /\ Refers(c, t, k) /\ Len(rows[t]) < MaxRows /\ Statement(c, t, "insert", k, now)
  BY DEF SqlInsert, May, Careful, Executing, Present
<1>2. Calm(c) /\ rows = settled /\ Shape
  BY <1>1, CallsAreCalm DEF IInv, DataInv
<1>3. /\ rules \in SUBSET RuleTexts /\ Holds(rows, rules) /\ rows \in RowsType
      /\ \A r \in rules : r.child \in Tables /\ r.parent \in Tables
  BY <1>2, RuleFacts, RuleShape DEF Calm, IInv, Shape
<1>4. rows[t] \in Seq(RowType) /\ DOMAIN rows[t] = 1..Len(rows[t]) /\ Len(rows[t]) \in Nat
  BY <1>2, <1>3, RowsShape DEF Shape
<1>5. /\ now \in Seq(RowType) /\ Len(now) = Len(rows[t]) + 1 /\ DOMAIN now = 1..Len(rows[t]) + 1
      /\ now[Len(rows[t]) + 1] = Present(k) /\ \A i \in DOMAIN rows[t] : now[i] = rows[t][i]
  <2>1. Present(k) \in RowType
    BY KeyShape
  <2> QED
    BY <1>4, <2>1
<1> HIDE DEF now
<1>6. v \in RowsType /\ v[t] = now /\ \A u \in Tables : u # t => v[u] = rows[u]
  BY <1>3, <1>5 DEF RowsType
<1> HIDE DEF v
<1>7. ASSUME NEW r \in rules, NEW x \in Keys, r.child = t, LiveIn(v, t, x) # {} PROVE LiveIn(rows, r.parent, x) # {}
  <2>1. PICK i \in DOMAIN now : now[i] = Present(x)
    BY <1>6, <1>7 DEF LiveIn
  <2>2. CASE i = Len(rows[t]) + 1
    <3>1. x = k /\ x # Blank
      BY <1>5, <2>1, <2>2, KeysDiffer
    <3> QED
      BY <1>1, <1>7, <3>1, RefersTo
  <2>3. CASE i # Len(rows[t]) + 1
    <3>1. i \in DOMAIN rows[t]
      BY <1>4, <1>5, <2>1, <2>3
    <3>2. LiveIn(rows, t, x) # {}
      BY <1>5, <2>1, <3>1 DEF LiveIn
    <3> QED
      BY <1>3, <1>7, <3>2, HoldsRows
  <2> QED
    BY <2>2, <2>3
<1>8. ASSUME NEW x \in Keys, LiveIn(rows, t, x) # {} PROVE LiveIn(v, t, x) # {}
  <2>1. PICK i \in DOMAIN rows[t] : rows[t][i] = Present(x)
    BY <1>8 DEF LiveIn
  <2>2. i \in DOMAIN now /\ now[i] = Present(x)
    BY <1>4, <1>5, <2>1
  <2> QED
    BY <1>6, <2>2 DEF LiveIn
<1>9. OneChanged(rows, v, rules, t)
  BY <1>6, <1>7, <1>8 DEF OneChanged
<1>10. v = [rows EXCEPT ![t] = now] /\ Len(rows[t]) <= Len(now) /\ Len(now) <= MaxRows
  BY <1>1, <1>4, <1>5, RefIntegrityAssumption DEF v
<1> QED
  BY <1>1, <1>5, <1>6, <1>9, <1>10, StatementSteps

---------------------------------------------------------------------------
(* Steps of the dictionary *)

\* The definitions that read one copy, when its rules do not change.
LEMMA SameCopy ==
  ASSUME NEW c \in Conns, RulesStay(c) \/ copy'[c] = copy[c]
  PROVE  /\ Here(c)' = Here(c) /\ Known(c)' = Known(c)
         /\ \A t \in Tables : Knows(c, t)' = Knows(c, t) /\ Parenting(c, t)' = Parenting(c, t)
         /\ \A n \in Of("RI") : Rule(c, n)' = Rule(c, n)
<1>1. RulesStay(c)
  BY DEF RulesStay, Here
<1>2. Known(c)' = Known(c)
  BY <1>1 DEF Known, RulesOf, RulesStay
<1>3. \A n \in Of("RI") : Rule(c, n)' = Rule(c, n)
  BY <1>1 DEF Rule, RulesStay
<1>4. \A t \in Tables : Knows(c, t)' = Knows(c, t)
  BY <1>1 DEF Knows, RulesStay
<1>5. InForce(c)' = InForce(c) /\ InForce(c) \subseteq Of("RI")
  BY <1>1 DEF InForce, RulesStay
<1>6. ASSUME NEW t \in Tables PROVE Parenting(c, t)' = Parenting(c, t)
  BY <1>3, <1>4, <1>5 DEF Parenting
<1> QED
  BY <1>1, <1>2, <1>3, <1>4, <1>6 DEF RulesStay

LEMMA BusyStays ==
  ASSUME NEW c \in Conns, NEW t \in Tables, Busy(c, t), RulesStay(c) \/ copy'[c] = copy[c], InFile' = InFile,
         \A d \in Conns : Resting(d)' = Resting(d), UNCHANGED dataVars
  PROVE  Busy(c, t)'
<1> DEFINE h == hand[c][t]
<1>1. /\ Here(c)' = Here(c) /\ Known(c)' = Known(c) /\ Knows(c, t)' = Knows(c, t) /\ Parenting(c, t)' = Parenting(c, t)
      /\ \A n \in Of("RI") : Rule(c, n)' = Rule(c, n)
  BY SameCopy
<1>2. UNCHANGED <<rows, hand, call, told, turn, settled>>
  BY DEF dataVars
<1>3. Unchanged(t)' = Unchanged(t) /\ Edited(t, hand[c][t])' = Edited(t, h)
  BY <1>2 DEF Unchanged, Edited
<1>4. KeyKnown(c, t, hand[c][t])' = KeyKnown(c, t, h) /\ Referred(c, t, hand[c][t])' = Referred(c, t, h)
  BY <1>1, <1>2 DEF KeyKnown, Referred
<1>5. Editing(c, t, h) => Editing(c, t, hand[c][t])'
  BY <1>2, <1>3, <1>4 DEF Editing
<1>6. OldKey(c)' = OldKey(c) /\ (Concerned(c)' <=> Concerned(c))
  <2>1. OldKey(c)' = OldKey(c)
    BY <1>2 DEF OldKey
  <2> QED
    BY <1>2, <2>1 DEF Concerned
<1>7. ASSUME Acting(c, t, h), Progress(c, t, call[c].op, OldKey(c), h.row.key)
      PROVE  Progress(c, t, call[c].op, OldKey(c), hand[c][t].row.key)'
  <2>1. call[c].todo \subseteq Of("RI")
    BY <1>7 DEF Acting, Parenting, InForce
  <2>2. Coming(c)' = Coming(c) /\ Start(t)' = Start(t)
    BY <1>1, <1>2, <2>1 DEF Coming, Start
  <2> QED
    BY <1>1, <1>2, <1>6, <1>7, <2>2 DEF Progress
<1>8. Acting(c, t, h) => Acting(c, t, hand[c][t])'
  BY <1>1, <1>2, <1>3, <1>4, <1>6, <1>7 DEF Acting
<1> QED
  BY <1>1, <1>2, <1>3, <1>5, <1>8 DEF Busy

\* Nothing that the rows depend on changes.
LEMMA DataStays ==
  ASSUME DataInv, UNCHANGED <<stage, add, memo>>, UNCHANGED dataVars,
         \A c \in Conns : RulesStay(c) \/ copy'[c] = copy[c], \A c \in Conns : ~Resting(c) => copy'[c] = copy[c]
  PROVE  DataInv'
<1>1. UNCHANGED <<rows, hand, call, told, turn, settled>>
  BY DEF dataVars
<1>2. InFile' = InFile /\ SwapsMemo' = SwapsMemo /\ \A c \in Conns : Resting(c)' = Resting(c)
  BY DEF InFile, SwapsMemo, Resting
<1>3. Shape'
  BY <1>1 DEF DataInv, Shape
<1>4. Hands'
  <2>1. \A c \in Conns : /\ Here(c)' = Here(c) /\ Known(c)' = Known(c)
                         /\ \A t \in Tables : Knows(c, t)' = Knows(c, t) /\ Parenting(c, t)' = Parenting(c, t)
    BY SameCopy
  <2> QED
    BY <1>1, <2>1 DEF DataInv, Hands, Knowing
<1>5. Settled'
  BY <1>1, <1>2 DEF DataInv, Settled
<1>6. \A c \in Conns, t \in Tables : turn' = <<c, t>> => Busy(c, t)'
  BY <1>1, <1>2, BusyStays DEF DataInv
<1> QED
  BY <1>3, <1>4, <1>5, <1>6 DEF DataInv

\* One connection has a new copy, or none, and no handle.
LEMMA HandsWithout ==
  ASSUME Hands, NEW c \in Conns, \A d \in Conns : d # c => copy'[d] = copy[d] /\ hand'[d] = hand[d] /\ call'[d] = call[d],
         call'[c] = Idle, \A t \in Tables : hand'[c][t] = Shut, turn' = turn
  PROVE  Hands'
<1> SUFFICES ASSUME NEW d \in Conns
             PROVE  /\ ~Here(d)' => call'[d] = Idle /\ \A t \in Tables : hand'[d][t] = Shut
                    /\ call'[d] # Idle => turn' = <<d, call'[d].table>>
                    /\ \A t \in Tables : Knowing(d, t, hand[d][t])'
  BY DEF Hands
<1>1. CASE d = c
  <2>1. ~Shut.open
    BY DEF Shut
  <2> QED
    BY <1>1, <2>1 DEF Knowing
<1>2. CASE d # c
  <2>1. /\ Here(d)' = Here(d) /\ Known(d)' = Known(d)
        /\ \A t \in Tables : Knows(d, t)' = Knows(d, t) /\ Parenting(d, t)' = Parenting(d, t)
    BY <1>2, SameCopy
  <2>2. \A t \in Tables : Knowing(d, t, hand[d][t])
    BY DEF Hands
  <2>3. \A t \in Tables : Knowing(d, t, hand[d][t])'
    BY <1>2, <2>1, <2>2 DEF Knowing
  <2> QED
    BY <1>2, <2>1, <2>3 DEF Hands
<1> QED
  BY <1>1, <1>2

LEMMA DictChangeSteps ==
  ASSUME IInv, NEW c \in Conns, DictChange(c), Careful
  PROVE  IInv'
<1>1. /\ UNCHANGED dataVars /\ Here(c) /\ call[c] = Idle /\ turn = FreeTurn /\ \A t \in Tables : ~hand[c][t].open
  BY DEF DictChange, Data, May, Careful
<1>2. PICK m \in Changes(copy[c]) : Satisfied(m) /\ RuleTables(m) \subseteq m.objs /\ OneParent(m) /\ Change(c, m)
  BY DEF DictChange, May, Careful, Changes
<1>3. DictInv' /\ DictInv
  BY <1>2, ChangeSteps DEF IInv
<1>4. Good(m) /\ \A d \in Conns : Resting(d)
  BY <1>2, <1>3, ChangerIsGood
<1>5. UNCHANGED <<rows, hand, call, told, turn, settled>>
  BY <1>1 DEF dataVars
<1>6. Shape /\ Hands /\ Settled /\ rows = settled
  BY <1>1 DEF IInv, DataInv, Settled
<1>7. /\ copy' = [copy EXCEPT ![c] = m] /\ stage' = [stage EXCEPT ![c] = "memo"] /\ InFile' = InFile
      /\ copy \in [Conns -> Copies \cup {Gone}] /\ stage \in [Conns -> {"idle", "memo", "swap add", "swap memo"}]
  BY <1>2, <1>3 DEF Change, InFile, DictInv, CopiesInv
<1>8. /\ copy'[c] = m /\ (\A d \in Conns : d # c => copy'[d] = copy[d] /\ Resting(d)' = Resting(d))
      /\ (SwapsMemo' <=> SwapsMemo)
  <2>1. stage[c] = "idle" /\ stage'[c] = "memo" /\ \A d \in Conns : d # c => stage'[d] = stage[d]
    BY <1>4, <1>7 DEF Resting
  <2> QED
    BY <1>7, <2>1 DEF Resting, SwapsMemo
<1>9. \A t \in Tables : hand'[c][t] = Shut
  BY <1>1, <1>5, <1>6, HandShape DEF Shape
<1>10. Hands'
  BY <1>1, <1>5, <1>6, <1>8, <1>9, HandsWithout
<1>11. Holds(settled, RulesOf(m))
  <2>1. m \in Copies /\ Placed(m)
    BY <1>4 DEF Good, Sound
  <2>2. ASSUME NEW r \in RulesOf(m), NEW i \in DOMAIN rows[r.child], rows[r.child][i].live, rows[r.child][i].key # Blank
        PROVE  LiveIn(rows, r.parent, rows[r.child][i].key) # {}
    <3>1. rows[r.child][i] \in Range(rows[r.child])
      BY DEF Range
    <3>2. Live(r.parent, rows[r.child][i].key) # {}
      BY <1>2, <2>2, <3>1 DEF Satisfied
    <3> QED
      BY <3>2, LiveIs
  <2> QED
    BY <1>6, <2>2 DEF Holds
<1>12. Settled'
  <2>1. \A d \in Conns : ~Resting(d)' => d = c
    BY <1>4, <1>8
  <2> QED
    BY <1>1, <1>5, <1>6, <1>7, <1>8, <1>11, <2>1 DEF Settled
<1>13. Shape'
  BY <1>5, <1>6 DEF Shape
<1> QED
  BY <1>1, <1>3, <1>5, <1>10, <1>12, <1>13 DEF IInv, DataInv, FreeTurn

LEMMA SavingSteps ==
  ASSUME IInv, NEW c \in Conns, Saving(c)
  PROVE  IInv'
<1>1. UNCHANGED <<rows, hand, call, told, turn, settled>>
  BY DEF Saving, Data, dataVars
<1>2. Shape /\ Hands /\ Settled /\ DictInv
  BY DEF IInv, DataInv
<1>3. ~Resting(c)
  BY DEF Saving, SaveMemo, SwapAdd, SwapMemo, Resting
<1>4. turn = FreeTurn
  BY <1>2, <1>3 DEF Settled
<1>5. /\ DictInv' /\ UNCHANGED copy /\ (\A d \in Conns : ~Resting(d)' => ~Resting(d))
      /\ ~SwapsMemo' => (~SwapsMemo /\ InFile' = InFile) \/ InFile' = Said(copy[c])
  <2>0. stage \in [Conns -> {"idle", "memo", "swap add", "swap memo"}]
    BY <1>2 DEF DictInv, CopiesInv
  <2>1. CASE SaveMemo(c)
    <3>1. DictInv'
      BY <1>2, <2>1, SaveMemoSteps
    <3>2. stage' = [stage EXCEPT ![c] = "swap add"] /\ stage[c] = "memo" /\ UNCHANGED <<copy, add, memo>>
      BY <2>1 DEF SaveMemo
    <3> QED
      BY <2>0, <3>1, <3>2 DEF Resting, SwapsMemo, InFile
  <2>2. CASE SwapAdd(c)
    <3>1. /\ DictInv' /\ stage' = [stage EXCEPT ![c] = "swap memo"] /\ UNCHANGED copy
      BY <1>2, <2>2, SwapAddSteps
    <3>2. SwapsMemo'
      BY <2>0, <3>1 DEF SwapsMemo
    <3> QED
      BY <1>3, <2>0, <3>1, <3>2 DEF Resting
  <2>3. CASE SwapMemo(c)
    <3>1. /\ DictInv' /\ stage' = [stage EXCEPT ![c] = "idle"] /\ UNCHANGED copy /\ InFile' = Said(copy[c])
      BY <1>2, <2>3, SwapMemoSteps
    <3> QED
      BY <2>0, <3>1 DEF Resting
  <2> QED
    BY <2>1, <2>2, <2>3 DEF Saving
<1>6. Hands'
  BY <1>1, <1>2, <1>5 DEF Hands, Knowing, Here, Knows, Known, Parenting, InForce, Rule
<1>7. Settled'
  <2>1. InFile' = Said(copy[c]) => RulesOf(InFile)' = RulesOf(copy[c])
    BY SaidRules
  <2>2. Holds(settled, RulesOf(copy[c]))
    BY <1>2, <1>3 DEF Settled
  <2>3. ~SwapsMemo' => Holds(settled, RulesOf(InFile)')
    BY <1>2, <1>5, <2>1, <2>2 DEF Settled
  <2> QED
    BY <1>1, <1>2, <1>4, <1>5, <2>3 DEF Settled
<1>8. Shape'
  BY <1>1, <1>2 DEF Shape
<1> QED
  BY <1>1, <1>4, <1>5, <1>6, <1>7, <1>8 DEF IInv, DataInv, FreeTurn

LEMMA JoiningSteps ==
  ASSUME IInv, NEW c \in Conns, Joining(c)
  PROVE  IInv'
<1>1. UNCHANGED dataVars /\ Connect(c) /\ UNCHANGED <<rows, hand, call, told, turn, settled>>
  BY DEF Joining, Data, dataVars
<1>2. Shape /\ Hands /\ Settled /\ DictInv /\ ~Here(c)
  BY <1>1 DEF IInv, DataInv, Connect
<1>3. DictInv'
  BY <1>1, <1>2, ConnectSteps
<1>4. call[c] = Idle /\ \A t \in Tables : hand[c][t] = Shut
  BY <1>2 DEF Hands
<1>5. /\ (\A d \in Conns : d # c => copy'[d] = copy[d]) /\ InFile' = InFile /\ SwapsMemo' = SwapsMemo
      /\ (\A d \in Conns : Resting(d)' = Resting(d)) /\ Resting(c)
  BY <1>1, <1>2 DEF Connect, InFile, SwapsMemo, Resting, DictInv, CopiesInv
<1>6. Hands'
  BY <1>1, <1>2, <1>4, <1>5, HandsWithout
<1>7. Settled'
  <2>1. ASSUME NEW d \in Conns, ~Resting(d)' PROVE turn' = FreeTurn /\ Holds(settled', RulesOf(copy'[d]))
    <3>1. d # c /\ ~Resting(d)
      BY <1>5, <2>1
    <3> QED
      BY <1>1, <1>2, <1>5, <3>1 DEF Settled
  <2> QED
    BY <1>1, <1>2, <1>5, <2>1 DEF Settled
<1>8. ASSUME NEW d \in Conns, NEW t \in Tables, turn' = <<d, t>> PROVE Busy(d, t)'
  <2>1. Busy(d, t)
    BY <1>1, <1>8 DEF IInv, DataInv
  <2>2. d # c
    BY <1>2, <2>1 DEF Busy
  <2> QED
    BY <1>1, <1>5, <2>1, <2>2, BusyStays
<1>9. Shape'
  BY <1>1, <1>2 DEF Shape
<1> QED
  BY <1>3, <1>6, <1>7, <1>8, <1>9 DEF IInv, DataInv

LEMMA SettingSteps ==
  ASSUME IInv, NEW c \in Conns, Setting(c), Careful
  PROVE  IInv'
<1>1. UNCHANGED dataVars
  BY DEF Setting, Data
<1>2. PICK t \in Of("Table"), text \in {Plain("Table"), Keyed} : SetTableProperty(c, t, text)
  BY DEF Setting
<1>3. /\ DictInv' /\ UNCHANGED <<stage, add, memo>> /\ Resting(c)
      /\ (\A d \in Conns : d # c => copy'[d] = copy[d]) /\ \A d \in Conns : RulesStay(d)
  BY <1>2, PropertySteps DEF IInv
<1> QED
  BY <1>1, <1>3, DataStays DEF IInv

LEMMA LeavingSteps ==
  ASSUME IInv, NEW c \in Conns, Leaving(c), Careful
  PROVE  IInv'
<1>1. /\ Leave(c) /\ turn = FreeTurn /\ turn' = FreeTurn /\ UNCHANGED <<rows, told, settled>>
      /\ hand' = [hand EXCEPT ![c] = [t \in Tables |-> Shut]] /\ call' = [call EXCEPT ![c] = Idle]
  BY DEF Leaving, May, Careful, FreeTurn
<1>2. Shape /\ Hands /\ Settled /\ DictInv
  BY DEF IInv, DataInv
<1>3. DictInv'
  BY <1>1, <1>2, LeaveSteps
<1>4. /\ copy' = [copy EXCEPT ![c] = Gone] /\ stage' = [stage EXCEPT ![c] = "idle"] /\ UNCHANGED <<add, memo>>
      /\ stage[c] # "swap memo"
      /\ copy \in [Conns -> Copies \cup {Gone}] /\ stage \in [Conns -> {"idle", "memo", "swap add", "swap memo"}]
  BY <1>1, <1>2 DEF Leave, May, Careful, DictInv, CopiesInv
<1>5. /\ InFile' = InFile /\ SwapsMemo' = SwapsMemo /\ Resting(c)'
      /\ \A d \in Conns : d # c => copy'[d] = copy[d] /\ Resting(d)' = Resting(d)
  BY <1>4 DEF InFile, SwapsMemo, Resting
<1>6. /\ hand' \in [Conns -> [Tables -> HandType \cup {Shut}]] /\ (\A d \in Conns : d # c => hand'[d] = hand[d])
      /\ (\A t \in Tables : hand'[c][t] = Shut)
      /\ call' \in [Conns -> CallType \cup {Idle}] /\ call'[c] = Idle /\ \A d \in Conns : d # c => call'[d] = call[d]
  BY <1>1, <1>2 DEF Shape
<1>7. Hands'
  BY <1>1, <1>2, <1>5, <1>6, HandsWithout
<1>8. Shape'
  <2>1. ASSUME NEW d \in Conns, NEW t \in Tables, hand'[d][t].open PROVE hand'[d][t].rec <= Len(rows'[t])
    <3>1. d # c
      BY <1>6, <2>1 DEF Shut
    <3> QED
      BY <1>1, <1>2, <1>6, <2>1, <3>1 DEF Shape
  <2> QED
    BY <1>1, <1>2, <1>6, <2>1 DEF Shape
<1>9. Settled'
  <2>1. ASSUME NEW d \in Conns, ~Resting(d)' PROVE turn' = FreeTurn /\ Holds(settled', RulesOf(copy'[d]))
    <3>1. d # c /\ ~Resting(d)
      BY <1>5, <2>1
    <3> QED
      BY <1>1, <1>2, <1>5, <3>1 DEF Settled
  <2>2. \A d \in Conns : call'[d] = Idle
    BY <1>1, <1>2, <1>6 DEF Settled
  <2> QED
    BY <1>1, <1>2, <1>5, <2>1, <2>2 DEF Settled
<1> QED
  BY <1>1, <1>3, <1>7, <1>8, <1>9 DEF IInv, DataInv, FreeTurn

---------------------------------------------------------------------------
(* The theorems *)

LEMMA InitKeeps ==
  ASSUME Init
  PROVE  IInv
<1>1. /\ copy = [c \in Conns |-> Gone] /\ stage = [c \in Conns |-> "idle"] /\ add = Recorded(FirstCopy)
      /\ memo = Texted(FirstCopy) /\ addNew = None /\ memoNew = None
  BY DEF Init, DictInit
<1>2. /\ rows = FirstRows /\ settled = FirstRows /\ hand = [c \in Conns |-> [t \in Tables |-> Shut]]
      /\ call = [c \in Conns |-> Idle] /\ told = <<"none", "none", Blank, "done">> /\ turn = FreeTurn
  BY DEF Init
<1>3. FirstCopy \in Copies /\ Good(FirstCopy)
  BY FirstAssumption DEF Copies, Good, Sound, Placed
<1>4. ~SwapsMemo /\ (\A c \in Conns : Resting(c) /\ ~Here(c)) /\ FilesOf(FirstCopy)
  BY <1>1 DEF SwapsMemo, Resting, Here, FilesOf
<1>5. DictInv
  <2>1. CopiesInv
    BY <1>1, <1>4 DEF CopiesInv
  <2>2. FilesInv
    BY <1>1, <1>3, <1>4 DEF FilesInv
  <2> QED
    BY <2>1, <2>2 DEF DictInv
<1>6. FirstRows \in RowsType /\ \A t \in Tables : Len(FirstRows[t]) \in Nat /\ Len(FirstRows[t]) <= MaxRows
  <2>1. FirstRows \in RowsType
    BY RefIntegrityAssumption DEF RowsType, RowType
  <2> QED
    BY <2>1, RowsShape, RefIntegrityAssumption
<1>7. \A c \in Conns, t \in Tables : hand[c][t] = Shut /\ ~hand[c][t].open
  BY <1>2 DEF Shut
<1>8. Shape
  <2>1. \A t \in Tables : Len(settled[t]) <= Len(rows[t]) /\ Len(rows[t]) <= MaxRows
    BY <1>2, <1>6
  <2>2. hand \in [Conns -> [Tables -> HandType \cup {Shut}]] /\ call \in [Conns -> CallType \cup {Idle}]
    BY <1>2
  <2> QED
    BY <1>2, <1>6, <1>7, <2>1, <2>2 DEF Shape
<1>9. Hands
  BY <1>2, <1>7 DEF Hands, Knowing
<1>10. Holds(settled, RulesOf(InFile))
  <2>1. InFile = Said(FirstCopy)
    BY <1>3, <1>4, FilesTellCopy DEF InFile, FilesOf, Good
  <2>2. RulesOf(InFile) = RulesOf(FirstCopy)
    BY <2>1, SaidRules
  <2>3. ASSUME NEW r \in RulesOf(FirstCopy), NEW i \in DOMAIN FirstRows[r.child], FirstRows[r.child][i].live,
               FirstRows[r.child][i].key # Blank
        PROVE  LiveIn(FirstRows, r.parent, FirstRows[r.child][i].key) # {}
    <3> DEFINE k == FirstRows[r.child][i].key
    <3>1. FirstRows[r.child][i] \in Range(FirstRows[r.child])
      BY DEF Range
    <3>2. Present(k) \in Range(FirstRows[r.parent])
      BY <2>3, <3>1, FirstAssumption DEF Present
    <3> HIDE DEF k
    <3>3. \E j \in DOMAIN FirstRows[r.parent] : FirstRows[r.parent][j] = Present(k)
      BY <3>2 DEF Range
    <3>4. LiveIn(FirstRows, r.parent, k) # {}
      BY <3>3 DEF LiveIn
    <3> QED
      BY <3>4 DEF k
  <2> QED
    BY <1>2, <2>2, <2>3 DEF Holds
<1>11. Settled
  BY <1>2, <1>4, <1>10 DEF Settled
<1> QED
  BY <1>2, <1>5, <1>8, <1>9, <1>11 DEF IInv, DataInv, FreeTurn

LEMMA TableSteps ==
  ASSUME IInv, NEW c \in Conns, NEW t \in Tables, OnTable(c, t), Careful
  PROVE  IInv'
<1>1. Ready(c, t)
  BY DEF OnTable
<1>2. DataInv'
  <2>1. CASE OpenTable(c, t)
    BY <1>1, <2>1, OpenSteps
  <2>2. CASE CloseTable(c, t)
    BY <1>1, <2>2, CloseSteps
  <2>3. CASE Move(c, t)
    BY <1>1, <2>3, MoveSteps
  <2>4. CASE AppendRecord(c, t)
    BY <1>1, <2>4, AppendSteps
  <2>5. CASE WriteAppended(c, t)
    BY <1>1, <2>5, WriteAppendedSteps
  <2>6. CASE WriteChanged(c, t)
    BY <1>1, <2>6, WriteChangedSteps
  <2>7. CASE DeleteRecord(c, t)
    BY <1>1, <2>7, DeleteSteps
  <2>8. CASE RecallRecord(c, t)
    BY <1>1, <2>8, RecallSteps
  <2>9. ASSUME NEW k \in Keys \cup {Blank}, SetField(c, t, k) PROVE DataInv'
    BY <1>1, <2>9, SetFieldSteps
  <2>10. ASSUME NEW k \in Keys \cup {Blank}, Executing(c, t), SqlDelete(c, t, k) PROVE DataInv'
    BY <1>1, <2>10, SqlDeleteSteps
  <2>11. ASSUME NEW k \in Keys \cup {Blank}, Executing(c, t), SqlInsert(c, t, k) PROVE DataInv'
    BY <1>1, <2>11, SqlInsertSteps
  <2>12. ASSUME NEW k \in Keys \cup {Blank}, NEW new \in Keys \cup {Blank}, Executing(c, t), SqlUpdate(c, t, k, new)
         PROVE  DataInv'
    BY <1>1, <2>12, SqlUpdateSteps
  <2> QED
    BY <2>1, <2>2, <2>3, <2>4, <2>5, <2>6, <2>7, <2>8, <2>9, <2>10, <2>11, <2>12 DEF OnTable
<1>3. UNCHANGED dictVars
  BY DEF OnTable, OpenTable, CloseTable, Move, AppendRecord, WriteAppended, WriteChanged, DeleteRecord, RecallRecord,
         SetField, SqlDelete, SqlInsert, SqlUpdate, Statement, Counted, Uncounted
<1> QED
  BY <1>2, <1>3, SameDict DEF IInv

LEMMA RuleSteps ==
  ASSUME IInv, NEW c \in Conns, InRule(c)
  PROVE  IInv'
<1>1. DataInv'
  <2>1. CASE PassRule(c)
    BY <2>1, PassSteps
  <2>2. CASE Refuse(c)
    BY <2>2, RefuseSteps
  <2>3. CASE Apply(c)
    BY <2>3, ApplySteps
  <2>4. CASE FinishWrite(c)
    BY <2>4, FinishWriteSteps
  <2>5. CASE FinishDelete(c)
    BY <2>5, FinishDeleteSteps
  <2> QED
    BY <2>1, <2>2, <2>3, <2>4, <2>5 DEF InRule
<1>2. UNCHANGED dictVars
  BY DEF InRule, PassRule, Refuse, Apply, FinishWrite, FinishDelete
<1> QED
  BY <1>1, <1>2, SameDict DEF IInv

LEMMA StepKeeps ==
  ASSUME IInv, [Next]_vars, Careful
  PROVE  IInv'
<1>1. CASE UNCHANGED vars
  <2>1. UNCHANGED dictVars /\ UNCHANGED dataVars
    BY <1>1 DEF vars
  <2>2. UNCHANGED <<copy, stage, add, memo>>
    BY <2>1 DEF dictVars
  <2> QED
    BY <2>1, <2>2, DataStays, SameDict DEF IInv
<1>2. ASSUME NEW c \in Conns, NEW t \in Tables, OnTable(c, t) PROVE IInv'
  BY <1>2, TableSteps
<1>3. ASSUME NEW c \in Conns, InRule(c) PROVE IInv'
  BY <1>3, RuleSteps
<1>4. ASSUME NEW c \in Conns, OnDictionary(c) PROVE IInv'
  BY <1>4, DictChangeSteps, SavingSteps, JoiningSteps, SettingSteps, LeavingSteps DEF OnDictionary
<1> QED
  BY <1>1, <1>2, <1>3, <1>4 DEF Next

LEMMA SpecKeeps ==
  ASSUME Careful
  PROVE  Spec => []IInv
<1>1. Init => IInv
  BY InitKeeps
<1>2. IInv /\ [Next]_vars => IInv'
  BY StepKeeps
<1> QED
  BY <1>1, <1>2, PTL DEF Spec

---------------------------------------------------------------------------
(* What the invariant says of the properties *)

\* A file of records names every object once, and a file of texts holds texts.
LEMMA FilesAreTyped ==
  ASSUME NEW m \in Copies
  PROVE  /\ Recorded(m) \in Seq(Names) /\ Cardinality(Range(Recorded(m))) = Len(Recorded(m))
         /\ Range(Texted(m)) \subseteq AllTexts
<1> DEFINE f == Recorded(m)
<1>1. m.objs \in SUBSET Names
  BY DEF Copies
<1>2. f \in Seq(Names) /\ \A i, j \in DOMAIN f : f[i] = f[j] => i = j
  BY <1>1, Records
<1>3. DOMAIN f = 1..Len(f) /\ Len(f) \in Nat
  BY <1>2
<1>4. Texted(m) \in Seq(AllTexts)
  BY TextsOfCopy
<1> HIDE DEF f
<1>5. f \in [1..Len(f) -> Names]
  BY <1>2
<1>6. f \in Surjection(1..Len(f), Range(f)) /\ f \in Injection(1..Len(f), Range(f))
  <2>1. f \in [1..Len(f) -> Range(f)]
    BY <1>3, <1>5 DEF Range
  <2> QED
    BY <1>2, <1>3, <2>1 DEF Surjection, Injection, IsInjective, Range
<1>7. IsFiniteSet(1..Len(f)) /\ Cardinality(1..Len(f)) = Len(f)
  <2>1. \A n \in Nat : IsFiniteSet(1..n) /\ Cardinality(1..n) = n
    BY FS_Interval
  <2> QED
    BY <1>3, <2>1
<1>8. Cardinality(Range(f)) = Len(f)
  BY <1>6, <1>7, FS_Surjection
<1>9. \A s \in Seq(AllTexts) : Range(s) \subseteq AllTexts
  BY DEF Range
<1> QED
  BY <1>2, <1>4, <1>8, <1>9 DEF f

LEMMA DictTyped ==
  ASSUME DictInv
  PROVE  DictTypeOK
<1>1. ASSUME NEW c \in Conns, Here(c)
      PROVE  /\ copy[c].objs \subseteq Names
             /\ \A o \in Names : Kind[o] = "User" \/ copy[c].text[o] \in Texts(o)
  <2>1. copy[c] \in Copies /\ Placed(copy[c])
    BY <1>1 DEF DictInv, CopiesInv, Sound
  <2> QED
    BY <2>1 DEF Copies, Placed
<1>2. stage \in [Conns -> {"idle", "memo", "swap add", "swap memo"}]
  BY DEF DictInv, CopiesInv
<1>3. /\ addNew = None \/ \E m \in Copies : addNew = Recorded(m)
      /\ memoNew = None \/ \E m \in Copies : memoNew = Texted(m)
  BY DEF DictInv, FilesInv
<1>4. (\E m \in Copies : add = Recorded(m)) /\ (\E m \in Copies : memo = Texted(m))
  <2>1. CASE SwapsMemo
    <3>1. PICK c \in Conns : stage[c] = "swap memo"
      BY <2>1 DEF SwapsMemo
    <3>2. copy[c] \in Copies
      BY <3>1 DEF DictInv, CopiesInv, Resting, Good, Sound
    <3>3. add = Recorded(copy[c]) /\ \E m \in Copies : memo = Texted(m)
      BY <3>1 DEF DictInv, FilesInv
    <3> QED
      BY <3>2, <3>3
  <2>2. CASE ~SwapsMemo
    BY <2>2 DEF DictInv, FilesInv, FilesOf
  <2> QED
    BY <2>1, <2>2
<1>5. \A f \in {add, addNew} \ {None} : f \in Seq(Names) /\ Cardinality(Range(f)) = Len(f)
  BY <1>3, <1>4, FilesAreTyped
<1>6. \A f \in {memo, memoNew} \ {None} : Range(f) \subseteq AllTexts
  BY <1>3, <1>4, FilesAreTyped
<1> QED
  BY <1>1, <1>2, <1>5, <1>6 DEF DictTypeOK, AllTexts

LEMMA RowsTyped ==
  ASSUME IInv
  PROVE  TypeOK
<1>1. Shape /\ DictInv
  BY DEF IInv, DataInv
<1>2. \A t \in Tables : {rows[t], settled[t]} \subseteq Seq(RowType) /\ Len(settled[t]) <= Len(rows[t])
  BY <1>1, RowsShape DEF Shape
<1>3. ASSUME NEW c \in Conns, NEW t \in Tables, hand[c][t] # Shut
      PROVE  hand[c][t] \in HandType /\ hand[c][t].rec \in 0..Len(rows[t])
  <2>1. hand[c][t] \in HandType \cup {Shut}
    BY <1>1, HandOf
  <2>2. hand[c][t].open
    BY <1>3, <2>1, HandShape
  <2> QED
    BY <1>1, <2>2, HandOf
<1>4. ASSUME NEW c \in Conns, call[c] # Idle
      PROVE  call[c].todo \subseteq InForce(c) /\ turn = <<c, call[c].table>>
  <2>1. InCall(c, call[c].table)
    BY <1>4, CallsUnderWay
  <2>2. call[c].todo \subseteq Parenting(c, call[c].table) /\ turn = <<c, call[c].table>>
    BY <2>1 DEF InCall
  <2> QED
    BY <2>2 DEF Parenting
<1>5. DictTypeOK
  BY <1>1, DictTyped
<1>6. told[4] \in {"done", "refused"}
  BY <1>1 DEF Shape
<1> QED
  BY <1>2, <1>3, <1>4, <1>5, <1>6 DEF TypeOK

LEMMA RowsRefer ==
  ASSUME IInv
  PROVE  ReferencesKept
<1>1. SUFFICES ASSUME turn = FreeTurn, \A c \in Conns : Resting(c),
                      NEW r \in RulesOf(InFile), NEW x \in Range(rows[r.child]), x.live, x.key # Blank
               PROVE  Live(r.parent, x.key) # {}
  BY DEF ReferencesKept, Undisturbed
<1>2. ~SwapsMemo
  BY <1>1, SingleRules DEF IInv
<1>3. rows = settled /\ Holds(settled, RulesOf(InFile))
  BY <1>1, <1>2 DEF IInv, DataInv, Settled
<1>4. PICK i \in DOMAIN rows[r.child] : rows[r.child][i] = x
  BY <1>1 DEF Range
<1>5. LiveIn(rows, r.parent, x.key) # {}
  BY <1>1, <1>3, <1>4 DEF Holds
<1> QED
  BY <1>5, LiveIs

LEMMA SnapshotsKnown ==
  ASSUME IInv
  PROVE  SnapshotTrue
<1>1. SUFFICES ASSUME NEW c \in Conns, NEW t \in Tables, hand[c][t].open, Parenting(c, t) # {},
                      turn = FreeTurn, hand[c][t].rec # 0, hand[c][t].trust = "sure"
               PROVE  hand[c][t].snap = hand[c][t].row.key
  BY DEF SnapshotTrue
<1>2. Knowing(c, t, hand[c][t])
  BY DEF IInv, DataInv, Hands
<1>3. turn # <<c, t>>
  BY <1>1 DEF FreeTurn
<1> QED
  BY <1>1, <1>2, <1>3 DEF Knowing

\* Careful clients never find a connection's copy of the dictionary, its two
\* files, a row or a handle in a form data_dict.cpp or the table calls do not
\* expect: no object is recorded twice, and a call applies rules that are there.
THEOREM TypeCorrect ==
  ASSUME Careful
  PROVE  Spec => []TypeOK
<1>1. Spec => []IInv
  BY SpecKeeps
<1>2. IInv => TypeOK
  BY RowsTyped
<1> QED
  BY <1>1, <1>2, PTL

\* The checks of ri_check_insert, ri_enforce_update and ri_enforce_delete, each
\* on its own handle and one rule after the other, together leave no row of a
\* child without its parent, for any set of rules, tables and connections.
THEOREM NoOrphans ==
  ASSUME Careful
  PROVE  Spec => []ReferencesKept
<1>1. Spec => []IInv
  BY SpecKeeps
<1>2. IInv => ReferencesKept
  BY RowsRefer
<1> QED
  BY <1>1, <1>2, PTL

\* The key snapshot_ri_pks keeps at a move is the key of the record whenever the
\* application may go on to change it, whatever the rules did to other handles.
THEOREM SnapshotsTrue ==
  ASSUME Careful
  PROVE  Spec => []SnapshotTrue
<1>1. Spec => []IInv
  BY SpecKeeps
<1>2. IInv => SnapshotTrue
  BY SnapshotsKnown
<1> QED
  BY <1>1, <1>2, PTL

---------------------------------------------------------------------------
(* The promises of Relations: rows *)

\* The rows as Relations sees them, and the dictionary.
LiveOf(s) == [t \in Tables |-> [r \in {x \in DOMAIN s[t] : s[t][x].live} |-> s[t][r].key]]
Kept == IF SwapsMemo THEN Said(copy[CHOOSE c \in Conns : stage[c] = "swap memo"]) ELSE InFile

LEMMA KeysOfRows ==
  ASSUME NEW s \in RowsType, NEW t \in Tables
  PROVE  /\ LiveOf(s)[t] = [r \in DOMAIN LiveOf(s)[t] |-> LiveOf(s)[t][r]]
         /\ \A i : i \in DOMAIN LiveOf(s)[t] <=> i \in DOMAIN s[t] /\ s[t][i].live
         /\ \A i \in DOMAIN LiveOf(s)[t] : /\ LiveOf(s)[t][i] = s[t][i].key /\ LiveOf(s)[t][i] \in Keys \cup {Blank}
                                           /\ s[t][i] = Present(LiveOf(s)[t][i])
<1> DEFINE f == [r \in {x \in DOMAIN s[t] : s[t][x].live} |-> s[t][r].key]
<1>1. LiveOf(s)[t] = f
  BY DEF LiveOf
<1>2. /\ DOMAIN f = {x \in DOMAIN s[t] : s[t][x].live} /\ f = [r \in DOMAIN f |-> f[r]]
      /\ \A i \in DOMAIN f : f[i] = s[t][i].key
  OBVIOUS
<1> HIDE DEF f
<1>3. ASSUME NEW i \in DOMAIN f PROVE f[i] \in Keys \cup {Blank} /\ s[t][i] = Present(f[i])
  <2>1. i \in DOMAIN s[t] /\ s[t][i].live /\ s[t][i] \in RowType /\ f[i] = s[t][i].key
    BY <1>2, RowsShape
  <2> QED
    BY <2>1, LiveRow, RowShape
<1> QED
  BY <1>1, <1>2, <1>3

LEMMA RowsOfKey ==
  ASSUME NEW s \in RowsType, NEW t \in Tables, NEW k \in Keys \cup {Blank}
  PROVE  {r \in DOMAIN LiveOf(s)[t] : LiveOf(s)[t][r] = k} = LiveIn(s, t, k)
<1> DEFINE f == LiveOf(s)[t]
<1>1. /\ \A i : i \in DOMAIN f <=> i \in DOMAIN s[t] /\ s[t][i].live
      /\ \A i \in DOMAIN f : s[t][i] = Present(f[i]) /\ f[i] = s[t][i].key
  BY KeysOfRows
<1>2. Present(k).live = TRUE /\ Present(k).key = k
  BY KeyShape
<1> HIDE DEF f
<1>3. ASSUME NEW i PROVE i \in LiveIn(s, t, k) <=> i \in DOMAIN f /\ f[i] = k
  BY <1>1, <1>2 DEF LiveIn
<1> QED
  BY <1>3 DEF f

\* Rows of a table that get another key, that go, and a row that comes.
RowsRekeyed(a, b, S, new) ==
  /\ DOMAIN b = DOMAIN a /\ \A i \in S : a[i].live
  /\ \A i \in DOMAIN a : b[i] = IF i \in S THEN Present(new) ELSE a[i]
RowsGone(a, b, S) ==
  /\ DOMAIN b = DOMAIN a /\ \A i \in DOMAIN a : IF i \in S THEN ~b[i].live ELSE b[i] = a[i]
RowAdded(a, b, rec, k) ==
  /\ DOMAIN b = DOMAIN a \cup {rec} /\ b[rec] = Present(k) /\ (rec \in DOMAIN a => ~a[rec].live)
  /\ \A i \in DOMAIN a : i # rec => b[i] = a[i]
LEMMA RekeyedKeys ==
  ASSUME NEW s \in RowsType, NEW w \in RowsType, NEW t \in Tables, NEW S, NEW new \in Keys \cup {Blank},
         RowsRekeyed(s[t], w[t], S, new)
  PROVE  LiveOf(w)[t] = R!Blanked(LiveOf(s)[t], S, new)
<1> DEFINE f == LiveOf(s)[t]
           g == LiveOf(w)[t]
<1>1. /\ \A i : i \in DOMAIN f <=> i \in DOMAIN s[t] /\ s[t][i].live
      /\ \A i \in DOMAIN f : f[i] = s[t][i].key
  BY KeysOfRows
<1>2. /\ \A i : i \in DOMAIN g <=> i \in DOMAIN w[t] /\ w[t][i].live
      /\ \A i \in DOMAIN g : g[i] = w[t][i].key
      /\ g = [r \in DOMAIN g |-> g[r]]
  BY KeysOfRows
<1>3. Present(new).live = TRUE /\ Present(new).key = new
  BY KeyShape
<1> HIDE DEF f, g
<1>4. \A i : i \in DOMAIN g <=> i \in DOMAIN f
  BY <1>1, <1>2, <1>3 DEF RowsRekeyed
<1>5. ASSUME NEW i \in DOMAIN g PROVE g[i] = IF i \in S THEN new ELSE f[i]
  BY <1>1, <1>2, <1>3, <1>4 DEF RowsRekeyed
<1>6. DOMAIN g = DOMAIN f
  BY <1>4
<1>7. g = [r \in DOMAIN f |-> IF r \in S THEN new ELSE f[r]]
  BY <1>2, <1>5, <1>6
<1> QED
  BY <1>7 DEF R!Blanked, f, g
LEMMA GoneKeys ==
  ASSUME NEW s \in RowsType, NEW w \in RowsType, NEW t \in Tables, NEW S, RowsGone(s[t], w[t], S)
  PROVE  LiveOf(w)[t] = R!Without(LiveOf(s)[t], S)
<1> DEFINE f == LiveOf(s)[t]
           g == LiveOf(w)[t]
<1>1. /\ \A i : i \in DOMAIN f <=> i \in DOMAIN s[t] /\ s[t][i].live
      /\ \A i \in DOMAIN f : f[i] = s[t][i].key
  BY KeysOfRows
<1>2. /\ \A i : i \in DOMAIN g <=> i \in DOMAIN w[t] /\ w[t][i].live
      /\ \A i \in DOMAIN g : g[i] = w[t][i].key
      /\ g = [r \in DOMAIN g |-> g[r]]
  BY KeysOfRows
<1> HIDE DEF f, g
<1>4. \A i : i \in DOMAIN g <=> i \in DOMAIN f \ S
  BY <1>1, <1>2 DEF RowsGone
<1>5. ASSUME NEW i \in DOMAIN g PROVE g[i] = f[i]
  BY <1>1, <1>2, <1>4 DEF RowsGone
<1>6. DOMAIN g = DOMAIN f \ S
  BY <1>4
<1>7. g = [r \in DOMAIN f \ S |-> f[r]]
  BY <1>2, <1>5, <1>6
<1> QED
  BY <1>7 DEF R!Without, f, g
LEMMA AddedKeys ==
  ASSUME NEW s \in RowsType, NEW w \in RowsType, NEW t \in Tables, NEW rec, NEW k \in Keys \cup {Blank},
         RowAdded(s[t], w[t], rec, k)
  PROVE  /\ LiveOf(w)[t] = [x \in DOMAIN LiveOf(s)[t] \cup {rec} |-> IF x = rec THEN k ELSE LiveOf(s)[t][x]]
         /\ rec \notin DOMAIN LiveOf(s)[t]
<1> DEFINE f == LiveOf(s)[t]
           g == LiveOf(w)[t]
<1>1. /\ \A i : i \in DOMAIN f <=> i \in DOMAIN s[t] /\ s[t][i].live
      /\ \A i \in DOMAIN f : f[i] = s[t][i].key
  BY KeysOfRows
<1>2. /\ \A i : i \in DOMAIN g <=> i \in DOMAIN w[t] /\ w[t][i].live
      /\ \A i \in DOMAIN g : g[i] = w[t][i].key
      /\ g = [r \in DOMAIN g |-> g[r]]
  BY KeysOfRows
<1>3. Present(k).live = TRUE /\ Present(k).key = k
  BY KeyShape
<1> HIDE DEF f, g
<1>4. \A i : i \in DOMAIN g <=> i \in DOMAIN f \cup {rec}
  BY <1>1, <1>2, <1>3 DEF RowAdded
<1>5. ASSUME NEW i \in DOMAIN g PROVE g[i] = IF i = rec THEN k ELSE f[i]
  BY <1>1, <1>2, <1>3, <1>4 DEF RowAdded
<1>6. DOMAIN g = DOMAIN f \cup {rec} /\ rec \notin DOMAIN f
  BY <1>1, <1>4 DEF RowAdded
<1>7. g = [x \in DOMAIN f \cup {rec} |-> IF x = rec THEN k ELSE f[x]]
  BY <1>2, <1>5, <1>6
<1> QED
  BY <1>6, <1>7 DEF f, g
LEMMA SameKeys ==
  ASSUME NEW s \in RowsType, NEW w \in RowsType, NEW t \in Tables, w[t] = s[t]
  PROVE  LiveOf(w)[t] = LiveOf(s)[t]
BY DEF LiveOf

\* What a rule does to a table, or every rule that names it as a child: the table
\* is as Relations has it.
Seen(w, rs, t, op, k, new) ==
  \A u \in Tables : u # t => LiveOf(w)[u] = R!Applied(u, rs, k, op, IF op = "upd" THEN new ELSE Blank)
LEMMA AppliedTables ==
  ASSUME settled \in RowsType, NEW w \in RowsType, NEW rs \in SUBSET RuleTexts, NEW t \in Tables,
         NEW op \in {"upd", "del"}, NEW k \in Keys, NEW new \in Keys \cup {Blank}, op = "upd" => new # k,
         TablesMade(settled, w, rs, t, op, k, new), RulesMet(settled, w, rs, {}, op, k, new)
  PROVE  Seen(w, rs, t, op, k, new)
<1> PICK other : other = IF op = "upd" THEN new ELSE Blank
  OBVIOUS
<1> SUFFICES ASSUME NEW u \in Tables, u # t PROVE LiveOf(w)[u] = R!Applied(u, rs, k, op, other)
  BY DEF Seen
<1> DEFINE S == LiveIn(settled, u, k)
           f == LiveOf(settled)[u]
<1>1. \A r \in rs : /\ r[op] \in {"cascade", "setnull", "restrict"}
                    /\ r.child = u => r[op] = "restrict" \/ Made(settled, w, r, op, k, new)
  BY RuleShape DEF RulesMet
<1>2. S = {r \in DOMAIN f : f[r] = k}
  BY RowsOfKey
<1>3. R!Having(u, k) = S
  BY <1>2 DEF R!Having, LiveOf
<1>4. R!Applied(u, rs, k, op, other) =
        CASE \E rule \in rs : rule.child = u /\ rule[op] = "cascade" ->
               (IF op = "del" THEN R!Without(f, S) ELSE R!Blanked(f, S, other))
          [] \E rule \in rs : rule.child = u /\ rule[op] = "setnull" -> R!Blanked(f, S, Blank)
          [] OTHER -> f
  BY <1>3 DEF R!Applied, LiveOf
<1>5. settled[u] \in Seq(RowType) /\ \A i \in S : i \in DOMAIN settled[u] /\ settled[u][i].live
  BY RowsShape, KeyShape DEF LiveIn
<1> HIDE DEF S, f
<1>6. ASSUME NEW r \in rs, r.child = u, r[op] # "restrict"
      PROVE  LiveOf(w)[u] = IF r[op] = "setnull" THEN R!Blanked(f, S, Blank)
                            ELSE IF op = "del" THEN R!Without(f, S) ELSE R!Blanked(f, S, other)
  <2> PICK option \in {"cascade", "setnull"} : option = r[op]
    BY <1>1, <1>6
  <2>1. w[u] = ActedOn(settled[u], option, op, k, new)
    BY <1>1, <1>6 DEF Made
  <2>2. Changed(w[u], settled[u], option, op, k, new)
    BY <1>5, <2>1, ActedRows
  <2>3. /\ DOMAIN w[u] = DOMAIN settled[u]
        /\ \A i \in DOMAIN settled[u] :
             IF i \in S THEN w[u][i] = IF option = "setnull" THEN Present(Blank)
                                       ELSE IF op = "del" THEN Absent(k) ELSE Present(new)
             ELSE w[u][i] = settled[u][i]
    BY <2>2 DEF Changed, S, LiveIn
  <2>4. CASE option = "setnull"
    <3>1. RowsRekeyed(settled[u], w[u], S, Blank)
      BY <1>5, <2>3, <2>4 DEF RowsRekeyed
    <3> QED
      BY <2>4, <3>1, RekeyedKeys DEF f
  <2>5. CASE option = "cascade" /\ op = "del"
    <3>1. Absent(k).live = FALSE
      BY KeyShape
    <3>2. RowsGone(settled[u], w[u], S)
      BY <2>3, <2>5, <3>1 DEF RowsGone
    <3> QED
      BY <2>5, <3>2, GoneKeys DEF f
  <2>6. CASE option = "cascade" /\ op = "upd"
    <3>1. RowsRekeyed(settled[u], w[u], S, new)
      BY <1>5, <2>3, <2>6 DEF RowsRekeyed
    <3> QED
      BY <2>6, <3>1, RekeyedKeys DEF f
  <2> QED
    BY <2>4, <2>5, <2>6
<1>7. ASSUME \A r \in rs : r.child = u => r[op] = "restrict" PROVE LiveOf(w)[u] = f
  <2>1. w[u] = settled[u]
    BY <1>7 DEF TablesMade, Made
  <2> QED
    BY <2>1, SameKeys DEF f
<1>8. CASE \E rule \in rs : rule.child = u /\ rule[op] = "cascade"
  BY <1>4, <1>6, <1>8
<1>9. CASE /\ ~ \E rule \in rs : rule.child = u /\ rule[op] = "cascade"
           /\ \E rule \in rs : rule.child = u /\ rule[op] = "setnull"
  BY <1>4, <1>6, <1>9
<1>10. CASE /\ ~ \E rule \in rs : rule.child = u /\ rule[op] = "cascade"
            /\ ~ \E rule \in rs : rule.child = u /\ rule[op] = "setnull"
  BY <1>1, <1>4, <1>7, <1>10
<1> QED
  BY <1>8, <1>9, <1>10

---------------------------------------------------------------------------
(* The promises of Relations: rules *)

LEMMA RulesThere ==
  ASSUME NEW m, m.objs \in SUBSET Names
  PROVE  R!RulesIn(m) = RulesOf(m)
<1>1. ASSUME NEW x \in m.objs PROVE R!IsRule(x) <=> Kind[x] = "RI"
  <2>1. x \in Names /\ Default(x).kind = Kind[x]
    BY TextKinds
  <2> QED
    BY <2>1 DEF R!IsRule
<1>2. \A x \in m.objs : Kind[x] = "RI" => Default(x) = NoRule
  BY DEF Default
<1>3. {x \in m.objs : R!IsRule(x) /\ m.text[x] # [o \in Names |-> Default(o)][x]}
        = {x \in Of("RI") \cap m.objs : m.text[x] # NoRule}
  BY <1>1, <1>2 DEF Of
<1>4. R!RulesIn(m) = {m.text[o] : o \in {x \in Of("RI") \cap m.objs : m.text[x] # NoRule}}
  BY <1>3 DEF R!RulesIn
<1> QED
  BY <1>4 DEF RulesOf

\* The dictionary Relations sees: what the file says, or will say.
KeptSays ==
  /\ \A c \in Conns : stage[c] = "swap memo" => Kept = Said(copy[c])
  /\ ~SwapsMemo => Kept = InFile
LEMMA KeptIs == DictInv => KeptSays
<1> SUFFICES ASSUME DictInv, NEW c \in Conns, stage[c] = "swap memo" PROVE Kept = Said(copy[c])
  BY DEF Kept, KeptSays
<1>1. \A d \in Conns : stage[d] = "swap memo" => d = c
  BY DEF DictInv, CopiesInv, Resting
<1>2. (CHOOSE d \in Conns : stage[d] = "swap memo") = c
  BY <1>1
<1>3. SwapsMemo
  BY DEF SwapsMemo
<1> QED
  BY <1>2, <1>3 DEF Kept

LEMMA KeptRules ==
  ASSUME IInv
  PROVE  /\ R!Rules = RulesOf(Kept) /\ RulesOf(Kept) \in SUBSET RuleTexts /\ Holds(settled, RulesOf(Kept))
         /\ ~SwapsMemo => R!Rules = RulesOf(InFile)
<1>1. /\ DictInv /\ \A c \in Conns : stage[c] = "swap memo" => Kept = Said(copy[c])
      /\ ~SwapsMemo => Kept = InFile
  BY KeptIs DEF IInv, KeptSays
<1>2. PICK m \in Copies : Good(m) /\ Kept = Said(m) /\ Holds(settled, RulesOf(m))
  <2>1. CASE SwapsMemo
    <3>1. PICK c \in Conns : stage[c] = "swap memo"
      BY <2>1 DEF SwapsMemo
    <3>2. ~Resting(c)
      BY <3>1 DEF Resting
    <3>3. copy[c] \in Copies /\ Good(copy[c])
      BY <1>1, <3>2 DEF DictInv, CopiesInv, Good, Sound
    <3>4. Holds(settled, RulesOf(copy[c]))
      BY <3>2 DEF IInv, DataInv, Settled
    <3> QED
      BY <1>1, <3>1, <3>3, <3>4
  <2>2. CASE ~SwapsMemo
    <3>1. PICK m \in Copies : Good(m) /\ InFile = Said(m) /\ RulesOf(InFile) = RulesOf(m)
      BY <1>1, <2>2, FileIsCopy
    <3>2. Holds(settled, RulesOf(InFile))
      BY <2>2 DEF IInv, DataInv, Settled
    <3> QED
      BY <1>1, <2>2, <3>1, <3>2
  <2> QED
    BY <2>1, <2>2
<1>3. m.objs \in SUBSET Names /\ Placed(m)
  BY <1>2 DEF Good, Sound, Copies
<1>4. Kept.objs \in SUBSET Names /\ RulesOf(Kept) = RulesOf(m)
  <2>1. Kept.objs = m.objs
    BY <1>2 DEF Said
  <2> QED
    BY <1>2, <1>3, <2>1, SaidRules
<1>5. R!Rules = R!RulesIn(Kept)
  BY DEF R!Rules, Kept, SwapsMemo
<1>6. R!Rules = RulesOf(Kept)
  BY <1>4, <1>5, RulesThere
<1>7. RulesOf(Kept) \in SUBSET RuleTexts
  BY <1>2, <1>3, <1>4, RulesOfCopy
<1> QED
  BY <1>1, <1>2, <1>4, <1>6, <1>7

LEMMA RowsAreWhole == IInv => R!Whole
<1> SUFFICES ASSUME IInv PROVE R!Whole
  OBVIOUS
<1>1. R!Rules \in SUBSET RuleTexts /\ Holds(settled, R!Rules)
  BY KeptRules
<1>2. settled \in RowsType
  BY DEF IInv, DataInv, Shape
<1>3. ASSUME NEW rule \in R!Rules, NEW r \in DOMAIN LiveOf(settled)[rule.child], LiveOf(settled)[rule.child][r] # Blank
      PROVE  R!Having(rule.parent, LiveOf(settled)[rule.child][r]) # {}
  <2>1. rule.child \in Tables /\ rule.parent \in Tables
    BY <1>1, RuleShape
  <2> PICK k : k = LiveOf(settled)[rule.child][r]
    OBVIOUS
  <2> PICK u \in Tables : u = rule.child
    BY <2>1
  <2>2. k \in Keys /\ settled[rule.child][r] = Present(k) /\ r \in DOMAIN settled[rule.child]
    <3>1. r \in DOMAIN LiveOf(settled)[u] /\ k = LiveOf(settled)[u][r] /\ k # Blank
      BY <1>3
    <3>2. /\ \A i : i \in DOMAIN LiveOf(settled)[u] <=> i \in DOMAIN settled[u] /\ settled[u][i].live
          /\ \A i \in DOMAIN LiveOf(settled)[u] : /\ LiveOf(settled)[u][i] \in Keys \cup {Blank}
                                                  /\ settled[u][i] = Present(LiveOf(settled)[u][i])
      BY <1>2, KeysOfRows
    <3>3. r \in DOMAIN settled[u] /\ k \in Keys \cup {Blank} /\ settled[u][r] = Present(k)
      BY <3>1, <3>2
    <3> QED
      BY <3>1, <3>3
  <2>3. LiveIn(settled, rule.child, k) # {}
    BY <2>2 DEF LiveIn
  <2>4. LiveIn(settled, rule.parent, k) # {}
    BY <1>1, <1>2, <2>2, <2>3, HoldsRows
  <2>5. {x \in DOMAIN LiveOf(settled)[rule.parent] : LiveOf(settled)[rule.parent][x] = k} # {}
    BY <1>2, <2>1, <2>2, <2>4, RowsOfKey
  <2> QED
    BY <2>5 DEF R!Having, LiveOf
<1> QED
  BY <1>3 DEF R!Whole, LiveOf

---------------------------------------------------------------------------
(* The promises of Relations: steps on rows *)

LEMMA SeenVars ==
  /\ R!vars = <<LiveOf(settled), Kept, told>>
  /\ R!vars' = <<LiveOf(settled'), Kept', told'>>
BY DEF R!vars, LiveOf, Kept, SwapsMemo

\* A step on the rows leaves the dictionary.
LEMMA RowsStep ==
  ASSUME UNCHANGED dictVars, R!OnRows \/ (told' = told /\ LiveOf(settled') = LiveOf(settled))
  PROVE  [R!Next]_(R!vars)
<1>1. SwapsMemo' = SwapsMemo /\ InFile' = InFile /\ copy' = copy /\ stage' = stage
  BY SameDict DEF dictVars
<1>2. Kept' = Kept
  BY <1>1 DEF Kept, Said
<1>3. CASE told' = told /\ LiveOf(settled') = LiveOf(settled)
  BY <1>2, <1>3, SeenVars
<1>4. CASE R!OnRows /\ ~(told' = told /\ LiveOf(settled') = LiveOf(settled))
  <2>1. <<told', LiveOf(settled')>> # <<told, LiveOf(settled)>>
    BY <1>4
  <2>2. R!Next
    BY <1>2, <1>4, <2>1 DEF R!Next, LiveOf, Kept, SwapsMemo
  <2> QED
    BY <2>2
<1> QED
  BY <1>3, <1>4

LEMMA Inserts ==
  ASSUME settled \in RowsType, settled' \in RowsType, NEW t \in Tables, NEW rec \in 1..MaxRows, NEW k \in Keys \cup {Blank},
         told' = <<"insert", t, k, "done">>, RowAdded(settled[t], settled'[t], rec, k),
         \A u \in Tables : u # t => settled'[u] = settled[u], R!Whole'
  PROVE  R!OnRows
<1> DEFINE f == LiveOf(settled)
           g == LiveOf(settled')
<1>1. g[t] = [x \in DOMAIN f[t] \cup {rec} |-> IF x = rec THEN k ELSE f[t][x]] /\ rec \notin DOMAIN f[t]
  BY AddedKeys
<1>2. \A u \in Tables : u # t => g[u] = f[u]
  BY SameKeys
<1>3. f = [u \in Tables |-> f[u]] /\ g = [u \in Tables |-> g[u]]
  BY DEF LiveOf
<1> HIDE DEF f, g
<1>4. g = [f EXCEPT ![t] = [x \in DOMAIN f[t] \cup {rec} |-> IF x = rec THEN k ELSE f[t][x]]]
  BY <1>1, <1>2, <1>3
<1>5. R!Insert(t, rec, k)
  BY <1>1, <1>4 DEF R!Insert, R!Says, LiveOf, f, g
<1> QED
  BY <1>5 DEF R!OnRows

\* No rule refuses, by what Relations sees, when all have been met.
LEMMA NotHeld ==
  ASSUME settled \in RowsType, NEW w, NEW t \in Tables, NEW op \in {"upd", "del"}, NEW k \in Keys, NEW new,
         R!Rules \in SUBSET RuleTexts, RulesMet(settled, w, From(R!Rules, t), {}, op, k, new)
  PROVE  ~R!Held(t, k, op)
<1>1. R!From(t) = From(R!Rules, t)
  BY DEF R!From, From
<1>2. SUFFICES ASSUME NEW r \in From(R!Rules, t), r[op] = "restrict", R!Having(r.child, k) # {} PROVE FALSE
  BY <1>1 DEF R!Held
<1>3. r.child \in Tables
  BY RuleShape DEF From
<1>4. R!Having(r.child, k) = LiveIn(settled, r.child, k)
  <2>1. {x \in DOMAIN LiveOf(settled)[r.child] : LiveOf(settled)[r.child][x] = k} = LiveIn(settled, r.child, k)
    BY <1>3, RowsOfKey
  <2> QED
    BY <2>1 DEF R!Having, LiveOf
<1>5. LiveIn(settled, r.child, k) = {}
  BY <1>2 DEF RulesMet, Made
<1> QED
  BY <1>2, <1>4, <1>5

\* What a call does to the other tables: what its rules do, if it has any to apply.
RulesDone(w, t, op, k, new) ==
  IF k = Blank \/ (op = "upd" /\ k = new) THEN \A u \in Tables : u # t => w[u] = settled[u]
  ELSE TablesMade(settled, w, From(R!Rules, t), t, op, k, new) /\ RulesMet(settled, w, From(R!Rules, t), {}, op, k, new)

LEMMA Rekeys ==
  ASSUME settled \in RowsType, settled' \in RowsType, NEW t \in Tables, NEW S \in SUBSET (1..MaxRows),
         NEW k \in Keys \cup {Blank}, NEW new \in Keys \cup {Blank}, R!Rules \in SUBSET RuleTexts,
         told' = <<"update", t, k, "done">>, S # {}, S \subseteq LiveIn(settled, t, k),
         RowsRekeyed(settled[t], settled'[t], S, new), RulesDone(settled', t, "upd", k, new), R!Whole'
  PROVE  R!OnRows
<1> DEFINE f == LiveOf(settled)
           g == LiveOf(settled')
<1>1. g[t] = R!Blanked(f[t], S, new)
  BY RekeyedKeys
<1>2. R!Having(t, k) = LiveIn(settled, t, k)
  <2>1. {x \in DOMAIN f[t] : f[t][x] = k} = LiveIn(settled, t, k)
    BY RowsOfKey
  <2> QED
    BY <2>1 DEF R!Having, LiveOf
<1>3. R!From(t) = From(R!Rules, t) /\ From(R!Rules, t) \in SUBSET RuleTexts
  BY DEF R!From, From
<1>4. f = [u \in Tables |-> f[u]] /\ g = [u \in Tables |-> g[u]]
  BY DEF LiveOf
<1>5. CASE k \in {Blank, new}
  <2>1. \A u \in Tables : u # t => g[u] = f[u]
    BY <1>5, SameKeys DEF RulesDone
  <2>2. ~(k # new /\ R!Held(t, k, "upd"))
    BY <1>5 DEF R!Held
  <2> HIDE DEF f, g
  <2>3. g = [u \in Tables |-> IF u = t THEN R!Blanked(f[t], S, new)
                              ELSE IF k \in {Blank, new} THEN f[u] ELSE R!Applied(u, R!From(t), k, "upd", new)]
    BY <1>1, <1>4, <1>5, <2>1
  <2>4. R!Rekey(t, S, k, new)
    BY <1>2, <2>2, <2>3 DEF R!Rekey, R!Says, LiveOf, f, g
  <2> QED
    BY <2>4 DEF R!OnRows
<1>6. CASE k \notin {Blank, new}
  <2>1. k \in Keys /\ TablesMade(settled, settled', From(R!Rules, t), t, "upd", k, new)
        /\ RulesMet(settled, settled', From(R!Rules, t), {}, "upd", k, new)
    BY <1>6 DEF RulesDone
  <2> PICK op \in {"upd", "del"} : op = "upd"
    OBVIOUS
  <2>2. ~R!Held(t, k, "upd")
    <3>1. RulesMet(settled, settled', From(R!Rules, t), {}, op, k, new)
      BY <2>1
    <3>2. ~R!Held(t, k, op)
      BY <2>1, <3>1, NotHeld
    <3> QED
      BY <3>2
  <2>3. \A u \in Tables : u # t => g[u] = R!Applied(u, R!From(t), k, "upd", new)
    <3> SUFFICES ASSUME NEW u \in Tables, u # t PROVE g[u] = R!Applied(u, R!From(t), k, op, new)
      OBVIOUS
    <3>1. /\ TablesMade(settled, settled', From(R!Rules, t), t, op, k, new) /\ (op = "upd" => new # k)
          /\ RulesMet(settled, settled', From(R!Rules, t), {}, op, k, new)
      BY <1>6, <2>1
    <3> PICK rs \in SUBSET RuleTexts : rs = From(R!Rules, t)
      BY <1>3
    <3> PICK w \in RowsType : w = settled'
      OBVIOUS
    <3>2. TablesMade(settled, w, rs, t, op, k, new) /\ RulesMet(settled, w, rs, {}, op, k, new)
      BY <3>1
    <3>3. Seen(w, rs, t, op, k, new)
      BY <2>1, <3>1, <3>2, AppliedTables
    <3> QED
      BY <1>3, <3>3 DEF Seen
  <2> HIDE DEF f, g
  <2>4. g = [u \in Tables |-> IF u = t THEN R!Blanked(f[t], S, new)
                              ELSE IF k \in {Blank, new} THEN f[u] ELSE R!Applied(u, R!From(t), k, "upd", new)]
    BY <1>1, <1>4, <1>6, <2>3
  <2>5. R!Rekey(t, S, k, new)
    BY <1>2, <2>2, <2>4 DEF R!Rekey, R!Says, LiveOf, f, g
  <2> QED
    BY <2>5 DEF R!OnRows
<1> QED
  BY <1>5, <1>6

LEMMA Removes ==
  ASSUME settled \in RowsType, settled' \in RowsType, NEW t \in Tables, NEW S \in SUBSET (1..MaxRows),
         NEW k \in Keys \cup {Blank}, R!Rules \in SUBSET RuleTexts,
         told' = <<"delete", t, k, "done">>, S # {}, S \subseteq LiveIn(settled, t, k),
         RowsGone(settled[t], settled'[t], S), RulesDone(settled', t, "del", k, k), R!Whole'
  PROVE  R!OnRows
<1> DEFINE f == LiveOf(settled)
           g == LiveOf(settled')
<1>1. g[t] = R!Without(f[t], S)
  BY GoneKeys
<1>2. R!Having(t, k) = LiveIn(settled, t, k)
  <2>1. {x \in DOMAIN f[t] : f[t][x] = k} = LiveIn(settled, t, k)
    BY RowsOfKey
  <2> QED
    BY <2>1 DEF R!Having, LiveOf
<1>3. R!From(t) = From(R!Rules, t) /\ From(R!Rules, t) \in SUBSET RuleTexts
  BY DEF R!From, From
<1>4. f = [u \in Tables |-> f[u]] /\ g = [u \in Tables |-> g[u]]
  BY DEF LiveOf
<1>5. CASE k = Blank
  <2>1. \A u \in Tables : u # t => g[u] = f[u]
    BY <1>5, SameKeys DEF RulesDone
  <2>2. ~R!Held(t, k, "del")
    BY <1>5 DEF R!Held
  <2> HIDE DEF f, g
  <2>3. g = [u \in Tables |-> IF u = t THEN R!Without(f[t], S)
                              ELSE IF k = Blank THEN f[u] ELSE R!Applied(u, R!From(t), k, "del", Blank)]
    BY <1>1, <1>4, <1>5, <2>1
  <2>4. R!Remove(t, S, k)
    BY <1>2, <2>2, <2>3 DEF R!Remove, R!Says, LiveOf, f, g
  <2> QED
    BY <2>4 DEF R!OnRows
<1>6. CASE k # Blank
  <2> PICK op \in {"upd", "del"} : op = "del"
    OBVIOUS
  <2>1. k \in Keys /\ TablesMade(settled, settled', From(R!Rules, t), t, op, k, k)
        /\ RulesMet(settled, settled', From(R!Rules, t), {}, op, k, k)
    BY <1>6 DEF RulesDone
  <2>2. ~R!Held(t, k, "del")
    <3>1. ~R!Held(t, k, op)
      BY <2>1, NotHeld
    <3> QED
      BY <3>1
  <2>3. \A u \in Tables : u # t => g[u] = R!Applied(u, R!From(t), k, "del", Blank)
    <3> SUFFICES ASSUME NEW u \in Tables, u # t PROVE g[u] = R!Applied(u, R!From(t), k, op, Blank)
      OBVIOUS
    <3> PICK rs \in SUBSET RuleTexts : rs = From(R!Rules, t)
      BY <1>3
    <3> PICK w \in RowsType : w = settled'
      OBVIOUS
    <3>1. op # "upd" /\ k \in Keys
      BY <2>1
    <3>2. TablesMade(settled, w, rs, t, op, k, k) /\ RulesMet(settled, w, rs, {}, op, k, k)
      BY <2>1
    <3>3. Seen(w, rs, t, op, k, k)
      BY <3>1, <3>2, AppliedTables
    <3> QED
      BY <1>3, <3>1, <3>3 DEF Seen
  <2> HIDE DEF f, g
  <2>4. g = [u \in Tables |-> IF u = t THEN R!Without(f[t], S)
                              ELSE IF k = Blank THEN f[u] ELSE R!Applied(u, R!From(t), k, "del", Blank)]
    BY <1>1, <1>4, <1>6, <2>3
  <2>5. R!Remove(t, S, k)
    BY <1>2, <2>2, <2>4 DEF R!Remove, R!Says, LiveOf, f, g
  <2> QED
    BY <2>5 DEF R!OnRows
<1> QED
  BY <1>5, <1>6

---------------------------------------------------------------------------
(* The promises of Relations: every call on a table *)

\* The rules of a connection that knows what is in the file are those of Relations.
LEMMA KnownRules ==
  ASSUME IInv, NEW c \in Conns, \A d \in Conns : Resting(d), Known(c) = RulesOf(InFile)
  PROVE  R!Rules = Known(c) /\ Known(c) \in SUBSET RuleTexts
<1>1. ~SwapsMemo
  BY SingleRules DEF IInv
<1> QED
  BY <1>1, KeptRules
LEMMA RulesSeen ==
  ASSUME settled \in RowsType, NEW u \in Tables, NEW k \in Keys \cup {Blank}
  PROVE  R!Having(u, k) = LiveIn(settled, u, k)
<1>1. {x \in DOMAIN LiveOf(settled)[u] : LiveOf(settled)[u][x] = k} = LiveIn(settled, u, k)
  BY RowsOfKey
<1> QED
  BY <1>1 DEF R!Having, LiveOf

LEMMA Refusals ==
  ASSUME settled' = settled, NEW t \in Tables, NEW k \in Keys \cup {Blank}, NEW op \in {"insert", "update", "delete"},
         told' = <<op, t, k, "refused">>, op = "insert" => R!Orphaned(t, k),
         op = "update" => R!Held(t, k, "upd"), op = "delete" => R!Held(t, k, "del")
  PROVE  R!OnRows
<1>1. LiveOf(settled') = LiveOf(settled)
  OBVIOUS
<1>2. R!Refuse(op, t, k)
  BY <1>1 DEF R!Refuse, R!Says, LiveOf
<1> QED
  BY <1>2 DEF R!OnRows

\* What a step shows of the rows.
SeenStep == R!OnRows \/ (told' = told /\ LiveOf(settled') = LiveOf(settled))

LEMMA WriteAppendedSeen ==
  ASSUME IInv, settled' \in RowsType, R!Whole', NEW c \in Conns, NEW t \in Tables, Ready(c, t), WriteAppended(c, t), Careful
  PROVE  SeenStep
<1> DEFINE g == hand[c][t]
           k == g.row.key
<1>1. /\ Calm(c) /\ turn \in {FreeTurn, <<c, t>>} /\ Shape
      /\ g.row \in RowType /\ g.row = Present(k)
      /\ g.rec \in DOMAIN rows[t] /\ Unchanged(t) /\ Edited(t, g)
      /\ turn = FreeTurn => ~g.fresh
      /\ turn = <<c, t>> => Editing(c, t, g)
  BY SureFacts DEF WriteAppended
<1>2. /\ g.fresh /\ told' = <<"insert", t, k, IF Orphan(c, t) THEN "refused" ELSE "done">>
      /\ settled' = (IF Orphan(c, t) THEN settled ELSE rows)
  BY DEF WriteAppended, Answer
<1> HIDE DEF g
<1>3. g.rec \notin DOMAIN settled[t]
  BY <1>1, <1>2 DEF Editing
<1>4. rows \in RowsType /\ settled \in RowsType /\ k \in Keys \cup {Blank}
  BY <1>1, RowShape DEF Shape
<1>5. g.rec \in 1..MaxRows
  <2>1. DOMAIN rows[t] = 1..Len(rows[t]) /\ Len(rows[t]) \in Nat /\ Len(rows[t]) <= MaxRows /\ MaxRows \in Nat
    BY <1>1, <1>4, RowsShape, RefIntegrityAssumption DEF Shape
  <2> QED
    BY <1>1, <2>1
<1>6. CASE ~Orphan(c, t)
  <2>1. settled' = rows /\ told' = <<"insert", t, k, "done">>
    BY <1>2, <1>6
  <2>2. RowAdded(settled[t], settled'[t], g.rec, k)
    BY <1>1, <1>3, <2>1 DEF RowAdded, Edited
  <2>3. \A u \in Tables : u # t => settled'[u] = settled[u]
    BY <1>1, <2>1 DEF Unchanged
  <2> HIDE DEF k
  <2> QED
    BY <1>4, <1>5, <2>1, <2>2, <2>3, Inserts DEF SeenStep
<1>7. CASE Orphan(c, t)
  <2>1. settled' = settled /\ told' = <<"insert", t, k, "refused">>
    BY <1>2, <1>7
  <2>2. Here(c) /\ (\A d \in Conns : Resting(d)) /\ Known(c) = RulesOf(InFile)
    BY <1>1 DEF Calm
  <2>3. R!Rules = Known(c) /\ Known(c) \in SUBSET RuleTexts /\ \A r \in Known(c) : Knows(c, r.parent) /\ Knows(c, r.child)
    BY <2>2, KnownRules, RuleFacts DEF IInv
  <2>4. PICK n \in Referring(c, t) : ~Knows(c, Rule(c, n).parent) \/ Live(Rule(c, n).parent, k) = {}
    BY <1>7 DEF Orphan, g
  <2>5. k # Blank
    BY <1>7 DEF Orphan, g
  <2>6. Rule(c, n) \in Known(c) /\ Rule(c, n).child = t
    <3>1. n \in Of("RI") /\ n \in copy[c].objs /\ copy[c].text[n].child = t
      BY <2>4 DEF Referring, InForce, Rule
    <3>2. copy[c].text[n] # NoRule
      <4>1. NoRule.child = None
        BY DEF NoRule
      <4>2. t # None
        BY RefIntegrityAssumption, ObjectsAssumption DEF Of
      <4> QED
        BY <3>1, <4>1, <4>2
    <3> QED
      BY <3>1, <3>2 DEF Known, RulesOf, Rule
  <2> PICK r \in Known(c) : r = Rule(c, n)
    BY <2>6
  <2>7. r.child = t /\ r.parent \in Tables /\ LiveIn(rows, r.parent, k) = {}
    BY <2>3, <2>4, <2>6, RuleShape, LiveIs
  <2>8. LiveIn(settled, r.parent, k) = {}
    <3>1. CASE r.parent # t
      BY <1>1, <2>7, <3>1 DEF Unchanged, LiveIn
    <3>2. CASE r.parent = t
      <4>1. g.rec \in LiveIn(rows, t, k)
        BY <1>1 DEF LiveIn, Edited
      <4> QED
        BY <2>7, <3>2, <4>1
    <3> QED
      BY <3>1, <3>2
  <2>9. R!Having(r.parent, k) = {}
    BY <1>4, <2>7, <2>8, RulesSeen
  <2>10. R!Orphaned(t, k)
    BY <2>3, <2>5, <2>7, <2>9 DEF R!Orphaned
  <2> HIDE DEF k
  <2> PICK op \in {"insert", "update", "delete"} : op = "insert"
    OBVIOUS
  <2> QED
    BY <1>4, <2>1, <2>10, Refusals DEF SeenStep
<1> QED
  BY <1>6, <1>7

LEMMA RefuseSeen ==
  ASSUME IInv, NEW c \in Conns, NEW t, call[c].table = t, Refuse(c)
  PROVE  SeenStep
<1> DEFINE op == call[c].op
           k == OldKey(c)
           h == hand[c][t]
           rs == From(Known(c), t)
<1>1. call[c] # Idle /\ InCall(c, t)
  BY CallsUnderWay DEF Refuse
<1>2. PICK n \in call[c].todo :
       LET rule == Rule(c, n)
           found == Scanned(c, rule.child, k)
       IN /\ Concerned(c) /\ rule[op] = "restrict" /\ found # {}
          /\ IF Given(c, t) THEN Answer(IF op = "upd" THEN "update" ELSE "delete", t, Before(c, t), "refused")
             ELSE UNCHANGED told
  BY DEF Refuse
<1> DEFINE rule == Rule(c, n)
           found == Scanned(c, rule.child, k)
<1>3. /\ Concerned(c) /\ rule[op] = "restrict" /\ found # {}
      /\ Given(c, t) => told' = <<IF op = "upd" THEN "update" ELSE "delete", t, Before(c, t), "refused">>
      /\ ~Given(c, t) => told' = told
  BY <1>2 DEF Answer
<1>4. settled' = settled
  BY DEF Refuse
<1>5. /\ Shape /\ t \in Tables /\ op \in {"upd", "del"} /\ Acting(c, t, h) /\ h.row.key \in Keys \cup {Blank}
      /\ Known(c) \in SUBSET RuleTexts /\ rule \in rs /\ Parenting(c, t) # {}
      /\ Known(c) = RulesOf(InFile) /\ \A d \in Conns : Resting(d)
  BY <1>1 DEF InCall, IInv, DataInv
<1>6. /\ k \in Keys /\ (op = "upd" => h.row.key # k) /\ TablesMade(settled, rows, rs, t, op, k, h.row.key)
      /\ Unmixed(settled, rs, op, k) /\ Unchained(Start(t), Known(c), t, k)
  BY <1>3, <1>5 DEF Acting, Progress
<1>7. rs \in SUBSET RuleTexts /\ rule.child \in Tables /\ rule.child # t
  <2>1. rule \in Known(c) /\ rule.parent = t /\ rs \in SUBSET RuleTexts
    BY <1>5 DEF From
  <2>2. rule.child # t
    BY <1>6, <2>1 DEF Unchained
  <2> QED
    BY <1>5, <2>1, <2>2, RuleShape
<1>8. rows \in RowsType /\ settled \in RowsType
  BY <1>5 DEF Shape
<1>9. LiveIn(rows, rule.child, k) # {}
  BY <1>3, LiveIs DEF Scanned
<1>10. LiveIn(settled, rule.child, k) # {}
  <2>1. PICK r \in rs : r = rule
    BY <1>5
  <2> HIDE DEF rule, rs, k, h, op
  <2>2. Refused(settled, rows, t, r.child, k)
    BY <1>3, <1>5, <1>6, <1>7, <1>8, <1>9, <2>1, RefusedRows
  <2> QED
    BY <2>1, <2>2 DEF Refused
<1>11. R!Rules = Known(c)
  BY <1>5, KnownRules
<1>12. R!Held(t, k, op)
  <2>1. R!Having(rule.child, k) # {}
    BY <1>6, <1>7, <1>8, <1>10, RulesSeen
  <2>2. rule \in R!From(t) /\ k # Blank
    BY <1>5, <1>6, <1>11, RefIntegrityAssumption DEF R!From, From
  <2> QED
    BY <1>3, <2>1, <2>2 DEF R!Held
<1>13. Given(c, t) => Before(c, t) = k
  <2>1. CASE op = "upd"
    <3>1. OldKey(c) = h.snap
      BY <1>1, <2>1 DEF OldKey, InCall
    <3>2. h.snap = settled[t][h.rec].key
      BY <1>5, <2>1 DEF Acting, KeyKnown
    <3> QED
      BY <3>1, <3>2 DEF Before
  <2>2. CASE op = "del"
    <3>1. OldKey(c) = h.row.key
      BY <1>1, <2>2 DEF OldKey, InCall
    <3>2. Given(c, t) => settled[t][h.rec] = h.row
      BY <1>5, <2>2 DEF Acting, Given
    <3> QED
      BY <3>1, <3>2 DEF Before
  <2> QED
    BY <1>5, <2>1, <2>2
<1>14. CASE ~Given(c, t)
  BY <1>3, <1>4, <1>14 DEF SeenStep
<1>15. CASE Given(c, t)
  <2>1. told' = <<IF op = "upd" THEN "update" ELSE "delete", t, k, "refused">>
    BY <1>3, <1>13, <1>15
  <2>2. PICK name \in {"insert", "update", "delete"} : name = IF op = "upd" THEN "update" ELSE "delete"
    OBVIOUS
  <2>3. (name = "update" => R!Held(t, k, "upd")) /\ (name = "delete" => R!Held(t, k, "del")) /\ name # "insert"
    BY <1>5, <1>12, <2>2
  <2>4. told' = <<name, t, k, "refused">> /\ k \in Keys \cup {Blank} /\ t \in Tables
    BY <1>5, <1>6, <2>1, <2>2
  <2> HIDE DEF k, op
  <2> QED
    BY <1>4, <2>3, <2>4, Refusals DEF SeenStep
<1> QED
  BY <1>14, <1>15

LEMMA FinishWriteSeen ==
  ASSUME IInv, settled' \in RowsType, R!Whole', NEW c \in Conns, NEW t, call[c].table = t, FinishWrite(c)
  PROVE  SeenStep
<1> DEFINE h == hand[c][t]
           k == settled[t][h.rec].key
           new == h.row.key
           rs == From(Known(c), t)
<1>1. call[c] # Idle /\ InCall(c, t) /\ call[c].op = "upd" /\ call[c].todo = {}
  BY CallsUnderWay DEF FinishWrite
<1>2. /\ Shape /\ t \in Tables /\ Known(c) \in SUBSET RuleTexts /\ Here(c) /\ DictInv
      /\ h.row = Present(new) /\ new \in Keys \cup {Blank}
      /\ h.rec \in DOMAIN rows[t] /\ Edited(t, h) /\ Acting(c, t, h)
      /\ Known(c) = RulesOf(InFile) /\ \A d \in Conns : Resting(d)
  BY <1>1 DEF InCall, IInv
<1>3. rows \in RowsType /\ settled \in RowsType /\ R!Rules = Known(c)
  BY <1>2, KnownRules DEF Shape
<1>4. h.rec \in DOMAIN settled[t] /\ KeyKnown(c, t, h)
  BY <1>1, <1>2 DEF Acting
<1>5. settled[t][h.rec] = Present(k) /\ k \in Keys \cup {Blank}
  <2>1. settled[t][h.rec] \in RowType /\ settled[t][h.rec].live
    BY <1>2, <1>3, <1>4, RowsShape DEF KeyKnown
  <2> QED
    BY <2>1, LiveRow, RowShape
<1>6. settled' = rows /\ told' = <<"update", t, k, "done">>
  BY <1>4 DEF FinishWrite, Answer, Before, Given
<1>7. rs # {} => h.snap = k
  BY <1>2, <1>4, RuleFacts DEF KeyKnown
<1>8. OldKey(c) = h.snap
  BY <1>1 DEF OldKey, InCall
<1>9. h.rec \in 1..MaxRows
  <2>1. DOMAIN rows[t] = 1..Len(rows[t]) /\ Len(rows[t]) \in Nat /\ Len(rows[t]) <= MaxRows /\ MaxRows \in Nat
    BY <1>2, <1>3, RowsShape, RefIntegrityAssumption DEF Shape
  <2> QED
    BY <1>2, <2>1
<1>10. RowsRekeyed(settled[t], rows[t], {h.rec}, new)
  <2>1. settled[t][h.rec].live
    BY <1>4 DEF KeyKnown
  <2> QED
    BY <1>2, <1>4, <2>1 DEF RowsRekeyed, Edited
<1>11. {h.rec} \subseteq LiveIn(settled, t, k)
  BY <1>4, <1>5 DEF LiveIn
<1>12. Concerned(c) => /\ TablesMade(settled, rows, rs, t, "upd", OldKey(c), new)
                       /\ RulesMet(settled, rows, rs, {}, "upd", OldKey(c), new)
  <2>1. Concerned(c) => Progress(c, t, "upd", OldKey(c), new)
    BY <1>1, <1>2 DEF Acting
  <2>2. Coming(c) = {}
    BY <1>1 DEF Coming
  <2> QED
    BY <2>1, <2>2 DEF Progress
<1>13. ~Concerned(c) => Unchanged(t)
  BY <1>2 DEF Acting
<1>14. Concerned(c) <=> h.snap \notin {Unset, Blank} /\ h.snap # new
  BY <1>1, <1>8 DEF Concerned, InCall
<1>15. k # Unset
  BY <1>5, RefIntegrityAssumption DEF Unset
<1> HIDE DEF h, k, new, rs
<1>16. RulesDone(rows, t, "upd", k, new)
  <2>1. CASE rs = {}
    <3>1. Unchanged(t)
      BY <1>12, <1>13, <2>1 DEF TablesMade, Unchanged
    <3> QED
      BY <1>3, <2>1, <3>1 DEF RulesDone, TablesMade, RulesMet, Unchanged, rs
  <2>2. CASE rs # {} /\ (k = Blank \/ k = new)
    BY <1>7, <1>13, <1>14, <2>2 DEF RulesDone, Unchanged
  <2>3. CASE rs # {} /\ k # Blank /\ k # new
    BY <1>3, <1>7, <1>8, <1>12, <1>14, <1>15, <2>3 DEF RulesDone, rs
  <2> QED
    BY <2>1, <2>2, <2>3
<1>17. R!OnRows
  <2>1. PICK S \in SUBSET (1..MaxRows) : S = {h.rec}
    BY <1>9
  <2>2. S # {} /\ S \subseteq LiveIn(settled, t, k) /\ RowsRekeyed(settled[t], settled'[t], S, new)
    BY <1>6, <1>10, <1>11, <2>1
  <2>3. RulesDone(settled', t, "upd", k, new)
    BY <1>6, <1>16
  <2> QED
    BY <1>2, <1>3, <1>5, <1>6, <2>2, <2>3, Rekeys
<1> QED
  BY <1>17 DEF SeenStep

LEMMA FinishDeleteSeen ==
  ASSUME IInv, settled' \in RowsType, R!Whole', NEW c \in Conns, NEW t, call[c].table = t, FinishDelete(c), Superseded = {}
  PROVE  SeenStep
<1> DEFINE g == hand[c][t]
           h == [g EXCEPT !.row.live = t \in Superseded]
           rs == From(Known(c), t)
           k == g.row.key
           rec == g.rec
<1>1. call[c] # Idle /\ InCall(c, t) /\ call[c].op = "del" /\ call[c].todo = {}
  BY CallsUnderWay DEF FinishDelete
<1>2. /\ Shape /\ t \in Tables /\ Known(c) \in SUBSET RuleTexts
      /\ g \in HandType /\ g.row \in RowType /\ g.row = Present(k) /\ k \in Keys \cup {Blank}
      /\ rec \in DOMAIN rows[t] /\ rec # 0 /\ Edited(t, g) /\ Acting(c, t, g)
      /\ Known(c) = RulesOf(InFile) /\ \A d \in Conns : Resting(d)
  BY <1>1 DEF InCall, IInv
<1>3. rows \in RowsType /\ settled \in RowsType /\ R!Rules = Known(c)
  BY <1>2, KnownRules DEF Shape
<1>4. settled' = rows' /\ rows' = [rows EXCEPT ![t][h.rec] = h.row]
  BY <1>2 DEF FinishDelete
<1>5. /\ Given(c, t) => told' = <<"delete", t, Before(c, t), "done">>
      /\ ~Given(c, t) => told' = told
  BY DEF FinishDelete, Answer
<1> DEFINE row == [g.row EXCEPT !.live = t \in Superseded]
<1>6. row \in RowType /\ ~row.live
  <2>1. (t \in Superseded) = FALSE
    OBVIOUS
  <2>2. row = [g.row EXCEPT !.live = FALSE]
    BY <2>1
  <2> HIDE DEF row
  <2> QED
    BY <1>2, <2>2 DEF RowType
<1>7. h = [g EXCEPT !.row = row]
  OBVIOUS
<1> HIDE DEF row
<1>8. h.rec = rec /\ h.row = row
  <2> HIDE DEF h
  <2> QED
    BY <1>2, <1>7 DEF HandType
<1> HIDE DEF h
<1>9. PutTo(rows, rows', t, rec, row)
  BY <1>2, <1>3, <1>4, <1>6, <1>8, PutRow
<1>10. Given(c, t) => settled[t][rec] = g.row /\ Before(c, t) = k
  BY <1>1, <1>2 DEF Acting, Given, Before
<1>11. OldKey(c) = k /\ (Concerned(c) <=> k # Blank)
  <2>1. OldKey(c) = k
    BY <1>1 DEF OldKey, InCall
  <2>2. k # Unset
    BY <1>2, RefIntegrityAssumption DEF Unset
  <2> QED
    BY <1>1, <2>1, <2>2 DEF Concerned
<1>12. Concerned(c) => /\ TablesMade(settled, rows, rs, t, "del", k, k) /\ RulesMet(settled, rows, rs, {}, "del", k, k)
                       /\ \A q \in rs : q.child # t
  <2>1. Concerned(c) => Progress(c, t, "del", k, k)
    BY <1>1, <1>2, <1>11 DEF Acting
  <2>2. Coming(c) = {}
    BY <1>1 DEF Coming
  <2> QED
    BY <2>1, <2>2 DEF Progress, Unchained, From
<1>13. ~Concerned(c) => Unchanged(t)
  BY <1>2 DEF Acting
<1>14. rec \in 1..MaxRows
  <2>1. DOMAIN rows[t] = 1..Len(rows[t]) /\ Len(rows[t]) \in Nat /\ Len(rows[t]) <= MaxRows /\ MaxRows \in Nat
    BY <1>2, <1>3, RowsShape, RefIntegrityAssumption DEF Shape
  <2> QED
    BY <1>2, <2>1
<1>15. /\ DOMAIN rows'[t] = DOMAIN rows[t] /\ rows'[t][rec] = row /\ (\A i \in DOMAIN rows[t] : i # rec => rows'[t][i] = rows[t][i])
       /\ \A u \in Tables : u # t => rows'[u] = rows[u]
  BY <1>9 DEF PutTo
<1>16. ASSUME ~Given(c, t) PROVE Unchanged(t)
  <2>1. \A r \in rs : k # Blank => LiveIn(settled, r.child, k) = {}
    BY <1>1, <1>2, <1>16 DEF Acting, Given
  <2>2. CASE ~Concerned(c)
    BY <1>13, <2>2
  <2>3. CASE Concerned(c)
    <3> SUFFICES ASSUME NEW u \in Tables, u # t, rows[u] # settled[u] PROVE FALSE
      BY DEF Unchanged
    <3>1. PICK r \in rs : r.child = u /\ Made(settled, rows, r, "del", k, k)
      BY <1>12, <2>3 DEF TablesMade
    <3>2. LiveIn(settled, u, k) = {}
      BY <1>11, <2>1, <2>3, <3>1
    <3>3. settled[u] \in Seq(RowType) /\ \A i \in DOMAIN settled[u] : settled[u][i] # Present(k)
      BY <1>3, <3>2, RowsShape DEF LiveIn
    <3> QED
      BY <3>1, <3>3, ActedOnNone DEF Made
  <2> QED
    BY <2>2, <2>3
<1> HIDE DEF rs, k, rec, g
<1>17. CASE ~Given(c, t)
  <2>1. rec \notin DOMAIN settled[t] /\ DOMAIN rows[t] = DOMAIN settled[t] \cup {rec}
        /\ \A i \in DOMAIN settled[t] : i # rec => rows[t][i] = settled[t][i]
    BY <1>2, <1>17 DEF Given, Edited, rec, g
  <2>2. ASSUME NEW u \in Tables
        PROVE  [r \in {x \in DOMAIN settled'[u] : settled'[u][x].live} |-> settled'[u][r].key]
                 = [r \in {x \in DOMAIN settled[u] : settled[u][x].live} |-> settled[u][r].key]
    <3>1. CASE u # t
      <4>1. settled'[u] = settled[u]
        BY <1>4, <1>15, <1>16, <1>17, <3>1 DEF Unchanged
      <4> QED
        BY <4>1
    <3>2. CASE u = t
      <4>1. /\ DOMAIN settled'[u] = DOMAIN settled[u] \cup {rec} /\ ~settled'[u][rec].live
            /\ \A i \in DOMAIN settled[u] : settled'[u][i] = settled[u][i]
        BY <1>4, <1>6, <1>15, <2>1, <3>2
      <4>2. {x \in DOMAIN settled'[u] : settled'[u][x].live} = {x \in DOMAIN settled[u] : settled[u][x].live}
        BY <4>1
      <4> QED
        BY <4>1, <4>2
    <3> QED
      BY <3>1, <3>2
  <2>3. LiveOf(settled') = LiveOf(settled)
    BY <2>2 DEF LiveOf
  <2> QED
    BY <1>5, <1>17, <2>3 DEF SeenStep
<1>18. CASE Given(c, t)
  <2>1. rec \in DOMAIN settled[t] /\ settled[t][rec] = Present(k) /\ DOMAIN rows[t] = DOMAIN settled[t]
        /\ \A i \in DOMAIN settled[t] : i # rec => rows[t][i] = settled[t][i]
    <3>1. rec \in DOMAIN settled[t] /\ settled[t][rec] = Present(k)
      BY <1>2, <1>10, <1>18 DEF Given, rec, g
    <3> QED
      BY <1>2, <3>1 DEF Edited, rec, g
  <2>2. PICK S \in SUBSET (1..MaxRows) : S = {rec}
    BY <1>14
  <2>3. S # {} /\ S \subseteq LiveIn(settled, t, k) /\ RowsGone(settled[t], settled'[t], S)
    <3>1. {rec} \subseteq LiveIn(settled, t, k)
      BY <2>1 DEF LiveIn
    <3>2. RowsGone(settled[t], settled'[t], {rec})
      BY <1>4, <1>6, <1>15, <2>1 DEF RowsGone
    <3> QED
      BY <2>2, <3>1, <3>2
  <2>4. RulesDone(settled', t, "del", k, k)
    <3>1. CASE k = Blank
      BY <1>4, <1>11, <1>13, <1>15, <3>1 DEF RulesDone, Unchanged
    <3>2. CASE k # Blank
      <4>1. TablesMade(settled, rows, rs, t, "del", k, k) /\ RulesMet(settled, rows, rs, {}, "del", k, k)
            /\ \A q \in rs : q.child # t
        BY <1>11, <1>12, <3>2
      <4>2. rs \in SUBSET RuleTexts
        BY <1>2 DEF rs, From
      <4>3. PICK w : w = settled'
        OBVIOUS
      <4>4. \A u \in Tables : u # t => w[u] = rows[u]
        BY <1>4, <1>15, <4>3
      <4>5. TablesMade(settled, w, rs, t, "del", k, k) /\ RulesMet(settled, w, rs, {}, "del", k, k)
        BY <4>1, <4>2, <4>4, RulesElsewhere
      <4> QED
        BY <1>3, <3>2, <4>3, <4>5 DEF RulesDone, rs
    <3> QED
      BY <3>1, <3>2
  <2>5. told' = <<"delete", t, k, "done">>
    BY <1>5, <1>10, <1>18
  <2> QED
    BY <1>2, <1>3, <2>3, <2>4, <2>5, Removes DEF SeenStep
<1> QED
  BY <1>17, <1>18

LEMMA RecallSeen ==
  ASSUME IInv, settled' \in RowsType, R!Whole', NEW c \in Conns, NEW t \in Tables, Ready(c, t), RecallRecord(c, t), Careful
  PROVE  SeenStep
<1> DEFINE g == hand[c][t]
           h == [g EXCEPT !.row.live = TRUE]
           k == g.row.key
<1>a. g.open /\ g.rec # 0 /\ ~g.row.live /\ rows[t][h.rec] = g.row /\ Refers(c, t, h.row.key) /\ turn = FreeTurn
  BY DEF RecallRecord, May, Careful
<1>b. h.rec = g.rec
  <2>1. g \in HandType
    BY <1>a, HandOf DEF IInv, DataInv
  <2> QED
    BY <2>1 DEF HandType
<1>1. /\ g.open /\ g.rec # 0 /\ ~g.row.live /\ rows[t][g.rec] = g.row /\ turn = FreeTurn
      /\ rows' = [rows EXCEPT ![t][h.rec] = h.row] /\ settled' = rows' /\ told' = <<"insert", t, h.row.key, "done">>
  <2>1. rows' = [rows EXCEPT ![t][h.rec] = h.row] /\ settled' = rows' /\ told' = <<"insert", t, h.row.key, "done">>
    BY DEF RecallRecord, Put, Answer
  <2> QED
    BY <1>a, <1>b, <2>1
<1>2. rows = settled
  BY <1>1, CallsAreCalm
<1>3. Shape
  BY DEF IInv, DataInv
<1>4. g \in HandType /\ g.rec \in 0..Len(rows[t])
  BY <1>1, <1>3, HandOf
<1>5. rows \in RowsType /\ DOMAIN rows[t] = 1..Len(rows[t]) /\ Len(rows[t]) \in Nat /\ Len(rows[t]) <= MaxRows /\ MaxRows \in Nat
  BY <1>3, RowsShape, RefIntegrityAssumption DEF Shape
<1>6. g.rec \in DOMAIN rows[t] /\ g.rec \in 1..MaxRows
  BY <1>1, <1>4, <1>5
<1> HIDE DEF g
<1>7. h.rec = g.rec /\ h.row = Present(k) /\ k \in Keys \cup {Blank}
  <2>1. g.row \in RowType
    BY <1>4 DEF HandType
  <2>2. [g.row EXCEPT !.live = TRUE] = Present(k) /\ k \in Keys \cup {Blank}
    BY <2>1, RowEdits, RowShape DEF Present
  <2> HIDE DEF k
  <2> QED
    BY <1>4, <2>2 DEF HandType
<1> HIDE DEF h, k
<1>8. Present(k) \in RowType /\ Present(k).key = k
  BY <1>7, KeyShape
<1>9. PutTo(rows, rows', t, g.rec, h.row)
  BY <1>1, <1>5, <1>6, <1>7, <1>8, PutRow
<1>10. /\ DOMAIN rows'[t] = DOMAIN rows[t] /\ rows'[t][g.rec] = h.row
       /\ (\A i \in DOMAIN rows[t] : i # g.rec => rows'[t][i] = rows[t][i])
       /\ \A u \in Tables : u # t => rows'[u] = rows[u]
  BY <1>9 DEF PutTo
<1>11. RowAdded(settled[t], settled'[t], g.rec, k)
  BY <1>1, <1>2, <1>6, <1>7, <1>10 DEF RowAdded
<1>12. told' = <<"insert", t, k, "done">> /\ \A u \in Tables : u # t => settled'[u] = settled[u]
  BY <1>1, <1>2, <1>7, <1>8, <1>10
<1> QED
  BY <1>2, <1>5, <1>6, <1>7, <1>11, <1>12, Inserts DEF SeenStep

\* The rows of a key, by their numbers.
LEMMA RowNumbers ==
  ASSUME Shape, NEW t \in Tables, NEW k
  PROVE  LiveIn(rows, t, k) \in SUBSET (1..MaxRows)
<1>1. DOMAIN rows[t] = 1..Len(rows[t]) /\ Len(rows[t]) \in Nat /\ Len(rows[t]) <= MaxRows /\ MaxRows \in Nat
  BY RowsShape, RefIntegrityAssumption DEF Shape
<1> QED
  BY <1>1 DEF LiveIn

\* A statement that gives up a key no row refers to leaves nothing to the rules.
LEMMA NothingToDo ==
  ASSUME Shape, rows = settled, NEW c \in Conns, R!Rules = Known(c), Known(c) \in SUBSET RuleTexts, NEW t \in Tables,
         NEW op \in {"upd", "del"}, NEW k \in Keys \cup {Blank}, NEW new,
         k # Blank /\ (op = "upd" => k # new) => Children(c, t, k) = {} /\ LiveIn(rows, t, k) # {},
         NEW w, \A u \in Tables : u # t => w[u] = rows[u]
  PROVE  RulesDone(w, t, op, k, new)
<1>1. CASE k = Blank \/ (op = "upd" /\ k = new)
  BY <1>1 DEF RulesDone
<1>2. CASE k # Blank /\ (op = "upd" => k # new)
  <2>1. k \in Keys /\ Children(c, t, k) = {} /\ LiveIn(rows, t, k) # {}
    BY <1>2
  <2> DEFINE rs == From(Known(c), t)
  <2>2. TablesMade(settled, w, rs, t, op, k, new)
    BY DEF TablesMade
  <2>3. ASSUME NEW r \in rs PROVE (r[op] = "restrict" /\ LiveIn(settled, r.child, k) = {}) \/ Made(settled, w, r, op, k, new)
    <3>1. r \in Known(c) /\ r.parent = t /\ r \in RuleTexts
      BY DEF From
    <3>2. LiveIn(rows, r.child, k) = {}
      BY <2>1, <3>1, NoChildren
    <3>3. r.child \in Tables /\ r.child # t
      BY <2>1, <3>1, <3>2, RuleShape
    <3>4. w[r.child] = settled[r.child] /\ settled[r.child] \in Seq(RowType)
      BY <3>3, RowsShape DEF Shape
    <3>5. \A i \in DOMAIN settled[r.child] : settled[r.child][i] # Present(k)
      BY <3>2 DEF LiveIn
    <3>6. ActedOn(settled[r.child], r[op], op, k, new) = settled[r.child]
      BY <3>4, <3>5, ActedOnNone
    <3> QED
      BY <3>2, <3>4, <3>6 DEF Made
  <2>4. RulesMet(settled, w, rs, {}, op, k, new)
    BY <2>3 DEF RulesMet
  <2> HIDE DEF rs
  <2>5. ~(k = Blank \/ (op = "upd" /\ k = new))
    BY <1>2
  <2> QED
    BY <2>2, <2>4, <2>5 DEF RulesDone, rs
<1> QED
  BY <1>1, <1>2

LEMMA SqlUpdateSeen ==
  ASSUME IInv, settled' \in RowsType, R!Whole', NEW c \in Conns, NEW t \in Tables, Ready(c, t), Careful, Executing(c, t),
         NEW k \in Keys \cup {Blank}, NEW new \in Keys \cup {Blank}, SqlUpdate(c, t, k, new)
  PROVE  SeenStep
<1> DEFINE now == [r \in DOMAIN rows[t] |-> IF r \in Live(t, k) THEN Row(TRUE, new) ELSE rows[t][r]]
<1>1. /\ turn = FreeTurn /\ (k # new => Children(c, t, k) = {}) /\ Live(t, k) # {}
      /\ rows' = [rows EXCEPT ![t] = now] /\ settled' = rows' /\ told' = <<"update", t, k, "done">>
  BY DEF SqlUpdate, May, Careful, Executing, Statement, Answer
<1>2. Calm(c) /\ rows = settled /\ Shape
  BY <1>1, CallsAreCalm DEF IInv, DataInv
<1>3. R!Rules = Known(c) /\ Known(c) \in SUBSET RuleTexts /\ rows \in RowsType
  BY <1>2, KnownRules DEF Calm, Shape
<1>4. rows'[t] = now /\ \A u \in Tables : u # t => rows'[u] = rows[u]
  BY <1>1, <1>3 DEF RowsType
<1> DEFINE S == LiveIn(rows, t, k)
<1>5. Live(t, k) = S /\ S \in SUBSET (1..MaxRows) /\ \A i \in S : i \in DOMAIN rows[t] /\ rows[t][i] = Present(k)
  BY <1>2, LiveIs, RowNumbers DEF LiveIn
<1>6. RowsRekeyed(settled[t], settled'[t], S, new)
  <2>1. \A i \in S : settled[t][i].live
    BY <1>2, <1>5, KeyShape
  <2>2. DOMAIN now = DOMAIN rows[t] /\ \A i \in DOMAIN rows[t] : now[i] = IF i \in Live(t, k) THEN Present(new) ELSE rows[t][i]
    BY DEF Present
  <2>3. settled'[t] = now /\ settled[t] = rows[t]
    BY <1>1, <1>2, <1>4
  <2> HIDE DEF now, S
  <2> QED
    BY <1>5, <2>1, <2>2, <2>3 DEF RowsRekeyed
<1> HIDE DEF now
<1>7. S # {} /\ S \subseteq LiveIn(settled, t, k)
  BY <1>1, <1>2, <1>5
<1> HIDE DEF S
<1>8. RulesDone(settled', t, "upd", k, new)
  <2>1. PICK op \in {"upd", "del"} : op = "upd"
    OBVIOUS
  <2>2. k # Blank /\ (op = "upd" => k # new) => Children(c, t, k) = {} /\ LiveIn(rows, t, k) # {}
    BY <1>1, <1>5, <1>7, <2>1 DEF S
  <2>3. PICK w : w = settled'
    OBVIOUS
  <2>4. \A u \in Tables : u # t => w[u] = rows[u]
    BY <1>1, <1>4, <2>3
  <2>5. RulesDone(w, t, op, k, new)
    BY <1>2, <1>3, <2>2, <2>4, NothingToDo
  <2> QED
    BY <2>1, <2>3, <2>5
<1> QED
  BY <1>1, <1>2, <1>3, <1>5, <1>6, <1>7, <1>8, Rekeys DEF SeenStep

LEMMA SqlDeleteSeen ==
  ASSUME IInv, settled' \in RowsType, R!Whole', NEW c \in Conns, NEW t \in Tables, Ready(c, t), Careful, Executing(c, t),
         NEW k \in Keys \cup {Blank}, SqlDelete(c, t, k)
  PROVE  SeenStep
<1> DEFINE now == [r \in DOMAIN rows[t] |-> IF r \in Live(t, k) THEN Row(FALSE, k) ELSE rows[t][r]]
<1>1. /\ turn = FreeTurn /\ Children(c, t, k) = {} /\ Live(t, k) # {}
      /\ rows' = [rows EXCEPT ![t] = now] /\ settled' = rows' /\ told' = <<"delete", t, k, "done">>
  BY DEF SqlDelete, May, Careful, Executing, Statement, Answer
<1>2. Calm(c) /\ rows = settled /\ Shape
  BY <1>1, CallsAreCalm DEF IInv, DataInv
<1>3. R!Rules = Known(c) /\ Known(c) \in SUBSET RuleTexts /\ rows \in RowsType
  BY <1>2, KnownRules DEF Calm, Shape
<1>4. rows'[t] = now /\ \A u \in Tables : u # t => rows'[u] = rows[u]
  BY <1>1, <1>3 DEF RowsType
<1> DEFINE S == LiveIn(rows, t, k)
<1>5. Live(t, k) = S /\ S \in SUBSET (1..MaxRows) /\ \A i \in S : i \in DOMAIN rows[t] /\ rows[t][i] = Present(k)
  BY <1>2, LiveIs, RowNumbers DEF LiveIn
<1>6. RowsGone(settled[t], settled'[t], S)
  <2>1. Absent(k).live = FALSE
    BY KeyShape
  <2>2. DOMAIN now = DOMAIN rows[t] /\ \A i \in DOMAIN rows[t] : now[i] = IF i \in Live(t, k) THEN Absent(k) ELSE rows[t][i]
    BY DEF Absent
  <2>3. settled'[t] = now /\ settled[t] = rows[t]
    BY <1>1, <1>2, <1>4
  <2> HIDE DEF now, S
  <2> QED
    BY <1>5, <2>1, <2>2, <2>3 DEF RowsGone
<1> HIDE DEF now
<1>7. S # {} /\ S \subseteq LiveIn(settled, t, k)
  BY <1>1, <1>2, <1>5
<1> HIDE DEF S
<1>8. RulesDone(settled', t, "del", k, k)
  <2>1. PICK op \in {"upd", "del"} : op = "del"
    OBVIOUS
  <2>2. k # Blank /\ (op = "upd" => k # k) => Children(c, t, k) = {} /\ LiveIn(rows, t, k) # {}
    BY <1>1, <1>5, <1>7 DEF S
  <2>3. PICK w : w = settled'
    OBVIOUS
  <2>4. \A u \in Tables : u # t => w[u] = rows[u]
    BY <1>1, <1>4, <2>3
  <2>5. RulesDone(w, t, op, k, k)
    BY <1>2, <1>3, <2>2, <2>4, NothingToDo
  <2> QED
    BY <2>1, <2>3, <2>5
<1> QED
  BY <1>1, <1>2, <1>3, <1>5, <1>6, <1>7, <1>8, Removes DEF SeenStep

LEMMA SqlInsertSeen ==
  ASSUME IInv, settled' \in RowsType, R!Whole', NEW c \in Conns, NEW t \in Tables, Ready(c, t), Careful, Executing(c, t),
         NEW k \in Keys \cup {Blank}, SqlInsert(c, t, k)
  PROVE  SeenStep
<1> DEFINE now == Append(rows[t], Present(k))
<1>1. /\ turn = FreeTurn /\ Len(rows[t]) < MaxRows
      /\ rows' = [rows EXCEPT ![t] = now] /\ settled' = rows' /\ told' = <<"insert", t, k, "done">>
  BY DEF SqlInsert, Executing, Statement, Answer, Present
<1>2. rows = settled /\ Shape
  BY <1>1, CallsAreCalm DEF IInv, DataInv
<1>3. rows \in RowsType /\ rows[t] \in Seq(RowType) /\ DOMAIN rows[t] = 1..Len(rows[t]) /\ Len(rows[t]) \in Nat
  BY <1>2, RowsShape DEF Shape
<1>4. rows'[t] = now /\ \A u \in Tables : u # t => rows'[u] = rows[u]
  BY <1>1, <1>3 DEF RowsType
<1> DEFINE rec == Len(rows[t]) + 1
<1>5. DOMAIN now = DOMAIN rows[t] \cup {rec} /\ now[rec] = Present(k) /\ \A i \in DOMAIN rows[t] : i # rec => now[i] = rows[t][i]
  BY <1>3, KeyShape
<1>6. rec \in 1..MaxRows /\ rec \notin DOMAIN rows[t]
  BY <1>1, <1>3, RefIntegrityAssumption
<1> HIDE DEF now, rec
<1>7. RowAdded(settled[t], settled'[t], rec, k)
  BY <1>1, <1>2, <1>4, <1>5, <1>6 DEF RowAdded
<1>8. \A u \in Tables : u # t => settled'[u] = settled[u]
  BY <1>1, <1>2, <1>4
<1> QED
  BY <1>1, <1>2, <1>3, <1>6, <1>7, <1>8, Inserts DEF SeenStep

\* Whatever step a call on a table takes, Relations sees a step of its own or none.
LEMMA TableStepsSeen ==
  ASSUME IInv, settled' \in RowsType, R!Whole', NEW c \in Conns, NEW t \in Tables, OnTable(c, t), Careful
  PROVE  [R!Next]_(R!vars)
<1>1. Ready(c, t)
  BY DEF OnTable
<1>2. SeenStep
  <2>1. CASE OpenTable(c, t) \/ CloseTable(c, t) \/ Move(c, t) \/ AppendRecord(c, t) \/ WriteChanged(c, t) \/ DeleteRecord(c, t)
    BY <2>1 DEF SeenStep, OpenTable, CloseTable, Move, AppendRecord, WriteChanged, DeleteRecord
  <2>2. CASE WriteAppended(c, t)
    BY <1>1, <2>2, WriteAppendedSeen
  <2>3. CASE RecallRecord(c, t)
    BY <1>1, <2>3, RecallSeen
  <2>4. ASSUME NEW k \in Keys \cup {Blank}, SetField(c, t, k) PROVE SeenStep
    BY <2>4 DEF SeenStep, SetField
  <2>5. ASSUME NEW k \in Keys \cup {Blank}, Executing(c, t), SqlDelete(c, t, k) PROVE SeenStep
    BY <1>1, <2>5, SqlDeleteSeen
  <2>6. ASSUME NEW k \in Keys \cup {Blank}, Executing(c, t), SqlInsert(c, t, k) PROVE SeenStep
    BY <1>1, <2>6, SqlInsertSeen
  <2>7. ASSUME NEW k \in Keys \cup {Blank}, NEW new \in Keys \cup {Blank}, Executing(c, t), SqlUpdate(c, t, k, new)
        PROVE  SeenStep
    BY <1>1, <2>7, SqlUpdateSeen
  <2> QED
    BY <2>1, <2>2, <2>3, <2>4, <2>5, <2>6, <2>7 DEF OnTable
<1>3. UNCHANGED dictVars
  BY DEF OnTable, OpenTable, CloseTable, Move, AppendRecord, WriteAppended, WriteChanged, DeleteRecord, RecallRecord,
         SetField, SqlDelete, SqlInsert, SqlUpdate, Statement, Counted, Uncounted
<1> QED
  BY <1>2, <1>3, RowsStep DEF SeenStep

LEMMA RuleStepsSeen ==
  ASSUME IInv, settled' \in RowsType, R!Whole', NEW c \in Conns, InRule(c), Superseded = {}
  PROVE  [R!Next]_(R!vars)
<1> PICK t : t = call[c].table
  OBVIOUS
<1>1. SeenStep
  <2>1. CASE PassRule(c) \/ Apply(c)
    BY <2>1 DEF SeenStep, PassRule, Apply
  <2>2. CASE Refuse(c)
    BY <2>2, RefuseSeen
  <2>3. CASE FinishWrite(c)
    BY <2>3, FinishWriteSeen
  <2>4. CASE FinishDelete(c)
    BY <2>4, FinishDeleteSeen
  <2> QED
    BY <2>1, <2>2, <2>3, <2>4 DEF InRule
<1>2. UNCHANGED dictVars
  BY DEF InRule, PassRule, Refuse, Apply, FinishWrite, FinishDelete
<1> QED
  BY <1>1, <1>2, RowsStep DEF SeenStep

---------------------------------------------------------------------------
(* The promises of Relations: the dictionary *)

\* What comes with an object, and what goes with it.
Brought(o) == IF Kind[o] = "Member" THEN {MemberGroup[o]} \cap BuiltIn ELSE {}
Bound(o) == {x \in Of("Member") : o \in {MemberUser[x], MemberGroup[x]}}
LEMMA DefinedObject ==
  ASSUME NEW m, NEW n, NEW o \in Names, n.objs \in SUBSET Names, n.objs = m.objs \cup {o} \cup Brought(o),
         \A x \in n.objs : n.text[x] = (IF x \in m.objs THEN m.text[x] ELSE Default(x)) \/ (x = o /\ Kind[o] = "RI")
  PROVE  R!Altered(Said(m), Said(n))
<1>1. /\ Said(m).objs = m.objs /\ Said(n).objs = n.objs
      /\ \A x \in m.objs : Said(m).text[x] = m.text[x]
      /\ \A x \in n.objs : Said(n).text[x] = n.text[x]
  BY DEF Said
<1>2. R!IsRule(o) <=> Kind[o] = "RI"
  BY TextKinds DEF R!IsRule
<1>3. R!Texts(Said(m), Said(n), IF Kind[o] = "RI" THEN n.objs \ {o} ELSE n.objs)
  BY <1>1 DEF R!Texts
<1>4. R!Defined(Said(m), Said(n), o)
  BY <1>1, <1>2, <1>3 DEF R!Defined, Brought
<1> QED
  BY <1>4 DEF R!Altered

LEMMA DroppedObject ==
  ASSUME NEW m, NEW n, NEW o \in Names, m.objs \in SUBSET Names, n.objs = m.objs \ ({o} \cup Bound(o)),
         \A x \in n.objs : n.text[x] = m.text[x]
  PROVE  R!Altered(Said(m), Said(n))
<1>1. /\ Said(m).objs = m.objs /\ Said(n).objs = n.objs
      /\ \A x \in m.objs : Said(m).text[x] = m.text[x]
      /\ \A x \in n.objs : Said(n).text[x] = n.text[x]
  BY DEF Said
<1>2. R!Texts(Said(m), Said(n), n.objs)
  BY <1>1 DEF R!Texts
<1>3. R!Dropped(Said(m), Said(n), o)
  BY <1>1, <1>2 DEF R!Dropped, Bound
<1> QED
  BY <1>3 DEF R!Altered

\* Only members of groups need anything.
LEMMA BoundMembers ==
  ASSUME NEW o \in Names
  PROVE  /\ Kind[o] = "User" => Bound(o) = {x \in Of("Member") : MemberUser[x] = o}
         /\ Kind[o] = "Group" => Bound(o) = {x \in Of("Member") : MemberGroup[x] = o}
         /\ Kind[o] \notin {"User", "Group"} => Bound(o) = {}
<1>1. \A x \in Of("Member") : Kind[MemberUser[x]] = "User" /\ Kind[MemberGroup[x]] = "Group"
  BY ObjectsAssumption DEF Of
<1> QED
  BY <1>1 DEF Bound

\* Every change a careful client makes to a copy is one of an object.
LEMMA ChangeIsAltered ==
  ASSUME NEW m, Good(m), NEW n \in Changes(m), Careful, n.objs \in SUBSET Names
  PROVE  R!Altered(Said(m), Said(n))
<1>1. m = [objs |-> m.objs, text |-> m.text] /\ m.text \in [Names -> AllTexts] /\ m.objs \in SUBSET Names
  BY DEF Good, Sound, Copies
<1>2. \A x \in Names \ m.objs : Kind[x] # "Table" => m.text[x] = Default(x)
  BY DEF Good, Sound
<1>3. \A kind : \A o \in Of(kind) : o \in Names /\ Kind[o] = kind
  BY DEF Of
<1>4. \A o : With(m, o).objs = m.objs \cup {o} /\ With(m, o).text = m.text
  BY <1>1 DEF With
<1>5. \A S : Without(m, S).objs = m.objs \ S /\ Without(m, S).text = m.text
  BY <1>1 DEF Without
<1>6. ASSUME NEW t \in Of("Table"), n = AddTable(m, t), t \in m.objs \/ m.text[t] = Default(t)
      PROVE  R!Altered(Said(m), Said(n))
  <2>1. t \in Names /\ Brought(t) = {} /\ n.objs = m.objs \cup {t} /\ n.text = m.text
    BY <1>3, <1>4, <1>6 DEF AddTable, Brought
  <2>2. n.objs = m.objs \cup {t} \cup Brought(t)
    BY <2>1
  <2>3. \A x \in n.objs : n.text[x] = (IF x \in m.objs THEN m.text[x] ELSE Default(x))
    BY <1>6, <2>1
  <2> QED
    BY <2>1, <2>2, <2>3, DefinedObject
<1>7. ASSUME NEW o \in Of("User") \cup Of("Group"), n = CreateUser(m, o) \/ n = CreateGroup(m, o)
      PROVE  R!Altered(Said(m), Said(n))
  <2>1. o \in Names /\ Kind[o] # "Table" /\ Brought(o) = {} /\ n.objs = m.objs \cup {o} /\ n.text = m.text
    BY <1>3, <1>4, <1>7 DEF CreateUser, CreateGroup, Brought
  <2>2. n.objs = m.objs \cup {o} \cup Brought(o)
    BY <2>1
  <2>3. \A x \in n.objs : n.text[x] = (IF x \in m.objs THEN m.text[x] ELSE Default(x))
    BY <1>2, <2>1
  <2> QED
    BY <2>1, <2>2, <2>3, DefinedObject
<1>8. ASSUME NEW x \in Of("Member"), n = AddUserToGroup(m, x)
      PROVE  R!Altered(Said(m), Said(n))
  <2>1. x \in Names /\ Kind[x] = "Member" /\ MemberGroup[x] \in Names /\ Kind[MemberGroup[x]] = "Group"
    BY <1>3, ObjectsAssumption
  <2>2. n.objs = m.objs \cup {x} \cup Brought(x) /\ n.text = m.text
    BY <1>1, <1>8, <2>1 DEF AddUserToGroup, Brought
  <2>3. \A y \in n.objs : n.text[y] = (IF y \in m.objs THEN m.text[y] ELSE Default(y))
    BY <1>2, <2>1, <2>2 DEF Brought
  <2> QED
    BY <2>1, <2>2, <2>3, DefinedObject
<1>9. ASSUME NEW o \in Of("RI"), NEW r \in RuleTexts, n = CreateRi(m, o, r)
      PROVE  R!Altered(Said(m), Said(n))
  <2>1. o \in Names /\ Kind[o] = "RI" /\ Brought(o) = {}
    BY <1>3 DEF Brought
  <2>2. With(m, o) = [objs |-> m.objs \cup {o}, text |-> m.text]
    BY <1>1 DEF With
  <2>3. n.objs = m.objs \cup {o} /\ n.text = [m.text EXCEPT ![o] = r]
    BY <1>9, <2>2 DEF CreateRi
  <2>4. n.objs = m.objs \cup {o} \cup Brought(o)
    BY <2>1, <2>3
  <2>5. \A x \in n.objs : n.text[x] = (IF x \in m.objs THEN m.text[x] ELSE Default(x)) \/ (x = o /\ Kind[o] = "RI")
    BY <1>1, <2>1, <2>3
  <2> QED
    BY <2>1, <2>4, <2>5, DefinedObject
<1>10. ASSUME NEW o \in Of("Table") \cup Of("Member"), n = Without(m, {o}) PROVE R!Altered(Said(m), Said(n))
  <2>1. o \in Names /\ Bound(o) = {}
    BY <1>3, <1>10, BoundMembers
  <2>2. n.objs = m.objs \ ({o} \cup Bound(o)) /\ \A x \in n.objs : n.text[x] = m.text[x]
    BY <1>5, <1>10, <2>1
  <2> QED
    BY <1>1, <2>1, <2>2, DroppedObject
<1>11. ASSUME NEW o \in Of("User") \cup Of("RI"), NEW S, n = [Without(m, S) EXCEPT !.text[o] = Default(o)], S = {o} \cup Bound(o)
       PROVE  R!Altered(Said(m), Said(n))
  <2>1. Without(m, S) = [objs |-> m.objs \ S, text |-> m.text]
    BY <1>1 DEF Without
  <2>2. n.objs = m.objs \ S /\ n.text = [m.text EXCEPT ![o] = Default(o)]
    <3>1. \A O, T, d : [[objs |-> O, text |-> T] EXCEPT !.text[o] = d] = [objs |-> O, text |-> [T EXCEPT ![o] = d]]
      OBVIOUS
    <3>2. n = [[objs |-> m.objs \ S, text |-> m.text] EXCEPT !.text[o] = Default(o)]
      BY <1>11, <2>1
    <3>3. n = [objs |-> m.objs \ S, text |-> [m.text EXCEPT ![o] = Default(o)]]
      BY <3>1, <3>2
    <3> QED
      BY <3>3
  <2>3. n.objs = m.objs \ ({o} \cup Bound(o)) /\ \A x \in n.objs : n.text[x] = m.text[x]
    BY <1>1, <1>11, <2>2
  <2> QED
    BY <1>1, <1>3, <2>3, DroppedObject
<1>12. ASSUME NEW g \in Of("Group"), n = DeleteGroup(m, g) PROVE R!Altered(Said(m), Said(n))
  <2>1. g \in Names /\ Bound(g) = {x \in Of("Member") : MemberGroup[x] = g}
    BY <1>3, BoundMembers
  <2>2. n.objs = m.objs \ ({g} \cup Bound(g)) /\ \A x \in n.objs : n.text[x] = m.text[x]
    BY <1>5, <1>12, <2>1 DEF DeleteGroup
  <2> QED
    BY <1>1, <2>1, <2>2, DroppedObject
<1>13. ASSUME NEW u \in Of("User"), n = DeleteUser(m, u) PROVE R!Altered(Said(m), Said(n))
  <2>1. Bound(u) = {x \in Of("Member") : MemberUser[x] = u}
    BY <1>3, BoundMembers
  <2> QED
    BY <1>11, <1>13, <2>1 DEF DeleteUser
<1>14. ASSUME NEW o \in Of("RI"), n = RemoveRi(m, o) PROVE R!Altered(Said(m), Said(n))
  <2>1. {o} = {o} \cup Bound(o)
    BY <1>3, BoundMembers
  <2> QED
    BY <1>11, <1>14, <2>1 DEF RemoveRi
<1> QED
  BY ChangeKinds, <1>6, <1>7, <1>8, <1>9, <1>10, <1>12, <1>13, <1>14 DEF RemoveTable, RemoveUserFromGroup

\* What a connection writes is one change away from what the file says.
Writing == \A c \in Conns : stage[c] \in {"memo", "swap add"} => R!Altered(InFile, Said(copy[c]))

LEMMA WritingSteps ==
  ASSUME Writing, InFile' = InFile, \A d \in Conns : stage'[d] \in {"memo", "swap add"} =>
                                      stage[d] \in {"memo", "swap add"} /\ copy'[d] = copy[d]
  PROVE  Writing'
<1> SUFFICES ASSUME NEW d \in Conns, stage'[d] \in {"memo", "swap add"} PROVE R!Altered(InFile', Said(copy'[d]))
  BY DEF Writing
<1>1. R!Altered(InFile, Said(copy[d]))
  BY DEF Writing
<1> QED
  BY <1>1

\* When no connection renames, what Relations sees of the dictionary stays.
LEMMA KeptStays ==
  ASSUME DictInv, DictInv', InFile' = InFile, \A d \in Conns : (stage'[d] = "swap memo" <=> stage[d] = "swap memo"),
         \A d \in Conns : stage[d] = "swap memo" => copy'[d] = copy[d]
  PROVE  Kept' = Kept
<1>1. KeptSays
  BY KeptIs
<1>2. (DictInv => KeptSays)'
  BY KeptIs, PTL
<1>3. CASE SwapsMemo
  <2>1. PICK d \in Conns : stage[d] = "swap memo"
    BY <1>3 DEF SwapsMemo
  <2>2. Kept = Said(copy[d]) /\ Kept' = Said(copy'[d]) /\ copy'[d] = copy[d]
    BY <1>1, <1>2, <2>1 DEF KeptSays
  <2> QED
    BY <2>2
<1>4. CASE ~SwapsMemo
  <2>1. ~SwapsMemo'
    BY <1>4 DEF SwapsMemo
  <2> QED
    BY <1>1, <1>2, <1>4, <2>1 DEF KeptSays
<1> QED
  BY <1>3, <1>4

\* A step that changes neither what there is of rows nor of the dictionary.
LEMMA StutterSeen ==
  ASSUME UNCHANGED <<told, settled>>, Kept' = Kept
  PROVE  [R!Next]_(R!vars)
<1>1. LiveOf(settled') = LiveOf(settled)
  OBVIOUS
<1> QED
  BY <1>1, SeenVars

LEMMA DictChangeSeen ==
  ASSUME IInv, DictInv', Writing, NEW c \in Conns, DictChange(c), Careful
  PROVE  Writing' /\ [R!Next]_(R!vars)
<1>1. PICK n \in Changes(copy[c]) : RuleTables(n) \subseteq n.objs /\ OneParent(n) /\ Change(c, n)
  BY DEF DictChange, May, Careful, Changes
<1>2. /\ Good(copy[c]) /\ Good(n) /\ Said(copy[c]) = InFile /\ (\A d \in Conns : stage[d] = "idle") /\ DictInv
  BY <1>1, ChangerIsGood DEF IInv, Resting
<1>3. /\ copy' = [copy EXCEPT ![c] = n] /\ stage' = [stage EXCEPT ![c] = "memo"] /\ InFile' = InFile
      /\ copy \in [Conns -> Copies \cup {Gone}] /\ stage \in [Conns -> {"idle", "memo", "swap add", "swap memo"}]
  BY <1>1, <1>2 DEF Change, InFile, DictInv, CopiesInv
<1>4. copy'[c] = n /\ stage'[c] = "memo" /\ \A d \in Conns : d # c => stage'[d] = "idle"
  BY <1>2, <1>3
<1>5. R!Altered(InFile, Said(n))
  <2>1. n.objs \in SUBSET Names
    BY <1>2 DEF Good, Sound, Copies
  <2> PICK m : m = copy[c]
    OBVIOUS
  <2>2. R!Altered(Said(m), Said(n))
    BY <1>1, <1>2, <2>1, ChangeIsAltered
  <2> QED
    BY <1>2, <2>2
<1>6. Writing'
  <2> SUFFICES ASSUME NEW d \in Conns, stage'[d] \in {"memo", "swap add"} PROVE R!Altered(InFile', Said(copy'[d]))
    BY DEF Writing
  <2>1. d = c
    BY <1>4
  <2> QED
    BY <1>3, <1>4, <1>5, <2>1
<1>7. Kept' = Kept
  BY <1>2, <1>3, <1>4, KeptStays
<1>8. UNCHANGED <<told, settled>>
  BY DEF DictChange, Data, dataVars
<1> QED
  BY <1>6, <1>7, <1>8, StutterSeen

LEMMA SavingSeen ==
  ASSUME IInv, DictInv', Writing, R!Whole', NEW c \in Conns, Saving(c)
  PROVE  Writing' /\ [R!Next]_(R!vars)
<1>1. UNCHANGED <<told, settled>> /\ DictInv
  BY DEF Saving, Data, dataVars, IInv
<1>2. stage \in [Conns -> {"idle", "memo", "swap add", "swap memo"}]
  BY <1>1 DEF DictInv, CopiesInv
<1>3. (DictInv => KeptSays)'
  BY KeptIs, PTL
<1>4. CASE SaveMemo(c)
  <2>1. /\ stage[c] = "memo" /\ stage' = [stage EXCEPT ![c] = "swap add"] /\ UNCHANGED <<copy, add, memo>>
    BY <1>4 DEF SaveMemo
  <2>2. InFile' = InFile /\ stage'[c] = "swap add" /\ \A d \in Conns : d # c => stage'[d] = stage[d]
    BY <1>2, <2>1 DEF InFile
  <2>3. Writing'
    BY <2>1, <2>2, WritingSteps
  <2>4. Kept' = Kept
    BY <1>1, <2>1, <2>2, KeptStays
  <2> QED
    BY <1>1, <2>3, <2>4, StutterSeen
<1>5. CASE SwapAdd(c)
  <2>1. /\ stage' = [stage EXCEPT ![c] = "swap memo"] /\ copy' = copy /\ stage[c] = "swap add" /\ ~SwapsMemo
        /\ \A d \in Conns : d # c => stage[d] = "idle"
    BY <1>1, <1>5, SwapAddSteps
  <2>2. stage'[c] = "swap memo" /\ \A d \in Conns : d # c => stage'[d] = "idle"
    BY <1>2, <2>1
  <2>3. \A d \in Conns : stage'[d] \notin {"memo", "swap add"}
    BY <2>2
  <2>4. Writing'
    BY <2>3 DEF Writing
  <2>5. Kept = InFile /\ Kept' = Said(copy[c])
    BY <1>1, <1>3, <2>1, <2>2, KeptIs DEF KeptSays
  <2>6. R!Altered(Kept, Kept')
    BY <2>1, <2>5 DEF Writing
  <2>7. CASE Kept' = Kept
    BY <1>1, <2>4, <2>7, StutterSeen
  <2>8. CASE Kept' # Kept
    <3>1. LiveOf(settled') = LiveOf(settled) /\ told' = told
      BY <1>1
    <3>2. R!Next
      BY <2>6, <2>8, <3>1 DEF R!Next, LiveOf, Kept, SwapsMemo
    <3> QED
      BY <2>4, <3>2
  <2> QED
    BY <2>7, <2>8
<1>6. CASE SwapMemo(c)
  <2>1. /\ stage[c] = "swap memo" /\ stage' = [stage EXCEPT ![c] = "idle"] /\ copy' = copy
        /\ (\A d \in Conns : d # c => stage[d] = "idle") /\ ~SwapsMemo' /\ InFile' = Said(copy[c])
    BY <1>1, <1>6, SwapMemoSteps
  <2>2. \A d \in Conns : stage'[d] = "idle"
    BY <1>2, <2>1
  <2>3. Writing'
    BY <2>2 DEF Writing
  <2>4. Kept' = Kept
    BY <1>1, <1>3, <2>1, KeptIs DEF KeptSays
  <2> QED
    BY <1>1, <2>3, <2>4, StutterSeen
<1> QED
  BY <1>4, <1>5, <1>6 DEF Saving

LEMMA OthersSeen ==
  ASSUME IInv, DictInv', Writing, NEW c \in Conns, Joining(c) \/ Setting(c) \/ Leaving(c), Careful
  PROVE  Writing' /\ [R!Next]_(R!vars)
<1>1. DictInv /\ CopiesInv
  BY DEF IInv, DictInv
<1>2. UNCHANGED <<told, settled>>
  BY DEF Joining, Setting, Leaving, Data, dataVars
<1>3. /\ InFile' = InFile /\ \A d \in Conns : stage[d] = "swap memo" => copy'[d] = copy[d]
      /\ \A d \in Conns : stage'[d] = "swap memo" <=> stage[d] = "swap memo"
      /\ \A d \in Conns : stage'[d] \in {"memo", "swap add"} => stage[d] \in {"memo", "swap add"} /\ copy'[d] = copy[d]
  <2>1. CASE Joining(c)
    <3>1. /\ ~Here(c) /\ copy' = [copy EXCEPT ![c] = Loaded(InFile)] /\ UNCHANGED <<stage, add, memo>>
      BY <2>1 DEF Joining, Connect
    <3>2. stage[c] = "idle" /\ \A d \in Conns : d # c => copy'[d] = copy[d]
      BY <1>1, <3>1 DEF CopiesInv, Resting
    <3> QED
      BY <3>1, <3>2 DEF InFile
  <2>2. CASE Setting(c)
    <3>1. PICK t \in Of("Table"), text \in {Plain("Table"), Keyed} : SetTableProperty(c, t, text)
      BY <2>2 DEF Setting
    <3>2. UNCHANGED <<stage, add, memo>> /\ stage[c] = "idle" /\ \A d \in Conns : d # c => copy'[d] = copy[d]
      BY <1>1, <3>1, PropertySteps DEF Resting
    <3> QED
      BY <3>2 DEF InFile
  <2>3. CASE Leaving(c)
    <3>1. /\ stage[c] # "swap memo" /\ copy' = [copy EXCEPT ![c] = Gone] /\ stage' = [stage EXCEPT ![c] = "idle"]
          /\ UNCHANGED <<add, memo>>
      BY <2>3 DEF Leaving, Leave, May, Careful
    <3>2. stage'[c] = "idle" /\ \A d \in Conns : d # c => stage'[d] = stage[d] /\ copy'[d] = copy[d]
      BY <1>1, <3>1 DEF CopiesInv
    <3> QED
      BY <3>1, <3>2 DEF InFile
  <2> QED
    BY <2>1, <2>2, <2>3
<1>4. Writing'
  BY <1>3, WritingSteps
<1>5. Kept' = Kept
  BY <1>1, <1>3, KeptStays
<1> QED
  BY <1>2, <1>4, <1>5, StutterSeen

---------------------------------------------------------------------------
(* The promises of Relations: the theorem *)

LEMMA StepsSeen ==
  ASSUME IInv, IInv', Writing, R!Whole', [Next]_vars, Careful, Superseded = {}
  PROVE  Writing' /\ [R!Next]_(R!vars)
<1>1. settled' \in RowsType /\ DictInv'
  BY DEF IInv, DataInv, Shape
<1>2. CASE UNCHANGED dictVars
  <2>1. InFile' = InFile /\ UNCHANGED <<stage, copy>>
    BY <1>2, SameDict DEF dictVars
  <2>2. Writing'
    BY <2>1, WritingSteps
  <2>3. CASE UNCHANGED vars
    <3>1. UNCHANGED <<told, settled>>
      BY <2>3 DEF vars, dataVars
    <3> QED
      BY <1>2, <2>2, <3>1, RowsStep
  <2>4. ASSUME NEW c \in Conns, NEW t \in Tables, OnTable(c, t) PROVE [R!Next]_(R!vars)
    BY <1>1, <2>4, TableStepsSeen
  <2>5. ASSUME NEW c \in Conns, InRule(c) PROVE [R!Next]_(R!vars)
    BY <1>1, <2>5, RuleStepsSeen
  <2>6. ASSUME NEW c \in Conns, OnDictionary(c) PROVE [R!Next]_(R!vars)
    BY <1>1, <2>6, DictChangeSeen, SavingSeen, OthersSeen DEF OnDictionary
  <2> QED
    BY <2>2, <2>3, <2>4, <2>5, <2>6 DEF Next
<1>3. CASE ~UNCHANGED dictVars
  <2>1. ASSUME NEW c \in Conns, NEW t \in Tables, OnTable(c, t) PROVE FALSE
    BY <1>3, <2>1 DEF OnTable, OpenTable, CloseTable, Move, AppendRecord, WriteAppended, WriteChanged, DeleteRecord,
         RecallRecord, SetField, SqlDelete, SqlInsert, SqlUpdate, Statement, Counted, Uncounted
  <2>2. ASSUME NEW c \in Conns, InRule(c) PROVE FALSE
    BY <1>3, <2>2 DEF InRule, PassRule, Refuse, Apply, FinishWrite, FinishDelete
  <2>3. ASSUME NEW c \in Conns, OnDictionary(c) PROVE Writing' /\ [R!Next]_(R!vars)
    BY <1>1, <2>3, DictChangeSeen, SavingSeen, OthersSeen DEF OnDictionary
  <2>4. ~UNCHANGED vars
    BY <1>3 DEF vars
  <2> QED
    BY <2>1, <2>2, <2>3, <2>4 DEF Next
<1> QED
  BY <1>2, <1>3

\* Whatever steps a save of the dictionary and a call on a table take - two
\* files, one rule after the other, a handle of its own for each child - every
\* change of the dictionary and every call is seen at once and whole, or is
\* refused and leaves no trace.
THEOREM PromisesKept ==
  ASSUME Careful, Superseded = {}
  PROVE  Spec => ImplementsRelations
<1>1. Spec => []IInv
  BY SpecKeeps
<1>2. Init => IInv
  BY InitKeeps
<1>3. IInv => R!Whole
  BY RowsAreWhole
<1>4. Init => R!Init
  BY <1>2, <1>3 DEF Init, R!Init
<1>5. Init => Writing
  BY DEF Init, DictInit, Writing
<1>6. IInv /\ IInv' /\ Writing /\ R!Whole' /\ [Next]_vars => Writing' /\ [R!Next]_(R!vars)
  BY StepsSeen
<1> QED
  BY <1>1, <1>3, <1>4, <1>5, <1>6, PTL DEF Spec, ImplementsRelations, R!Spec

=============================================================================
