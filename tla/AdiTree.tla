------------------------------ MODULE AdiTree ------------------------------
(* The B+tree of one ADI tag. Pages are read from and written to the file in *)
(* every call. A leaf holds record numbers only: the key of an entry is what *)
(* the table's row holds when the entry is looked at. Branches hold copies.  *)
EXTENDS Naturals, Sequences, FiniteSets, SequencesExt, FiniteSetsExt, Functions

CONSTANTS
  LeafMax, BranchMax,  \* entries of a leaf and of a branch
  RecLimit             \* record numbers are stored modulo this

Nil == 0
Leaf(recs, left, right) == [kind |-> "leaf", recs |-> recs, left |-> left, right |-> right]
Branch(ents) == [kind |-> "branch", ents |-> ents]

\* A new file: the tag's root is an empty leaf for good.
Created == [disk |-> 1 :> Leaf(<<>>, Nil, Nil), root |-> 1, free |-> Nil, tail |-> 2]

\* An instance is a record [disk, root, tail, cur, rows]; rows is the table.
View(s) == s.disk
Put(s, p, page) == [s EXCEPT !.disk = (p :> page) @@ @]
StoredRec(r) == r % RecLimit
KeyOf(s, r) == IF r \in DOMAIN s.rows THEN s.rows[r] ELSE 0

---------------------------------------------------------------------------
(* Descent *)

ChildFor(ents, k) ==
  LET ok == {i \in DOMAIN ents : k <= ents[i].k} IN IF ok = {} THEN Len(ents) ELSE Min(ok)
Path(s, k) ==
  LET v == View(s)
      down[p \in DOMAIN v] ==
        LET page == v[p] IN
        IF page.kind = "leaf" THEN <<[page |-> p, idx |-> 0]>>
        ELSE LET i == ChildFor(page.ents, k)
             IN  <<[page |-> p, idx |-> i]>> \o down[page.ents[i].c]
  IN  down[s.root]
Edge(s, first) ==
  LET v == View(s)
      down[p \in DOMAIN v] ==
        LET page == v[p] IN
        IF page.kind = "leaf" THEN p ELSE down[page.ents[IF first THEN 1 ELSE Len(page.ents)].c]
  IN  down[s.root]

\* The entries in the order a walk finds them, each with the key of its row.
Chain(s) ==
  LET go[n \in 0..Cardinality(DOMAIN View(s)), p \in DOMAIN View(s)] ==
        IF n = 0 \/ View(s)[p].right = Nil THEN <<p>> ELSE <<p>> \o go[n - 1, View(s)[p].right]
  IN  go[Cardinality(DOMAIN View(s)), Edge(s, TRUE)]
Contents(s) ==
  LET chain == Chain(s)
      recs  == FlattenSeq([i \in DOMAIN chain |-> View(s)[chain[i]].recs])
  IN  [i \in DOMAIN recs |-> [k |-> KeyOf(s, recs[i]), r |-> recs[i]]]

---------------------------------------------------------------------------
(* Insertion *)

Done(s) == [s |-> s, ok |-> TRUE]
Refused(s) == [s |-> s, ok |-> FALSE]

\* The binary search among the rows' keys of a leaf.
Before(s, r, k, rec) == KeyOf(s, r) < k \/ (KeyOf(s, r) = k /\ r < rec)
Place(s, recs, k, rec) ==
  LET search[lo \in 0..Len(recs), hi \in 0..Len(recs)] ==
        LET mid == (lo + hi) \div 2 IN
        IF lo >= hi THEN lo
        ELSE IF Before(s, recs[mid + 1], k, rec) THEN search[mid + 1, hi] ELSE search[lo, mid]
  IN  1 + search[0, Len(recs)]

\* A split travels up as the two pages and the greatest key of each.
Split(s, l, lk, r, rk) == [s |-> s, l |-> l, lk |-> lk, r |-> r, rk |-> rk, have |-> TRUE]
Settled(s) == [s |-> s, l |-> Nil, lk |-> 0, r |-> Nil, rk |-> 0, have |-> FALSE]

Relinked(s, right, new) == IF right = Nil THEN s ELSE Put(s, right, [View(s)[right] EXCEPT !.left = new])

\* A cursor on the leaf follows the insert; a split leaves it only on a record
\* that stays where it was.
CursorAfterInsert(s, p, at, recs) ==
  IF s.cur.leaf # p THEN s
  ELSE [s EXCEPT !.cur.recs = recs, !.cur.idx = IF @ >= at THEN @ + 1 ELSE @]
CursorAfterSplit(s, p, l, new) ==
  IF p = s.root \/ (s.cur.leaf = p /\ s.cur.idx > Len(l))
  THEN [s EXCEPT !.cur = [@ EXCEPT !.leaf = Nil, !.idx = 0]]
  ELSE IF s.cur.leaf = p THEN [s EXCEPT !.cur.recs = l, !.cur.right = new] ELSE s

\* The root stays where it is: both its halves go to new pages.
SplitLeaf(s, p, page, l, r) ==
  LET left  == IF p = s.root THEN s.tail ELSE p
      right == IF p = s.root THEN s.tail + 1 ELSE s.tail
      t     == Put(Put(s, left, Leaf(l, page.left, right)), right, Leaf(r, left, page.right))
      u     == CursorAfterSplit(Relinked(t, page.right, right), p, l, right)
  IN  Split([u EXCEPT !.tail = right + 1], left, KeyOf(s, Last(l)), right, KeyOf(s, Last(r)))
InsertInto(s, p, page, at, recs) ==
  LET mid == Len(recs) \div 2
  IN  IF Len(page.recs) < LeafMax
      THEN Settled(CursorAfterInsert(Put(s, p, [page EXCEPT !.recs = recs]), p, at, recs))
      ELSE SplitLeaf(s, p, page, SubSeq(recs, 1, mid), SubSeq(recs, mid + 1, Len(recs)))
InsertAtPlace(s, p, page, at, rec) == InsertInto(s, p, page, at, InsertAt(page.recs, at, StoredRec(rec)))
InsertLeaf(s, p, k, rec) == InsertAtPlace(s, p, View(s)[p], Place(s, View(s)[p].recs, k, rec), rec)

\* The parent takes the new child behind the old one, whose key becomes the
\* greatest of the left half.
Adopted(ents, i, acc) == InsertAt([ents EXCEPT ![i].k = acc.lk], i + 1, [k |-> acc.rk, c |-> acc.r])

Widened(s, p, all) ==
  LET mid   == Len(all) \div 2
      right == s.tail
      left  == IF p = s.root THEN s.tail + 1 ELSE p
      t     == Put(Put(s, left, Branch(SubSeq(all, 1, mid))), right, Branch(SubSeq(all, mid + 1, Len(all))))
  IN  IF Len(all) <= BranchMax THEN Settled(Put(s, p, Branch(all)))
      ELSE Split([t EXCEPT !.tail = IF p = s.root THEN @ + 2 ELSE @ + 1],
                 left, all[mid].k, right, Last(all).k)
InsertBranch(frame, acc) ==
  IF ~acc.have THEN acc
  ELSE Widened(acc.s, frame.page, Adopted(View(acc.s)[frame.page].ents, frame.idx, acc))

Topped(root, res) ==
  IF res.have THEN Done(Put(res.s, root, Branch(<<[k |-> res.lk, c |-> res.l], [k |-> res.rk, c |-> res.r]>>)))
  ELSE Done(res.s)
InsertAlong(s, path, k, rec) ==
  Topped(s.root, FoldRight(InsertBranch, Front(path), InsertLeaf(s, Last(path).page, k, rec)))
Insert(s, k, rec) == InsertAlong(s, Path(s, k), k, rec)

---------------------------------------------------------------------------
(* The cursor: a copy of a leaf and a place in it *)

NoCursor == [leaf |-> Nil, recs |-> <<>>, left |-> Nil, right |-> Nil, idx |-> 0]
Answer(hit, rec, k) == [hit |-> hit, rec |-> rec, key |-> k]
Miss(s, hit) == [s |-> s, ans |-> Answer(hit, 0, 0)]

Loaded(s, p) ==
  [s EXCEPT !.cur = [leaf |-> p, recs |-> View(s)[p].recs, left |-> View(s)[p].left,
                     right |-> View(s)[p].right, idx |-> 0]]
Here(s, i, hit) ==
  LET r == s.cur.recs[i] IN [s |-> [s EXCEPT !.cur.idx = i], ans |-> Answer(hit, r, KeyOf(s, r))]

SeekFirst(s) ==
  LET p == Edge(s, TRUE)
  IN  IF View(s)[p].recs = <<>> THEN Miss(s, "AfterEnd") ELSE Here(Loaded(s, p), 1, "Exact")
SeekLast(s) ==
  LET p == Edge(s, FALSE)
  IN  IF View(s)[p].recs = <<>> THEN Miss(s, "AfterEnd")
      ELSE Here(Loaded(s, p), Len(View(s)[p].recs), "Exact")

\* One leaf is searched; past its end a soft seek takes the first entry of the
\* leaf to its right.
SeekOn(t, i, k, soft) ==
  IF KeyOf(t, t.cur.recs[i]) = k THEN Here(t, i, "Exact")
  ELSE IF soft THEN Here(t, i, "AfterKey") ELSE Miss(t, "AfterEnd")
SeekRight(u, soft) ==
  IF u.cur.recs = <<>> THEN Miss(u, "AfterEnd")
  ELSE IF soft THEN Here(u, 1, "AfterKey") ELSE Miss(Here(u, 1, "AfterEnd").s, "AfterEnd")
SeekLeaf(t, ok, k, soft) ==
  IF ok # {} THEN SeekOn(t, Min(ok), k, soft)
  ELSE IF t.cur.right = Nil THEN Miss(t, "AfterEnd") ELSE SeekRight(Loaded(t, t.cur.right), soft)
SeekIn(s, p, k, soft) ==
  IF View(s)[p].recs = <<>> THEN Miss(s, "AfterEnd")
  ELSE SeekLeaf(Loaded(s, p), {i \in DOMAIN View(s)[p].recs : KeyOf(s, View(s)[p].recs[i]) >= k}, k, soft)
SeekKey(s, k, soft) == SeekIn(s, Last(Path(s, k)).page, k, soft)

Left(s) == [s EXCEPT !.cur = [@ EXCEPT !.leaf = Nil, !.idx = 0]]
NextEntry(s) ==
  LET c == s.cur
      t == Loaded(s, c.right)
  IN  IF c.leaf = Nil THEN Miss(s, "AfterEnd")
      ELSE IF c.idx < Len(c.recs) THEN Here(s, c.idx + 1, "Exact")
      ELSE IF c.right = Nil THEN Miss(Left(s), "AfterEnd")
      ELSE IF t.cur.recs = <<>> THEN Miss(t, "AfterEnd") ELSE Here(t, 1, "Exact")
PrevEntry(s) ==
  LET c == s.cur
      t == Loaded(s, c.left)
  IN  IF c.leaf = Nil THEN Miss(s, "BeforeBegin")
      ELSE IF c.idx > 1 THEN Here(s, c.idx - 1, "Exact")
      ELSE IF c.left = Nil THEN Miss(Left(s), "BeforeBegin")
      ELSE IF t.cur.recs = <<>> THEN Miss(t, "BeforeBegin") ELSE Here(t, Len(t.cur.recs), "Exact")

---------------------------------------------------------------------------
(* Erasing and clearing *)

\* From a soft seek on, up to a greater key, the entry of the record whose row
\* has the key. An emptied leaf is taken out of the links of its neighbours; its
\* branch keeps it.
Rightwards(chain, p) ==
  IF p \in Range(chain) THEN SubSeq(chain, Min({i \in DOMAIN chain : chain[i] = p}), Len(chain)) ELSE <<p>>
Candidates(s, walk, c) ==
  LET in(p) == [i \in DOMAIN View(s)[p].recs |-> [leaf |-> p, i |-> i, r |-> View(s)[p].recs[i]]]
  IN  SelectSeq(FlattenSeq([n \in DOMAIN walk |-> in(walk[n])]), LAMBDA e : e.leaf # c.leaf \/ e.i >= c.idx)
Unlinked(s, p) ==
  LET l == View(s)[p].left
      r == View(s)[p].right
      t == IF l = Nil THEN s ELSE Put(s, l, [View(s)[l] EXCEPT !.right = r])
  IN  [Relinked(t, r, l) EXCEPT !.cur = [@ EXCEPT !.leaf = Nil, !.idx = 0]]
Taken(t, leaf, recs) ==
  LET u == [Put(t, leaf, [View(t)[leaf] EXCEPT !.recs = recs])
              EXCEPT !.cur.recs = recs, !.cur.idx = Min({@, Len(recs)})]
  IN  IF recs = <<>> THEN Done(Unlinked(u, leaf)) ELSE Done(u)
EraseAt(t, e, k) ==
  IF KeyOf(t, e.r) > k THEN Refused(t) ELSE Taken(t, e.leaf, RemoveAt(View(t)[e.leaf].recs, e.i))
EraseIn(s, list, k, rec) ==
  LET hit == {n \in DOMAIN list : KeyOf(s, list[n].r) > k \/ (KeyOf(s, list[n].r) = k /\ list[n].r = rec)}
      e   == list[Min(hit)]
  IN  IF hit = {} THEN Refused(s)
      ELSE EraseAt(IF e.leaf = s.cur.leaf THEN s ELSE Here(Loaded(s, e.leaf), 1, "Exact").s, e, k)
EraseFrom(sk, k, rec) ==
  IF sk.ans.rec = 0 THEN Refused(sk.s)
  ELSE EraseIn(sk.s, Candidates(sk.s, Rightwards(Chain(sk.s), sk.s.cur.leaf), sk.s.cur), k, rec)
Erase(s, k, rec) == EraseFrom(SeekKey(s, k, TRUE), k, rec)

\* Only a tree that is one leaf can be cleared.
Clear(s) ==
  IF View(s)[s.root].kind = "leaf"
  THEN Done(Loaded(Put(s, s.root, [View(s)[s.root] EXCEPT !.recs = <<>>]), s.root))
  ELSE Refused(s)
=============================================================================
