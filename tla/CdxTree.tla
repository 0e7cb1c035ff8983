------------------------------ MODULE CdxTree ------------------------------
(* The B+tree of one CDX tag as its driver instance sees it: pages of the    *)
(* file behind a page cache, leaves packed with the prefix a key shares with *)
(* its predecessor and its trailing blanks left out, a free list, a cursor.  *)
(* An instance is a record [cache, disk, root, free, tail, cur]; disk is     *)
(* what the file holds, and an operation changes only the other fields.      *)
EXTENDS Naturals, Sequences, FiniteSets, SequencesExt, FiniteSetsExt, Functions

CONSTANTS
  KeySize, Base,  \* keys are KeySize digits below Base; the digit 0 is a blank
  LeafBytes,      \* room of a leaf for entries and suffixes
  WideFrom,       \* record numbers from here on widen every entry of their leaf
  BranchMax       \* entries of a branch

Nil == 0
Lost == [kind |-> "lost"]  \* a page an encode failed in after zeroing it
Leaf(ents, left, right) == [kind |-> "leaf", ents |-> ents, left |-> left, right |-> right]
Branch(ents, left, right) == [kind |-> "branch", ents |-> ents, left |-> left, right |-> right]

\* A new file: a tag has no page before its first entry.
Created == [disk |-> <<>>, root |-> Nil, free |-> Nil, tail |-> 1]

---------------------------------------------------------------------------
(* The packing of a leaf *)

Digit(k, i) == (k \div Base^(KeySize - i)) % Base
Dup(prev, k) == Cardinality({n \in 1..KeySize : \A i \in 1..n : Digit(prev, i) = Digit(k, i)})
Trail(k, dup) ==
  Cardinality({n \in 1..(KeySize - dup) : \A i \in 1..n : Digit(k, KeySize + 1 - i) = 0})

\* Bytes of the suffix of entry i, and of an entry of this leaf.
SuffixLen(ents, i) ==
  LET dup == IF i = 1 THEN 0 ELSE Dup(ents[i - 1].k, ents[i].k)
  IN  KeySize - dup - Trail(ents[i].k, dup)
EntryWidth(ents) == IF \E i \in DOMAIN ents : ents[i].r >= WideFrom THEN 2 ELSE 1
Fits(ents) ==
  MapThenSumSet(LAMBDA i : EntryWidth(ents) + SuffixLen(ents, i), DOMAIN ents) <= LeafBytes

---------------------------------------------------------------------------
(* Pages *)

View(s) == s.cache @@ s.disk
Put(s, p, page) == [s EXCEPT !.cache = (p :> page) @@ @]
Seen(s, ps) == [s EXCEPT !.cache = Restrict(View(s), DOMAIN @ \cup (ps \cap DOMAIN s.disk))]

\* A page from the free list, else the one behind the last of the file.
FromFreeList(s) == s.free # Nil
Allocated(s) == IF FromFreeList(s) THEN s.free ELSE s.tail
AfterAllocate(s) ==
  IF FromFreeList(s) THEN [s EXCEPT !.free = View(s)[s.free].next]
  ELSE [s EXCEPT !.tail = @ + 1]

\* Mutant: the old right neighbour keeps its left link.
MutantRelinked(s, right, new) == s
\* What points left to a split page must point to its new right neighbour.
Relinked(s, right, new) ==
  IF right = Nil THEN s ELSE Put(s, right, [View(s)[right] EXCEPT !.left = new])

---------------------------------------------------------------------------
(* Descent *)

\* The child an insert takes: the first whose key is not smaller, or the last.
ChildFor(ents, k) ==
  LET ok == {i \in DOMAIN ents : ents[i].k >= k} IN IF ok = {} THEN Len(ents) ELSE Min(ok)

Path(s, k) ==
  LET v == View(s)
      down[p \in DOMAIN v] ==
        LET page == v[p] IN
        IF page.kind # "branch" THEN <<[page |-> p, idx |-> 0]>>
        ELSE LET i == ChildFor(page.ents, k)
             IN  <<[page |-> p, idx |-> i]>> \o down[page.ents[i].c]
  IN  down[s.root]

Leftmost(s) ==
  LET v == View(s)
      down[p \in DOMAIN v] ==
        LET page == v[p] IN
        IF page.kind # "branch" THEN <<p>> ELSE <<p>> \o down[page.ents[1].c]
  IN  down[s.root]

\* The leaves from p on, by right links or by left links.
Rightwards(s, p) ==
  LET v == View(s)
      go[n \in 0..Cardinality(DOMAIN v), q \in DOMAIN v] ==
        LET r == v[q].right
        IN  IF n = 0 \/ v[q].kind = "lost" \/ r = Nil THEN <<q>> ELSE <<q>> \o go[n - 1, r]
  IN  go[Cardinality(DOMAIN v), p]
Leftwards(s, p) ==
  LET v == View(s)
      go[n \in 0..Cardinality(DOMAIN v), q \in DOMAIN v] ==
        LET l == v[q].left
        IN  IF n = 0 \/ v[q].kind = "lost" \/ l = Nil THEN <<q>> ELSE <<q>> \o go[n - 1, l]
  IN  go[Cardinality(DOMAIN v), p]

Chain(s) == IF s.root = Nil THEN <<>> ELSE Rightwards(s, Last(Leftmost(s)))
Contents(s) ==
  LET chain == Chain(s)
      v     == View(s)
  IN  FlattenSeq([i \in DOMAIN chain |-> v[chain[i]].ents])

---------------------------------------------------------------------------
(* Insertion *)

None == [have |-> FALSE]
Done(s) == [s |-> s, up |-> None, ok |-> TRUE]
Refused(s) == [s |-> s, up |-> None, ok |-> FALSE]
Promoted(s, l, lents, r, rents) ==
  [s |-> s, up |-> [have |-> TRUE, left |-> [Last(lents) EXCEPT !.c = l],
                    right |-> [Last(rents) EXCEPT !.c = r]], ok |-> TRUE]

\* The split nearest to the middle at which both halves fit; 0 for none.
SplitAt(ents) ==
  LET half == Len(ents) \div 2
      ok == {m \in 1..(Len(ents) - 1) : Fits(SubSeq(ents, 1, m)) /\ Fits(SubSeq(ents, m + 1, Len(ents)))}
      below == {m \in ok : m <= half}
      above == {m \in ok : m >= half}
  IN  IF half \in ok THEN half
      ELSE IF ~Fits(SubSeq(ents, 1, half)) /\ below # {} THEN Max(below)
      ELSE IF Fits(SubSeq(ents, 1, half)) /\ above # {} THEN Min(above) ELSE 0

\* Behind every entry that is not greater by key and record number.
PlaceIn(ents, e) ==
  1 + Cardinality({i \in DOMAIN ents : ents[i].k < e.k \/ (ents[i].k = e.k /\ ents[i].r <= e.r)})

\* Page p becomes its first half; a new page behind it takes the other.
Halved(s, p, page, l, r, new) ==
  LET t == Put(Put(AfterAllocate(s), p, [page EXCEPT !.ents = l, !.right = new]),
               new, [page EXCEPT !.ents = r, !.left = p])
  IN  Promoted(Relinked(t, page.right, new), p, l, new, r)

PackLeaf(s, p, page, ents, mid) ==
  IF Fits(ents) THEN Done(Put(s, p, [page EXCEPT !.ents = ents]))
  ELSE IF mid = 0 THEN Refused(Put(s, p, Lost))
  ELSE Halved(s, p, page, SubSeq(ents, 1, mid), SubSeq(ents, mid + 1, Len(ents)), Allocated(s))

InsertInto(s, p, page, at, e, unique) ==
  LET ents == InsertAt(page.ents, at, e)
  IN  IF unique /\ at > 1 /\ page.ents[at - 1].k = e.k THEN Refused(s)
      ELSE PackLeaf(s, p, page, ents, SplitAt(ents))

InsertLeaf(s, p, e, unique) ==
  LET page == View(s)[p]
  IN  IF page.kind = "lost" THEN Refused(s)
      ELSE InsertInto(s, p, page, PlaceIn(page.ents, e), e, unique)

\* The branch of a frame after its child was inserted into: the last key grows
\* with the subtree, a split child becomes two entries, a full branch splits.
Grown(s, p, page, i, e) ==
  IF i = Len(page.ents) /\ e.k > page.ents[i].k
  THEN Done(Put(s, p, [page EXCEPT !.ents[i] = [k |-> e.k, r |-> e.r, c |-> @.c]])) ELSE Done(s)
Widened(s, p, page, ents) ==
  LET mid == Len(ents) \div 2
  IN  IF Len(ents) <= BranchMax THEN Done(Put(s, p, [page EXCEPT !.ents = ents]))
      ELSE Halved(s, p, page, SubSeq(ents, 1, mid), SubSeq(ents, mid + 1, Len(ents)), Allocated(s))
InsertBranch(frame, res, e) ==
  LET page == View(res.s)[frame.page]
      i    == frame.idx
  IN  IF ~res.ok THEN res
      ELSE IF ~res.up.have THEN Grown(res.s, frame.page, page, i, e)
      ELSE Widened(res.s, frame.page, page,
                   InsertAt([page.ents EXCEPT ![i] = res.up.left], i + 1, res.up.right))

\* The whole call: a first leaf, or a descent and its way back, and a new root
\* when the old one split. The header keeps root and free list on file at once
\* whenever the root changes.
Rooted(s, page) == [Put(AfterAllocate(s), Allocated(s), page) EXCEPT !.root = Allocated(s)]
Topped(res) ==
  IF res.ok /\ res.up.have THEN Done(Rooted(res.s, Branch(<<res.up.left, res.up.right>>, Nil, Nil))) ELSE res
InsertAlong(s, path, e, unique) ==
  Topped(FoldRight(LAMBDA frame, acc : InsertBranch(frame, acc, e), Front(path),
                   InsertLeaf(Seen(s, {path[i].page : i \in DOMAIN path}), Last(path).page, e, unique)))
Insert(s, k, rec, unique) ==
  LET e == [k |-> k, r |-> rec, c |-> Nil]
  IN  IF s.root = Nil THEN Done(Rooted(s, Leaf(<<e>>, Nil, Nil)))
      ELSE InsertAlong(s, Path(s, k), e, unique)

---------------------------------------------------------------------------
(* The cursor: a leaf, a copy of its entries, a place in the copy *)

NoCursor == [state |-> "initial", leaf |-> Nil, idx |-> 0, dec |-> <<>>]
Answer(hit, rec, k) == [hit |-> hit, rec |-> rec, key |-> k]
NoAnswer(hit) == Answer(hit, 0, 0)
At(s, leaf, dec, i, hit) ==
  [s |-> [s EXCEPT !.cur = [state |-> "positioned", leaf |-> leaf, idx |-> i, dec |-> dec]],
   ans |-> Answer(hit, dec[i].r, dec[i].k)]
Off(s, leaf, dec, state, hit) ==
  [s |-> [s EXCEPT !.cur = [state |-> state, leaf |-> leaf, idx |-> 0, dec |-> dec]],
   ans |-> NoAnswer(hit)]

\* The first leaf of a walk that has entries, or the last of the walk.
SkipEmpty(s, walk) ==
  LET full == {i \in DOMAIN walk : View(s)[walk[i]].ents # <<>>}
      i    == IF full = {} THEN Len(walk) ELSE Min(full)
  IN  [leaf |-> walk[i], dec |-> View(s)[walk[i]].ents, seen |-> Range(SubSeq(walk, 1, i))]

\* The cursor goes to the first entry of what a walk found, or to the last; when
\* the walk found nothing it is left in the given state.
OnFirst(t, found, state) ==
  IF found.dec = <<>> THEN Off(t, found.leaf, <<>>, state, "AfterEnd")
  ELSE At(t, found.leaf, found.dec, 1, "Exact")
OnLast(t, found) == At(t, found.leaf, found.dec, Len(found.dec), "Exact")

First(s, found) == OnFirst(Seen(s, Range(Leftmost(s)) \cup found.seen), found, s.cur.state)
SeekFirst(s) ==
  IF s.root = Nil THEN Off(s, Nil, <<>>, s.cur.state, "AfterEnd") ELSE First(s, SkipEmpty(s, Chain(s)))

LastOf(s, chain, found) ==
  IF found.dec = <<>> THEN SeekFirst(s) ELSE OnLast(Seen(s, Range(Leftmost(s)) \cup Range(chain)), found)
SeekLast(s) ==
  IF s.root = Nil THEN SeekFirst(s) ELSE LastOf(s, Chain(s), SkipEmpty(s, Reverse(Chain(s))))

\* Mutant: the whole width of a key is compared.
MutantCompared(len) == KeySize
Compared(len) == Min({len, KeySize})

\* A key given by its first len digits matches every key that begins so; the
\* leaves are searched one after the other from the first.
NotBefore(dec, k, cut) == {j \in DOMAIN dec : dec[j].k \div cut >= k \div cut}
Found(t, leaf, dec, j, k, cut, soft) ==
  IF dec[j].k \div cut = k \div cut THEN At(t, leaf, dec, j, "Exact")
  ELSE IF soft THEN At(t, leaf, dec, j, "AfterKey")
  ELSE IF j = 1 THEN Off(t, leaf, dec, "beforeBegin", "AfterEnd")
  ELSE [s |-> [t EXCEPT !.cur = [state |-> "between", leaf |-> leaf, idx |-> j, dec |-> dec]],
        ans |-> NoAnswer("AfterEnd")]
PastAll(t, last, soft) ==
  Off(t, last.leaf, last.dec, IF soft THEN "afterEnd" ELSE "afterEndKey", "AfterEnd")
Walked(s, leaves) == Seen(s, Range(Leftmost(s)) \cup Range(leaves))
SeekAt(s, chain, hits, k, cut, soft) ==
  LET dec == View(s)[chain[Min(hits)]].ents
  IN  IF hits = {} THEN PastAll(Walked(s, chain), SkipEmpty(s, Reverse(chain)), soft)
      ELSE Found(Walked(s, SubSeq(chain, 1, Min(hits))), chain[Min(hits)], dec,
                 Min(NotBefore(dec, k, cut)), k, cut, soft)
SeekAlong(s, chain, k, cut, soft) ==
  SeekAt(s, chain, {i \in DOMAIN chain : NotBefore(View(s)[chain[i]].ents, k, cut) # {}}, k, cut, soft)
SeekFrom(s, first, k, cut, soft) ==
  IF first.ans.rec = 0 THEN first ELSE SeekAlong(s, Chain(s), k, cut, soft)
SeekKey(s, k, len, soft) == SeekFrom(s, SeekFirst(s), k, Base^(KeySize - Compared(len)), soft)

Onwards(s, found) == OnFirst(Seen(s, {s.cur.leaf} \cup found.seen), found, "afterEnd")
NextEntry(s) ==
  LET c     == s.cur
      right == View(s)[c.leaf].right
  IN  CASE c.state = "beforeBegin" /\ c.dec # <<>> -> At(s, c.leaf, c.dec, 1, "Exact")
        [] c.state = "beforeBegin" /\ c.dec = <<>> -> SeekFirst(s)
        [] c.state = "afterEndKey" -> SeekFirst(s)
        [] c.state = "between" -> At(s, c.leaf, c.dec, c.idx, "Exact")
        [] c.state \in {"afterEnd", "initial"} -> [s |-> s, ans |-> NoAnswer("AfterEnd")]
        [] c.state = "positioned" /\ c.idx < Len(c.dec) -> At(s, c.leaf, c.dec, c.idx + 1, "Exact")
        [] OTHER -> IF right = Nil THEN Off(Seen(s, {c.leaf}), c.leaf, c.dec, "afterEnd", "AfterEnd")
                    ELSE Onwards(s, SkipEmpty(s, Rightwards(s, right)))

Backwards(s, found) ==
  LET t == Seen(s, {s.cur.leaf} \cup found.seen)
  IN  IF found.dec = <<>> THEN Off(t, found.leaf, <<>>, "beforeBegin", "BeforeBegin") ELSE OnLast(t, found)
PrevEntry(s) ==
  LET c    == s.cur
      left == View(s)[c.leaf].left
  IN  CASE c.state \in {"afterEnd", "afterEndKey"} -> SeekLast(s)
        [] c.state \in {"beforeBegin", "initial"} -> [s |-> s, ans |-> NoAnswer("BeforeBegin")]
        [] c.state \in {"positioned", "between"} /\ c.idx > 1 -> At(s, c.leaf, c.dec, c.idx - 1, "Exact")
        [] c.state = "between" /\ c.idx <= 1 -> Off(s, c.leaf, c.dec, "beforeBegin", "BeforeBegin")
        [] OTHER -> IF left = Nil THEN Off(Seen(s, {c.leaf}), c.leaf, c.dec, "beforeBegin", "BeforeBegin")
                    ELSE Backwards(s, SkipEmpty(s, Leftwards(s, left)))

---------------------------------------------------------------------------
(* Erasing and clearing *)

\* The entry is looked for among the equal keys a seek finds, across leaves; the
\* leaf is packed again in place, which need not succeed. A failed search leaves
\* the cursor where it stopped.
Repacked(t, leaf, page, ents) ==
  IF Fits(ents) THEN Done(Put(t, leaf, [page EXCEPT !.ents = ents])) ELSE Refused(Put(t, leaf, Lost))
Taken(s, leaf, page, e) ==
  Repacked([s EXCEPT !.cur = [NoCursor EXCEPT !.leaf = leaf, !.dec = page.ents]], leaf, page,
           SelectSeq(page.ents, LAMBDA x : ~(x.k = e.k /\ x.r = e.r)))
Passed(s, walk, k) ==
  LET on   == {i \in DOMAIN walk : NotBefore(View(s)[walk[i]].ents, k + 1, 1) # {}}
      leaf == IF on = {} THEN Last(walk) ELSE walk[Min(on)]
      dec  == View(s)[leaf].ents
  IN  IF on = {} THEN Off(s, leaf, dec, "afterEnd", "AfterEnd").s
      ELSE At(s, leaf, dec, Min(NotBefore(dec, k + 1, 1)), "Exact").s
EraseAlong(s, walk, e) ==
  LET has == {i \in DOMAIN walk : \E x \in Range(View(s)[walk[i]].ents) : x.k = e.k /\ x.r = e.r}
  IN  IF has = {} THEN Refused(Passed(Seen(s, Range(walk)), walk, e.k))
      ELSE Taken(Seen(s, Range(walk)), walk[Min(has)], View(s)[walk[Min(has)]], e)
EraseFrom(found, k, rec) ==
  IF found.ans.hit # "Exact" THEN Refused(found.s)
  ELSE EraseAlong(found.s, Rightwards(found.s, found.s.cur.leaf), [k |-> k, r |-> rec])
Erase(s, k, rec) == IF s.root = Nil THEN Refused(s) ELSE EraseFrom(SeekKey(s, k, KeySize, FALSE), k, rec)

\* Every page of the tree goes on the free list, children first; the links are
\* written to the file at once.
TreePages(s) ==
  LET below[p \in DOMAIN View(s)] ==
        LET page == View(s)[p] IN
        (IF page.kind = "branch" THEN FlattenSeq([i \in DOMAIN page.ents |-> below[page.ents[i].c]])
         ELSE <<>>) \o <<p>>
  IN  IF s.root = Nil THEN <<>> ELSE below[s.root]
FreeLinks(s) ==
  LET ps == TreePages(s)
  IN  [p \in Range(ps) |-> [kind |-> "free", next |->
         LET i == Min({x \in DOMAIN ps : ps[x] = p}) IN IF i = 1 THEN s.free ELSE ps[i - 1]]]
Cleared(s) ==
  [s EXCEPT !.root = Nil, !.cur = NoCursor, !.cache = <<>>,
            !.free = IF s.root = Nil THEN @ ELSE Last(TreePages(s))]
=============================================================================
