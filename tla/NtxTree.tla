------------------------------ MODULE NtxTree ------------------------------
(* The B-tree of an NTX file as its driver instance sees it: entries live in *)
(* numbered slots of a page, an offset table orders them, and the offset     *)
(* behind the last entry belongs to the slot that holds the rightmost child. *)
(* Reading goes by a list of all keys, built when a write has made it stale. *)
EXTENDS Naturals, Sequences, FiniteSets, SequencesExt, FiniteSetsExt, Functions

CONSTANT MaxKeys  \* keys of a page

Nil == 0
Empty == [k |-> 0, r |-> 0, c |-> Nil]

\* format_empty_page, and a page filled with entries and a rightmost child.
Page(ents, tail) ==
  [n |-> Len(ents), off |-> [i \in 0..MaxKeys |-> i],
   slot |-> [x \in 0..(MaxKeys + 2) |-> IF x < Len(ents) THEN ents[x + 1]
                                       ELSE IF x = Len(ents) THEN [Empty EXCEPT !.c = tail]
                                       ELSE Empty]]
Entry(page, i) == page.slot[page.off[i]]
Entries(page) == [i \in 1..page.n |-> Entry(page, i - 1)]

\* A new file has a header only.
Created == [disk |-> <<>>, root |-> Nil, free |-> Nil, tail |-> 1]

View(s) == s.cache @@ s.disk
Put(s, p, page) == [s EXCEPT !.cache = (p :> page) @@ @]
Seen(s, ps) == [s EXCEPT !.cache = Restrict(View(s), DOMAIN @ \cup (ps \cap DOMAIN s.disk))]

---------------------------------------------------------------------------
(* The descent of a write, as a stack of pages and places *)

FirstNotBelow(page, k) ==
  LET ok == {i \in 0..(page.n - 1) : Entry(page, i).k >= k} IN IF ok = {} THEN page.n ELSE Min(ok)

SeekForWrite(s, k, soft) ==
  LET down[p \in DOMAIN View(s)] ==
        LET page  == View(s)[p]
            i     == FirstNotBelow(page, k)
            exact == i < page.n /\ Entry(page, i).k = k
            child == Entry(page, i).c
            here  == <<[page |-> p, idx |-> i]>>
        IN  CASE child = Nil /\ i < page.n -> [stack |-> here, found |-> TRUE]
              [] child = Nil /\ i = page.n /\ soft /\ page.n > 0 ->
                   [stack |-> <<[page |-> p, idx |-> i - 1]>>, found |-> TRUE]
              [] child = Nil /\ i = page.n /\ ~(soft /\ page.n > 0) -> [stack |-> <<>>, found |-> FALSE]
              [] child # Nil /\ exact -> [stack |-> here, found |-> TRUE]
              [] OTHER -> [down[child] EXCEPT !.stack = here \o @]
  IN  down[s.root]

---------------------------------------------------------------------------
(* Insertion *)

Done(s) == [s |-> s, ok |-> TRUE]
Refused(s) == [s |-> s, ok |-> FALSE]

Place(page, at, k) == IF k > Entry(page, at).k THEN at + 1 ELSE at

\* One more entry: it takes the slot of the tail, and the slot that follows that
\* one in the page becomes the tail.
Inserted(page, at, e) ==
  LET free == page.off[page.n] IN
  [n |-> page.n + 1,
   off |-> [i \in 0..MaxKeys |-> IF i < at THEN page.off[i]
                                 ELSE IF i = at THEN free
                                 ELSE IF i <= page.n THEN page.off[i - 1]
                                 ELSE IF i = page.n + 1 THEN free + 1 ELSE page.off[i]],
   slot |-> [page.slot EXCEPT ![free] = e]]
WithChild(page, i, c) == [page EXCEPT !.slot[page.off[i]].c = c]

\* A split to be told to the parent: the separator and the pages beside it.
Split(s, l, sep, r) == [s |-> s, l |-> l, sep |-> sep, r |-> r, have |-> TRUE]
Settled(s) == [s |-> s, l |-> Nil, sep |-> Empty, r |-> Nil, have |-> FALSE]

SplitLeaf(s, p, ents) ==
  LET mid  == Len(ents) \div 2
      bare(es) == [i \in DOMAIN es |-> [es[i] EXCEPT !.c = Nil]]
      t    == Put(Put(s, p, Page(bare(SubSeq(ents, 1, mid)), Nil)),
                  s.tail, Page(bare(SubSeq(ents, mid + 2, Len(ents))), Nil))
  IN  Split([t EXCEPT !.tail = @ + 1], p, ents[mid + 1], s.tail)

InsertIn(s, p, page, at, e) ==
  IF page.n + 1 <= MaxKeys THEN Settled(Put(s, p, Inserted(page, at, e)))
  ELSE SplitLeaf(s, p, InsertAt(Entries(page), at + 1, e))
InsertLeaf(s, frame, k, rec) ==
  LET page == View(s)[frame.page]
  IN  InsertIn(s, frame.page, page, Place(page, frame.idx, k), [k |-> k, r |-> rec, c |-> Nil])

\* A parent with room takes the separator. A full one is split; when the split
\* child was its last, the code stores the new sibling past the end of its list
\* of entries, and the last child stays the old one.
SplitParent(s, p, page, ents) ==
  LET mid == Len(ents) \div 2
      t   == Put(Put(s, p, Page(SubSeq(ents, 1, mid), ents[mid + 1].c)),
                 s.tail, Page(SubSeq(ents, mid + 2, Len(ents)), Entry(page, page.n).c))
  IN  Split([t EXCEPT !.tail = @ + 1], p, ents[mid + 1], s.tail)
Sibling(raw, at, r) == IF at <= Len(raw) THEN [raw EXCEPT ![at].c = r] ELSE raw
InsertParent(frame, acc) ==
  LET page == View(acc.s)[frame.page]
      pos  == frame.idx
      e    == [k |-> acc.sep.k, r |-> acc.sep.r, c |-> acc.l]
  IN  IF ~acc.have THEN acc
      ELSE IF page.n + 1 <= MaxKeys
      THEN Settled(Put(acc.s, frame.page, WithChild(Inserted(page, pos, e), pos + 1, acc.r)))
      ELSE SplitParent(acc.s, frame.page, page, Sibling(InsertAt(Entries(page), pos + 1, e), pos + 2, acc.r))

\* The whole call. Root and next page number are on file at once when they
\* change; the pages wait for a flush, but for the first.
Rooted(s, page) == [Put(s, s.tail, page) EXCEPT !.root = s.tail, !.tail = @ + 1]
Topped(res) ==
  IF res.have THEN Done(Rooted(res.s, Page(<<[k |-> res.sep.k, r |-> res.sep.r, c |-> res.l]>>, res.r)))
  ELSE Done(res.s)
InsertAlong(s, stack, k, rec, unique) ==
  IF stack = <<>> \/ (unique /\ Entry(View(s)[Last(stack).page], Last(stack).idx).k = k) THEN Refused(s)
  ELSE Topped(FoldRight(InsertParent, Front(stack),
                        InsertLeaf(Seen(s, {stack[i].page : i \in DOMAIN stack}), Last(stack), k, rec)))
Dirty(s) == [s EXCEPT !.cur.dirty = TRUE]
Insert(s, k, rec, unique) ==
  IF s.root = Nil THEN Done(Rooted(Dirty(s), Page(<<[k |-> k, r |-> rec, c |-> Nil]>>, Nil)))
  ELSE InsertAlong(Dirty(s), SeekForWrite(s, k, TRUE).stack, k, rec, unique)

---------------------------------------------------------------------------
(* Erasing: only the first entry of a key is looked at, in whatever page *)

\* The offsets close up and the slot becomes the tail.
Removed(page, at) ==
  [page EXCEPT !.n = @ - 1,
               !.off = [i \in 0..MaxKeys |-> IF i < at \/ i >= page.n THEN page.off[i]
                                             ELSE IF i = page.n - 1 THEN page.off[at]
                                             ELSE page.off[i + 1]]]

\* What the search stopped at is taken for the key; the record is compared.
Taken(s, p, page, at, rec) ==
  IF Entry(page, at).r # rec THEN Refused(s) ELSE Done(Put(s, p, Removed(page, at)))
EraseFrom(s, seek, rec) ==
  LET frame == Last(seek.stack)
  IN  IF ~seek.found THEN Refused(s)
      ELSE Taken(Seen(s, {seek.stack[i].page : i \in DOMAIN seek.stack}), frame.page, View(s)[frame.page],
                 frame.idx, rec)
Erase(s, k, rec) == IF s.root = Nil THEN Refused(Dirty(s)) ELSE EraseFrom(Dirty(s), SeekForWrite(s, k, FALSE), rec)

---------------------------------------------------------------------------
(* Reading *)

NoCursor == [dirty |-> TRUE, list |-> <<>>, idx |-> 0]

\* All keys in order. A page whose first child is missing counts as a leaf.
Contents(s) ==
  LET walk[p \in {Nil} \cup DOMAIN View(s)] ==
        IF p = Nil \/ View(s)[p].n = 0 THEN <<>>
        ELSE IF Entry(View(s)[p], 0).c = Nil THEN Entries(View(s)[p])
        ELSE LET page == View(s)[p] IN
             FlattenSeq([i \in 1..page.n |-> walk[Entry(page, i - 1).c] \o <<Entry(page, i - 1)>>])
             \o walk[Entry(page, page.n).c]
  IN  walk[s.root]
TreePages(s) ==
  LET below[p \in {Nil} \cup DOMAIN View(s)] ==
        IF p = Nil \/ View(s)[p].n = 0 THEN {p} \ {Nil}
        ELSE {p} \cup UNION {below[Entry(View(s)[p], i).c] : i \in 0..View(s)[p].n}
  IN  below[s.root]

Fresh(s) ==
  IF ~s.cur.dirty THEN s
  ELSE [Seen(s, TreePages(s)) EXCEPT !.cur = [dirty |-> FALSE, list |-> Contents(s), idx |-> 0]]

Answer(hit, rec, k) == [hit |-> hit, rec |-> rec, key |-> k]
At(s, i, hit) == [s |-> [s EXCEPT !.cur.idx = i], ans |-> Answer(hit, s.cur.list[i].r, s.cur.list[i].k)]
Miss(s, hit) == [s |-> s, ans |-> Answer(hit, 0, 0)]
Off(s, hit) == Miss([s EXCEPT !.cur.idx = 0], hit)

SeekFirst(s0) == LET s == Fresh(s0) IN IF s.cur.list = <<>> THEN Miss(s, "AfterEnd") ELSE At(s, 1, "Exact")
SeekLast(s0) ==
  LET s == Fresh(s0) IN IF s.cur.list = <<>> THEN Miss(s, "AfterEnd") ELSE At(s, Len(s.cur.list), "Exact")

\* A miss of a hard seek leaves the cursor where it was; a soft seek past the
\* end takes the last key.
SeekKey(s0, k, soft) ==
  LET s  == Fresh(s0)
      ok == {i \in DOMAIN s.cur.list : s.cur.list[i].k >= k}
      i  == Min(ok)
  IN  IF s.cur.list = <<>> THEN Miss(s, "AfterEnd")
      ELSE IF ok # {} /\ s.cur.list[i].k = k THEN At(s, i, "Exact")
      ELSE IF ~soft THEN Miss(s, "AfterEnd")
      ELSE At(s, IF ok = {} THEN Len(s.cur.list) ELSE i, "AfterKey")

NextEntry(s0) ==
  LET s == Fresh(s0) IN
  IF s.cur.idx = 0 THEN Miss(s, "AfterEnd")
  ELSE IF s.cur.idx = Len(s.cur.list) THEN Off(s, "AfterEnd") ELSE At(s, s.cur.idx + 1, "Exact")
PrevEntry(s0) ==
  LET s == Fresh(s0) IN IF s.cur.idx <= 1 THEN Off(s, "BeforeBegin") ELSE At(s, s.cur.idx - 1, "Exact")
=============================================================================
