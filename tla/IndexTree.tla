----------------------------- MODULE IndexTree -----------------------------
(* The indexes of one table: every write of a row goes to the tree of each   *)
(* tag, searches and moves read the trees, a flush writes the cached pages.  *)
(* The driver is CDX (several tags in one file), NTX or ADI (one tag).       *)
EXTENDS Naturals, Sequences, FiniteSets, SequencesExt, FiniteSetsExt, Functions

CONSTANTS
  Drivers,     \* subset of {"cdx", "ntx", "adi"}; a behaviour uses one
  TagSets,     \* tags of a CDX file; a behaviour has one of these sets
  KeysOf,      \* keys, by driver and number of tags
  ProbesOf,    \* those that are searched, by driver
  Recs,        \* record numbers
  Rows,        \* how many rows the table may have, by driver and number of tags
  MaxChanges,  \* bound: writes of rows, recreated tags and reindexings, by driver and number of tags
  Freedoms,    \* what the clients may do beyond careful use
  KeySize, Base, LeafBytes, WideFrom, BranchMax, MaxKeys, LeafMax, RecLimit

Cdx == INSTANCE CdxTree
Ntx == INSTANCE NtxTree
Adi == INSTANCE AdiTree

ASSUME IndexAssumption ==
  /\ Drivers \subseteq {"cdx", "ntx", "adi"}
  /\ \A d \in Drivers : UNION Range(KeysOf[d]) \subseteq Nat \ {0}
  /\ Recs \subseteq Nat \ {0}

VARIABLES
  kind,    \* the driver
  rows,    \* the table: record number -> key
  tree,    \* per tag, what its driver instance holds: cache, root, free, cursor
  tail,    \* where the file grows
  disk,    \* the pages on file
  header,  \* per tag, root and free list on file
  at,      \* where a search or a move has left each tag
  ans,     \* the last answer
  wrote,   \* whether a row was written since the last flush
  changes

vars == <<kind, rows, tree, tail, disk, header, at, ans, wrote, changes>>

Nil == 0
Tags == DOMAIN tree
\* Bound: only a tag that has its file for itself is searched.
Searched == IF Cardinality(Tags) = 1 THEN Tags ELSE {}
Blank == 0
Keys == UNION {UNION Range(KeysOf[d]) : d \in Drivers}
Lost == [kind |-> "lost"]
End == [kind |-> "end"]
Begin == [kind |-> "begin"]
Unasked == [k |-> 0, w |-> 0, soft |-> FALSE]
Silent == [hit |-> "none", rec |-> 0, key |-> 0, asked |-> Unasked]

\* The indexes of the table: instances, allocator, file.
Files == [tree |-> tree, tail |-> tail, disk |-> disk, header |-> header]

\* What an operator of a driver sees of tag t, and what it leaves behind. The
\* header is on file as soon as the root moves; so is the first NTX page.
InstanceOf(f, t, table) ==
  [cache |-> f.tree[t].cache, root |-> f.tree[t].root, free |-> f.tree[t].free, cur |-> f.tree[t].cur,
   tail |-> f.tail, disk |-> f.disk, rows |-> table]
Instance(t) == InstanceOf(Files, t, rows)
Held(s) == [cache |-> s.cache, root |-> s.root, free |-> s.free, cur |-> s.cur]
OnFile(s) == [root |-> s.root, free |-> s.free]
Unread == [cache |-> <<>>, root |-> Nil, free |-> Nil,
           cur |-> CASE kind = "cdx" -> Cdx!NoCursor [] kind = "ntx" -> Ntx!NoCursor [] OTHER -> Adi!NoCursor]

NewFile == CASE kind = "cdx" -> Cdx!Created [] kind = "ntx" -> Ntx!Created [] OTHER -> Adi!Created

\* What tag t holds, in the order of its walk.
Walk(s) == CASE kind = "cdx" -> Cdx!Contents(s) [] kind = "ntx" -> Ntx!Contents(s) [] OTHER -> Adi!Contents(s)
Pairs(seq) == {[k |-> seq[i].k, r |-> seq[i].r] : i \in DOMAIN seq}
Entries == {[k |-> rows[r], r |-> r] : r \in DOMAIN rows}

Init ==
  /\ kind \in Drivers
  /\ rows = <<>>
  /\ disk = NewFile.disk
  /\ header \in {[t \in ts |-> OnFile(NewFile)] : ts \in IF kind = "cdx" THEN TagSets ELSE {{"only"}}}
  /\ tree = [t \in DOMAIN header |-> [Unread EXCEPT !.root = header[t].root]]
  /\ tail = NewFile.tail
  /\ at = [t \in Tags |-> Lost]
  /\ ans = Silent
  /\ wrote = FALSE
  /\ changes = 0

---------------------------------------------------------------------------
(* Writes *)

EraseEntry(s, k, r) ==
  CASE kind = "cdx" -> Cdx!Erase(s, k, r).s [] kind = "ntx" -> Ntx!Erase(s, k, r).s [] OTHER -> Adi!Erase(s, k, r).s
InsertEntry(s, k, r) ==
  CASE kind = "cdx" -> Cdx!Insert(s, k, r, FALSE) [] kind = "ntx" -> Ntx!Insert(s, k, r, FALSE)
    [] OTHER -> Adi!Insert(s, k, r)

Stored(f, t, s) ==
  LET moved == s.root # f.tree[t].root IN
  [tree |-> [f.tree EXCEPT ![t] = Held(s)], tail |-> s.tail,
   header |-> IF moved THEN [f.header EXCEPT ![t] = OnFile(s)] ELSE f.header,
   disk |-> IF moved /\ kind = "ntx" /\ f.tree[t].root = Nil THEN (s.root :> s.cache[s.root]) @@ s.disk ELSE s.disk]
\* Mutant: a page that is on file already is not written again.
MutantFlushed(f) ==
  [f EXCEPT !.disk = FoldSet(LAMBDA t, d : d @@ f.tree[t].cache, @, Tags),
            !.header = [t \in Tags |-> OnFile(f.tree[t])]]
Flushed(f) ==
  [f EXCEPT !.disk = FoldSet(LAMBDA t, d : f.tree[t].cache @@ d, @, Tags),
            !.header = [t \in Tags |-> OnFile(f.tree[t])]]
Becomes(f) == tree' = f.tree /\ tail' = f.tail /\ disk' = f.disk /\ header' = f.header

\* Tags are brought up to date one after the other; the row itself is on file
\* before.
Sync(r, old, new) ==
  LET table == (r :> new) @@ rows
  IN  FoldSet(LAMBDA t, f : Stored(f, t, InsertEntry(EraseEntry(InstanceOf(f, t, table), old, r), new, r).s),
              Files, Tags)

\* A new row of a NTX file splits a leaf, and the code loses a child of the leaf's
\* parent: a parent with room keeps its last child only when that one was split,
\* a full parent only when another one was.
LosesChild(k) ==
  LET s == Instance("only")
      stack == Ntx!SeekForWrite(s, k, TRUE).stack
      leaf == Ntx!View(s)[Last(stack).page]
      up == stack[Len(stack) - 1]
      parent == Ntx!View(s)[up.page]
  IN  /\ kind = "ntx" /\ s.root # Nil /\ Len(stack) > 1
      /\ leaf.n = MaxKeys
      /\ (parent.n = MaxKeys) = (up.idx = parent.n)

\* Careful clients keep keys apart, write an ADI or NTX row once, and stop where
\* a NTX page would lose a child.
Careful(r, k) ==
  /\ "duplicates" \notin Freedoms => \A q \in DOMAIN rows \ {r} : rows[q] # k
  /\ kind # "cdx" /\ "updates" \notin Freedoms => r \notin DOMAIN rows
  /\ "lost_child" \notin Freedoms => ~LosesChild(k)

WriteRow(r, k) ==
  LET old == IF r \in DOMAIN rows THEN rows[r] ELSE Blank
  IN  /\ r \in 1..Min({Len(rows) + 1, Rows[kind][Cardinality(Tags)]}) /\ old # k
      /\ changes < MaxChanges[kind][Cardinality(Tags)] /\ Careful(r, k)
      /\ rows' = (r :> k) @@ rows
      /\ Becomes(Sync(r, old, k))
      /\ at' = [t \in Tags |-> Lost]
      /\ ans' = Silent
      /\ wrote' = (kind # "adi")
      /\ changes' = changes + 1
      /\ UNCHANGED kind

---------------------------------------------------------------------------
(* Reads *)

Stood(res, miss) == IF res.ans.rec # 0 THEN [kind |-> "on", k |-> res.ans.key, r |-> res.ans.rec] ELSE miss
Read(t, res, where, asked) ==
  /\ tree' = [tree EXCEPT ![t] = Held(res.s)]
  /\ ans' = [hit |-> res.ans.hit, rec |-> res.ans.rec, key |-> res.ans.key, asked |-> asked]
  /\ at' = [at EXCEPT ![t] = where]
  /\ UNCHANGED <<kind, rows, tail, disk, header, wrote, changes>>

GoTop(t) ==
  LET s == Instance(t)
      res == CASE kind = "cdx" -> Cdx!SeekFirst(s) [] kind = "ntx" -> Ntx!SeekFirst(s) [] OTHER -> Adi!SeekFirst(s)
  IN  Read(t, res, Stood(res, Lost), Unasked)
GoBottom(t) ==
  LET s == Instance(t)
      res == CASE kind = "cdx" -> Cdx!SeekLast(s) [] kind = "ntx" -> Ntx!SeekLast(s) [] OTHER -> Adi!SeekLast(s)
  IN  Read(t, res, Stood(res, Lost), Unasked)

\* A search for a whole key, or in CDX for the first digits of one. Careful
\* clients of NTX make no soft search past the last key.
Seek(t, k, len, soft) ==
  LET s == Instance(t)
      res == CASE kind = "cdx" -> Cdx!SeekKey(s, k, len, soft) [] kind = "ntx" -> Ntx!SeekKey(s, k, soft)
               [] OTHER -> Adi!SeekKey(s, k, soft)
  IN  /\ kind # "cdx" => len = KeySize
      /\ kind = "ntx" /\ soft /\ "soft_past_end" \notin Freedoms => \E r \in DOMAIN rows : rows[r] >= k
      /\ Read(t, res, Stood(res, Lost), [k |-> k \div Base^(KeySize - len), w |-> Base^(KeySize - len), soft |-> soft])

Skip(t) ==
  LET s == Instance(t)
      res == CASE kind = "cdx" -> Cdx!NextEntry(s) [] kind = "ntx" -> Ntx!NextEntry(s) [] OTHER -> Adi!NextEntry(s)
  IN  Read(t, res, IF at[t] = Lost THEN Lost ELSE Stood(res, End), Unasked)
SkipBack(t) ==
  LET s == Instance(t)
      res == CASE kind = "cdx" -> Cdx!PrevEntry(s) [] kind = "ntx" -> Ntx!PrevEntry(s) [] OTHER -> Adi!PrevEntry(s)
  IN  Read(t, res, IF at[t] = Lost THEN Lost ELSE Stood(res, Begin), Unasked)

---------------------------------------------------------------------------
(* Files *)

\* Every page a handle of the table has cached is written, tag by tag.
Flush ==
  /\ wrote
  /\ Becomes(Flushed(Files))
  /\ wrote' = FALSE
  /\ ans' = Silent
  /\ UNCHANGED <<kind, rows, at, changes>>

\* Closing flushes; opening reads the header again.
Opened(h) == [t \in Tags |-> [Unread EXCEPT !.root = h[t].root, !.free = h[t].free]]
Reopen ==
  /\ Becomes([Flushed(Files) EXCEPT !.tree = Opened(Flushed(Files).header)])
  /\ at' = [t \in Tags |-> Lost]
  /\ wrote' = FALSE
  /\ ans' = Silent
  /\ UNCHANGED <<kind, rows, changes>>

Filled(f, ts) ==
  FoldLeft(LAMBDA g, r : FoldSet(LAMBDA t, h : Stored(h, t, InsertEntry(InstanceOf(h, t, rows), rows[r], r).s), g, ts),
           f, [i \in DOMAIN rows |-> i])

\* Creating a tag that exists opens it once more from the file and clears it: its
\* pages go to the free list, every row is inserted, the pages are written. The
\* new instance replaces the old one. Careful clients have flushed before. An ADI
\* tree of several pages cannot be cleared. (A NTX file is created anew.)
Recreate(t) ==
  LET s    == [InstanceOf(Files, t, rows) EXCEPT !.cache = <<>>, !.root = header[t].root, !.free = header[t].free]
      bare == IF kind = "cdx" THEN [Cdx!Cleared(s) EXCEPT !.disk = Cdx!FreeLinks(s) @@ disk] ELSE Adi!Clear(s).s
      open == Stored([Files EXCEPT !.header[t] = OnFile(bare)], t, bare)
  IN  /\ rows # <<>> /\ changes < MaxChanges[kind][Cardinality(Tags)]
      /\ ~wrote
      /\ kind # "ntx" /\ (kind = "adi" => Adi!Clear(s).ok)
      /\ Becomes(Flushed(Filled(open, {t})))
      /\ wrote' = FALSE
      /\ at' = [at EXCEPT ![t] = Lost]
      /\ ans' = Silent
      /\ changes' = changes + 1
      /\ UNCHANGED <<kind, rows>>

\* Reindexing walks each tag, erases what the walk found, and inserts every row.
\* Careful clients reindex CDX only.
Reindex ==
  LET erased(t, f) ==
        LET s == InstanceOf(f, t, rows)
        IN  Stored(f, t, FoldLeft(LAMBDA u, e : EraseEntry(u, e.k, e.r), s, Walk(s)))
  IN  /\ rows # <<>> /\ changes < MaxChanges[kind][Cardinality(Tags)]
      /\ kind # "cdx" => "reindex" \in Freedoms
      /\ Becomes(Flushed(Filled(FoldSet(erased, Files, Tags), Tags)))
      /\ wrote' = FALSE
      /\ at' = [t \in Tags |-> Lost]
      /\ ans' = Silent
      /\ changes' = changes + 1
      /\ UNCHANGED <<kind, rows>>

Next ==
  \/ \E r \in Recs, k \in KeysOf[kind][Cardinality(Tags)] : WriteRow(r, k)
  \/ \E t \in Searched : GoTop(t)
  \/ \E t \in Searched : GoBottom(t)
  \/ \E t \in Searched, k \in ProbesOf[kind], len \in 1..KeySize, soft \in BOOLEAN : Seek(t, k, len, soft)
  \/ \E t \in Searched : Skip(t)
  \/ \E t \in Searched : SkipBack(t)
  \/ Flush
  \/ Reopen
  \/ \E t \in Tags : Recreate(t)
  \/ Reindex

Spec == Init /\ [][Next]_vars

---------------------------------------------------------------------------
(* Properties *)

\* The pages a CDX tag has on its free list, in the list's order.
FreeList(t) ==
  LET s == Instance(t)
      list[p \in {Nil} \cup DOMAIN Cdx!View(s)] ==
        IF p = Nil \/ Cdx!View(s)[p].kind # "free" THEN {} ELSE {p} \cup list[Cdx!View(s)[p].next]
  IN  list[tree[t].free]
Owned(t) == Range(Cdx!TreePages(Instance(t))) \cup FreeList(t)

\* Types; no page belongs to two tags of a CDX file, or to a tree and a free
\* list, or lies behind the end the allocator knows (allocate_page_, free_tree_).
TypeOK ==
  /\ kind \in Drivers
  /\ Range(rows) \subseteq KeysOf[kind][Cardinality(Tags)] /\ DOMAIN rows \subseteq Recs
  /\ \A t \in Tags : tree[t].root \in Nat /\ DOMAIN tree[t].cache \subseteq 1..(tail - 1)
  /\ DOMAIN disk \subseteq 1..(tail - 1)
  /\ kind = "cdx" =>
       /\ \A t \in Tags : Range(Cdx!TreePages(Instance(t))) \cap FreeList(t) = {}
       /\ \A t, u \in Tags : t # u => Owned(t) \cap Owned(u) = {}

\* Each tag holds exactly one entry for each row, its walk is strictly ordered by
\* key and then record, its leaves are linked both ways, and a descent by the key
\* comes to the entry's page: what splits, promotions and relinking have to keep.
InOrder(seq) ==
  \A i, j \in DOMAIN seq : i < j => seq[i].k < seq[j].k \/ (seq[i].k = seq[j].k /\ seq[i].r < seq[j].r)
DescentFinds(s, e) ==
  CASE kind = "cdx" -> e \in Pairs(Cdx!View(s)[Last(Cdx!Path(s, e.k)).page].ents)
    [] kind = "ntx" -> LET f == Last(Ntx!SeekForWrite(s, e.k, FALSE).stack)
                       IN  Ntx!Entry(Ntx!View(s)[f.page], f.idx).k = e.k
    [] OTHER        -> e.r \in Range(Adi!View(s)[Last(Adi!Path(s, e.k)).page].recs)
LinkedBothWays(pages, chain) ==
  \A i \in DOMAIN chain : pages[chain[i]].left = IF i = 1 THEN Nil ELSE chain[i - 1]
EntriesInOrder ==
  \A t \in Tags :
    LET s == Instance(t)
        walk == Walk(s)
    IN
    /\ kind = "cdx" => LinkedBothWays(Cdx!View(s), Cdx!Chain(s))
    /\ kind = "adi" => LinkedBothWays(disk, Adi!Chain(s))
    /\ Pairs(walk) = Entries /\ InOrder(walk)
    /\ \A e \in Entries : DescentFinds(s, e)

\* Once written, the file alone holds every tag as it stands: root and free list
\* in the header belong to the pages on file (flush, rewrite_header_).
FileIsTree ==
  ~wrote => \A t \in Tags :
    LET s == [Instance(t) EXCEPT !.cache = <<>>, !.root = header[t].root, !.free = header[t].free]
        walk == Walk(s)
    IN  /\ header[t] = OnFile(tree[t])
        /\ \A p \in DOMAIN tree[t].cache : p \in DOMAIN disk /\ disk[p] = tree[t].cache[p]
        /\ Pairs(walk) = Entries /\ InOrder(walk)

\* The header names no page that is not on file: what another process that opens
\* the index relies on (rewrite_header_ writes the root before its page).
RootIsOnFile == \A t \in Tags : header[t].root \in {Nil} \cup DOMAIN disk

\* Every search and every move answers what a set of ordered pairs would.
AllTags == {"only"} \cup UNION TagSets
Abstract ==
  INSTANCE OrderedIndex WITH
    Tags <- AllTags,
    entries <- [t \in AllTags |-> Entries],
    at <- [t \in AllTags |-> IF t \in Tags THEN at[t] ELSE Lost],
    ans <- [rec |-> ans.rec, key |-> ans.key, asked |-> ans.asked],
    Answers <- [rec : {0} \cup Recs, key : {0} \cup Keys, asked : {Unasked}], Widths <- {Base^n : n \in 0..(KeySize - 1)}
ImplementsOrderedIndex == Abstract!Spec
=============================================================================
