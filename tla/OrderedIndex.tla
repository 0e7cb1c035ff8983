--------------------------- MODULE OrderedIndex ---------------------------
(* What a program that uses an index relies on: a set of (key, record) pairs *)
(* per tag, walked in order. A write or a miss forgets where a tag stands;   *)
(* from there a move may answer anything until the next search.              *)
EXTENDS Naturals

CONSTANTS Tags, Keys, Recs, Answers,
  Widths  \* a search for a key \div w looks at a key's first digits only
VARIABLES entries, at, ans
vars == <<entries, at, ans>>

Less(d, e) == d.k < e.k \/ (d.k = e.k /\ d.r < e.r)
Least(S) == CHOOSE e \in S : \A d \in S : d = e \/ Less(e, d)
Greatest(S) == CHOOSE e \in S : \A d \in S : d = e \/ Less(d, e)

Lost == [kind |-> "lost"]
End == [kind |-> "end"]
Begin == [kind |-> "begin"]
On(e) == [kind |-> "on", k |-> e.k, r |-> e.r]
Here(t) == [k |-> at[t].k, r |-> at[t].r]
Unasked == [k |-> 0, w |-> 0, soft |-> FALSE]
Nothing == [rec |-> 0, key |-> 0, asked |-> Unasked]
Tells(e) == [rec |-> e.r, key |-> e.k, asked |-> Unasked]

Init == entries = [t \in Tags |-> {}] /\ at = [t \in Tags |-> Lost] /\ ans = Nothing

Rewritten(old, new) ==
  \E r \in Recs, k \in Keys : new = [t \in Tags |-> {e \in old[t] : e.r # r} \cup {[k |-> k, r |-> r]}]
Write ==
  /\ ans' = Nothing
  /\ at' = [t \in Tags |-> Lost]
  /\ Rewritten(entries, entries')

\* A search answers the least pair asked for, or nothing.
Found(t, S, pick(_), miss) ==
  IF S = {} THEN ans' = Nothing /\ at' = [at EXCEPT ![t] = miss]
  ELSE ans' = Tells(pick(S)) /\ at' = [at EXCEPT ![t] = On(pick(S))]
Plain == ans'.asked = Unasked
First(t) == Plain /\ Found(t, entries[t], Least, Lost) /\ UNCHANGED entries
Final(t) == Plain /\ Found(t, entries[t], Greatest, Lost) /\ UNCHANGED entries
Asked(t, S, asked) ==
  LET e == Least(S) IN
  /\ ans' = [IF S = {} THEN Nothing ELSE Tells(e) EXCEPT !.asked = asked]
  /\ at' = [at EXCEPT ![t] = IF S = {} THEN Lost ELSE On(e)]
Search(t) ==
  \E k \in Keys, w \in Widths, soft \in BOOLEAN :
    /\ ans'.asked = [k |-> k \div w, w |-> w, soft |-> soft]
    /\ Asked(t, {e \in entries[t] : e.k \div w = k \div w \/ (soft /\ e.k \div w > k \div w)}, ans'.asked)
    /\ UNCHANGED entries

\* A move answers the neighbour of the pair the tag stands on. From an end it
\* stays there or comes back to the nearest pair.
Forward(t) ==
  /\ Plain
  /\ CASE at[t].kind = "on"    -> Found(t, {e \in entries[t] : Less(Here(t), e)}, Least, End)
       [] at[t].kind = "end"   -> Found(t, {}, Least, End)
       [] at[t].kind = "begin" -> Found(t, {}, Least, End) \/ Found(t, entries[t], Least, End)
       [] OTHER                -> ans' \in Answers /\ UNCHANGED at
  /\ UNCHANGED entries
Backward(t) ==
  /\ Plain
  /\ CASE at[t].kind = "on"    -> Found(t, {e \in entries[t] : Less(e, Here(t))}, Greatest, Begin)
       [] at[t].kind = "begin" -> Found(t, {}, Greatest, Begin)
       [] at[t].kind = "end"   -> Found(t, {}, Greatest, Begin) \/ Found(t, entries[t], Greatest, Begin)
       [] OTHER                -> ans' \in Answers /\ UNCHANGED at
  /\ UNCHANGED entries

\* Closing, opening and rebuilding keep the pairs.
Renew ==
  /\ ans' = Nothing
  /\ DOMAIN at' = Tags /\ \A t \in Tags : at'[t] \in {at[t], Lost}
  /\ UNCHANGED entries

Next == Renew \/ Write \/ \E t \in Tags : First(t) \/ Final(t) \/ Search(t) \/ Forward(t) \/ Backward(t)
Spec == Init /\ [][Next]_vars
=============================================================================
