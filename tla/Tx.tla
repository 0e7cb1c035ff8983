--------------------------------- MODULE Tx ---------------------------------
(***************************************************************************)
(* The in-memory transaction object of engine/tx.h and engine/tx.cpp.      *)
(*                                                                         *)
(* A transaction keeps two records of what it did.  `before' and           *)
(* `appended' are keyed by (table handle, recno) and drive the full        *)
(* rollback; `ops' lists every mutation in order and, together with the    *)
(* savepoint marks, drives the partial one.  The module holds the          *)
(* operations as operators over one record, so that the modules that model *)
(* the connection decide when each of them happens.                        *)
(***************************************************************************)
EXTENDS Naturals, Sequences

\* The image stored with an append: Tx::note_append pushes an empty vector.
NoImage == <<>>

IdleTx ==
    [active |-> FALSE, before |-> {}, appended |-> {}, ops |-> <<>>, saves |-> <<>>]

\* Mutant: the transaction is not marked active.
ActivateSilently(tx) == [tx EXCEPT !.before = {}, !.appended = {}]

\* activate() resets the keyed maps only; ops and savepoints were emptied by
\* the clear() that ended the previous transaction.
Activate(tx) ==
    [tx EXCEPT !.active = TRUE, !.before = {}, !.appended = {}]

Touched(tx, key) ==
    key \in tx.appended \/ \E b \in tx.before : b.key = key

\* Mutant: the image of the latest write replaces the first one.
NoteLatestImage(tx, key, image) ==
    [tx EXCEPT
        !.before = {b \in @ : b.key # key} \cup {[key |-> key, image |-> image]},
        !.ops    = Append(@, [key |-> key, isAppend |-> FALSE, image |-> image])]

\* Only the first image of a row that this transaction did not append is
\* kept for the full rollback; every image goes to the ordered list.
NoteBeforeImage(tx, key, image) ==
    [tx EXCEPT
        !.before = IF Touched(tx, key) THEN @ ELSE @ \cup {[key |-> key, image |-> image]},
        !.ops    = Append(@, [key |-> key, isAppend |-> FALSE, image |-> image])]

\* Mutants: the append is left out of one of the two records.
NoteAppendUnordered(tx, key) == [tx EXCEPT !.appended = @ \cup {key}]

NoteAppendUnkeyed(tx, key) ==
    [tx EXCEPT !.ops = Append(@, [key |-> key, isAppend |-> TRUE, image |-> NoImage])]

NoteAppend(tx, key) ==
    [tx EXCEPT
        !.appended = @ \cup {key},
        !.ops      = Append(@, [key |-> key, isAppend |-> TRUE, image |-> NoImage])]

CreateSavepoint(tx, name) ==
    [tx EXCEPT !.saves = Append(@, [name |-> name, idx |-> Len(tx.ops)])]

\* Positions of the marks called `name'; the search from the back finds the
\* largest one.
MarksNamed(tx, name) ==
    {i \in 1..Len(tx.saves) : tx.saves[i].name = name}

LatestMark(tx, name) ==
    CHOOSE i \in MarksNamed(tx, name) : \A j \in MarksNamed(tx, name) : j <= i

\* How many marks survive a truncation to `idx': trailing marks beyond idx
\* are popped one by one until one within it is met.
MarksKept(tx, idx) ==
    CHOOSE n \in 0..Len(tx.saves) :
        /\ n > 0 => tx.saves[n].idx <= idx
        /\ \A i \in (n + 1)..Len(tx.saves) : tx.saves[i].idx > idx

\* Mutant: the marks beyond the cut stay.
TruncateOpsOnly(tx, idx) ==
    [tx EXCEPT !.ops = IF idx < Len(@) THEN SubSeq(@, 1, idx) ELSE @]

TruncateOpsTo(tx, idx) ==
    [tx EXCEPT
        !.ops   = IF idx < Len(@) THEN SubSeq(@, 1, idx) ELSE @,
        !.saves = SubSeq(@, 1, MarksKept(tx, idx))]

\* Drop the latest mark called `name'; the operations stay.
ReleaseSavepoint(tx, name) ==
    LET at == LatestMark(tx, name)
    IN  [tx EXCEPT !.saves = SubSeq(@, 1, at - 1) \o SubSeq(@, at + 1, Len(@))]

=============================================================================
