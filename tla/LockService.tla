---------------------------- MODULE LockService -----------------------------
(***************************************************************************)
(* What the lock calls of the API promise to their clients: a lock has at  *)
(* most one owner, from the successful return of AdsLockRecord or          *)
(* AdsLockTable to the unlock or the close of the table.  How the server   *)
(* gets there (retries, reference counts, byte ranges) does not show.      *)
(***************************************************************************)
CONSTANTS Handles, Locks

VARIABLE owned    \* [Handles -> SUBSET Locks]

Init == owned = [h \in Handles |-> {}]

Acquire(h, l) ==
    /\ \A g \in Handles \ {h} : l \notin owned[g]
    /\ owned' = [owned EXCEPT ![h] = @ \cup {l}]

Release(h, l) == owned' = [owned EXCEPT ![h] = @ \ {l}]

ReleaseAll(h) == owned' = [owned EXCEPT ![h] = {}]

Next ==
    \E h \in Handles :
        ReleaseAll(h) \/ \E l \in Locks : Acquire(h, l) \/ Release(h, l)

Spec == Init /\ [][Next]_owned

=============================================================================
