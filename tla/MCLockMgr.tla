----------------------------- MODULE MCLockMgr ------------------------------
(* Instances of LockMgr: handles are interchangeable. *)
EXTENDS LockMgr, TLC

HandleSymmetry == Permutations(Handles)

=============================================================================
