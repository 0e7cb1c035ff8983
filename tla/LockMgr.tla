------------------------------ MODULE LockMgr -------------------------------
(***************************************************************************)
(* Record and file locks of one table file (engine/lock_mgr.cpp,           *)
(* engine/table.cpp, the lock calls of abi/ace_exports.cpp), as several    *)
(* handles on the file take them.                                          *)
(*                                                                         *)
(* Three layers have to agree.  The kernel holds byte-range locks per open *)
(* file.  Each handle's LockMgr counts acquisitions per byte offset        *)
(* (held_); the offsets of different locks differ, so the count is kept    *)
(* per lock here.  The Table keeps one LockHandle per lock (recno_locks_,  *)
(* table_lock_), which is "real" when it releases the kernel lock and      *)
(* "phantom" when it stands for nothing.  The client knows what its calls  *)
(* returned (owned).                                                       *)
(*                                                                         *)
(* Appending a record locks it (AdsAppendRecord), and the rollback of a    *)
(* transaction takes the records it appended off the end of a CDX table    *)
(* again, so the number of records is part of the state.  A granted record *)
(* is loaded, and whether that succeeds depends on the number of records   *)
(* the handle's driver knows, which other handles' appends do not change.  *)
(***************************************************************************)
EXTENDS LockRanges

CONSTANTS
    Handles,      \* open handles on the table file
    Type,         \* the table type, which decides the byte ranges
    OffsetLimit,  \* the last byte the platform's lock call accepts
    InitCount,    \* records in the file at the start
    Relock,       \* TRUE when clients may lock what they already own
    Strays,       \* TRUE when clients may lock past the end of the file
    Unseen,       \* TRUE when clients may lock records of an ADT table that
                  \* other handles appended since theirs last looked
    Rollbacks,    \* TRUE when clients append in transactions
    RetryCount,   \* LockPolicy::retry_count
    MaxHeld       \* bound: acquisitions counted per lock

TheFile == 0
Idle == -1
Locks == {TheFile} \cup Recno

\* Table::open has no driver for VFP tables.
OpenTypes == {"Ntx", "Cdx", "Adt"}

ASSUME LockMgrAssumption ==
    /\ Type \in OpenTypes
    /\ OffsetLimit \in Nat
    /\ InitCount \in 0..MaxRecno
    /\ {Relock, Strays, Unseen, Rollbacks} \subseteq BOOLEAN
    /\ RetryCount \in Nat /\ MaxHeld \in Nat

VARIABLES
    os,      \* [Handles -> SUBSET Locks]: locks the kernel granted to the file
    held,    \* [Handles -> [Locks -> Nat]]: LockMgr::held_, 0 without an entry
    slot,    \* [Handles -> [Locks -> {"none", "real", "phantom"}]]
    wait,    \* [Handles -> the lock a call is after, or Idle]
    tries,   \* [Handles -> attempts of that call]
    owned,   \* [Handles -> SUBSET Locks]: what the client was told it has
    count,   \* the number of records
    seen,    \* [Handles -> the number of records its driver knows, rec_count_]
    fresh    \* [Handles -> SUBSET Recno]: appended in its running transaction

table == <<count, seen, fresh>>
vars == <<os, held, slot, wait, tries, owned, table>>

RangeOf(l) == IF l = TheFile THEN FileLock(Type) ELSE RecordLock(Type, l)

-----------------------------------------------------------------------------
(* The kernel: exclusive, non-blocking byte-range locks per open file *)

Lockable(l) == RangeOf(l).hi <= OffsetLimit

Grantable(h, l) ==
    \A g \in Handles \ {h} : \A m \in os[g] : ~Overlap(RangeOf(l), RangeOf(m))

\* Unlocking a range drops every byte of it that this file holds.
Unlocked(locks, l) == {m \in locks : ~Overlap(RangeOf(l), RangeOf(m))}

-----------------------------------------------------------------------------
Init ==
    /\ os = [h \in Handles |-> {}]
    /\ held = [h \in Handles |-> [l \in Locks |-> 0]]
    /\ slot = [h \in Handles |-> [l \in Locks |-> "none"]]
    /\ wait = [h \in Handles |-> Idle]
    /\ tries = [h \in Handles |-> 0]
    /\ owned = [h \in Handles |-> {}]
    /\ count = InitCount
    /\ seen = [h \in Handles |-> InitCount]
    /\ fresh = [h \in Handles |-> {}]

\* AdsLockRecord, AdsLockTable
LockCall(h, l) ==
    /\ wait[h] = Idle
    /\ held[h][l] < MaxHeld
    /\ Relock \/ l \notin owned[h]
    /\ Strays \/ l <= count
    /\ Unseen \/ Type # "Adt" \/ l <= seen[h]
    /\ wait' = [wait EXCEPT ![h] = l]
    /\ tries' = [tries EXCEPT ![h] = 0]
    /\ UNCHANGED <<os, held, slot, owned, table>>

Return(h) == wait' = [wait EXCEPT ![h] = Idle]

Succeed(h, l) ==
    /\ Return(h)
    /\ owned' = [owned EXCEPT ![h] = @ \cup {l}]
    /\ UNCHANGED tries

\* Mutant: the attempts are not counted.
RetryForEver(h) == UNCHANGED <<wait, tries, owned>>

\* Mutant: one attempt too many.
RetryOnceMore(h) ==
    /\ IF tries[h] <= RetryCount
       THEN tries' = [tries EXCEPT ![h] = @ + 1] /\ UNCHANGED wait
       ELSE Return(h) /\ UNCHANGED tries
    /\ UNCHANGED owned

\* lock_with_retry after a failed attempt
Retry(h) ==
    /\ IF tries[h] < RetryCount
       THEN tries' = [tries EXCEPT ![h] = @ + 1] /\ UNCHANGED wait
       ELSE Return(h) /\ UNCHANGED tries
    /\ UNCHANGED owned

\* read_record_raw: past the number of records it knows, a DBF driver reads the
\* number in the file again; an ADT driver does not.
LooksAgain(h, l) == Type # "Adt" /\ l > seen[h]
Loads(h, l) == l <= seen[h] \/ (LooksAgain(h, l) /\ l <= count)

\* The record is loaded once its lock is held; when that fails the call is
\* tried again, lock and all.
Finish(h, l) ==
    /\ IF Loads(h, l) THEN Succeed(h, l) ELSE Retry(h)
    /\ seen' = IF LooksAgain(h, l) THEN [seen EXCEPT ![h] = count] ELSE seen
    /\ UNCHANGED <<count, fresh>>

\* try_lock_record_excl and try_lock_table_excl on a lock without a count: the
\* kernel lock is taken and its LockHandle is kept.
TakeFresh(h, l) ==
    /\ os' = [os EXCEPT ![h] = @ \cup {l}]
    /\ held' = [held EXCEPT ![h][l] = 1]
    /\ slot' = [slot EXCEPT ![h][l] = "real"]

\* Mutant: the LockHandle that is replaced leaks its kernel lock.
TakeLeaking(h, l) ==
    /\ held' = [held EXCEPT ![h][l] = @ + 1]
    /\ slot' = [slot EXCEPT ![h][l] = IF l = TheFile \/ @ = "none" THEN "phantom" ELSE @]
    /\ UNCHANGED os

\* On a lock with a count: the acquisition is counted and gets an empty
\* LockHandle.  For a record emplace keeps a handle that is there; for the
\* file the assignment replaces it, which releases the kernel lock.
TakeCounted(h, l) ==
    /\ held' = [held EXCEPT ![h][l] = @ + 1]
    /\ slot' = [slot EXCEPT ![h][l] = IF l = TheFile \/ @ = "none" THEN "phantom" ELSE @]
    /\ os' = IF l = TheFile /\ slot[h][l] = "real"
             THEN [os EXCEPT ![h] = Unlocked(@, l)] ELSE os

\* Mutant: the kernel's refusal is ignored.
GrantedAlways(h, l) == held[h][l] = 0 /\ Lockable(l)

Granted(h, l) == held[h][l] = 0 /\ Lockable(l) /\ Grantable(h, l)

\* The attempts of lock_with_retry
AcquireFresh(h) ==
    LET l == wait[h]
    IN  /\ l # Idle /\ Granted(h, l)
        /\ TakeFresh(h, l)
        /\ Finish(h, l)

AcquireCounted(h) ==
    LET l == wait[h]
    IN  /\ l # Idle /\ held[h][l] > 0
        /\ TakeCounted(h, l)
        /\ Finish(h, l)

\* The kernel refuses.
AcquireRefused(h) ==
    LET l == wait[h]
    IN  /\ l # Idle /\ held[h][l] = 0 /\ ~Granted(h, l)
        /\ Retry(h)
        /\ UNCHANGED <<os, held, slot, table>>

\* Mutant: the unlock keeps the count, as before unlock_record existed.
UnlockCallCounting(h, l) ==
    /\ wait[h] = Idle
    /\ slot[h][l] # "none"
    /\ os' = IF slot[h][l] = "real" THEN [os EXCEPT ![h] = Unlocked(@, l)] ELSE os
    /\ slot' = [slot EXCEPT ![h][l] = "none"]
    /\ owned' = [owned EXCEPT ![h] = @ \ {l}]
    /\ UNCHANGED <<held, wait, tries, table>>

\* AdsUnlockRecord, AdsUnlockTable: nothing happens without a LockHandle.
UnlockCall(h, l) ==
    /\ wait[h] = Idle
    /\ slot[h][l] # "none"
    /\ os' = IF slot[h][l] = "real" THEN [os EXCEPT ![h] = Unlocked(@, l)] ELSE os
    /\ slot' = [slot EXCEPT ![h][l] = "none"]
    /\ held' = [held EXCEPT ![h][l] = @ - 1]
    /\ owned' = [owned EXCEPT ![h] = @ \ {l}]
    /\ UNCHANGED <<wait, tries, table>>

\* The Table goes, its LockMgr and its LockHandles with it; the handle stands
\* for the next open of the file, which reads the number of records.
CloseTable(h) ==
    /\ wait[h] = Idle
    /\ os' = [os EXCEPT ![h] = {}]
    /\ held' = [held EXCEPT ![h] = [l \in Locks |-> 0]]
    /\ slot' = [slot EXCEPT ![h] = [l \in Locks |-> "none"]]
    /\ owned' = [owned EXCEPT ![h] = {}]
    /\ seen' = [seen EXCEPT ![h] = count]
    /\ fresh' = [fresh EXCEPT ![h] = {}]
    /\ UNCHANGED <<wait, tries, count>>

\* An index leads a DBF driver to a record another handle appended.
ReadOn(h) ==
    /\ wait[h] = Idle /\ LooksAgain(h, count)
    /\ seen' = [seen EXCEPT ![h] = count]
    /\ UNCHANGED <<os, held, slot, wait, tries, owned, count, fresh>>

\* AdsAppendRecord: the new record is locked with one attempt, whose failure
\* is ignored.
AppendCall(h) ==
    LET l == count + 1
    IN  /\ wait[h] = Idle /\ l <= MaxRecno /\ held[h][l] < MaxHeld
        /\ count' = l
        /\ seen' = [seen EXCEPT ![h] = l]
        /\ \/ UNCHANGED fresh
           \/ Rollbacks /\ fresh' = [fresh EXCEPT ![h] = @ \cup {l}]
        /\ \/ Granted(h, l) /\ TakeFresh(h, l)
           \/ held[h][l] > 0 /\ TakeCounted(h, l)
           \/ held[h][l] = 0 /\ ~Granted(h, l) /\ UNCHANGED <<os, held, slot>>
        /\ owned' = IF held[h][l] > 0 \/ Granted(h, l)
                    THEN [owned EXCEPT ![h] = @ \cup {l}] ELSE owned
        /\ UNCHANGED <<wait, tries>>

CommitCall(h) ==
    /\ wait[h] = Idle /\ fresh[h] # {}
    /\ fresh' = [fresh EXCEPT ![h] = {}]
    /\ UNCHANGED <<os, held, slot, wait, tries, owned, count, seen>>

\* truncate_trailing takes the records of a transaction off the end of the
\* file as far as they are the last ones.  Only the CDX driver has it.
Popped(h) ==
    /\ count' = CHOOSE c \in 0..count :
                   /\ (c + 1)..count \subseteq fresh[h]
                   /\ c \notin fresh[h]
    /\ seen' = [seen EXCEPT ![h] = count']

\* AdsRollbackTransaction: records that are not taken off are marked deleted;
\* locks are not its business.
RollbackCall(h) ==
    /\ wait[h] = Idle /\ fresh[h] # {}
    /\ IF Type = "Cdx" THEN Popped(h) ELSE UNCHANGED <<count, seen>>
    /\ fresh' = [fresh EXCEPT ![h] = {}]
    /\ UNCHANGED <<os, held, slot, wait, tries, owned>>

Attempt(h) == AcquireFresh(h) \/ AcquireCounted(h) \/ AcquireRefused(h)

Next ==
    \E h \in Handles :
        \/ Attempt(h) \/ CloseTable(h) \/ ReadOn(h)
        \/ AppendCall(h) \/ CommitCall(h) \/ RollbackCall(h)
        \/ \E l \in Locks : LockCall(h, l) \/ UnlockCall(h, l)

Spec == Init /\ [][Next]_vars

\* A call that sleeps between attempts wakes up.
FairSpec == Spec /\ \A h \in Handles : WF_vars(Attempt(h))

-----------------------------------------------------------------------------
(* Properties *)

\* The state's shape; a call never makes more than 1 + RetryCount attempts
\* (ace_exports.cpp:6133-6143).
TypeOK ==
    /\ os \in [Handles -> SUBSET Locks]
    /\ held \in [Handles -> [Locks -> Nat]]
    /\ slot \in [Handles -> [Locks -> {"none", "real", "phantom"}]]
    /\ wait \in [Handles -> Locks \cup {Idle}]
    /\ tries \in [Handles -> 0..RetryCount]
    /\ owned \in [Handles -> SUBSET Locks]
    /\ count \in 0..MaxRecno
    /\ seen \in [Handles -> 0..MaxRecno]
    /\ fresh \in [Handles -> SUBSET (1..count)]

\* The LockHandles stand for what the kernel granted, through retries, counted
\* acquisitions and handles that were replaced (table.cpp:1123-1183).
KernelAgrees == \A h \in Handles : os[h] = {l \in Locks : slot[h][l] = "real"}

\* A lock has one owner at a time.
Exclusive == \A h, g \in Handles : h # g => owned[h] \cap owned[g] = {}

\* An unlock leaves no count behind, so that the next acquisition of the lock
\* goes to the kernel again (lock_mgr.h:66-70).
UnlockForgets ==
    \A h \in Handles : \A l \in Locks : slot[h][l] = "none" => held[h][l] = 0

\* The file lock excludes every lock of another handle.
FileLockExcludes ==
    \A h, g \in Handles : h # g /\ TheFile \in owned[h] => owned[g] = {}

\* A lock call is tried again only while another handle holds the lock.
RetryOnlyContended ==
    [][\A h \in Handles : tries'[h] > tries[h] => ~Grantable(h, wait[h])]_vars

\* Every lock call returns, with the lock or without it.
LockReturns == \A h \in Handles : wait[h] # Idle ~> wait[h] = Idle

\* The lock calls implement the lock service.
Service == INSTANCE LockService
ImplementsService == Service!Spec

=============================================================================
