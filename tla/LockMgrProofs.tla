--------------------------- MODULE LockMgrProofs ----------------------------
(***************************************************************************)
(* What LockMgr guarantees to clients that keep its rules: they do not     *)
(* lock what they own; they lock records that exist, and those of an ADT   *)
(* table only once their own handle's driver has seen them; and they do    *)
(* not roll back appends to a CDX table.  Under these assumptions the      *)
(* counts are 0 or 1, no LockHandle is a phantom, and the kernel's byte    *)
(* ranges carry the exclusion up to the client.                            *)
(***************************************************************************)
EXTENDS LockMgr, TLAPS

(* The byte ranges *)

\* Two locks of one table share no byte, nor a lock and the header (lock_mgr.cpp,
\* cdx_driver.cpp): whatever the bases, as long as the record numbers respect the
\* bound.
THEOREM RangesDisjoint ==
    \A t \in TableTypeForLock : \A r, s \in Recno : Disjoint(t, r, s)
<1> SUFFICES ASSUME NEW t \in TableTypeForLock, NEW r \in Recno, NEW s \in Recno
             PROVE  Disjoint(t, r, s)
    OBVIOUS
<1> USE LockRangesAssumption
    DEF Disjoint, Overlap, RecordLock, FileLock, HeaderLock, Bytes,
        RecordLockOffset, FileLockOffset, HeaderLen, Recno
<1>1. CASE t = "Ntx"
    BY <1>1
<1>2. CASE t = "Cdx"
    BY <1>2
<1>3. CASE t = "Vfp"
    BY <1>3
<1>4. CASE t = "Adt"
    BY <1>4
<1> QED
    BY <1>1, <1>2, <1>3, <1>4 DEF TableTypeForLock

(* The layers of a lock *)

\* The rules the clients keep.  The last two are about what one driver does:
\* ADT never looks again at the number of records, CDX takes records away.
Discipline ==
    /\ Relock = FALSE /\ Strays = FALSE
    /\ Type = "Adt" => Unseen = FALSE
    /\ Type = "Cdx" => Rollbacks = FALSE

\* The three layers agree: a client owns a lock exactly when its LockHandle is
\* real, its count is one and the kernel granted it.
LayersAgree ==
    \A h \in Handles : \A l \in Locks :
        /\ slot[h][l] # "phantom"
        /\ held[h][l] = IF slot[h][l] = "real" THEN 1 ELSE 0
        /\ slot[h][l] = "real" <=> l \in os[h]
        /\ slot[h][l] = "real" <=> l \in owned[h]

\* A call in progress is after a lock its handle does not have.
WaitsForNew == \A h \in Handles : wait[h] # Idle => slot[h][wait[h]] = "none"

\* The kernel never grants a lock twice.
KernelExclusive ==
    \A h, g \in Handles : \A l \in Locks : l \in os[h] /\ l \in os[g] => h = g

\* Locks are for records in the file, so that an appended record is unlocked.
LocksExist ==
    \A h \in Handles :
        /\ wait[h] # Idle => wait[h] <= count
        /\ \A l \in Locks : slot[h][l] # "none" => l <= count

\* No transaction is there to take a record of a CDX table back.
NothingFresh == Type = "Cdx" => \A h \in Handles : fresh[h] = {}

\* An ADT handle waits for records its driver has seen, so that they load.
WaitsForSeen ==
    Type = "Adt" => \A h \in Handles : wait[h] # Idle => wait[h] <= seen[h]

IInv ==
    /\ TypeOK
    /\ LayersAgree
    /\ WaitsForNew
    /\ KernelExclusive
    /\ LocksExist
    /\ NothingFresh
    /\ WaitsForSeen

-----------------------------------------------------------------------------
\* Byte ranges of two locks of the table meet only when the locks are the same.
LEMMA OverlapIsSame ==
    \A l, m \in Locks : Overlap(RangeOf(l), RangeOf(m)) <=> l = m
<1> SUFFICES ASSUME NEW l \in Locks, NEW m \in Locks
             PROVE  Overlap(RangeOf(l), RangeOf(m)) <=> l = m
    OBVIOUS
<1> USE LockMgrAssumption, LockRangesAssumption
<1>1. CASE l = m
  <2>1. RangeOf(l).lo <= RangeOf(l).hi
    BY DEF RangeOf, FileLock, RecordLock, Bytes, RecordLockOffset, FileLockOffset,
           Locks, TheFile, Recno, OpenTypes, HeaderLen
  <2> QED
    BY <1>1, <2>1 DEF Overlap
<1>2. CASE l # m
  <2>1. CASE l \in Recno /\ m \in Recno
    <3>1. Disjoint(Type, l, m)
      BY <2>1, RangesDisjoint DEF OpenTypes, TableTypeForLock
    <3> QED
      BY <1>2, <2>1, <3>1 DEF Disjoint, RangeOf, Recno, TheFile
  <2>2. CASE l = TheFile /\ m \in Recno
    <3>1. Disjoint(Type, m, m)
      BY <2>2, RangesDisjoint DEF OpenTypes, TableTypeForLock
    <3> QED
      BY <1>2, <2>2, <3>1 DEF Disjoint, RangeOf, Recno, TheFile
  <2>3. CASE l \in Recno /\ m = TheFile
    <3>1. Disjoint(Type, l, l)
      BY <2>3, RangesDisjoint DEF OpenTypes, TableTypeForLock
    <3>2. ~Overlap(RangeOf(m), RangeOf(l))
      BY <2>3, <3>1 DEF Disjoint, RangeOf, Recno, TheFile
    <3> QED
      BY <1>2, <3>2 DEF Overlap
  <2> QED
    BY <1>2, <2>1, <2>2, <2>3 DEF Locks
<1> QED
    BY <1>1, <1>2

\* So the kernel grants a lock unless another file has that very lock, and
\* unlocking it drops nothing else.
LEMMA KernelPerLock ==
    ASSUME TypeOK, NEW h \in Handles, NEW l \in Locks
    PROVE  /\ Grantable(h, l) <=> \A g \in Handles \ {h} : l \notin os[g]
           /\ Unlocked(os[h], l) = os[h] \ {l}
<1>1. \A g \in Handles : os[g] \subseteq Locks
    BY DEF TypeOK
<1> QED
    BY <1>1, OverlapIsSame DEF Grantable, Unlocked

-----------------------------------------------------------------------------
\* No lock is held at the start.
LEMMA InitIInv == Init => IInv
<1> SUFFICES ASSUME Init PROVE IInv
    OBVIOUS
<1>1. TypeOK
    BY LockMgrAssumption, LockRangesAssumption DEF Init, TypeOK, Idle
<1>2. LayersAgree /\ WaitsForNew /\ KernelExclusive /\ LocksExist
    BY DEF Init, LayersAgree, WaitsForNew, KernelExclusive, LocksExist
<1>3. NothingFresh /\ WaitsForSeen
    BY DEF Init, NothingFresh, WaitsForSeen
<1> QED
    BY <1>1, <1>2, <1>3 DEF IInv

\* An attempt never meets a count, so the empty LockHandle never comes up.
LEMMA NeverCounted ==
    ASSUME IInv, NEW h \in Handles
    PROVE  ~AcquireCounted(h)
<1> SUFFICES ASSUME AcquireCounted(h) PROVE FALSE
    OBVIOUS
<1>1. wait[h] \in Locks
    BY DEF IInv, TypeOK, AcquireCounted
<1>2. held[h][wait[h]] = 0
    BY <1>1 DEF IInv, LayersAgree, WaitsForNew, AcquireCounted
<1> QED
    BY <1>1, <1>2 DEF AcquireCounted

\* The record a call waits for loads, so that the first granted attempt is the
\* last.
LEMMA AlwaysLoads ==
    ASSUME IInv, NEW h \in Handles, AcquireFresh(h)
    PROVE  /\ Succeed(h, wait[h])
           /\ UNCHANGED <<count, fresh>>
           /\ seen' \in [Handles -> 0..MaxRecno]
           /\ Type = "Adt" => seen' = seen
<1>1. /\ wait[h] \in Locks /\ wait[h] <= count /\ count \in 0..MaxRecno
      /\ Type = "Adt" => wait[h] <= seen[h]
      /\ seen \in [Handles -> 0..MaxRecno]
    BY DEF AcquireFresh, IInv, TypeOK, LocksExist, WaitsForSeen
<1>2. wait[h] \in Int /\ seen[h] \in Int
    BY <1>1, LockRangesAssumption DEF Locks, Recno, TheFile
<1>3. Loads(h, wait[h])
    BY <1>1, <1>2 DEF Loads, LooksAgain
<1>4. /\ Succeed(h, wait[h]) /\ UNCHANGED <<count, fresh>>
      /\ seen' = IF LooksAgain(h, wait[h]) THEN [seen EXCEPT ![h] = count] ELSE seen
    BY <1>3 DEF AcquireFresh, Finish
<1> QED
    BY <1>1, <1>4 DEF LooksAgain

\* The end of a transaction leaves the records where they are: only CDX tables
\* lose any, and nobody appended to one in a transaction.
LEMMA EndKeepsRecords ==
    ASSUME IInv, NEW h \in Handles, CommitCall(h) \/ RollbackCall(h)
    PROVE  /\ UNCHANGED <<os, held, slot, wait, tries, owned, count, seen>>
           /\ fresh' = [fresh EXCEPT ![h] = {}]
<1>1. Type # "Cdx"
    BY DEF IInv, NothingFresh, CommitCall, RollbackCall
<1> QED
    BY <1>1 DEF CommitCall, RollbackCall

\* The record that an append locks is one nobody waits for or has.
LEMMA NewRecordUnlocked ==
    ASSUME IInv, count + 1 <= MaxRecno
    PROVE  /\ count + 1 \in Recno
           /\ \A h \in Handles : slot[h][count + 1] = "none" /\ held[h][count + 1] = 0
           /\ \A h \in Handles : count + 1 \notin os[h]
<1>1. count \in Nat /\ count + 1 \in Locks /\ count + 1 \in Recno
    BY LockRangesAssumption DEF IInv, TypeOK, Locks, Recno
<1>2. \A h \in Handles : slot[h][count + 1] = "none"
    BY <1>1 DEF IInv, LocksExist
<1> QED
    BY <1>1, <1>2 DEF IInv, LayersAgree

\* Taking a lock that no layer of any handle has, for the client that gets it,
\* keeps the layers together.
LEMMA TakeKeeps ==
    ASSUME IInv, NEW h \in Handles, NEW l \in Locks,
           slot[h][l] = "none", Granted(h, l), TakeFresh(h, l),
           owned' = [owned EXCEPT ![h] = @ \cup {l}]
    PROVE  /\ os' \in [Handles -> SUBSET Locks]
           /\ held' \in [Handles -> [Locks -> Nat]]
           /\ slot' \in [Handles -> [Locks -> {"none", "real", "phantom"}]]
           /\ owned' \in [Handles -> SUBSET Locks]
           /\ LayersAgree' /\ KernelExclusive'
<1>1. /\ os' = [os EXCEPT ![h] = @ \cup {l}]
      /\ held' = [held EXCEPT ![h][l] = 1]
      /\ slot' = [slot EXCEPT ![h][l] = "real"]
    BY DEF TakeFresh
<1>2. \A g \in Handles \ {h} : l \notin os[g]
    BY KernelPerLock DEF IInv, Granted
<1>3. /\ os' \in [Handles -> SUBSET Locks]
      /\ held' \in [Handles -> [Locks -> Nat]]
      /\ slot' \in [Handles -> [Locks -> {"none", "real", "phantom"}]]
      /\ owned' \in [Handles -> SUBSET Locks]
    BY <1>1 DEF IInv, TypeOK
<1>4. LayersAgree'
    BY <1>1 DEF IInv, TypeOK, LayersAgree
<1>5. KernelExclusive'
    BY <1>1, <1>2 DEF IInv, TypeOK, KernelExclusive
<1> QED
    BY <1>3, <1>4, <1>5

\* Every lock call, unlock, append and close keeps the layers together.
LEMMA StepIInv ==
    ASSUME Discipline, IInv, [Next]_vars
    PROVE  IInv'
<1> USE LockMgrAssumption, LockRangesAssumption DEF Discipline
<1>1. ASSUME NEW h \in Handles, NEW l \in Locks, LockCall(h, l)
      PROVE  IInv'
  <2>1. slot[h][l] = "none"
    BY <1>1 DEF LockCall, IInv, TypeOK, LayersAgree
  <2>2. TypeOK'
    BY <1>1 DEF LockCall, IInv, TypeOK, table
  <2>3. WaitsForNew' /\ LocksExist' /\ WaitsForSeen'
    BY <1>1, <2>1
    DEF LockCall, IInv, TypeOK, WaitsForNew, LocksExist, WaitsForSeen, table
  <2> QED
    BY <1>1, <2>2, <2>3
    DEF LockCall, IInv, LayersAgree, KernelExclusive, NothingFresh, table
<1>2. ASSUME NEW h \in Handles, AcquireFresh(h)
      PROVE  IInv'
  <2> DEFINE l == wait[h]
  <2>1. /\ l \in Locks /\ l # Idle /\ l <= count /\ slot[h][l] = "none"
        /\ Granted(h, l) /\ TakeFresh(h, l)
    BY <1>2 DEF AcquireFresh, IInv, TypeOK, WaitsForNew, LocksExist
  <2>2. /\ wait' = [wait EXCEPT ![h] = Idle]
        /\ owned' = [owned EXCEPT ![h] = @ \cup {l}]
        /\ tries' = tries /\ count' = count /\ fresh' = fresh
    BY <1>2, AlwaysLoads DEF Succeed, Return
  <2>3. seen' \in [Handles -> 0..MaxRecno] /\ (Type = "Adt" => seen' = seen)
    BY <1>2, AlwaysLoads
  <2> HIDE DEF l
  <2>4. LayersAgree' /\ KernelExclusive'
    BY <2>1, <2>2, TakeKeeps
  <2>5. TypeOK'
    BY <2>1, <2>2, <2>3, TakeKeeps DEF IInv, TypeOK
  <2>6. slot' = [slot EXCEPT ![h][l] = "real"]
    BY <2>1 DEF TakeFresh
  <2>7. WaitsForNew' /\ LocksExist'
    BY <2>1, <2>2, <2>6 DEF IInv, TypeOK, WaitsForNew, LocksExist, Idle
  <2>8. NothingFresh' /\ WaitsForSeen'
    BY <2>2, <2>3 DEF IInv, TypeOK, NothingFresh, WaitsForSeen
  <2> QED
    BY <2>4, <2>5, <2>7, <2>8 DEF IInv
<1>3. ASSUME NEW h \in Handles, AcquireRefused(h)
      PROVE  IInv'
  <2>1. /\ UNCHANGED <<os, held, slot, owned, count, seen, fresh>>
        /\ \/ tries[h] < RetryCount /\ tries' = [tries EXCEPT ![h] = @ + 1] /\ wait' = wait
           \/ wait' = [wait EXCEPT ![h] = Idle] /\ tries' = tries
    BY <1>3 DEF AcquireRefused, Retry, Return, table
  <2>2. tries' \in [Handles -> 0..RetryCount] /\ wait' \in [Handles -> Locks \cup {Idle}]
    <3>1. CASE tries[h] < RetryCount /\ tries' = [tries EXCEPT ![h] = @ + 1] /\ wait' = wait
      <4>1. tries[h] + 1 \in 0..RetryCount
        BY <3>1 DEF IInv, TypeOK
      <4> QED
        BY <3>1, <4>1 DEF IInv, TypeOK
    <3>2. CASE wait' = [wait EXCEPT ![h] = Idle] /\ tries' = tries
      BY <3>2 DEF IInv, TypeOK
    <3> QED
      BY <2>1, <3>1, <3>2
  <2>3. WaitsForNew' /\ LocksExist' /\ WaitsForSeen'
    BY <2>1 DEF IInv, TypeOK, WaitsForNew, LocksExist, WaitsForSeen, Idle
  <2>4. TypeOK'
    BY <2>1, <2>2 DEF IInv, TypeOK
  <2> QED
    BY <2>1, <2>3, <2>4 DEF IInv, LayersAgree, KernelExclusive, NothingFresh
<1>4. ASSUME NEW h \in Handles, NEW l \in Locks, UnlockCall(h, l)
      PROVE  IInv'
  <2>1. slot[h][l] = "real" /\ held[h][l] = 1 /\ wait[h] = Idle
    BY <1>4 DEF UnlockCall, IInv, TypeOK, LayersAgree
  <2>2. Unlocked(os[h], l) = os[h] \ {l}
    BY KernelPerLock DEF IInv
  <2> HIDE DEF Discipline
  <2>3. /\ os' = [os EXCEPT ![h] = os[h] \ {l}]
        /\ held' = [held EXCEPT ![h][l] = 0]
        /\ slot' = [slot EXCEPT ![h][l] = "none"]
        /\ owned' = [owned EXCEPT ![h] = @ \ {l}]
        /\ UNCHANGED <<wait, tries, count, seen, fresh>>
    BY <1>4, <2>1, <2>2 DEF UnlockCall, table
  <2>4. TypeOK'
    BY <2>3 DEF IInv, TypeOK
  <2>5. LayersAgree'
    BY <2>3 DEF IInv, TypeOK, LayersAgree
  <2>6. WaitsForNew' /\ LocksExist'
    BY <2>1, <2>3 DEF IInv, TypeOK, WaitsForNew, LocksExist
  <2>7. KernelExclusive'
    BY <2>3 DEF IInv, TypeOK, KernelExclusive
  <2> QED
    BY <2>3, <2>4, <2>5, <2>6, <2>7 DEF IInv, NothingFresh, WaitsForSeen
<1>5. ASSUME NEW h \in Handles, CloseTable(h)
      PROVE  IInv'
  <2>1. TypeOK'
    BY <1>5 DEF CloseTable, IInv, TypeOK
  <2>2. LayersAgree'
    BY <1>5 DEF CloseTable, IInv, TypeOK, LayersAgree
  <2>3. WaitsForNew' /\ LocksExist'
    BY <1>5 DEF CloseTable, IInv, TypeOK, WaitsForNew, LocksExist
  <2>4. KernelExclusive'
    BY <1>5 DEF CloseTable, IInv, TypeOK, KernelExclusive
  <2>5. NothingFresh' /\ WaitsForSeen'
    BY <1>5 DEF CloseTable, IInv, TypeOK, NothingFresh, WaitsForSeen
  <2> QED
    BY <2>1, <2>2, <2>3, <2>4, <2>5 DEF IInv
<1>6. ASSUME NEW h \in Handles, AppendCall(h)
      PROVE  IInv'
  <2> DEFINE l == count + 1
  <2>1. /\ l \in Locks /\ slot[h][l] = "none" /\ held[h][l] = 0
        /\ l <= MaxRecno /\ count' = l /\ wait' = wait /\ tries' = tries /\ wait[h] = Idle
    BY <1>6, NewRecordUnlocked DEF AppendCall, Locks
  <2>2. /\ count \in 0..MaxRecno /\ count' \in 0..MaxRecno
        /\ seen' = [seen EXCEPT ![h] = l]
        /\ fresh' = fresh \/ (Type # "Cdx" /\ fresh' = [fresh EXCEPT ![h] = @ \cup {l}])
    BY <1>6, <2>1 DEF AppendCall, IInv, TypeOK
  <2>3. /\ wait' \in [Handles -> Locks \cup {Idle}] /\ tries' \in [Handles -> 0..RetryCount]
        /\ seen' \in [Handles -> 0..MaxRecno] /\ fresh' \in [Handles -> SUBSET (1..count')]
        /\ NothingFresh' /\ WaitsForSeen'
    <3>1. fresh' \in [Handles -> SUBSET (1..count')]
      <4>1. fresh \in [Handles -> SUBSET (1..count)] /\ 1..count \subseteq 1..l /\ l \in 1..l
        BY <2>2 DEF IInv, TypeOK
      <4> QED
        BY <2>1, <2>2, <4>1
    <3>2. NothingFresh'
      BY <2>2 DEF IInv, NothingFresh
    <3>3. seen' \in [Handles -> 0..MaxRecno] /\ WaitsForSeen'
      BY <2>1, <2>2 DEF IInv, TypeOK, WaitsForSeen
    <3> QED
      BY <2>1, <3>1, <3>2, <3>3 DEF IInv, TypeOK
  <2>4. CASE Granted(h, l)
    <3>1. TakeFresh(h, l) /\ owned' = [owned EXCEPT ![h] = @ \cup {l}]
      BY <1>6, <2>1, <2>4 DEF AppendCall
    <3>2. slot' = [slot EXCEPT ![h][l] = "real"]
      BY <3>1 DEF TakeFresh
    <3>3. \A g \in Handles : slot[g][l] = "none"
      BY <1>6, NewRecordUnlocked DEF AppendCall
    <3>4. \A g \in Handles : wait[g] # l
      BY <2>2 DEF IInv, TypeOK, LocksExist, Idle
    <3> HIDE DEF l
    <3>5. LayersAgree' /\ KernelExclusive' /\ TypeOK'
      BY <2>1, <2>2, <2>3, <2>4, <3>1, TakeKeeps DEF TypeOK
    <3>6. WaitsForNew'
      BY <2>1, <3>2, <3>4 DEF IInv, TypeOK, WaitsForNew, Idle
    <3>7. LocksExist'
      <4>1. \A g \in Handles : wait[g] # Idle => wait[g] <= l
        BY <2>2 DEF IInv, TypeOK, LocksExist, l, Locks, Recno, TheFile, Idle
      <4>2. \A g \in Handles : \A m \in Locks : slot'[g][m] # "none" => m <= l
        BY <2>1, <2>2, <3>2 DEF IInv, TypeOK, LocksExist, l, Locks, Recno, TheFile
      <4> QED
        BY <2>1, <4>1, <4>2 DEF LocksExist
    <3> QED
      BY <2>3, <3>5, <3>6, <3>7 DEF IInv
  <2>5. CASE ~Granted(h, l)
    <3>1. UNCHANGED <<os, held, slot, owned>>
      BY <1>6, <2>1, <2>5 DEF AppendCall
    <3>2. LocksExist'
      <4>1. \A g \in Handles : wait[g] # Idle => wait[g] <= l
        BY <2>2 DEF IInv, TypeOK, LocksExist, Locks, Recno, TheFile, Idle
      <4>2. \A g \in Handles : \A m \in Locks : slot[g][m] # "none" => m <= l
        BY <2>2 DEF IInv, TypeOK, LocksExist, Locks, Recno, TheFile
      <4> QED
        BY <2>1, <3>1, <4>1, <4>2 DEF LocksExist
    <3> QED
      BY <2>1, <2>2, <2>3, <3>1, <3>2
      DEF IInv, TypeOK, LayersAgree, WaitsForNew, KernelExclusive
  <2> QED
    BY <2>4, <2>5
<1>7. ASSUME NEW h \in Handles, ReadOn(h)
      PROVE  IInv'
  <2>1. /\ UNCHANGED <<os, held, slot, wait, tries, owned, count, fresh>>
        /\ seen' = [seen EXCEPT ![h] = count] /\ Type # "Adt"
    BY <1>7 DEF ReadOn, LooksAgain
  <2>2. TypeOK'
    BY <2>1 DEF IInv, TypeOK
  <2> QED
    BY <2>1, <2>2 DEF IInv, LayersAgree, WaitsForNew, KernelExclusive, LocksExist,
                      NothingFresh, WaitsForSeen
<1>8. ASSUME NEW h \in Handles, CommitCall(h) \/ RollbackCall(h)
      PROVE  IInv'
  <2>1. /\ UNCHANGED <<os, held, slot, wait, tries, owned, count, seen>>
        /\ fresh' = [fresh EXCEPT ![h] = {}]
    BY <1>8, EndKeepsRecords
  <2>2. TypeOK' /\ NothingFresh'
    BY <2>1 DEF IInv, TypeOK, NothingFresh
  <2> QED
    BY <2>1, <2>2 DEF IInv, LayersAgree, WaitsForNew, KernelExclusive, LocksExist,
                      WaitsForSeen
<1>9. CASE UNCHANGED vars
    BY <1>9 DEF vars, table, IInv, TypeOK, LayersAgree, WaitsForNew, KernelExclusive,
                LocksExist, NothingFresh, WaitsForSeen
<1> QED
    BY <1>1, <1>2, <1>3, <1>4, <1>5, <1>6, <1>7, <1>8, <1>9, NeverCounted
    DEF Next, Attempt

\* Every layer keeps its shape, and they agree, in every reachable state.
THEOREM Invariance ==
    ASSUME Discipline
    PROVE  Spec => []IInv
<1>1. IInv /\ [Next]_vars => IInv'
    BY StepIInv
<1> QED
    BY <1>1, InitIInv, PTL DEF Spec

-----------------------------------------------------------------------------
\* The state's shape.
THEOREM TypeCorrect ==
    ASSUME Discipline
    PROVE  Spec => []TypeOK
<1>1. IInv => TypeOK
    BY DEF IInv
<1> QED
    BY <1>1, Invariance, PTL

\* The LockHandles stand for what the kernel granted.
THEOREM HandlesTrue ==
    ASSUME Discipline
    PROVE  Spec => []KernelAgrees
<1>1. IInv => KernelAgrees
    BY DEF IInv, TypeOK, LayersAgree, KernelAgrees
<1> QED
    BY <1>1, Invariance, PTL

\* A lock has one owner at a time.
THEOREM MutualExclusion ==
    ASSUME Discipline
    PROVE  Spec => []Exclusive
<1>1. IInv => Exclusive
    BY DEF IInv, TypeOK, LayersAgree, KernelExclusive, Exclusive
<1> QED
    BY <1>1, Invariance, PTL

\* An unlock leaves no count behind.
THEOREM NothingLingers ==
    ASSUME Discipline
    PROVE  Spec => []UnlockForgets
<1>1. IInv => UnlockForgets
    BY DEF IInv, LayersAgree, UnlockForgets
<1> QED
    BY <1>1, Invariance, PTL

-----------------------------------------------------------------------------
\* The service starts with nothing owned.
LEMMA InitService == Init => Service!Init
    BY DEF Init, Service!Init

\* A first acquisition is the service's Acquire, an unlock its Release, a close
\* its ReleaseAll; everything else leaves the service's state alone.
LEMMA StepService ==
    ASSUME Discipline, IInv, [Next]_vars
    PROVE  [Service!Next]_owned
<1> SUFFICES ASSUME Next
             PROVE  Service!Next \/ UNCHANGED owned
    BY DEF vars
<1> USE LockMgrAssumption DEF Discipline
<1>1. ASSUME NEW h \in Handles, NEW l \in Locks, Granted(h, l),
             owned' = [owned EXCEPT ![h] = @ \cup {l}]
      PROVE  Service!Next
  <2>1. \A g \in Handles \ {h} : l \notin owned[g]
    BY <1>1, KernelPerLock DEF IInv, LayersAgree, Granted
  <2> QED
    BY <1>1, <2>1 DEF Service!Next, Service!Acquire
<1>2. ASSUME NEW h \in Handles, AcquireFresh(h)
      PROVE  Service!Next \/ UNCHANGED owned
  <2>1. wait[h] \in Locks /\ Granted(h, wait[h])
    BY <1>2 DEF AcquireFresh, IInv, TypeOK
  <2>2. owned' = [owned EXCEPT ![h] = @ \cup {wait[h]}] \/ UNCHANGED owned
    BY <1>2, AlwaysLoads DEF Succeed
  <2> QED
    BY <1>1, <2>1, <2>2
<1>3. ASSUME NEW h \in Handles, AppendCall(h)
      PROVE  Service!Next \/ UNCHANGED owned
  <2>1. count + 1 \in Locks /\ held[h][count + 1] = 0
    BY <1>3, NewRecordUnlocked DEF AppendCall, Locks
  <2> QED
    BY <1>1, <1>3, <2>1 DEF AppendCall
<1>4. ASSUME NEW h \in Handles, NEW l \in Locks, UnlockCall(h, l)
      PROVE  Service!Next
    BY <1>4 DEF UnlockCall, Service!Next, Service!Release
<1>5. ASSUME NEW h \in Handles, CloseTable(h)
      PROVE  Service!Next
    BY <1>5 DEF CloseTable, Service!Next, Service!ReleaseAll
<1>6. ASSUME NEW h \in Handles, AcquireRefused(h) \/ \E l \in Locks : LockCall(h, l)
      PROVE  UNCHANGED owned
    BY <1>6 DEF AcquireRefused, Retry, LockCall
<1>7. ASSUME NEW h \in Handles, ReadOn(h) \/ CommitCall(h) \/ RollbackCall(h)
      PROVE  UNCHANGED owned
    BY <1>7 DEF ReadOn, CommitCall, RollbackCall
<1> QED
    BY <1>2, <1>3, <1>4, <1>5, <1>6, <1>7, NeverCounted DEF Next, Attempt

\* The lock calls implement the lock service.
THEOREM Refinement ==
    ASSUME Discipline
    PROVE  Spec => ImplementsService
<1>1. IInv /\ [Next]_vars => [Service!Next]_owned
    BY StepService
<1>2. Spec => []IInv
    BY Invariance
<1> QED
    BY <1>1, <1>2, InitService, PTL DEF Spec, ImplementsService, Service!Spec

=============================================================================
