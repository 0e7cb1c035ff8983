----------------------------- MODULE LockRanges -----------------------------
(***************************************************************************)
(* The byte ranges that stand for the locks of a table (engine/lock_mgr.   *)
(* cpp) and for its header (drivers/cdx/cdx_driver.cpp).  They lie outside *)
(* the data on purpose; what matters is that two different locks of one    *)
(* table never share a byte.                                               *)
(*                                                                         *)
(* The bases are constants: a model checker computes with small ones, and  *)
(* RangesDisjoint (LockMgrProofs) holds for all that satisfy the           *)
(* assumption, which bounds the record numbers so that the descending      *)
(* ranges do not reach the header.                                         *)
(***************************************************************************)
EXTENDS Integers

CONSTANTS
    NtxFileBase,   \* NTX_FILE_BASE, 1000000000
    CdxFileBase,   \* CDX_FILE_BASE, 0x7FFFFFFE
    VfpFileBase,   \* VFP_FILE_BASE, 0x3FFFFFFE
    AdtFileBase,   \* ADT_FILE_BASE, 2^63
    MaxRecno       \* bound: the largest record number

HeaderLen == 32

ASSUME LockRangesAssumption ==
    /\ {NtxFileBase, CdxFileBase, VfpFileBase, AdtFileBase, MaxRecno} \subseteq Nat
    /\ HeaderLen <= NtxFileBase /\ HeaderLen <= AdtFileBase
    /\ MaxRecno + HeaderLen <= CdxFileBase
    /\ MaxRecno + HeaderLen <= VfpFileBase

TableTypeForLock == {"Ntx", "Cdx", "Vfp", "Adt"}
Recno == 1..MaxRecno

FileLockOffset(t) ==
    IF t = "Ntx" THEN NtxFileBase
    ELSE IF t = "Cdx" THEN CdxFileBase
    ELSE IF t = "Vfp" THEN VfpFileBase
    ELSE AdtFileBase

\* Mutant: records of every type count upwards from the file lock.
AscendingOffset(t, recno) == FileLockOffset(t) + recno

\* NTX records count upwards from the byte after the file lock, CDX and VFP
\* records downwards, ADT records upwards in steps of 64 KB.
RecordLockOffset(t, recno) ==
    IF t = "Ntx" THEN NtxFileBase + 1 + recno
    ELSE IF t \in {"Cdx", "Vfp"} THEN FileLockOffset(t) - recno
    ELSE AdtFileBase + recno * 65536

Bytes(offset, length) == [lo |-> offset, hi |-> offset + length - 1]

FileLock(t) == Bytes(FileLockOffset(t), IF t = "Adt" THEN 65536 ELSE 1)
RecordLock(t, recno) == Bytes(RecordLockOffset(t, recno), 1)
HeaderLock == Bytes(0, HeaderLen)

Overlap(a, b) == a.lo <= b.hi /\ b.lo <= a.hi

\* Two different locks of one table never share a byte, so that the kernel
\* grants each of them independently of the others and unlocking one never
\* drops another (lock_mgr.cpp:16-38, cdx_driver.cpp:247).
Disjoint(t, r, s) ==
    /\ r # s => ~Overlap(RecordLock(t, r), RecordLock(t, s))
    /\ ~Overlap(FileLock(t), RecordLock(t, r))
    /\ ~Overlap(HeaderLock, RecordLock(t, r))
    /\ ~Overlap(HeaderLock, FileLock(t))

=============================================================================
