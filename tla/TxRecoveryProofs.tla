-------------------------- MODULE TxRecoveryProofs --------------------------
(***************************************************************************)
(* What the log and its recovery keep, for any table, any number of        *)
(* transactions and any number of crashes between any two steps.  What     *)
(* returned from a commit survives power failures as well; what recovery   *)
(* restores is proved for deaths of the process, which lose nothing that   *)
(* was written, and for rows written once under an empty LSN map.          *)
(***************************************************************************)
EXTENDS TxRecovery, LeastNumber, SequenceTheorems

Places == {"closed", "idle", "tx", "write", "note", "rollback", "flush", "end",
           "undo", "save", "map", "cut", "clear"}

InTx == pc \in {"tx", "write", "note"}

Record == [type : {"begin", "update", "append", "commit", "abort", "torn"},
           lsn : Nat, recno : Nat, before : Row \cup {NoImage}]

Image == [key : Recnos, image : Row]

Op == [key : Recnos, isAppend : BOOLEAN, image : Row \cup {NoImage}]

TxObject == [active : BOOLEAN, before : SUBSET Image, appended : SUBSET Recnos,
             ops : Seq(Op), saves : {<<>>}]

Job == [recno : Nat, new : Row, images : SUBSET Image, appends : SUBSET Recnos,
        updates : SUBSET Nat, opened : BOOLEAN]

-----------------------------------------------------------------------------
(* The state has the shape the code gives it *)

StoreOK == /\ rows \in Seq(Row) /\ Len(rows) <= MaxRows
           /\ safe \in Seq(Row) /\ Len(safe) <= MaxRows

WalOK == log \in Seq(Record) /\ synced \in 0..Len(log) /\ nextLsn \in Nat \ {0}

MapsOK == lsnMap \in [Recnos -> Nat] /\ lsnFile \in [Recnos -> Nat]

TxOK == tx \in TxObject

CallOK == pc \in Places /\ job \in Job

HistOK ==
    /\ base \in Seq(Row) /\ goal \in Seq(Row)
    /\ committed \in BOOLEAN /\ acked \in BOOLEAN /\ skew \in BOOLEAN /\ outage \in BOOLEAN
    /\ twice \subseteq Recnos
    /\ txs \in Nat /\ crashes \in Nat

Shape == StoreOK /\ WalOK /\ MapsOK /\ TxOK /\ CallOK /\ HistOK

\* Records, locals and the Tx object name rows and records that are there.
ActiveInTx == tx.active => InTx \/ pc \in {"rollback", "flush", "end"}

CallNames ==
    /\ pc = "write" => InFile(job.recno)
    /\ pc = "note" => job.recno = Len(rows) /\ job.recno # 0
    /\ pc = "undo" => job.updates \subseteq OfType(ReadAll(log), "update")

RecordNames ==
    \A i \in 1..Len(log) :
        /\ log[i].type \in {"update", "append"} => log[i].recno \in Recnos
        /\ log[i].type = "update" => log[i].before \in Row

NamesExist == ActiveInTx /\ CallNames /\ RecordNames

\* LSNs grow along what can be read of the log and stay below the next one.
LogInOrder ==
    /\ \A i \in 1..Readable(log) : log[i].lsn # 0
    /\ \A i, j \in 1..Readable(log) : i < j => log[i].lsn < log[j].lsn
    /\ pc # "closed" => \A i \in 1..Readable(log) : log[i].lsn < nextLsn

-----------------------------------------------------------------------------
(* Commits *)

\* A transaction is not committed while it runs; from its commit to its end the
\* rows are its own, and flushed before the end if it wrote any.
CommitsAtEnd ==
    /\ InTx \/ pc = "rollback" => ~committed
    /\ pc \in {"flush", "end"} /\ committed => rows = goal
    /\ pc = "end" /\ tx.ops # <<>> => safe = rows

\* What was acknowledged is flushed and no log is left that speaks of it.
AckedIsSafe ==
    acked => pc \in {"idle", "closed"} /\ log = <<>> /\ rows = safe /\ rows = goal

\* Without a power failure the whole log is readable.
LogWhole == ~outage => \A i \in 1..Len(log) : log[i].type # "torn"

\* Nothing undoes a committed transaction.
CommittedStays ==
    committed /\ ~outage =>
        /\ rows = goal
        /\ log = <<>> \/ HasRecord(log, "commit")
        /\ pc = "undo" => job.updates = {} /\ job.appends = {}

-----------------------------------------------------------------------------
(* Undoing *)

\* A transaction that is not committed, while the machine keeps its power.
Undoable == ~committed /\ ~outage

Old == 1..Len(base)
Updates == OfType(log, "update")
Appends == OfType(log, "append")
Updated(r) == \E i \in Updates : log[i].recno = r

\* Between transactions the log is empty, within one it is not, and it has ended
\* when a recovery is done.
LogOfTx ==
    ~outage =>
        /\ pc \in {"idle", "clear"} => log = <<>>
        /\ InTx \/ pc \in {"rollback", "undo", "save", "map", "cut"} => log # <<>>
        /\ InTx \/ pc = "rollback" => ~Ended(log)
        /\ pc \in {"save", "map", "cut"} => Ended(log)
        /\ ~committed => ~HasRecord(log, "commit")

\* The log says how the rows differ from those at BEGIN.
LogTells ==
    Undoable =>
        /\ goal = base /\ Len(base) <= Len(rows)
        /\ \A i \in Appends : log[i].recno > Len(base)
        /\ log # <<>> /\ ~Ended(log) => \A r \in Old : rows[r] = base[r] \/ Updated(r)
        /\ \A i \in Updates : log[i].recno \in Old \ twice => log[i].before = base[log[i].recno]
        /\ \A i, j \in Updates : i # j /\ log[i].recno = log[j].recno => log[i].recno \in twice

\* So does the Tx object.
TxTells ==
    Undoable /\ InTx =>
        /\ \A i \in Updates : \E k \in 1..Len(tx.ops) :
              tx.ops[k].key = log[i].recno /\ ~tx.ops[k].isAppend
        /\ tx.appended = (Len(base) + 1)..(IF pc = "note" THEN Len(rows) - 1 ELSE Len(rows))
        /\ \A b \in tx.before : b.key \in Old /\ b.image = base[b.key]
        /\ \A r \in Old : rows[r] = base[r] \/ \E b \in tx.before : b.key = r
        /\ pc = "note" => Len(base) < Len(rows)
        /\ pc = "write" => Updated(job.recno)
        /\ pc = "write" /\ job.recno \in Old => \E b \in tx.before : b.key = job.recno

\* The rollback has the images and the appended rows that are left.
RollbackTells ==
    Undoable /\ pc = "rollback" =>
        /\ job.appends = (Len(base) + 1)..Len(rows)
        /\ \A b \in job.images : b.key \in Old /\ b.image = base[b.key]
        /\ \A r \in Old : rows[r] = base[r] \/ \E b \in job.images : b.key = r

\* Old rows are back, where the LSN map could not get in the way.
Restored == ~skew => \A r \in Old \ twice : rows[r] = base[r]

\* Rows the transaction appended are gone or marked.
AppendsGone == \A i \in Appends : InFile(log[i].recno) => rows[log[i].recno].del

\* A log that is cut or ended says that everything is undone.
EndedIsUndone ==
    Undoable =>
        /\ log = <<>> => Restored
        /\ HasRecord(log, "abort") => Restored /\ AppendsGone
        /\ pc \in {"flush", "end"} => \A r \in Old : rows[r] = base[r]
        /\ pc \in {"flush", "end"} => HasRecord(log, "abort")

\* The map has no entry that a recovery could mistake for its own.
MapEmpty ==
    /\ InTx \/ pc \in {"rollback", "flush", "end", "idle"} => lsnMap = lsnFile
    /\ ~outage /\ ~skew /\ log # <<>> /\ ~Ended(log) => lsnFile = NoLsns

\* A recovery has the updates and appends that are left to undo.
RecoveryTells ==
    ~outage /\ pc = "undo" =>
        /\ Ended(log) => job.updates = {} /\ job.appends = {}
        /\ job.updates \subseteq Updates
        /\ ~committed /\ ~Ended(log) =>
              /\ job.appends \subseteq {log[i].recno : i \in Appends}
              /\ \A i \in Appends :
                    InFile(log[i].recno) /\ log[i].recno \notin job.appends
                        => job.updates = {} /\ rows[log[i].recno].del
              /\ ~skew => \A r \in Old \ twice :
                    \/ rows[r] = base[r]
                    \/ \E i \in job.updates : log[i].recno = r
              /\ ~skew => \A i \in job.updates :
                    log[i].recno \notin twice => lsnMap[log[i].recno] = 0

IInv ==
    /\ Shape /\ NamesExist /\ LogInOrder
    /\ CommitsAtEnd /\ AckedIsSafe /\ LogWhole /\ CommittedStays
    /\ LogOfTx /\ LogTells /\ TxTells /\ RollbackTells
    /\ EndedIsUndone /\ MapEmpty /\ RecoveryTells

-----------------------------------------------------------------------------
(* The log as a sequence *)

\* The readable part ends before the first torn record.
LEMMA ReadablePart ==
    ASSUME NEW f \in Seq(Record)
    PROVE  /\ Readable(f) \in 0..Len(f)
           /\ \A i \in 1..Readable(f) : f[i].type # "torn"
           /\ Readable(f) < Len(f) => f[Readable(f) + 1].type = "torn"
<1> DEFINE Good(n) == /\ \A i \in 1..n : f[i].type # "torn"
                      /\ n < Len(f) => f[n + 1].type = "torn"
           TornAt == {i \in 1..Len(f) : f[i].type = "torn"}
<1>1. \E n \in 0..Len(f) : Good(n)
  <2>1. CASE TornAt = {}
    <3>1. Len(f) \in 0..Len(f) /\ Good(Len(f))
      BY <2>1
    <3> QED
      BY <3>1
  <2>2. CASE TornAt # {}
    <3>1. PICK i \in TornAt : \A j \in TornAt : i <= j
      <4>1. TornAt \in SUBSET Nat
        OBVIOUS
      <4> QED
        BY <2>2, <4>1, LeastNat
    <3>2. i - 1 \in 0..Len(f) /\ Good(i - 1)
      BY <3>1
    <3> QED
      BY <3>2
  <2> QED
    BY <2>1, <2>2
<1>2. Readable(f) = CHOOSE n \in 0..Len(f) : Good(n)
    BY DEF Readable
<1>3. Readable(f) \in 0..Len(f) /\ Good(Readable(f))
    BY <1>1, <1>2
<1> QED
    BY <1>3

\* A number with these two properties is the length of the readable part.
LEMMA ReadableIs ==
    ASSUME NEW f \in Seq(Record), NEW n \in 0..Len(f),
           \A i \in 1..n : f[i].type # "torn",
           n < Len(f) => f[n + 1].type = "torn"
    PROVE  Readable(f) = n
<1>1. CASE Readable(f) < n
    BY <1>1, ReadablePart
<1>2. CASE n < Readable(f)
    BY <1>2, ReadablePart
<1> QED
    BY <1>1, <1>2, ReadablePart

\* Without a torn record everything is read.
LEMMA WholeIsRead ==
    ASSUME NEW f \in Seq(Record), \A i \in 1..Len(f) : f[i].type # "torn"
    PROVE  Readable(f) = Len(f) /\ ReadAll(f) = f
<1>1. Readable(f) = Len(f)
    BY ReadableIs
<1> QED
    BY <1>1, SubSeqFull DEF ReadAll

\* What is read is a prefix of the file.
LEMMA ReadIsPrefix ==
    ASSUME NEW f \in Seq(Record)
    PROVE  /\ ReadAll(f) \in Seq(Record) /\ Len(ReadAll(f)) = Readable(f)
           /\ \A i \in 1..Readable(f) : ReadAll(f)[i] = f[i]
BY ReadablePart, SubSeqProperties DEF ReadAll

\* A record written behind the last one is read if that one is.
LEMMA ReadableAfterAppend ==
    ASSUME NEW f \in Seq(Record), NEW e \in Record, e.type # "torn"
    PROVE  Readable(Append(f, e)) =
               IF Readable(f) = Len(f) THEN Len(f) + 1 ELSE Readable(f)
<1> DEFINE g == Append(f, e)
           n == IF Readable(f) = Len(f) THEN Len(f) + 1 ELSE Readable(f)
<1>1. g \in Seq(Record) /\ Len(g) = Len(f) + 1 /\ g[Len(f) + 1] = e
      /\ \A i \in 1..Len(f) : g[i] = f[i]
    BY AppendProperties
<1>2. /\ n \in 0..Len(g)
      /\ \A i \in 1..n : g[i].type # "torn"
      /\ n < Len(g) => g[n + 1].type = "torn"
    BY <1>1, ReadablePart
<1> QED
    BY <1>1, <1>2, ReadableIs

\* A power failure leaves nothing to read that was not there.
LEMMA ReadableAfterLoss ==
    ASSUME NEW f \in Seq(Record), NEW n \in 0..Len(f), NEW g \in Seq(Record),
           \/ g = SubSeq(f, 1, n)
           \/ n < Len(f) /\ g = Append(SubSeq(f, 1, n), Torn)
    PROVE  \A i \in 1..Readable(g) : i <= Readable(f) /\ g[i] = f[i]
<1> DEFINE h == SubSeq(f, 1, n)
<1>1. h \in Seq(Record) /\ Len(h) = n /\ \A i \in 1..n : h[i] = f[i]
    BY SubSeqProperties
<1>2. \A i \in 1..Readable(g) : i <= n /\ g[i] = f[i]
  <2>1. CASE g = h
    <3>1. Readable(g) \in 0..n
      BY <1>1, <2>1, ReadablePart
    <3> QED
      BY <1>1, <2>1, <3>1
  <2>2. CASE n < Len(f) /\ g = Append(h, Torn)
    <3>1. Len(g) = n + 1 /\ g[n + 1] = Torn /\ \A i \in 1..n : g[i] = f[i]
      BY <1>1, <2>2, AppendProperties
    <3>2. ~(n + 1 <= Readable(g))
      BY <3>1, ReadablePart DEF Torn
    <3> QED
      BY <3>1, <3>2, ReadablePart
  <2> QED
    BY <2>1, <2>2
<1>3. \A i \in 1..Readable(g) : i <= Readable(f)
  <2> SUFFICES ASSUME NEW i \in 1..Readable(g), Readable(f) < i PROVE FALSE
    BY ReadablePart
  <2>1. Readable(f) + 1 \in 1..Readable(g)
    BY ReadablePart
  <2> QED
    BY <2>1, <1>2, ReadablePart
<1> QED
    BY <1>2, <1>3

\* The records of a type after one more record.
LEMMA TypesAfterAppend ==
    ASSUME NEW f \in Seq(Record), NEW e \in Record
    PROVE  /\ \A t : OfType(Append(f, e), t) =
                   IF e.type = t THEN OfType(f, t) \cup {Len(f) + 1} ELSE OfType(f, t)
           /\ \A t : HasRecord(Append(f, e), t) <=> HasRecord(f, t) \/ e.type = t
<1> DEFINE g == Append(f, e)
<1>1. g \in Seq(Record) /\ Len(g) = Len(f) + 1 /\ g[Len(f) + 1] = e
      /\ \A i \in 1..Len(f) : g[i] = f[i]
    BY AppendProperties
<1> QED
    BY <1>1 DEF OfType, HasRecord

-----------------------------------------------------------------------------
(* The shape of the state *)

\* What append_record_ does to the log.
LEMMA Logged ==
    ASSUME Shape, NEW type \in {"begin", "update", "append", "commit", "abort"},
           NEW recno \in Nat, NEW before \in Row \cup {NoImage},
           LogRecord(type, recno, before)
    PROVE  /\ log' \in Seq(Record) /\ Len(log') = Len(log) + 1 /\ log' # <<>>
           /\ log'[Len(log) + 1] =
                  [type |-> type, lsn |-> nextLsn, recno |-> recno, before |-> before]
           /\ \A i \in 1..Len(log) : log'[i] = log[i]
           /\ nextLsn' = nextLsn + 1 /\ nextLsn' \in Nat \ {0}
           /\ \A t : OfType(log', t) =
                 IF type = t THEN OfType(log, t) \cup {Len(log) + 1} ELSE OfType(log, t)
           /\ \A t : HasRecord(log', t) <=> HasRecord(log, t) \/ type = t
<1> DEFINE e == [type |-> type, lsn |-> nextLsn, recno |-> recno, before |-> before]
<1>1. e \in Record
    BY DEF Shape, WalOK, Record
<1>2. log' = Append(log, e) /\ nextLsn' = nextLsn + 1
    BY DEF LogRecord
<1> HIDE DEF e
<1>3. /\ log' \in Seq(Record) /\ Len(log') = Len(log) + 1 /\ log' # <<>>
      /\ log'[Len(log) + 1] = e /\ \A i \in 1..Len(log) : log'[i] = log[i]
    BY <1>1, <1>2, AppendProperties DEF Shape, WalOK
<1>4. /\ \A t : OfType(log', t) =
            IF e.type = t THEN OfType(log, t) \cup {Len(log) + 1} ELSE OfType(log, t)
      /\ \A t : HasRecord(log', t) <=> HasRecord(log, t) \/ e.type = t
    BY <1>1, <1>2, TypesAfterAppend DEF Shape, WalOK
<1>5. e.type = type
    BY DEF e
<1>6. nextLsn' \in Nat \ {0}
    BY <1>2 DEF Shape, WalOK
<1> QED
    BY <1>2, <1>3, <1>4, <1>5, <1>6 DEF e

\* The idle values have the shape of their kind.
LEMMA IdleJob == NoJob \in Job /\ BlankRow \in Row /\ NoLsns \in [Recnos -> Nat] /\ IdleTx \in TxObject
BY TxRecoveryAssumption DEF NoJob, BlankRow, Row, Job, NoLsns, IdleTx, TxObject

\* Everything is in shape at the start.
LEMMA InitShape == Init => Shape
<1> SUFFICES ASSUME Init PROVE Shape
    OBVIOUS
<1>1. StoreOK
    BY TxRecoveryAssumption DEF Init, StoreOK
<1>2. WalOK
  <2>1. <<>> \in Seq(Record) /\ Len(<<>>) = 0
    OBVIOUS
  <2> QED
    BY <2>1 DEF Init, WalOK
<1>3. MapsOK /\ TxOK
    BY IdleJob DEF Init, MapsOK, TxOK
<1>4. CallOK
    BY IdleJob DEF Init, CallOK, Places
<1>5. HistOK
    BY TxRecoveryAssumption DEF Init, HistOK
<1> QED
    BY <1>1, <1>2, <1>3, <1>4, <1>5 DEF Shape

\* What a power failure leaves of the table is a table, and the same one if it
\* was flushed.
LEMMA SurvivorsAreTables ==
    ASSUME StoreOK, NEW disk \in Survivors
    PROVE  disk \in Seq(Row) /\ Len(disk) <= MaxRows /\ (rows = safe => disk = rows)
<1> DEFINE len == IF Len(rows) < Len(safe) THEN Len(rows) ELSE Len(safe)
           Longer == IF Len(rows) > len THEN rows ELSE safe
           Mix(pick) == [r \in 1..len |-> IF pick[r] = "written" THEN rows[r] ELSE safe[r]]
           Tail2 == SubSeq(Longer, len + 1, Len(Longer))
<1>1. PICK pick \in [1..len -> {"written", "flushed"}] : disk \in {Mix(pick), Mix(pick) \o Tail2}
    BY DEF Survivors
<1>2. len \in Nat /\ len <= MaxRows /\ len <= Len(rows) /\ len <= Len(safe)
    BY TxRecoveryAssumption DEF StoreOK
<1>3. Mix(pick) \in Seq(Row) /\ Len(Mix(pick)) = len
  <2>1. \A r \in 1..len : rows[r] \in Row /\ safe[r] \in Row
    BY <1>2 DEF StoreOK
  <2>2. Mix(pick) \in [1..len -> Row]
    BY <2>1
  <2> QED
    BY <1>2, <2>2, SeqDef
<1>4. Longer \in Seq(Row) /\ Len(Longer) <= MaxRows /\ len <= Len(Longer)
    BY <1>2 DEF StoreOK
<1>5. Tail2 \in Seq(Row) /\ Len(Tail2) = Len(Longer) - len
  <2> HIDE DEF len, Longer
  <2> QED
    BY <1>2, <1>4, SubSeqProperties
<1>6. Mix(pick) \o Tail2 \in Seq(Row) /\ Len(Mix(pick) \o Tail2) = Len(Longer)
  <2>1. ASSUME NEW s \in Seq(Row), NEW t \in Seq(Row)
        PROVE  s \o t \in Seq(Row) /\ Len(s \o t) = Len(s) + Len(t)
    BY ConcatProperties
  <2>2. Len(Mix(pick)) + Len(Tail2) = Len(Longer)
    <3>1. Len(Longer) \in Nat
      BY <1>4
    <3> HIDE DEF len, Longer, Tail2, Mix
    <3> QED
      BY <1>2, <1>3, <1>5, <3>1
  <2> HIDE DEF len, Longer, Tail2, Mix
  <2> QED
    BY <1>3, <1>5, <2>1, <2>2
<1>7. disk \in Seq(Row) /\ Len(disk) <= MaxRows
  <2> HIDE DEF len, Longer, Tail2, Mix
  <2> QED
    BY <1>1, <1>2, <1>3, <1>4, <1>6, TxRecoveryAssumption
<1>8. ASSUME rows = safe PROVE disk = rows
  <2>1. len = Len(rows) /\ Len(Longer) = len
    BY <1>8, <1>2 DEF StoreOK
  <2>2. Mix(pick) = rows
    BY <1>8, <2>1 DEF StoreOK
  <2>3. Len(Tail2) = 0
    <3> HIDE DEF len, Longer, Tail2, Mix
    <3> QED
      BY <1>5, <2>1, <1>2
  <2>4. Tail2 = <<>>
    <3> HIDE DEF Tail2
    <3> QED
      BY <1>5, <2>3, EmptySeq
  <2>5. Mix(pick) \o Tail2 = rows
    <3> HIDE DEF Tail2, Mix
    <3> QED
      BY <2>2, <2>4, ConcatEmptySeq DEF StoreOK
  <2> HIDE DEF Tail2, Mix
  <2> QED
    BY <1>1, <2>2, <2>5
<1> QED
    BY <1>7, <1>8

\* The record UndoUpdate looks at.
LEMMA LastUpdate ==
    ASSUME Shape, NamesExist, UndoUpdate
    PROVE  LET last == Max(job.updates)
           IN  /\ last \in job.updates /\ \A i \in job.updates : i <= last
               /\ job.updates \subseteq Nat
               /\ last \in 1..Readable(log) /\ last \in 1..Len(log)
               /\ log[last].type = "update" /\ log[last].before \in Row
               /\ log[last].recno \in Recnos /\ log[last].lsn \in Nat
<1>1. job.updates \subseteq OfType(ReadAll(log), "update") /\ job.updates # {}
    BY DEF UndoUpdate, NamesExist, CallNames
<1>2. log \in Seq(Record) /\ Readable(log) \in 0..Len(log)
    BY ReadablePart DEF Shape, WalOK
<1>3. OfType(ReadAll(log), "update") = {i \in 1..Readable(log) : log[i].type = "update"}
    BY <1>2, ReadIsPrefix DEF OfType
<1>4. job.updates \in SUBSET Int /\ job.updates \subseteq Nat
      /\ \A i \in job.updates : i <= Readable(log)
    BY <1>1, <1>2, <1>3
<1>5. Max(job.updates) \in job.updates /\ \A i \in job.updates : i <= Max(job.updates)
  <2>1. Readable(log) \in Int
    BY <1>2
  <2> QED
    BY <1>1, <1>4, <2>1, MaxOfSet
<1> DEFINE last == Max(job.updates)
<1> HIDE DEF last
<1>6. last \in 1..Readable(log) /\ last \in 1..Len(log) /\ log[last].type = "update"
    BY <1>1, <1>2, <1>3, <1>5 DEF last
<1>7. log[last] \in Record
    BY <1>2, <1>6
<1>8. log[last].before \in Row /\ log[last].recno \in Recnos /\ log[last].lsn \in Nat
    BY <1>6, <1>7 DEF NamesExist, RecordNames, Record
<1> QED
    BY <1>2, <1>4, <1>5, <1>6, <1>8 DEF last

-----------------------------------------------------------------------------
(* Which steps write which files *)

\* The steps that change the table or what was flushed of it.
LEMMA WritersOfTable ==
    [Next]_vars =>
        \/ UNCHANGED store
        \/ WriteRow \/ AppendRow \/ PopAppend \/ FlushTx \/ UndoUpdate \/ SaveTables \/ PowerLoss
        \/ \E b \in job.images : RestoreImage(b)
        \/ \E r \in job.appends : DeleteAppend(r)
BY DEF Next, TxStep, CallStep, RecoveryStep, vars, store, BeginTx, LogUpdate, LogAppend,
   CommitTx, RollbackTx, LogAbort, EndTx, Close, Open, AbortOrphan, FlushMap, CutRecoveredLog,
   ClearMap, Crash

\* The records a step may write, and how the log may be cut.
Logging ==
    \/ BeginTx \/ LogAppend \/ CommitTx \/ LogAbort
    \/ \E r \in Recnos, new \in Row : LogUpdate(r, new)
    \/ AbortOrphan /\ ~Ended(ReadAll(log))

\* The steps that change the log, and how much they change it.
LEMMA WritersOfLog ==
    [Next]_vars =>
        \/ UNCHANGED wal \/ (UNCHANGED <<log, synced>> /\ Open)
        \/ Logging \/ EndTx \/ CutRecoveredLog
        \/ (PowerLoss /\ UNCHANGED nextLsn)
BY DEF Next, TxStep, CallStep, RecoveryStep, Logging, vars, store, wal, AppendRow, WriteRow,
   RollbackTx, RestoreImage, PopAppend, FlushTx, Close, Open, UndoUpdate, DeleteAppend,
   AbortOrphan, SaveTables, FlushMap, ClearMap, Crash, PowerLoss, Die

\* The steps that change the LSN map, in memory or in its file.
LEMMA WritersOfMap ==
    [Next]_vars => UNCHANGED maps \/ Open \/ UndoUpdate \/ FlushMap \/ ClearMap
BY DEF Next, TxStep, CallStep, RecoveryStep, vars, maps, BeginTx, LogUpdate, LogAppend,
   AppendRow, WriteRow, CommitTx, RollbackTx, RestoreImage, PopAppend, LogAbort, FlushTx, EndTx,
   Close, DeleteAppend, AbortOrphan, SaveTables, CutRecoveredLog, Crash, PowerLoss, Die

\* The steps that change the transaction object.
LEMMA WritersOfTx ==
    [Next]_vars =>
        \/ UNCHANGED tx
        \/ BeginTx \/ LogAppend \/ EndTx \/ Crash \/ PowerLoss
        \/ \E r \in Recnos, new \in Row : LogUpdate(r, new)
BY DEF Next, TxStep, CallStep, RecoveryStep, vars, CommitTx, AppendRow, WriteRow, RollbackTx,
   RestoreImage, PopAppend, LogAbort, FlushTx, Close, Open, UndoUpdate, DeleteAppend,
   AbortOrphan, SaveTables, FlushMap, CutRecoveredLog, ClearMap

\* The steps that change what the world remembers.
LEMMA WritersOfHistory ==
    [Next]_vars =>
        \/ UNCHANGED hist
        \/ BeginTx \/ CommitTx \/ EndTx \/ Crash \/ PowerLoss
        \/ \E r \in Recnos, new \in Row : LogUpdate(r, new)
BY DEF Next, TxStep, CallStep, RecoveryStep, vars, AppendRow, WriteRow, LogAppend, RollbackTx,
   RestoreImage, PopAppend, LogAbort, FlushTx, Close, Open, UndoUpdate, DeleteAppend,
   AbortOrphan, SaveTables, FlushMap, CutRecoveredLog, ClearMap

-----------------------------------------------------------------------------
(* The shape is kept *)

\* All but the last of a sequence of rows.
LEMMA FrontIs ==
    ASSUME NEW s \in Seq(Row), Len(s) # 0
    PROVE  /\ Front(s) \in Seq(Row) /\ Len(Front(s)) = Len(s) - 1
           /\ \A i \in 1..(Len(s) - 1) : Front(s)[i] = s[i]
<1>1. Len(s) \in Nat \ {0} /\ \A i \in 1..(Len(s) - 1) : s[i] \in Row
    OBVIOUS
<1>2. Front(s) = [i \in 1..(Len(s) - 1) |-> s[i]]
    BY <1>1 DEF Front
<1>3. Front(s) \in [1..(Len(s) - 1) -> Row]
    BY <1>1, <1>2
<1>4. Len(s) - 1 \in Nat
    BY <1>1
<1>5. Front(s) \in Seq(Row) /\ Len(Front(s)) = Len(s) - 1
    BY <1>3, <1>4, SeqDef
<1> QED
    BY <1>2, <1>5

\* Every step keeps the table and what was flushed of it in shape.
LEMMA StoreKept == Shape /\ NamesExist /\ [Next]_vars => StoreOK'
<1> SUFFICES ASSUME Shape, NamesExist, [Next]_vars PROVE StoreOK'
    OBVIOUS
<1>1. CASE UNCHANGED store
    BY <1>1 DEF Shape, StoreOK, store
<1>2. CASE WriteRow
  <2>1. job.new \in Row /\ job.recno \in 1..Len(rows)
    BY <1>2 DEF WriteRow, NamesExist, CallNames, InFile, Shape, CallOK, Job
  <2>2. rows' \in Seq(Row) /\ Len(rows') = Len(rows)
    BY <1>2, <2>1, ExceptSeq DEF WriteRow, Shape, StoreOK
  <2> QED
    BY <1>2, <2>2 DEF WriteRow, Shape, StoreOK
<1>3. CASE AppendRow
  <2>1. rows' \in Seq(Row) /\ Len(rows') <= MaxRows
    BY <1>3, IdleJob, AppendProperties, TxRecoveryAssumption DEF AppendRow, Shape, StoreOK
  <2> QED
    BY <1>3, <2>1 DEF AppendRow, Shape, StoreOK
<1>4. CASE PopAppend
  <2>1. Len(rows) \in Nat \ {0}
    BY <1>4 DEF PopAppend, Shape, StoreOK, CallOK, Job, Recnos
  <2>2. rows' \in Seq(Row) /\ Len(rows') = Len(rows) - 1
    BY <1>4, <2>1, FrontIs DEF PopAppend, Shape, StoreOK
  <2> QED
    BY <1>4, <2>1, <2>2, TxRecoveryAssumption DEF PopAppend, Shape, StoreOK
<1>5. CASE FlushTx \/ SaveTables
    BY <1>5 DEF FlushTx, SaveTables, Shape, StoreOK
<1>6. CASE UndoUpdate
  <2> DEFINE last == Max(job.updates)
             u == log[last]
  <2>1. u.before \in Row
    BY <1>6, LastUpdate
  <2> HIDE DEF last
  <2>2. rows' = rows \/ (u.recno \in 1..Len(rows) /\ rows' = [rows EXCEPT ![u.recno] = u.before])
    BY <1>6 DEF UndoUpdate, InFile, last
  <2>3. rows' \in Seq(Row) /\ Len(rows') = Len(rows)
    BY <2>1, <2>2, ExceptSeq DEF Shape, StoreOK
  <2> QED
    BY <1>6, <2>3 DEF UndoUpdate, Shape, StoreOK
<1>7. CASE PowerLoss
    BY <1>7, SurvivorsAreTables DEF PowerLoss, Shape, StoreOK
<1>8. ASSUME NEW b \in job.images, RestoreImage(b) PROVE StoreOK'
  <2>1. b \in Image
    BY DEF Shape, CallOK, Job
  <2>2. rows' \in Seq(Row) /\ Len(rows') = Len(rows)
    <3>1. CASE b.key \in 1..Len(rows)
      BY <1>8, <2>1, <3>1, ExceptSeq DEF RestoreImage, Shape, StoreOK, Image
    <3>2. CASE b.key \notin 1..Len(rows)
      <4>1. rows' = rows
        BY <1>8, <3>2 DEF RestoreImage, Shape, StoreOK
      <4> QED
        BY <4>1 DEF Shape, StoreOK
    <3> QED
      BY <3>1, <3>2
  <2> QED
    BY <1>8, <2>2 DEF RestoreImage, Shape, StoreOK
<1>9. ASSUME NEW r \in job.appends, DeleteAppend(r) PROVE StoreOK'
  <2>1. CASE r \in 1..Len(rows)
    <3>1. rows[r] \in Row
      BY <2>1 DEF Shape, StoreOK
    <3>2. [rows[r] EXCEPT !.del = TRUE] \in Row
      BY <3>1 DEF Row
    <3>3. rows' = [rows EXCEPT ![r] = [rows[r] EXCEPT !.del = TRUE]]
      BY <1>9, <2>1 DEF DeleteAppend, InFile
    <3>4. rows' \in Seq(Row) /\ Len(rows') = Len(rows)
      BY <2>1, <3>2, <3>3, ExceptSeq DEF Shape, StoreOK
    <3> QED
      BY <1>9, <3>4 DEF DeleteAppend, Shape, StoreOK
  <2>2. CASE r \notin 1..Len(rows)
    BY <1>9, <2>2 DEF DeleteAppend, InFile, Shape, StoreOK
  <2> QED
    BY <2>1, <2>2
<1> QED
    BY <1>1, <1>2, <1>3, <1>4, <1>5, <1>6, <1>7, <1>8, <1>9, WritersOfTable

\* One more record.
LEMMA LogGrows ==
    ASSUME Shape, NamesExist, Logging
    PROVE  \E type \in {"begin", "update", "append", "commit", "abort"},
              recno \in Nat, before \in Row \cup {NoImage} :
              LogRecord(type, recno, before) /\ (Unsynced \/ SyncLog)
<1>1. CASE BeginTx
    BY <1>1 DEF BeginTx
<1>2. CASE LogAppend
    BY <1>2 DEF LogAppend, Shape, CallOK, Job
<1>3. CASE CommitTx
    BY <1>3 DEF CommitTx
<1>4. CASE LogAbort
    BY <1>4 DEF LogAbort
<1>5. ASSUME NEW r \in Recnos, NEW new \in Row, LogUpdate(r, new)
      PROVE  \E before \in Row : LogRecord("update", r, before) /\ Unsynced
    BY <1>5 DEF LogUpdate, Shape, StoreOK, InFile
<1>6. CASE AbortOrphan /\ ~Ended(ReadAll(log))
    BY <1>6 DEF AbortOrphan
<1>7. Recnos \subseteq Nat
    BY DEF Recnos
<1> QED
    BY <1>1, <1>2, <1>3, <1>4, <1>5, <1>6, <1>7 DEF Logging

\* What a power failure leaves of the log.
LEMMA LogAfterLoss ==
    ASSUME Shape, PowerLoss
    PROVE  /\ log' \in Seq(Record) /\ synced' = Len(log')
           /\ \A i \in 1..Readable(log') : i <= Readable(log) /\ log'[i] = log[i]
           /\ \A i \in 1..Len(log') : log'[i] = Torn \/ (i <= Len(log) /\ log'[i] = log[i])
<1>1. log \in Seq(Record) /\ synced \in Nat
    BY DEF Shape, WalOK
<1>2. PICK n \in synced..Len(log) :
          \/ log' = SubSeq(log, 1, n)
          \/ n < Len(log) /\ log' = Append(SubSeq(log, 1, n), Torn)
    BY DEF PowerLoss
<1>3. n \in 0..Len(log)
    BY <1>1
<1> DEFINE h == SubSeq(log, 1, n)
<1>4. h \in Seq(Record) /\ Len(h) = n /\ \A i \in 1..n : h[i] = log[i]
    BY <1>1, <1>3, SubSeqProperties
<1> HIDE DEF h
<1>5. Torn \in Record
    BY DEF Torn, Record
<1>6. log' = h \/ log' = Append(h, Torn)
    BY <1>2 DEF h
<1>7. log' \in Seq(Record)
    BY <1>4, <1>5, <1>6, AppendProperties
<1>8. \A i \in 1..Len(log') : log'[i] = Torn \/ (i <= Len(log) /\ log'[i] = log[i])
  <2>1. CASE log' = h
    BY <2>1, <1>1, <1>3, <1>4
  <2>2. CASE log' = Append(h, Torn)
    BY <2>2, <1>1, <1>3, <1>4, <1>5, AppendProperties
  <2> QED
    BY <1>6, <2>1, <2>2
<1>9. \A i \in 1..Readable(log') : i <= Readable(log) /\ log'[i] = log[i]
    BY <1>1, <1>2, <1>3, <1>7, ReadableAfterLoss
<1> QED
    BY <1>7, <1>8, <1>9 DEF PowerLoss

\* Every step keeps the log in shape.
LEMMA WalKept == Shape /\ NamesExist /\ [Next]_vars => WalOK'
<1> SUFFICES ASSUME Shape, NamesExist, [Next]_vars PROVE WalOK'
    OBVIOUS
<1>1. log \in Seq(Record) /\ synced \in 0..Len(log) /\ nextLsn \in Nat \ {0}
    BY DEF Shape, WalOK
<1>2. CASE Logging
  <2>1. PICK type \in {"begin", "update", "append", "commit", "abort"},
             recno \in Nat, before \in Row \cup {NoImage} :
             LogRecord(type, recno, before) /\ (Unsynced \/ SyncLog)
    BY <1>2, LogGrows
  <2>2. log' \in Seq(Record) /\ Len(log') = Len(log) + 1 /\ nextLsn' \in Nat \ {0}
    BY <2>1, Logged
  <2>3. synced' \in 0..Len(log')
    BY <1>1, <2>1, <2>2 DEF Unsynced, SyncLog
  <2> QED
    BY <2>2, <2>3 DEF WalOK
<1>3. CASE EndTx \/ CutRecoveredLog
  <2>1. log' = <<>> /\ synced' = 0 /\ nextLsn' = 1
    BY <1>3 DEF EndTx, CutRecoveredLog, CutLog
  <2>2. <<>> \in Seq(Record) /\ Len(<<>>) = 0
    OBVIOUS
  <2> QED
    BY <2>1, <2>2 DEF WalOK
<1>4. CASE Open
  <2>1. ReadAll(log) \in Seq(Record)
    BY <1>1, ReadIsPrefix
  <2>2. ReadAll(log) # <<>> => ReadAll(log)[Len(ReadAll(log))] \in Record
    BY <2>1, EmptySeq
  <2>3. nextLsn' \in Nat \ {0}
    BY <1>4, <2>2 DEF Open, ResumedLsn, Last, Record
  <2> QED
    BY <1>1, <1>4, <2>3 DEF Open, WalOK
<1>5. CASE PowerLoss
  <2>1. log' \in Seq(Record) /\ synced' = Len(log') /\ nextLsn' = nextLsn
    BY <1>5, LogAfterLoss DEF PowerLoss, Die
  <2> QED
    BY <1>1, <2>1 DEF WalOK
<1>6. CASE UNCHANGED wal
    BY <1>1, <1>6 DEF WalOK, wal
<1> QED
    BY <1>2, <1>3, <1>4, <1>5, <1>6, WritersOfLog

\* Every step keeps the two LSN maps in shape.
LEMMA MapsKept == Shape /\ NamesExist /\ [Next]_vars => MapsOK'
<1> SUFFICES ASSUME Shape, NamesExist, [Next]_vars PROVE MapsOK'
    OBVIOUS
<1>1. CASE UNCHANGED maps
    BY <1>1 DEF Shape, MapsOK, maps
<1>2. CASE Open \/ FlushMap \/ ClearMap
    BY <1>2, IdleJob DEF Open, FlushMap, ClearMap, Shape, MapsOK
<1>3. CASE UndoUpdate
  <2> DEFINE last == Max(job.updates)
  <2>1. log[last].recno \in Recnos /\ log[last].lsn \in Nat
    BY <1>3, LastUpdate
  <2> HIDE DEF last
  <2>2. lsnMap' = lsnMap \/ lsnMap' = [lsnMap EXCEPT ![log[last].recno] = log[last].lsn]
    BY <1>3 DEF UndoUpdate, last
  <2>3. lsnFile' = lsnFile
    BY <1>3 DEF UndoUpdate
  <2> QED
    BY <2>1, <2>2, <2>3 DEF Shape, MapsOK
<1> QED
    BY <1>1, <1>2, <1>3, WritersOfMap

\* Every step keeps the transaction object in shape.
LEMMA TxKept == Shape /\ NamesExist /\ [Next]_vars => TxOK'
<1> SUFFICES ASSUME Shape, NamesExist, [Next]_vars PROVE TxOK'
    OBVIOUS
<1>1. CASE UNCHANGED tx
    BY <1>1 DEF Shape, TxOK
<1>2. CASE EndTx \/ Crash \/ PowerLoss
    BY <1>2, IdleJob DEF EndTx, Crash, PowerLoss, Die, TxOK
<1>3. CASE BeginTx
    BY <1>3 DEF BeginTx, Activate, Shape, TxOK, TxObject
<1>4. CASE LogAppend
  <2>1. job.recno \in Recnos
    BY <1>4 DEF LogAppend, NamesExist, CallNames, Shape, StoreOK, CallOK, Job, Recnos
  <2>2. [key |-> job.recno, isAppend |-> TRUE, image |-> NoImage] \in Op
    BY <2>1 DEF Op
  <2>3. Append(tx.ops, [key |-> job.recno, isAppend |-> TRUE, image |-> NoImage]) \in Seq(Op)
    BY <2>2, AppendProperties DEF Shape, TxOK, TxObject
  <2> QED
    BY <1>4, <2>1, <2>3 DEF LogAppend, NoteAppend, Shape, TxOK, TxObject
<1>5. ASSUME NEW r \in Recnos, NEW new \in Row, LogUpdate(r, new) PROVE TxOK'
  <2>1. rows[r] \in Row
    BY <1>5 DEF LogUpdate, InFile, Shape, StoreOK
  <2>2. [key |-> r, image |-> rows[r]] \in Image
    BY <2>1 DEF Image
  <2>3. [key |-> r, isAppend |-> FALSE, image |-> rows[r]] \in Op
    BY <2>1 DEF Op
  <2>4. Append(tx.ops, [key |-> r, isAppend |-> FALSE, image |-> rows[r]]) \in Seq(Op)
    BY <2>3, AppendProperties DEF Shape, TxOK, TxObject
  <2>5. tx' = NoteBeforeImage(tx, r, rows[r]) /\ tx \in TxObject
    BY <1>5 DEF LogUpdate, Shape, TxOK
  <2> QED
    BY <2>2, <2>4, <2>5 DEF NoteBeforeImage, TxOK, TxObject
<1> QED
    BY <1>1, <1>2, <1>3, <1>4, <1>5, WritersOfTx

\* Every step keeps the history in shape.
LEMMA HistKept == Shape /\ NamesExist /\ [Next]_vars => HistOK'
<1> SUFFICES ASSUME Shape, NamesExist, [Next]_vars PROVE HistOK'
    OBVIOUS
<1>1. CASE UNCHANGED hist
    BY <1>1 DEF Shape, HistOK, hist
<1>2. CASE BeginTx
  <2>1. base' \in Seq(Row) /\ goal' \in Seq(Row)
    BY <1>2 DEF BeginTx, Shape, StoreOK
  <2>2. txs' \in Nat /\ crashes' \in Nat /\ twice' \subseteq Recnos
    BY <1>2 DEF BeginTx, Shape, HistOK
  <2>3. committed' \in BOOLEAN /\ acked' \in BOOLEAN
    BY <1>2 DEF BeginTx
  <2>4. skew' \in BOOLEAN
    BY <1>2 DEF BeginTx
  <2>5. outage' \in BOOLEAN
    BY <1>2 DEF BeginTx, Shape, HistOK
  <2> QED
    BY <2>1, <2>2, <2>3, <2>4, <2>5 DEF HistOK
<1>3. CASE CommitTx \/ EndTx
    BY <1>3 DEF CommitTx, EndTx, Shape, StoreOK, HistOK
<1>4. CASE Crash \/ PowerLoss
  <2>1. crashes' \in Nat /\ UNCHANGED <<base, acked, twice, skew, txs>>
    BY <1>4 DEF Crash, PowerLoss, Die, Shape, HistOK
  <2>2. goal' \in {goal, base} /\ committed' \in {committed, FALSE} /\ outage' \in {outage, TRUE}
    BY <1>4 DEF Crash, PowerLoss
  <2> QED
    BY <2>1, <2>2 DEF Shape, HistOK
<1>5. ASSUME NEW r \in Recnos, NEW new \in Row, LogUpdate(r, new) PROVE HistOK'
    BY <1>5 DEF LogUpdate, Shape, HistOK
<1> QED
    BY <1>1, <1>2, <1>3, <1>4, <1>5, WritersOfHistory

\* Every step keeps the call in progress and the orphan's job in shape.
LEMMA CallKept == Shape /\ NamesExist /\ [Next]_vars => CallOK'
<1> SUFFICES ASSUME Shape, NamesExist, [Next]_vars PROVE CallOK'
    OBVIOUS
<1>1. CASE BeginTx \/ Close \/ CommitTx \/ FlushTx \/ EndTx \/ AbortOrphan \/ FlushMap
           \/ CutRecoveredLog \/ ClearMap \/ UNCHANGED vars
    BY <1>1 DEF BeginTx, Close, CommitTx, FlushTx, EndTx, AbortOrphan, FlushMap,
       CutRecoveredLog, ClearMap, vars, Shape, CallOK, Places
<1>2. CASE WriteRow \/ LogAppend \/ LogAbort \/ SaveTables \/ Crash \/ PowerLoss
    BY <1>2, IdleJob DEF WriteRow, LogAppend, LogAbort, SaveTables, Crash, PowerLoss, Die,
       CallOK, Places
<1>3. CASE AppendRow
  <2>1. Len(rows) + 1 \in Nat
    BY DEF Shape, StoreOK
  <2> QED
    BY <1>3, <2>1, IdleJob DEF AppendRow, NoJob, Job, CallOK, Places
<1>4. CASE RollbackTx
  <2>1. tx.before \subseteq Image /\ tx.appended \subseteq Recnos
    BY DEF Shape, TxOK, TxObject
  <2> QED
    BY <1>4, <2>1, IdleJob DEF RollbackTx, NoJob, Job, CallOK, Places
<1>5. CASE PopAppend \/ \E b \in job.images : RestoreImage(b)
    BY <1>5 DEF PopAppend, RestoreImage, Shape, CallOK, Job
<1>6. CASE \E r \in job.appends : DeleteAppend(r)
    BY <1>6 DEF DeleteAppend, Shape, CallOK, Job
<1>7. CASE Open
  <2>1. /\ log \in Seq(Record) /\ ReadAll(log) \in Seq(Record) /\ Len(ReadAll(log)) <= Len(log)
        /\ \A i \in 1..Len(ReadAll(log)) : ReadAll(log)[i] = log[i]
    BY ReadIsPrefix, ReadablePart DEF Shape, WalOK
  <2>2. {ReadAll(log)[i].recno : i \in OfType(ReadAll(log), "append")} \subseteq Recnos
    BY <2>1 DEF OfType, NamesExist, RecordNames
  <2>3. OfType(ReadAll(log), "update") \subseteq Nat
    BY <2>1 DEF OfType
  <2>4. job' \in Job
    BY <1>7, <2>2, <2>3, IdleJob DEF Open, NoJob, Job
  <2> QED
    BY <1>7, <2>4 DEF Open, CallOK, Places
<1>8. CASE UndoUpdate
  <2> DEFINE applied == lsnMap[log[Max(job.updates)].recno] >= log[Max(job.updates)].lsn
  <2>1. (job.opened \/ ~applied) \in BOOLEAN
    BY DEF Shape, CallOK, Job
  <2>2. job' = [job EXCEPT !.updates = @ \ {Max(job.updates)}, !.opened = @ \/ ~applied]
    BY <1>8 DEF UndoUpdate
  <2>3. pc' = pc
    BY <1>8 DEF UndoUpdate
  <2> HIDE DEF applied
  <2> QED
    BY <2>1, <2>2, <2>3 DEF Shape, CallOK, Job
<1>9. ASSUME NEW r \in Recnos, NEW new \in Row, LogUpdate(r, new) PROVE CallOK'
  <2>1. job' = [NoJob EXCEPT !.recno = r, !.new = new] /\ pc' = "write"
    BY <1>9 DEF LogUpdate
  <2>2. r \in Nat
    BY DEF Recnos
  <2> QED
    BY <2>1, <2>2, IdleJob DEF Job, CallOK, Places
<1> QED
    BY <1>1, <1>2, <1>3, <1>4, <1>5, <1>6, <1>7, <1>8, <1>9
       DEF Next, TxStep, CallStep, RecoveryStep

\* Every step keeps the shape.
LEMMA ShapeKept == Shape /\ NamesExist /\ [Next]_vars => Shape'
BY StoreKept, WalKept, MapsKept, TxKept, CallKept, HistKept DEF Shape

\* What is named is there.
LEMMA NamesKept == Shape /\ NamesExist /\ [Next]_vars => NamesExist'
<1> SUFFICES ASSUME Shape, NamesExist, [Next]_vars PROVE NamesExist'
    OBVIOUS
<1>1. ActiveInTx'
  <2>1. CASE tx' = tx /\ pc' \in {"tx", "write", "note", "rollback", "flush", "end"}
    BY <2>1 DEF ActiveInTx, InTx
  <2>2. CASE ~tx'.active
    BY <2>2 DEF ActiveInTx
  <2>3. CASE tx' = tx /\ pc \notin {"tx", "write", "note", "rollback", "flush", "end"}
    BY <2>3, <2>2 DEF NamesExist, ActiveInTx, InTx
  <2>4. CASE BeginTx \/ LogAppend \/ \E r \in Recnos, new \in Row : LogUpdate(r, new)
    BY <2>4 DEF BeginTx, LogAppend, LogUpdate, ActiveInTx, InTx
  <2>5. CASE EndTx \/ Crash \/ PowerLoss
    BY <2>5, <2>2 DEF EndTx, Crash, PowerLoss, Die, IdleTx
  <2>6. CASE AppendRow \/ CommitTx \/ RollbackTx \/ WriteRow \/ LogAbort \/ FlushTx
    BY <2>6, <2>1 DEF AppendRow, CommitTx, RollbackTx, WriteRow, LogAbort, FlushTx
  <2>7. CASE Close \/ Open \/ RecoveryStep
    BY <2>7, <2>3 DEF Close, Open, RecoveryStep, UndoUpdate, DeleteAppend, AbortOrphan,
       SaveTables, FlushMap, CutRecoveredLog, ClearMap
  <2>8. CASE PopAppend \/ (\E b \in job.images : RestoreImage(b))
    BY <2>8, <2>1 DEF PopAppend, RestoreImage
  <2>9. CASE UNCHANGED vars
    BY <2>9 DEF vars, NamesExist, ActiveInTx, InTx
  <2> QED
    BY <2>4, <2>5, <2>6, <2>7, <2>8, <2>9 DEF Next, TxStep, CallStep
<1>2. CallNames'
  <2>1. CASE UNCHANGED vars
    BY <2>1 DEF vars, store, wal, NamesExist, CallNames, InFile
  <2>2. CASE pc' \notin {"write", "note", "undo"}
    BY <2>2 DEF CallNames
  <2>3. ASSUME NEW r \in Recnos, NEW new \in Row, LogUpdate(r, new) PROVE CallNames'
    <3>1. pc' = "write" /\ rows' = rows /\ job'.recno = r /\ InFile(r)
      BY <2>3 DEF LogUpdate, store, NoJob
    <3> QED
      BY <3>1 DEF CallNames, InFile
  <2>4. CASE AppendRow
    <3>1. pc' = "note" /\ rows' = Append(rows, BlankRow) /\ job'.recno = Len(rows) + 1
      BY <2>4 DEF AppendRow, NoJob
    <3>2. Len(rows') = Len(rows) + 1 /\ Len(rows) \in Nat
      BY <3>1, IdleJob, AppendProperties DEF Shape, StoreOK
    <3> QED
      BY <3>1, <3>2 DEF CallNames
  <2>5. CASE Open
    <3>1. /\ job'.updates \in {OfType(ReadAll(log), "update"), {}}
          /\ log' = log /\ pc' \notin {"write", "note"}
      BY <2>5 DEF Open, NoJob
    <3> QED
      BY <3>1 DEF CallNames
  <2>6. CASE UndoUpdate \/ \E r \in job.appends : DeleteAppend(r)
    <3>1. job'.updates \subseteq job.updates /\ log' = log /\ pc = "undo" /\ pc' = "undo"
      BY <2>6 DEF UndoUpdate, DeleteAppend, wal, Shape, CallOK, Job
    <3> QED
      BY <3>1 DEF NamesExist, CallNames
  <2>7. CASE PopAppend \/ \E b \in job.images : RestoreImage(b)
    BY <2>7, <2>2 DEF RestoreImage, PopAppend
  <2>8. CASE BeginTx \/ Close \/ CommitTx \/ RollbackTx \/ WriteRow \/ LogAppend \/ LogAbort \/ FlushTx \/ EndTx
    BY <2>8, <2>2 DEF BeginTx, Close, CommitTx, RollbackTx, WriteRow, LogAppend, LogAbort, FlushTx, EndTx
  <2>9. CASE AbortOrphan \/ SaveTables \/ FlushMap \/ CutRecoveredLog \/ ClearMap \/ Crash \/ PowerLoss
    BY <2>9, <2>2 DEF AbortOrphan, SaveTables, FlushMap, CutRecoveredLog, ClearMap, Crash, PowerLoss, Die
  <2> QED
    BY <2>1, <2>3, <2>4, <2>5, <2>6, <2>7, <2>8, <2>9 DEF Next, TxStep, CallStep, RecoveryStep
<1>3. RecordNames'
  <2>1. CASE UNCHANGED log
    BY <2>1 DEF NamesExist, RecordNames
  <2>2. ASSUME NEW type \in {"begin", "update", "append", "commit", "abort"},
               NEW recno \in Nat, NEW before \in Row \cup {NoImage},
               LogRecord(type, recno, before),
               type \in {"update", "append"} => recno \in Recnos,
               type = "update" => before \in Row
        PROVE  RecordNames'
    <3>1. /\ Len(log') = Len(log) + 1 /\ Len(log) \in Nat
          /\ log'[Len(log) + 1] =
                  [type |-> type, lsn |-> nextLsn, recno |-> recno, before |-> before]
          /\ \A i \in 1..Len(log) : log'[i] = log[i]
      BY <2>2, Logged DEF Shape, WalOK
    <3> QED
      BY <3>1, <2>2 DEF NamesExist, RecordNames
  <2>3. ASSUME NEW r \in Recnos, NEW new \in Row, LogUpdate(r, new) PROVE RecordNames'
    <3>1. r \in Nat /\ rows[r] \in Row /\ LogRecord("update", r, rows[r])
      BY <2>3 DEF LogUpdate, InFile, Shape, StoreOK, Recnos
    <3> QED
      BY <3>1, <2>2
  <2>4. CASE LogAppend
    <3>1. job.recno \in Nat /\ job.recno \in Recnos /\ LogRecord("append", job.recno, NoImage)
      BY <2>4 DEF LogAppend, NamesExist, CallNames, Shape, StoreOK, CallOK, Job, Recnos
    <3> QED
      BY <3>1, <2>2
  <2>5. CASE BeginTx \/ CommitTx \/ LogAbort \/ (AbortOrphan /\ ~Ended(ReadAll(log)))
    <3>1. \E type \in {"begin", "commit", "abort"} : LogRecord(type, 0, NoImage)
      BY <2>5 DEF BeginTx, CommitTx, LogAbort, AbortOrphan
    <3> QED
      BY <3>1, <2>2
  <2>6. CASE EndTx \/ CutRecoveredLog
    <3>1. log' = <<>>
      BY <2>6 DEF EndTx, CutRecoveredLog, CutLog
    <3> QED
      BY <3>1 DEF RecordNames
  <2>7. CASE PowerLoss
    <3>1. \A i \in 1..Len(log') : log'[i] = Torn \/ (i \in 1..Len(log) /\ log'[i] = log[i])
      BY <2>7, LogAfterLoss DEF Shape, WalOK
    <3> QED
      BY <3>1 DEF NamesExist, RecordNames, Torn
  <2> QED
    BY <2>1, <2>3, <2>4, <2>5, <2>6, <2>7, WritersOfLog DEF Logging, wal
<1> QED
    BY <1>1, <1>2, <1>3 DEF NamesExist

\* The log stays in order.
LEMMA OrderKept == Shape /\ NamesExist /\ LogInOrder /\ [Next]_vars => LogInOrder'
<1> SUFFICES ASSUME Shape, NamesExist, LogInOrder, [Next]_vars PROVE LogInOrder'
    OBVIOUS
<1>1. log \in Seq(Record) /\ Readable(log) \in 0..Len(log) /\ Len(log) \in Nat /\ nextLsn \in Nat \ {0}
      /\ \A i \in 1..Len(log) : log[i].lsn \in Nat
  <2>1. log \in Seq(Record) /\ nextLsn \in Nat \ {0}
    BY DEF Shape, WalOK
  <2>2. \A i \in 1..Len(log) : log[i] \in Record
    BY <2>1
  <2>3. \A i \in 1..Len(log) : log[i].lsn \in Nat
    BY <2>2 DEF Record
  <2>4. Readable(log) \in 0..Len(log)
    BY <2>1, ReadablePart
  <2> QED
    BY <2>1, <2>3, <2>4
<1>2. CASE Open
  <2>1. ReadAll(log) \in Seq(Record) /\ Len(ReadAll(log)) = Readable(log)
        /\ \A i \in 1..Readable(log) : ReadAll(log)[i] = log[i]
    BY <1>1, ReadIsPrefix
  <2>2. ASSUME NEW i \in 1..Readable(log) PROVE log[i].lsn < nextLsn'
    <3>1. ReadAll(log) # <<>> /\ Readable(log) \in 1..Readable(log)
      BY <1>1, <2>1, EmptySeq
    <3>2. nextLsn' = log[Readable(log)].lsn + 1
      BY <1>2, <2>1, <3>1 DEF Open, ResumedLsn, Last
    <3>3. i = Readable(log) \/ log[i].lsn < log[Readable(log)].lsn
      BY <1>1, <3>1 DEF LogInOrder
    <3> QED
      BY <1>1, <3>1, <3>2, <3>3
  <2>3. log' = log
    BY <1>2 DEF Open
  <2> QED
    BY <2>2, <2>3 DEF LogInOrder
<1>3. CASE Logging
  <2>1. PICK type \in {"begin", "update", "append", "commit", "abort"},
             recno \in Nat, before \in Row \cup {NoImage} :
             LogRecord(type, recno, before) /\ (Unsynced \/ SyncLog)
    BY <1>3, LogGrows
  <2> DEFINE e == [type |-> type, lsn |-> nextLsn, recno |-> recno, before |-> before]
  <2>2. /\ log' \in Seq(Record) /\ Len(log') = Len(log) + 1 /\ nextLsn' = nextLsn + 1
        /\ log'[Len(log) + 1] = e /\ e.lsn = nextLsn
        /\ \A i \in 1..Len(log) : log'[i] = log[i]
    BY <2>1, Logged
  <2>3. e \in Record /\ e.type # "torn" /\ log' = Append(log, e)
    BY <1>1, <2>1 DEF LogRecord, Record
  <2> HIDE DEF e
  <2>4. Readable(log') = IF Readable(log) = Len(log) THEN Len(log) + 1 ELSE Readable(log)
    BY <1>1, <2>3, ReadableAfterAppend
  <2>5. pc # "closed"
    BY <1>3 DEF Logging, BeginTx, LogAppend, CommitTx, LogAbort, LogUpdate, AbortOrphan
  <2>6. \A i \in 1..Readable(log) : log[i].lsn \in Nat \ {0} /\ log[i].lsn < nextLsn
    BY <1>1, <2>5 DEF LogInOrder
  <2>7. CASE Readable(log) = Len(log)
    BY <1>1, <2>2, <2>4, <2>6, <2>7 DEF LogInOrder
  <2>8. CASE Readable(log) # Len(log)
    <3>1. /\ Readable(log') = Readable(log)
          /\ \A i \in 1..Readable(log) : log'[i] = log[i] /\ log[i].lsn < nextLsn'
      BY <1>1, <2>2, <2>4, <2>6, <2>8
    <3> QED
      BY <3>1 DEF LogInOrder
  <2> QED
    BY <2>7, <2>8
<1>4. CASE UNCHANGED wal
  <2>1. pc' # "closed" => pc # "closed" \/ Open
    BY DEF Next, TxStep, CallStep, RecoveryStep, vars, BeginTx, LogUpdate, AppendRow, CommitTx,
       RollbackTx, Close, WriteRow, LogAppend, RestoreImage, PopAppend, LogAbort, FlushTx, EndTx,
       UndoUpdate, DeleteAppend, AbortOrphan, SaveTables, FlushMap, CutRecoveredLog, ClearMap,
       Crash, PowerLoss, Die
  <2> QED
    BY <1>4, <1>2, <2>1 DEF LogInOrder, wal
<1>5. CASE EndTx \/ CutRecoveredLog
  <2>1. log' = <<>> /\ <<>> \in Seq(Record) /\ Len(<<>>) = 0
    BY <1>5 DEF EndTx, CutRecoveredLog, CutLog
  <2>2. Readable(log') \in 0..Len(log')
    BY <2>1, ReadablePart
  <2>3. Readable(log') = 0
    BY <2>1, <2>2
  <2> QED
    BY <2>3 DEF LogInOrder
<1>6. CASE PowerLoss
  <2>1. pc' = "closed" /\ log' \in Seq(Record)
        /\ \A i \in 1..Readable(log') : i <= Readable(log) /\ log'[i] = log[i]
    BY <1>6, LogAfterLoss DEF PowerLoss, Die
  <2>2. \A i \in 1..Readable(log') : i \in 1..Readable(log)
    BY <1>1, <2>1, ReadablePart
  <2> QED
    BY <2>1, <2>2 DEF LogInOrder
<1> QED
    BY <1>2, <1>3, <1>4, <1>5, <1>6, WritersOfLog

-----------------------------------------------------------------------------
(* Commits are kept *)

\* Only an ending transaction is committed, and its rows stay its own.
LEMMA CommitsKept == Shape /\ CommitsAtEnd /\ [Next]_vars => CommitsAtEnd'
<1> SUFFICES ASSUME Shape, CommitsAtEnd, [Next]_vars PROVE CommitsAtEnd'
    OBVIOUS
<1>1. CASE BeginTx \/ AppendRow \/ RollbackTx \/ WriteRow \/ LogAppend \/ PopAppend
           \/ (\E b \in job.images : RestoreImage(b))
           \/ (\E r \in Recnos, new \in Row : LogUpdate(r, new))
  <2>1. pc' \in {"tx", "write", "note", "rollback"}
    BY <1>1 DEF BeginTx, AppendRow, RollbackTx, WriteRow, LogAppend, PopAppend, RestoreImage, LogUpdate
  <2>2. BeginTx \/ (committed' = committed /\ (InTx \/ pc = "rollback"))
    BY <1>1 DEF AppendRow, RollbackTx, WriteRow, LogAppend, PopAppend, RestoreImage, LogUpdate, hist, InTx
  <2>3. ~committed'
    BY <2>2 DEF BeginTx, CommitsAtEnd
  <2> QED
    BY <2>1, <2>3 DEF CommitsAtEnd
<1>2. CASE CommitTx
    BY <1>2 DEF CommitTx, store, CommitsAtEnd, InTx
<1>3. CASE LogAbort
    BY <1>3 DEF LogAbort, hist, CommitsAtEnd, InTx
<1>4. CASE FlushTx
    BY <1>4 DEF FlushTx, hist, CommitsAtEnd, InTx
<1>5. CASE EndTx \/ Close \/ Open \/ RecoveryStep \/ Crash \/ PowerLoss
  <2>1. pc' \in {"idle", "closed", "undo", "save", "map", "cut", "clear"}
    BY <1>5 DEF EndTx, Close, Open, RecoveryStep, Crash, PowerLoss, Die, UndoUpdate, DeleteAppend,
       AbortOrphan, SaveTables, FlushMap, CutRecoveredLog, ClearMap
  <2> QED
    BY <2>1 DEF CommitsAtEnd, InTx
<1>6. CASE UNCHANGED vars
    BY <1>6 DEF vars, store, hist, CommitsAtEnd, InTx
<1> QED
    BY <1>1, <1>2, <1>3, <1>4, <1>5, <1>6 DEF Next, TxStep, CallStep

\* What was acknowledged stays flushed, and no log comes to speak of it.
LEMMA AckedKept == Shape /\ CommitsAtEnd /\ AckedIsSafe /\ [Next]_vars => AckedIsSafe'
<1> SUFFICES ASSUME Shape, CommitsAtEnd, AckedIsSafe, [Next]_vars, acked'
             PROVE  /\ pc' \in {"idle", "closed"}
                    /\ log' = <<>> /\ rows' = safe' /\ rows' = goal'
    BY DEF AckedIsSafe
<1>1. CASE EndTx
  <2>1. committed /\ tx.ops # <<>> /\ pc = "end"
    BY <1>1 DEF EndTx
  <2>2. rows = goal /\ safe = rows
    BY <2>1 DEF CommitsAtEnd
  <2> QED
    BY <1>1, <2>2 DEF EndTx, CutLog, store
<1>2. acked' => acked \/ EndTx
    BY WritersOfHistory DEF BeginTx, CommitTx, Crash, PowerLoss, Die, LogUpdate, hist
<1>3. CASE acked
  <2>1. pc \in {"idle", "closed"} /\ log = <<>> /\ rows = safe /\ rows = goal
    BY <1>3 DEF AckedIsSafe
  <2>2. ~BeginTx
    BY DEF BeginTx
  <2>3. CASE Close \/ Crash \/ UNCHANGED vars
    BY <2>1, <2>3 DEF Close, Crash, Die, vars, store, wal, hist
  <2>4. CASE Open
    <3>1. ReadAll(log) = <<>>
      <4>1. log \in Seq(Record) /\ Len(log) = 0
        BY <2>1 DEF Shape, WalOK
      <4>2. Readable(log) = 0
        <5>1. Readable(log) \in 0..Len(log)
          BY <4>1, ReadablePart
        <5> QED
          BY <4>1, <5>1
      <4>3. ReadAll(log) \in Seq(Record) /\ Len(ReadAll(log)) = 0
        BY <4>1, <4>2, ReadIsPrefix
      <4> QED
        BY <4>3, EmptySeq
    <3> QED
      BY <2>1, <2>4, <3>1 DEF Open, store, hist
  <2>5. CASE PowerLoss
    <3>1. rows' = rows /\ safe' = rows
      BY <2>1, <2>5, SurvivorsAreTables DEF PowerLoss, Shape
    <3>2. log' = <<>>
      <4>1. log \in Seq(Record) /\ synced \in Nat /\ Len(log) = 0
        BY <2>1 DEF Shape, WalOK
      <4>2. PICK n \in synced..0 : log' = SubSeq(<<>>, 1, n) \/ n < 0
        BY <2>1, <2>5, <4>1 DEF PowerLoss
      <4>3. n = 0
        BY <4>1, <4>2
      <4> QED
        BY <4>2, <4>3, SubSeqEmpty
    <3>3. ~HasRecord(log, "commit")
      BY <2>1 DEF HasRecord
    <3> QED
      BY <2>1, <2>5, <3>1, <3>2, <3>3 DEF PowerLoss, Die
  <2>6. \/ pc # "idle" /\ pc # "closed"
        \/ Close \/ Crash \/ UNCHANGED vars \/ Open \/ PowerLoss \/ BeginTx
    BY DEF Next, TxStep, CallStep, RecoveryStep, LogUpdate, AppendRow, CommitTx, RollbackTx,
       WriteRow, LogAppend, RestoreImage, PopAppend, LogAbort, FlushTx, EndTx, UndoUpdate,
       DeleteAppend, AbortOrphan, SaveTables, FlushMap, CutRecoveredLog, ClearMap
  <2> QED
    BY <2>1, <2>2, <2>3, <2>4, <2>5, <2>6
<1> QED
    BY <1>1, <1>2, <1>3

\* Power is lost only in a power failure.
LEMMA OutageSteps == [Next]_vars /\ ~outage' => ~outage /\ ~PowerLoss
BY WritersOfHistory DEF BeginTx, CommitTx, EndTx, Crash, PowerLoss, LogUpdate, hist

\* Without a power failure no record of the log is lost or torn.
LEMMA LogStaysWhole == Shape /\ NamesExist /\ LogWhole /\ [Next]_vars => LogWhole'
<1> SUFFICES ASSUME Shape, NamesExist, LogWhole, [Next]_vars, ~outage'
             PROVE  \A i \in 1..Len(log') : log'[i].type # "torn"
    BY DEF LogWhole
<1>1. ~PowerLoss /\ \A i \in 1..Len(log) : log[i].type # "torn"
    BY OutageSteps DEF LogWhole
<1>2. CASE Logging
  <2>1. PICK type \in {"begin", "update", "append", "commit", "abort"},
             recno \in Nat, before \in Row \cup {NoImage} :
             LogRecord(type, recno, before) /\ (Unsynced \/ SyncLog)
    BY <1>2, LogGrows
  <2>2. /\ Len(log') = Len(log) + 1 /\ Len(log) \in Nat
        /\ log'[Len(log) + 1].type = type
        /\ \A i \in 1..Len(log) : log'[i] = log[i]
    <3>1. Len(log') = Len(log) + 1 /\ \A i \in 1..Len(log) : log'[i] = log[i]
      BY <2>1, Logged
    <3>2. log'[Len(log) + 1] =
              [type |-> type, lsn |-> nextLsn, recno |-> recno, before |-> before]
      BY <2>1, Logged
    <3> QED
      BY <3>1, <3>2 DEF Shape, WalOK
  <2> QED
    BY <1>1, <2>2
<1>3. CASE EndTx \/ CutRecoveredLog
    BY <1>3 DEF EndTx, CutRecoveredLog, CutLog
<1> QED
    BY <1>1, <1>2, <1>3, WritersOfLog DEF wal

\* While the machine keeps its power, recovery reads the whole log.
LEMMA LogIsRead == Shape /\ LogWhole /\ ~outage => ReadAll(log) = log /\ Readable(log) = Len(log)
BY WholeIsRead DEF Shape, WalOK, LogWhole

\* The log begins and ends with the transaction.
LEMMA LogOfTxKept ==
    Shape /\ NamesExist /\ CommitsAtEnd /\ LogWhole /\ LogOfTx /\ [Next]_vars => LogOfTx'
<1> SUFFICES ASSUME Shape, NamesExist, CommitsAtEnd, LogWhole, LogOfTx, [Next]_vars, ~outage'
             PROVE  LogOfTx'
    BY DEF LogOfTx
<1>1. ~outage /\ ~PowerLoss /\ ReadAll(log) = log
    BY OutageSteps, LogIsRead
<1>2. /\ pc \in {"idle", "clear"} => log = <<>>
      /\ InTx \/ pc \in {"rollback", "undo", "save", "map", "cut"} => log # <<>>
      /\ InTx \/ pc = "rollback" => ~Ended(log)
      /\ pc \in {"save", "map", "cut"} => Ended(log)
      /\ ~committed => ~HasRecord(log, "commit")
    BY <1>1 DEF LogOfTx
<1>3. CASE BeginTx
  <2>1. log = <<>> /\ LogRecord("begin", 0, NoImage)
    BY <1>2, <1>3 DEF BeginTx
  <2>2. log' # <<>> /\ \A t : HasRecord(log', t) <=> HasRecord(log, t) \/ "begin" = t
    BY <2>1, Logged
  <2>3. \A t : ~HasRecord(log, t)
    BY <2>1 DEF HasRecord
  <2> QED
    BY <1>3, <2>2, <2>3 DEF BeginTx, LogOfTx, Ended
<1>4. CASE LogAppend \/ (\E r \in Recnos, new \in Row : LogUpdate(r, new))
  <2>1. \E type \in {"append", "update"}, recno \in Nat, before \in Row \cup {NoImage} :
            LogRecord(type, recno, before)
    <3>1. CASE LogAppend
      BY <3>1 DEF LogAppend, Shape, CallOK, Job
    <3>2. ASSUME NEW r \in Recnos, NEW new \in Row, LogUpdate(r, new)
          PROVE  r \in Nat /\ rows[r] \in Row /\ LogRecord("update", r, rows[r])
      BY <3>2 DEF LogUpdate, InFile, Recnos, Shape, StoreOK
    <3> QED
      BY <1>4, <3>1, <3>2
  <2>2. log' # <<>> /\ \A t : HasRecord(log', t) => HasRecord(log, t) \/ t \in {"append", "update"}
    BY <2>1, Logged
  <2>3. InTx /\ pc' \in {"tx", "write"} /\ committed' = committed
    BY <1>4 DEF LogAppend, LogUpdate, InTx, hist
  <2> QED
    BY <1>2, <2>2, <2>3 DEF LogOfTx, Ended
<1>5. CASE CommitTx
    BY <1>5 DEF CommitTx, LogOfTx, InTx
<1>6. CASE LogAbort
  <2>1. pc' = "flush" /\ committed' = committed /\ LogRecord("abort", 0, NoImage)
    BY <1>6 DEF LogAbort, hist
  <2>2. HasRecord(log', "commit") => HasRecord(log, "commit")
    BY <2>1, Logged
  <2> QED
    BY <1>2, <2>1, <2>2 DEF LogOfTx, InTx
<1>7. CASE AbortOrphan
  <2>1. pc' = "save" /\ committed' = committed /\ pc = "undo"
    BY <1>7 DEF AbortOrphan, hist
  <2>2. CASE Ended(log)
    <3>1. log' = log
      BY <1>1, <1>7, <2>2 DEF AbortOrphan, wal
    <3> QED
      BY <1>2, <2>1, <2>2, <3>1 DEF LogOfTx, InTx
  <2>3. CASE ~Ended(log)
    <3>1. LogRecord("abort", 0, NoImage)
      BY <1>1, <1>7, <2>3 DEF AbortOrphan
    <3>2. log' # <<>> /\ \A t : HasRecord(log', t) <=> HasRecord(log, t) \/ "abort" = t
      BY <3>1, Logged
    <3> QED
      BY <1>2, <2>1, <3>2 DEF LogOfTx, InTx, Ended
  <2> QED
    BY <2>2, <2>3
<1>8. CASE EndTx \/ CutRecoveredLog
    BY <1>8 DEF EndTx, CutRecoveredLog, CutLog, LogOfTx, InTx, HasRecord
<1>9. CASE Open
    BY <1>1, <1>2, <1>9 DEF Open, hist, LogOfTx, InTx
<1>10. CASE AppendRow \/ RollbackTx \/ WriteRow \/ PopAppend \/ (\E b \in job.images : RestoreImage(b))
    BY <1>2, <1>10 DEF AppendRow, RollbackTx, WriteRow, PopAppend, RestoreImage, wal, hist, LogOfTx, InTx
<1>11. CASE UndoUpdate \/ (\E r \in job.appends : DeleteAppend(r)) \/ SaveTables \/ FlushMap \/ ClearMap
    BY <1>2, <1>11 DEF UndoUpdate, DeleteAppend, SaveTables, FlushMap, ClearMap, wal, hist, LogOfTx, InTx
<1>12. CASE FlushTx \/ Close \/ Crash \/ UNCHANGED vars
    BY <1>2, <1>12 DEF FlushTx, Close, Crash, Die, vars, wal, hist, LogOfTx, InTx
<1> QED
    BY <1>1, <1>3, <1>4, <1>5, <1>6, <1>7, <1>8, <1>9, <1>10, <1>11, <1>12
       DEF Next, TxStep, CallStep, RecoveryStep

\* Nothing undoes what is committed.
LEMMA CommittedIsKept ==
    Shape /\ NamesExist /\ CommitsAtEnd /\ LogWhole /\ LogOfTx /\ CommittedStays
        /\ [Next]_vars => CommittedStays'
<1> SUFFICES ASSUME Shape, NamesExist, CommitsAtEnd, LogWhole, LogOfTx, CommittedStays,
                    [Next]_vars, committed', ~outage'
             PROVE  /\ rows' = goal'
                    /\ log' = <<>> \/ HasRecord(log', "commit")
                    /\ pc' = "undo" => job'.updates = {} /\ job'.appends = {}
    BY DEF CommittedStays
<1>1. ~outage /\ ~PowerLoss
    BY OutageSteps
<1>2. CASE CommitTx
    BY <1>2, Logged DEF CommitTx, store
<1>3. committed \/ CommitTx
    BY <1>1, WritersOfHistory DEF BeginTx, EndTx, Crash, LogUpdate, hist
<1>4. CASE committed
  <2>1. /\ rows = goal /\ ~InTx /\ pc # "rollback"
        /\ log = <<>> \/ HasRecord(log, "commit")
        /\ pc = "undo" => job.updates = {} /\ job.appends = {}
    BY <1>1, <1>4 DEF CommittedStays, CommitsAtEnd
  <2>2. ~BeginTx
    BY DEF BeginTx
  <2>3. CASE Close \/ Crash \/ FlushTx \/ FlushMap \/ SaveTables \/ ClearMap \/ UNCHANGED vars
    BY <2>1, <2>3 DEF Close, Crash, Die, FlushTx, FlushMap, SaveTables, ClearMap, vars, store, wal, hist
  <2>4. CASE EndTx \/ CutRecoveredLog
    BY <2>1, <2>4 DEF EndTx, CutRecoveredLog, CutLog, store, hist
  <2>5. CASE Open
    <3>1. ReadAll(log) = log
      BY <1>1, LogIsRead
    <3>2. Ended(log) \/ log = <<>>
      BY <2>1 DEF Ended
    <3> QED
      BY <2>1, <2>5, <3>1, <3>2 DEF Open, NoJob, store, hist
  <2>6. CASE AbortOrphan
    <3>1. pc' # "undo" /\ rows' = rows /\ goal' = goal
      BY <2>6 DEF AbortOrphan, store, hist
    <3>2. log' = <<>> \/ HasRecord(log', "commit")
      <4>1. ReadAll(log) = log
        BY <1>1, LogIsRead
      <4>2. CASE Ended(log)
        BY <2>1, <2>6, <4>1, <4>2 DEF AbortOrphan, wal
      <4>3. CASE ~Ended(log)
        <5>1. log = <<>>
          BY <2>1, <4>3 DEF Ended
        <5>2. log # <<>>
          BY <1>1, <2>6 DEF AbortOrphan, LogOfTx
        <5> QED
          BY <5>1, <5>2
      <4> QED
        BY <4>2, <4>3
    <3> QED
      BY <2>1, <3>1, <3>2
  <2>7. ~(UndoUpdate \/ \E r \in job.appends : DeleteAppend(r))
    BY <2>1 DEF UndoUpdate, DeleteAppend
  <2> QED
    BY <2>1, <2>2, <2>3, <2>4, <2>5, <2>6, <2>7, <1>1, <1>2
       DEF Next, TxStep, CallStep, RecoveryStep, InTx, LogUpdate, AppendRow, RollbackTx,
       WriteRow, LogAppend, RestoreImage, PopAppend, LogAbort
<1> QED
    BY <1>2, <1>3, <1>4

-----------------------------------------------------------------------------
(* What the log and the Tx object tell *)

\* Only a new transaction changes what there is to undo.
LEMMA UndoableSteps ==
    ASSUME Shape, [Next]_vars, Undoable'
    PROVE  /\ ~outage /\ ~PowerLoss /\ ~CommitTx
           /\ \/ BeginTx
              \/ Undoable /\ UNCHANGED <<base, goal, committed, skew, outage>>
                 /\ (UNCHANGED twice \/ \E r \in Recnos, new \in Row : LogUpdate(r, new))
<1>1. ~outage /\ ~PowerLoss
    BY OutageSteps DEF Undoable
<1>2. ~CommitTx
    BY DEF CommitTx, Undoable
<1>3. CASE UNCHANGED hist \/ EndTx \/ Crash
  <2>1. UNCHANGED <<base, goal, committed, skew, outage, twice>>
    BY <1>3 DEF EndTx, Crash, Die, hist
  <2> QED
    BY <1>1, <1>2, <2>1 DEF Undoable
<1>4. CASE \E r \in Recnos, new \in Row : LogUpdate(r, new)
  <2>1. UNCHANGED <<base, goal, committed, skew, outage>>
    BY <1>4 DEF LogUpdate
  <2> QED
    BY <1>1, <1>2, <1>4, <2>1 DEF Undoable
<1> QED
    BY <1>1, <1>2, <1>3, <1>4, WritersOfHistory

\* The updates and appends in the log after one more record.
LEMMA LoggedTells ==
    ASSUME Shape, NEW type \in {"begin", "update", "append", "commit", "abort"},
           NEW recno \in Nat, NEW before \in Row \cup {NoImage},
           LogRecord(type, recno, before)
    PROVE  LET n == Len(log) + 1
           IN  /\ Updates' = IF type = "update" THEN Updates \cup {n} ELSE Updates
               /\ Appends' = IF type = "append" THEN Appends \cup {n} ELSE Appends
               /\ n \notin Updates /\ n \notin Appends
               /\ \A i \in Updates \cup Appends : log'[i] = log[i]
               /\ log'[n].recno = recno /\ log'[n].before = before
<1> DEFINE n == Len(log) + 1
<1>1. log \in Seq(Record) /\ Len(log) \in Nat
    BY DEF Shape, WalOK
<1>2. log'[n] = [type |-> type, lsn |-> nextLsn, recno |-> recno, before |-> before]
      /\ \A i \in 1..Len(log) : log'[i] = log[i]
    BY Logged
<1>3. \A t : OfType(log', t) = IF type = t THEN OfType(log, t) \cup {n} ELSE OfType(log, t)
    BY Logged
<1>4. Updates' = OfType(log', "update") /\ Appends' = OfType(log', "append")
    BY DEF Updates, Appends
<1>5. Updates \subseteq 1..Len(log) /\ Appends \subseteq 1..Len(log)
    BY DEF Updates, Appends, OfType
<1>6. n \notin 1..Len(log)
    BY <1>1
<1> QED
    BY <1>2, <1>3, <1>4, <1>5, <1>6 DEF Updates, Appends

\* What the steps do to the rows that were there at BEGIN.
LEMMA RowLengths ==
    Shape => /\ rows \in Seq(Row) /\ Len(rows) \in Nat /\ base \in Seq(Row) /\ Len(base) \in Nat
             /\ Old \subseteq Nat
BY DEF Shape, StoreOK, HistOK, Old

\* What writing a row does to the table and the map.
LEMMA Written ==
    ASSUME Shape, NamesExist, WriteRow
    PROVE  /\ job.recno \in 1..Len(rows) /\ Len(rows') = Len(rows)
           /\ \A r \in 1..Len(rows) : r # job.recno => rows'[r] = rows[r]
<1>1. job.new \in Row /\ job.recno \in 1..Len(rows)
    BY DEF WriteRow, NamesExist, CallNames, InFile, Shape, CallOK, Job
<1> QED
    BY <1>1, ExceptSeq DEF WriteRow, Shape, StoreOK

\* What appending a row does to the table.
LEMMA Appended ==
    ASSUME Shape, AppendRow
    PROVE  Len(rows') = Len(rows) + 1 /\ \A r \in 1..Len(rows) : rows'[r] = rows[r]
BY IdleJob, AppendProperties DEF AppendRow, Shape, StoreOK

\* What the image of a row before a write is.
LEMMA Imaged ==
    ASSUME Shape, NEW b \in job.images, RestoreImage(b), b.key \in 1..Len(rows)
    PROVE  /\ Len(rows') = Len(rows) /\ rows'[b.key] = b.image
           /\ \A r \in 1..Len(rows) : r # b.key => rows'[r] = rows[r]
<1>1. b.image \in Row
    BY DEF Shape, CallOK, Job, Image
<1> QED
    BY <1>1, ExceptSeq DEF RestoreImage, Shape, StoreOK

\* What taking the last appended row off the file leaves.
LEMMA Popped ==
    ASSUME Shape, PopAppend
    PROVE  /\ Len(rows) # 0 /\ Len(rows') = Len(rows) - 1
           /\ \A r \in 1..(Len(rows) - 1) : rows'[r] = rows[r]
<1>1. Len(rows) # 0
    BY DEF PopAppend, Shape, StoreOK, CallOK, Job, Recnos
<1> QED
    BY <1>1, FrontIs DEF PopAppend, Shape, StoreOK

\* What undoing one logged update does to the table and the map.
LEMMA Undone ==
    ASSUME Shape, NamesExist, UndoUpdate
    PROVE  LET u == log[Max(job.updates)]
           IN  /\ Len(rows') = Len(rows)
               /\ \A r \in 1..Len(rows) : r # u.recno => rows'[r] = rows[r]
               /\ ~(lsnMap[u.recno] >= u.lsn) /\ InFile(u.recno) => rows'[u.recno] = u.before
<1> DEFINE u == log[Max(job.updates)]
<1>1. u.before \in Row
    BY LastUpdate
<1>2. rows' = IF ~(lsnMap[u.recno] >= u.lsn) /\ InFile(u.recno)
              THEN [rows EXCEPT ![u.recno] = u.before] ELSE rows
    BY DEF UndoUpdate
<1> HIDE DEF u
<1>3. /\ Len(rows') = Len(rows)
      /\ \A r \in 1..Len(rows) : r # u.recno => rows'[r] = rows[r]
      /\ ~(lsnMap[u.recno] >= u.lsn) /\ InFile(u.recno) => rows'[u.recno] = u.before
    BY <1>1, <1>2, ExceptSeq DEF Shape, StoreOK, InFile
<1> QED
    BY <1>3 DEF u

\* What deleting one logged append does to the table.
LEMMA Deleted ==
    ASSUME Shape, NEW r \in job.appends, DeleteAppend(r)
    PROVE  /\ Len(rows') = Len(rows)
           /\ \A s \in 1..Len(rows) : s # r => rows'[s] = rows[s]
           /\ InFile(r) => rows'[r].del
<1>1. CASE InFile(r)
  <2>1. rows[r] \in Row /\ r \in 1..Len(rows)
    BY <1>1 DEF InFile, Shape, StoreOK
  <2>2. [rows[r] EXCEPT !.del = TRUE] \in Row /\ [rows[r] EXCEPT !.del = TRUE].del
    BY <2>1 DEF Row
  <2>3. rows' = [rows EXCEPT ![r] = [rows[r] EXCEPT !.del = TRUE]]
    BY <1>1 DEF DeleteAppend
  <2> QED
    BY <2>1, <2>2, <2>3, ExceptSeq DEF Shape, StoreOK
<1>2. CASE ~InFile(r)
    BY <1>2 DEF DeleteAppend
<1> QED
    BY <1>1, <1>2

\* The log goes on telling how the table got from where it was to where it is.
LEMMA LogTellsKept ==
    Shape /\ NamesExist /\ LogWhole /\ LogOfTx /\ LogTells /\ TxTells /\ RollbackTells
        /\ RecoveryTells /\ [Next]_vars => LogTells'
<1> SUFFICES ASSUME Shape, NamesExist, LogWhole, LogOfTx, LogTells, TxTells, RollbackTells,
                    RecoveryTells, [Next]_vars, Undoable'
             PROVE  LogTells'
    BY DEF LogTells
<1>1. ~outage /\ ~PowerLoss /\ ~CommitTx
    BY UndoableSteps
<1>2. /\ rows \in Seq(Row) /\ Len(rows) \in Nat /\ base \in Seq(Row) /\ Len(base) \in Nat
      /\ log \in Seq(Record)
    BY RowLengths DEF Shape, WalOK
<1>3. CASE BeginTx
  <2>1. LogRecord("begin", 0, NoImage) /\ pc = "idle" /\ rows' = rows /\ base' = rows /\ goal' = rows
    BY <1>3 DEF BeginTx, store
  <2>2. log = <<>>
    BY <1>1, <2>1 DEF LogOfTx
  <2>3. Updates = {} /\ Appends = {}
    BY <2>2 DEF Updates, Appends, OfType
  <2>4. Updates' = {} /\ Appends' = {}
    BY <2>1, <2>3, LoggedTells
  <2> QED
    BY <1>2, <2>1, <2>4 DEF LogTells, Old
<1>4. ASSUME ~BeginTx
      PROVE  /\ Undoable /\ UNCHANGED <<base, goal, Old>>
             /\ goal = base /\ Len(base) <= Len(rows)
             /\ \A i \in Appends : log[i].recno > Len(base)
             /\ log # <<>> /\ ~Ended(log) => \A r \in Old : rows[r] = base[r] \/ Updated(r)
             /\ \A i \in Updates : log[i].recno \in Old \ twice => log[i].before = base[log[i].recno]
             /\ \A i, j \in Updates : i # j /\ log[i].recno = log[j].recno => log[i].recno \in twice
    BY <1>4, UndoableSteps DEF LogTells, Old
\* Rows change, the log stays.
<1>5. ASSUME ~BeginTx, UNCHANGED <<log, twice>>, Len(base) <= Len(rows'),
             log # <<>> /\ ~Ended(log) => \A r \in Old : rows'[r] = base[r] \/ Updated(r)
      PROVE  LogTells'
    BY <1>4, <1>5 DEF LogTells, Updates, Appends, Updated, Old
<1>6. CASE UNCHANGED <<log, rows, twice>> /\ ~BeginTx
    BY <1>4, <1>5, <1>6
<1>7. CASE WriteRow
  <2>1. Undoable /\ pc = "write" /\ InTx /\ ~BeginTx /\ UNCHANGED <<log, twice>>
    BY <1>4, <1>7 DEF WriteRow, InTx, BeginTx, wal, hist
  <2>2. Updated(job.recno)
    BY <2>1 DEF TxTells
  <2>3. Len(rows') = Len(rows) /\ \A r \in 1..Len(rows) : r # job.recno => rows'[r] = rows[r]
    BY <1>7, Written
  <2>4. ASSUME NEW r \in Old, log # <<>> /\ ~Ended(log) PROVE rows'[r] = base[r] \/ Updated(r)
    BY <1>2, <1>4, <2>1, <2>2, <2>3, <2>4 DEF Old
  <2> QED
    BY <1>4, <1>5, <2>1, <2>3, <2>4
<1>8. CASE AppendRow
  <2>1. ~BeginTx /\ UNCHANGED <<log, twice>>
    BY <1>8 DEF AppendRow, BeginTx, wal, hist
  <2>2. Len(rows') = Len(rows) + 1 /\ \A r \in 1..Len(rows) : rows'[r] = rows[r]
    BY <1>8, Appended
  <2>3. \A r \in Old : rows'[r] = rows[r]
    BY <1>2, <1>4, <2>1, <2>2 DEF Old
  <2> QED
    BY <1>2, <1>4, <1>5, <2>1, <2>2, <2>3
<1>9. ASSUME NEW b \in job.images, RestoreImage(b) PROVE LogTells'
  <2>1. ~BeginTx /\ UNCHANGED <<log, twice>> /\ pc = "rollback" /\ Undoable
    BY <1>4, <1>9 DEF RestoreImage, BeginTx, wal, hist
  <2>2. b.key \in Old /\ b.image = base[b.key]
    BY <2>1 DEF RollbackTells
  <2>3. b.key \in 1..Len(rows)
    BY <1>2, <1>4, <2>1, <2>2 DEF Old
  <2>4. /\ Len(rows') = Len(rows) /\ rows'[b.key] = b.image
        /\ \A r \in 1..Len(rows) : r # b.key => rows'[r] = rows[r]
    BY <1>9, <2>3, Imaged
  <2>5. ASSUME NEW r \in Old, log # <<>> /\ ~Ended(log) PROVE rows'[r] = base[r] \/ Updated(r)
    BY <1>2, <1>4, <2>1, <2>2, <2>4, <2>5 DEF Old
  <2> QED
    BY <1>4, <1>5, <2>1, <2>4, <2>5
<1>10. CASE PopAppend
  <2>1. ~BeginTx /\ UNCHANGED <<log, twice>> /\ pc = "rollback" /\ Undoable /\ Len(rows) \in job.appends
    BY <1>4, <1>10 DEF PopAppend, BeginTx, wal, hist
  <2>2. Len(rows) \in (Len(base) + 1)..Len(rows)
    BY <2>1 DEF RollbackTells
  <2>3. Len(rows') = Len(rows) - 1 /\ \A r \in 1..(Len(rows) - 1) : rows'[r] = rows[r]
    BY <1>10, Popped
  <2>4. \A r \in Old : rows'[r] = rows[r]
    BY <1>2, <2>2, <2>3 DEF Old
  <2>5. Len(base) <= Len(rows')
    BY <1>2, <2>2, <2>3
  <2> QED
    BY <1>4, <1>5, <2>1, <2>4, <2>5
<1>11. CASE UndoUpdate
  <2>1. ~BeginTx /\ UNCHANGED <<log, twice>> /\ pc = "undo" /\ job.updates # {}
    BY <1>11 DEF UndoUpdate, BeginTx, wal, hist
  <2> DEFINE u == log[Max(job.updates)]
  <2>2. Updated(u.recno)
    <3>1. Max(job.updates) \in 1..Len(log) /\ u.type = "update"
      BY <1>11, LastUpdate
    <3> QED
      BY <3>1 DEF Updated, Updates, OfType
  <2>3. Len(rows') = Len(rows) /\ \A r \in 1..Len(rows) : r # u.recno => rows'[r] = rows[r]
    BY <1>11, Undone
  <2> HIDE DEF u
  <2>4. ASSUME NEW r \in Old, log # <<>> /\ ~Ended(log) PROVE rows'[r] = base[r] \/ Updated(r)
    BY <1>2, <1>4, <2>1, <2>2, <2>3, <2>4 DEF Old
  <2> QED
    BY <1>4, <1>5, <2>1, <2>3, <2>4
<1>12. ASSUME NEW d \in job.appends, DeleteAppend(d) PROVE LogTells'
  <2>1. ~BeginTx /\ UNCHANGED <<log, twice>> /\ pc = "undo" /\ Undoable
    BY <1>4, <1>12 DEF DeleteAppend, BeginTx, wal, hist
  <2>2. ~Ended(log) /\ \E i \in Appends : log[i].recno = d
    BY <1>1, <2>1 DEF RecoveryTells, Undoable
  <2>3. d > Len(base)
    BY <1>4, <2>1, <2>2
  <2>4. Len(rows') = Len(rows) /\ \A s \in 1..Len(rows) : s # d => rows'[s] = rows[s]
    BY <1>12, Deleted
  <2>5. \A r \in Old : rows'[r] = rows[r]
    BY <1>2, <1>4, <2>1, <2>3, <2>4 DEF Old
  <2> QED
    BY <1>4, <1>5, <2>1, <2>4, <2>5
\* The log changes, the rows stay.
<1>13. ASSUME NEW r \in Recnos, NEW new \in Row, LogUpdate(r, new) PROVE LogTells'
  <2>1. /\ ~BeginTx /\ pc = "tx" /\ InTx /\ Undoable /\ rows' = rows
        /\ r \in 1..Len(rows) /\ r \in Nat /\ rows[r] \in Row
        /\ LogRecord("update", r, rows[r])
        /\ twice' = IF \E i \in 1..Len(tx.ops) : tx.ops[i].key = r /\ ~tx.ops[i].isAppend
                    THEN twice \cup {r} ELSE twice
    BY <1>2, <1>4, <1>13 DEF LogUpdate, BeginTx, InTx, InFile, store
  <2> DEFINE n == Len(log) + 1
  <2>2. /\ Updates' = Updates \cup {n} /\ Appends' = Appends /\ n \notin Updates
        /\ \A i \in Updates \cup Appends : log'[i] = log[i]
        /\ log'[n].recno = r /\ log'[n].before = rows[r]
    BY <2>1, LoggedTells
  <2> HIDE DEF n
  <2>3. Updated(r) => r \in twice'
    BY <2>1 DEF TxTells, Updated
  <2>4. log # <<>> /\ ~Ended(log)
    BY <1>1, <2>1 DEF LogOfTx
  <2>5. \A s \in Old : rows[s] = base[s] \/ Updated(s)
    BY <1>4, <2>1, <2>4
  <2>6. /\ UNCHANGED <<base, goal, Old, rows>> /\ twice \subseteq twice'
        /\ goal = base /\ Len(base) <= Len(rows)
    BY <1>4, <2>1
  <2>7. \A i \in Appends' : log'[i].recno > Len(base)
    BY <1>4, <2>1, <2>2
  <2>8. \A s \in Old : rows[s] = base[s] \/ Updated(s)'
    BY <2>2, <2>5 DEF Updated
  <2>9. \A i \in Updates' : log'[i].recno \in Old \ twice' => log'[i].before = base[log'[i].recno]
    <3>1. r \in Old \ twice' => rows[r] = base[r]
      BY <2>3, <2>5
    <3>2. \A i \in Updates : log[i].recno \in Old \ twice' => log[i].before = base[log[i].recno]
      BY <1>4, <2>1, <2>6
    <3> QED
      BY <2>2, <3>1, <3>2
  <2>10. \A i, j \in Updates' : i # j /\ log'[i].recno = log'[j].recno => log'[i].recno \in twice'
    <3>1. \A i \in Updates : log[i].recno = r => r \in twice'
      BY <2>3 DEF Updated
    <3>2. \A i, j \in Updates : i # j /\ log[i].recno = log[j].recno => log[i].recno \in twice'
      BY <1>4, <2>1, <2>6
    <3> QED
      BY <2>2, <3>1, <3>2
  <2> QED
    BY <2>6, <2>7, <2>8, <2>9, <2>10 DEF LogTells
<1>14. CASE LogAppend
  <2>1. /\ ~BeginTx /\ pc = "note" /\ InTx /\ Undoable /\ rows' = rows /\ twice' = twice
        /\ job.recno = Len(rows) /\ LogRecord("append", job.recno, NoImage)
    BY <1>4, <1>14 DEF LogAppend, BeginTx, InTx, store, hist, NamesExist, CallNames
  <2>2. Len(base) < Len(rows)
    BY <2>1 DEF TxTells
  <2> DEFINE n == Len(log) + 1
  <2>3. /\ Updates' = Updates /\ Appends' = Appends \cup {n}
        /\ \A i \in Updates \cup Appends : log'[i] = log[i]
        /\ log'[n].recno = Len(rows)
    BY <1>2, <2>1, LoggedTells
  <2> HIDE DEF n
  <2>4. log # <<>> /\ ~Ended(log)
    BY <1>1, <2>1 DEF LogOfTx
  <2>5. \A i \in Appends' : log'[i].recno > Len(base)
    BY <1>2, <1>4, <2>1, <2>2, <2>3
  <2>6. \A s \in Old : rows[s] = base[s] \/ Updated(s)'
    BY <1>4, <2>1, <2>3, <2>4 DEF Updated
  <2> QED
    BY <1>4, <2>1, <2>3, <2>5, <2>6 DEF LogTells
<1>15. CASE LogAbort \/ (AbortOrphan /\ ~Ended(ReadAll(log)))
  <2>1. ~BeginTx /\ rows' = rows /\ twice' = twice /\ LogRecord("abort", 0, NoImage)
    BY <1>15 DEF LogAbort, AbortOrphan, BeginTx, store, hist
  <2>2. /\ Updates' = Updates /\ Appends' = Appends
        /\ \A i \in Updates \cup Appends : log'[i] = log[i]
    BY <2>1, LoggedTells
  <2>3. Ended(log')
    BY <2>1, Logged DEF Ended
  <2> QED
    BY <1>4, <2>1, <2>2, <2>3 DEF LogTells
<1>16. CASE EndTx \/ CutRecoveredLog
  <2>1. ~BeginTx /\ rows' = rows /\ log' = <<>>
    BY <1>16 DEF EndTx, CutRecoveredLog, CutLog, BeginTx, store
  <2>2. Updates' = {} /\ Appends' = {}
    BY <2>1 DEF Updates, Appends, OfType
  <2> QED
    BY <1>4, <2>1, <2>2 DEF LogTells
<1>17. CASE AbortOrphan /\ Ended(ReadAll(log))
    BY <1>6, <1>17 DEF AbortOrphan, store, wal, hist, BeginTx
<1>18. CASE Close \/ RollbackTx \/ FlushTx \/ Open \/ SaveTables \/ FlushMap \/ ClearMap \/ Crash \/ UNCHANGED vars
  <2>1. UNCHANGED <<log, rows, twice>>
    BY <1>18 DEF Close, RollbackTx, FlushTx, Open, SaveTables, FlushMap, ClearMap, Crash, Die, vars,
       store, wal, hist
  <2> QED
    BY <1>3, <1>6, <2>1
<1> QED
    BY <1>1, <1>3, <1>7, <1>8, <1>9, <1>10, <1>11, <1>12, <1>13, <1>14, <1>15, <1>16, <1>17, <1>18
       DEF Next, TxStep, CallStep, RecoveryStep

\* The undo list goes on telling the same, while the transaction lives.
LEMMA TxTellsKept ==
    Shape /\ NamesExist /\ LogTells /\ LogOfTx /\ TxTells /\ [Next]_vars => TxTells'
<1> SUFFICES ASSUME Shape, NamesExist, LogTells, LogOfTx, TxTells, [Next]_vars, Undoable', InTx'
             PROVE  TxTells'
    BY DEF TxTells
<1>1. ~outage /\ ~PowerLoss /\ ~CommitTx
    BY UndoableSteps
<1>2. /\ rows \in Seq(Row) /\ Len(rows) \in Nat /\ base \in Seq(Row) /\ Len(base) \in Nat
      /\ tx.ops \in Seq(Op) /\ Len(tx.ops) \in Nat
    BY RowLengths DEF Shape, TxOK, TxObject
<1>3. CASE BeginTx
  <2>1. /\ LogRecord("begin", 0, NoImage) /\ pc = "idle" /\ pc' = "tx" /\ rows' = rows /\ base' = rows
        /\ tx'.before = {} /\ tx'.appended = {}
    BY <1>3 DEF BeginTx, store, Activate, Shape, TxOK, TxObject
  <2>2. log = <<>>
    BY <1>1, <2>1 DEF LogOfTx
  <2>3. Updates = {}
    BY <2>2 DEF Updates, OfType
  <2>4. Updates' = {}
    BY <2>1, <2>3, LoggedTells
  <2>5. (Len(rows) + 1)..Len(rows) = {}
    BY <1>2
  <2> QED
    BY <2>1, <2>4, <2>5 DEF TxTells, Old
<1>4. ASSUME ~BeginTx, InTx
      PROVE  /\ Undoable /\ UNCHANGED <<base, Old>> /\ Len(base) <= Len(rows)
             /\ \A i \in Updates : \E k \in 1..Len(tx.ops) :
                   tx.ops[k].key = log[i].recno /\ ~tx.ops[k].isAppend
             /\ tx.appended = (Len(base) + 1)..(IF pc = "note" THEN Len(rows) - 1 ELSE Len(rows))
             /\ \A b \in tx.before : b.key \in Old /\ b.image = base[b.key]
             /\ \A r \in Old : rows[r] = base[r] \/ \E b \in tx.before : b.key = r
             /\ pc = "note" => Len(base) < Len(rows)
             /\ pc = "write" => Updated(job.recno)
             /\ pc = "write" /\ job.recno \in Old => \E b \in tx.before : b.key = job.recno
  <2>1. Undoable /\ UNCHANGED <<base, Old>>
    BY <1>4, UndoableSteps DEF Old
  <2> QED
    BY <1>4, <2>1 DEF TxTells, LogTells
<1>5. CASE WriteRow
  <2>1. ~BeginTx /\ InTx /\ pc = "write" /\ pc' = "tx" /\ log' = log /\ tx' = tx
    BY <1>5 DEF WriteRow, BeginTx, InTx, wal
  <2>2. /\ job.recno \in 1..Len(rows) /\ Len(rows') = Len(rows)
        /\ \A r \in 1..Len(rows) : r # job.recno => rows'[r] = rows[r]
    BY <1>5, Written
  <2>3. Updates' = Updates
    BY <2>1 DEF Updates
  <2>4. ASSUME NEW r \in Old PROVE rows'[r] = base[r] \/ \E b \in tx.before : b.key = r
    <3>1. r \in 1..Len(rows)
      BY <1>2, <1>4, <2>1 DEF Old
    <3>2. CASE r = job.recno
      BY <1>4, <2>1, <3>2
    <3>3. CASE r # job.recno
      BY <1>4, <2>1, <2>2, <3>1, <3>3
    <3> QED
      BY <3>2, <3>3
  <2>5. tx.appended = (Len(base) + 1)..Len(rows)
    BY <1>4, <2>1
  <2> QED
    BY <1>4, <2>1, <2>2, <2>3, <2>4, <2>5 DEF TxTells
<1>6. CASE AppendRow
  <2>1. ~BeginTx /\ InTx /\ pc = "tx" /\ pc' = "note" /\ log' = log /\ tx' = tx
    BY <1>6 DEF AppendRow, BeginTx, InTx, wal
  <2>2. Len(rows') = Len(rows) + 1 /\ \A r \in 1..Len(rows) : rows'[r] = rows[r]
    BY <1>6, Appended
  <2>3. Updates' = Updates
    BY <2>1 DEF Updates
  <2>4. \A r \in Old : rows'[r] = rows[r]
    BY <1>2, <1>4, <2>1, <2>2 DEF Old
  <2>5. tx.appended = (Len(base) + 1)..(Len(rows') - 1) /\ Len(base) < Len(rows')
    BY <1>2, <1>4, <2>1, <2>2
  <2> QED
    BY <1>4, <2>1, <2>3, <2>4, <2>5 DEF TxTells
<1>7. ASSUME NEW r \in Recnos, NEW new \in Row, LogUpdate(r, new) PROVE TxTells'
  <2>1. /\ ~BeginTx /\ pc = "tx" /\ InTx /\ rows' = rows /\ pc' = "write"
        /\ r \in 1..Len(rows) /\ r \in Nat /\ rows[r] \in Row
        /\ LogRecord("update", r, rows[r]) /\ tx' = NoteBeforeImage(tx, r, rows[r])
        /\ job'.recno = r
    BY <1>2, <1>7 DEF LogUpdate, BeginTx, InTx, InFile, store, NoJob
  <2> DEFINE n == Len(log) + 1
             op == [key |-> r, isAppend |-> FALSE, image |-> rows[r]]
             b0 == [key |-> r, image |-> rows[r]]
  <2>2. /\ Updates' = Updates \cup {n}
        /\ \A i \in Updates \cup Appends : log'[i] = log[i]
        /\ log'[n].recno = r
    BY <2>1, LoggedTells
  <2> HIDE DEF n
  <2>3. /\ tx'.ops = Append(tx.ops, op) /\ tx'.appended = tx.appended
        /\ tx'.before = IF Touched(tx, r) THEN tx.before ELSE tx.before \cup {b0}
    BY <2>1 DEF NoteBeforeImage, Shape, TxOK, TxObject
  <2>4. op \in Op /\ op.key = r /\ ~op.isAppend /\ b0.key = r /\ b0.image = rows[r]
    BY <2>1 DEF Op
  <2> HIDE DEF op, b0
  <2>5. /\ Len(tx'.ops) = Len(tx.ops) + 1 /\ tx'.ops[Len(tx.ops) + 1] = op
        /\ \A k \in 1..Len(tx.ops) : tx'.ops[k] = tx.ops[k]
    BY <1>2, <2>3, <2>4, AppendProperties
  <2>6. ASSUME NEW i \in Updates'
        PROVE  \E k \in 1..Len(tx'.ops) : tx'.ops[k].key = log'[i].recno /\ ~tx'.ops[k].isAppend
    <3>1. CASE i = n
      BY <1>2, <2>2, <2>4, <2>5, <3>1
    <3>2. CASE i \in Updates
      <4>1. PICK k \in 1..Len(tx.ops) : tx.ops[k].key = log[i].recno /\ ~tx.ops[k].isAppend
        BY <1>4, <2>1, <3>2
      <4>2. k \in 1..Len(tx'.ops) /\ tx'.ops[k] = tx.ops[k] /\ log'[i] = log[i]
        BY <1>2, <2>2, <2>5, <3>2
      <4> QED
        BY <4>1, <4>2
    <3> QED
      BY <2>2, <3>1, <3>2
  <2>7. tx.appended = (Len(base) + 1)..Len(rows)
    BY <1>4, <2>1
  <2>8. ~Touched(tx, r) => r \in Old /\ rows[r] = base[r]
    <3>1. ~Touched(tx, r) => r \notin (Len(base) + 1)..Len(rows) /\ ~\E b \in tx.before : b.key = r
      BY <2>7 DEF Touched
    <3>2. r \notin (Len(base) + 1)..Len(rows) => r \in Old
      BY <1>2, <2>1 DEF Old
    <3> QED
      BY <1>4, <2>1, <3>1, <3>2
  <2>9. \A b \in tx'.before : b.key \in Old /\ b.image = base[b.key]
    BY <1>4, <2>1, <2>3, <2>4, <2>8
  <2>10. \A s \in Old : rows[s] = base[s] \/ \E b \in tx'.before : b.key = s
    BY <1>4, <2>1, <2>3
  <2>11. r \in Old => \E b \in tx'.before : b.key = r
    <3>1. CASE Touched(tx, r)
      <4>1. r \in Old => r \notin tx.appended
        BY <1>2, <2>7 DEF Old
      <4> QED
        BY <2>3, <3>1, <4>1 DEF Touched
    <3>2. CASE ~Touched(tx, r)
      BY <2>3, <2>4, <3>2
    <3> QED
      BY <3>1, <3>2
  <2>12. Updated(r)'
    BY <2>2 DEF Updated
  <2> QED
    BY <1>4, <2>1, <2>3, <2>6, <2>7, <2>9, <2>10, <2>11, <2>12 DEF TxTells
<1>8. CASE LogAppend
  <2>1. /\ ~BeginTx /\ pc = "note" /\ InTx /\ rows' = rows /\ pc' = "tx"
        /\ job.recno = Len(rows) /\ LogRecord("append", job.recno, NoImage)
        /\ tx' = NoteAppend(tx, job.recno)
    BY <1>8 DEF LogAppend, BeginTx, InTx, store, NamesExist, CallNames
  <2>2. /\ Updates' = Updates /\ \A i \in Updates \cup Appends : log'[i] = log[i]
    BY <1>2, <2>1, LoggedTells
  <2> DEFINE op == [key |-> job.recno, isAppend |-> TRUE, image |-> NoImage]
  <2>3. /\ tx'.ops = Append(tx.ops, op) /\ tx'.appended = tx.appended \cup {Len(rows)}
        /\ tx'.before = tx.before
    BY <2>1 DEF NoteAppend, Shape, TxOK, TxObject
  <2>4. op \in Op
    BY <1>2, <2>1 DEF Op, Recnos, Shape, StoreOK, NamesExist, CallNames
  <2> HIDE DEF op
  <2>5. Len(tx'.ops) = Len(tx.ops) + 1 /\ \A k \in 1..Len(tx.ops) : tx'.ops[k] = tx.ops[k]
    BY <1>2, <2>3, <2>4, AppendProperties
  <2>6. ASSUME NEW i \in Updates'
        PROVE  \E k \in 1..Len(tx'.ops) : tx'.ops[k].key = log'[i].recno /\ ~tx'.ops[k].isAppend
    <3>1. PICK k \in 1..Len(tx.ops) : tx.ops[k].key = log[i].recno /\ ~tx.ops[k].isAppend
      BY <1>4, <2>1, <2>2
    <3>2. k \in 1..Len(tx'.ops) /\ tx'.ops[k] = tx.ops[k] /\ log'[i] = log[i]
      BY <1>2, <2>2, <2>5
    <3> QED
      BY <3>1, <3>2
  <2>7. tx'.appended = (Len(base) + 1)..Len(rows)
    <3>1. tx.appended = (Len(base) + 1)..(Len(rows) - 1) /\ Len(base) < Len(rows)
      BY <1>4, <2>1
    <3> QED
      BY <1>2, <2>3, <3>1
  <2> QED
    BY <1>4, <2>1, <2>3, <2>6, <2>7 DEF TxTells
<1>9. CASE UNCHANGED vars
  <2>1. UNCHANGED <<log, rows, tx, pc, job, base, committed, outage>>
    BY <1>9 DEF vars, store, wal, hist
  <2>2. InTx /\ ~BeginTx /\ InFile(1)' = InFile(1)
    BY <2>1 DEF InTx, BeginTx, InFile
  <2>3. UNCHANGED Updates /\ (Updated(job.recno)' <=> Updated(job.recno))
    BY <2>1 DEF Updates, Updated
  <2> QED
    BY <1>4, <2>1, <2>2, <2>3 DEF TxTells
<1>10. pc' \in {"tx", "write", "note"}
    BY DEF InTx
<1> QED
    BY <1>1, <1>3, <1>5, <1>6, <1>7, <1>8, <1>9, <1>10
       DEF Next, TxStep, CallStep, RecoveryStep, Close, RollbackTx, RestoreImage, PopAppend,
       LogAbort, FlushTx, EndTx, Open, UndoUpdate, DeleteAppend, AbortOrphan, SaveTables,
       FlushMap, CutRecoveredLog, ClearMap, Crash, Die

\* A rollback goes on having undone what it has passed.
LEMMA RollbackTellsKept ==
    Shape /\ LogTells /\ TxTells /\ RollbackTells /\ [Next]_vars => RollbackTells'
<1> SUFFICES ASSUME Shape, LogTells, TxTells, RollbackTells, [Next]_vars,
                    Undoable', pc' = "rollback"
             PROVE  RollbackTells'
    BY DEF RollbackTells
<1>1. /\ rows \in Seq(Row) /\ Len(rows) \in Nat /\ base \in Seq(Row) /\ Len(base) \in Nat
    BY RowLengths
<1>2. ~BeginTx
    BY DEF BeginTx
<1>3. Undoable /\ UNCHANGED <<base, Old>> /\ Len(base) <= Len(rows)
    BY <1>2, UndoableSteps DEF Old, LogTells
<1>4. pc = "rollback" =>
        /\ job.appends = (Len(base) + 1)..Len(rows)
        /\ \A b \in job.images : b.key \in Old /\ b.image = base[b.key]
        /\ \A r \in Old : rows[r] = base[r] \/ \E b \in job.images : b.key = r
    BY <1>3 DEF RollbackTells
<1>5. CASE RollbackTx
  <2>1. /\ pc = "tx" /\ InTx /\ rows' = rows
        /\ job'.images = tx.before /\ job'.appends = tx.appended
    BY <1>5 DEF RollbackTx, InTx, store, NoJob
  <2> QED
    BY <1>3, <2>1 DEF TxTells, RollbackTells
<1>6. ASSUME NEW b \in job.images, RestoreImage(b) PROVE RollbackTells'
  <2>1. pc = "rollback" /\ job'.images = job.images \ {b} /\ job'.appends = job.appends
    BY <1>6 DEF RestoreImage, Shape, CallOK, Job
  <2>2. b.key \in Old /\ b.image = base[b.key] /\ b.key \in 1..Len(rows)
    BY <1>1, <1>3, <1>4, <2>1 DEF Old
  <2>3. /\ Len(rows') = Len(rows) /\ rows'[b.key] = b.image
        /\ \A r \in 1..Len(rows) : r # b.key => rows'[r] = rows[r]
    BY <1>6, <2>2, Imaged
  <2>4. ASSUME NEW r \in Old PROVE rows'[r] = base[r] \/ \E c \in job'.images : c.key = r
    <3>1. CASE r = b.key
      BY <2>2, <2>3, <3>1
    <3>2. CASE r # b.key
      <4>1. rows'[r] = rows[r]
        BY <1>1, <1>3, <2>3, <3>2 DEF Old
      <4> QED
        BY <1>4, <2>1, <3>2, <4>1
    <3> QED
      BY <3>1, <3>2
  <2> QED
    BY <1>3, <1>4, <2>1, <2>3, <2>4 DEF RollbackTells
<1>7. CASE PopAppend
  <2>1. /\ pc = "rollback" /\ job.images = {} /\ Len(rows) \in job.appends
        /\ job'.images = {} /\ job'.appends = job.appends \ {Len(rows)}
    BY <1>7 DEF PopAppend, Shape, CallOK, Job
  <2>2. Len(rows') = Len(rows) - 1 /\ \A r \in 1..(Len(rows) - 1) : rows'[r] = rows[r]
    BY <1>7, Popped
  <2>3. Len(rows) \in (Len(base) + 1)..Len(rows)
    BY <1>4, <2>1
  <2>4. \A r \in Old : rows'[r] = rows[r]
    BY <1>1, <2>2, <2>3 DEF Old
  <2>5. job'.appends = (Len(base) + 1)..Len(rows')
    BY <1>1, <1>4, <2>1, <2>2
  <2> QED
    BY <1>3, <1>4, <2>1, <2>4, <2>5 DEF RollbackTells
<1>8. CASE UNCHANGED vars
  <2>1. UNCHANGED <<rows, pc, job>>
    BY <1>8 DEF vars, store
  <2> QED
    BY <1>3, <1>4, <2>1 DEF RollbackTells
<1> QED
    BY <1>5, <1>6, <1>7, <1>8
       DEF Next, TxStep, CallStep, RecoveryStep, BeginTx, LogUpdate, AppendRow, CommitTx, WriteRow,
       LogAppend, Close, LogAbort, FlushTx, EndTx, Open, UndoUpdate, DeleteAppend, AbortOrphan,
       SaveTables, FlushMap, CutRecoveredLog, ClearMap, Crash, PowerLoss, Die

\* What a rollback has ended stays undone.
LEMMA EndedKept ==
    Shape /\ NamesExist /\ LogWhole /\ LogOfTx /\ LogTells /\ RollbackTells /\ EndedIsUndone
        /\ RecoveryTells /\ [Next]_vars => EndedIsUndone'
<1> SUFFICES ASSUME Shape, NamesExist, LogWhole, LogOfTx, LogTells, RollbackTells, EndedIsUndone,
                    RecoveryTells, [Next]_vars, Undoable'
             PROVE  EndedIsUndone'
    BY DEF EndedIsUndone
<1>1. ~outage /\ ~PowerLoss /\ ~CommitTx
    BY UndoableSteps
<1>2. /\ rows \in Seq(Row) /\ Len(rows) \in Nat /\ base \in Seq(Row) /\ Len(base) \in Nat
    BY RowLengths
<1>3. ASSUME ~BeginTx
      PROVE  /\ Undoable /\ UNCHANGED <<base, skew, Old>> /\ Len(base) <= Len(rows)
             /\ log = <<>> => Restored
             /\ HasRecord(log, "abort") => Restored /\ AppendsGone
             /\ pc \in {"flush", "end"} => \A r \in Old : rows[r] = base[r]
             /\ pc \in {"flush", "end"} => HasRecord(log, "abort")
  <2>1. Undoable /\ UNCHANGED <<base, skew, Old>>
    BY <1>3, UndoableSteps DEF Old
  <2> QED
    BY <2>1 DEF EndedIsUndone, LogTells
\* A log that is neither empty nor ended promises nothing.
<1>4. ASSUME log' # <<>>, ~HasRecord(log', "abort"), pc' \notin {"flush", "end"}
      PROVE  EndedIsUndone'
    BY <1>4 DEF EndedIsUndone
<1>5. CASE BeginTx
  <2>1. LogRecord("begin", 0, NoImage) /\ pc = "idle" /\ pc' = "tx"
    BY <1>5 DEF BeginTx
  <2>2. log = <<>>
    BY <1>1, <2>1 DEF LogOfTx
  <2>3. log' # <<>> /\ (HasRecord(log', "abort") => HasRecord(log, "abort"))
    BY <2>1, Logged
  <2>4. ~HasRecord(log, "abort")
    BY <2>2 DEF HasRecord
  <2> QED
    BY <1>4, <2>1, <2>3, <2>4
<1>6. CASE LogAppend \/ (\E r \in Recnos, new \in Row : LogUpdate(r, new))
  <2>1. \E type \in {"append", "update"}, recno \in Nat, before \in Row \cup {NoImage} :
            LogRecord(type, recno, before)
    <3>1. CASE LogAppend
      BY <3>1 DEF LogAppend, Shape, CallOK, Job
    <3>2. ASSUME NEW r \in Recnos, NEW new \in Row, LogUpdate(r, new)
          PROVE  r \in Nat /\ rows[r] \in Row /\ LogRecord("update", r, rows[r])
      BY <3>2 DEF LogUpdate, InFile, Recnos, Shape, StoreOK
    <3> QED
      BY <1>6, <3>1, <3>2
  <2>2. log' # <<>> /\ (HasRecord(log', "abort") => HasRecord(log, "abort"))
    BY <2>1, Logged
  <2>3. ~HasRecord(log, "abort") /\ pc' \notin {"flush", "end"}
    BY <1>1, <1>6 DEF LogAppend, LogUpdate, LogOfTx, InTx, Ended
  <2> QED
    BY <1>4, <2>2, <2>3
<1>7. CASE RollbackTx \/ WriteRow \/ AppendRow \/ PopAppend \/ (\E b \in job.images : RestoreImage(b))
  <2>1. (InTx \/ pc = "rollback") /\ log' = log /\ pc' \notin {"flush", "end"}
    BY <1>7 DEF RollbackTx, WriteRow, AppendRow, PopAppend, RestoreImage, wal, InTx
  <2> QED
    BY <1>1, <1>4, <2>1 DEF LogOfTx, Ended
<1>8. CASE UndoUpdate \/ (\E r \in job.appends : DeleteAppend(r))
  <2>1. /\ pc = "undo" /\ log' = log /\ pc' = pc
        /\ job.updates # {} \/ job.appends # {}
    BY <1>8 DEF UndoUpdate, DeleteAppend, wal
  <2> QED
    BY <1>1, <1>4, <2>1 DEF LogOfTx, Ended, RecoveryTells
<1>9. CASE LogAbort
  <2>1. /\ ~BeginTx /\ pc = "rollback" /\ rows' = rows /\ twice' = twice
        /\ job.images = {} /\ job.appends = {} /\ LogRecord("abort", 0, NoImage)
    BY <1>9 DEF LogAbort, BeginTx, store, hist
  <2>2. \A r \in Old : rows[r] = base[r]
    BY <1>3, <2>1 DEF RollbackTells
  <2>3. Len(base) = Len(rows)
    <3>1. (Len(base) + 1)..Len(rows) = {}
      BY <1>3, <2>1 DEF RollbackTells
    <3>2. ~(Len(base) < Len(rows))
      BY <1>2, <3>1
    <3> QED
      BY <1>2, <1>3, <2>1, <3>2
  <2>4. Appends' = Appends /\ \A i \in Updates \cup Appends : log'[i] = log[i]
    BY <2>1, LoggedTells
  <2>5. log' # <<>> /\ HasRecord(log', "abort")
    BY <2>1, Logged
  <2>6. \A i \in Appends : log[i].recno > Len(base)
    BY <1>3, <2>1 DEF LogTells
  <2>7. AppendsGone'
    BY <1>2, <2>1, <2>3, <2>4, <2>6 DEF AppendsGone, InFile
  <2>8. Restored' /\ \A r \in Old' : rows'[r] = base'[r]
    BY <1>3, <2>1, <2>2 DEF Restored
  <2> QED
    BY <2>5, <2>7, <2>8 DEF EndedIsUndone
<1>10. CASE EndTx
  <2>1. ~BeginTx /\ pc = "end" /\ rows' = rows /\ log' = <<>> /\ pc' = "idle"
    BY <1>10 DEF EndTx, CutLog, BeginTx, store
  <2>2. Restored'
    BY <1>3, <2>1 DEF Restored
  <2>3. ~HasRecord(log', "abort")
    BY <2>1 DEF HasRecord
  <2> QED
    BY <2>1, <2>2, <2>3 DEF EndedIsUndone
<1>11. CASE CutRecoveredLog
  <2>1. ~BeginTx /\ pc = "cut" /\ rows' = rows /\ log' = <<>> /\ pc' = "clear" /\ twice' = twice
    BY <1>11 DEF CutRecoveredLog, CutLog, BeginTx, store, hist
  <2>2. Ended(log) /\ ~HasRecord(log, "commit")
    BY <1>1, <1>3, <2>1 DEF LogOfTx, Undoable
  <2>3. Restored'
    BY <1>3, <2>1, <2>2 DEF Restored, Ended
  <2>4. ~HasRecord(log', "abort")
    BY <2>1 DEF HasRecord
  <2> QED
    BY <2>1, <2>3, <2>4 DEF EndedIsUndone
\* Steps that change neither the log nor the rows.
<1>12. ASSUME ~BeginTx, UNCHANGED <<log, rows, twice>>, pc' \in {"flush", "end"} => pc \in {"flush", "end"}
       PROVE  EndedIsUndone'
  <2>1. UNCHANGED Appends
    BY <1>12 DEF Appends
  <2>2. UNCHANGED <<Restored, AppendsGone>>
    BY <1>3, <1>12, <2>1 DEF Restored, AppendsGone, InFile
  <2> QED
    BY <1>3, <1>12, <2>2 DEF EndedIsUndone
<1>13. CASE AbortOrphan
  <2>1. ~BeginTx /\ pc = "undo" /\ rows' = rows /\ twice' = twice /\ pc' = "save"
        /\ job.updates = {} /\ job.appends = {} /\ ReadAll(log) = log
    BY <1>1, <1>13, LogIsRead DEF AbortOrphan, BeginTx, store, hist
  <2>2. CASE Ended(log)
    BY <1>12, <1>13, <2>1, <2>2 DEF AbortOrphan, wal
  <2>3. CASE ~Ended(log)
    <3>1. LogRecord("abort", 0, NoImage)
      BY <1>13, <2>1, <2>3 DEF AbortOrphan
    <3>2. Appends' = Appends /\ \A i \in Updates \cup Appends : log'[i] = log[i]
      BY <3>1, LoggedTells
    <3>3. log' # <<>>
      BY <3>1, Logged
    <3>4. /\ \A i \in Appends : InFile(log[i].recno) => rows[log[i].recno].del
          /\ ~skew => \A r \in Old \ twice : rows[r] = base[r]
      BY <1>1, <1>3, <2>1, <2>3 DEF RecoveryTells, Undoable
    <3>5. AppendsGone'
      BY <2>1, <3>2, <3>4 DEF AppendsGone, InFile
    <3>6. Restored'
      BY <1>3, <2>1, <3>4 DEF Restored
    <3> QED
      BY <2>1, <3>3, <3>5, <3>6 DEF EndedIsUndone
  <2> QED
    BY <2>2, <2>3
<1>14. CASE FlushTx \/ Close \/ Open \/ SaveTables \/ FlushMap \/ ClearMap \/ Crash
  <2>1. ~BeginTx
    BY <1>14 DEF FlushTx, Close, Open, SaveTables, FlushMap, ClearMap, Crash, Die, BeginTx
  <2>2. UNCHANGED <<log, rows, twice>>
    BY <1>14 DEF FlushTx, Close, Open, SaveTables, FlushMap, ClearMap, Crash, Die, store, wal, hist
  <2>3. pc' \in {"flush", "end"} => pc \in {"flush", "end"}
    BY <1>14 DEF FlushTx, Close, Open, SaveTables, FlushMap, ClearMap, Crash, Die
  <2> QED
    BY <1>12, <2>1, <2>2, <2>3
<1>15. CASE UNCHANGED vars
    BY <1>5, <1>12, <1>15 DEF vars, store, wal, hist
<1> QED
    BY <1>1, <1>5, <1>6, <1>7, <1>8, <1>9, <1>10, <1>11, <1>13, <1>14, <1>15
       DEF Next, TxStep, CallStep, RecoveryStep

\* No entry comes into the map that a recovery could mistake for its own.
LEMMA MapEmptyKept == Shape /\ NamesExist /\ LogOfTx /\ MapEmpty /\ [Next]_vars => MapEmpty'
<1> SUFFICES ASSUME Shape, NamesExist, LogOfTx, MapEmpty, [Next]_vars PROVE MapEmpty'
    OBVIOUS
<1>1. InTx' \/ pc' \in {"rollback", "flush", "end", "idle"} => lsnMap' = lsnFile'
  <2>1. CASE Open \/ ClearMap
    BY <2>1 DEF Open, ClearMap
  <2>2. CASE UNCHANGED maps
    <3>1. InTx' \/ pc' \in {"rollback", "flush", "end", "idle"}
            => InTx \/ pc \in {"rollback", "flush", "end", "idle"} \/ Open \/ ClearMap
      BY DEF Next, TxStep, CallStep, RecoveryStep, InTx, vars, BeginTx, LogUpdate, AppendRow,
         CommitTx, RollbackTx, WriteRow, LogAppend, RestoreImage, PopAppend, LogAbort, FlushTx,
         EndTx, Close, UndoUpdate, DeleteAppend, AbortOrphan, SaveTables, FlushMap,
         CutRecoveredLog, Crash, PowerLoss, Die
    <3> QED
      BY <2>1, <2>2, <3>1 DEF MapEmpty, maps
  <2>3. CASE UndoUpdate \/ FlushMap
    BY <2>3 DEF UndoUpdate, FlushMap, InTx
  <2> QED
    BY <2>1, <2>2, <2>3, WritersOfMap
<1>2. ASSUME ~outage', ~skew', log' # <<>>, ~Ended(log') PROVE lsnFile' = NoLsns
  <2>1. ~outage /\ ~PowerLoss
    BY <1>2, OutageSteps
  <2>2. CASE BeginTx
    BY <1>2, <2>2 DEF BeginTx, MapEmpty, maps
  <2>3. ASSUME ~BeginTx PROVE ~skew /\ log # <<>> /\ ~Ended(log)
    <3>1. skew' = skew
      BY <2>1, <2>3, WritersOfHistory DEF CommitTx, EndTx, Crash, Die, LogUpdate, hist
    <3>2. CASE UNCHANGED wal \/ UNCHANGED <<log, synced>>
      BY <1>2, <3>1, <3>2 DEF wal
    <3>3. CASE EndTx \/ CutRecoveredLog
      BY <1>2, <3>3 DEF EndTx, CutRecoveredLog, CutLog
    <3>4. CASE Logging
      <4>1. log # <<>>
        BY <2>1, <2>3, <3>4 DEF Logging, LogAppend, CommitTx, LogAbort, LogUpdate, AbortOrphan, LogOfTx, InTx
      <4>2. PICK type \in {"begin", "update", "append", "commit", "abort"},
                 recno \in Nat, before \in Row \cup {NoImage} :
                 LogRecord(type, recno, before) /\ (Unsynced \/ SyncLog)
        BY <3>4, LogGrows
      <4>3. \A t : HasRecord(log, t) => HasRecord(log', t)
        BY <4>2, Logged
      <4> QED
        BY <1>2, <3>1, <4>1, <4>3 DEF Ended
    <3> QED
      BY <2>1, <3>2, <3>3, <3>4, WritersOfLog
  <2>4. CASE ~BeginTx
    <3>1. lsnFile = NoLsns
      BY <2>1, <2>3, <2>4 DEF MapEmpty
    <3>2. lsnFile' = lsnFile \/ FlushMap \/ ClearMap
      BY WritersOfMap DEF maps, Open, UndoUpdate
    <3>3. ~FlushMap
      BY <2>1, <2>3, <2>4 DEF FlushMap, LogOfTx
    <3> QED
      BY <3>1, <3>2, <3>3 DEF ClearMap
  <2> QED
    BY <2>2, <2>4
<1> QED
    BY <1>1, <1>2 DEF MapEmpty

\* Recovery goes on having undone what it has passed.
LEMMA RecoveryTellsKept ==
    Shape /\ NamesExist /\ LogInOrder /\ LogWhole /\ LogOfTx /\ LogTells /\ MapEmpty
        /\ RecoveryTells /\ [Next]_vars => RecoveryTells'
<1> SUFFICES ASSUME Shape, NamesExist, LogInOrder, LogWhole, LogOfTx, LogTells, MapEmpty,
                    RecoveryTells, [Next]_vars, ~outage', pc' = "undo"
             PROVE  RecoveryTells'
    BY DEF RecoveryTells
<1>1. ~outage /\ ~PowerLoss
    BY OutageSteps
<1>2. /\ rows \in Seq(Row) /\ Len(rows) \in Nat /\ base \in Seq(Row) /\ Len(base) \in Nat
      /\ ReadAll(log) = log /\ Readable(log) = Len(log) /\ Len(log) \in Nat
    BY <1>1, RowLengths, LogIsRead DEF Shape, WalOK
<1>3. CASE Open
  <2>1. /\ UNCHANGED <<log, rows, base, committed, skew, twice>>
        /\ lsnMap' = lsnFile /\ pc' = (IF log = <<>> THEN "idle" ELSE "undo")
        /\ Ended(log) => job' = NoJob
        /\ ~Ended(log) => /\ job'.updates = OfType(log, "update")
                          /\ job'.appends = {log[i].recno : i \in OfType(log, "append")}
    BY <1>2, <1>3 DEF Open, store, hist, NoJob
  <2>2. log # <<>>
    BY <2>1
  <2>3. UNCHANGED <<Old, Updates, Appends>>
    BY <2>1 DEF Old, Updates, Appends
  <2>4. Ended(log) => job'.updates = {} /\ job'.appends = {}
    BY <2>1 DEF NoJob
  <2>5. ~Ended(log) => job'.updates = Updates /\ job'.appends = {log[i].recno : i \in Appends}
    BY <2>1 DEF Updates, Appends
  <2>6. ~committed /\ ~Ended(log) => \A r \in Old : rows[r] = base[r] \/ \E i \in Updates : log[i].recno = r
    BY <1>1, <2>2 DEF LogTells, Undoable, Updated
  <2>7. ~skew /\ ~Ended(log) => \A i \in Updates : lsnMap'[log[i].recno] = 0
    <3>1. ~skew /\ ~Ended(log) => lsnMap' = NoLsns
      BY <1>1, <2>1, <2>2 DEF MapEmpty
    <3>2. \A i \in Updates : log[i].recno \in Recnos
      BY DEF Updates, OfType, NamesExist, RecordNames
    <3> QED
      BY <3>1, <3>2 DEF NoLsns
  <2> QED
    BY <2>1, <2>3, <2>4, <2>5, <2>6, <2>7 DEF RecoveryTells
<1>4. ASSUME pc = "undo"
      PROVE  /\ Ended(log) => job.updates = {} /\ job.appends = {}
             /\ job.updates \subseteq Updates
             /\ ~committed /\ ~Ended(log) =>
              /\ job.appends \subseteq {log[i].recno : i \in Appends}
              /\ \A i \in Appends :
                    InFile(log[i].recno) /\ log[i].recno \notin job.appends
                        => job.updates = {} /\ rows[log[i].recno].del
              /\ ~skew => \A r \in Old \ twice :
                    \/ rows[r] = base[r]
                    \/ \E i \in job.updates : log[i].recno = r
              /\ ~skew => \A i \in job.updates :
                    log[i].recno \notin twice => lsnMap[log[i].recno] = 0
    BY <1>1, <1>4 DEF RecoveryTells
<1>5. CASE UndoUpdate
  <2> DEFINE last == Max(job.updates)
             u == log[last]
  <2>1. /\ pc = "undo" /\ job.updates # {}
        /\ UNCHANGED <<log, base, committed, skew, twice>>
        /\ job'.updates = job.updates \ {last} /\ job'.appends = job.appends
        /\ lsnMap' = IF lsnMap[u.recno] >= u.lsn THEN lsnMap ELSE [lsnMap EXCEPT ![u.recno] = u.lsn]
    BY <1>5 DEF UndoUpdate, wal, hist, Shape, CallOK, Job
  <2>2. /\ last \in job.updates /\ last \in 1..Len(log) /\ u.type = "update"
        /\ u.recno \in Recnos /\ u.lsn \in Nat
    BY <1>5, LastUpdate
  <2>3. /\ Len(rows') = Len(rows)
        /\ \A r \in 1..Len(rows) : r # u.recno => rows'[r] = rows[r]
        /\ ~(lsnMap[u.recno] >= u.lsn) /\ InFile(u.recno) => rows'[u.recno] = u.before
    BY <1>5, Undone
  <2>4. u.lsn # 0
    BY <1>2, <2>2 DEF LogInOrder
  <2> HIDE DEF last
  <2>5. UNCHANGED <<Old, Updates, Appends>>
    BY <2>1 DEF Old, Updates, Appends
  <2>6. ~Ended(log) /\ job.updates \subseteq Updates
    BY <1>4, <2>1
  <2>7. CASE committed
    BY <2>1, <2>5, <2>6, <2>7 DEF RecoveryTells
  <2>8. CASE ~committed
    <3>1. Undoable /\ Len(base) <= Len(rows)
      BY <1>1, <2>8 DEF Undoable, LogTells
    <3>2. \A i \in Appends : InFile(log[i].recno) => log[i].recno \in job.appends
      BY <1>4, <2>1, <2>6, <2>8
    <3>3. ASSUME ~skew, NEW r \in Old \ twice
          PROVE  rows'[r] = base[r] \/ \E i \in job'.updates : log[i].recno = r
      <4>1. r \in 1..Len(rows)
        BY <1>2, <3>1 DEF Old
      <4>2. CASE r = u.recno
        <5>1. lsnMap[u.recno] = 0
          BY <1>4, <2>1, <2>2, <2>6, <2>8, <3>3, <4>2
        <5>2. ~(lsnMap[u.recno] >= u.lsn)
          BY <2>2, <2>4, <5>1
        <5>3. rows'[r] = u.before
          BY <2>3, <4>1, <4>2, <5>2 DEF InFile
        <5>4. u.before = base[r]
          BY <2>2, <2>6, <3>1, <3>3, <4>2 DEF LogTells
        <5> QED
          BY <5>3, <5>4
      <4>3. CASE r # u.recno
        <5>1. rows'[r] = rows[r]
          BY <2>3, <4>1, <4>3
        <5>2. rows[r] = base[r] \/ \E i \in job.updates : log[i].recno = r
          BY <1>4, <2>1, <2>6, <2>8, <3>3
        <5> QED
          BY <2>1, <4>3, <5>1, <5>2
      <4> QED
        BY <4>2, <4>3
    <3>4. ASSUME ~skew, NEW i \in job'.updates, log[i].recno \notin twice
          PROVE  lsnMap'[log[i].recno] = 0
      <4>1. i \in job.updates /\ i # last /\ i \in Updates /\ last \in Updates
        BY <2>1, <2>2, <2>6
      <4>2. log[i].recno # u.recno
        BY <3>1, <3>4, <4>1 DEF LogTells
      <4>3. lsnMap[log[i].recno] = 0
        BY <1>4, <2>1, <2>6, <2>8, <3>4, <4>1
      <4>4. lsnMap'[log[i].recno] = lsnMap[log[i].recno]
        BY <2>1, <4>2 DEF Shape, MapsOK
      <4> QED
        BY <4>3, <4>4
    <3>5. job.appends \subseteq {log[i].recno : i \in Appends}
      BY <1>4, <2>1, <2>6, <2>8
    <3>6. UNCHANGED <<log, base, skew, twice, committed>> /\ ~Ended(log) /\ Len(rows') = Len(rows)
      BY <2>1, <2>3, <2>6
    <3>7. job'.updates \subseteq Updates
      BY <2>1, <2>6
    <3>8. \A i \in Appends : InFile(log[i].recno)' => log[i].recno \in job'.appends
      BY <2>1, <3>2, <3>6 DEF InFile
    <3> QED
      BY <2>1, <2>5, <3>3, <3>4, <3>5, <3>6, <3>7, <3>8 DEF RecoveryTells, InFile
  <2> QED
    BY <2>7, <2>8
<1>6. ASSUME NEW d \in job.appends, DeleteAppend(d) PROVE RecoveryTells'
  <2>1. /\ pc = "undo" /\ job.updates = {} /\ job'.updates = {} /\ job'.appends = job.appends \ {d}
        /\ UNCHANGED <<log, base, committed, skew, twice>>
    BY <1>6 DEF DeleteAppend, wal, hist, Shape, CallOK, Job
  <2>2. /\ Len(rows') = Len(rows)
        /\ \A s \in 1..Len(rows) : s # d => rows'[s] = rows[s]
        /\ InFile(d) => rows'[d].del
    BY <1>6, Deleted
  <2>3. UNCHANGED <<Old, Updates, Appends>>
    BY <2>1 DEF Old, Updates, Appends
  <2>4. ~Ended(log)
    BY <1>4, <2>1
  <2>5. CASE committed
    BY <2>1, <2>3, <2>4, <2>5 DEF RecoveryTells
  <2>6. CASE ~committed
    <3>1. Undoable /\ Len(base) <= Len(rows)
      BY <1>1, <2>6 DEF Undoable, LogTells
    <3>2. job.appends \subseteq {log[i].recno : i \in Appends}
      BY <1>4, <2>1, <2>4, <2>6
    <3>3. d > Len(base)
      BY <3>1, <3>2 DEF LogTells
    <3>4. \A r \in Old : rows'[r] = rows[r]
      BY <1>2, <2>2, <3>1, <3>3 DEF Old
    <3>5. ASSUME NEW i \in Appends, InFile(log[i].recno)', log[i].recno \notin job'.appends
          PROVE  rows'[log[i].recno].del
      <4>1. InFile(log[i].recno)
        BY <2>2, <3>5, <2>1 DEF InFile
      <4>2. CASE log[i].recno = d
        BY <2>2, <4>1, <4>2
      <4>3. CASE log[i].recno # d
        <5>1. rows[log[i].recno].del
          BY <1>4, <2>1, <2>4, <2>6, <3>5, <4>1, <4>3
        <5> QED
          BY <2>2, <4>1, <4>3, <5>1 DEF InFile
      <4> QED
        BY <4>2, <4>3
    <3>6. ~skew => \A r \in Old \ twice : rows'[r] = base[r]
      BY <1>4, <2>1, <2>4, <2>6, <3>4
    <3> QED
      BY <2>1, <2>3, <2>4, <3>2, <3>5, <3>6 DEF RecoveryTells, InFile
  <2> QED
    BY <2>5, <2>6
<1>7. CASE UNCHANGED vars
  <2>1. UNCHANGED <<log, rows, base, committed, skew, twice, pc, job, lsnMap>>
    BY <1>7 DEF vars, store, wal, maps, hist
  <2>2. UNCHANGED <<Old, Updates, Appends>> /\ pc = "undo"
    BY <2>1 DEF Old, Updates, Appends
  <2> QED
    BY <1>4, <2>1, <2>2 DEF RecoveryTells, InFile
<1> QED
    BY <1>1, <1>3, <1>5, <1>6, <1>7
       DEF Next, TxStep, CallStep, RecoveryStep, BeginTx, LogUpdate, AppendRow, CommitTx, RollbackTx,
       WriteRow, LogAppend, RestoreImage, PopAppend, Close, LogAbort, FlushTx, EndTx, AbortOrphan,
       SaveTables, FlushMap, CutRecoveredLog, ClearMap, Crash, Die

-----------------------------------------------------------------------------
(* The theorems *)

\* The invariant holds at the start.
LEMMA InitIInv == Init => IInv
<1> SUFFICES ASSUME Init PROVE IInv
    OBVIOUS
<1>1. Shape
    BY InitShape
<1>2. /\ pc = "closed" /\ log = <<>> /\ rows = base /\ goal = base /\ ~acked /\ ~committed
      /\ tx = IdleTx /\ lsnFile = NoLsns /\ Len(rows) \in Nat
    BY <1>1 DEF Init, Shape, StoreOK
<1>3. Readable(log) = 0
  <2>1. log \in Seq(Record) /\ Len(log) = 0
    BY <1>1, <1>2 DEF Shape, WalOK
  <2>2. Readable(log) \in 0..Len(log)
    BY <2>1, ReadablePart
  <2> QED
    BY <2>1, <2>2
<1>4. NamesExist
    BY <1>2 DEF NamesExist, ActiveInTx, CallNames, RecordNames, IdleTx
<1>5. LogInOrder
    BY <1>2, <1>3 DEF LogInOrder
<1>6. CommitsAtEnd /\ AckedIsSafe /\ LogWhole /\ CommittedStays /\ LogOfTx
    BY <1>2 DEF CommitsAtEnd, AckedIsSafe, LogWhole, CommittedStays, LogOfTx, InTx, HasRecord
<1>7. Updates = {} /\ Appends = {} /\ \A t : ~HasRecord(log, t)
    BY <1>2 DEF Updates, Appends, OfType, HasRecord
<1>8. LogTells /\ TxTells /\ RollbackTells /\ EndedIsUndone /\ MapEmpty /\ RecoveryTells
    BY <1>2, <1>7 DEF LogTells, TxTells, RollbackTells, EndedIsUndone, Restored, MapEmpty,
       RecoveryTells, InTx
<1> QED
    BY <1>1, <1>4, <1>5, <1>6, <1>8 DEF IInv

\* Every step keeps the invariant.
LEMMA NextIInv == IInv /\ [Next]_vars => IInv'
BY ShapeKept, NamesKept, OrderKept, CommitsKept, AckedKept, LogStaysWhole, CommittedIsKept,
   LogOfTxKept, LogTellsKept, TxTellsKept, RollbackTellsKept, EndedKept, MapEmptyKept,
   RecoveryTellsKept DEF IInv

\* Every reachable state of connection, log, map and table satisfies the
\* inductive invariant.
THEOREM Invariance == Spec => []IInv
<1>1. Init => IInv
    BY InitIInv
<1>2. IInv /\ [Next]_vars => IInv'
    BY NextIInv
<1> QED
    BY <1>1, <1>2, PTL DEF Spec

\* Whatever crashes and power failures happen, in the middle of whatever call,
\* the state is well formed and a reader of the log meets growing LSNs
\* (TxLog::read_all, TxLog::append_record_, TxLog::open).
THEOREM TypeCorrect == Spec => []TypeOK
<1>1. IInv => TypeOK
  <2> SUFFICES ASSUME IInv PROVE TypeOK
    OBVIOUS
  <2>1. Shape /\ NamesExist /\ LogInOrder
    BY DEF IInv
  <2>2. Len(ReadAll(log)) = Readable(log)
    BY <2>1, ReadIsPrefix DEF Shape, WalOK
  <2>3. \A i, j \in 1..Len(ReadAll(log)) : i < j => log[i].lsn < log[j].lsn
    BY <2>1, <2>2 DEF LogInOrder
  <2>4. tx.active => pc \in {"tx", "write", "note", "rollback", "flush", "end"}
    BY <2>1 DEF NamesExist, ActiveInTx, InTx
  <2> QED
    BY <2>1, <2>3, <2>4 DEF TypeOK, Shape, StoreOK, WalOK, MapsOK, HistOK
<1> QED
    BY <1>1, Invariance, PTL

\* A commit that returned is on the disk: no crash and no power failure, then or
\* at any time before the next transaction, takes its rows away
\* (Connection::commit_tx flushes the tables before it cuts the log).
THEOREM AcknowledgedIsKept == Spec => []AcknowledgedKept
<1>1. IInv => AcknowledgedKept
    BY DEF IInv, AckedIsSafe, AcknowledgedKept
<1> QED
    BY <1>1, Invariance, PTL

\* A transaction whose commit record is in the log is never undone, wherever the
\* process dies after that (Connection::recover_orphan_tx_ skips it).
THEOREM CommittedIsNeverUndone == Spec => []CommittedKept
<1>1. IInv => CommittedKept
    BY DEF IInv, CommittedStays, CommittedKept
<1> QED
    BY <1>1, Invariance, PTL

\* Once a recovery has undone the rows, no row of the orphan's appends is live:
\* an image written back does not revive it, however often the recovery was
\* interrupted (connection.cpp marks the appends after the updates).
THEOREM AppendsAreDeleted == Spec => []AppendsDeleted
<1>1. IInv => AppendsDeleted
  <2> SUFFICES ASSUME IInv, pc \in {"map", "cut"}, ~committed, ~outage,
                      NEW i \in 1..Len(ReadAll(log)), log[i].type = "append", InFile(log[i].recno)
               PROVE  rows[log[i].recno].del
    BY DEF AppendsDeleted
  <2>1. ReadAll(log) = log
    BY LogIsRead DEF IInv
  <2>2. Ended(log) /\ ~HasRecord(log, "commit")
    BY DEF IInv, LogOfTx
  <2>3. HasRecord(log, "abort")
    BY <2>2 DEF Ended
  <2>4. AppendsGone
    BY <2>3 DEF IInv, EndedIsUndone, Undoable
  <2>5. i \in Appends
    BY <2>1 DEF Appends, OfType
  <2> QED
    BY <2>4, <2>5 DEF AppendsGone
<1> QED
    BY <1>1, Invariance, PTL

\* Every row a transaction wrote at most once, of those that were there when it
\* began with an empty LSN map, is back to what the transaction promised when the
\* connection is open again, after any number of crashes of the transaction, of
\* its rollback and of the recovery.
THEOREM RecoveryRestoresRows == Spec => []RecoveryRestores
<1>1. IInv => RecoveryRestores
  <2> SUFFICES ASSUME IInv, pc = "idle", ~skew, ~outage, NEW r \in 1..Len(goal), r \notin twice
               PROVE  InFile(r) /\ rows[r] = goal[r]
    BY DEF RecoveryRestores
  <2>1. log = <<>>
    BY DEF IInv, LogOfTx
  <2>2. CASE committed
    BY <2>2 DEF IInv, CommittedStays, InFile
  <2>3. CASE ~committed
    <3>1. Undoable
      BY <2>3 DEF Undoable
    <3>2. goal = base /\ Len(base) <= Len(rows)
      BY <3>1 DEF IInv, LogTells
    <3>3. \A s \in Old \ twice : rows[s] = base[s]
      BY <2>1, <3>1 DEF IInv, EndedIsUndone, Restored
    <3>4. Len(rows) \in Nat /\ Len(base) \in Nat
      BY RowLengths DEF IInv
    <3> QED
      BY <3>2, <3>3, <3>4 DEF Old, InFile
  <2> QED
    BY <2>2, <2>3
<1> QED
    BY <1>1, Invariance, PTL

=============================================================================
