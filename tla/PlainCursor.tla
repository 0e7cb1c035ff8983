---------------------------- MODULE PlainCursor ----------------------------
(***************************************************************************)
(* The table an application sees through a handle whose calls all go to    *)
(* the server, one round trip each: a cursor, the rows and their number,   *)
(* and the answer of the last question.  A client that announced no        *)
(* prefetch capability behaves this way (network/server.cpp, lookahead 0); *)
(* one that prefetches must not be told apart from it.                     *)
(***************************************************************************)
EXTENDS TableCursor

CONSTANTS
    InitCount,   \* records in the table at the start
    Values,      \* what an application writes into a row
    Blank,       \* the contents of a record just appended
    Steps        \* the arguments of AdsSkip

VARIABLES
    cursor,   \* Cursors
    rows,     \* sequence of row contents
    answer    \* what the last question was told

vars == <<cursor, rows, answer>>

count == Len(rows)

Init ==
    /\ rows = [r \in 1..InitCount |-> Blank]
    /\ cursor = Opened(InitCount)
    /\ answer = <<"none", 0>>

Move(c) == cursor' = c /\ UNCHANGED <<rows, answer>>

GotoTop == Move(Top(count))
GotoBottom == Move(Bottom(count))
\* Also a seek: its record is where the index says, LastRec() + 1 on a miss.
GotoRecord(r) == Move(Gone(cursor, r, count))
Skip(d) == Move(Skipped(cursor, d, count))
Refresh == Move(Gone(cursor, RecnoOf(cursor, count), count))

AppendRecord ==
    /\ count < MaxCount
    /\ rows' = Append(rows, Blank)
    /\ cursor' = On(count + 1)
    /\ UNCHANGED answer

\* A write off the records is refused.
Write(v) ==
    /\ rows' = IF cursor.at = "on" THEN [rows EXCEPT ![cursor.recno] = v] ELSE rows
    /\ UNCHANGED <<cursor, answer>>

Told(x) == answer' = x /\ UNCHANGED <<cursor, rows>>

AskRecno == Told(<<"recno", RecnoOf(cursor, count)>>)
AskEof == Told(<<"eof", AtEof(cursor)>>)
AskBof == Told(<<"bof", AtBof(cursor)>>)
AskCount == Told(<<"count", count>>)
AskField ==
    Told(<<"field", IF cursor.at = "on" THEN rows[cursor.recno] ELSE "none">>)

Next ==
    \/ GotoTop \/ GotoBottom \/ Refresh \/ AppendRecord
    \/ \E r \in 0..MaxCount + 1 : GotoRecord(r)
    \/ \E d \in Steps : Skip(d)
    \/ \E v \in Values : Write(v)
    \/ AskRecno \/ AskEof \/ AskBof \/ AskCount \/ AskField

Spec == Init /\ [][Next]_vars

=============================================================================
