---------------------------- MODULE RemoteCursor ----------------------------
(***************************************************************************)
(* A table handle of a remote connection with sequential prefetch: the     *)
(* client side (remote branches of abi/ace_exports.cpp, RemoteTable and    *)
(* parse_row_trailer_into of network/client) and the session's cursor on   *)
(* the server (network/server.cpp).                                        *)
(*                                                                         *)
(* A forward Skip brings up to Lookahead further rows, which the client    *)
(* queues and serves to AdsSkip(1) without a round trip.  The server's     *)
(* cursor then lags by `consumed` rows, a debt the next Skip on the wire   *)
(* pays.  Every call is one step: a client has one request under way, and  *)
(* the cursor belongs to its session.  Other sessions do not write here.   *)
(***************************************************************************)
EXTENDS TableCursor

CONSTANTS
    InitCount, Values, Blank, Steps,   \* as in PlainCursor
    Lookahead,    \* kPrefetchLookahead
    Liberties     \* calls the application makes at any time (see Calls)

\* The calls that neither settle the debt nor drop the queue, though they
\* read or move the server's cursor.  Outside Liberties the application makes
\* them only when there is nothing to settle or to drop.
Calls == {"seek", "append", "flush"}

ASSUME RemoteCursorAssumption ==
    /\ InitCount \in 0..MaxCount
    /\ Steps \subseteq Int /\ 1 \in Steps
    /\ Lookahead \in Nat \ {0}
    /\ Liberties \subseteq Calls

VARIABLES
    server,   \* Cursors: the session's Table
    rows,     \* the rows of the table
    client,   \* the RemoteTable: cached row, queue, consumed, record count
    answer    \* what the last question was told

vars == <<server, rows, client, answer>>

count == Len(rows)
Unknown == -1
NoRow == [recno |-> 0, val |-> Blank]   \* row_valid is FALSE
RowAt(r) == [recno |-> r, val |-> rows[r]]

-----------------------------------------------------------------------------
(* The server's answer to a move, and what the client makes of it *)

\* pack_row_trailer: the rows after c, and where the walk leaves the cursor.
Ahead(c) ==
    LET next == Following(c, count) IN SubSeq(next, 1, Min({Lookahead, Len(next)}))

\* Mutant: the walk back forgets the step that met the end of the table.
WalkedBackShort(c) ==
    LET ahead == Ahead(c)
        end == IF Len(ahead) < Lookahead THEN Eof(count + 1) ELSE On(Last(ahead))
    IN Skipped(end, -Len(ahead), count)

WalkedBack(c) ==
    LET ahead == Ahead(c)
        short == Len(ahead) < Lookahead
        end == IF short THEN Eof(count + 1) ELSE On(Last(ahead))
    IN Skipped(end, -(Len(ahead) + (IF short THEN 1 ELSE 0)), count)

\* Mutant: the acknowledgement leaves the debt as it was.
ParsedKeepsDebt(c, ahead) ==
    [client EXCEPT !.row = IF c.at = "on" THEN RowAt(c.recno) ELSE NoRow,
                   !.queue = [i \in DOMAIN ahead |-> RowAt(ahead[i])]]

\* parse_row_trailer_into
Parsed(c, ahead) ==
    [client EXCEPT !.row = IF c.at = "on" THEN RowAt(c.recno) ELSE NoRow,
                   !.queue = [i \in DOMAIN ahead |-> RowAt(ahead[i])],
                   !.consumed = 0]

Acked(c) == [server |-> c, client |-> Parsed(c, <<>>)]

\* RemoteConnection::skip and its handler: the debt is folded into the step.
SkipAcked(d) ==
    LET step == d + client.consumed
        c == Skipped(server, step, count)
    IN IF step >= 1 /\ c.at = "on"
       THEN [server |-> WalkedBack(c), client |-> Parsed(c, Ahead(c))]
       ELSE Acked(c)

\* remote_settle_cursor
Settled ==
    IF client.consumed > 0
    THEN SkipAcked(0)
    ELSE [server |-> server, client |-> client]

DropRow(cl) == [cl EXCEPT !.row = NoRow]
DropCount(cl) == [cl EXCEPT !.known = Unknown]

\* The application makes call c only when it is harmless, unless at liberty.
Allowed(c, harmless) == c \in Liberties \/ harmless

-----------------------------------------------------------------------------
Init ==
    /\ rows = [r \in 1..InitCount |-> Blank]
    /\ server = Opened(InitCount)
    /\ client = [row |-> NoRow, queue |-> <<>>, consumed |-> 0, known |-> Unknown]
    /\ answer = <<"none", 0>>

Moved(ack) ==
    /\ server' = ack.server
    /\ client' = ack.client
    /\ UNCHANGED <<rows, answer>>

GotoTop == Moved(Acked(Top(count)))
GotoBottom == Moved(Acked(Bottom(count)))
GotoRecord(r) == Moved(Acked(Gone(server, r, count)))

\* AdsSkip(1) with rows queued: no round trip, the server stays behind.
SkipLocal ==
    /\ client.queue # <<>>
    /\ client' = [client EXCEPT !.row = Head(client.queue),
                                !.queue = Tail(@),
                                !.consumed = @ + 1]
    /\ UNCHANGED <<server, rows, answer>>

SkipWire(d) ==
    /\ ~(d = 1 /\ client.queue # <<>>)
    /\ Moved(SkipAcked(d))

\* AdsSeek, AdsSeekLast, AdsSkipUnique: the ABI handle moves, then the
\* session's cursor follows it; the acknowledgement carries no row.
Seek(r) ==
    /\ Allowed("seek", client.consumed = 0 /\ client.queue = <<>>)
    /\ Moved([server |-> Gone(server, r, count), client |-> DropRow(client)])

Refresh ==
    LET s == Settled IN
    Moved([server |-> Gone(s.server, RecnoOf(s.server, count), count),
           client |-> DropRow(s.client)])

AppendRecord ==
    LET s == Settled IN
    /\ count < MaxCount
    /\ Allowed("append", s.client.queue = <<>>)
    /\ rows' = Append(rows, Blank)
    /\ server' = On(count + 1)
    /\ client' = DropCount(DropRow(s.client))
    /\ UNCHANGED answer

Put(v, s) ==
    /\ server' = s.server
    /\ rows' = IF s.server.at = "on" THEN [rows EXCEPT ![s.server.recno] = v] ELSE rows
    /\ UNCHANGED answer

\* Mutant: AdsSetField without remote_settle_cursor.
SetFieldUnsettled(v) == Put(v, [server |-> server]) /\ client' = DropRow(client)

\* AdsSetString, AdsSetLogical, AdsSetDouble
SetField(v) == LET s == Settled IN Put(v, s) /\ client' = DropRow(s.client)

\* AdsDeleteRecord, AdsRecallRecord: the flag is part of the row's contents.
FlagRecord(v) ==
    LET s == Settled IN Put(v, s) /\ client' = DropCount(DropRow(s.client))

\* AdsWriteRecord: SetField has already written through.
WriteRecord ==
    /\ Allowed("flush", client.consumed = 0)
    /\ client' = DropRow(client)
    /\ UNCHANGED <<server, rows, answer>>

-----------------------------------------------------------------------------
(* Questions: from the cached row when there is one, else from the server *)

Cached == client.row # NoRow

Told(x) == answer' = x /\ UNCHANGED <<server, rows>>

AskRecno ==
    /\ Told(<<"recno", IF Cached THEN client.row.recno ELSE RecnoOf(server, count)>>)
    /\ UNCHANGED client

AskEof == Told(<<"eof", ~Cached /\ AtEof(server)>>) /\ UNCHANGED client
AskBof == Told(<<"bof", ~Cached /\ AtBof(server)>>) /\ UNCHANGED client

AskCount ==
    LET n == IF client.known # Unknown THEN client.known ELSE count IN
    Told(<<"count", n>>) /\ client' = [client EXCEPT !.known = n]

\* AdsGetField fetches the server's current row when none is cached.
AskField ==
    LET cl == IF Cached THEN client ELSE Parsed(server, <<>>) IN
    /\ Told(<<"field", IF cl.row # NoRow THEN cl.row.val ELSE "none">>)
    /\ client' = cl

Ask == AskRecno \/ AskEof \/ AskBof \/ AskCount \/ AskField

Next ==
    \/ GotoTop
    \/ GotoBottom
    \/ \E r \in 0..MaxCount + 1 : GotoRecord(r)
    \/ SkipLocal
    \/ \E d \in Steps : SkipWire(d)
    \/ \E r \in 1..count + 1 : Seek(r)
    \/ Refresh
    \/ AppendRecord
    \/ \E v \in Values : SetField(v)
    \/ \E v \in Values : FlagRecord(v)
    \/ WriteRecord
    \/ Ask

Spec == Init /\ [][Next]_vars

-----------------------------------------------------------------------------
(* Properties *)

TypeOK ==
    LET Rows == [recno : 0..MaxCount, val : Values \cup {Blank}] IN
    /\ server \in Cursors
    /\ rows \in BoundedSeq(Values \cup {Blank}, MaxCount)
    /\ client \in [row : Rows, queue : Seq(Rows), consumed : 0..Lookahead,
                   known : {Unknown} \cup 0..MaxCount]

\* Where the application is: the server's cursor with its debt paid
position ==
    IF client.consumed > 0 THEN Skipped(server, client.consumed, count) ELSE server

\* The queue is never stale: it holds the rows that follow the application's
\* position, in order and with their present contents, and the cached row is
\* the one at that position (the comment on RemoteTable::prefetch_queue).
QueueNeverStale ==
    /\ \A i \in DOMAIN client.queue :
          /\ i <= Len(Following(position, count))
          /\ client.queue[i] = RowAt(Following(position, count)[i])
    /\ Cached => position.at = "on" /\ client.row = RowAt(position.recno)

\* Prefetching does not show: the application cannot tell this handle from
\* one that asks the server every time, in where its moves take it, in which
\* row its writes hit or in any answer it gets.
Plain == INSTANCE PlainCursor WITH cursor <- position
BehavesLikePlain == Plain!Spec

=============================================================================
