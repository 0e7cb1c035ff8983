--------------------------- MODULE SessionsProofs ---------------------------
(***************************************************************************)
(* What the numbers keep, for any number of clients, numbers and requests, *)
(* whatever clients and administrators dare: that a thread touches what    *)
(* belongs to another begins with a kill (the code's copy of a number in   *)
(* sockets_), never with the accept thread, a thread of a session nobody   *)
(* ended, or the stop; and a stop that returns has ended every session.    *)
(***************************************************************************)
EXTENDS Sessions, LeastNumber, SequenceTheorems

Requests == {Nothing, Table, List, Bye} \cup {KillUser(n, s) : n \in Nat, s \in Clients}

Objects == {Free, Listener, Probe} \cup {Conn(s) : s \in Clients} \cup {File(s) : s \in Clients}

\* From the entry in sessions_info_ to its end, with an entry in sockets_, and
\* with a socket of its own.
Served == {"call", "recv", "work", "reply", "take", "shut", "clean"}
Listed == Served \cup {"install", "erase", "unregister"}
Live == Served \cup {"register", "install"}
Places == Listed \cup {"none", "register", "ended"}

-----------------------------------------------------------------------------
(* The invariant *)

Shape ==
    /\ asked \in [Clients -> Requests] /\ doing \in [Clients -> Requests]
    /\ peer \in [Clients -> {"away", "open", "gone"}]
    /\ shown \in [Clients -> Seq(Clients)]
    /\ backlog \subseteq Clients /\ down \subseteq Clients
    /\ owner \in [Numbers \cup {ListenNumber} -> Objects]
    /\ number \in [Clients -> Numbers \cup {ListenNumber}]
    /\ acc \in {"accept", "accepted", "spawn", "done"}
    /\ cand \in {Free, Probe} \cup {Conn(s) : s \in Clients}
    /\ pc \in [Killers -> Places \cup {"idle"}]
    /\ infos \in Seq(Clients) /\ sockets \subseteq Clients /\ killed \subseteq Clients
    /\ aim \in [Killers -> Clients \cup {Nobody}]

\* Each thread does what its place in the code says.
Threads ==
    /\ pc[Console] \in {"idle", "take", "shut"}
    /\ \A s \in Clients : pc[s] # "idle"
    /\ \A s \in Clients : pc[s] \in {"take", "shut"} => doing[s].kind = "kill"
    /\ \A s \in Clients : pc[s] = "recv" => aim[s] = s
    /\ \A s \in sockets : pc[s] \in Served \cup {"erase"}
    /\ \A k \in Killers : pc[k] \in {"take", "shut"} => aim[k] \in Clients
    /\ \A k \in Killers : pc[k] = "shut" => aim[k] \in killed

\* A connection on its way to its thread: in the backlog, or accepted.
Waits(s) == s \in backlog \/ cand = Conn(s)

Newcomers ==
    /\ \A s \in down : peer[s] # "away"
    /\ acc \notin {"accepted", "spawn"} => cand = Free
    /\ \A s \in Clients : pc[s] # "none" \/ Waits(s) => peer[s] # "away"
    /\ \A s \in Clients : Waits(s) => pc[s] = "none" /\ s \notin down
    /\ \A s \in backlog : cand # Conn(s)
    /\ \A s \in killed : pc[s] # "none"
    /\ \A s \in down \ killed : pc[s] \notin Live

\* The number a session holds stands for its connection, unless an
\* administrator ended it.
NumbersStand ==
    /\ owner[ListenNumber] \in {Listener, Free}
    /\ \A s \in Clients : pc[s] \in Live => number[s] \in Numbers
    /\ \A s \in Clients \ killed : pc[s] \in Live => owner[number[s]] = Conn(s)
    /\ \A s \in Clients : cand = Conn(s) =>
          number[s] \in Numbers /\ owner[number[s]] = Conn(s)

\* All of it holds until a call goes astray.
SInv == astray \/ (Shape /\ Threads /\ Newcomers /\ NumbersStand)

\* A stop that goes on has the accept thread behind it.
StopInv ==
    /\ stop \in {"join", "stopped"} => acc = "done"
    /\ stop = "stopped" => \A s \in Clients : Ended(s)

-----------------------------------------------------------------------------
(* Numbers, lists and steps *)

\* The objects a number may stand for are told apart.
LEMMA Apart ==
    /\ \A s, t : Conn(s) = Conn(t) => s = t
    /\ \A s : Conn(s) # Free /\ Conn(s) # Listener /\ Conn(s) # Probe
    /\ \A s, t : Conn(s) # File(t)
    /\ \A s : File(s) # Free
    /\ Listener # Free /\ Probe # Free /\ Probe # Listener
BY DEF Conn, Free, Listener, Probe, File

\* The number that is given out was free.
LEMMA Given ==
    ASSUME FreeNumbers # {}
    PROVE  /\ Min(FreeNumbers) \in Numbers /\ owner[Min(FreeNumbers)] = Free
           /\ Min(FreeNumbers) # ListenNumber
<1>1. FreeNumbers \in SUBSET Nat /\ ListenNumber \notin FreeNumbers
    BY SessionsAssumption DEF FreeNumbers
<1>2. Min(FreeNumbers) \in FreeNumbers
    BY <1>1, MinOfSet
<1> QED
    BY <1>1, <1>2 DEF FreeNumbers

\* One more element in a list.
LEMMA Inserted ==
    ASSUME NEW S, NEW q \in Seq(S), NEW i \in 1..Len(q) + 1, NEW e \in S
    PROVE  LET r == InsertAt(q, i, e)
           IN  /\ r \in Seq(S) /\ Len(r) = Len(q) + 1
               /\ \A j \in 1..Len(q) + 1 :
                     r[j] = IF j < i THEN q[j] ELSE IF j = i THEN e ELSE q[j - 1]
<1> DEFINE a == SubSeq(q, 1, i - 1)
           b == SubSeq(q, i, Len(q))
<1>1. a \in Seq(S) /\ Len(a) = i - 1 /\ \A j \in 1..(i - 1) : a[j] = q[j]
    BY SubSeqProperties
<1>2. b \in Seq(S) /\ Len(b) = Len(q) - i + 1 /\ \A j \in 1..Len(b) : b[j] = q[j + i - 1]
    BY SubSeqProperties
<1>3. InsertAt(q, i, e) = a \o <<e>> \o b
    BY DEF InsertAt
<1> HIDE DEF a, b
<1> DEFINE c == a \o <<e>>
<1>4. c \in Seq(S) /\ Len(c) = i /\ c[i] = e /\ \A j \in 1..(i - 1) : c[j] = q[j]
    BY <1>1
<1>5. InsertAt(q, i, e) = c \o b
    BY <1>3
<1> HIDE DEF c
<1>6. /\ c \o b \in Seq(S) /\ Len(c \o b) = Len(q) + 1
      /\ \A j \in 1..Len(q) + 1 : (c \o b)[j] = IF j <= i THEN c[j] ELSE b[j - i]
  <2>1. Len(q) \in Nat /\ Len(c) + Len(b) = Len(q) + 1
    BY <1>2, <1>4
  <2>2. /\ c \o b \in Seq(S) /\ Len(c \o b) = Len(c) + Len(b)
        /\ \A j \in 1..(Len(c) + Len(b)) :
             (c \o b)[j] = IF j <= Len(c) THEN c[j] ELSE b[j - Len(c)]
    BY <1>2, <1>4, ConcatProperties
  <2> QED
    BY <1>4, <2>1, <2>2
<1>7. ASSUME NEW j \in 1..Len(q) + 1
      PROVE  (c \o b)[j] = IF j < i THEN q[j] ELSE IF j = i THEN e ELSE q[j - 1]
  <2>1. Len(q) \in Nat /\ j \in Int /\ i \in Int
    OBVIOUS
  <2>2. CASE j > i
    <3>1. j - i \in 1..Len(b) /\ (j - i) + i - 1 = j - 1
      BY <1>2, <2>1, <2>2
    <3>2. (c \o b)[j] = b[j - i]
      BY <1>6, <2>1, <2>2
    <3> QED
      BY <1>2, <2>1, <2>2, <3>1, <3>2
  <2>3. CASE j < i
    BY <1>4, <1>6, <2>1, <2>3
  <2>4. CASE j = i
    BY <1>4, <1>6, <2>1, <2>4
  <2>5. j > i \/ j < i \/ j = i
    BY <2>1
  <2> QED
    BY ONLY <2>2, <2>3, <2>4, <2>5
<1> QED
    BY <1>5, <1>6, <1>7

\* One element less.
LEMMA Removed ==
    ASSUME NEW S, NEW q \in Seq(S), NEW i \in 1..Len(q)
    PROVE  LET r == RemoveAt(q, i)
           IN  /\ r \in Seq(S) /\ Len(r) = Len(q) - 1
               /\ \A j \in 1..Len(r) : r[j] = IF j < i THEN q[j] ELSE q[j + 1]
<1> DEFINE a == SubSeq(q, 1, i - 1)
           b == SubSeq(q, i + 1, Len(q))
<1>1. a \in Seq(S) /\ Len(a) = i - 1 /\ \A j \in 1..(i - 1) : a[j] = q[j]
    BY SubSeqProperties
<1>2. b \in Seq(S) /\ Len(b) = Len(q) - i /\ \A j \in 1..Len(b) : b[j] = q[j + i]
    BY SubSeqProperties
<1>3. RemoveAt(q, i) = a \o b
    BY DEF RemoveAt
<1> HIDE DEF a, b
<1>4. /\ a \o b \in Seq(S) /\ Len(a \o b) = Len(q) - 1
      /\ \A j \in 1..Len(q) - 1 : (a \o b)[j] = IF j <= i - 1 THEN a[j] ELSE b[j - (i - 1)]
  <2>1. Len(q) \in Nat /\ Len(a) + Len(b) = Len(q) - 1 /\ a \in Seq(S) /\ b \in Seq(S)
    BY <1>1, <1>2
  <2>2. /\ a \o b \in Seq(S) /\ Len(a \o b) = Len(a) + Len(b)
        /\ \A j \in 1..Len(a) + Len(b) : (a \o b)[j] = IF j <= Len(a) THEN a[j] ELSE b[j - Len(a)]
    BY <2>1, ConcatProperties
  <2> QED
    BY <2>1, <2>2, <1>1
<1>5. \A j \in 1..Len(q) - 1 : (a \o b)[j] = IF j < i THEN q[j] ELSE q[j + 1]
    BY <1>1, <1>2, <1>4
<1> QED
    BY <1>3, <1>4, <1>5

\* What a step may be.
LEMMA Steps ==
    ASSUME [Next]_vars
    PROVE  \/ UNCHANGED vars
           \/ AcceptOne \/ AcceptFails \/ DropAccepted \/ KeepAccepted
           \/ BeginStop \/ CloseListener \/ JoinAccept \/ JoinSessions
           \/ \E k \in Killers : TakeSocket(k) \/ CloseTaken(k)
           \/ \E s \in Clients :
                 \/ Spawn(s) \/ Dial(s) \/ HangUp(s) \/ ConsoleKill(s)
                 \/ AskTable(s) \/ AskList(s) \/ AskBye(s) \/ AskKill(s)
                 \/ Register(s) \/ Install(s) \/ CallRecv(s) \/ Recv(s) \/ RecvFails(s)
                 \/ OpenTable(s) \/ Snapshot(s) \/ Resolve(s) \/ Reply(s)
                 \/ Cleanup(s) \/ EraseSocket(s) \/ Unregister(s)
BY DEF Next, Accepts, Stops, Kills, Asks, Runs

\* The steps that change the clients' sides.
LEMMA PeerSteps ==
    [Next]_vars =>
        \/ UNCHANGED peer
        \/ \E s \in Clients : Dial(s) \/ HangUp(s)
BY Steps DEF vars, client, system, accept, registry, session, AcceptOne, AcceptFails, DropAccepted,
   KeepAccepted, BeginStop, CloseListener, JoinAccept, JoinSessions, TakeSocket,
   CloseTaken, Spawn, ConsoleKill, AskTable, AskList, AskBye, AskKill, Register, Install,
   CallRecv, Recv, RecvFails, OpenTable, Snapshot, Resolve, Reply, Cleanup, EraseSocket,
   Unregister, Send, Close, Give, Use

\* The steps that change the requests that were sent.
LEMMA AskedSteps ==
    [Next]_vars =>
        \/ UNCHANGED <<asked, asks>>
        \/ \E s \in Clients : \/ AskTable(s) \/ AskList(s) \/ AskBye(s) \/ AskKill(s)
                              \/ Recv(s)
BY Steps DEF vars, client, system, accept, registry, session, AcceptOne, AcceptFails, DropAccepted,
   KeepAccepted, BeginStop, CloseListener, JoinAccept, JoinSessions, TakeSocket,
   CloseTaken, Spawn, Dial, HangUp, ConsoleKill, Register, Install, CallRecv, RecvFails,
   OpenTable, Snapshot, Resolve, Reply, Cleanup, EraseSocket, Unregister, Close, Give,
   Use

\* The steps that change the requests that are worked on.
LEMMA DoingSteps ==
    [Next]_vars =>
        \/ UNCHANGED doing
        \/ \E s \in Clients : Recv(s) \/ Reply(s)
BY Steps DEF vars, client, system, accept, registry, session, AcceptOne, AcceptFails, DropAccepted,
   KeepAccepted, BeginStop, CloseListener, JoinAccept, JoinSessions, TakeSocket,
   CloseTaken, Spawn, Dial, HangUp, ConsoleKill, AskTable, AskList, AskBye, AskKill,
   Register, Install, CallRecv, RecvFails, OpenTable, Snapshot, Resolve, Cleanup,
   EraseSocket, Unregister, Send, Close, Give, Use

\* The steps that change the lists that were shown.
LEMMA ShownSteps ==
    [Next]_vars =>
        \/ UNCHANGED shown
        \/ \E s \in Clients : Snapshot(s)
BY Steps DEF vars, client, system, accept, registry, session, AcceptOne, AcceptFails, DropAccepted,
   KeepAccepted, BeginStop, CloseListener, JoinAccept, JoinSessions, TakeSocket,
   CloseTaken, Spawn, Dial, HangUp, ConsoleKill, AskTable, AskList, AskBye, AskKill,
   Register, Install, CallRecv, Recv, RecvFails, OpenTable, Resolve, Reply, Cleanup,
   EraseSocket, Unregister, Send, Close, Give, Use

\* The steps that change the backlog.
LEMMA BacklogSteps ==
    [Next]_vars =>
        \/ UNCHANGED backlog
        \/ AcceptOne
        \/ \E s \in Clients : Dial(s)
BY Steps DEF vars, client, system, accept, registry, session, AcceptFails, DropAccepted, KeepAccepted,
   BeginStop, CloseListener, JoinAccept, JoinSessions, TakeSocket, CloseTaken, Spawn,
   HangUp, ConsoleKill, AskTable, AskList, AskBye, AskKill, Register, Install, CallRecv,
   Recv, RecvFails, OpenTable, Snapshot, Resolve, Reply, Cleanup, EraseSocket,
   Unregister, Send, Close, Give, Use

\* The steps that change what the numbers stand for.
LEMMA OwnerSteps ==
    [Next]_vars =>
        \/ UNCHANGED <<owner, down>>
        \/ AcceptOne \/ DropAccepted \/ CloseListener
        \/ \E k \in Killers : CloseTaken(k)
        \/ \E s \in Clients : OpenTable(s) \/ Cleanup(s)
BY Steps DEF vars, client, system, accept, registry, session, AcceptFails, KeepAccepted, BeginStop,
   JoinAccept, JoinSessions, TakeSocket, Spawn, Dial, HangUp, ConsoleKill, AskTable,
   AskList, AskBye, AskKill, Register, Install, CallRecv, Recv, RecvFails, Snapshot,
   Resolve, Reply, EraseSocket, Unregister, Send, Use

\* The steps that change whether a call went astray.
LEMMA AstraySteps ==
    [Next]_vars =>
        \/ UNCHANGED astray
        \/ DropAccepted \/ CloseListener
        \/ \E k \in Killers : CloseTaken(k)
        \/ \E s \in Clients : CallRecv(s) \/ Recv(s) \/ Reply(s) \/ Cleanup(s)
BY Steps DEF vars, client, system, accept, registry, session, AcceptOne, AcceptFails, KeepAccepted,
   BeginStop, JoinAccept, JoinSessions, TakeSocket, Spawn, Dial, HangUp, ConsoleKill,
   AskTable, AskList, AskBye, AskKill, Register, Install, RecvFails, OpenTable, Snapshot,
   Resolve, EraseSocket, Unregister, Send, Give

\* The steps that change the accept thread.
LEMMA AcceptSteps ==
    [Next]_vars =>
        \/ UNCHANGED <<acc, cand>>
        \/ AcceptOne \/ AcceptFails \/ DropAccepted \/ KeepAccepted
        \/ \E s \in Clients : Spawn(s)
BY Steps DEF vars, client, system, accept, registry, session, BeginStop, CloseListener, JoinAccept,
   JoinSessions, TakeSocket, CloseTaken, Dial, HangUp, ConsoleKill, AskTable, AskList,
   AskBye, AskKill, Register, Install, CallRecv, Recv, RecvFails, OpenTable, Snapshot,
   Resolve, Reply, Cleanup, EraseSocket, Unregister, Send, Close, Give, Use

\* The steps that change the sessions' copies of their numbers.
LEMMA NumberSteps ==
    [Next]_vars =>
        \/ UNCHANGED number
        \/ AcceptOne
BY Steps DEF vars, client, system, accept, registry, session, AcceptFails, DropAccepted, KeepAccepted,
   BeginStop, CloseListener, JoinAccept, JoinSessions, TakeSocket, CloseTaken, Spawn,
   Dial, HangUp, ConsoleKill, AskTable, AskList, AskBye, AskKill, Register, Install,
   CallRecv, Recv, RecvFails, OpenTable, Snapshot, Resolve, Reply, Cleanup, EraseSocket,
   Unregister, Send, Close, Give, Use

\* The steps that change the list of sessions.
LEMMA InfosSteps ==
    [Next]_vars =>
        \/ UNCHANGED infos
        \/ \E s \in Clients : Register(s) \/ Unregister(s)
BY Steps DEF vars, client, system, accept, registry, session, AcceptOne, AcceptFails, DropAccepted,
   KeepAccepted, BeginStop, CloseListener, JoinAccept, JoinSessions, TakeSocket,
   CloseTaken, Spawn, Dial, HangUp, ConsoleKill, AskTable, AskList, AskBye, AskKill,
   Install, CallRecv, Recv, RecvFails, OpenTable, Snapshot, Resolve, Reply, Cleanup,
   EraseSocket, Send, Close, Give, Use

\* The steps that change the table of sockets.
LEMMA SocketsSteps ==
    [Next]_vars =>
        \/ UNCHANGED sockets
        \/ \E k \in Killers : TakeSocket(k)
        \/ \E s \in Clients : Install(s) \/ EraseSocket(s)
BY Steps DEF vars, client, system, accept, registry, session, AcceptOne, AcceptFails, DropAccepted,
   KeepAccepted, BeginStop, CloseListener, JoinAccept, JoinSessions, CloseTaken, Spawn,
   Dial, HangUp, ConsoleKill, AskTable, AskList, AskBye, AskKill, Register, CallRecv,
   Recv, RecvFails, OpenTable, Snapshot, Resolve, Reply, Cleanup, Unregister, Send,
   Close, Give, Use

\* The steps that change the sessions whose entry was taken.
LEMMA KilledSteps ==
    [Next]_vars =>
        \/ UNCHANGED killed
        \/ \E k \in Killers : TakeSocket(k)
BY Steps DEF vars, client, system, accept, registry, session, AcceptOne, AcceptFails, DropAccepted,
   KeepAccepted, BeginStop, CloseListener, JoinAccept, JoinSessions, CloseTaken, Spawn,
   Dial, HangUp, ConsoleKill, AskTable, AskList, AskBye, AskKill, Register, Install,
   CallRecv, Recv, RecvFails, OpenTable, Snapshot, Resolve, Reply, Cleanup, EraseSocket,
   Unregister, Send, Close, Give, Use

\* The steps that change who is to be ended.
LEMMA AimSteps ==
    [Next]_vars =>
        \/ UNCHANGED aim
        \/ \E k \in Killers : TakeSocket(k) \/ CloseTaken(k)
        \/ \E s \in Clients : \/ ConsoleKill(s) \/ CallRecv(s) \/ Recv(s) \/ RecvFails(s)
                              \/ Resolve(s)
BY Steps DEF vars, client, system, accept, registry, session, AcceptOne, AcceptFails, DropAccepted,
   KeepAccepted, BeginStop, CloseListener, JoinAccept, JoinSessions, Spawn, Dial, HangUp,
   AskTable, AskList, AskBye, AskKill, Register, Install, OpenTable, Snapshot, Reply,
   Cleanup, EraseSocket, Unregister, Send, Close, Give, Use

\* The steps that change the stop of the server.
LEMMA StopSteps ==
    [Next]_vars =>
        \/ UNCHANGED stop
        \/ BeginStop \/ CloseListener \/ JoinAccept \/ JoinSessions
        \/ \E s \in Clients : Reply(s)
BY Steps DEF vars, client, system, accept, registry, session, AcceptOne, AcceptFails, DropAccepted,
   KeepAccepted, TakeSocket, CloseTaken, Spawn, Dial, HangUp, ConsoleKill, AskTable,
   AskList, AskBye, AskKill, Register, Install, CallRecv, Recv, RecvFails, OpenTable,
   Snapshot, Resolve, Cleanup, EraseSocket, Unregister, Send, Close, Give, Use

\* The steps that change where the threads are.
LEMMA PcSteps ==
    [Next]_vars =>
        \/ UNCHANGED pc
        \/ \E k \in Killers : TakeSocket(k) \/ CloseTaken(k)
        \/ \E s \in Clients : \/ Spawn(s) \/ ConsoleKill(s) \/ Register(s) \/ Install(s)
                              \/ CallRecv(s) \/ Recv(s) \/ RecvFails(s) \/ OpenTable(s)
                              \/ Snapshot(s) \/ Resolve(s) \/ Reply(s) \/ Cleanup(s)
                              \/ EraseSocket(s) \/ Unregister(s)
BY Steps DEF vars, client, system, accept, registry, session, AcceptOne, AcceptFails, DropAccepted,
   KeepAccepted, BeginStop, CloseListener, JoinAccept, JoinSessions, Dial, HangUp,
   AskTable, AskList, AskBye, AskKill, Send, Close, Give

\* What requests look like.
LEMMA Kinds ==
    /\ Nothing \in Requests /\ Table \in Requests /\ List \in Requests /\ Bye \in Requests
    /\ Nothing.kind = "nothing" /\ Table.kind = "table" /\ List.kind = "list" /\ Bye.kind = "bye"
    /\ \A n \in Nat, s \in Clients :
          /\ KillUser(n, s) \in Requests /\ KillUser(n, s).kind = "kill"
          /\ KillUser(n, s).no = n /\ KillUser(n, s).meant = s
    /\ \A r \in Requests : r.kind = "kill" => r.no \in Nat /\ r.meant \in Clients
<1>1. /\ Nothing \in Requests /\ Table \in Requests /\ List \in Requests /\ Bye \in Requests
      /\ \A n \in Nat, s \in Clients : KillUser(n, s) \in Requests
    BY DEF Requests
<1>2. Nothing.kind = "nothing" /\ Table.kind = "table" /\ List.kind = "list" /\ Bye.kind = "bye"
    BY DEF Nothing, Table, List, Bye
<1>3. \A n \in Nat, s \in Clients :
         KillUser(n, s).kind = "kill" /\ KillUser(n, s).no = n /\ KillUser(n, s).meant = s
    BY DEF KillUser
<1>4. ASSUME NEW r \in Requests, r.kind = "kill" PROVE r.no \in Nat /\ r.meant \in Clients
  <2>1. PICK n \in Nat, s \in Clients : r = KillUser(n, s)
    BY <1>2, <1>4 DEF Requests
  <2> QED
    BY <2>1, <1>3
<1> QED
    BY <1>1, <1>2, <1>3, <1>4

\* Sessions are clients, and the console is none.
LEMMA Who == Clients \subseteq Killers /\ Console \in Killers /\ Console \notin Clients
BY SessionsAssumption DEF Killers

\* Everything is in shape at the start, and every step keeps it so.
LEMMA ShapeKept == Shape /\ Threads /\ [Next]_vars => Shape'
<1> SUFFICES ASSUME Shape, Threads, [Next]_vars PROVE Shape'
    OBVIOUS
<1> USE Who
<1>1. asked' \in [Clients -> Requests] /\ doing' \in [Clients -> Requests]
  <2>1. CASE \E s \in Clients : Recv(s)
    <3>1. PICK s \in Clients : Recv(s)
      BY <2>1
    <3>2. aim[s] = s /\ asked[s] \in Requests
      BY <3>1 DEF Recv, Threads, Shape
    <3> QED
      BY <3>1, <3>2, Kinds DEF Recv, Shape
  <2>2. CASE \E s \in Clients : AskKill(s)
    <3>1. PICK s \in Clients : AskKill(s)
      BY <2>2
    <3>2. PICK n \in DOMAIN shown[s] : Send(s, KillUser(n, shown[s][n]))
      BY <3>1 DEF AskKill
    <3>3. n \in Nat /\ shown[s][n] \in Clients
      BY <3>2 DEF Shape
    <3> QED
      BY <3>2, <3>3, Kinds DEF Send, Shape, session
  <2>3. CASE \E s \in Clients : AskTable(s) \/ AskList(s) \/ AskBye(s)
    <3>1. PICK s \in Clients, r \in Requests : Send(s, r)
      BY <2>3, Kinds DEF AskTable, AskList, AskBye
    <3> QED
      BY <3>1 DEF Send, Shape, session
  <2>4. CASE \E s \in Clients : Reply(s)
    BY <2>4, Kinds DEF Reply, Shape, client
  <2> QED
    BY <2>1, <2>2, <2>3, <2>4, AskedSteps, DoingSteps DEF Shape
<1>2. peer' \in [Clients -> {"away", "open", "gone"}] /\ shown' \in [Clients -> Seq(Clients)]
  <2>1. peer' \in [Clients -> {"away", "open", "gone"}]
    BY PeerSteps DEF Dial, HangUp, Shape
  <2>2. shown' \in [Clients -> Seq(Clients)]
    BY ShownSteps DEF Snapshot, Shape
  <2> QED
    BY <2>1, <2>2
<1>3. \/ AcceptOne
      \/ number' \in [Clients -> Numbers \cup {ListenNumber}] /\ backlog' \subseteq Clients
  <2>1. number' = number \/ AcceptOne
    BY NumberSteps
  <2>2. backlog' \subseteq Clients \/ AcceptOne
    <3>1. backlog' = backlog \/ AcceptOne \/ \E s \in Clients : backlog' = backlog \cup {s}
      BY BacklogSteps DEF Dial
    <3>2. backlog \subseteq Clients
      BY DEF Shape
    <3> QED
      BY <3>1, <3>2
  <2> QED
    BY <2>1, <2>2 DEF Shape
<1>4. AcceptOne => /\ cand' \in {Free, Probe} \cup {Conn(s) : s \in Clients}
                   /\ backlog' \subseteq Clients
                   /\ number' \in [Clients -> Numbers \cup {ListenNumber}]
                   /\ owner' \in [Numbers \cup {ListenNumber} -> Objects] /\ down' = down
  <2> SUFFICES ASSUME AcceptOne
               PROVE  /\ cand' \in {Free, Probe} \cup {Conn(s) : s \in Clients}
                      /\ backlog' \subseteq Clients
                      /\ number' \in [Clients -> Numbers \cup {ListenNumber}]
                      /\ owner' \in [Numbers \cup {ListenNumber} -> Objects] /\ down' = down
    OBVIOUS
  <2>1. cand' \in {Free, Probe} \cup {Conn(s) : s \in Clients} /\ backlog' \subseteq Clients
    BY DEF AcceptOne, Shape
  <2>2. Min(FreeNumbers) \in Numbers
    BY Given DEF AcceptOne
  <2>3. number' \in [Clients -> Numbers \cup {ListenNumber}]
    BY <2>2 DEF AcceptOne, Shape
  <2>4. owner' \in [Numbers \cup {ListenNumber} -> Objects] /\ down' = down
    BY <2>1, <2>2 DEF AcceptOne, Give, Shape, Objects
  <2> QED
    BY <2>1, <2>3, <2>4
<1>5. owner' \in [Numbers \cup {ListenNumber} -> Objects] /\ down' \subseteq Clients
  <2>1. CASE \E s \in Clients : OpenTable(s)
    <3>1. FreeNumbers # {} => Min(FreeNumbers) \in Numbers
      BY Given
    <3>2. \A s \in Clients : File(s) \in Objects
      BY DEF Objects
    <3>3. PICK s \in Clients : OpenTable(s)
      BY <2>1
    <3>4. owner' = owner \/ \E n \in Numbers : owner' = [owner EXCEPT ![n] = File(s)]
      BY <3>1, <3>3 DEF OpenTable, Give
    <3>5. down' = down
      BY <3>3 DEF OpenTable
    <3>6. owner \in [Numbers \cup {ListenNumber} -> Objects] /\ down \subseteq Clients
      BY DEF Shape
    <3> QED
      BY <3>2, <3>4, <3>5, <3>6
  <2>2. CASE DropAccepted \/ CloseListener \/ (\E k \in Killers : CloseTaken(k))
    BY <2>2 DEF DropAccepted, CloseListener, CloseTaken, Close, Shape, Objects
  <2>3. CASE \E s \in Clients : Cleanup(s)
    <3>1. PICK s \in Clients : Cleanup(s)
      BY <2>3
    <3>2. DOMAIN owner = Numbers \cup {ListenNumber} /\ Free \in Objects
      BY DEF Shape, Objects
    <3>3. owner' = [n \in DOMAIN owner |->
                      IF n = number[s] \/ owner[n] = File(s) THEN Free ELSE owner[n]]
      BY <3>1 DEF Cleanup
    <3>4. down' \subseteq Clients
      BY <3>1 DEF Cleanup, Shape
    <3> QED
      BY <3>2, <3>3, <3>4 DEF Shape
  <2> QED
    BY <1>4, <2>1, <2>2, <2>3, OwnerSteps DEF Shape
<1>6. cand' \in {Free, Probe} \cup {Conn(s) : s \in Clients}
    BY <1>4, AcceptSteps DEF AcceptFails, DropAccepted, KeepAccepted, Spawn, Shape
<1>7. acc' \in {"accept", "accepted", "spawn", "done"}
    BY AcceptSteps DEF AcceptOne, AcceptFails, DropAccepted, KeepAccepted, Spawn, LoopAgain, Shape
<1>8. pc' \in [Killers -> Places \cup {"idle"}]
  <2>1. \/ pc' = pc
        \/ \E k \in Killers, p \in Places \cup {"idle"} : pc' = [pc EXCEPT ![k] = p]
    <3>1. CASE \E k \in Killers : TakeSocket(k) \/ CloseTaken(k)
      BY <3>1 DEF Places, Listed, Served, Goto, Answered, TakeSocket, CloseTaken
    <3>2. CASE \E s \in Clients : Spawn(s) \/ ConsoleKill(s) \/ Register(s) \/ Install(s)
      BY <3>2 DEF Places, Listed, Served, Goto, Spawn, ConsoleKill, Register, Install
    <3>3. CASE \E s \in Clients : CallRecv(s) \/ Recv(s) \/ RecvFails(s) \/ OpenTable(s)
      BY <3>3 DEF Places, Listed, Served, Goto, CallRecv, Recv, RecvFails, OpenTable
    <3>4. CASE \E s \in Clients : Snapshot(s) \/ Resolve(s) \/ Reply(s)
      BY <3>4 DEF Places, Listed, Served, Goto, Snapshot, Resolve, Reply
    <3>5. CASE \E s \in Clients : Cleanup(s) \/ EraseSocket(s) \/ Unregister(s)
      BY <3>5 DEF Places, Listed, Served, Goto, Cleanup, EraseSocket, Unregister
    <3> QED
      BY <3>1, <3>2, <3>3, <3>4, <3>5, PcSteps
  <2> QED
    BY <2>1 DEF Shape
<1>9. infos' \in Seq(Clients)
  <2>1. CASE \E s \in Clients : Register(s)
    BY <2>1, Inserted DEF Register, Shape
  <2>2. CASE \E s \in Clients : Unregister(s)
    <3>1. DOMAIN infos = 1..Len(infos)
      BY DEF Shape
    <3> QED
      BY <2>2, <3>1, Removed DEF Unregister, Shape
  <2> QED
    BY <2>1, <2>2, InfosSteps DEF Shape
<1>10. sockets' \subseteq Clients /\ killed' \subseteq Clients
  <2>1. \A k \in Killers : TakeSocket(k) => aim[k] \in Clients
    BY DEF TakeSocket, Threads
  <2> QED
    BY <2>1, SocketsSteps, KilledSteps DEF TakeSocket, Install, EraseSocket, Shape
<1>11. aim' \in [Killers -> Clients \cup {Nobody}]
  <2>1. CASE \E k \in Killers : TakeSocket(k) \/ CloseTaken(k)
    BY <2>1 DEF TakeSocket, CloseTaken, Shape
  <2>2. CASE \E s \in Clients : CallRecv(s)
    BY <2>2 DEF CallRecv, Shape
  <2>3. CASE \E s \in Clients : Recv(s) \/ RecvFails(s) \/ ConsoleKill(s)
    <3>1. \/ aim' = aim
          \/ \E k \in Killers, c \in Clients \cup {Nobody} : aim' = [aim EXCEPT ![k] = c]
      BY <2>3 DEF Recv, RecvFails, ConsoleKill
    <3>2. aim \in [Killers -> Clients \cup {Nobody}]
      BY DEF Shape
    <3> QED
      BY <3>1, <3>2
  <2>4. CASE \E s \in Clients : Resolve(s)
    <3>1. PICK s \in Clients : Resolve(s)
      BY <2>4
    <3>2. aim' = aim \/ \E i \in DOMAIN infos : aim' = [aim EXCEPT ![s] = infos[i]]
      BY <3>1 DEF Resolve
    <3>3. aim \in [Killers -> Clients \cup {Nobody}] /\ \A i \in DOMAIN infos : infos[i] \in Clients
      BY DEF Shape
    <3> QED
      BY <3>2, <3>3
  <2> QED
    BY <2>1, <2>2, <2>3, <2>4, AimSteps DEF Shape
<1> QED
    BY <1>1, <1>2, <1>3, <1>4, <1>5, <1>6, <1>7, <1>8, <1>9, <1>10, <1>11 DEF Shape

\* How a session's thread moves.
LEMMA ThreadMoves ==
    ASSUME Shape, [Next]_vars, NEW s \in Clients
    PROVE  \/ pc'[s] = pc[s]
           \/ Spawn(s) /\ pc'[s] = "register"
           \/ Register(s) /\ pc[s] = "register" /\ pc'[s] = "install"
           \/ Install(s) /\ pc[s] = "install" /\ pc'[s] = "call"
           \/ CallRecv(s) /\ pc[s] = "call" /\ pc'[s] \in {"recv", "clean"}
           \/ Recv(s) /\ pc[s] = "recv" /\ pc'[s] \in {"work", "clean"}
           \/ RecvFails(s) /\ pc[s] = "recv" /\ pc'[s] = "clean"
           \/ (OpenTable(s) \/ Snapshot(s)) /\ pc[s] = "work" /\ pc'[s] = "reply"
           \/ Resolve(s) /\ pc[s] = "work" /\ pc'[s] \in {"take", "reply"}
           \/ TakeSocket(s) /\ pc[s] = "take" /\ pc'[s] \in {"shut", "reply"}
           \/ CloseTaken(s) /\ pc[s] = "shut" /\ pc'[s] = "reply"
           \/ Reply(s) /\ pc[s] = "reply" /\ pc'[s] \in {"call", "clean"}
           \/ Cleanup(s) /\ pc[s] = "clean" /\ pc'[s] = "erase"
           \/ EraseSocket(s) /\ pc[s] = "erase" /\ pc'[s] = "unregister"
           \/ Unregister(s) /\ pc[s] = "unregister" /\ pc'[s] = "ended"
<1> USE Who
<1>0. pc \in [Killers -> Places \cup {"idle"}]
    BY DEF Shape
<1>1. CASE \E k \in Killers : TakeSocket(k) \/ CloseTaken(k)
    BY <1>0, <1>1 DEF TakeSocket, CloseTaken, Goto, Answered
<1>2. CASE \E t \in Clients : Spawn(t) \/ ConsoleKill(t) \/ Register(t) \/ Install(t)
    BY <1>0, <1>2 DEF Spawn, ConsoleKill, Register, Install, Goto
<1>3. CASE \E t \in Clients : CallRecv(t) \/ Recv(t) \/ RecvFails(t) \/ OpenTable(t)
  <2>1. PICK t \in Clients : CallRecv(t) \/ Recv(t) \/ RecvFails(t) \/ OpenTable(t)
    BY <1>3
  <2>2. CASE t # s
    BY <1>0, <2>1, <2>2 DEF CallRecv, Recv, RecvFails, OpenTable, Goto
  <2>3. CASE t = s
    BY <1>0, <2>1, <2>3 DEF CallRecv, Recv, RecvFails, OpenTable, Goto
  <2> QED
    BY <2>2, <2>3
<1>4. CASE \E t \in Clients : Snapshot(t) \/ Resolve(t) \/ Reply(t)
    BY <1>0, <1>4 DEF Snapshot, Resolve, Reply, Goto
<1>5. CASE \E t \in Clients : Cleanup(t) \/ EraseSocket(t) \/ Unregister(t)
    BY <1>0, <1>5 DEF Cleanup, EraseSocket, Unregister, Goto
<1> QED
    BY <1>1, <1>2, <1>3, <1>4, <1>5, PcSteps

\* How the console moves.
LEMMA ConsoleMoves ==
    ASSUME Shape, [Next]_vars
    PROVE  \/ pc'[Console] = pc[Console]
           \/ (\E v \in Clients : ConsoleKill(v)) /\ pc[Console] = "idle" /\ pc'[Console] = "take"
           \/ TakeSocket(Console) /\ pc[Console] = "take" /\ pc'[Console] \in {"shut", "idle"}
           \/ CloseTaken(Console) /\ pc[Console] = "shut" /\ pc'[Console] = "idle"
<1> USE Who
<1>0. pc \in [Killers -> Places \cup {"idle"}]
    BY DEF Shape
<1>1. CASE \E k \in Killers : TakeSocket(k) \/ CloseTaken(k)
    BY <1>0, <1>1 DEF TakeSocket, CloseTaken, Goto, Answered
<1>2. CASE \E t \in Clients : Spawn(t) \/ ConsoleKill(t) \/ Register(t) \/ Install(t)
    BY <1>0, <1>2 DEF Spawn, ConsoleKill, Register, Install, Goto
<1>3. CASE \E t \in Clients : CallRecv(t) \/ Recv(t) \/ RecvFails(t) \/ OpenTable(t)
    BY <1>0, <1>3 DEF CallRecv, Recv, RecvFails, OpenTable, Goto
<1>4. CASE \E t \in Clients : Snapshot(t) \/ Resolve(t) \/ Reply(t)
    BY <1>0, <1>4 DEF Snapshot, Resolve, Reply, Goto
<1>5. CASE \E t \in Clients : Cleanup(t) \/ EraseSocket(t) \/ Unregister(t)
    BY <1>0, <1>5 DEF Cleanup, EraseSocket, Unregister, Goto
<1> QED
    BY <1>1, <1>2, <1>3, <1>4, <1>5, PcSteps

\* Who is aimed at.
LEMMA AimMoves ==
    ASSUME Shape, [Next]_vars, NEW k \in Killers
    PROVE  \/ aim'[k] = aim[k]
           \/ TakeSocket(k) /\ pc'[k] \notin {"take", "shut", "recv"}
           \/ CloseTaken(k) /\ pc'[k] \notin {"take", "shut", "recv"}
           \/ /\ k \in Clients /\ (CallRecv(k) \/ Resolve(k))
           \/ /\ k \in Clients /\ (Recv(k) \/ RecvFails(k))
              /\ pc'[k] \notin {"take", "shut", "recv"}
           \/ k = Console /\ \E v \in Clients : ConsoleKill(v)
<1> USE Who
<1>0. pc \in [Killers -> Places \cup {"idle"}] /\ aim \in [Killers -> Clients \cup {Nobody}]
    BY DEF Shape
<1>1. CASE \E l \in Killers : TakeSocket(l) \/ CloseTaken(l)
  <2>1. PICK l \in Killers : TakeSocket(l) \/ CloseTaken(l)
    BY <1>1
  <2>2. CASE l # k
    BY <1>0, <2>1, <2>2 DEF TakeSocket, CloseTaken
  <2>3. CASE l = k
    BY <1>0, <2>1, <2>3 DEF TakeSocket, CloseTaken, Goto, Answered
  <2> QED
    BY <2>2, <2>3
<1>2. CASE \E t \in Clients : CallRecv(t) \/ Resolve(t)
  <2>1. PICK t \in Clients : CallRecv(t) \/ Resolve(t)
    BY <1>2
  <2>2. CASE t # k
    BY <1>0, <2>1, <2>2 DEF CallRecv, Resolve
  <2> QED
    BY <2>1, <2>2
<1>3. CASE \E t \in Clients : Recv(t) \/ RecvFails(t)
    BY <1>0, <1>3 DEF Recv, RecvFails, Goto
<1>4. CASE \E t \in Clients : ConsoleKill(t)
    BY <1>0, <1>4 DEF ConsoleKill
<1> QED
    BY <1>1, <1>2, <1>3, <1>4, AimSteps

\* What a session works on.
LEMMA DoingMoves ==
    ASSUME Shape, Threads, [Next]_vars, NEW s \in Clients
    PROVE  \/ doing'[s] = doing[s]
           \/ /\ Recv(s) /\ pc[s] = "recv" /\ asked[s] # Nothing
              /\ asked[s] # Bye /\ doing'[s] = asked[s] /\ asked'[s] = Nothing /\ pc'[s] = "work"
           \/ Recv(s) /\ pc[s] = "recv" /\ asked[s] = Bye /\ doing'[s] = Nothing /\ pc'[s] = "clean"
           \/ Reply(s) /\ pc[s] = "reply" /\ doing'[s] = Nothing
<1> USE Who
<1>0. /\ pc \in [Killers -> Places \cup {"idle"}]
      /\ doing \in [Clients -> Requests] /\ asked \in [Clients -> Requests]
    BY DEF Shape
<1>1. CASE \E t \in Clients : Recv(t)
  <2>1. PICK t \in Clients : Recv(t)
    BY <1>1
  <2>2. aim[t] = t
    BY <2>1 DEF Recv, Threads
  <2>3. /\ pc[t] = "recv" /\ asked[t] # Nothing
        /\ doing' = [doing EXCEPT ![t] = IF asked[t] = Bye THEN Nothing ELSE asked[t]]
        /\ pc' = [pc EXCEPT ![t] = IF asked[t] = Bye THEN "clean" ELSE "work"]
        /\ asked' = [asked EXCEPT ![t] = Nothing]
    BY <2>1, <2>2 DEF Recv, Goto
  <2> QED
    BY <1>0, <2>1, <2>3
<1>2. CASE \E t \in Clients : Reply(t)
    BY <1>0, <1>2 DEF Reply
<1> QED
    BY <1>1, <1>2, DoingSteps

\* Each thread goes on doing what its place says.
LEMMA ThreadsKept ==
    ASSUME Shape, Threads, Newcomers, [Next]_vars, ~astray'
    PROVE  Threads'
<1> USE Who
<1>1. pc'[Console] \in {"idle", "take", "shut"}
    BY ConsoleMoves DEF Threads
<1>2. \A s \in Clients : pc'[s] # "idle"
    BY ThreadMoves DEF Threads
<1>3. ASSUME NEW s \in Clients, pc'[s] \in {"take", "shut"} PROVE doing'[s].kind = "kill"
  <2>1. doing'[s] = doing[s]
    BY <1>3, DoingMoves, ThreadMoves
  <2>2. CASE pc'[s] = pc[s]
    BY <1>3, <2>1, <2>2 DEF Threads
  <2>3. CASE Resolve(s) \/ (TakeSocket(s) /\ pc[s] = "take")
    BY <2>1, <2>3 DEF Resolve, Threads
  <2> QED
    BY <1>3, <2>2, <2>3, ThreadMoves
<1>4. ASSUME NEW s \in Clients, pc'[s] = "recv" PROVE aim'[s] = s
  <2>1. CASE CallRecv(s)
    <3>1. PICK c \in Clients : owner[number[s]] = Conn(c) /\ aim' = [aim EXCEPT ![s] = c]
      BY <1>4, <2>1 DEF CallRecv, Goto, Shape
    <3>2. c = s
      BY <2>1, <3>1, Apart DEF CallRecv, Use
    <3> QED
      BY <3>1, <3>2 DEF Shape
  <2>2. CASE pc[s] = "recv" /\ aim'[s] = aim[s]
    BY <2>2 DEF Threads
  <2>3. pc[s] = "recv" => ~Resolve(s)
    BY DEF Resolve
  <2> QED
    BY <1>4, <2>1, <2>2, <2>3, ThreadMoves, AimMoves
<1>5. ASSUME NEW s \in sockets' PROVE pc'[s] \in Served \cup {"erase"}
  <2>1. CASE s \in sockets /\ ~EraseSocket(s)
    <3>1. s \in Clients
      BY <2>1 DEF Shape
    <3>2. pc[s] \in Served \cup {"erase"}
      BY <2>1 DEF Threads
    <3>3. ~Spawn(s)
      BY <3>1, <3>2 DEF Spawn, Newcomers, Waits, Served
    <3> QED
      BY <2>1, <3>1, <3>2, <3>3, ThreadMoves DEF Served
  <2>2. CASE Install(s) /\ s \in Clients
    BY <2>2 DEF Install, Goto, Served, Shape
  <2> QED
    BY <1>5, <2>1, <2>2, SocketsSteps DEF Install, EraseSocket, TakeSocket
<1>6. ASSUME NEW k \in Killers, pc'[k] \in {"take", "shut"}
      PROVE  aim'[k] \in Clients /\ (pc'[k] = "shut" => aim'[k] \in killed')
  <2>1. killed \subseteq killed'
    BY KilledSteps DEF TakeSocket
  <2>2. CASE pc'[k] = pc[k] /\ aim'[k] = aim[k]
    BY <1>6, <2>1, <2>2 DEF Threads
  <2>3. CASE TakeSocket(k)
    <3>1. pc'[k] = "shut" /\ aim' = aim /\ aim[k] \in killed' /\ pc[k] = "take"
      BY <1>6, <2>3 DEF TakeSocket, Goto, Answered, Shape
    <3> QED
      BY <3>1 DEF Threads
  <2>4. CASE k \in Clients /\ Resolve(k)
    <3>1. PICK i \in DOMAIN infos : aim' = [aim EXCEPT ![k] = infos[i]]
      BY <1>6, <2>4 DEF Resolve, Goto, Shape
    <3>2. pc'[k] = "take"
      BY <1>6, <2>4 DEF Resolve, Goto, Shape
    <3>3. infos[i] \in Clients /\ aim'[k] = infos[i]
      BY <3>1 DEF Shape
    <3> QED
      BY <3>2, <3>3
  <2>5. CASE k = Console /\ \E v \in Clients : ConsoleKill(v)
    <3>1. aim'[k] \in Clients /\ pc'[k] = "take"
      BY <2>5 DEF ConsoleKill, Goto, Shape
    <3> QED
      BY <3>1
  <2>7. k \in Clients /\ CallRecv(k) => pc'[k] \notin {"take", "shut"}
    BY DEF CallRecv, Goto, Shape
  <2>8. aim'[k] = aim[k] \/ TakeSocket(k) \/ (k \in Clients /\ Resolve(k))
        \/ (k = Console /\ \E v \in Clients : ConsoleKill(v))
    BY <1>6, <2>7, AimMoves
  <2>9. pc'[k] = pc[k] \/ TakeSocket(k) \/ (k \in Clients /\ Resolve(k))
        \/ (k = Console /\ \E v \in Clients : ConsoleKill(v))
    BY <1>6, ThreadMoves, ConsoleMoves DEF Killers
  <2> QED
    BY <2>2, <2>3, <2>4, <2>5, <2>8, <2>9
<1> QED
    BY <1>1, <1>2, <1>3, <1>4, <1>5, <1>6 DEF Threads

\* Which connections a step shuts down.
LEMMA Downs ==
    ASSUME Shape, Threads, NumbersStand, [Next]_vars, ~astray', NEW s \in down'
    PROVE  \/ s \in down \/ (DropAccepted /\ cand = Conn(s)) \/ s \in killed
           \/ (Cleanup(s) /\ pc[s] = "clean" /\ pc'[s] = "erase")
<1>1. CASE DropAccepted
    BY <1>1 DEF DropAccepted, Close
<1>2. CASE CloseListener
    BY <1>2, Apart DEF CloseListener, Close, NumbersStand
<1>3. ASSUME NEW k \in Killers, CloseTaken(k) PROVE s \in down \cup killed
  <2>1. pc[k] = "shut" /\ down' = down \cup {c \in Clients : owner[number[aim[k]]] = Conn(c)}
    BY <1>3 DEF CloseTaken, Close
  <2>2. aim[k] \in killed /\ owner[number[aim[k]]] \in {Conn(aim[k]), Free}
    BY <1>3, <2>1 DEF Threads, CloseTaken, Close
  <2> QED
    BY <2>1, <2>2, Apart
<1>4. ASSUME NEW t \in Clients, Cleanup(t)
      PROVE  s \in down \/ (Cleanup(s) /\ pc[s] = "clean" /\ pc'[s] = "erase")
  <2>1. /\ pc[t] = "clean" /\ pc' = [pc EXCEPT ![t] = "erase"]
        /\ down' = down \cup {c \in Clients : owner[number[t]] = Conn(c)}
    BY <1>4 DEF Cleanup, Goto
  <2>2. owner[number[t]] \in {Conn(t), Free}
    BY <1>4 DEF Cleanup
  <2>3. pc'[t] = "erase"
    BY <2>1, Who DEF Shape
  <2> QED
    BY <1>4, <2>1, <2>2, <2>3, Apart
<1>5. AcceptOne \/ (\E t \in Clients : OpenTable(t)) => down' = down
    BY DEF AcceptOne, OpenTable
<1> QED
    BY <1>1, <1>2, <1>3, <1>4, <1>5, OwnerSteps

\* Newcomers come by the backlog and the accept thread.
LEMMA NewcomersKept ==
    ASSUME Shape, Threads, Newcomers, NumbersStand, [Next]_vars, ~astray'
    PROVE  Newcomers'
<1> USE Who
<1>1. acc' \notin {"accepted", "spawn"} => cand' = Free
    BY AcceptSteps DEF Newcomers, AcceptOne, AcceptFails, DropAccepted, KeepAccepted, Spawn
<1>2. \A s \in Clients : peer'[s] = "away" => peer[s] = "away"
    BY PeerSteps DEF Dial, HangUp, Shape
<1>3. \A s \in Clients :
         cand' = Conn(s) => (cand = Conn(s) /\ backlog' \subseteq backlog \cup {t \in Clients : Dial(t)})
                            \/ (s \in backlog /\ backlog' = backlog \ {s})
  <2>1. CASE AcceptOne
    BY <2>1, Apart DEF AcceptOne
  <2>2. CASE ~AcceptOne
    <3>1. \A s \in Clients : cand' = Conn(s) => cand = Conn(s)
      BY <2>2, AcceptSteps, Apart DEF AcceptFails, DropAccepted, KeepAccepted, Spawn
    <3>2. backlog' = backlog \/ \E t \in Clients : Dial(t) /\ backlog' = backlog \cup {t}
      BY <2>2, BacklogSteps DEF Dial
    <3> QED
      BY <3>1, <3>2
  <2> QED
    BY <2>1, <2>2
<1>4. \A s \in backlog' : s \in backlog \/ (s \in Clients /\ Dial(s))
  <2>1. AcceptOne => backlog' \subseteq backlog
    BY DEF AcceptOne
  <2>2. backlog' = backlog \/ AcceptOne \/ \E t \in Clients : Dial(t) /\ backlog' = backlog \cup {t}
    BY BacklogSteps DEF Dial
  <2> QED
    BY <2>1, <2>2
<1>5. \A s \in Clients : Dial(s) =>
         /\ peer[s] = "away" /\ peer'[s] = "open" /\ pc' = pc /\ down' = down /\ cand' = cand
         /\ pc[s] = "none" /\ s \notin down /\ ~Waits(s)
  <2> SUFFICES ASSUME NEW s \in Clients, Dial(s)
               PROVE  /\ peer[s] = "away" /\ peer'[s] = "open"
                      /\ pc' = pc /\ down' = down /\ cand' = cand
                      /\ pc[s] = "none" /\ s \notin down /\ ~Waits(s)
    OBVIOUS
  <2>1. /\ peer[s] = "away" /\ peer'[s] = "open" /\ pc' = pc /\ down' = down /\ cand' = cand
    BY DEF Dial, Shape, session, accept
  <2> QED
    BY <2>1 DEF Newcomers
<1>6. \A s \in Clients : Waits(s)' => Waits(s) \/ Dial(s)
    BY <1>3, <1>4 DEF Waits
<1>7. \A s \in Clients : Spawn(s) => Waits(s) /\ ~(Waits(s)') /\ pc' = [pc EXCEPT ![s] = "register"]
    BY Apart DEF Spawn, Waits, Newcomers, system, Goto
<1>8. \A s \in Clients : DropAccepted /\ cand = Conn(s) => Waits(s) /\ ~(Waits(s)') /\ pc' = pc
    BY Apart DEF DropAccepted, Waits, Newcomers, session
<1>9. \A s \in Clients : pc'[s] = "none" => pc[s] = "none"
    BY ThreadMoves
<1>10. \A s \in Clients : pc[s] = "none" /\ pc'[s] # "none" => Spawn(s)
    BY ThreadMoves
<1>11. \A s \in Clients : pc'[s] \in Live => pc[s] \in Live \/ Spawn(s)
    BY ThreadMoves DEF Live, Served
<1>12. \A s \in down' : s \in down \/ (DropAccepted /\ cand = Conn(s)) \/ s \in killed
                        \/ (Cleanup(s) /\ pc[s] = "clean" /\ pc'[s] = "erase")
    BY Downs
<1>13. \A s \in killed' : s \in killed \/ pc[s] # "none"
  <2>1. ASSUME NEW k \in Killers, TakeSocket(k), NEW s \in killed', s \notin killed
        PROVE  pc[s] # "none"
    <3>1. s \in sockets
      BY <2>1 DEF TakeSocket
    <3> QED
      BY <3>1 DEF Threads, Served
  <2> QED
    BY <2>1, KilledSteps
<1>14. killed \subseteq killed' /\ killed' \subseteq Clients /\ down' \subseteq Clients
    BY KilledSteps, ShapeKept DEF TakeSocket, Shape
<1>20. \A s \in down' : peer'[s] # "away"
  <2> SUFFICES ASSUME NEW s \in down', peer'[s] = "away" PROVE FALSE
    OBVIOUS
  <2>1. peer[s] = "away" /\ s \in Clients
    BY <1>2, <1>14
  <2>2. s \notin down /\ pc[s] = "none" /\ ~Waits(s)
    BY <2>1 DEF Newcomers
  <2>3. s \notin killed
    BY <2>2 DEF Newcomers
  <2> QED
    BY <2>1, <2>2, <2>3, <1>8, <1>12
<1>21. \A s \in Clients : pc'[s] # "none" \/ Waits(s)' => peer'[s] # "away"
  <2> SUFFICES ASSUME NEW s \in Clients, peer'[s] = "away" PROVE pc'[s] = "none" /\ ~(Waits(s)')
    OBVIOUS
  <2>1. peer[s] = "away"
    BY <1>2
  <2>2. pc[s] = "none" /\ ~Waits(s)
    BY <2>1 DEF Newcomers
  <2> QED
    BY <2>1, <2>2, <1>5, <1>6, <1>7, <1>10
<1>22. \A s \in Clients : Waits(s)' => pc'[s] = "none" /\ s \notin down'
  <2> SUFFICES ASSUME NEW s \in Clients, Waits(s)' PROVE pc'[s] = "none" /\ s \notin down'
    OBVIOUS
  <2>1. CASE Waits(s)
    <3>1. pc[s] = "none" /\ s \notin down
      BY <2>1 DEF Newcomers
    <3>2. s \notin killed
      BY <3>1 DEF Newcomers
    <3> QED
      BY <3>1, <3>2, <1>7, <1>8, <1>10, <1>12
  <2>2. CASE Dial(s)
    BY <2>2, <1>5
  <2> QED
    BY <2>1, <2>2, <1>6
<1>23. \A s \in backlog' : cand' # Conn(s)
  <2> SUFFICES ASSUME NEW s \in backlog', cand' = Conn(s) PROVE FALSE
    OBVIOUS
  <2>1. s \in Clients
    BY ShapeKept DEF Shape
  <2>2. cand = Conn(s) /\ backlog' \subseteq backlog \cup {t \in Clients : Dial(t)}
    BY <2>1, <1>3
  <2>3. Waits(s) /\ s \notin backlog
    BY <2>2 DEF Waits, Newcomers
  <2> QED
    BY <2>1, <2>2, <2>3, <1>5
<1>24. \A s \in killed' : pc'[s] # "none"
  <2>1. \A s \in killed : pc[s] # "none"
    BY DEF Newcomers
  <2> QED
    BY <2>1, <1>9, <1>13, <1>14
<1>25. \A s \in down' \ killed' : pc'[s] \notin Live
  <2> SUFFICES ASSUME NEW s \in down', s \notin killed', pc'[s] \in Live PROVE FALSE
    OBVIOUS
  <2>1. s \in Clients /\ s \notin killed
    BY <1>14
  <2>2. CASE s \in down
    <3>1. pc[s] \notin Live /\ ~Waits(s)
      BY <2>1, <2>2 DEF Newcomers
    <3> QED
      BY <3>1, <2>1, <1>7, <1>11
  <2>3. CASE DropAccepted /\ cand = Conn(s)
    <3>1. Waits(s) /\ pc' = pc
      BY <2>1, <2>3, <1>8
    <3>2. pc[s] = "none"
      BY <2>1, <3>1 DEF Newcomers
    <3> QED
      BY <3>1, <3>2 DEF Live, Served
  <2>4. CASE pc'[s] = "erase"
    BY <2>4 DEF Live, Served
  <2> QED
    BY <2>1, <2>2, <2>3, <2>4, <1>12
<1> QED
    BY <1>1, <1>20, <1>21, <1>22, <1>23, <1>24, <1>25 DEF Newcomers

-----------------------------------------------------------------------------
(* The numbers *)

\* A number is closed that stands for the connection in hand, the listener, a
\* session that was ended, or what belongs to the session that closes it.
Closing(n) ==
    \/ DropAccepted /\ owner[n] = cand
    \/ n = ListenNumber
    \/ \E k \in Killers : CloseTaken(k) /\ n = number[aim[k]]
    \/ \E t \in Clients : Cleanup(t) /\ pc[t] = "clean" /\ pc'[t] = "erase"
                          /\ (n = number[t] \/ owner[n] = File(t))

\* How numbers change hands: a free one is given out, or one is closed.
LEMMA OwnerMoves ==
    ASSUME Shape, [Next]_vars, NEW n \in Numbers \cup {ListenNumber}
    PROVE  \/ owner'[n] = owner[n]
           \/ /\ AcceptOne \/ \E s \in Clients : OpenTable(s)
              /\ owner[n] = Free /\ n # ListenNumber
           \/ owner'[n] = Free /\ Closing(n)
<1>0. owner \in [Numbers \cup {ListenNumber} -> Objects] /\ pc \in [Killers -> Places \cup {"idle"}]
    BY DEF Shape
<1>1. CASE AcceptOne
    BY <1>0, <1>1, Given DEF AcceptOne, Give
<1>2. CASE \E s \in Clients : OpenTable(s)
  <2>1. PICK s \in Clients : OpenTable(s)
    BY <1>2
  <2>2. FreeNumbers # {} => /\ Min(FreeNumbers) \in Numbers /\ owner[Min(FreeNumbers)] = Free
                            /\ Min(FreeNumbers) # ListenNumber
    BY Given
  <2> QED
    BY <1>0, <2>1, <2>2 DEF OpenTable, Give
<1>3. CASE DropAccepted
    BY <1>0, <1>3 DEF DropAccepted, Close, Closing
<1>4. CASE CloseListener
    BY <1>0, <1>4 DEF CloseListener, Close, Closing
<1>5. CASE \E k \in Killers : CloseTaken(k)
  <2>1. PICK k \in Killers : CloseTaken(k)
    BY <1>5
  <2>2. owner' = [owner EXCEPT ![number[aim[k]]] = Free]
    BY <2>1 DEF CloseTaken, Close
  <2> QED
    BY <1>0, <2>1, <2>2 DEF Closing
<1>6. CASE \E t \in Clients : Cleanup(t)
  <2>1. PICK t \in Clients : Cleanup(t)
    BY <1>6
  <2>2. /\ owner' = [m \in DOMAIN owner |->
                       IF m = number[t] \/ owner[m] = File(t) THEN Free ELSE owner[m]]
        /\ pc[t] = "clean" /\ pc' = [pc EXCEPT ![t] = "erase"]
    BY <2>1 DEF Cleanup, Goto
  <2>3. pc'[t] = "erase"
    BY <1>0, <2>2, Who
  <2> QED
    BY <1>0, <2>1, <2>2, <2>3 DEF Closing
<1> QED
    BY <1>1, <1>2, <1>3, <1>4, <1>5, <1>6, OwnerSteps

\* What stands for a session's connection goes on doing so.
LEMMA StandsOn ==
    ASSUME Shape, Threads, Newcomers, [Next]_vars, ~astray',
           NEW s \in Clients, s \notin killed, number[s] \in Numbers, owner[number[s]] = Conn(s)
    PROVE  \/ owner'[number[s]] = Conn(s)
           \/ pc'[s] = "erase"
           \/ cand = Conn(s) /\ DropAccepted
<1>1. owner[number[s]] # Free /\ number[s] # ListenNumber
    BY Apart, SessionsAssumption
<1> SUFFICES ASSUME owner'[number[s]] = Free, Closing(number[s])
             PROVE  pc'[s] = "erase" \/ (cand = Conn(s) /\ DropAccepted)
    BY <1>1, OwnerMoves
<1>2. CASE DropAccepted /\ owner[number[s]] = cand
    BY <1>2
<1>3. CASE \E k \in Killers : CloseTaken(k) /\ number[s] = number[aim[k]]
  <2>1. PICK k \in Killers : CloseTaken(k) /\ number[s] = number[aim[k]]
    BY <1>3
  <2>2. aim[k] \in killed /\ owner[number[aim[k]]] \in {Conn(aim[k]), Free}
    BY <2>1 DEF CloseTaken, Close, Threads
  <2> QED
    BY <2>1, <2>2, Apart
<1>4. ASSUME NEW t \in Clients, Cleanup(t), pc'[t] = "erase",
             number[s] = number[t] \/ owner[number[s]] = File(t)
      PROVE  pc'[s] = "erase"
  <2>1. owner[number[t]] \in {Conn(t), Free} /\ number[s] = number[t]
    BY <1>4, Apart DEF Cleanup
  <2> QED
    BY <1>4, <2>1, Apart
<1> QED
    BY <1>1, <1>2, <1>3, <1>4 DEF Closing

\* Each session's number goes on standing for its connection.
LEMMA NumbersKept ==
    ASSUME Shape, Threads, Newcomers, NumbersStand, [Next]_vars, ~astray'
    PROVE  NumbersStand'
<1>1. owner'[ListenNumber] \in {Listener, Free}
    BY OwnerMoves DEF NumbersStand
<1>2. killed \subseteq killed'
    BY KilledSteps DEF TakeSocket
<1>3. \A s \in Clients : pc'[s] \in Live => (pc[s] \in Live \/ Spawn(s))
    BY ThreadMoves DEF Live, Served
<1>4. \A s \in Clients : number'[s] = number[s] \/ (AcceptOne /\ s \in backlog /\ cand' = Conn(s))
  <2>1. AcceptOne => number' = number \/ \E t \in backlog, n \in Numbers :
                                            cand' = Conn(t) /\ number' = [number EXCEPT ![t] = n]
    BY Given DEF AcceptOne
  <2> QED
    BY <2>1, NumberSteps DEF Shape
<1>5. \A s \in Clients : Spawn(s) => cand = Conn(s) /\ owner' = owner /\ number' = number /\ pc[s] = "none"
    BY DEF Spawn, system, Newcomers, Waits
<1>6. \A s \in Clients : pc'[s] \in Live =>
         /\ number'[s] = number[s] /\ number[s] \in Numbers
         /\ Spawn(s) => owner'[number[s]] = Conn(s)
         /\ ~Spawn(s) => pc[s] \in Live
  <2> SUFFICES ASSUME NEW s \in Clients, pc'[s] \in Live
               PROVE  /\ number'[s] = number[s] /\ number[s] \in Numbers
                      /\ Spawn(s) => owner'[number[s]] = Conn(s)
                      /\ ~Spawn(s) => pc[s] \in Live
    OBVIOUS
  <2>1. CASE Spawn(s)
    BY <2>1, <1>5 DEF NumbersStand
  <2>2. CASE ~Spawn(s)
    <3>1. pc[s] \in Live /\ number[s] \in Numbers
      BY <2>2, <1>3 DEF NumbersStand
    <3>2. s \notin backlog
      BY <3>1 DEF Newcomers, Waits, Live, Served
    <3> QED
      BY <2>2, <3>1, <3>2, <1>4
  <2> QED
    BY <2>1, <2>2
<1>7. ASSUME NEW s \in Clients, pc'[s] \in Live
      PROVE  /\ number'[s] \in Numbers
             /\ s \notin killed' => owner'[number'[s]] = Conn(s)
  <2>1. CASE Spawn(s)
    BY <2>1, <1>6, <1>7
  <2>2. CASE ~Spawn(s) /\ s \notin killed
    <3>1. /\ pc[s] \in Live /\ number'[s] = number[s]
          /\ number[s] \in Numbers /\ owner[number[s]] = Conn(s)
      BY <2>2, <1>6, <1>7 DEF NumbersStand
    <3>2. cand # Conn(s)
      BY <3>1 DEF Newcomers, Waits, Live, Served
    <3>3. pc'[s] # "erase"
      BY <1>7 DEF Live, Served
    <3> QED
      BY <2>2, <3>1, <3>2, <3>3, StandsOn
  <2>3. CASE ~Spawn(s) /\ s \in killed
    BY <2>3, <1>2, <1>6, <1>7
  <2> QED
    BY <2>1, <2>2, <2>3
<1>8. ASSUME NEW s \in Clients, cand' = Conn(s)
      PROVE  number'[s] \in Numbers /\ owner'[number'[s]] = Conn(s)
  <2>1. CASE AcceptOne
    <3>1. /\ number' = [number EXCEPT ![s] = Min(FreeNumbers)]
          /\ owner' = [owner EXCEPT ![Min(FreeNumbers)] = Conn(s)]
      BY <1>8, <2>1, Apart DEF AcceptOne, Give
    <3>2. Min(FreeNumbers) \in Numbers
      BY <2>1, Given DEF AcceptOne
    <3> QED
      BY <3>1, <3>2 DEF Shape
  <2>2. CASE ~AcceptOne
    <3>1. cand = Conn(s) /\ ~DropAccepted
      BY <1>8, <2>2, AcceptSteps, Apart DEF AcceptFails, DropAccepted, KeepAccepted, Spawn
    <3>2. number'[s] = number[s]
      BY <2>2, <1>4
    <3>3. number[s] \in Numbers /\ owner[number[s]] = Conn(s) /\ pc[s] = "none"
      BY <3>1 DEF NumbersStand, Newcomers, Waits
    <3>4. s \notin killed
      BY <3>3 DEF Newcomers
    <3>5. pc'[s] # "erase"
      BY <3>3, ThreadMoves
    <3> QED
      BY <3>1, <3>2, <3>3, <3>4, <3>5, StandsOn
  <2> QED
    BY <2>1, <2>2
<1> QED
    BY <1>1, <1>7, <1>8 DEF NumbersStand

\* The first call that goes astray is a killed session's or its killer's.
LEMMA StrayBy ==
    ASSUME Shape, Threads, NumbersStand, ~astray, astray', [Next]_vars
    PROVE  \E k \in Killers : pc'[k] # pc[k] /\ (k \in killed \/ pc[k] = "shut")
<1> USE Who
<1>0. pc \in [Killers -> Places \cup {"idle"}]
    BY DEF Shape
<1>1. ~DropAccepted
    BY DEF DropAccepted, Close
<1>2. ~CloseListener
    BY DEF CloseListener, Close, NumbersStand
<1>3. ASSUME NEW k \in Killers, CloseTaken(k)
      PROVE  pc'[k] # pc[k] /\ pc[k] = "shut"
    BY <1>0, <1>3 DEF CloseTaken, Goto, Answered
<1>4. ASSUME NEW s \in Clients, CallRecv(s) \/ Reply(s) \/ Cleanup(s)
      PROVE  pc'[s] # pc[s] /\ s \in killed
  <2>1. pc[s] \in {"call", "reply", "clean"} /\ owner[number[s]] # Conn(s)
    BY <1>4 DEF CallRecv, Reply, Cleanup, Use
  <2>2. s \in killed
    BY <2>1 DEF NumbersStand, Live, Served
  <2>3. pc'[s] # pc[s]
    BY <1>0, <1>4 DEF CallRecv, Reply, Cleanup, Goto
  <2> QED
    BY <2>2, <2>3
<1>5. ASSUME NEW s \in Clients PROVE ~Recv(s)
    BY DEF Recv, Threads
<1> QED
    BY <1>1, <1>2, <1>3, <1>4, <1>5, AstraySteps

\* It all holds at the start.
LEMMA InitSInv == Init => SInv
<1> SUFFICES ASSUME Init PROVE SInv
    OBVIOUS
<1> USE Who
<1>1. Shape
  <2>1. owner \in [Numbers \cup {ListenNumber} -> Objects]
    BY DEF Init, Objects
  <2>2. pc \in [Killers -> Places \cup {"idle"}]
    BY DEF Init, Places
  <2>3. infos \in Seq(Clients) /\ <<>> \in Seq(Clients)
    BY DEF Init
  <2>4. asked \in [Clients -> Requests] /\ doing \in [Clients -> Requests]
    BY Kinds DEF Init
  <2>5. /\ peer \in [Clients -> {"away", "open", "gone"}] /\ shown \in [Clients -> Seq(Clients)]
        /\ number \in [Clients -> Numbers \cup {ListenNumber}]
        /\ aim \in [Killers -> Clients \cup {Nobody}]
    BY <2>3 DEF Init
  <2> QED
    BY <2>1, <2>2, <2>3, <2>4, <2>5 DEF Init, Shape
<1>2. /\ \A s \in Clients : pc[s] = "none" /\ cand # Conn(s)
      /\ \A s \in Clients : asked[s].kind = "nothing" /\ doing[s].kind = "nothing"
      /\ pc[Console] = "idle" /\ owner[ListenNumber] = Listener
    BY Apart, Kinds DEF Init
<1>3. Threads
    BY <1>2 DEF Threads, Init, Killers
<1>4. Newcomers
    BY <1>2 DEF Newcomers, Waits, Init, Live, Served
<1>5. NumbersStand
    BY <1>2 DEF NumbersStand, Live, Served
<1> QED
    BY <1>1, <1>3, <1>4, <1>5 DEF SInv

\* It holds until a call goes astray, and none comes back from that.
LEMMA NextSInv == ASSUME SInv, [Next]_vars PROVE SInv'
<1>1. astray => astray'
    BY AstraySteps DEF DropAccepted, CloseListener, CloseTaken, CallRecv, Recv, Reply, Cleanup,
       Close, Use
<1> QED
    BY <1>1, ShapeKept, ThreadsKept, NewcomersKept, NumbersKept DEF SInv

\* Whatever clients and administrators dare, for any number of clients, numbers
\* and requests, a call goes astray first on a thread of a session that was
\* ended from outside, or on the one that ends it (server.cpp:235-255).
THEOREM StraysFromKills == Spec => OnlyKillsStray
<1>1. SInv /\ [Next]_vars => SInv'
    BY NextSInv
<1>2. SInv /\ [Next]_vars =>
         [~astray /\ astray' =>
            \E k \in Killers : pc'[k] # pc[k] /\ (k \in killed \/ pc[k] = "shut")]_vars
    BY StrayBy DEF SInv
<1> QED
    BY <1>1, <1>2, InitSInv, PTL DEF Spec, OnlyKillsStray

-----------------------------------------------------------------------------
(* Server::stop *)

\* No session begins when the accept thread has ended, and none comes back.
LEMMA StopKept == ASSUME Running, StopInv, [Next]_vars PROVE StopInv'
<1> USE DEF Running, StopInv
<1>1. acc = "done" => acc' = "done"
    BY AcceptSteps DEF AcceptOne, AcceptFails, DropAccepted, KeepAccepted, Spawn
<1>2. stop' \in {"join", "stopped"} => stop \in {"join", "stopped"} \/ acc = "done"
    BY StopSteps DEF BeginStop, CloseListener, JoinAccept, JoinSessions, Reply
<1>3. stop' = "stopped" => pc' = pc /\ \A s \in Clients : Ended(s)
    BY StopSteps DEF BeginStop, CloseListener, JoinAccept, JoinSessions, Reply, session
<1> QED
    BY <1>1, <1>2, <1>3 DEF Ended

\* When stop has returned, the accept thread and every session have ended,
\* whatever clients and administrators dared (server.cpp:286-305).
THEOREM StopEndsAll == Spec => []StoppedMeansEnded
<1>1. Init => StopInv
    BY DEF Init, StopInv
<1>2. StopInv /\ [Next]_vars => StopInv'
  <2>1. CASE Running
    BY <2>1, StopKept
  <2>2. CASE ~Running
    BY <2>2 DEF Next, StopInv, vars, accept, session, Ended
  <2> QED
    BY <2>1, <2>2
<1>3. StopInv => StoppedMeansEnded
    BY DEF StopInv, StoppedMeansEnded
<1> QED
    BY <1>1, <1>2, <1>3, PTL DEF Spec

=============================================================================
