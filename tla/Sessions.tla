------------------------------ MODULE Sessions ------------------------------
(***************************************************************************)
(* The life of the server's sessions (network/server.cpp): the accept      *)
(* thread, one thread per accepted connection, administrators that end     *)
(* sessions from outside, and the stop of the server.                      *)
(*                                                                         *)
(* Threads name sockets and table files by the numbers the system gave     *)
(* out.  A number that was closed is given out again, to the next          *)
(* connection or the next file, while a thread may still hold a copy of    *)
(* it: Server::sockets_ has copies so that another thread can close them.  *)
(*                                                                         *)
(* A client sends one request and waits for its answer.  What a request    *)
(* does to tables is not the subject here; an opened table is a number in  *)
(* use.  sock_close is one step: between its two calls, the numbers a      *)
(* thread may take are those it may also take after the second.            *)
(***************************************************************************)
EXTENDS Naturals, Sequences, SequencesExt, FiniteSetsExt

CONSTANTS
    Clients,      \* connections that may be made, each once
    Managers,     \* clients on a connection for management calls
    Console,      \* the thread of the web console that ends sessions
    Numbers,      \* numbers the system has for sockets and files
    PipeIgnored,  \* TRUE when SIGPIPE does not end the process
    MaxAsks,      \* bound: requests sent
    Daring        \* what clients and administrators do without care

Nobody == "nobody"
ListenNumber == 0
Free == <<"free">>
Listener == <<"listener">>
Probe == <<"probe">>
Conn(s) == <<"connection", s>>
File(s) == <<"file", s>>

Nothing == [kind |-> "nothing"]
Table == [kind |-> "table"]
List == [kind |-> "list"]
Bye == [kind |-> "bye"]
\* KillUser names a position of the list; meant is the session the
\* administrator saw there.
KillUser(n, s) == [kind |-> "kill", no |-> n, meant |-> s]

Killers == Clients \cup {Console}

ASSUME SessionsAssumption ==
    /\ Managers \subseteq Clients /\ Console \notin Clients
    /\ Numbers \subseteq Nat \ {ListenNumber}
    /\ PipeIgnored \in BOOLEAN /\ MaxAsks \in Nat

VARIABLES
    peer,     \* [Clients -> the client's side: "away", "open", "gone"]
    asked,    \* [Clients -> the request that was sent and not read yet]
    shown,    \* [Clients -> the list of sessions the client was last shown]
    backlog,  \* connections the listener has not given out yet
    owner,    \* [numbers -> what the number stands for]
    down,     \* connections the server has shut down
    acc,      \* the accept thread
    cand,     \* the connection it has in hand
    number,   \* [Clients -> the session's copy of its socket's number]
    pc,       \* [Killers -> where the thread is]
    doing,    \* [Clients -> the request the session's thread works on]
    infos,    \* sessions_info_, in the order in which it is walked
    sockets,  \* the sessions with an entry in sockets_
    aim,      \* [Killers -> the session that is to be ended]
    killed,   \* history: sessions whose entry an administrator took
    stop,     \* Server::stop
    astray,   \* history: a call used what belongs to another session
    asks      \* requests sent so far

client == <<peer, asked, shown, asks>>
system == <<backlog, owner, down, astray>>
accept == <<acc, cand>>
registry == <<infos, sockets, aim, killed>>
session == <<number, pc, doing>>
vars == <<client, system, accept, registry, session, stop>>

Init ==
    /\ peer = [s \in Clients |-> "away"]
    /\ asked = [s \in Clients |-> Nothing]
    /\ shown = [s \in Clients |-> <<>>]
    /\ backlog = {}
    /\ owner = [n \in Numbers \cup {ListenNumber} |->
                   IF n = ListenNumber THEN Listener ELSE Free]
    /\ down = {}
    /\ acc = "accept" /\ cand = Free
    /\ number = [s \in Clients |-> ListenNumber]
    /\ pc = [k \in Killers |-> IF k = Console THEN "idle" ELSE "none"]
    /\ doing = [s \in Clients |-> Nothing]
    /\ infos = <<>> /\ sockets = {}
    /\ aim = [k \in Killers |-> Nobody]
    /\ killed = {} /\ stop = "no" /\ astray = FALSE /\ asks = 0

Goto(k, where) == pc' = [pc EXCEPT ![k] = where]

-----------------------------------------------------------------------------
(* The system's calls *)

FreeNumbers == {n \in Numbers : owner[n] = Free}

\* The system gives out the lowest number.
Give(object) == owner' = [owner EXCEPT ![Min(FreeNumbers)] = object]

\* sock_close: what the number stands for now is shut down and closed; a
\* number that is free is refused.  The caller means one of the objects mine.
Close(n, mine) ==
    /\ owner' = [owner EXCEPT ![n] = Free]
    /\ down' = down \cup {s \in Clients : owner[n] = Conn(s)}
    /\ astray' = (astray \/ owner[n] \notin mine \cup {Free})

\* A number is used for anything but closing.
Use(n, mine) == astray' = (astray \/ owner[n] \notin mine \cup {Free})

-----------------------------------------------------------------------------
(* Care that clients and administrators can take *)

\* A condition that holds unless they dare otherwise.
Care(what, condition) == what \notin Daring => condition

Ended(s) == pc[s] \in {"none", "ended"}

\* An administrator ends a session.
KillUnderWay ==
    \/ pc[Console] # "idle"
    \/ \E s \in Clients :
          \/ "kill" \in {asked[s].kind, doing[s].kind}
          \/ s \in killed /\ ~Ended(s)

\* A number is about to be taken, or one may have been that an entry of
\* sockets_ still names.
Arriving ==
    \/ backlog # {} \/ acc \in {"accepted", "spawn"}
    \/ \E s \in Clients : "table" \in {asked[s].kind, doing[s].kind} \/ pc[s] = "erase"

\* The list of sessions stays what it is: none begins, and none is on its way
\* out, by a request of its client that its thread has read or will read.
Settled ==
    \A s \in Clients :
        \/ Ended(s)
        \/ /\ s \in sockets /\ pc[s] # "clean" /\ peer[s] = "open"
           /\ asked[s] # Bye

CountedKill ==
    \E s \in Clients : "kill" \in {asked[s].kind, doing[s].kind}

-----------------------------------------------------------------------------
(* Clients *)

Dial(s) ==
    /\ peer[s] = "away"
    /\ owner[ListenNumber] = Listener
    /\ Care("connect during a kill", ~KillUnderWay)
    /\ peer' = [peer EXCEPT ![s] = "open"]
    /\ backlog' = backlog \cup {s}
    /\ UNCHANGED <<asked, shown, asks, owner, down, astray, accept, registry, session, stop>>

\* The client ends a connection that the server has not ended.
HangUp(s) ==
    /\ peer[s] = "open" /\ s \notin down
    /\ Care("leave during a kill", ~CountedKill)
    /\ peer' = [peer EXCEPT ![s] = "gone"]
    /\ UNCHANGED <<asked, shown, asks, system, accept, registry, session, stop>>

Send(s, r) ==
    /\ peer[s] = "open" /\ asked[s] = Nothing /\ doing[s] = Nothing
    /\ asks < MaxAsks
    /\ asks' = asks + 1
    /\ asked' = [asked EXCEPT ![s] = r]
    /\ UNCHANGED <<peer, shown, system, accept, registry, session, stop>>

AskTable(s) ==
    /\ s \notin Managers
    /\ Care("open a table during a kill", ~KillUnderWay)
    /\ Send(s, Table)

AskList(s) ==
    /\ s \in Managers
    /\ Care("list while the server stops", stop = "no")
    /\ Send(s, List)

AskBye(s) ==
    /\ Care("leave during a kill", ~CountedKill)
    /\ Send(s, Bye)

AskKill(s) ==
    \E n \in DOMAIN shown[s] :
        /\ Care("kill while a number is taken", ~Arriving /\ stop = "no")
        /\ Care("two administrators at once", ~KillUnderWay)
        /\ Care("kill from an old list", Settled /\ shown[s] = infos)
        /\ Send(s, KillUser(n, shown[s][n]))

-----------------------------------------------------------------------------
(* The accept thread *)

\* The loop's condition, read at once when the loop comes around.
LoopAgain == IF stop = "no" THEN "accept" ELSE "done"

\* accept_one
AcceptOne ==
    /\ acc = "accept" /\ owner[ListenNumber] = Listener /\ FreeNumbers # {}
    /\ \/ \E s \in backlog :
             /\ backlog' = backlog \ {s}
             /\ cand' = Conn(s)
             /\ number' = [number EXCEPT ![s] = Min(FreeNumbers)]
       \/ /\ stop = "stopping"
          /\ cand' = Probe
          /\ UNCHANGED <<backlog, number>>
    /\ Give(cand')
    /\ acc' = "accepted"
    /\ UNCHANGED <<client, down, astray, registry, pc, doing, stop>>

\* Mutant: an error does not end the loop.
AcceptAgain ==
    /\ acc = "accept"
    /\ owner[ListenNumber] # Listener \/ FreeNumbers = {}
    /\ UNCHANGED vars

\* Any error ends the loop, the lack of a number too.
AcceptFails ==
    /\ acc = "accept"
    /\ owner[ListenNumber] # Listener \/ FreeNumbers = {}
    /\ acc' = "done"
    /\ UNCHANGED <<client, system, cand, registry, session, stop>>

\* The server is stopping: the connection is dropped.
DropAccepted ==
    /\ acc = "accepted" /\ stop # "no"
    /\ \E n \in Numbers : owner[n] = cand /\ Close(n, {cand})
    /\ acc' = "done" /\ cand' = Free
    /\ UNCHANGED <<client, backlog, registry, session, stop>>

KeepAccepted ==
    /\ acc = "accepted" /\ stop = "no"
    /\ acc' = "spawn"
    /\ UNCHANGED <<client, system, cand, registry, session, stop>>

\* Under sessions_mu_, which stop takes when this thread has ended.
Spawn(s) ==
    /\ acc = "spawn" /\ cand = Conn(s)
    /\ Goto(s, "register")
    /\ acc' = LoopAgain /\ cand' = Free
    /\ UNCHANGED <<client, system, registry, number, doing, stop>>

-----------------------------------------------------------------------------
(* A session's thread *)

\* register_session; the new entry of the hash table may be walked anywhere.
Register(s) ==
    /\ pc[s] = "register"
    /\ \E i \in 1..Len(infos) + 1 : infos' = InsertAt(infos, i, s)
    /\ Goto(s, "install")
    /\ UNCHANGED <<client, system, accept, sockets, aim, killed, number, doing, stop>>

\* install_session_socket
Install(s) ==
    /\ pc[s] = "install"
    /\ sockets' = sockets \cup {s}
    /\ Goto(s, "call")
    /\ UNCHANGED <<client, system, accept, infos, aim, killed, number, doing, stop>>

\* read_frame looks the number up: it blocks on the connection (kept in aim)
\* the number stands for, and fails on anything else.
CallRecv(s) ==
    /\ pc[s] = "call"
    /\ IF \E c \in Clients : owner[number[s]] = Conn(c)
       THEN \E c \in Clients :
               /\ owner[number[s]] = Conn(c)
               /\ aim' = [aim EXCEPT ![s] = c]
               /\ Goto(s, "recv")
       ELSE Goto(s, "clean") /\ UNCHANGED aim
    /\ Use(number[s], {Conn(s)})
    /\ UNCHANGED <<client, backlog, owner, down, accept, infos, sockets, killed,
                   number, doing, stop>>

\* The rest of read_frame, with a request; Disconnect is not answered.
Recv(s) ==
    LET r == asked[aim[s]]
    IN  /\ pc[s] = "recv" /\ r # Nothing
        /\ asked' = [asked EXCEPT ![aim[s]] = Nothing]
        /\ astray' = (astray \/ aim[s] # s)
        /\ doing' = [doing EXCEPT ![s] = IF r = Bye THEN Nothing ELSE r]
        /\ aim' = [aim EXCEPT ![s] = Nobody]
        /\ Goto(s, IF r = Bye THEN "clean" ELSE "work")
        /\ UNCHANGED <<peer, shown, asks, backlog, owner, down, accept, infos, sockets,
                       killed, number, stop>>

\* Mutant: a thread that waits for a request is not woken.
RecvBlocked(s) ==
    /\ pc[s] = "recv"
    /\ peer[aim[s]] = "gone" /\ asked[aim[s]] = Nothing
    /\ aim' = [aim EXCEPT ![s] = Nobody]
    /\ Goto(s, "clean")
    /\ UNCHANGED <<client, system, accept, infos, sockets, killed, number, doing, stop>>

\* It fails on a connection that was shut down or hung up.
RecvFails(s) ==
    /\ pc[s] = "recv"
    /\ aim[s] \in down \/ (peer[aim[s]] = "gone" /\ asked[aim[s]] = Nothing)
    /\ aim' = [aim EXCEPT ![s] = Nobody]
    /\ Goto(s, "clean")
    /\ UNCHANGED <<client, system, accept, infos, sockets, killed, number, doing, stop>>

\* OpenTable; without a number the open fails.
OpenTable(s) ==
    /\ pc[s] = "work" /\ doing[s] = Table
    /\ IF FreeNumbers = {} THEN UNCHANGED owner ELSE Give(File(s))
    /\ Goto(s, "reply")
    /\ UNCHANGED <<client, backlog, down, astray, accept, registry, number, doing, stop>>

\* build_mg_snapshot: the list, then the number of threads under sessions_mu_,
\* which stop holds while it joins them.
Snapshot(s) ==
    /\ pc[s] = "work" /\ doing[s] = List
    /\ stop # "join"
    /\ shown' = [shown EXCEPT ![s] = infos]
    /\ Goto(s, "reply")
    /\ UNCHANGED <<peer, asked, asks, system, accept, registry, number, doing, stop>>

\* Mutant: positions are counted from zero.
ResolveOffByOne(s) ==
    /\ pc[s] = "work" /\ doing[s].kind = "kill"
    /\ IF doing[s].no + 1 \in DOMAIN infos
       THEN /\ aim' = [aim EXCEPT ![s] = infos[doing[s].no + 1]]
            /\ Goto(s, "take")
       ELSE Goto(s, "reply") /\ UNCHANGED aim
    /\ UNCHANGED <<client, system, accept, infos, sockets, killed, number, doing, stop>>

\* kill_session_by_conn_no: the position is looked up in a list of its own.
Resolve(s) ==
    /\ pc[s] = "work" /\ doing[s].kind = "kill"
    /\ IF doing[s].no \in DOMAIN infos
       THEN /\ aim' = [aim EXCEPT ![s] = infos[doing[s].no]]
            /\ Goto(s, "take")
       ELSE Goto(s, "reply") /\ UNCHANGED aim
    /\ UNCHANGED <<client, system, accept, infos, sockets, killed, number, doing, stop>>

\* write_frame: an answer to a client that is gone may get an error, and a
\* signal with it.
Reply(s) ==
    /\ pc[s] = "reply"
    /\ Use(number[s], {Conn(s)})
    /\ doing' = [doing EXCEPT ![s] = Nothing]
    /\ \/ /\ owner[number[s]] = Conn(s) \/ astray'
          /\ Goto(s, "call") /\ UNCHANGED stop
       \/ /\ owner[number[s]] # Conn(s) \/ peer[s] = "gone"
          /\ Goto(s, "clean")
          /\ stop' = IF owner[number[s]] = Conn(s) /\ ~PipeIgnored THEN "died" ELSE stop
    /\ UNCHANGED <<client, backlog, owner, down, accept, registry, number>>

\* cleanup closes the session's tables, by its own objects; then its socket.
Cleanup(s) ==
    /\ pc[s] = "clean"
    /\ astray' = (astray \/ owner[number[s]] \notin {Conn(s), Free})
    /\ down' = down \cup {c \in Clients : owner[number[s]] = Conn(c)}
    /\ owner' = [n \in DOMAIN owner |->
                    IF n = number[s] \/ owner[n] = File(s) THEN Free ELSE owner[n]]
    /\ Goto(s, "erase")
    /\ UNCHANGED <<client, backlog, accept, registry, number, doing, stop>>

\* Mutant: the guard closes the number once more.
EraseClosing(s) ==
    /\ pc[s] = "erase"
    /\ sockets' = sockets \ {s}
    /\ Close(number[s], {Conn(s)})
    /\ Goto(s, "unregister")
    /\ UNCHANGED <<client, backlog, accept, infos, aim, killed, number, doing, stop>>

\* SessionGuard: erase_session_socket, then unregister_session
EraseSocket(s) ==
    /\ pc[s] = "erase"
    /\ sockets' = sockets \ {s}
    /\ Goto(s, "unregister")
    /\ UNCHANGED <<client, system, accept, infos, aim, killed, number, doing, stop>>

Unregister(s) ==
    /\ pc[s] = "unregister"
    /\ \E i \in DOMAIN infos : infos[i] = s /\ infos' = RemoveAt(infos, i)
    /\ Goto(s, "ended")
    /\ UNCHANGED <<client, system, accept, sockets, aim, killed, number, doing, stop>>

-----------------------------------------------------------------------------
(* kill_session, on a session's thread or the console's *)

\* POST /api/server/sessions/<id>/kill
ConsoleKill(v) ==
    /\ pc[Console] = "idle" /\ v \in ToSet(infos) \ killed
    /\ Care("kill while a number is taken", ~Arriving /\ stop = "no")
    /\ Care("two administrators at once", ~KillUnderWay)
    /\ aim' = [aim EXCEPT ![Console] = v]
    /\ Goto(Console, "take")
    /\ UNCHANGED <<client, system, accept, infos, sockets, killed, number, doing, stop>>

Answered(k) == IF k = Console THEN "idle" ELSE "reply"

\* The entry is taken under info_mu_.
TakeSocket(k) ==
    /\ pc[k] = "take"
    /\ sockets' = sockets \ {aim[k]}
    /\ IF aim[k] \in sockets
       THEN /\ killed' = killed \cup {aim[k]}
            /\ Goto(k, "shut")
            /\ UNCHANGED aim
       ELSE /\ aim' = [aim EXCEPT ![k] = Nobody]
            /\ Goto(k, Answered(k))
            /\ UNCHANGED killed
    /\ UNCHANGED <<client, system, accept, infos, number, doing, stop>>

\* It is closed after info_mu_ is released.
CloseTaken(k) ==
    /\ pc[k] = "shut"
    /\ Close(number[aim[k]], {Conn(aim[k])})
    /\ aim' = [aim EXCEPT ![k] = Nobody]
    /\ Goto(k, Answered(k))
    /\ UNCHANGED <<client, backlog, accept, infos, sockets, killed, number, doing, stop>>

-----------------------------------------------------------------------------
(* Server::stop *)

\* running_ becomes false, and the server connects to itself to wake its accept
\* thread.
BeginStop ==
    /\ stop = "no"
    /\ Care("stop during a kill", ~KillUnderWay)
    /\ Care("list while the server stops",
            \A s \in Clients : "list" \notin {asked[s].kind, doing[s].kind})
    /\ stop' = "stopping"
    /\ UNCHANGED <<client, system, accept, registry, session>>

CloseListener ==
    /\ stop = "stopping"
    /\ Close(ListenNumber, {Listener})
    /\ stop' = "closed"
    /\ UNCHANGED <<client, backlog, accept, registry, session>>

\* Mutant: the accept thread is not waited for.
LeaveAccept ==
    /\ stop = "closed"
    /\ stop' = "join"
    /\ UNCHANGED <<client, system, accept, registry, session>>

\* The accept thread is joined and sessions_mu_ taken.
JoinAccept ==
    /\ stop = "closed" /\ acc = "done"
    /\ stop' = "join"
    /\ UNCHANGED <<client, system, accept, registry, session>>

JoinSessions ==
    /\ stop = "join" /\ \A s \in Clients : Ended(s)
    /\ stop' = "stopped"
    /\ UNCHANGED <<client, system, accept, registry, session>>

-----------------------------------------------------------------------------
Running == stop \notin {"stopped", "died"}

Accepts == AcceptOne \/ AcceptFails \/ DropAccepted \/ KeepAccepted
           \/ \E s \in Clients : Spawn(s)

Runs(s) ==
    \/ Register(s) \/ Install(s)
    \/ CallRecv(s) \/ Recv(s) \/ RecvFails(s)
    \/ OpenTable(s) \/ Snapshot(s) \/ Resolve(s) \/ Reply(s)
    \/ Cleanup(s) \/ EraseSocket(s) \/ Unregister(s)

Kills(k) == TakeSocket(k) \/ CloseTaken(k)

Stops == CloseListener \/ JoinAccept \/ JoinSessions

Asks(s) == AskTable(s) \/ AskList(s) \/ AskBye(s) \/ AskKill(s)

Next ==
    /\ Running
    /\ \/ Accepts \/ BeginStop \/ Stops
       \/ \E k \in Killers : Kills(k)
       \/ \E s \in Clients : Dial(s) \/ HangUp(s) \/ Asks(s) \/ Runs(s) \/ ConsoleKill(s)

Spec == Init /\ [][Next]_vars

\* Threads run, and clients leave a server that stops; otherwise clients and
\* administrators do as they like.
FairSpec ==
    /\ Spec
    /\ \A s \in Clients : WF_vars(Running /\ stop # "no" /\ HangUp(s))
    /\ WF_vars(Running /\ Accepts) /\ WF_vars(Running /\ Stops)
    /\ \A k \in Killers : WF_vars(Running /\ Kills(k))
    /\ \A s \in Clients : WF_vars(Running /\ Runs(s))

-----------------------------------------------------------------------------
(* Properties *)

\* A thread that sends, receives or closes by a number meets what the number
\* stood for when it got it, or nothing: no session's connection or table file
\* is read, written or closed by another's thread (server.cpp:240-255).
OwnSocketOnly == ~astray

\* A call goes astray first on a thread whose session an administrator ended, or
\* on the administrator's own, closing the number it took: whatever clients and
\* administrators dare, whom nobody ended keeps what its number stands for
\* until then (server.cpp:235-255).
OnlyKillsStray ==
    [][~astray /\ astray' =>
          \E k \in Killers : pc'[k] # pc[k] /\ (k \in killed \/ pc[k] = "shut")]_vars

\* KillUser ends the session that the list had at its position, and when it is
\* answered the entry of that session was really there to be taken
\* (server.cpp:240-261, 2038-2044).
KillHitsTarget ==
    \A s \in Clients : doing[s].kind = "kill" =>
        /\ pc[s] \in {"take", "shut"} => aim[s] = doing[s].meant
        /\ pc[s] = "reply" => doing[s].meant \in killed

\* A session whose entry was taken ends, wherever its thread was
\* (server.cpp:249-253).
KilledSessionEnds == \A s \in Clients : s \in killed ~> Ended(s)

\* When stop returns no thread of the server is left (server.cpp:299-304).
StoppedMeansEnded ==
    stop = "stopped" => acc = "done" /\ \A s \in Clients : Ended(s)

\* stop returns if the clients leave in the end (server.cpp:286-305).
StopReturns == stop = "stopping" ~> stop = "stopped"

\* The end of a client ends its session only (server.cpp:2065).
ClientEndsAlone == stop # "died"

=============================================================================
