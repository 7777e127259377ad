----------------------------- MODULE EventServer -----------------------------
(***************************************************************************)
(* The event-driven stock server of prj2/task1/stockserver.c: one thread   *)
(* that waits in select, accepts at most one client, then serves at most   *)
(* one line of every ready client.  The bytes a connection carries are     *)
(* abstracted to pieces of lines; process_request is one step, since no    *)
(* other thread runs.                                                      *)
(***************************************************************************)
EXTENDS Integers, Sequences, FiniteSets

CONSTANTS Conns,       \* connections clients may open
          Fds,         \* descriptors accept may return
          Listen,      \* listenfd
          FdSetSize,   \* FD_SETSIZE, the slots of clientfd
          Pieces,      \* what clients write: "req", "blank" and "exit" are
                       \* whole lines, "half" a line without its end
          Pipelined,   \* may a client write before it has its answer?
          MaxWrites,   \* bound: pieces written in all
          NoFd

ASSUME EventServerAssumption ==
    /\ IsFiniteSet(Conns)
    /\ Fds \subseteq Nat \ {0} /\ IsFiniteSet(Fds)
    /\ Listen \notin Fds /\ NoFd \notin Fds \cup {Listen}
    /\ FdSetSize \in Nat /\ FdSetSize >= Cardinality(Fds)
    /\ Pieces \subseteq {"req", "blank", "exit", "half"}
    /\ Pipelined \in BOOLEAN
    /\ MaxWrites \in Nat

Slots == 0..(FdSetSize - 1)

VARIABLES
    \* the network and the clients
    conn,       \* conn[c]: "new", "backlog", "open", "gone" or "closed"
    fdOf,       \* the server's descriptor for a connection
    inbox,      \* pieces written and not yet read
    writes,     \* pieces written so far
    owed,       \* history: whole lines written less lines handled
    waiting,    \* the client has written a line and waits for the answer
    \* the server
    up, pc, clientfd, read_set, ready_set, nready, maxi,
    i,          \* the slot check_clients is at
    part,       \* Rio_readlineb holds the beginning of a line
    line        \* what Rio_readlineb returned

network == <<conn, fdOf, inbox, writes, owed, waiting>>
pool == <<clientfd, read_set, ready_set, nready, maxi>>
vars == <<network, up, pc, pool, i, part, line>>

Init ==
    /\ conn = [c \in Conns |-> "new"]
    /\ fdOf = [c \in Conns |-> NoFd]
    /\ inbox = [c \in Conns |-> <<>>]
    /\ writes = 0
    /\ owed = [c \in Conns |-> 0]
    /\ waiting = [c \in Conns |-> FALSE]
    /\ up = TRUE /\ pc = "select"
    /\ clientfd = [s \in Slots |-> NoFd]
    /\ read_set = {Listen}
    /\ ready_set = {}
    /\ nready = 0
    /\ maxi = -1
    /\ i = 0
    /\ part = FALSE
    /\ line = "none"
-----------------------------------------------------------------------------
(* The clients                                                             *)

Connect(c) ==
    /\ conn[c] = "new"
    /\ conn' = [conn EXCEPT ![c] = "backlog"]
    /\ UNCHANGED <<fdOf, inbox, writes, owed, waiting, up, pc, pool, i, part, line>>

MidLine(c) == inbox[c] # <<>> /\ inbox[c][Len(inbox[c])] = "half"
Unfinished(c) == MidLine(c) \/ (inbox[c] = <<>> /\ part /\ fdOf[c] = clientfd[i])

\* A client that has written half a line may write the rest of it.
Write(c, p) ==
    /\ conn[c] \in {"backlog", "open"}
    /\ writes < MaxWrites
    /\ ~Pipelined => ~waiting[c]
    /\ p \in IF Unfinished(c) THEN {"rest"} ELSE Pieces
    /\ inbox' = [inbox EXCEPT ![c] = Append(@, p)]
    /\ writes' = writes + 1
    /\ owed' = [owed EXCEPT ![c] = @ + (IF p = "half" THEN 0 ELSE 1)]
    /\ waiting' = [waiting EXCEPT ![c] = @ \/ p # "half"]
    /\ UNCHANGED <<conn, fdOf, up, pc, pool, i, part, line>>

HangUp(c) ==
    /\ conn[c] = "open"
    /\ conn' = [conn EXCEPT ![c] = "gone"]
    /\ waiting' = [waiting EXCEPT ![c] = FALSE]
    /\ UNCHANGED <<fdOf, inbox, writes, owed, up, pc, pool, i, part, line>>
-----------------------------------------------------------------------------
(* main()                                                                  *)

At(where) == up /\ pc = where

Readable(c) == fdOf[c] \in read_set /\ (inbox[c] # <<>> \/ conn[c] = "gone")
Ready == {fdOf[c] : c \in {d \in Conns : Readable(d)}}
         \cup (IF \E c \in Conns : conn[c] = "backlog" THEN {Listen} ELSE {})

Select ==
    /\ At("select")
    /\ Ready # {}
    /\ ready_set' = Ready
    /\ nready' = Cardinality(Ready)
    /\ pc' = IF Listen \in Ready THEN "accept" ELSE "check"
    /\ i' = 0
    /\ UNCHANGED <<network, up, clientfd, read_set, maxi, part, line>>

FreeFds == Fds \ {fdOf[c] : c \in {d \in Conns : conn[d] \in {"open", "gone"}}}
Lowest(S) == CHOOSE n \in S : \A m \in S : n <= m

\* Mutant: the new client is not taken off nready.
add_client_uncounted(c) ==
    /\ At("accept")
    /\ conn[c] = "backlog"
    /\ FreeFds # {}
    /\ LET connfd == Lowest(FreeFds)
           s == Lowest({t \in Slots : clientfd[t] = NoFd})
       IN  /\ conn' = [conn EXCEPT ![c] = "open"]
           /\ fdOf' = [fdOf EXCEPT ![c] = connfd]
           /\ clientfd' = [clientfd EXCEPT ![s] = connfd]
           /\ read_set' = read_set \cup {connfd}
           /\ maxi' = IF s > maxi THEN s ELSE maxi
    /\ pc' = "check"
    /\ UNCHANGED <<inbox, writes, owed, waiting, up, ready_set, nready, i, part, line>>

\* Accept, and add_client with its search for the first free slot.
add_client(c) ==
    /\ At("accept")
    /\ conn[c] = "backlog"
    /\ FreeFds # {}
    /\ LET connfd == Lowest(FreeFds)
           s == Lowest({t \in Slots : clientfd[t] = NoFd})
       IN  /\ conn' = [conn EXCEPT ![c] = "open"]
           /\ fdOf' = [fdOf EXCEPT ![c] = connfd]
           /\ clientfd' = [clientfd EXCEPT ![s] = connfd]
           /\ read_set' = read_set \cup {connfd}
           /\ maxi' = IF s > maxi THEN s ELSE maxi
    /\ nready' = nready - 1
    /\ pc' = "check"
    /\ UNCHANGED <<inbox, writes, owed, waiting, up, ready_set, i, part, line>>

\* No descriptor is left: Accept calls unix_error, which exits.
AcceptFails ==
    /\ At("accept")
    /\ FreeFds = {}
    /\ up' = FALSE
    /\ UNCHANGED <<network, pc, pool, i, part, line>>
-----------------------------------------------------------------------------
(* check_clients                                                           *)

\* Mutant: i < p->maxi.
ScanningShort == i < maxi /\ nready > 0

Scanning == i <= maxi /\ nready > 0

SkipSlot ==
    /\ At("check") /\ Scanning
    /\ clientfd[i] \notin ready_set
    /\ i' = i + 1
    /\ UNCHANGED <<network, up, pc, pool, part, line>>

EnterSlot ==
    /\ At("check") /\ Scanning
    /\ clientfd[i] \in ready_set
    /\ nready' = nready - 1
    /\ pc' = "read"
    /\ part' = FALSE
    /\ UNCHANGED <<network, up, clientfd, read_set, ready_set, maxi, i, line>>

ScanEnds ==
    /\ At("check") /\ ~Scanning
    /\ pc' = "select"
    /\ UNCHANGED <<network, up, pool, i, part, line>>

Current == CHOOSE c \in Conns : fdOf[c] = clientfd[i] /\ conn[c] \in {"open", "gone"}

\* Mutant: read instead of Rio_readlineb, so that half a line is a request.
ReadSome ==
    LET c == Current
    IN  /\ At("read")
        /\ inbox[c] # <<>>
        /\ inbox' = [inbox EXCEPT ![c] = <<>>]
        /\ pc' = "handle"
        /\ line' = IF inbox[c][1] \in {"half", "rest"} THEN "req" ELSE inbox[c][1]
        /\ UNCHANGED <<conn, fdOf, writes, owed, waiting, up, pool, i, part>>

\* Rio_readlineb reads whatever is there into a copy of the client's rio_t
\* and returns its first line; check_clients never writes the copy back, so
\* the lines behind it are gone.
ReadLine ==
    LET c == Current
        got == IF part THEN <<"half">> \o inbox[c] ELSE inbox[c]
    IN  /\ At("read")
        /\ inbox[c] # <<>>
        /\ inbox' = [inbox EXCEPT ![c] = <<>>]
        /\ IF got = <<"half">>
           THEN part' = TRUE /\ UNCHANGED <<pc, line>>
           ELSE /\ part' = FALSE
                /\ pc' = "handle"
                /\ line' = IF got[1] = "half" THEN "req" ELSE got[1]
        /\ UNCHANGED <<conn, fdOf, writes, owed, waiting, up, pool, i>>

\* The client is gone: end of file, or the beginning of a line as a line.
ReadEnd ==
    /\ At("read")
    /\ inbox[Current] = <<>> /\ conn[Current] = "gone"
    /\ pc' = "handle"
    /\ line' = IF part THEN "req" ELSE "eof"
    /\ part' = FALSE
    /\ UNCHANGED <<network, up, pool, i>>

Done == /\ pc' = "check" /\ i' = i + 1 /\ line' = "none"
        /\ UNCHANGED <<up, part>>

\* Close, FD_CLR and the slot; the kernel forgets what was not read.
CloseCurrent == /\ conn' = [conn EXCEPT ![Current] = "closed"]
                /\ read_set' = read_set \ {clientfd[i]}
                /\ clientfd' = [clientfd EXCEPT ![i] = NoFd]
                /\ fdOf' = [fdOf EXCEPT ![Current] = NoFd]
                /\ inbox' = [inbox EXCEPT ![Current] = <<>>]
                /\ UNCHANGED <<writes, ready_set, nready, maxi>>

Answer(c) == /\ owed' = [owed EXCEPT ![c] = @ - 1]
             /\ waiting' = [waiting EXCEPT ![c] = FALSE]

HandleRequest ==
    /\ At("handle") /\ line = "req"
    /\ Answer(Current)
    /\ UNCHANGED <<conn, fdOf, inbox, writes, pool>>
    /\ Done

HandleExit ==
    /\ At("handle") /\ line = "exit"
    /\ Answer(Current)
    /\ CloseCurrent
    /\ Done

\* continue, without an answer.
HandleBlank ==
    /\ At("handle") /\ line = "blank"
    /\ owed' = [owed EXCEPT ![Current] = @ - 1]
    /\ UNCHANGED <<conn, fdOf, inbox, writes, waiting, pool>>
    /\ Done

HandleEof ==
    /\ At("handle") /\ line = "eof"
    /\ CloseCurrent
    /\ UNCHANGED <<owed, waiting>>
    /\ Done

\* Rio_writen to a client that has gone: SIGPIPE or unix_error.
WriteFails ==
    /\ At("handle") /\ line \in {"req", "exit"}
    /\ conn[Current] = "gone"
    /\ up' = FALSE
    /\ UNCHANGED <<network, pc, pool, i, part, line>>

check_clients == \/ SkipSlot \/ EnterSlot \/ ScanEnds \/ ReadLine \/ ReadEnd
                 \/ HandleRequest \/ HandleExit \/ HandleBlank \/ HandleEof \/ WriteFails
-----------------------------------------------------------------------------
Server == Select \/ AcceptFails \/ (\E c \in Conns : add_client(c)) \/ check_clients

\* The clients are silent, or the server has died.
Idle == (~up \/ ~ENABLED Server) /\ UNCHANGED vars

Next == \/ Server
        \/ \E c \in Conns : \/ Connect(c) \/ HangUp(c)
                            \/ \E p \in Pieces \cup {"rest"} : Write(c, p)
        \/ Idle

Spec == Init /\ [][Next]_vars

\* The server's thread runs whenever it can; nobody makes clients write.
FairSpec == Spec /\ WF_vars(Server)
-----------------------------------------------------------------------------
(* Properties                                                              *)

\* read_set, the slots and the open connections describe the same clients,
\* each in one slot that the scan reaches.
OpenFds == {fdOf[c] : c \in {d \in Conns : conn[d] \in {"open", "gone"}}}
PoolAgrees ==
    /\ read_set \ {Listen} = OpenFds
    /\ {clientfd[s] : s \in Slots} \ {NoFd} = OpenFds
    /\ \A s, t \in Slots : clientfd[s] = clientfd[t] /\ clientfd[s] # NoFd => s = t
    /\ \A s \in Slots : clientfd[s] # NoFd => s <= maxi

\* nready counts the ready clients the scan has still to serve.
Ahead == {s \in Slots : clientfd[s] \in ready_set
                        /\ (s > i \/ (s = i /\ pc = "check"))}
NreadyCounts == pc \in {"check", "read", "handle"} => nready = Cardinality(Ahead)

\* The scan of a round serves exactly the clients that select has found ready,
\* although descriptors and slots are reused in any order: the loop neither
\* stops before the last of them nor serves one that was accepted, with
\* whatever descriptor, during this round.
ScanIsExact == PoolAgrees /\ NreadyCounts

\* A whole line that a client has written is answered, or skipped if it is
\* blank, unless the client leaves or the server dies, if no client stops for
\* ever in the middle of a line: the bookkeeping of select, nready and the
\* slots itself starves nobody.
Served(c) == ~waiting[c] \/ owed[c] = 0 \/ ~up
Stalled == /\ At("read") /\ part /\ inbox[Current] = <<>> /\ conn[Current] = "open"
AnsweredUnlessStalled ==
    []<>~Stalled => \A c \in Conns : waiting[c] ~> Served(c)

\* Every line of a client is handled: none that has been read off the socket
\* is dropped.
NoLineLost ==
    up /\ pc = "select" =>
        \A c \in Conns : conn[c] = "open" /\ inbox[c] = <<>> => owed[c] = 0
=============================================================================
