------------------------------- MODULE Clients -------------------------------
(***************************************************************************)
(* The programs of prj2 on both ends of their connections: the load        *)
(* generators multiclient.c, whose parent forks a child per client and     *)
(* waits for them (that of task3 reports their times), the interactive     *)
(* stockclient.c, and the thread-per-connection server of task2 with the   *)
(* loop of connect_client.                                                 *)
(* A client writes a line and reads MAXLINE bytes; a server thread reads a *)
(* line and writes MAXLINE bytes.  Reads and writes are short: sockets and *)
(* rio_t hold few bytes.  The server's process may be stopped by Ctrl-C at *)
(* any moment, and a line without a word kills it.                         *)
(***************************************************************************)
EXTENDS Rio, FiniteSets

CONSTANTS Children,  \* the children of multiclient, a sequence
          Users,     \* instances of stockclient
          Inputs,    \* what a user may type: characters, "x" or NewLine
          ORDER_PER_CLIENT, LISTENQ

Forked == {Children[i] : i \in 1..Len(Children)}
Peers == Forked \cup Users

ASSUME ClientsAssumption ==
    /\ Children \in Seq(Forked)
    /\ \A i, j \in 1..Len(Children) : Children[i] = Children[j] => i = j
    /\ Forked \cap Users = {}
    /\ Peers \cap {"head", "foot"} = {} \* lines of result.md
    /\ Inputs \subseteq Seq({"x", NewLine})
    /\ ORDER_PER_CLIENT \in Nat /\ LISTENQ \in Nat \ {0}

VARIABLES
    server,    \* "starting", "listening" or "dead"
    backlog,   \* connections that wait for Accept
    toServer,  \* bytes on the way, per connection
    toClient,
    client,    \* client[c]: the state of a client process
    thread,    \* thread[c]: the state of the thread of a connection
    parent,    \* the parent process of multiclient; reports: it is that of
               \* task3, which writes result.md
    report     \* result.md

network == <<server, backlog, toServer, toClient>>
vars == <<network, client, thread, parent, report>>

\* A bound on the processes that run at once: the load generator, or users.
\* at: "none", "open", "next", "write", "read", "report", "ended" or "killed".
\* input: characters not yet typed, or orders not yet sent; out: bytes not
\* yet written; got: bytes of the answer; rio: its rio_t; sent: lines written.
NewClient(input) == [at |-> "none", input |-> input, out |-> <<>>, got |-> <<>>,
                     rio |-> EmptyRio, sent |-> 0]
NewThread == [at |-> "none", line |-> <<>>, rio |-> EmptyRio, out |-> <<>>]

Init ==
    /\ server = "starting"
    /\ backlog = <<>>
    /\ toServer = [c \in Peers |-> <<>>]
    /\ toClient = [c \in Peers |-> <<>>]
    /\ \E first \in {"absent", "fork", "heading"}, typed \in [Users -> Inputs] :
          /\ parent = [at |-> first, next |-> 1, reports |-> first = "heading"]
          /\ client = [c \in Peers |->
                IF c \in Users
                THEN IF first # "absent" THEN NewClient(<<>>)
                     ELSE [NewClient(typed[c]) EXCEPT !.at = "open"]
                ELSE NewClient([i \in 1..ORDER_PER_CLIENT |-> "order"])]
    /\ thread = [c \in Peers |-> NewThread]
    /\ report = <<>>

ClientAt(c, at) == client[c].at = at
ThreadAt(c, at) == server # "dead" /\ thread[c].at = at
Closed(c) == client[c].at \in {"ended", "killed"}
\* The server's end of the connection is closed.
Gone(c) == server = "dead" \/ thread[c].at = "done"
-----------------------------------------------------------------------------
(* The parent of multiclient                                               *)

ParentGoes(from, to) == parent.at = from /\ parent' = [parent EXCEPT !.at = to, !.next = 1]
Awaited == Children[parent.next]

Heading ==
        /\ ParentGoes("heading", "fork")
        /\ report' = Append(report, "head")
        /\ UNCHANGED <<network, client, thread>>

\* The file is not there: Rio_writen to descriptor -1 ends in unix_error.
HeadingFails ==
        /\ ParentGoes("heading", "failed")
        /\ UNCHANGED <<network, client, thread, report>>

Fork == /\ parent.at = "fork" /\ parent.next <= Len(Children)
        /\ client' = [client EXCEPT ![Awaited].at = "open"]
        /\ parent' = [parent EXCEPT !.next = @ + 1]
        /\ UNCHANGED <<network, thread, report>>

\* return -1, without a wait for the children that run.
ForkFails == /\ parent.next <= Len(Children)
             /\ ParentGoes("fork", "failed")
             /\ UNCHANGED <<network, client, thread, report>>

AllForked == /\ parent.next > Len(Children)
             /\ ParentGoes("fork", "wait")
             /\ UNCHANGED <<network, client, thread, report>>

\* Mutant: waitpid(.., WNOHANG).
WaitNoHang == /\ parent.at = "wait" /\ parent.next <= Len(Children)
              /\ parent' = [parent EXCEPT !.next = @ + 1]
              /\ UNCHANGED <<network, client, thread, report>>

Wait == /\ parent.at = "wait" /\ parent.next <= Len(Children)
        /\ Closed(Awaited)
        /\ parent' = [parent EXCEPT !.next = @ + 1]
        /\ UNCHANGED <<network, client, thread, report>>

AllAwaited ==
        /\ ~parent.reports /\ parent.next > Len(Children)
        /\ ParentGoes("wait", "done")
        /\ UNCHANGED <<network, client, thread, report>>

Footing ==
        /\ parent.reports /\ parent.next > Len(Children)
        /\ ParentGoes("wait", "done")
        /\ report' = Append(report, "foot")
        /\ UNCHANGED <<network, client, thread>>

Parent == \/ Heading \/ HeadingFails \/ Fork \/ ForkFails \/ AllForked \/ Wait
          \/ AllAwaited \/ Footing
-----------------------------------------------------------------------------
(* A client process                                                        *)

\* open_clientfd and Rio_readinitb.  No address of the list answers before
\* the server listens or when it is dead, and unix_error exits.
Connect(c) ==
    /\ ClientAt(c, "open")
    /\ server = "listening" /\ Len(backlog) < LISTENQ
    /\ backlog' = Append(backlog, c)
    /\ client' = [client EXCEPT ![c].at = "next", ![c].rio = EmptyRio]
    /\ UNCHANGED <<server, toServer, toClient, thread, parent, report>>

ConnectFails(c) ==
    /\ ClientAt(c, "open")
    /\ server # "listening"
    /\ client' = [client EXCEPT ![c].at = "killed"]
    /\ UNCHANGED <<network, thread, parent, report>>

\* fgets(buf, MAXLINE, stdin): through a newline, or what buf holds.
Typed(input) ==
    First(Min({MAXLINE - 1, Len(input)}
              \cup {i \in 1..Len(input) : input[i] = NewLine}), input)

\* One line of the load generator: shorter than MAXLINE, with its newline.
OrderLine == <<"x", NewLine>>
ASSUME OrderLineAssumption == Len(OrderLine) < MAXLINE

Send(c, line, rest) ==
    client' = [client EXCEPT
        ![c].at = "write",
        ![c].input = rest,
        ![c].sent = @ + 1,
        ![c].got = <<>>,
        ![c].out = [i \in 1..Len(line) |->
                       [ch |-> line[i], of |-> client[c].sent + 1, size |-> Len(line)]]]

Fgets(c) ==
    /\ c \in Users
    /\ ClientAt(c, "next") /\ client[c].input # <<>>
    /\ LET line == Typed(client[c].input)
       IN  Send(c, line, Behind(Len(line), client[c].input))
    /\ UNCHANGED <<network, thread, parent, report>>

Order(c) ==
    /\ c \in Forked
    /\ ClientAt(c, "next") /\ client[c].input # <<>>
    /\ Send(c, OrderLine, Tail(client[c].input))
    /\ UNCHANGED <<network, thread, parent, report>>

\* Rio_writen on a connection the server holds open.
WriteOrder(c) ==
    /\ ClientAt(c, "write") /\ ~Gone(c)
    /\ LET k == Writable(client[c].out, toServer[c])
           out == Behind(k, client[c].out)
       IN  /\ k > 0
           /\ toServer' = [toServer EXCEPT ![c] = @ \o First(k, client[c].out)]
           /\ client' = [client EXCEPT ![c].out = out,
                                       ![c].at = IF out = <<>> THEN "read" ELSE "write"]
    /\ UNCHANGED <<server, backlog, toClient, thread, parent, report>>

\* The kernel takes the bytes before it knows that the server has gone.
WriteOrderLost(c) ==
    /\ ClientAt(c, "write") /\ Gone(c)
    /\ client' = [client EXCEPT ![c].out = <<>>, ![c].at = "read"]
    /\ UNCHANGED <<network, thread, parent, report>>

\* SIGPIPE; ECONNRESET when it reads, for which Rio_readnb calls unix_error.
Broken(c) ==
    /\ client[c].at \in {"write", "read"} /\ Gone(c)
    /\ client' = [client EXCEPT ![c].at = "killed"]
    /\ UNCHANGED <<network, thread, parent, report>>

\* One round of rio_readnb, with the read(2) of its rio_read.
ReadAnswer(c) ==
    /\ ClientAt(c, "read") /\ ~Blocks(client[c].rio, toClient[c])
    /\ LET r == Refill(client[c].rio, toClient[c])
           rio == client[c].rio \o First(r, toClient[c])
           k == Copies(client[c].got, rio, MAXLINE)
           got == client[c].got \o First(k, rio)
       IN  /\ toClient' = [toClient EXCEPT ![c] = Behind(r, @)]
           /\ client' = [client EXCEPT ![c].rio = Behind(k, rio),
                                       ![c].got = got,
                                       ![c].at = IF Len(got) = MAXLINE THEN "next" ELSE "read"]
    /\ UNCHANGED <<server, backlog, toServer, thread, parent, report>>

\* End of file: rio_readnb returns fewer bytes, and nobody looks at how many.
ReadEof(c) ==
    /\ ClientAt(c, "read") /\ toClient[c] = <<>> /\ Gone(c)
    /\ client' = [client EXCEPT ![c].at = "next"]
    /\ UNCHANGED <<network, thread, parent, report>>

\* The child's time goes to result.md, which its parent opened O_APPEND.
ReportTime(c) ==
    /\ parent.reports
    /\ ClientAt(c, "next") /\ client[c].input = <<>>
    /\ report' = Append(report, c)
    /\ client' = [client EXCEPT ![c].at = "report"]
    /\ UNCHANGED <<network, thread, parent>>

CloseClient(c) ==
    /\ \/ parent.reports /\ ClientAt(c, "report")
       \/ ~parent.reports /\ ClientAt(c, "next") /\ client[c].input = <<>>
    /\ client' = [client EXCEPT ![c].at = "ended"]
    /\ UNCHANGED <<network, thread, parent, report>>

\* A user presses Ctrl-C.
Abort(c) ==
    /\ c \in Users /\ client[c].at \in {"next", "write", "read"}
    /\ client' = [client EXCEPT ![c].at = "killed"]
    /\ UNCHANGED <<network, thread, parent, report>>

\* A child of the load generator.  The client of a user has the same steps, but
\* takes its lines from fgets.
Exchange(c) == \/ WriteOrder(c) \/ WriteOrderLost(c) \/ Broken(c)
               \/ ReadAnswer(c) \/ ReadEof(c)
Child(c) == \/ Connect(c) \/ ConnectFails(c) \/ Order(c) \/ Exchange(c)
            \/ ReportTime(c) \/ CloseClient(c)

ClientStep(c) == Child(c) \/ Fgets(c)
-----------------------------------------------------------------------------
(* The server                                                              *)

\* open_listenfd
Listen ==
    /\ server = "starting"
    /\ server' = "listening"
    /\ UNCHANGED <<backlog, toServer, toClient, client, thread, parent, report>>

\* No address can be bound, and unix_error exits.
ListenFails ==
    /\ server = "starting"
    /\ server' = "dead"
    /\ UNCHANGED <<backlog, toServer, toClient, client, thread, parent, report>>

\* Accept, pthread_create and Rio_readinitb.
Accept ==
    /\ server = "listening" /\ backlog # <<>>
    /\ backlog' = Tail(backlog)
    /\ thread' = [thread EXCEPT ![backlog[1]].at = "readline"]
    /\ UNCHANGED <<server, toServer, toClient, client, parent, report>>

\* process_request takes the first word of the line, and there may be none.
Wordless(line) == \A i \in 1..Len(line) : line[i].ch = NewLine

\* Mutant: the answer is written with its terminator.
AnswerToLong(line) ==
    [i \in 1..(MAXLINE + 1) |-> [ch |-> "answer", of |-> line[1].of, whole |-> TRUE]]

\* The answer to a line: MAXLINE bytes, here labelled with the line of the
\* client that it begins with, and whether it is all of that line.
AnswerTo(line) ==
    [i \in 1..MAXLINE |->
        [ch |-> "answer", of |-> line[1].of,
         whole |-> /\ Len(line) = line[1].size
                   /\ \A j \in 1..Len(line) : line[j].of = line[1].of]]

\* One round of rio_readlineb, with the read(2) of its rio_read.
Taken(c) == Refill(thread[c].rio, toServer[c])
Filled(c) == thread[c].rio \o First(Taken(c), toServer[c])
Line(c) == thread[c].line \o First(LineCopies(thread[c].line, Filled(c)), Filled(c))
ReadLine(c) ==
    /\ ThreadAt(c, "readline") /\ ~Blocks(thread[c].rio, toServer[c])
    /\ ~(LineDone(Line(c)) /\ Wordless(Line(c)))
    /\ toServer' = [toServer EXCEPT ![c] = Behind(Taken(c), @)]
    /\ LET rest == Behind(LineCopies(thread[c].line, Filled(c)), Filled(c))
       IN  thread' = [thread EXCEPT ![c] =
              IF LineDone(Line(c))
              THEN [at |-> "writen", line |-> <<>>, rio |-> rest, out |-> AnswerTo(Line(c))]
              ELSE [@ EXCEPT !.line = Line(c), !.rio = rest]]
    /\ UNCHANGED <<server, backlog, toClient, client, parent, report>>

\* strcmp(NULL, "show"): the process dies, and all its connections with it.
ReadWordless(c) ==
    /\ ThreadAt(c, "readline") /\ ~Blocks(thread[c].rio, toServer[c])
    /\ LineDone(Line(c)) /\ Wordless(Line(c))
    /\ server' = "dead"
    /\ UNCHANGED <<backlog, toServer, toClient, client, thread, parent, report>>

\* End of file: what has been read is a line if it is anything at all.
ReadLineEof(c) ==
    /\ ThreadAt(c, "readline") /\ thread[c].rio = <<>>
    /\ toServer[c] = <<>> /\ Closed(c)
    /\ thread' = [thread EXCEPT ![c] =
          IF thread[c].line = <<>> THEN [@ EXCEPT !.at = "done"]
          ELSE [@ EXCEPT !.line = <<>>, !.out = AnswerTo(thread[c].line), !.at = "writen"]]
    /\ UNCHANGED <<network, client, parent, report>>

WriteAnswer(c) ==
    /\ ThreadAt(c, "writen") /\ ~Closed(c)
    /\ LET k == Writable(thread[c].out, toClient[c])
           out == Behind(k, thread[c].out)
       IN  /\ k > 0
           /\ toClient' = [toClient EXCEPT ![c] = @ \o First(k, thread[c].out)]
           /\ thread' = [thread EXCEPT ![c].out = out,
                                       ![c].at = IF out = <<>> THEN "readline" ELSE "writen"]
    /\ UNCHANGED <<server, backlog, toServer, client, parent, report>>

\* The kernel takes the bytes; they will be refused.
WriteAnswerLost(c) ==
    /\ ThreadAt(c, "writen") /\ Closed(c)
    /\ thread' = [thread EXCEPT ![c].out = <<>>, ![c].at = "readline"]
    /\ toClient' = [toClient EXCEPT ![c] = First(1, thread[c].out)]
    /\ UNCHANGED <<server, backlog, toServer, client, parent, report>>

\* The client has closed: SIGPIPE, or unix_error in Rio_writen or, if it has
\* left bytes unread, in Rio_readlineb, ends the whole server.
ServerBroken(c) ==
    /\ thread[c].at \in {"readline", "writen"} /\ Closed(c)
    /\ thread[c].at = "writen" \/ toClient[c] # <<>>
    /\ server = "listening"
    /\ server' = "dead"
    /\ UNCHANGED <<backlog, toServer, toClient, client, thread, parent, report>>

connect_client(c) == \/ ReadLine(c) \/ ReadWordless(c) \/ ReadLineEof(c)
                     \/ WriteAnswer(c) \/ WriteAnswerLost(c) \/ ServerBroken(c)

\* Ctrl-C: terminate_handler saves and exits.
Interrupt ==
    /\ server = "listening"
    /\ server' = "dead"
    /\ UNCHANGED <<backlog, toServer, toClient, client, thread, parent, report>>

Server == Listen \/ ListenFails \/ Accept
-----------------------------------------------------------------------------
Ended(c) == Closed(c) /\ (thread[c].at \in {"none", "done"} \/ server = "dead")

\* The user's last line has no newline and is shorter than fgets allows.
Unfinished(c) ==
    /\ c \in Users /\ ClientAt(c, "read") /\ client[c].input = <<>>
    /\ LET held == thread[c].line \o thread[c].rio \o toServer[c]
       IN  /\ held # <<>> /\ held[1].size < MAXLINE - 1
           /\ \A i \in 1..Len(held) : held[i].ch # NewLine

\* Every process has ended or will wait for ever.
Finished == /\ parent.at \in {"absent", "failed", "done"}
            /\ server # "starting"
            /\ \A c \in Peers : ClientAt(c, "none") \/ Ended(c) \/ Unfinished(c)
            /\ UNCHANGED vars

Next == \/ Parent \/ Server \/ Interrupt
        \/ \E c \in Peers : ClientStep(c) \/ connect_client(c) \/ Abort(c)
        \/ Finished

Spec == Init /\ [][Next]_vars

\* The schedulers of both machines run every process and thread that can run.
FairSpec == /\ Spec
            /\ WF_vars(Parent) /\ WF_vars(Server)
            /\ \A c \in Peers : WF_vars(ClientStep(c)) /\ WF_vars(connect_client(c))
-----------------------------------------------------------------------------
(* Properties                                                              *)

\* A client that has read MAXLINE bytes has read the answer to the line it
\* has just written, all of it and nothing else, and the server has taken
\* that line as one line: neither end checks this, both rely on the other's
\* count of bytes, with lines that are cut at MAXLINE - 1 bytes by fgets here
\* and by rio_readlineb there.
AnswersInStep ==
    \A c \in Peers :
        Len(client[c].got) = MAXLINE =>
            /\ \A i \in 1..MAXLINE : /\ client[c].got[i].of = client[c].sent
                                     /\ client[c].got[i].whole
            /\ client[c].rio = <<>>
            /\ client[c].at = "next" => toClient[c] = <<>>

\* result.md gets its last line after the times of all children that have
\* lived to write one, and no child writes two.
Reported(c) == \E i \in 1..Len(report) : report[i] = c
ReportIsWhole ==
    /\ \A i, j \in 1..Len(report) : report[i] = report[j] => i = j
    /\ "foot" \in {report[i] : i \in 1..Len(report)} =>
          /\ report[Len(report)] = "foot"
          /\ \A c \in Forked : Reported(c) \/ client[c].at = "killed"

\* Every client process ends, and the connection's thread with it, even if
\* the server dies; except for a user whose last line has no newline and is
\* shorter than fgets allows, who waits for an answer while the server waits
\* for the rest of the line.
EveryClientEnds == \A c \in Peers : ClientAt(c, "open") ~> (Ended(c) \/ Unfinished(c))
=============================================================================
