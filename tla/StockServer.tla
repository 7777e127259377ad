----------------------------- MODULE StockServer -----------------------------
(***************************************************************************)
(* The server process of prj2/task2_new around its request handlers: the   *)
(* worker threads answer clients through StockEndpoint, SIGINT runs        *)
(* terminate_handler on top of some thread, and the process ends either in *)
(* that handler's exit(0) or because a client has gone away.               *)
(*                                                                         *)
(* terminate_handler calls write_to_file, whose first half is the walk of  *)
(* set_stocks_info that a show performs; each handler activation is        *)
(* therefore one more thread of StockEndpoint, restricted to one show.     *)
(***************************************************************************)
EXTENDS Integers, Sequences, FiniteSets

CONSTANTS Main,             \* the accepting thread
          Workers,          \* the threads of the pool
          Handlers,         \* activations of terminate_handler
          Order, Amounts, IntMax, Initial, OrdersPerClient, NoId, NoReq,
          MayAllocate,      \* threads that may be caught inside malloc
          NoThread,         \* the activation does not exist
          Empty,            \* stock.txt after fopen(.., "w")
          Mixed             \* a text and the end of a longer one behind it

Threads == Workers \cup Handlers
UnknownIds == {}

VARIABLES cnt, readCnt, mutex, mutexRead, pc, req, pos, ans, view, left, crashed

Endpoint == INSTANCE StockEndpoint

Stocks == Endpoint!Stocks

ASSUME ServerAssumption ==
    /\ Main \notin Threads /\ NoThread \notin Threads \cup {Main}
    /\ Workers \cap Handlers = {}
    /\ MayAllocate \subseteq Workers \cup {Main}
    /\ Order \in Seq(Stocks) /\ Len(Order) > 0
    /\ \A i, j \in 1..Len(Order) : Order[i] = Order[j] => i = j
    /\ IntMax \in Nat
    /\ Amounts \subseteq (-IntMax - 1)..IntMax
    /\ Initial \in [Stocks -> 0..IntMax]
    /\ NoReq \notin Endpoint!Requests
    /\ {Empty, Mixed} \cap [Stocks -> Int] = {} /\ Empty # Mixed

VARIABLES
    allocating,  \* threads that hold the lock of their malloc arena
    on,       \* the thread each handler activation runs on
    phase,    \* how far write_to_file has come in it
    file,     \* stock.txt: a count per stock, Empty, or Mixed
    exited,   \* terminate_handler has called exit(0)
    since     \* history: the counts each stock has had since the first SIGINT

memory == <<cnt, readCnt, mutex, mutexRead, pc, req, pos, ans, view, left>>
vars == <<memory, crashed, allocating, on, phase, file, exited, since>>

Init ==
    /\ Endpoint!Init
    /\ allocating = {}
    /\ on = [h \in Handlers |-> NoThread]
    /\ phase = [h \in Handlers |-> "none"]
    /\ file = Initial
    /\ exited = FALSE
    /\ since = [s \in Stocks |-> {}]

Signalled == \E h \in Handlers : on[h] # NoThread
\* A thread on which the handler runs does not go on by itself.
Runs(t) == \A h \in Handlers : on[h] # t
Remember == since' = IF Signalled THEN [s \in Stocks |-> since[s] \cup {cnt'[s]}]
                                  ELSE since
-----------------------------------------------------------------------------
(* The worker threads                                                      *)

\* main() allocates in Getnameinfo, process_request for its result.
EnterMalloc(t) ==
    /\ ~crashed /\ Runs(t)
    /\ t \in MayAllocate \ allocating
    /\ t \in Workers => pc[t] = "idle"
    /\ allocating' = allocating \cup {t}
    /\ UNCHANGED <<memory, crashed, on, phase, file, exited, since>>

LeaveMalloc(t) ==
    /\ ~crashed /\ Runs(t)
    /\ t \in allocating
    /\ allocating' = allocating \ {t}
    /\ UNCHANGED <<memory, crashed, on, phase, file, exited, since>>

Request(w, r) ==
    /\ Runs(w) /\ w \notin allocating
    /\ Endpoint!Receive(w, r)
    /\ UNCHANGED <<allocating, on, phase, file, exited, since>>

\* process_request computes, or Rio_writen delivers, the answer.
Work(w) ==
    /\ Runs(w)
    /\ Endpoint!Step(w)
    /\ Remember
    /\ UNCHANGED <<allocating, on, phase, file, exited>>

\* The client has closed or reset the connection: SIGPIPE, or unix_error in
\* Rio_writen or Rio_readlineb, ends the process without saving.
HangUp(w) ==
    /\ Runs(w) /\ ~crashed
    /\ pc[w] \in {"idle", "respond"}
    /\ crashed' = TRUE
    /\ UNCHANGED <<memory, allocating, on, phase, file, exited, since>>
-----------------------------------------------------------------------------
(* SIGINT                                                                  *)

\* Mutant: SIGINT is delivered to any thread.
InterruptAnyThread(h, t) ==
    /\ on[h] = NoThread
    /\ Runs(t)
    /\ Endpoint!Receive(h, Endpoint!Show)
    /\ on' = [on EXCEPT ![h] = t]
    /\ phase' = [phase EXCEPT ![h] = "alloc"]
    /\ since' = IF Signalled THEN since ELSE [s \in Stocks |-> {cnt[s]}]
    /\ UNCHANGED <<allocating, file, exited>>

\* The kernel prefers the main thread; while the handler runs there SIGINT
\* is blocked in it, and goes to one of the others.
Interrupt(h, t) ==
    /\ on[h] = NoThread
    /\ Runs(t)
    /\ t # Main => ~Runs(Main)
    /\ Endpoint!Receive(h, Endpoint!Show)
    /\ on' = [on EXCEPT ![h] = t]
    /\ phase' = [phase EXCEPT ![h] = "alloc"]
    /\ since' = IF Signalled THEN since ELSE [s \in Stocks |-> {cnt[s]}]
    /\ UNCHANGED <<allocating, file, exited>>

\* write_to_file begins with malloc, whose lock is not recursive.
Alloc(h) ==
    /\ ~crashed
    /\ phase[h] = "alloc"
    /\ on[h] \notin allocating
    /\ phase' = [phase EXCEPT ![h] = "walk"]
    /\ UNCHANGED <<memory, crashed, allocating, on, file, exited, since>>

Walk(h) ==
    /\ phase[h] = "walk"
    /\ Endpoint!set_stocks_info(h)
    /\ UNCHANGED <<allocating, on, phase, file, exited, since>>

Open(h) ==
    /\ ~crashed
    /\ phase[h] = "walk" /\ pc[h] = "respond"
    /\ phase' = [phase EXCEPT ![h] = "open"]
    /\ file' = Empty
    /\ UNCHANGED <<memory, crashed, allocating, on, exited, since>>

\* Mutant: the text built when the server started is written.
WriteOldText(h) ==
    /\ ~crashed
    /\ phase[h] = "open"
    /\ phase' = [phase EXCEPT ![h] = "written"]
    /\ file' = Initial
    /\ UNCHANGED <<memory, crashed, allocating, on, exited, since>>

Text(h) == [s \in Stocks |-> view[h][CHOOSE i \in 1..Len(Order) : Order[i] = s]]

\* fprintf fills a buffer that fclose, or exit, writes out, from the start of
\* the file: what another activation has written since fopen stays behind it
\* if that was longer.
Write(h) ==
    /\ ~crashed
    /\ phase[h] = "open"
    /\ phase' = [phase EXCEPT ![h] = "written"]
    /\ file' \in {Text(h)} \cup (IF file \in {Empty, Text(h)} THEN {} ELSE {Mixed})
    /\ UNCHANGED <<memory, crashed, allocating, on, exited, since>>

Exit(h) ==
    /\ ~crashed
    /\ phase[h] = "written"
    /\ exited' = TRUE
    /\ crashed' = TRUE
    /\ UNCHANGED <<memory, allocating, on, phase, file, since>>

terminate_handler(h) == Alloc(h) \/ Walk(h) \/ Open(h) \/ Write(h) \/ Exit(h)
-----------------------------------------------------------------------------
\* The process is gone, or its clients are silent.
Finished ==
    /\ crashed \/ (~Signalled /\ \A w \in Workers : pc[w] = "idle" /\ left[w] = 0)
    /\ UNCHANGED vars

Next ==
    \/ \E w \in Workers : \/ \E r \in Endpoint!Requests : Request(w, r)
                          \/ Work(w) \/ HangUp(w)
    \/ \E t \in MayAllocate : EnterMalloc(t) \/ LeaveMalloc(t)
    \/ \E h \in Handlers, t \in Workers \cup {Main} : Interrupt(h, t)
    \/ \E h \in Handlers : terminate_handler(h)
    \/ Finished

Spec == Init /\ [][Next]_vars

\* The scheduler runs every runnable thread.  Clients and Ctrl-C are free.
FairSpec == /\ Spec
            /\ \A w \in Workers : WF_vars(Work(w))
            /\ \A t \in MayAllocate : WF_vars(LeaveMalloc(t))
            /\ \A h \in Handlers : WF_vars(terminate_handler(h))
-----------------------------------------------------------------------------
(* Properties                                                              *)

\* "control-c handler that write file before exit" (terminate_handler): a
\* server that leaves through the handler has saved, for every stock, a
\* count it had after Ctrl-C: whatever was acknowledged before the signal
\* is in the file, although the workers go on trading during the save, and
\* however many activations walk, unless two of them have opened the file:
\* each truncates what the other has written, or writes over it.
Opened == {h \in Handlers : phase[h] \in {"open", "written"}}
Alone == \A g, h \in Opened : g = h
SavedAfterSignal ==
    exited /\ Alone => file \notin {Empty, Mixed} /\ \A s \in Stocks : file[s] \in since[s]

\* Ctrl-C ends the process: the handler gets past every lock that other
\* threads hold, however they interleave with its walk.
Deaf == \E h \in Handlers : on[h] \in allocating
InterruptEndsUnlessAllocating == Signalled ~> (crashed \/ Deaf)
=============================================================================
