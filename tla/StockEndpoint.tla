---------------------------- MODULE StockEndpoint ----------------------------
(***************************************************************************)
(* The request handlers of prj2/task2_new/stock_endpoint.c as the worker   *)
(* threads run them: process_request calls update_stock for a buy or a     *)
(* sell, and set_stocks_info for a show.  Each stock carries a readers-    *)
(* writers lock made of two semaphores (mutex, mutex_read) and read_cnt.   *)
(* Every semaphore call and every access to shared memory is a step of its *)
(* own.  write_to_file, run by the SIGINT handler, is one more thread that *)
(* executes a show.                                                        *)
(***************************************************************************)
EXTENDS Integers, Sequences, FiniteSets

CONSTANTS Threads,          \* worker threads
          Order,            \* the stocks in preorder of the search tree
          UnknownIds,       \* identifiers get_stock does not find
          Amounts,          \* what atoi may return for the amount
          IntMax,           \* largest int; IntMax + 1 wraps to -IntMax - 1
          Initial,          \* counts read from stock.txt
          OrdersPerClient,  \* requests each thread receives
          NoId,             \* show names no stock
          NoReq             \* the thread is between two requests

Size == Len(Order)
Stocks == {Order[i] : i \in 1..Size}
Updates == [op : {"buy", "sell"}, id : Stocks \cup UnknownIds, n : Amounts]
Show == [op |-> "show", id |-> NoId, n |-> 0]
Requests == Updates \cup {Show}

ASSUME EndpointAssumption ==
    /\ IsFiniteSet(Threads)
    /\ Order \in Seq(Stocks) /\ Size > 0
    /\ \A i, j \in 1..Size : Order[i] = Order[j] => i = j
    /\ Stocks \cap UnknownIds = {}
    /\ IntMax \in Nat
    /\ Amounts \subseteq (-IntMax - 1)..IntMax
    /\ Initial \in [Stocks -> 0..IntMax]
    /\ OrdersPerClient \in Nat
    /\ NoReq \notin Requests

VARIABLES
    cnt,         \* Stock.cnt
    readCnt,     \* Stock.read_cnt
    mutex,       \* Stock.mutex, the write lock
    mutexRead,   \* Stock.mutex_read, guards read_cnt
    pc,          \* where each thread is
    req,         \* the request it handles
    pos,         \* which stock of Order a show has reached
    ans,         \* update_stock's return value
    view,        \* counts a show has copied to its buffer
    left,        \* requests still to come
    crashed      \* the process has died

locks == <<readCnt, mutex, mutexRead>>
vars == <<cnt, locks, pc, req, pos, ans, view, left, crashed>>

\* insert_stock leaves read_cnt as malloc returned it; the stocks are
\* allocated at start, from heap pages that are still zero.
Init ==
    /\ cnt = Initial
    /\ readCnt = [s \in Stocks |-> 0]
    /\ mutex = [s \in Stocks |-> 1]
    /\ mutexRead = [s \in Stocks |-> 1]
    /\ pc = [t \in Threads |-> "idle"]
    /\ req = [t \in Threads |-> NoReq]
    /\ pos = [t \in Threads |-> 1]
    /\ ans = [t \in Threads |-> "none"]
    /\ view = [t \in Threads |-> <<>>]
    /\ left = [t \in Threads |-> OrdersPerClient]
    /\ crashed = FALSE

Goto(t, from, to) == /\ ~crashed
                     /\ pc[t] = from
                     /\ pc' = [pc EXCEPT ![t] = to]
P(sem, s) == sem[s] > 0 /\ sem' = [sem EXCEPT ![s] = @ - 1]
V(sem, s) == sem' = [sem EXCEPT ![s] = @ + 1]

\* The stock that thread t is working on.
At(t) == IF req[t].op = "show" THEN Order[pos[t]] ELSE req[t].id

\* Arithmetic on int.  An overflow is undefined in C; the Makefile's
\* gcc -O2 build makes it an add whose sign is tested, which wraps.
Wrap(x) == ((x + IntMax + 1) % (2 * (IntMax + 1))) - (IntMax + 1)
Delta(r) == IF r.op = "buy" THEN Wrap(-r.n) ELSE r.n
NewCnt(t) == Wrap(cnt[At(t)] + Delta(req[t]))
-----------------------------------------------------------------------------
\* A line arrives and process_request picks the handler.
Receive(t, r) ==
    /\ Goto(t, "idle", IF r = Show THEN "rd_enter" ELSE "up_lock")
    /\ left[t] > 0
    /\ left' = [left EXCEPT ![t] = @ - 1]
    /\ req' = [req EXCEPT ![t] = r]
    /\ pos' = [pos EXCEPT ![t] = 1]
    /\ UNCHANGED <<cnt, locks, ans, view, crashed>>

Respond(t) ==
    /\ Goto(t, "respond", "idle")
    /\ req' = [req EXCEPT ![t] = NoReq]
    /\ ans' = [ans EXCEPT ![t] = "none"]
    /\ view' = [view EXCEPT ![t] = <<>>]
    /\ UNCHANGED <<cnt, locks, pos, left, crashed>>
-----------------------------------------------------------------------------
(* update_stock                                                            *)

\* Mutant: update_stock does not lock the stock.
UpdateUnlocked(t) ==
    /\ Goto(t, "up_lock", "up_check")
    /\ At(t) \in Stocks
    /\ UNCHANGED <<cnt, locks, req, pos, ans, view, left, crashed>>

UpdateLock(t) ==
    /\ Goto(t, "up_lock", "up_check")
    /\ At(t) \in Stocks
    /\ P(mutex, At(t))
    /\ UNCHANGED <<cnt, readCnt, mutexRead, req, pos, ans, view, left, crashed>>

\* get_stock returned NULL, and P(&target_stock->mutex) comes before the
\* test for it: the process receives SIGSEGV.
UpdateUnknown(t) ==
    /\ ~crashed /\ pc[t] = "up_lock"
    /\ At(t) \notin Stocks
    /\ crashed' = TRUE
    /\ UNCHANGED <<cnt, locks, pc, req, pos, ans, view, left>>

UpdateEnough(t) ==
    /\ Goto(t, "up_check", "up_add")
    /\ NewCnt(t) >= 0
    /\ UNCHANGED <<cnt, locks, req, pos, ans, view, left, crashed>>

\* Mutant: NOT_ENOUGH is returned without V(&target_stock->mutex).
UpdateKeepsLock(t) ==
    /\ Goto(t, "up_check", "respond")
    /\ NewCnt(t) < 0
    /\ ans' = [ans EXCEPT ![t] = "NOT_ENOUGH"]
    /\ UNCHANGED <<cnt, locks, req, pos, view, left, crashed>>

UpdateNotEnough(t) ==
    /\ Goto(t, "up_check", "up_unlock")
    /\ NewCnt(t) < 0
    /\ ans' = [ans EXCEPT ![t] = "NOT_ENOUGH"]
    /\ UNCHANGED <<cnt, locks, req, pos, view, left, crashed>>

UpdateAdd(t) ==
    /\ Goto(t, "up_add", "up_unlock")
    /\ cnt' = [cnt EXCEPT ![At(t)] = NewCnt(t)]
    /\ ans' = [ans EXCEPT ![t] = "SUCCESS"]
    /\ UNCHANGED <<locks, req, pos, view, left, crashed>>

UpdateUnlock(t) ==
    /\ Goto(t, "up_unlock", "respond")
    /\ V(mutex, At(t))
    /\ UNCHANGED <<cnt, readCnt, mutexRead, req, pos, ans, view, left, crashed>>

update_stock(t) == \/ UpdateLock(t) \/ UpdateUnknown(t) \/ UpdateEnough(t)
                   \/ UpdateNotEnough(t) \/ UpdateAdd(t) \/ UpdateUnlock(t)
-----------------------------------------------------------------------------
(* set_stocks_info, one node of the preorder walk after the other          *)

ReadEnter(t) ==
    /\ Goto(t, "rd_enter", "rd_count")
    /\ P(mutexRead, At(t))
    /\ UNCHANGED <<cnt, readCnt, mutex, req, pos, ans, view, left, crashed>>

ReadCount(t) ==
    /\ Goto(t, "rd_count", IF readCnt[At(t)] + 1 = 1 THEN "rd_first" ELSE "rd_entered")
    /\ readCnt' = [readCnt EXCEPT ![At(t)] = @ + 1]
    /\ UNCHANGED <<cnt, mutex, mutexRead, req, pos, ans, view, left, crashed>>

ReadFirst(t) ==
    /\ Goto(t, "rd_first", "rd_entered")
    /\ P(mutex, At(t))
    /\ UNCHANGED <<cnt, readCnt, mutexRead, req, pos, ans, view, left, crashed>>

ReadEntered(t) ==
    /\ Goto(t, "rd_entered", "rd_copy")
    /\ V(mutexRead, At(t))
    /\ UNCHANGED <<cnt, readCnt, mutex, req, pos, ans, view, left, crashed>>

ReadCopy(t) ==
    /\ Goto(t, "rd_copy", "rd_leave")
    /\ view' = [view EXCEPT ![t] = Append(@, cnt[At(t)])]
    /\ UNCHANGED <<cnt, locks, req, pos, ans, left, crashed>>

ReadLeave(t) ==
    /\ Goto(t, "rd_leave", "rd_uncount")
    /\ P(mutexRead, At(t))
    /\ UNCHANGED <<cnt, readCnt, mutex, req, pos, ans, view, left, crashed>>

\* Mutant: the last but one reader unlocks.
ReadUncountEarly(t) ==
    /\ Goto(t, "rd_uncount", IF readCnt[At(t)] - 1 <= 1 THEN "rd_last" ELSE "rd_left")
    /\ readCnt' = [readCnt EXCEPT ![At(t)] = @ - 1]
    /\ UNCHANGED <<cnt, mutex, mutexRead, req, pos, ans, view, left, crashed>>

ReadUncount(t) ==
    /\ Goto(t, "rd_uncount", IF readCnt[At(t)] - 1 = 0 THEN "rd_last" ELSE "rd_left")
    /\ readCnt' = [readCnt EXCEPT ![At(t)] = @ - 1]
    /\ UNCHANGED <<cnt, mutex, mutexRead, req, pos, ans, view, left, crashed>>

ReadLast(t) ==
    /\ Goto(t, "rd_last", "rd_left")
    /\ V(mutex, At(t))
    /\ UNCHANGED <<cnt, readCnt, mutexRead, req, pos, ans, view, left, crashed>>

\* The walk goes on to the next node, or the reply is complete.
ReadLeft(t) ==
    /\ Goto(t, "rd_left", IF pos[t] = Size THEN "respond" ELSE "rd_enter")
    /\ V(mutexRead, At(t))
    /\ pos' = [pos EXCEPT ![t] = IF @ = Size THEN 1 ELSE @ + 1]
    /\ UNCHANGED <<cnt, readCnt, mutex, req, ans, view, left, crashed>>

set_stocks_info(t) ==
    \/ ReadEnter(t) \/ ReadCount(t) \/ ReadFirst(t) \/ ReadEntered(t) \/ ReadCopy(t)
    \/ ReadLeave(t) \/ ReadUncount(t) \/ ReadLast(t) \/ ReadLeft(t)
-----------------------------------------------------------------------------
Step(t) == update_stock(t) \/ set_stocks_info(t) \/ Respond(t)

\* All clients are done, or the process is dead.
Finished ==
    /\ crashed \/ \A t \in Threads : pc[t] = "idle" /\ left[t] = 0
    /\ UNCHANGED vars

Next == \/ \E t \in Threads : Step(t) \/ \E r \in Requests : Receive(t, r)
        \/ Finished

Spec == Init /\ [][Next]_vars

\* The scheduler runs every runnable thread; sem_wait promises no order
\* among waiters, so fairness is weak.  Clients may stay silent.
FairSpec == Spec /\ \A t \in Threads : WF_vars(Step(t))
-----------------------------------------------------------------------------
(* Properties                                                              *)

WritePcs == {"up_check", "up_add", "up_unlock"}
ReadPcs == {"rd_copy", "rd_leave"}
GatePcs == {"rd_count", "rd_first", "rd_entered", "rd_uncount", "rd_last", "rd_left"}
Writers(s) == {t \in Threads : pc[t] \in WritePcs /\ At(t) = s}
Readers(s) == {t \in Threads : pc[t] \in ReadPcs /\ At(t) = s}
AtGate(s) == {t \in Threads : pc[t] \in GatePcs /\ At(t) = s}

\* Types of the stock fields, the locks and the threads' locals.
TypeOK ==
    /\ cnt \in [Stocks -> 0..IntMax]
    /\ readCnt \in [Stocks -> Nat]
    /\ mutex \in [Stocks -> 0..1] /\ mutexRead \in [Stocks -> 0..1]
    /\ pc \in [Threads -> {"idle", "respond", "up_lock", "rd_enter"}
                          \cup WritePcs \cup ReadPcs \cup GatePcs]
    /\ req \in [Threads -> Requests \cup {NoReq}]
    /\ pos \in [Threads -> 1..Size]
    /\ ans \in [Threads -> {"none", "SUCCESS", "NOT_ENOUGH"}]
    /\ view \in [Threads -> Seq(0..IntMax)]
    /\ left \in [Threads -> 0..OrdersPerClient]
    /\ crashed \in BOOLEAN

\* While one thread is between check and unlock of a stock, no other thread
\* updates it and no show is copying it.
ReadersExcludeWriters ==
    \A s \in Stocks : /\ \A t, u \in Writers(s) : t = u
                      /\ Writers(s) = {} \/ Readers(s) = {}

\* When no thread touches a stock, its lock is back in its initial state:
\* no sequence of overlapping readers leaves the stock locked or leaves
\* read_cnt off by one.
IdleStockIsUnlocked ==
    \A s \in Stocks :
        Writers(s) \cup Readers(s) \cup AtGate(s) = {}
            => mutex[s] = 1 /\ mutexRead[s] = 1 /\ readCnt[s] = 0

\* The handlers implement the ledger: every update takes effect at once, is
\* refused exactly when the true sum is out of range, never goes negative
\* and never wraps, and each line of a show is a current count.
Ledger == INSTANCE StockLedger
ImplementsLedger == Ledger!Spec

\* Every request is answered: the semaphores never lock the threads out.  The
\* process can die under its clients, in UpdateUnknown.
EveryRequestAnswered == \A t \in Threads : req[t] # NoReq ~> (req[t] = NoReq \/ crashed)
=============================================================================
