-------------------------------- MODULE Sbuf --------------------------------
(***************************************************************************)
(* The thread-pool stock server of prj2/task2_new/stockserver.c: the main  *)
(* thread accepts connections and puts their descriptors in the bounded    *)
(* buffer sbuf; the worker threads take descriptors out, serve the client  *)
(* and close the connection.                                               *)
(*                                                                         *)
(* Every access to the buffer is split at the semaphore calls P and V, and *)
(* the two memory accesses of  sp->buf[(++sp->rear) % (sp->n)] = item  are *)
(* separate steps, so threads interleave wherever the code lets them.      *)
(***************************************************************************)
EXTENDS Integers, FiniteSets

CONSTANTS Main,        \* the thread that runs main()
          Workers,     \* the NTHREADS threads that run thread()
          N,           \* SBUFSIZE, the number of slots
          Fds,         \* descriptors Accept may return
          NoFd,        \* an empty variable or a slot Calloc left at 0
          MaxAccepts   \* bound: accept() calls in one behaviour

ASSUME SbufAssumption ==
    /\ N \in Nat \ {0}
    /\ MaxAccepts \in Nat
    /\ IsFiniteSet(Workers)
    /\ Main \notin Workers
    /\ NoFd \notin Fds

Threads == {Main} \cup Workers

VARIABLES
    buf, front, rear,       \* the fields of sbuf_t
    mutex, slots, items,    \* its three semaphores
    pc,                     \* where each thread is
    fd,                     \* connfd / item, the descriptor a thread holds
    idx,                    \* the slot number a thread has just computed
    open,                   \* connections open in the kernel
    accepted                \* accept() calls so far

sbuf == <<buf, front, rear, mutex, slots, items>>
vars == <<buf, front, rear, mutex, slots, items, pc, fd, idx, open, accepted>>

\* pc values inside the region guarded by sbuf.mutex
InsertRegion == {"ins_index", "ins_store", "ins_unlock"}
RemoveRegion == {"rem_index", "rem_load", "rem_unlock"}

Init ==
    /\ buf = [i \in 0..(N - 1) |-> NoFd]
    /\ front = 0 /\ rear = 0
    /\ mutex = 1 /\ slots = N /\ items = 0
    /\ pc = [t \in Threads |-> IF t = Main THEN "accept" ELSE "rem_items"]
    /\ fd = [t \in Threads |-> NoFd]
    /\ idx = [t \in Threads |-> 0]
    /\ open = {}
    /\ accepted = 0

Goto(t, from, to) == /\ pc[t] = from
                     /\ pc' = [pc EXCEPT ![t] = to]
-----------------------------------------------------------------------------
(* main(): Accept, then sbuf_insert(&sbuf, connfd)                         *)

\* The kernel hands out a descriptor that is not open.
Accept(f) ==
    /\ Goto(Main, "accept", "ins_slots")
    /\ accepted < MaxAccepts
    /\ f \notin open
    /\ open' = open \cup {f}
    /\ fd' = [fd EXCEPT ![Main] = f]
    /\ accepted' = accepted + 1
    /\ UNCHANGED <<sbuf, idx>>

\* Mutant: P(&sp->slots) does not wait.
InsertWithoutWaiting ==
    /\ Goto(Main, "ins_slots", "ins_mutex")
    /\ slots' = slots - 1
    /\ UNCHANGED <<buf, front, rear, mutex, items, fd, idx, open, accepted>>

InsertWaitSlot ==
    /\ Goto(Main, "ins_slots", "ins_mutex")
    /\ slots > 0
    /\ slots' = slots - 1
    /\ UNCHANGED <<buf, front, rear, mutex, items, fd, idx, open, accepted>>

InsertLock ==
    /\ Goto(Main, "ins_mutex", "ins_index")
    /\ mutex > 0
    /\ mutex' = mutex - 1
    /\ UNCHANGED <<buf, front, rear, slots, items, fd, idx, open, accepted>>

InsertIndex ==
    /\ Goto(Main, "ins_index", "ins_store")
    /\ rear' = rear + 1
    /\ idx' = [idx EXCEPT ![Main] = (rear + 1) % N]
    /\ UNCHANGED <<buf, front, mutex, slots, items, fd, open, accepted>>

InsertStore ==
    /\ Goto(Main, "ins_store", "ins_unlock")
    /\ buf' = [buf EXCEPT ![idx[Main]] = fd[Main]]
    /\ fd' = [fd EXCEPT ![Main] = NoFd]
    /\ UNCHANGED <<front, rear, mutex, slots, items, idx, open, accepted>>

InsertUnlock ==
    /\ Goto(Main, "ins_unlock", "ins_items")
    /\ mutex' = mutex + 1
    /\ UNCHANGED <<buf, front, rear, slots, items, fd, idx, open, accepted>>

\* Mutant: V(&sp->items) is forgotten.
InsertSilently ==
    /\ Goto(Main, "ins_items", "accept")
    /\ UNCHANGED <<sbuf, fd, idx, open, accepted>>

InsertAnnounce ==
    /\ Goto(Main, "ins_items", "accept")
    /\ items' = items + 1
    /\ UNCHANGED <<buf, front, rear, mutex, slots, fd, idx, open, accepted>>
-----------------------------------------------------------------------------
(* thread(): sbuf_remove(&sbuf), connect_client(connfd), Close(connfd)      *)

RemoveWaitItem(w) ==
    /\ Goto(w, "rem_items", "rem_mutex")
    /\ items > 0
    /\ items' = items - 1
    /\ UNCHANGED <<buf, front, rear, mutex, slots, fd, idx, open, accepted>>

RemoveLock(w) ==
    /\ Goto(w, "rem_mutex", "rem_index")
    /\ mutex > 0
    /\ mutex' = mutex - 1
    /\ UNCHANGED <<buf, front, rear, slots, items, fd, idx, open, accepted>>

\* Mutant: front++ instead of ++front.
RemovePostIncrement(w) ==
    /\ Goto(w, "rem_index", "rem_load")
    /\ front' = front + 1
    /\ idx' = [idx EXCEPT ![w] = front % N]
    /\ UNCHANGED <<buf, rear, mutex, slots, items, fd, open, accepted>>

RemoveIndex(w) ==
    /\ Goto(w, "rem_index", "rem_load")
    /\ front' = front + 1
    /\ idx' = [idx EXCEPT ![w] = (front + 1) % N]
    /\ UNCHANGED <<buf, rear, mutex, slots, items, fd, open, accepted>>

RemoveLoad(w) ==
    /\ Goto(w, "rem_load", "rem_unlock")
    /\ fd' = [fd EXCEPT ![w] = buf[idx[w]]]
    /\ UNCHANGED <<sbuf, idx, open, accepted>>

RemoveUnlock(w) ==
    /\ Goto(w, "rem_unlock", "rem_slots")
    /\ mutex' = mutex + 1
    /\ UNCHANGED <<buf, front, rear, slots, items, fd, idx, open, accepted>>

RemoveAnnounce(w) ==
    /\ Goto(w, "rem_slots", "serve")
    /\ slots' = slots + 1
    /\ UNCHANGED <<buf, front, rear, mutex, items, fd, idx, open, accepted>>

\* connect_client runs until the client closes its end; then Close(connfd).
Close(w) ==
    /\ Goto(w, "serve", "rem_items")
    /\ open' = open \ {fd[w]}
    /\ fd' = [fd EXCEPT ![w] = NoFd]
    /\ UNCHANGED <<sbuf, idx, accepted>>
-----------------------------------------------------------------------------
sbuf_insert == \/ InsertWaitSlot \/ InsertLock \/ InsertIndex
               \/ InsertStore \/ InsertUnlock \/ InsertAnnounce

sbuf_remove(w) == \/ RemoveWaitItem(w) \/ RemoveLock(w) \/ RemoveIndex(w)
                  \/ RemoveLoad(w) \/ RemoveUnlock(w) \/ RemoveAnnounce(w)

\* Every client has come and gone: all workers wait for the next connection.
Quiescent ==
    /\ accepted = MaxAccepts
    /\ pc[Main] = "accept"
    /\ \A w \in Workers : pc[w] = "rem_items"
    /\ items = 0
    /\ UNCHANGED vars

Next == \/ \E f \in Fds : Accept(f)
        \/ sbuf_insert
        \/ \E w \in Workers : sbuf_remove(w) \/ Close(w)
        \/ Quiescent

Spec == Init /\ [][Next]_vars

(* The operating system keeps running every thread that can run, a waiting *)
(* sem_wait returns once its semaphore stays positive, and every client    *)
(* hangs up in the end.  Nothing obliges a new client to connect.          *)
Fairness == /\ WF_vars(sbuf_insert)
            /\ \A w \in Workers : WF_vars(sbuf_remove(w)) /\ WF_vars(Close(w))

FairSpec == Spec /\ Fairness
-----------------------------------------------------------------------------
(* Properties                                                              *)

\* How many connections have been loaded from the ring and stored into it;
\* the ones that wait are at the positions Loaded+1 .. Stored.
Loaded == IF \E w \in Workers : pc[w] = "rem_load" THEN front - 1 ELSE front
Stored == IF pc[Main] = "ins_store" THEN rear - 1 ELSE rear
Queue == [i \in 1..(Stored - Loaded) |-> buf[(Loaded + i) % N]]

\* Types of the shared fields and of each thread's locals.
TypeOK ==
    /\ buf \in [0..(N - 1) -> Fds \cup {NoFd}]
    /\ front \in Nat /\ rear \in Nat
    /\ mutex \in 0..1 /\ slots \in 0..N /\ items \in 0..N
    /\ pc \in [Threads -> {"accept", "ins_slots", "ins_mutex", "ins_items",
                           "rem_items", "rem_mutex", "rem_slots", "serve"}
                          \cup InsertRegion \cup RemoveRegion]
    /\ pc[Main] \in {"accept", "ins_slots", "ins_mutex", "ins_items"}
                    \cup InsertRegion
    /\ \A w \in Workers : pc[w] \in {"rem_items", "rem_mutex", "rem_slots", "serve"}
                                    \cup RemoveRegion
    /\ fd \in [Threads -> Fds \cup {NoFd}]
    /\ idx \in [Threads -> 0..(N - 1)]
    /\ open \subseteq Fds
    /\ accepted \in 0..MaxAccepts

\* At most one thread is between P(&sp->mutex) and V(&sp->mutex), and the
\* semaphore is 0 exactly while there is one.
InRegion == {t \in Threads : pc[t] \in InsertRegion \cup RemoveRegion}
MutexExcludes ==
    /\ \A t, u \in InRegion : t = u
    /\ mutex = 0 <=> InRegion # {}

\* The semaphores and the positions agree, counting what is under way: main
\* has reserved a slot, or filled one it has not announced; some workers
\* have claimed an item, or moved front past one whose slot they still keep.
Claiming == {w \in Workers : pc[w] \in {"rem_mutex", "rem_index"}}
Freeing == {w \in Workers : pc[w] \in {"rem_load", "rem_unlock", "rem_slots"}}
Reserving == IF pc[Main] \in {"ins_mutex", "ins_index"} THEN 1 ELSE 0
Filling == IF pc[Main] \in {"ins_store", "ins_unlock", "ins_items"} THEN 1 ELSE 0
SemaphoresCount ==
    /\ items + Cardinality(Claiming) + Filling = rear - front
    /\ slots + Cardinality(Freeing) + Reserving = N - (rear - front)

\* The slot main is about to store into holds no connection that a worker
\* has still to load, although main and the workers count on two different
\* semaphores: no accepted connection is ever overwritten.
NoOverwrite ==
    pc[Main] = "ins_store" =>
        \A i \in (Loaded + 1)..Stored : i % N # idx[Main]

\* Every open connection is in exactly one place: in main's hand, in one
\* position of the buffer, or with one worker.  So no connection is lost,
\* handed to two workers, or closed under the worker that serves it.
InHand(f) == {t \in Threads : fd[t] = f}
InBuffer(f) == {i \in (Loaded + 1)..Stored : buf[i % N] = f}
OneHolder ==
    \A f \in Fds :
        /\ f \in open <=> InHand(f) \cup InBuffer(f) # {}
        /\ InHand(f) = {} \/ InBuffer(f) = {}
        /\ \A t, u \in InHand(f) : t = u
        /\ \A i, j \in InBuffer(f) : i = j

\* The buffer is a FIFO queue of capacity N whose connections each worker
\* takes in turn: refinement of ConnQueue.
Abstract == INSTANCE ConnQueue WITH
    Capacity <- N,
    queue    <- Queue,
    holds    <- [w \in Workers |-> fd[w]]
RefinesConnQueue == Abstract!Spec

\* Every accepted connection is picked up by some worker.
AcceptedIsServed ==
    \A f \in Fds : (fd[Main] = f) ~> (\E w \in Workers : fd[w] = f)
=============================================================================
