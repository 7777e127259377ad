------------------------------ MODULE ConnQueue ------------------------------
(***************************************************************************)
(* What the connection buffer of the thread-pool server promises: a        *)
(* bounded first-in first-out queue of open connections.  The acceptor     *)
(* offers each accepted descriptor once, each worker takes the oldest one  *)
(* when it holds none, and a descriptor is offered again only after the    *)
(* worker that served it has released it.                                  *)
(***************************************************************************)
EXTENDS Naturals, Sequences

CONSTANTS Workers,   \* the worker threads
          Capacity,  \* how many connections may wait
          Fds,       \* connection descriptors
          NoFd       \* held by a worker that serves nobody

VARIABLES queue,     \* waiting connections, oldest first
          holds      \* the connection each worker is serving, or NoFd

vars == <<queue, holds>>

Waiting == {queue[i] : i \in 1..Len(queue)}
Served == {holds[w] : w \in Workers} \ {NoFd}

Init == /\ queue = <<>>
        /\ holds = [w \in Workers |-> NoFd]

Offer(fd) ==
    /\ Len(queue) < Capacity
    /\ fd \notin Waiting \cup Served
    /\ queue' = Append(queue, fd)
    /\ UNCHANGED holds

Take(w) ==
    /\ queue # <<>>
    /\ holds[w] = NoFd
    /\ holds' = [holds EXCEPT ![w] = Head(queue)]
    /\ queue' = Tail(queue)

Release(w) ==
    /\ holds[w] # NoFd
    /\ holds' = [holds EXCEPT ![w] = NoFd]
    /\ UNCHANGED queue

Next == \/ \E fd \in Fds : Offer(fd)
        \/ \E w \in Workers : Take(w) \/ Release(w)

Spec == Init /\ [][Next]_vars
=============================================================================
