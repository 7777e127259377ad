----------------------------- MODULE SbufProofs -----------------------------
(***************************************************************************)
(* Theorems about Sbuf for any number of workers, slots, descriptors and   *)
(* accepted connections: types, mutual exclusion on the buffer, the        *)
(* balance of the semaphores, that no waiting connection is overwritten,   *)
(* that every open descriptor is in one place, and that the ring           *)
(* implements ConnQueue.  The inductive invariant Inv joins the types, the *)
(* exclusion and the balance with a slot number that stays current until   *)
(* it is used; DataInv adds what the slots and the threads hold.           *)
(***************************************************************************)
EXTENDS Sbuf, Sequences, FiniteSetTheorems, TLAPS

\* The slot numbers computed under the lock are still the current ends.
IndexIsCurrent ==
    /\ pc[Main] = "ins_store" => idx[Main] = rear % N
    /\ \A w \in Workers : pc[w] = "rem_load" => idx[w] = front % N

Inv == TypeOK /\ MutexExcludes /\ SemaphoresCount /\ IndexIsCurrent
-----------------------------------------------------------------------------
(* Facts about numbers and finite sets                                     *)

\* Division with remainder.
LEMMA DivMod ==
    ASSUME NEW n \in Nat \ {0}, NEW i \in Int
    PROVE  /\ i % n \in 0..(n - 1)
           /\ i \div n \in Int
           /\ i = n * (i \div n) + (i % n)
  OBVIOUS

\* Positions less than n apart fall into different slots of a ring of n.
LEMMA SlotsDiffer ==
    ASSUME NEW n \in Nat \ {0}, NEW i \in Int, NEW j \in Int, i < j, j - i < n
    PROVE  i % n # j % n
<1> DEFINE p == i \div n
           q == j \div n
<1>1. i = n * p + (i % n) /\ j = n * q + (j % n) /\ p \in Int /\ q \in Int
  BY DivMod
<1> SUFFICES ASSUME i % n = j % n PROVE FALSE
  OBVIOUS
<1> HIDE DEF p, q
<1>2. j - i = n * (q - p)
  BY <1>1
<1>3. CASE q - p <= 0
  <2>1. n * (q - p) <= 0
    BY <1>1, <1>3
  <2> QED BY <2>1, <1>2
<1>4. CASE q - p >= 1
  <2>1. n * (q - p) >= n
    BY <1>1, <1>4
  <2> QED BY <2>1, <1>2
<1> QED BY <1>3, <1>4, <1>1

\* The workers in any two places of the code can be counted.
LEMMA CountsAreNumbers ==
    /\ IsFiniteSet(Claiming) /\ Cardinality(Claiming) \in Nat
    /\ IsFiniteSet(Freeing) /\ Cardinality(Freeing) \in Nat
<1>1. IsFiniteSet(Claiming) /\ IsFiniteSet(Freeing)
  BY SbufAssumption, FS_Subset DEF Claiming, Freeing
<1> QED BY <1>1, FS_CardinalityType
-----------------------------------------------------------------------------
(* What a step of one thread does to the sets the invariant counts         *)

\* A step of main leaves the workers' counts alone.
LEMMA MainStep ==
    ASSUME TypeOK, NEW x, pc' = [pc EXCEPT ![Main] = x]
    PROVE  /\ Claiming' = Claiming /\ Freeing' = Freeing
           /\ pc'[Main] = x
           /\ \A w \in Workers : pc'[w] = pc[w]
           /\ InRegion' = IF x \in InsertRegion \cup RemoveRegion
                          THEN InRegion \cup {Main} ELSE InRegion \ {Main}
  BY SbufAssumption DEF TypeOK, Threads, Claiming, Freeing, InRegion,
                        InsertRegion, RemoveRegion

\* A step of a worker leaves main alone and moves that worker only.
LEMMA WorkerStep ==
    ASSUME TypeOK, NEW w \in Workers, NEW x, pc' = [pc EXCEPT ![w] = x]
    PROVE  /\ Reserving' = Reserving /\ Filling' = Filling
           /\ pc'[Main] = pc[Main]
           /\ pc'[w] = x
           /\ \A v \in Workers \ {w} : pc'[v] = pc[v]
           /\ Claiming' = IF x \in {"rem_mutex", "rem_index"}
                          THEN Claiming \cup {w} ELSE Claiming \ {w}
           /\ Freeing' = IF x \in {"rem_load", "rem_unlock", "rem_slots"}
                         THEN Freeing \cup {w} ELSE Freeing \ {w}
           /\ InRegion' = IF x \in InsertRegion \cup RemoveRegion
                          THEN InRegion \cup {w} ELSE InRegion \ {w}
<1>1. pc'[Main] = pc[Main] /\ pc'[w] = x /\ \A v \in Workers \ {w} : pc'[v] = pc[v]
  BY SbufAssumption DEF TypeOK, Threads
<1>2. Reserving' = Reserving /\ Filling' = Filling
  BY <1>1 DEF Reserving, Filling
<1>3. Claiming' = IF x \in {"rem_mutex", "rem_index"}
                  THEN Claiming \cup {w} ELSE Claiming \ {w}
  BY <1>1 DEF Claiming
<1>4. Freeing' = IF x \in {"rem_load", "rem_unlock", "rem_slots"}
                 THEN Freeing \cup {w} ELSE Freeing \ {w}
  BY <1>1 DEF Freeing
<1>5. InRegion' = IF x \in InsertRegion \cup RemoveRegion
                  THEN InRegion \cup {w} ELSE InRegion \ {w}
  BY <1>1 DEF InRegion, Threads
<1> QED BY <1>1, <1>2, <1>3, <1>4, <1>5
-----------------------------------------------------------------------------
(* The invariant is inductive                                              *)

LEMMA InitInv == Init => Inv
<1> SUFFICES ASSUME Init PROVE Inv
  OBVIOUS
<1> USE SbufAssumption DEF Init
<1>1. TypeOK
  BY DEF TypeOK, Threads, InsertRegion, RemoveRegion
<1>2. Claiming = {} /\ Freeing = {} /\ InRegion = {}
  BY DEF Claiming, Freeing, InRegion, Threads, InsertRegion, RemoveRegion
<1>3. MutexExcludes
  BY <1>2 DEF MutexExcludes
<1>4. SemaphoresCount
  BY <1>2, FS_EmptySet DEF SemaphoresCount, Reserving, Filling, Threads
<1>5. IndexIsCurrent
  BY DEF IndexIsCurrent, Threads
<1> QED BY <1>1, <1>3, <1>4, <1>5 DEF Inv

LEMMA AcceptInv == ASSUME Inv, NEW f \in Fds, Accept(f) PROVE Inv'
<1> USE SbufAssumption DEF Inv, Accept, Goto, sbuf
<1>1. TypeOK'
  BY DEF TypeOK, Threads, InsertRegion, RemoveRegion
<1>2. /\ Claiming' = Claiming /\ Freeing' = Freeing /\ InRegion' = InRegion
      /\ Reserving' = Reserving /\ Filling' = Filling
      /\ pc'[Main] # "ins_store" /\ \A w \in Workers : pc'[w] = pc[w]
  BY MainStep DEF InRegion, InsertRegion, RemoveRegion, Reserving, Filling
<1>3. MutexExcludes'
  BY <1>2 DEF MutexExcludes
<1>4. SemaphoresCount'
  BY <1>2 DEF SemaphoresCount
<1>5. IndexIsCurrent'
  BY <1>2 DEF IndexIsCurrent
<1> QED BY <1>1, <1>3, <1>4, <1>5

LEMMA InsertWaitSlotInv == ASSUME Inv, InsertWaitSlot PROVE Inv'
<1> USE SbufAssumption DEF Inv, InsertWaitSlot, Goto
<1>1. TypeOK'
  BY DEF TypeOK, Threads, InsertRegion, RemoveRegion
<1>2. /\ Claiming' = Claiming /\ Freeing' = Freeing /\ InRegion' = InRegion
      /\ pc'[Main] = "ins_mutex" /\ \A w \in Workers : pc'[w] = pc[w]
  BY MainStep DEF InRegion, InsertRegion, RemoveRegion, Threads
<1>3. MutexExcludes'
  BY <1>2 DEF MutexExcludes
<1>4. SemaphoresCount'
  BY <1>2, CountsAreNumbers DEF SemaphoresCount, Reserving, Filling, TypeOK
<1>5. IndexIsCurrent'
  BY <1>2 DEF IndexIsCurrent, TypeOK, Threads
<1> QED BY <1>1, <1>3, <1>4, <1>5

LEMMA InsertLockInv == ASSUME Inv, InsertLock PROVE Inv'
<1> USE SbufAssumption DEF Inv, InsertLock, Goto
<1>1. TypeOK'
  BY DEF TypeOK, Threads, InsertRegion, RemoveRegion
<1>2. /\ Claiming' = Claiming /\ Freeing' = Freeing /\ InRegion' = InRegion \cup {Main}
      /\ pc'[Main] = "ins_index" /\ \A w \in Workers : pc'[w] = pc[w]
  BY MainStep DEF InRegion, InsertRegion, RemoveRegion, Threads
<1>3. MutexExcludes'
  BY <1>2 DEF MutexExcludes, TypeOK
<1>4. SemaphoresCount'
  BY <1>2, CountsAreNumbers DEF SemaphoresCount, Reserving, Filling, TypeOK
<1>5. IndexIsCurrent'
  BY <1>2 DEF IndexIsCurrent, TypeOK, Threads
<1> QED BY <1>1, <1>3, <1>4, <1>5

LEMMA InsertIndexInv == ASSUME Inv, InsertIndex PROVE Inv'
<1> USE SbufAssumption DEF Inv, InsertIndex, Goto
<1>0. (rear + 1) % N \in 0..(N - 1)
  BY DivMod DEF TypeOK
<1>1. TypeOK'
  BY <1>0 DEF TypeOK, Threads, InsertRegion, RemoveRegion
<1>2. /\ Claiming' = Claiming /\ Freeing' = Freeing /\ InRegion' = InRegion
      /\ pc'[Main] = "ins_store" /\ \A w \in Workers : pc'[w] = pc[w]
  BY MainStep DEF InRegion, InsertRegion, RemoveRegion, Threads
<1>3. MutexExcludes'
  BY <1>2 DEF MutexExcludes
<1>4. SemaphoresCount'
  <2>1. Reserving = 1 /\ Reserving' = 0 /\ Filling = 0 /\ Filling' = 1
    BY <1>2 DEF Reserving, Filling
  <2>2. UNCHANGED <<items, slots, front>> /\ rear' = rear + 1
    OBVIOUS
  <2>3. SemaphoresCount /\ {items, slots, front, rear, N} \subseteq Int
    BY DEF TypeOK
  <2> HIDE DEF Inv, InsertIndex, Goto
  <2> QED BY <1>2, <2>1, <2>2, <2>3, CountsAreNumbers DEF SemaphoresCount
<1>5. IndexIsCurrent'
  BY <1>2 DEF IndexIsCurrent, TypeOK, Threads
<1> QED BY <1>1, <1>3, <1>4, <1>5

LEMMA InsertStoreInv == ASSUME Inv, InsertStore PROVE Inv'
<1> USE SbufAssumption DEF Inv, InsertStore, Goto
<1>1. TypeOK'
  BY DEF TypeOK, Threads, InsertRegion, RemoveRegion
<1>2. /\ Claiming' = Claiming /\ Freeing' = Freeing /\ InRegion' = InRegion
      /\ pc'[Main] = "ins_unlock" /\ \A w \in Workers : pc'[w] = pc[w]
  BY MainStep DEF InRegion, InsertRegion, RemoveRegion, Threads
<1>3. MutexExcludes'
  BY <1>2 DEF MutexExcludes
<1>4. SemaphoresCount'
  BY <1>2, CountsAreNumbers DEF SemaphoresCount, Reserving, Filling, TypeOK
<1>5. IndexIsCurrent'
  BY <1>2 DEF IndexIsCurrent, TypeOK, Threads
<1> QED BY <1>1, <1>3, <1>4, <1>5

LEMMA InsertUnlockInv == ASSUME Inv, InsertUnlock PROVE Inv'
<1> USE SbufAssumption DEF Inv, InsertUnlock, Goto
<1>0. Main \in InRegion /\ mutex = 0
  BY DEF InRegion, Threads, MutexExcludes, InsertRegion, TypeOK
<1>1. TypeOK'
  BY <1>0 DEF TypeOK, Threads, InsertRegion, RemoveRegion
<1>2. /\ Claiming' = Claiming /\ Freeing' = Freeing /\ InRegion' = InRegion \ {Main}
      /\ pc'[Main] = "ins_items" /\ \A w \in Workers : pc'[w] = pc[w]
  BY MainStep DEF InRegion, InsertRegion, RemoveRegion, Threads
<1>3. MutexExcludes'
  BY <1>0, <1>2 DEF MutexExcludes
<1>4. SemaphoresCount'
  BY <1>2, CountsAreNumbers DEF SemaphoresCount, Reserving, Filling, TypeOK
<1>5. IndexIsCurrent'
  BY <1>2 DEF IndexIsCurrent, TypeOK, Threads
<1> QED BY <1>1, <1>3, <1>4, <1>5

LEMMA InsertAnnounceInv == ASSUME Inv, InsertAnnounce PROVE Inv'
<1> USE SbufAssumption DEF Inv, InsertAnnounce, Goto
<1>0. items + 1 \in 0..N
  BY CountsAreNumbers DEF SemaphoresCount, TypeOK, Filling, Reserving
<1>1. TypeOK'
  BY <1>0 DEF TypeOK, Threads, InsertRegion, RemoveRegion
<1>2. /\ Claiming' = Claiming /\ Freeing' = Freeing /\ InRegion' = InRegion
      /\ pc'[Main] = "accept" /\ \A w \in Workers : pc'[w] = pc[w]
  BY MainStep DEF InRegion, InsertRegion, RemoveRegion, Threads
<1>3. MutexExcludes'
  BY <1>2 DEF MutexExcludes
<1>4. SemaphoresCount'
  BY <1>2, CountsAreNumbers DEF SemaphoresCount, Reserving, Filling, TypeOK
<1>5. IndexIsCurrent'
  BY <1>2 DEF IndexIsCurrent, TypeOK, Threads
<1> QED BY <1>1, <1>3, <1>4, <1>5

LEMMA RemoveWaitItemInv == ASSUME Inv, NEW w \in Workers, RemoveWaitItem(w) PROVE Inv'
<1> USE SbufAssumption DEF Inv, RemoveWaitItem, Goto, sbuf
<1>1. TypeOK'
  BY DEF TypeOK, Threads, InsertRegion, RemoveRegion
<1>2. /\ Claiming' = Claiming \cup {w} /\ Freeing' = Freeing /\ InRegion' = InRegion
      /\ Reserving' = Reserving /\ Filling' = Filling
      /\ pc'[Main] = pc[Main] /\ pc'[w] = "rem_mutex" /\ \A v \in Workers \ {w} : pc'[v] = pc[v]
  BY ZenonT(40), WorkerStep DEF Claiming, Freeing, InRegion, InsertRegion, RemoveRegion, Threads
<1>3. MutexExcludes'
  BY <1>2 DEF MutexExcludes
<1>4. SemaphoresCount'
  <2>1. w \notin Claiming
    BY DEF Claiming, Freeing
  <2>2. Cardinality(Claiming') = Cardinality(Claiming) + 1
    BY <1>2, <2>1, CountsAreNumbers, FS_AddElement, FS_RemoveElement
  <2> QED BY SMTT(30), <1>2, <2>2, CountsAreNumbers DEF SemaphoresCount, TypeOK, Reserving, Filling
<1>5. IndexIsCurrent'
  BY <1>2 DEF IndexIsCurrent, TypeOK, Threads
<1> QED BY <1>1, <1>3, <1>4, <1>5

LEMMA RemoveLockInv == ASSUME Inv, NEW w \in Workers, RemoveLock(w) PROVE Inv'
<1> USE SbufAssumption DEF Inv, RemoveLock, Goto, sbuf
<1>1. TypeOK'
  BY DEF TypeOK, Threads, InsertRegion, RemoveRegion
<1>2. /\ Claiming' = Claiming /\ Freeing' = Freeing /\ InRegion' = InRegion \cup {w}
      /\ Reserving' = Reserving /\ Filling' = Filling
      /\ pc'[Main] = pc[Main] /\ pc'[w] = "rem_index" /\ \A v \in Workers \ {w} : pc'[v] = pc[v]
  BY ZenonT(40), WorkerStep DEF Claiming, Freeing, InRegion, InsertRegion, RemoveRegion, Threads
<1>3. MutexExcludes'
  BY <1>2 DEF MutexExcludes, TypeOK
<1>4. SemaphoresCount'
  BY <1>2 DEF SemaphoresCount
<1>5. IndexIsCurrent'
  BY <1>2 DEF IndexIsCurrent, TypeOK, Threads
<1> QED BY <1>1, <1>3, <1>4, <1>5

LEMMA RemoveIndexInv == ASSUME Inv, NEW w \in Workers, RemoveIndex(w) PROVE Inv'
<1> USE SbufAssumption DEF Inv, RemoveIndex, Goto, sbuf
<1>0. (front + 1) % N \in 0..(N - 1)
  BY DivMod DEF TypeOK
<1>1. TypeOK'
  BY <1>0 DEF TypeOK, Threads, InsertRegion, RemoveRegion
<1>2. /\ Claiming' = Claiming \ {w} /\ Freeing' = Freeing \cup {w} /\ InRegion' = InRegion
      /\ Reserving' = Reserving /\ Filling' = Filling
      /\ pc'[Main] = pc[Main] /\ pc'[w] = "rem_load" /\ \A v \in Workers \ {w} : pc'[v] = pc[v]
  BY ZenonT(40), WorkerStep DEF Claiming, Freeing, InRegion, InsertRegion, RemoveRegion, Threads
<1>3. MutexExcludes'
  BY <1>2 DEF MutexExcludes
<1>4. SemaphoresCount'
  <2>1. w \in Claiming /\ w \notin Freeing
    BY DEF Claiming, Freeing
  <2>2. /\ Cardinality(Claiming') = Cardinality(Claiming) - 1
        /\ Cardinality(Freeing') = Cardinality(Freeing) + 1
    BY <1>2, <2>1, CountsAreNumbers, FS_AddElement, FS_RemoveElement
  <2>3. UNCHANGED <<items, slots, rear>> /\ front' = front + 1
    OBVIOUS
  <2>4. Reserving \in 0..1 /\ Filling \in 0..1
    BY DEF Reserving, Filling
  <2>5. SemaphoresCount /\ {items, slots, front, rear, N} \subseteq Int
    BY DEF TypeOK
  <2> HIDE DEF Inv, RemoveIndex, Goto
  <2> QED BY <1>2, <2>2, <2>3, <2>4, <2>5, CountsAreNumbers DEF SemaphoresCount
<1>5. IndexIsCurrent'
  <2>1. \A v \in Workers \ {w} : pc[v] # "rem_load"
    BY DEF MutexExcludes, InRegion, RemoveRegion, Threads
  <2>2. idx'[Main] = idx[Main] /\ rear' = rear
    BY DEF TypeOK, Threads
  <2>3. idx'[w] = front' % N
    BY DEF TypeOK, Threads
  <2> QED BY <1>2, <2>1, <2>2, <2>3 DEF IndexIsCurrent
<1> QED BY <1>1, <1>3, <1>4, <1>5

LEMMA RemoveLoadInv == ASSUME Inv, NEW w \in Workers, RemoveLoad(w) PROVE Inv'
<1> USE SbufAssumption DEF Inv, RemoveLoad, Goto, sbuf
<1>0. buf[idx[w]] \in Fds \cup {NoFd}
  BY DEF TypeOK, Threads
<1>1. TypeOK'
  BY <1>0 DEF TypeOK, Threads, InsertRegion, RemoveRegion
<1>2. /\ Claiming' = Claiming /\ Freeing' = Freeing /\ InRegion' = InRegion
      /\ Reserving' = Reserving /\ Filling' = Filling
      /\ pc'[Main] = pc[Main] /\ pc'[w] = "rem_unlock" /\ \A v \in Workers \ {w} : pc'[v] = pc[v]
  BY ZenonT(40), WorkerStep DEF Claiming, Freeing, InRegion, InsertRegion, RemoveRegion, Threads
<1>3. MutexExcludes'
  BY <1>2 DEF MutexExcludes
<1>4. SemaphoresCount'
  BY <1>2 DEF SemaphoresCount
<1>5. IndexIsCurrent'
  BY <1>2 DEF IndexIsCurrent, TypeOK, Threads
<1> QED BY <1>1, <1>3, <1>4, <1>5

LEMMA RemoveUnlockInv == ASSUME Inv, NEW w \in Workers, RemoveUnlock(w) PROVE Inv'
<1> USE SbufAssumption DEF Inv, RemoveUnlock, Goto, sbuf
<1>0. w \in InRegion /\ mutex = 0
  BY DEF InRegion, Threads, MutexExcludes, RemoveRegion, TypeOK
<1>1. TypeOK'
  BY <1>0 DEF TypeOK, Threads, InsertRegion, RemoveRegion
<1>2. /\ Claiming' = Claiming /\ Freeing' = Freeing /\ InRegion' = InRegion \ {w}
      /\ Reserving' = Reserving /\ Filling' = Filling
      /\ pc'[Main] = pc[Main] /\ pc'[w] = "rem_slots" /\ \A v \in Workers \ {w} : pc'[v] = pc[v]
  <2>1. pc' = [pc EXCEPT ![w] = "rem_slots"]
    OBVIOUS
  <2>2. w \notin Claiming /\ w \in Freeing
    BY DEF Claiming, Freeing, InRegion, InsertRegion, RemoveRegion
  <2>3. Claiming \ {w} = Claiming /\ Freeing \cup {w} = Freeing
    BY <2>2
  <2>4. /\ Claiming' = Claiming \ {w} /\ Freeing' = Freeing \cup {w} /\ InRegion' = InRegion \ {w}
        /\ Reserving' = Reserving /\ Filling' = Filling
        /\ pc'[Main] = pc[Main] /\ pc'[w] = "rem_slots"
        /\ \A v \in Workers \ {w} : pc'[v] = pc[v]
    BY <2>1, WorkerStep DEF InsertRegion, RemoveRegion
  <2> QED BY <2>3, <2>4
<1>3. MutexExcludes'
  BY <1>0, <1>2 DEF MutexExcludes
<1>4. SemaphoresCount'
  BY <1>2 DEF SemaphoresCount
<1>5. IndexIsCurrent'
  BY <1>2 DEF IndexIsCurrent, TypeOK, Threads
<1> QED BY <1>1, <1>3, <1>4, <1>5

LEMMA RemoveAnnounceInv == ASSUME Inv, NEW w \in Workers, RemoveAnnounce(w) PROVE Inv'
<1> USE SbufAssumption DEF Inv, RemoveAnnounce, Goto, sbuf
<1>0. slots + 1 \in 0..N
  <2>1. w \in Freeing
    BY DEF Freeing
  <2>2. Cardinality(Freeing) \in Nat \ {0}
    BY <2>1, CountsAreNumbers, FS_EmptySet
  <2> QED BY <2>2, CountsAreNumbers DEF SemaphoresCount, TypeOK, Filling, Reserving
<1>1. TypeOK'
  BY <1>0 DEF TypeOK, Threads, InsertRegion, RemoveRegion
<1>2. /\ Claiming' = Claiming /\ Freeing' = Freeing \ {w} /\ InRegion' = InRegion
      /\ Reserving' = Reserving /\ Filling' = Filling
      /\ pc'[Main] = pc[Main] /\ pc'[w] = "serve" /\ \A v \in Workers \ {w} : pc'[v] = pc[v]
  <2>1. pc' = [pc EXCEPT ![w] = "serve"]
    OBVIOUS
  <2>2. w \notin Claiming /\ w \notin InRegion
    BY DEF Claiming, Freeing, InRegion, InsertRegion, RemoveRegion
  <2>3. Claiming \ {w} = Claiming /\ InRegion \ {w} = InRegion
    BY <2>2
  <2>4. /\ Claiming' = Claiming \ {w} /\ Freeing' = Freeing \ {w} /\ InRegion' = InRegion \ {w}
        /\ Reserving' = Reserving /\ Filling' = Filling
        /\ pc'[Main] = pc[Main] /\ pc'[w] = "serve"
        /\ \A v \in Workers \ {w} : pc'[v] = pc[v]
    <3> HIDE DEF RemoveAnnounce, Goto
    <3> QED BY <2>1, WorkerStep DEF InsertRegion, RemoveRegion
  <2> QED BY <2>3, <2>4
<1>3. MutexExcludes'
  BY <1>2 DEF MutexExcludes
<1>4. SemaphoresCount'
  <2>1. w \in Freeing
    BY DEF Claiming, Freeing
  <2>2. Cardinality(Freeing') = Cardinality(Freeing) - 1
    BY <1>2, <2>1, CountsAreNumbers, FS_AddElement, FS_RemoveElement
  <2> QED BY SMTT(30), <1>2, <2>2, CountsAreNumbers DEF SemaphoresCount, TypeOK, Reserving, Filling
<1>5. IndexIsCurrent'
  BY <1>2 DEF IndexIsCurrent, TypeOK, Threads
<1> QED BY <1>1, <1>3, <1>4, <1>5

LEMMA CloseInv == ASSUME Inv, NEW w \in Workers, Close(w) PROVE Inv'
<1> USE SbufAssumption DEF Inv, Close, Goto, sbuf
<1>1. TypeOK'
  BY DEF TypeOK, Threads, InsertRegion, RemoveRegion
<1>2. /\ Claiming' = Claiming /\ Freeing' = Freeing /\ InRegion' = InRegion
      /\ Reserving' = Reserving /\ Filling' = Filling
      /\ pc'[Main] = pc[Main] /\ pc'[w] = "rem_items" /\ \A v \in Workers \ {w} : pc'[v] = pc[v]
  <2>1. pc' = [pc EXCEPT ![w] = "rem_items"]
    OBVIOUS
  <2>2. w \notin Claiming /\ w \notin InRegion /\ w \notin Freeing
    BY DEF Claiming, Freeing, InRegion, InsertRegion, RemoveRegion
  <2>3. Claiming \ {w} = Claiming /\ Freeing \ {w} = Freeing /\ InRegion \ {w} = InRegion
    BY <2>2
  <2>4. /\ Claiming' = Claiming \ {w} /\ Freeing' = Freeing \ {w} /\ InRegion' = InRegion \ {w}
        /\ Reserving' = Reserving /\ Filling' = Filling
        /\ pc'[Main] = pc[Main] /\ pc'[w] = "rem_items"
        /\ \A v \in Workers \ {w} : pc'[v] = pc[v]
    BY <2>1, WorkerStep DEF InsertRegion, RemoveRegion
  <2> QED BY <2>3, <2>4
<1>3. MutexExcludes'
  BY <1>2 DEF MutexExcludes
<1>4. SemaphoresCount'
  BY <1>2 DEF SemaphoresCount
<1>5. IndexIsCurrent'
  BY <1>2 DEF IndexIsCurrent, TypeOK, Threads
<1> QED BY <1>1, <1>3, <1>4, <1>5

LEMMA StutterInv == ASSUME Inv, UNCHANGED vars PROVE Inv'
  BY DEF Inv, vars, TypeOK, MutexExcludes, SemaphoresCount, IndexIsCurrent, InRegion,
         Claiming, Freeing, Reserving, Filling

LEMMA StepInv == Inv /\ [Next]_vars => Inv'
<1> SUFFICES ASSUME Inv, [Next]_vars PROVE Inv'
  OBVIOUS
<1>1. CASE \E f \in Fds : Accept(f)
  BY <1>1, AcceptInv
<1>2. CASE sbuf_insert
  BY <1>2, InsertWaitSlotInv, InsertLockInv, InsertIndexInv, InsertStoreInv,
     InsertUnlockInv, InsertAnnounceInv DEF sbuf_insert
<1>3. CASE \E w \in Workers : sbuf_remove(w)
  BY <1>3, RemoveWaitItemInv, RemoveLockInv, RemoveIndexInv, RemoveLoadInv,
     RemoveUnlockInv, RemoveAnnounceInv DEF sbuf_remove
<1>4. CASE \E w \in Workers : Close(w)
  BY <1>4, CloseInv
<1>5. CASE Quiescent \/ UNCHANGED vars
  BY <1>5, StutterInv DEF Quiescent
<1> QED BY <1>1, <1>2, <1>3, <1>4, <1>5 DEF Next

LEMMA Invariance == Spec => []Inv
  BY InitInv, StepInv, PTL DEF Spec
-----------------------------------------------------------------------------
(* Theorems                                                                *)

\* Every field of the buffer and every thread's local keeps its type; in
\* particular no semaphore of sbuf exceeds its initial range.
THEOREM TypeCorrect == Spec => []TypeOK
  BY Invariance, PTL DEF Inv

\* sbuf.mutex admits one thread at a time to front, rear and buf.
THEOREM MutualExclusion == Spec => []MutexExcludes
  BY Invariance, PTL DEF Inv

\* slots and items always account for every slot of the ring.
THEOREM SemaphoreBalance == Spec => []SemaphoresCount
  BY Invariance, PTL DEF Inv

\* sbuf_insert never stores over a connection no worker has loaded.
THEOREM NeverOverwrites == Spec => []NoOverwrite
<1>1. Inv => NoOverwrite
  <2> SUFFICES ASSUME Inv, pc[Main] = "ins_store", NEW i \in (Loaded + 1)..Stored
               PROVE  i % N # idx[Main]
    BY DEF NoOverwrite
  <2> USE SbufAssumption DEF Inv
  <2>1. ~ \E w \in Workers : pc[w] = "rem_load"
    BY DEF MutexExcludes, InRegion, InsertRegion, RemoveRegion, Threads
  <2>2. Loaded = front /\ Stored = rear - 1
    BY <2>1 DEF Loaded, Stored
  <2>3. rear - front <= N
    BY CountsAreNumbers DEF SemaphoresCount, TypeOK, Reserving
  <2>4. i \in Int /\ rear \in Int /\ i < rear /\ rear - i < N
    BY <2>2, <2>3 DEF TypeOK
  <2>5. i % N # rear % N
    BY <2>4, SlotsDiffer
  <2> QED BY <2>5 DEF IndexIsCurrent
<1> QED BY <1>1, Invariance, PTL
-----------------------------------------------------------------------------
(* Where the open connections are                                          *)

\* The positions of the ring whose connections wait for a worker, and these.
Positions == (Loaded + 1)..Stored
Conn == [i \in Positions |-> buf[i % N]]

\* A thread holds a descriptor exactly at these places of its code.
HandsMatchCode ==
    /\ fd[Main] # NoFd <=> pc[Main] \in {"ins_slots", "ins_mutex", "ins_index", "ins_store"}
    /\ \A w \in Workers :
          fd[w] # NoFd <=> pc[w] \in {"rem_unlock", "rem_slots", "serve"}

\* The open descriptors are the held and the waiting ones, each in one place.
HeldOnce == \A t, u \in Threads : fd[t] # NoFd /\ fd[t] = fd[u] => t = u
WaitsOnce == \A i, j \in Positions : Conn[i] = Conn[j] => i = j
HeldOrWaits == \A t \in Threads, i \in Positions : fd[t] # Conn[i]
PlacedIsOpen == /\ \A t \in Threads : fd[t] # NoFd => fd[t] \in open
                /\ \A i \in Positions : Conn[i] \in open
OpenIsPlaced == \A f \in open : \/ \E t \in Threads : fd[t] = f
                               \/ \E i \in Positions : Conn[i] = f
Placed == HeldOnce /\ WaitsOnce /\ HeldOrWaits /\ PlacedIsOpen /\ OpenIsPlaced

DataInv == Inv /\ HandsMatchCode /\ Placed

\* The ends of the waiting connections: never more than N apart, less than N
\* while main is about to store, at least one while a worker is about to
\* load, and both of these never at once.
LEMMA Ends ==
    ASSUME Inv
    PROVE  /\ Loaded \in Int /\ Stored \in Int
           /\ Stored - Loaded \in 0..N
           /\ pc[Main] = "ins_store" =>
                /\ Stored + 1 = rear /\ Loaded = front /\ Stored - Loaded < N
                /\ idx[Main] = (Stored + 1) % N
           /\ \A w \in Workers : pc[w] = "rem_load" =>
                /\ Loaded + 1 = front /\ Stored = rear /\ Stored - Loaded > 0
                /\ idx[w] = (Loaded + 1) % N
<1> USE SbufAssumption DEF Inv
<1>1. /\ front \in Int /\ rear \in Int /\ items \in 0..N /\ slots \in 0..N /\ N \in Nat
      /\ Reserving \in 0..1 /\ Filling \in 0..1
      /\ Cardinality(Claiming) \in Nat /\ Cardinality(Freeing) \in Nat
  BY CountsAreNumbers DEF TypeOK, Reserving, Filling
<1>2. SemaphoresCount /\ IndexIsCurrent
  OBVIOUS
<1>3. CASE pc[Main] = "ins_store"
  <2>1. ~ \E w \in Workers : pc[w] = "rem_load"
    BY <1>3 DEF MutexExcludes, InRegion, InsertRegion, RemoveRegion, Threads
  <2>2. Loaded = front /\ Stored = rear - 1 /\ Filling = 1
    BY <1>3, <2>1 DEF Loaded, Stored, Filling
  <2>3. idx[Main] = rear % N
    BY <1>2, <1>3 DEF IndexIsCurrent
  <2> HIDE DEF Inv
  <2>4. Stored - Loaded \in 0..N /\ Stored - Loaded < N /\ Stored + 1 = rear
    BY <1>1, <1>2, <2>2 DEF SemaphoresCount
  <2> QED BY <1>1, <2>1, <2>2, <2>3, <2>4
<1>4. CASE \E w \in Workers : pc[w] = "rem_load"
  <2>0. PICK w \in Workers : pc[w] = "rem_load"
    BY <1>4
  <2>1. pc[Main] # "ins_store"
    BY <2>0 DEF MutexExcludes, InRegion, InsertRegion, RemoveRegion, Threads
  <2>2. Loaded = front - 1 /\ Stored = rear
    BY <2>0, <2>1 DEF Loaded, Stored
  <2>3. w \in Freeing
    BY <2>0 DEF Freeing
  <2>4. Cardinality(Freeing) # 0
    BY <2>3, CountsAreNumbers, FS_EmptySet
  <2>5. \A v \in Workers : pc[v] = "rem_load" => idx[v] = front % N
    BY <1>2 DEF IndexIsCurrent
  <2> HIDE DEF Inv
  <2>6. Stored - Loaded \in 0..N /\ Stored - Loaded > 0 /\ Loaded + 1 = front
    BY <1>1, <1>2, <2>2, <2>4 DEF SemaphoresCount
  <2> QED BY <1>1, <2>1, <2>2, <2>5, <2>6
<1>5. CASE pc[Main] # "ins_store" /\ ~ \E w \in Workers : pc[w] = "rem_load"
  <2>1. Loaded = front /\ Stored = rear
    BY <1>5 DEF Loaded, Stored
  <2> HIDE DEF Inv
  <2>2. Stored - Loaded \in 0..N
    BY <1>1, <1>2, <2>1 DEF SemaphoresCount
  <2> QED BY <1>1, <1>5, <2>1, <2>2
<1> QED BY <1>3, <1>4, <1>5

\* The steps that move neither end, no waiting connection and nothing held.
LEMMA EndsStay ==
    ASSUME Inv, Next, ~ InsertStore, \A w \in Workers : ~ RemoveLoad(w)
    PROVE  /\ Loaded' = Loaded /\ Stored' = Stored /\ buf' = buf
           /\ Positions' = Positions /\ Conn' = Conn
<1> DEFINE Stay == Loaded' = Loaded /\ Stored' = Stored /\ buf' = buf
<1> SUFFICES Stay
  BY DEF Positions, Conn
<1> USE SbufAssumption DEF Inv
<1>0. front \in Int /\ rear \in Int
  BY DEF TypeOK
<1>1. CASE InsertIndex
  <2>1. /\ pc'[Main] = "ins_store" /\ \A w \in Workers : pc'[w] = pc[w] /\ pc[w] # "rem_load"
    BY ZenonT(40), <1>1, MainStep DEF InsertIndex, Goto, MutexExcludes, InRegion, InsertRegion,
                          RemoveRegion, Threads
  <2>2. front' = front /\ rear' = rear + 1 /\ buf' = buf /\ pc[Main] = "ins_index"
    BY <1>1 DEF InsertIndex, Goto
  <2> QED BY <1>0, <2>1, <2>2 DEF Loaded, Stored
<1>2. ASSUME NEW w \in Workers, RemoveIndex(w) PROVE Stay
  <2>0. pc'[Main] = pc[Main] /\ pc'[w] = "rem_load"
    BY <1>2, WorkerStep DEF RemoveIndex, Goto
  <2>1. \A v \in Workers : pc[v] # "rem_load"
    BY <1>2 DEF RemoveIndex, Goto, MutexExcludes, InRegion, RemoveRegion, Threads
  <2>2. front' = front + 1 /\ rear' = rear /\ buf' = buf
    BY <1>2 DEF RemoveIndex
  <2> QED BY <1>0, <2>0, <2>1, <2>2 DEF Loaded, Stored
<1>3. ASSUME NEW x, pc' = [pc EXCEPT ![Main] = x], x # "ins_store", pc[Main] # "ins_store",
             UNCHANGED <<buf, front, rear>>
      PROVE  Stay
  <2>1. pc'[Main] = x /\ \A w \in Workers : pc'[w] = pc[w]
    BY <1>3, MainStep
  <2> QED BY <1>3, <2>1 DEF Loaded, Stored
<1>4. ASSUME NEW w \in Workers, NEW x, pc' = [pc EXCEPT ![w] = x], x # "rem_load",
             pc[w] # "rem_load", UNCHANGED <<buf, front, rear>>
      PROVE  Stay
  <2>1. pc'[Main] = pc[Main] /\ pc'[w] = x /\ \A v \in Workers \ {w} : pc'[v] = pc[v]
    BY <1>4, WorkerStep
  <2> QED BY <1>4, <2>1 DEF Loaded, Stored
<1>5. CASE \E f \in Fds : Accept(f)
  BY <1>3, <1>5 DEF Accept, Goto, sbuf
<1>6. CASE InsertWaitSlot \/ InsertLock \/ InsertUnlock \/ InsertAnnounce
  BY <1>3, <1>6 DEF InsertWaitSlot, InsertLock, InsertUnlock, InsertAnnounce, Goto
<1>7. ASSUME NEW w \in Workers, \/ RemoveWaitItem(w) \/ RemoveLock(w) \/ RemoveUnlock(w)
                                \/ RemoveAnnounce(w) \/ Close(w)
      PROVE  Stay
  BY <1>4, <1>7 DEF RemoveWaitItem, RemoveLock, RemoveUnlock, RemoveAnnounce, Close, Goto, sbuf
<1>8. CASE Quiescent
  BY <1>8 DEF Quiescent, vars, Loaded, Stored
<1> QED BY <1>1, <1>2, <1>5, <1>6, <1>7, <1>8 DEF Next, sbuf_insert, sbuf_remove

\* A slot number is a slot, and a thread's descriptor is one or NoFd.
LEMMA Slots ==
    ASSUME Inv, NEW i \in Int
    PROVE  i % N \in 0..(N - 1) /\ buf[i % N] \in Fds \cup {NoFd}
<1> USE SbufAssumption DEF Inv
<1>1. i % N \in 0..(N - 1)
  BY DivMod
<1> QED BY <1>1 DEF TypeOK

\* main stores its descriptor at the position behind the last one.
LEMMA Storing ==
    ASSUME DataInv, InsertStore
    PROVE  /\ Loaded' = Loaded /\ Stored' = Stored + 1
           /\ Positions' = Positions \cup {Stored + 1} /\ Stored + 1 \notin Positions
           /\ \A i \in Positions : Conn'[i] = Conn[i]
           /\ Conn'[Stored + 1] = fd[Main]
<1> USE SbufAssumption DEF DataInv
<1>0. pc[Main] = "ins_store" /\ TypeOK /\ pc' = [pc EXCEPT ![Main] = "ins_unlock"]
  BY DEF Inv, InsertStore, Goto
<1>1. /\ Loaded \in Int /\ Stored \in Int /\ Stored - Loaded \in 0..N
      /\ Stored + 1 = rear /\ Loaded = front /\ Stored - Loaded < N
      /\ idx[Main] = (Stored + 1) % N
  BY <1>0, Ends
<1>2. pc'[Main] = "ins_unlock" /\ \A w \in Workers : pc'[w] = pc[w]
  BY <1>0, MainStep
<1>3. front' = front /\ rear' = rear /\ buf' = [buf EXCEPT ![idx[Main]] = fd[Main]]
  BY DEF InsertStore
<1>4. ~ \E w \in Workers : pc[w] = "rem_load"
  BY <1>0 DEF Inv, MutexExcludes, InRegion, InsertRegion, RemoveRegion, Threads
<1>5. Loaded' = front /\ Stored' = rear
  BY <1>2, <1>3, <1>4 DEF Loaded, Stored
<1>6. Positions' = Positions \cup {Stored + 1} /\ Stored + 1 \notin Positions
  BY <1>1, <1>5 DEF Positions
<1> DEFINE s == Stored + 1
<1>7. s \in Int /\ \A i \in Positions : i \in Int /\ i < s /\ s - i < N
  BY <1>1 DEF Positions
<1>8. s % N = idx[Main] /\ \A i \in Positions' : Conn'[i] = buf'[i % N]
  BY <1>1 DEF Conn
<1> HIDE DEF s, DataInv
<1>9. s % N \in 0..(N - 1) /\ \A i \in Positions : i % N \in 0..(N - 1) /\ i % N # s % N
  BY <1>7, DivMod, SlotsDiffer
<1>10. buf \in [0..(N - 1) -> Fds \cup {NoFd}]
  BY <1>0 DEF TypeOK
<1>11. Conn'[s] = fd[Main]
  BY <1>3, <1>6, <1>8, <1>9, <1>10 DEF s
<1>12. ASSUME NEW i \in Positions PROVE Conn'[i] = Conn[i]
  <2>1. Conn'[i] = buf'[i % N] /\ Conn[i] = buf[i % N]
    BY <1>6, <1>8 DEF Conn
  <2> QED BY <1>3, <1>8, <1>9, <1>10, <2>1
<1> QED BY <1>1, <1>5, <1>6, <1>11, <1>12 DEF s

\* A worker loads the oldest waiting connection.
LEMMA Loading ==
    ASSUME DataInv, NEW w \in Workers, RemoveLoad(w)
    PROVE  /\ Loaded' = Loaded + 1 /\ Stored' = Stored /\ buf' = buf
           /\ Loaded + 1 \in Positions /\ Positions' = Positions \ {Loaded + 1}
           /\ \A i \in Positions' : Conn'[i] = Conn[i]
           /\ fd[w] = NoFd /\ fd' = [fd EXCEPT ![w] = Conn[Loaded + 1]]
<1> USE SbufAssumption DEF DataInv
<1>0. pc[w] = "rem_load" /\ TypeOK /\ pc' = [pc EXCEPT ![w] = "rem_unlock"]
  BY DEF Inv, RemoveLoad, Goto
<1>1. /\ Loaded \in Int /\ Stored \in Int
      /\ Loaded + 1 = front /\ Stored = rear /\ Stored - Loaded > 0
      /\ idx[w] = (Loaded + 1) % N
  BY <1>0, Ends
<1>2. pc'[Main] = pc[Main] /\ pc'[w] = "rem_unlock" /\ \A v \in Workers \ {w} : pc'[v] = pc[v]
  BY <1>0, WorkerStep
<1>3. UNCHANGED <<buf, front, rear>> /\ fd' = [fd EXCEPT ![w] = buf[idx[w]]]
  BY DEF RemoveLoad, sbuf
<1>4. /\ pc[Main] # "ins_store"
      /\ \A v \in Workers : pc[v] = "rem_load" => v = w
  BY <1>0 DEF Inv, MutexExcludes, InRegion, InsertRegion, RemoveRegion, Threads
<1>5. Loaded' = front /\ Stored' = rear
  BY <1>2, <1>3, <1>4 DEF Loaded, Stored
<1>6. Loaded + 1 \in Positions /\ Positions' = Positions \ {Loaded + 1}
  BY <1>1, <1>5 DEF Positions
<1>7. fd[w] = NoFd
  BY <1>0 DEF HandsMatchCode
<1>8. Conn[Loaded + 1] = buf[idx[w]] /\ \A i \in Positions' : Conn'[i] = Conn[i]
  BY <1>1, <1>3, <1>6 DEF Conn
<1> QED BY <1>1, <1>3, <1>5, <1>6, <1>7, <1>8

LEMMA AcceptData ==
    ASSUME DataInv, NEW f \in Fds, Accept(f)
    PROVE  HandsMatchCode' /\ Placed'
<1> USE SbufAssumption DEF DataInv
<1>1. /\ TypeOK /\ pc[Main] = "accept" /\ pc' = [pc EXCEPT ![Main] = "ins_slots"]
      /\ f \notin open /\ open' = open \cup {f} /\ fd' = [fd EXCEPT ![Main] = f]
  BY DEF Inv, Accept, Goto
<1>2. pc'[Main] = "ins_slots" /\ \A w \in Workers : pc'[w] = pc[w]
  BY <1>1, MainStep
<1>3. /\ fd[Main] = NoFd /\ f # NoFd
      /\ fd'[Main] = f /\ \A t \in Threads \ {Main} : fd'[t] = fd[t]
  BY <1>1 DEF HandsMatchCode, TypeOK, Threads
<1>4. Positions' = Positions /\ Conn' = Conn
  <2>1. Next /\ ~ InsertStore /\ \A w \in Workers : ~ RemoveLoad(w)
    BY <1>1, <1>2 DEF Next, InsertStore, RemoveLoad, Goto, TypeOK, RemoveRegion
  <2> QED BY <2>1, EndsStay
<1>5. HandsMatchCode'
  BY <1>2, <1>3 DEF HandsMatchCode, Threads
<1>7. Main \in Threads
  BY DEF Threads
<1>8. Placed'
  <2> USE <1>1, <1>3, <1>4, <1>7
  <2>1. HeldOnce'
    BY DEF Placed, HeldOnce, HeldOrWaits, PlacedIsOpen
  <2>2. WaitsOnce'
    BY DEF Placed, WaitsOnce, HeldOrWaits
  <2>3. HeldOrWaits'
    BY DEF Placed, HeldOnce, HeldOrWaits, WaitsOnce, PlacedIsOpen
  <2>4. PlacedIsOpen'
    BY DEF Placed, PlacedIsOpen, HeldOnce, HeldOrWaits
  <2>5. OpenIsPlaced'
    <3> SUFFICES ASSUME NEW g \in open'
                 PROVE  (\E t \in Threads : fd'[t] = g) \/ (\E i \in Positions : Conn[i] = g)
      BY DEF OpenIsPlaced
    <3>1. CASE g = f
      BY <3>1
    <3>2. CASE \E t \in Threads \ {Main} : fd[t] = g
      BY <3>2
    <3>3. g # NoFd
      BY DEF TypeOK
    <3> QED BY <3>1, <3>2, <3>3 DEF Placed, OpenIsPlaced
  <2> QED BY <2>1, <2>2, <2>3, <2>4, <2>5 DEF Placed
<1> QED BY <1>5, <1>8

LEMMA InsertStoreData ==
    ASSUME DataInv, InsertStore
    PROVE  HandsMatchCode' /\ Placed'
<1> USE SbufAssumption DEF DataInv
<1>1. /\ TypeOK /\ pc[Main] = "ins_store" /\ pc' = [pc EXCEPT ![Main] = "ins_unlock"]
      /\ open' = open /\ fd' = [fd EXCEPT ![Main] = NoFd]
  BY DEF Inv, InsertStore, Goto
<1>2. pc'[Main] = "ins_unlock" /\ \A w \in Workers : pc'[w] = pc[w]
  BY <1>1, MainStep
<1>3. /\ fd[Main] # NoFd /\ Main \in Threads
      /\ fd'[Main] = NoFd /\ \A t \in Threads \ {Main} : fd'[t] = fd[t]
  BY <1>1 DEF HandsMatchCode, TypeOK, Threads
<1>4. HandsMatchCode'
  BY <1>2, <1>3 DEF HandsMatchCode, Threads
<1>5. NoFd \notin open
  BY <1>1 DEF TypeOK
<1>6. Placed'
  <2>0. /\ Positions' = Positions \cup {Stored + 1}
        /\ \A i \in Positions : Conn'[i] = Conn[i]
        /\ Conn'[Stored + 1] = fd[Main]
    BY Storing
  <2> USE <1>1, <1>3, <1>5, <2>0
  <2>1. HeldOnce'
    BY DEF Placed, HeldOnce, HeldOrWaits, PlacedIsOpen
  <2>2. WaitsOnce'
    BY DEF Placed, WaitsOnce, HeldOrWaits
  <2>3. HeldOrWaits'
    BY DEF Placed, HeldOnce, HeldOrWaits, WaitsOnce, PlacedIsOpen
  <2>4. PlacedIsOpen'
    BY DEF Placed, PlacedIsOpen, HeldOnce, HeldOrWaits
  <2>5. OpenIsPlaced'
    <3> SUFFICES ASSUME NEW g \in open
                 PROVE  (\E t \in Threads : fd'[t] = g) \/ (\E i \in Positions' : Conn'[i] = g)
      BY DEF OpenIsPlaced
    <3>1. CASE g = fd[Main]
      BY <3>1
    <3>2. CASE \E t \in Threads \ {Main} : fd[t] = g
      BY <3>2
    <3>3. CASE \E i \in Positions : Conn[i] = g
      BY <3>3
    <3> QED BY <3>1, <3>2, <3>3 DEF Placed, OpenIsPlaced
  <2> QED BY <2>1, <2>2, <2>3, <2>4, <2>5 DEF Placed
<1> QED BY <1>4, <1>6

LEMMA RemoveLoadData ==
    ASSUME DataInv, NEW w \in Workers, RemoveLoad(w)
    PROVE  HandsMatchCode' /\ Placed'
<1> USE SbufAssumption DEF DataInv
<1>1. /\ TypeOK /\ pc[w] = "rem_load" /\ pc' = [pc EXCEPT ![w] = "rem_unlock"]
      /\ open' = open
  BY DEF Inv, RemoveLoad, Goto
<1>2. pc'[Main] = pc[Main] /\ pc'[w] = "rem_unlock" /\ \A v \in Workers \ {w} : pc'[v] = pc[v]
  BY <1>1, WorkerStep
<1> DEFINE f == Conn[Loaded + 1]
<1>3. f \in open /\ f # NoFd
  BY <1>1, Loading DEF Placed, PlacedIsOpen, TypeOK
<1>4. /\ w \in Threads /\ fd[w] = NoFd
      /\ fd'[w] = f /\ \A t \in Threads \ {w} : fd'[t] = fd[t]
  BY <1>1, Loading DEF TypeOK, Threads
<1>5. HandsMatchCode'
  BY <1>2, <1>3, <1>4 DEF HandsMatchCode, Threads
<1>6. /\ Loaded + 1 \in Positions /\ Positions' = Positions \ {Loaded + 1}
      /\ \A i \in Positions' : Conn'[i] = Conn[i]
  BY Loading
<1>7. Placed'
  <2> USE <1>1, <1>3, <1>4, <1>6
  <2>1. HeldOnce'
    BY DEF Placed, HeldOnce, HeldOrWaits, PlacedIsOpen
  <2>2. WaitsOnce'
    BY DEF Placed, WaitsOnce, HeldOrWaits
  <2>3. HeldOrWaits'
    BY DEF Placed, HeldOnce, HeldOrWaits, WaitsOnce, PlacedIsOpen
  <2>4. PlacedIsOpen'
    BY DEF Placed, PlacedIsOpen, HeldOnce, HeldOrWaits
  <2>5. OpenIsPlaced'
    <3> SUFFICES ASSUME NEW g \in open
                 PROVE  (\E t \in Threads : fd'[t] = g) \/ (\E i \in Positions' : Conn'[i] = g)
      BY DEF OpenIsPlaced
    <3>1. CASE g = f
      BY <3>1
    <3>2. CASE \E t \in Threads \ {w} : fd[t] = g
      BY <3>2
    <3>3. CASE \E i \in Positions \ {Loaded + 1} : Conn[i] = g
      BY <3>3
    <3>4. g # NoFd
      BY DEF TypeOK
    <3> QED BY <3>1, <3>2, <3>3, <3>4 DEF Placed, OpenIsPlaced
  <2> QED BY <2>1, <2>2, <2>3, <2>4, <2>5 DEF Placed
<1> QED BY <1>5, <1>7

LEMMA CloseData ==
    ASSUME DataInv, NEW w \in Workers, Close(w)
    PROVE  HandsMatchCode' /\ Placed'
<1> USE SbufAssumption DEF DataInv
<1>1. /\ TypeOK /\ pc[w] = "serve" /\ pc' = [pc EXCEPT ![w] = "rem_items"]
      /\ open' = open \ {fd[w]} /\ fd' = [fd EXCEPT ![w] = NoFd]
  BY DEF Inv, Close, Goto
<1>2. pc'[Main] = pc[Main] /\ pc'[w] = "rem_items" /\ \A v \in Workers \ {w} : pc'[v] = pc[v]
  BY <1>1, WorkerStep
<1>3. /\ w \in Threads /\ fd[w] # NoFd /\ NoFd \notin open
      /\ fd'[w] = NoFd /\ \A t \in Threads \ {w} : fd'[t] = fd[t]
  BY <1>1 DEF HandsMatchCode, TypeOK, Threads
<1>4. Positions' = Positions /\ Conn' = Conn
  <2>1. Next /\ ~ InsertStore /\ \A v \in Workers : ~ RemoveLoad(v)
    BY <1>1, <1>2, SbufAssumption DEF Next, InsertStore, RemoveLoad, Goto
  <2> QED BY <2>1, EndsStay
<1>5. HandsMatchCode'
  BY <1>2, <1>3 DEF HandsMatchCode, Threads
<1>6. Placed'
  <2> USE <1>1, <1>3, <1>4
  <2>1. HeldOnce'
    BY DEF Placed, HeldOnce, HeldOrWaits, PlacedIsOpen
  <2>2. WaitsOnce'
    BY DEF Placed, WaitsOnce, HeldOrWaits
  <2>3. HeldOrWaits'
    BY DEF Placed, HeldOnce, HeldOrWaits, WaitsOnce, PlacedIsOpen
  <2>4. PlacedIsOpen'
    BY DEF Placed, PlacedIsOpen, HeldOnce, HeldOrWaits
  <2>5. OpenIsPlaced'
    <3> SUFFICES ASSUME NEW g \in open'
                 PROVE  (\E t \in Threads : fd'[t] = g) \/ (\E i \in Positions : Conn[i] = g)
      BY DEF OpenIsPlaced
    <3>1. CASE \E t \in Threads \ {w} : fd[t] = g
      BY <3>1
    <3> QED BY <3>1 DEF Placed, OpenIsPlaced
  <2> QED BY <2>1, <2>2, <2>3, <2>4, <2>5 DEF Placed
<1> QED BY <1>5, <1>6

\* The other steps move no descriptor.
LEMMA OtherData ==
    ASSUME DataInv, Next, UNCHANGED <<fd, open>>,
           ~ InsertStore, \A w \in Workers : ~ RemoveLoad(w)
    PROVE  HandsMatchCode' /\ Placed'
<1> USE SbufAssumption DEF DataInv
<1>0. TypeOK
  BY DEF Inv
<1>1. Placed'
  BY EndsStay DEF Placed, HeldOnce, WaitsOnce, HeldOrWaits, PlacedIsOpen, OpenIsPlaced
<1> SUFFICES HandsMatchCode'
  BY <1>1
<1>2. CASE sbuf_insert
  <2>1. PICK x : /\ pc' = [pc EXCEPT ![Main] = x]
                 /\ pc[Main] \in {"ins_slots", "ins_mutex", "ins_index", "ins_store"}
                    <=> x \in {"ins_slots", "ins_mutex", "ins_index", "ins_store"}
    BY <1>2 DEF sbuf_insert, InsertWaitSlot, InsertLock, InsertIndex, InsertUnlock,
                InsertAnnounce, Goto
  <2> QED BY <1>0, <2>1, MainStep DEF HandsMatchCode
<1>3. ASSUME NEW w \in Workers, sbuf_remove(w) PROVE HandsMatchCode'
  <2>1. PICK x : /\ pc' = [pc EXCEPT ![w] = x]
                 /\ pc[w] \in {"rem_unlock", "rem_slots", "serve"}
                    <=> x \in {"rem_unlock", "rem_slots", "serve"}
    BY <1>3 DEF sbuf_remove, RemoveWaitItem, RemoveLock, RemoveIndex, RemoveUnlock,
                RemoveAnnounce, Goto
  <2> QED BY <1>0, <2>1, WorkerStep DEF HandsMatchCode
<1>4. CASE Quiescent
  BY <1>4 DEF Quiescent, vars, HandsMatchCode
<1>5. ~ \E f \in Fds : Accept(f)
  BY <1>0 DEF Accept, TypeOK
<1>6. ASSUME NEW w \in Workers, Close(w) PROVE FALSE
  BY <1>0, <1>6 DEF Close, Goto, HandsMatchCode, TypeOK, Threads
<1> QED BY <1>1, <1>2, <1>3, <1>4, <1>5, <1>6 DEF Next

LEMMA DataInvariance == Spec => []DataInv
<1>1. Init => DataInv
  <2> SUFFICES ASSUME Init PROVE DataInv
    OBVIOUS
  <2> USE SbufAssumption
  <2>1. Inv
    BY InitInv
  <2>2. HandsMatchCode
    BY DEF Init, HandsMatchCode, Threads
  <2>3. Loaded = 0 /\ Stored = 0
    BY DEF Init, Loaded, Stored, Threads
  <2>4. Positions = {}
    BY <2>3 DEF Positions
  <2>5. Placed
    BY <2>4 DEF Init, Placed, HeldOnce, WaitsOnce, HeldOrWaits, PlacedIsOpen, OpenIsPlaced
  <2> QED BY <2>1, <2>2, <2>5 DEF DataInv
<1>2. DataInv /\ [Next]_vars => DataInv'
  <2> SUFFICES ASSUME DataInv, [Next]_vars PROVE HandsMatchCode' /\ Placed'
    BY StepInv DEF DataInv
  <2>1. CASE InsertStore
    BY <2>1, InsertStoreData
  <2>2. CASE \E w \in Workers : RemoveLoad(w)
    BY <2>2, RemoveLoadData
  <2>3. CASE \E f \in Fds : Accept(f)
    BY <2>3, AcceptData
  <2>4. CASE \E w \in Workers : Close(w)
    BY <2>4, CloseData
  <2>5. CASE UNCHANGED vars
    <3>1. Positions' = Positions /\ Conn' = Conn
      BY <2>5 DEF vars, Positions, Conn, Loaded, Stored
    <3> QED BY <2>5, <3>1 DEF vars, DataInv, HandsMatchCode, Placed, HeldOnce, WaitsOnce,
                              HeldOrWaits, PlacedIsOpen, OpenIsPlaced
  <2>6. CASE Next /\ UNCHANGED <<fd, open>>
    BY <2>1, <2>2, <2>6, OtherData
  <2>7. ASSUME Next, ~ InsertStore, \A w \in Workers : ~ RemoveLoad(w) /\ ~ Close(w),
               \A f \in Fds : ~ Accept(f)
        PROVE  UNCHANGED <<fd, open>>
    BY <2>7 DEF Next, sbuf_insert, sbuf_remove, Quiescent, vars, sbuf, InsertWaitSlot,
                InsertLock, InsertIndex, InsertUnlock, InsertAnnounce, RemoveWaitItem,
                RemoveLock, RemoveIndex, RemoveUnlock, RemoveAnnounce
  <2> QED BY <2>1, <2>2, <2>3, <2>4, <2>5, <2>6, <2>7
<1> QED BY <1>1, <1>2, PTL DEF Spec

\* The waiting connections as a sequence, oldest first.
QueueIsConn ==
    /\ Queue \in Seq(Fds) /\ Len(Queue) = Stored - Loaded
    /\ \A i \in 1..(Stored - Loaded) :
          Loaded + i \in Positions /\ Queue[i] = Conn[Loaded + i]

LEMMA QueueFollowsRing == DataInv => QueueIsConn
<1> SUFFICES ASSUME DataInv PROVE QueueIsConn
  OBVIOUS
<1>1. Loaded \in Int /\ Stored \in Int /\ Stored - Loaded \in 0..N /\ N \in Nat
  BY Ends, SbufAssumption DEF DataInv
<1>2. open \subseteq Fds /\ \A i \in Positions : Conn[i] \in open
  BY DEF DataInv, Inv, TypeOK, Placed, PlacedIsOpen
<1>3. \A i \in 1..(Stored - Loaded) : Loaded + i \in Positions /\ Queue[i] = Conn[Loaded + i]
  BY <1>1 DEF Queue, Conn, Positions
<1>4. Queue \in [1..(Stored - Loaded) -> Fds]
  BY <1>2, <1>3 DEF Queue
<1>5. Queue \in Seq(Fds) /\ Len(Queue) = Stored - Loaded
  BY <1>1, <1>4
<1> QED BY <1>3, <1>5 DEF QueueIsConn

LEMMA StoringAppends ==
    ASSUME DataInv, DataInv', InsertStore
    PROVE  Queue' = Append(Queue, fd[Main])
<1> DEFINE n == Stored - Loaded
<1>1. /\ Queue \in Seq(Fds) /\ Len(Queue) = n
      /\ \A i \in 1..n : Loaded + i \in Positions /\ Queue[i] = Conn[Loaded + i]
  BY QueueFollowsRing DEF QueueIsConn
<1>2. /\ Queue' \in Seq(Fds) /\ Len(Queue') = n'
      /\ \A i \in 1..n' : Queue'[i] = Conn'[Loaded' + i]
  <2>1. QueueIsConn'
    BY QueueFollowsRing, PTL
  <2> QED BY <2>1 DEF QueueIsConn
<1>3. /\ Loaded' = Loaded /\ Stored' = Stored + 1
      /\ \A i \in Positions : Conn'[i] = Conn[i]
      /\ Conn'[Stored + 1] = fd[Main]
  BY Storing
<1>4. Loaded \in Int /\ Stored \in Int /\ n \in Nat
  BY Ends, SbufAssumption DEF DataInv
<1>5. n' = n + 1 /\ Loaded + n' = Stored + 1
  BY <1>3, <1>4
<1> HIDE DEF n
<1>6. \A i \in 1..n : Queue'[i] = Queue[i]
  BY <1>1, <1>2, <1>3, <1>4, <1>5
<1>7. Queue'[n + 1] = fd[Main]
  BY <1>2, <1>3, <1>4, <1>5
<1> QED BY <1>1, <1>2, <1>4, <1>5, <1>6, <1>7

LEMMA LoadingTakesFirst ==
    ASSUME DataInv, DataInv', NEW w \in Workers, RemoveLoad(w)
    PROVE  /\ Queue # <<>> /\ Queue' = Tail(Queue)
           /\ fd[w] = NoFd /\ fd' = [fd EXCEPT ![w] = Head(Queue)]
<1> DEFINE n == Stored - Loaded
<1>1. /\ Queue \in Seq(Fds) /\ Len(Queue) = n
      /\ \A i \in 1..n : Loaded + i \in Positions /\ Queue[i] = Conn[Loaded + i]
  BY QueueFollowsRing DEF QueueIsConn
<1>2. /\ Queue' \in Seq(Fds) /\ Len(Queue') = n'
      /\ \A i \in 1..n' : Loaded' + i \in Positions' /\ Queue'[i] = Conn'[Loaded' + i]
  <2>1. QueueIsConn'
    BY QueueFollowsRing, PTL
  <2> QED BY <2>1 DEF QueueIsConn
<1>3. /\ Loaded' = Loaded + 1 /\ Stored' = Stored /\ Loaded + 1 \in Positions
      /\ \A i \in Positions' : Conn'[i] = Conn[i]
      /\ fd[w] = NoFd /\ fd' = [fd EXCEPT ![w] = Conn[Loaded + 1]]
  BY Loading
<1>4. Loaded \in Int /\ Stored \in Int /\ n \in Nat
  BY Ends, SbufAssumption DEF DataInv
<1>5. n' = n - 1 /\ n > 0
  BY <1>3, <1>4 DEF Positions
<1> HIDE DEF n
<1>6. \A i \in 1..(n - 1) : Queue'[i] = Queue[i + 1]
  <2> SUFFICES ASSUME NEW i \in 1..(n - 1) PROVE Queue'[i] = Queue[i + 1]
    OBVIOUS
  <2>1. Queue'[i] = Conn[Loaded + 1 + i] /\ Loaded + (i + 1) = Loaded + 1 + i
    BY <1>2, <1>3, <1>4, <1>5
  <2> QED BY <1>1, <1>4, <1>5, <2>1
<1>7. Queue' = Tail(Queue)
  BY <1>1, <1>2, <1>4, <1>5, <1>6
<1>8. Queue # <<>> /\ Head(Queue) = Conn[Loaded + 1]
  BY <1>1, <1>4, <1>5
<1> QED BY <1>3, <1>7, <1>8

\* Each step of the buffer is one of the queue's, or none.
LEMMA StepRefines ==
    ASSUME DataInv, DataInv', [Next]_vars
    PROVE  [Abstract!Next]_(Abstract!vars)
<1> USE SbufAssumption
<1> DEFINE holds == [w \in Workers |-> fd[w]]
<1>0. TypeOK
  BY DEF DataInv, Inv
<1>1. CASE InsertStore
  <2>1. Queue' = Append(Queue, fd[Main])
    BY <1>1, StoringAppends
  <2>2. fd' = [fd EXCEPT ![Main] = NoFd] /\ pc[Main] = "ins_store"
    BY <1>1 DEF InsertStore, Goto
  <2>3. holds' = holds
    BY <1>0, <2>2 DEF TypeOK, Threads
  <2>4. fd[Main] \in Fds
    BY <1>0, <2>2 DEF DataInv, HandsMatchCode, TypeOK, Threads
  <2>5. Len(Queue) < N
    BY <2>2, Ends, QueueFollowsRing DEF DataInv, QueueIsConn
  <2>6. \A i \in 1..Len(Queue) : Queue[i] # fd[Main]
    BY <2>4, QueueFollowsRing DEF QueueIsConn, DataInv, Placed, HeldOrWaits, Threads
  <2>7. \A w \in Workers : fd[w] # fd[Main]
    BY <2>4 DEF DataInv, Placed, HeldOnce, Threads
  <2>8. Abstract!Offer(fd[Main])
    BY <2>1, <2>3, <2>5, <2>6, <2>7 DEF Abstract!Offer, Abstract!Waiting, Abstract!Served
  <2> QED BY <2>4, <2>8 DEF Abstract!Next
<1>2. ASSUME NEW w \in Workers, RemoveLoad(w) PROVE Abstract!Take(w)
  <2>1. /\ Queue # <<>> /\ Queue' = Tail(Queue)
        /\ fd[w] = NoFd /\ fd' = [fd EXCEPT ![w] = Head(Queue)]
    BY <1>2, LoadingTakesFirst
  <2>2. holds' = [holds EXCEPT ![w] = Head(Queue)]
    BY <1>0, <2>1 DEF TypeOK, Threads
  <2> QED BY <2>1, <2>2 DEF Abstract!Take
<1>3. ASSUME NEW w \in Workers, Close(w) PROVE Abstract!Release(w)
  <2>1. fd' = [fd EXCEPT ![w] = NoFd] /\ pc[w] = "serve" /\ fd[w] # NoFd
    BY <1>3 DEF Close, Goto, DataInv, HandsMatchCode
  <2>2. holds' = [holds EXCEPT ![w] = NoFd]
    BY <1>0, <2>1 DEF TypeOK, Threads
  <2>3. ~ InsertStore /\ \A v \in Workers : ~ RemoveLoad(v)
    BY <1>0, <2>1, <1>3 DEF Close, InsertStore, RemoveLoad, Goto, TypeOK, Threads
  <2>4. Queue' = Queue
    <3>1. Next
      BY <1>3 DEF Next
    <3> QED BY <2>3, <3>1, EndsStay DEF DataInv, Queue
  <2> QED BY <2>1, <2>2, <2>4 DEF Abstract!Release
<1>4. CASE /\ Next /\ ~ InsertStore
           /\ \A w \in Workers : ~ RemoveLoad(w) /\ ~ Close(w)
  <2>1. Queue' = Queue
    BY <1>4, EndsStay DEF DataInv, Queue
  <2>2. fd' = fd \/ \E f \in Fds : fd' = [fd EXCEPT ![Main] = f]
    BY <1>4 DEF Next, sbuf_insert, sbuf_remove, Quiescent, vars, sbuf, InsertWaitSlot,
                InsertLock, InsertIndex, InsertUnlock, InsertAnnounce, RemoveWaitItem,
                RemoveLock, RemoveIndex, RemoveUnlock, RemoveAnnounce, Accept
  <2>3. holds' = holds
    BY <1>0, <2>2 DEF TypeOK, Threads
  <2> QED BY <2>1, <2>3 DEF Abstract!vars
<1>5. CASE UNCHANGED vars
  BY <1>5 DEF vars, Abstract!vars, Queue, Loaded, Stored
<1> QED BY <1>1, <1>2, <1>3, <1>4, <1>5 DEF Abstract!Next
-----------------------------------------------------------------------------
\* Every open connection is in one place: with main, in one position of the
\* ring, or with one worker, whatever the interleaving.
THEOREM OneHolderAlways == Spec => []OneHolder
<1>1. DataInv => OneHolder
  <2> SUFFICES ASSUME DataInv, NEW f \in Fds
               PROVE  /\ f \in open <=> InHand(f) \cup InBuffer(f) # {}
                      /\ InHand(f) = {} \/ InBuffer(f) = {}
                      /\ \A t, u \in InHand(f) : t = u
                      /\ \A i, j \in InBuffer(f) : i = j
    BY DEF OneHolder
  <2>1. f # NoFd
    BY SbufAssumption
  <2>2. InHand(f) = {t \in Threads : fd[t] = f}
    BY DEF InHand
  <2>3. InBuffer(f) = {i \in Positions : Conn[i] = f}
    BY DEF InBuffer, Positions, Conn
  <2>4. f \in open <=> InHand(f) \cup InBuffer(f) # {}
    BY <2>1, <2>2, <2>3 DEF DataInv, Placed, PlacedIsOpen, OpenIsPlaced
  <2>5. InHand(f) = {} \/ InBuffer(f) = {}
    BY <2>2, <2>3 DEF DataInv, Placed, HeldOrWaits
  <2>6. \A t, u \in InHand(f) : t = u
    BY <2>1, <2>2 DEF DataInv, Placed, HeldOnce
  <2>7. \A i, j \in InBuffer(f) : i = j
    BY <2>3 DEF DataInv, Placed, WaitsOnce
  <2> QED BY <2>4, <2>5, <2>6, <2>7
<1> QED BY <1>1, DataInvariance, PTL

\* The ring, its two indices and its three semaphores implement a FIFO queue
\* of capacity N: InsertStore is the queue's Offer, RemoveLoad its Take,
\* Close its Release, and no other step shows.
THEOREM RingIsQueue == Spec => RefinesConnQueue
<1>1. Init => Abstract!Init
  <2> SUFFICES ASSUME Init PROVE Abstract!Init
    OBVIOUS
  <2>1. Loaded = 0 /\ Stored = 0
    BY SbufAssumption DEF Init, Loaded, Stored, Threads
  <2>2. Queue = <<>>
    BY <2>1 DEF Queue
  <2>3. [w \in Workers |-> fd[w]] = [w \in Workers |-> NoFd]
    BY DEF Init, Threads
  <2> QED BY <2>2, <2>3 DEF Abstract!Init
<1> QED BY <1>1, StepRefines, DataInvariance, PTL DEF Spec, RefinesConnQueue, Abstract!Spec
=============================================================================
