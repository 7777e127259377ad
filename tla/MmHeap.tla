------------------------------- MODULE MmHeap -------------------------------
(***************************************************************************)
(* The malloc package of prj3/prj3-malloc/mm.c, word by word: headers,     *)
(* footers and the links of the free list live in the same memory as the   *)
(* payloads.  A word is an unsigned int with the encoding of the macros:   *)
(* a size, a multiple of 8, plus 1 when the block is allocated and 2 when  *)
(* the block before it is (the "tag"; an allocated block has no footer).   *)
(* Addresses are byte offsets from mem_start_brk.  A heap h is [m : the    *)
(* words, brk : mem_brk, tail : heap_tail]; the operators yield the heap   *)
(* that a routine leaves.  Its client is MmDriver.                         *)
(***************************************************************************)
EXTENDS Integers, Sequences

CONSTANTS MaxHeap,      \* MAX_HEAP, in bytes
          Chunk,        \* CHUNKSIZE
          BigBlock,     \* 12 * DSIZE, the block that place puts behind
          BigRest       \* 4 * DSIZE, a rest of at least this size

WSIZE == 4
DSIZE == 8
Null == -1
Words == {WSIZE * i : i \in 0..((MaxHeap \div WSIZE) - 1)}

ASSUME HeapAssumption ==
    /\ {MaxHeap, Chunk, BigBlock, BigRest} \subseteq Nat \ {0}
    /\ MaxHeap % DSIZE = 0 /\ Chunk % DSIZE = 0
    /\ MaxHeap >= Chunk + 3 * DSIZE

-----------------------------------------------------------------------------
(* Macros                                                                  *)

FreeHead == WSIZE              \* free_head, after mm_init
HeapHead == 4 * WSIZE          \* heap_head, after mm_init

\* Outside the heap there is nothing to read or to change.  Only a step that
\* overruns a neighbour gets there, and no step follows it.
Get(h, p) == IF p \in Words THEN h.m[p] ELSE 0
Put(h, p, v) == IF p \in Words THEN [h EXCEPT !.m[p] = v] ELSE h
PACK(size, flags) == size + flags
GET_SIZE(h, p) == Get(h, p) - (Get(h, p) % 8)
GET_ALLOC(h, p) == Get(h, p) % 2 = 1
GET_TAG(h, p) == (Get(h, p) \div 2) % 2 = 1
SET_ALLOC(h, p) == IF GET_ALLOC(h, p) THEN h ELSE Put(h, p, Get(h, p) + 1)
CLR_ALLOC(h, p) == IF GET_ALLOC(h, p) THEN Put(h, p, Get(h, p) - 1) ELSE h
SET_TAG(h, p) == IF GET_TAG(h, p) THEN h ELSE Put(h, p, Get(h, p) + 2)
CLR_TAG(h, p) == IF GET_TAG(h, p) THEN Put(h, p, Get(h, p) - 2) ELSE h
SET_SIZE(h, p, size) == Put(h, p, size + (Get(h, p) % 8))

HDRP(b) == b - WSIZE
BLOCK_SIZE(h, b) == GET_SIZE(h, HDRP(b))
FTRP(h, b) == b + BLOCK_SIZE(h, b) - DSIZE
NEXT_BLOCK(h, b) == b + BLOCK_SIZE(h, b)
PREV_BLOCK(h, b) == b - GET_SIZE(h, b - DSIZE)

PRED(h, b) == FreeHead + Get(h, b)
SUCC(h, b) == FreeHead + Get(h, b + WSIZE)
CONNECT(h, a, b) == Put(Put(h, a + WSIZE, b - FreeHead), b, a - FreeHead)
INSERT_LIST(h, new, target) ==
    LET linked == CONNECT(h, new, SUCC(h, target))
    IN  CONNECT(linked, target, new)
ERASE(h, b) == CONNECT(h, PRED(h, b), SUCC(h, b))
-----------------------------------------------------------------------------
(* memlib.c and the internal routines of mm.c                              *)

\* What several routines do to the block b: size its header and its footer,
\* tell the block behind it whether b is allocated.
Sized(h, b, size) == Put(SET_SIZE(h, HDRP(b), size), b + size - DSIZE, PACK(size, 0))
PutFree(h, b, size) == Put(Put(h, HDRP(b), PACK(size, 0)), b + size - DSIZE, PACK(size, 0))
TagNext(h, b) == SET_TAG(h, HDRP(NEXT_BLOCK(h, b)))
ClearNext(h, b) == CLR_TAG(h, HDRP(NEXT_BLOCK(h, b)))

\* The routines that return a block yield the heap and the block, or Null.
At(h, b) == [h |-> h, b |-> b]

\* Mutant: only the block behind is looked at.
CoalesceRight(h, b) ==
    LET next == NEXT_BLOCK(h, b)
    IN  IF GET_ALLOC(h, HDRP(next)) THEN At(h, b)
        ELSE At(Sized(ERASE(h, next), b, BLOCK_SIZE(h, b) + BLOCK_SIZE(h, next)), b)

coalesce(h, b) ==
    LET next == NEXT_BLOCK(h, b)
        prev == PREV_BLOCK(h, b)
        prevAlloc == GET_TAG(h, HDRP(b))
        nextAlloc == GET_ALLOC(h, HDRP(next))
        right == BLOCK_SIZE(h, b) + BLOCK_SIZE(h, next)
    IN  CASE prevAlloc /\ nextAlloc -> At(h, b)
          [] prevAlloc /\ ~nextAlloc -> At(Sized(ERASE(h, next), b, right), b)
          [] ~prevAlloc /\ nextAlloc ->
                At(Sized(ERASE(h, prev), prev, BLOCK_SIZE(h, prev) + BLOCK_SIZE(h, b)), prev)
          [] OTHER ->
                At(Sized(ERASE(ERASE(h, prev), next), prev, BLOCK_SIZE(h, prev) + right), prev)

\* An empty heap over fresh memory, and an empty heap over whatever the last
\* one has left there.
mem_init == [m |-> [p \in Words |-> 0], brk |-> 0, tail |-> 0]
mem_reset_brk(h) == [h EXCEPT !.brk = 0]
mem_heap_hi(h) == h.brk - 1

\* mem_sbrk: more bytes, if MAX_HEAP allows.
mem_sbrk(h, incr) == IF h.brk + incr > MaxHeap THEN At(h, Null)
                     ELSE At([h EXCEPT !.brk = @ + incr], h.brk)

NewEpilogue(h, end) == [Put(h, end, PACK(0, 1)) EXCEPT !.tail = end]

\* A free block over what mem_sbrk gave; the old epilogue becomes its header.
FreeBehind(r, size) ==
    IF r.b = Null THEN r
    ELSE coalesce(NewEpilogue(CLR_ALLOC(Sized(r.h, r.b, size), HDRP(r.b)),
                              HDRP(r.b + size)), r.b)
\* The bytes are words * WSIZE.
extend_heap(h, bytes) ==
    LET size == IF (bytes \div WSIZE) % 2 = 1 THEN bytes + WSIZE ELSE bytes
    IN  FreeBehind(mem_sbrk(h, size), size)

\* The free list from its head on.
RECURSIVE ListFrom(_, _, _)
ListFrom(h, b, most) == IF b = FreeHead \/ most = 0 THEN <<>>
                        ELSE <<b>> \o ListFrom(h, SUCC(h, b), most - 1)
FreeList(h) == ListFrom(h, SUCC(h, FreeHead), MaxHeap \div DSIZE)

\* The first of the smallest blocks of the list that are large enough.
BestFit(h, list, size) ==
    LET fits == {i \in 1..Len(list) : BLOCK_SIZE(h, list[i]) >= size}
        no_worse(i, j) == \/ BLOCK_SIZE(h, list[i]) < BLOCK_SIZE(h, list[j])
                          \/ BLOCK_SIZE(h, list[i]) = BLOCK_SIZE(h, list[j]) /\ i <= j
    IN  IF fits = {} THEN Null
        ELSE list[CHOOSE i \in fits : \A j \in fits : no_worse(i, j)]
find_fit_at_list(h, size) == BestFit(h, FreeList(h), size)

\* The rest of a block that has been split goes to the list.
ListRest(r) == INSERT_LIST(ClearNext(CLR_ALLOC(SET_TAG(r.h, HDRP(r.b)), HDRP(r.b)), r.b),
                           r.b, FreeHead)
PlaceIn(h, b, next) == At(TagNext(ListRest(coalesce(TagNext(h, b), next)), b), b)

\* Split the free block b for a block of asize: at its front, or, for a big
\* block that leaves a big rest, at its end.
Split(h, b, asize, rest) ==
    IF asize < BigBlock \/ rest < BigRest
    THEN [h |-> PutFree(SET_SIZE(h, HDRP(b), asize), b + asize, rest),
          b |-> b, rest |-> b + asize]
    ELSE [h |-> SET_SIZE(SET_ALLOC(Sized(h, b, rest), HDRP(b + rest)), HDRP(b + rest), asize),
          b |-> b + rest, rest |-> b]
place(h, b, asize) ==
    LET rest == BLOCK_SIZE(h, b) - asize
        taken == SET_ALLOC(h, HDRP(b))
        after(s) == PlaceIn(s.h, s.b, s.rest)
    IN  IF rest < 2 * DSIZE THEN At(TagNext(taken, b), b)
        ELSE after(Split(taken, b, asize, rest))
-----------------------------------------------------------------------------
(* mm_init, mm_malloc, mm_free                                             *)

\* Mutant: free_head keeps the links it finds in memory.
PaddingOnly(h) == mem_sbrk(h, 6 * WSIZE).h

\* The padding and free_head, whose links are offsets from itself.
Padding(h) == Put(Put(Put(mem_sbrk(h, 6 * WSIZE).h, 0, 0), WSIZE, 0), 2 * WSIZE, 0)

\* For an empty heap, whatever its memory holds; a chunk fits (HeapAssumption).
mm_init(h) ==
    LET prologue == Put(Put(Padding(h), 3 * WSIZE, PACK(DSIZE, 1)), 4 * WSIZE, PACK(DSIZE, 1))
        tagged(r) == TagNext(r.h, HeapHead)
        listed(g) == INSERT_LIST(g, NEXT_BLOCK(g, HeapHead), FreeHead)
    IN  listed(tagged(extend_heap(Put(prologue, 5 * WSIZE, PACK(0, 3)), Chunk)))

ALIGN(n) == ((n + 7) \div 8) * 8
\* Mutant: no room for the header.
AllocSizeTight(n) == IF ALIGN(n) < 2 * DSIZE THEN 2 * DSIZE ELSE ALIGN(n)
\* The block for a payload of n bytes: a header, and no room for a footer.
AllocSize(n) ==
    LET need == IF ALIGN(n) - n >= WSIZE THEN ALIGN(n) ELSE ALIGN(n) + DSIZE
    IN  IF need < 2 * DSIZE THEN 2 * DSIZE ELSE need

\* When nothing fits: a chunk, less the free block the heap ends with.
Shortfall(h, asize) ==
    LET want == IF asize > Chunk THEN asize ELSE Chunk
    IN  IF GET_TAG(h, h.tail) THEN want ELSE want - GET_SIZE(h, h.tail - WSIZE)
mm_malloc(h, n) ==
    LET found(fit) == IF fit = Null THEN extend_heap(h, Shortfall(h, AllocSize(n)))
                      ELSE At(ERASE(h, fit), fit)
        placed(r) == IF r.b = Null THEN r ELSE place(r.h, r.b, AllocSize(n))
    IN  IF n = 0 THEN At(h, Null) ELSE placed(found(find_fit_at_list(h, AllocSize(n))))

mm_free(h, b) ==
    LET freed == SET_SIZE(CLR_ALLOC(h, HDRP(b)), FTRP(h, b), BLOCK_SIZE(h, b))
        listed(r) == INSERT_LIST(ClearNext(r.h, r.b), r.b, FreeHead)
    IN  listed(coalesce(ClearNext(freed, b), b))
-----------------------------------------------------------------------------
(* mm_realloc: each branch yields the heap and the new address             *)

\* memcpy of n bytes.
Copy(h, to, from, n) ==
    [h EXCEPT !.m = [p \in Words |-> IF p - to \in 0..(n - 1)
                                     THEN Get(h, from + (p - to)) ELSE @[p]]]

\* The block becomes asize large, whatever is behind it.
Enlarge(h, b, asize) ==
    TagNext(SET_SIZE(SET_SIZE(h, HDRP(b), asize), b + asize - DSIZE, asize), b)
EnlargeInto(more, b, asize) ==
    IF more.b = Null THEN more ELSE At(Enlarge(more.h, b, asize), b)

\* The last block of the heap: get more memory behind it.
ReallocLast(h, b, asize) ==
    EnlargeInto(extend_heap(TagNext(h, b), asize - BLOCK_SIZE(h, b)), b, asize)

\* The last but one, when the last is allocated: the code unlinks that block
\* as if it were free, and extends over it.
ReallocOver(h, b, asize) ==
    EnlargeInto(extend_heap(ERASE(h, NEXT_BLOCK(h, b)), asize - BLOCK_SIZE(h, b)), b, asize)

\* Join the free neighbours, move the contents, give back what is too much.
ReallocMerge(h, b, asize, sum) ==
    LET moved(r) == At(Copy(r.h, r.b, b, BLOCK_SIZE(h, b) - DSIZE), r.b)
        taken(r, size) == SET_ALLOC(SET_SIZE(SET_SIZE(r.h, HDRP(r.b), size),
                                             r.b + size - DSIZE, size), HDRP(r.b))
        cut(r) == SET_TAG(PutFree(taken(r, asize), r.b + asize, sum - asize),
                          HDRP(r.b + asize))
        listed(r) == ClearNext(INSERT_LIST(r.h, r.b, FreeHead), r.b)
        fitted(r) == IF sum >= asize + 2 * DSIZE
                     THEN At(listed(coalesce(cut(r), r.b + asize)), r.b)
                     ELSE At(TagNext(taken(r, sum), r.b), r.b)
    IN  fitted(moved(coalesce(ClearNext(CLR_ALLOC(h, HDRP(b)), b), b)))

\* Mutant: one word less is copied, as in the other branch.
ReallocMoveShort(h, b, n) ==
    LET moved(r) == mm_free(Copy(r.h, r.b, b, BLOCK_SIZE(h, b) - DSIZE), b)
        to(r) == IF r.b = Null THEN r ELSE At(moved(r), r.b)
    IN  to(mm_malloc(h, n))

\* A new block, the contents, and the old block is freed.
ReallocMove(h, b, n) ==
    LET moved(r) == mm_free(Copy(r.h, r.b, b, BLOCK_SIZE(h, b) - WSIZE), b)
        to(r) == IF r.b = Null THEN r ELSE At(moved(r), r.b)
    IN  to(mm_malloc(h, n))

\* Free neighbours as the code finds them: behind by the header, in front by
\* a footer that an allocated block does not have.
NextSize(h, b) == IF GET_ALLOC(h, HDRP(NEXT_BLOCK(h, b))) THEN 0
                  ELSE BLOCK_SIZE(h, NEXT_BLOCK(h, b))
FrontIsWild(h, b) == HDRP(PREV_BLOCK(h, b)) \notin Words
PrevSize(h, b) == IF FrontIsWild(h, b) \/ GET_ALLOC(h, HDRP(PREV_BLOCK(h, b))) THEN 0
                  ELSE BLOCK_SIZE(h, PREV_BLOCK(h, b))
SumSize(h, b) == BLOCK_SIZE(h, b) + PrevSize(h, b) + NextSize(h, b)

Fits(h, b, n) == n = 0 \/ AllocSize(n) <= BLOCK_SIZE(h, b)
IsLast(h, b) == FTRP(h, b) + WSIZE = h.tail
IsLastButOne(h, b) == /\ NextSize(h, b) = 0
                      /\ HDRP(NEXT_BLOCK(h, NEXT_BLOCK(h, b))) = h.tail
\* The neighbours matter for a block that grows and is not one of the last two.
LooksAround(h, b, n) == ~Fits(h, b, n) /\ ~IsLast(h, b) /\ ~IsLastButOne(h, b)

mm_realloc(h, b, n) ==
    CASE n = 0 -> At(mm_free(h, b), Null)
      [] n > 0 /\ Fits(h, b, n) -> At(h, b)
      [] ~Fits(h, b, n) /\ IsLast(h, b) -> ReallocLast(h, b, AllocSize(n))
      [] ~Fits(h, b, n) /\ ~IsLast(h, b) /\ IsLastButOne(h, b) ->
            ReallocOver(h, b, AllocSize(n))
      [] OTHER -> IF AllocSize(n) <= SumSize(h, b)
                  THEN ReallocMerge(h, b, AllocSize(n), SumSize(h, b))
                  ELSE ReallocMove(h, b, n)

Overruns(h, b, n) ==
    \/ ~Fits(h, b, n) /\ ~IsLast(h, b) /\ IsLastButOne(h, b)
    \/ /\ LooksAround(h, b, n)
       /\ GET_TAG(h, HDRP(b)) /\ PrevSize(h, b) > 0
       /\ AllocSize(n) <= SumSize(h, b)
-----------------------------------------------------------------------------
(* mm_check                                                                *)

\* The addresses a walk over the headers visits, up to the epilogue.
RECURSIVE WalkFrom(_, _)
WalkFrom(h, b) == IF HDRP(b) >= h.tail \/ BLOCK_SIZE(h, b) = 0 THEN <<b>>
                  ELSE <<b>> \o WalkFrom(h, NEXT_BLOCK(h, b))
Walk(h) == WalkFrom(h, HeapHead)

\* TRUE for the result 0.  The distance that the second loop compares with
\* DSIZE is WSIZE between neighbours, and the last block is not looked at.
mm_check(h) ==
    /\ \E list \in {FreeList(h)} : \A k \in 1..Len(list) :
          /\ ~GET_ALLOC(h, HDRP(list[k]))
          /\ ~GET_TAG(h, HDRP(NEXT_BLOCK(h, list[k])))
          /\ HDRP(list[k]) - FTRP(h, PRED(h, list[k])) # DSIZE
          /\ list[k] \in 0..mem_heap_hi(h)
    /\ \E walk \in {Walk(h)} : \A k \in 1..(Len(walk) - 2) :
          HDRP(walk[k]) >= 0 /\ FTRP(h, walk[k]) <= mem_heap_hi(h)
    /\ h.tail <= mem_heap_hi(h)
=============================================================================
