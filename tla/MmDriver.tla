------------------------------ MODULE MmDriver ------------------------------
(***************************************************************************)
(* mdriver.c, the client of the malloc package: a trace of operations is   *)
(* run by eval_mm_valid, which fills every payload with the index of its   *)
(* block, checks each new range against the others and each reallocated    *)
(* block for its old contents; if it finds no error, the trace is run      *)
(* again by eval_mm_util, for the ratio of what is asked for to the heap   *)
(* it takes, and by eval_mm_speed, as often as the timer wants, neither of *)
(* which checks or fills anything.  Then comes the next trace.  Every run  *)
(* resets the heap, and none of them clears its memory.                    *)
(*                                                                         *)
(* What a trace is going to be is decided while eval_mm_valid runs it.     *)
(***************************************************************************)
EXTENDS MmHeap, SequencesExt, Timing, TraceFile

CONSTANTS Ids,          \* block indices of a trace
          Sizes,        \* sizes mm_malloc is asked for, whole words
          NewSizes,     \* sizes mm_realloc is asked for, whole words
          Runs,         \* runs of eval_mm_speed, the n of ftimer_gettod
          MaxOps,       \* bound: operations of the first trace
          MaxReplayed   \* bound: operations of all traces that are run again

ASSUME DriverAssumption ==
    /\ Ids \subseteq 0..127
    /\ \A n \in Sizes \cup NewSizes : n \in Nat /\ n % WSIZE = 0
    /\ 0 \notin Sizes
    /\ Runs \in Nat \ {0} /\ MaxOps \in Nat /\ MaxReplayed \in 0..MaxOps

VARIABLES
    heap,       \* what mm.c and memlib.c keep
    pass,       \* "valid", "util", "speed" or "done"
    run,        \* the run of eval_mm_speed
    trace,      \* trace->ops, each with the address it was answered with in
                \* eval_mm_valid (history); empty when longer than MaxReplayed
    ops,        \* operations of the trace that have been run
    before,     \* operations of the traces before
    block,      \* trace->blocks and block_sizes (which eval_mm_speed neither
                \* writes nor reads), or NoBlock
    ranges,     \* the range list
    size,       \* total_size and max_total_size of eval_mm_util
    verdict,    \* what the driver has found
    overrun     \* mm_realloc has taken an allocated neighbour for a free one

vars == <<heap, pass, run, trace, ops, before, block, ranges, size, verdict, overrun>>

NoBlock == [p |-> Null, n |-> 0]
NoBlocks == [i \in Ids |-> NoBlock]
Live == {i \in Ids : block[i] # NoBlock}
Operation(op, i, n, p) == [op |-> op, i |-> i, n |-> n, p |-> p]
-----------------------------------------------------------------------------
(* The range list                                                          *)

Extent(lo, n) == [lo |-> lo, hi |-> lo + n - 1]
RangeHolds(r, x) == x \in r.lo..r.hi

\* add_range accepts a payload that is aligned, in the heap, and neither of
\* whose ends is in another payload.
add_range(h, rs, lo, n) ==
    LET hi == Extent(lo, n).hi
    IN  /\ lo % DSIZE = 0
        /\ lo \in 0..mem_heap_hi(h) /\ hi \in 0..mem_heap_hi(h)
        /\ \A r \in rs : ~RangeHolds(r, lo) /\ ~RangeHolds(r, hi)

remove_range(rs, lo) == {r \in rs : r.lo # lo}
clear_ranges == ranges' = {}
-----------------------------------------------------------------------------
(* eval_mm_valid                                                           *)

PayloadWords(p, n) == {p + WSIZE * k : k \in 0..((n \div WSIZE) - 1)}

\* memset(p, index & 0xFF, size) and its inverse.
Pattern(i) == i * 16843009
Fill(h, p, n, i) == [h EXCEPT !.m = [w \in Words |-> IF w \in PayloadWords(p, n)
                                                       THEN Pattern(i) ELSE @[w]]]
Holds(h, p, n, i) == \A w \in PayloadWords(p, n) : h.m[w] = Pattern(i)

\* The beginning of the run of a trace: mem_reset_brk, mm_init.
Begin(next) ==
    /\ pass' = next
    /\ heap' = mm_init(mem_reset_brk(heap))
    /\ ops' = 0
    /\ block' = NoBlocks
    /\ size' = [total |-> 0, max |-> 0]

Init ==
    /\ heap = mm_init(mem_init)
    /\ pass = "valid" /\ run = 0
    /\ trace = <<>> /\ ops = 0 /\ before = 0
    /\ block = NoBlocks
    /\ ranges = {}
    /\ size = [total |-> 0, max |-> 0]
    /\ verdict = "valid"
    /\ overrun = FALSE

\* What follows an overrun is not looked at.
Going == verdict = "valid" /\ ~overrun
Short == Len(trace) = ops

\* The loop over the operations of the trace.
NextOp(o) ==
    /\ pass = "valid" /\ Going
    /\ before + ops < IF before = 0 THEN MaxOps ELSE MaxReplayed
    /\ ops' = ops + 1
    /\ trace' = IF Short /\ before + ops < MaxReplayed THEN Append(trace, o) ELSE <<>>
    /\ UNCHANGED <<pass, run, before, size>>

\* return 0; the block is not entered.
Reject(h, rs, why) == heap' = h /\ ranges' = rs /\ verdict' = why /\ UNCHANGED block
Accept(h, rs, p, n, i) ==
    /\ heap' = Fill(h, p, n, i)
    /\ ranges' = rs \cup {Extent(p, n)}
    /\ block' = [block EXCEPT ![i] = [p |-> p, n |-> n]]
    /\ UNCHANGED verdict

\* Indices are taken in order, the smallest that is not in use.
Alloc(i, n) ==
    /\ i \notin Live
    /\ \A j \in Ids : j < i => j \in Live
    /\ \E r \in {mm_malloc(heap, n)} :
          /\ NextOp(Operation("a", i, n, r.b))
          /\ CASE r.b = Null -> Reject(r.h, ranges, "malloc failed")
               [] r.b # Null /\ ~add_range(r.h, ranges, r.b, n) ->
                     Reject(r.h, ranges, "overlap")
               [] OTHER -> Accept(r.h, ranges, r.b, n, i)
    /\ UNCHANGED overrun

Realloc(i, n) ==
    /\ i \in Live
    /\ LET old == block[i]
           others == remove_range(ranges, old.p)
           kept == IF n < old.n THEN n ELSE old.n
       IN  \E r \in {mm_realloc(heap, old.p, n)} :
              /\ NextOp(Operation("r", i, n, r.b))
              /\ CASE r.b = Null -> Reject(r.h, ranges, "realloc failed")
                   [] r.b # Null /\ ~add_range(r.h, others, r.b, n) ->
                         Reject(r.h, others, "overlap")
                   [] OTHER -> IF Holds(r.h, r.b, kept, i)
                               THEN Accept(r.h, others, r.b, n, i)
                               ELSE Reject(r.h, others \cup {Extent(r.b, n)}, "data lost")
    /\ overrun' = Overruns(heap, block[i].p, n)

\* Reading the header of a block that is not in the heap: the process dies, or
\* goes on with whatever is there.  (Realloc has the outcome that the word read
\* looks allocated.)
ReallocWild(i, n) ==
    /\ i \in Live
    /\ NextOp(Operation("r", i, n, Null))
    /\ LooksAround(heap, block[i].p, n) /\ FrontIsWild(heap, block[i].p)
    /\ verdict' = "undefined"
    /\ UNCHANGED <<heap, ranges, block, overrun>>

Free(i) ==
    /\ i \in Live
    /\ NextOp(Operation("f", i, 0, Null))
    /\ heap' = mm_free(heap, block[i].p)
    /\ ranges' = remove_range(ranges, block[i].p)
    /\ block' = [block EXCEPT ![i] = NoBlock]
    /\ UNCHANGED <<verdict, overrun>>
-----------------------------------------------------------------------------
(* eval_mm_util and eval_mm_speed                                          *)

\* An operation as mm.c answers it.
Answer(o) ==
    CASE o.op = "a" -> mm_malloc(heap, o.n)
      [] o.op = "r" -> mm_realloc(heap, block[o.i].p, o.n)
      [] OTHER -> At(mm_free(heap, block[o.i].p), Null)

\* Mutant: a reallocation adds all of its new size.
GrownTwice(o) == size.total + o.n - (IF o.op = "f" THEN block[o.i].n ELSE 0)

\* total_size: block_sizes[index] is that of the block as it was, if it was.
Grown(o) == size.total + o.n - (IF o.op = "a" THEN 0 ELSE block[o.i].n)

Counted(total) == [total |-> total,
                   max |-> IF total > size.max THEN total ELSE size.max]

Replay ==
    /\ pass \in {"util", "speed"} /\ Going /\ ops < Len(trace)
    /\ LET o == trace[ops + 1]
       IN  /\ \E r \in {Answer(o)} :
                 /\ heap' = r.h
                 /\ block' = [block EXCEPT ![o.i] = IF o.op = "f" THEN NoBlock
                                                    ELSE [p |-> r.b, n |-> o.n]]
                 /\ verdict' = IF o.op # "f" /\ r.b = Null THEN "app_error" ELSE verdict
           /\ size' = IF pass = "util" THEN Counted(Grown(o)) ELSE size
           /\ overrun' = (o.op = "r" /\ Overruns(heap, block[o.i].p, o.n))
    /\ ops' = ops + 1
    /\ UNCHANGED <<pass, run, trace, before, ranges>>

\* As ReallocWild.
ReplayWild ==
    /\ pass \in {"util", "speed"} /\ Going /\ ops < Len(trace)
    /\ LET o == trace[ops + 1]
       IN  /\ o.op = "r"
           /\ LooksAround(heap, block[o.i].p, o.n) /\ FrontIsWild(heap, block[o.i].p)
    /\ verdict' = "undefined"
    /\ UNCHANGED <<heap, pass, run, trace, ops, before, block, ranges, size, overrun>>
-----------------------------------------------------------------------------
(* main and the timer                                                      *)

eval_mm_util ==
    /\ pass = "valid" /\ Going /\ Short
    /\ Begin("util")
    /\ UNCHANGED <<run, trace, before, ranges, verdict, overrun>>

eval_mm_speed ==
    /\ \/ pass = "util"
       \/ pass = "speed" /\ run < Runs
    /\ Going /\ Short
    /\ Begin("speed")
    /\ run' = run + 1
    /\ UNCHANGED <<trace, before, ranges, verdict, overrun>>

\* free_trace, and the next trace of the loop in main: mm_stats[i] holds what
\* has been found of this one.
NextTrace ==
    /\ \/ pass = "speed" /\ run = Runs /\ Going
       \/ pass = "valid" /\ verdict \notin {"valid", "undefined"} /\ ~overrun
    /\ Short /\ ops > 0 /\ before + ops < MaxReplayed
    /\ before' = before + ops
    /\ trace' = <<>> /\ run' = 0 /\ verdict' = "valid"
    /\ Begin("valid") /\ clear_ranges
    /\ UNCHANGED overrun

\* The bound on operations, a process that has exited, or what is not looked at.
Stopped ==
    /\ \/ ~Going
       \/ pass = "valid" /\ ~Short
       \/ pass = "speed" /\ run = Runs /\ Short
    /\ UNCHANGED vars

Next ==
    \/ \E i \in Ids : \/ \E n \in Sizes : Alloc(i, n)
                      \/ \E n \in NewSizes : Realloc(i, n)
                      \/ \E n \in NewSizes : ReallocWild(i, n)
                      \/ Free(i)
    \/ Replay \/ ReplayWild
    \/ eval_mm_util \/ eval_mm_speed \/ NextTrace
    \/ Stopped

Spec == Init /\ [][Next]_vars
-----------------------------------------------------------------------------
(* Properties                                                              *)

\* The driver has found no error and no neighbour has been overrun.
Sound == Going

\* Every live payload holds what eval_mm_valid has written: no header, footer
\* or link is ever stored in it, no other block overlaps it.
PayloadsIntact ==
    Sound /\ pass = "valid" => \A i \in Live : Holds(heap, block[i].p, block[i].n, i)

\* The blocks on a walk over the heap tile it from the prologue to the
\* epilogue, and a block is marked allocated exactly when the client holds it:
\* none leaks, none is handed out twice.
BlocksAreHeld(walk) ==
    /\ walk[Len(walk)] = heap.tail + WSIZE
    /\ {b \in ToSet(walk) : GET_ALLOC(heap, HDRP(b))}
          = {HeapHead, heap.tail + WSIZE} \cup {block[i].p : i \in Live}
    /\ \A i, j \in Live : block[i].p = block[j].p => i = j

\* The tag of a block says whether the block before it is allocated; no two
\* free blocks are neighbours, and a free block ends with its size.
TagsAgree(walk) ==
    \A k \in 1..(Len(walk) - 1) :
        LET free == ~GET_ALLOC(heap, HDRP(walk[k]))
        IN  /\ GET_TAG(heap, HDRP(walk[k + 1])) <=> ~free
            /\ free => /\ GET_ALLOC(heap, HDRP(walk[k + 1]))
                       /\ PREV_BLOCK(heap, walk[k + 1]) = walk[k]

\* The free list holds each free block once, and its two directions agree.
FreeListIsExact(walk, list) ==
    /\ ToSet(list) = {b \in ToSet(walk) : ~GET_ALLOC(heap, HDRP(b))}
    /\ IsInjective(list)
    /\ LET all == <<FreeHead>> \o list \o <<FreeHead>>
       IN  \A k \in 1..(Len(all) - 1) : PRED(heap, all[k + 1]) = all[k]

\* In every run of a trace, whatever the memory held at its beginning: what
\* the DEBUG build of mm.c asserts, and what its check leaves out.
HeapIsConsistent ==
    Sound => /\ mm_check(heap)
             /\ \E walk \in {Walk(heap)}, list \in {FreeList(heap)} :
                   BlocksAreHeld(walk) /\ TagsAgree(walk) /\ FreeListIsExact(walk, list)

\* mm_realloc loses contents only where it joins the block with a free block
\* in front of it, and then no more than the last word of the block.
LosesOnlyWhenMoving ==
    [][\A i \in Live, m \in NewSizes :
         LET b == block[i].p
             n == block[i].n
         IN  verdict' = "data lost" /\ Realloc(i, m) =>
                /\ ~GET_TAG(heap, HDRP(b))
                /\ n = BLOCK_SIZE(heap, b) - WSIZE
                /\ Holds(heap', PREV_BLOCK(heap, b), n - WSIZE, i)]_vars

\* What eval_mm_valid has found to be valid is what eval_mm_util measures and
\* eval_mm_speed times: they get the same blocks, although the memory of the
\* heap is not cleared in between and they fill no payload.  (Where mm_realloc
\* takes stale words for a footer, the runs may differ: see overrun.)
ReplayAgrees ==
    pass \in {"util", "speed"} /\ ~overrun =>
        /\ verdict # "app_error"
        /\ Sound => \A k \in 1..ops :
              LET last == \A j \in (k + 1)..ops : trace[j].i # trace[k].i
              IN  last => block[trace[k].i].p = trace[k].p

\* The utilisation that eval_mm_util reports is at most 1, at any length of
\* the trace.
UtilIsARatio == Sound /\ pass = "util" => /\ size.total <= size.max
                                          /\ size.max <= heap.brk

\* read_trace and the timers depend on nothing else, and it is enough to ask
\* about them before the first operation.
AtFirst == pass = "valid" /\ before + ops = 0

\* A trace that read_trace returns fits its arrays: every operation of the
\* header is there, and none of them indexes blocks or block_sizes beyond
\* their ends, but for the free of a block that no line before it allocates.
TracesFit == AtFirst => ReadFits

\* fcyc samples until its kbest fastest runs are within epsilon of the
\* fastest, or maxsamples times, and returns the cycles of the fastest run it
\* has seen, wherever a word of the counter wraps; the wall clock timers
\* return the time between their readings, across the end of a second.
TimersMeasure == AtFirst => FastestIsTimed /\ TimeIsElapsed

\* "The payload must not overlap any other payloads" (mdriver.c): for the
\* driver's own test, and for the payloads it has accepted.
PayloadsAreDisjoint ==
    /\ verdict # "overlap"
    /\ \A i, j \in Live : i # j =>
          PayloadWords(block[i].p, block[i].n) \cap PayloadWords(block[j].p, block[j].n) = {}
=============================================================================
