------------------------------- MODULE Timing -------------------------------
(***************************************************************************)
(* The timers that fsecs.c can be built with: the cycle counter of clock.c *)
(* under the K-best scheme of fcyc.c, and ftimer.c over gettimeofday or    *)
(* the interval timer.  They are functions of what the clock shows at the  *)
(* beginning and at the end of each run; EPSILON is a percentage.          *)
(***************************************************************************)
EXTENDS Integers, Sequences, SequencesExt, FiniteSetsExt

CONSTANTS Word,        \* 2^32: an unsigned wraps there
          kbest, maxsamples, epsilon,
          Starts,      \* what the cycle counter may show when a run begins
          Cycles,      \* what a run may take
          Second       \* microseconds of a second

ASSUME TimingAssumption ==
    /\ Word \in Nat \ {0} /\ Second \in Nat \ {0} /\ epsilon \in Nat
    /\ kbest \in Nat \ {0} /\ maxsamples \in Nat \ {0}
    /\ Starts \cup Cycles \subseteq 0..(Word * Word - 1)
-----------------------------------------------------------------------------
(* clock.c                                                                 *)

access_counter(t) == [hi |-> (t \div Word) % Word, lo |-> t % Word]

\* Mutant: the borrow is forgotten.
difference_of_words(cyc, ncyc) ==
    ((ncyc.hi - cyc.hi) % Word) * Word + ((ncyc.lo - cyc.lo) % Word)

\* The subtraction in two words; lo is larger than what it was taken from
\* exactly when it has wrapped.
get_counter(cyc, ncyc) ==
    LET lo == (ncyc.lo - cyc.lo) % Word
        borrow == IF lo > ncyc.lo THEN 1 ELSE 0
    IN  ((ncyc.hi - cyc.hi - borrow) % Word) * Word + lo
-----------------------------------------------------------------------------
(* fcyc.c: values is the sequence of the samples that are kept             *)

\* The insertion sort puts a value behind those that are not larger.
Sorted(values, val) ==
    LET k == Cardinality({i \in DOMAIN values : values[i] <= val})
    IN  InsertAt(values, k + 1, val)
add_sample(values, val) ==
    IF Len(values) < kbest THEN Sorted(values, val)
    ELSE IF val < values[kbest] THEN Sorted(Front(values), val)
    ELSE values

\* Never with fewer than kbest samples.
has_converged(values) ==
    Len(values) = kbest /\ (100 + epsilon) * values[1] >= 100 * values[kbest]

\* do ... while: the number of samples that are taken, and what is returned.
fcyc(samples) ==
    LET Values[n \in 0..maxsamples] ==
            IF n = 0 THEN <<>> ELSE add_sample(Values[n - 1], samples[n])
        count == Min({n \in 1..maxsamples : has_converged(Values[n])} \cup {maxsamples})
    IN  [count |-> count, result |-> Values[count][1]]
-----------------------------------------------------------------------------
(* ftimer.c: n times the average that is returned, in microseconds         *)

ftimer_gettod(stv, etv) == Second * (etv.sec - stv.sec) + (etv.usec - stv.usec)

\* The interval timer counts down from first.
get_etime(first, curr) ==
    Second * (first.sec - curr.sec) + (first.usec - curr.usec)
ftimer_itimer(first, before, after) == get_etime(first, after) - get_etime(first, before)
-----------------------------------------------------------------------------
(* What is to be measured (TimersMeasure of MmDriver)                      *)

\* The kbest fastest of the first n runs are within epsilon of the fastest.
KthFastest(cycles, n) ==
    CHOOSE v \in {cycles[i] : i \in 1..n} :
        /\ Cardinality({i \in 1..n : cycles[i] < v}) < kbest
        /\ Cardinality({i \in 1..n : cycles[i] <= v}) >= kbest
Enough(cycles, n) ==
    /\ n >= kbest
    /\ 100 * KthFastest(cycles, n) <= (100 + epsilon) * Min({cycles[i] : i \in 1..n})

Sample(r) == get_counter(access_counter(r.start), access_counter(r.start + r.cycles))
FastestIsTimed ==
    \A runs \in [1..maxsamples -> [start : Starts, cycles : Cycles]] :
       LET cycles == [i \in 1..maxsamples |-> runs[i].cycles]
           timed == fcyc([i \in 1..maxsamples |-> Sample(runs[i])])
       IN  /\ timed.result = Min({cycles[i] : i \in 1..timed.count})
           /\ Enough(cycles, timed.count) \/ timed.count = maxsamples
           /\ \A n \in 1..(timed.count - 1) : ~Enough(cycles, n)

Reading(t) == [sec |-> t \div Second, usec |-> t % Second]
TimeIsElapsed ==
    \A t \in 0..(2 * Second), d \in Cycles :
       /\ ftimer_gettod(Reading(t), Reading(t + d)) = d
       /\ ftimer_itimer(Reading(t + d + Second), Reading(t + d), Reading(t)) = d
=============================================================================
