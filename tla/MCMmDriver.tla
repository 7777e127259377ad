----------------------------- MODULE MCMmDriver -----------------------------
(* Instances of MmDriver for TLC, with the timers it may be built with and *)
(* the files it reads.                                                     *)
EXTENDS MmDriver

MCIds == {0, 1, 2, 3}
\* 12 fills a block of 16 to its last word, 16 leaves a word of 24 unused, 28
\* makes a block of BigBlock bytes.
MCSizes == {12, 16, 28}
MCNewSizes == {0, 20, 36}
\* The lower word of the counter wraps within a run, or not, or both words do.
MCStarts == {0, 6, 62}
\* 20 and 21 are within epsilon of each other.
MCCycles == {5, 20, 21}
=============================================================================
