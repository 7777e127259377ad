------------------------------- MODULE MCSbuf -------------------------------
(* Instances of Sbuf for TLC: one acceptor, and fewer descriptors than      *)
(* accepts, so that descriptors are reused while the buffer wraps around.   *)
EXTENDS Sbuf, TLC

CONSTANTS w1, w2, w3, f1, f2, f3, f4

MCWorkers == {w1, w2}
MCThreeWorkers == {w1, w2, w3}
MCFds == {f1, f2, f3}
MCFourFds == {f1, f2, f3, f4}
Symmetric == Permutations(MCThreeWorkers) \cup Permutations(MCFourFds)
=============================================================================
