--------------------------- MODULE MCMutexEndpoint ---------------------------
(* Instance of MutexEndpoint for TLC: a root with two children.             *)
EXTENDS MutexEndpoint

CONSTANTS s1, s2, s3, s9, t1, t2

MCStocks == {s1, s2, s3}
MCInitial == [s \in MCStocks |-> 1]
MCOrder == <<s1, s2, s3>>
ForkLeft == [s \in MCStocks |-> IF s = s1 THEN s2 ELSE Nil]
ForkRight == [s \in MCStocks |-> IF s = s1 THEN s3 ELSE Nil]
=============================================================================
