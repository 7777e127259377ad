---------------------------- MODULE MCStockServer ----------------------------
(* Instance of StockServer for TLC: two workers, Ctrl-C once.               *)
EXTENDS StockServer

CONSTANTS w1, w2, h1, s1, s2

MCOrder == <<s1, s2>>
MCInitial == [s \in {s1, s2} |-> 1]
=============================================================================
