-------------------------- MODULE MCStockEndpoint --------------------------
(* An instance of StockEndpoint for TLC.                                    *)
EXTENDS StockEndpoint

CONSTANTS t1, t2, t3, s1, s2, s9

MCOrder == <<s1, s2>>
MCThree == {t1, t2, t3}
\* A count that a buy empties and one at the top of the range.
MCInitial == [s \in Stocks |-> IF s = s1 THEN 1 ELSE IntMax]
\* One unit, and the amount whose negation does not fit in an int.
MCSignedAmounts == {-IntMax - 1, 1}
=============================================================================
