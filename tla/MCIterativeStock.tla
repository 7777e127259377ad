--------------------------- MODULE MCIterativeStock ---------------------------
(* Instance of IterativeStock for TLC: every file of up to four lines over  *)
(* three identifiers, so trees of all shapes with and without duplicates.   *)
EXTENDS IterativeStock

\* The amount whose negation does not fit in an int, and one unit.
MCAmounts == {-IntMax - 1, 1}
=============================================================================
