------------------------------ MODULE TraceFile ------------------------------
(***************************************************************************)
(* read_trace of mdriver.c: from a trace file to the three arrays that the *)
(* eval_ functions index.  A line is its operation and its index; sizes do *)
(* not matter here.                                                        *)
(***************************************************************************)
EXTENDS Integers, Sequences, FiniteSetsExt

CONSTANTS Indices,     \* the indices a line may have
          MaxNumber,   \* bound: the numbers of the header
          MaxTrace     \* bound: lines of a file

ASSUME TraceFileAssumption ==
    /\ Indices \subseteq Nat /\ 0 \in Indices
    /\ MaxNumber \in Nat /\ MaxTrace \in Nat

TraceLine(type, index) == [type |-> type, index |-> index]

\* Mutant: the index of a reallocation is not looked at.
max_index_of_allocs(lines) ==
    Max({0} \cup {lines[k].index : k \in {j \in 1..Len(lines) : lines[j].type = "a"}})

\* The index of an 'f' does not count.
max_index(lines) ==
    Max({0} \cup {lines[k].index : k \in {j \in 1..Len(lines) : lines[j].type \in {"a", "r"}}})

\* The lines that are stored: those in front of the first with a type that is
\* bogus, at which the driver exits.
Stored(lines) ==
    Min({k \in 1..Len(lines) : lines[k].type = "bogus"} \cup {Len(lines) + 1}) - 1

\* The asserts come when everything has been stored: ops has num_ops elements,
\* and lines beyond them are stored behind its end.  max_index is unsigned,
\* and with num_ids = 0 what it is compared with is the largest of its type.
read_trace(num_ids, num_ops, lines) ==
    CASE Stored(lines) > num_ops -> "overflow"
      [] Stored(lines) <= num_ops /\ Stored(lines) < Len(lines) -> "exit"
      [] Stored(lines) = Len(lines) /\ Len(lines) <= num_ops
         /\ (num_ids = 0 \/ max_index(lines) # num_ids - 1 \/ num_ops # Len(lines)) -> "abort"
      [] OTHER -> "read"
-----------------------------------------------------------------------------
\* What read_trace returns fits its arrays (TracesFit of MmDriver).
ReadFits ==
    \A n \in 0..MaxTrace, num_ids, num_ops \in 0..MaxNumber :
    \A lines \in [1..n -> [type : {"a", "r", "f", "bogus"}, index : Indices]] :
       read_trace(num_ids, num_ops, lines) = "read" =>
          /\ num_ops = n
          /\ \A k \in 1..num_ops :
                /\ lines[k].type # "bogus"
                /\ lines[k].index >= num_ids =>
                      /\ lines[k].type = "f"
                      /\ \A j \in 1..(k - 1) : lines[j].index = lines[k].index => lines[j].type = "f"
=============================================================================
