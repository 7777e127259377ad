---------------------------- MODULE IterativeStock ----------------------------
(***************************************************************************)
(* The stocks of prj2/task1/stock_endpoint.c over the life of the server,  *)
(* which runs one request at a time: init_stock inserts the lines of       *)
(* stock.txt, process_request answers, SIGINT, whose handler main installs *)
(* before it calls init_stock, empties the file, writes the tree and       *)
(* exits; a request that lacks a word ends the process, as SIGKILL does at *)
(* any moment, and the server is started again.                            *)
(***************************************************************************)
EXTENDS StockTree, FiniteSets

CONSTANTS Ids,       \* stock identifiers
          Amounts,   \* what atoi may return for the amount
          IntMax,    \* largest int; IntMax + 1 wraps to -IntMax - 1
          MaxLines,  \* bound: lines of stock.txt
          MaxStarts  \* bound: how often the server is started again

ASSUME IterativeAssumption ==
    /\ Ids \subseteq Int /\ IsFiniteSet(Ids)
    /\ IntMax \in Nat /\ Amounts \subseteq (-IntMax - 1)..IntMax
    /\ MaxLines \in Nat /\ MaxStarts \in Nat

\* "short" stands for a buy or a sell without its identifier or its amount,
\* and for a line of blanks; "other" for a first word that is no command.
Requests == [op : {"buy", "sell"}, id : Ids, n : Amounts]
            \cup [op : {"show", "other", "short"}]

VARIABLES
    file,    \* stock.txt, a sequence of lines
    line,    \* the next line init_stock reads
    tree,    \* the nodes below root_tree
    reply,   \* what process_request has returned and nobody has sent yet
    saving,  \* terminate_handler is behind fopen
    starts,  \* how often the server has been started again
    kept     \* history: the tree that was saved last, numbered in preorder

vars == <<file, line, tree, reply, saving, starts, kept>>

\* The counts of the first file tell its lines apart.
Init ==
    /\ \E ids \in UNION {[1..k -> Ids] : k \in 0..MaxLines} :
          file = [i \in DOMAIN ids |-> Line(ids[i], i % (IntMax + 1))]
    /\ line = 1
    /\ tree = <<>>
    /\ reply = "none" /\ saving = FALSE
    /\ starts = 0
    /\ kept = <<>>

\* Mutant: the end of the file is met with the last line.
LoadedEarly == line >= Len(file)

Loaded == line > Len(file)

\* One round of the loop in init_stock.
init_stock ==
    /\ ~Loaded /\ ~saving
    /\ tree' = insert_stock(tree, file[line])
    /\ line' = line + 1
    /\ UNCHANGED <<file, reply, saving, starts, kept>>
-----------------------------------------------------------------------------
(* process_request                                                         *)

Wrap(x) == ((x + IntMax + 1) % (2 * (IntMax + 1))) - (IntMax + 1)

\* update_stock(ID, cnt): its return value, and the tree it leaves.
\* Mutant: the last unit of a stock cannot be bought.
ResultKeepsOne(id, d) ==
    LET n == get_stock(tree, id)
    IN  IF n = 0 THEN "NOT_FOUND"
        ELSE IF Wrap(tree[n].cnt + d) <= 0 THEN "NOT_ENOUGH" ELSE "SUCCESS"
Result(id, d) ==
    LET n == get_stock(tree, id)
    IN  IF n = 0 THEN "NOT_FOUND"
        ELSE IF Wrap(tree[n].cnt + d) < 0 THEN "NOT_ENOUGH" ELSE "SUCCESS"
update_stock(id, d) ==
    IF Result(id, d) = "SUCCESS"
    THEN [tree EXCEPT ![get_stock(tree, id)].cnt = Wrap(@ + d)] ELSE tree

Trades == {r \in Requests : r.op \in {"buy", "sell"}}
Delta(r) == IF r.op = "buy" THEN Wrap(-r.n) ELSE r.n

\* What process_request returns, the text of a show left out.  There is no case
\* for a sell that is refused because of the sum: the answer is empty, and so
\* is that to an unknown word.
Answer(r) ==
    CASE r.op = "show" -> "stocks"
      [] r.op = "buy" -> Result(r.id, Delta(r))
      [] r.op = "sell" /\ Result(r.id, Delta(r)) # "NOT_ENOUGH" -> Result(r.id, Delta(r))
      [] OTHER -> ""

\* Buying and selling; show and an unknown word change nothing.
process_request(r) ==
    /\ Loaded /\ ~saving /\ reply = "none"
    /\ r.op # "short"
    /\ reply' = Answer(r)
    /\ tree' = IF r \in Trades THEN update_stock(r.id, Delta(r)) ELSE tree
    /\ UNCHANGED <<file, line, saving, starts, kept>>

\* check_clients sends the answer and goes on to the next client.
Rio_writen ==
    /\ reply # "none" /\ ~saving
    /\ reply' = "none"
    /\ UNCHANGED <<file, line, tree, saving, starts, kept>>
-----------------------------------------------------------------------------
(* The end of the process and the next start                               *)

Restart ==
    /\ starts < MaxStarts
    /\ starts' = starts + 1
    /\ line' = 1
    /\ tree' = <<>> /\ reply' = "none" /\ saving' = FALSE

\* Ctrl-C, at any moment after Signal() in main: fopen empties the file.
OpenFile ==
    /\ ~saving /\ starts < MaxStarts
    /\ saving' = TRUE
    /\ file' = <<>>
    /\ UNCHANGED <<line, tree, reply, starts, kept>>

Written == file = set_stocks_info(tree)

\* fprintf and fclose write the text, a full buffer at a time.
WriteBlock ==
    /\ saving /\ ~Written
    /\ \E k \in 1..Len(tree) :
          /\ k > Len(file)
          /\ file' = SubSeq(set_stocks_info(tree), 1, k)
    /\ UNCHANGED <<line, tree, reply, saving, starts, kept>>

write_to_file == OpenFile \/ WriteBlock

Exit ==
    /\ saving /\ Written
    /\ kept' = Renumbered(tree)
    /\ Restart
    /\ UNCHANGED file

terminate_handler == write_to_file \/ Exit

\* strcmp or atoi of the NULL that strtok returns, or SIGKILL at any moment:
\* what was traded since the last save is gone.  A save that is cut off leaves
\* the first nodes of the listing.
FirstNodes(t, k) ==
    [n \in 1..k |-> [t[n] EXCEPT !.left = IF @ > k THEN 0 ELSE @,
                                 !.right = IF @ > k THEN 0 ELSE @]]
Dies ==
    /\ kept' = IF saving THEN FirstNodes(Renumbered(tree), Len(file)) ELSE kept
    /\ Restart
    /\ UNCHANGED file

Next == \/ init_stock
        \/ \E r \in Requests : process_request(r)
        \/ Rio_writen
        \/ terminate_handler
        \/ Dies

Spec == Init /\ [][Next]_vars
-----------------------------------------------------------------------------
(* Properties                                                              *)

Nodes == 1..Len(tree)

\* A trade is done, on the oldest stock with its identifier, exactly when that
\* stock exists and the true sum is a count; no other stock changes, and a
\* trade that is not done changes none.  The client reads "success" exactly
\* then; otherwise it reads that there is no such stock or, if it buys, too
\* little of it, and if it sells, nothing.  The sum is that of the integers,
\* whatever amount the client sends.
TradeIsExact(r) ==
    LET same == {n \in Nodes : tree[n].id = r.id}
        oldest == CHOOSE n \in same : \A o \in same : n <= o
        sum == tree[oldest].cnt + (IF r.op = "buy" THEN -r.n ELSE r.n)
        possible == same # {} /\ sum \in 0..IntMax
        refusal == IF same = {} THEN "NOT_FOUND"
                   ELSE IF r.op = "buy" THEN "NOT_ENOUGH" ELSE ""
    IN  /\ reply' = IF possible THEN "SUCCESS" ELSE refusal
        /\ tree' = IF possible THEN [tree EXCEPT ![oldest].cnt = sum] ELSE tree
TradesAreExact == [][\A r \in Trades : process_request(r) => TradeIsExact(r)]_vars

\* A start rebuilds the tree that was saved last, or the part of it that was:
\* same shape, same counts, and duplicates found in the same order, since
\* inserting a preorder listing gives the tree it lists.
RestartKeepsTree == [][init_stock /\ Loaded' /\ kept # <<>> => tree' = kept]_vars

\* Whatever comes in between, trades, saves or the death of the process, the
\* server loses no stock, with two exceptions: Ctrl-C while init_stock is
\* still reading writes back only what has been read, and a process that is
\* killed between fopen and the end of fclose has not yet written the rest.
HeldIds ==
    [id \in Ids |-> Cardinality({n \in Nodes : tree[n].id = id})
                   + (IF saving THEN 0
                      ELSE Cardinality({i \in line..Len(file) : file[i].id = id}))]
CutOff == saving /\ ~saving' /\ ~Written
StocksLostOnlyInTwoWindows == [][Loaded \/ saving => HeldIds' = HeldIds \/ CutOff]_vars
=============================================================================
