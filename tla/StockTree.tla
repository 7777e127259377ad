------------------------------ MODULE StockTree ------------------------------
(***************************************************************************)
(* The search tree of prj2/task1/stock_endpoint.c, which task2 and         *)
(* task2_new copy: the operators that insert a stock, find one and list    *)
(* them all.                                                               *)
(*                                                                         *)
(* A tree is a sequence of nodes in the order of their creation; 0 is NULL *)
(* and node 1, if any, is root_tree.  A node is what identifies a stock,   *)
(* its count, and the nodes on its left and right; the price travels with  *)
(* the count and is left out.                                              *)
(***************************************************************************)
EXTENDS Integers, Sequences

Line(id, cnt) == [id |-> id, cnt |-> cnt]
Leaf(l) == [id |-> l.id, cnt |-> l.cnt, left |-> 0, right |-> 0]

\* Left below a larger identifier, otherwise right.
Side(t, n, id) == IF t[n].id > id THEN "left" ELSE "right"

\* insert_stock: the new node is hung where the way down ends.
insert_stock(t, l) ==
    LET End[n \in 1..Len(t)] ==
            LET next == t[n][Side(t, n, l.id)]
            IN  IF next = 0 THEN n ELSE End[next]
    IN  IF t = <<>> THEN <<Leaf(l)>>
        ELSE Append([t EXCEPT ![End[1]][Side(t, End[1], l.id)] = Len(t) + 1], Leaf(l))

\* Mutant: equal identifiers are looked for on the right first.
get_newest(t, id) ==
    LET Find[n \in 0..Len(t)] ==
            IF n = 0 THEN 0
            ELSE IF t[n].id > id THEN Find[t[n].left]
            ELSE IF Find[t[n].right] # 0 THEN Find[t[n].right]
            ELSE IF t[n].id = id THEN n ELSE 0
    IN  IF t = <<>> THEN 0 ELSE Find[1]

\* get_stock: the node a request for id works on, or 0.
get_stock(t, id) ==
    LET Find[n \in 0..Len(t)] ==
            IF n = 0 \/ t[n].id = id THEN n
            ELSE IF t[n].id > id THEN Find[t[n].left] ELSE Find[t[n].right]
    IN  IF t = <<>> THEN 0 ELSE Find[1]

\* Mutant: the listing is in the order of the identifiers.
Inorder(t) ==
    LET Walk[n \in 0..Len(t)] ==
            IF n = 0 THEN <<>> ELSE Walk[t[n].left] \o <<n>> \o Walk[t[n].right]
    IN  IF t = <<>> THEN <<>> ELSE Walk[1]

\* The order in which set_stocks_info visits the nodes.
Preorder(t) ==
    LET Walk[n \in 0..Len(t)] ==
            IF n = 0 THEN <<>> ELSE <<n>> \o Walk[t[n].left] \o Walk[t[n].right]
    IN  IF t = <<>> THEN <<>> ELSE Walk[1]

\* The text set_stocks_info builds.
set_stocks_info(t) ==
    LET ns == Preorder(t) IN [i \in 1..Len(ns) |-> Line(t[ns[i]].id, t[ns[i]].cnt)]

\* The same tree with its nodes numbered in preorder.
Renumbered(t) ==
    LET ns == Preorder(t)
        New(n) == IF n = 0 THEN 0 ELSE CHOOSE i \in 1..Len(ns) : ns[i] = n
    IN  [i \in 1..Len(ns) |-> [t[ns[i]] EXCEPT !.left = New(@), !.right = New(@)]]
=============================================================================
