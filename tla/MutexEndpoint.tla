---------------------------- MODULE MutexEndpoint ----------------------------
(***************************************************************************)
(* The request handlers of prj2/task2/stock_endpoint.c, run by one thread  *)
(* per connection.  Every stock has one semaphore; a show keeps the        *)
(* semaphore of a stock until it has listed both subtrees, so a walk holds *)
(* the locks of a whole path of the search tree.                           *)
(***************************************************************************)
EXTENDS Integers, Sequences, FiniteSets

CONSTANTS Threads,          \* one per connection
          Stocks,
          Root,             \* root_tree
          LeftOf, RightOf,  \* left_stock and right_stock
          Nil,              \* NULL
          Order,            \* the preorder listing of the tree
          UnknownIds,       \* identifiers get_stock does not find
          Amounts,          \* the amounts clients ask for
          IntMax,           \* largest int
          Initial,          \* counts read from stock.txt
          OrdersPerClient,  \* bound: requests on one connection
          NoId, NoReq

Updates == [op : {"buy", "sell"}, id : Stocks \cup UnknownIds, n : Amounts]
Show == [op |-> "show", id |-> NoId, n |-> 0]
Requests == Updates \cup {Show}

ASSUME MutexEndpointAssumption ==
    /\ IsFiniteSet(Threads) /\ IsFiniteSet(Stocks)
    /\ Root \in Stocks /\ Nil \notin Stocks
    /\ LeftOf \in [Stocks -> Stocks \cup {Nil}]
    /\ RightOf \in [Stocks -> Stocks \cup {Nil}]
    /\ Stocks \cap UnknownIds = {}
    /\ IntMax \in Nat /\ Amounts \subseteq (-IntMax - 1)..IntMax
    /\ Initial \in [Stocks -> 0..IntMax]
    /\ OrdersPerClient \in Nat
    /\ NoReq \notin Requests

\* Order lists every stock once, the root first, the left subtree of a stock
\* right behind it and its right subtree behind that; size gives the number
\* of stocks in each subtree.
AreSizes(size) ==
    /\ size[Nil] = 0 /\ size[Root] = Len(Order)
    /\ \A i \in 1..Len(Order) :
          LET l == LeftOf[Order[i]]
              r == RightOf[Order[i]]
          IN  /\ size[Order[i]] = 1 + size[l] + size[r]
              /\ l # Nil => i + 1 <= Len(Order) /\ Order[i + 1] = l
              /\ r # Nil => i + 1 + size[l] <= Len(Order) /\ Order[i + 1 + size[l]] = r
ASSUME OrderIsPreorder ==
    /\ Order \in Seq(Stocks) /\ Order[1] = Root
    /\ \A s \in Stocks : \E i \in 1..Len(Order) : Order[i] = s
    /\ \A i, j \in 1..Len(Order) : Order[i] = Order[j] => i = j
    /\ \E size \in [Stocks \cup {Nil} -> 0..Len(Order)] : AreSizes(size)

VARIABLES
    cnt, mutex,   \* Stock.cnt and Stock.mutex
    pc, req, ans, view, left,
    stack,        \* the activations of set_stocks_info: a stock, and the
                  \* statement each has reached
    crashed

vars == <<cnt, mutex, pc, req, ans, view, left, stack, crashed>>

Init ==
    /\ cnt = Initial
    /\ mutex = [s \in Stocks |-> 1]
    /\ pc = [t \in Threads |-> "idle"]
    /\ req = [t \in Threads |-> NoReq]
    /\ ans = [t \in Threads |-> "none"]
    /\ view = [t \in Threads |-> <<>>]
    /\ left = [t \in Threads |-> OrdersPerClient]
    /\ stack = [t \in Threads |-> <<>>]
    /\ crashed = FALSE

Goto(t, from, to) == /\ ~crashed
                     /\ pc[t] = from
                     /\ pc' = [pc EXCEPT ![t] = to]
P(s) == mutex[s] > 0 /\ mutex' = [mutex EXCEPT ![s] = @ - 1]
V(s) == mutex' = [mutex EXCEPT ![s] = @ + 1]

\* gcc -O2 builds the sum as an add that wraps, and tests its sign.
Wrap(x) == ((x + IntMax + 1) % (2 * (IntMax + 1))) - (IntMax + 1)
NewCnt(t) == Wrap(cnt[req[t].id] + (IF req[t].op = "buy" THEN -req[t].n ELSE req[t].n))

Frame(s) == [node |-> s, at |-> "lock"]
Top(t) == stack[t][Len(stack[t])]
Push(st, s) == IF s = Nil THEN st ELSE Append(st, Frame(s))
-----------------------------------------------------------------------------
Receive(t, r) ==
    /\ Goto(t, "idle", IF r = Show THEN "walk" ELSE "up_lock")
    /\ left[t] > 0
    /\ left' = [left EXCEPT ![t] = @ - 1]
    /\ req' = [req EXCEPT ![t] = r]
    /\ stack' = [stack EXCEPT ![t] = IF r = Show THEN <<Frame(Root)>> ELSE <<>>]
    /\ UNCHANGED <<cnt, mutex, ans, view, crashed>>

Respond(t) ==
    /\ Goto(t, "respond", "idle")
    /\ req' = [req EXCEPT ![t] = NoReq]
    /\ ans' = [ans EXCEPT ![t] = "none"]
    /\ view' = [view EXCEPT ![t] = <<>>]
    /\ UNCHANGED <<cnt, mutex, left, stack, crashed>>
-----------------------------------------------------------------------------
(* update_stock                                                            *)

\* Mutant: update_stock does not lock the stock.
UpdateUnlocked(t) ==
    /\ Goto(t, "up_lock", "up_check")
    /\ req[t].id \in Stocks
    /\ UNCHANGED <<cnt, mutex, req, ans, view, left, stack, crashed>>

UpdateLock(t) ==
    /\ Goto(t, "up_lock", "up_check")
    /\ req[t].id \in Stocks
    /\ P(req[t].id)
    /\ UNCHANGED <<cnt, req, ans, view, left, stack, crashed>>

\* P(&target_stock->mutex) with target_stock == NULL.
UpdateUnknown(t) ==
    /\ ~crashed /\ pc[t] = "up_lock"
    /\ req[t].id \notin Stocks
    /\ crashed' = TRUE
    /\ UNCHANGED <<cnt, mutex, pc, req, ans, view, left, stack>>

UpdateEnough(t) ==
    /\ Goto(t, "up_check", "up_add")
    /\ NewCnt(t) >= 0
    /\ UNCHANGED <<cnt, mutex, req, ans, view, left, stack, crashed>>

\* Mutant: NOT_ENOUGH is returned without V(&target_stock->mutex).
UpdateKeepsLock(t) ==
    /\ Goto(t, "up_check", "respond")
    /\ NewCnt(t) < 0
    /\ ans' = [ans EXCEPT ![t] = "NOT_ENOUGH"]
    /\ UNCHANGED <<cnt, mutex, req, view, left, stack, crashed>>

UpdateNotEnough(t) ==
    /\ Goto(t, "up_check", "up_unlock")
    /\ NewCnt(t) < 0
    /\ ans' = [ans EXCEPT ![t] = "NOT_ENOUGH"]
    /\ UNCHANGED <<cnt, mutex, req, view, left, stack, crashed>>

UpdateAdd(t) ==
    /\ Goto(t, "up_add", "up_unlock")
    /\ cnt' = [cnt EXCEPT ![req[t].id] = NewCnt(t)]
    /\ ans' = [ans EXCEPT ![t] = "SUCCESS"]
    /\ UNCHANGED <<mutex, req, view, left, stack, crashed>>

UpdateUnlock(t) ==
    /\ Goto(t, "up_unlock", "respond")
    /\ V(req[t].id)
    /\ UNCHANGED <<cnt, req, ans, view, left, stack, crashed>>

update_stock(t) == \/ UpdateLock(t) \/ UpdateUnknown(t) \/ UpdateEnough(t)
                   \/ UpdateNotEnough(t) \/ UpdateAdd(t) \/ UpdateUnlock(t)
-----------------------------------------------------------------------------
(* set_stocks_info, by its topmost activation                              *)

Walking(t, at) == ~crashed /\ pc[t] = "walk" /\ Top(t).at = at
Reach(t, at) == [stack[t] EXCEPT ![Len(stack[t])].at = at]

\* Mutant: set_stocks_info does not lock the stock.
WalkUnlocked(t) ==
    /\ Walking(t, "lock")
    /\ stack' = [stack EXCEPT ![t] = Reach(t, "copy")]
    /\ UNCHANGED <<cnt, mutex, pc, req, ans, view, left, crashed>>

WalkLock(t) ==
    /\ Walking(t, "lock")
    /\ P(Top(t).node)
    /\ stack' = [stack EXCEPT ![t] = Reach(t, "copy")]
    /\ UNCHANGED <<cnt, pc, req, ans, view, left, crashed>>

WalkCopy(t) ==
    /\ Walking(t, "copy")
    /\ view' = [view EXCEPT ![t] = Append(@, cnt[Top(t).node])]
    /\ stack' = [stack EXCEPT ![t] = Push(Reach(t, "right"), LeftOf[Top(t).node])]
    /\ UNCHANGED <<cnt, mutex, pc, req, ans, left, crashed>>

WalkRight(t) ==
    /\ Walking(t, "right")
    /\ stack' = [stack EXCEPT ![t] = Push(Reach(t, "unlock"), RightOf[Top(t).node])]
    /\ UNCHANGED <<cnt, mutex, pc, req, ans, view, left, crashed>>

WalkUnlock(t) ==
    /\ Walking(t, "unlock")
    /\ V(Top(t).node)
    /\ stack' = [stack EXCEPT ![t] = SubSeq(@, 1, Len(@) - 1)]
    /\ pc' = [pc EXCEPT ![t] = IF Len(stack[t]) = 1 THEN "respond" ELSE "walk"]
    /\ UNCHANGED <<cnt, req, ans, view, left, crashed>>

set_stocks_info(t) == WalkLock(t) \/ WalkCopy(t) \/ WalkRight(t) \/ WalkUnlock(t)
-----------------------------------------------------------------------------
Step(t) == update_stock(t) \/ set_stocks_info(t) \/ Respond(t)

\* All clients are done, or the process is dead.
Finished ==
    /\ crashed \/ \A t \in Threads : pc[t] = "idle" /\ left[t] = 0
    /\ UNCHANGED vars

Next == \/ \E t \in Threads : Step(t) \/ \E r \in Requests : Receive(t, r)
        \/ Finished

Spec == Init /\ [][Next]_vars

FairSpec == Spec /\ \A t \in Threads : WF_vars(Step(t))
-----------------------------------------------------------------------------
(* Properties                                                              *)

\* Types of the stocks, of the threads' locals and of the activations.
Frames == [node : Stocks, at : {"lock", "copy", "right", "unlock"}]
WritePcs == {"up_check", "up_add", "up_unlock"}
TypeOK ==
    /\ cnt \in [Stocks -> 0..IntMax]
    /\ mutex \in [Stocks -> 0..1]
    /\ pc \in [Threads -> {"idle", "respond", "up_lock", "walk"} \cup WritePcs]
    /\ req \in [Threads -> Requests \cup {NoReq}]
    /\ ans \in [Threads -> {"none", "SUCCESS", "NOT_ENOUGH"}]
    /\ view \in [Threads -> Seq(0..IntMax)]
    /\ left \in [Threads -> 0..OrdersPerClient]
    /\ stack \in [Threads -> Seq(Frames)]
    /\ crashed \in BOOLEAN

\* While a show is still below a stock, the count it has listed for that
\* stock is the current one: the lines of a path of the tree, the whole
\* reply when the tree is a chain, are a snapshot.
PlaceOf(s) == CHOOSE i \in 1..Len(Order) : Order[i] = s
PathIsSnapshot ==
    \A t \in Threads :
        \A f \in {stack[t][k] : k \in 1..Len(stack[t])} :
            f.at \in {"right", "unlock"} => view[t][PlaceOf(f.node)] = cnt[f.node]

\* The handlers implement the ledger, like those with readers-writers locks:
\* updates are indivisible, and a show lists the stocks in preorder.
Ledger == INSTANCE StockLedger
ImplementsLedger == Ledger!Spec

\* Walks that hold several locks, and updates, never block each other for
\* good.
EveryRequestAnswered == \A t \in Threads : req[t] # NoReq ~> (req[t] = NoReq \/ crashed)
=============================================================================
