----------------------------- MODULE StockLedger -----------------------------
(***************************************************************************)
(* What the request handlers of the stock server promise: the table of     *)
(* stocks behaves as if every buy and every sell were one indivisible      *)
(* step, accepted exactly when the resulting count is neither negative nor *)
(* too large for an int; an unknown stock is reported as such; and a show  *)
(* looks at the stocks one after the other, each time at the current count *)
(* of one stock.                                                           *)
(***************************************************************************)
EXTENDS Integers, Sequences

CONSTANTS Threads,   \* the threads that handle requests
          Order,     \* the stocks in the order show lists them
          Requests,  \* records with fields op, id and n
          NoReq,     \* the thread has no request
          IntMax,    \* largest value of an int
          Initial    \* the counts at the start

VARIABLES cnt,       \* how many of each stock are left
          req,       \* the request each thread is handling
          ans,       \* the verdict on an update, "none" before there is one
          view       \* the counts a show has seen so far

vars == <<cnt, req, ans, view>>

Change(r) == IF r.op = "buy" THEN -r.n ELSE r.n

Init == /\ cnt = Initial
        /\ req = [t \in Threads |-> NoReq]
        /\ ans = [t \in Threads |-> "none"]
        /\ view = [t \in Threads |-> <<>>]

Begin(t, r) ==
    /\ req[t] = NoReq
    /\ req' = [req EXCEPT ![t] = r]
    /\ UNCHANGED <<cnt, ans, view>>

Updating(t) == req[t] # NoReq /\ req[t].op # "show" /\ ans[t] = "none"
Known(t) == \E i \in 1..Len(Order) : Order[i] = req[t].id
Sum(t) == cnt[req[t].id] + Change(req[t])

Grant(t) ==
    /\ Updating(t) /\ Known(t)
    /\ Sum(t) \in 0..IntMax
    /\ cnt' = [cnt EXCEPT ![req[t].id] = Sum(t)]
    /\ ans' = [ans EXCEPT ![t] = "SUCCESS"]
    /\ UNCHANGED <<req, view>>

Refuse(t) ==
    /\ Updating(t) /\ Known(t)
    /\ Sum(t) \notin 0..IntMax
    /\ ans' = [ans EXCEPT ![t] = "NOT_ENOUGH"]
    /\ UNCHANGED <<cnt, req, view>>

Miss(t) ==
    /\ Updating(t) /\ ~Known(t)
    /\ ans' = [ans EXCEPT ![t] = "NOT_FOUND"]
    /\ UNCHANGED <<cnt, req, view>>

Look(t) ==
    /\ req[t] # NoReq /\ req[t].op = "show"
    /\ Len(view[t]) < Len(Order)
    /\ view' = [view EXCEPT ![t] = Append(@, cnt[Order[Len(@) + 1]])]
    /\ UNCHANGED <<cnt, req, ans>>

Answered(t) == IF req[t].op = "show" THEN Len(view[t]) = Len(Order)
                                     ELSE ans[t] # "none"

Respond(t) ==
    /\ req[t] # NoReq /\ Answered(t)
    /\ req' = [req EXCEPT ![t] = NoReq]
    /\ ans' = [ans EXCEPT ![t] = "none"]
    /\ view' = [view EXCEPT ![t] = <<>>]
    /\ UNCHANGED cnt

Next == \E t \in Threads : \/ \E r \in Requests : Begin(t, r)
                           \/ Grant(t) \/ Refuse(t) \/ Miss(t) \/ Look(t) \/ Respond(t)

Spec == Init /\ [][Next]_vars
=============================================================================
