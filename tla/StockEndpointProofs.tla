------------------------- MODULE StockEndpointProofs -------------------------
(***************************************************************************)
(* Theorems about StockEndpoint: for any number of threads, stocks and     *)
(* requests and any width of int, its types hold, the readers-writers lock *)
(* of stock_endpoint.c excludes, it goes back to its initial state, and    *)
(* the handlers implement StockLedger.  Four facts about the lock and two  *)
(* about the handlers' locals make the invariant inductive.                *)
(***************************************************************************)
EXTENDS StockEndpoint, FiniteSetTheorems, TLAPS

\* The values of pc, and those at which a thread
Pcs == {"idle", "respond", "up_lock", "rd_enter"} \cup WritePcs \cup ReadPcs \cup GatePcs
\* executes update_stock,
UpPcs == {"up_lock"} \cup WritePcs
\* executes set_stocks_info and has not copied the count of this stock,
BeforeCopy == {"rd_enter", "rd_count", "rd_first", "rd_entered", "rd_copy"}
\* or has copied it,
AfterCopy == {"rd_leave", "rd_uncount", "rd_last", "rd_left"}
\* is counted in read_cnt,
InsidePcs == {"rd_first", "rd_entered", "rd_copy", "rd_leave", "rd_uncount"}
\* or is one of the readers on whose behalf mutex is locked.
HoldPcs == {"rd_entered", "rd_copy", "rd_leave", "rd_uncount", "rd_last"}
Inside(s) == {t \in Threads : pc[t] \in InsidePcs /\ At(t) = s}
Holders(s) == {t \in Threads : pc[t] \in HoldPcs /\ At(t) = s}

\* A thread has a request of the kind its program counter says.
ReqInv ==
    \A t \in Threads :
        /\ pc[t] = "idle" <=> req[t] = NoReq
        /\ pc[t] \in UpPcs => req[t] \in Updates
        /\ pc[t] \in WritePcs => req[t].id \in Stocks
        /\ pc[t] \in BeforeCopy \cup AfterCopy => req[t] = Show
\* mutex_read admits one thread to read_cnt, and is locked while it is there.
GateInv ==
    \A s \in Stocks :
        /\ \A t, u \in AtGate(s) : t = u
        /\ mutexRead[s] = IF AtGate(s) = {} THEN 1 ELSE 0
\* mutex is locked exactly while there is one writer or some holding readers.
WriteInv ==
    \A s \in Stocks :
        /\ \A t, u \in Writers(s) : t = u
        /\ Writers(s) = {} \/ Holders(s) = {}
        /\ mutex[s] = IF Writers(s) \cup Holders(s) = {} THEN 1 ELSE 0
\* read_cnt counts the readers inside, and a thread that has found it to be
\* the first or the last of them still is: nobody passes the gate meanwhile.
CountInv ==
    /\ \A s \in Stocks : readCnt[s] = Cardinality(Inside(s))
    /\ \A t \in Threads : pc[t] = "rd_first" => readCnt[At(t)] = 1
    /\ \A t \in Threads : pc[t] = "rd_last" => readCnt[At(t)] = 0
\* The test of update_stock still holds when the count is written.
CheckInv ==
    \A t \in Threads : pc[t] = "up_add" => NewCnt(t) >= 0
\* The locals ans and view are as far as the program counter says.
AnswerInv ==
    \A t \in Threads :
        /\ pc[t] \in {"idle", "up_lock", "up_check", "up_add"} => ans[t] = "none"
        /\ pc[t] = "up_unlock" => ans[t] # "none"
        /\ pc[t] = "respond" /\ req[t] # Show => ans[t] # "none"
        /\ pc[t] = "idle" => view[t] = <<>> 
        /\ pc[t] \in BeforeCopy => Len(view[t]) = pos[t] - 1
        /\ pc[t] \in AfterCopy => Len(view[t]) = pos[t]
        /\ pc[t] = "respond" /\ req[t] = Show => Len(view[t]) = Size
\* The inductive invariant.
IInv == TypeOK /\ ReqInv /\ GateInv /\ WriteInv /\ CountInv /\ CheckInv /\ AnswerInv

\* Every thread but t stays where it is.
Others(t) == \A u \in Threads \ {t} : pc'[u] = pc[u] /\ req'[u] = req[u] /\ pos'[u] = pos[u]

\* Of the threads in S, those in T after a step of t: t is in S when here
\* holds, and in T when there holds; the others do not move.
Moves(S, T, t, here, there) ==
    /\ t \in S <=> here
    /\ there => T = S \cup {t}
    /\ ~there => T = S \ {t}
    /\ (here <=> there) => T = S

-----------------------------------------------------------------------------
(* One thread moves                                                        *)

\* A step of t changes the writers of a stock by t at most.
LEMMA WritersStep ==
    ASSUME NEW t \in Threads, Others(t), NEW s
    PROVE  Moves(Writers(s), Writers(s)', t, pc[t] \in WritePcs /\ At(t) = s,
                                     pc'[t] \in WritePcs /\ At(t)' = s)
<1>1. \A u \in Threads \ {t} : At(u)' = At(u)
  BY DEF Others, At
<1>2. t \in Writers(s)' <=> pc'[t] \in WritePcs /\ At(t)' = s
  BY DEF Writers
<1>3. \A u \in Threads \ {t} : u \in Writers(s)' <=> u \in Writers(s)
  BY <1>1 DEF Others, Writers
<1>4. Writers(s) \subseteq Threads /\ Writers(s)' \subseteq Threads
  BY DEF Writers
<1> QED BY <1>2, <1>3, <1>4 DEF Moves, Writers

\* The same for the readers that hold the write lock,
LEMMA HoldersStep ==
    ASSUME NEW t \in Threads, Others(t), NEW s
    PROVE  Moves(Holders(s), Holders(s)', t, pc[t] \in HoldPcs /\ At(t) = s,
                                     pc'[t] \in HoldPcs /\ At(t)' = s)
<1>1. \A u \in Threads \ {t} : At(u)' = At(u)
  BY DEF Others, At
<1>2. t \in Holders(s)' <=> pc'[t] \in HoldPcs /\ At(t)' = s
  BY DEF Holders
<1>3. \A u \in Threads \ {t} : u \in Holders(s)' <=> u \in Holders(s)
  BY <1>1 DEF Others, Holders
<1>4. Holders(s) \subseteq Threads /\ Holders(s)' \subseteq Threads
  BY DEF Holders
<1> QED BY <1>2, <1>3, <1>4 DEF Moves, Holders

\* for the threads at the gate,
LEMMA AtGateStep ==
    ASSUME NEW t \in Threads, Others(t), NEW s
    PROVE  Moves(AtGate(s), AtGate(s)', t, pc[t] \in GatePcs /\ At(t) = s,
                                     pc'[t] \in GatePcs /\ At(t)' = s)
<1>1. \A u \in Threads \ {t} : At(u)' = At(u)
  BY DEF Others, At
<1>2. t \in AtGate(s)' <=> pc'[t] \in GatePcs /\ At(t)' = s
  BY DEF AtGate
<1>3. \A u \in Threads \ {t} : u \in AtGate(s)' <=> u \in AtGate(s)
  BY <1>1 DEF Others, AtGate
<1>4. AtGate(s) \subseteq Threads /\ AtGate(s)' \subseteq Threads
  BY DEF AtGate
<1> QED BY <1>2, <1>3, <1>4 DEF Moves, AtGate

\* and for the readers that read_cnt counts.
LEMMA InsideStep ==
    ASSUME NEW t \in Threads, Others(t), NEW s
    PROVE  Moves(Inside(s), Inside(s)', t, pc[t] \in InsidePcs /\ At(t) = s,
                                     pc'[t] \in InsidePcs /\ At(t)' = s)
<1>1. \A u \in Threads \ {t} : At(u)' = At(u)
  BY DEF Others, At
<1>2. t \in Inside(s)' <=> pc'[t] \in InsidePcs /\ At(t)' = s
  BY DEF Inside
<1>3. \A u \in Threads \ {t} : u \in Inside(s)' <=> u \in Inside(s)
  BY <1>1 DEF Others, Inside
<1>4. Inside(s) \subseteq Threads /\ Inside(s)' \subseteq Threads
  BY DEF Inside
<1> QED BY <1>2, <1>3, <1>4 DEF Moves, Inside

\* A step of t leaves the others alone.
LEMMA OthersStay ==
    ASSUME TypeOK, NEW t \in Threads,
           Step(t) \/ \E r \in Requests : Receive(t, r)
    PROVE  Others(t)
<1> USE DEF TypeOK, Others, Goto
<1>1. CASE update_stock(t)
  BY <1>1
     DEF update_stock, UpdateLock, UpdateUnknown, UpdateEnough, UpdateNotEnough,
              UpdateAdd, UpdateUnlock
<1>2. CASE set_stocks_info(t)
  BY <1>2
     DEF set_stocks_info, ReadEnter, ReadCount, ReadFirst, ReadEntered, ReadCopy,
              ReadLeave, ReadUncount, ReadLast, ReadLeft
<1>3. CASE Respond(t)
  BY <1>3 DEF Respond
<1>4. CASE \E r \in Requests : Receive(t, r)
  BY <1>4 DEF Receive
<1> QED BY <1>1, <1>2, <1>3, <1>4 DEF Step


-----------------------------------------------------------------------------
(* Each part of the invariant is preserved                                 *)

\* process_request tells a show from a buy or a sell.
LEMMA ShowIsNoUpdate ==
    /\ Show.op = "show"
    /\ \A r \in Updates : r.op # "show" /\ r # Show /\ r.id \in Stocks \cup UnknownIds
  BY DEF Show, Updates

\* A thread inside a handler works on a stock of the tree.
LEMMA AtStocks ==
    ASSUME TypeOK, ReqInv, NEW t \in Threads, pc[t] \in WritePcs \cup BeforeCopy \cup AfterCopy
    PROVE  At(t) \in Stocks
<1>1. CASE pc[t] \in WritePcs
  BY <1>1, ShowIsNoUpdate DEF ReqInv, At, UpPcs
<1>2. CASE pc[t] \in BeforeCopy \cup AfterCopy
  BY <1>2, EndpointAssumption, ShowIsNoUpdate DEF TypeOK, ReqInv, At, Stocks, Size
<1> QED BY <1>1, <1>2

\* Receive and Respond are the only steps that change a request.
LEMMA ReqStep ==
    ASSUME TypeOK, ReqInv, NEW t \in Threads, Others(t),
           Step(t) \/ \E r \in Requests : Receive(t, r)
    PROVE  ReqInv'
<1> DEFINE Good(u) == /\ pc[u] = "idle" <=> req[u] = NoReq
                      /\ pc[u] \in UpPcs => req[u] \in Updates
                      /\ pc[u] \in WritePcs => req[u].id \in Stocks
                      /\ pc[u] \in BeforeCopy \cup AfterCopy => req[u] = Show
<1>1. \A u \in Threads \ {t} : Good(u)'
  BY DEF Others, ReqInv
<1>types. pc \in [Threads -> Pcs] /\ req \in [Threads -> Requests \cup {NoReq}]
  BY DEF TypeOK, Pcs
<1>good. Good(t)
  BY DEF ReqInv
<1>noreq. NoReq # Show /\ NoReq \notin Updates /\ NoReq \notin Requests
  BY EndpointAssumption DEF Requests
<1> SUFFICES Good(t)'
  BY <1>1 DEF ReqInv
<1> USE <1>types, <1>good, <1>noreq, ShowIsNoUpdate
        DEF Goto, UpPcs, WritePcs, BeforeCopy, AfterCopy
<1>2. CASE update_stock(t)
  <2>1. CASE UpdateLock(t)
    BY <2>1 DEF UpdateLock, At
  <2>2. CASE UpdateUnknown(t) 
    BY <2>2 DEF UpdateUnknown
  <2>3. CASE UpdateEnough(t) \/ UpdateNotEnough(t) \/ UpdateAdd(t) \/ UpdateUnlock(t)
    BY <2>3 DEF UpdateEnough, UpdateNotEnough, UpdateAdd, UpdateUnlock
  <2> QED BY <1>2, <2>1, <2>2, <2>3 DEF update_stock
<1>3. CASE set_stocks_info(t)
  BY <1>3
     DEF set_stocks_info, ReadEnter, ReadCount, ReadFirst, ReadEntered, ReadCopy,
              ReadLeave, ReadUncount, ReadLast, ReadLeft
<1>4. CASE Respond(t)
  BY <1>4 DEF Respond
<1>5. CASE \E r \in Requests : Receive(t, r)
  BY <1>5 DEF Receive, Requests
<1> QED BY <1>2, <1>3, <1>4, <1>5 DEF Step

\* Only sem_wait and sem_post on mutex_read move a thread over the gate.
LEMMA GateStep ==
    ASSUME TypeOK, ReqInv, GateInv, NEW t \in Threads, Others(t),
           Step(t) \/ \E r \in Requests : Receive(t, r)
    PROVE  GateInv'
<1>1. \A s \in Stocks : Moves(AtGate(s), AtGate(s)', t, pc[t] \in GatePcs /\ At(t) = s,
                                                     pc'[t] \in GatePcs /\ At(t)' = s)
  BY AtGateStep
<1>2. pc[t] \in WritePcs \cup BeforeCopy \cup AfterCopy => At(t) \in Stocks
  BY AtStocks
<1>3. \A s \in Stocks : t \in AtGate(s) <=> pc[t] \in GatePcs /\ At(t) = s
  BY DEF AtGate
<1>types. pc \in [Threads -> Pcs] /\ mutexRead \in [Stocks -> 0..1]
  BY DEF TypeOK, Pcs
\* A step that keeps t on its side of the gate.
<1>4. ASSUME mutexRead' = mutexRead, pc[t] \in GatePcs <=> pc'[t] \in GatePcs,
             pc[t] \in GatePcs => At(t)' = At(t)
      PROVE  GateInv'
  <2>1. \A s \in Stocks : AtGate(s)' = AtGate(s)
    BY <1>1, <1>3, <1>4 DEF Moves
  <2> QED BY <1>4, <2>1 DEF GateInv
<1>5. CASE update_stock(t)
  <2>1. mutexRead' = mutexRead /\ pc[t] \notin GatePcs /\ pc'[t] \notin GatePcs
    BY <1>types, <1>5
       DEF update_stock, UpdateLock, UpdateUnknown, UpdateEnough, UpdateNotEnough,
                UpdateAdd, UpdateUnlock, locks, GatePcs, Goto
  <2> QED BY <2>1, <1>4
<1>6. CASE Respond(t) \/ \E r \in Requests : Receive(t, r)
  <2>1. mutexRead' = mutexRead /\ pc[t] \notin GatePcs /\ pc'[t] \notin GatePcs
    BY <1>types, <1>6 DEF Respond, Receive, locks, GatePcs, Goto
  <2> QED BY <2>1, <1>4
<1>7. CASE ReadCount(t) \/ ReadFirst(t) \/ ReadCopy(t) \/ ReadUncount(t) \/ ReadLast(t)
  <2>1. mutexRead' = mutexRead /\ (pc[t] \in GatePcs <=> pc'[t] \in GatePcs)
    BY <1>types, <1>7
       DEF ReadCount, ReadFirst, ReadCopy, ReadUncount, ReadLast, locks, GatePcs,
           Goto
  <2>2. At(t)' = At(t)
    BY <1>7 DEF ReadCount, ReadFirst, ReadCopy, ReadUncount, ReadLast, At
  <2> QED BY <2>1, <2>2, <1>4
<1>8. CASE ReadEnter(t) \/ ReadLeave(t)
  <2>1. At(t)' = At(t) /\ At(t) \in Stocks
    BY <1>2, <1>8 DEF ReadEnter, ReadLeave, At, Goto, BeforeCopy, AfterCopy
  <2>2. /\ pc'[t] \in GatePcs
        /\ mutexRead[At(t)] = 1
        /\ mutexRead' = [mutexRead EXCEPT ![At(t)] = 0]
    BY <1>types, <2>1, <1>8 DEF ReadEnter, ReadLeave, P, Goto, GatePcs
  <2>3. AtGate(At(t)) = {}
    BY <2>1, <2>2 DEF GateInv
  <2>4. \A s \in Stocks : AtGate(s)' = IF s = At(t) THEN {t} ELSE AtGate(s)
    BY <1>1, <1>3, <2>1, <2>2, <2>3 DEF Moves
  <2> QED BY <1>types, <2>1, <2>2, <2>4 DEF GateInv
<1>9. CASE ReadEntered(t) \/ ReadLeft(t)
  <2>1. At(t) \in Stocks /\ t \in AtGate(At(t)) /\ pc'[t] \notin GatePcs
    BY <1>types, <1>2, <1>3, <1>9
       DEF ReadEntered, ReadLeft, Goto, BeforeCopy, AfterCopy, GatePcs
  <2>2. mutexRead[At(t)] = 0 /\ mutexRead' = [mutexRead EXCEPT ![At(t)] = 1]
    BY <1>types, <2>1, <1>9 DEF ReadEntered, ReadLeft, V, GateInv
  <2>3. AtGate(At(t)) = {t}
    BY <2>1 DEF GateInv
  <2>4. \A s \in Stocks : AtGate(s)' = IF s = At(t) THEN {} ELSE AtGate(s)
    BY <1>1, <1>3, <2>1, <2>3 DEF Moves
  <2> QED BY <1>types, <2>1, <2>2, <2>4 DEF GateInv
<1> QED BY <1>5, <1>6, <1>7, <1>8, <1>9 DEF Step, set_stocks_info

\* Writers and readers come to own the lock only when it is free, or, for a
\* reader, when other readers hold it: the first and the last reader are the
\* ones that call sem_wait and sem_post.
LEMMA WriteStep ==
    ASSUME TypeOK, ReqInv, GateInv, WriteInv, CountInv, NEW t \in Threads, Others(t),
           Step(t) \/ \E r \in Requests : Receive(t, r)
    PROVE  WriteInv'
<1>at. PICK a : a = At(t)
  OBVIOUS
<1> USE <1>at
<1>1. \A s \in Stocks :
        /\ Moves(Writers(s), Writers(s)', t, pc[t] \in WritePcs /\ At(t) = s,
                                             pc'[t] \in WritePcs /\ At(t)' = s)
        /\ Moves(Holders(s), Holders(s)', t, pc[t] \in HoldPcs /\ At(t) = s,
                                             pc'[t] \in HoldPcs /\ At(t)' = s)
  BY WritersStep, HoldersStep
<1>2. pc[t] \in WritePcs \cup BeforeCopy \cup AfterCopy => At(t) \in Stocks
  BY AtStocks
<1>3. \A s \in Stocks : /\ t \in Writers(s) <=> pc[t] \in WritePcs /\ At(t) = s
                        /\ t \in Holders(s) <=> pc[t] \in HoldPcs /\ At(t) = s
  BY DEF Writers, Holders
<1>types. pc \in [Threads -> Pcs] /\ mutex \in [Stocks -> 0..1] /\ readCnt \in [Stocks -> Nat]
  BY DEF TypeOK, Pcs
<1>inside. \A s \in Stocks : \A u \in Inside(s) :
         /\ u \in Threads /\ pc[u] \in InsidePcs /\ At(u) = s
         /\ u \notin AtGate(s) => u \in Holders(s)
  BY DEF Inside, AtGate, Holders, InsidePcs, HoldPcs, GatePcs
\* A step that keeps t on its side of the write lock.
<1>4. ASSUME mutex' = mutex,
             pc[t] \in WritePcs <=> pc'[t] \in WritePcs,
             pc[t] \in HoldPcs <=> pc'[t] \in HoldPcs,
             pc[t] \in WritePcs \cup HoldPcs => At(t)' = At(t)
      PROVE  WriteInv'
  <2>1. \A s \in Stocks : Writers(s)' = Writers(s) /\ Holders(s)' = Holders(s)
    BY <1>1, <1>3, <1>4 DEF Moves
  <2> QED BY <1>4, <2>1 DEF WriteInv
<1>5. CASE UpdateUnknown(t) \/ UpdateEnough(t) \/ UpdateNotEnough(t) \/ UpdateAdd(t)
  <2>1. mutex' = mutex /\ (pc[t] \in WritePcs <=> pc'[t] \in WritePcs)
        /\ pc[t] \notin HoldPcs /\ pc'[t] \notin HoldPcs
    BY <1>types, <1>5
       DEF UpdateUnknown, UpdateEnough, UpdateNotEnough, UpdateAdd, locks,
                      WritePcs, HoldPcs, Goto
  <2>2. At(t)' = At(t)
    BY <1>5 DEF UpdateUnknown, UpdateEnough, UpdateNotEnough, UpdateAdd, At
  <2> QED BY <2>1, <2>2, <1>4
<1>6. CASE UpdateLock(t)
  <2>1. a \in Stocks /\ At(t)' = a
    BY <1>6 DEF UpdateLock, At
  <2>2. /\ pc'[t] \in WritePcs /\ pc'[t] \notin HoldPcs
        /\ pc[t] \notin WritePcs /\ pc[t] \notin HoldPcs
    BY <1>types, <1>6 DEF UpdateLock, Goto, WritePcs, HoldPcs
  <2>3. mutex[a] = 1
    BY <1>types, <1>6, <2>1 DEF UpdateLock, P
  <2>4. mutex' = [mutex EXCEPT ![a] = 0]
    BY <1>6, <2>3 DEF UpdateLock, P
  <2>5. Writers(a) = {} /\ Holders(a) = {}
    BY <2>1, <2>3 DEF WriteInv
  <2>6. Writers(a)' = {t}
    BY <1>1, <1>3, <2>1, <2>2, <2>5 DEF Moves
  <2>7. \A s \in Stocks \ {a} : Writers(s)' = Writers(s)
    BY <1>1, <1>3, <2>1, <2>2, <2>5 DEF Moves
  <2>8. \A s \in Stocks : Holders(s)' = Holders(s)
    BY <1>1, <1>3, <2>1, <2>2, <2>5 DEF Moves
  <2> QED BY <1>types, <2>1, <2>2, <2>4, <2>3, <2>5, <2>6, <2>7, <2>8 DEF WriteInv
<1>7. CASE UpdateUnlock(t)
  <2>1. a \in Stocks /\ At(t)' = a
    BY <1>2, <1>7 DEF UpdateUnlock, At, Goto, WritePcs
  <2>2. /\ pc'[t] \notin WritePcs /\ pc'[t] \notin HoldPcs
        /\ t \in Writers(a) /\ pc[t] \notin HoldPcs
    BY <1>types, <1>3, <1>7, <2>1 DEF UpdateUnlock, Goto, WritePcs, HoldPcs
  <2>3. Writers(a) = {t} /\ Holders(a) = {} /\ mutex[a] = 0
    BY <2>1, <2>2 DEF WriteInv
  <2>4. mutex' = [mutex EXCEPT ![a] = 1]
    BY <1>types, <1>7, <2>1, <2>3 DEF UpdateUnlock, V
  <2>5. Writers(a)' = {}
    BY <1>1, <1>3, <2>1, <2>2, <2>3 DEF Moves
  <2>6. \A s \in Stocks \ {a} : Writers(s)' = Writers(s)
    BY <1>1, <1>3, <2>1, <2>2, <2>3 DEF Moves
  <2>7. \A s \in Stocks : Holders(s)' = Holders(s)
    BY <1>1, <1>3, <2>1, <2>2, <2>3 DEF Moves
  <2> QED BY <1>types, <2>1, <2>3, <2>4, <2>5, <2>6, <2>7 DEF WriteInv
<1>8. CASE ReadEnter(t) \/ ReadEntered(t) \/ ReadCopy(t) \/ ReadLeave(t) \/ ReadLeft(t)
  <2>1. mutex' = mutex /\ (pc[t] \in HoldPcs <=> pc'[t] \in HoldPcs)
        /\ pc[t] \notin WritePcs /\ pc'[t] \notin WritePcs
    BY <1>types, <1>8
       DEF ReadEnter, ReadEntered, ReadCopy, ReadLeave, ReadLeft, locks,
                      WritePcs, HoldPcs, Goto
  <2>2. pc[t] \in HoldPcs => At(t)' = At(t)
    BY <1>8
       DEF ReadEnter, ReadEntered, ReadCopy, ReadLeave, ReadLeft, At, Goto,
           HoldPcs
  <2> QED BY <2>1, <2>2, <1>4
<1>9. CASE ReadCount(t)
  <2>1. a \in Stocks /\ At(t)' = a /\ t \in AtGate(a) /\ t \notin Inside(a)
    BY <1>2, <1>9
       DEF ReadCount, At, Goto, BeforeCopy, AtGate, GatePcs, Inside, InsidePcs
  <2>2. CASE readCnt[a] + 1 = 1
    <3>1. mutex' = mutex /\ pc[t] \notin HoldPcs /\ pc'[t] \notin HoldPcs
          /\ pc[t] \notin WritePcs /\ pc'[t] \notin WritePcs
      BY <1>types, <1>9, <2>2 DEF ReadCount, WritePcs, HoldPcs, Goto
    <3> QED BY <3>1, <1>4
  <2>3. CASE readCnt[a] + 1 # 1
    <3>1. /\ mutex' = mutex /\ pc[t] \notin HoldPcs /\ pc'[t] \in HoldPcs
          /\ pc[t] \notin WritePcs /\ pc'[t] \notin WritePcs
      BY <1>types, <1>9, <2>3 DEF ReadCount, WritePcs, HoldPcs, Goto
    <3>2. PICK u : u \in Inside(a)
      <4>1. Cardinality(Inside(a)) # 0
        BY <1>types, <2>1, <2>3 DEF CountInv
      <4> QED BY <4>1, FS_EmptySet
    <3>3. u \notin AtGate(a)
      BY <2>1, <3>2 DEF GateInv
    <3>4. Holders(a) # {} /\ Writers(a) = {}
      BY <1>inside, <2>1, <3>2, <3>3 DEF WriteInv
    <3>5. \A s \in Stocks : Writers(s)' = Writers(s)
      BY <1>1, <1>3, <2>1, <3>1 DEF Moves
    <3>6. Holders(a)' = Holders(a) \cup {t}
      BY <1>1, <1>3, <2>1, <3>1 DEF Moves
    <3>7. \A s \in Stocks \ {a} : Holders(s)' = Holders(s)
      BY <1>1, <1>3, <2>1, <3>1 DEF Moves
    <3> QED BY <2>1, <3>1, <3>4, <3>5, <3>6, <3>7 DEF WriteInv
  <2> QED BY <2>2, <2>3
<1>10. CASE ReadFirst(t)
  <2>1. a \in Stocks /\ At(t)' = a
    BY <1>2, <1>10 DEF ReadFirst, At, Goto, BeforeCopy
  <2>2. /\ pc'[t] \notin WritePcs /\ pc'[t] \in HoldPcs
        /\ pc[t] \notin WritePcs /\ pc[t] \notin HoldPcs
    BY <1>types, <1>10 DEF ReadFirst, Goto, WritePcs, HoldPcs
  <2>3. mutex[a] = 1
    BY <1>types, <1>10, <2>1 DEF ReadFirst, P
  <2>4. mutex' = [mutex EXCEPT ![a] = 0]
    BY <1>10, <2>3 DEF ReadFirst, P
  <2>5. Writers(a) = {} /\ Holders(a) = {}
    BY <2>1, <2>3 DEF WriteInv
  <2>6. Holders(a)' = {t}
    BY <1>1, <1>3, <2>1, <2>2, <2>5 DEF Moves
  <2>7. \A s \in Stocks \ {a} : Holders(s)' = Holders(s)
    BY <1>1, <1>3, <2>1, <2>2, <2>5 DEF Moves
  <2>8. \A s \in Stocks : Writers(s)' = Writers(s)
    BY <1>1, <1>3, <2>1, <2>2, <2>5 DEF Moves
  <2> QED BY <1>types, <2>1, <2>2, <2>4, <2>3, <2>5, <2>6, <2>7, <2>8 DEF WriteInv
<1>11. CASE ReadUncount(t)
  <2>1. /\ a \in Stocks /\ At(t)' = a /\ t \in AtGate(a) /\ t \in Inside(a)
        /\ pc[t] \in HoldPcs /\ pc[t] \notin WritePcs
    BY <1>2, <1>11
       DEF ReadUncount, At, Goto, AfterCopy, AtGate, GatePcs, Inside, InsidePcs,
           HoldPcs, WritePcs
  <2>2. CASE readCnt[a] - 1 = 0
    <3>1. mutex' = mutex /\ pc'[t] \in HoldPcs /\ pc'[t] \notin WritePcs
      BY <1>types, <1>11, <2>2 DEF ReadUncount, WritePcs, HoldPcs, Goto
    <3> QED BY <2>1, <3>1, <1>4
  <2>3. CASE readCnt[a] - 1 # 0
    <3>1. mutex' = mutex /\ pc'[t] \notin HoldPcs /\ pc'[t] \notin WritePcs
      BY <1>types, <1>11, <2>3 DEF ReadUncount, WritePcs, HoldPcs, Goto
    <3>2. PICK u \in Inside(a) : u # t
      <4>1. Cardinality(Inside(a)) # 1
        BY <1>types, <2>1, <2>3 DEF CountInv
      <4>2. Inside(a) # {t}
        BY <4>1, FS_Singleton
      <4> QED BY <2>1, <4>2
    <3>3. u \notin AtGate(a)
      BY <2>1, <3>2 DEF GateInv
    <3>4. u \in Holders(a)
      BY <1>inside, <2>1, <3>2, <3>3
    <3>5. \A s \in Stocks : Writers(s)' = Writers(s)
      BY <1>1, <1>3, <2>1, <3>1 DEF Moves
    <3>6. Holders(a)' = Holders(a) \ {t}
      BY <1>1, <1>3, <2>1, <3>1 DEF Moves
    <3>7. \A s \in Stocks \ {a} : Holders(s)' = Holders(s)
      BY <1>1, <1>3, <2>1, <3>1 DEF Moves
    <3>8. Writers(a) = {} /\ u \in Holders(a) \ {t}
      BY <2>1, <3>2, <3>4 DEF WriteInv
    <3> QED BY <2>1, <3>1, <3>5, <3>6, <3>7, <3>8 DEF WriteInv
  <2> QED BY <2>2, <2>3
<1>12. CASE ReadLast(t)
  <2>1. /\ a \in Stocks /\ At(t)' = a /\ t \in AtGate(a) /\ t \in Holders(a)
        /\ pc[t] = "rd_last" /\ pc[t] \notin WritePcs
        /\ pc'[t] \notin HoldPcs /\ pc'[t] \notin WritePcs
    BY <1>types, <1>2, <1>12
       DEF ReadLast, At, Goto, AfterCopy, AtGate, GatePcs, Holders, HoldPcs,
           WritePcs
  <2>2. Inside(a) = {}
    <3>1. Cardinality(Inside(a)) = 0
      BY <2>1 DEF CountInv
    <3>2. IsFiniteSet(Inside(a))
      BY EndpointAssumption, FS_Subset DEF Inside
    <3> QED BY <3>1, <3>2, FS_EmptySet
  <2>3. Holders(a) = {t}
    <3>1. ASSUME NEW u \in Holders(a) PROVE u = t
      <4>1. u \in AtGate(a)
        BY <2>2 DEF Holders, Inside, AtGate, HoldPcs, InsidePcs, GatePcs
      <4> QED BY <2>1, <4>1 DEF GateInv
    <3> QED BY <2>1, <3>1
  <2>4. Writers(a) = {} /\ mutex[a] = 0
    BY <2>1, <2>3 DEF WriteInv
  <2>5. mutex' = [mutex EXCEPT ![a] = 1]
    BY <1>types, <1>12, <2>1, <2>4 DEF ReadLast, V
  <2>6. \A s \in Stocks : Writers(s)' = Writers(s)
    BY <1>1, <1>3, <2>1, <2>3 DEF Moves
  <2>7. Holders(a)' = {}
    BY <1>1, <1>3, <2>1, <2>3 DEF Moves
  <2>8. \A s \in Stocks \ {a} : Holders(s)' = Holders(s)
    BY <1>1, <1>3, <2>1, <2>3 DEF Moves
  <2> QED BY <1>types, <2>1, <2>4, <2>5, <2>6, <2>7, <2>8 DEF WriteInv
<1>13. CASE Respond(t) \/ \E r \in Requests : Receive(t, r)
  <2>1. /\ mutex' = mutex
        /\ pc[t] \notin HoldPcs /\ pc'[t] \notin HoldPcs
        /\ pc[t] \notin WritePcs /\ pc'[t] \notin WritePcs
    BY <1>types, <1>13 DEF Respond, Receive, locks, WritePcs, HoldPcs, Goto
  <2> QED BY <2>1, <1>4
<1> QED BY <1>5, <1>6, <1>7, <1>8, <1>9, <1>10, <1>11, <1>12, <1>13
        DEF Step, update_stock, set_stocks_info

\* A reader is counted when it passes ReadCount and no longer when it passes
\* ReadUncount, both at the gate.
LEMMA CountStep ==
    ASSUME TypeOK, ReqInv, GateInv, CountInv, NEW t \in Threads, Others(t),
           Step(t) \/ \E r \in Requests : Receive(t, r)
    PROVE  CountInv'
<1>at. PICK a : a = At(t)
  OBVIOUS
<1> USE <1>at
<1>1. \A s \in Stocks : Moves(Inside(s), Inside(s)', t, pc[t] \in InsidePcs /\ At(t) = s,
                                                     pc'[t] \in InsidePcs /\ At(t)' = s)
  BY InsideStep
<1>2. pc[t] \in WritePcs \cup BeforeCopy \cup AfterCopy => a \in Stocks
  BY AtStocks
<1>3. \A s \in Stocks : IsFiniteSet(Inside(s))
  BY EndpointAssumption, FS_Subset DEF Inside
<1>types. pc \in [Threads -> Pcs] /\ readCnt \in [Stocks -> Nat]
  BY DEF TypeOK, Pcs
\* Another thread that counts on read_cnt is at the gate of its stock.
<1>4. ASSUME NEW u \in Threads \ {t}, pc'[u] \in {"rd_first", "rd_last"}
      PROVE  /\ pc[u] = pc'[u] /\ At(u)' = At(u) /\ At(u) \in Stocks
             /\ u \in AtGate(At(u))
  <2>1. pc[u] = pc'[u] /\ At(u)' = At(u)
    BY DEF Others, At
  <2>2. At(u) \in Stocks
    BY <1>4, <2>1, AtStocks DEF BeforeCopy, AfterCopy
  <2> QED BY <1>4, <2>1, <2>2 DEF AtGate, GatePcs
\* A step that changes neither the count nor the threads it counts.
<1>5. ASSUME readCnt' = readCnt,
             pc[t] \in InsidePcs <=> pc'[t] \in InsidePcs,
             pc[t] \in InsidePcs => At(t)' = At(t),
             pc'[t] \notin {"rd_first", "rd_last"}
      PROVE  CountInv'
  <2>1. \A s \in Stocks : Inside(s)' = Inside(s)
    BY <1>1, <1>5 DEF Moves
  <2>2. \A s \in Stocks : readCnt'[s] = Cardinality(Inside(s)')
    BY <1>5, <2>1 DEF CountInv
  <2> QED BY <1>4, <1>5, <2>2 DEF CountInv
<1>6. CASE update_stock(t) \/ Respond(t) \/ \E r \in Requests : Receive(t, r)
  <2>1. /\ readCnt' = readCnt
        /\ pc[t] \notin InsidePcs /\ pc'[t] \notin InsidePcs
        /\ pc'[t] \notin {"rd_first", "rd_last"}
    BY <1>types, <1>6 DEF update_stock, UpdateLock, UpdateUnknown, UpdateEnough,
         UpdateNotEnough, UpdateAdd, UpdateUnlock, Respond, Receive, Goto, locks, InsidePcs
  <2> QED BY <1>5, <2>1
<1>7. CASE ReadEnter(t) \/ ReadFirst(t) \/ ReadEntered(t) \/ ReadCopy(t) \/ ReadLeave(t)
           \/ ReadLast(t) \/ ReadLeft(t)
  <2>1. /\ readCnt' = readCnt
        /\ pc[t] \in InsidePcs <=> pc'[t] \in InsidePcs
        /\ pc'[t] \notin {"rd_first", "rd_last"}
    BY <1>types, <1>7
       DEF ReadEnter, ReadFirst, ReadEntered, ReadCopy, ReadLeave, ReadLast,
                      ReadLeft, Goto, locks, InsidePcs
  <2>2. pc[t] \in InsidePcs => At(t)' = At(t)
    BY <1>7 DEF ReadEnter, ReadFirst, ReadEntered, ReadCopy, ReadLeave, ReadLast,
                ReadLeft, Goto, InsidePcs, At
  <2> QED BY <1>5, <2>1, <2>2
<1>8. CASE ReadCount(t)
  <2>1. a \in Stocks /\ At(t)' = a /\ t \in AtGate(a) /\ pc[t] \notin InsidePcs
    BY <1>2, <1>8 DEF ReadCount, At, Goto, BeforeCopy, AtGate, GatePcs, InsidePcs
  <2>2. pc'[t] \in InsidePcs
    BY <1>types, <1>8 DEF ReadCount, Goto, InsidePcs
  <2>3. /\ readCnt'[a] = readCnt[a] + 1
        /\ \A s \in Stocks \ {a} : readCnt'[s] = readCnt[s]
    BY <1>types, <1>8, <2>1 DEF ReadCount
  <2>4. Inside(a)' = Inside(a) \cup {t} /\ t \notin Inside(a)
    BY <1>1, <2>1, <2>2 DEF Moves
  <2>5. \A s \in Stocks \ {a} : Inside(s)' = Inside(s)
    BY <1>1, <2>1 DEF Moves
  <2>6. Cardinality(Inside(a) \cup {t}) = Cardinality(Inside(a)) + 1
    BY <1>3, <2>1, <2>4, FS_AddElement
  <2>7. \A s \in Stocks : readCnt'[s] = Cardinality(Inside(s)')
    BY <2>3, <2>4, <2>5, <2>6 DEF CountInv
  <2>8. /\ pc'[t] = "rd_first" => readCnt[a] + 1 = 1
        /\ pc'[t] # "rd_last"
    BY <1>types, <1>8 DEF ReadCount, Goto
  <2>9. \A u \in Threads \ {t} : pc'[u] \in {"rd_first", "rd_last"} => At(u) # a
    BY <1>4, <2>1 DEF GateInv
  <2> QED BY <1>4, <2>1, <2>3, <2>7, <2>8, <2>9 DEF CountInv
<1>9. CASE ReadUncount(t)
  <2>1. a \in Stocks /\ At(t)' = a /\ t \in AtGate(a) /\ pc[t] \in InsidePcs
    BY <1>2, <1>9 DEF ReadUncount, At, Goto, AfterCopy, AtGate, GatePcs, InsidePcs
  <2>2. pc'[t] \notin InsidePcs
    BY <1>types, <1>9 DEF ReadUncount, Goto, InsidePcs
  <2>3. /\ readCnt'[a] = readCnt[a] - 1
        /\ \A s \in Stocks \ {a} : readCnt'[s] = readCnt[s]
    BY <1>types, <1>9, <2>1 DEF ReadUncount
  <2>4. Inside(a)' = Inside(a) \ {t} /\ t \in Inside(a)
    BY <1>1, <2>1, <2>2 DEF Moves
  <2>5. \A s \in Stocks \ {a} : Inside(s)' = Inside(s)
    BY <1>1, <2>1 DEF Moves
  <2>6. Cardinality(Inside(a) \ {t}) = Cardinality(Inside(a)) - 1
    BY <1>3, <2>1, <2>4, FS_RemoveElement
  <2>7. \A s \in Stocks : readCnt'[s] = Cardinality(Inside(s)')
    BY <2>3, <2>4, <2>5, <2>6 DEF CountInv
  <2>8. /\ pc'[t] = "rd_last" => readCnt[a] - 1 = 0
        /\ pc'[t] # "rd_first"
    BY <1>types, <1>9 DEF ReadUncount, Goto
  <2>9. \A u \in Threads \ {t} : pc'[u] \in {"rd_first", "rd_last"} => At(u) # a
    BY <1>4, <2>1 DEF GateInv
  <2> QED BY <1>4, <2>1, <2>3, <2>7, <2>8, <2>9 DEF CountInv
<1> QED BY <1>6, <1>7, <1>8, <1>9 DEF Step, set_stocks_info

\* Only UpdateAdd changes a count, and only under the lock of the stock: what
\* another thread has tested stays true.
LEMMA CheckStep ==
    ASSUME TypeOK, ReqInv, WriteInv, CheckInv, NEW t \in Threads, Others(t),
           Step(t) \/ \E r \in Requests : Receive(t, r)
    PROVE  CheckInv'
<1>types. pc \in [Threads -> Pcs] /\ cnt \in [Stocks -> 0..IntMax]
  BY DEF TypeOK, Pcs
<1>1. \A u \in Threads \ {t} : pc'[u] = pc[u] /\ At(u)' = At(u) /\ req'[u] = req[u]
  BY DEF Others, At
<1>2. ASSUME cnt' = cnt, pc'[t] = "up_add" => NewCnt(t)' >= 0
      PROVE  CheckInv'
  BY <1>1, <1>2 DEF CheckInv, NewCnt
<1>3. CASE UpdateLock(t) \/ UpdateUnknown(t) \/ UpdateNotEnough(t) \/ UpdateUnlock(t)
           \/ set_stocks_info(t) \/ Respond(t) \/ \E r \in Requests : Receive(t, r)
  <2>1. cnt' = cnt /\ pc'[t] # "up_add"
    BY <1>types, <1>3
       DEF UpdateLock, UpdateUnknown, UpdateNotEnough, UpdateUnlock,
           set_stocks_info,
         ReadEnter, ReadCount, ReadFirst, ReadEntered, ReadCopy, ReadLeave, ReadUncount,
         ReadLast, ReadLeft, Respond, Receive, Goto
  <2> QED BY <1>2, <2>1
<1>4. CASE UpdateEnough(t)
  BY <1>2, <1>4 DEF UpdateEnough, NewCnt, At
<1>5. CASE UpdateAdd(t)
  <2>1. pc'[t] # "up_add" /\ At(t) \in Stocks /\ t \in Writers(At(t))
    BY <1>types, <1>5, AtStocks DEF UpdateAdd, Goto, WritePcs, Writers
  <2>2. ASSUME NEW u \in Threads, pc'[u] = "up_add"
        PROVE  NewCnt(u)' >= 0
    <3>1. u # t /\ pc[u] = "up_add" /\ NewCnt(u) >= 0
      BY <1>1, <2>1, <2>2 DEF CheckInv
    <3>2. At(u) \in Stocks /\ u \in Writers(At(u))
      BY <3>1, AtStocks DEF WritePcs, Writers
    <3>3. At(u) # At(t)
      BY <2>1, <3>1, <3>2 DEF WriteInv
    <3>4. cnt'[At(u)] = cnt[At(u)]
      BY <1>types, <1>5, <3>2, <3>3 DEF UpdateAdd
    <3> QED BY <1>1, <3>1, <3>4 DEF NewCnt
  <2> QED BY <2>2 DEF CheckInv
<1> QED BY <1>3, <1>4, <1>5 DEF Step, update_stock

\* A show copies one count for each stock it visits, in order, and an update
\* has its answer when it unlocks.
LEMMA AnswerStep ==
    ASSUME TypeOK, ReqInv, AnswerInv, NEW t \in Threads, Others(t),
           Step(t) \/ \E r \in Requests : Receive(t, r)
    PROVE  AnswerInv'
<1> DEFINE Good(u) ==
        /\ pc[u] \in {"idle", "up_lock", "up_check", "up_add"} => ans[u] = "none"
        /\ pc[u] = "up_unlock" => ans[u] # "none"
        /\ pc[u] = "respond" /\ req[u] # Show => ans[u] # "none"
        /\ pc[u] = "idle" => view[u] = <<>>
        /\ pc[u] \in BeforeCopy => Len(view[u]) = pos[u] - 1
        /\ pc[u] \in AfterCopy => Len(view[u]) = pos[u]
        /\ pc[u] = "respond" /\ req[u] = Show => Len(view[u]) = Size
<1>types. /\ pc \in [Threads -> Pcs] /\ ans \in [Threads -> {"none", "SUCCESS", "NOT_ENOUGH"}]
      /\ pos \in [Threads -> 1..Size] /\ req \in [Threads -> Requests \cup {NoReq}]
      /\ view \in [Threads -> Seq(0..IntMax)]
      /\ cnt \in [Stocks -> 0..IntMax]
  BY DEF TypeOK, Pcs
<1>size. Size \in Nat
  BY EndpointAssumption DEF Size
<1>good. Good(t)
  BY DEF AnswerInv
<1>1. ASSUME NEW u \in Threads \ {t} PROVE Good(u)'
  <2>1. ans'[u] = ans[u] /\ view'[u] = view[u]
    BY <1>types DEF Step, update_stock, UpdateLock, UpdateUnknown, UpdateEnough,
         UpdateNotEnough, UpdateAdd, UpdateUnlock, set_stocks_info, ReadEnter, ReadCount,
         ReadFirst, ReadEntered, ReadCopy, ReadLeave, ReadUncount, ReadLast, ReadLeft,
         Respond, Receive
  <2> QED BY <2>1 DEF Others, AnswerInv
<1> SUFFICES Good(t)'
  BY <1>1 DEF AnswerInv
<1>2. CASE update_stock(t)
  <2>1. pc[t] \in UpPcs => req[t] # Show
    BY ShowIsNoUpdate DEF ReqInv
  <2> QED BY <1>types, <1>good, <1>2, <2>1
          DEF update_stock, UpdateLock, UpdateUnknown, UpdateEnough,
         UpdateNotEnough, UpdateAdd, UpdateUnlock, Goto, BeforeCopy, AfterCopy, UpPcs, WritePcs
<1>3. CASE ReadCopy(t)
  <2>1. At(t) \in Stocks
    BY <1>3, AtStocks DEF ReadCopy, Goto, BeforeCopy
  <2>2. view'[t] = Append(view[t], cnt[At(t)]) /\ cnt[At(t)] \in 0..IntMax
    BY <1>types, <1>3, <2>1 DEF ReadCopy
  <2>3. Len(view'[t]) = Len(view[t]) + 1
    BY <1>types, <2>2
  <2> QED BY <1>types, <1>good, <1>3, <2>3 DEF ReadCopy, Goto, BeforeCopy, AfterCopy
<1>4. CASE ReadEnter(t) \/ ReadCount(t) \/ ReadFirst(t) \/ ReadEntered(t) \/ ReadLeave(t)
           \/ ReadUncount(t) \/ ReadLast(t)
  BY <1>types, <1>good, <1>4
     DEF ReadEnter, ReadCount, ReadFirst, ReadEntered, ReadLeave, ReadUncount,
     ReadLast, Goto, BeforeCopy, AfterCopy
<1>5. CASE ReadLeft(t)
  <2>1. Len(view[t]) = pos[t] /\ req[t] = Show
    BY <1>good, <1>5 DEF ReadLeft, Goto, AfterCopy, ReqInv
  <2> QED BY <1>types, <1>5, <1>size, <2>1 DEF ReadLeft, Goto, BeforeCopy, AfterCopy
<1>6. CASE Respond(t)
  BY <1>types, <1>6 DEF Respond, Goto, BeforeCopy, AfterCopy
<1>7. CASE \E r \in Requests : Receive(t, r)
  BY <1>types, <1>good, <1>7 DEF Receive, Goto, BeforeCopy, AfterCopy
<1> QED BY <1>2, <1>3, <1>4, <1>5, <1>6, <1>7 DEF Step, set_stocks_info
-----------------------------------------------------------------------------
(* Arithmetic on int                                                       *)

\* Division with remainder.
LEMMA DivMod ==
    ASSUME NEW n \in Nat \ {0}, NEW i \in Int
    PROVE  /\ i % n \in 0..(n - 1)
           /\ i \div n \in Int
           /\ i = n * (i \div n) + (i % n)
  OBVIOUS

\* Remainders of numbers less than two moduli.
LEMMA SmallMod ==
    ASSUME NEW n \in Nat \ {0}, NEW i \in 0..(2 * n - 1)
    PROVE  i % n = IF i < n THEN i ELSE i - n
<1> DEFINE q == i \div n
           r == i % n
<1>1. r \in 0..(n - 1) /\ q \in Int /\ i = n * q + r
  BY DivMod
<1> HIDE DEF q, r
<1>2. q >= 0
  <2> SUFFICES ASSUME q <= -1 PROVE FALSE
    BY <1>1
  <2>1. n * q <= -n
    BY <1>1
  <2> QED BY <1>1, <2>1
<1>3. q <= 1
  <2> SUFFICES ASSUME q >= 2 PROVE FALSE
    BY <1>1
  <2>1. n * q >= 2 * n
    BY <1>1
  <2> QED BY <1>1, <2>1
<1>4. CASE q = 0
  <2>1. i = r
    BY <1>1, <1>4
  <2> QED BY <1>1, <2>1 DEF r
<1>5. CASE q = 1
  <2>1. i = n + r
    BY <1>1, <1>5
  <2> QED BY <1>1, <2>1 DEF r
<1> QED BY <1>1, <1>2, <1>3, <1>4, <1>5

\* What two's complement with largest int M makes of a sum that is at most
\* one range too large.
LEMMA TwosComplement ==
    ASSUME NEW M \in Nat, NEW x \in (-M - 1)..(3 * M + 2)
    PROVE  ((x + M + 1) % (2 * (M + 1))) - (M + 1) = IF x <= M THEN x ELSE x - 2 * (M + 1)
<1> DEFINE n == 2 * (M + 1)
           i == x + M + 1
<1>1. n \in Nat \ {0} /\ i \in 0..(2 * n - 1)
  OBVIOUS
<1>2. i % n = IF i < n THEN i ELSE i - n
  BY <1>1, SmallMod
<1> QED BY <1>2

\* What two's complement makes of a sum that is at most one range too large.
LEMMA WrapIs ==
    ASSUME NEW x \in (-IntMax - 1)..(3 * IntMax + 2)
    PROVE  Wrap(x) = IF x <= IntMax THEN x ELSE x - 2 * (IntMax + 1)
  BY EndpointAssumption, TwosComplement DEF Wrap

\* The tested sum is a count exactly when the true sum is one, and is then
\* the true sum.
LEMMA SumIsExact ==
    ASSUME NEW c \in 0..IntMax, NEW r \in Updates
    PROVE  LET true == c + Ledger!Change(r)
               sum == Wrap(c + Delta(r))
           IN  /\ sum \in (-IntMax - 1)..IntMax
               /\ sum >= 0 => sum = true /\ true \in 0..IntMax
               /\ sum < 0 => true \notin 0..IntMax
<1> DEFINE M == IntMax
           true == c + Ledger!Change(r)
<1>1. M \in Nat /\ r.n \in (-M - 1)..M /\ r.op \in {"buy", "sell"}
  BY EndpointAssumption DEF Updates
<1>2. CASE r.op = "buy"
  <2>0. true = c - r.n
    BY <1>1, <1>2 DEF Ledger!Change
  <2>1. Delta(r) = IF -r.n <= M THEN -r.n ELSE -r.n - 2 * (M + 1)
    <3>1. -r.n \in (-M - 1)..(3 * M + 2)
      BY <1>1
    <3> QED BY <1>2, <3>1, WrapIs DEF Delta
  <2>2. CASE r.n = -M - 1
    <3>1. Delta(r) = -M - 1
      BY <1>1, <2>1, <2>2
    <3>2. c + Delta(r) \in (-M - 1)..(3 * M + 2)
      BY <1>1, <3>1
    <3>3. Wrap(c + Delta(r)) = c - M - 1
      BY <1>1, <3>1, <3>2, WrapIs
    <3> QED BY <1>1, <2>0, <2>2, <3>3
  <2>3. CASE r.n # -M - 1
    <3>1. Delta(r) = -r.n
      BY <1>1, <2>1, <2>3
    <3>2. c + Delta(r) \in (-M - 1)..(3 * M + 2)
      BY <1>1, <2>3, <3>1
    <3>3. Wrap(c + Delta(r)) = IF c - r.n <= M THEN c - r.n ELSE c - r.n - 2 * (M + 1)
      BY <1>1, <3>1, <3>2, WrapIs
    <3> QED BY <1>1, <2>0, <2>3, <3>3
  <2> QED BY <2>2, <2>3
<1>3. CASE r.op = "sell"
  <2>1. Delta(r) = r.n /\ true = c + r.n
    BY <1>1, <1>3 DEF Delta, Ledger!Change
  <2>2. c + Delta(r) \in (-M - 1)..(3 * M + 2)
    BY <1>1, <2>1
  <2>3. Wrap(c + Delta(r)) = IF c + r.n <= M THEN c + r.n ELSE c + r.n - 2 * (M + 1)
    BY <1>1, <2>1, <2>2, WrapIs
  <2> QED BY <1>1, <2>1, <2>3
<1> QED BY <1>1, <1>2, <1>3

\* A step keeps the types: the semaphores stay at 0 or 1 because of what they
\* guard, the counts in range because of the test before the addition.
LEMMA TypeStep ==
    ASSUME IInv, NEW t \in Threads, Others(t), GateInv', WriteInv', CountInv',
           Step(t) \/ \E r \in Requests : Receive(t, r)
    PROVE  TypeOK'
<1>types. /\ cnt \in [Stocks -> 0..IntMax]
      /\ readCnt \in [Stocks -> Nat]
      /\ mutex \in [Stocks -> 0..1] /\ mutexRead \in [Stocks -> 0..1]
      /\ pc \in [Threads -> Pcs]
      /\ req \in [Threads -> Requests \cup {NoReq}]
      /\ pos \in [Threads -> 1..Size]
      /\ ans \in [Threads -> {"none", "SUCCESS", "NOT_ENOUGH"}]
      /\ view \in [Threads -> Seq(0..IntMax)]
      /\ left \in [Threads -> 0..OrdersPerClient]
      /\ crashed \in BOOLEAN
  BY DEF IInv, TypeOK, Pcs
<1>size. Size \in Nat /\ Size > 0 /\ IntMax \in Nat /\ OrdersPerClient \in Nat
  BY EndpointAssumption DEF Size
<1>inv. ReqInv /\ WriteInv /\ CheckInv /\ TypeOK
  BY DEF IInv
<1> USE DEF Goto
<1>1. cnt' \in [Stocks -> 0..IntMax]
  <2>1. CASE UpdateAdd(t)
    <3>1. At(t) \in Stocks /\ req[t] \in Updates /\ At(t) = req[t].id
      BY <1>inv, <2>1, AtStocks, ShowIsNoUpdate
         DEF UpdateAdd, WritePcs, UpPcs, ReqInv, At
    <3>2. cnt[At(t)] \in 0..IntMax
      BY <1>types, <3>1
    <3>3. NewCnt(t) \in 0..IntMax
      <4>1. NewCnt(t) \in (-IntMax - 1)..IntMax
        BY <3>1, <3>2, SumIsExact DEF NewCnt
      <4>2. NewCnt(t) >= 0
        BY <1>inv, <2>1 DEF UpdateAdd, CheckInv
      <4> QED BY <1>size, <4>1, <4>2
    <3> QED BY <1>types, <2>1, <3>1, <3>3 DEF UpdateAdd
  <2>2. CASE ~UpdateAdd(t)
    <3>1. cnt' = cnt
      BY <2>2 DEF Step, update_stock, UpdateLock, UpdateUnknown, UpdateEnough,
         UpdateNotEnough, UpdateUnlock, set_stocks_info, ReadEnter, ReadCount,
         ReadFirst, ReadEntered, ReadCopy, ReadLeave, ReadUncount, ReadLast, ReadLeft,
         Respond, Receive
    <3> QED BY <1>types, <3>1
  <2> QED BY <2>1, <2>2
<1>2. readCnt' \in [Stocks -> Nat]
  <2>1. readCnt' \in [Stocks -> Int]
    BY <1>types DEF Step, update_stock, UpdateLock, UpdateUnknown, UpdateEnough,
       UpdateNotEnough, UpdateAdd, UpdateUnlock, set_stocks_info, ReadEnter, ReadCount,
       ReadFirst, ReadEntered, ReadCopy, ReadLeave, ReadUncount, ReadLast, ReadLeft,
       Respond, Receive, locks
  <2>2. ASSUME NEW s \in Stocks PROVE readCnt'[s] \in Nat
    <3>1. readCnt'[s] = Cardinality(Inside(s)')
      BY DEF CountInv
    <3>2. Inside(s)' \subseteq Threads
      BY DEF Inside
    <3> QED BY <3>1, <3>2, EndpointAssumption, FS_Subset, FS_CardinalityType
  <2> QED BY <2>1, <2>2
<1>3. mutex' \in [Stocks -> 0..1]
  <2>1. mutex' = [s \in Stocks |-> mutex'[s]]
    <3>1. CASE UpdateLock(t) \/ UpdateUnlock(t) \/ ReadFirst(t) \/ ReadLast(t)
      <4>1. \/ mutex' = [mutex EXCEPT ![At(t)] = mutex[At(t)] - 1]
            \/ mutex' = [mutex EXCEPT ![At(t)] = mutex[At(t)] + 1]
        BY <3>1 DEF UpdateLock, UpdateUnlock, ReadFirst, ReadLast, P, V
      <4> QED BY <1>types, <4>1
    <3>2. CASE ~(UpdateLock(t) \/ UpdateUnlock(t) \/ ReadFirst(t) \/ ReadLast(t))
      <4>1. mutex' = mutex
        BY <3>2
        DEF Step, locks, update_stock, UpdateUnknown, UpdateEnough,
            UpdateNotEnough, UpdateAdd, set_stocks_info, ReadEnter, ReadCount,
            ReadEntered, ReadCopy, ReadLeave, ReadUncount, ReadLeft, Respond,
            Receive
      <4> QED BY <1>types, <4>1
    <3> QED BY <3>1, <3>2
  <2>2. \A s \in Stocks : mutex'[s] \in 0..1
    BY DEF WriteInv
  <2> QED BY <2>1, <2>2
<1>4. mutexRead' \in [Stocks -> 0..1]
  <2>1. mutexRead' = [s \in Stocks |-> mutexRead'[s]]
    <3>1. CASE ReadEnter(t) \/ ReadEntered(t) \/ ReadLeave(t) \/ ReadLeft(t)
      <4>1. \/ mutexRead' = [mutexRead EXCEPT ![At(t)] = mutexRead[At(t)] - 1]
            \/ mutexRead' = [mutexRead EXCEPT ![At(t)] = mutexRead[At(t)] + 1]
        BY <3>1 DEF ReadEnter, ReadEntered, ReadLeave, ReadLeft, P, V
      <4> QED BY <1>types, <4>1
    <3>2. CASE ~(ReadEnter(t) \/ ReadEntered(t) \/ ReadLeave(t) \/ ReadLeft(t))
      <4>1. mutexRead' = mutexRead
        BY <3>2
        DEF Step, locks, update_stock, UpdateLock, UpdateUnknown, UpdateEnough,
            UpdateNotEnough, UpdateAdd, UpdateUnlock, set_stocks_info,
            ReadCount, ReadFirst, ReadCopy, ReadUncount, ReadLast, Respond,
            Receive
      <4> QED BY <1>types, <4>1
    <3> QED BY <3>1, <3>2
  <2>2. \A s \in Stocks : mutexRead'[s] \in 0..1
    BY DEF GateInv
  <2> QED BY <2>1, <2>2
<1>5. /\ pc' \in [Threads -> Pcs]
      /\ req' \in [Threads -> Requests \cup {NoReq}]
      /\ ans' \in [Threads -> {"none", "SUCCESS", "NOT_ENOUGH"}]
      /\ crashed' \in BOOLEAN
  <2>1. CASE update_stock(t)
    BY <1>types, <2>1
    DEF update_stock, UpdateLock, UpdateUnknown, UpdateEnough, UpdateNotEnough,
        UpdateAdd, UpdateUnlock, Pcs, WritePcs
  <2>2. CASE set_stocks_info(t)
    BY <1>types, <2>2
    DEF set_stocks_info, ReadEnter, ReadCount, ReadFirst, ReadEntered, ReadCopy,
        ReadLeave, ReadUncount, ReadLast, ReadLeft, Pcs, ReadPcs, GatePcs
  <2>3. CASE Respond(t)
    BY <1>types, <2>3 DEF Respond, Pcs
  <2>4. CASE \E r \in Requests : Receive(t, r)
    BY <1>types, <2>4 DEF Receive, Pcs
  <2> QED BY <2>1, <2>2, <2>3, <2>4 DEF Step
<1>6. pos' \in [Threads -> 1..Size] /\ left' \in [Threads -> 0..OrdersPerClient]
  <2>1. CASE ReadLeft(t)
    BY <1>types, <1>size, <2>1 DEF ReadLeft
  <2>2. CASE \E r \in Requests : Receive(t, r)
    BY <1>types, <1>size, <2>2 DEF Receive
  <2>3. CASE ~ReadLeft(t) /\ Step(t)
    <3>1. pos' = pos /\ left' = left
      BY <2>3
      DEF Step, update_stock, UpdateLock, UpdateUnknown, UpdateEnough,
          UpdateNotEnough, UpdateAdd, UpdateUnlock, set_stocks_info, ReadEnter,
          ReadCount, ReadFirst, ReadEntered, ReadCopy, ReadLeave, ReadUncount,
          ReadLast, Respond
    <3> QED BY <1>types, <3>1
  <2> QED BY <2>1, <2>2, <2>3
<1>7. view' \in [Threads -> Seq(0..IntMax)]
  <2>1. CASE ReadCopy(t)
    <3>1. At(t) \in Stocks
      BY <1>inv, <2>1, AtStocks DEF ReadCopy, BeforeCopy
    <3>2. Append(view[t], cnt[At(t)]) \in Seq(0..IntMax)
      BY <1>types, <3>1
    <3> QED BY <1>types, <2>1, <3>2 DEF ReadCopy
  <2>2. CASE Respond(t)
    BY <1>types, <2>2 DEF Respond
  <2>3. CASE ~ReadCopy(t) /\ ~Respond(t)
    <3>1. view' = view
      BY <2>3
      DEF Step, update_stock, UpdateLock, UpdateUnknown, UpdateEnough,
          UpdateNotEnough, UpdateAdd, UpdateUnlock, set_stocks_info, ReadEnter,
          ReadCount, ReadFirst, ReadEntered, ReadLeave, ReadUncount, ReadLast,
          ReadLeft, Receive
    <3> QED BY <1>types, <3>1
  <2> QED BY <2>1, <2>2, <2>3
<1> QED BY <1>1, <1>2, <1>3, <1>4, <1>5, <1>6, <1>7 DEF TypeOK, Pcs
-----------------------------------------------------------------------------
(* The invariant holds in every state                                      *)

\* At the start no thread is in a handler and every lock is free.
LEMMA InitInvariant == Init => IInv
<1> SUFFICES ASSUME Init PROVE IInv
  OBVIOUS
<1> USE DEF Init
<1>1. Size \in Nat /\ Size > 0 /\ IntMax \in Nat /\ OrdersPerClient \in Nat
      /\ Initial \in [Stocks -> 0..IntMax] /\ NoReq \notin Requests
  BY EndpointAssumption DEF Size
<1>2. TypeOK
  <2>1. view \in [Threads -> Seq(0..IntMax)] /\ pos \in [Threads -> 1..Size]
        /\ left \in [Threads -> 0..OrdersPerClient]
    BY <1>1
  <2>2. /\ readCnt \in [Stocks -> Nat]
        /\ mutex \in [Stocks -> 0..1] /\ mutexRead \in [Stocks -> 0..1]
        /\ pc \in [Threads -> Pcs] /\ req \in [Threads -> Requests \cup {NoReq}]
        /\ ans \in [Threads -> {"none", "SUCCESS", "NOT_ENOUGH"}]
    BY DEF Pcs
  <2> QED BY <1>1, <2>1, <2>2 DEF TypeOK, Pcs
<1>3. ReqInv
  BY DEF ReqInv, UpPcs, WritePcs, BeforeCopy, AfterCopy
<1>4. \A s : Writers(s) = {} /\ Holders(s) = {} /\ AtGate(s) = {} /\ Inside(s) = {}
  BY DEF Writers, Holders, AtGate, Inside, WritePcs, HoldPcs, GatePcs, InsidePcs
<1>5. GateInv /\ WriteInv
  BY <1>4 DEF GateInv, WriteInv
<1>6. CountInv
  BY <1>4, FS_EmptySet DEF CountInv
<1>7. CheckInv /\ AnswerInv
  BY DEF CheckInv, AnswerInv, BeforeCopy, AfterCopy
<1> QED BY <1>2, <1>3, <1>5, <1>6, <1>7 DEF IInv

\* The invariant speaks of the variables of the specification only.
LEMMA StutterInvariant == IInv /\ UNCHANGED vars => IInv'
<1> SUFFICES ASSUME IInv, UNCHANGED vars PROVE IInv'
  OBVIOUS
<1> USE DEF vars, locks
<1>1. \A t : At(t)' = At(t) /\ NewCnt(t)' = NewCnt(t)
  BY DEF At, NewCnt
<1>2. \A s : /\ Writers(s)' = Writers(s) /\ Holders(s)' = Holders(s)
             /\ AtGate(s)' = AtGate(s) /\ Inside(s)' = Inside(s)
  BY <1>1 DEF Writers, Holders, AtGate, Inside
<1>3. TypeOK'
  BY DEF IInv, TypeOK
<1>4. ReqInv' /\ AnswerInv'
  BY DEF IInv, ReqInv, AnswerInv
<1>5. GateInv' /\ WriteInv'
  BY <1>2 DEF IInv, GateInv, WriteInv
<1>6. CountInv'
  BY <1>1, <1>2 DEF IInv, CountInv
<1>7. CheckInv'
  BY <1>1 DEF IInv, CheckInv
<1> QED BY <1>3, <1>4, <1>5, <1>6, <1>7 DEF IInv

\* No step leaves the invariant.
LEMMA NextInvariant == IInv /\ [Next]_vars => IInv'
<1> SUFFICES ASSUME IInv, [Next]_vars PROVE IInv'
  OBVIOUS
<1>1. ASSUME NEW t \in Threads, Step(t) \/ \E r \in Requests : Receive(t, r)
      PROVE  IInv'
  <2>1. TypeOK /\ ReqInv /\ GateInv /\ WriteInv /\ CountInv /\ CheckInv /\ AnswerInv
    BY DEF IInv
  <2>2. Others(t)
    BY <1>1, <2>1, OthersStay
  <2>3. ReqInv'
    BY <1>1, <2>1, <2>2, ReqStep
  <2>4. GateInv'
    BY <1>1, <2>1, <2>2, GateStep
  <2>5. WriteInv'
    BY <1>1, <2>1, <2>2, WriteStep
  <2>6. CountInv'
    BY <1>1, <2>1, <2>2, CountStep
  <2>7. CheckInv'
    BY <1>1, <2>1, <2>2, CheckStep
  <2>8. AnswerInv'
    BY <1>1, <2>1, <2>2, AnswerStep
  <2>9. TypeOK'
    BY <1>1, <2>2, <2>4, <2>5, <2>6, TypeStep
  <2> QED BY <2>3, <2>4, <2>5, <2>6, <2>7, <2>8, <2>9 DEF IInv
<1>2. CASE Finished \/ UNCHANGED vars
  BY <1>2, StutterInvariant DEF Finished
<1> QED BY <1>1, <1>2 DEF Next

\* The invariant holds in every reachable state.
THEOREM Invariance == Spec => []IInv
<1>1. Init => IInv
  BY InitInvariant
<1>2. IInv /\ [Next]_vars => IInv'
  BY NextInvariant
<1> QED BY <1>1, <1>2, PTL DEF Spec

\* Counts never leave 0..IntMax, the semaphores are binary, and every local
\* of the handlers keeps its type.
THEOREM TypeCorrect == Spec => []TypeOK
<1>1. IInv => TypeOK
  BY DEF IInv
<1> QED BY <1>1, Invariance, PTL

\* No two threads are between check and unlock of one stock in update_stock,
\* and none is while another copies the stock in set_stocks_info.
THEOREM Exclusion == Spec => []ReadersExcludeWriters
<1>1. IInv => ReadersExcludeWriters
  <2>1. \A s \in Stocks : Readers(s) \subseteq Holders(s)
    BY DEF Readers, Holders, ReadPcs, HoldPcs
  <2> QED BY <2>1 DEF IInv, WriteInv, ReadersExcludeWriters
<1> QED BY <1>1, Invariance, PTL

\* When no handler touches a stock, its semaphores and its read_cnt have their
\* initial values.
THEOREM IdleIsUnlocked == Spec => []IdleStockIsUnlocked
<1>1. IInv => IdleStockIsUnlocked
  <2> SUFFICES ASSUME IInv, NEW s \in Stocks,
                      Writers(s) \cup Readers(s) \cup AtGate(s) = {}
               PROVE  mutex[s] = 1 /\ mutexRead[s] = 1 /\ readCnt[s] = 0
    BY DEF IdleStockIsUnlocked
  <2>1. /\ Inside(s) \subseteq Readers(s) \cup AtGate(s)
        /\ Holders(s) \subseteq Readers(s) \cup AtGate(s)
    BY DEF Inside, Holders, Readers, AtGate, InsidePcs, HoldPcs, ReadPcs, GatePcs
  <2>2. Writers(s) = {} /\ Holders(s) = {} /\ AtGate(s) = {} /\ Inside(s) = {}
    BY <2>1
  <2>3. mutex[s] = 1 /\ mutexRead[s] = 1
    BY <2>2 DEF IInv, WriteInv, GateInv
  <2>4. readCnt[s] = 0
    BY <2>2, FS_EmptySet DEF IInv, CountInv
  <2> QED BY <2>3, <2>4
<1> QED BY <1>1, Invariance, PTL
-----------------------------------------------------------------------------
(* The handlers implement the ledger                                       *)

\* The addition grants the update: the sum tested is the true sum.
LEMMA UpdateAddGrants ==
    ASSUME IInv, NEW t \in Threads, UpdateAdd(t)
    PROVE  Ledger!Grant(t)
<1>1. req[t] \in Updates /\ req[t].id \in Stocks /\ ans[t] = "none" /\ NewCnt(t) >= 0
  BY DEF IInv, ReqInv, AnswerInv, CheckInv, UpdateAdd, Goto, UpPcs, WritePcs
<1>2. req[t].op # "show" /\ At(t) = req[t].id /\ req[t] # NoReq
  BY <1>1, ShowIsNoUpdate, EndpointAssumption DEF At, Requests
<1>3. cnt[req[t].id] \in 0..IntMax
  BY <1>1 DEF IInv, TypeOK
<1>4. NewCnt(t) = Ledger!Sum(t) /\ Ledger!Sum(t) \in 0..IntMax
  BY <1>1, <1>2, <1>3, SumIsExact DEF NewCnt, Ledger!Sum
<1>5. Ledger!Updating(t) /\ Ledger!Known(t)
  BY <1>1, <1>2 DEF Ledger!Updating, Ledger!Known, Stocks, Size
<1> QED BY <1>2, <1>4, <1>5 DEF Ledger!Grant, UpdateAdd

\* A failed test refuses it: the true sum is negative or too large.
LEMMA UpdateNotEnoughRefuses ==
    ASSUME IInv, NEW t \in Threads, UpdateNotEnough(t)
    PROVE  Ledger!Refuse(t)
<1>1. req[t] \in Updates /\ req[t].id \in Stocks /\ ans[t] = "none" /\ NewCnt(t) < 0
  BY DEF IInv, ReqInv, AnswerInv, UpdateNotEnough, Goto, UpPcs, WritePcs
<1>2. req[t].op # "show" /\ At(t) = req[t].id /\ req[t] # NoReq
  BY <1>1, ShowIsNoUpdate, EndpointAssumption DEF At, Requests
<1>3. cnt[req[t].id] \in 0..IntMax
  BY <1>1 DEF IInv, TypeOK
<1>4. Ledger!Sum(t) \notin 0..IntMax
  BY <1>1, <1>2, <1>3, SumIsExact DEF NewCnt, Ledger!Sum
<1>5. Ledger!Updating(t) /\ Ledger!Known(t)
  BY <1>1, <1>2 DEF Ledger!Updating, Ledger!Known, Stocks, Size
<1> QED BY <1>4, <1>5 DEF Ledger!Refuse, UpdateNotEnough

\* A show copies the count of the next stock in order.
LEMMA ReadCopyLooks ==
    ASSUME IInv, NEW t \in Threads, ReadCopy(t)
    PROVE  Ledger!Look(t)
<1>1. req[t] = Show /\ Len(view[t]) = pos[t] - 1
  BY DEF IInv, ReqInv, AnswerInv, ReadCopy, Goto, BeforeCopy
<1>2. req[t].op = "show" /\ req[t] # NoReq /\ At(t) = Order[pos[t]]
  BY <1>1, ShowIsNoUpdate, EndpointAssumption DEF At, Requests
<1>3. pos[t] \in 1..Size /\ Size \in Nat /\ view \in [Threads -> Seq(0..IntMax)]
  BY EndpointAssumption DEF IInv, TypeOK, Size
<1>4. Len(view[t]) < Len(Order) /\ Len(view[t]) + 1 = pos[t]
  BY <1>1, <1>3 DEF Size
<1>5. view' = [view EXCEPT ![t] = Append(@, cnt[Order[Len(@) + 1]])]
  BY <1>2, <1>4 DEF ReadCopy
<1> QED BY <1>2, <1>4, <1>5 DEF Ledger!Look, ReadCopy

\* A reply is sent only when it is complete.
LEMMA RespondAnswers ==
    ASSUME IInv, NEW t \in Threads, Respond(t)
    PROVE  Ledger!Respond(t)
<1>1. req[t] # NoReq /\ req[t] \in Requests
  BY DEF IInv, TypeOK, ReqInv, Respond, Goto
<1>2. Ledger!Answered(t)
  <2>1. CASE req[t] = Show
    BY <2>1, ShowIsNoUpdate
       DEF IInv, AnswerInv, Respond, Goto, Ledger!Answered, Size
  <2>2. CASE req[t] # Show
    BY <1>1, <2>2, ShowIsNoUpdate
       DEF IInv, AnswerInv, Respond, Goto, Ledger!Answered, Requests
  <2> QED BY <2>1, <2>2
<1> QED BY <1>1, <1>2 DEF Ledger!Respond, Respond

\* Every other step leaves the ledger as it is.
LEMMA StepRefines == IInv /\ [Next]_vars => [Ledger!Next]_(Ledger!vars)
<1> SUFFICES ASSUME IInv, [Next]_vars PROVE Ledger!Next \/ UNCHANGED Ledger!vars
  OBVIOUS
<1>1. ASSUME NEW t \in Threads, Step(t)
      PROVE  Ledger!Next \/ UNCHANGED Ledger!vars
  <2>1. CASE UpdateAdd(t)
    BY <2>1, UpdateAddGrants DEF Ledger!Next
  <2>2. CASE UpdateNotEnough(t)
    BY <2>2, UpdateNotEnoughRefuses DEF Ledger!Next
  <2>3. CASE ReadCopy(t)
    BY <2>3, ReadCopyLooks DEF Ledger!Next
  <2>4. CASE Respond(t)
    BY <2>4, RespondAnswers DEF Ledger!Next
  <2>5. CASE ~(UpdateAdd(t) \/ UpdateNotEnough(t) \/ ReadCopy(t) \/ Respond(t))
    BY <1>1, <2>5
    DEF Step, update_stock, UpdateLock, UpdateUnknown, UpdateEnough, UpdateUnlock,
        set_stocks_info, ReadEnter, ReadCount, ReadFirst, ReadEntered, ReadLeave,
        ReadUncount, ReadLast, ReadLeft, Ledger!vars
  <2> QED BY <2>1, <2>2, <2>3, <2>4, <2>5
<1>2. ASSUME NEW t \in Threads, NEW r \in Requests, Receive(t, r)
      PROVE  Ledger!Next
  <2>1. req[t] = NoReq
    BY <1>2 DEF IInv, ReqInv, Receive, Goto
  <2> QED BY <1>2, <2>1 DEF Receive, Ledger!Begin, Ledger!Next
<1>3. CASE Finished \/ UNCHANGED vars
  BY <1>3 DEF Finished, vars, Ledger!vars
<1> QED BY <1>1, <1>2, <1>3 DEF Next

\* The handlers implement the ledger, for every schedule of the threads: each
\* update is atomic and exact, each line of a show a current count.
THEOREM Refinement == Spec => ImplementsLedger
<1>1. Init => Ledger!Init
  BY DEF Init, Ledger!Init
<1>2. IInv /\ [Next]_vars => [Ledger!Next]_(Ledger!vars)
  BY StepRefines
<1> QED BY <1>1, <1>2, Invariance, PTL DEF Spec, ImplementsLedger, Ledger!Spec
=============================================================================
