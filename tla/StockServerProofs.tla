-------------------------- MODULE StockServerProofs --------------------------
(***************************************************************************)
(* Theorems about StockServer: for any number of workers, clients' orders, *)
(* stocks and activations of terminate_handler, stock.txt holds counts no  *)
(* older than the first SIGINT when the process exits, unless two          *)
(* activations have opened the file.  The locks are not needed for it:     *)
(* every count that a walk copies is recent when copied.                   *)
(***************************************************************************)
EXTENDS StockServer, TLAPS

\* The values of pc: where a worker is in update_stock,
UpPcs == {"up_lock", "up_check", "up_add", "up_unlock"}
\* and where a walk is that has not copied the count of its stock,
BeforeCopy == {"rd_enter", "rd_count", "rd_first", "rd_entered", "rd_copy"}
\* or has copied it.
AfterCopy == {"rd_leave", "rd_uncount", "rd_last", "rd_left"}
WalkPcs == BeforeCopy \cup AfterCopy
Pcs == {"idle", "respond"} \cup UpPcs \cup WalkPcs

\* Types of the variables the proof reads.  Of the endpoint's int counts it
\* is enough that they are numbers.
HandlerTypes ==
    /\ cnt \in [Stocks -> Int]
    /\ pc \in [Threads -> Pcs]
    /\ req \in [Threads -> Endpoint!Requests \cup {NoReq}]
    /\ pos \in [Threads -> 1..Len(Order)]
    /\ view \in [Threads -> Seq(Int)]
ProcessTypes ==
    /\ on \in [Handlers -> Workers \cup {Main, NoThread}]
    /\ phase \in [Handlers -> {"none", "alloc", "walk", "open", "written"}]
    /\ file \in [Stocks -> Int] \cup {Empty, Mixed}
    /\ since \in [Stocks -> SUBSET Int]
    /\ exited \in BOOLEAN

\* A thread has a request of the kind its program counter says.
ReqInv ==
    \A t \in Threads : /\ pc[t] \in UpPcs => req[t] \in Endpoint!Updates
                       /\ pc[t] \in WalkPcs => req[t] = Endpoint!Show

\* An activation performs one walk, before it opens the file.
PhaseInv ==
    \A h \in Handlers :
        /\ on[h] = NoThread <=> phase[h] = "none"
        /\ phase[h] = "none" <=> pc[h] = "idle"
        /\ pc[h] \notin UpPcs
        /\ phase[h] \in {"open", "written"} => pc[h] = "respond"

\* Its buffer holds the counts of the stocks it has passed.
LengthInv ==
    \A h \in Handlers :
        /\ pc[h] = "idle" => view[h] = <<>>
        /\ pc[h] \in BeforeCopy => Len(view[h]) = pos[h] - 1
        /\ pc[h] \in AfterCopy => Len(view[h]) = pos[h]
        /\ pc[h] = "respond" => Len(view[h]) = Len(Order)

\* The history follows the counts,
NowInv == Signalled => \A s \in Stocks : cnt[s] \in since[s]
\* and every count in the buffer is in it.
SeenInv ==
    \A h \in Handlers : \A k \in 1..Len(view[h]) : view[h][k] \in since[Order[k]]

\* The file is whole and no older than the signal.
Saved == file \notin {Empty, Mixed} /\ \A s \in Stocks : file[s] \in since[s]
\* What the one activation that has opened the file has made of it.
FileInv ==
    /\ Alone => \A h \in Handlers : /\ phase[h] = "open" => file = Empty
                                    /\ phase[h] = "written" => Saved
    /\ exited => \E h \in Handlers : phase[h] = "written"

\* The inductive invariant.
Inv == HandlerTypes /\ ProcessTypes /\ ReqInv /\ PhaseInv /\ LengthInv /\ NowInv /\ SeenInv /\ FileInv

\* Every thread but t stays where it is and keeps its buffer.
Others(t) == \A u \in Threads \ {t} : /\ pc'[u] = pc[u] /\ req'[u] = req[u]
                                      /\ pos'[u] = pos[u] /\ view'[u] = view[u]
EndpointStep(t) == Endpoint!Step(t) \/ \E r \in Endpoint!Requests : Endpoint!Receive(t, r)
-----------------------------------------------------------------------------
(* The handlers                                                            *)

\* process_request tells a show from a buy or a sell.
LEMMA ShowIsNoUpdate ==
    /\ Endpoint!Show.op = "show"
    /\ \A r \in Endpoint!Updates : /\ r.op # "show" /\ r # Endpoint!Show
                                   /\ r.id \in Stocks /\ r.n \in Int
<1>1. Amounts \subseteq Int
  BY ServerAssumption
<1>2. Endpoint!Show.op = "show"
  BY DEF Endpoint!Show
<1>3. ASSUME NEW r \in Endpoint!Updates
      PROVE  r.op \in {"buy", "sell"} /\ r.id \in Stocks /\ r.n \in Int
  BY <1>1 DEF Endpoint!Updates, Stocks, UnknownIds
<1> QED BY <1>2, <1>3

\* Division with remainder.
LEMMA DivMod ==
    ASSUME NEW n \in Nat \ {0}, NEW i \in Int
    PROVE  /\ i % n \in 0..(n - 1)
           /\ i \div n \in Int
           /\ i = n * (i \div n) + (i % n)
  OBVIOUS

\* What an int addition yields is a number.
LEMMA WrapIsInt == ASSUME NEW x \in Int PROVE Endpoint!Wrap(x) \in Int
<1>1. 2 * (IntMax + 1) \in Nat \ {0} /\ x + IntMax + 1 \in Int /\ IntMax \in Int
  BY ServerAssumption
<1>2. (x + IntMax + 1) % (2 * (IntMax + 1)) \in Int
  BY <1>1, DivMod
<1> QED BY <1>1, <1>2 DEF Endpoint!Wrap

LEMMA NewCntIsInt ==
    ASSUME HandlerTypes, ReqInv, NEW t \in Threads, pc[t] = "up_add"
    PROVE  Endpoint!NewCnt(t) \in Int
<1>1. req[t] \in Endpoint!Updates
  BY DEF ReqInv, UpPcs
<1>2. Endpoint!At(t) = req[t].id /\ req[t].id \in Stocks /\ req[t].n \in Int
  BY <1>1, ShowIsNoUpdate DEF Endpoint!At
<1>3. cnt[Endpoint!At(t)] \in Int /\ -req[t].n \in Int
  BY <1>2 DEF HandlerTypes
<1>4. Endpoint!Delta(req[t]) \in Int
  BY <1>2, <1>3, WrapIsInt DEF Endpoint!Delta
<1>5. cnt[Endpoint!At(t)] + Endpoint!Delta(req[t]) \in Int
  BY <1>3, <1>4
<1> QED BY <1>5, WrapIsInt DEF Endpoint!NewCnt

\* A walk is at a stock of the tree.
LEMMA WalkIsAt ==
    ASSUME HandlerTypes, ReqInv, NEW t \in Threads, pc[t] \in WalkPcs
    PROVE  /\ Endpoint!At(t) = Order[pos[t]] /\ Endpoint!At(t) \in Stocks
           /\ pos[t] \in 1..Len(Order)
  BY ServerAssumption, ShowIsNoUpdate DEF HandlerTypes, ReqInv, Endpoint!At

\* A step of t leaves the other threads alone.
LEMMA OthersStay ==
    ASSUME HandlerTypes, NEW t \in Threads, EndpointStep(t)
    PROVE  Others(t)
<1> USE DEF HandlerTypes, Others, Endpoint!Goto
<1>1. CASE Endpoint!update_stock(t)
  BY <1>1 DEF Endpoint!update_stock, Endpoint!UpdateLock, Endpoint!UpdateUnknown,
              Endpoint!UpdateEnough, Endpoint!UpdateNotEnough, Endpoint!UpdateAdd,
              Endpoint!UpdateUnlock
<1>2. CASE Endpoint!set_stocks_info(t)
  BY <1>2 DEF Endpoint!set_stocks_info, Endpoint!ReadEnter, Endpoint!ReadCount,
              Endpoint!ReadFirst, Endpoint!ReadEntered, Endpoint!ReadCopy,
              Endpoint!ReadLeave, Endpoint!ReadUncount, Endpoint!ReadLast,
              Endpoint!ReadLeft
<1>3. CASE Endpoint!Respond(t)
  BY <1>3 DEF Endpoint!Respond
<1>4. CASE \E r \in Endpoint!Requests : Endpoint!Receive(t, r)
  BY <1>4 DEF Endpoint!Receive
<1> QED BY <1>1, <1>2, <1>3, <1>4 DEF EndpointStep, Endpoint!Step

\* Only UpdateAdd changes a count, and only within the ints.
LEMMA CountStep ==
    ASSUME HandlerTypes, ReqInv, NEW t \in Threads, EndpointStep(t)
    PROVE  /\ cnt' \in [Stocks -> Int]
           /\ ~Endpoint!UpdateAdd(t) => cnt' = cnt
<1> USE DEF HandlerTypes
<1>1. CASE Endpoint!UpdateAdd(t)
  BY <1>1, NewCntIsInt DEF Endpoint!UpdateAdd, Endpoint!Goto
<1>2. CASE Endpoint!update_stock(t) /\ ~Endpoint!UpdateAdd(t)
  BY <1>2 DEF Endpoint!update_stock, Endpoint!UpdateLock, Endpoint!UpdateUnknown,
              Endpoint!UpdateEnough, Endpoint!UpdateNotEnough, Endpoint!UpdateUnlock
<1>3. CASE Endpoint!set_stocks_info(t)
  BY <1>3 DEF Endpoint!set_stocks_info, Endpoint!ReadEnter, Endpoint!ReadCount,
              Endpoint!ReadFirst, Endpoint!ReadEntered, Endpoint!ReadCopy,
              Endpoint!ReadLeave, Endpoint!ReadUncount, Endpoint!ReadLast,
              Endpoint!ReadLeft
<1>4. CASE Endpoint!Respond(t)
  BY <1>4 DEF Endpoint!Respond
<1>5. CASE \E r \in Endpoint!Requests : Endpoint!Receive(t, r)
  BY <1>5 DEF Endpoint!Receive
<1> QED BY <1>1, <1>2, <1>3, <1>4, <1>5 DEF EndpointStep, Endpoint!Step

\* The types of the handlers' variables survive their steps,
LEMMA HandlerTypesStep ==
    ASSUME HandlerTypes, ReqInv, NEW t \in Threads, EndpointStep(t)
    PROVE  HandlerTypes'
<1>1. cnt' \in [Stocks -> Int]
  BY CountStep
<1>2. ASSUME pc[t] \in WalkPcs
      PROVE  cnt[Endpoint!At(t)] \in Int
  BY <1>2, WalkIsAt DEF HandlerTypes
<1>next. pos[t] # Len(Order) => pos[t] + 1 \in 1..Len(Order)
  BY ServerAssumption DEF HandlerTypes
<1>3. 1 \in 1..Len(Order)
  BY ServerAssumption
<1> SUFFICES /\ pc' \in [Threads -> Pcs]
             /\ req' \in [Threads -> Endpoint!Requests \cup {NoReq}]
             /\ pos' \in [Threads -> 1..Len(Order)]
             /\ view' \in [Threads -> Seq(Int)]
  BY <1>1 DEF HandlerTypes
<1> USE DEF HandlerTypes, Endpoint!Goto, Pcs, UpPcs, WalkPcs, BeforeCopy, AfterCopy
<1>4. CASE Endpoint!update_stock(t)
  BY <1>4 DEF Endpoint!update_stock, Endpoint!UpdateLock, Endpoint!UpdateUnknown,
              Endpoint!UpdateEnough, Endpoint!UpdateNotEnough, Endpoint!UpdateAdd,
              Endpoint!UpdateUnlock
<1>5. CASE Endpoint!ReadCopy(t)
  <2>1. Append(view[t], cnt[Endpoint!At(t)]) \in Seq(Int)
    BY <1>2, <1>5 DEF Endpoint!ReadCopy
  <2> QED BY <1>5, <2>1 DEF Endpoint!ReadCopy
<1>6. CASE Endpoint!ReadLeft(t)
  BY <1>3, <1>next, <1>6 DEF Endpoint!ReadLeft, Endpoint!Size
<1>7. CASE Endpoint!set_stocks_info(t) /\ ~Endpoint!ReadCopy(t) /\ ~Endpoint!ReadLeft(t)
  BY <1>7 DEF Endpoint!set_stocks_info, Endpoint!ReadEnter, Endpoint!ReadCount,
              Endpoint!ReadFirst, Endpoint!ReadEntered,
              Endpoint!ReadLeave, Endpoint!ReadUncount, Endpoint!ReadLast
<1>8. CASE Endpoint!Respond(t)
  BY <1>8 DEF Endpoint!Respond
<1>9. CASE \E r \in Endpoint!Requests : Endpoint!Receive(t, r)
  BY <1>3, <1>9 DEF Endpoint!Receive
<1> QED BY <1>4, <1>5, <1>6, <1>7, <1>8, <1>9 DEF EndpointStep, Endpoint!Step

\* and so does the kind of each request.
LEMMA ReqStep ==
    ASSUME HandlerTypes, ReqInv, NEW t \in Threads, EndpointStep(t)
    PROVE  ReqInv'
<1>1. Others(t)
  BY OthersStay
<1> DEFINE Good(u) == /\ pc[u] \in UpPcs => req[u] \in Endpoint!Updates
                      /\ pc[u] \in WalkPcs => req[u] = Endpoint!Show
<1>2. Good(t)
  BY DEF ReqInv
<1> SUFFICES Good(t)'
  BY <1>1 DEF Others, ReqInv
<1> USE <1>2, ShowIsNoUpdate
        DEF HandlerTypes, Endpoint!Goto, Pcs, UpPcs, WalkPcs, BeforeCopy, AfterCopy
<1>3. CASE Endpoint!update_stock(t)
  BY <1>3 DEF Endpoint!update_stock, Endpoint!UpdateLock, Endpoint!UpdateUnknown,
              Endpoint!UpdateEnough, Endpoint!UpdateNotEnough, Endpoint!UpdateAdd,
              Endpoint!UpdateUnlock
<1>4. CASE Endpoint!set_stocks_info(t)
  BY <1>4 DEF Endpoint!set_stocks_info, Endpoint!ReadEnter, Endpoint!ReadCount,
              Endpoint!ReadFirst, Endpoint!ReadEntered, Endpoint!ReadCopy,
              Endpoint!ReadLeave, Endpoint!ReadUncount, Endpoint!ReadLast,
              Endpoint!ReadLeft
<1>5. CASE Endpoint!Respond(t)
  BY <1>5 DEF Endpoint!Respond
<1>6. CASE \E r \in Endpoint!Requests : Endpoint!Receive(t, r)
  BY <1>6 DEF Endpoint!Receive, Endpoint!Requests
<1> QED BY <1>3, <1>4, <1>5, <1>6 DEF EndpointStep, Endpoint!Step
-----------------------------------------------------------------------------
(* The walk of an activation                                               *)

\* The history loses nothing.
Grows == \A s \in Stocks : since[s] \subseteq since'[s]

\* A buffer is no longer than the listing.
LEMMA BufferFits ==
    ASSUME HandlerTypes, PhaseInv, LengthInv, NEW h \in Handlers,
           NEW k \in 1..Len(view[h])
    PROVE  k \in 1..Len(Order) /\ Order[k] \in Stocks
<1>1. h \in Threads /\ pc[h] \in Pcs /\ pc[h] \notin UpPcs /\ pos[h] \in 1..Len(Order)
  BY DEF HandlerTypes, PhaseInv, Threads
<1>2. Len(Order) \in Nat /\ Order \in Seq(Stocks)
  BY ServerAssumption
<1>3. view[h] \in Seq(Int)
  BY <1>1 DEF HandlerTypes
<1>4. Len(view[h]) \in Nat /\ Len(view[h]) <= Len(Order)
  BY <1>1, <1>2, <1>3 DEF LengthInv, Pcs, WalkPcs
<1> QED BY <1>2, <1>4

\* What a buffer holds stays recent as long as nobody writes to it.
LEMMA SeenStays ==
    ASSUME HandlerTypes, PhaseInv, LengthInv, SeenInv, Grows,
           NEW h \in Handlers, view'[h] = view[h]
    PROVE  \A k \in 1..Len(view'[h]) : view'[h][k] \in since'[Order[k]]
<1> SUFFICES ASSUME NEW k \in 1..Len(view[h])
             PROVE  view[h][k] \in since'[Order[k]]
  OBVIOUS
<1>1. Order[k] \in Stocks
  BY BufferFits
<1>2. view[h][k] \in since[Order[k]]
  BY DEF SeenInv
<1> QED BY <1>1, <1>2 DEF Grows

\* A file that was recent stays recent.
LEMMA SavedStays ==
    ASSUME Grows, Saved, file' = file
    PROVE  Saved'
  BY DEF Grows, Saved

\* Nobody opens, writes or leaves.
LEMMA FileStays ==
    ASSUME FileInv, file' = file, exited' = exited, Saved => Saved',
           \A h \in Handlers : \/ phase'[h] = phase[h]
                              \/ /\ phase[h] \notin {"open", "written"}
                                 /\ phase'[h] \notin {"open", "written"}
    PROVE  FileInv'
<1>1. \A h \in Handlers : phase[h] \in {"open", "written"} => phase'[h] \in {"open", "written"}
  OBVIOUS
<1>2. Alone' => Alone
  BY <1>1 DEF Alone, Opened
<1>3. exited' => \E h \in Handlers : phase'[h] = "written"
  BY DEF FileInv
<1>4. ASSUME Alone', NEW h \in Handlers
      PROVE  (phase'[h] = "open" => file' = Empty) /\ (phase'[h] = "written" => Saved')
  BY <1>2, <1>4 DEF FileInv
<1> QED BY <1>3, <1>4 DEF FileInv

\* A walk copies the count that the stock has now; its buffer is as long as
\* its place says.
LEMMA WalkKeepsBuffer ==
    ASSUME HandlerTypes, ReqInv, PhaseInv, LengthInv, NowInv, SeenInv,
           Signalled, since' = since,
           NEW h \in Handlers, Endpoint!set_stocks_info(h)
    PROVE  /\ pc[h] \in WalkPcs /\ pc'[h] \in WalkPcs \cup {"respond"}
           /\ pc'[h] \in BeforeCopy => Len(view'[h]) = pos'[h] - 1
           /\ pc'[h] \in AfterCopy => Len(view'[h]) = pos'[h]
           /\ pc'[h] = "respond" => Len(view'[h]) = Len(Order)
           /\ \A k \in 1..Len(view'[h]) : view'[h][k] \in since'[Order[k]]
<1>1. h \in Threads
  BY DEF Threads
<1>2. /\ pc \in [Threads -> Pcs] /\ pos \in [Threads -> 1..Len(Order)]
      /\ view \in [Threads -> Seq(Int)] /\ cnt \in [Stocks -> Int]
  BY DEF HandlerTypes
<1>3. /\ pc[h] \in BeforeCopy => Len(view[h]) = pos[h] - 1
      /\ pc[h] \in AfterCopy => Len(view[h]) = pos[h]
  BY DEF LengthInv
<1>4. Grows
  BY DEF Grows
<1>5. CASE Endpoint!ReadCopy(h)
  <2>1. PICK c : c = cnt[Endpoint!At(h)]
    OBVIOUS
  <2>2. pc[h] = "rd_copy" /\ pc'[h] = "rd_leave" /\ pos' = pos
        /\ view' = [view EXCEPT ![h] = Append(@, c)]
    BY <1>1, <1>2, <1>5, <2>1 DEF Endpoint!ReadCopy, Endpoint!Goto
  <2>3. /\ Endpoint!At(h) = Order[pos[h]] /\ Endpoint!At(h) \in Stocks
        /\ pos[h] \in 1..Len(Order)
    BY <1>1, <2>2, WalkIsAt DEF WalkPcs, BeforeCopy
  <2>4. c \in since[Order[pos[h]]] /\ c \in Int
    BY <1>2, <2>1, <2>3 DEF NowInv
  <2>5. PICK v \in Seq(Int) : v = view[h]
    BY <1>1, <1>2
  <2>6. view'[h] = Append(v, c) /\ Len(v) = pos[h] - 1
    BY <1>1, <1>2, <1>3, <2>2, <2>5 DEF BeforeCopy
  <2>7. \A k \in 1..Len(v) : v[k] \in since[Order[k]]
    BY <2>5 DEF SeenInv
  <2>8. Len(view'[h]) = pos[h]
    BY <2>3, <2>5, <2>6
  <2>9. ASSUME NEW k \in 1..Len(view'[h])
        PROVE  view'[h][k] \in since'[Order[k]]
    <3>1. CASE k = pos[h]
      BY <2>3, <2>4, <2>5, <2>6, <3>1
    <3>2. CASE k # pos[h]
      <4>1. k \in 1..Len(v)
        BY <2>3, <2>6, <2>8, <3>2
      <4>2. Append(v, c)[k] = v[k]
        BY <2>4, <4>1
      <4> QED BY <2>6, <2>7, <4>1, <4>2
    <3> QED BY <3>1, <3>2
  <2> QED BY <2>2, <2>8, <2>9 DEF WalkPcs, BeforeCopy, AfterCopy
<1>6. CASE Endpoint!set_stocks_info(h) /\ ~Endpoint!ReadCopy(h)
  <2>1. view' = view
    BY <1>6 DEF Endpoint!set_stocks_info, Endpoint!ReadEnter, Endpoint!ReadCount,
                Endpoint!ReadFirst, Endpoint!ReadEntered, Endpoint!ReadLeave,
                Endpoint!ReadUncount, Endpoint!ReadLast, Endpoint!ReadLeft
  <2>2. \A k \in 1..Len(view'[h]) : view'[h][k] \in since'[Order[k]]
    BY <1>4, <2>1, SeenStays
  <2>3. CASE Endpoint!ReadLeft(h)
    <3>1. pc[h] \in AfterCopy /\ Len(view[h]) = pos[h] /\ pos[h] \in 1..Len(Order)
      BY <1>1, <1>2, <1>3, <2>3 DEF Endpoint!ReadLeft, Endpoint!Goto, AfterCopy
    <3>2. /\ pc'[h] = IF pos[h] = Len(Order) THEN "respond" ELSE "rd_enter"
          /\ pos'[h] = IF pos[h] = Len(Order) THEN 1 ELSE pos[h] + 1
      BY <1>1, <1>2, <2>3 DEF Endpoint!ReadLeft, Endpoint!Goto, Endpoint!Size
    <3>3. CASE pos[h] = Len(Order)
      BY <2>1, <2>2, <3>1, <3>2, <3>3 DEF WalkPcs, BeforeCopy, AfterCopy
    <3>4. CASE pos[h] # Len(Order)
      BY <2>1, <2>2, <3>1, <3>2, <3>4 DEF WalkPcs, BeforeCopy, AfterCopy
    <3> QED BY <3>3, <3>4
  <2>4. CASE Endpoint!ReadEnter(h) \/ Endpoint!ReadCount(h) \/ Endpoint!ReadFirst(h)
             \/ Endpoint!ReadEntered(h)
    <3>1. pc[h] \in BeforeCopy /\ pc'[h] \in BeforeCopy /\ pos' = pos
      BY <1>1, <1>2, <2>4 DEF Endpoint!ReadEnter, Endpoint!ReadCount,
         Endpoint!ReadFirst, Endpoint!ReadEntered, Endpoint!Goto, BeforeCopy
    <3> QED BY <1>3, <2>1, <2>2, <3>1 DEF WalkPcs, BeforeCopy, AfterCopy
  <2>5. CASE Endpoint!ReadLeave(h) \/ Endpoint!ReadUncount(h) \/ Endpoint!ReadLast(h)
    <3>1. pc[h] \in AfterCopy /\ pc'[h] \in AfterCopy /\ pos' = pos
      BY <1>1, <1>2, <2>5 DEF Endpoint!ReadLeave, Endpoint!ReadUncount,
         Endpoint!ReadLast, Endpoint!Goto, AfterCopy
    <3> QED BY <1>3, <2>1, <2>2, <3>1 DEF WalkPcs, BeforeCopy, AfterCopy
  <2> QED BY <1>6, <2>3, <2>4, <2>5 DEF Endpoint!set_stocks_info
<1> QED BY <1>5, <1>6
-----------------------------------------------------------------------------
(* The steps of the process                                                *)

LEMMA Inits == Init => Inv
<1> SUFFICES ASSUME Init PROVE Inv
  OBVIOUS
<1>1. Initial \in [Stocks -> Int] /\ 1 \in 1..Len(Order)
  BY ServerAssumption
<1>2. /\ cnt = Initial
      /\ pc = [t \in Threads |-> "idle"]
      /\ req = [t \in Threads |-> NoReq]
      /\ pos = [t \in Threads |-> 1]
      /\ view = [t \in Threads |-> <<>>]
  BY DEF Init, Endpoint!Init
<1>3. HandlerTypes
  BY <1>1, <1>2 DEF HandlerTypes, Pcs
<1>4. ProcessTypes
  BY <1>1 DEF Init, ProcessTypes
<1>5. /\ \A h \in Handlers : h \in Threads /\ pc[h] = "idle" /\ view[h] = <<>>
      /\ \A t \in Threads : pc[t] = "idle"
  BY <1>2 DEF Threads
<1>6. ~Signalled /\ ~exited /\ \A h \in Handlers : on[h] = NoThread /\ phase[h] = "none"
  BY DEF Init, Signalled
<1>7. ReqInv /\ PhaseInv /\ LengthInv
  BY <1>5, <1>6 DEF ReqInv, PhaseInv, LengthInv, UpPcs, WalkPcs, BeforeCopy, AfterCopy
<1>8. SeenInv
  BY <1>5 DEF SeenInv
<1>9. NowInv /\ FileInv
  BY <1>6 DEF NowInv, FileInv
<1> QED BY <1>3, <1>4, <1>7, <1>8, <1>9 DEF Inv

\* A step of a worker: the handlers' buffers stay, and the history follows
\* the counts.
LEMMA WorkerStep ==
    ASSUME Inv, NEW w \in Workers, EndpointStep(w),
           UNCHANGED <<on, phase, file, exited>>,
           Remember \/ UNCHANGED <<cnt, since>>
    PROVE  Inv'
<1> USE DEF Inv
<1>1. w \in Threads /\ \A h \in Handlers : h \in Threads \ {w}
  BY ServerAssumption DEF Threads
<1>2. Others(w)
  BY <1>1, OthersStay
<1>3. HandlerTypes' /\ ReqInv'
  BY <1>1, HandlerTypesStep, ReqStep
<1>4. \A h \in Handlers : pc'[h] = pc[h] /\ pos'[h] = pos[h] /\ view'[h] = view[h]
  BY <1>1, <1>2 DEF Others
<1>5. \A s \in Stocks : cnt'[s] \in Int /\ since[s] \in SUBSET Int
  BY <1>3 DEF HandlerTypes, ProcessTypes
<1>6. since' \in [Stocks -> SUBSET Int] /\ Grows
  BY <1>5 DEF Remember, Grows, ProcessTypes
<1>7. ProcessTypes'
  BY <1>6 DEF ProcessTypes
<1>8. PhaseInv' /\ LengthInv'
  BY <1>4 DEF PhaseInv, LengthInv
<1>9. NowInv'
  BY <1>5 DEF NowInv, Signalled, Remember
<1>10. SeenInv'
  BY <1>4, <1>6, SeenStays DEF SeenInv
<1>11. FileInv'
  <2>1. Saved => Saved'
    BY <1>6, SavedStays
  <2> QED BY <2>1, FileStays
<1> QED BY <1>3, <1>7, <1>8, <1>9, <1>10, <1>11

\* The first SIGINT starts the history, and only the first.
LEMMA InterruptStep ==
    ASSUME Inv, NEW h \in Handlers, NEW t \in Workers \cup {Main}, Interrupt(h, t)
    PROVE  Inv'
<1> USE DEF Inv
<1>1. h \in Threads /\ t # NoThread /\ on[h] = NoThread
  BY ServerAssumption DEF Threads, Interrupt
<1>2. EndpointStep(h)
  BY DEF Interrupt, EndpointStep, Endpoint!Requests
<1>3. HandlerTypes' /\ ReqInv' /\ Others(h)
  BY <1>1, <1>2, HandlerTypesStep, ReqStep, OthersStay
<1>4. pc[h] = "idle" /\ pc'[h] = "rd_enter" /\ pos'[h] = 1 /\ view' = view /\ cnt' = cnt
  BY <1>1 DEF Interrupt, Endpoint!Receive, Endpoint!Goto, HandlerTypes
<1>5. /\ on' = [on EXCEPT ![h] = t] /\ phase' = [phase EXCEPT ![h] = "alloc"]
      /\ since' = IF Signalled THEN since ELSE [s \in Stocks |-> {cnt[s]}]
      /\ UNCHANGED <<file, exited>>
  BY DEF Interrupt
<1>6. view[h] = <<>> /\ phase[h] = "none"
  BY <1>1, <1>4 DEF LengthInv, PhaseInv
<1>7. \A g \in Handlers \ {h} : /\ pc'[g] = pc[g] /\ pos'[g] = pos[g]
                                /\ on'[g] = on[g] /\ phase'[g] = phase[g]
  BY <1>3, <1>5 DEF Others, Threads, ProcessTypes
<1>8. on'[h] = t /\ phase'[h] = "alloc"
  BY <1>5 DEF ProcessTypes
<1>9. since' \in [Stocks -> SUBSET Int]
  BY <1>5 DEF ProcessTypes, HandlerTypes
<1>10. ProcessTypes'
  BY <1>5, <1>9 DEF ProcessTypes
<1>11. PhaseInv'
  BY <1>1, <1>4, <1>7, <1>8 DEF PhaseInv, UpPcs
<1>12. LengthInv'
  <2>1. Len(view'[h]) = pos'[h] - 1
    BY <1>4, <1>6
  <2> QED BY <1>4, <1>7, <2>1 DEF LengthInv, BeforeCopy, AfterCopy
<1>13. CASE Signalled
  <2>1. NowInv' /\ SeenInv'
    BY <1>4, <1>5, <1>13 DEF NowInv, SeenInv
  <2>2. FileInv'
    <3>1. Saved => Saved'
      BY <1>5, <1>13 DEF Saved
    <3>2. \A g \in Handlers : \/ phase'[g] = phase[g]
                              \/ /\ phase[g] \notin {"open", "written"}
                                 /\ phase'[g] \notin {"open", "written"}
      BY <1>6, <1>7, <1>8
    <3> QED BY <1>5, <3>1, <3>2, FileStays
  <2> QED BY <1>3, <1>10, <1>11, <1>12, <2>1, <2>2
<1>14. CASE ~Signalled
  <2>1. \A g \in Handlers : on[g] = NoThread /\ phase[g] = "none" /\ view[g] = <<>>
    BY <1>14 DEF Signalled, PhaseInv, LengthInv
  <2>2. NowInv'
    BY <1>4, <1>5, <1>14 DEF NowInv
  <2>3. SeenInv'
    <3>1. \A g \in Handlers : Len(view'[g]) = 0
      BY <1>4, <2>1
    <3> QED BY <3>1 DEF SeenInv
  <2>4. FileInv'
    <3>1. \A g \in Handlers : /\ phase'[g] \notin {"open", "written"}
                              /\ phase[g] # "written"
      BY <1>7, <1>8, <2>1
    <3> QED BY <1>5, <3>1 DEF FileInv
  <2> QED BY <1>3, <1>10, <1>11, <1>12, <2>2, <2>3, <2>4
<1> QED BY <1>13, <1>14

\* malloc returns and the walk begins.
LEMMA AllocStep ==
    ASSUME Inv, NEW h \in Handlers, Alloc(h)
    PROVE  Inv'
<1> USE DEF Inv
<1>1. /\ UNCHANGED <<memory, on, file, exited, since>>
      /\ phase[h] = "alloc" /\ phase' = [phase EXCEPT ![h] = "walk"]
  BY DEF Alloc
<1>2. HandlerTypes' /\ ReqInv' /\ LengthInv' /\ NowInv' /\ SeenInv'
  BY <1>1 DEF memory, HandlerTypes, ReqInv, LengthInv, NowInv, Signalled, SeenInv
<1>3. ProcessTypes'
  BY <1>1 DEF ProcessTypes
<1>4. /\ phase'[h] = "walk"
      /\ \A g \in Handlers \ {h} : phase'[g] = phase[g]
  BY <1>1 DEF ProcessTypes
<1>5. PhaseInv'
  BY <1>1, <1>4 DEF memory, PhaseInv
<1>6. \A g \in Handlers : \/ phase'[g] = phase[g]
                          \/ /\ phase[g] \notin {"open", "written"}
                             /\ phase'[g] \notin {"open", "written"}
  BY <1>1, <1>4
<1>7. FileInv'
  BY <1>1, <1>6, FileStays DEF Saved
<1> QED BY <1>2, <1>3, <1>5, <1>7

\* An activation that walks has been signalled, so what it copies is in the
\* history.
LEMMA WalkStep ==
    ASSUME Inv, NEW h \in Handlers, Walk(h)
    PROVE  Inv'
<1> USE DEF Inv
<1>1. /\ Endpoint!set_stocks_info(h) /\ phase[h] = "walk"
      /\ UNCHANGED <<on, phase, file, exited, since>>
  BY DEF Walk
<1>2. h \in Threads /\ EndpointStep(h) /\ ~Endpoint!UpdateAdd(h)
  <2>1. h \in Threads /\ EndpointStep(h)
    BY <1>1 DEF Threads, EndpointStep, Endpoint!Step
  <2>2. ~Endpoint!UpdateAdd(h)
    BY DEF PhaseInv, UpPcs, Endpoint!UpdateAdd, Endpoint!Goto
  <2> QED BY <2>1, <2>2
<1>3. HandlerTypes' /\ ReqInv' /\ Others(h) /\ cnt' = cnt
  BY <1>2, HandlerTypesStep, ReqStep, OthersStay, CountStep
<1>4. Signalled
  BY <1>1 DEF PhaseInv, Signalled
<1>5. /\ pc[h] \in WalkPcs /\ pc'[h] \in WalkPcs \cup {"respond"}
      /\ pc'[h] \in BeforeCopy => Len(view'[h]) = pos'[h] - 1
      /\ pc'[h] \in AfterCopy => Len(view'[h]) = pos'[h]
      /\ pc'[h] = "respond" => Len(view'[h]) = Len(Order)
      /\ \A k \in 1..Len(view'[h]) : view'[h][k] \in since'[Order[k]]
  BY <1>1, <1>4, WalkKeepsBuffer
<1>6. \A g \in Handlers \ {h} : pc'[g] = pc[g] /\ pos'[g] = pos[g] /\ view'[g] = view[g]
  BY <1>3 DEF Others, Threads
<1>7. ProcessTypes'
  BY <1>1 DEF ProcessTypes
<1>8. PhaseInv'
  <2>1. pc'[h] # "idle" /\ pc'[h] \notin UpPcs
    BY <1>5 DEF WalkPcs, BeforeCopy, AfterCopy, UpPcs
  <2> QED BY <1>1, <1>6, <2>1 DEF PhaseInv
<1>9. LengthInv'
  <2>1. pc'[h] # "idle"
    BY <1>5 DEF WalkPcs, BeforeCopy, AfterCopy
  <2> QED BY <1>5, <1>6, <2>1 DEF LengthInv
<1>10. NowInv' /\ FileInv'
  BY <1>1, <1>3, FileStays DEF NowInv, Signalled, Saved
<1>11. SeenInv'
  BY <1>1, <1>5, <1>6 DEF SeenInv
<1> QED BY <1>3, <1>7, <1>8, <1>9, <1>10, <1>11

\* fopen truncates the file.
LEMMA OpenStep ==
    ASSUME Inv, NEW h \in Handlers, Open(h)
    PROVE  Inv'
<1> USE DEF Inv
<1>1. /\ UNCHANGED <<memory, on, exited, since>>
      /\ phase[h] = "walk" /\ pc[h] = "respond"
      /\ phase' = [phase EXCEPT ![h] = "open"] /\ file' = Empty
  BY DEF Open
<1>2. HandlerTypes' /\ ReqInv' /\ LengthInv' /\ NowInv' /\ SeenInv'
  BY <1>1 DEF memory, HandlerTypes, ReqInv, LengthInv, NowInv, Signalled, SeenInv
<1>3. ProcessTypes'
  BY <1>1 DEF ProcessTypes
<1>4. /\ phase'[h] = "open"
      /\ \A g \in Handlers \ {h} : phase'[g] = phase[g]
  BY <1>1 DEF ProcessTypes
<1>5. PhaseInv'
  BY <1>1, <1>4 DEF memory, PhaseInv
<1>6. FileInv'
  <2>1. h \in Opened'
    BY <1>4 DEF Opened
  <2>2. Alone' => \A g \in Handlers : phase'[g] # "written"
    <3> SUFFICES ASSUME Alone', NEW g \in Handlers, phase'[g] = "written" PROVE FALSE
      OBVIOUS
    <3>1. g \in Opened'
      BY DEF Opened
    <3> QED BY <1>4, <2>1, <3>1 DEF Alone
  <2>3. \A g \in Handlers : phase[g] = "written" => phase'[g] = "written"
    BY <1>1, <1>4
  <2> QED BY <1>1, <2>2, <2>3 DEF FileInv
<1> QED BY <1>2, <1>3, <1>5, <1>6

\* What is written is the buffer; it is the whole file if nobody else has
\* opened it.
LEMMA WriteStep ==
    ASSUME Inv, NEW h \in Handlers, Write(h)
    PROVE  Inv'
<1> USE DEF Inv
<1>1. /\ UNCHANGED <<memory, on, exited, since>>
      /\ phase[h] = "open" /\ phase' = [phase EXCEPT ![h] = "written"]
      /\ file' \in {Text(h), Mixed} /\ (file = Empty => file' = Text(h))
  BY DEF Write
<1>2. HandlerTypes' /\ ReqInv' /\ LengthInv' /\ NowInv' /\ SeenInv'
  BY <1>1 DEF memory, HandlerTypes, ReqInv, LengthInv, NowInv, Signalled, SeenInv
<1>3. h \in Threads /\ view[h] \in Seq(Int) /\ Len(view[h]) = Len(Order)
  BY <1>1 DEF Threads, HandlerTypes, PhaseInv, LengthInv
<1>4. ASSUME NEW s \in Stocks
      PROVE  Text(h)[s] \in Int /\ Text(h)[s] \in since[s]
  <2>1. PICK i : i = CHOOSE j \in 1..Len(Order) : Order[j] = s
    OBVIOUS
  <2>2. \E j \in 1..Len(Order) : Order[j] = s
    BY DEF Stocks, Endpoint!Stocks, Endpoint!Size
  <2>3. i \in 1..Len(Order) /\ Order[i] = s
    BY <2>1, <2>2
  <2>4. Text(h)[s] = view[h][i]
    BY <2>1 DEF Text
  <2> QED BY <1>3, <2>3, <2>4 DEF SeenInv
<1>5. Text(h) \in [Stocks -> Int]
  BY <1>4 DEF Text
<1>6. ProcessTypes'
  BY <1>1, <1>5 DEF ProcessTypes
<1>7. /\ phase'[h] = "written"
      /\ \A g \in Handlers \ {h} : phase'[g] = phase[g]
  BY <1>1 DEF ProcessTypes
<1>8. PhaseInv'
  BY <1>1, <1>7 DEF memory, PhaseInv
<1>9. file' = Text(h) => Saved'
  BY <1>1, <1>4, <1>5, ServerAssumption DEF Saved
<1>10. Opened' = Opened
  BY <1>1, <1>7 DEF Opened
<1>11. Alone' => Saved' /\ \A g \in Handlers : phase'[g] # "open"
  <2> SUFFICES ASSUME Alone' PROVE Saved' /\ \A g \in Handlers : phase'[g] # "open"
    OBVIOUS
  <2>1. Alone
    BY <1>10 DEF Alone
  <2>2. Saved'
    BY <1>1, <1>9, <2>1 DEF FileInv
  <2>3. ASSUME NEW g \in Handlers, phase'[g] = "open" PROVE FALSE
    BY <1>7, <1>10, <2>1, <2>3 DEF Alone, Opened
  <2> QED BY <2>2, <2>3
<1>12. FileInv'
  BY <1>1, <1>7, <1>11 DEF FileInv
<1> QED BY <1>2, <1>6, <1>8, <1>12

\* exit(0) comes after the file is written.
LEMMA ExitStep ==
    ASSUME Inv, NEW h \in Handlers, Exit(h)
    PROVE  Inv'
<1> USE DEF Inv
<1>1. UNCHANGED <<memory, on, phase, file, since>> /\ phase[h] = "written" /\ exited' = TRUE
  BY DEF Exit
<1>2. HandlerTypes' /\ ReqInv' /\ LengthInv' /\ NowInv' /\ SeenInv'
  BY <1>1 DEF memory, HandlerTypes, ReqInv, LengthInv, NowInv, Signalled, SeenInv
<1>3. ProcessTypes' /\ PhaseInv'
  BY <1>1 DEF memory, ProcessTypes, PhaseInv
<1>4. FileInv'
  BY <1>1 DEF FileInv, Alone, Opened, Saved
<1> QED BY <1>2, <1>3, <1>4

\* The other steps touch neither counts, nor buffers, nor the file.
LEMMA StutterStep ==
    ASSUME Inv, UNCHANGED <<memory, on, phase, file, exited, since>>
    PROVE  Inv'
  BY DEF Inv, memory, HandlerTypes, ProcessTypes, ReqInv, PhaseInv, LengthInv, NowInv,
         Signalled, SeenInv, FileInv, Alone, Opened, Saved
-----------------------------------------------------------------------------
(* The theorems                                                            *)

LEMMA NextInvariant == Inv /\ [Next]_vars => Inv'
<1> SUFFICES ASSUME Inv, [Next]_vars PROVE Inv'
  OBVIOUS
<1>1. ASSUME NEW w \in Workers, NEW r \in Endpoint!Requests, Request(w, r)
      PROVE  Inv'
  <2>1. EndpointStep(w) /\ UNCHANGED <<on, phase, file, exited, cnt, since>>
    BY <1>1 DEF Request, EndpointStep, Endpoint!Receive
  <2> QED BY <2>1, WorkerStep
<1>2. ASSUME NEW w \in Workers, Work(w)
      PROVE  Inv'
  <2>1. EndpointStep(w) /\ UNCHANGED <<on, phase, file, exited>> /\ Remember
    BY <1>2 DEF Work, EndpointStep
  <2> QED BY <2>1, WorkerStep
<1>3. ASSUME NEW w \in Workers, HangUp(w)
      PROVE  Inv'
  BY <1>3, StutterStep DEF HangUp
<1>4. ASSUME NEW t \in MayAllocate, EnterMalloc(t) \/ LeaveMalloc(t)
      PROVE  Inv'
  BY <1>4, StutterStep DEF EnterMalloc, LeaveMalloc
<1>5. ASSUME NEW h \in Handlers, NEW t \in Workers \cup {Main}, Interrupt(h, t)
      PROVE  Inv'
  BY <1>5, InterruptStep
<1>6. ASSUME NEW h \in Handlers, terminate_handler(h)
      PROVE  Inv'
  BY <1>6, AllocStep, WalkStep, OpenStep, WriteStep, ExitStep DEF terminate_handler
<1>7. CASE Finished \/ UNCHANGED vars
  BY <1>7, StutterStep DEF Finished, vars
<1> QED BY <1>1, <1>2, <1>3, <1>4, <1>5, <1>6, <1>7 DEF Next

\* The invariant holds of every execution.
THEOREM Invariance == Spec => []Inv
  BY Inits, NextInvariant, PTL DEF Spec

\* When the process has exited through terminate_handler, stock.txt is whole
\* and no older than the first Ctrl-C, with any number of Ctrl-Cs, of which any
\* number have walked the tree, as long as only the one that exits has opened
\* the file (task2_new/stock_endpoint.c, write_to_file).
THEOREM SavedUnlessTwoOpened == Spec => []SavedAfterSignal
<1>1. Inv => SavedAfterSignal
  BY DEF Inv, FileInv, Saved, SavedAfterSignal
<1> QED BY <1>1, Invariance, PTL

\* A single Ctrl-C saves: write_to_file leaves, for every stock, a count it
\* had after the signal, although the workers trade during the walk.
THEOREM OneSignalSaves ==
    ASSUME \A g, h \in Handlers : g = h
    PROVE  Spec => [](exited => Saved)
<1>1. Inv => (exited => Saved)
  BY DEF Inv, FileInv, Alone, Opened
<1> QED BY <1>1, Invariance, PTL
=============================================================================
