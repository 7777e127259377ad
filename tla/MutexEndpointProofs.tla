------------------------- MODULE MutexEndpointProofs -------------------------
(***************************************************************************)
(* Theorems about MutexEndpoint, for any number of threads, any search     *)
(* tree and any width of int: the types, that a show's path of locks makes *)
(* its path of counts a snapshot, and that the handlers implement          *)
(* StockLedger.  The invariant says which thread owns which semaphore, and *)
(* that a stack of activations is a path of the tree whose place in the    *)
(* preorder is the number of counts listed.                                *)
(***************************************************************************)
EXTENDS MutexEndpoint, TLAPS

\* The stocks a walk has locked: all but one whose P it has not passed.
Held(st) == {st[k].node : k \in {j \in 1..Len(st) : st[j].at # "lock"}}
\* A walk has locked each of them once.
HeldOnce(st) ==
    \A j, k \in 1..Len(st) :
        st[j].at # "lock" /\ st[k].at # "lock" /\ st[j].node = st[k].node => j = k
\* The stocks a thread has locked.
HeldBy(t) == Held(stack[t]) \cup (IF pc[t] \in WritePcs THEN {req[t].id} ELSE {})
\* mutex of a stock is 0 while a thread has locked it, and only one has.
LockInv ==
    \A t \in Threads :
        /\ HeldOnce(stack[t])
        /\ \A s \in HeldBy(t) : mutex[s] = 0
        /\ \A u \in Threads : u # t => HeldBy(t) \cap HeldBy(u) = {}

\* How many stocks there are in each subtree.
Size == CHOOSE size \in [Stocks \cup {Nil} -> 0..Len(Order)] : AreSizes(size)
\* How many counts a walk has listed when an activation is where it is.
Progress(f) ==
    IF f.at = "right" THEN PlaceOf(f.node) + Size[LeftOf[f.node]]
    ELSE IF f.at = "unlock" THEN PlaceOf(f.node) - 1 + Size[f.node]
    ELSE PlaceOf(f.node) - 1
\* g is the activation that f waits for.
Calls(f, g) == \/ f.at = "right" /\ g.node = LeftOf[f.node]
               \/ f.at = "unlock" /\ g.node = RightOf[f.node]
\* A stack of activations is a path down from the root, and n counts are
\* what its topmost activation has listed.
IsWalk(st, n) ==
    /\ st # <<>> /\ st[1].node = Root
    /\ \A k \in 1..(Len(st) - 1) : Calls(st[k], st[k + 1])
    /\ n = Progress(st[Len(st)])
\* The counts listed for the stocks of the path are those in c.
Snapshot(st, v, c) ==
    \A k \in 1..Len(st) :
        st[k].at \in {"right", "unlock"} =>
            PlaceOf(st[k].node) <= Len(v) /\ v[PlaceOf(st[k].node)] = c[st[k].node]
WalkInv ==
    \A t \in Threads :
        /\ pc[t] = "walk" => IsWalk(stack[t], Len(view[t]))
        /\ pc[t] # "walk" => stack[t] = <<>>
        /\ Snapshot(stack[t], view[t], cnt)

\* A thread has a request of the kind its program counter says,
UpPcs == {"up_lock"} \cup WritePcs
ReqInv ==
    \A t \in Threads :
        /\ pc[t] = "idle" <=> req[t] = NoReq
        /\ pc[t] \in UpPcs => req[t] \in Updates
        /\ pc[t] \in WritePcs => req[t].id \in Stocks
        /\ pc[t] = "walk" => req[t] = Show
\* its answer is as far as the program counter says,
AnswerInv ==
    \A t \in Threads :
        /\ pc[t] \in {"idle", "up_lock", "up_check", "up_add"} => ans[t] = "none"
        /\ pc[t] = "up_unlock" => ans[t] # "none"
        /\ pc[t] = "respond" /\ req[t] # Show => ans[t] # "none"
        /\ pc[t] = "idle" => view[t] = <<>>
        /\ pc[t] = "respond" /\ req[t] = Show => Len(view[t]) = Len(Order)
\* and what update_stock has tested still holds when it adds.
CheckInv == \A t \in Threads : pc[t] = "up_add" => NewCnt(t) >= 0

Inv == TypeOK /\ ReqInv /\ AnswerInv /\ LockInv /\ WalkInv /\ CheckInv
-----------------------------------------------------------------------------
(* The preorder                                                            *)

\* Where a subtree lies in the listing, from its root's place and its size.
LEMMA Places ==
    /\ Size \in [Stocks \cup {Nil} -> Nat] /\ Size[Nil] = 0 /\ Size[Root] = Len(Order)
    /\ Len(Order) \in Nat /\ PlaceOf(Root) = 1
    /\ \A s \in Stocks :
          /\ PlaceOf(s) \in 1..Len(Order) /\ Order[PlaceOf(s)] = s
          /\ LeftOf[s] \in Stocks \cup {Nil} /\ RightOf[s] \in Stocks \cup {Nil}
          /\ Size[s] = 1 + Size[LeftOf[s]] + Size[RightOf[s]]
          /\ LeftOf[s] # Nil => PlaceOf(LeftOf[s]) = PlaceOf(s) + 1
          /\ RightOf[s] # Nil =>
                PlaceOf(RightOf[s]) = PlaceOf(s) + 1 + Size[LeftOf[s]]
<1>1. Size \in [Stocks \cup {Nil} -> 0..Len(Order)] /\ AreSizes(Size)
  BY OrderIsPreorder DEF Size
<1>2. Order \in Seq(Stocks) /\ Len(Order) \in Nat /\ Root \in Stocks
  BY OrderIsPreorder, MutexEndpointAssumption
<1>3. \A s \in Stocks : PlaceOf(s) \in 1..Len(Order) /\ Order[PlaceOf(s)] = s
  BY OrderIsPreorder DEF PlaceOf
<1>4. ASSUME NEW i \in 1..Len(Order) PROVE PlaceOf(Order[i]) = i
  <2>1. Order[i] \in Stocks
    BY <1>2
  <2>2. PlaceOf(Order[i]) \in 1..Len(Order) /\ Order[PlaceOf(Order[i])] = Order[i]
    BY <1>3, <2>1
  <2> QED BY <2>2, OrderIsPreorder
<1>5. 1 \in 1..Len(Order)
  BY <1>2, <1>3
<1>6. PlaceOf(Root) = 1
  BY <1>4, <1>5, OrderIsPreorder
<1>7. ASSUME NEW s \in Stocks
      PROVE  /\ LeftOf[s] \in Stocks \cup {Nil} /\ RightOf[s] \in Stocks \cup {Nil}
             /\ Size[s] = 1 + Size[LeftOf[s]] + Size[RightOf[s]]
             /\ LeftOf[s] # Nil => PlaceOf(LeftOf[s]) = PlaceOf(s) + 1
             /\ RightOf[s] # Nil =>
                   PlaceOf(RightOf[s]) = PlaceOf(s) + 1 + Size[LeftOf[s]]
  <2> DEFINE p == PlaceOf(s)
             l == LeftOf[s]
             r == RightOf[s]
  <2>1. l \in Stocks \cup {Nil} /\ r \in Stocks \cup {Nil}
    BY MutexEndpointAssumption
  <2>2. Size[l] \in Nat /\ Size[r] \in Nat
    BY <1>1, <2>1
  <2>3. /\ Size[s] = 1 + Size[l] + Size[r]
        /\ l # Nil => p + 1 <= Len(Order) /\ Order[p + 1] = l
        /\ r # Nil => p + 1 + Size[l] <= Len(Order) /\ Order[p + 1 + Size[l]] = r
    <3>1. PICK q \in 1..Len(Order) : q = p /\ Order[q] = s
      BY <1>3
    <3>2. /\ Size[Order[q]] = 1 + Size[LeftOf[Order[q]]] + Size[RightOf[Order[q]]]
          /\ LeftOf[Order[q]] # Nil =>
                q + 1 <= Len(Order) /\ Order[q + 1] = LeftOf[Order[q]]
          /\ RightOf[Order[q]] # Nil =>
                /\ q + 1 + Size[LeftOf[Order[q]]] <= Len(Order)
                /\ Order[q + 1 + Size[LeftOf[Order[q]]]] = RightOf[Order[q]]
      BY <1>1 DEF AreSizes
    <3> QED BY <3>1, <3>2
  <2>4. p \in 1..Len(Order)
    BY <1>3
  <2> HIDE DEF p, l, r
  <2>5. l # Nil => PlaceOf(l) = p + 1
    BY <1>2, <1>4, <2>3, <2>4
  <2>6. r # Nil => PlaceOf(r) = p + 1 + Size[l]
    BY <1>2, <1>4, <2>2, <2>3, <2>4
  <2> QED BY <2>1, <2>3, <2>5, <2>6 DEF p, l, r
<1> QED BY <1>1, <1>2, <1>3, <1>6, <1>7 DEF AreSizes
-----------------------------------------------------------------------------
(* Stacks of activations                                                   *)

\* The elements of a sequence that has grown or shrunk by one.
LEMMA Appended ==
    ASSUME NEW S, NEW q \in Seq(S), NEW x \in S
    PROVE  /\ Append(q, x) \in Seq(S) /\ Len(q) \in Nat /\ Len(Append(q, x)) = Len(q) + 1
           /\ Append(q, x)[Len(q) + 1] = x
           /\ \A k \in 1..Len(q) : Append(q, x)[k] = q[k]
  OBVIOUS

LEMMA Shortened ==
    ASSUME NEW S, NEW q \in Seq(S), q # <<>>
    PROVE  /\ SubSeq(q, 1, Len(q) - 1) \in Seq(S) /\ Len(q) \in Nat \ {0}
           /\ Len(SubSeq(q, 1, Len(q) - 1)) = Len(q) - 1
           /\ \A k \in 1..(Len(q) - 1) : SubSeq(q, 1, Len(q) - 1)[k] = q[k]
<1>1. Len(q) \in Nat \ {0}
  OBVIOUS
<1>2. SubSeq(q, 1, Len(q) - 1) = [k \in 1..(Len(q) - 1) |-> q[k]]
  BY <1>1
<1>3. \A k \in 1..(Len(q) - 1) : q[k] \in S
  BY <1>1
<1> DEFINE p == [k \in 1..(Len(q) - 1) |-> q[k]]
<1>4. p \in [1..(Len(q) - 1) -> S]
  BY <1>3
<1>5. Len(q) - 1 \in Nat
  BY <1>1
<1>6. p \in Seq(S) /\ Len(p) = Len(q) - 1
  BY <1>4, <1>5
<1> QED BY <1>1, <1>2, <1>6

\* What is left of a stack when its topmost activation moves to another
\* statement and, unless c is Nil, calls set_stocks_info for c.
Moved(st, new, l, at, c) ==
    /\ new \in Seq(Frames) /\ l \in Nat \ {0} /\ l = Len(st)
    /\ Len(new) = IF c = Nil THEN l ELSE l + 1
    /\ \A k \in 1..(l - 1) : new[k] = st[k]
    /\ new[l].node = st[l].node /\ new[l].at = at
    /\ c # Nil => new[l + 1].node = c /\ new[l + 1].at = "lock"
LEMMA Reached ==
    ASSUME NEW st \in Seq(Frames), st # <<>>, NEW at \in {"copy", "right", "unlock"},
           NEW c \in Stocks \cup {Nil},
           NEW new, new = Push([st EXCEPT ![Len(st)].at = at], c)
    PROVE  Moved(st, new, Len(st), at, c)
<1>n. PICK n : n = Len(st)
  OBVIOUS
<1>m. PICK mid : mid = [st EXCEPT ![n].at = at]
  OBVIOUS
<1>1. n \in Nat \ {0} /\ st \in [1..n -> Frames]
  BY <1>n
<1>2. [st[n] EXCEPT !.at = at] \in Frames /\ [st[n] EXCEPT !.at = at].node = st[n].node
      /\ [st[n] EXCEPT !.at = at].at = at
  BY <1>1 DEF Frames
<1>3. mid \in Seq(Frames) /\ Len(mid) = n /\ mid[n] = [st[n] EXCEPT !.at = at]
      /\ \A k \in 1..(n - 1) : mid[k] = st[k]
  BY <1>m, <1>1, <1>2
<1>4. new = Push(mid, c)
  BY <1>n, <1>m
<1>5. CASE c = Nil
  BY <1>n, <1>1, <1>2, <1>3, <1>4, <1>5 DEF Push, Moved
<1>6. CASE c # Nil
  <2>1. Frame(c) \in Frames /\ Frame(c).node = c /\ Frame(c).at = "lock"
    BY <1>6 DEF Frame, Frames
  <2>2. new = Append(mid, Frame(c))
    BY <1>4, <1>6 DEF Push
  <2>3. new \in Seq(Frames) /\ Len(new) = n + 1 /\ new[n + 1] = Frame(c)
        /\ \A k \in 1..n : new[k] = mid[k]
    <3>1. PICK x \in Frames : x = Frame(c)
      BY <2>1
    <3>2. /\ Append(mid, x) \in Seq(Frames) /\ Len(Append(mid, x)) = n + 1
          /\ Append(mid, x)[n + 1] = x
          /\ \A k \in 1..n : Append(mid, x)[k] = mid[k]
      BY ONLY <1>3, Appended
    <3> QED BY <2>2, <3>1, <3>2
  <2>4. n \in 1..n /\ \A k \in 1..(n - 1) : k \in 1..n
    BY <1>1
  <2> QED BY <1>n, <1>1, <1>2, <1>3, <1>6, <2>1, <2>3, <2>4 DEF Moved
<1> QED BY <1>5, <1>6

\* The stocks a stack has locked, by place in the stack.
LEMMA HeldIs ==
    ASSUME NEW st, NEW s
    PROVE  s \in Held(st) <=> \E k \in 1..Len(st) : st[k].at # "lock" /\ st[k].node = s
  BY DEF Held

\* Every element of a stack is an activation for some stock.
LEMMA AreFrames ==
    ASSUME NEW st \in Seq(Frames)
    PROVE  /\ Len(st) \in Nat
           /\ \A k \in 1..Len(st) : st[k] \in Frames /\ st[k].node \in Stocks
<1>1. Len(st) \in Nat /\ \A k \in 1..Len(st) : st[k] \in Frames
  OBVIOUS
<1>2. \A f \in Frames : f.node \in Stocks
  BY DEF Frames
<1> QED BY <1>1, <1>2

\* A walk moves along the path it is on.
LEMMA MovedCalls ==
    ASSUME NEW st, NEW new, NEW l, NEW at, NEW c, NEW n, IsWalk(st, n), Moved(st, new, l, at, c)
    PROVE  /\ new # <<>> /\ new[1].node = Root
           /\ \A k \in 1..(l - 1) : Calls(new[k], new[k + 1])
<1>1. /\ l \in Nat \ {0} /\ \A k \in 1..(l - 1) : new[k] = st[k]
      /\ new[l].node = st[l].node /\ Len(new) # 0
  BY DEF Moved
<1>2. st[1].node = Root /\ \A k \in 1..(l - 1) : Calls(st[k], st[k + 1])
  BY DEF IsWalk, Moved
<1>3. \A k \in 1..l : k = l \/ k \in 1..(l - 1)
  BY <1>1
<1>4. \A k \in 1..l : new[k].node = st[k].node
  BY <1>1, <1>3
<1>5. new # <<>> /\ new[1].node = Root
  BY <1>1, <1>2, <1>4
<1>6. ASSUME NEW k \in 1..(l - 1) PROVE Calls(new[k], new[k + 1])
  <2>1. k + 1 \in 1..l
    BY <1>1
  <2> QED BY <1>1, <1>2, <1>4, <2>1 DEF Calls
<1> QED BY <1>5, <1>6

\* A walk that has passed P of a stock has locked one stock more.
LEMMA LockWalk ==
    ASSUME NEW st \in Seq(Frames), NEW n \in Nat, IsWalk(st, n), HeldOnce(st),
           NEW l, NEW s, s = st[l].node, st[l].at = "lock", s \notin Held(st),
           NEW new, Moved(st, new, l, "copy", Nil)
    PROVE  /\ IsWalk(new, n) /\ HeldOnce(new)
           /\ Held(new) = Held(st) \cup {s}
           /\ \A v, c : Snapshot(st, v, c) => Snapshot(new, v, c)
<1>1. /\ l \in Nat \ {0} /\ Len(st) = l /\ Len(new) = l
      /\ \A k \in 1..(l - 1) : new[k] = st[k]
      /\ new[l].node = s /\ new[l].at = "copy"
  BY DEF Moved
<1>2. l \in 1..l /\ \A k \in 1..l : k = l \/ k \in 1..(l - 1)
  BY <1>1
<1>3. \A k \in 1..(l - 1) : k \in 1..l
  BY <1>1
<1>4. IsWalk(new, n)
  <2>1. Progress(new[l]) = Progress(st[l])
    BY <1>1 DEF Progress
  <2>2. n = Progress(st[l])
    BY <1>1 DEF IsWalk
  <2> QED BY <1>1, <2>1, <2>2, MovedCalls DEF IsWalk
<1>5. \A r : r \in Held(st) <=> \E k \in 1..l : st[k].at # "lock" /\ st[k].node = r
  BY <1>1, HeldIs
<1>6. \A r : r \in Held(new) <=> \E k \in 1..l : new[k].at # "lock" /\ new[k].node = r
  BY <1>1, HeldIs
<1>7. HeldOnce(new)
  <2>1. \A k \in 1..(l - 1) : st[k].at # "lock" => st[k].node # s
    BY <1>3, <1>5
  <2>2. \A j, k \in 1..(l - 1) :
           st[j].at # "lock" /\ st[k].at # "lock" /\ st[j].node = st[k].node => j = k
    BY <1>1, <1>3 DEF HeldOnce
  <2> QED BY <1>1, <1>2, <2>1, <2>2 DEF HeldOnce
<1>8. Held(new) = Held(st) \cup {s}
  <2>1. ASSUME NEW r PROVE r \in Held(new) <=> r \in Held(st) \/ r = s
    <3>1. r \in Held(new) <=> r = s \/ \E k \in 1..(l - 1) : st[k].at # "lock" /\ st[k].node = r
      BY <1>1, <1>2, <1>3, <1>6
    <3>2. r \in Held(st) <=> \E k \in 1..(l - 1) : st[k].at # "lock" /\ st[k].node = r
      BY <1>2, <1>3, <1>5
    <3> QED BY <3>1, <3>2
  <2> QED BY <2>1
<1>9. ASSUME NEW v, NEW c, Snapshot(st, v, c) PROVE Snapshot(new, v, c)
  BY <1>1, <1>2, <1>3, <1>9 DEF Snapshot
<1> QED BY <1>4, <1>7, <1>8, <1>9

\* One that goes down to a child, or finds none there, keeps its locks, and
\* its path is one stock longer.
Descends(f, at, c, m) ==
    /\ f.at # "lock"
    /\ \/ at = "right" /\ c = LeftOf[f.node]
       \/ at = "unlock" /\ c = RightOf[f.node]
    /\ m = IF c = Nil THEN Progress([node |-> f.node, at |-> at]) ELSE PlaceOf(c) - 1
LEMMA DescendWalk ==
    ASSUME NEW st \in Seq(Frames), NEW n, NEW m, IsWalk(st, n), HeldOnce(st),
           NEW l, NEW at, NEW c, Descends(st[l], at, c, m),
           NEW new, Moved(st, new, l, at, c)
    PROVE  IsWalk(new, m) /\ HeldOnce(new) /\ Held(new) = Held(st)
<1>1. /\ l \in Nat \ {0} /\ Len(st) = l
      /\ Len(new) = IF c = Nil THEN l ELSE l + 1
      /\ \A k \in 1..(l - 1) : new[k] = st[k]
      /\ new[l].node = st[l].node /\ new[l].at = at
      /\ c # Nil => new[l + 1].node = c /\ new[l + 1].at = "lock"
      /\ st[l].at # "lock"
  BY DEF Moved, Descends
<1>2. l \in 1..l /\ \A k \in 1..l : k = l \/ k \in 1..(l - 1)
  BY <1>1
<1>3. new # <<>> /\ new[1].node = Root /\ \A k \in 1..(l - 1) : Calls(new[k], new[k + 1])
  BY MovedCalls
<1>4. IsWalk(new, m)
  <2>1. CASE c = Nil
    <3>1. Progress(new[l]) = m
      BY <1>1, <2>1 DEF Progress, Descends
    <3> QED BY <1>1, <1>3, <2>1, <3>1 DEF IsWalk
  <2>2. CASE c # Nil
    <3>1. Progress(new[l + 1]) = m
      BY <1>1, <2>2 DEF Progress, Descends
    <3>2. Calls(new[l], new[l + 1])
      BY <1>1, <2>2 DEF Calls, Descends
    <3>3. \A k \in 1..l : Calls(new[k], new[k + 1])
      BY <1>2, <1>3, <3>2
    <3>4. Len(new) = l + 1 /\ Len(new) - 1 = l
      BY <1>1, <2>2
    <3> QED BY <1>3, <3>1, <3>3, <3>4 DEF IsWalk
  <2> QED BY <2>1, <2>2
<1>5. \A k \in 1..Len(new) : k \in 1..l \/ (k = l + 1 /\ c # Nil)
  BY <1>1
<1>6. \A k \in 1..Len(new) : new[k].at # "lock" => k \in 1..l
  BY <1>1, <1>5
<1>7. \A k \in 1..l : k \in 1..Len(new)
  BY <1>1
<1>8. \A k \in 1..l : new[k].node = st[k].node /\ (new[k].at = "lock" <=> st[k].at = "lock")
  BY <1>1, <1>2 DEF Descends
<1>9. HeldOnce(new)
  BY <1>1, <1>6, <1>8 DEF HeldOnce
<1>10. Held(new) = Held(st)
  <2>1. ASSUME NEW r PROVE r \in Held(new) <=> r \in Held(st)
    <3>1. r \in Held(st) <=> \E k \in 1..l : st[k].at # "lock" /\ st[k].node = r
      BY <1>1, HeldIs
    <3>2. r \in Held(new) <=> \E k \in 1..l : new[k].at # "lock" /\ new[k].node = r
      BY <1>6, <1>7, HeldIs
    <3> QED BY <1>8, <3>1, <3>2
  <2> QED BY <2>1
<1> QED BY <1>4, <1>9, <1>10

\* A list of counts that is one count longer.
Longer(v, w, x) ==
    /\ w \in Seq(0..IntMax) /\ Len(w) = Len(v) + 1 /\ w[Len(v) + 1] = x
    /\ \A k \in 1..Len(v) : w[k] = v[k]
LEMMA IsLonger ==
    ASSUME NEW v \in Seq(0..IntMax), NEW x \in 0..IntMax PROVE Longer(v, Append(v, x), x)
  BY Appended DEF Longer

\* In particular after the copy of a count, which it adds to its list,
LEMMA CopyDescends ==
    ASSUME NEW st \in Seq(Frames), NEW n \in Nat, IsWalk(st, n),
           NEW l \in Nat \ {0}, l = Len(st), st[l].at = "copy"
    PROVE  /\ n + 1 = PlaceOf(st[l].node)
           /\ Descends(st[l], "right", LeftOf[st[l].node], n + 1)
<1>1. PICK s \in Stocks : s = st[l].node
  BY AreFrames
<1>2. /\ PlaceOf(s) \in Nat /\ LeftOf[s] \in Stocks \cup {Nil} /\ Size[Nil] = 0
      /\ LeftOf[s] # Nil => PlaceOf(LeftOf[s]) = PlaceOf(s) + 1
  BY Places
<1>3. n = PlaceOf(s) - 1
  BY <1>1 DEF IsWalk, Progress
<1>4. n + 1 = PlaceOf(s)
  BY <1>2, <1>3
<1>5. LeftOf[s] = Nil => n + 1 = Progress([node |-> s, at |-> "right"])
  BY <1>2, <1>4 DEF Progress
<1>6. LeftOf[s] # Nil => n + 1 = PlaceOf(LeftOf[s]) - 1
  BY <1>2, <1>4
<1> QED BY <1>1, <1>4, <1>5, <1>6 DEF Descends

LEMMA CopySnapshot ==
    ASSUME NEW st \in Seq(Frames), NEW l, NEW s, s = st[l].node, NEW d,
           NEW new, Moved(st, new, l, "right", d),
           NEW v \in Seq(0..IntMax), NEW c, NEW w, Longer(v, w, c[s]), Len(w) = PlaceOf(s),
           Snapshot(st, v, c)
    PROVE  Snapshot(new, w, c)
<1>1. /\ l \in Nat \ {0} /\ Len(st) = l /\ new[l].node = s
      /\ Len(new) = IF d = Nil THEN l ELSE l + 1
      /\ \A k \in 1..(l - 1) : new[k] = st[k]
      /\ d # Nil => new[l + 1].at = "lock"
  BY DEF Moved
<1>2. PICK n \in Nat, m \in Nat : n = Len(v) /\ m = Len(w) /\ m = n + 1
  BY DEF Longer
<1>3. w[m] = c[s] /\ \A k \in 1..n : w[k] = v[k]
  BY <1>2 DEF Longer
<1>4. \A k \in 1..l : st[k].node \in Stocks /\ PlaceOf(st[k].node) \in 1..Len(Order)
  BY <1>1, AreFrames, Places
<1> SUFFICES ASSUME NEW k \in 1..Len(new), new[k].at \in {"right", "unlock"}
             PROVE  PlaceOf(new[k].node) <= m /\ w[PlaceOf(new[k].node)] = c[new[k].node]
  BY <1>2 DEF Snapshot
<1>5. k = l \/ k \in 1..(l - 1)
  <2>1. k = l + 1 => d # Nil
    BY <1>1
  <2> QED BY <1>1, <2>1
<1>6. CASE k = l
  <2>1. new[k].node = s /\ m = PlaceOf(s)
    BY <1>1, <1>2, <1>6
  <2> QED BY <1>3, <2>1
<1>7. CASE k \in 1..(l - 1)
  <2>1. new[k] = st[k] /\ k \in 1..l
    BY <1>1, <1>7
  <2>2. PlaceOf(st[k].node) <= n /\ v[PlaceOf(st[k].node)] = c[st[k].node]
    BY <1>1, <1>2, <2>1 DEF Snapshot
  <2>3. PlaceOf(st[k].node) \in 1..n
    BY <1>2, <1>4, <2>1, <2>2, Places
  <2> QED BY <1>2, <1>3, <2>1, <2>2, <2>3
<1> QED BY <1>5, <1>6, <1>7

\* and when it has listed the left subtree.
LEMMA RightWalk ==
    ASSUME NEW st \in Seq(Frames), NEW n \in Nat, IsWalk(st, n), HeldOnce(st),
           NEW l, NEW s, s = st[l].node, st[l].at = "right",
           NEW d, d = RightOf[s], NEW new, Moved(st, new, l, "unlock", d)
    PROVE  /\ IsWalk(new, n) /\ HeldOnce(new) /\ Held(new) = Held(st)
           /\ \A v, c : Snapshot(st, v, c) => Snapshot(new, v, c)
<1>1. /\ l \in Nat \ {0} /\ Len(st) = l
      /\ Len(new) = IF d = Nil THEN l ELSE l + 1
      /\ \A k \in 1..(l - 1) : new[k] = st[k]
      /\ new[l].node = s /\ new[l].at = "unlock"
      /\ d # Nil => new[l + 1].at = "lock"
  BY DEF Moved
<1>2. s \in Stocks
  BY <1>1, AreFrames
<1>3. /\ RightOf[s] \in Stocks \cup {Nil} /\ PlaceOf(s) \in Nat /\ Size[LeftOf[s]] \in Nat
      /\ Size[s] = 1 + Size[LeftOf[s]] + Size[RightOf[s]]
      /\ Size[Nil] = 0
      /\ RightOf[s] # Nil => PlaceOf(RightOf[s]) = PlaceOf(s) + 1 + Size[LeftOf[s]]
  BY SMTT(30), <1>2, Places
<1>4. n = PlaceOf(s) + Size[LeftOf[s]]
  BY <1>1 DEF IsWalk, Progress
<1>5. IsWalk(new, n) /\ HeldOnce(new) /\ Held(new) = Held(st)
  <2>1. RightOf[s] = Nil => n = Progress([node |-> s, at |-> "unlock"])
    BY <1>3, <1>4 DEF Progress
  <2>2. RightOf[s] # Nil => n = PlaceOf(RightOf[s]) - 1
    BY <1>3, <1>4
  <2>3. Descends(st[l], "unlock", d, n)
    BY <2>1, <2>2 DEF Descends
  <2> QED BY <2>3, DescendWalk
<1>6. ASSUME NEW v, NEW c, Snapshot(st, v, c) PROVE Snapshot(new, v, c)
  <2>1. \A k \in 1..Len(new) : new[k].at \in {"right", "unlock"} =>
           k \in 1..l /\ new[k].node = st[k].node /\ st[k].at \in {"right", "unlock"}
    <3>1. \A k \in 1..Len(new) : k = l \/ k \in 1..(l - 1) \/ new[k].at = "lock"
      BY <1>1
    <3>2. l \in 1..l /\ \A k \in 1..(l - 1) : k \in 1..l
      BY <1>1
    <3> QED BY <1>1, <3>1, <3>2
  <2> QED BY <1>1, <1>6, <2>1 DEF Snapshot
<1> QED BY <1>5, <1>6

\* What is left of a stack when its topmost activation returns.
Returned(st, new, l) ==
    /\ new \in Seq(Frames) /\ l \in Nat \ {0} /\ l = Len(st) /\ Len(new) = l - 1
    /\ \A k \in 1..(l - 1) : new[k] = st[k]

\* A walk that returns has unlocked its topmost stock; when that was the root
\* it has listed all of them.
LEMMA ReturnWalk ==
    ASSUME NEW st \in Seq(Frames), NEW n \in Nat, IsWalk(st, n), HeldOnce(st),
           NEW l, NEW s, s = st[l].node, st[l].at = "unlock",
           NEW new, Returned(st, new, l)
    PROVE  /\ HeldOnce(new)
           /\ s \in Stocks /\ s \in Held(st) /\ Held(new) = Held(st) \ {s}
           /\ l = 1 => new = <<>> /\ n = Len(Order)
           /\ l # 1 => IsWalk(new, n)
           /\ \A v, c : Snapshot(st, v, c) => Snapshot(new, v, c)
<1>2. /\ l \in Nat \ {0} /\ l = Len(st) /\ Len(new) = l - 1
      /\ \A k \in 1..(l - 1) : new[k] = st[k]
  BY DEF Returned
<1>3. s \in Stocks /\ \A k \in 1..l : st[k].node \in Stocks
  BY <1>2, AreFrames
<1>4. l \in 1..l /\ \A k \in 1..l : k = l \/ k \in 1..(l - 1)
  BY <1>2
<1>5. \A k \in 1..(l - 1) : k \in 1..l /\ k # l
  BY <1>2
<1>6. n = PlaceOf(s) - 1 + Size[s]
  BY <1>2 DEF IsWalk, Progress
<1>7. HeldOnce(new)
  <2>1. \A j, k \in 1..(l - 1) :
           st[j].at # "lock" /\ st[k].at # "lock" /\ st[j].node = st[k].node => j = k
    BY <1>2, <1>5 DEF HeldOnce
  <2> QED BY <1>2, <2>1 DEF HeldOnce
<1>8. s \in Held(st) /\ Held(new) = Held(st) \ {s}
  <2>1. \A r : r \in Held(st) <=> \E k \in 1..l : st[k].at # "lock" /\ st[k].node = r
    BY <1>2, HeldIs
  <2>2. \A r : r \in Held(new) <=> \E k \in 1..(l - 1) : st[k].at # "lock" /\ st[k].node = r
    BY <1>2, HeldIs
  <2>3. \A k \in 1..(l - 1) : st[k].at # "lock" => st[k].node # s
    BY <1>2, <1>4, <1>5 DEF HeldOnce
  <2>4. s \in Held(st)
    BY <1>4, <2>1
  <2>5. ASSUME NEW r PROVE r \in Held(new) <=> r \in Held(st) /\ r # s
    BY <1>4, <1>5, <2>1, <2>2, <2>3
  <2> QED BY <2>4, <2>5
<1>9. l = 1 => new = <<>> /\ n = Len(Order)
  <2>1. l = 1 => s = Root
    BY <1>2 DEF IsWalk
  <2>2. PlaceOf(Root) = 1 /\ Size[Root] = Len(Order) /\ Len(Order) \in Nat
    BY Places
  <2> QED BY <1>2, <1>6, <2>1, <2>2
<1>10. ASSUME l # 1 PROVE IsWalk(new, n)
  <2>1. l - 1 \in 1..(l - 1) /\ 1 \in 1..(l - 1) /\ (l - 1) + 1 = l
    BY <1>2, <1>10
  <2>2. new # <<>> /\ new[1].node = Root
    <3>1. new # <<>>
      BY <1>2, <1>10
    <3> QED BY <1>2, <2>1, <3>1 DEF IsWalk
  <2>3. \A k \in 1..(l - 1) : Calls(st[k], st[k + 1])
    BY <1>2 DEF IsWalk
  <2>4. \A k \in 1..((l - 1) - 1) : Calls(new[k], new[k + 1])
    <3> SUFFICES ASSUME NEW k \in 1..((l - 1) - 1) PROVE Calls(new[k], new[k + 1])
      OBVIOUS
    <3>1. k \in 1..(l - 1) /\ k + 1 \in 1..(l - 1)
      BY <1>2
    <3> QED BY <1>2, <2>3, <3>1
  <2>5. PICK f : f = st[l - 1]
    OBVIOUS
  <2>6. Calls(f, st[l]) /\ f.node \in Stocks
    BY <1>3, <1>5, <2>1, <2>3, <2>5
  <2>7. /\ PlaceOf(f.node) \in Nat /\ Size[LeftOf[f.node]] \in Nat /\ Size[RightOf[f.node]] \in Nat
        /\ Size[f.node] = 1 + Size[LeftOf[f.node]] + Size[RightOf[f.node]]
        /\ LeftOf[f.node] # Nil => PlaceOf(LeftOf[f.node]) = PlaceOf(f.node) + 1
        /\ RightOf[f.node] # Nil =>
              PlaceOf(RightOf[f.node]) = PlaceOf(f.node) + 1 + Size[LeftOf[f.node]]
    <3>1. PICK r \in Stocks : r = f.node
      BY <2>6
    <3>2. PlaceOf(r) \in Nat /\ LeftOf[r] \in Stocks \cup {Nil} /\ RightOf[r] \in Stocks \cup {Nil}
      BY Places
    <3>3. Size[LeftOf[r]] \in Nat /\ Size[RightOf[r]] \in Nat
      BY <3>2, Places
    <3> QED BY <3>1, <3>2, <3>3, Places
  <2>8. s # Nil
    BY <1>3, MutexEndpointAssumption
  <2>9. n = Progress(f)
    <3>1. CASE f.at = "right" /\ s = LeftOf[f.node]
      BY <1>6, <2>7, <2>8, <3>1 DEF Progress
    <3>2. CASE f.at = "unlock" /\ s = RightOf[f.node]
      <4>1. PICK p, a, b \in Nat :
               /\ p = PlaceOf(f.node) /\ a = Size[LeftOf[f.node]] /\ b = Size[RightOf[f.node]]
        BY <2>7
      <4>2. PlaceOf(s) = p + 1 + a /\ Size[s] = b /\ Size[f.node] = 1 + a + b
        BY <2>7, <2>8, <3>2, <4>1
      <4>3. n = p - 1 + Size[f.node]
        BY <1>6, <4>2
      <4> QED BY <3>2, <4>1, <4>3 DEF Progress
    <3> QED BY <2>6, <3>1, <3>2 DEF Calls
  <2>10. new[Len(new)] = f
    BY <1>2, <2>1, <2>5
  <2> QED BY <1>2, <2>2, <2>4, <2>9, <2>10 DEF IsWalk
<1>11. ASSUME NEW v, NEW c, Snapshot(st, v, c) PROVE Snapshot(new, v, c)
  BY <1>2, <1>5, <1>11 DEF Snapshot
<1> QED BY <1>3, <1>7, <1>8, <1>9, <1>10, <1>11
-----------------------------------------------------------------------------
(* Steps                                                                   *)

Moves(t) == Step(t) \/ \E r \in Requests : Receive(t, r)
\* No step of a thread changes the locals of another.
Others(t) ==
    \A u \in Threads \ {t} :
        /\ pc'[u] = pc[u] /\ req'[u] = req[u] /\ ans'[u] = ans[u]
        /\ view'[u] = view[u] /\ stack'[u] = stack[u]

LEMMA OthersStay ==
    ASSUME TypeOK, NEW t \in Threads, Moves(t)
    PROVE  Others(t)
<1>1. CASE update_stock(t)
  BY <1>1 DEF Others, TypeOK, Goto, update_stock, UpdateLock, UpdateUnknown, UpdateEnough,
              UpdateNotEnough, UpdateAdd, UpdateUnlock
<1>2. CASE set_stocks_info(t)
  BY <1>2 DEF Others, TypeOK, set_stocks_info, WalkLock, WalkCopy, WalkRight, WalkUnlock
<1>3. CASE Respond(t)
  BY <1>3 DEF Others, TypeOK, Goto, Respond
<1>4. CASE \E r \in Requests : Receive(t, r)
  BY <1>4 DEF Others, TypeOK, Goto, Receive
<1> QED BY <1>1, <1>2, <1>3, <1>4 DEF Moves, Step

\* The record of a show is no update, and neither is the absence of one.
LEMMA ShowIsNoUpdate ==
    /\ Show \in Requests /\ NoReq \notin Requests /\ Show.op = "show"
    /\ \A r \in Updates : r # Show /\ r # NoReq /\ r.op \in {"buy", "sell"}
    /\ \A r \in Requests : r # Show => r \in Updates
<1>1. Show \in Requests /\ NoReq \notin Requests
  BY MutexEndpointAssumption DEF Requests
<1>2. \A r \in Updates : r.op \in {"buy", "sell"}
  BY DEF Updates
<1>3. Show.op = "show"
  BY DEF Show
<1>4. \A r \in Updates : r \in Requests
  BY DEF Requests
<1>5. \A r \in Requests : r # Show => r \in Updates
  BY DEF Requests
<1> QED BY <1>1, <1>2, <1>3, <1>4, <1>5

LEMMA ReqStep ==
    ASSUME Inv, NEW t \in Threads, Others(t), Moves(t)
    PROVE  ReqInv'
<1>1. TypeOK /\ ReqInv
  BY DEF Inv
<1> SUFFICES ASSUME NEW u \in Threads
             PROVE  /\ pc'[u] = "idle" <=> req'[u] = NoReq
                    /\ pc'[u] \in UpPcs => req'[u] \in Updates
                    /\ pc'[u] \in WritePcs => req'[u].id \in Stocks
                    /\ pc'[u] = "walk" => req'[u] = Show
  BY DEF ReqInv
<1>2. CASE u # t
  BY <1>1, <1>2 DEF Others, ReqInv
<1>3. CASE u = t
  <2>1. CASE update_stock(t)
    BY <1>1, <1>3, <2>1 DEF TypeOK, ReqInv, UpPcs, WritePcs, Goto, update_stock, UpdateLock,
       UpdateUnknown, UpdateEnough, UpdateNotEnough, UpdateAdd, UpdateUnlock
  <2>2. CASE set_stocks_info(t)
    BY <1>1, <1>3, <2>2 DEF TypeOK, ReqInv, UpPcs, WritePcs, Walking, set_stocks_info, WalkLock,
       WalkCopy, WalkRight, WalkUnlock
  <2>3. CASE Respond(t)
    BY <1>1, <1>3, <2>3 DEF TypeOK, UpPcs, WritePcs, Goto, Respond
  <2>4. ASSUME NEW r \in Requests, Receive(t, r)
        PROVE  /\ pc'[t] = "idle" <=> req'[t] = NoReq
               /\ pc'[t] \in UpPcs => req'[t] \in Updates
               /\ pc'[t] \in WritePcs => req'[t].id \in Stocks
               /\ pc'[t] = "walk" => req'[t] = Show
    <3>1. /\ pc'[t] = IF r = Show THEN "walk" ELSE "up_lock"
          /\ req'[t] = r
      BY <1>1, <2>4 DEF TypeOK, Goto, Receive
    <3> QED BY <3>1, ShowIsNoUpdate DEF UpPcs, WritePcs
  <2> QED BY <1>3, <2>1, <2>2, <2>3, <2>4 DEF Moves, Step
<1> QED BY <1>2, <1>3
-----------------------------------------------------------------------------
(* Steps of a walk                                                         *)

\* A walk stands on its topmost activation, and has locked stocks only.
LEMMA OnTop ==
    ASSUME Inv, NEW t \in Threads, pc[t] = "walk"
    PROVE  /\ stack[t] \in Seq(Frames) /\ stack[t] # <<>> /\ view[t] \in Seq(0..IntMax)
           /\ Len(view[t]) \in Nat /\ IsWalk(stack[t], Len(view[t])) /\ HeldOnce(stack[t])
           /\ Snapshot(stack[t], view[t], cnt)
           /\ Top(t).node \in Stocks
           /\ HeldBy(t) = Held(stack[t])
<1>1. stack[t] \in Seq(Frames) /\ view[t] \in Seq(0..IntMax)
  BY DEF Inv, TypeOK
<1>2. Len(view[t]) \in Nat
  BY <1>1
<1>3. /\ IsWalk(stack[t], Len(view[t])) /\ HeldOnce(stack[t])
      /\ Snapshot(stack[t], view[t], cnt)
  BY DEF Inv, WalkInv, LockInv
<1>4. stack[t] # <<>>
  BY <1>3 DEF IsWalk
<1>5. Top(t).node \in Stocks
  <2>1. Len(stack[t]) \in 1..Len(stack[t])
    BY <1>1, <1>4
  <2> QED BY <1>1, <2>1, AreFrames DEF Top
<1>6. HeldBy(t) = Held(stack[t])
  BY DEF HeldBy, WritePcs
<1> QED BY <1>1, <1>2, <1>3, <1>4, <1>5, <1>6

\* P of the topmost stock adds it to the stocks locked.
LEMMA WalkLockMoves ==
    ASSUME Inv, NEW t \in Threads, WalkLock(t)
    PROVE  /\ IsWalk(stack'[t], Len(view[t])) /\ HeldOnce(stack'[t])
           /\ stack'[t] \in Seq(Frames)
           /\ Top(t).node \notin Held(stack[t])
           /\ Held(stack'[t]) = Held(stack[t]) \cup {Top(t).node}
           /\ Snapshot(stack'[t], view[t], cnt)
<1>1. pc[t] = "walk" /\ Top(t).at = "lock"
  BY DEF WalkLock, Walking
<1>2. PICK st \in Seq(Frames), n \in Nat, v \in Seq(0..IntMax), s \in Stocks :
         st = stack[t] /\ n = Len(view[t]) /\ v = view[t] /\ s = Top(t).node
  BY <1>1, OnTop
<1>3. /\ st # <<>> /\ IsWalk(st, n) /\ HeldOnce(st) /\ Snapshot(st, v, cnt)
      /\ HeldBy(t) = Held(st)
  BY <1>1, <1>2, OnTop
<1>4. PICK l : l = Len(st)
  OBVIOUS
<1>5. s = st[l].node /\ st[l].at = "lock"
  BY <1>1, <1>2, <1>4 DEF Top
<1>6. PICK new : new = stack'[t]
  OBVIOUS
<1>7. Moved(st, new, l, "copy", Nil)
  <2>1. stack \in [Threads -> Seq(Frames)]
    BY DEF Inv, TypeOK
  <2>2. new = Push([st EXCEPT ![Len(st)].at = "copy"], Nil)
    BY <1>2, <1>6, <2>1 DEF WalkLock, Reach, Push
  <2> QED BY <1>3, <1>4, <2>2, Reached
<1>8. s \notin Held(st)
  <2>1. mutex[s] > 0
    BY <1>2 DEF WalkLock, P
  <2>2. \A r \in HeldBy(t) : mutex[r] = 0
    BY DEF Inv, LockInv
  <2> QED BY <1>3, <2>1, <2>2
<1>9. /\ IsWalk(new, n) /\ HeldOnce(new) /\ Held(new) = Held(st) \cup {s}
      /\ Snapshot(new, v, cnt)
  BY <1>3, <1>5, <1>7, <1>8, LockWalk
<1> QED BY <1>2, <1>6, <1>7, <1>8, <1>9 DEF Moved

\* A count copied is the next of the list, and the stock's left subtree the
\* next to be listed.
LEMMA WalkCopyMoves ==
    ASSUME Inv, NEW t \in Threads, WalkCopy(t)
    PROVE  /\ IsWalk(stack'[t], Len(view'[t])) /\ HeldOnce(stack'[t])
           /\ stack'[t] \in Seq(Frames)
           /\ Held(stack'[t]) = Held(stack[t])
           /\ view'[t] \in Seq(0..IntMax) /\ Len(view'[t]) = Len(view[t]) + 1
           /\ Len(view'[t]) = PlaceOf(Top(t).node)
           /\ Snapshot(stack'[t], view'[t], cnt)
<1>1. pc[t] = "walk" /\ Top(t).at = "copy"
  BY DEF WalkCopy, Walking
<1>2. PICK st \in Seq(Frames), v \in Seq(0..IntMax), s \in Stocks :
         st = stack[t] /\ v = view[t] /\ s = Top(t).node
  BY <1>1, OnTop
<1>3. st # <<>> /\ IsWalk(st, Len(v)) /\ HeldOnce(st) /\ Snapshot(st, v, cnt)
  BY <1>1, <1>2, OnTop
<1>4. PICK l : l = Len(st)
  OBVIOUS
<1>5. s = st[l].node /\ st[l].at = "copy"
  BY <1>1, <1>2, <1>4 DEF Top
<1>6. PICK new, w : new = stack'[t] /\ w = view'[t]
  OBVIOUS
<1>7. PICK c \in Stocks \cup {Nil} : c = LeftOf[s]
  BY Places
<1>8. Moved(st, new, l, "right", c)
  <2>1. stack \in [Threads -> Seq(Frames)]
    BY DEF Inv, TypeOK
  <2>2. new = Push([st EXCEPT ![Len(st)].at = "right"], c)
    BY <1>2, <1>6, <1>7, <2>1 DEF WalkCopy, Reach
  <2> QED BY <1>3, <1>4, <2>2, Reached
<1>9. Longer(v, w, cnt[s])
  <2>1. view \in [Threads -> Seq(0..IntMax)] /\ cnt[s] \in 0..IntMax
    BY DEF Inv, TypeOK
  <2>2. w = Append(v, cnt[s])
    BY <1>2, <1>6, <2>1 DEF WalkCopy
  <2> QED BY <2>1, <2>2, IsLonger
<1>10. PICK n \in Nat, m \in Nat : n = Len(v) /\ m = Len(w) /\ m = n + 1
  BY <1>9 DEF Longer
<1>11. IsWalk(new, m) /\ HeldOnce(new) /\ Held(new) = Held(st) /\ m = PlaceOf(s)
  <2>1. IsWalk(st, n) /\ l \in Nat \ {0}
    BY <1>3, <1>8, <1>10 DEF Moved
  <2>2. n + 1 = PlaceOf(st[l].node) /\ Descends(st[l], "right", LeftOf[st[l].node], n + 1)
    BY <1>4, <1>5, <2>1, CopyDescends
  <2>3. Descends(st[l], "right", c, m)
    BY <1>5, <1>7, <1>10, <2>2
  <2>4. IsWalk(new, m) /\ HeldOnce(new) /\ Held(new) = Held(st)
    BY <1>3, <1>8, <2>1, <2>3, DescendWalk
  <2> QED BY <1>5, <1>10, <2>2, <2>4
<1>12. Snapshot(new, w, cnt)
  BY <1>3, <1>5, <1>8, <1>9, <1>10, <1>11, CopySnapshot
<1> QED BY <1>2, <1>6, <1>8, <1>9, <1>10, <1>11, <1>12 DEF Moved, Longer

\* The right subtree is next when the left one is listed.
LEMMA WalkRightMoves ==
    ASSUME Inv, NEW t \in Threads, WalkRight(t)
    PROVE  /\ IsWalk(stack'[t], Len(view[t])) /\ HeldOnce(stack'[t])
           /\ stack'[t] \in Seq(Frames)
           /\ Held(stack'[t]) = Held(stack[t])
           /\ Snapshot(stack'[t], view[t], cnt)
<1>1. pc[t] = "walk" /\ Top(t).at = "right"
  BY DEF WalkRight, Walking
<1>2. PICK st \in Seq(Frames), n \in Nat, v \in Seq(0..IntMax), s \in Stocks :
         st = stack[t] /\ n = Len(view[t]) /\ v = view[t] /\ s = Top(t).node
  BY <1>1, OnTop
<1>3. st # <<>> /\ IsWalk(st, n) /\ HeldOnce(st) /\ Snapshot(st, v, cnt)
  BY <1>1, <1>2, OnTop
<1>4. PICK l : l = Len(st)
  OBVIOUS
<1>5. s = st[l].node /\ st[l].at = "right"
  BY <1>1, <1>2, <1>4 DEF Top
<1>6. PICK new : new = stack'[t]
  OBVIOUS
<1>7. PICK c \in Stocks \cup {Nil} : c = RightOf[s]
  BY Places
<1>8. Moved(st, new, l, "unlock", c)
  <2>1. stack \in [Threads -> Seq(Frames)]
    BY DEF Inv, TypeOK
  <2>2. new = Push([st EXCEPT ![Len(st)].at = "unlock"], c)
    BY <1>2, <1>6, <1>7, <2>1 DEF WalkRight, Reach
  <2> QED BY <1>3, <1>4, <2>2, Reached
<1>9. IsWalk(new, n) /\ HeldOnce(new) /\ Held(new) = Held(st) /\ Snapshot(new, v, cnt)
  BY ZenonT(40), <1>3, <1>5, <1>7, <1>8, RightWalk
<1> QED BY <1>2, <1>6, <1>8, <1>9 DEF Moved

\* V of the topmost stock, and its activation returns; when that was the
\* root, every stock is listed.
LEMMA WalkUnlockReturns ==
    ASSUME Inv, NEW t \in Threads, WalkUnlock(t)
    PROVE  /\ HeldOnce(stack'[t])
           /\ stack'[t] \in Seq(Frames)
           /\ Top(t).node \in Held(stack[t])
           /\ Held(stack'[t]) = Held(stack[t]) \ {Top(t).node}
           /\ Len(stack[t]) = 1 => stack'[t] = <<>> /\ Len(view[t]) = Len(Order)
           /\ Len(stack[t]) # 1 => IsWalk(stack'[t], Len(view[t]))
           /\ Snapshot(stack'[t], view[t], cnt)
<1>1. pc[t] = "walk" /\ Top(t).at = "unlock"
  BY DEF WalkUnlock, Walking
<1>2. PICK st \in Seq(Frames), n \in Nat, v \in Seq(0..IntMax), s \in Stocks :
         st = stack[t] /\ n = Len(view[t]) /\ v = view[t] /\ s = Top(t).node
  BY <1>1, OnTop
<1>3. st # <<>> /\ IsWalk(st, n) /\ HeldOnce(st) /\ Snapshot(st, v, cnt)
  BY <1>1, <1>2, OnTop
<1>4. PICK l : l = Len(st)
  OBVIOUS
<1>5. s = st[l].node /\ st[l].at = "unlock"
  BY <1>1, <1>2, <1>4 DEF Top
<1>6. PICK new : new = stack'[t]
  OBVIOUS
<1>7. Returned(st, new, l)
  <2>1. stack \in [Threads -> Seq(Frames)]
    BY DEF Inv, TypeOK
  <2>2. new = SubSeq(st, 1, Len(st) - 1)
    BY <1>2, <1>6, <2>1 DEF WalkUnlock
  <2>3. /\ SubSeq(st, 1, Len(st) - 1) \in Seq(Frames) /\ Len(st) \in Nat \ {0}
        /\ Len(SubSeq(st, 1, Len(st) - 1)) = Len(st) - 1
        /\ \A k \in 1..(Len(st) - 1) : SubSeq(st, 1, Len(st) - 1)[k] = st[k]
    BY ONLY st \in Seq(Frames), <1>3, Shortened
  <2> QED BY <1>4, <2>2, <2>3 DEF Returned
<1>8. /\ HeldOnce(new) /\ s \in Held(st) /\ Held(new) = Held(st) \ {s}
      /\ l = 1 => new = <<>> /\ n = Len(Order)
      /\ l # 1 => IsWalk(new, n)
      /\ Snapshot(new, v, cnt)
  BY <1>3, <1>5, <1>7, ReturnWalk
<1> QED BY <1>2, <1>4, <1>6, <1>7, <1>8 DEF Returned

\* The walk of a thread after a step of its own.
LEMMA OwnWalk ==
    ASSUME Inv, NEW t \in Threads, Moves(t)
    PROVE  /\ pc'[t] = "walk" => IsWalk(stack'[t], Len(view'[t]))
           /\ pc'[t] # "walk" => stack'[t] = <<>>
           /\ Snapshot(stack'[t], view'[t], cnt')
           /\ stack'[t] \in Seq(Frames) /\ view'[t] \in Seq(0..IntMax)
           /\ HeldOnce(stack'[t])
           /\ pc'[t] # pc[t] /\ pc[t] = "walk" => Len(view'[t]) = Len(Order)
<1> DEFINE Goal == /\ pc'[t] = "walk" => IsWalk(stack'[t], Len(view'[t]))
                   /\ pc'[t] # "walk" => stack'[t] = <<>>
                   /\ Snapshot(stack'[t], view'[t], cnt')
                   /\ stack'[t] \in Seq(Frames) /\ view'[t] \in Seq(0..IntMax)
                   /\ HeldOnce(stack'[t])
                   /\ pc'[t] # pc[t] /\ pc[t] = "walk" => Len(view'[t]) = Len(Order)
<1> SUFFICES Goal
  OBVIOUS
<1>types. /\ pc \in [Threads -> {"idle", "respond", "up_lock", "walk"} \cup WritePcs]
          /\ view \in [Threads -> Seq(0..IntMax)] /\ stack \in [Threads -> Seq(Frames)]
          /\ cnt \in [Stocks -> 0..IntMax]
  BY DEF Inv, TypeOK
<1>walk. pc[t] # "walk" => stack[t] = <<>>
  BY DEF Inv, WalkInv
<1>empty. \A v, c : Snapshot(<<>>, v, c) /\ HeldOnce(<<>>) /\ <<>> \in Seq(Frames)
  BY DEF Snapshot, HeldOnce
<1>1. CASE WalkLock(t)
  <2>1. pc[t] = "walk" /\ pc' = pc /\ view' = view /\ cnt' = cnt
    BY <1>1 DEF WalkLock, Walking
  <2> QED BY <1>1, <1>types, <2>1, WalkLockMoves
<1>2. CASE WalkCopy(t)
  <2>1. pc[t] = "walk" /\ pc' = pc /\ cnt' = cnt
    BY <1>2 DEF WalkCopy, Walking
  <2> QED BY <1>2, <2>1, WalkCopyMoves
<1>3. CASE WalkRight(t)
  <2>1. pc[t] = "walk" /\ pc' = pc /\ view' = view /\ cnt' = cnt
    BY <1>3 DEF WalkRight, Walking
  <2> QED BY <1>3, <1>types, <2>1, WalkRightMoves
<1>4. CASE WalkUnlock(t)
  <2>1. pc[t] = "walk" /\ view' = view /\ cnt' = cnt
        /\ pc'[t] = IF Len(stack[t]) = 1 THEN "respond" ELSE "walk"
    BY <1>4, <1>types DEF WalkUnlock, Walking
  <2> QED BY <1>4, <1>types, <2>1, WalkUnlockReturns
<1>5. CASE update_stock(t)
  <2>1. /\ pc[t] # "walk" /\ pc'[t] # "walk" /\ stack' = stack /\ view' = view
    BY <1>5, <1>types DEF Goto, update_stock, UpdateLock, UpdateUnknown, UpdateEnough,
       UpdateNotEnough, UpdateAdd, UpdateUnlock
  <2> QED BY <1>types, <1>walk, <1>empty, <2>1
<1>6. CASE Respond(t)
  <2>1. /\ pc[t] # "walk" /\ pc'[t] # "walk" /\ stack' = stack /\ view'[t] = <<>>
    BY <1>6, <1>types DEF Goto, Respond
  <2>2. <<>> \in Seq(0..IntMax)
    OBVIOUS
  <2> QED BY <1>walk, <1>empty, <2>1, <2>2
<1>7. ASSUME NEW r \in Requests, Receive(t, r) PROVE Goal
  <2>1. /\ pc[t] = "idle" /\ pc'[t] = IF r = Show THEN "walk" ELSE "up_lock"
        /\ stack'[t] = IF r = Show THEN <<Frame(Root)>> ELSE <<>>
        /\ view'[t] = view[t] /\ cnt' = cnt
    BY <1>7, <1>types DEF Goto, Receive
  <2>2. view[t] = <<>> /\ <<>> \in Seq(0..IntMax)
    BY <2>1 DEF Inv, AnswerInv
  <2>3. CASE r = Show
    <3> DEFINE st == <<Frame(Root)>>
    <3>1. Frame(Root) \in Frames /\ Frame(Root).node = Root /\ Frame(Root).at = "lock"
      BY MutexEndpointAssumption DEF Frame, Frames
    <3>2. st \in Seq(Frames) /\ Len(st) = 1 /\ st[1] = Frame(Root)
      BY <3>1
    <3>3. HeldOnce(st) /\ \A c : Snapshot(st, <<>>, c)
      BY <3>1, <3>2 DEF HeldOnce, Snapshot
    <3>4. IsWalk(st, 0)
      <4>1. Progress(st[1]) = 0
        BY <3>1, <3>2, Places DEF Progress
      <4> QED BY <3>1, <3>2, <4>1 DEF IsWalk
    <3> QED BY <2>1, <2>2, <2>3, <3>2, <3>3, <3>4
  <2>4. CASE r # Show
    BY <1>empty, <2>1, <2>2, <2>4
  <2> QED BY <2>3, <2>4
<1> QED BY <1>1, <1>2, <1>3, <1>4, <1>5, <1>6, <1>7 DEF Moves, Step, set_stocks_info

\* The semaphores after a step: a thread takes one that is free, or frees one
\* it has, or leaves them all alone.
Keeps(t) == HeldBy(t)' = HeldBy(t) /\ mutex' = mutex
Takes(t, s) ==
    /\ s \in Stocks /\ mutex[s] > 0 /\ mutex' = [mutex EXCEPT ![s] = @ - 1]
    /\ HeldBy(t)' = HeldBy(t) \cup {s}
Frees(t, s) ==
    /\ s \in Stocks /\ s \in HeldBy(t) /\ mutex' = [mutex EXCEPT ![s] = @ + 1]
    /\ HeldBy(t)' = HeldBy(t) \ {s}
LEMMA LocksStep ==
    ASSUME Inv, NEW t \in Threads, Moves(t)
    PROVE  Keeps(t) \/ \E s \in Stocks : Takes(t, s) \/ Frees(t, s)
<1>types. /\ pc \in [Threads -> {"idle", "respond", "up_lock", "walk"} \cup WritePcs]
          /\ req \in [Threads -> Requests \cup {NoReq}]
          /\ stack \in [Threads -> Seq(Frames)]
  BY DEF Inv, TypeOK
<1>req. pc[t] \in WritePcs => req[t].id \in Stocks
  BY DEF Inv, ReqInv
<1>next. HeldBy(t)' = Held(stack'[t]) \cup (IF pc'[t] \in WritePcs THEN {req'[t].id} ELSE {})
  BY DEF HeldBy
<1>1. CASE WalkLock(t)
  <2>1. pc[t] = "walk" /\ pc' = pc
    BY <1>1 DEF WalkLock, Walking
  <2>2. mutex[Top(t).node] > 0 /\ mutex' = [mutex EXCEPT ![Top(t).node] = @ - 1]
    BY <1>1 DEF WalkLock, P
  <2>3. HeldBy(t)' = HeldBy(t) \cup {Top(t).node}
    BY <1>1, <1>next, <2>1, OnTop, WalkLockMoves DEF WritePcs
  <2> QED BY <2>1, <2>2, <2>3, OnTop DEF Takes
<1>2. CASE WalkCopy(t)
  <2>1. pc[t] = "walk" /\ pc' = pc /\ mutex' = mutex
    BY <1>2 DEF WalkCopy, Walking
  <2> QED BY <1>2, <1>next, <2>1, OnTop, WalkCopyMoves DEF WritePcs, Keeps
<1>3. CASE WalkRight(t)
  <2>1. pc[t] = "walk" /\ pc' = pc /\ mutex' = mutex
    BY <1>3 DEF WalkRight, Walking
  <2> QED BY <1>3, <1>next, <2>1, OnTop, WalkRightMoves DEF WritePcs, Keeps
<1>4. CASE WalkUnlock(t)
  <2>1. pc[t] = "walk" /\ pc'[t] \in {"respond", "walk"}
        /\ mutex' = [mutex EXCEPT ![Top(t).node] = @ + 1]
    BY <1>4, <1>types DEF WalkUnlock, Walking, V
  <2>2. HeldBy(t)' = HeldBy(t) \ {Top(t).node}
    BY <1>4, <1>next, <2>1, OnTop, WalkUnlockReturns DEF WritePcs
  <2> QED BY <1>4, <2>1, <2>2, OnTop, WalkUnlockReturns DEF Frees
<1>empty. Held(<<>>) = {} /\ Held(<<Frame(Root)>>) = {}
  <2>1. \A s : s \notin Held(<<>>)
    BY HeldIs
  <2>2. Len(<<Frame(Root)>>) = 1 /\ <<Frame(Root)>>[1].at = "lock"
    BY DEF Frame
  <2>3. \A s : s \notin Held(<<Frame(Root)>>)
    BY <2>2, HeldIs
  <2> QED BY <2>1, <2>3
<1>notwalk. pc[t] # "walk" => Held(stack[t]) = {}
  BY <1>empty DEF Inv, WalkInv
<1>5. CASE update_stock(t)
  <2>1. pc[t] # "walk" /\ stack' = stack /\ req' = req
    BY <1>5 DEF Goto, update_stock, UpdateLock, UpdateUnknown, UpdateEnough, UpdateNotEnough,
       UpdateAdd, UpdateUnlock
  <2>2. HeldBy(t) = (IF pc[t] \in WritePcs THEN {req[t].id} ELSE {})
    BY <1>notwalk, <2>1 DEF HeldBy
  <2>3. HeldBy(t)' = (IF pc'[t] \in WritePcs THEN {req[t].id} ELSE {})
    BY <1>next, <1>notwalk, <2>1
  <2>4. CASE UpdateLock(t)
    BY <1>types, <2>2, <2>3, <2>4 DEF UpdateLock, Goto, P, WritePcs, Takes
  <2>5. CASE UpdateUnlock(t)
    BY <1>types, <1>req, <2>2, <2>3, <2>5 DEF UpdateUnlock, Goto, V, WritePcs, Frees
  <2>6. CASE UpdateUnknown(t) \/ UpdateEnough(t) \/ UpdateNotEnough(t) \/ UpdateAdd(t)
    BY <1>types, <2>2, <2>3, <2>6
       DEF Goto, UpdateUnknown, UpdateEnough, UpdateNotEnough, UpdateAdd, WritePcs, Keeps
  <2> QED BY <1>5, <2>4, <2>5, <2>6 DEF update_stock
<1>6. CASE Respond(t) \/ \E r \in Requests : Receive(t, r)
  <2>1. /\ pc[t] \in {"idle", "respond"} /\ pc'[t] \in {"idle", "up_lock", "walk"}
        /\ stack'[t] \in {stack[t], <<>>, <<Frame(Root)>>} /\ mutex' = mutex
    BY <1>6, <1>types DEF Goto, Respond, Receive
  <2>2. HeldBy(t) = {} /\ HeldBy(t)' = {}
    BY <1>next, <1>notwalk, <1>empty, <2>1 DEF HeldBy, WritePcs
  <2> QED BY <2>1, <2>2 DEF Keeps
<1> QED BY <1>1, <1>2, <1>3, <1>4, <1>5, <1>6 DEF Moves, Step, set_stocks_info

\* The semaphores stay binary, and say which stocks are locked.
LEMMA LockStep ==
    ASSUME Inv, NEW t \in Threads, Others(t), Moves(t)
    PROVE  LockInv' /\ mutex' \in [Stocks -> 0..1]
<1>1. mutex \in [Stocks -> 0..1] /\ LockInv
  BY DEF Inv, TypeOK
<1>2. \A u \in Threads \ {t} : HeldBy(u)' = HeldBy(u) /\ HeldOnce(stack'[u])
  BY <1>1 DEF Others, HeldBy, LockInv
<1>3. HeldOnce(stack'[t])
  BY OwnWalk
<1>4. Keeps(t) \/ \E s \in Stocks : Takes(t, s) \/ Frees(t, s)
  BY LocksStep
<1>5. \A u \in Threads : HeldOnce(stack[u])' /\ HeldOnce(stack'[u])
  BY <1>2, <1>3
<1>6. CASE Keeps(t)
  <2>1. \A u \in Threads : HeldBy(u)' = HeldBy(u)
    BY <1>2, <1>6 DEF Keeps
  <2> QED BY <1>1, <1>5, <1>6, <2>1 DEF Keeps, LockInv
<1>7. ASSUME NEW s \in Stocks, Takes(t, s)
      PROVE  LockInv' /\ mutex' \in [Stocks -> 0..1]
  <2>1. mutex[s] = 1 /\ mutex' = [mutex EXCEPT ![s] = 0]
    <3>1. mutex[s] \in 0..1 /\ mutex[s] > 0 /\ mutex' = [mutex EXCEPT ![s] = mutex[s] - 1]
      BY <1>1, <1>7 DEF Takes
    <3>2. mutex[s] = 1
      BY <3>1
    <3>3. mutex[s] - 1 = 0
      BY <3>2
    <3> QED BY <3>1, <3>2, <3>3
  <2>2. \A u \in Threads : s \notin HeldBy(u)
    BY <1>1, <2>1 DEF LockInv
  <2>3. \A u \in Threads : \A r \in HeldBy(u)' : mutex'[r] = 0
    <3> SUFFICES ASSUME NEW u \in Threads, NEW r \in HeldBy(u)' PROVE mutex'[r] = 0
      OBVIOUS
    <3>1. r = s \/ r \in HeldBy(u)
      BY <1>2, <1>7 DEF Takes
    <3>2. r \in HeldBy(u) => mutex[r] = 0 /\ r # s
      BY <1>1, <2>1 DEF LockInv
    <3> QED BY <1>1, <2>1, <3>1, <3>2
  <2>4. \A u, w \in Threads : w # u => HeldBy(u)' \cap HeldBy(w)' = {}
    BY <1>1, <1>2, <1>7, <2>2 DEF LockInv, Takes
  <2> QED BY <1>1, <1>5, <2>1, <2>3, <2>4 DEF LockInv
<1>8. ASSUME NEW s \in Stocks, Frees(t, s)
      PROVE  LockInv' /\ mutex' \in [Stocks -> 0..1]
  <2>1. mutex[s] = 0 /\ mutex' = [mutex EXCEPT ![s] = 1]
    <3>1. mutex[s] = 0 /\ mutex' = [mutex EXCEPT ![s] = mutex[s] + 1]
      BY <1>1, <1>8 DEF Frees, LockInv
    <3>2. mutex[s] + 1 = 1
      BY <3>1
    <3> QED BY <3>1, <3>2
  <2>2. \A u \in Threads \ {t} : s \notin HeldBy(u)
    BY <1>1, <1>8 DEF Frees, LockInv
  <2>3. \A u \in Threads : \A r \in HeldBy(u)' : r \in HeldBy(u) /\ r # s
    BY <1>2, <1>8, <2>2 DEF Frees
  <2>4. \A u \in Threads : \A r \in HeldBy(u)' : mutex'[r] = 0
    BY <1>1, <2>1, <2>3 DEF LockInv
  <2>5. \A u, w \in Threads : w # u => HeldBy(u)' \cap HeldBy(w)' = {}
    BY <1>1, <2>3 DEF LockInv
  <2> QED BY <1>1, <1>5, <2>1, <2>4, <2>5 DEF LockInv
<1> QED BY <1>4, <1>6, <1>7, <1>8

\* The count of a stock that one thread has locked is not changed by another.
LEMMA LockedStays ==
    ASSUME Inv, NEW t \in Threads, NEW u \in Threads, u # t, Moves(t), NEW s \in HeldBy(u)
    PROVE  cnt'[s] = cnt[s]
<1>1. CASE UpdateAdd(t)
  <2>1. pc[t] = "up_add" /\ cnt' = [cnt EXCEPT ![req[t].id] = NewCnt(t)]
    BY <1>1 DEF UpdateAdd, Goto
  <2>2. req[t].id \in HeldBy(t)
    BY <2>1 DEF HeldBy, WritePcs
  <2>3. s # req[t].id
    BY <2>2 DEF Inv, LockInv
  <2> QED BY <2>1, <2>3 DEF Inv, TypeOK
<1>2. CASE ~UpdateAdd(t)
  BY <1>2 DEF Moves, Step, update_stock, UpdateLock, UpdateUnknown, UpdateEnough,
     UpdateNotEnough, UpdateUnlock, set_stocks_info, WalkLock, WalkCopy, WalkRight, WalkUnlock,
     Respond, Receive
<1> QED BY <1>1, <1>2

\* A list stays a snapshot of the path its walk has locked.
LEMMA WalkStep ==
    ASSUME Inv, NEW t \in Threads, Others(t), Moves(t)
    PROVE  WalkInv'
<1> SUFFICES ASSUME NEW u \in Threads
             PROVE  /\ pc'[u] = "walk" => IsWalk(stack'[u], Len(view'[u]))
                    /\ pc'[u] # "walk" => stack'[u] = <<>>
                    /\ Snapshot(stack'[u], view'[u], cnt')
  BY DEF WalkInv
<1>1. CASE u = t
  BY <1>1, OwnWalk
<1>2. CASE u # t
  <2>1. /\ pc'[u] = pc[u] /\ view'[u] = view[u] /\ stack'[u] = stack[u]
    BY <1>2 DEF Others
  <2>2. Snapshot(stack[u], view[u], cnt)
    BY DEF Inv, WalkInv
  <2>3. ASSUME NEW k \in 1..Len(stack[u]), stack[u][k].at \in {"right", "unlock"}
        PROVE  cnt'[stack[u][k].node] = cnt[stack[u][k].node]
    <3>1. stack[u][k].node \in Held(stack[u])
      BY <2>3, HeldIs
    <3>2. stack[u][k].node \in HeldBy(u)
      BY <3>1 DEF HeldBy
    <3> QED BY <1>2, <3>2, LockedStays
  <2>4. Snapshot(stack[u], view[u], cnt')
    BY <2>2, <2>3 DEF Snapshot
  <2> QED BY <2>1, <2>4 DEF Inv, WalkInv
<1> QED BY <1>1, <1>2

\* What was tested stays so, for the stock is locked until the addition.
LEMMA CheckStep ==
    ASSUME Inv, NEW t \in Threads, Others(t), Moves(t)
    PROVE  CheckInv'
<1> SUFFICES ASSUME NEW u \in Threads, pc'[u] = "up_add" PROVE NewCnt(u)' >= 0
  BY DEF CheckInv
<1>1. CASE u # t
  <2>1. pc[u] = "up_add" /\ req'[u] = req[u]
    BY <1>1 DEF Others
  <2>2. req[u].id \in HeldBy(u)
    BY <2>1 DEF HeldBy, WritePcs
  <2>3. cnt'[req[u].id] = cnt[req[u].id]
    BY <1>1, <2>2, LockedStays
  <2>4. NewCnt(u)' = NewCnt(u)
    BY <2>1, <2>3 DEF NewCnt
  <2>5. NewCnt(u) >= 0
    BY <2>1 DEF Inv, CheckInv
  <2> QED BY <2>4, <2>5
<1>2. CASE u = t
  <2>1. pc \in [Threads -> {"idle", "respond", "up_lock", "walk"} \cup WritePcs]
    BY DEF Inv, TypeOK
  <2>2. UpdateEnough(t) \/ (UpdateUnknown(t) /\ pc[t] = "up_lock")
    BY <1>2, <2>1 DEF Moves, Step, Goto, Walking, update_stock, UpdateLock, UpdateUnknown,
       UpdateNotEnough, UpdateAdd, UpdateUnlock, set_stocks_info, WalkLock, WalkCopy, WalkRight,
       WalkUnlock, Respond, Receive
  <2>3. UpdateEnough(t)
    BY <1>2, <2>1, <2>2 DEF UpdateUnknown
  <2>4. NewCnt(t) >= 0 /\ req' = req /\ cnt' = cnt
    BY <2>3 DEF UpdateEnough
  <2> QED BY <1>2, <2>4 DEF NewCnt
<1> QED BY <1>1, <1>2

\* An update has its verdict when it frees its stock, a show its whole list
\* when the walk ends.
LEMMA AnswerStep ==
    ASSUME Inv, NEW t \in Threads, Others(t), Moves(t)
    PROVE  AnswerInv'
<1>types. /\ pc \in [Threads -> {"idle", "respond", "up_lock", "walk"} \cup WritePcs]
          /\ req \in [Threads -> Requests \cup {NoReq}]
          /\ ans \in [Threads -> {"none", "SUCCESS", "NOT_ENOUGH"}]
          /\ view \in [Threads -> Seq(0..IntMax)]
  BY DEF Inv, TypeOK
<1> DEFINE Good(p, q, a, v) ==
              /\ p \in {"idle", "up_lock", "up_check", "up_add"} => a = "none"
              /\ p = "up_unlock" => a # "none"
              /\ p = "respond" /\ q # Show => a # "none"
              /\ p = "idle" => v = <<>>
              /\ p = "respond" /\ q = Show => Len(v) = Len(Order)
<1>old. \A u \in Threads : Good(pc[u], req[u], ans[u], view[u])
  BY DEF Inv, AnswerInv
<1> SUFFICES ASSUME NEW u \in Threads PROVE Good(pc'[u], req'[u], ans'[u], view'[u])
  BY DEF AnswerInv
<1>1. CASE u # t
  BY <1>1, <1>old DEF Others
<1>2. CASE u = t
  <2>1. CASE update_stock(t)
    <3>1. pc[t] \in UpPcs => req[t] # Show
      BY ShowIsNoUpdate DEF Inv, ReqInv
    <3> QED BY <1>types, <1>old, <1>2, <2>1, <3>1 DEF Goto, update_stock, UpdateLock,
       UpdateUnknown, UpdateEnough, UpdateNotEnough, UpdateAdd, UpdateUnlock, UpPcs, WritePcs
  <2>2. CASE set_stocks_info(t)
    <3>1. pc[t] = "walk" /\ pc'[t] \in {"walk", "respond"} /\ req'[t] = req[t]
      BY <1>types, <2>2 DEF set_stocks_info, Walking, WalkLock, WalkCopy, WalkRight, WalkUnlock
    <3>2. req[t] = Show
      BY <3>1 DEF Inv, ReqInv
    <3>3. pc'[t] = "respond" => Len(view'[t]) = Len(Order)
      BY <3>1, OwnWalk
    <3> QED BY <1>2, <3>1, <3>2, <3>3
  <2>3. CASE Respond(t)
    BY <1>types, <1>2, <2>3 DEF Goto, Respond
  <2>4. CASE \E r \in Requests : Receive(t, r)
    BY <1>types, <1>old, <1>2, <2>4 DEF Goto, Receive
  <2> QED BY <2>1, <2>2, <2>3, <2>4 DEF Moves, Step
<1> QED BY <1>1, <1>2

\* Division with remainder.
LEMMA DivMod ==
    ASSUME NEW n \in Nat \ {0}, NEW i \in Int
    PROVE  /\ i % n \in 0..(n - 1)
           /\ i \div n \in Int
           /\ i = n * (i \div n) + (i % n)
  OBVIOUS

\* Remainders of numbers less than two moduli.
LEMMA SmallMod ==
    ASSUME NEW n \in Nat \ {0}, NEW i \in 0..(2 * n - 1)
    PROVE  i % n = IF i < n THEN i ELSE i - n
<1> DEFINE q == i \div n
           r == i % n
<1>1. r \in 0..(n - 1) /\ q \in Int /\ i = n * q + r
  BY DivMod
<1> HIDE DEF q, r
<1>2. q >= 0
  <2> SUFFICES ASSUME q <= -1 PROVE FALSE
    BY <1>1
  <2>1. n * q <= -n
    BY <1>1
  <2> QED BY <1>1, <2>1
<1>3. q <= 1
  <2> SUFFICES ASSUME q >= 2 PROVE FALSE
    BY <1>1
  <2>1. n * q >= 2 * n
    BY <1>1
  <2> QED BY <1>1, <2>1
<1>4. CASE q = 0
  <2>1. i = r
    BY <1>1, <1>4
  <2> QED BY <1>1, <2>1 DEF r
<1>5. CASE q = 1
  <2>1. i = n + r
    BY <1>1, <1>5
  <2> QED BY <1>1, <2>1 DEF r
<1> QED BY <1>1, <1>2, <1>3, <1>4, <1>5

\* What two's complement with largest int M makes of a sum that is at most
\* one range too large.
LEMMA TwosComplement ==
    ASSUME NEW M \in Nat, NEW x \in (-M - 1)..(3 * M + 2)
    PROVE  ((x + M + 1) % (2 * (M + 1))) - (M + 1) = IF x <= M THEN x ELSE x - 2 * (M + 1)
<1> DEFINE n == 2 * (M + 1)
           i == x + M + 1
<1>1. n \in Nat \ {0} /\ i \in 0..(2 * n - 1)
  OBVIOUS
<1>2. i % n = IF i < n THEN i ELSE i - n
  BY <1>1, SmallMod
<1> QED BY <1>2

\* The tested sum is a count exactly when the true sum is one, and is then
\* the true sum.
LEMMA SumIsExact ==
    ASSUME NEW c \in 0..IntMax, NEW r \in Updates
    PROVE  LET true == c + Ledger!Change(r)
               sum == Wrap(c + (IF r.op = "buy" THEN -r.n ELSE r.n))
           IN  /\ sum \in (-IntMax - 1)..IntMax
               /\ sum >= 0 => sum = true /\ true \in 0..IntMax
               /\ sum < 0 => true \notin 0..IntMax
<1> DEFINE true == c + Ledger!Change(r)
<1>1. IntMax \in Nat /\ r.n \in (-IntMax - 1)..IntMax
  BY MutexEndpointAssumption DEF Updates
<1>2. true = c + (IF r.op = "buy" THEN -r.n ELSE r.n)
  BY DEF Ledger!Change
<1>3. true \in (-IntMax - 1)..(3 * IntMax + 2)
  BY <1>1, <1>2
<1> HIDE DEF true
<1>4. Wrap(true) = IF true <= IntMax THEN true ELSE true - 2 * (IntMax + 1)
  BY <1>1, <1>3, TwosComplement DEF Wrap
<1>5. true \in (-IntMax - 1)..(2 * IntMax + 1)
  BY <1>1, <1>2 DEF true
<1>x. PICK x \in Int : x = true
  BY <1>1, <1>5
<1>6. PICK sum : sum = Wrap(true)
  OBVIOUS
<1>7. sum = IF x <= IntMax THEN x ELSE x - 2 * (IntMax + 1)
  BY <1>4, <1>x, <1>6
<1>8. x \in (-IntMax - 1)..(2 * IntMax + 1)
  BY <1>5, <1>x
<1>9. /\ sum \in (-IntMax - 1)..IntMax
      /\ sum >= 0 => sum = x /\ x \in 0..IntMax
      /\ sum < 0 => x \notin 0..IntMax
  BY <1>1, <1>7, <1>8
<1> QED BY <1>2, <1>x, <1>6, <1>9 DEF true

LEMMA TypeStep ==
    ASSUME Inv, NEW t \in Threads, Others(t), Moves(t), mutex' \in [Stocks -> 0..1]
    PROVE  TypeOK'
<1>types. /\ cnt \in [Stocks -> 0..IntMax]
          /\ pc \in [Threads -> {"idle", "respond", "up_lock", "walk"} \cup WritePcs]
          /\ req \in [Threads -> Requests \cup {NoReq}]
          /\ ans \in [Threads -> {"none", "SUCCESS", "NOT_ENOUGH"}]
          /\ view \in [Threads -> Seq(0..IntMax)]
          /\ left \in [Threads -> 0..OrdersPerClient]
          /\ stack \in [Threads -> Seq(Frames)]
          /\ crashed \in BOOLEAN
  BY DEF Inv, TypeOK
<1>1. cnt' \in [Stocks -> 0..IntMax]
  <2>1. CASE UpdateAdd(t)
    <3>1. req[t] \in Updates /\ req[t].id \in Stocks /\ NewCnt(t) >= 0
      BY <2>1 DEF UpdateAdd, Goto, UpPcs, WritePcs, Inv, ReqInv, CheckInv
    <3>2. cnt[req[t].id] \in 0..IntMax /\ IntMax \in Nat
      BY <1>types, <3>1, MutexEndpointAssumption
    <3>3. NewCnt(t) \in 0..IntMax
      BY <3>1, <3>2, SumIsExact DEF NewCnt
    <3> QED BY <1>types, <2>1, <3>1, <3>3 DEF UpdateAdd
  <2>2. CASE ~UpdateAdd(t)
    BY <1>types, <2>2 DEF Moves, Step, update_stock, UpdateLock, UpdateUnknown, UpdateEnough,
       UpdateNotEnough, UpdateUnlock, set_stocks_info, WalkLock, WalkCopy, WalkRight, WalkUnlock,
       Respond, Receive
  <2> QED BY <2>1, <2>2
<1>2. /\ pc' \in [Threads -> {"idle", "respond", "up_lock", "walk"} \cup WritePcs]
      /\ req' \in [Threads -> Requests \cup {NoReq}]
      /\ ans' \in [Threads -> {"none", "SUCCESS", "NOT_ENOUGH"}]
      /\ crashed' \in BOOLEAN
  <2>1. CASE update_stock(t)
    BY <1>types, <2>1 DEF Goto, update_stock, UpdateLock, UpdateUnknown, UpdateEnough,
       UpdateNotEnough, UpdateAdd, UpdateUnlock, WritePcs
  <2>2. CASE set_stocks_info(t)
    BY <1>types, <2>2 DEF set_stocks_info, WalkLock, WalkCopy, WalkRight, WalkUnlock
  <2>3. CASE Respond(t)
    BY <1>types, <2>3 DEF Goto, Respond
  <2>4. CASE \E r \in Requests : Receive(t, r)
    BY <1>types, <2>4 DEF Goto, Receive
  <2> QED BY <2>1, <2>2, <2>3, <2>4 DEF Moves, Step
<1>3. left' \in [Threads -> 0..OrdersPerClient]
  <2>1. CASE \E r \in Requests : Receive(t, r)
    BY <1>types, <2>1, MutexEndpointAssumption DEF Receive
  <2>2. CASE Step(t)
    BY <1>types, <2>2 DEF Step, update_stock, UpdateLock, UpdateUnknown, UpdateEnough,
       UpdateNotEnough, UpdateAdd, UpdateUnlock, set_stocks_info, WalkLock, WalkCopy, WalkRight,
       WalkUnlock, Respond
  <2> QED BY <2>1, <2>2 DEF Moves
<1>4. view' \in [Threads -> Seq(0..IntMax)] /\ stack' \in [Threads -> Seq(Frames)]
  <2>1. view'[t] \in Seq(0..IntMax) /\ stack'[t] \in Seq(Frames)
    BY OwnWalk
  <2>2. view' \in {view, [view EXCEPT ![t] = view'[t]]}
    BY <1>types DEF Moves, Step, update_stock, UpdateLock, UpdateUnknown, UpdateEnough,
       UpdateNotEnough, UpdateAdd, UpdateUnlock, set_stocks_info, WalkLock, WalkCopy, WalkRight,
       WalkUnlock, Respond, Receive
  <2>3. stack' \in {stack, [stack EXCEPT ![t] = stack'[t]]}
    BY <1>types DEF Moves, Step, update_stock, UpdateLock, UpdateUnknown, UpdateEnough,
       UpdateNotEnough, UpdateAdd, UpdateUnlock, set_stocks_info, WalkLock, WalkCopy, WalkRight,
       WalkUnlock, Respond, Receive
  <2> QED BY <1>types, <2>1, <2>2, <2>3
<1> QED BY <1>1, <1>2, <1>3, <1>4 DEF TypeOK
-----------------------------------------------------------------------------
(* The invariant holds in every state                                      *)

\* At the start no thread has a request and no stock is locked.
LEMMA InitInvariant == Init => Inv
<1> SUFFICES ASSUME Init PROVE Inv
  OBVIOUS
<1> USE DEF Init
<1>1. /\ IntMax \in Nat /\ OrdersPerClient \in Nat /\ NoReq \notin Requests
      /\ Initial \in [Stocks -> 0..IntMax]
  BY MutexEndpointAssumption
<1>2. TypeOK
  <2>1. <<>> \in Seq(0..IntMax) /\ <<>> \in Seq(Frames) /\ OrdersPerClient \in 0..OrdersPerClient
    BY <1>1
  <2>2. /\ mutex \in [Stocks -> 0..1]
        /\ pc \in [Threads -> {"idle", "respond", "up_lock", "walk"} \cup WritePcs]
        /\ req \in [Threads -> Requests \cup {NoReq}]
        /\ ans \in [Threads -> {"none", "SUCCESS", "NOT_ENOUGH"}]
        /\ crashed \in BOOLEAN
    <3>1. mutex \in [Stocks -> 0..1]
      OBVIOUS
    <3>2. pc \in [Threads -> {"idle", "respond", "up_lock", "walk"} \cup WritePcs]
      OBVIOUS
    <3>3. req \in [Threads -> Requests \cup {NoReq}]
      OBVIOUS
    <3>4. ans \in [Threads -> {"none", "SUCCESS", "NOT_ENOUGH"}]
      OBVIOUS
    <3> QED BY <3>1, <3>2, <3>3, <3>4
  <2>3. view \in [Threads -> Seq(0..IntMax)] /\ stack \in [Threads -> Seq(Frames)]
    BY <2>1
  <2>4. left \in [Threads -> 0..OrdersPerClient]
    BY <2>1
  <2> QED BY <1>1, <2>2, <2>3, <2>4 DEF TypeOK
<1>3. ReqInv /\ CheckInv
  BY DEF ReqInv, CheckInv, UpPcs, WritePcs
<1>4. AnswerInv
  BY DEF AnswerInv
<1>5. Held(<<>>) = {}
  BY HeldIs
<1>6. \A t \in Threads : HeldBy(t) = {} /\ HeldOnce(stack[t])
  BY <1>5 DEF HeldBy, WritePcs, HeldOnce
<1>7. LockInv
  BY <1>6 DEF LockInv
<1>8. WalkInv
  BY DEF WalkInv, Snapshot
<1> QED BY <1>2, <1>3, <1>4, <1>7, <1>8 DEF Inv

\* The invariant speaks of the variables of the specification only.
LEMMA StutterInvariant == Inv /\ UNCHANGED vars => Inv'
<1> SUFFICES ASSUME Inv, UNCHANGED vars PROVE Inv'
  OBVIOUS
<1> USE DEF vars
<1>1. \A t : HeldBy(t)' = HeldBy(t) /\ NewCnt(t)' = NewCnt(t)
  BY DEF HeldBy, NewCnt
<1>2. TypeOK'
  BY DEF Inv, TypeOK
<1>3. ReqInv' /\ AnswerInv'
  BY DEF Inv, ReqInv, AnswerInv
<1>4. LockInv'
  BY <1>1 DEF Inv, LockInv
<1>5. WalkInv'
  BY DEF Inv, WalkInv
<1>6. CheckInv'
  BY <1>1 DEF Inv, CheckInv
<1> QED BY <1>2, <1>3, <1>4, <1>5, <1>6 DEF Inv

\* No step leaves the invariant.
LEMMA NextInvariant == Inv /\ [Next]_vars => Inv'
<1> SUFFICES ASSUME Inv, [Next]_vars PROVE Inv'
  OBVIOUS
<1>1. ASSUME NEW t \in Threads, Moves(t) PROVE Inv'
  <2>1. Others(t)
    BY <1>1, OthersStay DEF Inv
  <2>2. ReqInv'
    BY <1>1, <2>1, ReqStep
  <2>3. AnswerInv'
    BY <1>1, <2>1, AnswerStep
  <2>4. LockInv' /\ mutex' \in [Stocks -> 0..1]
    BY <1>1, <2>1, LockStep
  <2>5. WalkInv'
    BY <1>1, <2>1, WalkStep
  <2>6. CheckInv'
    BY <1>1, <2>1, CheckStep
  <2>7. TypeOK'
    BY <1>1, <2>1, <2>4, TypeStep
  <2> QED BY <2>2, <2>3, <2>4, <2>5, <2>6, <2>7 DEF Inv
<1>2. CASE Finished \/ UNCHANGED vars
  BY <1>2, StutterInvariant DEF Finished
<1> QED BY <1>1, <1>2 DEF Next, Moves

\* The invariant holds in every reachable state.
THEOREM Invariance == Spec => []Inv
<1>1. Init => Inv
  BY InitInvariant
<1>2. Inv /\ [Next]_vars => Inv'
  BY NextInvariant
<1> QED BY <1>1, <1>2, PTL DEF Spec

\* Counts never leave 0..IntMax, the semaphores are binary, and the locals
\* and the activations of the handlers keep their types.
THEOREM TypeCorrect == Spec => []TypeOK
<1>1. Inv => TypeOK
  BY DEF Inv
<1> QED BY <1>1, Invariance, PTL

\* set_stocks_info keeps the semaphore of a stock until it has listed both
\* subtrees: what it has listed for the stocks it is still below is current,
\* all of it at the same time, in every tree and for every schedule.
THEOREM SnapshotOfPath == Spec => []PathIsSnapshot
<1>1. Inv => PathIsSnapshot
  <2> SUFFICES ASSUME Inv, NEW t \in Threads, NEW k \in 1..Len(stack[t]),
                      stack[t][k].at \in {"right", "unlock"}
               PROVE  view[t][PlaceOf(stack[t][k].node)] = cnt[stack[t][k].node]
    BY DEF PathIsSnapshot
  <2> QED BY DEF Inv, WalkInv, Snapshot
<1> QED BY <1>1, Invariance, PTL
-----------------------------------------------------------------------------
(* The handlers implement the ledger                                       *)

\* The addition grants the update: the sum tested is the true sum.
LEMMA UpdateAddGrants ==
    ASSUME Inv, NEW t \in Threads, UpdateAdd(t)
    PROVE  Ledger!Grant(t)
<1>1. req[t] \in Updates /\ req[t].id \in Stocks /\ ans[t] = "none" /\ NewCnt(t) >= 0
  BY DEF Inv, ReqInv, AnswerInv, CheckInv, UpdateAdd, Goto, UpPcs, WritePcs
<1>2. req[t].op # "show" /\ req[t] # NoReq
  BY <1>1, ShowIsNoUpdate
<1>3. cnt[req[t].id] \in 0..IntMax
  BY <1>1 DEF Inv, TypeOK
<1>4. NewCnt(t) = Ledger!Sum(t) /\ Ledger!Sum(t) \in 0..IntMax
  BY <1>1, <1>3, SumIsExact DEF NewCnt, Ledger!Sum
<1>5. Ledger!Updating(t) /\ Ledger!Known(t)
  BY <1>1, <1>2, OrderIsPreorder DEF Ledger!Updating, Ledger!Known
<1> QED BY <1>4, <1>5 DEF Ledger!Grant, UpdateAdd

\* A failed test refuses it: the true sum is negative or too large.
LEMMA UpdateNotEnoughRefuses ==
    ASSUME Inv, NEW t \in Threads, UpdateNotEnough(t)
    PROVE  Ledger!Refuse(t)
<1>1. req[t] \in Updates /\ req[t].id \in Stocks /\ ans[t] = "none" /\ NewCnt(t) < 0
  BY DEF Inv, ReqInv, AnswerInv, UpdateNotEnough, Goto, UpPcs, WritePcs
<1>2. req[t].op # "show" /\ req[t] # NoReq
  BY <1>1, ShowIsNoUpdate
<1>3. cnt[req[t].id] \in 0..IntMax
  BY <1>1 DEF Inv, TypeOK
<1>4. Ledger!Sum(t) \notin 0..IntMax
  BY <1>1, <1>3, SumIsExact DEF NewCnt, Ledger!Sum
<1>5. Ledger!Updating(t) /\ Ledger!Known(t)
  BY <1>1, <1>2, OrderIsPreorder DEF Ledger!Updating, Ledger!Known
<1> QED BY <1>4, <1>5 DEF Ledger!Refuse, UpdateNotEnough

\* The stock that set_stocks_info has reached is the next of the preorder.
LEMMA WalkCopyLooks ==
    ASSUME Inv, NEW t \in Threads, WalkCopy(t)
    PROVE  Ledger!Look(t)
<1>1. pc[t] = "walk"
  BY DEF WalkCopy, Walking
<1>2. PICK s \in Stocks, n \in Nat : s = Top(t).node /\ n = Len(view[t])
  BY <1>1, OnTop
<1>3. n + 1 = PlaceOf(s)
  BY <1>2, WalkCopyMoves
<1>4. PlaceOf(s) \in 1..Len(Order) /\ Order[PlaceOf(s)] = s /\ Len(Order) \in Nat
  BY Places
<1>5. n < Len(Order) /\ Order[n + 1] = s
  BY <1>3, <1>4
<1>6. req[t] # NoReq /\ req[t].op = "show"
  BY <1>1, ShowIsNoUpdate DEF Inv, ReqInv
<1>7. view' = [view EXCEPT ![t] = Append(@, cnt[Order[Len(@) + 1]])]
  BY <1>2, <1>5 DEF WalkCopy
<1> QED BY <1>2, <1>5, <1>6, <1>7 DEF Ledger!Look, WalkCopy

\* A reply is sent only when it is complete.
LEMMA RespondAnswers ==
    ASSUME Inv, NEW t \in Threads, Respond(t)
    PROVE  Ledger!Respond(t)
<1>1. pc[t] = "respond" /\ req[t] \in Requests \cup {NoReq}
  BY DEF Respond, Goto, Inv, TypeOK
<1>2. req[t] # NoReq
  BY <1>1 DEF Inv, ReqInv
<1>3. Ledger!Answered(t)
  <2>1. CASE req[t] = Show
    <3>1. Len(view[t]) = Len(Order)
      BY <1>1, <2>1 DEF Inv, AnswerInv
    <3> QED BY <2>1, <3>1, ShowIsNoUpdate DEF Ledger!Answered
  <2>2. CASE req[t] # Show
    <3>1. ans[t] # "none"
      BY <1>1, <2>2 DEF Inv, AnswerInv
    <3>2. req[t].op # "show"
      BY <1>1, <1>2, <2>2, ShowIsNoUpdate
    <3> QED BY <3>1, <3>2 DEF Ledger!Answered
  <2> QED BY <2>1, <2>2
<1> QED BY <1>2, <1>3 DEF Ledger!Respond, Respond

\* Every other step leaves the ledger as it is.
LEMMA StepRefines == Inv /\ [Next]_vars => [Ledger!Next]_(Ledger!vars)
<1> SUFFICES ASSUME Inv, [Next]_vars PROVE Ledger!Next \/ UNCHANGED Ledger!vars
  OBVIOUS
<1>1. ASSUME NEW t \in Threads, Step(t)
      PROVE  Ledger!Next \/ UNCHANGED Ledger!vars
  <2>1. CASE UpdateAdd(t)
    BY <2>1, UpdateAddGrants DEF Ledger!Next
  <2>2. CASE UpdateNotEnough(t)
    BY <2>2, UpdateNotEnoughRefuses DEF Ledger!Next
  <2>3. CASE WalkCopy(t)
    BY <2>3, WalkCopyLooks DEF Ledger!Next
  <2>4. CASE Respond(t)
    BY <2>4, RespondAnswers DEF Ledger!Next
  <2>5. CASE ~(UpdateAdd(t) \/ UpdateNotEnough(t) \/ WalkCopy(t) \/ Respond(t))
    BY <1>1, <2>5
    DEF Step, update_stock, UpdateLock, UpdateUnknown, UpdateEnough, UpdateUnlock,
        set_stocks_info, WalkLock, WalkRight, WalkUnlock, Ledger!vars
  <2> QED BY <2>1, <2>2, <2>3, <2>4, <2>5
<1>2. ASSUME NEW t \in Threads, NEW r \in Requests, Receive(t, r)
      PROVE  Ledger!Next
  <2>1. req[t] = NoReq
    BY <1>2 DEF Inv, ReqInv, Receive, Goto
  <2> QED BY <1>2, <2>1 DEF Receive, Ledger!Begin, Ledger!Next
<1>3. CASE Finished \/ UNCHANGED vars
  BY <1>3 DEF Finished, vars, Ledger!vars
<1> QED BY <1>1, <1>2, <1>3 DEF Next

\* The handlers implement the ledger: each update is atomic and exact, and
\* the recursive walk lists every stock, in preorder, at a current count.
THEOREM Refinement == Spec => ImplementsLedger
<1>1. Init => Ledger!Init
  BY DEF Init, Ledger!Init
<1>2. Inv /\ [Next]_vars => [Ledger!Next]_(Ledger!vars)
  BY StepRefines
<1> QED BY <1>1, <1>2, Invariance, PTL DEF Spec, ImplementsLedger, Ledger!Spec
=============================================================================
