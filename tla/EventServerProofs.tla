-------------------------- MODULE EventServerProofs --------------------------
(***************************************************************************)
(* Theorems about EventServer: for any number of clients, descriptors and  *)
(* slots the scan of a round serves exactly the clients that select found  *)
(* ready, and no line is lost of a client that waits for its answers.      *)
(***************************************************************************)
EXTENDS EventServer, FiniteSetTheorems, SequenceTheorems, WellFoundedInduction, TLAPS

Connected(c) == conn[c] \in {"open", "gone"}
Lines == {"req", "blank", "exit"}

Types ==
    /\ conn \in [Conns -> {"new", "backlog", "open", "gone", "closed"}]
    /\ fdOf \in [Conns -> Fds \cup {NoFd}]
    /\ clientfd \in [Slots -> Fds \cup {NoFd}]
    /\ read_set \subseteq Fds \cup {Listen}
    /\ ready_set \subseteq Fds \cup {Listen}
    /\ nready \in Int
    /\ maxi \in Int
    /\ i \in Nat
    /\ pc \in {"select", "accept", "check", "read", "handle"}
    /\ inbox \in [Conns -> Seq(Pieces \cup {"rest"})]
    /\ owed \in [Conns -> Int]
    /\ waiting \in [Conns -> BOOLEAN]
    /\ part \in BOOLEAN
    /\ line \in Pieces \cup {"rest", "req", "eof", "none"}

\* The connected clients have descriptors of their own.
FdInv ==
    /\ \A c \in Conns : fdOf[c] # NoFd <=> Connected(c)
    /\ \A c, d \in Conns : fdOf[c] = fdOf[d] /\ fdOf[c] # NoFd => c = d

\* What a round has found out is true until it is used: nready counts the
\* listening descriptor until it is accepted from, the others are connected
\* clients, and the slot being served holds one of them.
RoundInv ==
    /\ pc = "accept" => /\ i = 0 /\ Listen \in ready_set
                        /\ ready_set \ {Listen} \subseteq OpenFds
                        /\ nready = Cardinality(ready_set)
    /\ pc \in {"read", "handle"} => i \in Slots /\ clientfd[i] \in ready_set

\* The inductive invariant behind ScanIsExact.
RoundIInv == Types /\ FdInv /\ PoolAgrees /\ RoundInv /\ NreadyCounts

\* Client c is the one whose slot is being served.
Serving(c) == pc \in {"read", "handle"} /\ fdOf[c] = clientfd[i]
\* A whole line of c is in its socket, or in the server's hands.
Whole == {<<l>> : l \in Lines} \cup {<<"half", "rest">>, <<"rest">>}
InSocket(c) == inbox[c] \in Whole
InHand(c) == pc = "handle" /\ Serving(c)
Early(c) == conn[c] \in {"new", "backlog", "open"}
\* A client that waits for its answers has at most one line outstanding, and
\* it is where owed says: in the socket, split or not, or being handled.
LineIsSomewhere(c) ==
    /\ inbox[c] \in {<<>>, <<"half">>} \/ InSocket(c)
    /\ InSocket(c) \/ InHand(c) => waiting[c]
    /\ owed[c] = IF InSocket(c) \/ InHand(c) THEN 1 ELSE 0
    /\ inbox[c] = <<"rest">> => part /\ Serving(c)
    /\ part /\ Serving(c) => inbox[c] \in {<<>>, <<"rest">>}
    /\ InHand(c) => line \in Lines /\ inbox[c] = <<>>
LineInv ==
    /\ part => pc = "read"
    /\ \A c \in Conns : Early(c) => LineIsSomewhere(c)
-----------------------------------------------------------------------------
(* The pool                                                                *)

\* PoolAgrees, descriptor by descriptor.
Held(f) == \E c \in Conns : fdOf[c] = f
InSlot(f) == \E s \in Slots : clientfd[s] = f
PoolElements ==
    /\ \A f \in Fds : /\ f \in read_set <=> Held(f)
                      /\ InSlot(f) <=> Held(f)
    /\ \A s, t \in Slots : clientfd[s] = clientfd[t] /\ clientfd[s] # NoFd => s = t
    /\ \A s \in Slots : clientfd[s] # NoFd => s <= maxi

LEMMA SlotsAreFinite ==
    /\ Slots \subseteq Nat /\ IsFiniteSet(Slots) /\ Cardinality(Slots) = FdSetSize
    /\ FdSetSize \in Nat
<1>1. FdSetSize \in Nat /\ 0 \in Int /\ FdSetSize - 1 \in Int
  BY EventServerAssumption
<1>2. /\ IsFiniteSet(0..(FdSetSize - 1))
      /\ Cardinality(0..(FdSetSize - 1)) =
            IF 0 > FdSetSize - 1 THEN 0 ELSE FdSetSize - 1 - 0 + 1
  BY <1>1, FS_Interval
<1> QED BY <1>1, <1>2 DEF Slots

\* A connected client is one that holds a descriptor.
LEMMA OpenFdsAreHeld ==
    ASSUME Types, FdInv
    PROVE  /\ OpenFds \subseteq Fds
           /\ \A f \in Fds : f \in OpenFds <=> Held(f)
<1>1. NoFd \notin Fds
  BY EventServerAssumption
<1>2. OpenFds \subseteq Fds
  BY <1>1 DEF Types, FdInv, OpenFds, Connected
<1>3. ASSUME NEW f \in Fds, f \in OpenFds
      PROVE  Held(f)
  BY <1>3 DEF OpenFds, Held
<1>4. ASSUME NEW f \in Fds, Held(f)
      PROVE  f \in OpenFds
  <2>1. PICK c \in Conns : fdOf[c] = f
    BY <1>4 DEF Held
  <2>2. conn[c] \in {"open", "gone"}
    BY <1>1, <2>1 DEF FdInv, Connected
  <2> QED BY <2>1, <2>2 DEF OpenFds
<1> QED BY <1>2, <1>3, <1>4

LEMMA PoolByElements == Types /\ FdInv => (PoolAgrees <=> PoolElements)
<1> SUFFICES ASSUME Types, FdInv PROVE PoolAgrees <=> PoolElements
  OBVIOUS
<1>1. /\ OpenFds \subseteq Fds
      /\ \A f \in Fds : f \in OpenFds <=> Held(f)
  BY OpenFdsAreHeld
<1>2. Listen \notin Fds /\ NoFd \notin Fds /\ read_set \subseteq Fds \cup {Listen}
  BY EventServerAssumption DEF Types
<1>3. \A s \in Slots : clientfd[s] \in Fds \cup {NoFd}
  BY DEF Types
<1>4. read_set \ {Listen} = OpenFds <=> \A f \in Fds : f \in read_set <=> Held(f)
  BY <1>1, <1>2
<1>5. {clientfd[s] : s \in Slots} \ {NoFd} = OpenFds
          <=> \A f \in Fds : InSlot(f) <=> Held(f)
  <2> DEFINE R == {clientfd[s] : s \in Slots} \ {NoFd}
  <2>1. R \subseteq Fds
    BY <1>3
  <2>2. \A f \in Fds : f \in R <=> InSlot(f)
    BY <1>2 DEF InSlot
  <2> HIDE DEF R
  <2>3. R = OpenFds <=> \A f \in Fds : InSlot(f) <=> Held(f)
    BY <1>1, <2>1, <2>2
  <2> QED BY <2>3 DEF R
<1> QED BY <1>4, <1>5 DEF PoolAgrees, PoolElements

\* As many slots as connected clients in a set hold their descriptors.
LEMMA SlotsOfFds ==
    ASSUME Types, FdInv, PoolAgrees, NEW R, R \subseteq OpenFds
    PROVE  /\ IsFiniteSet(R)
           /\ Cardinality({s \in Slots : clientfd[s] \in R}) = Cardinality(R)
<1> DEFINE S == {s \in Slots : clientfd[s] \in R}
           f == [s \in S |-> clientfd[s]]
<1>1. IsFiniteSet(S)
  BY SlotsAreFinite, FS_Subset
<1>2. R \subseteq Fds /\ NoFd \notin Fds
  BY OpenFdsAreHeld, EventServerAssumption
<1>3. \A s, t \in S : f[s] = f[t] => s = t
  BY <1>2 DEF PoolAgrees
<1>4. \A r \in R : \E s \in S : f[s] = r
  <2> SUFFICES ASSUME NEW r \in R PROVE \E s \in S : f[s] = r
    OBVIOUS
  <2>1. Held(r)
    BY <1>2, OpenFdsAreHeld
  <2>2. InSlot(r)
    BY <1>2, <2>1, PoolByElements DEF PoolElements
  <2> QED BY <2>2 DEF InSlot
<1>5. f \in [S -> R]
  OBVIOUS
<1>6. f \in Bijection(S, R)
  BY <1>3, <1>4, <1>5 DEF Bijection, Injection, Surjection, IsInjective
<1>7. ExistsBijection(S, R)
  BY <1>6 DEF ExistsBijection
<1> QED BY <1>1, <1>7, FS_Bijection

\* Every nonempty set of natural numbers has a least element.
LEMMA LeastElement ==
    ASSUME NEW S \in SUBSET Nat, S # {}
    PROVE  \E n \in S : \A m \in S : n <= m
<1> DEFINE R == OpToRel(<, Nat)
<1>1. \A m, n \in Nat : m < n => <<m, n>> \in R
  BY DEF OpToRel
<1>2. IsWellFoundedOn(R, Nat)
  BY NatLessThanWellFounded
<1> HIDE DEF R
<1>3. PICK n \in S : \A m \in S : ~(<<m, n>> \in R)
  BY <1>2, WFMin
<1>4. \A m \in S : ~(m < n)
  BY <1>1, <1>3
<1> QED BY <1>4

\* The least of a set of numbers is one of them.
LEMMA LowestIsIn ==
    ASSUME NEW S, S \subseteq Nat, S # {}
    PROVE  Lowest(S) \in S
  BY LeastElement DEF Lowest

\* accept fails before the slots run out.
LEMMA FreeSlot ==
    ASSUME Types, FdInv, PoolAgrees, FreeFds # {}
    PROVE  /\ Lowest(FreeFds) \in Fds /\ ~Held(Lowest(FreeFds))
           /\ Lowest({t \in Slots : clientfd[t] = NoFd}) \in Slots
           /\ clientfd[Lowest({t \in Slots : clientfd[t] = NoFd})] = NoFd
<1> DEFINE E == {t \in Slots : clientfd[t] = NoFd}
<1>1. FreeFds = Fds \ OpenFds
  BY DEF FreeFds, OpenFds
<1>2. /\ Lowest(FreeFds) \in FreeFds /\ Lowest(FreeFds) \in Fds
      /\ ~Held(Lowest(FreeFds))
  <2>1. FreeFds \subseteq Nat
    BY <1>1, EventServerAssumption
  <2>2. Lowest(FreeFds) \in FreeFds
    BY <2>1, LowestIsIn
  <2> QED BY <1>1, <2>2, OpenFdsAreHeld
<1>3. ASSUME E = {}
      PROVE  FALSE
  <2>1. Slots = {s \in Slots : clientfd[s] \in OpenFds}
    <3> SUFFICES ASSUME NEW s \in Slots PROVE clientfd[s] \in OpenFds
      OBVIOUS
    <3>1. clientfd[s] \in Fds /\ InSlot(clientfd[s])
      BY <1>3 DEF Types, InSlot
    <3> QED BY <3>1, PoolByElements, OpenFdsAreHeld DEF PoolElements
  <2>2. Cardinality(OpenFds) = FdSetSize
    <3>1. Cardinality({s \in Slots : clientfd[s] \in OpenFds}) = Cardinality(OpenFds)
      BY SlotsOfFds
    <3> QED BY <2>1, <3>1, SlotsAreFinite
  <2>3. OpenFds \subseteq Fds /\ IsFiniteSet(Fds) /\ FdSetSize >= Cardinality(Fds)
    BY EventServerAssumption, OpenFdsAreHeld
  <2>4. /\ Cardinality(OpenFds) <= Cardinality(Fds)
        /\ Cardinality(Fds) = Cardinality(OpenFds) => Fds = OpenFds
    BY <2>3, FS_Subset
  <2>5. Cardinality(Fds) \in Nat
    BY <2>3, FS_CardinalityType
  <2>6. Fds = OpenFds
    BY <2>2, <2>3, <2>4, <2>5, SlotsAreFinite
  <2> QED BY <1>1, <2>6
<1>4. Lowest(E) \in E
  BY <1>3, SlotsAreFinite, LowestIsIn
<1> QED BY <1>2, <1>4

\* While a slot is being served there is a client to read from.
LEMMA CurrentIsConnected ==
    ASSUME Types, FdInv, PoolAgrees, RoundInv, pc \in {"read", "handle"}
    PROVE  /\ i \in Slots /\ clientfd[i] \in Fds
           /\ Current \in Conns /\ fdOf[Current] = clientfd[i] /\ Connected(Current)
           /\ \A c \in Conns : fdOf[c] = clientfd[i] => c = Current
<1>1. i \in Slots /\ clientfd[i] \in ready_set
  BY DEF RoundInv
<1>2. clientfd[i] \in Fds /\ clientfd[i] # NoFd
  BY <1>1, EventServerAssumption DEF Types
<1>3. Held(clientfd[i])
  BY <1>1, <1>2, PoolByElements DEF PoolElements, InSlot
<1>4. PICK c \in Conns : fdOf[c] = clientfd[i] /\ conn[c] \in {"open", "gone"}
  BY <1>2, <1>3 DEF Held, FdInv, Connected
<1>5. Current \in Conns /\ fdOf[Current] = clientfd[i] /\ conn[Current] \in {"open", "gone"}
  BY <1>4 DEF Current
<1> QED BY <1>1, <1>2, <1>5 DEF FdInv, Connected
-----------------------------------------------------------------------------
(* The scan                                                                *)

\* Nobody is accepted or closed.
LEMMA PoolStays ==
    ASSUME Types, Types', FdInv, PoolAgrees,
           UNCHANGED <<fdOf, clientfd, read_set, maxi>>,
           \A c \in Conns : Connected(c)' <=> Connected(c)
    PROVE  FdInv' /\ PoolAgrees' /\ OpenFds' = OpenFds
<1>1. FdInv'
  BY DEF FdInv
<1>2. PoolElements'
  BY PoolByElements DEF PoolElements, Held, InSlot
<1>3. PoolAgrees'
  <2>1. (Types /\ FdInv => (PoolAgrees <=> PoolElements))'
    BY PoolByElements, PTL
  <2> QED BY <1>1, <1>2, <2>1
<1>4. OpenFds' = OpenFds
  BY DEF OpenFds, Connected
<1> QED BY <1>1, <1>3, <1>4

\* The clients never disturb a round.
LEMMA ClientStep ==
    ASSUME RoundIInv, NEW c \in Conns,
           \/ Connect(c) \/ HangUp(c)
           \/ \E p \in Pieces \cup {"rest"} : Write(c, p)
    PROVE  RoundIInv'
<1> USE DEF RoundIInv
<1>1. /\ UNCHANGED <<fdOf, up, pc, pool, i, part, line>>
      /\ \A d \in Conns : Connected(d)' <=> Connected(d)
      /\ conn' \in [Conns -> {"new", "backlog", "open", "gone", "closed"}]
  BY DEF Types, Connect, HangUp, Write, Connected
<1>2. /\ inbox' \in [Conns -> Seq(Pieces \cup {"rest"})]
      /\ owed' \in [Conns -> Int] /\ waiting' \in [Conns -> BOOLEAN]
  <2>1. CASE Connect(c) \/ HangUp(c)
    BY <2>1 DEF Types, Connect, HangUp
  <2>2. CASE \E p \in Pieces \cup {"rest"} : Write(c, p)
    <3>p. PICK p \in Pieces \cup {"rest"} : Write(c, p)
      BY <2>2
    <3>1. Append(inbox[c], p) \in Seq(Pieces \cup {"rest"})
      BY DEF Types
    <3>2. inbox' \in [Conns -> Seq(Pieces \cup {"rest"})]
      BY <3>p, <3>1 DEF Types, Write
    <3>3. owed' \in [Conns -> Int]
      BY <3>p DEF Types, Write
    <3>4. waiting' \in [Conns -> BOOLEAN]
      BY <3>p DEF Types, Write
    <3> QED BY <3>2, <3>3, <3>4
  <2> QED BY <2>1, <2>2
<1>3. Types'
  BY <1>1, <1>2 DEF Types, pool
<1>4. FdInv' /\ PoolAgrees' /\ OpenFds' = OpenFds
  BY <1>1, <1>3, PoolStays DEF pool
<1>5. RoundInv' /\ NreadyCounts'
  BY <1>1, <1>4 DEF pool, RoundInv, NreadyCounts, Ahead
<1> QED BY <1>3, <1>4, <1>5

\* select reports the connected clients that can be read, and listenfd.
LEMMA SelectStep ==
    ASSUME RoundIInv, Select
    PROVE  RoundIInv'
<1> USE DEF RoundIInv
<1>1. /\ UNCHANGED <<network, up, clientfd, read_set, maxi, part, line>>
      /\ ready_set' = Ready /\ nready' = Cardinality(Ready) /\ i' = 0
      /\ pc' = IF Listen \in Ready THEN "accept" ELSE "check"
  BY DEF Select
<1>2. Ready \subseteq OpenFds \cup {Listen}
  <2> SUFFICES ASSUME NEW c \in Conns, Readable(c) PROVE fdOf[c] \in OpenFds
    BY DEF Ready
  <2>1. fdOf[c] \in read_set /\ fdOf[c] \in Fds \cup {NoFd}
    BY DEF Readable, Types
  <2>2. fdOf[c] \in Fds
    BY <2>1, EventServerAssumption DEF Types
  <2> QED BY <2>1, <2>2, EventServerAssumption DEF PoolAgrees
<1>3. OpenFds \subseteq Fds /\ IsFiniteSet(Fds)
  BY OpenFdsAreHeld, EventServerAssumption
<1>4. Cardinality(Ready) \in Int
  <2>1. IsFiniteSet(Fds \cup {Listen})
    BY <1>3, FS_AddElement
  <2>2. IsFiniteSet(Ready)
    BY <1>2, <1>3, <2>1, FS_Subset
  <2> QED BY <2>2, FS_CardinalityType
<1>5. Types'
  BY <1>1, <1>2, <1>3, <1>4 DEF Types, network
<1>6. FdInv' /\ PoolAgrees' /\ OpenFds' = OpenFds
  <2>1. \A c \in Conns : Connected(c)' <=> Connected(c)
    BY <1>1 DEF network, Connected
  <2> QED BY <1>1, <1>5, <2>1, PoolStays DEF network
<1>7. RoundInv'
  BY <1>1, <1>2, <1>6 DEF RoundInv
<1>8. NreadyCounts'
  <2> SUFFICES ASSUME Listen \notin Ready PROVE nready' = Cardinality(Ahead')
    BY <1>1 DEF NreadyCounts
  <2>1. pc' = "check" /\ Ready \subseteq OpenFds
    BY <1>1, <1>2
  <2>2. \A s \in Slots : s > 0 \/ s = 0
    BY SlotsAreFinite
  <2>3. Ahead' = {s \in Slots : clientfd[s] \in Ready}
    BY <1>1, <2>1, <2>2 DEF Ahead
  <2> QED BY <1>1, <2>1, <2>3, SlotsOfFds
<1> QED BY <1>5, <1>6, <1>7, <1>8

\* The new client takes a free slot; its descriptor was free when select
\* returned, so the scan of this round passes it by.
LEMMA AddClientStep ==
    ASSUME RoundIInv, NEW c \in Conns, add_client(c)
    PROVE  RoundIInv'
<1> USE DEF RoundIInv
<1> DEFINE F == Lowest(FreeFds)
           Z == Lowest({t \in Slots : clientfd[t] = NoFd})
<1>1. PICK f \in Fds, z \in Slots : f = F /\ z = Z /\ ~Held(f) /\ clientfd[z] = NoFd
  BY FreeSlot DEF add_client
<1>2. /\ pc = "accept" /\ conn[c] = "backlog"
      /\ conn' = [conn EXCEPT ![c] = "open"]
      /\ fdOf' = [fdOf EXCEPT ![c] = f]
      /\ clientfd' = [clientfd EXCEPT ![z] = f]
      /\ read_set' = read_set \cup {f}
      /\ maxi' = IF z > maxi THEN z ELSE maxi
      /\ nready' = nready - 1 /\ pc' = "check"
      /\ UNCHANGED <<inbox, writes, owed, waiting, up, ready_set, i, part, line>>
  BY <1>1 DEF add_client, At
<1> HIDE DEF F, Z
<1>3. NoFd \notin Fds \cup {Listen} /\ Listen \notin Fds /\ z \in Nat
  BY SlotsAreFinite, EventServerAssumption
<1>4. Types'
  BY <1>2, <1>3 DEF Types
<1>5. fdOf[c] = NoFd
  BY <1>2 DEF FdInv, Connected
<1>6. FdInv'
  <2>1. \A d \in Conns : fdOf'[d] = IF d = c THEN f ELSE fdOf[d]
    BY <1>2 DEF Types
  <2>2. \A d \in Conns : Connected(d)' <=> d = c \/ Connected(d)
    BY <1>2 DEF Types, Connected
  <2> QED BY <1>1, <1>3, <2>1, <2>2 DEF FdInv, Held
<1>7. \A g \in Fds : Held(g)' <=> g = f \/ Held(g)
  BY <1>2, <1>3, <1>5 DEF Types, Held
<1>8. \A s \in Slots : clientfd'[s] = IF s = z THEN f ELSE clientfd[s]
  BY <1>2 DEF Types
<1>9. \A g \in Fds : InSlot(g)' <=> g = f \/ InSlot(g)
  BY <1>1, <1>3, <1>8 DEF InSlot
<1>10. PoolElements
  BY PoolByElements
<1>11. PoolElements'
  <2>1. \A g \in Fds : /\ g \in read_set' <=> Held(g)'
                       /\ InSlot(g)' <=> Held(g)'
    BY <1>2, <1>7, <1>9, <1>10 DEF PoolElements
  <2>2. \A s \in Slots : clientfd[s] # f
    BY <1>1, <1>10 DEF PoolElements, InSlot
  <2>3. \A s, t \in Slots : clientfd'[s] = clientfd'[t] /\ clientfd'[s] # NoFd => s = t
    BY <1>8, <1>10, <2>2 DEF PoolElements
  <2>4. \A s \in Slots : clientfd'[s] # NoFd => s <= maxi'
    <3>1. \A s \in Slots : s \in Int
      BY SlotsAreFinite
    <3>2. maxi \in Int /\ maxi' \in Int /\ z <= maxi' /\ maxi <= maxi'
      BY <1>2, <1>3 DEF Types
    <3> QED BY <1>8, <1>10, <3>1, <3>2 DEF PoolElements
  <2> QED BY <2>1, <2>3, <2>4 DEF PoolElements
<1>12. PoolAgrees'
  <2>1. (Types /\ FdInv => (PoolAgrees <=> PoolElements))'
    BY PoolByElements, PTL
  <2> QED BY <1>4, <1>6, <1>11, <2>1
<1>13. NreadyCounts'
  <2> DEFINE R == ready_set \ {Listen}
  <2>1. i = 0 /\ Listen \in ready_set /\ R \subseteq OpenFds /\ nready = Cardinality(ready_set)
    BY <1>2 DEF RoundInv
  <2>2. f \notin OpenFds /\ f # NoFd
    BY <1>1, <1>3, OpenFdsAreHeld
  <2>3. \A s \in Slots : s > 0 \/ s = 0
    BY SlotsAreFinite
  <2>4. Listen \notin OpenFds /\ NoFd \notin R
    BY <1>3, <2>1, OpenFdsAreHeld
  <2>5. \A s \in Slots : clientfd'[s] \in ready_set <=> clientfd[s] \in R
    <3> SUFFICES ASSUME NEW s \in Slots
                 PROVE  clientfd'[s] \in ready_set <=> clientfd[s] \in R
      OBVIOUS
    <3>1. CASE s = z
      BY <1>1, <1>3, <1>8, <2>1, <2>2, <2>4, <3>1
    <3>2. CASE s # z
      BY <1>3, <1>8, <3>2 DEF Types
    <3> QED BY <3>1, <3>2
  <2>6. Ahead' = {s \in Slots : clientfd[s] \in R}
    BY <1>2, <2>1, <2>3, <2>5 DEF Ahead
  <2>7. Cardinality({s \in Slots : clientfd[s] \in R}) = Cardinality(R)
    BY <2>1, SlotsOfFds
  <2>8. Cardinality(R) = Cardinality(ready_set) - 1
    <3>1. IsFiniteSet(Fds \cup {Listen})
      BY FS_AddElement, EventServerAssumption
    <3>2. IsFiniteSet(ready_set)
      BY <3>1, FS_Subset DEF Types
    <3> QED BY <2>1, <3>2, FS_RemoveElement
  <2> QED BY <1>2, <2>1, <2>6, <2>7, <2>8 DEF NreadyCounts
<1>14. RoundInv'
  BY <1>2 DEF RoundInv
<1> QED BY <1>4, <1>6, <1>12, <1>13, <1>14

\* The typed values of the assignments.
LEMMA Assigned ==
    ASSUME Types, NEW c \in Conns
    PROVE  /\ [inbox EXCEPT ![c] = <<>>] \in [Conns -> Seq(Pieces \cup {"rest"})]
           /\ [owed EXCEPT ![c] = @ - 1] \in [Conns -> Int]
           /\ [waiting EXCEPT ![c] = FALSE] \in [Conns -> BOOLEAN]
<1>1. <<>> \in Seq(Pieces \cup {"rest"})
  OBVIOUS
<1>2. [inbox EXCEPT ![c] = <<>>] \in [Conns -> Seq(Pieces \cup {"rest"})]
  BY <1>1 DEF Types
<1>3. [owed EXCEPT ![c] = @ - 1] \in [Conns -> Int]
  <2>1. owed[c] - 1 \in Int
    BY DEF Types
  <2> QED BY <2>1 DEF Types
<1>4. [waiting EXCEPT ![c] = FALSE] \in [Conns -> BOOLEAN]
  BY DEF Types
<1> QED BY <1>2, <1>3, <1>4

\* The steps of a round that neither accept nor close.
LEMMA ScanStep ==
    ASSUME RoundIInv,
           \/ AcceptFails \/ SkipSlot \/ EnterSlot \/ ScanEnds \/ ReadLine \/ ReadEnd
           \/ HandleRequest \/ HandleBlank \/ WriteFails
    PROVE  RoundIInv'
<1> USE DEF RoundIInv
<1>1. UNCHANGED <<fdOf, conn, clientfd, read_set, ready_set, maxi>>
  BY DEF AcceptFails, SkipSlot, EnterSlot, ScanEnds, ReadLine, ReadEnd, HandleRequest,
         HandleBlank, WriteFails, Done, network, pool
<1>slots. Slots \subseteq Nat
  BY SlotsAreFinite
<1>ahead. IsFiniteSet(Ahead) /\ Cardinality(Ahead) \in Nat
  BY SlotsAreFinite, FS_Subset, FS_CardinalityType DEF Ahead
<1>types. /\ Types' => FdInv' /\ PoolAgrees' /\ OpenFds' = OpenFds
          /\ i \in Nat /\ nready \in Int
  BY <1>1, PoolStays DEF Connected, Types
<1>2. CASE AcceptFails \/ WriteFails
  <2>1. UNCHANGED <<network, pc, pool, i, part, line>>
    BY <1>2 DEF AcceptFails, WriteFails
  <2>2. Types' /\ RoundInv' /\ NreadyCounts'
    BY <2>1 DEF network, pool, Types, RoundInv, OpenFds, NreadyCounts, Ahead
  <2> QED BY <1>types, <2>2
<1>3. CASE SkipSlot
  <2>1. /\ UNCHANGED <<network, up, pc, pool, part, line>> /\ pc = "check"
        /\ i' = i + 1 /\ clientfd[i] \notin ready_set
    BY <1>3 DEF SkipSlot, At
  <2>2. Types'
    BY <2>1 DEF network, pool, Types
  <2>3. \A s \in Slots : s > i + 1 \/ s = i + 1 <=> s > i
    BY <1>slots, <1>types
  <2>4. Ahead' = Ahead
    BY <2>1, <2>3 DEF pool, Ahead
  <2>5. RoundInv' /\ NreadyCounts'
    BY <2>1, <2>4 DEF pool, RoundInv, NreadyCounts
  <2> QED BY <1>types, <2>2, <2>5
<1>4. CASE EnterSlot
  <2>1. /\ UNCHANGED <<network, up, clientfd, read_set, ready_set, maxi, i, line>>
        /\ pc = "check" /\ pc' = "read" /\ part' = FALSE /\ nready' = nready - 1
        /\ clientfd[i] \in ready_set /\ i <= maxi
    BY <1>4 DEF EnterSlot, At, Scanning
  <2>2. Types'
    <3>1. part' \in BOOLEAN
      BY <2>1
    <3>2. nready' \in Int
      BY <1>types, <2>1
    <3>3. pc' \in {"select", "accept", "check", "read", "handle"}
      BY <2>1
    <3> QED BY <2>1, <3>1, <3>2, <3>3 DEF network, Types
  <2>3. nready = Cardinality(Ahead) /\ nready > 0
    BY <1>4, <2>1 DEF EnterSlot, Scanning, NreadyCounts
  <2>4. i \in Slots
    <3>1. PICK s \in Ahead : TRUE
      BY <1>ahead, <2>3, FS_EmptySet
    <3>2. s \in Slots /\ i <= s
      BY <1>slots, <1>types, <3>1 DEF Ahead
    <3> QED BY <1>slots, <1>types, <3>2, EventServerAssumption DEF Slots
  <2>5. i \in Ahead
    BY <2>1, <2>4 DEF Ahead
  <2>6. Ahead' = Ahead \ {i}
    <3>1. \A s \in Slots : s > i => s # i
      BY <1>slots, <1>types
    <3> QED BY <2>1, <3>1 DEF Ahead
  <2>7. NreadyCounts'
    BY <1>ahead, <2>1, <2>3, <2>5, <2>6, FS_RemoveElement DEF NreadyCounts
  <2>8. RoundInv'
    BY <2>1, <2>4 DEF RoundInv
  <2> QED BY <1>types, <2>2, <2>7, <2>8
<1>5. CASE ScanEnds
  <2>1. UNCHANGED <<network, up, pool, i, part, line>> /\ pc' = "select"
    BY <1>5 DEF ScanEnds
  <2>2. Types' /\ RoundInv' /\ NreadyCounts'
    BY <2>1 DEF network, pool, Types, RoundInv, NreadyCounts
  <2> QED BY <1>types, <2>2
<1>6. CASE ReadLine \/ ReadEnd
  <2>1. /\ pc = "read" /\ pc' \in {"read", "handle"}
        /\ UNCHANGED <<conn, fdOf, pool, i, owed, waiting>>
    BY <1>6 DEF ReadLine, ReadEnd, At, network
  <2>2. Current \in Conns
    BY <2>1, CurrentIsConnected
  <2>3. /\ inbox' \in [Conns -> Seq(Pieces \cup {"rest"})] /\ part' \in BOOLEAN
        /\ line' \in Pieces \cup {"rest", "req", "eof", "none"}
    <3>1. CASE ReadLine
      <4> DEFINE got == IF part THEN <<"half">> \o inbox[Current] ELSE inbox[Current]
      <4>1. PICK b \in Seq(Pieces \cup {"rest"}) : b = inbox[Current]
        BY <2>2 DEF Types
      <4>2. b # <<>> /\ inbox' = [inbox EXCEPT ![Current] = <<>>]
        BY <3>1, <4>1 DEF ReadLine
      <4>3. \/ part' = TRUE /\ line' = line
            \/ part' = FALSE /\ line' = IF got[1] = "half" THEN "req" ELSE got[1]
        BY <3>1 DEF ReadLine
      <4>4. got[1] \in Pieces \cup {"rest", "half"}
        <5>1. b[1] \in Pieces \cup {"rest"}
          BY <4>2
        <5>2. (<<"half">> \o b)[1] = "half"
          OBVIOUS
        <5> QED BY <4>1, <5>1, <5>2
      <4> HIDE DEF got
      <4>5. inbox' \in [Conns -> Seq(Pieces \cup {"rest"})]
        BY <2>2, <4>2, Assigned
      <4> QED BY <4>3, <4>4, <4>5 DEF Types
    <3>2. CASE ReadEnd
      BY <3>2 DEF ReadEnd, Types, network
    <3> QED BY <1>6, <3>1, <3>2
  <2>4. Types'
    BY <2>1, <2>3 DEF Types, pool
  <2>5. Ahead' = Ahead
    BY <2>1 DEF pool, Ahead
  <2>6. RoundInv' /\ NreadyCounts'
    BY <2>1, <2>5 DEF pool, RoundInv, NreadyCounts
  <2> QED BY <1>types, <2>4, <2>6
<1>7. CASE HandleRequest \/ HandleBlank
  <2>1. /\ pc = "handle" /\ pc' = "check" /\ i' = i + 1 /\ line' = "none"
        /\ UNCHANGED <<conn, fdOf, inbox, pool, part>>
    BY <1>7 DEF HandleRequest, HandleBlank, At, Done
  <2>2. /\ owed' = [owed EXCEPT ![Current] = @ - 1]
        /\ waiting' \in {waiting, [waiting EXCEPT ![Current] = FALSE]}
    BY <1>7 DEF HandleRequest, HandleBlank, Answer
  <2>3. Types'
    <3>c. Current \in Conns
      BY <2>1, CurrentIsConnected
    <3>1. owed' \in [Conns -> Int]
      BY <2>2, <3>c, Assigned
    <3>2. waiting' \in [Conns -> BOOLEAN]
      BY <2>2, <3>c, Assigned DEF Types
    <3> QED BY <2>1, <3>1, <3>2 DEF Types, pool
  <2>4. \A s \in Slots : s > i + 1 \/ s = i + 1 <=> s > i
    BY <1>slots, <1>types
  <2>5. Ahead' = Ahead
    BY <2>1, <2>4 DEF pool, Ahead
  <2>6. RoundInv' /\ NreadyCounts'
    BY <2>1, <2>5 DEF pool, RoundInv, NreadyCounts
  <2> QED BY <1>types, <2>3, <2>6
<1> QED BY <1>2, <1>3, <1>4, <1>5, <1>6, <1>7

\* Closing a client empties its slot, which the scan has reached.
LEMMA CloseStep ==
    ASSUME RoundIInv, HandleExit \/ HandleEof
    PROVE  RoundIInv'
<1> USE DEF RoundIInv
<1>1. /\ pc = "handle" /\ pc' = "check" /\ i' = i + 1 /\ line' = "none"
      /\ conn' = [conn EXCEPT ![Current] = "closed"]
      /\ read_set' = read_set \ {clientfd[i]}
      /\ clientfd' = [clientfd EXCEPT ![i] = NoFd]
      /\ fdOf' = [fdOf EXCEPT ![Current] = NoFd]
      /\ inbox' = [inbox EXCEPT ![Current] = <<>>]
      /\ UNCHANGED <<ready_set, nready, maxi, part>>
  BY DEF HandleExit, HandleEof, At, CloseCurrent, Done
<1>2. PICK c \in Conns, f \in Fds :
        /\ c = Current /\ f = clientfd[i] /\ fdOf[c] = f /\ Connected(c) /\ i \in Slots
        /\ \A d \in Conns : fdOf[d] = f => d = c
  BY <1>1, CurrentIsConnected
<1>3. NoFd \notin Fds /\ Slots \subseteq Nat
  BY SlotsAreFinite, EventServerAssumption
<1>4. Types'
  <2>c. Current \in Conns
    BY <1>2
  <2>1. owed' \in [Conns -> Int]
    BY <2>c, Assigned DEF Types, HandleExit, HandleEof, Answer
  <2>2. waiting' \in [Conns -> BOOLEAN]
    BY <2>c, Assigned DEF Types, HandleExit, HandleEof, Answer
  <2>3. inbox' \in [Conns -> Seq(Pieces \cup {"rest"})]
    BY <1>1, <2>c, Assigned
  <2>4. /\ conn' \in [Conns -> {"new", "backlog", "open", "gone", "closed"}]
        /\ fdOf' \in [Conns -> Fds \cup {NoFd}]
        /\ clientfd' \in [Slots -> Fds \cup {NoFd}]
    BY <1>1 DEF Types
  <2> QED BY <1>1, <2>1, <2>2, <2>3, <2>4 DEF Types
<1>5. \A d \in Conns : /\ fdOf'[d] = IF d = c THEN NoFd ELSE fdOf[d]
                       /\ Connected(d)' <=> d # c /\ Connected(d)
  BY <1>1, <1>2 DEF Types, Connected
<1>6. FdInv'
  BY <1>5 DEF FdInv
<1>7. \A s \in Slots : clientfd'[s] = IF s = i THEN NoFd ELSE clientfd[s]
  BY <1>1 DEF Types
<1>8. PoolElements
  BY PoolByElements
<1>9. PoolElements'
  <2>1. \A g \in Fds : Held(g)' <=> g # f /\ Held(g)
    BY <1>2, <1>3, <1>5 DEF Held
  <2>2. \A g \in Fds : InSlot(g)' <=> g # f /\ InSlot(g)
    BY <1>2, <1>3, <1>7, <1>8 DEF PoolElements, InSlot
  <2>3. \A g \in Fds : /\ g \in read_set' <=> Held(g)'
                       /\ InSlot(g)' <=> Held(g)'
    BY <1>1, <1>2, <1>8, <2>1, <2>2 DEF PoolElements
  <2>4. /\ \A s, t \in Slots : clientfd'[s] = clientfd'[t] /\ clientfd'[s] # NoFd => s = t
        /\ \A s \in Slots : clientfd'[s] # NoFd => s <= maxi'
    BY <1>1, <1>7, <1>8 DEF PoolElements
  <2> QED BY <2>3, <2>4 DEF PoolElements
<1>10. PoolAgrees'
  <2>1. (Types /\ FdInv => (PoolAgrees <=> PoolElements))'
    BY PoolByElements, PTL
  <2> QED BY <1>4, <1>6, <1>9, <2>1
<1>11. Ahead' = Ahead
  <2>1. \A s \in Slots : /\ s > i + 1 \/ s = i + 1 <=> s > i
                         /\ s > i => s # i
    BY <1>2, <1>3
  <2> QED BY <1>1, <1>7, <2>1 DEF Ahead
<1>12. RoundInv' /\ NreadyCounts'
  BY <1>1, <1>11 DEF RoundInv, NreadyCounts
<1> QED BY <1>4, <1>6, <1>10, <1>12

LEMMA Inits == Init => RoundIInv /\ LineInv
<1> SUFFICES ASSUME Init PROVE RoundIInv /\ LineInv
  OBVIOUS
<1>1. NoFd \notin Fds /\ <<>> \in Seq(Pieces \cup {"rest"}) /\ 0 \in Int /\ -1 \in Int
  BY EventServerAssumption
<1>2. /\ conn = [c \in Conns |-> "new"] /\ fdOf = [c \in Conns |-> NoFd]
      /\ inbox = [c \in Conns |-> <<>>] /\ owed = [c \in Conns |-> 0]
      /\ waiting = [c \in Conns |-> FALSE] /\ clientfd = [s \in Slots |-> NoFd]
      /\ read_set = {Listen} /\ ready_set = {} /\ nready = 0 /\ maxi = -1 /\ i = 0
      /\ part = FALSE /\ line = "none" /\ pc = "select"
  BY DEF Init
<1>3. Types
  <2>1. inbox \in [Conns -> Seq(Pieces \cup {"rest"})]
    BY <1>1, <1>2
  <2>2. /\ conn \in [Conns -> {"new", "backlog", "open", "gone", "closed"}]
        /\ fdOf \in [Conns -> Fds \cup {NoFd}]
        /\ clientfd \in [Slots -> Fds \cup {NoFd}]
    BY <1>2
  <2>3. owed \in [Conns -> Int]
    BY <1>2
  <2>4. waiting \in [Conns -> BOOLEAN]
    BY <1>2
  <2> QED BY <1>1, <1>2, <2>1, <2>2, <2>3, <2>4 DEF Types
<1>4. FdInv
  BY <1>2 DEF FdInv, Connected
<1>5. PoolElements
  <2>1. \A f \in Fds : f # NoFd /\ f # Listen
    BY EventServerAssumption
  <2> QED BY <1>2, <2>1 DEF PoolElements, Held, InSlot
<1>6. RoundIInv
  BY <1>2, <1>3, <1>4, <1>5, PoolByElements DEF RoundIInv, RoundInv, NreadyCounts
<1>7. LineInv
  <2> SUFFICES ASSUME NEW c \in Conns PROVE LineIsSomewhere(c)
    BY <1>2 DEF LineInv
  <2>1. inbox[c] = <<>> /\ owed[c] = 0 /\ ~InHand(c) /\ ~part
    BY <1>2 DEF InHand
  <2>2. <<>> \notin Whole /\ <<>> # <<"rest">>
    BY DEF Whole
  <2> QED BY <2>1, <2>2 DEF LineIsSomewhere, InSocket
<1> QED BY <1>6, <1>7

LEMMA RoundNext == RoundIInv /\ [Next]_vars => RoundIInv'
<1> SUFFICES ASSUME RoundIInv, [Next]_vars PROVE RoundIInv'
  OBVIOUS
<1>1. CASE Select
  BY <1>1, SelectStep
<1>2. ASSUME NEW c \in Conns, add_client(c)
      PROVE  RoundIInv'
  BY <1>2, AddClientStep
<1>3. CASE AcceptFails \/ check_clients
  BY <1>3, ScanStep, CloseStep DEF check_clients
<1>4. ASSUME NEW c \in Conns,
             \/ Connect(c) \/ HangUp(c)
             \/ \E p \in Pieces \cup {"rest"} : Write(c, p)
      PROVE  RoundIInv'
  BY <1>4, ClientStep
<1>5. CASE UNCHANGED vars
  <2>1. Types' /\ Ahead' = Ahead
    BY <1>5 DEF vars, network, pool, RoundIInv, Types, Ahead
  <2>2. FdInv' /\ PoolAgrees' /\ OpenFds' = OpenFds
    BY <1>5, <2>1, PoolStays DEF vars, network, pool, RoundIInv, Connected
  <2>3. RoundInv' /\ NreadyCounts'
    BY <1>5, <2>1, <2>2 DEF vars, pool, RoundIInv, RoundInv, NreadyCounts
  <2> QED BY <2>1, <2>2, <2>3 DEF RoundIInv
<1> QED BY <1>1, <1>2, <1>3, <1>4, <1>5 DEF Next, Server, Idle

\* check_clients serves exactly the clients that select has found ready.
THEOREM ScanServesReadyClients == Spec => []ScanIsExact
<1>1. RoundIInv => ScanIsExact
  BY DEF RoundIInv, ScanIsExact
<1> QED BY <1>1, Inits, RoundNext, PTL DEF Spec
-----------------------------------------------------------------------------
(* The lines                                                               *)

\* What a client can have written of a line.
LEMMA LinesOfPieces ==
    /\ <<>> \notin Whole /\ <<"half">> \notin Whole
    /\ <<"rest">> \in Whole /\ <<"half", "rest">> \in Whole
    /\ \A l \in Lines : <<l>> \in Whole /\ <<l>> # <<"rest">>
    /\ <<"half">> # <<>> /\ <<"rest">> # <<>> /\ <<"half">> # <<"rest">>
    /\ <<"half", "rest">> # <<"rest">>
<1>1. <<"half">>[1] = "half" /\ <<"rest">>[1] = "rest" /\ \A l \in Lines : <<l>>[1] = l
  OBVIOUS
<1>2. Len(<<"half", "rest">>) = 2 /\ Len(<<"half">>) = 1 /\ Len(<<"rest">>) = 1
  OBVIOUS
<1>3. \A l \in Lines : l # "half" /\ l # "rest"
  BY DEF Lines
<1>4. <<"half">> \notin Whole
  BY <1>1, <1>2, <1>3 DEF Whole
<1>5. <<"half", "rest">> # <<"rest">> /\ <<"half">> # <<"rest">>
  BY <1>1, <1>2
<1>6. \A l \in Lines : <<l>> # <<"rest">>
  BY <1>1, <1>3
<1> QED BY <1>4, <1>5, <1>6 DEF Whole

LEMMA HalfAndRest == Append(<<"half">>, "rest") = <<"half", "rest">>
<1>0. PICK s, t : s = Append(<<"half">>, "rest") /\ t = <<"half", "rest">>
  OBVIOUS
<1> DEFINE P == {"half", "rest"}
<1>1. <<"half">> \in Seq(P)
  OBVIOUS
<1>2. s \in Seq(P) /\ Len(s) = 2 /\ s[1] = "half" /\ s[2] = "rest"
  BY <1>0, <1>1
<1>3. t \in Seq(P) /\ Len(t) = 2 /\ t[1] = "half" /\ t[2] = "rest"
  BY <1>0
<1>4. \A k \in 1..2 : s[k] = t[k]
  BY <1>2, <1>3
<1>5. s = t
  BY <1>2, <1>3, <1>4, SeqEqual
<1> QED BY <1>0, <1>5

\* A client is where it was when a step is about another one.
LEMMA LineStays ==
    ASSUME NEW c, LineIsSomewhere(c),
           inbox'[c] = inbox[c], owed'[c] = owed[c], waiting'[c] = waiting[c],
           InHand(c)' <=> InHand(c), InHand(c) => line' = line,
           (part /\ Serving(c))' <=> (part /\ Serving(c))
    PROVE  LineIsSomewhere(c)'
<1>1. InSocket(c)' <=> InSocket(c)
  BY DEF InSocket
<1>2. (part' /\ Serving(c)') <=> (part /\ Serving(c))
  OBVIOUS
<1>3. LineIsSomewhere(c)' <=>
        /\ inbox[c] \in {<<>>, <<"half">>} \/ InSocket(c)
        /\ InSocket(c) \/ InHand(c) => waiting[c]
        /\ owed[c] = IF InSocket(c) \/ InHand(c) THEN 1 ELSE 0
        /\ inbox[c] = <<"rest">> => part' /\ Serving(c)'
        /\ part' /\ Serving(c)' => inbox[c] \in {<<>>, <<"rest">>}
        /\ InHand(c) => line' \in Lines /\ inbox[c] = <<>>
  BY <1>1 DEF LineIsSomewhere
<1> QED BY <1>2, <1>3 DEF LineIsSomewhere

\* A client that waits for its answers writes when nothing of its is whole.
LEMMA WriteKeepsLine ==
    ASSUME RoundIInv, LineInv, ~Pipelined, NEW c \in Conns,
           NEW p \in Pieces \cup {"rest"}, Write(c, p)
    PROVE  LineInv'
<1>types. /\ inbox \in [Conns -> Seq(Pieces \cup {"rest"})] /\ owed \in [Conns -> Int]
          /\ waiting \in [Conns -> BOOLEAN]
  BY DEF RoundIInv, Types
<1>1. /\ conn[c] \in {"backlog", "open"} /\ ~waiting[c]
      /\ p \in IF Unfinished(c) THEN {"rest"} ELSE Pieces
      /\ inbox' = [inbox EXCEPT ![c] = Append(@, p)]
      /\ owed' = [owed EXCEPT ![c] = @ + (IF p = "half" THEN 0 ELSE 1)]
      /\ waiting' = [waiting EXCEPT ![c] = @ \/ p # "half"]
      /\ UNCHANGED <<conn, fdOf, up, pc, pool, i, part, line>>
  BY DEF Write
<1>2. \A d \in Conns : Early(d)' = Early(d) /\ Serving(d)' = Serving(d) /\ InHand(d)' = InHand(d)
  BY <1>1 DEF pool, Early, Serving, InHand
<1>3. \A d \in Conns \ {c} : /\ inbox'[d] = inbox[d] /\ owed'[d] = owed[d]
                             /\ waiting'[d] = waiting[d]
  BY <1>types, <1>1
<1>4. ASSUME NEW d \in Conns \ {c}, Early(d)'
      PROVE  LineIsSomewhere(d)'
  BY <1>1, <1>2, <1>3, <1>4, LineStays DEF LineInv
<1>5. LineIsSomewhere(c)
  BY <1>1 DEF LineInv, Early
<1>6. /\ ~InHand(c) /\ inbox[c] \in {<<>>, <<"half">>} /\ owed[c] = 0
      /\ part /\ Serving(c) => inbox[c] = <<>>
  BY <1>1, <1>5, LinesOfPieces DEF LineIsSomewhere
<1>7. /\ inbox'[c] = Append(inbox[c], p)
      /\ p = "half" => owed'[c] = 0
      /\ p # "half" => owed'[c] = 1 /\ waiting'[c]
  <2>1. inbox'[c] = Append(inbox[c], p)
    BY <1>types, <1>1
  <2>2. owed'[c] = IF p = "half" THEN 0 ELSE 1
    BY <1>types, <1>1, <1>6
  <2>3. p # "half" => waiting'[c]
    BY <1>types, <1>1
  <2> QED BY <2>1, <2>2, <2>3
<1>8. CASE inbox[c] = <<"half">>
  <2>1. MidLine(c)
    <3>1. Len(<<"half">>) = 1 /\ <<"half">>[1] = "half"
      OBVIOUS
    <3> QED BY <1>8, <3>1, LinesOfPieces DEF MidLine
  <2>2. p = "rest" /\ Append(<<"half">>, "rest") = <<"half", "rest">>
    <3>1. Unfinished(c)
      BY <2>1 DEF Unfinished
    <3>2. p = "rest"
      BY <1>1, <3>1
    <3>3. Append(<<"half">>, "rest") = <<"half", "rest">>
      BY HalfAndRest
    <3> QED BY <3>2, <3>3
  <2>3. inbox'[c] = <<"half", "rest">> /\ owed'[c] = 1 /\ waiting'[c] /\ ~(part /\ Serving(c))
    BY <1>6, <1>7, <1>8, <2>2, LinesOfPieces
  <2>4. LineIsSomewhere(c)'
    BY <1>1, <1>2, <1>6, <2>3, LinesOfPieces DEF LineIsSomewhere, InSocket
  <2> QED BY <1>1, <1>4, <2>4 DEF LineInv
<1>9. CASE inbox[c] = <<>> /\ part /\ fdOf[c] = clientfd[i]
  <2>1. p = "rest" /\ Append(<<>>, "rest") = <<"rest">>
    <3>1. Unfinished(c)
      BY <1>9 DEF Unfinished
    <3>2. p = "rest"
      BY <1>1, <3>1
    <3>3. Append(<<>>, "rest") = <<"rest">>
      OBVIOUS
    <3> QED BY <3>2, <3>3
  <2>2. part /\ Serving(c)
    BY <1>9 DEF LineInv, Serving
  <2>3. inbox'[c] = <<"rest">> /\ owed'[c] = 1 /\ waiting'[c]
    BY <1>6, <1>7, <1>9, <2>1
  <2>4. LineIsSomewhere(c)'
    BY <1>1, <1>2, <1>6, <2>2, <2>3, LinesOfPieces DEF LineIsSomewhere, InSocket
  <2> QED BY <1>1, <1>4, <2>4 DEF LineInv
<1>10. CASE inbox[c] = <<>> /\ ~(part /\ fdOf[c] = clientfd[i])
  <2>1. p \in Pieces /\ Append(<<>>, p) = <<p>>
    BY <1>1, <1>10, LinesOfPieces DEF Unfinished, MidLine
  <2>2. p \in Lines \cup {"half"} /\ "half" \notin Lines
    BY <2>1, EventServerAssumption DEF Lines
  <2>3. inbox'[c] = <<p>> /\ ~(part /\ Serving(c))
    BY <1>7, <1>10, <2>1 DEF Serving
  <2>4. LineIsSomewhere(c)'
    <3>1. CASE p = "half"
      <4>1. inbox'[c] = <<"half">> /\ owed'[c] = 0
        BY <1>6, <1>7, <2>3, <3>1
      <4> QED BY <1>1, <1>2, <1>6, <2>3, <4>1, LinesOfPieces DEF LineIsSomewhere, InSocket
    <3>2. CASE p \in Lines
      <4>1. inbox'[c] \in Whole /\ inbox'[c] # <<"rest">> /\ owed'[c] = 1 /\ waiting'[c]
        <5>1. <<p>> \in Whole /\ <<p>> # <<"rest">>
          BY <3>2, LinesOfPieces
        <5>2. p # "half"
          BY <2>2, <3>2
        <5> QED BY <1>7, <2>3, <5>1, <5>2
      <4> QED BY <1>1, <1>2, <1>6, <2>3, <4>1, LinesOfPieces DEF LineIsSomewhere, InSocket
    <3> QED BY <2>2, <3>1, <3>2
  <2> QED BY <1>1, <1>4, <2>4 DEF LineInv
<1> QED BY <1>6, <1>8, <1>9, <1>10

\* What Rio_readlineb returns of a line in the socket, alone or behind the
\* half that was read before.
LEMMA LinesRead ==
    /\ <<"half">> \o <<"rest">> # <<"half">> /\ (<<"half">> \o <<"rest">>)[1] = "half"
    /\ \A w \in Whole : w # <<"rest">> =>
          w # <<"half">> /\ (w[1] = "half" \/ w[1] \in Lines)
<1>1. PICK s : s = <<"half">> \o <<"rest">>
  OBVIOUS
<1>2. Len(s) = 2 /\ s[1] = "half" /\ Len(<<"half">>) = 1
  BY <1>1
<1>3. \A w \in Whole : w # <<"rest">> => w[1] = "half" \/ w[1] \in Lines
  BY DEF Whole
<1> QED BY <1>1, <1>2, <1>3, LinesOfPieces

\* Rio_readlineb takes the only line there is.
LEMMA ReadKeepsLine ==
    ASSUME RoundIInv, LineInv, ReadLine
    PROVE  LineInv'
<1>1. PICK c \in Conns : c = Current /\ fdOf[c] = clientfd[i]
                         /\ \A d \in Conns : fdOf[d] = clientfd[i] => d = c
  BY CurrentIsConnected DEF RoundIInv, ReadLine, At
<1> DEFINE got == IF part THEN <<"half">> \o inbox[c] ELSE inbox[c]
<1>2. /\ pc = "read" /\ inbox[c] # <<>>
      /\ inbox' = [inbox EXCEPT ![c] = <<>>]
      /\ UNCHANGED <<conn, fdOf, writes, owed, waiting, up, pool, i>>
  BY <1>1 DEF ReadLine, At
<1>3. IF got = <<"half">>
      THEN part' = TRUE /\ UNCHANGED <<pc, line>>
      ELSE /\ part' = FALSE
           /\ pc' = "handle"
           /\ line' = IF got[1] = "half" THEN "req" ELSE got[1]
  BY <1>1 DEF ReadLine
<1>4. pc' \in {"read", "handle"} /\ (part' => pc' = "read")
  BY <1>2, <1>3
<1>5. /\ \A d \in Conns : Early(d)' = Early(d) /\ Serving(d)' = Serving(d)
      /\ Serving(c) /\ ~InHand(c)
      /\ \A d \in Conns \ {c} : ~Serving(d) /\ ~InHand(d) /\ ~InHand(d)'
  BY <1>1, <1>2, <1>4 DEF pool, Early, Serving, InHand
<1>6. inbox'[c] = <<>> /\ \A d \in Conns \ {c} : inbox'[d] = inbox[d]
  BY <1>2 DEF RoundIInv, Types
<1>7. ASSUME NEW d \in Conns \ {c}, Early(d)'
      PROVE  LineIsSomewhere(d)'
  <2>1. LineIsSomewhere(d)
    BY <1>5, <1>7 DEF LineInv
  <2>2. (part /\ Serving(d))' <=> (part /\ Serving(d))
    BY <1>5
  <2>3. inbox'[d] = inbox[d] /\ owed' = owed /\ waiting' = waiting
    BY <1>2, <1>6
  <2> QED BY <1>5, <2>1, <2>2, <2>3, LineStays
<1>8. ASSUME Early(c)'
      PROVE  LineIsSomewhere(c)'
  <2>1. LineIsSomewhere(c)
    BY <1>5, <1>8 DEF LineInv
  <2>2. ~InSocket(c)' /\ owed' = owed /\ waiting' = waiting
    BY <1>2, <1>6, LinesOfPieces DEF InSocket
  <2>3. CASE inbox[c] = <<"half">>
    <3>1. ~part
      BY <1>5, <2>1, <2>3, LinesOfPieces DEF LineIsSomewhere
    <3>2. part' /\ pc' = pc
      BY <1>3, <2>3, <3>1
    <3>3. ~InHand(c)' /\ owed[c] = 0
      BY <1>2, <1>5, <2>1, <2>3, <3>2, LinesOfPieces
         DEF InHand, LineIsSomewhere, InSocket
    <3> QED BY <1>5, <1>6, <2>2, <3>2, <3>3, LinesOfPieces DEF LineIsSomewhere
  <2>4. CASE inbox[c] \in Whole
    <3>1. waiting[c] /\ owed[c] = 1
      BY <1>5, <2>1, <2>4 DEF LineIsSomewhere, InSocket
    <3>2. got # <<"half">> /\ (got[1] = "half" \/ got[1] \in Lines)
      <4>1. CASE part
        <5>1. inbox[c] = <<"rest">>
          BY <1>2, <1>5, <2>1, <4>1 DEF LineIsSomewhere
        <5> QED BY <4>1, <5>1, LinesRead
      <4>2. CASE ~part
        <5>1. inbox[c] # <<"rest">>
          BY <2>1, <4>2 DEF LineIsSomewhere
        <5> QED BY <2>4, <4>2, <5>1, LinesRead
      <4> QED BY <4>1, <4>2
    <3> HIDE DEF got
    <3>3. pc' = "handle" /\ part' = FALSE /\ line' \in Lines
      BY <1>3, <3>2 DEF Lines
    <3>4. InHand(c)'
      BY <1>5, <3>3 DEF InHand
    <3> QED BY <1>6, <2>2, <3>1, <3>3, <3>4, LinesOfPieces DEF LineIsSomewhere
  <2> QED BY <1>2, <2>1, <2>3, <2>4 DEF LineIsSomewhere, InSocket
<1> QED BY <1>4, <1>7, <1>8 DEF LineInv

\* A request or a blank line that is handled is owed no more.
LEMMA HandledLine ==
    ASSUME RoundIInv, LineInv,
           HandleRequest \/ HandleBlank \/ HandleExit \/ HandleEof
    PROVE  LineInv'
<1>1. PICK c \in Conns : c = Current /\ fdOf[c] = clientfd[i] /\ Connected(c)
                         /\ \A d \in Conns : fdOf[d] = clientfd[i] => d = c
  BY CurrentIsConnected
     DEF RoundIInv, HandleRequest, HandleBlank, HandleExit, HandleEof, At
<1>2. pc = "handle" /\ pc' = "check" /\ part' = part
  BY DEF HandleRequest, HandleBlank, HandleExit, HandleEof, At, Done
<1>3. \A d \in Conns : ~Serving(d)' /\ ~InHand(d)'
  BY <1>2 DEF Serving, InHand
<1>4. /\ \A d \in Conns \ {c} : ~Serving(d) /\ ~InHand(d)
      /\ Serving(c) /\ InHand(c) /\ ~part
  BY <1>1, <1>2 DEF Serving, InHand, LineInv
<1>5. ASSUME NEW d \in Conns \ {c}
      PROVE  /\ inbox'[d] = inbox[d] /\ owed'[d] = owed[d]
             /\ waiting'[d] = waiting[d] /\ conn'[d] = conn[d]
  <2>1. CASE HandleRequest \/ HandleBlank
    BY <1>1, <2>1 DEF HandleRequest, HandleBlank, Answer, RoundIInv, Types
  <2>2. CASE HandleExit
    BY <1>1, <2>2 DEF HandleExit, CloseCurrent, Answer, RoundIInv, Types
  <2>3. CASE HandleEof
    BY <1>1, <2>3 DEF HandleEof, CloseCurrent, RoundIInv, Types
  <2> QED BY <2>1, <2>2, <2>3
<1>6. ASSUME NEW d \in Conns \ {c}, Early(d)'
      PROVE  LineIsSomewhere(d)'
  <2>1. Early(d)
    BY <1>5, <1>6 DEF Early
  <2>2. (part /\ Serving(d))' <=> (part /\ Serving(d))
    BY <1>3, <1>4
  <2> QED BY <1>3, <1>4, <1>5, <2>1, <2>2, LineStays DEF LineInv
<1>7. CASE HandleExit \/ HandleEof
  <2>1. ~Early(c)'
    BY <1>1, <1>7 DEF HandleExit, HandleEof, CloseCurrent, Early, RoundIInv, Types
  <2> QED BY <1>2, <1>4, <1>6, <2>1 DEF LineInv
<1>8. CASE HandleRequest \/ HandleBlank
  <2>1. /\ owed' = [owed EXCEPT ![c] = @ - 1]
        /\ UNCHANGED <<conn, inbox>>
    BY <1>1, <1>8 DEF HandleRequest, HandleBlank, Answer
  <2>2. owed'[c] = owed[c] - 1
    BY <2>1 DEF RoundIInv, Types
  <2>3. ASSUME Early(c)'
        PROVE  LineIsSomewhere(c)'
    <3>1. LineIsSomewhere(c)
      BY <2>1, <2>3 DEF Early, LineInv
    <3>2. inbox'[c] = <<>> /\ owed[c] = 1
      BY <1>4, <2>1, <3>1 DEF LineIsSomewhere
    <3>3. owed'[c] = 0 /\ ~InSocket(c)'
      BY <2>2, <3>2, LinesOfPieces DEF InSocket
    <3> QED BY <1>3, <3>2, <3>3, LinesOfPieces DEF LineIsSomewhere
  <2> QED BY <1>2, <1>4, <1>6, <2>3 DEF LineInv
<1> QED BY <1>7, <1>8

\* Outside the slot being served a round has no line in hand.
LEMMA IdleKeepsLines ==
    ASSUME RoundIInv, LineInv, pc \in {"select", "accept", "check"},
           pc' \in {"select", "accept", "check", "read"}, part' = FALSE,
           UNCHANGED <<inbox, owed, waiting>>,
           \A c \in Conns : Early(c)' => Early(c)
    PROVE  LineInv'
<1>1. \A c \in Conns : ~Serving(c) /\ ~InHand(c) /\ ~InHand(c)'
  BY DEF Serving, InHand
<1>2. ASSUME NEW c \in Conns, Early(c)'
      PROVE  LineIsSomewhere(c)'
  <2>1. LineIsSomewhere(c)
    BY <1>2 DEF LineInv
  <2>2. (part /\ Serving(c))' <=> (part /\ Serving(c))
    BY <1>1
  <2> QED BY <1>1, <2>1, <2>2, LineStays
<1> QED BY <1>2 DEF LineInv

LEMMA LineNext == RoundIInv /\ LineInv /\ ~Pipelined /\ [Next]_vars => LineInv'
<1> SUFFICES ASSUME RoundIInv, LineInv, ~Pipelined, [Next]_vars PROVE LineInv'
  OBVIOUS
<1>1. ASSUME NEW c \in Conns, NEW p \in Pieces \cup {"rest"}, Write(c, p)
      PROVE  LineInv'
  BY <1>1, WriteKeepsLine
<1>2. CASE ReadLine
  BY <1>2, ReadKeepsLine
<1>3. CASE HandleRequest \/ HandleBlank \/ HandleExit \/ HandleEof
  BY <1>3, HandledLine
\* The clients that open or leave, and the end of the server.
<1>4. ASSUME UNCHANGED <<fdOf, inbox, owed, waiting, clientfd, pc, i, part, line>>,
             \A c \in Conns : Early(c)' => Early(c)
      PROVE  LineInv'
  <2>1. \A c \in Conns : /\ InHand(c)' <=> InHand(c)
                         /\ (part /\ Serving(c))' <=> (part /\ Serving(c))
    BY <1>4 DEF InHand, Serving
  <2>2. ASSUME NEW c \in Conns, Early(c)'
        PROVE  LineIsSomewhere(c)'
    BY <1>4, <2>1, <2>2, LineStays DEF LineInv
  <2> QED BY <1>4, <2>2 DEF LineInv
<1>5. ASSUME NEW c \in Conns, Connect(c)
      PROVE  LineInv'
  BY <1>4, <1>5 DEF Connect, Early, pool
<1>6. ASSUME NEW c \in Conns, HangUp(c)
      PROVE  LineInv'
  <2>1. /\ conn' = [conn EXCEPT ![c] = "gone"]
        /\ waiting' = [waiting EXCEPT ![c] = FALSE]
        /\ UNCHANGED <<fdOf, inbox, owed, clientfd, pc, i, part, line>>
    BY <1>6 DEF HangUp, pool
  <2>2. /\ ~Early(c)'
        /\ \A d \in Conns \ {c} : Early(d)' = Early(d) /\ waiting'[d] = waiting[d]
    BY <2>1 DEF Early, RoundIInv, Types
  <2>3. \A d \in Conns : /\ InHand(d)' <=> InHand(d)
                         /\ (part /\ Serving(d))' <=> (part /\ Serving(d))
    BY <2>1 DEF InHand, Serving
  <2>4. ASSUME NEW d \in Conns, Early(d)'
        PROVE  LineIsSomewhere(d)'
    BY <2>1, <2>2, <2>3, <2>4, LineStays DEF LineInv
  <2> QED BY <2>1, <2>4 DEF LineInv
<1>7. CASE AcceptFails \/ WriteFails
  BY <1>4, <1>7 DEF AcceptFails, WriteFails, network, pool, Early
<1>8. CASE Select \/ SkipSlot \/ ScanEnds \/ EnterSlot
  <2>1. /\ pc \in {"select", "check"} /\ pc' \in {"select", "accept", "check", "read"}
        /\ network' = network /\ (part' = part \/ part' = FALSE)
    BY <1>8 DEF Select, SkipSlot, ScanEnds, EnterSlot, At
  <2>2. part' = FALSE
    BY <2>1 DEF LineInv, RoundIInv, Types
  <2> QED BY <2>1, <2>2, IdleKeepsLines DEF network, Early
<1>9. ASSUME NEW c \in Conns, add_client(c)
      PROVE  LineInv'
  <2>1. /\ pc = "accept" /\ pc' = "check" /\ part' = part /\ conn[c] = "backlog"
        /\ conn' = [conn EXCEPT ![c] = "open"]
        /\ UNCHANGED <<inbox, owed, waiting>>
    BY <1>9 DEF add_client, At
  <2>2. part' = FALSE
    BY <2>1 DEF LineInv, RoundIInv, Types
  <2>3. \A d \in Conns : Early(d)' => Early(d)
    BY <2>1 DEF Early, RoundIInv, Types
  <2> QED BY <2>1, <2>2, <2>3, IdleKeepsLines
<1>10. CASE ReadEnd
  <2>1. PICK c \in Conns : c = Current /\ \A d \in Conns : fdOf[d] = clientfd[i] => d = c
    BY <1>10, CurrentIsConnected DEF RoundIInv, ReadEnd, At
  <2>2. conn[c] = "gone" /\ pc' = "handle" /\ part' = FALSE /\ UNCHANGED <<network, pool, i>>
    BY <1>10, <2>1 DEF ReadEnd
  <2>3. \A d \in Conns : Early(d)' => Early(d) /\ d # c
    BY <2>2 DEF Early, network
  <2>4. \A d \in Conns \ {c} : ~Serving(d) /\ ~Serving(d)' /\ ~InHand(d) /\ ~InHand(d)'
    BY <2>1, <2>2 DEF Serving, InHand, network, pool
  <2>5. ASSUME NEW d \in Conns, Early(d)'
        PROVE  LineIsSomewhere(d)'
    <3>1. LineIsSomewhere(d) /\ d # c
      BY <2>3, <2>5 DEF LineInv
    <3>2. (part /\ Serving(d))' <=> (part /\ Serving(d))
      BY <2>4, <3>1
    <3> QED BY <2>2, <2>4, <3>1, <3>2, LineStays DEF network
  <2> QED BY <2>2, <2>5 DEF LineInv
<1>11. CASE UNCHANGED vars
  BY <1>4, <1>11 DEF vars, network, pool, Early
<1> QED
  <2>1. CASE Server
    BY <1>2, <1>3, <1>7, <1>8, <1>9, <1>10, <2>1 DEF Server, check_clients
  <2>2. CASE \E c \in Conns : \/ Connect(c) \/ HangUp(c)
                              \/ \E p \in Pieces \cup {"rest"} : Write(c, p)
    BY <1>1, <1>5, <1>6, <2>2
  <2> QED BY <1>11, <2>1, <2>2 DEF Next, Idle

\* Every line of a client that waits for its answers is handled, however it
\* is split and whatever the other clients do: what Rio_readlineb drops
\* behind the first line is always empty.
THEOREM WaitingClientsLoseNothing ==
    ASSUME ~Pipelined
    PROVE  Spec => []NoLineLost
<1>1. RoundIInv /\ LineInv => NoLineLost
  <2> SUFFICES ASSUME LineInv, pc = "select", NEW c \in Conns,
                      conn[c] = "open", inbox[c] = <<>>
               PROVE  owed[c] = 0
    BY DEF NoLineLost
  <2>1. LineIsSomewhere(c)
    BY DEF LineInv, Early
  <2> QED BY <2>1, LinesOfPieces DEF LineIsSomewhere, InSocket, InHand
<1>2. RoundIInv /\ LineInv /\ [Next]_vars => (RoundIInv /\ LineInv)'
  BY RoundNext, LineNext
<1> QED BY <1>1, <1>2, Inits, PTL DEF Spec
=============================================================================
