---------------------------- MODULE ClientsProofs ----------------------------
(***************************************************************************)
(* Theorems about Clients for any number of children and users, any sizes  *)
(* of lines, buffers and sockets, and any typed input: both ends of every  *)
(* connection stay in step, and the report of task3 is whole.              *)
(***************************************************************************)
EXTENDS Clients, SequenceTheorems, WellFoundedInduction, TLAPS

Chars == {"x", NewLine, "order"}
Request == [ch : Chars, of : Nat, size : Nat]
Answer == [ch : {"answer"}, of : Nat, whole : BOOLEAN]
ClientStates ==
    [at : {"none", "open", "next", "write", "read", "report", "ended", "killed"},
     input : Seq(Chars), out : Seq(Request), got : Seq(Answer), rio : Seq(Answer), sent : Nat]
ThreadStates ==
    [at : {"none", "readline", "writen", "done"},
     line : Seq(Request), rio : Seq(Request), out : Seq(Answer)]
ParentStates ==
    [at : {"absent", "heading", "fork", "failed", "wait", "done"}, next : Nat \ {0},
     reports : BOOLEAN]

TypeOK ==
    /\ server \in {"starting", "listening", "dead"}
    /\ backlog \in Seq(Peers)
    /\ toServer \in [Peers -> Seq(Request)]
    /\ toClient \in [Peers -> Seq(Answer)]
    /\ client \in [Peers -> ClientStates]
    /\ thread \in [Peers -> ThreadStates]
    /\ parent \in ParentStates
    /\ report \in Seq({"head", "foot"} \cup Peers)
-----------------------------------------------------------------------------
(* The invariant of a connection: x is its client, t its thread, up and    *)
(* down are the bytes on the way, and alive says whether the server is.    *)
(* The bytes between the two ends are those of one line or of its answer.  *)

Silent(t) == t.line = <<>> /\ t.rio = <<>> /\ t.out = <<>>

\* s is line n as a client writes it: it fits a buffer, and nothing follows a newline.
WholeLine(s, n) ==
    /\ Len(s) \in 1..(MAXLINE - 1)
    /\ \A i \in 1..Len(s) : s[i].of = n /\ s[i].size = Len(s) /\ (s[i].ch = NewLine => i = Len(s))

\* The bytes of s are of the answer to line n, which was taken as one line.
OfAnswer(s, n) == \A i \in 1..Len(s) : s[i].of = n /\ s[i].whole

\* What the server has read of a line, and what of it is on the way.
InOrder(l, r, u, w) == ((l \o r) \o u) \o w

\* The server has not yet taken the line; rest is what is still to be written.
Asked(x, t, up, rest) ==
    /\ t.out = <<>> /\ t.at \in {"none", "readline"}
    /\ WholeLine(InOrder(t.line, t.rio, up, rest), x.sent)

\* The server has taken the line, and all of its answer is on its way.
Answered(x, t, up, down) ==
    /\ t.line = <<>> /\ t.rio = <<>> /\ up = <<>> /\ t.at \in {"readline", "writen"}
    /\ OfAnswer(t.out, x.sent)
    /\ Len(x.got) + Len(down) + Len(t.out) = MAXLINE

InStep(x, t, up, down, alive) ==
    /\ x.rio = <<>> /\ OfAnswer(x.got, x.sent) /\ Len(x.got) <= MAXLINE
    /\ Len(t.line) <= MAXLINE - 1
    /\ t.at = "none" => Silent(t)
    /\ t.at = "writen" <=> t.out # <<>>
    /\ t.at = "done" => x.at \in {"ended", "killed"}
    /\ x.at \in {"none", "open"} => /\ t.at = "none" /\ up = <<>> /\ down = <<>>
                                    /\ x.out = <<>> /\ x.got = <<>>
    /\ x.at = "next" => /\ down = <<>> /\ x.out = <<>>
                        /\ alive => up = <<>> /\ Silent(t)
    /\ x.at = "write" => /\ down = <<>> /\ x.got = <<>> /\ x.out # <<>>
                         /\ alive => Asked(x, t, up, x.out)
    /\ x.at = "read" => /\ x.out = <<>> /\ OfAnswer(down, x.sent)
                        /\ Len(x.got) < MAXLINE /\ Len(x.got) + Len(down) <= MAXLINE
                        /\ alive => \/ x.got = <<>> /\ down = <<>> /\ Asked(x, t, up, <<>>)
                                    \/ Answered(x, t, up, down)

ConnectionsInStep ==
    \A c \in Peers : InStep(client[c], thread[c], toServer[c], toClient[c], server # "dead")

\* A connection that waits for Accept has no thread, and waits once.
BacklogOK ==
    /\ \A i \in 1..Len(backlog) : /\ thread[backlog[i]].at = "none"
                                  /\ client[backlog[i]].at \notin {"none", "open"}
    /\ \A i, j \in 1..Len(backlog) : backlog[i] = backlog[j] => i = j
-----------------------------------------------------------------------------
(* The invariant of the parent and of result.md.                           *)

ParentInv ==
    /\ parent.at \in {"absent", "heading", "fork"} =>
          \A i \in 1..Len(Children) : parent.next <= i => client[Children[i]].at = "none"
    /\ parent.at = "heading" => parent.next = 1
    /\ parent.at = "wait" =>
          \A i \in 1..Len(Children) : i < parent.next => Closed(Children[i])
    /\ parent.at = "done" => \A c \in Forked : Closed(c)
    /\ parent.reports => \A u \in Users : client[u].at = "none"

ReportInv ==
    /\ \A i, j \in 1..Len(report) : report[i] = report[j] => i = j
    /\ \A i \in 1..Len(report) :
          /\ report[i] = "head" => parent.at # "heading"
          /\ report[i] = "foot" => parent.at = "done" /\ parent.reports /\ i = Len(report)
          /\ report[i] \in Peers => client[report[i]].at \in {"report", "ended"}
    /\ parent.reports => \A c \in Peers : client[c].at \in {"report", "ended"} => Reported(c)

Inv == TypeOK /\ ConnectionsInStep /\ BacklogOK /\ ParentInv /\ ReportInv
-----------------------------------------------------------------------------
(* Sequences of bytes that are cut in two.                                 *)

\* Every nonempty set of natural numbers has a least element.
LEMMA LeastElement ==
    ASSUME NEW S \in SUBSET Nat, S # {}
    PROVE  \E n \in S : \A m \in S : n <= m
<1> DEFINE R == OpToRel(<, Nat)
<1>1. \A m, n \in Nat : m < n => <<m, n>> \in R
  BY DEF OpToRel
<1>2. IsWellFoundedOn(R, Nat)
  BY NatLessThanWellFounded
<1> HIDE DEF R
<1>3. PICK n \in S : \A m \in S : ~(<<m, n>> \in R)
  BY <1>2, WFMin
<1>4. \A m \in S : ~(m < n)
  BY <1>1, <1>3
<1> QED BY <1>4

LEMMA MinOf ==
    ASSUME NEW S \in SUBSET Nat, S # {}
    PROVE  Min(S) \in S /\ \A m \in S : Min(S) <= m
BY LeastElement DEF Min

LEMMA MinOfTwo ==
    ASSUME NEW a \in Int, NEW b \in Int
    PROVE  Min({a, b}) \in {a, b} /\ Min({a, b}) <= a /\ Min({a, b}) <= b
<1>1. \E x \in {a, b} : \A y \in {a, b} : x <= y
  <2>1. CASE a <= b
    BY <2>1
  <2>2. CASE b <= a
    BY <2>2
  <2> QED BY <2>1, <2>2
<1> QED BY <1>1 DEF Min

LEMMA Cut ==
    ASSUME NEW S, NEW s \in Seq(S), NEW n \in 0..Len(s)
    PROVE  /\ First(n, s) \in Seq(S) /\ Len(First(n, s)) = n
           /\ \A i \in 1..n : First(n, s)[i] = s[i]
           /\ Behind(n, s) \in Seq(S) /\ Len(Behind(n, s)) = Len(s) - n
           /\ \A i \in 1..(Len(s) - n) : Behind(n, s)[i] = s[n + i]
           /\ First(n, s) \o Behind(n, s) = s
<1>1. Len(s) \in Nat /\ n \in Nat
  BY LenProperties
<1>2. \A i \in 1..n : s[i] \in S
  BY <1>1, ElementOfSeq
<1>3. \A i \in (n + 1)..Len(s) : s[i] \in S
  BY <1>1, ElementOfSeq
<1>4. /\ First(n, s) \in Seq(S) /\ Len(First(n, s)) = n
      /\ \A i \in 1..n : First(n, s)[i] = s[i]
  BY <1>1, <1>2, SubSeqProperties DEF First
<1>5. /\ Behind(n, s) \in Seq(S) /\ Len(Behind(n, s)) = Len(s) - n
      /\ \A i \in 1..(Len(s) - n) : Behind(n, s)[i] = s[n + i]
  BY <1>1, <1>3, SubSeqProperties DEF Behind
<1>6. First(n, s) \o Behind(n, s) = s
  <2>1. First(n, s) \o Behind(n, s) \in Seq(S)
    BY <1>4, <1>5, ConcatProperties
  <2>2. Len(First(n, s) \o Behind(n, s)) = Len(s)
    BY <1>1, <1>4, <1>5, ConcatProperties
  <2>3. \A i \in 1..Len(s) : (First(n, s) \o Behind(n, s))[i] = s[i]
    <3> SUFFICES ASSUME NEW i \in 1..Len(s) PROVE (First(n, s) \o Behind(n, s))[i] = s[i]
      OBVIOUS
    <3>1. (First(n, s) \o Behind(n, s))[i] =
             IF i <= n THEN First(n, s)[i] ELSE Behind(n, s)[i - n]
      BY <1>1, <1>4, <1>5, ConcatProperties
    <3> QED BY <1>1, <1>4, <1>5, <3>1
  <2> QED BY <2>1, <2>2, <2>3, SeqEqual
<1> QED BY <1>4, <1>5, <1>6

LEMMA FirstAll ==
    ASSUME NEW S, NEW s \in Seq(S)
    PROVE  First(Len(s), s) = s /\ Behind(Len(s), s) = <<>>
<1>1. Len(s) \in Nat
  BY LenProperties
<1>2. Behind(Len(s), s) = <<>>
  BY <1>1, SubSeqEmpty DEF Behind
<1> QED BY <1>2, SubSeqFull DEF First

LEMMA EmptyIsLength0 ==
    ASSUME NEW S, NEW s \in Seq(S)
    PROVE  Len(s) \in Nat /\ (s = <<>> <=> Len(s) = 0)
BY EmptySeq, LenProperties

\* The calls of Rio take what is there.
LEMMA RefillTakes ==
    ASSUME NEW S, NEW rio, NEW stream \in Seq(S)
    PROVE  /\ Refill(rio, stream) \in 0..Len(stream)
           /\ ~Blocks(rio, stream) /\ rio = <<>> => Refill(rio, stream) > 0
<1>1. Len(stream) \in Nat /\ (stream = <<>> <=> Len(stream) = 0)
  BY EmptyIsLength0
<1>2. /\ Min({RIO_BUFSIZE, Len(stream)}) \in {RIO_BUFSIZE, Len(stream)}
      /\ Min({RIO_BUFSIZE, Len(stream)}) <= Len(stream)
  <2> DEFINE a == RIO_BUFSIZE
             b == Len(stream)
  <2>1. a \in Int /\ b \in Int
    BY <1>1, RioAssumption
  <2> HIDE DEF a, b
  <2>2. Min({a, b}) \in {a, b} /\ Min({a, b}) <= b
    BY <2>1, MinOfTwo
  <2> QED BY <2>2 DEF a, b
<1> QED BY <1>1, <1>2, RioAssumption DEF Refill, Blocks

LEMMA WritableTakes ==
    ASSUME NEW S, NEW T, NEW out \in Seq(S), NEW stream \in Seq(T), Writable(out, stream) > 0
    PROVE  Writable(out, stream) \in 1..Len(out)
<1>1. Len(out) \in Nat /\ Len(stream) \in Nat
  BY LenProperties
<1>2. /\ Writable(out, stream) \in {Len(out), Capacity - Len(stream)}
      /\ Writable(out, stream) <= Len(out)
  <2> DEFINE a == Len(out)
             b == Capacity - Len(stream)
  <2>1. a \in Int /\ b \in Int
    BY <1>1, RioAssumption
  <2> HIDE DEF a, b
  <2>2. Min({a, b}) \in {a, b} /\ Min({a, b}) <= a
    BY <2>1, MinOfTwo
  <2> QED BY <2>2 DEF a, b, Writable
<1> QED BY <1>1, <1>2, RioAssumption

LEMMA CopiesTakes ==
    ASSUME NEW S, NEW T, NEW got \in Seq(S), NEW rio \in Seq(T), NEW n \in Nat,
           Len(got) + Len(rio) <= n
    PROVE  Copies(got, rio, n) = Len(rio)
<1>1. Len(got) \in Nat /\ Len(rio) \in Nat
  BY LenProperties
<1>2. /\ Min({n - Len(got), Len(rio)}) \in {n - Len(got), Len(rio)}
      /\ Min({n - Len(got), Len(rio)}) <= n - Len(got)
      /\ Min({n - Len(got), Len(rio)}) <= Len(rio)
  <2> DEFINE a == n - Len(got)
             b == Len(rio)
  <2>1. a \in Int /\ b \in Int
    BY <1>1
  <2> HIDE DEF a, b
  <2>2. Min({a, b}) \in {a, b} /\ Min({a, b}) <= a /\ Min({a, b}) <= b
    BY <2>1, MinOfTwo
  <2> QED BY <2>2 DEF a, b
<1> QED BY <1>1, <1>2 DEF Copies

\* rio_readlineb stops at a newline.
LEMMA LineCopiesTakes ==
    ASSUME NEW S, NEW line \in Seq(S), NEW rio \in Seq(S), Len(line) <= MAXLINE - 1
    PROVE  LineCopies(line, rio) \in 0..Len(rio) /\ Len(line) + LineCopies(line, rio) <= MAXLINE - 1
<1>1. Len(line) \in Nat /\ Len(rio) \in Nat
  BY LenProperties
<1> DEFINE C == {LineRoom(line), Len(rio)} \cup {i \in 1..Len(rio) : rio[i].ch = NewLine}
<1>2. C \in SUBSET Nat /\ C # {} /\ Len(rio) \in C /\ LineRoom(line) \in C
  BY <1>1, RioAssumption DEF LineRoom
<1> HIDE DEF C
<1>3. Min(C) \in C /\ \A m \in C : Min(C) <= m
  BY <1>2, MinOf
<1>4. Min(C) \in Nat /\ Min(C) <= Len(rio) /\ Min(C) <= LineRoom(line)
  BY <1>2, <1>3
<1> DEFINE k == Min(C)
<1>5. k \in 0..Len(rio) /\ Len(line) + k <= MAXLINE - 1
  <2> HIDE DEF k
  <2>1. k \in Nat /\ k <= Len(rio) /\ k <= MAXLINE - 1 - Len(line) /\ MAXLINE \in Nat
    BY <1>4, RioAssumption DEF k, LineRoom
  <2> QED BY <1>1, <2>1
<1> QED BY <1>5 DEF LineCopies, C
-----------------------------------------------------------------------------
(* A line on its way from the client's buffer to the server's              *)

LEMMA LengthOfFour ==
    ASSUME NEW S, NEW a \in Seq(S), NEW b \in Seq(S), NEW d \in Seq(S), NEW e \in Seq(S)
    PROVE  /\ ((a \o b) \o d) \o e \in Seq(S)
           /\ Len(a) \in Nat /\ Len(b) \in Nat /\ Len(d) \in Nat /\ Len(e) \in Nat
           /\ Len(((a \o b) \o d) \o e) = Len(a) + Len(b) + Len(d) + Len(e)
           /\ \A i \in 1..Len(a) : (((a \o b) \o d) \o e)[i] = a[i]
<1>1. Len(a) \in Nat /\ Len(b) \in Nat /\ Len(d) \in Nat /\ Len(e) \in Nat
  BY LenProperties
<1>2. /\ a \o b \in Seq(S) /\ Len(a \o b) = Len(a) + Len(b)
      /\ \A i \in 1..Len(a) : (a \o b)[i] = a[i]
  BY <1>1, ConcatProperties
<1> DEFINE ab == a \o b
<1> HIDE DEF ab
<1>3. /\ ab \o d \in Seq(S) /\ Len(ab \o d) = Len(ab) + Len(d)
      /\ \A i \in 1..Len(a) : (ab \o d)[i] = ab[i]
  BY <1>1, <1>2, ConcatProperties DEF ab
<1> DEFINE abd == ab \o d
<1> HIDE DEF abd
<1>4. /\ abd \o e \in Seq(S) /\ Len(abd \o e) = Len(abd) + Len(e)
      /\ \A i \in 1..Len(a) : (abd \o e)[i] = abd[i]
  BY <1>1, <1>2, <1>3, ConcatProperties DEF ab, abd
<1> QED BY <1>1, <1>2, <1>3, <1>4 DEF ab, abd

\* Joining byte sequences, as an operator the provers do not look into.
Joined(a, b) == a \o b

LEMMA JoinedAssociates ==
    ASSUME NEW S, NEW a \in Seq(S), NEW b \in Seq(S), NEW d \in Seq(S)
    PROVE  /\ Joined(a, b) \in Seq(S)
           /\ Joined(Joined(a, b), d) = Joined(a, Joined(b, d))
<1>1. a \o b \in Seq(S)
  BY ConcatProperties
<1>2. (a \o b) \o d = a \o (b \o d)
  OBVIOUS
<1> QED BY <1>1, <1>2, Zenon DEF Joined

\* rio_read and rio_readlineb: bytes go from the socket to the rio_t, and from
\* there to the line, and none is lost or overtakes another.
LEMMA BytesKeepTheirOrder ==
    ASSUME NEW S, NEW l \in Seq(S), NEW r \in Seq(S), NEW u \in Seq(S),
           NEW t \in 0..Len(u), NEW k \in 0..Len(r \o First(t, u))
    PROVE  LET filled == r \o First(t, u)
           IN  \A w : InOrder(l \o First(k, filled), Behind(k, filled), Behind(t, u), w)
                      = InOrder(l, r, u, w)
<1> DEFINE f == First(t, u)
           b == Behind(t, u)
           filled == r \o f
           x == First(k, filled)
           y == Behind(k, filled)
<1>1. f \in Seq(S) /\ b \in Seq(S) /\ f \o b = u
  BY Cut
<1>2. filled \in Seq(S) /\ k \in 0..Len(filled)
  BY <1>1, ConcatProperties
<1> HIDE DEF filled
<1>3. x \in Seq(S) /\ y \in Seq(S) /\ x \o y = filled
  BY <1>2, Cut
<1> HIDE DEF f, b, x, y
<1>4. Joined(f, b) = u /\ Joined(x, y) = Joined(r, f)
  BY <1>1, <1>3, Zenon DEF filled, Joined
<1>5. Joined(Joined(Joined(l, x), y), b) = Joined(Joined(l, r), u)
  <2>1. Joined(Joined(l, x), y) = Joined(l, Joined(x, y))
    BY <1>3, JoinedAssociates
  <2>2. Joined(l, Joined(r, f)) = Joined(Joined(l, r), f) /\ Joined(l, r) \in Seq(S)
    BY <1>1, JoinedAssociates
  <2>3. Joined(Joined(Joined(l, r), f), b) = Joined(Joined(l, r), Joined(f, b))
    BY <1>1, <2>2, JoinedAssociates
  <2> QED BY <1>4, <2>1, <2>2, <2>3
<1>6. ((l \o x) \o y) \o b = (l \o r) \o u
  BY <1>5, Zenon DEF Joined
<1> QED BY <1>6, Zenon DEF f, b, x, y, filled, InOrder

\* rio_readlineb stops at the end of a whole line and not before it.
LEMMA DoneIsWhole ==
    ASSUME NEW l \in Seq(Request), NEW r \in Seq(Request), NEW u \in Seq(Request),
           NEW w \in Seq(Request), NEW n, WholeLine(InOrder(l, r, u, w), n), LineDone(l)
    PROVE  r = <<>> /\ u = <<>> /\ w = <<>> /\ WholeLine(l, n)
<1> DEFINE s == InOrder(l, r, u, w)
<1>1. /\ Len(l) \in Nat /\ Len(r) \in Nat /\ Len(u) \in Nat /\ Len(w) \in Nat
      /\ Len(s) = Len(l) + Len(r) + Len(u) + Len(w)
      /\ \A i \in 1..Len(l) : s[i] = l[i]
  BY SMTT(30), LengthOfFour DEF InOrder
<1>2. Len(s) \in 1..(MAXLINE - 1) /\ MAXLINE \in Nat
  BY RioAssumption DEF WholeLine
<1>3. \A i \in 1..Len(s) : s[i].of = n /\ s[i].size = Len(s) /\ (s[i].ch = NewLine => i = Len(s))
  BY DEF WholeLine
<1> HIDE DEF s
<1>4. Len(s) = Len(l)
  <2>1. CASE LineRoom(l) = 0
    BY <1>1, <1>2, <2>1 DEF LineRoom
  <2>2. CASE l # <<>> /\ l[Len(l)].ch = NewLine
    <3>1. Len(l) \in 1..Len(l) /\ Len(l) \in 1..Len(s)
      BY <1>1, <2>2, EmptyIsLength0
    <3>2. s[Len(l)] = l[Len(l)]
      BY <1>1, <3>1
    <3> QED BY <1>3, <2>2, <3>1, <3>2
  <2> QED BY <2>1, <2>2 DEF LineDone
<1>5. r = <<>> /\ u = <<>> /\ w = <<>>
  <2>1. Len(r) = 0 /\ Len(u) = 0 /\ Len(w) = 0
    BY <1>1, <1>4
  <2> QED BY <2>1, EmptyIsLength0
<1>6. WholeLine(l, n)
  BY <1>1, <1>2, <1>3, <1>4 DEF WholeLine
<1> QED BY <1>5, <1>6

\* There is room for a whole line.
LEMMA WholeLineFits ==
    ASSUME NEW l \in Seq(Request), NEW r \in Seq(Request), NEW u \in Seq(Request),
           NEW w \in Seq(Request), NEW n, WholeLine(InOrder(l, r, u, w), n)
    PROVE  Len(l) <= MAXLINE - 1
<1> DEFINE s == InOrder(l, r, u, w)
<1>1. /\ Len(l) \in Nat /\ Len(r) \in Nat /\ Len(u) \in Nat /\ Len(w) \in Nat
      /\ Len(s) = Len(l) + Len(r) + Len(u) + Len(w)
  BY LengthOfFour DEF InOrder
<1>2. Len(s) \in 1..(MAXLINE - 1) /\ MAXLINE \in Nat
  BY RioAssumption DEF WholeLine
<1> HIDE DEF s
<1> QED BY <1>1, <1>2

\* What is written of a line is in the socket, and the line is still whole.
LEMMA WrittenIsWhole ==
    ASSUME NEW l \in Seq(Request), NEW r \in Seq(Request), NEW u \in Seq(Request),
           NEW w \in Seq(Request), NEW k \in 0..Len(w)
    PROVE  InOrder(l, r, u \o First(k, w), Behind(k, w)) = InOrder(l, r, u, w)
<1> DEFINE f == First(k, w)
           b == Behind(k, w)
           lr == Joined(l, r)
<1>1. f \in Seq(Request) /\ b \in Seq(Request) /\ f \o b = w
  BY Cut
<1> HIDE DEF f, b, lr
<1>2. lr \in Seq(Request) /\ Joined(f, b) = w
  BY <1>1, JoinedAssociates DEF lr, Joined
<1>3. Joined(lr, Joined(u, f)) = Joined(Joined(lr, u), f)
  BY <1>1, <1>2, JoinedAssociates
<1>4. Joined(lr, u) \in Seq(Request)
  BY <1>2, JoinedAssociates
<1>5. Joined(Joined(Joined(lr, u), f), b) = Joined(Joined(lr, u), Joined(f, b))
  BY <1>1, <1>4, JoinedAssociates
<1>6. Joined(Joined(lr, Joined(u, f)), b) = Joined(Joined(lr, u), w)
  BY <1>2, <1>3, <1>5
<1>7. ((l \o r) \o (u \o f)) \o b = ((l \o r) \o u) \o w
  BY <1>6, Zenon DEF Joined, lr
<1> QED BY <1>7 DEF f, b, InOrder

\* The bytes of an answer stay what they are when they move.
LEMMA AnswerMoves ==
    ASSUME NEW a \in Seq(Answer), NEW b \in Seq(Answer), NEW n, NEW k \in 0..Len(b),
           OfAnswer(a, n), OfAnswer(b, n)
    PROVE  /\ OfAnswer(Joined(a, First(k, b)), n) /\ OfAnswer(Behind(k, b), n)
           /\ Joined(a, First(k, b)) \in Seq(Answer) /\ Behind(k, b) \in Seq(Answer)
           /\ Len(Joined(a, First(k, b))) = Len(a) + k /\ Len(Behind(k, b)) = Len(b) - k
<1> DEFINE f == First(k, b)
           g == Behind(k, b)
<1>1. /\ f \in Seq(Answer) /\ Len(f) = k /\ g \in Seq(Answer) /\ Len(g) = Len(b) - k
      /\ \A i \in 1..k : f[i] = b[i]
      /\ \A i \in 1..(Len(b) - k) : g[i] = b[k + i]
  BY Cut
<1>2. Len(a) \in Nat /\ Len(b) \in Nat /\ k \in 0..Len(b)
  BY LenProperties
<1> HIDE DEF f, g
<1>3. /\ a \o f \in Seq(Answer) /\ Len(a \o f) = Len(a) + k
      /\ \A i \in 1..(Len(a) + k) : (a \o f)[i] = IF i <= Len(a) THEN a[i] ELSE f[i - Len(a)]
  BY ZenonT(40), <1>1, ConcatProperties
<1>4. OfAnswer(g, n)
  <2> SUFFICES ASSUME NEW i \in 1..Len(g) PROVE g[i].of = n /\ g[i].whole
    BY DEF OfAnswer
  <2>1. k + i \in 1..Len(b) /\ g[i] = b[k + i]
    BY <1>1, <1>2
  <2> QED BY <2>1 DEF OfAnswer
<1>5. OfAnswer(a \o f, n)
  <2> SUFFICES ASSUME NEW i \in 1..(Len(a) + k) PROVE (a \o f)[i].of = n /\ (a \o f)[i].whole
    BY <1>3 DEF OfAnswer
  <2>1. CASE i <= Len(a)
    <3>1. i \in 1..Len(a) /\ (a \o f)[i] = a[i]
      BY <1>2, <1>3, <2>1
    <3> QED BY <3>1 DEF OfAnswer
  <2>2. CASE ~(i <= Len(a))
    <3>1. i - Len(a) \in 1..k /\ i - Len(a) \in 1..Len(b) /\ (a \o f)[i] = f[i - Len(a)]
      BY <1>2, <1>3, <2>2
    <3>2. (a \o f)[i] = b[i - Len(a)]
      BY <1>1, <3>1
    <3> QED BY <3>1, <3>2 DEF OfAnswer
  <2> QED BY <2>1, <2>2
<1>6. OfAnswer(Joined(a, f), n) /\ Joined(a, f) \in Seq(Answer) /\ Len(Joined(a, f)) = Len(a) + k
  BY <1>3, <1>5, Zenon DEF Joined
<1> QED BY <1>1, <1>4, <1>6 DEF f, g

\* The server's answer to a whole line is an answer to it and to nothing else.
LEMMA AnswerToWholeLine ==
    ASSUME NEW l \in Seq(Request), NEW n, l # <<>>
    PROVE  /\ AnswerTo(l) \in Seq(Answer) /\ Len(AnswerTo(l)) = MAXLINE /\ AnswerTo(l) # <<>>
           /\ WholeLine(l, n) => OfAnswer(AnswerTo(l), n)
<1>1. Len(l) \in Nat \ {0} /\ l[1] \in Request /\ MAXLINE \in Nat \ {0}
  <2>1. Len(l) \in Nat \ {0}
    BY EmptyIsLength0
  <2>2. l[1] \in Request
    BY <2>1, ElementOfSeq
  <2> QED BY <2>1, <2>2, RioAssumption
<1> DEFINE whole == /\ Len(l) = l[1].size
                    /\ \A j \in 1..Len(l) : l[j].of = l[1].of
           a == [ch |-> "answer", of |-> l[1].of, whole |-> whole]
<1>2. a \in Answer
  BY <1>1 DEF Answer, Request
<1>3. AnswerTo(l) = [i \in 1..MAXLINE |-> a]
  BY DEF AnswerTo
<1>4. WholeLine(l, n) => a.of = n /\ a.whole
  BY <1>1 DEF WholeLine
<1> HIDE DEF a
<1>5. AnswerTo(l) \in Seq(Answer) /\ Len(AnswerTo(l)) = MAXLINE
  BY <1>1, <1>2, <1>3
<1>6. AnswerTo(l) # <<>>
  BY <1>1, <1>5, EmptyIsLength0
<1>7. WholeLine(l, n) => OfAnswer(AnswerTo(l), n)
  BY <1>3, <1>4, <1>5 DEF OfAnswer
<1> QED BY <1>5, <1>6, <1>7
-----------------------------------------------------------------------------
(* One connection at a time                                                *)

InStepAt(c) == InStep(client[c], thread[c], toServer[c], toClient[c], server # "dead")

\* How a client process may go on without its parent.
Goes(c) ==
    \/ client'[c].at = client[c].at
    \/ /\ client[c].at \in {"open", "next", "write", "read", "report"}
       /\ client'[c].at \notin {"none", "open"}
       /\ client[c].at = "report" => client'[c].at = "ended"
       /\ client'[c].at \in {"report", "ended"} => client[c].at = "report" \/ ~parent.reports

\* The connections of others are left alone.
Others(c) == \A d \in Peers \ {c} : /\ client'[d] = client[d] /\ thread'[d] = thread[d]
                                    /\ toServer'[d] = toServer[d] /\ toClient'[d] = toClient[d]

PeerMove(c) ==
    /\ TypeOK' /\ InStepAt(c)' /\ Others(c) /\ Goes(c)
    /\ server' \in {server, "dead"}
    /\ thread'[c].at = "none" => thread[c].at = "none"
    /\ thread[c].at = "none" => thread'[c].at = "none"
    /\ UNCHANGED <<backlog, parent, report>>

\* A server that dies makes no connection fall out of step.
LEMMA DyingKeepsStep ==
    ASSUME NEW x, NEW t, NEW up, NEW down, NEW alive \in BOOLEAN, NEW still \in BOOLEAN,
           still => alive, InStep(x, t, up, down, alive)
    PROVE  InStep(x, t, up, down, still)
BY DEF InStep

LEMMA OthersKeepStep ==
    ASSUME ConnectionsInStep, NEW c \in Peers, InStepAt(c)', Others(c),
           server' = "dead" \/ (server # "dead")
    PROVE  ConnectionsInStep'
<1> SUFFICES ASSUME NEW d \in Peers, d # c PROVE InStepAt(d)'
  BY DEF ConnectionsInStep, InStepAt
<1>1. InStep(client[d], thread[d], toServer[d], toClient[d], server # "dead")
  BY DEF ConnectionsInStep
<1>2. InStep(client[d], thread[d], toServer[d], toClient[d], server' # "dead")
  <2> DEFINE a == server # "dead"
             b == server' # "dead"
  <2>1. a \in BOOLEAN /\ b \in BOOLEAN /\ (b => a)
    OBVIOUS
  <2>2. InStep(client[d], thread[d], toServer[d], toClient[d], a)
    BY <1>1
  <2> HIDE DEF a, b
  <2>3. InStep(client[d], thread[d], toServer[d], toClient[d], b)
    BY <2>1, <2>2, DyingKeepsStep
  <2> QED BY <2>3 DEF b
<1>3. /\ client'[d] = client[d] /\ thread'[d] = thread[d]
      /\ toServer'[d] = toServer[d] /\ toClient'[d] = toClient[d]
  BY DEF Others
<1> QED BY <1>2, <1>3 DEF InStepAt

\* The parent waits for nobody who comes back, and reports for nobody twice.
LEMMA GoesKeepsReport ==
    ASSUME Inv, NEW c \in Peers, Others(c), Goes(c), UNCHANGED <<parent, report>>
    PROVE  ParentInv' /\ ReportInv'
<1>1. \A i \in 1..Len(Children) : Children[i] \in Peers
  BY DEF Peers, Forked
<1>2. \A d \in Peers : d # c => client'[d] = client[d]
  BY DEF Others
<1>3. ParentInv'
  <2>1. \A d \in Peers : client[d].at = "none" => client'[d].at = "none"
    BY <1>2 DEF Goes
  <2>2. \A d \in Peers : Closed(d) => Closed(d)'
    BY <1>2 DEF Goes, Closed
  <2>3. Users \subseteq Peers /\ Forked \subseteq Peers
    BY DEF Peers
  <2>4. parent' = parent
    OBVIOUS
  <2> QED BY <1>1, <2>1, <2>2, <2>3, <2>4 DEF Inv, ParentInv, Closed
<1>4. ReportInv'
  <2>1. \A d \in Peers : client[d].at \in {"report", "ended"} =>
                         client'[d].at \in {"report", "ended"}
    BY <1>2 DEF Goes
  <2>2. parent.reports => \A d \in Peers : client'[d].at \in {"report", "ended"} =>
                                           client[d].at \in {"report", "ended"}
    BY <1>2 DEF Goes
  <2>3. parent' = parent /\ report' = report
    OBVIOUS
  <2> QED BY <2>1, <2>2, <2>3 DEF Inv, ReportInv, Reported
<1> QED BY <1>3, <1>4

LEMMA PeerMoveKeeps ==
    ASSUME Inv, NEW c \in Peers, PeerMove(c)
    PROVE  Inv'
<1>1. ConnectionsInStep'
  <2>1. ConnectionsInStep /\ InStepAt(c)' /\ Others(c)
    BY DEF Inv, PeerMove
  <2>2. server' = "dead" \/ server # "dead"
    BY DEF PeerMove
  <2> QED BY <2>1, <2>2, OthersKeepStep
<1>2. ParentInv' /\ ReportInv'
  BY GoesKeepsReport DEF PeerMove
<1>3. BacklogOK'
  <2>1. \A i \in 1..Len(backlog) : backlog[i] \in Peers
    BY DEF Inv, TypeOK
  <2>2. backlog' = backlog
    BY DEF PeerMove
  <2>3. \A d \in Peers : /\ thread[d].at = "none" => thread'[d].at = "none"
                         /\ client[d].at \notin {"none", "open"} =>
                               client'[d].at \notin {"none", "open"}
    BY DEF PeerMove, Others, Goes
  <2> QED BY <2>1, <2>2, <2>3 DEF Inv, BacklogOK
<1>4. TypeOK'
  BY DEF PeerMove
<1> QED BY <1>1, <1>2, <1>3, <1>4 DEF Inv

\* The server's process ends, and nothing else happens.
LEMMA ServerDies ==
    ASSUME Inv, server' = "dead",
           UNCHANGED <<backlog, toServer, toClient, client, thread, parent, report>>
    PROVE  Inv'
<1>1. ConnectionsInStep'
  <2> SUFFICES ASSUME NEW c \in Peers PROVE InStepAt(c)'
    BY DEF ConnectionsInStep, InStepAt
  <2>1. InStep(client[c], thread[c], toServer[c], toClient[c], server # "dead")
    BY DEF Inv, ConnectionsInStep
  <2> DEFINE a == server # "dead"
  <2>2. a \in BOOLEAN /\ InStep(client[c], thread[c], toServer[c], toClient[c], a)
    BY <2>1
  <2> HIDE DEF a
  <2>3. InStep(client[c], thread[c], toServer[c], toClient[c], FALSE)
    BY <2>2, DyingKeepsStep
  <2> QED BY <2>3 DEF InStepAt
<1>2. TypeOK' /\ BacklogOK'
  BY DEF Inv, TypeOK, BacklogOK
<1>3. ParentInv' /\ ReportInv'
  BY DEF Inv, ParentInv, ReportInv, Closed, Reported
<1> QED BY <1>1, <1>2, <1>3 DEF Inv
-----------------------------------------------------------------------------
(* The steps of a client                                                   *)

\* y is what the client becomes, with the bytes up and down on the way.
ClientBecomes(c, y, up, down) ==
    /\ client' = [client EXCEPT ![c] = y]
    /\ toServer' = [toServer EXCEPT ![c] = up]
    /\ toClient' = [toClient EXCEPT ![c] = down]
    /\ UNCHANGED <<server, backlog, thread, parent, report>>

LEMMA ClientMoves ==
    ASSUME Inv, NEW c \in Peers, NEW y \in ClientStates, NEW up \in Seq(Request),
           NEW down \in Seq(Answer), ClientBecomes(c, y, up, down),
           InStep(y, thread[c], up, down, server # "dead"),
           \/ y.at = client[c].at
           \/ /\ client[c].at \in {"open", "next", "write", "read", "report"}
              /\ y.at \notin {"none", "open"}
              /\ client[c].at = "report" => y.at = "ended"
              /\ y.at \in {"report", "ended"} => client[c].at = "report" \/ ~parent.reports
    PROVE  Inv'
<1> USE DEF ClientBecomes
<1>1. /\ client \in [Peers -> ClientStates]
      /\ toServer \in [Peers -> Seq(Request)] /\ toClient \in [Peers -> Seq(Answer)]
  BY DEF Inv, TypeOK
<1>2. client'[c] = y /\ toServer'[c] = up /\ toClient'[c] = down /\ thread' = thread
  BY <1>1
<1>3. InStepAt(c)'
  BY <1>2 DEF InStepAt
<1>4. Others(c)
  BY <1>1 DEF Others
<1>5. Goes(c)
  BY <1>2 DEF Goes
<1>6. TypeOK'
  <2>1. /\ client' \in [Peers -> ClientStates]
        /\ toServer' \in [Peers -> Seq(Request)] /\ toClient' \in [Peers -> Seq(Answer)]
    BY <1>1
  <2> QED BY <2>1 DEF Inv, TypeOK
<1>7. PeerMove(c)
  BY <1>2, <1>3, <1>4, <1>5, <1>6 DEF PeerMove
<1> QED BY <1>7, PeerMoveKeeps

\* What there is to know of a connection.
LEMMA Connection ==
    ASSUME Inv, NEW c \in Peers
    PROVE  /\ client \in [Peers -> ClientStates] /\ client[c] \in ClientStates
           /\ thread \in [Peers -> ThreadStates] /\ thread[c] \in ThreadStates
           /\ toServer \in [Peers -> Seq(Request)] /\ toServer[c] \in Seq(Request)
           /\ toClient \in [Peers -> Seq(Answer)] /\ toClient[c] \in Seq(Answer)
           /\ InStep(client[c], thread[c], toServer[c], toClient[c], server # "dead")
BY DEF Inv, TypeOK, ConnectionsInStep

\* A client that only changes its place leaves the socket alone.
LEMMA ClientGoes ==
    ASSUME Inv, NEW c \in Peers, NEW at,
           at \in {"next", "report", "ended", "killed"},
           client' = [client EXCEPT ![c].at = at],
           UNCHANGED <<network, thread, parent, report>>,
           client[c].at \in {"open", "next", "write", "read", "report"},
           at = "next" => client[c].at = "read" /\ toClient[c] = <<>> /\ server = "dead",
           client[c].at = "report" => at = "ended",
           at \in {"report", "ended"} => client[c].at = "report" \/ ~parent.reports
    PROVE  Inv'
<1> DEFINE y == [client[c] EXCEPT !.at = at]
<1>1. /\ client \in [Peers -> ClientStates] /\ client[c] \in ClientStates
      /\ toServer \in [Peers -> Seq(Request)] /\ toServer[c] \in Seq(Request)
      /\ toClient \in [Peers -> Seq(Answer)] /\ toClient[c] \in Seq(Answer)
      /\ InStep(client[c], thread[c], toServer[c], toClient[c], server # "dead")
  BY Connection
<1>2. y \in ClientStates /\ y.at = at /\ y.out = client[c].out /\ y.rio = client[c].rio
      /\ y.got = client[c].got /\ y.sent = client[c].sent
  BY <1>1 DEF ClientStates
<1>3. ClientBecomes(c, y, toServer[c], toClient[c])
  BY <1>1 DEF ClientBecomes, network
<1> HIDE DEF y
<1>4. InStep(y, thread[c], toServer[c], toClient[c], server # "dead")
  <2>1. thread[c].at = "done" => at \in {"ended", "killed"}
    BY <1>1 DEF InStep
  <2>2. at # "write" /\ at # "read" /\ at # "none" /\ at # "open"
    OBVIOUS
  <2> QED BY <1>1, <1>2, <2>1, <2>2 DEF InStep
<1> QED BY <1>1, <1>2, <1>3, <1>4, ClientMoves

LEMMA ClientEndsKeeps ==
    ASSUME Inv, NEW c \in Peers, ConnectFails(c) \/ Broken(c) \/ CloseClient(c) \/ Abort(c)
    PROVE  Inv'
BY ClientGoes
DEF ConnectFails, Broken, CloseClient, Abort, ClientAt, network

LEMMA GoneIsDead ==
    ASSUME Inv, NEW c \in Peers, Gone(c), ~Closed(c)
    PROVE  server = "dead"
BY Connection DEF Gone, Closed, InStep

LEMMA ReadEofKeeps ==
    ASSUME Inv, NEW c \in Peers, ReadEof(c)
    PROVE  Inv'
<1>1. server = "dead"
  BY GoneIsDead DEF ReadEof, Closed, ClientAt
<1> QED BY <1>1, ClientGoes DEF ReadEof, ClientAt

\* fgets takes a line, or what its buffer holds of one.
LEMMA TypedIsLine ==
    ASSUME NEW input \in Seq(Chars), input # <<>>
    PROVE  /\ Typed(input) \in Seq(Chars) /\ Len(Typed(input)) \in 1..(MAXLINE - 1)
           /\ \A i \in 1..Len(Typed(input)) : Typed(input)[i] = NewLine => i = Len(Typed(input))
           /\ Behind(Len(Typed(input)), input) \in Seq(Chars)
<1> DEFINE C == {MAXLINE - 1, Len(input)} \cup {i \in 1..Len(input) : input[i] = NewLine}
           k == Min(C)
<1>1. Len(input) \in Nat \ {0} /\ MAXLINE \in Nat \ {0, 1}
  BY EmptyIsLength0, RioAssumption
<1>2. C \in SUBSET (Nat \ {0}) /\ C # {} /\ MAXLINE - 1 \in C /\ Len(input) \in C
      /\ \A i \in 1..Len(input) : input[i] = NewLine => i \in C
  BY <1>1
<1> HIDE DEF C
<1>3. k \in C /\ \A m \in C : k <= m
  BY <1>2, MinOf
<1> HIDE DEF k
<1>4. k \in 1..Len(input) /\ k <= MAXLINE - 1
  <2>1. k \in Nat \ {0} /\ k <= MAXLINE - 1 /\ k <= Len(input)
    BY <1>2, <1>3
  <2> QED BY <1>1, <2>1
<1>5. \A i \in 1..k : input[i] = NewLine => i = k
  <2> SUFFICES ASSUME NEW i \in 1..k, input[i] = NewLine PROVE i = k
    OBVIOUS
  <2>1. i \in C
    BY <1>1, <1>2, <1>4
  <2> QED BY <1>3, <1>4, <2>1
<1>6. Typed(input) = First(k, input)
  BY DEF Typed, C, k
<1>7. /\ First(k, input) \in Seq(Chars) /\ Len(First(k, input)) = k
      /\ \A i \in 1..k : First(k, input)[i] = input[i]
      /\ Behind(k, input) \in Seq(Chars)
  BY <1>1, <1>4, Cut
<1> QED BY <1>1, <1>4, <1>5, <1>6, <1>7

\* A client that sends a line has nothing else on the way.
LEMMA SendKeeps ==
    ASSUME Inv, NEW c \in Peers, NEW line \in Seq(Chars), NEW rest \in Seq(Chars),
           Len(line) \in 1..(MAXLINE - 1),
           \A i \in 1..Len(line) : line[i] = NewLine => i = Len(line),
           ClientAt(c, "next"), Send(c, line, rest),
           UNCHANGED <<network, thread, parent, report>>
    PROVE  Inv'
<1> DEFINE n == client[c].sent + 1
           out == [i \in 1..Len(line) |-> [ch |-> line[i], of |-> n, size |-> Len(line)]]
           y == [client[c] EXCEPT !.at = "write", !.input = rest, !.sent = n, !.got = <<>>,
                                  !.out = out]
<1>1. /\ client \in [Peers -> ClientStates] /\ client[c] \in ClientStates
      /\ thread[c] \in ThreadStates
      /\ toServer \in [Peers -> Seq(Request)] /\ toServer[c] \in Seq(Request)
      /\ toClient \in [Peers -> Seq(Answer)] /\ toClient[c] \in Seq(Answer)
      /\ InStep(client[c], thread[c], toServer[c], toClient[c], server # "dead")
      /\ client[c].at = "next"
  BY Connection DEF ClientAt
<1>2. Len(line) \in Nat \ {0} /\ n \in Nat
  BY <1>1, RioAssumption DEF ClientStates
<1>3. out \in Seq(Request) /\ Len(out) = Len(line) /\ WholeLine(out, n)
  <2>1. \A i \in 1..Len(line) : [ch |-> line[i], of |-> n, size |-> Len(line)] \in Request
    BY <1>2 DEF Request
  <2> DEFINE b(i) == [ch |-> line[i], of |-> n, size |-> Len(line)]
  <2>2. out = [i \in 1..Len(line) |-> b(i)]
    OBVIOUS
  <2>3. out \in Seq(Request) /\ Len(out) = Len(line)
    BY <1>2, <2>1
  <2>4. \A i \in 1..Len(line) : out[i].ch = line[i] /\ out[i].of = n /\ out[i].size = Len(line)
    OBVIOUS
  <2> HIDE DEF out
  <2> QED BY <2>3, <2>4 DEF WholeLine
<1>4. ClientBecomes(c, y, toServer[c], toClient[c])
  BY <1>1 DEF ClientBecomes, network, Send
<1> HIDE DEF out, n
<1>5. /\ y \in ClientStates /\ y.at = "write" /\ y.out = out /\ y.rio = client[c].rio
      /\ y.got = <<>> /\ y.sent = n
  <2>1. <<>> \in Seq(Answer)
    BY EmptySeq
  <2>2. client[c] \in ClientStates /\ out \in Seq(Request)
    BY <1>1, <1>3
  <2> QED BY <1>2, <2>1, <2>2 DEF ClientStates
<1> HIDE DEF y
<1>6. out # <<>> /\ Len(<<>>) = 0
  BY <1>2, <1>3, EmptyIsLength0
<1>7. (server # "dead") => Asked(y, thread[c], toServer[c], y.out)
  <2> SUFFICES ASSUME server # "dead" PROVE Asked(y, thread[c], toServer[c], y.out)
    OBVIOUS
  <2>1. toServer[c] = <<>> /\ Silent(thread[c])
    BY <1>1 DEF InStep
  <2>2. thread[c].at \in {"none", "readline"}
    BY <1>1, <2>1 DEF InStep, Silent, ThreadStates
  <2>3. InOrder(<<>>, <<>>, <<>>, out) = out
    BY <1>3, ConcatEmptySeq DEF InOrder
  <2> QED BY <1>3, <1>5, <2>1, <2>2, <2>3 DEF Asked, Silent
<1>8. InStep(y, thread[c], toServer[c], toClient[c], server # "dead")
  BY <1>1, <1>5, <1>6, <1>7, RioAssumption DEF InStep, OfAnswer
<1> QED BY <1>1, <1>4, <1>5, <1>8, ClientMoves

LEMMA FgetsKeeps ==
    ASSUME Inv, NEW c \in Peers, Fgets(c)
    PROVE  Inv'
<1> DEFINE input == client[c].input
           line == Typed(input)
<1>1. input \in Seq(Chars) /\ input # <<>>
  BY Connection DEF Fgets, ClientStates
<1>2. Send(c, line, Behind(Len(line), input)) /\ ClientAt(c, "next")
      /\ UNCHANGED <<network, thread, parent, report>>
  BY DEF Fgets
<1> HIDE DEF input
<1>3. /\ line \in Seq(Chars) /\ Len(line) \in 1..(MAXLINE - 1)
      /\ \A i \in 1..Len(line) : line[i] = NewLine => i = Len(line)
      /\ Behind(Len(line), input) \in Seq(Chars)
  BY <1>1, TypedIsLine
<1> HIDE DEF line
<1> QED BY <1>2, <1>3, SendKeeps

LEMMA OrderKeeps ==
    ASSUME Inv, NEW c \in Peers, Order(c)
    PROVE  Inv'
<1>1. client[c].input \in Seq(Chars) /\ client[c].input # <<>>
  BY Connection DEF Order, ClientStates
<1>2. Tail(client[c].input) \in Seq(Chars)
  BY <1>1, HeadTailProperties
<1>3. /\ OrderLine \in Seq(Chars) /\ Len(OrderLine) \in 1..(MAXLINE - 1)
      /\ \A i \in 1..Len(OrderLine) : OrderLine[i] = NewLine => i = Len(OrderLine)
  <2>1. OrderLine \in Seq(Chars) /\ Len(OrderLine) = 2 /\ OrderLine[1] = "x" /\ OrderLine[2] = NewLine
    BY DEF OrderLine, Chars
  <2>2. MAXLINE \in Nat /\ 2 < MAXLINE
    BY <2>1, RioAssumption, OrderLineAssumption
  <2> QED BY <2>1, <2>2 DEF NewLine
<1>4. /\ Send(c, OrderLine, Tail(client[c].input)) /\ ClientAt(c, "next")
      /\ UNCHANGED <<network, thread, parent, report>>
  BY DEF Order
<1> QED BY <1>2, <1>3, <1>4, SendKeeps

\* What a client writes is what the server will read.
LEMMA WriteOrderKeeps ==
    ASSUME Inv, NEW c \in Peers, WriteOrder(c)
    PROVE  Inv'
<1> DEFINE x == client[c]
           t == thread[c]
           up == toServer[c]
           down == toClient[c]
           k == Writable(x.out, up)
           f == First(k, x.out)
           b == Behind(k, x.out)
           at == IF b = <<>> THEN "read" ELSE "write"
           y == [x EXCEPT !.out = b, !.at = at]
<1>1. /\ client \in [Peers -> ClientStates] /\ x \in ClientStates /\ t \in ThreadStates
      /\ toServer \in [Peers -> Seq(Request)] /\ up \in Seq(Request)
      /\ toClient \in [Peers -> Seq(Answer)] /\ down \in Seq(Answer)
      /\ InStep(x, t, up, down, server # "dead")
  BY Connection
<1>2. x.at = "write" /\ server # "dead" /\ k > 0
  BY DEF WriteOrder, ClientAt, Gone
<1>3. x.out \in Seq(Request)
  BY <1>1 DEF ClientStates
<1>4. k \in 1..Len(x.out) /\ Len(x.out) \in Nat
  BY <1>1, <1>2, <1>3, WritableTakes, LenProperties
<1>5. f \in Seq(Request) /\ b \in Seq(Request)
  BY <1>3, <1>4, Cut
<1>6. ClientBecomes(c, y, up \o f, down)
  BY <1>1 DEF ClientBecomes, WriteOrder
<1> HIDE DEF k, f, b
<1>7. y \in ClientStates /\ y.at = at /\ y.out = b /\ y.rio = x.rio /\ y.got = x.got
      /\ y.sent = x.sent
  BY <1>1, <1>5 DEF ClientStates
<1>8. up \o f \in Seq(Request)
  BY <1>1, <1>5, ConcatProperties
<1>9. down = <<>> /\ x.got = <<>> /\ x.rio = <<>> /\ Asked(x, t, up, x.out)
  BY <1>1, <1>2 DEF InStep
<1>10. Asked(y, t, up \o f, b)
  <2>1. t.line \in Seq(Request) /\ t.rio \in Seq(Request)
    BY <1>1 DEF ThreadStates
  <2>2. InOrder(t.line, t.rio, up \o f, b) = InOrder(t.line, t.rio, up, x.out)
    <3>1. k \in 0..Len(x.out)
      BY <1>4
    <3> QED BY <1>1, <1>3, <2>1, <3>1, WrittenIsWhole DEF f, b
  <2> QED BY <1>7, <1>9, <2>2 DEF Asked
<1> HIDE DEF x, y, t, up, down
<1>11. InStep(y, t, up \o f, down, server # "dead")
  <2>1. y.at \notin {"none", "open", "next", "ended", "killed"} /\ t.at # "done"
    BY <1>7, <1>9 DEF Asked
  <2>2. OfAnswer(down, y.sent) /\ Len(y.got) = 0 /\ Len(down) = 0 /\ MAXLINE \in Nat \ {0}
    BY <1>7, <1>9, RioAssumption DEF OfAnswer
  <2> QED BY <1>1, <1>5, <1>7, <1>9, <1>10, <2>1, <2>2 DEF InStep
<1>12. y.at = x.at \/ (x.at = "write" /\ y.at = "read")
  BY <1>2, <1>7
<1> QED BY <1>1, <1>5, <1>6, <1>7, <1>8, <1>11, <1>12, ClientMoves DEF x, t, down

LEMMA WriteOrderLostKeeps ==
    ASSUME Inv, NEW c \in Peers, WriteOrderLost(c)
    PROVE  Inv'
<1> DEFINE x == client[c]
           y == [x EXCEPT !.out = <<>>, !.at = "read"]
<1>1. /\ client \in [Peers -> ClientStates] /\ x \in ClientStates
      /\ toServer \in [Peers -> Seq(Request)] /\ toServer[c] \in Seq(Request)
      /\ toClient \in [Peers -> Seq(Answer)] /\ toClient[c] \in Seq(Answer)
      /\ InStep(x, thread[c], toServer[c], toClient[c], server # "dead")
  BY Connection
<1>2. x.at = "write" /\ server = "dead"
  BY GoneIsDead DEF WriteOrderLost, ClientAt, Closed
<1>3. ClientBecomes(c, y, toServer[c], toClient[c])
  BY <1>1 DEF ClientBecomes, WriteOrderLost, network
<1>4. y \in ClientStates /\ y.at = "read" /\ y.out = <<>> /\ y.rio = x.rio /\ y.got = x.got
      /\ y.sent = x.sent
  <2>1. <<>> \in Seq(Request)
    BY EmptySeq
  <2> QED BY <1>1, <2>1 DEF ClientStates
<1>5. toClient[c] = <<>> /\ x.got = <<>> /\ x.rio = <<>> /\ thread[c].at # "done"
      /\ (thread[c].at = "none" => Silent(thread[c]))
      /\ (thread[c].at = "writen" <=> thread[c].out # <<>>)
      /\ Len(thread[c].line) <= MAXLINE - 1
  BY <1>1, <1>2 DEF InStep
<1> HIDE DEF x, y
<1>6. InStep(y, thread[c], toServer[c], toClient[c], server # "dead")
  <2>1. OfAnswer(toClient[c], y.sent) /\ OfAnswer(y.got, y.sent) /\ Len(y.got) = 0
        /\ Len(toClient[c]) = 0 /\ MAXLINE \in Nat \ {0}
    BY <1>4, <1>5, RioAssumption DEF OfAnswer
  <2> QED BY <1>2, <1>4, <1>5, <2>1 DEF InStep
<1> QED BY <1>1, <1>2, <1>3, <1>4, <1>6, ClientMoves DEF x

\* One round of rio_readnb moves bytes of the answer to the client's buffer,
\* and leaves none of them in the rio_t.
LEMMA AnswerIsTaken ==
    ASSUME NEW got \in Seq(Answer), NEW down \in Seq(Answer), NEW n,
           OfAnswer(got, n), OfAnswer(down, n), down # <<>>, Len(got) + Len(down) <= MAXLINE
    PROVE  LET r == Refill(<<>>, down)
               rio == <<>> \o First(r, down)
               k == Copies(got, rio, MAXLINE)
           IN  /\ r \in 1..Len(down) /\ Behind(k, rio) = <<>>
               /\ OfAnswer(got \o First(k, rio), n) /\ OfAnswer(Behind(r, down), n)
               /\ got \o First(k, rio) \in Seq(Answer) /\ Behind(r, down) \in Seq(Answer)
               /\ Len(got \o First(k, rio)) = Len(got) + r
               /\ Len(Behind(r, down)) = Len(down) - r
<1> DEFINE r == Refill(<<>>, down)
           f == First(r, down)
           rio == <<>> \o f
           k == Copies(got, rio, MAXLINE)
<1>1. Len(got) \in Nat /\ Len(down) \in Nat /\ MAXLINE \in Nat
  BY LenProperties, RioAssumption
<1>2. r \in 1..Len(down)
  <2>1. ~Blocks(<<>>, down)
    BY DEF Blocks
  <2>2. r \in 0..Len(down) /\ r > 0
    <3> DEFINE e == <<>>
    <3>1. e = <<>> /\ ~Blocks(e, down)
      BY <2>1
    <3> HIDE DEF e
    <3>2. Refill(e, down) \in 0..Len(down) /\ Refill(e, down) > 0
      BY <3>1, RefillTakes
    <3> QED BY <3>2 DEF e
  <2> QED BY <1>1, <2>2
<1> HIDE DEF r
<1>3. f \in Seq(Answer) /\ Len(f) = r
  <2>1. r \in 0..Len(down)
    BY <1>2
  <2> QED BY <2>1, Cut
<1>4. rio = f
  BY <1>3, ConcatEmptySeq
<1>5. k = Len(f)
  <2> HIDE DEF f
  <2>1. Len(got) + Len(f) <= MAXLINE
    BY <1>1, <1>2, <1>3
  <2>2. Copies(got, f, MAXLINE) = Len(f)
    <3> DEFINE m == MAXLINE
    <3>1. m \in Nat /\ Len(got) + Len(f) <= m
      BY <1>1, <2>1
    <3> HIDE DEF m
    <3>2. Copies(got, f, m) = Len(f)
      BY <1>3, <3>1, CopiesTakes
    <3> QED BY <3>2 DEF m
  <2> QED BY <1>4, <2>2
<1> HIDE DEF k, rio
<1>6. First(k, rio) = f /\ Behind(k, rio) = <<>>
  <2>1. First(Len(f), f) = f /\ Behind(Len(f), f) = <<>>
    BY <1>3, FirstAll
  <2> QED BY <1>4, <1>5, <2>1
<1>7. /\ OfAnswer(got \o f, n) /\ OfAnswer(Behind(r, down), n)
      /\ got \o f \in Seq(Answer) /\ Behind(r, down) \in Seq(Answer)
      /\ Len(got \o f) = Len(got) + r /\ Len(Behind(r, down)) = Len(down) - r
  <2>1. r \in 0..Len(down)
    BY <1>1, <1>2
  <2>2. /\ OfAnswer(Joined(got, f), n) /\ OfAnswer(Behind(r, down), n)
        /\ Joined(got, f) \in Seq(Answer) /\ Behind(r, down) \in Seq(Answer)
        /\ Len(Joined(got, f)) = Len(got) + r /\ Len(Behind(r, down)) = Len(down) - r
    BY <2>1, AnswerMoves
  <2> QED BY <2>2, Zenon DEF Joined
<1> QED BY <1>2, <1>6, <1>7 DEF k, rio, r

\* r of d bytes on the way are added to the g bytes that have been read.
LEMMA CountsAfterReading ==
    ASSUME NEW g \in Nat, NEW d \in Nat, NEW r \in 1..d, NEW M \in Nat, g + d <= M
    PROVE  /\ d # 0 /\ g + r <= M /\ (g + r) + (d - r) <= M
           /\ g + r = M => d - r = 0
           /\ g + r # M => g + r < M
           /\ \A n \in Nat : g + d + n = M => (g + r) + (d - r) + n = M /\ (g + r = M => n = 0)
OBVIOUS

\* A client that has taken some bytes of its answer is still in step.
LEMMA ReadingKeepsStep ==
    ASSUME NEW x \in ClientStates, NEW t \in ThreadStates, NEW up, NEW down \in Seq(Answer),
           NEW alive \in BOOLEAN, NEW y, NEW rest \in Seq(Answer), NEW now \in Seq(Answer),
           InStep(x, t, up, down, alive), x.at = "read",
           y.out = x.out, y.rio = <<>>, y.sent = x.sent, y.got = now,
           y.at = IF Len(now) = MAXLINE THEN "next" ELSE "read",
           OfAnswer(now, x.sent), OfAnswer(rest, x.sent),
           \E r \in 1..Len(down) : Len(now) = Len(x.got) + r /\ Len(rest) = Len(down) - r
    PROVE  InStep(y, t, up, rest, alive)
<1> DEFINE out == t.out
           got == x.got
<1>1. out \in Seq(Answer) /\ got \in Seq(Answer)
  BY DEF ClientStates, ThreadStates
<1>2. PICK r \in 1..Len(down) : Len(now) = Len(got) + r /\ Len(rest) = Len(down) - r
  OBVIOUS
<1>3. /\ x.out = <<>> /\ Len(got) + Len(down) <= MAXLINE
      /\ t.at # "done" /\ (t.at = "none" => Silent(t)) /\ (t.at = "writen" <=> out # <<>>)
      /\ alive => \/ down = <<>>
                  \/ /\ t.line = <<>> /\ t.rio = <<>> /\ up = <<>>
                     /\ t.at \in {"readline", "writen"} /\ OfAnswer(out, x.sent)
                     /\ Len(got) + Len(down) + Len(out) = MAXLINE
  BY DEF InStep, Answered
<1> HIDE DEF out, got
<1>4. /\ down # <<>> /\ Len(now) <= MAXLINE /\ Len(now) + Len(rest) <= MAXLINE
      /\ Len(now) = MAXLINE => rest = <<>>
      /\ Len(now) # MAXLINE => Len(now) < MAXLINE
      /\ \A n \in Nat : Len(got) + Len(down) + n = MAXLINE =>
                         /\ Len(now) + Len(rest) + n = MAXLINE
                         /\ Len(now) = MAXLINE => n = 0
  <2> DEFINE g == Len(got)
             d == Len(down)
             M == MAXLINE
             a == Len(now)
             b == Len(rest)
  <2>1. g \in Nat /\ d \in Nat /\ r \in 1..d /\ M \in Nat /\ g + d <= M
    BY <1>1, <1>3, LenProperties, RioAssumption
  <2>2. a = g + r /\ b = d - r
    BY <1>2
  <2>3. (rest = <<>> <=> b = 0) /\ (down = <<>> <=> d = 0)
    BY EmptyIsLength0
  <2> HIDE DEF g, d, M, a, b
  <2>4. /\ d # 0 /\ a <= M /\ a + b <= M /\ (a = M => b = 0) /\ (a # M => a < M)
        /\ \A n \in Nat : g + d + n = M => a + b + n = M /\ (a = M => n = 0)
    BY <2>1, <2>2, CountsAfterReading
  <2>5. /\ down # <<>> /\ a <= M /\ a + b <= M /\ (a = M => rest = <<>>) /\ (a # M => a < M)
        /\ \A n \in Nat : g + d + n = M => a + b + n = M /\ (a = M => n = 0)
    BY <2>3, <2>4
  <2> QED BY <2>5 DEF g, d, M, a, b
<1>5. Len(out) \in Nat /\ (out = <<>> <=> Len(out) = 0)
  BY <1>1, EmptyIsLength0
<1>6. alive => /\ t.line = <<>> /\ t.rio = <<>> /\ up = <<>>
               /\ t.at \in {"readline", "writen"} /\ OfAnswer(out, x.sent)
               /\ Len(now) + Len(rest) + Len(out) = MAXLINE
               /\ Len(now) = MAXLINE => out = <<>>
  BY <1>3, <1>4, <1>5
<1>7. CASE Len(now) = MAXLINE
  BY <1>3, <1>4, <1>6, <1>7 DEF InStep, Silent, out
<1>8. CASE Len(now) # MAXLINE
  <2>1. alive => Answered(y, t, up, rest)
    BY <1>6 DEF Answered, out
  <2> QED BY <1>3, <1>4, <1>8, <2>1 DEF InStep, out
<1> QED BY <1>7, <1>8

LEMMA ReadAnswerKeeps ==
    ASSUME Inv, NEW c \in Peers, ReadAnswer(c)
    PROVE  Inv'
<1> DEFINE x == client[c]
           down == toClient[c]
           r == Refill(x.rio, down)
           rio == x.rio \o First(r, down)
           k == Copies(x.got, rio, MAXLINE)
           got == x.got \o First(k, rio)
           left == Behind(k, rio)
           rest == Behind(r, down)
           at == IF Len(got) = MAXLINE THEN "next" ELSE "read"
           y == [x EXCEPT !.rio = left, !.got = got, !.at = at]
<1>1. /\ client \in [Peers -> ClientStates] /\ x \in ClientStates
      /\ thread[c] \in ThreadStates
      /\ toServer \in [Peers -> Seq(Request)] /\ toServer[c] \in Seq(Request)
      /\ toClient \in [Peers -> Seq(Answer)] /\ down \in Seq(Answer)
      /\ InStep(x, thread[c], toServer[c], down, server # "dead")
  BY Connection
<1>2. x.at = "read" /\ ~Blocks(x.rio, down)
  BY DEF ReadAnswer, ClientAt
<1>3. ClientBecomes(c, y, toServer[c], rest)
  BY <1>1 DEF ClientBecomes, ReadAnswer
<1> HIDE DEF x, down
<1>4. x.got \in Seq(Answer)
  BY <1>1 DEF ClientStates
<1>5. /\ x.rio = <<>> /\ OfAnswer(x.got, x.sent) /\ OfAnswer(down, x.sent) /\ down # <<>>
      /\ Len(x.got) + Len(down) <= MAXLINE
  BY <1>1, <1>2 DEF InStep, Blocks
<1>6. /\ r \in 1..Len(down) /\ left = <<>>
      /\ OfAnswer(got, x.sent) /\ OfAnswer(rest, x.sent)
      /\ got \in Seq(Answer) /\ rest \in Seq(Answer)
      /\ Len(got) = Len(x.got) + r /\ Len(rest) = Len(down) - r
  <2> DEFINE g == x.got
             n == x.sent
  <2>1. g \in Seq(Answer) /\ OfAnswer(g, n) /\ OfAnswer(down, n) /\ Len(g) + Len(down) <= MAXLINE
    BY <1>4, <1>5
  <2> HIDE DEF g, n
  <2> DEFINE r0 == Refill(<<>>, down)
             rio0 == <<>> \o First(r0, down)
             k0 == Copies(g, rio0, MAXLINE)
  <2>2. /\ r0 \in 1..Len(down) /\ Behind(k0, rio0) = <<>>
        /\ OfAnswer(g \o First(k0, rio0), n) /\ OfAnswer(Behind(r0, down), n)
        /\ g \o First(k0, rio0) \in Seq(Answer) /\ Behind(r0, down) \in Seq(Answer)
        /\ Len(g \o First(k0, rio0)) = Len(g) + r0
        /\ Len(Behind(r0, down)) = Len(down) - r0
    BY <1>1, <1>5, <2>1, AnswerIsTaken
  <2>3. r = r0
    BY <1>5
  <2>4. rio = rio0
    BY <1>5, <2>3
  <2>5. k = k0
    BY <2>4 DEF g
  <2> HIDE DEF r0, rio0, k0, r, rio, k
  <2> QED BY <2>2, <2>3, <2>4, <2>5 DEF g, n
<1> HIDE DEF r, k, rio, got, left, rest
<1>7. y \in ClientStates /\ y.at = at /\ y.out = x.out /\ y.rio = <<>> /\ y.got = got
      /\ y.sent = x.sent
  <2>1. <<>> \in Seq(Answer)
    BY EmptySeq
  <2> QED BY <1>1, <1>6, <2>1 DEF ClientStates
<1> HIDE DEF y
<1>8. InStep(y, thread[c], toServer[c], rest, server # "dead")
  BY <1>1, <1>2, <1>6, <1>7, ReadingKeepsStep
<1>9. y.at = x.at \/ (x.at = "read" /\ y.at = "next")
  BY <1>2, <1>7
<1> QED BY <1>1, <1>3, <1>6, <1>7, <1>8, <1>9, ClientMoves DEF x
-----------------------------------------------------------------------------
(* The steps of a server thread                                            *)

\* t is what the thread becomes, with the bytes up and down on the way.
ThreadBecomes(c, t, up, down) ==
    /\ thread' = [thread EXCEPT ![c] = t]
    /\ toServer' = [toServer EXCEPT ![c] = up]
    /\ toClient' = [toClient EXCEPT ![c] = down]
    /\ UNCHANGED <<server, backlog, client, parent, report>>

LEMMA ThreadMoves ==
    ASSUME Inv, NEW c \in Peers, NEW t \in ThreadStates, NEW up \in Seq(Request),
           NEW down \in Seq(Answer), ThreadBecomes(c, t, up, down),
           InStep(client[c], t, up, down, server # "dead"),
           t.at # "none", thread[c].at # "none"
    PROVE  Inv'
<1> USE DEF ThreadBecomes
<1>1. /\ thread \in [Peers -> ThreadStates]
      /\ toServer \in [Peers -> Seq(Request)] /\ toClient \in [Peers -> Seq(Answer)]
  BY Connection
<1>2. thread'[c] = t /\ toServer'[c] = up /\ toClient'[c] = down /\ client' = client
  BY <1>1
<1>3. InStepAt(c)'
  BY <1>2 DEF InStepAt
<1>4. Others(c)
  BY <1>1 DEF Others
<1>5. Goes(c)
  BY <1>2 DEF Goes
<1>6. TypeOK'
  <2>1. /\ thread' \in [Peers -> ThreadStates]
        /\ toServer' \in [Peers -> Seq(Request)] /\ toClient' \in [Peers -> Seq(Answer)]
    BY <1>1
  <2> QED BY <2>1 DEF Inv, TypeOK
<1>7. PeerMove(c)
  BY <1>2, <1>3, <1>4, <1>5, <1>6 DEF PeerMove
<1> QED BY <1>7, PeerMoveKeeps

\* A client that has closed its end asks nothing of the other.
LEMMA ClosedIsInStep ==
    ASSUME NEW x, NEW t, NEW up, NEW down, NEW alive \in BOOLEAN,
           NEW t2, NEW up2, NEW down2,
           InStep(x, t, up, down, alive), x.at \in {"ended", "killed"},
           t2.at # "none", t2.at = "writen" <=> t2.out # <<>>, Len(t2.line) <= MAXLINE - 1
    PROVE  InStep(x, t2, up2, down2, alive)
BY DEF InStep

LEMMA WriteAnswerLostKeeps ==
    ASSUME Inv, NEW c \in Peers, WriteAnswerLost(c)
    PROVE  Inv'
<1> DEFINE t == thread[c]
           t2 == [t EXCEPT !.out = <<>>, !.at = "readline"]
           down == First(1, t.out)
<1>1. /\ client[c] \in ClientStates
      /\ thread \in [Peers -> ThreadStates] /\ t \in ThreadStates
      /\ toServer \in [Peers -> Seq(Request)] /\ toServer[c] \in Seq(Request)
      /\ toClient \in [Peers -> Seq(Answer)]
      /\ InStep(client[c], t, toServer[c], toClient[c], server # "dead")
  BY Connection
<1>2. t.at = "writen" /\ client[c].at \in {"ended", "killed"}
  BY DEF WriteAnswerLost, ThreadAt, Closed
<1>3. ThreadBecomes(c, t2, toServer[c], down)
  BY <1>1 DEF ThreadBecomes, WriteAnswerLost
<1> HIDE DEF t
<1>4. t2 \in ThreadStates /\ t2.at = "readline" /\ t2.out = <<>> /\ t2.line = t.line
      /\ Len(t.line) <= MAXLINE - 1
  <2>1. <<>> \in Seq(Answer)
    BY EmptySeq
  <2>2. Len(t.line) <= MAXLINE - 1
    BY <1>1 DEF InStep
  <2> QED BY <1>1, <2>1, <2>2 DEF ThreadStates
<1>5. down \in Seq(Answer)
  <2> DEFINE out == t.out
  <2>1. out \in Seq(Answer) /\ out # <<>>
    BY <1>1, <1>2 DEF ThreadStates, InStep
  <2> HIDE DEF out
  <2>2. Len(out) \in Nat \ {0}
    BY <2>1, EmptyIsLength0
  <2>3. 1 \in 0..Len(out)
    BY <2>2
  <2>4. First(1, out) \in Seq(Answer)
    BY <2>1, <2>3, Cut
  <2> QED BY <2>4 DEF out
<1> HIDE DEF t2, down
<1>6. InStep(client[c], t2, toServer[c], down, server # "dead")
  <2> DEFINE alive == server # "dead"
  <2>1. alive \in BOOLEAN /\ InStep(client[c], t, toServer[c], toClient[c], alive)
    BY <1>1
  <2> HIDE DEF alive
  <2>2. InStep(client[c], t2, toServer[c], down, alive)
    BY <1>2, <1>4, <2>1, ClosedIsInStep
  <2> QED BY <2>2 DEF alive
<1> QED BY <1>1, <1>2, <1>3, <1>4, <1>5, <1>6, ThreadMoves DEF t

LEMMA ReadLineEofKeeps ==
    ASSUME Inv, NEW c \in Peers, ReadLineEof(c)
    PROVE  Inv'
<1> DEFINE t == thread[c]
           t2 == IF t.line = <<>> THEN [t EXCEPT !.at = "done"]
                 ELSE [t EXCEPT !.line = <<>>, !.out = AnswerTo(t.line), !.at = "writen"]
<1>1. /\ client[c] \in ClientStates
      /\ thread \in [Peers -> ThreadStates] /\ t \in ThreadStates
      /\ toServer \in [Peers -> Seq(Request)] /\ toServer[c] \in Seq(Request)
      /\ toClient \in [Peers -> Seq(Answer)] /\ toClient[c] \in Seq(Answer)
      /\ InStep(client[c], t, toServer[c], toClient[c], server # "dead")
  BY Connection
<1>2. t.at = "readline" /\ client[c].at \in {"ended", "killed"}
  BY DEF ReadLineEof, ThreadAt, Closed
<1>3. ThreadBecomes(c, t2, toServer[c], toClient[c])
  BY <1>1 DEF ThreadBecomes, ReadLineEof, network
<1> HIDE DEF t
<1>4. t2 \in ThreadStates /\ t2.at # "none" /\ (t2.at = "writen" <=> t2.out # <<>>)
      /\ t2.line = <<>>
  <2>1. CASE t.line = <<>>
    <3>1. t2 = [t EXCEPT !.at = "done"] /\ t.out = <<>>
      BY <1>1, <1>2, <2>1 DEF InStep
    <3> QED BY <1>1, <3>1 DEF ThreadStates
  <2>2. CASE t.line # <<>>
    <3> DEFINE line == t.line
               answer == AnswerTo(line)
    <3>1. line \in Seq(Request) /\ line # <<>>
      BY <1>1, <2>2 DEF ThreadStates
    <3>2. t2 = [t EXCEPT !.line = <<>>, !.out = answer, !.at = "writen"]
      BY <2>2
    <3> HIDE DEF line
    <3>3. answer \in Seq(Answer) /\ answer # <<>>
      BY <3>1, AnswerToWholeLine
    <3> HIDE DEF answer, t2
    <3>4. <<>> \in Seq(Request)
      BY EmptySeq
    <3> QED BY <1>1, <3>2, <3>3, <3>4 DEF ThreadStates
  <2> QED BY <2>1, <2>2
<1> HIDE DEF t2
<1>5. InStep(client[c], t2, toServer[c], toClient[c], server # "dead")
  <2> DEFINE alive == server # "dead"
  <2>1. alive \in BOOLEAN /\ InStep(client[c], t, toServer[c], toClient[c], alive)
    BY <1>1
  <2> HIDE DEF alive
  <2>2. Len(t2.line) <= MAXLINE - 1
    BY <1>4, RioAssumption
  <2>3. InStep(client[c], t2, toServer[c], toClient[c], alive)
    BY <1>2, <1>4, <2>1, <2>2, ClosedIsInStep
  <2> QED BY <2>3 DEF alive
<1> QED BY <1>1, <1>2, <1>3, <1>4, <1>5, ThreadMoves DEF t

\* An answer is written to a client that reads it.
LEMMA WritingKeepsStep ==
    ASSUME NEW x \in ClientStates, NEW t \in ThreadStates, NEW up, NEW down \in Seq(Answer),
           InStep(x, t, up, down, TRUE), t.at = "writen", x.at \notin {"ended", "killed"},
           NEW t2, NEW down2 \in Seq(Answer), NEW out2 \in Seq(Answer), NEW k \in 1..Len(t.out),
           t2.line = t.line, t2.rio = t.rio, t2.out = out2,
           t2.at = IF out2 = <<>> THEN "readline" ELSE "writen",
           \A n : OfAnswer(down, n) /\ OfAnswer(t.out, n) => OfAnswer(down2, n) /\ OfAnswer(out2, n),
           Len(down2) = Len(down) + k, Len(out2) = Len(t.out) - k
    PROVE  InStep(x, t2, up, down2, TRUE)
<1> DEFINE out == t.out
           got == x.got
<1>1. out \in Seq(Answer) /\ got \in Seq(Answer)
  BY DEF ClientStates, ThreadStates
<1>2. out # <<>> /\ x.at \in {"read", "report"}
  BY DEF InStep, Asked, Silent, out, ClientStates
<1>3. CASE x.at = "report"
  BY <1>3 DEF InStep
<1>4. CASE x.at = "read"
  <2>1. /\ t.line = <<>> /\ t.rio = <<>> /\ up = <<>>
        /\ OfAnswer(down, x.sent) /\ OfAnswer(out, x.sent)
        /\ Len(got) + Len(down) + Len(out) = MAXLINE /\ Len(got) < MAXLINE
    BY <1>2, <1>4 DEF InStep, Asked, Answered, out, got
  <2>2. k \in 1..Len(out) /\ Len(out2) = Len(out) - k
    BY DEF out
  <2> HIDE DEF out, got
  <2>3. Len(got) + Len(down2) + Len(out2) = MAXLINE /\ Len(got) + Len(down2) <= MAXLINE
    <3> DEFINE g == Len(got)
               d == Len(down)
               o == Len(out)
               d2 == Len(down2)
               o2 == Len(out2)
               M == MAXLINE
    <3>1. g \in Nat /\ d \in Nat /\ o \in Nat /\ d2 \in Nat /\ o2 \in Nat /\ M \in Nat
      BY <1>1, LenProperties, RioAssumption
    <3>2. g + d + o = M /\ d2 = d + k /\ o2 = o - k /\ k \in 1..o
      BY <2>1, <2>2
    <3> HIDE DEF g, d, o, d2, o2, M
    <3>3. g + d2 + o2 = M /\ g + d2 <= M
      BY <3>1, <3>2
    <3> QED BY <3>3 DEF g, d, o, d2, o2, M
  <2>4. OfAnswer(down2, x.sent) /\ OfAnswer(out2, x.sent)
    BY <2>1 DEF out
  <2>5. Answered(x, t2, up, down2)
    BY <2>1, <2>3, <2>4 DEF Answered, got
  <2> QED BY <1>4, <2>1, <2>3, <2>4, <2>5 DEF InStep, got
<1> QED BY <1>2, <1>3, <1>4

LEMMA WriteAnswerKeeps ==
    ASSUME Inv, NEW c \in Peers, WriteAnswer(c)
    PROVE  Inv'
<1> DEFINE t == thread[c]
           down == toClient[c]
           k == Writable(t.out, down)
           f == First(k, t.out)
           out2 == Behind(k, t.out)
           at == IF out2 = <<>> THEN "readline" ELSE "writen"
           t2 == [t EXCEPT !.out = out2, !.at = at]
<1>1. /\ client[c] \in ClientStates
      /\ thread \in [Peers -> ThreadStates] /\ t \in ThreadStates
      /\ toServer \in [Peers -> Seq(Request)] /\ toServer[c] \in Seq(Request)
      /\ toClient \in [Peers -> Seq(Answer)] /\ down \in Seq(Answer)
      /\ InStep(client[c], t, toServer[c], down, server # "dead")
  BY Connection
<1>2. t.at = "writen" /\ client[c].at \notin {"ended", "killed"} /\ server # "dead" /\ k > 0
  BY DEF WriteAnswer, ThreadAt, Closed
<1>3. ThreadBecomes(c, t2, toServer[c], Joined(down, f))
  <2>1. ThreadBecomes(c, t2, toServer[c], down \o f)
    BY <1>1 DEF ThreadBecomes, WriteAnswer
  <2> QED BY <2>1, Zenon DEF Joined
<1> HIDE DEF t, down
<1>4. t.out \in Seq(Answer)
  BY <1>1 DEF ThreadStates
<1>5. k \in 1..Len(t.out) /\ Len(t.out) \in Nat
  BY <1>1, <1>2, <1>4, WritableTakes, LenProperties
<1> HIDE DEF k
<1>6. /\ \A n : OfAnswer(down, n) /\ OfAnswer(t.out, n) =>
                OfAnswer(Joined(down, f), n) /\ OfAnswer(out2, n)
      /\ Joined(down, f) \in Seq(Answer) /\ out2 \in Seq(Answer)
      /\ Len(Joined(down, f)) = Len(down) + k /\ Len(out2) = Len(t.out) - k
  <2> DEFINE out == t.out
  <2>1. out \in Seq(Answer) /\ k \in 0..Len(out)
    BY <1>4, <1>5
  <2> HIDE DEF out
  <2>2. ASSUME NEW n, OfAnswer(down, n), OfAnswer(out, n)
        PROVE  OfAnswer(Joined(down, First(k, out)), n) /\ OfAnswer(Behind(k, out), n)
    BY <1>1, <2>1, <2>2, AnswerMoves
  <2>3. First(k, out) \in Seq(Answer) /\ Len(First(k, out)) = k
        /\ Behind(k, out) \in Seq(Answer) /\ Len(Behind(k, out)) = Len(out) - k
    BY <2>1, Cut
  <2>4. Joined(down, First(k, out)) \in Seq(Answer)
        /\ Len(Joined(down, First(k, out))) = Len(down) + k
    <3> DEFINE g == First(k, out)
    <3>1. g \in Seq(Answer) /\ Len(g) = k
      BY <2>3
    <3> HIDE DEF g
    <3>2. down \o g \in Seq(Answer) /\ Len(down \o g) = Len(down) + k
      BY <1>1, <3>1, ConcatProperties
    <3> QED BY <3>2 DEF g, Joined
  <2> QED BY <2>2, <2>3, <2>4 DEF out
<1> HIDE DEF f, out2
<1>7. t2 \in ThreadStates /\ t2.at = at /\ t2.line = t.line /\ t2.rio = t.rio /\ t2.out = out2
  BY <1>1, <1>6 DEF ThreadStates
<1> HIDE DEF t2
<1> DEFINE down2 == Joined(down, f)
<1>8. /\ down2 \in Seq(Answer) /\ Len(down2) = Len(down) + k
      /\ \A n : OfAnswer(down, n) /\ OfAnswer(t.out, n) => OfAnswer(down2, n) /\ OfAnswer(out2, n)
      /\ ThreadBecomes(c, t2, toServer[c], down2)
  BY <1>3, <1>6
<1> HIDE DEF down2
<1>9. InStep(client[c], t2, toServer[c], down2, server # "dead")
  <2>1. InStep(client[c], t, toServer[c], down, TRUE)
    BY <1>1, <1>2
  <2>2. InStep(client[c], t2, toServer[c], down2, TRUE)
    BY <1>1, <1>2, <1>5, <1>6, <1>7, <1>8, <2>1, WritingKeepsStep
  <2> QED BY <1>2, <2>2
<1> QED BY <1>1, <1>2, <1>7, <1>8, <1>9, ThreadMoves DEF t

\* One round of rio_readlineb keeps the bytes in their order and the line in
\* its buffer.
LEMMA LineIsTaken ==
    ASSUME NEW l \in Seq(Request), NEW r \in Seq(Request), NEW u \in Seq(Request),
           Len(l) <= MAXLINE - 1
    PROVE  LET taken == Refill(r, u)
               filled == r \o First(taken, u)
               k == LineCopies(l, filled)
               line == l \o First(k, filled)
               rest == Behind(k, filled)
               left == Behind(taken, u)
           IN  /\ line \in Seq(Request) /\ rest \in Seq(Request) /\ left \in Seq(Request)
               /\ Len(line) <= MAXLINE - 1
               /\ \A w : InOrder(line, rest, left, w) = InOrder(l, r, u, w)
               /\ LineDone(line) => line # <<>>
<1> DEFINE taken == Refill(r, u)
           f == First(taken, u)
           filled == r \o f
           k == LineCopies(l, filled)
           g == First(k, filled)
           line == l \o g
           rest == Behind(k, filled)
           left == Behind(taken, u)
<1>1. taken \in 0..Len(u)
  BY RefillTakes
<1> HIDE DEF taken
<1>2. f \in Seq(Request) /\ left \in Seq(Request)
  BY <1>1, Cut
<1>3. filled \in Seq(Request)
  <2> HIDE DEF f
  <2> QED BY <1>2, ConcatProperties
<1>4. k \in 0..Len(filled) /\ Len(l) + k <= MAXLINE - 1
  <2> HIDE DEF filled
  <2> QED BY <1>3, LineCopiesTakes
<1>5. g \in Seq(Request) /\ Len(g) = k /\ rest \in Seq(Request)
  <2> HIDE DEF filled, k
  <2> QED BY <1>3, <1>4, Cut
<1>6. \A w : InOrder(line, rest, left, w) = InOrder(l, r, u, w)
  <2> HIDE DEF k
  <2> QED BY <1>1, <1>4, BytesKeepTheirOrder
<1>7. line \in Seq(Request) /\ Len(line) <= MAXLINE - 1
  <2> HIDE DEF g, k
  <2>1. line \in Seq(Request) /\ Len(line) = Len(l) + Len(g)
    BY <1>5, ConcatProperties
  <2> QED BY <1>4, <1>5, <2>1
<1>8. LineDone(line) => line # <<>>
  <2> HIDE DEF line
  <2>1. line = <<>> => Len(line) = 0 /\ MAXLINE \in Nat \ {0, 1}
    BY <1>7, EmptyIsLength0, RioAssumption
  <2> QED BY <2>1 DEF LineDone, LineRoom
<1> QED BY <1>2, <1>5, <1>6, <1>7, <1>8 DEF taken

\* A server thread takes bytes of a line.
LEMMA ServingKeepsStep ==
    ASSUME NEW x \in ClientStates, NEW t \in ThreadStates, NEW up \in Seq(Request), NEW down,
           InStep(x, t, up, down, TRUE), t.at = "readline", ~Blocks(t.rio, up),
           NEW line \in Seq(Request), NEW rest \in Seq(Request), NEW left \in Seq(Request),
           \A w : InOrder(line, rest, left, w) = InOrder(t.line, t.rio, up, w),
           Len(line) <= MAXLINE - 1, LineDone(line) => line # <<>>,
           NEW t2, t2.rio = rest,
           LineDone(line) => t2.at = "writen" /\ t2.line = <<>> /\ t2.out = AnswerTo(line),
           ~LineDone(line) => t2.at = "readline" /\ t2.line = line /\ t2.out = t.out
    PROVE  InStep(x, t2, left, down, TRUE)
<1>1. x.at \in {"write", "read", "report", "ended", "killed"} /\ t.out = <<>>
  BY DEF InStep, Silent, Blocks, ClientStates
<1> DEFINE answer == AnswerTo(line)
<1>2. LineDone(line) => /\ answer \in Seq(Answer) /\ Len(answer) = MAXLINE /\ answer # <<>>
                        /\ WholeLine(line, x.sent) => OfAnswer(answer, x.sent)
  BY AnswerToWholeLine
<1> HIDE DEF answer
<1>3. Len(t2.line) <= MAXLINE - 1 /\ t2.at \in {"readline", "writen"}
      /\ (t2.at = "writen" <=> t2.out # <<>>)
  <2>1. CASE LineDone(line)
    BY <1>2, <2>1, RioAssumption DEF answer
  <2>2. CASE ~LineDone(line)
    BY <1>1, <2>2
  <2> QED BY <2>1, <2>2
<1>4. CASE x.at \in {"report", "ended", "killed"}
  BY <1>3, <1>4 DEF InStep
<1>5. CASE x.at = "write"
  <2> DEFINE w == x.out
  <2>1. w \in Seq(Request) /\ w # <<>> /\ WholeLine(InOrder(t.line, t.rio, up, w), x.sent)
    BY <1>5 DEF InStep, Asked, ClientStates
  <2> HIDE DEF w
  <2>2. WholeLine(InOrder(line, rest, left, w), x.sent)
    BY <2>1
  <2>3. ~LineDone(line)
    <3> SUFFICES ASSUME LineDone(line) PROVE w = <<>>
      BY <2>1
    <3> DEFINE n == x.sent
    <3>1. WholeLine(InOrder(line, rest, left, w), n)
      BY <2>2
    <3> HIDE DEF n
    <3> QED BY <2>1, <3>1, DoneIsWhole
  <2>4. Asked(x, t2, left, w)
    BY <1>1, <2>2, <2>3 DEF Asked
  <2> QED BY <1>3, <1>5, <2>4 DEF InStep, w
<1>6. CASE x.at = "read"
  <2>1. x.got = <<>> /\ down = <<>> /\ Asked(x, t, up, <<>>)
    BY <1>6 DEF InStep, Answered, Blocks
  <2> DEFINE w == <<>>
             n == x.sent
  <2>2. WholeLine(InOrder(line, rest, left, w), n)
    BY <2>1 DEF Asked
  <2>3. w \in Seq(Request) /\ Len(<<>>) = 0
    BY EmptySeq
  <2> HIDE DEF w, n
  <2>4. CASE LineDone(line)
    <3>1. rest = <<>> /\ left = <<>> /\ WholeLine(line, n)
      BY <2>2, <2>3, <2>4, DoneIsWhole
    <3>2. Len(x.got) = 0 /\ Len(down) = 0 /\ MAXLINE \in Nat \ {0}
      BY <2>1, <2>3, RioAssumption
    <3>3. Answered(x, t2, left, down)
      <4>1. OfAnswer(answer, x.sent) /\ Len(answer) = MAXLINE
        BY <1>2, <2>4, <3>1 DEF n
      <4>2. Len(x.got) + Len(down) + Len(answer) = MAXLINE
        BY <3>2, <4>1
      <4> QED BY <2>4, <3>1, <4>1, <4>2 DEF Answered, answer
    <3> QED BY <1>3, <1>6, <3>3 DEF InStep
  <2>5. CASE ~LineDone(line)
    <3>1. Asked(x, t2, left, <<>>)
      BY <1>1, <2>2, <2>5 DEF Asked, w, n
    <3> QED BY <1>3, <1>6, <2>1, <3>1 DEF InStep
  <2> QED BY <2>4, <2>5
<1> QED BY <1>1, <1>4, <1>5, <1>6

LEMMA ReadLineKeeps ==
    ASSUME Inv, NEW c \in Peers, ReadLine(c)
    PROVE  Inv'
<1> DEFINE t == thread[c]
           up == toServer[c]
           filled == t.rio \o First(Refill(t.rio, up), up)
           k == LineCopies(t.line, filled)
           line == t.line \o First(k, filled)
           rest == Behind(k, filled)
           left == Behind(Refill(t.rio, up), up)
           t2 == IF LineDone(line)
                 THEN [at |-> "writen", line |-> <<>>, rio |-> rest, out |-> AnswerTo(line)]
                 ELSE [t EXCEPT !.line = line, !.rio = rest]
<1>1. /\ client[c] \in ClientStates
      /\ thread \in [Peers -> ThreadStates] /\ t \in ThreadStates
      /\ toServer \in [Peers -> Seq(Request)] /\ up \in Seq(Request)
      /\ toClient \in [Peers -> Seq(Answer)] /\ toClient[c] \in Seq(Answer)
      /\ InStep(client[c], t, up, toClient[c], server # "dead")
  BY Connection
<1>2. t.at = "readline" /\ server # "dead" /\ ~Blocks(t.rio, up)
  BY DEF ReadLine, ThreadAt
<1>3. ThreadBecomes(c, t2, left, toClient[c])
  BY <1>1 DEF ThreadBecomes, ReadLine, Line, Filled, Taken
<1> HIDE DEF t, up
<1>4. t.line \in Seq(Request) /\ t.rio \in Seq(Request) /\ Len(t.line) <= MAXLINE - 1
  BY <1>1 DEF ThreadStates, InStep
<1>5. /\ line \in Seq(Request) /\ rest \in Seq(Request) /\ left \in Seq(Request)
      /\ Len(line) <= MAXLINE - 1
      /\ \A w : InOrder(line, rest, left, w) = InOrder(t.line, t.rio, up, w)
      /\ LineDone(line) => line # <<>>
  <2> DEFINE l == t.line
             r == t.rio
  <2>1. l \in Seq(Request) /\ r \in Seq(Request) /\ Len(l) <= MAXLINE - 1
    BY <1>4
  <2> HIDE DEF l, r
  <2> DEFINE filled0 == r \o First(Refill(r, up), up)
             k0 == LineCopies(l, filled0)
             line0 == l \o First(k0, filled0)
             rest0 == Behind(k0, filled0)
             left0 == Behind(Refill(r, up), up)
  <2>2. /\ line0 \in Seq(Request) /\ rest0 \in Seq(Request) /\ left0 \in Seq(Request)
        /\ Len(line0) <= MAXLINE - 1
        /\ \A w : InOrder(line0, rest0, left0, w) = InOrder(l, r, up, w)
        /\ LineDone(line0) => line0 # <<>>
    BY <1>1, <2>1, LineIsTaken
  <2> QED BY <2>2 DEF l, r
<1> HIDE DEF line, rest, left
<1> DEFINE answer == AnswerTo(line)
<1>6. LineDone(line) => answer \in Seq(Answer)
  BY <1>5, AnswerToWholeLine
<1> HIDE DEF answer
<1>7. /\ t2 \in ThreadStates /\ t2.rio = rest /\ t2.at # "none"
      /\ LineDone(line) => t2.at = "writen" /\ t2.line = <<>> /\ t2.out = answer
      /\ ~LineDone(line) => t2.at = "readline" /\ t2.line = line /\ t2.out = t.out
  <2>1. CASE LineDone(line)
    <3>1. t2 = [at |-> "writen", line |-> <<>>, rio |-> rest, out |-> answer]
      BY <2>1 DEF answer
    <3>2. <<>> \in Seq(Request)
      BY EmptySeq
    <3> HIDE DEF t2
    <3> QED BY <1>5, <1>6, <2>1, <3>1, <3>2 DEF ThreadStates
  <2>2. CASE ~LineDone(line)
    <3>1. t2 = [t EXCEPT !.line = line, !.rio = rest]
      BY <2>2
    <3> HIDE DEF t2
    <3> QED BY <1>1, <1>2, <1>5, <2>2, <3>1 DEF ThreadStates
  <2> QED BY <2>1, <2>2
<1> HIDE DEF t2
<1>8. InStep(client[c], t2, left, toClient[c], server # "dead")
  <2>1. InStep(client[c], t, up, toClient[c], TRUE)
    BY <1>1, <1>2
  <2> DEFINE x == client[c]
             down == toClient[c]
  <2>2. x \in ClientStates /\ InStep(x, t, up, down, TRUE)
    BY <1>1, <2>1
  <2>3. LineDone(line) => t2.at = "writen" /\ t2.line = <<>> /\ t2.out = AnswerTo(line)
    BY <1>7 DEF answer
  <2> HIDE DEF x, down
  <2>4. InStep(x, t2, left, down, TRUE)
    BY <1>1, <1>2, <1>5, <1>7, <2>2, <2>3, ServingKeepsStep
  <2> QED BY <1>2, <2>4 DEF x, down
<1> QED BY <1>1, <1>2, <1>3, <1>5, <1>7, <1>8, ThreadMoves DEF t

LEMMA ServerEndsKeeps ==
    ASSUME Inv, \/ ListenFails \/ Interrupt
                \/ \E c \in Peers : ReadWordless(c) \/ ServerBroken(c)
    PROVE  Inv'
<1>1. server' = "dead" /\ UNCHANGED <<backlog, toServer, toClient, client, thread, parent, report>>
  BY DEF ListenFails, Interrupt, ReadWordless, ServerBroken
<1> QED BY <1>1, ServerDies

LEMMA ListenKeeps ==
    ASSUME Inv, Listen
    PROVE  Inv'
<1> USE DEF Listen
<1>1. ConnectionsInStep'
  <2>1. (server' # "dead") = (server # "dead")
    OBVIOUS
  <2> QED BY <2>1 DEF Inv, ConnectionsInStep
<1>2. TypeOK' /\ BacklogOK'
  BY DEF Inv, TypeOK, BacklogOK
<1>3. ParentInv' /\ ReportInv'
  BY DEF Inv, ParentInv, ReportInv, Closed, Reported
<1> QED BY <1>1, <1>2, <1>3 DEF Inv

\* Accept gives a thread to a connection that has none, and to no other.
LEMMA AcceptKeeps ==
    ASSUME Inv, Accept
    PROVE  Inv'
<1> DEFINE n == Len(backlog)
           c == backlog[1]
           t == thread[c]
           t2 == [t EXCEPT !.at = "readline"]
<1>1. backlog \in Seq(Peers) /\ n \in Nat \ {0} /\ c \in Peers
  <2>1. backlog \in Seq(Peers) /\ backlog # <<>>
    BY DEF Accept, Inv, TypeOK
  <2>2. n \in Nat \ {0}
    BY <2>1, EmptyIsLength0
  <2> QED BY <2>1, <2>2, ElementOfSeq
<1>2. /\ \A i \in 1..n : thread[backlog[i]].at = "none" /\ client[backlog[i]].at \notin {"none", "open"}
      /\ \A i, j \in 1..n : backlog[i] = backlog[j] => i = j
      /\ \A i \in 1..n : backlog[i] \in Peers
  BY <1>1, ElementOfSeq DEF Inv, BacklogOK
<1>3. t.at = "none" /\ client[c].at \notin {"none", "open"}
  BY <1>1, <1>2
<1>4. /\ Tail(backlog) \in Seq(Peers) /\ Len(Tail(backlog)) = n - 1
      /\ \A i \in 1..(n - 1) : Tail(backlog)[i] = backlog[i + 1]
  <2>1. backlog # <<>>
    BY DEF Accept
  <2> QED BY <1>1, <2>1, HeadTailProperties
<1>5. backlog' = Tail(backlog) /\ thread' = [thread EXCEPT ![c] = t2]
      /\ UNCHANGED <<server, toServer, toClient, client, parent, report>>
  BY <1>1, Connection DEF Accept
<1> HIDE DEF n, c
<1>6. /\ thread \in [Peers -> ThreadStates] /\ t \in ThreadStates
      /\ InStep(client[c], t, toServer[c], toClient[c], server # "dead")
  BY <1>1, Connection
<1> HIDE DEF t
<1>7. t2 \in ThreadStates /\ t2.at = "readline" /\ t2.line = t.line /\ t2.rio = t.rio /\ t2.out = t.out
  BY <1>6 DEF ThreadStates
<1> HIDE DEF t2
<1>8. InStep(client[c], t2, toServer[c], toClient[c], server # "dead")
  <2>1. Silent(t)
    BY <1>3, <1>6 DEF InStep
  <2>2. \A x, up, w : Asked(x, t, up, w) => Asked(x, t2, up, w)
    BY <1>7 DEF Asked
  <2>3. \A x, up, down : ~Answered(x, t, up, down)
    BY <1>3 DEF Answered
  <2> QED BY <1>3, <1>6, <1>7, <2>1, <2>2, <2>3 DEF InStep, Silent
<1>9. thread' \in [Peers -> ThreadStates] /\ thread'[c] = t2
      /\ \A d \in Peers : d # c => thread'[d] = thread[d]
  BY <1>1, <1>5, <1>6, <1>7
<1>10. ConnectionsInStep'
  <2> SUFFICES ASSUME NEW d \in Peers
               PROVE  InStep(client[d], thread'[d], toServer[d], toClient[d], server # "dead")
    BY <1>5 DEF ConnectionsInStep
  <2>1. CASE d = c
    BY <1>8, <1>9, <2>1
  <2>2. CASE d # c
    BY <1>9, <2>2, Connection
  <2> QED BY <2>1, <2>2
<1>11. BacklogOK'
  <2> DEFINE b == Tail(backlog)
  <2>1. \A i \in 1..(n - 1) : b[i] = backlog[i + 1] /\ i + 1 \in 1..n /\ b[i] # c /\ b[i] \in Peers
    <3> SUFFICES ASSUME NEW i \in 1..(n - 1)
                 PROVE  b[i] = backlog[i + 1] /\ i + 1 \in 1..n /\ b[i] # c /\ b[i] \in Peers
      OBVIOUS
    <3>1. b[i] = backlog[i + 1] /\ i + 1 \in 1..n /\ 1 \in 1..n /\ i + 1 # 1
      BY <1>1, <1>4
    <3> QED BY <1>2, <3>1 DEF c
  <2>2. backlog' = b /\ Len(b) = n - 1
    BY <1>4, <1>5
  <2> HIDE DEF b
  <2>3. \A i \in 1..(n - 1) : thread'[b[i]].at = "none" /\ client'[b[i]].at \notin {"none", "open"}
    BY <1>2, <1>5, <1>9, <2>1
  <2>4. \A i, j \in 1..(n - 1) : b[i] = b[j] => i = j
    <3> SUFFICES ASSUME NEW i \in 1..(n - 1), NEW j \in 1..(n - 1), b[i] = b[j] PROVE i = j
      OBVIOUS
    <3>1. i + 1 = j + 1
      BY <1>2, <2>1
    <3> QED BY <3>1
  <2> QED BY <2>2, <2>3, <2>4 DEF BacklogOK
<1>12. TypeOK'
  BY <1>4, <1>5, <1>9 DEF Inv, TypeOK
<1>13. ParentInv' /\ ReportInv'
  BY <1>5 DEF Inv, ParentInv, ReportInv, Closed, Reported
<1> QED BY <1>10, <1>11, <1>12, <1>13 DEF Inv

\* A client connects once.
LEMMA ConnectKeeps ==
    ASSUME Inv, NEW c \in Peers, Connect(c)
    PROVE  Inv'
<1> DEFINE x == client[c]
           y == [x EXCEPT !.at = "next", !.rio = EmptyRio]
           n == Len(backlog)
<1>1. /\ client \in [Peers -> ClientStates] /\ x \in ClientStates
      /\ InStep(x, thread[c], toServer[c], toClient[c], server # "dead")
      /\ backlog \in Seq(Peers) /\ n \in Nat
  BY Connection, LenProperties DEF Inv, TypeOK
<1>2. /\ x.at = "open" /\ client' = [client EXCEPT ![c] = y] /\ backlog' = Append(backlog, c)
      /\ UNCHANGED <<server, toServer, toClient, thread, parent, report>>
  BY <1>1 DEF Connect, ClientAt
<1>3. /\ \A i \in 1..n : /\ thread[backlog[i]].at = "none"
                         /\ client[backlog[i]].at \notin {"none", "open"} /\ backlog[i] \in Peers
      /\ \A i, j \in 1..n : backlog[i] = backlog[j] => i = j
  BY <1>1, ElementOfSeq DEF Inv, BacklogOK
<1>4. \A i \in 1..n : backlog[i] # c
  BY <1>2, <1>3
<1> DEFINE b == Append(backlog, c)
<1>5. b \in Seq(Peers) /\ Len(b) = n + 1 /\ b[n + 1] = c /\ \A i \in 1..n : b[i] = backlog[i]
  BY <1>1, AppendProperties
<1> HIDE DEF n, b, x
<1>6. y \in ClientStates /\ y.at = "next" /\ y.rio = <<>> /\ y.out = x.out /\ y.got = x.got
  <2>1. EmptyRio \in Seq(Answer) /\ EmptyRio = <<>>
    BY EmptySeq DEF EmptyRio
  <2> HIDE DEF EmptyRio
  <2> QED BY <1>1, <2>1 DEF ClientStates
<1> HIDE DEF y
<1>7. /\ client' \in [Peers -> ClientStates] /\ client'[c] = y
      /\ \A d \in Peers : d # c => client'[d] = client[d]
  BY <1>1, <1>2, <1>6
<1>8. ConnectionsInStep'
  <2> SUFFICES ASSUME NEW d \in Peers
               PROVE  InStep(client'[d], thread[d], toServer[d], toClient[d], server # "dead")
    BY <1>2 DEF ConnectionsInStep
  <2>1. CASE d = c
    <3>1. InStep(y, thread[c], toServer[c], toClient[c], server # "dead")
      <4>1. thread[c].at = "none" /\ toServer[c] = <<>> /\ toClient[c] = <<>>
            /\ x.out = <<>> /\ x.got = <<>> /\ Silent(thread[c])
            /\ Len(thread[c].line) <= MAXLINE - 1
            /\ (thread[c].at = "writen" <=> thread[c].out # <<>>)
        BY <1>1, <1>2 DEF InStep
      <4>2. Len(<<>>) = 0 /\ MAXLINE \in Nat
        BY RioAssumption
      <4> QED BY <1>6, <4>1, <4>2 DEF InStep, OfAnswer
    <3> QED BY <1>7, <2>1, <3>1
  <2>2. CASE d # c
    BY <1>7, <2>2, Connection
  <2> QED BY <2>1, <2>2
<1>9. BacklogOK'
  <2>1. thread[c].at = "none"
    BY <1>1, <1>2 DEF InStep
  <2>2. \A i \in 1..(n + 1) : (i \in 1..n /\ b[i] = backlog[i]) \/ (i = n + 1 /\ b[i] = c)
    BY <1>1, <1>5 DEF n
  <2>3. \A i \in 1..(n + 1) : thread[b[i]].at = "none" /\ client'[b[i]].at \notin {"none", "open"}
    BY <1>3, <1>6, <1>7, <2>1, <2>2
  <2>4. \A i, j \in 1..(n + 1) : b[i] = b[j] => i = j
    BY <1>3, <1>4, <2>2
  <2>5. backlog' = b /\ thread' = thread
    BY <1>2 DEF b
  <2> QED BY <1>5, <2>3, <2>4, <2>5 DEF BacklogOK
<1>10. TypeOK'
  <2>1. backlog' \in Seq(Peers)
    BY <1>2, <1>5 DEF b
  <2> QED BY <1>2, <1>7, <2>1 DEF Inv, TypeOK
<1>11. Others(c) /\ Goes(c)
  BY <1>2, <1>6, <1>7 DEF Others, Goes, x
<1>12. ParentInv' /\ ReportInv'
  BY <1>2, <1>11, GoesKeepsReport
<1> QED BY <1>8, <1>9, <1>10, <1>12 DEF Inv
-----------------------------------------------------------------------------
(* The parent's steps, and the lines of result.md                          *)

\* The parent leaves the connections alone when it does not fork.
LEMMA ParentAlone ==
    ASSUME Inv, UNCHANGED <<network, client, thread>>, parent' \in ParentStates,
           report' \in Seq({"head", "foot"} \cup Peers)
    PROVE  TypeOK' /\ ConnectionsInStep' /\ BacklogOK'
<1>1. TypeOK'
  BY DEF Inv, TypeOK, network
<1>2. ConnectionsInStep' /\ BacklogOK'
  BY DEF Inv, ConnectionsInStep, BacklogOK, network
<1> QED BY <1>1, <1>2

\* The parent goes to another phase.
LEMMA ParentMoves ==
    ASSUME Inv, NEW from, NEW to, ParentGoes(from, to),
           to \in {"absent", "heading", "fork", "failed", "wait", "done"}
    PROVE  /\ parent \in ParentStates /\ parent.at = from
           /\ parent' \in ParentStates /\ parent'.at = to /\ parent'.next = 1
           /\ parent'.reports = parent.reports
<1>1. parent \in ParentStates /\ parent.at = from /\ parent' = [parent EXCEPT !.at = to, !.next = 1]
  BY DEF Inv, TypeOK, ParentGoes
<1> DEFINE next == 1
<1>2. next \in Nat \ {0}
  OBVIOUS
<1> HIDE DEF next
<1>3. parent' = [parent EXCEPT !.at = to, !.next = next]
  BY <1>1 DEF next
<1>4. parent'.at = to /\ parent'.next = next /\ parent'.reports = parent.reports
  BY <1>1, <1>3 DEF ParentStates
<1>5. parent' \in ParentStates
  BY <1>1, <1>2, <1>3 DEF ParentStates
<1> QED BY <1>1, <1>4, <1>5 DEF next

\* A line is added to result.md.
LEMMA LineAdded ==
    ASSUME Inv, NEW line \in {"head", "foot"} \cup Peers, report' = Append(report, line)
    PROVE  /\ report' \in Seq({"head", "foot"} \cup Peers)
           /\ Len(report) \in Nat /\ Len(report') = Len(report) + 1
           /\ \A i \in 1..Len(report) : report'[i] = report[i]
           /\ report'[Len(report) + 1] = line
           /\ \A i \in 1..Len(report) : report[i] \in {"head", "foot"} \cup Peers
<1>1. report \in Seq({"head", "foot"} \cup Peers)
  BY DEF Inv, TypeOK
<1> QED BY <1>1, AppendProperties, LenProperties, ElementOfSeq

LEMMA HeadingKeeps ==
    ASSUME Inv, Heading
    PROVE  Inv'
<1>1. UNCHANGED <<network, client, thread>> /\ report' = Append(report, "head")
  BY DEF Heading
<1>2. /\ parent \in ParentStates /\ parent.at = "heading"
      /\ parent' \in ParentStates /\ parent'.at = "fork" /\ parent'.next = 1
      /\ parent'.reports = parent.reports
  BY ParentMoves DEF Heading
<1> DEFINE n == Len(report)
<1>3. /\ report' \in Seq({"head", "foot"} \cup Peers) /\ n \in Nat /\ Len(report') = n + 1
      /\ \A i \in 1..n : report'[i] = report[i]
      /\ report'[n + 1] = "head"
  BY <1>1, LineAdded
<1>4. TypeOK' /\ ConnectionsInStep' /\ BacklogOK'
  BY <1>1, <1>2, <1>3, ParentAlone
<1>5. ParentInv'
  BY <1>1, <1>2 DEF Inv, ParentInv
<1>6. /\ \A i, j \in 1..n : report[i] = report[j] => i = j
      /\ \A i \in 1..n : /\ report[i] # "head" /\ report[i] # "foot"
                         /\ report[i] \in Peers => client[report[i]].at \in {"report", "ended"}
      /\ parent.reports => \A c \in Peers : client[c].at \in {"report", "ended"} =>
                                            \E i \in 1..n : report[i] = c
  BY <1>2 DEF Inv, ReportInv, Reported
<1> HIDE DEF n
<1>7. \A i \in 1..(n + 1) : (i \in 1..n /\ report'[i] = report[i]) \/ (i = n + 1 /\ report'[i] = "head")
  BY <1>3
<1>8. "head" \notin Peers
  BY ClientsAssumption
<1>9. ReportInv'
  <2>1. \A i, j \in 1..(n + 1) : report'[i] = report'[j] => i = j
    BY <1>6, <1>7
  <2>2. \A i \in 1..(n + 1) : /\ report'[i] # "foot"
                              /\ report'[i] \in Peers => client[report'[i]].at \in {"report", "ended"}
    BY <1>6, <1>7, <1>8
  <2>3. parent.reports => \A c \in Peers : client[c].at \in {"report", "ended"} =>
                                           \E i \in 1..(n + 1) : report'[i] = c
    BY <1>3, <1>6
  <2> QED BY <1>1, <1>2, <1>3, <2>1, <2>2, <2>3 DEF ReportInv, Reported
<1> QED BY <1>4, <1>5, <1>9 DEF Inv

\* When all children have been awaited, none of them runs.
LEMMA AllAreClosed ==
    ASSUME Inv, parent.at = "wait", parent.next > Len(Children)
    PROVE  \A c \in Forked : Closed(c)
<1> SUFFICES ASSUME NEW i \in 1..Len(Children) PROVE Closed(Children[i])
  BY DEF Forked
<1> DEFINE last == Len(Children)
           next == parent.next
<1>1. i \in 1..last /\ next > last /\ next \in Nat /\ last \in Nat
  BY ClientsAssumption, LenProperties DEF Inv, TypeOK, ParentStates
<1>2. i < next
  <2> HIDE DEF last, next
  <2> QED BY <1>1
<1> QED BY <1>2 DEF Inv, ParentInv

LEMMA FootingKeeps ==
    ASSUME Inv, Footing
    PROVE  Inv'
<1>1. /\ parent.reports /\ parent.next > Len(Children)
      /\ UNCHANGED <<network, client, thread>> /\ report' = Append(report, "foot")
  BY DEF Footing
<1>2. /\ parent \in ParentStates /\ parent.at = "wait"
      /\ parent' \in ParentStates /\ parent'.at = "done" /\ parent'.reports
  BY <1>1, ParentMoves DEF Footing
<1> DEFINE n == Len(report)
<1>3. /\ report' \in Seq({"head", "foot"} \cup Peers) /\ n \in Nat /\ Len(report') = n + 1
      /\ \A i \in 1..n : report'[i] = report[i]
      /\ report'[n + 1] = "foot"
  BY <1>1, LineAdded
<1>4. TypeOK' /\ ConnectionsInStep' /\ BacklogOK'
  BY <1>1, <1>2, <1>3, ParentAlone
<1>5. ParentInv'
  <2>1. \A c \in Forked : Closed(c)
    BY <1>1, <1>2, AllAreClosed
  <2> QED BY <1>1, <1>2, <2>1 DEF Inv, ParentInv, Closed
<1>6. /\ \A i, j \in 1..n : report[i] = report[j] => i = j
      /\ \A i \in 1..n : /\ report[i] # "foot"
                         /\ report[i] \in Peers => client[report[i]].at \in {"report", "ended"}
      /\ \A c \in Peers : client[c].at \in {"report", "ended"} => \E i \in 1..n : report[i] = c
  BY <1>1, <1>2 DEF Inv, ReportInv, Reported
<1> HIDE DEF n
<1>7. \A i \in 1..(n + 1) : (i \in 1..n /\ report'[i] = report[i]) \/ (i = n + 1 /\ report'[i] = "foot")
  BY <1>3
<1>8. "foot" \notin Peers
  BY ClientsAssumption
<1>9. ReportInv'
  <2>1. \A i, j \in 1..(n + 1) : report'[i] = report'[j] => i = j
    BY <1>6, <1>7
  <2>2. \A i \in 1..(n + 1) : /\ report'[i] = "foot" => i = n + 1
                              /\ report'[i] \in Peers => client[report'[i]].at \in {"report", "ended"}
    BY <1>6, <1>7, <1>8
  <2>3. \A c \in Peers : client[c].at \in {"report", "ended"} => \E i \in 1..(n + 1) : report'[i] = c
    BY <1>3, <1>6
  <2> QED BY <1>1, <1>2, <1>3, <2>1, <2>2, <2>3 DEF ReportInv, Reported
<1> QED BY <1>4, <1>5, <1>9 DEF Inv

LEMMA ParentGoesKeeps ==
    ASSUME Inv, HeadingFails \/ ForkFails \/ AllForked \/ AllAwaited
    PROVE  Inv'
<1>1. UNCHANGED <<network, client, thread, report>>
  BY DEF HeadingFails, ForkFails, AllForked, AllAwaited
<1>2. PICK from, to : /\ ParentGoes(from, to)
                      /\ \/ from = "heading" /\ to = "failed"
                         \/ from = "fork" /\ to \in {"failed", "wait"}
                         \/ from = "wait" /\ to = "done" /\ ~parent.reports
                                          /\ parent.next > Len(Children)
  BY DEF HeadingFails, ForkFails, AllForked, AllAwaited
<1>3. /\ parent \in ParentStates /\ parent.at = from
      /\ parent' \in ParentStates /\ parent'.at = to /\ parent'.next = 1
      /\ parent'.reports = parent.reports
  BY <1>2, ParentMoves
<1>4. TypeOK' /\ ConnectionsInStep' /\ BacklogOK'
  <2>1. report' \in Seq({"head", "foot"} \cup Peers)
    BY <1>1 DEF Inv, TypeOK
  <2> QED BY <1>1, <1>3, <2>1, ParentAlone
<1>5. ParentInv'
  <2>1. to = "done" => \A c \in Forked : Closed(c)
    BY <1>2, <1>3, AllAreClosed
  <2>2. to = "wait" => \A i \in 1..Len(Children) : ~(i < 1)
    BY ClientsAssumption, LenProperties
  <2> QED BY <1>1, <1>2, <1>3, <2>1, <2>2 DEF Inv, ParentInv, Closed
<1>6. ReportInv'
  <2>1. \A i \in 1..Len(report) : report[i] # "foot" /\ (parent.at = "heading" => report[i] # "head")
    BY <1>2, <1>3 DEF Inv, ReportInv
  <2> QED BY <1>1, <1>2, <1>3, <2>1 DEF Inv, ReportInv, Reported
<1> QED BY <1>4, <1>5, <1>6 DEF Inv

\* waitpid returns for a child that has ended.
LEMMA WaitKeeps ==
    ASSUME Inv, Wait
    PROVE  Inv'
<1> DEFINE n == parent.next
           m == n + 1
<1>1. /\ UNCHANGED <<network, client, thread, report>>
      /\ parent \in ParentStates /\ parent.at = "wait" /\ Closed(Children[n])
      /\ parent' = [parent EXCEPT !.next = m]
  BY DEF Wait, Inv, TypeOK, Awaited
<1>2. n \in Nat \ {0} /\ m \in Nat \ {0} /\ \A i \in Int : i < m => i < n \/ i = n
  BY <1>1 DEF ParentStates
<1> HIDE DEF m
<1>3. /\ parent' \in ParentStates /\ parent'.at = "wait" /\ parent'.next = m
      /\ parent'.reports = parent.reports
  BY <1>1, <1>2 DEF ParentStates
<1> HIDE DEF n
<1>4. TypeOK' /\ ConnectionsInStep' /\ BacklogOK'
  <2>1. report' \in Seq({"head", "foot"} \cup Peers)
    BY <1>1 DEF Inv, TypeOK
  <2> QED BY <1>1, <1>3, <2>1, ParentAlone
<1>5. ParentInv'
  <2>1. \A i \in 1..Len(Children) : i < n => Closed(Children[i])
    BY <1>1 DEF Inv, ParentInv, n
  <2>2. \A i \in 1..Len(Children) : i < m => Closed(Children[i])
    BY <1>1, <1>2, <2>1
  <2> QED BY <1>1, <1>3, <2>2 DEF Inv, ParentInv, Closed
<1>6. ReportInv'
  BY <1>1, <1>3 DEF Inv, ReportInv, Reported
<1> QED BY <1>4, <1>5, <1>6 DEF Inv

LEMMA ForkKeeps ==
    ASSUME Inv, Fork
    PROVE  Inv'
<1> DEFINE n == parent.next
           m == n + 1
           c == Children[n]
           x == client[c]
           y == [x EXCEPT !.at = "open"]
<1>1. /\ parent.at = "fork" /\ n <= Len(Children) /\ client' = [client EXCEPT ![c].at = "open"]
      /\ parent' = [parent EXCEPT !.next = m] /\ UNCHANGED <<network, thread, report>>
      /\ parent \in ParentStates
  BY DEF Fork, Awaited, Inv, TypeOK
<1>2. n \in 1..Len(Children) /\ m \in Nat \ {0} /\ \A i \in Int : m <= i => n <= i /\ i # n
  <2>1. Len(Children) \in Nat /\ n \in Nat \ {0}
    BY <1>1, ClientsAssumption, LenProperties DEF ParentStates
  <2> QED BY <1>1, <2>1
<1>3. /\ c \in Peers /\ c \notin Users
      /\ \A i \in 1..Len(Children) : m <= i => Children[i] # c /\ Children[i] \in Peers
  BY SMTT(30), <1>2, ClientsAssumption DEF Forked, Peers
<1>4. x.at = "none"
  BY <1>1, <1>2 DEF Inv, ParentInv
<1>5. /\ client \in [Peers -> ClientStates] /\ x \in ClientStates
      /\ InStep(x, thread[c], toServer[c], toClient[c], server # "dead")
  BY <1>3, Connection
<1>6. client' = [client EXCEPT ![c] = y]
  BY <1>1, <1>3, <1>5
<1> HIDE DEF m
<1>7. /\ parent' \in ParentStates /\ parent'.at = "fork" /\ parent'.next = m
      /\ parent'.reports = parent.reports
  BY <1>1, <1>2 DEF ParentStates
<1> HIDE DEF n, c, x
<1>8. y \in ClientStates /\ y.at = "open" /\ y.rio = x.rio /\ y.out = x.out /\ y.got = x.got
      /\ y.sent = x.sent
  BY <1>5 DEF ClientStates
<1> HIDE DEF y
<1>9. /\ client' \in [Peers -> ClientStates] /\ client'[c] = y
      /\ \A d \in Peers : d # c => client'[d] = client[d]
  BY <1>3, <1>5, <1>6, <1>8
<1>10. TypeOK'
  BY <1>1, <1>7, <1>9 DEF Inv, TypeOK, network
<1>11. ConnectionsInStep'
  <2> SUFFICES ASSUME NEW d \in Peers
               PROVE  InStep(client'[d], thread[d], toServer[d], toClient[d], server # "dead")
    BY <1>1 DEF ConnectionsInStep, network
  <2>1. CASE d = c
    <3>1. InStep(y, thread[c], toServer[c], toClient[c], server # "dead")
      BY <1>4, <1>5, <1>8 DEF InStep
    <3> QED BY <1>9, <2>1, <3>1
  <2>2. CASE d # c
    BY <1>9, <2>2, Connection
  <2> QED BY <2>1, <2>2
<1>12. BacklogOK'
  <2>1. \A i \in 1..Len(backlog) : backlog[i] \in Peers /\ client[backlog[i]].at # "none"
    BY ElementOfSeq DEF Inv, TypeOK, BacklogOK
  <2>2. \A i \in 1..Len(backlog) : client'[backlog[i]] = client[backlog[i]]
    BY <1>4, <1>9, <2>1 DEF x
  <2> QED BY <1>1, <2>2 DEF Inv, BacklogOK, network
<1>13. ParentInv'
  <2>1. \A i \in 1..Len(Children) : m <= i => client'[Children[i]].at = "none"
    <3>1. \A i \in 1..Len(Children) : n <= i => client[Children[i]].at = "none"
      BY <1>1 DEF Inv, ParentInv, n
    <3> QED BY <1>2, <1>3, <1>9, <3>1
  <2>2. parent.reports => \A u \in Users : client'[u].at = "none"
    BY <1>3, <1>9 DEF Inv, ParentInv, Peers
  <2> QED BY <1>7, <2>1, <2>2 DEF ParentInv
<1>14. ReportInv'
  <2>1. \A d \in Peers : client'[d].at \in {"report", "ended"} <=> client[d].at \in {"report", "ended"}
    BY <1>4, <1>8, <1>9 DEF x
  <2> QED BY <1>1, <1>7, <2>1 DEF Inv, ReportInv, Reported
<1> QED BY <1>10, <1>11, <1>12, <1>13, <1>14 DEF Inv

\* A child writes its time while its parent still waits for it, and once.
LEMMA ReportTimeKeeps ==
    ASSUME Inv, NEW c \in Peers, ReportTime(c)
    PROVE  Inv'
<1> DEFINE x == client[c]
           y == [x EXCEPT !.at = "report"]
           n == Len(report)
<1>1. /\ client \in [Peers -> ClientStates] /\ x \in ClientStates
      /\ InStep(x, thread[c], toServer[c], toClient[c], server # "dead")
  BY Connection
<1>2. /\ x.at = "next" /\ parent.reports /\ client' = [client EXCEPT ![c] = y]
      /\ report' = Append(report, c) /\ UNCHANGED <<network, thread, parent>>
  BY <1>1 DEF ReportTime, ClientAt
<1>3. /\ report' \in Seq({"head", "foot"} \cup Peers) /\ n \in Nat /\ Len(report') = n + 1
      /\ \A i \in 1..n : report'[i] = report[i]
      /\ report'[n + 1] = c
  BY <1>2, LineAdded
<1>4. parent.at # "done"
  <2>1. c \notin Users
    BY <1>2 DEF Inv, ParentInv
  <2>2. c \in Forked /\ ~Closed(c)
    BY <1>2, <2>1 DEF Peers, Closed
  <2> QED BY <2>2 DEF Inv, ParentInv
<1>5. /\ \A i, j \in 1..n : report[i] = report[j] => i = j
      /\ \A i \in 1..n : /\ report[i] = "head" => parent.at # "heading"
                         /\ report[i] # "foot" /\ report[i] # c
                         /\ report[i] \in Peers => client[report[i]].at \in {"report", "ended"}
      /\ \A d \in Peers : client[d].at \in {"report", "ended"} => \E i \in 1..n : report[i] = d
  BY <1>2, <1>4 DEF Inv, ReportInv, Reported
<1> HIDE DEF n, x
<1>6. y \in ClientStates /\ y.at = "report" /\ y.rio = x.rio /\ y.got = x.got /\ y.sent = x.sent
  BY <1>1 DEF ClientStates
<1> HIDE DEF y
<1>7. /\ client' \in [Peers -> ClientStates] /\ client'[c] = y
      /\ \A d \in Peers : d # c => client'[d] = client[d]
  BY <1>1, <1>2, <1>6
<1>8. TypeOK'
  BY <1>2, <1>3, <1>7 DEF Inv, TypeOK, network
<1>9. ConnectionsInStep'
  <2> SUFFICES ASSUME NEW d \in Peers
               PROVE  InStep(client'[d], thread[d], toServer[d], toClient[d], server # "dead")
    BY <1>2 DEF ConnectionsInStep, network
  <2>1. CASE d = c
    <3>1. InStep(y, thread[c], toServer[c], toClient[c], server # "dead")
      <4>1. /\ x.rio = <<>> /\ OfAnswer(x.got, x.sent) /\ Len(x.got) <= MAXLINE
            /\ Len(thread[c].line) <= MAXLINE - 1 /\ (thread[c].at = "none" => Silent(thread[c]))
            /\ (thread[c].at = "writen" <=> thread[c].out # <<>>) /\ thread[c].at # "done"
        BY <1>1, <1>2 DEF InStep
      <4> QED BY <1>6, <4>1 DEF InStep
    <3> QED BY <1>7, <2>1, <3>1
  <2>2. CASE d # c
    BY <1>7, <2>2, Connection
  <2> QED BY <2>1, <2>2
<1>10. BacklogOK'
  <2>1. \A d \in Peers : client[d].at \notin {"none", "open"} => client'[d].at \notin {"none", "open"}
    BY <1>6, <1>7
  <2>2. \A i \in 1..Len(backlog) : backlog[i] \in Peers
    BY ElementOfSeq DEF Inv, TypeOK
  <2> QED BY <1>2, <2>1, <2>2 DEF Inv, BacklogOK, network
<1>11. ParentInv'
  <2>1. \A d \in Peers : client[d].at = "none" \/ Closed(d) => client'[d] = client[d]
    BY <1>2, <1>7 DEF Closed, x
  <2>2. Users \subseteq Peers /\ Forked \subseteq Peers
        /\ \A i \in 1..Len(Children) : Children[i] \in Peers
    BY DEF Peers, Forked
  <2> QED BY <1>2, <2>1, <2>2 DEF Inv, ParentInv, Closed
<1>12. ReportInv'
  <2>1. \A i \in 1..(n + 1) : (i \in 1..n /\ report'[i] = report[i]) \/ (i = n + 1 /\ report'[i] = c)
    BY <1>3
  <2>2. \A i, j \in 1..(n + 1) : report'[i] = report'[j] => i = j
    BY <1>5, <2>1
  <2>3. \A d \in Peers : client[d].at \in {"report", "ended"} => client'[d].at \in {"report", "ended"}
    BY <1>6, <1>7
  <2>4. c # "head" /\ c # "foot"
    BY ClientsAssumption
  <2>5. \A i \in 1..(n + 1) : /\ report'[i] = "head" => parent.at # "heading"
                              /\ report'[i] # "foot"
                              /\ report'[i] \in Peers => client'[report'[i]].at \in {"report", "ended"}
    BY <1>5, <1>6, <1>7, <2>1, <2>3, <2>4
  <2>6. \A d \in Peers : client'[d].at \in {"report", "ended"} => \E i \in 1..(n + 1) : report'[i] = d
    <3> SUFFICES ASSUME NEW d \in Peers, client'[d].at \in {"report", "ended"}
                 PROVE  \E i \in 1..(n + 1) : report'[i] = d
      OBVIOUS
    <3>1. CASE d = c
      BY <1>3, <3>1
    <3>2. CASE d # c
      BY <1>3, <1>5, <1>7, <3>2
    <3> QED BY <3>1, <3>2
  <2> QED BY <1>2, <1>3, <2>2, <2>5, <2>6 DEF ReportInv, Reported
<1> QED BY <1>8, <1>9, <1>10, <1>11, <1>12 DEF Inv
-----------------------------------------------------------------------------
(* The theorems                                                            *)

LEMMA InitInv == Init => Inv
<1> SUFFICES ASSUME Init PROVE Inv
  OBVIOUS
<1>1. PICK first \in {"absent", "fork", "heading"}, typed \in [Users -> Inputs] :
         /\ parent = [at |-> first, next |-> 1, reports |-> first = "heading"]
         /\ client = [c \in Peers |->
               IF c \in Users
               THEN IF first # "absent" THEN NewClient(<<>>)
                    ELSE [NewClient(typed[c]) EXCEPT !.at = "open"]
               ELSE NewClient([i \in 1..ORDER_PER_CLIENT |-> "order"])]
  BY DEF Init
<1>2. /\ server = "starting" /\ backlog = <<>> /\ report = <<>>
      /\ toServer = [c \in Peers |-> <<>>] /\ toClient = [c \in Peers |-> <<>>]
      /\ thread = [c \in Peers |-> NewThread]
  BY DEF Init
<1>3. /\ parent.at = first /\ parent.next = 1 /\ parent.reports \in BOOLEAN
      /\ parent.reports <=> first = "heading"
  BY <1>1
<1>4. \A c \in Peers : /\ client[c] \in ClientStates
                       /\ client[c].at \in {"none", "open"}
                       /\ c \in Forked \/ first # "absent" => client[c].at = "none"
                       /\ client[c].out = <<>> /\ client[c].got = <<>> /\ client[c].rio = <<>>
  <2> SUFFICES ASSUME NEW c \in Peers
               PROVE  /\ client[c] \in ClientStates
                      /\ client[c].at \in {"none", "open"}
                      /\ c \in Forked \/ first # "absent" => client[c].at = "none"
                      /\ client[c].out = <<>> /\ client[c].got = <<>> /\ client[c].rio = <<>>
    OBVIOUS
  <2>1. PICK input \in Seq(Chars), at \in {"none", "open"} :
           /\ client[c] = [at |-> at, input |-> input, out |-> <<>>, got |-> <<>>,
                           rio |-> <<>>, sent |-> 0]
           /\ c \in Forked \/ first # "absent" => at = "none"
    <3>1. CASE c \notin Users
      <4> DEFINE orders == [i \in 1..ORDER_PER_CLIENT |-> "order"]
      <4>1. orders \in Seq(Chars)
        BY ClientsAssumption DEF Chars
      <4>2. client[c] = NewClient(orders)
        BY <1>1, <3>1
      <4> HIDE DEF orders
      <4> QED BY <4>1, <4>2 DEF NewClient, EmptyRio
    <3>2. CASE c \in Users /\ first # "absent"
      <4>1. <<>> \in Seq(Chars)
        BY EmptySeq
      <4>2. client[c] = NewClient(<<>>)
        BY <1>1, <3>2
      <4> QED BY <4>1, <4>2 DEF NewClient, EmptyRio
    <3>3. CASE c \in Users /\ first = "absent"
      <4>1. typed[c] \in Seq({"x", NewLine})
        BY <3>3, ClientsAssumption
      <4>2. typed[c] \in Seq(Chars)
        BY <4>1 DEF Chars
      <4>3. client[c] = [NewClient(typed[c]) EXCEPT !.at = "open"]
        BY <1>1, <3>3
      <4>4. c \notin Forked
        BY <3>3, ClientsAssumption
      <4>5. client[c] = [at |-> "open", input |-> typed[c], out |-> <<>>, got |-> <<>>,
                         rio |-> <<>>, sent |-> 0]
        BY <4>3 DEF NewClient, EmptyRio
      <4> QED BY <3>3, <4>2, <4>4, <4>5
    <3> QED BY <3>1, <3>2, <3>3
  <2>2. <<>> \in Seq(Request) /\ <<>> \in Seq(Answer)
    BY EmptySeq
  <2> QED BY <2>1, <2>2 DEF ClientStates
<1>5. /\ thread \in [Peers -> ThreadStates]
      /\ \A c \in Peers : thread[c].at = "none" /\ Silent(thread[c])
  <2>1. <<>> \in Seq(Request) /\ <<>> \in Seq(Answer)
    BY EmptySeq
  <2> QED BY <1>2, <2>1 DEF NewThread, ThreadStates, Silent, EmptyRio
<1>6. TypeOK
  <2>1. <<>> \in Seq(Request) /\ <<>> \in Seq(Answer) /\ <<>> \in Seq(Peers)
        /\ <<>> \in Seq({"head", "foot"} \cup Peers)
    BY EmptySeq
  <2>2. toServer \in [Peers -> Seq(Request)] /\ toClient \in [Peers -> Seq(Answer)]
    BY <1>2, <2>1
  <2>3. parent \in ParentStates
    BY <1>1 DEF ParentStates
  <2>4. client \in [Peers -> ClientStates]
    BY <1>1, <1>4
  <2> QED BY <1>2, <1>5, <2>1, <2>2, <2>3, <2>4 DEF TypeOK
<1>7. ConnectionsInStep
  <2> SUFFICES ASSUME NEW c \in Peers
               PROVE  InStep(client[c], thread[c], <<>>, <<>>, server # "dead")
    BY <1>2 DEF ConnectionsInStep
  <2>1. Len(<<>>) = 0 /\ MAXLINE \in Nat \ {0}
    BY RioAssumption
  <2>2. thread[c].line = <<>> /\ thread[c].out = <<>> /\ thread[c].at = "none"
    BY <1>5 DEF Silent
  <2> QED BY <1>4, <1>5, <2>1, <2>2 DEF InStep, OfAnswer
<1>8. BacklogOK
  BY <1>2 DEF BacklogOK
<1>9. ParentInv
  <2>1. \A i \in 1..Len(Children) : client[Children[i]].at = "none"
    BY <1>4 DEF Peers, Forked
  <2>2. parent.reports => \A u \in Users : client[u].at = "none"
    BY <1>3, <1>4 DEF Peers
  <2> QED BY <1>3, <2>1, <2>2 DEF ParentInv
<1>10. ReportInv
  BY <1>2, <1>4 DEF ReportInv
<1> QED BY <1>6, <1>7, <1>8, <1>9, <1>10 DEF Inv

LEMMA NextKeepsInv == Inv /\ [Next]_vars => Inv'
<1> SUFFICES ASSUME Inv, [Next]_vars PROVE Inv'
  OBVIOUS
<1>1. CASE Parent
  BY <1>1, HeadingKeeps, FootingKeeps, ForkKeeps, WaitKeeps, ParentGoesKeeps DEF Parent
<1>2. CASE Server
  BY <1>2, ListenKeeps, AcceptKeeps, ServerEndsKeeps DEF Server
<1>3. CASE Interrupt
  BY <1>3, ServerEndsKeeps
<1>4. ASSUME NEW c \in Peers, ClientStep(c) PROVE Inv'
  BY <1>4, ConnectKeeps, ClientEndsKeeps, OrderKeeps, FgetsKeeps, WriteOrderKeeps,
     WriteOrderLostKeeps, ReadAnswerKeeps, ReadEofKeeps, ReportTimeKeeps
  DEF ClientStep, Child, Exchange
<1>5. ASSUME NEW c \in Peers, connect_client(c) PROVE Inv'
  BY <1>5, ReadLineKeeps, ServerEndsKeeps, ReadLineEofKeeps, WriteAnswerKeeps,
     WriteAnswerLostKeeps
  DEF connect_client
<1>6. ASSUME NEW c \in Peers, Abort(c) PROVE Inv'
  BY <1>6, ClientEndsKeeps
<1>7. CASE UNCHANGED vars
  <2>1. UNCHANGED <<network, client, thread, parent, report>>
    BY <1>7 DEF vars
  <2>2. TypeOK' /\ ConnectionsInStep' /\ BacklogOK'
    BY <2>1, ParentAlone DEF Inv, TypeOK
  <2>3. ParentInv' /\ ReportInv'
    BY <2>1 DEF Inv, ParentInv, ReportInv, Closed, Reported
  <2> QED BY <2>2, <2>3 DEF Inv
<1> QED BY <1>1, <1>2, <1>3, <1>4, <1>5, <1>6, <1>7 DEF Next, Finished

LEMMA Invariance == Spec => []Inv
<1>1. Init => Inv
  BY InitInv
<1>2. Inv /\ [Next]_vars => Inv'
  BY NextKeepsInv
<1> QED BY <1>1, <1>2, PTL DEF Spec

\* Type correctness: every variable of both ends keeps its shape.
THEOREM TypeCorrect == Spec => []TypeOK
<1>1. Inv => TypeOK
  BY DEF Inv
<1> QED BY <1>1, Invariance, PTL

\* Whatever the sizes of lines, rio_t and sockets, and however reads and writes
\* are cut: MAXLINE bytes that a client (stockclient.c, multiclient.c) has read
\* are the answer of connect_client to the line it wrote last, taken as one line.
THEOREM StaysInStep == Spec => []AnswersInStep
<1>1. Inv => AnswersInStep
  <2> SUFFICES ASSUME Inv, NEW c \in Peers, Len(client[c].got) = MAXLINE
               PROVE  /\ \A i \in 1..MAXLINE : /\ client[c].got[i].of = client[c].sent
                                               /\ client[c].got[i].whole
                      /\ client[c].rio = <<>>
                      /\ client[c].at = "next" => toClient[c] = <<>>
    BY DEF AnswersInStep
  <2> QED BY Connection DEF InStep, OfAnswer
<1> QED BY <1>1, Invariance, PTL

\* In task3's multiclient.c no time is written twice, and the line that ends
\* result.md comes after those of all children that were not killed.
THEOREM ReportStaysWhole == Spec => []ReportIsWhole
<1>1. Inv => ReportIsWhole
  <2> SUFFICES ASSUME Inv PROVE ReportIsWhole
    OBVIOUS
  <2>1. ASSUME NEW i \in 1..Len(report), report[i] = "foot"
        PROVE  /\ report[Len(report)] = "foot"
               /\ \A c \in Forked : Reported(c) \/ client[c].at = "killed"
    <3>1. parent.at = "done" /\ parent.reports /\ i = Len(report)
      BY <2>1 DEF Inv, ReportInv
    <3>2. \A c \in Forked : c \in Peers /\ client[c].at \in {"ended", "killed"}
      BY <3>1 DEF Inv, ParentInv, Closed, Peers
    <3>3. \A c \in Peers : client[c].at \in {"report", "ended"} => Reported(c)
      BY <3>1 DEF Inv, ReportInv
    <3> QED BY <2>1, <3>1, <3>2, <3>3
  <2> QED BY <2>1 DEF Inv, ReportInv, ReportIsWhole
<1> QED BY <1>1, Invariance, PTL
=============================================================================
