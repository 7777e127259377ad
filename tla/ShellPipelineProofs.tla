------------------------- MODULE ShellPipelineProofs --------------------------
(***************************************************************************)
(* Theorems about ShellPipeline for any commands, any capacity of a pipe   *)
(* and any number of descriptors: a program that reads a pipe finds its    *)
(* end, a stage reads what the stage before it wrote, and only a built-in  *)
(* of phase 3 takes the terminal from the prompt.  The inductive invariant *)
(* Inv says which descriptor holds which end of which pipe at each place   *)
(* of execute_command.                                                     *)
(***************************************************************************)
EXTENDS ShellPipeline, FiniteSetTheorems, SequenceTheorems, WellFoundedInduction, TLAPS

Files == {Tty, None} \cup {ReadEnd(p) : p \in Pipes} \cup {WriteEnd(p) : p \in Pipes}
IsRead(file) == file[2] \in Pipes /\ file = ReadEnd(file[2])

\* The pipes behind in and behind fd[2], and who wrote what a pipe holds.
InPipe == fd[in][2]
OutPipe == fd[pfd[1]][2]
WrittenBy(p, stage) == \A n \in 1..Len(pipes[p]) : pipes[p][n] = stage

HasChild == pc \in {"wait", "waitlast"}
HasPipe == pc \in {"stage", "wait"}
Running == pc \in {"loop", "stage", "wait", "waitlast"}
Allocated == Descriptors \ {0, 1}

TypeOK ==
    /\ phase \in {2, 3} /\ i \in Nat /\ in \in Int /\ pfd[1] \in Int /\ pfd[2] \in Int
    /\ fd \in [Descriptors -> Files] /\ cfd \in [Descriptors -> Files]
    /\ pipes \in [Pipes -> Seq(Int)]
    /\ held \in Int /\ got \in Nat /\ sent \in Nat
    /\ saved_stdin \in Descriptors \cup {-1}

\* Descriptors 0 and 1 are open, and the copy of stdin is the terminal.
StandardOK ==
    /\ fd[1] = Tty /\ fd[0] # None
    /\ saved_stdin # -1 => saved_stdin # 0 /\ fd[saved_stdin] = Tty
    /\ phase = 3 => saved_stdin # -1 /\ (pc = "waitlast" => fd[0] = Tty)

\* The shell holds no write end but that of the pipe it has just made.
OneWriteEnd ==
    \A d \in Descriptors, p \in Pipes : fd[d] = WriteEnd(p) => HasPipe /\ d = pfd[2]

\* When pipe() has failed, fd[] is the pair before, whose write end is closed.
PairOK ==
    /\ HasPipe \/ (pc = "loop" /\ i > 1) =>
          pfd[1] \in Allocated /\ pfd[2] \in Allocated /\ pfd[1] # pfd[2]
    /\ HasPipe => /\ IsRead(fd[pfd[1]])
                  /\ fd[pfd[2]] \in {None, WriteEnd(OutPipe)}
                  /\ ~short => fd[pfd[2]] # None
                  /\ fd[pfd[2]] # None =>
                        /\ i > 1 => in # pfd[1]
                        /\ \A d \in Descriptors \ {pfd[1]} : fd[d] # ReadEnd(OutPipe)
    /\ pc = "stage" /\ ~short => pipes[OutPipe] = <<>>
    /\ pc = "wait" /\ ~short => WrittenBy(OutPipe, i)
    /\ pc = "loop" /\ i > 1 => in = pfd[1] /\ fd[pfd[2]] = None

\* A stage that is not the first has the pipe of the stage before it.
InputOK ==
    Running =>
       /\ i >= 1 /\ (i = 1 => in = 0)
       /\ i > 1 => in \in Allocated /\ IsRead(fd[in])
       /\ i > 1 /\ ~short /\ ~HasChild =>
             Len(pipes[InPipe]) = sent /\ WrittenBy(InPipe, i - 1)

ChildOK ==
    IF HasChild
    THEN /\ cfd[0] = Tty \/ IsRead(cfd[0])
         /\ IsRead(cfd[0]) => ~HasWriter(cfd[0][2])
         /\ pc = "waitlast" => cfd[1] = Tty
         /\ pc = "wait" => /\ cfd[1] = Tty \/ (cfd[1] = WriteEnd(OutPipe) /\ fd[pfd[2]] = cfd[1])
                           /\ ~short => cfd[1] # Tty
         /\ cmd[i] = "cat" => prog \in {"cat", "ended"}
         /\ i > 1 /\ ~short =>
               /\ IsRead(cfd[0]) /\ WrittenBy(cfd[0][2], i - 1)
               /\ prog = "cat" => held \in {-1, i - 1} /\ got + Len(pipes[cfd[0][2]]) = sent
               /\ prog = "ended" /\ cmd[i] = "cat" => got = sent
    ELSE prog = "none"

\* Phase 2 has lost stdin only while the last stage runs, and then has a copy
\* of it, unless there was no descriptor for the copy, or for a pipe.
Phase2OK ==
    phase = 2 =>
       /\ pc # "waitlast" => fd[0] = Tty
       /\ saved_stdin = -1 /\ Running =>
             FreeIn(fd) = {} /\ i = 1 /\ pc \in {"loop", "waitlast"} /\ fd[0] = Tty

Inv == /\ TypeOK /\ StandardOK /\ OneWriteEnd /\ PairOK /\ InputOK /\ ChildOK /\ Phase2OK
       /\ PromptIsTheTerminals
-----------------------------------------------------------------------------
(* Files and descriptor tables                                             *)

LEMMA Kinds ==
    /\ Tty # None
    /\ \A p : /\ ReadEnd(p) # Tty /\ ReadEnd(p) # None /\ WriteEnd(p) # Tty /\ WriteEnd(p) # None
              /\ ReadEnd(p)[1] = "r" /\ ReadEnd(p)[2] = p
    /\ \A p, q : ReadEnd(p) # WriteEnd(q)
    /\ \A p, q : ReadEnd(p) = ReadEnd(q) => p = q
    /\ \A p, q : WriteEnd(p) = WriteEnd(q) => p = q
  BY DEF Tty, None, ReadEnd, WriteEnd

LEMMA ReadEnds ==
    /\ ~IsRead(Tty) /\ ~IsRead(None)
    /\ \A p \in Pipes : IsRead(ReadEnd(p)) /\ ~IsRead(WriteEnd(p))
<1>1. \A p \in Pipes : IsRead(ReadEnd(p))
  BY Kinds DEF IsRead
<1>2. ~IsRead(Tty) /\ ~IsRead(None) /\ \A p \in Pipes : ~IsRead(WriteEnd(p))
  BY Kinds DEF IsRead
<1> QED BY <1>1, <1>2

\* What a descriptor may be.
LEMMA FileCases ==
    ASSUME NEW f \in Files
    PROVE  f = Tty \/ f = None \/ IsRead(f) \/ \E p \in Pipes : f = WriteEnd(p)
  BY ReadEnds DEF Files

LEMMA ContentsOf ==
    /\ Contents(Tty) = <<>> /\ Contents(None) = <<>>
    /\ \A p : Contents(ReadEnd(p)) = pipes[p] /\ Contents(WriteEnd(p)) = pipes[p]
  BY DEF Contents, Tty, None, ReadEnd, WriteEnd

LEMMA EnoughDescriptors == MaxFd \in Nat /\ MaxFd > 5
  BY Zenon, ShellPipelineAssumption

LEMMA DescriptorsStart == 0 \in Descriptors /\ 1 \in Descriptors /\ -1 \notin Descriptors
                          /\ 3 \in Descriptors
  BY EnoughDescriptors DEF Descriptors

LEMMA CloseWorks ==
    ASSUME NEW t \in [Descriptors -> Files], NEW x
    PROVE  /\ Close(t, x) \in [Descriptors -> Files]
           /\ \A d \in Descriptors : Close(t, x)[d] = IF d = x THEN None ELSE t[d]
<1>1. None \in Files
  BY DEF Files
<1> QED BY <1>1 DEF Close

LEMMA Dup2Works ==
    ASSUME NEW t \in [Descriptors -> Files], NEW from, NEW to \in Descriptors
    PROVE  /\ Dup2(t, from, to) \in [Descriptors -> Files]
           /\ \A d \in Descriptors :
                 Dup2(t, from, to)[d] = IF d = to /\ from \in Descriptors /\ t[from] # None
                                        THEN t[from] ELSE t[d]
  BY DEF Dup2

\* Every nonempty set of natural numbers has a least element.
LEMMA LeastElement ==
    ASSUME NEW S \in SUBSET Nat, S # {}
    PROVE  \E n \in S : \A m \in S : n <= m
<1> DEFINE R == OpToRel(<, Nat)
<1>1. \A m, n \in Nat : m < n => <<m, n>> \in R
  BY DEF OpToRel
<1>2. IsWellFoundedOn(R, Nat)
  BY NatLessThanWellFounded
<1> HIDE DEF R
<1>3. PICK n \in S : \A m \in S : ~(<<m, n>> \in R)
  BY <1>2, WFMin
<1>4. \A m \in S : ~(m < n)
  BY <1>1, <1>3
<1> QED BY <1>4

LEMMA LowestWorks ==
    ASSUME NEW S \in SUBSET Nat, S # {}
    PROVE  Lowest(S) \in S
<1>1. \E n \in S : \A m \in S : n <= m
  BY LeastElement
<1> QED BY <1>1 DEF Lowest

\* dup fills one free descriptor, or none if there is none.
LEMMA DupWorks ==
    ASSUME NEW t \in [Descriptors -> Files], NEW x \in Descriptors
    PROVE  /\ Dup(t, x) \in [Descriptors -> Files]
           /\ FreeIn(t) = {} => Dup(t, x) = t
           /\ FreeIn(t) # {} =>
                 /\ Lowest(FreeIn(t)) \in FreeIn(t)
                 /\ Dup(t, x)[Lowest(FreeIn(t))] = t[x]
                 /\ \A d \in Descriptors \ {Lowest(FreeIn(t))} : Dup(t, x)[d] = t[d]
<1>1. FreeIn(t) \subseteq Nat /\ FreeIn(t) \subseteq Descriptors
  BY DEF FreeIn, Descriptors
<1>2. CASE FreeIn(t) = {}
  BY <1>2 DEF Dup
<1>3. CASE FreeIn(t) # {}
  <2>1. Lowest(FreeIn(t)) \in FreeIn(t)
    BY <1>1, <1>3, LowestWorks
  <2> QED BY <1>1, <1>3, <2>1 DEF Dup
<1> QED BY <1>2, <1>3

LEMMA FreeIsFinite ==
    ASSUME NEW t
    PROVE  IsFiniteSet(FreeIn(t)) /\ Cardinality(FreeIn(t)) \in Nat
<1>1. IsFiniteSet(Descriptors)
  BY EnoughDescriptors, FS_Interval DEF Descriptors
<1>2. FreeIn(t) \subseteq Descriptors
  BY DEF FreeIn
<1> QED BY <1>1, <1>2, FS_Subset, FS_CardinalityType

\* A set is no larger than one it can be sent into without two meeting.
LEMMA SentApart ==
    ASSUME NEW S, NEW T, IsFiniteSet(S), IsFiniteSet(T), NEW f \in [S -> T],
           \A x, y \in S : f[x] = f[y] => x = y
    PROVE  Cardinality(S) <= Cardinality(T)
<1>1. ~(Cardinality(T) < Cardinality(S))
  BY FS_PigeonHole
<1>2. Cardinality(S) \in Nat /\ Cardinality(T) \in Nat
  BY FS_CardinalityType
<1> QED BY <1>1, <1>2

\* pipe() finds two descriptors and a pipe that nobody uses.
LEMMA PipeFinds ==
    ASSUME TypeOK, StandardOK, Cardinality(FreeIn(fd)) >= 2
    PROVE  LET p == Lowest(Pipes \ InUse)
               r == Lowest(FreeIn(fd))
               w == Lowest(FreeIn(fd) \ {r})
           IN  /\ p \in Pipes /\ \A d \in Descriptors : fd[d] # ReadEnd(p) /\ fd[d] # WriteEnd(p)
               /\ r \in Allocated /\ w \in Allocated /\ r # w
               /\ fd[r] = None /\ fd[w] = None
<1> DEFINE F == FreeIn(fd)
           r == Lowest(F)
           w == Lowest(F \ {r})
           p == Lowest(Pipes \ InUse)
<1>1. IsFiniteSet(F) /\ Cardinality(F) \in Nat /\ F \subseteq Nat /\ F \subseteq Descriptors
  BY FreeIsFinite DEF FreeIn, Descriptors
<1>2. F # {}
  BY FS_EmptySet
<1>3. r \in F
  BY <1>1, <1>2, LowestWorks
<1>4. F \ {r} # {}
  <2>1. IsFiniteSet(F \ {r}) /\ Cardinality(F \ {r}) = Cardinality(F) - 1
    BY <1>1, <1>3, FS_RemoveElement
  <2>2. Cardinality(F) >= 2
    OBVIOUS
  <2> HIDE DEF F, r
  <2>3. Cardinality(F \ {r}) # 0
    BY <1>1, <2>1, <2>2
  <2> QED BY <2>3, FS_EmptySet
<1>5. w \in F \ {r}
  BY <1>1, <1>4, LowestWorks
<1>6. 0 \notin F /\ 1 \notin F
  BY Kinds DEF FreeIn, StandardOK
<1>7. fd[r] = None /\ fd[w] = None
  BY <1>3, <1>5 DEF FreeIn
<1>8. Pipes \ InUse # {}
  <2> DEFINE D == Descriptors \ {r}
             f == [q \in InUse |-> CHOOSE d \in D : fd[d] = ReadEnd(q) \/ fd[d] = WriteEnd(q)]
  <2>1. IsFiniteSet(Descriptors) /\ Cardinality(Descriptors) = MaxFd /\ r \in Descriptors
    BY <1>1, <1>3, EnoughDescriptors, FS_Interval DEF Descriptors
  <2>2. IsFiniteSet(D) /\ Cardinality(D) = MaxFd - 1
    BY <2>1, FS_RemoveElement
  <2>3. IsFiniteSet(Pipes) /\ Cardinality(Pipes) = MaxFd
    BY EnoughDescriptors, FS_Interval DEF Pipes
  <2>4. IsFiniteSet(InUse)
    BY <2>3, FS_Subset DEF InUse
  <2>5. \A q \in InUse : f[q] \in D /\ (fd[f[q]] = ReadEnd(q) \/ fd[f[q]] = WriteEnd(q))
    <3> SUFFICES ASSUME NEW q \in InUse
                 PROVE  \E d \in D : fd[d] = ReadEnd(q) \/ fd[d] = WriteEnd(q)
      OBVIOUS
    <3>1. PICK d \in Descriptors : fd[d] = ReadEnd(q) \/ fd[d] = WriteEnd(q)
      BY DEF InUse, Open
    <3>2. d # r
      BY <1>7, <3>1, Kinds
    <3> QED BY <3>1, <3>2
  <2>6. \A x, y \in InUse : f[x] = f[y] => x = y
    <3> HIDE DEF f, D
    <3> QED BY <2>5, Kinds
  <2>7. f \in [InUse -> D]
    BY <2>5
  <2>8. Cardinality(InUse) <= Cardinality(D)
    <3> HIDE DEF f, D
    <3> QED BY <2>2, <2>4, <2>6, <2>7, SentApart
  <2>9. Cardinality(InUse) \in Nat
    BY <2>4, FS_CardinalityType
  <2>10. InUse # Pipes
    BY <2>2, <2>3, <2>8, <2>9, EnoughDescriptors
  <2> QED BY <2>10 DEF InUse
<1>9. p \in Pipes /\ p \notin InUse
  <2>1. Pipes \ InUse \subseteq Nat
    BY DEF Pipes
  <2> QED BY <1>8, <2>1, LowestWorks
<1>10. \A d \in Descriptors : fd[d] # ReadEnd(p) /\ fd[d] # WriteEnd(p)
  BY <1>9 DEF InUse, Open
<1> HIDE DEF F, r, w, p
<1>11. r \in Allocated /\ w \in Allocated /\ r # w
  BY <1>1, <1>3, <1>5, <1>6 DEF Allocated
<1> QED BY <1>7, <1>9, <1>10, <1>11 DEF F, r, w, p
-----------------------------------------------------------------------------
(* The actions of the shell                                                *)

LEMMA InitInv == Init => Inv
<1> SUFFICES ASSUME Init PROVE Inv
  OBVIOUS
<1> USE DescriptorsStart, Kinds DEF Init
<1>1. fd \in [Descriptors -> Files] /\ cfd \in [Descriptors -> Files]
  BY DEF Files
<1>2. pipes \in [Pipes -> Seq(Int)]
  OBVIOUS
<1>3. saved_stdin \in Descriptors \cup {-1}
  OBVIOUS
<1>4. TypeOK
  BY <1>1, <1>2, <1>3 DEF TypeOK
<1>5. fd[0] = Tty /\ fd[1] = Tty /\ (phase = 3 => fd[3] = Tty)
  OBVIOUS
<1>6. StandardOK
  BY <1>5 DEF StandardOK
<1>7. OneWriteEnd
  BY DEF OneWriteEnd
<1>8. PairOK /\ InputOK /\ ChildOK /\ Phase2OK /\ PromptIsTheTerminals
  BY <1>5 DEF PairOK, InputOK, ChildOK, Phase2OK, PromptIsTheTerminals, HasPipe, HasChild, Running
<1> QED BY <1>4, <1>6, <1>7, <1>8 DEF Inv

\* Between the commands only the descriptors matter.
LEMMA AtRest ==
    ASSUME Inv, pc' \notin {"loop", "stage", "wait", "waitlast"}, ~HasPipe,
           phase' = phase, pipes' \in [Pipes -> Seq(Int)],
           fd' = fd, saved_stdin' = saved_stdin, i' = i, in' = in, pfd' = pfd,
           cfd' = cfd, held' = held, got' = got, sent' = sent, short' = short,
           prog' = "none", pc # "waitlast",
           PromptIsTheTerminals'
    PROVE  Inv'
<1> USE DEF Inv
<1>1. TypeOK'
  BY DEF TypeOK
<1>2. StandardOK' /\ OneWriteEnd'
  BY DEF StandardOK, OneWriteEnd
<1>3. PairOK' /\ InputOK' /\ ChildOK' /\ Phase2OK'
  BY DEF PairOK, InputOK, ChildOK, Phase2OK, HasPipe, HasChild, Running
<1> QED BY <1>1, <1>2, <1>3

LEMMA PromptInv ==
    ASSUME Inv, (\E c \in Commands : PromptLine(c) \/ PromptPipe(c)) \/ PromptEof
    PROVE  Inv'
<1>1. pc = "prompt" /\ pc' \in {"crashed", "undefined", "execute"}
  BY DEF PromptLine, PromptPipe, PromptEof, Begin
<1>2. UNCHANGED <<phase, fd, saved_stdin, i, in, pfd, child, sent, short>>
  BY DEF PromptLine, PromptPipe, PromptEof, Begin
<1>3. pipes' \in [Pipes -> Seq(Int)]
  <2>1. pipes \in [Pipes -> Seq(Int)] /\ <<>> \in Seq(Int)
    BY DEF Inv, TypeOK
  <2>2. pipes' = pipes \/ pipes' = [pipes EXCEPT ![fd[0][2]] = <<>>]
    BY DEF PromptLine, PromptPipe, PromptEof
  <2> QED BY <2>1, <2>2
<1>4. prog = "none"
  BY <1>1 DEF Inv, ChildOK, HasChild
<1>5. PromptIsTheTerminals'
  BY <1>1 DEF PromptIsTheTerminals
<1> QED BY <1>1, <1>2, <1>3, <1>4, <1>5, AtRest DEF HasPipe, child

\* The first turn of the loop has the descriptors of the prompt and no pipe.
LEMMA FirstTurn ==
    ASSUME Inv, pc = "execute", StartPipeline, fd' \in [Descriptors -> Files],
           saved_stdin' \in Descriptors \cup {-1}, StandardOK',
           \A d \in Descriptors : fd'[d] = fd[d] \/ ~\E p \in Pipes : fd'[d] = WriteEnd(p),
           phase = 2 => fd'[0] = Tty /\ (saved_stdin' = -1 => FreeIn(fd') = {})
    PROVE  Inv'
<1> USE DEF Inv, StartPipeline
<1>1. TypeOK'
  BY DEF TypeOK
<1>2. OneWriteEnd'
  BY DEF OneWriteEnd, HasPipe
<1>3. PairOK' /\ InputOK' /\ ChildOK' /\ PromptIsTheTerminals'
  BY DEF PairOK, InputOK, ChildOK, PromptIsTheTerminals, HasPipe, HasChild, Running
<1>4. Phase2OK'
  BY DEF Phase2OK, HasPipe, HasChild, Running
<1> QED BY <1>1, <1>2, <1>3, <1>4

LEMMA Enter2Inv == ASSUME Inv, Enter2 PROVE Inv'
<1> USE DescriptorsStart, Kinds DEF Inv, Enter2
<1> DEFINE t == Dup(fd, 1)
           x == Lowest(FreeIn(fd))
           y == Lowest(FreeIn(t))
<1>1. fd \in [Descriptors -> Files] /\ fd[1] = Tty /\ fd[0] = Tty /\ phase = 2
  BY DEF TypeOK, StandardOK, Phase2OK
<1>2. /\ t \in [Descriptors -> Files]
      /\ FreeIn(fd) = {} => t = fd
      /\ FreeIn(fd) # {} => /\ x \in FreeIn(fd) /\ t[x] = Tty
                            /\ \A d \in Descriptors \ {x} : t[d] = fd[d]
  BY <1>1, DupWorks
<1>3. t[0] = Tty /\ t[1] = Tty
  BY <1>1, <1>2 DEF FreeIn
<1>4. /\ fd' \in [Descriptors -> Files]
      /\ FreeIn(t) = {} => fd' = t
      /\ FreeIn(t) # {} => /\ y \in FreeIn(t) /\ fd'[y] = t[0]
                           /\ \A d \in Descriptors \ {y} : fd'[d] = t[d]
  BY <1>2, DupWorks
<1>5. fd'[0] = Tty /\ fd'[1] = Tty
  BY <1>3, <1>4 DEF FreeIn
<1>6. FreeIn(fd) # {} => FreeIn(t) = FreeIn(fd) \ {x}
  BY <1>1, <1>2 DEF FreeIn
<1>7. CASE Cardinality(FreeIn(fd)) < 2
  <2>1. saved_stdin' = -1
    BY <1>7
  <2>2. FreeIn(t) = {}
    <3>1. CASE FreeIn(fd) = {}
      BY <1>2, <3>1
    <3>2. CASE FreeIn(fd) # {}
      <4>1. IsFiniteSet(FreeIn(t)) /\ Cardinality(FreeIn(t)) = Cardinality(FreeIn(fd)) - 1
        BY <1>2, <1>6, <3>2, FreeIsFinite, FS_RemoveElement
      <4>2. Cardinality(FreeIn(t)) = 0
        BY <1>7, <4>1, FreeIsFinite, FS_CardinalityType
      <4> QED BY <4>1, <4>2, FS_EmptySet
    <3> QED BY <3>1, <3>2
  <2>3. FreeIn(fd') = {}
    <3>1. fd' = t
      BY <1>4, <2>2
    <3> QED BY <2>2, <3>1
  <2>4. StandardOK'
    BY <1>1, <1>5, <2>1 DEF StandardOK, StartPipeline
  <2>5. \A d \in Descriptors : fd'[d] = fd[d] \/ ~\E p \in Pipes : fd'[d] = WriteEnd(p)
    BY <1>2, <1>4, <2>2
  <2> QED BY <1>1, <1>4, <1>5, <2>1, <2>3, <2>4, <2>5, FirstTurn
<1>8. CASE ~(Cardinality(FreeIn(fd)) < 2)
  <2>1. saved_stdin' = y
    BY <1>8
  <2>2. FreeIn(fd) # {}
    <3>1. Cardinality(FreeIn(fd)) # 0
      BY <1>8, FreeIsFinite
    <3> QED BY <3>1, FS_EmptySet
  <2>3. FreeIn(t) # {}
    <3>1. IsFiniteSet(FreeIn(t)) /\ Cardinality(FreeIn(t)) = Cardinality(FreeIn(fd)) - 1
      BY <1>2, <1>6, <2>2, FreeIsFinite, FS_RemoveElement
    <3>2. Cardinality(FreeIn(t)) # 0
      BY <1>8, <3>1, FreeIsFinite
    <3> QED BY <3>2, FS_EmptySet
  <2>4. y \in Descriptors /\ y # 0 /\ fd'[y] = Tty /\ y # -1
    BY <1>3, <1>4, <2>3 DEF FreeIn
  <2>5. StandardOK'
    BY <1>1, <1>5, <2>1, <2>4 DEF StandardOK
  <2>6. \A d \in Descriptors : fd'[d] = fd[d] \/ ~\E p \in Pipes : fd'[d] = WriteEnd(p)
    BY <1>2, <1>3, <1>4, <2>2, <2>3
  <2> HIDE DEF y, t
  <2> QED BY <1>1, <1>4, <1>5, <2>1, <2>4, <2>5, <2>6, FirstTurn
<1> QED BY <1>7, <1>8

LEMMA Enter3Inv == ASSUME Inv, Enter3 PROVE Inv'
<1> USE DEF Inv, Enter3
<1>1. CASE cmd[1] = "jobs"
  <2>1. pc = "execute" /\ pc' = "prompt" /\ UNCHANGED <<phase, shell, pipes, child, sent, short>>
    BY <1>1
  <2>2. prog = "none" /\ pipes \in [Pipes -> Seq(Int)]
    BY DEF ChildOK, HasChild, TypeOK
  <2>3. PromptIsTheTerminals'
    BY <1>1, <2>1 DEF PromptIsTheTerminals, shell
  <2> QED BY <2>1, <2>2, <2>3, AtRest DEF HasPipe, shell, child
<1>2. CASE cmd[1] # "jobs"
  <2>1. pc = "execute" /\ StartPipeline /\ UNCHANGED <<fd, saved_stdin>> /\ phase = 3
    BY <1>2
  <2>2. StandardOK'
    BY <2>1 DEF StandardOK, StartPipeline
  <2>3. fd' \in [Descriptors -> Files] /\ saved_stdin' \in Descriptors \cup {-1}
    BY <2>1 DEF TypeOK
  <2> QED BY <2>1, <2>2, <2>3, FirstTurn
<1> QED BY <1>1, <1>2
LEMMA MakePipeInv == ASSUME Inv, MakePipe PROVE Inv'
<1> USE DescriptorsStart, Kinds DEF Inv, MakePipe
<1>1. /\ pc = "loop" /\ i \in Nat /\ i < Len(cmd) /\ prog = "none" /\ i >= 1
      /\ fd \in [Descriptors -> Files] /\ pipes \in [Pipes -> Seq(Int)]
  BY DEF TypeOK, ChildOK, HasChild, InputOK, Running
<1>2. /\ phase' = phase /\ saved_stdin' = saved_stdin /\ cmd' = cmd /\ i' = i /\ in' = in
      /\ cfd' = cfd /\ held' = held /\ got' = got /\ sent' = sent /\ prog' = prog
  BY DEF child
<1>3. CASE Cardinality(FreeIn(fd)) >= 2
  <2> DEFINE p == Lowest(Pipes \ InUse)
             r == Lowest(FreeIn(fd))
             w == Lowest(FreeIn(fd) \ {r})
  <2>1. /\ p \in Pipes /\ \A d \in Descriptors : fd[d] # ReadEnd(p) /\ fd[d] # WriteEnd(p)
        /\ r \in Allocated /\ w \in Allocated /\ r # w
        /\ fd[r] = None /\ fd[w] = None
    BY <1>3, PipeFinds
  <2>2. /\ fd' = [fd EXCEPT ![r] = ReadEnd(p), ![w] = WriteEnd(p)]
        /\ pipes' = [pipes EXCEPT ![p] = <<>>]
        /\ pfd' = <<r, w>> /\ pc' = "stage" /\ short' = short
    BY <1>3
  <2> HIDE DEF p, r, w
  <2>3. r \in Descriptors /\ w \in Descriptors /\ r \in Int /\ w \in Int
    BY <2>1 DEF Allocated, Descriptors
  <2>4. ReadEnd(p) \in Files /\ WriteEnd(p) \in Files
    BY <2>1 DEF Files
  <2>5. /\ fd' \in [Descriptors -> Files]
        /\ fd'[r] = ReadEnd(p) /\ fd'[w] = WriteEnd(p)
        /\ \A d \in Descriptors \ {r, w} : fd'[d] = fd[d]
    BY <1>1, <2>1, <2>2, <2>3, <2>4
  <2>6. pipes' \in [Pipes -> Seq(Int)] /\ pipes'[p] = <<>> /\ \A q \in Pipes \ {p} : pipes'[q] = pipes[q]
    <3>1. <<>> \in Seq(Int)
      OBVIOUS
    <3> QED BY <1>1, <2>1, <2>2, <3>1
  <2>7. pfd'[1] = r /\ pfd'[2] = w
    BY <2>2
  <2>8. TypeOK'
    BY <1>2, <2>3, <2>5, <2>6, <2>7 DEF TypeOK
  <2>9. StandardOK'
    <3>1. fd'[0] = fd[0] /\ fd'[1] = fd[1]
      BY <2>1, <2>5, Kinds DEF Allocated
    <3>2. saved_stdin # -1 => fd'[saved_stdin] = fd[saved_stdin]
      BY <2>1, <2>5, Kinds DEF StandardOK, TypeOK
    <3> QED BY <1>2, <2>2, <3>1, <3>2 DEF StandardOK
  <2>10. OneWriteEnd'
    <3> SUFFICES ASSUME NEW d \in Descriptors, NEW q \in Pipes, fd'[d] = WriteEnd(q)
                 PROVE  d = w
      BY <2>2, <2>7 DEF OneWriteEnd, HasPipe
    <3> QED BY <1>1, <2>5 DEF OneWriteEnd, HasPipe
  <2>11. i > 1 => /\ in \in Allocated /\ IsRead(fd[in]) /\ in # r /\ in # w
                  /\ fd'[in] = fd[in] /\ fd[in][2] # p
    <3> SUFFICES ASSUME i > 1 PROVE /\ in \in Allocated /\ IsRead(fd[in]) /\ in # r /\ in # w
                                    /\ fd'[in] = fd[in] /\ fd[in][2] # p
      OBVIOUS
    <3>1. in \in Allocated /\ IsRead(fd[in])
      BY <1>1 DEF InputOK, Running
    <3>2. in \in Descriptors
      BY <3>1 DEF Allocated
    <3>3. in # r /\ in # w
      BY <2>1, <3>1, ReadEnds
    <3>4. fd[in][2] # p
      BY <2>1, <3>1, <3>2 DEF IsRead
    <3> QED BY <2>5, <3>1, <3>2, <3>3, <3>4
  <2>12. PairOK'
    <3>1. IsRead(fd'[r]) /\ OutPipe' = p
      BY <2>1, <2>5, <2>7, ReadEnds DEF OutPipe
    <3>2. \A d \in Descriptors \ {r} : fd'[d] # ReadEnd(p)
      BY <2>1, <2>5
    <3>3. pc' = "stage" /\ fd'[w] = WriteEnd(p) /\ pipes'[p] = <<>> /\ in' = in /\ (i > 1 => in # r)
      BY <1>2, <2>2, <2>5, <2>6, <2>11
    <3> QED BY <2>1, <2>7, <3>1, <3>2, <3>3 DEF PairOK, HasPipe
  <2>13. InputOK'
    <3>1. i = 1 => in = 0
      BY <1>1 DEF InputOK, Running
    <3>2. i > 1 /\ ~short => Len(pipes[InPipe]) = sent /\ WrittenBy(InPipe, i - 1)
      BY <1>1 DEF InputOK, Running, HasChild
    <3>3. i > 1 => InPipe' = InPipe /\ pipes'[InPipe] = pipes[InPipe]
      BY <1>2, <2>6, <2>11 DEF InPipe, IsRead
    <3> QED BY <1>1, <1>2, <2>2, <2>11, <3>1, <3>2, <3>3 DEF InputOK, WrittenBy
  <2>14. ChildOK' /\ PromptIsTheTerminals'
    BY <1>1, <1>2, <2>2 DEF ChildOK, HasChild, PromptIsTheTerminals
  <2>15. Phase2OK'
    <3>1. FreeIn(fd) # {}
      BY <1>3, FreeIsFinite, FS_EmptySet
    <3>2. phase = 2 => saved_stdin # -1 /\ fd[0] = Tty
      BY <1>1, <3>1 DEF Phase2OK, Running
    <3>3. fd'[0] = fd[0]
      BY <2>1, <2>5 DEF Allocated
    <3> QED BY <1>2, <3>2, <3>3 DEF Phase2OK
  <2> QED BY <2>8, <2>9, <2>10, <2>12, <2>13, <2>14, <2>15
<1>4. CASE ~(Cardinality(FreeIn(fd)) >= 2)
  <2>1. /\ short' = TRUE /\ pc' = IF i = 1 THEN "undefined" ELSE "stage"
        /\ UNCHANGED <<fd, pipes, pfd>>
    BY <1>4
  <2>2. TypeOK' /\ StandardOK' /\ OneWriteEnd'
    BY <1>1, <1>2, <2>1 DEF TypeOK, StandardOK, OneWriteEnd, HasPipe
  <2>3. PairOK'
    <3>1. i > 1 => /\ pfd[1] \in Allocated /\ pfd[2] \in Allocated /\ pfd[1] # pfd[2]
                   /\ in = pfd[1] /\ fd[pfd[2]] = None /\ IsRead(fd[in])
      BY <1>1 DEF PairOK, InputOK, Running
    <3> QED BY <1>1, <1>2, <2>1, <3>1 DEF PairOK, HasPipe
  <2>4. InputOK' /\ ChildOK' /\ PromptIsTheTerminals'
    BY <1>1, <1>2, <2>1 DEF InputOK, Running, ChildOK, HasChild, PromptIsTheTerminals
  <2>5. Phase2OK'
    BY <1>1, <1>2, <2>1 DEF Phase2OK, Running
  <2> QED BY <2>2, <2>3, <2>4, <2>5
<1> QED BY <1>3, <1>4
\* Descriptor 0 of the shell is the terminal or a pipe to be read, and so is
\* what a stage is to read.
LEMMA Sources ==
    ASSUME Inv
    PROVE  /\ fd[0] = Tty \/ IsRead(fd[0])
           /\ Running /\ i > 1 => in \in Allocated /\ in \in Descriptors /\ IsRead(fd[in])
           /\ Running => (i > 1 <=> in # 0)
<1> USE DescriptorsStart DEF Inv
<1>1. fd[0] \in Files /\ fd[0] # None
  BY DEF TypeOK, StandardOK
<1>2. \A p \in Pipes : fd[0] # WriteEnd(p)
  BY DEF OneWriteEnd, PairOK, Allocated
<1>3. fd[0] = Tty \/ IsRead(fd[0])
  BY <1>1, <1>2, FileCases
<1>4. Running /\ i > 1 => in \in Allocated /\ in \in Descriptors /\ IsRead(fd[in])
  BY DEF InputOK, Allocated
<1>5. Running => (i > 1 <=> in # 0)
  BY <1>4 DEF InputOK, TypeOK, Allocated
<1> QED BY <1>3, <1>4, <1>5

LEMMA CreateInv == ASSUME Inv, create_sub_process PROVE Inv'
<1> USE DescriptorsStart, Kinds DEF Inv
<1> DEFINE t == IF in # 0 THEN Close(Dup2(fd, in, 0), in) ELSE fd
           source == IF in # 0 THEN in ELSE 0
           out == pfd[2]
<1>1. /\ pc = "stage" /\ pc' = "wait"
      /\ prog' = cmd[i] /\ cfd' = Close(Dup2(t, out, 1), out) /\ held' = -1 /\ got' = 0
  BY DEF create_sub_process, Starts
<1>2. UNCHANGED <<phase, shell, pipes, sent, short>>
  BY DEF create_sub_process
<1>3. UNCHANGED <<fd, saved_stdin, cmd, i, in, pfd>>
  BY <1>2 DEF shell
<1>4. /\ fd \in [Descriptors -> Files] /\ fd[1] = Tty /\ i \in Nat /\ i >= 1
      /\ out \in Descriptors /\ out \notin {0, 1}
      /\ pfd[1] \in Descriptors /\ pfd[1] \notin {0, 1}
      /\ fd[out] \in {None, WriteEnd(OutPipe)}
  BY <1>1 DEF TypeOK, StandardOK, PairOK, HasPipe, Allocated, InputOK, Running
<1>5. /\ source \in Descriptors /\ (fd[source] = Tty \/ IsRead(fd[source]))
      /\ i > 1 => source = in /\ IsRead(fd[source])
      /\ source # 1 /\ source # out
  <2>1. CASE in = 0
    <3>1. ~(i > 1)
      BY <1>1, <2>1, Sources DEF Running
    <3>2. source = 0
      BY <2>1
    <3> QED BY <1>4, <3>1, <3>2, Sources
  <2>2. CASE in # 0
    <3>1. source = in /\ in \in Descriptors /\ in \notin {0, 1} /\ IsRead(fd[in])
      BY <1>1, <2>2, Sources DEF Running, Allocated
    <3>2. in # out
      BY <1>4, <3>1, ReadEnds DEF IsRead
    <3> QED BY <3>1, <3>2
  <2> QED BY <2>1, <2>2
<1>6. /\ t \in [Descriptors -> Files] /\ t[0] = fd[source] /\ t[1] = Tty
      /\ \A d \in Descriptors \ {0, source} : t[d] = fd[d]
      /\ source # 0 => t[source] = None
  <2>1. CASE in = 0
    BY <1>4, <2>1
  <2>2. CASE in # 0
    <3> DEFINE u == Dup2(fd, in, 0)
    <3>1. u \in [Descriptors -> Files] /\ u[0] = fd[in] /\ \A d \in Descriptors \ {0} : u[d] = fd[d]
      BY <1>4, <1>5, <2>2, Dup2Works, ReadEnds
    <3>2. /\ Close(u, in) \in [Descriptors -> Files]
          /\ \A d \in Descriptors : Close(u, in)[d] = IF d = in THEN None ELSE u[d]
      BY <3>1, CloseWorks
    <3>3. t = Close(u, in)
      BY <2>2
    <3> HIDE DEF u, t
    <3> QED BY <1>4, <1>5, <2>2, <3>1, <3>2, <3>3
  <2> QED BY <2>1, <2>2
<1> HIDE DEF t
<1>7. /\ cfd' \in [Descriptors -> Files]
      /\ cfd'[0] = fd[source]
      /\ cfd'[1] = IF fd[out] # None THEN fd[out] ELSE Tty
      /\ cfd'[out] = None
      /\ \A d \in Descriptors \ {0, 1, out} : cfd'[d] \in {None, fd[d]}
  <2> DEFINE u == Dup2(t, out, 1)
  <2>1. /\ u \in [Descriptors -> Files]
        /\ u[1] = IF fd[out] # None THEN fd[out] ELSE Tty
        /\ \A d \in Descriptors \ {1} : u[d] = t[d]
    BY <1>4, <1>5, <1>6, Dup2Works
  <2>2. /\ Close(u, out) \in [Descriptors -> Files]
        /\ \A d \in Descriptors : Close(u, out)[d] = IF d = out THEN None ELSE u[d]
    BY <2>1, CloseWorks
  <2>3. cfd' = Close(u, out)
    BY <1>1
  <2> HIDE DEF u
  <2> QED BY <1>4, <1>5, <1>6, <2>1, <2>2, <2>3
<1> HIDE DEF source, out
<1>8. \A q \in Pipes : IsRead(fd[source]) /\ q = fd[source][2] => \A d \in Descriptors : fd[d] # WriteEnd(q)
  <2> SUFFICES ASSUME NEW q \in Pipes, NEW d \in Descriptors, fd[source] = ReadEnd(q), fd[d] = WriteEnd(q)
               PROVE  FALSE
    BY DEF IsRead
  <2>1. d = out /\ fd[out] # None
    BY DEF OneWriteEnd, out
  <2>2. q = OutPipe
    BY <1>4, <2>1
  <2>3. /\ i > 1 => in # pfd[1]
        /\ \A e \in Descriptors \ {pfd[1]} : fd[e] # ReadEnd(OutPipe)
    BY <1>1, <2>1 DEF PairOK, HasPipe, out
  <2>4. source # pfd[1]
    BY <1>1, <1>4, <2>3, Sources DEF source, Running
  <2> QED BY <1>5, <2>2, <2>3, <2>4
<1>9. \A q \in Pipes : IsRead(fd[source]) /\ q = fd[source][2] =>
         \A d \in Descriptors : cfd'[d] # WriteEnd(q)
  <2> SUFFICES ASSUME NEW q \in Pipes, NEW d \in Descriptors, fd[source] = ReadEnd(q),
                      cfd'[d] = WriteEnd(q)
               PROVE  FALSE
    BY DEF IsRead
  <2>1. \A e \in Descriptors : fd[e] # WriteEnd(q)
    BY <1>8, ReadEnds
  <2> QED BY <1>4, <1>5, <1>7, <2>1, ReadEnds
<1>10. TypeOK'
  BY <1>1, <1>2, <1>3, <1>7 DEF TypeOK
<1>11. StandardOK' /\ OneWriteEnd' /\ PromptIsTheTerminals'
  BY <1>1, <1>2, <1>3 DEF StandardOK, OneWriteEnd, HasPipe, PromptIsTheTerminals
<1>12. PairOK'
  <2>1. ~short => pipes[OutPipe] = <<>>
    BY <1>1 DEF PairOK
  <2>2. ~short => WrittenBy(OutPipe, i)
    BY <2>1 DEF WrittenBy
  <2> QED BY <1>1, <1>2, <1>3, <2>2 DEF PairOK, HasPipe, OutPipe, WrittenBy
<1>13. InputOK'
  BY <1>1, <1>2, <1>3 DEF InputOK, Running, HasChild
<1>14. ChildOK'
  <2>1. cfd'[0] = Tty \/ IsRead(cfd'[0])
    BY <1>5, <1>7
  <2>2. IsRead(cfd'[0]) => \A d \in Descriptors : /\ fd'[d] # WriteEnd(cfd'[0][2])
                                                 /\ cfd'[d] # WriteEnd(cfd'[0][2])
    BY <1>3, <1>7, <1>8, <1>9 DEF IsRead
  <2>3. /\ cfd'[1] = Tty \/ (cfd'[1] = WriteEnd(OutPipe') /\ fd'[pfd'[2]] = cfd'[1])
        /\ ~short => cfd'[1] # Tty
    <3>1. OutPipe' = OutPipe
      BY <1>3 DEF OutPipe
    <3>2. ~short => fd[out] # None
      BY <1>1 DEF PairOK, HasPipe, out
    <3> QED BY <1>3, <1>4, <1>7, <3>1, <3>2 DEF out
  <2>4. i > 1 /\ ~short => /\ IsRead(cfd'[0]) /\ WrittenBy(cfd'[0][2], i - 1)
                           /\ Len(pipes[cfd'[0][2]]) = sent
    <3>1. i > 1 => cfd'[0] = fd[in] /\ IsRead(fd[in])
      BY <1>5, <1>7
    <3>2. i > 1 /\ ~short => Len(pipes[InPipe]) = sent /\ WrittenBy(InPipe, i - 1)
      BY <1>1 DEF InputOK, Running, HasChild
    <3> QED BY <3>1, <3>2 DEF InPipe
  <2>5. cmd[i] = "cat" => prog' = "cat"
    BY <1>1
  <2>6. (prog' = "cat" => prog' # "ended") /\ (prog' = "ended" => cmd[i] # "cat")
    BY <1>1
  <2>7. (WrittenBy(cfd[0][2], i - 1))' <=> WrittenBy(cfd'[0][2], i - 1)
    BY <1>2, <1>3 DEF WrittenBy
  <2>8. sent \in Nat
    BY DEF TypeOK
  <2>9. pc' = "wait" /\ i' = i /\ cmd' = cmd /\ short' = short /\ sent' = sent /\ pipes' = pipes
    BY <1>1, <1>2, <1>3
  <2> QED BY <1>1, <2>1, <2>2, <2>3, <2>4, <2>5, <2>6, <2>7, <2>8, <2>9
          DEF ChildOK, HasChild, HasWriter, Open
<1>15. Phase2OK'
  BY <1>1, <1>2, <1>3 DEF Phase2OK, Running
<1> QED BY <1>10, <1>11, <1>12, <1>13, <1>14, <1>15
LEMMA NextStageInv == ASSUME Inv, NextStage PROVE Inv'
<1> USE DescriptorsStart, Kinds DEF Inv
<1>1. /\ pc = "wait" /\ pc' = "loop" /\ prog' = "none" /\ i' = i + 1 /\ in' = pfd[1]
      /\ fd' = Close(fd, pfd[2]) /\ sent' = Left /\ held' = -1 /\ got' = 0
      /\ cfd' = [d \in Descriptors |-> None]
      /\ UNCHANGED <<phase, saved_stdin, cmd, pfd, pipes, short>>
  BY DEF NextStage, NoChild
<1>2. /\ i \in Nat /\ i >= 1 /\ fd \in [Descriptors -> Files]
      /\ pfd[1] \in Allocated /\ pfd[2] \in Allocated /\ pfd[1] # pfd[2]
      /\ pfd[1] \in Descriptors /\ pfd[2] \in Descriptors
      /\ IsRead(fd[pfd[1]])
  BY <1>1 DEF TypeOK, InputOK, Running, PairOK, HasPipe, Allocated
<1>3. fd' \in [Descriptors -> Files] /\ \A d \in Descriptors : fd'[d] = IF d = pfd[2] THEN None ELSE fd[d]
  BY <1>1, <1>2, CloseWorks
<1>4. fd'[pfd[1]] = fd[pfd[1]] /\ OutPipe \in Pipes /\ InPipe' = OutPipe
  BY <1>1, <1>2, <1>3 DEF InPipe, OutPipe, IsRead
<1>5. pipes \in [Pipes -> Seq(Int)]
  BY DEF TypeOK
<1>6. /\ cfd[1] = Tty \/ cfd[1] = WriteEnd(OutPipe)
      /\ ~short => cfd[1] # Tty /\ WrittenBy(OutPipe, i)
  BY <1>1 DEF ChildOK, HasChild, PairOK
<1>7. Left \in Nat /\ (~short => Left = Len(pipes[OutPipe]))
  <2>1. Contents(cfd[1]) \in Seq(Int) /\ (~short => Contents(cfd[1]) = pipes[OutPipe])
    <3>1. pipes[OutPipe] \in Seq(Int) /\ <<>> \in Seq(Int)
      BY <1>4, <1>5
    <3>2. cfd[1] = Tty => Contents(cfd[1]) = <<>>
      BY ContentsOf
    <3>3. cfd[1] = WriteEnd(OutPipe) => Contents(cfd[1]) = pipes[OutPipe]
      BY ContentsOf
    <3> QED BY <1>6, <3>1, <3>2, <3>3
  <2> QED BY <2>1, LenProperties DEF Left
<1>8. TypeOK'
  <2>1. cfd' \in [Descriptors -> Files]
    BY <1>1 DEF Files
  <2> QED BY <1>1, <1>2, <1>3, <1>7, <2>1 DEF TypeOK
<1>9. StandardOK'
  <2>1. \A d \in Descriptors : fd[d] = Tty => fd'[d] = Tty
    <3> SUFFICES ASSUME fd[pfd[2]] = Tty PROVE FALSE
      BY <1>3
    <3> QED BY <1>1 DEF PairOK, HasPipe
  <2>2. fd'[0] = fd[0]
    BY <1>2, <1>3 DEF Allocated
  <2> QED BY <1>1, <2>1, <2>2 DEF StandardOK, TypeOK
<1>10. OneWriteEnd'
  BY <1>1, <1>3 DEF OneWriteEnd
<1>11. PairOK'
  BY <1>1, <1>2, <1>3 DEF PairOK, HasPipe
<1>12. InputOK'
  <2>1. ~short => WrittenBy(OutPipe, i) /\ Len(pipes[OutPipe]) = sent'
    BY <1>1, <1>6, <1>7
  <2>2. i' > 1 /\ i' - 1 = i /\ i' # 1
    BY <1>1, <1>2
  <2> QED BY <1>1, <1>2, <1>4, <2>1, <2>2 DEF InputOK, Running, HasChild, WrittenBy
<1>13. ChildOK' /\ PromptIsTheTerminals'
  BY <1>1 DEF ChildOK, HasChild, PromptIsTheTerminals
<1>14. Phase2OK'
  <2>1. phase = 2 => saved_stdin # -1 /\ fd[0] = Tty
    BY <1>1 DEF Phase2OK, Running
  <2> QED BY <1>1, <1>2, <1>3, <2>1 DEF Phase2OK, Allocated
<1> QED BY <1>8, <1>9, <1>10, <1>11, <1>12, <1>13, <1>14

\* What the last stage finds when in has been connected to descriptor 0.
LEMMA ConnectedWorks ==
    ASSUME Inv, pc = "loop"
    PROVE  /\ Connected \in [Descriptors -> Files]
           /\ \A d \in Descriptors \ {0} : Connected[d] = fd[d]
           /\ Connected[0] = IF in # 0 THEN fd[in] ELSE fd[0]
           /\ Connected[0] = Tty \/ IsRead(Connected[0])
<1> USE DescriptorsStart, Kinds DEF Inv
<1>1. fd \in [Descriptors -> Files]
  BY DEF TypeOK
<1>2. CASE in = 0
  BY <1>1, <1>2, Sources DEF Connected
<1>3. CASE in # 0
  <2>1. in \in Descriptors /\ IsRead(fd[in]) /\ fd[in] # None
    BY <1>3, Sources, ReadEnds DEF Running
  <2> QED BY <1>1, <1>3, <2>1, Dup2Works DEF Connected
<1> QED BY <1>2, <1>3

LEMMA LastStage ==
    ASSUME Inv, AtLast, NEW program, cmd[i] = "cat" => program = "cat",
           prog' = program, cfd' = Connected, held' = -1, got' = 0, pc' = "waitlast",
           UNCHANGED <<phase, saved_stdin, ahead, eof, cmd, i, in, pfd, pipes, sent, short>>,
           fd' \in [Descriptors -> Files], fd'[0] \in {Tty, Connected[0]},
           \A d \in Descriptors \ {0} : fd'[d] = fd[d],
           phase = 2 => fd' = Connected, phase = 3 => fd'[0] = Tty
    PROVE  Inv'
<1> USE DescriptorsStart, Kinds DEF Inv
<1>1. pc = "loop"
  BY DEF AtLast
<1>2. /\ Connected \in [Descriptors -> Files]
      /\ \A d \in Descriptors \ {0} : Connected[d] = fd[d]
      /\ Connected[0] = IF in # 0 THEN fd[in] ELSE fd[0]
      /\ Connected[0] = Tty \/ IsRead(Connected[0])
  BY <1>1, ConnectedWorks
<1>3. \A d \in Descriptors, p \in Pipes : fd[d] # WriteEnd(p)
  BY <1>1 DEF OneWriteEnd, HasPipe
<1>4. fd'[0] # None /\ fd[1] = Tty /\ fd'[1] = Tty
  BY <1>2, ReadEnds DEF StandardOK
<1>5. \A d \in Descriptors, p \in Pipes : fd'[d] # WriteEnd(p) /\ Connected[d] # WriteEnd(p)
  BY <1>2, <1>3, ReadEnds
<1>6. TypeOK'
  BY <1>2 DEF TypeOK
<1>7. StandardOK'
  BY <1>4 DEF StandardOK, TypeOK
<1>8. OneWriteEnd' /\ PairOK' /\ PromptIsTheTerminals'
  BY <1>5 DEF OneWriteEnd, PairOK, HasPipe, PromptIsTheTerminals
<1>9. i > 1 => in \in Allocated /\ in \in Descriptors /\ in # 0 /\ IsRead(fd[in]) /\ fd'[in] = fd[in]
  BY <1>1, Sources DEF Running
<1>10. InputOK'
  BY <1>1, <1>9 DEF InputOK, Running, HasChild
<1>11. ChildOK'
  <2>1. cfd'[1] = Tty
    BY <1>2, <1>4
  <2>2. IsRead(cfd'[0]) => \A d \in Descriptors : /\ fd'[d] # WriteEnd(cfd'[0][2])
                                                 /\ cfd'[d] # WriteEnd(cfd'[0][2])
    BY <1>5 DEF IsRead
  <2>3. i > 1 /\ ~short => /\ IsRead(cfd'[0]) /\ WrittenBy(cfd'[0][2], i - 1)
                           /\ Len(pipes[cfd'[0][2]]) = sent
    <3>1. i > 1 => cfd'[0] = fd[in] /\ IsRead(fd[in])
      BY <1>2, <1>9
    <3>2. i > 1 /\ ~short => Len(pipes[InPipe]) = sent /\ WrittenBy(InPipe, i - 1)
      BY <1>1 DEF InputOK, Running, HasChild
    <3> QED BY <3>1, <3>2 DEF InPipe
  <2>4. (WrittenBy(cfd[0][2], i - 1))' <=> WrittenBy(cfd'[0][2], i - 1)
    BY DEF WrittenBy
  <2>5. sent \in Nat
    BY DEF TypeOK
  <2> QED BY <1>2, <2>1, <2>2, <2>3, <2>4, <2>5 DEF ChildOK, HasChild, HasWriter, Open
<1>12. Phase2OK'
  <2>1. phase = 2 /\ saved_stdin = -1 => FreeIn(fd) = {} /\ i = 1 /\ in = 0 /\ fd[0] = Tty
    BY <1>1 DEF Phase2OK, Running, InputOK
  <2>2. phase = 2 /\ saved_stdin = -1 => fd' = fd
    BY <2>1 DEF Connected
  <2> QED BY <2>1, <2>2 DEF Phase2OK, FreeIn
<1> QED BY <1>6, <1>7, <1>8, <1>10, <1>11, <1>12

LEMMA ForkLastInv == ASSUME Inv, ForkLast2 \/ ForkLast3 PROVE Inv'
<1> USE DEF Inv
<1>1. CASE ForkLast2
  <2> DEFINE program == IF BuiltIn(cmd[i]) THEN "missing" ELSE cmd[i]
  <2>1. /\ AtLast /\ prog' = program /\ cfd' = Connected /\ held' = -1 /\ got' = 0
        /\ pc' = "waitlast" /\ fd' = Connected
        /\ UNCHANGED <<phase, saved_stdin, ahead, eof, cmd, i, in, pfd, pipes, sent, short>>
    BY <1>1 DEF ForkLast2, Starts
  <2>2. cmd[i] = "cat" => program = "cat"
    BY DEF BuiltIn
  <2>3. /\ fd' \in [Descriptors -> Files] /\ \A d \in Descriptors \ {0} : fd'[d] = fd[d]
        /\ phase # 3
    BY <1>1, <2>1, ConnectedWorks DEF AtLast, ForkLast2
  <2> HIDE DEF program
  <2> QED BY <2>1, <2>2, <2>3, LastStage
<1>2. CASE ForkLast3
  <2>1. /\ AtLast /\ prog' = cmd[i] /\ cfd' = Connected /\ held' = -1 /\ got' = 0
        /\ pc' = "waitlast" /\ fd' = Dup2(Connected, saved_stdin, 0) /\ phase = 3
        /\ UNCHANGED <<phase, saved_stdin, ahead, eof, cmd, i, in, pfd, pipes, sent, short>>
    BY <1>2 DEF ForkLast3, Starts
  <2>2. /\ Connected \in [Descriptors -> Files]
        /\ \A d \in Descriptors \ {0} : Connected[d] = fd[d]
    BY <2>1, ConnectedWorks DEF AtLast
  <2>3. saved_stdin \in Descriptors /\ saved_stdin # 0 /\ fd[saved_stdin] = Tty
    BY <2>1 DEF StandardOK, TypeOK
  <2>4. /\ fd' \in [Descriptors -> Files] /\ fd'[0] = Tty
        /\ \A d \in Descriptors \ {0} : fd'[d] = fd[d]
    BY <2>1, <2>2, <2>3, Dup2Works, DescriptorsStart, Kinds
  <2> QED BY <2>1, <2>4, LastStage
<1> QED BY <1>1, <1>2

LEMMA RunBuiltInInv == ASSUME Inv, RunBuiltIn PROVE Inv'
<1> USE DescriptorsStart, Kinds DEF Inv
<1>1. /\ pc = "loop" /\ i = Len(cmd) /\ BuiltIn(cmd[i]) /\ (phase = 3 \/ i = 1)
      /\ fd' = Connected /\ pc' \in {"exited", "prompt"} /\ prog = "none"
      /\ UNCHANGED <<phase, saved_stdin, cmd, i, in, pfd, pipes, child, sent, short>>
  BY DEF RunBuiltIn, AtLast, ChildOK, HasChild
<1>2. /\ fd' \in [Descriptors -> Files]
      /\ \A d \in Descriptors \ {0} : fd'[d] = fd[d]
      /\ fd'[0] = Tty \/ IsRead(fd'[0])
      /\ fd'[0] = IF in # 0 THEN fd[in] ELSE fd[0]
  BY <1>1, ConnectedWorks
<1>3. TypeOK'
  BY <1>1, <1>2 DEF TypeOK, child
<1>4. StandardOK'
  BY <1>1, <1>2, ReadEnds DEF StandardOK, TypeOK
<1>5. OneWriteEnd'
  BY <1>1, <1>2, ReadEnds DEF OneWriteEnd, HasPipe
<1>6. PairOK' /\ InputOK' /\ ChildOK' /\ PromptIsTheTerminals'
  <2>1. phase = 2 => fd'[0] = Tty
    BY <1>1, <1>2 DEF InputOK, Running, Phase2OK
  <2>2. phase \in {2, 3}
    BY DEF TypeOK
  <2> QED BY <1>1, <2>1, <2>2
          DEF PairOK, InputOK, Running, HasPipe, ChildOK, HasChild, PromptIsTheTerminals, child
<1>7. Phase2OK'
  BY <1>1, <1>2 DEF InputOK, Running, Phase2OK
<1> QED BY <1>3, <1>4, <1>5, <1>6, <1>7

LEMMA WaitLastInv == ASSUME Inv, WaitLast PROVE Inv'
<1> USE DescriptorsStart, Kinds DEF Inv
<1>1. /\ pc = "waitlast" /\ pc' = "prompt" /\ prog' = "none" /\ held' = -1 /\ got' = 0 /\ sent' = 0
      /\ fd' = IF phase = 2 THEN Dup2(fd, saved_stdin, 0) ELSE fd
      /\ cfd' = [d \in Descriptors |-> None]
      /\ UNCHANGED <<phase, saved_stdin, cmd, i, in, pfd, pipes, short>>
  BY DEF WaitLast, NoChild
<1>2. fd \in [Descriptors -> Files]
  BY DEF TypeOK
<1>3. /\ fd' \in [Descriptors -> Files]
      /\ \A d \in Descriptors \ {0} : fd'[d] = fd[d]
      /\ fd'[0] # None /\ (fd'[0] = fd[0] \/ fd'[0] = Tty)
      /\ phase = 2 => fd'[0] = Tty
  <2>1. phase = 2 => /\ saved_stdin = -1 => fd[0] = Tty
                     /\ saved_stdin # -1 => saved_stdin \in Descriptors /\ fd[saved_stdin] = Tty
    BY <1>1 DEF Phase2OK, Running, StandardOK, TypeOK
  <2> QED BY <1>1, <1>2, <2>1, Dup2Works DEF StandardOK
<1>4. TypeOK'
  <2>1. cfd' \in [Descriptors -> Files]
    BY <1>1 DEF Files
  <2> QED BY <1>1, <1>3, <2>1 DEF TypeOK
<1>5. StandardOK' /\ OneWriteEnd'
  BY <1>1, <1>3 DEF StandardOK, OneWriteEnd, HasPipe, TypeOK
<1>6. PairOK' /\ InputOK' /\ ChildOK' /\ Phase2OK'
  BY <1>1, <1>3 DEF PairOK, InputOK, Running, HasPipe, ChildOK, HasChild, Phase2OK
<1>7. PromptIsTheTerminals'
  <2>1. fd'[0] = Tty
    BY <1>1, <1>3 DEF StandardOK, TypeOK
  <2> QED BY <2>1 DEF PromptIsTheTerminals
<1> QED BY <1>4, <1>5, <1>6, <1>7
(* The program the child runs                                              *)

\* What a running program can find: it exists only while the shell waits.
LEMMA ChildWaits == ASSUME Inv, Alive \/ Reading PROVE HasChild
  BY DEF Inv, ChildOK, Alive, Reading

\* An action of the child leaves the shell alone.
LEMMA ShellStays ==
    ASSUME Inv, HasChild, UNCHANGED <<phase, pc, shell, cfd, sent, short>>,
           pipes' \in [Pipes -> Seq(Int)], held' \in Int, got' \in Nat,
           pc = "wait" /\ ~short => WrittenBy(OutPipe, i)', ChildOK'
    PROVE  Inv'
<1> USE DEF Inv, shell
<1>1. TypeOK'
  BY DEF TypeOK
<1>2. StandardOK' /\ OneWriteEnd' /\ PromptIsTheTerminals' /\ Phase2OK'
  BY DEF StandardOK, OneWriteEnd, HasPipe, HasChild, PromptIsTheTerminals, Phase2OK, Running
<1>3. PairOK'
  BY DEF PairOK, HasPipe, HasChild, OutPipe
<1>4. InputOK'
  BY DEF InputOK, Running, HasChild
<1> QED BY <1>1, <1>2, <1>3, <1>4

LEMMA WriteInv == ASSUME Inv, Write PROVE Inv'
<1> USE DescriptorsStart, Kinds DEF Inv
<1>1. /\ Alive /\ prog' = prog /\ got' = got
      /\ UNCHANGED <<phase, pc, shell, cfd, sent, short>>
      /\ UNCHANGED <<fd, cmd, i, in, pfd>>
      /\ held' = -1 \/ held' = held
      /\ pipes' = IF cfd[1] = Tty THEN pipes ELSE [pipes EXCEPT ![cfd[1][2]] = Put(cfd[1][2])]
  BY DEF Write, shell
<1>2. HasChild
  BY <1>1, ChildWaits
<1>3. /\ pipes \in [Pipes -> Seq(Int)] /\ i \in Nat /\ i >= 1
      /\ cfd[1] = Tty \/ (pc = "wait" /\ cfd[1] = WriteEnd(OutPipe) /\ fd[pfd[2]] = cfd[1])
  BY <1>2 DEF TypeOK, ChildOK, HasChild, InputOK, Running
<1>4. CASE cfd[1] = Tty
  <2>1. pipes' = pipes
    BY <1>1, <1>4
  <2>2. pc = "wait" /\ ~short => WrittenBy(OutPipe, i)'
    BY <1>1, <2>1 DEF PairOK, WrittenBy, OutPipe
  <2>3. ChildOK'
    BY <1>1, <1>2, <2>1 DEF ChildOK, HasChild, HasWriter, Open, OutPipe, WrittenBy
  <2>4. held' \in Int /\ got' \in Nat
    BY <1>1 DEF TypeOK
  <2> QED BY <1>1, <1>2, <1>3, <2>1, <2>2, <2>3, <2>4, ShellStays
<1>5. CASE cfd[1] # Tty
  <2>1. /\ pc = "wait" /\ OutPipe \in Pipes /\ cfd[1] = WriteEnd(OutPipe) /\ fd[pfd[2]] = WriteEnd(OutPipe)
    BY <1>3, <1>5 DEF PairOK, HasPipe, IsRead, OutPipe
  <2>2. pfd[2] \in Descriptors
    BY <2>1 DEF PairOK, HasPipe, Allocated
  <2>3. pipes' = [pipes EXCEPT ![OutPipe] = Append(pipes[OutPipe], i)]
    <3>1. cfd[1][2] = OutPipe
      BY <2>1 DEF WriteEnd
    <3> QED BY <1>1, <1>5, <3>1 DEF Put
  <2>4. pipes[OutPipe] \in Seq(Int)
    BY <1>3, <2>1
  <2>5. pipes' \in [Pipes -> Seq(Int)]
    BY <1>3, <2>1, <2>3, <2>4, AppendProperties
  <2>6. WrittenBy(OutPipe, i) => WrittenBy(OutPipe, i)'
    <3>1. OutPipe' = OutPipe /\ i' = i
      BY <1>1 DEF OutPipe
    <3>2. pipes'[OutPipe] = Append(pipes[OutPipe], i)
      BY <1>3, <2>1, <2>3
    <3> QED BY <1>3, <2>4, <3>1, <3>2, AppendProperties DEF WrittenBy
  <2>7. pc = "wait" /\ ~short => WrittenBy(OutPipe, i)'
    BY <2>6 DEF PairOK
  <2>8. IsRead(cfd[0]) => cfd[0][2] \in Pipes /\ pipes'[cfd[0][2]] = pipes[cfd[0][2]]
    <3>1. IsRead(cfd[0]) => cfd[0][2] # OutPipe
      BY <1>2, <2>1, <2>2 DEF ChildOK, HasWriter, Open
    <3> QED BY <1>3, <2>3, <3>1 DEF IsRead
  <2>9. ChildOK'
    <3>1. WrittenBy(cfd[0][2], i - 1)' <=> \A n \in 1..Len(pipes'[cfd[0][2]]) : pipes'[cfd[0][2]][n] = i - 1
      BY <1>1 DEF WrittenBy
    <3> QED BY <1>1, <1>2, <2>1, <2>8, <3>1 DEF ChildOK, HasChild, HasWriter, Open, OutPipe, WrittenBy
  <2>10. held' \in Int /\ got' \in Nat
    BY <1>1 DEF TypeOK
  <2> QED BY <1>1, <1>2, <2>5, <2>7, <2>9, <2>10, ShellStays
<1> QED BY <1>4, <1>5

\* A line that moves from one count to another leaves their sum.
LEMMA OneOver ==
    ASSUME NEW g \in Int, NEW n \in Int, NEW s, g + n = s
    PROVE  (g + 1) + (n - 1) = s
  OBVIOUS

LEMMA ReadPipeInv == ASSUME Inv, ReadPipe PROVE Inv'
<1> USE DEF Inv
<1> DEFINE q == cfd[0][2]
<1>1. /\ Reading /\ prog = "cat" /\ prog' = prog /\ got' = got + 1
      /\ UNCHANGED <<phase, pc, shell, cfd, sent, short>>
      /\ UNCHANGED <<fd, cmd, i, in, pfd>>
      /\ held' = Head(Contents(cfd[0])) /\ Contents(cfd[0]) # <<>>
      /\ pipes' = [pipes EXCEPT ![q] = Tail(pipes[q])]
  BY DEF ReadPipe, shell, Reading
<1>2. HasChild
  BY <1>1, ChildWaits
<1>3. /\ pipes \in [Pipes -> Seq(Int)] /\ i \in Nat /\ i >= 1 /\ got \in Nat /\ sent \in Nat
      /\ pc \in {"wait", "waitlast"}
  BY <1>2 DEF TypeOK, HasChild, InputOK, Running
<1>4. IsRead(cfd[0]) /\ q \in Pipes /\ cfd[0] = ReadEnd(q) /\ ~HasWriter(q)
  BY <1>1, <1>2, ContentsOf, Kinds DEF ChildOK, IsRead
<1> HIDE DEF q
<1>5. Contents(cfd[0]) = pipes[q] /\ pipes[q] \in Seq(Int) /\ pipes[q] # <<>>
  BY <1>1, <1>3, <1>4, ContentsOf
<1>6. /\ Tail(pipes[q]) \in Seq(Int) /\ Len(Tail(pipes[q])) = Len(pipes[q]) - 1
      /\ Len(pipes[q]) \in Nat \ {0} /\ Head(pipes[q]) = pipes[q][1] /\ pipes[q][1] \in Int
      /\ \A n \in 1..Len(Tail(pipes[q])) : Tail(pipes[q])[n] = pipes[q][n + 1]
  BY <1>5, HeadTailProperties, LenProperties
<1>7. /\ pipes' \in [Pipes -> Seq(Int)] /\ pipes'[q] = Tail(pipes[q])
      /\ \A p \in Pipes \ {q} : pipes'[p] = pipes[p]
  BY <1>1, <1>3, <1>4, <1>6
<1>8. pc = "wait" /\ ~short => WrittenBy(OutPipe, i)'
  <2> SUFFICES ASSUME pc = "wait", ~short PROVE WrittenBy(OutPipe, i)'
    OBVIOUS
  <2>1. /\ fd[pfd[2]] = WriteEnd(OutPipe) /\ OutPipe \in Pipes /\ pfd[2] \in Descriptors
        /\ WrittenBy(OutPipe, i)
    BY DEF PairOK, HasPipe, Allocated, IsRead, OutPipe
  <2>2. OutPipe # q
    BY <1>4, <2>1 DEF HasWriter, Open
  <2>3. OutPipe' = OutPipe
    BY <1>1 DEF OutPipe
  <2> QED BY <1>1, <1>7, <2>1, <2>2, <2>3 DEF WrittenBy
<1>9. ASSUME i > 1, ~short
      PROVE  /\ pipes[q][1] = i - 1 /\ got + Len(pipes[q]) = sent
             /\ \A n \in 1..Len(pipes[q]) : pipes[q][n] = i - 1
  <2>1. WrittenBy(q, i - 1) /\ got + Len(pipes[q]) = sent
    BY <1>1, <1>2, <1>9 DEF ChildOK, q
  <2> QED BY <1>6, <2>1 DEF WrittenBy
<1>10. i > 1 /\ ~short => /\ held' = i - 1 /\ got' + Len(pipes'[q]) = sent
                          /\ \A n \in 1..Len(pipes'[q]) : pipes'[q][n] = i - 1
  <2> SUFFICES ASSUME i > 1, ~short
               PROVE  /\ held' = i - 1 /\ got' + Len(pipes'[q]) = sent
                      /\ \A n \in 1..Len(pipes'[q]) : pipes'[q][n] = i - 1
    OBVIOUS
  <2>1. held' = i - 1
    BY <1>1, <1>5, <1>6, <1>9
  <2>2. got' = got + 1 /\ Len(pipes'[q]) = Len(pipes[q]) - 1 /\ got + Len(pipes[q]) = sent
    <3>1. Len(pipes'[q]) = Len(pipes[q]) - 1
      BY <1>6, <1>7
    <3>2. got' = got + 1
      BY <1>1
    <3>3. got + Len(pipes[q]) = sent
      BY <1>9
    <3> QED BY <3>1, <3>2, <3>3
  <2>3. got' + Len(pipes'[q]) = sent
    <3>1. got \in Int /\ Len(pipes[q]) \in Int
      BY <1>3, <1>6, LenProperties
    <3>2. got + Len(pipes[q]) = sent
      BY <1>9
    <3>3. (got + 1) + (Len(pipes[q]) - 1) = sent
      BY <3>1, <3>2, OneOver
    <3> QED BY <2>2, <3>3
  <2>4. \A n \in 1..Len(pipes'[q]) : pipes'[q][n] = i - 1
    <3> SUFFICES ASSUME NEW n \in 1..Len(pipes'[q]) PROVE pipes'[q][n] = i - 1
      OBVIOUS
    <3>1. n + 1 \in 1..Len(pipes[q]) /\ pipes'[q][n] = pipes[q][n + 1]
      BY <1>6, <1>7, <2>2
    <3> QED BY <1>9, <3>1
  <2> QED BY <2>1, <2>3, <2>4
<1>11. ChildOK'
  <2>1. WrittenBy(cfd[0][2], i - 1)' <=> \A n \in 1..Len(pipes'[q]) : pipes'[q][n] = i - 1
    BY <1>1 DEF WrittenBy, q
  <2> QED BY <1>1, <1>2, <1>10, <2>1 DEF ChildOK, HasChild, HasWriter, Open, OutPipe, q
<1>12. held' \in Int /\ got' \in Nat
  BY <1>1, <1>3, <1>5, <1>6
<1> QED BY <1>1, <1>2, <1>7, <1>8, <1>11, <1>12, ShellStays

LEMMA ReadTtyInv == ASSUME Inv, ReadTty PROVE Inv'
<1> USE DEF Inv
<1>1. /\ Reading /\ prog' = prog /\ cfd[0] = Tty /\ held' = 0 /\ got' = got + 1 /\ pipes' = pipes
      /\ UNCHANGED <<phase, pc, shell, cfd, sent, short>>
      /\ UNCHANGED <<fd, cmd, i, in, pfd>>
  BY DEF ReadTty, shell
<1>2. HasChild
  BY <1>1, ChildWaits
<1>3. ~IsRead(cfd[0])
  BY <1>1, ReadEnds
<1>4. ChildOK'
  BY <1>1, <1>2, <1>3 DEF ChildOK, HasChild, HasWriter, Open, OutPipe
<1>5. pc = "wait" /\ ~short => WrittenBy(OutPipe, i)'
  BY <1>1 DEF PairOK, WrittenBy, OutPipe
<1>6. held' \in Int /\ got' \in Nat /\ pipes' \in [Pipes -> Seq(Int)]
  BY <1>1 DEF TypeOK
<1> QED BY <1>1, <1>2, <1>4, <1>5, <1>6, ShellStays

LEMMA EndInv == ASSUME Inv, End PROVE Inv'
<1> USE DEF Inv
<1>1. /\ Alive /\ prog' = "ended" /\ held = -1
      /\ prog = "cat" => Contents(cfd[0]) = <<>>
      /\ UNCHANGED <<phase, pc, shell, pipes, cfd, held, got, sent, short>>
      /\ UNCHANGED <<fd, cmd, i, in, pfd>>
  BY DEF End, shell
<1>2. HasChild
  BY <1>1, ChildWaits
<1>3. i > 1 /\ ~short /\ cmd[i] = "cat" => got = sent
  <2> SUFFICES ASSUME i > 1, ~short, cmd[i] = "cat" PROVE got = sent
    OBVIOUS
  <2>1. prog = "cat" /\ IsRead(cfd[0]) /\ got + Len(pipes[cfd[0][2]]) = sent
    BY <1>1, <1>2 DEF ChildOK, Alive
  <2>2. pipes[cfd[0][2]] = <<>>
    BY <1>1, <2>1, ContentsOf DEF IsRead
  <2> QED BY <2>1, <2>2 DEF TypeOK
<1>4. ChildOK'
  BY <1>1, <1>2, <1>3 DEF ChildOK, HasChild, HasWriter, Open, OutPipe, WrittenBy
<1>5. pc = "wait" /\ ~short => WrittenBy(OutPipe, i)'
  BY <1>1 DEF PairOK, WrittenBy, OutPipe
<1>6. held' \in Int /\ got' \in Nat /\ pipes' \in [Pipes -> Seq(Int)]
  BY <1>1 DEF TypeOK
<1> QED BY <1>1, <1>2, <1>4, <1>5, <1>6, ShellStays
-----------------------------------------------------------------------------
(* The theorems                                                            *)

LEMMA StepInv == ASSUME Inv, [Next]_vars PROVE Inv'
<1>1. CASE \E c \in Commands : PromptLine(c) \/ PromptPipe(c)
  BY <1>1, PromptInv
<1>2. CASE PromptEof
  BY <1>2, PromptInv
<1>3. CASE execute_command
  BY <1>3, Enter2Inv, Enter3Inv, MakePipeInv, CreateInv, NextStageInv, RunBuiltInInv, ForkLastInv,
     WaitLastInv DEF execute_command
<1>4. CASE Write \/ ReadPipe \/ ReadTty \/ End
  BY <1>4, WriteInv, ReadPipeInv, ReadTtyInv, EndInv
<1>5. CASE UNCHANGED vars
  BY <1>5 DEF vars, shell, child, Inv, TypeOK, StandardOK, OneWriteEnd, PairOK, InputOK, ChildOK,
              Phase2OK, PromptIsTheTerminals, HasPipe, HasChild, Running, InPipe, OutPipe,
              WrittenBy, HasWriter, Open
<1> QED BY <1>1, <1>2, <1>3, <1>4, <1>5 DEF Next, Over, Stuck

LEMMA AlwaysInv == Spec => []Inv
  BY InitInv, StepInv, PTL DEF Spec

\* Whatever the commands, no process is left with the write end of a pipe
\* that a program is to read to its end: create_sub_process closes fd[1] in
\* the child, and execute_command closes it before the next stage.
THEOREM InputsEnd == Spec => []EndOfFileComes
<1>1. ASSUME Inv PROVE EndOfFileComes
  <2> SUFFICES ASSUME Alive, cfd[0] # Tty PROVE cfd[0][1] = "r" /\ ~HasWriter(cfd[0][2])
    BY DEF EndOfFileComes
  <2>1. IsRead(cfd[0]) /\ ~HasWriter(cfd[0][2])
    BY <1>1, ChildWaits DEF Inv, ChildOK
  <2> QED BY <2>1, Kinds DEF IsRead
<1> QED BY <1>1, AlwaysInv, PTL

\* As long as pipe() succeeds, a stage that reads is given exactly the lines
\* that the stage before it has written.
THEOREM StagesAreConnected == Spec => []StageReadsPrevious
<1>1. ASSUME Inv PROVE StageReadsPrevious
  <2> SUFFICES ASSUME i > 1, ~short
               PROVE  /\ prog = "cat" /\ held # -1 => held = i - 1
                      /\ prog = "ended" /\ cmd[i] = "cat" => got = sent
    BY DEF StageReadsPrevious
  <2> QED BY <1>1 DEF Inv, ChildOK
<1> QED BY <1>1, AlwaysInv, PTL

\* In phase 2 the prompt always reads the terminal, also when there was no
\* descriptor left for the copy of stdin that is to be restored.  In phase 3
\* stdin is recovered after every command that ends in a program and does not
\* begin with jobs; after the others it may be the end of a pipe that nobody
\* writes to: then the prompt takes what is left there for commands, and finds
\* the end of file behind it.
THEOREM StdinLostOnlyToBuiltIns ==
    Spec => /\ []PromptIsTheTerminals
            /\ [](pc = "prompt" /\ phase = 2 => fd[0] = Tty)
            /\ [](pc = "prompt" /\ fd[0] # Tty =>
                     \E p \in Pipes : fd[0] = ReadEnd(p) /\ ~Open(fd, WriteEnd(p)))
<1>1. Inv => PromptIsTheTerminals
  BY DEF Inv
<1>2. Inv => (pc = "prompt" /\ phase = 2 => fd[0] = Tty)
  BY DEF Inv, Phase2OK
<1>3. ASSUME Inv, pc = "prompt", fd[0] # Tty
      PROVE  \E p \in Pipes : fd[0] = ReadEnd(p) /\ ~Open(fd, WriteEnd(p))
  <2>1. \A d \in Descriptors, p \in Pipes : fd[d] # WriteEnd(p)
    BY <1>3 DEF Inv, OneWriteEnd, HasPipe
  <2>2. fd[0] \in Files /\ fd[0] # None /\ 0 \in Descriptors
    BY <1>3, DescriptorsStart DEF Inv, TypeOK, StandardOK
  <2>3. IsRead(fd[0])
    BY <1>3, <2>1, <2>2, FileCases
  <2> QED BY <2>1, <2>3 DEF IsRead, Open
<1> QED BY <1>1, <1>2, <1>3, AlwaysInv, PTL
=============================================================================
