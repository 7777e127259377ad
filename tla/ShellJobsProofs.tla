--------------------------- MODULE ShellJobsProofs ---------------------------
(***************************************************************************)
(* Theorems about ShellJobs for any number of children, jobs and key       *)
(* presses: types, that a frame which needs a job holds one, that no child *)
(* that has ended is forgotten, and that a job is removed only when its    *)
(* child has been reaped.  The inductive invariant Inv says which places   *)
(* of the code a frame of each kind can be at: only the handler of SIGCHLD *)
(* can take itself off the stack while it is the one that still has to ask *)
(* for children, and it does so at its waitpid.                            *)
(***************************************************************************)
EXTENDS ShellJobs, TLAPS

MaybeJob == Jobs \cup {Null}
MaybeProc == Procs \cup {0}
Endings == {"none", "exit", "sig"}
Typed == {"run", "bg", "pipe", "jobs", "fg", "bgjob", "kill"}

MainPlaces == {"prompt", "top", "fork", "tostage", "instage", "forked", "towait", "inwait",
               "search", "walk", "kill", "bgjob", "fg", "fgcurrent", "fgcont", "print", "create",
               "addfirst", "setfirst", "addlink", "readnext", "addnext", "readlast",
               "addprev", "addlast",
               "remove", "rmfirst", "setnext", "rmlast", "setprev", "newid", "unlinknext",
               "unlinkprev", "free"}
ChldPlaces == {"reap", "find", "remove", "rmfirst", "setnext", "rmlast", "setprev", "newid",
               "unlinknext", "unlinkprev", "free"}
TstpPlaces == {"tstp", "print", "create", "addfirst", "setfirst", "addlink", "readnext",
               "addnext", "readlast", "addprev", "addlast"}
Places == MainPlaces \cup ChldPlaces \cup TstpPlaces \cup {"int"}

Frames == [kind : {"main", "CHLD", "INT", "TSTP"}, pc : Places, job : MaybeJob, pid : MaybeProc,
           status : Endings, saved : SUBSET Signals, ptr : MaybeJob, mask : SUBSET Signals]
JobNodes == [live : BOOLEAN, pid : MaybeProc, id : Int, next : MaybeJob, prev : MaybeJob]

ChildrenOK ==
    /\ st \in [Procs -> {"new", "run", "stop", "halted", "zombie", "gone"}]
    /\ how \in [Procs -> Endings]
    /\ inGroup \in [Procs -> BOOLEAN]
ListOK ==
    /\ job \in [Jobs -> JobNodes]
    /\ first_job \in MaybeJob /\ last_job \in MaybeJob
    /\ curruent_job_id \in Int /\ reused \in BOOLEAN /\ tangled \in BOOLEAN
ShellOK ==
    /\ current_pid \in MaybeProc
    /\ blocked \subseteq Signals /\ pending \subseteq Signals
    /\ op \in Typed \cup {"none"} /\ arg \in Nat
    /\ sigint_dfl \in BOOLEAN /\ over \in {"no", "killed", "undefined", "torn", "heap"}
    /\ keys \in Nat

\* The places that read the job of their frame without asking whether it is there.
NeedsJob == {"kill", "bgjob", "fg", "fgcurrent", "fgcont", "print",
             "remove", "rmfirst", "setnext", "rmlast", "setprev", "newid", "unlinknext",
             "unlinkprev", "free",
             "addfirst", "setfirst", "addlink", "readnext", "addnext", "readlast",
             "addprev", "addlast"}

\* A frame is where its kind can be, and has the job it is about to read.
FrameOK(f) ==
    /\ f.kind = "main" => f.pc \in MainPlaces
    /\ f.kind = "CHLD" => f.pc \in ChldPlaces
    /\ f.kind = "INT" => f.pc = "int"
    /\ f.kind = "TSTP" => f.pc \in TstpPlaces
    /\ f.pc \in NeedsJob => f.job # Null

\* What main does is what the command c asks for.
ServesCommand(f, c) ==
    /\ f.pc = "fork" => c \in {"run", "bg", "pipe"}
    /\ f.pc = "forked" => c \in {"run", "bg"}
    /\ f.pc \in {"towait", "inwait"} => c = "run" \/ f.job # Null
    /\ f.pc \in {"search", "walk"} => c \in {"jobs", "fg", "bgjob", "kill"}

\* main is at the bottom of the stack and only there.
StackOK ==
    /\ stack \in Seq(Frames) /\ Len(stack) >= 1
    /\ \A i \in 1..Len(stack) : FrameOK(stack[i]) /\ (stack[i].kind = "main" <=> i = 1)
    /\ ServesCommand(stack[1], op)

TypeOK == ChildrenOK /\ ListOK /\ ShellOK /\ StackOK

Inv == TypeOK /\ NoZombieForgotten
-----------------------------------------------------------------------------
(* The stack                                                               *)

HandlerOfChld == \E i \in 1..Len(stack) : stack[i].kind = "CHLD"
HandlersStay == HandlerOfChld => HandlerOfChld'

\* The top frame is main exactly when nothing has interrupted it.
LEMMA TopFrame ==
    ASSUME StackOK
    PROVE  /\ Depth \in 1..Len(stack) /\ Len(stack) \in Nat
           /\ Top \in Frames /\ FrameOK(Top)
           /\ Top.kind = "main" <=> Depth = 1
           /\ Depth = 1 => ServesCommand(Top, op)
<1>1. Depth \in 1..Len(stack) /\ Len(stack) \in Nat
  BY DEF StackOK, Depth
<1>2. Top = stack[Depth] /\ stack[Depth] \in Frames
  BY <1>1 DEF StackOK, Top
<1> QED BY <1>1, <1>2 DEF StackOK

\* The program that runs goes on in its own frame.
LEMMA BecomesKeepsStack ==
    ASSUME StackOK, NEW f \in Frames, FrameOK(f), f.kind = Top.kind, Becomes(f),
           f.kind = "main" => ServesCommand(f, op'),
           f.kind # "main" => op' = op
    PROVE  StackOK' /\ HandlersStay
<1> USE TopFrame
<1>1. /\ stack' \in Seq(Frames) /\ Len(stack') = Len(stack)
      /\ \A i \in 1..Len(stack) : stack'[i] = IF i = Depth THEN f ELSE stack[i]
  BY DEF StackOK, Becomes
<1>2. \A i \in 1..Len(stack) : stack'[i].kind = stack[i].kind
  BY <1>1 DEF Top
<1>3. \A i \in 1..Len(stack') : FrameOK(stack'[i]) /\ (stack'[i].kind = "main" <=> i = 1)
  BY <1>1, <1>2 DEF StackOK
<1>4. ServesCommand(stack'[1], op')
  <2>1. CASE Depth = 1
    BY <2>1, <1>1
  <2>2. CASE Depth # 1
    BY <2>2, <1>1 DEF StackOK
  <2> QED BY <2>1, <2>2
<1>5. HandlersStay
  BY <1>1, <1>2 DEF HandlersStay, HandlerOfChld
<1> QED BY <1>1, <1>3, <1>4, <1>5 DEF StackOK

\* A handler returns to the frame it has interrupted.
LEMMA ReturnKeepsStack ==
    ASSUME StackOK, Top.kind # "main", Return, op' = op
    PROVE  StackOK' /\ (Top.kind # "CHLD" => HandlersStay)
<1>1. stack \in Seq(Frames) /\ Len(stack) > 1 /\ stack' = SubSeq(stack, 1, Len(stack) - 1)
  <2>1. Depth # 1 /\ Depth \in Nat /\ Depth >= 1
    BY TopFrame DEF Depth
  <2>2. Len(stack) > 1
    <3> HIDE DEF Depth
    <3>1. Depth > 1
      BY <2>1
    <3> QED BY <3>1 DEF Depth
  <2>3. stack \in Seq(Frames)
    BY DEF StackOK
  <2>4. stack' = SubSeq(stack, 1, Len(stack) - 1)
    BY DEF Return, Depth
  <2> QED BY <2>2, <2>3, <2>4
<1>2. /\ stack' \in Seq(Frames) /\ Len(stack') = Len(stack) - 1
      /\ \A i \in 1..(Len(stack) - 1) : stack'[i] = stack[i]
  BY <1>1
<1>3. Top.kind # "CHLD" => HandlersStay
  BY <1>1, <1>2 DEF HandlersStay, HandlerOfChld, Top, Depth
<1> QED BY <1>1, <1>2, <1>3 DEF StackOK

\* The kernel starts a handler.
LEMMA AppendKeepsStack ==
    ASSUME StackOK, NEW f \in Frames, FrameOK(f), f.kind # "main",
           stack' = Append(stack, f), op' = op
    PROVE  StackOK' /\ HandlersStay /\ (f.kind = "CHLD" => HandlerOfChld')
<1> USE TopFrame
<1>1. /\ stack' \in Seq(Frames) /\ Len(stack') = Len(stack) + 1
      /\ \A i \in 1..Len(stack) : stack'[i] = stack[i]
      /\ stack'[Len(stack) + 1] = f
  BY DEF StackOK
<1> QED BY <1>1 DEF StackOK, HandlersStay, HandlerOfChld

\* Nothing happens to the stack.
LEMMA SameStack ==
    ASSUME StackOK, stack' = stack, op' = op
    PROVE  StackOK' /\ HandlersStay
BY DEF StackOK, HandlersStay, HandlerOfChld
-----------------------------------------------------------------------------
(* The children                                                            *)

\* A child that ends, and one whose end is to be told, has a SIGCHLD pending.
EndsAreTold ==
    /\ "CHLD" \in pending => "CHLD" \in pending'
    /\ \A p \in Procs : st'[p] = "zombie" => st[p] = "zombie" \/ "CHLD" \in pending'

\* Who forgets no SIGCHLD and leaves no handler of it forgets no child.
LEMMA Remembered ==
    ASSUME NoZombieForgotten, EndsAreTold, HandlersStay
    PROVE  NoZombieForgotten'
BY DEF NoZombieForgotten, EndsAreTold, HandlersStay, HandlerOfChld, Depth

\* Typing of the children and of the signals, and that every end is told.
SignalsSent ==
    /\ st' \in [Procs -> {"new", "run", "stop", "halted", "zombie", "gone"}]
    /\ how' \in [Procs -> Endings]
    /\ pending' \subseteq Signals
    /\ EndsAreTold

\* What kill() does to a child, by the signal it sends.
LEMMA KillTells ==
    ASSUME ChildrenOK, ShellOK, NEW p,
           Sigkill(p) \/ Sigstop(p) \/ Sigcont(p) \/ UNCHANGED <<st, how, pending>>
    PROVE  SignalsSent
<1>1. ASSUME NEW c \in {"exit", "sig"}, Dies(p, c)
      PROVE  SignalsSent
  BY <1>1 DEF Dies, ChildrenOK, ShellOK, SignalsSent, EndsAreTold, Signals, Endings
<1>2. CASE UNCHANGED <<st, how, pending>>
  BY <1>2 DEF ChildrenOK, ShellOK, SignalsSent, EndsAreTold
<1>3. CASE Sigkill(p)
  BY <1>1, <1>2, <1>3 DEF Sigkill
<1>4. CASE Sigstop(p)
  BY <1>4 DEF Sigstop, ChildrenOK, ShellOK, SignalsSent, EndsAreTold
<1>5. CASE Sigcont(p)
  <2>1. CASE Stopped(p) /\ how[p] = "sig"
    BY <2>1, <1>5, <1>1 DEF Sigcont
  <2>2. CASE ~(Stopped(p) /\ how[p] = "sig")
    BY <2>2, <1>5 DEF Sigcont, ChildrenOK, ShellOK, SignalsSent, EndsAreTold
  <2> QED BY <2>1, <2>2
<1> QED BY <1>2, <1>3, <1>4, <1>5

\* waitpid takes a child that has ended.
LEMMA ReapedKeepsChildren ==
    ASSUME ChildrenOK, NEW p, Reaped(p), pending' = pending
    PROVE  ChildrenOK' /\ EndsAreTold
BY DEF Reaped, ChildrenOK, EndsAreTold, Endings

\* The children are left alone, and no signal is taken.
LEMMA SameChildren ==
    ASSUME ChildrenOK, UNCHANGED procs, pending' = pending
    PROVE  ChildrenOK' /\ EndsAreTold
BY DEF ChildrenOK, EndsAreTold, procs

LEMMA SameList ==
    ASSUME ListOK, UNCHANGED list
    PROVE  ListOK'
BY DEF ListOK, list
-----------------------------------------------------------------------------
(* The steps of main                                                       *)

\* What every step of the shell, of the kernel and of a child has to show.
Kept == TypeOK' /\ EndsAreTold /\ HandlersStay

LEMMA ReadCommandKeeps ==
    ASSUME Inv, NEW c \in Commands, NEW n \in 0..Cardinality(Procs), ReadCommand(c, n)
    PROVE  Kept
<1> DEFINE f == [Top EXCEPT !.pc = IF c \in {"run", "bg", "pipe"} THEN "fork" ELSE "search"]
<1> USE DEF Inv, TypeOK
<1>1. Becomes(f) /\ Top.pc = "prompt"
  BY DEF ReadCommand, At, Goto
<1>2. f \in Frames /\ f.kind = Top.kind /\ FrameOK(f) /\ Top.kind = "main"
  BY <1>1, TopFrame DEF Frames, FrameOK, Places, MainPlaces, ChldPlaces, TstpPlaces, NeedsJob
<1>3. op' = c /\ c \in Typed /\ arg' = n /\ n \in Nat
  BY ShellJobsAssumption DEF ReadCommand, Typed
<1>4. ServesCommand(f, op')
  BY <1>1, <1>3, TopFrame DEF ServesCommand, Frames, Typed
<1>5. StackOK' /\ HandlersStay
  BY <1>1, <1>2, <1>4, BecomesKeepsStack
<1>6. ChildrenOK' /\ EndsAreTold /\ ListOK'
  BY SameChildren, SameList DEF ReadCommand
<1>7. ShellOK'
  BY <1>3 DEF ReadCommand, ShellOK
<1> QED BY <1>5, <1>6, <1>7 DEF Kept

LEMMA LoopTopKeeps ==
    ASSUME Inv, LoopTop
    PROVE  Kept
<1> DEFINE f == [Top EXCEPT !.pc = "prompt"]
<1> USE DEF Inv, TypeOK
<1>1. Becomes(f) /\ Top.pc = "top" /\ op' = "none"
  BY DEF LoopTop, At, Goto
<1>2. f \in Frames /\ f.kind = Top.kind /\ FrameOK(f) /\ Top.kind = "main"
  BY <1>1, TopFrame DEF Frames, FrameOK, Places, MainPlaces, ChldPlaces, TstpPlaces, NeedsJob
<1>3. ServesCommand(f, op')
  BY <1>1, TopFrame DEF ServesCommand, Frames
<1>4. StackOK' /\ HandlersStay
  BY <1>1, <1>2, <1>3, BecomesKeepsStack
<1>5. ChildrenOK' /\ EndsAreTold /\ ListOK'
  BY SameChildren, SameList DEF LoopTop
<1>6. ShellOK'
  BY DEF LoopTop, ShellOK, Signals
<1> QED BY <1>4, <1>5, <1>6 DEF Kept

LEMMA ForkKeeps ==
    ASSUME Inv, Fork
    PROVE  Kept
<1> USE DEF Inv, TypeOK
<1>1. PICK p \in Procs :
         /\ st' = [st EXCEPT ![p] = "run"]
         /\ Becomes([Top EXCEPT !.pc = IF op = "pipe" THEN "tostage" ELSE "forked", !.pid = p])
  BY DEF Fork
<1> DEFINE f == [Top EXCEPT !.pc = IF op = "pipe" THEN "tostage" ELSE "forked", !.pid = p]
<1>2. Top.pc = "fork" /\ op' = op
  BY DEF Fork, At, program
<1>3. f \in Frames /\ f.kind = Top.kind /\ FrameOK(f) /\ Top.kind = "main"
  BY <1>2, TopFrame
  DEF Frames, FrameOK, Places, MainPlaces, ChldPlaces, TstpPlaces, NeedsJob, MaybeProc
<1>4. ServesCommand(f, op')
  BY <1>2, <1>3, TopFrame DEF ServesCommand, Frames
<1>5. StackOK' /\ HandlersStay
  BY <1>1, <1>3, <1>4, BecomesKeepsStack
<1>6. ChildrenOK' /\ EndsAreTold
  BY <1>1 DEF Fork, ChildrenOK, EndsAreTold
<1>7. ListOK' /\ ShellOK'
  BY SameList DEF Fork, ShellOK, program
<1> QED BY <1>5, <1>6, <1>7 DEF Kept

\* A step that only moves the top frame.
LEMMA FrameMoves ==
    ASSUME Inv, NEW f \in Frames, FrameOK(f), f.kind = Top.kind, Becomes(f),
           f.kind = "main" => ServesCommand(f, op),
           UNCHANGED <<procs, list, current_pid, blocked, pending, program, keys>>
    PROVE  Kept
<1> USE DEF Inv, TypeOK
<1>1. op' = op
  BY DEF program
<1>2. StackOK' /\ HandlersStay
  BY <1>1, BecomesKeepsStack
<1>3. ChildrenOK' /\ EndsAreTold /\ ListOK'
  BY SameChildren, SameList
<1>4. ShellOK'
  BY DEF ShellOK, program
<1> QED BY <1>2, <1>3, <1>4 DEF Kept

LEMMA EnterWaitKeeps ==
    ASSUME Inv, EnterWait
    PROVE  Kept
<1> DEFINE f == [Top EXCEPT !.pc = IF Top.pc = "tostage" THEN "instage" ELSE "inwait"]
<1>1. Becomes(f) /\ Top.pc \in {"tostage", "towait"}
  BY DEF EnterWait, At, Goto
<1>2. f \in Frames /\ f.kind = Top.kind /\ FrameOK(f) /\ Top.kind = "main"
  BY <1>1, TopFrame
  DEF Inv, TypeOK, Frames, FrameOK, Places, MainPlaces, ChldPlaces, TstpPlaces, NeedsJob
<1>3. ServesCommand(f, op)
  BY <1>1, <1>2, TopFrame DEF Inv, TypeOK, ServesCommand, Frames
<1> QED BY <1>1, <1>2, <1>3, FrameMoves DEF EnterWait

\* The next stage is forked for a command that is now "run".
LEMMA StageReturnsKeeps ==
    ASSUME Inv, StageReturns
    PROVE  Kept
<1> DEFINE f == [Top EXCEPT !.pc = "fork"]
<1> USE DEF Inv, TypeOK
<1>1. Becomes(f) /\ Top.pc = "instage" /\ op' = "run"
  BY DEF StageReturns, At, Goto
<1>2. f \in Frames /\ f.kind = Top.kind /\ FrameOK(f) /\ Top.kind = "main"
  BY <1>1, TopFrame DEF Frames, FrameOK, Places, MainPlaces, ChldPlaces, TstpPlaces, NeedsJob
<1>3. ServesCommand(f, op')
  BY <1>1, TopFrame DEF ServesCommand, Frames
<1>4. StackOK' /\ HandlersStay
  BY <1>1, <1>2, <1>3, BecomesKeepsStack
<1>5. ChildrenOK' /\ EndsAreTold /\ ListOK'
  BY ReapedKeepsChildren, SameList DEF StageReturns
<1>6. ShellOK'
  BY DEF StageReturns, ShellOK, Typed
<1> QED BY <1>4, <1>5, <1>6 DEF Kept

LEMMA StoreCurrentKeeps ==
    ASSUME Inv, StoreCurrent
    PROVE  Kept
<1> DEFINE f == [Top EXCEPT !.pc = IF op = "bg" THEN "create" ELSE "towait"]
<1> USE DEF Inv, TypeOK
<1>1. Becomes(f) /\ Top.pc = "forked" /\ op' = op
  BY DEF StoreCurrent, At, Goto, program
<1>2. f \in Frames /\ f.kind = Top.kind /\ FrameOK(f) /\ Top.kind = "main"
  BY <1>1, TopFrame DEF Frames, FrameOK, Places, MainPlaces, ChldPlaces, TstpPlaces, NeedsJob
<1>3. ServesCommand(f, op')
  BY <1>1, <1>2, TopFrame DEF ServesCommand, Frames
<1>4. StackOK' /\ HandlersStay
  BY <1>1, <1>2, <1>3, BecomesKeepsStack
<1>5. ChildrenOK' /\ EndsAreTold /\ ListOK'
  BY SameChildren, SameList DEF StoreCurrent
<1>6. ShellOK'
  BY TopFrame DEF StoreCurrent, ShellOK, Frames, program
<1> QED BY <1>4, <1>5, <1>6 DEF Kept

\* The command ends, and its frame with it.
LEMMA CommandDone ==
    ASSUME Inv, GotoTop, Top.kind = "main", op' = op
    PROVE  StackOK' /\ HandlersStay
<1> DEFINE f == [Top EXCEPT !.pc = "top", !.job = Null, !.pid = 0, !.mask = {}]
<1> USE DEF Inv, TypeOK
<1>1. Becomes(f)
  BY DEF GotoTop
<1>2. Top \in Frames /\ Null \in MaybeJob /\ 0 \in MaybeProc /\ "top" \in Places
  BY TopFrame DEF MaybeJob, MaybeProc, Places, MainPlaces
<1>3. f \in Frames /\ f.kind = "main" /\ f.pc = "top"
  BY <1>2 DEF Frames
<1> HIDE DEF f
<1>4. FrameOK(f) /\ ServesCommand(f, op)
  BY <1>3 DEF FrameOK, MainPlaces, NeedsJob, ServesCommand
<1> QED BY <1>1, <1>3, <1>4, BecomesKeepsStack

\* waitpid reports a stop, an end, or that there is no such child.
LEMMA WaitReturnsKeeps ==
    ASSUME Inv, WaitReturns
    PROVE  Kept
<1> USE DEF Inv, TypeOK
<1>1. Top.pc = "inwait" /\ op' = op /\ pending' = pending
  BY DEF WaitReturns, At, program
<1>2. Top.kind = "main"
  BY <1>1, TopFrame DEF FrameOK, Frames, ChldPlaces, TstpPlaces
<1>3. ChildrenOK' /\ EndsAreTold
  <2>1. CASE st[Top.pid] = "stop"
    BY <2>1, <1>1 DEF WaitReturns, ChildrenOK, EndsAreTold
  <2>2. CASE st[Top.pid] # "stop"
    BY <2>2, <1>1, ReapedKeepsChildren DEF WaitReturns
  <2> QED BY <2>1, <2>2
<1>4. StackOK' /\ HandlersStay
  <2>1. CASE op = "run"
    BY <1>1, <1>2, <2>1, CommandDone DEF WaitReturns
  <2>2. CASE op # "run"
    <3>1. PICK stopped \in BOOLEAN : Goto(IF stopped THEN "print" ELSE "remove")
      BY <2>2 DEF WaitReturns
    <3> DEFINE f == [Top EXCEPT !.pc = IF stopped THEN "print" ELSE "remove"]
    <3>2. Becomes(f)
      BY <3>1 DEF Goto
    <3>3. Top.job # Null
      BY <1>1, <1>2, <2>2, TopFrame DEF ServesCommand
    <3>4. f \in Frames /\ f.kind = Top.kind /\ FrameOK(f) /\ ServesCommand(f, op)
      BY <1>2, <3>3, TopFrame
      DEF Frames, FrameOK, Places, MainPlaces, NeedsJob, ServesCommand
    <3> QED BY <1>1, <3>2, <3>4, BecomesKeepsStack
  <2> QED BY <2>1, <2>2
<1>5. ListOK' /\ ShellOK'
  BY SameList DEF WaitReturns, ShellOK, program
<1> QED BY <1>3, <1>4, <1>5 DEF Kept
-----------------------------------------------------------------------------
(* create_bg_process                                                       *)

LEMMA CreateJobKeeps ==
    ASSUME Inv, CreateJob
    PROVE  Kept
<1> USE DEF Inv, TypeOK
<1>1. PICK j \in Jobs :
         /\ job' = [job EXCEPT ![j] = [live |-> TRUE, pid |-> Top.pid, id |-> curruent_job_id,
                                       next |-> Null, prev |-> Null]]
         /\ GotoJob("addfirst", j)
  BY DEF CreateJob
<1> DEFINE f == [Top EXCEPT !.pc = "addfirst", !.job = j]
<1>2. Becomes(f) /\ Top.pc = "create" /\ op' = op
  BY <1>1 DEF CreateJob, At, GotoJob, program
<1>3. j \in MaybeJob /\ j # Null
  BY ShellJobsAssumption DEF MaybeJob, Null
<1>4. f \in Frames /\ f.kind = Top.kind /\ FrameOK(f) /\ ServesCommand(f, op)
  BY <1>2, <1>3, TopFrame
  DEF Frames, FrameOK, Places, MainPlaces, ChldPlaces, TstpPlaces, NeedsJob, ServesCommand
<1>5. StackOK' /\ HandlersStay
  BY <1>2, <1>4, BecomesKeepsStack
<1>6. ListOK'
  <2>1. [live |-> TRUE, pid |-> Top.pid, id |-> curruent_job_id, next |-> Null, prev |-> Null]
           \in JobNodes
    BY TopFrame DEF Frames, JobNodes, ListOK, MaybeJob
  <2> QED BY <2>1, <1>1 DEF CreateJob, ListOK
<1>7. ChildrenOK' /\ EndsAreTold
  BY DEF CreateJob, ChildrenOK, EndsAreTold
<1>8. ShellOK'
  BY DEF CreateJob, ShellOK, program
<1> QED BY <1>5, <1>6, <1>7, <1>8 DEF Kept

\* A step of create_bg_process, or of remove_job_node, in its frame.
LEMMA WorkGoesOn ==
    ASSUME Inv, NEW p, NEW q \in MaybeJob, op' = op, Goto(p) \/ GotoPtr(p, q),
           \/ Top.pc \in Adding /\ p \in Adding \cup {"print"}
           \/ Top.pc \in Removing /\ p \in Removing
    PROVE  StackOK' /\ HandlersStay
<1> USE DEF Inv, TypeOK
<1> DEFINE f == IF Goto(p) THEN [Top EXCEPT !.pc = p] ELSE [Top EXCEPT !.pc = p, !.ptr = q]
<1>1. Becomes(f)
  BY DEF Goto, GotoPtr
<1>2. Top \in Frames /\ FrameOK(Top) /\ Top.kind \in {"main", "CHLD", "INT", "TSTP"}
  BY TopFrame DEF Frames
<1>3. p \in Places
  BY DEF Adding, Removing, Places, MainPlaces
<1>4. f \in Frames /\ f.kind = Top.kind /\ f.pc = p /\ f.job = Top.job
  BY <1>2, <1>3 DEF Frames
<1> HIDE DEF f
<1>5. Top.kind # "INT" /\ (Top.kind = "CHLD" => Top.pc \notin Adding)
      /\ (Top.kind = "TSTP" => Top.pc \notin Removing)
  BY <1>2 DEF FrameOK, Adding, Removing, ChldPlaces, TstpPlaces
<1>6. FrameOK(f)
  BY <1>2, <1>4, <1>5
  DEF FrameOK, Adding, Removing, MainPlaces, ChldPlaces, TstpPlaces, NeedsJob
<1>7. ServesCommand(f, op)
  BY <1>4 DEF Adding, Removing, ServesCommand
<1> QED BY <1>1, <1>4, <1>6, <1>7, BecomesKeepsStack

\* A step that changes the list and moves the top frame.
LEMMA ListStepKeeps ==
    ASSUME Inv, StackOK', HandlersStay, ListOK', blocked' \subseteq Signals,
           over' \in {over, "torn"},
           UNCHANGED <<procs, current_pid, pending, op, arg, sigint_dfl, keys>>
    PROVE  Kept
<1> USE DEF Inv, TypeOK
<1>1. ChildrenOK' /\ EndsAreTold
  BY SameChildren
<1>2. ShellOK'
  BY DEF ShellOK
<1> QED BY <1>1, <1>2 DEF Kept

\* The jobs stay jobs when a link of one of them is stored.
LEMMA StoredLink ==
    ASSUME Inv, NEW j, NEW n \in MaybeJob
    PROVE  /\ [job EXCEPT ![j].next = n] \in [Jobs -> JobNodes]
           /\ [job EXCEPT ![j].prev = n] \in [Jobs -> JobNodes]
BY DEF Inv, TypeOK, ListOK, JobNodes

LEMMA AddKeeps ==
    ASSUME Inv, TestEnds \/ AddFirst \/ ReadLast \/ AddNext \/ AddPrev \/ AddLast
    PROVE  Kept
<1> USE DEF Inv, TypeOK
<1>1. /\ Top.job \in MaybeJob /\ Top.ptr \in MaybeJob
      /\ first_job \in MaybeJob /\ last_job \in MaybeJob /\ Null \in MaybeJob
  BY TopFrame DEF Frames, ListOK, MaybeJob
<1>2. UNCHANGED <<procs, current_pid, blocked, pending, program, keys>>
  BY DEF TestEnds, AddFirst, ReadLast, AddNext, AddPrev, AddLast
<1>3. /\ blocked' \subseteq Signals /\ over' = over /\ op' = op
      /\ UNCHANGED <<procs, current_pid, pending, op, arg, sigint_dfl, keys>>
  BY <1>2 DEF program, ShellOK
<1>4. PICK p \in Adding \cup {"print"}, q \in MaybeJob :
         Top.pc \in Adding /\ (Goto(p) \/ GotoPtr(p, q))
  <2>1. CASE TestEnds
    <3>1. \E p \in {"setfirst", "addlink", "addlast", "readnext"} : Top.pc \in Adding /\ Goto(p)
      BY <2>1 DEF TestEnds, At, Adding
    <3> QED BY <1>1, <3>1 DEF Adding
  <2>2. CASE AddFirst \/ AddLast
    <3>1. \E p \in {"addlink", "print"} : Top.pc \in Adding /\ Goto(p)
      BY <2>2 DEF AddFirst, AddLast, At, Adding
    <3> QED BY <1>1, <3>1 DEF Adding
  <2>3. CASE ReadLast \/ AddNext \/ AddPrev
    <3>1. \E p \in {"addnext", "addprev", "readlast", "addlast"}, q \in {last_job, Null} :
             Top.pc \in Adding /\ GotoPtr(p, q)
      BY <2>3 DEF ReadLast, AddNext, AddPrev, At, Adding
    <3> QED BY <1>1, <3>1 DEF Adding
  <2> QED BY <2>1, <2>2, <2>3
<1>5. StackOK' /\ HandlersStay
  BY <1>3, <1>4, WorkGoesOn
<1>6. ListOK'
  <2>1. CASE TestEnds \/ ReadLast
    BY <2>1, SameList DEF TestEnds, ReadLast
  <2>2. CASE AddFirst \/ AddLast
    BY <1>1, <2>2 DEF AddFirst, AddLast, ListOK
  <2>3. CASE AddNext
    <3>1. [job EXCEPT ![Top.ptr].next = Top.job] \in [Jobs -> JobNodes]
      BY <1>1, StoredLink
    <3> QED BY <2>3, <3>1 DEF AddNext, ListOK
  <2>4. CASE AddPrev
    <3>1. [job EXCEPT ![Top.job].prev = Top.ptr] \in [Jobs -> JobNodes]
      BY <1>1, StoredLink
    <3> QED BY <2>4, <3>1 DEF AddPrev, ListOK
  <2> QED BY <2>1, <2>2, <2>3, <2>4
<1> QED BY <1>3, <1>5, <1>6, ListStepKeeps

\* The handler of SIGTSTP returns, main goes on with the next command.
LEMMA PrintJobKeeps ==
    ASSUME Inv, PrintJob
    PROVE  Kept
<1> USE DEF Inv, TypeOK
<1>1. Top.pc = "print" /\ op' = op
  BY DEF PrintJob, At, program
<1>2. /\ StackOK' /\ HandlersStay
      /\ blocked' \subseteq Signals
  <2>1. CASE Top.kind = "main"
    BY <1>1, <2>1, CommandDone DEF PrintJob, ShellOK
  <2>2. CASE Top.kind # "main"
    <3>1. Return
      BY <2>2 DEF PrintJob
    <3>2. Top.kind # "CHLD" /\ Top.saved \subseteq Signals
      BY <1>1, TopFrame DEF FrameOK, ChldPlaces, Frames
    <3> QED BY <1>1, <2>2, <3>1, <3>2, ReturnKeepsStack DEF Return
  <2> QED BY <2>1, <2>2
<1>3. ListOK'
  BY SameList DEF PrintJob
<1> QED BY <1>2, <1>3, ListStepKeeps DEF PrintJob, program
-----------------------------------------------------------------------------
(* process_background_command                                              *)

LEMMA SearchKeeps ==
    ASSUME Inv, Search
    PROVE  Kept
<1> DEFINE f == [Top EXCEPT !.pc = "walk", !.job = first_job]
<1>1. Becomes(f) /\ Top.pc = "search"
  BY DEF Search, At, GotoJob
<1>2. f \in Frames /\ f.kind = Top.kind /\ FrameOK(f) /\ Top.kind = "main"
  BY <1>1, TopFrame
  DEF Inv, TypeOK, ListOK, Frames, FrameOK, Places, MainPlaces, ChldPlaces, TstpPlaces, NeedsJob
<1>3. ServesCommand(f, op)
  BY <1>1, <1>2, TopFrame DEF Inv, TypeOK, ServesCommand, Frames
<1> QED BY <1>1, <1>2, <1>3, FrameMoves DEF Search

\* The command is chosen by its name when its job has been found.
LEMMA WalkKeeps ==
    ASSUME Inv, Walk
    PROVE  Kept
<1> USE DEF Inv, TypeOK
<1>1. Top.pc = "walk" /\ op \in {"jobs", "fg", "bgjob", "kill"} /\ Top.kind = "main"
  BY TopFrame DEF Walk, At, FrameOK, Frames, ChldPlaces, TstpPlaces, ServesCommand
<1>2. CASE Top.job = Null
  <2> DEFINE f == [Top EXCEPT !.pc = "top", !.job = Null, !.pid = 0, !.mask = {}]
  <2>1. Becomes(f)
    BY <1>2 DEF Walk, GotoTop
  <2>2. f \in Frames /\ f.kind = Top.kind /\ FrameOK(f) /\ ServesCommand(f, op)
    BY <1>1, TopFrame
    DEF Frames, FrameOK, Places, MainPlaces, NeedsJob, MaybeJob, MaybeProc, ServesCommand
  <2> QED BY <2>1, <2>2, FrameMoves DEF Walk
<1>3. CASE Top.job # Null /\ op # "jobs" /\ job[Top.job].id = arg
  <2> DEFINE f == [Top EXCEPT !.pc = op]
  <2>1. Becomes(f)
    BY <1>3 DEF Walk, Goto
  <2>2. f \in Frames /\ f.kind = Top.kind /\ FrameOK(f) /\ ServesCommand(f, op)
    BY <1>1, <1>3, TopFrame DEF Frames, FrameOK, Places, MainPlaces, NeedsJob, ServesCommand
  <2> QED BY <2>1, <2>2, FrameMoves DEF Walk
<1>4. CASE Top.job # Null /\ ~(op # "jobs" /\ job[Top.job].id = arg)
  <2> DEFINE f == [Top EXCEPT !.pc = "walk", !.job = job[Top.job].next]
  <2>1. Becomes(f)
    BY <1>4 DEF Walk, GotoJob
  <2>2. job[Top.job].next \in MaybeJob
    BY <1>4, TopFrame DEF Frames, MaybeJob, ListOK, JobNodes
  <2>3. f \in Frames /\ f.kind = Top.kind /\ FrameOK(f) /\ ServesCommand(f, op)
    BY <1>1, <2>2, TopFrame DEF Frames, FrameOK, Places, MainPlaces, NeedsJob, ServesCommand
  <2> QED BY <2>1, <2>3, FrameMoves DEF Walk
<1> QED BY <1>2, <1>3, <1>4

\* The job of a frame that needs one, and its child.
LEMMA HeldJob ==
    ASSUME Inv, Top.pc \in NeedsJob
    PROVE  Top.job \in Jobs /\ job[Top.job] \in JobNodes
BY TopFrame DEF Inv, TypeOK, ListOK, Frames, FrameOK, MaybeJob

LEMMA KillJobKeeps ==
    ASSUME Inv, KillJob
    PROVE  Kept
<1> USE DEF Inv, TypeOK
<1>1. Top.pc = "kill" /\ op' = op
  BY DEF KillJob, At, program
<1>2. Top.kind = "main"
  BY <1>1, TopFrame DEF FrameOK, Frames, ChldPlaces, TstpPlaces
<1>3. StackOK' /\ HandlersStay
  BY <1>1, <1>2, CommandDone DEF KillJob
<1>4. SignalsSent
  BY KillTells DEF KillJob
<1>5. ListOK'
  BY SameList DEF KillJob
<1>6. ChildrenOK' /\ ShellOK'
  BY <1>4 DEF KillJob, SignalsSent, ChildrenOK, ShellOK, program
<1> QED BY <1>3, <1>4, <1>5, <1>6 DEF Kept, SignalsSent

LEMMA ContinueJobKeeps ==
    ASSUME Inv, ContinueJob
    PROVE  Kept
<1> USE DEF Inv, TypeOK
<1>1. Top.pc = "bgjob" /\ op' = op
  BY DEF ContinueJob, At, program
<1>2. Top.kind = "main"
  BY <1>1, TopFrame DEF FrameOK, Frames, ChldPlaces, TstpPlaces
<1>3. StackOK' /\ HandlersStay
  BY <1>1, <1>2, CommandDone DEF ContinueJob
<1>4. SignalsSent
  BY KillTells DEF ContinueJob
<1>5. ListOK'
  BY SameList DEF ContinueJob
<1>6. current_pid' \in MaybeProc
  BY <1>1, HeldJob DEF ContinueJob, NeedsJob, JobNodes
<1>7. ChildrenOK' /\ ShellOK'
  BY <1>4, <1>6 DEF ContinueJob, SignalsSent, ChildrenOK, ShellOK, program
<1> QED BY <1>3, <1>4, <1>5, <1>7 DEF Kept, SignalsSent

LEMMA FgDefaultKeeps ==
    ASSUME Inv, FgDefault
    PROVE  Kept
<1> DEFINE f == [Top EXCEPT !.pc = "fgcurrent"]
<1> USE DEF Inv, TypeOK
<1>1. Becomes(f) /\ Top.pc = "fg" /\ op' = op
  BY DEF FgDefault, At, Goto
<1>2. f \in Frames /\ f.kind = Top.kind /\ FrameOK(f) /\ ServesCommand(f, op)
  BY <1>1, TopFrame
  DEF Frames, FrameOK, Places, MainPlaces, ChldPlaces, TstpPlaces, NeedsJob, ServesCommand
<1>3. StackOK' /\ HandlersStay
  BY <1>1, <1>2, BecomesKeepsStack
<1>4. ChildrenOK' /\ EndsAreTold /\ ListOK'
  BY SameChildren, SameList DEF FgDefault
<1>5. ShellOK'
  BY DEF FgDefault, ShellOK
<1> QED BY <1>3, <1>4, <1>5 DEF Kept

LEMMA FgCurrentKeeps ==
    ASSUME Inv, FgCurrent
    PROVE  Kept
<1> DEFINE f == [Top EXCEPT !.pc = "fgcont"]
<1> USE DEF Inv, TypeOK
<1>1. Becomes(f) /\ Top.pc = "fgcurrent" /\ op' = op
  BY DEF FgCurrent, At, Goto
<1>2. f \in Frames /\ f.kind = Top.kind /\ FrameOK(f) /\ ServesCommand(f, op)
  BY <1>1, TopFrame
  DEF Frames, FrameOK, Places, MainPlaces, ChldPlaces, TstpPlaces, NeedsJob, ServesCommand
<1>3. StackOK' /\ HandlersStay
  BY <1>1, <1>2, BecomesKeepsStack
<1>4. ChildrenOK' /\ EndsAreTold /\ ListOK'
  BY SameChildren, SameList DEF FgCurrent
<1>5. current_pid' \in MaybeProc
  BY <1>1, HeldJob DEF FgCurrent, NeedsJob, JobNodes
<1>6. ShellOK'
  BY <1>5 DEF FgCurrent, ShellOK
<1> QED BY <1>3, <1>4, <1>6 DEF Kept

\* fg waits for the child of the job it has found.
LEMMA FgContinueKeeps ==
    ASSUME Inv, FgContinue
    PROVE  Kept
<1> DEFINE f == [Top EXCEPT !.pc = "towait", !.pid = job[Top.job].pid]
<1> USE DEF Inv, TypeOK
<1>1. Becomes(f) /\ Top.pc = "fgcont" /\ op' = op
  BY DEF FgContinue, At, program
<1>2. job[Top.job].pid \in MaybeProc /\ Top.job # Null
  BY <1>1, HeldJob, ShellJobsAssumption DEF NeedsJob, JobNodes, Null
<1>3. f \in Frames /\ f.kind = Top.kind /\ FrameOK(f) /\ ServesCommand(f, op)
  BY <1>1, <1>2, TopFrame
  DEF Frames, FrameOK, Places, MainPlaces, ChldPlaces, TstpPlaces, NeedsJob, ServesCommand
<1>4. StackOK' /\ HandlersStay
  BY <1>1, <1>3, BecomesKeepsStack
<1>5. SignalsSent
  BY KillTells DEF FgContinue
<1>6. ListOK'
  BY SameList DEF FgContinue
<1>7. ChildrenOK' /\ ShellOK'
  BY <1>5 DEF FgContinue, SignalsSent, ChildrenOK, ShellOK, program
<1> QED BY <1>4, <1>5, <1>6, <1>7 DEF Kept, SignalsSent

-----------------------------------------------------------------------------
(* remove_job_node                                                         *)

\* mask is what the stack held, and SIGCHLD.
LEMMA BlockInRemoveKeeps ==
    ASSUME Inv, BlockInRemove
    PROVE  Kept
<1> USE DEF Inv, TypeOK
<1>1. PICK mask \in SUBSET Signals :
         /\ blocked' = blocked \cup mask
         /\ Becomes([Top EXCEPT !.pc = "rmfirst", !.mask = mask])
  BY ShellJobsAssumption DEF BlockInRemove, Signals
<1> DEFINE f == [Top EXCEPT !.pc = "rmfirst", !.mask = mask]
<1>2. Becomes(f) /\ Top.pc = "remove" /\ op' = op
  BY <1>1 DEF BlockInRemove, At, program
<1>3. f \in Frames /\ f.kind = Top.kind /\ FrameOK(f) /\ ServesCommand(f, op)
  BY <1>2, TopFrame
  DEF Frames, FrameOK, Places, MainPlaces, ChldPlaces, TstpPlaces, NeedsJob, ServesCommand
<1>4. StackOK' /\ HandlersStay
  BY <1>2, <1>3, BecomesKeepsStack
<1>5. ListOK' /\ blocked' \subseteq Signals
  BY <1>1, SameList DEF BlockInRemove, ShellOK
<1> QED BY <1>4, <1>5, ListStepKeeps DEF BlockInRemove, program

LEMMA RemoveKeeps ==
    ASSUME Inv, ReadEnds \/ RemoveFirst \/ RemoveLast \/ NewId \/ UnlinkNext \/ UnlinkPrev
    PROVE  Kept
<1> USE DEF Inv, TypeOK
<1>1. Top.pc \in Removing
  BY DEF ReadEnds, RemoveFirst, RemoveLast, NewId, UnlinkNext, UnlinkPrev, At, Removing
<1>2. job[Gone] \in JobNodes /\ \A j \in Jobs : job[j] \in JobNodes
  BY <1>1, HeldJob DEF NeedsJob, Removing, Gone, ListOK
<1>3. /\ job[Gone].next \in MaybeJob /\ job[Gone].prev \in MaybeJob
      /\ Null \in MaybeJob /\ Top.ptr \in MaybeJob
  BY <1>2, TopFrame DEF JobNodes, MaybeJob, Frames
<1>4. UNCHANGED <<procs, current_pid, blocked, pending, program, keys>>
  BY DEF ReadEnds, RemoveFirst, RemoveLast, NewId, UnlinkNext, UnlinkPrev
<1>5. /\ blocked' \subseteq Signals /\ over' = over /\ op' = op
      /\ UNCHANGED <<procs, current_pid, pending, op, arg, sigint_dfl, keys>>
  BY <1>4 DEF program, ShellOK
<1>6. PICK p \in Removing, q \in MaybeJob : Goto(p) \/ GotoPtr(p, q)
  <2>1. CASE ReadEnds
    <3>1. \/ \E p \in {"rmlast", "unlinknext"} : Goto(p)
          \/ \E p \in {"setnext", "setprev"}, q \in {job[Gone].next, job[Gone].prev} : GotoPtr(p, q)
      BY <2>1 DEF ReadEnds
    <3> QED BY <1>3, <3>1 DEF Removing
  <2>2. CASE RemoveFirst \/ RemoveLast
    BY <1>3, <2>2 DEF RemoveFirst, RemoveLast, Removing
  <2>3. CASE NewId \/ UnlinkNext \/ UnlinkPrev
    <3>1. \E p \in {"unlinknext", "unlinkprev", "free"} : Goto(p)
      BY <2>3 DEF NewId, UnlinkNext, UnlinkPrev
    <3> QED BY <1>3, <3>1 DEF Removing
  <2> QED BY <2>1, <2>2, <2>3
<1>7. StackOK' /\ HandlersStay
  BY <1>1, <1>5, <1>6, WorkGoesOn
<1>8. ListOK'
  <2>1. CASE ReadEnds
    BY <2>1, SameList DEF ReadEnds
  <2>2. CASE RemoveFirst \/ RemoveLast
    BY <1>3, <2>2 DEF RemoveFirst, RemoveLast, ListOK
  <2>3. CASE NewId
    <3>1. last_job # Null => job[last_job].id \in Int
      BY <1>2 DEF ListOK, MaybeJob, JobNodes
    <3>2. curruent_job_id' \in Int
      BY <2>3, <3>1 DEF NewId
    <3> QED BY <2>3, <3>2 DEF NewId, ListOK
  <2>4. CASE UnlinkNext \/ UnlinkPrev
    <3>1. \A j \in Jobs : /\ [job[j] EXCEPT !.prev = job[Gone].prev] \in JobNodes
                          /\ [job[j] EXCEPT !.next = job[Gone].next] \in JobNodes
      BY <1>2, <1>3 DEF JobNodes
    <3>2. job' \in [Jobs -> JobNodes]
      BY <1>2, <2>4, <3>1 DEF UnlinkNext, UnlinkPrev
    <3> QED BY <2>4, <3>2 DEF UnlinkNext, UnlinkPrev, ListOK
  <2> QED BY <2>1, <2>2, <2>3, <2>4
<1> QED BY <1>5, <1>7, <1>8, ListStepKeeps

\* The handler of SIGCHLD goes back to its waitpid.
LEMMA ReapNext ==
    ASSUME Inv, GotoReap, Top.kind = "CHLD", op' = op
    PROVE  StackOK' /\ HandlersStay
<1> DEFINE f == [Top EXCEPT !.pc = "reap", !.pid = 0, !.status = "none", !.mask = {}]
<1> USE DEF Inv, TypeOK
<1>1. Becomes(f)
  BY DEF GotoReap
<1>2. f \in Frames /\ f.kind = Top.kind /\ FrameOK(f)
  BY TopFrame DEF Frames, FrameOK, Places, ChldPlaces, NeedsJob, MaybeProc, Endings
<1> QED BY <1>1, <1>2, BecomesKeepsStack

LEMMA FreeJobKeeps ==
    ASSUME Inv, FreeJob
    PROVE  Kept
<1> USE DEF Inv, TypeOK
<1>1. Top.pc = "free" /\ op' = op
  BY DEF FreeJob, At
<1>2. Top.kind \in {"main", "CHLD"}
  BY <1>1, TopFrame DEF FrameOK, Frames, TstpPlaces
<1>3. StackOK' /\ HandlersStay
  BY <1>1, <1>2, CommandDone, ReapNext DEF FreeJob
<1>4. job' \in [Jobs -> JobNodes]
  <2>1. \A j \in Jobs : [job[j] EXCEPT !.live = FALSE] \in JobNodes
    BY DEF ListOK, JobNodes
  <2> QED BY <2>1 DEF FreeJob, ListOK
<1>5. ListOK' /\ blocked' \subseteq Signals /\ over' \in {over, "torn"}
  BY <1>4 DEF FreeJob, ListOK, ShellOK
<1> QED BY <1>3, <1>5, ListStepKeeps DEF FreeJob
-----------------------------------------------------------------------------
(* The handlers and the kernel                                             *)

LEMMA DeliverKeeps ==
    ASSUME Inv, NEW sig \in Signals, NEW f \in Frames, FrameOK(f), f.kind = sig, Deliver(sig, f)
    PROVE  Inv'
<1> USE DEF Inv, TypeOK
<1>1. op' = op /\ f.kind # "main" /\ stack' = Append(stack, f)
  BY DEF Deliver, program, Signals
<1>2. StackOK' /\ HandlersStay /\ (sig = "CHLD" => HandlerOfChld')
  BY <1>1, AppendKeepsStack
<1>3. ChildrenOK' /\ ListOK' /\ ShellOK'
  BY SameList DEF Deliver, ChildrenOK, ShellOK, procs, program, Signals
<1>4. NoZombieForgotten'
  <2>1. CASE sig = "CHLD"
    BY <2>1, <1>2 DEF NoZombieForgotten, HandlerOfChld, Depth
  <2>2. CASE sig # "CHLD"
    BY <2>2, <1>2, Remembered DEF Deliver, EndsAreTold, procs
  <2> QED BY <2>1, <2>2
<1> QED BY <1>2, <1>3, <1>4

LEMMA HandleKeeps ==
    ASSUME Inv, Handle
    PROVE  Inv'
<1> USE DEF Inv, TypeOK
<1>1. \A k \in Signals, pc \in {"reap", "int", "tstp"}, p \in MaybeProc :
         Frame(k, pc, first_job, p) \in Frames /\ Frame(k, pc, first_job, p).kind = k
  <2>1. first_job \in MaybeJob /\ Null \in MaybeJob /\ blocked \in SUBSET Signals
    BY DEF ListOK, ShellOK, MaybeJob
  <2>2. {"reap", "int", "tstp"} \subseteq Places
    BY DEF Places, ChldPlaces, TstpPlaces
  <2> QED BY <2>1, <2>2 DEF Frame, Frames, Signals, Endings
<1>2. CASE EnterChld
  <2> DEFINE f == Frame("CHLD", "reap", first_job, 0)
  <2>1. f \in Frames /\ f.kind = "CHLD"
    BY <1>1 DEF Signals, MaybeProc
  <2>2. FrameOK(f)
    BY DEF Frame, FrameOK, ChldPlaces, NeedsJob
  <2> QED BY <1>2, <2>1, <2>2, DeliverKeeps DEF EnterChld, Signals
<1>3. CASE EnterInt
  <2> DEFINE f == Frame("INT", "int", first_job, current_pid)
  <2>1. f \in Frames /\ f.kind = "INT"
    BY <1>1 DEF Signals, ShellOK
  <2>2. FrameOK(f)
    BY DEF Frame, FrameOK, NeedsJob
  <2> QED BY <1>3, <2>1, <2>2, DeliverKeeps DEF EnterInt, Signals
<1>4. CASE EnterTstp
  <2> DEFINE f == Frame("TSTP", "tstp", first_job, current_pid)
  <2>1. f \in Frames /\ f.kind = "TSTP"
    BY <1>1 DEF Signals, ShellOK
  <2>2. FrameOK(f)
    BY DEF Frame, FrameOK, TstpPlaces, NeedsJob
  <2> QED BY <1>4, <2>1, <2>2, DeliverKeeps DEF EnterTstp, Signals
<1>5. ASSUME NEW sig \in {"INT", "TSTP"}, NoCurrent(sig)
      PROVE  Inv'
  <2>1. StackOK' /\ HandlersStay
    BY <1>5, SameStack DEF NoCurrent, program
  <2>2. ChildrenOK' /\ ListOK' /\ ShellOK' /\ EndsAreTold
    BY <1>5, SameList DEF NoCurrent, ChildrenOK, ShellOK, EndsAreTold, procs, program
  <2> QED BY <2>1, <2>2, Remembered
<1>6. CASE IntKillsShell
  <2>1. StackOK' /\ HandlersStay
    BY <1>6, SameStack DEF IntKillsShell
  <2>2. ChildrenOK' /\ ListOK' /\ ShellOK' /\ EndsAreTold
    BY <1>6, SameList, SameChildren DEF IntKillsShell, ShellOK
  <2> QED BY <2>1, <2>2, Remembered
<1> QED BY <1>2, <1>3, <1>4, <1>5, <1>6 DEF Handle

\* The handler of SIGCHLD leaves the stack only when no child has ended.
LEMMA ReapKeeps ==
    ASSUME Inv, Reap
    PROVE  Inv'
<1> USE DEF Inv, TypeOK
<1>1. Top.pc = "reap" /\ op' = op
  BY DEF Reap, At, program
<1>2. Top.kind = "CHLD"
  BY <1>1, TopFrame DEF FrameOK, Frames, MainPlaces, TstpPlaces
<1>3. ListOK'
  BY SameList DEF Reap
<1>4. CASE Zombies = {}
  <2>1. Return /\ UNCHANGED procs
    BY <1>4 DEF Reap
  <2>2. StackOK'
    BY <1>1, <1>2, <2>1, ReturnKeepsStack
  <2>3. Top.saved \subseteq Signals
    BY TopFrame DEF Frames
  <2>4. ChildrenOK' /\ ShellOK'
    BY <2>1, <2>3 DEF Reap, Return, ChildrenOK, ShellOK, procs, program
  <2>5. NoZombieForgotten'
    BY <1>4, <2>1 DEF NoZombieForgotten, Zombies, procs
  <2> QED BY <1>3, <2>2, <2>4, <2>5
<1>5. CASE Zombies # {}
  <2>1. PICK p \in Zombies :
           /\ Reaped(p)
           /\ Becomes([Top EXCEPT !.pc = "find", !.pid = p, !.status = how[p]])
           /\ UNCHANGED blocked
    BY <1>5 DEF Reap
  <2> DEFINE f == [Top EXCEPT !.pc = "find", !.pid = p, !.status = how[p]]
  <2>2. p \in MaybeProc /\ how[p] \in Endings
    BY DEF Zombies, MaybeProc, ChildrenOK
  <2>3. f \in Frames /\ f.kind = Top.kind /\ FrameOK(f)
    BY <1>2, <2>2, TopFrame DEF Frames, FrameOK, Places, ChldPlaces, NeedsJob
  <2>4. StackOK' /\ HandlersStay
    BY <1>1, <1>2, <2>1, <2>3, BecomesKeepsStack
  <2>5. ChildrenOK' /\ EndsAreTold
    BY <2>1, ReapedKeepsChildren DEF Reap
  <2>6. ShellOK'
    BY <2>1 DEF Reap, ShellOK, program
  <2> QED BY <1>3, <2>4, <2>5, <2>6, Remembered
<1> QED BY <1>4, <1>5

LEMMA FindJobKeeps ==
    ASSUME Inv, FindJob
    PROVE  Kept
<1> USE DEF Inv, TypeOK
<1>1. Top.pc = "find" /\ op' = op
  BY DEF FindJob, At, program
<1>2. Top.kind = "CHLD"
  BY <1>1, TopFrame DEF FrameOK, Frames, MainPlaces, TstpPlaces
<1>3. StackOK' /\ HandlersStay
  <2>1. CASE GotoReap
    BY <1>1, <1>2, <2>1, ReapNext
  <2>2. CASE Top.job # Null /\ GotoJob("find", job[Top.job].next)
    <3> DEFINE f == [Top EXCEPT !.pc = "find", !.job = job[Top.job].next]
    <3>1. job[Top.job].next \in MaybeJob
      BY <2>2, TopFrame DEF Frames, MaybeJob, ListOK, JobNodes
    <3>2. f \in Frames /\ f.kind = Top.kind /\ FrameOK(f)
      BY <1>2, <3>1, TopFrame DEF Frames, FrameOK, Places, ChldPlaces, NeedsJob
    <3> QED BY <1>1, <1>2, <2>2, <3>2, BecomesKeepsStack DEF GotoJob
  <2>3. CASE Top.job # Null /\ Goto("remove")
    <3> DEFINE f == [Top EXCEPT !.pc = "remove"]
    <3>1. f \in Frames /\ f.kind = Top.kind /\ FrameOK(f)
      BY <1>2, <2>3, TopFrame DEF Frames, FrameOK, Places, ChldPlaces, NeedsJob
    <3> QED BY <1>1, <1>2, <2>3, <3>1, BecomesKeepsStack DEF Goto
  <2> QED BY <2>1, <2>2, <2>3 DEF FindJob
<1>4. ChildrenOK' /\ EndsAreTold /\ ListOK'
  BY SameChildren, SameList DEF FindJob
<1>5. ShellOK'
  BY DEF FindJob, ShellOK, program
<1> QED BY <1>3, <1>4, <1>5 DEF Kept

\* A handler returns, and its mask is taken off.
LEMMA HandlerReturns ==
    ASSUME Inv, Return, Top.kind \in {"INT", "TSTP"}, op' = op
    PROVE  StackOK' /\ HandlersStay /\ blocked' \subseteq Signals
<1>1. StackOK /\ Top.kind # "main" /\ Top.kind # "CHLD"
  BY DEF Inv, TypeOK
<1>2. Top.saved \subseteq Signals
  BY <1>1, TopFrame DEF Frames
<1> QED BY <1>1, <1>2, ReturnKeepsStack DEF Return

\* A handler looks at the next job of the list.
LEMMA HandlerWalks ==
    ASSUME Inv, NEW pc \in {"int", "tstp"}, Top.pc = pc, Top.job # Null,
           GotoJob(pc, job[Top.job].next), op' = op
    PROVE  StackOK' /\ HandlersStay
<1> USE DEF Inv, TypeOK
<1> DEFINE f == [Top EXCEPT !.pc = pc, !.job = job[Top.job].next]
<1>1. job[Top.job].next \in MaybeJob
  BY TopFrame DEF Frames, MaybeJob, ListOK, JobNodes
<1>2. f \in Frames /\ f.kind = Top.kind /\ FrameOK(f) /\ ServesCommand(f, op)
  BY <1>1, TopFrame
  DEF Frames, FrameOK, Places, MainPlaces, ChldPlaces, TstpPlaces, NeedsJob, ServesCommand
<1> QED BY <1>2, BecomesKeepsStack DEF GotoJob

LEMMA TerminateCurrentKeeps ==
    ASSUME Inv, terminate_current_process_handler
    PROVE  Kept
<1> USE DEF Inv, TypeOK
<1>1. Top.pc = "int" /\ op' = op
  BY DEF terminate_current_process_handler, At, program
<1>2. Top.kind = "INT"
  BY <1>1, TopFrame DEF FrameOK, Frames, MainPlaces, ChldPlaces, TstpPlaces
<1>3. ListOK'
  BY SameList DEF terminate_current_process_handler
<1>4. CASE Top.job = Null
  <2>1. StackOK' /\ HandlersStay /\ blocked' \subseteq Signals
    BY <1>1, <1>2, <1>4, HandlerReturns DEF terminate_current_process_handler
  <2>2. ChildrenOK' /\ EndsAreTold /\ ShellOK'
    BY <1>4, <2>1
    DEF terminate_current_process_handler, ChildrenOK, EndsAreTold, ShellOK, program
  <2> QED BY <1>3, <2>1, <2>2 DEF Kept
<1>5. CASE Top.job # Null
  <2>1. StackOK' /\ HandlersStay
    BY <1>1, <1>5, HandlerWalks DEF terminate_current_process_handler
  <2>2. SignalsSent
    BY <1>5, KillTells DEF terminate_current_process_handler
  <2>3. ChildrenOK' /\ ShellOK'
    BY <1>5, <2>2
    DEF terminate_current_process_handler, SignalsSent, ChildrenOK, ShellOK, program
  <2> QED BY <1>3, <2>1, <2>2, <2>3 DEF Kept, SignalsSent
<1> QED BY <1>4, <1>5

LEMMA SuspendKeeps ==
    ASSUME Inv, suspend_process_handler
    PROVE  Kept
<1> USE DEF Inv, TypeOK
<1>1. Top.pc = "tstp" /\ op' = op
  BY DEF suspend_process_handler, At, program
<1>2. Top.kind = "TSTP"
  BY <1>1, TopFrame DEF FrameOK, Frames, MainPlaces, ChldPlaces
<1>3. ListOK'
  BY SameList DEF suspend_process_handler
<1>4. CASE Top.job = Null
  <2> DEFINE f == [Top EXCEPT !.pc = "create", !.pid = current_pid]
  <2>1. Becomes(f) /\ UNCHANGED <<st, how, pending, blocked>>
    BY <1>4 DEF suspend_process_handler
  <2>2. f \in Frames /\ f.kind = Top.kind /\ FrameOK(f)
    BY <1>2, TopFrame DEF ShellOK, Frames, FrameOK, Places, TstpPlaces, NeedsJob
  <2>3. StackOK' /\ HandlersStay
    BY <1>1, <1>2, <2>1, <2>2, BecomesKeepsStack
  <2>4. ChildrenOK' /\ EndsAreTold /\ ShellOK'
    BY <2>1 DEF suspend_process_handler, ChildrenOK, EndsAreTold, ShellOK, program
  <2> QED BY <1>3, <2>3, <2>4 DEF Kept
<1>5. CASE Top.job # Null /\ job[Top.job].pid = Top.pid
  <2>1. StackOK' /\ HandlersStay /\ blocked' \subseteq Signals
    BY <1>1, <1>2, <1>5, HandlerReturns DEF suspend_process_handler
  <2>2. SignalsSent
    BY <1>5, KillTells DEF suspend_process_handler
  <2>3. ChildrenOK' /\ ShellOK'
    BY <2>1, <2>2 DEF suspend_process_handler, SignalsSent, ChildrenOK, ShellOK, program
  <2> QED BY <1>3, <2>1, <2>2, <2>3 DEF Kept, SignalsSent
<1>6. CASE Top.job # Null /\ job[Top.job].pid # Top.pid
  <2>1. StackOK' /\ HandlersStay
    BY <1>1, <1>6, HandlerWalks DEF suspend_process_handler
  <2>2. ChildrenOK' /\ EndsAreTold /\ ShellOK'
    BY <1>6 DEF suspend_process_handler, ChildrenOK, EndsAreTold, ShellOK, program
  <2> QED BY <1>3, <2>1, <2>2 DEF Kept
<1> QED BY <1>4, <1>5, <1>6

LEMMA UseAfterFreeKeeps ==
    ASSUME Inv, UseAfterFree \/ HeapBroken
    PROVE  Kept
<1> USE DEF Inv, TypeOK
<1>1. StackOK' /\ HandlersStay
  BY SameStack DEF UseAfterFree, HeapBroken
<1>2. ChildrenOK' /\ EndsAreTold /\ ListOK' /\ ShellOK'
  BY SameChildren, SameList DEF UseAfterFree, HeapBroken, ShellOK
<1> QED BY <1>1, <1>2 DEF Kept
-----------------------------------------------------------------------------
(* The children and the keyboard                                           *)

LEMMA ExitKeeps ==
    ASSUME Inv, NEW p \in Procs, Exit(p)
    PROVE  Kept
<1> USE DEF Inv, TypeOK
<1>1. StackOK' /\ HandlersStay
  BY SameStack DEF Exit, program
<1>2. ChildrenOK' /\ EndsAreTold
  BY DEF Exit, Dies, ChildrenOK, EndsAreTold, Endings
<1>3. ListOK' /\ ShellOK'
  BY SameList DEF Exit, Dies, ShellOK, Signals, program
<1> QED BY <1>1, <1>2, <1>3 DEF Kept

LEMMA CtrlCKeeps ==
    ASSUME Inv, CtrlC
    PROVE  Kept
<1> USE DEF Inv, TypeOK
<1>1. StackOK' /\ HandlersStay
  BY SameStack DEF CtrlC, program
<1>2. ChildrenOK'
  BY DEF CtrlC, ChildrenOK, Endings
<1>3. EndsAreTold
  BY DEF CtrlC, EndsAreTold
<1>4. ListOK' /\ ShellOK'
  BY SameList DEF CtrlC, ShellOK, Signals, program
<1> QED BY <1>1, <1>2, <1>3, <1>4 DEF Kept

LEMMA CtrlZKeeps ==
    ASSUME Inv, CtrlZ
    PROVE  Kept
<1> USE DEF Inv, TypeOK
<1>1. StackOK' /\ HandlersStay
  BY SameStack DEF CtrlZ, program
<1>2. ChildrenOK' /\ EndsAreTold
  BY DEF CtrlZ, ChildrenOK, EndsAreTold
<1>3. ListOK' /\ ShellOK'
  BY SameList DEF CtrlZ, ShellOK, Signals, program
<1> QED BY <1>1, <1>2, <1>3 DEF Kept
-----------------------------------------------------------------------------
(* The theorems                                                            *)

LEMMA InitEstablishesInv == Init => Inv
<1> SUFFICES ASSUME Init PROVE Inv
  OBVIOUS
<1>1. ChildrenOK
  BY DEF Init, ChildrenOK, Endings
<1>2. ListOK
  <2>1. job \in [Jobs -> JobNodes]
    BY DEF Init, JobNodes, MaybeJob, MaybeProc
  <2>2. first_job \in MaybeJob /\ last_job \in MaybeJob
    BY DEF Init, MaybeJob
  <2>3. curruent_job_id \in Int
    <3>1. curruent_job_id = 1
      BY DEF Init
    <3> QED BY <3>1
  <2>4. reused \in BOOLEAN /\ tangled \in BOOLEAN
    <3>1. reused = FALSE /\ tangled = FALSE
      BY DEF Init
    <3> QED BY <3>1
  <2> QED BY <2>1, <2>2, <2>3, <2>4 DEF ListOK
<1>3. ShellOK
  BY DEF Init, ShellOK, MaybeProc, Signals
<1>4. StackOK
  <2> DEFINE f == [kind |-> "main", pc |-> "prompt", job |-> Null, pid |-> 0,
                   status |-> "none", saved |-> {}, ptr |-> Null, mask |-> {}]
  <2>1. f \in Frames
    BY DEF Frames, Places, MainPlaces, MaybeJob, MaybeProc, Endings
  <2>2. FrameOK(f) /\ ServesCommand(f, op)
    BY DEF FrameOK, MainPlaces, NeedsJob, ServesCommand
  <2>3. stack = <<f>>
    BY DEF Init
  <2> QED BY <2>1, <2>2, <2>3 DEF StackOK
<1>5. NoZombieForgotten
  BY DEF Init, NoZombieForgotten
<1> QED BY <1>1, <1>2, <1>3, <1>4, <1>5 DEF Inv, TypeOK

LEMMA KeptKeepsInv ==
    ASSUME Inv, Kept
    PROVE  Inv'
BY Remembered DEF Inv, Kept

LEMMA StepKeepsInv ==
    ASSUME Inv, Step
    PROVE  Inv'
<1>1. CASE LoopTop \/ Fork \/ EnterWait \/ StageReturns \/ StoreCurrent \/ WaitReturns
  BY <1>1, LoopTopKeeps, ForkKeeps, EnterWaitKeeps, StageReturnsKeeps, StoreCurrentKeeps,
     WaitReturnsKeeps, KeptKeepsInv
<1>2. CASE create_bg_process
  BY <1>2, CreateJobKeeps, AddKeeps, PrintJobKeeps, KeptKeepsInv
  DEF create_bg_process
<1>3. CASE process_background_command
  BY <1>3, SearchKeeps, WalkKeeps, KillJobKeeps, ContinueJobKeeps, FgDefaultKeeps,
     FgCurrentKeeps, FgContinueKeeps, KeptKeepsInv
  DEF process_background_command
<1>4. CASE remove_job_node
  BY <1>4, BlockInRemoveKeeps, RemoveKeeps, FreeJobKeeps, KeptKeepsInv DEF remove_job_node
<1>5. CASE terminate_process_handler
  BY <1>5, ReapKeeps, FindJobKeeps, KeptKeepsInv DEF terminate_process_handler
<1>6. CASE \/ terminate_current_process_handler \/ suspend_process_handler
           \/ UseAfterFree \/ HeapBroken
  BY <1>6, TerminateCurrentKeeps, SuspendKeeps, UseAfterFreeKeeps, KeptKeepsInv
<1> QED BY <1>1, <1>2, <1>3, <1>4, <1>5, <1>6 DEF Step

LEMMA NextKeepsInv == Inv /\ [Next]_vars => Inv'
<1> SUFFICES ASSUME Inv, [Next]_vars PROVE Inv'
  OBVIOUS
<1>1. CASE \E c \in Commands, n \in 0..Cardinality(Procs) : ReadCommand(c, n)
  BY <1>1, ReadCommandKeeps, KeptKeepsInv
<1>2. CASE Step
  BY <1>2, StepKeepsInv
<1>3. CASE Handle
  BY <1>3, HandleKeeps
<1>4. CASE \E p \in Procs : Exit(p)
  BY <1>4, ExitKeeps, KeptKeepsInv
<1>5. CASE CtrlC \/ CtrlZ
  BY <1>5, CtrlCKeeps, CtrlZKeeps, KeptKeepsInv
<1>6. CASE UNCHANGED vars
  BY <1>6 DEF vars, procs, list, program, Inv, TypeOK, ChildrenOK, ListOK, ShellOK, StackOK,
              NoZombieForgotten, Depth
<1> QED BY <1>1, <1>2, <1>3, <1>4, <1>5, <1>6 DEF Next, Over, Hang

\* The invariant holds in every state of the shell, whatever is typed and
\* whichever signals arrive, nest or merge.
THEOREM Invariance == Spec => []Inv
<1>1. Init => Inv
  BY InitEstablishesInv
<1>2. Inv /\ [Next]_vars => Inv'
  BY NextKeepsInv
<1> QED BY <1>1, <1>2, PTL DEF Spec

\* No child that has ended is forgotten: while the kernel keeps one, a SIGCHLD
\* is pending or a handler of SIGCHLD is still running (myshell.c,
\* terminate_process_handler's loop on waitpid with WNOHANG).
THEOREM NoChildForgotten == Spec => []NoZombieForgotten
<1>1. Inv => NoZombieForgotten
  BY DEF Inv
<1> QED BY <1>1, Invariance, PTL

\* Every frame that reads a job holds one: none of the places in
\* process_background_command, create_bg_process and remove_job_node that
\* follow their own pointer to a job without testing it is reached with NULL.
\* (It is not so of last_job, which create_bg_process tests and reads again
\* when a handler may have set it to NULL: UseAfterFree.)
FramesHoldJobs ==
    /\ \A i \in 1..Depth : stack[i].pc \in NeedsJob => stack[i].job \in Jobs
    /\ \A i \in 1..Depth : stack[i].kind = "main" <=> i = 1
THEOREM NoNullJob == Spec => []FramesHoldJobs
<1>1. Inv => FramesHoldJobs
  <2> SUFFICES ASSUME Inv PROVE FramesHoldJobs
    OBVIOUS
  <2>1. \A i \in 1..Len(stack) : stack[i] \in Frames /\ FrameOK(stack[i])
    BY DEF Inv, TypeOK, StackOK
  <2> QED BY <2>1 DEF Inv, TypeOK, StackOK, FramesHoldJobs, FrameOK, Frames, MaybeJob, Depth
<1> QED BY <1>1, Invariance, PTL

\* Children, jobs, masks and all frames on the stack keep their types, however
\* deep handlers nest.
THEOREM Types == Spec => []TypeOK
<1>1. Inv => TypeOK
  BY DEF Inv
<1> QED BY <1>1, Invariance, PTL
-----------------------------------------------------------------------------
(* Only the jobs of children that have been reaped are freed.              *)
(* A frame that has reaped a child, and may remove its job, is the only    *)
(* one that has that child.  While the handler of SIGCHLD looks for the    *)
(* job, no job of that child is freed, so malloc cannot return it; fg's    *)
(* job may be freed and reused under it, but only for current_pid, which   *)
(* is the child fg has waited for.                                         *)

\* A child has been reaped, and its job is looked for and removed.
RemovePlaces == {"remove", "rmfirst", "setnext", "rmlast", "setprev", "newid", "unlinknext",
                "unlinkprev", "free"}
ReapPlaces == {"find"} \cup RemovePlaces
HasChild == {"tostage", "instage", "forked", "create", "towait", "inwait"} \cup ReapPlaces
OfCommand == {"kill", "bgjob", "fg", "fgcurrent", "fgcont"}

\* fg has given its child the terminal, or has waited for it.
Foreground(f, o) == \/ f.pc \in {"towait", "inwait"} /\ o # "run"
                    \/ f.pc \in RemovePlaces

\* What a frame knows of its job and its child, given the children s, the jobs
\* b, the current child c and the command o.
FrameInv(f, s, b, c, o) ==
    /\ f.pc \in HasChild => f.pid # 0
    /\ f.kind = "TSTP" => f.pid = c /\ c # 0
    /\ f.pc \in ReapPlaces => s[f.pid] = "gone"
    /\ f.pc \in RemovePlaces => b[f.job].pid = f.pid
    /\ f.pc \in ReapPlaces /\ f.kind = "CHLD" => \A j \in Jobs : b[j].pid = f.pid => b[j].live
    /\ f.pc \in OfCommand => b[f.job].pid # 0
    /\ f.kind = "main" /\ f.pc = "fgcont" => b[f.job].pid = c
    /\ f.kind = "main" /\ Foreground(f, o) => b[f.job].pid = c /\ f.pid = c

FramesKnow == \A i \in 1..Len(stack) : FrameInv(stack[i], st, job, current_pid, op)
OneReaper == \A i, k \in 1..Len(stack) :
    stack[i].pc \in ReapPlaces /\ stack[k].pc \in ReapPlaces /\ stack[i].pid = stack[k].pid => i = k
JobsKnown == \A j \in Jobs : /\ job[j].id # 0 => job[j].pid # 0
                             /\ ~job[j].live /\ job[j].pid # 0 => st[job[j].pid] = "gone"
CommandKnown == op \in {"fg", "bgjob", "kill"} => arg # 0

ReapInv == FramesKnow /\ OneReaper /\ JobsKnown /\ CommandKnown

\* A child that has been reaped stays so.
GoneStays == \A p \in Procs : st[p] = "gone" => st'[p] = "gone"
JobsStay == \A j \in Jobs : /\ job'[j].pid = job[j].pid /\ job'[j].id = job[j].id
                            /\ job'[j].live = job[j].live
CommandStays == UNCHANGED <<op, arg, current_pid>>

LEMMA JobsStayKnown ==
    ASSUME Inv, ReapInv, GoneStays, JobsStay
    PROVE  JobsKnown'
<1> SUFFICES ASSUME NEW j \in Jobs
             PROVE  /\ job'[j].id # 0 => job'[j].pid # 0
                    /\ ~job'[j].live /\ job'[j].pid # 0 => st'[job'[j].pid] = "gone"
  BY DEF JobsKnown
<1>1. job[j].pid \in Procs \cup {0}
  BY DEF Inv, TypeOK, ListOK, JobNodes, MaybeProc
<1> QED BY <1>1 DEF ReapInv, JobsKnown, JobsStay, GoneStays

\* What a frame knows is not disturbed by others.
LEMMA FrameStays ==
    ASSUME Inv, ReapInv, GoneStays, JobsStay, CommandStays, NEW i \in 1..Len(stack)
    PROVE  FrameInv(stack[i], st', job', current_pid', op')
<1>1. stack[i] \in Frames /\ FrameOK(stack[i]) /\ FrameInv(stack[i], st, job, current_pid, op)
  BY DEF Inv, TypeOK, StackOK, ReapInv, FramesKnow
<1> DEFINE f == stack[i]
<1>2. f.pc \in NeedsJob => f.job \in Jobs /\ job'[f.job].pid = job[f.job].pid
  BY <1>1 DEF FrameOK, Frames, MaybeJob, JobsStay
<1>3. f.pc \in HasChild => f.pid \in Procs
  BY <1>1 DEF FrameInv, Frames, MaybeProc
<1>4. f.kind = "main" /\ Foreground(f, op) => f.job \in Jobs /\ job'[f.job].pid = job[f.job].pid
  <2>1. i = 1 \/ f.kind # "main"
    BY DEF Inv, TypeOK, StackOK
  <2>2. ServesCommand(stack[1], op)
    BY DEF Inv, TypeOK, StackOK
  <2> QED BY <1>1, <1>2, <2>1, <2>2
          DEF ServesCommand, Foreground, RemovePlaces, NeedsJob, Frames, MaybeJob, JobsStay
<1>5. f.pc \in ReapPlaces => st'[f.pid] = "gone"
  BY <1>1, <1>3 DEF FrameInv, GoneStays, HasChild
<1>6. f.pc \in ReapPlaces /\ f.kind = "CHLD" => \A j \in Jobs : job'[j].pid = f.pid => job'[j].live
  BY <1>1 DEF FrameInv, JobsStay
<1>7. op' = op /\ current_pid' = current_pid
  BY DEF CommandStays
<1> HIDE DEF f
<1> QED BY <1>1, <1>2, <1>4, <1>5, <1>6, <1>7
        DEF FrameInv, f, OfCommand, NeedsJob, Foreground, RemovePlaces

\* Nothing that a frame knows changes.
Undisturbed == GoneStays /\ JobsStay /\ CommandStays

\* The top frame moves on: it has a child that it had, or that nobody has.
LEMMA TopMoves ==
    ASSUME Inv, ReapInv, Undisturbed, NEW f, Becomes(f), FrameInv(f, st', job', current_pid', op'),
           f.pc \in ReapPlaces =>
               (Top.pc \in ReapPlaces /\ f.pid = Top.pid) \/ st[f.pid] # "gone"
    PROVE  ReapInv'
<1>1. Depth \in 1..Len(stack) /\ Top = stack[Depth]
  BY TopFrame DEF Inv, TypeOK, Top
<1>2. /\ Len(stack') = Len(stack)
      /\ \A i \in 1..Len(stack) : stack'[i] = IF i = Depth THEN f ELSE stack[i]
  BY DEF Inv, TypeOK, StackOK, Becomes
<1>3. \A i \in 1..Len(stack) : FrameInv(stack[i], st', job', current_pid', op')
  BY FrameStays DEF Undisturbed
<1>4. FramesKnow'
  <2>1. \A i \in 1..Len(stack) : FrameInv(stack'[i], st', job', current_pid', op')
    BY <1>2, <1>3
  <2> QED BY <1>2, <2>1 DEF FramesKnow
<1>5. \A i \in 1..Len(stack) : stack[i].pc \in ReapPlaces => st[stack[i].pid] = "gone"
  BY DEF ReapInv, FramesKnow, FrameInv
<1>6. OneReaper'
  BY <1>1, <1>2, <1>5 DEF OneReaper, ReapInv
<1>7. JobsKnown' /\ CommandKnown'
  BY JobsStayKnown DEF Undisturbed, CommandStays, ReapInv, CommandKnown
<1> QED BY <1>4, <1>6, <1>7 DEF ReapInv

\* main, which nothing has interrupted, moves on.
LEMMA MainMoves ==
    ASSUME Inv, ReapInv, GoneStays, JobsStay, Depth = 1, CommandKnown',
           NEW f, Becomes(f), FrameInv(f, st', job', current_pid', op')
    PROVE  ReapInv'
<1>1. Len(stack) = 1 /\ Depth \in 1..Len(stack)
  BY TopFrame DEF Inv, TypeOK, Depth
<1>2. Len(stack') = 1 /\ stack'[1] = f
  BY <1>1 DEF Inv, TypeOK, StackOK, Becomes
<1>3. FramesKnow' /\ OneReaper'
  BY <1>2 DEF FramesKnow, OneReaper
<1>4. JobsKnown'
  BY JobsStayKnown
<1> QED BY <1>3, <1>4 DEF ReapInv

\* A handler returns.
LEMMA TopReturns ==
    ASSUME Inv, ReapInv, Undisturbed, Return, Top.kind # "main"
    PROVE  ReapInv'
<1>1. stack \in Seq(Frames) /\ Len(stack) > 1 /\ stack' = SubSeq(stack, 1, Len(stack) - 1)
  <2>1. Depth # 1 /\ Depth \in 1..Len(stack) /\ Len(stack) \in Nat
    BY TopFrame DEF Inv, TypeOK
  <2>2. stack \in Seq(Frames) /\ stack' = SubSeq(stack, 1, Len(stack) - 1)
    BY DEF Return, Depth, Inv, TypeOK, StackOK
  <2>3. Len(stack) > 1
    <3> DEFINE n == Len(stack)
    <3>1. n # 1 /\ n \in 1..n /\ n \in Nat
      BY <2>1 DEF Depth
    <3> HIDE DEF n
    <3>2. n > 1
      BY <3>1
    <3> QED BY <3>2 DEF n
  <2> QED BY <2>2, <2>3
<1>2. /\ Len(stack') = Len(stack) - 1 /\ Len(stack) \in Nat
      /\ \A i \in 1..(Len(stack) - 1) : stack'[i] = stack[i]
  BY <1>1
<1>3. \A i \in 1..Len(stack) : FrameInv(stack[i], st', job', current_pid', op')
  BY FrameStays DEF Undisturbed
<1>4. \A i \in 1..Len(stack') : i \in 1..Len(stack) /\ stack'[i] = stack[i]
  BY <1>2
<1>5. FramesKnow' /\ OneReaper'
  <2>1. FramesKnow'
    BY <1>3, <1>4 DEF FramesKnow
  <2>2. OneReaper'
    BY <1>4 DEF OneReaper, ReapInv
  <2> QED BY <2>1, <2>2
<1>6. JobsKnown' /\ CommandKnown'
  BY JobsStayKnown DEF Undisturbed, CommandStays, ReapInv, CommandKnown
<1> QED BY <1>5, <1>6 DEF ReapInv

\* A handler starts.
LEMMA HandlerStarts ==
    ASSUME Inv, ReapInv, Undisturbed, NEW f, stack' = Append(stack, f),
           FrameInv(f, st', job', current_pid', op'), f.pc \notin ReapPlaces
    PROVE  ReapInv'
<1>1. /\ Len(stack') = Len(stack) + 1 /\ Len(stack) \in Nat
      /\ \A i \in 1..Len(stack) : stack'[i] = stack[i]
      /\ stack'[Len(stack) + 1] = f
  BY DEF Inv, TypeOK, StackOK
<1>2. \A i \in 1..Len(stack) : FrameInv(stack[i], st', job', current_pid', op')
  BY FrameStays DEF Undisturbed
<1>3. \A i \in 1..Len(stack') :
         (i \in 1..Len(stack) /\ stack'[i] = stack[i]) \/ stack'[i] = f
  BY <1>1
<1>4. FramesKnow'
  <2>1. \A i \in 1..Len(stack') : FrameInv(stack'[i], st', job', current_pid', op')
    BY <1>2, <1>3
  <2> QED BY <2>1 DEF FramesKnow
<1>5. OneReaper'
  BY <1>3 DEF OneReaper, ReapInv
<1>6. JobsKnown' /\ CommandKnown'
  BY JobsStayKnown DEF Undisturbed, CommandStays, ReapInv, CommandKnown
<1> QED BY <1>4, <1>5, <1>6 DEF ReapInv

LEMMA StackStays ==
    ASSUME Inv, ReapInv, Undisturbed, stack' = stack
    PROVE  ReapInv'
<1>1. \A i \in 1..Len(stack) : FrameInv(stack[i], st', job', current_pid', op')
  BY FrameStays DEF Undisturbed
<1>2. FramesKnow' /\ OneReaper'
  BY <1>1 DEF FramesKnow, OneReaper, ReapInv
<1>3. JobsKnown' /\ CommandKnown'
  BY JobsStayKnown DEF Undisturbed, CommandStays, ReapInv, CommandKnown
<1> QED BY <1>2, <1>3 DEF ReapInv

\* These places are main's, and nothing has interrupted it there.
MainOnly == {"prompt", "top", "fork", "tostage", "instage", "forked", "towait", "inwait", "search",
             "walk", "kill", "bgjob", "fg", "fgcurrent", "fgcont"}

LEMMA TopKnows ==
    ASSUME Inv, ReapInv
    PROVE  /\ Top \in Frames /\ FrameOK(Top) /\ FrameInv(Top, st, job, current_pid, op)
           /\ Top.kind = "main" <=> Depth = 1
           /\ Depth = 1 => ServesCommand(Top, op)
           /\ Top.pc \in MainOnly => Top.kind = "main" /\ Depth = 1
<1>1. Depth \in 1..Len(stack) /\ Top = stack[Depth]
  BY TopFrame DEF Inv, TypeOK, Top
<1>2. FrameInv(Top, st, job, current_pid, op)
  BY <1>1 DEF ReapInv, FramesKnow
<1>3. /\ Top \in Frames /\ FrameOK(Top)
      /\ Top.kind = "main" <=> Depth = 1
      /\ Depth = 1 => ServesCommand(Top, op)
  BY TopFrame DEF Inv, TypeOK
<1>4. Top.pc \in MainOnly => Top.kind = "main"
  BY <1>3 DEF Frames, FrameOK, MainOnly, ChldPlaces, TstpPlaces
<1> QED BY <1>2, <1>3, <1>4

\* Frames at these places need to know nothing of the jobs.
LEMMA NothingToKnow ==
    ASSUME NEW f, NEW s, NEW b, NEW c, NEW o, f.kind = "main",
           \/ f.pc \in {"prompt", "top", "fork", "search", "walk", "print"}
           \/ f.pc \in {"tostage", "instage", "forked", "create"} /\ f.pid # 0
    PROVE  FrameInv(f, s, b, c, o)
BY DEF FrameInv, HasChild, ReapPlaces, RemovePlaces, OfCommand, Foreground

LEMMA SameJobs ==
    ASSUME UNCHANGED list
    PROVE  JobsStay /\ job' = job
BY DEF list, JobsStay

LEMMA ReadCommandReaps ==
    ASSUME Inv, ReapInv, NEW c \in Commands, NEW n \in 0..Cardinality(Procs), ReadCommand(c, n)
    PROVE  ReapInv'
<1> DEFINE f == [Top EXCEPT !.pc = IF c \in {"run", "bg", "pipe"} THEN "fork" ELSE "search"]
<1>1. Becomes(f) /\ Top.pc = "prompt" /\ UNCHANGED procs /\ UNCHANGED list
  BY DEF ReadCommand, At, Goto
<1>2. Top.kind = "main" /\ Depth = 1 /\ Top \in Frames
  BY <1>1, TopKnows DEF MainOnly
<1>3. f.kind = "main" /\ f.pc \in {"fork", "search"}
  BY <1>2 DEF Frames
<1>4. CommandKnown'
  BY DEF ReadCommand, CommandKnown
<1>5. GoneStays
  BY <1>1 DEF GoneStays, procs
<1> HIDE DEF f
<1>6. FrameInv(f, st', job', current_pid', op')
  BY <1>3, NothingToKnow
<1> QED BY <1>1, <1>2, <1>4, <1>5, <1>6, SameJobs, MainMoves

LEMMA LoopTopReaps ==
    ASSUME Inv, ReapInv, LoopTop
    PROVE  ReapInv'
<1> DEFINE f == [Top EXCEPT !.pc = "prompt"]
<1>1. Becomes(f) /\ Top.pc = "top" /\ UNCHANGED procs /\ UNCHANGED list /\ op' = "none"
  BY DEF LoopTop, At, Goto
<1>2. Top.kind = "main" /\ Depth = 1 /\ Top \in Frames
  BY <1>1, TopKnows DEF MainOnly
<1>3. f.kind = "main" /\ f.pc = "prompt"
  BY <1>2 DEF Frames
<1>4. CommandKnown' /\ GoneStays
  BY <1>1 DEF CommandKnown, GoneStays, procs
<1> HIDE DEF f
<1>5. FrameInv(f, st', job', current_pid', op')
  BY <1>3, NothingToKnow
<1> QED BY <1>1, <1>2, <1>4, <1>5, SameJobs, MainMoves

LEMMA ForkReaps ==
    ASSUME Inv, ReapInv, Fork
    PROVE  ReapInv'
<1>1. PICK p \in Procs :
         /\ st[p] = "new" /\ st' = [st EXCEPT ![p] = "run"]
         /\ Becomes([Top EXCEPT !.pc = IF op = "pipe" THEN "tostage" ELSE "forked", !.pid = p])
  BY DEF Fork, IsNext
<1> DEFINE f == [Top EXCEPT !.pc = IF op = "pipe" THEN "tostage" ELSE "forked", !.pid = p]
<1>2. Becomes(f) /\ Top.pc = "fork" /\ UNCHANGED list /\ op' = op /\ arg' = arg
  BY <1>1 DEF Fork, At, program
<1>3. Top.kind = "main" /\ Depth = 1 /\ Top \in Frames
  BY <1>2, TopKnows DEF MainOnly
<1>4. f.kind = "main" /\ f.pc \in {"tostage", "forked"} /\ f.pid # 0
  BY <1>3, ShellJobsAssumption DEF Frames
<1>5. CommandKnown' /\ GoneStays
  <2>1. CommandKnown'
    BY <1>2 DEF CommandKnown, ReapInv
  <2>2. GoneStays
    BY <1>1 DEF GoneStays, Inv, TypeOK, ChildrenOK
  <2> QED BY <2>1, <2>2
<1> HIDE DEF f
<1>6. FrameInv(f, st', job', current_pid', op')
  BY <1>4, NothingToKnow
<1> QED BY <1>2, <1>3, <1>5, <1>6, SameJobs, MainMoves

LEMMA EnterWaitReaps ==
    ASSUME Inv, ReapInv, EnterWait
    PROVE  ReapInv'
<1> DEFINE f == [Top EXCEPT !.pc = IF Top.pc = "tostage" THEN "instage" ELSE "inwait"]
<1>1. /\ Becomes(f) /\ Top.pc \in {"tostage", "towait"} /\ UNCHANGED procs /\ UNCHANGED list
      /\ CommandStays
  BY DEF EnterWait, At, Goto, CommandStays, program
<1>2. Top.kind = "main" /\ Top \in Frames /\ FrameInv(Top, st, job, current_pid, op)
  BY <1>1, TopKnows DEF MainOnly
<1>3. Undisturbed
  BY <1>1, SameJobs DEF Undisturbed, GoneStays, procs
<1>4. /\ f.kind = "main" /\ f.pid = Top.pid /\ f.job = Top.job
      /\ f.pc = IF Top.pc = "tostage" THEN "instage" ELSE "inwait"
  BY <1>2 DEF Frames
<1>5. FrameInv(f, st', job', current_pid', op') /\ f.pc \notin ReapPlaces
  BY <1>1, <1>2, <1>4, SameJobs
  DEF FrameInv, CommandStays, HasChild, ReapPlaces, RemovePlaces, OfCommand, Foreground
<1> QED BY <1>1, <1>3, <1>5, TopMoves

LEMMA StageReturnsReaps ==
    ASSUME Inv, ReapInv, StageReturns
    PROVE  ReapInv'
<1> DEFINE f == [Top EXCEPT !.pc = "fork"]
<1>1. Becomes(f) /\ Top.pc = "instage" /\ UNCHANGED list /\ op' = "run" /\ Reaped(Top.pid)
  BY DEF StageReturns, At, Goto
<1>2. Top.kind = "main" /\ Depth = 1 /\ Top \in Frames
  BY <1>1, TopKnows DEF MainOnly
<1>3. f.kind = "main" /\ f.pc = "fork"
  BY <1>2 DEF Frames
<1>4. CommandKnown' /\ GoneStays
  BY <1>1 DEF CommandKnown, GoneStays, Reaped, Inv, TypeOK, ChildrenOK
<1> HIDE DEF f
<1>5. FrameInv(f, st', job', current_pid', op')
  BY <1>3, NothingToKnow
<1> QED BY <1>1, <1>2, <1>4, <1>5, SameJobs, MainMoves

LEMMA StoreCurrentReaps ==
    ASSUME Inv, ReapInv, StoreCurrent
    PROVE  ReapInv'
<1> DEFINE f == [Top EXCEPT !.pc = IF op = "bg" THEN "create" ELSE "towait"]
<1>1. /\ Becomes(f) /\ Top.pc = "forked" /\ UNCHANGED procs /\ UNCHANGED list
      /\ op' = op /\ arg' = arg
  BY DEF StoreCurrent, At, Goto, program
<1>2. /\ Top.kind = "main" /\ Depth = 1 /\ Top \in Frames
      /\ op \in {"run", "bg"} /\ Top.pid # 0
  BY <1>1, TopKnows DEF MainOnly, ServesCommand, FrameInv, HasChild
<1>3. /\ f.kind = "main" /\ f.pid # 0
      /\ f.pc = IF op = "bg" THEN "create" ELSE "towait"
  BY <1>2 DEF Frames
<1>4. CommandKnown' /\ GoneStays
  BY <1>1 DEF CommandKnown, GoneStays, procs, ReapInv
<1> HIDE DEF f
<1>5. FrameInv(f, st', job', current_pid', op')
  BY <1>1, <1>2, <1>3 DEF FrameInv, HasChild, ReapPlaces, RemovePlaces, OfCommand, Foreground
<1> QED BY <1>1, <1>2, <1>4, <1>5, SameJobs, MainMoves

\* A signal does not bring back a child that has been reaped.
LEMMA KillLeavesGone ==
    ASSUME Inv, NEW p, Sigkill(p) \/ Sigstop(p) \/ Sigcont(p) \/ UNCHANGED <<st, how, pending>>
    PROVE  GoneStays
<1>1. st \in [Procs -> {"new", "run", "stop", "halted", "zombie", "gone"}]
  BY DEF Inv, TypeOK, ChildrenOK
<1>2. CASE Sigkill(p)
  BY <1>1, <1>2 DEF Sigkill, Stopped, Dies, GoneStays
<1>3. CASE Sigstop(p)
  BY <1>1, <1>3 DEF Sigstop, GoneStays
<1>4. CASE Sigcont(p)
  BY <1>1, <1>4 DEF Sigcont, Stopped, Dies, GoneStays
<1> QED BY <1>2, <1>3, <1>4 DEF GoneStays

LEMMA ReapedLeavesGone ==
    ASSUME Inv, NEW p, Reaped(p)
    PROVE  GoneStays /\ (p \in Procs => st'[p] = "gone")
BY DEF Reaped, GoneStays, Inv, TypeOK, ChildrenOK

\* The command of main is done.
LEMMA CommandDoneReaps ==
    ASSUME Inv, ReapInv, GotoTop, GoneStays, JobsStay, Top.kind = "main", CommandKnown'
    PROVE  ReapInv'
<1> DEFINE f == [Top EXCEPT !.pc = "top", !.job = Null, !.pid = 0, !.mask = {}]
<1>1. Becomes(f) /\ Top \in Frames /\ Depth = 1
  BY TopKnows DEF GotoTop
<1>2. f.kind = "main" /\ f.pc = "top"
  BY <1>1 DEF Frames
<1> HIDE DEF f
<1>3. FrameInv(f, st', job', current_pid', op')
  BY <1>2 DEF FrameInv, HasChild, ReapPlaces, RemovePlaces, OfCommand, Foreground
<1> QED BY <1>1, <1>3, MainMoves

LEMMA WaitReturnsReaps ==
    ASSUME Inv, ReapInv, WaitReturns
    PROVE  ReapInv'
<1>1. Top.pc = "inwait" /\ UNCHANGED list /\ op' = op /\ arg' = arg /\ current_pid' = current_pid
  BY DEF WaitReturns, At, program
<1>2. /\ Top.kind = "main" /\ Depth = 1 /\ Top \in Frames /\ Top.pid \in Procs
      /\ FrameInv(Top, st, job, current_pid, op)
  BY <1>1, TopKnows DEF MainOnly, FrameInv, HasChild, Frames, MaybeProc
<1>3. CommandKnown'
  BY <1>1 DEF CommandKnown, ReapInv
<1>4. GoneStays /\ (st[Top.pid] # "stop" => st'[Top.pid] = "gone")
  <2>1. CASE st[Top.pid] = "stop"
    BY <1>2, <2>1 DEF WaitReturns, GoneStays, Inv, TypeOK, ChildrenOK
  <2>2. CASE st[Top.pid] # "stop"
    BY <1>2, <2>2, ReapedLeavesGone DEF WaitReturns
  <2> QED BY <2>1, <2>2
<1>5. CASE GotoTop
  BY <1>1, <1>2, <1>3, <1>4, <1>5, SameJobs, CommandDoneReaps
<1>6. CASE op # "run" /\ Goto("print")
  <2> DEFINE f == [Top EXCEPT !.pc = "print"]
  <2>1. Becomes(f) /\ f.kind = "main" /\ f.pc = "print"
    BY <1>2, <1>6 DEF Goto, Frames
  <2> HIDE DEF f
  <2>2. FrameInv(f, st', job', current_pid', op')
    BY <2>1, NothingToKnow
  <2> QED BY <1>1, <1>2, <1>3, <1>4, <2>1, <2>2, SameJobs, MainMoves
<1>7. CASE op # "run" /\ Goto("remove") /\ st[Top.pid] # "stop"
  <2> DEFINE f == [Top EXCEPT !.pc = "remove"]
  <2>1. Becomes(f) /\ f.kind = "main" /\ f.pc = "remove" /\ f.pid = Top.pid /\ f.job = Top.job
    BY <1>2, <1>7 DEF Goto, Frames
  <2> HIDE DEF f
  <2>2. job[Top.job].pid = current_pid /\ Top.pid = current_pid /\ Top.pid # 0
    BY <1>1, <1>2, <1>7 DEF FrameInv, Foreground, RemovePlaces, HasChild
  <2>3. job' = job
    BY <1>1, SameJobs
  <2>4. FrameInv(f, st', job', current_pid', op')
    BY <1>1, <1>4, <1>7, <2>1, <2>2, <2>3
    DEF FrameInv, HasChild, ReapPlaces, RemovePlaces, OfCommand, Foreground
  <2> QED BY <1>1, <1>2, <1>3, <1>4, <2>1, <2>4, SameJobs, MainMoves
<1> QED BY <1>5, <1>6, <1>7 DEF WaitReturns

LEMMA SearchReaps ==
    ASSUME Inv, ReapInv, Search
    PROVE  ReapInv'
<1> DEFINE f == [Top EXCEPT !.pc = "walk", !.job = first_job]
<1>1. Becomes(f) /\ Top.pc = "search" /\ UNCHANGED procs /\ UNCHANGED list /\ CommandStays
  BY DEF Search, At, GotoJob, CommandStays, program
<1>2. Top.kind = "main" /\ Depth = 1 /\ Top \in Frames
  BY <1>1, TopKnows DEF MainOnly
<1>3. f.kind = "main" /\ f.pc = "walk"
  BY <1>2 DEF Frames
<1>4. CommandKnown' /\ GoneStays
  BY <1>1 DEF CommandKnown, ReapInv, CommandStays, GoneStays, procs
<1> HIDE DEF f
<1>5. FrameInv(f, st', job', current_pid', op')
  BY <1>3, NothingToKnow
<1> QED BY <1>1, <1>2, <1>4, <1>5, SameJobs, MainMoves

LEMMA WalkReaps ==
    ASSUME Inv, ReapInv, Walk
    PROVE  ReapInv'
<1>1. Top.pc = "walk" /\ UNCHANGED procs /\ UNCHANGED list /\ CommandStays
  BY DEF Walk, At, CommandStays, program
<1>2. /\ Top.kind = "main" /\ Depth = 1 /\ Top \in Frames
      /\ op \in {"jobs", "fg", "bgjob", "kill"}
  BY <1>1, TopKnows DEF MainOnly, ServesCommand
<1>3. CommandKnown' /\ GoneStays /\ JobsStay
  BY <1>1, SameJobs DEF CommandKnown, ReapInv, CommandStays, GoneStays, procs
<1>4. CASE GotoTop
  BY <1>2, <1>3, <1>4, CommandDoneReaps
<1>5. CASE Top.job # Null /\ op # "jobs" /\ job[Top.job].id = arg /\ Goto(op)
  <2> DEFINE f == [Top EXCEPT !.pc = op]
  <2>1. Becomes(f) /\ f.kind = "main" /\ f.pc = op /\ f.job = Top.job
    BY <1>2, <1>5 DEF Goto, Frames
  <2> HIDE DEF f
  <2>2. Top.job \in Jobs /\ op \in {"fg", "bgjob", "kill"} /\ arg # 0
    BY <1>2, <1>5 DEF Frames, MaybeJob, ReapInv, CommandKnown
  <2>3. job[Top.job].pid # 0
    BY <1>5, <2>2 DEF ReapInv, JobsKnown
  <2>4. job' = job
    BY <1>1, SameJobs
  <2>5. FrameInv(f, st', job', current_pid', op')
    BY <2>1, <2>2, <2>3, <2>4 DEF FrameInv, HasChild, ReapPlaces, RemovePlaces, OfCommand, Foreground
  <2> QED BY <1>2, <1>3, <2>1, <2>5, MainMoves
<1>6. CASE GotoJob("walk", job[Top.job].next)
  <2> DEFINE f == [Top EXCEPT !.pc = "walk", !.job = job[Top.job].next]
  <2>1. Becomes(f) /\ f.kind = "main" /\ f.pc = "walk"
    BY <1>2, <1>6 DEF GotoJob, Frames
  <2> HIDE DEF f
  <2>2. FrameInv(f, st', job', current_pid', op')
    BY <2>1, NothingToKnow
  <2> QED BY <1>2, <1>3, <2>1, <2>2, MainMoves
<1> QED BY <1>4, <1>5, <1>6 DEF Walk

LEMMA KillJobReaps ==
    ASSUME Inv, ReapInv, KillJob
    PROVE  ReapInv'
<1>1. Top.pc = "kill" /\ GotoTop /\ UNCHANGED list /\ op' = op /\ arg' = arg
  BY DEF KillJob, At, program
<1>2. Top.kind = "main" /\ CommandKnown'
  BY <1>1, TopKnows DEF MainOnly, CommandKnown, ReapInv
<1>3. GoneStays
  BY KillLeavesGone DEF KillJob
<1> QED BY <1>1, <1>2, <1>3, SameJobs, CommandDoneReaps

LEMMA ContinueJobReaps ==
    ASSUME Inv, ReapInv, ContinueJob
    PROVE  ReapInv'
<1>1. Top.pc = "bgjob" /\ GotoTop /\ UNCHANGED list /\ op' = op /\ arg' = arg
  BY DEF ContinueJob, At, program
<1>2. Top.kind = "main" /\ CommandKnown'
  BY <1>1, TopKnows DEF MainOnly, CommandKnown, ReapInv
<1>3. GoneStays
  BY KillLeavesGone DEF ContinueJob
<1> QED BY <1>1, <1>2, <1>3, SameJobs, CommandDoneReaps

\* fg makes the child of its job the current one.
LEMMA FgReaps ==
    ASSUME Inv, ReapInv, FgDefault \/ FgCurrent
    PROVE  ReapInv'
<1> DEFINE pc == IF Top.pc = "fg" THEN "fgcurrent" ELSE "fgcont"
<1> DEFINE f == [Top EXCEPT !.pc = pc]
<1>1. /\ Becomes(f) /\ Top.pc \in {"fg", "fgcurrent"} /\ UNCHANGED procs /\ UNCHANGED list
      /\ op' = op /\ arg' = arg /\ (pc = "fgcont" => current_pid' = job[Top.job].pid)
  BY DEF FgDefault, FgCurrent, At, Goto
<1>2. Top.kind = "main" /\ Depth = 1 /\ Top \in Frames /\ job[Top.job].pid # 0
  BY <1>1, TopKnows DEF MainOnly, FrameInv, OfCommand
<1>3. f.kind = "main" /\ f.pc = pc /\ f.job = Top.job
  BY <1>2 DEF Frames
<1>4. CommandKnown' /\ GoneStays
  BY <1>1 DEF CommandKnown, ReapInv, GoneStays, procs
<1>5. job' = job
  BY <1>1, SameJobs
<1> HIDE DEF f
<1>6. FrameInv(f, st', job', current_pid', op')
  BY <1>1, <1>2, <1>3, <1>5 DEF FrameInv, HasChild, ReapPlaces, RemovePlaces, OfCommand, Foreground
<1> QED BY <1>1, <1>2, <1>4, <1>6, SameJobs, MainMoves

LEMMA FgContinueReaps ==
    ASSUME Inv, ReapInv, FgContinue
    PROVE  ReapInv'
<1> DEFINE f == [Top EXCEPT !.pc = "towait", !.pid = job[Top.job].pid]
<1>1. Becomes(f) /\ Top.pc = "fgcont" /\ UNCHANGED list /\ CommandStays
  BY DEF FgContinue, At, CommandStays, program
<1>2. /\ Top.kind = "main" /\ Depth = 1 /\ Top \in Frames
      /\ job[Top.job].pid # 0 /\ job[Top.job].pid = current_pid
  BY <1>1, TopKnows DEF MainOnly, FrameInv, OfCommand
<1>3. f.kind = "main" /\ f.pc = "towait" /\ f.job = Top.job /\ f.pid = current_pid
  BY <1>2 DEF Frames
<1>4. CommandKnown'
  BY <1>1 DEF CommandKnown, ReapInv, CommandStays
<1>5. GoneStays
  BY KillLeavesGone DEF FgContinue
<1>6. job' = job
  BY <1>1, SameJobs
<1> HIDE DEF f
<1>7. FrameInv(f, st', job', current_pid', op')
  BY <1>1, <1>2, <1>3, <1>6
  DEF FrameInv, HasChild, ReapPlaces, RemovePlaces, OfCommand, Foreground, CommandStays
<1> QED BY <1>1, <1>2, <1>4, <1>5, <1>7, SameJobs, MainMoves

\* malloc does not return the job that a frame of the handler of SIGCHLD looks
\* for, and one that fg still has becomes the same child's again.
LEMMA CreateJobFrames ==
    ASSUME Inv, ReapInv, CreateJob, NEW i \in 1..Len(stack), i # Depth
    PROVE  FrameInv(stack[i], st', job', current_pid', op')
<1>1. PICK j \in Jobs :
         /\ IsNew(j)
         /\ job' = [job EXCEPT ![j] = [live |-> TRUE, pid |-> Top.pid, id |-> curruent_job_id,
                                       next |-> Null, prev |-> Null]]
  BY DEF CreateJob
<1>2. Top.pc = "create" /\ st' = st /\ current_pid' = current_pid /\ op' = op
  BY DEF CreateJob, At, program
<1>3. Top.pid # 0 /\ (Top.kind = "TSTP" => Top.pid = current_pid)
  BY <1>2, TopKnows DEF FrameInv, HasChild
<1>4. /\ stack[i] \in Frames /\ FrameOK(stack[i]) /\ FrameInv(stack[i], st, job, current_pid, op)
      /\ stack[i].kind = "main" => i = 1 /\ ServesCommand(stack[i], op)
  BY DEF Inv, TypeOK, StackOK, ReapInv, FramesKnow
<1> DEFINE f == stack[i]
<1>5. f.kind = "main" => Top.pid = current_pid
  <2>1. f.kind = "main" => Top.kind # "main"
    BY <1>4, TopKnows
  <2>2. Top.kind \in {"main", "TSTP"}
    BY <1>2, TopKnows DEF FrameOK, Frames, ChldPlaces
  <2> QED BY <1>3, <2>1, <2>2
<1>6. \A k \in Jobs : /\ job'[k].pid = IF k = j THEN Top.pid ELSE job[k].pid
                      /\ job'[k].live = (k = j \/ job[k].live)
  BY <1>1 DEF Inv, TypeOK, ListOK, JobNodes
<1>7. ~job[j].live
  BY <1>1 DEF IsNew
<1>8. f.pc \in NeedsJob \/ (f.kind = "main" /\ Foreground(f, op)) => f.job \in Jobs
  BY <1>4 DEF FrameOK, Frames, MaybeJob, Foreground, RemovePlaces, ServesCommand, NeedsJob
<1>9. f.pc \in RemovePlaces => job'[f.job].pid = f.pid
  <2> SUFFICES ASSUME f.pc \in RemovePlaces, f.job = j PROVE job'[f.job].pid = f.pid
    BY <1>4, <1>6, <1>8 DEF FrameInv, NeedsJob, RemovePlaces
  <2>1. f.kind = "main"
    BY <1>4, <1>7 DEF FrameInv, FrameOK, Frames, ReapPlaces, RemovePlaces, TstpPlaces
  <2> QED BY <1>4, <1>5, <1>6, <2>1 DEF FrameInv, Foreground, RemovePlaces
<1>10. f.pc \in ReapPlaces /\ f.kind = "CHLD" => \A k \in Jobs : job'[k].pid = f.pid => job'[k].live
  BY <1>4, <1>6 DEF FrameInv
<1>11. f.pc \in OfCommand => job'[f.job].pid # 0
  BY <1>3, <1>4, <1>6, <1>8 DEF FrameInv, OfCommand, NeedsJob
<1>12. f.kind = "main" /\ f.pc = "fgcont" => job'[f.job].pid = current_pid
  BY <1>4, <1>5, <1>6, <1>8 DEF FrameInv, NeedsJob
<1>13. f.kind = "main" /\ Foreground(f, op) => job'[f.job].pid = current_pid /\ f.pid = current_pid
  BY <1>4, <1>5, <1>6, <1>8 DEF FrameInv
<1> HIDE DEF f
<1> QED BY <1>2, <1>4, <1>9, <1>10, <1>11, <1>12, <1>13 DEF FrameInv, f

\* The frames when the jobs change under them: each still knows its own, and
\* the top frame no longer has a child that it has reaped.
LEMMA JobsChange ==
    ASSUME Inv, ReapInv, NEW f, Becomes(f), FrameInv(f, st', job', current_pid', op'),
           f.pc \notin ReapPlaces, JobsKnown', CommandStays,
           \A i \in 1..Len(stack) :
               i # Depth => FrameInv(stack[i], st', job', current_pid', op')
    PROVE  ReapInv'
<1>1. Depth \in 1..Len(stack)
  BY TopFrame DEF Inv, TypeOK
<1>2. /\ Len(stack') = Len(stack)
      /\ \A i \in 1..Len(stack) : stack'[i] = IF i = Depth THEN f ELSE stack[i]
  BY DEF Inv, TypeOK, StackOK, Becomes
<1>3. FramesKnow'
  <2>1. \A i \in 1..Len(stack) : FrameInv(stack'[i], st', job', current_pid', op')
    BY <1>2
  <2> QED BY <1>2, <2>1 DEF FramesKnow
<1>4. OneReaper'
  BY <1>2 DEF OneReaper, ReapInv
<1>5. CommandKnown'
  BY DEF CommandStays, ReapInv, CommandKnown
<1> QED BY <1>3, <1>4, <1>5 DEF ReapInv

LEMMA CreateJobReaps ==
    ASSUME Inv, ReapInv, CreateJob
    PROVE  ReapInv'
<1>1. PICK j \in Jobs :
         /\ job' = [job EXCEPT ![j] = [live |-> TRUE, pid |-> Top.pid, id |-> curruent_job_id,
                                       next |-> Null, prev |-> Null]]
         /\ GotoJob("addfirst", j)
  BY DEF CreateJob
<1> DEFINE f == [Top EXCEPT !.pc = "addfirst", !.job = j]
<1>2. Becomes(f) /\ Top.pc = "create" /\ st' = st /\ CommandStays
  BY <1>1 DEF CreateJob, At, program, GotoJob, CommandStays
<1>3. Top \in Frames /\ Top.pid # 0 /\ (Top.kind = "TSTP" => Top.pid = current_pid)
  BY <1>2, TopKnows DEF FrameInv, HasChild
<1>4. f.pc = "addfirst" /\ f.kind = Top.kind /\ f.pid = Top.pid
  BY <1>3 DEF Frames
<1>5. JobsKnown'
  <2> SUFFICES ASSUME NEW k \in Jobs
               PROVE  /\ job'[k].id # 0 => job'[k].pid # 0
                      /\ ~job'[k].live /\ job'[k].pid # 0 => st'[job'[k].pid] = "gone"
    BY DEF JobsKnown
  <2>1. CASE k = j
    BY <1>1, <1>3, <2>1 DEF Inv, TypeOK, ListOK
  <2>2. CASE k # j
    <3>1. job'[k] = job[k]
      BY <1>1, <2>2 DEF Inv, TypeOK, ListOK
    <3> QED BY <1>2, <3>1 DEF ReapInv, JobsKnown
  <2> QED BY <2>1, <2>2
<1> HIDE DEF f
<1>6. FrameInv(f, st', job', current_pid', op') /\ f.pc \notin ReapPlaces
  BY <1>2, <1>3, <1>4 DEF FrameInv, HasChild, ReapPlaces, RemovePlaces, OfCommand, Foreground, CommandStays
<1> QED BY <1>2, <1>5, <1>6, CreateJobFrames, JobsChange

\* The top frame goes to pc, and keeps its job and its child.
LEMMA OnlyMoves ==
    ASSUME Top \in Frames, NEW pc, NEW q, NEW m,
           Goto(pc) \/ GotoPtr(pc, q) \/ Becomes([Top EXCEPT !.pc = pc, !.mask = m])
    PROVE  \E f : /\ Becomes(f) /\ f.kind = Top.kind /\ f.pid = Top.pid /\ f.job = Top.job
                  /\ f.pc = pc
<1>1. CASE Goto(pc)
  <2> DEFINE f == [Top EXCEPT !.pc = pc]
  <2>1. /\ Becomes(f) /\ f.kind = Top.kind /\ f.pid = Top.pid /\ f.job = Top.job
        /\ f.pc = pc
    BY <1>1 DEF Goto, Frames
  <2> HIDE DEF f
  <2> QED BY <2>1
<1>2. CASE GotoPtr(pc, q)
  <2> DEFINE f == [Top EXCEPT !.pc = pc, !.ptr = q]
  <2>1. /\ Becomes(f) /\ f.kind = Top.kind /\ f.pid = Top.pid /\ f.job = Top.job
        /\ f.pc = pc
    BY <1>2 DEF GotoPtr, Frames
  <2> HIDE DEF f
  <2> QED BY <2>1
<1>3. CASE Becomes([Top EXCEPT !.pc = pc, !.mask = m])
  <2> DEFINE f == [Top EXCEPT !.pc = pc, !.mask = m]
  <2>1. /\ Becomes(f) /\ f.kind = Top.kind /\ f.pid = Top.pid /\ f.job = Top.job
        /\ f.pc = pc
    BY <1>3 DEF Frames
  <2> HIDE DEF f
  <2> QED BY <2>1
<1> QED BY <1>1, <1>2, <1>3

\* The steps of create_bg_process and remove_job_node that read or store one
\* link.
LEMMA LinkReaps ==
    ASSUME Inv, ReapInv,
           \/ TestEnds \/ AddFirst \/ ReadLast \/ AddNext \/ AddPrev \/ AddLast
           \/ BlockInRemove \/ ReadEnds \/ RemoveFirst \/ RemoveLast \/ NewId
           \/ UnlinkNext \/ UnlinkPrev
    PROVE  ReapInv'
<1>1. UNCHANGED procs /\ CommandStays
  BY DEF TestEnds, AddFirst, ReadLast, AddNext, AddPrev, AddLast, BlockInRemove, ReadEnds,
         RemoveFirst, RemoveLast, NewId, UnlinkNext, UnlinkPrev, CommandStays, program
<1>2. Top \in Frames /\ FrameInv(Top, st, job, current_pid, op)
  BY TopKnows
<1> DEFINE Goes(pc, q, m) ==
               /\ Goto(pc) \/ GotoPtr(pc, q) \/ Becomes([Top EXCEPT !.pc = pc, !.mask = m])
               /\ \/ Top.pc \in Adding /\ pc \in Adding \cup {"print"}
                  \/ Top.pc \in RemovePlaces /\ pc \in RemovePlaces
<1>3. \E pc, q, m : Goes(pc, q, m)
  <2>1. CASE TestEnds \/ AddFirst \/ AddLast
    <3>1. \E pc \in Adding \cup {"print"} : Top.pc \in Adding /\ Goto(pc)
      BY <2>1 DEF TestEnds, AddFirst, AddLast, At, Adding
    <3> QED BY <3>1
  <2>2. CASE ReadLast \/ AddNext \/ AddPrev
    <3>1. \E pc \in Adding, q \in {last_job, Null} : Top.pc \in Adding /\ GotoPtr(pc, q)
      BY <2>2 DEF ReadLast, AddNext, AddPrev, At, Adding
    <3> QED BY <3>1
  <2>3. CASE BlockInRemove
    <3>1. \E m : Becomes([Top EXCEPT !.pc = "rmfirst", !.mask = m])
      BY <2>3 DEF BlockInRemove
    <3>2. Top.pc \in RemovePlaces /\ "rmfirst" \in RemovePlaces
      BY <2>3 DEF BlockInRemove, At, RemovePlaces
    <3> QED BY <3>1, <3>2
  <2>4. CASE ReadEnds \/ RemoveFirst \/ RemoveLast
    <3>1. \E pc \in RemovePlaces, q \in {job[Gone].next, job[Gone].prev, Null} :
             Top.pc \in RemovePlaces /\ (GotoPtr(pc, q) \/ Goto(pc))
      BY <2>4 DEF ReadEnds, RemoveFirst, RemoveLast, At, RemovePlaces
    <3> QED BY <3>1
  <2>5. CASE NewId \/ UnlinkNext \/ UnlinkPrev
    <3>1. \E pc \in RemovePlaces : Top.pc \in RemovePlaces /\ Goto(pc)
      BY <2>5 DEF NewId, UnlinkNext, UnlinkPrev, At, RemovePlaces
    <3> QED BY <3>1
  <2> QED BY <2>1, <2>2, <2>3, <2>4, <2>5
<1>4. PICK pc, q, m : Goes(pc, q, m)
  BY <1>3
<1>5. PICK f : /\ Becomes(f) /\ f.kind = Top.kind /\ f.pid = Top.pid /\ f.job = Top.job
               /\ \/ Top.pc \in Adding /\ f.pc \in Adding \cup {"print"}
                  \/ Top.pc \in RemovePlaces /\ f.pc \in RemovePlaces
  <2>1. /\ Top \in Frames
        /\ Goto(pc) \/ GotoPtr(pc, q) \/ Becomes([Top EXCEPT !.pc = pc, !.mask = m])
    BY <1>2, <1>4
  <2>2. PICK f : /\ Becomes(f) /\ f.kind = Top.kind /\ f.pid = Top.pid /\ f.job = Top.job
                 /\ f.pc = pc
    BY <2>1, OnlyMoves
  <2>3. \/ Top.pc \in Adding /\ f.pc \in Adding \cup {"print"}
        \/ Top.pc \in RemovePlaces /\ f.pc \in RemovePlaces
    BY <1>4, <2>2
  <2> QED BY <2>2, <2>3
<1>6. \A j \in Jobs : /\ job'[j].pid = job[j].pid /\ job'[j].id = job[j].id
                      /\ job'[j].live = job[j].live
  <2>1. CASE UNCHANGED job
    BY <2>1
  <2>2. CASE AddNext \/ AddPrev \/ UnlinkNext \/ UnlinkPrev
    BY <2>2 DEF AddNext, AddPrev, UnlinkNext, UnlinkPrev, Inv, TypeOK, ListOK, JobNodes
  <2> QED BY <2>1, <2>2 DEF TestEnds, AddFirst, ReadLast, AddLast, BlockInRemove, ReadEnds,
                            RemoveFirst, RemoveLast, NewId, list
<1>7. Undisturbed
  BY <1>1, <1>6 DEF Undisturbed, GoneStays, procs, JobsStay
<1>8. /\ st' = st /\ current_pid' = current_pid /\ op' = op
      /\ f.pc \in RemovePlaces => job'[f.job].pid = job[f.job].pid
  <2>1. f.pc \in RemovePlaces => f.job \in Jobs
    <3>1. f.pc \in RemovePlaces => Top.pc \in NeedsJob
      BY <1>5 DEF Adding, RemovePlaces, NeedsJob
    <3> QED BY <1>5, <3>1, HeldJob
  <2> QED BY <1>1, <1>6, <2>1 DEF procs, CommandStays
<1>9. CASE Top.pc \in Adding /\ f.pc \in Adding \cup {"print"}
  <2>1. f.pc \notin ReapPlaces /\ f.pc \notin HasChild \cup OfCommand
    BY <1>9 DEF Adding, ReapPlaces, RemovePlaces, HasChild, OfCommand
  <2>2. FrameInv(f, st', job', current_pid', op')
    BY <1>2, <1>5, <1>8, <2>1 DEF FrameInv, Foreground, ReapPlaces, RemovePlaces, HasChild, OfCommand
  <2> QED BY <1>5, <1>7, <2>1, <2>2, TopMoves
<1>10. CASE Top.pc \in RemovePlaces /\ f.pc \in RemovePlaces
  <2>1. /\ f.pc \in HasChild /\ Top.pc \in HasChild
        /\ f.pc \in ReapPlaces /\ Top.pc \in ReapPlaces
        /\ f.pc \notin OfCommand /\ f.pc # "fgcont"
    BY <1>10 DEF ReapPlaces, RemovePlaces, HasChild, OfCommand
  <2>2. \A j \in Jobs : job'[j].pid = job[j].pid /\ job'[j].live = job[j].live
    BY <1>6
  <2>3. FrameInv(f, st', job', current_pid', op')
    BY <1>2, <1>5, <1>8, <1>10, <2>1, <2>2 DEF FrameInv, Foreground, RemovePlaces
  <2> QED BY <1>5, <1>7, <2>1, <2>3, TopMoves
<1> QED BY <1>5, <1>9, <1>10

LEMMA PrintJobReaps ==
    ASSUME Inv, ReapInv, PrintJob
    PROVE  ReapInv'
<1>1. UNCHANGED procs /\ job' = job /\ CommandStays
  BY DEF PrintJob, CommandStays, program, list
<1>2. Undisturbed /\ CommandKnown'
  BY <1>1
  DEF Undisturbed, GoneStays, procs, JobsStay, CommandKnown, ReapInv, CommandStays
<1>3. CASE Top.kind = "main"
  BY <1>2, <1>3, CommandDoneReaps DEF PrintJob, Undisturbed
<1>4. CASE Top.kind # "main"
  BY <1>2, <1>4, TopReturns DEF PrintJob
<1> QED BY <1>3, <1>4

\* The job that is freed is the one of the child that this frame has reaped,
\* and no other frame looks for a job of that child.
LEMMA FreeJobReaps ==
    ASSUME Inv, ReapInv, FreeJob
    PROVE  /\ ReapInv'
           /\ \A j \in Jobs : job[j].live /\ ~job'[j].live => st[job[j].pid] = "gone"
<1>1. Top.pc = "free" /\ UNCHANGED procs /\ CommandStays
  BY DEF FreeJob, At, CommandStays
<1>2. /\ Top \in Frames /\ FrameInv(Top, st, job, current_pid, op)
      /\ Top.kind \in {"main", "CHLD"}
  BY <1>1, TopKnows DEF FrameOK, Frames, TstpPlaces
<1>3. \A j \in Jobs : /\ job'[j].pid = job[j].pid /\ job'[j].id = job[j].id
                      /\ job'[j].live = (job[j].live /\ j # Top.job)
  BY DEF FreeJob, Gone, Inv, TypeOK, ListOK, JobNodes
<1>4. st[Top.pid] = "gone" /\ job[Top.job].pid = Top.pid
  BY <1>1, <1>2 DEF FrameInv, ReapPlaces, RemovePlaces
<1>5. JobsKnown'
  <2> SUFFICES ASSUME NEW j \in Jobs
               PROVE  /\ job'[j].id # 0 => job'[j].pid # 0
                      /\ ~job'[j].live /\ job'[j].pid # 0 => st'[job'[j].pid] = "gone"
    BY DEF JobsKnown
  <2>1. st' = st
    BY <1>1 DEF procs
  <2> QED BY ZenonT(40), <1>3, <1>4, <2>1 DEF ReapInv, JobsKnown
<1>6. ASSUME NEW i \in 1..Len(stack), i # Depth
      PROVE  FrameInv(stack[i], st', job', current_pid', op')
  <2>1. FrameInv(stack[i], st, job, current_pid, op) /\ stack[i] \in Frames /\ FrameOK(stack[i])
    BY DEF ReapInv, FramesKnow, Inv, TypeOK, StackOK
  <2>2. stack[i].pc \in ReapPlaces => stack[i].pid # Top.pid
    <3>1. Depth \in 1..Len(stack) /\ stack[Depth].pc \in ReapPlaces /\ stack[Depth].pid = Top.pid
      BY <1>1, TopFrame DEF Inv, TypeOK, Top, ReapPlaces, RemovePlaces
    <3> QED BY <1>6, <3>1 DEF ReapInv, OneReaper
  <2> DEFINE f == stack[i]
  <2>3. f.pc \in ReapPlaces /\ f.kind = "CHLD" => \A j \in Jobs : job'[j].pid = f.pid => job'[j].live
    BY <1>3, <1>4, <2>1, <2>2 DEF FrameInv
  <2>4. f.pc \in NeedsJob \/ (f.kind = "main" /\ Foreground(f, op)) => job'[f.job].pid = job[f.job].pid
    <3>1. f.kind = "main" => ServesCommand(f, op)
      BY DEF Inv, TypeOK, StackOK
    <3> QED BY <1>3, <2>1, <3>1
            DEF FrameOK, Frames, MaybeJob, Foreground, RemovePlaces, ServesCommand, NeedsJob
  <2>5. st' = st /\ current_pid' = current_pid /\ op' = op
    BY <1>1 DEF procs, CommandStays
  <2> HIDE DEF f
  <2> QED BY <2>1, <2>3, <2>4, <2>5 DEF FrameInv, f, OfCommand, NeedsJob, RemovePlaces
<1>7. ReapInv'
  <2>1. CASE GotoTop
    <3> DEFINE f == [Top EXCEPT !.pc = "top", !.job = Null, !.pid = 0, !.mask = {}]
    <3>1. Becomes(f) /\ f.pc = "top" /\ f.kind = Top.kind
      BY <1>2, <2>1 DEF GotoTop, Frames
    <3> HIDE DEF f
    <3>2. FrameInv(f, st', job', current_pid', op') /\ f.pc \notin ReapPlaces
      BY <1>2, <3>1 DEF FrameInv, HasChild, ReapPlaces, RemovePlaces, OfCommand, Foreground
    <3> QED BY <1>1, <1>5, <1>6, <3>1, <3>2, JobsChange
  <2>2. CASE GotoReap
    <3> DEFINE f == [Top EXCEPT !.pc = "reap", !.pid = 0, !.status = "none", !.mask = {}]
    <3>1. Becomes(f) /\ f.pc = "reap" /\ f.kind = Top.kind
      BY <1>2, <2>2 DEF GotoReap, Frames
    <3> HIDE DEF f
    <3>2. FrameInv(f, st', job', current_pid', op') /\ f.pc \notin ReapPlaces
      BY <1>2, <3>1 DEF FrameInv, HasChild, ReapPlaces, RemovePlaces, OfCommand, Foreground
    <3> QED BY <1>1, <1>5, <1>6, <3>1, <3>2, JobsChange
  <2> QED BY <2>1, <2>2 DEF FreeJob
<1> QED BY <1>3, <1>4, <1>7

\* The handlers start knowing nothing, except that of SIGTSTP its child.
LEMMA EnterReaps ==
    ASSUME Inv, ReapInv, EnterChld \/ EnterInt \/ EnterTstp
    PROVE  ReapInv'
<1>1. PICK sig \in {"CHLD", "INT", "TSTP"}, f \in
             {Frame("CHLD", "reap", first_job, 0), Frame("INT", "int", first_job, current_pid),
              Frame("TSTP", "tstp", first_job, current_pid)} :
         /\ Deliver(sig, f)
         /\ f.kind = "TSTP" => current_pid # 0 /\ f.pid = current_pid
         /\ f.kind # "main" /\ f.pc \in {"reap", "int", "tstp"}
  BY DEF EnterChld, EnterInt, EnterTstp, Frame
<1>2. /\ stack' = Append(stack, f) /\ UNCHANGED procs /\ UNCHANGED list /\ CommandStays
  BY <1>1 DEF Deliver, CommandStays, program
<1>3. Undisturbed
  BY <1>2, SameJobs DEF Undisturbed, GoneStays, procs
<1>4. FrameInv(f, st', job', current_pid', op') /\ f.pc \notin ReapPlaces
  BY <1>1, <1>2 DEF FrameInv, HasChild, ReapPlaces, RemovePlaces, OfCommand, Foreground, CommandStays
<1> QED BY <1>2, <1>3, <1>4, HandlerStarts

\* The handler of SIGCHLD takes a child that nobody has.
LEMMA ReapReaps ==
    ASSUME Inv, ReapInv, Reap
    PROVE  ReapInv'
<1>1. Top.pc = "reap" /\ UNCHANGED list /\ CommandStays
  BY DEF Reap, At, CommandStays, program
<1>2. Top \in Frames /\ Top.kind = "CHLD"
  BY <1>1, TopKnows DEF Frames, FrameOK, MainPlaces, TstpPlaces
<1>3. CASE Zombies = {}
  BY <1>1, <1>2, <1>3, SameJobs, TopReturns DEF Reap, Undisturbed, GoneStays, procs
<1>4. CASE Zombies # {}
  <2>1. PICK p \in Zombies :
           /\ Reaped(p)
           /\ Becomes([Top EXCEPT !.pc = "find", !.pid = p, !.status = how[p]])
    BY <1>4 DEF Reap
  <2> DEFINE f == [Top EXCEPT !.pc = "find", !.pid = p, !.status = how[p]]
  <2>2. p \in Procs /\ st[p] = "zombie" /\ p # 0
    BY ShellJobsAssumption DEF Zombies
  <2>3. Undisturbed /\ st'[p] = "gone"
    BY <1>1, <2>1, <2>2, SameJobs, ReapedLeavesGone DEF Undisturbed
  <2>4. f.pc = "find" /\ f.kind = "CHLD" /\ f.pid = p
    BY <1>2 DEF Frames
  <2>5. \A j \in Jobs : job[j].pid = p => job[j].live
    BY <2>2 DEF ReapInv, JobsKnown, Inv, TypeOK, ListOK, JobNodes
  <2>6. job' = job
    BY <1>1, SameJobs
  <2>7. Becomes(f)
    BY <2>1
  <2> HIDE DEF f
  <2>8. FrameInv(f, st', job', current_pid', op')
    BY <2>2, <2>3, <2>4, <2>5, <2>6
    DEF FrameInv, HasChild, ReapPlaces, RemovePlaces, OfCommand, Foreground
  <2>9. st[f.pid] # "gone"
    BY <2>2, <2>4
  <2> QED BY <2>3, <2>7, <2>8, <2>9, TopMoves
<1> QED BY <1>3, <1>4

LEMMA FindJobReaps ==
    ASSUME Inv, ReapInv, FindJob
    PROVE  ReapInv'
<1>1. Top.pc = "find" /\ UNCHANGED procs /\ UNCHANGED list /\ CommandStays
  BY DEF FindJob, At, CommandStays, program
<1>2. /\ Top \in Frames /\ Top.kind = "CHLD" /\ FrameInv(Top, st, job, current_pid, op)
  BY <1>1, TopKnows DEF Frames, FrameOK, MainPlaces, TstpPlaces
<1>3. Undisturbed /\ job' = job /\ st' = st
  BY <1>1, SameJobs DEF Undisturbed, GoneStays, procs
<1>4. CASE GotoReap
  <2> DEFINE f == [Top EXCEPT !.pc = "reap", !.pid = 0, !.status = "none", !.mask = {}]
  <2>1. Becomes(f) /\ f.pc = "reap" /\ f.kind = "CHLD"
    BY <1>2, <1>4 DEF GotoReap, Frames
  <2> HIDE DEF f
  <2>2. FrameInv(f, st', job', current_pid', op') /\ f.pc \notin ReapPlaces
    BY <2>1 DEF FrameInv, HasChild, ReapPlaces, RemovePlaces, OfCommand, Foreground
  <2> QED BY <1>3, <2>1, <2>2, TopMoves
<1>5. CASE GotoJob("find", job[Top.job].next)
  <2> DEFINE f == [Top EXCEPT !.pc = "find", !.job = job[Top.job].next]
  <2>1. Becomes(f) /\ f.pc = "find" /\ f.kind = "CHLD" /\ f.pid = Top.pid
    BY <1>2, <1>5 DEF GotoJob, Frames
  <2> HIDE DEF f
  <2>2. FrameInv(f, st', job', current_pid', op') /\ Top.pc \in ReapPlaces
    BY <1>1, <1>2, <1>3, <2>1 DEF FrameInv, HasChild, ReapPlaces, RemovePlaces, OfCommand, Foreground
  <2> QED BY <1>3, <2>1, <2>2, TopMoves
<1>6. CASE job[Top.job].pid = Top.pid /\ Goto("remove")
  <2> DEFINE f == [Top EXCEPT !.pc = "remove"]
  <2>1. /\ Becomes(f) /\ f.pc = "remove" /\ f.kind = "CHLD" /\ f.pid = Top.pid
        /\ f.job = Top.job
    BY <1>2, <1>6 DEF Goto, Frames
  <2> HIDE DEF f
  <2>2. FrameInv(f, st', job', current_pid', op') /\ Top.pc \in ReapPlaces
    BY <1>1, <1>2, <1>3, <1>6, <2>1
    DEF FrameInv, HasChild, ReapPlaces, RemovePlaces, OfCommand, Foreground
  <2> QED BY <1>3, <2>1, <2>2, TopMoves
<1> QED BY <1>4, <1>5, <1>6 DEF FindJob

LEMMA TerminateCurrentReaps ==
    ASSUME Inv, ReapInv, terminate_current_process_handler
    PROVE  ReapInv'
<1>1. Top.pc = "int" /\ UNCHANGED list /\ CommandStays
  BY DEF terminate_current_process_handler, At, CommandStays, program
<1>2. Top \in Frames /\ Top.kind = "INT"
  BY <1>1, TopKnows DEF Frames, FrameOK, MainPlaces, ChldPlaces, TstpPlaces
<1>3. GoneStays
  BY KillLeavesGone DEF terminate_current_process_handler
<1>4. Undisturbed
  BY <1>1, <1>3, SameJobs DEF Undisturbed
<1>5. CASE Return
  BY <1>2, <1>4, <1>5, TopReturns
<1>6. CASE GotoJob("int", job[Top.job].next)
  <2> DEFINE f == [Top EXCEPT !.pc = "int", !.job = job[Top.job].next]
  <2>1. Becomes(f) /\ f.pc = "int" /\ f.kind = "INT"
    BY <1>2, <1>6 DEF GotoJob, Frames
  <2> HIDE DEF f
  <2>2. FrameInv(f, st', job', current_pid', op') /\ f.pc \notin ReapPlaces
    BY <2>1 DEF FrameInv, HasChild, ReapPlaces, RemovePlaces, OfCommand, Foreground
  <2> QED BY <1>4, <2>1, <2>2, TopMoves
<1> QED BY <1>5, <1>6 DEF terminate_current_process_handler

LEMMA SuspendReaps ==
    ASSUME Inv, ReapInv, suspend_process_handler
    PROVE  ReapInv'
<1>1. Top.pc = "tstp" /\ UNCHANGED list /\ CommandStays
  BY DEF suspend_process_handler, At, CommandStays, program
<1>2. /\ Top \in Frames /\ Top.kind = "TSTP" /\ Top.pid = current_pid /\ current_pid # 0
  BY <1>1, TopKnows DEF Frames, FrameOK, MainPlaces, ChldPlaces, FrameInv
<1>3. GoneStays
  BY KillLeavesGone DEF suspend_process_handler
<1>4. Undisturbed
  BY <1>1, <1>3, SameJobs DEF Undisturbed
<1>5. CASE Return
  BY <1>2, <1>4, <1>5, TopReturns
<1>6. CASE Becomes([Top EXCEPT !.pc = "create", !.pid = current_pid])
  <2> DEFINE f == [Top EXCEPT !.pc = "create", !.pid = current_pid]
  <2>1. Becomes(f) /\ f.pc = "create" /\ f.kind = "TSTP" /\ f.pid = current_pid
    BY <1>2, <1>6 DEF Frames
  <2> HIDE DEF f
  <2>2. FrameInv(f, st', job', current_pid', op') /\ f.pc \notin ReapPlaces
    BY <1>1, <1>2, <2>1
    DEF FrameInv, HasChild, ReapPlaces, RemovePlaces, OfCommand, Foreground, CommandStays
  <2> QED BY <1>4, <2>1, <2>2, TopMoves
<1>7. CASE GotoJob("tstp", job[Top.job].next)
  <2> DEFINE f == [Top EXCEPT !.pc = "tstp", !.job = job[Top.job].next]
  <2>1. Becomes(f) /\ f.pc = "tstp" /\ f.kind = "TSTP" /\ f.pid = Top.pid
    BY <1>2, <1>7 DEF GotoJob, Frames
  <2> HIDE DEF f
  <2>2. FrameInv(f, st', job', current_pid', op') /\ f.pc \notin ReapPlaces
    BY <1>1, <1>2, <2>1
    DEF FrameInv, HasChild, ReapPlaces, RemovePlaces, OfCommand, Foreground, CommandStays
  <2> QED BY <1>4, <2>1, <2>2, TopMoves
<1> QED BY <1>5, <1>6, <1>7 DEF suspend_process_handler

\* The steps that move no frame: a child's, the keyboard's, a signal that
\* finds no child, and the ends of the shell.
LEMMA OutsideReaps ==
    ASSUME Inv, ReapInv,
           \/ \E p \in Procs : Exit(p)
           \/ CtrlC \/ CtrlZ \/ NoCurrent("INT") \/ NoCurrent("TSTP") \/ IntKillsShell
           \/ UseAfterFree \/ HeapBroken \/ UNCHANGED vars
    PROVE  ReapInv'
<1>1. stack' = stack /\ UNCHANGED list /\ CommandStays
  BY DEF Exit, CtrlC, CtrlZ, NoCurrent, IntKillsShell, UseAfterFree, HeapBroken, vars, program,
         CommandStays
<1>2. GoneStays
  <2> USE DEF GoneStays, Inv, TypeOK, ChildrenOK
  <2>1. CASE \E p \in Procs : Exit(p)
    BY <2>1 DEF Exit, Dies
  <2>2. CASE CtrlC
    BY <2>2 DEF CtrlC, Group
  <2>3. CASE CtrlZ
    BY <2>3 DEF CtrlZ, Group
  <2>4. CASE \/ NoCurrent("INT") \/ NoCurrent("TSTP") \/ IntKillsShell
             \/ UseAfterFree \/ HeapBroken \/ UNCHANGED vars
    BY <2>4 DEF NoCurrent, IntKillsShell, UseAfterFree, HeapBroken, vars, procs
  <2> QED BY <2>1, <2>2, <2>3, <2>4
<1> QED BY <1>1, <1>2, SameJobs, StackStays DEF Undisturbed
-----------------------------------------------------------------------------
LEMMA InitEstablishesReapInv == Init => ReapInv
<1> SUFFICES ASSUME Init PROVE ReapInv
  OBVIOUS
<1>1. FramesKnow /\ OneReaper
  <2> DEFINE f == [kind |-> "main", pc |-> "prompt", job |-> Null, pid |-> 0,
                   status |-> "none", saved |-> {}, ptr |-> Null, mask |-> {}]
  <2>1. Len(stack) = 1 /\ stack[1] = f
    BY DEF Init
  <2>2. FrameInv(f, st, job, current_pid, op)
    BY NothingToKnow
  <2> HIDE DEF f
  <2> QED BY <2>1, <2>2 DEF FramesKnow, OneReaper
<1>2. JobsKnown /\ CommandKnown
  BY DEF Init, JobsKnown, CommandKnown
<1> QED BY <1>1, <1>2 DEF ReapInv

LEMMA NextKeepsReapInv ==
    ASSUME Inv, ReapInv, [Next]_vars
    PROVE  /\ ReapInv'
           /\ \A j \in Jobs : job[j].live /\ ~job'[j].live => st[job[j].pid] = "gone"
<1>1. ReapInv'
  <2>1. CASE \E c \in Commands, n \in 0..Cardinality(Procs) : ReadCommand(c, n)
    BY <2>1, ReadCommandReaps
  <2>2. CASE LoopTop \/ Fork \/ EnterWait \/ StageReturns \/ StoreCurrent \/ WaitReturns
    BY <2>2, LoopTopReaps, ForkReaps, EnterWaitReaps, StageReturnsReaps, StoreCurrentReaps,
       WaitReturnsReaps
  <2>3. CASE create_bg_process
    BY <2>3, CreateJobReaps, LinkReaps, PrintJobReaps DEF create_bg_process
  <2>4. CASE process_background_command
    BY <2>4, SearchReaps, WalkReaps, KillJobReaps, ContinueJobReaps, FgReaps, FgContinueReaps
    DEF process_background_command
  <2>5. CASE remove_job_node
    BY <2>5, LinkReaps, FreeJobReaps DEF remove_job_node
  <2>6. CASE terminate_process_handler
    BY <2>6, ReapReaps, FindJobReaps DEF terminate_process_handler
  <2>7. CASE \/ terminate_current_process_handler \/ suspend_process_handler
             \/ UseAfterFree \/ HeapBroken
    BY <2>7, TerminateCurrentReaps, SuspendReaps, OutsideReaps
  <2>8. CASE Handle
    BY <2>8, EnterReaps, OutsideReaps DEF Handle
  <2>9. CASE \/ \E p \in Procs : Exit(p)
             \/ CtrlC \/ CtrlZ \/ UNCHANGED vars
    BY <2>9, OutsideReaps
  <2>10. CASE Step
    BY <2>2, <2>3, <2>4, <2>5, <2>6, <2>7, <2>10 DEF Step
  <2> QED BY <2>1, <2>8, <2>9, <2>10 DEF Next, Over, Hang
<1>2. FreeJob \/ (\A j \in Jobs : job[j].live => job'[j].live)
  <2>1. CASE UNCHANGED list \/ UNCHANGED job
    BY <2>1 DEF list
  <2>2. CASE CreateJob \/ AddNext \/ AddPrev \/ UnlinkNext \/ UnlinkPrev
    BY <2>2 DEF CreateJob, AddNext, AddPrev, UnlinkNext, UnlinkPrev, Inv, TypeOK, ListOK, JobNodes
  <2>3. \/ FreeJob \/ CreateJob \/ AddNext \/ AddPrev \/ UnlinkNext \/ UnlinkPrev
        \/ UNCHANGED list \/ UNCHANGED job
    BY DEF Next, vars, Step, Handle, Over, Hang, create_bg_process, process_background_command,
           remove_job_node, terminate_process_handler, terminate_current_process_handler,
           suspend_process_handler, UseAfterFree, HeapBroken, EnterChld, EnterInt, EnterTstp,
           Deliver, NoCurrent, IntKillsShell, Exit, CtrlC, CtrlZ, ReadCommand, LoopTop, Fork,
           EnterWait, StageReturns, StoreCurrent, WaitReturns, TestEnds, AddFirst, ReadLast,
           AddLast, PrintJob, BlockInRemove, ReadEnds, RemoveFirst, RemoveLast, NewId, Search,
           Walk, KillJob, ContinueJob, FgDefault, FgCurrent, FgContinue, Reap, FindJob
  <2> QED BY <2>1, <2>2, <2>3
<1> QED BY <1>1, <1>2, FreeJobReaps

\* fg and the handler of SIGCHLD never remove a job whose child is alive, is
\* stopped or is still to be reaped (myshell.c, remove_job_node's two callers),
\* although the handler interrupts fg and itself, two jobs may have the same
\* child, and malloc may give the job that fg has to the handler of SIGTSTP.
THEOREM RemovesWhatIsReaped == Spec => RemovedOnlyWhenReaped
<1>1. Init => ReapInv
  BY InitEstablishesReapInv
<1>2. Inv /\ ReapInv /\ [Next]_vars => ReapInv'
  BY NextKeepsReapInv
<1>3. Inv /\ ReapInv /\ [Next]_vars =>
        [\A j \in Jobs : job[j].live /\ ~job'[j].live => st[job[j].pid] = "gone"]_vars
  BY NextKeepsReapInv
<1> QED BY <1>1, <1>2, <1>3, Invariance, PTL DEF Spec, RemovedOnlyWhenReaped
=============================================================================
