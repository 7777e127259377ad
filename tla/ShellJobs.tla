------------------------------ MODULE ShellJobs ------------------------------
(***************************************************************************)
(* Job control of the shell of phase 3: the main loop, the handlers of     *)
(* SIGCHLD, SIGINT and SIGTSTP that interrupt it and each other, the       *)
(* linked list of jobs they share, and the children.                       *)
(* A stack of frames stands for the program: its bottom is main, and only  *)
(* the top runs.  A job that has been freed keeps its contents until       *)
(* malloc returns it again, and whoever reads it may find them or end in   *)
(* undefined behaviour.  The SIGCHLD of a child that stops or continues    *)
(* finds nothing to reap and is left out.                                  *)
(***************************************************************************)
EXTENDS Integers, Sequences, FiniteSets

CONSTANTS Procs,      \* children: 1..n, forked in this order
          Jobs,       \* nodes malloc may return: 1..n
          Commands,   \* what the user types: "run", "bg", "pipe", "jobs",
                      \* "fg", "bgjob" (the built-in bg) and "kill"
          StackMasks, \* what remove_job_node's mask may hold uninitialised
          MaxKeys     \* bound: Ctrl-C and Ctrl-Z pressed

Signals == {"CHLD", "INT", "TSTP"}

ASSUME ShellJobsAssumption ==
    /\ Procs \subseteq Nat \ {0} /\ IsFiniteSet(Procs)
    /\ Jobs \subseteq Nat \ {0} /\ IsFiniteSet(Jobs)
    /\ Commands \subseteq {"run", "bg", "pipe", "jobs", "fg", "bgjob", "kill"}
    /\ StackMasks \subseteq SUBSET Signals
    /\ MaxKeys \in Nat
    /\ Cardinality(Jobs) >= Cardinality(Procs) + MaxKeys \* malloc never fails

Null == 0

VARIABLES
    \* the children
    st,          \* "new", "run", "stop", "halted" (a stop that waitpid has
                 \* reported), "zombie" or "gone" (reaped)
    how,         \* how it ended: "exit" (of itself, or by SIGKILL: the handler
                 \* removes the job in both cases) or "sig"; "sig" while it
                 \* is stopped is a SIGINT it has still to take
    inGroup,     \* it is in the shell's process group
    \* the job list
    job, first_job, last_job, curruent_job_id,
    reused,      \* history: malloc was called while a frame held a freed job
    tangled,     \* history: create_bg_process was called inside itself
    current_pid,
    \* the program
    stack, blocked, pending,
    op, arg,     \* the command and its job number
    sigint_dfl,  \* SIGINT has its default action
    over,        \* "no"; "killed", "undefined", "heap" (malloc or free called
                 \* inside malloc or free), or "torn": create_bg_process goes
                 \* on with a job that has been freed under it
    keys

procs == <<st, how, inGroup>>
list == <<job, first_job, last_job, curruent_job_id, reused, tangled>>
program == <<op, arg, sigint_dfl, over>>
vars == <<procs, list, current_pid, stack, blocked, pending, program, keys>>

Frame(kind, pc, j, p) ==
    [kind |-> kind, pc |-> pc, job |-> j, pid |-> p, status |-> "none", saved |-> blocked,
     ptr |-> Null, mask |-> {}]

Init ==
    /\ st = [p \in Procs |-> "new"]
    /\ how = [p \in Procs |-> "none"]
    /\ inGroup = [p \in Procs |-> TRUE]
    /\ job = [j \in Jobs |-> [live |-> FALSE, pid |-> 0, id |-> 0, next |-> Null, prev |-> Null]]
    /\ first_job = Null /\ last_job = Null /\ curruent_job_id = 1
    /\ reused = FALSE /\ tangled = FALSE
    /\ current_pid = 0
    /\ blocked = {"INT", "TSTP"} /\ pending = {}
    /\ stack = <<[kind |-> "main", pc |-> "prompt", job |-> Null, pid |-> 0, status |-> "none",
                 saved |-> {}, ptr |-> Null, mask |-> {}]>>
    /\ op = "none" /\ arg = 0 /\ sigint_dfl = FALSE /\ over = "no"
    /\ keys = 0
-----------------------------------------------------------------------------
(* The top frame                                                           *)

Depth == Len(stack)
Top == stack[Depth]
At(pc) == over = "no" /\ Top.pc = pc
Main == stack[1]
Becomes(frame) == stack' = [stack EXCEPT ![Depth] = frame]
Goto(pc) == Becomes([Top EXCEPT !.pc = pc])
GotoJob(pc, j) == Becomes([Top EXCEPT !.pc = pc, !.job = j])
\* The command is done, and the handler returns.
GotoTop == Becomes([Top EXCEPT !.pc = "top", !.job = Null, !.pid = 0, !.mask = {}])
GotoReap == Becomes([Top EXCEPT !.pc = "reap", !.pid = 0, !.status = "none", !.mask = {}])
\* An access of shared memory through a pointer that was read a step before.
GotoPtr(pc, j) == Becomes([Top EXCEPT !.pc = pc, !.ptr = j])
Return == stack' = SubSeq(stack, 1, Depth - 1) /\ blocked' = Top.saved

\* kill(): signals to a process that has been reaped find nobody.
Dies(p, cause) == /\ st' = [st EXCEPT ![p] = "zombie"]
                  /\ how' = [how EXCEPT ![p] = cause]
                  /\ pending' = pending \cup {"CHLD"}
Stopped(p) == st[p] \in {"stop", "halted"}
Reaped(p) == /\ st' = [st EXCEPT ![p] = "gone"]
             /\ how' = [how EXCEPT ![p] = "none"]
             /\ inGroup' = [inGroup EXCEPT ![p] = FALSE]
Sigkill(p) == IF st[p] = "run" \/ Stopped(p) THEN Dies(p, "exit")
              ELSE UNCHANGED <<st, how, pending>>
Sigstop(p) == /\ st' = IF st[p] = "run" THEN [st EXCEPT ![p] = "stop"] ELSE st
              /\ UNCHANGED <<how, pending>>
Sigcont(p) == IF Stopped(p) /\ how[p] = "sig" THEN Dies(p, "sig")
              ELSE /\ st' = IF Stopped(p) THEN [st EXCEPT ![p] = "run"] ELSE st
                   /\ UNCHANGED <<how, pending>>
-----------------------------------------------------------------------------
(* The children and the keyboard                                           *)

Exit(p) ==
    /\ over = "no" /\ st[p] = "run"
    /\ Dies(p, "exit")
    /\ UNCHANGED <<inGroup, list, current_pid, stack, blocked, program, keys>>

Group(state) == {p \in Procs : inGroup[p] /\ st[p] \in state}

\* The terminal signals the shell and every child in its process group.
CtrlC ==
    /\ over = "no" /\ keys < MaxKeys
    /\ keys' = keys + 1
    /\ st' = [p \in Procs |-> IF p \in Group({"run"}) THEN "zombie" ELSE st[p]]
    /\ how' = [p \in Procs |-> IF p \in Group({"run", "stop", "halted"}) THEN "sig" ELSE how[p]]
    /\ pending' = pending \cup {"INT"} \cup (IF Group({"run"}) # {} THEN {"CHLD"} ELSE {})
    /\ UNCHANGED <<inGroup, list, current_pid, stack, blocked, program>>

CtrlZ ==
    /\ over = "no" /\ keys < MaxKeys
    /\ keys' = keys + 1
    /\ st' = [p \in Procs |-> IF p \in Group({"run"}) THEN "stop" ELSE st[p]]
    /\ pending' = pending \cup {"TSTP"}
    /\ UNCHANGED <<how, inGroup, list, current_pid, stack, blocked, program>>
-----------------------------------------------------------------------------
(* main() and execute_command                                              *)

\* The mask of the prompt is lifted when a command has been read.
ReadCommand(c, n) ==
    /\ At("prompt")
    /\ n = 0 <=> c \notin {"fg", "bgjob", "kill"}
    /\ c \in {"run", "bg"} => \E p \in Procs : st[p] = "new"
    /\ c = "pipe" => Cardinality({p \in Procs : st[p] = "new"}) > 1
    /\ op' = c /\ arg' = n
    /\ blocked' = blocked \ {"INT", "TSTP"}
    /\ Goto(IF c \in {"run", "bg", "pipe"} THEN "fork" ELSE "search")
    /\ UNCHANGED <<procs, list, current_pid, pending, sigint_dfl, over, keys>>

LoopTop ==
    /\ At("top")
    /\ blocked' = blocked \cup {"INT", "TSTP"}
    /\ op' = "none" /\ arg' = 0
    /\ Goto("prompt")
    /\ UNCHANGED <<procs, list, current_pid, pending, sigint_dfl, over, keys>>

IsNext(p) == st[p] = "new" /\ \A q \in Procs : q < p => st[q] # "new"

Fork ==
    /\ At("fork")
    /\ \E p \in Procs :
          /\ IsNext(p)
          /\ st' = [st EXCEPT ![p] = "run"]
          /\ Becomes([Top EXCEPT !.pc = IF op = "pipe" THEN "tostage" ELSE "forked", !.pid = p])
    /\ UNCHANGED <<how, inGroup, list, current_pid, blocked, pending, program, keys>>

\* In front of waitpid a signal may still come; inside the call the end of
\* the child comes first.
EnterWait ==
    /\ At("tostage") \/ At("towait")
    /\ Goto(IF Top.pc = "tostage" THEN "instage" ELSE "inwait")
    /\ UNCHANGED <<procs, list, current_pid, blocked, pending, program, keys>>

\* create_sub_process waits without WUNTRACED; then the last stage is forked.
StageReturns ==
    /\ At("instage") /\ st[Top.pid] \in {"zombie", "gone"}
    /\ Reaped(Top.pid)
    /\ op' = "run"
    /\ Goto("fork")
    /\ UNCHANGED <<list, current_pid, blocked, pending, arg, sigint_dfl, over, keys>>

StoreCurrent ==
    /\ At("forked")
    /\ current_pid' = Top.pid
    /\ Goto(IF op = "bg" THEN "create" ELSE "towait")
    /\ UNCHANGED <<procs, list, blocked, pending, program, keys>>

\* Mutant: waitpid without WUNTRACED.
WaitableAtEnd(p) == st[p] \in {"zombie", "gone"}

Waitable(p) == st[p] \in {"zombie", "stop", "gone"}

\* Mutant: fg removes the job without asking whether it has only stopped.
WaitReturnsUntested ==
    /\ At("inwait") /\ Waitable(Top.pid)
    /\ IF st[Top.pid] = "stop"
       THEN st' = [st EXCEPT ![Top.pid] = "halted"] /\ UNCHANGED <<how, inGroup>>
       ELSE Reaped(Top.pid)
    /\ IF op = "run" THEN GotoTop ELSE Goto("remove")
    /\ UNCHANGED <<list, current_pid, blocked, pending, program, keys>>

\* waitpid(pid, &status, WUNTRACED).  When a handler has reaped the child the
\* call fails, and status is whatever was on the stack.
WaitReturns ==
    /\ At("inwait") /\ Waitable(Top.pid)
    /\ IF st[Top.pid] = "stop"
       THEN st' = [st EXCEPT ![Top.pid] = "halted"] /\ UNCHANGED <<how, inGroup>>
       ELSE Reaped(Top.pid)
    /\ \E stopped \in BOOLEAN :
          /\ st[Top.pid] = "stop" => stopped
          /\ st[Top.pid] = "zombie" => ~stopped
          /\ IF op = "run" THEN GotoTop ELSE Goto(IF stopped THEN "print" ELSE "remove")
    /\ UNCHANGED <<list, current_pid, blocked, pending, program, keys>>
-----------------------------------------------------------------------------
(* create_bg_process, by main or by the handler of SIGTSTP                 *)

\* malloc returns the lowest node that is free.
IsNew(j) == ~job[j].live /\ \A k \in Jobs : k < j => job[k].live

Dangling(j) == j # Null /\ ~job[j].live

\* Places of create_bg_process, from malloc on.
Adding == {"addfirst", "setfirst", "addlink", "readnext", "addnext", "readlast", "addprev",
           "addlast"}

\* setpgid succeeds only before the child's exec.
CreateJob ==
    /\ At("create")
    /\ \E j \in Jobs :
          /\ IsNew(j)
          /\ job' = [job EXCEPT ![j] = [live |-> TRUE, pid |-> Top.pid, id |-> curruent_job_id,
                                        next |-> Null, prev |-> Null]]
          /\ GotoJob("addfirst", j)
    /\ curruent_job_id' = curruent_job_id + 1
    /\ reused' = (reused \/ \E i \in 1..Depth : Dangling(stack[i].job))
    /\ tangled' = (tangled \/ \E i \in 1..Depth : stack[i].pc \in Adding)
    /\ \E soon \in BOOLEAN :
          inGroup' = IF Top.kind = "main" /\ soon /\ st[Top.pid] # "gone"
                     THEN [inGroup EXCEPT ![Top.pid] = FALSE] ELSE inGroup
    /\ UNCHANGED <<st, how, first_job, last_job, current_pid, blocked, pending, program, keys>>

\* A handler may come between a test and what depends on it, and between
\* reading a shared pointer and writing it or through it.
TestEnds ==
    /\ \/ At("addfirst") /\ Goto(IF first_job = Null THEN "setfirst" ELSE "addlink")
       \/ At("addlink") /\ Goto(IF last_job = Null THEN "addlast" ELSE "readnext")
    /\ UNCHANGED <<procs, list, current_pid, blocked, pending, program, keys>>

AddFirst ==
    /\ At("setfirst")
    /\ first_job' = Top.job
    /\ Goto("addlink")
    /\ UNCHANGED <<procs, job, last_job, curruent_job_id, reused, tangled, current_pid, blocked,
                   pending, program, keys>>

\* For last_job->next, and again for new_job->prev.
ReadLast ==
    /\ \/ At("readnext") /\ GotoPtr("addnext", last_job)
       \/ At("readlast") /\ GotoPtr("addprev", last_job)
    /\ UNCHANGED <<procs, list, current_pid, blocked, pending, program, keys>>

AddNext ==
    /\ At("addnext") /\ Top.ptr # Null
    /\ job' = [job EXCEPT ![Top.ptr].next = Top.job]
    /\ GotoPtr("readlast", Null)
    /\ UNCHANGED <<procs, first_job, last_job, curruent_job_id, reused, tangled, current_pid,
                   blocked, pending, program, keys>>

AddPrev ==
    /\ At("addprev")
    /\ job' = [job EXCEPT ![Top.job].prev = Top.ptr]
    /\ GotoPtr("addlast", Null)
    /\ UNCHANGED <<procs, first_job, last_job, curruent_job_id, reused, tangled, current_pid,
                   blocked, pending, program, keys>>

AddLast ==
    /\ At("addlast")
    /\ last_job' = Top.job
    /\ Goto("print")
    /\ UNCHANGED <<procs, job, first_job, curruent_job_id, reused, tangled, current_pid, blocked,
                   pending, program, keys>>

\* print_bg_process_state, also for fg, and print_bg_process_create.
PrintJob ==
    /\ At("print")
    /\ IF Top.kind = "main" THEN GotoTop /\ UNCHANGED blocked ELSE Return
    /\ UNCHANGED <<procs, list, current_pid, pending, program, keys>>

create_bg_process == \/ CreateJob \/ TestEnds \/ AddFirst \/ ReadLast
                     \/ AddNext \/ AddPrev \/ AddLast \/ PrintJob
-----------------------------------------------------------------------------
(* process_background_command                                              *)

Search ==
    /\ At("search")
    /\ GotoJob("walk", first_job)
    /\ UNCHANGED <<procs, list, current_pid, blocked, pending, program, keys>>

Walk ==
    /\ At("walk")
    /\ IF Top.job = Null THEN GotoTop
       ELSE IF op # "jobs" /\ job[Top.job].id = arg THEN Goto(op)
       ELSE GotoJob("walk", job[Top.job].next)
    /\ UNCHANGED <<procs, list, current_pid, blocked, pending, program, keys>>

KillJob ==
    /\ At("kill")
    /\ Sigkill(job[Top.job].pid)
    /\ GotoTop
    /\ UNCHANGED <<inGroup, list, current_pid, blocked, program, keys>>

ContinueJob ==
    /\ At("bgjob")
    /\ current_pid' = job[Top.job].pid
    /\ Sigcont(job[Top.job].pid)
    /\ GotoTop
    /\ UNCHANGED <<inGroup, list, blocked, program, keys>>

\* fg gives SIGINT its default action for a moment.
FgDefault ==
    /\ At("fg")
    /\ sigint_dfl' = TRUE
    /\ Goto("fgcurrent")
    /\ UNCHANGED <<procs, list, current_pid, blocked, pending, op, arg, over, keys>>

FgCurrent ==
    /\ At("fgcurrent")
    /\ sigint_dfl' = FALSE
    /\ current_pid' = job[Top.job].pid
    /\ Goto("fgcont")
    /\ UNCHANGED <<procs, list, blocked, pending, op, arg, over, keys>>

FgContinue ==
    /\ At("fgcont")
    /\ Sigcont(job[Top.job].pid)
    /\ Becomes([Top EXCEPT !.pc = "towait", !.pid = job[Top.job].pid])
    /\ UNCHANGED <<inGroup, list, current_pid, blocked, program, keys>>

process_background_command == \/ Search \/ Walk \/ KillJob \/ ContinueJob
                              \/ FgDefault \/ FgCurrent \/ FgContinue
-----------------------------------------------------------------------------
(* remove_job_node, by main or by the handler of SIGCHLD                   *)

Gone == Top.job

\* mask is not initialised before SIGCHLD is added to it: it holds what the
\* stack held.  To free a job twice ends the program (UseAfterFree).
BlockInRemove ==
    /\ At("remove") /\ ~Dangling(Gone)
    /\ \E held \in StackMasks :
          LET mask == held \cup {"CHLD"}
          IN  /\ blocked' = blocked \cup mask
              /\ Becomes([Top EXCEPT !.pc = "rmfirst", !.mask = mask])
    /\ UNCHANGED <<procs, list, current_pid, pending, program, keys>>

\* The handler of SIGTSTP may add a job before the store.
ReadEnds ==
    /\ \/ At("rmfirst") /\ IF Gone = first_job THEN GotoPtr("setnext", job[Gone].next)
                            ELSE Goto("rmlast")
       \/ At("rmlast") /\ IF Gone = last_job THEN GotoPtr("setprev", job[Gone].prev)
                           ELSE Goto("unlinknext")
    /\ UNCHANGED <<procs, list, current_pid, blocked, pending, program, keys>>

RemoveFirst ==
    /\ At("setnext")
    /\ first_job' = Top.ptr
    /\ GotoPtr("rmlast", Null)
    /\ UNCHANGED <<procs, job, last_job, curruent_job_id, reused, tangled, current_pid, blocked,
                   pending, program, keys>>

\* Mutant: last_job is moved only when the list becomes empty.
RemoveOnlyJob ==
    /\ At("setprev")
    /\ last_job' = IF Top.ptr = Null THEN Null ELSE last_job
    /\ GotoPtr("newid", Null)
    /\ UNCHANGED <<procs, job, first_job, curruent_job_id, reused, tangled, current_pid, blocked,
                   pending, program, keys>>

RemoveLast ==
    /\ At("setprev")
    /\ last_job' = Top.ptr
    /\ GotoPtr("newid", Null)
    /\ UNCHANGED <<procs, job, first_job, curruent_job_id, reused, tangled, current_pid, blocked,
                   pending, program, keys>>

NewId ==
    /\ At("newid")
    /\ curruent_job_id' = IF last_job = Null THEN 1 ELSE job[last_job].id + 1
    /\ Goto("unlinknext")
    /\ UNCHANGED <<procs, job, first_job, last_job, reused, tangled, current_pid, blocked,
                   pending, program, keys>>

UnlinkNext ==
    /\ At("unlinknext")
    /\ job' = [j \in Jobs |-> IF j = job[Gone].next THEN [job[j] EXCEPT !.prev = job[Gone].prev]
                              ELSE job[j]]
    /\ Goto("unlinkprev")
    /\ UNCHANGED <<procs, first_job, last_job, curruent_job_id, reused, tangled, current_pid,
                   blocked, pending, program, keys>>

UnlinkPrev ==
    /\ At("unlinkprev")
    /\ job' = [j \in Jobs |-> IF j = job[Gone].prev THEN [job[j] EXCEPT !.next = job[Gone].next]
                              ELSE job[j]]
    /\ Goto("free")
    /\ UNCHANGED <<procs, first_job, last_job, curruent_job_id, reused, tangled, current_pid,
                   blocked, pending, program, keys>>

\* create_bg_process has been interrupted while it adds this job, or has just
\* read last_job, which was this job.
BeingAdded(j) == \E i \in 1..Depth : stack[i].pc \in Adding /\ j \in {stack[i].job, stack[i].ptr}

\* The signals of mask are unblocked, SIGCHLD also when its handler is the
\* caller.
FreeJob ==
    /\ At("free")
    /\ job' = [job EXCEPT ![Gone].live = FALSE]
    /\ blocked' = blocked \ Top.mask
    /\ over' = IF BeingAdded(Gone) THEN "torn" ELSE over
    /\ IF Top.kind = "main" THEN GotoTop ELSE GotoReap
    /\ UNCHANGED <<procs, first_job, last_job, curruent_job_id, reused, tangled, current_pid,
                   pending, op, arg, sigint_dfl, keys>>

remove_job_node == \/ BlockInRemove \/ ReadEnds \/ RemoveFirst \/ RemoveLast \/ NewId
                   \/ UnlinkNext \/ UnlinkPrev \/ FreeJob
-----------------------------------------------------------------------------
(* The handlers                                                            *)

\* The kernel starts a handler on top of whatever runs; inside waitpid a
\* child that can be reported comes first.
Interruptible == ~(At("inwait") /\ Waitable(Top.pid))
                 /\ ~(At("instage") /\ st[Top.pid] \in {"zombie", "gone"})
Deliver(sig, frame) ==
    /\ over = "no" /\ sig \in pending \ blocked /\ Interruptible
    /\ pending' = pending \ {sig}
    /\ blocked' = blocked \cup {sig}
    /\ stack' = Append(stack, frame)
    /\ UNCHANGED <<procs, list, current_pid, program, keys>>

EnterChld == Deliver("CHLD", Frame("CHLD", "reap", first_job, 0))
EnterInt == ~sigint_dfl /\ current_pid # 0
            /\ Deliver("INT", Frame("INT", "int", first_job, current_pid))
EnterTstp == current_pid # 0 /\ Deliver("TSTP", Frame("TSTP", "tstp", first_job, current_pid))

\* Without a child the handlers return at once.
NoCurrent(sig) ==
    /\ over = "no" /\ sig \in pending \ blocked /\ Interruptible
    /\ current_pid = 0 /\ (sig = "INT" => ~sigint_dfl)
    /\ pending' = pending \ {sig}
    /\ UNCHANGED <<procs, list, current_pid, stack, blocked, program, keys>>

IntKillsShell ==
    /\ over = "no" /\ sigint_dfl /\ "INT" \in pending \ blocked /\ Interruptible
    /\ over' = "killed"
    /\ UNCHANGED <<procs, list, current_pid, stack, blocked, pending, op, arg, sigint_dfl, keys>>

\* Mutant: waitpid(current_pid, &status, WNOHANG).
CurrentZombie == {p \in Procs : st[p] = "zombie" /\ p = current_pid}

Zombies == {p \in Procs : st[p] = "zombie"}

\* terminate_process_handler: cur goes on from where the last child was found.
Reap ==
    /\ At("reap")
    /\ IF Zombies = {} THEN Return /\ UNCHANGED procs
       ELSE \E p \in Zombies : /\ Reaped(p)
                               /\ Becomes([Top EXCEPT !.pc = "find", !.pid = p, !.status = how[p]])
                               /\ UNCHANGED blocked
    /\ UNCHANGED <<list, current_pid, pending, program, keys>>

FindJob ==
    /\ At("find")
    /\ IF Top.job = Null THEN GotoReap
       ELSE IF job[Top.job].pid # Top.pid THEN GotoJob("find", job[Top.job].next)
       ELSE IF Top.status = "sig" THEN GotoReap ELSE Goto("remove")
    /\ UNCHANGED <<procs, list, current_pid, blocked, pending, program, keys>>

terminate_process_handler == Reap \/ FindJob

\* terminate_current_process_handler kills the current child only if it is a
\* job.
terminate_current_process_handler ==
    /\ At("int")
    /\ IF Top.job = Null THEN Return /\ UNCHANGED <<st, how, pending>>
       ELSE /\ GotoJob("int", job[Top.job].next)
            /\ IF job[Top.job].pid = Top.pid THEN Sigkill(Top.pid)
               ELSE UNCHANGED <<st, how, pending>>
            /\ UNCHANGED blocked
    /\ UNCHANGED <<inGroup, list, current_pid, program, keys>>

suspend_process_handler ==
    /\ At("tstp")
    /\ IF Top.job = Null
       THEN /\ Becomes([Top EXCEPT !.pc = "create", !.pid = current_pid])
            /\ UNCHANGED <<st, how, pending, blocked>>
       ELSE IF job[Top.job].pid = Top.pid THEN Sigstop(Top.pid) /\ Return
       ELSE GotoJob("tstp", job[Top.job].next) /\ UNCHANGED <<st, how, pending, blocked>>
    /\ UNCHANGED <<inGroup, list, current_pid, program, keys>>

\* The top frame is about to use a job that has been freed, or NULL: the
\* last_job that create_bg_process has tested is gone when it is used.
Reads == {"walk", "kill", "bgjob", "fgcurrent", "fgcont", "print", "remove", "find", "int", "tstp"}
UseAfterFree ==
    /\ over = "no"
    /\ \/ Top.pc \in Reads /\ Dangling(Top.job)
       \/ Top.pc = "addnext" /\ (Top.ptr = Null \/ Dangling(Top.ptr))
       \/ Top.pc = "newid" /\ Dangling(last_job)
       \/ Top.pc = "unlinknext" /\ Dangling(job[Gone].next)
       \/ Top.pc = "unlinkprev" /\ Dangling(job[Gone].prev)
    /\ over' = "undefined"
    /\ UNCHANGED <<procs, list, current_pid, stack, blocked, pending, op, arg, sigint_dfl, keys>>

\* A handler calls malloc or free while a frame below it is inside malloc or
\* free, or main in the calls of its loop that allocate: the lock of the heap
\* is held, or its lists are in between two states.
InHeap == {"create", "free", "top", "prompt"}
HeapBroken ==
    /\ At("create") \/ At("free")
    /\ \E i \in 1..(Depth - 1) : stack[i].pc \in InHeap
    /\ over' = "heap"
    /\ UNCHANGED <<procs, list, current_pid, stack, blocked, pending, op, arg, sigint_dfl, keys>>
-----------------------------------------------------------------------------
Step == \/ LoopTop \/ Fork \/ EnterWait \/ StageReturns \/ StoreCurrent \/ WaitReturns
        \/ create_bg_process \/ process_background_command \/ remove_job_node
        \/ terminate_process_handler \/ terminate_current_process_handler
        \/ suspend_process_handler \/ UseAfterFree \/ HeapBroken
Handle == EnterChld \/ EnterInt \/ EnterTstp \/ NoCurrent("INT") \/ NoCurrent("TSTP") \/ IntKillsShell

Over == over # "no" /\ UNCHANGED vars

\* A stage of a pipeline has been stopped: nobody is told, and nobody can
\* continue it from this terminal.
Hang == At("instage") /\ Stopped(Top.pid) /\ UNCHANGED vars

Next == \/ \E c \in Commands, n \in 0..Cardinality(Procs) : ReadCommand(c, n)
        \/ Step \/ Handle
        \/ \E p \in Procs : Exit(p)
        \/ CtrlC \/ CtrlZ \/ Over \/ Hang

Spec == Init /\ [][Next]_vars

\* The process runs: the shell makes a step, or a signal that is not blocked is
\* delivered to it.
FairSpec == Spec /\ WF_vars(Step \/ Handle)
-----------------------------------------------------------------------------
(* Properties                                                              *)

\* However signals merge and handlers nest, the kernel never keeps a child that
\* has ended without a SIGCHLD to come or a handler that will still ask for it:
\* the loop of terminate_process_handler leaves none behind.
NoZombieForgotten == \A p \in Procs : st[p] = "zombie" =>
    "CHLD" \in pending \/ \E i \in 1..Depth : stack[i].kind = "CHLD"

\* main and the handlers may be inside the list at the same time, and still
\* its ends and its forward links lead to jobs that are allocated, and so does
\* the backward link of a job that is being removed, through which
\* remove_job_node writes: also while the handler of SIGTSTP adds a job between
\* two steps of a removal.  (That may cut the job off the list; the backward
\* link of such a job may dangle, but nothing leads to it any more.)  It is
\* not so after malloc has given out a job that a frame may still follow as
\* another one, nor after a job was added while another one was being added;
\* nor is the list looked at after SIGCHLD's handler has freed a job under
\* create_bg_process (torn), or undefined behaviour.
Removing == {"rmfirst", "setnext", "rmlast", "setprev", "newid", "unlinknext", "unlinkprev",
             "free"}
WalkIsSafe == over = "no" /\ ~reused /\ ~tangled =>
    /\ ~Dangling(first_job) /\ ~Dangling(last_job)
    /\ \A j \in Jobs : job[j].live => ~Dangling(job[j].next)
    /\ \A i \in 1..Depth : stack[i].pc \in Removing =>
          job[stack[i].job].live /\ ~Dangling(job[stack[i].job].prev)

\* fg and the handler of SIGCHLD both remove jobs: they never remove one whose
\* child is alive, stopped or still to be reaped.
RemovedOnlyWhenReaped ==
    [][\A j \in Jobs : job[j].live /\ ~job'[j].live => st[job[j].pid] = "gone"]_vars

AtPrompt == Main.pc = "prompt" /\ Depth = 1
WaitsForChild == \/ At("inwait") /\ st[Top.pid] = "run"
                 \/ At("instage") /\ (st[Top.pid] = "run" \/ Stopped(Top.pid))

\* The prompt comes back, however children and keys interleave with the
\* command, except when
\*   - a child that runs is waited for, or a stage of a pipeline, which a Ctrl-Z
\*     stops for ever;
\*   - a job was reused under a frame, after which the list may be a ring;
\*   - the program goes another way (over): Ctrl-C kills the shell in the moment
\*     fg gives SIGINT its default action; a frame uses a job that has been
\*     freed; create_bg_process goes on with one; or a handler calls malloc or
\*     free while what it has interrupted is inside malloc or free, where it
\*     waits for ever for the lock or finds the heap's lists in between.
PromptReturns == ~AtPrompt ~> (AtPrompt \/ over # "no" \/ reused \/ WaitsForChild)
=============================================================================
