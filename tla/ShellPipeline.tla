---------------------------- MODULE ShellPipeline ----------------------------
(***************************************************************************)
(* execute_command and create_sub_process of the shells of phase 2 and     *)
(* phase 3: the descriptor tables of the shell and of the one child that   *)
(* runs, pipes of bounded capacity, and the prompt that reads whatever     *)
(* descriptor 0 is.  What a line says is left out: a pipe holds the number *)
(* of the stage that wrote each of its lines.                              *)
(***************************************************************************)
EXTENDS Integers, Sequences, FiniteSets, ShellParse

CONSTANTS Commands,    \* the lines that may be typed
          PipeSize,    \* lines a pipe holds
          MaxLines,    \* bound: lines a program writes of its own
          MaxFd        \* descriptors of a process

ASSUME ShellPipelineAssumption ==
    /\ Commands \subseteq Seq(Words \cup {" ", "'", "|"})
    /\ PipeSize \in Nat \ {0} /\ MaxLines \in Nat /\ MaxFd \in Nat /\ MaxFd > 5

Tty == <<"tty", 0>>
None == <<"none", 0>>
ReadEnd(p) == <<"r", p>>
WriteEnd(p) == <<"w", p>>

VARIABLES
    phase,      \* 2 or 3: which of the two programs runs
    pc,         \* where execute_command is
    fd,         \* the shell's descriptor table
    saved_stdin,
    ahead,      \* lines the shell's stdio has read and not yet used
    eof,        \* stdio has seen the end of stdin
    cmd, i,     \* the programs of the pipeline, and the stage at hand (from 1)
    in, pfd,    \* the locals in and fd[2]
    pipes,      \* the lines in each pipe
    \* the child
    prog,       \* "none" or the program the child runs
    cfd,        \* its descriptor table
    todo,       \* lines it has still to write
    held,       \* the writer of the line it read last, or -1
    got,        \* lines it has read
    \* history
    sent,       \* lines the stage before has left in its pipe
    short       \* a pipe() of this command has failed

shell == <<fd, saved_stdin, ahead, eof, cmd, i, in, pfd>>
child == <<prog, cfd, todo, held, got>>
vars == <<phase, pc, shell, pipes, child, sent, short>>

Descriptors == 0..(MaxFd - 1)
Pipes == 1..MaxFd
FreeIn(table) == {d \in Descriptors : table[d] = None}
Lowest(S) == CHOOSE x \in S : \A y \in S : x <= y
Close(table, d) == IF d \in Descriptors THEN [table EXCEPT ![d] = None] ELSE table
\* dup2 of a descriptor that is not open changes nothing.
Dup2(table, from, to) ==
    IF from \in Descriptors /\ table[from] # None
    THEN [table EXCEPT ![to] = table[from]] ELSE table
\* The lines in the pipe a file belongs to; nothing waits in the terminal.
Contents(file) == IF file[1] \in {"r", "w"} THEN pipes[file[2]] ELSE <<>>
Open(table, file) == \E d \in Descriptors : table[d] = file

NoChild == /\ prog' = "none" /\ cfd' = [d \in Descriptors |-> None]
           /\ todo' = 0 /\ held' = -1 /\ got' = 0

\* Phase 3 keeps a copy of stdin and stdout in 3 and 4 from the start.
Init ==
    /\ phase \in {2, 3}
    /\ pc = "prompt"
    /\ fd = [d \in Descriptors |-> IF d <= (IF phase = 3 THEN 4 ELSE 2) THEN Tty ELSE None]
    /\ saved_stdin = IF phase = 3 THEN 3 ELSE -1
    /\ ahead = 0 /\ eof = FALSE /\ cmd = <<>> /\ i = 0 /\ in = 0 /\ pfd = <<-1, -1>>
    /\ pipes = [p \in Pipes |-> <<>>]
    /\ prog = "none" /\ cfd = [d \in Descriptors |-> None]
    /\ todo = 0 /\ held = -1 /\ got = 0 /\ sent = 0
    /\ short = FALSE
-----------------------------------------------------------------------------
(* main(): read a line                                                     *)

\* The programs and built-ins that args[] names.
Programs(args) == [k \in 1..Len(args) |-> args[k][1][1]]

Begin(line) ==
    /\ pc' = CASE Dies(line) -> "crashed"
               [] ~Dies(line) /\ Overflows(line) -> "undefined"
               [] OTHER -> "execute"
    /\ cmd' = IF Dies(line) THEN cmd ELSE Programs(parse_command(line))
    /\ UNCHANGED <<phase, fd, saved_stdin, i, in, pfd, child, sent, short>>

\* The user types a line, or stdio still holds one.
PromptLine(c) ==
    /\ pc = "prompt" /\ (ahead > 0 \/ (~eof /\ fd[0] = Tty))
    /\ ahead' = IF ahead > 0 THEN ahead - 1 ELSE 0
    /\ Begin(c)
    /\ UNCHANGED <<eof, pipes>>

\* stdin is a pipe: stdio reads all it holds and returns the first line.
PromptPipe(c) ==
    /\ pc = "prompt" /\ ahead = 0 /\ ~eof
    /\ Contents(fd[0]) # <<>>
    /\ ahead' = Len(Contents(fd[0])) - 1
    /\ pipes' = [pipes EXCEPT ![fd[0][2]] = <<>>]
    /\ Begin(c)
    /\ UNCHANGED eof

\* End of file: fgets leaves the buffer as it is.  Phase 3 finds its last
\* command there; phase 2 has cleared it, and parse_command reads through the
\* NULL that strtok returns for an empty line.  stdio remembers the end.
PromptEof ==
    /\ pc = "prompt" /\ ahead = 0
    /\ eof \/ Contents(fd[0]) = <<>>
    /\ eof' = TRUE
    /\ pc' = IF phase = 2 \/ cmd = <<>> THEN "crashed" ELSE "execute"
    /\ UNCHANGED <<phase, fd, saved_stdin, ahead, cmd, i, in, pfd, pipes, child, sent, short>>
-----------------------------------------------------------------------------
(* execute_command                                                         *)

BuiltIn(program) == program \in {"cd", "history", "exit"}

\* dup copies to the lowest free descriptor.
Dup(table, d) == IF FreeIn(table) = {} THEN table
                 ELSE [table EXCEPT ![Lowest(FreeIn(table))] = table[d]]

StartPipeline == /\ in' = 0 /\ pfd' = <<-1, -1>> /\ i' = 1 /\ sent' = 0 /\ short' = FALSE
                 /\ pc' = "loop"
                 /\ UNCHANGED <<phase, ahead, eof, cmd, pipes, prog, cfd, todo, held, got>>

\* Phase 2 copies stdin and stdout for every command and closes neither copy.
Enter2 ==
    /\ pc = "execute" /\ phase = 2
    /\ fd' = Dup(Dup(fd, 1), 0)
    /\ saved_stdin' = IF Cardinality(FreeIn(fd)) < 2 THEN -1
                      ELSE Lowest(FreeIn(Dup(fd, 1)))
    /\ StartPipeline

\* Phase 3 first asks process_background_command, which looks at the first
\* stage only and, for a job command, forgets the others.
Enter3 ==
    /\ pc = "execute" /\ phase = 3
    /\ IF cmd[1] = "jobs"
       THEN pc' = "prompt" /\ UNCHANGED <<phase, shell, pipes, child, sent, short>>
       ELSE StartPipeline /\ UNCHANGED <<fd, saved_stdin>>

InUse == {p \in Pipes : Open(fd, ReadEnd(p)) \/ Open(fd, WriteEnd(p))}

\* pipe(fd).  Its result is not looked at: a failure leaves fd[] as it was,
\* which in the first turn is uninitialised.
MakePipe ==
    /\ pc = "loop" /\ i < Len(cmd)
    /\ IF Cardinality(FreeIn(fd)) >= 2
       THEN LET p == Lowest(Pipes \ InUse)
                r == Lowest(FreeIn(fd))
                w == Lowest(FreeIn(fd) \ {r})
            IN  /\ fd' = [fd EXCEPT ![r] = ReadEnd(p), ![w] = WriteEnd(p)]
                /\ pipes' = [pipes EXCEPT ![p] = <<>>]
                /\ pfd' = <<r, w>>
                /\ pc' = "stage"
                /\ UNCHANGED short
       ELSE /\ short' = TRUE
            /\ pc' = IF i = 1 THEN "undefined" ELSE "stage"
            /\ UNCHANGED <<fd, pipes, pfd>>
    /\ UNCHANGED <<phase, saved_stdin, ahead, eof, cmd, i, in, child, sent>>

\* What a program does with its standard input and output.
Starts(program, table, n) ==
    /\ prog' = program /\ cfd' = table /\ todo' = n
    /\ held' = -1 /\ got' = 0
Lines(program) == CASE program \in {"gen", "history"} -> 0..MaxLines
                    [] program \in {"missing", "jobs"} -> {1}
                    [] OTHER -> {0}

\* Mutant: the child reads the terminal whatever stage it is.
create_sub_process_first ==
    /\ pc = "stage"
    /\ \E n \in Lines(cmd[i]) : Starts(cmd[i], Close(Dup2(fd, pfd[2], 1), pfd[2]), n)
    /\ pc' = "wait"
    /\ UNCHANGED <<phase, shell, pipes, sent, short>>

\* create_sub_process(in, fd[1], args[i]): a built-in runs in the child, and
\* the message of an exec that fails goes into the pipe.
create_sub_process ==
    /\ pc = "stage"
    /\ \E n \in Lines(cmd[i]) :
          LET t == IF in # 0 THEN Close(Dup2(fd, in, 0), in) ELSE fd
          IN  Starts(cmd[i], Close(Dup2(t, pfd[2], 1), pfd[2]), n)
    /\ pc' = "wait"
    /\ UNCHANGED <<phase, shell, pipes, sent, short>>

\* Lines the child has left in the pipe it wrote to, if any.
Left == Len(Contents(cfd[1]))

\* Mutant: fd[1] stays open.
NextStageKeepsWriteEnd ==
    /\ pc = "wait" /\ prog = "ended"
    /\ in' = pfd[1]
    /\ i' = i + 1
    /\ pc' = "loop"
    /\ sent' = Left
    /\ NoChild
    /\ UNCHANGED <<phase, fd, saved_stdin, ahead, eof, cmd, pfd, pipes, short>>

\* waitpid returns; close(fd[1]); in = fd[0].  The old in stays open.
NextStage ==
    /\ pc = "wait" /\ prog = "ended"
    /\ fd' = Close(fd, pfd[2])
    /\ in' = pfd[1]
    /\ i' = i + 1
    /\ pc' = "loop"
    /\ sent' = Left
    /\ NoChild
    /\ UNCHANGED <<phase, saved_stdin, ahead, eof, cmd, pfd, pipes, short>>

AtLast == pc = "loop" /\ i = Len(cmd)
Connected == IF in # 0 THEN Dup2(fd, in, 0) ELSE fd

\* A built-in at the end runs in the shell itself: in phase 2 only if it is
\* the whole command, in phase 3 always, and then stdin stays connected.
RunBuiltIn ==
    /\ AtLast /\ BuiltIn(cmd[i]) /\ (phase = 3 \/ i = 1)
    /\ fd' = Connected
    /\ pc' = IF cmd[i] = "exit" THEN "exited" ELSE "prompt"
    /\ UNCHANGED <<phase, saved_stdin, ahead, eof, cmd, i, in, pfd, pipes, child, sent, short>>

\* Mutant: stdin is not recovered.
ForkLast3Forgets ==
    /\ AtLast /\ phase = 3 /\ ~BuiltIn(cmd[i])
    /\ \E n \in Lines(cmd[i]) : Starts(cmd[i], Connected, n)
    /\ fd' = Connected
    /\ pc' = "waitlast"
    /\ UNCHANGED <<phase, saved_stdin, ahead, eof, cmd, i, in, pfd, pipes, sent, short>>

\* Phase 3 gets its stdin back before it waits.
ForkLast3 ==
    /\ AtLast /\ phase = 3 /\ ~BuiltIn(cmd[i])
    /\ \E n \in Lines(cmd[i]) : Starts(cmd[i], Connected, n)
    /\ fd' = Dup2(Connected, saved_stdin, 0)
    /\ pc' = "waitlast"
    /\ UNCHANGED <<phase, saved_stdin, ahead, eof, cmd, i, in, pfd, pipes, sent, short>>

\* In phase 2 a built-in that is not alone is looked for as a program.
ForkLast2 ==
    /\ AtLast /\ phase = 2 /\ ~(BuiltIn(cmd[i]) /\ i = 1)
    /\ LET program == IF BuiltIn(cmd[i]) THEN "missing" ELSE cmd[i]
       IN  \E n \in Lines(program) : Starts(program, Connected, n)
    /\ fd' = Connected
    /\ pc' = "waitlast"
    /\ UNCHANGED <<phase, saved_stdin, ahead, eof, cmd, i, in, pfd, pipes, sent, short>>

\* Phase 2 waits for pid 0 (= binds less tightly than ==): any child will do,
\* and there is one.
WaitLast ==
    /\ pc = "waitlast" /\ prog = "ended"
    /\ fd' = IF phase = 2 THEN Dup2(fd, saved_stdin, 0) ELSE fd
    /\ pc' = "prompt"
    /\ NoChild
    /\ sent' = 0
    /\ UNCHANGED <<phase, saved_stdin, ahead, eof, cmd, i, in, pfd, pipes, short>>

execute_command == \/ Enter2 \/ Enter3 \/ MakePipe \/ create_sub_process \/ NextStage
                   \/ RunBuiltIn \/ ForkLast2 \/ ForkLast3 \/ WaitLast
-----------------------------------------------------------------------------
(* The child's program                                                     *)

Alive == prog \notin {"none", "ended"}
Reading == prog = "cat" /\ held = -1
HasWriter(p) == Open(fd, WriteEnd(p)) \/ Open(cfd, WriteEnd(p))
Room == Len(Contents(cfd[1])) < PipeSize
Put(p) == Append(pipes[p], i)

Write ==
    /\ Alive /\ (todo > 0 \/ held # -1) /\ Room
    /\ pipes' = IF cfd[1] = Tty THEN pipes ELSE [pipes EXCEPT ![cfd[1][2]] = Put(cfd[1][2])]
    /\ IF held # -1 THEN held' = -1 /\ UNCHANGED todo
                    ELSE todo' = todo - 1 /\ UNCHANGED held
    /\ UNCHANGED <<phase, pc, shell, prog, cfd, got, sent, short>>

ReadPipe ==
    /\ Reading /\ Contents(cfd[0]) # <<>>
    /\ held' = Head(Contents(cfd[0]))
    /\ pipes' = [pipes EXCEPT ![cfd[0][2]] = Tail(@)]
    /\ got' = got + 1
    /\ UNCHANGED <<phase, pc, shell, prog, cfd, todo, sent, short>>

\* The user types a line for the program.
ReadTty ==
    /\ Reading /\ cfd[0] = Tty /\ got < MaxLines
    /\ held' = 0
    /\ got' = got + 1
    /\ UNCHANGED <<phase, pc, shell, pipes, prog, cfd, todo, sent, short>>

End ==
    /\ Alive /\ todo = 0 /\ held = -1
    /\ prog = "cat" => Contents(cfd[0]) = <<>> /\ ~HasWriter(cfd[0][2])
    /\ prog' = "ended"
    /\ UNCHANGED <<phase, pc, shell, pipes, cfd, todo, held, got, sent, short>>

Program == Write \/ ReadPipe \/ (End /\ ~(Reading /\ cfd[0] = Tty))
-----------------------------------------------------------------------------
Over == pc \in {"exited", "crashed", "undefined"} /\ UNCHANGED vars

\* A program whose pipe is full, and a program that waits for the user.
PipeFull == Alive /\ (todo > 0 \/ held # -1) /\ ~Room
Stuck == PipeFull /\ UNCHANGED vars

Next == \/ \E c \in Commands : PromptLine(c) \/ PromptPipe(c)
        \/ PromptEof \/ execute_command
        \/ Write \/ ReadPipe \/ ReadTty \/ End
        \/ Over \/ Stuck

Spec == Init /\ [][Next]_vars

\* The shell and its child run whenever they can; nobody makes the user type.
FairSpec == Spec /\ WF_vars(execute_command) /\ WF_vars(Program)
-----------------------------------------------------------------------------
(* Properties                                                              *)

\* A program that reads from a pipe finds the end of its input: when it runs,
\* no process holds the pipe's other end, the shell's copies of descriptors
\* and what a child inherits included.
EndOfFileComes ==
    Alive /\ cfd[0] # Tty => cfd[0][1] = "r" /\ ~HasWriter(cfd[0][2])

\* A stage reads what the stage before it wrote: nothing else, and, if it
\* reads to the end, all of it.  (Unless a pipe() has failed: the stages then
\* share the pipe before.)
StageReadsPrevious ==
    i > 1 /\ ~short =>
        /\ prog = "cat" /\ held # -1 => held = i - 1
        /\ prog = "ended" /\ cmd[i] = "cat" => got = sent

\* The prompt reads the terminal: in phase 2 after every command, whatever
\* failed in it; in phase 3 after every command whose last stage is a program
\* and whose first is not jobs.  A built-in that ends a pipeline of phase 3
\* leaves stdin on the pipe, and what the stage before it wrote is taken for
\* commands; a built-in alone, or a line that begins with jobs, leaves stdin as
\* it was, and so does not bring it back.
PromptIsTheTerminals ==
    pc = "prompt" /\ fd[0] # Tty =>
        phase = 3 /\ (BuiltIn(cmd[Len(cmd)]) \/ cmd[1] = "jobs")

\* parse_command and parse_bg_command do what they are for with every short
\* line.  They depend on nothing else, and it is enough to ask at the first
\* prompt.
LinesAreUnderstood == pc = "prompt" /\ cmd = <<>> => \A line \in Typed : Understood(line)

\* The prompt comes back after every pipeline, unless a stage writes more
\* than a pipe holds (nobody reads it before the stage has ended), or waits
\* for the user, or pipe() fails.
Busy == pc \notin {"prompt", "exited", "crashed", "undefined"}
AsksUser == Reading /\ cfd[0] = Tty
PromptReturns == Busy ~> (~Busy \/ PipeFull \/ AsksUser)
=============================================================================
