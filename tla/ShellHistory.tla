---------------------------- MODULE ShellHistory -----------------------------
(***************************************************************************)
(* The main loop of the shell of phase 1: the command buffer, the          *)
(* expansion of !! and !n in place, the history in memory and its file.    *)
(* A command is a sequence of characters, because replace_history_command  *)
(* works on characters and does not stop at the end of the string.         *)
(***************************************************************************)
EXTENDS Integers, Sequences, SequencesExt

CONSTANTS Lines,       \* what the user may type
          Exit,        \* the line that is the word exit
          Files,       \* histories the file may hold at first: lines of text
          BufSize,     \* MAX_COMMAND_LENGTH
          MaxHistory   \* bound: entries of the history

Digits == {"0", "1", "2", "9"}
Value(d) == CASE d = "0" -> 0 [] d = "1" -> 1 [] d = "2" -> 2 [] d = "9" -> 9
Nul == "nul"

ASSUME ShellHistoryAssumption ==
    /\ Lines \subseteq Seq(Digits \cup {"!", " ", "a", "b", "e"})
    /\ Exit \in Lines
    /\ BufSize \in Nat \ {0} /\ \A line \in Lines : Len(line) + 2 <= BufSize
    /\ MaxHistory \in Nat

VARIABLES pc,
          command,    \* the buffer, whose old bytes stay behind the string
          history,    \* command_history
          file,       \* the lines of .bash_history
          cur, len,   \* locals of replace_history_command
          \* history variables
          past,       \* it has replaced something behind the end of the string
          typed,      \* the line, if it has been typed
          got         \* what it has become

vars == <<pc, command, history, file, cur, len, past, typed, got>>

NotFound == <<"event not found">>
-----------------------------------------------------------------------------
(* Strings in a buffer; positions count from 0                             *)

StrLen(buf, k) == CHOOSE n \in 0..BufSize :
                     /\ n = BufSize - k \/ buf[k + n + 1] = Nul
                     /\ \A j \in 0..(n - 1) : buf[k + j + 1] # Nul
Str(buf, k) == SubSeq(buf, k + 1, k + StrLen(buf, k))
StrCpy(buf, k, s) == [j \in 1..BufSize |-> IF j \in (k + 1)..(k + Len(s)) THEN s[j - k]
                                           ELSE IF j = k + Len(s) + 1 THEN Nul ELSE buf[j]]

\* atoi skips blanks, takes a number as far as it goes, and is 0 otherwise.
DigitsOf(s) == SubSeq(s, 1, CHOOSE n \in 0..Len(s) :
                               /\ \A j \in 1..n : s[j] \in Digits
                               /\ n = Len(s) \/ s[n + 1] \notin Digits)
Number(s) == FoldLeft(LAMBDA v, d : 10 * v + Value(d), 0, DigitsOf(s))
Unblank(s) == SubSeq(s, CHOOSE n \in 1..(Len(s) + 1) :
                           /\ \A j \in 1..(n - 1) : s[j] = " "
                           /\ n = Len(s) + 1 \/ s[n] # " ", Len(s))
atoi(s) == Number(Unblank(s))
Width(n) == IF n < 10 THEN 1 ELSE IF n < 100 THEN 2 ELSE 3   \* of sprintf's %d
-----------------------------------------------------------------------------
(* The history and its file                                                *)

\* Mutant: a command is added although it is the same as the last one.
add_always(h, cmd) == Append(h, cmd)

add_command_history(h, cmd) == IF h # <<>> /\ Last(h) = cmd THEN h ELSE Append(h, cmd)

\* The loop asks feof before it reads: behind a last newline fgets fails and
\* leaves the line before in the buffer, which is then added again.
Fetched(k) == IF k = Len(file) /\ k > 1 /\ file[k] = <<>> THEN file[k - 1] ELSE file[k]

read_bash_history ==
    FoldLeft(add_command_history, <<>>,
             SelectSeq([k \in 1..Len(file) |-> Fetched(k)], LAMBDA line : line # <<>>))

\* The array is not initialised: zeros, or something that is not a string.
Garbage == {[j \in 1..BufSize |-> c] : c \in {Nul, "!"}}

Init ==
    /\ pc = "prompt"
    /\ command \in Garbage
    /\ file \in Files
    /\ history = read_bash_history
    /\ cur = 0 /\ len = 0 /\ past = FALSE /\ typed = <<>> /\ got = <<>>
-----------------------------------------------------------------------------
(* main()                                                                  *)

StartScan(line) ==
    /\ pc' = "scan" /\ cur' = 0 /\ past' = FALSE /\ typed' = line /\ got' = <<>>
    /\ UNCHANGED <<history, file>>

\* fgets, and the newline becomes the end of the string.
TypeLine(line) ==
    /\ pc = "prompt" /\ Len(history) < MaxHistory
    /\ command' = StrCpy(command, 0, line \o <<Nul>>)
    /\ len' = Len(line)
    /\ StartScan(line)

TypeEnter ==
    /\ pc = "prompt"
    /\ command' = StrCpy(command, 0, <<"\n">>)
    /\ UNCHANGED <<pc, history, file, cur, len, past, typed, got>>

\* At the end of its input fgets leaves the buffer as it is.
EndOfInput ==
    /\ pc = "prompt" /\ command[1] # "\n"
    /\ UNCHANGED command
    /\ IF StrLen(command, 0) < BufSize
       THEN len' = StrLen(command, 0) /\ StartScan(<<>>)
       ELSE pc' = "overrun" /\ UNCHANGED <<history, file, cur, len, past, typed, got>>
-----------------------------------------------------------------------------
(* replace_history_command, one character at a time                        *)

Scanning == pc = "scan" /\ cur < len - 1 /\ cur + 1 < BufSize
Here == command[cur + 1]
After == command[cur + 2]
Index == atoi(Str(command, cur + 1))

\* The scan has passed the end of the string.
Behind == cur >= StrLen(command, 0)

Overruns == /\ pc' = "overrun"
            /\ past' = (past \/ Behind)
            /\ UNCHANGED <<command, history, file, cur, len, typed, got>>

\* The scan goes on behind the first character of what it has put in.
Replace(entry, skipped, grown) ==
    LET text == entry \o Str(command, cur + skipped)
    IN  IF cur + Len(text) < BufSize
        THEN /\ command' = StrCpy(command, cur, text)
             /\ len' = len + grown
             /\ cur' = cur + 1
             /\ past' = (past \/ Behind)
             /\ UNCHANGED <<pc, history, file, typed, got>>
        ELSE Overruns

Skip ==
    /\ Scanning
    /\ Here = "!" => After \notin {"!", "0"} /\ Index = 0
    /\ cur' = cur + 1
    /\ UNCHANGED <<pc, command, history, file, len, past, typed, got>>

\* Mutant: the scan stops at the end that the line had at first.
ReplaceLastOldEnd ==
    /\ Scanning /\ Here = "!" /\ After = "!" /\ history # <<>>
    /\ Replace(Last(history), 2, 0)

ReplaceLast ==
    /\ Scanning /\ Here = "!" /\ After = "!" /\ history # <<>>
    /\ LET entry == Last(history) IN Replace(entry, 2, Len(entry) - 2)

\* len grows by two more than the string does.
ReplaceNumber ==
    /\ Scanning /\ Here = "!" /\ After # "!" /\ Index \in 1..Len(history)
    /\ LET entry == history[Index]
           width == Width(Index)
       IN  Replace(entry, width + 1, Len(entry) - width + 1)

EventNotFound ==
    /\ Scanning /\ Here = "!"
    /\ \/ After = "!" /\ history = <<>>
       \/ After # "!" /\ Index > Len(history)
       \/ After = "0" /\ Index = 0
    /\ pc' = "rejected" /\ got' = NotFound
    /\ past' = (past \/ Behind)
    /\ UNCHANGED <<command, history, file, cur, len, typed>>

\* len has run out of the array.
ScanOverruns == pc = "scan" /\ cur < len - 1 /\ cur + 1 >= BufSize /\ Overruns

ScanEnds ==
    /\ pc = "scan" /\ cur >= len - 1
    /\ pc' = "replaced" /\ got' = Str(command, 0)
    /\ UNCHANGED <<command, history, file, cur, len, past, typed>>

replace_history_command == \/ Skip \/ ReplaceLast \/ ReplaceNumber \/ EventNotFound
                           \/ ScanOverruns \/ ScanEnds
-----------------------------------------------------------------------------
(* main() again                                                            *)

Fresh == cur' = 0 /\ len' = 0 /\ past' = FALSE /\ typed' = <<>> /\ got' = <<>>
IsBlank(s) == \A j \in 1..Len(s) : s[j] = " "

Reject ==
    /\ pc = "rejected" \/ (pc = "replaced" /\ IsBlank(got))
    /\ pc' = "prompt"
    /\ Fresh
    /\ UNCHANGED <<command, history, file>>

Remember ==
    /\ pc = "replaced" /\ ~IsBlank(got)
    /\ history' = add_command_history(history, got)
    /\ pc' = IF history' = history THEN "execute" ELSE "write"
    /\ UNCHANGED <<command, file, cur, len, past, typed, got>>

\* fprintf(fp, "\n%s", command)
WriteFile ==
    /\ pc = "write"
    /\ file' = Append(file, got)
    /\ pc' = "execute"
    /\ UNCHANGED <<command, history, cur, len, past, typed, got>>

execute_command ==
    /\ pc = "execute"
    /\ pc' = IF got = Exit THEN "exited" ELSE "prompt"
    /\ Fresh
    /\ UNCHANGED <<command, history, file>>

\* The terminal is closed, or the shell is killed.
Killed ==
    /\ pc \notin {"exited", "overrun"}
    /\ pc' = "exited"
    /\ Fresh
    /\ history' = IF pc = "write" THEN Front(history) ELSE history
    /\ UNCHANGED <<command, file>>

Restart ==
    /\ pc \in {"exited", "overrun"}
    /\ pc' = "prompt"
    /\ command' \in Garbage
    /\ history' = read_bash_history
    /\ Fresh
    /\ UNCHANGED file

Next == \/ \E line \in Lines : TypeLine(line)
        \/ TypeEnter \/ EndOfInput \/ replace_history_command
        \/ Reject \/ Remember \/ WriteFile \/ execute_command
        \/ Killed \/ Restart

Spec == Init /\ [][Next]_vars
-----------------------------------------------------------------------------
(* Properties                                                              *)

\* What the shell remembers is what it will read after a restart, wherever
\* it is stopped, whoever has written the file before, and although commands
\* in a row that are equal are kept once: numbers stay what they were.
FileIsHistory ==
    LET known == IF pc = "write" THEN Front(history) ELSE history
    IN  read_bash_history = known

\* The expansion, as it is meant: every !! and !n of the line is the command
\* it names, and what has been put in is not looked at again.
References(s) == {j \in 1..(Len(s) - 1) : s[j] = "!" /\ s[j + 1] \in Digits \cup {"!"}}
RECURSIVE Expanded(_)
Expanded(s) ==
    IF Len(s) < 2 THEN s
    ELSE IF 1 \notin References(s) THEN <<s[1]>> \o Expanded(Tail(s))
    ELSE IF s[2] = "!" THEN Last(history) \o Expanded(SubSeq(s, 3, Len(s)))
    ELSE LET n == Number(Tail(s))
         IN  history[n] \o Expanded(SubSeq(s, Width(n) + 2, Len(s)))

\* Every reference of the line, from the left, names a command.
RECURSIVE Names(_)
Names(s) ==
    IF Len(s) < 2 THEN TRUE
    ELSE IF 1 \notin References(s) THEN Names(Tail(s))
    ELSE IF s[2] = "!" THEN history # <<>> /\ Names(SubSeq(s, 3, Len(s)))
    ELSE LET n == Number(Tail(s))
         IN  n \in 1..Len(history) /\ Names(SubSeq(s, Width(n) + 2, Len(s)))
Meaning(s) == IF Names(s) THEN Expanded(s) ELSE NotFound

\* A line with !! and !n becomes what it means, and fits unless that is too
\* long, as long as no command in the history has an exclamation mark of its
\* own, the number follows its mark and has no leading zero, and the scan has
\* replaced nothing behind the end of the string, where old bytes are.
Plain(s) == \A j \in 1..(Len(s) - 1) : s[j] = "!" => s[j + 1] \notin {" ", "0"}
NoMarks == \A k \in 1..Len(history) : ~Contains(history[k], "!")
ExpansionIsMeant ==
    typed # <<>> /\ Plain(typed) /\ NoMarks /\ ~past =>
        /\ pc \in {"replaced", "rejected"} => got = Meaning(typed)
        /\ pc = "overrun" =>
              Names(typed) /\ Len(Meaning(typed)) + Len(typed) >= BufSize
=============================================================================
