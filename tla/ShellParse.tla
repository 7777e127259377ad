------------------------------ MODULE ShellParse ------------------------------
(***************************************************************************)
(* parse_command of the shells of phase 2 and phase 3, and                 *)
(* parse_bg_command of phase 3: from a line to the arguments of the        *)
(* programs of its pipeline.                                               *)
(*                                                                         *)
(* A line is a sequence of words and of the characters below; an argument, *)
(* a string of C, is a sequence of words and marks without a separator.    *)
(***************************************************************************)
EXTENDS Integers, Sequences, SequencesExt

CONSTANTS Words,        \* the words of a line
          TypedWords,   \* bounds: the words, and the length, of the lines that
          MaxTyped,     \*         LinesAreUnderstood asks about
          MAX_PIPELINE

ASSUME ShellParseAssumption ==
    /\ Words \cap {" ", "'", "|", "&"} = {}
    /\ TypedWords \subseteq Words /\ MaxTyped \in Nat /\ MAX_PIPELINE \in Nat \ {0}

Color == "--color=auto"

Sorted(positions) == SetToSortSeq(positions, <)

\* The successive results of strtok over s: the runs without a separator.
Tokens(s, separators) ==
    LET starts == Sorted({k \in 1..Len(s) :
                             s[k] \notin separators /\ (k = 1 \/ s[k - 1] \in separators)})
        End(k) == Max({j \in k..Len(s) : \A x \in k..j : s[x] \notin separators})
    IN  [i \in 1..Len(starts) |-> SubSeq(s, starts[i], End(starts[i]))]

\* strstr(.., "|"): what is between the bars, nothing included.
Stages(line) ==
    LET ends == <<0>> \o Sorted({k \in 1..Len(line) : line[k] = "|"}) \o <<Len(line) + 1>>
    IN  [i \in 1..(Len(ends) - 1) |-> SubSeq(line, ends[i] + 1, ends[i + 1] - 1)]

\* The first argument ends at a blank, the others also at a quote.
Arguments(stage) ==
    LET first == Tokens(stage, {" "})[1]
        start == CHOOSE k \in 1..Len(stage) :
                    stage[k] # " " /\ \A j \in 1..(k - 1) : stage[j] = " "
        rest == SubSeq(stage, start + Len(first), Len(stage))
    IN  IF \A k \in 1..Len(stage) : stage[k] = " " THEN <<>>
        ELSE <<first>> \o Tokens(rest, {" ", "'"})

\* ls and grep are given one more argument.
Colored(args) == IF args[1] \in {<<"ls">>, <<"grep">>} THEN Append(args, <<Color>>) ELSE args

\* A stage without a word has no arguments; strcmp of its NULL kills the
\* shell.  More than MAX_PIPELINE stages are written behind args[].
parse_command(line) ==
    LET stages == Stages(line)
    IN  [i \in 1..Len(stages) |-> IF Arguments(stages[i]) = <<>> THEN <<>>
                                  ELSE Colored(Arguments(stages[i]))]
Dies(line) == \E i \in 1..Len(Stages(line)) : Arguments(Stages(line)[i]) = <<>>
Overflows(line) == Len(Stages(line)) > MAX_PIPELINE

\* Mutant: the two cases the other way round.
parse_bg_swapped(args) ==
    LET marked == {k \in 1..Len(args) : Contains(args[k], "&")}
        k == Min(marked)
        mark == Min({j \in 1..Len(args[k]) : args[k][j] = "&"})
    IN  IF marked = {} THEN [bg |-> FALSE, args |-> args]
        ELSE [bg |-> TRUE,
              args |-> IF mark # 1 THEN SubSeq(args, 1, k - 1)
                       ELSE [args EXCEPT ![k] = SubSeq(@, 1, mark - 1)]]

\* The first argument that begins with & ends the list; if it has the & later,
\* it is cut there, and the arguments behind it stay.
parse_bg_command(args) ==
    LET marked == {k \in 1..Len(args) : Contains(args[k], "&")}
        k == Min(marked)
        mark == Min({j \in 1..Len(args[k]) : args[k][j] = "&"})
    IN  IF marked = {} THEN [bg |-> FALSE, args |-> args]
        ELSE [bg |-> TRUE,
              args |-> IF mark = 1 THEN SubSeq(args, 1, k - 1)
                       ELSE [args EXCEPT ![k] = SubSeq(@, 1, mark - 1)]]
-----------------------------------------------------------------------------
(* What a line means                                                       *)

Typed == UNION {[1..n -> TypedWords \cup {" ", "'", "|", "&"}] : n \in 1..MaxTyped}
Plain(args) == SelectSeq(args, LAMBDA a : a # <<Color>>)
IsSpace(x) == x \in {" ", "'"}
Bare(s) == SelectSeq(s, LAMBDA x : ~IsSpace(x))

\* Each stage gets every word and mark of its own part of the line, in their
\* order, the words on both sides of a separator apart.
StageIsPart(line, i) ==
    LET part == Stages(line)[i]
        args == Plain(parse_command(line)[i])
    IN  /\ Bare(FlattenSeq(args)) = Bare(part)
        /\ \A k \in 2..Len(args) : Bare(args[k]) = args[k] /\ args[k] # <<>>
        /\ "'" \notin ToSet(part) =>
              Len(args) = Cardinality({k \in 1..Len(part) :
                             ~IsSpace(part[k]) /\ (k = 1 \/ IsSpace(part[k - 1]))})

\* "cmd &" and "cmd&" run what "cmd" runs, in the background, in its color or not.
BackgroundIsForeground(line) ==
    LET args == parse_command(line)
        n == Len(args)
        with == parse_command(line \o <<"&">>)[n]
    IN  "&" \notin ToSet(line) =>
           /\ ~parse_bg_command(args[n]).bg
           /\ parse_bg_command(with).bg
           /\ Plain(parse_bg_command(with).args) = Plain(args[n])

\* Whatever blanks and quotes are typed, and wherever: no word is lost, joined
\* to another or given to another stage, and a final & only puts the last
\* stage into the background.
Understood(line) ==
    ~Dies(line) => /\ \A i \in 1..Len(Stages(line)) : StageIsPart(line, i)
                   /\ BackgroundIsForeground(line)
=============================================================================
