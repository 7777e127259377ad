--------------------------- MODULE MCShellPipeline ---------------------------
(* Instances of ShellPipeline for TLC: pipelines of one to three stages,    *)
(* repeated until the descriptors are used up, one that is too long, and    *)
(* one with a stage that is blank.                                          *)
EXTENDS ShellPipeline

MCWords == {"gen", "cat", "cd", "history", "exit", "jobs", "missing", "ls"}
SomeCommands ==
    {<<"gen">>, <<"cd", " ", "cat">>, <<"jobs", "|", "cat">>, <<" ", "|", "gen">>,
     <<"gen", " ", "|", "cat">>, <<"gen", "|", "history">>, <<"missing", "|", " ", "cat">>,
     <<"cat", "|", "exit">>, <<"history", "|", "cat", "|", "cat">>,
     <<"gen", "|", "gen", "|", "cat">>, <<"gen", "|", "cat", "|", "cat", "|", "cat">>}
\* Lines of these words and of blanks, quotes, bars and marks are parsed.
SomeWords == {"ls", "cat"}
=============================================================================
