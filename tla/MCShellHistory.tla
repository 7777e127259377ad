---------------------------- MODULE MCShellHistory ----------------------------
(* Instances of ShellHistory for TLC.                                       *)
EXTENDS ShellHistory

SomeLines ==
    {<<"a">>, <<"b", "b">>, <<" ">>, <<"e">>, <<"!">>, <<"!", "!">>, <<"!", "!", "!">>,
     <<"!", "1">>, <<"!", "1", "!", "1">>, <<"!", "1", "!", "1", "!", "1", "!", "1">>, <<"a", "!", "2", "b">>, <<"!", "0">>, <<"!", "!", "!", "1">>,
     <<"!", " ", "1">>, <<"a", "a", "a", "a", "b", "b", "!", "9">>}
SomeFiles == {<<<<>>>>, <<<<"a">>, <<>>>>, <<<<>>, <<"b">>, <<"b">>, <<>>, <<"a">>>>}
WordExit == <<"e">>
=============================================================================
