------------------------------ MODULE MCClients ------------------------------
(* Instance of Clients for TLC: lines and answers of a few bytes, typed     *)
(* lines below, at and above the length at which they are cut.              *)
EXTENDS Clients

CONSTANTS m1, m2, u1, u2
MCChildren == <<m1, m2>>
\* Exactly full and without a newline; cut in two; cut in front of its newline,
\* which is then a line without a word; a line and an unfinished one.
MCInputs == {<<"x", "x">>, <<"x", "x", "x", NewLine>>, <<"x", "x", NewLine>>,
             <<"x", NewLine, "x">>}
=============================================================================
