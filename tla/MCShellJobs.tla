----------------------------- MODULE MCShellJobs -----------------------------
(* Instance of ShellJobs for TLC.                                           *)
EXTENDS ShellJobs

\* The uninitialised mask holds nothing, or all that may interrupt a removal.
MCStackMasks == {{}, {"INT", "TSTP"}}
=============================================================================
