---------------------------- MODULE MCEventServer ----------------------------
(* Instance of EventServer for TLC: descriptors are fewer than the          *)
(* connections opened over time, so they and the slots are reused.          *)
EXTENDS EventServer

CONSTANTS c1, c2, c3
=============================================================================
