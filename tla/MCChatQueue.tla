------------------------------ MODULE MCChatQueue ------------------------------
(* Instances of ChatQueue for TLC. *)
EXTENDS ChatQueue

CONSTANTS a, b, t1, t2, t3, n1, n2
=============================================================================
