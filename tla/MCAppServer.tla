----------------------------- MODULE MCAppServer -----------------------------
(* The instance of AppServer that TLC checks; the cfg files give the constants. *)
EXTENDS AppServer

CONSTANTS g1, g2, k
=============================================================================
