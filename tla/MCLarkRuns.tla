----------------------------- MODULE MCLarkRuns -----------------------------
(* The instance of LarkRuns that TLC checks; the cfg files give the constants. *)
EXTENDS LarkRuns

CONSTANTS c1
=============================================================================
