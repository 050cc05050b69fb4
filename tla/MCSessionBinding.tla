---------------------------- MODULE MCSessionBinding ----------------------------
(* Instances of SessionBinding for TLC. *)
EXTENDS SessionBinding, TLC

CONSTANTS p, q, a, b, t1, t2, t3, s1, s2, s3, x

OneBot == a :> p @@ b :> q
Lanes == t1 :> a @@ t2 :> a @@ t3 :> b
Limits == p :> 1 @@ q :> 1
=============================================================================
