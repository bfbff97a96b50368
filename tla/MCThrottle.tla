----------------------------- MODULE MCThrottle -----------------------------
(***************************************************************************)
(* Instances of Throttle small enough for TLC: two throttles that share a  *)
(* file, and one with a minimum.                                           *)
(***************************************************************************)
EXTENDS Throttle, TLC

CONSTANTS t1, t2, t3, c1, c2

ThreeThrottles == {t1, t2, t3}
Limits == (t1 :> 8) @@ (t2 :> 1) @@ (t3 :> 8)
Minima == (t1 :> 0) @@ (t2 :> 0) @@ (t3 :> 1)
Files == {{t1}, {t1, t2}, {t3}}
TwoClients == {c1, c2}

Symmetric == Permutations(TwoClients)
=============================================================================
