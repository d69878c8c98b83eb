------------------------------ MODULE MCIpMgmt ------------------------------
(* Constant values for model-checking IpMgmt. *)
EXTENDS IpMgmt, TLC

CONSTANTS eth, a1, a2, r1, u1, h1, h2

Symmetry == Permutations({a1, a2}) \cup Permutations({h1, h2})
=============================================================================
