----------------------------- MODULE MCAdsSync ------------------------------
(* Constant values for model-checking AdsSync. *)
EXTENDS AdsSync

CONSTANTS lds, sds, a, b

\* Listeners that refer to one secret or to two, and a secret that none
\* refers to.
Narrow == [refers |-> {a}, holds |-> {a}]
Wider == [refers |-> {a, b}, holds |-> {a, b}]
Unreferred == [refers |-> {a}, holds |-> {a, b}]
AnyContents == {Narrow, Wider, Unreferred}
=============================================================================
