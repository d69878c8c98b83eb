---------------------------- MODULE MCRateLimit -----------------------------
(* Constant values for model-checking RateLimit. *)
EXTENDS RateLimit, TLC

CONSTANTS d1, d2, e1

Limit(n, u) == [limit |-> n, unit |-> u]

\* Two domains limit the same entry, in windows of two seconds; the second
\* configuration has another unit for one of them.
Both(u) == (d1 :> (e1 :> Limit(1, 2))) @@ (d2 :> (e1 :> Limit(2, u)))
Policies == {Both(2), Both(1)}

\* One request counts the entry twice, by two descriptors.
Ask(d, ds, n) == [domain |-> d, descriptors |-> ds, hits |-> n]
Asks == {Ask(d1, <<<<e1>>, <<e1>>>>, 0), Ask(d2, <<<<e1>>>>, 1)}

Permuted == Permutations(Handlers) \cup Permutations(Replicas)
=============================================================================
