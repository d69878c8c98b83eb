--------------------------- MODULE MCConfigWatch ----------------------------
(* Constant values for model-checking ConfigWatch. *)
EXTENDS ConfigWatch, TLC

\* What the processes follow.
Followed ==
    "ratelimit" :> {"create", "delete"} @@ "authzs3" :> {"create", "change"}
      @@ "authz" :> {"create", "change"}

\* Changing a rate limit.
Changing == "ratelimit" :> {"create", "change", "delete"}
=============================================================================
