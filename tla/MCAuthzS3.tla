----------------------------- MODULE MCAuthzS3 ------------------------------
(* Constant values for model-checking AuthzS3. *)
EXTENDS AuthzS3, TLC

CONSTANTS u1, ns1, ns2, src

Rule(action, exception) == [action |-> action, sources |-> (src :> exception)]

\* A namespace open but to one source, one closed but to it, one not ruled.
Policies == {Absent,
             (ns1 :> Rule("allow", "deny")) @@ (ns2 :> Rule("deny", Absent)),
             (ns1 :> Rule("deny", "allow")) @@ (ns2 :> Absent)}

\* Accounts at odds with the header that names the namespace, that header
\* and the host at odds, and a request that is not of HTTP.
Asks == [header: {u1, Absent, Broken}, query: {u1, Absent, Broken},
         emc: {ns1}, host: {Absent}, source: {src, Absent}]
        \cup [header: {Absent}, query: {Absent},
              emc: {ns1, Absent}, host: {ns2, Absent}, source: {src, Absent}]
        \cup {Absent}
=============================================================================
