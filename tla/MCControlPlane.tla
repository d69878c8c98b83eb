--------------------------- MODULE MCControlPlane ---------------------------
(* Constant values for model-checking ControlPlane. *)
EXTENDS ControlPlane, TLC

Puts == {"PutConfigListeners", "PutConfigClusters", "PutConfigEndpoints"}
Deletes == {"DeleteConfigListeners", "DeleteConfigClusters",
            "DeleteConfigEndpoints", "DeleteConfigNodes"}
AllOperations ==
    Puts \cup Deletes \cup {"PutConfigEndpointsNamed", "PutConfigSecrets",
                            "DeleteConfigSecrets", "PutConfigNode"}

\* Enough to make a configuration, change it and delete the node.
Churn == {"PutConfigClusters", "PutConfigEndpoints", "DeleteConfigClusters",
          "DeleteConfigNodes", "PutConfigNode"}

\* Nothing tells two handlers, two payloads or two nodes apart.
Permuted == Permutations(Handlers) \cup Permutations(Payloads)
              \cup Permutations(Nodes)
=============================================================================
