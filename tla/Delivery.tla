------------------------------ MODULE Delivery ------------------------------
(***************************************************************************)
(* What the management server promises, without how: every node has a      *)
(* configuration that clients edit, a version stamped on it after edits,   *)
(* and possibly a delivery, a configuration handed to the xDS cache under  *)
(* a version.  ControlPlane implements this specification with handlers,   *)
(* collections, a change stream and loads that take several queries.       *)
(***************************************************************************)
EXTENDS Naturals

CONSTANTS
    Nodes,       \* node ids
    Configs,     \* what a node can be configured to
    EmptyConfig  \* the configuration of a node nobody configured

VARIABLES
    config,    \* the configuration of every node
    version,   \* its version; 0: none
    edited,    \* the configuration changed after that version
    split,     \* the node is known under several versions
    clock,     \* the youngest version of all
    delivery   \* what the cache serves for every node

vars == <<config, version, edited, split, clock, delivery>>

Nothing == [served |-> FALSE, version |-> 0, intact |-> TRUE,
            docs |-> EmptyConfig]

Init ==
    /\ config = [n \in Nodes |-> EmptyConfig]
    /\ version = [n \in Nodes |-> 0]
    /\ edited = [n \in Nodes |-> FALSE]
    /\ split = [n \in Nodes |-> FALSE]
    /\ clock = 0
    /\ delivery = [n \in Nodes |-> Nothing]

\* A client changes the configuration of n.
Edit(n) ==
    /\ UNCHANGED <<version, split, clock, delivery>>
    /\ edited' = [edited EXCEPT ![n] = TRUE]
    /\ \E c \in Configs : config' = [config EXCEPT ![n] = c]

\* A node is split, for good, by versions that are made at the same time.
MaySplit(n) == split' \in {split, [split EXCEPT ![n] = TRUE]}

\* The configuration of n gets a version that no node had before.
Stamp(n) ==
    /\ clock' = clock + 1
    /\ version' = [version EXCEPT ![n] = clock']
    /\ edited' = [edited EXCEPT ![n] = FALSE]
    /\ MaySplit(n)
    /\ UNCHANGED <<config, delivery>>

\* The clock is used for something else about n.
Tick(n) ==
    /\ clock' = clock + 1
    /\ MaySplit(n)
    /\ UNCHANGED <<config, version, edited, delivery>>

\* The deliveries n may be given next. Under its last version it gets its
\* present configuration, unless a part of it could not be read or it is
\* being edited; under an older one it may get a mixture, but never, if it is
\* not split, once a younger one was delivered. Version 0 stands for "not yet
\* configured".
Deliverable(n) ==
    {d \in [served: {TRUE}, version: 0..clock, intact: BOOLEAN, docs: Configs] :
        /\ d.version <= version[n]
        /\ delivery[n].served /\ d.version # 0 /\ ~split[n]
             => d.version >= delivery[n].version
        /\ d.version = version[n] /\ version[n] # 0 /\ d.intact /\ ~edited[n]
             => d.docs = config[n]}

Deliver(n) ==
    /\ UNCHANGED <<config, version, edited, split, clock>>
    /\ delivery'[n] \in Deliverable(n)
    /\ delivery' = [delivery EXCEPT ![n] = delivery'[n]]

\* The cache is lost.
Restart ==
    /\ delivery' = [n \in Nodes |-> Nothing]
    /\ UNCHANGED <<config, version, edited, split, clock>>

Next ==
    \/ \E n \in Nodes : Edit(n) \/ Stamp(n) \/ Tick(n) \/ Deliver(n)
    \/ Restart

Spec == Init /\ [][Next]_vars
=============================================================================
