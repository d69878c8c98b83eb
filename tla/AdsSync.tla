------------------------------ MODULE AdsSync -------------------------------
(***************************************************************************)
(* How the management server learns what an Envoy accepted: OnStreamRequest*)
(* (src/src/main.go) writes the version of every discovery request into    *)
(* the "workers" collection, GetLiveSyncStatus (src/src/rapi/rapi.go)      *)
(* compares it with the version of the node document.                      *)
(*                                                                         *)
(* Envoy has one aggregated stream and asks for each resource type by      *)
(* itself.  A request names the version of the type that Envoy runs, so an *)
(* acknowledgement names the new one and a rejection the old one.  It asks *)
(* for endpoints and secrets by the names that the clusters and listeners  *)
(* it runs refer to.  The snapshot cache of go-control-plane (external) is *)
(* created in ADS mode (main.go:225): a request for a version that the     *)
(* snapshot does not have is answered only if it names all the snapshot    *)
(* holds of its type, and is dropped otherwise.                            *)
(***************************************************************************)
EXTENDS Naturals, Sequences, FiniteSets

CONSTANTS
    Types,          \* resource types Envoy subscribes to
    Named,          \* those it asks for by name: endpoints, secrets
    Parent,         \* the type whose resources refer to the named ones
    Names,          \* names of resources
    Contents,       \* what a version may consist of
    Faults,         \* subset of {"reject", "reconnect", "write", "restart", "reboot"}
    MaxVersion,     \* bound: changes of the configuration
    MaxFaults       \* bound: rejections, broken streams, lost writes, restarts

\* The named resources that a version refers to, and those it holds.
\* Consistent() compares them for endpoints but not for secrets.
ASSUME ContentsAssumption ==
    Contents \subseteq [refers: SUBSET Names, holds: SUBSET Names]
ASSUME TypesAssumption == Named \subseteq Types /\ Parent \in Types \ Named
ASSUME BoundsAssumption == MaxVersion \in Nat /\ MaxFaults \in Nat

VARIABLES
    node,        \* version of the node document, 0: no document
    content,     \* what the versions consist of
    dealt,       \* version main() has dealt with last
    snap,        \* version of the snapshot, 0: none
    accepted,    \* by type: the version Envoy runs
    asked,       \* pairs of a type asked for on this stream and the names
    uplink,      \* requests on the way to the server
    downlink,    \* responses on the way to Envoy
    watches,     \* requests that wait for a new snapshot
    owed,        \* types with a response that the server has no answer to
    known,       \* types with a response answered on this stream
    handling,    \* the request the stream goroutine is at
    late,        \* write of a broken stream that is still under way
    worker,      \* the workers document
    stale,       \* history: its last write was lost, or came too late
    run,         \* history: restarts of Envoy
    faults

server == <<content, dealt, snap>>
stream == <<asked, uplink, downlink, watches, owed, known>>
vars == <<node, server, accepted, stream, handling, late, worker, stale, run, faults>>

Versions == 0..MaxVersion
Asked == [type: Types, version: Versions, names: SUBSET Names,
          kind: {"ask", "ack", "nack"}]
Answered == [type: Types, version: Versions \ {0}]
\* run is history: the run of Envoy that asked.
Written == [version: Versions, rejected: BOOLEAN, run: Nat]
Nothing == [none |-> TRUE]

\* The type of every variable.
TypeOK ==
    /\ node \in Versions /\ dealt \in Versions /\ snap \in Versions
    /\ content \in [1..node -> Contents]
    /\ accepted \in [Types -> Versions]
    /\ asked \subseteq Types \X SUBSET Names
    /\ watches \subseteq Asked /\ owed \subseteq Types /\ known \subseteq Types
    /\ uplink \in Seq(Asked) /\ downlink \in Seq(Answered)
    /\ \/ handling = Nothing
       \/ handling.step \in {"write", "watch"} /\ handling.req \in Asked
    /\ late = Nothing \/ late \in Written
    /\ worker = Nothing \/ worker \in Written
    /\ stale \in BOOLEAN /\ run \in Nat /\ faults \in Nat

Fault(kind) == kind \in Faults /\ faults < MaxFaults /\ faults' = faults + 1

Refers(v) == IF v = 0 THEN {} ELSE content[v].refers
Holds(v) == IF v = 0 THEN {} ELSE content[v].holds

Init ==
    /\ node = 0 /\ content = <<>> /\ dealt = 0 /\ snap = 0
    /\ accepted = [t \in Types |-> 0]
    /\ asked = {} /\ uplink = <<>> /\ downlink = <<>> /\ watches = {}
    /\ owed = {} /\ known = {}
    /\ handling = Nothing /\ late = Nothing /\ worker = Nothing
    /\ stale = FALSE /\ run = 0 /\ faults = 0

-----------------------------------------------------------------------------
(* The control plane, as ControlPlane has it in detail *)

Change ==
    /\ node < MaxVersion
    /\ node' = node + 1
    /\ \E c \in Contents : content' = Append(content, c)
    /\ UNCHANGED <<dealt, snap, accepted, stream, handling, late, worker,
                   stale, run, faults>>

\* In ADS mode the names of a request must cover what there is.
Covers(req, v) == req.names = {} \/ Holds(v) \subseteq req.names

\* SetSnapshot ends every watch that waits for another version; those whose
\* names do not cover the snapshot go without a response.
SetSnapshot ==
    /\ dealt # node /\ dealt' = node
    /\ snap' = node
    /\ LET ended == {w \in watches : w.version # node}
           answered == {w \in ended : Covers(w, node)}
       IN  \E order \in [1..Cardinality(answered) -> answered] :
             /\ \A w \in answered : \E i \in DOMAIN order : order[i] = w
             /\ downlink' = downlink \o
                  [i \in DOMAIN order |-> [type |-> order[i].type, version |-> node]]
             /\ watches' = watches \ ended
             /\ owed' = owed \cup {w.type : w \in answered}
    /\ UNCHANGED <<node, content, accepted, asked, uplink, known, handling,
                   late, worker, stale, run, faults>>

\* The snapshot is inconsistent, a read of LoadNode fails or the change
\* falls between Find and Watch: the version never reaches the cache.
PassOver ==
    /\ dealt # node /\ dealt' = node
    /\ UNCHANGED <<node, content, snap, accepted, stream, handling, late,
                   worker, stale, run, faults>>

-----------------------------------------------------------------------------
(* Envoy *)

\* The names of a type that Envoy asks for.
NamesOf(t) == IF t \in Named THEN Refers(accepted[Parent]) ELSE {}

Ask(t, version, kind) ==
    /\ uplink' = Append(uplink, [type |-> t, version |-> version,
                                 names |-> NamesOf(t), kind |-> kind])
    /\ asked' = {p \in asked : p[1] # t} \cup {<<t, NamesOf(t)>>}

\* Envoy asks for a type that is new on the stream, or by other names than
\* before; for named resources only while something refers to them.
Subscribe ==
    /\ \E t \in Types :
         /\ t \in Named => NamesOf(t) # {}
         /\ <<t, NamesOf(t)>> \notin asked
         /\ Ask(t, accepted[t], "ask")
    /\ UNCHANGED <<node, server, accepted, downlink, watches, owed, known,
                   handling, late, worker, stale, run, faults>>

Apply ==
    /\ downlink # <<>> /\ downlink' = Tail(downlink)
    /\ LET t == Head(downlink).type
           v == Head(downlink).version
       IN  \/ /\ accepted' = [accepted EXCEPT ![t] = v] /\ Ask(t, v, "ack")
              /\ UNCHANGED faults
           \/ /\ Fault("reject")
              /\ UNCHANGED accepted /\ Ask(t, accepted[t], "nack")
    /\ UNCHANGED <<node, server, watches, owed, known, handling, late, worker,
                   stale, run>>

\* Mutants: the version served instead of the one accepted; the first one;
\* of a rejection only its error.
RecordServed(req) == [version |-> snap, rejected |-> req.kind = "nack", run |-> run]
RecordFirst(req) ==
    IF worker # Nothing THEN worker
    ELSE [version |-> req.version, rejected |-> req.kind = "nack", run |-> run]
RecordStatus(req) ==
    IF req.kind = "nack" THEN [rejected |-> TRUE, run |-> run]
    ELSE [version |-> req.version, rejected |-> FALSE, run |-> run]

\* What OnStreamRequest writes.
Record(req) == [version |-> req.version, rejected |-> req.kind = "nack", run |-> run]

\* The stream ends; the write that the server is at goes on without it.
StreamEnds ==
    /\ late = Nothing
    /\ asked' = {} /\ uplink' = <<>> /\ downlink' = <<>> /\ watches' = {}
    /\ owed' = {} /\ known' = {} /\ handling' = Nothing
    /\ late' = IF handling # Nothing /\ handling.step = "write"
               THEN Record(handling.req)
               ELSE Nothing

Reconnect ==
    /\ Fault("reconnect") /\ StreamEnds
    /\ UNCHANGED <<node, server, accepted, worker, stale, run>>

\* Envoy starts again and runs nothing.
Restart ==
    /\ Fault("restart") /\ StreamEnds
    /\ accepted' = [t \in Types |-> 0] /\ run' = run + 1
    /\ UNCHANGED <<node, server, worker, stale>>

\* The management server starts again, its cache is empty and main() deals
\* with the node anew.
Reboot ==
    /\ Fault("reboot") /\ StreamEnds
    /\ snap' = 0 /\ dealt' = 0
    /\ UNCHANGED <<node, content, accepted, worker, stale, run>>

-----------------------------------------------------------------------------
(* The stream goroutine *)

Receive ==
    /\ handling = Nothing /\ uplink # <<>>
    /\ handling' = [step |-> "write", req |-> Head(uplink)]
    /\ uplink' = Tail(uplink)
    /\ UNCHANGED <<node, server, accepted, asked, downlink, watches, owed,
                   known, late, worker, stale, run, faults>>

\* The request may be for any type; the document is the same. An error of
\* the database is ignored.
OnStreamRequest ==
    /\ handling # Nothing /\ handling.step = "write"
    /\ handling' = [handling EXCEPT !.step = "watch"]
    /\ \/ /\ worker' = Record(handling.req)
          /\ stale' = FALSE
          /\ UNCHANGED faults
       \/ Fault("write") /\ stale' = TRUE /\ UNCHANGED worker
    /\ UNCHANGED <<node, server, accepted, stream, late, run>>

LateWrite ==
    /\ late # Nothing
    /\ worker' = late /\ stale' = TRUE
    /\ late' = Nothing
    /\ UNCHANGED <<node, server, accepted, stream, handling, run, faults>>

\* Envoy asked before it had the last response: the nonce is an old one.
Outdated(req) == req.kind = "ask" /\ req.type \in owed

\* There is another version, or on a new stream something asked for by name.
Due(req) == /\ snap # 0
            /\ \/ req.version # snap
               \/ /\ req.type \notin known /\ req.kind = "ask"
                  /\ req.names \cap Holds(snap) # {}

CreateWatch ==
    /\ handling # Nothing /\ handling.step = "watch"
    /\ handling' = Nothing
    /\ LET req == handling.req
           others == {w \in watches : w.type # req.type}
       IN  \/ Outdated(req) /\ UNCHANGED <<downlink, watches, owed, known>>
           \/ /\ ~Outdated(req)
              /\ known' = IF req.kind = "ask" THEN known ELSE known \cup {req.type}
              /\ \/ /\ ~Due(req)
                    /\ watches' = others \cup {req} /\ owed' = owed \ {req.type}
                    /\ UNCHANGED downlink
                 \/ /\ Due(req) /\ Covers(req, snap)
                    /\ downlink' = Append(downlink, [type |-> req.type, version |-> snap])
                    /\ watches' = others /\ owed' = owed \cup {req.type}
                 \/ /\ Due(req) /\ ~Covers(req, snap)
                    /\ watches' = others /\ owed' = owed \ {req.type}
                    /\ UNCHANGED downlink
    /\ UNCHANGED <<node, server, accepted, asked, uplink, late, worker, stale,
                   run, faults>>

Step == \/ SetSnapshot \/ PassOver \/ Subscribe \/ Apply
        \/ Receive \/ OnStreamRequest \/ LateWrite \/ CreateWatch

Next == Step \/ Change \/ Reconnect \/ Restart \/ Reboot

Spec == Init /\ [][Next]_vars

\* Server and Envoy go on as long as there is something to do; nobody has to
\* change the configuration and no stream has to break.
FairSpec == Spec /\ WF_vars(Step)

-----------------------------------------------------------------------------
(* What GetLiveSyncStatus reports *)

Synced == node # 0 /\ worker # Nothing /\ worker.version = node

(* Properties *)

\* "synced" means that Envoy runs the configuration of the node document.
SyncedMeansApplied == Synced => \A t \in Types : accepted[t] = node

\* What is reported is never ahead of Envoy: the run of Envoy that asked
\* took at least one type of the version in the workers document, whatever
\* it rejects, however streams break and writes are late.
NeverAheadOfEnvoy ==
    worker # Nothing /\ worker.run = run
        => worker.version = 0 \/ \E t \in Types : accepted[t] >= worker.version

\* When changes and faults come to an end, the workers document has the
\* version of the cache for good, so that "synced" is reported if and only
\* if the cache has the node's; or the last write was lost or came too late;
\* or the snapshot holds named resources that nothing in it refers to, which
\* are never asked for, so that the type goes without a response.
Convergence ==
    <>[](\/ snap = 0 \/ stale
         \/ worker # Nothing /\ worker.version = snap
         \/ Named # {} /\ ~(Holds(snap) \subseteq Refers(snap)))
=============================================================================
