---------------------------- MODULE ControlPlane ----------------------------
(***************************************************************************)
(* The management server (src/src/main.go, src/src/loader, the             *)
(* configuration handlers of src/src/rapi): REST handlers write the        *)
(* configuration of a node into four MongoDB collections and then give the *)
(* node document a new version; one goroutine follows the change stream of *)
(* the "nodes" collection, reloads the node and installs a snapshot in the *)
(* xDS cache.                                                              *)
(*                                                                         *)
(* Every MongoDB call of a handler is a step of its own, so handlers       *)
(* interleave with one another and with the four reads of LoadNode.        *)
(***************************************************************************)
EXTENDS Naturals, Sequences

CONSTANTS
    Nodes,        \* node ids (at least two characters long, see rapi.go:535)
    Names,        \* names of listeners, clusters, endpoint sets, secrets
    Payloads,     \* what a document says besides its name
    Handlers,     \* goroutines that serve REST requests
    Operations,   \* the REST operations the clients use
    Faults,       \* what may go wrong: subset of {"write", "read", "crash"}
    NoDoc,        \* no document of that name in a collection
    MaxRequests,  \* bound: REST requests in a behaviour
    MaxCrashes    \* bound: crashes of the server in a behaviour

ASSUME NoDocAssumption == \A d \in SUBSET Payloads : NoDoc # d
ASSUME BoundsAssumption == MaxRequests \in Nat /\ MaxCrashes \in Nat

Collections == {"listeners", "clusters", "endpoints", "secrets"}

\* The order in which LoadNode queries the collections.
ReadOrder == <<"listeners", "clusters", "endpoints", "secrets">>

\* The body of a document is the set of the payloads it holds: one for a
\* listener, a cluster or a secret, the lbEndpoints of an endpoint set.
Docs == SUBSET Payloads
Contents == [Names -> {NoDoc} \cup Docs]
Empty == [x \in Names |-> NoDoc]
Configs == [Collections -> Contents]
EmptyConfig == [c \in Collections |-> Empty]

VARIABLES
    store,      \* MongoDB: the four collections, by node
    nodes,      \* MongoDB: the node documents; version 0: no "version"
    uuids,      \* ids and versions handed out (uuid.New, ObjectID)
    req,        \* the request each handler is serving, and how far it is
    requests,   \* REST requests received so far
    mpc,        \* where main() is
    todo,       \* node documents the initial Find returned, still to load
    load,       \* locals of loadNodeConfig and LoadNode
    snap,       \* the snapshot cache, by node
    streaming,  \* the change stream on "nodes" is open
    events,     \* changes of "nodes" not yet taken from the stream
    crashes,    \* crashes so far
    dirty,      \* history: store[n] changed after the last version of n
    stamped,    \* history: the last version given to a document of n
    broken,     \* history: since then a request for n ended in an error
    doubled,    \* history: n has had two node documents at once
    missed      \* history: main() missed a change of n

dbVars == <<store, nodes, uuids, dirty, stamped, broken, doubled>>
reqVars == <<req, requests>>
mainVars == <<mpc, todo, load, snap>>
streamVars == <<streaming, events, missed>>
vars == <<dbVars, reqVars, mainVars, streamVars, crashes>>

-----------------------------------------------------------------------------
(* Types and initial state *)

Steps == {"find", "replace", "delete", "endpoints", "deleteMany", "node",
          "address", "insertAddress", "version", "insertVersion"}

\* A document of the "nodes" collection. No index makes their names unique.
NodeDocs == [id: Nat, node: Nodes, version: Nat]

\* The locals of a REST handler.
Requests == [pc: Steps, node: Nodes, coll: Collections, name: Names,
             body: Docs]
Loads == [node: Nodes, version: Nat, step: 1..5, intact: BOOLEAN,
          docs: Configs]
Snapshots == [served: BOOLEAN, version: Nat, intact: BOOLEAN, docs: Configs]
Events == [type: {"insert", "update", "delete"}, id: Nat]

NoSnapshot == [served |-> FALSE, version |-> 0, intact |-> TRUE,
               docs |-> EmptyConfig]
Idle == [pc |-> "idle"]
NoLoad == [step |-> 0]
\* Mutant: the snapshot is to get the youngest version there is, whosever.
BegunYoungest(n, v) == [node |-> n, version |-> uuids, step |-> 1,
                        intact |-> TRUE, docs |-> EmptyConfig]
Begun(n, v) == [node |-> n, version |-> v, step |-> 1, intact |-> TRUE,
                docs |-> EmptyConfig]

\* The type of every variable.
TypeOK ==
    /\ store \in [Nodes -> Configs]
    /\ nodes \subseteq NodeDocs
    /\ uuids \in Nat
    /\ req \in [Handlers -> {Idle} \cup Requests]
    /\ requests \in Nat
    /\ mpc \in {"down", "find", "boot", "load", "idle"}
    /\ todo \subseteq NodeDocs
    /\ IF mpc = "load" THEN load \in Loads ELSE load = NoLoad
    /\ snap \in [Nodes -> Snapshots]
    /\ streaming \in BOOLEAN
    /\ events \in Seq(Events)
    /\ crashes \in Nat
    /\ dirty \in [Nodes -> BOOLEAN]
    /\ stamped \in [Nodes -> Nat]
    /\ broken \in [Nodes -> BOOLEAN]
    /\ doubled \in [Nodes -> BOOLEAN]
    /\ missed \in [Nodes -> BOOLEAN]

Init ==
    /\ store = [n \in Nodes |-> EmptyConfig]
    /\ nodes = {}
    /\ uuids = 0
    /\ req = [h \in Handlers |-> Idle]
    /\ requests = 0
    /\ mpc = "down"
    /\ todo = {}
    /\ load = NoLoad
    /\ snap = [n \in Nodes |-> NoSnapshot]
    /\ streaming = FALSE
    /\ events = <<>>
    /\ crashes = 0
    /\ dirty = [n \in Nodes |-> FALSE]
    /\ stamped = [n \in Nodes |-> 0]
    /\ broken = [n \in Nodes |-> FALSE]
    /\ doubled = [n \in Nodes |-> FALSE]
    /\ missed = [n \in Nodes |-> FALSE]

-----------------------------------------------------------------------------
(* REST requests: validation and routing, up to the first database call *)

Begin(h, op, pc, coll, bodies) ==
    /\ op \in Operations
    /\ mpc # "down"
    /\ req[h] = Idle
    /\ requests < MaxRequests
    /\ requests' = requests + 1
    /\ \E n \in Nodes, x \in Names, b \in bodies :
         req' = [req EXCEPT ![h] = [pc |-> pc, node |-> n, coll |-> coll,
                                    name |-> x, body |-> b]]
    /\ UNCHANGED <<dbVars, mainVars, streamVars, crashes>>

Single == {{p} : p \in Payloads}

PutConfigListeners(h) ==
    Begin(h, "PutConfigListeners", "replace", "listeners", Single)
PutConfigClusters(h) ==
    Begin(h, "PutConfigClusters", "replace", "clusters", Single)
PutConfigSecrets(h) ==
    Begin(h, "PutConfigSecrets", "replace", "secrets", Single)
PutConfigEndpoints(h) ==
    Begin(h, "PutConfigEndpoints", "find", "endpoints", Single)
PutConfigEndpointsNamed(h) ==
    Begin(h, "PutConfigEndpointsNamed", "replace", "endpoints", Docs \ {{}})
\* Despite its name it replaces the endpoints by the body; nothing checks
\* that the body has any.
DeleteConfigEndpoints(h) ==
    Begin(h, "DeleteConfigEndpoints", "replace", "endpoints", Docs)
DeleteConfigListeners(h) ==
    Begin(h, "DeleteConfigListeners", "delete", "listeners", {{}})
DeleteConfigClusters(h) ==
    Begin(h, "DeleteConfigClusters", "delete", "clusters", {{}})
DeleteConfigSecrets(h) ==
    Begin(h, "DeleteConfigSecrets", "delete", "secrets", {{}})
DeleteConfigNodes(h) ==
    Begin(h, "DeleteConfigNodes", "deleteMany", "listeners", {{}})
PutConfigNode(h) ==
    Begin(h, "PutConfigNode", "address", "listeners", {{}})

-----------------------------------------------------------------------------
(* The database calls of the handlers *)

At(h, pc) == mpc # "down" /\ req[h].pc = pc
Goto(h, pc) == req' = [req EXCEPT ![h].pc = pc]
Return(h) == req' = [req EXCEPT ![h] = Idle]

\* An error makes the handler answer 400 and return.
Fail(h) ==
    /\ "write" \in Faults
    /\ Return(h)
    /\ broken' = [broken EXCEPT ![req[h].node] = TRUE]

Apply(n, config) ==
    /\ store' = [store EXCEPT ![n] = config]
    /\ dirty' = [dirty EXCEPT ![n] = @ \/ config # store[n]]

\* A write of the collections. On a timeout it may have been applied or not.
Write(h, config, next) ==
    /\ \/ /\ Apply(req[h].node, config)
          /\ \/ next /\ UNCHANGED broken
             \/ Fail(h)
       \/ Fail(h) /\ UNCHANGED <<store, dirty>>
    /\ UNCHANGED <<nodes, uuids, stamped, doubled, requests, mainVars,
                   streamVars, crashes>>

With(config, c, x, doc) == [config EXCEPT ![c] = [@ EXCEPT ![x] = doc]]

\* The change stream sees every change of "nodes" made while it is open.
\* What happens between the initial Find and Watch is lost.
Emit(n, type, id) ==
    /\ events' = IF streaming THEN Append(events, [type |-> type, id |-> id])
                              ELSE events
    /\ missed' = [missed EXCEPT
                    ![n] = @ \/ (~streaming /\ mpc \in {"boot", "load"})]
    /\ UNCHANGED streaming

DocsOf(n) == {d \in nodes : d.node = n}

\* Mutant: the document is replaced, not updated.
ReplacesDocument(d, v) ==
    /\ nodes' = (nodes \ {d}) \cup {[d EXCEPT !.version = v]}
    /\ Emit(d.node, "replace", d.id)
    /\ UNCHANGED doubled

\* UpdateOne on a document it found.
UpdatesDocument(d, v) ==
    /\ nodes' = (nodes \ {d}) \cup {[d EXCEPT !.version = v]}
    /\ Emit(d.node, "update", d.id)
    /\ UNCHANGED doubled

\* UpdateOne with upsert inserts if it found none; another may have done so
\* in the meantime.
InsertsDocument(n, v) ==
    /\ nodes' = nodes \cup {[id |-> uuids + 1, node |-> n, version |-> v]}
    /\ Emit(n, "insert", uuids + 1)
    /\ doubled' = [doubled EXCEPT ![n] = @ \/ DocsOf(n) # {}]

\* Mutant: the version is derived from the contents.
DerivedVersion(n) == IF store[n]["listeners"] = Empty THEN 1 ELSE 2

\* uuid.New: a version no node had before.
NewVersion(n) == uuids + 1

\* PutConfigEndpoints appends to what it finds; an error counts as "absent".
FindOne(h) ==
    /\ At(h, "find")
    /\ LET found == store[req[h].node]["endpoints"][req[h].name]
       IN  \/ /\ found # NoDoc
              /\ req' = [req EXCEPT ![h].pc = "replace",
                                    ![h].body = @ \cup found]
           \/ /\ found = NoDoc \/ "read" \in Faults
              /\ Goto(h, "replace")
    /\ UNCHANGED <<dbVars, requests, mainVars, streamVars, crashes>>

ReplaceOne(h) ==
    /\ At(h, "replace")
    /\ LET r == req[h]
       IN  Write(h, With(store[r.node], r.coll, r.name, r.body),
                 Goto(h, "version"))

DeleteOne(h) ==
    /\ At(h, "delete")
    /\ LET r == req[h]
       IN  Write(h, With(store[r.node], r.coll, r.name, NoDoc),
                 Goto(h, IF r.coll = "clusters" THEN "endpoints"
                                                ELSE "version"))

\* Mutant: deleting the endpoints is the last step.
DeleteEndpointsSilently(h) ==
    /\ At(h, "endpoints")
    /\ LET r == req[h]
       IN  Write(h, With(store[r.node], "endpoints", r.name, NoDoc), Return(h))

\* Deleting a cluster deletes its endpoints.
DeleteEndpoints(h) ==
    /\ At(h, "endpoints")
    /\ LET r == req[h]
       IN  Write(h, With(store[r.node], "endpoints", r.name, NoDoc),
                 Goto(h, "version"))

\* DeleteConfigNodes empties listeners, clusters and endpoints: no secrets.
DeleteMany(h) ==
    /\ At(h, "deleteMany")
    /\ LET r == req[h]
           next == IF r.coll = "listeners" THEN "clusters" ELSE "endpoints"
       IN  Write(h, [store[r.node] EXCEPT ![r.coll] = Empty],
                 IF r.coll = "endpoints"
                 THEN Goto(h, "node")
                 ELSE req' = [req EXCEPT ![h].coll = next])

\* DeleteOne deletes one document of the node, if there is any.
DeleteNode(h) ==
    /\ At(h, "node")
    /\ LET n == req[h].node
           delete == \/ \E d \in DocsOf(n) :
                          nodes' = nodes \ {d} /\ Emit(n, "delete", d.id)
                     \/ /\ DocsOf(n) = {}
                        /\ UNCHANGED <<nodes, streamVars>>
       IN  \/ delete /\ Return(h) /\ UNCHANGED broken
           \/ delete /\ Fail(h)
           \/ Fail(h) /\ UNCHANGED <<nodes, streamVars>>
    /\ UNCHANGED <<store, uuids, dirty, stamped, doubled, requests, mainVars,
                   crashes>>

\* PutConfigNode sets the address alone; setting the same address again is
\* no change and raises no event.
UpdateAddress(h) ==
    /\ At(h, "address")
    /\ LET n == req[h].node
           update == \E d \in DocsOf(n) :
                       \/ UpdatesDocument(d, d.version)
                       \/ UNCHANGED <<nodes, doubled, streamVars>>
       IN  \/ update /\ Return(h) /\ UNCHANGED broken
           \/ update /\ Fail(h)
           \/ /\ DocsOf(n) = {} /\ Goto(h, "insertAddress")
              /\ UNCHANGED <<nodes, doubled, broken, streamVars>>
           \/ Fail(h) /\ UNCHANGED <<nodes, doubled, streamVars>>
    /\ UNCHANGED <<store, uuids, dirty, stamped, requests, mainVars, crashes>>

InsertAddress(h) ==
    /\ At(h, "insertAddress")
    /\ LET insert == InsertsDocument(req[h].node, 0) /\ uuids' = uuids + 1
       IN  \/ insert /\ Return(h) /\ UNCHANGED broken
           \/ insert /\ Fail(h)
           \/ Fail(h) /\ UNCHANGED <<nodes, uuids, doubled, streamVars>>
    /\ UNCHANGED <<store, dirty, stamped, requests, mainVars, crashes>>

\* A version given to a document of n, and how the request goes on.
Stamp(h, n) ==
    /\ uuids' = uuids + 1
    /\ stamped' = [stamped EXCEPT ![n] = NewVersion(n)]
    /\ dirty' = [dirty EXCEPT ![n] = FALSE]
    /\ \/ Return(h) /\ broken' = [broken EXCEPT ![n] = FALSE]
       \/ Fail(h)

\* The last call of every change of the collections: a fresh version.
UpdateVersion(h) ==
    /\ At(h, "version")
    /\ LET n == req[h].node
       IN  \/ /\ \E d \in DocsOf(n) : UpdatesDocument(d, NewVersion(n))
              /\ Stamp(h, n)
           \/ /\ \/ DocsOf(n) = {} /\ Goto(h, "insertVersion") /\ UNCHANGED broken
                 \/ Fail(h)
              /\ UNCHANGED <<nodes, uuids, dirty, stamped, doubled, streamVars>>
    /\ UNCHANGED <<store, requests, mainVars, crashes>>

InsertVersion(h) ==
    /\ At(h, "insertVersion")
    /\ LET n == req[h].node
       IN  \/ InsertsDocument(n, NewVersion(n)) /\ Stamp(h, n)
           \/ /\ Fail(h)
              /\ UNCHANGED <<nodes, uuids, dirty, stamped, doubled, streamVars>>
    /\ UNCHANGED <<store, requests, mainVars, crashes>>

-----------------------------------------------------------------------------
(* main(): the initial load, then the change stream *)

Start ==
    /\ mpc = "down"
    /\ mpc' = "find"
    /\ UNCHANGED <<dbVars, reqVars, todo, load, snap, streamVars, crashes>>

\* A cursor that fails, at once or on the way, ends the loop silently.
FindNodes ==
    /\ mpc = "find"
    /\ mpc' = "boot"
    /\ todo' \in SUBSET nodes
    /\ todo' = nodes \/ "read" \in Faults
    /\ missed' = [n \in Nodes |-> ~ DocsOf(n) \subseteq todo']
    /\ UNCHANGED <<dbVars, reqVars, load, snap, streaming, events, crashes>>

BootNext ==
    /\ mpc = "boot"
    /\ \E d \in todo :
         /\ todo' = todo \ {d}
         /\ load' = Begun(d.node, d.version)
    /\ mpc' = "load"
    /\ UNCHANGED <<dbVars, reqVars, snap, streamVars, crashes>>

Watch ==
    /\ mpc = "boot" /\ todo = {}
    /\ mpc' = "idle"
    /\ streaming' = TRUE
    /\ UNCHANGED <<dbVars, reqVars, todo, load, snap, events, missed, crashes>>

\* One turn of the change stream loop: the event names a document by _id,
\* the document is looked up as it is now.
NextEvent ==
    /\ mpc = "idle" /\ events # <<>>
    /\ events' = Tail(events)
    /\ \/ \E d \in nodes :
            /\ Head(events).type \in {"insert", "update"}
            /\ Head(events).id = d.id
            /\ \/ /\ load' = Begun(d.node, d.version)
                  /\ mpc' = "load"
                  /\ missed' = [missed EXCEPT ![d.node] = FALSE]
               \/ /\ "read" \in Faults
                  /\ missed' = [missed EXCEPT ![d.node] = TRUE]
                  /\ UNCHANGED <<load, mpc>>
       \/ /\ \/ Head(events).type \notin {"insert", "update"}
             \/ \A d \in nodes : Head(events).id # d.id
          /\ UNCHANGED <<load, mpc, missed>>
    /\ UNCHANGED <<dbVars, reqVars, todo, snap, streaming, crashes>>

\* LoadNode reads one collection; an error leaves the result short, and
\* LoadNode reports none.
ReadCollection ==
    /\ mpc = "load" /\ load.step < 5
    /\ LET c == ReadOrder[load.step]
           found == store[load.node][c]
       IN  \E lost \in SUBSET {x \in Names : found[x] # NoDoc} :
             /\ lost = {} \/ "read" \in Faults
             /\ load' = [load EXCEPT
                  !.step = @ + 1,
                  !.intact = @ /\ lost = {},
                  !.docs = [@ EXCEPT ![c] =
                     [x \in Names |-> IF x \in lost THEN NoDoc ELSE found[x]]]]
             /\ missed' = [missed EXCEPT ![load.node] = @ \/ lost # {}]
    /\ UNCHANGED <<dbVars, reqVars, mpc, todo, snap, streaming, events, crashes>>

\* parseCluster makes every cluster an EDS cluster that refers to endpoints
\* by its own name; parseEndpoint names endpoints by their cluster.
EdsNames(config) == {x \in Names : config["clusters"][x] # NoDoc}
EndpointNames(config) == {x \in Names : config["endpoints"][x] # NoDoc}

\* Snapshot.Consistent: the endpoint sets are exactly those referred to.
Consistent(config) == EdsNames(config) = EndpointNames(config)

\* Mutant: the snapshot is stamped with the version of the moment.
PublishLatest ==
    /\ mpc = "load" /\ load.step = 5
    /\ snap' = IF Consistent(load.docs)
               THEN [snap EXCEPT ![load.node] =
                      [served |-> TRUE, version |-> stamped[load.node],
                       intact |-> load.intact, docs |-> load.docs]]
               ELSE snap
    /\ mpc' = IF streaming THEN "idle" ELSE "boot"
    /\ load' = NoLoad
    /\ UNCHANGED <<dbVars, reqVars, todo, streamVars, crashes>>

Publish ==
    /\ mpc = "load" /\ load.step = 5
    /\ snap' = IF Consistent(load.docs)
               THEN [snap EXCEPT ![load.node] =
                      [served |-> TRUE, version |-> load.version,
                       intact |-> load.intact, docs |-> load.docs]]
               ELSE snap
    /\ mpc' = IF streaming THEN "idle" ELSE "boot"
    /\ load' = NoLoad
    /\ UNCHANGED <<dbVars, reqVars, todo, streamVars, crashes>>

\* The process ends; requests are cut short, what it had in memory is lost.
Crash ==
    /\ "crash" \in Faults /\ mpc # "down" /\ crashes < MaxCrashes
    /\ crashes' = crashes + 1
    /\ mpc' = "down"
    /\ broken' = [n \in Nodes |-> broken[n] \/
                    \E h \in Handlers : req[h] # Idle /\ req[h].node = n]
    /\ req' = [h \in Handlers |-> Idle]
    /\ todo' = {}
    /\ snap' = [n \in Nodes |-> NoSnapshot]
    /\ streaming' = FALSE
    /\ events' = <<>>
    /\ missed' = [n \in Nodes |-> FALSE]
    /\ load' = NoLoad
    /\ UNCHANGED <<store, nodes, uuids, dirty, stamped, doubled, requests>>

-----------------------------------------------------------------------------
Receive(h) ==
    \/ PutConfigListeners(h) \/ PutConfigClusters(h) \/ PutConfigSecrets(h)
    \/ PutConfigEndpoints(h) \/ PutConfigEndpointsNamed(h)
    \/ DeleteConfigListeners(h) \/ DeleteConfigClusters(h)
    \/ DeleteConfigSecrets(h) \/ DeleteConfigEndpoints(h)
    \/ DeleteConfigNodes(h) \/ PutConfigNode(h)

Serve(h) ==
    \/ FindOne(h) \/ ReplaceOne(h) \/ DeleteOne(h) \/ DeleteEndpoints(h)
    \/ DeleteMany(h) \/ DeleteNode(h)
    \/ UpdateAddress(h) \/ InsertAddress(h)
    \/ UpdateVersion(h) \/ InsertVersion(h)

Main == FindNodes \/ BootNext \/ Watch \/ NextEvent \/ ReadCollection \/ Publish

Next ==
    \/ \E h \in Handlers : Receive(h) \/ Serve(h)
    \/ Main
    \/ Start
    \/ Crash

Spec == Init /\ [][Next]_vars

\* Database calls return or time out, and the goroutines run. Clients need
\* not send anything and nobody has to start the server.
Fairness == WF_vars(Main) /\ \A h \in Handlers : WF_vars(Serve(h))
FairSpec == Spec /\ Fairness

-----------------------------------------------------------------------------
(* Properties *)

\* What Envoy takes for the current version is the current configuration:
\* if the cache serves n under the last version n was given, and no change of
\* n is under way, then the snapshot is exactly the stored configuration. A
\* load that overlapped a change may mix old and new documents, but only
\* under a version that is already superseded or about to be (loadNodeConfig,
\* LoadNode and the last UpdateOne of the handlers).
VersionIdentifiesContent ==
    \A n \in Nodes :
        /\ snap[n].served /\ snap[n].intact /\ ~dirty[n]
        /\ snap[n].version = stamped[n] /\ stamped[n] # 0
        => snap[n].docs = store[n]

Active(n) == \E h \in Handlers : req[h] # Idle /\ req[h].node = n

\* No change of the collections is left without a version of its own: once
\* no request for n is being served, the last version of n is younger than
\* its last change, unless a request failed half way, or n has no versioned
\* node document (it was deleted, or only has an address), or two first
\* requests each inserted a node document: deleting n then empties its
\* collections and leaves one of the documents with its version.
ChangesAreVersioned ==
    \A n \in Nodes :
        ~Active(n) /\ dirty[n] =>
            \/ broken[n]
            \/ \A d \in DocsOf(n) : d.version = 0
            \/ doubled[n]

\* A snapshot is never replaced by one of an older version of the node,
\* unless its node document was deleted and created again by PutConfigNode,
\* or it had two node documents: each is loaded under its own version.
NoVersionRollback ==
    [][\A n \in Nodes :
         snap[n].served /\ snap'[n].served /\ snap'[n].version # 0
           => snap'[n].version >= snap[n].version \/ doubled[n]]_vars

\* The node is configured (the document with its last version is there), the
\* configuration can be served and nobody is changing it.
Settled(n) ==
    /\ mpc # "down"
    /\ ~Active(n)
    /\ ~dirty[n] /\ stamped[n] # 0
    /\ \E d \in DocsOf(n) : d.version = stamped[n]
    /\ Consistent(store[n])

\* A second node document may have the older version delivered last.
Current(n) ==
    /\ snap[n].served
    /\ snap[n].version = stamped[n] \/ doubled[n]
    /\ snap[n].docs = store[n]

\* A settled configuration reaches the snapshot cache, or a new request
\* disturbs it, or main() missed the change.
Convergence ==
    \A n \in Nodes :
        Settled(n) ~> Current(n) \/ ~Settled(n) \/ missed[n]

\* The same without the excuse: what a handler answered 204 to is served.
ConfigurationReachesNode ==
    \A n \in Nodes : Settled(n) ~> Current(n) \/ ~Settled(n)

-----------------------------------------------------------------------------
(* What all of this amounts to *)

\* The versions handed out are the versions of the stored configuration, the
\* snapshot cache holds the deliveries.
Promise == INSTANCE Delivery WITH
    config <- store,
    version <- stamped,
    edited <- dirty,
    split <- doubled,
    clock <- uuids,
    delivery <- snap

\* The server implements Delivery: whatever handlers, queries, events, faults
\* and crashes interleave, every step edits one configuration, gives one a
\* fresh version, or delivers one (never another content under the last
\* version, and never an older version after a younger unless the node has
\* two documents), and a change counts as versioned by no step but the one
\* that makes the version.
ImplementsDelivery == Promise!Spec
=============================================================================
