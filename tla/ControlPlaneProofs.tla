------------------------- MODULE ControlPlaneProofs -------------------------
(***************************************************************************)
(* Proofs about ControlPlane for any nodes, names, payloads, handlers,     *)
(* faults and bounds: type correctness, VersionIdentifiesContent,          *)
(* ChangesAreVersioned and NoVersionRollback, and that it implements       *)
(* Delivery (ImplementsDelivery).                                          *)
(***************************************************************************)
EXTENDS ControlPlane, TLAPS

(* The inductive invariants *)

\* The node documents: versions are fresh, and as long as no two upserts
\* overlapped a node has one document, with its last version or none.
Documents ==
    /\ \A n \in Nodes : stamped[n] <= uuids
    /\ \A d \in nodes : d.version <= stamped[d.node]
    /\ \A d, e \in nodes : d.node = e.node => doubled[d.node] \/ d = e
    /\ \A d \in nodes : doubled[d.node] \/ d.version \in {0, stamped[d.node]}

\* Nothing in main() carries a version that its node was not given.
VersionsKnown ==
    /\ \A n \in Nodes : snap[n].version <= stamped[n]
    /\ \A d \in todo : d.version <= stamped[d.node]
    /\ mpc = "load" => load.version <= stamped[load.node]

\* While the version being loaded is the last one and nothing changes the
\* node, what LoadNode has read so far is what is stored.
LoadMatches ==
    /\ mpc = "load" /\ load.intact
    /\ ~dirty[load.node]
    /\ load.version = stamped[load.node] /\ load.version # 0
    => \A i \in 1..4 : i < load.step =>
         load.docs[ReadOrder[i]] = store[load.node][ReadOrder[i]]

\* An unversioned change has a handler that will version it.
Committed == {"endpoints", "deleteMany", "node", "version", "insertVersion"}
ChangesInProgress ==
    \A n \in Nodes : dirty[n] =>
        \/ broken[n]
        \/ \A d \in DocsOf(n) : d.version = 0
        \/ doubled[n]
        \/ \E h \in Handlers : req[h].pc \in Committed /\ req[h].node = n

\* Versions of a node with one document only travel forward: from the
\* document to the load to the snapshot.
InOrder ==
    /\ mpc = "load" => \/ doubled[load.node]
                       \/ /\ \/ load.version = 0
                             \/ snap[load.node].version <= load.version
                          /\ \A d \in todo : d.node # load.node
    /\ \A d \in todo : doubled[d.node] \/ snap[d.node] = NoSnapshot
    /\ \A d, e \in todo : d.node = e.node => doubled[d.node] \/ d = e
    /\ mpc \in {"down", "find"} => /\ todo = {} /\ ~streaming
                                   /\ \A n \in Nodes : snap[n] = NoSnapshot
    /\ todo # {} => ~streaming /\ mpc # "idle"

-----------------------------------------------------------------------------
(* Types *)

LEMMA EmptyTypes == Empty \in Contents /\ EmptyConfig \in Configs
BY DEF Empty, Contents, EmptyConfig, Configs

LEMMA WithType ==
  ASSUME NEW config \in Configs, NEW c \in Collections, NEW x \in Names,
         NEW doc \in {NoDoc} \cup Docs
  PROVE  With(config, c, x, doc) \in Configs
BY DEF With, Configs, Contents

LEMMA InitType == Init => TypeOK
<1>. SUFFICES ASSUME Init PROVE TypeOK
  OBVIOUS
<1>1. NoSnapshot \in Snapshots
  BY EmptyTypes DEF NoSnapshot, Snapshots
<1>2. stamped \in [Nodes -> Nat] /\ doubled \in [Nodes -> BOOLEAN]
  BY DEF Init
<1>3. events \in Seq(Events)
  BY DEF Init
<1>4. dirty \in [Nodes -> BOOLEAN] /\ broken \in [Nodes -> BOOLEAN]
      /\ missed \in [Nodes -> BOOLEAN]
  BY DEF Init
<1>5. mpc # "load" /\ load = NoLoad
  BY DEF Init
<1>6. store \in [Nodes -> Configs] /\ req \in [Handlers -> {Idle} \cup Requests]
  BY EmptyTypes DEF Init
<1>7. nodes \subseteq NodeDocs /\ snap \in [Nodes -> Snapshots]
  BY <1>1 DEF Init
<1>. QED
  BY <1>2, <1>3, <1>4, <1>5, <1>6, <1>7 DEF Init, TypeOK

\* A handler that is not idle has a request.
LEMMA Serving ==
  ASSUME TypeOK, NEW h \in Handlers, NEW pc \in Steps, At(h, pc)
  PROVE  req[h] \in Requests
BY DEF TypeOK, At, Idle, Steps

LEMMA BeginType ==
  ASSUME TypeOK, NEW h \in Handlers, NEW op, NEW pc \in Steps,
         NEW coll \in Collections, NEW bodies \in SUBSET Docs,
         Begin(h, op, pc, coll, bodies)
  PROVE  TypeOK'
BY DEF TypeOK, Begin, Requests, vars, dbVars, mainVars, streamVars

LEMMA ReceiveType ==
  ASSUME TypeOK, NEW h \in Handlers, Receive(h)
  PROVE  TypeOK'
<1>1. Single \in SUBSET Docs /\ Docs \ {{}} \in SUBSET Docs
      /\ Docs \in SUBSET Docs /\ {{}} \in SUBSET Docs
  BY DEF Single, Docs
<1>2. {"find", "replace", "delete", "deleteMany", "address"} \subseteq Steps
  BY DEF Steps
<1>. QED
  BY <1>1, <1>2, BeginType
     DEF Receive, PutConfigListeners, PutConfigClusters, PutConfigSecrets,
         PutConfigEndpoints, PutConfigEndpointsNamed, DeleteConfigListeners,
         DeleteConfigClusters, DeleteConfigSecrets, DeleteConfigEndpoints,
         DeleteConfigNodes, PutConfigNode, Collections

LEMMA FailType ==
  ASSUME TypeOK, NEW h \in Handlers, req[h] \in Requests, Fail(h)
  PROVE  /\ req' \in [Handlers -> {Idle} \cup Requests]
         /\ broken' \in [Nodes -> BOOLEAN]
BY DEF TypeOK, Fail, Return, Requests

LEMMA GotoType ==
  ASSUME TypeOK, NEW h \in Handlers, req[h] \in Requests, NEW pc \in Steps,
         Goto(h, pc)
  PROVE  req' \in [Handlers -> {Idle} \cup Requests]
BY DEF TypeOK, Goto, Requests

LEMMA WriteType ==
  ASSUME TypeOK, NEW h \in Handlers, req[h] \in Requests,
         NEW config \in Configs,
         NEW r \in [Handlers -> {Idle} \cup Requests],
         Write(h, config, req' = r)
  PROVE  TypeOK'
<1>1. req[h].node \in Nodes
  BY DEF Requests
<1>2. store' \in [Nodes -> Configs]
  BY <1>1 DEF Write, Apply, TypeOK
<1>4. dirty' \in [Nodes -> BOOLEAN]
  <2>1. DEFINE new == dirty[req[h].node] \/ config # store[req[h].node]
  <2>2. new \in BOOLEAN
    OBVIOUS
  <2>3. dirty' = dirty \/ dirty' = [dirty EXCEPT ![req[h].node] = new]
    BY DEF Write, Apply
  <2>. HIDE DEF new
  <2>. QED
    BY <2>2, <2>3 DEF TypeOK
<1>3. /\ req' \in [Handlers -> {Idle} \cup Requests]
      /\ broken' \in [Nodes -> BOOLEAN]
  BY FailType DEF Write, TypeOK
<1>. QED
  BY <1>2, <1>3, <1>4 DEF Write, TypeOK, mainVars, streamVars

LEMMA EmitType ==
  ASSUME TypeOK, NEW n \in Nodes, NEW id \in Nat,
         NEW type \in {"insert", "update", "delete"}, Emit(n, type, id)
  PROVE  /\ streaming' \in BOOLEAN
         /\ events' \in Seq(Events)
         /\ missed' \in [Nodes -> BOOLEAN]
<1>1. [type |-> type, id |-> id] \in Events
  BY DEF Events
<1>2. events' \in Seq(Events)
  BY <1>1 DEF Emit, TypeOK
<1>. QED
  BY <1>2 DEF Emit, TypeOK

LEMMA UpdatesType ==
  ASSUME TypeOK, NEW d \in nodes, NEW v \in Nat, UpdatesDocument(d, v)
  PROVE  /\ nodes' \subseteq NodeDocs
         /\ doubled' \in [Nodes -> BOOLEAN]
         /\ streaming' \in BOOLEAN
         /\ events' \in Seq(Events)
         /\ missed' \in [Nodes -> BOOLEAN]
<1>1. d \in NodeDocs /\ d.node \in Nodes /\ d.id \in Nat
  BY DEF TypeOK, NodeDocs
<1>2. [d EXCEPT !.version = v] \in NodeDocs
  BY <1>1 DEF NodeDocs
<1>3. Emit(d.node, "update", d.id)
  BY DEF UpdatesDocument
<1>4. /\ streaming' \in BOOLEAN
      /\ events' \in Seq(Events)
      /\ missed' \in [Nodes -> BOOLEAN]
  BY <1>1, <1>3, EmitType
<1>. QED
  BY <1>2, <1>4 DEF UpdatesDocument, TypeOK

LEMMA InsertsType ==
  ASSUME TypeOK, NEW n \in Nodes, NEW v \in Nat, InsertsDocument(n, v)
  PROVE  /\ nodes' \subseteq NodeDocs
         /\ doubled' \in [Nodes -> BOOLEAN]
         /\ streaming' \in BOOLEAN
         /\ events' \in Seq(Events)
         /\ missed' \in [Nodes -> BOOLEAN]
<1>1. uuids + 1 \in Nat
  BY DEF TypeOK
<1>2. [id |-> uuids + 1, node |-> n, version |-> v] \in NodeDocs
  BY <1>1 DEF NodeDocs
<1>3. Emit(n, "insert", uuids + 1)
  BY DEF InsertsDocument
<1>4. /\ streaming' \in BOOLEAN
      /\ events' \in Seq(Events)
      /\ missed' \in [Nodes -> BOOLEAN]
  BY <1>1, <1>3, EmitType
<1>5. doubled' \in [Nodes -> BOOLEAN]
  <2>. DEFINE twice == doubled[n] \/ DocsOf(n) # {}
  <2>1. twice \in BOOLEAN /\ doubled' = [doubled EXCEPT ![n] = twice]
    BY DEF InsertsDocument
  <2>. HIDE DEF twice
  <2>. QED
    BY <2>1 DEF TypeOK
<1>. QED
  BY <1>2, <1>4, <1>5 DEF InsertsDocument, TypeOK

LEMMA StampType ==
  ASSUME TypeOK, NEW h \in Handlers, req[h] \in Requests,
         NEW n \in Nodes, Stamp(h, n)
  PROVE  /\ uuids' \in Nat
         /\ stamped' \in [Nodes -> Nat]
         /\ dirty' \in [Nodes -> BOOLEAN]
         /\ broken' \in [Nodes -> BOOLEAN]
         /\ req' \in [Handlers -> {Idle} \cup Requests]
<1>1. uuids' \in Nat /\ NewVersion(n) \in Nat
  BY DEF Stamp, NewVersion, TypeOK
<1>2. stamped' \in [Nodes -> Nat] /\ dirty' \in [Nodes -> BOOLEAN]
  BY <1>1 DEF Stamp, TypeOK
<1>3. CASE Return(h) /\ broken' = [broken EXCEPT ![n] = FALSE]
  BY <1>1, <1>2, <1>3 DEF Return, TypeOK
<1>4. CASE Fail(h)
  BY <1>1, <1>2, <1>4, FailType
<1>. QED
  BY <1>3, <1>4 DEF Stamp

\* The steps of the handlers that write the collections.
LEMMA CollectionStepType ==
  ASSUME TypeOK, NEW h \in Handlers,
         ReplaceOne(h) \/ DeleteOne(h) \/ DeleteEndpoints(h) \/ DeleteMany(h)
  PROVE  TypeOK'
<1>. DEFINE r == req[h]
            Reqs == [Handlers -> {Idle} \cup Requests]
<1>1. {"replace", "delete", "endpoints", "deleteMany", "version", "node"}
        \subseteq Steps
  BY DEF Steps
<1>2. r \in Requests
  BY <1>1, Serving DEF ReplaceOne, DeleteOne, DeleteEndpoints, DeleteMany
<1>3. /\ r.node \in Nodes /\ r.coll \in Collections /\ r.name \in Names
      /\ r.body \in Docs /\ store[r.node] \in Configs
      /\ "endpoints" \in Collections
  BY <1>2 DEF Requests, TypeOK, Collections
<1>4. \A pc \in Steps : [req EXCEPT ![h].pc = pc] \in Reqs
  BY <1>2 DEF TypeOK, Requests
<1>5. CASE ReplaceOne(h)
  <2>1. With(store[r.node], r.coll, r.name, r.body) \in Configs
    BY <1>3, WithType
  <2>. QED
    BY <1>1, <1>2, <1>4, <1>5, <2>1, WriteType DEF ReplaceOne, Goto
<1>6. CASE DeleteOne(h)
  <2>1. With(store[r.node], r.coll, r.name, NoDoc) \in Configs
    BY <1>3, WithType
  <2>. QED
    BY <1>1, <1>2, <1>4, <1>6, <2>1, WriteType DEF DeleteOne, Goto
<1>7. CASE DeleteEndpoints(h)
  <2>1. With(store[r.node], "endpoints", r.name, NoDoc) \in Configs
    BY <1>3, WithType
  <2>. QED
    BY <1>1, <1>2, <1>4, <1>7, <2>1, WriteType DEF DeleteEndpoints, Goto
<1>8. CASE DeleteMany(h)
  <2>. DEFINE next == IF r.coll = "listeners" THEN "clusters" ELSE "endpoints"
              to == IF r.coll = "endpoints" THEN [req EXCEPT ![h].pc = "node"]
                                            ELSE [req EXCEPT ![h].coll = next]
  <2>1. [store[r.node] EXCEPT ![r.coll] = Empty] \in Configs
    BY <1>3, EmptyTypes DEF Configs
  <2>2. [req EXCEPT ![h].coll = next] \in Reqs
    BY <1>2 DEF TypeOK, Requests, Collections
  <2>3. to \in Reqs
    BY <1>1, <1>4, <2>2
  <2>4. Write(h, [store[r.node] EXCEPT ![r.coll] = Empty], req' = to)
    BY <1>8 DEF DeleteMany, Write, Goto
  <2>. HIDE DEF to
  <2>. QED
    BY <1>2, <2>1, <2>3, <2>4, WriteType
<1>. QED
  BY <1>5, <1>6, <1>7, <1>8

\* The other steps of the handlers.
LEMMA FindOneType ==
  ASSUME TypeOK, NEW h \in Handlers, FindOne(h)
  PROVE  TypeOK'
<1>. DEFINE r == req[h]
            found == store[r.node]["endpoints"][r.name]
<1>1. {"find", "replace"} \subseteq Steps
  BY DEF Steps
<1>2. r \in Requests
  BY <1>1, Serving DEF FindOne
<1>3. found \in {NoDoc} \cup Docs /\ r.body \in Docs
  BY <1>2 DEF TypeOK, Configs, Contents, Collections, Requests
<1>4. found # NoDoc => r.body \cup found \in Docs
  BY <1>3 DEF Docs
<1>5. CASE found # NoDoc
             /\ req' = [req EXCEPT ![h].pc = "replace", ![h].body = @ \cup found]
  BY <1>1, <1>2, <1>4, <1>5
     DEF FindOne, TypeOK, Requests, dbVars, mainVars, streamVars
<1>6. CASE Goto(h, "replace")
  BY <1>1, <1>2, <1>6, GotoType
     DEF FindOne, TypeOK, dbVars, mainVars, streamVars
<1>. QED
  BY <1>5, <1>6 DEF FindOne

LEMMA NodeStepType ==
  ASSUME TypeOK, NEW h \in Handlers,
         \/ DeleteNode(h) \/ UpdateAddress(h) \/ InsertAddress(h)
         \/ UpdateVersion(h) \/ InsertVersion(h)
  PROVE  TypeOK'
<1>. DEFINE n == req[h].node
            Reqs == [Handlers -> {Idle} \cup Requests]
<1>1. {"node", "address", "insertAddress", "version", "insertVersion"} \subseteq Steps
  BY DEF Steps
<1>2. req[h] \in Requests
  BY <1>1, Serving DEF DeleteNode, UpdateAddress, InsertAddress, UpdateVersion,
                       InsertVersion
<1>3. n \in Nodes /\ uuids + 1 \in Nat /\ NewVersion(n) \in Nat /\ 0 \in Nat
  BY <1>2 DEF Requests, TypeOK, NewVersion
<1>4. Return(h) => req' \in Reqs
  BY DEF TypeOK, Return
<1>5. \A d \in DocsOf(n) : d \in nodes /\ d.node = n /\ d.id \in Nat
                           /\ d.version \in Nat
  BY DEF DocsOf, TypeOK, NodeDocs
<1>6. CASE DeleteNode(h)
  <2>1. /\ streaming' \in BOOLEAN /\ events' \in Seq(Events)
        /\ missed' \in [Nodes -> BOOLEAN]
    <3>1. CASE \E d \in DocsOf(n) : Emit(n, "delete", d.id)
      BY <1>3, <1>5, <3>1, EmitType
    <3>2. CASE UNCHANGED streamVars
      BY <3>2 DEF streamVars, TypeOK
    <3>. QED
      BY <1>6, <3>1, <3>2 DEF DeleteNode
  <2>2. nodes' \subseteq nodes
    BY <1>6 DEF DeleteNode
  <2>3. req' \in Reqs /\ broken' \in [Nodes -> BOOLEAN]
    BY <1>2, <1>4, <1>6, FailType DEF DeleteNode, TypeOK
  <2>. QED
    BY <1>6, <2>1, <2>2, <2>3 DEF DeleteNode, TypeOK, mainVars
<1>7. CASE UpdateAddress(h)
  <2>1. /\ nodes' \subseteq NodeDocs /\ doubled' \in [Nodes -> BOOLEAN]
        /\ streaming' \in BOOLEAN /\ events' \in Seq(Events)
        /\ missed' \in [Nodes -> BOOLEAN]
    <3>1. CASE \E d \in DocsOf(n) : UpdatesDocument(d, d.version)
      BY <1>5, <3>1, UpdatesType
    <3>2. CASE UNCHANGED <<nodes, doubled, streamVars>>
      BY <3>2 DEF streamVars, TypeOK
    <3>. QED
      BY <1>7, <3>1, <3>2 DEF UpdateAddress
  <2>2. req' \in Reqs
    BY <1>1, <1>2, <1>4, <1>7, FailType, GotoType DEF UpdateAddress
  <2>3. broken' \in [Nodes -> BOOLEAN]
    BY <1>2, <1>7, FailType DEF UpdateAddress, TypeOK
  <2>. QED
    BY <1>7, <2>1, <2>2, <2>3 DEF UpdateAddress, TypeOK, mainVars
<1>8. CASE InsertAddress(h)
  <2>1. /\ nodes' \subseteq NodeDocs /\ doubled' \in [Nodes -> BOOLEAN]
        /\ streaming' \in BOOLEAN /\ events' \in Seq(Events)
        /\ missed' \in [Nodes -> BOOLEAN] /\ uuids' \in Nat
    <3>1. CASE InsertsDocument(n, 0) /\ uuids' = uuids + 1
      BY <1>3, <3>1, InsertsType
    <3>2. CASE UNCHANGED <<nodes, uuids, doubled, streamVars>>
      BY <3>2 DEF streamVars, TypeOK
    <3>. QED
      BY <1>8, <3>1, <3>2 DEF InsertAddress
  <2>2. req' \in Reqs /\ broken' \in [Nodes -> BOOLEAN]
    BY <1>2, <1>4, <1>8, FailType DEF InsertAddress, TypeOK
  <2>. QED
    BY <1>8, <2>1, <2>2 DEF InsertAddress, TypeOK, mainVars
<1>9. CASE UpdateVersion(h)
  <2>1. CASE /\ \E d \in DocsOf(n) : UpdatesDocument(d, NewVersion(n))
             /\ Stamp(h, n)
    <3>1. /\ nodes' \subseteq NodeDocs /\ doubled' \in [Nodes -> BOOLEAN]
          /\ streaming' \in BOOLEAN /\ events' \in Seq(Events)
          /\ missed' \in [Nodes -> BOOLEAN]
      BY <1>3, <1>5, <2>1, UpdatesType
    <3>2. /\ uuids' \in Nat /\ stamped' \in [Nodes -> Nat]
          /\ dirty' \in [Nodes -> BOOLEAN] /\ broken' \in [Nodes -> BOOLEAN]
          /\ req' \in Reqs
      BY <1>2, <1>3, <2>1, StampType
    <3>. QED
      BY <1>9, <3>1, <3>2 DEF UpdateVersion, TypeOK, mainVars
  <2>2. CASE /\ \/ Goto(h, "insertVersion") /\ UNCHANGED broken
                \/ Fail(h)
             /\ UNCHANGED <<nodes, uuids, dirty, stamped, doubled, streamVars>>
    <3>1. req' \in Reqs /\ broken' \in [Nodes -> BOOLEAN]
      BY <1>1, <1>2, <2>2, FailType, GotoType DEF TypeOK
    <3>. QED
      BY <1>9, <2>2, <3>1 DEF UpdateVersion, TypeOK, mainVars, streamVars
  <2>. QED
    BY <1>9, <2>1, <2>2 DEF UpdateVersion
<1>10. CASE InsertVersion(h)
  <2>1. CASE InsertsDocument(n, NewVersion(n)) /\ Stamp(h, n)
    <3>1. /\ nodes' \subseteq NodeDocs /\ doubled' \in [Nodes -> BOOLEAN]
          /\ streaming' \in BOOLEAN /\ events' \in Seq(Events)
          /\ missed' \in [Nodes -> BOOLEAN]
      BY <1>3, <2>1, InsertsType
    <3>2. /\ uuids' \in Nat /\ stamped' \in [Nodes -> Nat]
          /\ dirty' \in [Nodes -> BOOLEAN] /\ broken' \in [Nodes -> BOOLEAN]
          /\ req' \in Reqs
      BY <1>2, <1>3, <2>1, StampType
    <3>. QED
      BY <1>10, <3>1, <3>2 DEF InsertVersion, TypeOK, mainVars
  <2>2. CASE /\ Fail(h)
             /\ UNCHANGED <<nodes, uuids, dirty, stamped, doubled, streamVars>>
    <3>1. req' \in Reqs /\ broken' \in [Nodes -> BOOLEAN]
      BY <1>2, <2>2, FailType
    <3>. QED
      BY <1>10, <2>2, <3>1 DEF InsertVersion, TypeOK, mainVars, streamVars
  <2>. QED
    BY <1>10, <2>1, <2>2 DEF InsertVersion
<1>. QED
  BY <1>6, <1>7, <1>8, <1>9, <1>10

LEMMA MainType == TypeOK /\ Main => TypeOK'
<1>. SUFFICES ASSUME TypeOK, Main PROVE TypeOK'
  OBVIOUS
<1>. USE DEF dbVars, reqVars, mainVars, streamVars
<1>1. \A n \in Nodes, v \in Nat : Begun(n, v) \in Loads
  BY EmptyTypes DEF Begun, Loads
<1>2. CASE FindNodes
  BY <1>2 DEF FindNodes, TypeOK
<1>3. CASE BootNext
  BY <1>1, <1>3 DEF BootNext, TypeOK, NodeDocs
<1>4. CASE Watch
  BY <1>4 DEF Watch, TypeOK
<1>5. CASE NextEvent
  <2>1. Tail(events) \in Seq(Events)
    BY <1>5 DEF NextEvent, TypeOK
  <2>2. missed' \in [Nodes -> BOOLEAN]
    BY <1>5 DEF NextEvent, TypeOK
  <2>3. /\ mpc' \in {"idle", "load"}
        /\ IF mpc' = "load" THEN load' \in Loads ELSE load' = NoLoad
    BY <1>1, <1>5 DEF NextEvent, TypeOK, NodeDocs
  <2>. QED
    BY <1>5, <2>1, <2>2, <2>3 DEF NextEvent, TypeOK
<1>6. CASE ReadCollection
  <2>. DEFINE c == ReadOrder[load.step]
              found == store[load.node][c]
  <2>1. load \in Loads /\ load.step \in 1..4 /\ c \in Collections
    <3>1. mpc = "load" /\ load.step < 5
      BY <1>6 DEF ReadCollection
    <3>2. load \in Loads
      BY <3>1 DEF TypeOK
    <3>3. load.step \in 1..4
      BY <3>1, <3>2 DEF Loads
    <3>. QED
      BY <3>2, <3>3 DEF ReadOrder, Collections
  <2>2. found \in Contents
    BY <2>1 DEF TypeOK, Loads, Configs
  <2>3. PICK lost \in SUBSET {x \in Names : found[x] # NoDoc} :
          /\ load' = [load EXCEPT
               !.step = @ + 1,
               !.intact = @ /\ lost = {},
               !.docs = [@ EXCEPT ![c] =
                  [x \in Names |-> IF x \in lost THEN NoDoc ELSE found[x]]]]
          /\ missed' = [missed EXCEPT ![load.node] = @ \/ lost # {}]
    BY <1>6 DEF ReadCollection
  <2>4. [x \in Names |-> IF x \in lost THEN NoDoc ELSE found[x]] \in Contents
    BY <2>2 DEF Contents
  <2>. DEFINE whole == load.intact /\ lost = {}
              read == [x \in Names |-> IF x \in lost THEN NoDoc ELSE found[x]]
              docs == [load.docs EXCEPT ![c] = read]
  <2>5. whole \in BOOLEAN
    OBVIOUS
  <2>8. docs \in Configs
    BY <2>1, <2>4 DEF Loads, Configs
  <2>9. load' = [load EXCEPT !.step = load.step + 1, !.intact = whole, !.docs = docs]
    BY <2>3
  <2>6. load' \in Loads
    <3>. HIDE DEF whole, docs
    <3>1. load.step + 1 \in 1..5
      BY <2>1
    <3>. QED
      BY <2>1, <2>5, <2>8, <2>9, <3>1 DEF Loads
  <2>7. missed' \in [Nodes -> BOOLEAN]
    BY <2>3 DEF TypeOK
  <2>. QED
    BY <1>6, <2>6, <2>7 DEF ReadCollection, TypeOK
<1>7. CASE Publish
  BY <1>7 DEF Publish, TypeOK, Loads, Snapshots
<1>. QED
  BY <1>2, <1>3, <1>4, <1>5, <1>6, <1>7 DEF Main

LEMMA NextType == TypeOK /\ [Next]_vars => TypeOK'
<1>. SUFFICES ASSUME TypeOK, [Next]_vars PROVE TypeOK'
  OBVIOUS
<1>. USE DEF dbVars, reqVars, mainVars, streamVars
<1>1. CASE Start
  BY <1>1 DEF Start, TypeOK
<1>2. CASE Crash
  <2>1. NoSnapshot \in Snapshots
    BY EmptyTypes DEF NoSnapshot, Snapshots
  <2>2. broken' \in [Nodes -> BOOLEAN]
    BY <1>2 DEF Crash, TypeOK
  <2>3. missed' \in [Nodes -> BOOLEAN] /\ events' \in Seq(Events)
        /\ todo' \subseteq NodeDocs
    BY <1>2 DEF Crash
  <2>5. mpc' = "down" /\ load' = NoLoad /\ streaming' = FALSE
    BY <1>2 DEF Crash
  <2>6. crashes' \in Nat
    BY <1>2 DEF Crash, TypeOK
  <2>4. /\ req' \in [Handlers -> {Idle} \cup Requests]
        /\ snap' \in [Nodes -> Snapshots]
    BY <1>2, <2>1 DEF Crash
  <2>. QED
    BY <1>2, <2>2, <2>3, <2>4, <2>5, <2>6 DEF Crash, TypeOK
<1>3. CASE UNCHANGED vars
  BY <1>3 DEF vars, TypeOK
<1>. QED
  BY <1>1, <1>2, <1>3, MainType, ReceiveType, CollectionStepType, FindOneType,
     NodeStepType
     DEF Next, Serve

\* Every variable keeps its type.
THEOREM TypeCorrect == Spec => []TypeOK
BY InitType, NextType, PTL DEF Spec

-----------------------------------------------------------------------------
(* What the steps of the handlers do to a node, seen from main() *)

\* A step either leaves the version of n alone, and then forgets no change
\* of n, or makes it younger than all others.
Effect(n) ==
    /\ store'[n] = store[n] \/ dirty'[n]
    /\ doubled[n] => doubled'[n]
    /\ \/ stamped'[n] = stamped[n] /\ (dirty[n] => dirty'[n])
       \/ stamped'[n] = uuids + 1 /\ uuids' = uuids + 1

HandlerStep ==
    /\ UNCHANGED mainVars
    /\ streaming' = streaming
    /\ uuids' \in Nat /\ uuids' >= uuids
    /\ \A n \in Nodes : Effect(n)

LEMMA NoEffect ==
  ASSUME TypeOK, UNCHANGED <<dbVars, mainVars, streamVars>>
  PROVE  HandlerStep
BY DEF dbVars, streamVars, HandlerStep, Effect, TypeOK

LEMMA WriteEffect ==
  ASSUME TypeOK, NEW h \in Handlers, NEW config, NEW r,
         Write(h, config, req' = r)
  PROVE  HandlerStep
<1>. DEFINE m == req[h].node
<1>1. UNCHANGED mainVars /\ UNCHANGED <<uuids, stamped, doubled, streaming>>
  BY DEF Write, streamVars
<1>2. CASE UNCHANGED <<store, dirty>>
  BY <1>1, <1>2 DEF HandlerStep, Effect, TypeOK
<1>3. CASE Apply(m, config)
  <2>1. ASSUME NEW k \in Nodes
        PROVE  (store'[k] = store[k] \/ dirty'[k]) /\ (dirty[k] => dirty'[k])
    <3>1. CASE k # m
      BY <1>3, <3>1 DEF Apply, TypeOK
    <3>2. CASE k = m
      <4>1. store'[k] = config
        BY <1>3, <3>2 DEF Apply, TypeOK
      <4>2. dirty'[k] = (dirty[k] \/ config # store[k])
        BY <1>3, <3>2, Zenon DEF Apply, TypeOK
      <4>. QED
        BY <4>1, <4>2
    <3>. QED
      BY <3>1, <3>2
  <2>. QED
    BY <1>1, <2>1 DEF HandlerStep, Effect, TypeOK
<1>. QED
  BY <1>2, <1>3 DEF Write

\* What the steps of the handlers do to the documents of a node.
Updates(d, v) ==
    /\ nodes' = (nodes \ {d}) \cup {[d EXCEPT !.version = v]}
    /\ doubled' = doubled

Inserts(n, v) ==
    /\ nodes' = nodes \cup {[id |-> uuids + 1, node |-> n, version |-> v]}
    /\ \A k \in Nodes : k # n => doubled'[k] = doubled[k]
    /\ doubled'[n] \/ DocsOf(n) = {}
    /\ doubled[n] => doubled'[n]

LEMMA InsertsEffect ==
  ASSUME TypeOK, NEW n \in Nodes, NEW v, InsertsDocument(n, v)
  PROVE  Inserts(n, v) /\ streaming' = streaming
<1>. DEFINE twice == doubled[n] \/ DocsOf(n) # {}
<1>1. doubled' = [doubled EXCEPT ![n] = twice] /\ twice \in BOOLEAN
  BY DEF InsertsDocument
<1>2. doubled'[n] = twice /\ \A k \in Nodes : k # n => doubled'[k] = doubled[k]
  <2>. HIDE DEF twice
  <2>. QED
    BY <1>1, Zenon DEF TypeOK
<1>3. (doubled'[n] \/ DocsOf(n) = {}) /\ (doubled[n] => doubled'[n])
  BY <1>2
<1>4. streaming' = streaming
  BY DEF InsertsDocument, Emit
<1>5. nodes' = nodes \cup {[id |-> uuids + 1, node |-> n, version |-> v]}
  BY DEF InsertsDocument
<1>. QED
  BY <1>2, <1>3, <1>4, <1>5 DEF Inserts

\* One version more, for the node n.
Stamps(n) ==
    /\ uuids' = uuids + 1
    /\ stamped' = [stamped EXCEPT ![n] = uuids + 1]
    /\ dirty' = [dirty EXCEPT ![n] = FALSE]

\* The documents change in one of four ways.
NodeStep(n) ==
    \/ UNCHANGED <<nodes, uuids, stamped, dirty, doubled>>
    \/ /\ \E d \in DocsOf(n) : nodes' = nodes \ {d} \/ Updates(d, d.version)
       /\ UNCHANGED <<uuids, stamped, dirty, doubled>>
    \/ Inserts(n, 0) /\ uuids' = uuids + 1 /\ UNCHANGED <<stamped, dirty>>
    \/ /\ Inserts(n, uuids + 1) \/ \E d \in DocsOf(n) : Updates(d, uuids + 1)
       /\ Stamps(n)

LEMMA NodeSteps ==
  ASSUME TypeOK, NEW h \in Handlers,
         \/ DeleteNode(h) \/ UpdateAddress(h) \/ InsertAddress(h)
         \/ UpdateVersion(h) \/ InsertVersion(h)
  PROVE  /\ req[h].node \in Nodes /\ NodeStep(req[h].node)
         /\ UNCHANGED <<store, mainVars>> /\ streaming' = streaming
<1>. DEFINE n == req[h].node
<1>1. n \in Nodes
  BY Serving DEF DeleteNode, UpdateAddress, InsertAddress, UpdateVersion,
                 InsertVersion, Steps, Requests
<1>2. CASE DeleteNode(h)
  BY <1>1, <1>2 DEF DeleteNode, Emit, streamVars, NodeStep
<1>3. CASE UpdateAddress(h)
  <2>1. UNCHANGED <<store, uuids, stamped, dirty, mainVars>>
    BY <1>3 DEF UpdateAddress
  <2>2. CASE UNCHANGED <<nodes, doubled, streamVars>>
    BY <1>1, <2>1, <2>2 DEF NodeStep, streamVars
  <2>3. CASE \E d \in DocsOf(n) : UpdatesDocument(d, d.version)
    <3>1. PICK d \in DocsOf(n) : UpdatesDocument(d, d.version)
      BY <2>3
    <3>2. Updates(d, d.version) /\ UNCHANGED doubled /\ streaming' = streaming
      BY <3>1 DEF UpdatesDocument, Updates, Emit
    <3>. QED
      BY <1>1, <2>1, <3>2 DEF NodeStep
  <2>. QED
    BY <1>3, <2>2, <2>3 DEF UpdateAddress
<1>4. CASE InsertAddress(h)
  <2>1. UNCHANGED <<store, stamped, dirty, mainVars>>
    BY <1>4 DEF InsertAddress
  <2>2. CASE UNCHANGED <<nodes, uuids, doubled, streamVars>>
    BY <1>1, <2>1, <2>2 DEF NodeStep, streamVars
  <2>3. CASE InsertsDocument(n, 0) /\ uuids' = uuids + 1
    BY <1>1, <2>1, <2>3, InsertsEffect DEF NodeStep
  <2>. QED
    BY <1>4, <2>2, <2>3 DEF InsertAddress
<1>5. ASSUME Stamp(h, n) PROVE Stamps(n)
  BY <1>5 DEF Stamp, Stamps, NewVersion
<1>6. CASE UpdateVersion(h)
  <2>1. UNCHANGED <<store, mainVars>>
    BY <1>6 DEF UpdateVersion
  <2>2. CASE UNCHANGED <<nodes, uuids, dirty, stamped, doubled, streamVars>>
    BY <1>1, <2>1, <2>2 DEF NodeStep, streamVars
  <2>3. CASE (\E d \in DocsOf(n) : UpdatesDocument(d, NewVersion(n))) /\ Stamp(h, n)
    <3>1. PICK d \in DocsOf(n) : UpdatesDocument(d, NewVersion(n))
      BY <2>3
    <3>2. Updates(d, uuids + 1) /\ streaming' = streaming
      BY <3>1 DEF UpdatesDocument, Updates, Emit, NewVersion
    <3>. QED
      BY <1>1, <1>5, <2>1, <2>3, <3>2 DEF NodeStep
  <2>. QED
    BY <1>6, <2>2, <2>3 DEF UpdateVersion
<1>7. CASE InsertVersion(h)
  <2>1. UNCHANGED <<store, mainVars>>
    BY <1>7 DEF InsertVersion
  <2>2. CASE UNCHANGED <<nodes, uuids, dirty, stamped, doubled, streamVars>>
    BY <1>1, <2>1, <2>2 DEF NodeStep, streamVars
  <2>3. CASE InsertsDocument(n, NewVersion(n)) /\ Stamp(h, n)
    <3>1. Inserts(n, uuids + 1) /\ streaming' = streaming
      BY <1>1, <2>3, InsertsEffect DEF NewVersion
    <3>. QED
      BY <1>1, <1>5, <2>1, <2>3, <3>1 DEF NodeStep
  <2>. QED
    BY <1>7, <2>2, <2>3 DEF InsertVersion
<1>. QED
  BY <1>2, <1>3, <1>4, <1>6, <1>7

LEMMA NodeStepEffect ==
  ASSUME TypeOK, NEW n \in Nodes, NodeStep(n), UNCHANGED <<store, mainVars>>,
         streaming' = streaming
  PROVE  HandlerStep
<1>1. CASE UNCHANGED <<stamped, dirty, doubled>> /\ uuids' = uuids
  BY <1>1 DEF HandlerStep, Effect, TypeOK
<1>2. CASE (\E v : Inserts(n, v)) /\ uuids' = uuids + 1 /\ UNCHANGED <<stamped, dirty>>
  BY <1>2 DEF Inserts, HandlerStep, Effect, TypeOK
<1>3. CASE ((\E v : Inserts(n, v)) \/ doubled' = doubled) /\ Stamps(n)
  <2>1. \A k \in Nodes : doubled[k] => doubled'[k]
    BY <1>3 DEF Inserts
  <2>2. /\ stamped'[n] = uuids + 1 /\ uuids' = uuids + 1
        /\ \A k \in Nodes : k # n => stamped'[k] = stamped[k] /\ dirty'[k] = dirty[k]
    BY <1>3 DEF Stamps, TypeOK
  <2>. QED
    BY <2>1, <2>2 DEF HandlerStep, Effect, TypeOK
<1>. QED
  BY <1>1, <1>2, <1>3, Zenon DEF NodeStep, Updates

LEMMA ReceiveEffect ==
  ASSUME TypeOK, NEW h \in Handlers, Receive(h)
  PROVE  HandlerStep
<1>1. UNCHANGED <<dbVars, mainVars, streamVars>>
  BY DEF Receive, Begin, PutConfigListeners, PutConfigClusters,
         PutConfigSecrets, PutConfigEndpoints, PutConfigEndpointsNamed,
         DeleteConfigListeners, DeleteConfigClusters, DeleteConfigSecrets,
         DeleteConfigEndpoints, DeleteConfigNodes, PutConfigNode
<1>. QED
  BY <1>1, NoEffect

LEMMA ServeEffect ==
  ASSUME TypeOK, NEW h \in Handlers, Serve(h)
  PROVE  HandlerStep
<1>. DEFINE n == req[h].node
<1>1. CASE ReplaceOne(h) \/ DeleteOne(h) \/ DeleteEndpoints(h)
  BY <1>1, WriteEffect DEF ReplaceOne, DeleteOne, DeleteEndpoints, Goto
<1>2. CASE DeleteMany(h)
  <2>. DEFINE next == IF req[h].coll = "listeners" THEN "clusters" ELSE "endpoints"
              to == IF req[h].coll = "endpoints"
                    THEN [req EXCEPT ![h].pc = "node"]
                    ELSE [req EXCEPT ![h].coll = next]
  <2>1. Write(h, [store[n] EXCEPT ![req[h].coll] = Empty], req' = to)
    <3>1. CASE req[h].coll = "endpoints"
      <4>1. to = [req EXCEPT ![h].pc = "node"]
        BY <3>1
      <4>. HIDE DEF to
      <4>. QED
        BY <1>2, <3>1, <4>1 DEF DeleteMany, Write, Goto
    <3>2. CASE req[h].coll # "endpoints"
      <4>1. to = [req EXCEPT ![h].coll = next]
        BY <3>2
      <4>. HIDE DEF to
      <4>. QED
        BY <1>2, <3>2, <4>1 DEF DeleteMany, Write
    <3>. QED
      BY <3>1, <3>2
  <2>. HIDE DEF to
  <2>. QED
    BY <2>1, WriteEffect
<1>3. CASE FindOne(h)
  <2>1. UNCHANGED <<dbVars, mainVars, streamVars>>
    BY <1>3 DEF FindOne
  <2>. QED
    BY <2>1, NoEffect
<1>4. CASE \/ DeleteNode(h) \/ UpdateAddress(h) \/ InsertAddress(h)
           \/ UpdateVersion(h) \/ InsertVersion(h)
  BY <1>4, NodeSteps, NodeStepEffect
<1>. QED
  BY <1>1, <1>2, <1>3, <1>4 DEF Serve

-----------------------------------------------------------------------------
(* The node documents *)

\* The document that a step inserts or stamps.
LEMMA NewDocument ==
  ASSUME TypeOK, TypeOK', Documents, NEW n \in Nodes, NEW new,
         new.node = n, new.version \in {0, stamped'[n]},
         \A d \in nodes' : d \in nodes \/ d = new,
         doubled'[n] \/ \A d \in nodes' : d.node = n => d = new,
         \A k \in Nodes : k # n => /\ doubled'[k] = doubled[k]
                                  /\ stamped'[k] = stamped[k],
         stamped[n] <= stamped'[n], stamped'[n] <= uuids', uuids <= uuids'
  PROVE  Documents'
<1>1. \A d \in nodes : d.node \in Nodes /\ d.version \in Nat
  BY DEF TypeOK, NodeDocs
<1>1a. \A d \in nodes' : d.node \in Nodes /\ d.version \in Nat
  BY DEF TypeOK, NodeDocs
<1>2. /\ uuids \in Nat /\ uuids' \in Nat
      /\ \A k \in Nodes : stamped[k] \in Nat /\ stamped'[k] \in Nat
  BY DEF TypeOK
<1>2a. ASSUME NEW k \in Nodes PROVE stamped[k] <= stamped'[k]
  <2>1. k = n \/ stamped'[k] = stamped[k]
    OBVIOUS
  <2>. QED
    BY <1>2, <2>1
<1>3. ASSUME NEW k \in Nodes PROVE stamped'[k] <= uuids'
  <2>1. stamped[k] <= uuids
    BY DEF Documents
  <2>2. k = n \/ stamped'[k] = stamped[k]
    OBVIOUS
  <2>. QED
    BY <1>2, <2>1, <2>2
<1>4. ASSUME NEW d \in nodes' PROVE d.version <= stamped'[d.node]
  <2>1. CASE d = new
    BY <1>1a, <1>2, <2>1
  <2>2. CASE d \in nodes
    BY <1>1, <1>2, <1>2a, <2>2 DEF Documents
  <2>. QED
    BY <2>1, <2>2
<1>5. ASSUME NEW d \in nodes', NEW e \in nodes', d.node = e.node
      PROVE  doubled'[d.node] \/ d = e
  <2>1. CASE d.node = n
    BY <1>5, <2>1
  <2>2. CASE d.node # n
    <3>1. d \in nodes /\ e \in nodes
      BY <1>5, <2>2
    <3>2. doubled'[d.node] = doubled[d.node]
      BY <1>1, <2>2, <3>1
    <3>3. doubled[d.node] \/ d = e
      BY <1>5, <3>1 DEF Documents
    <3>. QED
      BY <3>2, <3>3
  <2>. QED
    BY <2>1, <2>2
<1>6. ASSUME NEW d \in nodes'
      PROVE  doubled'[d.node] \/ d.version \in {0, stamped'[d.node]}
  <2>1. CASE d.node = n
    BY <2>1
  <2>2. CASE d.node # n
    BY <1>1, <2>2 DEF Documents
  <2>. QED
    BY <2>1, <2>2
<1>. QED
  BY <1>3, <1>4, <1>5, <1>6 DEF Documents

LEMMA NodeStepDocuments ==
  ASSUME TypeOK, TypeOK', Documents, NEW n \in Nodes, NodeStep(n)
  PROVE  Documents'
<1>1. uuids \in Nat /\ stamped[n] \in Nat /\ stamped[n] <= uuids
  BY DEF TypeOK, Documents
<1>2. CASE UNCHANGED <<nodes, uuids, stamped, dirty, doubled>>
  BY <1>2 DEF Documents
<1>3. CASE /\ \E d \in DocsOf(n) : nodes' = nodes \ {d} \/ Updates(d, d.version)
           /\ UNCHANGED <<uuids, stamped, dirty, doubled>>
  <2>1. nodes' \subseteq nodes
    <3>1. PICK d \in DocsOf(n) : nodes' = nodes \ {d} \/ Updates(d, d.version)
      BY <1>3
    <3>2. d \in nodes /\ [d EXCEPT !.version = d.version] = d
      BY <3>1 DEF DocsOf, TypeOK, NodeDocs
    <3>. QED
      BY <3>1, <3>2 DEF Updates
  <2>. QED
    BY <1>3, <2>1 DEF Documents
<1>4. ASSUME NEW v \in {0, uuids + 1}, Inserts(n, v), uuids' = uuids + 1,
             v \in {0, stamped'[n]},
             stamped' = stamped \/ stamped' = [stamped EXCEPT ![n] = uuids + 1]
      PROVE  Documents'
  <2>. DEFINE new == [id |-> uuids + 1, node |-> n, version |-> v]
  <2>1. \A k \in Nodes : k # n => stamped'[k] = stamped[k] /\ doubled'[k] = doubled[k]
    BY <1>4 DEF Inserts, TypeOK
  <2>2. nodes' = nodes \cup {new} /\ new.node = n /\ new.version = v
    BY <1>4 DEF Inserts
  <2>3. stamped'[n] \in {stamped[n], uuids + 1}
    BY <1>4 DEF TypeOK
  <2>4. stamped[n] <= stamped'[n] /\ stamped'[n] <= uuids' /\ uuids <= uuids'
    BY <1>1, <1>4, <2>3
  <2>. HIDE DEF new
  <2>5. doubled'[n] \/ \A d \in nodes' : d.node = n => d = new
    BY <1>4, <2>2 DEF Inserts, DocsOf
  <2>. QED
    BY <1>4, <2>1, <2>2, <2>4, <2>5, NewDocument
<1>5. ASSUME NEW d \in DocsOf(n), Updates(d, uuids + 1), Stamps(n)
      PROVE  Documents'
  <2>. DEFINE new == [d EXCEPT !.version = uuids + 1]
  <2>1. \A k \in Nodes : k # n => stamped'[k] = stamped[k] /\ doubled'[k] = doubled[k]
    BY <1>5 DEF Updates, Stamps, TypeOK
  <2>2. /\ nodes' = (nodes \ {d}) \cup {new} /\ doubled' = doubled
        /\ d \in nodes /\ d.node = n
        /\ new.node = n /\ new.version = uuids + 1
    BY <1>5 DEF Updates, DocsOf, TypeOK, NodeDocs
  <2>3. stamped'[n] = uuids + 1 /\ uuids' = uuids + 1
    BY <1>5 DEF Stamps, TypeOK
  <2>4. stamped[n] <= stamped'[n] /\ stamped'[n] <= uuids' /\ uuids <= uuids'
    BY <1>1, <2>3
  <2>. HIDE DEF new
  <2>5. doubled'[n] \/ \A e \in nodes' : e.node = n => e = new
    BY <2>2 DEF Documents
  <2>. QED
    BY <2>1, <2>2, <2>3, <2>4, <2>5, NewDocument
<1>6. CASE Inserts(n, 0) /\ uuids' = uuids + 1 /\ UNCHANGED <<stamped, dirty>>
  BY <1>4, <1>6
<1>7. CASE Inserts(n, uuids + 1) /\ Stamps(n)
  <2>1. stamped'[n] = uuids + 1
    BY <1>7 DEF Stamps, TypeOK
  <2>. QED
    BY <1>4, <1>7, <2>1 DEF Stamps
<1>. QED
  BY <1>2, <1>3, <1>5, <1>6, <1>7 DEF NodeStep

LEMMA DocumentsKept ==
  ASSUME UNCHANGED <<nodes, uuids, stamped, doubled>>, Documents
  PROVE  Documents'
BY DEF Documents

LEMMA DocumentsNext == TypeOK /\ Documents /\ [Next]_vars => Documents'
<1>. SUFFICES ASSUME TypeOK, Documents, [Next]_vars PROVE Documents'
  OBVIOUS
<1>. USE DEF dbVars
<1>1. TypeOK'
  BY NextType
<1>2. CASE \E h \in Handlers : \/ DeleteNode(h) \/ UpdateAddress(h) \/ InsertAddress(h)
                              \/ UpdateVersion(h) \/ InsertVersion(h)
  BY <1>1, <1>2, NodeSteps, NodeStepDocuments
<1>3. CASE \E h \in Handlers : \/ FindOne(h) \/ ReplaceOne(h) \/ DeleteOne(h)
                              \/ DeleteEndpoints(h) \/ DeleteMany(h)
  BY <1>3, DocumentsKept
     DEF FindOne, ReplaceOne, DeleteOne, DeleteEndpoints, DeleteMany, Write
<1>4. CASE \E h \in Handlers : Receive(h)
  BY <1>4, DocumentsKept
     DEF Receive, Begin, PutConfigListeners, PutConfigClusters,
         PutConfigSecrets, PutConfigEndpoints, PutConfigEndpointsNamed,
         DeleteConfigListeners, DeleteConfigClusters, DeleteConfigSecrets,
         DeleteConfigEndpoints, DeleteConfigNodes, PutConfigNode
<1>5. CASE Main \/ Start \/ Crash \/ UNCHANGED vars
  BY <1>5, DocumentsKept
     DEF Main, FindNodes, BootNext, Watch, NextEvent, ReadCollection, Publish,
         Start, Crash, vars
<1>. QED
  BY <1>2, <1>3, <1>4, <1>5 DEF Next, Serve

-----------------------------------------------------------------------------
(* VersionIdentifiesContent *)

VInv == TypeOK /\ Documents /\ VersionsKnown /\ LoadMatches
          /\ VersionIdentifiesContent

LEMMA VInvInit == Init => VInv
BY InitType DEF Init, VInv, Documents, VersionsKnown, LoadMatches,
   VersionIdentifiesContent, NoSnapshot

\* A handler only ever makes the version of a node younger.
LEMMA StampedGrows ==
  ASSUME TypeOK, Documents, HandlerStep, NEW n \in Nodes, NEW v \in Nat,
         v <= stamped[n]
  PROVE  v <= stamped'[n] /\ v # uuids + 1
<1>1. stamped'[n] \in {stamped[n], uuids + 1} /\ stamped[n] <= uuids
  BY DEF HandlerStep, Effect, Documents
<1>2. uuids \in Nat /\ stamped[n] \in Nat
  BY DEF TypeOK
<1>. QED
  BY <1>1, <1>2

LEMMA VInvHandler ==
  ASSUME VInv, HandlerStep, TypeOK', Documents'
  PROVE  VInv'
<1>. USE DEF mainVars
<1>1. VersionsKnown'
  <2>1. ASSUME NEW n \in Nodes PROVE snap'[n].version <= stamped'[n]
    <3>1. snap[n].version \in Nat /\ snap[n].version <= stamped[n] /\ snap' = snap
      BY DEF VInv, VersionsKnown, TypeOK, Snapshots, HandlerStep
    <3>. HIDE DEF mainVars
    <3>. QED
      BY <3>1, StampedGrows DEF VInv
  <2>2. ASSUME NEW d \in todo PROVE d.version <= stamped'[d.node]
    <3>1. d.node \in Nodes /\ d.version \in Nat /\ d.version <= stamped[d.node]
      BY DEF VInv, VersionsKnown, TypeOK, NodeDocs
    <3>. QED
      BY <3>1, StampedGrows DEF VInv
  <2>3. ASSUME mpc = "load" PROVE load.version <= stamped'[load.node]
    <3>1. /\ load.node \in Nodes /\ load.version \in Nat
          /\ load.version <= stamped[load.node]
      BY <2>3 DEF VInv, VersionsKnown, TypeOK, Loads
    <3>. QED
      BY <3>1, StampedGrows DEF VInv
  <2>. QED
    BY <2>1, <2>2, <2>3 DEF VersionsKnown, HandlerStep
<1>2. LoadMatches'
  <2>. SUFFICES ASSUME mpc = "load", load.intact, ~dirty'[load.node],
                       load.version = stamped'[load.node],
                       load.version # 0
                PROVE  \A i \in 1..4 : i < load.step =>
                         load.docs[ReadOrder[i]] = store'[load.node][ReadOrder[i]]
    BY DEF LoadMatches, HandlerStep
  <2>1. /\ load.node \in Nodes /\ load.version \in Nat
        /\ load.version <= stamped[load.node]
    BY DEF VInv, TypeOK, Loads, VersionsKnown
  <2>2. load.version # uuids + 1
    BY <2>1, StampedGrows DEF VInv
  <2>3. /\ store'[load.node] = store[load.node]
        /\ stamped[load.node] = load.version /\ ~dirty[load.node]
    BY <2>1, <2>2 DEF HandlerStep, Effect
  <2>. QED
    BY <2>3 DEF VInv, LoadMatches
<1>3. VersionIdentifiesContent'
  <2>. SUFFICES ASSUME NEW n \in Nodes, snap[n].served, snap[n].intact,
                       ~dirty'[n], snap[n].version = stamped'[n],
                       stamped'[n] # 0
                PROVE  snap[n].docs = store'[n]
    BY DEF VersionIdentifiesContent, HandlerStep
  <2>1. snap[n].version \in Nat /\ snap[n].version <= stamped[n]
    BY DEF VInv, TypeOK, Snapshots, VersionsKnown
  <2>2. snap[n].version # uuids + 1
    BY <2>1, StampedGrows DEF VInv
  <2>3. /\ store'[n] = store[n]
        /\ stamped[n] = snap[n].version /\ ~dirty[n]
    BY <2>2 DEF HandlerStep, Effect
  <2>. QED
    BY <2>3 DEF VInv, VersionIdentifiesContent
<1>. QED
  BY <1>1, <1>2, <1>3 DEF VInv

\* Reading one more collection keeps what was read so far.
LEMMA VInvRead ==
  ASSUME VInv, ReadCollection, TypeOK', Documents'
  PROVE  VInv'
<1>. DEFINE c == ReadOrder[load.step]
            found == store[load.node][c]
<1>1. /\ load \in Loads /\ load.step \in 1..4 /\ load.node \in Nodes
      /\ load.docs \in Configs /\ mpc = "load"
  <2>1. load \in Loads /\ load.step < 5 /\ mpc = "load"
    BY DEF ReadCollection, VInv, TypeOK
  <2>. QED
    BY <2>1 DEF Loads
<1>2. UNCHANGED <<store, stamped, dirty, snap, mpc, todo>>
  BY DEF ReadCollection, dbVars
<1>3. PICK lost \in SUBSET {x \in Names : found[x] # NoDoc} :
        load' = [load EXCEPT
             !.step = @ + 1,
             !.intact = @ /\ lost = {},
             !.docs = [@ EXCEPT ![c] =
                [x \in Names |-> IF x \in lost THEN NoDoc ELSE found[x]]]]
  BY DEF ReadCollection
<1>4. /\ load'.node = load.node /\ load'.version = load.version
      /\ load'.step = load.step + 1
      /\ load'.docs = [load.docs EXCEPT ![c] =
                        [x \in Names |-> IF x \in lost THEN NoDoc ELSE found[x]]]
  BY <1>1, <1>3 DEF Loads
<1>5. load'.intact => load.intact /\ lost = {}
  BY <1>1, <1>3, Zenon DEF Loads
<1>6. found \in Contents /\ c \in Collections
  <2>1. c \in Collections
    BY <1>1 DEF ReadOrder, Collections
  <2>2. store[load.node] \in Configs
    BY <1>1 DEF VInv, TypeOK
  <2>. QED
    BY <2>1, <2>2 DEF Configs
<1>7. LoadMatches'
  <2>. SUFFICES ASSUME load'.intact, ~dirty[load.node],
                       load.version = stamped[load.node],
                       load.version # 0,
                       NEW i \in 1..4, i < load.step + 1
                PROVE  load'.docs[ReadOrder[i]] = store[load.node][ReadOrder[i]]
    BY <1>2, <1>4 DEF LoadMatches
  <2>1. CASE i = load.step
    <3>1. lost = {}
      BY <1>5
    <3>2. load'.docs[c] = [x \in Names |-> IF x \in lost THEN NoDoc ELSE found[x]]
      BY <1>1, <1>4, <1>6 DEF Configs
    <3>3. load'.docs[c] = [x \in Names |-> found[x]]
      BY <3>1, <3>2
    <3>. QED
      BY <1>6, <2>1, <3>3 DEF Contents
  <2>2. CASE i # load.step
    <3>1. i < load.step /\ ReadOrder[i] # c /\ ReadOrder[i] \in Collections
      BY <1>1, <2>2 DEF ReadOrder, Collections
    <3>2. load'.docs[ReadOrder[i]] = load.docs[ReadOrder[i]]
      BY <1>1, <1>4, <3>1 DEF Configs
    <3>. QED
      BY <1>1, <1>5, <3>1, <3>2 DEF VInv, LoadMatches
  <2>. QED
    BY <2>1, <2>2
<1>8. VersionsKnown'
  BY <1>2, <1>4 DEF VInv, VersionsKnown
<1>9. VersionIdentifiesContent'
  BY <1>2 DEF VInv, VersionIdentifiesContent
<1>. QED
  BY <1>7, <1>8, <1>9 DEF VInv

\* What SetSnapshot installs has been read completely.
LEMMA VInvPublish ==
  ASSUME VInv, Publish, TypeOK', Documents'
  PROVE  VInv'
<1>. DEFINE m == load.node
<1>1. load \in Loads /\ load.step = 5 /\ m \in Nodes /\ mpc = "load"
  BY DEF Publish, VInv, TypeOK, Loads
<1>2. UNCHANGED <<store, stamped, dirty, todo>> /\ mpc' # "load"
  BY DEF Publish, dbVars
<1>3. ASSUME NEW n \in Nodes
      PROVE  \/ snap'[n] = snap[n]
             \/ /\ n = m
                /\ snap'[n] = [served |-> TRUE, version |-> load.version,
                               intact |-> load.intact, docs |-> load.docs]
  BY <1>1 DEF Publish, VInv, TypeOK
<1>4. VersionsKnown'
  BY <1>1, <1>2, <1>3 DEF VInv, VersionsKnown
<1>5. LoadMatches'
  BY <1>2 DEF LoadMatches
<1>6. VersionIdentifiesContent'
  <2>. SUFFICES ASSUME NEW n \in Nodes, snap'[n].served, snap'[n].intact,
                       ~dirty[n], snap'[n].version = stamped[n],
                       stamped[n] # 0
                PROVE  snap'[n].docs = store[n]
    BY <1>2 DEF VersionIdentifiesContent
  <2>1. CASE snap'[n] = snap[n]
    BY <2>1 DEF VInv, VersionIdentifiesContent
  <2>2. CASE /\ n = m
             /\ snap'[n] = [served |-> TRUE, version |-> load.version,
                            intact |-> load.intact, docs |-> load.docs]
    <3>1. load.docs \in Configs /\ store[n] \in Configs
      BY <1>1 DEF VInv, TypeOK, Loads
    <3>2. \A i \in 1..4 : load.docs[ReadOrder[i]] = store[n][ReadOrder[i]]
      BY <1>1, <2>2 DEF VInv, LoadMatches
    <3>3. \A c \in Collections : \E i \in 1..4 : c = ReadOrder[i]
      BY DEF Collections, ReadOrder
    <3>4. \A c \in Collections : load.docs[c] = store[n][c]
      BY <3>2, <3>3
    <3>5. load.docs = store[n]
      BY <3>1, <3>4 DEF Configs
    <3>. QED
      BY <2>2, <3>5
  <2>. QED
    BY <1>3, <2>1, <2>2
<1>. QED
  BY <1>4, <1>5, <1>6 DEF VInv

LEMMA VInvMain ==
  ASSUME VInv, Main \/ Start \/ Crash, TypeOK', Documents'
  PROVE  VInv'
<1>. USE DEF VInv, dbVars
<1>0. \A d \in nodes : d.node \in Nodes /\ d.version <= stamped[d.node]
  BY DEF TypeOK, NodeDocs, Documents
<1>1. CASE FindNodes
  <2>1. \A d \in todo' : d.version <= stamped[d.node]
    BY <1>0, <1>1 DEF FindNodes
  <2>. QED
    BY <1>1, <2>1 DEF FindNodes, VersionsKnown, LoadMatches, VersionIdentifiesContent
<1>2. CASE BootNext
  <2>1. load'.version <= stamped[load'.node] /\ load'.step = 1 /\ todo' \subseteq todo
    BY <1>2 DEF BootNext, Begun, VersionsKnown
  <2>. QED
    BY <1>2, <2>1 DEF BootNext, VersionsKnown, LoadMatches, VersionIdentifiesContent
<1>3. CASE Watch
  BY <1>3 DEF Watch, VersionsKnown, LoadMatches, VersionIdentifiesContent
<1>4. CASE NextEvent
  <2>1. UNCHANGED <<store, stamped, dirty, snap, todo>> /\ mpc = "idle"
    BY <1>4 DEF NextEvent
  <2>2. CASE UNCHANGED <<load, mpc>>
    BY <2>1, <2>2 DEF VersionsKnown, LoadMatches, VersionIdentifiesContent
  <2>3. CASE \E d \in nodes : load' = Begun(d.node, d.version)
    <3>1. PICK d \in nodes : load' = Begun(d.node, d.version)
      BY <2>3
    <3>2. load'.version <= stamped[load'.node] /\ load'.step = 1
      BY <1>0, <3>1 DEF Begun
    <3>. QED
      BY <2>1, <3>2 DEF VersionsKnown, LoadMatches, VersionIdentifiesContent
  <2>. QED
    BY <1>4, <2>2, <2>3 DEF NextEvent
<1>5. CASE Start
  BY <1>5 DEF Start, VersionsKnown, LoadMatches, VersionIdentifiesContent
<1>6. CASE Crash
  <2>1. \A n \in Nodes : snap'[n].version = 0 /\ ~snap'[n].served
    BY <1>6 DEF Crash, NoSnapshot
  <2>2. mpc' = "down" /\ todo' = {} /\ UNCHANGED <<store, stamped, dirty>>
    BY <1>6 DEF Crash
  <2>3. \A n \in Nodes : stamped[n] \in Nat
    BY DEF TypeOK
  <2>. QED
    BY <2>1, <2>2, <2>3 DEF VersionsKnown, LoadMatches, VersionIdentifiesContent
<1>. QED
  BY <1>1, <1>2, <1>3, <1>4, <1>5, <1>6, VInvRead, VInvPublish DEF Main

LEMMA VInvNext == VInv /\ [Next]_vars => VInv'
<1>. SUFFICES ASSUME VInv, [Next]_vars PROVE VInv'
  OBVIOUS
<1>1. TypeOK' /\ Documents'
  BY NextType, DocumentsNext DEF VInv
<1>2. CASE UNCHANGED vars
  BY <1>1, <1>2 DEF vars, dbVars, mainVars, VInv, VersionsKnown, LoadMatches,
                    VersionIdentifiesContent
<1>3. CASE \E h \in Handlers : Receive(h) \/ Serve(h)
  BY <1>1, <1>3, ReceiveEffect, ServeEffect, VInvHandler DEF VInv
<1>. QED
  BY <1>1, <1>2, <1>3, VInvMain DEF Next

\* Under the current version of an unchanging node the cache serves exactly
\* the stored configuration, whatever the interleaving of the handlers, the
\* reads of LoadNode and any failures.
THEOREM CurrentVersionIsContent == Spec => []VersionIdentifiesContent
<1>1. VInv => VersionIdentifiesContent
  BY DEF VInv
<1>. QED
  BY <1>1, VInvInit, VInvNext, PTL DEF Spec

-----------------------------------------------------------------------------
(* ChangesAreVersioned *)

\* The disjunction of ChangesInProgress for one node.
Excused(n) ==
    \/ broken[n]
    \/ \A d \in DocsOf(n) : d.version = 0
    \/ doubled[n]
    \/ \E h \in Handlers : req[h].pc \in Committed /\ req[h].node = n

\* A step of h disturbs the node h serves and no other.
LEMMA OneNode ==
  ASSUME TypeOK, ChangesInProgress, NEW h \in Handlers,
         NEW m \in Nodes, req[h].pc \in Committed => req[h].node = m,
         \A k \in Handlers : k # h => req'[k] = req[k],
         \A n \in Nodes : n # m => /\ dirty'[n] => dirty[n]
                                   /\ broken[n] => broken'[n]
                                   /\ doubled[n] => doubled'[n]
                                   /\ DocsOf(n)' = DocsOf(n),
         dirty'[m] => Excused(m)'
  PROVE  ChangesInProgress'
<1>. SUFFICES ASSUME NEW n \in Nodes, dirty'[n], n # m PROVE Excused(n)'
  BY DEF ChangesInProgress, Excused
<1>1. Excused(n)
  BY DEF ChangesInProgress, Excused
<1>2. CASE broken[n] \/ doubled[n]
  BY <1>2 DEF Excused
<1>2a. CASE \A d \in DocsOf(n) : d.version = 0
  BY <1>2a DEF Excused
<1>3. CASE \E g \in Handlers : req[g].pc \in Committed /\ req[g].node = n
  <2>1. PICK g \in Handlers : req[g].pc \in Committed /\ req[g].node = n
    BY <1>3
  <2>2. g # h
    BY <2>1
  <2>3. req'[g] = req[g]
    BY <2>2
  <2>. QED
    BY <2>1, <2>3 DEF Excused
<1>. QED
  BY <1>1, <1>2, <1>2a, <1>3 DEF Excused

LEMMA ReceiveInProgress ==
  ASSUME TypeOK, ChangesInProgress, NEW h \in Handlers, Receive(h)
  PROVE  ChangesInProgress'
<1>1. /\ UNCHANGED dbVars /\ req[h] = Idle
      /\ \A k \in Handlers : k # h => req'[k] = req[k]
  BY DEF TypeOK, Receive, Begin, PutConfigListeners, PutConfigClusters,
         PutConfigSecrets, PutConfigEndpoints, PutConfigEndpointsNamed,
         DeleteConfigListeners, DeleteConfigClusters, DeleteConfigSecrets,
         DeleteConfigEndpoints, DeleteConfigNodes, PutConfigNode
<1>2. req[h].pc \notin Committed
  BY <1>1 DEF Idle, Committed
<1>3. ASSUME NEW n \in Nodes, dirty'[n] PROVE Excused(n)'
  <2>1. Excused(n)
    BY <1>1, <1>3 DEF ChangesInProgress, Excused, dbVars, DocsOf
  <2>2. \A g \in Handlers : req[g].pc \in Committed => req'[g] = req[g]
    BY <1>1, <1>2
  <2>. QED
    BY <1>1, <2>1, <2>2 DEF Excused, dbVars, DocsOf
<1>. QED
  BY <1>3 DEF ChangesInProgress, Excused

LEMMA FailExcused ==
  ASSUME TypeOK, NEW h \in Handlers, req[h].node \in Nodes, Fail(h)
  PROVE  /\ broken'[req[h].node]
         /\ \A n \in Nodes : n # req[h].node => broken'[n] = broken[n]
         /\ \A k \in Handlers : k # h => req'[k] = req[k]
BY DEF TypeOK, Fail, Return

LEMMA WriteInProgress ==
  ASSUME TypeOK, ChangesInProgress, NEW h \in Handlers,
         NEW m \in Nodes, m = req[h].node,
         NEW config, NEW r,
         r[h].pc \in Committed /\ r[h].node = m,
         \A k \in Handlers : k # h => r[k] = req[k],
         Write(h, config, req' = r)
  PROVE  ChangesInProgress'
<1>1. /\ UNCHANGED <<nodes, doubled>>
      /\ \A n \in Nodes : n # m => dirty'[n] = dirty[n]
      /\ \A n \in Nodes : DocsOf(n)' = DocsOf(n)
  BY DEF Write, Apply, TypeOK, DocsOf
<1>2. CASE req' = r /\ broken' = broken
  <2>1. Excused(m)'
    BY <1>2 DEF Excused
  <2>. QED
    BY <1>1, <1>2, <2>1, OneNode
<1>3. CASE Fail(h)
  <2>1. /\ broken'[m] /\ \A n \in Nodes : n # m => broken'[n] = broken[n]
        /\ \A k \in Handlers : k # h => req'[k] = req[k]
    BY <1>3, FailExcused
  <2>2. Excused(m)'
    BY <1>1, <2>1 DEF Excused
  <2>. QED
    BY <1>1, <2>1, <2>2, OneNode
<1>. QED
  BY <1>2, <1>3 DEF Write

\* What a step of n does to the documents of the others, and to those of n
\* when it gives n no version.
LEMMA NodeStepDocs ==
  ASSUME TypeOK, NEW n \in Nodes, NodeStep(n)
  PROVE  /\ \A k \in Nodes :
              k # n => /\ DocsOf(k)' = DocsOf(k)
                       /\ doubled[k] => doubled'[k]
                       /\ dirty'[k] = dirty[k]
         /\ \/ ~dirty'[n]
            \/ /\ \A d \in DocsOf(n)' : d \in DocsOf(n) \/ d.version = 0
               /\ dirty'[n] = dirty[n] /\ (doubled[n] => doubled'[n])
<1>0. \A d \in DocsOf(n) : /\ d \in nodes /\ d.node = n
                           /\ [d EXCEPT !.version = d.version] = d
                           /\ \A v : [d EXCEPT !.version = v].node = n
  BY DEF DocsOf, TypeOK, NodeDocs
<1>1. CASE UNCHANGED <<nodes, uuids, stamped, dirty, doubled>>
  BY <1>1 DEF DocsOf
<1>2. ASSUME NEW d \in DocsOf(n), nodes' = nodes \ {d} \/ Updates(d, d.version),
             UNCHANGED <<uuids, stamped, dirty, doubled>>
      PROVE  \A k \in Nodes : IF k = n THEN DocsOf(k)' \subseteq DocsOf(k)
                                        ELSE DocsOf(k)' = DocsOf(k)
  BY <1>0, <1>2 DEF DocsOf, Updates
<1>3. ASSUME Inserts(n, 0), UNCHANGED <<stamped, dirty>>
      PROVE  /\ \A k \in Nodes : k # n => DocsOf(k)' = DocsOf(k)
             /\ \A d \in DocsOf(n)' : d \in DocsOf(n) \/ d.version = 0
  BY <1>3 DEF DocsOf, Inserts
<1>4. ASSUME Inserts(n, uuids + 1)
      PROVE  \A k \in Nodes : k # n => DocsOf(k)' = DocsOf(k)
  BY <1>4 DEF DocsOf, Inserts
<1>5. ASSUME NEW d \in DocsOf(n), Updates(d, uuids + 1)
      PROVE  \A k \in Nodes : k # n => DocsOf(k)' = DocsOf(k)
  BY <1>0, <1>5 DEF DocsOf, Updates
<1>6. Stamps(n) => ~dirty'[n] /\ \A k \in Nodes : k # n => dirty'[k] = dirty[k]
  BY DEF Stamps, TypeOK
<1>7. \A v : Inserts(n, v) => \A k \in Nodes : doubled[k] => doubled'[k]
  BY DEF Inserts
<1>8. CASE /\ \E d \in DocsOf(n) : nodes' = nodes \ {d} \/ Updates(d, d.version)
           /\ UNCHANGED <<uuids, stamped, dirty, doubled>>
  BY <1>2, <1>8
<1>9. CASE Inserts(n, 0) /\ uuids' = uuids + 1 /\ UNCHANGED <<stamped, dirty>>
  BY <1>3, <1>7, <1>9
<1>10. CASE Inserts(n, uuids + 1) /\ Stamps(n)
  BY <1>4, <1>6, <1>7, <1>10
<1>11. CASE (\E d \in DocsOf(n) : Updates(d, uuids + 1)) /\ Stamps(n)
  BY <1>5, <1>6, <1>11 DEF Updates
<1>. QED
  BY <1>1, <1>8, <1>9, <1>10, <1>11 DEF NodeStep

LEMMA ServeInProgress ==
  ASSUME TypeOK, Documents, ChangesInProgress, NEW h \in Handlers, Serve(h)
  PROVE  ChangesInProgress'
<1>1. PICK m \in Nodes : req[h] \in Requests /\ m = req[h].node
  <2>1. PICK pc \in Steps : At(h, pc)
    BY DEF Serve, FindOne, ReplaceOne, DeleteOne, DeleteEndpoints, DeleteMany,
           DeleteNode, UpdateAddress, InsertAddress, UpdateVersion,
           InsertVersion, Steps
  <2>. QED
    BY <2>1, Serving DEF Requests
<1>2. /\ \A pc \in Steps : [req EXCEPT ![h].pc = pc][h].pc = pc
      /\ \A pc \in Steps : [req EXCEPT ![h].pc = pc][h].node = m
      /\ \A pc \in Steps, k \in Handlers :
            k # h => [req EXCEPT ![h].pc = pc][k] = req[k]
  BY <1>1 DEF TypeOK, Requests
<1>3. Committed \subseteq Steps
  BY DEF Committed, Steps
<1>4. Return(h) => \A k \in Handlers : k # h => req'[k] = req[k]
  BY DEF TypeOK, Return
<1>5. CASE ReplaceOne(h) \/ DeleteEndpoints(h)
  <2>1. "version" \in Committed
    BY DEF Committed
  <2>. DEFINE r == [req EXCEPT ![h].pc = "version"]
  <2>2. PICK config : Write(h, config, req' = r)
    BY <1>5 DEF ReplaceOne, DeleteEndpoints, Goto
  <2>3. r[h].pc \in Committed /\ r[h].node = m
        /\ \A k \in Handlers : k # h => r[k] = req[k]
    BY <1>2, <1>3, <2>1
  <2>. HIDE DEF r
  <2>. QED
    BY <1>1, <2>2, <2>3, WriteInProgress
<1>6. CASE DeleteOne(h)
  <2>. DEFINE pc == IF req[h].coll = "clusters" THEN "endpoints" ELSE "version"
              r == [req EXCEPT ![h].pc = pc]
  <2>1. pc \in Committed
    BY DEF Committed
  <2>2. PICK config : Write(h, config, req' = r)
    BY <1>6 DEF DeleteOne, Goto
  <2>. HIDE DEF pc
  <2>3. r[h].pc \in Committed /\ r[h].node = m
        /\ \A k \in Handlers : k # h => r[k] = req[k]
    BY <1>2, <1>3, <2>1
  <2>. HIDE DEF r
  <2>. QED
    BY <1>1, <2>2, <2>3, WriteInProgress
<1>7. CASE DeleteMany(h)
  <2>. DEFINE next == IF req[h].coll = "listeners" THEN "clusters" ELSE "endpoints"
              r == IF req[h].coll = "endpoints" THEN [req EXCEPT ![h].pc = "node"]
                                                ELSE [req EXCEPT ![h].coll = next]
  <2>1. PICK config : Write(h, config, req' = r)
    BY <1>7 DEF DeleteMany, Write, Goto
  <2>2. req[h].pc = "deleteMany"
    BY <1>7 DEF DeleteMany, At
  <2>3. r[h].pc \in Committed /\ r[h].node = m
        /\ \A k \in Handlers : k # h => r[k] = req[k]
    BY <1>1, <2>2 DEF TypeOK, Requests, Committed
  <2>. HIDE DEF r
  <2>. QED
    BY <1>1, <2>1, <2>3, WriteInProgress
<1>8. CASE FindOne(h)
  <2>1. UNCHANGED dbVars /\ req[h].pc = "find"
        /\ \A k \in Handlers : k # h => req'[k] = req[k]
    BY <1>8 DEF FindOne, At, Goto, TypeOK
  <2>2. \A g \in Handlers : req[g].pc \in Committed => req'[g] = req[g]
    BY <2>1 DEF Committed
  <2>. QED
    BY <2>1, <2>2 DEF ChangesInProgress, dbVars, DocsOf
<1>9. ASSUME NodeStep(m), dirty'[m] => Excused(m)',
             \A k \in Handlers : k # h => req'[k] = req[k],
             \A n \in Nodes : n # m => broken'[n] = broken[n]
      PROVE  ChangesInProgress'
  <2>1. \A n \in Nodes : n # m => /\ dirty'[n] => dirty[n]
                                  /\ broken[n] => broken'[n]
                                  /\ doubled[n] => doubled'[n]
                                  /\ DocsOf(n)' = DocsOf(n)
    BY <1>9, NodeStepDocs
  <2>. QED
    BY <1>1, <1>9, <2>1, OneNode
<1>10. ASSUME NodeStep(m), Fail(h)
       PROVE  ChangesInProgress'
  <2>1. /\ broken'[m] /\ \A n \in Nodes : n # m => broken'[n] = broken[n]
        /\ \A k \in Handlers : k # h => req'[k] = req[k]
    BY <1>1, <1>10, FailExcused
  <2>2. Excused(m)'
    BY <2>1 DEF Excused
  <2>. QED
    BY <1>9, <1>10, <2>1, <2>2
<1>11. CASE DeleteNode(h)
  <2>1. NodeStep(m)
    BY <1>1, <1>11, NodeSteps
  <2>2. ASSUME Return(h), broken' = broken,
               \/ \E d \in DocsOf(m) : nodes' = nodes \ {d}
               \/ DocsOf(m) = {} /\ nodes' = nodes
        PROVE  ChangesInProgress'
    <3>1. doubled' = doubled
      BY <1>11 DEF DeleteNode
    <3>2. doubled[m] \/ DocsOf(m)' = {}
      BY <2>2 DEF Documents, DocsOf
    <3>3. Excused(m)'
      BY <3>1, <3>2 DEF Excused
    <3>. QED
      BY <1>4, <1>9, <2>1, <2>2, <3>3
  <2>. QED
    BY <1>1, <1>10, <1>11, <2>1, <2>2 DEF DeleteNode
<1>12. CASE \/ UpdateAddress(h) \/ InsertAddress(h)
            \/ UpdateVersion(h) \/ InsertVersion(h)
  <2>1. NodeStep(m)
    BY <1>1, <1>12, NodeSteps
  <2>2. CASE Return(h) /\ ~dirty'[m] /\ broken' = [broken EXCEPT ![m] = FALSE]
    BY <1>1, <1>4, <1>9, <2>1, <2>2 DEF TypeOK
  <2>3. CASE req[h].pc \notin Committed /\ broken' = broken /\ dirty' = dirty
               /\ \A k \in Handlers : k # h => req'[k] = req[k]
    <3>1. ASSUME dirty'[m], Excused(m) PROVE Excused(m)'
      <4>1. \A g \in Handlers : req[g].pc \in Committed => req'[g] = req[g]
        BY <2>3
      <4>2. /\ \A d \in DocsOf(m)' : d \in DocsOf(m) \/ d.version = 0
            /\ doubled[m] => doubled'[m]
        BY <2>1, <3>1, NodeStepDocs
      <4>. QED
        BY <2>3, <3>1, <4>1, <4>2 DEF Excused
    <3>2. dirty[m] => Excused(m)
      BY DEF ChangesInProgress, Excused
    <3>. QED
      BY <1>9, <2>1, <2>3, <3>1, <3>2
  <2>4. CASE Goto(h, "insertVersion") /\ broken' = broken
    <3>1. Excused(m)'
      <4>1. "insertVersion" \in Committed
        BY DEF Committed
      <4>2. req'[h].pc \in Committed /\ req'[h].node = m
        BY <1>2, <1>3, <2>4, <4>1 DEF Goto
      <4>. QED
        BY <4>2 DEF Excused
    <3>2. \A k \in Handlers : k # h => req'[k] = req[k]
      BY <1>2, <1>3, <2>4 DEF Goto, TypeOK
    <3>. QED
      BY <1>9, <2>1, <2>4, <3>1, <3>2
  <2>5. CASE UpdateAddress(h)
    <3>1. req[h].pc \notin Committed /\ dirty' = dirty
      BY <2>5 DEF UpdateAddress, At, Committed
    <3>2. \/ Fail(h)
          \/ broken' = broken /\ (Return(h) \/ Goto(h, "insertAddress"))
      BY <2>5 DEF UpdateAddress
    <3>3. Goto(h, "insertAddress") => \A k \in Handlers : k # h => req'[k] = req[k]
      BY DEF Goto, TypeOK
    <3>. QED
      BY <1>4, <1>10, <2>1, <2>3, <3>1, <3>2, <3>3
  <2>6. CASE InsertAddress(h)
    <3>1. req[h].pc \notin Committed /\ dirty' = dirty
      BY <2>6 DEF InsertAddress, At, Committed
    <3>2. Fail(h) \/ (broken' = broken /\ Return(h))
      BY <2>6 DEF InsertAddress
    <3>. QED
      BY <1>4, <1>10, <2>1, <2>3, <3>1, <3>2
  <2>7. CASE UpdateVersion(h) \/ InsertVersion(h)
    <3>1. Stamp(h, m) => ~dirty'[m]
      BY DEF Stamp, TypeOK
    <3>2. \/ Fail(h)
          \/ Goto(h, "insertVersion") /\ broken' = broken
          \/ Return(h) /\ broken' = [broken EXCEPT ![m] = FALSE] /\ Stamp(h, m)
      BY <1>1, <2>7 DEF UpdateVersion, InsertVersion, Stamp
    <3>. QED
      BY <1>10, <2>1, <2>2, <2>4, <3>1, <3>2
  <2>. QED
    BY <1>12, <2>5, <2>6, <2>7
<1>. QED
  BY <1>5, <1>6, <1>7, <1>8, <1>11, <1>12 DEF Serve

LEMMA InProgressNext ==
  ASSUME TypeOK, Documents, ChangesInProgress, [Next]_vars
  PROVE  ChangesInProgress'
<1>1. CASE Main \/ Start \/ UNCHANGED vars
  <2>1. UNCHANGED <<dbVars, req>>
    BY <1>1 DEF Main, FindNodes, BootNext, Watch, NextEvent, ReadCollection,
                Publish, Start, vars, reqVars
  <2>. QED
    BY <2>1 DEF ChangesInProgress, dbVars, DocsOf
<1>2. CASE Crash
  <2>. SUFFICES ASSUME NEW n \in Nodes, dirty[n] PROVE Excused(n)'
    BY <1>2 DEF Crash, ChangesInProgress, Excused, DocsOf
  <2>1. Excused(n)
    BY DEF ChangesInProgress, Excused
  <2>2. broken'[n] = (broken[n] \/ \E h \in Handlers : req[h] # Idle /\ req[h].node = n)
    BY <1>2, Zenon DEF Crash
  <2>3. \A h \in Handlers : req[h].pc \in Committed => req[h] # Idle
    BY DEF Idle, Committed
  <2>. QED
    BY <1>2, <2>1, <2>2, <2>3 DEF Crash, Excused, DocsOf
<1>. QED
  BY <1>1, <1>2, ReceiveInProgress, ServeInProgress DEF Next

\* A change of the collections is never left without a version of its own
\* except by a failed request or the deletion of a node with two documents,
\* for any number of concurrent handlers.
THEOREM EveryChangeIsVersioned == Spec => []ChangesAreVersioned
<1>. DEFINE Inv == TypeOK /\ Documents /\ ChangesInProgress
<1>1. Init => Inv
  BY VInvInit DEF Init, ChangesInProgress, VInv
<1>2. Inv => ChangesAreVersioned
  <2>1. \A h \in Handlers : req[h].pc \in Committed => req[h] # Idle
    BY DEF Idle, Committed
  <2>. QED
    BY <2>1 DEF ChangesInProgress, ChangesAreVersioned, Active
<1>3. Inv /\ [Next]_vars => Inv'
  BY NextType, DocumentsNext, InProgressNext
<1>. QED
  BY <1>1, <1>2, <1>3, PTL DEF Spec

-----------------------------------------------------------------------------
(* NoVersionRollback *)

OInv == VInv /\ InOrder

LEMMA OInvInit == Init => InOrder
BY DEF Init, InOrder, NoSnapshot

\* A node that has had two documents has had them for good.
LEMMA OInvKept ==
  ASSUME OInv, UNCHANGED <<mpc, todo, load, snap, streaming>>,
         \A n \in Nodes : doubled[n] => doubled'[n]
  PROVE  InOrder'
<1>1. \A d \in todo : d.node \in Nodes
  BY DEF OInv, VInv, TypeOK, NodeDocs
<1>2. mpc = "load" => load.node \in Nodes
  BY DEF OInv, VInv, TypeOK, Loads
<1>. QED
  BY <1>1, <1>2 DEF OInv, InOrder

LEMMA OInvMain ==
  ASSUME OInv, Main \/ Start \/ Crash
  PROVE  InOrder'
<1>. USE DEF OInv, VInv, dbVars, streamVars
<1>0. /\ \A d \in nodes : d.node \in Nodes /\ d.version \in Nat
      /\ \A n \in Nodes : stamped[n] \in Nat /\ snap[n].version \in Nat
  BY DEF TypeOK, NodeDocs, Snapshots
<1>1. CASE FindNodes
  <2>1. UNCHANGED <<doubled, load, snap, streaming>> /\ mpc = "find" /\ mpc' = "boot"
        /\ todo' \subseteq nodes
    BY <1>1 DEF FindNodes
  <2>2. \A d \in todo' : snap[d.node] = NoSnapshot
    BY <1>0, <2>1 DEF InOrder
  <2>3. \A d, e \in todo' : d.node = e.node => doubled[d.node] \/ d = e
    BY <2>1 DEF Documents
  <2>. QED
    BY <2>1, <2>2, <2>3 DEF InOrder
<1>2. CASE BootNext
  <2>1. PICK d \in todo : todo' = todo \ {d} /\ load' = Begun(d.node, d.version)
    BY <1>2 DEF BootNext
  <2>2. UNCHANGED <<doubled, snap, streaming>> /\ mpc' = "load" /\ mpc = "boot"
    BY <1>2 DEF BootNext
  <2>3. load'.node = d.node /\ load'.version = d.version
    BY <2>1 DEF Begun
  <2>4. doubled[d.node] \/ snap[d.node].version <= d.version
    BY <2>1 DEF InOrder, NoSnapshot, TypeOK, NodeDocs
  <2>5. doubled[d.node] \/ \A e \in todo' : e.node # d.node
    BY <2>1 DEF InOrder
  <2>. QED
    BY <2>1, <2>2, <2>3, <2>4, <2>5 DEF InOrder
<1>3. CASE Watch
  BY <1>3 DEF Watch, InOrder
<1>4. CASE NextEvent
  <2>1. UNCHANGED <<doubled, nodes, snap, todo, streaming>> /\ todo = {}
    BY <1>4 DEF NextEvent, InOrder
  <2>2. CASE UNCHANGED <<load, mpc>>
    BY <2>1, <2>2 DEF InOrder
  <2>3. CASE \E d \in nodes : load' = Begun(d.node, d.version) /\ mpc' = "load"
    <3>1. PICK d \in nodes : load' = Begun(d.node, d.version) /\ mpc' = "load"
      BY <2>3
    <3>2. load'.node = d.node /\ load'.version = d.version
      BY <3>1 DEF Begun
    <3>3. \/ doubled[d.node] \/ d.version = 0
          \/ d.version = stamped[d.node] /\ snap[d.node].version <= d.version
      BY <1>0 DEF Documents, VersionsKnown
    <3>. QED
      BY <2>1, <3>1, <3>2, <3>3 DEF InOrder
  <2>. QED
    BY <1>4, <2>2, <2>3 DEF NextEvent
<1>5. CASE ReadCollection
  <2>1. load'.node = load.node /\ load'.version = load.version
    BY <1>5 DEF ReadCollection, TypeOK, Loads
  <2>. QED
    BY <1>5, <2>1 DEF ReadCollection, InOrder
<1>6. CASE Publish
  <2>. DEFINE m == load.node
  <2>1. UNCHANGED <<doubled, todo, streaming>> /\ mpc = "load"
        /\ mpc' \in {"idle", "boot"} /\ (mpc' = "idle" => streaming)
    BY <1>6 DEF Publish
  <2>2. \A n \in Nodes : snap'[n] # snap[n] => n = m
    BY <1>6 DEF Publish, TypeOK
  <2>3. \A d \in todo : d.node \in Nodes /\ (doubled[d.node] \/ d.node # m)
    BY <2>1 DEF InOrder, TypeOK, NodeDocs
  <2>4. \A d \in todo : doubled[d.node] \/ snap'[d.node] = NoSnapshot
    BY <2>2, <2>3 DEF InOrder
  <2>. QED
    BY <2>1, <2>4 DEF InOrder
<1>7. CASE Start
  BY <1>7 DEF Start, InOrder
<1>8. CASE Crash
  BY <1>8 DEF Crash, InOrder, NoSnapshot
<1>. QED
  BY <1>1, <1>2, <1>3, <1>4, <1>5, <1>6, <1>7, <1>8 DEF Main

LEMMA OInvNext == OInv /\ [Next]_vars => InOrder'
<1>. SUFFICES ASSUME OInv, [Next]_vars PROVE InOrder'
  OBVIOUS
<1>1. CASE UNCHANGED vars
  BY <1>1, OInvKept DEF vars, dbVars, mainVars, streamVars
<1>2. CASE \E h \in Handlers : Receive(h) \/ Serve(h)
  <2>1. HandlerStep
    BY <1>2, ReceiveEffect, ServeEffect DEF OInv, VInv
  <2>. QED
    BY <2>1, OInvKept DEF HandlerStep, Effect, mainVars
<1>. QED
  BY <1>1, <1>2, OInvMain DEF Next

Forward ==
    \A n \in Nodes :
      snap[n].served /\ snap'[n].served /\ snap'[n].version # 0
        => snap'[n].version >= snap[n].version \/ doubled[n]

LEMMA StepForward == OInv /\ [Next]_vars => Forward
<1>. SUFFICES ASSUME OInv, [Next]_vars PROVE Forward
  OBVIOUS
<1>2a. \A n \in Nodes : snap[n].version \in Nat
  BY DEF OInv, VInv, TypeOK, Snapshots
<1>1. CASE UNCHANGED snap
  BY <1>2a, <1>1 DEF Forward
<1>2. CASE Publish
  <2>1. mpc = "load" /\ load \in Loads /\ load.version \in Nat
    BY <1>2 DEF Publish, OInv, VInv, TypeOK, Loads
  <2>2. \A n \in Nodes : snap'[n] # snap[n] =>
                           n = load.node /\ snap'[n].version = load.version
    BY <1>2 DEF Publish, OInv, VInv, TypeOK
  <2>3. doubled[load.node] \/ load.version = 0 \/ snap[load.node].version <= load.version
    BY <2>1 DEF OInv, InOrder
  <2>. QED
    BY <1>2a, <2>1, <2>2, <2>3 DEF Forward
<1>3. CASE Crash
  BY <1>3 DEF Crash, NoSnapshot, Forward
<1>4. CASE \E h \in Handlers : Receive(h) \/ Serve(h)
  BY <1>1, <1>4, ReceiveEffect, ServeEffect DEF OInv, VInv, HandlerStep, mainVars
<1>5. CASE FindNodes \/ BootNext \/ Watch \/ NextEvent \/ ReadCollection \/ Start
  BY <1>1, <1>5 DEF FindNodes, BootNext, Watch, NextEvent, ReadCollection, Start
<1>. QED
  BY <1>1, <1>2, <1>3, <1>4, <1>5 DEF Next, Main, vars, mainVars

\* Once served, a version of a node is never replaced by an older one, as
\* long as the node has had one document at a time.
THEOREM VersionsGoForward == Spec => NoVersionRollback
<1>1. Init => OInv
  BY VInvInit, OInvInit DEF OInv
<1>2. OInv /\ [Next]_vars => OInv'
  BY VInvNext, OInvNext DEF OInv
<1>3. OInv /\ [Next]_vars => [Forward]_vars
  BY StepForward
<1>4. NoVersionRollback <=> [][Forward]_vars
  BY DEF NoVersionRollback, Forward
<1>. QED
  BY <1>1, <1>2, <1>3, <1>4, PTL DEF Spec

-----------------------------------------------------------------------------
(* ImplementsDelivery: every step maps to a step of Delivery or a stutter *)

LEMMA PromiseInit == Init => Promise!Init
BY DEF Init, Promise!Init, Promise!Nothing, NoSnapshot

\* A write of the collections that changes nothing is a stutter, any other
\* is an edit.
LEMMA WriteEdits ==
  ASSUME TypeOK, NEW h \in Handlers, req[h].node \in Nodes,
         NEW config \in Configs, NEW r, Write(h, config, req' = r)
  PROVE  Promise!Edit(req[h].node) \/ UNCHANGED Promise!vars
<1>. DEFINE m == req[h].node
<1>1. UNCHANGED <<stamped, doubled, uuids, snap>>
  BY DEF Write, mainVars
<1>2. CASE UNCHANGED <<store, dirty>>
  BY <1>1, <1>2 DEF Promise!vars
<1>3. CASE Apply(m, config) /\ config # store[m]
  <2>1. store' = [store EXCEPT ![m] = config]
    BY <1>3 DEF Apply
  <2>2. dirty' = [dirty EXCEPT ![m] = TRUE]
    BY <1>3, Zenon DEF Apply
  <2>. QED
    BY <1>1, <2>1, <2>2 DEF Promise!Edit
<1>4. CASE Apply(m, config) /\ config = store[m]
  <2>1. store' = store
    BY <1>4 DEF Apply, TypeOK
  <2>2. dirty' = dirty
    <3>1. (dirty[m] \/ config # store[m]) = dirty[m]
      BY <1>4 DEF TypeOK
    <3>2. dirty' = [dirty EXCEPT ![m] = dirty[m]]
      BY <1>4, <3>1, Zenon DEF Apply
    <3>. QED
      BY <3>2 DEF TypeOK
  <2>. QED
    BY <1>1, <2>1, <2>2 DEF Promise!vars
<1>. QED
  BY <1>2, <1>3, <1>4 DEF Write

\* A step on the node documents stamps a version, makes an id, or nothing.
LEMMA NodeStepRefines ==
  ASSUME TypeOK, TypeOK', NEW n \in Nodes, NodeStep(n),
         UNCHANGED <<store, mainVars>>
  PROVE  Promise!Stamp(n) \/ Promise!Tick(n) \/ UNCHANGED Promise!vars
<1>. USE DEF mainVars
<1>1. ASSUME NEW v, Inserts(n, v)
      PROVE  Promise!MaySplit(n)
  <2>1. \A k \in Nodes : k # n => doubled'[k] = doubled[k]
    BY <1>1 DEF Inserts
  <2>2. doubled[n] \in BOOLEAN /\ doubled'[n] \in BOOLEAN
    BY DEF TypeOK
  <2>2a. doubled[n] => doubled'[n]
    BY <1>1 DEF Inserts
  <2>2b. doubled'[n] = doubled[n] \/ doubled'[n] = TRUE
    BY <2>2, <2>2a
  <2>3. CASE doubled'[n] = doubled[n]
    <3>1. doubled' = doubled
      BY <1>1, <2>1, <2>3 DEF TypeOK
    <3>. QED
      BY <3>1 DEF Promise!MaySplit
  <2>4. CASE doubled'[n] = TRUE
    <3>1. doubled' = [doubled EXCEPT ![n] = TRUE]
      BY <1>1, <2>1, <2>4 DEF TypeOK
    <3>. QED
      BY <3>1 DEF Promise!MaySplit
  <2>. QED
    BY <2>2b, <2>3, <2>4
<1>2. CASE UNCHANGED <<uuids, stamped, dirty, doubled>>
  BY <1>2 DEF Promise!vars
<1>3. CASE Inserts(n, 0) /\ uuids' = uuids + 1 /\ UNCHANGED <<stamped, dirty>>
  <2>1. Promise!Tick(n)
    BY <1>1, <1>3 DEF Promise!Tick
  <2>. QED
    BY <2>1
<1>4. ASSUME Promise!MaySplit(n), Stamps(n)
      PROVE  Promise!Stamp(n)
  BY <1>4 DEF Stamps, Promise!Stamp
<1>5. CASE Inserts(n, uuids + 1) /\ Stamps(n)
  BY <1>1, <1>4, <1>5
<1>6. CASE (\E d \in DocsOf(n) : Updates(d, uuids + 1)) /\ Stamps(n)
  <2>1. Promise!MaySplit(n)
    BY <1>6 DEF Updates, Promise!MaySplit
  <2>. QED
    BY <1>4, <1>6, <2>1
<1>. QED
  BY <1>2, <1>3, <1>5, <1>6 DEF NodeStep

LEMMA ServeRefines ==
  ASSUME TypeOK, TypeOK', NEW h \in Handlers, Serve(h)
  PROVE  [Promise!Next]_(Promise!vars)
<1>. DEFINE r == req[h]
            m == req[h].node
<1>1. req[h] \in Requests
  <2>1. PICK pc \in Steps : At(h, pc)
    BY DEF Serve, FindOne, ReplaceOne, DeleteOne, DeleteEndpoints, DeleteMany,
           DeleteNode, UpdateAddress, InsertAddress, UpdateVersion,
           InsertVersion, Steps
  <2>. QED
    BY <2>1, Serving
<1>2. PICK n \in Nodes : n = m
  BY <1>1 DEF Requests
<1>2a. /\ m \in Nodes /\ r.coll \in Collections /\ r.name \in Names
      /\ r.body \in Docs /\ store[m] \in Configs /\ "endpoints" \in Collections
      /\ Empty \in Contents
  BY <1>1, EmptyTypes DEF Requests, TypeOK, Collections
<1>3. CASE ReplaceOne(h)
  <2>1. With(store[m], r.coll, r.name, r.body) \in Configs
    BY <1>2a, WithType
  <2>2. Promise!Edit(m) \/ UNCHANGED Promise!vars
    BY <1>2a, <1>3, <2>1, WriteEdits DEF ReplaceOne, Goto
  <2>. QED
    BY <1>2a, <2>2 DEF Promise!Next
<1>4. CASE DeleteOne(h)
  <2>1. With(store[m], r.coll, r.name, NoDoc) \in Configs
    BY <1>2a, WithType
  <2>2. Promise!Edit(m) \/ UNCHANGED Promise!vars
    BY <1>2a, <1>4, <2>1, WriteEdits DEF DeleteOne, Goto
  <2>. QED
    BY <1>2a, <2>2 DEF Promise!Next
<1>5. CASE DeleteEndpoints(h)
  <2>1. With(store[m], "endpoints", r.name, NoDoc) \in Configs
    BY <1>2a, WithType
  <2>2. Promise!Edit(m) \/ UNCHANGED Promise!vars
    BY <1>2a, <1>5, <2>1, WriteEdits DEF DeleteEndpoints, Goto
  <2>. QED
    BY <1>2a, <2>2 DEF Promise!Next
<1>6. CASE DeleteMany(h)
  <2>. DEFINE next == IF r.coll = "listeners" THEN "clusters" ELSE "endpoints"
              to == IF r.coll = "endpoints" THEN [req EXCEPT ![h].pc = "node"]
                                            ELSE [req EXCEPT ![h].coll = next]
  <2>1. [store[m] EXCEPT ![r.coll] = Empty] \in Configs
    BY <1>2a DEF Configs
  <2>2. Write(h, [store[m] EXCEPT ![r.coll] = Empty], req' = to)
    BY <1>6 DEF DeleteMany, Write, Goto
  <2>. HIDE DEF to
  <2>3. Promise!Edit(m) \/ UNCHANGED Promise!vars
    BY <1>2a, <2>1, <2>2, WriteEdits
  <2>. QED
    BY <1>2a, <2>3 DEF Promise!Next
<1>7. CASE FindOne(h)
  BY <1>7 DEF FindOne, dbVars, mainVars, Promise!vars
<1>8. CASE \/ DeleteNode(h) \/ UpdateAddress(h) \/ InsertAddress(h)
           \/ UpdateVersion(h) \/ InsertVersion(h)
  <2>1. Promise!Stamp(m) \/ Promise!Tick(m) \/ UNCHANGED Promise!vars
    BY <1>8, NodeSteps, NodeStepRefines
  <2>. QED
    BY <1>2a, <2>1 DEF Promise!Next
<1>. QED
  BY <1>3, <1>4, <1>5, <1>6, <1>7, <1>8 DEF Serve

\* What Publish installs may be delivered: its version is known, no older
\* than the one before and no younger than the node's, and if it is the
\* node's, its contents are.
LEMMA PublishDelivers ==
  ASSUME OInv, Publish
  PROVE  Promise!Deliver(load.node) \/ UNCHANGED Promise!vars
<1>. DEFINE m == load.node
            d == [served |-> TRUE, version |-> load.version,
                  intact |-> load.intact, docs |-> load.docs]
<1>1. /\ load \in Loads /\ load.step = 5 /\ m \in Nodes /\ mpc = "load"
      /\ load.version \in Nat /\ load.docs \in Configs /\ load.intact \in BOOLEAN
  BY DEF Publish, OInv, VInv, TypeOK, Loads
<1>2. UNCHANGED <<store, stamped, doubled, uuids, dirty>>
  BY DEF Publish, dbVars
<1>3. CASE snap' = snap
  BY <1>2, <1>3 DEF Promise!vars
<1>4. CASE snap' = [snap EXCEPT ![m] = d]
  <2>1. snap'[m] = d /\ snap' = [snap EXCEPT ![m] = snap'[m]]
    BY <1>1, <1>4 DEF OInv, VInv, TypeOK
  <2>3. load.version <= stamped[m] /\ stamped[m] <= uuids
    BY <1>1 DEF OInv, VInv, VersionsKnown, Documents
  <2>2. load.version \in 0..uuids
    BY <1>1, <2>3 DEF OInv, VInv, TypeOK
  <2>4. load.version # 0 /\ ~doubled[m] => load.version >= snap[m].version
    <3>1. snap[m].version \in Nat
      BY <1>1 DEF OInv, VInv, TypeOK, Snapshots
    <3>. QED
      BY <1>1, <3>1 DEF OInv, InOrder
  <2>5. ASSUME load.version = stamped[m], stamped[m] # 0,
               load.intact, ~dirty[m]
        PROVE  load.docs = store[m]
    <3>1. load.docs \in Configs /\ store[m] \in Configs
      BY <1>1 DEF OInv, VInv, TypeOK
    <3>2. \A i \in 1..4 : load.docs[ReadOrder[i]] = store[m][ReadOrder[i]]
      BY <1>1, <2>5 DEF OInv, VInv, LoadMatches
    <3>3. \A c \in Collections : \E i \in 1..4 : c = ReadOrder[i]
      BY DEF Collections, ReadOrder
    <3>4. \A c \in Collections : load.docs[c] = store[m][c]
      BY <3>2, <3>3
    <3>. QED
      BY <3>1, <3>4 DEF Configs
  <2>6. d \in [served: {TRUE}, version: 0..uuids, intact: BOOLEAN, docs: Configs]
    BY <1>1, <2>2
  <2>7. d \in Promise!Deliverable(m)
    BY <1>1, <2>3, <2>4, <2>5, <2>6 DEF Promise!Deliverable
  <2>. QED
    BY <1>2, <2>1, <2>7 DEF Promise!Deliver
<1>. QED
  BY <1>3, <1>4 DEF Publish

LEMMA NextRefines == OInv /\ [Next]_vars => [Promise!Next]_(Promise!vars)
<1>. SUFFICES ASSUME OInv, [Next]_vars PROVE [Promise!Next]_(Promise!vars)
  OBVIOUS
<1>. USE DEF dbVars, mainVars
<1>1. CASE Publish
  <2>1. load.node \in Nodes
    BY <1>1 DEF Publish, OInv, VInv, TypeOK, Loads
  <2>. QED
    BY <1>1, <2>1, PublishDelivers DEF Promise!Next
<1>2. CASE Crash
  <2>1. Promise!Restart
    BY <1>2 DEF Crash, Promise!Restart, Promise!Nothing, NoSnapshot
  <2>. QED
    BY <2>1 DEF Promise!Next
<1>3. CASE \E h \in Handlers : Serve(h)
  BY <1>3, NextType, ServeRefines DEF OInv, VInv
<1>4. CASE \E h \in Handlers : Receive(h)
  <2>1. UNCHANGED <<store, stamped, doubled, uuids, dirty, snap>>
    BY <1>4 DEF Receive, Begin, PutConfigListeners, PutConfigClusters,
         PutConfigSecrets, PutConfigEndpoints, PutConfigEndpointsNamed,
         DeleteConfigListeners, DeleteConfigClusters, DeleteConfigSecrets,
         DeleteConfigEndpoints, DeleteConfigNodes, PutConfigNode
  <2>. QED
    BY <2>1 DEF Promise!vars
<1>5. CASE FindNodes \/ BootNext \/ Watch \/ NextEvent \/ ReadCollection
             \/ Start \/ UNCHANGED vars
  <2>1. UNCHANGED <<store, stamped, doubled, uuids, dirty, snap>>
    BY <1>5 DEF FindNodes, BootNext, Watch, NextEvent, ReadCollection, Start, vars
  <2>. QED
    BY <2>1 DEF Promise!vars
<1>. QED
  BY <1>1, <1>2, <1>3, <1>4, <1>5 DEF Next, Main

\* The management server implements Delivery, whatever handlers, queries,
\* events, faults and crashes interleave, for any number of them: each step
\* is an edit, a new version, a delivery that is allowed then, or
\* nothing to the promise.
THEOREM ServerImplementsDelivery == Spec => ImplementsDelivery
<1>1. Init => OInv
  BY VInvInit, OInvInit DEF OInv
<1>2. OInv /\ [Next]_vars => OInv'
  BY VInvNext, OInvNext DEF OInv
<1>. QED
  BY <1>1, <1>2, PromiseInit, NextRefines, PTL
     DEF Spec, ImplementsDelivery, Promise!Spec
=============================================================================
