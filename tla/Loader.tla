------------------------------- MODULE Loader -------------------------------
(***************************************************************************)
(* The configuration of one node as MongoDB keeps it, documents in lists   *)
(* without a unique index, and what src/src/loader makes of it.  Handlers  *)
(* of src/src/rapi/rapi.go write concurrently; ReplaceOne with upsert looks *)
(* for a document first and inserts one later, so a name may come to have  *)
(* two.  LoadNode converts whatever is there, and the snapshot keeps one   *)
(* resource of every name.                                                 *)
(*                                                                         *)
(* ControlPlane has when loads happen, under which version, and what loads *)
(* that overlap writes publish.  Here LoadNode is one step and may happen  *)
(* at any time, and the question is what it makes of the documents.        *)
(***************************************************************************)
EXTENDS Conversion

CONSTANTS
    Names,       \* names of documents
    Handlers,    \* goroutines that serve REST requests
    Bodies,      \* by collection: the documents clients put
    Databases,   \* what the collections may hold from former runs
    HttpRequests,\* requests to Envoy: server, host, path and headers
    MaxRequests  \* bound: REST requests in a behaviour

ASSUME MaxRequestsAssumption == MaxRequests \in Nat

Collections == {"listeners", "clusters", "endpoints", "secrets"}

VARIABLES
    coll,     \* MongoDB: the documents of every collection, oldest first
    req,      \* the request each handler is serving
    requests, \* REST requests received so far
    up,       \* the process runs
    snap,     \* by collection and name, the resource served
    fresh,    \* history: snap was made of what coll holds now
    meant,    \* history: by collection and name, what clients asked for, as
              \* rapi.go documents the requests
    excused   \* history: names whose documents got out of hand, see Excuse

vars == <<coll, req, requests, up, snap, fresh, meant, excused>>

-----------------------------------------------------------------------------
(* Documents *)

Named(x, docs) == {i \in DOMAIN docs : docs[i].name = x}
NamesOf(docs) == {docs[i].name : i \in DOMAIN docs}

\* FindOne, ReplaceOne and DeleteOne take the first document of a name.
First(x, docs) ==
    IF Named(x, docs) = {} THEN None ELSE docs[Min(Named(x, docs))]
Without(docs, positions) == Pick(docs, DOMAIN docs \ positions)
WithoutFirst(x, docs) ==
    Without(docs, {i \in Named(x, docs) : \A j \in Named(x, docs) : i <= j})
WithoutAll(x, docs) == Without(docs, Named(x, docs))

\* NewSnapshot indexes resources by name; the last one of a name stays.
Indexed(docs) ==
    [x \in Names |-> IF Named(x, docs) = {} THEN None
                     ELSE docs[Max(Named(x, docs))]]

\* Of an endpoint set its addresses by priority are what counts.
Addresses(e) ==
    UNION {{<<e.groups[g].priority, e.groups[g].lb[i]>> :
              i \in DOMAIN e.groups[g].lb} : g \in DOMAIN e.groups}

\* What a document says, to compare what is served with what was asked for.
Says(c, doc) ==
    IF doc # None /\ c = "endpoints" THEN Addresses(doc) ELSE doc

\* The protocol options a cluster has, itself and by its extension.
OptionsOf(c) ==
    {c.common, IF c.extension = None THEN None ELSE c.extension.common} \ {None}

\* The documents of a collection that come from outside, and what endpoint
\* sets they may grow into.
Docs(c) == Bodies[c] \cup UNION {ToSet(d[c]) : d \in Databases}
Policies == {e.policy : e \in Docs("endpoints")}
Groups == UNION {ToSet(e.groups) : e \in Docs("endpoints")}
Priorities == {g.priority : g \in Groups}
Hosts == UNION {ToSet(g.lb) : g \in Groups}
EndpointSets ==
    [name: Names, policy: Policies,
     groups: Seq([priority: Priorities, lb: Seq(Hosts)])]

ASSUME DocumentsAssumption ==
    /\ Names # {}
    /\ \A d \in Databases :
         d = [c \in Collections |-> d[c]] /\ \A c \in Collections : d[c] \in Seq(Docs(c))
    /\ \A c \in Collections : \A doc \in Docs(c) : doc.name \in Names
    /\ Docs("endpoints") \subseteq EndpointSets

\* An absent field is told from everything else.
ASSUME NoneAssumption ==
    /\ \A c \in Collections : None \notin Docs(c)
    /\ None \notin EndpointSets /\ None \notin BOOLEAN
    /\ \A A \in SUBSET (Priorities \X Hosts) : A # None

\* Options of listeners and clusters are absent or what they are called.
ASSUME SettingsAssumption ==
    /\ \A l \in Docs("listeners") : \A i \in DOMAIN l.chains :
         l.chains[i].tls # None => l.chains[i].tls.clients \in {None, TRUE, FALSE}
    /\ \A c \in Docs("clusters") : \A o \in OptionsOf(c) :
         o.headers # Garbled /\ ParseOptions(o) # None

\* The parts of listeners, which are lists, and whose converted forms are
\* told from None.
IsList(s) == s \in Seq(ToSet(s))
Chains == UNION {ToSet(l.chains) : l \in Docs("listeners")}
Managers == {f \in UNION {ToSet(chain.filters) : chain \in Chains} :
               f.name = "http_connection_manager" /\ f.hosts # None}
VirtualHosts == UNION {ToSet(f.hosts) : f \in Managers}
Routes == UNION {ToSet(vh.routes) : vh \in VirtualHosts}

ASSUME RoutingAssumption ==
    /\ \A l \in Docs("listeners") : IsList(l.chains)
    /\ \A chain \in Chains : IsList(chain.filters)
    /\ \A f \in Managers : IsList(f.hosts) /\ ParseHttp(f) # None
    /\ \A vh \in VirtualHosts : IsList(vh.limits) /\ IsList(vh.routes)
    /\ \A x \in Routes :
         /\ x.match # None =>
              /\ \A k \in {"prefix", "path", "regex"} : <<k, x.match[k]>> # None
              /\ ParsePath(x.match) # None => ParseMatch(x.match) # None
         /\ x.redirect # None => x.redirect.https \in {None, TRUE, FALSE}
         /\ x.route # None => IsList(x.route.limits)
         /\ x.redirect # None \/ x.route # None => ParseRoute(x).action # None

Parse(c, doc) ==
    CASE c = "listeners" -> ParseListener(doc)
      [] c = "clusters" -> ParseCluster(doc)
      [] c = "endpoints" -> ParseEndpoint(doc)
      [] c = "secrets" -> ParseSecret(doc)

NoSnapshot == [c \in Collections |-> [x \in Names |-> None]]
Idle == [pc |-> "idle"]

TypeOK ==
    /\ \A c \in Collections : NamesOf(coll[c]) \subseteq Names
    /\ \A h \in Handlers :
         \/ req[h] = Idle
         \/ /\ req[h].pc \in {"find", "upsert", "insert", "delete", "cascade", "wipe"}
            /\ req[h].coll \in Collections /\ req[h].name \in Names
            /\ req[h].pc \in {"upsert", "insert"} => req[h].body.name \in Names
    /\ requests \in 0..MaxRequests
    /\ up \in BOOLEAN /\ fresh \in BOOLEAN
    /\ \A c \in Collections : \A x \in Names :
         snap[c][x] # None => up /\ snap[c][x].name = x
    /\ excused \subseteq Collections \X Names

\* The server starts on whatever an earlier one left in the database.
Init ==
    /\ coll \in Databases
    /\ req = [h \in Handlers |-> Idle]
    /\ requests = 0
    /\ up = TRUE
    /\ snap = NoSnapshot
    /\ fresh = FALSE
    /\ meant = [c \in Collections |->
                  [x \in Names |-> Says(c, Indexed(coll[c])[x])]]
    /\ excused = {p \in Collections \X Names :
                    \E i, j \in Named(p[2], coll[p[1]]) : i # j}

-----------------------------------------------------------------------------
(* Requests *)

Begin(h, pc, c, x, body, removes) ==
    /\ up /\ req[h] = Idle /\ requests < MaxRequests
    /\ requests' = requests + 1
    /\ req' = [req EXCEPT ![h] = [pc |-> pc, coll |-> c, name |-> x,
                                  body |-> body, put |-> None,
                                  found |-> None, removes |-> removes]]
    /\ UNCHANGED <<coll, up, snap, fresh, meant, excused>>

\* Zero seconds to connect are refused.
Accepted(c, b) == c = "clusters" => b.timeout # 0
HasEndpoints(b) == b.groups # <<>> /\ b.groups[1].lb # <<>>

PutDocument(h) ==
    \E c \in Collections \ {"endpoints"} : \E b \in Bodies[c] :
        Accepted(c, b) /\ Begin(h, "upsert", c, b.name, b, FALSE)

PutConfigEndpoints(h) ==
    \E b \in Bodies["endpoints"] :
        HasEndpoints(b) /\ Begin(h, "find", "endpoints", b.name, b, FALSE)

PutConfigEndpointsNamed(h) ==
    \E b \in Bodies["endpoints"] :
        HasEndpoints(b) /\ Begin(h, "upsert", "endpoints", b.name, b, FALSE)

\* The endpoints of the body are to go. What the handler does is replace the
\* endpoints of the cluster in the path by the body.
DeleteConfigEndpoints(h) ==
    \E x \in Names : \E b \in Bodies["endpoints"] :
        Begin(h, "upsert", "endpoints", x, b, TRUE)

DeleteDocument(h) ==
    \E c \in Collections \ {"endpoints"} : \E x \in Names :
        Begin(h, "delete", c, x, None, FALSE)

DeleteConfigNodes(h) ==
    Begin(h, "wipe", "listeners", CHOOSE x \in Names : TRUE, None, FALSE)

-----------------------------------------------------------------------------
(* Database calls *)

At(h, pc) == up /\ req[h].pc = pc
Goto(h, pc) == req' = [req EXCEPT ![h].pc = pc]
Return(h) == req' = [req EXCEPT ![h] = Idle]

\* Mutant: a group of another priority takes the place of all.
AddedOnly(e, b) ==
    LET g == b.groups[1]
    IN  IF \E i \in DOMAIN e.groups : e.groups[i].priority = g.priority
        THEN [e EXCEPT !.groups =
               Convert(LAMBDA i : IF i.priority = g.priority
                                  THEN [i EXCEPT !.lb = Append(@, g.lb[1])]
                                  ELSE i, e.groups)]
        ELSE [e EXCEPT !.groups = <<g>>]

\* What PutConfigEndpoints makes of the endpoints it found: the first one of
\* the body joins every group of its priority, or its group is added.
Added(e, b) ==
    LET g == b.groups[1]
    IN  IF \E i \in DOMAIN e.groups : e.groups[i].priority = g.priority
        THEN [e EXCEPT !.groups =
               Convert(LAMBDA i : IF i.priority = g.priority
                                  THEN [i EXCEPT !.lb = Append(@, g.lb[1])]
                                  ELSE i, e.groups)]
        ELSE [e EXCEPT !.groups = Append(@, g)]

\* Mutant: nothing found leaves the document the handler has declared.
LookedForgotten(r, f) ==
    [r EXCEPT !.pc = "upsert", !.put = r.body, !.found = f,
              !.body = IF f = None THEN [r.body EXCEPT !.name = None, !.groups = <<>>]
                       ELSE Added(f, r.body)]

\* What it writes next, having found f.
Looked(r, f) ==
    [pc |-> "upsert", coll |-> r.coll, name |-> r.name,
     body |-> IF f = None THEN r.body ELSE Added(f, r.body),
     put |-> r.body, found |-> f, removes |-> r.removes]

\* An error of FindOne counts as "there are none".
FindOne(h) ==
    /\ At(h, "find")
    /\ \E f \in {None, First(req[h].name, coll["endpoints"])} :
         req' = [req EXCEPT ![h] = Looked(req[h], f)]
    /\ UNCHANGED <<coll, requests, up, snap, fresh, meant, excused>>

\* Names that a write leaves other than clients mean: a second document is
\* inserted; an addition is made to endpoints that have changed meanwhile or
\* could not be read; only the first of several additions is made; the body
\* takes the place of what it should be taken from. (Init adds the names
\* that an earlier server has left with several documents.)
Excuse(r, docs) ==
    LET several == Len(r.put.groups) > 1 \/ Len(r.put.groups[1].lb) > 1
    IN  (IF \/ r.pc = "insert" /\ Named(r.body.name, docs) # {}
            \/ r.put # None /\ r.found # First(r.name, docs)
            \/ r.put # None /\ r.found # None /\ several
         THEN {<<r.coll, r.body.name>>} ELSE {})
        \cup (IF r.removes
              THEN {<<r.coll, r.name>>, <<r.coll, r.body.name>>} ELSE {})

\* What r asks for, where wish was asked for: a removal takes its endpoints
\* away, an addition adds them, everything else replaces what was there.
Meaning(r, wish) ==
    IF r.removes THEN Or(wish, {}) \ Addresses(r.body)
    ELSE IF r.put = None THEN Says(r.coll, r.body)
    ELSE Or(wish, {}) \cup Addresses(r.put)

\* A write by which r.body enters the collection, also that of a removal.
Write(h, docs) ==
    LET r == req[h]
        c == r.coll
    IN  /\ coll' = [coll EXCEPT ![c] = docs]
        /\ fresh' = FALSE
        /\ meant' = [meant EXCEPT ![c][r.name] = Meaning(r, @)]
        /\ excused' = excused \cup Excuse(r, coll[c])
        /\ Return(h)

\* ReplaceOne with upsert replaces the first document of the name, if any,
\* or goes on to insert one.
Upsert(h) ==
    /\ At(h, "upsert")
    /\ LET r == req[h]
           docs == coll[r.coll]
       IN  IF Named(r.name, docs) = {}
           THEN Goto(h, "insert") /\ UNCHANGED <<coll, fresh, meant, excused>>
           ELSE Write(h, ReplaceAt(docs, Min(Named(r.name, docs)), r.body))
    /\ UNCHANGED <<requests, up, snap>>

Insert(h) ==
    /\ At(h, "insert")
    /\ Write(h, Append(coll[req[h].coll], req[h].body))
    /\ UNCHANGED <<requests, up, snap>>

\* A removal of the documents of the names xs from c. If it leaves none of a
\* name, the name is in order again.
Erase(c, xs, docs) ==
    /\ coll' = [coll EXCEPT ![c] = docs]
    /\ fresh' = FALSE
    /\ meant' = [meant EXCEPT ![c] = [x \in Names |-> IF x \in xs THEN None
                                                     ELSE @[x]]]
    /\ excused' = excused \ {<<c, x>> : x \in xs \ NamesOf(docs)}
    /\ UNCHANGED <<requests, up, snap>>

DeleteOne(h) ==
    /\ At(h, "delete")
    /\ LET r == req[h]
       IN  /\ Erase(r.coll, {r.name}, WithoutFirst(r.name, coll[r.coll]))
           /\ IF r.coll = "clusters" THEN Goto(h, "cascade") ELSE Return(h)

\* All endpoints of a deleted cluster are deleted.
Cascade(h) ==
    /\ At(h, "cascade")
    /\ LET x == req[h].name
       IN  Erase("endpoints", {x}, WithoutAll(x, coll["endpoints"])) /\ Return(h)

\* DeleteConfigNodes empties listeners, clusters and endpoints in turn.
Wipe(h) ==
    /\ At(h, "wipe")
    /\ LET c == req[h].coll
           next == IF c = "listeners" THEN "clusters" ELSE "endpoints"
       IN  /\ Erase(c, Names, <<>>)
           /\ IF c = "endpoints" THEN Return(h)
              ELSE req' = [req EXCEPT ![h].coll = next]

-----------------------------------------------------------------------------
(* Loading *)

Loaded == [c \in Collections |->
             Indexed(Convert(LAMBDA doc : Parse(c, doc), coll[c]))]

\* Snapshot.Consistent: endpoint sets are exactly those of the clusters.
Consistent(s) ==
    \A x \in Names : s["clusters"][x] # None <=> s["endpoints"][x] # None

LoadNode ==
    /\ up
    /\ \A i \in DOMAIN coll["listeners"] : ~Panics(coll["listeners"][i])
    /\ Consistent(Loaded)
    /\ snap' = Loaded
    /\ fresh' = TRUE
    /\ UNCHANGED <<coll, req, requests, up, meant, excused>>

\* The process ends at the first listener it cannot convert.
Panic ==
    /\ up
    /\ \E i \in DOMAIN coll["listeners"] : Panics(coll["listeners"][i])
    /\ up' = FALSE
    /\ req' = [h \in Handlers |-> Idle]
    /\ snap' = NoSnapshot
    /\ fresh' = FALSE
    /\ UNCHANGED <<coll, requests, meant, excused>>

\* Somebody starts it again. The REST API serves before the first load.
Start ==
    /\ ~up
    /\ up' = TRUE
    /\ UNCHANGED <<coll, req, requests, snap, fresh, meant, excused>>

Receive(h) ==
    \/ PutDocument(h) \/ DeleteDocument(h) \/ PutConfigEndpoints(h)
    \/ PutConfigEndpointsNamed(h) \/ DeleteConfigEndpoints(h)
    \/ DeleteConfigNodes(h)

Serve(h) ==
    \/ FindOne(h) \/ Upsert(h) \/ Insert(h) \/ DeleteOne(h) \/ Cascade(h)
    \/ Wipe(h)

Next ==
    \/ \E h \in Handlers : Receive(h) \/ Serve(h)
    \/ LoadNode
    \/ Panic
    \/ Start

Spec == Init /\ [][Next]_vars

-----------------------------------------------------------------------------
(* Properties *)

\* The collections work like maps from names to documents, although they are
\* lists that handlers write without a transaction or a unique index: a
\* snapshot that is up to date has of every name exactly what the requests
\* for it, in the order of their writes, ask for: the document put last, all
\* endpoints added since, nothing of what was deleted. Excused are the names
\* of Excuse, until all documents of the name are deleted: DELETE of endpoints
\* stores what it is to remove (rapi.go:444, 472), PUT of endpoints writes what
\* it has read, or failed to read, and the first of its list, and DELETE of a
\* name with two documents removes one.
ServedAsMeant ==
    fresh => \A c \in Collections : \A x \in Names :
        <<c, x>> \notin excused =>
            IF c = "endpoints" THEN Says(c, snap[c][x]) = meant[c][x]
            ELSE snap[c][x] = IF meant[c][x] = None THEN None
                              ELSE Parse(c, meant[c][x])

HttpFilters(chain) ==
    Pick(chain.filters, {i \in DOMAIN chain.filters :
                           chain.filters[i].name = "http_connection_manager"})
HttpManagers(chain) ==
    Pick(chain.filters, {i \in DOMAIN chain.filters :
                           /\ chain.filters[i] # None
                           /\ chain.filters[i].kind = "http"})

HostFor(hosts, r) ==
    SelectInSeq(hosts, LAMBDA vh : r.host \in ToSet(vh.domains))

\* Envoy's choice: the first route whose matchers all accept the request.
Choice(f, r) ==
    LET v == HostFor(f.hosts, r)
        k == SelectInSeq(f.hosts[v].routes, LAMBDA x :
               /\ x.match # None /\ x.match.path \in r.path
               /\ ToSet(x.match.headers) \subseteq r.headers)
        a == f.hosts[v].routes[k].action
    IN  IF v = 0 \/ k = 0 THEN None
        ELSE [to |-> IF a = None THEN None
                     ELSE IF "redirect" \in DOMAIN a
                     THEN <<"redirect", a.redirect.https, a.redirect.host>>
                     ELSE <<"cluster", a.route.cluster, ToSet(a.route.limits)>>,
              limits |-> ToSet(f.hosts[v].limits)]

\* What a document asks for: every condition it states holds.
Holds(m, r) ==
    /\ m.prefix # None => <<"prefix", m.prefix>> \in r.path
    /\ m.path # None => <<"path", m.path>> \in r.path
    /\ m.regex # None => <<"regex", m.regex>> \in r.path
    /\ \A h \in ToSet(Or(m.headers, <<>>)) :
         /\ h.exact # None => <<h.name, <<"exact", h.exact>>>> \in r.headers
         /\ h.regex # None => <<h.name, <<"regex", h.regex>>>> \in r.headers
         /\ h.exact = None /\ h.regex = None => <<h.name, None>> \in r.headers

Actions(limits) == {ParseLimit(l) : l \in ToSet(limits)}

Wish(f, r) ==
    LET v == HostFor(f.hosts, r)
        k == SelectInSeq(f.hosts[v].routes, LAMBDA x :
                           x.match # None /\ Holds(x.match, r))
        x == f.hosts[v].routes[k]
    IN  IF v = 0 \/ k = 0 THEN None
        ELSE [to |-> IF x.redirect # None
                     THEN <<"redirect", x.redirect.https = TRUE, x.redirect.host>>
                     ELSE IF x.route # None
                     THEN <<"cluster", x.route.cluster, Actions(x.route.limits)>>
                     ELSE None,
              limits |-> Actions(f.hosts[v].limits)]

\* Documents that say one thing: one path specifier and one way to compare a
\* header, no httpsRedirect that is false, one rate limit in a list.
Plain(f) ==
    \A i \in DOMAIN f.hosts :
        /\ Len(f.hosts[i].limits) <= 1
        /\ \A j \in DOMAIN f.hosts[i].routes :
             LET x == f.hosts[i].routes[j]
             IN  /\ x.match # None =>
                      /\ Cardinality({k \in {"prefix", "path", "regex"} :
                                        x.match[k] # None}) = 1
                      /\ \A h \in ToSet(Or(x.match.headers, <<>>)) :
                           h.exact = None \/ h.regex = None
                 /\ x.redirect # None => x.redirect.https # FALSE
                 /\ x.route # None => Len(x.route.limits) <= 1

\* Whatever a listener's document says of an HTTP request, where it goes and
\* which rate limits it counts for, Envoy does with the listener served for
\* it, chain by chain and request by request. Excused are documents that are
\* not plain: several specifiers, a redirect said not to use https, and lists
\* of rate limits, of which the converter keeps the last (parseListener).
RoutedAsWritten ==
    fresh => \A x \in {y \in Names : Named(y, coll["listeners"]) # {}} :
        LET written == Indexed(coll["listeners"])[x].chains
            served == snap["listeners"][x].chains
        IN  /\ Len(served) = Len(written)
            /\ \A i \in DOMAIN written :
                 LET asked == HttpFilters(written[i])
                     given == HttpManagers(served[i])
                 IN  /\ Len(given) = Len(asked)
                     /\ \A j \in DOMAIN asked : Plain(asked[j]) =>
                          \A r \in HttpRequests :
                              Choice(given[j], r) = Wish(asked[j], r)

\* What a cluster states of option o.
Stated(c, o) == {v[o] : v \in OptionsOf(c)} \ {None, Garbled}
StatedTwice(c) ==
    c.common # None /\ c.extension # None /\ c.extension.common # None

Authorities(v) == {<<k, v[k]>> : k \in {k \in {"ca", "sds"} : v[k] # None}}

\* Settings that a document states in one place, or not at all, are those in
\* force: a chain asks clients for a certificate if it is said to, and checks
\* it against the authority named; a cluster has the protocol options stated
\* for it. Excused are an authority named without tlsParams, a client
\* certificate said not to be required, and protocol options stated both for
\* the cluster and its extension (parseListener, parseCluster).
SettingsAsWritten ==
    fresh =>
        /\ \A x \in {y \in Names : Named(y, coll["listeners"]) # {}} :
             LET written == Indexed(coll["listeners"])[x].chains
             IN  \A i \in {j \in DOMAIN written : written[j].tls # None} :
                  LET t == written[i].tls
                      s == snap["listeners"][x].chains[i].tls
                  IN  /\ t.clients # FALSE => s.clients = (t.clients = TRUE)
                      /\ t.params # None /\ t.validation # None
                           /\ Authorities(t.validation) # {}
                         => s.validation \in Authorities(t.validation)
        /\ \A x \in {y \in Names : Named(y, coll["clusters"]) # {}} :
             LET c == Indexed(coll["clusters"])[x]
                 s == snap["clusters"][x].common
             IN  \A o \in {"headers", "duration"} : ~StatedTwice(c) =>
                  Stated(c, o) = IF s = None THEN {} ELSE {s[o]} \ {None}
=============================================================================
