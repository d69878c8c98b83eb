----------------------------- MODULE Conversion -----------------------------
(***************************************************************************)
(* The converters of src/src/loader/mongoloader.go: what becomes of a      *)
(* stored listener, cluster, endpoint set or secret when it is loaded.     *)
(* Documents are records with the fields the converters distinguish; a     *)
(* string, a number or an address is a value of its own, copied as it is.  *)
(***************************************************************************)
EXTENDS Naturals, Sequences, SequencesExt

CONSTANTS
    None,     \* an optional field that is absent (a nil pointer or slice)
    Garbled,  \* a duration that time.ParseDuration rejects
    VhOptions \* names of the VhRateLimits options that exist

\* Appending one result, or none, for every element of a list.
Collect(Op(_), list) == FlattenSeq([i \in DOMAIN list |-> Op(list[i])])
Convert(Op(_), list) == [i \in DOMAIN list |-> Op(list[i])]

\* The elements of a list at some positions, in their order.
Pick(list, positions) ==
    [k \in 1..Cardinality(positions) |->
       list[CHOOSE i \in positions :
              Cardinality({j \in positions : j <= i}) = k]]

\* An optional field: its default stands in for an absent one.
Or(field, default) == IF field = None THEN default ELSE field

\* A duration that is absent or cannot be parsed leaves the default.
Duration(text, default) == IF text \in {None, Garbled} THEN default ELSE text

-----------------------------------------------------------------------------
(* Secrets and endpoint sets *)

ParseSecret(s) ==
    [name |-> s.name,
     type |-> IF s.validation # None THEN <<"validation", s.validation>>
              ELSE IF s.certificate # None THEN <<"certificate", s.certificate>>
              ELSE None]

ParseEndpoint(e) ==
    [name |-> e.name, policy |-> e.policy,
     groups |-> Convert(LAMBDA g : [priority |-> g.priority, lb |-> g.lb],
                        e.groups)]

-----------------------------------------------------------------------------
(* Clusters *)

ParseOptions(o) == [headers |-> o.headers, duration |-> Duration(o.duration, None)]

\* The options named last replace those of the cluster as a whole.
ParseCommonOptions(c) ==
    LET given == IF c.extension # None /\ c.extension.common # None
                 THEN c.extension.common ELSE c.common
    IN  IF given = None THEN None ELSE ParseOptions(given)

ParseProtocol(c) ==
    IF c.extension = None \/ c.extension.explicit = None THEN "downstream"
    ELSE IF c.extension.explicit.http1 # None THEN "http1"
    ELSE IF c.extension.explicit.http2 # None THEN "http2"
    ELSE "empty"

ParseHealthCheck(hc) ==
    [timeout |-> Duration(hc.timeout, 5), interval |-> Duration(hc.interval, 5),
     checker |-> IF hc.http = None THEN "tcp" ELSE <<"http", hc.http>>]

ParseCluster(c) ==
    [name |-> c.name, type |-> "EDS", timeout |-> Duration(c.timeout, 5),
     lb |-> IF c.lb \in {"LEAST_REQUEST", "MAGLEV"} THEN c.lb ELSE "ROUND_ROBIN",
     panic |-> Or(c.panic, 0),
     breakers |-> c.breakers,
     common |-> ParseCommonOptions(c), protocol |-> ParseProtocol(c),
     tls |-> c.tls,
     checks |-> Convert(ParseHealthCheck, c.checks)]

-----------------------------------------------------------------------------
(* Listeners: rate limits and routes *)

ParseLimitAction(a) ==
    (IF a.header = None THEN <<>> ELSE <<<<"header", a.header>>>>)
      \o (IF a.generic = None THEN <<>> ELSE <<<<"generic", a.generic>>>>)

ParseLimit(actions) == Collect(ParseLimitAction, actions)

\* The list is made anew for every limit: the last one remains.
ParseLimits(limits) ==
    IF limits = <<>> THEN <<>> ELSE <<ParseLimit(Last(limits))>>

\* Of several path specifiers the one looked at last is taken.
ParsePath(m) ==
    IF m.regex # None THEN <<"regex", m.regex>>
    ELSE IF m.path # None THEN <<"path", m.path>>
    ELSE IF m.prefix # None THEN <<"prefix", m.prefix>>
    ELSE None

ParseHeader(h) ==
    <<h.name, IF h.regex # None THEN <<"regex", h.regex>>
              ELSE IF h.exact # None THEN <<"exact", h.exact>>
              ELSE None>>

\* Mutant: a path given as a regular expression forgets the headers.
ParseMatchReset(m) ==
    IF m = None \/ ParsePath(m) = None THEN None
    ELSE [path |-> ParsePath(m),
          headers |-> IF m.regex # None THEN <<>>
                      ELSE Convert(ParseHeader, Or(m.headers, <<>>))]

ParseMatch(m) ==
    IF m = None \/ ParsePath(m) = None THEN None
    ELSE [path |-> ParsePath(m),
          headers |-> Convert(ParseHeader, Or(m.headers, <<>>))]

\* A hash policy keeps the last of what it names; a cookie whose life cannot
\* be parsed counts as not named.
ParseHashPolicy(hp) ==
    [terminal |-> hp.terminal,
     by |-> IF hp.header # None THEN <<"header", hp.header>>
            ELSE IF hp.query # None THEN <<"query", hp.query>>
            ELSE IF hp.connection # None THEN <<"connection", hp.connection>>
            ELSE IF hp.cookie # None /\ hp.cookie.ttl # Garbled
                 THEN <<"cookie", hp.cookie>>
            ELSE None]

ParseRouteAction(a) ==
    [cluster |-> a.cluster, timeout |-> Duration(a.timeout, None),
     limits |-> ParseLimits(a.limits), rewrite |-> a.rewrite,
     hash |-> Convert(ParseHashPolicy, Or(a.hash, <<>>))]

\* Stating httpsRedirect is enough for it to be true.
ParseRedirect(d) ==
    [https |-> d.https # None, host |-> d.host,
     rewrite |-> IF d.prefix # None THEN <<"prefix", d.prefix>>
                 ELSE IF d.path # None THEN <<"path", d.path>> ELSE None]

ParseRoute(r) ==
    [name |-> r.name, match |-> ParseMatch(r.match),
     action |-> IF r.redirect # None
                THEN [redirect |-> ParseRedirect(r.redirect)]
                ELSE IF r.route # None
                THEN [route |-> ParseRouteAction(r.route)]
                ELSE None]

ParseVirtualHost(vh) ==
    [name |-> vh.name, domains |-> vh.domains,
     limits |-> ParseLimits(vh.limits), routes |-> Convert(ParseRoute, vh.routes)]

-----------------------------------------------------------------------------
(* Listeners: filters *)

ParseHttpFilter(f) ==
    (IF f.name = "ext_authz"
     THEN <<[name |-> "ext_authz", allow |-> Or(f.allow, TRUE)]>> ELSE <<>>)
    \o (IF f.name = "ratelimit" /\ f.domain # None
        THEN <<[name |-> "ratelimit", domain |-> f.domain,
                deny |-> Or(f.deny, FALSE)]>> ELSE <<>>)
    \o (IF f.name = "ratelimit" /\ f.vh \in VhOptions
        THEN <<[name |-> "perRoute", vh |-> f.vh]>> ELSE <<>>)

ParseHttpFilters(filters) ==
    Collect(ParseHttpFilter, filters) \o <<[name |-> "router"]>>

ParseHttpOptions(o) ==
    [acceptHttp10 |-> Or(o.acceptHttp10, TRUE),
     streamDuration |-> Duration(o.streamDuration, None),
     remoteAddress |-> o.remoteAddress]

\* The log is named by the node, or for TCP by the first log of the list.
ParseHttp(f) ==
    [kind |-> "http", hosts |-> Convert(ParseVirtualHost, f.hosts),
     filters |-> ParseHttpFilters(f.httpFilters),
     options |-> ParseHttpOptions(f.options), log |-> f.log # None]

ParseTcpProxy(f) ==
    [kind |-> "tcp", cluster |-> f.cluster, idle |-> Duration(f.idle, None),
     log |-> IF f.log = None THEN None ELSE Head(f.log)]

\* A bucket whose interval cannot be parsed leaves a filter that is nil.
ParseLocalRateLimit(f) ==
    IF f.bucket.interval = Garbled THEN None
    ELSE [kind |-> "local_ratelimit", bucket |-> f.bucket]

\* Filters of any other name are left out.
FilterNames == {"http_connection_manager", "tcp_proxy", "local_ratelimit"}
ParseFilter(f) ==
    CASE f.name = "http_connection_manager" -> ParseHttp(f)
      [] f.name = "tcp_proxy" -> ParseTcpProxy(f)
      [] f.name = "local_ratelimit" -> ParseLocalRateLimit(f)
ParseFilters(filters) ==
    Convert(ParseFilter,
            Pick(filters, {i \in DOMAIN filters : filters[i].name \in FilterNames}))

-----------------------------------------------------------------------------
(* Listeners: TLS, filter chains *)

ParseValidation(v) ==
    IF v.sds # None THEN <<"sds", v.sds>>
    ELSE IF v.ca # None THEN <<"ca", v.ca>> ELSE None

\* Mutant: the client's certificate too is looked at only with parameters.
ParseTlsWithParams(t) ==
    [certificates |-> t.certificates, secrets |-> t.secrets,
     clients |-> t.params # None /\ t.clients # None, params |-> t.params,
     validation |-> IF t.params = None \/ t.validation = None THEN None
                    ELSE ParseValidation(t.validation)]

\* The certificate authority is looked at only along with the parameters.
ParseTls(t) ==
    [certificates |-> t.certificates, secrets |-> t.secrets,
     clients |-> t.clients # None, params |-> t.params,
     validation |-> IF t.params = None \/ t.validation = None THEN None
                    ELSE ParseValidation(t.validation)]

ParseChain(fc) ==
    [match |-> fc.match, filters |-> ParseFilters(fc.filters),
     tls |-> IF fc.tls = None THEN None ELSE ParseTls(fc.tls)]

\* Server names are looked for in the TLS handshake if any chain has a match.
ParseListener(l) ==
    [name |-> l.name,
     inspector |-> \E i \in DOMAIN l.chains : l.chains[i].match # None,
     chains |-> Convert(ParseChain, l.chains)]

\* The converter dereferences what a document need not have; the panic ends
\* the process, as nothing recovers in the goroutine that loads.
LogPanics(log) == log # None /\ (log = <<>> \/ Head(log) = None)
FilterPanics(f) ==
    \/ f.name = "local_ratelimit" /\ f.bucket = None
    \/ f.name = "tcp_proxy" /\ (f.cluster = None \/ LogPanics(f.log))
    \/ /\ f.name = "http_connection_manager"
       /\ \/ f.hosts = None
          \/ LogPanics(f.log)
          \/ \E i \in DOMAIN f.hosts : \E j \in DOMAIN f.hosts[i].routes :
               LET m == f.hosts[i].routes[j].match
               IN  m # None /\ m.headers # None /\ ParsePath(m) = None

Panics(l) ==
    \E i \in DOMAIN l.chains : \E j \in DOMAIN l.chains[i].filters :
        FilterPanics(l.chains[i].filters[j])
=============================================================================
