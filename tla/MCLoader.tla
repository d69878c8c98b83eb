------------------------------ MODULE MCLoader ------------------------------
(* Constant values for model-checking Loader. *)
EXTENDS Loader

CONSTANTS x1, x2, h1, h2

(* Listeners *)

Filter(name) ==
    [name |-> name, hosts |-> None, httpFilters |-> <<>>,
     options |-> [acceptHttp10 |-> None, streamDuration |-> Garbled,
                  remoteAddress |-> None],
     log |-> None, cluster |-> None, idle |-> None, bucket |-> None]
Listener(x, chains) == [name |-> x, chains |-> chains]
Chain(filters) == [match |-> None, filters |-> filters, tls |-> None]

TcpProxy(c) == [Filter("tcp_proxy") EXCEPT !.cluster = c]
Bucket(interval) ==
    [Filter("local_ratelimit") EXCEPT !.bucket = [tokens |-> 1, interval |-> interval]]

Match(prefix, path, regex, headers) ==
    [prefix |-> prefix, path |-> path, regex |-> regex, headers |-> headers]
Header(name, exact, regex) == [name |-> name, exact |-> exact, regex |-> regex]
Limit(v) == <<[header |-> v, generic |-> None], [header |-> None, generic |-> v]>>

Action(c, limits) ==
    [cluster |-> c, timeout |-> None, limits |-> limits, rewrite |-> None,
     hash |-> <<[terminal |-> TRUE, header |-> None, query |-> None,
                 connection |-> None, cookie |-> [name |-> "c", ttl |-> Garbled]]>>]
Route(m, c, limits) ==
    [name |-> "r", match |-> m, route |-> Action(c, limits), redirect |-> None]
Redirect(m, https) ==
    [name |-> "r", match |-> m, route |-> None,
     redirect |-> [https |-> https, host |-> "h", path |-> None, prefix |-> "/"]]

Host(name, limits, routes) ==
    [name |-> name, domains |-> <<name>>, limits |-> limits, routes |-> routes]

\* Every kind of path with no header, one, and two.
HeaderLists ==
    <<<<Header("h1", "v", None), Header("h2", None, "w")>>,
      <<Header("h1", None, None)>>, None>>
Paths == <<Match("/", None, None, None), Match(None, "/a", None, None),
           Match(None, None, "a.*", None)>>
RouteList ==
    FlattenSeq([i \in 1..3 |-> [j \in 1..3 |->
        Route([Paths[j] EXCEPT !.headers = HeaderLists[i]], <<"c", i, j>>,
              IF i = j THEN <<Limit("l")>> ELSE <<>>)]])

Manager(hosts) ==
    [Filter("http_connection_manager") EXCEPT !.hosts = hosts, !.httpFilters =
       <<[name |-> "ext_authz", allow |-> None, domain |-> None, deny |-> None,
          vh |-> None],
         [name |-> "ratelimit", allow |-> None, domain |-> "d", deny |-> None,
          vh |-> "INCLUDE"]>>]

Tls(clients, params, validation) ==
    [certificates |-> <<>>, secrets |-> <<"s">>, clients |-> clients,
     params |-> params, validation |-> validation]

\* Routes in two orders behind a redirect; another chain with filters that
\* are passed over, and a host whose limits are lists of one and of two.
Rich ==
    Listener(x1,
      <<[Chain(<<Manager(<<Host("a", <<Limit("l")>>, RouteList),
                           Host("b", <<>>, <<Redirect(Paths[2], None)>> \o Reverse(RouteList))>>)>>)
           EXCEPT !.match = [servers |-> {"a", "b"}],
                  !.tls = Tls(TRUE, None, [ca |-> "ca", sds |-> None])],
        [Chain(<<Bucket(Garbled), Bucket(1), Filter("other"),
                Manager(<<Host("a", <<>>, <<Redirect(Paths[1], TRUE)>>)>>),
                TcpProxy("t"),
                Manager(<<Host("b", <<Limit("k"), Limit("l")>>, RouteList)>>)>>)
           EXCEPT !.tls = Tls(TRUE, "p", [ca |-> "ca", sds |-> "s"])],
        [Chain(<<>>) EXCEPT !.tls = Tls(None, "p", [ca |-> "ca", sds |-> None])]>>)

Paths1 == {<<"prefix", "/">>, <<"path", "/a">>, <<"regex", "a.*">>}
Headers1 == {<<"h1", <<"exact", "v">>>>, <<"h2", <<"regex", "w">>>>, <<"h1", None>>}
Asked == [host : {"a", "b"}, path : SUBSET Paths1, headers : SUBSET Headers1]

(* Clusters, endpoint sets, secrets *)

Options(headers, duration) == [headers |-> headers, duration |-> duration]

\* Options of the cluster, of its extension, or of both.
Cluster(x, common, extended) ==
    [name |-> x, timeout |-> Garbled, lb |-> None, panic |-> None,
     breakers |-> None, common |-> common,
     extension |-> [common |-> extended,
                    explicit |-> [http1 |-> None, http2 |-> TRUE]],
     tls |-> None, checks |-> <<[timeout |-> 1, interval |-> Garbled, http |-> None]>>]

Group(p, lb) == [priority |-> p, lb |-> lb]
Endpoints(x, groups) == [name |-> x, policy |-> None, groups |-> groups]
Secret(x) == [name |-> x, certificate |-> "c", validation |-> None]

Simple(x) == Listener(x, <<Chain(<<TcpProxy("t")>>)>>)
Poison(x) == Listener(x, <<Chain(<<TcpProxy(None)>>)>>)

MCBodies ==
    [listeners |-> {Simple(x1), Poison(x1)},
     clusters |-> {Cluster(x1, Options(1, None), Options(2, None)),
                   Cluster(x2, None, Options(1, Garbled))},
     endpoints |-> {Endpoints(x1, <<Group(0, <<"e1">>)>>),
                    Endpoints(x1, <<Group(1, <<"e2">>)>>),
                    Endpoints(x1, <<Group(0, <<"e1", "e3">>)>>),
                    Endpoints(x2, <<Group(0, <<"e1">>)>>)},
     secrets |-> {Secret(x1)}]

NoDocuments == [c \in Collections |-> <<>>]
MCDatabases ==
    {NoDocuments,
     [NoDocuments EXCEPT !["listeners"] = <<Rich>>,
                         !["clusters"] = <<Cluster(x1, Options(1, 2), None)>>,
                         !["endpoints"] = <<Endpoints(x1, <<Group(0, <<"e3">>)>>)>>],
     [NoDocuments EXCEPT !["clusters"] = <<Cluster(x2, Options(1, None), None),
                                           Cluster(x2, None, None)>>]}

\* Nothing tells two handlers apart.
Permuted == Permutations(Handlers)
=============================================================================
