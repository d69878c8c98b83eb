----------------------------- MODULE RateLimit ------------------------------
(***************************************************************************)
(* The rate limit service (src/src/ratelimit/ratelimit.go): several        *)
(* replicas count hits in one Redis, under a key that names the descriptor *)
(* entry and the start of its time window, and remember in a local cache   *)
(* which keys are over their limit.  A request reads the configuration     *)
(* once, then the clock once per descriptor, then counts entry by entry;   *)
(* requests, configuration changes, the clock and Redis expiry interleave. *)
(***************************************************************************)
EXTENDS Naturals, Sequences, FiniteSets

CONSTANTS
    Replicas,     \* processes that share the Redis
    Handlers,     \* gRPC calls in progress, each at one replica
    Domains,      \* rate limit domains
    Entries,      \* descriptor entries: key and value run together
    Configs,      \* configurations SetConfig may install
    Requests,     \* requests Envoy may send
    Wrap,         \* 2^32, the width of limitType.Result
    Faults,       \* subset of {"redis"}
    MaxTime,      \* bound: clock
    MaxRequests   \* bound: requests

Limits == [limit: Nat, unit: Nat \ {0}]
None == [limit |-> 0, unit |-> 0]

ASSUME ConfigsAssumption ==
    \A c \in Configs : c \in [Domains -> [Entries -> {None} \cup Limits]]
ASSUME RequestsAssumption ==
    \A r \in Requests : /\ r.domain \in Domains
                        /\ r.descriptors \in Seq(Seq(Entries))
                        /\ r.hits \in Nat
ASSUME NumbersAssumption ==
    Wrap \in Nat \ {0} /\ MaxTime \in Nat /\ MaxRequests \in Nat

VARIABLES
    now,         \* the clock all replicas and Redis read, in seconds
    redis,       \* counters: how much, and when they expire (0: never)
    localCache,  \* by replica: until when a key is known to be over its limit
    config,      \* by replica: Service.config
    call,        \* by handler: locals of ShouldRateLimit
    requests,    \* requests received so far
    hist         \* history: what became of the hits of each window

vars == <<now, redis, localCache, config, call, requests, hist>>

Times == 0..MaxTime
Keys == Entries \X Times
Absent == [count |-> 0, expires |-> 0]
Idle == [pc |-> "idle"]

\* The history is kept by entry, unit and number of the time window.
Units == {c[d][e].unit : c \in Configs, d \in Domains, e \in Entries} \ {0}
Windows == Entries \X Units \X Times
Fresh == [asked |-> 0, admitted |-> 0, refused |-> FALSE,
          limits |-> {}, faulty |-> FALSE]

\* limitType: the key of a counter, its limit and its life.
Counters == [key: Keys, limit: Nat, expire: Nat \ {0}, window: Windows]
Calls == [pc: {"find", "cache", "incr", "expire"}, replica: Replicas,
          entries: [Entries -> {None} \cup Limits],
          descriptors: Seq(Seq(Entries)), hits: Nat,
          limits: Seq(Counters), result: Nat]

\* The type of every variable.
TypeOK ==
    /\ now \in Times
    /\ redis \in [Keys -> [count: Nat, expires: Nat]]
    /\ localCache \in [Replicas -> [Keys -> Nat]]
    /\ config \in [Replicas -> Configs]
    /\ call \in [Handlers -> {Idle} \cup Calls]
    /\ requests \in Nat
    /\ hist \in [Windows -> [asked: Nat, admitted: Nat, refused: BOOLEAN,
                             limits: SUBSET Nat, faulty: BOOLEAN]]

Init ==
    /\ now = 0
    /\ redis = [k \in Keys |-> Absent]
    /\ localCache = [r \in Replicas |-> [k \in Keys |-> 0]]
    /\ config \in [Replicas -> Configs]
    /\ call = [h \in Handlers |-> Idle]
    /\ requests = 0
    /\ hist = [w \in Windows |-> Fresh]

-----------------------------------------------------------------------------
\* max(1, HitsAddend)
Hits(n) == IF n = 0 THEN 1 ELSE n

\* The configuration of the domain is read once, at the start.
Receive(h) ==
    /\ call[h] = Idle /\ requests < MaxRequests
    /\ requests' = requests + 1
    /\ \E r \in Replicas, q \in Requests :
         call' = [call EXCEPT ![h] =
           [pc |-> "find", replica |-> r, entries |-> config[r][q.domain],
            descriptors |-> q.descriptors, hits |-> Hits(q.hits),
            limits |-> <<>>, result |-> 0]]
    /\ UNCHANGED <<now, redis, localCache, config, hist>>

\* Mutants: a key with the second, with the wrong end of the window.
EverySecond(t, u) == t
WindowEnd(t, u) == (t \div u + 1) * u

\* The window of unit u that t falls in: (unit/divider)*divider.
WindowStart(t, u) == (t \div u) * u

\* findDescriptor: the counters of the entries that have a limit, in the
\* order of the descriptor (a set of one sequence).
Find(entries, descriptor) ==
    LET Limited == {i \in DOMAIN descriptor : entries[descriptor[i]] # None}
        InOrder == {f \in [1..Cardinality(Limited) -> Limited] :
                      \A i, j \in DOMAIN f : i < j => f[i] < f[j]}
        Counter(e) == [key |-> <<e, WindowStart(now, entries[e].unit)>>,
                       limit |-> entries[e].limit,
                       expire |-> entries[e].unit,
                       window |-> <<e, entries[e].unit, now \div entries[e].unit>>]
    IN  {[i \in DOMAIN f |-> Counter(descriptor[f[i]])] : f \in InOrder}

FindDescriptor(h) ==
    /\ call[h].pc = "find"
    /\ \/ /\ call[h].descriptors = <<>>
          /\ call' = [call EXCEPT ![h].pc = "cache"]
       \/ /\ call[h].descriptors # <<>>
          /\ \E found \in Find(call[h].entries, Head(call[h].descriptors)) :
               call' = [call EXCEPT ![h].descriptors = Tail(@),
                                    ![h].limits = @ \o found]
    /\ UNCHANGED <<now, redis, localCache, config, requests, hist>>

\* The local cache answers OVER_LIMIT without asking Redis, unless the key
\* is not there, has expired, or was evicted.
CheckCache(h) ==
    /\ call[h].pc = "cache"
    /\ LET r == call[h].replica
           c == Head(call[h].limits)
       IN  \/ /\ call[h].limits = <<>>
              /\ call' = [call EXCEPT ![h] = Idle]
              /\ UNCHANGED hist
           \/ /\ call[h].limits # <<>> /\ localCache[r][c.key] > now
              /\ call' = [call EXCEPT ![h].limits = Tail(@)]
              /\ hist' = [hist EXCEPT ![c.window].limits = @ \cup {c.limit},
                                      ![c.window].refused = TRUE]
           \/ /\ call[h].limits # <<>>
              /\ call' = [call EXCEPT ![h].pc = "incr"]
              /\ hist' = [hist EXCEPT ![c.window].limits = @ \cup {c.limit}]
    /\ UNCHANGED <<now, redis, localCache, config, requests>>

\* The reply is read into a uint32.
IncrBy(h) ==
    /\ call[h].pc = "incr"
    /\ LET k == Head(call[h].limits).key
           w == Head(call[h].limits).window
           count == redis[k].count + call[h].hits
       IN  \/ /\ redis' = [redis EXCEPT ![k].count = count]
              /\ call' = [call EXCEPT ![h].pc = "expire",
                                      ![h].result = count % Wrap]
              /\ hist' = [hist EXCEPT ![w].asked = @ + call[h].hits]
           \/ /\ "redis" \in Faults    \* applied or not, no reply
              /\ \/ redis' = [redis EXCEPT ![k].count = count]
                 \/ UNCHANGED redis
              /\ call' = [call EXCEPT ![h].pc = "expire", ![h].result = 0]
              /\ hist' = [hist EXCEPT ![w].asked = @ + call[h].hits,
                                      ![w].faulty = TRUE]
    /\ UNCHANGED <<now, localCache, config, requests>>

\* Mutant: the last hit within the limit is one too many.
OverAtLimit(c, result) == result >= c.limit

Over(c, result) == result > c.limit
Expiry(c) == now + c.expire

\* EXPIRE, the second command of the pipeline, then the comparison. Its
\* error is lost: err of line 80 is the one line 71 declares.
ExpireAndCompare(h) ==
    /\ call[h].pc = "expire"
    /\ LET c == Head(call[h].limits)
           over == Over(c, call[h].result)
       IN  /\ \/ redis' = [redis EXCEPT ![c.key].expires =
                             IF redis[c.key].count = 0 THEN 0 ELSE Expiry(c)]
              \/ "redis" \in Faults /\ UNCHANGED redis
           /\ localCache' = IF over
                            THEN [localCache EXCEPT ![call[h].replica][c.key] =
                                    Expiry(c)]
                            ELSE localCache
           /\ hist' = IF over
                      THEN [hist EXCEPT ![c.window].refused = TRUE]
                      ELSE [hist EXCEPT ![c.window].admitted = @ + call[h].hits]
    /\ call' = [call EXCEPT ![h].pc = "cache", ![h].limits = Tail(@)]
    /\ UNCHANGED <<now, config, requests>>

SetConfig(r, c) ==
    /\ config' = [config EXCEPT ![r] = c]
    /\ UNCHANGED <<now, redis, localCache, call, requests, hist>>

\* A second passes; Redis drops the counters whose time has come.
Tick ==
    /\ now < MaxTime
    /\ now' = now + 1
    /\ redis' = [k \in Keys |->
                  IF redis[k].expires # 0 /\ redis[k].expires <= now + 1
                  THEN Absent ELSE redis[k]]
    /\ UNCHANGED <<localCache, config, call, requests, hist>>

Serve(h) == FindDescriptor(h) \/ CheckCache(h) \/ IncrBy(h) \/ ExpireAndCompare(h)

Next ==
    \/ \E h \in Handlers : Receive(h) \/ Serve(h)
    \/ \E r \in Replicas, c \in Configs : SetConfig(r, c)
    \/ Tick

Spec == Init /\ [][Next]_vars

-----------------------------------------------------------------------------
(* Properties *)

\* Two units make the same key if their windows start together.
Shared(w) ==
    \E x \in Windows : /\ x[1] = w[1] /\ x[2] # w[2] /\ x[2] * x[3] = w[2] * w[3]
                       /\ hist[x].limits # {}

\* While a window lasts, the hits all replicas together let through for an
\* entry stay within the largest limit a request was held to. Excused are
\* windows a Redis failure touched (the service then lets everything pass),
\* those whose key two domains or configurations share with different units
\* (the shorter EXPIRE cuts the longer window short), and those that have
\* counted 2^32 hits, where the uint32 starts again.
NoOverAdmission ==
    \A w \in Windows :
        /\ now \div w[2] = w[3]
        /\ ~hist[w].faulty /\ ~Shared(w) /\ hist[w].asked < Wrap
        => hist[w].admitted = 0 \/ \E l \in hist[w].limits : hist[w].admitted <= l

\* Nobody is refused while the hits asked for in a window are within every
\* limit requests were held to: neither a stale local cache nor a counter
\* that outlives its window refuses too much.
NoFalseRefusal ==
    \A w \in Windows :
        hist[w].refused /\ ~Shared(w) =>
            \E l \in hist[w].limits : hist[w].asked > l
=============================================================================
