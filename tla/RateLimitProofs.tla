--------------------------- MODULE RateLimitProofs ----------------------------
(***************************************************************************)
(* Proofs about RateLimit for any replicas, calls, domains, entries,       *)
(* configurations, requests, faults and bounds, and any width of the       *)
(* result: type correctness, NoFalseRefusal and NoOverAdmission.           *)
(***************************************************************************)
EXTENDS RateLimit, FiniteSetTheorems, TLAPS

(* Time windows *)

\* The start of a window, and its key in Redis and in the local caches.
Start(w) == w[2] * w[3]
KeyOf(w) == <<w[1], Start(w)>>

LEMMA Division ==
  ASSUME NEW t \in Nat, NEW u \in Nat \ {0}
  PROVE  /\ t \div u \in Nat /\ t \div u <= t
         /\ u * (t \div u) <= t /\ t < u * (t \div u) + u
         /\ (t \div u) * u = u * (t \div u)
OBVIOUS

LEMMA Quotient ==
  ASSUME NEW t \in Nat, NEW u \in Nat \ {0}, NEW n \in Nat
  PROVE  t \div u = n <=> u * n <= t /\ t < u * n + u
OBVIOUS

LEMMA Remainder ==
  ASSUME NEW t \in Nat, NEW u \in Nat \ {0}
  PROVE  t % u \in Nat /\ t % u <= t /\ (t < u => t % u = t)
OBVIOUS

\* The units of time in the configurations.
LEMMA UnitsType ==
  /\ \A c \in Configs, d \in Domains : c[d] \in [Entries -> {None} \cup Limits]
  /\ \A c \in Configs, d \in Domains, e \in Entries :
       c[d][e] # None => /\ c[d][e].unit \in Units /\ c[d][e].unit \in Nat \ {0}
                         /\ c[d][e].limit \in Nat
  /\ Units \subseteq Nat \ {0}
<1>1. \A c \in Configs, d \in Domains : c[d] \in [Entries -> {None} \cup Limits]
  BY ConfigsAssumption
<1>2. \A c \in Configs, d \in Domains, e \in Entries :
        c[d][e] # None => c[d][e] \in Limits
  BY <1>1
<1>3. \A c \in Configs, d \in Domains, e \in Entries : c[d][e].unit \in Nat
  BY <1>1 DEF Limits, None
<1>. QED
  BY <1>1, <1>2, <1>3 DEF Limits, Units

LEMMA WindowType ==
  ASSUME NEW w \in Windows
  PROVE  /\ w[1] \in Entries /\ w[2] \in Units /\ w[2] \in Nat \ {0}
         /\ w[3] \in Nat /\ Start(w) \in Nat /\ w = <<w[1], w[2], w[3]>>
<1>1. w[1] \in Entries /\ w[2] \in Units /\ w[3] \in Times
      /\ w = <<w[1], w[2], w[3]>>
  BY DEF Windows
<1>2. w[2] \in Nat \ {0} /\ w[3] \in Nat
  BY <1>1, UnitsType DEF Times
<1>3. Start(w) \in Nat
  BY <1>2 DEF Start
<1>. QED
  BY <1>1, <1>2, <1>3

\* Windows of one unit have one key only if they are the same.
LEMMA SameWindow ==
  ASSUME NEW v \in Windows, NEW w \in Windows, KeyOf(v) = KeyOf(w), v[2] = w[2]
  PROVE  v = w
<1>1. v[1] = w[1] /\ w[2] * v[3] = w[2] * w[3]
  BY DEF KeyOf, Start
<1>2. v[3] = w[3]
  BY <1>1, WindowType
<1>3. v = <<v[1], v[2], v[3]>> /\ w = <<w[1], w[2], w[3]>>
  BY WindowType
<1>. QED
  BY <1>1, <1>2, <1>3

-----------------------------------------------------------------------------
(* Types *)

\* A counter belongs to a window that has begun.
CounterSound(c) ==
    /\ c.key = KeyOf(c.window) /\ c.expire = c.window[2]
    /\ Start(c.window) <= now

\* The locals of a call: what it read of a configuration, the counters it
\* found; it counts for the first of them, whose limit is on record.
SoundCall(h) ==
    call[h] # Idle =>
        /\ \E c \in Configs, d \in Domains : call[h].entries = c[d]
        /\ \A i \in DOMAIN call[h].limits : CounterSound(call[h].limits[i])
        /\ call[h].pc \in {"incr", "expire"} =>
             /\ call[h].limits # <<>>
             /\ Head(call[h].limits).limit \in hist[Head(call[h].limits).window].limits

TInv == TypeOK /\ \A h \in Handlers : SoundCall(h)

LEMMA InitTypes == Init => TInv
<1>. SUFFICES ASSUME Init PROVE TInv
  OBVIOUS
<1>1. now \in Times
  BY NumbersAssumption DEF Init, Times
<1>2. redis \in [Keys -> [count: Nat, expires: Nat]]
  BY DEF Init, Absent
<1>3. hist \in [Windows -> [asked: Nat, admitted: Nat, refused: BOOLEAN,
                             limits: SUBSET Nat, faulty: BOOLEAN]]
  BY DEF Init, Fresh
<1>. QED
  BY <1>1, <1>2, <1>3 DEF Init, TInv, TypeOK, SoundCall

\* A call in progress has its locals, a call at a counter has a counter.
LEMMA Serving ==
  ASSUME TInv, NEW h \in Handlers, call[h] # Idle
  PROVE  /\ call[h] \in Calls
         /\ \A i \in DOMAIN call[h].limits : call[h].limits[i] \in Counters
         /\ call[h].limits # <<>> => /\ Head(call[h].limits) = call[h].limits[1]
                                     /\ Head(call[h].limits) \in Counters
                                     /\ CounterSound(Head(call[h].limits))
                                     /\ Tail(call[h].limits) \in Seq(Counters)
<1>1. call[h] \in Calls
  BY DEF TInv, TypeOK
<1>2. call[h].limits \in Seq(Counters)
  BY <1>1 DEF Calls
<1>3. call[h].limits # <<>> => 1 \in DOMAIN call[h].limits
  BY <1>2
<1>. QED
  BY <1>1, <1>2, <1>3 DEF TInv, SoundCall

\* The locals of a call in progress.
LEMMA InProgress ==
  ASSUME TInv, NEW h \in Handlers, call[h].pc \in {"find", "cache", "incr", "expire"}
  PROVE  /\ call[h] # Idle /\ call[h] \in Calls /\ SoundCall(h)
         /\ call[h].hits \in Nat /\ call[h].result \in Nat
         /\ call[h].replica \in Replicas /\ call[h].limits \in Seq(Counters)
         /\ call[h].pc \in {"incr", "expire"} => call[h].limits # <<>>
<1>1. call[h] # Idle
  BY DEF Idle
<1>2. call[h] \in Calls /\ SoundCall(h)
  BY <1>1, Serving DEF TInv
<1>3. /\ call[h].hits \in Nat /\ call[h].result \in Nat
      /\ call[h].replica \in Replicas /\ call[h].limits \in Seq(Counters)
  BY <1>2 DEF Calls
<1>4. call[h].pc \in {"incr", "expire"} => call[h].limits # <<>>
  BY <1>1, <1>2 DEF SoundCall
<1>. QED
  BY <1>1, <1>2, <1>3, <1>4

\* The record of a window.
Records == [asked: Nat, admitted: Nat, refused: BOOLEAN,
            limits: SUBSET Nat, faulty: BOOLEAN]

LEMMA RecordStep ==
  ASSUME TInv, NEW w \in Windows, NEW new \in Records, hist' = [hist EXCEPT ![w] = new]
  PROVE  /\ hist' \in [Windows -> Records] /\ hist'[w] = new
         /\ \A v \in Windows \ {w} : hist'[v] = hist[v]
BY DEF TInv, TypeOK, Records

LEMMA CallStep ==
  ASSUME TInv, NEW h \in Handlers, NEW new \in {Idle} \cup Calls,
         call' = [call EXCEPT ![h] = new]
  PROVE  /\ call' \in [Handlers -> {Idle} \cup Calls] /\ call'[h] = new
         /\ \A g \in Handlers \ {h} : call'[g] = call[g]
BY DEF TInv, TypeOK

\* What a call found stays sound while time passes and limits are added.
LEMMA OtherCalls ==
  ASSUME TInv, NEW g \in Handlers, call'[g] = call[g], now' \in Nat, now <= now',
         \A w \in Windows : hist[w].limits \subseteq hist'[w].limits
  PROVE  SoundCall(g)'
<1>. SUFFICES ASSUME call[g] # Idle PROVE SoundCall(g)'
  BY DEF SoundCall
<1>1. /\ \E c \in Configs, d \in Domains : call[g].entries = c[d]
      /\ \A i \in DOMAIN call[g].limits : CounterSound(call[g].limits[i])
      /\ call[g].pc \in {"incr", "expire"} =>
           /\ call[g].limits # <<>>
           /\ Head(call[g].limits).limit \in hist[Head(call[g].limits).window].limits
  BY DEF TInv, SoundCall
<1>2. \A i \in DOMAIN call[g].limits : call[g].limits[i].window \in Windows
  BY Serving DEF Counters
<1>3. now \in Nat
  BY DEF TInv, TypeOK, Times
<1>4. \A i \in DOMAIN call[g].limits : CounterSound(call[g].limits[i])'
  BY <1>1, <1>2, <1>3, WindowType DEF CounterSound
<1>5. call[g].limits # <<>> => Head(call[g].limits).window \in Windows
  BY Serving DEF Counters
<1>. QED
  BY <1>1, <1>4, <1>5 DEF SoundCall

\* A step of the call of h.
LEMMA ServeTypes ==
  ASSUME TInv, NEW h \in Handlers, NEW new \in {Idle} \cup Calls,
         call' = [call EXCEPT ![h] = new], SoundCall(h)',
         UNCHANGED <<now, config>>, requests' \in Nat,
         redis' \in [Keys -> [count: Nat, expires: Nat]],
         localCache' \in [Replicas -> [Keys -> Nat]],
         hist' \in [Windows -> Records],
         \A w \in Windows : hist[w].limits \subseteq hist'[w].limits
  PROVE  TInv'
<1>1. now \in Nat
  BY DEF TInv, TypeOK, Times
<1>2. \A g \in Handlers : SoundCall(g)'
  BY <1>1, CallStep, OtherCalls
<1>. QED
  BY <1>2, CallStep DEF TInv, TypeOK, SoundCall, Records

\* findDescriptor finds counters of windows that last.
LEMMA FindType ==
  ASSUME TInv, NEW c \in Configs, NEW d \in Domains, NEW entries, entries = c[d],
         NEW descriptor \in Seq(Entries), NEW found \in Find(entries, descriptor)
  PROVE  /\ found \in Seq(Counters)
         /\ \A i \in DOMAIN found : CounterSound(found[i])
<1>. DEFINE Limited == {i \in DOMAIN descriptor : entries[descriptor[i]] # None}
            Counter(e) == [key |-> <<e, WindowStart(now, entries[e].unit)>>,
                           limit |-> entries[e].limit,
                           expire |-> entries[e].unit,
                           window |-> <<e, entries[e].unit, now \div entries[e].unit>>]
            n == Cardinality(Limited)
<1>1. ASSUME NEW i \in Limited
      PROVE  Counter(descriptor[i]) \in Counters /\ CounterSound(Counter(descriptor[i]))
  <2>. DEFINE e == descriptor[i]
              u == entries[e].unit
              q == now \div u
  <2>1. e \in Entries /\ entries[e] # None
    OBVIOUS
  <2>2. u \in Units /\ u \in Nat \ {0} /\ entries[e].limit \in Nat
    BY <2>1, UnitsType
  <2>3. now \in Nat /\ now <= MaxTime
    BY NumbersAssumption DEF TInv, TypeOK, Times
  <2>. HIDE DEF e
  <2>4. /\ q \in Nat /\ q <= now /\ u * q <= now /\ q * u = u * q
    BY <2>2, <2>3, Division
  <2>5. q \in Times /\ u * q \in Times
    BY <2>2, <2>3, <2>4, NumbersAssumption DEF Times
  <2>6. <<e, u, q>> \in Windows /\ <<e, q * u>> \in Keys
    BY <2>1, <2>2, <2>4, <2>5 DEF Windows, Keys
  <2>7. Start(<<e, u, q>>) = u * q /\ KeyOf(<<e, u, q>>) = <<e, u * q>>
    BY DEF Start, KeyOf
  <2>. HIDE DEF q
  <2>8. Counter(e) = [key |-> <<e, q * u>>, limit |-> entries[e].limit,
                      expire |-> u, window |-> <<e, u, q>>]
    BY DEF WindowStart, q
  <2>. HIDE DEF Counter, u
  <2>9. Counter(e) \in Counters
    BY <2>2, <2>6, <2>8 DEF Counters
  <2>10. CounterSound(Counter(e))
    BY <2>4, <2>7, <2>8 DEF CounterSound
  <2>. QED
    BY <2>9, <2>10 DEF e
<1>2. n \in Nat
  <2>1. DOMAIN descriptor = 1..Len(descriptor) /\ Len(descriptor) \in Nat
    OBVIOUS
  <2>2. IsFiniteSet(1..Len(descriptor))
    BY <2>1, FS_Interval
  <2>. QED
    BY <2>1, <2>2, FS_Subset, FS_CardinalityType
<1>3. PICK f \in [1..n -> Limited] :
        found = [i \in DOMAIN f |-> Counter(descriptor[f[i]])]
  BY DEF Find
<1>. HIDE DEF n, Counter, Limited
<1>4. found \in [1..n -> Counters] /\ \A i \in 1..n : CounterSound(found[i])
  BY <1>1, <1>3
<1>. QED
  BY <1>2, <1>4

LEMMA ReceiveTypes ==
  ASSUME TInv, NEW h \in Handlers, Receive(h)
  PROVE  TInv'
<1>1. PICK r \in Replicas, q \in Requests :
        call' = [call EXCEPT ![h] =
          [pc |-> "find", replica |-> r, entries |-> config[r][q.domain],
           descriptors |-> q.descriptors, hits |-> Hits(q.hits),
           limits |-> <<>>, result |-> 0]]
  BY DEF Receive
<1>. DEFINE new == [pc |-> "find", replica |-> r, entries |-> config[r][q.domain],
                    descriptors |-> q.descriptors, hits |-> Hits(q.hits),
                    limits |-> <<>>, result |-> 0]
<1>2. config[r] \in Configs /\ q.domain \in Domains
  BY RequestsAssumption DEF TInv, TypeOK
<1>3. config[r][q.domain] \in [Entries -> {None} \cup Limits]
  BY <1>2, UnitsType
<1>4. q.descriptors \in Seq(Seq(Entries)) /\ Hits(q.hits) \in Nat
  BY RequestsAssumption DEF Hits
<1>5. new \in Calls
  BY <1>3, <1>4 DEF Calls
<1>6. call'[h] = new
  BY <1>1, <1>5, CallStep
<1>7. SoundCall(h)'
  BY <1>2, <1>6 DEF SoundCall
<1>8. call' = [call EXCEPT ![h] = new]
  BY <1>1
<1>. HIDE DEF new
<1>9. requests' \in Nat /\ UNCHANGED <<now, redis, localCache, config, hist>>
  BY DEF Receive, TInv, TypeOK
<1>. QED
  BY <1>5, <1>7, <1>8, <1>9, ServeTypes DEF TInv, TypeOK, Records

LEMMA FindTypes ==
  ASSUME TInv, NEW h \in Handlers, FindDescriptor(h)
  PROVE  TInv'
<1>1. call[h] # Idle /\ call[h] \in Calls /\ call[h].pc = "find" /\ SoundCall(h)
  <2>1. call[h].pc = "find"
    BY DEF FindDescriptor
  <2>. QED
    BY <2>1, InProgress
<1>2. \A i \in DOMAIN call[h].limits : call[h].limits[i] \in Counters /\ CounterSound(call[h].limits[i])
  BY <1>1, Serving DEF SoundCall
<1>3. PICK c \in Configs, d \in Domains : call[h].entries = c[d]
  BY <1>1 DEF SoundCall
<1>4. CASE call' = [call EXCEPT ![h].pc = "cache"]
  <2>. DEFINE new == [call[h] EXCEPT !.pc = "cache"]
  <2>1. new \in Calls /\ new.pc = "cache" /\ new.entries = call[h].entries
        /\ new.limits = call[h].limits
    BY <1>1 DEF Calls
  <2>2. call' = [call EXCEPT ![h] = new]
    BY <1>4 DEF TInv, TypeOK
  <2>3. call'[h] = new
    BY <2>1, <2>2, CallStep
  <2>. HIDE DEF new
  <2>4. SoundCall(h)'
    BY <1>1, <2>1, <2>3 DEF SoundCall, CounterSound, FindDescriptor
  <2>. QED
    BY <2>1, <2>2, <2>4, ServeTypes DEF FindDescriptor, TInv, TypeOK, Records
<1>5. ASSUME call[h].descriptors # <<>>,
             NEW found \in Find(call[h].entries, Head(call[h].descriptors)),
             call' = [call EXCEPT ![h].descriptors = Tail(@), ![h].limits = @ \o found]
      PROVE  TInv'
  <2>. DEFINE limits == call[h].limits \o found
              new == [call[h] EXCEPT !.descriptors = Tail(@), !.limits = limits]
  <2>1. call[h].descriptors \in Seq(Seq(Entries)) /\ call[h].limits \in Seq(Counters)
    BY <1>1 DEF Calls
  <2>2. Head(call[h].descriptors) \in Seq(Entries) /\ Tail(call[h].descriptors) \in Seq(Seq(Entries))
    BY <1>5, <2>1
  <2>3. found \in Seq(Counters) /\ \A i \in DOMAIN found : CounterSound(found[i])
    BY <1>3, <2>2, FindType
  <2>4. limits \in Seq(Counters)
    BY <2>1, <2>3
  <2>5. \A i \in DOMAIN limits : CounterSound(limits[i])
    <3>. SUFFICES ASSUME NEW i \in DOMAIN limits
                  PROVE  \/ i \in DOMAIN call[h].limits /\ limits[i] = call[h].limits[i]
                         \/ \E j \in DOMAIN found : limits[i] = found[j]
      BY <1>2, <2>3
    <3>1. /\ DOMAIN limits = 1..(Len(call[h].limits) + Len(found))
          /\ DOMAIN found = 1..Len(found) /\ DOMAIN call[h].limits = 1..Len(call[h].limits)
          /\ Len(found) \in Nat /\ Len(call[h].limits) \in Nat
      BY <2>1, <2>3
    <3>2. limits[i] = IF i <= Len(call[h].limits) THEN call[h].limits[i]
                      ELSE found[i - Len(call[h].limits)]
      BY <2>1, <2>3, <3>1
    <3>3. i > Len(call[h].limits) => i - Len(call[h].limits) \in DOMAIN found
      BY <3>1
    <3>. QED
      BY <3>1, <3>2, <3>3
  <2>. HIDE DEF limits
  <2>6. new \in Calls /\ new.pc = "find" /\ new.entries = call[h].entries /\ new.limits = limits
    BY <1>1, <2>2, <2>4 DEF Calls
  <2>7. call' = [call EXCEPT ![h] = new]
    BY <1>5 DEF TInv, TypeOK, limits
  <2>8. call'[h] = new
    BY <2>6, <2>7, CallStep
  <2>. HIDE DEF new
  <2>9. SoundCall(h)'
    BY <1>3, <2>5, <2>6, <2>8 DEF SoundCall, CounterSound, FindDescriptor
  <2>. QED
    BY <2>6, <2>7, <2>9, ServeTypes DEF FindDescriptor, TInv, TypeOK, Records
<1>. QED
  BY <1>4, <1>5 DEF FindDescriptor

\* The first counter of a call.
LEMMA FirstCounter ==
  ASSUME TInv, NEW h \in Handlers, call[h] # Idle, call[h].limits # <<>>,
         NEW c, c = Head(call[h].limits)
  PROVE  /\ c \in Counters /\ CounterSound(c) /\ Tail(call[h].limits) \in Seq(Counters)
         /\ c.window \in Windows /\ hist[c.window] \in Records
         /\ c.limit \in Nat /\ c.key \in Keys /\ c.expire \in Nat
<1>1. c \in Counters /\ CounterSound(c) /\ Tail(call[h].limits) \in Seq(Counters)
  BY Serving
<1>. QED
  BY <1>1 DEF Counters, TInv, TypeOK, Records

(* What a step does to the record of a window. *)

WithLimit(r, n) == [r EXCEPT !.limits = @ \cup {n}]

LEMMA LimitAdded ==
  ASSUME NEW r \in Records, NEW n \in Nat
  PROVE  LET s == WithLimit(r, n) IN
         /\ s \in Records /\ s.limits = r.limits \cup {n} /\ s.asked = r.asked
         /\ s.admitted = r.admitted /\ s.faulty = r.faulty /\ s.refused = r.refused
<1>1. r.limits \cup {n} \in SUBSET Nat
  BY DEF Records
<1>. QED
  BY <1>1 DEF Records, WithLimit

RefusedAtOnce(r, n) == [r EXCEPT !.limits = @ \cup {n}, !.refused = TRUE]

LEMMA CachedRefused ==
  ASSUME NEW r \in Records, NEW n \in Nat
  PROVE  LET s == RefusedAtOnce(r, n) IN
         /\ s \in Records /\ s.limits = r.limits \cup {n} /\ s.asked = r.asked
         /\ s.admitted = r.admitted /\ s.faulty = r.faulty
<1>1. r.limits \cup {n} \in SUBSET Nat
  BY DEF Records
<1>. QED
  BY <1>1 DEF Records, RefusedAtOnce

AskedFor(r, n) == [r EXCEPT !.asked = @ + n]

LEMMA HitsAsked ==
  ASSUME NEW r \in Records, NEW n \in Nat
  PROVE  LET s == AskedFor(r, n) IN
         /\ s \in Records /\ s.limits = r.limits /\ s.asked = r.asked + n
         /\ s.admitted = r.admitted /\ s.faulty = r.faulty /\ s.refused = r.refused
<1>1. r.asked + n \in Nat
  BY DEF Records
<1>. QED
  BY <1>1 DEF Records, AskedFor

AskedInVain(r, n) == [r EXCEPT !.asked = @ + n, !.faulty = TRUE]

LEMMA HitsLost ==
  ASSUME NEW r \in Records, NEW n \in Nat
  PROVE  LET s == AskedInVain(r, n) IN
         /\ s \in Records /\ s.limits = r.limits /\ s.asked = r.asked + n
         /\ s.admitted = r.admitted /\ s.faulty /\ s.refused = r.refused
<1>1. r.asked + n \in Nat
  BY DEF Records
<1>. QED
  BY <1>1 DEF Records, AskedInVain

LetThrough(r, n) == [r EXCEPT !.admitted = @ + n]

LEMMA HitsAdmitted ==
  ASSUME NEW r \in Records, NEW n \in Nat
  PROVE  LET s == LetThrough(r, n) IN
         /\ s \in Records /\ s.limits = r.limits /\ s.asked = r.asked
         /\ s.admitted = r.admitted + n /\ s.faulty = r.faulty /\ s.refused = r.refused
<1>1. r.admitted + n \in Nat
  BY DEF Records
<1>. QED
  BY <1>1 DEF Records, LetThrough

Refusing(r) == [r EXCEPT !.refused = TRUE]

LEMMA HitsRefused ==
  ASSUME NEW r \in Records
  PROVE  LET s == Refusing(r) IN
         /\ s \in Records /\ s.limits = r.limits /\ s.asked = r.asked
         /\ s.admitted = r.admitted /\ s.faulty = r.faulty
BY DEF Records, Refusing

-----------------------------------------------------------------------------
(* What a step of a call at its first counter c does, variable by variable. *)

LEMMA NextCounter ==
  ASSUME TInv, NEW h \in Handlers, call[h] # Idle, call[h].limits # <<>>
  PROVE  \A i \in DOMAIN Tail(call[h].limits) : CounterSound(Tail(call[h].limits)[i])
<1>1. call[h].limits \in Seq(Counters) /\ SoundCall(h)
  BY Serving DEF Calls, TInv
<1>2. \A i \in DOMAIN Tail(call[h].limits) :
        i + 1 \in DOMAIN call[h].limits /\ Tail(call[h].limits)[i] = call[h].limits[i + 1]
  BY <1>1
<1>. QED
  BY <1>1, <1>2 DEF SoundCall

\* CheckCache at a counter: its limit goes on record, and a refusal, if
\* there is a new one, is what the local cache said.
CacheEffect(h, c) ==
    /\ hist' \in [Windows -> Records]
    /\ \A v \in Windows \ {c.window} : hist'[v] = hist[v]
    /\ hist'[c.window].limits = hist[c.window].limits \cup {c.limit}
    /\ hist'[c.window].asked = hist[c.window].asked
    /\ hist'[c.window].admitted = hist[c.window].admitted
    /\ hist'[c.window].faulty = hist[c.window].faulty
    /\ hist'[c.window].refused =>
         hist[c.window].refused \/ localCache[call[h].replica][c.key] > now
    /\ call' = [call EXCEPT ![h] = call'[h]] /\ call'[h] \in Calls
    /\ call'[h].entries = call[h].entries
    /\ \/ call'[h].pc = "cache" /\ call'[h].limits = Tail(call[h].limits)
       \/ call'[h].pc = "incr" /\ call'[h].limits = call[h].limits

LEMMA CheckCacheEffect ==
  ASSUME TInv, NEW h \in Handlers, CheckCache(h), call[h].limits # <<>>,
         NEW c, c = Head(call[h].limits)
  PROVE  CacheEffect(h, c)
<1>1. call[h] # Idle /\ call[h].pc = "cache" /\ call[h].result \in Nat
      /\ call[h] \in Calls /\ call[h].limits \in Seq(Counters)
  <2>1. call[h].pc = "cache"
    BY DEF CheckCache
  <2>. QED
    BY <2>1, InProgress
<1>2. /\ Tail(call[h].limits) \in Seq(Counters)
      /\ c.window \in Windows /\ hist[c.window] \in Records /\ c.limit \in Nat
  BY <1>1, FirstCounter
<1>3. CASE /\ localCache[call[h].replica][c.key] > now
           /\ call' = [call EXCEPT ![h].limits = Tail(@)]
           /\ hist' = [hist EXCEPT ![c.window].limits = @ \cup {c.limit},
                                   ![c.window].refused = TRUE]
  <2>. DEFINE new == [call[h] EXCEPT !.limits = Tail(@)]
              s == RefusedAtOnce(hist[c.window], c.limit)
  <2>1. call' = [call EXCEPT ![h] = new]
    BY <1>3 DEF TInv, TypeOK
  <2>2. new \in Calls /\ new.pc = "cache" /\ new.limits = Tail(call[h].limits)
        /\ new.entries = call[h].entries
    BY <1>1, <1>2 DEF Calls
  <2>3. hist' = [hist EXCEPT ![c.window] = s]
    BY <1>2, <1>3 DEF TInv, TypeOK, RefusedAtOnce
  <2>4. /\ s \in Records /\ s.limits = hist[c.window].limits \cup {c.limit}
        /\ s.asked = hist[c.window].asked /\ s.admitted = hist[c.window].admitted
        /\ s.faulty = hist[c.window].faulty
    BY <1>2, CachedRefused
  <2>. HIDE DEF new, s
  <2>5. call'[h] = new
    BY <2>1, <2>2, CallStep
  <2>6. /\ hist' \in [Windows -> Records] /\ hist'[c.window] = s
        /\ \A v \in Windows \ {c.window} : hist'[v] = hist[v]
    BY <1>2, <2>3, <2>4, RecordStep
  <2>. QED
    BY <1>3, <2>1, <2>2, <2>4, <2>5, <2>6 DEF CacheEffect
<1>4. CASE /\ call' = [call EXCEPT ![h].pc = "incr"]
           /\ hist' = [hist EXCEPT ![c.window].limits = @ \cup {c.limit}]
  <2>. DEFINE new == [call[h] EXCEPT !.pc = "incr"]
              s == WithLimit(hist[c.window], c.limit)
  <2>1. call' = [call EXCEPT ![h] = new]
    BY <1>4 DEF TInv, TypeOK
  <2>2. new \in Calls /\ new.pc = "incr" /\ new.limits = call[h].limits
        /\ new.entries = call[h].entries
    BY <1>1 DEF Calls
  <2>3. hist' = [hist EXCEPT ![c.window] = s]
    BY <1>2, <1>4 DEF TInv, TypeOK, WithLimit
  <2>4. /\ s \in Records /\ s.limits = hist[c.window].limits \cup {c.limit}
        /\ s.asked = hist[c.window].asked /\ s.admitted = hist[c.window].admitted
        /\ s.faulty = hist[c.window].faulty /\ s.refused = hist[c.window].refused
    BY <1>2, LimitAdded
  <2>. HIDE DEF new, s
  <2>5. call'[h] = new
    BY <2>1, <2>2, CallStep
  <2>6. /\ hist' \in [Windows -> Records] /\ hist'[c.window] = s
        /\ \A v \in Windows \ {c.window} : hist'[v] = hist[v]
    BY <1>2, <2>3, <2>4, RecordStep
  <2>. QED
    BY <2>1, <2>2, <2>4, <2>5, <2>6 DEF CacheEffect
<1>. QED
  BY <1>3, <1>4 DEF CheckCache

\* IncrBy: the hits are asked for; the counter and the result follow, or
\* the failure is on record.
IncrEffect(h, c) ==
    /\ hist' \in [Windows -> Records]
    /\ \A v \in Windows \ {c.window} : hist'[v] = hist[v]
    /\ hist'[c.window].limits = hist[c.window].limits
    /\ hist'[c.window].asked = hist[c.window].asked + call[h].hits
    /\ hist'[c.window].admitted = hist[c.window].admitted
    /\ hist'[c.window].refused = hist[c.window].refused
    /\ redis' \in [Keys -> [count: Nat, expires: Nat]]
    /\ \A k \in Keys \ {c.key} : redis'[k] = redis[k]
    /\ redis'[c.key].expires = redis[c.key].expires
    /\ call' = [call EXCEPT ![h] = call'[h]] /\ call'[h] \in Calls
    /\ call'[h].pc = "expire" /\ call'[h].limits = call[h].limits
    /\ call'[h].entries = call[h].entries /\ call'[h].hits = call[h].hits
    /\ \/ /\ redis'[c.key].count = redis[c.key].count + call[h].hits
          /\ call'[h].result = (redis[c.key].count + call[h].hits) % Wrap
          /\ hist'[c.window].faulty = hist[c.window].faulty
       \/ /\ redis'[c.key].count \in {redis[c.key].count,
                                      redis[c.key].count + call[h].hits}
          /\ call'[h].result = 0
          /\ hist'[c.window].faulty

LEMMA IncrByEffect ==
  ASSUME TInv, NEW h \in Handlers, IncrBy(h), NEW c, c = Head(call[h].limits)
  PROVE  call[h].limits # <<>> /\ IncrEffect(h, c)
<1>1. call[h] # Idle /\ call[h].pc = "incr" /\ call[h] \in Calls /\ call[h].hits \in Nat
      /\ call[h].limits # <<>>
  <2>1. call[h].pc = "incr"
    BY DEF IncrBy
  <2>. QED
    BY <2>1, InProgress
<1>2. /\ c.window \in Windows /\ hist[c.window] \in Records /\ c.key \in Keys
  BY <1>1, FirstCounter
<1>3. /\ redis[c.key] \in [count: Nat, expires: Nat]
      /\ redis \in [Keys -> [count: Nat, expires: Nat]]
  BY <1>2 DEF TInv, TypeOK
<1>4. ASSUME NEW n \in Nat, redis' = [redis EXCEPT ![c.key].count = n]
      PROVE  /\ redis' \in [Keys -> [count: Nat, expires: Nat]]
             /\ \A k \in Keys \ {c.key} : redis'[k] = redis[k]
             /\ redis'[c.key].expires = redis[c.key].expires
             /\ redis'[c.key].count = n
  BY <1>2, <1>3, <1>4
<1>5. redis[c.key].count + call[h].hits \in Nat
  BY <1>1, <1>3
<1>6. CASE /\ redis' = [redis EXCEPT ![c.key].count = redis[c.key].count + call[h].hits]
           /\ call' = [call EXCEPT ![h].pc = "expire",
                        ![h].result = (redis[c.key].count + call[h].hits) % Wrap]
           /\ hist' = [hist EXCEPT ![c.window].asked = @ + call[h].hits]
  <2>. DEFINE n == (redis[c.key].count + call[h].hits) % Wrap
              new == [call[h] EXCEPT !.pc = "expire", !.result = n]
              s == AskedFor(hist[c.window], call[h].hits)
  <2>1. n \in Nat
    BY <1>5, NumbersAssumption, Remainder
  <2>2. call' = [call EXCEPT ![h] = new]
    BY <1>6 DEF TInv, TypeOK
  <2>. HIDE DEF n
  <2>3. new \in Calls /\ new.pc = "expire" /\ new.limits = call[h].limits
        /\ new.entries = call[h].entries /\ new.hits = call[h].hits /\ new.result = n
    BY <1>1, <2>1 DEF Calls
  <2>4. hist' = [hist EXCEPT ![c.window] = s]
    BY <1>2, <1>6 DEF TInv, TypeOK, AskedFor
  <2>5. /\ s \in Records /\ s.limits = hist[c.window].limits
        /\ s.asked = hist[c.window].asked + call[h].hits
        /\ s.admitted = hist[c.window].admitted
        /\ s.faulty = hist[c.window].faulty /\ s.refused = hist[c.window].refused
    BY <1>1, <1>2, HitsAsked
  <2>. HIDE DEF new, s
  <2>6. call'[h] = new
    BY <2>2, <2>3, CallStep
  <2>7. /\ hist' \in [Windows -> Records] /\ hist'[c.window] = s
        /\ \A v \in Windows \ {c.window} : hist'[v] = hist[v]
    BY <1>2, <2>4, <2>5, RecordStep
  <2>8. /\ redis' \in [Keys -> [count: Nat, expires: Nat]]
        /\ \A k \in Keys \ {c.key} : redis'[k] = redis[k]
        /\ redis'[c.key].expires = redis[c.key].expires
        /\ redis'[c.key].count = redis[c.key].count + call[h].hits
    BY <1>4, <1>5, <1>6
  <2>. QED
    BY <1>1, <2>2, <2>3, <2>5, <2>6, <2>7, <2>8 DEF IncrEffect, n
<1>7. CASE /\ \/ redis' = [redis EXCEPT ![c.key].count = redis[c.key].count + call[h].hits]
              \/ UNCHANGED redis
           /\ call' = [call EXCEPT ![h].pc = "expire", ![h].result = 0]
           /\ hist' = [hist EXCEPT ![c.window].asked = @ + call[h].hits,
                                   ![c.window].faulty = TRUE]
  <2>. DEFINE new == [call[h] EXCEPT !.pc = "expire", !.result = 0]
              s == AskedInVain(hist[c.window], call[h].hits)
  <2>2. call' = [call EXCEPT ![h] = new]
    BY <1>7 DEF TInv, TypeOK
  <2>3. new \in Calls /\ new.pc = "expire" /\ new.limits = call[h].limits
        /\ new.entries = call[h].entries /\ new.hits = call[h].hits /\ new.result = 0
    BY <1>1 DEF Calls
  <2>4. hist' = [hist EXCEPT ![c.window] = s]
    BY <1>2, <1>7 DEF TInv, TypeOK, AskedInVain
  <2>5. /\ s \in Records /\ s.limits = hist[c.window].limits
        /\ s.asked = hist[c.window].asked + call[h].hits
        /\ s.admitted = hist[c.window].admitted
        /\ s.faulty /\ s.refused = hist[c.window].refused
    BY <1>1, <1>2, HitsLost
  <2>. HIDE DEF new, s
  <2>6. call'[h] = new
    BY <2>2, <2>3, CallStep
  <2>7. /\ hist' \in [Windows -> Records] /\ hist'[c.window] = s
        /\ \A v \in Windows \ {c.window} : hist'[v] = hist[v]
    BY <1>2, <2>4, <2>5, RecordStep
  <2>8. /\ redis' \in [Keys -> [count: Nat, expires: Nat]]
        /\ \A k \in Keys \ {c.key} : redis'[k] = redis[k]
        /\ redis'[c.key].expires = redis[c.key].expires
        /\ redis'[c.key].count \in {redis[c.key].count,
                                    redis[c.key].count + call[h].hits}
    BY <1>3, <1>4, <1>5, <1>7
  <2>. QED
    BY <1>1, <2>2, <2>3, <2>5, <2>6, <2>7, <2>8 DEF IncrEffect
<1>. QED
  BY <1>1, <1>6, <1>7 DEF IncrBy

\* ExpireAndCompare: the counter gets its time, if it is still there and
\* the command succeeds; the hits are let through or the key is cached.
ExpireEffect(h, c) ==
    /\ hist' \in [Windows -> Records]
    /\ \A v \in Windows \ {c.window} : hist'[v] = hist[v]
    /\ hist'[c.window].limits = hist[c.window].limits
    /\ hist'[c.window].asked = hist[c.window].asked
    /\ hist'[c.window].faulty = hist[c.window].faulty
    /\ redis' \in [Keys -> [count: Nat, expires: Nat]]
    /\ \A k \in Keys \ {c.key} : redis'[k] = redis[k]
    /\ redis'[c.key].count = redis[c.key].count
    /\ redis'[c.key].expires \in
         {redis[c.key].expires, IF redis[c.key].count = 0 THEN 0 ELSE now + c.expire}
    /\ call' = [call EXCEPT ![h] = call'[h]] /\ call'[h] \in Calls
    /\ call'[h].pc = "cache" /\ call'[h].limits = Tail(call[h].limits)
    /\ call'[h].entries = call[h].entries
    /\ localCache' \in [Replicas -> [Keys -> Nat]]
    /\ \/ /\ call[h].result > c.limit
          /\ \A r \in Replicas, k \in Keys :
               k # c.key => localCache'[r][k] = localCache[r][k]
          /\ hist'[c.window].admitted = hist[c.window].admitted
       \/ /\ call[h].result <= c.limit /\ UNCHANGED localCache
          /\ hist'[c.window].admitted = hist[c.window].admitted + call[h].hits
          /\ hist'[c.window].refused = hist[c.window].refused

LEMMA ExpireAndCompareEffect ==
  ASSUME TInv, NEW h \in Handlers, ExpireAndCompare(h), NEW c, c = Head(call[h].limits)
  PROVE  call[h].limits # <<>> /\ ExpireEffect(h, c)
<1>1. call[h] # Idle /\ call[h].pc = "expire" /\ call[h] \in Calls /\ call[h].hits \in Nat
      /\ call[h].limits # <<>> /\ call[h].result \in Nat /\ call[h].replica \in Replicas
  <2>1. call[h].pc = "expire"
    BY DEF ExpireAndCompare
  <2>. QED
    BY <2>1, InProgress
<1>2. /\ c.window \in Windows /\ hist[c.window] \in Records /\ c.key \in Keys
      /\ c.limit \in Nat /\ Tail(call[h].limits) \in Seq(Counters) /\ c.expire \in Nat
  BY <1>1, FirstCounter
<1>3. /\ redis[c.key] \in [count: Nat, expires: Nat] /\ now + c.expire \in Nat
      /\ redis \in [Keys -> [count: Nat, expires: Nat]]
  BY <1>2 DEF TInv, TypeOK, Times
<1>4. /\ redis' \in [Keys -> [count: Nat, expires: Nat]]
      /\ \A k \in Keys \ {c.key} : redis'[k] = redis[k]
      /\ redis'[c.key].count = redis[c.key].count
      /\ redis'[c.key].expires \in
           {redis[c.key].expires, IF redis[c.key].count = 0 THEN 0 ELSE now + c.expire}
  <2>1. CASE UNCHANGED redis
    BY <1>3, <2>1
  <2>2. ASSUME NEW n \in Nat, redis' = [redis EXCEPT ![c.key].expires = n]
        PROVE  /\ redis' \in [Keys -> [count: Nat, expires: Nat]]
               /\ \A k \in Keys \ {c.key} : redis'[k] = redis[k]
               /\ redis'[c.key].count = redis[c.key].count
               /\ redis'[c.key].expires = n
    BY <1>2, <1>3, <2>2
  <2>3. CASE redis' = [redis EXCEPT ![c.key].expires =
                         IF redis[c.key].count = 0 THEN 0 ELSE Expiry(c)]
    BY <1>3, <2>2, <2>3 DEF Expiry
  <2>. QED
    BY <2>1, <2>3 DEF ExpireAndCompare
<1>5. /\ call' = [call EXCEPT ![h] = call'[h]] /\ call'[h] \in Calls
      /\ call'[h].pc = "cache" /\ call'[h].limits = Tail(call[h].limits)
      /\ call'[h].entries = call[h].entries
  <2>. DEFINE new == [call[h] EXCEPT !.pc = "cache", !.limits = Tail(@)]
  <2>1. call' = [call EXCEPT ![h] = new]
    BY DEF ExpireAndCompare, TInv, TypeOK
  <2>2. /\ new \in Calls /\ new.pc = "cache" /\ new.limits = Tail(call[h].limits)
        /\ new.entries = call[h].entries
    BY <1>1, <1>2 DEF Calls
  <2>. HIDE DEF new
  <2>. QED
    BY <2>1, <2>2, CallStep
<1>6. CASE call[h].result > c.limit
  <2>. DEFINE s == Refusing(hist[c.window])
  <2>1. hist' = [hist EXCEPT ![c.window] = s]
    BY <1>2, <1>6 DEF ExpireAndCompare, Over, TInv, TypeOK, Refusing
  <2>2. /\ s \in Records /\ s.limits = hist[c.window].limits
        /\ s.asked = hist[c.window].asked /\ s.admitted = hist[c.window].admitted
        /\ s.faulty = hist[c.window].faulty
    BY <1>2, HitsRefused
  <2>. HIDE DEF s
  <2>3. /\ hist' \in [Windows -> Records] /\ hist'[c.window] = s
        /\ \A v \in Windows \ {c.window} : hist'[v] = hist[v]
    BY <1>2, <2>1, <2>2, RecordStep
  <2>4. localCache' = [localCache EXCEPT ![call[h].replica][c.key] = now + c.expire]
    BY <1>6 DEF ExpireAndCompare, Over, Expiry
  <2>5. /\ localCache' \in [Replicas -> [Keys -> Nat]]
        /\ \A r \in Replicas, k \in Keys :
             k # c.key => localCache'[r][k] = localCache[r][k]
    BY <1>1, <1>2, <1>3, <2>4 DEF TInv, TypeOK
  <2>. QED
    BY <1>1, <1>4, <1>5, <1>6, <2>2, <2>3, <2>5 DEF ExpireEffect
<1>7. CASE ~(call[h].result > c.limit)
  <2>. DEFINE s == LetThrough(hist[c.window], call[h].hits)
  <2>1. hist' = [hist EXCEPT ![c.window] = s] /\ localCache' = localCache
    BY <1>2, <1>7 DEF ExpireAndCompare, Over, TInv, TypeOK, LetThrough
  <2>2. /\ s \in Records /\ s.limits = hist[c.window].limits
        /\ s.asked = hist[c.window].asked
        /\ s.admitted = hist[c.window].admitted + call[h].hits
        /\ s.faulty = hist[c.window].faulty /\ s.refused = hist[c.window].refused
    BY <1>1, <1>2, HitsAdmitted
  <2>. HIDE DEF s
  <2>3. /\ hist' \in [Windows -> Records] /\ hist'[c.window] = s
        /\ \A v \in Windows \ {c.window} : hist'[v] = hist[v]
    BY <1>2, <2>1, <2>2, RecordStep
  <2>4. call[h].result <= c.limit
    BY <1>1, <1>2, <1>7
  <2>5. localCache' \in [Replicas -> [Keys -> Nat]]
    BY <2>1 DEF TInv, TypeOK
  <2>. QED
    BY <1>1, <1>4, <1>5, <2>1, <2>2, <2>3, <2>4, <2>5 DEF ExpireEffect
<1>. QED
  BY <1>6, <1>7

-----------------------------------------------------------------------------
(* Types are kept, and what the history of a window says is never undone. *)

Grows == \A w \in Windows : /\ hist[w].limits \subseteq hist'[w].limits
                            /\ hist[w].asked <= hist'[w].asked
                            /\ hist[w].faulty => hist'[w].faulty

LEMMA RecordType ==
  ASSUME TInv, NEW w \in Windows
  PROVE  /\ hist[w].asked \in Nat /\ hist[w].admitted \in Nat
         /\ hist[w].limits \in SUBSET Nat /\ hist[w].refused \in BOOLEAN
         /\ hist[w].faulty \in BOOLEAN
BY DEF TInv, TypeOK

\* A step that keeps what a call read and leaves it counters it had.
LEMMA SoundStep ==
  ASSUME NEW h \in Handlers, call[h] # Idle, SoundCall(h), now' = now,
         call'[h].entries = call[h].entries,
         \A i \in DOMAIN call'[h].limits : CounterSound(call'[h].limits[i]),
         call'[h].pc \in {"incr", "expire"} =>
           /\ call'[h].limits # <<>>
           /\ Head(call'[h].limits).limit \in hist'[Head(call'[h].limits).window].limits
  PROVE  SoundCall(h)'
<1>1. \A i \in DOMAIN call'[h].limits : CounterSound(call[h].limits[i])'
  BY DEF CounterSound
<1>2. \E c \in Configs, d \in Domains : call'[h].entries = c[d]
  BY DEF SoundCall
<1>. QED
  BY <1>1, <1>2 DEF SoundCall

LEMMA CacheKeeps ==
  ASSUME TInv, NEW h \in Handlers, CheckCache(h)
  PROVE  TInv' /\ Grows
<1>1. call[h] # Idle /\ call[h] \in Calls /\ SoundCall(h)
  <2>1. call[h].pc = "cache"
    BY DEF CheckCache
  <2>. QED
    BY <2>1, InProgress
<1>2. UNCHANGED <<now, redis, localCache, config, requests>>
  BY DEF CheckCache
<1>3. CASE call[h].limits = <<>>
  <2>1. call' = [call EXCEPT ![h] = Idle] /\ UNCHANGED hist
    BY <1>3 DEF CheckCache
  <2>2. call'[h] = Idle
    BY <2>1, CallStep
  <2>3. SoundCall(h)' /\ Grows
    BY <2>1, <2>2, RecordType DEF SoundCall, Grows
  <2>. QED
    BY <1>2, <2>1, <2>3, ServeTypes DEF TInv, TypeOK, Records, Grows
<1>4. CASE call[h].limits # <<>>
  <2>. DEFINE c == Head(call[h].limits)
  <2>1. CacheEffect(h, c) /\ c \in Counters /\ c.window \in Windows /\ c.limit \in Nat
    BY <1>1, <1>4, CheckCacheEffect, FirstCounter
  <2>. HIDE DEF c
  <2>2. Grows
    BY <2>1, RecordType DEF CacheEffect, Grows
  <2>3. call'[h].limits # <<>> /\ call'[h].pc = "incr" =>
          Head(call'[h].limits).limit \in hist'[Head(call'[h].limits).window].limits
    BY <2>1 DEF CacheEffect, c
  <2>4. \A i \in DOMAIN call'[h].limits : CounterSound(call'[h].limits[i])
    BY <1>1, <1>4, <2>1, NextCounter DEF CacheEffect, SoundCall
  <2>5. SoundCall(h)'
    <3>1. call'[h].entries = call[h].entries /\ call'[h].pc \in {"cache", "incr"}
      BY <2>1 DEF CacheEffect
    <3>2. call'[h].pc = "incr" => call'[h].limits # <<>>
      BY <1>4, <2>1 DEF CacheEffect
    <3>. QED
      BY <1>1, <1>2, <2>3, <2>4, <3>1, <3>2, SoundStep
  <2>6. /\ call' = [call EXCEPT ![h] = call'[h]] /\ call'[h] \in {Idle} \cup Calls
        /\ hist' \in [Windows -> Records]
    BY <2>1 DEF CacheEffect
  <2>7. TInv'
    BY <1>2, <2>2, <2>5, <2>6, ServeTypes DEF TInv, TypeOK, Grows
  <2>. QED
    BY <2>2, <2>7
<1>. QED
  BY <1>3, <1>4

LEMMA IncrKeeps ==
  ASSUME TInv, NEW h \in Handlers, IncrBy(h)
  PROVE  TInv' /\ Grows
<1>1. call[h] # Idle /\ call[h] \in Calls /\ SoundCall(h) /\ call[h].hits \in Nat
      /\ call[h].pc = "incr"
  <2>1. call[h].pc = "incr"
    BY DEF IncrBy
  <2>. QED
    BY <2>1, InProgress
<1>2. UNCHANGED <<now, localCache, config, requests>>
  BY DEF IncrBy
<1>. DEFINE c == Head(call[h].limits)
<1>3. call[h].limits # <<>> /\ IncrEffect(h, c)
  BY IncrByEffect
<1>4. c \in Counters /\ c.window \in Windows
  BY <1>1, <1>3, FirstCounter
<1>. HIDE DEF c
<1>5. Grows
  <2>1. /\ hist'[c.window].limits = hist[c.window].limits
        /\ hist'[c.window].asked = hist[c.window].asked + call[h].hits
        /\ hist[c.window].faulty => hist'[c.window].faulty
        /\ \A v \in Windows \ {c.window} : hist'[v] = hist[v]
    BY <1>3 DEF IncrEffect
  <2>2. hist[c.window].asked <= hist'[c.window].asked
    BY <1>1, <1>4, <2>1, RecordType
  <2>. QED
    BY <2>1, <2>2, RecordType DEF Grows
<1>6. Head(call'[h].limits).limit \in hist'[Head(call'[h].limits).window].limits
  BY <1>1, <1>3, <1>4, <1>5 DEF IncrEffect, SoundCall, c, Grows
<1>7. SoundCall(h)'
  <2>1. call'[h].entries = call[h].entries /\ call'[h].limits = call[h].limits
    BY <1>3 DEF IncrEffect
  <2>2. \A i \in DOMAIN call'[h].limits : CounterSound(call'[h].limits[i])
    BY <1>1, <2>1 DEF SoundCall
  <2>. QED
    BY <1>1, <1>2, <1>3, <1>6, <2>1, <2>2, SoundStep
<1>8. /\ call' = [call EXCEPT ![h] = call'[h]] /\ call'[h] \in {Idle} \cup Calls
      /\ hist' \in [Windows -> Records] /\ redis' \in [Keys -> [count: Nat, expires: Nat]]
  BY <1>3 DEF IncrEffect
<1>9. TInv'
  BY <1>2, <1>5, <1>7, <1>8, ServeTypes DEF TInv, TypeOK, Grows
<1>. QED
  BY <1>5, <1>9

LEMMA ExpireKeeps ==
  ASSUME TInv, NEW h \in Handlers, ExpireAndCompare(h)
  PROVE  TInv' /\ Grows
<1>1. call[h] # Idle /\ call[h] \in Calls /\ SoundCall(h) /\ call[h].pc = "expire"
  <2>1. call[h].pc = "expire"
    BY DEF ExpireAndCompare
  <2>. QED
    BY <2>1, InProgress
<1>2. UNCHANGED <<now, config, requests>>
  BY DEF ExpireAndCompare
<1>. DEFINE c == Head(call[h].limits)
<1>3. call[h].limits # <<>> /\ ExpireEffect(h, c)
  BY ExpireAndCompareEffect
<1>4. c \in Counters /\ c.window \in Windows
  BY <1>1, <1>3, FirstCounter
<1>. HIDE DEF c
<1>5. Grows
  BY <1>3, <1>4, RecordType DEF ExpireEffect, Grows
<1>6. \A i \in DOMAIN call'[h].limits : CounterSound(call'[h].limits[i])
  BY <1>1, <1>3, NextCounter DEF ExpireEffect
<1>7. SoundCall(h)'
  <2>1. call'[h].entries = call[h].entries /\ call'[h].pc = "cache"
    BY <1>3 DEF ExpireEffect
  <2>. QED
    BY <1>1, <1>2, <1>6, <2>1, SoundStep
<1>8. /\ call' = [call EXCEPT ![h] = call'[h]] /\ call'[h] \in {Idle} \cup Calls
      /\ hist' \in [Windows -> Records] /\ redis' \in [Keys -> [count: Nat, expires: Nat]]
      /\ localCache' \in [Replicas -> [Keys -> Nat]]
  BY <1>3 DEF ExpireEffect
<1>9. TInv'
  BY <1>2, <1>5, <1>7, <1>8, ServeTypes DEF TInv, TypeOK, Grows
<1>. QED
  BY <1>5, <1>9

LEMMA TickKeeps == TInv /\ Tick => TInv' /\ Grows
<1>. SUFFICES ASSUME TInv, Tick PROVE TInv' /\ Grows
  OBVIOUS
<1>1. now \in Nat /\ now' \in Times /\ now' \in Nat /\ now <= now'
  BY NumbersAssumption DEF Tick, TInv, TypeOK, Times
<1>2. UNCHANGED <<localCache, config, call, requests, hist>>
  BY DEF Tick
<1>3. redis' \in [Keys -> [count: Nat, expires: Nat]]
  BY DEF Tick, TInv, TypeOK, Absent
<1>4. Grows
  BY <1>2, RecordType DEF Grows
<1>5. \A h \in Handlers : SoundCall(h)'
  BY <1>1, <1>2, <1>4, OtherCalls DEF Grows
<1>6. TypeOK'
  BY <1>1, <1>2, <1>3 DEF TInv, TypeOK
<1>. QED
  BY <1>4, <1>5, <1>6 DEF TInv, SoundCall

LEMMA NextTypes == TInv /\ [Next]_vars => TInv' /\ Grows
<1>. SUFFICES ASSUME TInv, [Next]_vars PROVE TInv' /\ Grows
  OBVIOUS
<1>1. ASSUME NEW h \in Handlers, Receive(h) PROVE TInv' /\ Grows
  <2>1. hist' = hist
    BY <1>1 DEF Receive
  <2>. QED
    BY <1>1, <2>1, ReceiveTypes, RecordType DEF Grows
<1>2. ASSUME NEW h \in Handlers, FindDescriptor(h) PROVE TInv' /\ Grows
  <2>1. hist' = hist
    BY <1>2 DEF FindDescriptor
  <2>. QED
    BY <1>2, <2>1, FindTypes, RecordType DEF Grows
<1>3. ASSUME NEW r \in Replicas, NEW c \in Configs, SetConfig(r, c) PROVE TInv' /\ Grows
  <2>1. UNCHANGED <<now, redis, localCache, call, requests, hist>>
    BY <1>3 DEF SetConfig
  <2>2. TypeOK'
    BY <1>3, <2>1 DEF SetConfig, TInv, TypeOK
  <2>3. \A h \in Handlers : SoundCall(h)'
    BY <2>1 DEF TInv, SoundCall, CounterSound
  <2>. QED
    BY <2>1, <2>2, <2>3, RecordType DEF TInv, Grows
<1>4. CASE UNCHANGED vars
  <2>1. TypeOK' /\ \A h \in Handlers : SoundCall(h)'
    BY <1>4 DEF vars, TInv, TypeOK, SoundCall, CounterSound
  <2>. QED
    BY <1>4, <2>1, RecordType DEF vars, TInv, Grows
<1>. QED
  BY <1>1, <1>2, <1>3, <1>4, CacheKeeps, IncrKeeps, ExpireKeeps, TickKeeps DEF Next, Serve

\* The types of the service's variables, what a call in progress may hold
\* included, are kept by every step, a failed Redis command included.
THEOREM TypeCorrect == Spec => []TypeOK
<1>1. Init => TInv
  BY InitTypes
<1>2. TInv /\ [Next]_vars => TInv'
  BY NextTypes
<1>3. TInv => TypeOK
  BY DEF TInv
<1>. QED
  BY <1>1, <1>2, <1>3, PTL DEF Spec

-----------------------------------------------------------------------------
(* NoFalseRefusal *)

\* Some request was held to a limit the hits of the window exceed.
Exceeded(w) == \E l \in hist[w].limits : hist[w].asked > l

\* A refusal, a counter, a result not yet compared and an entry of a local
\* cache are all backed by the hits that were asked for.
RefusalsBacked == \A w \in Windows : hist[w].refused => Shared(w) \/ Exceeded(w)
CountersBacked ==
    \A w \in Windows : KeyOf(w) \in Keys =>
        Shared(w) \/ redis[KeyOf(w)].count <= hist[w].asked
ResultBacked(h, w) ==
    call[h].pc = "expire" /\ Head(call[h].limits).window = w =>
        Shared(w) \/ call[h].result <= hist[w].asked
ResultsBacked == \A h \in Handlers, w \in Windows : ResultBacked(h, w)
CacheBacked(k) ==
    \E w \in Windows : /\ KeyOf(w) = k /\ hist[w].limits # {}
                       /\ Shared(w) \/ Exceeded(w)
CachesBacked ==
    \A r \in Replicas, k \in Keys : localCache[r][k] # 0 => CacheBacked(k)
RInv == RefusalsBacked /\ CountersBacked /\ ResultsBacked /\ CachesBacked

LEMMA SharedStays ==
  ASSUME TInv, Grows, NEW w \in Windows
  PROVE  Shared(w) => Shared(w)'
BY DEF Grows, Shared

LEMMA ExceededStays ==
  ASSUME TInv, TInv', Grows, NEW w \in Windows
  PROVE  Exceeded(w) => Exceeded(w)'
<1>. SUFFICES ASSUME NEW l \in hist[w].limits, hist[w].asked > l
              PROVE  Exceeded(w)'
  BY DEF Exceeded
<1>1. l \in Nat /\ hist[w].asked \in Nat
  BY RecordType
<1>2. hist'[w].asked \in Nat
  BY DEF TInv, TypeOK
<1>. QED
  BY <1>1, <1>2 DEF Grows, Exceeded

\* Two windows of one key with different units are both shared, once each
\* has a limit.
LEMMA SameKey ==
  ASSUME NEW v \in Windows, NEW w \in Windows, KeyOf(v) = KeyOf(w), v # w,
         hist[v].limits # {}
  PROVE  Shared(w)
<1>1. v[2] # w[2]
  BY SameWindow
<1>2. v[1] = w[1] /\ v[2] * v[3] = w[2] * w[3]
  BY DEF KeyOf, Start
<1>. QED
  BY <1>1, <1>2 DEF Shared

LEMMA CachesStay ==
  ASSUME TInv, TInv', Grows, NEW k \in Keys, CacheBacked(k)
  PROVE  CacheBacked(k)'
<1>1. PICK w \in Windows : /\ KeyOf(w) = k /\ hist[w].limits # {}
                           /\ Shared(w) \/ Exceeded(w)
  BY DEF CacheBacked
<1>2. hist'[w].limits # {} /\ (Shared(w) \/ Exceeded(w))'
  BY <1>1, SharedStays, ExceededStays DEF Grows
<1>3. KeyOf(w)' = k
  BY <1>1 DEF KeyOf, Start
<1>. QED
  BY <1>1, <1>2, <1>3 DEF CacheBacked

\* A step that lets nobody be refused, and counts and caches nothing.
LEMMA QuietRefusals ==
  ASSUME TInv, TInv', Grows, RInv,
         \A w \in Windows : hist'[w].refused => hist[w].refused,
         \A k \in Keys : redis'[k].count <= redis[k].count,
         localCache' = localCache,
         \A h \in Handlers : call'[h].pc = "expire" => call'[h] = call[h]
  PROVE  RInv'
<1>1. RefusalsBacked'
  BY SharedStays, ExceededStays DEF RInv, RefusalsBacked
<1>2. CountersBacked'
  <2>. SUFFICES ASSUME NEW w \in Windows, KeyOf(w) \in Keys, ~Shared(w)'
                PROVE  redis'[KeyOf(w)].count <= hist'[w].asked
    BY DEF CountersBacked, KeyOf, Start
  <2>1. redis[KeyOf(w)].count <= hist[w].asked
    BY SharedStays DEF RInv, CountersBacked
  <2>2. /\ redis[KeyOf(w)].count \in Nat /\ redis'[KeyOf(w)].count \in Nat
        /\ hist[w].asked \in Nat /\ hist'[w].asked \in Nat
    BY DEF TInv, TypeOK
  <2>3. redis'[KeyOf(w)].count <= redis[KeyOf(w)].count /\ hist[w].asked <= hist'[w].asked
    BY DEF Grows
  <2>. QED
    BY <2>1, <2>2, <2>3
<1>3. ResultsBacked'
  <2>. SUFFICES ASSUME NEW h \in Handlers, NEW w \in Windows, call'[h].pc = "expire",
                       Head(call'[h].limits).window = w, ~Shared(w)'
                PROVE  call'[h].result <= hist'[w].asked
    BY DEF ResultsBacked, ResultBacked
  <2>1. call[h].result <= hist[w].asked /\ call'[h] = call[h]
    BY SharedStays DEF RInv, ResultsBacked, ResultBacked
  <2>2. call[h] \in Calls
    BY <2>1 DEF TInv, TypeOK, Idle
  <2>3. call[h].result \in Nat /\ hist[w].asked \in Nat /\ hist'[w].asked \in Nat
    BY <2>2 DEF TInv, TypeOK, Calls
  <2>. QED
    BY <2>1, <2>3 DEF Grows
<1>4. CachesBacked'
  BY CachesStay DEF RInv, CachesBacked
<1>. QED
  BY <1>1, <1>2, <1>3, <1>4 DEF RInv

\* A local cache refuses only what is backed.
LEMMA CacheRefusals ==
  ASSUME TInv, RInv, NEW h \in Handlers, CheckCache(h)
  PROVE  RInv'
<1>1. call[h] # Idle /\ call[h] \in Calls /\ call[h].replica \in Replicas
  <2>1. call[h].pc = "cache"
    BY DEF CheckCache
  <2>. QED
    BY <2>1, InProgress
<1>2. TInv' /\ Grows /\ redis' = redis /\ localCache' = localCache
  BY CacheKeeps DEF CheckCache
<1>3. redis' \in [Keys -> [count: Nat, expires: Nat]]
      /\ \A k \in Keys : redis'[k].count <= redis[k].count
  BY <1>2 DEF TInv, TypeOK
<1>4. CASE call[h].limits = <<>>
  <2>1. call' = [call EXCEPT ![h] = Idle] /\ hist' = hist
    BY <1>4 DEF CheckCache
  <2>2. \A g \in Handlers : call'[g].pc = "expire" => call'[g] = call[g]
    BY <2>1 DEF Idle, TInv, TypeOK
  <2>. QED
    BY <1>2, <1>3, <2>1, <2>2, QuietRefusals
<1>5. CASE call[h].limits # <<>>
  <2>. DEFINE c == Head(call[h].limits)
  <2>1. CacheEffect(h, c) /\ c \in Counters /\ c.window \in Windows /\ c.key \in Keys
        /\ CounterSound(c) /\ c.limit \in Nat
    BY <1>1, <1>5, CheckCacheEffect, FirstCounter
  <2>. HIDE DEF c
  <2>2. \A g \in Handlers : call'[g].pc = "expire" => call'[g] = call[g]
    BY <2>1, CallStep DEF CacheEffect
  <2>3. CountersBacked' /\ ResultsBacked' /\ CachesBacked'
    <3>1. CountersBacked'
      <4>. SUFFICES ASSUME NEW w \in Windows, KeyOf(w) \in Keys, ~Shared(w)'
                    PROVE  redis'[KeyOf(w)].count <= hist'[w].asked
        BY DEF CountersBacked, KeyOf, Start
      <4>1. hist'[w].asked = hist[w].asked
        BY <2>1 DEF CacheEffect
      <4>. QED
        BY <1>2, <4>1, SharedStays DEF RInv, CountersBacked
    <3>2. ResultsBacked'
      <4>. SUFFICES ASSUME NEW g \in Handlers, NEW w \in Windows, call'[g].pc = "expire",
                           Head(call'[g].limits).window = w, ~Shared(w)'
                    PROVE  call'[g].result <= hist'[w].asked
        BY DEF ResultsBacked, ResultBacked
      <4>1. hist'[w].asked = hist[w].asked
        BY <2>1 DEF CacheEffect
      <4>2. call'[g] = call[g]
        BY <2>2
      <4>. QED
        BY <1>2, <4>1, <4>2, SharedStays DEF RInv, ResultsBacked, ResultBacked
    <3>. QED
      BY <1>2, <3>1, <3>2, CachesStay DEF RInv, CachesBacked
  <2>4. ASSUME NEW w \in Windows, hist'[w].refused
        PROVE  (Shared(w) \/ Exceeded(w))'
    <3>1. CASE hist[w].refused
      BY <1>2, <3>1, SharedStays, ExceededStays DEF RInv, RefusalsBacked
    <3>2. CASE ~hist[w].refused
      <4>1. w = c.window /\ localCache[call[h].replica][c.key] > now
        BY <2>1, <2>4, <3>2 DEF CacheEffect
      <4>2. now \in Nat /\ localCache[call[h].replica][c.key] # 0
        BY <1>1, <2>1, <4>1 DEF TInv, TypeOK, Times
      <4>3. PICK v \in Windows : /\ KeyOf(v) = c.key /\ hist[v].limits # {}
                                 /\ Shared(v) \/ Exceeded(v)
        BY <1>1, <2>1, <4>2 DEF RInv, CachesBacked, CacheBacked
      <4>4. CASE v = w
        BY <1>2, <4>3, <4>4, SharedStays, ExceededStays
      <4>5. CASE v # w
        <5>1. KeyOf(v) = KeyOf(w)
          BY <2>1, <4>1, <4>3 DEF CounterSound
        <5>2. Shared(w)
          BY <4>3, <4>5, <5>1, SameKey
        <5>. QED
          BY <1>2, <5>2, SharedStays
      <4>. QED
        BY <4>4, <4>5
    <3>. QED
      BY <3>1, <3>2
  <2>. QED
    BY <2>3, <2>4 DEF RInv, RefusalsBacked
<1>. QED
  BY <1>4, <1>5

\* The counter of a key is at most what was asked for in its window.
LEMMA IncrRefusals ==
  ASSUME TInv, RInv, NEW h \in Handlers, IncrBy(h)
  PROVE  RInv'
<1>1. call[h] # Idle /\ call[h] \in Calls /\ call[h].hits \in Nat /\ SoundCall(h)
      /\ call[h].pc = "incr"
  <2>1. call[h].pc = "incr"
    BY DEF IncrBy
  <2>. QED
    BY <2>1, InProgress
<1>2. TInv' /\ Grows /\ localCache' = localCache
  BY IncrKeeps DEF IncrBy
<1>. DEFINE c == Head(call[h].limits)
<1>3. call[h].limits # <<>> /\ IncrEffect(h, c)
  BY IncrByEffect
<1>4. c \in Counters /\ c.window \in Windows /\ c.key \in Keys /\ CounterSound(c)
  BY <1>1, <1>3, FirstCounter
<1>5. hist[c.window].limits # {}
  BY <1>1 DEF SoundCall
<1>. HIDE DEF c
<1>6. \A w \in Windows : hist[w].asked \in Nat /\ hist'[w].asked \in Nat
  BY <1>2 DEF TInv, TypeOK
<1>7. redis[c.key].count \in Nat /\ KeyOf(c.window) = c.key
  BY <1>4 DEF TInv, TypeOK, CounterSound
<1>8. \A w \in Windows : KeyOf(w) = c.key /\ w # c.window => Shared(w)
  BY <1>4, <1>5, <1>7, SameKey
<1>9. ~Shared(c.window) => redis[c.key].count <= hist[c.window].asked
  BY <1>4, <1>7 DEF RInv, CountersBacked
<1>10. ~Shared(c.window) =>
         redis[c.key].count + call[h].hits <= hist'[c.window].asked
  BY <1>1, <1>3, <1>4, <1>6, <1>7, <1>9 DEF IncrEffect
<1>11. redis'[c.key].count <= redis[c.key].count + call[h].hits
  BY <1>1, <1>3, <1>7 DEF IncrEffect
<1>12. call'[h].result <= redis[c.key].count + call[h].hits
  <2>1. redis[c.key].count + call[h].hits \in Nat
    BY <1>1, <1>7
  <2>. QED
    BY <1>3, <2>1, NumbersAssumption, Remainder DEF IncrEffect
<1>13. RefusalsBacked'
  <2>1. \A w \in Windows : hist'[w].refused => hist[w].refused
    BY <1>3 DEF IncrEffect
  <2>. QED
    BY <1>2, <2>1, SharedStays, ExceededStays DEF RInv, RefusalsBacked
<1>14. CountersBacked'
  <2>. SUFFICES ASSUME NEW w \in Windows, KeyOf(w) \in Keys, ~Shared(w)'
                PROVE  redis'[KeyOf(w)].count <= hist'[w].asked
    BY DEF CountersBacked, KeyOf, Start
  <2>1. ~Shared(w)
    BY <1>2, SharedStays
  <2>2. CASE w = c.window
    <3>1. redis'[c.key].count \in Nat /\ redis[c.key].count + call[h].hits \in Nat
      BY <1>1, <1>2, <1>4, <1>7 DEF TInv, TypeOK
    <3>. QED
      BY <1>6, <1>7, <1>10, <1>11, <2>1, <2>2, <3>1
  <2>3. CASE w # c.window
    <3>1. KeyOf(w) # c.key
      BY <1>8, <2>1, <2>3
    <3>2. redis'[KeyOf(w)] = redis[KeyOf(w)] /\ hist'[w] = hist[w]
      BY <1>3, <2>3, <3>1 DEF IncrEffect
    <3>. QED
      BY <2>1, <3>2 DEF RInv, CountersBacked
  <2>. QED
    BY <2>2, <2>3
<1>15. ResultsBacked'
  <2>. SUFFICES ASSUME NEW g \in Handlers, NEW w \in Windows, call'[g].pc = "expire",
                       Head(call'[g].limits).window = w, ~Shared(w)'
                PROVE  call'[g].result <= hist'[w].asked
    BY DEF ResultsBacked, ResultBacked
  <2>1. ~Shared(w)
    BY <1>2, SharedStays
  <2>2. CASE g = h
    <3>1. w = c.window
      BY <1>3, <2>2 DEF IncrEffect, c
    <3>2. call'[h] \in Calls /\ redis[c.key].count + call[h].hits \in Nat
      BY <1>1, <1>3, <1>7 DEF IncrEffect
    <3>3. call'[h].result \in Nat
      BY <3>2 DEF Calls
    <3>. QED
      BY <1>6, <1>10, <1>12, <2>1, <2>2, <3>1, <3>2, <3>3
  <2>3. CASE g # h
    <3>1. call'[g] = call[g]
      BY <1>3, <2>3, CallStep DEF IncrEffect
    <3>2. call[g].result <= hist[w].asked
      BY <2>1, <3>1 DEF RInv, ResultsBacked, ResultBacked
    <3>3. call[g].result \in Nat
      BY <3>1 DEF TInv, TypeOK, Calls, Idle
    <3>. QED
      BY <1>2, <1>6, <3>1, <3>2, <3>3 DEF Grows
  <2>. QED
    BY <2>2, <2>3
<1>16. CachesBacked'
  BY <1>2, CachesStay DEF RInv, CachesBacked
<1>. QED
  BY <1>13, <1>14, <1>15, <1>16 DEF RInv

\* A call refuses, and caches, what exceeds the limit it was held to.
LEMMA ExpireRefusals ==
  ASSUME TInv, RInv, NEW h \in Handlers, ExpireAndCompare(h)
  PROVE  RInv'
<1>1. call[h] # Idle /\ call[h] \in Calls /\ call[h].result \in Nat /\ SoundCall(h)
      /\ call[h].pc = "expire"
  <2>1. call[h].pc = "expire"
    BY DEF ExpireAndCompare
  <2>. QED
    BY <2>1, InProgress
<1>2. TInv' /\ Grows
  BY ExpireKeeps
<1>. DEFINE c == Head(call[h].limits)
<1>3. call[h].limits # <<>> /\ ExpireEffect(h, c)
  BY ExpireAndCompareEffect
<1>4. c \in Counters /\ c.window \in Windows /\ c.key \in Keys /\ CounterSound(c)
      /\ c.limit \in Nat
  BY <1>1, <1>3, FirstCounter
<1>5. c.limit \in hist[c.window].limits
  BY <1>1 DEF SoundCall
<1>6. Shared(c.window) \/ call[h].result <= hist[c.window].asked
  BY <1>1, <1>4 DEF RInv, ResultsBacked, ResultBacked
<1>. HIDE DEF c
<1>7. \A w \in Windows : hist'[w].asked = hist[w].asked /\ hist[w].asked \in Nat
  BY <1>3, <1>4, RecordType DEF ExpireEffect
<1>8. \A g \in Handlers : call'[g].pc = "expire" => call'[g] = call[g]
  BY <1>3, CallStep DEF ExpireEffect
<1>9. call[h].result > c.limit => Shared(c.window) \/ Exceeded(c.window)
  BY <1>1, <1>4, <1>5, <1>6, <1>7 DEF Exceeded
<1>10. CountersBacked'
  <2>. SUFFICES ASSUME NEW w \in Windows, KeyOf(w) \in Keys, ~Shared(w)'
                PROVE  redis'[KeyOf(w)].count <= hist'[w].asked
    BY DEF CountersBacked, KeyOf, Start
  <2>1. redis'[KeyOf(w)].count = redis[KeyOf(w)].count
    BY <1>3 DEF ExpireEffect
  <2>. QED
    BY <1>2, <1>7, <2>1, SharedStays DEF RInv, CountersBacked
<1>11. ResultsBacked'
  <2>. SUFFICES ASSUME NEW g \in Handlers, NEW w \in Windows, call'[g].pc = "expire",
                       Head(call'[g].limits).window = w, ~Shared(w)'
                PROVE  call'[g].result <= hist'[w].asked
    BY DEF ResultsBacked, ResultBacked
  <2>1. call'[g] = call[g]
    BY <1>8
  <2>. QED
    BY <1>2, <1>7, <2>1, SharedStays DEF RInv, ResultsBacked, ResultBacked
<1>12. RefusalsBacked'
  <2>. SUFFICES ASSUME NEW w \in Windows, hist'[w].refused
                PROVE  (Shared(w) \/ Exceeded(w))'
    BY DEF RefusalsBacked
  <2>1. hist[w].refused \/ (w = c.window /\ call[h].result > c.limit)
    BY <1>3 DEF ExpireEffect
  <2>. QED
    BY <1>2, <1>9, <2>1, SharedStays, ExceededStays DEF RInv, RefusalsBacked
<1>13. CachesBacked'
  <2>. SUFFICES ASSUME NEW r \in Replicas, NEW k \in Keys, localCache'[r][k] # 0
                PROVE  CacheBacked(k)'
    BY DEF CachesBacked
  <2>1. CASE localCache[r][k] # 0
    BY <1>2, <2>1, CachesStay DEF RInv, CachesBacked
  <2>2. CASE localCache[r][k] = 0
    <3>1. k = c.key /\ call[h].result > c.limit
      BY <1>3, <2>2 DEF ExpireEffect
    <3>2. CacheBacked(k)
      BY <1>4, <1>5, <1>9, <3>1 DEF CacheBacked, CounterSound
    <3>. QED
      BY <1>2, <3>2, CachesStay
  <2>. QED
    BY <2>1, <2>2
<1>. QED
  BY <1>10, <1>11, <1>12, <1>13 DEF RInv

LEMMA TickRefusals ==
  ASSUME TInv, RInv, Tick
  PROVE  RInv'
<1>1. TInv' /\ Grows /\ UNCHANGED <<localCache, call, hist>>
  BY TickKeeps DEF Tick
<1>2. \A k \in Keys : redis'[k].count <= redis[k].count
  BY DEF Tick, TInv, TypeOK, Absent
<1>. QED
  BY <1>1, <1>2, QuietRefusals

LEMMA NextRefusals == TInv /\ RInv /\ [Next]_vars => RInv'
<1>. SUFFICES ASSUME TInv, RInv, [Next]_vars PROVE RInv'
  OBVIOUS
<1>1. TInv' /\ Grows
  BY NextTypes
<1>2. ASSUME UNCHANGED <<redis, localCache, hist>>,
             \A h \in Handlers : call'[h].pc = "expire" => call'[h] = call[h]
      PROVE  RInv'
  <2>1. \A k \in Keys : redis'[k].count <= redis[k].count
    BY <1>2 DEF TInv, TypeOK
  <2>. QED
    BY <1>1, <1>2, <2>1, QuietRefusals
<1>3. ASSUME NEW h \in Handlers, Receive(h) PROVE RInv'
  <2>1. UNCHANGED <<redis, localCache, hist>>
    BY <1>3 DEF Receive
  <2>2. \A g \in Handlers : call'[g].pc = "expire" => call'[g] = call[g]
    BY <1>3 DEF Receive, TInv, TypeOK
  <2>. QED
    BY <1>2, <2>1, <2>2
<1>4. ASSUME NEW h \in Handlers, FindDescriptor(h) PROVE RInv'
  <2>1. UNCHANGED <<redis, localCache, hist>> /\ call[h] \in Calls
    BY <1>4 DEF FindDescriptor, TInv, TypeOK, Idle
  <2>2. \A g \in Handlers \ {h} : call'[g] = call[g]
    BY <1>4 DEF FindDescriptor, TInv, TypeOK
  <2>3. call'[h].pc \in {"find", "cache"}
    BY <1>4, <2>1 DEF FindDescriptor, TInv, TypeOK, Calls
  <2>. QED
    BY <1>2, <2>1, <2>2, <2>3
<1>5. ASSUME NEW r \in Replicas, NEW c \in Configs, SetConfig(r, c) PROVE RInv'
  BY <1>2, <1>5 DEF SetConfig
<1>6. CASE UNCHANGED vars
  BY <1>2, <1>6 DEF vars
<1>. QED
  BY <1>3, <1>4, <1>5, <1>6, CacheRefusals, IncrRefusals, ExpireRefusals, TickRefusals
  DEF Next, Serve

LEMMA InitRefusals == Init => RInv
<1>. SUFFICES ASSUME Init PROVE RInv
  OBVIOUS
<1>1. RefusalsBacked /\ CountersBacked /\ CachesBacked
  BY DEF Init, Fresh, Absent, RefusalsBacked, CountersBacked, CachesBacked
<1>2. ResultsBacked
  BY DEF Init, Idle, ResultsBacked, ResultBacked
<1>. QED
  BY <1>1, <1>2 DEF RInv

\* Nobody is refused while the hits asked for in a window are within every
\* limit requests were held to, for any number of replicas, their caches,
\* a clock that may run during a request, and a Redis that fails: what the
\* counters and caches of ratelimit.go hold is backed by hits of the window
\* they are read for.
THEOREM NeverRefusedWithin == Spec => []NoFalseRefusal
<1>1. Init => TInv /\ RInv
  BY InitTypes, InitRefusals
<1>2. (TInv /\ RInv) /\ [Next]_vars => (TInv /\ RInv)'
  BY NextTypes, NextRefusals
<1>3. RInv => NoFalseRefusal
  BY DEF RInv, RefusalsBacked, Exceeded, NoFalseRefusal
<1>. QED
  BY <1>1, <1>2, <1>3, PTL DEF Spec

-----------------------------------------------------------------------------
(* NoOverAdmission *)

\* The counters of a window that has not begun are empty.
FutureIsEmpty ==
    /\ \A w \in Windows : now < Start(w) => hist[w] = Fresh
    /\ \A k \in Keys : now < k[2] => redis[k] = Absent

\* A window that lasts and that NoOverAdmission does not excuse: its counter
\* is what was asked for, and lives as long as the window.
Current(w) == Start(w) <= now /\ now < Start(w) + w[2]
Sound(w) == Current(w) /\ ~hist[w].faulty /\ ~Shared(w)
Exact(w) ==
    /\ redis[KeyOf(w)].count = hist[w].asked
    /\ redis[KeyOf(w)].expires = 0 \/ redis[KeyOf(w)].expires >= Start(w) + w[2]

\* Each hit has a place in the order Redis counted them: those of a call
\* that has its result and has not compared it, and those let through.
Pending(h, w) == call[h].pc = "expire" /\ Head(call[h].limits).window = w
Slots(h) == (call[h].result - call[h].hits + 1)..call[h].result
Counted(h, w) == call[h].hits <= call[h].result /\ call[h].result <= hist[w].asked
Disjoint(w) ==
    \A h \in Handlers : Pending(h, w) =>
        /\ Counted(h, w)
        /\ \A g \in Handlers \ {h} : Pending(g, w) => Slots(g) \cap Slots(h) = {}
Places(w, P) ==
    /\ Cardinality(P) = hist[w].admitted
    /\ P = {} \/ \E l \in hist[w].limits : P \subseteq 1..l
    /\ \A h \in Handlers : Pending(h, w) => P \cap Slots(h) = {}
Placed(w) == \E P \in SUBSET (1..hist[w].asked) : Places(w, P)

WindowSound(w) ==
    Sound(w) => Exact(w) /\ (hist[w].asked < Wrap => Disjoint(w) /\ Placed(w))
OInv == FutureIsEmpty /\ \A w \in Windows : WindowSound(w)

LEMMA SlotsCount ==
  ASSUME NEW n \in Nat, NEW r \in Nat, n <= r
  PROVE  /\ IsFiniteSet((r - n + 1)..r) /\ Cardinality((r - n + 1)..r) = n
         /\ (r - n + 1)..r \subseteq 1..r
<1>1. r - n + 1 \in Int /\ r \in Int
  OBVIOUS
<1>2. /\ IsFiniteSet((r - n + 1)..r)
      /\ Cardinality((r - n + 1)..r) = IF r - n + 1 > r THEN 0 ELSE r - (r - n + 1) + 1
  BY <1>1, FS_Interval
<1>. QED
  BY <1>1, <1>2

LEMMA Longer ==
  ASSUME NEW m \in Nat, NEW n \in Nat, m <= n
  PROVE  1..m \subseteq 1..n
OBVIOUS

LEMMA WithinLimit ==
  ASSUME NEW n \in Nat, NEW P, P \subseteq 1..n
  PROVE  IsFiniteSet(P) /\ Cardinality(P) \in Nat /\ Cardinality(P) <= n
<1>1. IsFiniteSet(1..n) /\ Cardinality(1..n) = n
  BY FS_Interval
<1>2. IsFiniteSet(P) /\ Cardinality(P) <= Cardinality(1..n) /\ Cardinality(P) \in Nat
  BY <1>1, FS_Subset, FS_CardinalityType
<1>. QED
  BY <1>1, <1>2

LEMMA Apart ==
  ASSUME NEW P, NEW Q, IsFiniteSet(P), IsFiniteSet(Q), P \cap Q = {}
  PROVE  Cardinality(P \cup Q) = Cardinality(P) + Cardinality(Q)
<1>1. Cardinality(P) \in Nat /\ Cardinality(Q) \in Nat
  BY FS_CardinalityType
<1>2. Cardinality(P \cup Q) = Cardinality(P) + Cardinality(Q) - Cardinality(P \cap Q)
  BY FS_Union
<1>3. Cardinality(P \cap Q) = 0
  BY FS_EmptySet
<1>. QED
  BY <1>1, <1>2, <1>3

\* What is pending in a window was found in it after it began.
LEMMA PendingType ==
  ASSUME TInv, NEW h \in Handlers, NEW w \in Windows, Pending(h, w)
  PROVE  /\ call[h] \in Calls /\ call[h].hits \in Nat /\ call[h].result \in Nat
         /\ Start(w) <= now
<1>1. call[h] # Idle /\ call[h] \in Calls /\ SoundCall(h)
  BY DEF Pending, Idle, TInv, TypeOK
<1>2. call[h].limits # <<>> /\ CounterSound(Head(call[h].limits))
  BY <1>1, Serving DEF SoundCall, Pending
<1>. QED
  BY <1>1, <1>2 DEF Calls, CounterSound, Pending

LEMMA SoundStays ==
  ASSUME TInv, Grows, now' = now, NEW w \in Windows
  PROVE  Sound(w)' => Sound(w)
BY SharedStays DEF Grows, Sound, Current, Start

\* A step that asks for no hit and lets none through in a window.
LEMMA QuietWindow ==
  ASSUME TInv, Grows, NEW w \in Windows, WindowSound(w), Sound(w)' => Sound(w),
         hist'[w].asked = hist[w].asked, hist'[w].admitted = hist[w].admitted,
         Sound(w)' => redis'[KeyOf(w)] = redis[KeyOf(w)],
         \A h \in Handlers : Pending(h, w)' => Pending(h, w) /\ call'[h] = call[h]
  PROVE  WindowSound(w)'
<1>. SUFFICES ASSUME Sound(w)'
              PROVE  Exact(w)' /\ (hist'[w].asked < Wrap => (Disjoint(w) /\ Placed(w))')
  BY DEF WindowSound
<1>1. Sound(w) /\ Exact(w)
  BY DEF WindowSound
<1>2. Exact(w)'
  BY <1>1 DEF Exact, KeyOf, Start
<1>3. ASSUME hist'[w].asked < Wrap PROVE Disjoint(w)' /\ Placed(w)'
  <2>1. Disjoint(w) /\ Placed(w)
    BY <1>1, <1>3 DEF WindowSound
  <2>2. \A h \in Handlers : Pending(h, w)' =>
           Pending(h, w) /\ Slots(h)' = Slots(h) /\ (Counted(h, w) => Counted(h, w)')
    BY DEF Slots, Counted
  <2>3. Disjoint(w)'
    BY <2>1, <2>2 DEF Disjoint
  <2>4. PICK P \in SUBSET (1..hist[w].asked) : Places(w, P)
    BY <2>1 DEF Placed
  <2>5. P = {} \/ \E l \in hist'[w].limits : P \subseteq 1..l
    BY <2>4 DEF Places, Grows
  <2>6. \A h \in Handlers : Pending(h, w)' => P \cap Slots(h)' = {}
    BY <2>2, <2>4 DEF Places
  <2>7. Places(w, P)'
    BY <2>4, <2>5, <2>6 DEF Places
  <2>. QED
    BY <2>3, <2>7 DEF Placed
<1>. QED
  BY <1>2, <1>3

\* A step that leaves the clock and the history alone, and counts nothing.
LEMMA QuietOrder ==
  ASSUME TInv, Grows, OInv, UNCHANGED <<now, redis>>,
         \A w \in Windows : /\ hist'[w].asked = hist[w].asked
                            /\ hist'[w].admitted = hist[w].admitted
                            /\ now < Start(w) => hist'[w] = hist[w],
         \A h \in Handlers : call'[h].pc = "expire" => call'[h] = call[h]
  PROVE  OInv'
<1>1. FutureIsEmpty'
  BY DEF OInv, FutureIsEmpty, Start
<1>2. ASSUME NEW w \in Windows PROVE WindowSound(w)'
  <2>1. \A h \in Handlers : Pending(h, w)' => Pending(h, w) /\ call'[h] = call[h]
    BY DEF Pending
  <2>2. Sound(w)' => Sound(w)
    BY SoundStays
  <2>. QED
    BY <2>1, <2>2, QuietWindow DEF OInv
<1>. QED
  BY <1>1, <1>2 DEF OInv

LEMMA CacheOrder ==
  ASSUME TInv, OInv, NEW h \in Handlers, CheckCache(h)
  PROVE  OInv'
<1>1. call[h] # Idle /\ Grows /\ UNCHANGED <<now, redis>>
  <2>1. Grows
    BY CacheKeeps
  <2>2. call[h].pc = "cache" /\ UNCHANGED <<now, redis>>
    BY DEF CheckCache
  <2>. QED
    BY <2>1, <2>2, InProgress
<1>2. CASE call[h].limits = <<>>
  <2>1. call' = [call EXCEPT ![h] = Idle] /\ hist' = hist
    BY <1>2 DEF CheckCache
  <2>2. \A g \in Handlers : call'[g].pc = "expire" => call'[g] = call[g]
    BY <2>1 DEF Idle, TInv, TypeOK
  <2>. QED
    BY <1>1, <2>1, <2>2, QuietOrder
<1>3. CASE call[h].limits # <<>>
  <2>. DEFINE c == Head(call[h].limits)
  <2>1. CacheEffect(h, c) /\ c.window \in Windows /\ CounterSound(c)
    BY <1>1, <1>3, CheckCacheEffect, FirstCounter
  <2>. HIDE DEF c
  <2>2. \A g \in Handlers : call'[g].pc = "expire" => call'[g] = call[g]
    BY <2>1, CallStep DEF CacheEffect
  <2>3. \A w \in Windows : hist'[w].asked = hist[w].asked
                           /\ hist'[w].admitted = hist[w].admitted
    BY <2>1 DEF CacheEffect
  <2>4. ASSUME NEW w \in Windows, now < Start(w) PROVE hist'[w] = hist[w]
    <3>1. now \in Nat /\ Start(w) \in Nat /\ Start(c.window) <= now
      BY <2>1, WindowType DEF CounterSound, TInv, TypeOK, Times
    <3>2. w # c.window
      BY <2>4, <3>1
    <3>. QED
      BY <2>1, <3>2 DEF CacheEffect
  <2>. QED
    BY <1>1, <2>2, <2>3, <2>4, QuietOrder
<1>. QED
  BY <1>2, <1>3

\* The window of a call's counter is the only sound one of its key.
LEMMA SoundKey ==
  ASSUME TInv, NEW h \in Handlers, call[h] # Idle, call[h].pc \in {"incr", "expire"},
         NEW c, c = Head(call[h].limits)
  PROVE  /\ c \in Counters /\ c.window \in Windows /\ c.key \in Keys /\ c.limit \in Nat
         /\ c.key = KeyOf(c.window) /\ c.expire = c.window[2]
         /\ Start(c.window) <= now /\ c.limit \in hist[c.window].limits
         /\ \A w \in Windows : w # c.window /\ Sound(w) => KeyOf(w) # c.key
<1>1. call[h].limits # <<>> /\ c.limit \in hist[c.window].limits
  BY DEF TInv, SoundCall
<1>2. /\ c \in Counters /\ c.window \in Windows /\ c.key \in Keys /\ c.limit \in Nat
      /\ CounterSound(c)
  BY <1>1, FirstCounter
<1>3. \A w \in Windows : w # c.window /\ Sound(w) => KeyOf(w) # c.key
  BY <1>1, <1>2, SameKey DEF Sound, CounterSound
<1>. QED
  BY <1>1, <1>2, <1>3 DEF CounterSound

\* The key of a counter has begun.
LEMMA CountingIsPresent ==
  ASSUME TInv, NEW w \in Windows, Start(w) <= now, FutureIsEmpty, now' = now,
         \A v \in Windows \ {w} : hist'[v] = hist[v],
         \A k \in Keys \ {KeyOf(w)} : redis'[k] = redis[k]
  PROVE  FutureIsEmpty'
<1>1. now \in Nat /\ Start(w) \in Nat /\ KeyOf(w)[2] = Start(w)
  BY WindowType DEF TInv, TypeOK, Times, KeyOf
<1>2. ASSUME NEW v \in Windows, now' < Start(v)' PROVE hist'[v] = Fresh
  <2>1. now < Start(v) /\ Start(v) \in Nat
    BY <1>2, WindowType DEF Start
  <2>2. v # w
    BY <1>1, <2>1
  <2>. QED
    BY <2>1, <2>2 DEF FutureIsEmpty
<1>3. ASSUME NEW k \in Keys, now' < k[2] PROVE redis'[k] = Absent
  <2>1. k # KeyOf(w)
    BY <1>1, <1>3
  <2>. QED
    BY <1>3, <2>1 DEF FutureIsEmpty
<1>. QED
  BY <1>2, <1>3 DEF FutureIsEmpty

\* A step at another key.
LEMMA OtherWindow ==
  ASSUME TInv, Grows, now' = now, NEW v \in Windows, WindowSound(v), hist'[v] = hist[v],
         NEW key, Sound(v) => KeyOf(v) # key, \A k \in Keys \ {key} : redis'[k] = redis[k],
         \A h \in Handlers : Pending(h, v)' => Pending(h, v) /\ call'[h] = call[h]
  PROVE  WindowSound(v)'
<1>1. Sound(v)' => Sound(v)
  BY SoundStays
<1>2. ASSUME Sound(v)' PROVE redis'[KeyOf(v)] = redis[KeyOf(v)]
  <2>1. v[1] \in Entries /\ Start(v) \in Nat /\ Start(v) <= now /\ now <= MaxTime /\ now \in Nat
    BY <1>1, <1>2, NumbersAssumption, WindowType DEF Sound, Current, TInv, TypeOK, Times
  <2>2. KeyOf(v) \in Keys
    BY <2>1, NumbersAssumption DEF KeyOf, Keys, Times
  <2>. QED
    BY <1>1, <1>2, <2>2
<1>. QED
  BY <1>1, <1>2, QuietWindow

\* The hits of a call get the next places.
LEMMA IncrOrder ==
  ASSUME TInv, OInv, NEW h \in Handlers, IncrBy(h)
  PROVE  OInv'
<1>1. call[h] # Idle /\ call[h].pc = "incr" /\ call[h].hits \in Nat /\ now' = now
  <2>1. call[h].pc = "incr"
    BY DEF IncrBy
  <2>. QED
    BY <2>1, InProgress DEF IncrBy
<1>2. TInv' /\ Grows
  BY IncrKeeps
<1>3. PICK c : c = Head(call[h].limits)
  OBVIOUS
<1>4. IncrEffect(h, c)
  BY <1>3, IncrByEffect
<1>5. PICK w \in Windows : /\ w = c.window /\ c.key = KeyOf(w) /\ Start(w) <= now
                           /\ \A v \in Windows : v # w /\ Sound(v) => KeyOf(v) # c.key
                           /\ c.key \in Keys
  BY <1>1, <1>3, SoundKey
<1>6. \A g \in Handlers \ {h} : call'[g] = call[g]
  BY <1>4, CallStep DEF IncrEffect
<1>7. FutureIsEmpty'
  BY <1>1, <1>4, <1>5, CountingIsPresent DEF IncrEffect, OInv
<1>8. ASSUME NEW v \in Windows, v # w PROVE WindowSound(v)'
  <2>1. hist'[v] = hist[v] /\ \A k \in Keys \ {c.key} : redis'[k] = redis[k]
    BY <1>4, <1>5, <1>8 DEF IncrEffect
  <2>2. call'[h].pc = "expire" /\ Head(call'[h].limits).window = w
    BY <1>3, <1>4, <1>5 DEF IncrEffect
  <2>3. \A g \in Handlers : Pending(g, v)' => Pending(g, v) /\ call'[g] = call[g]
    BY <1>6, <1>8, <2>2 DEF Pending
  <2>. QED
    BY <1>1, <1>2, <1>5, <1>8, <2>1, <2>3, OtherWindow DEF OInv
<1>9. ASSUME Sound(w)'
      PROVE  Exact(w)' /\ (hist'[w].asked < Wrap => Disjoint(w)' /\ Placed(w)')
  <2>. DEFINE n == hist[w].asked
  <2>1. Sound(w) /\ ~hist'[w].faulty
    BY <1>1, <1>2, <1>9, SoundStays DEF Sound
  <2>2. Exact(w) /\ (n < Wrap => Disjoint(w) /\ Placed(w))
    BY <2>1 DEF OInv, WindowSound
  <2>3. n \in Nat /\ redis[c.key].count = n
    BY <1>5, <2>2, RecordType DEF Exact
  <2>4. /\ redis'[c.key].count = n + call[h].hits
        /\ redis'[c.key].expires = redis[c.key].expires
        /\ call'[h].result = (n + call[h].hits) % Wrap
        /\ hist'[w].asked = n + call[h].hits
        /\ hist'[w].admitted = hist[w].admitted /\ hist'[w].limits = hist[w].limits
        /\ call'[h].hits = call[h].hits
    BY <1>4, <1>5, <2>1, <2>3 DEF IncrEffect
  <2>. HIDE DEF n
  <2>5. Exact(w)'
    BY <1>5, <2>2, <2>4 DEF Exact, KeyOf, Start
  <2>6. ASSUME hist'[w].asked < Wrap PROVE Disjoint(w)' /\ Placed(w)'
    <3>1. n < Wrap /\ n + call[h].hits \in Nat /\ n + call[h].hits < Wrap
      BY <1>1, <2>3, <2>4, <2>6, NumbersAssumption
    <3>2. call'[h].result = n + call[h].hits
      BY <2>4, <3>1, NumbersAssumption, Remainder
    <3>3. Slots(h)' = (n + 1)..(n + call[h].hits) /\ Counted(h, w)'
      <4>1. n + call[h].hits - call[h].hits + 1 = n + 1 /\ call[h].hits <= n + call[h].hits
        BY <1>1, <2>3
      <4>2. Slots(h)' = (call'[h].result - call'[h].hits + 1)..call'[h].result
        BY DEF Slots
      <4>3. Slots(h)' = (n + 1)..(n + call[h].hits)
        BY <1>1, <2>3, <2>4, <3>2, <4>1, <4>2
      <4>4. Counted(h, w)'
        BY <1>1, <2>3, <2>4, <3>2, <4>1 DEF Counted
      <4>. QED
        BY <4>3, <4>4
    <3>4. ASSUME NEW g \in Handlers \ {h}, Pending(g, w)'
          PROVE  /\ Pending(g, w) /\ Slots(g)' = Slots(g) /\ Counted(g, w)'
                 /\ Slots(g) \cap Slots(h)' = {}
      <4>1. call'[g] = call[g] /\ Pending(g, w) /\ Slots(g)' = Slots(g)
        BY <1>6, <3>4 DEF Pending, Slots
      <4>2. Counted(g, w) /\ call[g].result \in Nat /\ call[g].hits \in Nat
        BY <2>2, <3>1, <4>1, PendingType DEF Disjoint
      <4>3. Counted(g, w)'
        BY <1>1, <2>3, <2>4, <4>1, <4>2 DEF Counted, n
      <4>4. Slots(g) \cap Slots(h)' = {}
        <5>1. \A x \in Slots(g) : x \in Int /\ x <= n
          BY <2>3, <4>2 DEF Slots, Counted, n
        <5>2. \A x \in Slots(h)' : x \in Int /\ x >= n + 1
          BY <1>1, <2>3, <3>3
        <5>3. \A x \in Int : ~(x <= n /\ x >= n + 1)
          BY <2>3
        <5>. QED
          BY <5>1, <5>2, <5>3
      <4>. QED
        BY <4>1, <4>3, <4>4
    <3>5. Disjoint(w)'
      <4>1. \A f, g \in Handlers \ {h} :
              f # g /\ Pending(f, w)' /\ Pending(g, w)' => (Slots(g) \cap Slots(f) = {})'
        BY <2>2, <3>1, <3>4 DEF Disjoint, n
      <4>. QED
        BY <3>3, <3>4, <4>1 DEF Disjoint
    <3>6. PICK P \in SUBSET (1..n) : Places(w, P)
      BY <2>2, <3>1 DEF Placed, n
    <3>7. P \cap Slots(h)' = {} /\ P \in SUBSET (1..(n + call[h].hits))
      BY <1>1, <2>3, <3>3
    <3>8. Places(w, P)'
      BY <2>4, <3>4, <3>6, <3>7 DEF Places
    <3>. QED
      BY <2>4, <3>5, <3>7, <3>8 DEF Placed
  <2>. QED
    BY <2>5, <2>6
<1>10. WindowSound(w)'
  BY <1>9 DEF WindowSound
<1>. QED
  BY <1>7, <1>8, <1>10 DEF OInv

\* A call lets the hits of its places through, or none.
LEMMA ExpireOrder ==
  ASSUME TInv, OInv, NEW h \in Handlers, ExpireAndCompare(h)
  PROVE  OInv'
<1>1. call[h] # Idle /\ call[h].pc = "expire" /\ call[h].hits \in Nat
      /\ call[h].result \in Nat /\ now' = now
  <2>1. call[h].pc = "expire"
    BY DEF ExpireAndCompare
  <2>. QED
    BY <2>1, InProgress DEF ExpireAndCompare
<1>2. TInv' /\ Grows
  BY ExpireKeeps
<1>3. PICK c : c = Head(call[h].limits)
  OBVIOUS
<1>4. ExpireEffect(h, c)
  BY <1>3, ExpireAndCompareEffect
<1>5. PICK w \in Windows : /\ w = c.window /\ c.key = KeyOf(w) /\ Start(w) <= now
                           /\ \A v \in Windows : v # w /\ Sound(v) => KeyOf(v) # c.key
                           /\ c.key \in Keys /\ c.expire = w[2]
                           /\ c.limit \in Nat /\ c.limit \in hist[w].limits
  BY <1>1, <1>3, SoundKey
<1>6. \A g \in Handlers \ {h} : call'[g] = call[g]
  BY <1>4, CallStep DEF ExpireEffect
<1>7. \A g \in Handlers, v \in Windows : Pending(g, v)' =>
         g # h /\ Pending(g, v) /\ call'[g] = call[g] /\ Slots(g)' = Slots(g)
  <2>1. call'[h].pc # "expire"
    BY <1>4 DEF ExpireEffect
  <2>. QED
    BY <1>6, <2>1 DEF Pending, Slots
<1>8. FutureIsEmpty'
  BY <1>1, <1>4, <1>5, CountingIsPresent DEF ExpireEffect, OInv
<1>9. ASSUME NEW v \in Windows, v # w PROVE WindowSound(v)'
  <2>1. hist'[v] = hist[v] /\ \A k \in Keys \ {c.key} : redis'[k] = redis[k]
    BY <1>4, <1>5, <1>9 DEF ExpireEffect
  <2>. QED
    BY <1>1, <1>2, <1>5, <1>7, <1>9, <2>1, OtherWindow DEF OInv
<1>10. ASSUME Sound(w)'
       PROVE  Exact(w)' /\ (hist'[w].asked < Wrap => Disjoint(w)' /\ Placed(w)')
  <2>1. Sound(w)
    BY <1>1, <1>2, <1>10, SoundStays
  <2>2. Exact(w) /\ (hist[w].asked < Wrap => Disjoint(w) /\ Placed(w))
    BY <2>1 DEF OInv, WindowSound
  <2>3. hist'[w].asked = hist[w].asked /\ hist'[w].limits = hist[w].limits
    BY <1>4, <1>5 DEF ExpireEffect
  <2>4. Exact(w)'
    <3>1. w[2] \in Nat /\ Start(w) \in Nat /\ now \in Nat
      BY WindowType DEF TInv, TypeOK, Times
    <3>2. now + c.expire >= Start(w) + w[2]
      BY <1>5, <3>1
    <3>3. redis'[KeyOf(w)].count = redis[KeyOf(w)].count
          /\ redis'[KeyOf(w)].expires \in {redis[KeyOf(w)].expires, 0, now + c.expire}
      BY <1>4, <1>5 DEF ExpireEffect
    <3>. QED
      BY <2>2, <2>3, <3>2, <3>3 DEF Exact, KeyOf, Start
  <2>5. ASSUME hist'[w].asked < Wrap PROVE Disjoint(w)' /\ Placed(w)'
    <3>1. Disjoint(w) /\ Pending(h, w)
      BY <1>1, <1>3, <1>5, <2>2, <2>3, <2>5 DEF Pending
    <3>2. PICK P \in SUBSET (1..hist[w].asked) : Places(w, P)
      BY <2>2, <2>3, <2>5 DEF Placed
    <3>3. Disjoint(w)'
      <4>1. \A g \in Handlers : Counted(g, w) /\ call'[g] = call[g] => Counted(g, w)'
        BY <2>3 DEF Counted
      <4>. QED
        BY <1>7, <3>1, <4>1 DEF Disjoint
    <3>4. CASE hist'[w].admitted = hist[w].admitted
      <4>1. Places(w, P)'
        BY <1>7, <2>3, <3>2, <3>4 DEF Places
      <4>. QED
        BY <2>3, <3>2, <3>3, <4>1 DEF Placed
    <3>5. CASE /\ hist'[w].admitted = hist[w].admitted + call[h].hits
               /\ call[h].result <= c.limit
      <4>. DEFINE Q == P \cup Slots(h)
      <4>1. Counted(h, w) /\ P \cap Slots(h) = {} /\ hist[w].asked \in Nat
        BY <3>1, <3>2, RecordType DEF Disjoint, Places
      <4>2. /\ IsFiniteSet(Slots(h)) /\ Cardinality(Slots(h)) = call[h].hits
            /\ Slots(h) \subseteq 1..call[h].result
        BY <1>1, <4>1, SlotsCount DEF Slots, Counted
      <4>3. IsFiniteSet(P) /\ Cardinality(P) = hist[w].admitted
        BY <3>2, <4>1, WithinLimit DEF Places
      <4>4. Cardinality(Q) = hist'[w].admitted
        BY <3>5, <4>1, <4>2, <4>3, Apart
      <4>5. Q \in SUBSET (1..hist'[w].asked)
        <5>1. Slots(h) \subseteq 1..hist[w].asked
          BY <1>1, <4>1, <4>2, Longer DEF Counted
        <5>. QED
          BY <2>3, <3>2, <5>1
      <4>6. \E l \in hist'[w].limits : Q \subseteq 1..l
        <5>1. Slots(h) \subseteq 1..c.limit
          BY <1>1, <1>5, <3>5, <4>2, Longer
        <5>2. PICK l \in hist[w].limits : P = {} \/ P \subseteq 1..l
          BY <1>5, <3>2 DEF Places
        <5>3. l \in Nat
          BY RecordType
        <5>4. CASE P = {} \/ l <= c.limit
          <6>1. P \subseteq 1..c.limit
            BY <1>5, <5>2, <5>3, <5>4, Longer
          <6>2. Q \subseteq 1..c.limit
            BY <5>1, <6>1
          <6>. QED
            BY <1>5, <2>3, <6>2
        <5>5. CASE P \subseteq 1..l /\ l > c.limit
          <6>1. Slots(h) \subseteq 1..l
            BY <1>5, <5>1, <5>3, <5>5, Longer
          <6>2. Q \subseteq 1..l
            BY <5>5, <6>1
          <6>. QED
            BY <2>3, <6>2
        <5>. QED
          BY <1>5, <5>2, <5>3, <5>4, <5>5
      <4>7. ASSUME NEW g \in Handlers, Pending(g, w)' PROVE Q \cap Slots(g)' = {}
        <5>1. g # h /\ Pending(g, w) /\ Slots(g)' = Slots(g)
          BY <1>7, <4>7
        <5>2. P \cap Slots(g) = {}
          BY <3>2, <5>1 DEF Places
        <5>3. Slots(g) \cap Slots(h) = {}
          BY <3>1, <5>1 DEF Disjoint
        <5>. QED
          BY <5>1, <5>2, <5>3
      <4>8. PICK R : R = Q
        OBVIOUS
      <4>. HIDE DEF Q
      <4>9. Places(w, R)'
        BY <4>4, <4>6, <4>7, <4>8 DEF Places
      <4>. QED
        BY <3>3, <4>5, <4>8, <4>9 DEF Placed
    <3>. QED
      BY <1>4, <1>5, <3>4, <3>5 DEF ExpireEffect
  <2>. QED
    BY <2>4, <2>5
<1>11. WindowSound(w)'
  BY <1>10 DEF WindowSound
<1>. QED
  BY <1>8, <1>9, <1>11 DEF OInv

\* Redis drops no counter while its window lasts; a window begins empty.
LEMMA TickOrder ==
  ASSUME TInv, OInv, Tick
  PROVE  OInv'
<1>1. now \in Nat /\ now' = now + 1 /\ UNCHANGED <<localCache, call, hist>>
  BY DEF Tick, TInv, TypeOK, Times
<1>2. TInv' /\ Grows
  BY TickKeeps
<1>3. \A k \in Keys : /\ redis[k] = Absent => redis'[k] = Absent
                      /\ (redis[k].expires = 0 \/ redis[k].expires > now + 1) => redis'[k] = redis[k]
                      /\ redis[k].expires \in Nat
  BY <1>1 DEF Tick, TInv, TypeOK
<1>4. FutureIsEmpty'
  <2>1. \A w \in Windows : now' < Start(w)' => hist'[w] = Fresh
    <3>. SUFFICES ASSUME NEW w \in Windows, now' < Start(w)' PROVE now < Start(w)
      BY <1>1 DEF OInv, FutureIsEmpty
    <3>1. Start(w) \in Nat /\ Start(w)' = Start(w)
      BY WindowType DEF Start
    <3>. QED
      BY <1>1, <3>1
  <2>2. \A k \in Keys : now' < k[2] => redis'[k] = Absent
    <3>. SUFFICES ASSUME NEW k \in Keys, now' < k[2] PROVE redis[k] = Absent
      BY <1>3
    <3>1. k[2] \in Nat
      BY DEF Keys, Times
    <3>. QED
      BY <1>1, <3>1 DEF OInv, FutureIsEmpty
  <2>. QED
    BY <2>1, <2>2 DEF FutureIsEmpty
<1>5. ASSUME NEW w \in Windows PROVE WindowSound(w)'
  <2>1. Start(w) \in Nat /\ w[2] \in Nat \ {0} /\ w[1] \in Entries
    BY WindowType
  <2>2. CASE ~Current(w)'
    BY <2>2 DEF WindowSound, Sound
  <2>3. CASE Current(w)'
    <3>1. Start(w) <= now + 1 /\ now + 1 < Start(w) + w[2] /\ now + 1 \in Times
      BY <1>1, <1>2, <2>3 DEF Current, Start, TInv, TypeOK
    <3>2. KeyOf(w) \in Keys
      BY <1>1, <2>1, <3>1, NumbersAssumption DEF KeyOf, Keys, Times
    <3>3. CASE Start(w) <= now
      <4>1. Current(w)
        BY <1>1, <2>1, <3>1, <3>3 DEF Current
      <4>2. Sound(w)' => Sound(w)
        BY <1>1, <1>2, <4>1, SharedStays DEF Sound
      <4>3. Sound(w) => redis'[KeyOf(w)] = redis[KeyOf(w)]
        <5>. SUFFICES ASSUME Sound(w) PROVE redis'[KeyOf(w)] = redis[KeyOf(w)]
          OBVIOUS
        <5>1. redis[KeyOf(w)].expires = 0 \/ redis[KeyOf(w)].expires >= Start(w) + w[2]
          BY DEF OInv, WindowSound, Exact
        <5>2. redis[KeyOf(w)].expires = 0 \/ redis[KeyOf(w)].expires > now + 1
          BY <1>1, <1>3, <2>1, <3>1, <3>2, <5>1
        <5>. QED
          BY <1>3, <3>2, <5>2
      <4>4. \A h \in Handlers : Pending(h, w)' => Pending(h, w) /\ call'[h] = call[h]
        BY <1>1 DEF Pending
      <4>. QED
        BY <1>1, <1>2, <4>2, <4>3, <4>4, QuietWindow DEF OInv
    <3>4. CASE ~(Start(w) <= now)
      <4>1. now < Start(w) /\ KeyOf(w)[2] = Start(w)
        BY <1>1, <2>1, <3>4 DEF KeyOf
      <4>2. hist'[w] = Fresh /\ redis'[KeyOf(w)] = Absent
        BY <1>1, <1>3, <3>2, <4>1 DEF OInv, FutureIsEmpty
      <4>3. Exact(w)'
        BY <4>2 DEF Exact, KeyOf, Start, Fresh, Absent
      <4>4. \A h \in Handlers : ~Pending(h, w)'
        BY <1>1, <3>4, PendingType DEF Pending
      <4>5. Cardinality({}) = hist'[w].admitted
        BY <4>2, FS_EmptySet DEF Fresh
      <4>6. Places(w, {})'
        BY <4>4, <4>5 DEF Places
      <4>7. Disjoint(w)' /\ Placed(w)'
        BY <4>4, <4>6 DEF Disjoint, Placed
      <4>. QED
        BY <4>3, <4>7 DEF WindowSound
    <3>. QED
      BY <3>3, <3>4
  <2>. QED
    BY <2>2, <2>3
<1>. QED
  BY <1>4, <1>5 DEF OInv

LEMMA InitOrder == Init => OInv
<1>. SUFFICES ASSUME Init PROVE OInv
  OBVIOUS
<1>1. FutureIsEmpty
  BY DEF Init, FutureIsEmpty
<1>2. ASSUME NEW w \in Windows, Sound(w) PROVE Exact(w) /\ Disjoint(w) /\ Placed(w)
  <2>1. Start(w) \in Nat /\ now = 0 /\ Start(w) <= now /\ w[1] \in Entries
    BY <1>2, WindowType DEF Init, Sound, Current
  <2>2. KeyOf(w) \in Keys
    BY <2>1, NumbersAssumption DEF KeyOf, Keys, Times
  <2>3. hist[w] = Fresh /\ redis[KeyOf(w)] = Absent
    BY <2>2 DEF Init
  <2>4. Exact(w)
    BY <2>3 DEF Exact, Fresh, Absent
  <2>5. \A h \in Handlers : ~Pending(h, w)
    BY DEF Init, Idle, Pending
  <2>6. Cardinality({}) = hist[w].admitted
    BY <2>3, FS_EmptySet DEF Fresh
  <2>7. Places(w, {})
    BY <2>5, <2>6 DEF Places
  <2>. QED
    BY <2>4, <2>5, <2>7 DEF Disjoint, Placed
<1>. QED
  BY <1>1, <1>2 DEF OInv, WindowSound

LEMMA NextOrder == TInv /\ OInv /\ [Next]_vars => OInv'
<1>. SUFFICES ASSUME TInv, OInv, [Next]_vars PROVE OInv'
  OBVIOUS
<1>1. TInv' /\ Grows
  BY NextTypes
<1>2. ASSUME UNCHANGED <<now, redis, hist>>,
             \A h \in Handlers : call'[h].pc = "expire" => call'[h] = call[h]
      PROVE  OInv'
  BY <1>1, <1>2, QuietOrder
<1>3. ASSUME NEW h \in Handlers, Receive(h) PROVE OInv'
  <2>1. UNCHANGED <<now, redis, hist>>
    BY <1>3 DEF Receive
  <2>2. \A g \in Handlers : call'[g].pc = "expire" => call'[g] = call[g]
    BY <1>3 DEF Receive, TInv, TypeOK
  <2>. QED
    BY <1>2, <2>1, <2>2
<1>4. ASSUME NEW h \in Handlers, FindDescriptor(h) PROVE OInv'
  <2>1. UNCHANGED <<now, redis, hist>> /\ call[h] \in Calls
    BY <1>4 DEF FindDescriptor, TInv, TypeOK, Idle
  <2>2. \A g \in Handlers \ {h} : call'[g] = call[g]
    BY <1>4 DEF FindDescriptor, TInv, TypeOK
  <2>3. call'[h].pc \in {"find", "cache"}
    BY <1>4, <2>1 DEF FindDescriptor, TInv, TypeOK, Calls
  <2>. QED
    BY <1>2, <2>1, <2>2, <2>3
<1>5. ASSUME NEW r \in Replicas, NEW c \in Configs, SetConfig(r, c) PROVE OInv'
  BY <1>2, <1>5 DEF SetConfig
<1>6. CASE UNCHANGED vars
  BY <1>2, <1>6 DEF vars
<1>. QED
  BY <1>3, <1>4, <1>5, <1>6, CacheOrder, IncrOrder, ExpireOrder, TickOrder DEF Next, Serve

LEMMA OrderAdmits == TInv /\ OInv => NoOverAdmission
<1>. SUFFICES ASSUME TInv, OInv, NEW w \in Windows, now \div w[2] = w[3],
                     ~hist[w].faulty, ~Shared(w), hist[w].asked < Wrap,
                     hist[w].admitted # 0
              PROVE  \E l \in hist[w].limits : hist[w].admitted <= l
  BY DEF NoOverAdmission
<1>1. Current(w)
  BY WindowType, Quotient DEF Current, Start, TInv, TypeOK, Times
<1>2. PICK P \in SUBSET (1..hist[w].asked) : Places(w, P)
  BY <1>1 DEF OInv, WindowSound, Sound, Placed
<1>3. P # {}
  BY <1>2, FS_EmptySet DEF Places
<1>4. PICK l \in hist[w].limits : P \subseteq 1..l
  BY <1>2, <1>3 DEF Places
<1>5. l \in Nat
  BY RecordType
<1>. QED
  BY <1>2, <1>4, <1>5, WithinLimit DEF Places

\* While a window lasts, all replicas together let no more hits through for
\* an entry than the largest limit a request was held to, in any window no
\* Redis failure touched, no two units share and that has not counted Wrap
\* hits: INCRBY gives each call places of its own, EXPIRE never shortens a
\* counter below its window, and the key names the window.
THEOREM NeverOverAdmitted == Spec => []NoOverAdmission
<1>1. Init => TInv /\ OInv
  BY InitTypes, InitOrder
<1>2. (TInv /\ OInv) /\ [Next]_vars => (TInv /\ OInv)'
  BY NextTypes, NextOrder
<1>3. TInv /\ OInv => NoOverAdmission
  BY OrderAdmits
<1>. QED
  BY <1>1, <1>2, <1>3, PTL DEF Spec
=============================================================================
