------------------------------ MODULE AccessLog ------------------------------
(***************************************************************************)
(* The access log service, src/src/als.go and src/src/accesslogs.  Envoy   *)
(* streams messages of log entries; a goroutine per stream converts every  *)
(* entry and writes it.  With Elasticsearch a write hands the entry to the *)
(* BulkIndexer of go-elasticsearch, an external queue with workers that    *)
(* send it in batches; with ClickHouse it is an insert nobody waits for.   *)
(* Errors of either are ignored, and nothing outlives the process.         *)
(***************************************************************************)
EXTENDS Naturals, Sequences, FiniteSets, SequencesExt

CONSTANTS
    None,        \* an absent field or entry (a nil pointer)
    Streams,     \* connections of Envoys
    Workers,     \* workers of the BulkIndexer
    Messages,    \* what Envoys send: kind of the entries, and entries
    MaxEntries,  \* most entries in a message
    Backends,    \* backends the service may be started with
    Retries,     \* how often a batch is sent again (5 in Init)
    Second,      \* nanoseconds of a second, scaled down
    Word,        \* the first number uint32 cannot hold, in that scale
    Radix,       \* of hours, days and months, scaled down
    FirstTime,   \* the clock, in hours, when the service starts
    MaxTime,     \* bound: the last hour
    MaxMessages  \* bound: messages in a behaviour

ASSUME ScaleAssumption ==
    Retries \in Nat /\ Second \in Nat \ {0} /\ Word \in Nat \ {0}
      /\ Radix \in Nat \ {0}
ASSUME BoundsAssumption ==
    FirstTime \in Nat /\ MaxTime \in Nat /\ FirstTime <= MaxTime
      /\ MaxMessages \in Nat /\ MaxEntries \in Nat
ASSUME WorkersAssumption == IsFiniteSet(Workers)
ASSUME MessagesAssumption ==
    /\ None \notin Messages
    /\ \A m \in Messages :
         /\ m.kind \in {"http", "tcp"}
         /\ DOMAIN m.entries = 1..Len(m.entries) /\ Len(m.entries) \in 0..MaxEntries
         /\ \A k \in DOMAIN m.entries :
              LET e == m.entries[k]
              IN  e # None /\ e.common # None /\ e.common.time # None =>
                    e.common.time.seconds \in Nat /\ e.common.time.nanos \in Nat

VARIABLES
    up,        \* the process runs
    backend,   \* the backend it was started with, "es" or "ch"
    clock,     \* hours since the beginning of year 0
    handler,   \* the goroutine of each stream
    queue,     \* the BulkIndexer's queue
    worker,    \* by worker: its batch, and how often it was sent
    store,     \* the entries the backend has
    copies,    \* how often it has each of them
    received,  \* history: messages received, in order
    doubtful,  \* history: entries stored by a request answered by an error
    dropped,   \* history: entries given up
    lost       \* history: entries that ended with the process

vars == <<up, backend, clock, handler, queue, worker, store, copies,
          received, doubtful, dropped, lost>>
indexer == <<queue, worker>>
outcome == <<store, copies, doubtful, dropped>>

-----------------------------------------------------------------------------
\* An entry is known by the message that brought it and its place in there.
Ids == (1..MaxMessages) \X (1..MaxEntries)

\* The goroutine of a stream that has no message. It ends with the process
\* only: Recv of a broken stream fails, and is called again.
Waiting(link) == [link |-> link, msg |-> None, n |-> 0, next |-> 1,
                  read |-> <<>>, began |-> 0]
NoStreams == [s \in Streams |-> Waiting("none")]
Busy(s) == handler[s].msg # None
Entry(s) == handler[s].msg.entries[handler[s].next]

\* Year, month, day and hour.
Digits(t) == <<t \div (Radix * Radix * Radix), (t \div (Radix * Radix)) % Radix,
               (t \div Radix) % Radix, t % Radix>>
\* An index of HTTP logs is named by the hour, one of TCP logs by the day.
Parts(kind) == IF kind = "http" THEN 4 ELSE 3

\* Entries on their way: of a message not all written yet, queued, in a batch.
InHand(s) ==
    IF Busy(s)
    THEN {<<handler[s].n, k>> : k \in
            {k \in handler[s].next..Len(handler[s].msg.entries) :
               handler[s].msg.entries[k] # None}}
    ELSE {}
IdsOf(items) == {items[i].id : i \in DOMAIN items}
Pending ==
    (UNION {InHand(s) : s \in Streams}) \cup IdsOf(queue)
      \cup (UNION {IdsOf(worker[w].batch) : w \in Workers})

TypeOK ==
    /\ up \in BOOLEAN /\ backend \in Backends
    /\ clock \in FirstTime..MaxTime /\ Len(received) <= MaxMessages
    /\ \A s \in Streams :
         /\ handler[s].link \in {"none", "open", "broken"}
         /\ Busy(s) => /\ handler[s].n \in DOMAIN received
                       /\ handler[s].msg = received[handler[s].n]
                       /\ handler[s].next \in 1..Len(handler[s].msg.entries)
                       /\ Len(handler[s].read) <= Parts(handler[s].msg.kind)
         /\ handler[s].link = "none" => ~Busy(s)
    /\ Len(queue) <= Cardinality(Workers)
    /\ \A w \in Workers :
         /\ worker[w].sent \in 0..Retries
         /\ worker[w].sent > 0 => worker[w].batch # <<>>
    /\ copies \in [Ids -> 0..(Retries + 1)]
    /\ {i.id : i \in store} = {i \in Ids : copies[i] > 0}
    /\ doubtful \subseteq Ids /\ dropped \subseteq Ids /\ lost \subseteq Ids
    /\ backend = "ch" \/ ~up => queue = <<>> /\ \A w \in Workers : worker[w].batch = <<>>

Init ==
    /\ up = TRUE
    /\ backend \in Backends
    /\ clock = FirstTime
    /\ handler = NoStreams
    /\ queue = <<>>
    /\ worker = [w \in Workers |-> [batch |-> <<>>, sent |-> 0]]
    /\ store = {}
    /\ copies = [i \in Ids |-> 0]
    /\ received = <<>>
    /\ doubtful = {} /\ dropped = {} /\ lost = {}

-----------------------------------------------------------------------------
(* Streams *)

Connect(s) ==
    /\ up /\ handler[s].link = "none"
    /\ handler' = [handler EXCEPT ![s] = Waiting("open")]
    /\ UNCHANGED <<up, backend, clock, indexer, outcome, received, lost>>

\* Envoy goes, or the network. What was received is still written.
Break(s) ==
    /\ handler[s].link = "open"
    /\ handler' = [handler EXCEPT ![s].link = "broken"]
    /\ UNCHANGED <<up, backend, clock, indexer, outcome, received, lost>>

\* Mutant: after a nil entry the rest of the message is forgotten.
FromNil(h, k) ==
    IF k > Len(h.msg.entries) THEN Waiting(h.link)
    ELSE IF h.msg.entries[k] = None THEN Waiting(h.link)
    ELSE [h EXCEPT !.next = k, !.read = <<>>, !.began = 0]

\* A handler goes on behind entry k of its message. Entries that are nil are
\* passed over.
From(h, k) ==
    LET rest == {j \in k..Len(h.msg.entries) : h.msg.entries[j] # None}
    IN  IF rest = {} THEN Waiting(h.link)
        ELSE [h EXCEPT !.next = Min(rest), !.read = <<>>, !.began = 0]

Recv(s) ==
    /\ handler[s].link = "open" /\ ~Busy(s) /\ Len(received) < MaxMessages
    /\ \E m \in Messages :
         /\ received' = Append(received, m)
         /\ handler' = [handler EXCEPT ![s] =
                          From([@ EXCEPT !.msg = m, !.n = Len(received')], 1)]
    /\ UNCHANGED <<up, backend, clock, indexer, outcome, lost>>

-----------------------------------------------------------------------------
(* Entries *)

\* Mutant: the seconds only.
NanosecondsOnly(d) == d.nanos % Word

\* Nanoseconds in 32 bits: what does not fit is cut off.
Nanoseconds(d) == (d.seconds * Second + d.nanos) % Word

\* What is written of an entry; of its many durations one stands for all.
Convert(e) ==
    IF e.common = None THEN [cluster |-> "", time |-> 0]
    ELSE [cluster |-> e.common.cluster,
          time |-> IF e.common.time = None THEN 0 ELSE Nanoseconds(e.common.time)]

\* The TCP branch looks for the cluster before it looks for the properties.
Poisonous(s) == handler[s].msg.kind = "tcp" /\ Entry(s).common = None
Writing(s) == up /\ Busy(s) /\ ~Poisonous(s)

Item(s) ==
    [id |-> <<handler[s].n, handler[s].next>>, kind |-> handler[s].msg.kind,
     says |-> Convert(Entry(s)), index |-> handler[s].read,
     began |-> handler[s].began, ended |-> clock]
Done(s) == handler' = [handler EXCEPT ![s] = From(@, @.next + 1)]

\* Mutant: the smallest unit of time first.
ReadClockReversed(s) ==
    /\ Writing(s) /\ backend = "es"
    /\ LET h == handler[s]
           n == Parts(h.msg.kind)
       IN  /\ Len(h.read) < n
           /\ handler' = [handler EXCEPT
                ![s].read = <<Digits(clock)[n - Len(h.read)]>> \o @,
                ![s].began = IF h.read = <<>> THEN clock ELSE @]
    /\ UNCHANGED <<up, backend, clock, indexer, outcome, received, lost>>

\* The name of the index asks for the time once for each of its parts.
ReadClock(s) ==
    /\ Writing(s) /\ backend = "es"
    /\ LET h == handler[s]
       IN  /\ Len(h.read) < Parts(h.msg.kind)
           /\ handler' = [handler EXCEPT
                ![s].read = Append(@, Digits(clock)[Len(h.read) + 1]),
                ![s].began = IF h.read = <<>> THEN clock ELSE @]
    /\ UNCHANGED <<up, backend, clock, indexer, outcome, received, lost>>

\* Mutant: the queue takes whatever comes.
AddAlways(s) ==
    /\ Writing(s) /\ backend = "es"
    /\ Len(handler[s].read) = Parts(handler[s].msg.kind)
    /\ queue' = Append(queue, Item(s))
    /\ Done(s)
    /\ UNCHANGED <<up, backend, clock, worker, outcome, received, lost>>

\* Add waits while the queue is full. It has a place for every worker.
Add(s) ==
    /\ Writing(s) /\ backend = "es"
    /\ Len(handler[s].read) = Parts(handler[s].msg.kind)
    /\ Len(queue) < Cardinality(Workers)
    /\ queue' = Append(queue, Item(s))
    /\ Done(s)
    /\ UNCHANGED <<up, backend, clock, worker, outcome, received, lost>>

\* The backend has the items of the set kept once more.
Stored(kept) ==
    /\ store' = store \cup kept
    /\ copies' = [i \in Ids |-> IF i \in {x.id : x \in kept}
                               THEN copies[i] + 1 ELSE copies[i]]

\* AsyncInsert does not wait for the outcome, an error is only logged.
Insert(s) ==
    /\ Writing(s) /\ backend = "ch"
    /\ \/ Stored({Item(s)}) /\ UNCHANGED dropped
       \/ dropped' = dropped \cup {Item(s).id} /\ UNCHANGED <<store, copies>>
    /\ Done(s)
    /\ UNCHANGED <<up, backend, clock, indexer, received, doubtful, lost>>

-----------------------------------------------------------------------------
(* BulkIndexer *)

\* A worker that is not sending its batch takes from the queue.
Take(w) ==
    /\ up /\ queue # <<>> /\ worker[w].sent = 0
    /\ worker' = [worker EXCEPT ![w].batch = Append(@, Head(queue))]
    /\ queue' = Tail(queue)
    /\ UNCHANGED <<up, backend, clock, handler, outcome, received, lost>>

\* Mutant: no batch is sent before it is large.
SendsLarge(w) == up /\ Len(worker[w].batch) > 1

\* The batch is sent when it is large or 30 seconds old.
Sends(w) == up /\ worker[w].batch # <<>>
Empty(w) == worker' = [worker EXCEPT ![w] = [batch |-> <<>>, sent |-> 0]]

\* The answer says which items were indexed; the others are not sent again.
Accept(w) ==
    /\ Sends(w)
    /\ \E kept \in SUBSET ToSet(worker[w].batch) :
         /\ Stored(kept)
         /\ dropped' = dropped \cup {x.id : x \in ToSet(worker[w].batch) \ kept}
    /\ Empty(w)
    /\ UNCHANGED <<up, backend, clock, handler, queue, received, doubtful, lost>>

\* The request fails, though Elasticsearch may have done it, or some of it.
Fail(w) ==
    /\ Sends(w)
    /\ \E kept \in SUBSET ToSet(worker[w].batch) :
         Stored(kept) /\ doubtful' = doubtful \cup {x.id : x \in kept}
    /\ UNCHANGED <<up, backend, clock, handler, queue, received, lost>>

\* An answer of RetryOnStatus: the batch is sent again, a few times.
Retry(w) ==
    /\ Fail(w)
    /\ worker[w].sent < Retries
    /\ worker' = [worker EXCEPT ![w].sent = @ + 1]
    /\ UNCHANGED dropped

\* The last retry, or an answer that is not retried.
GiveUp(w) ==
    /\ Fail(w)
    /\ Empty(w)
    /\ dropped' = dropped \cup IdsOf(worker[w].batch)

-----------------------------------------------------------------------------
(* The process *)

\* The BulkIndexer is never closed: nothing is sent when the process ends.
Die ==
    /\ up
    /\ up' = FALSE
    /\ handler' = NoStreams
    /\ queue' = <<>>
    /\ worker' = [w \in Workers |-> [batch |-> <<>>, sent |-> 0]]
    /\ lost' = lost \cup Pending
    /\ UNCHANGED <<backend, clock, outcome, received>>

\* A nil pointer: nothing recovers, the process ends.
Panic(s) == Busy(s) /\ Poisonous(s) /\ Die

Start ==
    /\ ~up
    /\ up' = TRUE
    /\ UNCHANGED <<backend, clock, handler, indexer, outcome, received, lost>>

Tick ==
    /\ clock < MaxTime
    /\ clock' = clock + 1
    /\ UNCHANGED <<up, backend, handler, indexer, outcome, received, lost>>

Handle(s) == ReadClock(s) \/ Add(s) \/ Insert(s) \/ Panic(s)
Send(w) == Accept(w) \/ Retry(w) \/ GiveUp(w)

Next ==
    \/ \E s \in Streams : Connect(s) \/ Break(s) \/ Recv(s) \/ Handle(s)
    \/ \E w \in Workers : Take(w) \/ Send(w)
    \/ Die
    \/ Start
    \/ Tick

\* Goroutines run; a request to Elasticsearch ends, at the latest by a
\* timeout. Nothing is assumed of Envoys, of the clock, or of restarts.
Fairness ==
    /\ \A s \in Streams : WF_vars(Handle(s))
    /\ \A w \in Workers : WF_vars(Take(w)) /\ WF_vars(Send(w))

Spec == Init /\ [][Next]_vars /\ Fairness

-----------------------------------------------------------------------------
(* Properties *)

Batched == UNION {{w} \X DOMAIN worker[w].batch : w \in Workers}
Copies(i) ==
    Cardinality({s \in Streams : i \in InHand(s)})
      + Cardinality({k \in DOMAIN queue : queue[k].id = i})
      + Cardinality({b \in Batched : worker[b[1]].batch[b[2]].id = i})

\* No entry vanishes and none is written twice by the service: an entry
\* received is on its way at one place, or the backend has it, or it was given
\* up after an error or ended with the process; only a request that failed
\* although it was done makes a second copy (StreamAccessLogs, WriteHTTPLog,
\* WriteTCPLog and the retries of Init).
Accounted ==
    \A n \in DOMAIN received : \A k \in DOMAIN received[n].entries :
        LET i == <<n, k>>
        IN  IF received[n].entries[k] = None
            THEN Copies(i) = 0 /\ copies[i] = 0
            ELSE /\ Copies(i) <= 1
                 /\ Copies(i) = 0 => copies[i] > 0 \/ i \in dropped \cup lost
                 /\ copies[i] + Copies(i) > 1 => i \in doubtful
                 /\ copies[i] > 0 /\ i \in dropped \cup lost => i \in doubtful

Before(a, b) ==
    a = b \/ \E k \in DOMAIN a : /\ a[k] < b[k]
                               /\ \A j \in 1..(k - 1) : a[j] = b[j]

\* The parts of an index name are read one after the other while time goes
\* on. Still the name is never one of the future; and it is one of the past,
\* before the first of them was read, only if a day (for TCP a month) or more
\* began meanwhile: then it may be a whole unit of time behind (WriteHTTPLog,
\* WriteTCPLog).
IndexedInTime ==
    backend = "es" => \A i \in store :
        LET n == Parts(i.kind)
            At(t) == SubSeq(Digits(t), 1, n)
            Unit(t) == SubSeq(Digits(t), 1, n - 1)
        IN  /\ Before(i.index, At(i.ended))
            /\ Unit(i.began) = Unit(i.ended) => Before(At(i.began), i.index)

\* What the backend has of an entry is what Envoy sent: its kind, its cluster
\* and its durations, unless one is longer than 32 bits of nanoseconds, some
\* 4.29 seconds (StreamAccessLogs).
LoggedAsSent ==
    \A i \in store :
        LET m == received[i.id[1]]
            e == m.entries[i.id[2]].common
        IN  /\ i.kind = m.kind
            /\ IF e = None THEN i.says = [cluster |-> "", time |-> 0]
               ELSE /\ i.says.cluster = e.cluster
                    /\ LET sent == IF e.time = None THEN 0
                                   ELSE e.time.seconds * Second + e.time.nanos
                       IN  sent < Word => i.says.time = sent

\* Every entry leaves the service in the end: however slow Elasticsearch is,
\* however full the queue, and though the goroutines of broken streams go on
\* for ever, it is stored, given up, or ends with the process.
Settled == \A i \in Ids : (i \in Pending) ~> (i \notin Pending)
=============================================================================
