# Specifications of envoy-management

These modules specify the Go code under `src/src`: a management server that
configures Envoy nodes, and the services Envoy calls. They say what the code
does (each definition is tied to its lines in `PROJECT.json`), what it must do,
and what was checked (TLC, on small instances) or proved (TLAPS, for all).

## The system

| part | code | state | operations |
|---|---|---|---|
| management server, REST side | `rapi/rapi.go` | none; MongoDB collections `listeners`, `clusters`, `endpoints`, `secrets`, `nodes`, `workers`, `ratelimits`, `authz`, `authzs3` | one handler per method and path; each a sequence of MongoDB calls |
| management server, xDS side | `main.go`, `loader/mongoloader.go` | snapshot cache (by node), change stream on `nodes` | initial load, change stream loop, `loadNodeConfig`, `OnStreamRequest` |
| rate limit service | `ratelimit.go`, `ratelimit/` | configuration, local cache; counters in Redis | `loadConfig`, change stream loop, `ShouldRateLimit` |
| authorization service | `authz.go`, `authz/` | configuration | `loadConfig`, change stream loop, `Check` |
| authorization for S3 | `authzs3.go`, `authzs3/` | configuration, user-to-namespace map | the same, and `loadUsers`, which polls the storage |
| access log service | `als.go`, `accesslogs/` | the BulkIndexer's queue and batches | `StreamAccessLogs`, `WriteHTTPLog`, `WriteTCPLog` |
| agent on the Envoy host | `ipmgmt_server.go` | NetworkManager's | get, set, delete of interfaces and routes |
| drivers, types, docs | `drivers/`, `types/`, `docs/` | two connection variables | none |

How they interact. A client changes a node's configuration with REST requests.
The handler writes a document and, last, gives the node's document in `nodes` a
new random version. The change stream on `nodes` wakes `main()`, which reads the
node document and the four collections and, if clusters and endpoint sets fit
together, installs a snapshot under that version. go-control-plane sends the
snapshot to the Envoys of the node; each discovery request that comes back has
its version written to `workers`, which the sync status compares with the
node's. The other three services follow their collections in the same way, each
with a process and a change stream of its own, and replicas of the rate limit
service share Redis. Nothing is a transaction, and nothing is locked across two
database calls.

What is hard:

* handlers interleave with one another and with the loader, database call by
  database call; any call may fail after it was applied;
* the process may end between the write of a document and of the version;
* the change stream opens after the initial load, and carries identities rather
  than contents: what is read belongs to a later moment than the event;
* counting spans two commands, several replicas, a cache and window changes;
* two related pieces of state are read under two locks;
* versions of several resource types and several streams meet in one document;
* documents, those of nodes included, are lists without a unique index, written
  after being looked for: a name may come to have two;
* Envoy, the management server, the agent and the S3 service start again and
  forget, while MongoDB and NetworkManager do not;
* log entries pass a bounded queue and batches that are sent again, and are lost
  with the process;
* the agent looks, adds and activates in separate commands, and goes on when the
  server no longer waits.

What makes each part correct:

* control plane: what is served under the current version is the stored
  configuration; every change gets a version; versions do not go back; a settled
  configuration is served in the end;
* loader: of every name, what was put last is served, and Envoy routes, limits
  and asks for certificates as the document says;
* followers: with nothing left to read, the configuration in force is the stored
  one, and the one shown;
* rate limits: no window admits more than its limit, nobody within it is refused;
* S3 authorization: an answer follows from rules and users that were in force
  during the call; the users come from the storage and follow it;
* sync status: what is reported is what Envoy runs;
* access logs: an entry is stored once, as sent, under a name of its time, or
  given up for a reason;
* agent: what is stored is what is in force, and what was confirmed is stored.

## Modules

| module | models | checked by | proofs |
|---|---|---|---|
| `ControlPlane` | the configuration handlers, `main()`, `loadNodeConfig`, `LoadNode` | `MCControlPlane` | `ControlPlaneProofs` |
| `Delivery` | what the management server promises; implemented by `ControlPlane` | `MCControlPlane` | `ControlPlaneProofs` |
| `Conversion` | the converters of `loader/mongoloader.go`, as operators | `MCLoader` | `LoaderProofs` |
| `Loader` | stored documents, the handlers that write them, what loading makes of them | `MCLoader` | `LoaderProofs` |
| `AccessLog` | the access log service over Elasticsearch or ClickHouse | `MCAccessLog` | `AccessLogProofs` |
| `ConfigWatch` | how the three services follow MongoDB, and the handlers that write for them | `MCConfigWatch` | `ConfigWatchProofs` |
| `RateLimit` | `ShouldRateLimit`, Redis, local caches, the clock | `MCRateLimit` | `RateLimitProofs` |
| `AuthzS3` | `loadUsers`, `Check`, the two locks | `MCAuthzS3` | `AuthzS3Proofs` |
| `IpMgmt` | the agent and the REST handlers that forward to it, over NetworkManager | `MCIpMgmt` | `IpMgmtProofs` |
| `AdsSync` | `OnStreamRequest`, `GetLiveSyncStatus`, the xDS protocol between | `MCAdsSync` | `AdsSyncProofs` |

The services share only MongoDB and Envoy, so the modules do not share
variables: `AdsSync` has the control plane as the two versions that
`ControlPlane` computes, `RateLimit` and `AuthzS3` have the configuration as
something `SetConfig` changes, which is what `ConfigWatch` details. `ControlPlane`
and `Loader` look at the same handlers from two sides: the first has versions,
failures and overlapping loads and takes a document for a name and a payload;
the second has lists of documents with all their fields, and takes a load for
one step.

### ControlPlane

A document is its name and a set of payloads; the fields of listeners, clusters
and secrets do not matter to the control flow. Endpoint sets are sets because
`PutConfigEndpoints` adds to what it finds. `req[h]` holds the locals of the
handler on goroutine `h`: an action named for the handler is its validation and
routing, and leads to the first database call; `FindOne`, `ReplaceOne`,
`DeleteOne`, `DeleteEndpoints`, `DeleteMany`, `DeleteNode`, `UpdateAddress`,
`InsertAddress`, `UpdateVersion` and `InsertVersion` are the calls. A write may be
applied or not when it fails, and the handler then answers 400 and returns
(`Fail`; the version that `PutConfigEndpoints` writes under a timeout multiplied
twice, `rapi.go:678`, is one way to fail). Requests a handler refuses before the
first call change nothing and are not modelled. Versions are random UUIDs in the
code; here the next number, so that "older" can be said.

`nodes` is a collection of documents, each with an id of its own, and not a map: no
index makes names unique, and an upsert looks (`UpdateVersion`, `UpdateAddress`) and
inserts (`InsertVersion`, `InsertAddress`) in two steps, so that two first requests
for a node may each insert a document. From then on a version is written to
either of the two, `DeleteNode` removes one of them, events name one of them, and
a start loads both, in any order.

`mpc` is where `main()` is: `find` and `boot` (the initial load), `idle` (in the
loop), `load` (in `LoadNode`, one collection per step, `load.step`), `down`. A
stream error or a failed decode ends the process like `Crash` does, which loses
all variables but those of MongoDB. A failed read loses any part of a
collection: `LoadNode` drops errors.

`dirty`, `stamped`, `broken`, `doubled`, `missed` and `load.intact`/`snap.intact` are
history: changed since the last version; that version; a request failed since
then; the node has had two documents at once; `main()` could not know; no failed
read. A node that was `doubled` is excused where its second document breaks a
property: an older version after a younger one (`NoVersionRollback`), collections
emptied without a version (`ChangesAreVersioned`), and the version under which a
settled configuration is served (`Current`). It is not excused from being served
under its last version as stored (`VersionIdentifiesContent`), nor from being
served at all.

`Consistent` is go-control-plane's rule (external): the clusters, all EDS, and
the endpoint sets must have the same names. Assumptions: node ids have at least
two characters (shorter ones make handlers answer 400 and then go on); a body
names the cluster of the path and the four collections have one document per name
(`Loader` has neither assumption); a write that timed out is applied at once or
never, not later.

### Delivery

An abstract specification: nodes have a configuration, a version and a delivery;
a step edits a configuration, stamps it with a fresh version, lets the clock tick,
delivers or loses the deliveries. `Deliverable` is the promise: the last version
only with the present content, no older version after a younger one. The second
half does not hold for a node that is `split`, known under several versions, and a
node becomes so, for good, when versions are made at the same time (`MaySplit`):
this is as much as the code keeps, and the specification says it rather than
promise more. `ControlPlane!Promise` maps the stored collections to the
configuration, `stamped` to the versions, `dirty` to "edited", `doubled` to "split"
and the snapshot cache to the deliveries; handlers, node documents, the change
stream and loads are hidden.
`ImplementsDelivery` says more than the invariants: that each step changes one
of these things, and changes them together only as a stamp does.

### Conversion and Loader

`Conversion` has one operator per part of a converter, from `ParseSecret` to
`ParseListener`, with the defaults, the order in which alternatives override one
another, and what is dropped: durations that do not parse, filters of unknown
names, all rate limits of a list but the last. Values that are copied (addresses,
names, expressions, cookies) are opaque; an absent pointer is `None`. `Panics`
is where the code dereferences one, the access log list that begins with null
included (`LogPanics`).

`Loader` keeps each collection as a list. MongoDB (external) finds the first
document of a name; `ReplaceOne` with upsert is two steps, `Upsert` and `Insert`,
as without a unique index it looks first; the snapshot keeps the last resource of
a name. `meant` is what clients asked for, in the order of their writes, as
`rapi.go` documents the requests and not as the handlers serve them (`Meaning`):
a `DELETE` of endpoints takes them away, a `PUT` adds them, everything else replaces.
`LoadNode` is one step: what overlapping loads do is in `ControlPlane`. `Panic`
ends the process, as the goroutine of `main()` recovers nothing; `Start` brings it
back, and REST requests are served before the next load. The server may start on
a database in which an earlier one has left several documents of a name; `Init`
excuses these names.

The properties name their exceptions, each of which is necessary (without it, TLC
finds a counterexample): a second document of a name; an addition to endpoints
that changed or could not be read meanwhile; additions of several endpoints; a
deletion of endpoints, which stores what it is to remove, under the path's cluster
or the body's (`Excuse`); several path specifiers, a header
compared in two ways, `httpsRedirect: false`, which redirects to https, lists of
rate limits (`Plain`); the authority of client certificates without `tlsParams`,
a client certificate said not to be required, which is then required, options
stated twice (`SettingsAsWritten`). What `Excuse` leaves out of `ServedAsMeant` is
what the code does not do as documented: see "Findings".

### AccessLog

`handler[s]` is the goroutine of a stream: its message, the next entry, and the
parts of the index name read so far, as the name asks for the time three or four
times. `Add` blocks while the queue is full. A worker (external, go-elasticsearch)
takes entries into its batch and sends it; the answer may take some items only,
be an error although the request was done, be retried (`Retry`) or not
(`GiveUp`). With ClickHouse an insert works or is logged as an error. `Panic` is
the TCP branch with an entry without common properties, `Die` any other end.
The goroutine of a broken stream calls `Recv` again and again, which changes
nothing. `copies`, `doubtful`, `dropped` and `lost` tell what became of entries.
Times are scaled down: two hours a day, two days a month, two months a year, ten
nanoseconds a second and 43 for 2^32, which keeps the 4.29 seconds. An entry whose `json.Marshal` fails
(`accesslog.go:153, 183`) is dropped without a word; only a start time outside the
years 0 to 9999 does that, and such entries are not among the messages.

### ConfigWatch

`service` says which of the three processes runs; their loops differ in the
event types they handle (`Handled`), in what loading returns (`Loaded`), and in
whether a failed first load ends the process. `authz` declares no `timeout`
flag, so its queries have no time at all: `Loaded` is then always empty, the
service never has a configuration (though src/README.md:15 says it is handled by
the main server), and `UpToDate` names it as its exception; so does
`LiveConfigInForce`, as authz shows a variable `main()` never assigns. A `nil`
configuration makes `ShouldRateLimit` panic (`Request`), while both `Check`
methods test for it.

### RateLimit

One action per blocking step of `ShouldRateLimit`: reading the configuration,
`time.Now` per descriptor, the local cache, INCRBY, EXPIRE with the comparison.
The two commands of the pipeline reach Redis one after the other. A local cache
entry may be gone (evicted) at any time. `hist` records, for each window, hits
asked for, hits admitted, limits applied and failures. `Wrap` stands for 2^32.
The key of a counter has neither domain nor unit. That domains share a counter is
in the model, and the properties speak of all their hits together: they do not
tell a domain that is refused for its own hits from one refused for another's.
Keys shared by limits of different units are excused. `loadConfig`'s conversion of
units (`ratelimit.go:67-80`), which passes over an entry whose unit it does not know,
is not modelled: limits are as converted.

### AuthzS3

The poller's three requests (`Login`, `GetUsers`, `Logout`) with the ways they
fail: no answer, an answer that is no JSON, an error told in JSON - which, as
the status is not looked at, is an answer without users. `Check` is two reads
and a decision. Headers, queries and hosts are reduced to the account or
namespace found in them, none, or `Broken`: an authorization header of blanks or of
`AWS` alone, or a query with a bare `X-AMZ-CREDENTIAL`, which `getRequestNamespace`
indexes beyond the end. Nothing recovers from that panic: `Crash` ends the process
with every call, and the next one knows no users until a round of the poller
succeeds. A query is looked at only when the header did not settle the namespace.
A request that is not of HTTP is answered with status code 200, which is
neither OK nor a refusal ("undecided"). Assumed of Envoy: it fills in the attributes,
the source and its address, which `Check` dereferences untested.

### AdsSync

Envoy subscribes to each type on one stream and acknowledges or rejects what
comes; requests and responses travel in order and are lost with the stream. It
asks for endpoints and secrets (`Named`) by the names that the clusters and
listeners it runs refer to; one `Parent` type stands for both. A version therefore
has contents: the names it refers to and those it holds, which
`Snapshot.Consistent` compares for endpoints but not for secrets. The xDS server
(external) answers at once or waits for a snapshot. As the cache is in ADS mode
(`main.go:225`), it does not answer a request whose names leave out a resource of the
snapshot (`Covers`). A version need not reach the cache: `PassOver` is the snapshot
that is not consistent, the failed read and the change between `Find` and `Watch`,
which `ControlPlane` has in detail.

The write of `OnStreamRequest` has no link to the stream: a broken stream's write may
still be under way when the next one writes (`late`). Envoy may start again and
forget what it accepted (`Restart`, counted by `run`), and so may the server
(`Reboot`); the document of the worker stays as it is.

Simplifications: the read of the node and the publication are one step; at most one
late write; the document of the worker is one, though two first upserts could insert
two; Envoy does not ask again by the names it has asked for on the stream.

### IpMgmt

`task[h]` is a request from the moment the REST server sends it (`sent`) to the
agent's answer (`done`, `refused`): what is left of its list, the next nmcli command,
what its 204 grants to the client and, for a deletion, what it drops. `Show`, `Add`,
`Modify` and `Up` are the commands, each atomic, in the order of the four handlers;
after a failure `Refuse` answers 400 at once, while a failed `Up` is a 204.
What `net.ParseCIDR` does not accept (`Unparsed`) is a 400 for a route; in a list of
addresses it is passed over (`Skip`), and the answer is the 204 of the others.
`Crash` ends the agent between any two commands, the one under way with it.
`Timeout` and `Undelivered` are the transport errors that the REST server takes for
success; after them the 204 grants nothing. NetworkManager (external): `conn add`
makes another profile even if there is one of that name; `modify` and `up`
take one of them; a profile must keep an address; a device without a connection
may be given one (`Autoconnect`). `granted` and `failed` are history; an interface
counts as failed when a command was refused or the agent ended between storing
and bringing up, until it is brought up again. Hosts share nothing, so one is
modelled. `granted` has everything a 204 confirms; `GrantedIsStored` excepts what does not
parse, which is confirmed and never stored.

## Runs

| run | result | question |
|---|---|---|
| `cp_safety` | holds | is the cache right, whatever interleaves, fails or crashes, and is that all that happens (`Delivery`)? |
| `cp_converge` | holds | does a settled configuration get served, unless `main()` missed it? |
| `cp_startup_gap` | violated | ... and without that exception? |
| `ld_serve` | holds | is what is served of a name what was put, and does Envoy do what it says? |
| `al_write` | holds | what becomes of log entries? |
| `cw_follow` | holds | does a process with no event pending decide by what is stored? |
| `cw_ratelimit_change` | violated | also after a rate limit was changed? |
| `rl_window` | holds | are limits neither exceeded nor applied too early? |
| `s3_check` | holds | do answers follow from what is in force, and users from the storage? |
| `ads_accept` | holds | is the reported version one Envoy accepted, and in the end the one the cache serves? |
| `ipm_agent` | holds | is what is stored on a host in force, and what was confirmed and parses stored? |
| `ads_synced` | violated | does "synced" mean that Envoy runs the configuration? |

### Findings

* A change between the initial `Find` and `Watch` is answered 204 and never
  served until the node changes again (`main.go:318-328`): `cp_startup_gap`.
* Updating a rate limit raises a `replace` event, which `ratelimit.go:173` does
  not handle: `cw_ratelimit_change`.
* "synced" is reported as soon as one resource type is (`main.go:98`):
  `ads_synced`.

Seen while modelling, and excepted by name in properties that otherwise hold
(without the exception, TLC finds a counterexample):

* A node whose first two requests overlap has two documents; its deletion, answered
  204, leaves one of them (`rapi.go:516`, `563`), and an older version may be served after
  a younger one (`doubled` in `ControlPlane`).
* The same of listeners, clusters and secrets: the deletion of a name with two
  documents leaves one, which is served (`rapi.go:423`, `604`; `Excuse` in `Loader`).
* `DELETE` of endpoints, documented as "Delete configured endpoint" (`rapi.go:444`), stores
  the endpoints that were to go in place of all others (`rapi.go:472`; `Excuse`).
* `PUT` of endpoints loses what was added between its read and its write, replaces
  all endpoints if the read fails, and adds one of several (`rapi.go:652-665`;
  `Excuse`).
* An address that does not parse, such as one without a mask, is passed over and
  confirmed with 204 (`ipmgmt_server.go:90-92`, `125`; `GrantedIsStored`).

Also: `LoadNode` drops the errors of its queries, so a failed one publishes a shorter
configuration (`intact` in `ControlPlane`); authz never has a configuration; the other
exceptions of `Loader`; durations above 4.29 seconds and doubtful retries in
`AccessLog`; requests that end the S3 service (`Crash`); in `AdsSync`, a secret nothing
refers to, which keeps the reported version from ever being the current one.

### Bounds

* `cp_*`: one node and one name, two handlers, three requests, one crash. Nodes
  share only `main()`'s goroutine, and names only the version; a mix of old and
  new documents needs two collections, of which there are four; a race needs two
  handlers; an overtaken load needs a change before and one during it. Deleting
  and creating again, a cluster with endpoints, and two first requests followed by a
  deletion fit in three requests.
* `ld_serve`: two names, two handlers, three requests, on an empty database, one
  with a listener that has every kind of match, action and filter, or one with two
  clusters of a name; 384 HTTP requests (two hosts, all combinations of three paths
  and three headers). A race for a name takes two requests, a deletion or addition
  after it the third.
* `al_write`: two streams and two messages of up to two entries, one worker with a
  queue of one, one retry, and one hour that ends a year: a queue that is full,
  a batch of two, an answer in doubt before another, each unit of time turning.
* `cw_follow`: two documents, two values, four writes, one crash: a write before
  the start, one in the gap, one during a load and one after it.
* `rl_window`: two replicas, two handlers, two requests of up to two counts, a
  limit of one and of two, windows of one and two seconds over four seconds, so
  that two windows follow each other and counts wrap (at 4).
* `s3_check`: one user and two namespaces, so that namespaces change and vanish,
  two changes, one fault, two calls one after the other, of which the first may end the
  process; rules that allow, deny and are absent; headers and queries that are absent,
  broken or name the user, and a request that is not of HTTP.
* `ads_accept`: two types, one asked for by name with up to two names, three versions,
  two faults of any kind: names that grow, and a name nothing refers to; an Envoy or a
  server that starts again while a write is under way.
* `ipm_agent`: one interface, two addresses, a route, an item that does not parse, two
  handlers, three requests of up to two items, any number of agents that end: two
  requests at a time and one after them, profiles that are added twice, a deletion
  of one of two addresses and of the last one.

Symmetry is used in safety runs only. Deadlock is not checked: with its bounds
used up, and with no client, every one of these systems may rest.

### Fairness

`cp_converge`: `Main` and each handler's `Serve` are weakly fair: goroutines
run, and each database call returns or times out (every call has a context with
a timeout). Requests, `Start` and `Crash` are not fair. `s3_check`: the poller is
weakly fair: a ticker drives it and the HTTP client has a timeout of three
seconds; that it settles on the storage also takes calls which do not end the process
for ever, and `MaxChecks` bounds them. `ads_accept`: whatever is under way between
Envoy and the server goes on; changes, broken streams and restarts are not fair, and
a version may reach the cache or be passed over, so that what settles is the version
the cache serves. `al_write`: the goroutine of each stream
and worker is weakly fair, and a request to Elasticsearch ends. Envoys, the clock and
restarts are not. Add may wait for other streams, but Go serves waiting senders
in their order, and messages are bounded. Faults are bounded, so the
liveness properties speak of the time after the last one.

## Proofs

Eight modules prove theorems for every value of the constants: any nodes, names,
documents, handlers, replicas, streams, faults and bounds. Every invariant of
the runs that hold is proved, and every action property, the refinement included.
Each proof is of the same kind: an inductive invariant, one lemma per group of
actions that they keep it, one step per action in the lemma. TLC checked the
inductive invariants on the runs' instances first.

| theorem of | states, for `Spec` |
|---|---|
| `ControlPlaneProofs` | `TypeCorrect`, `CurrentVersionIsContent` (`VersionIdentifiesContent`), `EveryChangeIsVersioned` (`ChangesAreVersioned`), `VersionsGoForward` (`NoVersionRollback`), `ServerImplementsDelivery` (`ImplementsDelivery`) |
| `RateLimitProofs` | `TypeCorrect`, `NeverRefusedWithin` (`NoFalseRefusal`), `NeverOverAdmitted` (`NoOverAdmission`) |
| `AccessLogProofs` | `TypeCorrect`, `EveryEntryAccounted` (`Accounted`), `LoggedIsSent` (`LoggedAsSent`), `IndexIsInTime` (`IndexedInTime`) |
| `IpMgmtProofs` | `TypeCorrect`, `StoredIsInForce` (`InForce`), `GrantedStaysStored` (`GrantedIsStored`) |
| `AdsSyncProofs` | `TypeCorrect`, `ReportsAreReached` (`NeverAheadOfEnvoy`) |
| `AuthzS3Proofs` | `TypeCorrect`, `AnswersFollow` (`AnswersAreImplied`), `UsersAreTold` (`UsersAreFromStorage`) |
| `ConfigWatchProofs` | `TypeCorrect`, `LiveConfigIsInForce` (`LiveConfigInForce`), `ChangesAreFollowed` (`UpToDate`) |
| `LoaderProofs` | `Invariance` (`LInv`), `TypeCorrect`, `ServesWhatIsMeant` (`ServedAsMeant`), `SettingsInForce` (`SettingsAsWritten`), `RoutesAsWritten` (`RoutedAsWritten`) |

### The arguments

No property but a few of the types is inductive by itself; what has to be added
says why the code is right.

* `VersionIdentifiesContent`: `Publish` needs to know what a load has read.
  `LoadMatches`: while the loaded version is the node's current one and no
  change is under way, every collection read so far is as stored.
  `VersionsKnown`: no version in use is one still to be handed out, so a new
  version separates every load and snapshot from the changed configuration.
  `Documents` says it of the node documents, and that a node has one, with its last
  version or none, as long as no two upserts overlapped.
* `ChangesAreVersioned`: `ChangesInProgress`, an unversioned change has a handler
  past its first write, on its way to the version, or its request failed, or the node
  has no versioned document, or had two.
* `NoVersionRollback`: `InOrder`, while a node has one document its version, that of
  the load and that of the snapshot are in this order, also for the documents that
  the initial `Find` returned and that are loaded later. `Documents` gives the first
  of the three.
* `ImplementsDelivery`: under these invariants a write is `Edit` or a stutter,
  `UpdateVersion` and `InsertVersion` are `Stamp`, `InsertAddress` is `Tick`, `Publish` is
  `Deliver`, the end of the process is `Restart`, and all else, the deletion of a node
  document included, is a stutter. An insertion beside another document splits the node.
* `NoFalseRefusal`: `CountersBacked`, `ResultsBacked`, `CachesBacked`: what a
  counter, the result of an INCRBY and an entry of a local cache hold was asked
  for in the window their key names; an entry of the cache implies a limit that
  was exceeded.
* `NoOverAdmission`: in a window that lasts and that nothing excuses, the counter
  is exactly what was asked for and lives as long as the window (`Exact`); each
  INCRBY gives its call places of its own among the hits (`Disjoint`), and who is
  admitted under a limit has its places below that limit (`Placed`), so admitted
  hits are at most the largest limit. `FutureIsEmpty` starts a window at zero.
* `Accounted`: `Once`, an entry is in the hand of one stream, or once in the queue,
  or once in one batch, and what a batch has been sent without an answer is
  among the doubtful. `LoggedAsSent`: `Shape`, everything on the way and stored is
  an item made of a message received.
* `IndexedInTime`: `Timely`, the parts of an index name were read at moments in
  order, the first when writing began, none after now. The rest is arithmetic:
  the digits of a later moment are not lower in the order of the calendar
  (lemmas on quotients and remainders).
* `InForce`: `WillBeUp`, a profile that is stored and not in force has a request at
  work that will bring it up, or whose command failed, or the agent ended. `TaskSound`:
  the agent is at a command only for an item that parses. `GrantedIsStored`: `Kept`,
  what a request will grant and parses is stored or still on its list, and
  `Uncontested`, what a deletion deletes has not been granted and will not be.
* `NeverAheadOfEnvoy`: `ResponsesInOrder`, responses arrive in the order of their
  versions, and `RequestsReached`, every version in a request, in a handler, in a
  late write or in the document that is of the present run of Envoy is one this run
  has reached with some type. What an earlier run asked for does not count.
* `AnswersAreImplied`: `CallSound`, what a call has read, and what is in force now,
  were in force during the call, and an answer follows from some of it; the best
  evidence of a call that is answered is not broken (`BestEvidence`), and the process
  that a broken one ends takes its calls along. `UsersAreFromStorage`: what `Poll` is
  about to install, the storage told.
* `UpToDate`: `EventsLeadToReload`, after an event that is handled the configuration
  is loaded again, and `Following`, until then the event is there to be read.
* `ServedAsMeant`: `MeantIsKept`, a name that is not excused has at most one document,
  and it says what was asked for. That a write keeps this needs `Request`: what a
  handler is about to write is the body of its request or, for an addition, made of
  the body and of endpoints that were stored when it looked; if they still are,
  adding addresses to them adds them to what is meant (`MeaningOfAddition`), and if
  not, the name is excused. Removing a document moves the ones behind it: `Pick`
  keeps their order, and so which is the last (lemmas on ranks of positions).
* `SettingsAsWritten`, `RoutedAsWritten`: `UpToDate`, an up-to-date snapshot is what
  loading makes of the documents, and the converter panics at none of them; so every
  HTTP filter has virtual hosts. The rest is about the converters, position by
  position: the HTTP filters that remain after filters of unknown names have been left
  out are those of the document in their order (`ManagersAsWritten`), and a converted
  match accepts just the requests every condition of the document holds for
  (`MatchAsWritten`), so the first route that fits is the same.

### Assumptions

Constants: bounds are numbers (`BoundsAssumption` in four modules, with the
first time of `AccessLog` not after its last; `NumbersAssumption`,
`ScaleAssumption`, `MaxRequestsAssumption`); a marker of absence, or of what is
broken or does not parse, is not a value (`NoDocAssumption`, `MarksAssumption`,
`UnparsedAssumption`, and `None` in `MessagesAssumption`); configurations,
versions' contents, requests and messages have their types (`ConfigsAssumption`,
`ContentsAssumption`, `RequestsAssumption`, `MessagesAssumption`,
`OperationsAssumption`: only rate limits can be deleted); there are finitely
many workers (`WorkersAssumption`: Init of als.go starts a fixed number, and
gives the queue as many places); of the resource types some are asked for by
name, and the one that refers to them is not (`TypesAssumption`). `Loader`
assumes of the documents what the types of the API give them: names, and
priorities and addresses in endpoint sets (`DocumentsAssumption`); Boolean
options are true, false or absent (`SettingsAssumption`); chains, filters,
hosts, routes and rate limits are lists (`RoutingAssumption`); and, in both and
in `NoneAssumption`, that an absent field differs from every value, converted
ones included. `SettingsAssumption` leaves out one more thing: a garbled
duration is not a number of headers. TLC evaluates the assumptions in every run
of their modules.

One theorem has a hypothesis: `ChangesAreFollowed` assumes `NoChange`, that no rate
limit is changed in place. The ratelimit process does not follow such a change;
`cw_ratelimit_change` shows it, so the theorem says that this is the only
case. It restricts nothing that authz and authzs3 do.

### What stays with TLC

* Liveness under fairness: `Convergence` of `ControlPlane`, `AuthzS3` and `AdsSync`,
  and `Settled` of `AccessLog`. The prover has no rules for fairness and ENABLED.
* What recursive operators compute: `ParseLimit` joins the actions of a rate limit
  with `FlattenSeq`, which the theorems take as it is, on both sides.

## Not modelled

* Fields that a converter copies and nothing else: one stands for all of a kind.
* `authz`'s `Check`: it never has a configuration to look at, and answers with status
  code 200, which is not OK: Envoy takes it for a refusal.
* The text of the ClickHouse statement, into which values go unescaped, so that one
  with a quote may be stored otherwise or not at all, and of log entries; six of seven
  durations, which are computed alike; entries that `json.Marshal` refuses.
* What `loadConfig` of the rate limit process makes of units.
* `GET` and `OPTIONS` handlers, which change nothing, but for the sync status.
* The contents of log messages, drivers, generated API documents.
* Connections that an administrator makes on a host, and which of several
  profiles of one name nmcli takes: any of them, in `IpMgmt`.

## Plan

Done: all components but those under "Not modelled", and the proofs above: no
invariant and no action property of a run is left without a theorem. Next would be
the parts of `authz` that run once its queries have a timeout, and liveness
arguments for the same properties on larger instances.
