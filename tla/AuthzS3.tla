------------------------------ MODULE AuthzS3 -------------------------------
(***************************************************************************)
(* The authorization service for S3 (src/src/authzs3.go and                *)
(* src/src/authzs3/authzs3.go).  A goroutine polls the storage for the     *)
(* namespace of every user; Envoy's Check calls read the configuration and *)
(* then the namespaces, each under a lock of its own, and decide.  A call  *)
(* that panics ends the process; it starts again and knows no users.       *)
(***************************************************************************)
EXTENDS Naturals

CONSTANTS
    Users,        \* accounts of the storage
    Namespaces,   \* namespaces of the storage
    Sources,      \* client addresses
    Handlers,     \* Check calls in progress
    Absent,       \* nothing there: a header, a map entry, a nil pointer
    Broken,       \* a header or query the code indexes beyond its end
    Configs,      \* configurations SetConfig may install
    Requests,     \* requests Envoy may send
    Faults,       \* subset of {"silent", "garbled", "error"}
    MaxFaults,    \* bound: requests to the storage that meet a fault
    MaxChanges,   \* bound: changes of the storage or of the configuration
    MaxChecks     \* bound: Check calls

\* UsersType, read into a map.
Maps == [Users -> Namespaces \cup {Absent}]
NoUsers == [u \in Users |-> Absent]

\* NamespaceConfig: what to do, and what to do for some sources.
Actions == {"allow", "deny"}
Rules == [action: Actions, sources: [Sources -> Actions \cup {Absent}]]

ASSUME MarksAssumption ==
    /\ Absent # Broken
    /\ {Absent, Broken} \cap (Users \cup Namespaces \cup Actions) = {}
ASSUME ConfigsAssumption ==
    \A c \in Configs : c = Absent \/ c \in [Namespaces -> Rules \cup {Absent}]

\* What a request tells about its account and namespace: the account in the
\* authorization header, the account in the query, x-emc-namespace, and the
\* first label of a host of three. A header of blanks or of "AWS" alone and
\* a query with a bare X-AMZ-CREDENTIAL are broken. The source may be no
\* socket address.
Accounts == Users \cup {Absent, Broken}
Attributes == [header: Accounts, query: Accounts,
               emc: Namespaces \cup {Absent}, host: Namespaces \cup {Absent},
               source: Sources \cup {Absent}]

\* Absent: a request that is not of HTTP.
ASSUME RequestsAssumption == Requests \subseteq Attributes \cup {Absent}

VARIABLES
    storage,     \* the namespaces of the users, at the storage
    poll,        \* where loadUsers is
    fetched,     \* the users it got
    namespaces,  \* Service.namespaces
    config,      \* Service.config
    call,        \* by handler: locals of Check
    faults, changes, checks,
    crashes,     \* history: calls that ended the process
    said,        \* history: the answers of the storage
    seen         \* history: configurations and maps in force during a call

pollVars == <<poll, fetched, faults>>
vars == <<storage, pollVars, namespaces, config, call, changes, checks,
          crashes, said, seen>>

Idle == [pc |-> "idle"]

\* "undecided" is status 200, neither OK nor PERMISSION_DENIED.
Answers == [action: Actions \cup {"undecided"}, namespace: Namespaces \cup {Absent}]

\* The type of every variable.
TypeOK ==
    /\ storage \in Maps
    /\ poll \in {"login", "users", "install", "logout"}
    /\ fetched \in Maps
    /\ namespaces \in Maps
    /\ config \in Configs /\ crashes \in Nat
    /\ \A h \in Handlers :
         \/ call[h] = Idle
         \/ call[h].pc = "config" /\ call[h].request \in Requests
         \/ /\ call[h].pc = "namespaces" /\ call[h].request \in Requests
            /\ call[h].config \in Configs
         \/ /\ call[h].pc = "done" /\ call[h].request \in Requests
            /\ call[h].answer \in Answers

Init ==
    /\ storage \in Maps
    /\ poll = "login" /\ fetched = NoUsers /\ faults = 0
    /\ namespaces = NoUsers
    /\ config \in Configs
    /\ call = [h \in Handlers |-> Idle]
    /\ changes = 0 /\ checks = 0 /\ crashes = 0
    /\ said = {}
    /\ seen = [h \in Handlers |-> [configs |-> {}, maps |-> {}]]

-----------------------------------------------------------------------------
(* loadUsers: every six seconds log in, get the users, log out *)

Fault(kind) == kind \in Faults /\ faults < MaxFaults /\ faults' = faults + 1

\* No answer, or none with a token: the round is over.
Login ==
    /\ poll = "login"
    /\ \/ poll' = "users" /\ UNCHANGED faults
       \/ Fault("silent") /\ UNCHANGED poll
    /\ UNCHANGED <<storage, fetched, namespaces, config, call, changes,
                   checks, crashes, said, seen>>

\* The status of an answer is not looked at, only what it says of users.
Answer(map) ==
    /\ fetched' = map /\ poll' = "install"
    /\ said' = said \cup {map}

\* Mutant: an answer that is no JSON installs an empty map.
GetUsersGarbled ==
    /\ poll = "users"
    /\ \/ Answer(storage) /\ UNCHANGED faults
       \/ /\ fetched' = NoUsers /\ poll' = "install" /\ Fault("garbled")
          /\ UNCHANGED said
       \/ Fault("silent") /\ poll' = "logout" /\ UNCHANGED <<fetched, said>>
    /\ UNCHANGED <<storage, namespaces, config, call, changes, checks, crashes, seen>>

\* An error told in JSON is an answer without users. An answer that is no
\* JSON is dropped.
GetUsers ==
    /\ poll = "users"
    /\ \/ Answer(storage) /\ UNCHANGED faults
       \/ Answer(NoUsers) /\ Fault("error")
       \/ /\ Fault("silent") \/ Fault("garbled")
          /\ poll' = "logout" /\ UNCHANGED <<fetched, said>>
    /\ UNCHANGED <<storage, namespaces, config, call, changes, checks, crashes, seen>>

\* Mutant: only the first map is installed.
InstallOnce ==
    /\ poll = "install"
    /\ poll' = "logout"
    /\ namespaces' = IF namespaces = NoUsers THEN fetched ELSE namespaces
    /\ UNCHANGED <<storage, fetched, faults, config, call, changes,
                   checks, crashes, said, seen>>

\* createMap and SetNamespaces; a map that says the same is not installed.
Install ==
    /\ poll = "install"
    /\ poll' = "logout"
    /\ IF fetched = namespaces
       THEN UNCHANGED <<namespaces, seen>>
       ELSE /\ namespaces' = fetched
            /\ seen' = [h \in Handlers |->
                          [seen[h] EXCEPT !.maps = @ \cup {fetched}]]
    /\ UNCHANGED <<storage, fetched, faults, config, call, changes, checks,
                   crashes, said>>

\* The outcome of the logout is ignored.
Logout ==
    /\ poll = "logout"
    /\ poll' = "login"
    /\ UNCHANGED <<storage, fetched, faults, namespaces, config, call,
                   changes, checks, crashes, said, seen>>

Poll == Login \/ GetUsers \/ Install \/ Logout

-----------------------------------------------------------------------------
(* Changes from outside *)

StorageChanges ==
    /\ changes < MaxChanges /\ changes' = changes + 1
    /\ storage' \in Maps \ {storage}
    /\ UNCHANGED <<pollVars, namespaces, config, call, checks, crashes, said, seen>>

SetConfig ==
    /\ changes < MaxChanges /\ changes' = changes + 1
    /\ config' \in Configs \ {config}
    /\ seen' = [h \in Handlers |->
                  [seen[h] EXCEPT !.configs = @ \cup {config'}]]
    /\ UNCHANGED <<storage, pollVars, namespaces, call, checks, crashes, said>>

-----------------------------------------------------------------------------
(* Check *)

\* The namespace of an account, if the storage told of it.
OfAccount(u, map) == IF u \in Users THEN map[u] ELSE u

\* Mutant: the host goes before the header.
NamespaceOfHost(q, map) ==
    CASE OfAccount(q.header, map) # Absent -> OfAccount(q.header, map)
      [] OTHER ->
     CASE OfAccount(q.query, map) # Absent -> OfAccount(q.query, map)
       [] OTHER -> IF q.host # Absent THEN q.host ELSE q.emc

\* getRequestNamespace. A name in a header or in the host need not be known
\* to the storage; an account must be. Broken: it panics, at the query only
\* when the header did not settle it.
RequestNamespace(q, map) ==
    CASE OfAccount(q.header, map) # Absent -> OfAccount(q.header, map)
      [] OTHER ->
     CASE OfAccount(q.query, map) # Absent -> OfAccount(q.query, map)
       [] OTHER -> IF q.emc # Absent THEN q.emc ELSE q.host

\* Mutant: a source without a rule of its own is not left to the rule of
\* the namespace.
DecideBySource(q, c, map) ==
    LET ns == IF q = Absent THEN Absent ELSE RequestNamespace(q, map)
        Say(action) == [action |-> action, namespace |-> ns]
    IN  IF q = Absent THEN Say("undecided")
        ELSE IF ns = Absent \/ c = Absent THEN Say("allow")
        ELSE IF c[ns] = Absent THEN Say("allow")
        ELSE IF q.source = Absent THEN Say(c[ns].action)
        ELSE Say(c[ns].sources[q.source])

\* The statements of Check after the two reads. A request that is not of
\* HTTP is left undecided. With no namespace, or no rule for it, the request
\* passes.
Decide(q, c, map) ==
    LET ns == IF q = Absent THEN Absent ELSE RequestNamespace(q, map)
        Say(action) == [action |-> action, namespace |-> ns]
    IN  IF q = Absent THEN Say("undecided")
        ELSE IF ns = Absent \/ c = Absent THEN Say("allow")
        ELSE IF c[ns] = Absent THEN Say("allow")
        ELSE IF q.source = Absent THEN Say(c[ns].action)
        ELSE IF c[ns].sources[q.source] = Absent THEN Say(c[ns].action)
        ELSE Say(c[ns].sources[q.source])

Begin(h) ==
    /\ call[h].pc \in {"idle", "done"}
    /\ checks < MaxChecks /\ checks' = checks + 1
    /\ \E q \in Requests : call' = [call EXCEPT ![h] = [pc |-> "config", request |-> q]]
    /\ seen' = [seen EXCEPT ![h] = [configs |-> {config}, maps |-> {namespaces}]]
    /\ UNCHANGED <<storage, pollVars, namespaces, config, changes, crashes, said>>

ReadConfig(h) ==
    /\ call[h].pc = "config"
    /\ call' = [call EXCEPT ![h] = [pc |-> "namespaces",
                                    request |-> call[h].request,
                                    config |-> config]]
    /\ UNCHANGED <<storage, pollVars, namespaces, config, changes, checks,
                   crashes, said, seen>>

\* getRequestNamespace panics on what call h asks for.
Panics(h) ==
    call[h].request # Absent /\ RequestNamespace(call[h].request, namespaces) = Broken

ReadNamespaces(h) ==
    /\ call[h].pc = "namespaces" /\ ~Panics(h)
    /\ call' = [call EXCEPT ![h] =
         [pc |-> "done", request |-> call[h].request,
          answer |-> Decide(call[h].request, call[h].config, namespaces)]]
    /\ UNCHANGED <<storage, pollVars, namespaces, config, changes, checks,
                   crashes, said, seen>>

\* Nothing recovers from the panic: the process ends with every call, and
\* main() starts over with the configuration it can load, if any, no users
\* and a new round of loadUsers.
Crash(h) ==
    /\ call[h].pc = "namespaces" /\ Panics(h)
    /\ crashes' = crashes + 1
    /\ call' = [g \in Handlers |-> Idle]
    /\ config' \in Configs
    /\ namespaces' = NoUsers
    /\ poll' = "login" /\ fetched' = NoUsers
    /\ UNCHANGED <<storage, faults, changes, checks, said, seen>>

Next ==
    \/ Poll \/ StorageChanges \/ SetConfig
    \/ \E h \in Handlers : Begin(h) \/ ReadConfig(h) \/ ReadNamespaces(h) \/ Crash(h)

Spec == Init /\ [][Next]_vars

\* The ticker ticks and requests to the storage time out after three seconds.
FairSpec == Spec /\ WF_vars(Poll)

-----------------------------------------------------------------------------
(* Properties *)

\* The namespaces a request may be taken for, the best evidence first.
Evidence(q, map) ==
    [rank \in 1..4 |->
        CASE rank = 1 -> IF q.header \in Users THEN map[q.header] ELSE q.header
          [] rank = 2 -> IF q.query \in Users THEN map[q.query] ELSE q.query
          [] rank = 3 -> q.emc
          [] rank = 4 -> q.host]

\* The answer a says what the rules c and the namespaces map imply for q: a
\* request that is not of HTTP is left undecided; otherwise a names the
\* namespace of the best evidence, which a broken one has none of; a rule
\* for the source overrules that for the namespace; what no rule forbids is
\* allowed.
Implied(a, q, c, map) ==
    LET found == {r \in 1..4 : q # Absent /\ Evidence(q, map)[r] # Absent}
        rules == {x \in Namespaces : c # Absent /\ c[x] # Absent}
        Denied(x) == /\ x \in rules
                     /\ \/ q.source # Absent /\ c[x].sources[q.source] = "deny"
                        \/ /\ c[x].action = "deny"
                           /\ q.source = Absent \/ c[x].sources[q.source] = Absent
    IN  \/ q = Absent /\ a = [action |-> "undecided", namespace |-> Absent]
        \/ /\ q # Absent /\ found = {}
           /\ a = [action |-> "allow", namespace |-> Absent]
        \/ \E r \in found :
             /\ \A s \in found : r <= s
             /\ a.namespace = Evidence(q, map)[r] /\ a.namespace # Broken
             /\ a.action = IF Denied(a.namespace) THEN "deny" ELSE "allow"

\* Whatever is installed while Check runs, its answer is what some
\* configuration and some map of users imply that were in force during the
\* call, each at its moment; no answer rests on older ones, nor on those of
\* a process that has ended.
AnswersAreImplied ==
    \A h \in Handlers :
        call[h].pc = "done" =>
            \E c \in seen[h].configs, m \in seen[h].maps :
                Implied(call[h].answer, call[h].request, c, m)

\* Check works with users the storage told of, all from one answer: a poll
\* without an answer, or with one that cannot be read, does not empty or
\* mix the map. Only the end of the process does.
UsersAreFromStorage ==
    [][namespaces' # namespaces => namespaces' \in said \/ crashes' # crashes]_vars

\* When the storage and its answers have settled and calls do not end the
\* process for ever, the namespaces settle on what the storage has.
Convergence == <>[](namespaces = storage)
=============================================================================
