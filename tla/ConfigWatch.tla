---------------------------- MODULE ConfigWatch -----------------------------
(***************************************************************************)
(* How the ratelimit, authz and authzs3 processes (src/src/ratelimit.go,   *)
(* authz.go, authzs3.go) follow their collection in MongoDB: load once,    *)
(* start serving, open the change stream, then reload on every event and   *)
(* hand the result to the service.  The collections are written by the     *)
(* REST handlers of the management server (src/src/rapi).                  *)
(***************************************************************************)
EXTENDS Naturals, Sequences

CONSTANTS
    Keys,         \* documents of the collection; authz, authzs3: just one
    Values,       \* what a document says
    NoValue,      \* no such document
    Nil,          \* the nil pointer
    Operations,   \* by process: subset of {"create", "change", "delete"}
    Faults,       \* subset of {"read", "crash"}
    MaxWrites,    \* bound: writes of the collection
    MaxCrashes    \* bound: crashes that are not panics

\* Only rate limits can be deleted.
ASSUME OperationsAssumption ==
    /\ DOMAIN Operations \subseteq {"ratelimit", "authz", "authzs3"}
    /\ \A s \in DOMAIN Operations : "delete" \in Operations[s] => s = "ratelimit"

Configs == [Keys -> {NoValue} \cup Values]
Nothing == [k \in Keys |-> NoValue]

VARIABLES
    service,    \* which of the three processes this is
    stored,     \* the collection
    streaming,  \* the change stream is open
    events,     \* operation types not yet taken from the stream
    pc,         \* where main() is
    cache,      \* the variable main() assigns loadConfig to
    config,     \* Service.config: what requests are decided by
    writes, crashes,
    missed      \* history: a change was lost, or a fault kept it from being read

vars == <<service, stored, streaming, events, pc, cache, config, writes,
          crashes, missed>>

\* The type of every variable.
TypeOK ==
    /\ service \in DOMAIN Operations
    /\ stored \in Configs
    /\ streaming \in BOOLEAN
    /\ events \in Seq({"insert", "replace", "delete"})
    /\ pc \in {"down", "watch", "loop", "load", "set"}
    /\ cache = Nil \/ cache \in Configs
    /\ config = Nil \/ config \in Configs
    /\ missed \in BOOLEAN

Init ==
    /\ service \in DOMAIN Operations
    /\ stored = Nothing
    /\ streaming = FALSE /\ events = <<>>
    /\ pc = "down" /\ cache = Nil /\ config = Nil
    /\ writes = 0 /\ crashes = 0 /\ missed = FALSE

-----------------------------------------------------------------------------
(* The writers: PutRateLimit, DeleteRateLimit, PutConfigAuthz,             *)
(* PutConfigAuthzS3.  ReplaceOne raises "insert" or "replace".             *)

\* authz and authzs3 have one document.
Documents == IF service = "ratelimit" THEN Keys ELSE {CHOOSE k \in Keys : TRUE}

Change(k, v, type) ==
    /\ writes < MaxWrites /\ writes' = writes + 1
    /\ stored' = [stored EXCEPT ![k] = v]
    /\ events' = IF streaming THEN Append(events, type) ELSE events
    /\ missed' = (missed \/ pc = "watch")
    /\ UNCHANGED <<service, streaming, pc, cache, config, crashes>>

\* Mutant: the document is written by UpdateOne with upsert.
PutUpdated(k, v) ==
    \/ /\ "create" \in Operations[service] /\ stored[k] = NoValue
       /\ Change(k, v, "insert")
    \/ /\ "change" \in Operations[service] /\ stored[k] \notin {NoValue, v}
       /\ Change(k, v, "update")

Put(k, v) ==
    \/ /\ "create" \in Operations[service] /\ stored[k] = NoValue
       /\ Change(k, v, "insert")
    \/ /\ "change" \in Operations[service] /\ stored[k] \notin {NoValue, v}
       /\ Change(k, v, "replace")

Delete(k) ==
    /\ "delete" \in Operations[service] /\ stored[k] # NoValue
    /\ Change(k, NoValue, "delete")

-----------------------------------------------------------------------------
(* loadConfig *)

\* What loadConfig should return. authzs3 takes "no document" for an error.
Wanted == IF service = "authzs3" /\ stored = Nothing THEN Nil ELSE stored

\* What loadConfig returns when its query fails. ratelimit may also stop
\* half way through the cursor. authz has no "timeout" flag, so its queries
\* have a timeout of zero and always fail; it takes that for "no document".
Failures ==
    CASE service = "authz" -> {Nothing}
      [] service = "authzs3" -> {Nil}
      [] service = "ratelimit" ->
           {Nil} \cup {c \in Configs : \A k \in Keys : c[k] \in {stored[k], NoValue}}

Loaded ==
    IF service = "authz" THEN Failures
    ELSE {Wanted} \cup (IF "read" \in Faults THEN Failures ELSE {})

\* The database kept the load from the stored configuration. That authz's
\* queries fail has nothing to do with the database.
Lost(c) == "read" \in Faults /\ c # Wanted

\* loadConfig and SetConfig before the server listens; a rate limit server
\* that cannot load exits.
Start ==
    /\ pc = "down"
    /\ \E c \in Loaded :
         /\ service = "ratelimit" => c # Nil
         /\ cache' = c /\ config' = c
         /\ missed' = Lost(c)
    /\ pc' = "watch"
    /\ UNCHANGED <<service, stored, streaming, events, writes, crashes>>

Watch ==
    /\ pc = "watch"
    /\ pc' = "loop" /\ streaming' = TRUE
    /\ UNCHANGED <<service, stored, events, cache, config, writes, crashes,
                   missed>>

\* Mutant: deletions are forgotten.
HandledWrites(type) == type \in {"insert", "update"}

Handled(type) == service = "ratelimit" => type \in {"insert", "update", "delete"}

TakeEvent ==
    /\ pc = "loop" /\ events # <<>>
    /\ events' = Tail(events)
    /\ pc' = IF Handled(Head(events)) THEN "load" ELSE "loop"
    /\ UNCHANGED <<service, stored, streaming, cache, config, writes, crashes,
                   missed>>

Reload ==
    /\ pc = "load"
    /\ \E c \in Loaded : cache' = c /\ missed' = Lost(c)
    /\ pc' = "set"
    /\ UNCHANGED <<service, stored, streaming, events, config, writes, crashes>>

\* Mutant: a configuration that is not there is not installed.
SetConfigIfLoaded ==
    /\ pc = "set"
    /\ config' = IF cache = Nil THEN config ELSE cache
    /\ pc' = "loop"
    /\ UNCHANGED <<service, stored, streaming, events, cache, writes, crashes,
                   missed>>

\* SetConfig is called whether or not loadConfig failed.
SetConfig ==
    /\ pc = "set"
    /\ config' = cache
    /\ pc' = "loop"
    /\ UNCHANGED <<service, stored, streaming, events, cache, writes, crashes,
                   missed>>

Down ==
    /\ pc' = "down" /\ cache' = Nil /\ config' = Nil
    /\ streaming' = FALSE /\ events' = <<>> /\ missed' = FALSE
    /\ UNCHANGED <<service, stored, writes>>

\* ShouldRateLimit dereferences the configuration; Check tests it for nil.
Panics == pc # "down" /\ service = "ratelimit" /\ config = Nil
Request == Panics /\ Down /\ UNCHANGED crashes

Crash ==
    /\ "crash" \in Faults /\ pc # "down" /\ crashes < MaxCrashes
    /\ crashes' = crashes + 1
    /\ Down

-----------------------------------------------------------------------------
Main == Watch \/ TakeEvent \/ Reload \/ SetConfig

Next ==
    \/ \E k \in Documents, v \in Values : Put(k, v)
    \/ \E k \in Documents : Delete(k)
    \/ Start \/ Main \/ Request \/ Crash

Spec == Init /\ [][Next]_vars

-----------------------------------------------------------------------------
(* Properties *)

\* main() never waits for an event with a configuration in hand that it has
\* not given to the service: what GetLiveConfig shows is what is in force. Excused
\* is authz, whose main() has a variable of its own while GetLiveConfig shows
\* one that nothing ever assigns.
LiveConfigInForce ==
    service # "authz" /\ pc \in {"watch", "loop"} => cache = config

\* While the process waits with no event pending and no change was missed,
\* it has nothing left to learn. Excused is authz, whose queries have no time
\* to succeed (Failures): it goes on without a configuration for ever.
UpToDate ==
    pc = "loop" /\ events = <<>> /\ ~missed
      => config = IF service = "authz" THEN Nothing ELSE Wanted
=============================================================================
