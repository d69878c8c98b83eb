------------------------------- MODULE IpMgmt -------------------------------
(***************************************************************************)
(* Addresses and routes of an Envoy host.  The REST server (rapi.go)       *)
(* forwards a request to the agent on the host (ipmgmt_server.go), which   *)
(* serves it with a sequence of nmcli commands.  A command is one step;    *)
(* requests run on goroutines of their own and nothing orders their        *)
(* commands.  A profile of NetworkManager is what it stores for a          *)
(* connection; a device runs a profile as it was when it was brought up.   *)
(***************************************************************************)
EXTENDS Naturals, Sequences, SequencesExt

CONSTANTS
    Ifaces,       \* interfaces of the host
    Addrs,        \* addresses, as ParseCIDR accepts them
    Routes,       \* routes (network and next hop)
    Unparsed,     \* what ParseCIDR refuses as an address or a network
    Handlers,     \* requests at a time
    Faults,       \* subset of {"lost", "nmcli", "activate", "crash"}
    MaxItems,     \* bound: addresses in a request
    MaxRequests   \* bound: requests

ASSUME BoundsAssumption == MaxItems \in Nat /\ MaxRequests \in Nat

Settings == Addrs \cup Routes

ASSUME UnparsedAssumption == Unparsed \cap Settings = {}

\* What a request may hold.
Items == Settings \cup Unparsed

VARIABLES
    profiles,   \* by interface: the contents of the profiles of its name
    device,     \* by interface: what it runs
    task,       \* by handler: the request, at the REST server and the agent,
                \* with what its answer grants or what it deletes
    requests,
    granted,    \* history: by interface, what a client was told is set
    failed      \* history: by interface, stored but not brought up

vars == <<profiles, device, task, requests, granted, failed>>

Idle == [pc |-> "idle"]

Idling(runs) == [runs |-> runs, profile |-> 0, settings |-> {}]

\* The device runs profile p as stored now.
Running(i, p) == [runs |-> "own", profile |-> p, settings |-> profiles[i][p]]

Ops == {"put", "delete"} \X {"interface", "route"}

\* The type of every variable. The agent is at a command for an address or
\* route only while one is left that it could parse, and a device never runs a
\* profile that does not exist.
TypeOK ==
    /\ \A i \in Ifaces : \A p \in DOMAIN profiles[i] :
         /\ profiles[i][p] \subseteq Settings
         /\ profiles[i][p] \cap Addrs # {}
    /\ \A i \in Ifaces :
         \/ device[i] \in {Idling("none"), Idling("other")}
         \/ /\ device[i].runs = "own"
            /\ device[i].profile \in DOMAIN profiles[i]
            /\ device[i].settings \subseteq Settings
    /\ \A h \in Handlers :
         \/ task[h] = Idle
         \/ /\ task[h].pc \in {"sent", "skip", "show", "add", "modify", "up",
                               "done", "refused"}
            /\ task[h].pc \in {"show", "add", "modify"} =>
                 task[h].items # <<>> /\ Head(task[h].items) \notin Unparsed
            /\ task[h].op \in Ops /\ task[h].iface \in Ifaces
            /\ task[h].items \in Seq(Items)
            /\ task[h].grants \subseteq Items /\ task[h].drops \subseteq Items
    /\ requests \in 0..MaxRequests
    /\ granted \in [Ifaces -> SUBSET Items]
    /\ failed \in [Ifaces -> BOOLEAN]

\* A device runs nothing ("--" in GENERAL.CONNECTION) or a connection that is
\* not named after it.
Init ==
    /\ profiles = [i \in Ifaces |-> <<>>]
    /\ device \in [Ifaces -> {Idling("none"), Idling("other")}]
    /\ task = [h \in Handlers |-> Idle]
    /\ requests = 0
    /\ granted = [i \in Ifaces |-> {}]
    /\ failed = [i \in Ifaces |-> FALSE]

-----------------------------------------------------------------------------
(* The REST server *)

At(h, pc) == task[h].pc = pc

\* Requests for i that are not over at the agent.
Busy(i) == {h \in Handlers : task[h] # Idle /\ task[h].iface = i}

\* A deletion under way: what is put meanwhile may be there in the end or not.
Contested(i) == UNION {task[h].drops : h \in Busy(i)}

\* The node was found and the request is sent to its agent.
Begin(h, op, i, items) ==
    /\ task[h] = Idle
    /\ requests < MaxRequests /\ requests' = requests + 1
    /\ LET new(grants, drops) ==
             [pc |-> "sent", op |-> op, iface |-> i, items |-> items,
              grants |-> grants, drops |-> drops]
       IN  IF op[1] = "put"
           THEN /\ task' = [task EXCEPT ![h] = new(ToSet(items) \ Contested(i), {})]
                /\ UNCHANGED granted
           ELSE /\ task' = [g \in Handlers |->
                     CASE g = h -> new({}, ToSet(items))
                       [] g \in Busy(i) ->
                            [task[g] EXCEPT !.grants = @ \ ToSet(items)]
                       [] OTHER -> task[g]]
                /\ granted' = [granted EXCEPT ![i] = @ \ ToSet(items)]
    /\ UNCHANGED <<profiles, device, failed>>

PutConfigInterfaces(h) ==
    \E i \in Ifaces, items \in SeqOf(Addrs \cup Unparsed, MaxItems) :
        Begin(h, <<"put", "interface">>, i, items)

DeleteConfigInterfaces(h) ==
    \E i \in Ifaces, items \in SeqOf(Addrs \cup Unparsed, MaxItems) :
        Begin(h, <<"delete", "interface">>, i, items)

PutConfigRoutes(h) ==
    \E i \in Ifaces, r \in Routes \cup Unparsed :
        Begin(h, <<"put", "route">>, i, <<r>>)

DeleteConfigRoutes(h) ==
    \E i \in Ifaces, r \in Routes \cup Unparsed :
        Begin(h, <<"delete", "route">>, i, <<r>>)

\* No answer within three seconds, or none at all: the client gets its 204
\* before the agent has said anything, and the agent goes on.
Timeout(h) ==
    /\ "lost" \in Faults
    /\ task[h] # Idle
    /\ task' = [task EXCEPT ![h].grants = {}]
    /\ UNCHANGED <<profiles, device, requests, granted, failed>>

\* The request never reaches the agent: a 204, too.
Undelivered(h) ==
    /\ "lost" \in Faults
    /\ At(h, "sent")
    /\ task' = [task EXCEPT ![h] = Idle]
    /\ UNCHANGED <<profiles, device, requests, granted, failed>>

\* The agent's 204 becomes the client's, its 400 the client's 400.
Answer(h) ==
    /\ At(h, "done") \/ At(h, "refused")
    /\ task' = [task EXCEPT ![h] = Idle]
    /\ granted' = IF At(h, "done")
                  THEN [granted EXCEPT ![task[h].iface] = @ \cup task[h].grants]
                  ELSE granted
    /\ UNCHANGED <<profiles, device, requests, failed>>

-----------------------------------------------------------------------------
(* The agent *)

\* What is done about the first item.
ItemCommand(op, item) ==
    CASE item \in Unparsed -> "skip"
      [] item \notin Unparsed /\ op = <<"put", "interface">> -> "show"
      [] OTHER -> "modify"

\* Mutant: a put does not look whether ParseCIDR accepted the address.
CommandAlways(op, items) ==
    CASE items = <<>> -> "up"
      [] items # <<>> /\ op = <<"put", "interface">> -> "show"
      [] OTHER -> ItemCommand(op, Head(items))

\* Mutant: after a deletion the connection is not brought up again.
CommandDeleted(op, items) ==
    IF items = <<>> THEN IF op[1] = "put" THEN "up" ELSE "done"
    ELSE ItemCommand(op, Head(items))

\* The next command, with items left to do. Only SetLocalInterface asks for
\* the connection of the device.
Command(op, items) ==
    IF items = <<>> THEN "up" ELSE ItemCommand(op, Head(items))

Goto(h, pc) == task' = [task EXCEPT ![h].pc = pc]

\* The first item is done with.
Advance(h) ==
    LET rest == Tail(task[h].items)
    IN  task' = [task EXCEPT ![h].items = rest,
                             ![h].pc = Command(task[h].op, rest)]

\* Mutant: the outcome of the command is ignored.
RefuseNothing(h) == Advance(h) /\ UNCHANGED <<profiles, failed>>

\* 400: what is stored so far stays, and is not brought up.
Refuse(h) ==
    /\ Goto(h, "refused")
    /\ failed' = [failed EXCEPT ![task[h].iface] = TRUE]
    /\ UNCHANGED profiles

\* A route whose network cannot be parsed is a 400 and nothing is touched; of
\* a list of addresses the others are served, and the answer is the same 204.
Accept(h) ==
    /\ At(h, "sent")
    /\ LET next == Command(task[h].op, task[h].items)
       IN  Goto(h, IF task[h].op[2] = "route" /\ next = "skip"
                   THEN "refused" ELSE next)
    /\ UNCHANGED <<profiles, device, requests, granted, failed>>

Skip(h) ==
    /\ At(h, "skip")
    /\ Advance(h)
    /\ UNCHANGED <<profiles, device, requests, granted, failed>>

\* nmcli dev show: the device's connection decides how the address is added.
Show(h) ==
    /\ At(h, "show")
    /\ \/ /\ Goto(h, IF device[task[h].iface].runs = "none" THEN "add" ELSE "modify")
          /\ UNCHANGED <<profiles, failed>>
       \/ "nmcli" \in Faults /\ Refuse(h)
    /\ UNCHANGED <<device, requests, granted>>

\* nmcli conn add: another profile, even where there is one of that name.
Add(h) ==
    /\ At(h, "add")
    /\ \/ /\ profiles' = [profiles EXCEPT ![task[h].iface] =
                            Append(@, {Head(task[h].items)})]
          /\ Advance(h)
          /\ UNCHANGED failed
       \/ "nmcli" \in Faults /\ Refuse(h)
    /\ UNCHANGED <<device, requests, granted>>

\* What modify makes of a profile. One with addresses of its own must keep one.
Modified(profile, op, item) ==
    IF op[1] = "put" THEN profile \cup {item} ELSE profile \ {item}

Accepted(profile) == profile \cap Addrs # {}

\* nmcli conn modify, of some profile of the interface's name. It fails when
\* there is none, or if NetworkManager does not accept the result.
Modify(h) ==
    LET i == task[h].iface
        New(p) == Modified(profiles[i][p], task[h].op, Head(task[h].items))
    IN  /\ At(h, "modify")
        /\ \/ \E p \in DOMAIN profiles[i] :
                /\ Accepted(New(p))
                /\ profiles' = [profiles EXCEPT ![i][p] = New(p)]
                /\ Advance(h)
                /\ UNCHANGED failed
           \/ /\ \/ "nmcli" \in Faults
                 \/ DOMAIN profiles[i] = {}
                 \/ \E p \in DOMAIN profiles[i] : ~ Accepted(New(p))
              /\ Refuse(h)
        /\ UNCHANGED <<device, requests, granted>>

\* nmcli conn up, of some profile of the interface's name. Its outcome is
\* ignored: 204. An activation that fails may leave the device without any.
Up(h) ==
    /\ At(h, "up")
    /\ Goto(h, "done")
    /\ LET i == task[h].iface
       IN  \/ \E p \in DOMAIN profiles[i] :
                /\ device' = [device EXCEPT ![i] = Running(i, p)]
                /\ failed' = [failed EXCEPT ![i] = FALSE]
           \/ /\ DOMAIN profiles[i] = {} \/ "activate" \in Faults
              /\ \/ UNCHANGED device
                 \/ /\ DOMAIN profiles[i] # {}
                    /\ device' = [device EXCEPT ![i] = Idling("none")]
              /\ failed' = [failed EXCEPT ![i] = TRUE]
    /\ UNCHANGED <<profiles, requests, granted>>

\* The agent ends, and the command it runs with it; another is started. The
\* server, left without an answer, answers 204 all the same.
Crash ==
    LET begun == {h \in Handlers : task[h] # Idle /\ task[h].pc # "sent"}
        stored == {h \in begun : task[h].pc \notin {"done", "refused"}}
    IN  /\ "crash" \in Faults
        /\ begun # {}
        /\ task' = [h \in Handlers |-> IF h \in begun THEN Idle ELSE task[h]]
        /\ failed' = [i \in Ifaces |->
                        failed[i] \/ \E h \in stored : task[h].iface = i]
        /\ UNCHANGED <<profiles, device, requests, granted>>

\* NetworkManager brings up a profile for a device that runs none.
Autoconnect(i) ==
    /\ device[i].runs = "none"
    /\ \E p \in DOMAIN profiles[i] :
         device' = [device EXCEPT ![i] = Running(i, p)]
    /\ failed' = [failed EXCEPT ![i] = FALSE]
    /\ UNCHANGED <<profiles, task, requests, granted>>

Next ==
    \/ \E h \in Handlers :
         \/ PutConfigInterfaces(h) \/ DeleteConfigInterfaces(h)
         \/ PutConfigRoutes(h) \/ DeleteConfigRoutes(h)
         \/ Timeout(h) \/ Undelivered(h) \/ Answer(h)
         \/ Accept(h) \/ Skip(h) \/ Show(h) \/ Add(h) \/ Modify(h) \/ Up(h)
    \/ \E i \in Ifaces : Autoconnect(i)
    \/ Crash

Spec == Init /\ [][Next]_vars

-----------------------------------------------------------------------------
(* Properties *)

\* However the commands of requests interleave, and whether or not the REST
\* server still waits: when no request for an interface is under way, the
\* device runs a profile of its name as that is now - nothing stored is
\* waiting for the next request, nothing deleted is still there - unless
\* nmcli refused a command or could not bring the profile up, or the agent
\* ended between storing something and bringing it up.
InForce ==
    \A i \in Ifaces :
        Busy(i) = {} /\ ~ failed[i] /\ DOMAIN profiles[i] # {} =>
            \E p \in DOMAIN profiles[i] : device[i] = Running(i, p)

StoredAt(i) == UNION {profiles[i][p] : p \in DOMAIN profiles[i]}

\* An address or a route for which the agent answered 204 in time is stored,
\* until a deletion is asked for: no other request drops it, no failed command
\* is taken for a success, and no end of the agent is. Only what ParseCIDR
\* refuses is not: rapi.go:837 documents "Create or update node interface
\* address", the agent skips an address without its mask, for example, and
\* answers 204 for the whole list. (With several profiles of the same name
\* it need not be in the one that is up.)
GrantedIsStored ==
    \A i \in Ifaces : granted[i] \ Unparsed \subseteq StoredAt(i)
=============================================================================
