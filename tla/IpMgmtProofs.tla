----------------------------- MODULE IpMgmtProofs -----------------------------
(***************************************************************************)
(* Proofs about IpMgmt for any interfaces, addresses, routes, requests,    *)
(* faults and bounds: type correctness, InForce and GrantedIsStored.       *)
(***************************************************************************)
EXTENDS IpMgmt, TLAPS

(* The inductive invariant *)

Pcs == {"sent", "skip", "show", "add", "modify", "up", "done", "refused"}

\* The locals of a request.
Tasks == [pc: Pcs, op: Ops, iface: Ifaces, items: Seq(Items),
          grants: SUBSET Items, drops: SUBSET Items]

\* What NetworkManager stores has an address.
Profiles == {s \in SUBSET Settings : s \cap Addrs # {}}

\* The pc of a request fits what is left to do.
Fits(pc, op, items) ==
    /\ pc \in {"show", "add"} => op = <<"put", "interface">>
    /\ pc \in {"show", "add", "modify"} => items # <<>> /\ Head(items) \notin Unparsed
    /\ pc = "skip" => items # <<>> /\ Head(items) \in Unparsed
    /\ pc \in {"up", "done"} => items = <<>>

\* Where a request is says what is left to do. Only addresses are added, and
\* only what a deletion is for is deleted.
TaskSound(h) ==
    task[h] # Idle =>
        /\ Fits(task[h].pc, task[h].op, task[h].items)
        /\ task[h].op = <<"put", "interface">> =>
             task[h].items \in Seq(Addrs \cup Unparsed)
        /\ task[h].op[1] = "delete" =>
             task[h].grants = {} /\ ToSet(task[h].items) \subseteq task[h].drops

DeviceSound(i) ==
    \/ device[i] \in {Idling("none"), Idling("other")}
    \/ /\ device[i].runs = "own"
       /\ device[i].profile \in DOMAIN profiles[i]
       /\ device[i].settings \subseteq Settings

TInv ==
    /\ profiles \in [Ifaces -> Seq(Profiles)]
    /\ device = [i \in Ifaces |-> device[i]]
    /\ \A i \in Ifaces : DeviceSound(i)
    /\ task \in [Handlers -> {Idle} \cup Tasks]
    /\ \A h \in Handlers : TaskSound(h)
    /\ requests \in 0..MaxRequests
    /\ granted \in [Ifaces -> SUBSET Items]
    /\ failed \in [Ifaces -> BOOLEAN]

\* Where a request will bring the connection up, or be refused.
Working == {"skip", "show", "add", "modify", "up"}

\* A profile that is stored and not in force has a request at work on the
\* interface that will bring it up, or fail.
WillBeUp(i) ==
    \/ failed[i]
    \/ DOMAIN profiles[i] = {}
    \/ \E p \in DOMAIN profiles[i] : device[i] = Running(i, p)
    \/ \E h \in Handlers : /\ task[h] # Idle /\ task[h].iface = i
                           /\ task[h].pc \in Working

\* What a request will grant is stored, or still to be, or was skipped.
Kept(h) ==
    task[h] # Idle =>
        \A x \in task[h].grants \ Unparsed :
            x \in ToSet(task[h].items) \/ x \in StoredAt(task[h].iface)

\* What a deletion deletes nobody was granted, and nobody will be.
Uncontested(d) ==
    task[d] # Idle /\ task[d].op[1] = "delete" =>
        /\ task[d].drops \cap granted[task[d].iface] = {}
        /\ \A h \in Handlers :
             task[h] # Idle /\ task[h].iface = task[d].iface =>
                 task[h].grants \cap task[d].drops = {}

GInv == /\ TInv /\ GrantedIsStored
        /\ \A h \in Handlers : Kept(h) /\ Uncontested(h)

-----------------------------------------------------------------------------
(* Sequences *)

LEMMA HeadAndTail ==
  ASSUME NEW S, NEW s \in Seq(S), s # <<>>
  PROVE  /\ Head(s) \in S /\ Tail(s) \in Seq(S)
         /\ ToSet(s) = {Head(s)} \cup ToSet(Tail(s))
<1>1. Head(s) \in S /\ Tail(s) \in Seq(S) /\ Head(s) = s[1]
  OBVIOUS
<1>2. DOMAIN s = 1..Len(s) /\ DOMAIN Tail(s) = 1..(Len(s) - 1) /\ Len(s) \in Nat \ {0}
  OBVIOUS
<1>3. \A i \in 1..(Len(s) - 1) : Tail(s)[i] = s[i + 1]
  OBVIOUS
<1>4. \A i \in DOMAIN s : i = 1 \/ (i - 1 \in DOMAIN Tail(s) /\ s[i] = Tail(s)[i - 1])
  BY <1>2, <1>3
<1>5. \A i \in DOMAIN Tail(s) : i + 1 \in DOMAIN s /\ Tail(s)[i] = s[i + 1]
  BY <1>2, <1>3
<1>6. 1 \in DOMAIN s
  BY <1>2
<1>7. ToSet(s) \subseteq {Head(s)} \cup ToSet(Tail(s))
  <2>. SUFFICES ASSUME NEW i \in DOMAIN s
                PROVE  s[i] \in {Head(s)} \cup ToSet(Tail(s))
    BY DEF ToSet
  <2>. QED
    BY <1>1, <1>4 DEF ToSet
<1>8. {Head(s)} \cup ToSet(Tail(s)) \subseteq ToSet(s)
  BY <1>1, <1>5, <1>6 DEF ToSet
<1>. QED
  BY <1>1, <1>7, <1>8

LEMMA NoMembers == ToSet(<<>>) = {}
BY DEF ToSet

LEMMA Members ==
  ASSUME NEW S, NEW s \in Seq(S)
  PROVE  ToSet(s) \subseteq S
BY DEF ToSet

LEMMA ItemsType ==
  ASSUME NEW items \in SeqOf(Addrs \cup Unparsed, MaxItems)
  PROVE  items \in Seq(Addrs \cup Unparsed)
<1>1. PICK n \in 0..MaxItems : items \in [1..n -> Addrs \cup Unparsed]
  BY DEF SeqOf
<1>. QED
  BY <1>1, BoundsAssumption

-----------------------------------------------------------------------------
(* Steps of one request *)

\* u is the request t further on.
Same(t, u) ==
    /\ u.op = t.op /\ u.iface = t.iface
    /\ u.grants = t.grants /\ u.drops = t.drops

LEMMA TaskType ==
  ASSUME TInv, NEW h \in Handlers, task[h] # Idle
  PROVE  task[h] \in Tasks
BY DEF TInv

LEMMA BusyAt ==
  ASSUME TInv, NEW h \in Handlers, NEW pc \in Pcs, At(h, pc)
  PROVE  task[h] # Idle /\ task[h] \in Tasks /\ task[h].pc = pc
BY DEF TInv, At, Idle, Pcs

LEMMA NotIdle ==
  ASSUME NEW t \in Tasks
  PROVE  t # Idle
BY DEF Tasks, Idle, Pcs

LEMMA GotoStep ==
  ASSUME TInv, NEW h \in Handlers, task[h] \in Tasks, NEW pc \in Pcs, Goto(h, pc)
  PROVE  /\ task' \in [Handlers -> {Idle} \cup Tasks]
         /\ task'[h] \in Tasks /\ task'[h].pc = pc
         /\ task'[h].items = task[h].items /\ Same(task[h], task'[h])
         /\ \A g \in Handlers \ {h} : task'[g] = task[g]
<1>1. task'[h] = [task[h] EXCEPT !.pc = pc]
  BY DEF Goto, TInv
<1>2. task'[h] \in Tasks
  BY <1>1 DEF Tasks
<1>. QED
  BY <1>1, <1>2 DEF Goto, TInv, Tasks, Same

LEMMA CommandType ==
  ASSUME NEW op, NEW items
  PROVE  Command(op, items) \in {"up", "skip", "show", "modify"}
BY DEF Command, ItemCommand

LEMMA AdvanceStep ==
  ASSUME TInv, NEW h \in Handlers, task[h] \in Tasks, task[h].items # <<>>, Advance(h)
  PROVE  /\ task' \in [Handlers -> {Idle} \cup Tasks]
         /\ task'[h] \in Tasks /\ Same(task[h], task'[h])
         /\ task'[h].items = Tail(task[h].items)
         /\ task'[h].pc = Command(task[h].op, Tail(task[h].items))
         /\ \A g \in Handlers \ {h} : task'[g] = task[g]
<1>. DEFINE rest == Tail(task[h].items)
            next == Command(task[h].op, rest)
<1>1. task'[h] = [task[h] EXCEPT !.items = rest, !.pc = next]
  BY DEF Advance, TInv
<1>2. rest \in Seq(Items)
  BY HeadAndTail DEF Tasks
<1>3. next \in Pcs
  BY CommandType DEF Pcs
<1>. HIDE DEF rest, next
<1>4. task'[h] \in Tasks
  BY <1>1, <1>2, <1>3 DEF Tasks
<1>5. task' \in [Handlers -> {Idle} \cup Tasks] /\ \A g \in Handlers \ {h} : task'[g] = task[g]
  <2>1. task' = [task EXCEPT ![h] = task'[h]]
    BY DEF Advance, TInv
  <2>. QED
    BY <2>1, <1>4 DEF TInv
<1>. QED
  BY <1>1, <1>4, <1>5 DEF Tasks, Same, rest, next

\* Nothing else moved, and the request went on with the same items.
LEMMA SoundHere ==
  ASSUME TInv, NEW h \in Handlers, task[h] # Idle, Same(task[h], task'[h]),
         task'[h].items = task[h].items,
         Fits(task'[h].pc, task[h].op, task[h].items)
  PROVE  TaskSound(h)'
BY DEF TInv, TaskSound, Same

LEMMA SoundElsewhere ==
  ASSUME TInv, NEW h \in Handlers, NEW g \in Handlers \ {h}, task'[g] = task[g]
  PROVE  TaskSound(g)'
BY DEF TInv, TaskSound

\* The first command of a request, and the next one.
LEMMA CommandSound ==
  ASSUME NEW op, NEW items
  PROVE  Fits(Command(op, items), op, items)
BY DEF Fits, Command, ItemCommand

LEMMA AdvanceSound ==
  ASSUME TInv, NEW h \in Handlers, task[h] \in Tasks, task[h].items # <<>>, Advance(h)
  PROVE  TaskSound(h)'
<1>1. /\ Same(task[h], task'[h]) /\ task'[h].items = Tail(task[h].items)
      /\ task'[h].pc = Command(task[h].op, Tail(task[h].items))
  BY AdvanceStep
<1>2. TaskSound(h) /\ task[h] # Idle
  BY NotIdle DEF TInv
<1>3. ToSet(Tail(task[h].items)) \subseteq ToSet(task[h].items)
  BY HeadAndTail DEF Tasks
<1>4. task[h].op = <<"put", "interface">> => Tail(task[h].items) \in Seq(Addrs \cup Unparsed)
  BY <1>2, HeadAndTail DEF TaskSound
<1>5. Fits(task'[h].pc, task[h].op, Tail(task[h].items))
  BY <1>1, CommandSound
<1>. QED
  BY <1>1, <1>2, <1>3, <1>4, <1>5 DEF TaskSound, Same

-----------------------------------------------------------------------------
(* Types *)

LEMMA InitTypes == Init => TInv
<1>. SUFFICES ASSUME Init PROVE TInv
  OBVIOUS
<1>1. profiles \in [Ifaces -> Seq(Profiles)]
  BY DEF Init
<1>2. requests \in 0..MaxRequests
  BY BoundsAssumption DEF Init
<1>3. granted \in [Ifaces -> SUBSET Items] /\ failed \in [Ifaces -> BOOLEAN]
  BY DEF Init
<1>4. device = [i \in Ifaces |-> device[i]] /\ \A i \in Ifaces : DeviceSound(i)
  BY DEF Init, DeviceSound
<1>. QED
  BY <1>1, <1>2, <1>3, <1>4 DEF Init, TInv, TaskSound

LEMMA TypesImplied == TInv => TypeOK
<1>. SUFFICES ASSUME TInv PROVE TypeOK
  OBVIOUS
<1>1. \A i \in Ifaces : \A p \in DOMAIN profiles[i] :
        profiles[i][p] \subseteq Settings /\ profiles[i][p] \cap Addrs # {}
  <2>. SUFFICES ASSUME NEW i \in Ifaces, NEW p \in DOMAIN profiles[i]
                PROVE  profiles[i][p] \in Profiles
    BY DEF Profiles
  <2>. QED
    BY DEF TInv
<1>2. ASSUME NEW h \in Handlers, task[h] # Idle
      PROVE  /\ task[h].pc \in {"sent", "skip", "show", "add", "modify", "up",
                                "done", "refused"}
             /\ task[h].pc \in {"show", "add", "modify"} =>
                  task[h].items # <<>> /\ Head(task[h].items) \notin Unparsed
             /\ task[h].op \in Ops /\ task[h].iface \in Ifaces
             /\ task[h].items \in Seq(Items)
             /\ task[h].grants \subseteq Items /\ task[h].drops \subseteq Items
  <2>1. task[h] \in Tasks /\ TaskSound(h)
    BY <1>2 DEF TInv
  <2>. QED
    BY <1>2, <2>1 DEF Tasks, TaskSound, Fits, Pcs
<1>. QED
  BY <1>1, <1>2 DEF TInv, TypeOK, DeviceSound

\* The request a client sends, in the locals of its handler.
Sent(op, i, items) ==
    [pc |-> "sent", op |-> op, iface |-> i, items |-> items,
     grants |-> IF op[1] = "put" THEN ToSet(items) \ Contested(i) ELSE {},
     drops |-> IF op[1] = "put" THEN {} ELSE ToSet(items)]

\* What becomes of a request when the items of a deletion are taken from it.
Without(t, items) == [t EXCEPT !.grants = @ \ ToSet(items)]

\* A deletion takes its items from what others will grant.
LEMMA BeginStep ==
  ASSUME TInv, NEW h \in Handlers, NEW op \in Ops, NEW i \in Ifaces,
         NEW items \in Seq(Items), Begin(h, op, i, items)
  PROVE  /\ task' \in [Handlers -> {Idle} \cup Tasks]
         /\ task'[h] = Sent(op, i, items) /\ Sent(op, i, items) \in Tasks
         /\ \A g \in Handlers \ {h} :
              \/ task'[g] = task[g] /\ (op[1] = "put" \/ task[g] = Idle \/ task[g].iface # i)
              \/ /\ task[g] \in Tasks /\ task[g].iface = i /\ op[1] # "put"
                 /\ task'[g] = Without(task[g], items)
         /\ op[1] = "put" => UNCHANGED granted
         /\ op[1] # "put" => granted' = [granted EXCEPT ![i] = @ \ ToSet(items)]
         /\ UNCHANGED <<profiles, device, failed>> /\ requests' \in 0..MaxRequests
<1>1. Sent(op, i, items) \in Tasks
  <2>1. ToSet(items) \subseteq Items
    BY Members
  <2>2. /\ (IF op[1] = "put" THEN ToSet(items) \ Contested(i) ELSE {}) \in SUBSET Items
        /\ (IF op[1] = "put" THEN {} ELSE ToSet(items)) \in SUBSET Items
    BY <2>1
  <2>. HIDE DEF Contested
  <2>. QED
    BY <2>2 DEF Sent, Tasks, Pcs
<1>2. CASE op[1] = "put"
  <2>1. task' = [task EXCEPT ![h] = Sent(op, i, items)] /\ UNCHANGED granted
    BY <1>2 DEF Begin, Sent
  <2>. QED
    BY <1>1, <1>2, <2>1, BoundsAssumption DEF Begin, TInv
<1>3. CASE op[1] # "put"
  <2>1. /\ task' = [g \in Handlers |->
                     CASE g = h -> Sent(op, i, items)
                       [] g \in Busy(i) ->
                            [task[g] EXCEPT !.grants = @ \ ToSet(items)]
                       [] OTHER -> task[g]]
        /\ granted' = [granted EXCEPT ![i] = @ \ ToSet(items)]
    BY <1>3 DEF Begin, Sent
  <2>2. h \notin Busy(i)
    BY DEF Begin, Busy
  <2>3. \A g \in Busy(i) : /\ task[g] \in Tasks /\ g \in Handlers /\ task[g].iface = i
                           /\ Without(task[g], items) \in Tasks
    <3>. SUFFICES ASSUME NEW g \in Busy(i)
                  PROVE  /\ task[g] \in Tasks /\ g \in Handlers /\ task[g].iface = i
                         /\ Without(task[g], items) \in Tasks
      OBVIOUS
    <3>1. task[g] \in Tasks /\ g \in Handlers /\ task[g].iface = i
      BY DEF Busy, TInv
    <3>. QED
      BY <3>1 DEF Tasks, Without
  <2>4. \A g \in Handlers : g \notin Busy(i) => task[g] = Idle \/ task[g].iface # i
    BY DEF Busy
  <2>5. task'[h] = Sent(op, i, items)
    BY <2>1, <2>2
  <2>6. \A g \in Handlers \ {h} :
          /\ g \in Busy(i) => task'[g] = Without(task[g], items)
          /\ g \notin Busy(i) => task'[g] = task[g]
    BY <2>1 DEF Without
  <2>7. task' \in [Handlers -> {Idle} \cup Tasks]
    <3>1. \A g \in Handlers : task'[g] \in {Idle} \cup Tasks
      BY <1>1, <2>3, <2>5, <2>6 DEF TInv
    <3>. QED
      BY <2>1, <3>1
  <2>8. UNCHANGED <<profiles, device, failed>> /\ requests' \in 0..MaxRequests
    BY BoundsAssumption DEF Begin, TInv
  <2>. QED
    BY <1>1, <1>3, <2>1, <2>3, <2>4, <2>5, <2>6, <2>7, <2>8
<1>. QED
  BY <1>2, <1>3

\* What clients may ask for.
Request(op, items) ==
    \/ op[2] = "interface" /\ items \in SeqOf(Addrs \cup Unparsed, MaxItems)
    \/ op[2] = "route" /\ \E r \in Routes \cup Unparsed : items = <<r>>

LEMMA RequestType ==
  ASSUME NEW op \in Ops, NEW items, Request(op, items)
  PROVE  /\ items \in Seq(Items)
         /\ op = <<"put", "interface">> => items \in Seq(Addrs \cup Unparsed)
<1>1. CASE op[2] = "interface" /\ items \in SeqOf(Addrs \cup Unparsed, MaxItems)
  <2>1. items \in Seq(Addrs \cup Unparsed)
    BY <1>1, ItemsType
  <2>. QED
    BY <2>1 DEF Settings, Items
<1>2. CASE op[2] = "route" /\ \E r \in Routes \cup Unparsed : items = <<r>>
  BY <1>2 DEF Settings, Items
<1>. QED
  BY <1>1, <1>2 DEF Request

LEMMA BeginTypes ==
  ASSUME TInv, NEW h \in Handlers, NEW op \in Ops, NEW i \in Ifaces,
         NEW items, Request(op, items), Begin(h, op, i, items)
  PROVE  TInv'
<1>1. /\ items \in Seq(Items)
      /\ op = <<"put", "interface">> => items \in Seq(Addrs \cup Unparsed)
  BY RequestType
<1>2. TaskSound(h)'
  <2>1. task'[h] = Sent(op, i, items)
    BY <1>1, BeginStep
  <2>2. op[1] = "delete" => op[1] # "put"
    OBVIOUS
  <2>. QED
    BY <1>1, <2>1, <2>2 DEF TaskSound, Sent, Fits
<1>3. ASSUME NEW g \in Handlers \ {h} PROVE TaskSound(g)'
  <2>1. CASE task'[g] = task[g]
    BY <2>1, SoundElsewhere
  <2>2. CASE task[g] \in Tasks /\ task'[g] = Without(task[g], items)
    <3>1. /\ task'[g].pc = task[g].pc /\ task'[g].op = task[g].op
          /\ task'[g].items = task[g].items /\ task'[g].drops = task[g].drops
          /\ task'[g].grants = task[g].grants \ ToSet(items)
      BY <2>2 DEF Tasks, Without
    <3>2. task[g] # Idle /\ TaskSound(g)
      BY <2>2, NotIdle DEF TInv
    <3>. QED
      BY <3>1, <3>2 DEF TaskSound
  <2>. QED
    BY <1>1, <2>1, <2>2, BeginStep
<1>4. granted' \in [Ifaces -> SUBSET Items]
  <2>1. granted' = granted \/ granted' = [granted EXCEPT ![i] = @ \ ToSet(items)]
    BY <1>1, BeginStep
  <2>. QED
    BY <2>1 DEF TInv
<1>5. /\ task' \in [Handlers -> {Idle} \cup Tasks] /\ requests' \in 0..MaxRequests
      /\ UNCHANGED <<profiles, device, failed>>
  BY <1>1, BeginStep
<1>. QED
  BY <1>2, <1>3, <1>4, <1>5 DEF TInv, DeviceSound

LEMMA TimeoutStep ==
  ASSUME TInv, NEW h \in Handlers, Timeout(h)
  PROVE  /\ task' \in [Handlers -> {Idle} \cup Tasks] /\ task[h] # Idle
         /\ task'[h] \in Tasks /\ task'[h].pc = task[h].pc
         /\ task'[h].items = task[h].items /\ task'[h].drops = task[h].drops
         /\ task'[h].op = task[h].op /\ task'[h].iface = task[h].iface
         /\ task'[h].grants = {}
         /\ \A g \in Handlers \ {h} : task'[g] = task[g]
<1>1. task[h] # Idle /\ task' = [task EXCEPT ![h].grants = {}]
  BY DEF Timeout
<1>2. task[h] \in Tasks
  BY <1>1, TaskType
<1>3. task'[h] = [task[h] EXCEPT !.grants = {}]
  BY <1>1 DEF TInv
<1>4. task'[h] \in Tasks
  BY <1>2, <1>3 DEF Tasks
<1>. QED
  BY <1>1, <1>2, <1>3, <1>4 DEF TInv, Tasks

LEMMA EndStep ==
  ASSUME TInv, NEW h \in Handlers, task' = [task EXCEPT ![h] = Idle]
  PROVE  /\ task' \in [Handlers -> {Idle} \cup Tasks] /\ task'[h] = Idle
         /\ \A g \in Handlers \ {h} : task'[g] = task[g]
BY DEF TInv

\* A step of handler h keeps the types if its locals and what it stores do.
LEMMA HandlerTypes ==
  ASSUME TInv, NEW h \in Handlers, task' \in [Handlers -> {Idle} \cup Tasks],
         TaskSound(h)', \A g \in Handlers \ {h} : task'[g] = task[g],
         profiles' \in [Ifaces -> Seq(Profiles)],
         device' = [i \in Ifaces |-> device'[i]],
         \A i \in Ifaces : DeviceSound(i)',
         UNCHANGED requests, granted' \in [Ifaces -> SUBSET Items],
         failed' \in [Ifaces -> BOOLEAN]
  PROVE  TInv'
BY SoundElsewhere DEF TInv

LEMMA SameDevices ==
  ASSUME TInv, UNCHANGED <<profiles, device>>
  PROVE  /\ profiles' \in [Ifaces -> Seq(Profiles)]
         /\ device' = [i \in Ifaces |-> device'[i]]
         /\ \A i \in Ifaces : DeviceSound(i)'
BY DEF TInv, DeviceSound

LEMMA RefuseTypes ==
  ASSUME TInv, NEW h \in Handlers, task[h] \in Tasks, Refuse(h),
         UNCHANGED <<device, requests, granted>>
  PROVE  TInv'
<1>1. task[h] # Idle
  BY NotIdle
<1>2. /\ task' \in [Handlers -> {Idle} \cup Tasks] /\ task'[h].pc = "refused"
      /\ task'[h].items = task[h].items /\ Same(task[h], task'[h])
      /\ \A g \in Handlers \ {h} : task'[g] = task[g]
  BY GotoStep DEF Refuse, Pcs
<1>3. TaskSound(h)'
  BY <1>1, <1>2, SoundHere DEF Fits
<1>4. failed' \in [Ifaces -> BOOLEAN]
  BY DEF Refuse, TInv
<1>. QED
  BY <1>2, <1>3, <1>4, SameDevices, HandlerTypes DEF Refuse, TInv

\* What Accept does to the request.
LEMMA AcceptStep ==
  ASSUME TInv, NEW h \in Handlers, Accept(h)
  PROVE  /\ task[h] # Idle /\ task[h] \in Tasks /\ task[h].pc = "sent"
         /\ \E pc \in Working \cup {"refused"} :
              Goto(h, pc) /\ Fits(pc, task[h].op, task[h].items)
<1>. DEFINE next == Command(task[h].op, task[h].items)
<1>1. task[h] # Idle /\ task[h] \in Tasks /\ task[h].pc = "sent"
  BY BusyAt DEF Accept, Pcs
<1>2. next \in Working /\ Fits(next, task[h].op, task[h].items)
  BY CommandType, CommandSound DEF Working
<1>3. Fits("refused", task[h].op, task[h].items)
  BY DEF Fits
<1>. HIDE DEF next
<1>4. Goto(h, next) \/ Goto(h, "refused")
  BY DEF Accept, next
<1>. QED
  BY <1>1, <1>2, <1>3, <1>4

LEMMA AcceptTypes ==
  ASSUME TInv, NEW h \in Handlers, Accept(h)
  PROVE  TInv'
<1>1. task[h] # Idle /\ task[h] \in Tasks
  BY AcceptStep
<1>2. PICK pc \in Pcs : Goto(h, pc) /\ Fits(pc, task[h].op, task[h].items)
  BY AcceptStep DEF Pcs, Working
<1>3. /\ task' \in [Handlers -> {Idle} \cup Tasks]
      /\ task'[h].pc = pc
      /\ task'[h].items = task[h].items /\ Same(task[h], task'[h])
      /\ \A g \in Handlers \ {h} : task'[g] = task[g]
  BY <1>1, <1>2, GotoStep
<1>4. TaskSound(h)'
  BY <1>1, <1>2, <1>3, SoundHere
<1>. QED
  BY <1>3, <1>4, SameDevices, HandlerTypes DEF Accept, TInv

LEMMA SkipTypes ==
  ASSUME TInv, NEW h \in Handlers, Skip(h)
  PROVE  TInv' /\ task[h] \in Tasks /\ task[h].items # <<>> /\ Head(task[h].items) \in Unparsed
<1>1. task[h] # Idle /\ task[h] \in Tasks /\ task[h].pc = "skip"
  BY BusyAt DEF Skip, Pcs
<1>2. task[h].items # <<>> /\ Head(task[h].items) \in Unparsed
  BY <1>1 DEF TInv, TaskSound, Fits
<1>3. /\ task' \in [Handlers -> {Idle} \cup Tasks] /\ TaskSound(h)'
      /\ \A g \in Handlers \ {h} : task'[g] = task[g]
  BY <1>1, <1>2, AdvanceStep, AdvanceSound DEF Skip
<1>. QED
  BY <1>1, <1>2, <1>3, SameDevices, HandlerTypes DEF Skip, TInv

LEMMA ShowTypes ==
  ASSUME TInv, NEW h \in Handlers, Show(h)
  PROVE  TInv'
<1>1. task[h] # Idle /\ task[h] \in Tasks /\ task[h].pc = "show"
  BY BusyAt DEF Show, Pcs
<1>2. CASE Refuse(h)
  BY <1>1, <1>2, RefuseTypes DEF Show
<1>3. ASSUME NEW pc \in {"add", "modify"}, Goto(h, pc), UNCHANGED <<profiles, failed>>
      PROVE  TInv'
  <2>1. /\ task' \in [Handlers -> {Idle} \cup Tasks] /\ task'[h].pc = pc
        /\ task'[h].items = task[h].items /\ Same(task[h], task'[h])
        /\ \A g \in Handlers \ {h} : task'[g] = task[g]
    BY <1>1, <1>3, GotoStep DEF Pcs
  <2>2. Fits(pc, task[h].op, task[h].items)
    BY <1>1, <1>3 DEF TInv, TaskSound, Fits
  <2>3. TaskSound(h)'
    BY <1>1, <2>1, <2>2, SoundHere
  <2>. QED
    BY <1>3, <2>1, <2>3, SameDevices, HandlerTypes DEF Show, TInv
<1>. QED
  BY <1>2, <1>3 DEF Show

\* A profile is added to those of an interface, or one is replaced.
LEMMA StoreStep ==
  ASSUME TInv, NEW i \in Ifaces, NEW stored \in Seq(Profiles),
         DOMAIN profiles[i] \subseteq DOMAIN stored,
         profiles' = [profiles EXCEPT ![i] = stored], UNCHANGED device
  PROVE  /\ profiles' \in [Ifaces -> Seq(Profiles)]
         /\ device' = [j \in Ifaces |-> device'[j]]
         /\ \A j \in Ifaces : DeviceSound(j)'
<1>1. profiles' \in [Ifaces -> Seq(Profiles)] /\ device' = [j \in Ifaces |-> device'[j]]
  BY DEF TInv
<1>2. \A j \in Ifaces : DOMAIN profiles[j] \subseteq DOMAIN profiles'[j]
  BY DEF TInv
<1>. QED
  BY <1>1, <1>2 DEF TInv, DeviceSound

LEMMA AppendProfile ==
  ASSUME NEW s \in Seq(Profiles), NEW x \in Profiles
  PROVE  /\ Append(s, x) \in Seq(Profiles)
         /\ DOMAIN s \subseteq DOMAIN Append(s, x)
         /\ \A p \in DOMAIN s : Append(s, x)[p] = s[p]
         /\ \E p \in DOMAIN Append(s, x) : Append(s, x)[p] = x
<1>1. Append(s, x)[Len(s) + 1] = x /\ Len(s) + 1 \in DOMAIN Append(s, x)
  OBVIOUS
<1>. QED
  BY <1>1

LEMMA ChangeProfile ==
  ASSUME NEW s \in Seq(Profiles), NEW p \in DOMAIN s, NEW x \in Profiles
  PROVE  /\ [s EXCEPT ![p] = x] \in Seq(Profiles)
         /\ DOMAIN [s EXCEPT ![p] = x] = DOMAIN s
         /\ [s EXCEPT ![p] = x][p] = x
         /\ \A q \in DOMAIN s \ {p} : [s EXCEPT ![p] = x][q] = s[q]
OBVIOUS

\* What Add stores: an address of its own.
LEMMA AddStores ==
  ASSUME TInv, NEW h \in Handlers, Add(h), ~ Refuse(h)
  PROVE  /\ task[h] # Idle /\ task[h] \in Tasks /\ task[h].items # <<>> /\ Advance(h)
         /\ task[h].op = <<"put", "interface">>
         /\ {Head(task[h].items)} \in Profiles
         /\ profiles' = [profiles EXCEPT ![task[h].iface] =
                           Append(profiles[task[h].iface], {Head(task[h].items)})]
         /\ profiles[task[h].iface] \in Seq(Profiles) /\ task[h].iface \in Ifaces
         /\ UNCHANGED <<device, requests, granted, failed>>
<1>1. task[h] # Idle /\ task[h] \in Tasks /\ task[h].pc = "add"
  BY BusyAt DEF Add, Pcs
<1>2. /\ task[h].items # <<>> /\ task[h].op = <<"put", "interface">>
      /\ task[h].items \in Seq(Addrs \cup Unparsed) /\ Head(task[h].items) \notin Unparsed
  BY <1>1 DEF TInv, TaskSound, Fits
<1>3. Head(task[h].items) \in Addrs
  BY <1>2, HeadAndTail
<1>4. {Head(task[h].items)} \in Profiles
  BY <1>3 DEF Profiles, Settings
<1>5. task[h].iface \in Ifaces
  BY <1>1 DEF Tasks
<1>. QED
  BY <1>1, <1>2, <1>4, <1>5 DEF Add, TInv

\* What Modify stores, in some profile.
LEMMA ModifyStores ==
  ASSUME TInv, NEW h \in Handlers, Modify(h), ~ Refuse(h)
  PROVE  /\ task[h] # Idle /\ task[h] \in Tasks /\ task[h].items # <<>> /\ Advance(h)
         /\ profiles[task[h].iface] \in Seq(Profiles) /\ task[h].iface \in Ifaces
         /\ \E p \in DOMAIN profiles[task[h].iface], x \in Profiles :
              /\ x = Modified(profiles[task[h].iface][p], task[h].op, Head(task[h].items))
              /\ profiles' = [profiles EXCEPT ![task[h].iface] =
                                [profiles[task[h].iface] EXCEPT ![p] = x]]
         /\ UNCHANGED <<device, requests, granted, failed>>
<1>. DEFINE i == task[h].iface
            New(p) == Modified(profiles[i][p], task[h].op, Head(task[h].items))
<1>1. task[h] # Idle /\ task[h] \in Tasks /\ task[h].pc = "modify"
  BY BusyAt DEF Modify, Pcs
<1>2. task[h].items # <<>> /\ Head(task[h].items) \notin Unparsed
  BY <1>1 DEF TInv, TaskSound, Fits
<1>3. i \in Ifaces /\ profiles[i] \in Seq(Profiles)
  BY <1>1 DEF Tasks, TInv
<1>4. Head(task[h].items) \in Settings
  BY <1>1, <1>2, HeadAndTail DEF Tasks, Items
<1>5. PICK p \in DOMAIN profiles[i] :
        /\ Accepted(New(p))
        /\ profiles' = [profiles EXCEPT ![i][p] = New(p)]
        /\ Advance(h) /\ UNCHANGED failed
  BY DEF Modify
<1>6. profiles[i][p] \in Profiles
  BY <1>3
<1>7. New(p) \in Profiles
  BY <1>4, <1>5, <1>6 DEF Modified, Accepted, Profiles
<1>8. profiles' = [profiles EXCEPT ![i] = [profiles[i] EXCEPT ![p] = New(p)]]
  BY <1>5
<1>9. UNCHANGED <<device, requests, granted, failed>>
  BY <1>5 DEF Modify
<1>. QED
  BY <1>1, <1>2, <1>3, <1>5, <1>7, <1>8, <1>9

LEMMA StoreTypes ==
  ASSUME TInv, NEW h \in Handlers, Add(h) \/ Modify(h)
  PROVE  TInv'
<1>1. CASE Refuse(h)
  <2>1. task[h] \in Tasks
    BY BusyAt DEF Add, Modify, Pcs
  <2>. QED
    BY <1>1, <2>1, RefuseTypes DEF Add, Modify
<1>2. CASE ~ Refuse(h)
  <2>1. /\ task[h] # Idle /\ task[h] \in Tasks /\ task[h].items # <<>> /\ Advance(h)
        /\ UNCHANGED <<device, requests, granted, failed>>
    BY <1>2, AddStores, ModifyStores
  <2>2. \E i \in Ifaces, stored \in Seq(Profiles) :
          /\ DOMAIN profiles[i] \subseteq DOMAIN stored
          /\ profiles' = [profiles EXCEPT ![i] = stored]
    <3>1. CASE Add(h)
      BY <1>2, <3>1, AddStores, AppendProfile
    <3>2. CASE Modify(h)
      BY <1>2, <3>2, ModifyStores, ChangeProfile
    <3>. QED
      BY <3>1, <3>2
  <2>3. /\ profiles' \in [Ifaces -> Seq(Profiles)]
        /\ device' = [j \in Ifaces |-> device'[j]]
        /\ \A j \in Ifaces : DeviceSound(j)'
    BY <2>1, <2>2, StoreStep
  <2>4. /\ task' \in [Handlers -> {Idle} \cup Tasks] /\ TaskSound(h)'
        /\ \A g \in Handlers \ {h} : task'[g] = task[g]
    BY <2>1, AdvanceStep, AdvanceSound
  <2>. QED
    BY <2>1, <2>3, <2>4, HandlerTypes DEF TInv
<1>. QED
  BY <1>1, <1>2

\* What a device runs after a profile was brought up.
LEMMA RunningType ==
  ASSUME TInv, NEW i \in Ifaces, NEW p \in DOMAIN profiles[i]
  PROVE  /\ Running(i, p).runs = "own" /\ Running(i, p).profile = p
         /\ Running(i, p).settings = profiles[i][p]
         /\ profiles[i][p] \subseteq Settings
<1>1. profiles[i][p] \in Profiles
  BY DEF TInv
<1>. QED
  BY <1>1 DEF Running, Profiles

LEMMA DeviceStep ==
  ASSUME TInv, UNCHANGED profiles, NEW i \in Ifaces,
         \/ UNCHANGED device
         \/ device' = [device EXCEPT ![i] = Idling("none")]
         \/ \E p \in DOMAIN profiles[i] : device' = [device EXCEPT ![i] = Running(i, p)]
  PROVE  /\ device' = [j \in Ifaces |-> device'[j]]
         /\ \A j \in Ifaces : DeviceSound(j)'
<1>1. CASE UNCHANGED device
  BY <1>1, SameDevices
<1>2. CASE device' = [device EXCEPT ![i] = Idling("none")]
  <2>1. device'[i] = Idling("none") /\ \A j \in Ifaces \ {i} : device'[j] = device[j]
    BY <1>2 DEF TInv
  <2>2. device' = [j \in Ifaces |-> device'[j]]
    BY <1>2 DEF TInv
  <2>. QED
    BY <2>1, <2>2 DEF TInv, DeviceSound
<1>3. ASSUME NEW p \in DOMAIN profiles[i], device' = [device EXCEPT ![i] = Running(i, p)]
      PROVE  /\ device' = [j \in Ifaces |-> device'[j]]
             /\ \A j \in Ifaces : DeviceSound(j)'
  <2>1. device'[i] = Running(i, p) /\ \A j \in Ifaces \ {i} : device'[j] = device[j]
    BY <1>3 DEF TInv
  <2>2. device' = [j \in Ifaces |-> device'[j]]
    BY <1>3 DEF TInv
  <2>. QED
    BY <1>3, <2>1, <2>2, RunningType DEF TInv, DeviceSound
<1>. QED
  BY <1>1, <1>2, <1>3

LEMMA UpTypes ==
  ASSUME TInv, NEW h \in Handlers, Up(h)
  PROVE  TInv'
<1>1. task[h] # Idle /\ task[h] \in Tasks /\ task[h].pc = "up"
  BY BusyAt DEF Up, Pcs
<1>2. task[h].iface \in Ifaces
  BY <1>1 DEF Tasks
<1>3. /\ task' \in [Handlers -> {Idle} \cup Tasks] /\ task'[h].pc = "done"
      /\ task'[h].items = task[h].items /\ Same(task[h], task'[h])
      /\ \A g \in Handlers \ {h} : task'[g] = task[g]
  BY <1>1, GotoStep DEF Up, Pcs
<1>4. Fits("done", task[h].op, task[h].items)
  BY <1>1 DEF TInv, TaskSound, Fits
<1>5. TaskSound(h)'
  BY <1>1, <1>3, <1>4, SoundHere
<1>6. /\ device' = [j \in Ifaces |-> device'[j]]
      /\ \A j \in Ifaces : DeviceSound(j)'
  BY <1>2, DeviceStep DEF Up
<1>7. failed' \in [Ifaces -> BOOLEAN]
  BY DEF Up, TInv
<1>. QED
  BY <1>3, <1>5, <1>6, <1>7, HandlerTypes DEF Up, TInv

LEMMA TimeoutTypes ==
  ASSUME TInv, NEW h \in Handlers, Timeout(h)
  PROVE  TInv'
<1>1. /\ task' \in [Handlers -> {Idle} \cup Tasks]
      /\ \A g \in Handlers \ {h} : task'[g] = task[g]
  BY TimeoutStep
<1>2. TaskSound(h)'
  BY TimeoutStep DEF TInv, TaskSound
<1>. QED
  BY <1>1, <1>2, SameDevices, HandlerTypes DEF Timeout, TInv

LEMMA EndTypes ==
  ASSUME TInv, NEW h \in Handlers, Undelivered(h) \/ Answer(h)
  PROVE  TInv'
<1>1. /\ task' \in [Handlers -> {Idle} \cup Tasks] /\ task'[h] = Idle
      /\ \A g \in Handlers \ {h} : task'[g] = task[g]
  BY EndStep DEF Undelivered, Answer
<1>2. TaskSound(h)'
  BY <1>1 DEF TaskSound
<1>3. granted' \in [Ifaces -> SUBSET Items]
  <2>1. CASE Undelivered(h)
    BY <2>1 DEF Undelivered, TInv
  <2>2. CASE Answer(h)
    <3>1. task[h] \in Tasks
      BY <2>2 DEF Answer, At, TInv, Idle
    <3>2. task[h].grants \subseteq Items
      BY <3>1 DEF Tasks
    <3>. QED
      BY <2>2, <3>2 DEF Answer, TInv
  <2>. QED
    BY <2>1, <2>2
<1>4. UNCHANGED <<profiles, device, requests, failed>>
  BY DEF Undelivered, Answer
<1>. QED
  BY <1>1, <1>2, <1>3, <1>4, SameDevices, HandlerTypes DEF TInv

LEMMA AutoconnectTypes ==
  ASSUME TInv, NEW i \in Ifaces, Autoconnect(i)
  PROVE  TInv'
<1>1. /\ device' = [j \in Ifaces |-> device'[j]]
      /\ \A j \in Ifaces : DeviceSound(j)'
  BY DeviceStep DEF Autoconnect
<1>2. failed' \in [Ifaces -> BOOLEAN]
  BY DEF Autoconnect, TInv
<1>. QED
  BY <1>1, <1>2 DEF Autoconnect, TInv, TaskSound

\* The end of the agent ends requests and starts none.
LEMMA CrashStep ==
  ASSUME TInv, Crash
  PROVE  /\ \A h \in Handlers :
              /\ task'[h] = Idle \/ task'[h] = task[h]
              /\ task[h] # Idle /\ task[h].pc \in Working =>
                   task[h].iface \in Ifaces /\ failed'[task[h].iface]
         /\ \A i \in Ifaces : failed[i] => failed'[i]
         /\ UNCHANGED <<profiles, device, requests, granted>>
<1>1. ASSUME NEW h \in Handlers, task[h] # Idle, task[h].pc \in Working
      PROVE  task[h].iface \in Ifaces /\ failed'[task[h].iface]
  <2>1. task[h].iface \in Ifaces
    BY <1>1, TaskType DEF Tasks
  <2>. QED
    BY <1>1, <2>1 DEF Crash, Working
<1>. QED
  BY <1>1 DEF Crash

LEMMA CrashTypes ==
  ASSUME TInv, Crash
  PROVE  TInv'
<1>1. failed' \in [Ifaces -> BOOLEAN]
  BY DEF Crash, TInv
<1>2. task' \in [Handlers -> {Idle} \cup Tasks]
  BY DEF Crash, TInv
<1>3. ASSUME NEW h \in Handlers PROVE TaskSound(h)'
  BY CrashStep DEF TaskSound, TInv
<1>4. UNCHANGED <<profiles, device, requests, granted>>
  BY DEF Crash
<1>. QED
  BY <1>1, <1>2, <1>3, <1>4, SameDevices DEF TInv

\* The requests REST clients make.
LEMMA Begins ==
  ASSUME NEW h \in Handlers,
         \/ PutConfigInterfaces(h) \/ DeleteConfigInterfaces(h)
         \/ PutConfigRoutes(h) \/ DeleteConfigRoutes(h)
  PROVE  \E op \in Ops, i \in Ifaces : \E items :
             Request(op, items) /\ Begin(h, op, i, items)
<1>1. \A v \in {"put", "delete"}, o \in {"interface", "route"} :
        <<v, o>> \in Ops /\ <<v, o>>[2] = o
  BY DEF Ops
<1>2. ASSUME NEW v \in {"put", "delete"}, NEW i \in Ifaces,
             NEW items \in SeqOf(Addrs \cup Unparsed, MaxItems), Begin(h, <<v, "interface">>, i, items)
      PROVE  \E op \in Ops, j \in Ifaces : \E its :
                  Request(op, its) /\ Begin(h, op, j, its)
  BY <1>1, <1>2 DEF Request
<1>3. ASSUME NEW v \in {"put", "delete"}, NEW i \in Ifaces,
             NEW r \in Routes \cup Unparsed, Begin(h, <<v, "route">>, i, <<r>>)
      PROVE  \E op \in Ops, j \in Ifaces : \E its :
                  Request(op, its) /\ Begin(h, op, j, its)
  BY <1>1, <1>3 DEF Request
<1>. QED
  BY <1>2, <1>3 DEF PutConfigInterfaces, DeleteConfigInterfaces,
                    PutConfigRoutes, DeleteConfigRoutes

LEMMA NextTypes == TInv /\ [Next]_vars => TInv'
<1>. SUFFICES ASSUME TInv, [Next]_vars PROVE TInv'
  OBVIOUS
<1>1. ASSUME NEW h \in Handlers,
             \/ PutConfigInterfaces(h) \/ DeleteConfigInterfaces(h)
             \/ PutConfigRoutes(h) \/ DeleteConfigRoutes(h)
      PROVE  TInv'
  BY <1>1, Begins, BeginTypes
<1>2. ASSUME NEW h \in Handlers,
             \/ Timeout(h) \/ Undelivered(h) \/ Answer(h)
             \/ Accept(h) \/ Skip(h) \/ Show(h) \/ Add(h) \/ Modify(h) \/ Up(h)
      PROVE  TInv'
  BY <1>2, TimeoutTypes, EndTypes, AcceptTypes, SkipTypes, ShowTypes, StoreTypes, UpTypes
<1>3. ASSUME NEW i \in Ifaces, Autoconnect(i) PROVE TInv'
  BY <1>3, AutoconnectTypes
<1>4. CASE UNCHANGED vars
  BY <1>4 DEF vars, TInv, TaskSound, DeviceSound
<1>. QED
  BY <1>1, <1>2, <1>3, <1>4, CrashTypes DEF Next

\* Every variable keeps its type: the agent is never at a command without an
\* item that was parsed, and no device runs a profile that does not exist.
THEOREM TypeCorrect == Spec => []TypeOK
<1>. QED
  BY InitTypes, NextTypes, TypesImplied, PTL DEF Spec

-----------------------------------------------------------------------------
(* What is stored is in force *)

\* A step of handler h on its own interface; others keep their device, their
\* profiles and their requests.
LEMMA OthersWillBeUp ==
  ASSUME NEW i \in Ifaces, WillBeUp(i), UNCHANGED <<profiles[i], device[i], failed[i]>>,
         \A g \in Handlers :
             \/ task'[g] = task[g]
             \/ task[g] = Idle \/ task[g].iface # i
             \/ task[g].pc \notin Working
             \/ /\ task'[g] # Idle /\ task'[g].iface = i
                /\ task'[g].pc \in Working
  PROVE  WillBeUp(i)'
BY DEF WillBeUp, Running

LEMMA BeginUp ==
  ASSUME TInv, NEW h \in Handlers, NEW op \in Ops, NEW i \in Ifaces,
         NEW items \in Seq(Items), Begin(h, op, i, items),
         NEW j \in Ifaces, WillBeUp(j)
  PROVE  WillBeUp(j)'
<1>1. task[h] = Idle
  BY DEF Begin
<1>2. ASSUME NEW g \in Handlers \ {h}
      PROVE  \/ task'[g] = task[g]
             \/ /\ task'[g] # Idle /\ task'[g].iface = task[g].iface
                /\ task'[g].pc = task[g].pc
  <2>1. CASE task[g] \in Tasks /\ task'[g] = Without(task[g], items)
    <3>1. task'[g].iface = task[g].iface /\ task'[g].pc = task[g].pc
      BY <2>1 DEF Without, Tasks
    <3>2. task'[g] \in Tasks
      BY <2>1 DEF Without, Tasks
    <3>. QED
      BY <3>1, <3>2, NotIdle
  <2>. QED
    BY <2>1, BeginStep
<1>3. UNCHANGED <<profiles, device, failed>>
  BY BeginStep
<1>. QED
  BY <1>1, <1>2, <1>3, OthersWillBeUp

LEMMA NextUp ==
  ASSUME TInv, [Next]_vars, NEW j \in Ifaces, WillBeUp(j)
  PROVE  WillBeUp(j)'
<1>1. ASSUME NEW h \in Handlers,
             \/ PutConfigInterfaces(h) \/ DeleteConfigInterfaces(h)
             \/ PutConfigRoutes(h) \/ DeleteConfigRoutes(h)
      PROVE  WillBeUp(j)'
  BY <1>1, Begins, RequestType, BeginUp
<1>2. ASSUME NEW h \in Handlers, Timeout(h) PROVE WillBeUp(j)'
  BY <1>2, TimeoutStep, NotIdle, OthersWillBeUp DEF Timeout
<1>3. ASSUME NEW h \in Handlers, Undelivered(h) \/ Answer(h) PROVE WillBeUp(j)'
  <2>1. task[h].pc \notin Working /\ \A g \in Handlers \ {h} : task'[g] = task[g]
    BY <1>3, EndStep DEF Undelivered, Answer, At, Working
  <2>. QED
    BY <1>3, <2>1, OthersWillBeUp DEF Undelivered, Answer
<1>4. ASSUME NEW h \in Handlers, NEW pc \in Working, task[h] \in Tasks,
             Goto(h, pc), UNCHANGED <<profiles, device, failed>>
      PROVE  WillBeUp(j)'
  <2>1. /\ task'[h] \in Tasks /\ task'[h].pc = pc /\ task'[h].iface = task[h].iface
        /\ \A g \in Handlers \ {h} : task'[g] = task[g]
    BY <1>4, GotoStep DEF Pcs, Same, Working
  <2>. QED
    BY <1>4, <2>1, NotIdle, OthersWillBeUp
<1>5. ASSUME NEW h \in Handlers, task[h] \in Tasks, Refuse(h), UNCHANGED device
      PROVE  WillBeUp(j)'
  <2>1. /\ task[h].iface \in Ifaces /\ failed' = [failed EXCEPT ![task[h].iface] = TRUE]
        /\ UNCHANGED profiles
    BY <1>5 DEF Refuse, Tasks
  <2>2. \A g \in Handlers \ {h} : task'[g] = task[g]
    BY <1>5, GotoStep DEF Refuse, Pcs
  <2>3. CASE j = task[h].iface
    BY <2>1, <2>3 DEF WillBeUp, TInv
  <2>4. CASE j # task[h].iface
    BY <1>5, <2>1, <2>2, <2>4, OthersWillBeUp DEF TInv
  <2>. QED
    BY <2>3, <2>4
<1>6. ASSUME NEW h \in Handlers, Accept(h) PROVE WillBeUp(j)'
  <2>1. task[h] \in Tasks /\ task[h].pc \notin Working
    BY <1>6, AcceptStep DEF Working
  <2>2. PICK pc \in Pcs : Goto(h, pc)
    BY <1>6, AcceptStep DEF Working, Pcs
  <2>3. \A g \in Handlers \ {h} : task'[g] = task[g]
    BY <2>1, <2>2, GotoStep
  <2>. QED
    BY <1>6, <2>1, <2>3, OthersWillBeUp DEF Accept
<1>7. ASSUME NEW h \in Handlers, Show(h) PROVE WillBeUp(j)'
  <2>1. task[h] \in Tasks
    BY <1>7, BusyAt DEF Show, Pcs
  <2>. QED
    BY <1>4, <1>5, <1>7, <2>1 DEF Show, Working
<1>8. ASSUME NEW h \in Handlers, Add(h) \/ Modify(h) PROVE WillBeUp(j)'
  <2>1. CASE Refuse(h)
    <3>1. task[h] \in Tasks
      BY <1>8, BusyAt DEF Add, Modify, Pcs
    <3>. QED
      BY <1>5, <1>8, <2>1, <3>1 DEF Add, Modify
  <2>2. CASE ~ Refuse(h)
    <3>1. /\ task[h] \in Tasks /\ task[h].items # <<>> /\ Advance(h)
          /\ UNCHANGED <<device, failed>>
      BY <1>8, <2>2, AddStores, ModifyStores
    <3>2. /\ task'[h] \in Tasks /\ task'[h].iface = task[h].iface
          /\ task'[h].pc \in Working
          /\ \A g \in Handlers \ {h} : task'[g] = task[g]
      BY <3>1, AdvanceStep, CommandType DEF Same, Working
    <3>3. CASE j = task[h].iface
      BY <3>2, <3>3, NotIdle DEF WillBeUp
    <3>4. CASE j # task[h].iface
      <4>1. profiles'[j] = profiles[j]
        BY <1>8, <2>2, <3>4, AddStores, ModifyStores DEF TInv
      <4>. QED
        BY <3>1, <3>2, <3>4, <4>1, OthersWillBeUp
    <3>. QED
      BY <3>3, <3>4
  <2>. QED
    BY <2>1, <2>2
<1>9. ASSUME NEW h \in Handlers, Up(h) PROVE WillBeUp(j)'
  <2>1. task[h] \in Tasks
    BY <1>9, BusyAt DEF Up, Pcs
  <2>2. task[h].iface \in Ifaces
    BY <2>1 DEF Tasks
  <2>3. \A g \in Handlers \ {h} : task'[g] = task[g]
    BY <1>9, <2>1, GotoStep DEF Up, Pcs
  <2>4. CASE j = task[h].iface
    <3>1. ASSUME NEW p \in DOMAIN profiles[j],
                 device' = [device EXCEPT ![j] = Running(j, p)]
          PROVE  WillBeUp(j)'
      <4>1. device'[j] = Running(j, p) /\ UNCHANGED profiles
        BY <1>9, <3>1 DEF Up, TInv
      <4>. QED
        BY <4>1 DEF WillBeUp, Running
    <3>2. CASE failed' = [failed EXCEPT ![j] = TRUE]
      BY <3>2 DEF WillBeUp, TInv
    <3>. QED
      BY <1>9, <2>4, <3>1, <3>2 DEF Up
  <2>5. CASE j # task[h].iface
    <3>1. UNCHANGED <<profiles[j], device[j], failed[j]>>
      BY <1>9, <2>2, <2>5 DEF Up, TInv
    <3>. QED
      BY <2>3, <2>5, <3>1, OthersWillBeUp
  <2>. QED
    BY <2>4, <2>5
<1>10. ASSUME NEW i \in Ifaces, Autoconnect(i) PROVE WillBeUp(j)'
  <2>1. PICK p \in DOMAIN profiles[i] : device' = [device EXCEPT ![i] = Running(i, p)]
    BY <1>10 DEF Autoconnect
  <2>2. CASE j = i
    <3>1. device'[j] = Running(j, p) /\ UNCHANGED profiles
      BY <1>10, <2>1, <2>2 DEF Autoconnect, TInv
    <3>. QED
      BY <2>2, <3>1 DEF WillBeUp, Running
  <2>3. CASE j # i
    <3>1. UNCHANGED <<profiles[j], device[j], failed[j], task>>
      BY <1>10, <2>1, <2>3 DEF Autoconnect, TInv
    <3>. QED
      BY <3>1, OthersWillBeUp
  <2>. QED
    BY <2>2, <2>3
<1>11. CASE UNCHANGED vars
  BY <1>11, OthersWillBeUp DEF vars
<1>12. ASSUME NEW h \in Handlers, Skip(h) PROVE WillBeUp(j)'
  <2>1. task[h] \in Tasks /\ task[h].items # <<>>
    BY <1>12, SkipTypes
  <2>2. /\ task'[h] \in Tasks /\ task'[h].iface = task[h].iface
        /\ task'[h].pc \in Working
        /\ \A g \in Handlers \ {h} : task'[g] = task[g]
    BY <1>12, <2>1, AdvanceStep, CommandType DEF Skip, Same, Working
  <2>. QED
    BY <1>12, <2>2, NotIdle, OthersWillBeUp DEF Skip
<1>13. CASE Crash
  BY <1>13, CrashStep DEF WillBeUp, Running
<1>. QED
  BY <1>1, <1>2, <1>3, <1>6, <1>7, <1>8, <1>9, <1>10, <1>11, <1>12, <1>13 DEF Next

\* When no request is at work on an interface, its device runs a profile of
\* its name as it is stored, unless a command failed: for any number of
\* requests whose commands interleave in any order.
THEOREM StoredIsInForce == Spec => []InForce
<1>. DEFINE Inv == TInv /\ \A i \in Ifaces : WillBeUp(i)
<1>1. Init => Inv
  BY InitTypes DEF Init, WillBeUp
<1>2. Inv /\ [Next]_vars => Inv'
  BY NextTypes, NextUp
<1>3. Inv => InForce
  BY DEF WillBeUp, InForce, Busy
<1>. QED
  BY <1>1, <1>2, <1>3, PTL DEF Spec

-----------------------------------------------------------------------------
(* What was granted is stored *)

\* Request g goes on, and what it has dealt with is stored or was skipped; or
\* it is over.
Onward(g) ==
    \/ task'[g] = Idle
    \/ /\ task[g] # Idle
       /\ task'[g].op = task[g].op /\ task'[g].iface = task[g].iface
       /\ task'[g].drops = task[g].drops /\ task'[g].grants \subseteq task[g].grants
       /\ task[g].op[1] = "delete" \/
          \A x \in ToSet(task[g].items) \ Unparsed, i \in Ifaces :
              i = task[g].iface => x \in ToSet(task'[g].items) \/ x \in StoredAt(i)'

\* Only what a deletion is for is lost.
OnlyDeleted(i) ==
    \A x \in StoredAt(i) :
        \/ x \in StoredAt(i)'
        \/ \E d \in Handlers : /\ task[d] # Idle /\ task[d].op[1] = "delete"
                               /\ task[d].iface = i /\ x \in task[d].drops

LEMMA GrantedStays ==
  ASSUME GInv, TInv', UNCHANGED granted, \A g \in Handlers : Onward(g),
         \A i \in Ifaces : OnlyDeleted(i)
  PROVE  GInv'
<1>1. GrantedIsStored'
  <2>. SUFFICES ASSUME NEW i \in Ifaces, NEW x \in granted[i] \ Unparsed
                PROVE  x \in StoredAt(i)'
    BY DEF GrantedIsStored, StoredAt
  <2>1. x \in StoredAt(i)
    BY DEF GInv, GrantedIsStored, StoredAt
  <2>. QED
    BY <2>1 DEF GInv, OnlyDeleted, Uncontested
<1>2. ASSUME NEW g \in Handlers PROVE Kept(g)'
  <2>1. CASE task'[g] = Idle
    BY <2>1 DEF Kept
  <2>2. CASE task'[g] # Idle
    <3>1. /\ task[g] # Idle /\ task'[g].op = task[g].op /\ task'[g].iface = task[g].iface
          /\ task'[g].grants \subseteq task[g].grants
      BY <2>2 DEF Onward
    <3>2. PICK i \in Ifaces : i = task[g].iface
      BY <3>1, TaskType DEF GInv, Tasks
    <3>. SUFFICES ASSUME NEW x \in task[g].grants \ Unparsed, x \notin ToSet(task'[g].items)
                  PROVE  x \in StoredAt(i)'
      BY <3>1, <3>2 DEF Kept, StoredAt
    <3>3. task[g].op[1] # "delete"
      BY <3>1 DEF GInv, TInv, TaskSound
    <3>4. x \in ToSet(task[g].items) \/ x \in StoredAt(i)
      BY <3>1, <3>2 DEF GInv, Kept
    <3>5. CASE x \in ToSet(task[g].items)
      BY <2>2, <3>2, <3>3, <3>5 DEF Onward
    <3>6. CASE x \in StoredAt(i)
      BY <3>1, <3>2, <3>6 DEF GInv, OnlyDeleted, Uncontested
    <3>. QED
      BY <3>4, <3>5, <3>6
  <2>. QED
    BY <2>1, <2>2
<1>3. ASSUME NEW g \in Handlers PROVE Uncontested(g)'
  BY DEF GInv, Uncontested, Onward
<1>. QED
  BY <1>1, <1>2, <1>3 DEF GInv

\* Steps that leave what is stored as it is.
LEMMA SameStored ==
  ASSUME UNCHANGED profiles, NEW i \in Ifaces
  PROVE  OnlyDeleted(i)
BY DEF OnlyDeleted, StoredAt

\* The request of h is where it was, with the same items.
LEMMA SameItems ==
  ASSUME NEW g \in Handlers, task[g] # Idle,
         task'[g].op = task[g].op, task'[g].iface = task[g].iface,
         task'[g].drops = task[g].drops, task'[g].grants \subseteq task[g].grants,
         task'[g].items = task[g].items
  PROVE  Onward(g)
BY DEF Onward

LEMMA SameRequest ==
  ASSUME NEW g \in Handlers, task'[g] = task[g]
  PROVE  Onward(g)
BY DEF Onward

\* Add and Modify store the first item, and drop nothing but what is deleted.
LEMMA FirstIsStored ==
  ASSUME TInv, NEW h \in Handlers, Add(h) \/ Modify(h), ~ Refuse(h)
  PROVE  /\ \A i \in Ifaces : OnlyDeleted(i)
         /\ Onward(h)
<1>. DEFINE i == task[h].iface
            first == Head(task[h].items)
<1>1. /\ task[h] # Idle /\ task[h] \in Tasks /\ task[h].items # <<>> /\ Advance(h)
      /\ i \in Ifaces
  BY AddStores, ModifyStores
<1>2. /\ Same(task[h], task'[h]) /\ task'[h].items = Tail(task[h].items)
  BY <1>1, AdvanceStep
<1>3. ToSet(task[h].items) = {first} \cup ToSet(Tail(task[h].items))
  BY <1>1, HeadAndTail DEF Tasks
<1>4. task[h].op[1] = "delete" => first \in task[h].drops
  BY <1>1, <1>3 DEF TInv, TaskSound
<1>5. task[h].op[1] \in {"put", "delete"}
  BY <1>1 DEF Tasks, Ops
<1>6. PICK j \in Ifaces : j = i
  BY <1>1
<1>7. \A k \in Ifaces \ {j} : profiles'[k] = profiles[k]
  <2>1. CASE Add(h)
    <3>1. profiles' = [profiles EXCEPT ![i] = Append(profiles[i], {first})]
      BY <2>1, AddStores
    <3>. QED
      BY <1>6, <3>1 DEF TInv
  <2>2. CASE Modify(h)
    <3>1. \E p \in DOMAIN profiles[i], x \in Profiles :
            profiles' = [profiles EXCEPT ![i] = [profiles[i] EXCEPT ![p] = x]]
      BY <2>2, ModifyStores
    <3>. QED
      BY <1>6, <3>1 DEF TInv
  <2>. QED
    BY <2>1, <2>2
<1>8. /\ \A x \in StoredAt(j) : x \in StoredAt(j)' \/ (x = first /\ task[h].op[1] = "delete")
      /\ task[h].op[1] = "put" => first \in StoredAt(j)'
  <2>1. CASE Add(h)
    <3>1. /\ profiles'[j] = Append(profiles[j], {first})
          /\ profiles[j] \in Seq(Profiles) /\ {first} \in Profiles
      BY <1>6, <2>1, AddStores DEF TInv
    <3>2. /\ \A p \in DOMAIN profiles[j] :
               p \in DOMAIN profiles'[j] /\ profiles'[j][p] = profiles[j][p]
          /\ \E p \in DOMAIN profiles'[j] : profiles'[j][p] = {first}
      BY <3>1, AppendProfile
    <3>. QED
      BY <3>2 DEF StoredAt
  <2>2. CASE Modify(h)
    <3>0. \E p \in DOMAIN profiles[i], x \in Profiles :
            /\ x = Modified(profiles[i][p], task[h].op, first)
            /\ profiles' = [profiles EXCEPT ![i] = [profiles[i] EXCEPT ![p] = x]]
      BY <2>2, ModifyStores
    <3>1. PICK p \in DOMAIN profiles[j], x \in Profiles :
            /\ x = Modified(profiles[j][p], task[h].op, first)
            /\ profiles' = [profiles EXCEPT ![j] = [profiles[j] EXCEPT ![p] = x]]
      BY <1>6, <3>0
    <3>2. profiles'[j] = [profiles[j] EXCEPT ![p] = x] /\ profiles[j] \in Seq(Profiles)
      BY <3>1 DEF TInv
    <3>3. /\ DOMAIN profiles'[j] = DOMAIN profiles[j] /\ profiles'[j][p] = x
          /\ \A q \in DOMAIN profiles[j] \ {p} : profiles'[j][q] = profiles[j][q]
      BY <3>2, ChangeProfile
    <3>4. CASE task[h].op[1] = "put"
      <4>1. x = profiles[j][p] \cup {first}
        BY <3>1, <3>4 DEF Modified
      <4>. QED
        BY <3>3, <4>1 DEF StoredAt
    <3>5. CASE task[h].op[1] = "delete"
      <4>1. x = profiles[j][p] \ {first}
        BY <3>1, <3>5 DEF Modified
      <4>. QED
        BY <3>3, <3>5, <4>1 DEF StoredAt
    <3>. QED
      BY <1>5, <3>4, <3>5
  <2>. QED
    BY <2>1, <2>2
<1>9. OnlyDeleted(j)
  BY <1>1, <1>4, <1>6, <1>8 DEF OnlyDeleted
<1>10. \A k \in Ifaces \ {j} : OnlyDeleted(k)
  BY <1>7 DEF OnlyDeleted, StoredAt
<1>11. Onward(h)
  <2>1. task[h].op[1] = "put" => \A x \in ToSet(task[h].items) :
          x \in ToSet(task'[h].items) \/ x \in StoredAt(j)'
    BY <1>2, <1>3, <1>8
  <2>. QED
    BY <1>1, <1>2, <1>5, <1>6, <2>1 DEF Onward, Same
<1>. QED
  BY <1>9, <1>10, <1>11

\* A new request grants what no deletion contests; a new deletion takes what
\* it deletes from what is granted and from what others will grant.
LEMMA BeginGranted ==
  ASSUME GInv, TInv', NEW h \in Handlers, NEW op \in Ops, NEW i \in Ifaces,
         NEW items \in Seq(Items), Begin(h, op, i, items)
  PROVE  GInv'
<1>. DEFINE old(g) == /\ task[g] # Idle
                      /\ task'[g].op = task[g].op /\ task'[g].iface = task[g].iface
                      /\ task'[g].drops = task[g].drops /\ task'[g].items = task[g].items
                      /\ task'[g].grants \subseteq task[g].grants
                      /\ op[1] = "delete" /\ task[g].iface = i =>
                           task'[g].grants \cap ToSet(items) = {}
<1>1. task'[h] = Sent(op, i, items) /\ UNCHANGED profiles
  BY BeginStep DEF GInv
<1>2. op[1] \in {"put", "delete"}
  BY DEF Ops
<1>3. ASSUME NEW g \in Handlers \ {h}, task'[g] # Idle PROVE old(g)
  <2>1. CASE task'[g] = task[g] /\ (op[1] = "put" \/ task[g] = Idle \/ task[g].iface # i)
    BY <1>3, <2>1
  <2>2. CASE task[g] \in Tasks /\ task'[g] = Without(task[g], items)
    <3>1. /\ task'[g].op = task[g].op /\ task'[g].iface = task[g].iface
          /\ task'[g].drops = task[g].drops /\ task'[g].items = task[g].items
          /\ task'[g].grants = task[g].grants \ ToSet(items)
      BY <2>2 DEF Tasks, Without
    <3>. QED
      BY <2>2, <3>1, NotIdle
  <2>. QED
    BY <2>1, <2>2, BeginStep DEF GInv
<1>. HIDE DEF old
<1>4. ASSUME NEW j \in Ifaces
      PROVE  /\ granted'[j] \subseteq granted[j]
             /\ op[1] = "delete" => granted'[i] \cap ToSet(items) = {}
  <2>1. CASE op[1] = "put"
    BY <2>1, BeginStep DEF GInv
  <2>2. CASE op[1] = "delete"
    <3>1. granted' = [granted EXCEPT ![i] = @ \ ToSet(items)]
      BY <2>2, BeginStep DEF GInv
    <3>. QED
      BY <3>1 DEF GInv, TInv
  <2>. QED
    BY <1>2, <2>1, <2>2
<1>5. GrantedIsStored'
  BY <1>1, <1>4 DEF GInv, GrantedIsStored, StoredAt
<1>6. ASSUME NEW g \in Handlers PROVE Kept(g)'
  <2>1. CASE g = h
    BY <1>1, <2>1 DEF Kept, Sent
  <2>2. CASE g # h /\ task'[g] = Idle
    BY <2>2 DEF Kept
  <2>3. CASE g # h /\ task'[g] # Idle
    <3>1. old(g)
      BY <1>3, <2>3
    <3>. QED
      BY <1>1, <3>1 DEF GInv, Kept, StoredAt, old
  <2>. QED
    BY <2>1, <2>2, <2>3
<1>7. ASSUME NEW d \in Handlers, task'[d] # Idle, task'[d].op[1] = "delete"
      PROVE  task'[d].drops \cap granted'[task'[d].iface] = {}
  <2>1. CASE d = h
    BY <1>1, <1>4, <1>7, <2>1 DEF Sent
  <2>2. CASE d # h
    <3>1. old(d)
      BY <1>3, <1>7, <2>2
    <3>2. task[d].iface \in Ifaces
      BY <3>1, TaskType DEF GInv, Tasks, old
    <3>. QED
      BY <1>4, <1>7, <3>1, <3>2 DEF GInv, Uncontested, old
  <2>. QED
    BY <2>1, <2>2
<1>8. ASSUME NEW d \in Handlers, task'[d] # Idle, task'[d].op[1] = "delete",
             NEW g \in Handlers, task'[g] # Idle, task'[g].iface = task'[d].iface
      PROVE  task'[g].grants \cap task'[d].drops = {}
  <2>1. CASE g = h /\ d = h
    BY <1>1, <1>8, <2>1 DEF Sent
  <2>2. CASE g = h /\ d # h
    <3>1. old(d)
      BY <1>3, <1>8, <2>2
    <3>2. CASE op[1] = "put"
      <4>1. d \in Busy(i) /\ task[d].op[1] = "delete"
        BY <1>1, <1>8, <2>2, <3>1 DEF Busy, Sent, old
      <4>2. task[d].drops \subseteq Contested(i)
        BY <4>1 DEF Contested
      <4>. QED
        BY <1>1, <2>2, <3>1, <3>2, <4>2 DEF Sent, old
    <3>3. CASE op[1] = "delete"
      BY <1>1, <2>2, <3>3 DEF Sent
    <3>. QED
      BY <1>2, <3>2, <3>3
  <2>3. CASE g # h /\ d = h
    <3>1. old(g)
      BY <1>3, <1>8, <2>3
    <3>. QED
      BY <1>1, <1>8, <2>3, <3>1 DEF Sent, old
  <2>4. CASE g # h /\ d # h
    <3>1. old(g) /\ old(d)
      BY <1>3, <1>8, <2>4
    <3>. QED
      BY <1>8, <3>1 DEF GInv, Uncontested, old
  <2>. QED
    BY <2>1, <2>2, <2>3, <2>4
<1>. QED
  BY <1>5, <1>6, <1>7, <1>8 DEF GInv, Uncontested

LEMMA AnswerGranted ==
  ASSUME GInv, TInv', NEW h \in Handlers, Answer(h)
  PROVE  GInv'
<1>1. task[h] # Idle /\ task[h] \in Tasks
  BY DEF Answer, At, GInv, TInv, Idle
<1>2. task'[h] = Idle /\ UNCHANGED profiles /\ \A g \in Handlers \ {h} : task'[g] = task[g]
  BY EndStep DEF Answer, GInv
<1>3. PICK i \in Ifaces : i = task[h].iface
  BY <1>1 DEF Tasks
<1>4. CASE UNCHANGED granted
  <2>1. \A g \in Handlers : Onward(g)
    BY <1>2, SameRequest DEF Onward
  <2>. QED
    BY <1>2, <1>4, <2>1, SameStored, GrantedStays
<1>5. CASE task[h].pc = "done" /\ granted' = [granted EXCEPT ![i] = @ \cup task[h].grants]
  <2>1. granted'[i] = granted[i] \cup task[h].grants
        /\ \A j \in Ifaces \ {i} : granted'[j] = granted[j]
    BY <1>5 DEF GInv, TInv
  <2>2. task[h].items = <<>>
    BY <1>1, <1>5 DEF GInv, TInv, TaskSound, Fits
  <2>3. task[h].grants \ Unparsed \subseteq StoredAt(i)
    BY <1>1, <1>3, <2>2, NoMembers DEF GInv, Kept
  <2>4. GrantedIsStored'
    BY <1>2, <2>1, <2>3 DEF GInv, GrantedIsStored, StoredAt
  <2>5. ASSUME NEW g \in Handlers PROVE Kept(g)'
    BY <1>2 DEF GInv, Kept, StoredAt
  <2>6. ASSUME NEW d \in Handlers, task'[d] # Idle, task'[d].op[1] = "delete"
        PROVE  /\ task'[d].drops \cap granted'[task'[d].iface] = {}
               /\ \A g \in Handlers :
                    task'[g] # Idle /\ task'[g].iface = task'[d].iface =>
                        task'[g].grants \cap task'[d].drops = {}
    <3>1. d # h /\ task'[d] = task[d]
      BY <1>2, <2>6
    <3>2. Uncontested(d) /\ task[d].iface \in Ifaces
      BY <2>6, <3>1, TaskType DEF GInv, Tasks
    <3>3. task[d].iface = i => task[h].grants \cap task[d].drops = {}
      BY <1>1, <1>3, <2>6, <3>1, <3>2 DEF Uncontested
    <3>4. task'[d].drops \cap granted'[task'[d].iface] = {}
      BY <2>1, <2>6, <3>1, <3>2, <3>3 DEF Uncontested
    <3>5. \A g \in Handlers :
            task'[g] # Idle /\ task'[g].iface = task'[d].iface =>
                task'[g].grants \cap task'[d].drops = {}
      BY <1>2, <2>6, <3>1, <3>2 DEF Uncontested
    <3>. QED
      BY <3>4, <3>5
  <2>. QED
    BY <2>4, <2>5, <2>6 DEF GInv, Uncontested
<1>. QED
  BY <1>3, <1>4, <1>5 DEF Answer, At

LEMMA NextGranted == GInv /\ [Next]_vars => GInv'
<1>. SUFFICES ASSUME GInv, [Next]_vars PROVE GInv'
  OBVIOUS
<1>0. TInv /\ TInv'
  BY NextTypes DEF GInv
<1>1. ASSUME NEW h \in Handlers,
             \/ PutConfigInterfaces(h) \/ DeleteConfigInterfaces(h)
             \/ PutConfigRoutes(h) \/ DeleteConfigRoutes(h)
      PROVE  GInv'
  BY <1>0, <1>1, Begins, RequestType, BeginGranted
<1>2. ASSUME NEW h \in Handlers, Answer(h) PROVE GInv'
  BY <1>0, <1>2, AnswerGranted
<1>3. ASSUME NEW h \in Handlers, UNCHANGED <<profiles, granted>>, Onward(h),
             \A g \in Handlers \ {h} : task'[g] = task[g]
      PROVE  GInv'
  BY <1>0, <1>3, SameRequest, SameStored, GrantedStays
<1>4. ASSUME NEW h \in Handlers, Timeout(h) PROVE GInv'
  <2>1. Onward(h) /\ \A g \in Handlers \ {h} : task'[g] = task[g]
    BY <1>0, <1>4, TimeoutStep, SameItems
  <2>. QED
    BY <1>3, <1>4, <2>1 DEF Timeout
<1>5. ASSUME NEW h \in Handlers, Undelivered(h) PROVE GInv'
  <2>1. Onward(h) /\ \A g \in Handlers \ {h} : task'[g] = task[g]
    BY <1>0, <1>5, EndStep DEF Undelivered, Onward
  <2>. QED
    BY <1>3, <1>5, <2>1 DEF Undelivered
<1>6. ASSUME NEW h \in Handlers, NEW pc \in Pcs, task[h] \in Tasks, Goto(h, pc),
             UNCHANGED <<profiles, granted>>
      PROVE  GInv'
  <2>1. /\ Same(task[h], task'[h]) /\ task'[h].items = task[h].items
        /\ \A g \in Handlers \ {h} : task'[g] = task[g]
    BY <1>0, <1>6, GotoStep
  <2>2. Onward(h)
    BY <1>6, <2>1, NotIdle, SameItems DEF Same
  <2>. QED
    BY <1>3, <1>6, <2>1, <2>2
<1>7. ASSUME NEW h \in Handlers, Accept(h) \/ Show(h) \/ Up(h) PROVE GInv'
  <2>1. task[h] \in Tasks
    BY <1>0, <1>7, BusyAt DEF Accept, Show, Up, Pcs
  <2>2. \E pc \in Pcs : Goto(h, pc)
    <3>1. CASE Accept(h)
      BY <1>0, <3>1, AcceptStep DEF Pcs, Working
    <3>2. CASE Show(h) \/ Up(h)
      BY <3>2 DEF Show, Up, Refuse, Pcs
    <3>. QED
      BY <1>7, <3>1, <3>2
  <2>3. UNCHANGED <<profiles, granted>>
    BY <1>7 DEF Accept, Show, Up, Refuse
  <2>. QED
    BY <1>6, <2>1, <2>2, <2>3
<1>10. ASSUME NEW h \in Handlers, Skip(h) PROVE GInv'
  <2>1. task[h] \in Tasks /\ task[h].items # <<>> /\ Head(task[h].items) \in Unparsed
    BY <1>0, <1>10, SkipTypes
  <2>2. /\ Same(task[h], task'[h]) /\ task'[h].items = Tail(task[h].items)
        /\ \A g \in Handlers \ {h} : task'[g] = task[g]
    BY <1>0, <1>10, <2>1, AdvanceStep DEF Skip
  <2>3. ToSet(task[h].items) = {Head(task[h].items)} \cup ToSet(Tail(task[h].items))
    BY <2>1, HeadAndTail DEF Tasks
  <2>4. Onward(h)
    BY <2>1, <2>2, <2>3, NotIdle DEF Onward, Same
  <2>. QED
    BY <1>3, <1>10, <2>2, <2>4 DEF Skip
<1>11. CASE Crash
  <2>1. \A g \in Handlers : Onward(g)
    BY <1>0, <1>11, CrashStep, SameRequest DEF Onward
  <2>. QED
    BY <1>0, <1>11, <2>1, CrashStep, SameStored, GrantedStays
<1>8. ASSUME NEW h \in Handlers, Add(h) \/ Modify(h) PROVE GInv'
  <2>1. task[h] \in Tasks
    BY <1>0, <1>8, BusyAt DEF Add, Modify, Pcs
  <2>2. CASE Refuse(h)
    BY <1>6, <1>8, <2>1, <2>2 DEF Add, Modify, Refuse, Pcs
  <2>3. CASE ~ Refuse(h)
    <3>1. Onward(h) /\ \A i \in Ifaces : OnlyDeleted(i)
      BY <1>0, <1>8, <2>3, FirstIsStored
    <3>2. task[h].items # <<>> /\ Advance(h) /\ UNCHANGED granted
      BY <1>0, <1>8, <2>3, AddStores, ModifyStores
    <3>3. \A g \in Handlers \ {h} : task'[g] = task[g]
      BY <1>0, <2>1, <3>2, AdvanceStep
    <3>. QED
      BY <1>0, <3>1, <3>2, <3>3, SameRequest, GrantedStays
  <2>. QED
    BY <2>2, <2>3
<1>9. CASE (\E i \in Ifaces : Autoconnect(i)) \/ UNCHANGED vars
  <2>1. UNCHANGED <<profiles, granted, task>>
    BY <1>9 DEF Autoconnect, vars
  <2>. QED
    BY <1>0, <2>1, SameRequest, SameStored, GrantedStays
<1>. QED
  BY <1>1, <1>2, <1>4, <1>5, <1>7, <1>8, <1>9, <1>10, <1>11 DEF Next

\* What a client was told is set, and the agent could parse, stays stored until
\* a deletion is asked for, whatever other requests do to the same profiles
\* meanwhile and wherever the agent ends. What it could not parse it skips
\* without a word, and confirms it all the same.
THEOREM GrantedStaysStored == Spec => []GrantedIsStored
<1>1. Init => GInv
  BY InitTypes DEF Init, GInv, GrantedIsStored, Kept, Uncontested
<1>2. GInv => GrantedIsStored
  BY DEF GInv
<1>. QED
  BY <1>1, <1>2, NextGranted, PTL DEF Spec
=============================================================================
