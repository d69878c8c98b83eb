---------------------------- MODULE AuthzS3Proofs -----------------------------
(***************************************************************************)
(* Proofs about AuthzS3 for any users, namespaces, sources, calls,         *)
(* configurations, requests, faults and bounds: type correctness,          *)
(* AnswersAreImplied and UsersAreFromStorage.                              *)
(***************************************************************************)
EXTENDS AuthzS3, TLAPS

(* The inductive invariant *)

\* The locals and the history of a call are kept by handler.
Shape ==
    /\ call = [h \in Handlers |-> call[h]]
    /\ seen \in [Handlers -> [configs: SUBSET Configs, maps: SUBSET Maps]]

\* What is about to be installed, the storage told.
FetchedIsSaid == poll = "install" => fetched \in said

\* What is in force was in force during every call in progress, so was the
\* configuration a call has read, and its answer follows from some of it.
CallSound(h) ==
    call[h].pc # "idle" =>
        /\ config \in seen[h].configs /\ namespaces \in seen[h].maps
        /\ call[h].pc = "namespaces" => call[h].config \in seen[h].configs
        /\ call[h].pc = "done" =>
             \E c \in seen[h].configs, m \in seen[h].maps :
                 Implied(call[h].answer, call[h].request, c, m)

TInv == TypeOK /\ Shape
AInv == TInv /\ FetchedIsSaid /\ \A h \in Handlers : CallSound(h)

-----------------------------------------------------------------------------
(* The decision *)

LEMMA NamespaceType ==
  ASSUME NEW q \in Attributes, NEW map \in Maps
  PROVE  RequestNamespace(q, map) \in Namespaces \cup {Absent, Broken}
<1>1. \A u \in Accounts : OfAccount(u, map) \in Namespaces \cup {Absent, Broken}
  BY DEF OfAccount, Accounts, Maps
<1>2. q.header \in Accounts /\ q.query \in Accounts
      /\ q.emc \in Namespaces \cup {Absent} /\ q.host \in Namespaces \cup {Absent}
  BY DEF Attributes
<1>. QED
  BY <1>1, <1>2 DEF RequestNamespace

\* getRequestNamespace returns the best evidence there is, or panics on it.
LEMMA BestEvidence ==
  ASSUME NEW q, NEW map
  PROVE  \/ /\ RequestNamespace(q, map) = Absent
            /\ \A r \in 1..4 : Evidence(q, map)[r] = Absent
         \/ /\ RequestNamespace(q, map) # Absent
            /\ \E r \in 1..4 : /\ Evidence(q, map)[r] = RequestNamespace(q, map)
                               /\ \A s \in 1..4 : Evidence(q, map)[s] # Absent => r <= s
<1>1. /\ Evidence(q, map)[1] = OfAccount(q.header, map)
      /\ Evidence(q, map)[2] = OfAccount(q.query, map)
      /\ Evidence(q, map)[3] = q.emc
      /\ Evidence(q, map)[4] = q.host
  BY DEF Evidence, OfAccount
<1>2. RequestNamespace(q, map) =
        IF Evidence(q, map)[1] # Absent THEN Evidence(q, map)[1]
        ELSE IF Evidence(q, map)[2] # Absent THEN Evidence(q, map)[2]
        ELSE IF Evidence(q, map)[3] # Absent THEN Evidence(q, map)[3]
        ELSE Evidence(q, map)[4]
  BY <1>1 DEF RequestNamespace
<1>3. \A r \in 1..4 : r = 1 \/ r = 2 \/ r = 3 \/ r = 4
  OBVIOUS
<1>. QED
  BY <1>2, <1>3

\* What a call that does not panic asks for.
Answerable(q, map) ==
    q = Absent \/ (q \in Attributes /\ RequestNamespace(q, map) # Broken)

LEMMA DecisionType ==
  ASSUME NEW q, NEW c \in Configs, NEW map \in Maps, Answerable(q, map)
  PROVE  Decide(q, c, map) \in Answers
<1>1. CASE q = Absent
  BY <1>1 DEF Decide, Answers
<1>2. CASE q # Absent
  <2>1. q \in Attributes /\ RequestNamespace(q, map) \in Namespaces \cup {Absent}
    BY <1>2, NamespaceType DEF Answerable
  <2>2. ASSUME NEW x \in Namespaces, c # Absent, c[x] # Absent
        PROVE  /\ c[x].action \in Actions
               /\ q.source # Absent => c[x].sources[q.source] \in Actions \cup {Absent}
    <3>1. c[x] \in Rules
      BY <2>2, ConfigsAssumption
    <3>2. q.source \in Sources \cup {Absent}
      BY <2>1 DEF Attributes
    <3>. QED
      BY <3>1, <3>2 DEF Rules
  <2>. QED
    BY <1>2, <2>1, <2>2 DEF Decide, Answers, Actions
<1>. QED
  BY <1>1, <1>2

\* The statements of Check compute what the rules and the users imply.
LEMMA DecisionImplied ==
  ASSUME NEW q, NEW c \in Configs, NEW map \in Maps, Answerable(q, map)
  PROVE  Implied(Decide(q, c, map), q, c, map)
<1>1. CASE q = Absent
  BY <1>1 DEF Decide, Implied
<1>2. CASE q # Absent
  <2>. DEFINE ns == RequestNamespace(q, map)
              a == Decide(q, c, map)
              rules == {x \in Namespaces : c # Absent /\ c[x] # Absent}
              Denied == /\ ns \in rules
                        /\ \/ q.source # Absent /\ c[ns].sources[q.source] = "deny"
                           \/ /\ c[ns].action = "deny"
                              /\ q.source = Absent \/ c[ns].sources[q.source] = Absent
  <2>1. q \in Attributes /\ ns # Broken
    BY <1>2 DEF Answerable
  <2>2. a.namespace = ns /\ (ns = Absent => a = [action |-> "allow", namespace |-> Absent])
    BY <1>2 DEF Decide
  <2>3. ns # Absent => a.action = IF Denied THEN "deny" ELSE "allow"
    <3>. SUFFICES ASSUME ns # Absent PROVE a.action = IF Denied THEN "deny" ELSE "allow"
      OBVIOUS
    <3>1. ns \in Namespaces
      BY <2>1, NamespaceType
    <3>2. CASE c = Absent \/ c[ns] = Absent
      BY <1>2, <3>2 DEF Decide
    <3>3. CASE c # Absent /\ c[ns] # Absent
      <4>1. c[ns] \in Rules
        BY <3>1, <3>3, ConfigsAssumption
      <4>2. /\ c[ns].action \in Actions
            /\ q.source # Absent => c[ns].sources[q.source] \in Actions \cup {Absent}
        BY <2>1, <4>1 DEF Rules, Attributes
      <4>. QED
        BY <1>2, <3>1, <3>3, <4>2, MarksAssumption DEF Decide, Actions
    <3>. QED
      BY <3>2, <3>3
  <2>4. CASE ns = Absent
    BY <1>2, <2>2, <2>4, BestEvidence DEF Implied
  <2>5. CASE ns # Absent
    <3>1. PICK r \in 1..4 : /\ Evidence(q, map)[r] = ns
                            /\ \A s \in 1..4 : Evidence(q, map)[s] # Absent => r <= s
      BY <2>5, BestEvidence
    <3>. HIDE DEF ns, a
    <3>2. r \in {s \in 1..4 : q # Absent /\ Evidence(q, map)[s] # Absent}
      BY <1>2, <2>5, <3>1
    <3>. QED
      BY <2>1, <2>2, <2>3, <2>5, <3>1, <3>2 DEF Implied, a
  <2>. QED
    BY <2>4, <2>5
<1>. QED
  BY <1>1, <1>2

-----------------------------------------------------------------------------
(* Types *)

LEMMA InitTypes == Init => TInv
<1>1. NoUsers \in Maps
  BY DEF NoUsers, Maps
<1>. QED
  BY <1>1 DEF Init, TInv, TypeOK, Shape, Idle

\* One handler is at step, the others where they were.
LEMMA CallType ==
  ASSUME TInv, NEW h \in Handlers, NEW new, call' = [call EXCEPT ![h] = new]
  PROVE  /\ call' = [g \in Handlers |-> call'[g]]
         /\ call'[h] = new /\ \A g \in Handlers \ {h} : call'[g] = call[g]
BY DEF TInv, Shape

\* Only Check changes its locals.
LEMMA SameCalls ==
  ASSUME TInv, UNCHANGED call, storage' \in Maps, fetched' \in Maps,
         poll' \in {"login", "users", "install", "logout"},
         namespaces' \in Maps, config' \in Configs, crashes' \in Nat,
         seen' \in [Handlers -> [configs: SUBSET Configs, maps: SUBSET Maps]]
  PROVE  TInv'
BY DEF TInv, TypeOK, Shape

LEMMA NextTypes == TInv /\ [Next]_vars => TInv'
<1>. SUFFICES ASSUME TInv, [Next]_vars PROVE TInv'
  OBVIOUS
<1>0. NoUsers \in Maps
  BY DEF NoUsers, Maps
<1>1. CASE Login
  BY <1>1, SameCalls DEF Login, TInv, TypeOK, Shape
<1>2. CASE GetUsers
  <2>1. fetched' \in Maps /\ poll' \in {"install", "logout"}
    BY <1>0, <1>2 DEF GetUsers, Answer, TInv, TypeOK
  <2>. QED
    BY <1>2, <2>1, SameCalls DEF GetUsers, TInv, TypeOK, Shape
<1>3. CASE Install
  <2>1. seen' \in [Handlers -> [configs: SUBSET Configs, maps: SUBSET Maps]]
    <3>1. CASE fetched = namespaces
      BY <1>3, <3>1 DEF Install, TInv, Shape
    <3>2. CASE fetched # namespaces
      <4>1. \A h \in Handlers :
              [seen[h] EXCEPT !.maps = @ \cup {fetched}]
                \in [configs: SUBSET Configs, maps: SUBSET Maps]
        BY DEF TInv, TypeOK, Shape
      <4>. QED
        BY <1>3, <3>2, <4>1 DEF Install
    <3>. QED
      BY <3>1, <3>2
  <2>2. namespaces' \in Maps
    BY <1>3 DEF Install, TInv, TypeOK
  <2>. QED
    BY <1>3, <2>1, <2>2, SameCalls DEF Install, TInv, TypeOK
<1>4. CASE Logout
  BY <1>4, SameCalls DEF Logout, TInv, TypeOK, Shape
<1>5. CASE StorageChanges
  BY <1>5, SameCalls DEF StorageChanges, pollVars, TInv, TypeOK, Shape
<1>6. CASE SetConfig
  <2>1. config' \in Configs
    BY <1>6 DEF SetConfig
  <2>2. \A h \in Handlers :
          [seen[h] EXCEPT !.configs = @ \cup {config'}]
            \in [configs: SUBSET Configs, maps: SUBSET Maps]
    BY <2>1 DEF TInv, Shape
  <2>3. seen' \in [Handlers -> [configs: SUBSET Configs, maps: SUBSET Maps]]
    BY <1>6, <2>2 DEF SetConfig
  <2>. QED
    BY <1>6, <2>1, <2>3, SameCalls DEF SetConfig, pollVars, TInv, TypeOK
<1>7. ASSUME NEW h \in Handlers, Begin(h) PROVE TInv'
  <2>1. PICK q \in Requests : call' = [call EXCEPT ![h] = [pc |-> "config", request |-> q]]
    BY <1>7 DEF Begin
  <2>2. seen' \in [Handlers -> [configs: SUBSET Configs, maps: SUBSET Maps]]
    BY <1>7 DEF Begin, TInv, TypeOK, Shape
  <2>. QED
    BY <1>7, <2>1, <2>2, CallType DEF Begin, pollVars, TInv, TypeOK, Shape
<1>8. ASSUME NEW h \in Handlers, ReadConfig(h) PROVE TInv'
  <2>1. call[h].request \in Requests
    BY <1>8 DEF ReadConfig, TInv, TypeOK, Idle
  <2>. QED
    BY <1>8, <2>1, CallType DEF ReadConfig, pollVars, TInv, TypeOK, Shape
<1>9. ASSUME NEW h \in Handlers, ReadNamespaces(h) PROVE TInv'
  <2>1. call[h].request \in Requests /\ call[h].config \in Configs
    BY <1>9 DEF ReadNamespaces, TInv, TypeOK, Idle
  <2>2. Answerable(call[h].request, namespaces)
    BY <1>9, <2>1, RequestsAssumption DEF ReadNamespaces, Panics, Answerable
  <2>3. Decide(call[h].request, call[h].config, namespaces) \in Answers
    BY <2>1, <2>2, DecisionType DEF TInv, TypeOK
  <2>. QED
    BY <1>9, <2>1, <2>3, CallType DEF ReadNamespaces, pollVars, TInv, TypeOK, Shape
<1>10. CASE UNCHANGED vars
  BY <1>10, SameCalls DEF vars, pollVars, TInv, TypeOK, Shape
<1>11. ASSUME NEW h \in Handlers, Crash(h) PROVE TInv'
  BY <1>0, <1>11 DEF Crash, TInv, TypeOK, Shape
<1>. QED
  BY <1>1, <1>2, <1>3, <1>4, <1>5, <1>6, <1>7, <1>8, <1>9, <1>10, <1>11 DEF Next, Poll

\* Every variable keeps its type: whatever the storage answers, whichever
\* configuration meets a request and however often the process has ended,
\* Check allows, denies or, not asked about HTTP, leaves undecided.
THEOREM TypeCorrect == Spec => []TypeOK
<1>. QED
  BY InitTypes, NextTypes, PTL DEF Spec, TInv

-----------------------------------------------------------------------------
(* Users from the storage, answers that are implied *)

LEMMA NextFetched == TInv /\ FetchedIsSaid /\ [Next]_vars => FetchedIsSaid'
<1>. SUFFICES ASSUME TInv, FetchedIsSaid, [Next]_vars PROVE FetchedIsSaid'
  OBVIOUS
<1>. USE DEF FetchedIsSaid, pollVars
<1>1. CASE Poll
  BY <1>1 DEF Poll, Login, GetUsers, Answer, Install, Logout
<1>2. CASE StorageChanges \/ SetConfig
  BY <1>2 DEF StorageChanges, SetConfig
<1>3. ASSUME NEW h \in Handlers,
             Begin(h) \/ ReadConfig(h) \/ ReadNamespaces(h) \/ Crash(h)
      PROVE  FetchedIsSaid'
  BY <1>3 DEF Begin, ReadConfig, ReadNamespaces, Crash
<1>4. CASE UNCHANGED vars
  BY <1>4 DEF vars
<1>. QED
  BY <1>1, <1>2, <1>3, <1>4 DEF Next

\* Poll installs only what the storage told: a round that gets no answer or
\* one it cannot read leaves the users as they are.
THEOREM UsersAreTold == Spec => UsersAreFromStorage
<1>1. Init => TInv /\ FetchedIsSaid
  BY InitTypes DEF Init, FetchedIsSaid
<1>2. TInv /\ FetchedIsSaid /\ [Next]_vars
        => (namespaces' # namespaces => namespaces' \in said \/ crashes' # crashes)
  <2>. SUFFICES ASSUME TInv, FetchedIsSaid, [Next]_vars, namespaces' # namespaces,
                       crashes' = crashes
                PROVE  namespaces' \in said
    OBVIOUS
  <2>1. Install \/ \E h \in Handlers : Crash(h)
    BY DEF Next, vars, pollVars, Poll, Login, GetUsers, Logout, StorageChanges,
           SetConfig, Begin, ReadConfig, ReadNamespaces
  <2>2. ASSUME NEW h \in Handlers, Crash(h) PROVE FALSE
    BY <2>2 DEF Crash, TInv, TypeOK
  <2>. QED
    BY <2>1, <2>2 DEF Install, FetchedIsSaid
<1>. QED
  BY <1>1, <1>2, NextTypes, NextFetched, PTL DEF Spec, UsersAreFromStorage

\* The history of a call grows, and holds what is in force.
LEMMA StillSound ==
  ASSUME TInv, NEW h \in Handlers, CallSound(h), call'[h] = call[h],
         seen[h].configs \subseteq seen'[h].configs,
         seen[h].maps \subseteq seen'[h].maps,
         config' \in seen'[h].configs \/ UNCHANGED config,
         namespaces' \in seen'[h].maps \/ UNCHANGED namespaces
  PROVE  CallSound(h)'
BY DEF CallSound

LEMMA NextCalls == AInv /\ [Next]_vars => \A h \in Handlers : CallSound(h)'
<1>. SUFFICES ASSUME AInv, [Next]_vars, NEW g \in Handlers PROVE CallSound(g)'
  OBVIOUS
<1>0. TInv /\ CallSound(g)
  BY DEF AInv
<1>1. CASE Login \/ GetUsers \/ Logout \/ StorageChanges \/ UNCHANGED vars
  <2>1. UNCHANGED <<call, seen, config, namespaces>>
    BY <1>1 DEF Login, GetUsers, Logout, StorageChanges, vars, pollVars
  <2>. QED
    BY <1>0, <2>1, StillSound
<1>2. CASE Install
  <2>1. CASE fetched = namespaces
    BY <1>0, <1>2, <2>1, StillSound DEF Install
  <2>2. CASE fetched # namespaces
    <3>1. seen'[g] = [seen[g] EXCEPT !.maps = @ \cup {fetched}]
      BY <1>2, <2>2 DEF Install
    <3>2. seen'[g].configs = seen[g].configs /\ seen'[g].maps = seen[g].maps \cup {fetched}
      BY <1>0, <3>1 DEF TInv, Shape
    <3>. QED
      BY <1>0, <1>2, <2>2, <3>2, StillSound DEF Install
  <2>. QED
    BY <2>1, <2>2
<1>3. CASE SetConfig
  <2>1. seen'[g] = [seen[g] EXCEPT !.configs = @ \cup {config'}]
    BY <1>3 DEF SetConfig
  <2>2. seen'[g].configs = seen[g].configs \cup {config'} /\ seen'[g].maps = seen[g].maps
    BY <1>0, <2>1 DEF TInv, Shape
  <2>. QED
    BY <1>0, <1>3, <2>2, StillSound DEF SetConfig
<1>4. ASSUME NEW h \in Handlers, Begin(h) PROVE CallSound(g)'
  <2>1. PICK q \in Requests : call' = [call EXCEPT ![h] = [pc |-> "config", request |-> q]]
    BY <1>4 DEF Begin
  <2>2. CASE g = h
    <3>1. call'[g].pc = "config"
      BY <1>0, <2>1, <2>2, CallType
    <3>2. seen'[g] = [configs |-> {config}, maps |-> {namespaces}]
      BY <1>0, <1>4, <2>2 DEF Begin, TInv, Shape
    <3>. QED
      BY <1>4, <3>1, <3>2 DEF Begin, CallSound
  <2>3. CASE g # h
    <3>1. call'[g] = call[g] /\ seen'[g] = seen[g]
      BY <1>0, <1>4, <2>1, <2>3, CallType DEF Begin, TInv, Shape
    <3>. QED
      BY <1>0, <1>4, <3>1, StillSound DEF Begin
  <2>. QED
    BY <2>2, <2>3
<1>5. ASSUME NEW h \in Handlers, ReadConfig(h) PROVE CallSound(g)'
  <2>1. CASE g = h
    <3>1. call'[g] = [pc |-> "namespaces", request |-> call[h].request, config |-> config]
      BY <1>0, <1>5, <2>1, CallType DEF ReadConfig
    <3>. QED
      BY <1>0, <1>5, <2>1, <3>1 DEF ReadConfig, CallSound
  <2>2. CASE g # h
    <3>1. call'[g] = call[g]
      BY <1>0, <1>5, <2>2, CallType DEF ReadConfig
    <3>. QED
      BY <1>0, <1>5, <3>1, StillSound DEF ReadConfig
  <2>. QED
    BY <2>1, <2>2
<1>6. ASSUME NEW h \in Handlers, ReadNamespaces(h) PROVE CallSound(g)'
  <2>1. CASE g = h
    <3>1. call'[g] = [pc |-> "done", request |-> call[h].request,
                      answer |-> Decide(call[h].request, call[h].config, namespaces)]
      BY <1>0, <1>6, <2>1, CallType DEF ReadNamespaces
    <3>2. /\ Answerable(call[h].request, namespaces)
          /\ call[h].config \in Configs /\ namespaces \in Maps
      BY <1>0, <1>6, RequestsAssumption
      DEF ReadNamespaces, Panics, Answerable, TInv, TypeOK, Idle
    <3>3. Implied(call'[g].answer, call'[g].request, call[h].config, namespaces)
      BY <3>1, <3>2, DecisionImplied
    <3>4. call[h].config \in seen[g].configs /\ namespaces \in seen[g].maps
          /\ config \in seen[g].configs
      BY <1>0, <1>6, <2>1 DEF ReadNamespaces, CallSound
    <3>. QED
      BY <1>6, <3>1, <3>3, <3>4 DEF ReadNamespaces, CallSound
  <2>2. CASE g # h
    <3>1. call'[g] = call[g]
      BY <1>0, <1>6, <2>2, CallType DEF ReadNamespaces
    <3>. QED
      BY <1>0, <1>6, <3>1, StillSound DEF ReadNamespaces
  <2>. QED
    BY <2>1, <2>2
<1>7. ASSUME NEW h \in Handlers, Crash(h) PROVE CallSound(g)'
  BY <1>7 DEF Crash, CallSound, Idle
<1>. QED
  BY <1>1, <1>2, <1>3, <1>4, <1>5, <1>6, <1>7 DEF Next, Poll

\* Check reads the configuration and the users under a lock each, at two
\* moments; its answer is nevertheless what a configuration and users in
\* force during the call imply, for any number of calls, changes and calls
\* that end the process.
THEOREM AnswersFollow == Spec => []AnswersAreImplied
<1>1. Init => AInv
  BY InitTypes DEF Init, AInv, FetchedIsSaid, CallSound, Idle
<1>2. AInv /\ [Next]_vars => AInv'
  BY NextTypes, NextFetched, NextCalls DEF AInv
<1>3. AInv => AnswersAreImplied
  BY DEF AInv, CallSound, AnswersAreImplied
<1>. QED
  BY <1>1, <1>2, <1>3, PTL DEF Spec
=============================================================================
