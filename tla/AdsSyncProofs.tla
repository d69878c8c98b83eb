---------------------------- MODULE AdsSyncProofs -----------------------------
(***************************************************************************)
(* Proofs about AdsSync for any resource types, faults and bounds: type    *)
(* correctness and NeverAheadOfEnvoy.                                      *)
(***************************************************************************)
EXTENDS AdsSync, FiniteSetTheorems, TLAPS

(* The inductive invariant *)

Handling == [step: {"write", "watch"}, req: Asked]

\* Nothing is newer than the node document.
Bounded ==
    /\ snap <= node /\ dealt <= node
    /\ \A t \in Types : accepted[t] <= node
    /\ \A i \in DOMAIN downlink : downlink[i].version <= node

TInv ==
    /\ TypeOK
    /\ handling = Nothing \/ handling \in Handling
    /\ IsFiniteSet(watches)
    /\ Bounded

\* Responses arrive in the order of their versions: what is on the way is
\* not older than what Envoy runs, and not newer than the snapshot.
ResponsesInOrder ==
    /\ snap # 0 => \A t \in Types : accepted[t] <= snap
    /\ \A i \in DOMAIN downlink :
         /\ downlink[i].version <= snap
         /\ \A t \in Types : t = downlink[i].type => accepted[t] <= downlink[i].version
    /\ \A i, j \in DOMAIN downlink :
         i < j => downlink[i].version <= downlink[j].version

\* This run of Envoy has version v of some type, or something newer.
Reached(v) == v = 0 \/ \E t \in Types : accepted[t] >= v

\* Whatever requests and writes are under way, Envoy got there first, unless
\* they are of an earlier run.
UplinkReached == \A i \in DOMAIN uplink : Reached(uplink[i].version)
HandlingReached == handling # Nothing => Reached(handling.req.version)
LateReached ==
    late # Nothing => late.run <= run /\ (late.run = run => Reached(late.version))
WorkerReached ==
    worker # Nothing => worker.run <= run /\ (worker.run = run => Reached(worker.version))
RequestsReached ==
    UplinkReached /\ HandlingReached /\ LateReached /\ WorkerReached

AInv == TInv /\ ResponsesInOrder /\ RequestsReached

-----------------------------------------------------------------------------
(* Sequences *)

LEMMA AppendElements ==
  ASSUME NEW S, NEW s \in Seq(S), NEW x \in S
  PROVE  /\ Append(s, x) \in Seq(S)
         /\ \A i \in DOMAIN Append(s, x) :
              \/ i \in DOMAIN s /\ Append(s, x)[i] = s[i]
              \/ i = Len(s) + 1 /\ Append(s, x)[i] = x
         /\ DOMAIN s = 1..Len(s) /\ Len(s) \in Nat
OBVIOUS

LEMMA AppendFunction ==
  ASSUME NEW S, NEW s \in Seq(S), NEW x \in S, NEW n \in Nat, Len(s) = n
  PROVE  Append(s, x) \in [1..(n + 1) -> S]
<1>1. Append(s, x) \in Seq(S) /\ Len(Append(s, x)) = n + 1
  OBVIOUS
<1>2. ASSUME NEW q \in Seq(S) PROVE q \in [1..Len(q) -> S]
  OBVIOUS
<1>. QED
  BY <1>1, <1>2

LEMMA TailElements ==
  ASSUME NEW S, NEW s \in Seq(S), s # <<>>
  PROVE  /\ Head(s) \in S /\ Tail(s) \in Seq(S)
         /\ Head(s) = s[1] /\ 1 \in DOMAIN s
         /\ \A i \in DOMAIN Tail(s) : /\ i + 1 \in DOMAIN s /\ Tail(s)[i] = s[i + 1]
                                      /\ i \in Nat \ {0}
<1>1. DOMAIN s = 1..Len(s) /\ DOMAIN Tail(s) = 1..(Len(s) - 1) /\ Len(s) \in Nat \ {0}
  OBVIOUS
<1>2. \A i \in 1..(Len(s) - 1) : Tail(s)[i] = s[i + 1]
  OBVIOUS
<1>3. Head(s) \in S /\ Tail(s) \in Seq(S) /\ Head(s) = s[1]
  OBVIOUS
<1>. QED
  BY <1>1, <1>2, <1>3

LEMMA ConcatElements ==
  ASSUME NEW S, NEW s \in Seq(S), NEW n \in Nat, NEW t \in [1..n -> S]
  PROVE  /\ s \o t \in Seq(S)
         /\ DOMAIN s = 1..Len(s) /\ Len(s) \in Nat
         /\ \A i \in DOMAIN (s \o t) :
              \/ i \in DOMAIN s /\ (s \o t)[i] = s[i]
              \/ i > Len(s) /\ i - Len(s) \in 1..n /\ (s \o t)[i] = t[i - Len(s)]
<1>1. t \in Seq(S) /\ Len(t) = n
  OBVIOUS
<1>2. s \o t \in Seq(S) /\ DOMAIN (s \o t) = 1..(Len(s) + n) /\ Len(s) \in Nat
  BY <1>1
<1>3. \A i \in 1..(Len(s) + n) :
        (s \o t)[i] = IF i <= Len(s) THEN s[i] ELSE t[i - Len(s)]
  BY <1>1
<1>. QED
  BY <1>2, <1>3

-----------------------------------------------------------------------------
(* Types *)

LEMMA RecordType ==
  ASSUME NEW req \in Asked, TypeOK
  PROVE  /\ Record(req) \in Written /\ Record(req).version = req.version
         /\ Record(req).run = run /\ Record(req) # Nothing
BY DEF Record, Written, Asked, Nothing, TypeOK

\* What a version refers to are names.
LEMMA NamesType ==
  ASSUME TInv, NEW t \in Types
  PROVE  NamesOf(t) \in SUBSET Names
<1>1. accepted[Parent] \in Nat /\ accepted[Parent] <= node
  BY TypesAssumption DEF TInv, TypeOK, Bounded, Versions
<1>2. CASE accepted[Parent] = 0
  BY <1>2 DEF NamesOf, Refers
<1>3. CASE accepted[Parent] # 0
  <2>1. node \in Nat /\ accepted[Parent] \in 1..node
    BY <1>1, <1>3 DEF TInv, TypeOK, Versions
  <2>2. content[accepted[Parent]] \in Contents
    BY <2>1 DEF TInv, TypeOK
  <2>3. content[accepted[Parent]].refers \in SUBSET Names
    BY <2>2, ContentsAssumption
  <2>. QED
    BY <1>3, <2>3 DEF NamesOf, Refers
<1>. QED
  BY <1>2, <1>3

LEMMA AskType ==
  ASSUME TInv, NEW t \in Types, NEW v \in Versions,
         NEW k \in {"ask", "ack", "nack"}, Ask(t, v, k)
  PROVE  /\ uplink' \in Seq(Asked)
         /\ asked' \subseteq Types \X SUBSET Names
         /\ \A i \in DOMAIN uplink' : \/ i \in DOMAIN uplink /\ uplink'[i] = uplink[i]
                                      \/ uplink'[i].version = v
<1>. DEFINE req == [type |-> t, version |-> v, names |-> NamesOf(t), kind |-> k]
<1>1. NamesOf(t) \in SUBSET Names
  BY NamesType
<1>2. req \in Asked /\ req.version = v
  BY <1>1 DEF Asked
<1>3. uplink' = Append(uplink, req) /\ uplink \in Seq(Asked)
  BY DEF Ask, TInv, TypeOK
<1>4. asked' \subseteq Types \X SUBSET Names
  BY <1>1 DEF Ask, TInv, TypeOK
<1>. HIDE DEF req
<1>5. /\ Append(uplink, req) \in Seq(Asked)
      /\ \A i \in DOMAIN Append(uplink, req) :
           \/ i \in DOMAIN uplink /\ Append(uplink, req)[i] = uplink[i]
           \/ i = Len(uplink) + 1 /\ Append(uplink, req)[i] = req
  BY <1>2, <1>3, AppendElements
<1>. QED
  BY <1>2, <1>3, <1>4, <1>5

\* The answers of SetSnapshot have the version of the node document.
LEMMA SnapshotStep ==
  ASSUME TInv, SetSnapshot
  PROVE  /\ downlink' \in Seq(Answered)
         /\ watches' \subseteq Asked /\ owed' \subseteq Types
         /\ snap' = node /\ node # 0 /\ snap <= node
         /\ DOMAIN downlink = 1..Len(downlink) /\ Len(downlink) \in Nat
         /\ \A i \in DOMAIN downlink' :
              \/ i \in DOMAIN downlink /\ downlink'[i] = downlink[i]
              \/ i > Len(downlink) /\ downlink'[i].version = node
<1>. DEFINE ended == {w \in watches : w.version # node}
            answered == {w \in ended : Covers(w, node)}
            n == Cardinality(answered)
<1>1. snap' = node /\ node # 0 /\ node \in Versions /\ snap <= node
  BY BoundsAssumption DEF SetSnapshot, TInv, TypeOK, Bounded, Versions
<1>2. answered \in SUBSET watches /\ \A w \in watches : w.type \in Types
  BY DEF TInv, TypeOK, Asked
<1>3. n \in Nat
  BY <1>2, FS_Subset, FS_CardinalityType DEF TInv
<1>4. PICK order \in [1..n -> answered] :
        /\ downlink' = downlink \o
             [i \in DOMAIN order |-> [type |-> order[i].type, version |-> node]]
        /\ watches' = watches \ ended
        /\ owed' = owed \cup {w.type : w \in answered}
  BY DEF SetSnapshot
<1>. HIDE DEF n
<1>. DEFINE new == [i \in DOMAIN order |-> [type |-> order[i].type, version |-> node]]
<1>5. new \in [1..n -> Answered] /\ \A i \in 1..n : new[i].version = node
  BY <1>1, <1>2 DEF Answered
<1>. HIDE DEF new
<1>6. downlink \in Seq(Answered)
  BY DEF TInv, TypeOK
<1>7. /\ downlink \o new \in Seq(Answered)
      /\ DOMAIN downlink = 1..Len(downlink) /\ Len(downlink) \in Nat
      /\ \A i \in DOMAIN (downlink \o new) :
           \/ i \in DOMAIN downlink /\ (downlink \o new)[i] = downlink[i]
           \/ i > Len(downlink) /\ (downlink \o new)[i].version = node
  BY <1>3, <1>5, <1>6, ConcatElements
<1>8. downlink' = downlink \o new
  BY <1>4 DEF new
<1>9. watches' \subseteq Asked /\ owed' \subseteq Types
  BY <1>2, <1>4 DEF TInv, TypeOK
<1>. QED
  BY <1>1, <1>7, <1>8, <1>9

LEMMA SnapshotBounded ==
  ASSUME TInv, SetSnapshot
  PROVE  \A i \in DOMAIN downlink' : downlink'[i].version <= node
<1>1. node \in Nat /\ \A i \in DOMAIN downlink : downlink[i].version <= node
  BY DEF TInv, TypeOK, Bounded, Versions
<1>2. \A i \in DOMAIN downlink' :
        \/ i \in DOMAIN downlink /\ downlink'[i] = downlink[i]
        \/ downlink'[i].version = node
  BY SnapshotStep
<1>. QED
  BY <1>1, <1>2

LEMMA InitTypes == Init => TInv
<1>. SUFFICES ASSUME Init PROVE TInv
  OBVIOUS
<1>1. 0 \in Versions
  BY BoundsAssumption DEF Versions
<1>2. uplink \in Seq(Asked) /\ downlink \in Seq(Answered) /\ content \in [1..node -> Contents]
  BY DEF Init
<1>3. node \in Versions /\ snap \in Versions /\ dealt \in Versions /\ run \in Nat /\ faults \in Nat
  BY <1>1 DEF Init
<1>4. accepted \in [Types -> Versions] /\ Bounded
  BY <1>1 DEF Init, Bounded
<1>5. IsFiniteSet(watches)
  BY FS_EmptySet DEF Init
<1>. QED
  BY <1>2, <1>3, <1>4, <1>5 DEF Init, TInv, TypeOK

\* The request a stream goroutine is at.
LEMMA HandlingType ==
  ASSUME TInv, handling # Nothing
  PROVE  /\ handling \in Handling /\ handling.req \in Asked
         /\ handling.req.type \in Types /\ handling.req.version \in Versions
BY DEF TInv, Handling, Asked

LEMMA WriteStep ==
  ASSUME TInv, OnStreamRequest
  PROVE  /\ handling # Nothing
         /\ handling' \in Handling /\ handling'.req = handling.req
         /\ \/ worker' = Record(handling.req)
            \/ UNCHANGED worker
<1>1. handling \in Handling /\ handling' = [handling EXCEPT !.step = "watch"]
  BY HandlingType DEF OnStreamRequest
<1>. QED
  BY <1>1 DEF OnStreamRequest, Handling

LEMMA EndStep ==
  ASSUME TInv, StreamEnds
  PROVE  /\ handling' = Nothing /\ DOMAIN downlink' = {} /\ DOMAIN uplink' = {}
         /\ asked' \subseteq Types \X SUBSET Names /\ watches' \subseteq Asked
         /\ owed' \subseteq Types /\ known' \subseteq Types
         /\ uplink' \in Seq(Asked) /\ downlink' \in Seq(Answered)
         /\ IsFiniteSet(watches')
         /\ \/ late' = Nothing
            \/ handling # Nothing /\ late' = Record(handling.req)
         /\ late' \in {Nothing} \cup Written
BY HandlingType, RecordType, FS_EmptySet DEF StreamEnds, TInv

LEMMA WatchStep ==
  ASSUME TInv, CreateWatch
  PROVE  /\ watches' \subseteq Asked /\ IsFiniteSet(watches')
         /\ owed' \subseteq Types /\ known' \subseteq Types
         /\ downlink' \in Seq(Answered)
         /\ DOMAIN downlink = 1..Len(downlink) /\ Len(downlink) \in Nat
         /\ \A i \in DOMAIN downlink' :
              \/ i \in DOMAIN downlink /\ downlink'[i] = downlink[i]
              \/ /\ i > Len(downlink) /\ downlink'[i].version = snap
                 /\ snap # 0
<1>. DEFINE req == handling.req
            others == {w \in watches : w.type # req.type}
            new == [type |-> req.type, version |-> snap]
<1>1. req \in Asked /\ req.type \in Types
  BY HandlingType DEF CreateWatch
<1>2. others \subseteq Asked /\ IsFiniteSet(others)
  BY FS_Subset DEF TInv, TypeOK
<1>3. IsFiniteSet(others \cup {req})
  BY <1>2, FS_AddElement
<1>4. \/ watches' = watches \/ watches' = others \/ watches' = others \cup {req}
  BY DEF CreateWatch
<1>5. watches' \subseteq Asked /\ IsFiniteSet(watches')
  BY <1>1, <1>2, <1>3, <1>4 DEF TInv, TypeOK
<1>6. owed' \subseteq Types /\ known' \subseteq Types
  BY <1>1 DEF CreateWatch, TInv, TypeOK
<1>7. \/ downlink' = downlink
      \/ snap # 0 /\ downlink' = Append(downlink, new)
  BY DEF CreateWatch, Due
<1>8. downlink \in Seq(Answered) /\ snap \in Nat /\ snap \in Versions
  BY DEF TInv, TypeOK, Versions
<1>9. snap # 0 => new \in Answered /\ new.version = snap
  BY <1>1, <1>8 DEF Answered
<1>. HIDE DEF new, req, others
<1>10. snap # 0 =>
         /\ Append(downlink, new) \in Seq(Answered)
         /\ \A i \in DOMAIN Append(downlink, new) :
              \/ i \in DOMAIN downlink /\ Append(downlink, new)[i] = downlink[i]
              \/ i = Len(downlink) + 1 /\ Append(downlink, new)[i] = new
  BY <1>8, <1>9, AppendElements
<1>11. DOMAIN downlink = 1..Len(downlink) /\ Len(downlink) \in Nat
  BY <1>8
<1>12. CASE downlink' = downlink
  BY <1>5, <1>6, <1>8, <1>11, <1>12
<1>13. CASE snap # 0 /\ downlink' = Append(downlink, new)
  BY <1>5, <1>6, <1>9, <1>10, <1>11, <1>13
<1>. QED
  BY <1>7, <1>12, <1>13

LEMMA WatchBounded ==
  ASSUME TInv, CreateWatch
  PROVE  \A i \in DOMAIN downlink' : downlink'[i].version <= node
<1>1. snap <= node /\ \A i \in DOMAIN downlink : downlink[i].version <= node
  BY DEF TInv, Bounded
<1>2. \A i \in DOMAIN downlink' :
        \/ i \in DOMAIN downlink /\ downlink'[i] = downlink[i]
        \/ downlink'[i].version = snap
  BY WatchStep
<1>. QED
  BY <1>1, <1>2

LEMMA ChangeStep ==
  ASSUME TInv, Change
  PROVE  content' \in [1..node' -> Contents]
<1>1. PICK c \in Contents : content' = Append(content, c)
  BY DEF Change
<1>2. node \in Nat /\ content \in [1..node -> Contents]
  BY DEF TInv, TypeOK, Versions
<1>3. content \in Seq(Contents) /\ Len(content) = node
  BY <1>2
<1>4. Append(content, c) \in [1..(node + 1) -> Contents]
  BY <1>2, <1>3, AppendFunction
<1>. QED
  BY <1>1, <1>4 DEF Change

LEMMA NextTypes == TInv /\ [Next]_vars => TInv'
<1>. SUFFICES ASSUME TInv, [Next]_vars PROVE TInv'
  OBVIOUS
<1>. USE DEF TInv, TypeOK, Bounded
<1>0. /\ \A kind : Fault(kind) => faults' \in Nat
      /\ node \in Nat /\ snap \in Nat /\ dealt \in Nat
      /\ \A t \in Types : accepted[t] \in Nat
      /\ \A i \in DOMAIN downlink : downlink[i] \in Answered
  BY DEF Fault, Versions
<1>1. CASE SetSnapshot
  <2>1. snap' = node /\ node \in Versions /\ IsFiniteSet(watches')
    BY <1>1, FS_Subset DEF SetSnapshot
  <2>2. /\ downlink' \in Seq(Answered) /\ watches' \subseteq Asked /\ owed' \subseteq Types
        /\ \A i \in DOMAIN downlink' : downlink'[i].version <= node
    BY <1>1, SnapshotStep, SnapshotBounded
  <2>3. dealt' = node /\ UNCHANGED <<node, content, accepted, asked, uplink, known,
                                     handling, late, worker, stale, run, faults>>
    BY <1>1 DEF SetSnapshot
  <2>. QED
    BY <1>0, <2>1, <2>2, <2>3
<1>2. CASE PassOver
  BY <1>0, <1>2 DEF PassOver, stream
<1>3. CASE Subscribe
  <2>1. PICK t \in Types : Ask(t, accepted[t], "ask")
    BY <1>3 DEF Subscribe
  <2>2. uplink' \in Seq(Asked) /\ asked' \subseteq Types \X SUBSET Names
    BY <2>1, AskType
  <2>. QED
    BY <1>3, <2>2 DEF Subscribe, server
<1>4. CASE Apply
  <2>. DEFINE t == Head(downlink).type
              v == Head(downlink).version
  <2>1. /\ Head(downlink) \in Answered /\ downlink' \in Seq(Answered)
        /\ Head(downlink) = downlink[1] /\ 1 \in DOMAIN downlink
        /\ \A i \in DOMAIN downlink' : /\ i + 1 \in DOMAIN downlink
                                       /\ downlink'[i] = downlink[i + 1]
    BY <1>4, TailElements DEF Apply
  <2>2. t \in Types /\ v \in Versions /\ v <= node
    BY <2>1 DEF Answered
  <2>3. \A i \in DOMAIN downlink' : downlink'[i].version <= node
    BY <2>1
  <2>. HIDE DEF t, v
  <2>4. /\ accepted' \in [Types -> Versions] /\ \A u \in Types : accepted'[u] <= node
        /\ uplink' \in Seq(Asked) /\ asked' \subseteq Types \X SUBSET Names
        /\ faults' \in Nat
    <3>1. CASE accepted' = [accepted EXCEPT ![t] = v] /\ Ask(t, v, "ack") /\ UNCHANGED faults
      <4>1. uplink' \in Seq(Asked) /\ asked' \subseteq Types \X SUBSET Names
        BY <2>2, <3>1, AskType
      <4>2. \A u \in Types : accepted'[u] = accepted[u] \/ accepted'[u] = v
        BY <2>2, <3>1
      <4>. QED
        BY <2>2, <3>1, <4>1, <4>2
    <3>2. CASE Fault("reject") /\ UNCHANGED accepted /\ Ask(t, accepted[t], "nack")
      BY <1>0, <2>2, <3>2, AskType
    <3>. QED
      BY <1>4, <3>1, <3>2 DEF Apply, t, v
  <2>. QED
    BY <1>4, <2>1, <2>3, <2>4 DEF Apply, server
<1>5. CASE Receive
  <2>1. Head(uplink) \in Asked /\ uplink' \in Seq(Asked)
    BY <1>5, TailElements DEF Receive
  <2>2. handling' \in Handling
    BY <1>5, <2>1 DEF Receive, Handling
  <2>3. handling'.step \in {"write", "watch"} /\ handling'.req \in Asked
    BY <2>2 DEF Handling
  <2>. QED
    BY <1>5, <2>1, <2>2, <2>3 DEF Receive, server
<1>6. CASE OnStreamRequest
  <2>1. handling' \in Handling /\ worker' \in {Nothing} \cup Written
    BY <1>6, WriteStep, HandlingType, RecordType
  <2>2. handling'.step \in {"write", "watch"} /\ handling'.req \in Asked
    BY <2>1 DEF Handling
  <2>3. faults' \in Nat /\ stale' \in BOOLEAN
    BY <1>0, <1>6 DEF OnStreamRequest
  <2>. QED
    BY <1>6, <2>1, <2>2, <2>3 DEF OnStreamRequest, stream, server
<1>7. CASE LateWrite
  BY <1>7 DEF LateWrite, stream, server
<1>8. CASE CreateWatch
  <2>1. \A i \in DOMAIN downlink' : downlink'[i].version <= node
    BY <1>8, WatchBounded
  <2>2. handling' = Nothing /\ UNCHANGED <<node, server, accepted, asked, uplink, late,
                                           worker, stale, run, faults>>
    BY <1>8 DEF CreateWatch
  <2>3. /\ watches' \subseteq Asked /\ IsFiniteSet(watches')
        /\ owed' \subseteq Types /\ known' \subseteq Types
        /\ downlink' \in Seq(Answered)
    BY <1>8, WatchStep
  <2>. QED
    BY <2>1, <2>2, <2>3 DEF server
<1>9. CASE Change
  <2>3. content' \in [1..node' -> Contents]
    BY <1>9, ChangeStep
  <2>4. node' \in Versions /\ node' = node + 1
    BY <1>9, BoundsAssumption DEF Change, Versions
  <2>5. Bounded'
    BY <1>0, <1>9, <2>4 DEF Change, stream, Answered, Versions
  <2>. QED
    BY <1>9, <2>3, <2>4, <2>5 DEF Change, stream
<1>10. CASE Reconnect
  BY <1>0, <1>10, EndStep DEF Reconnect, server
<1>11. CASE Restart
  <2>1. \A t \in Types : accepted'[t] = 0 /\ accepted'[t] <= node
    BY <1>0, <1>11 DEF Restart
  <2>2. accepted' \in [Types -> Versions] /\ run' \in Nat
    BY <1>11, BoundsAssumption DEF Restart, Versions
  <2>. QED
    BY <1>0, <1>11, <2>1, <2>2, EndStep DEF Restart, server
<1>12. CASE Reboot
  <2>1. snap' \in Versions /\ dealt' \in Versions /\ snap' <= node /\ dealt' <= node
    BY <1>0, <1>12, BoundsAssumption DEF Reboot, Versions
  <2>. QED
    BY <1>0, <1>12, <2>1, EndStep DEF Reboot
<1>13. CASE UNCHANGED vars
  BY <1>13 DEF vars, stream, server
<1>. QED
  BY <1>1, <1>2, <1>3, <1>4, <1>5, <1>6, <1>7, <1>8, <1>9, <1>10, <1>11, <1>12, <1>13
  DEF Next, Step

\* Every variable keeps its type, for any number of resource types, changes
\* and broken streams.
THEOREM TypeCorrect == Spec => []TypeOK
<1>. QED
  BY InitTypes, NextTypes, PTL DEF Spec, TInv

-----------------------------------------------------------------------------
(* The order of versions *)

LEMMA AnsweredType ==
  ASSUME NEW s \in Seq(Answered), NEW i \in DOMAIN s
  PROVE  s[i] \in Answered /\ s[i].version \in Nat
<1>1. s[i] \in Answered
  OBVIOUS
<1>. QED
  BY <1>1 DEF Answered, Versions

LEMMA AskedType ==
  ASSUME NEW s \in Seq(Asked), NEW i \in DOMAIN s
  PROVE  s[i] \in Asked /\ s[i].version \in Versions
<1>1. s[i] \in Asked
  OBVIOUS
<1>. QED
  BY <1>1 DEF Asked

LEMMA OrderKept ==
  ASSUME TInv, TInv', ResponsesInOrder, UNCHANGED accepted,
         snap <= snap', snap' = snap \/ snap' = node, DOMAIN downlink = 1..Len(downlink), Len(downlink) \in Nat,
         \A i \in DOMAIN downlink' :
           \/ i \in DOMAIN downlink /\ downlink'[i] = downlink[i]
           \/ i > Len(downlink) /\ downlink'[i].version = snap' /\ snap' # 0
  PROVE  ResponsesInOrder'
<1>1. /\ \A t \in Types : accepted[t] \in Nat
      /\ snap \in Nat /\ snap' \in Nat
  BY DEF TInv, TypeOK, Versions
<1>2. \A i \in DOMAIN downlink : downlink[i].version \in Nat
  BY AnsweredType DEF TInv, TypeOK
<1>3. snap' # 0 => \A t \in Types : accepted[t] <= snap'
  BY <1>1 DEF ResponsesInOrder, TInv, Bounded
<1>4. \A i \in DOMAIN downlink' : downlink'[i].version <= snap'
  BY <1>1, <1>2 DEF ResponsesInOrder
<1>5. \A i \in DOMAIN downlink', t \in Types :
        t = downlink'[i].type => accepted[t] <= downlink'[i].version
  BY <1>3 DEF ResponsesInOrder
<1>6. \A i, j \in DOMAIN downlink' :
        i < j => downlink'[i].version <= downlink'[j].version
  <2>. SUFFICES ASSUME NEW i \in DOMAIN downlink', NEW j \in DOMAIN downlink', i < j
                PROVE  downlink'[i].version <= downlink'[j].version
    OBVIOUS
  <2>1. CASE j > Len(downlink) /\ downlink'[j].version = snap'
    BY <1>4, <2>1
  <2>2. CASE j \in DOMAIN downlink /\ downlink'[j] = downlink[j]
    <3>1. i \in DOMAIN downlink /\ downlink'[i] = downlink[i]
      <4>1. CASE i \in DOMAIN downlink /\ downlink'[i] = downlink[i]
        BY <4>1
      <4>2. CASE i > Len(downlink)
        <5>1. DOMAIN downlink' \subseteq Nat
          BY DEF TInv, TypeOK
        <5>. QED
          BY <2>2, <4>2, <5>1
      <4>. QED
        BY <4>1, <4>2
    <3>. QED
      BY <2>2, <3>1 DEF ResponsesInOrder
  <2>. QED
    BY <2>1, <2>2
<1>. QED
  BY <1>3, <1>4, <1>5, <1>6 DEF ResponsesInOrder

LEMMA NextOrder ==
  ASSUME TInv, TInv', ResponsesInOrder, [Next]_vars
  PROVE  /\ ResponsesInOrder'
         /\ \/ \A t \in Types : accepted[t] <= accepted'[t]
            \/ Restart
<1>0. /\ \A t \in Types : accepted[t] \in Nat
      /\ node \in Nat /\ snap \in Nat /\ snap <= node /\ downlink \in Seq(Answered)
  BY DEF TInv, TypeOK, Bounded, Versions
<1>. SUFFICES \/ ResponsesInOrder' /\ UNCHANGED accepted
              \/ ResponsesInOrder' /\ \A t \in Types : accepted[t] <= accepted'[t]
              \/ ResponsesInOrder' /\ Restart
  BY <1>0
<1>1. CASE SetSnapshot
  BY <1>0, <1>1, SnapshotStep, OrderKept DEF SetSnapshot
<1>2. CASE Apply
  <2>. DEFINE t == Head(downlink).type
              v == Head(downlink).version
  <2>1. /\ Head(downlink) \in Answered /\ Head(downlink) = downlink[1]
        /\ 1 \in DOMAIN downlink /\ downlink' = Tail(downlink)
        /\ \A i \in DOMAIN Tail(downlink) :
             /\ i + 1 \in DOMAIN downlink /\ Tail(downlink)[i] = downlink[i + 1]
             /\ i \in Nat \ {0}
    BY <1>0, <1>2, TailElements DEF Apply
  <2>2. t \in Types /\ v \in Nat \ {0}
    BY <2>1 DEF Answered, Versions
  <2>3. accepted[t] <= v /\ v <= snap /\ UNCHANGED snap
    BY <1>2, <2>1, <2>2 DEF ResponsesInOrder, Apply, server
  <2>4. \A i \in DOMAIN downlink' : v <= downlink'[i].version
    BY <2>1 DEF ResponsesInOrder
  <2>5. \/ UNCHANGED accepted
        \/ accepted' = [accepted EXCEPT ![t] = v]
    BY <1>2 DEF Apply
  <2>. HIDE DEF t, v
  <2>6. \A u \in Types : accepted'[u] = accepted[u] \/ (u = t /\ accepted'[u] = v)
    BY <2>2, <2>5 DEF TInv, TypeOK
  <2>7. \A u \in Types : accepted[u] <= accepted'[u] /\ accepted'[u] <= snap'
    BY <1>0, <2>2, <2>3, <2>6 DEF ResponsesInOrder
  <2>8. \A i \in DOMAIN downlink' :
          /\ downlink'[i].version <= snap'
          /\ \A u \in Types : u = downlink'[i].type => accepted'[u] <= downlink'[i].version
    BY <2>1, <2>3, <2>4, <2>6 DEF ResponsesInOrder
  <2>9. \A i, j \in DOMAIN downlink' :
          i < j => downlink'[i].version <= downlink'[j].version
    BY <2>1 DEF ResponsesInOrder
  <2>. QED
    BY <2>7, <2>8, <2>9 DEF ResponsesInOrder
<1>3. CASE CreateWatch
  <2>1. snap' = snap /\ UNCHANGED accepted
    BY <1>3 DEF CreateWatch, server
  <2>. QED
    BY <1>0, <1>3, <2>1, WatchStep, OrderKept
<1>4. CASE Reconnect
  <2>1. DOMAIN downlink' = {} /\ UNCHANGED <<accepted, snap>>
    BY <1>4, EndStep DEF Reconnect, server
  <2>. QED
    BY <2>1 DEF ResponsesInOrder
<1>5. CASE Restart
  <2>1. DOMAIN downlink' = {} /\ \A t \in Types : accepted'[t] = 0
    BY <1>5, EndStep DEF Restart
  <2>2. UNCHANGED snap
    BY <1>5 DEF Restart, server
  <2>. QED
    BY <1>0, <1>5, <2>1, <2>2 DEF ResponsesInOrder
<1>6. CASE Reboot
  <2>1. DOMAIN downlink' = {} /\ snap' = 0 /\ UNCHANGED accepted
    BY <1>6, EndStep DEF Reboot
  <2>. QED
    BY <2>1 DEF ResponsesInOrder
<1>7. CASE \/ Subscribe \/ Receive \/ OnStreamRequest \/ LateWrite \/ Change
           \/ PassOver \/ UNCHANGED vars
  <2>1. UNCHANGED <<accepted, snap, downlink>>
    BY <1>7 DEF Subscribe, Receive, OnStreamRequest, LateWrite, Change, PassOver,
                vars, stream, server
  <2>. QED
    BY <2>1 DEF ResponsesInOrder
<1>. QED
  BY <1>1, <1>2, <1>3, <1>4, <1>5, <1>6, <1>7 DEF Next, Step

-----------------------------
(* What is reported *)

\* What Envoy reached it does not go back behind.
LEMMA StillReached ==
  ASSUME TInv, TInv', \A t \in Types : accepted[t] <= accepted'[t],
         NEW v \in Versions, Reached(v)
  PROVE  Reached(v)'
<1>1. v \in Nat /\ \A t \in Types : accepted[t] \in Nat /\ accepted'[t] \in Nat
  BY DEF TInv, TypeOK, Versions
<1>. QED
  BY <1>1 DEF Reached

LEMMA AskReached ==
  ASSUME TInv, TInv', RequestsReached, \A t \in Types : accepted[t] <= accepted'[t],
         NEW t \in Types, NEW k \in {"ask", "ack", "nack"}, Ask(t, accepted'[t], k)
  PROVE  UplinkReached'
<1>1. accepted'[t] \in Versions
  BY DEF TInv, TypeOK
<1>2. \A i \in DOMAIN uplink' : \/ i \in DOMAIN uplink /\ uplink'[i] = uplink[i]
                                \/ uplink'[i].version = accepted'[t]
  BY <1>1, AskType
<1>3. ASSUME NEW v, v = accepted'[t] PROVE Reached(v)'
  BY <1>1, <1>3 DEF Reached, Versions
<1>4. \A i \in DOMAIN uplink : uplink[i].version \in Versions /\ Reached(uplink[i].version)
  BY AskedType DEF TInv, TypeOK, RequestsReached, UplinkReached
<1>. SUFFICES ASSUME NEW i \in DOMAIN uplink', NEW v, v = uplink'[i].version
              PROVE  Reached(v)'
  BY DEF UplinkReached, Reached
<1>. QED
  BY <1>2, <1>3, <1>4, StillReached

\* A write of another run is none of this one.
LEMMA RestartReached ==
  ASSUME AInv, TInv', Restart
  PROVE  RequestsReached'
<1>0. TInv /\ RequestsReached /\ run \in Nat
  BY DEF AInv, TInv, TypeOK
<1>1. /\ handling' = Nothing /\ DOMAIN uplink' = {}
      /\ late' = Nothing \/ (handling # Nothing /\ late' = Record(handling.req))
  BY <1>0, EndStep DEF Restart
<1>2. run' = run + 1 /\ UNCHANGED worker
  BY DEF Restart
<1>3. handling # Nothing => Record(handling.req).run = run
  BY DEF Record
<1>4. late' # Nothing => late'.run = run
  BY <1>1, <1>3
<1>5. worker # Nothing => worker.run <= run /\ worker.run \in Nat
  BY <1>0 DEF RequestsReached, WorkerReached, TInv, TypeOK, Written
<1>6. LateReached'
  BY <1>0, <1>2, <1>4 DEF LateReached
<1>7. WorkerReached'
  BY <1>0, <1>2, <1>5 DEF WorkerReached
<1>. QED
  BY <1>1, <1>6, <1>7 DEF RequestsReached, UplinkReached, HandlingReached

LEMMA NextReached ==
  ASSUME AInv, TInv', \A t \in Types : accepted[t] <= accepted'[t],
         [Next]_vars, ~Restart
  PROVE  RequestsReached'
<1>0. TInv /\ RequestsReached /\ TypeOK
  BY DEF AInv, TInv
<1>1. ASSUME NEW v \in Versions, Reached(v) PROVE Reached(v)'
  BY <1>0, <1>1, StillReached
<1>2. /\ handling # Nothing => handling.req.version \in Versions /\ handling.req \in Asked
      /\ late # Nothing => late.version \in Versions
      /\ worker # Nothing => worker.version \in Versions
  BY <1>0, HandlingType DEF TInv, TypeOK, Written
<1>3. \A i \in DOMAIN uplink : uplink[i].version \in Versions /\ Reached(uplink[i].version)
  BY <1>0, AskedType DEF TInv, TypeOK, RequestsReached, UplinkReached
<1>4. /\ handling # Nothing => Reached(handling.req.version)
      /\ late # Nothing =>
           late.run <= run /\ (late.run = run => Reached(late.version))
      /\ worker # Nothing =>
           worker.run <= run /\ (worker.run = run => Reached(worker.version))
  BY <1>0 DEF RequestsReached, HandlingReached, LateReached, WorkerReached
<1>5. UNCHANGED run /\ run \in Nat
  BY <1>0 DEF Next, Step, SetSnapshot, PassOver, Subscribe, Apply, Receive,
              OnStreamRequest, LateWrite, CreateWatch, Change, Reconnect, Reboot,
              vars, TypeOK
<1>6. handling # Nothing =>
        /\ Record(handling.req).version = handling.req.version
        /\ Record(handling.req).run = run /\ Record(handling.req) # Nothing
  BY <1>0, <1>2, RecordType
<1>7. UNCHANGED uplink => UplinkReached'
  <2>. SUFFICES ASSUME UNCHANGED uplink, NEW i \in DOMAIN uplink, NEW v, v = uplink[i].version
                PROVE  Reached(v)'
    BY DEF UplinkReached, Reached
  <2>. QED
    BY <1>1, <1>3
<1>8. ASSUME handling' # Nothing => handling # Nothing /\ handling'.req = handling.req
      PROVE  HandlingReached'
  <2>. SUFFICES ASSUME handling' # Nothing, NEW v, v = handling'.req.version
                PROVE  Reached(v)'
    BY DEF HandlingReached, Reached
  <2>. QED
    BY <1>1, <1>2, <1>4, <1>8
<1>9. ASSUME \/ late' = Nothing
             \/ UNCHANGED late
             \/ handling # Nothing /\ late' = Record(handling.req)
      PROVE  LateReached'
  <2>1. late' # Nothing => late'.run <= run'
    BY <1>4, <1>5, <1>6, <1>9
  <2>2. ASSUME late' # Nothing, late'.run = run', NEW v, v = late'.version
        PROVE  Reached(v)'
    BY <1>1, <1>2, <1>4, <1>5, <1>6, <1>9, <2>2
  <2>. QED
    BY <2>1, <2>2 DEF LateReached, Reached
<1>10. ASSUME \/ UNCHANGED worker
              \/ handling # Nothing /\ worker' = Record(handling.req)
              \/ late # Nothing /\ worker' = late
       PROVE  WorkerReached'
  <2>1. worker' # Nothing => worker'.run <= run'
    BY <1>4, <1>5, <1>6, <1>10
  <2>2. ASSUME worker' # Nothing, worker'.run = run', NEW v, v = worker'.version
        PROVE  Reached(v)'
    BY <1>1, <1>2, <1>4, <1>5, <1>6, <1>10, <2>2
  <2>. QED
    BY <2>1, <2>2 DEF WorkerReached, Reached
<1>11. CASE Subscribe
  <2>1. PICK t \in Types : Ask(t, accepted[t], "ask")
    BY <1>11 DEF Subscribe
  <2>2. UplinkReached'
    BY <1>0, <1>11, <2>1, AskReached DEF AInv, Subscribe
  <2>. QED
    BY <1>8, <1>9, <1>10, <1>11, <2>2 DEF Subscribe, RequestsReached
<1>12. CASE Apply
  <2>. DEFINE t == Head(downlink).type
              v == Head(downlink).version
  <2>1. Head(downlink) \in Answered
    BY <1>0, <1>12, TailElements DEF Apply, TInv, TypeOK
  <2>2. t \in Types /\ v \in Versions
    BY <2>1 DEF Answered
  <2>. HIDE DEF t, v
  <2>3. UplinkReached'
    <3>1. CASE accepted' = [accepted EXCEPT ![t] = v] /\ Ask(t, v, "ack")
      <4>1. accepted'[t] = v
        BY <1>0, <2>2, <3>1 DEF TInv, TypeOK
      <4>. QED
        BY <1>0, <2>2, <3>1, <4>1, AskReached
    <3>2. CASE UNCHANGED accepted /\ Ask(t, accepted[t], "nack")
      BY <1>0, <2>2, <3>2, AskReached
    <3>. QED
      BY <1>12, <3>1, <3>2 DEF Apply, t, v
  <2>. QED
    BY <1>8, <1>9, <1>10, <1>12, <2>3 DEF Apply, RequestsReached
<1>13. CASE Receive
  <2>1. /\ 1 \in DOMAIN uplink /\ Head(uplink) = uplink[1]
        /\ \A i \in DOMAIN Tail(uplink) :
             i + 1 \in DOMAIN uplink /\ Tail(uplink)[i] = uplink[i + 1]
    BY <1>0, <1>13, TailElements DEF Receive, TInv, TypeOK
  <2>2. UplinkReached'
    <3>. SUFFICES ASSUME NEW i \in DOMAIN uplink', NEW v, v = uplink'[i].version
                  PROVE  Reached(v)'
      BY DEF UplinkReached, Reached
    <3>. QED
      BY <1>1, <1>3, <1>13, <2>1 DEF Receive
  <2>3. HandlingReached'
    <3>. SUFFICES ASSUME NEW v, v = handling'.req.version
                  PROVE  Reached(v)'
      BY DEF HandlingReached, Reached
    <3>. QED
      BY <1>1, <1>3, <1>13, <2>1 DEF Receive
  <2>. QED
    BY <1>9, <1>10, <1>13, <2>2, <2>3 DEF Receive, RequestsReached
<1>14. CASE OnStreamRequest
  <2>1. /\ handling # Nothing /\ handling'.req = handling.req
        /\ worker' = Record(handling.req) \/ UNCHANGED worker
    BY <1>0, <1>14, WriteStep
  <2>2. UNCHANGED <<uplink, late>>
    BY <1>14 DEF OnStreamRequest, stream
  <2>. QED
    BY <1>7, <1>8, <1>9, <1>10, <2>1, <2>2 DEF RequestsReached
<1>15. CASE LateWrite
  <2>1. /\ late # Nothing /\ worker' = late /\ late' = Nothing
        /\ UNCHANGED <<uplink, handling>>
    BY <1>15 DEF LateWrite, stream
  <2>. QED
    BY <1>7, <1>8, <1>9, <1>10, <2>1 DEF RequestsReached
<1>16. CASE Reconnect \/ Reboot
  <2>1. /\ handling' = Nothing /\ UNCHANGED worker /\ DOMAIN uplink' = {}
        /\ late' = Nothing \/ (handling # Nothing /\ late' = Record(handling.req))
    BY <1>0, <1>16, EndStep DEF Reconnect, Reboot
  <2>2. UplinkReached'
    BY <2>1 DEF UplinkReached
  <2>. QED
    BY <1>8, <1>9, <1>10, <2>1, <2>2 DEF RequestsReached
<1>17. CASE SetSnapshot \/ PassOver \/ CreateWatch \/ Change \/ UNCHANGED vars
  <2>1. /\ handling' = Nothing \/ UNCHANGED handling
        /\ UNCHANGED <<uplink, late, worker>>
    BY <1>17 DEF SetSnapshot, PassOver, CreateWatch, Change, vars, stream
  <2>. QED
    BY <1>7, <1>8, <1>9, <1>10, <2>1 DEF RequestsReached
<1>. QED
  BY <1>11, <1>12, <1>13, <1>14, <1>15, <1>16, <1>17 DEF Next, Step

\* The reported version is never ahead of the run of Envoy that asked: it has
\* that version of some type or a newer one, however requests, responses,
\* broken streams, late writes and restarts of either side interleave.
THEOREM ReportsAreReached == Spec => []NeverAheadOfEnvoy
<1>1. Init => AInv
  <2>. SUFFICES ASSUME Init PROVE AInv
    OBVIOUS
  <2>1. ResponsesInOrder
    BY BoundsAssumption DEF Init, ResponsesInOrder
  <2>2. RequestsReached
    BY DEF Init, RequestsReached, UplinkReached, HandlingReached, LateReached, WorkerReached
  <2>. QED
    BY <2>1, <2>2, InitTypes DEF AInv
<1>2. AInv /\ [Next]_vars => AInv'
  <2>. SUFFICES ASSUME AInv, [Next]_vars PROVE AInv'
    OBVIOUS
  <2>1. TInv'
    BY NextTypes DEF AInv
  <2>2. ResponsesInOrder' /\ (Restart \/ \A t \in Types : accepted[t] <= accepted'[t])
    BY <2>1, NextOrder DEF AInv
  <2>3. RequestsReached'
    BY <2>1, <2>2, RestartReached, NextReached
  <2>. QED
    BY <2>1, <2>2, <2>3 DEF AInv
<1>3. AInv => NeverAheadOfEnvoy
  BY DEF AInv, RequestsReached, WorkerReached, Reached, NeverAheadOfEnvoy
<1>. QED
  BY <1>1, <1>2, <1>3, PTL DEF Spec
=============================================================================
