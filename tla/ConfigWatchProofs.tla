-------------------------- MODULE ConfigWatchProofs ---------------------------
(***************************************************************************)
(* Proofs about ConfigWatch for any documents, processes, faults and       *)
(* bounds: type correctness, LiveConfigInForce, and UpToDate as long as    *)
(* rate limits are not changed.                                            *)
(***************************************************************************)
EXTENDS ConfigWatch, TLAPS

(* The inductive invariant *)

\* What the process has when it has nothing left to learn.
Expected == IF service = "authz" THEN Nothing ELSE Wanted

\* The stream is open from the end of Watch, and has only events that lead
\* to a reload.
EventsLeadToReload ==
    /\ streaming <=> pc \in {"loop", "load", "set"}
    /\ ~streaming => events = <<>>
    /\ \A i \in DOMAIN events : Handled(events[i])

\* What was loaded is what is stored, or an event is on its way that says
\* otherwise, or a change came before the stream.
Following ==
    ~missed => /\ pc = "watch" => config = Expected
               /\ pc = "loop" => config = Expected \/ events # <<>>
               /\ pc = "set" => cache = Expected \/ events # <<>>

TInv == TypeOK /\ LiveConfigInForce
FInv == TInv /\ EventsLeadToReload /\ Following

\* The ratelimit process takes a change of a rate limit for nothing: its
\* loop handles "update", the REST handler's ReplaceOne raises "replace".
NoChange == "ratelimit" \in DOMAIN Operations => "change" \notin Operations["ratelimit"]

-----------------------------------------------------------------------------
(* Types, and what is in force *)

LEMMA NothingType == Nothing \in Configs
BY DEF Nothing, Configs

\* Loading brings a configuration or none.
LEMMA LoadedType ==
  ASSUME TypeOK, NEW c \in Loaded
  PROVE  c = Nil \/ c \in Configs
<1>1. service \in {"ratelimit", "authz", "authzs3"} /\ stored \in Configs
  BY OperationsAssumption DEF TypeOK
<1>2. Wanted \in {Nil} \cup Configs
  BY <1>1 DEF Wanted
<1>3. Failures \subseteq {Nil} \cup Configs
  <2>1. CASE service = "authz"
    BY <2>1, NothingType DEF Failures
  <2>2. CASE service = "authzs3"
    BY <2>2 DEF Failures
  <2>3. CASE service = "ratelimit"
    <3>1. Failures = {Nil} \cup {d \in Configs : \A k \in Keys : d[k] \in {stored[k], NoValue}}
      BY <2>3 DEF Failures
    <3>. QED
      BY <3>1
  <2>. QED
    BY <1>1, <2>1, <2>2, <2>3
<1>. QED
  BY <1>2, <1>3 DEF Loaded

LEMMA InitTypes == Init => TInv
<1>1. Init => events \in Seq({"insert", "replace", "delete"})
  BY DEF Init
<1>. QED
  BY <1>1, NothingType DEF Init, TInv, TypeOK, LiveConfigInForce

LEMMA ChangeTypes ==
  ASSUME TInv, NEW k, NEW v \in {NoValue} \cup Values,
         NEW type \in {"insert", "replace", "delete"}, Change(k, v, type)
  PROVE  TInv'
<1>1. [stored EXCEPT ![k] = v] \in Configs
  BY DEF TInv, TypeOK, Configs
<1>2. events' \in Seq({"insert", "replace", "delete"})
  BY DEF TInv, TypeOK, Change
<1>3. missed' \in BOOLEAN
  BY DEF Change, TInv, TypeOK
<1>. QED
  BY <1>1, <1>2, <1>3 DEF Change, TInv, TypeOK, LiveConfigInForce

LEMMA DownTypes ==
  ASSUME TInv, Down
  PROVE  TInv'
<1>1. events' \in Seq({"insert", "replace", "delete"})
  BY DEF Down
<1>. QED
  BY <1>1 DEF Down, TInv, TypeOK, LiveConfigInForce

LEMMA NextTypes == TInv /\ [Next]_vars => TInv'
<1>. SUFFICES ASSUME TInv, [Next]_vars PROVE TInv'
  OBVIOUS
<1>1. ASSUME NEW k \in Documents, NEW v \in Values, Put(k, v) PROVE TInv'
  BY <1>1, ChangeTypes DEF Put
<1>2. ASSUME NEW k \in Documents, Delete(k) PROVE TInv'
  BY <1>2, ChangeTypes DEF Delete
<1>3. CASE Start
  <2>1. PICK c \in Loaded : cache' = c /\ config' = c /\ missed' = Lost(c)
    BY <1>3 DEF Start
  <2>2. Lost(c) \in BOOLEAN
    BY DEF Lost
  <2>. QED
    BY <1>3, <2>1, <2>2, LoadedType DEF Start, TInv, TypeOK, LiveConfigInForce
<1>4. CASE Watch
  BY <1>4 DEF Watch, TInv, TypeOK, LiveConfigInForce
<1>5. CASE TakeEvent
  BY <1>5 DEF TakeEvent, TInv, TypeOK, LiveConfigInForce
<1>6. CASE Reload
  <2>1. PICK c \in Loaded : cache' = c /\ missed' = Lost(c)
    BY <1>6 DEF Reload
  <2>2. Lost(c) \in BOOLEAN
    BY DEF Lost
  <2>. QED
    BY <1>6, <2>1, <2>2, LoadedType DEF Reload, TInv, TypeOK, LiveConfigInForce
<1>7. CASE SetConfig
  BY <1>7 DEF SetConfig, TInv, TypeOK, LiveConfigInForce
<1>8. CASE Request \/ Crash
  BY <1>8, DownTypes DEF Request, Crash
<1>9. CASE UNCHANGED vars
  BY <1>9 DEF vars, TInv, TypeOK, LiveConfigInForce
<1>. QED
  BY <1>1, <1>2, <1>3, <1>4, <1>5, <1>6, <1>7, <1>8, <1>9 DEF Next, Main

\* Every variable keeps its type: loadConfig returns a configuration or nil
\* whatever fails, and main() and the service hold nothing else.
THEOREM TypeCorrect == Spec => []TypeOK
<1>. QED
  BY InitTypes, NextTypes, PTL DEF Spec, TInv

\* Whenever main() of ratelimit or authzs3 waits for an event, the service has
\* the configuration that main() has: what GetLiveConfig shows is in force.
THEOREM LiveConfigIsInForce == Spec => []LiveConfigInForce
<1>. QED
  BY InitTypes, NextTypes, PTL DEF Spec, TInv

-----------------------------------------------------------------------------
(* Following the collection *)

\* A load that the database let succeed returns what it should.
LEMMA LoadedExpected ==
  ASSUME NEW c \in Loaded, ~ Lost(c)
  PROVE  c = Expected
<1>1. CASE service = "authz"
  BY <1>1 DEF Loaded, Failures, Expected
<1>2. CASE service # "authz"
  BY <1>2 DEF Loaded, Lost, Expected
<1>. QED
  BY <1>1, <1>2

LEMMA AppendElements ==
  ASSUME NEW S, NEW s \in Seq(S), NEW x \in S
  PROVE  /\ Append(s, x) # <<>>
         /\ \A i \in DOMAIN Append(s, x) :
              \/ Append(s, x)[i] = x
              \/ i \in DOMAIN s /\ Append(s, x)[i] = s[i]
OBVIOUS

LEMMA InitFollowing == Init => FInv
BY InitTypes DEF FInv, Init, EventsLeadToReload, Following

LEMMA ChangeFollows ==
  ASSUME FInv, NEW k, NEW v, NEW type \in {"insert", "replace", "delete"},
         Handled(type), Change(k, v, type)
  PROVE  EventsLeadToReload' /\ Following'
<1>1. CASE streaming
  <2>1. events' = Append(events, type) /\ events \in Seq({"insert", "replace", "delete"})
    BY <1>1 DEF Change, FInv, TInv, TypeOK
  <2>2. \A i \in DOMAIN Append(events, type) :
          \/ Append(events, type)[i] = type
          \/ i \in DOMAIN events /\ Append(events, type)[i] = events[i]
    BY <2>1, AppendElements
  <2>3. \A i \in DOMAIN events' : Handled(events'[i])
    BY <2>1, <2>2 DEF FInv, EventsLeadToReload
  <2>4. EventsLeadToReload'
    BY <1>1, <2>3 DEF Change, FInv, EventsLeadToReload, Handled
  <2>5. events' # <<>>
    BY <2>1, AppendElements
  <2>. QED
    BY <1>1, <2>4, <2>5 DEF Change, FInv, EventsLeadToReload, Following
<1>2. CASE ~ streaming
  <2>1. pc \notin {"loop", "load", "set"} /\ events' = events /\ events = <<>>
    BY <1>2 DEF Change, FInv, EventsLeadToReload
  <2>2. EventsLeadToReload'
    BY <1>2, <2>1 DEF Change, FInv, EventsLeadToReload, Handled
  <2>3. Following'
    BY <1>2, <2>1 DEF Change, Following
  <2>. QED
    BY <2>2, <2>3
<1>. QED
  BY <1>1, <1>2 DEF FInv, TInv, TypeOK

LEMMA NextFollowing == NoChange /\ FInv /\ [Next]_vars => FInv'
<1>. SUFFICES ASSUME NoChange, FInv, [Next]_vars PROVE FInv'
  OBVIOUS
<1>0. TInv'
  BY NextTypes DEF FInv
<1>. SUFFICES EventsLeadToReload' /\ Following'
  BY <1>0 DEF FInv
<1>. USE DEF EventsLeadToReload, Following, Handled, Expected, Wanted
<1>1. ASSUME NEW k \in Documents, NEW v \in Values, Put(k, v)
      PROVE  EventsLeadToReload' /\ Following'
  <2>1. CASE Change(k, v, "insert")
    BY <2>1, ChangeFollows DEF Handled
  <2>2. CASE "change" \in Operations[service] /\ Change(k, v, "replace")
    <3>1. service # "ratelimit"
      BY <2>2 DEF NoChange, FInv, TInv, TypeOK
    <3>. QED
      BY <2>2, <3>1, ChangeFollows DEF Handled
  <2>. QED
    BY <1>1, <2>1, <2>2 DEF Put
<1>2. ASSUME NEW k \in Documents, Delete(k)
      PROVE  EventsLeadToReload' /\ Following'
  BY <1>2, ChangeFollows DEF Delete, Handled
<1>3. CASE Start
  <2>1. PICK c \in Loaded : cache' = c /\ config' = c /\ missed' = Lost(c)
    BY <1>3 DEF Start
  <2>2. ~missed' => config' = Expected /\ Expected' = Expected
    BY <1>3, <2>1, LoadedExpected DEF Start
  <2>. QED
    BY <1>3, <2>2 DEF Start, FInv
<1>4. CASE Watch
  BY <1>4 DEF Watch, FInv
<1>5. CASE TakeEvent
  <2>1. events # <<>> /\ events \in Seq({"insert", "replace", "delete"})
    BY <1>5 DEF TakeEvent, FInv, TInv, TypeOK
  <2>2. Handled(Head(events))
    BY <2>1 DEF FInv
  <2>3. \A i \in DOMAIN Tail(events) : i + 1 \in DOMAIN events /\ Tail(events)[i] = events[i + 1]
    BY <2>1
  <2>. QED
    BY <1>5, <2>2, <2>3 DEF TakeEvent, FInv
<1>6. CASE Reload
  <2>1. PICK c \in Loaded : cache' = c /\ missed' = Lost(c)
    BY <1>6 DEF Reload
  <2>2. ~missed' => cache' = Expected /\ Expected' = Expected
    BY <1>6, <2>1, LoadedExpected DEF Reload
  <2>. QED
    BY <1>6, <2>2 DEF Reload, FInv
<1>7. CASE SetConfig
  BY <1>7 DEF SetConfig, FInv
<1>8. CASE Request \/ Crash
  BY <1>8 DEF Request, Crash, Down
<1>9. CASE UNCHANGED vars
  BY <1>9 DEF vars, FInv
<1>. QED
  BY <1>1, <1>2, <1>3, <1>4, <1>5, <1>6, <1>7, <1>8, <1>9 DEF Next, Main

\* When no rate limit is changed, a process that waits with no event pending
\* and has missed nothing has what is stored: creations and deletions are
\* never left unread, wherever main() is when they come.
THEOREM ChangesAreFollowed ==
  ASSUME NoChange
  PROVE  Spec => []UpToDate
<1>1. FInv => UpToDate
  BY DEF FInv, Following, UpToDate, Expected
<1>2. FInv /\ [Next]_vars => FInv'
  BY NextFollowing
<1>. QED
  BY <1>1, <1>2, InitFollowing, PTL DEF Spec
=============================================================================
