--------------------------- MODULE AccessLogProofs ----------------------------
(***************************************************************************)
(* Proofs about AccessLog for any streams, workers, messages, backends,    *)
(* number of retries and bounds: type correctness, Accounted,              *)
(* LoggedAsSent and IndexedInTime.                                         *)
(***************************************************************************)
EXTENDS AccessLog, FiniteSetTheorems, WellFoundedInduction, TLAPS

(* Sets *)

Below == {p \in Nat \X Nat : p[1] < p[2]}

LEMMA LeastOf ==
  ASSUME NEW S \in SUBSET Nat, S # {}
  PROVE  Min(S) \in S /\ \A k \in S : Min(S) <= k
<1>1. IsWellFoundedOn(Below, Nat)
  <2>1. Below = OpToRel(<, Nat)
    BY DEF Below, OpToRel
  <2>. QED
    BY <2>1, NatLessThanWellFounded
<1>2. PICK n \in S : \A k \in S : <<k, n>> \notin Below
  BY <1>1, WFMin
<1>3. n \in S /\ \A k \in S : n <= k
  <2>. SUFFICES ASSUME NEW k \in S PROVE n <= k
    OBVIOUS
  <2>1. n \in Nat /\ k \in Nat /\ <<k, n>> \in Nat \X Nat
    OBVIOUS
  <2>2. ~(k < n)
    BY <1>2, <2>1 DEF Below
  <2>. QED
    BY <2>1, <2>2
<1>. DEFINE Q(x) == x \in S /\ \A k \in S : x <= k
<1>4. Q(CHOOSE x : Q(x))
  BY <1>3
<1>5. Min(S) = CHOOSE x : Q(x)
  BY DEF Min
<1>. QED
  BY <1>4, <1>5

\* A set all of whose elements are the same.
LEMMA AtMostOne ==
  ASSUME NEW S, \A x, y \in S : x = y
  PROVE  IF S = {} THEN Cardinality(S) = 0 ELSE Cardinality(S) = 1
<1>1. CASE S = {}
  BY <1>1, FS_EmptySet
<1>2. ASSUME NEW x \in S PROVE Cardinality(S) = 1
  <2>1. S = {x}
    OBVIOUS
  <2>. QED
    BY <2>1, FS_Singleton
<1>. QED
  BY <1>1, <1>2

-----------------------------------------------------------------------------
(* Types *)

Kinds == {"http", "tcp"}
Sayings == {Convert(m.entries[k]) : m \in Messages, k \in 1..MaxEntries}
Items == [id: Ids, kind: Kinds, says: Sayings, index: Seq(Nat),
          began: Nat, ended: Nat]
HandlerType == [link: {"none", "open", "broken"}, msg: Messages \cup {None},
                n: Nat, next: Nat, read: Seq(Nat), began: Nat]

\* Entries there are in the messages rec, and items that say of such an
\* entry what it says.
Due(i, rec) ==
    /\ i[1] \in DOMAIN rec /\ i[2] \in DOMAIN rec[i[1]].entries
    /\ rec[i[1]].entries[i[2]] # None
ItemsOf(rec) ==
    {x \in Items : /\ Due(x.id, rec) /\ x.kind = rec[x.id[1]].kind
                   /\ x.says = Convert(rec[x.id[1]].entries[x.id[2]])}
WorkerType(rec) == [batch: Seq(ItemsOf(rec)), sent: 0..Retries]

\* A goroutine at work is at an entry of a message that was received.
Fits(h, rec) ==
    /\ h.link = "none" => h.msg = None
    /\ h.msg # None =>
         /\ h.n \in DOMAIN rec /\ h.msg = rec[h.n]
         /\ h.next \in 1..Len(h.msg.entries) /\ h.msg.entries[h.next] # None
         /\ Len(h.read) <= Parts(h.msg.kind)

Shape ==
    /\ up \in BOOLEAN /\ backend \in Backends /\ clock \in FirstTime..MaxTime
    /\ received \in Seq(Messages) /\ Len(received) <= MaxMessages
    /\ handler \in [Streams -> HandlerType]
    /\ \A s \in Streams : Fits(handler[s], received)
    /\ queue \in Seq(ItemsOf(received)) /\ Len(queue) <= Cardinality(Workers)
    /\ worker \in [Workers -> WorkerType(received)]
    /\ \A w \in Workers : worker[w].sent > 0 => worker[w].batch # <<>>
    /\ store \in SUBSET ItemsOf(received) /\ copies \in [Ids -> Nat]
    /\ {i.id : i \in store} = {i \in Ids : copies[i] > 0}
    /\ doubtful \subseteq Ids /\ dropped \subseteq Ids /\ lost \subseteq Ids
    /\ backend = "ch" \/ ~up => queue = <<>> /\ \A w \in Workers : worker[w].batch = <<>>

\* The entries in the hand of a goroutine, as a function of its locals.
Ahead(h, k) == {j \in k..Len(h.msg.entries) : h.msg.entries[j] # None}
HandOf(h) == IF h.msg # None THEN {<<h.n, k>> : k \in Ahead(h, h.next)} ELSE {}

LEMMA InHandOf == \A s \in Streams : InHand(s) = HandOf(handler[s])
BY DEF InHand, HandOf, Ahead, Busy

\* From finds the next entry there is.
LEMMA FromNext ==
  ASSUME NEW h \in HandlerType, h.msg \in Messages, NEW k \in Nat \ {0}
  PROVE  LET g == From(h, k) IN
         /\ g \in HandlerType /\ g.link = h.link
         /\ IF Ahead(h, k) = {} THEN g.msg = None
            ELSE /\ g.msg = h.msg /\ g.n = h.n /\ g.read = <<>>
                 /\ g.next \in Ahead(h, k)
         /\ HandOf(g) = {<<h.n, j>> : j \in Ahead(h, k)}
<1>. DEFINE rest == Ahead(h, k)
            len == Len(h.msg.entries)
            g == From(h, k)
<1>1. len \in Nat /\ h.link \in {"none", "open", "broken"} /\ <<>> \in Seq(Nat)
  BY MessagesAssumption, BoundsAssumption DEF HandlerType
<1>2. CASE rest = {}
  <2>1. g = [link |-> h.link, msg |-> None, n |-> 0, next |-> 1, read |-> <<>>, began |-> 0]
    BY <1>2 DEF From, Waiting, Ahead
  <2>2. g \in HandlerType /\ g.msg = None /\ g.link = h.link
    BY <1>1, <2>1 DEF HandlerType
  <2>. QED
    BY <1>2, <2>2 DEF HandOf
<1>3. CASE rest # {}
  <2>. DEFINE next == Min(rest)
  <2>1. rest \in SUBSET Nat
    BY <1>1 DEF Ahead
  <2>2. next \in rest /\ next \in Nat /\ \A j \in rest : next <= j
    BY <1>3, <2>1, LeastOf
  <2>3. g = [h EXCEPT !.next = next, !.read = <<>>, !.began = 0]
    BY <1>3 DEF From, Ahead
  <2>. HIDE DEF next, g
  <2>4. /\ g \in HandlerType /\ g.link = h.link /\ g.msg = h.msg /\ g.n = h.n
        /\ g.read = <<>> /\ g.next = next
    BY <1>1, <2>2, <2>3 DEF HandlerType
  <2>5. Ahead(g, g.next) = rest
    BY <1>1, <2>1, <2>2, <2>4 DEF Ahead
  <2>6. HandOf(g) = {<<h.n, j>> : j \in rest}
    BY <2>4, <2>5, MessagesAssumption DEF HandOf
  <2>. QED
    BY <1>3, <2>2, <2>4, <2>6 DEF g
<1>. QED
  BY <1>2, <1>3

LEMMA FromFits ==
  ASSUME NEW h \in HandlerType, h.msg \in Messages, h.link # "none", NEW rec,
         h.n \in DOMAIN rec, h.msg = rec[h.n], NEW k \in Nat \ {0}
  PROVE  Fits(From(h, k), rec)
<1>. DEFINE g == From(h, k)
<1>1. /\ g.link # "none"
      /\ g.msg # None => /\ g.msg = h.msg /\ g.n = h.n /\ g.read = <<>>
                         /\ g.next \in Ahead(h, k)
  BY FromNext
<1>. HIDE DEF g
<1>2. Len(h.msg.entries) \in Nat
  BY MessagesAssumption, BoundsAssumption
<1>3. g.next \in Ahead(h, k) =>
        g.next \in 1..Len(h.msg.entries) /\ h.msg.entries[g.next] # None
  BY <1>2 DEF Ahead
<1>4. Len(<<>>) <= Parts(h.msg.kind)
  BY DEF Parts
<1>. QED
  BY <1>1, <1>3, <1>4 DEF Fits, g

LEMMA WaitingFits ==
  ASSUME NEW link \in {"none", "open", "broken"}, NEW rec
  PROVE  Waiting(link) \in HandlerType /\ Fits(Waiting(link), rec) /\ HandOf(Waiting(link)) = {}
BY DEF Waiting, HandlerType, Fits, HandOf

\* What was true of a message stays true when others come.
LEMMA MoreMessages ==
  ASSUME NEW rec \in Seq(Messages), NEW m \in Messages
  PROVE  LET more == Append(rec, m) IN
         /\ more \in Seq(Messages) /\ Len(more) = Len(rec) + 1
         /\ more[Len(rec) + 1] = m
         /\ \A n \in DOMAIN rec : n \in DOMAIN more /\ more[n] = rec[n] /\ n # Len(rec) + 1
         /\ \A n \in DOMAIN more : n \in DOMAIN rec \/ n = Len(rec) + 1
         /\ \A h : Fits(h, rec) => Fits(h, more)
         /\ ItemsOf(rec) \subseteq ItemsOf(more)
         /\ Seq(ItemsOf(rec)) \subseteq Seq(ItemsOf(more))
         /\ WorkerType(rec) \subseteq WorkerType(more)
<1>. DEFINE more == Append(rec, m)
<1>1. /\ more \in Seq(Messages) /\ Len(more) = Len(rec) + 1
      /\ more[Len(rec) + 1] = m
      /\ \A n \in DOMAIN rec : n \in DOMAIN more /\ more[n] = rec[n] /\ n # Len(rec) + 1
      /\ \A n \in DOMAIN more : n \in DOMAIN rec \/ n = Len(rec) + 1
  OBVIOUS
<1>. HIDE DEF more
<1>2. \A h : Fits(h, rec) => Fits(h, more)
  BY <1>1 DEF Fits
<1>3. ItemsOf(rec) \subseteq ItemsOf(more)
  BY <1>1 DEF ItemsOf, Due
<1>4. Seq(ItemsOf(rec)) \subseteq Seq(ItemsOf(more))
  BY <1>3
<1>5. WorkerType(rec) \subseteq WorkerType(more)
  BY <1>4 DEF WorkerType
<1>. QED
  BY <1>1, <1>2, <1>3, <1>4, <1>5 DEF more

LEMMA CurrentItem ==
  ASSUME Shape, NEW s \in Streams, Busy(s)
  PROVE  /\ Item(s) \in ItemsOf(received) /\ Item(s).id = <<handler[s].n, handler[s].next>>
         /\ handler[s].n \in DOMAIN received /\ handler[s].msg = received[handler[s].n]
         /\ handler[s].next \in 1..Len(handler[s].msg.entries)
         /\ handler[s].msg.entries[handler[s].next] # None
         /\ handler[s].msg \in Messages /\ handler[s] \in HandlerType
         /\ handler[s].link # "none"
<1>. DEFINE h == handler[s]
            m == h.msg
            n == h.n
            k == h.next
<1>1. /\ h \in HandlerType /\ Fits(h, received) /\ m # None /\ clock \in Nat
  BY BoundsAssumption DEF Shape, Busy
<1>2. /\ n \in DOMAIN received /\ m = received[n] /\ m \in Messages
      /\ k \in 1..Len(m.entries) /\ m.entries[k] # None /\ h.link # "none"
  BY <1>1 DEF Fits, HandlerType
<1>3. Len(m.entries) \in 0..MaxEntries /\ m.kind \in Kinds /\ DOMAIN m.entries = 1..Len(m.entries)
  BY <1>2, MessagesAssumption DEF Kinds
<1>4. n \in 1..MaxMessages /\ k \in 1..MaxEntries
  <2>1. n \in 1..Len(received) /\ Len(received) <= MaxMessages /\ Len(received) \in Nat
    BY <1>2 DEF Shape
  <2>. QED
    BY <1>2, <1>3, <2>1, BoundsAssumption
<1>5. Convert(m.entries[k]) \in Sayings
  BY <1>2, <1>4 DEF Sayings
<1>6. h.read \in Seq(Nat) /\ h.began \in Nat
  BY <1>1 DEF HandlerType
<1>. DEFINE x == [id |-> <<n, k>>, kind |-> m.kind, says |-> Convert(m.entries[k]),
                  index |-> h.read, began |-> h.began, ended |-> clock]
<1>7. Item(s) = x
  BY DEF Item, Entry
<1>. HIDE DEF h, m, n, k
<1>8. x \in Items /\ x.id = <<n, k>>
  BY <1>1, <1>3, <1>4, <1>5, <1>6 DEF Items, Ids
<1>9. x \in ItemsOf(received)
  BY <1>2, <1>3, <1>8 DEF ItemsOf, Due
<1>. QED
  BY <1>1, <1>2, <1>7, <1>8, <1>9 DEF h, m, n, k

LEMMA HandlerStep ==
  ASSUME Shape, NEW s \in Streams, NEW g \in HandlerType, Fits(g, received'),
         handler' = [handler EXCEPT ![s] = g],
         \A h : Fits(h, received) => Fits(h, received')
  PROVE  /\ handler' \in [Streams -> HandlerType] /\ handler'[s] = g
         /\ \A t \in Streams \ {s} : handler'[t] = handler[t]
         /\ \A t \in Streams : Fits(handler'[t], received')
         /\ InHand(s)' = HandOf(g)
         /\ \A t \in Streams \ {s} : InHand(t)' = InHand(t)
<1>1. /\ handler' \in [Streams -> HandlerType] /\ handler'[s] = g
      /\ \A t \in Streams \ {s} : handler'[t] = handler[t]
  BY DEF Shape
<1>2. \A t \in Streams : Fits(handler'[t], received')
  BY <1>1 DEF Shape
<1>3. \A t \in Streams : InHand(t) = HandOf(handler[t]) /\ InHand(t)' = HandOf(handler'[t])
  BY DEF InHand, HandOf, Ahead, Busy
<1>. QED
  BY <1>1, <1>2, <1>3

\* Ids in a sequence of items, none of them twice.
Distinct(items) == \A j, k \in DOMAIN items : items[j].id = items[k].id => j = k

LEMMA Added ==
  ASSUME NEW S, NEW q \in Seq(S), NEW x \in S
  PROVE  /\ Append(q, x) \in Seq(S) /\ Len(Append(q, x)) = Len(q) + 1
         /\ Append(q, x) # <<>>
         /\ IdsOf(Append(q, x)) = IdsOf(q) \cup {x.id}
         /\ Distinct(q) /\ x.id \notin IdsOf(q) => Distinct(Append(q, x))
<1>. DEFINE r == Append(q, x)
<1>1. /\ r \in Seq(S) /\ Len(r) = Len(q) + 1 /\ r # <<>> /\ Len(q) \in Nat
      /\ DOMAIN r = 1..(Len(q) + 1) /\ DOMAIN q = 1..Len(q)
  OBVIOUS
<1>2. r[Len(q) + 1] = x /\ \A k \in DOMAIN q : k \in DOMAIN r /\ r[k] = q[k]
  BY <1>1
<1>. HIDE DEF r
<1>3. \A k \in DOMAIN r : k \in DOMAIN q \/ k = Len(q) + 1
  BY <1>1
<1>4. Len(q) + 1 \in DOMAIN r
  BY <1>1
<1>5. IdsOf(r) = IdsOf(q) \cup {x.id}
  BY <1>2, <1>3, <1>4 DEF IdsOf
<1>6. Distinct(q) /\ x.id \notin IdsOf(q) => Distinct(r)
  BY <1>2, <1>3 DEF IdsOf, Distinct
<1>. QED
  BY <1>1, <1>5, <1>6 DEF r

LEMMA Taken ==
  ASSUME NEW S, NEW q \in Seq(S), q # <<>>, NEW x, x = Head(q), NEW r, r = Tail(q)
  PROVE  /\ x \in S /\ r \in Seq(S) /\ Len(r) <= Len(q) /\ x.id \in IdsOf(q)
         /\ Distinct(q) => /\ Distinct(r) /\ IdsOf(r) = IdsOf(q) \ {x.id}
<1>1. /\ x \in S /\ r \in Seq(S) /\ Len(r) <= Len(q) /\ Len(q) \in Nat \ {0}
      /\ DOMAIN q = 1..Len(q) /\ DOMAIN r = 1..(Len(q) - 1) /\ x = q[1]
      /\ \A k \in DOMAIN r : r[k] = q[k + 1]
  OBVIOUS
<1>2. 1 \in DOMAIN q /\ \A k \in DOMAIN r : k + 1 \in DOMAIN q /\ k + 1 # 1
  BY <1>1
<1>3. \A k \in DOMAIN q : k = 1 \/ (k - 1 \in DOMAIN r /\ q[k] = r[k - 1])
  BY <1>1
<1>4. x.id \in IdsOf(q)
  BY <1>1, <1>2 DEF IdsOf
<1>5. ASSUME Distinct(q) PROVE Distinct(r)
  <2>. SUFFICES ASSUME NEW j \in DOMAIN r, NEW k \in DOMAIN r, r[j].id = r[k].id
                PROVE  j = k
    BY DEF Distinct
  <2>1. q[j + 1].id = q[k + 1].id /\ j + 1 \in DOMAIN q /\ k + 1 \in DOMAIN q
    BY <1>1, <1>2
  <2>2. j + 1 = k + 1 /\ j \in Nat /\ k \in Nat
    BY <1>1, <1>5, <2>1 DEF Distinct
  <2>. QED
    BY <2>2
<1>6. ASSUME Distinct(q) PROVE IdsOf(r) = IdsOf(q) \ {x.id}
  <2>1. \A k \in DOMAIN r : r[k].id # x.id /\ r[k].id \in IdsOf(q)
    BY <1>1, <1>2, <1>6 DEF Distinct, IdsOf
  <2>2. IdsOf(r) \subseteq IdsOf(q) \ {x.id}
    BY <2>1 DEF IdsOf
  <2>3. ASSUME NEW i \in IdsOf(q), i # x.id PROVE i \in IdsOf(r)
    <3>1. PICK k \in DOMAIN q : q[k].id = i
      BY DEF IdsOf
    <3>2. k # 1
      BY <1>1, <2>3, <3>1
    <3>3. k - 1 \in DOMAIN r /\ r[k - 1].id = i
      BY <1>3, <3>1, <3>2
    <3>. QED
      BY <3>3 DEF IdsOf
  <2>. QED
    BY <2>2, <2>3
<1>. QED
  BY <1>1, <1>4, <1>5, <1>6

\* What the backend has, once it has the items kept.
LEMMA Keeping ==
  ASSUME Shape, NEW kept \in SUBSET ItemsOf(received), Stored(kept)
  PROVE  /\ store' \in SUBSET ItemsOf(received) /\ copies' \in [Ids -> Nat]
         /\ {x.id : x \in store'} = {i \in Ids : copies'[i] > 0}
         /\ \A i \in Ids : copies'[i] = IF i \in {x.id : x \in kept}
                                        THEN copies[i] + 1 ELSE copies[i]
<1>1. store' = store \cup kept /\ store' \in SUBSET ItemsOf(received)
  BY DEF Stored, Shape
<1>2. \A i \in Ids : copies'[i] = IF i \in {x.id : x \in kept}
                                  THEN copies[i] + 1 ELSE copies[i]
  BY DEF Stored
<1>3. copies' \in [Ids -> Nat]
  <2>1. copies \in [Ids -> Nat]
    BY DEF Shape
  <2>2. \A i \in Ids : copies[i] \in Nat /\ copies[i] + 1 \in Nat
    BY <2>1
  <2>. QED
    BY <1>2, <2>2 DEF Stored
<1>4. ASSUME NEW i PROVE i \in {x.id : x \in store'} <=> i \in Ids /\ copies'[i] > 0
  <2>1. \A x \in ItemsOf(received) : x.id \in Ids
    BY DEF ItemsOf, Items
  <2>2. i \in {x.id : x \in store} <=> i \in Ids /\ copies[i] > 0
    BY DEF Shape
  <2>3. i \in {x.id : x \in store'} <=> i \in {x.id : x \in store} \/ i \in {x.id : x \in kept}
    BY <1>1
  <2>4. i \in {x.id : x \in kept} => i \in Ids
    BY <2>1
  <2>5. i \in Ids => copies[i] \in Nat
    BY DEF Shape
  <2>. QED
    BY <1>2, <2>2, <2>3, <2>4, <2>5
<1>. QED
  BY <1>1, <1>2, <1>3, <1>4

-----------------------------------------------------------------------------
(* Types: the goroutines *)

\* What a goroutine does before it writes changes nothing but its locals.
Idle == \A t \in Streams : InHand(t)' = InHand(t)

LEMMA ConnectTypes ==
  ASSUME Shape, NEW s \in Streams, Connect(s)
  PROVE  Shape' /\ Idle
<1>. DEFINE g == Waiting("open")
<1>1. g \in HandlerType /\ Fits(g, received') /\ HandOf(g) = {}
  BY WaitingFits
<1>2. handler' = [handler EXCEPT ![s] = g] /\ received' = received
  BY DEF Connect
<1>. HIDE DEF g
<1>3. /\ handler' \in [Streams -> HandlerType]
      /\ \A t \in Streams : Fits(handler'[t], received')
      /\ InHand(s)' = {} /\ \A t \in Streams \ {s} : InHand(t)' = InHand(t)
  BY <1>1, <1>2, HandlerStep
<1>4. InHand(s) = {}
  <2>1. Fits(handler[s], received) /\ handler[s].link = "none"
    BY DEF Shape, Connect
  <2>. QED
    BY <2>1 DEF Fits, InHand, Busy
<1>5. Shape'
  BY <1>2, <1>3 DEF Shape, Connect, indexer, outcome
<1>. QED
  BY <1>3, <1>4, <1>5 DEF Idle

LEMMA BreakTypes ==
  ASSUME Shape, NEW s \in Streams, Break(s)
  PROVE  Shape' /\ Idle
<1>1. handler[s] \in HandlerType /\ Fits(handler[s], received) /\ handler[s].link = "open"
  BY DEF Shape, Break
<1>2. PICK g : g = [handler[s] EXCEPT !.link = "broken"]
  OBVIOUS
<1>3. /\ g \in HandlerType /\ g.link = "broken" /\ g.msg = handler[s].msg /\ g.n = handler[s].n
      /\ g.next = handler[s].next /\ g.read = handler[s].read
  BY <1>1, <1>2 DEF HandlerType
<1>4. handler' = [handler EXCEPT ![s] = g] /\ received' = received
  BY <1>2 DEF Break, Shape
<1>5. Fits(g, received') /\ HandOf(g) = HandOf(handler[s])
  BY <1>1, <1>3, <1>4 DEF Fits, HandOf, Ahead
<1>6. /\ handler' \in [Streams -> HandlerType]
      /\ \A t \in Streams : Fits(handler'[t], received')
      /\ InHand(s)' = InHand(s) /\ \A t \in Streams \ {s} : InHand(t)' = InHand(t)
  BY <1>3, <1>4, <1>5, HandlerStep, InHandOf
<1>7. Shape'
  BY <1>4, <1>6 DEF Shape, Break, indexer, outcome
<1>. QED
  BY <1>6, <1>7 DEF Idle

LEMMA DigitsTypes ==
  ASSUME NEW t \in Nat, NEW k \in 1..4
  PROVE  Digits(t)[k] \in Nat
<1>1. Radix \in Nat \ {0} /\ Radix * Radix \in Nat \ {0} /\ Radix * Radix * Radix \in Nat \ {0}
  <2>1. \A a, b \in Nat \ {0} : a * b \in Nat \ {0}
    OBVIOUS
  <2>2. Radix \in Nat \ {0}
    BY ScaleAssumption
  <2>3. Radix * Radix \in Nat \ {0}
    BY <2>1, <2>2
  <2>4. Radix * Radix * Radix \in Nat \ {0}
    BY <2>1, <2>2, <2>3
  <2>. QED
    BY <2>2, <2>3, <2>4
<1>2. \A a \in Nat : \A b \in Nat \ {0} : a \div b \in Nat /\ a % b \in Nat
  OBVIOUS
<1>3. /\ t \div (Radix * Radix * Radix) \in Nat /\ (t \div (Radix * Radix)) % Radix \in Nat
      /\ (t \div Radix) % Radix \in Nat /\ t % Radix \in Nat
  BY <1>1, <1>2
<1>. QED
  BY <1>3 DEF Digits

LEMMA ReadClockTypes ==
  ASSUME Shape, NEW s \in Streams, ReadClock(s)
  PROVE  Shape' /\ Idle
<1>1. /\ handler[s] \in HandlerType /\ Fits(handler[s], received) /\ handler[s].msg # None
      /\ handler[s].msg \in Messages /\ clock \in Nat
  BY BoundsAssumption DEF Shape, ReadClock, Writing, Busy, HandlerType
<1>2. PICK next : next = Digits(clock)[Len(handler[s].read) + 1]
  OBVIOUS
<1>3. PICK began : began = IF handler[s].read = <<>> THEN clock ELSE handler[s].began
  OBVIOUS
<1>4. PICK g : g = [handler[s] EXCEPT !.read = Append(handler[s].read, next), !.began = began]
  OBVIOUS
<1>5. handler' = [handler EXCEPT ![s] = g] /\ received' = received
  BY <1>2, <1>3, <1>4 DEF ReadClock, Shape
<1>6. /\ handler[s].read \in Seq(Nat) /\ handler[s].began \in Nat
      /\ Len(handler[s].read) \in Nat /\ Len(handler[s].read) < Parts(handler[s].msg.kind)
      /\ Parts(handler[s].msg.kind) \in 3..4
  BY <1>1 DEF HandlerType, ReadClock, Parts
<1>7. Len(handler[s].read) + 1 \in 1..4
  BY <1>6
<1>8. next \in Nat /\ began \in Nat
  BY <1>1, <1>2, <1>3, <1>6, <1>7, DigitsTypes
<1>9. /\ Append(handler[s].read, next) \in Seq(Nat)
      /\ Len(Append(handler[s].read, next)) = Len(handler[s].read) + 1
  BY <1>6, <1>8
<1>10. /\ g \in HandlerType /\ g.link = handler[s].link /\ g.msg = handler[s].msg
       /\ g.n = handler[s].n /\ g.next = handler[s].next
       /\ g.read = Append(handler[s].read, next)
  BY <1>1, <1>4, <1>8, <1>9 DEF HandlerType
<1>11. Len(g.read) <= Parts(g.msg.kind)
  BY <1>6, <1>9, <1>10
<1>12. Fits(g, received') /\ HandOf(g) = HandOf(handler[s])
  BY <1>1, <1>5, <1>10, <1>11 DEF Fits, HandOf, Ahead
<1>13. /\ handler' \in [Streams -> HandlerType]
       /\ \A t \in Streams : Fits(handler'[t], received')
       /\ InHand(s)' = InHand(s) /\ \A t \in Streams \ {s} : InHand(t)' = InHand(t)
  BY <1>5, <1>10, <1>12, HandlerStep, InHandOf
<1>14. Shape'
  BY <1>5, <1>13 DEF Shape, ReadClock, indexer, outcome
<1>. QED
  BY <1>13, <1>14 DEF Idle

LEMMA RecvTypes ==
  ASSUME Shape, NEW s \in Streams, Recv(s)
  PROVE  /\ Shape' /\ InHand(s) = {} /\ \A t \in Streams \ {s} : InHand(t)' = InHand(t)
         /\ \A i \in Ids : /\ Due(i, received) => Due(i, received') /\ i[1] # Len(received) + 1
                           /\ Due(i, received') => Due(i, received) \/ i \in InHand(s)'
         /\ \A i \in InHand(s)' : i[1] = Len(received) + 1 /\ Due(i, received')
<1>1. PICK m \in Messages :
        /\ received' = Append(received, m)
        /\ handler' = [handler EXCEPT ![s] = From([@ EXCEPT !.msg = m, !.n = Len(received')], 1)]
  BY DEF Recv
<1>2. /\ handler[s] \in HandlerType /\ handler[s].link = "open" /\ handler[s].msg = None
      /\ Len(received) < MaxMessages /\ Len(received) \in Nat /\ received \in Seq(Messages)
  BY DEF Recv, Shape, Busy
<1>n. PICK n \in Nat : n = Len(received) + 1
  BY <1>2
<1>3. /\ received' \in Seq(Messages) /\ Len(received') = n /\ received'[n] = m
      /\ \A j \in DOMAIN received : j \in DOMAIN received' /\ received'[j] = received[j] /\ j # n
      /\ \A j \in DOMAIN received' : j \in DOMAIN received \/ j = n
      /\ n \in DOMAIN received'
      /\ \A h : Fits(h, received) => Fits(h, received')
      /\ ItemsOf(received) \subseteq ItemsOf(received')
      /\ Seq(ItemsOf(received)) \subseteq Seq(ItemsOf(received'))
      /\ WorkerType(received) \subseteq WorkerType(received')
  <2>1. PICK more : more = received'
    OBVIOUS
  <2>2. PICK rec : rec = received
    OBVIOUS
  <2>3. rec \in Seq(Messages) /\ more = Append(rec, m) /\ n = Len(rec) + 1
    BY <1>1, <1>2, <1>n, <2>1, <2>2
  <2>4. /\ more \in Seq(Messages) /\ Len(more) = Len(rec) + 1
        /\ more[Len(rec) + 1] = m
        /\ \A j \in DOMAIN rec : j \in DOMAIN more /\ more[j] = rec[j] /\ j # Len(rec) + 1
        /\ \A j \in DOMAIN more : j \in DOMAIN rec \/ j = Len(rec) + 1
        /\ \A h : Fits(h, rec) => Fits(h, more)
        /\ ItemsOf(rec) \subseteq ItemsOf(more)
        /\ Seq(ItemsOf(rec)) \subseteq Seq(ItemsOf(more))
        /\ WorkerType(rec) \subseteq WorkerType(more)
    BY <2>3, MoreMessages
  <2>5. n \in DOMAIN more
    BY <2>3
  <2>. QED
    BY <2>1, <2>2, <2>3, <2>4, <2>5
<1>4. PICK h : h = [handler[s] EXCEPT !.msg = m, !.n = n]
  OBVIOUS
<1>5. /\ h \in HandlerType /\ h.link = "open" /\ h.msg = m /\ h.n = n
  BY <1>2, <1>n, <1>4 DEF HandlerType
<1>6. PICK g : g = From(h, 1)
  OBVIOUS
<1>7. handler' = [handler EXCEPT ![s] = g]
  BY <1>1, <1>3, <1>4, <1>6 DEF Shape
<1>8. g \in HandlerType /\ HandOf(g) = {<<n, j>> : j \in Ahead(h, 1)}
  BY <1>5, <1>6, FromNext
<1>9. Fits(g, received')
  <2>1. h.n \in DOMAIN received' /\ h.msg = received'[h.n]
    BY <1>3, <1>5
  <2>. QED
    BY <1>5, <1>6, <2>1, FromFits
<1>10. /\ handler' \in [Streams -> HandlerType]
       /\ \A t \in Streams : Fits(handler'[t], received')
       /\ InHand(s)' = HandOf(g) /\ \A t \in Streams \ {s} : InHand(t)' = InHand(t)
  BY <1>3, <1>7, <1>8, <1>9, HandlerStep
<1>11. Shape'
  <2>1. n <= MaxMessages
    BY <1>2, <1>n, BoundsAssumption
  <2>2. worker \in [Workers -> WorkerType(received')]
    BY <1>3 DEF Shape
  <2>3. queue \in Seq(ItemsOf(received')) /\ store \in SUBSET ItemsOf(received')
    BY <1>3 DEF Shape
  <2>. QED
    BY <1>3, <1>10, <2>1, <2>2, <2>3 DEF Shape, Recv, indexer, outcome
<1>12. InHand(s) = {}
  BY <1>2 DEF InHand, Busy
<1>13. \A j : j \in Ahead(h, 1) <=> j \in DOMAIN m.entries /\ m.entries[j] # None
  <2>1. DOMAIN m.entries = 1..Len(m.entries)
    BY MessagesAssumption
  <2>. QED
    BY <1>5, <2>1 DEF Ahead
<1>14. ASSUME NEW i \in Ids
       PROVE  /\ Due(i, received) => Due(i, received') /\ i[1] # n
              /\ Due(i, received') => Due(i, received) \/ i \in HandOf(g)
  <2>1. i = <<i[1], i[2]>>
    BY DEF Ids
  <2>2. Due(i, received) => Due(i, received') /\ i[1] # n
    BY <1>3 DEF Due
  <2>3. Due(i, received') => Due(i, received) \/ (i[1] = n /\ i[2] \in Ahead(h, 1))
    BY <1>3, <1>13 DEF Due
  <2>. QED
    BY <1>8, <2>1, <2>2, <2>3
<1>15. ASSUME NEW i \in HandOf(g) PROVE i[1] = n /\ Due(i, received')
  <2>1. PICK j \in Ahead(h, 1) : i = <<n, j>>
    BY <1>8
  <2>. QED
    BY <1>3, <1>13, <2>1 DEF Due
<1>. QED
  BY <1>n, <1>10, <1>11, <1>12, <1>14, <1>15

\* An entry leaves the hand of its goroutine, which turns to the next one.
LEMMA DoneTypes ==
  ASSUME Shape, NEW s \in Streams, Busy(s), Done(s), received' = received
  PROVE  /\ handler' \in [Streams -> HandlerType]
         /\ \A t \in Streams : Fits(handler'[t], received')
         /\ Item(s).id \in InHand(s) /\ InHand(s)' = InHand(s) \ {Item(s).id}
         /\ \A t \in Streams \ {s} : InHand(t)' = InHand(t)
<1>. DEFINE h == handler[s]
<1>1. /\ Item(s).id = <<h.n, h.next>> /\ h.n \in DOMAIN received /\ h.msg = received[h.n]
      /\ h.next \in 1..Len(h.msg.entries) /\ h.msg.entries[h.next] # None
      /\ h.msg \in Messages /\ h \in HandlerType /\ h.link # "none"
  BY CurrentItem
<1>2. Len(h.msg.entries) \in Nat /\ h.next \in Nat /\ h.next + 1 \in Nat \ {0} /\ h.msg # None
  BY <1>1, MessagesAssumption, BoundsAssumption
<1>3. PICK g : g = From(h, h.next + 1)
  OBVIOUS
<1>4. handler' = [handler EXCEPT ![s] = g]
  BY <1>3 DEF Done, Shape
<1>5. g \in HandlerType /\ HandOf(g) = {<<h.n, j>> : j \in Ahead(h, h.next + 1)}
  BY <1>1, <1>2, <1>3, FromNext
<1>6. Fits(g, received')
  BY <1>1, <1>2, <1>3, FromFits
<1>7. /\ handler' \in [Streams -> HandlerType]
      /\ \A t \in Streams : Fits(handler'[t], received')
      /\ InHand(s)' = HandOf(g) /\ \A t \in Streams \ {s} : InHand(t)' = InHand(t)
  BY <1>4, <1>5, <1>6, HandlerStep
<1>8. InHand(s) = {<<h.n, j>> : j \in Ahead(h, h.next)}
  BY <1>2, InHandOf DEF HandOf
<1>9. \A j : j \in Ahead(h, h.next) <=> j = h.next \/ j \in Ahead(h, h.next + 1)
  BY <1>1, <1>2 DEF Ahead
<1>10. h.next \notin Ahead(h, h.next + 1)
  BY <1>2 DEF Ahead
<1>. QED
  BY <1>1, <1>5, <1>7, <1>8, <1>9, <1>10

LEMMA AddTypes ==
  ASSUME Shape, NEW s \in Streams, Add(s)
  PROVE  /\ Shape'
         /\ Item(s).id \in InHand(s) /\ InHand(s)' = InHand(s) \ {Item(s).id}
         /\ \A t \in Streams \ {s} : InHand(t)' = InHand(t)
         /\ IdsOf(queue)' = IdsOf(queue) \cup {Item(s).id}
         /\ Distinct(queue) /\ Item(s).id \notin IdsOf(queue) => Distinct(queue')
<1>1. /\ up /\ backend = "es" /\ Busy(s) /\ Done(s) /\ queue' = Append(queue, Item(s))
      /\ Len(queue) < Cardinality(Workers) /\ received' = received
  BY DEF Add, Writing
<1>2. /\ handler' \in [Streams -> HandlerType]
      /\ \A t \in Streams : Fits(handler'[t], received')
      /\ Item(s).id \in InHand(s) /\ InHand(s)' = InHand(s) \ {Item(s).id}
      /\ \A t \in Streams \ {s} : InHand(t)' = InHand(t)
  BY <1>1, DoneTypes
<1>3. PICK x \in ItemsOf(received) : x = Item(s)
  BY <1>1, CurrentItem
<1>4. queue \in Seq(ItemsOf(received))
  BY DEF Shape
<1>5. /\ queue' \in Seq(ItemsOf(received)) /\ Len(queue') = Len(queue) + 1
      /\ IdsOf(queue') = IdsOf(queue) \cup {x.id}
      /\ Distinct(queue) /\ x.id \notin IdsOf(queue) => Distinct(queue')
  BY <1>1, <1>3, <1>4, Added
<1>6. Len(queue') <= Cardinality(Workers)
  BY <1>1, <1>4, <1>5, WorkersAssumption, FS_CardinalityType
<1>7. Shape'
  BY <1>1, <1>2, <1>5, <1>6 DEF Shape, Add, outcome
<1>. QED
  BY <1>2, <1>3, <1>5, <1>7 DEF IdsOf

LEMMA InsertTypes ==
  ASSUME Shape, NEW s \in Streams, Insert(s)
  PROVE  /\ Shape'
         /\ Item(s).id \in InHand(s) /\ InHand(s)' = InHand(s) \ {Item(s).id}
         /\ \A t \in Streams \ {s} : InHand(t)' = InHand(t)
         /\ \/ /\ \A i \in Ids : copies'[i] = IF i = Item(s).id THEN copies[i] + 1 ELSE copies[i]
               /\ dropped' = dropped
            \/ copies' = copies /\ dropped' = dropped \cup {Item(s).id}
<1>1. up /\ backend = "ch" /\ Busy(s) /\ Done(s) /\ received' = received
  BY DEF Insert, Writing
<1>2. /\ handler' \in [Streams -> HandlerType]
      /\ \A t \in Streams : Fits(handler'[t], received')
      /\ Item(s).id \in InHand(s) /\ InHand(s)' = InHand(s) \ {Item(s).id}
      /\ \A t \in Streams \ {s} : InHand(t)' = InHand(t)
  BY <1>1, DoneTypes
<1>3. PICK x \in ItemsOf(received) : x = Item(s)
  BY <1>1, CurrentItem
<1>4. x.id \in Ids
  BY <1>3 DEF ItemsOf, Items
<1>5. CASE Stored({x}) /\ dropped' = dropped
  <2>1. \A i : i \in {y.id : y \in {x}} <=> i = x.id
    OBVIOUS
  <2>2. {x} \in SUBSET ItemsOf(received)
    BY <1>3
  <2>3. /\ store' \in SUBSET ItemsOf(received) /\ copies' \in [Ids -> Nat]
        /\ {y.id : y \in store'} = {i \in Ids : copies'[i] > 0}
        /\ \A i \in Ids : copies'[i] = IF i = x.id THEN copies[i] + 1 ELSE copies[i]
    BY <1>5, <2>1, <2>2, Keeping
  <2>4. Shape'
    BY <1>1, <1>2, <1>5, <2>3 DEF Shape, Insert, indexer
  <2>. QED
    BY <1>2, <1>3, <1>5, <2>3, <2>4
<1>6. CASE dropped' = dropped \cup {x.id} /\ UNCHANGED <<store, copies>>
  <2>1. Shape'
    BY <1>1, <1>2, <1>4, <1>6 DEF Shape, Insert, indexer
  <2>. QED
    BY <1>2, <1>3, <1>6, <2>1
<1>. QED
  BY <1>3, <1>5, <1>6 DEF Insert

-----------------------------------------------------------------------------
(* Types: the workers *)

LEMMA WorkerStep ==
  ASSUME Shape, NEW w \in Workers, NEW b \in WorkerType(received),
         worker' = [worker EXCEPT ![w] = b], b.sent > 0 => b.batch # <<>>
  PROVE  /\ worker' \in [Workers -> WorkerType(received)] /\ worker'[w] = b
         /\ \A v \in Workers \ {w} : worker'[v] = worker[v]
         /\ \A v \in Workers : worker'[v].sent > 0 => worker'[v].batch # <<>>
BY DEF Shape

LEMMA TakeTypes ==
  ASSUME Shape, NEW w \in Workers, Take(w)
  PROVE  /\ Shape' /\ worker'[w].sent = worker[w].sent
         /\ \A v \in Workers \ {w} : worker'[v] = worker[v]
         /\ Head(queue).id \in IdsOf(queue)
         /\ IdsOf(worker'[w].batch) = IdsOf(worker[w].batch) \cup {Head(queue).id}
         /\ Distinct(queue) => /\ Distinct(queue')
                               /\ IdsOf(queue)' = IdsOf(queue) \ {Head(queue).id}
         /\ Distinct(worker[w].batch) /\ Head(queue).id \notin IdsOf(worker[w].batch)
              => Distinct(worker'[w].batch)
<1>1. /\ queue # <<>> /\ queue \in Seq(ItemsOf(received)) /\ worker[w].sent = 0
      /\ worker[w] \in WorkerType(received) /\ queue' = Tail(queue) /\ received' = received
  BY DEF Take, Shape
<1>2. PICK x : x = Head(queue)
  OBVIOUS
<1>3. /\ x \in ItemsOf(received) /\ queue' \in Seq(ItemsOf(received))
      /\ Len(queue') <= Len(queue) /\ x.id \in IdsOf(queue)
      /\ Distinct(queue) => Distinct(queue') /\ IdsOf(queue') = IdsOf(queue) \ {x.id}
  BY <1>1, <1>2, Taken
<1>4. PICK r : r = Append(worker[w].batch, x)
  OBVIOUS
<1>5. worker[w].batch \in Seq(ItemsOf(received))
  BY <1>1 DEF WorkerType
<1>6. /\ r \in Seq(ItemsOf(received)) /\ r # <<>>
      /\ IdsOf(r) = IdsOf(worker[w].batch) \cup {x.id}
      /\ Distinct(worker[w].batch) /\ x.id \notin IdsOf(worker[w].batch) => Distinct(r)
  BY <1>3, <1>4, <1>5, Added
<1>7. PICK b : b = [worker[w] EXCEPT !.batch = r]
  OBVIOUS
<1>8. b \in WorkerType(received) /\ b.batch = r /\ b.sent = worker[w].sent
  BY <1>1, <1>6, <1>7 DEF WorkerType
<1>9. worker' = [worker EXCEPT ![w] = b]
  BY <1>1, <1>2, <1>4, <1>7 DEF Take, Shape
<1>10. /\ worker' \in [Workers -> WorkerType(received)] /\ worker'[w] = b
       /\ \A v \in Workers \ {w} : worker'[v] = worker[v]
       /\ \A v \in Workers : worker'[v].sent > 0 => worker'[v].batch # <<>>
  BY <1>6, <1>8, <1>9, WorkerStep
<1>11. Len(queue') <= Cardinality(Workers)
  <2>1. Len(queue) <= Cardinality(Workers) /\ Len(queue) \in Nat /\ Len(queue') \in Nat
    BY <1>1, <1>3 DEF Shape
  <2>2. Cardinality(Workers) \in Nat
    BY WorkersAssumption, FS_CardinalityType
  <2>. QED
    BY <1>3, <2>1, <2>2
<1>12. ~(backend = "ch" \/ ~up)
  BY <1>1 DEF Shape
<1>13. Shape'
  <2>1. /\ handler \in [Streams -> HandlerType]
        /\ \A s \in Streams : Fits(handler'[s], received')
    BY DEF Shape, Take
  <2>. QED
    BY <1>1, <1>3, <1>10, <1>11, <1>12, <2>1 DEF Shape, Take, outcome
<1>14. IdsOf(queue)' = IdsOf(queue')
  BY DEF IdsOf
<1>15. /\ worker'[w].sent = worker[w].sent
       /\ IdsOf(worker'[w].batch) = IdsOf(worker[w].batch) \cup {x.id}
       /\ Distinct(worker[w].batch) /\ x.id \notin IdsOf(worker[w].batch)
            => Distinct(worker'[w].batch)
  BY <1>6, <1>8, <1>10
<1>. QED
  BY <1>2, <1>3, <1>10, <1>13, <1>14, <1>15

\* What is on its way was received.
LEMMA OnTheWay ==
  ASSUME Shape
  PROVE  /\ \A s \in Streams : \A i \in InHand(s) : i \in Ids /\ Due(i, received)
         /\ \A i \in IdsOf(queue) : i \in Ids /\ Due(i, received)
         /\ \A w \in Workers : \A i \in IdsOf(worker[w].batch) : i \in Ids /\ Due(i, received)
         /\ Pending \subseteq Ids
<1>1. ASSUME NEW s \in Streams, NEW i \in InHand(s) PROVE i \in Ids /\ Due(i, received)
  <2>1. PICK h : h = handler[s]
    OBVIOUS
  <2>2. i \in HandOf(h) /\ h \in HandlerType /\ Fits(h, received)
    BY <1>1, <2>1, InHandOf DEF Shape
  <2>3. h.msg # None /\ \E k \in Ahead(h, h.next) : i = <<h.n, k>>
    BY <2>2 DEF HandOf
  <2>4. PICK k \in Ahead(h, h.next) : i = <<h.n, k>>
    BY <2>3
  <2>5. /\ h.msg \in Messages /\ h.n \in DOMAIN received /\ h.msg = received[h.n]
        /\ h.next \in Nat \ {0}
    <3>1. h.n \in DOMAIN received /\ h.msg = received[h.n] /\ h.next \in 1..Len(h.msg.entries)
      BY <2>2, <2>3 DEF Fits
    <3>. QED
      BY <2>2, <2>3, <3>1 DEF HandlerType
  <2>6. /\ Len(h.msg.entries) \in 0..MaxEntries /\ DOMAIN h.msg.entries = 1..Len(h.msg.entries)
    BY <2>5, MessagesAssumption
  <2>7. /\ k \in 1..Len(h.msg.entries) /\ k \in 1..MaxEntries /\ h.msg.entries[k] # None
    BY <2>4, <2>5, <2>6, BoundsAssumption DEF Ahead
  <2>8. h.n \in 1..MaxMessages
    <3>1. received \in Seq(Messages) /\ Len(received) <= MaxMessages
      BY DEF Shape
    <3>. QED
      BY <2>5, <3>1, BoundsAssumption
  <2>. QED
    BY <2>4, <2>5, <2>6, <2>7, <2>8 DEF Ids, Due
<1>2. \A x \in ItemsOf(received) : x.id \in Ids /\ Due(x.id, received)
  BY DEF ItemsOf, Items
<1>3. ASSUME NEW q \in Seq(ItemsOf(received)), NEW i \in IdsOf(q) PROVE i \in Ids /\ Due(i, received)
  <2>1. PICK k \in DOMAIN q : i = q[k].id
    BY DEF IdsOf
  <2>2. q[k] \in ItemsOf(received)
    BY <2>1
  <2>. QED
    BY <1>2, <2>1, <2>2
<1>4. queue \in Seq(ItemsOf(received)) /\ \A w \in Workers : worker[w].batch \in Seq(ItemsOf(received))
  BY DEF Shape, WorkerType
<1>5. \A i \in IdsOf(queue) : i \in Ids /\ Due(i, received)
  BY <1>3, <1>4
<1>6. \A w \in Workers : \A i \in IdsOf(worker[w].batch) : i \in Ids /\ Due(i, received)
  BY <1>3, <1>4
<1>7. Pending \subseteq Ids
  BY <1>1, <1>5, <1>6 DEF Pending
<1>. QED
  BY <1>1, <1>5, <1>6, <1>7

LEMMA KeptOf ==
  ASSUME Shape, NEW w \in Workers, NEW kept \in SUBSET ToSet(worker[w].batch)
  PROVE  LET batch == worker[w].batch
             rest == ToSet(batch) \ kept
         IN  /\ kept \in SUBSET ItemsOf(received)
             /\ {x.id : x \in kept} \cup {x.id : x \in rest} = IdsOf(batch)
             /\ Distinct(batch) => {x.id : x \in kept} \cap {x.id : x \in rest} = {}
<1>1. PICK batch : batch = worker[w].batch
  OBVIOUS
<1>2. batch \in Seq(ItemsOf(received))
  BY <1>1 DEF Shape, WorkerType
<1>3. \A x \in ToSet(batch) : x \in ItemsOf(received) /\ \E k \in DOMAIN batch : x = batch[k]
  BY <1>2 DEF ToSet
<1>4. \A k \in DOMAIN batch : batch[k] \in ToSet(batch)
  BY DEF ToSet
<1>5. \A i : i \in IdsOf(batch) <=> \E x \in ToSet(batch) : i = x.id
  BY <1>3, <1>4 DEF IdsOf
<1>6. ASSUME Distinct(batch), NEW x \in ToSet(batch), NEW y \in ToSet(batch), x.id = y.id
      PROVE  x = y
  BY <1>3, <1>6 DEF Distinct
<1>. QED
  BY <1>1, <1>3, <1>5, <1>6

\* The items of kept reach the backend once more.
OnceMore(K) ==
    \A i \in Ids : copies'[i] = IF i \in K THEN copies[i] + 1 ELSE copies[i]

LEMMA EmptyBatch ==
  [batch |-> <<>>, sent |-> 0] \in WorkerType(received)
BY ScaleAssumption DEF WorkerType

LEMMA AcceptTypes ==
  ASSUME Shape, NEW w \in Workers, Accept(w)
  PROVE  /\ Shape' /\ worker'[w].batch = <<>>
         /\ \A v \in Workers \ {w} : worker'[v] = worker[v]
         /\ \E K, D \in SUBSET IdsOf(worker[w].batch) :
              /\ K \cup D = IdsOf(worker[w].batch) /\ OnceMore(K) /\ dropped' = dropped \cup D
              /\ Distinct(worker[w].batch) => K \cap D = {}
<1>1. PICK kept \in SUBSET ToSet(worker[w].batch) :
        /\ Stored(kept)
        /\ dropped' = dropped \cup {x.id : x \in ToSet(worker[w].batch) \ kept}
  BY DEF Accept
<1>. DEFINE K == {x.id : x \in kept}
            D == {x.id : x \in ToSet(worker[w].batch) \ kept}
<1>2. /\ kept \in SUBSET ItemsOf(received) /\ K \cup D = IdsOf(worker[w].batch)
      /\ Distinct(worker[w].batch) => K \cap D = {}
  BY KeptOf
<1>3. /\ store' \in SUBSET ItemsOf(received) /\ copies' \in [Ids -> Nat]
      /\ {x.id : x \in store'} = {i \in Ids : copies'[i] > 0}
      /\ OnceMore(K)
  BY <1>1, <1>2, Keeping DEF OnceMore
<1>4. K \in SUBSET IdsOf(worker[w].batch) /\ D \in SUBSET IdsOf(worker[w].batch)
  BY <1>2
<1>5. dropped' \subseteq Ids
  BY <1>1, <1>4, OnTheWay DEF Shape
<1>6. PICK b : b = [batch |-> <<>>, sent |-> 0]
  OBVIOUS
<1>7. b \in WorkerType(received) /\ b.batch = <<>> /\ b.sent = 0
  BY <1>6, EmptyBatch
<1>8. /\ worker' \in [Workers -> WorkerType(received)] /\ worker'[w] = b
      /\ \A v \in Workers \ {w} : worker'[v] = worker[v]
      /\ \A v \in Workers : worker'[v].sent > 0 => worker'[v].batch # <<>>
  <2>1. worker' = [worker EXCEPT ![w] = b] /\ ~(b.sent > 0)
    BY <1>6, <1>7 DEF Accept, Empty
  <2>. QED
    BY <1>7, <2>1, WorkerStep
<1>9. /\ \A s \in Streams : Fits(handler'[s], received')
      /\ queue' \in Seq(ItemsOf(received')) /\ Len(queue') <= Cardinality(Workers)
      /\ ~(backend = "ch" \/ ~up)
  BY DEF Shape, Accept, Sends
<1>10. Shape'
  BY <1>3, <1>5, <1>8, <1>9 DEF Shape, Accept
<1>. QED
  BY <1>1, <1>2, <1>3, <1>4, <1>7, <1>8, <1>10

\* A request that fails, whatever becomes of the batch.
LEMMA FailTypes ==
  ASSUME Shape, NEW w \in Workers, Fail(w),
         NEW b \in WorkerType(received), worker' = [worker EXCEPT ![w] = b],
         b.sent > 0 => b.batch # <<>>, dropped' \subseteq Ids
  PROVE  /\ Shape' /\ worker'[w] = b
         /\ \A v \in Workers \ {w} : worker'[v] = worker[v]
         /\ \E K \in SUBSET IdsOf(worker[w].batch) :
              OnceMore(K) /\ doubtful' = doubtful \cup K
<1>1. PICK kept \in SUBSET ToSet(worker[w].batch) :
        Stored(kept) /\ doubtful' = doubtful \cup {x.id : x \in kept}
  BY DEF Fail
<1>. DEFINE K == {x.id : x \in kept}
            D == {x.id : x \in ToSet(worker[w].batch) \ kept}
<1>2. kept \in SUBSET ItemsOf(received) /\ K \in SUBSET IdsOf(worker[w].batch)
  <2>1. kept \in SUBSET ItemsOf(received) /\ K \cup D = IdsOf(worker[w].batch)
    BY KeptOf
  <2>. QED
    BY <2>1
<1>3. /\ store' \in SUBSET ItemsOf(received) /\ copies' \in [Ids -> Nat]
      /\ {x.id : x \in store'} = {i \in Ids : copies'[i] > 0}
      /\ OnceMore(K)
  BY <1>1, <1>2, Keeping DEF OnceMore
<1>4. doubtful' \subseteq Ids
  BY <1>1, <1>2, OnTheWay DEF Shape
<1>5. /\ worker' \in [Workers -> WorkerType(received)] /\ worker'[w] = b
      /\ \A v \in Workers \ {w} : worker'[v] = worker[v]
      /\ \A v \in Workers : worker'[v].sent > 0 => worker'[v].batch # <<>>
  BY WorkerStep
<1>6. /\ \A s \in Streams : Fits(handler'[s], received')
      /\ queue' \in Seq(ItemsOf(received')) /\ Len(queue') <= Cardinality(Workers)
      /\ ~(backend = "ch" \/ ~up)
  BY DEF Shape, Fail, Sends
<1>7. Shape'
  BY <1>3, <1>4, <1>5, <1>6 DEF Shape, Fail
<1>. QED
  BY <1>1, <1>2, <1>3, <1>5, <1>7

LEMMA RetryTypes ==
  ASSUME Shape, NEW w \in Workers, Retry(w)
  PROVE  /\ Shape' /\ worker'[w].batch = worker[w].batch
         /\ worker'[w].sent = worker[w].sent + 1 /\ worker[w].sent < Retries
         /\ \A v \in Workers \ {w} : worker'[v] = worker[v]
         /\ \E K \in SUBSET IdsOf(worker[w].batch) :
              OnceMore(K) /\ doubtful' = doubtful \cup K
<1>1. /\ worker[w].batch \in Seq(ItemsOf(received)) /\ worker[w].sent \in 0..Retries
      /\ worker[w].sent < Retries /\ worker[w] \in WorkerType(received)
      /\ worker[w].batch # <<>> /\ Retries \in Nat
  BY ScaleAssumption DEF Shape, WorkerType, Retry, Fail, Sends
<1>2. PICK b : b = [worker[w] EXCEPT !.sent = worker[w].sent + 1]
  OBVIOUS
<1>3. worker[w].sent + 1 \in 0..Retries
  BY <1>1
<1>4. /\ b \in WorkerType(received) /\ b.batch = worker[w].batch
      /\ b.sent = worker[w].sent + 1
  BY <1>1, <1>2, <1>3 DEF WorkerType
<1>5. worker' = [worker EXCEPT ![w] = b]
  BY <1>2 DEF Retry, Shape
<1>6. dropped' \subseteq Ids /\ Fail(w)
  BY DEF Retry, Shape
<1>7. /\ Shape' /\ worker'[w] = b
      /\ \A v \in Workers \ {w} : worker'[v] = worker[v]
      /\ \E K \in SUBSET IdsOf(worker[w].batch) :
           OnceMore(K) /\ doubtful' = doubtful \cup K
  BY <1>1, <1>4, <1>5, <1>6, FailTypes
<1>. QED
  BY <1>1, <1>4, <1>7

LEMMA GiveUpTypes ==
  ASSUME Shape, NEW w \in Workers, GiveUp(w)
  PROVE  /\ Shape' /\ worker'[w].batch = <<>>
         /\ \A v \in Workers \ {w} : worker'[v] = worker[v]
         /\ dropped' = dropped \cup IdsOf(worker[w].batch)
         /\ \E K \in SUBSET IdsOf(worker[w].batch) :
              OnceMore(K) /\ doubtful' = doubtful \cup K
<1>1. PICK b : b = [batch |-> <<>>, sent |-> 0]
  OBVIOUS
<1>2. b \in WorkerType(received) /\ b.batch = <<>> /\ ~(b.sent > 0)
  BY <1>1, EmptyBatch
<1>3. worker' = [worker EXCEPT ![w] = b] /\ Fail(w)
  BY <1>1 DEF GiveUp, Empty
<1>4. dropped' = dropped \cup IdsOf(worker[w].batch) /\ dropped' \subseteq Ids
  BY OnTheWay DEF GiveUp, Shape
<1>5. /\ Shape' /\ worker'[w] = b
      /\ \A v \in Workers \ {w} : worker'[v] = worker[v]
      /\ \E K \in SUBSET IdsOf(worker[w].batch) :
           OnceMore(K) /\ doubtful' = doubtful \cup K
  BY <1>2, <1>3, <1>4, FailTypes
<1>. QED
  BY <1>2, <1>4, <1>5

-----------------------------------------------------------------------------
(* Types: the process *)

LEMMA DieTypes ==
  ASSUME Shape, Die
  PROVE  /\ Shape' /\ \A s \in Streams : InHand(s)' = {}
         /\ queue' = <<>> /\ \A w \in Workers : worker'[w].batch = <<>>
<1>1. Waiting("none") \in HandlerType /\ Fits(Waiting("none"), received)
  BY WaitingFits
<1>2. /\ handler' \in [Streams -> HandlerType] /\ received' = received
      /\ \A s \in Streams : handler'[s] = Waiting("none")
  BY <1>1 DEF Die, NoStreams
<1>3. \A s \in Streams : InHand(s)' = {}
  BY <1>2 DEF InHand, Busy, Waiting
<1>4. /\ worker' \in [Workers -> WorkerType(received)]
      /\ \A w \in Workers : worker'[w].batch = <<>> /\ ~(worker'[w].sent > 0)
  BY EmptyBatch DEF Die
<1>5. queue' \in Seq(ItemsOf(received)) /\ Len(queue') <= Cardinality(Workers) /\ queue' = <<>>
  BY WorkersAssumption, FS_CardinalityType DEF Die
<1>6. lost' \subseteq Ids
  BY OnTheWay DEF Die, Shape
<1>7. Shape'
  BY <1>1, <1>2, <1>4, <1>5, <1>6 DEF Shape, Die, outcome
<1>. QED
  BY <1>3, <1>4, <1>5, <1>7

LEMMA StartTypes == Shape /\ Start => Shape' /\ Idle
<1>. SUFFICES ASSUME Shape, Start PROVE Shape' /\ Idle
  OBVIOUS
<1>1. Idle
  BY DEF Idle, Start, InHand, Busy
<1>2. Shape'
  BY DEF Shape, Start, indexer, outcome
<1>. QED
  BY <1>1, <1>2

LEMMA TickTypes == Shape /\ Tick => Shape' /\ Idle
<1>. SUFFICES ASSUME Shape, Tick PROVE Shape' /\ Idle
  OBVIOUS
<1>1. Idle
  BY DEF Idle, Tick, InHand, Busy
<1>2. clock' \in FirstTime..MaxTime
  BY BoundsAssumption DEF Shape, Tick
<1>3. Shape'
  BY <1>2 DEF Shape, Tick, indexer, outcome
<1>. QED
  BY <1>1, <1>3

LEMMA StutterTypes == Shape /\ UNCHANGED vars => Shape' /\ Idle
BY DEF Shape, vars, Idle, InHand, Busy

LEMMA InitTypes == Init => Shape
<1>. SUFFICES ASSUME Init PROVE Shape
  OBVIOUS
<1>1. handler \in [Streams -> HandlerType] /\ \A s \in Streams : Fits(handler[s], received)
  BY WaitingFits DEF Init, NoStreams
<1>2. /\ worker \in [Workers -> WorkerType(received)]
      /\ \A w \in Workers : worker[w].batch = <<>> /\ ~(worker[w].sent > 0)
  BY EmptyBatch DEF Init
<1>3. queue \in Seq(ItemsOf(received)) /\ Len(queue) <= Cardinality(Workers) /\ queue = <<>>
  BY WorkersAssumption, FS_CardinalityType DEF Init
<1>4. received \in Seq(Messages) /\ Len(received) <= MaxMessages /\ clock \in FirstTime..MaxTime
  BY BoundsAssumption DEF Init
<1>5. copies \in [Ids -> Nat] /\ {i \in Ids : copies[i] > 0} = {} /\ {i.id : i \in store} = {}
  BY DEF Init
<1>. QED
  BY <1>1, <1>2, <1>3, <1>4, <1>5 DEF Init, Shape

-----------------------------------------------------------------------------
(* Every entry is at one place *)

Batch(w) == IdsOf(worker[w].batch)
Gone(i) == i \in dropped \/ i \in lost
OnItsWay(i) ==
    \/ \E s \in Streams : i \in InHand(s)
    \/ i \in IdsOf(queue)
    \/ \E w \in Workers : i \in Batch(w)

\* An entry received is in one hand, in the queue, in one batch, or was
\* stored, given up or lost. The backend has no copy of one in hand or queued,
\* and of one in a batch no more copies than there were failed requests.
OncePer(i) ==
    /\ \A s, t \in Streams : i \in InHand(s) /\ i \in InHand(t) => s = t
    /\ \A v, w \in Workers : i \in Batch(v) /\ i \in Batch(w) => v = w
    /\ \A s \in Streams : i \in InHand(s) =>
         /\ i \notin IdsOf(queue) /\ \A w \in Workers : i \notin Batch(w)
         /\ copies[i] = 0 /\ ~Gone(i)
    /\ i \in IdsOf(queue) =>
         /\ \A w \in Workers : i \notin Batch(w)
         /\ copies[i] = 0 /\ ~Gone(i)
    /\ \A w \in Workers : i \in Batch(w) =>
         /\ ~Gone(i) /\ copies[i] <= worker[w].sent
         /\ copies[i] > 0 => i \in doubtful
    /\ copies[i] <= Retries + 1
    /\ copies[i] > 1 => i \in doubtful
    /\ copies[i] > 0 /\ Gone(i) => i \in doubtful
    /\ Due(i, received) <=> OnItsWay(i) \/ copies[i] > 0 \/ Gone(i)

Once ==
    /\ \A i \in Ids : OncePer(i)
    /\ Distinct(queue)
    /\ \A w \in Workers : Distinct(worker[w].batch)

LEMMA IdleOnce ==
  ASSUME Once, Idle, UNCHANGED <<queue, worker, copies, received, doubtful, dropped, lost>>
  PROVE  Once'
<1>1. ASSUME NEW i \in Ids PROVE OncePer(i)'
  <2>1. \A s \in Streams : i \in InHand(s)' <=> i \in InHand(s)
    BY DEF Idle
  <2>2. i \in IdsOf(queue)' <=> i \in IdsOf(queue)
    BY DEF IdsOf
  <2>3. \A w \in Workers : i \in Batch(w)' <=> i \in Batch(w)
    BY DEF Batch, IdsOf
  <2>4. OncePer(i)
    BY DEF Once
  <2>. QED
    BY <2>1, <2>2, <2>3, <2>4 DEF OncePer, Gone, OnItsWay
<1>. QED
  BY <1>1 DEF Once

LEMMA RecvOnce ==
  ASSUME Shape, Once, NEW s \in Streams, Recv(s)
  PROVE  Once'
<1>1. /\ InHand(s) = {} /\ \A t \in Streams \ {s} : InHand(t)' = InHand(t)
      /\ \A i \in Ids : /\ Due(i, received) => Due(i, received') /\ i[1] # Len(received) + 1
                        /\ Due(i, received') => Due(i, received) \/ i \in InHand(s)'
      /\ \A i \in InHand(s)' : i[1] = Len(received) + 1 /\ Due(i, received')
  BY RecvTypes
<1>2. UNCHANGED <<queue, worker, copies, doubtful, dropped, lost>>
  BY DEF Recv, indexer, outcome
<1>3. ASSUME NEW i \in Ids PROVE OncePer(i)'
  <2>1. \A t \in Streams : i \in InHand(t)' <=> i \in InHand(t) \/ (t = s /\ i \in InHand(s)')
    BY <1>1
  <2>2. i \in InHand(s)' => ~Due(i, received) /\ Due(i, received')
    BY <1>1
  <2>3. Due(i, received') <=> Due(i, received) \/ i \in InHand(s)'
    BY <1>1
  <2>4. i \in IdsOf(queue)' <=> i \in IdsOf(queue)
    BY <1>2 DEF IdsOf
  <2>5. \A w \in Workers : i \in Batch(w)' <=> i \in Batch(w)
    BY <1>2 DEF Batch, IdsOf
  <2>6. OncePer(i) /\ copies[i] \in Nat
    BY DEF Once, Shape
  <2>7. CASE i \in InHand(s)'
    <3>1. ~OnItsWay(i) /\ copies[i] = 0 /\ ~Gone(i) /\ OnItsWay(i)'
      BY <2>2, <2>6, <2>7 DEF OncePer, OnItsWay
    <3>. QED
      BY <1>2, <2>1, <2>3, <2>4, <2>5, <2>6, <2>7, <3>1 DEF OncePer, OnItsWay, Gone
  <2>8. CASE i \notin InHand(s)'
    BY <1>2, <2>1, <2>3, <2>4, <2>5, <2>6, <2>8 DEF OncePer, OnItsWay, Gone
  <2>. QED
    BY <2>7, <2>8
<1>. QED
  BY <1>2, <1>3 DEF Once

LEMMA AddOnce ==
  ASSUME Shape, Once, NEW s \in Streams, Add(s)
  PROVE  Once'
<1>1. PICK x : x = Item(s).id
  OBVIOUS
<1>2. /\ x \in InHand(s) /\ InHand(s)' = InHand(s) \ {x}
      /\ \A t \in Streams \ {s} : InHand(t)' = InHand(t)
      /\ IdsOf(queue)' = IdsOf(queue) \cup {x}
      /\ Distinct(queue) /\ x \notin IdsOf(queue) => Distinct(queue')
  BY <1>1, AddTypes
<1>3. UNCHANGED <<worker, copies, received, doubtful, dropped, lost>>
  BY DEF Add, outcome
<1>4. x \in Ids
  BY <1>2, OnTheWay
<1>5. ASSUME NEW i \in Ids PROVE OncePer(i)'
  <2>1. \A t \in Streams : i \in InHand(t)' <=> i \in InHand(t) /\ ~(t = s /\ i = x)
    BY <1>2
  <2>2. i \in IdsOf(queue)' <=> i \in IdsOf(queue) \/ i = x
    BY <1>2
  <2>3. \A w \in Workers : i \in Batch(w)' <=> i \in Batch(w)
    BY <1>3 DEF Batch, IdsOf
  <2>4. OncePer(i)
    BY DEF Once
  <2>5. OnItsWay(i)' <=> OnItsWay(i)
    BY <1>2, <2>1, <2>2, <2>3 DEF OnItsWay
  <2>. QED
    BY <1>2, <1>3, <2>1, <2>2, <2>3, <2>4, <2>5 DEF OncePer, Gone
<1>6. Distinct(queue')
  BY <1>2, <1>4 DEF Once, OncePer
<1>. QED
  BY <1>3, <1>5, <1>6 DEF Once

LEMMA InsertOnce ==
  ASSUME Shape, Once, NEW s \in Streams, Insert(s)
  PROVE  Once'
<1>1. PICK x : x = Item(s).id
  OBVIOUS
<1>2. /\ x \in InHand(s) /\ InHand(s)' = InHand(s) \ {x}
      /\ \A t \in Streams \ {s} : InHand(t)' = InHand(t)
      /\ \/ /\ \A i \in Ids : copies'[i] = IF i = x THEN copies[i] + 1 ELSE copies[i]
            /\ dropped' = dropped
         \/ copies' = copies /\ dropped' = dropped \cup {x}
  BY <1>1, InsertTypes
<1>3. UNCHANGED <<queue, worker, received, doubtful, lost>>
  BY DEF Insert, indexer
<1>4. ASSUME NEW i \in Ids PROVE OncePer(i)'
  <2>1. \A t \in Streams : i \in InHand(t)' <=> i \in InHand(t) /\ ~(t = s /\ i = x)
    BY <1>2
  <2>2. i \in IdsOf(queue)' <=> i \in IdsOf(queue)
    BY <1>3 DEF IdsOf
  <2>3. \A w \in Workers : i \in Batch(w)' <=> i \in Batch(w)
    BY <1>3 DEF Batch, IdsOf
  <2>4. OncePer(i) /\ copies[i] \in Nat /\ Retries \in Nat
    BY ScaleAssumption DEF Once, Shape
  <2>5. CASE i # x
    <3>1. copies'[i] = copies[i] /\ (Gone(i)' <=> Gone(i))
      BY <1>2, <1>3, <2>5 DEF Gone
    <3>2. OnItsWay(i)' <=> OnItsWay(i)
      BY <2>1, <2>2, <2>3, <2>5 DEF OnItsWay
    <3>. QED
      BY <1>3, <2>1, <2>2, <2>3, <2>4, <2>5, <3>1, <3>2 DEF OncePer
  <2>6. CASE i = x
    <3>1. copies[i] = 0 /\ ~Gone(i) /\ OnItsWay(i) /\ ~OnItsWay(i)'
      BY <1>2, <2>1, <2>2, <2>3, <2>4, <2>6 DEF OncePer, OnItsWay
    <3>2. \/ copies'[i] = 1 /\ ~Gone(i)'
          \/ copies'[i] = 0 /\ Gone(i)'
      BY <1>2, <1>3, <2>6, <3>1 DEF Gone
    <3>. QED
      BY <1>3, <2>4, <3>1, <3>2 DEF OncePer, OnItsWay
  <2>. QED
    BY <2>5, <2>6
<1>. QED
  BY <1>3, <1>4 DEF Once

LEMMA TakeOnce ==
  ASSUME Shape, Once, NEW w \in Workers, Take(w)
  PROVE  Once'
<1>1. PICK x : x = Head(queue).id
  OBVIOUS
<1>2. /\ worker'[w].sent = worker[w].sent
      /\ \A v \in Workers \ {w} : worker'[v] = worker[v]
      /\ x \in IdsOf(queue)
      /\ IdsOf(worker'[w].batch) = IdsOf(worker[w].batch) \cup {x}
      /\ Distinct(queue) => Distinct(queue') /\ IdsOf(queue)' = IdsOf(queue) \ {x}
      /\ Distinct(worker[w].batch) /\ x \notin IdsOf(worker[w].batch)
           => Distinct(worker'[w].batch)
  BY <1>1, TakeTypes
<1>3. UNCHANGED <<handler, copies, received, doubtful, dropped, lost>>
  BY DEF Take, outcome
<1>4. x \in Ids
  BY <1>2, OnTheWay
<1>5. Distinct(queue') /\ IdsOf(queue)' = IdsOf(queue) \ {x}
  BY <1>2 DEF Once
<1>6. ASSUME NEW i \in Ids PROVE OncePer(i)'
  <2>1. \A t \in Streams : i \in InHand(t)' <=> i \in InHand(t)
    BY <1>3 DEF InHand, Busy
  <2>2. i \in IdsOf(queue)' <=> i \in IdsOf(queue) /\ i # x
    BY <1>5
  <2>3. \A v \in Workers : i \in Batch(v)' <=> i \in Batch(v) \/ (v = w /\ i = x)
    BY <1>2 DEF Batch, IdsOf
  <2>4. OncePer(i) /\ copies[i] \in Nat
    BY DEF Once, Shape
  <2>5. \A v \in Workers : worker'[v].sent = worker[v].sent
    BY <1>2
  <2>6. OnItsWay(i)' <=> OnItsWay(i)
    BY <1>2, <2>1, <2>2, <2>3 DEF OnItsWay
  <2>7. CASE i = x
    <3>1. worker[w].sent \in Nat
      BY DEF Shape, WorkerType
    <3>2. /\ copies[i] = 0 /\ ~Gone(i) /\ \A t \in Streams : i \notin InHand(t)
          /\ \A v \in Workers : i \notin Batch(v)
      BY <1>2, <2>4, <2>7 DEF OncePer
    <3>. QED
      BY <1>3, <2>1, <2>2, <2>3, <2>4, <2>5, <2>6, <2>7, <3>1, <3>2 DEF OncePer, Gone
  <2>8. CASE i # x
    BY <1>3, <2>1, <2>2, <2>3, <2>4, <2>5, <2>6, <2>8 DEF OncePer, Gone
  <2>. QED
    BY <2>7, <2>8
<1>7. \A v \in Workers : Distinct(worker'[v].batch)
  <2>1. x \notin IdsOf(worker[w].batch)
    BY <1>2, <1>4 DEF Once, OncePer, Batch
  <2>. QED
    BY <1>2, <2>1 DEF Once
<1>. QED
  BY <1>5, <1>6, <1>7 DEF Once

LEMMA NoneDistinct == Distinct(<<>>) /\ IdsOf(<<>>) = {}
BY DEF Distinct, IdsOf

\* A batch leaves its worker: what becomes of every other entry.
LEMMA EmptyOnce ==
  ASSUME Shape, Once, NEW w \in Workers, worker'[w].batch = <<>>,
         \A v \in Workers \ {w} : worker'[v] = worker[v],
         UNCHANGED <<handler, queue, received, lost>>
  PROVE  /\ \A i \in Ids :
              /\ \A t \in Streams : i \in InHand(t)' <=> i \in InHand(t)
              /\ i \in IdsOf(queue)' <=> i \in IdsOf(queue)
              /\ \A v \in Workers : i \in Batch(v)' <=> i \in Batch(v) /\ v # w
              /\ i \in Batch(w) => OnItsWay(i) /\ ~OnItsWay(i)'
              /\ i \notin Batch(w) => (OnItsWay(i)' <=> OnItsWay(i))
         /\ Distinct(queue') /\ \A v \in Workers : Distinct(worker'[v].batch)
<1>1. ASSUME NEW i \in Ids
      PROVE  /\ \A t \in Streams : i \in InHand(t)' <=> i \in InHand(t)
             /\ i \in IdsOf(queue)' <=> i \in IdsOf(queue)
             /\ \A v \in Workers : i \in Batch(v)' <=> i \in Batch(v) /\ v # w
  <2>1. \A t \in Streams : i \in InHand(t)' <=> i \in InHand(t)
    BY DEF InHand, Busy
  <2>2. i \in IdsOf(queue)' <=> i \in IdsOf(queue)
    BY DEF IdsOf
  <2>3. i \notin Batch(w)'
    BY NoneDistinct DEF Batch
  <2>4. \A v \in Workers \ {w} : i \in Batch(v)' <=> i \in Batch(v)
    BY DEF Batch, IdsOf
  <2>. QED
    BY <2>1, <2>2, <2>3, <2>4
<1>2. ASSUME NEW i \in Ids
      PROVE  /\ i \in Batch(w) => OnItsWay(i) /\ ~OnItsWay(i)'
             /\ i \notin Batch(w) => (OnItsWay(i)' <=> OnItsWay(i))
  <2>1. OncePer(i)
    BY DEF Once
  <2>2. i \notin Batch(w) => (OnItsWay(i)' <=> OnItsWay(i))
    BY <1>1 DEF OnItsWay
  <2>3. i \in Batch(w) => /\ i \notin IdsOf(queue) /\ \A t \in Streams : i \notin InHand(t)
                          /\ \A v \in Workers : i \in Batch(v) => v = w
    BY <2>1 DEF OncePer
  <2>4. i \in Batch(w) => OnItsWay(i) /\ ~OnItsWay(i)'
    BY <1>1, <2>3 DEF OnItsWay
  <2>. QED
    BY <2>2, <2>4
<1>3. Distinct(queue') /\ \A v \in Workers : Distinct(worker'[v].batch)
  BY NoneDistinct DEF Once
<1>. QED
  BY <1>1, <1>2, <1>3

LEMMA AcceptOnce ==
  ASSUME Shape, Once, NEW w \in Workers, Accept(w)
  PROVE  Once'
<1>1. /\ worker'[w].batch = <<>> /\ \A v \in Workers \ {w} : worker'[v] = worker[v]
      /\ \E K, D \in SUBSET Batch(w) :
           /\ K \cup D = Batch(w) /\ OnceMore(K) /\ dropped' = dropped \cup D
           /\ Distinct(worker[w].batch) => K \cap D = {}
  BY AcceptTypes DEF Batch
<1>2. PICK K, D \in SUBSET Batch(w) :
        /\ K \cup D = Batch(w) /\ OnceMore(K) /\ dropped' = dropped \cup D
        /\ K \cap D = {}
  BY <1>1 DEF Once
<1>3. UNCHANGED <<handler, queue, received, lost, doubtful>>
  BY DEF Accept
<1>4. ASSUME NEW i \in Ids PROVE OncePer(i)'
  <2>1. /\ \A t \in Streams : i \in InHand(t)' <=> i \in InHand(t)
        /\ i \in IdsOf(queue)' <=> i \in IdsOf(queue)
        /\ \A v \in Workers : i \in Batch(v)' <=> i \in Batch(v) /\ v # w
        /\ i \in Batch(w) => OnItsWay(i) /\ ~OnItsWay(i)'
        /\ i \notin Batch(w) => (OnItsWay(i)' <=> OnItsWay(i))
    BY <1>1, <1>3, EmptyOnce
  <2>2. OncePer(i) /\ copies[i] \in Nat
    BY DEF Once, Shape
  <2>3. CASE i \in Batch(w)
    <3>1. /\ worker[w].sent \in 0..Retries /\ copies[i] <= worker[w].sent
          /\ ~Gone(i) /\ (copies[i] > 0 => i \in doubtful)
      BY <2>2, <2>3 DEF OncePer, Shape, WorkerType
    <3>2. \/ copies'[i] = copies[i] + 1 /\ ~Gone(i)'
          \/ copies'[i] = copies[i] /\ Gone(i)'
      BY <1>2, <1>3, <2>3, <3>1 DEF OnceMore, Gone
    <3>3. copies'[i] <= Retries + 1 /\ (copies'[i] > 1 => copies[i] > 0)
      BY <2>2, <3>1, <3>2, ScaleAssumption
    <3>4. ~OnItsWay(i)' /\ (copies'[i] > 0 \/ Gone(i)') /\ Due(i, received)
      BY <2>1, <2>2, <2>3, <3>2 DEF OncePer
    <3>. QED
      BY <1>3, <2>2, <3>1, <3>2, <3>3, <3>4 DEF OncePer, OnItsWay
  <2>4. CASE i \notin Batch(w)
    <3>1. copies'[i] = copies[i] /\ (Gone(i)' <=> Gone(i))
      BY <1>2, <1>3, <2>4 DEF OnceMore, Gone
    <3>2. \A v \in Workers : i \in Batch(v)' => v # w /\ worker'[v] = worker[v]
      BY <1>1, <2>1
    <3>. QED
      BY <1>3, <2>1, <2>2, <2>4, <3>1, <3>2 DEF OncePer
  <2>. QED
    BY <2>3, <2>4
<1>5. Distinct(queue') /\ \A v \in Workers : Distinct(worker'[v].batch)
  BY <1>1, <1>3, EmptyOnce
<1>. QED
  BY <1>4, <1>5 DEF Once

LEMMA RetryOnce ==
  ASSUME Shape, Once, NEW w \in Workers, Retry(w)
  PROVE  Once'
<1>1. /\ worker'[w].batch = worker[w].batch
      /\ worker'[w].sent = worker[w].sent + 1 /\ worker[w].sent < Retries
      /\ \A v \in Workers \ {w} : worker'[v] = worker[v]
      /\ \E K \in SUBSET Batch(w) : OnceMore(K) /\ doubtful' = doubtful \cup K
  BY RetryTypes DEF Batch
<1>2. PICK K \in SUBSET Batch(w) : OnceMore(K) /\ doubtful' = doubtful \cup K
  BY <1>1
<1>3. UNCHANGED <<handler, queue, received, lost, dropped>>
  BY DEF Retry, Fail
<1>4. \A v \in Workers : worker'[v].batch = worker[v].batch
  BY <1>1
<1>5. ASSUME NEW i \in Ids PROVE OncePer(i)'
  <2>1. \A t \in Streams : i \in InHand(t)' <=> i \in InHand(t)
    BY <1>3 DEF InHand, Busy
  <2>2. i \in IdsOf(queue)' <=> i \in IdsOf(queue)
    BY <1>3 DEF IdsOf
  <2>3. \A v \in Workers : i \in Batch(v)' <=> i \in Batch(v)
    BY <1>4 DEF Batch, IdsOf
  <2>4. OncePer(i) /\ copies[i] \in Nat
    BY DEF Once, Shape
  <2>5. (OnItsWay(i)' <=> OnItsWay(i)) /\ (Gone(i)' <=> Gone(i))
    BY <1>3, <2>1, <2>2, <2>3 DEF OnItsWay, Gone
  <2>6. CASE i \in K
    <3>1. /\ worker[w].sent \in 0..Retries /\ copies[i] <= worker[w].sent
          /\ ~Gone(i) /\ i \in Batch(w) /\ Retries \in Nat
          /\ \A t \in Streams : i \notin InHand(t)
          /\ i \notin IdsOf(queue) /\ \A v \in Workers : i \in Batch(v) => v = w
      BY <2>4, <2>6, ScaleAssumption DEF OncePer, Shape, WorkerType
    <3>2. copies'[i] = copies[i] + 1 /\ i \in doubtful'
      BY <1>2, <2>6 DEF OnceMore
    <3>3. copies'[i] <= worker'[w].sent /\ copies'[i] <= Retries + 1
      BY <1>1, <2>4, <3>1, <3>2
    <3>4. OnItsWay(i) /\ Due(i, received)
      BY <2>4, <3>1 DEF OncePer, OnItsWay
    <3>. QED
      BY <1>3, <2>1, <2>2, <2>3, <2>5, <3>1, <3>2, <3>3, <3>4 DEF OncePer
  <2>7. CASE i \notin K
    <3>1. copies'[i] = copies[i] /\ (i \in doubtful' <=> i \in doubtful)
      BY <1>2, <2>7 DEF OnceMore
    <3>2. \A v \in Workers : copies[i] <= worker[v].sent => copies[i] <= worker'[v].sent
      <4>1. worker[w].sent \in Nat
        BY DEF Shape, WorkerType
      <4>. QED
        BY <1>1, <2>4, <4>1
    <3>. QED
      BY <1>3, <2>1, <2>2, <2>3, <2>4, <2>5, <3>1, <3>2 DEF OncePer
  <2>. QED
    BY <2>6, <2>7
<1>6. Distinct(queue') /\ \A v \in Workers : Distinct(worker'[v].batch)
  BY <1>3, <1>4 DEF Once
<1>. QED
  BY <1>5, <1>6 DEF Once

LEMMA GiveUpOnce ==
  ASSUME Shape, Once, NEW w \in Workers, GiveUp(w)
  PROVE  Once'
<1>1. /\ worker'[w].batch = <<>> /\ \A v \in Workers \ {w} : worker'[v] = worker[v]
      /\ dropped' = dropped \cup Batch(w)
      /\ \E K \in SUBSET Batch(w) : OnceMore(K) /\ doubtful' = doubtful \cup K
  BY GiveUpTypes DEF Batch
<1>2. PICK K \in SUBSET Batch(w) : OnceMore(K) /\ doubtful' = doubtful \cup K
  BY <1>1
<1>3. UNCHANGED <<handler, queue, received, lost>>
  BY DEF GiveUp, Fail
<1>4. ASSUME NEW i \in Ids PROVE OncePer(i)'
  <2>1. /\ \A t \in Streams : i \in InHand(t)' <=> i \in InHand(t)
        /\ i \in IdsOf(queue)' <=> i \in IdsOf(queue)
        /\ \A v \in Workers : i \in Batch(v)' <=> i \in Batch(v) /\ v # w
        /\ i \in Batch(w) => OnItsWay(i) /\ ~OnItsWay(i)'
        /\ i \notin Batch(w) => (OnItsWay(i)' <=> OnItsWay(i))
    BY <1>1, <1>3, EmptyOnce
  <2>2. OncePer(i) /\ copies[i] \in Nat
    BY DEF Once, Shape
  <2>3. CASE i \in Batch(w)
    <3>1. /\ worker[w].sent \in 0..Retries /\ copies[i] <= worker[w].sent
          /\ (copies[i] > 0 => i \in doubtful)
      BY <2>2, <2>3 DEF OncePer, Shape, WorkerType
    <3>2. \/ copies'[i] = copies[i] + 1 /\ i \in doubtful'
          \/ copies'[i] = copies[i] /\ (i \in doubtful' <=> i \in doubtful)
      BY <1>2 DEF OnceMore
    <3>3. copies'[i] <= Retries + 1 /\ (copies'[i] > 0 => i \in doubtful')
      BY <2>2, <3>1, <3>2, ScaleAssumption
    <3>4. ~OnItsWay(i)' /\ Gone(i)' /\ Due(i, received)
      BY <1>1, <2>1, <2>2, <2>3 DEF OncePer, Gone
    <3>5. copies'[i] \in Nat
      BY <2>2, <3>2
    <3>. QED
      BY <1>3, <3>3, <3>4, <3>5 DEF OncePer, OnItsWay
  <2>4. CASE i \notin Batch(w)
    <3>1. /\ copies'[i] = copies[i] /\ (Gone(i)' <=> Gone(i))
          /\ (i \in doubtful' <=> i \in doubtful)
      BY <1>1, <1>2, <1>3, <2>4 DEF OnceMore, Gone
    <3>2. \A v \in Workers : i \in Batch(v)' => v # w /\ worker'[v] = worker[v]
      BY <1>1, <2>1
    <3>. QED
      BY <1>3, <2>1, <2>2, <2>4, <3>1, <3>2 DEF OncePer
  <2>. QED
    BY <2>3, <2>4
<1>5. Distinct(queue') /\ \A v \in Workers : Distinct(worker'[v].batch)
  BY <1>1, <1>3, EmptyOnce
<1>. QED
  BY <1>4, <1>5 DEF Once

LEMMA DieOnce ==
  ASSUME Shape, Once, Die
  PROVE  Once'
<1>1. /\ \A s \in Streams : InHand(s)' = {}
      /\ queue' = <<>> /\ \A w \in Workers : worker'[w].batch = <<>>
  BY DieTypes
<1>2. UNCHANGED <<copies, received, doubtful, dropped>> /\ lost' = lost \cup Pending
  BY DEF Die, outcome
<1>3. ASSUME NEW i \in Ids PROVE OncePer(i)'
  <2>1. /\ \A s \in Streams : i \notin InHand(s)'
        /\ i \notin IdsOf(queue)' /\ \A w \in Workers : i \notin Batch(w)'
    BY <1>1, NoneDistinct DEF Batch
  <2>2. ~OnItsWay(i)'
    BY <2>1 DEF OnItsWay
  <2>3. i \in Pending <=> OnItsWay(i)
    BY DEF Pending, OnItsWay, Batch
  <2>4. Gone(i)' <=> Gone(i) \/ OnItsWay(i)
    BY <1>2, <2>3 DEF Gone
  <2>5. OncePer(i) /\ copies[i] \in Nat
    BY DEF Once, Shape
  <2>6. OnItsWay(i) /\ copies[i] > 0 => i \in doubtful
    BY <2>5 DEF OncePer, OnItsWay
  <2>. QED
    BY <1>2, <2>1, <2>2, <2>4, <2>5, <2>6 DEF OncePer
<1>. QED
  BY <1>1, <1>3, NoneDistinct DEF Once

LEMMA InitOnce == Init => Once
<1>. SUFFICES ASSUME Init PROVE Once
  OBVIOUS
<1>1. ASSUME NEW i \in Ids PROVE OncePer(i)
  <2>1. \A s \in Streams : i \notin InHand(s)
    BY DEF Init, InHand, Busy, NoStreams, Waiting
  <2>2. i \notin IdsOf(queue) /\ \A w \in Workers : i \notin Batch(w)
    BY NoneDistinct DEF Init, Batch
  <2>3. copies[i] = 0 /\ ~Gone(i) /\ ~Due(i, received)
    BY DEF Init, Gone, Due
  <2>. QED
    BY <2>1, <2>2, <2>3, ScaleAssumption DEF OncePer, OnItsWay
<1>. QED
  BY <1>1, NoneDistinct DEF Once, Init

-----------------------------------------------------------------------------
(* The theorems *)

Inv == Shape /\ Once

LEMMA InvStep == Inv /\ [Next]_vars => Inv'
<1>. SUFFICES ASSUME Inv, [Next]_vars PROVE Inv'
  OBVIOUS
<1>1. Shape /\ Once
  BY DEF Inv
<1>2. CASE UNCHANGED vars
  BY <1>1, <1>2, StutterTypes, IdleOnce DEF Inv, vars
<1>3. ASSUME NEW s \in Streams, Connect(s) PROVE Inv'
  BY <1>1, <1>3, ConnectTypes, IdleOnce DEF Inv, Connect, indexer, outcome
<1>4. ASSUME NEW s \in Streams, Break(s) PROVE Inv'
  BY <1>1, <1>4, BreakTypes, IdleOnce DEF Inv, Break, indexer, outcome
<1>5. ASSUME NEW s \in Streams, Recv(s) PROVE Inv'
  BY <1>1, <1>5, RecvTypes, RecvOnce DEF Inv
<1>6. ASSUME NEW s \in Streams, ReadClock(s) PROVE Inv'
  BY <1>1, <1>6, ReadClockTypes, IdleOnce DEF Inv, ReadClock, indexer, outcome
<1>7. ASSUME NEW s \in Streams, Add(s) PROVE Inv'
  BY <1>1, <1>7, AddTypes, AddOnce DEF Inv
<1>8. ASSUME NEW s \in Streams, Insert(s) PROVE Inv'
  BY <1>1, <1>8, InsertTypes, InsertOnce DEF Inv
<1>9. ASSUME NEW w \in Workers, Take(w) PROVE Inv'
  BY <1>1, <1>9, TakeTypes, TakeOnce DEF Inv
<1>10. ASSUME NEW w \in Workers, Accept(w) PROVE Inv'
  BY <1>1, <1>10, AcceptTypes, AcceptOnce DEF Inv
<1>11. ASSUME NEW w \in Workers, Retry(w) PROVE Inv'
  BY <1>1, <1>11, RetryTypes, RetryOnce DEF Inv
<1>12. ASSUME NEW w \in Workers, GiveUp(w) PROVE Inv'
  BY <1>1, <1>12, GiveUpTypes, GiveUpOnce DEF Inv
<1>13. CASE Die
  BY <1>1, <1>13, DieTypes, DieOnce DEF Inv
<1>14. CASE Start
  BY <1>1, <1>14, StartTypes, IdleOnce DEF Inv, Start, indexer, outcome
<1>15. CASE Tick
  BY <1>1, <1>15, TickTypes, IdleOnce DEF Inv, Tick, indexer, outcome
<1>. QED
  BY <1>2, <1>3, <1>4, <1>5, <1>6, <1>7, <1>8, <1>9, <1>10, <1>11, <1>12, <1>13,
     <1>14, <1>15 DEF Next, Handle, Send, Panic

LEMMA Invariant == Spec => []Inv
<1>1. Init => Inv
  BY InitTypes, InitOnce DEF Inv
<1>. QED
  BY <1>1, InvStep, PTL DEF Spec

\* The state has its type: a busy goroutine is at an entry of the message it
\* received, the queue has no more items than there are workers, no batch is
\* sent more often than Init of als.go allows, and the backend has nothing that
\* was not written.
THEOREM TypeCorrect == Spec => []TypeOK
<1>1. ASSUME Inv PROVE TypeOK
  <2>1. Shape /\ Once
    BY <1>1 DEF Inv
  <2>2. copies \in [Ids -> 0..(Retries + 1)]
    <3>1. copies \in [Ids -> Nat]
      BY <2>1 DEF Shape
    <3>2. \A i \in Ids : copies[i] \in Nat /\ copies[i] <= Retries + 1
      BY <2>1, <3>1 DEF Once, OncePer
    <3>3. \A i \in Ids : copies[i] \in 0..(Retries + 1)
      BY <3>2, ScaleAssumption
    <3>. QED
      BY <3>1, <3>3
  <2>3. ASSUME NEW s \in Streams
        PROVE  /\ handler[s].link \in {"none", "open", "broken"}
               /\ Busy(s) => /\ handler[s].n \in DOMAIN received
                             /\ handler[s].msg = received[handler[s].n]
                             /\ handler[s].next \in 1..Len(handler[s].msg.entries)
                             /\ Len(handler[s].read) <= Parts(handler[s].msg.kind)
               /\ handler[s].link = "none" => ~Busy(s)
    <3>1. handler[s] \in HandlerType /\ Fits(handler[s], received)
      BY <2>1 DEF Shape
    <3>. QED
      BY <3>1 DEF HandlerType, Fits, Busy
  <2>4. \A w \in Workers : worker[w].sent \in 0..Retries
    BY <2>1 DEF Shape, WorkerType
  <2>. QED
    BY <2>1, <2>2, <2>3, <2>4 DEF TypeOK, Shape
<1>. QED
  BY <1>1, Invariant, PTL

\* An entry received is counted at one place on its way, if it is on its way.
LEMMA CopiesCounted ==
  ASSUME Inv, NEW i \in Ids
  PROVE  Copies(i) = IF OnItsWay(i) THEN 1 ELSE 0
<1>1. OncePer(i) /\ Distinct(queue) /\ \A w \in Workers : Distinct(worker[w].batch)
  BY DEF Inv, Once
<1>. DEFINE H == {s \in Streams : i \in InHand(s)}
            Q == {k \in DOMAIN queue : queue[k].id = i}
            B == {b \in Batched : worker[b[1]].batch[b[2]].id = i}
<1>2. H # {} <=> \E s \in Streams : i \in InHand(s)
  OBVIOUS
<1>3. Q # {} <=> i \in IdsOf(queue)
  BY DEF IdsOf
<1>4. \A b : b \in B <=> \E w \in Workers : \E k \in DOMAIN worker[w].batch :
               b = <<w, k>> /\ worker[w].batch[k].id = i
  BY DEF Batched
<1>5. B # {} <=> \E w \in Workers : i \in Batch(w)
  <2>1. \A w : i \in Batch(w) <=> \E k \in DOMAIN worker[w].batch : worker[w].batch[k].id = i
    BY DEF Batch, IdsOf
  <2>. HIDE DEF B
  <2>. QED
    BY <1>4, <2>1
<1>6. \A s, t \in H : s = t
  BY <1>1 DEF OncePer
<1>7. \A j, k \in Q : j = k
  BY <1>1 DEF Distinct
<1>8. ASSUME NEW a \in B, NEW b \in B PROVE a = b
  <2>1. PICK v \in Workers : \E j \in DOMAIN worker[v].batch :
          a = <<v, j>> /\ worker[v].batch[j].id = i
    BY <1>4
  <2>2. PICK w \in Workers : \E k \in DOMAIN worker[w].batch :
          b = <<w, k>> /\ worker[w].batch[k].id = i
    BY <1>4
  <2>3. i \in Batch(v) /\ i \in Batch(w)
    BY <2>1, <2>2 DEF Batch, IdsOf
  <2>4. v = w
    BY <1>1, <2>3 DEF OncePer
  <2>. QED
    BY <1>1, <2>1, <2>2, <2>4 DEF Distinct
<1>9. Copies(i) = Cardinality(H) + Cardinality(Q) + Cardinality(B)
  BY DEF Copies
<1>. HIDE DEF H, Q, B
<1>10. /\ Cardinality(H) = IF H = {} THEN 0 ELSE 1
       /\ Cardinality(Q) = IF Q = {} THEN 0 ELSE 1
       /\ Cardinality(B) = IF B = {} THEN 0 ELSE 1
  <2>1. Cardinality(H) = IF H = {} THEN 0 ELSE 1
    BY <1>6, AtMostOne
  <2>2. Cardinality(Q) = IF Q = {} THEN 0 ELSE 1
    BY <1>7, AtMostOne
  <2>3. Cardinality(B) = IF B = {} THEN 0 ELSE 1
    BY <1>8, AtMostOne
  <2>. QED
    BY <2>1, <2>2, <2>3
<1>11. /\ H # {} => Q = {} /\ B = {}
       /\ Q # {} => B = {}
       /\ OnItsWay(i) <=> H # {} \/ Q # {} \/ B # {}
  BY <1>1, <1>2, <1>3, <1>5 DEF OncePer, OnItsWay
<1>. QED
  BY <1>9, <1>10, <1>11

\* No entry vanishes in the service and none is written twice by it: one that
\* was received is at exactly one place, or stored, given up or lost with the
\* process; a second copy is due to a request that failed after it had stored
\* the entry (StreamAccessLogs, WriteHTTPLog, WriteTCPLog, Init).
THEOREM EveryEntryAccounted == Spec => []Accounted
<1>1. ASSUME Inv PROVE Accounted
  <2>. SUFFICES ASSUME NEW n \in DOMAIN received, NEW k \in DOMAIN received[n].entries,
                       NEW i, i = <<n, k>>
                PROVE  IF received[n].entries[k] = None
                       THEN Copies(i) = 0 /\ copies[i] = 0
                       ELSE /\ Copies(i) <= 1
                            /\ Copies(i) = 0 => copies[i] > 0 \/ i \in dropped \cup lost
                            /\ copies[i] + Copies(i) > 1 => i \in doubtful
                            /\ copies[i] > 0 /\ i \in dropped \cup lost => i \in doubtful
    BY DEF Accounted
  <2>1. i \in Ids
    <3>1. received \in Seq(Messages) /\ Len(received) <= MaxMessages
      BY <1>1 DEF Inv, Shape
    <3>2. received[n] \in Messages /\ n \in 1..MaxMessages
      BY <3>1, BoundsAssumption
    <3>3. k \in 1..MaxEntries
      BY <3>2, MessagesAssumption, BoundsAssumption
    <3>. QED
      BY <3>2, <3>3 DEF Ids
  <2>2. OncePer(i) /\ copies[i] \in Nat
    BY <1>1, <2>1 DEF Inv, Once, Shape
  <2>3. Copies(i) = IF OnItsWay(i) THEN 1 ELSE 0
    BY <1>1, <2>1, CopiesCounted
  <2>4. Due(i, received) <=> received[n].entries[k] # None
    BY DEF Due
  <2>5. OnItsWay(i) /\ copies[i] > 0 => i \in doubtful
    BY <2>2 DEF OncePer, OnItsWay
  <2>6. /\ copies[i] > 1 => i \in doubtful
        /\ copies[i] > 0 /\ Gone(i) => i \in doubtful
        /\ Due(i, received) <=> OnItsWay(i) \/ copies[i] > 0 \/ Gone(i)
    BY <2>2 DEF OncePer
  <2>7. CASE received[n].entries[k] = None
    BY <2>2, <2>3, <2>4, <2>6, <2>7
  <2>8. CASE received[n].entries[k] # None
    BY <2>2, <2>3, <2>4, <2>5, <2>6, <2>8 DEF Gone
  <2>. QED
    BY <2>7, <2>8
<1>. QED
  BY <1>1, Invariant, PTL

\* What the backend has of an entry is what Envoy sent: its kind, its cluster
\* and, if it fits 32 bits of nanoseconds, its duration (StreamAccessLogs).
THEOREM LoggedIsSent == Spec => []LoggedAsSent
<1>1. ASSUME Inv PROVE LoggedAsSent
  <2>. SUFFICES ASSUME NEW x \in store
                PROVE  LET m == received[x.id[1]]
                           e == m.entries[x.id[2]].common
                       IN
                       /\ x.kind = m.kind
                       /\ IF e = None THEN x.says = [cluster |-> "", time |-> 0]
                          ELSE /\ x.says.cluster = e.cluster
                               /\ LET sent == IF e.time = None THEN 0
                                              ELSE e.time.seconds * Second + e.time.nanos
                                  IN  sent < Word => x.says.time = sent
    BY DEF LoggedAsSent
  <2>m. PICK m : m = received[x.id[1]]
    OBVIOUS
  <2>e. PICK e : e = m.entries[x.id[2]].common
    OBVIOUS
  <2>1. x \in ItemsOf(received)
    BY <1>1 DEF Inv, Shape
  <2>2. /\ x.kind = m.kind /\ x.says = Convert(m.entries[x.id[2]])
        /\ x.id[1] \in DOMAIN received /\ x.id[2] \in DOMAIN m.entries
        /\ m.entries[x.id[2]] # None
    BY <2>1, <2>m DEF ItemsOf, Due
  <2>3. m \in Messages
    BY <1>1, <2>m, <2>2 DEF Inv, Shape
  <2>4. CASE e = None
    BY <2>m, <2>e, <2>2, <2>4 DEF Convert
  <2>5. CASE e # None
    <3>1. /\ x.says.cluster = e.cluster
          /\ x.says.time = IF e.time = None THEN 0 ELSE Nanoseconds(e.time)
      BY <2>2, <2>e, <2>5 DEF Convert
    <3>2. CASE e.time = None
      BY <2>m, <2>e, <2>2, <2>5, <3>1, <3>2
    <3>3. CASE e.time # None
      <4>1. e.time.seconds \in Nat /\ e.time.nanos \in Nat
        BY <2>2, <2>3, <2>e, <2>5, <3>3, MessagesAssumption
      <4>2. PICK sent : sent = e.time.seconds * Second + e.time.nanos
        OBVIOUS
      <4>3. sent \in Nat /\ Word \in Nat \ {0}
        BY <4>1, <4>2, ScaleAssumption
      <4>4. sent < Word => sent % Word = sent
        BY <4>3
      <4>5. Nanoseconds(e.time) = sent % Word
        BY <4>2 DEF Nanoseconds
      <4>. QED
        BY <2>m, <2>e, <2>2, <2>5, <3>1, <3>3, <4>2, <4>4, <4>5
    <3>. QED
      BY <3>2, <3>3
  <2>. QED
    BY <2>4, <2>5
<1>. QED
  BY <1>1, Invariant, PTL

-----------------------------------------------------------------------------
(* Index names *)

\* Quotient and remainder.
LEMMA DivMod ==
  ASSUME NEW a \in Nat, NEW b \in Nat \ {0}
  PROVE  /\ a \div b \in Nat /\ a % b \in Nat /\ a % b < b
         /\ a = b * (a \div b) + (a % b)
<1>1. a \div b \in Nat /\ a % b \in Nat
  OBVIOUS
<1>2. a % b < b
  OBVIOUS
<1>3. a - b * (a \div b) = a % b
  OBVIOUS
<1>4. b * (a \div b) \in Nat
  BY <1>1
<1>5. a = b * (a \div b) + (a % b)
  BY <1>1, <1>3, <1>4
<1>. QED
  BY <1>1, <1>2, <1>5

\* They are determined by the number, and in its order.
LEMMA Unique ==
  ASSUME NEW b \in Nat \ {0}, NEW q \in Nat, NEW p \in Nat, NEW r \in Nat, NEW s \in Nat,
         r < b, s < b, b * q + r <= b * p + s
  PROVE  q <= p /\ (q = p => r <= s)
<1>1. ASSUME q > p PROVE FALSE
  <2>1. q - 1 - p \in Nat
    BY <1>1
  <2>2. PICK d \in Nat : q = p + 1 + d
    BY <2>1
  <2>3. b * q = b * p + b + b * d /\ b * p \in Nat /\ b * d \in Nat /\ b * q \in Nat
    BY <2>2
  <2>. QED
    BY <2>3
<1>2. b * q \in Nat /\ b * p \in Nat
  OBVIOUS
<1>. QED
  BY <1>1, <1>2

LEMMA DivOrder ==
  ASSUME NEW a \in Nat, NEW c \in Nat, a <= c, NEW b \in Nat \ {0}
  PROVE  /\ a \div b <= c \div b
         /\ a \div b = c \div b => a % b <= c % b
         /\ a \div b = c \div b /\ a % b = c % b => a = c
<1>1. /\ a \div b \in Nat /\ a % b \in Nat /\ a % b < b /\ a = b * (a \div b) + (a % b)
      /\ c \div b \in Nat /\ c % b \in Nat /\ c % b < b /\ c = b * (c \div b) + (c % b)
  BY DivMod
<1>2. b * (a \div b) + (a % b) <= b * (c \div b) + (c % b)
  BY <1>1
<1>. QED
  BY <1>1, <1>2, Unique

\* To divide twice is to divide by the product.
LEMMA DivDiv ==
  ASSUME NEW t \in Nat, NEW a \in Nat \ {0}, NEW b \in Nat \ {0}
  PROVE  (t \div a) \div b = t \div (a * b)
<1>1. PICK q \in Nat, r \in Nat : q = t \div a /\ r = t % a /\ r < a /\ t = a * q + r
  BY DivMod
<1>2. PICK p \in Nat, s \in Nat : p = q \div b /\ s = q % b /\ s < b /\ q = b * p + s
  BY DivMod
<1>3. a * b \in Nat \ {0}
  OBVIOUS
<1>4. PICK p2 \in Nat, s2 \in Nat :
        p2 = t \div (a * b) /\ s2 = t % (a * b) /\ s2 < a * b /\ t = (a * b) * p2 + s2
  <2>. DEFINE m == a * b
  <2>1. m \in Nat \ {0}
    BY <1>3
  <2>. HIDE DEF m
  <2>2. /\ t \div m \in Nat /\ t % m \in Nat /\ t % m < m
        /\ t = m * (t \div m) + (t % m)
    BY <2>1, DivMod
  <2>. QED
    BY <2>2 DEF m
<1>5. a * s + r \in Nat /\ a * s + r < a * b
  <2>1. s + 1 <= b /\ b - (s + 1) \in Nat
    BY <1>2
  <2>2. PICK d \in Nat : b = s + 1 + d
    BY <2>1
  <2>3. a * b = a * s + a + a * d /\ a * d \in Nat /\ a * s \in Nat
    BY <2>2
  <2>. QED
    BY <1>1, <2>3
<1>6. t = (a * b) * p + (a * s + r)
  <2>1. a * q = a * (b * p) + a * s
    BY <1>2
  <2>2. a * (b * p) = (a * b) * p
    OBVIOUS
  <2>3. a * q \in Nat /\ a * s \in Nat /\ a * (b * p) \in Nat
    OBVIOUS
  <2>. QED
    BY <1>1, <2>1, <2>2, <2>3
<1>7. p <= p2 /\ p2 <= p
  <2>1. (a * b) * p + (a * s + r) <= (a * b) * p2 + s2
    BY <1>3, <1>4, <1>5, <1>6
  <2>2. (a * b) * p2 + s2 <= (a * b) * p + (a * s + r)
    BY <1>3, <1>4, <1>5, <1>6
  <2>. QED
    BY <1>3, <1>4, <1>5, <2>1, <2>2, Unique
<1>8. p = p2
  BY <1>7
<1>9. (t \div a) \div b = p
  BY <1>1, <1>2
<1>10. t \div (a * b) = p2
  BY <1>4
<1>. QED
  BY <1>8, <1>9, <1>10

\* A time in whole units of each part of an index name.
Units(t) == <<t \div (Radix * Radix * Radix), t \div (Radix * Radix), t \div Radix, t>>

LEMMA UnitsOf ==
  ASSUME NEW t \in Nat
  PROVE  /\ \A k \in 1..4 : Units(t)[k] \in Nat /\ Digits(t)[k] \in Nat
         /\ Digits(t)[1] = Units(t)[1]
         /\ \A k \in 1..3 : /\ Units(t)[k] = Units(t)[k + 1] \div Radix
                            /\ Digits(t)[k + 1] = Units(t)[k + 1] % Radix
         /\ \A n \in 1..4 : /\ Len(SubSeq(Digits(t), 1, n)) = n
                            /\ SubSeq(Digits(t), 1, n) \in Seq(Nat)
                            /\ \A k \in 1..n : SubSeq(Digits(t), 1, n)[k] = Digits(t)[k]
<1>1. /\ Radix \in Nat \ {0} /\ Radix * Radix \in Nat \ {0}
      /\ Radix * Radix * Radix \in Nat \ {0}
  <2>1. \A a, b \in Nat \ {0} : a * b \in Nat \ {0}
    OBVIOUS
  <2>2. Radix \in Nat \ {0}
    BY ScaleAssumption
  <2>3. Radix * Radix \in Nat \ {0}
    BY <2>1, <2>2
  <2>4. Radix * Radix * Radix \in Nat \ {0}
    BY <2>1, <2>2, <2>3
  <2>. QED
    BY <2>2, <2>3, <2>4
<1>2. /\ t \div (Radix * Radix * Radix) \in Nat /\ t \div (Radix * Radix) \in Nat
      /\ t \div Radix \in Nat
  BY <1>1, DivMod
<1>3. /\ (t \div Radix) \div Radix = t \div (Radix * Radix)
      /\ (t \div (Radix * Radix)) \div Radix = t \div (Radix * Radix * Radix)
  BY <1>1, DivDiv
<1>4. \A k \in 1..4 : Units(t)[k] \in Nat
  BY <1>2 DEF Units
<1>5. \A k \in 1..4 : Digits(t)[k] \in Nat
  BY DigitsTypes
<1>6. \A k \in 1..3 : Units(t)[k] = Units(t)[k + 1] \div Radix
  <2>1. /\ Units(t)[1] = Units(t)[2] \div Radix /\ Units(t)[2] = Units(t)[3] \div Radix
        /\ Units(t)[3] = Units(t)[4] \div Radix
    BY <1>3 DEF Units
  <2>. QED
    BY <2>1
<1>7. \A k \in 1..3 : Digits(t)[k + 1] = Units(t)[k + 1] % Radix
  <2>1. /\ Digits(t)[2] = Units(t)[2] % Radix /\ Digits(t)[3] = Units(t)[3] % Radix
        /\ Digits(t)[4] = Units(t)[4] % Radix
    BY DEF Units, Digits
  <2>. QED
    BY <2>1
<1>8. Digits(t)[1] = Units(t)[1]
  BY DEF Units, Digits
<1>9. Digits(t) \in Seq(Nat) /\ Len(Digits(t)) = 4
  <2>1. PICK a, b, c, d \in Nat : Digits(t) = <<a, b, c, d>>
    <3>1. Digits(t) = <<Digits(t)[1], Digits(t)[2], Digits(t)[3], Digits(t)[4]>>
      BY DEF Digits
    <3>. QED
      BY <1>5, <3>1
  <2>. QED
    BY <2>1
<1>10. ASSUME NEW n \in 1..4
       PROVE  /\ Len(SubSeq(Digits(t), 1, n)) = n
              /\ SubSeq(Digits(t), 1, n) \in Seq(Nat)
              /\ \A k \in 1..n : SubSeq(Digits(t), 1, n)[k] = Digits(t)[k]
  BY <1>9
<1>. QED
  BY <1>4, <1>5, <1>6, <1>7, <1>8, <1>10

\* The earlier of two times is not ahead in any unit; if they are in the same
\* unit then the next digit says which comes first.
LEMMA Narrow ==
  ASSUME NEW t \in Nat, NEW u \in Nat, t <= u
  PROVE  /\ \A k \in 1..4 : Units(t)[k] <= Units(u)[k]
         /\ \A k \in 1..3 :
              /\ Units(t)[k] = Units(u)[k] =>
                   /\ Digits(t)[k + 1] <= Digits(u)[k + 1]
                   /\ Digits(t)[k + 1] = Digits(u)[k + 1]
                        => Units(t)[k + 1] = Units(u)[k + 1]
              /\ Units(t)[k + 1] = Units(u)[k + 1] =>
                   Units(t)[k] = Units(u)[k] /\ Digits(t)[k + 1] = Digits(u)[k + 1]
<1>1. Radix \in Nat \ {0}
  BY ScaleAssumption
<1>2. /\ \A k \in 1..4 : Units(t)[k] \in Nat /\ Units(u)[k] \in Nat
      /\ \A k \in 1..3 : /\ Units(t)[k] = Units(t)[k + 1] \div Radix
                         /\ Digits(t)[k + 1] = Units(t)[k + 1] % Radix
                         /\ Units(u)[k] = Units(u)[k + 1] \div Radix
                         /\ Digits(u)[k + 1] = Units(u)[k + 1] % Radix
  BY UnitsOf
<1>3. ASSUME NEW k \in 1..3, Units(t)[k + 1] <= Units(u)[k + 1]
      PROVE  /\ Units(t)[k] <= Units(u)[k]
             /\ Units(t)[k] = Units(u)[k] =>
                   /\ Digits(t)[k + 1] <= Digits(u)[k + 1]
                   /\ Digits(t)[k + 1] = Digits(u)[k + 1]
                        => Units(t)[k + 1] = Units(u)[k + 1]
  <2>1. PICK a \in Nat, c \in Nat : a = Units(t)[k + 1] /\ c = Units(u)[k + 1]
    <3>1. k + 1 \in 1..4
      OBVIOUS
    <3>. QED
      BY <1>2, <3>1
  <2>2. /\ a \div Radix <= c \div Radix
        /\ a \div Radix = c \div Radix => a % Radix <= c % Radix
        /\ a \div Radix = c \div Radix /\ a % Radix = c % Radix => a = c
    BY <1>1, <1>3, <2>1, DivOrder
  <2>. QED
    BY <1>2, <2>1, <2>2
<1>4. Units(t)[4] <= Units(u)[4]
  BY DEF Units
<1>5. Units(t)[3] <= Units(u)[3]
  BY <1>3, <1>4
<1>6. Units(t)[2] <= Units(u)[2]
  BY <1>3, <1>5
<1>7. Units(t)[1] <= Units(u)[1]
  BY <1>3, <1>6
<1>8. \A k \in 1..4 : Units(t)[k] <= Units(u)[k]
  BY <1>4, <1>5, <1>6, <1>7
<1>9. \A k \in 1..3 : Units(t)[k + 1] <= Units(u)[k + 1]
  BY <1>8
<1>10. \A k \in 1..3 : Units(t)[k + 1] = Units(u)[k + 1] =>
         Units(t)[k] = Units(u)[k] /\ Digits(t)[k + 1] = Digits(u)[k + 1]
  BY <1>2
<1>. QED
  BY <1>3, <1>8, <1>9, <1>10

LEMMA FirstDifference ==
  ASSUME NEW n \in Nat, NEW a \in Seq(Nat), Len(a) = n, NEW b \in Seq(Nat), Len(b) = n,
         \A k \in 1..n : (\A j \in 1..(k - 1) : a[j] = b[j]) => a[k] <= b[k]
  PROVE  Before(a, b)
<1>. DEFINE S == {k \in 1..n : a[k] # b[k]}
<1>1. CASE S = {}
  <2>1. \A k \in 1..n : a[k] = b[k]
    BY <1>1
  <2>2. a = b
    BY <2>1
  <2>. QED
    BY <2>2 DEF Before
<1>2. CASE S # {}
  <2>1. S \in SUBSET Nat
    OBVIOUS
  <2>2. PICK k \in S : \A j \in S : k <= j
    BY <1>2, <2>1, LeastOf
  <2>3. \A j \in 1..(k - 1) : a[j] = b[j]
    BY <2>2
  <2>4. k \in DOMAIN a /\ a[k] \in Nat /\ b[k] \in Nat
    OBVIOUS
  <2>5. a[k] <= b[k]
    BY <2>3
  <2>6. a[k] < b[k]
    BY <2>2, <2>4, <2>5
  <2>. QED
    BY <2>3, <2>4, <2>6 DEF Before
<1>. QED
  BY <1>1, <1>2

\* The parts of an index name were read one after the other, the first of them
\* when writing the entry began.
Timely(read, began, now) ==
    \E t \in [DOMAIN read -> Nat] :
        /\ \A k \in DOMAIN read : read[k] = Digits(t[k])[k] /\ t[k] <= now
        /\ \A j, k \in DOMAIN read : j <= k => t[j] <= t[k]
        /\ read # <<>> => t[1] = began

LEMMA InTime ==
  ASSUME NEW n \in 3..4, NEW read \in Seq(Nat), Len(read) = n,
         NEW began \in Nat, NEW now \in Nat, Timely(read, began, now)
  PROVE  /\ Before(read, SubSeq(Digits(now), 1, n))
         /\ SubSeq(Digits(began), 1, n - 1) = SubSeq(Digits(now), 1, n - 1)
              => Before(SubSeq(Digits(began), 1, n), read)
<1>1. DOMAIN read = 1..n /\ read # <<>> /\ n \in Nat /\ n \in 1..4 /\ n - 1 \in 1..3
  OBVIOUS
<1>2. PICK t \in [1..n -> Nat] :
        /\ \A k \in 1..n : read[k] = Digits(t[k])[k] /\ t[k] <= now
        /\ \A j, k \in 1..n : j <= k => t[j] <= t[k]
        /\ t[1] = began
  BY <1>1 DEF Timely
<1>3. \A k \in 1..n : t[k] \in Nat /\ began <= t[k] /\ k \in 1..4
  BY <1>1, <1>2
<1>4. began <= now
  BY <1>1, <1>2, <1>3
<1>5. Before(read, SubSeq(Digits(now), 1, n))
  <2>. DEFINE b == SubSeq(Digits(now), 1, n)
  <2>1. b \in Seq(Nat) /\ Len(b) = n /\ \A k \in 1..n : b[k] = Digits(now)[k]
    BY <1>1, UnitsOf
  <2>. DEFINE P(k) == Units(t[k])[k] = Units(now)[k]
  <2>2. read[1] <= b[1] /\ (read[1] = b[1] => P(1))
    <3>1. 1 \in 1..n /\ t[1] \in Nat /\ t[1] <= now /\ read[1] = Digits(t[1])[1]
      BY <1>1, <1>2, <1>3
    <3>2. Units(t[1])[1] <= Units(now)[1] /\ Digits(t[1])[1] = Units(t[1])[1]
      BY <3>1, Narrow, UnitsOf
    <3>3. b[1] = Units(now)[1]
      BY <2>1, <3>1, UnitsOf
    <3>. QED
      BY <3>1, <3>2, <3>3
  <2>3. ASSUME NEW k \in 1..3, k + 1 <= n, P(k)
        PROVE  read[k + 1] <= b[k + 1] /\ (read[k + 1] = b[k + 1] => P(k + 1))
    <3>1. k \in 1..n /\ k + 1 \in 1..n /\ k \in 1..4
      BY <1>1, <2>3
    <3>2. /\ t[k] \in Nat /\ t[k + 1] \in Nat /\ t[k] <= t[k + 1] /\ t[k + 1] <= now
          /\ read[k + 1] = Digits(t[k + 1])[k + 1]
      BY <1>2, <1>3, <3>1
    <3>3. Units(t[k + 1])[k] = Units(now)[k]
      <4>1. PICK u \in Nat, v \in Nat : u = t[k] /\ v = t[k + 1]
        BY <3>2
      <4>2. u <= v /\ v <= now /\ Units(u)[k] = Units(now)[k]
        BY <2>3, <3>2, <4>1
      <4>3. Units(u)[k] <= Units(v)[k] /\ Units(v)[k] <= Units(now)[k]
        BY <3>1, <4>2, Narrow
      <4>4. Units(u)[k] \in Nat /\ Units(v)[k] \in Nat
        BY <3>1, UnitsOf
      <4>5. Units(v)[k] = Units(now)[k]
        BY <4>2, <4>3, <4>4
      <4>. QED
        BY <4>1, <4>5
    <3>4. /\ Digits(t[k + 1])[k + 1] <= Digits(now)[k + 1]
          /\ Digits(t[k + 1])[k + 1] = Digits(now)[k + 1] => P(k + 1)
      BY <3>2, <3>3, Narrow
    <3>. QED
      BY <2>1, <3>1, <3>2, <3>4
  <2>. HIDE DEF P, b
  <2>4. ASSUME NEW k \in 1..n, \A j \in 1..(k - 1) : read[j] = b[j]
        PROVE  read[k] <= b[k]
    <3>1. CASE k = 1
      BY <2>2, <3>1
    <3>2. k > 1 => P(1)
      BY <2>2, <2>4
    <3>3. CASE k = 2
      <4>1. 1 + 1 = 2 /\ 1 \in 1..3 /\ 1 + 1 <= n
        BY <1>1
      <4>. QED
        BY <2>3, <3>2, <3>3, <4>1
    <3>4. k > 2 => P(2)
      <4>1. 1 + 1 = 2 /\ 1 \in 1..3 /\ 1 + 1 <= n
        BY <1>1
      <4>2. k > 2 => read[2] = b[2] /\ P(1)
        BY <2>4, <3>2
      <4>. QED
        BY <2>3, <4>1, <4>2
    <3>5. CASE k = 3
      <4>1. 2 + 1 = 3 /\ 2 \in 1..3 /\ 2 + 1 <= n
        BY <1>1
      <4>. QED
        BY <2>3, <3>4, <3>5, <4>1
    <3>6. CASE k = 4
      <4>1. 2 + 1 = 3 /\ 2 \in 1..3 /\ 3 + 1 = 4 /\ 3 \in 1..3 /\ 3 + 1 <= n /\ 2 + 1 <= n
        BY <1>1, <3>6
      <4>2. read[3] = b[3] /\ P(2)
        BY <2>4, <3>4, <3>6
      <4>3. P(3)
        BY <2>3, <4>1, <4>2
      <4>. QED
        BY <2>3, <3>6, <4>1, <4>3
    <3>. QED
      BY <1>1, <3>1, <3>3, <3>5, <3>6
  <2>5. Before(read, b)
    BY <1>1, <2>1, <2>4, FirstDifference
  <2>. QED
    BY <2>5 DEF b
<1>6. ASSUME SubSeq(Digits(began), 1, n - 1) = SubSeq(Digits(now), 1, n - 1)
      PROVE  Before(SubSeq(Digits(began), 1, n), read)
  <2>. DEFINE a == SubSeq(Digits(began), 1, n)
  <2>1. a \in Seq(Nat) /\ Len(a) = n /\ \A k \in 1..n : a[k] = Digits(began)[k]
    BY <1>1, UnitsOf
  <2>2. \A k \in 1..(n - 1) : Digits(began)[k] = Digits(now)[k]
    <3>1. n - 1 \in 1..4
      BY <1>1
    <3>. QED
      BY <1>6, <3>1, UnitsOf
  <2>3. Units(began)[n - 1] = Units(now)[n - 1]
    <3>1. Units(began)[1] = Units(now)[1]
      BY <1>1, <2>2, UnitsOf
    <3>2. 1 + 1 = 2 /\ 1 \in 1..3 /\ 2 \in 1..(n - 1) /\ Digits(began)[2] = Digits(now)[2]
      BY <2>2
    <3>3. Units(began)[2] = Units(now)[2]
      BY <1>4, <3>1, <3>2, Narrow
    <3>4. CASE n = 3
      BY <3>3, <3>4
    <3>5. CASE n = 4
      <4>1. 2 + 1 = 3 /\ 2 \in 1..3 /\ 3 \in 1..(n - 1) /\ Digits(began)[3] = Digits(now)[3]
        BY <2>2, <3>5
      <4>2. Units(began)[3] = Units(now)[3]
        BY <1>4, <3>3, <4>1, Narrow
      <4>. QED
        BY <3>5, <4>2
    <3>. QED
      BY <3>4, <3>5
  <2>4. ASSUME NEW k \in 1..n PROVE a[k] <= read[k]
    <3>1. /\ t[k] \in Nat /\ began <= t[k] /\ t[k] <= now /\ k \in 1..4
          /\ read[k] = Digits(t[k])[k] /\ a[k] = Digits(began)[k]
      BY <1>2, <1>3, <2>1
    <3>2. PICK u \in Nat : u = t[k] /\ began <= u /\ u <= now
      BY <3>1
    <3>3. Units(u)[n - 1] = Units(began)[n - 1]
      <4>1. PICK m \in 1..4 : m = n - 1
        BY <1>1
      <4>2. Units(began)[m] = Units(now)[m]
        BY <2>3, <4>1
      <4>3. Units(began)[m] <= Units(u)[m] /\ Units(u)[m] <= Units(now)[m]
        BY <3>2, Narrow
      <4>4. Units(began)[m] \in Nat /\ Units(u)[m] \in Nat
        BY UnitsOf
      <4>5. Units(u)[m] = Units(now)[m]
        BY <4>2, <4>3, <4>4
      <4>. QED
        BY <4>1, <4>2, <4>5
    <3>4. Digits(began)[1] = Units(began)[1] /\ Digits(u)[1] = Units(u)[1]
      BY UnitsOf
    <3>5. ASSUME NEW j \in 1..3, NEW next \in 1..4, next = j + 1
          PROVE  /\ Units(began)[j] = Units(u)[j] => Digits(began)[next] <= Digits(u)[next]
                 /\ Units(began)[next] = Units(u)[next] =>
                      Units(began)[j] = Units(u)[j] /\ Digits(began)[next] = Digits(u)[next]
      BY <3>2, <3>5, Narrow
    <3>6. /\ Units(began)[1] = Units(u)[1] => Digits(began)[2] <= Digits(u)[2]
          /\ Units(began)[2] = Units(u)[2] => /\ Units(began)[1] = Units(u)[1]
                                              /\ Digits(began)[3] <= Digits(u)[3]
          /\ Units(began)[3] = Units(u)[3] => /\ Units(began)[2] = Units(u)[2]
                                              /\ Digits(began)[4] <= Digits(u)[4]
      <4>1. 2 = 1 + 1 /\ 3 = 2 + 1 /\ 4 = 3 + 1
        OBVIOUS
      <4>. QED
        BY <3>5, <4>1
    <3>7. Units(began)[2] = Units(u)[2] /\ Units(began)[1] = Units(u)[1]
      <4>1. CASE n = 3
        BY <3>3, <3>6, <4>1
      <4>2. CASE n = 4
        BY <3>3, <3>6, <4>2
      <4>. QED
        BY <4>1, <4>2
    <3>8. n = 4 => Digits(began)[4] <= Digits(u)[4]
      BY <3>3, <3>6
    <3>9. Digits(began)[1] <= Digits(u)[1]
      <4>1. Digits(began)[1] = Digits(u)[1] /\ Digits(u)[1] \in Nat
        BY <3>4, <3>7, UnitsOf
      <4>. QED
        BY <4>1
    <3>10. Digits(began)[k] <= Digits(u)[k]
      <4>1. k = 1 \/ k = 2 \/ k = 3 \/ (k = 4 /\ n = 4)
        BY <1>1
      <4>. QED
        BY <3>6, <3>7, <3>8, <3>9, <4>1
    <3>. QED
      BY <3>1, <3>2, <3>10
  <2>. HIDE DEF a
  <2>5. Before(a, read)
    BY <1>1, <2>1, <2>4, FirstDifference
  <2>. QED
    BY <2>5 DEF a
<1>. QED
  BY <1>5, <1>6

LEMMA NoneTimely == \A began, now : Timely(<<>>, began, now)
<1>. SUFFICES ASSUME NEW began, NEW now PROVE Timely(<<>>, began, now)
  OBVIOUS
<1>. DEFINE t == [k \in DOMAIN <<>> |-> 0]
<1>1. t \in [DOMAIN <<>> -> Nat] /\ \A k \in DOMAIN <<>> : FALSE
  OBVIOUS
<1>. QED
  BY <1>1 DEF Timely

LEMMA LaterTimely ==
  ASSUME NEW read, NEW began, NEW now \in Nat, NEW later \in Nat, now <= later,
         Timely(read, began, now)
  PROVE  Timely(read, began, later)
<1>1. PICK t \in [DOMAIN read -> Nat] :
        /\ \A k \in DOMAIN read : read[k] = Digits(t[k])[k] /\ t[k] <= now
        /\ \A j, k \in DOMAIN read : j <= k => t[j] <= t[k]
        /\ read # <<>> => t[1] = began
  BY DEF Timely
<1>2. \A k \in DOMAIN read : t[k] <= later
  BY <1>1
<1>. QED
  BY <1>1, <1>2 DEF Timely

LEMMA ReadTimely ==
  ASSUME NEW read \in Seq(Nat), NEW began \in Nat, NEW now \in Nat,
         Timely(read, began, now)
  PROVE  Timely(Append(read, Digits(now)[Len(read) + 1]),
                IF read = <<>> THEN now ELSE began, now)
<1>1. PICK t \in [DOMAIN read -> Nat] :
        /\ \A k \in DOMAIN read : read[k] = Digits(t[k])[k] /\ t[k] <= now
        /\ \A j, k \in DOMAIN read : j <= k => t[j] <= t[k]
        /\ read # <<>> => t[1] = began
  BY DEF Timely
<1>. DEFINE n == Len(read) + 1
            more == Append(read, Digits(now)[n])
            u == [k \in 1..n |-> IF k = n THEN now ELSE t[k]]
            start == IF read = <<>> THEN now ELSE began
<1>2. /\ n \in Nat /\ DOMAIN read = 1..(n - 1) /\ n \in 1..n
      /\ \A k \in 1..n : k = n \/ k \in DOMAIN read
      /\ \A k \in DOMAIN read : k \in 1..n /\ k # n
  OBVIOUS
<1>3. /\ DOMAIN more = 1..n /\ more # <<>> /\ more[n] = Digits(now)[n]
      /\ \A k \in DOMAIN read : more[k] = read[k]
  OBVIOUS
<1>. HIDE DEF n, more
<1>4. u \in [1..n -> Nat] /\ u[n] = now /\ \A k \in DOMAIN read : u[k] = t[k]
  BY <1>1, <1>2
<1>. HIDE DEF u
<1>5. ASSUME NEW k \in 1..n PROVE more[k] = Digits(u[k])[k] /\ u[k] <= now
  <2>1. CASE k = n
    BY <1>3, <1>4, <2>1
  <2>2. CASE k # n
    <3>1. k \in DOMAIN read
      BY <1>2, <2>2
    <3>. QED
      BY <1>1, <1>3, <1>4, <3>1
  <2>. QED
    BY <2>1, <2>2
<1>6. \A j, k \in 1..n : j <= k => u[j] <= u[k]
  <2>. SUFFICES ASSUME NEW j \in 1..n, NEW k \in 1..n, j <= k PROVE u[j] <= u[k]
    OBVIOUS
  <2>1. CASE k = n
    BY <1>4, <1>5, <2>1
  <2>2. CASE k # n
    <3>1. k \in DOMAIN read /\ j \in DOMAIN read
      BY <1>2, <2>2
    <3>. QED
      BY <1>1, <1>4, <3>1
  <2>. QED
    BY <2>1, <2>2
<1>7. u[1] = start
  <2>1. CASE read = <<>>
    <3>1. n = 1
      BY <2>1 DEF n
    <3>. QED
      BY <1>4, <2>1, <3>1
  <2>2. CASE read # <<>>
    <3>1. 1 \in DOMAIN read
      BY <2>2
    <3>. QED
      BY <1>1, <1>4, <2>2, <3>1
  <2>. QED
    BY <2>1, <2>2
<1>8. Timely(more, start, now)
  BY <1>3, <1>4, <1>5, <1>6, <1>7 DEF Timely
<1>. QED
  BY <1>8 DEF more, n

LEMMA FromRead ==
  ASSUME NEW h \in HandlerType, NEW k
  PROVE  From(h, k).read = <<>>
<1>1. \A m : [h EXCEPT !.next = m, !.read = <<>>, !.began = 0].read = <<>>
  BY DEF HandlerType
<1>. QED
  BY <1>1 DEF From, Waiting

\* The items on their way to Elasticsearch, and what it has, are timely.
Timed(x) == Len(x.index) = Parts(x.kind) /\ Timely(x.index, x.began, x.ended)
AllTimed(items) == \A k \in DOMAIN items : Timed(items[k])
Timing ==
    backend = "es" =>
        /\ \A s \in Streams : Timely(handler[s].read, handler[s].began, clock)
        /\ AllTimed(queue)
        /\ \A w \in Workers : AllTimed(worker[w].batch)
        /\ \A x \in store : Timed(x)

LEMMA InitTiming == Init => Timing
<1>. SUFFICES ASSUME Init PROVE Timing
  OBVIOUS
<1>1. \A s \in Streams : handler[s].read = <<>>
  BY DEF Init, NoStreams, Waiting
<1>. QED
  BY <1>1, NoneTimely DEF Init, Timing, AllTimed

\* A goroutine that has not begun to read, or has not changed, is in time.
LEMMA HandlerTiming ==
  ASSUME Timing, UNCHANGED <<backend, clock, queue, worker, store>>,
         \A s \in Streams :
           \/ handler'[s].read = <<>>
           \/ /\ handler'[s].read = handler[s].read
              /\ handler'[s].began = handler[s].began
  PROVE  Timing'
BY NoneTimely DEF Timing

LEMMA StreamTiming ==
  ASSUME Shape, Timing, NEW s \in Streams, Connect(s) \/ Break(s) \/ Recv(s)
  PROVE  Timing'
<1>1. handler \in [Streams -> HandlerType] /\ handler[s] \in HandlerType
  BY DEF Shape
<1>2. UNCHANGED <<backend, clock, queue, worker, store>>
  BY DEF Connect, Break, Recv, indexer, outcome
<1>3. ASSUME Connect(s)
      PROVE  handler'[s].read = <<>> /\ \A t \in Streams \ {s} : handler'[t] = handler[t]
  BY <1>1, <1>3 DEF Connect, Waiting
<1>4. ASSUME Break(s)
      PROVE  /\ handler'[s].read = handler[s].read /\ handler'[s].began = handler[s].began
             /\ \A t \in Streams \ {s} : handler'[t] = handler[t]
  <2>1. handler'[s] = [handler[s] EXCEPT !.link = "broken"]
    BY <1>1, <1>4 DEF Break
  <2>. QED
    BY <1>1, <1>4, <2>1 DEF Break, HandlerType
<1>5. ASSUME Recv(s)
      PROVE  handler'[s].read = <<>> /\ \A t \in Streams \ {s} : handler'[t] = handler[t]
  <2>1. PICK m \in Messages :
          /\ received' = Append(received, m)
          /\ handler' = [handler EXCEPT ![s] = From([@ EXCEPT !.msg = m, !.n = Len(received')], 1)]
    BY <1>5 DEF Recv
  <2>2. PICK n : n = Len(received')
    OBVIOUS
  <2>3. PICK h : h = [handler[s] EXCEPT !.msg = m, !.n = n]
    OBVIOUS
  <2>4. n \in Nat
    <3>1. received' \in Seq(Messages)
      BY <2>1 DEF Shape
    <3>. QED
      BY <2>2, <3>1
  <2>5. h \in HandlerType
    BY <1>1, <2>3, <2>4 DEF HandlerType
  <2>6. handler'[s] = From(h, 1)
    BY <1>1, <2>1, <2>2, <2>3
  <2>7. handler'[s].read = <<>>
    BY <2>5, <2>6, FromRead
  <2>. QED
    BY <1>1, <2>1, <2>7
<1>6. \A t \in Streams :
         \/ handler'[t].read = <<>>
         \/ /\ handler'[t].read = handler[t].read
            /\ handler'[t].began = handler[t].began
  BY <1>3, <1>4, <1>5
<1>. QED
  BY <1>2, <1>6, HandlerTiming

LEMMA ReadClockTiming ==
  ASSUME Shape, Timing, NEW s \in Streams, ReadClock(s)
  PROVE  Timing'
<1>1. /\ handler \in [Streams -> HandlerType] /\ handler[s] \in HandlerType /\ clock \in Nat
      /\ backend = "es" /\ UNCHANGED <<backend, clock, queue, worker, store>>
  BY BoundsAssumption DEF Shape, ReadClock, indexer, outcome
<1>2. PICK read : read = handler[s].read
  OBVIOUS
<1>3. PICK began : began = handler[s].began
  OBVIOUS
<1>4. PICK now : now = clock
  OBVIOUS
<1>5. /\ read \in Seq(Nat) /\ began \in Nat /\ now \in Nat /\ Timely(read, began, now)
  BY <1>1, <1>2, <1>3, <1>4 DEF HandlerType, Timing
<1>6. PICK start : start = IF read = <<>> THEN now ELSE began
  OBVIOUS
<1>7. PICK more : more = Append(read, Digits(now)[Len(read) + 1])
  OBVIOUS
<1>8. PICK g : g = [handler[s] EXCEPT !.read = more, !.began = start]
  OBVIOUS
<1>9. handler' = [handler EXCEPT ![s] = g]
  BY <1>1, <1>2, <1>3, <1>4, <1>6, <1>7, <1>8 DEF ReadClock
<1>10. g.read = more /\ g.began = start
  BY <1>1, <1>8 DEF HandlerType
<1>11. Timely(more, start, now)
  BY <1>5, <1>6, <1>7, ReadTimely
<1>12. \A t \in Streams : Timely(handler'[t].read, handler'[t].began, clock')
  <2>1. handler'[s] = g /\ \A t \in Streams \ {s} : handler'[t] = handler[t]
    BY <1>1, <1>9
  <2>2. Timely(handler'[s].read, handler'[s].began, clock')
    BY <1>1, <1>4, <1>10, <1>11, <2>1
  <2>3. \A t \in Streams \ {s} : Timely(handler'[t].read, handler'[t].began, clock')
    BY <1>1, <2>1 DEF Timing
  <2>. QED
    BY <2>2, <2>3
<1>. QED
  BY <1>1, <1>12 DEF Timing

LEMMA TimedItems ==
  /\ \A S : \A q \in Seq(S) : \A x \in S : AllTimed(q) /\ Timed(x) => AllTimed(Append(q, x))
  /\ \A S : \A q \in Seq(S) : AllTimed(q) /\ q # <<>> => AllTimed(Tail(q)) /\ Timed(Head(q))
  /\ AllTimed(<<>>)
<1>1. ASSUME NEW S, NEW q \in Seq(S), NEW x \in S, AllTimed(q), Timed(x)
      PROVE  AllTimed(Append(q, x))
  <2>1. \A k \in DOMAIN Append(q, x) :
          (k \in DOMAIN q /\ Append(q, x)[k] = q[k]) \/ Append(q, x)[k] = x
    OBVIOUS
  <2>. QED
    BY <1>1, <2>1 DEF AllTimed
<1>2. ASSUME NEW S, NEW q \in Seq(S), AllTimed(q), q # <<>>
      PROVE  AllTimed(Tail(q)) /\ Timed(Head(q))
  <2>1. /\ 1 \in DOMAIN q /\ Head(q) = q[1]
        /\ \A k \in DOMAIN Tail(q) : k + 1 \in DOMAIN q /\ Tail(q)[k] = q[k + 1]
    BY <1>2
  <2>. QED
    BY <1>2, <2>1 DEF AllTimed
<1>3. AllTimed(<<>>)
  BY DEF AllTimed
<1>. QED
  BY <1>1, <1>2, <1>3

LEMMA DoneTiming ==
  ASSUME Shape, NEW s \in Streams, Busy(s), Done(s)
  PROVE  handler'[s].read = <<>> /\ \A t \in Streams \ {s} : handler'[t] = handler[t]
<1>1. handler \in [Streams -> HandlerType] /\ handler[s] \in HandlerType
  BY DEF Shape
<1>2. handler'[s] = From(handler[s], handler[s].next + 1)
  BY <1>1 DEF Done
<1>3. handler'[s].read = <<>>
  BY <1>1, <1>2, FromRead
<1>. QED
  BY <1>1, <1>3 DEF Done

LEMMA AddTiming ==
  ASSUME Shape, Timing, NEW s \in Streams, Add(s)
  PROVE  Timing'
<1>1. /\ Busy(s) /\ Done(s) /\ queue' = Append(queue, Item(s)) /\ backend = "es"
      /\ Len(handler[s].read) = Parts(handler[s].msg.kind)
      /\ UNCHANGED <<backend, clock, worker, store>>
  BY DEF Add, Writing, outcome
<1>2. handler'[s].read = <<>> /\ \A t \in Streams \ {s} : handler'[t] = handler[t]
  BY <1>1, DoneTiming
<1>3. Timed(Item(s))
  <2>1. Timely(handler[s].read, handler[s].began, clock)
    BY <1>1 DEF Timing
  <2>. QED
    BY <1>1, <2>1 DEF Item, Timed
<1>4. AllTimed(queue')
  <2>1. Item(s) \in ItemsOf(received) /\ queue \in Seq(ItemsOf(received))
    BY <1>1, CurrentItem DEF Shape
  <2>2. AllTimed(queue)
    BY <1>1 DEF Timing
  <2>. QED
    BY <1>1, <1>3, <2>1, <2>2, TimedItems
<1>5. \A t \in Streams : Timely(handler'[t].read, handler'[t].began, clock')
  BY <1>1, <1>2, NoneTimely DEF Timing
<1>. QED
  BY <1>1, <1>4, <1>5 DEF Timing

LEMMA TakeTiming ==
  ASSUME Shape, Timing, NEW w \in Workers, Take(w)
  PROVE  Timing'
<1>1. /\ queue # <<>> /\ queue \in Seq(ItemsOf(received)) /\ queue' = Tail(queue)
      /\ worker' = [worker EXCEPT ![w].batch = Append(worker[w].batch, Head(queue))]
      /\ worker \in [Workers -> WorkerType(received)]
      /\ UNCHANGED <<backend, clock, handler, store>>
  BY DEF Take, Shape, outcome
<1>2. /\ worker'[w].batch = Append(worker[w].batch, Head(queue))
      /\ \A v \in Workers \ {w} : worker'[v] = worker[v]
  BY <1>1 DEF WorkerType
<1>3. worker[w].batch \in Seq(ItemsOf(received)) /\ Head(queue) \in ItemsOf(received)
  BY <1>1 DEF WorkerType
<1>4. ASSUME backend = "es"
      PROVE  AllTimed(queue') /\ \A v \in Workers : AllTimed(worker'[v].batch)
  <2>1. AllTimed(queue) /\ \A v \in Workers : AllTimed(worker[v].batch)
    BY <1>4 DEF Timing
  <2>2. AllTimed(Tail(queue)) /\ Timed(Head(queue))
    BY <1>1, <2>1, TimedItems
  <2>3. AllTimed(Append(worker[w].batch, Head(queue)))
    BY <1>3, <2>1, <2>2, TimedItems
  <2>. QED
    BY <1>1, <1>2, <2>1, <2>2, <2>3
<1>. QED
  BY <1>1, <1>4 DEF Timing

LEMMA SendTiming ==
  ASSUME Shape, Timing, NEW w \in Workers, Send(w)
  PROVE  Timing'
<1>1. UNCHANGED <<backend, clock, handler, queue>>
  BY DEF Send, Accept, Retry, GiveUp, Fail
<1>2. PICK kept \in SUBSET ToSet(worker[w].batch) : Stored(kept)
  BY DEF Send, Accept, Retry, GiveUp, Fail
<1>3. \A v \in Workers : worker'[v].batch = worker[v].batch \/ worker'[v].batch = <<>>
  <2>1. CASE Accept(w)
    BY <2>1, AcceptTypes
  <2>2. CASE Retry(w)
    BY <2>2, RetryTypes
  <2>3. CASE GiveUp(w)
    BY <2>3, GiveUpTypes
  <2>. QED
    BY <2>1, <2>2, <2>3 DEF Send
<1>4. ASSUME backend = "es", NEW x \in store' PROVE Timed(x)
  <2>1. x \in store \/ x \in ToSet(worker[w].batch)
    BY <1>2, <1>4 DEF Stored
  <2>2. AllTimed(worker[w].batch) /\ \A y \in store : Timed(y)
    BY <1>4 DEF Timing
  <2>. QED
    BY <2>1, <2>2 DEF AllTimed, ToSet
<1>5. AllTimed(<<>>)
  BY TimedItems
<1>. QED
  BY <1>1, <1>3, <1>4, <1>5 DEF Timing

LEMMA ProcessTiming ==
  ASSUME Shape, Timing, Die \/ Start \/ Tick \/ UNCHANGED vars
  PROVE  Timing'
<1>1. CASE Die
  <2>1. \A s \in Streams : handler'[s].read = <<>>
    BY <1>1 DEF Die, NoStreams, Waiting
  <2>2. queue' = <<>> /\ \A w \in Workers : worker'[w].batch = <<>>
    BY <1>1 DEF Die
  <2>. QED
    BY <1>1, <2>1, <2>2, NoneTimely, TimedItems DEF Die, Timing, outcome
<1>2. CASE Start
  BY <1>2 DEF Start, Timing, indexer, outcome
<1>3. CASE Tick
  <2>1. clock \in Nat /\ clock' \in Nat /\ clock <= clock'
    BY <1>3, BoundsAssumption DEF Shape, Tick
  <2>2. ASSUME backend = "es", NEW s \in Streams
        PROVE  Timely(handler'[s].read, handler'[s].began, clock')
    BY <1>3, <2>1, <2>2, LaterTimely DEF Timing, Tick
  <2>. QED
    BY <1>3, <2>2 DEF Tick, Timing, indexer, outcome
<1>4. CASE UNCHANGED vars
  BY <1>4 DEF vars, Timing
<1>. QED
  BY <1>1, <1>2, <1>3, <1>4

LEMMA TimingStep == Inv /\ Timing /\ [Next]_vars => Timing'
<1>. SUFFICES ASSUME Inv, Timing, [Next]_vars PROVE Timing'
  OBVIOUS
<1>1. Shape
  BY DEF Inv
<1>2. ASSUME NEW s \in Streams, Connect(s) \/ Break(s) \/ Recv(s) PROVE Timing'
  BY <1>1, <1>2, StreamTiming
<1>3. ASSUME NEW s \in Streams, ReadClock(s) PROVE Timing'
  BY <1>1, <1>3, ReadClockTiming
<1>4. ASSUME NEW s \in Streams, Add(s) PROVE Timing'
  BY <1>1, <1>4, AddTiming
<1>5. ASSUME NEW s \in Streams, Insert(s) PROVE Timing'
  BY <1>5 DEF Insert, Timing
<1>6. ASSUME NEW w \in Workers, Take(w) PROVE Timing'
  BY <1>1, <1>6, TakeTiming
<1>7. ASSUME NEW w \in Workers, Send(w) PROVE Timing'
  BY <1>1, <1>7, SendTiming
<1>8. CASE Die \/ Start \/ Tick \/ UNCHANGED vars
  BY <1>1, <1>8, ProcessTiming
<1>. QED
  BY <1>2, <1>3, <1>4, <1>5, <1>6, <1>7, <1>8 DEF Next, Handle, Panic

\* Though the clock goes on between the parts of an index name, the name is
\* never one of the future, and is behind the time when writing began only if
\* a larger unit of time began meanwhile (WriteHTTPLog, WriteTCPLog).
THEOREM IndexIsInTime == Spec => []IndexedInTime
<1>1. ASSUME Inv, Timing PROVE IndexedInTime
  <2>. SUFFICES ASSUME backend = "es", NEW x \in store
                PROVE  LET n == Parts(x.kind)
                           At(t) == SubSeq(Digits(t), 1, n)
                           Unit(t) == SubSeq(Digits(t), 1, n - 1)
                       IN  /\ Before(x.index, At(x.ended))
                           /\ Unit(x.began) = Unit(x.ended) => Before(At(x.began), x.index)
    BY DEF IndexedInTime
  <2>1. x \in Items
    BY <1>1 DEF Inv, Shape, ItemsOf
  <2>2. PICK n \in 3..4 : n = Parts(x.kind)
    BY DEF Parts
  <2>3. /\ x.index \in Seq(Nat) /\ x.began \in Nat /\ x.ended \in Nat
        /\ Len(x.index) = n /\ Timely(x.index, x.began, x.ended)
    BY <1>1, <2>1, <2>2 DEF Timing, Timed, Items
  <2>4. /\ Before(x.index, SubSeq(Digits(x.ended), 1, n))
        /\ SubSeq(Digits(x.began), 1, n - 1) = SubSeq(Digits(x.ended), 1, n - 1)
              => Before(SubSeq(Digits(x.began), 1, n), x.index)
    BY <2>3, InTime
  <2>. QED
    BY <2>2, <2>4
<1>2. Init => Timing
  BY InitTiming
<1>. QED
  BY <1>1, <1>2, Invariant, TimingStep, PTL DEF Spec
=============================================================================
