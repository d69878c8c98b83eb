---------------------------- MODULE LoaderProofs ----------------------------
(***************************************************************************)
(* Proofs about Loader for any documents, databases, handlers and bounds:  *)
(* type correctness, ServedAsMeant, SettingsAsWritten and RoutedAsWritten, *)
(* from one inductive invariant, LInv, and lemmas about the converters.    *)
(***************************************************************************)
EXTENDS Loader, FiniteSetTheorems, TLAPS

-----------------------------------------------------------------------------
(* Positions in a list: what Pick, Min and Max do *)

\* How many positions of P are not beyond i, and the position of a rank.
Rank(P, i) == Cardinality({j \in P : j <= i})
Place(P, k) == CHOOSE i \in P : Rank(P, i) = k

\* Ranks tell positions apart and run from 1 to their number.
LEMMA Ranks ==
  ASSUME NEW n \in Nat, NEW P \in SUBSET (1..n)
  PROVE  /\ IsFiniteSet(P) /\ Cardinality(P) \in Nat
         /\ \A i \in P : Rank(P, i) \in 1..Cardinality(P)
         /\ \A i, j \in P : i < j => Rank(P, i) < Rank(P, j)
         /\ \A k \in 1..Cardinality(P) : \E i \in P : Rank(P, i) = k
<1> DEFINE Upto(i) == {j \in P : j <= i}
           rank == [i \in P |-> Rank(P, i)]
<1>1. IsFiniteSet(P) /\ Cardinality(P) \in Nat
  <2>1. IsFiniteSet(1..n)
    BY FS_Interval
  <2>2. IsFiniteSet(P)
    BY <2>1, FS_Subset
  <2>. QED
    BY <2>2, FS_CardinalityType
<1>2. \A i \in P : IsFiniteSet(Upto(i)) /\ Cardinality(Upto(i)) \in Nat
                   /\ Cardinality(Upto(i)) <= Cardinality(P)
  BY <1>1, FS_Subset, FS_CardinalityType
<1>3. ASSUME NEW i \in P PROVE Rank(P, i) \in 1..Cardinality(P)
  <2>1. i \in Upto(i)
    OBVIOUS
  <2>2. Cardinality(Upto(i)) # 0
    BY <1>2, <2>1, FS_EmptySet
  <2>. QED
    BY <1>1, <1>2, <2>2 DEF Rank
<1>4. ASSUME NEW i \in P, NEW j \in P, i < j PROVE Rank(P, i) < Rank(P, j)
  <2>1. \A k \in P : k <= i => k <= j
    BY <1>4
  <2>2. j <= j /\ ~(j <= i)
    BY <1>4
  <2>3. Upto(i) \subseteq Upto(j) /\ j \in Upto(j) /\ j \notin Upto(i)
    BY <2>1, <2>2, Zenon
  <2>4. Cardinality(Upto(i)) <= Cardinality(Upto(j))
        /\ (Cardinality(Upto(j)) = Cardinality(Upto(i)) => Upto(j) = Upto(i))
    BY <1>2, <2>3, FS_Subset
  <2>. QED
    BY <1>2, <2>3, <2>4 DEF Rank
<1>5. rank \in [P -> 1..Cardinality(P)]
  BY <1>3
<1>6. ASSUME NEW i \in P, NEW j \in P, rank[i] = rank[j] PROVE i = j
  <2>1. i < j \/ j < i \/ i = j
    OBVIOUS
  <2>. QED
    BY <2>1, <1>3, <1>4, <1>6
<1>7. rank \in Injection(P, 1..Cardinality(P))
  BY <1>5, <1>6 DEF Injection, IsInjective
<1>8. Cardinality(1..Cardinality(P)) = Cardinality(P) /\ IsFiniteSet(1..Cardinality(P))
  BY <1>1, FS_Interval
<1>9. rank \in Surjection(P, 1..Cardinality(P))
  BY <1>7, <1>8, FS_Injection
<1>10. \A k \in 1..Cardinality(P) : \E i \in P : rank[i] = k
  BY <1>9 DEF Surjection
<1>11. \A k \in 1..Cardinality(P) : \E i \in P : Rank(P, i) = k
  BY <1>10
<1>. QED
  BY <1>1, <1>3, <1>4, <1>11, Zenon

\* Pick takes the elements in order, every one once.
LEMMA Places ==
  ASSUME NEW n \in Nat, NEW P \in SUBSET (1..n)
  PROVE  /\ \A k \in 1..Cardinality(P) : Place(P, k) \in P /\ Rank(P, Place(P, k)) = k
         /\ \A i \in P : Rank(P, i) \in 1..Cardinality(P) /\ Place(P, Rank(P, i)) = i
<1>0. \A i, j \in P : i < j => Rank(P, i) < Rank(P, j)
  BY Ranks
<1>1. ASSUME NEW k \in 1..Cardinality(P)
      PROVE  Place(P, k) \in P /\ Rank(P, Place(P, k)) = k
  <2>1. \E i \in P : Rank(P, i) = k
    BY Ranks
  <2>. QED
    BY <2>1 DEF Place
<1>2. ASSUME NEW i \in P
      PROVE  Rank(P, i) \in 1..Cardinality(P) /\ Place(P, Rank(P, i)) = i
  <2>1. Rank(P, i) \in 1..Cardinality(P)
    BY Ranks
  <2>2. /\ Place(P, Rank(P, i)) \in P
        /\ Rank(P, Place(P, Rank(P, i))) = Rank(P, i)
    BY <1>1, <2>1
  <2>3. PICK p \in P : p = Place(P, Rank(P, i))
    BY <2>2
  <2>4. Rank(P, p) = Rank(P, i) /\ Rank(P, i) \in Int
    BY <2>1, <2>2, <2>3
  <2>5. ~(i < p) /\ ~(p < i)
    BY <1>0, <2>4
  <2>6. i = p
    BY <2>5
  <2>. QED
    BY <2>1, <2>3, <2>6
<1>. QED
  BY <1>1, <1>2

\* A nonempty set of positions has a first and a last one.
LEMMA Extremes ==
  ASSUME NEW n \in Nat, NEW P \in SUBSET (1..n), P # {}
  PROVE  Min(P) \in P /\ Max(P) \in P
<1>1. Cardinality(P) \in Nat /\ Cardinality(P) # 0
  BY Ranks, FS_EmptySet
<1>2. 1 \in 1..Cardinality(P) /\ Cardinality(P) \in 1..Cardinality(P)
  BY <1>1
<1>3. PICK a \in P : Rank(P, a) = 1
  BY <1>2, Ranks
<1>4. PICK z \in P : Rank(P, z) = Cardinality(P)
  BY <1>2, Ranks
<1>0. \A i, j \in P : i < j => Rank(P, i) < Rank(P, j)
  BY Ranks
<1>5. ASSUME NEW i \in P PROVE ~(i < a) /\ ~(z < i)
  <2>1. i < a => Rank(P, i) < 1
    BY <1>0, <1>3
  <2>2. z < i => Cardinality(P) < Rank(P, i)
    BY <1>0, <1>4
  <2>3. Rank(P, i) \in 1..Cardinality(P)
    BY Ranks
  <2>. QED
    BY <1>1, <2>1, <2>2, <2>3
<1>6. \A i \in P : a <= i /\ z >= i
  BY <1>5
<1>. QED
  BY <1>6 DEF Min, Max

LEMMA ListElement ==
  ASSUME NEW S, NEW list \in Seq(S), NEW i \in DOMAIN list
  PROVE  list[i] \in S
OBVIOUS

LEMMA ListOf ==
  ASSUME NEW S, NEW n \in Nat, NEW f \in [1..n -> S]
  PROVE  f \in Seq(S) /\ Len(f) = n
OBVIOUS

LEMMA Appended ==
  ASSUME NEW S, NEW list \in Seq(S), NEW d \in S
  PROVE  /\ Append(list, d) \in Seq(S)
         /\ DOMAIN Append(list, d) = DOMAIN list \cup {Len(list) + 1}
         /\ Len(list) + 1 \notin DOMAIN list
         /\ Append(list, d)[Len(list) + 1] = d
         /\ \A i \in DOMAIN list : Append(list, d)[i] = list[i]
<1> DEFINE after == Append(list, d)
           n == Len(list) + 1
<1>1. after \in Seq(S) /\ Len(after) = n
  OBVIOUS
<1>2. DOMAIN after = 1..n /\ DOMAIN list = 1..Len(list) /\ Len(list) \in Nat
  BY <1>1
<1>3. DOMAIN after = DOMAIN list \cup {n} /\ n \notin DOMAIN list
  BY <1>2
<1>4. after[n] = d /\ \A i \in DOMAIN list : after[i] = list[i]
  BY <1>2
<1>. QED
  BY <1>1, <1>3, <1>4

LEMMA Picked ==
  ASSUME NEW S, NEW list \in Seq(S), NEW P \in SUBSET DOMAIN list
  PROVE  /\ Pick(list, P) \in Seq(S)
         /\ DOMAIN Pick(list, P) = 1..Cardinality(P)
         /\ Len(Pick(list, P)) = Cardinality(P)
         /\ \A k \in 1..Cardinality(P) : Pick(list, P)[k] = list[Place(P, k)]
<1>1. P \in SUBSET (1..Len(list)) /\ Len(list) \in Nat
  OBVIOUS
<1>2. Cardinality(P) \in Nat /\ \A k \in 1..Cardinality(P) : Place(P, k) \in P
  BY <1>1, Ranks, Places
<1>3. Pick(list, P) = [k \in 1..Cardinality(P) |-> list[Place(P, k)]]
  BY DEF Pick, Place, Rank
<1>4. \A k \in 1..Cardinality(P) : list[Place(P, k)] \in S
  BY <1>2
<1>. QED
  BY <1>2, <1>3, <1>4

-----------------------------------------------------------------------------
(* Documents in lists *)

LEMMA NamedPositions ==
  ASSUME NEW S, NEW docs \in Seq(S), NEW x
  PROVE  /\ Named(x, docs) \in SUBSET (1..Len(docs))
         /\ Named(x, docs) # {} =>
              Min(Named(x, docs)) \in Named(x, docs) /\ Max(Named(x, docs)) \in Named(x, docs)
<1>1. Named(x, docs) \in SUBSET (1..Len(docs)) /\ Len(docs) \in Nat
  BY DEF Named
<1>. QED
  BY <1>1, Extremes

\* A write leaves the documents of name x as they were, up to their places.
Undisturbed(x, before, after) ==
    /\ Named(x, before) = {} <=> Named(x, after) = {}
    /\ (\A i, j \in Named(x, before) : i = j) => \A i, j \in Named(x, after) : i = j
    /\ \A k \in Named(x, after) : \E i \in Named(x, before) : after[k] = before[i]

\* The documents of name x in c are what was meant: one that says it, or none.
Kept(c, x, docs, wish) ==
    /\ \A i, j \in Named(x, docs) : i = j
    /\ Named(x, docs) = {} => wish = None
    /\ \A i \in Named(x, docs) : wish = Says(c, docs[i])

LEMMA UndisturbedKept ==
  ASSUME NEW c, NEW x, NEW before, NEW after, NEW wish,
         Undisturbed(x, before, after), Kept(c, x, before, wish)
  PROVE  Kept(c, x, after, wish)
<1>1. ASSUME NEW k \in Named(x, after) PROVE wish = Says(c, after[k])
  <2>1. PICK i \in Named(x, before) : after[k] = before[i]
    BY DEF Undisturbed
  <2>. QED
    BY <2>1 DEF Kept
<1>. QED
  BY <1>1 DEF Undisturbed, Kept

LEMMA GoneKept ==
  ASSUME NEW c, NEW x, NEW docs, Named(x, docs) = {}
  PROVE  Kept(c, x, docs, None)
BY DEF Kept

\* ReplaceOne changes one document.
LEMMA ReplaceNamed ==
  ASSUME NEW S, NEW docs \in Seq(S), NEW m \in DOMAIN docs, NEW d \in S, NEW x
  PROVE  /\ ReplaceAt(docs, m, d) \in Seq(S)
         /\ x # docs[m].name /\ x # d.name =>
              Undisturbed(x, docs, ReplaceAt(docs, m, d))
<1> DEFINE after == [docs EXCEPT ![m] = d]
<1>1. after \in Seq(S) /\ DOMAIN after = DOMAIN docs
  OBVIOUS
<1>2. \A i \in DOMAIN docs : after[i] = IF i = m THEN d ELSE docs[i]
  OBVIOUS
<1>3. after = ReplaceAt(docs, m, d)
  BY DEF ReplaceAt
<1>4. ASSUME x # docs[m].name, x # d.name PROVE Undisturbed(x, docs, after)
  <2>1. Named(x, after) = Named(x, docs) /\ m \notin Named(x, docs)
    BY <1>1, <1>2, <1>4 DEF Named
  <2>2. \A k \in Named(x, docs) : after[k] = docs[k]
    BY <1>2, <2>1 DEF Named
  <2>. QED
    BY <2>1, <2>2 DEF Undisturbed
<1>. QED
  BY <1>1, <1>3, <1>4

LEMMA ReplaceKept ==
  ASSUME NEW S, NEW docs \in Seq(S), NEW c, NEW x, NEW d \in S, d.name = x,
         NEW m \in Named(x, docs), \A i, j \in Named(x, docs) : i = j
  PROVE  Kept(c, x, ReplaceAt(docs, m, d), Says(c, d))
<1>1. m \in DOMAIN docs /\ docs[m].name = x
  BY DEF Named
<1>2. Named(x, ReplaceAt(docs, m, d)) = Named(x, docs)
  <2>1. \A i \in DOMAIN docs : ReplaceAt(docs, m, d)[i].name = x <=> docs[i].name = x
    BY <1>1 DEF ReplaceAt
  <2>. QED
    BY <2>1 DEF Named, ReplaceAt
<1>3. ReplaceAt(docs, m, d)[m] = d
  BY <1>1 DEF ReplaceAt
<1>. QED
  BY <1>2, <1>3 DEF Kept

\* The end of an upsert adds one document.
LEMMA AppendNamed ==
  ASSUME NEW S, NEW docs \in Seq(S), NEW d \in S, NEW x
  PROVE  /\ Append(docs, d) \in Seq(S)
         /\ x # d.name => Undisturbed(x, docs, Append(docs, d))
         /\ x = d.name /\ Named(x, docs) = {} => \A c : Kept(c, x, Append(docs, d), Says(c, d))
<1> DEFINE after == Append(docs, d)
           n == Len(docs) + 1
<1>1. after \in Seq(S) /\ DOMAIN after = DOMAIN docs \cup {n} /\ n \notin DOMAIN docs
  BY Appended
<1>2. after[n] = d /\ \A i \in DOMAIN docs : after[i] = docs[i]
  BY Appended
<1> HIDE DEF after, n
<1>3. ASSUME x # d.name PROVE Undisturbed(x, docs, after)
  <2>1. Named(x, after) = Named(x, docs)
    BY <1>1, <1>2, <1>3 DEF Named
  <2>2. \A k \in Named(x, docs) : after[k] = docs[k]
    BY <1>2 DEF Named
  <2>. QED
    BY <2>1, <2>2 DEF Undisturbed
<1>4. ASSUME x = d.name, Named(x, docs) = {}, NEW c PROVE Kept(c, x, after, Says(c, d))
  <2>1. Named(x, after) = {n}
    BY <1>1, <1>2, <1>4 DEF Named
  <2>. QED
    BY <1>2, <2>1 DEF Kept
<1>. QED
  BY <1>1, <1>3, <1>4 DEF after

\* A removal keeps every other document, once.
LEMMA WithoutNamed ==
  ASSUME NEW S, NEW docs \in Seq(S), NEW Q, NEW x
  PROVE  /\ Without(docs, Q) \in Seq(S)
         /\ Named(x, docs) \cap Q = {} => Undisturbed(x, docs, Without(docs, Q))
         /\ Named(x, docs) \subseteq Q => Named(x, Without(docs, Q)) = {}
<1> DEFINE P == DOMAIN docs \ Q
           after == Without(docs, Q)
<1>1. P \in SUBSET (1..Len(docs)) /\ P \in SUBSET DOMAIN docs /\ Len(docs) \in Nat
  OBVIOUS
<1>2. /\ after \in Seq(S) /\ DOMAIN after = 1..Cardinality(P)
      /\ \A k \in DOMAIN after : after[k] = docs[Place(P, k)]
  <2>1. after = Pick(docs, P)
    BY DEF Without
  <2>2. /\ Pick(docs, P) \in Seq(S) /\ DOMAIN Pick(docs, P) = 1..Cardinality(P)
        /\ \A k \in 1..Cardinality(P) : Pick(docs, P)[k] = docs[Place(P, k)]
    BY <1>1, Picked
  <2>. QED
    BY <2>1, <2>2
<1>3. \A k \in DOMAIN after : Place(P, k) \in P /\ Rank(P, Place(P, k)) = k
  BY <1>1, <1>2, Places
<1>4. \A i \in P : Rank(P, i) \in DOMAIN after /\ Place(P, Rank(P, i)) = i
  BY <1>1, <1>2, Places
<1> HIDE DEF after
<1>5. \A k \in Named(x, after) : Place(P, k) \in Named(x, docs) \ Q
  BY <1>2, <1>3 DEF Named
<1>6. \A i \in Named(x, docs) \ Q : Rank(P, i) \in Named(x, after)
  BY <1>2, <1>4 DEF Named
<1>7. \A k \in Named(x, after) : k \in DOMAIN after
  BY DEF Named
<1>8. ASSUME Named(x, docs) \cap Q = {} PROVE Undisturbed(x, docs, after)
  <2>1. \A k \in Named(x, after) : after[k] = docs[Place(P, k)]
    BY <1>2, <1>7
  <2>2. ASSUME \A i, j \in Named(x, docs) : i = j, NEW k \in Named(x, after),
               NEW l \in Named(x, after)
        PROVE  k = l
    <3>1. Place(P, k) = Place(P, l)
      BY <1>5, <2>2
    <3>2. Rank(P, Place(P, k)) = k /\ Rank(P, Place(P, l)) = l
      BY <1>3, <1>7
    <3>. QED
      BY <3>1, <3>2
  <2>3. Named(x, docs) = {} <=> Named(x, after) = {}
    BY <1>5, <1>6, <1>8
  <2>. QED
    BY <1>5, <2>1, <2>2, <2>3 DEF Undisturbed
<1>. QED
  BY <1>2, <1>5, <1>8 DEF after

LEMMA WithoutFirstNamed ==
  ASSUME NEW S, NEW docs \in Seq(S), NEW x
  PROVE  /\ WithoutFirst(x, docs) \in Seq(S)
         /\ \A y : y # x => Undisturbed(y, docs, WithoutFirst(x, docs))
         /\ (\A i, j \in Named(x, docs) : i = j) => Named(x, WithoutFirst(x, docs)) = {}
<1> DEFINE firsts == {i \in Named(x, docs) : \A j \in Named(x, docs) : i <= j}
<1>1. WithoutFirst(x, docs) = Without(docs, firsts)
  BY DEF WithoutFirst
<1>2. Without(docs, firsts) \in Seq(S)
  BY WithoutNamed
<1>3. ASSUME NEW y, y # x PROVE Undisturbed(y, docs, Without(docs, firsts))
  <2>1. Named(y, docs) \cap firsts = {}
    BY <1>3 DEF Named
  <2>. QED
    BY <2>1, WithoutNamed
<1>4. ASSUME \A i, j \in Named(x, docs) : i = j
      PROVE  Named(x, Without(docs, firsts)) = {}
  <2>1. \A i \in Named(x, docs) : i <= i
    BY NamedPositions
  <2>2. Named(x, docs) \subseteq firsts
    BY <1>4, <2>1
  <2>. QED
    BY <2>2, WithoutNamed
<1>. QED
  BY <1>1, <1>2, <1>3, <1>4

LEMMA WithoutAllNamed ==
  ASSUME NEW S, NEW docs \in Seq(S), NEW x
  PROVE  /\ WithoutAll(x, docs) \in Seq(S)
         /\ \A y : y # x => Undisturbed(y, docs, WithoutAll(x, docs))
         /\ Named(x, WithoutAll(x, docs)) = {}
<1>1. WithoutAll(x, docs) = Without(docs, Named(x, docs))
  BY DEF WithoutAll
<1>2. Without(docs, Named(x, docs)) \in Seq(S)
  BY WithoutNamed
<1>3. ASSUME NEW y, y # x PROVE Undisturbed(y, docs, Without(docs, Named(x, docs)))
  <2>1. Named(y, docs) \cap Named(x, docs) = {}
    BY <1>3 DEF Named
  <2>. QED
    BY <2>1, WithoutNamed
<1>4. Named(x, Without(docs, Named(x, docs))) = {}
  <2>1. Named(x, docs) \subseteq Named(x, docs)
    OBVIOUS
  <2>. QED
    BY <2>1, WithoutNamed
<1>. QED
  BY <1>1, <1>2, <1>3, <1>4

-----------------------------------------------------------------------------
(* Endpoint sets, and what documents say *)

GroupSet == [priority: Priorities, lb: Seq(Hosts)]
GroupSets == Seq(GroupSet)

LEMMA EndpointSetFields ==
  ASSUME NEW e
  PROVE  e \in EndpointSets
         <=> /\ e = [name |-> e.name, policy |-> e.policy, groups |-> e.groups]
             /\ e.name \in Names /\ e.policy \in Policies /\ e.groups \in GroupSets
BY DEF EndpointSets, GroupSets, GroupSet

LEMMA GroupFields ==
  ASSUME NEW groups \in GroupSets, NEW g \in DOMAIN groups
  PROVE  /\ groups[g] \in GroupSet
         /\ groups[g] = [priority |-> groups[g].priority, lb |-> groups[g].lb]
         /\ groups[g].priority \in Priorities /\ groups[g].lb \in Seq(Hosts)
<1>1. groups[g] \in GroupSet
  BY ListElement DEF GroupSets
<1>. QED
  BY <1>1 DEF GroupSet

\* The addresses of one group.
Group(g) == {<<g.priority, g.lb[i]>> : i \in DOMAIN g.lb}

LEMMA GroupAddresses ==
  ASSUME NEW g, NEW a
  PROVE  a \in Group(g) <=> \E i \in DOMAIN g.lb : a = <<g.priority, g.lb[i]>>
BY DEF Group

LEMMA WiderGroup ==
  ASSUME NEW g \in GroupSet, NEW w, NEW d \in Hosts, NEW a,
         w.priority = g.priority, w.lb = Append(g.lb, d)
  PROVE  a \in Group(w) <=> a \in Group(g) \/ a = <<g.priority, d>>
<1> DEFINE n == Len(g.lb) + 1
<1>1. g.lb \in Seq(Hosts)
  BY DEF GroupSet
<1>2. /\ DOMAIN (w.lb) = DOMAIN (g.lb) \cup {n} /\ w.lb[n] = d
      /\ \A j \in DOMAIN (g.lb) : w.lb[j] = g.lb[j]
  <2>1. /\ DOMAIN Append(g.lb, d) = DOMAIN (g.lb) \cup {n} /\ Append(g.lb, d)[n] = d
        /\ \A j \in DOMAIN (g.lb) : Append(g.lb, d)[j] = g.lb[j]
    BY <1>1, Appended
  <2>. QED
    BY <2>1
<1> HIDE DEF n
<1>3. a \in Group(w) <=> \E j \in DOMAIN (g.lb) \cup {n} : a = <<g.priority, w.lb[j]>>
  <2>1. a \in Group(w) <=> \E j \in DOMAIN (w.lb) : a = <<w.priority, w.lb[j]>>
    BY GroupAddresses
  <2>. QED
    BY <1>2, <2>1
<1>4. a \in Group(g) <=> \E j \in DOMAIN (g.lb) : a = <<g.priority, w.lb[j]>>
  BY <1>2, GroupAddresses
<1>. QED
  BY <1>2, <1>3, <1>4, Zenon

LEMMA AddressesOf ==
  ASSUME NEW e, NEW a
  PROVE  a \in Addresses(e) <=> \E g \in DOMAIN e.groups : a \in Group(e.groups[g])
BY DEF Addresses, Group

\* Addresses are never mistaken for none.
LEMMA AddressesType ==
  ASSUME NEW e \in EndpointSets
  PROVE  Addresses(e) \subseteq Priorities \X Hosts /\ Addresses(e) # None
<1>1. e.groups \in GroupSets
  BY EndpointSetFields
<1>2. ASSUME NEW a \in Addresses(e) PROVE a \in Priorities \X Hosts
  <2>1. PICK g \in DOMAIN e.groups : a \in Group(e.groups[g])
    BY AddressesOf
  <2>2. PICK i \in DOMAIN (e.groups[g].lb) : a = <<e.groups[g].priority, e.groups[g].lb[i]>>
    BY <2>1, GroupAddresses
  <2>3. e.groups[g].priority \in Priorities /\ e.groups[g].lb \in Seq(Hosts)
    BY <1>1, GroupFields
  <2>4. e.groups[g].lb[i] \in Hosts
    BY <2>3
  <2>. QED
    BY <2>2, <2>3, <2>4
<1>. QED
  BY <1>2, NoneAssumption

\* The converter of endpoint sets keeps name, priorities and addresses.
LEMMA ParsedEndpoints ==
  ASSUME NEW e \in EndpointSets
  PROVE  /\ ParseEndpoint(e) \in EndpointSets /\ ParseEndpoint(e).name = e.name
         /\ Addresses(ParseEndpoint(e)) = Addresses(e)
<1>1. e.name \in Names /\ e.policy \in Policies /\ e.groups \in GroupSets
  BY EndpointSetFields
<1>2. /\ ParseEndpoint(e).name = e.name /\ ParseEndpoint(e).policy = e.policy
      /\ ParseEndpoint(e).groups
           = [g \in DOMAIN e.groups |-> [priority |-> e.groups[g].priority,
                                         lb |-> e.groups[g].lb]]
      /\ ParseEndpoint(e) = [name |-> ParseEndpoint(e).name,
                             policy |-> ParseEndpoint(e).policy,
                             groups |-> ParseEndpoint(e).groups]
  BY DEF ParseEndpoint, Convert
<1>3. \A g \in DOMAIN e.groups :
        e.groups[g] = [priority |-> e.groups[g].priority, lb |-> e.groups[g].lb]
  BY <1>1, GroupFields
<1>4. e.groups = [g \in DOMAIN e.groups |-> e.groups[g]]
  BY <1>1 DEF GroupSets
<1>5. ParseEndpoint(e).groups = e.groups
  BY <1>2, <1>3, <1>4
<1>6. ParseEndpoint(e) \in EndpointSets
  BY <1>1, <1>2, <1>5, EndpointSetFields
<1>7. Addresses(ParseEndpoint(e)) = Addresses(e)
  BY <1>5 DEF Addresses
<1>. QED
  BY <1>2, <1>6, <1>7

\* A body that names one address adds it to what the document says.
LEMMA AddedAddresses ==
  ASSUME NEW e \in EndpointSets, NEW b \in EndpointSets, HasEndpoints(b)
  PROVE  /\ Added(e, b) \in EndpointSets /\ Added(e, b).name = e.name
         /\ ~(Len(b.groups) > 1 \/ Len(b.groups[1].lb) > 1) =>
              Addresses(Added(e, b)) = Addresses(e) \cup Addresses(b)
<1> DEFINE g == b.groups[1]
           joins == \E i \in DOMAIN e.groups : e.groups[i].priority = g.priority
           wider == [i \in DOMAIN e.groups |->
                       IF e.groups[i].priority = g.priority
                       THEN [e.groups[i] EXCEPT !.lb = Append(@, g.lb[1])]
                       ELSE e.groups[i]]
           groups == IF joins THEN wider ELSE Append(e.groups, g)
<1>1. /\ e.groups \in GroupSets /\ b.groups \in GroupSets
      /\ b.groups # <<>> /\ g.lb # <<>>
  BY EndpointSetFields DEF HasEndpoints
<1>2. 1 \in DOMAIN b.groups
  BY <1>1 DEF GroupSets
<1>3. g \in GroupSet /\ g.priority \in Priorities /\ g.lb \in Seq(Hosts)
  BY <1>1, <1>2, GroupFields
<1>4. 1 \in DOMAIN g.lb /\ g.lb[1] \in Hosts
  BY <1>1, <1>3
<1>5. Added(e, b) = [e EXCEPT !.groups = groups]
  BY DEF Added, Convert
<1> HIDE DEF g
<1>6. ASSUME NEW i \in DOMAIN e.groups
      PROVE  /\ e.groups[i] \in GroupSet
             /\ wider[i] \in GroupSet
             /\ wider[i].priority = e.groups[i].priority
             /\ wider[i].lb = IF e.groups[i].priority = g.priority
                              THEN Append(e.groups[i].lb, g.lb[1])
                              ELSE e.groups[i].lb
  <2>1. e.groups[i] \in GroupSet
    BY <1>1, GroupFields
  <2>2. e.groups[i].lb \in Seq(Hosts)
    BY <2>1 DEF GroupSet
  <2>3. Append(e.groups[i].lb, g.lb[1]) \in Seq(Hosts)
    BY <1>4, <2>2
  <2>4. wider[i] = IF e.groups[i].priority = g.priority
                   THEN [e.groups[i] EXCEPT !.lb = Append(e.groups[i].lb, g.lb[1])]
                   ELSE e.groups[i]
    OBVIOUS
  <2> HIDE DEF wider
  <2>. QED
    BY <2>1, <2>3, <2>4 DEF GroupSet
<1>7. wider \in GroupSets /\ Append(e.groups, g) \in GroupSets
  <2>1. wider \in Seq(GroupSet)
    <3>1. Len(e.groups) \in Nat /\ DOMAIN e.groups = 1..Len(e.groups)
      BY <1>1 DEF GroupSets
    <3>2. wider \in [1..Len(e.groups) -> GroupSet]
      BY <1>6, <3>1
    <3>. QED
      BY <3>1, <3>2, ListOf
  <2>. QED
    BY <1>1, <1>3, <2>1, Appended DEF GroupSets
<1>8. groups \in GroupSets /\ DOMAIN wider = DOMAIN e.groups
  BY <1>7
<1> HIDE DEF wider
<1> HIDE DEF groups
<1>9. Added(e, b) \in EndpointSets /\ Added(e, b).name = e.name /\ Added(e, b).groups = groups
  BY <1>5, <1>8, EndpointSetFields
<1>10. ASSUME ~(Len(b.groups) > 1 \/ Len(b.groups[1].lb) > 1)
       PROVE  \A a : a \in Addresses(b) <=> a = <<g.priority, g.lb[1]>>
  <2>1. DOMAIN b.groups = {1} /\ DOMAIN (g.lb) = {1}
    BY <1>1, <1>2, <1>3, <1>4, <1>10 DEF GroupSets, g
  <2>2. \A a : a \in Addresses(b) <=> a \in Group(g)
    BY <2>1, AddressesOf DEF g
  <2>. QED
    BY <2>1, <2>2, GroupAddresses
<1>11. ASSUME NEW a
       PROVE  (\E i \in DOMAIN groups : a \in Group(groups[i]))
              <=> a \in Addresses(e) \/ (IF joins THEN a = <<g.priority, g.lb[1]>>
                                         ELSE a \in Group(g))
  <2>1. CASE joins
    <3>1. groups = wider /\ DOMAIN groups = DOMAIN e.groups
      BY <2>1, <1>8 DEF groups
    <3>2. ASSUME NEW i \in DOMAIN e.groups
          PROVE  a \in Group(wider[i])
                 <=> \/ a \in Group(e.groups[i])
                     \/ e.groups[i].priority = g.priority /\ a = <<g.priority, g.lb[1]>>
      <4>2. CASE e.groups[i].priority = g.priority
        <5>1. /\ e.groups[i] \in GroupSet /\ wider[i].priority = e.groups[i].priority
              /\ wider[i].lb = Append(e.groups[i].lb, g.lb[1])
          BY <1>6, <4>2
        <5>2. a \in Group(wider[i])
              <=> a \in Group(e.groups[i]) \/ a = <<e.groups[i].priority, g.lb[1]>>
          BY <1>4, <5>1, WiderGroup
        <5>. QED
          BY <4>2, <5>2
      <4>3. CASE e.groups[i].priority # g.priority
        BY <4>3, <1>6 DEF wider
      <4>. QED
        BY <4>2, <4>3
    <3>3. PICK i \in DOMAIN e.groups : e.groups[i].priority = g.priority
      BY <2>1
    <3>. QED
      BY <2>1, <3>1, <3>2, <3>3, AddressesOf
  <2>2. CASE ~joins
    <3>1. groups = Append(e.groups, g)
      BY <2>2 DEF groups
    <3>2. /\ DOMAIN groups = DOMAIN e.groups \cup {Len(e.groups) + 1}
          /\ \A j \in DOMAIN e.groups : groups[j] = e.groups[j]
          /\ groups[Len(e.groups) + 1] = g
      BY <1>1, <1>3, <3>1, Appended DEF GroupSets
    <3>. QED
      BY <2>2, <3>2, AddressesOf
  <2>. QED
    BY <2>1, <2>2
<1>12. ASSUME ~(Len(b.groups) > 1 \/ Len(b.groups[1].lb) > 1)
       PROVE  Addresses(Added(e, b)) = Addresses(e) \cup Addresses(b)
  <2>1. DOMAIN (g.lb) = {1}
    BY <1>1, <1>3, <1>4, <1>12 DEF g
  <2>2. \A a : a \in Group(g) <=> a = <<g.priority, g.lb[1]>>
    BY <2>1, GroupAddresses
  <2>3. \A a : a \in Addresses(Added(e, b)) <=> a \in Addresses(e) \/ a \in Addresses(b)
    BY <1>9, <1>10, <1>11, <1>12, <2>2, AddressesOf
  <2>. QED
    BY <2>3
<1>. QED
  BY <1>9, <1>12

-----------------------------------------------------------------------------
(* Documents *)

\* What a collection may hold: documents that came from outside, and endpoint
\* sets that have grown.
Stored(c) == IF c = "endpoints" THEN EndpointSets ELSE Docs(c)

LEMMA StoredFrom ==
  ASSUME NEW c \in Collections
  PROVE  /\ Bodies[c] \subseteq Stored(c)
         /\ \A d \in Databases : d[c] \in Seq(Stored(c))
<1>1. Docs(c) \subseteq Stored(c)
  BY DocumentsAssumption DEF Stored
<1>2. Bodies[c] \subseteq Docs(c)
  BY DEF Docs
<1>3. ASSUME NEW d \in Databases PROVE d[c] \in Seq(Stored(c))
  <2>1. d[c] \in Seq(Docs(c))
    BY DocumentsAssumption
  <2>. QED
    BY <1>1, <2>1
<1>. QED
  BY <1>1, <1>2, <1>3

LEMMA StoredDocument ==
  ASSUME NEW c \in Collections, NEW d \in Stored(c)
  PROVE  d # None /\ d.name \in Names
<1>1. CASE c = "endpoints"
  BY <1>1, NoneAssumption, EndpointSetFields DEF Stored
<1>2. CASE c # "endpoints"
  BY <1>2, NoneAssumption, DocumentsAssumption DEF Stored
<1>. QED
  BY <1>1, <1>2

LEMMA ParsedName ==
  ASSUME NEW c \in Collections, NEW d
  PROVE  Parse(c, d).name = d.name
<1>1. CASE c = "listeners"
  BY <1>1 DEF Parse, ParseListener
<1>2. CASE c = "clusters"
  BY <1>2 DEF Parse, ParseCluster
<1>3. CASE c = "endpoints"
  BY <1>3 DEF Parse, ParseEndpoint
<1>4. CASE c = "secrets"
  BY <1>4 DEF Parse, ParseSecret
<1>. QED
  BY <1>1, <1>2, <1>3, <1>4 DEF Collections

\* A snapshot indexes documents as their converted forms.
LEMMA LoadedResource ==
  ASSUME NEW c \in Collections, NEW x \in Names, coll[c] \in Seq(Stored(c))
  PROVE  /\ Named(x, coll[c]) = {} => Loaded[c][x] = None
         /\ Named(x, coll[c]) # {} =>
              /\ Max(Named(x, coll[c])) \in Named(x, coll[c])
              /\ Loaded[c][x] = Parse(c, coll[c][Max(Named(x, coll[c]))])
              /\ Loaded[c][x].name = x
<1> DEFINE docs == coll[c]
           parsed == [i \in DOMAIN docs |-> Parse(c, docs[i])]
<1>1. Loaded[c] = Indexed(parsed)
  BY DEF Loaded, Convert
<1>2. Loaded[c][x] = IF Named(x, parsed) = {} THEN None ELSE parsed[Max(Named(x, parsed))]
  BY <1>1 DEF Indexed
<1>3. \A i \in DOMAIN docs : parsed[i].name = docs[i].name
  BY ParsedName
<1>4. Named(x, parsed) = Named(x, docs)
  BY <1>3 DEF Named
<1>5. Named(x, docs) # {} => Max(Named(x, docs)) \in Named(x, docs)
  BY NamedPositions
<1>6. ASSUME NEW i \in Named(x, docs)
      PROVE  parsed[i] = Parse(c, docs[i]) /\ Parse(c, docs[i]).name = x
  BY ParsedName DEF Named
<1>. QED
  BY <1>2, <1>4, <1>5, <1>6

-----------------------------------------------------------------------------
(* The inductive invariant *)

\* What a handler is about to write. With additions it is made of endpoints
\* that were stored when the handler looked.
Request(r) ==
    /\ r = [pc |-> r.pc, coll |-> r.coll, name |-> r.name, body |-> r.body,
            put |-> r.put, found |-> r.found, removes |-> r.removes]
    /\ r.removes \in BOOLEAN
    /\ r.pc \in {"find", "upsert", "insert", "delete", "cascade", "wipe"}
    /\ r.coll \in Collections /\ r.name \in Names
    /\ r.pc \in {"find", "upsert", "insert"} =>
         /\ r.body \in Stored(r.coll)
         /\ ~r.removes => r.body.name = r.name
    /\ r.pc = "find" =>
         /\ r.coll = "endpoints" /\ ~r.removes /\ HasEndpoints(r.body)
         /\ r.put = None /\ r.found = None
    /\ r.put # None =>
         /\ r.coll = "endpoints" /\ ~r.removes /\ r.body.name = r.name
         /\ r.put \in EndpointSets /\ r.put.name = r.name /\ HasEndpoints(r.put)
         /\ r.found # None => r.found \in EndpointSets
         /\ r.body = IF r.found = None THEN r.put ELSE Added(r.found, r.put)

InRequests ==
    /\ req = [h \in Handlers |-> req[h]]
    /\ \A h \in Handlers : req[h] = Idle \/ Request(req[h])

InStore ==
    /\ coll = [c \in Collections |-> coll[c]]
    /\ \A c \in Collections : coll[c] \in Seq(Stored(c))

Scalars ==
    /\ requests \in 0..MaxRequests /\ up \in BOOLEAN /\ fresh \in BOOLEAN
    /\ excused \subseteq Collections \X Names

\* What is served was made by a process that still runs.
Shown ==
    \A c \in Collections : \A x \in Names :
        snap[c][x] # None => up /\ snap[c][x].name = x

\* An up-to-date snapshot is what loading makes of the documents, none of
\* which the converter panics at.
UpToDate ==
    fresh => /\ snap = Loaded
             /\ \A i \in DOMAIN coll["listeners"] : ~Panics(coll["listeners"][i])

\* Every name that is not excused is kept as a map would keep it.
MeantIsKept ==
    /\ meant = [c \in Collections |-> [x \in Names |-> meant[c][x]]]
    /\ \A c \in Collections : \A x \in Names :
         <<c, x>> \notin excused => Kept(c, x, coll[c], meant[c][x])

LInv ==
    InRequests /\ InStore /\ Scalars /\ Shown /\ UpToDate /\ MeantIsKept

LEMMA RequestAt ==
  ASSUME InRequests, NEW h \in Handlers, req[h].pc # "idle"
  PROVE  Request(req[h])
BY DEF InRequests, Idle

\* The documents a request writes have names.
LEMMA RequestBody ==
  ASSUME NEW r, Request(r), r.pc \in {"find", "upsert", "insert"}
  PROVE  r.body \in Stored(r.coll) /\ r.body.name \in Names
<1>1. r.coll \in Collections /\ r.body \in Stored(r.coll)
  BY DEF Request
<1>. QED
  BY <1>1, StoredDocument

LEMMA InvType ==
  ASSUME LInv
  PROVE  TypeOK
<1>1. ASSUME NEW c \in Collections PROVE NamesOf(coll[c]) \subseteq Names
  <2>1. \A i \in DOMAIN coll[c] : coll[c][i] \in Stored(c)
    BY ListElement DEF LInv, InStore
  <2>2. \A i \in DOMAIN coll[c] : coll[c][i].name \in Names
    BY <2>1, StoredDocument
  <2>. QED
    BY <2>2 DEF NamesOf
<1>2. ASSUME NEW h \in Handlers, req[h] # Idle
      PROVE  /\ req[h].pc \in {"find", "upsert", "insert", "delete", "cascade", "wipe"}
             /\ req[h].coll \in Collections /\ req[h].name \in Names
             /\ req[h].pc \in {"upsert", "insert"} => req[h].body.name \in Names
  <2>1. Request(req[h])
    BY <1>2 DEF LInv, InRequests
  <2>2. req[h].pc \in {"upsert", "insert"} => req[h].body.name \in Names
    BY <2>1, RequestBody
  <2>. QED
    BY <2>1, <2>2 DEF Request
<1>. QED
  BY <1>1, <1>2 DEF LInv, Scalars, Shown, TypeOK

\* What the invariant is for: an up-to-date snapshot has what was meant.
LEMMA InvServed ==
  ASSUME LInv
  PROVE  ServedAsMeant
<1> SUFFICES ASSUME fresh, NEW c \in Collections, NEW x \in Names, <<c, x>> \notin excused
             PROVE  IF c = "endpoints" THEN Says(c, snap[c][x]) = meant[c][x]
                    ELSE snap[c][x] = IF meant[c][x] = None THEN None
                                      ELSE Parse(c, meant[c][x])
  BY DEF ServedAsMeant
<1> DEFINE docs == coll[c]
<1>1. snap = Loaded /\ docs \in Seq(Stored(c)) /\ Kept(c, x, docs, meant[c][x])
  BY DEF LInv, UpToDate, InStore, MeantIsKept
<1>2. CASE Named(x, docs) = {}
  <2>1. snap[c][x] = None /\ meant[c][x] = None
    BY <1>1, <1>2, LoadedResource DEF Kept
  <2>. QED
    BY <2>1 DEF Says
<1>3. CASE Named(x, docs) # {}
  <2>1. PICK i \in Named(x, docs) : snap[c][x] = Parse(c, docs[i])
    BY <1>1, <1>3, LoadedResource
  <2>2. meant[c][x] = Says(c, docs[i])
    BY <1>1 DEF Kept
  <2>3. docs[i] \in Stored(c)
    BY <1>1, ListElement DEF Named
  <2>4. docs[i] # None
    BY <2>3, StoredDocument
  <2>5. CASE c = "endpoints"
    <3>1. docs[i] \in EndpointSets /\ Parse(c, docs[i]) = ParseEndpoint(docs[i])
      BY <2>3, <2>5 DEF Stored, Parse
    <3>2. ParseEndpoint(docs[i]) # None /\ Addresses(ParseEndpoint(docs[i])) = Addresses(docs[i])
      BY <3>1, ParsedEndpoints, NoneAssumption
    <3>. QED
      BY <2>1, <2>2, <2>4, <2>5, <3>1, <3>2 DEF Says
  <2>6. CASE c # "endpoints"
    BY <2>1, <2>2, <2>4, <2>6 DEF Says
  <2>. QED
    BY <2>5, <2>6
<1>. QED
  BY <1>2, <1>3

LEMMA InitInv ==
  ASSUME Init
  PROVE  LInv
<1>1. InRequests
  BY DEF Init, InRequests
<1>2. coll \in Databases
  BY DEF Init
<1>3. InStore
  BY <1>2, StoredFrom, DocumentsAssumption DEF InStore
<1>4. requests = 0 /\ up \in BOOLEAN /\ fresh \in BOOLEAN
      /\ excused \subseteq Collections \X Names
  BY DEF Init
<1>5. Scalars
  <2>1. requests \in 0..MaxRequests
    BY <1>4, MaxRequestsAssumption
  <2>. QED
    BY <1>4, <2>1 DEF Scalars
<1>6. Shown /\ UpToDate
  BY DEF Init, NoSnapshot, Shown, UpToDate
<1>7. meant = [c \in Collections |-> [x \in Names |-> Says(c, Indexed(coll[c])[x])]]
  BY DEF Init
<1>8. ASSUME NEW c \in Collections, NEW x \in Names, <<c, x>> \notin excused
      PROVE  Kept(c, x, coll[c], meant[c][x])
  <2>1. coll[c] \in Seq(Stored(c))
    BY <1>3 DEF InStore
  <2>2. \A i, j \in Named(x, coll[c]) : i = j
    BY <1>8 DEF Init
  <2>3. meant[c][x] = Says(c, IF Named(x, coll[c]) = {} THEN None
                              ELSE coll[c][Max(Named(x, coll[c]))])
    BY <1>7 DEF Indexed
  <2>4. CASE Named(x, coll[c]) = {}
    BY <2>3, <2>4 DEF Kept, Says
  <2>5. CASE Named(x, coll[c]) # {}
    <3>1. Max(Named(x, coll[c])) \in Named(x, coll[c])
      BY <2>1, <2>5, NamedPositions
    <3>2. meant[c][x] = Says(c, coll[c][Max(Named(x, coll[c]))])
      BY <2>3, <2>5
    <3>3. \A i \in Named(x, coll[c]) : meant[c][x] = Says(c, coll[c][i])
      BY <2>2, <3>1, <3>2
    <3>. QED
      BY <2>2, <2>5, <3>3 DEF Kept
  <2>. QED
    BY <2>4, <2>5
<1>9. MeantIsKept
  BY <1>7, <1>8 DEF MeantIsKept
<1>. QED
  BY <1>1, <1>3, <1>5, <1>6, <1>9 DEF LInv

-----------------------------------------------------------------------------
(* Steps that write no document *)

LEMMA RequestChanged ==
  ASSUME InRequests, NEW h \in Handlers, NEW r, Request(r) \/ r = Idle,
         req' = [req EXCEPT ![h] = r]
  PROVE  InRequests'
BY DEF InRequests

LEMMA NothingWritten ==
  ASSUME LInv, UNCHANGED <<coll, up, snap, fresh, meant, excused>>,
         requests' \in 0..MaxRequests, InRequests'
  PROVE  LInv'
<1>1. InStore' /\ Scalars'
  BY DEF LInv, InStore, Scalars
<1>2. Shown'
  BY DEF LInv, Shown
<1>3. UpToDate'
  BY DEF LInv, UpToDate, Loaded, Convert
<1>4. MeantIsKept'
  BY DEF LInv, MeantIsKept
<1>. QED
  BY <1>1, <1>2, <1>3, <1>4 DEF LInv

LEMMA BeginInv ==
  ASSUME LInv, NEW h \in Handlers, NEW pc, NEW c, NEW x, NEW body, NEW removes,
         Begin(h, pc, c, x, body, removes),
         Request([pc |-> pc, coll |-> c, name |-> x, body |-> body,
                  put |-> None, found |-> None, removes |-> removes])
  PROVE  LInv'
<1>1. InRequests'
  BY RequestChanged DEF Begin, LInv
<1>2. requests' \in 0..MaxRequests
  BY MaxRequestsAssumption DEF Begin, LInv, Scalars
<1>. QED
  BY <1>1, <1>2, NothingWritten DEF Begin

\* A request as it comes in is in order.
LEMMA Received ==
  ASSUME NEW pc \in {"find", "upsert", "delete", "wipe"}, NEW c \in Collections,
         NEW x \in Names, NEW body, NEW removes \in BOOLEAN,
         pc \in {"find", "upsert"} =>
           body \in Stored(c) /\ (~removes => body.name = x),
         pc = "find" => c = "endpoints" /\ ~removes /\ HasEndpoints(body)
  PROVE  Request([pc |-> pc, coll |-> c, name |-> x, body |-> body,
                  put |-> None, found |-> None, removes |-> removes])
BY DEF Request

LEMMA ReceiveInv ==
  ASSUME LInv, NEW h \in Handlers, Receive(h)
  PROVE  LInv'
<1>0. "endpoints" \in Collections /\ "listeners" \in Collections
  BY DEF Collections
<1>1. CASE PutDocument(h)
  <2>1. PICK c \in Collections \ {"endpoints"} :
          \E b \in Bodies[c] : Begin(h, "upsert", c, b.name, b, FALSE)
    BY <1>1 DEF PutDocument
  <2>. PICK b \in Bodies[c] : Begin(h, "upsert", c, b.name, b, FALSE)
    BY <2>1
  <2>2. b \in Stored(c) /\ b.name \in Names
    BY StoredFrom, StoredDocument
  <2>3. Request([pc |-> "upsert", coll |-> c, name |-> b.name, body |-> b,
                 put |-> None, found |-> None, removes |-> FALSE])
    BY <2>2, Received
  <2>. QED
    BY <2>1, <2>3, BeginInv
<1>2. CASE PutConfigEndpoints(h)
  <2>1. PICK b \in Bodies["endpoints"] :
          HasEndpoints(b) /\ Begin(h, "find", "endpoints", b.name, b, FALSE)
    BY <1>2 DEF PutConfigEndpoints
  <2>2. b \in Stored("endpoints") /\ b.name \in Names
    BY <1>0, StoredFrom, StoredDocument
  <2>3. Request([pc |-> "find", coll |-> "endpoints", name |-> b.name, body |-> b,
                 put |-> None, found |-> None, removes |-> FALSE])
    BY <1>0, <2>1, <2>2, Received
  <2>. QED
    BY <2>1, <2>3, BeginInv
<1>3. CASE PutConfigEndpointsNamed(h)
  <2>1. PICK b \in Bodies["endpoints"] : Begin(h, "upsert", "endpoints", b.name, b, FALSE)
    BY <1>3 DEF PutConfigEndpointsNamed
  <2>2. b \in Stored("endpoints") /\ b.name \in Names
    BY <1>0, StoredFrom, StoredDocument
  <2>3. Request([pc |-> "upsert", coll |-> "endpoints", name |-> b.name, body |-> b,
                 put |-> None, found |-> None, removes |-> FALSE])
    BY <1>0, <2>2, Received
  <2>. QED
    BY <2>1, <2>3, BeginInv
<1>4. CASE DeleteConfigEndpoints(h)
  <2>1. PICK x \in Names, b \in Bodies["endpoints"] : Begin(h, "upsert", "endpoints", x, b, TRUE)
    BY <1>4 DEF DeleteConfigEndpoints
  <2>2. b \in Stored("endpoints")
    BY <1>0, StoredFrom
  <2>3. Request([pc |-> "upsert", coll |-> "endpoints", name |-> x, body |-> b,
                 put |-> None, found |-> None, removes |-> TRUE])
    BY <1>0, <2>2, Received
  <2>. QED
    BY <2>1, <2>3, BeginInv
<1>5. CASE DeleteDocument(h)
  <2>1. PICK c \in Collections \ {"endpoints"}, x \in Names : Begin(h, "delete", c, x, None, FALSE)
    BY <1>5 DEF DeleteDocument
  <2>2. Request([pc |-> "delete", coll |-> c, name |-> x, body |-> None,
                 put |-> None, found |-> None, removes |-> FALSE])
    BY Received
  <2>. QED
    BY <2>1, <2>2, BeginInv
<1>6. CASE DeleteConfigNodes(h)
  <2>1. PICK x \in Names : Begin(h, "wipe", "listeners", x, None, FALSE)
    BY <1>6, DocumentsAssumption DEF DeleteConfigNodes
  <2>2. Request([pc |-> "wipe", coll |-> "listeners", name |-> x, body |-> None,
                 put |-> None, found |-> None, removes |-> FALSE])
    BY <1>0, Received
  <2>. QED
    BY <2>1, <2>2, BeginInv
<1>. QED
  BY <1>1, <1>2, <1>3, <1>4, <1>5, <1>6 DEF Receive

-----------------------------------------------------------------------------
(* Steps by which documents enter *)

LEMMA WriteInv ==
  ASSUME LInv, NEW h \in Handlers, NEW r, r = req[h], Request(r),
         r.pc \in {"upsert", "insert"},
         NEW docs \in Seq(Stored(r.coll)), Write(h, docs), UNCHANGED <<requests, up, snap>>,
         \A y \in Names \ {r.name, r.body.name} : Undisturbed(y, coll[r.coll], docs),
         ~r.removes /\ r.body.name = r.name
         /\ <<r.coll, r.name>> \notin excused \cup Excuse(r, coll[r.coll])
           => Kept(r.coll, r.name, docs, Meaning(r, meant[r.coll][r.name]))
  PROVE  LInv'
<1> DEFINE c == r.coll
           x == r.body.name
<1>1. /\ coll' = [coll EXCEPT ![c] = docs] /\ fresh' = FALSE
      /\ excused' = excused \cup Excuse(r, coll[c])
      /\ req' = [req EXCEPT ![h] = Idle]
  BY DEF Write, Return
<1>2. meant' = [meant EXCEPT ![c] =
                  [meant[c] EXCEPT ![r.name] = Meaning(r, meant[c][r.name])]]
  BY DEF Write
<1>3. c \in Collections /\ r.name \in Names /\ x \in Names
  <2>1. r.pc \in {"find", "upsert", "insert"}
    OBVIOUS
  <2>2. r.body.name \in Names
    BY <2>1, RequestBody
  <2>. QED
    BY <2>2 DEF Request
<1>4. Excuse(r, coll[c]) \subseteq Collections \X Names
  <2>1. Excuse(r, coll[c]) \subseteq {<<c, r.name>>, <<c, x>>}
    BY Zenon DEF Excuse
  <2>2. <<c, r.name>> \in Collections \X Names /\ <<c, x>> \in Collections \X Names
    BY <1>3
  <2>. QED
    BY <2>1, <2>2, Zenon
<1>5. InRequests'
  BY <1>1, RequestChanged DEF LInv
<1>6. InStore'
  <2>1. \A d \in Collections : coll'[d] = IF d = c THEN docs ELSE coll[d]
    BY <1>1 DEF LInv, InStore
  <2>2. coll' = [d \in Collections |-> coll'[d]]
    BY <1>1 DEF LInv, InStore
  <2>. QED
    BY <2>1, <2>2 DEF LInv, InStore
<1>7. Scalars'
  BY <1>1, <1>4 DEF LInv, Scalars
<1>8. Shown' /\ UpToDate'
  BY <1>1 DEF LInv, Shown, UpToDate
<1>9. meant = [d \in Collections |-> [y \in Names |-> meant[d][y]]]
  BY DEF LInv, MeantIsKept
<1>10. meant' = [d \in Collections |-> [y \in Names |->
                   IF d = c /\ y = r.name THEN Meaning(r, meant[c][r.name])
                   ELSE meant[d][y]]]
  BY <1>2, <1>3, <1>9
<1>11. ASSUME NEW d \in Collections, NEW y \in Names, <<d, y>> \notin excused'
       PROVE  Kept(d, y, coll'[d], meant'[d][y])
  <2>1. <<d, y>> \notin excused /\ <<d, y>> \notin Excuse(r, coll[c])
    BY <1>1, <1>11
  <2>2. Kept(d, y, coll[d], meant[d][y])
    BY <2>1 DEF LInv, MeantIsKept
  <2>3. coll'[d] = IF d = c THEN docs ELSE coll[d]
    BY <1>1 DEF LInv, InStore
  <2>4. meant'[d][y] = IF d = c /\ y = r.name THEN Meaning(r, meant[c][r.name])
                   ELSE meant[d][y]
    BY <1>10
  <2>5. CASE d # c
    BY <2>2, <2>3, <2>4, <2>5
  <2>6. CASE d = c /\ y \notin {r.name, x}
    <3>1. Undisturbed(y, coll[c], docs)
      BY <2>6
    <3>2. Kept(c, y, docs, meant[c][y])
      BY <2>2, <2>6, <3>1, UndisturbedKept
    <3>. QED
      BY <2>3, <2>4, <2>6, <3>2
  <2>7. CASE d = c /\ y \in {r.name, x}
    <3>1. ~r.removes /\ x = r.name
      <4>1. ~r.removes
        BY <2>1, <2>7, Zenon DEF Excuse
      <4>. QED
        BY <4>1 DEF Request
    <3>2. Kept(c, y, docs, Meaning(r, meant[c][y]))
      BY <2>1, <2>7, <3>1
    <3>. QED
      BY <2>3, <2>4, <2>7, <3>1, <3>2
  <2>. QED
    BY <2>5, <2>6, <2>7
<1>12. MeantIsKept'
  BY <1>10, <1>11 DEF MeantIsKept
<1>. QED
  BY <1>5, <1>6, <1>7, <1>8, <1>12 DEF LInv

\* A document that joins what was stored says what is meant from then on.
LEMMA MeaningOfAddition ==
  ASSUME NEW r, Request(r), r.put # None, NEW wish,
         r.found = None => wish = None,
         r.found # None => /\ wish = Says("endpoints", r.found)
                           /\ ~(Len(r.put.groups) > 1 \/ Len(r.put.groups[1].lb) > 1)
  PROVE  Meaning(r, wish) = Says(r.coll, r.body)
<1>1. /\ r.coll = "endpoints" /\ r.put \in EndpointSets /\ HasEndpoints(r.put)
      /\ r.removes = FALSE
      /\ r.found # None => r.found \in EndpointSets
      /\ r.body = IF r.found = None THEN r.put ELSE Added(r.found, r.put)
  BY DEF Request
<1>2. CASE r.found = None
  <2>1. Meaning(r, wish) = Addresses(r.put) /\ r.body = r.put
    BY <1>1, <1>2 DEF Meaning, Or
  <2>. QED
    BY <1>1, <2>1 DEF Says
<1>3. CASE r.found # None
  <2>1. /\ Added(r.found, r.put) \in EndpointSets
        /\ Addresses(Added(r.found, r.put)) = Addresses(r.found) \cup Addresses(r.put)
    BY <1>1, <1>3, AddedAddresses
  <2>2. r.body = Added(r.found, r.put) /\ r.body # None
    BY <1>1, <1>3, <2>1, NoneAssumption
  <2>3. wish = Addresses(r.found) /\ wish # None
    BY <1>1, <1>3, AddressesType DEF Says
  <2>4. Meaning(r, wish) = Addresses(r.found) \cup Addresses(r.put)
    BY <1>1, <2>3 DEF Meaning, Or
  <2>. QED
    BY <1>1, <2>1, <2>2, <2>4 DEF Says
<1>. QED
  BY <1>2, <1>3

LEMMA UpsertInv ==
  ASSUME LInv, NEW h \in Handlers, Upsert(h)
  PROVE  LInv'
<1> DEFINE r == req[h]
           c == r.coll
           docs == coll[c]
           m == Min(Named(r.name, docs))
           after == ReplaceAt(docs, m, r.body)
<1>1. r.pc = "upsert" /\ UNCHANGED <<requests, up, snap>>
  BY DEF Upsert, At
<1>2. Request(r)
  BY <1>1, RequestAt DEF LInv
<1>3. c \in Collections /\ r.name \in Names /\ r.body \in Stored(c)
      /\ docs \in Seq(Stored(c))
  BY <1>1, <1>2 DEF Request, LInv, InStore
<1>4. CASE Named(r.name, docs) = {}
  <2>1. Goto(h, "insert") /\ UNCHANGED <<coll, fresh, meant, excused>>
    BY <1>4 DEF Upsert
  <2>2. req' = [req EXCEPT ![h] = [r EXCEPT !.pc = "insert"]]
    BY <2>1 DEF Goto
  <2>3. Request([r EXCEPT !.pc = "insert"])
    BY <1>1, <1>2 DEF Request
  <2>4. InRequests'
    BY <2>2, <2>3, RequestChanged DEF LInv
  <2>5. requests' \in 0..MaxRequests
    BY <1>1 DEF LInv, Scalars
  <2>. QED
    BY <1>1, <2>1, <2>4, <2>5, NothingWritten
<1>5. CASE Named(r.name, docs) # {}
  <2>1. Write(h, after)
    BY <1>5 DEF Upsert
  <2>2. m \in Named(r.name, docs)
    BY <1>3, <1>5, NamedPositions
  <2>3. m \in DOMAIN docs /\ docs[m].name = r.name
    BY <2>2 DEF Named
  <2>4. /\ after \in Seq(Stored(c))
        /\ \A y \in Names \ {r.name, r.body.name} : Undisturbed(y, docs, after)
    BY <1>3, <2>3, ReplaceNamed
  <2>5. ASSUME ~r.removes, r.body.name = r.name, <<c, r.name>> \notin excused \cup Excuse(r, docs)
        PROVE  Kept(c, r.name, after, Meaning(r, meant[c][r.name]))
    <3>1. Kept(c, r.name, docs, meant[c][r.name])
      BY <1>3, <2>5 DEF LInv, MeantIsKept
    <3>2. \A i, j \in Named(r.name, docs) : i = j
      BY <3>1 DEF Kept
    <3>3. Kept(c, r.name, after, Says(c, r.body))
      BY <1>3, <2>2, <2>5, <3>2, ReplaceKept
    <3>4. CASE r.put = None
      BY <2>5, <3>3, <3>4 DEF Meaning
    <3>5. CASE r.put # None
      <4>1. r.found = First(r.name, docs)
        BY <2>5, <3>5 DEF Excuse
      <4>2. r.found = docs[m]
        BY <1>5, <4>1 DEF First
      <4>3. docs[m] # None
        BY <1>3, <2>3, ListElement, StoredDocument
      <4>4. ~(Len(r.put.groups) > 1 \/ Len(r.put.groups[1].lb) > 1)
        BY <2>5, <3>5, <4>2, <4>3 DEF Excuse
      <4>5. c = "endpoints"
        BY <1>2, <3>5 DEF Request
      <4>6. meant[c][r.name] = Says("endpoints", r.found)
        BY <2>2, <3>1, <4>2, <4>5 DEF Kept
      <4>7. Meaning(r, meant[c][r.name]) = Says(c, r.body)
        BY <1>2, <3>5, <4>2, <4>3, <4>4, <4>6, MeaningOfAddition
      <4>. QED
        BY <3>3, <4>7
    <3>. QED
      BY <3>4, <3>5
  <2>. QED
    BY <1>1, <1>2, <2>1, <2>4, <2>5, WriteInv
<1>. QED
  BY <1>4, <1>5

LEMMA InsertInv ==
  ASSUME LInv, NEW h \in Handlers, Insert(h)
  PROVE  LInv'
<1> DEFINE r == req[h]
           c == r.coll
           docs == coll[c]
           after == Append(docs, r.body)
<1>1. r.pc = "insert" /\ UNCHANGED <<requests, up, snap>> /\ Write(h, after)
  BY DEF Insert, At
<1>2. Request(r)
  BY <1>1, RequestAt DEF LInv
<1>3. c \in Collections /\ r.name \in Names /\ r.body \in Stored(c)
      /\ docs \in Seq(Stored(c))
  BY <1>1, <1>2 DEF Request, LInv, InStore
<1>4. /\ after \in Seq(Stored(c))
      /\ \A y \in Names \ {r.name, r.body.name} : Undisturbed(y, docs, after)
  BY <1>3, AppendNamed
<1>5. ASSUME ~r.removes, r.body.name = r.name, <<c, r.name>> \notin excused \cup Excuse(r, docs)
      PROVE  Kept(c, r.name, after, Meaning(r, meant[c][r.name]))
  <2>1. Named(r.name, docs) = {}
    BY <1>1, <1>5 DEF Excuse
  <2>2. Kept(c, r.name, docs, meant[c][r.name])
    BY <1>3, <1>5 DEF LInv, MeantIsKept
  <2>3. meant[c][r.name] = None
    BY <2>1, <2>2 DEF Kept
  <2>4. Kept(c, r.name, after, Says(c, r.body))
    BY <1>3, <1>5, <2>1, AppendNamed
  <2>5. CASE r.put = None
    BY <1>5, <2>4, <2>5 DEF Meaning
  <2>6. CASE r.put # None
    <3>1. r.found = None
      BY <1>5, <2>1, <2>6 DEF Excuse, First
    <3>2. Meaning(r, meant[c][r.name]) = Says(c, r.body)
      BY <1>2, <2>3, <2>6, <3>1, MeaningOfAddition
    <3>. QED
      BY <2>4, <3>2
  <2>. QED
    BY <2>5, <2>6
<1>. QED
  BY <1>1, <1>2, <1>4, <1>5, WriteInv

-----------------------------------------------------------------------------
(* Steps by which documents leave *)

LEMMA EraseInv ==
  ASSUME LInv, NEW c \in Collections, NEW xs \in SUBSET Names,
         NEW docs \in Seq(Stored(c)), Erase(c, xs, docs), InRequests',
         \A y \in Names \ xs : Undisturbed(y, coll[c], docs),
         \A y \in xs : (\A i, j \in Named(y, coll[c]) : i = j) => Named(y, docs) = {}
  PROVE  LInv'
<1>1. /\ coll' = [coll EXCEPT ![c] = docs] /\ fresh' = FALSE
      /\ meant' = [meant EXCEPT ![c] = [y \in Names |-> IF y \in xs THEN None
                                                       ELSE meant[c][y]]]
      /\ excused' = excused \ {<<c, y>> : y \in xs \ NamesOf(docs)}
      /\ UNCHANGED <<requests, up, snap>>
  BY DEF Erase
<1>2. /\ \A d \in Collections : coll'[d] = IF d = c THEN docs ELSE coll[d]
      /\ coll' = [d \in Collections |-> coll'[d]]
  BY <1>1 DEF LInv, InStore
<1>3. InStore'
  BY <1>2 DEF LInv, InStore
<1>4. Scalars'
  BY <1>1 DEF LInv, Scalars
<1>5. Shown' /\ UpToDate'
  BY <1>1 DEF LInv, Shown, UpToDate
<1>6. meant = [d \in Collections |-> [y \in Names |-> meant[d][y]]]
  BY DEF LInv, MeantIsKept
<1>7. meant' = [d \in Collections |-> [y \in Names |->
                  IF d = c /\ y \in xs THEN None ELSE meant[d][y]]]
  BY <1>1, <1>6
<1>8. ASSUME NEW d \in Collections, NEW y \in Names, <<d, y>> \notin excused'
      PROVE  Kept(d, y, coll'[d], meant'[d][y])
  <2>1. <<d, y>> \notin excused => Kept(d, y, coll[d], meant[d][y])
    BY DEF LInv, MeantIsKept
  <2>2. meant'[d][y] = IF d = c /\ y \in xs THEN None ELSE meant[d][y]
    BY <1>7
  <2>3. CASE d # c
    <3>1. <<d, y>> \notin excused
      BY <1>1, <1>8, <2>3
    <3>. QED
      BY <1>2, <2>1, <2>2, <2>3, <3>1
  <2>4. CASE d = c /\ y \notin xs
    <3>1. <<c, y>> \notin excused
      BY <1>1, <1>8, <2>4
    <3>2. Kept(c, y, docs, meant[c][y])
      BY <2>1, <2>4, <3>1, UndisturbedKept
    <3>. QED
      BY <1>2, <2>2, <2>4, <3>2
  <2>5. CASE d = c /\ y \in xs
    <3>1. CASE y \in NamesOf(docs)
      <4>1. <<c, y>> \notin excused
        BY <1>1, <1>8, <2>5, <3>1
      <4>2. Named(y, docs) = {}
        BY <2>1, <2>5, <4>1 DEF Kept
      <4>. QED
        BY <1>2, <2>2, <2>5, <4>2, GoneKept
    <3>2. CASE y \notin NamesOf(docs)
      <4>1. Named(y, docs) = {}
        BY <3>2 DEF Named, NamesOf
      <4>. QED
        BY <1>2, <2>2, <2>5, <4>1, GoneKept
    <3>. QED
      BY <3>1, <3>2
  <2>. QED
    BY <2>3, <2>4, <2>5
<1>9. MeantIsKept'
  BY <1>7, <1>8 DEF MeantIsKept
<1>. QED
  BY <1>3, <1>4, <1>5, <1>9 DEF LInv

LEMMA EraseOneInv ==
  ASSUME LInv, NEW c \in Collections, NEW x \in Names,
         NEW docs \in Seq(Stored(c)), Erase(c, {x}, docs), InRequests',
         \A y \in Names : y # x => Undisturbed(y, coll[c], docs),
         (\A i, j \in Named(x, coll[c]) : i = j) => Named(x, docs) = {}
  PROVE  LInv'
<1> DEFINE xs == {x}
<1>1. xs \in SUBSET Names /\ Erase(c, xs, docs)
  OBVIOUS
<1>2. \A y \in Names \ xs : Undisturbed(y, coll[c], docs)
  OBVIOUS
<1>3. \A y \in xs : (\A i, j \in Named(y, coll[c]) : i = j) => Named(y, docs) = {}
  OBVIOUS
<1> HIDE DEF xs
<1>. QED
  BY <1>1, <1>2, <1>3, EraseInv

LEMMA DeleteOneInv ==
  ASSUME LInv, NEW h \in Handlers, DeleteOne(h)
  PROVE  LInv'
<1> DEFINE r == req[h]
           c == r.coll
           docs == coll[c]
           after == WithoutFirst(r.name, docs)
           next == IF c = "clusters" THEN Goto(h, "cascade") ELSE Return(h)
<1>1. r.pc = "delete" /\ Erase(c, {r.name}, after) /\ next
  BY DEF DeleteOne, At
<1>2. Request(r)
  BY <1>1, RequestAt DEF LInv
<1>3. c \in Collections /\ r.name \in Names /\ docs \in Seq(Stored(c))
  BY <1>2 DEF Request, LInv, InStore
<1>5. InRequests'
  <2>1. next
    BY <1>1
  <2>2. CASE c = "clusters"
    <3>1. req' = [req EXCEPT ![h] = [r EXCEPT !.pc = "cascade"]]
      BY <2>1, <2>2 DEF Goto
    <3>2. Request([r EXCEPT !.pc = "cascade"])
      BY <1>1, <1>2 DEF Request
    <3>. QED
      BY <3>1, <3>2, RequestChanged DEF LInv
  <2>3. CASE c # "clusters"
    BY <2>1, <2>3, RequestChanged DEF Return, LInv
  <2>. QED
    BY <2>2, <2>3
<1>6. /\ after \in Seq(Stored(c)) /\ \A y : y # r.name => Undisturbed(y, docs, after)
      /\ (\A i, j \in Named(r.name, docs) : i = j) => Named(r.name, after) = {}
  BY <1>3, WithoutFirstNamed
<1>9. Erase(c, {r.name}, after)
  BY <1>1
<1> HIDE DEF after, c
<1>. QED
  BY <1>3, <1>5, <1>6, <1>9, EraseOneInv

LEMMA CascadeInv ==
  ASSUME LInv, NEW h \in Handlers, Cascade(h)
  PROVE  LInv'
<1> DEFINE x == req[h].name
           c == "endpoints"
           docs == coll[c]
           after == WithoutAll(x, docs)
<1>1. req[h].pc = "cascade" /\ Erase(c, {x}, after) /\ Return(h)
  BY DEF Cascade, At
<1>2. Request(req[h])
  BY <1>1, RequestAt DEF LInv
<1>3. c \in Collections /\ x \in Names /\ docs \in Seq(Stored(c))
  BY <1>2 DEF Request, LInv, InStore, Collections
<1>5. InRequests'
  BY <1>1, RequestChanged DEF Return, LInv
<1>6. /\ after \in Seq(Stored(c))
      /\ \A y : y # x => Undisturbed(y, docs, after)
      /\ Named(x, after) = {}
  BY <1>3, WithoutAllNamed
<1>9. Erase(c, {x}, after)
  BY <1>1
<1> HIDE DEF after, x, c
<1>. QED
  BY <1>3, <1>5, <1>6, <1>9, EraseOneInv

LEMMA WipeInv ==
  ASSUME LInv, NEW h \in Handlers, Wipe(h)
  PROVE  LInv'
<1> DEFINE c == req[h].coll
           next == IF c = "listeners" THEN "clusters" ELSE "endpoints"
           moves == IF c = "endpoints" THEN Return(h)
                    ELSE req' = [req EXCEPT ![h].coll = next]
<1>1. req[h].pc = "wipe" /\ Erase(c, Names, <<>>) /\ moves
  BY DEF Wipe, At
<1>2. Request(req[h])
  BY <1>1, RequestAt DEF LInv
<1>3. c \in Collections /\ <<>> \in Seq(Stored(c))
  BY <1>2 DEF Request
<1>4. InRequests'
  <2>1. moves
    BY <1>1
  <2>2. CASE c = "endpoints"
    BY <2>1, <2>2, RequestChanged DEF Return, LInv
  <2>3. CASE c # "endpoints"
    <3>1. req' = [req EXCEPT ![h] = [req[h] EXCEPT !.coll = next]]
      BY <2>1, <2>3
    <3>2. next \in Collections
      BY DEF Collections
    <3>3. CASE req[h].put # None
      BY <1>2, <2>3, <3>3 DEF Request
    <3>4. CASE req[h].put = None
      <4>1. Request([req[h] EXCEPT !.coll = next])
        BY <1>1, <1>2, <3>2, <3>4 DEF Request
      <4>. QED
        BY <3>1, <4>1, RequestChanged DEF LInv
    <3>. QED
      BY <3>3, <3>4
  <2>. QED
    BY <2>2, <2>3
<1>5. \A y : Named(y, <<>>) = {}
  BY DEF Named
<1>6. \A y \in Names \ Names : Undisturbed(y, coll[c], <<>>)
  OBVIOUS
<1>7. \A y \in Names : (\A i, j \in Named(y, coll[c]) : i = j) => Named(y, <<>>) = {}
  BY <1>5
<1> HIDE DEF c
<1>. QED
  BY <1>1, <1>3, <1>4, <1>5, <1>6, <1>7, EraseInv

-----------------------------------------------------------------------------
(* The other steps, and the theorems *)

LEMMA LookedRequest ==
  ASSUME NEW r, Request(r), r.pc = "find",
         NEW f, f = None \/ (f \in EndpointSets /\ f.name = r.name)
  PROVE  Request(Looked(r, f))
<1> DEFINE body == IF f = None THEN r.body ELSE Added(f, r.body)
<1>1. /\ r.coll = "endpoints" /\ r.coll \in Collections /\ r.name \in Names
      /\ r.body \in EndpointSets /\ r.body.name = r.name /\ HasEndpoints(r.body)
  BY DEF Request, Stored
<1>2. body \in EndpointSets /\ body.name = r.name
  <2>1. CASE f = None
    BY <1>1, <2>1
  <2>2. CASE f # None
    BY <1>1, <2>2, AddedAddresses
  <2>. QED
    BY <2>1, <2>2
<1>3. body \in Stored(r.coll)
  BY <1>1, <1>2 DEF Stored
<1>4. /\ Looked(r, f).pc = "upsert" /\ Looked(r, f).coll = r.coll
      /\ Looked(r, f).name = r.name /\ Looked(r, f).body = body
      /\ Looked(r, f).put = r.body /\ Looked(r, f).found = f
      /\ Looked(r, f) = [pc |-> Looked(r, f).pc, coll |-> Looked(r, f).coll,
                         name |-> Looked(r, f).name, body |-> Looked(r, f).body,
                         put |-> Looked(r, f).put, found |-> Looked(r, f).found,
                         removes |-> Looked(r, f).removes]
      /\ Looked(r, f).removes = r.removes
  BY DEF Looked
<1>. QED
  BY <1>1, <1>2, <1>3, <1>4 DEF Request

LEMMA FindOneInv ==
  ASSUME LInv, NEW h \in Handlers, FindOne(h)
  PROVE  LInv'
<1> DEFINE r == req[h]
           docs == coll["endpoints"]
           found == First(r.name, docs)
<1>1. r.pc = "find" /\ UNCHANGED <<coll, requests, up, snap, fresh, meant, excused>>
  BY DEF FindOne, At
<1>2. PICK f \in {None, found} : req' = [req EXCEPT ![h] = Looked(r, f)]
  BY DEF FindOne
<1>3. Request(r)
  BY <1>1, RequestAt DEF LInv
<1>4. docs \in Seq(EndpointSets)
  BY DEF LInv, InStore, Stored, Collections
<1>5. found = None \/ (found \in EndpointSets /\ found.name = r.name)
  <2>1. CASE Named(r.name, docs) # {}
    <3>1. Min(Named(r.name, docs)) \in Named(r.name, docs)
      BY <1>4, <2>1, NamedPositions
    <3>2. found = docs[Min(Named(r.name, docs))]
      BY <2>1 DEF First
    <3>3. \A i \in Named(r.name, docs) : i \in DOMAIN docs /\ docs[i].name = r.name
      BY DEF Named
    <3>4. \A i \in DOMAIN docs : docs[i] \in EndpointSets
      BY <1>4, ListElement
    <3>. QED
      BY <3>1, <3>2, <3>3, <3>4, Zenon
  <2>2. CASE Named(r.name, docs) = {}
    BY <2>2 DEF First
  <2>. QED
    BY <2>1, <2>2
<1>6. Request(Looked(r, f))
  BY <1>1, <1>2, <1>3, <1>5, LookedRequest
<1>7. InRequests'
  BY <1>2, <1>6, RequestChanged DEF LInv
<1>. QED
  BY <1>1, <1>7, NothingWritten DEF LInv, Scalars

LEMMA LoadNodeInv ==
  ASSUME LInv, LoadNode
  PROVE  LInv'
<1>1. /\ up /\ up' = up /\ snap' = Loaded /\ fresh' = TRUE
      /\ \A i \in DOMAIN coll["listeners"] : ~Panics(coll["listeners"][i])
      /\ UNCHANGED <<coll, req, requests, up, meant, excused>>
  BY DEF LoadNode
<1>2. InRequests' /\ InStore' /\ Scalars'
  BY <1>1 DEF LInv, InRequests, InStore, Scalars
<1>3. ASSUME NEW c \in Collections, NEW x \in Names
      PROVE  Loaded[c][x] # None => Loaded[c][x].name = x
  BY LoadedResource DEF LInv, InStore
<1>4. Shown'
  BY <1>1, <1>3 DEF Shown
<1>5. UpToDate'
  BY <1>1 DEF UpToDate, Loaded, Convert
<1>6. MeantIsKept'
  BY <1>1 DEF LInv, MeantIsKept
<1>. QED
  BY <1>2, <1>4, <1>5, <1>6 DEF LInv

LEMMA PanicInv ==
  ASSUME LInv, Panic
  PROVE  LInv'
<1>1. /\ up' = FALSE /\ req' = [h \in Handlers |-> Idle] /\ snap' = NoSnapshot
      /\ fresh' = FALSE /\ UNCHANGED <<coll, requests, meant, excused>>
  BY DEF Panic
<1>2. InRequests'
  BY <1>1 DEF InRequests
<1>3. InStore' /\ Scalars'
  BY <1>1 DEF LInv, InStore, Scalars
<1>4. Shown' /\ UpToDate'
  BY <1>1 DEF Shown, NoSnapshot, UpToDate
<1>5. MeantIsKept'
  BY <1>1 DEF LInv, MeantIsKept
<1>. QED
  BY <1>2, <1>3, <1>4, <1>5 DEF LInv

LEMMA StartInv ==
  ASSUME LInv, Start
  PROVE  LInv'
<1>1. up' = TRUE /\ ~up /\ UNCHANGED <<coll, req, requests, snap, fresh, meant, excused>>
  BY DEF Start
<1>2. InRequests' /\ InStore' /\ Scalars'
  BY <1>1 DEF LInv, InRequests, InStore, Scalars
<1>3. Shown'
  BY <1>1 DEF LInv, Shown
<1>4. UpToDate'
  BY <1>1 DEF LInv, UpToDate, Loaded, Convert
<1>5. MeantIsKept'
  BY <1>1 DEF LInv, MeantIsKept
<1>. QED
  BY <1>2, <1>3, <1>4, <1>5 DEF LInv

LEMMA NextInv ==
  ASSUME LInv, [Next]_vars
  PROVE  LInv'
<1>1. ASSUME NEW h \in Handlers, Serve(h) PROVE LInv'
  BY <1>1, FindOneInv, UpsertInv, InsertInv, DeleteOneInv, CascadeInv, WipeInv DEF Serve
<1>2. ASSUME UNCHANGED vars PROVE LInv'
  <2>1. UNCHANGED <<coll, req, requests, up, snap, fresh, meant, excused>>
    BY <1>2 DEF vars
  <2>2. InRequests' /\ requests' \in 0..MaxRequests
    BY <2>1 DEF LInv, InRequests, Scalars
  <2>. QED
    BY <2>1, <2>2, NothingWritten
<1>. QED
  BY <1>1, <1>2, ReceiveInv, LoadNodeInv, PanicInv, StartInv DEF Next

\* The invariant of every behaviour: documents and requests have their types,
\* an up-to-date snapshot is what loading makes of the documents, and of every
\* name that is not excused there is the one document that was meant.
THEOREM Invariance == Spec => []LInv
<1>1. LInv /\ [Next]_vars => LInv'
  BY NextInv
<1>. QED
  BY <1>1, InitInv, PTL DEF Spec

\* Documents have names of the node, requests what their handler needs, and
\* nothing is served by a process that has ended (types.go, rapi.go, main.go).
THEOREM TypeCorrect == Spec => []TypeOK
<1>. QED
  BY InvType, Invariance, PTL

\* However requests interleave and loads and crashes fall between them, an
\* up-to-date snapshot has of every name what its requests ask for in the
\* order of their writes, but for the names of Excuse (rapi.go, LoadNode).
THEOREM ServesWhatIsMeant == Spec => []ServedAsMeant
<1>. QED
  BY InvServed, Invariance, PTL

-----------------------------------------------------------------------------
(* Settings *)

\* The resource served for a name is the converted document of that name.
LEMMA ServedDocument ==
  ASSUME LInv, fresh, NEW c \in Collections, c # "endpoints", NEW x \in Names,
         Named(x, coll[c]) # {}
  PROVE  /\ Indexed(coll[c])[x] \in Docs(c)
         /\ snap[c][x] = Parse(c, Indexed(coll[c])[x])
         /\ c = "listeners" => ~Panics(Indexed(coll[c])[x])
<1> DEFINE docs == coll[c]
           m == Max(Named(x, docs))
<1>1. docs \in Seq(Docs(c)) /\ docs \in Seq(Stored(c)) /\ snap = Loaded
  BY DEF LInv, InStore, UpToDate, Stored
<1>2. m \in Named(x, docs) /\ Loaded[c][x] = Parse(c, docs[m])
  BY <1>1, LoadedResource
<1>3. Indexed(docs)[x] = docs[m]
  BY DEF Indexed
<1>4. m \in DOMAIN docs
  BY <1>2 DEF Named
<1>5. c = "listeners" => ~Panics(docs[m])
  BY <1>4 DEF LInv, UpToDate
<1>. QED
  BY <1>1, <1>2, <1>3, <1>4, <1>5, ListElement

\* TLS settings that are stated are in force.
TlsInForce(t, s) ==
    /\ t.clients # FALSE => s.clients = (t.clients = TRUE)
    /\ t.params # None /\ t.validation # None /\ Authorities(t.validation) # {}
         => s.validation \in Authorities(t.validation)

LEMMA TlsAsWritten ==
  ASSUME NEW l \in Docs("listeners"), NEW i \in DOMAIN l.chains, l.chains[i].tls # None
  PROVE  TlsInForce(l.chains[i].tls, ParseTls(l.chains[i].tls))
<1> DEFINE t == l.chains[i].tls
<1>0. t.clients \in {None, TRUE, FALSE}
  BY SettingsAssumption
<1> HIDE DEF t
<1>1. ASSUME t.clients # FALSE PROVE ParseTls(t).clients = (t.clients = TRUE)
  <2>1. ParseTls(t).clients = (t.clients # None)
    BY DEF ParseTls
  <2>2. (t.clients # None) <=> (t.clients = TRUE)
    BY <1>0, <1>1, NoneAssumption
  <2>. QED
    BY <2>1, <2>2
<1>2. ASSUME t.params # None, t.validation # None, Authorities(t.validation) # {}
      PROVE  ParseTls(t).validation \in Authorities(t.validation)
  <2> DEFINE v == t.validation
  <2>1. ParseTls(t).validation = ParseValidation(v)
    BY <1>2 DEF ParseTls
  <2>2. v.sds # None => <<"sds", v.sds>> \in Authorities(v)
    BY DEF Authorities
  <2>3. v.ca # None => <<"ca", v.ca>> \in Authorities(v)
    BY DEF Authorities
  <2>4. v.sds # None \/ v.ca # None
    BY <1>2 DEF Authorities
  <2>. QED
    BY <2>1, <2>2, <2>3, <2>4 DEF ParseValidation
<1>3. TlsInForce(t, ParseTls(t))
  BY <1>1, <1>2 DEF TlsInForce
<1>. QED
  BY <1>3 DEF t

\* A listener's chains keep their order and their TLS settings.
LEMMA ParsedChains ==
  ASSUME NEW l
  PROVE  /\ DOMAIN ParseListener(l).chains = DOMAIN l.chains
         /\ \A i \in DOMAIN l.chains : ParseListener(l).chains[i] = ParseChain(l.chains[i])
BY DEF ParseListener, Convert

LEMMA ParsedTls ==
  ASSUME NEW chain, chain.tls # None
  PROVE  ParseChain(chain).tls = ParseTls(chain.tls)
BY DEF ParseChain

\* Protocol options stated once are in force, those not stated are not.
LEMMA OptionsAsWritten ==
  ASSUME NEW c \in Docs("clusters"), NEW o \in {"headers", "duration"}, ~StatedTwice(c)
  PROVE  Stated(c, o) = IF ParseCommonOptions(c) = None THEN {}
                        ELSE {ParseCommonOptions(c)[o]} \ {None}
<1> DEFINE given == IF c.extension # None /\ c.extension.common # None
                    THEN c.extension.common ELSE c.common
<1>1. OptionsOf(c) = IF given = None THEN {} ELSE {given}
  <2>1. CASE c.common = None
    BY <2>1 DEF OptionsOf
  <2>2. CASE c.common # None
    BY <2>2 DEF OptionsOf, StatedTwice
  <2>. QED
    BY <2>1, <2>2
<1>2. ParseCommonOptions(c) = IF given = None THEN None ELSE ParseOptions(given)
  BY DEF ParseCommonOptions
<1> HIDE DEF given
<1>3. CASE given = None
  <2>1. Stated(c, o) = {}
    BY <1>1, <1>3 DEF Stated
  <2>. QED
    BY <1>2, <1>3, <2>1
<1>4. CASE given # None
  <2>1. given \in OptionsOf(c)
    BY <1>1, <1>4
  <2>2. given.headers # Garbled /\ ParseOptions(given) # None
    BY <2>1, SettingsAssumption
  <2>3. Stated(c, o) = {given[o]} \ {None, Garbled}
    BY <1>1, <1>4 DEF Stated
  <2>4. {ParseOptions(given)[o]} \ {None} = {given[o]} \ {None, Garbled}
    <3>1. CASE o = "headers"
      BY <2>2, <3>1 DEF ParseOptions
    <3>2. CASE o = "duration"
      BY <3>2 DEF ParseOptions, Duration
    <3>. QED
      BY <3>1, <3>2
  <2>. QED
    BY <1>2, <1>4, <2>2, <2>3, <2>4
<1>. QED
  BY <1>3, <1>4

LEMMA InvSettings ==
  ASSUME LInv
  PROVE  SettingsAsWritten
<1> SUFFICES ASSUME fresh PROVE SettingsAsWritten
  BY DEF SettingsAsWritten
<1>0. "listeners" \in Collections /\ "clusters" \in Collections
  BY DEF Collections
<1>1. ASSUME NEW x \in Names, Named(x, coll["listeners"]) # {},
             NEW i \in DOMAIN Indexed(coll["listeners"])[x].chains,
             Indexed(coll["listeners"])[x].chains[i].tls # None
      PROVE  LET t == Indexed(coll["listeners"])[x].chains[i].tls
                 s == snap["listeners"][x].chains[i].tls
             IN  /\ t.clients # FALSE => s.clients = (t.clients = TRUE)
                 /\ t.params # None /\ t.validation # None
                      /\ Authorities(t.validation) # {}
                    => s.validation \in Authorities(t.validation)
  <2> DEFINE l == Indexed(coll["listeners"])[x]
  <2>1. l \in Docs("listeners") /\ snap["listeners"][x] = ParseListener(l)
    BY <1>0, <1>1, ServedDocument DEF Parse
  <2>3. snap["listeners"][x].chains[i].tls = ParseTls(l.chains[i].tls)
    BY <1>1, <2>1, ParsedChains, ParsedTls
  <2>4. TlsInForce(l.chains[i].tls, ParseTls(l.chains[i].tls))
    BY <1>1, <2>1, TlsAsWritten
  <2>5. TlsInForce(l.chains[i].tls, snap["listeners"][x].chains[i].tls)
    BY <2>3, <2>4
  <2>. QED
    BY <2>5 DEF TlsInForce
<1>2. ASSUME NEW x \in Names, Named(x, coll["clusters"]) # {},
             NEW o \in {"headers", "duration"}, ~StatedTwice(Indexed(coll["clusters"])[x])
      PROVE  Stated(Indexed(coll["clusters"])[x], o)
               = IF snap["clusters"][x].common = None THEN {}
                 ELSE {snap["clusters"][x].common[o]} \ {None}
  <2> DEFINE c == Indexed(coll["clusters"])[x]
  <2>1. c \in Docs("clusters") /\ snap["clusters"][x] = ParseCluster(c)
    BY <1>0, <1>2, ServedDocument DEF Parse
  <2>2. snap["clusters"][x].common = ParseCommonOptions(c)
    BY <2>1 DEF ParseCluster
  <2>. QED
    BY <1>2, <2>1, <2>2, OptionsAsWritten
<1>. QED
  BY <1>1, <1>2 DEF SettingsAsWritten

\* Settings of listeners and clusters that a document states in one place, or
\* not at all, are in force whenever the snapshot is up to date (parseListener,
\* parseCluster).
THEOREM SettingsInForce == Spec => []SettingsAsWritten
<1>. QED
  BY InvSettings, Invariance, PTL

-----------------------------------------------------------------------------
(* Picking from what was picked *)

\* The ranks of some of the positions are as many as these.
LEMMA AsManyRanks ==
  ASSUME NEW n \in Nat, NEW P \in SUBSET (1..n), NEW B \in SUBSET P
  PROVE  Cardinality({k \in 1..Cardinality(P) : Place(P, k) \in B}) = Cardinality(B)
<1> DEFINE K == {k \in 1..Cardinality(P) : Place(P, k) \in B}
           place == [k \in K |-> Place(P, k)]
<1>1. /\ Cardinality(P) \in Nat
      /\ \A k \in 1..Cardinality(P) : Rank(P, Place(P, k)) = k
      /\ \A i \in P : Rank(P, i) \in 1..Cardinality(P) /\ Place(P, Rank(P, i)) = i
  BY Ranks, Places
<1>2. IsFiniteSet(K)
  <2>1. IsFiniteSet(1..Cardinality(P)) /\ K \in SUBSET (1..Cardinality(P))
    BY <1>1, FS_Interval
  <2>. QED
    BY <2>1, FS_Subset
<1>3. place \in [K -> B]
  OBVIOUS
<1>4. \A k, l \in K : place[k] = place[l] => k = l
  <2>1. \A k \in K : Rank(P, place[k]) = k
    BY <1>1
  <2>. QED
    BY <2>1
<1>5. \A i \in B : \E k \in K : place[k] = i
  <2>. TAKE i \in B
  <2>1. Rank(P, i) \in K /\ Place(P, Rank(P, i)) = i
    BY <1>1
  <2>. QED
    BY <2>1
<1>6. place \in Injection(K, B) /\ place \in Surjection(K, B)
  BY <1>3, <1>4, <1>5 DEF Injection, IsInjective, Surjection
<1>7. ExistsBijection(K, B)
  BY <1>6 DEF ExistsBijection, Bijection
<1>. QED
  BY <1>2, <1>7, FS_Bijection

\* Where, among what is picked at P, that of Q is.
Within(P, Q) == {k \in 1..Cardinality(P) : Place(P, k) \in Q}

\* Picking Q, among what was picked at P, is picking Q.
LEMMA PlaceInPlace ==
  ASSUME NEW n \in Nat, NEW P \in SUBSET (1..n), NEW Q \in SUBSET P,
         NEW K, K = Within(P, Q)
  PROVE  /\ Cardinality(K) = Cardinality(Q)
         /\ \A m \in 1..Cardinality(Q) :
              Place(K, m) \in K /\ Place(P, Place(K, m)) = Place(Q, m)
<1>1. Cardinality(K) = Cardinality(Q)
  BY AsManyRanks DEF Within
<1>2. Cardinality(P) \in Nat /\ K \in SUBSET (1..Cardinality(P)) /\ Q \in SUBSET (1..n)
  BY Ranks DEF Within
<1>0. /\ \A k \in 1..Cardinality(P) : Place(P, k) \in P /\ Rank(P, Place(P, k)) = k
      /\ \A i, j \in P : i < j => Rank(P, i) < Rank(P, j)
      /\ \A i \in P : i \in Int
  <2>1. \A k \in 1..Cardinality(P) : Place(P, k) \in P /\ Rank(P, Place(P, k)) = k
    BY Places
  <2>2. \A i, j \in P : i < j => Rank(P, i) < Rank(P, j)
    BY Ranks
  <2>3. \A i \in P : i \in Int
    OBVIOUS
  <2>. QED
    BY <2>1, <2>2, <2>3
<1>3. ASSUME NEW k \in K PROVE Rank(K, k) = Rank(Q, Place(P, k))
  <2> DEFINE i == Place(P, k)
             B == {j \in Q : j <= i}
  <2>0. k \in 1..Cardinality(P)
    BY <1>2
  <2>9. Place(P, k) \in P /\ Rank(P, Place(P, k)) = k
    BY <1>0, <2>0
  <2>1. i \in P /\ i \in Int /\ k \in Int /\ Rank(P, i) = k
    <3>1. Place(P, k) \in Int
      BY <1>0, <2>9, Zenon
    <3>2. k \in Int
      BY <1>2, <2>0
    <3>. QED
      BY <2>9, <3>1, <3>2, Zenon
  <2>2. ASSUME NEW l \in 1..Cardinality(P) PROVE l <= k <=> Place(P, l) <= i
    <3>1. Place(P, l) \in P /\ Rank(P, Place(P, l)) = l /\ l \in Int
      BY <1>0
    <3>2. PICK j \in P : j = Place(P, l) /\ Rank(P, j) = l
      BY <3>1
    <3>3. j < i => l < k
      BY <1>0, <2>1, <3>2
    <3>4. i < j => k < l
      BY <1>0, <2>1, <3>2
    <3>5. i = j => k = l
      BY <2>1, <3>2
    <3>6. j \in Int
      OBVIOUS
    <3>7. l <= k <=> j <= i
      BY <2>1, <3>1, <3>3, <3>4, <3>5, <3>6
    <3>. QED
      BY <3>2, <3>7
  <2>3. {l \in K : l <= k} = {l \in 1..Cardinality(P) : Place(P, l) \in B}
    BY <2>2 DEF Within
  <2>4. B \in SUBSET P
    OBVIOUS
  <2>5. Cardinality({l \in 1..Cardinality(P) : Place(P, l) \in B}) = Cardinality(B)
    BY <2>4, AsManyRanks
  <2>. QED
    BY <2>3, <2>5 DEF Rank
<1>4. ASSUME NEW m \in 1..Cardinality(Q)
      PROVE  Place(K, m) \in K /\ Place(P, Place(K, m)) = Place(Q, m)
  <2>1. Place(K, m) \in K /\ Rank(K, Place(K, m)) = m
    BY <1>1, <1>2, Places
  <2>2. Place(P, Place(K, m)) \in Q /\ Rank(Q, Place(P, Place(K, m))) = m
    BY <1>3, <2>1 DEF Within
  <2>3. \A i \in Q : Place(Q, Rank(Q, i)) = i
    BY <1>2, Places
  <2>. QED
    BY <2>1, <2>2, <2>3
<1>. QED
  BY <1>1, <1>4

-----------------------------------------------------------------------------
(* Filters *)

\* The HTTP filters of a chain are converted one by one, in their order.
LEMMA ManagersAsWritten ==
  ASSUME NEW chain, IsList(chain.filters),
         \A i \in DOMAIN chain.filters :
           chain.filters[i].name = "http_connection_manager" => ParseHttp(chain.filters[i]) # None
  PROVE  /\ Len(HttpManagers(ParseChain(chain))) = Len(HttpFilters(chain))
         /\ DOMAIN HttpFilters(chain) = 1..Len(HttpFilters(chain))
         /\ \A m \in DOMAIN HttpFilters(chain) :
              /\ HttpManagers(ParseChain(chain))[m] = ParseHttp(HttpFilters(chain)[m])
              /\ \E i \in DOMAIN chain.filters :
                   /\ HttpFilters(chain)[m] = chain.filters[i]
                   /\ chain.filters[i].name = "http_connection_manager"
<1> DEFINE list == chain.filters
           P == {i \in DOMAIN list : list[i].name \in FilterNames}
           Q == {i \in DOMAIN list : list[i].name = "http_connection_manager"}
           picked == Pick(list, P)
           parsed == [k \in DOMAIN picked |-> ParseFilter(picked[k])]
           K == {k \in DOMAIN parsed : parsed[k] # None /\ parsed[k].kind = "http"}
           S == ToSet(list)
<1>1. list \in Seq(S) /\ Len(list) \in Nat /\ DOMAIN list = 1..Len(list)
  BY DEF IsList
<1>2. P \in SUBSET DOMAIN list /\ Q \in SUBSET DOMAIN list /\ Q \in SUBSET P
  BY DEF FilterNames
<1>3. ParseChain(chain).filters = parsed
  BY DEF ParseChain, ParseFilters, Convert
<1>4. /\ HttpFilters(chain) = Pick(list, Q)
      /\ HttpManagers(ParseChain(chain)) = Pick(parsed, K)
  BY <1>3 DEF HttpFilters, HttpManagers
<1> HIDE DEF list, P, Q, S, picked
<1>5. /\ picked \in Seq(S) /\ DOMAIN picked = 1..Cardinality(P)
      /\ \A k \in 1..Cardinality(P) : picked[k] = list[Place(P, k)]
  BY <1>1, <1>2, Picked DEF picked
<1>6. \A k \in 1..Cardinality(P) : Place(P, k) \in P
  BY <1>1, <1>2, Places
<1>7. ASSUME NEW i \in P
      PROVE  i \in Q <=> ParseFilter(list[i]) # None /\ ParseFilter(list[i]).kind = "http"
  <2>1. i \in DOMAIN list /\ list[i].name \in FilterNames
    BY DEF P
  <2>2. CASE list[i].name = "http_connection_manager"
    <3>1. ParseFilter(list[i]) = ParseHttp(list[i]) /\ i \in Q
      BY <2>1, <2>2 DEF ParseFilter, Q
    <3>2. ParseHttp(list[i]) # None /\ ParseHttp(list[i]).kind = "http"
      BY <2>1, <2>2 DEF ParseHttp, list
    <3>. QED
      BY <3>1, <3>2
  <2>3. CASE list[i].name = "tcp_proxy"
    BY <2>3 DEF ParseFilter, ParseTcpProxy, Q
  <2>4. CASE list[i].name = "local_ratelimit"
    BY <2>4 DEF ParseFilter, ParseLocalRateLimit, Q
  <2>. QED
    BY <2>1, <2>2, <2>3, <2>4 DEF FilterNames
<1>8. K = Within(P, Q)
  BY <1>5, <1>6, <1>7 DEF Within
<1>9. /\ Cardinality(K) = Cardinality(Q)
      /\ \A m \in 1..Cardinality(Q) :
           Place(K, m) \in K /\ Place(P, Place(K, m)) = Place(Q, m)
  <2>1. P \in SUBSET (1..Len(list)) /\ Q \in SUBSET P /\ Len(list) \in Nat
    BY <1>1, <1>2
  <2> HIDE DEF K
  <2>. QED
    BY <1>8, <2>1, PlaceInPlace
<1>10. /\ DOMAIN Pick(list, Q) = 1..Cardinality(Q) /\ Len(Pick(list, Q)) = Cardinality(Q)
       /\ \A m \in 1..Cardinality(Q) : Pick(list, Q)[m] = list[Place(Q, m)]
  BY <1>1, <1>2, Picked
<1>11. Cardinality(Q) \in Nat /\ \A m \in 1..Cardinality(Q) : Place(Q, m) \in Q
  BY <1>1, <1>2, Ranks, Places
<1> HIDE DEF parsed, K
<1>12. Pick(parsed, K) = [m \in 1..Cardinality(K) |-> parsed[Place(K, m)]]
  BY Zenon DEF Pick, Place, Rank
<1>13. Len(Pick(parsed, K)) = Cardinality(Q)
  BY <1>9, <1>11, <1>12
<1>14. ASSUME NEW m \in 1..Cardinality(Q)
       PROVE  /\ Pick(parsed, K)[m] = ParseHttp(Pick(list, Q)[m])
              /\ \E i \in DOMAIN list : /\ Pick(list, Q)[m] = list[i]
                                        /\ list[i].name = "http_connection_manager"
  <2>1. Place(K, m) \in 1..Cardinality(P)
    BY <1>8, <1>9 DEF Within
  <2>5. parsed[Place(K, m)] = ParseFilter(picked[Place(K, m)])
    BY <1>5, <2>1 DEF parsed
  <2>6. picked[Place(K, m)] = list[Place(Q, m)]
    BY <1>5, <1>9, <2>1
  <2>7. Pick(parsed, K)[m] = parsed[Place(K, m)]
    BY <1>9, <1>12
  <2>2. Pick(parsed, K)[m] = ParseFilter(list[Place(Q, m)])
    BY <2>5, <2>6, <2>7
  <2>3. Place(Q, m) \in DOMAIN list /\ list[Place(Q, m)].name = "http_connection_manager"
    BY <1>11 DEF Q
  <2>4. ParseFilter(list[Place(Q, m)]) = ParseHttp(list[Place(Q, m)])
    BY <2>3 DEF ParseFilter
  <2>. QED
    BY <1>10, <2>2, <2>3, <2>4
<1>. QED
  BY <1>4, <1>10, <1>13, <1>14 DEF list

-----------------------------------------------------------------------------
(* Routes *)

\* One condition on a header that is compared in one way.
Accepts(h, r) ==
    /\ h.exact # None => <<h.name, <<"exact", h.exact>>>> \in r.headers
    /\ h.regex # None => <<h.name, <<"regex", h.regex>>>> \in r.headers
    /\ h.exact = None /\ h.regex = None => <<h.name, None>> \in r.headers

\* A header compared in one way is converted to that comparison (parseRoutes).
LEMMA HeaderAsWritten ==
  ASSUME NEW h, h.exact = None \/ h.regex = None, NEW r
  PROVE  ParseHeader(h) \in r.headers <=> Accepts(h, r)
<1>1. CASE h.regex # None
  BY <1>1 DEF ParseHeader, Accepts
<1>2. CASE h.regex = None /\ h.exact # None
  BY <1>2 DEF ParseHeader, Accepts
<1>3. CASE h.regex = None /\ h.exact = None
  BY <1>3 DEF ParseHeader, Accepts
<1>. QED
  BY <1>1, <1>2, <1>3

\* All of a list of headers hold after the conversion if and only if before.
LEMMA HeadersAsWritten ==
  ASSUME NEW list, NEW r, \A h \in ToSet(list) : h.exact = None \/ h.regex = None
  PROVE  ToSet(Convert(ParseHeader, list)) \subseteq r.headers
           <=> \A h \in ToSet(list) : Accepts(h, r)
<1>1. \A h \in ToSet(list) : ParseHeader(h) \in r.headers <=> Accepts(h, r)
  BY HeaderAsWritten
<1>2. ToSet(Convert(ParseHeader, list)) = {ParseHeader(h) : h \in ToSet(list)}
  BY DEF ToSet, Convert
<1>. QED
  BY <1>1, <1>2

\* The one path specifier of a match.
Stands(m, r) ==
    /\ m.prefix # None => <<"prefix", m.prefix>> \in r.path
    /\ m.path # None => <<"path", m.path>> \in r.path
    /\ m.regex # None => <<"regex", m.regex>> \in r.path

\* Of a single path specifier the converter makes the path to match.
LEMMA PathAsWritten ==
  ASSUME NEW m, NEW r,
         Cardinality({k \in {"prefix", "path", "regex"} : m[k] # None}) = 1,
         \A k \in {"prefix", "path", "regex"} : <<k, m[k]>> # None
  PROVE  ParsePath(m) # None /\ (ParsePath(m) \in r.path <=> Stands(m, r))
<1> DEFINE K == {k \in {"prefix", "path", "regex"} : m[k] # None}
<1>1. IsFiniteSet({"prefix", "path", "regex"})
  <2>1. IsFiniteSet({"prefix"})
    BY FS_Singleton
  <2>2. IsFiniteSet({"prefix"} \cup {"path"})
    BY <2>1, FS_AddElement
  <2>3. IsFiniteSet(({"prefix"} \cup {"path"}) \cup {"regex"})
    BY <2>2, FS_AddElement
  <2>4. ({"prefix"} \cup {"path"}) \cup {"regex"} = {"prefix", "path", "regex"}
    OBVIOUS
  <2>. QED
    BY <2>3, <2>4
<1>2. IsFiniteSet(K)
  BY <1>1, FS_Subset
<1>3. PICK k \in K : K = {k}
  BY <1>2, FS_Singleton
<1>4. CASE k = "prefix"
  <2>1. m.prefix # None /\ m.path = None /\ m.regex = None
    BY <1>3, <1>4
  <2>2. ParsePath(m) = <<"prefix", m.prefix>>
    BY <2>1 DEF ParsePath
  <2>. QED
    BY <2>1, <2>2 DEF Stands
<1>5. CASE k = "path"
  <2>1. m.prefix = None /\ m.path # None /\ m.regex = None
    BY <1>3, <1>5
  <2>2. ParsePath(m) = <<"path", m.path>>
    BY <2>1 DEF ParsePath
  <2>. QED
    BY <2>1, <2>2 DEF Stands
<1>6. CASE k = "regex"
  <2>1. m.prefix = None /\ m.path = None /\ m.regex # None
    BY <1>3, <1>6
  <2>2. ParsePath(m) = <<"regex", m.regex>>
    BY <2>1 DEF ParsePath
  <2>. QED
    BY <2>1, <2>2 DEF Stands
<1>. QED
  BY <1>3, <1>4, <1>5, <1>6

\* The list of at most one rate limit stays as it is.
LEMMA LimitsAsWritten ==
  ASSUME NEW limits, IsList(limits), Len(limits) <= 1
  PROVE  ToSet(ParseLimits(limits)) = Actions(limits)
<1>1. limits \in Seq(ToSet(limits)) /\ Len(limits) \in Nat
  BY DEF IsList
<1>2. CASE limits = <<>>
  BY <1>2 DEF ToSet, ParseLimits, Actions
<1>3. CASE limits # <<>>
  <2>1. Len(limits) = 1 /\ DOMAIN limits = {1}
    <3>1. Len(limits) # 0
      BY <1>1, <1>3
    <3>3. PICK n \in Nat : n = Len(limits)
      BY <1>1, Zenon
    <3>4. n <= 1 /\ n # 0
      BY <3>1, <3>3, Zenon
    <3>5. n = 1
      BY <3>4
    <3>2. Len(limits) = 1
      BY <3>3, <3>5, Zenon
    <3>. QED
      BY <1>1, <3>2
  <2>2. ToSet(limits) = {limits[1]} /\ Last(limits) = limits[1]
    BY <2>1 DEF ToSet, Last
  <2>3. ParseLimits(limits) = <<ParseLimit(limits[1])>>
    BY <1>3, <2>2 DEF ParseLimits
  <2>4. ToSet(ParseLimits(limits)) = {ParseLimit(limits[1])}
    BY <2>3 DEF ToSet
  <2>. QED
    BY <2>2, <2>4 DEF Actions
<1>. QED
  BY <1>2, <1>3

\* Envoy's choice and the document's ask for the first host and the first
\* route of those that fit.
FirstOf(I) == IF I # {} THEN Min(I) ELSE 0
Open(hosts, r) == {i \in 1..Len(hosts) : r.host \in ToSet(hosts[i].domains)}
Takes(x, r) ==
    /\ x.match # None /\ x.match.path \in r.path
    /\ ToSet(x.match.headers) \subseteq r.headers
Taken(routes, r) == {i \in 1..Len(routes) : Takes(routes[i], r)}
Fitting(routes, r) ==
    {i \in 1..Len(routes) : routes[i].match # None /\ Holds(routes[i].match, r)}

\* The host chosen is the first open one.
LEMMA HostForFirst ==
  ASSUME NEW hosts, NEW r
  PROVE  HostFor(hosts, r) = FirstOf(Open(hosts, r))
BY DEF HostFor, SelectInSeq, FirstOf, Open

\* Where a route of Envoy's leads, and where one of a document does.
Target(a) ==
    IF a = None THEN None
    ELSE IF "redirect" \in DOMAIN a
    THEN <<"redirect", a.redirect.https, a.redirect.host>>
    ELSE <<"cluster", a.route.cluster, ToSet(a.route.limits)>>
Aim(x) ==
    IF x.redirect # None
    THEN <<"redirect", x.redirect.https = TRUE, x.redirect.host>>
    ELSE IF x.route # None
    THEN <<"cluster", x.route.cluster, Actions(x.route.limits)>>
    ELSE None

ChoiceOf(hosts, r) ==
    LET v == FirstOf(Open(hosts, r))
        k == FirstOf(Taken(hosts[v].routes, r))
    IN  IF v = 0 \/ k = 0 THEN None
        ELSE [to |-> Target(hosts[v].routes[k].action),
              limits |-> ToSet(hosts[v].limits)]
WishOf(hosts, r) ==
    LET v == FirstOf(Open(hosts, r))
        k == FirstOf(Fitting(hosts[v].routes, r))
    IN  IF v = 0 \/ k = 0 THEN None
        ELSE [to |-> Aim(hosts[v].routes[k]), limits |-> Actions(hosts[v].limits)]

\* The choice and the wish in these terms.
LEMMA ChoiceFirst ==
  ASSUME NEW f, NEW r
  PROVE  Choice(f, r) = ChoiceOf(f.hosts, r) /\ Wish(f, r) = WishOf(f.hosts, r)
<1>1. Choice(f, r) = ChoiceOf(f.hosts, r)
  BY HostForFirst, Zenon DEF Choice, ChoiceOf, SelectInSeq, FirstOf, Taken, Takes, Target
<1>2. Wish(f, r) = WishOf(f.hosts, r)
  BY HostForFirst, Zenon DEF Wish, WishOf, SelectInSeq, FirstOf, Fitting, Aim
<1>. QED
  BY <1>1, <1>2

\* A converted match accepts the requests of which every condition holds.
LEMMA MatchAsWritten ==
  ASSUME NEW m, NEW r, m # None,
         Cardinality({k \in {"prefix", "path", "regex"} : m[k] # None}) = 1,
         \A k \in {"prefix", "path", "regex"} : <<k, m[k]>> # None,
         ParsePath(m) # None => ParseMatch(m) # None,
         \A h \in ToSet(Or(m.headers, <<>>)) : h.exact = None \/ h.regex = None
  PROVE  /\ ParseMatch(m) # None
         /\ ParseMatch(m).path \in r.path
              /\ ToSet(ParseMatch(m).headers) \subseteq r.headers
            <=> Holds(m, r)
<1> DEFINE list == Or(m.headers, <<>>)
<1>1. ParsePath(m) # None /\ (ParsePath(m) \in r.path <=> Stands(m, r))
  BY PathAsWritten
<1>2. ParseMatch(m) # None
  BY <1>1
<1>3. /\ ParseMatch(m).path = ParsePath(m)
      /\ ParseMatch(m).headers = Convert(ParseHeader, list)
  BY <1>1 DEF ParseMatch
<1>4. ToSet(Convert(ParseHeader, list)) \subseteq r.headers
        <=> \A h \in ToSet(list) : Accepts(h, r)
  BY HeadersAsWritten
<1>5. Holds(m, r) <=> Stands(m, r) /\ \A h \in ToSet(list) : Accepts(h, r)
  BY DEF Holds, Stands, Accepts
<1>. QED
  BY <1>1, <1>2, <1>3, <1>4, <1>5

\* A converted route leads where the document says.
LEMMA ActionAsWritten ==
  ASSUME NEW x, x.redirect # None => x.redirect.https \in {None, TRUE},
         x.route # None => IsList(x.route.limits) /\ Len(x.route.limits) <= 1,
         x.redirect # None \/ x.route # None => ParseRoute(x).action # None
  PROVE  Target(ParseRoute(x).action) = Aim(x)
<1> DEFINE a == ParseRoute(x).action
<1>1. CASE x.redirect # None
  <2>1. a = [redirect |-> ParseRedirect(x.redirect)] /\ a # None
    BY <1>1 DEF ParseRoute
  <2>2. "redirect" \in DOMAIN a /\ a.redirect = ParseRedirect(x.redirect)
    BY <2>1
  <2>3. /\ a.redirect.https = (x.redirect.https # None)
        /\ a.redirect.host = x.redirect.host
    BY <2>2 DEF ParseRedirect
  <2>4. (x.redirect.https # None) = (x.redirect.https = TRUE)
    BY <1>1, NoneAssumption
  <2>5. Target(a) = <<"redirect", a.redirect.https, a.redirect.host>>
    BY <2>1, <2>2, Zenon DEF Target
  <2>6. Aim(x) = <<"redirect", x.redirect.https = TRUE, x.redirect.host>>
    BY <1>1, Zenon DEF Aim
  <2>. QED
    BY <2>3, <2>4, <2>5, <2>6, Zenon
<1>2. CASE x.redirect = None /\ x.route # None
  <2>1. a = [route |-> ParseRouteAction(x.route)] /\ a # None
    BY <1>2 DEF ParseRoute
  <2>2. "redirect" \notin DOMAIN a /\ a.route = ParseRouteAction(x.route)
    BY <2>1
  <2>3. /\ a.route.cluster = x.route.cluster
        /\ a.route.limits = ParseLimits(x.route.limits)
    BY <2>2 DEF ParseRouteAction
  <2>4. ToSet(a.route.limits) = Actions(x.route.limits)
    BY <1>2, <2>3, LimitsAsWritten
  <2>5. Target(a) = <<"cluster", a.route.cluster, ToSet(a.route.limits)>>
    BY <2>1, <2>2, Zenon DEF Target
  <2>6. Aim(x) = <<"cluster", x.route.cluster, Actions(x.route.limits)>>
    BY <1>2, Zenon DEF Aim
  <2>. QED
    BY <2>3, <2>4, <2>5, <2>6, Zenon
<1>3. CASE x.redirect = None /\ x.route = None
  <2>1. a = None
    BY <1>3 DEF ParseRoute
  <2>. QED
    BY <1>3, <2>1 DEF Target, Aim
<1>. QED
  BY <1>1, <1>2, <1>3

\* The first of some positions is one of them.
LEMMA FirstOne ==
  ASSUME NEW n \in Nat, NEW I \in SUBSET (1..n), FirstOf(I) # 0
  PROVE  FirstOf(I) \in I
BY Extremes DEF FirstOf

\* Routes and virtual hosts are converted one by one.
LEMMA ConvertedRoutes ==
  ASSUME NEW vh
  PROVE  LET routes == ParseVirtualHost(vh).routes
         IN  /\ DOMAIN routes = DOMAIN vh.routes
             /\ \A j \in DOMAIN vh.routes : routes[j] = ParseRoute(vh.routes[j])
             /\ routes = [j \in DOMAIN vh.routes |-> ParseRoute(vh.routes[j])]
             /\ ParseVirtualHost(vh).limits = ParseLimits(vh.limits)
             /\ ParseVirtualHost(vh).domains = vh.domains
BY DEF ParseVirtualHost, Convert

\* So are the virtual hosts of a filter.
LEMMA ConvertedHosts ==
  ASSUME NEW f
  PROVE  LET hosts == ParseHttp(f).hosts
         IN  /\ DOMAIN hosts = DOMAIN f.hosts
             /\ \A i \in DOMAIN f.hosts : hosts[i] = ParseVirtualHost(f.hosts[i])
             /\ hosts = [i \in DOMAIN f.hosts |-> ParseVirtualHost(f.hosts[i])]
BY DEF ParseHttp, Convert

\* A route of a virtual host of a plain filter.
PlainRoute(x) ==
    /\ x.match # None =>
         /\ Cardinality({k \in {"prefix", "path", "regex"} : x.match[k] # None}) = 1
         /\ \A h \in ToSet(Or(x.match.headers, <<>>)) : h.exact = None \/ h.regex = None
    /\ x.redirect # None => x.redirect.https # FALSE
    /\ x.route # None => Len(x.route.limits) <= 1

\* A converted plain route takes the requests that fit it and leads to its aim.
LEMMA RouteAsWritten ==
  ASSUME NEW x \in Routes, PlainRoute(x), NEW r
  PROVE  /\ Takes(ParseRoute(x), r) <=> x.match # None /\ Holds(x.match, r)
         /\ Target(ParseRoute(x).action) = Aim(x)
<1>1. ParseRoute(x).match = ParseMatch(x.match)
  BY DEF ParseRoute
<1>2. Target(ParseRoute(x).action) = Aim(x)
  <2>1. /\ x.redirect # None => x.redirect.https \in {None, TRUE}
        /\ x.route # None => IsList(x.route.limits) /\ Len(x.route.limits) <= 1
        /\ x.redirect # None \/ x.route # None => ParseRoute(x).action # None
    BY RoutingAssumption DEF PlainRoute
  <2>. QED
    BY <2>1, ActionAsWritten
<1>3. CASE x.match = None
  <2>1. ParseRoute(x).match = None
    BY <1>1, <1>3 DEF ParseMatch
  <2>. QED
    BY <1>2, <1>3, <2>1 DEF Takes
<1>4. CASE x.match # None
  <2> DEFINE m == x.match
  <2>1. /\ m # None
        /\ \A k \in {"prefix", "path", "regex"} : <<k, m[k]>> # None
        /\ ParsePath(m) # None => ParseMatch(m) # None
    BY <1>4, RoutingAssumption
  <2>2. /\ Cardinality({k \in {"prefix", "path", "regex"} : m[k] # None}) = 1
        /\ \A h \in ToSet(Or(m.headers, <<>>)) : h.exact = None \/ h.regex = None
    BY <1>4 DEF PlainRoute
  <2> HIDE DEF m
  <2>3. /\ ParseMatch(m) # None
        /\ ParseMatch(m).path \in r.path
             /\ ToSet(ParseMatch(m).headers) \subseteq r.headers
           <=> Holds(m, r)
    BY <2>1, <2>2, MatchAsWritten
  <2>. QED
    BY <1>1, <1>2, <2>1, <2>3 DEF Takes, m
<1>. QED
  BY <1>3, <1>4

\* Within a virtual host the same route is taken to the same end.
LEMMA HostAsWritten ==
  ASSUME NEW vh \in VirtualHosts, \A j \in DOMAIN vh.routes : PlainRoute(vh.routes[j]),
         Len(vh.limits) <= 1, NEW r, NEW k, k = FirstOf(Fitting(vh.routes, r))
  PROVE  /\ FirstOf(Taken(ParseVirtualHost(vh).routes, r)) = k
         /\ k # 0 => Target(ParseVirtualHost(vh).routes[k].action) = Aim(vh.routes[k])
         /\ ToSet(ParseVirtualHost(vh).limits) = Actions(vh.limits)
<1> DEFINE routes == vh.routes
           given == ParseVirtualHost(vh).routes
<1>1. /\ routes \in Seq(ToSet(routes)) /\ Len(routes) \in Nat
      /\ DOMAIN routes = 1..Len(routes) /\ IsList(vh.limits)
  BY RoutingAssumption DEF IsList
<1>2. \A j \in DOMAIN routes : routes[j] \in Routes
  BY DEF Routes, ToSet
<1>3. /\ DOMAIN given = DOMAIN routes
      /\ \A j \in DOMAIN routes : given[j] = ParseRoute(routes[j])
      /\ ParseVirtualHost(vh).limits = ParseLimits(vh.limits)
  BY ConvertedRoutes
<1>4. Len(given) = Len(routes)
  BY <1>1, <1>3, ConvertedRoutes
<1> HIDE DEF given
<1>5. ASSUME NEW j \in DOMAIN routes
      PROVE  /\ Takes(given[j], r) <=> routes[j].match # None /\ Holds(routes[j].match, r)
             /\ Target(given[j].action) = Aim(routes[j])
  BY <1>2, <1>3, RouteAsWritten
<1>6. Taken(given, r) = Fitting(routes, r)
  BY <1>1, <1>4, <1>5 DEF Taken, Fitting
<1>7. k # 0 => k \in DOMAIN routes
  <2>1. Fitting(routes, r) \in SUBSET (1..Len(routes))
    BY DEF Fitting
  <2>. QED
    BY <1>1, <2>1, FirstOne
<1>8. ToSet(ParseLimits(vh.limits)) = Actions(vh.limits)
  BY <1>1, LimitsAsWritten
<1>. QED
  BY <1>3, <1>5, <1>6, <1>7, <1>8 DEF given

\* A plain filter sends every request where its document says.
LEMMA FilterAsWritten ==
  ASSUME NEW f \in Managers, Plain(f), NEW r
  PROVE  Choice(ParseHttp(f), r) = Wish(f, r)
<1> DEFINE hosts == f.hosts
           given == ParseHttp(f).hosts
           v == FirstOf(Open(hosts, r))
<1>1. hosts \in Seq(ToSet(hosts)) /\ Len(hosts) \in Nat /\ DOMAIN hosts = 1..Len(hosts)
  BY RoutingAssumption DEF IsList
<1>2. \A i \in DOMAIN hosts : hosts[i] \in VirtualHosts
  BY DEF VirtualHosts, ToSet
<1>3. /\ DOMAIN given = DOMAIN hosts
      /\ \A i \in DOMAIN hosts : given[i] = ParseVirtualHost(hosts[i])
  BY ConvertedHosts
<1>4. Len(given) = Len(hosts)
  BY <1>1, <1>3, ConvertedHosts
<1>5. \A i \in DOMAIN hosts : /\ Len(hosts[i].limits) <= 1
                             /\ \A j \in DOMAIN hosts[i].routes : PlainRoute(hosts[i].routes[j])
  BY DEF Plain, PlainRoute
<1>6. Open(given, r) = Open(hosts, r)
  <2>1. \A i \in DOMAIN hosts : given[i].domains = hosts[i].domains
    BY <1>3, ConvertedRoutes
  <2> HIDE DEF given
  <2>. QED
    BY <1>1, <1>4, <2>1 DEF Open
<1>7. v # 0 => v \in DOMAIN hosts
  <2>1. Open(hosts, r) \in SUBSET (1..Len(hosts))
    BY DEF Open
  <2>. QED
    BY <1>1, <2>1, FirstOne
<1>8. Choice(ParseHttp(f), r) = ChoiceOf(given, r) /\ Wish(f, r) = WishOf(hosts, r)
  BY ChoiceFirst
<1> HIDE DEF given, hosts
<1>9. CASE v = 0
  BY <1>6, <1>8, <1>9 DEF ChoiceOf, WishOf
<1>10. CASE v # 0
  <2> DEFINE vh == hosts[v]
             k == FirstOf(Fitting(vh.routes, r))
  <2>1. vh \in VirtualHosts /\ given[v] = ParseVirtualHost(vh)
    BY <1>2, <1>3, <1>7, <1>10
  <2>2. Len(vh.limits) <= 1 /\ \A j \in DOMAIN vh.routes : PlainRoute(vh.routes[j])
    BY <1>5, <1>7, <1>10
  <2> HIDE DEF v, vh
  <2>3. /\ FirstOf(Taken(ParseVirtualHost(vh).routes, r)) = k
        /\ k # 0 => Target(ParseVirtualHost(vh).routes[k].action) = Aim(vh.routes[k])
        /\ ToSet(ParseVirtualHost(vh).limits) = Actions(vh.limits)
    BY <2>1, <2>2, HostAsWritten
  <2>4. FirstOf(Open(given, r)) = v
    BY <1>6 DEF v
  <2>5. ChoiceOf(given, r) =
          IF k = 0 THEN None
          ELSE [to |-> Target(given[v].routes[k].action), limits |-> ToSet(given[v].limits)]
    BY <1>10, <2>1, <2>3, <2>4, Zenon DEF ChoiceOf
  <2>6. WishOf(hosts, r) =
          IF k = 0 THEN None
          ELSE [to |-> Aim(vh.routes[k]), limits |-> Actions(vh.limits)]
    BY <1>10, Zenon DEF WishOf, v, vh
  <2>7. ChoiceOf(given, r) = WishOf(hosts, r)
    <3> HIDE DEF k
    <3>. QED
      BY <2>1, <2>3, <2>5, <2>6
  <2>. QED
    BY <1>8, <2>7
<1>. QED
  BY <1>9, <1>10

\* What RoutedAsWritten asks of a chain and what is served for it.
ChainRouted(asked, given) ==
    /\ Len(given) = Len(asked)
    /\ \A j \in DOMAIN asked : Plain(asked[j]) =>
         \A r \in HttpRequests : Choice(given[j], r) = Wish(asked[j], r)

\* The HTTP filters of a chain that does not panic do what it says.
LEMMA ChainAsWritten ==
  ASSUME NEW l \in Docs("listeners"), ~Panics(l), NEW i \in DOMAIN l.chains
  PROVE  ChainRouted(HttpFilters(l.chains[i]), HttpManagers(ParseChain(l.chains[i])))
<1> DEFINE chain == l.chains[i]
           asked == HttpFilters(chain)
           given == HttpManagers(ParseChain(chain))
<1>1. chain \in Chains
  BY DEF Chains, ToSet
<1>2. IsList(chain.filters)
  BY <1>1, RoutingAssumption
<1>3. ASSUME NEW n \in DOMAIN chain.filters, chain.filters[n].name = "http_connection_manager"
      PROVE  chain.filters[n] \in Managers
  <2> DEFINE f == chain.filters[n]
  <2>1. ~FilterPanics(f)
    BY DEF Panics
  <2>2. f.hosts # None
    BY <1>3, <2>1 DEF FilterPanics
  <2>3. f \in ToSet(chain.filters)
    BY DEF ToSet
  <2>. QED
    BY <1>1, <1>3, <2>2, <2>3 DEF Managers
<1>4. \A f \in Managers : ParseHttp(f) # None
  BY RoutingAssumption
<1> HIDE DEF chain
<1>5. \A n \in DOMAIN chain.filters :
        chain.filters[n].name = "http_connection_manager" => ParseHttp(chain.filters[n]) # None
  BY <1>3, <1>4
<1>6. /\ Len(given) = Len(asked)
      /\ \A m \in DOMAIN asked :
           /\ given[m] = ParseHttp(asked[m])
           /\ \E n \in DOMAIN chain.filters :
                /\ asked[m] = chain.filters[n]
                /\ chain.filters[n].name = "http_connection_manager"
  BY <1>2, <1>5, ManagersAsWritten
<1> HIDE DEF asked, given
<1>7. ASSUME NEW j \in DOMAIN asked, Plain(asked[j]), NEW r \in HttpRequests
      PROVE  Choice(given[j], r) = Wish(asked[j], r)
  <2>1. given[j] = ParseHttp(asked[j]) /\ asked[j] \in Managers
    BY <1>3, <1>6
  <2>2. Choice(ParseHttp(asked[j]), r) = Wish(asked[j], r)
    BY <1>7, <2>1, FilterAsWritten
  <2>. QED
    BY <2>1, <2>2
<1>. QED
  BY <1>6, <1>7 DEF ChainRouted, asked, given, chain

\* What is up to date is routed as written.
LEMMA InvRouted == LInv => RoutedAsWritten
<1>1. ASSUME LInv, fresh, NEW x \in Names, Named(x, coll["listeners"]) # {}
      PROVE  LET written == Indexed(coll["listeners"])[x].chains
                 served == snap["listeners"][x].chains
             IN  /\ Len(served) = Len(written)
                 /\ \A i \in DOMAIN written :
                      ChainRouted(HttpFilters(written[i]), HttpManagers(served[i]))
  <2> DEFINE l == Indexed(coll["listeners"])[x]
             served == snap["listeners"][x].chains
  <2>1. l \in Docs("listeners") /\ ~Panics(l) /\ snap["listeners"][x] = Parse("listeners", l)
    BY <1>1, ServedDocument DEF Collections
  <2> HIDE DEF l
  <2>2. served = ParseListener(l).chains
    BY <2>1 DEF Parse
  <2>3. Len(l.chains) \in Nat /\ DOMAIN l.chains = 1..Len(l.chains)
    BY <2>1, RoutingAssumption DEF IsList
  <2>4. /\ DOMAIN served = DOMAIN l.chains
        /\ \A i \in DOMAIN l.chains : served[i] = ParseChain(l.chains[i])
    BY <2>2, ParsedChains
  <2>5. served = [i \in DOMAIN l.chains |-> ParseChain(l.chains[i])]
    BY <2>2 DEF ParseListener, Convert
  <2>6. Len(served) = Len(l.chains)
    BY <2>3, <2>5
  <2>7. \A i \in DOMAIN l.chains :
          ChainRouted(HttpFilters(l.chains[i]), HttpManagers(served[i]))
    BY <2>1, <2>4, ChainAsWritten
  <2>. QED
    BY <2>6, <2>7 DEF l
<1>. QED
  BY <1>1 DEF RoutedAsWritten, ChainRouted

\* Envoy sends a request, and counts it against rate limits, as the documents
\* of the listeners say, wherever these are plain, whenever the snapshot is up
\* to date (parseListener).
THEOREM RoutesAsWritten == Spec => []RoutedAsWritten
<1>. QED
  BY InvRouted, Invariance, PTL
=============================================================================
