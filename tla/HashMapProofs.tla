---------------------------- MODULE HashMapProofs ----------------------------
(***************************************************************************)
(* The map of map.c counts in its chains exactly the keys that probing     *)
(* went past, and therefore implements the contract of map.h, for any      *)
(* keys, hashes, values, addresses and capacities.                         *)
(***************************************************************************)
EXTENDS HashMap, FiniteSetTheorems, WellFoundedInduction, TLAPS

-----------------------------------------------------------------------------
(* Naturals and remainders.                                                *)

\* A set of naturals that is not empty has a least element.
LEMMA LeastNatural ==
  ASSUME NEW T, T \subseteq Nat, T # {}
  PROVE  \E x \in T : \A y \in T : x <= y
<1> DEFINE R == {ss \in Nat \X Nat : ss[1] < ss[2]}
<1>1. IsWellFoundedOn(R, Nat)
  BY NatLessThanWellFounded DEF OpToRel
<1> HIDE DEF R
<1>2. PICK x \in T : \A y \in T : ~ (<<y, x>> \in R)
  BY <1>1, WFMin
<1>3. ASSUME NEW y \in T
      PROVE  x <= y
  <2>1. x \in Nat /\ y \in Nat
    OBVIOUS
  <2>2. y < x => <<y, x>> \in R
    BY <2>1 DEF R
  <2> QED
    BY <1>2, <2>1, <2>2
<1> QED
  BY <1>3

\* Adding a multiple does not change a remainder.
LEMMA SameRemainder ==
  ASSUME NEW m \in Nat, m > 0, NEW q \in Int, NEW x \in - m .. m - 1
  PROVE  (m * q + x) % m = IF x >= 0 THEN x ELSE x + m
<1>1. ASSUME NEW p \in Int, NEW r \in 0 .. m - 1
      PROVE  (m * p + r) % m = r
  OBVIOUS
<1>2. CASE x >= 0
  BY <1>1, <1>2
<1>3. CASE x < 0
  <2>1. m * q + x = m * (q - 1) + (x + m)
    OBVIOUS
  <2>2. (m * (q - 1) + (x + m)) % m = x + m
    <3>1. q - 1 \in Int /\ x + m \in 0 .. m - 1
      BY <1>3
    <3> QED
      BY <1>1, <3>1
  <2> QED
    BY <1>3, <2>1, <2>2
<1> QED
  BY <1>2, <1>3

-----------------------------------------------------------------------------
(* map_alloc: the capacity the code works with.                            *)

\* The loop of get_real_capacity stops, at a number that is large enough.
LEMMA RealCapacity ==
  ASSUME NEW capacity \in Nat
  PROVE  get_real_capacity(capacity) \in Nat /\ get_real_capacity(capacity) >= capacity
<1> DEFINE Step(F, r) == IF r < capacity THEN F[r * 2] ELSE r
           Is(F, n) == /\ F = [r \in n .. 2 * capacity |-> F[r]]
                       /\ \A r \in n .. 2 * capacity : F[r] = Step(F, r)
           Reached(F, n) == \A r \in n .. 2 * capacity : F[r] \in Nat /\ F[r] >= capacity
           Starts == {n \in 1 .. capacity : \E F : Is(F, n) /\ Reached(F, n)}
           doubled == CHOOSE F : F = [r \in 1 .. 2 * capacity |-> Step(F, r)]
<1>1. CASE capacity = 0
  BY <1>1 DEF get_real_capacity
<1>2. CASE capacity # 0
  <2>1. capacity \in Starts
    <3> DEFINE F == [r \in capacity .. 2 * capacity |-> r]
    <3>1. Is(F, capacity) /\ Reached(F, capacity)
      OBVIOUS
    <3>2. capacity \in 1 .. capacity
      BY <1>2
    <3> HIDE DEF F, Is, Reached
    <3>3. \E F0 : Is(F0, capacity) /\ Reached(F0, capacity)
      BY <3>1
    <3> QED
      BY <3>2, <3>3
  <2>2. Starts \subseteq Nat
    OBVIOUS
  <2>3. ASSUME NEW n \in Starts, n # 1
        PROVE  n - 1 \in Starts
    <3>1. PICK F : Is(F, n) /\ Reached(F, n)
      OBVIOUS
    <3> DEFINE G == [r \in n - 1 .. 2 * capacity |-> IF r = n - 1 THEN F[2 * r] ELSE F[r]]
    <3>2. n \in 2 .. capacity
      BY <2>3
    <3>3. ASSUME NEW r \in n - 1 .. 2 * capacity
          PROVE  /\ G[r] = Step(G, r)
                 /\ G[r] \in Nat /\ G[r] >= capacity
      <4>1. CASE r = n - 1
        <5>1. r < capacity /\ r * 2 \in n .. 2 * capacity /\ r * 2 = 2 * r
          BY <3>2, <4>1
        <5>2. G[r] = F[2 * r] /\ G[r * 2] = F[r * 2]
          BY <3>2, <4>1, <5>1
        <5> QED
          BY <3>1, <5>1, <5>2
      <4>2. CASE r # n - 1
        <5>1. r \in n .. 2 * capacity /\ G[r] = F[r]
          BY <3>2, <4>2
        <5>2. r < capacity => G[r * 2] = F[r * 2]
          BY <3>2, <5>1
        <5> QED
          BY <3>1, <5>1, <5>2
      <4> QED
        BY <4>1, <4>2
    <3>4. G = [r \in n - 1 .. 2 * capacity |-> G[r]]
      OBVIOUS
    <3>5. n - 1 \in 1 .. capacity
      BY <3>2
    <3> HIDE DEF G
    <3>6. Is(G, n - 1) /\ Reached(G, n - 1)
      BY <3>3, <3>4
    <3> QED
      BY <3>5, <3>6
  <2>4. PICK m \in Starts : \A n \in Starts : m <= n
    <3> HIDE DEF Starts
    <3> QED
      BY <2>1, <2>2, LeastNatural
  <2>5. m = 1
    <3> SUFFICES ASSUME m # 1 PROVE FALSE
      OBVIOUS
    <3>1. m - 1 \in Starts /\ m \in Nat
      BY <2>3, <2>2
    <3> HIDE DEF Starts
    <3> QED
      BY <2>4, <3>1
  <2>6. PICK F : Is(F, 1) /\ Reached(F, 1)
    BY <2>5
  <2>7. F = [r \in 1 .. 2 * capacity |-> Step(F, r)]
    BY <2>6
  <2>8. doubled = [r \in 1 .. 2 * capacity |-> Step(doubled, r)]
    BY <2>7
  <2>9. get_real_capacity(capacity) = doubled[1]
    BY <1>2 DEF get_real_capacity
  <2>10. \A r \in 1 .. 2 * capacity : doubled[r] = Step(doubled, r)
    BY <2>8
  <2> HIDE DEF doubled
  <2>11. \A r \in 1 .. 2 * capacity : doubled[r] = F[r]
    <3> DEFINE Wrong == {n \in 0 .. 2 * capacity : \E r \in 1 .. 2 * capacity :
                           n = 2 * capacity - r /\ doubled[r] # F[r]}
    <3>1. SUFFICES ASSUME NEW r \in 1 .. 2 * capacity, doubled[r] # F[r]
                   PROVE  FALSE
      OBVIOUS
    <3>2. 2 * capacity - r \in Wrong
      BY <3>1
    <3>3. Wrong \subseteq Nat
      OBVIOUS
    <3>4. PICK n \in Wrong : \A k \in Wrong : n <= k
      <4> HIDE DEF Wrong
      <4> QED
        BY <3>2, <3>3, LeastNatural
    <3>5. PICK q \in 1 .. 2 * capacity : n = 2 * capacity - q /\ doubled[q] # F[q]
      OBVIOUS
    <3>6. q < capacity /\ doubled[q * 2] # F[q * 2]
      BY <2>6, <2>10, <3>5
    <3>7. q * 2 \in 1 .. 2 * capacity /\ 2 * capacity - q * 2 \in 0 .. 2 * capacity
      BY <3>6
    <3>8. 2 * capacity - q * 2 \in Wrong
      BY <3>6, <3>7
    <3>9. 2 * capacity - q * 2 < n
      BY <3>5
    <3> HIDE DEF Wrong
    <3> QED
      BY <3>3, <3>4, <3>8, <3>9
  <2>12. 1 \in 1 .. 2 * capacity
    BY <1>2
  <2>13. F[1] \in Nat /\ F[1] >= capacity /\ doubled[1] = F[1]
    BY <2>6, <2>11, <2>12
  <2> QED
    BY <2>9, <2>13
<1> QED
  BY <1>1, <1>2

-----------------------------------------------------------------------------
(* Probing.                                                                *)

\* The probing of a key takes Distance(key, s) iterations to get to slot s.
LEMMA DistanceFacts ==
  ASSUME Capacity \in Nat, NEW key \in Keys, NEW s \in Slots
  PROVE  /\ Distance(key, s) \in Slots
         /\ loop(Hash[key], Distance(key, s)) = s
<1> DEFINE h == Hash[key]
           b == h % Capacity
           d == Distance(key, s)
<1>1. Capacity > 0 /\ h \in Nat /\ s \in 0 .. Capacity - 1
  BY HashAssumption DEF Slots
<1> HIDE DEF h
<1>2. b \in 0 .. Capacity - 1 /\ \E q \in Int : h = Capacity * q + b
  BY <1>1
<1>3. PICK q \in Int : h = Capacity * q + b
  BY <1>2
<1> DEFINE r == - q
<1>4. r \in Int /\ s - b \in - Capacity .. Capacity - 1 /\ s - h = Capacity * r + (s - b)
  BY <1>1, <1>2, <1>3
<1> HIDE DEF r
<1> HIDE DEF b
<1>5. (s - h) % Capacity = IF s - b >= 0 THEN s - b ELSE s - b + Capacity
  <2> DEFINE x == s - b
  <2>1. x \in - Capacity .. Capacity - 1 /\ s - h = Capacity * r + x
    BY <1>4
  <2> HIDE DEF x
  <2>2. (Capacity * r + x) % Capacity = IF x >= 0 THEN x ELSE x + Capacity
    BY <1>1, <1>4, <2>1, SameRemainder
  <2> QED
    BY <2>1, <2>2 DEF x
<1>6. d = IF s >= b THEN s - b ELSE s - b + Capacity
  BY <1>1, <1>2, <1>5 DEF Distance, h
<1> HIDE DEF d
<1>7. d \in 0 .. Capacity - 1
  BY <1>1, <1>2, <1>6
<1>8. (b + d) % Capacity = s
  BY <1>1, <1>2, <1>6
<1> QED
  BY <1>7, <1>8 DEF Slots, loop, d, b, h

\* Every iteration is at a slot of its own.
LEMMA PlaceFacts ==
  ASSUME Capacity \in Nat, NEW key \in Keys, NEW i \in Slots
  PROVE  /\ loop(Hash[key], i) \in Slots
         /\ Distance(key, loop(Hash[key], i)) = i
<1> DEFINE h == Hash[key]
           b == h % Capacity
           s == loop(h, i)
           d == Distance(key, s)
<1>1. Capacity > 0 /\ h \in Nat /\ i \in 0 .. Capacity - 1
  BY HashAssumption DEF Slots
<1>2. b \in 0 .. Capacity - 1
  BY <1>1
<1>3. s = (b + i) % Capacity
  BY DEF loop
<1> HIDE DEF s, b
<1>4. s \in 0 .. Capacity - 1 /\ (s = b + i \/ s = b + i - Capacity)
  BY <1>1, <1>2, <1>3
<1> HIDE DEF d
<1>5. d \in 0 .. Capacity - 1 /\ (b + d) % Capacity = s
  BY <1>4, DistanceFacts DEF Slots, loop, d, b
<1>6. s = b + d \/ s = b + d - Capacity
  BY <1>1, <1>2, <1>5
<1>7. d = i
  BY <1>1, <1>2, <1>4, <1>5, <1>6
<1> QED
  BY <1>4, <1>7 DEF Slots, s, d

\* The loops over the slots stop at the first iteration that they can.
LEMMA FirstIterationFacts ==
  ASSUME Capacity \in Nat, NEW stops, stops \subseteq Slots
  PROVE  /\ stops = {} => FirstIteration(stops) = Capacity
         /\ stops # {} => /\ FirstIteration(stops) \in stops
                          /\ \A j \in stops : FirstIteration(stops) <= j
<1>1. stops \subseteq Nat
  BY DEF Slots
<1>2. CASE stops = {}
  BY <1>2 DEF FirstIteration
<1>3. CASE stops # {}
  <2>1. \E i \in stops : \A j \in stops : i <= j
    BY <1>1, <1>3, LeastNatural
  <2> QED
    BY <1>3, <2>1 DEF FirstIteration
<1> QED
  BY <1>2, <1>3

\* The slots before the i-th iteration are those that are nearer.
LEMMA PassedFacts ==
  ASSUME Capacity \in Nat, NEW key \in Keys, NEW s \in Slots, NEW i \in 0 .. Capacity
  PROVE  (\E j \in 0 .. i - 1 : s = loop(Hash[key], j)) <=> Distance(key, s) < i
<1>1. ASSUME NEW j \in 0 .. i - 1, s = loop(Hash[key], j)
      PROVE  Distance(key, s) < i
  <2>1. j \in Slots
    BY DEF Slots
  <2> QED
    BY <1>1, <2>1, PlaceFacts
<1>2. ASSUME Distance(key, s) < i
      PROVE  \E j \in 0 .. i - 1 : s = loop(Hash[key], j)
  <2>1. Distance(key, s) \in 0 .. i - 1
    BY <1>2, DistanceFacts DEF Slots
  <2> QED
    BY <2>1, DistanceFacts
<1> QED
  BY <1>1, <1>2

-----------------------------------------------------------------------------
(* The inductive invariant.                                                *)

\* No key is stored twice.
Distinct == \A s, t \in StoredSlots : KeyAt(s) = KeyAt(t) => s = t

\* The hash next to a key is its own: the caller does not change keys that
\* are stored.
HashesKept == \A s \in StoredSlots : items[s].key_hash = Hash[KeyAt(s)]

Inv == ChainsCountPassers /\ Distinct /\ HashesKept

Passers(s) == {t \in StoredSlots : Distance(KeyAt(t), s) < Distance(KeyAt(t), t)}

\* The parts of the invariant the calls use.
LEMMA InvFacts ==
  ASSUME Inv
  PROVE  /\ Capacity \in Nat /\ requested \in Nat /\ requested <= Capacity
         /\ IsFiniteSet(Slots) /\ Cardinality(Slots) = Capacity
         /\ \A s \in Slots : /\ items[s] \in [key_addr : Addresses \cup {NULL},
                                              value : Values \cup {0},
                                              chain : 0 .. Capacity,
                                              key_hash : {Hash[k] : k \in Keys} \cup {0}]
                             /\ items[s].chain = Cardinality(Passers(s))
         /\ \A s \in StoredSlots : /\ s \in Slots /\ KeyAt(s) \in Keys
                                   /\ items[s].key_addr \in Addresses
                                   /\ items[s].key_hash = Hash[KeyAt(s)]
         /\ memory \in [Addresses -> Keys]
<1>1. requested \in Nat
  BY CapacityAssumption DEF Inv, ChainsCountPassers, TypeOK
<1>2. Capacity \in Nat /\ requested <= Capacity
  BY <1>1, RealCapacity DEF Capacity
<1>3. IsFiniteSet(Slots) /\ Cardinality(Slots) = Capacity
  <2>1. IsFiniteSet(0 .. Capacity - 1) /\ Cardinality(0 .. Capacity - 1) = Capacity
    BY <1>2, FS_Interval
  <2> QED
    BY <2>1 DEF Slots
<1>4. \A s \in Slots : items[s].chain = Cardinality(Passers(s))
  BY DEF Inv, ChainsCountPassers, Passers
<1>5. \A s \in Slots : items[s] \in [key_addr : Addresses \cup {NULL},
                                     value : Values \cup {0},
                                     chain : 0 .. Capacity,
                                     key_hash : {Hash[k] : k \in Keys} \cup {0}]
  BY DEF Inv, ChainsCountPassers, TypeOK
<1>6. memory \in [Addresses -> Keys]
  BY DEF Inv, ChainsCountPassers, TypeOK
<1>7. \A s \in StoredSlots : /\ s \in Slots /\ items[s].key_addr \in Addresses
                            /\ KeyAt(s) \in Keys
  BY <1>5, <1>6 DEF StoredSlots, KeyAt
<1>8. \A s \in StoredSlots : items[s].key_hash = Hash[KeyAt(s)]
  BY DEF Inv, HashesKept
<1> QED
  BY <1>1, <1>2, <1>3, <1>4, <1>5, <1>6, <1>7, <1>8

\* The array of items of a new map is empty.
LEMMA InitInv ==
  ASSUME Init
  PROVE  Inv
<1>1. requested \in Nat /\ items = [s \in Slots |-> EmptyItem]
  BY CapacityAssumption DEF Init, Slots, Capacity
<1>2. Capacity \in Nat
  BY <1>1, RealCapacity DEF Capacity
<1>3. EmptyItem \in [key_addr : Addresses \cup {NULL}, value : Values \cup {0},
                     chain : 0 .. Capacity, key_hash : {Hash[k] : k \in Keys} \cup {0}]
  BY <1>2 DEF EmptyItem
<1>4. TypeOK
  BY <1>1, <1>3 DEF Init, TypeOK
<1>5. StoredSlots = {}
  BY <1>1 DEF StoredSlots, EmptyItem
<1>6. \A s \in Slots : Passers(s) = {}
  BY <1>5 DEF Passers
<1>7. \A s \in Slots : items[s].chain = Cardinality(Passers(s))
  BY <1>1, <1>6, FS_EmptySet DEF EmptyItem
<1> QED
  BY <1>4, <1>5, <1>7 DEF Inv, ChainsCountPassers, Distinct, HashesKept, Passers

-----------------------------------------------------------------------------
(* Lookups.                                                                *)

\* A chain is not zero where a stored key went past.
LEMMA PassedChain ==
  ASSUME Inv, NEW s \in Slots, NEW t \in Passers(s)
  PROVE  items[s].chain # 0
<1>1. Passers(s) \subseteq Slots
  BY InvFacts DEF Passers
<1>2. IsFiniteSet(Passers(s))
  BY <1>1, InvFacts, FS_Subset
<1>3. Cardinality(Passers(s)) # 0
  BY <1>2, FS_EmptySet
<1> QED
  BY <1>3, InvFacts

\* The probing of a key sees, at the distance of a slot, that slot.
LEMMA ProbeAtDistance ==
  ASSUME Inv, NEW key \in Keys, NEW s \in Slots
  PROVE  Distance(key, s) \in Slots /\ Probe(key, Distance(key, s)) = items[s]
BY InvFacts, DistanceFacts DEF Probe

\* What a probe that holds the key has found.
LEMMA HoldsFacts ==
  ASSUME Inv, NEW key \in Keys, NEW i \in Slots
  PROVE  Holds(Probe(key, i), key)
           <=> /\ loop(Hash[key], i) \in StoredSlots
               /\ KeyAt(loop(Hash[key], i)) = key
<1> DEFINE s == loop(Hash[key], i)
<1>1. s \in Slots /\ Probe(key, i) = items[s]
  BY InvFacts, PlaceFacts DEF Probe
<1> HIDE DEF s
<1>2. s \in StoredSlots <=> items[s].key_addr # NULL
  BY <1>1 DEF StoredSlots
<1>3. s \in StoredSlots => items[s].key_hash = Hash[KeyAt(s)]
  BY InvFacts
<1> QED
  BY <1>1, <1>2, <1>3 DEF Holds, SameHash, KeyAt, s

\* All loops that look for a stored key stop at it: map_get because the chains
\* before it count it.
LEMMA StoredIsFound ==
  ASSUME Inv, NEW t \in StoredSlots
  PROVE  LET key == KeyAt(t)
         IN  /\ FirstIteration({j \in Slots : Holds(Probe(key, j), key)}) = Distance(key, t)
             /\ FirstIteration({j \in Slots : GetStops(key, j)}) = Distance(key, t)
             /\ Holds(items[t], key)
             /\ key \in Present
<1> DEFINE key == KeyAt(t)
           d == Distance(key, t)
           H == {j \in Slots : Holds(Probe(key, j), key)}
           G == {j \in Slots : GetStops(key, j)}
<1>1. key \in Keys /\ t \in Slots
  BY InvFacts
<1>2. d \in Slots /\ Probe(key, d) = items[t] /\ loop(Hash[key], d) = t
  BY <1>1, ProbeAtDistance, InvFacts, DistanceFacts
<1>3. Holds(items[t], key)
  BY <1>1, <1>2, HoldsFacts
<1>4. d \in H
  BY <1>2, <1>3
<1>5. d \in G
  BY <1>2, <1>3 DEF Holds, GetStops
<1>6. ASSUME NEW j \in H
      PROVE  j = d
  <2>1. j \in Slots /\ Holds(Probe(key, j), key)
    OBVIOUS
  <2>2. loop(Hash[key], j) \in StoredSlots /\ KeyAt(loop(Hash[key], j)) = key
    BY <1>1, <2>1, HoldsFacts
  <2>3. loop(Hash[key], j) = t
    BY <2>2 DEF Inv, Distinct
  <2> QED
    BY <1>1, <2>1, <2>3, InvFacts, PlaceFacts
<1>7. ASSUME NEW j \in G
      PROVE  d <= j
  <2>1. j \in Slots /\ GetStops(key, j)
    OBVIOUS
  <2>2. CASE SameHash(Probe(key, j), key)
    <3>1. Holds(Probe(key, j), key)
      BY <2>1, <2>2 DEF GetStops, Holds
    <3>2. j = d
      BY <1>6, <2>1, <3>1
    <3> QED
      BY <1>2, <3>2, InvFacts DEF Slots
  <2>3. CASE ~ SameHash(Probe(key, j), key)
    <3> DEFINE s == loop(Hash[key], j)
    <3>1. s \in Slots /\ Distance(key, s) = j
      BY <1>1, <2>1, InvFacts, PlaceFacts
    <3>2. items[s].chain = 0
      BY <2>1, <2>3 DEF GetStops, Probe
    <3>3. t \notin Passers(s)
      BY <3>1, <3>2, PassedChain
    <3>4. ~ (j < d)
      BY <3>1, <3>3 DEF Passers
    <3> QED
      BY <1>2, <2>1, <3>4, InvFacts DEF Slots
  <2> QED
    BY <2>2, <2>3
<1>8. key \in Present
  BY DEF Present
<1>9. H \subseteq Slots /\ G \subseteq Slots /\ H # {} /\ G # {} /\ Capacity \in Nat
  BY <1>4, <1>5, InvFacts
<1>10. Slots \subseteq Nat
  BY DEF Slots
<1> HIDE DEF H, G, d
<1>11. FirstIteration(H) \in H
  BY <1>9, FirstIterationFacts
<1>12. FirstIteration(G) \in G /\ FirstIteration(G) <= d
  BY <1>5, <1>9, FirstIterationFacts
<1>13. FirstIteration(H) = d
  BY <1>6, <1>11
<1>14. FirstIteration(G) = d
  <2> DEFINE g == FirstIteration(G)
  <2>1. g \in G /\ g <= d
    BY <1>12
  <2>2. g \in Nat /\ d \in Nat
    BY <1>2, <1>9, <1>10, <2>1
  <2> HIDE DEF g
  <2>3. d <= g
    BY <1>7, <2>1
  <2> QED
    BY <2>1, <2>2, <2>3 DEF g
<1> QED
  BY <1>3, <1>8, <1>13, <1>14 DEF H, G, d

\* map_get does not find a key that is not stored.
LEMMA AbsentIsNotFound ==
  ASSUME Inv, NEW key \in Keys, key \notin Present
  PROVE  LET i == FirstIteration({j \in Slots : GetStops(key, j)})
         IN  ~ (i \in Slots /\ SameHash(Probe(key, i), key))
<1> DEFINE G == {j \in Slots : GetStops(key, j)}
           i == FirstIteration(G)
<1>1. SUFFICES ASSUME i \in Slots, SameHash(Probe(key, i), key)
               PROVE  FALSE
  OBVIOUS
<1>2. G \subseteq Slots /\ Capacity \in Nat /\ Capacity \notin Slots
  BY InvFacts DEF Slots
<1>3. i \in G
  <2> HIDE DEF G
  <2> QED
    BY <1>1, <1>2, FirstIterationFacts
<1>4. Holds(Probe(key, i), key)
  BY <1>1, <1>3 DEF GetStops, Holds
<1> HIDE DEF i
<1>5. loop(Hash[key], i) \in StoredSlots /\ KeyAt(loop(Hash[key], i)) = key
  BY <1>1, <1>4, HoldsFacts
<1> QED
  BY <1>5 DEF Present

\* The stored keys are as many as the slots that store them.
LEMMA PresentCount ==
  ASSUME Inv
  PROVE  /\ IsFiniteSet(Present) /\ IsFiniteSet(StoredSlots)
         /\ Cardinality(Present) = Cardinality(StoredSlots)
<1> DEFINE f == [s \in StoredSlots |-> KeyAt(s)]
<1>1. IsFiniteSet(StoredSlots)
  BY InvFacts, FS_Subset DEF StoredSlots
<1>2. f \in [StoredSlots -> Present]
  BY DEF Present
<1>3. \A s, t \in StoredSlots : f[s] = f[t] => s = t
  BY DEF Inv, Distinct
<1>4. \A k \in Present : \E s \in StoredSlots : f[s] = k
  BY DEF Present
<1> HIDE DEF f
<1>5. f \in Bijection(StoredSlots, Present)
  BY <1>2, <1>3, <1>4 DEF Bijection, Injection, Surjection, IsInjective
<1> QED
  <2>1. ExistsBijection(StoredSlots, Present)
    BY <1>5 DEF ExistsBijection
  <2> QED
    BY <1>1, <2>1, FS_Bijection

\* There is a slot for a new key, as the contract requires space and the
\* capacity was only ever rounded up.
LEMMA SlotForNewKey ==
  ASSUME Inv, NEW key \in Keys, Cardinality(Present) < requested
  PROVE  LET i == FirstIteration({j \in Slots : SetStops(key, j)})
         IN  /\ i \in Slots
             /\ loop(Hash[key], i) \in Slots \ StoredSlots
<1> DEFINE S == {j \in Slots : SetStops(key, j)}
           i == FirstIteration(S)
<1>1. StoredSlots \subseteq Slots
  BY DEF StoredSlots
<1>2. Cardinality(StoredSlots) # Cardinality(Slots)
  BY PresentCount, InvFacts, FS_CardinalityType
<1>3. PICK s \in Slots : s \notin StoredSlots
  <2>1. StoredSlots # Slots
    BY <1>2
  <2> QED
    BY <1>1, <2>1
<1>4. Distance(key, s) \in S
  BY <1>3, ProbeAtDistance DEF StoredSlots, SetStops
<1>5. S \subseteq Slots /\ S # {} /\ Capacity \in Nat
  BY <1>4, InvFacts
<1>6. i \in S
  <2> HIDE DEF S
  <2> QED
    BY <1>5, FirstIterationFacts
<1>7. i \in Slots /\ items[loop(Hash[key], i)].key_addr = NULL
  BY <1>6 DEF SetStops, Probe
<1> HIDE DEF i
<1>8. loop(Hash[key], i) \in Slots
  BY <1>5, <1>7, PlaceFacts
<1> QED
  BY <1>7, <1>8 DEF StoredSlots, i

-----------------------------------------------------------------------------
(* Updates.                                                                *)

\* An item is its four fields.
LEMMA ItemFields ==
  ASSUME Inv, NEW s \in Slots
  PROVE  /\ items[s] = [key_addr |-> items[s].key_addr, value |-> items[s].value,
                        chain |-> items[s].chain, key_hash |-> items[s].key_hash]
         /\ items[s].chain \in Nat
<1>1. items[s] \in [key_addr : Addresses \cup {NULL}, value : Values \cup {0},
                   chain : 0 .. Capacity, key_hash : {Hash[k] : k \in Keys} \cup {0}]
  BY InvFacts
<1> QED
  BY <1>1

\* What map_set writes to store a key in slot p.
StoredIn(p, new, key, a, v) ==
  /\ new = [s \in Slots |-> new[s]]
  /\ new[p] = [key_addr |-> a, value |-> v, chain |-> items[p].chain,
               key_hash |-> Hash[key]]
  /\ \A s \in Slots \ {p} :
       new[s] = [key_addr |-> items[s].key_addr, value |-> items[s].value,
                 chain |-> IF Distance(key, s) < Distance(key, p)
                           THEN items[s].chain + 1 ELSE items[s].chain,
                 key_hash |-> items[s].key_hash]

\* The slot map_set stores in was empty, and nothing else but chains changes.
LEMMA SetFacts ==
  ASSUME Inv, NEW a \in Addresses, NEW v \in Values,
         Cardinality(Present) < requested, NEW new, new = map_set(memory[a], a, v)
  PROVE  \E p \in Slots \ StoredSlots : StoredIn(p, new, memory[a], a, v)
<1> DEFINE key == memory[a]
           i == FirstIteration({j \in Slots : SetStops(key, j)})
           p == loop(Hash[key], i)
           passed == AddToChains(key, i, 1)
<1>1. key \in Keys /\ Capacity \in Nat
  BY InvFacts
<1>2. i \in Slots /\ p \in Slots \ StoredSlots
  BY <1>1, SlotForNewKey
<1>3. Distance(key, p) = i
  BY <1>1, <1>2, PlaceFacts
<1>4. i \in 0 .. Capacity
  BY <1>1, <1>2 DEF Slots
<1>5. \A s \in Slots : passed[s] = IF Distance(key, s) < i
                                  THEN [items[s] EXCEPT !.chain = @ + 1]
                                  ELSE items[s]
  BY <1>1, <1>4, PassedFacts DEF AddToChains
<1>6. passed = [s \in Slots |-> passed[s]]
  BY DEF AddToChains
<1>7. new = [passed EXCEPT ![p] = Stored(@, key, a, v)]
  BY <1>2 DEF map_set
<1> HIDE DEF passed, key, p, i
<1>8. passed[p] = items[p]
  <2>1. ~ (Distance(key, p) < i)
    BY <1>1, <1>3, <1>4
  <2> QED
    BY <1>2, <1>5, <2>1
<1>9. new = [s \in Slots |-> new[s]] /\ new[p] = Stored(items[p], key, a, v)
      /\ \A s \in Slots \ {p} : new[s] = passed[s]
  BY <1>2, <1>6, <1>7, <1>8
<1>10. Stored(items[p], key, a, v)
         = [key_addr |-> a, value |-> v, chain |-> items[p].chain, key_hash |-> Hash[key]]
  BY DEF Stored
<1>11. ASSUME NEW s \in Slots \ {p}
       PROVE  new[s] = [key_addr |-> items[s].key_addr, value |-> items[s].value,
                        chain |-> IF Distance(key, s) < i
                                  THEN items[s].chain + 1 ELSE items[s].chain,
                        key_hash |-> items[s].key_hash]
  BY <1>5, <1>9, ItemFields
<1>12. StoredIn(p, new, key, a, v)
  BY <1>3, <1>9, <1>10, <1>11 DEF StoredIn
<1> QED
  BY <1>12, <1>2 DEF key

\* What map_remove leaves in the other slots: the chains that the key's probing
\* went past lose one.
RestAfterRemoval(p, new) ==
  \A s \in Slots \ {p} :
    new[s] = [key_addr |-> items[s].key_addr, value |-> items[s].value,
              chain |-> IF Distance(KeyAt(p), s) < Distance(KeyAt(p), p)
                        THEN items[s].chain - 1 ELSE items[s].chain,
              key_hash |-> items[s].key_hash]

\* What map_remove writes.
LEMMA RemoveFacts ==
  ASSUME Inv, NEW p \in StoredSlots, NEW new, new = map_remove(KeyAt(p))
  PROVE  /\ p \in Slots
         /\ new = [s \in Slots |-> new[s]]
         /\ new[p] = [key_addr |-> NULL, value |-> items[p].value,
                      chain |-> items[p].chain, key_hash |-> items[p].key_hash]
         /\ RestAfterRemoval(p, new)
<1> DEFINE key == KeyAt(p)
           i == Distance(key, p)
           passed == AddToChains(key, i, -1)
<1>1. key \in Keys /\ Capacity \in Nat /\ p \in Slots
  BY InvFacts
<1>2. i \in Slots /\ loop(Hash[key], i) = p
  BY <1>1, DistanceFacts
<1>3. i = FirstIteration({j \in Slots : Holds(Probe(key, j), key)})
  BY StoredIsFound
<1>4. i \in 0 .. Capacity
  BY <1>1, <1>2 DEF Slots
<1>5. \A s \in Slots : passed[s] = IF Distance(key, s) < i
                                  THEN [items[s] EXCEPT !.chain = @ + (-1)]
                                  ELSE items[s]
  BY <1>1, <1>4, PassedFacts DEF AddToChains
<1>6. passed = [s \in Slots |-> passed[s]]
  BY DEF AddToChains
<1>7. new = [passed EXCEPT ![p] = Removed(@)]
  BY <1>2, <1>3 DEF map_remove
<1> HIDE DEF passed
<1>8. passed[p] = items[p]
  <2>1. ~ (i < i)
    BY <1>1, <1>4
  <2> QED
    BY <1>1, <1>5, <2>1
<1>9. new = [s \in Slots |-> new[s]] /\ new[p] = Removed(items[p])
      /\ \A s \in Slots \ {p} : new[s] = passed[s]
  BY <1>1, <1>6, <1>7, <1>8
<1>11. ASSUME NEW s \in Slots \ {p}
       PROVE  new[s] = [key_addr |-> items[s].key_addr, value |-> items[s].value,
                        chain |-> IF Distance(key, s) < i
                                  THEN items[s].chain - 1 ELSE items[s].chain,
                        key_hash |-> items[s].key_hash]
  BY <1>5, <1>9, ItemFields
<1> QED
  BY <1>1, <1>9, <1>11, ItemFields DEF Removed, RestAfterRemoval

-----------------------------------------------------------------------------
(* The calls keep the invariant.                                           *)

\* A set of slots is no larger than the map.
LEMMA SlotsCount ==
  ASSUME Inv, NEW S, S \subseteq Slots
  PROVE  IsFiniteSet(S) /\ Cardinality(S) \in 0 .. Capacity
<1>1. IsFiniteSet(S) /\ Cardinality(S) <= Cardinality(Slots)
  BY InvFacts, FS_Subset
<1>2. Cardinality(S) \in Nat
  BY <1>1, FS_CardinalityType
<1> QED
  BY <1>1, <1>2, InvFacts

\* The slots and distances of a map do not change.
LEMMA SameSlots ==
  ASSUME UNCHANGED requested
  PROVE  /\ Capacity' = Capacity /\ Slots' = Slots
         /\ \A s : Passers(s)' = {t \in StoredSlots' :
                       Distance(KeyAt(t)', s) < Distance(KeyAt(t)', t)}
<1>1. Capacity' = Capacity
  BY DEF Capacity
<1> QED
  BY <1>1 DEF Slots, Passers, Distance

\* The type and the counts of the items after a call.
LEMMA InvIntro ==
  ASSUME Inv, UNCHANGED <<requested, memory>>,
         NEW new, items' = [s \in Slots |-> new[s]],
         \A s \in Slots :
           /\ new[s] = [key_addr |-> new[s].key_addr, value |-> new[s].value,
                        chain |-> new[s].chain, key_hash |-> new[s].key_hash]
           /\ new[s].key_addr \in Addresses \cup {NULL}
           /\ new[s].value \in Values \cup {0}
           /\ new[s].key_hash \in {Hash[k] : k \in Keys} \cup {0}
           /\ new[s].chain = Cardinality(Passers(s)'),
         Distinct', HashesKept'
  PROVE  Inv'
<1>1. Capacity' = Capacity /\ Slots' = Slots
  BY SameSlots
<1>2. \A s : Passers(s)' \subseteq Slots
  BY <1>1 DEF Passers, StoredSlots
<1>3. \A s : Cardinality(Passers(s)') \in 0 .. Capacity
  BY <1>2, SlotsCount
<1>4. \A s \in Slots : new[s] \in [key_addr : Addresses \cup {NULL},
                                   value : Values \cup {0},
                                   chain : 0 .. Capacity,
                                   key_hash : {Hash[k] : k \in Keys} \cup {0}]
  <2> SUFFICES ASSUME NEW s \in Slots
               PROVE  new[s] \in [key_addr : Addresses \cup {NULL},
                                  value : Values \cup {0}, chain : 0 .. Capacity,
                                  key_hash : {Hash[k] : k \in Keys} \cup {0}]
    OBVIOUS
  <2> DEFINE A == Addresses \cup {NULL}
             V == Values \cup {0}
             H == {Hash[k] : k \in Keys} \cup {0}
  <2>1. /\ new[s].chain \in 0 .. Capacity /\ new[s].key_addr \in A
        /\ new[s].value \in V /\ new[s].key_hash \in H
        /\ new[s] = [key_addr |-> new[s].key_addr, value |-> new[s].value,
                     chain |-> new[s].chain, key_hash |-> new[s].key_hash]
    BY <1>3
  <2> HIDE DEF A, V, H
  <2>2. new[s] \in [key_addr : A, value : V, chain : 0 .. Capacity, key_hash : H]
    BY <2>1
  <2> QED
    BY <2>2 DEF A, V, H
<1>5. TypeOK'
  BY <1>1, <1>4 DEF Inv, ChainsCountPassers, TypeOK
<1>6. ChainsCountPassers'
  BY <1>1, <1>5 DEF ChainsCountPassers, Passers
<1> QED
  BY <1>6 DEF Inv

\* Storing a key changes the keys of no other slot.
LEMMA SetEffect ==
  ASSUME Inv, NEW a \in Addresses, NEW v, NEW p \in Slots \ StoredSlots,
         StoredIn(p, items', memory[a], a, v), UNCHANGED <<requested, memory>>
  PROVE  /\ StoredSlots' = StoredSlots \cup {p}
         /\ KeyAt(p)' = memory[a] /\ items'[p].key_addr = a /\ items'[p].value = v
         /\ \A t \in StoredSlots : /\ t # p /\ t \in Slots
                                   /\ KeyAt(t)' = KeyAt(t)
                                   /\ items'[t].key_addr = items[t].key_addr
                                   /\ items'[t].value = items[t].value
<1>1. StoredSlots' = StoredSlots \cup {p}
  BY SameSlots, NullAssumption DEF StoredSlots, StoredIn
<1>2. /\ KeyAt(p)' = memory[a] /\ items'[p].key_addr = a /\ items'[p].value = v
  BY DEF KeyAt, StoredIn
<1>3. ASSUME NEW t \in StoredSlots
      PROVE  /\ t # p /\ t \in Slots
             /\ items'[t].key_addr = items[t].key_addr
             /\ items'[t].value = items[t].value
  BY InvFacts DEF StoredIn
<1>4. \A t \in StoredSlots : KeyAt(t)' = KeyAt(t)
  BY <1>3 DEF KeyAt
<1> QED
  BY <1>1, <1>2, <1>3, <1>4

\* Removing a key changes the keys of no other slot.
LEMMA RemoveEffect ==
  ASSUME Inv, NEW p \in StoredSlots,
         items' = map_remove(KeyAt(p)), UNCHANGED <<requested, memory>>
  PROVE  /\ StoredSlots' = StoredSlots \ {p}
         /\ \A t \in StoredSlots \ {p} : /\ t \in Slots
                                         /\ KeyAt(t)' = KeyAt(t)
                                         /\ items'[t].key_addr = items[t].key_addr
                                         /\ items'[t].value = items[t].value
<1>1. /\ p \in Slots /\ items'[p].key_addr = NULL
      /\ \A s \in Slots \ {p} : /\ items'[s].key_addr = items[s].key_addr
                               /\ items'[s].value = items[s].value
  <2>1. PICK new : new = items'
    OBVIOUS
  <2>2. /\ p \in Slots
        /\ new[p] = [key_addr |-> NULL, value |-> items[p].value,
                     chain |-> items[p].chain, key_hash |-> items[p].key_hash]
    BY <2>1, RemoveFacts
  <2>3. ASSUME NEW s \in Slots \ {p}
        PROVE  new[s].key_addr = items[s].key_addr /\ new[s].value = items[s].value
    <3> DEFINE chain == IF Distance(KeyAt(p), s) < Distance(KeyAt(p), p)
                        THEN items[s].chain - 1 ELSE items[s].chain
    <3>0. RestAfterRemoval(p, new)
      BY <2>1, RemoveFacts
    <3>1. new[s] = [key_addr |-> items[s].key_addr, value |-> items[s].value,
                    chain |-> chain, key_hash |-> items[s].key_hash]
      BY <3>0 DEF RestAfterRemoval
    <3> HIDE DEF chain
    <3> QED
      BY <3>1
  <2>4. new[p].key_addr = NULL
    BY <2>2
  <2> QED
    BY <2>1, <2>2, <2>3, <2>4
<1>2. StoredSlots' = StoredSlots \ {p}
  BY <1>1, SameSlots DEF StoredSlots
<1>3. ASSUME NEW t \in StoredSlots \ {p}
      PROVE  /\ t \in Slots
             /\ items'[t].key_addr = items[t].key_addr
             /\ items'[t].value = items[t].value
  BY <1>1, InvFacts
<1>4. \A t \in StoredSlots \ {p} : KeyAt(t)' = KeyAt(t)
  BY <1>3 DEF KeyAt
<1> QED
  BY <1>2, <1>3, <1>4

\* map_set: the slot that gets the key is counted where its probing went past.
LEMMA SetKeeps ==
  ASSUME Inv, NEW a \in Addresses, NEW v \in Values,
         Cardinality(Present) < requested, memory[a] \notin Present,
         items' = map_set(memory[a], a, v), UNCHANGED <<requested, memory>>
  PROVE  Inv'
<1> DEFINE key == memory[a]
<1>0. PICK new : new = map_set(memory[a], a, v)
  OBVIOUS
<1>1. PICK p \in Slots \ StoredSlots : StoredIn(p, new, key, a, v)
  BY <1>0, SetFacts
<1>2. key \in Keys /\ key \notin Present /\ items' = new /\ a # NULL /\ memory'[a] = key
  BY <1>0, InvFacts, NullAssumption
<1> HIDE DEF key
<1> DEFINE i == Distance(key, p)
<1>3. /\ StoredSlots' = StoredSlots \cup {p}
      /\ KeyAt(p)' = key
      /\ \A t \in StoredSlots : KeyAt(t)' = KeyAt(t) /\ t # p /\ t \in Slots
  BY <1>1, <1>2, SetEffect DEF key
<1>6. Distinct'
  <2>1. \A t \in StoredSlots : KeyAt(t) # key
    BY <1>2 DEF Present
  <2>2. \A s, t \in StoredSlots : KeyAt(s) = KeyAt(t) => s = t
    BY DEF Inv, Distinct
  <2> QED
    BY <1>3, <2>1, <2>2 DEF Distinct
<1>7. HashesKept'
  <2>1. items'[p].key_hash = Hash[key]
    BY <1>1, <1>2 DEF StoredIn
  <2>2. ASSUME NEW t \in StoredSlots
        PROVE  items'[t].key_hash = Hash[KeyAt(t)]
    <3>1. t \in Slots \ {p} /\ items[t].key_hash = Hash[KeyAt(t)]
      BY <1>3, InvFacts
    <3> QED
      BY <1>1, <1>2, <3>1 DEF StoredIn
  <2> QED
    BY <1>3, <2>1, <2>2 DEF HashesKept
<1>8. ASSUME NEW s \in Slots
      PROVE  Passers(s)' = IF Distance(key, s) < i THEN Passers(s) \cup {p} ELSE Passers(s)
  <2>1. Passers(s)' = {t \in StoredSlots \cup {p} :
                         Distance(KeyAt(t)', s) < Distance(KeyAt(t)', t)}
    BY <1>3, SameSlots
  <2>2. \A t \in StoredSlots : t \in Passers(s)' <=> t \in Passers(s)
    BY <1>3, <2>1 DEF Passers
  <2>3. p \in Passers(s)' <=> Distance(key, s) < i
    BY <1>1, <1>3, <2>1
  <2>4. Passers(s) \subseteq StoredSlots /\ Passers(s)' \subseteq StoredSlots \cup {p}
    BY <2>1 DEF Passers
  <2>5. CASE Distance(key, s) < i
    BY <1>1, <2>2, <2>3, <2>4, <2>5
  <2>6. CASE ~ (Distance(key, s) < i)
    BY <1>1, <2>2, <2>3, <2>4, <2>6
  <2> QED
    BY <2>5, <2>6
<1>9. ASSUME NEW s \in Slots
      PROVE  /\ new[s] = [key_addr |-> new[s].key_addr, value |-> new[s].value,
                          chain |-> new[s].chain, key_hash |-> new[s].key_hash]
             /\ new[s].key_addr \in Addresses \cup {NULL}
             /\ new[s].value \in Values \cup {0}
             /\ new[s].key_hash \in {Hash[k] : k \in Keys} \cup {0}
             /\ new[s].chain = Cardinality(Passers(s)')
  <2>1. /\ items[s].chain = Cardinality(Passers(s))
        /\ Passers(s) \subseteq Slots \ {p}
        /\ items[s] \in [key_addr : Addresses \cup {NULL}, value : Values \cup {0},
                         chain : 0 .. Capacity,
                         key_hash : {Hash[k] : k \in Keys} \cup {0}]
    BY <1>1, InvFacts DEF Passers
  <2>2. IsFiniteSet(Passers(s))
    BY <2>1, SlotsCount
  <2>3. Cardinality(Passers(s) \cup {p}) = Cardinality(Passers(s)) + 1
    BY <2>1, <2>2, FS_AddElement
  <2>4. new[s].chain = Cardinality(Passers(s)')
    <3>1. CASE s = p
      <4>1. ~ (Distance(key, s) < i)
        BY <1>1, <3>1, InvFacts, <1>2, DistanceFacts DEF Slots
      <4>2. new[s].chain = items[s].chain
        BY <1>1, <3>1 DEF StoredIn
      <4> QED
        BY <1>8, <2>1, <4>1, <4>2
    <3>2. CASE s # p
      <4>1. new[s].chain = IF Distance(key, s) < i THEN items[s].chain + 1
                                                   ELSE items[s].chain
        BY <1>1, <3>2 DEF StoredIn
      <4> QED
        BY <1>8, <2>1, <2>3, <4>1
    <3> QED
      BY <3>1, <3>2
  <2>5. /\ new[s] = [key_addr |-> new[s].key_addr, value |-> new[s].value,
                     chain |-> new[s].chain, key_hash |-> new[s].key_hash]
        /\ new[s].key_addr \in Addresses \cup {NULL}
        /\ new[s].value \in Values \cup {0}
        /\ new[s].key_hash \in {Hash[k] : k \in Keys} \cup {0}
    <3>1. CASE s = p
      BY <1>1, <1>2, <3>1 DEF StoredIn
    <3>2. CASE s # p
      BY <1>1, <2>1, <3>2 DEF StoredIn
    <3> QED
      BY <3>1, <3>2
  <2> QED
    BY <2>4, <2>5
<1>10. items' = [s \in Slots |-> new[s]]
  BY <1>1, <1>2 DEF StoredIn
<1> QED
  BY <1>6, <1>7, <1>9, <1>10, InvIntro

\* map_remove: the slot that loses its key is no longer counted anywhere.
LEMMA RemoveKeeps ==
  ASSUME Inv, NEW p \in StoredSlots,
         items' = map_remove(KeyAt(p)), UNCHANGED <<requested, memory>>
  PROVE  Inv'
<1> DEFINE key == KeyAt(p)
           i == Distance(key, p)
           new == map_remove(key)
<1>1. /\ p \in Slots
      /\ new = [s \in Slots |-> new[s]]
      /\ new[p] = [key_addr |-> NULL, value |-> items[p].value,
                   chain |-> items[p].chain, key_hash |-> items[p].key_hash]
      /\ \A s \in Slots \ {p} :
           new[s] = [key_addr |-> items[s].key_addr, value |-> items[s].value,
                     chain |-> IF Distance(key, s) < i
                               THEN items[s].chain - 1 ELSE items[s].chain,
                     key_hash |-> items[s].key_hash]
  BY RemoveFacts DEF RestAfterRemoval
<1>2. key \in Keys /\ items' = new /\ i \in Slots
  BY <1>1, InvFacts, DistanceFacts
<1> HIDE DEF new
<1>3. /\ StoredSlots' = StoredSlots \ {p}
      /\ \A t \in StoredSlots \ {p} : KeyAt(t)' = KeyAt(t) /\ t \in Slots
  BY RemoveEffect
<1>6. Distinct'
  <2>2. \A s, t \in StoredSlots : KeyAt(s) = KeyAt(t) => s = t
    BY DEF Inv, Distinct
  <2> QED
    BY <1>3, <2>2 DEF Distinct
<1>7. HashesKept'
  BY <1>1, <1>2, <1>3, InvFacts DEF HashesKept
<1>8. ASSUME NEW s \in Slots
      PROVE  /\ Passers(s)' = Passers(s) \ {p}
             /\ p \in Passers(s) <=> Distance(key, s) < i
  <2>1. Passers(s)' = {t \in StoredSlots \ {p} :
                         Distance(KeyAt(t)', s) < Distance(KeyAt(t)', t)}
    BY <1>3, SameSlots
  <2>2. Passers(s)' = Passers(s) \ {p}
    BY <1>3, <2>1 DEF Passers
  <2> QED
    BY <2>2 DEF Passers
<1> HIDE DEF i, key
<1>9. ASSUME NEW s \in Slots
      PROVE  /\ new[s] = [key_addr |-> new[s].key_addr, value |-> new[s].value,
                          chain |-> new[s].chain, key_hash |-> new[s].key_hash]
             /\ new[s].key_addr \in Addresses \cup {NULL}
             /\ new[s].value \in Values \cup {0}
             /\ new[s].key_hash \in {Hash[k] : k \in Keys} \cup {0}
             /\ new[s].chain = Cardinality(Passers(s)')
  <2>1. /\ items[s].chain = Cardinality(Passers(s))
        /\ Passers(s) \subseteq Slots
        /\ items[s] \in [key_addr : Addresses \cup {NULL}, value : Values \cup {0},
                         chain : 0 .. Capacity,
                         key_hash : {Hash[k] : k \in Keys} \cup {0}]
    BY InvFacts DEF Passers
  <2>2. IsFiniteSet(Passers(s))
    BY <2>1, SlotsCount
  <2>3. Cardinality(Passers(s) \ {p}) = IF p \in Passers(s) THEN Cardinality(Passers(s)) - 1
                                                          ELSE Cardinality(Passers(s))
    BY <2>2, FS_RemoveElement
  <2>4. new[s].chain = Cardinality(Passers(s)')
    <3>1. CASE s = p
      <4>1. ~ (Distance(key, s) < i)
        BY <1>2, <3>1, InvFacts DEF Slots, i
      <4>2. new[s].chain = items[s].chain
        BY <1>1, <3>1
      <4> QED
        BY <1>8, <2>1, <2>3, <4>1, <4>2
    <3>2. CASE s # p
      <4>1. new[s].chain = IF Distance(key, s) < i THEN items[s].chain - 1
                                                   ELSE items[s].chain
        BY <1>1, <3>2
      <4> QED
        BY <1>8, <2>1, <2>3, <4>1
    <3> QED
      BY <3>1, <3>2
  <2>5. /\ new[s] = [key_addr |-> new[s].key_addr, value |-> new[s].value,
                     chain |-> new[s].chain, key_hash |-> new[s].key_hash]
        /\ new[s].key_addr \in Addresses \cup {NULL}
        /\ new[s].value \in Values \cup {0}
        /\ new[s].key_hash \in {Hash[k] : k \in Keys} \cup {0}
    <3>1. CASE s = p
      BY <1>1, <2>1, <3>1
    <3>2. CASE s # p
      BY <1>1, <2>1, <3>2
    <3> QED
      BY <3>1, <3>2
  <2> QED
    BY <2>4, <2>5
<1>10. items' = [s \in Slots |-> new[s]]
  BY <1>1, <1>2
<1> QED
  BY <1>6, <1>7, <1>9, <1>10, InvIntro

\* The caller writes where no stored key is.
LEMMA WriteKeeps ==
  ASSUME Inv, NEW a \in Addresses, NEW k \in Keys,
         \A t \in StoredSlots : items[t].key_addr # a,
         memory' = [memory EXCEPT ![a] = k], UNCHANGED <<items, requested>>
  PROVE  Inv' /\ StoredSlots' = StoredSlots /\ \A t \in StoredSlots : KeyAt(t)' = KeyAt(t)
<1>1. Capacity' = Capacity /\ Slots' = Slots
  BY SameSlots
<1>2. StoredSlots' = StoredSlots
  BY <1>1 DEF StoredSlots
<1>3. \A t \in StoredSlots : KeyAt(t)' = KeyAt(t)
  BY InvFacts DEF KeyAt
<1>4. \A s : Passers(s)' = Passers(s)
  <2>1. \A s : Passers(s)' = {t \in StoredSlots :
                  Distance(KeyAt(t)', s) < Distance(KeyAt(t)', t)}
    BY <1>2, SameSlots
  <2> QED
    BY <1>3, <2>1 DEF Passers
<1>5. TypeOK'
  BY <1>1, InvFacts DEF Inv, ChainsCountPassers, TypeOK
<1>6. ChainsCountPassers'
  <2>1. \A s \in Slots : items[s].chain = Cardinality(Passers(s)')
    BY <1>4, InvFacts
  <2> QED
    BY <1>1, <1>5, <2>1 DEF ChainsCountPassers, Passers
<1>7. Distinct' /\ HashesKept'
  BY <1>2, <1>3 DEF Inv, Distinct, HashesKept
<1> QED
  BY <1>2, <1>3, <1>6, <1>7 DEF Inv

-----------------------------------------------------------------------------
(* The theorems.                                                           *)

\* The ghost maps, slot by slot.
LEMMA GhostFacts ==
  ASSUME Inv
  PROVE  /\ DOMAIN GhostValues = Present /\ DOMAIN GhostAddrs = Present
         /\ \A t \in StoredSlots : /\ KeyAt(t) \in Present
                                   /\ GhostValues[KeyAt(t)] = items[t].value
                                   /\ GhostAddrs[KeyAt(t)] = items[t].key_addr
<1>1. \A t \in StoredSlots : KeyAt(t) \in Present /\ SlotOf(KeyAt(t)) = t
  BY DEF Inv, Distinct, Present, SlotOf
<1> QED
  BY <1>1 DEF GhostValues, GhostAddrs

\* The same after a call.
LEMMA GhostFactsNext ==
  ASSUME Inv'
  PROVE  /\ GhostValues' = [k \in Present' |-> GhostValues'[k]]
         /\ GhostAddrs' = [k \in Present' |-> GhostAddrs'[k]]
         /\ \A t \in StoredSlots' : \A k : k = KeyAt(t)' =>
              /\ k \in Present'
              /\ GhostValues'[k] = items'[t].value
              /\ GhostAddrs'[k] = items'[t].key_addr
<1>1. \A t \in StoredSlots' : \A k : k = KeyAt(t)' => k \in Present' /\ SlotOf(k)' = t
  BY DEF Inv, Distinct, Present, SlotOf
<1> QED
  BY <1>1 DEF GhostValues, GhostAddrs

\* The addresses the map owns are those in its items.
LEMMA OwnedFacts ==
  ASSUME Inv
  PROVE  Contract!Owned = {items[t].key_addr : t \in StoredSlots}
<1>1. Contract!Owned = {GhostAddrs[k] : k \in Present}
  BY GhostFacts DEF Contract!Owned, Contract!Present
<1>2. \A k \in Present : \E t \in StoredSlots : k = KeyAt(t)
  BY DEF Present
<1>3. \A t \in StoredSlots : KeyAt(t) \in Present /\ GhostAddrs[KeyAt(t)] = items[t].key_addr
  BY GhostFacts
<1> QED
  BY <1>1, <1>2, <1>3

\* Both modules count alike.
LEMMA SameCardinality == \A S : Contract!Cardinality(S) = Cardinality(S)
BY DEF Contract!Cardinality, Cardinality

\* The preconditions of map.h, in terms of slots.
LEMMA CanFacts ==
  ASSUME Inv, NEW a \in Addresses
  PROVE  /\ Contract!CanSet(a) <=> Cardinality(Present) < requested /\ memory[a] \notin Present
         /\ Contract!CanRemove(a) <=> \E p \in StoredSlots : KeyAt(p) = memory[a]
                                                          /\ items[p].key_addr = a
<1>1. Contract!Present = Present
  BY GhostFacts DEF Contract!Present
<1>2. Contract!CanSet(a) <=> Cardinality(Present) < requested /\ memory[a] \notin Present
  BY <1>1, SameCardinality DEF Contract!CanSet
<1>3. \A k \in Present : \E t \in StoredSlots : k = KeyAt(t)
  BY DEF Present
<1>4. Contract!CanRemove(a) <=> \E p \in StoredSlots : KeyAt(p) = memory[a]
                                                     /\ items[p].key_addr = a
  BY <1>1, <1>3, GhostFacts DEF Contract!CanRemove
<1> QED
  BY <1>2, <1>4

\* Every call keeps the invariant.
LEMMA NextKeeps ==
  ASSUME Inv, Next
  PROVE  Inv'
<1>1. PICK a \in Addresses :
        \/ Get(a)
        \/ \E v \in Values : SetKey(a, v)
        \/ RemoveKey(a)
        \/ \E k \in Keys : Write(a, k)
  BY DEF Next
<1>2. CASE Get(a)
  BY <1>2 DEF Get, Inv, ChainsCountPassers, TypeOK, Distinct, HashesKept,
              StoredSlots, Slots, Capacity, KeyAt, Distance
<1>3. ASSUME NEW v \in Values, SetKey(a, v)
      PROVE  Inv'
  BY <1>3, CanFacts, SetKeeps DEF SetKey
<1>4. CASE RemoveKey(a)
  BY <1>4, CanFacts, RemoveKeeps DEF RemoveKey
<1>5. ASSUME NEW k \in Keys, Write(a, k)
      PROVE  Inv'
  BY <1>5, OwnedFacts, WriteKeeps DEF Write
<1> QED
  BY <1>1, <1>2, <1>3, <1>4, <1>5

LEMMA InvAlways == Spec => []Inv
<1>1. Init => Inv
  BY InitInv
<1>2. Inv /\ [Next]_vars => Inv'
  <2>1. CASE UNCHANGED vars
    BY <2>1 DEF vars, Inv, ChainsCountPassers, TypeOK, Distinct, HashesKept,
                StoredSlots, Slots, Capacity, KeyAt, Distance
  <2> QED
    BY <2>1, NextKeeps
<1> QED
  BY <1>1, <1>2, PTL DEF Spec

\* Every chain counts exactly the stored keys whose probing goes past its
\* slot, and stays within the capacity, whatever was stored and removed.
THEOREM MapChainsCountPassers == Spec => []ChainsCountPassers
<1>1. Inv => ChainsCountPassers
  BY DEF Inv
<1> QED
  BY <1>1, InvAlways, PTL

-----------------------------------------------------------------------------
(* The map implements its contract.                                        *)

LEMMA InitRefines ==
  ASSUME Init
  PROVE  Contract!Init
<1>1. StoredSlots = {}
  BY DEF Init, StoredSlots, Slots, Capacity, EmptyItem
<1>2. Present = {}
  BY <1>1 DEF Present
<1>3. GhostValues = << >> /\ GhostAddrs = << >>
  BY <1>2 DEF GhostValues, GhostAddrs
<1> QED
  BY <1>3 DEF Init, Contract!Init

\* map_get returns what the ghost map has for the key.
LEMMA GetRefines ==
  ASSUME Inv, NEW a \in Addresses, Get(a)
  PROVE  Contract!Get(a)
<1> DEFINE key == memory[a]
           i == FirstIteration({j \in Slots : GetStops(key, j)})
<1>1. key \in Keys
  BY InvFacts
<1>2. Contract!Present = Present
  BY GhostFacts DEF Contract!Present
<1>3. UNCHANGED <<GhostValues, GhostAddrs, requested, memory>>
  BY DEF Get, GhostValues, GhostAddrs, Present, SlotOf, StoredSlots, KeyAt, Slots, Capacity
<1>4. ret' = map_get(key, a)
  BY DEF Get
<1>5. CASE key \in Present
  <2>1. PICK t \in StoredSlots : key = KeyAt(t)
    BY <1>5 DEF Present
  <2>2. i = Distance(key, t) /\ Holds(items[t], key)
    BY <2>1, StoredIsFound
  <2>3. t \in Slots
    BY InvFacts
  <2>4. i \in Slots /\ Probe(key, i) = items[t]
    BY <1>1, <2>2, <2>3, ProbeAtDistance
  <2>5. items[t].value = GhostValues[key]
    BY <2>1, GhostFacts
  <2>6. map_get(key, a) = [op |-> "map_get", addr |-> a, result |-> TRUE,
                           value |-> GhostValues[key]]
    BY <2>2, <2>4, <2>5 DEF map_get, Holds
  <2> QED
    BY <1>2, <1>3, <1>4, <1>5, <2>6 DEF Contract!Get
<1>6. CASE key \notin Present
  <2>1. ~ (i \in Slots /\ SameHash(Probe(key, i), key))
    BY <1>1, <1>6, AbsentIsNotFound
  <2>2. map_get(key, a) = [op |-> "map_get", addr |-> a, result |-> FALSE]
    BY <2>1 DEF map_get
  <2> QED
    BY <1>2, <1>3, <1>4, <1>6, <2>2 DEF Contract!Get
<1> QED
  BY <1>5, <1>6

\* map_set adds the key to both ghost maps.
LEMMA SetRefines ==
  ASSUME Inv, NEW a \in Addresses, NEW v \in Values, SetKey(a, v), Inv'
  PROVE  Contract!SetKey(a, v)
<1>0. PICK key : key = memory[a]
  OBVIOUS
<1>1. PICK new : new = items'
  OBVIOUS
<1>2. Cardinality(Present) < requested /\ new = map_set(memory[a], a, v)
  BY <1>1, CanFacts DEF SetKey
<1>3. PICK p \in Slots \ StoredSlots : StoredIn(p, new, memory[a], a, v)
  BY <1>2, SetFacts
<1>4. /\ StoredSlots' = StoredSlots \cup {p}
      /\ KeyAt(p)' = key /\ items'[p].key_addr = a /\ items'[p].value = v
      /\ \A t \in StoredSlots : /\ KeyAt(t)' = KeyAt(t)
                                /\ items'[t].key_addr = items[t].key_addr
                                /\ items'[t].value = items[t].value
  BY <1>0, <1>1, <1>3, SetEffect DEF SetKey
<1>5. Present' = Present \cup {key}
  <2>1. Present' = {KeyAt(s)' : s \in StoredSlots'}
    BY DEF Present
  <2> QED
    BY <1>4, <2>1 DEF Present
<1>6. key \notin Present
  BY <1>0, CanFacts DEF SetKey
<1>7. /\ GhostValues'[key] = v /\ GhostAddrs'[key] = a
      /\ \A k \in Present : /\ k # key
                            /\ GhostValues'[k] = GhostValues[k]
                            /\ GhostAddrs'[k] = GhostAddrs[k]
  <2>1. GhostValues'[key] = v /\ GhostAddrs'[key] = a
    BY <1>4, GhostFactsNext
  <2>2. ASSUME NEW k \in Present
        PROVE  /\ k # key
               /\ GhostValues'[k] = GhostValues[k]
               /\ GhostAddrs'[k] = GhostAddrs[k]
    <3>1. PICK t \in StoredSlots : k = KeyAt(t)
      BY DEF Present
    <3>2. GhostValues[k] = items[t].value /\ GhostAddrs[k] = items[t].key_addr
      BY <3>1, GhostFacts
    <3>3. k = KeyAt(t)' /\ t \in StoredSlots'
      BY <1>4, <3>1
    <3>4. GhostValues'[k] = items'[t].value /\ GhostAddrs'[k] = items'[t].key_addr
      BY <3>3, GhostFactsNext
    <3> QED
      BY <1>4, <1>6, <3>2, <3>4
  <2> QED
    BY <2>1, <2>2
<1>8. /\ GhostValues' = Contract!Set(GhostValues, key, v)
      /\ GhostAddrs' = Contract!Set(GhostAddrs, key, a)
  <2>1. /\ GhostValues' = [k \in Present \cup {key} |-> GhostValues'[k]]
        /\ GhostAddrs' = [k \in Present \cup {key} |-> GhostAddrs'[k]]
    BY <1>5, GhostFactsNext
  <2>2. DOMAIN GhostValues = Present /\ DOMAIN GhostAddrs = Present
    BY GhostFacts
  <2> QED
    BY <1>7, <2>1, <2>2 DEF Contract!Set
<1> QED
  BY <1>0, <1>8 DEF SetKey, Contract!SetKey

\* map_remove takes the key out of both ghost maps.
LEMMA RemoveRefines ==
  ASSUME Inv, NEW a \in Addresses, RemoveKey(a), Inv'
  PROVE  Contract!RemoveKey(a)
<1>1. PICK p \in StoredSlots : KeyAt(p) = memory[a] /\ items[p].key_addr = a
  BY CanFacts DEF RemoveKey
<1>2. PICK key : key = KeyAt(p)
  OBVIOUS
<1>3. /\ StoredSlots' = StoredSlots \ {p}
      /\ \A t \in StoredSlots \ {p} : /\ KeyAt(t)' = KeyAt(t)
                                      /\ items'[t].key_addr = items[t].key_addr
                                      /\ items'[t].value = items[t].value
  BY <1>1, RemoveEffect DEF RemoveKey
<1>4. \A t \in StoredSlots : KeyAt(t) = key <=> t = p
  BY <1>2 DEF Inv, Distinct
<1>5. Present' = Present \ {key}
  <2>1. Present' = {KeyAt(s)' : s \in StoredSlots'}
    BY DEF Present
  <2>2. Present' = {KeyAt(s) : s \in StoredSlots \ {p}}
    BY <1>3, <2>1
  <2> QED
    BY <1>2, <1>4, <2>2 DEF Present
<1>6. ASSUME NEW k \in Present \ {key}
      PROVE  GhostValues'[k] = GhostValues[k] /\ GhostAddrs'[k] = GhostAddrs[k]
  <2>1. PICK t \in StoredSlots : k = KeyAt(t)
    BY DEF Present
  <2>2. GhostValues[k] = items[t].value /\ GhostAddrs[k] = items[t].key_addr
    BY <2>1, GhostFacts
  <2>3. t # p /\ k = KeyAt(t)' /\ t \in StoredSlots'
    BY <1>2, <1>3, <2>1
  <2>4. GhostValues'[k] = items'[t].value /\ GhostAddrs'[k] = items'[t].key_addr
    BY <2>3, GhostFactsNext
  <2> QED
    BY <1>3, <2>2, <2>3, <2>4
<1>7. /\ GhostValues' = Contract!Remove(GhostValues, key)
      /\ GhostAddrs' = Contract!Remove(GhostAddrs, key)
  <2>1. /\ GhostValues' = [k \in Present \ {key} |-> GhostValues'[k]]
        /\ GhostAddrs' = [k \in Present \ {key} |-> GhostAddrs'[k]]
    BY <1>5, GhostFactsNext
  <2>2. DOMAIN GhostValues = Present /\ DOMAIN GhostAddrs = Present
    BY GhostFacts
  <2> QED
    BY <1>6, <2>1, <2>2 DEF Contract!Remove
<1> QED
  BY <1>1, <1>2, <1>7 DEF RemoveKey, Contract!RemoveKey

\* Writing elsewhere leaves the ghost maps alone.
LEMMA WriteRefines ==
  ASSUME Inv, NEW a \in Addresses, NEW k \in Keys, Write(a, k)
  PROVE  Contract!Write(a, k)
<1>1. StoredSlots' = StoredSlots /\ \A t \in StoredSlots : KeyAt(t)' = KeyAt(t)
  BY OwnedFacts, WriteKeeps DEF Write
<1>2. Present' = Present
  <2>1. Present' = {KeyAt(s)' : s \in StoredSlots'}
    BY DEF Present
  <2> QED
    BY <1>1, <2>1 DEF Present
<1>3. \A j : SlotOf(j)' = SlotOf(j)
  <2>1. \A j : SlotOf(j)' = CHOOSE s \in StoredSlots' : KeyAt(s)' = j
    BY DEF SlotOf
  <2> QED
    BY <1>1, <2>1 DEF SlotOf
<1>4. GhostValues' = GhostValues /\ GhostAddrs' = GhostAddrs
  <2>1. /\ GhostValues' = [j \in Present' |-> items'[SlotOf(j)'].value]
        /\ GhostAddrs' = [j \in Present' |-> items'[SlotOf(j)'].key_addr]
    BY DEF GhostValues, GhostAddrs
  <2> QED
    BY <1>2, <1>3, <2>1 DEF GhostValues, GhostAddrs, Write
<1> QED
  BY <1>4 DEF Write, Contract!Write

\* Lookups find exactly the keys that were set and not removed since, with
\* their values and addresses: map.c implements the contracts of map.h.
THEOREM MapImplementsContract == Spec => ImplementsContract
<1>1. Init => Contract!Init
  BY InitRefines
<1>2. Inv /\ Inv' /\ [Next]_vars => [Contract!Next]_(Contract!vars)
  <2>1. CASE UNCHANGED vars
    BY <2>1 DEF vars, Contract!vars, GhostValues, GhostAddrs, Present, SlotOf,
                StoredSlots, KeyAt, Slots, Capacity
  <2>2. ASSUME Inv, Inv', Next
        PROVE  Contract!Next
    <3>1. PICK a \in Addresses :
            \/ Get(a)
            \/ \E v \in Values : SetKey(a, v)
            \/ RemoveKey(a)
            \/ \E k \in Keys : Write(a, k)
      BY <2>2 DEF Next
    <3>2. CASE Get(a)
      BY <2>2, <3>2, GetRefines DEF Contract!Next
    <3>3. ASSUME NEW v \in Values, SetKey(a, v)
          PROVE  Contract!Next
      BY <2>2, <3>3, SetRefines DEF Contract!Next
    <3>4. CASE RemoveKey(a)
      BY <2>2, <3>4, RemoveRefines DEF Contract!Next
    <3>5. ASSUME NEW k \in Keys, Write(a, k)
          PROVE  Contract!Next
      BY <2>2, <3>5, WriteRefines DEF Contract!Next
    <3> QED
      BY <3>1, <3>2, <3>3, <3>4, <3>5
  <2> QED
    BY <2>1, <2>2
<1> QED
  BY <1>1, <1>2, InvAlways, PTL DEF Spec, ImplementsContract, Contract!Spec

=============================================================================
