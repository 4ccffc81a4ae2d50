------------------------------- MODULE HashMap -------------------------------
(***************************************************************************)
(* The map of env/src/structs/map.c: open addressing with linear probing,  *)
(* where each slot counts the stored keys whose probing went past it (its  *)
(* chain).  A lookup can stop at a slot no key went past, and a removal    *)
(* needs no tombstone: it takes the key out of the counters on its way.    *)
(*                                                                         *)
(* Each call is one step: the library is not reentrant, and each network   *)
(* function has one thread.                                                *)
(***************************************************************************)
EXTENDS Integers, FiniteSets

CONSTANTS
  Keys,         \* contents of key_size bytes
  Hash,         \* os_memory_hash, on such contents
  Values,
  Addresses,    \* where the caller can store keys
  NULL,
  Capacities    \* the capacities passed to map_alloc

ASSUME HashAssumption     == Hash \in [Keys -> Nat]
ASSUME NullAssumption     == NULL \notin Addresses
ASSUME CapacityAssumption == Capacities \subseteq Nat

VARIABLES
  items,        \* map->items
  requested,    \* the capacity of map_alloc's contract, not kept by the code
  memory,       \* what the caller's memory holds, as keys
  ret           \* what the last call returned and, for map_get, of what

vars == <<items, requested, memory, ret>>

-----------------------------------------------------------------------------

\* Doubles real_capacity until it is large enough.
get_real_capacity(capacity) ==
  LET doubled[real_capacity \in 1 .. 2 * capacity] ==
        IF real_capacity < capacity THEN doubled[real_capacity * 2]
                                    ELSE real_capacity
  IN  IF capacity = 0 THEN 0 ELSE doubled[1]

Capacity == get_real_capacity(requested)   \* map->capacity
Slots    == 0 .. Capacity - 1

\* The masks with capacity - 1 are remainders, the capacity being a power of
\* two.
loop(start, i) == ((start % Capacity) + i) % Capacity

EmptyItem == [key_addr |-> NULL, value |-> 0, chain |-> 0, key_hash |-> 0]

\* key_addr != NULL && key_hash == hash of the key looked for
SameHash(item, key) == item.key_addr # NULL /\ item.key_hash = Hash[key]

\* ... && os_memory_eq of the two keys
Holds(item, key) == SameHash(item, key) /\ memory[item.key_addr] = key

\* The slot a key is looked up at by the i-th iteration of the loops.
Probe(key, i) == items[loop(Hash[key], i)]

\* The first of the iterations at which a loop over the slots stops, or
\* Capacity when it ends without.
FirstIteration(stops) ==
  IF stops # {} THEN CHOOSE i \in stops : \A j \in stops : i <= j
                ELSE Capacity

\* The items after delta was added to the chains of the first i slots of the
\* probing of a key.
AddToChains(key, i, delta) ==
  [s \in Slots |->
     IF \E j \in 0 .. i - 1 : s = loop(Hash[key], j)
     THEN [items[s] EXCEPT !.chain = @ + delta]
     ELSE items[s]]

-----------------------------------------------------------------------------
(* map_get.                                                                *)

\* Mutated form of GetStops: a slot that a removal emptied ends the search.
GetStops_AtEmpty(key, i) ==
  \/ Holds(Probe(key, i), key)
  \/ Probe(key, i).key_addr = NULL

\* A slot with another key of the same hash does not look at its chain.
GetStops(key, i) ==
  IF SameHash(Probe(key, i), key)
  THEN memory[Probe(key, i).key_addr] = key
  ELSE Probe(key, i).chain = 0

map_get(key, a) ==
  LET i == FirstIteration({j \in Slots : GetStops(key, j)})
  IN  IF i \in Slots /\ SameHash(Probe(key, i), key)
      THEN [op |-> "map_get", addr |-> a, result |-> TRUE,
            value |-> Probe(key, i).value]
      ELSE [op |-> "map_get", addr |-> a, result |-> FALSE]

-----------------------------------------------------------------------------
(* map_set.                                                                *)

\* Stops at the first slot without a key; goes past the others.
SetStops(key, i) == Probe(key, i).key_addr = NULL

\* The slot keeps the chain it had when it was emptied.
Stored(item, key, a, value) ==
  [key_addr |-> a, value |-> value, chain |-> item.chain, key_hash |-> Hash[key]]

map_set(key, a, value) ==
  LET i == FirstIteration({j \in Slots : SetStops(key, j)})
      passed == AddToChains(key, i, 1)
  IN  IF i \in Slots
      THEN [passed EXCEPT ![loop(Hash[key], i)] = Stored(@, key, a, value)]
      ELSE passed

-----------------------------------------------------------------------------
(* map_remove.                                                             *)

Removed(item) == [item EXCEPT !.key_addr = NULL]

\* Mutated form of map_remove: the chains keep counting the removed key.
map_remove_KeepChains(key) ==
  LET i == FirstIteration({j \in Slots : Holds(Probe(key, j), key)})
  IN  IF i \in Slots
      THEN [items EXCEPT ![loop(Hash[key], i)] = Removed(@)]
      ELSE items

map_remove(key) ==
  LET i == FirstIteration({j \in Slots : Holds(Probe(key, j), key)})
      passed == AddToChains(key, i, -1)
  IN  IF i \in Slots
      THEN [passed EXCEPT ![loop(Hash[key], i)] = Removed(@)]
      ELSE passed

-----------------------------------------------------------------------------
(* The calls the contract allows.                                          *)

StoredSlots == {s \in Slots : items[s].key_addr # NULL}
KeyAt(s)    == memory[items[s].key_addr]

\* The ghost maps of the contract.
Present == {KeyAt(s) : s \in StoredSlots}
SlotOf(k) == CHOOSE s \in StoredSlots : KeyAt(s) = k
GhostValues == [k \in Present |-> items[SlotOf(k)].value]
GhostAddrs  == [k \in Present |-> items[SlotOf(k)].key_addr]

Contract == INSTANCE GhostMap
              WITH values <- GhostValues, addrs <- GhostAddrs,
                   capacity <- requested

Init ==
  /\ requested \in Capacities
  /\ items = [s \in 0 .. get_real_capacity(requested) - 1 |-> EmptyItem]
  /\ memory \in [Addresses -> Keys]
  /\ ret = [op |-> "map_alloc"]

Get(a) ==
  /\ ret' = map_get(memory[a], a)
  /\ UNCHANGED <<items, requested, memory>>

SetKey(a, v) ==
  /\ Contract!CanSet(a)
  /\ items' = map_set(memory[a], a, v)
  /\ ret' = [op |-> "map_set"]
  /\ UNCHANGED <<requested, memory>>

RemoveKey(a) ==
  /\ Contract!CanRemove(a)
  /\ items' = map_remove(memory[a])
  /\ ret' = [op |-> "map_remove"]
  /\ UNCHANGED <<requested, memory>>

Write(a, k) ==
  /\ a \notin Contract!Owned
  /\ memory' = [memory EXCEPT ![a] = k]
  /\ ret' = [op |-> "none"]
  /\ UNCHANGED <<items, requested>>

Next ==
  \E a \in Addresses :
    \/ Get(a)
    \/ \E v \in Values : SetKey(a, v)
    \/ RemoveKey(a)
    \/ \E k \in Keys : Write(a, k)

Spec == Init /\ [][Next]_vars

-----------------------------------------------------------------------------

\* The types of the array of items, of memory and of the requested capacity.
TypeOK ==
  /\ requested \in Capacities
  /\ items \in [Slots -> [key_addr : Addresses \cup {NULL},
                          value : Values \cup {0},
                          chain : 0 .. Capacity,
                          key_hash : {Hash[k] : k \in Keys} \cup {0}]]
  /\ memory \in [Addresses -> Keys]

\* How many iterations the probing of a key takes to get to a slot.
Distance(key, s) == (s - Hash[key]) % Capacity

\* Every chain is exactly the number of stored keys whose probing goes past
\* the slot, whatever was stored and removed before: this is what makes it
\* right for map_get to give up at a chain of zero, and what keeps a long
\* lived map from degrading into full scans.  No chain goes below zero or beyond
\* the capacity, although neither map_set nor map_remove checks it.
ChainsCountPassers ==
  /\ TypeOK
  /\ \A s \in Slots :
       items[s].chain =
         Cardinality({t \in StoredSlots :
                        Distance(KeyAt(t), s) < Distance(KeyAt(t), t)})

\* Every call does what map.h says: lookups find exactly the keys that were
\* set and not removed since, with their values and addresses.
ImplementsContract == Contract!Spec

=============================================================================
