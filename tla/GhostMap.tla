------------------------------ MODULE GhostMap ------------------------------
(***************************************************************************)
(* What env/include/structs/map.h promises of a map: the contracts of its  *)
(* functions over the two ghost maps of predicate mapp, from the keys in   *)
(* the map to their values and to the addresses they were passed at.  The  *)
(* map does not copy keys: it takes part of the ownership of the memory    *)
(* that holds them, so nobody may write there until they are removed.      *)
(***************************************************************************)
EXTENDS Integers, FiniteSets

CONSTANTS
  Keys, Values, Addresses,
  Capacities        \* the capacities a map may be allocated with

VARIABLES
  values,           \* mapp's values, as a function on the keys in the map
  addrs,            \* mapp's addrs
  capacity,         \* as passed to map_alloc
  memory,           \* what the caller's memory holds, as keys
  ret               \* what the last call returned and, for map_get, of what

vars == <<values, addrs, capacity, memory, ret>>

Present == DOMAIN values

Owned == {addrs[k] : k \in Present}

\* ghostmap_set and ghostmap_remove
Set(f, k, v) == [j \in DOMAIN f \cup {k} |-> IF j = k THEN v ELSE f[j]]
Remove(f, k) == [j \in DOMAIN f \ {k} |-> f[j]]

\* The preconditions of map_set and map_remove.
CanSet(a)    == Cardinality(Present) < capacity /\ memory[a] \notin Present
CanRemove(a) == memory[a] \in Present /\ addrs[memory[a]] = a

Init ==
  /\ values = << >>
  /\ addrs = << >>
  /\ capacity \in Capacities
  /\ memory \in [Addresses -> Keys]
  /\ ret = [op |-> "map_alloc"]

Get(a) ==
  /\ ret' = IF memory[a] \in Present
            THEN [op |-> "map_get", addr |-> a, result |-> TRUE,
                  value |-> values[memory[a]]]
            ELSE [op |-> "map_get", addr |-> a, result |-> FALSE]
  /\ UNCHANGED <<values, addrs, capacity, memory>>

SetKey(a, v) ==
  /\ CanSet(a)
  /\ values' = Set(values, memory[a], v)
  /\ addrs' = Set(addrs, memory[a], a)
  /\ ret' = [op |-> "map_set"]
  /\ UNCHANGED <<capacity, memory>>

RemoveKey(a) ==
  /\ CanRemove(a)
  /\ values' = Remove(values, memory[a])
  /\ addrs' = Remove(addrs, memory[a])
  /\ ret' = [op |-> "map_remove"]
  /\ UNCHANGED <<capacity, memory>>

\* The caller writes a key at an address that the map does not own.
Write(a, k) ==
  /\ a \notin Owned
  /\ memory' = [memory EXCEPT ![a] = k]
  /\ ret' = [op |-> "none"]
  /\ UNCHANGED <<values, addrs, capacity>>

Next ==
  \E a \in Addresses :
    \/ Get(a)
    \/ \E v \in Values : SetKey(a, v)
    \/ RemoveKey(a)
    \/ \E k \in Keys : Write(a, k)

Spec == Init /\ [][Next]_vars

=============================================================================
