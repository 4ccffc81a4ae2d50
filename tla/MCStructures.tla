---------------------------- MODULE MCStructures ----------------------------
(***************************************************************************)
(* One of the two structures that network functions are built on, under    *)
(* any legal calls: an index pool, or a map.  The map has four keys: two   *)
(* with the same hash, one whose hash only agrees with theirs modulo the   *)
(* capacity and so lands in the last slot too, and one that starts where   *)
(* the probing of the others wraps around.                                 *)
(***************************************************************************)
EXTENDS HashMap, IndexPoolCalls, TLC

CONSTANTS k1, k2, k3, k4

VARIABLE structure      \* "map" or "pool": the one that is called

MCKeys == {k1, k2, k3, k4}
MCHash == [k \in MCKeys |-> CASE k = k1 -> 3 [] k = k2 -> 3
                              [] k = k3 -> 7 [] k = k4 -> 4]

\* The other structure has just been allocated, with a fixed state.
MCInit ==
  /\ Init /\ PoolInit
  /\ \/ structure = "map"  /\ pool.expiration_time = 0
     \/ structure = "pool" /\ requested = 0 /\ memory = [a \in Addresses |-> k1]

MapCall  == structure = "map"  /\ Next     /\ UNCHANGED <<pool_vars, structure>>
PoolCall == structure = "pool" /\ PoolNext /\ UNCHANGED <<vars, structure>>

MCSpec == MCInit /\ [][MapCall \/ PoolCall]_<<vars, pool_vars, structure>>

\* Addresses and values are only compared with each other, and two of the keys
\* only differ in their name; the pool has no such values.
MCSymmetry ==
  Permutations(Addresses) \cup Permutations(Values) \cup Permutations({k1, k2})

=============================================================================
