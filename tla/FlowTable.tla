------------------------------ MODULE FlowTable ------------------------------
(***************************************************************************)
(* The data structure every stateful network function of nf/ is built on:  *)
(* a heap of keys, a map from keys to indices of the heap, and a pool of   *)
(* these indices that expire.  The map does not copy keys, it points into  *)
(* the heap; the pool does not know what its indices are used for.         *)
(*                                                                         *)
(* The map is taken at the level of its contract (GhostMap), with for each *)
(* key its value and its address, as an index of the heap; HashMap checks  *)
(* the implementation against that contract.  The pool is the implemented  *)
(* one.                                                                    *)
(***************************************************************************)
EXTENDS IndexPool, FiniteSets

CONSTANTS
  Keys,     \* the keys: flows, or addresses
  NoKey     \* a zeroed entry of the heap

ASSUME KeyAssumption == NoKey \notin Keys

\* flow_table_alloc: the capacity of all three parts is max_flows.
TableAlloc(expiration_time, max_flows) ==
  [flows          |-> [i \in 0 .. max_flows - 1 |-> NoKey],
   flow_indexes   |-> << >>,
   port_allocator |-> index_pool_alloc(max_flows, expiration_time)]

Known(table) == DOMAIN table.flow_indexes

\* map_get, for a key in the map.
IndexOf(table, key) == table.flow_indexes[key].value

\* map_set and map_remove, as the contract has it.
MapSet(map, key, address, value) ==
  [k \in DOMAIN map \cup {key} |->
     IF k = key THEN [value |-> value, address |-> address] ELSE map[k]]
MapRemove(map, key) == [k \in DOMAIN map \ {key} |-> map[k]]

\* index_pool_refresh on the table's pool.
Refreshed(table, time, index) ==
  [table EXCEPT !.port_allocator = index_pool_refresh(@, time, index)]

-----------------------------------------------------------------------------
(* Insertion of a key the map does not have: borrow an index, take it from *)
(* its previous key if it had one, write the key in the heap, map it.      *)

HasSpace(table, time) == BorrowSucceeds(table.port_allocator, time)

InsertIndex(table, time) == BorrowedIndex(table.port_allocator, time)

\* Mutated form of AfterEviction: was_used is ignored.
AfterEviction_Forgotten(table, time) == table.flow_indexes

\* The map once the previous key of a reused index is removed.
AfterEviction(table, time) ==
  IF BorrowedWasUsed(table.port_allocator, time)
  THEN MapRemove(table.flow_indexes, table.flows[InsertIndex(table, time)])
  ELSE table.flow_indexes

\* Mutated form of Inserted: the key stays where the caller has it instead
\* of being copied to the heap.
Inserted_NotCopied(table, time, key) ==
  LET index == InsertIndex(table, time)
  IN  [flows          |-> table.flows,
       flow_indexes   |-> MapSet(AfterEviction(table, time), key, index, index),
       port_allocator |-> index_pool_borrow(table.port_allocator, time)]

Inserted(table, time, key) ==
  LET index == InsertIndex(table, time)
  IN  [flows          |-> [table.flows EXCEPT ![index] = key],
       flow_indexes   |-> MapSet(AfterEviction(table, time), key, index, index),
       port_allocator |-> index_pool_borrow(table.port_allocator, time)]

-----------------------------------------------------------------------------
(* What must be true of a table between two packets.                       *)

\* Index i and key k belong together.
Maps(table, k, i) ==
  /\ table.flows[i] = k
  /\ k \in Known(table)
  /\ table.flow_indexes[k] = [value |-> i, address |-> i]

\* The three parts describe the same set of flows: every index that is not
\* free holds a key that maps to it, and every key maps to such an index.
InSync(table) ==
  /\ \A i \in Indices(table.port_allocator) :
       ~ Free(table.port_allocator, i) => Maps(table, table.flows[i], i)
  /\ \A k \in Known(table) :
       \E i \in Indices(table.port_allocator) :
         ~ Free(table.port_allocator, i) /\ Maps(table, k, i)

\* Inserting key at the given time makes only calls map.h allows: the key
\* removed is in the map, at the address passed; then there is room for the
\* new key, which is not in the map, and its memory is not the map's.
InsertIsLegal(table, time, key) ==
  LET index   == InsertIndex(table, time)
      evicted == table.flows[index]
      map     == AfterEviction(table, time)
  IN  /\ BorrowedWasUsed(table.port_allocator, time) =>
           evicted \in Known(table) /\ table.flow_indexes[evicted].address = index
      /\ Cardinality(DOMAIN map) < table.port_allocator.size
      /\ key \notin DOMAIN map
      /\ \A k \in DOMAIN map : map[k].address # index

\* Whether the entry of a known key is used at the given time.
Young(table, time, key) ==
  index_pool_used(table.port_allocator, time, IndexOf(table, key))

TableType(size, expiration_time) ==
  [flows : [0 .. size - 1 -> Keys \cup {NoKey}],
   flow_indexes : UNION {[S -> [value : 0 .. size - 1, address : 0 .. size - 1]]
                           : S \in SUBSET Keys},
   port_allocator : PoolType(size, expiration_time)]

=============================================================================
