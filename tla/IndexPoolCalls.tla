---------------------------- MODULE IndexPoolCalls ----------------------------
(***************************************************************************)
(* An index pool under any sequence of calls its contract allows, at any   *)
(* times, shown to implement the contract (ExpiringPool).  The clock is    *)
(* not assumed to advance: the contract does not ask for it.  The names of *)
(* this module are its own, since FlowTableProofs extends it next to the   *)
(* network functions.                                                      *)
(***************************************************************************)
EXTENDS IndexPool

CONSTANTS
  PoolSize,             \* the size passed to index_pool_alloc
  PoolExpirationTimes   \* the expiration times tried

ASSUME PoolSizeAssumption       == PoolSize \in Nat
ASSUME PoolExpirationAssumption == PoolExpirationTimes \subseteq Time

VARIABLES
  pool,
  pool_ret          \* what the last call returned, with its arguments

pool_vars == <<pool, pool_ret>>

PoolInit ==
  /\ \E e \in PoolExpirationTimes : pool = index_pool_alloc(PoolSize, e)
  /\ pool_ret = [op |-> "index_pool_alloc"]

BorrowCall(time) ==
  /\ pool' = index_pool_borrow(pool, time)
  /\ pool_ret' = IF BorrowSucceeds(pool, time)
                 THEN [op |-> "index_pool_borrow", time |-> time, result |-> TRUE,
                       index |-> BorrowedIndex(pool, time),
                       used |-> BorrowedWasUsed(pool, time)]
                 ELSE [op |-> "index_pool_borrow", time |-> time, result |-> FALSE]

RefreshCall(time, i) ==
  /\ pool' = index_pool_refresh(pool, time, i)
  /\ pool_ret' = [op |-> "index_pool_refresh", time |-> time, i |-> i]

\* index_pool_used has no bound on its argument; PoolSize stands for all those
\* outside of the pool.
UsedCall(time, i) ==
  /\ pool_ret' = [op |-> "index_pool_used", time |-> time, i |-> i,
                  result |-> index_pool_used(pool, time, i)]
  /\ UNCHANGED pool

ReturnCall(i) ==
  /\ pool' = index_pool_return(pool, i)
  /\ pool_ret' = [op |-> "index_pool_return", i |-> i]

PoolNext ==
  \/ \E time \in Clock : BorrowCall(time)
  \/ \E time \in Clock, i \in 0 .. PoolSize - 1 : RefreshCall(time, i)
  \/ \E time \in Clock, i \in 0 .. PoolSize : UsedCall(time, i)
  \/ \E i \in 0 .. PoolSize - 1 : ReturnCall(i)

PoolSpec == PoolInit /\ [][PoolNext]_pool_vars

-----------------------------------------------------------------------------

\* The pool keeps its size and one timestamp per index, and the scan always
\* starts at an index of the pool.
PoolTypeOK ==
  \E e \in PoolExpirationTimes : pool \in PoolType(PoolSize, e)

\* The map of the contract: the indices that are not marked free.
PoolItems == [i \in {j \in 0 .. PoolSize - 1 : ~ Free(pool, j)} |-> pool.timestamps[i]]

PoolContract == INSTANCE ExpiringPool
                  WITH Size <- PoolSize, ExpirationTimes <- PoolExpirationTimes,
                       items <- PoolItems, expiration_time <- pool.expiration_time,
                       ret <- pool_ret

\* Every call does what index_pool.h says: in particular a borrow fails only
\* when all indices are young, never takes a young index away, and tells its
\* caller when the index it gives had a user before.
ImplementsPoolContract == PoolContract!Spec

=============================================================================
