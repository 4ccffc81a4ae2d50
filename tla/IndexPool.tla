------------------------------ MODULE IndexPool ------------------------------
(***************************************************************************)
(* The index pool of env/src/structs/index_pool.c as operators on a value  *)
(* of type struct index_pool.  A pool lends the indices 0 .. size-1; each  *)
(* has the time it was last used, or TIME_MAX when it is free, and can be  *)
(* taken away from its user once it has been idle for longer than the      *)
(* expiration time.  The network functions key all their state by such an  *)
(* index.                                                                  *)
(***************************************************************************)
EXTENDS Integers

CONSTANT TIME_MAX   \* the largest time_t, which marks a free index

ASSUME TimeMaxAssumption == TIME_MAX \in Nat \ {0}

Time  == 0 .. TIME_MAX          \* time_t
Clock == 0 .. TIME_MAX - 1      \* what a caller may pass as the current time

Indices(pool) == 0 .. pool.size - 1

\* struct index_pool.  last_borrowed_index starts at 0, even in an empty pool.
PoolType(size, expiration_time) ==
  [timestamps : [0 .. size - 1 -> Time], size : {size},
   expiration_time : {expiration_time}, last_borrowed_index : 0 .. size]

index_pool_alloc(size, expiration_time) ==
  [timestamps |-> [i \in 0 .. size - 1 |-> TIME_MAX],
   size |-> size,
   expiration_time |-> expiration_time,
   last_borrowed_index |-> 0]

Free(pool, i) == pool.timestamps[i] = TIME_MAX

\* Mutated form of Expired: an index goes one tick too early.
Expired_AtLimit(pool, time, i) ==
  /\ time >= pool.expiration_time
  /\ time - pool.expiration_time >= pool.timestamps[i]

\* Mutated form of Expired: without its guard the unsigned subtraction wraps
\* around while the clock is below the expiration time.
Expired_Wraps(pool, time, i) ==
  (time - pool.expiration_time) % (TIME_MAX + 1) > pool.timestamps[i]

\* The test of both loops of index_pool_borrow, and of index_pool_used.
Expired(pool, time, i) ==
  /\ time >= pool.expiration_time
  /\ time - pool.expiration_time > pool.timestamps[i]

Available(pool, time) ==
  {i \in Indices(pool) : Free(pool, i) \/ Expired(pool, time, i)}

\* When the two loops of index_pool_borrow look at index i: those from
\* last_borrowed_index on come first, then those before it.
ScanPosition(pool, i) ==
  IF i >= pool.last_borrowed_index
  THEN i - pool.last_borrowed_index
  ELSE pool.size - pool.last_borrowed_index + i

\* The indices on which one of the two loops would stop.
Candidates(pool, time) == Available(pool, time)

\* The result of index_pool_borrow, its out parameters included.
BorrowSucceeds(pool, time) == Candidates(pool, time) # {}

BorrowedIndex(pool, time) ==
  CHOOSE i \in Candidates(pool, time) :
    \A j \in Candidates(pool, time) :
      ScanPosition(pool, i) <= ScanPosition(pool, j)

BorrowedWasUsed(pool, time) == ~ Free(pool, BorrowedIndex(pool, time))

\* The pool after a call to index_pool_borrow.
index_pool_borrow(pool, time) ==
  IF BorrowSucceeds(pool, time)
  THEN [pool EXCEPT !.timestamps[BorrowedIndex(pool, time)] = time,
                    !.last_borrowed_index = BorrowedIndex(pool, time)]
  ELSE pool

index_pool_refresh(pool, time, index) ==
  [pool EXCEPT !.timestamps[index] = time]

index_pool_used(pool, time, index) ==
  /\ index < pool.size
  /\ ~ Free(pool, index)
  /\ ~ Expired(pool, time, index)

index_pool_return(pool, index) ==
  [pool EXCEPT !.timestamps[index] = TIME_MAX]

=============================================================================
