----------------------------- MODULE ExpiringPool -----------------------------
(***************************************************************************)
(* What env/include/structs/index_pool.h promises of an index pool: the    *)
(* contracts of its functions, over the map `items` from the indices in    *)
(* use to the time of their last use.  The network functions, and klint,   *)
(* only know the pool through these contracts.                             *)
(***************************************************************************)
EXTENDS Integers, FiniteSets

CONSTANTS
  Size,             \* number of indices of the pool
  ExpirationTimes,  \* the expiration times a pool may be allocated with
  Clock             \* times at which the functions may be called

VARIABLES
  items,            \* the ghost map of predicate poolp
  expiration_time,
  ret               \* what the last call returned, with its arguments

vars == <<items, expiration_time, ret>>

pool_young(time, i) ==
  time < expiration_time \/ time - expiration_time <= items[i]

InUse == DOMAIN items

\* ghostmap_set and ghostmap_remove
Set(i, time) == [j \in InUse \cup {i} |-> IF j = i THEN time ELSE items[j]]
Remove(i)    == [j \in InUse \ {i} |-> items[j]]

Init ==
  /\ items = << >>
  /\ expiration_time \in ExpirationTimes
  /\ ret = [op |-> "index_pool_alloc"]

\* A full pool of young indices lends nothing; a full pool lends an expired
\* index; any other pool lends a free index or an expired one.
Borrow(time) ==
  \/ /\ InUse = 0 .. Size - 1
     /\ \A i \in InUse : pool_young(time, i)
     /\ ret' = [op |-> "index_pool_borrow", time |-> time, result |-> FALSE]
     /\ UNCHANGED <<items, expiration_time>>
  \/ \E i \in 0 .. Size - 1, used \in BOOLEAN :
       /\ used => i \in InUse /\ ~ pool_young(time, i)
       /\ ~ used => i \notin InUse
       /\ ret' = [op |-> "index_pool_borrow", time |-> time, result |-> TRUE,
                  index |-> i, used |-> used]
       /\ items' = Set(i, time)
       /\ UNCHANGED expiration_time

\* The contract lets a caller refresh an index nobody uses: it is then used.
Refresh(time, i) ==
  /\ items' = Set(i, time)
  /\ ret' = [op |-> "index_pool_refresh", time |-> time, i |-> i]
  /\ UNCHANGED expiration_time

Used(time, i) ==
  /\ ret' = [op |-> "index_pool_used", time |-> time, i |-> i,
             result |-> i \in InUse /\ pool_young(time, i)]
  /\ UNCHANGED <<items, expiration_time>>

Return(i) ==
  /\ items' = Remove(i)
  /\ ret' = [op |-> "index_pool_return", i |-> i]
  /\ UNCHANGED expiration_time

Next ==
  \/ \E time \in Clock : Borrow(time)
  \/ \E time \in Clock, i \in 0 .. Size - 1 : Refresh(time, i)
  \/ \E time \in Clock, i \in 0 .. Size : Used(time, i)
  \/ \E i \in 0 .. Size - 1 : Return(i)

Spec == Init /\ [][Next]_vars

=============================================================================
