--------------------------- MODULE FlowTableProofs ---------------------------
(***************************************************************************)
(* Facts about the operators of IndexPool, for pools of any size: they     *)
(* implement their contract.  Facts about the operators of FlowTable: the  *)
(* operations on a flow table keep its three parts in sync, for any number *)
(* of flows.                                                               *)
(***************************************************************************)
EXTENDS FlowTable, IndexPoolCalls, FiniteSetTheorems, WellFoundedInduction, TLAPS

\* A set of naturals that is not empty has a least element.
LEMMA LeastNatural ==
  ASSUME NEW T, T \subseteq Nat, T # {}
  PROVE  \E x \in T : \A y \in T : x <= y
<1> DEFINE R == {ss \in Nat \X Nat : ss[1] < ss[2]}
<1>1. IsWellFoundedOn(R, Nat)
  BY NatLessThanWellFounded DEF OpToRel
<1> HIDE DEF R
<1>2. PICK x \in T : \A y \in T : ~ (<<y, x>> \in R)
  BY <1>1, WFMin
<1>3. ASSUME NEW y \in T
      PROVE  x <= y
  <2>1. x \in Nat /\ y \in Nat
    OBVIOUS
  <2>2. y < x => <<y, x>> \in R
    BY <2>1 DEF R
  <2> QED
    BY <1>2, <2>1, <2>2
<1> QED
  BY <1>3

\* The two loops of index_pool_borrow stop at an index that is free or
\* expired, whenever there is one.
LEMMA BorrowedIsCandidate ==
  ASSUME NEW size \in Nat, NEW e, NEW p \in PoolType(size, e),
         NEW time, Candidates(p, time) # {}
  PROVE  BorrowedIndex(p, time) \in Candidates(p, time)
<1> DEFINE T == {ScanPosition(p, i) : i \in Candidates(p, time)}
<1>1. \A i \in Candidates(p, time) : ScanPosition(p, i) \in Nat
  BY DEF ScanPosition, Candidates, Available, Indices, PoolType
<1>2. T \subseteq Nat /\ T # {}
  BY <1>1
<1>3. PICK x \in T : \A y \in T : x <= y
  BY <1>2, LeastNatural
<1>4. \E i \in Candidates(p, time) : \A j \in Candidates(p, time) :
        ScanPosition(p, i) <= ScanPosition(p, j)
  BY <1>3
<1> QED
  BY <1>4 DEF BorrowedIndex

\* What a candidate of the scan of index_pool_borrow is.
LEMMA CandidateFacts ==
  ASSUME NEW size \in Nat, NEW e, NEW p \in PoolType(size, e),
         NEW time, NEW i \in Candidates(p, time)
  PROVE  i \in 0 .. size - 1 /\ (Free(p, i) \/ Expired(p, time, i))
BY DEF Candidates, Available, Indices, PoolType

\* Writing the time of an index keeps the type of a pool.
LEMMA StampType ==
  ASSUME NEW size \in Nat, NEW e, NEW p \in PoolType(size, e),
         NEW i \in 0 .. size - 1, NEW t \in Time
  PROVE  [p EXCEPT !.timestamps[i] = t] \in PoolType(size, e)
<1> DEFINE ts == [p.timestamps EXCEPT ![i] = t]
           q == [p EXCEPT !.timestamps = ts]
<1>1. ts \in [0 .. size - 1 -> Time]
  BY DEF PoolType
<1> HIDE DEF ts
<1>2. q \in PoolType(size, e)
  BY <1>1 DEF PoolType
<1> QED
  BY <1>2 DEF ts

\* Moving the start of the scan keeps the type of a pool.
LEMMA ScanStartType ==
  ASSUME NEW size \in Nat, NEW e, NEW p \in PoolType(size, e),
         NEW i \in 0 .. size - 1
  PROVE  [p EXCEPT !.last_borrowed_index = i] \in PoolType(size, e)
BY DEF PoolType

\* The times functions are called with are not the free marker.
LEMMA ClockIsTime == \A time \in Clock : time \in Time /\ time # TIME_MAX
BY TimeMaxAssumption DEF Clock, Time

-----------------------------------------------------------------------------
(* What the functions of the pool do to the set of indices in use.         *)

\* index_pool_refresh makes one index used.
LEMMA RefreshEffect ==
  ASSUME NEW size \in Nat, NEW e, NEW p \in PoolType(size, e),
         NEW i \in 0 .. size - 1, NEW time \in Clock
  PROVE  /\ index_pool_refresh(p, time, i) \in PoolType(size, e)
         /\ \A j \in 0 .. size - 1 :
              Free(index_pool_refresh(p, time, i), j) <=> j # i /\ Free(p, j)
<1> DEFINE q == index_pool_refresh(p, time, i)
<1>1. q \in PoolType(size, e)
  BY StampType, ClockIsTime DEF index_pool_refresh
<1>2. q.timestamps = [p.timestamps EXCEPT ![i] = time]
  BY DEF index_pool_refresh, PoolType
<1>3. p.timestamps \in [0 .. size - 1 -> Time] /\ time # TIME_MAX
  BY ClockIsTime DEF PoolType
<1>4. \A j \in 0 .. size - 1 : Free(q, j) <=> j # i /\ Free(p, j)
  BY <1>2, <1>3 DEF Free
<1> QED
  BY <1>1, <1>4

\* index_pool_borrow makes one index used, which was not used or expired.
LEMMA BorrowEffect ==
  ASSUME NEW size \in Nat, NEW e, NEW p \in PoolType(size, e),
         NEW time \in Clock, BorrowSucceeds(p, time)
  PROVE  /\ BorrowedIndex(p, time) \in 0 .. size - 1
         /\ index_pool_borrow(p, time) \in PoolType(size, e)
         /\ BorrowedWasUsed(p, time) <=> ~ Free(p, BorrowedIndex(p, time))
         /\ Free(p, BorrowedIndex(p, time)) \/ Expired(p, time, BorrowedIndex(p, time))
         /\ index_pool_borrow(p, time).timestamps
              = [p.timestamps EXCEPT ![BorrowedIndex(p, time)] = time]
         /\ \A j \in 0 .. size - 1 :
              Free(index_pool_borrow(p, time), j)
                <=> j # BorrowedIndex(p, time) /\ Free(p, j)
<1> DEFINE b == BorrowedIndex(p, time)
           q == index_pool_borrow(p, time)
<1>1. b \in 0 .. size - 1 /\ (Free(p, b) \/ Expired(p, time, b))
  BY BorrowedIsCandidate, CandidateFacts DEF BorrowSucceeds
<1>2. [p EXCEPT !.timestamps[b] = time] \in PoolType(size, e)
  BY <1>1, StampType, ClockIsTime
<1>3. q \in PoolType(size, e)
  BY <1>1, <1>2, ScanStartType DEF index_pool_borrow
<1>4. q.timestamps = [p.timestamps EXCEPT ![b] = time]
  BY DEF index_pool_borrow, PoolType
<1>5. p.timestamps \in [0 .. size - 1 -> Time] /\ time # TIME_MAX
  BY ClockIsTime DEF PoolType
<1>6. \A j \in 0 .. size - 1 : Free(q, j) <=> j # b /\ Free(p, j)
  BY <1>4, <1>5 DEF Free
<1>7. BorrowedWasUsed(p, time) <=> ~ Free(p, b)
  BY DEF BorrowedWasUsed
<1> QED
  BY <1>1, <1>3, <1>4, <1>6, <1>7

-----------------------------------------------------------------------------
(* The pool implements its contract: any calls, for every size, expiration *)
(* time and width of time_t.                                               *)

\* index_pool_alloc gives a pool of the size asked for.
LEMMA PoolTypeInit == PoolInit => PoolTypeOK
BY PoolSizeAssumption, TimeMaxAssumption
   DEF PoolInit, PoolTypeOK, index_pool_alloc, PoolType, Time

\* No call changes the shape of the pool.
LEMMA PoolTypeNext ==
  ASSUME PoolTypeOK, [PoolNext]_pool_vars
  PROVE  PoolTypeOK'
<1>1. PICK e \in PoolExpirationTimes : pool \in PoolType(PoolSize, e)
  BY DEF PoolTypeOK
<1>2. SUFFICES pool' \in PoolType(PoolSize, e)
  BY <1>1 DEF PoolTypeOK
<1>3. ASSUME NEW time \in Clock, BorrowCall(time)
      PROVE  pool' \in PoolType(PoolSize, e)
  <2>1. CASE BorrowSucceeds(pool, time)
    <3>1. BorrowedIndex(pool, time) \in 0 .. PoolSize - 1
      BY <1>1, <2>1, PoolSizeAssumption, BorrowedIsCandidate, CandidateFacts
         DEF BorrowSucceeds
    <3>2. [pool EXCEPT !.timestamps[BorrowedIndex(pool, time)] = time]
            \in PoolType(PoolSize, e)
      BY <1>1, <3>1, PoolSizeAssumption, StampType, ClockIsTime
    <3> QED
      BY <1>3, <2>1, <3>1, <3>2, PoolSizeAssumption, ScanStartType
         DEF BorrowCall, index_pool_borrow
  <2>2. CASE ~ BorrowSucceeds(pool, time)
    BY <1>1, <1>3, <2>2 DEF BorrowCall, index_pool_borrow
  <2> QED
    BY <2>1, <2>2
<1>4. ASSUME NEW time \in Clock, NEW i \in 0 .. PoolSize - 1, RefreshCall(time, i)
      PROVE  pool' \in PoolType(PoolSize, e)
  <2>1. [pool EXCEPT !.timestamps[i] = time] \in PoolType(PoolSize, e)
    BY <1>1, PoolSizeAssumption, StampType, ClockIsTime
  <2> QED
    BY <1>4, <2>1 DEF RefreshCall, index_pool_refresh
<1>5. ASSUME NEW time \in Clock, NEW i \in 0 .. PoolSize, UsedCall(time, i)
      PROVE  pool' \in PoolType(PoolSize, e)
  BY <1>1, <1>5 DEF UsedCall
<1>6. ASSUME NEW i \in 0 .. PoolSize - 1, ReturnCall(i)
      PROVE  pool' \in PoolType(PoolSize, e)
  <2>1. TIME_MAX \in Time
    BY TimeMaxAssumption DEF Time
  <2>2. [pool EXCEPT !.timestamps[i] = TIME_MAX] \in PoolType(PoolSize, e)
    BY <1>1, <2>1, PoolSizeAssumption, StampType
  <2> QED
    BY <1>6, <2>2 DEF ReturnCall, index_pool_return
<1>7. CASE UNCHANGED pool_vars
  BY <1>1, <1>7 DEF pool_vars
<1> QED
  BY <1>3, <1>4, <1>5, <1>6, <1>7 DEF PoolNext

\* A pool keeps its shape: one time per index, and a scan that starts inside.
THEOREM PoolTypeCorrect == PoolSpec => []PoolTypeOK
BY PoolTypeInit, PoolTypeNext, PTL DEF PoolSpec

-----------------------------------------------------------------------------

\* pool_young of the contract is "not expired" of the code.
LEMMA YoungIsNotExpired ==
  ASSUME NEW time \in Clock, NEW i \in DOMAIN PoolItems, PoolTypeOK
  PROVE  PoolContract!pool_young(time, i) <=> ~ Expired(pool, time, i)
<1>1. pool.expiration_time \in Nat
  BY PoolExpirationAssumption, TimeMaxAssumption DEF PoolTypeOK, PoolType, Time
<1>2. i \in 0 .. PoolSize - 1
  BY DEF PoolItems
<1>3. PoolItems[i] = pool.timestamps[i]
  BY DEF PoolItems
<1>4. pool.timestamps[i] \in Nat
  <2>1. pool.timestamps \in [0 .. PoolSize - 1 -> Time]
    BY DEF PoolTypeOK, PoolType
  <2>2. pool.timestamps[i] \in Time
    BY <1>2, <2>1
  <2> QED
    BY <2>2, TimeMaxAssumption DEF Time
<1>5. time \in Nat
  BY TimeMaxAssumption DEF Clock
<1> QED
  BY <1>1, <1>3, <1>4, <1>5 DEF PoolContract!pool_young, Expired

\* Writing a time in a slot is ghostmap_set on the items.
LEMMA SetItem ==
  ASSUME NEW time \in Clock, NEW i \in 0 .. PoolSize - 1, PoolTypeOK,
         pool'.timestamps = [pool.timestamps EXCEPT ![i] = time]
  PROVE  PoolItems' = PoolContract!Set(i, time)
<1>1. time # TIME_MAX
  BY TimeMaxAssumption DEF Clock
<1>2. pool.timestamps \in [0 .. PoolSize - 1 -> Time]
  BY DEF PoolTypeOK, PoolType
<1>3. \A j \in 0 .. PoolSize - 1 :
        pool'.timestamps[j] = IF j = i THEN time ELSE pool.timestamps[j]
  BY <1>2
<1> DEFINE D == {j \in 0 .. PoolSize - 1 : ~ Free(pool, j)}
           E == {j \in 0 .. PoolSize - 1 : ~ Free(pool', j)}
<1>4. E = D \cup {i}
  BY <1>1, <1>3 DEF Free
<1>5. DOMAIN PoolItems = D /\ \A j \in D : PoolItems[j] = pool.timestamps[j]
  BY DEF PoolItems
<1>6. PoolItems' = [j \in E |-> pool'.timestamps[j]]
  BY DEF PoolItems
<1>7. PoolContract!Set(i, time)
        = [j \in D \cup {i} |-> IF j = i THEN time ELSE PoolItems[j]]
  BY <1>5 DEF PoolContract!Set, PoolContract!InUse
<1> HIDE DEF D
<1>8. \A j \in D \cup {i} : pool'.timestamps[j] = IF j = i THEN time ELSE PoolItems[j]
  BY <1>3, <1>5 DEF D
<1> QED
  BY <1>4, <1>6, <1>7, <1>8

\* A new pool has no items.
LEMMA PoolInitRefines == PoolInit => PoolContract!Init
<1> SUFFICES ASSUME PoolInit PROVE PoolContract!Init
  OBVIOUS
<1>1. PICK e \in PoolExpirationTimes : pool = index_pool_alloc(PoolSize, e)
  BY DEF PoolInit
<1>2. \A j \in 0 .. PoolSize - 1 : Free(pool, j)
  BY <1>1 DEF Free, index_pool_alloc
<1>3. PoolItems = << >>
  <2>1. PoolItems = [i \in {} |-> pool.timestamps[i]]
    BY <1>2 DEF PoolItems
  <2> QED
    BY <2>1
<1>4. pool.expiration_time = e
  BY <1>1 DEF index_pool_alloc
<1> QED
  BY <1>3, <1>4 DEF PoolInit, PoolContract!Init

\* index_pool_borrow does what its contract says.
LEMMA BorrowRefines ==
  ASSUME PoolTypeOK, NEW time \in Clock, BorrowCall(time)
  PROVE  PoolContract!Borrow(time)
<1>1. PICK e \in PoolExpirationTimes : pool \in PoolType(PoolSize, e)
  BY DEF PoolTypeOK
<1>2. CASE BorrowSucceeds(pool, time)
  <2> DEFINE b == BorrowedIndex(pool, time)
             used == BorrowedWasUsed(pool, time)
  <2>1. b \in 0 .. PoolSize - 1 /\ (Free(pool, b) \/ Expired(pool, time, b))
    BY <1>1, <1>2, PoolSizeAssumption, BorrowedIsCandidate, CandidateFacts
       DEF BorrowSucceeds
  <2>2. used \in BOOLEAN /\ (used <=> ~ Free(pool, b))
    BY DEF BorrowedWasUsed
  <2>3. b \in DOMAIN PoolItems <=> used
    BY <2>1, <2>2 DEF PoolItems
  <2>4. used => ~ PoolContract!pool_young(time, b)
    BY <2>1, <2>2, <2>3, YoungIsNotExpired
  <2>5. /\ pool'.timestamps = [pool.timestamps EXCEPT ![b] = time]
        /\ pool'.expiration_time = pool.expiration_time
    BY <1>1, <1>2 DEF BorrowCall, index_pool_borrow, PoolType
  <2>6. PoolItems' = PoolContract!Set(b, time)
    BY <2>1, <2>5, SetItem
  <2>7. pool_ret' = [op |-> "index_pool_borrow", time |-> time, result |-> TRUE,
                     index |-> b, used |-> used]
    BY <1>2 DEF BorrowCall
  <2> HIDE DEF b, used
  <2> QED
    BY <2>1, <2>2, <2>3, <2>4, <2>5, <2>6, <2>7
       DEF PoolContract!Borrow, PoolContract!InUse
<1>3. CASE ~ BorrowSucceeds(pool, time)
  <2>1. /\ UNCHANGED pool
        /\ pool_ret' = [op |-> "index_pool_borrow", time |-> time, result |-> FALSE]
    BY <1>3 DEF BorrowCall, index_pool_borrow
  <2>2. \A i \in 0 .. PoolSize - 1 : ~ Free(pool, i) /\ ~ Expired(pool, time, i)
    BY <1>1, <1>3 DEF BorrowSucceeds, Candidates, Available, Indices, PoolType
  <2>3. DOMAIN PoolItems = 0 .. PoolSize - 1
    BY <2>2 DEF PoolItems
  <2>4. \A i \in DOMAIN PoolItems : PoolContract!pool_young(time, i)
    BY <2>2, <2>3, YoungIsNotExpired
  <2>5. UNCHANGED <<PoolItems, pool.expiration_time>>
    BY <2>1 DEF PoolItems, Free
  <2> QED
    BY <2>1, <2>3, <2>4, <2>5 DEF PoolContract!Borrow, PoolContract!InUse
<1> QED
  BY <1>2, <1>3

\* index_pool_refresh does what its contract says.
LEMMA RefreshRefines ==
  ASSUME PoolTypeOK, NEW time \in Clock, NEW i \in 0 .. PoolSize - 1, RefreshCall(time, i)
  PROVE  PoolContract!Refresh(time, i)
<1>1. /\ pool'.timestamps = [pool.timestamps EXCEPT ![i] = time]
      /\ pool'.expiration_time = pool.expiration_time
  BY DEF RefreshCall, index_pool_refresh, PoolTypeOK, PoolType
<1>2. PoolItems' = PoolContract!Set(i, time)
  BY <1>1, SetItem
<1> QED
  BY <1>1, <1>2 DEF RefreshCall, PoolContract!Refresh

\* index_pool_used does what its contract says.
LEMMA UsedRefines ==
  ASSUME PoolTypeOK, NEW time \in Clock, NEW i \in 0 .. PoolSize, UsedCall(time, i)
  PROVE  PoolContract!Used(time, i)
<1>1. pool.size = PoolSize
  BY DEF PoolTypeOK, PoolType
<1>2. i \in DOMAIN PoolItems <=> i < PoolSize /\ ~ Free(pool, i)
  BY PoolSizeAssumption DEF PoolItems
<1>3. index_pool_used(pool, time, i)
        = (i \in DOMAIN PoolItems /\ PoolContract!pool_young(time, i))
  <2>1. CASE i \in DOMAIN PoolItems
    BY <1>1, <1>2, <2>1, YoungIsNotExpired DEF index_pool_used
  <2>2. CASE i \notin DOMAIN PoolItems
    BY <1>1, <1>2, <2>2 DEF index_pool_used
  <2> QED
    BY <2>1, <2>2
<1>4. UNCHANGED <<PoolItems, pool.expiration_time>>
  BY DEF UsedCall, PoolItems, Free
<1> QED
  BY <1>3, <1>4 DEF UsedCall, PoolContract!Used, PoolContract!InUse

\* index_pool_return does what its contract says.
LEMMA ReturnRefines ==
  ASSUME PoolTypeOK, NEW i \in 0 .. PoolSize - 1, ReturnCall(i)
  PROVE  PoolContract!Return(i)
<1>1. /\ pool'.timestamps = [pool.timestamps EXCEPT ![i] = TIME_MAX]
      /\ pool'.expiration_time = pool.expiration_time
  BY DEF ReturnCall, index_pool_return, PoolTypeOK, PoolType
<1> DEFINE D == {j \in 0 .. PoolSize - 1 : ~ Free(pool, j)}
           E == {j \in 0 .. PoolSize - 1 : ~ Free(pool', j)}
<1>2. pool.timestamps \in [0 .. PoolSize - 1 -> Time]
  BY DEF PoolTypeOK, PoolType
<1>3. \A j \in 0 .. PoolSize - 1 :
        pool'.timestamps[j] = IF j = i THEN TIME_MAX ELSE pool.timestamps[j]
  BY <1>1, <1>2
<1>4. E = D \ {i}
  BY <1>3 DEF Free
<1>5. DOMAIN PoolItems = D /\ \A j \in D : PoolItems[j] = pool.timestamps[j]
  BY DEF PoolItems
<1>6. PoolItems' = [j \in E |-> pool'.timestamps[j]]
  BY DEF PoolItems
<1>7. PoolContract!Remove(i) = [j \in D \ {i} |-> PoolItems[j]]
  BY <1>5 DEF PoolContract!Remove, PoolContract!InUse
<1> HIDE DEF D
<1>8. \A j \in D \ {i} : pool'.timestamps[j] = PoolItems[j]
  BY <1>3, <1>5 DEF D
<1>9. PoolItems' = PoolContract!Remove(i)
  BY <1>4, <1>6, <1>7, <1>8
<1> QED
  BY <1>1, <1>9 DEF ReturnCall, PoolContract!Return

\* Every call is a call of the contract.
LEMMA PoolNextRefines ==
  ASSUME PoolTypeOK, [PoolNext]_pool_vars
  PROVE  [PoolContract!Next]_(PoolContract!vars)
<1>1. ASSUME NEW time \in Clock, BorrowCall(time)
      PROVE  PoolContract!Next
  BY <1>1, BorrowRefines DEF PoolContract!Next
<1>2. ASSUME NEW time \in Clock, NEW i \in 0 .. PoolSize - 1, RefreshCall(time, i)
      PROVE  PoolContract!Next
  BY <1>2, RefreshRefines DEF PoolContract!Next
<1>3. ASSUME NEW time \in Clock, NEW i \in 0 .. PoolSize, UsedCall(time, i)
      PROVE  PoolContract!Next
  BY <1>3, UsedRefines DEF PoolContract!Next
<1>4. ASSUME NEW i \in 0 .. PoolSize - 1, ReturnCall(i)
      PROVE  PoolContract!Next
  BY <1>4, ReturnRefines DEF PoolContract!Next
<1>5. CASE UNCHANGED pool_vars
  BY <1>5 DEF pool_vars, PoolContract!vars, PoolItems, Free
<1> QED
  BY <1>1, <1>2, <1>3, <1>4, <1>5 DEF PoolNext

\* index_pool.c implements the contracts of index_pool.h: what klint and the
\* network functions assume of the pool is what the scan, the free marker and
\* the unsigned comparison with the expiration time do.
THEOREM PoolImplementsContract == PoolSpec => ImplementsPoolContract
<1>1. PoolInit => PoolContract!Init
  BY PoolInitRefines
<1>2. PoolTypeOK /\ [PoolNext]_pool_vars => [PoolContract!Next]_(PoolContract!vars)
  BY PoolNextRefines
<1> QED
  BY <1>1, <1>2, PoolTypeCorrect, PTL DEF PoolSpec, ImplementsPoolContract, PoolContract!Spec

-----------------------------------------------------------------------------
(* Flow tables.                                                            *)

\* The part of TableType the other facts depend on.
LEMMA PoolOfTable ==
  ASSUME NEW size \in Nat, NEW e, NEW t \in TableType(size, e)
  PROVE  /\ t.port_allocator \in PoolType(size, e)
         /\ Indices(t.port_allocator) = 0 .. size - 1
         /\ t.flows \in [0 .. size - 1 -> Keys \cup {NoKey}]
<1>1. /\ t.port_allocator \in PoolType(size, e)
      /\ t.flows \in [0 .. size - 1 -> Keys \cup {NoKey}]
  BY DEF TableType
<1>2. t.port_allocator.size = size
  BY <1>1 DEF PoolType
<1> QED
  BY <1>1, <1>2 DEF Indices

\* The fields of the pool of a table.
LEMMA PoolFields ==
  ASSUME NEW size \in Nat, NEW e, NEW t \in TableType(size, e)
  PROVE  /\ t.port_allocator.size = size
         /\ t.port_allocator.expiration_time = e
         /\ \A i \in 0 .. size - 1 : t.port_allocator.timestamps[i] \in Nat
<1>1. t.port_allocator \in PoolType(size, e)
  BY PoolOfTable
<1>2. /\ t.port_allocator.size = size
      /\ t.port_allocator.expiration_time = e
      /\ t.port_allocator.timestamps \in [0 .. size - 1 -> Time]
  BY <1>1 DEF PoolType
<1>3. Time \subseteq Nat
  BY TimeMaxAssumption DEF Time
<1> QED
  BY <1>2, <1>3

\* The known keys are keys.
LEMMA KnownAreKeys ==
  ASSUME NEW size \in Nat, NEW e, NEW t \in TableType(size, e)
  PROVE  Known(t) \subseteq Keys
BY DEF TableType, Known

\* A known key has an index that is not free, where the heap has the key.
LEMMA KnownFacts ==
  ASSUME NEW t, InSync(t), NEW k \in Known(t)
  PROVE  /\ IndexOf(t, k) \in Indices(t.port_allocator)
         /\ ~ Free(t.port_allocator, IndexOf(t, k))
         /\ t.flows[IndexOf(t, k)] = k
         /\ t.flow_indexes[k] = [value |-> IndexOf(t, k), address |-> IndexOf(t, k)]
<1>1. PICK i \in Indices(t.port_allocator) :
        ~ Free(t.port_allocator, i) /\ Maps(t, k, i)
  BY DEF InSync
<1>2. IndexOf(t, k) = i
  BY <1>1 DEF IndexOf, Maps
<1> QED
  BY <1>1, <1>2 DEF Maps

\* Different known keys have different indices.
LEMMA IndexInjective ==
  ASSUME NEW t, InSync(t), NEW k \in Known(t), NEW l \in Known(t),
         IndexOf(t, k) = IndexOf(t, l)
  PROVE  k = l
<1>1. t.flows[IndexOf(t, k)] = k
  BY KnownFacts
<1>2. t.flows[IndexOf(t, l)] = l
  BY KnownFacts
<1> QED
  BY <1>1, <1>2

\* An index that is not free belongs to the key in the heap.
LEMMA UsedFacts ==
  ASSUME NEW t, InSync(t), NEW i \in Indices(t.port_allocator),
         ~ Free(t.port_allocator, i)
  PROVE  /\ t.flows[i] \in Known(t)
         /\ IndexOf(t, t.flows[i]) = i
         /\ t.flow_indexes[t.flows[i]] = [value |-> i, address |-> i]
<1>1. Maps(t, t.flows[i], i)
  BY DEF InSync
<1> QED
  BY <1>1 DEF Maps, IndexOf

-----------------------------------------------------------------------------

\* A table is in sync if its keys are exactly those of its used indices.
LEMMA InSyncIntro ==
  ASSUME NEW size \in Nat, NEW e, NEW t \in TableType(size, e),
         \A i \in 0 .. size - 1 :
           ~ Free(t.port_allocator, i) => Maps(t, t.flows[i], i),
         \A k \in Known(t) :
           \E i \in 0 .. size - 1 : ~ Free(t.port_allocator, i) /\ Maps(t, k, i)
  PROVE  InSync(t)
BY PoolOfTable DEF InSync

\* flow_table_alloc
LEMMA AllocInSync ==
  ASSUME NEW size \in Nat, NEW e
  PROVE  TableAlloc(e, size) \in TableType(size, e) /\ InSync(TableAlloc(e, size))
<1> DEFINE t == TableAlloc(e, size)
<1>1. t.port_allocator \in PoolType(size, e)
  BY TimeMaxAssumption DEF TableAlloc, index_pool_alloc, PoolType, Time
<1>2. t.flow_indexes \in UNION {[S -> [value : 0 .. size - 1, address : 0 .. size - 1]]
                                  : S \in SUBSET Keys}
  <2>1. t.flow_indexes = << >> /\ Known(t) = {}
    BY DEF TableAlloc, Known
  <2>2. << >> \in [{} -> [value : 0 .. size - 1, address : 0 .. size - 1]]
    OBVIOUS
  <2> QED
    BY <2>1, <2>2
<1>3. t \in TableType(size, e)
  BY <1>1, <1>2 DEF TableAlloc, TableType
<1>4. \A i \in 0 .. size - 1 : Free(t.port_allocator, i)
  BY DEF TableAlloc, index_pool_alloc, Free
<1>5. Known(t) = {}
  BY DEF TableAlloc, Known
<1> HIDE DEF t
<1>6. InSync(t)
  BY <1>3, <1>4, <1>5, InSyncIntro
<1> QED
  BY <1>3, <1>6 DEF t

\* Refreshing the index of a known key.
LEMMA RefreshInSync ==
  ASSUME NEW size \in Nat, NEW e, NEW t \in TableType(size, e), InSync(t),
         NEW time \in Clock, NEW i \in 0 .. size - 1, ~ Free(t.port_allocator, i)
  PROVE  /\ Refreshed(t, time, i) \in TableType(size, e)
         /\ InSync(Refreshed(t, time, i))
<1> DEFINE r == Refreshed(t, time, i)
           q == index_pool_refresh(t.port_allocator, time, i)
<1>1. /\ q \in PoolType(size, e)
      /\ \A j \in 0 .. size - 1 : Free(q, j) <=> j # i /\ Free(t.port_allocator, j)
  BY PoolOfTable, RefreshEffect
<1>2. r = [t EXCEPT !.port_allocator = q]
  BY DEF Refreshed
<1> HIDE DEF q
<1>3. r \in TableType(size, e)
  BY <1>1, <1>2 DEF TableType
<1>4. r.port_allocator = q /\ r.flows = t.flows /\ r.flow_indexes = t.flow_indexes
  BY <1>2 DEF TableType
<1>5. \A j \in 0 .. size - 1 : Free(r.port_allocator, j) <=> Free(t.port_allocator, j)
  BY <1>1, <1>4
<1> HIDE DEF r
<1>6. \A k, j : Maps(r, k, j) <=> Maps(t, k, j)
  BY <1>4 DEF Maps, Known
<1>7. InSync(r)
  <2>1. \A j \in 0 .. size - 1 :
          ~ Free(t.port_allocator, j) => Maps(t, t.flows[j], j)
    BY PoolOfTable DEF InSync
  <2>2. \A k \in Known(t) : \E j \in 0 .. size - 1 :
          ~ Free(t.port_allocator, j) /\ Maps(t, k, j)
    BY PoolOfTable DEF InSync
  <2>3. Known(r) = Known(t)
    BY <1>4 DEF Known
  <2> QED
    BY <1>3, <1>4, <1>5, <1>6, <2>1, <2>2, <2>3, InSyncIntro
<1> QED
  BY <1>3, <1>7 DEF r

-----------------------------------------------------------------------------
(* Insertion.                                                              *)

\* The index an insertion writes to, and its effect on the pool.
LEMMA InsertIndexFacts ==
  ASSUME NEW size \in Nat, NEW e, NEW t \in TableType(size, e), InSync(t),
         NEW time \in Clock, HasSpace(t, time)
  PROVE  /\ InsertIndex(t, time) \in 0 .. size - 1
         /\ index_pool_borrow(t.port_allocator, time) \in PoolType(size, e)
         /\ BorrowedWasUsed(t.port_allocator, time)
              <=> ~ Free(t.port_allocator, InsertIndex(t, time))
         /\ \A j \in 0 .. size - 1 :
              Free(index_pool_borrow(t.port_allocator, time), j)
                <=> j # InsertIndex(t, time) /\ Free(t.port_allocator, j)
BY PoolOfTable, BorrowEffect DEF InsertIndex, HasSpace

\* After a possible eviction the map has exactly the keys of other indices.
LEMMA EvictionFacts ==
  ASSUME NEW t, InSync(t), NEW time,
         InsertIndex(t, time) \in Indices(t.port_allocator)
  PROVE  /\ DOMAIN AfterEviction(t, time)
              = {k \in Known(t) : IndexOf(t, k) # InsertIndex(t, time)}
         /\ \A k \in DOMAIN AfterEviction(t, time) :
              AfterEviction(t, time)[k] = t.flow_indexes[k]
<1> DEFINE b == InsertIndex(t, time)
           M == AfterEviction(t, time)
<1>1. BorrowedWasUsed(t.port_allocator, time) <=> ~ Free(t.port_allocator, b)
  BY DEF BorrowedWasUsed, InsertIndex
<1>2. CASE Free(t.port_allocator, b)
  <2>1. M = t.flow_indexes
    BY <1>1, <1>2 DEF AfterEviction
  <2>2. \A k \in Known(t) : IndexOf(t, k) # b
    BY <1>2, KnownFacts
  <2> QED
    BY <2>1, <2>2 DEF Known
<1>3. CASE ~ Free(t.port_allocator, b)
  <2>1. M = MapRemove(t.flow_indexes, t.flows[b])
    BY <1>1, <1>3 DEF AfterEviction
  <2>2. t.flows[b] \in Known(t) /\ IndexOf(t, t.flows[b]) = b
    BY <1>3, UsedFacts
  <2>3. \A k \in Known(t) : IndexOf(t, k) = b <=> k = t.flows[b]
    BY <2>2, IndexInjective
  <2>4. DOMAIN M = Known(t) \ {t.flows[b]}
    BY <2>1 DEF MapRemove, Known
  <2>5. \A k \in DOMAIN M : M[k] = t.flow_indexes[k]
    BY <2>1, <2>4 DEF MapRemove, Known
  <2> HIDE DEF M, b
  <2>6. DOMAIN M = {k \in Known(t) : IndexOf(t, k) # b}
    BY <2>3, <2>4
  <2> QED
    BY <2>5, <2>6 DEF M, b
<1> QED
  BY <1>2, <1>3

\* A table a flow was learnt in keeps its type.
LEMMA InsertedType ==
  ASSUME NEW size \in Nat, NEW e, NEW t \in TableType(size, e), InSync(t),
         NEW time \in Clock, HasSpace(t, time), NEW key \in Keys
  PROVE  Inserted(t, time, key) \in TableType(size, e)
<1> DEFINE b == InsertIndex(t, time)
           r == Inserted(t, time, key)
           M == AfterEviction(t, time)
           R == [value : 0 .. size - 1, address : 0 .. size - 1]
<1>1. b \in 0 .. size - 1 /\ b \in Indices(t.port_allocator)
  BY InsertIndexFacts, PoolOfTable
<1>2. r.port_allocator \in PoolType(size, e)
  BY InsertIndexFacts DEF Inserted
<1>3. r.flows \in [0 .. size - 1 -> Keys \cup {NoKey}]
  <2>1. t.flows \in [0 .. size - 1 -> Keys \cup {NoKey}]
    BY PoolOfTable
  <2>2. r.flows = [t.flows EXCEPT ![b] = key]
    BY DEF Inserted
  <2> HIDE DEF b, r
  <2> QED
    BY <1>1, <2>1, <2>2
<1>4. PICK S \in SUBSET Keys : t.flow_indexes \in [S -> R]
  BY DEF TableType
<1>5. Known(t) = S
  BY <1>4 DEF Known
<1>6. DOMAIN M \subseteq S /\ \A k \in DOMAIN M : M[k] \in R
  <2>1. /\ DOMAIN M = {k \in Known(t) : IndexOf(t, k) # b}
        /\ \A k \in DOMAIN M : M[k] = t.flow_indexes[k]
    BY <1>1, EvictionFacts
  <2> HIDE DEF M, R
  <2> QED
    BY <1>4, <1>5, <2>1
<1>7. [value |-> b, address |-> b] \in R
  BY <1>1
<1>8. r.flow_indexes = [k \in DOMAIN M \cup {key} |->
                          IF k = key THEN [value |-> b, address |-> b] ELSE M[k]]
  BY DEF Inserted, MapSet
<1>9. r = [flows |-> r.flows, flow_indexes |-> r.flow_indexes,
           port_allocator |-> r.port_allocator]
  BY DEF Inserted
<1> HIDE DEF b, r, M, R
<1>10. r.flow_indexes \in [DOMAIN M \cup {key} -> R]
  BY <1>6, <1>7, <1>8
<1>11. DOMAIN M \cup {key} \in SUBSET Keys
  BY <1>6
<1>12. r.flow_indexes \in UNION {[T -> R] : T \in SUBSET Keys}
  BY <1>10, <1>11
<1>13. r \in TableType(size, e)
  BY <1>2, <1>3, <1>9, <1>12 DEF TableType, R
<1> QED
  BY <1>13 DEF r

\* Borrowing an index, evicting its key and mapping the new one keeps the
\* three parts in sync.
LEMMA InsertInSync ==
  ASSUME NEW size \in Nat, NEW e, NEW t \in TableType(size, e), InSync(t),
         NEW time \in Clock, HasSpace(t, time),
         NEW key \in Keys, key \notin Known(t)
  PROVE  InSync(Inserted(t, time, key))
<1> DEFINE b == InsertIndex(t, time)
           r == Inserted(t, time, key)
           M == AfterEviction(t, time)
<1>1. r \in TableType(size, e)
  BY InsertedType
<1>2. /\ b \in 0 .. size - 1
      /\ \A j \in 0 .. size - 1 :
           Free(r.port_allocator, j) <=> j # b /\ Free(t.port_allocator, j)
  BY InsertIndexFacts DEF Inserted
<1>3. /\ t.flows \in [0 .. size - 1 -> Keys \cup {NoKey}]
      /\ Indices(t.port_allocator) = 0 .. size - 1
  BY PoolOfTable
<1>4. /\ r.flows[b] = key
      /\ \A j \in 0 .. size - 1 : j # b => r.flows[j] = t.flows[j]
  <2>1. r.flows = [t.flows EXCEPT ![b] = key]
    BY DEF Inserted
  <2> HIDE DEF b, r
  <2> QED
    BY <1>2, <1>3, <2>1
<1>5. /\ DOMAIN M = {k \in Known(t) : IndexOf(t, k) # b}
      /\ Known(r) = DOMAIN M \cup {key}
      /\ r.flow_indexes[key] = [value |-> b, address |-> b]
      /\ \A k \in DOMAIN M : k # key => r.flow_indexes[k] = t.flow_indexes[k]
  <2>1. b \in Indices(t.port_allocator)
    BY <1>2, <1>3
  <2>2. DOMAIN M = {k \in Known(t) : IndexOf(t, k) # b}
    BY <2>1, EvictionFacts
  <2>3. \A k \in DOMAIN M : M[k] = t.flow_indexes[k]
    BY <2>1, EvictionFacts
  <2>4. /\ Known(r) = DOMAIN M \cup {key}
        /\ r.flow_indexes[key] = [value |-> b, address |-> b]
        /\ \A k \in DOMAIN M : k # key => r.flow_indexes[k] = t.flow_indexes[k]
    BY <2>3 DEF Inserted, MapSet, Known
  <2> QED
    BY <2>2, <2>4
<1> HIDE DEF b, r, M
<1>6. Maps(r, key, b)
  BY <1>4, <1>5 DEF Maps
<1>7. ASSUME NEW k \in DOMAIN M
      PROVE  /\ IndexOf(t, k) \in 0 .. size - 1
             /\ ~ Free(r.port_allocator, IndexOf(t, k))
             /\ Maps(r, k, IndexOf(t, k))
  <2> DEFINE i == IndexOf(t, k)
  <2>1. k \in Known(t) /\ i # b /\ k # key
    BY <1>5
  <2>2. /\ i \in 0 .. size - 1
        /\ ~ Free(t.port_allocator, i)
        /\ t.flows[i] = k
        /\ t.flow_indexes[k] = [value |-> i, address |-> i]
    BY <1>3, <2>1, KnownFacts
  <2> HIDE DEF i
  <2>3. Maps(r, k, i)
    BY <1>4, <1>5, <2>1, <2>2 DEF Maps
  <2> QED
    BY <1>2, <2>2, <2>3 DEF i
<1>8. ASSUME NEW i \in 0 .. size - 1, ~ Free(r.port_allocator, i), i # b
      PROVE  Maps(r, r.flows[i], i)
  <2>1. ~ Free(t.port_allocator, i)
    BY <1>2, <1>8
  <2>2. t.flows[i] \in Known(t) /\ IndexOf(t, t.flows[i]) = i
    BY <1>3, <2>1, UsedFacts
  <2>3. t.flows[i] \in DOMAIN M /\ r.flows[i] = t.flows[i]
    BY <1>4, <1>5, <1>8, <2>2
  <2> QED
    BY <1>7, <2>2, <2>3
<1>9. \A i \in 0 .. size - 1 :
        ~ Free(r.port_allocator, i) => Maps(r, r.flows[i], i)
  BY <1>4, <1>6, <1>8
<1>10. ~ Free(r.port_allocator, b)
  BY <1>2
<1>11. \A k \in Known(r) : \E i \in 0 .. size - 1 :
         ~ Free(r.port_allocator, i) /\ Maps(r, k, i)
  BY <1>2, <1>5, <1>6, <1>7, <1>10
<1>12. InSync(r)
  BY <1>1, <1>9, <1>11, InSyncIntro
<1> QED
  BY <1>12 DEF r

\* The calls an insertion makes are the ones map.h allows: there is room for
\* the key since the keys in the map have as many different indices, none of
\* them the one that was borrowed.
LEMMA InsertLegal ==
  ASSUME NEW size \in Nat, NEW e, NEW t \in TableType(size, e), InSync(t),
         NEW time \in Clock, HasSpace(t, time),
         NEW key \in Keys, key \notin Known(t)
  PROVE  InsertIsLegal(t, time, key)
<1> DEFINE b == InsertIndex(t, time)
           M == AfterEviction(t, time)
           others == (0 .. size - 1) \ {b}
           f == [k \in DOMAIN M |-> IndexOf(t, k)]
<1>1. b \in 0 .. size - 1 /\ Indices(t.port_allocator) = 0 .. size - 1
  BY InsertIndexFacts, PoolOfTable
<1>2. /\ DOMAIN M = {k \in Known(t) : IndexOf(t, k) # b}
      /\ \A k \in DOMAIN M : M[k] = t.flow_indexes[k]
  BY <1>1, EvictionFacts
<1>3. ASSUME NEW k \in DOMAIN M
      PROVE  IndexOf(t, k) \in others /\ M[k].address = IndexOf(t, k)
  <2>1. k \in Known(t) /\ IndexOf(t, k) # b /\ M[k] = t.flow_indexes[k]
    BY <1>2
  <2>2. /\ IndexOf(t, k) \in 0 .. size - 1
        /\ t.flow_indexes[k] = [value |-> IndexOf(t, k), address |-> IndexOf(t, k)]
    BY <1>1, <2>1, KnownFacts
  <2> HIDE DEF b, M
  <2> QED
    BY <2>1, <2>2
<1>4. Cardinality(DOMAIN M) < size
  <2>1. f \in [DOMAIN M -> others]
    BY <1>3
  <2>2. ASSUME NEW k \in DOMAIN M, NEW l \in DOMAIN M, f[k] = f[l]
        PROVE  k = l
    BY <1>2, <2>2, IndexInjective
  <2>3. f \in Injection(DOMAIN M, others)
    BY <2>1, <2>2 DEF Injection, IsInjective
  <2>4. IsFiniteSet(0 .. size - 1) /\ Cardinality(0 .. size - 1) = size
    BY <1>1, FS_Interval
  <2>5. IsFiniteSet(others) /\ Cardinality(others) = size - 1
    <3>1. /\ IsFiniteSet(others)
          /\ Cardinality(others) = Cardinality(0 .. size - 1) - 1
      BY <1>1, <2>4, FS_RemoveElement, Zenon
    <3> QED
      BY <2>4, <3>1
  <2> HIDE DEF f, others, M
  <2>6. IsFiniteSet(DOMAIN M) /\ Cardinality(DOMAIN M) <= size - 1
    BY <2>3, <2>5, FS_Injection
  <2>7. Cardinality(DOMAIN M) \in Nat
    BY <2>6, FS_CardinalityType
  <2> QED
    BY <2>6, <2>7
<1>5. \A k \in DOMAIN M : M[k].address # b
  BY <1>3
<1>6. BorrowedWasUsed(t.port_allocator, time) =>
        t.flows[b] \in Known(t) /\ t.flow_indexes[t.flows[b]].address = b
  <2>1. CASE Free(t.port_allocator, b)
    BY <2>1, InsertIndexFacts
  <2>2. CASE ~ Free(t.port_allocator, b)
    <3>1. /\ t.flows[b] \in Known(t)
          /\ t.flow_indexes[t.flows[b]] = [value |-> b, address |-> b]
      BY <1>1, <2>2, UsedFacts
    <3> HIDE DEF b
    <3> QED
      BY <3>1
  <2> QED
    BY <2>1, <2>2
<1>7. key \notin DOMAIN M
  BY <1>2
<1>8. t.port_allocator.size = size
  BY PoolOfTable DEF PoolType
<1> QED
  BY <1>4, <1>5, <1>6, <1>7, <1>8 DEF InsertIsLegal

-----------------------------------------------------------------------------
(* What the operations do to the keys, their indices and their times.      *)

\* Refreshing an index changes nothing but its time.
LEMMA RefreshedFacts ==
  ASSUME NEW size \in Nat, NEW e, NEW t \in TableType(size, e), NEW time, NEW i
  PROVE  /\ Known(Refreshed(t, time, i)) = Known(t)
         /\ \A k : IndexOf(Refreshed(t, time, i), k) = IndexOf(t, k)
         /\ Refreshed(t, time, i).flows = t.flows
         /\ \A j \in 0 .. size - 1 :
              Refreshed(t, time, i).port_allocator.timestamps[j]
                = IF j = i THEN time ELSE t.port_allocator.timestamps[j]
<1> DEFINE r == Refreshed(t, time, i)
           q == index_pool_refresh(t.port_allocator, time, i)
<1>1. \A j \in 0 .. size - 1 :
        q.timestamps[j] = IF j = i THEN time ELSE t.port_allocator.timestamps[j]
  BY PoolOfTable DEF index_pool_refresh, PoolType
<1>2. r = [t EXCEPT !.port_allocator = q]
  BY DEF Refreshed
<1> HIDE DEF q
<1>3. r.port_allocator = q /\ r.flows = t.flows /\ r.flow_indexes = t.flow_indexes
  BY <1>2 DEF TableType
<1> HIDE DEF r
<1>4. Known(r) = Known(t) /\ \A k : IndexOf(r, k) = IndexOf(t, k)
  BY <1>3 DEF Known, IndexOf
<1> QED
  BY <1>1, <1>3, <1>4 DEF r

\* A new key takes an index that was free or had expired, and the place of the
\* key that had it; the others keep theirs.
LEMMA InsertedFacts ==
  ASSUME NEW size \in Nat, NEW e, NEW t \in TableType(size, e), InSync(t),
         NEW time \in Clock, HasSpace(t, time),
         NEW key \in Keys, key \notin Known(t)
  PROVE  LET b == InsertIndex(t, time)
             r == Inserted(t, time, key)
         IN  /\ b \in 0 .. size - 1
             /\ Free(t.port_allocator, b) \/ Expired(t.port_allocator, time, b)
             /\ Known(r) = {k \in Known(t) : IndexOf(t, k) # b} \cup {key}
             /\ IndexOf(r, key) = b
             /\ \A k \in Known(t) : IndexOf(t, k) # b => IndexOf(r, k) = IndexOf(t, k)
             /\ \A j \in 0 .. size - 1 :
                  /\ r.flows[j] = IF j = b THEN key ELSE t.flows[j]
                  /\ r.port_allocator.timestamps[j]
                       = IF j = b THEN time ELSE t.port_allocator.timestamps[j]
<1> DEFINE b == InsertIndex(t, time)
           r == Inserted(t, time, key)
           M == AfterEviction(t, time)
<1>1. /\ b \in 0 .. size - 1
      /\ Free(t.port_allocator, b) \/ Expired(t.port_allocator, time, b)
      /\ \A j \in 0 .. size - 1 :
           index_pool_borrow(t.port_allocator, time).timestamps[j]
             = IF j = b THEN time ELSE t.port_allocator.timestamps[j]
  <2> DEFINE p == t.port_allocator
  <2>1. p \in PoolType(size, e) /\ BorrowSucceeds(p, time)
    BY PoolOfTable DEF HasSpace
  <2>2. b = BorrowedIndex(p, time)
    BY DEF InsertIndex
  <2> HIDE DEF p, b
  <2>3. /\ b \in 0 .. size - 1
        /\ Free(p, b) \/ Expired(p, time, b)
        /\ index_pool_borrow(p, time).timestamps = [p.timestamps EXCEPT ![b] = time]
    <3>1. /\ BorrowedIndex(p, time) \in 0 .. size - 1
          /\ Free(p, BorrowedIndex(p, time)) \/ Expired(p, time, BorrowedIndex(p, time))
          /\ index_pool_borrow(p, time).timestamps
               = [p.timestamps EXCEPT ![BorrowedIndex(p, time)] = time]
      BY <2>1, BorrowEffect
    <3> QED
      BY <2>2, <3>1, Zenon
  <2>4. p.timestamps \in [0 .. size - 1 -> Time]
    BY <2>1 DEF PoolType
  <2> QED
    BY <2>3, <2>4 DEF p
<1>2. b \in Indices(t.port_allocator)
  BY <1>1, PoolOfTable
<1>3. /\ DOMAIN M = {k \in Known(t) : IndexOf(t, k) # b}
      /\ \A k \in DOMAIN M : M[k] = t.flow_indexes[k]
  BY <1>2, EvictionFacts
<1>4. /\ r.flows = [t.flows EXCEPT ![b] = key]
      /\ r.port_allocator = index_pool_borrow(t.port_allocator, time)
      /\ r.flow_indexes = [k \in DOMAIN M \cup {key} |->
                             IF k = key THEN [value |-> b, address |-> b] ELSE M[k]]
  BY DEF Inserted, MapSet
<1> HIDE DEF b, r, M
<1>5. Known(r) = {k \in Known(t) : IndexOf(t, k) # b} \cup {key}
  BY <1>3, <1>4 DEF Known
<1>6. r.flow_indexes[key] = [value |-> b, address |-> b]
  BY <1>4
<1>7. \A k \in DOMAIN M : r.flow_indexes[k] = t.flow_indexes[k]
  BY <1>3, <1>4
<1>8. IndexOf(r, key) = b
  BY <1>6 DEF IndexOf
<1>9. \A k \in Known(t) : IndexOf(t, k) # b => IndexOf(r, k) = IndexOf(t, k)
  BY <1>3, <1>7 DEF IndexOf
<1>10. \A j \in 0 .. size - 1 : r.flows[j] = IF j = b THEN key ELSE t.flows[j]
  BY <1>4, PoolOfTable
<1> QED
  BY <1>1, <1>4, <1>5, <1>8, <1>9, <1>10 DEF b, r

\* When nothing can be borrowed, every index is used by a young key.
LEMMA NoSpaceFacts ==
  ASSUME NEW size \in Nat, NEW e, NEW t \in TableType(size, e),
         NEW time, ~ HasSpace(t, time), NEW i \in 0 .. size - 1
  PROVE  ~ Free(t.port_allocator, i) /\ ~ Expired(t.port_allocator, time, i)
BY PoolOfTable DEF HasSpace, BorrowSucceeds, Candidates, Available

\* The known keys are as many as the indices in use: at most as many as the
\* table has, fewer if one is free, and all of them if none is.
LEMMA KnownCount ==
  ASSUME NEW size \in Nat, NEW e, NEW t \in TableType(size, e), InSync(t)
  PROVE  /\ IsFiniteSet(Known(t))
         /\ Cardinality(Known(t)) \in 0 .. size
         /\ (\E i \in 0 .. size - 1 : Free(t.port_allocator, i))
              => Cardinality(Known(t)) < size
         /\ (\A i \in 0 .. size - 1 : ~ Free(t.port_allocator, i))
              => Cardinality(Known(t)) = size
<1> DEFINE used == {i \in 0 .. size - 1 : ~ Free(t.port_allocator, i)}
           f == [k \in Known(t) |-> IndexOf(t, k)]
<1>1. Indices(t.port_allocator) = 0 .. size - 1
  BY PoolOfTable
<1>2. \A k \in Known(t) : IndexOf(t, k) \in used
  BY <1>1, KnownFacts
<1>3. \A i \in used : t.flows[i] \in Known(t) /\ IndexOf(t, t.flows[i]) = i
  BY <1>1, UsedFacts
<1>4. f \in Injection(Known(t), used) /\ f \in Surjection(Known(t), used)
  <2>1. f \in [Known(t) -> used]
    BY <1>2
  <2>2. \A k, l \in Known(t) : f[k] = f[l] => k = l
    BY IndexInjective
  <2>3. \A i \in used : \E k \in Known(t) : f[k] = i
    BY <1>3
  <2> HIDE DEF f, used
  <2> QED
    BY <2>1, <2>2, <2>3 DEF Injection, Surjection, IsInjective
<1>5. IsFiniteSet(0 .. size - 1) /\ Cardinality(0 .. size - 1) = size
  BY FS_Interval
<1>6. used \subseteq 0 .. size - 1
  OBVIOUS
<1>7. (\E i \in 0 .. size - 1 : Free(t.port_allocator, i)) => used # 0 .. size - 1
  OBVIOUS
<1>8. (\A i \in 0 .. size - 1 : ~ Free(t.port_allocator, i)) => used = 0 .. size - 1
  OBVIOUS
<1> HIDE DEF used, f
<1>9. IsFiniteSet(used) /\ Cardinality(used) <= size
  BY <1>5, <1>6, FS_Subset
<1>10. used # 0 .. size - 1 => Cardinality(used) # size
  BY <1>5, <1>6, FS_Subset
<1>11. IsFiniteSet(Known(t)) /\ Cardinality(Known(t)) = Cardinality(used)
  BY <1>4, <1>9, FS_Injection
<1>12. Cardinality(used) \in Nat
  BY <1>9, FS_CardinalityType
<1> QED
  BY <1>5, <1>7, <1>8, <1>9, <1>10, <1>11, <1>12

=============================================================================
