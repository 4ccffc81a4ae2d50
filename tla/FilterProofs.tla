---------------------------- MODULE FilterProofs -----------------------------
(***************************************************************************)
(* Proofs about the two network functions that only forward packets or     *)
(* drop them.  The firewall keeps its table in sync, calls the map within  *)
(* its contract and implements FlowFilter, for any number of flows, any    *)
(* expiration time and any clock.  The policer's buckets hold what every   *)
(* address would have in a bucket of its own, for any number of addresses  *)
(* and flows, any rate and any burst that does not overflow.               *)
(***************************************************************************)
EXTENDS Firewall, Policer, FlowTableProofs

-----------------------------------------------------------------------------
(* The firewall.                                                           *)


FirewallInv == FirewallTypeOK /\ FlowTableInSync

\* The alloc calls of nf_init give an empty table that is in sync.
LEMMA FirewallInvInit == FirewallInit => FirewallInv
BY AllocInSync, FlowsAssumption DEF FirewallInit, FirewallInv, FirewallTypeOK, FlowTableInSync

\* The index of a known flow, as the lemmas on tables want it.
LEMMA KnownIndex ==
  ASSUME FirewallInv, NEW flow \in Known(flow_table)
  PROVE  /\ IndexOf(flow_table, flow) \in 0 .. max_flows - 1
         /\ ~ Free(flow_table.port_allocator, IndexOf(flow_table, flow))
<1>1. Indices(flow_table.port_allocator) = 0 .. max_flows - 1
  BY PoolOfTable, FlowsAssumption DEF FirewallInv, FirewallTypeOK
<1> QED
  BY <1>1, KnownFacts DEF FirewallInv, FlowTableInSync

\* index_pool_refresh on a known flow keeps the table in sync.
LEMMA RefreshInv ==
  ASSUME FirewallInv, NEW flow \in Known(flow_table), NEW time \in Clock,
         flow_table' = Refreshed(flow_table, time, IndexOf(flow_table, flow)),
         handled'.verdict = "forward"
  PROVE  FirewallInv'
<1>1. /\ Refreshed(flow_table, time, IndexOf(flow_table, flow))
           \in TableType(max_flows, expiration_time)
      /\ InSync(Refreshed(flow_table, time, IndexOf(flow_table, flow)))
  BY KnownIndex, RefreshInSync, FlowsAssumption DEF FirewallInv, FirewallTypeOK, FlowTableInSync
<1> QED
  BY <1>1 DEF FirewallInv, FirewallTypeOK, FlowTableInSync

\* Learning a new flow, evicting an expired one if needed, keeps the table in
\* sync.
LEMMA InsertInv ==
  ASSUME FirewallInv, NEW flow \in Keys, flow \notin Known(flow_table), NEW time \in Clock,
         HasSpace(flow_table, time), flow_table' = Inserted(flow_table, time, flow),
         handled'.verdict = "forward"
  PROVE  FirewallInv'
<1>1. Inserted(flow_table, time, flow) \in TableType(max_flows, expiration_time)
  BY InsertedType, FlowsAssumption DEF FirewallInv, FirewallTypeOK, FlowTableInSync
<1>2. InSync(Inserted(flow_table, time, flow))
  BY InsertInSync, FlowsAssumption DEF FirewallInv, FirewallTypeOK, FlowTableInSync
<1> QED
  BY <1>1, <1>2 DEF FirewallInv, FirewallTypeOK, FlowTableInSync

\* Every call to nf_handle keeps the table in sync.
LEMMA FirewallInvNext ==
  ASSUME FirewallInv, [FirewallNext]_firewall_vars
  PROVE  FirewallInv'
<1>1. CASE OtherPacket
  BY <1>1 DEF OtherPacket, FirewallInv, FirewallTypeOK, FlowTableInSync
<1>2. ASSUME NEW flow \in Keys, NEW time \in Clock, InternalDevicePacket(flow, time)
      PROVE  FirewallInv'
  <2>1. CASE flow \in Known(flow_table)
    BY <1>2, <2>1, RefreshInv DEF InternalDevicePacket, Learnt, Handle
  <2>2. CASE flow \notin Known(flow_table) /\ HasSpace(flow_table, time)
    BY <1>2, <2>2, InsertInv DEF InternalDevicePacket, Learnt, Handle
  <2>3. CASE flow \notin Known(flow_table) /\ ~ HasSpace(flow_table, time)
    BY <1>2, <2>3 DEF InternalDevicePacket, Learnt, Handle, FirewallInv, FirewallTypeOK, FlowTableInSync
  <2> QED
    BY <2>1, <2>2, <2>3
<1>3. ASSUME NEW flow \in Keys, NEW time \in Clock, ExternalDevicePacket(flow, time)
      PROVE  FirewallInv'
  <2>1. CASE HasExternal(flow, time)
    BY <1>3, <2>1, RefreshInv DEF ExternalDevicePacket, HasExternal, Handle
  <2>2. CASE ~ HasExternal(flow, time)
    BY <1>3, <2>2 DEF ExternalDevicePacket, Handle, FirewallInv, FirewallTypeOK, FlowTableInSync
  <2> QED
    BY <2>1, <2>2
<1>4. CASE UNCHANGED firewall_vars
  BY <1>4 DEF firewall_vars, FirewallInv, FirewallTypeOK, FlowTableInSync
<1> QED
  BY <1>1, <1>2, <1>3, <1>4 DEF FirewallNext

\* Types and agreement hold after any sequence of packets.
LEMMA FirewallInvAlways == FirewallSpec => []FirewallInv
BY FirewallInvInit, FirewallInvNext, PTL DEF FirewallSpec

\* Table and verdict keep their types.
THEOREM FirewallTypeCorrect == FirewallSpec => []FirewallTypeOK
<1>1. FirewallInv => FirewallTypeOK
  BY DEF FirewallInv
<1> QED
  BY <1>1, FirewallInvAlways, PTL

\* Heap, map and pool of the firewall describe the same flows after every
\* packet, whatever expired and was evicted before.
THEOREM FirewallTableInSync == FirewallSpec => []FlowTableInSync
<1>1. FirewallInv => FlowTableInSync
  BY DEF FirewallInv
<1> QED
  BY <1>1, FirewallInvAlways, PTL

\* flow_table_learn_internal never breaks the contracts of map.h: it removes
\* only keys that are there, at the address they were set with, and sets only
\* keys that are not, when there is room, at an address the map does not own.
THEOREM FirewallCallsAreLegal == FirewallSpec => []CallsAreLegal
<1>1. FirewallInv => CallsAreLegal
  BY InsertLegal, FlowsAssumption DEF FirewallInv, FirewallTypeOK, FlowTableInSync, CallsAreLegal
<1> QED
  BY <1>1, FirewallInvAlways, PTL

-----------------------------------------------------------------------------
(* The firewall implements FlowFilter.                                     *)

\* What the firewall knows of a flow: index_pool_used and the test of
\* index_pool_borrow agree with the filter on whether it is young.
LEMMA KnownIsYoung ==
  ASSUME FirewallInv, NEW flow \in Known(flow_table), NEW time \in Clock
  PROVE  /\ Expired(flow_table.port_allocator, time, IndexOf(flow_table, flow))
              <=> ~ Filter!IsYoung(flow, time)
         /\ Young(flow_table, time, flow) <=> Filter!IsYoung(flow, time)
<1> DEFINE i == IndexOf(flow_table, flow)
           stamp == flow_table.port_allocator.timestamps[i]
<1>1. i \in 0 .. max_flows - 1 /\ ~ Free(flow_table.port_allocator, i)
  BY KnownIndex
<1>2. /\ flow_table.port_allocator.size = max_flows
      /\ flow_table.port_allocator.expiration_time = expiration_time
      /\ stamp \in Nat
  BY <1>1, PoolFields, FlowsAssumption DEF FirewallInv, FirewallTypeOK
<1>3. time \in Nat /\ expiration_time \in Nat
  BY TimeMaxAssumption, FirewallExpirationAssumption DEF Clock, Time
<1>4. LastUse[flow] = stamp
  BY DEF LastUse
<1>5. Expired(flow_table.port_allocator, time, i)
        <=> time >= expiration_time /\ time - expiration_time > stamp
  BY <1>2 DEF Expired
<1>6. Filter!IsYoung(flow, time)
        <=> time < expiration_time \/ time - expiration_time <= stamp
  BY <1>4 DEF Filter!IsYoung
<1>7. Young(flow_table, time, flow) <=> ~ Expired(flow_table.port_allocator, time, i)
  BY <1>1, <1>2, FlowsAssumption DEF Young, index_pool_used
<1> HIDE DEF stamp, i
<1>8. Expired(flow_table.port_allocator, time, i) <=> ~ Filter!IsYoung(flow, time)
  BY <1>2, <1>3, <1>5, <1>6
<1> QED
  BY <1>7, <1>8 DEF i

\* Refreshing a known flow is using it.
LEMMA RefreshUse ==
  ASSUME FirewallInv, NEW flow \in Known(flow_table), NEW time \in Clock,
         flow_table' = Refreshed(flow_table, time, IndexOf(flow_table, flow))
  PROVE  LastUse' = Filter!Use(flow, time, DOMAIN LastUse)
<1> DEFINE ts == flow_table.port_allocator.timestamps
           i  == IndexOf(flow_table, flow)
<1>1. /\ Known(flow_table') = Known(flow_table)
      /\ \A k : IndexOf(flow_table', k) = IndexOf(flow_table, k)
      /\ \A j \in 0 .. max_flows - 1 :
           flow_table'.port_allocator.timestamps[j] = IF j = i THEN time ELSE ts[j]
  <2>1. flow_table \in TableType(max_flows, expiration_time)
    BY DEF FirewallInv, FirewallTypeOK
  <2> QED
    BY <2>1, RefreshedFacts, FlowsAssumption
<1>2. \A k \in Known(flow_table) :
        /\ IndexOf(flow_table, k) \in 0 .. max_flows - 1
        /\ IndexOf(flow_table, k) = i <=> k = flow
  BY KnownIndex, IndexInjective DEF FirewallInv, FlowTableInSync
<1>3. DOMAIN LastUse = Known(flow_table) /\ \A k \in Known(flow_table) : LastUse[k] = ts[IndexOf(flow_table, k)]
  BY DEF LastUse
<1>4. LastUse' = [k \in Known(flow_table) |->
                    flow_table'.port_allocator.timestamps[IndexOf(flow_table', k)]]
  BY <1>1 DEF LastUse
<1>5. Filter!Use(flow, time, DOMAIN LastUse)
        = [k \in Known(flow_table) \cup {flow} |-> IF k = flow THEN time ELSE LastUse[k]]
  BY <1>3 DEF Filter!Use
<1> HIDE DEF ts, i
<1>6. \A k \in Known(flow_table) :
        flow_table'.port_allocator.timestamps[IndexOf(flow_table', k)]
          = IF k = flow THEN time ELSE LastUse[k]
  BY <1>1, <1>2, <1>3
<1>7. Known(flow_table) \cup {flow} = Known(flow_table)
  OBVIOUS
<1> QED
  BY <1>4, <1>5, <1>6, <1>7

\* Learning a flow is using it, along with the flows of other indices.
LEMMA InsertUse ==
  ASSUME FirewallInv, NEW flow \in Keys, flow \notin Known(flow_table), NEW time \in Clock,
         HasSpace(flow_table, time), flow_table' = Inserted(flow_table, time, flow)
  PROVE  LastUse' = Filter!Use(flow, time,
                      {k \in Known(flow_table) : IndexOf(flow_table, k) # InsertIndex(flow_table, time)})
<1> DEFINE ts == flow_table.port_allocator.timestamps
           b  == InsertIndex(flow_table, time)
           others == {k \in Known(flow_table) : IndexOf(flow_table, k) # b}
<1>1. /\ b \in 0 .. max_flows - 1
      /\ Known(flow_table') = others \cup {flow}
      /\ IndexOf(flow_table', flow) = b
      /\ \A k \in Known(flow_table) : IndexOf(flow_table, k) # b => IndexOf(flow_table', k) = IndexOf(flow_table, k)
      /\ \A j \in 0 .. max_flows - 1 :
           flow_table'.port_allocator.timestamps[j] = IF j = b THEN time ELSE ts[j]
  <2>1. flow_table \in TableType(max_flows, expiration_time) /\ InSync(flow_table)
    BY DEF FirewallInv, FirewallTypeOK, FlowTableInSync
  <2> QED
    BY <2>1, InsertedFacts, FlowsAssumption
<1>2. \A k \in others :
        /\ k \in Known(flow_table) /\ k # flow
        /\ IndexOf(flow_table, k) \in (0 .. max_flows - 1) \ {b}
        /\ IndexOf(flow_table', k) = IndexOf(flow_table, k)
  BY <1>1, KnownIndex
<1>3. \A k \in Known(flow_table) : LastUse[k] = ts[IndexOf(flow_table, k)]
  BY DEF LastUse
<1>4. LastUse' = [k \in others \cup {flow} |->
                    flow_table'.port_allocator.timestamps[IndexOf(flow_table', k)]]
  BY <1>1 DEF LastUse
<1>5. Filter!Use(flow, time, others)
        = [k \in others \cup {flow} |-> IF k = flow THEN time ELSE LastUse[k]]
  BY DEF Filter!Use
<1> HIDE DEF ts, b, others
<1>6. \A k \in others \cup {flow} :
        flow_table'.port_allocator.timestamps[IndexOf(flow_table', k)]
          = IF k = flow THEN time ELSE LastUse[k]
  BY <1>1, <1>2, <1>3
<1>7. LastUse' = Filter!Use(flow, time, others)
  BY <1>4, <1>5, <1>6
<1> QED
  BY <1>7 DEF others, b

\* Nothing is known of a new table.
LEMMA InitRefines == FirewallInit => Filter!Init
<1> SUFFICES ASSUME FirewallInit PROVE Filter!Init
  OBVIOUS
<1>1. Known(flow_table) = {}
  BY DEF FirewallInit, TableAlloc, Known
<1>2. LastUse = [f \in {} |-> flow_table.port_allocator.timestamps[IndexOf(flow_table, f)]]
  BY <1>1 DEF LastUse
<1>3. LastUse = << >>
  BY <1>2
<1> QED
  BY <1>3 DEF FirewallInit, Filter!Init

\* Both modules count alike.
LEMMA SameCardinality == \A S : Filter!Cardinality(S) = Cardinality(S)
BY DEF Filter!Cardinality, Cardinality

\* A packet of the internal device, learnt or not.
LEMMA InternalRefines ==
  ASSUME FirewallInv, NEW flow \in Keys, NEW time \in Clock, InternalDevicePacket(flow, time)
  PROVE  Filter!Outgoing(flow, time)
<1> DEFINE i == InsertIndex(flow_table, time)
           others == {k \in Known(flow_table) : IndexOf(flow_table, k) # i}
<1>1. Filter!Handle("internal", flow, time, "forward")
  BY DEF InternalDevicePacket, Handle, Filter!Handle
<1>2. DOMAIN LastUse = Known(flow_table)
  BY DEF LastUse
<1>3. flow_table \in TableType(max_flows, expiration_time) /\ InSync(flow_table)
  BY DEF FirewallInv, FirewallTypeOK, FlowTableInSync
<1>4. flow_table' = Learnt(flow, time)
  BY DEF InternalDevicePacket
<1>5. CASE flow \in Known(flow_table)
  <2>1. LastUse' = Filter!Use(flow, time, DOMAIN LastUse)
    BY <1>4, <1>5, RefreshUse DEF Learnt
  <2> QED
    BY <1>1, <1>2, <1>5, <2>1 DEF Filter!Outgoing
<1>6. CASE flow \notin Known(flow_table) /\ HasSpace(flow_table, time)
  <2>1. LastUse' = Filter!Use(flow, time, others)
    BY <1>4, <1>6, InsertUse DEF Learnt
  <2>2. /\ i \in 0 .. max_flows - 1
        /\ Free(flow_table.port_allocator, i) \/ Expired(flow_table.port_allocator, time, i)
    BY <1>3, <1>6, InsertedFacts, FlowsAssumption
  <2>3. i \in Indices(flow_table.port_allocator)
    BY <1>3, <2>2, PoolOfTable, FlowsAssumption
  <2>4. CASE Free(flow_table.port_allocator, i)
    <3>1. others = Known(flow_table)
      BY <2>4, KnownIndex
    <3>2. Cardinality(DOMAIN LastUse) < max_flows
      BY <1>2, <1>3, <2>2, <2>4, KnownCount, FlowsAssumption
    <3>3. LastUse' = Filter!Use(flow, time, DOMAIN LastUse)
      BY <1>2, <2>1, <3>1
    <3> QED
      BY <1>1, <3>2, <3>3, SameCardinality DEF Filter!Outgoing
  <2>5. CASE ~ Free(flow_table.port_allocator, i)
    <3> DEFINE g == flow_table.flows[i]
    <3>1. g \in Known(flow_table) /\ IndexOf(flow_table, g) = i
      BY <1>3, <2>3, <2>5, UsedFacts
    <3>2. others = Known(flow_table) \ {g}
      <4>1. \A k \in Known(flow_table) : IndexOf(flow_table, k) = i <=> k = g
        BY <1>3, <3>1, IndexInjective
      <4> HIDE DEF i, g
      <4> QED
        BY <4>1
    <3>3. ~ Filter!IsYoung(g, time)
      BY <2>2, <2>5, <3>1, KnownIsYoung
    <3> HIDE DEF g, others
    <3> QED
      BY <1>1, <1>2, <1>6, <2>1, <3>1, <3>2, <3>3 DEF Filter!Outgoing
  <2> QED
    BY <2>4, <2>5
<1>7. CASE flow \notin Known(flow_table) /\ ~ HasSpace(flow_table, time)
  <2>1. \A j \in 0 .. max_flows - 1 :
          ~ Free(flow_table.port_allocator, j) /\ ~ Expired(flow_table.port_allocator, time, j)
    BY <1>3, <1>7, NoSpaceFacts, FlowsAssumption
  <2>2. Cardinality(DOMAIN LastUse) = max_flows
    BY <1>2, <1>3, <2>1, KnownCount, FlowsAssumption
  <2>3. \A g \in DOMAIN LastUse : Filter!IsYoung(g, time)
    BY <1>2, <2>1, KnownIndex, KnownIsYoung
  <2>4. UNCHANGED LastUse
    BY <1>4, <1>7 DEF Learnt, LastUse
  <2>5. flow \notin DOMAIN LastUse
    BY <1>2, <1>7
  <2> QED
    BY <1>1, <2>2, <2>3, <2>4, <2>5, SameCardinality DEF Filter!Outgoing
<1> QED
  BY <1>5, <1>6, <1>7

\* A packet of the external device, let in or not.
LEMMA ExternalRefines ==
  ASSUME FirewallInv, NEW flow \in Keys, NEW time \in Clock, ExternalDevicePacket(flow, time)
  PROVE  Filter!Incoming(flow, time)
<1>1. DOMAIN LastUse = Known(flow_table)
  BY DEF LastUse
<1>2. HasExternal(flow, time) <=> flow \in DOMAIN LastUse /\ Filter!IsYoung(flow, time)
  BY <1>1, KnownIsYoung DEF HasExternal
<1>3. CASE HasExternal(flow, time)
  <2>1. LastUse' = Filter!Use(flow, time, DOMAIN LastUse)
    BY <1>3, RefreshUse DEF ExternalDevicePacket, HasExternal
  <2> QED
    BY <1>2, <1>3, <2>1 DEF ExternalDevicePacket, Handle, Filter!Handle, Filter!Incoming
<1>4. CASE ~ HasExternal(flow, time)
  <2>1. UNCHANGED LastUse
    BY <1>4 DEF ExternalDevicePacket, LastUse
  <2> QED
    BY <1>2, <1>4, <2>1 DEF ExternalDevicePacket, Handle, Filter!Handle, Filter!Incoming
<1> QED
  BY <1>3, <1>4

\* Every call to nf_handle is a step of the filter.
LEMMA NextRefines ==
  ASSUME FirewallInv, [FirewallNext]_firewall_vars
  PROVE  [Filter!Next]_(Filter!vars)
<1>1. CASE OtherPacket
  <2>1. UNCHANGED LastUse
    BY <1>1 DEF OtherPacket, LastUse
  <2> QED
    BY <1>1, <2>1 DEF OtherPacket, Filter!Other, Filter!Next
<1>2. ASSUME NEW flow \in Keys, NEW time \in Clock, InternalDevicePacket(flow, time)
      PROVE  Filter!Next
  BY <1>2, InternalRefines DEF Filter!Next
<1>3. ASSUME NEW flow \in Keys, NEW time \in Clock, ExternalDevicePacket(flow, time)
      PROVE  Filter!Next
  BY <1>3, ExternalRefines DEF Filter!Next
<1>4. CASE UNCHANGED firewall_vars
  BY <1>4 DEF firewall_vars, Filter!vars, LastUse
<1> QED
  BY <1>1, <1>2, <1>3, <1>4 DEF FirewallNext

\* firewall.c is a filter by flows, for every number of flows and packets: no
\* answer gets in after its flow expired or lost its index, none is refused
\* while its flow is used, and a flow is forgotten only when it has expired
\* and another one takes its index.
THEOREM FirewallIsFlowFilter == FirewallSpec => IsFlowFilter
<1>1. FirewallInit => Filter!Init
  BY InitRefines
<1>2. FirewallInv /\ [FirewallNext]_firewall_vars => [Filter!Next]_(Filter!vars)
  BY NextRefines
<1> QED
  BY <1>1, <1>2, FirewallInvAlways, PTL DEF FirewallSpec, IsFlowFilter, Filter!Spec



-----------------------------------------------------------------------------
(* The arithmetic of a bucket.                                             *)

\* A rate and a burst that nf_init takes.
Configured ==
  /\ rate \in Nat \ {0} /\ burst \in Nat \ {0}
  /\ rate < WordModulus

IdealType == [strict : Nat, generous : Int, time : Clock]

\* A bucket with the given size at a given time has what the ideal ones allow,
\* as far as the configuration lets it.
Fits(d, size, time) ==
  /\ d.time <= time
  /\ RefillsFit =>
       (d.strict + (time - d.time) * rate > size => burst <= size)
  /\ ExpiresNoSoonerThanFull =>
       /\ d.generous >= 0
       /\ size * Steps <= d.generous + (time - d.time) * burst

\* Multiplication is monotonic.
LEMMA TimesMonotonic ==
  \A x, y, z \in Nat : x <= y => x * z <= y * z /\ z * x <= z * y
OBVIOUS

\* Division rounds down.
LEMMA Quotient ==
  ASSUME NEW x \in Nat, NEW y \in Nat \ {0}
  PROVE  x \div y \in Nat /\ (x \div y) * y <= x /\ x < (x \div y) * y + y
OBVIOUS

\* The product of line 40 is a word.
LEMMA WordResidue ==
  ASSUME Configured
  PROVE  /\ WordModulus \in Nat \ {0}
         /\ (Second * burst) % WordModulus \in Nat
<1> DEFINE y == Second * burst
<1>1. WordModulus \in Nat \ {0}
  BY WordAssumption DEF Configured
<1>2. y \in Nat
  BY SecondAssumption DEF Configured
<1> HIDE DEF y
<1>3. y % WordModulus \in Nat
  BY <1>1, <1>2
<1> QED
  BY <1>1, <1>3 DEF y

\* A remainder is no more than what is divided.
LEMMA Residue ==
  ASSUME NEW x \in Nat, NEW y \in Nat \ {0}
  PROVE  x % y \in Nat /\ x % y <= x
<1>1. CASE x < y
  BY <1>1
<1>2. CASE x >= y
  <2>1. x % y \in Nat /\ x % y < y
    OBVIOUS
  <2> QED
    BY <1>2, <2>1
<1> QED
  BY <1>1, <1>2

\* burst / rate refills do not fill more than a bucket.
LEMMA StepsFacts ==
  ASSUME Configured
  PROVE  /\ Steps \in Nat
         /\ Steps * rate <= burst
         /\ ExpirationTime \in Nat
<1> DEFINE x == (Second * burst) % WordModulus
<1>1. rate \in Nat \ {0} /\ burst \in Nat \ {0} /\ x \in Nat
  BY WordResidue DEF Configured
<1>2. Steps \in Nat /\ Steps * rate <= burst
  BY <1>1, Quotient DEF Steps
<1>3. ExpirationTime = x \div rate
  BY DEF ExpirationTime
<1> HIDE DEF x
<1>4. ExpirationTime \in Nat
  BY <1>1, <1>3, Quotient
<1> QED
  BY <1>2, <1>4

\* They take no longer than an index takes to be given away, if line 40 is right.
LEMMA FullBeforeExpired ==
  ASSUME Configured, ExpiresNoSoonerThanFull
  PROVE  Steps <= ExpirationTime + 1
<1> DEFINE x == (Second * burst) % WordModulus
<1>1. rate \in Nat \ {0} /\ Steps \in Nat /\ ExpirationTime \in Nat
  BY StepsFacts DEF Configured
<1>2. x \in Nat /\ ExpirationTime = x \div rate
  BY WordResidue DEF ExpirationTime
<1>3. x + rate >= Steps * rate
  BY DEF ExpiresNoSoonerThanFull
<1> HIDE DEF x
<1>4. x < ExpirationTime * rate + rate
  BY <1>1, <1>2, Quotient
<1>5. SUFFICES ASSUME Steps >= ExpirationTime + 2
               PROVE  FALSE
  BY <1>1
<1>6. (ExpirationTime + 2) * rate <= Steps * rate
  BY <1>1, <1>5, TimesMonotonic
<1>7. /\ (ExpirationTime + 2) * rate = (ExpirationTime * rate + rate) + rate
      /\ ExpirationTime * rate \in Nat /\ Steps * rate \in Nat
  BY <1>1
<1> QED
  BY <1>1, <1>2, <1>3, <1>4, <1>6, <1>7

\* A full bucket stays full.
LEMMA StaysFull ==
  ASSUME Configured, NEW d \in IdealType, NEW t \in Clock, NEW u \in Clock,
         t <= u, Fits(d, burst, t)
  PROVE  Fits(d, burst, u)
<1>1. /\ burst \in Nat /\ Steps \in Nat
      /\ d.generous \in Int /\ d.time \in Nat /\ t \in Nat /\ u \in Nat
  BY StepsFacts, TimeMaxAssumption DEF Configured, IdealType, Clock
<1>2. (t - d.time) * burst <= (u - d.time) * burst
  BY <1>1, TimesMonotonic DEF Fits
<1>3. burst * Steps \in Nat /\ (t - d.time) * burst \in Nat /\ (u - d.time) * burst \in Nat
  BY <1>1 DEF Fits
<1> QED
  BY <1>1, <1>2, <1>3 DEF Fits

\* A full bucket has at least what the strict ideal one has.
LEMMA FullFits ==
  ASSUME Configured, ~ ExpiresNoSoonerThanFull,
         NEW d \in IdealType, NEW s \in 0 .. burst,
         NEW t \in Clock, NEW u \in Clock, t <= u, Fits(d, s, t)
  PROVE  Fits(d, burst, u)
<1>1. burst \in Nat /\ d.time \in Nat /\ t \in Nat /\ u \in Nat
  BY TimeMaxAssumption DEF Configured, IdealType, Clock
<1> QED
  BY <1>1 DEF Fits

\* After burst / rate any bucket is full.
LEMMA BecomesFull ==
  ASSUME Configured, NEW d \in IdealType, NEW s \in 0 .. burst,
         NEW t \in Clock, NEW u \in Clock, t <= u, Steps <= u - t, Fits(d, s, t)
  PROVE  Fits(d, burst, u)
<1>1. /\ burst \in Nat /\ Steps \in Nat /\ s \in Nat
      /\ d.generous \in Int /\ d.time \in Nat /\ t \in Nat /\ u \in Nat
  BY StepsFacts, TimeMaxAssumption DEF Configured, IdealType, Clock
<1>2. Steps * burst <= (u - t) * burst
  BY <1>1, TimesMonotonic
<1>3. (u - d.time) * burst = (u - t) * burst + (t - d.time) * burst
  BY <1>1
<1>4. s * Steps \in Nat
  BY <1>1
<1>5. burst * Steps = Steps * burst
  BY <1>1
<1>6. Steps * burst \in Nat /\ (u - t) * burst \in Nat /\ (t - d.time) * burst \in Nat
  BY <1>1 DEF Fits
<1>7. ASSUME ExpiresNoSoonerThanFull
      PROVE  d.generous >= 0 /\ burst * Steps <= d.generous + (u - d.time) * burst
  <2> DEFINE P == Steps * burst
             Q == (u - t) * burst
             R == (t - d.time) * burst
             G == d.generous
  <2>1. /\ P \in Nat /\ Q \in Nat /\ R \in Nat /\ G \in Nat
        /\ P <= Q /\ burst * Steps = P /\ (u - d.time) * burst = Q + R
    BY <1>1, <1>2, <1>3, <1>5, <1>6, <1>7 DEF Fits
  <2> HIDE DEF P, Q, R, G
  <2>2. 0 <= G /\ P <= G + (Q + R)
    BY <2>1
  <2> QED
    BY <2>1, <2>2 DEF G
<1> QED
  BY <1>1, <1>7 DEF Fits

\* Refilling a bucket, as nf_handle does, keeps it between the two ideals.
LEMMA RefillFacts ==
  ASSUME Configured, NEW d \in IdealType, NEW b \in [size : 0 .. burst, time : Clock],
         NEW u \in Clock, b.time <= u, Fits(d, b.size, b.time)
  PROVE  Refilled(b, u) \in 0 .. burst /\ Fits(d, Refilled(b, u), u)
<1> DEFINE s == b.size
           t == b.time
           diff == u - t
           more == s + diff * rate
<1>1. /\ rate \in Nat \ {0} /\ burst \in Nat /\ Steps \in Nat /\ s \in 0 .. burst /\ s \in Nat
      /\ d.generous \in Int /\ d.strict \in Nat /\ d.time \in Nat
      /\ t \in Nat /\ u \in Nat /\ t \in Clock /\ d.time <= t
  BY StepsFacts, TimeMaxAssumption DEF Configured, IdealType, Clock, Fits
<1>2. diff \in Nat /\ diff % (TIME_MAX + 1) = diff
  BY <1>1, TimeMaxAssumption DEF Clock
<1>3. CASE diff >= Steps
  <2>1. Refilled(b, u) = burst
    BY <1>1, <1>2, <1>3 DEF Refilled
  <2>2. Fits(d, burst, u)
    BY <1>1, <1>3, BecomesFull
  <2> QED
    BY <1>1, <2>1, <2>2
<1>4. CASE diff < Steps
  <2>1. diff * rate \in Nat /\ diff * rate <= Steps * rate
    BY <1>1, <1>2, <1>4, TimesMonotonic
  <2>2. diff * rate <= burst - rate
    <3>1. (diff + 1) * rate <= Steps * rate
      BY <1>1, <1>2, <1>4, TimesMonotonic
    <3> QED
      BY <1>1, <1>2, <2>1, <3>1, StepsFacts
  <2>3. more \in Nat /\ more < 2 * burst
    BY <1>1, <2>1, <2>2
  <2> DEFINE sum == more % WordModulus
             r == AtMost(sum, burst)
  <2>4. sum \in Nat /\ sum <= more /\ (RefillsFit => sum = more)
    <3> HIDE DEF more
    <3>1. WordModulus \in Nat \ {0} /\ (RefillsFit => more < WordModulus)
      BY <1>1, <2>3, WordResidue DEF RefillsFit
    <3>2. more % WordModulus \in Nat /\ more % WordModulus <= more
      BY <2>3, <3>1, Residue
    <3>3. ASSUME RefillsFit PROVE more % WordModulus = more
      BY <2>3, <3>1, <3>3
    <3> QED
      BY <3>2, <3>3
  <2>5. Refilled(b, u) = r
    BY <1>2, <1>4 DEF Refilled
  <2> HIDE DEF sum
  <2>6. r \in 0 .. burst /\ r <= sum
    BY <1>1, <2>4 DEF AtMost
  <2>7. ASSUME RefillsFit
        PROVE  d.strict + (u - d.time) * rate > r => burst <= r
    <3>0. r = AtMost(more, burst)
      BY <2>4, <2>7
    <3>1. (u - d.time) * rate = diff * rate + (t - d.time) * rate
      BY <1>1
    <3>2. (t - d.time) * rate \in Nat
      BY <1>1
    <3>3. d.strict + (t - d.time) * rate > s => burst <= s
      BY <2>7 DEF Fits
    <3> HIDE DEF diff, r
    <3>4. CASE more > burst
      BY <1>1, <3>0, <3>4 DEF AtMost
    <3>5. CASE more <= burst
      <4>1. r = more
        BY <1>1, <2>3, <3>0, <3>5 DEF AtMost
      <4>2. CASE burst <= s
        BY <1>1, <2>1, <4>1, <4>2
      <4>3. CASE d.strict + (t - d.time) * rate <= s
        BY <1>1, <2>1, <3>1, <3>2, <4>1, <4>3
      <4> QED
        BY <1>1, <3>2, <3>3, <4>2, <4>3
    <3> QED
      BY <1>1, <2>3, <3>4, <3>5
  <2>8. ASSUME ExpiresNoSoonerThanFull
        PROVE  d.generous >= 0 /\ r * Steps <= d.generous + (u - d.time) * burst
    <3>1. r * Steps <= more * Steps
      <4> HIDE DEF more, r
      <4>1. r \in Nat /\ more \in Nat /\ r <= more
        BY <1>1, <2>3, <2>4, <2>6
      <4> QED
        BY <1>1, <4>1, TimesMonotonic
    <3>2. more * Steps = s * Steps + diff * (Steps * rate)
      BY <1>1, <1>2
    <3>3. diff * (Steps * rate) <= diff * burst
      BY <1>1, <1>2, StepsFacts, TimesMonotonic
    <3>4. (u - d.time) * burst = diff * burst + (t - d.time) * burst
      BY <1>1
    <3>5. d.generous >= 0 /\ s * Steps <= d.generous + (t - d.time) * burst
      BY <2>8 DEF Fits
    <3>6. /\ s * Steps \in Nat /\ diff * burst \in Nat /\ (t - d.time) * burst \in Nat
          /\ diff * (Steps * rate) \in Nat /\ r \in Nat /\ r * Steps \in Nat /\ more * Steps \in Nat
      BY <1>1, <1>2, <2>3, <2>6
    <3> HIDE DEF diff, r, more
    <3> QED
      BY <1>1, <3>1, <3>2, <3>3, <3>4, <3>5, <3>6
  <2>9. d.time <= u
    BY <1>1
  <2> HIDE DEF r, more, diff
  <2>10. Fits(d, r, u)
    BY <2>7, <2>8, <2>9 DEF Fits
  <2> QED
    BY <2>5, <2>6, <2>10 DEF r
<1> QED
  BY <1>1, <1>2, <1>3, <1>4

\* Charging a packet to a bucket and to its ideals.
LEMMA ChargeFacts ==
  ASSUME Configured, NEW d \in IdealType, NEW s \in 0 .. burst, NEW u \in Clock,
         NEW length \in Nat, length <= s, Fits(d, s, u)
  PROVE  /\ Charged(d, u, length) \in IdealType
         /\ Fits(Charged(d, u, length), s - length, u)
<1> DEFINE c == Charged(d, u, length)
           S == AtMost(d.strict + (u - d.time) * rate, burst)
           G == AtMost(d.generous + (u - d.time) * burst, burst * Steps)
<1>1. /\ rate \in Nat \ {0} /\ burst \in Nat /\ Steps \in Nat /\ s \in 0 .. burst /\ s \in Nat
      /\ d.generous \in Int /\ d.strict \in Nat /\ d.time \in Nat
      /\ u \in Nat /\ d.time <= u
  BY StepsFacts, TimeMaxAssumption DEF Configured, IdealType, Clock, Fits
<1>2. /\ (u - d.time) * rate \in Nat /\ (u - d.time) * burst \in Nat
      /\ burst * Steps \in Nat /\ s * Steps \in Nat /\ length * Steps \in Nat
      /\ s * Steps <= burst * Steps /\ length * Steps <= s * Steps
  BY <1>1, TimesMonotonic
<1>3. c = [strict |-> IF S < length THEN 0 ELSE S - length,
           generous |-> G - length * Steps, time |-> u]
  BY DEF Charged, Tokens
<1>4. S \in Nat /\ (RefillsFit => S <= s)
  BY <1>1, <1>2 DEF AtMost, Fits
<1>5. G \in Int /\ (ExpiresNoSoonerThanFull => s * Steps <= G)
  BY <1>1, <1>2 DEF AtMost, Fits
<1> HIDE DEF S, G, c
<1>6. /\ c \in IdealType
      /\ c.time = u /\ (RefillsFit => c.strict <= s - length)
      /\ c.generous = G - length * Steps
  BY <1>1, <1>2, <1>3, <1>4, <1>5 DEF IdealType
<1>7. (s - length) * Steps = s * Steps - length * Steps
  BY <1>1
<1>8. (u - c.time) * rate = 0 /\ (u - c.time) * burst = 0
  BY <1>1, <1>6
<1>9. c.strict \in Nat /\ c.generous \in Int
  BY <1>6 DEF IdealType
<1>10. Fits(c, s - length, u)
  BY <1>1, <1>2, <1>5, <1>6, <1>7, <1>8, <1>9 DEF Fits
<1> QED
  BY <1>6, <1>10 DEF c

-----------------------------------------------------------------------------
(* The inductive invariant.                                                *)

\* The bucket of a known address, which is as old as its index, lies between
\* the ideal ones; an address without a bucket would have a full one.
Served(a) ==
  LET i == IndexOf(table, a)
  IN  /\ Fits(ideal[a], buckets[i].size, buckets[i].time)
      /\ buckets[i].time <= now
      /\ table.port_allocator.timestamps[i] = buckets[i].time

Ledger ==
  /\ ideal \in [Keys -> IdealType]
  /\ \A a \in Known(table) : Served(a)
  /\ \A a \in Keys \ Known(table) : Fits(ideal[a], burst, now)

Inv == TableInSync /\ Configured /\ Ledger

\* The parts of the invariant the actions use.
LEMMA InvFacts ==
  ASSUME Inv
  PROVE  /\ table \in TableType(MaxFlows, ExpirationTime) /\ InSync(table)
         /\ MaxFlows \in Nat
         /\ buckets \in [0 .. MaxFlows - 1 -> [size : 0 .. burst, time : Clock]]
         /\ now \in Clock /\ now \in Nat
         /\ Configured /\ Ledger
         /\ rate \in Nat /\ burst \in Nat
BY MaxFlowsAssumption, TimeMaxAssumption
   DEF Inv, TableInSync, TypeOK, Configured, Clock

\* A known address has a bucket at its index.
LEMMA KnownHasBucket ==
  ASSUME Inv, NEW a \in Known(table)
  PROVE  /\ a \in Keys
         /\ IndexOf(table, a) \in 0 .. MaxFlows - 1
         /\ ~ Free(table.port_allocator, IndexOf(table, a))
         /\ buckets[IndexOf(table, a)] \in [size : 0 .. burst, time : Clock]
<1>1. a \in Keys
  BY InvFacts, KnownAreKeys
<1>2. IndexOf(table, a) \in 0 .. MaxFlows - 1
  <2>1. IndexOf(table, a) \in Indices(table.port_allocator)
    BY InvFacts, KnownFacts
  <2>2. Indices(table.port_allocator) = 0 .. MaxFlows - 1
    BY InvFacts, PoolOfTable
  <2> QED
    BY <2>1, <2>2
<1>3. ~ Free(table.port_allocator, IndexOf(table, a))
  BY InvFacts, KnownFacts
<1> QED
  BY <1>1, <1>2, <1>3, InvFacts

\* The time of a packet.
LEMMA TimeOfPacket ==
  ASSUME Inv, NEW time \in now .. TIME_MAX - 1
  PROVE  time \in Clock /\ now <= time /\ time \in Nat
BY InvFacts, TimeMaxAssumption DEF Clock

\* nf_init starts with an empty table and full ideal buckets.
LEMMA InitInv ==
  ASSUME Init
  PROVE  Inv
<1>1. Configured
  BY ConfigAssumption, WordAssumption DEF Init, Configured
<1>2. table \in TableType(MaxFlows, ExpirationTime) /\ InSync(table)
  BY AllocInSync, MaxFlowsAssumption DEF Init
<1>3. TypeOK
  <2>1. 0 \in 0 .. burst /\ 0 \in Clock
    BY <1>1, TimeMaxAssumption DEF Configured, Clock
  <2> QED
    BY <1>2, <2>1 DEF Init, TypeOK, EmptyBucket
<1>4. ideal \in [Keys -> IdealType]
  <2>1. burst \in Nat /\ burst * Steps \in Nat /\ 0 \in Clock
    BY <1>1, StepsFacts, TimeMaxAssumption DEF Configured, Clock
  <2> QED
    BY <2>1 DEF Init, IdealType
<1>5. Known(table) = {}
  BY DEF Init, TableAlloc, Known
<1>6. \A a \in Keys : Fits(ideal[a], burst, now)
  <2>1. burst \in Nat /\ rate \in Nat /\ burst * Steps \in Nat
    BY <1>1, StepsFacts DEF Configured
  <2>2. \A a \in Keys : ideal[a].strict = burst /\ ideal[a].generous = burst * Steps
                         /\ ideal[a].time = 0
    BY DEF Init
  <2>3. now = 0 /\ (0 - 0) * rate = 0 /\ (0 - 0) * burst = 0
    BY <2>1 DEF Init
  <2> QED
    BY <2>1, <2>2, <2>3 DEF Fits
<1> QED
  BY <1>1, <1>2, <1>3, <1>4, <1>5, <1>6 DEF Inv, TableInSync, Ledger

\* Time passes.
LEMMA TimePasses ==
  ASSUME Inv, NEW time \in now .. TIME_MAX - 1,
         now' = time, verdict' \in {"forward", "drop"},
         UNCHANGED <<rate, burst, table, buckets, ideal>>
  PROVE  Inv'
<1>1. time \in Clock /\ now <= time /\ time \in Nat
  BY TimeOfPacket
<1>2. Configured' /\ ExpirationTime' = ExpirationTime
  BY InvFacts DEF Configured, ExpirationTime
<1>3. TableInSync'
  BY <1>1, <1>2, InvFacts DEF TableInSync, TypeOK
<1>4. ASSUME NEW a \in Known(table)
      PROVE  Served(a)'
  <2> DEFINE b == buckets[IndexOf(table, a)]
  <2>1. /\ Fits(ideal[a], b.size, b.time)
        /\ b.time <= now
        /\ table.port_allocator.timestamps[IndexOf(table, a)] = b.time
    BY InvFacts DEF Ledger, Served
  <2>2. b.time <= time
    BY <1>1, <2>1, InvFacts, KnownHasBucket, TimeMaxAssumption DEF Clock
  <2> QED
    BY <2>1, <2>2
       DEF Served, Fits, Steps, RefillsFit, ExpiresNoSoonerThanFull
<1>5. ASSUME NEW a \in Keys \ Known(table)
      PROVE  Fits(ideal[a], burst, now)'
  <2>1. Fits(ideal[a], burst, time)
    BY <1>1, InvFacts, StaysFull DEF Ledger
  <2> QED
    BY <2>1
       DEF Fits, Steps, RefillsFit, ExpiresNoSoonerThanFull
<1>6. Ledger'
  BY <1>4, <1>5, InvFacts DEF Ledger
<1> QED
  BY <1>2, <1>3, <1>6 DEF Inv

\* A packet to an address with a bucket.
LEMMA KnownKeeps ==
  ASSUME Inv, NEW time \in now .. TIME_MAX - 1,
         NEW address \in Keys, NEW length \in Lengths,
         KnownAddress(address, length, time)
  PROVE  Inv'
<1> DEFINE i == IndexOf(table, address)
           b == buckets[i]
           size == Refilled(b, time)
           left == IF size > length THEN size - length ELSE size
<1>1. time \in Clock /\ now <= time /\ time \in Nat /\ length \in Nat
  BY TimeOfPacket, LengthAssumption
<1>2. /\ address \in Known(table)
      /\ table' = Refreshed(table, time, i)
      /\ buckets' = [buckets EXCEPT ![i] = [size |-> left, time |-> time]]
      /\ verdict' \in {"forward", "drop"}
      /\ ideal' = IF size > length
                  THEN [ideal EXCEPT ![address] = Charged(ideal[address], time, length)]
                  ELSE ideal
      /\ now' = time
      /\ rate' = rate /\ burst' = burst
  BY DEF KnownAddress
<1>3. /\ address \in Keys /\ i \in 0 .. MaxFlows - 1
      /\ ~ Free(table.port_allocator, i)
      /\ b \in [size : 0 .. burst, time : Clock]
  BY <1>2, KnownHasBucket
<1>4. Configured' /\ ExpirationTime' = ExpirationTime
  BY <1>2, InvFacts DEF Configured, ExpirationTime
<1>5. /\ Fits(ideal[address], b.size, b.time)
      /\ b.time <= time
      /\ ideal[address] \in IdealType
  <2>1. Served(address) /\ ideal[address] \in IdealType
    BY <1>2, <1>3, InvFacts DEF Ledger
  <2>2. b.time \in Nat
    BY <1>3, TimeMaxAssumption DEF Clock
  <2> QED
    BY <1>1, <2>1, <2>2, InvFacts DEF Served
<1>6. size \in 0 .. burst /\ Fits(ideal[address], size, time)
  BY <1>1, <1>3, <1>5, InvFacts, RefillFacts
<1> HIDE DEF i, b, size
<1>7. left \in 0 .. burst
  BY <1>1, <1>6, InvFacts
<1>8. /\ ideal' \in [Keys -> IdealType]
      /\ \A a \in Keys : a # address => ideal'[a] = ideal[a]
      /\ Fits(ideal'[address], left, time)
  <2>0. ideal \in [Keys -> IdealType]
    BY InvFacts DEF Ledger
  <2>1. CASE size > length
    <3> DEFINE c == Charged(ideal[address], time, length)
    <3>1. c \in IdealType /\ Fits(c, size - length, time)
      BY <1>1, <1>5, <1>6, <2>1, InvFacts, ChargeFacts
    <3>2. ideal' = [ideal EXCEPT ![address] = c] /\ left = size - length
      BY <1>2, <2>1
    <3> HIDE DEF c, left
    <3> QED
      BY <1>3, <2>0, <3>1, <3>2
  <2>2. CASE ~ (size > length)
    BY <1>2, <1>6, <2>0, <2>2
  <2> QED
    BY <2>1, <2>2
<1> HIDE DEF left
<1>9. table' \in TableType(MaxFlows, ExpirationTime) /\ InSync(table')
  BY <1>1, <1>2, <1>3, InvFacts, RefreshInSync
<1>10. buckets' \in [0 .. MaxFlows - 1 -> [size : 0 .. burst, time : Clock]]
  BY <1>1, <1>2, <1>3, <1>7, InvFacts
<1>11. TableInSync'
  BY <1>1, <1>2, <1>4, <1>9, <1>10 DEF TableInSync, TypeOK
<1>12. /\ Known(table') = Known(table)
       /\ \A a : IndexOf(table', a) = IndexOf(table, a)
       /\ \A j \in 0 .. MaxFlows - 1 :
            table'.port_allocator.timestamps[j]
              = IF j = i THEN time ELSE table.port_allocator.timestamps[j]
  <2>1. table \in TableType(MaxFlows, ExpirationTime) /\ MaxFlows \in Nat
    BY InvFacts
  <2> QED
    BY <1>2, <2>1, RefreshedFacts
<1>13. ASSUME NEW a \in Known(table)
       PROVE  Served(a)'
  <2> DEFINE j == IndexOf(table, a)
  <2>1. a \in Keys /\ j \in 0 .. MaxFlows - 1
    BY KnownHasBucket
  <2>2. IndexOf(table', a) = j
    BY <1>12
  <2>3. buckets'[j] = IF j = i THEN [size |-> left, time |-> time] ELSE buckets[j]
    BY <1>2, <2>1, InvFacts
  <2>4. CASE a = address
    <3>1. j = i
      BY <2>4 DEF i
    <3>2. /\ Fits(ideal'[a], buckets'[j].size, buckets'[j].time)
          /\ buckets'[j].time = time
      BY <1>8, <2>3, <2>4, <3>1
    <3>3. table'.port_allocator.timestamps[j] = time
      BY <1>12, <2>1, <3>1
    <3> QED
      BY <1>1, <1>2, <2>2, <3>2, <3>3
         DEF Served, Fits, Steps, RefillsFit, ExpiresNoSoonerThanFull
  <2>5. CASE a # address
    <3>1. j # i
      BY <1>2, <2>5, InvFacts, IndexInjective DEF i
    <3>2. /\ Fits(ideal[a], buckets[j].size, buckets[j].time)
          /\ buckets[j].time <= now
          /\ table.port_allocator.timestamps[j] = buckets[j].time
      BY InvFacts DEF Ledger, Served
    <3>3. buckets'[j] = buckets[j] /\ ideal'[a] = ideal[a]
      BY <1>8, <2>1, <2>3, <2>5, <3>1
    <3>4. table'.port_allocator.timestamps[j] = buckets[j].time
      BY <1>12, <2>1, <3>1, <3>2
    <3>5. buckets[j].time <= time
      <4>1. buckets[j].time \in Nat
        BY KnownHasBucket, TimeMaxAssumption DEF Clock
      <4> QED
        BY <1>1, <3>2, <4>1, InvFacts
    <3> HIDE DEF j
    <3> QED
      BY <1>2, <2>2, <3>2, <3>3, <3>4, <3>5
         DEF Served, Fits, Steps, RefillsFit, ExpiresNoSoonerThanFull
  <2> QED
    BY <2>4, <2>5
<1>14. ASSUME NEW a \in Keys \ Known(table)
       PROVE  Fits(ideal[a], burst, now)'
  <2>1. Fits(ideal[a], burst, time)
    BY <1>1, InvFacts, StaysFull DEF Ledger
  <2>2. ideal'[a] = ideal[a]
    BY <1>2, <1>8
  <2> QED
    BY <1>2, <2>1, <2>2
       DEF Fits, Steps, RefillsFit, ExpiresNoSoonerThanFull
<1>15. Ledger'
  BY <1>8, <1>12, <1>13, <1>14 DEF Ledger
<1> QED
  BY <1>4, <1>11, <1>15 DEF Inv

\* An address that loses its index to another one would have a full bucket.
LEMMA EvictedWouldBeFull ==
  ASSUME Inv, NEW time \in now .. TIME_MAX - 1, NEW a \in Known(table),
         Expired(table.port_allocator, time, IndexOf(table, a))
  PROVE  Fits(ideal[a], burst, time)
<1> DEFINE i == IndexOf(table, a)
           b == buckets[i]
<1>1. time \in Clock /\ time \in Nat
  BY TimeOfPacket
<1>2. b \in [size : 0 .. burst, time : Clock] /\ a \in Keys
  BY KnownHasBucket
<1>3. /\ Fits(ideal[a], b.size, b.time) /\ ideal[a] \in IdealType
      /\ table.port_allocator.timestamps[i] = b.time
  BY <1>2, InvFacts DEF Ledger, Served
<1>4. table.port_allocator.expiration_time = ExpirationTime
  BY InvFacts, PoolFields
<1>5. time - ExpirationTime > b.time
  BY <1>3, <1>4 DEF Expired
<1>6. /\ Steps \in Nat /\ ExpirationTime \in Nat
      /\ ExpiresNoSoonerThanFull => Steps <= ExpirationTime + 1
  BY InvFacts, StepsFacts, FullBeforeExpired
<1>7. b.time \in Clock /\ b.time \in Nat /\ b.size \in 0 .. burst
  BY <1>2, TimeMaxAssumption DEF Clock
<1> HIDE DEF b
<1>8. b.time <= time /\ (ExpiresNoSoonerThanFull => Steps <= time - b.time)
  BY <1>1, <1>5, <1>6, <1>7
<1>9. CASE ExpiresNoSoonerThanFull
  BY <1>1, <1>3, <1>7, <1>8, <1>9, InvFacts, BecomesFull
<1>10. CASE ~ ExpiresNoSoonerThanFull
  BY <1>1, <1>3, <1>7, <1>8, <1>10, InvFacts, FullFits
<1> QED
  BY <1>9, <1>10

\* The first packet to an address.
LEMMA NewKeeps ==
  ASSUME Inv, NEW time \in now .. TIME_MAX - 1,
         NEW address \in Keys, NEW length \in Lengths,
         NewAddress(address, length, time)
  PROVE  Inv'
<1> DEFINE i == InsertIndex(table, time)
           new == [size |-> burst - length, time |-> time]
           c == Charged(ideal[address], time, length)
<1>1. time \in Clock /\ now <= time /\ time \in Nat /\ length \in Nat
  BY TimeOfPacket, LengthAssumption
<1>2. /\ address \notin Known(table) /\ length <= burst /\ HasSpace(table, time)
      /\ table' = Inserted(table, time, address)
      /\ buckets' = [buckets EXCEPT ![i] = new]
      /\ verdict' = "forward"
      /\ ideal' = [ideal EXCEPT ![address] = c]
      /\ now' = time
      /\ rate' = rate /\ burst' = burst
  BY DEF NewAddress, NewBucket
<1>3. /\ i \in 0 .. MaxFlows - 1
      /\ Free(table.port_allocator, i) \/ Expired(table.port_allocator, time, i)
      /\ Known(table') = {k \in Known(table) : IndexOf(table, k) # i} \cup {address}
      /\ IndexOf(table', address) = i
      /\ \A k \in Known(table) : IndexOf(table, k) # i => IndexOf(table', k) = IndexOf(table, k)
      /\ \A j \in 0 .. MaxFlows - 1 :
           table'.port_allocator.timestamps[j]
             = IF j = i THEN time ELSE table.port_allocator.timestamps[j]
  <2>1. table \in TableType(MaxFlows, ExpirationTime) /\ InSync(table) /\ MaxFlows \in Nat
    BY InvFacts
  <2>2. HasSpace(table, time) /\ address \notin Known(table)
    BY <1>2
  <2> QED
    BY <1>1, <1>2, <2>1, <2>2, InsertedFacts
<1> HIDE DEF i
<1>4. Configured' /\ ExpirationTime' = ExpirationTime
  BY <1>2, InvFacts DEF Configured, ExpirationTime
<1>5. burst \in 0 .. burst /\ Fits(ideal[address], burst, time) /\ ideal[address] \in IdealType
  BY <1>1, <1>2, InvFacts, StaysFull DEF Ledger
<1>6. c \in IdealType /\ Fits(c, burst - length, time)
  BY <1>1, <1>2, <1>5, InvFacts, ChargeFacts
<1> HIDE DEF c
<1>7. /\ ideal' \in [Keys -> IdealType]
      /\ ideal'[address] = c
      /\ \A a \in Keys : a # address => ideal'[a] = ideal[a]
  <2>1. ideal \in [Keys -> IdealType]
    BY InvFacts DEF Ledger
  <2> QED
    BY <1>2, <1>6, <2>1
<1>8. new \in [size : 0 .. burst, time : Clock] /\ new.size = burst - length /\ new.time = time
  BY <1>1, <1>2, InvFacts
<1> HIDE DEF new
<1>9. /\ buckets' \in [0 .. MaxFlows - 1 -> [size : 0 .. burst, time : Clock]]
      /\ \A j \in 0 .. MaxFlows - 1 : buckets'[j] = IF j = i THEN new ELSE buckets[j]
  BY <1>2, <1>3, <1>8, InvFacts
<1>10. table' \in TableType(MaxFlows, ExpirationTime) /\ InSync(table')
  BY <1>1, <1>2, InvFacts, InsertedType, InsertInSync
<1>11. TableInSync'
  BY <1>1, <1>2, <1>4, <1>9, <1>10 DEF TableInSync, TypeOK
<1>12. ASSUME NEW a \in Known(table')
       PROVE  Served(a)'
  <2> DEFINE j == IndexOf(table', a)
  <2>1. CASE a = address
    <3>1. j = i
      BY <1>3, <2>1
    <3>2. buckets'[j] = new /\ table'.port_allocator.timestamps[j] = time /\ ideal'[a] = c
      BY <1>3, <1>7, <1>9, <2>1, <3>1
    <3>3. /\ Fits(ideal'[a], buckets'[j].size, buckets'[j].time)
          /\ buckets'[j].time = time
      BY <1>6, <1>8, <3>2
    <3> HIDE DEF j
    <3> QED
      BY <1>1, <1>2, <3>2, <3>3
         DEF Served, Fits, Steps, RefillsFit, ExpiresNoSoonerThanFull, j
  <2>2. CASE a # address
    <3>1. a \in Known(table) /\ IndexOf(table, a) # i /\ j = IndexOf(table, a)
      BY <1>3, <2>2
    <3>2. a \in Keys /\ j \in 0 .. MaxFlows - 1
      BY <3>1, KnownHasBucket
    <3>3. /\ Fits(ideal[a], buckets[j].size, buckets[j].time)
          /\ buckets[j].time <= now
          /\ table.port_allocator.timestamps[j] = buckets[j].time
      BY <3>1, InvFacts DEF Ledger, Served
    <3>4. buckets'[j] = buckets[j] /\ ideal'[a] = ideal[a]
      BY <1>7, <1>9, <2>2, <3>1, <3>2
    <3>5. table'.port_allocator.timestamps[j] = buckets[j].time
      BY <1>3, <3>1, <3>2, <3>3
    <3>6. buckets[j].time <= time
      <4>1. buckets[j].time \in Nat
        BY <3>1, KnownHasBucket, TimeMaxAssumption DEF Clock
      <4> QED
        BY <1>1, <3>3, <4>1, InvFacts
    <3> HIDE DEF j
    <3> QED
      BY <1>2, <3>3, <3>4, <3>5, <3>6
         DEF Served, Fits, Steps, RefillsFit, ExpiresNoSoonerThanFull, j
  <2> QED
    BY <2>1, <2>2
<1>13. ASSUME NEW a \in Keys \ Known(table')
       PROVE  Fits(ideal[a], burst, now)'
  <2>1. a # address /\ ideal'[a] = ideal[a]
    BY <1>3, <1>7
  <2>2. Fits(ideal[a], burst, time)
    <3>1. CASE a \in Known(table)
      <4>1. IndexOf(table, a) = i
        BY <1>3, <3>1
      <4>2. Expired(table.port_allocator, time, IndexOf(table, a))
        BY <1>3, <3>1, <4>1, KnownHasBucket
      <4> QED
        BY <3>1, <4>2, EvictedWouldBeFull
    <3>2. CASE a \notin Known(table)
      BY <1>1, <3>2, InvFacts, StaysFull DEF Ledger
    <3> QED
      BY <3>1, <3>2
  <2> QED
    BY <1>2, <2>1, <2>2
       DEF Fits, Steps, RefillsFit, ExpiresNoSoonerThanFull
<1>14. Ledger'
  BY <1>7, <1>12, <1>13 DEF Ledger
<1> QED
  BY <1>4, <1>11, <1>14 DEF Inv

-----------------------------------------------------------------------------
(* The theorems.                                                           *)

LEMMA InvAlways == Spec => []Inv
<1>1. Init => Inv
  BY InitInv
<1>2. Inv /\ [Next]_vars => Inv'
  <2>1. SUFFICES ASSUME Inv, [Next]_vars
                 PROVE  Inv'
    OBVIOUS
  <2>2. CASE UNCHANGED vars
    BY <2>1, <2>2 DEF vars, Inv, TableInSync, TypeOK, Configured, Ledger, Served,
                      Fits, Steps, ExpirationTime, RefillsFit, ExpiresNoSoonerThanFull
  <2>3. CASE Next
    <3>1. PICK time \in now .. TIME_MAX - 1 :
            \/ Other(time)
            \/ OutgoingPacket(time)
            \/ \E address \in Keys, length \in Lengths :
                 \/ KnownAddress(address, length, time)
                 \/ NewAddress(address, length, time)
                 \/ RefusedAddress(address, length, time)
      BY <2>3 DEF Next
    <3>2. CASE Other(time)
      BY <2>1, <3>2, TimePasses DEF Other
    <3>3. CASE OutgoingPacket(time)
      BY <2>1, <3>3, TimePasses DEF OutgoingPacket
    <3>4. ASSUME NEW address \in Keys, NEW length \in Lengths,
                 \/ KnownAddress(address, length, time)
                 \/ NewAddress(address, length, time)
                 \/ RefusedAddress(address, length, time)
          PROVE  Inv'
      <4>1. CASE KnownAddress(address, length, time)
        BY <2>1, <4>1, KnownKeeps
      <4>2. CASE NewAddress(address, length, time)
        BY <2>1, <4>2, NewKeeps
      <4>3. CASE RefusedAddress(address, length, time)
        BY <2>1, <4>3, TimePasses DEF RefusedAddress
      <4> QED
        BY <3>4, <4>1, <4>2, <4>3
    <3> QED
      BY <3>1, <3>2, <3>3, <3>4
  <2> QED
    BY <2>1, <2>2, <2>3
<1> QED
  BY <1>1, <1>2, PTL DEF Spec

\* Addresses, map and pool agree after every packet, and no bucket holds less
\* than nothing or more than the burst.
THEOREM PolicerTableInSync == Spec => []TableInSync
<1>1. Inv => TableInSync
  BY DEF Inv
<1> QED
  BY <1>1, InvAlways, PTL

\* No address is sent more than its bucket allows, whoever had the bucket
\* before: for every configuration that nf_init takes, wrapped products of
\* line 40 included, in which an index is not given away before its bucket is
\* full.
THEOREM PolicerNeverOverRate == Spec => []NeverOverRate
<1>1. ASSUME Inv, ExpiresNoSoonerThanFull, NEW a \in Keys
      PROVE  ideal[a].generous >= 0
  <2>1. CASE a \in Known(table)
    BY <1>1, <2>1 DEF Inv, Ledger, Served, Fits
  <2>2. CASE a \notin Known(table)
    BY <1>1, <2>2 DEF Inv, Ledger, Fits
  <2> QED
    BY <2>1, <2>2
<1>2. Inv => NeverOverRate
  BY <1>1 DEF NeverOverRate
<1> QED
  BY <1>2, InvAlways, PTL

\* Giving the index of an idle address to another takes no tokens unless line
\* 59 wraps around, and gives none unless line 40 does.
THEOREM PolicerTokensAreExact == Spec => []TokensAreExact
<1>1. ASSUME Inv, NEW a \in Keys
      PROVE  LET tokens == Tokens(ideal[a], now)
                 left   == IF a \in Known(table)
                           THEN Refilled(buckets[IndexOf(table, a)], now)
                           ELSE burst
             IN  /\ RefillsFit => tokens.strict <= left
                 /\ ExpiresNoSoonerThanFull => left * Steps <= tokens.generous
  <2> DEFINE left == IF a \in Known(table)
                     THEN Refilled(buckets[IndexOf(table, a)], now)
                     ELSE burst
             d == ideal[a]
             more == (now - d.time) * rate
             most == (now - d.time) * burst
             full == burst * Steps
  <2>1. left \in 0 .. burst /\ Fits(d, left, now) /\ d \in IdealType
    <3>0. d \in IdealType
      BY <1>1, InvFacts DEF Ledger
    <3>1. CASE a \in Known(table)
      <4>1. /\ Fits(d, buckets[IndexOf(table, a)].size, buckets[IndexOf(table, a)].time)
            /\ buckets[IndexOf(table, a)].time <= now
        BY <1>1, <3>1, InvFacts DEF Ledger, Served
      <4>2. buckets[IndexOf(table, a)] \in [size : 0 .. burst, time : Clock]
        BY <1>1, <3>1, KnownHasBucket
      <4> QED
        BY <1>1, <3>0, <3>1, <4>1, <4>2, InvFacts, RefillFacts
    <3>2. CASE a \notin Known(table)
      BY <1>1, <3>0, <3>2, InvFacts DEF Ledger
    <3> QED
      BY <3>1, <3>2
  <2> HIDE DEF left
  <2>2. /\ burst \in Nat /\ rate \in Nat /\ Steps \in Nat /\ now \in Nat /\ left \in Nat
        /\ d.time \in Nat /\ d.strict \in Nat /\ d.generous \in Int /\ left <= burst
    <3>1. burst \in Nat /\ rate \in Nat /\ now \in Nat /\ Configured
      BY <1>1, InvFacts
    <3>2. Steps \in Nat
      BY <3>1, StepsFacts
    <3> HIDE DEF d
    <3>3. d.time \in Nat /\ d.strict \in Nat /\ d.generous \in Int
      BY <2>1, TimeMaxAssumption DEF IdealType, Clock
    <3>4. left \in Nat /\ left <= burst
      BY <2>1, <3>1
    <3> QED
      BY <3>1, <3>2, <3>3, <3>4
  <2>3. left * Steps <= full /\ full \in Nat /\ left * Steps \in Nat
    <3>1. burst \in Nat /\ Steps \in Nat /\ left \in Nat /\ left <= burst
      BY <2>2
    <3>2. burst * Steps \in Nat /\ left * Steps \in Nat
      BY <3>1
    <3> QED
      BY <3>1, <3>2, TimesMonotonic
  <2>4. more \in Nat /\ most \in Nat
    BY <2>1, <2>2 DEF Fits
  <2>5. /\ RefillsFit => (d.strict + more > left => burst <= left)
        /\ ExpiresNoSoonerThanFull => left * Steps <= d.generous + most
    BY <2>1 DEF Fits
  <2>6. /\ Tokens(d, now).strict = AtMost(d.strict + more, burst)
        /\ Tokens(d, now).generous = AtMost(d.generous + most, full)
    BY DEF Tokens
  <2> HIDE DEF d, more, most, full
  <2>7. RefillsFit => AtMost(d.strict + more, burst) <= left
    BY <2>2, <2>4, <2>5 DEF AtMost
  <2>8. ExpiresNoSoonerThanFull => left * Steps <= AtMost(d.generous + most, full)
    BY <2>3, <2>5 DEF AtMost
  <2> QED
    BY <2>6, <2>7, <2>8 DEF left, d
<1>2. Inv => TokensAreExact
  BY <1>1 DEF TokensAreExact
<1> QED
  BY <1>2, InvAlways, PTL

=============================================================================
