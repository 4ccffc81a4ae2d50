---------------------------- MODULE BridgeProofs ----------------------------
(***************************************************************************)
(* The bridge keeps its table in sync with where stations are and elects   *)
(* the best path, for any number of devices, stations and entries, any     *)
(* BPDUs and any link cost.                                                *)
(***************************************************************************)
EXTENDS Bridge, FlowTableProofs

-----------------------------------------------------------------------------
(* The transmit functions on a frame of the bridge.                        *)

\* An output is another device.
LEMMA OutputIsDevice ==
  ASSUME NEW p, p.device \in Devices, NEW o \in Tx!Outputs
  PROVE  Tx!device_from_index(p, o) \in Devices
BY DevicesAssumption DEF Tx!device_from_index, Tx!Outputs, Tx!OutputsCount, Devices

\* The transmit functions leave a packet the device it came from.
LEMMA TransmitFacts ==
  ASSUME NEW device, NEW dst, NEW d, NEW disabled, NEW flags
  PROVE  /\ Tx!net_transmit(Received(device, dst), d, flags).device = device
         /\ Tx!net_flood_except(Received(device, dst), disabled, flags).device = device
<1> DEFINE p == Received(device, dst)
<1>1. p = [device |-> device, length |-> 1,
           header |-> [dst_addr |-> dst, src_addr |-> NoKey],
           lengths |-> [o \in Tx!Outputs |-> 0]]
  BY DEF Received, Tx!Received
<1> HIDE DEF p
<1>2. ASSUME NEW e, NEW q, q = Tx!handle_flags(p, e, flags)
      PROVE  q = [device |-> device, length |-> 1, header |-> q.header,
                  lengths |-> [o \in Tx!Outputs |-> 0]]
  <2>1. CASE flags = Tx!UPDATE_ETHER_ADDRS
    <3>1. q = [p EXCEPT !.header.dst_addr = Tx!endpoint_mac(e),
                        !.header.src_addr = Tx!device_mac(e)]
      BY <1>2, <2>1 DEF Tx!handle_flags
    <3> QED
      BY <1>1, <3>1
  <2>2. CASE flags # Tx!UPDATE_ETHER_ADDRS
    <3>1. q = p
      BY <1>2, <2>2 DEF Tx!handle_flags
    <3> QED
      BY <1>1, <3>1
  <2> QED
    BY <2>1, <2>2
<1>3. Tx!net_transmit(p, d, flags).device = device
  <2> DEFINE q == Tx!handle_flags(p, d, flags)
             t == Tx!net_transmit(p, d, flags)
  <2>1. q = [device |-> device, length |-> 1, header |-> q.header,
             lengths |-> [o \in Tx!Outputs |-> 0]]
    BY <1>2
  <2>2. t = [q EXCEPT !.lengths[Tx!index_from_device(p, d)] = p.length]
    BY DEF Tx!net_transmit
  <2> HIDE DEF q, t
  <2>3. t.device = device
    BY <2>1, <2>2
  <2> QED
    BY <2>3 DEF t
<1>4. Tx!net_flood_except(p, disabled, flags).device = device
  <2> DEFINE e == Tx!device_from_index(p, Tx!OutputsCount - 1)
             q == Tx!handle_flags(p, e, flags)
             t == Tx!net_flood_except(p, disabled, flags)
             l == [n \in Tx!Outputs |->
                     IF Tx!device_from_index(p, n) \in disabled THEN 0 ELSE p.length]
  <2>1. q = [device |-> device, length |-> 1, header |-> q.header,
             lengths |-> [o \in Tx!Outputs |-> 0]]
    BY <1>2
  <2>2. t = p \/ t = [q EXCEPT !.lengths = l]
    BY DEF Tx!net_flood_except
  <2> HIDE DEF q, t, l
  <2>3. t.device = device
    BY <1>1, <2>1, <2>2
  <2> QED
    BY <2>3 DEF t
<1> QED
  BY <1>3, <1>4 DEF p

SentType == [what : {"nothing", "bpdu", "frame"}, to : SUBSET Devices,
             for_bridges : BOOLEAN]

\* What leaves has its type, whatever the transmit functions did.
LEMMA SentFacts ==
  ASSUME NEW what \in {"bpdu", "frame"}, NEW p, p.device \in Devices
  PROVE  Sent(what, p) \in SentType
<1>1. \A o \in {k \in Tx!Outputs : p.lengths[k] > 0} :
        Tx!device_from_index(p, o) \in Devices
  BY OutputIsDevice
<1> QED
  BY <1>1 DEF Sent, SentType

\* So do the BPDUs that leave,
LEMMA BroadcastFacts ==
  ASSUME NEW device \in Devices, NEW dst
  PROVE  Broadcast(device, dst) \in SentType
BY TransmitFacts, SentFacts DEF Broadcast, Tx!net_flood

\* and the frames.
LEMMA ForwardedFacts ==
  ASSUME NEW src, NEW dst, NEW device \in Devices, NEW time
  PROVE  Forwarded(src, dst, device, time) \in SentType
<1>1. Nothing \in SentType
  BY DEF Nothing, SentType
<1> QED
  BY <1>1, TransmitFacts, SentFacts DEF Forwarded

-----------------------------------------------------------------------------
(* The table.                                                              *)

\* What the invariants of the table rest on.
TableInv == TypeOK /\ InSync(table) /\ EntriesFollowStations

\* The table of a bridge is one of the tables of FlowTableProofs.
LEMMA TableFacts ==
  ASSUME TypeOK, InSync(table)
  PROVE  /\ table \in TableType(Capacity, ExpirationTime)
         /\ Known(table) \subseteq Keys
         /\ \A a \in Known(table) :
              /\ IndexOf(table, a) \in 0 .. Capacity - 1
              /\ ~ Free(table.port_allocator, IndexOf(table, a))
<1>1. table \in TableType(Capacity, ExpirationTime)
  BY DEF TypeOK
<1>2. Indices(table.port_allocator) = 0 .. Capacity - 1
  BY <1>1, PoolOfTable, CapacityAssumption
<1> QED
  BY <1>1, <1>2, KnownAreKeys, KnownFacts, CapacityAssumption

\* Learning a station keeps the three parts of the table in sync.
LEMMA LearntInSync ==
  ASSUME TypeOK, InSync(table), NEW src \in Addresses, NEW time \in Clock
  PROVE  /\ Learnt(src, time) \in TableType(Capacity, ExpirationTime)
         /\ InSync(Learnt(src, time))
<1>1. CASE src \in Known(table)
  BY <1>1, TableFacts, RefreshInSync, CapacityAssumption DEF Learnt
<1>2. CASE src \in Keys /\ src \notin Known(table) /\ HasSpace(table, time)
  <2>1. Learnt(src, time) = Inserted(table, time, src)
    BY <1>2 DEF Learnt
  <2> QED
    BY <1>2, <2>1, TableFacts, InsertedType, InsertInSync, CapacityAssumption
<1>3. CASE src \notin Known(table) /\ ~ (src \in Keys /\ HasSpace(table, time))
  BY <1>3, TableFacts DEF Learnt
<1> QED
  BY <1>1, <1>2, <1>3

\* Learning a station gives an index to it, and leaves the entries of all
\* other stations that remain where they are.
LEMMA LearntFacts ==
  ASSUME TypeOK, InSync(table), NEW src \in Addresses, NEW time \in Clock,
         NEW a \in Known(Learnt(src, time)), a # src
  PROVE  /\ a \in Known(table)
         /\ IndexOf(Learnt(src, time), a) = IndexOf(table, a)
<1>1. CASE src \in Known(table)
  BY <1>1, TableFacts, RefreshedFacts, CapacityAssumption DEF Learnt
<1>2. CASE src \in Keys /\ src \notin Known(table) /\ HasSpace(table, time)
  <2>1. Learnt(src, time) = Inserted(table, time, src)
    BY <1>2 DEF Learnt
  <2> QED
    BY <1>2, <2>1, TableFacts, InsertedFacts, CapacityAssumption
<1>3. CASE src \notin Known(table) /\ ~ (src \in Keys /\ HasSpace(table, time))
  BY <1>3, TableFacts DEF Learnt
<1> QED
  BY <1>1, <1>2, <1>3

\* A frame keeps the devices of the entries up to date.
LEMMA FrameKeepsTable ==
  ASSUME TableInv, NEW src \in Addresses, NEW dst \in Addresses,
         NEW device \in Devices, NEW time \in Clock, Frame(src, dst, device, time)
  PROVE  TableInv'
<1> DEFINE t == Learnt(src, time)
           i == IndexOf(t, src)
<1>1. TypeOK /\ InSync(table) /\ EntriesFollowStations
  BY DEF TableInv
<1>2. t \in TableType(Capacity, ExpirationTime) /\ InSync(t)
  BY <1>1, LearntInSync
<1>3. Known(t) \subseteq Keys
  BY <1>2, KnownAreKeys, CapacityAssumption
<1>4. \A a \in Known(t) : IndexOf(t, a) \in 0 .. Capacity - 1
  <2> HIDE DEF t
  <2>1. Indices(t.port_allocator) = 0 .. Capacity - 1
    BY <1>2, PoolOfTable, CapacityAssumption
  <2> QED
    BY <1>2, <2>1, KnownFacts
<1>5. \A a, b \in Known(t) : IndexOf(t, a) = IndexOf(t, b) => a = b
  BY <1>2, IndexInjective
<1>6. \A a \in Known(t) : a # src => a \in Known(table) /\ IndexOf(t, a) = IndexOf(table, a)
  BY <1>1, LearntFacts
<1>7. /\ table' = t
      /\ devices' = IF src \in Known(t) THEN [devices EXCEPT ![i] = device] ELSE devices
      /\ seen' = IF src \in Keys THEN [seen EXCEPT ![src] = device] ELSE seen
      /\ sent' = Forwarded(src, dst, device, time)
      /\ now' = time /\ dst # BridgeGroup
      /\ UNCHANGED <<stpVars, offers>>
  BY DEF Frame, LearntDevices
<1>8. sent' \in SentType
  BY <1>7, ForwardedFacts
<1> HIDE DEF t, i
<1>9. devices' \in [0 .. Capacity - 1 -> Devices]
  BY <1>1, <1>4, <1>7 DEF TypeOK
<1>10. seen' \in [Keys -> Devices \cup {Nowhere}]
  BY <1>1, <1>7 DEF TypeOK
<1>11. TypeOK'
  BY <1>1, <1>2, <1>7, <1>8, <1>9, <1>10 DEF TypeOK, stpVars, SentType
<1>12. ASSUME NEW a \in Known(t)
       PROVE  devices'[IndexOf(t, a)] = seen'[a]
  <2>1. a \in Keys /\ IndexOf(t, a) \in 0 .. Capacity - 1
    BY <1>3, <1>4
  <2>2. devices \in [0 .. Capacity - 1 -> Devices] /\ seen \in [Keys -> Devices \cup {Nowhere}]
    BY <1>1 DEF TypeOK
  <2>3. CASE a = src
    BY <1>7, <2>1, <2>2, <2>3 DEF i
  <2>4. CASE a # src
    <3>1. devices[IndexOf(t, a)] = seen[a]
      BY <1>1, <1>6, <2>4 DEF EntriesFollowStations
    <3>2. seen'[a] = seen[a]
      BY <1>7, <2>1, <2>2, <2>4
    <3>3. src \in Known(t) => IndexOf(t, a) # i
      BY <1>5, <2>4 DEF i
    <3> QED
      BY <1>7, <2>1, <2>2, <3>1, <3>2, <3>3
  <2> QED
    BY <2>3, <2>4
<1>13. EntriesFollowStations'
  BY <1>7, <1>12 DEF EntriesFollowStations
<1> QED
  BY <1>2, <1>7, <1>11, <1>13 DEF TableInv

\* The table of nf_init, and the state of the spanning tree protocol.
LEMMA TableInit == Init => TableInv
<1> SUFFICES ASSUME Init PROVE TableInv
  OBVIOUS
<1>1. table \in TableType(Capacity, ExpirationTime) /\ InSync(table)
  BY AllocInSync, CapacityAssumption DEF Init
<1>2. Known(table) = {}
  BY DEF Init, TableAlloc, Known
<1>3. sent \in SentType
  BY DEF Init, Nothing, SentType
<1>4. 0 \in Devices /\ 0 \in Clock /\ 0 \in 0 .. CostModulus - 1 /\ Self \in Nat
  BY DevicesAssumption, TimeMaxAssumption, CostAssumption, BpduAssumption
     DEF Devices, Clock
<1>5. TypeOK
  BY <1>1, <1>3, <1>4 DEF Init, TypeOK, SentType
<1> QED
  BY <1>1, <1>2, <1>5 DEF TableInv, EntriesFollowStations

\* The times of frames.
LEMMA TimeIsClock ==
  ASSUME now \in Clock, NEW time \in now .. TIME_MAX - 1
  PROVE  time \in Clock
BY TimeMaxAssumption DEF Clock

\* A path cost is a uint32_t.
LEMMA PathCostType ==
  ASSUME NEW bpdu \in Bpdus
  PROVE  bpdu[1] \in Nat /\ PathCost(bpdu[2]) \in 0 .. CostModulus - 1
<1>1. bpdu[1] \in Nat /\ bpdu[2] \in Nat
  BY BpduAssumption, CostAssumption
<1>2. bpdu[2] + LINK_COST \in Nat
  BY <1>1, CostAssumption
<1> QED
  BY <1>1, <1>2, CostAssumption DEF PathCost

\* A BPDU leaves the table alone, and all that it changes has its type.
LEMMA BpduKeepsTable ==
  ASSUME TableInv, NEW bpdu \in Bpdus, NEW device \in Devices,
         NEW time \in Clock, Bpdu(bpdu[1], bpdu[2], device, time)
  PROVE  TableInv'
<1>1. TypeOK /\ InSync(table) /\ EntriesFollowStations
  BY DEF TableInv
<1>2. UNCHANGED <<table, devices, seen, stp_update_time>> /\ now' = time
  BY DEF Bpdu, tableVars
<1>3. bpdu[1] \in Nat /\ PathCost(bpdu[2]) \in 0 .. CostModulus - 1
  BY PathCostType
<1>4. sent' \in SentType
  <2>1. Nothing \in SentType
    BY DEF Nothing, SentType
  <2>2. sent' = Nothing \/ sent' = Broadcast(device, BridgeGroup)
    BY DEF Bpdu
  <2> QED
    BY <2>1, <2>2, BroadcastFacts
<1>5. /\ stp_root' \in Nat
      /\ stp_root_cost' \in 0 .. CostModulus - 1
      /\ stp_root_port' \in Devices
      /\ disabled_ports' \subseteq Devices
  BY <1>1, <1>3 DEF Bpdu, TypeOK
<1>6. offers' \subseteq Nat \X (0 .. CostModulus - 1) \X Devices
  BY <1>1, <1>3 DEF Bpdu, TypeOK
<1>7. TypeOK'
  BY <1>1, <1>2, <1>4, <1>5, <1>6 DEF TypeOK, SentType
<1> QED
  BY <1>1, <1>2, <1>7 DEF TableInv, EntriesFollowStations

\* Every call to nf_handle keeps the table and its types.
LEMMA TableNext ==
  ASSUME TableInv, [Next]_vars
  PROVE  TableInv'
<1>1. TypeOK /\ InSync(table) /\ EntriesFollowStations
  BY DEF TableInv
<1>2. CASE UNCHANGED vars
  BY <1>1, <1>2
     DEF vars, tableVars, stpVars, TableInv, TypeOK, EntriesFollowStations
<1>3. CASE Next
  <2>1. PICK time \in now .. TIME_MAX - 1 :
          \/ Other(time)
          \/ \E device \in Devices :
               \/ \E dst \in Addresses : Update(dst, device, time)
               \/ \E bpdu \in Bpdus : Bpdu(bpdu[1], bpdu[2], device, time)
               \/ \E src, dst \in Addresses : Frame(src, dst, device, time)
    BY <1>3 DEF Next
  <2>2. time \in Clock
    BY <1>1, TimeIsClock DEF TypeOK
  <2>3. CASE Other(time)
    <3>1. sent' \in SentType
      BY <2>3 DEF Other, Nothing, SentType
    <3> QED
      BY <1>1, <2>2, <2>3, <3>1
         DEF Other, tableVars, stpVars, TableInv, TypeOK, EntriesFollowStations, SentType
  <2>4. ASSUME NEW device \in Devices, NEW dst \in Addresses, Update(dst, device, time)
        PROVE  TableInv'
    <3>1. sent' \in SentType
      BY <2>4, BroadcastFacts DEF Update
    <3> QED
      BY <1>1, <2>2, <2>4, <3>1
         DEF Update, tableVars, TableInv, TypeOK, EntriesFollowStations, SentType
  <2> QED
    BY <2>1, <2>2, <2>3, <2>4, BpduKeepsTable, FrameKeepsTable
<1> QED
  BY <1>2, <1>3

\* Types, agreement and devices hold after any sequence of frames.
LEMMA TableAlways == Spec => []TableInv
BY TableInit, TableNext, PTL DEF Spec

\* Addresses, map and allocator of the bridge agree after every frame, and
\* bridge_handle calls map_set and map_remove within their contracts.
THEOREM BridgeTableInSync == Spec => []TableInSync
<1>1. TableInv => TableInSync
  <2> SUFFICES ASSUME TableInv PROVE TableInSync
    OBVIOUS
  <2>1. TypeOK /\ InSync(table)
    BY DEF TableInv
  <2>2. CallsAreLegal
    BY <2>1, TableFacts, InsertLegal, CapacityAssumption DEF CallsAreLegal
  <2> QED
    BY <2>1, <2>2 DEF TableInSync
<1> QED
  BY <1>1, TableAlways, PTL

\* A frame never goes where a station was before: the entry of a station has
\* the device its last frame came from, through evictions and moves.
THEOREM BridgeEntriesFollowStations == Spec => []EntriesFollowStations
<1>1. TableInv => EntriesFollowStations
  BY DEF TableInv
<1> QED
  BY <1>1, TableAlways, PTL

-----------------------------------------------------------------------------
(* The election.                                                           *)

\* A path, as BPDUs offer it.
Paths == Nat \X (0 .. CostModulus - 1) \X Devices

\* The order of paths is total and transitive.
LEMMA PrecedesFacts ==
  ASSUME NEW p \in Paths, NEW q \in Paths, NEW r \in Paths
  PROVE  /\ Precedes(p, p)
         /\ Precedes(p, q) \/ Precedes(q, p)
         /\ Precedes(p, q) /\ Precedes(q, r) => Precedes(p, r)
<1>1. \A x \in Paths : x[1] \in Int /\ x[2] \in Int /\ x[3] \in Int
  BY CostAssumption, DevicesAssumption DEF Paths, Devices
<1> QED
  BY <1>1 DEF Precedes

\* The three comparisons of stp_handle are the order of paths.
LEMMA IsBetterFacts ==
  ASSUME TypeOK, NEW root \in Nat, NEW cost,
         PathCost(cost) \in 0 .. CostModulus - 1, NEW device \in Devices
  PROVE  LET elected == <<stp_root, stp_root_cost, stp_root_port>>
             offer   == <<root, PathCost(cost), device>>
         IN  /\ elected \in Paths /\ offer \in Paths
             /\ IsBetter(root, cost, device) => Precedes(offer, elected) /\ root <= stp_root
             /\ ~ IsBetter(root, cost, device) => Precedes(elected, offer)
<1>1. /\ stp_root \in Nat /\ stp_root_cost \in 0 .. CostModulus - 1
      /\ stp_root_port \in Devices
  BY DEF TypeOK
<1>2. /\ stp_root_cost \in Int /\ PathCost(cost) \in Int
      /\ stp_root_port \in Int /\ device \in Int
  BY <1>1, CostAssumption, DevicesAssumption DEF Devices
<1> QED
  BY <1>1, <1>2 DEF IsBetter, Precedes, Paths

\* A BPDU that offers a better path is followed, and one that does not is not.
LEMMA BpduElects ==
  ASSUME TypeOK, ElectsTheBestPath, NEW bpdu \in Bpdus, NEW device \in Devices,
         NEW time, Bpdu(bpdu[1], bpdu[2], device, time)
  PROVE  ElectsTheBestPath'
<1> DEFINE root == bpdu[1]
           cost == bpdu[2]
           offer == <<root, PathCost(cost), device>>
           elected == <<stp_root, stp_root_cost, stp_root_port>>
<1>1. root \in Nat /\ PathCost(cost) \in 0 .. CostModulus - 1
  BY PathCostType
<1>2. /\ elected \in Paths /\ offer \in Paths
      /\ IsBetter(root, cost, device) => Precedes(offer, elected) /\ root <= stp_root
      /\ ~ IsBetter(root, cost, device) => Precedes(elected, offer)
  BY <1>1, IsBetterFacts
<1>3. /\ elected \in offers
      /\ \A o \in offers : Precedes(elected, o)
      /\ \A port \in disabled_ports : \E o \in offers : o[3] = port /\ o[1] > stp_root
      /\ offers \subseteq Paths
      /\ stp_root \in Nat
  BY DEF ElectsTheBestPath, TypeOK, Paths
<1>4. offers' = offers \cup {offer}
  BY DEF Bpdu
<1>5. CASE IsBetter(root, cost, device) /\ ~ (root > stp_root)
  <2>1. /\ stp_root' = root /\ stp_root_cost' = PathCost(cost) /\ stp_root_port' = device
        /\ disabled_ports' = disabled_ports \ {device}
    BY <1>5 DEF Bpdu
  <2> HIDE DEF offer, elected, root, cost
  <2>2. \A o \in offers' : Precedes(offer, o)
    BY <1>2, <1>3, <1>4, <1>5, PrecedesFacts
  <2>3. \A port \in disabled_ports' : \E o \in offers' : o[3] = port /\ o[1] > root
    <3>1. \A o \in Paths : o[1] \in Nat
      BY DEF Paths
    <3> QED
      BY <1>1, <1>2, <1>3, <1>4, <1>5, <2>1, <3>1
  <2> QED
    BY <1>4, <2>1, <2>2, <2>3 DEF ElectsTheBestPath, offer
<1>6. CASE root > stp_root
  <2>1. ~ IsBetter(root, cost, device)
    BY <1>1, <1>3, <1>6 DEF IsBetter
  <2>2. /\ disabled_ports' = disabled_ports \cup {device}
        /\ UNCHANGED <<stp_root, stp_root_cost, stp_root_port>>
    BY <1>1, <1>3, <1>6, <2>1 DEF Bpdu
  <2>3. offer[3] = device /\ offer[1] = root
    OBVIOUS
  <2> HIDE DEF offer
  <2>4. \A port \in disabled_ports' : \E o \in offers' : o[3] = port /\ o[1] > stp_root
    BY <1>3, <1>4, <1>6, <2>2, <2>3
  <2> QED
    BY <1>2, <1>3, <1>4, <2>1, <2>2, <2>4 DEF ElectsTheBestPath
<1>7. CASE ~ IsBetter(root, cost, device) /\ ~ (root > stp_root)
  <2>1. UNCHANGED <<stp_root, stp_root_cost, stp_root_port, disabled_ports>>
    BY <1>7 DEF Bpdu
  <2> QED
    BY <1>2, <1>3, <1>4, <1>7, <2>1 DEF ElectsTheBestPath
<1> QED
  BY <1>5, <1>6, <1>7, <1>1, <1>3 DEF IsBetter

\* The elected root, its cost and its port are those of the best path that was
\* ever offered, in whichever order BPDUs and other frames came, also where
\* costs wrap around.
THEOREM BridgeElectsTheBestPath == Spec => []ElectsTheBestPath
<1>1. Init => ElectsTheBestPath
  BY BpduAssumption DEF Init, ElectsTheBestPath, Precedes
<1>2. TableInv /\ ElectsTheBestPath /\ [Next]_vars => ElectsTheBestPath'
  <2> SUFFICES ASSUME TableInv, ElectsTheBestPath, [Next]_vars
               PROVE  ElectsTheBestPath'
    OBVIOUS
  <2>1. CASE UNCHANGED <<stp_root, stp_root_cost, stp_root_port, disabled_ports, offers>>
    BY <2>1 DEF ElectsTheBestPath
  <2>2. ASSUME NEW bpdu \in Bpdus, NEW device \in Devices, NEW time,
               Bpdu(bpdu[1], bpdu[2], device, time)
        PROVE  ElectsTheBestPath'
    BY <2>2, BpduElects DEF TableInv
  <2> QED
    BY <2>1, <2>2 DEF Next, Other, Update, Frame, vars, stpVars
<1> QED
  BY <1>1, <1>2, TableAlways, PTL DEF Spec

=============================================================================
