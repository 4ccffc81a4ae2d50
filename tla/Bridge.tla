------------------------------- MODULE Bridge -------------------------------
(***************************************************************************)
(* The Ethernet bridge of nf/bridge: it learns from the source of each     *)
(* frame which device a station is behind, sends frames there or floods    *)
(* them, and takes part in the election of a root bridge, which turns some *)
(* ports off for flooding.  A step is a call to nf_handle on a frame; the  *)
(* variables beginning with stp_ are the struct of that name.              *)
(***************************************************************************)
EXTENDS FlowTable

CONSTANTS
  Groups,           \* group addresses, which are never learnt
  BridgeGroup,      \* 01:80:C2:00:00:00, the one of BPDUs
  DevicesCount,
  Capacity, ExpirationTime, UpdateTime,   \* of the configuration
  Self,             \* "bid" of the configuration
  Bpdus,            \* what BPDUs say: a root and the cost of the path to it
  LINK_COST,
  CostModulus       \* 2^32, as costs are uint32_t

ASSUME GroupAssumption      == BridgeGroup \in Groups
                               /\ Groups \cap (Keys \cup {NoKey}) = {}
ASSUME DevicesAssumption    == DevicesCount \in Nat /\ DevicesCount >= 2
ASSUME CapacityAssumption   == Capacity \in Nat
ASSUME ExpirationAssumption == ExpirationTime \in Time /\ UpdateTime \in Time
ASSUME CostAssumption       == CostModulus \in Nat \ {0} /\ LINK_COST \in Nat
ASSUME BpduAssumption       == Self \in Nat
                               /\ Bpdus \subseteq Nat \X (0 .. CostModulus - 1)

\* The transmit functions, as TinyNF has them.
Tx == INSTANCE TinyNfTx

Devices   == 0 .. DevicesCount - 1
Addresses == Keys \cup Groups

VARIABLES
  table,            \* addresses, map and allocator
  devices,          \* the device of each entry of the table
  stp_update_time,  \* last_update_time
  stp_root, stp_root_cost, stp_root_port,
  disabled_ports,
  now,              \* time of the last frame: the driver reads an advancing clock
  sent,             \* what the last frame became, and the devices it went to
  seen,             \* history: device of the last frame from each station
  offers            \* history: all paths to a root that BPDUs offered

tableVars == <<table, devices, seen>>
stpVars   == <<stp_update_time, stp_root, stp_root_cost, stp_root_port,
               disabled_ports>>
vars == <<tableVars, stpVars, now, sent, offers>>

Nowhere == -1
Nothing == [what |-> "nothing", to |-> {}, for_bridges |-> FALSE]

Received(device, dst) ==
  Tx!Received(device, [dst_addr |-> dst, src_addr |-> NoKey], 1)

\* What leaves: the devices it leaves through, and whether other bridges take
\* it for a BPDU, which they know by its destination.
Sent(what, p) ==
  [what        |-> what,
   to          |-> {Tx!device_from_index(p, o) : o \in {k \in Tx!Outputs : p.lengths[k] > 0}},
   for_bridges |-> p.header.dst_addr = BridgeGroup]

Init ==
  /\ table = TableAlloc(ExpirationTime, Capacity)
  /\ devices = [i \in 0 .. Capacity - 1 |-> 0]
  /\ stp_update_time = 0
  /\ stp_root = Self
  /\ stp_root_cost = 0
  /\ stp_root_port = 0
  /\ disabled_ports = {}
  /\ now = 0
  /\ sent = Nothing
  /\ seen = [a \in Keys |-> Nowhere]
  /\ offers = {<<Self, 0, 0>>}

-----------------------------------------------------------------------------
(* stp_handle.                                                             *)

UpdateIsDue(time) == time > (stp_update_time + UpdateTime) % (TIME_MAX + 1)

\* The frame is sent with new contents.
Broadcast(device, dst) ==
  Sent("bpdu", Tx!net_flood(Received(device, dst), Tx!UPDATE_ETHER_ADDRS))

\* Whatever the frame was, it becomes a BPDU: its contents are lost.
Update(dst, device, time) ==
  /\ UpdateIsDue(time)
  /\ stp_update_time' = time
  /\ sent' = Broadcast(device, dst)
  /\ now' = time
  /\ UNCHANGED <<tableVars, stp_root, stp_root_cost, stp_root_port,
                 disabled_ports, offers>>

\* data->root_cost + LINK_COST, in a uint32_t
PathCost(cost) == (cost + LINK_COST) % CostModulus

\* Mutated form of IsBetter: a longer path to the same root is preferred when
\* its port has a lower number.
IsBetter_PortFirst(root, cost, device) ==
  \/ root < stp_root
  \/ root = stp_root /\ PathCost(cost) < stp_root_cost
  \/ root = stp_root /\ device < stp_root_port

\* The three branches that set updated.
IsBetter(root, cost, device) ==
  \/ root < stp_root
  \/ root = stp_root /\ PathCost(cost) < stp_root_cost
  \/ /\ root = stp_root
     /\ PathCost(cost) = stp_root_cost
     /\ device < stp_root_port

Bpdu(root, cost, device, time) ==
  /\ ~ UpdateIsDue(time)
  /\ now' = time
  /\ \/ /\ root > stp_root
        /\ disabled_ports' = disabled_ports \cup {device}
        /\ sent' = Nothing
        /\ UNCHANGED <<stp_root, stp_root_cost, stp_root_port>>
     \/ /\ IsBetter(root, cost, device)
        /\ stp_root' = root
        /\ stp_root_cost' = PathCost(cost)
        /\ stp_root_port' = device
        /\ sent' = Broadcast(device, BridgeGroup)
        /\ disabled_ports' = disabled_ports \ {device}
     \/ /\ root = stp_root
        /\ ~ IsBetter(root, cost, device)
        /\ sent' = Nothing
        /\ UNCHANGED <<stp_root, stp_root_cost, stp_root_port, disabled_ports>>
  /\ offers' = offers \cup {<<root, PathCost(cost), device>>}
  /\ UNCHANGED <<tableVars, stp_update_time>>

-----------------------------------------------------------------------------
(* The rest of nf_handle.                                                  *)

\* The table once the source of a frame is learnt, if it can be.
Learnt(src, time) ==
  IF src \notin Keys THEN table
  ELSE IF src \in Known(table) THEN Refreshed(table, time, IndexOf(table, src))
  ELSE IF HasSpace(table, time) THEN Inserted(table, time, src)
  ELSE table

\* Mutated form of LearntDevices: the device of a known station is not
\* brought up to date.
LearntDevices_Kept(src, device, time) ==
  IF src \in Keys \ Known(table) /\ src \in Known(Learnt(src, time))
  THEN [devices EXCEPT ![IndexOf(Learnt(src, time), src)] = device]
  ELSE devices

LearntDevices(src, device, time) ==
  IF src \in Known(Learnt(src, time))
  THEN [devices EXCEPT ![IndexOf(Learnt(src, time), src)] = device]
  ELSE devices

\* What becomes of a frame once its source is learnt.  Only flooding respects
\* disabled_ports.
Forwarded(src, dst, device, time) ==
  LET t == Learnt(src, time)
      d == LearntDevices(src, device, time)[IndexOf(t, dst)]
      p == Received(device, dst)
  IN  IF dst \notin Known(t) THEN Sent("frame", Tx!net_flood_except(p, disabled_ports, Tx!NONE))
      ELSE IF d # device THEN Sent("frame", Tx!net_transmit(p, d, Tx!NONE))
      ELSE Nothing

Frame(src, dst, device, time) ==
  /\ ~ UpdateIsDue(time)
  /\ dst # BridgeGroup
  /\ now' = time
  /\ seen' = IF src \in Keys THEN [seen EXCEPT ![src] = device] ELSE seen
  /\ table' = Learnt(src, time)
  /\ devices' = LearntDevices(src, device, time)
  /\ sent' = Forwarded(src, dst, device, time)
  /\ UNCHANGED <<stpVars, offers>>

\* A packet that is not Ethernet.
Other(time) ==
  /\ sent' = Nothing
  /\ now' = time
  /\ UNCHANGED <<tableVars, stpVars, offers>>

Next ==
  \E time \in now .. TIME_MAX - 1 :
    \/ Other(time)
    \/ \E device \in Devices :
         \/ \E dst \in Addresses : Update(dst, device, time)
         \/ \E bpdu \in Bpdus : Bpdu(bpdu[1], bpdu[2], device, time)
         \/ \E src, dst \in Addresses : Frame(src, dst, device, time)

Spec == Init /\ [][Next]_vars

-----------------------------------------------------------------------------

\* nf_handle keeps the types of the table and of the spanning tree state: a
\* path cost fits in 32 bits and all ports are devices.
TypeOK ==
  /\ table \in TableType(Capacity, ExpirationTime)
  /\ devices \in [0 .. Capacity - 1 -> Devices]
  /\ stp_update_time \in Clock
  /\ stp_root \in Nat
  /\ stp_root_cost \in 0 .. CostModulus - 1
  /\ stp_root_port \in Devices
  /\ disabled_ports \subseteq Devices
  /\ now \in Clock
  /\ sent \in [what : {"nothing", "bpdu", "frame"}, to : SUBSET Devices,
              for_bridges : BOOLEAN]
  /\ seen \in [Keys -> Devices \cup {Nowhere}]
  /\ offers \subseteq Nat \X (0 .. CostModulus - 1) \X Devices

\* Whatever station sends next, learning it keeps to the contracts of map.h.
CallsAreLegal ==
  \A src \in Keys, time \in Clock :
    src \notin Known(table) /\ HasSpace(table, time) =>
      InsertIsLegal(table, time, src)

\* Addresses, map and allocator agree after every frame and have their types,
\* so that the next station can be learnt.
TableInSync == TypeOK /\ InSync(table) /\ CallsAreLegal

\* Frames follow stations that move: an entry has the device that the last
\* frame of its station came from, whichever entries were evicted, reused and
\* learnt again since, so that a frame never goes where a station was before.
EntriesFollowStations ==
  \A a \in Known(table) : devices[IndexOf(table, a)] = seen[a]

\* Which of two paths to a root the election prefers.
Precedes(p, q) ==
  \/ p[1] < q[1]
  \/ p[1] = q[1] /\ p[2] < q[2]
  \/ p[1] = q[1] /\ p[2] = q[2] /\ p[3] <= q[3]

\* The bridge has the best of all paths it was ever offered, in whichever
\* order BPDUs came and whatever they came between: the elected root, its
\* cost and its port always belong to one and the same offer, none of those
\* that stp_handle looked at is better, and a path is never forgotten.  Ports
\* are disabled only where a root was offered that is worse than the elected
\* one.
ElectsTheBestPath ==
  LET elected == <<stp_root, stp_root_cost, stp_root_port>>
  IN  /\ elected \in offers
      /\ \A offer \in offers : Precedes(elected, offer)
      /\ \A port \in disabled_ports :
           \E offer \in offers : offer[3] = port /\ offer[1] > stp_root

\* "The port to the root must be enabled", says line 94 of spanning_tree.h.
\* That line enables it when it is elected; line 65 disables it again, for a
\* worse root that a BPDU offers there later.
RootPortIsEnabled == stp_root # Self => stp_root_port \notin disabled_ports

=============================================================================
