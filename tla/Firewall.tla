------------------------------ MODULE Firewall ------------------------------
(***************************************************************************)
(* The firewall of nf/firewall: packets of the internal device are learnt  *)
(* and forwarded, packets of the external device are forwarded when they   *)
(* answer a learnt flow that has not expired.  A step is a call to         *)
(* nf_handle; the driver makes them one at a time.  Times are not assumed  *)
(* to advance.  The names of this module are its own: its proofs are next  *)
(* to those of the policer.                                                *)
(***************************************************************************)
EXTENDS FlowTable

CONSTANTS max_flows, expiration_time    \* of the configuration

ASSUME FlowsAssumption   == max_flows \in Nat
ASSUME FirewallExpirationAssumption == expiration_time \in Time

VARIABLES
  flow_table,
  handled     \* the last packet, and whether it was transmitted

firewall_vars == <<flow_table, handled>>

FirewallInit ==
  /\ flow_table = TableAlloc(expiration_time, max_flows)
  /\ handled = [verdict |-> "none"]

\* net_transmit is called, or the packet is left alone.
Handle(from, flow, time, verdict) ==
  handled' = [from |-> from, flow |-> flow, time |-> time, verdict |-> verdict]

\* nf_handle on a packet without the headers it asks for.
OtherPacket ==
  /\ handled' = [verdict |-> "drop"]
  /\ UNCHANGED flow_table

\* The table after flow_table_learn_internal: a known flow is refreshed even
\* if it has expired.
Learnt(flow, time) ==
  IF flow \in Known(flow_table) THEN Refreshed(flow_table, time, IndexOf(flow_table, flow))
  ELSE IF HasSpace(flow_table, time) THEN Inserted(flow_table, time, flow)
  ELSE flow_table

\* nf_handle on a packet of the internal device: forwarded, learnt or not.
InternalDevicePacket(flow, time) ==
  /\ flow_table' = Learnt(flow, time)
  /\ Handle("internal", flow, time, "forward")

\* Mutated form of HasExternal: the pool is not asked.
HasExternal_Stale(flow, time) == flow \in Known(flow_table)

\* The condition of flow_table_has_external.
HasExternal(flow, time) == flow \in Known(flow_table) /\ Young(flow_table, time, flow)

\* nf_handle on a packet of the external device; flow is already inverted.
ExternalDevicePacket(flow, time) ==
  \/ /\ HasExternal(flow, time)
     /\ flow_table' = Refreshed(flow_table, time, IndexOf(flow_table, flow))
     /\ Handle("external", flow, time, "forward")
  \/ /\ ~ HasExternal(flow, time)
     /\ Handle("external", flow, time, "drop")
     /\ UNCHANGED flow_table

FirewallNext ==
  \/ OtherPacket
  \/ \E flow \in Keys, time \in Clock :
       InternalDevicePacket(flow, time) \/ ExternalDevicePacket(flow, time)

FirewallSpec == FirewallInit /\ [][FirewallNext]_firewall_vars

-----------------------------------------------------------------------------

\* nf_handle keeps the types of its table: every index it stores, looks up or
\* refreshes is one of the max_flows entries of the heap and of the pool.
FirewallTypeOK ==
  /\ flow_table \in TableType(max_flows, expiration_time)
  /\ handled.verdict \in {"none", "forward", "drop"}

\* Heap, map and pool agree after every packet, whatever expired and was
\* evicted before.
FlowTableInSync == InSync(flow_table)

\* Whatever packet comes next, learning it keeps to the contracts of map.h.
CallsAreLegal ==
  \A flow \in Keys, time \in Clock :
    flow \notin Known(flow_table) /\ HasSpace(flow_table, time) =>
      InsertIsLegal(flow_table, time, flow)

LastUse ==
  [f \in Known(flow_table) |-> flow_table.port_allocator.timestamps[IndexOf(flow_table, f)]]

Filter == INSTANCE FlowFilter
            WITH known <- LastUse, MaxFlows <- max_flows, ExpirationTime <- expiration_time

\* The firewall is a filter by flows: no answer gets in after its flow
\* expired or was evicted, none is refused while its flow is used, and a flow
\* is only forgotten when it has expired.
IsFlowFilter == Filter!Spec

=============================================================================
