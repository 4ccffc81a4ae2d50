------------------------- MODULE AddressTranslation -------------------------
(***************************************************************************)
(* The address translator of nf/nat: packets from the inside get the       *)
(* translator's address and a source port that stands for their flow, and  *)
(* packets from the outside to such a port are given the address and port  *)
(* of the flow's sender.  A step is a call to nf_handle.                   *)
(***************************************************************************)
EXTENDS FlowTable

CONSTANTS
  Hosts,          \* (address, port) pairs of the inside
  Servers,        \* (address, port, protocol) triples of the outside
  NoPort,
  MaxFlows, ExpirationTime, StartPort,    \* of the configuration
  PortModulus,    \* 2^16, as ports are uint16_t
  HostWords,      \* low word, high word and port of every host
  ExternalAddr,   \* low and high word of the translator's address
  ServerLow,      \* low word of the address of every server
  Checksums       \* that segments come with

ASSUME MaxFlowsAssumption   == MaxFlows \in Nat
ASSUME ExpirationAssumption == ExpirationTime \in Time
ASSUME PortAssumption       == PortModulus \in Nat /\ PortModulus > 1
                               /\ StartPort \in 0 .. PortModulus - 1
ASSUME FlowAssumption       == Keys = [src : Hosts, dst : Servers]

Ports == 0 .. PortModulus - 1
Words == Ports  \* words of two bytes

ASSUME WordsAssumption ==
  /\ HostWords \in [Hosts -> Words \X Words \X Words] /\ ServerLow \in [Servers -> Words]
  /\ ExternalAddr \in Words \X Words /\ Checksums \subseteq Words

VARIABLES
  table,
  now,        \* time of the last packet: the driver reads an advancing clock
  out,        \* the last packet as it was transmitted
  session     \* history: for each flow, the port its sender was last given,
              \* and when it last sent a packet or received an answer

vars == <<table, now, out, session>>

Dropped == [to |-> "nobody"]
\* Whether the checksums of the IPv4 header and of the segment, which were
\* right when the packet came, are right for what it now says.
ToServer(server, port, header_right, segment_right) ==
  [to |-> "server", dst |-> server, src_port |-> port,
   header_right |-> header_right, segment_right |-> segment_right]

\* The low word of the address of the sender is as the host sees it.
ToHost(host, server, src_low, header_right, segment_right) ==
  [to |-> "host", dst |-> host, src |-> server, src_low |-> src_low,
   header_right |-> header_right, segment_right |-> segment_right]

NoSession == [port |-> NoPort, time |-> 0]

Init ==
  /\ table = TableAlloc(ExpirationTime, MaxFlows)
  /\ now = 0
  /\ out = Dropped
  /\ session = [f \in Keys |-> NoSession]

\* nf_handle on a packet without the headers it asks for.
Other(time) ==
  /\ out' = Dropped
  /\ now' = time
  /\ UNCHANGED <<table, session>>

-----------------------------------------------------------------------------
(* Checksums (packet.h)                                                    *)

\* The sum is an int, and its low word is stored.
net_checksum_update(c, old, new) ==
  LET Not(w) == - w - 1
  IN  Not(Not(c) + Not(old) + new) % PortModulus

\* The low word, then the high word.  Both the checksum of the segment and the
\* word at offset 12 of the IPv4 header are updated so.  That word is the low
\* one of the source address: the checksum of the header, at 10, stays as it is.
net_packet_checksum_update_32(c, old, new) ==
  net_checksum_update(net_checksum_update(c, old[1], new[1]), old[2], new[2])

\* The checksum of a segment once an address and then a port are updated.
UpdatedChecksum(c, olds, news) ==
  net_checksum_update(net_packet_checksum_update_32(c, olds, news), olds[3], news[3])

\* A packet whose words sum up to this much more than they should has a wrong
\* checksum, unless the difference is nothing to a ones' complement sum.
IsRight(difference) == difference % (PortModulus - 1) = 0

\* What a change of address adds to the words of a header, and, with a port, to
\* those of a segment.
HeaderChange(olds, news)  == news[1] + news[2] - olds[1] - olds[2]
SegmentChange(olds, news) == HeaderChange(olds, news) + news[3] - olds[3]

-----------------------------------------------------------------------------
(* Packets from the inside.                                                *)

\* start_port + (uint16_t) index, in a uint16_t
ExternalPort(index) == (StartPort + (index % PortModulus)) % PortModulus

\* The table after flow_table_get_internal finds or makes room for a flow.
GotInternal(flow, time) ==
  IF flow \in Known(table) THEN Refreshed(table, time, IndexOf(table, flow))
                           ELSE Inserted(table, time, flow)

\* The words of the packet that change, and what they change to.
Before(flow)      == HostWords[flow.src]
After(flow, port) == <<ExternalAddr[1], ExternalAddr[2], port>>

\* The packet as it is transmitted to the server: the update of the word at 12
\* is lost, as the source address is then written.
Request(flow, port, checksum) ==
  LET olds == Before(flow)
      news == After(flow, port)
      sum  == UpdatedChecksum(checksum, olds, news)
  IN  ToServer(flow.dst, port,
               IsRight(HeaderChange(olds, news)),
               IsRight(SegmentChange(olds, news) + sum - checksum))

InternalPacket(flow, checksum, time) ==
  \/ LET port == ExternalPort(IndexOf(GotInternal(flow, time), flow))
     IN  /\ flow \in Known(table) \/ HasSpace(table, time)
         /\ table' = GotInternal(flow, time)
         /\ out' = Request(flow, port, checksum)
         /\ session' = [session EXCEPT ![flow] = [port |-> port, time |-> time]]
         /\ now' = time
  \/ /\ flow \notin Known(table) /\ ~ HasSpace(table, time)
     /\ out' = Dropped
     /\ now' = time
     /\ UNCHANGED <<table, session>>

-----------------------------------------------------------------------------
(* Packets from the outside.                                               *)

\* Mutated form of PortIndex: the cast to uint16_t is forgotten, and ports
\* below start_port make a huge size_t.
PortIndex_NoCast(port) ==
  IF port >= StartPort THEN port - StartPort ELSE PortModulus * PortModulus

\* (uint16_t) (port - start_port)
PortIndex(port) == (port - StartPort) % PortModulus

\* Mutated form of FromServer: anybody may use the port.
FromServer_Any(index, server) == TRUE

\* The three comparisons that detect a spoofing attempt.
FromServer(index, server) == table.flows[index].dst = server

\* The packet as it is transmitted to the host: the update of the word at 12
\* changes the source address, which the segment's checksum covers as well.
Answer(flow, port, server, checksum) ==
  LET olds    == After(flow, port)
      news    == Before(flow)
      src_low == net_packet_checksum_update_32(ServerLow[server], olds, news)
      low     == src_low - ServerLow[server]
      sum     == UpdatedChecksum(checksum, olds, news)
  IN  ToHost(flow.src, server, src_low,
             IsRight(HeaderChange(olds, news) + low),
             IsRight(SegmentChange(olds, news) + low + sum - checksum))

\* The index is refreshed before the origin of the packet is checked.
ExternalPacket(port, server, checksum, time) ==
  LET index == PortIndex(port)
      flow  == table.flows[index]
  IN  /\ now' = time
      /\ \/ /\ ~ index_pool_used(table.port_allocator, time, index)
            /\ out' = Dropped
            /\ UNCHANGED <<table, session>>
         \/ /\ index_pool_used(table.port_allocator, time, index)
            /\ table' = Refreshed(table, time, index)
            /\ \/ /\ FromServer(index, server)
                  /\ out' = Answer(flow, port, server, checksum)
                  /\ session' = [session EXCEPT ![flow].time = time]
               \/ /\ ~ FromServer(index, server)
                  /\ out' = Dropped
                  /\ UNCHANGED session

\* A packet from this server to this port, with any checksum.
FromOutside(port, server, time) ==
  \E checksum \in Checksums : ExternalPacket(port, server, checksum, time)

Next ==
  \E time \in now .. TIME_MAX - 1 :
    \/ Other(time)
    \/ \E flow \in Keys, checksum \in Checksums : InternalPacket(flow, checksum, time)
    \/ \E port \in Ports, server \in Servers : FromOutside(port, server, time)

Spec == Init /\ [][Next]_vars

-----------------------------------------------------------------------------

\* What nf_handle makes of a packet.
OutType ==
  {Dropped}
  \cup [to : {"server"}, dst : Servers, src_port : Ports,
        header_right : BOOLEAN, segment_right : BOOLEAN]
  \cup [to : {"host"}, dst : Hosts, src : Servers, src_low : Words,
        header_right : BOOLEAN, segment_right : BOOLEAN]

\* nf_handle keeps the types of its table, and only transmits packets with a
\* port that fits in a uint16_t to parties that exist.
TypeOK ==
  /\ table \in TableType(MaxFlows, ExpirationTime)
  /\ now \in Clock
  /\ session \in [Keys -> [port : Ports \cup {NoPort}, time : Clock]]
  /\ out \in OutType

\* Heap, map and pool agree after every packet, and have their types.
TableInSync == TypeOK /\ InSync(table)

\* The flow has a port and was used within the expiration time.
Live(flow, time) ==
  /\ session[flow].port # NoPort
  /\ session[flow].time + ExpirationTime >= time

\* An answer that comes back within the expiration time reaches the sender,
\* whatever other flows came, went and were evicted in the meantime: flows in
\* use never share a port, for as many flows as there are ports at most, which
\* nf_init does not check.
AnswersReachTheirSender ==
  [][\A flow \in Keys :
       /\ Live(flow, now')
       /\ FromOutside(session[flow].port, flow.dst, now')
       => out'.to = "host" /\ out'.dst = flow.src]_vars

\* Nothing else gets in: a packet is only passed to a host if the host used
\* this very port to send to this very server.
OnlyAnswersGetIn ==
  [][out'.to = "host" =>
       \A port \in Ports, server \in Servers :
         FromOutside(port, server, now')
         => session[[src |-> out'.dst, dst |-> server]].port = port]_vars

\* A flow keeps its port as long as it is used: a server never sees one
\* conversation come from two ports.
LiveFlowsKeepTheirPort ==
  [][\A flow \in Keys :
       Live(flow, now') => session'[flow].port = session[flow].port]_vars

\* Line 104 of packet.h calls the sum in net_checksum_update "RFC 1624 Equation
\* 3", and line 108 says that net_packet_checksum_update "updates a packet's
\* checksum" for words in the IP header or not: a packet whose checksums were
\* right has right ones after nf_handle.  What is stated is weaker, that one of
\* the two is right, so that a packet which breaks it has both wrong.
ChecksumsStayRight == out # Dropped => out.header_right \/ out.segment_right

=============================================================================
