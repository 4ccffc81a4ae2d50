----------------------------- MODULE TinyNfMain ------------------------------
(***************************************************************************)
(* TinyNF's main from its first line: the operating system layer, nf_init, *)
(* the devices and agents (DeviceSetup), then the packets that the agents  *)
(* hand to nf_handle, one at a time.  Here the network functions are those *)
(* that have no module of their own; "bridge" makes every transmit call    *)
(* that is not theirs.                                                     *)
(***************************************************************************)
EXTENDS DeviceSetup, Router, NfStart, Registers

CONSTANTS
  Configs,              \* pairs of a network function and its items
  Headers,              \* of the packets that the router gets
  Candidates            \* more configurations, whose start is checked

ASSUME ConfigsAssumption ==
  \A c \in Configs \cup Candidates : c[1] \in NetworkFunctions /\ c[2] \in Seq(ItemType)

Bytes == 0 .. 255

\* The Ethernet and IPv4 headers.
HeaderType ==
  [dst_addr : {"station"}, src_addr : {"sender"}, ether_type : {"ipv4", "other"},
   version : Bytes, ihl : Bytes, total_length : Bytes \X Bytes, time_to_live : Bytes,
   checksum : {"right", "wrong"}, dst : Keys]

ASSUME HeadersAssumption == Headers \subseteq HeaderType

VARIABLES
  nf, items,            \* what is compiled into the program
  routes,               \* the router's table
  sent                  \* the last packet, and what was asked for

mainVars == <<nf, items, routes, sent>>
vars     == <<setupVars, mainVars>>

PacketLength == 60
AnyHeader    == [dst_addr |-> "station", src_addr |-> "sender"]

Nothing == [packet |-> Received(0, AnyHeader, 0), asked |-> {}, flags |-> NONE]

Init ==
  /\ \E c \in Configs : nf = c[1] /\ items = c[2]
  /\ at = "os_init" /\ heap = EmptyHeap /\ InitDevices
  /\ routes = EmptyTable /\ sent = Nothing

-----------------------------------------------------------------------------
(* main before the devices                                                 *)

\* There is no access to the ports, to the frequency or to a huge page.
OsFails == at = "os_init" /\ Fatal("hardware") /\ UNCHANGED mainVars

\* os_init, then os_pci_enumerate.
OsInit ==
  /\ at = "os_init"
  /\ Allocated(os_pci_enumerate(heap, DevicesCount), "nf_init")
  /\ UNCHANGED <<n, m, dev, flags, agents, cause, mainVars>>

NfInit ==
  /\ at = "nf_init"
  /\ IF Starts(nf, DevicesCount, items)
     THEN Allocated(nf_init(heap, nf, DevicesCount, items), "allocate")
     ELSE at' = "exit" /\ UNCHANGED heap
  /\ UNCHANGED <<n, m, dev, flags, agents, cause, mainVars>>

\* The devices and the addresses.
AllocateDevices ==
  /\ at = "allocate"
  /\ Allocated(AllocAll(heap, << <<DevicesCount, 16>>, <<DevicesCount, 6>>,
                                 <<DevicesCount, 6>> >>), "pci")
  /\ UNCHANGED <<n, m, dev, flags, agents, cause, mainVars>>

Setup == SetupNext /\ UNCHANGED mainVars

-----------------------------------------------------------------------------
(* tinynf_packet_handler, for a packet from some device                    *)

\* net_transmit, for a device that does not exist: lines 23, 24 and 31 are
\* beyond the ends of their arrays, and C says nothing of what follows.
Undefined ==
  /\ at = "run" /\ at' = "undefined"
  /\ UNCHANGED <<n, m, heap, dev, flags, agents, cause, nf, items, sent>>

\* nf_handle made a call, or none, and the agent sends what is to be sent.
Handled(packet, asked, fl) ==
  /\ at = "run"
  /\ sent' = [packet |-> packet, asked |-> asked, flags |-> fl]
  /\ UNCHANGED <<setupVars, nf, items>>

Drops(p) == Handled(p, {}, NONE)

HandleNop(device) ==
  LET v   == Read("nop", DevicesCount, items)
      dst == nop_handle(v["wan device"], v["lan device"], device)
  IN  /\ nf = "nop"
      /\ Handled(net_transmit(Received(device, AnyHeader, PacketLength), dst,
                              UPDATE_ETHER_ADDRS),
                 {dst}, UPDATE_ETHER_ADDRS)
      /\ UNCHANGED routes

HandleCommand(device, cmd) ==
  /\ nf = "router" /\ IsManagement(device)
  /\ routes' = AfterCommand(routes, Read("router", DevicesCount, items)["capacity"], cmd)
  /\ Drops(Received(device, AnyHeader, PacketLength))

HandleRouted(device, h) ==
  LET p == Received(device, h, PacketLength)
  IN  /\ nf = "router" /\ ~ IsManagement(device)
      /\ IF RouterChoices(routes, h) = {} THEN Drops(p)
         ELSE \E dst \in RouterChoices(routes, h) :
                IF dst \in Devices
                THEN Handled(net_transmit(p, dst, UPDATE_ETHER_ADDRS), {dst}, UPDATE_ETHER_ADDRS)
                ELSE Undefined
      /\ UNCHANGED routes

\* All the DHCP server's answers are commented out.
HandleDhcp(device) ==
  /\ nf = "dhcp"
  /\ Drops(Received(device, AnyHeader, PacketLength))
  /\ UNCHANGED routes

HandleFlood(device, disabled) ==
  LET p == Received(device, AnyHeader, PacketLength)
  IN  /\ nf = "bridge"
      /\ \/ Handled(net_flood(p, UPDATE_ETHER_ADDRS), Devices \ {device}, UPDATE_ETHER_ADDRS)
         \/ Handled(net_flood_except(p, disabled, NONE),
                    Devices \ (disabled \cup {device}), NONE)
      /\ UNCHANGED routes

HandleForwarded(device, dst) ==
  /\ nf = "bridge" /\ dst # device
  /\ Handled(net_transmit(Received(device, AnyHeader, PacketLength), dst, NONE), {dst}, NONE)
  /\ UNCHANGED routes

Next ==
  \/ OsFails \/ OsInit \/ NfInit \/ AllocateDevices \/ Setup
  \/ \E device \in Devices :
       \/ HandleNop(device)
       \/ \E key \in Keys, width \in 0 .. KeyBits + 1, value \in 0 .. UINT16_MAX :
            HandleCommand(device, RouteCommand(key, width, value))
       \/ \E h \in Headers : HandleRouted(device, h)
       \/ HandleDhcp(device)
       \/ \E disabled \in SUBSET Devices : HandleFlood(device, disabled)
       \/ \E dst \in Devices : HandleForwarded(device, dst)

Spec == Init /\ [][Next]_vars

-----------------------------------------------------------------------------

\* The devices whose queues the packet is in: those of the tails that tn_run
\* moves for the outputs with a length.
Reached ==
  {transmit_tail_addrs[sent.packet.device][o][1] :
     o \in {k \in Outputs : sent.packet.lengths[k] > 0}}

\* A packet leaves through the devices that the network function asked for and
\* through no other; with UPDATE_ETHER_ADDRS, a packet for one device has the
\* addresses of that one.  Nothing is said of a packet for the device it came
\* from, although line 10 of tx.h does not leave it out, nor of the addresses of
\* the copies of a flood.
PacketsLeaveWhereAsked ==
  at = "run" /\ sent.packet.device \notin sent.asked =>
    /\ Reached = sent.asked
    /\ \A d \in sent.asked :
         sent.asked = {d} /\ sent.flags = UPDATE_ETHER_ADDRS =>
           /\ sent.packet.header.dst_addr = endpoint_mac(d)
           /\ sent.packet.header.src_addr = device_mac(d)

\* The router forwards the packets that RFC 1812 asks it to forward, to a
\* device that the longest of the matching routes names; it drops the others.
\* This is so except for a checksum, which is not checked, and for a total
\* length whose bytes in the wrong order change the outcome of the check of
\* line 52 of router.c.
RouterFollowsItsSpec ==
  at = "run" /\ nf = "router" /\ sent.packet.header \notin {AnyHeader} =>
    LET h     == sent.packet.header
        match == {r \in DOMAIN routes : Matches(r, h.dst)}
    IN  /\ ~ IsMisjudged(h) => (sent.asked # {} <=> IsValidPacket(h) /\ match # {})
        /\ \A d \in sent.asked :
             \E r \in match : routes[r] = d /\ \A s \in match : s.width <= r.width

\* The driver and the data sheet mean the same registers and fields.
CardUnderstandsTheDriver == at = "os_init" => AddressesAgree /\ FieldsAgree

\* A network function that starts has its configuration in the ranges that its
\* structures ask for, the first of two values of a name, and two devices if
\* it is the no-op function.
StartsOnlyWhenSound ==
  at = "os_init" =>
    \A candidate \in Candidates, c \in 1 .. 3 :
      LET f == candidate[1]
          v == Read(f, c, candidate[2])
      IN  Starts(f, c, candidate[2]) =>
            /\ RequestsAreLegal(f, c, v)
            /\ f = "nop" => v["wan device"] < c /\ v["lan device"] < c
                            /\ v["wan device"] # v["lan device"]
            /\ \A i \in 1 .. Len(candidate[2]) :
                 /\ candidate[2][i].name \in Names(f)
                 /\ \A k \in 1 .. i - 1 : candidate[2][k].name # candidate[2][i].name
                 => v[candidate[2][i].name] = candidate[2][i].value

\* A DHCP server that starts in a subnet with addresses besides the four that
\* line 145 of dhcp.c names has good addresses for all of its clients.  With
\* fewer than four in all, which nf_init takes too, line 146 wraps around.
DhcpPoolIsSound ==
  at = "os_init" =>
    \A candidate \in Candidates :
      LET v == Read("dhcp", DevicesCount, candidate[2])
      IN  /\ candidate[1] = "dhcp" /\ Starts("dhcp", DevicesCount, candidate[2])
          /\ num_ipv4_addr_avail(v) > 4
          => AddressesAreGood(v)

=============================================================================
