-------------------------- MODULE TinyNfMainProofs ---------------------------
(***************************************************************************)
(* Proofs about TinyNF's main, for any number of devices, any configuration*)
(* and any packets.                                                        *)
(***************************************************************************)
EXTENDS TinyNfMain, FiniteSetTheorems, WellFoundedInduction, TLAPS

\* A set of naturals that is not empty has a least element.
LEMMA LeastNatural ==
  ASSUME NEW T, T \subseteq Nat, T # {}
  PROVE  \E x \in T : \A y \in T : x <= y
<1> DEFINE R == {ss \in Nat \X Nat : ss[1] < ss[2]}
<1>1. IsWellFoundedOn(R, Nat)
  BY NatLessThanWellFounded DEF OpToRel
<1> HIDE DEF R
<1>2. PICK x \in T : \A y \in T : ~ (<<y, x>> \in R)
  BY <1>1, WFMin
<1>3. ASSUME NEW y \in T
      PROVE  x <= y
  <2>1. x \in Nat /\ y \in Nat
    OBVIOUS
  <2>2. y < x => <<y, x>> \in R
    BY <2>1 DEF R
  <2> QED
    BY <1>2, <2>1, <2>2
<1> QED
  BY <1>3

-----------------------------------------------------------------------------
(* The router.                                                             *)

\* The packet as the network function got it, in all that the router reads.
SameFields(g, h) ==
  /\ g.ether_type = h.ether_type /\ g.version = h.version /\ g.ihl = h.ihl
  /\ g.total_length = h.total_length /\ g.time_to_live = h.time_to_live
  /\ g.checksum = h.checksum /\ g.dst = h.dst

\* net_transmit rewrites addresses and nothing else.
LEMMA TransmitKeepsHeader ==
  ASSUME NEW device, NEW dst, NEW h \in HeaderType
  PROVE  SameFields(net_transmit(Received(device, h, PacketLength), dst,
                                 UPDATE_ETHER_ADDRS).header, h)
<1> DEFINE p == Received(device, h, PacketLength)
           q == handle_flags(p, dst, UPDATE_ETHER_ADDRS)
<1>1. net_transmit(p, dst, UPDATE_ETHER_ADDRS).header = q.header
  BY DEF net_transmit, handle_flags, Received
<1>2. q.header = [[h EXCEPT !.dst_addr = endpoint_mac(dst)] EXCEPT !.src_addr = device_mac(dst)]
  BY DEF handle_flags, Received
<1> HIDE DEF q, p
<1>3. SameFields(q.header, h)
  BY <1>2 DEF SameFields, HeaderType
<1> QED
  BY <1>1, <1>3 DEF p

\* Among routes there is one that no other is longer than.
LEMMA LongestRoute ==
  ASSUME NEW S, S # {}, \A r \in S : r.width \in 0 .. KeyBits
  PROVE  \E r \in S : \A s \in S : s.width <= r.width
<1> DEFINE Left == {KeyBits - r.width : r \in S}
<1>1. Left \subseteq Nat /\ Left # {}
  BY KeyBitsAssumption
<1> HIDE DEF Left
<1>2. PICK x \in Left : \A y \in Left : x <= y
  BY <1>1, LeastNatural
<1> USE DEF Left
<1>3. PICK r \in S : x = KeyBits - r.width
  OBVIOUS
<1>4. ASSUME NEW s \in S
      PROVE  s.width <= r.width
  <2>1. x <= KeyBits - s.width
    BY <1>2
  <2> QED
    BY <1>3, <2>1, KeyBitsAssumption
<1> QED
  BY <1>4

\* Routes are set from commands whose width was checked.
RoutesOK == \A r \in DOMAIN routes : r.width \in 0 .. KeyBits

\* What is asked for a packet with header h is what the router's
\* specification says.
FollowsSpec(h) ==
  LET match == {r \in DOMAIN routes : Matches(r, h.dst)}
  IN  /\ ~ IsMisjudged(h) => (sent.asked # {} <=> IsValidPacket(h) /\ match # {})
      /\ \A d \in sent.asked :
           \E r \in match : routes[r] = d /\ \A s \in match : s.width <= r.width

\* The inductive invariant of the router: other network functions do not
\* change the routes, and a command is not a packet to route.
RouterInv ==
  /\ RoutesOK
  /\ nf = "router" /\ sent.packet.header # AnyHeader => FollowsSpec(sent.packet.header)

\* The routes that the router chooses from are those its specification asks
\* for.
LEMMA ChoicesFollow ==
  ASSUME RoutesOK, NEW h \in HeaderType
  PROVE  LET match == {r \in DOMAIN routes : Matches(r, h.dst)}
         IN  /\ ~ IsMisjudged(h) =>
                  (RouterChoices(routes, h) # {} <=> IsValidPacket(h) /\ match # {})
             /\ \A d \in RouterChoices(routes, h) :
                  \E r \in match : routes[r] = d /\ \A s \in match : s.width <= r.width
<1> DEFINE match == {r \in DOMAIN routes : Matches(r, h.dst)}
<1>1. Longest(routes, h.dst) = {r \in match : \A s \in match : s.width <= r.width}
  BY DEF Longest
<1>2. Longest(routes, h.dst) # {} <=> match # {}
  <2>1. \A r \in match : r.width \in 0 .. KeyBits
    BY DEF RoutesOK
  <2> HIDE DEF match
  <2> QED
    BY <1>1, <2>1, LongestRoute
<1>3. lpm_search(routes, h.dst) = {routes[r] : r \in Longest(routes, h.dst)}
  BY DEF lpm_search
<1>4. ~ IsMisjudged(h) => (HeaderIsValid(h) <=> IsValidPacket(h))
  BY DEF IsMisjudged, HeaderIsValid, IsValidPacket, HeaderType
<1> HIDE DEF match
<1>5. RouterChoices(routes, h) # {} <=> HeaderIsValid(h) /\ match # {}
  BY <1>2, <1>3 DEF RouterChoices
<1>6. ASSUME NEW d \in RouterChoices(routes, h)
      PROVE  \E r \in match : routes[r] = d /\ \A s \in match : s.width <= r.width
  BY <1>1, <1>3, <1>6 DEF RouterChoices
<1> QED
  BY <1>4, <1>5, <1>6 DEF match

\* A packet of the router is dropped or sent where one of the longest routes
\* says.
LEMMA RoutedFollows ==
  ASSUME RouterInv, NEW device \in Devices, NEW h \in Headers, HandleRouted(device, h)
  PROVE  RouterInv'
<1> DEFINE p == Received(device, h, PacketLength)
           match == {r \in DOMAIN routes : Matches(r, h.dst)}
<1>1. h \in HeaderType
  BY HeadersAssumption
<1>2. routes' = routes /\ nf' = nf
  BY DEF HandleRouted, Handled, Drops, Undefined
<1>3. /\ ~ IsMisjudged(h) => (RouterChoices(routes, h) # {} <=> IsValidPacket(h) /\ match # {})
      /\ \A d \in RouterChoices(routes, h) :
           \E r \in match : routes[r] = d /\ \A s \in match : s.width <= r.width
  BY <1>1, ChoicesFollow DEF RouterInv
<1>4. CASE RouterChoices(routes, h) = {}
  <2>1. sent'.asked = {} /\ sent'.packet.header = h
    BY <1>4 DEF HandleRouted, Drops, Handled, Received
  <2>2. FollowsSpec(h)'
    BY <1>2, <1>3, <1>4, <2>1 DEF FollowsSpec
  <2> QED
    BY <1>2, <2>1, <2>2 DEF RouterInv, RoutesOK
<1>5. CASE RouterChoices(routes, h) # {} /\ ~ Undefined
  <2>1. PICK dst \in RouterChoices(routes, h) :
          Handled(net_transmit(p, dst, UPDATE_ETHER_ADDRS), {dst}, UPDATE_ETHER_ADDRS)
    BY <1>5 DEF HandleRouted
  <2>2. sent'.asked = {dst} /\ SameFields(sent'.packet.header, h)
    BY <2>1, <1>1, TransmitKeepsHeader DEF Handled
  <2>3. FollowsSpec(h)'
    BY <1>2, <1>3, <1>5, <2>2 DEF FollowsSpec
  <2>4. FollowsSpec(sent.packet.header)'
    BY <1>2, <2>2, <2>3 DEF FollowsSpec, SameFields, IsMisjudged, IsValidPacket
  <2> QED
    BY <1>2, <2>4 DEF RouterInv, RoutesOK
<1>6. CASE Undefined
  BY <1>2, <1>6 DEF Undefined, RouterInv, RoutesOK, FollowsSpec
<1> QED
  BY <1>4, <1>5, <1>6

\* A packet of the management device sets a route or does not, and is dropped.
LEMMA CommandFollows ==
  ASSUME RouterInv, NEW device \in Devices, NEW key \in Keys,
         NEW width \in 0 .. KeyBits + 1, NEW value,
         HandleCommand(device, RouteCommand(key, width, value))
  PROVE  RouterInv'
<1> DEFINE cmd == RouteCommand(key, width, value)
           capacity == Read("router", DevicesCount, items)["capacity"]
<1>1. /\ routes' = AfterCommand(routes, capacity, cmd) /\ nf' = nf
      /\ sent'.packet.header = AnyHeader
  BY DEF HandleCommand, Drops, Handled, Received
<1> HIDE DEF capacity
<1>2. \/ routes' = routes
      \/ width <= KeyBits /\ DOMAIN routes' = DOMAIN routes \cup {Pair(key, width)}
  <2>1. cmd.width = width /\ cmd.key = key /\ cmd.value = value
    BY DEF RouteCommand
  <2>2. width > KeyBits \/ width <= KeyBits
    BY KeyBitsAssumption
  <2> HIDE DEF cmd
  <2>3. CASE width > KeyBits
    BY <1>1, <2>1, <2>3 DEF AfterCommand
  <2>4. CASE ~ (width > KeyBits)
    <3>1. routes' = lpm_set(routes, capacity, key, width, value)
      BY <1>1, <2>1, <2>4 DEF AfterCommand
    <3> QED
      BY <2>2, <2>4, <3>1 DEF lpm_set
  <2> QED
    BY <2>3, <2>4
<1>3. RoutesOK'
  BY <1>2, KeyBitsAssumption DEF RouterInv, RoutesOK, Pair
<1> QED
  BY <1>1, <1>3 DEF RouterInv

\* The router does what its specification says, whatever is received and
\* whatever routes were set.
LEMMA RouterInvariant == Spec => []RouterInv
<1>1. Init => RouterInv
  BY DEF Init, RouterInv, RoutesOK, EmptyTable, Nothing, Received
<1>2. RouterInv /\ [Next]_vars => RouterInv'
  <2> SUFFICES ASSUME RouterInv, [Next]_vars
               PROVE  RouterInv'
    OBVIOUS
  <2>1. CASE UNCHANGED mainVars
    BY <2>1 DEF mainVars, RouterInv, RoutesOK, FollowsSpec
  <2>2. ASSUME NEW device \in Devices, NEW h \in Headers, HandleRouted(device, h)
        PROVE  RouterInv'
    BY <2>2, RoutedFollows
  <2>3. ASSUME NEW device \in Devices, NEW key \in Keys, NEW width \in 0 .. KeyBits + 1,
               NEW value, HandleCommand(device, RouteCommand(key, width, value))
        PROVE  RouterInv'
    BY <2>3, CommandFollows
  <2>4. ASSUME NEW device \in Devices,
               \/ HandleNop(device) \/ HandleDhcp(device)
               \/ \E disabled \in SUBSET Devices : HandleFlood(device, disabled)
               \/ \E dst \in Devices : HandleForwarded(device, dst)
        PROVE  RouterInv'
    <3>1. nf' = nf /\ routes' = routes /\ nf # "router"
      BY <2>4 DEF HandleNop, HandleDhcp, HandleFlood, HandleForwarded, Drops, Handled
    <3> QED
      BY <3>1 DEF RouterInv, RoutesOK
  <2> QED
    BY <2>1, <2>2, <2>3, <2>4
       DEF Next, OsFails, OsInit, NfInit, AllocateDevices, Setup, vars
<1> QED
  BY <1>1, <1>2, PTL DEF Spec

\* For every number of devices, table and packet: the router forwards what RFC
\* 1812 asks it to forward, to a device that the longest matching route names,
\* and drops the rest, up to the checks that it does not do as it should.
THEOREM RoutesByLongestPrefix == Spec => []RouterFollowsItsSpec
<1>1. RouterInv => RouterFollowsItsSpec
  BY DEF RouterInv, RouterFollowsItsSpec, FollowsSpec
<1> QED
  BY <1>1, RouterInvariant, PTL
-----------------------------------------------------------------------------
(* Where the driver is in its loops, and what it has wired so far.         *)

BeforeDevices == {"os_init", "nf_init", "allocate"}
DevicePlaces  == {"pci", "disable_receive", "await_receive_disabled", "master_disable",
                  "await_master", "check_pending", "flush", "reset", "await_eeprom",
                  "await_dma", "promiscuous"}
OutputPlaces  == {"output", "await_output"}
InputPlaces   == {"input", "await_input", "await_empty", "finish_input"}
AgentPlaces   == {"agent"} \cup OutputPlaces \cup InputPlaces
Stopped       == {"exit", "halt", "fatal", "undefined"}

\* The loop variables are in the range of the loop that uses them.
LoopsOK ==
  /\ at \in BeforeDevices \cup DevicePlaces \cup AgentPlaces \cup Stopped \cup {"run"}
  /\ n \in Devices /\ m \in 0 .. DevicesCount + ReceiveQueuesCount
  /\ at \in BeforeDevices => n = 0
  /\ at \in {"disable_receive", "await_receive_disabled"} => m < ReceiveQueuesCount
  /\ at \in OutputPlaces => m < DevicesCount
  /\ at = "await_output" => m # n
  /\ at \in OutputPlaces \cup InputPlaces \cup {"run"} => DevicesCount >= 2

\* tn_agent_add_output was called for agent a and device d, and returned.
IsOutput(a, d) ==
  \/ at = "run"
  \/ at \in AgentPlaces /\ a < n
  \/ at \in OutputPlaces /\ a = n /\ d < m
  \/ at \in InputPlaces /\ a = n

\* tn_agent_set_input was called for agent a, and returned.
HasInput(a) == at = "run" \/ (at \in AgentPlaces /\ a < n)

\* The tails of the outputs and inputs there are, and no others, are set.
TailsOK ==
  /\ DOMAIN transmit_tail_addrs = Devices /\ DOMAIN receive_tail_addr = Devices
  /\ \A a \in Devices : DOMAIN transmit_tail_addrs[a] = Outputs
  /\ at \notin Stopped =>
       \A a \in Devices :
         /\ receive_tail_addr[a] = IF HasInput(a) THEN <<a, 0>> ELSE Null
         /\ \A d \in Devices : a # d =>
              transmit_tail_addrs[a][TrueIndex(a, d)]
                = IF IsOutput(a, d) THEN <<d, QueueIndex(a, d)>> ELSE Null

\* The configuration is that of a network function, which started.
StartOK ==
  /\ nf \in NetworkFunctions
  /\ items \in Seq(ItemType)
  /\ at \in {"allocate", "run"} \cup DevicePlaces \cup AgentPlaces =>
       Starts(nf, DevicesCount, items)

WiringInv == LoopsOK /\ TailsOK /\ StartOK

\* The lengths that the transmit functions write are those of the outputs to
\* the devices that were asked for, and the addresses are those of the one
\* device that was asked for, unless that is the one the packet came from.
SentWell(s) ==
  LET own == s.packet.device
  IN  /\ own \in Devices
      /\ own \notin s.asked =>
           /\ {device_from_index(s.packet, o) : o \in {k \in Outputs : s.packet.lengths[k] > 0}}
                = s.asked
           /\ \A d \in s.asked :
                s.asked = {d} /\ s.flags = UPDATE_ETHER_ADDRS =>
                  /\ s.packet.header.dst_addr = endpoint_mac(d)
                  /\ s.packet.header.src_addr = device_mac(d)

-----------------------------------------------------------------------------
(* The wiring is right.                                                    *)

\* The loops of main over the devices end after the last one.
LEMMA NextDevice ==
  ASSUME NEW k \in Devices
  PROVE  /\ k + 1 = DevicesCount => (k + 1) % DevicesCount = 0
         /\ k + 1 # DevicesCount => (k + 1) % DevicesCount = k + 1 /\ k + 1 \in Devices
BY DevicesAssumption DEF Devices

\* And that over the receive queues after the last queue.
LEMMA NextQueue ==
  ASSUME NEW k \in 0 .. ReceiveQueuesCount - 1
  PROVE  /\ (k + 1) % ReceiveQueuesCount \in 0 .. ReceiveQueuesCount - 1
         /\ k + 1 = ReceiveQueuesCount => (k + 1) % ReceiveQueuesCount = 0
BY QueuesAssumption

\* The outputs of an agent are the devices that are not its input, each of
\* them once.
LEMMA TrueIndexFacts ==
  ASSUME NEW a \in Devices, NEW d \in Devices, a # d
  PROVE  /\ TrueIndex(a, d) \in Outputs
         /\ DevicesCount >= 2
         /\ \A e \in Devices : a # e => (TrueIndex(a, e) = TrueIndex(a, d) <=> e = d)
BY DevicesAssumption DEF TrueIndex, Devices, Outputs, OutputsCount

\* A step is one of main's, one of the driver's, or one for a packet.
LEMMA NextSteps ==
  ASSUME [Next]_vars
  PROVE  \/ OsFails \/ OsInit \/ NfInit \/ AllocateDevices \/ SetupNext
         \/ \E p, asked, fl : Handled(p, asked, fl)
         \/ Undefined \/ UNCHANGED vars
BY DEF Next, Setup, HandleNop, HandleCommand, HandleRouted, HandleDhcp, HandleFlood,
       HandleForwarded, Drops

\* One step of the devices' setup stays in the loops.
LEMMA LoopsNext ==
  ASSUME LoopsOK, [Next]_vars
  PROVE  LoopsOK'
<1>0. DevicesCount \in Nat /\ DevicesCount > 0 /\ ReceiveQueuesCount \in Nat /\ ReceiveQueuesCount > 0
  BY DevicesAssumption, QueuesAssumption
<1> USE DEF LoopsOK, BeforeDevices, DevicePlaces, OutputPlaces, InputPlaces, AgentPlaces, Stopped
<1>1. CASE UNCHANGED setupVars
  BY <1>1 DEF setupVars
<1>2. CASE OsFails
  BY <1>2 DEF OsFails, Fatal
<1>3. CASE OsInit \/ NfInit \/ AllocateDevices
  <2>1. n' = n /\ m' = m /\ n = 0 /\ at' \in {"nf_init", "allocate", "pci", "halt", "exit"}
    BY <1>3 DEF OsInit, NfInit, AllocateDevices, Allocated
  <2> QED
    BY <2>1
<1>4. CASE SetupNext
  <2>1. CASE PciSetup
    BY <1>0, <2>1 DEF PciSetup
  <2>2. CASE WrongDevice \/ WrongEeprom \/ GivesUp
    BY <2>2 DEF WrongDevice, WrongEeprom, GivesUp, TimesOut, Fatal
  <2>3. CASE DisableReceive
    BY <2>3 DEF DisableReceive, Do
  <2>4. CASE ReceiveDisabled
    <3>1. m \in 0 .. ReceiveQueuesCount - 1
      BY <1>0, <2>4 DEF ReceiveDisabled
    <3>2. m' \in 0 .. ReceiveQueuesCount - 1 /\ n' = n /\ at' \in {"master_disable", "disable_receive"}
      BY <2>4, <3>1, NextQueue DEF ReceiveDisabled, Goto
    <3> QED
      BY <1>0, <3>2
  <2>5. CASE MasterDisable \/ MasterDisabled \/ MasterTimesOut \/ NothingPending \/ Flush
             \/ Reset \/ EepromRead \/ Configure
    <3>1. /\ n' = n /\ m' = m
          /\ at' \in {"await_master", "check_pending", "flush", "reset", "await_eeprom",
                     "await_dma", "promiscuous"}
      <4>1. CASE MasterDisable \/ MasterDisabled \/ MasterTimesOut \/ NothingPending
        BY <4>1 DEF MasterDisable, MasterDisabled, MasterTimesOut, NothingPending, Do, Goto
      <4>2. CASE Flush
        BY <4>2 DEF Flush, Do
      <4>3. CASE Reset
        BY <4>3 DEF Reset, Do
      <4>4. CASE EepromRead \/ Configure
        BY <4>4 DEF EepromRead, Configure, Do, Goto
      <4> QED
        BY <2>5, <4>1, <4>2, <4>3, <4>4
    <3> QED
      BY <2>5, <3>1
  <2>6. CASE SetPromiscuous
    <3>1. n' \in Devices /\ m' = 0 /\ at' \in {"pci", "agent", "halt"}
      <4>1. (n + 1) % DevicesCount \in Devices
        BY <1>0, NextDevice DEF Devices
      <4> QED
        BY <2>6, <4>1 DEF SetPromiscuous, Allocated
    <3> QED
      BY <1>0, <3>1
  <2>7. CASE Agent
    <3>1. n' = n /\ m' \in {0, m} /\ at' \in {"fatal", "halt", "output"}
          /\ (at' = "output" => OutputsCount # 0 /\ m' = 0)
      BY <2>7 DEF Agent, Fatal, Allocated
    <3> QED
      BY <1>0, <3>1 DEF OutputsCount
  <2>8. CASE SkipInput \/ OutputEnabled
    <3>1. n' = n /\ m' = m + 1 /\ m < DevicesCount /\ DevicesCount >= 2
          /\ at' = IF m' = DevicesCount THEN "input" ELSE "output"
      BY <2>8 DEF SkipInput, OutputEnabled, Goto
    <3> QED
      BY <1>0, <3>1
  <2>9. CASE AddOutput
    <3>1. n' = n /\ m' = m /\ m # n /\ m < DevicesCount /\ DevicesCount >= 2
          /\ at' \in {"fatal", "halt", "await_output"}
      BY <2>9 DEF AddOutput, Fatal, Allocated, Do
    <3> QED
      BY <3>1
  <2>10. CASE SetInput \/ InputEnabled \/ DataPathEmpty
    <3>1. n' = n /\ m' = m /\ at' \in InputPlaces \cup {"fatal"} /\ DevicesCount >= 2
      BY <2>10 DEF SetInput, InputEnabled, DataPathEmpty, Fatal, Do
    <3> QED
      BY <3>1
  <2>11. CASE FinishInput
    <3>1. n' \in Devices /\ m' = 0 /\ at' \in {"run", "agent"} /\ DevicesCount >= 2
      <4>1. (n + 1) % DevicesCount \in Devices
        BY <1>0, NextDevice DEF Devices
      <4> QED
        BY <2>11, <4>1 DEF FinishInput, Do
    <3> QED
      BY <1>0, <3>1
  <2>12. ASSUME NEW d \in Devices, HardwareCompletes(d)
         PROVE  LoopsOK'
    BY <2>12 DEF HardwareCompletes
  <2> QED
    BY <1>4, <2>1, <2>2, <2>3, <2>4, <2>5, <2>6, <2>7, <2>8, <2>9, <2>10, <2>11, <2>12
       DEF SetupNext
<1>5. ASSUME NEW p, NEW asked, NEW fl, Handled(p, asked, fl)
      PROVE  LoopsOK'
  BY <1>5 DEF Handled, setupVars
<1>6. CASE Undefined
  BY <1>6 DEF Undefined
<1> QED
  BY <1>1, <1>2, <1>3, <1>4, <1>5, <1>6, NextSteps DEF vars

\* The tails that a step leaves alone are right while no output and no input
\* is added by it.
LEMMA SameTails ==
  ASSUME TailsOK, UNCHANGED <<transmit_tail_addrs, receive_tail_addr>>,
         at' \notin Stopped =>
           /\ at \notin Stopped
           /\ \A a \in Devices : HasInput(a)' = HasInput(a)
           /\ \A a, d \in Devices : a # d => IsOutput(a, d)' = IsOutput(a, d)
  PROVE  TailsOK'
<1>1. CASE at' \in Stopped
  BY <1>1 DEF TailsOK
<1>2. CASE at' \notin Stopped
  <2>1. at \notin Stopped
    BY <1>2
  <2>2. ASSUME NEW a \in Devices
        PROVE  receive_tail_addr'[a] = IF HasInput(a)' THEN <<a, 0>> ELSE Null
    <3>1. HasInput(a)' = HasInput(a) /\ receive_tail_addr' = receive_tail_addr
      BY <1>2
    <3> HIDE DEF HasInput
    <3> QED
      BY <2>1, <3>1 DEF TailsOK
  <2>3. ASSUME NEW a \in Devices, NEW d \in Devices, a # d
        PROVE  transmit_tail_addrs'[a][TrueIndex(a, d)]
                 = IF IsOutput(a, d)' THEN <<d, QueueIndex(a, d)>> ELSE Null
    <3>1. IsOutput(a, d)' = IsOutput(a, d) /\ transmit_tail_addrs' = transmit_tail_addrs
      BY <1>2, <2>3
    <3>2. transmit_tail_addrs[a][TrueIndex(a, d)]
            = IF IsOutput(a, d) THEN <<d, QueueIndex(a, d)>> ELSE Null
      BY <2>1, <2>3 DEF TailsOK
    <3> QED
      BY <3>1, <3>2
  <2>4. /\ DOMAIN transmit_tail_addrs' = Devices /\ DOMAIN receive_tail_addr' = Devices
        /\ \A a \in Devices : DOMAIN transmit_tail_addrs'[a] = Outputs
    BY DEF TailsOK
  <2> QED
    BY <2>2, <2>3, <2>4 DEF TailsOK
<1> QED
  BY <1>1, <1>2

\* tn_agent_add_output is done: its output has a tail.
LEMMA OutputEnabledTails ==
  ASSUME LoopsOK, TailsOK, OutputEnabled
  PROVE  TailsOK'
<1>0. /\ n \in Devices /\ m \in Devices /\ n # m /\ n' = n /\ m' = m + 1
      /\ at = "await_output"
      /\ at' = IF m' = DevicesCount THEN "input" ELSE "output"
      /\ receive_tail_addr' = receive_tail_addr
      /\ transmit_tail_addrs' =
           [transmit_tail_addrs EXCEPT ![n][TrueIndex(n, m)] = <<m, QueueIndex(n, m)>>]
  BY DevicesAssumption DEF OutputEnabled, LoopsOK, Goto, Devices, OutputPlaces
<1>1. DevicesCount \in Nat /\ n \in Int /\ m \in Int /\ m < DevicesCount
  BY <1>0, DevicesAssumption DEF Devices
<1>2. /\ DOMAIN transmit_tail_addrs' = Devices /\ DOMAIN receive_tail_addr' = Devices
      /\ \A a \in Devices : DOMAIN transmit_tail_addrs'[a] = Outputs
  BY <1>0 DEF TailsOK
<1>3. ASSUME NEW a \in Devices
      PROVE  receive_tail_addr'[a] = IF HasInput(a)' THEN <<a, 0>> ELSE Null
  <2>1. HasInput(a)' = HasInput(a)
    BY <1>0 DEF HasInput, AgentPlaces, OutputPlaces, InputPlaces
  <2>2. receive_tail_addr[a] = IF HasInput(a) THEN <<a, 0>> ELSE Null
    BY <1>0 DEF TailsOK, Stopped
  <2> QED
    BY <1>0, <2>1, <2>2
<1>4. ASSUME NEW a \in Devices, NEW d \in Devices, a # d
      PROVE  transmit_tail_addrs'[a][TrueIndex(a, d)]
               = IF IsOutput(a, d)' THEN <<d, QueueIndex(a, d)>> ELSE Null
  <2>1. transmit_tail_addrs[a][TrueIndex(a, d)]
          = IF IsOutput(a, d) THEN <<d, QueueIndex(a, d)>> ELSE Null
    BY <1>0, <1>4 DEF TailsOK, Stopped
  <2>2. TrueIndex(a, d) \in Outputs /\ TrueIndex(n, m) \in Outputs
    BY <1>0, <1>4, TrueIndexFacts
  <2>3. CASE a = n /\ d = m
    <3>1. IsOutput(a, d)'
      BY <1>0, <1>1, <2>3 DEF IsOutput, OutputPlaces, InputPlaces, AgentPlaces
    <3>2. transmit_tail_addrs'[a][TrueIndex(a, d)] = <<d, QueueIndex(a, d)>>
      BY <1>0, <2>2, <2>3 DEF TailsOK
    <3> QED
      BY <3>1, <3>2
  <2>4. CASE ~ (a = n /\ d = m)
    <3>1. IsOutput(a, d)' = IsOutput(a, d)
      <4>1. d \in Int /\ a \in Int /\ d < DevicesCount
        BY DevicesAssumption DEF Devices
      <4> QED
        BY <1>0, <1>1, <2>4, <4>1, <1>4 DEF IsOutput, OutputPlaces, InputPlaces, AgentPlaces
    <3>2. a = n => TrueIndex(a, d) # TrueIndex(n, m)
      BY <1>0, <1>4, <2>4, TrueIndexFacts
    <3>3. transmit_tail_addrs'[a][TrueIndex(a, d)] = transmit_tail_addrs[a][TrueIndex(a, d)]
      BY <1>0, <2>2, <3>2 DEF TailsOK
    <3> QED
      BY <2>1, <3>1, <3>3
  <2> QED
    BY <2>3, <2>4
<1> QED
  BY <1>2, <1>3, <1>4 DEF TailsOK

\* tn_agent_set_input is done: the input has a tail, and main goes to the next
\* agent or runs.
LEMMA FinishInputTails ==
  ASSUME LoopsOK, TailsOK, FinishInput
  PROVE  TailsOK'
<1>0. /\ n \in Devices /\ n' = (n + 1) % DevicesCount /\ m' = 0
      /\ at = "finish_input"
      /\ at' = IF n' = 0 THEN "run" ELSE "agent"
      /\ transmit_tail_addrs' = transmit_tail_addrs
      /\ receive_tail_addr' = [receive_tail_addr EXCEPT ![n] = <<n, 0>>]
  BY DEF FinishInput, LoopsOK, Do
<1>1. DevicesCount \in Nat /\ n \in 0 .. DevicesCount - 1
  BY <1>0, DevicesAssumption DEF Devices
<1>2. /\ DOMAIN transmit_tail_addrs' = Devices /\ DOMAIN receive_tail_addr' = Devices
      /\ \A a \in Devices : DOMAIN transmit_tail_addrs'[a] = Outputs
  BY <1>0 DEF TailsOK
<1>3. \/ n + 1 = DevicesCount /\ at' = "run"
      \/ n + 1 # DevicesCount /\ n' = n + 1 /\ at' = "agent"
  <2>1. n + 1 = DevicesCount => n' = 0
    BY <1>0, NextDevice
  <2>2. n + 1 # DevicesCount => n' = n + 1
    BY <1>0, NextDevice
  <2>3. n + 1 # 0
    BY <1>1
  <2> QED
    BY <1>0, <2>1, <2>2, <2>3
<1>4. ASSUME NEW a \in Devices
      PROVE  /\ HasInput(a)' <=> HasInput(a) \/ a = n
             /\ ~ (HasInput(a) /\ a = n)
  <2>1. a \in 0 .. DevicesCount - 1
    BY DEF Devices
  <2> QED
    BY <1>0, <1>1, <1>3, <2>1 DEF HasInput, AgentPlaces, OutputPlaces, InputPlaces
<1>5. ASSUME NEW a \in Devices
      PROVE  receive_tail_addr'[a] = IF HasInput(a)' THEN <<a, 0>> ELSE Null
  <2>1. receive_tail_addr[a] = IF HasInput(a) THEN <<a, 0>> ELSE Null
    BY <1>0 DEF TailsOK, Stopped
  <2>2. receive_tail_addr'[a] = IF a = n THEN <<a, 0>> ELSE receive_tail_addr[a]
    BY <1>0 DEF TailsOK
  <2> QED
    BY <1>4, <2>1, <2>2
<1>6. ASSUME NEW a \in Devices, NEW d \in Devices, a # d
      PROVE  IsOutput(a, d)' <=> IsOutput(a, d)
  <2>1. a \in 0 .. DevicesCount - 1
    BY DEF Devices
  <2> QED
    BY <1>0, <1>1, <1>3, <2>1 DEF IsOutput, AgentPlaces, OutputPlaces, InputPlaces
<1>7. ASSUME NEW a \in Devices, NEW d \in Devices, a # d
      PROVE  transmit_tail_addrs'[a][TrueIndex(a, d)]
               = IF IsOutput(a, d)' THEN <<d, QueueIndex(a, d)>> ELSE Null
  <2>1. transmit_tail_addrs[a][TrueIndex(a, d)]
          = IF IsOutput(a, d) THEN <<d, QueueIndex(a, d)>> ELSE Null
    BY <1>0, <1>7 DEF TailsOK, Stopped
  <2> QED
    BY <1>0, <1>6, <1>7, <2>1
<1> QED
  BY <1>2, <1>5, <1>7 DEF TailsOK

\* One step keeps the tails right.
LEMMA TailsNext ==
  ASSUME LoopsOK, LoopsOK', TailsOK, [Next]_vars
  PROVE  TailsOK'
<1>0. DevicesCount \in Nat /\ DevicesCount > 0 /\ Devices = 0 .. DevicesCount - 1 /\ n \in Devices
  BY DevicesAssumption DEF LoopsOK, Devices
<1> DEFINE tails == <<transmit_tail_addrs, receive_tail_addr>>
           Quiet == BeforeDevices \cup DevicePlaces
\* A step to or from a place without agents.
<1>1. ASSUME UNCHANGED tails, at' \in Stopped
      PROVE  TailsOK'
  BY <1>1, SameTails
<1>2. ASSUME UNCHANGED tails, at \in Quiet, at' \in Quiet \cup {"agent"}, at' = "agent" => n' = 0
      PROVE  TailsOK'
  <2>1. at \notin Stopped
    BY <1>2 DEF Stopped, BeforeDevices, DevicePlaces
  <2>2. ASSUME NEW a \in Devices
        PROVE  HasInput(a)' = HasInput(a) /\ \A d \in Devices : IsOutput(a, d)' = IsOutput(a, d)
    BY <1>0, <1>2 DEF HasInput, IsOutput, AgentPlaces, OutputPlaces, InputPlaces,
                      BeforeDevices, DevicePlaces
  <2> QED
    BY <1>2, <2>1, <2>2, SameTails
\* A step from a place of an agent to another.
<1>3. ASSUME UNCHANGED <<tails, n>>, at \in AgentPlaces, at' \in AgentPlaces,
             \A d \in Devices : d # n => IsOutput(n, d)' = IsOutput(n, d)
      PROVE  TailsOK'
  <2>1. at \notin Stopped
    BY <1>3 DEF Stopped, AgentPlaces, OutputPlaces, InputPlaces
  <2>2. ASSUME NEW a \in Devices
        PROVE  HasInput(a)' = HasInput(a)
    BY <1>3 DEF HasInput, AgentPlaces, OutputPlaces, InputPlaces
  <2>3. ASSUME NEW a \in Devices, NEW d \in Devices, a # d
        PROVE  IsOutput(a, d)' = IsOutput(a, d)
    <3>1. CASE a = n
      BY <1>3, <2>3, <3>1
    <3>2. CASE a # n
      BY <1>3, <3>2 DEF IsOutput, AgentPlaces, OutputPlaces, InputPlaces
    <3> QED
      BY <3>1, <3>2
  <2> QED
    BY <1>3, <2>1, <2>2, <2>3, SameTails
\* Steps that move neither.
<1>4. ASSUME UNCHANGED <<tails, at, n, m>>
      PROVE  TailsOK'
  <2>1. \A a \in Devices : HasInput(a)' = HasInput(a)
    BY <1>4 DEF HasInput
  <2>2. \A a, d \in Devices : a # d => IsOutput(a, d)' = IsOutput(a, d)
    BY <1>4 DEF IsOutput
  <2> QED
    BY <1>4, <2>1, <2>2, SameTails
<1>5. CASE UNCHANGED setupVars
  BY <1>4, <1>5 DEF setupVars, agents
<1>6. CASE OsFails \/ WrongDevice \/ WrongEeprom \/ GivesUp
  BY <1>1, <1>6 DEF OsFails, WrongDevice, WrongEeprom, GivesUp, TimesOut, Fatal, agents, Stopped
<1>7. CASE OsInit \/ NfInit \/ AllocateDevices
  <2>1. UNCHANGED tails /\ at \in Quiet /\ at' \in Quiet \cup Stopped /\ at' # "agent"
    BY <1>7 DEF OsInit, NfInit, AllocateDevices, Allocated, agents, BeforeDevices, DevicePlaces,
                Stopped
  <2> QED
    BY <1>1, <1>2, <2>1
<1>8. CASE PciSetup \/ DisableReceive \/ ReceiveDisabled \/ MasterDisable \/ MasterDisabled
           \/ MasterTimesOut \/ NothingPending \/ Flush \/ Reset \/ EepromRead \/ Configure
  <2>1. UNCHANGED tails /\ at \in Quiet /\ at' \in DevicePlaces
    <3>1. CASE PciSetup \/ DisableReceive \/ ReceiveDisabled
      BY <3>1 DEF PciSetup, DisableReceive, ReceiveDisabled, Do, Goto, agents, DevicePlaces
    <3>2. CASE MasterDisable \/ MasterDisabled \/ MasterTimesOut \/ NothingPending
      BY <3>2 DEF MasterDisable, MasterDisabled, MasterTimesOut, NothingPending, Do, Goto,
                  agents, DevicePlaces
    <3>3. CASE Flush \/ Reset
      BY <3>3 DEF Flush, Reset, Do, agents, DevicePlaces
    <3>4. CASE EepromRead \/ Configure
      BY <3>4 DEF EepromRead, Configure, Do, Goto, agents, DevicePlaces
    <3> QED
      BY <1>8, <3>1, <3>2, <3>3, <3>4
  <2>2. at' # "agent"
    BY <2>1 DEF DevicePlaces
  <2> QED
    BY <1>2, <2>1, <2>2
<1>9. CASE SetPromiscuous
  <2>1. UNCHANGED tails /\ at \in Quiet /\ at' \in {"pci", "agent", "halt"}
        /\ (at' = "agent" => n' = 0)
    BY <1>9 DEF SetPromiscuous, Allocated, agents, DevicePlaces
  <2>2. at' \in Stopped \/ at' \in Quiet \cup {"agent"}
    BY <2>1 DEF Stopped, DevicePlaces
  <2> QED
    BY <1>1, <1>2, <2>1, <2>2
<1>10. CASE Agent
  <2>1. UNCHANGED tails /\ n' = n /\ at = "agent"
        /\ (at' \in Stopped \/ (at' = "output" /\ m' = 0))
    BY <1>10 DEF Agent, Allocated, Fatal, agents, Stopped
  <2>2. ASSUME NEW d \in Devices, at' = "output"
        PROVE  IsOutput(n, d)' = IsOutput(n, d)
    <3>1. n' = n /\ ~ (n < n) /\ ~ (d < m')
      BY <1>0, <2>1, <2>2 DEF Stopped
    <3> QED
      BY <2>1, <2>2, <3>1 DEF IsOutput, OutputPlaces, InputPlaces, AgentPlaces
  <2> QED
    BY <1>1, <1>3, <2>1, <2>2 DEF AgentPlaces, OutputPlaces
<1>11. CASE SkipInput
  <2>1. UNCHANGED tails /\ n' = n /\ at = "output" /\ m = n /\ m' = m + 1
        /\ at' = IF m' = DevicesCount THEN "input" ELSE "output"
    BY <1>11 DEF SkipInput, Goto, agents
  <2>2. ASSUME NEW d \in Devices, d # n
        PROVE  IsOutput(n, d)' = IsOutput(n, d)
    BY <1>0, <2>1, <2>2 DEF IsOutput, OutputPlaces, InputPlaces, AgentPlaces
  <2> QED
    BY <1>3, <2>1, <2>2 DEF AgentPlaces, OutputPlaces, InputPlaces
<1>12. CASE AddOutput
  <2>1. UNCHANGED tails /\ n' = n /\ m' = m /\ at = "output" /\ at' \in Stopped \cup {"await_output"}
    BY <1>12 DEF AddOutput, Fatal, Allocated, Do, agents, Stopped
  <2>2. ASSUME NEW d \in Devices, at' = "await_output"
        PROVE  IsOutput(n, d)' = IsOutput(n, d)
    BY <2>1, <2>2 DEF IsOutput, OutputPlaces, InputPlaces, AgentPlaces
  <2> QED
    BY <1>1, <1>3, <2>1, <2>2 DEF AgentPlaces, OutputPlaces
<1>13. CASE SetInput \/ InputEnabled \/ DataPathEmpty
  <2>1. UNCHANGED tails /\ n' = n /\ at \in InputPlaces /\ at' \in Stopped \cup InputPlaces
    BY <1>13 DEF SetInput, InputEnabled, DataPathEmpty, Fatal, Do, agents, Stopped, InputPlaces
  <2>2. ASSUME NEW d \in Devices, at' \in InputPlaces
        PROVE  IsOutput(n, d)' = IsOutput(n, d)
    BY <2>1, <2>2 DEF IsOutput, OutputPlaces, InputPlaces, AgentPlaces
  <2> QED
    BY <1>1, <1>3, <2>1, <2>2 DEF AgentPlaces
<1>14. ASSUME NEW d \in Devices, HardwareCompletes(d)
       PROVE  TailsOK'
  BY <1>4, <1>14 DEF HardwareCompletes, agents
<1>15. ASSUME NEW p, NEW asked, NEW fl, Handled(p, asked, fl)
       PROVE  TailsOK'
  BY <1>5, <1>15 DEF Handled
<1>16. CASE SetupNext
  BY <1>6, <1>8, <1>9, <1>10, <1>11, <1>12, <1>13, <1>14, <1>16, OutputEnabledTails,
     FinishInputTails DEF SetupNext
<1>17. CASE Undefined
  BY <1>1, <1>17 DEF Undefined, agents, Stopped
<1> QED
  BY <1>5, <1>6, <1>7, <1>15, <1>16, <1>17, NextSteps DEF vars

\* What was started is what is compiled into the program.
LEMMA StartNext ==
  ASSUME LoopsOK, LoopsOK', StartOK, [Next]_vars
  PROVE  StartOK'
<1> DEFINE Started == {"allocate", "run"} \cup DevicePlaces \cup AgentPlaces
<1>1. nf' = nf /\ items' = items
  BY DEF Next, OsFails, OsInit, NfInit, AllocateDevices, Setup, mainVars, vars, HandleNop,
         HandleCommand, HandleRouted, HandleDhcp, HandleFlood, HandleForwarded, Drops, Handled,
         Undefined
<1>2. at' \in Started => at \in Started \/ Starts(nf, DevicesCount, items)
  <2>1. at \in BeforeDevices \cup Stopped \/ at \in Started
    BY DEF LoopsOK
  <2>2. CASE UNCHANGED setupVars
    BY <2>2 DEF setupVars
  <2>3. CASE OsFails \/ OsInit
    BY <2>3 DEF OsFails, OsInit, Fatal, Allocated, DevicePlaces, AgentPlaces, OutputPlaces, InputPlaces
  <2>4. CASE NfInit
    BY <2>4 DEF NfInit, Allocated, DevicePlaces, AgentPlaces, OutputPlaces, InputPlaces
  <2>5. CASE AllocateDevices
    BY <2>5 DEF AllocateDevices, Allocated
  <2>6. CASE SetupNext
    <3>1. at \in DevicePlaces \cup AgentPlaces \/ UNCHANGED at
      BY <2>6 DEF SetupNext, PciSetup, WrongDevice, DisableReceive, ReceiveDisabled, MasterDisable,
         MasterDisabled, MasterTimesOut, NothingPending, Flush, Reset, EepromRead, WrongEeprom,
         Configure, SetPromiscuous, Agent, SkipInput, AddOutput, OutputEnabled, SetInput,
         InputEnabled, DataPathEmpty, FinishInput, GivesUp, TimesOut, HardwareCompletes,
         DevicePlaces, AgentPlaces, OutputPlaces, InputPlaces
    <3> QED
      BY <3>1
  <2>7. ASSUME NEW p, NEW asked, NEW fl, Handled(p, asked, fl)
        PROVE  at' = at
    BY <2>7 DEF Handled, setupVars
  <2>8. CASE Undefined
    BY <2>8 DEF Undefined
  <2> QED
    BY <2>2, <2>3, <2>4, <2>5, <2>6, <2>7, <2>8, NextSteps DEF vars
<1> QED
  BY <1>1, <1>2 DEF StartOK

\* Once main runs, all that the transmit functions and tn_run use is wired,
\* and the network function has started.
LEMMA WiringInvariant == Spec => []WiringInv
<1>1. Init => WiringInv
  <2> SUFFICES ASSUME Init
               PROVE  WiringInv
    OBVIOUS
  <2>1. LoopsOK
    BY DevicesAssumption, QueuesAssumption
       DEF Init, InitDevices, LoopsOK, Devices, BeforeDevices, DevicePlaces, OutputPlaces,
           InputPlaces, AgentPlaces, Stopped
  <2>2. /\ at = "os_init"
        /\ transmit_tail_addrs = [a \in Devices |-> [o \in Outputs |-> Null]]
        /\ receive_tail_addr = [a \in Devices |-> Null]
    BY DEF Init, InitDevices
  <2>3. ASSUME NEW a \in Devices
        PROVE  ~ HasInput(a) /\ \A d \in Devices : ~ IsOutput(a, d)
    BY <2>2 DEF HasInput, IsOutput, AgentPlaces, OutputPlaces, InputPlaces
  <2>4. TailsOK
    BY <2>2, <2>3, TrueIndexFacts DEF TailsOK
  <2>5. StartOK
    BY ConfigsAssumption
       DEF Init, StartOK, DevicePlaces, AgentPlaces, OutputPlaces, InputPlaces
  <2> QED
    BY <2>1, <2>4, <2>5 DEF WiringInv
<1>2. WiringInv /\ [Next]_vars => WiringInv'
  BY LoopsNext, TailsNext, StartNext DEF WiringInv
<1> QED
  BY <1>1, <1>2, PTL DEF Spec

-----------------------------------------------------------------------------
(* What the transmit functions write.                                      *)

\* A packet that was just received has no length at any output.
LEMMA ReceivedFacts ==
  ASSUME NEW own, NEW h
  PROVE  LET p == Received(own, h, PacketLength)
         IN  /\ p.device = own /\ p.header = h /\ p.length = 60
             /\ p.lengths = [o \in Outputs |-> 0]
BY DEF Received, PacketLength

\* An index and the device it stands for, which is not the packet's.
LEMMA DeviceOfIndex ==
  ASSUME NEW p, p.device \in Devices
  PROVE  /\ \A o \in Outputs : /\ device_from_index(p, o) \in Devices \ {p.device}
                               /\ index_from_device(p, device_from_index(p, o)) = o
         /\ \A d \in Devices \ {p.device} : /\ index_from_device(p, d) \in Outputs
                                            /\ device_from_index(p, index_from_device(p, d)) = d
BY DevicesAssumption
   DEF device_from_index, index_from_device, Devices, Outputs, OutputsCount

\* The addresses of headers that handle_flags may write to.
LEMMA FlagsFacts ==
  ASSUME NEW own, NEW h \in HeaderType \cup {AnyHeader}, NEW dst
  PROVE  LET p == Received(own, h, PacketLength)
             q == handle_flags(p, dst, UPDATE_ETHER_ADDRS)
         IN  /\ q.device = own /\ q.length = 60 /\ q.lengths = p.lengths
             /\ q.header.dst_addr = endpoint_mac(dst) /\ q.header.src_addr = device_mac(dst)
<1> DEFINE p == Received(own, h, PacketLength)
           q == handle_flags(p, dst, UPDATE_ETHER_ADDRS)
<1>1. q.header = [[h EXCEPT !.dst_addr = endpoint_mac(dst)] EXCEPT !.src_addr = device_mac(dst)]
  BY DEF handle_flags, Received
<1>2. q.device = own /\ q.length = 60 /\ q.lengths = p.lengths
  BY DEF handle_flags, Received, PacketLength
<1>3. {"dst_addr", "src_addr"} \subseteq DOMAIN h
  BY DEF HeaderType, AnyHeader
<1> HIDE DEF q, p
<1>4. q.header.dst_addr = endpoint_mac(dst) /\ q.header.src_addr = device_mac(dst)
  BY <1>1, <1>3
<1> QED
  BY <1>2, <1>4 DEF p, q

\* net_transmit sends to the device it is given, unless that is the device the
\* packet came from.
LEMMA TransmitFacts ==
  ASSUME NEW own \in Devices, NEW h \in HeaderType \cup {AnyHeader}, NEW dst \in Devices,
         NEW fl \in {NONE, UPDATE_ETHER_ADDRS}
  PROVE  SentWell([packet |-> net_transmit(Received(own, h, PacketLength), dst, fl),
                   asked |-> {dst}, flags |-> fl])
<1> DEFINE p == Received(own, h, PacketLength)
           q == handle_flags(p, dst, fl)
           i == index_from_device(p, dst)
           r == net_transmit(p, dst, fl)
           s == [packet |-> r, asked |-> {dst}, flags |-> fl]
<1>1. q.device = own /\ q.length = 60 /\ q.lengths = [o \in Outputs |-> 0]
  <2>1. CASE fl = UPDATE_ETHER_ADDRS
    BY <2>1, FlagsFacts, ReceivedFacts
  <2>2. CASE fl # UPDATE_ETHER_ADDRS
    BY <2>2, ReceivedFacts DEF handle_flags
  <2> QED
    BY <2>1, <2>2
<1>2. p.device = own /\ p.length = 60
  BY ReceivedFacts
<1>3. r = [q EXCEPT !.lengths[i] = p.length]
  BY DEF net_transmit
<1>4. dst # own => i \in Outputs /\ device_from_index(p, i) = dst
  <2> HIDE DEF p
  <2> QED
    BY <1>2, DeviceOfIndex
<1>5. "lengths" \in DOMAIN q
  <2>1. "lengths" \in DOMAIN p
    BY DEF Received
  <2> QED
    BY <2>1 DEF handle_flags
<1> HIDE DEF q, p, i
<1>6. r.device = own /\ r.header = q.header /\ r.lengths = [q.lengths EXCEPT ![i] = 60]
  BY <1>1, <1>2, <1>3, <1>5
<1>7. dst # own => {k \in Outputs : r.lengths[k] > 0} = {i}
  <2>1. \A k \in Outputs : r.lengths[k] = IF k = i THEN 60 ELSE 0
    BY <1>1, <1>6
  <2> HIDE DEF r
  <2> QED
    BY <1>4, <2>1
<1>8. dst # own => device_from_index(r, i) = dst
  BY <1>2, <1>4, <1>6 DEF device_from_index
<1>9. fl = UPDATE_ETHER_ADDRS =>
        r.header.dst_addr = endpoint_mac(dst) /\ r.header.src_addr = device_mac(dst)
  BY <1>6, FlagsFacts DEF q, p
<1> HIDE DEF r
<1>11. s.packet = r /\ s.asked = {dst} /\ s.flags = fl
  OBVIOUS
<1> HIDE DEF s
<1>12. SentWell(s)
  <2>1. dst # own =>
          {device_from_index(r, o) : o \in {k \in Outputs : r.lengths[k] > 0}} = s.asked
    BY <1>7, <1>8, <1>11
  <2>2. s.packet.device = own
    BY <1>6, <1>11
  <2> QED
    BY <1>9, <1>11, <2>1, <2>2 DEF SentWell
<1> QED
  BY <1>12 DEF s, r, p

\* A flood sends to all other devices that are not disabled, with the
\* addresses of the last of the other devices, which may be the only one.
LEMMA FloodFacts ==
  ASSUME NEW own \in Devices, NEW disabled \in SUBSET Devices, DevicesCount >= 2,
         NEW fl \in {NONE, UPDATE_ETHER_ADDRS}, fl = UPDATE_ETHER_ADDRS => disabled = {}
  PROVE  SentWell([packet |-> net_flood_except(Received(own, AnyHeader, PacketLength), disabled, fl),
                   asked |-> Devices \ (disabled \cup {own}), flags |-> fl])
<1> DEFINE p == Received(own, AnyHeader, PacketLength)
           last == device_from_index(p, OutputsCount - 1)
           q == handle_flags(p, last, fl)
           r == net_flood_except(p, disabled, fl)
           s == [packet |-> r, asked |-> Devices \ (disabled \cup {own}), flags |-> fl]
<1>0. DevicesCount \in Nat /\ OutputsCount - 1 \in Outputs /\ Outputs # {}
  BY DevicesAssumption DEF OutputsCount, Outputs
<1>1. q.device = own /\ "lengths" \in DOMAIN q
  <2>1. CASE fl = UPDATE_ETHER_ADDRS
    BY <2>1 DEF handle_flags, Received
  <2>2. CASE fl # UPDATE_ETHER_ADDRS
    BY <2>2 DEF handle_flags, Received
  <2> QED
    BY <2>1, <2>2
<1>2. p.device = own /\ p.length = 60
  BY ReceivedFacts
<1>3. r = [q EXCEPT !.lengths = [k \in Outputs |-> IF device_from_index(p, k) \in disabled
                                                   THEN 0 ELSE p.length]]
  BY <1>0 DEF net_flood_except
<1>4. last \in Devices \ {own}
  <2>1. p.device = own
    BY <1>2
  <2> HIDE DEF p
  <2> QED
    BY <1>0, <2>1 DEF device_from_index, Outputs, OutputsCount, Devices
<1>5. fl = UPDATE_ETHER_ADDRS =>
        q.header.dst_addr = endpoint_mac(last) /\ q.header.src_addr = device_mac(last)
  BY FlagsFacts
<1> HIDE DEF q, p, last
<1>6. /\ r.device = own /\ r.header = q.header
      /\ r.lengths = [k \in Outputs |-> IF device_from_index(p, k) \in disabled THEN 0 ELSE 60]
  BY <1>1, <1>2, <1>3
<1> HIDE DEF r
<1>7. \A k \in Outputs : r.lengths[k] > 0 <=> device_from_index(p, k) \notin disabled
  BY <1>6
<1>8. \A k : device_from_index(r, k) = device_from_index(p, k)
  BY <1>2, <1>6 DEF device_from_index
<1>9. s.packet = r /\ s.asked = Devices \ (disabled \cup {own}) /\ s.flags = fl
  OBVIOUS
<1> HIDE DEF s
<1>10. {device_from_index(r, o) : o \in {k \in Outputs : r.lengths[k] > 0}} = s.asked
  <2>1. \A o \in Outputs : device_from_index(p, o) \in Devices \ {own}
    BY <1>2, DeviceOfIndex
  <2>2. \A d \in Devices \ {own} : \E o \in Outputs : device_from_index(p, o) = d
    BY <1>2, DeviceOfIndex
  <2> QED
    BY <1>7, <1>8, <1>9, <2>1, <2>2
<1>11. SentWell(s)
  <2>1. s.packet.device = own
    BY <1>6, <1>9
  <2>2. fl = UPDATE_ETHER_ADDRS => last \in s.asked
    BY <1>4, <1>9
  <2>3. \A d \in s.asked : s.asked = {d} /\ fl = UPDATE_ETHER_ADDRS => d = last
    BY <2>2
  <2> QED
    BY <1>5, <1>6, <1>9, <1>10, <2>1, <2>3 DEF SentWell
<1> QED
  BY <1>11 DEF s, r, p

\* A packet that is dropped goes nowhere.
LEMMA DropFacts ==
  ASSUME NEW own \in Devices, NEW h
  PROVE  SentWell([packet |-> Received(own, h, PacketLength), asked |-> {}, flags |-> NONE])
BY DEF SentWell, Received

-----------------------------------------------------------------------------
(* Packets leave where the network function asked.                         *)

\* A value that is read is one that was compiled into the program.
LEMMA TryGetValue ==
  ASSUME NEW its \in Seq(ItemType), NEW name
  PROVE  os_config_try_get(its, name) \in 0 .. SIZE_MAX \cup {NoValue}
<1> DEFINE Named == {i \in 1 .. Len(its) : its[i].name = name}
           IsFirst(i) == its[i].name = name /\ \A k \in 1 .. i - 1 : its[k].name # name
           first == CHOOSE i \in 1 .. Len(its) : IsFirst(i)
<1>1. CASE Named = {}
  BY <1>1 DEF os_config_try_get
<1>2. CASE Named # {}
  <2>1. Named \subseteq Nat
    OBVIOUS
  <2> HIDE DEF Named
  <2>2. PICK i \in Named : \A k \in Named : i <= k
    BY <1>2, <2>1, LeastNatural
  <2> USE DEF Named
  <2>3. i \in 1 .. Len(its) /\ IsFirst(i)
    <3>1. i \in 1 .. Len(its) /\ its[i].name = name /\ Len(its) \in Nat
      OBVIOUS
    <3>2. ASSUME NEW k \in 1 .. i - 1
          PROVE  its[k].name # name
      BY <2>2, <3>1
    <3> QED
      BY <3>1, <3>2
  <2>4. first \in 1 .. Len(its)
    <3> HIDE DEF IsFirst
    <3> QED
      BY <2>3
  <2>5. os_config_try_get(its, name) = its[first].value
    BY <1>2 DEF os_config_try_get
  <2> HIDE DEF first
  <2>6. its[first] \in ItemType
    BY <2>4
  <2> QED
    BY <2>5, <2>6 DEF ItemType
<1> QED
  BY <1>1, <1>2

\* A value that was accepted is at most the largest one.
LEMMA GetValue ==
  ASSUME NEW its \in Seq(ItemType), NEW name, NEW max \in Nat,
         os_config_get(its, name, 0, max) # NoValue
  PROVE  os_config_get(its, name, 0, max) \in 0 .. max
<1> DEFINE value == os_config_try_get(its, name)
<1>1. value \in 0 .. SIZE_MAX \cup {NoValue}
  BY TryGetValue
<1>2. os_config_get(its, name, 0, max)
        = IF value = NoValue THEN NoValue ELSE IF value <= max THEN value ELSE NoValue
  BY DEF os_config_get
<1> HIDE DEF value
<1> QED
  BY <1>1, <1>2, MemoryAssumption

\* The no-op function starts with two of the devices.
LEMMA NopDevices ==
  ASSUME items \in Seq(ItemType), Starts("nop", DevicesCount, items)
  PROVE  LET v == Read("nop", DevicesCount, items)
         IN  /\ v["wan device"] \in Devices /\ v["lan device"] \in Devices
             /\ v["wan device"] # v["lan device"]
<1> DEFINE v == Read("nop", DevicesCount, items)
<1>1. DOMAIN v = {"wan device", "lan device"}
  BY DEF Read, Names
<1>2. \A name \in {"wan device", "lan device"} :
        v[name] = os_config_get(items, name, 0, DevicesCount - 1)
  BY DEF Read, Names, Reader, os_config_get_device
<1>3. (\A name \in DOMAIN v : v[name] # NoValue) /\ v["lan device"] # v["wan device"]
  BY DEF Starts, ValuesFit
<1>4. DevicesCount - 1 \in Nat /\ Devices = 0 .. DevicesCount - 1
  BY DevicesAssumption DEF Devices
<1> HIDE DEF v
<1>5. \A name \in {"wan device", "lan device"} : v[name] \in Devices
  BY <1>1, <1>2, <1>3, <1>4, GetValue
<1> QED
  BY <1>3, <1>5 DEF v

\* A step that hands a packet to nf_handle.
LEMMA HandledKeeps ==
  ASSUME NEW p, NEW asked, NEW fl, Handled(p, asked, fl),
         SentWell([packet |-> p, asked |-> asked, flags |-> fl])
  PROVE  SentWell(sent)'
BY DEF Handled, SentWell

\* The router sends where one of its routes leads, if there is such a device.
LEMMA RoutedSends ==
  ASSUME SentWell(sent), NEW device \in Devices, NEW h \in Headers, HandleRouted(device, h)
  PROVE  SentWell(sent)'
<1>1. h \in HeaderType
  BY HeadersAssumption
<1>2. CASE RouterChoices(routes, h) = {}
  BY <1>2, DropFacts, HandledKeeps DEF HandleRouted, Drops
<1>3. CASE Undefined
  BY <1>3 DEF Undefined, SentWell
<1>4. CASE RouterChoices(routes, h) # {} /\ ~ Undefined
  <2>1. PICK dst \in Devices :
          Handled(net_transmit(Received(device, h, PacketLength), dst, UPDATE_ETHER_ADDRS),
                  {dst}, UPDATE_ETHER_ADDRS)
    BY <1>4 DEF HandleRouted
  <2> QED
    BY <1>1, <2>1, TransmitFacts, HandledKeeps
<1> QED
  BY <1>2, <1>3, <1>4

\* Whatever is received, the lengths written are those of the devices that
\* were asked for.
LEMMA SentInvariant == Spec => []SentWell(sent)
<1>1. Init => SentWell(sent)
  <2> SUFFICES ASSUME Init
               PROVE  SentWell(sent)
    OBVIOUS
  <2>1. sent = [packet |-> Received(0, AnyHeader, 0), asked |-> {}, flags |-> NONE]
    BY DEF Init, Nothing
  <2>2. 0 \in Devices
    BY DevicesAssumption DEF Devices
  <2> QED
    BY <2>1, <2>2 DEF SentWell, Received
<1>2. SentWell(sent) /\ WiringInv /\ [Next]_vars => SentWell(sent)'
  <2> SUFFICES ASSUME SentWell(sent), WiringInv, [Next]_vars
               PROVE  SentWell(sent)'
    OBVIOUS
  <2>1. CASE UNCHANGED mainVars
    BY <2>1 DEF mainVars, SentWell
  <2>2. ASSUME NEW device \in Devices, HandleNop(device)
        PROVE  SentWell(sent)'
    <3> DEFINE v == Read("nop", DevicesCount, items)
               dst == nop_handle(v["wan device"], v["lan device"], device)
    <3>1. /\ Handled(net_transmit(Received(device, AnyHeader, PacketLength), dst,
                                  UPDATE_ETHER_ADDRS), {dst}, UPDATE_ETHER_ADDRS)
          /\ nf = "nop" /\ at = "run"
      BY <2>2 DEF HandleNop, Handled
    <3>2. v["wan device"] \in Devices /\ v["lan device"] \in Devices
          /\ v["wan device"] # v["lan device"]
      BY <3>1, NopDevices DEF WiringInv, StartOK
    <3> HIDE DEF v
    <3>3. dst \in Devices /\ dst # device
      BY <3>2 DEF nop_handle
    <3> HIDE DEF dst
    <3> QED
      BY <3>1, <3>3, TransmitFacts, HandledKeeps
  <2>3. ASSUME NEW device \in Devices, HandleDhcp(device)
        PROVE  SentWell(sent)'
    BY <2>3, DropFacts, HandledKeeps DEF HandleDhcp, Drops
  <2>4. ASSUME NEW device \in Devices, NEW disabled \in SUBSET Devices,
               HandleFlood(device, disabled)
        PROVE  SentWell(sent)'
    <3> DEFINE p == Received(device, AnyHeader, PacketLength)
    <3>1. DevicesCount >= 2
      BY <2>4 DEF WiringInv, LoopsOK, HandleFlood, Handled
    <3>2. CASE Handled(net_flood(p, UPDATE_ETHER_ADDRS), Devices \ {device}, UPDATE_ETHER_ADDRS)
      <4>1. Devices \ ({} \cup {device}) = Devices \ {device}
        OBVIOUS
      <4>2. SentWell([packet |-> net_flood_except(p, {}, UPDATE_ETHER_ADDRS),
                      asked |-> Devices \ ({} \cup {device}), flags |-> UPDATE_ETHER_ADDRS])
        BY <3>1, FloodFacts
      <4> QED
        BY <3>2, <4>1, <4>2, HandledKeeps DEF net_flood
    <3>3. CASE Handled(net_flood_except(p, disabled, NONE), Devices \ (disabled \cup {device}), NONE)
      BY <3>1, <3>3, FloodFacts, HandledKeeps DEF NONE, UPDATE_ETHER_ADDRS
    <3> QED
      BY <2>4, <3>2, <3>3 DEF HandleFlood
  <2>5. ASSUME NEW device \in Devices, NEW dst \in Devices, HandleForwarded(device, dst)
        PROVE  SentWell(sent)'
    BY <2>5, TransmitFacts, HandledKeeps DEF HandleForwarded
  <2>6. ASSUME NEW device \in Devices, NEW cmd, HandleCommand(device, cmd)
        PROVE  SentWell(sent)'
    BY <2>6, DropFacts, HandledKeeps DEF HandleCommand, Drops
  <2> QED
    BY <2>1, <2>2, <2>3, <2>4, <2>5, <2>6, RoutedSends
       DEF Next, OsFails, OsInit, NfInit, AllocateDevices, Setup, vars
<1> QED
  BY <1>1, <1>2, WiringInvariant, PTL DEF Spec

\* For every number of devices, network function and packet: the queues that a
\* packet is in are those of the devices that the network function asked for,
\* unless one of these is where the packet came from; and if it asked for the
\* addresses of one device, the packet has them.
THEOREM LeavesWhereAsked == Spec => []PacketsLeaveWhereAsked
<1>1. WiringInv /\ SentWell(sent) => PacketsLeaveWhereAsked
  <2> SUFFICES ASSUME WiringInv, SentWell(sent), at = "run"
               PROVE  PacketsLeaveWhereAsked
    BY DEF PacketsLeaveWhereAsked
  <2> DEFINE own == sent.packet.device
             Lengthy == {k \in Outputs : sent.packet.lengths[k] > 0}
  <2>1. own \in Devices /\ \A k \in Lengthy : k \in Outputs
    BY DEF SentWell
  <2>2. ASSUME NEW o \in Lengthy
        PROVE  transmit_tail_addrs[own][o][1] = device_from_index(sent.packet, o)
    <3> DEFINE d == device_from_index(sent.packet, o)
    <3>1. d \in Devices \ {own} /\ TrueIndex(own, d) = o
      <4>1. d \in Devices \ {own} /\ index_from_device(sent.packet, d) = o
        BY <2>1, DeviceOfIndex
      <4>2. index_from_device(sent.packet, d) = TrueIndex(own, d)
        BY DEF index_from_device, TrueIndex
      <4> QED
        BY <4>1, <4>2
    <3> HIDE DEF d
    <3>2. transmit_tail_addrs[own][TrueIndex(own, d)] = <<d, QueueIndex(own, d)>>
      BY <2>1, <3>1 DEF WiringInv, TailsOK, IsOutput, Stopped
    <3> QED
      BY <3>1, <3>2 DEF d
  <2>3. Reached = {device_from_index(sent.packet, o) : o \in Lengthy}
    BY <2>2 DEF Reached
  <2> QED
    BY <2>3 DEF PacketsLeaveWhereAsked, SentWell
<1> QED
  BY <1>1, WiringInvariant, SentInvariant, PTL

-----------------------------------------------------------------------------
(* The allocator.                                                          *)

BlockType == [addr : Nat, count : Nat, size : Nat]

EndOf(b) == b.addr + b.count * b.size

\* All that was allocated lies before what will be allocated.
HeapOK(h) ==
  /\ h \in [used : 0 .. OS_MEMORY_SIZE, blocks : Seq(BlockType), halted : BOOLEAN]
  /\ KeepsContract(h)
  /\ h.blocks # <<>> => EndOf(h.blocks[Len(h.blocks)]) <= memory + h.used

\* What a caller may ask for.
IsLegal(count, size) == count \in Nat /\ size \in Nat /\ count * size <= SIZE_MAX

LegalRequests(rs) ==
  /\ rs \in Seq(Nat \X Nat)
  /\ \A i \in 1 .. Len(rs) : IsLegal(rs[i][1], rs[i][2])

\* The padding leads to the next multiple.
LEMMA Padding ==
  ASSUME NEW addr \in Nat, NEW size \in Nat
  PROVE  LET padding == AlignPadding(addr, AlignDiv(size))
         IN  padding \in Nat /\ (addr + padding) % AlignDiv(size) = 0
<1>1. AlignDiv(size) \in Nat \ {0}
  BY DEF AlignDiv, CACHE_LINE_SIZE
<1> QED
  BY <1>1 DEF AlignPadding

\* A huge page is contiguous for a device.
LEMMA Contiguous ==
  ASSUME NEW a \in Nat, NEW b \in Nat
  PROVE  os_memory_virt_to_phys(b) - os_memory_virt_to_phys(a) = b - a
<1> DEFINE P == PAGE_SIZE
           K == (PhysicalPage - VirtualPage) * (HUGEPAGE_SIZE \div PAGE_SIZE)
<1>1. P \in Nat \ {0}
  BY DEF PAGE_SIZE
<1>2. K \in Int
  BY <1>1, MemoryAssumption
<1>3. \A x : os_memory_virt_to_phys(x) = ((x \div P) + K) * P + (x % P)
  BY DEF os_memory_virt_to_phys, Frame
<1> HIDE DEF P, K
<1>4. \A x \in Nat : ((x \div P) + K) * P + (x % P) = x + K * P
  BY <1>1, <1>2
<1>5. K * P \in Int
  BY <1>1, <1>2
<1> QED
  BY <1>3, <1>4, <1>5

\* One block after those that there are.
LEMMA AllocKeeps ==
  ASSUME NEW h, HeapOK(h), NEW count, NEW size, IsLegal(count, size)
  PROVE  HeapOK(os_memory_alloc(h, count, size))
<1> DEFINE bytes   == count * size
           padding == AlignPadding(memory + h.used, AlignDiv(size))
           used    == h.used + padding
           addr    == memory + used
           b       == Block(addr, count, size)
           g       == os_memory_alloc(h, count, size)
<1> SUFFICES HeapOK(g)
  OBVIOUS
<1>0. /\ h.used \in 0 .. OS_MEMORY_SIZE /\ h.blocks \in Seq(BlockType) /\ h.halted \in BOOLEAN
      /\ h \in [used : 0 .. OS_MEMORY_SIZE, blocks : Seq(BlockType), halted : BOOLEAN]
  BY DEF HeapOK
<1>1. memory \in Nat /\ OS_MEMORY_SIZE \in Nat /\ SIZE_MAX \in Nat
  BY MemoryAssumption DEF memory
<1>2. bytes \in Nat /\ bytes <= SIZE_MAX /\ bytes % (SIZE_MAX + 1) = bytes
  BY <1>1 DEF IsLegal
<1>3. padding \in Nat /\ addr % AlignDiv(size) = 0
  <2>1. memory + h.used \in Nat /\ size \in Nat
    BY <1>0, <1>1 DEF IsLegal
  <2>2. padding \in Nat /\ (memory + h.used + padding) % AlignDiv(size) = 0
    BY <2>1, Padding
  <2>3. memory + h.used + padding = addr
    BY <1>0, <1>1, <2>2
  <2> QED
    BY <2>2, <2>3
<1>4. \/ g = h
      \/ g = [h EXCEPT !.halted = TRUE]
      \/ /\ bytes <= OS_MEMORY_SIZE - used /\ padding <= OS_MEMORY_SIZE - h.used
         /\ g = [h EXCEPT !.used = used + bytes, !.blocks = Append(@, b)]
      \/ padding <= OS_MEMORY_SIZE - h.used
         /\ g = [h EXCEPT !.halted = TRUE, !.used = used]
  <2> HIDE DEF padding, used, addr, bytes
  <2>1. padding <= OS_MEMORY_SIZE - h.used \/ padding > OS_MEMORY_SIZE - h.used
    BY <1>0, <1>1, <1>3
  <2>2. bytes <= OS_MEMORY_SIZE - used \/ bytes > OS_MEMORY_SIZE - used
    BY <1>0, <1>1, <1>2, <1>3 DEF used
  <2> QED
    BY <1>2, <2>1, <2>2 DEF os_memory_alloc, padding, used, addr, bytes
<1> HIDE DEF bytes, padding, g
<1>5. ASSUME NEW u \in 0 .. OS_MEMORY_SIZE, u >= h.used, g.used = u, g.blocks = h.blocks,
             g \in [used : 0 .. OS_MEMORY_SIZE, blocks : Seq(BlockType), halted : BOOLEAN]
      PROVE  HeapOK(g)
  <2>1. KeepsContract(g)
    BY <1>5 DEF HeapOK, KeepsContract
  <2>2. g.blocks # <<>> => EndOf(g.blocks[Len(g.blocks)]) <= memory + g.used
    <3>1. ASSUME h.blocks # <<>>
          PROVE  EndOf(h.blocks[Len(h.blocks)]) <= memory + u
      <4> DEFINE e == EndOf(h.blocks[Len(h.blocks)])
      <4>1. h.blocks[Len(h.blocks)] \in BlockType
        BY <1>0, <3>1
      <4>2. e \in Nat
        BY <4>1 DEF EndOf, BlockType
      <4>3. e <= memory + h.used
        BY <3>1 DEF HeapOK
      <4> HIDE DEF e
      <4> QED
        BY <1>0, <1>1, <1>5, <4>2, <4>3 DEF e
    <3> QED
      BY <1>5, <3>1
  <2> QED
    BY <1>5, <2>1, <2>2 DEF HeapOK
<1>6. CASE g = h \/ g = [h EXCEPT !.halted = TRUE]
  <2>1. g \in [used : 0 .. OS_MEMORY_SIZE, blocks : Seq(BlockType), halted : BOOLEAN]
        /\ g.used = h.used /\ g.blocks = h.blocks
    BY <1>0, <1>6
  <2>2. h.used >= h.used
    BY <1>0
  <2> QED
    BY <1>0, <1>5, <2>1, <2>2
<1>7. CASE padding <= OS_MEMORY_SIZE - h.used /\ g = [h EXCEPT !.halted = TRUE, !.used = used]
  <2>1. used \in 0 .. OS_MEMORY_SIZE /\ used >= h.used
    BY <1>0, <1>1, <1>3, <1>7
  <2> HIDE DEF used
  <2>2. g \in [used : 0 .. OS_MEMORY_SIZE, blocks : Seq(BlockType), halted : BOOLEAN]
        /\ g.used = used /\ g.blocks = h.blocks
    BY <1>0, <1>7, <2>1
  <2> QED
    BY <1>5, <2>1, <2>2
<1>8. CASE /\ bytes <= OS_MEMORY_SIZE - used /\ padding <= OS_MEMORY_SIZE - h.used
           /\ g = [h EXCEPT !.used = used + bytes, !.blocks = Append(@, b)]
  <2> DEFINE k == Len(h.blocks)
  <2>0. used \in Nat /\ addr \in Nat
    BY <1>0, <1>1, <1>3
  <2>1. used + bytes \in 0 .. OS_MEMORY_SIZE /\ addr \in Nat /\ used \in Nat
    <3> HIDE DEF used
    <3> QED
      BY <1>1, <1>2, <1>8, <2>0
  <2>2. b \in BlockType /\ b.addr = addr /\ b.count = count /\ b.size = size
    <3>1. count \in Nat /\ size \in Nat
      BY DEF IsLegal
    <3> HIDE DEF addr
    <3> QED
      BY <2>1, <3>1 DEF Block, BlockType
  <2> HIDE DEF b
  <2>3. /\ k \in Nat /\ Len(Append(h.blocks, b)) = k + 1
        /\ Append(h.blocks, b)[k + 1] = b
        /\ \A i \in 1 .. k : Append(h.blocks, b)[i] = h.blocks[i]
        /\ Append(h.blocks, b) \in Seq(BlockType)
    BY <1>0, <2>2
  <2>4. /\ g.used = used + bytes /\ g.blocks = Append(h.blocks, b)
        /\ g \in [used : 0 .. OS_MEMORY_SIZE, blocks : Seq(BlockType), halted : BOOLEAN]
    BY <1>0, <1>8, <2>1, <2>3
  <2>5. EndOf(b) = addr + bytes /\ EndOf(b) = memory + (used + bytes)
    BY <1>1, <1>2, <2>1, <2>2 DEF EndOf, bytes
  <2>6. ASSUME NEW i \in 1 .. k + 1
        PROVE  LET c == g.blocks[i]
               IN  /\ c.count * c.size <= SIZE_MAX
                   /\ c.addr >= (IF i = 1 THEN memory
                                 ELSE g.blocks[i - 1].addr
                                      + g.blocks[i - 1].count * g.blocks[i - 1].size)
                   /\ c.addr + c.count * c.size <= memory + OS_MEMORY_SIZE
                   /\ c.addr % AlignDiv(c.size) = 0
                   /\ os_memory_virt_to_phys(c.addr + c.count * c.size)
                        - os_memory_virt_to_phys(c.addr)
                      = (c.addr + c.count * c.size) - c.addr
    <3>1. CASE i \in 1 .. k
      <4>1. g.blocks[i] = h.blocks[i] /\ (i # 1 => g.blocks[i - 1] = h.blocks[i - 1])
        BY <2>3, <2>4, <3>1
      <4> QED
        BY <3>1, <4>1 DEF HeapOK, KeepsContract
    <3>2. CASE i = k + 1
      <4>1. g.blocks[i] = b
        BY <2>3, <2>4, <3>2
      <4>2. b.count * b.size = bytes /\ b.addr + b.count * b.size = EndOf(b)
        BY <2>2 DEF bytes, EndOf
      <4>3. EndOf(b) \in Nat /\ EndOf(b) <= memory + OS_MEMORY_SIZE
        BY <1>1, <2>1, <2>5
      <4>4. os_memory_virt_to_phys(EndOf(b)) - os_memory_virt_to_phys(b.addr) = EndOf(b) - b.addr
        BY <2>1, <2>2, <4>3, Contiguous
      <4>5. CASE k = 0
        <5>1. i = 1 /\ b.addr >= memory
          BY <1>1, <2>1, <2>2, <2>3, <3>2, <4>5
        <5> QED
          BY <1>2, <1>3, <2>2, <4>1, <4>2, <4>3, <4>4, <5>1
      <4>6. CASE k # 0
        <5> DEFINE a == h.blocks[k]
        <5>1. g.blocks[i - 1] = a /\ i # 1 /\ h.blocks # <<>> /\ a \in BlockType
          <6>1. k \in 1 .. k /\ i - 1 = k
            BY <2>3, <3>2, <4>6
          <6> QED
            BY <1>0, <2>3, <2>4, <6>1
        <5>2. EndOf(a) <= memory + h.used /\ EndOf(a) \in Nat
          <6>1. EndOf(a) <= memory + h.used
            BY <5>1 DEF HeapOK
          <6>2. a.addr \in Nat /\ a.count \in Nat /\ a.size \in Nat
            BY <5>1 DEF BlockType
          <6> HIDE DEF a
          <6> QED
            BY <6>1, <6>2 DEF EndOf
        <5>3. EndOf(a) <= b.addr
          BY <1>0, <1>1, <1>3, <2>1, <2>2, <5>2
        <5>4. EndOf(a) = a.addr + a.count * a.size /\ b.addr \in Nat
          BY <2>1, <2>2 DEF EndOf
        <5> HIDE DEF a
        <5> QED
          BY <1>2, <1>3, <2>2, <4>1, <4>2, <4>3, <4>4, <5>1, <5>2, <5>3, <5>4
      <4> QED
        BY <4>5, <4>6
    <3> QED
      BY <2>3, <3>1, <3>2
  <2>7. Len(g.blocks) = k + 1 /\ g.blocks[k + 1] = b
    BY <2>3, <2>4
  <2>8. KeepsContract(g)
    BY <2>6, <2>7 DEF KeepsContract
  <2>9. EndOf(g.blocks[Len(g.blocks)]) <= memory + g.used
    BY <1>1, <2>1, <2>4, <2>5, <2>7
  <2> QED
    BY <2>4, <2>8, <2>9 DEF HeapOK
<1> QED
  BY <1>4, <1>6, <1>7, <1>8

\* F has the heap after each of the first len requests.
Allocating(F, h, rs, len) ==
  /\ F[0] = h
  /\ \A k \in 1 .. len : F[k] = os_memory_alloc(F[k - 1], rs[k][1], rs[k][2])

\* Requests can be served one after the other.
LEMMA AllocatingExists ==
  ASSUME NEW h, NEW rs, NEW len \in Nat
  PROVE  \E F : Allocating(F, h, rs, len)
<1> DEFINE Stuck == {k \in Nat : ~ \E F : Allocating(F, h, rs, k)}
<1>1. SUFFICES ASSUME len \in Stuck PROVE FALSE
  OBVIOUS
<1>2. PICK k \in Stuck : \A j \in Stuck : k <= j
  <2>1. Stuck \subseteq Nat
    OBVIOUS
  <2> HIDE DEF Stuck
  <2> QED
    BY <1>1, <2>1, LeastNatural
<1>3. k # 0
  <2> DEFINE F == [j \in {0} |-> h]
  <2>1. F[0] = h /\ 1 .. 0 = {}
    OBVIOUS
  <2> HIDE DEF F
  <2>2. Allocating(F, h, rs, 0)
    BY <2>1 DEF Allocating
  <2> QED
    BY <2>2
<1>4. k \in Nat /\ k - 1 \in Nat /\ k - 1 \notin Stuck
  BY <1>2, <1>3
<1>5. PICK F : Allocating(F, h, rs, k - 1)
  BY <1>4
<1> DEFINE last == os_memory_alloc(F[k - 1], rs[k][1], rs[k][2])
           G == [j \in 0 .. k |-> IF j = k THEN last ELSE F[j]]
<1> HIDE DEF last
<1>6. G[k] = last /\ \A j \in 0 .. k - 1 : G[j] = F[j]
  BY <1>4
<1> HIDE DEF G
<1>7. G[0] = h
  BY <1>4, <1>5, <1>6 DEF Allocating
<1>8. ASSUME NEW j \in 1 .. k
      PROVE  G[j] = os_memory_alloc(G[j - 1], rs[j][1], rs[j][2])
  <2>1. CASE j = k
    BY <1>4, <1>6, <2>1 DEF last
  <2>2. CASE j # k
    <3>1. j \in 1 .. k - 1 /\ j \in 0 .. k - 1 /\ j - 1 \in 0 .. k - 1
      BY <1>4, <2>2
    <3>2. G[j] = F[j] /\ G[j - 1] = F[j - 1]
      BY <1>6, <3>1
    <3> QED
      BY <1>5, <3>1, <3>2 DEF Allocating
  <2> QED
    BY <2>1, <2>2
<1>9. Allocating(G, h, rs, k)
  BY <1>7, <1>8 DEF Allocating
<1> QED
  BY <1>2, <1>9

\* AllocAll returns the heap after the last request.
LEMMA AllocAllAllocates ==
  ASSUME NEW h, NEW rs, Len(rs) \in Nat
  PROVE  \E F : Allocating(F, h, rs, Len(rs)) /\ AllocAll(h, rs) = F[Len(rs)]
<1> DEFINE N == Len(rs)
           Step(F, k) == IF k = 0 THEN h
                         ELSE os_memory_alloc(F[k - 1], rs[k][1], rs[k][2])
           after == CHOOSE F : F = [k \in 0 .. N |-> Step(F, k)]
<1>1. AllocAll(h, rs) = after[N]
  BY DEF AllocAll
<1>2. N \in Nat
  OBVIOUS
<1> HIDE DEF N
<1>3. PICK G : Allocating(G, h, rs, N)
  BY <1>2, AllocatingExists
<1> DEFINE H == [k \in 0 .. N |-> G[k]]
<1>4. ASSUME NEW k \in 0 .. N
      PROVE  H[k] = Step(H, k)
  <2>1. CASE k = 0
    BY <1>2, <1>3, <2>1 DEF Allocating
  <2>2. CASE k # 0
    <3>1. k \in 1 .. N /\ k - 1 \in 0 .. N
      BY <1>2, <2>2
    <3>2. H[k] = G[k] /\ H[k - 1] = G[k - 1]
      BY <3>1
    <3> QED
      BY <1>3, <2>2, <3>1, <3>2 DEF Allocating
  <2> QED
    BY <2>1, <2>2
<1>5. H = [k \in 0 .. N |-> Step(H, k)]
  BY <1>4
<1>6. after = [k \in 0 .. N |-> Step(after, k)]
  <2> HIDE DEF H, Step
  <2> QED
    BY <1>5
<1>7. \A k \in 0 .. N : after[k] = Step(after, k)
  BY <1>6
<1> HIDE DEF after
<1>8. after[0] = h
  BY <1>2, <1>7
<1>9. ASSUME NEW k \in 1 .. N
      PROVE  after[k] = os_memory_alloc(after[k - 1], rs[k][1], rs[k][2])
  <2>1. k \in 0 .. N /\ k # 0
    BY <1>2
  <2> QED
    BY <1>7, <2>1
<1>10. Allocating(after, h, rs, N)
  BY <1>8, <1>9 DEF Allocating
<1> QED
  BY <1>1, <1>10 DEF N

\* Legal requests keep the contract, however many.
LEMMA AllocAllKeeps ==
  ASSUME NEW h, HeapOK(h), NEW rs, LegalRequests(rs)
  PROVE  HeapOK(AllocAll(h, rs))
<1>0. Len(rs) \in Nat
  BY DEF LegalRequests
<1>1. PICK F : Allocating(F, h, rs, Len(rs)) /\ AllocAll(h, rs) = F[Len(rs)]
  BY <1>0, AllocAllAllocates
<1> DEFINE Bad == {k \in 0 .. Len(rs) : ~ HeapOK(F[k])}
<1>2. Bad = {}
  <2> SUFFICES ASSUME Bad # {} PROVE FALSE
    OBVIOUS
  <2>1. Bad \subseteq Nat
    BY <1>0
  <2>2. PICK k \in Bad : \A j \in Bad : k <= j
    <3> HIDE DEF Bad
    <3> QED
      BY <2>1, LeastNatural
  <2>3. k # 0
    BY <1>1 DEF Allocating
  <2>4. k \in 1 .. Len(rs) /\ k - 1 \in 0 .. Len(rs)
    BY <1>0, <2>3
  <2>5. HeapOK(F[k - 1])
    BY <2>2, <2>4
  <2>6. F[k] = os_memory_alloc(F[k - 1], rs[k][1], rs[k][2])
    BY <1>1, <2>4 DEF Allocating
  <2>7. IsLegal(rs[k][1], rs[k][2])
    BY <2>4 DEF LegalRequests
  <2>8. HeapOK(F[k])
    BY <2>5, <2>6, <2>7, AllocKeeps
  <2> QED
    BY <2>8
<1>3. HeapOK(F[Len(rs)])
  BY <1>0, <1>2
<1> QED
  BY <1>1, <1>3

\* Requests in a row, one sequence after another or written out.
LEMMA LegalTogether ==
  ASSUME NEW a, NEW b, LegalRequests(a), LegalRequests(b)
  PROVE  LegalRequests(a \o b)
<1>1. a \in Seq(Nat \X Nat) /\ b \in Seq(Nat \X Nat) /\ a \o b \in Seq(Nat \X Nat)
  BY DEF LegalRequests
<1>2. ASSUME NEW i \in 1 .. Len(a \o b)
      PROVE  IsLegal((a \o b)[i][1], (a \o b)[i][2])
  <2>1. CASE i <= Len(a)
    <3>1. (a \o b)[i] = a[i] /\ i \in 1 .. Len(a)
      BY <1>1, <2>1
    <3> QED
      BY <3>1 DEF LegalRequests
  <2>2. CASE ~ (i <= Len(a))
    <3>1. (a \o b)[i] = b[i - Len(a)] /\ i - Len(a) \in 1 .. Len(b)
      BY <1>1, <2>2
    <3> QED
      BY <3>1 DEF LegalRequests
  <2> QED
    BY <2>1, <2>2
<1> QED
  BY <1>1, <1>2 DEF LegalRequests

\* One request.
LEMMA LegalOne ==
  ASSUME NEW c, NEW s, IsLegal(c, s)
  PROVE  LegalRequests(<< <<c, s>> >>)
<1>1. <<c, s>> \in Nat \X Nat
  BY DEF IsLegal
<1> DEFINE rs == << <<c, s>> >>
<1>2. rs \in Seq(Nat \X Nat) /\ Len(rs) = 1 /\ rs[1] = <<c, s>>
  BY <1>1
<1> HIDE DEF rs
<1>3. ASSUME NEW i \in 1 .. Len(rs)
      PROVE  IsLegal(rs[i][1], rs[i][2])
  BY <1>2
<1>4. LegalRequests(rs)
  BY <1>2, <1>3 DEF LegalRequests
<1> QED
  BY <1>4 DEF rs

\* A request more at the end.
LEMMA LegalMore ==
  ASSUME NEW rs, LegalRequests(rs), NEW c, NEW s, IsLegal(c, s)
  PROVE  LegalRequests(rs \o << <<c, s>> >>)
BY LegalOne, LegalTogether

\* Several requests.
LEMMA LegalTwo ==
  ASSUME NEW c1, NEW s1, IsLegal(c1, s1), NEW c2, NEW s2, IsLegal(c2, s2)
  PROVE  LegalRequests(<< <<c1, s1>>, <<c2, s2>> >>)
<1>1. << <<c1, s1>>, <<c2, s2>> >> = << <<c1, s1>> >> \o << <<c2, s2>> >>
  OBVIOUS
<1> QED
  BY <1>1, LegalOne, LegalMore

\* Four requests.
LEMMA LegalFour ==
  ASSUME NEW r1, NEW r2, NEW r3, NEW r4,
         LegalRequests(<<r1, r2>>), LegalRequests(<<r3, r4>>)
  PROVE  LegalRequests(<<r1, r2, r3, r4>>)
<1>1. <<r1, r2, r3, r4>> = <<r1, r2>> \o <<r3, r4>>
  OBVIOUS
<1> QED
  BY <1>1, LegalTogether

\* The loop of get_real_capacity stops, at a number below twice the capacity.
LEMMA RealCapacity ==
  ASSUME NEW capacity \in Nat
  PROVE  get_real_capacity(capacity) \in 0 .. 2 * capacity
<1> DEFINE Once(F, r) == IF r < capacity THEN F[r * 2] ELSE r
           Unfolds(F, lo) == /\ F = [r \in lo .. 2 * capacity |-> F[r]]
                       /\ \A r \in lo .. 2 * capacity : F[r] = Once(F, r)
           Bounded(F, lo) == \A r \in lo .. 2 * capacity : F[r] \in 0 .. 2 * capacity
           Begun == {lo \in 1 .. capacity : \E F : Unfolds(F, lo) /\ Bounded(F, lo)}
           doubled == CHOOSE F : F = [r \in 1 .. 2 * capacity |-> Once(F, r)]
<1>1. CASE capacity = 0
  BY <1>1 DEF get_real_capacity
<1>2. CASE capacity # 0
  <2>1. capacity \in Begun
    <3> DEFINE F == [r \in capacity .. 2 * capacity |-> r]
    <3>1. Unfolds(F, capacity) /\ Bounded(F, capacity)
      OBVIOUS
    <3>2. capacity \in 1 .. capacity
      BY <1>2
    <3> HIDE DEF F, Unfolds, Bounded
    <3>3. \E F0 : Unfolds(F0, capacity) /\ Bounded(F0, capacity)
      BY <3>1
    <3> QED
      BY <3>2, <3>3
  <2>2. Begun \subseteq Nat
    OBVIOUS
  <2>3. ASSUME NEW lo \in Begun, lo # 1
        PROVE  lo - 1 \in Begun
    <3>1. PICK F : Unfolds(F, lo) /\ Bounded(F, lo)
      OBVIOUS
    <3> DEFINE G == [r \in lo - 1 .. 2 * capacity |-> IF r = lo - 1 THEN F[2 * r] ELSE F[r]]
    <3>2. lo \in 2 .. capacity
      BY <2>3
    <3>3. ASSUME NEW r \in lo - 1 .. 2 * capacity
          PROVE  /\ G[r] = Once(G, r)
                 /\ G[r] \in 0 .. 2 * capacity
      <4>1. CASE r = lo - 1
        <5>1. r < capacity /\ r * 2 \in lo .. 2 * capacity /\ r * 2 = 2 * r
          BY <3>2, <4>1
        <5>2. G[r] = F[2 * r] /\ G[r * 2] = F[r * 2]
          BY <3>2, <4>1, <5>1
        <5> QED
          BY <3>1, <5>1, <5>2
      <4>2. CASE r # lo - 1
        <5>1. r \in lo .. 2 * capacity /\ G[r] = F[r]
          BY <3>2, <4>2
        <5>2. r < capacity => G[r * 2] = F[r * 2]
          BY <3>2, <5>1
        <5> QED
          BY <3>1, <5>1, <5>2
      <4> QED
        BY <4>1, <4>2
    <3>4. G = [r \in lo - 1 .. 2 * capacity |-> G[r]]
      OBVIOUS
    <3>5. lo - 1 \in 1 .. capacity
      BY <3>2
    <3> HIDE DEF G
    <3>6. Unfolds(G, lo - 1) /\ Bounded(G, lo - 1)
      BY <3>3, <3>4
    <3> QED
      BY <3>5, <3>6
  <2>4. PICK least \in Begun : \A lo \in Begun : least <= lo
    <3> HIDE DEF Begun
    <3> QED
      BY <2>1, <2>2, LeastNatural
  <2>5. least = 1
    <3> SUFFICES ASSUME least # 1 PROVE FALSE
      OBVIOUS
    <3>1. least - 1 \in Begun /\ least \in Nat
      BY <2>3, <2>2
    <3> HIDE DEF Begun
    <3> QED
      BY <2>4, <3>1
  <2>6. PICK F : Unfolds(F, 1) /\ Bounded(F, 1)
    BY <2>5
  <2>7. F = [r \in 1 .. 2 * capacity |-> Once(F, r)]
    BY <2>6
  <2>8. doubled = [r \in 1 .. 2 * capacity |-> Once(doubled, r)]
    BY <2>7
  <2>9. get_real_capacity(capacity) = doubled[1]
    BY <1>2 DEF get_real_capacity
  <2>10. \A r \in 1 .. 2 * capacity : doubled[r] = Once(doubled, r)
    BY <2>8
  <2> HIDE DEF doubled
  <2>11. \A r \in 1 .. 2 * capacity : doubled[r] = F[r]
    <3> DEFINE Wrong == {lo \in 0 .. 2 * capacity : \E r \in 1 .. 2 * capacity :
                           lo = 2 * capacity - r /\ doubled[r] # F[r]}
    <3>1. SUFFICES ASSUME NEW r \in 1 .. 2 * capacity, doubled[r] # F[r]
                   PROVE  FALSE
      OBVIOUS
    <3>2. 2 * capacity - r \in Wrong
      BY <3>1
    <3>3. Wrong \subseteq Nat
      OBVIOUS
    <3>4. PICK lo \in Wrong : \A k \in Wrong : lo <= k
      <4> HIDE DEF Wrong
      <4> QED
        BY <3>2, <3>3, LeastNatural
    <3>5. PICK q \in 1 .. 2 * capacity : lo = 2 * capacity - q /\ doubled[q] # F[q]
      OBVIOUS
    <3>6. q < capacity /\ doubled[q * 2] # F[q * 2]
      BY <2>6, <2>10, <3>5
    <3>7. q * 2 \in 1 .. 2 * capacity /\ 2 * capacity - q * 2 \in 0 .. 2 * capacity
      BY <3>6
    <3>8. 2 * capacity - q * 2 \in Wrong
      BY <3>6, <3>7
    <3>9. 2 * capacity - q * 2 < lo
      BY <3>5
    <3> HIDE DEF Wrong
    <3> QED
      BY <3>3, <3>4, <3>8, <3>9
  <2>12. 1 \in 1 .. 2 * capacity
    BY <1>2
  <2>13. F[1] \in 0 .. 2 * capacity /\ doubled[1] = F[1]
    BY <2>6, <2>11, <2>12
  <2> QED
    BY <2>9, <2>13
<1> QED
  BY <1>1, <1>2

\* What the getters accept.
LEMMA SizeFacts ==
  /\ SIZE_MAX \in Nat /\ MaxSize \in Nat /\ MaxSize * 64 <= SIZE_MAX
  /\ UINT32_MAX \in Nat /\ UINT16_MAX \in Nat
BY MemoryAssumption, WidthsAssumption DEF MaxSize

\* A size that the configuration accepts leaves room for 64 bytes of each item.
LEMMA SizeHasRoom ==
  ASSUME NEW k \in 0 .. MaxSize
  PROVE  k * 64 <= SIZE_MAX
<1>1. k * 64 <= MaxSize * 64
  BY SizeFacts
<1> QED
  BY <1>1, SizeFacts

\* The values with which a network function starts are in the ranges of their
\* types.
LEMMA ValueRanges ==
  ASSUME NEW f \in NetworkFunctions, NEW c \in Nat \ {0}, NEW its \in Seq(ItemType),
         Starts(f, c, its), NEW name \in Names(f)
  PROVE  LET value == Read(f, c, its)[name]
         IN  /\ Reader(f, name) = "size"   => value \in 0 .. MaxSize
             /\ Reader(f, name) = "u32"    => value \in 0 .. UINT32_MAX
             /\ Reader(f, name) = "u16"    => value \in 0 .. UINT16_MAX
             /\ Reader(f, name) = "device" => value \in 0 .. c - 1
<1> DEFINE v == Read(f, c, its)
<1>1. v[name] # NoValue
  <2>1. DOMAIN v = Names(f)
    BY DEF Read
  <2> QED
    BY <2>1 DEF Starts
<1>2. /\ Reader(f, name) = "size"   => v[name] = os_config_get(its, name, 0, MaxSize)
      /\ Reader(f, name) = "u32"    => v[name] = os_config_get(its, name, 0, UINT32_MAX)
      /\ Reader(f, name) = "u16"    => v[name] = os_config_get(its, name, 0, UINT16_MAX)
      /\ Reader(f, name) = "device" => v[name] = os_config_get(its, name, 0, c - 1)
  <2> HIDE DEF Names, Reader
  <2> QED
    BY DEF Read, os_config_get_size, os_config_get_u32, os_config_get_u16, os_config_get_device
<1> HIDE DEF v
<1>3. c - 1 \in Nat
  OBVIOUS
<1>4. v[name] = os_config_get(its, name, 0, MaxSize) => v[name] \in 0 .. MaxSize
  BY <1>1, SizeFacts, GetValue
<1>5. v[name] = os_config_get(its, name, 0, UINT32_MAX) => v[name] \in 0 .. UINT32_MAX
  BY <1>1, SizeFacts, GetValue
<1>6. v[name] = os_config_get(its, name, 0, UINT16_MAX) => v[name] \in 0 .. UINT16_MAX
  BY <1>1, SizeFacts, GetValue
<1>7. v[name] = os_config_get(its, name, 0, c - 1) => v[name] \in 0 .. c - 1
  BY <1>1, <1>3, GetValue
<1> QED
  BY <1>2, <1>4, <1>5, <1>6, <1>7 DEF v

\* A map or a pool for as many entries as a size that was accepted.
LEMMA LegalStructures ==
  ASSUME NEW k \in 0 .. MaxSize
  PROVE  /\ LegalRequests(map_alloc(k)) /\ LegalRequests(index_pool_alloc(k))
         /\ \A s \in 0 .. 64 : IsLegal(k, s) /\ IsLegal(1, s)
<1>1. k \in Nat /\ 64 * k <= SIZE_MAX /\ 64 <= SIZE_MAX
  <2>1. k * 64 <= SIZE_MAX
    BY SizeHasRoom
  <2>2. 64 <= SIZE_MAX
    BY SizesAssumption, DevicesAssumption, SizeFacts
  <2> QED
    BY <2>1, <2>2, SizeFacts
<1>2. \A s \in 0 .. 64 : IsLegal(k, s) /\ IsLegal(1, s)
  <2>1. ASSUME NEW s \in 0 .. 64
        PROVE  k * s <= 64 * k
    BY <1>1
  <2> QED
    BY <1>1, <2>1, SizeFacts DEF IsLegal
<1>3. IsLegal(get_real_capacity(k), 32)
  <2>1. get_real_capacity(k) \in 0 .. 2 * k
    BY <1>1, RealCapacity
  <2> QED
    BY <1>1, <2>1, SizeFacts DEF IsLegal
<1>4. LegalRequests(map_alloc(k))
  BY <1>2, <1>3, LegalTwo DEF map_alloc
<1>5. LegalRequests(index_pool_alloc(k))
  BY <1>2, LegalTwo DEF index_pool_alloc
<1> QED
  BY <1>2, <1>4, <1>5

\* Two arrays of as many places as the consistent hash table has.
LEMMA LegalTable ==
  ASSUME NEW h \in 0 .. UINT16_MAX, NEW b \in Nat, b < h, b * 64 <= SIZE_MAX
  PROVE  LegalRequests(cht_alloc(h, b))
<1>1. h * b <= UINT16_MAX * UINT16_MAX
  <2>1. h * b <= UINT16_MAX * b
    BY SizeFacts
  <2>2. UINT16_MAX * b <= UINT16_MAX * UINT16_MAX
    BY SizeFacts
  <2>3. h * b \in Nat /\ UINT16_MAX * b \in Nat /\ UINT16_MAX * UINT16_MAX \in Nat
    BY SizeFacts
  <2> QED
    BY <2>1, <2>2, <2>3
<1>2. IsLegal(h * b, 2)
  <2> DEFINE places == h * b
             square == UINT16_MAX * UINT16_MAX
  <2>1. places \in Nat /\ square \in Nat /\ places <= square
    BY <1>1, SizeFacts
  <2>2. 2 * square <= SIZE_MAX
    <3>1. 2 * UINT16_MAX * UINT16_MAX = 2 * square
      BY SizeFacts
    <3> QED
      BY <3>1, WidthsAssumption
  <2> HIDE DEF places, square
  <2>3. IsLegal(places, 2)
    BY <2>1, <2>2, SizeFacts DEF IsLegal
  <2> QED
    BY <2>3 DEF places
<1>3. IsLegal(1, 16)
  BY SizesAssumption, DevicesAssumption, SizeFacts DEF IsLegal
<1>4. IsLegal(h, 8)
  <2>1. UINT16_MAX # 0 => 2 * UINT16_MAX <= 2 * UINT16_MAX * UINT16_MAX
    BY SizeFacts
  <2>2. 8 * h <= SIZE_MAX
    BY SizesAssumption, DevicesAssumption, SizeFacts, WidthsAssumption, <2>1
  <2> QED
    BY <2>2, SizeFacts DEF IsLegal
<1>5. LegalRequests(<< <<1, 16>>, <<h * b, 2>> >> \o << <<h * b, 2>>, <<h, 8>> >>)
  BY <1>2, <1>3, <1>4, LegalTwo, LegalTogether
<1>6. cht_alloc(h, b) = << <<1, 16>>, <<h * b, 2>> >> \o << <<h * b, 2>>, <<h, 8>> >>
  BY DEF cht_alloc
<1> QED
  BY <1>5, <1>6

\* All that a network function that starts asks for is legal.
LEMMA StartRequestsLegal ==
  ASSUME NEW f \in NetworkFunctions, NEW c \in Nat \ {0}, c * 64 <= SIZE_MAX,
         NEW its \in Seq(ItemType), Starts(f, c, its)
  PROVE  LegalRequests(Requests(f, c, Read(f, c, its)))
<1> DEFINE v == Read(f, c, its)
<1>0. ValuesFit(f, c, v)
  BY DEF Starts
<1>1. \A name \in Names(f) :
        /\ Reader(f, name) = "size" => v[name] \in 0 .. MaxSize
        /\ Reader(f, name) = "u32"  => v[name] \in 0 .. UINT32_MAX
        /\ Reader(f, name) = "u16"  => v[name] \in 0 .. UINT16_MAX
  BY ValueRanges
<1>2. c \in Nat /\ c - 1 \in Nat /\ c * 64 <= SIZE_MAX
  OBVIOUS
<1> HIDE DEF v
<1>3. CASE f \in {"nop", "router"}
  <2>1. Requests(f, c, v) = <<>>
    BY <1>3 DEF Requests
  <2> QED
    BY <2>1 DEF LegalRequests, v
<1>4. CASE f = "dhcp"
  <2> DEFINE n1 == DhcpCapacity(v)
  <2>1. n1 \in 0 .. MaxSize
    <3> DEFINE asked == v["max number dhcp connections"]
               mask  == v["DHCP ipv4 mask"]
    <3>1. asked \in 0 .. MaxSize /\ mask \in 0 .. UINT32_MAX
      BY <1>1, <1>4 DEF Names, Reader
    <3>2. n1 = IF Usable(v) < asked THEN Usable(v) ELSE asked
      BY DEF DhcpCapacity
    <3>3. Usable(v) = ((UINT32_MAX - mask) - 4) % (SIZE_MAX + 1)
      BY DEF Usable, num_ipv4_addr_avail
    <3> HIDE DEF asked, mask, n1
    <3>4. Usable(v) \in Nat
      BY <3>1, <3>3, SizeFacts
    <3> QED
      BY <3>1, <3>2, <3>4, SizeFacts
  <2>2. Requests(f, c, v) = << <<n1, 4>> >> \o index_pool_alloc(n1) \o << <<n1, 6>> >> \o map_alloc(n1)
    BY <1>4 DEF Requests
  <2> HIDE DEF n1
  <2>3. LegalRequests(<< <<n1, 4>> >>) /\ LegalRequests(<< <<n1, 6>> >>)
    BY <2>1, LegalStructures, LegalOne
  <2>4. LegalRequests(Requests(f, c, v))
    BY <2>1, <2>2, <2>3, LegalStructures, LegalTogether
  <2> QED
    BY <2>4 DEF v
<1>5. CASE f \in {"firewall", "nat"}
  <2> DEFINE n1 == v["max flows"]
  <2>1. n1 \in 0 .. MaxSize
    BY <1>1, <1>5 DEF Names, Reader
  <2>2. Requests(f, c, v) = << <<1, IF f = "nat" THEN 40 ELSE 24>>, <<n1, 16>> >>
                            \o map_alloc(n1) \o index_pool_alloc(n1)
    BY <1>5 DEF Requests
  <2> HIDE DEF n1
  <2>3. LegalRequests(<< <<1, IF f = "nat" THEN 40 ELSE 24>>, <<n1, 16>> >>)
    <3>1. IsLegal(1, 40) /\ IsLegal(1, 24) /\ IsLegal(n1, 16)
      BY <2>1, LegalStructures
    <3>2. IsLegal(1, IF f = "nat" THEN 40 ELSE 24)
      BY <3>1
    <3> QED
      BY <3>1, <3>2, LegalTwo
  <2>4. LegalRequests(Requests(f, c, v))
    BY <2>1, <2>2, <2>3, LegalStructures, LegalTogether
  <2> QED
    BY <2>4 DEF v
<1>6. CASE f = "policer"
  <2> DEFINE n1 == v["max flows"]
  <2>1. n1 \in 0 .. MaxSize
    BY <1>1, <1>6 DEF Names, Reader
  <2>2. Requests(f, c, v) = << <<n1, 16>>, <<n1, 4>> >> \o map_alloc(n1) \o index_pool_alloc(n1)
    BY <1>6 DEF Requests
  <2> HIDE DEF n1
  <2>3. LegalRequests(<< <<n1, 16>>, <<n1, 4>> >>)
    <3>1. IsLegal(n1, 16) /\ IsLegal(n1, 4)
      BY <2>1, LegalStructures
    <3> QED
      BY <3>1, LegalTwo
  <2>4. LegalRequests(Requests(f, c, v))
    BY <2>1, <2>2, <2>3, LegalStructures, LegalTogether
  <2> QED
    BY <2>4 DEF v
<1>7. CASE f = "maglev"
  <2> DEFINE n1 == v["flow capacity"]
             h1 == v["cht height"]
             b1 == c - 1
  <2>1. n1 \in 0 .. MaxSize /\ h1 \in 0 .. UINT16_MAX
    BY <1>1, <1>7 DEF Names, Reader
  <2>2. b1 < h1
    BY <1>0, <1>7 DEF ValuesFit
  <2>3. Requests(f, c, v) = << <<1, 48>> >> \o map_alloc(n1) \o index_pool_alloc(n1)
                            \o << <<n1, 16>>, <<n1, 2>> >> \o index_pool_alloc(b1)
                            \o cht_alloc(h1, b1)
    BY <1>7 DEF Requests
  <2>4. b1 \in Nat /\ b1 * 64 <= SIZE_MAX /\ 64 <= SIZE_MAX
    BY <1>2, SizeFacts
  <2> HIDE DEF n1, h1, b1
  <2>5. LegalRequests(index_pool_alloc(b1)) /\ LegalRequests(cht_alloc(h1, b1))
    <3>1. IsLegal(1, 32) /\ IsLegal(b1, 8)
      BY <2>4, SizeFacts DEF IsLegal
    <3> QED
      BY <2>1, <2>2, <2>4, <3>1, LegalTwo, LegalTable DEF index_pool_alloc
  <2>6. LegalRequests(<< <<1, 48>> >>) /\ LegalRequests(<< <<n1, 16>>, <<n1, 2>> >>)
    <3>1. IsLegal(1, 48) /\ IsLegal(n1, 16) /\ IsLegal(n1, 2)
      BY <2>1, LegalStructures
    <3> QED
      BY <3>1, LegalOne, LegalTwo
  <2>7. LegalRequests(Requests(f, c, v))
    BY <2>1, <2>3, <2>5, <2>6, LegalStructures, LegalTogether
  <2> QED
    BY <2>7 DEF v
<1>8. CASE f = "bridge"
  <2> DEFINE n1 == v["capacity"]
  <2>1. n1 \in 0 .. MaxSize
    BY <1>1, <1>8 DEF Names, Reader
  <2>2. Requests(f, c, v) = << <<c, 1>>, <<1, 32>>, <<n1, 6>>, <<n1, 2>> >>
                            \o map_alloc(n1) \o index_pool_alloc(n1)
    BY <1>8 DEF Requests
  <2> HIDE DEF n1
  <2>3. IsLegal(c, 1)
    BY <1>2, SizeFacts DEF IsLegal
  <2>4. LegalRequests(<< <<c, 1>>, <<1, 32>>, <<n1, 6>>, <<n1, 2>> >>)
    <3>1. IsLegal(1, 32) /\ IsLegal(n1, 6) /\ IsLegal(n1, 2)
      BY <2>1, LegalStructures
    <3>2. LegalRequests(<< <<c, 1>>, <<1, 32>> >>) /\ LegalRequests(<< <<n1, 6>>, <<n1, 2>> >>)
      BY <2>3, <3>1, LegalTwo
    <3> QED
      BY <3>2, LegalFour
  <2>5. LegalRequests(Requests(f, c, v))
    BY <2>1, <2>2, <2>4, LegalStructures, LegalTogether
  <2> QED
    BY <2>5 DEF v
<1> QED
  BY <1>3, <1>4, <1>5, <1>6, <1>7, <1>8 DEF NetworkFunctions

\* Every step keeps the allocator's contract.
HeapInv == HeapOK(heap)

\* The requests of the operating system layer, of main and of the driver.
LEMMA DriverRequestsLegal ==
  /\ IsLegal(DevicesCount, 8) /\ IsLegal(DevicesCount, 64) /\ IsLegal(IXGBE_RING_SIZE, 16)
  /\ LegalRequests(<< <<DevicesCount, 16>>, <<DevicesCount, 6>>, <<DevicesCount, 6>> >>)
  /\ LegalRequests(AgentRequests(OutputsCount))
<1>0. /\ DevicesCount \in Nat /\ OutputsCount \in Nat /\ SIZE_MAX \in Nat
      /\ OutputsCount * 64 <= SIZE_MAX /\ DevicesCount * 64 <= SIZE_MAX
  BY DevicesAssumption, SizesAssumption, SizeFacts DEF OutputsCount
<1>1. \A s \in 0 .. 64 : IsLegal(DevicesCount, s) /\ IsLegal(OutputsCount, s)
  <2>1. ASSUME NEW s \in 0 .. 64, NEW k \in {DevicesCount, OutputsCount}
        PROVE  k * s <= k * 64
    BY <1>0
  <2> QED
    BY <1>0, <2>1 DEF IsLegal
<1>2. IsLegal(IXGBE_RING_SIZE, PACKET_BUFFER_SIZE) /\ IsLegal(IXGBE_RING_SIZE, 16)
  BY SizesAssumption, SizeFacts DEF IsLegal, IXGBE_RING_SIZE, PACKET_BUFFER_SIZE
<1>3. << <<DevicesCount, 16>>, <<DevicesCount, 6>>, <<DevicesCount, 6>> >>
        = << <<DevicesCount, 16>>, <<DevicesCount, 6>> >> \o << <<DevicesCount, 6>> >>
  OBVIOUS
<1>4. LegalRequests(<< <<DevicesCount, 16>>, <<DevicesCount, 6>>, <<DevicesCount, 6>> >>)
  <2>1. IsLegal(DevicesCount, 16) /\ IsLegal(DevicesCount, 6)
    BY <1>1
  <2>2. LegalRequests(<< <<DevicesCount, 16>>, <<DevicesCount, 6>> >>)
    BY <2>1, LegalTwo
  <2> QED
    BY <1>3, <2>1, <2>2, LegalMore
<1>5. AgentRequests(OutputsCount)
        = << <<IXGBE_RING_SIZE, PACKET_BUFFER_SIZE>>, <<OutputsCount, 8>> >>
          \o << <<OutputsCount, TRANSMIT_HEAD_MULTIPLIER * 4>>, <<OutputsCount, 8>> >>
          \o << <<OutputsCount, 8>> >>
  BY DEF AgentRequests
<1>6. IsLegal(OutputsCount, TRANSMIT_HEAD_MULTIPLIER * 4) /\ IsLegal(OutputsCount, 8)
  BY <1>1 DEF TRANSMIT_HEAD_MULTIPLIER
<1>7. LegalRequests(AgentRequests(OutputsCount))
  BY <1>2, <1>5, <1>6, LegalTwo, LegalOne, LegalTogether
<1> QED
  BY <1>1, <1>2, <1>4, <1>7

\* At the start nothing is allocated.
LEMMA EmptyHeapOK == HeapOK(EmptyHeap)
<1>1. OS_MEMORY_SIZE \in Nat
  BY MemoryAssumption
<1>2. Len(EmptyHeap.blocks) = 0 /\ EmptyHeap.blocks = <<>>
  BY DEF EmptyHeap
<1>3. KeepsContract(EmptyHeap)
  BY <1>2 DEF KeepsContract
<1>4. EmptyHeap \in [used : 0 .. OS_MEMORY_SIZE, blocks : Seq(BlockType), halted : BOOLEAN]
  BY <1>1 DEF EmptyHeap
<1> QED
  BY <1>2, <1>3, <1>4 DEF HeapOK

\* Whatever is allocated and in whatever order, the heap stays as it should.
LEMMA HeapInvariant == Spec => []HeapInv
<1>1. Init => HeapInv
  BY EmptyHeapOK DEF Init, HeapInv
<1>2. HeapInv /\ WiringInv /\ [Next]_vars => HeapInv'
  <2> SUFFICES ASSUME HeapInv, WiringInv, [Next]_vars
               PROVE  HeapInv'
    OBVIOUS
  <2>1. CASE heap' = heap
    BY <2>1 DEF HeapInv
  <2>2. CASE OsInit
    <3>1. heap' = os_memory_alloc(heap, DevicesCount, 8)
      BY <2>2 DEF OsInit, Allocated, os_pci_enumerate
    <3> QED
      BY <3>1, DriverRequestsLegal, AllocKeeps DEF HeapInv
  <2>3. CASE NfInit
    <3> DEFINE rs == Requests(nf, DevicesCount, Read(nf, DevicesCount, items))
    <3>1. heap' = heap \/ (heap' = AllocAll(heap, rs) /\ Starts(nf, DevicesCount, items))
      BY <2>3 DEF NfInit, Allocated, nf_init
    <3>2. Starts(nf, DevicesCount, items) => LegalRequests(rs)
      BY DevicesAssumption, SizesAssumption, StartRequestsLegal DEF WiringInv, StartOK
    <3> HIDE DEF rs
    <3> QED
      BY <2>1, <3>1, <3>2, AllocAllKeeps DEF HeapInv
  <2>4. CASE AllocateDevices
    <3>1. heap' = AllocAll(heap, << <<DevicesCount, 16>>, <<DevicesCount, 6>>,
                                    <<DevicesCount, 6>> >>)
      BY <2>4 DEF AllocateDevices, Allocated
    <3> QED
      BY <3>1, DriverRequestsLegal, AllocAllKeeps DEF HeapInv
  <2>5. CASE SetPromiscuous
    <3>1. heap' = heap \/ heap' = os_memory_alloc(heap, DevicesCount, 64)
      BY <2>5 DEF SetPromiscuous, Allocated, agents_alloc
    <3> QED
      BY <2>1, <3>1, DriverRequestsLegal, AllocKeeps DEF HeapInv
  <2>6. CASE Agent
    <3>1. heap' = heap \/ heap' = AllocAll(heap, AgentRequests(OutputsCount))
      BY <2>6 DEF Agent, Allocated, Fatal
    <3> QED
      BY <2>1, <3>1, DriverRequestsLegal, AllocAllKeeps DEF HeapInv
  <2>7. CASE AddOutput
    <3>1. heap' = heap \/ heap' = os_memory_alloc(heap, IXGBE_RING_SIZE, 16)
      BY <2>7 DEF AddOutput, Allocated, Fatal, descriptor_ring_alloc
    <3> QED
      BY <2>1, <3>1, DriverRequestsLegal, AllocKeeps DEF HeapInv
  <2>8. CASE UNCHANGED setupVars
    BY <2>1, <2>8 DEF setupVars
  <2>9. CASE OsFails \/ WrongDevice \/ WrongEeprom \/ GivesUp
    BY <2>1, <2>9 DEF OsFails, WrongDevice, WrongEeprom, GivesUp, TimesOut, Fatal
  <2>10. CASE PciSetup \/ DisableReceive \/ ReceiveDisabled \/ MasterDisable \/ MasterDisabled
              \/ MasterTimesOut \/ NothingPending \/ Flush \/ Reset \/ EepromRead \/ Configure
    <3>1. CASE PciSetup \/ DisableReceive \/ ReceiveDisabled \/ MasterDisable \/ MasterDisabled
      BY <2>1, <3>1 DEF PciSetup, DisableReceive, ReceiveDisabled, MasterDisable, MasterDisabled
    <3>2. CASE MasterTimesOut \/ NothingPending \/ Flush \/ Reset \/ EepromRead \/ Configure
      BY <2>1, <3>2 DEF MasterTimesOut, NothingPending, Flush, Reset, EepromRead, Configure
    <3> QED
      BY <2>10, <3>1, <3>2
  <2>11. CASE SkipInput \/ OutputEnabled \/ SetInput \/ InputEnabled \/ DataPathEmpty \/ FinishInput
    BY <2>1, <2>11 DEF SkipInput, OutputEnabled, SetInput, InputEnabled, DataPathEmpty,
                       FinishInput, Fatal
  <2>12. ASSUME NEW d \in Devices, HardwareCompletes(d)
         PROVE  HeapInv'
    BY <2>1, <2>12 DEF HardwareCompletes
  <2>13. ASSUME NEW p, NEW asked, NEW fl, Handled(p, asked, fl)
         PROVE  HeapInv'
    BY <2>8, <2>13 DEF Handled
  <2>15. CASE Undefined
    BY <2>1, <2>15 DEF Undefined
  <2>14. CASE SetupNext
    BY <2>5, <2>6, <2>7, <2>9, <2>10, <2>11, <2>12, <2>14 DEF SetupNext
  <2> QED
    BY <2>2, <2>3, <2>4, <2>8, <2>9, <2>13, <2>14, <2>15, NextSteps DEF vars
<1> QED
  BY <1>1, <1>2, WiringInvariant, PTL DEF Spec

\* For every size of the region and of its huge page, every configuration and
\* every number of devices: blocks lie in the region, one after another, have
\* room for what was asked for, are aligned, and are contiguous for a device.
THEOREM AllocatorKeepsContract == Spec => []AllocationsKeepTheirContract
<1>1. HeapInv => AllocationsKeepTheirContract
  BY DEF HeapInv, HeapOK, AllocationsKeepTheirContract
<1> QED
  BY <1>1, HeapInvariant, PTL

-----------------------------------------------------------------------------
(* A network function starts only when it can work.                        *)

\* The first item of a name is the one that is read.
LEMMA FirstItemCounts ==
  ASSUME NEW its \in Seq(ItemType), NEW i \in 1 .. Len(its),
         \A k \in 1 .. i - 1 : its[k].name # its[i].name
  PROVE  os_config_try_get(its, its[i].name) = its[i].value
<1> DEFINE name == its[i].name
           IsFirst(j) == its[j].name = name /\ \A k \in 1 .. j - 1 : its[k].name # name
           first == CHOOSE j \in 1 .. Len(its) : IsFirst(j)
<1>1. IsFirst(i)
  OBVIOUS
<1>2. first \in 1 .. Len(its) /\ IsFirst(first)
  <2> HIDE DEF IsFirst
  <2> QED
    BY <1>1
<1>3. os_config_try_get(its, name) = its[first].value
  BY DEF os_config_try_get
<1> HIDE DEF first
<1>4. first = i
  <2>1. ~ (first < i) /\ ~ (i < first)
    BY <1>1, <1>2
  <2> QED
    BY <1>2, <2>1
<1> QED
  BY <1>3, <1>4

\* Every getter accepts the value that is there, or none.
LEMMA ReadValue ==
  ASSUME NEW f \in NetworkFunctions, NEW c, NEW its, NEW name \in Names(f),
         Read(f, c, its)[name] # NoValue
  PROVE  Read(f, c, its)[name] = os_config_try_get(its, name)
<1> DEFINE value == os_config_try_get(its, name)
<1>1. \A max : os_config_get(its, name, 0, max) \in {value, NoValue}
  BY DEF os_config_get
<1>2. Reader(f, name) \in {"device", "size", "u64", "u32", "u16", "time"}
  BY DEF Reader
<1> HIDE DEF value
<1>3. \E max : Read(f, c, its)[name] = os_config_get(its, name, 0, max)
  <2> HIDE DEF Names, Reader
  <2>1. CASE Reader(f, name) = "device"
    BY <2>1 DEF Read, os_config_get_device
  <2>2. CASE Reader(f, name) = "size"
    BY <2>2 DEF Read, os_config_get_size
  <2>3. CASE Reader(f, name) = "u64"
    BY <2>3 DEF Read, os_config_get_u64
  <2>4. CASE Reader(f, name) = "u32"
    BY <2>4 DEF Read, os_config_get_u32
  <2>5. CASE Reader(f, name) = "u16"
    BY <2>5 DEF Read, os_config_get_u16
  <2>6. CASE Reader(f, name) = "time"
    BY <2>6 DEF Read, os_config_get_time, TIME_MIN
  <2> QED
    BY <1>2, <2>1, <2>2, <2>3, <2>4, <2>5, <2>6
<1> QED
  BY <1>1, <1>3 DEF value

\* The structures of a network function that starts are legal.
LEMMA StartIsLegal ==
  ASSUME NEW f \in NetworkFunctions, NEW c \in Nat \ {0}, c * 64 <= SIZE_MAX,
         NEW its \in Seq(ItemType), Starts(f, c, its)
  PROVE  RequestsAreLegal(f, c, Read(f, c, its))
<1> DEFINE v == Read(f, c, its)
<1>1. LegalRequests(Requests(f, c, v))
  BY StartRequestsLegal
<1>2. ASSUME NEW name \in DOMAIN v \cap {"max flows", "flow capacity", "capacity"}
      PROVE  v[name] * 64 <= SIZE_MAX
  <2>1. name \in Names(f) /\ Reader(f, name) = "size"
    <3>1. DOMAIN v = Names(f)
      BY DEF Read
    <3> QED
      BY <3>1 DEF Reader
  <2> DEFINE size == v[name]
  <2>2. size \in 0 .. MaxSize
    BY <2>1, ValueRanges
  <2> HIDE DEF v, size
  <2>3. size * 64 <= SIZE_MAX
    BY <2>2, SizeHasRoom
  <2> QED
    BY <2>3 DEF size
<1> HIDE DEF v
<1>3. RequestsAreLegal(f, c, v)
  BY <1>1, <1>2 DEF RequestsAreLegal, LegalRequests, IsLegal
<1> QED
  BY <1>3 DEF v

\* For every configuration there may be: the network function only starts if
\* its structures get sizes that they can have, its devices exist, and the
\* values it works with are the first ones given.
THEOREM StartsSoundly == Spec => []StartsOnlyWhenSound
<1>1. StartsOnlyWhenSound
  <2> SUFFICES ASSUME NEW candidate \in Candidates, NEW c \in 1 .. 3,
                      Starts(candidate[1], c, candidate[2])
               PROVE  LET f == candidate[1]
                          v == Read(f, c, candidate[2])
                      IN  /\ RequestsAreLegal(f, c, v)
                          /\ f = "nop" => v["wan device"] < c /\ v["lan device"] < c
                                          /\ v["wan device"] # v["lan device"]
                          /\ \A i \in 1 .. Len(candidate[2]) :
                               /\ candidate[2][i].name \in Names(f)
                               /\ \A k \in 1 .. i - 1 :
                                    candidate[2][k].name # candidate[2][i].name
                               => v[candidate[2][i].name] = candidate[2][i].value
    BY DEF StartsOnlyWhenSound
  <2> DEFINE f == candidate[1]
             its == candidate[2]
             v == Read(f, c, its)
  <2>1. f \in NetworkFunctions /\ its \in Seq(ItemType)
    BY ConfigsAssumption
  <2>2. c \in Nat \ {0} /\ c * 64 <= SIZE_MAX
    BY SizesAssumption, SizeFacts DEF IXGBE_RING_SIZE, PACKET_BUFFER_SIZE
  <2>3. RequestsAreLegal(f, c, v)
    BY <2>1, <2>2, StartIsLegal
  <2>4. DOMAIN v = Names(f) /\ \A name \in DOMAIN v : v[name] # NoValue
    BY DEF Read, Starts
  <2> HIDE DEF f, its
  <2>5. ASSUME f = "nop"
        PROVE  v["wan device"] < c /\ v["lan device"] < c /\ v["wan device"] # v["lan device"]
    <3>1. v["wan device"] \in 0 .. c - 1 /\ v["lan device"] \in 0 .. c - 1
      <4>1. \A name \in {"wan device", "lan device"} :
              name \in Names(f) /\ Reader(f, name) = "device"
        BY <2>5 DEF Names, Reader
      <4> QED
        BY <2>1, <2>2, <4>1, ValueRanges DEF f, its
    <3>2. v["wan device"] # v["lan device"]
      BY <2>5 DEF Starts, ValuesFit, f, its
    <3> DEFINE w == v["wan device"]
               l == v["lan device"]
    <3> HIDE DEF v
    <3>3. w \in 0 .. c - 1 /\ l \in 0 .. c - 1
      BY <3>1
    <3> HIDE DEF w, l
    <3>4. w < c /\ l < c
      BY <2>2, <3>3
    <3> QED
      BY <3>2, <3>4 DEF w, l
  <2>6. ASSUME NEW i \in 1 .. Len(its), its[i].name \in Names(f),
               \A k \in 1 .. i - 1 : its[k].name # its[i].name
        PROVE  v[its[i].name] = its[i].value
    BY <2>1, <2>4, <2>6, FirstItemCounts, ReadValue
  <2> QED
    BY <2>3, <2>5, <2>6 DEF f, its
<1> QED
  BY <1>1, PTL

-----------------------------------------------------------------------------
(* The driver and the data sheet.                                          *)

\* What decides whether a device receives.
ReceiveFields ==
  {"RXCTRL.RXEN", "RXDCTL.ENABLE", "RDBA", "RDT.RDT", "FCTRL.UPE", "FCTRL.MPE",
   "SECRXSTAT.SECRX_RDY"}

\* The registers are those of the data sheet.
AreRegisters(r) ==
  /\ r = [f \in Fields |-> r[f]]
  /\ \A f \in Fields : r[f] = [i \in DOMAIN PowerOn[f] |-> r[f][i]]

IsDevice(e) ==
  e = [regs |-> e.regs, due |-> e.due, refused |-> e.refused] /\ AreRegisters(e.regs)

\* Nobody has written to the device.
IsFresh(e) == e.regs = PowerOn /\ e.due = {}

\* While a previous driver's work is undone.
Resetting == {"disable_receive", "await_receive_disabled", "master_disable",
              "await_master", "check_pending", "flush", "reset"}

IsResetting(e) ==
  /\ e.regs["STATUS.PCIe_Master_Enable_Status"][0] \in {0, 1}
  /\ \A w \in e.due :
       w.field \in {"RXDCTL.ENABLE", "STATUS.PCIe_Master_Enable_Status",
                    "DEVICE_STATUS.Transaction_Pending"} => w.value = 0

\* A device that receives was set up for it, whatever is still due.
FiltersAreOpen(e) == e.regs["FCTRL.UPE"][0] = 1 /\ e.regs["FCTRL.MPE"][0] = 1

HasReceiveRing(e) == e.regs["RDBA"][0] # X

QueueIsReady(e) ==
  e.regs["RXDCTL.ENABLE"][0] = 1 /\ e.regs["RDT.RDT"][0] = IXGBE_RING_SIZE - 1

ReceivesSafely(e) ==
  /\ \A w \in e.due :
       w.field \in ReceiveFields =>
         w.field \in {"RXDCTL.ENABLE", "SECRXSTAT.SECRX_RDY"} /\ w.value = 1
  /\ e.regs["RXCTRL.RXEN"][0] # 0 =>
       /\ FiltersAreOpen(e) /\ HasReceiveRing(e) /\ QueueIsReady(e)
       /\ e.regs["SECRXSTAT.SECRX_RDY"][0] = 1

\* A queue is not enabled, and will not be.
ReceiveIsOff(e) ==
  e.regs["RXDCTL.ENABLE"][0] = 0 /\ \A w \in e.due : w.field # "RXDCTL.ENABLE"

TransmitIsOff(e, q) ==
  /\ q < TransmitQueuesCount => e.regs["TXDCTL.ENABLE"][q] = 0
  /\ \A w \in e.due : w.field = "TXDCTL.ENABLE" => w.index # q

\* Which devices are at which stage.
NotYet(d)   == at \in BeforeDevices \/ (at \in DevicePlaces /\ d > n) \/ (at = "pci" /\ d = n)
Undergoes(d) == at \in Resetting /\ d = n
WasReset(d) ==
  \/ at \in DevicePlaces /\ d < n
  \/ at \in {"await_eeprom", "await_dma", "promiscuous"} /\ d = n
  \/ at \in AgentPlaces \cup {"run"}
IsConfigured(d) == (at \in DevicePlaces /\ d < n) \/ at \in AgentPlaces \cup {"run"}
HasQueue(d) ==
  HasInput(d) \/ (at \in {"await_input", "await_empty", "finish_input"} /\ d = n)
MayReceive(d) == HasInput(d) \/ (at = "finish_input" /\ d = n)
HasOutput(a, d) == IsOutput(a, d) \/ (at = "await_output" /\ a = n /\ d = m)

StageOK(d) ==
  /\ NotYet(d) => IsFresh(dev[d])
  /\ Undergoes(d) => IsResetting(dev[d])
  /\ at \notin {"exit", "fatal"} /\ ~ Undergoes(d) => ReceivesSafely(dev[d])
  /\ WasReset(d) /\ ~ MayReceive(d) => dev[d].regs["RXCTRL.RXEN"][0] = 0
  /\ WasReset(d) /\ ~ HasQueue(d) => ReceiveIsOff(dev[d])
  /\ IsConfigured(d) => FiltersAreOpen(dev[d])
  /\ WasReset(d) /\ HasQueue(d) => HasReceiveRing(dev[d])
  /\ \A a \in Devices \ {d} : WasReset(d) /\ ~ HasOutput(a, d) =>
                                TransmitIsOff(dev[d], QueueIndex(a, d))

PlaceOK ==
  /\ at = "master_disable" \/ (at \in {"disable_receive", "await_receive_disabled"} /\ m > 0)
       => dev[n].regs["RXDCTL.ENABLE"][0] = 0
  /\ at = "flush" => dev[n].regs["DEVICE_STATUS.Transaction_Pending"][0] = 0
  /\ at = "await_empty" => QueueIsReady(dev[n])

DevicesInv ==
  /\ DOMAIN dev = Devices
  /\ \A d \in Devices : IsDevice(dev[d]) /\ StageOK(d)
  /\ PlaceOK

-----------------------------------------------------------------------------
(* The registers that there are.                                           *)

AllRows == DeviceTable \cup PciReset

\* A field is described once.
LEMMA OneRowPerField ==
  ASSUME NEW r \in AllRows, NEW s \in AllRows, r.field = s.field
  PROVE  r = s
BY SMTT(60)
   DEF AllRows, DeviceTable, GeneralReset, EepromReset, FilterReset, ArbiterReset, MacReset,
       TransmitQueueReset, ReceiveQueueReset, ReceivePathReset, ControlReset, PciReset, Row

\* There is at least one register of each field.
LEMMA RowsHaveRegisters ==
  ASSUME NEW r \in AllRows
  PROVE  r.count \in Nat \ {0}
<1>1. r.count \in {1, TableSize, ReceiveQueuesCount, TransmitQueuesCount}
  BY SMTT(60)
     DEF AllRows, DeviceTable, GeneralReset, EepromReset, FilterReset, ArbiterReset, MacReset,
         TransmitQueueReset, ReceiveQueueReset, ReceivePathReset, ControlReset, PciReset, Row
<1> QED
  BY <1>1, QueuesAssumption, TableAssumption

\* The registers of a table are those of its rows.
LEMMA TableRegisters ==
  ASSUME NEW table, table \subseteq AllRows, NEW row \in table
  PROVE  /\ row.field \in DOMAIN FromTable(table)
         /\ FromTable(table)[row.field] = [i \in 0 .. row.count - 1 |-> row.value]
<1> DEFINE chosen(f) == CHOOSE r \in table : r.field = f
<1>1. chosen(row.field) \in table /\ chosen(row.field).field = row.field
  OBVIOUS
<1>2. chosen(row.field) = row
  BY <1>1, OneRowPerField
<1>3. FromTable(table)
        = [f \in {r.field : r \in table} |-> [i \in 0 .. chosen(f).count - 1 |-> chosen(f).value]]
  BY DEF FromTable
<1> HIDE DEF chosen
<1> QED
  BY <1>2, <1>3

\* And it has no others.
LEMMA TableFields ==
  ASSUME NEW table, NEW f \in DOMAIN FromTable(table)
  PROVE  \E row \in table : row.field = f
BY DEF FromTable

\* A reset gives values to registers that there are, and a device has as many
\* of them as when it got power.
LEMMA RegisterShapes ==
  /\ IsDevice([regs |-> PowerOn, due |-> {}, refused |-> {}])
  /\ DOMAIN DeviceReset \subseteq Fields
  /\ \A f \in DOMAIN DeviceReset : DeviceReset[f] = PowerOn[f]
  /\ \A f \in Fields : 0 \in DOMAIN PowerOn[f]
<1>1. DeviceTable \subseteq AllRows /\ PciReset \subseteq AllRows /\ AllRows \subseteq AllRows
  BY DEF AllRows
<1>2. PowerOn = FromTable(AllRows) /\ DeviceReset = FromTable(DeviceTable)
  BY DEF PowerOn, DeviceReset, AllRows
<1>3. ASSUME NEW f \in DOMAIN DeviceReset
      PROVE  f \in Fields /\ DeviceReset[f] = PowerOn[f]
  <2>1. PICK row \in DeviceTable : row.field = f
    BY <1>2, TableFields
  <2>2. row \in AllRows
    BY <1>1
  <2>3. DeviceReset[f] = [i \in 0 .. row.count - 1 |-> row.value]
    BY <1>1, <1>2, <2>1, TableRegisters
  <2>4. f \in DOMAIN PowerOn /\ PowerOn[f] = [i \in 0 .. row.count - 1 |-> row.value]
    BY <1>1, <1>2, <2>1, <2>2, TableRegisters
  <2> QED
    BY <2>3, <2>4 DEF Fields
<1>4. ASSUME NEW f \in Fields
      PROVE  /\ PowerOn[f] = [i \in DOMAIN PowerOn[f] |-> PowerOn[f][i]]
             /\ 0 \in DOMAIN PowerOn[f]
  <2>1. PICK row \in AllRows : row.field = f
    BY <1>2, TableFields DEF Fields
  <2>2. PowerOn[f] = [i \in 0 .. row.count - 1 |-> row.value]
    BY <1>1, <1>2, <2>1, TableRegisters
  <2>3. row.count \in Nat \ {0}
    BY RowsHaveRegisters
  <2> QED
    BY <2>2, <2>3
<1>5. PowerOn = [f \in Fields |-> PowerOn[f]]
  BY DEF PowerOn, FromTable, Fields
<1> QED
  BY <1>3, <1>4, <1>5 DEF IsDevice, AreRegisters

\* The values after a reset that matter here.
LEMMA ResetValues ==
  /\ {"RXCTRL.RXEN", "RXDCTL.ENABLE", "TXDCTL.ENABLE", "STATUS.PCIe_Master_Enable_Status",
      "RDBA", "RDT.RDT", "FCTRL.UPE", "FCTRL.MPE", "SECRXSTAT.SECRX_RDY"}
       \subseteq DOMAIN DeviceReset
  /\ DeviceReset["RXCTRL.RXEN"][0] = 0 /\ DeviceReset["RXDCTL.ENABLE"][0] = 0
  /\ DeviceReset["STATUS.PCIe_Master_Enable_Status"][0] = 1
  /\ \A q \in 0 .. TransmitQueuesCount - 1 : DeviceReset["TXDCTL.ENABLE"][q] = 0
  /\ DOMAIN PowerOn["TXDCTL.ENABLE"] = 0 .. TransmitQueuesCount - 1
  /\ DOMAIN PowerOn["RXDCTL.ENABLE"] = 0 .. ReceiveQueuesCount - 1
  /\ {"DEVICE_STATUS.Transaction_Pending"} \subseteq Fields
<1>1. /\ {Row("RXCTRL.RXEN", 1, 0), Row("RXDCTL.ENABLE", ReceiveQueuesCount, 0),
          Row("TXDCTL.ENABLE", TransmitQueuesCount, 0),
          Row("STATUS.PCIe_Master_Enable_Status", 1, 1), Row("RDBA", ReceiveQueuesCount, X),
          Row("RDT.RDT", ReceiveQueuesCount, 0), Row("FCTRL.UPE", 1, 0), Row("FCTRL.MPE", 1, 0),
          Row("SECRXSTAT.SECRX_RDY", 1, 0)} \subseteq DeviceTable
      /\ Row("DEVICE_STATUS.Transaction_Pending", 1, 0) \in PciReset
  BY DEF DeviceTable, GeneralReset, ReceiveQueueReset, TransmitQueueReset, ReceivePathReset,
         ControlReset, PciReset
<1>2. \A f, count, value : /\ Row(f, count, value).field = f
                           /\ Row(f, count, value).count = count
                           /\ Row(f, count, value).value = value
  BY DEF Row
<1>3. ASSUME NEW f, NEW count, NEW value, Row(f, count, value) \in DeviceTable
      PROVE  /\ f \in DOMAIN DeviceReset /\ DOMAIN DeviceReset[f] = 0 .. count - 1
             /\ \A i \in 0 .. count - 1 : DeviceReset[f][i] = value
  <2>1. DeviceTable \subseteq AllRows
    BY DEF AllRows
  <2>2. f \in DOMAIN DeviceReset /\ DeviceReset[f] = [i \in 0 .. count - 1 |-> value]
    BY <1>2, <1>3, <2>1, TableRegisters DEF DeviceReset
  <2> QED
    BY <2>2
<1>4. "DEVICE_STATUS.Transaction_Pending" \in Fields
  <2> DEFINE row == Row("DEVICE_STATUS.Transaction_Pending", 1, 0)
  <2>1. row \in AllRows /\ AllRows \subseteq AllRows
    BY <1>1 DEF AllRows
  <2>2. row.field \in DOMAIN FromTable(AllRows)
    BY <2>1, TableRegisters
  <2> QED
    BY <1>2, <2>2 DEF Fields, PowerOn, AllRows
<1>5. /\ 0 \in 0 .. 1 - 1 /\ 0 \in 0 .. ReceiveQueuesCount - 1
  BY QueuesAssumption
<1>6. /\ "RXCTRL.RXEN" \in DOMAIN DeviceReset
      /\ DeviceReset["RXCTRL.RXEN"][0] = 0
  <2>1. Row("RXCTRL.RXEN", 1, 0) \in DeviceTable
    BY <1>1
  <2> QED
    BY <1>3, <1>5, <2>1
<1>7. /\ "FCTRL.UPE" \in DOMAIN DeviceReset
      /\ DeviceReset["FCTRL.UPE"][0] = 0
  <2>1. Row("FCTRL.UPE", 1, 0) \in DeviceTable
    BY <1>1
  <2> QED
    BY <1>3, <1>5, <2>1
<1>8. /\ "FCTRL.MPE" \in DOMAIN DeviceReset
      /\ DeviceReset["FCTRL.MPE"][0] = 0
  <2>1. Row("FCTRL.MPE", 1, 0) \in DeviceTable
    BY <1>1
  <2> QED
    BY <1>3, <1>5, <2>1
<1>9. /\ "SECRXSTAT.SECRX_RDY" \in DOMAIN DeviceReset
      /\ DeviceReset["SECRXSTAT.SECRX_RDY"][0] = 0
  <2>1. Row("SECRXSTAT.SECRX_RDY", 1, 0) \in DeviceTable
    BY <1>1
  <2> QED
    BY <1>3, <1>5, <2>1
<1>10. /\ "STATUS.PCIe_Master_Enable_Status" \in DOMAIN DeviceReset
      /\ DeviceReset["STATUS.PCIe_Master_Enable_Status"][0] = 1
  <2>1. Row("STATUS.PCIe_Master_Enable_Status", 1, 1) \in DeviceTable
    BY <1>1
  <2> QED
    BY <1>3, <1>5, <2>1
<1>11. /\ "RDT.RDT" \in DOMAIN DeviceReset
      /\ DOMAIN DeviceReset["RDT.RDT"] = 0 .. ReceiveQueuesCount - 1
      /\ \A i \in 0 .. ReceiveQueuesCount - 1 : DeviceReset["RDT.RDT"][i] = 0
  <2>1. Row("RDT.RDT", ReceiveQueuesCount, 0) \in DeviceTable
    BY <1>1
  <2> QED
    BY <1>3, <1>5, <2>1
<1>12. /\ "RXDCTL.ENABLE" \in DOMAIN DeviceReset
      /\ DOMAIN DeviceReset["RXDCTL.ENABLE"] = 0 .. ReceiveQueuesCount - 1
      /\ \A i \in 0 .. ReceiveQueuesCount - 1 : DeviceReset["RXDCTL.ENABLE"][i] = 0
  <2>1. Row("RXDCTL.ENABLE", ReceiveQueuesCount, 0) \in DeviceTable
    BY <1>1
  <2> QED
    BY <1>3, <1>5, <2>1
<1>13. /\ "RDBA" \in DOMAIN DeviceReset
      /\ DOMAIN DeviceReset["RDBA"] = 0 .. ReceiveQueuesCount - 1
      /\ \A i \in 0 .. ReceiveQueuesCount - 1 : DeviceReset["RDBA"][i] = X
  <2>1. Row("RDBA", ReceiveQueuesCount, X) \in DeviceTable
    BY <1>1
  <2> QED
    BY <1>3, <1>5, <2>1
<1>14. /\ "TXDCTL.ENABLE" \in DOMAIN DeviceReset
      /\ DOMAIN DeviceReset["TXDCTL.ENABLE"] = 0 .. TransmitQueuesCount - 1
      /\ \A i \in 0 .. TransmitQueuesCount - 1 : DeviceReset["TXDCTL.ENABLE"][i] = 0
  <2>1. Row("TXDCTL.ENABLE", TransmitQueuesCount, 0) \in DeviceTable
    BY <1>1
  <2> QED
    BY <1>3, <1>5, <2>1
<1>15. /\ DOMAIN PowerOn["TXDCTL.ENABLE"] = 0 .. TransmitQueuesCount - 1
       /\ DOMAIN PowerOn["RXDCTL.ENABLE"] = 0 .. ReceiveQueuesCount - 1
  BY <1>12, <1>14, RegisterShapes
<1>16. /\ DeviceReset["RXCTRL.RXEN"][0] = 0 /\ DeviceReset["RXDCTL.ENABLE"][0] = 0
       /\ DeviceReset["STATUS.PCIe_Master_Enable_Status"][0] = 1
       /\ \A q \in 0 .. TransmitQueuesCount - 1 : DeviceReset["TXDCTL.ENABLE"][q] = 0
  BY <1>5, <1>6, <1>10, <1>12, <1>14
<1> QED
  BY <1>4, <1>6, <1>7, <1>8, <1>9, <1>10, <1>11, <1>12, <1>13, <1>14, <1>15, <1>16
-----------------------------------------------------------------------------
(* What one write does.                                                    *)

\* One register gets a value.
LEMMA PutPuts ==
  ASSUME NEW r, AreRegisters(r), NEW g, NEW j, NEW v
  PROVE  /\ AreRegisters(Put(r, g, j, v))
         /\ \A f \in Fields : \A i \in DOMAIN PowerOn[f] :
              Put(r, g, j, v)[f][i] = IF f = g /\ i = j THEN v ELSE r[f][i]
<1> DEFINE s == [r EXCEPT ![g][j] = v]
<1>1. s = [f \in Fields |-> IF f = g THEN [r[f] EXCEPT ![j] = v] ELSE r[f]]
  BY DEF AreRegisters
<1>2. ASSUME NEW f \in Fields
      PROVE  s[f] = [i \in DOMAIN PowerOn[f] |-> IF f = g /\ i = j THEN v ELSE r[f][i]]
  <2>1. CASE f = g
    <3>1. s[f] = [r[f] EXCEPT ![j] = v]
      BY <1>1, <2>1
    <3>2. r[f] = [i \in DOMAIN PowerOn[f] |-> r[f][i]]
      BY DEF AreRegisters
    <3> HIDE DEF s
    <3> QED
      BY <2>1, <3>1, <3>2
  <2>2. CASE f # g
    <3>1. s[f] = r[f] /\ r[f] = [i \in DOMAIN PowerOn[f] |-> r[f][i]]
      BY <1>1, <2>2 DEF AreRegisters
    <3> HIDE DEF s
    <3> QED
      BY <2>2, <3>1
  <2> QED
    BY <2>1, <2>2
<1>3. s = Put(r, g, j, v)
  BY DEF Put
<1> HIDE DEF s
<1>4. s = [f \in Fields |-> s[f]]
  BY <1>1
<1>5. \A f \in Fields : s[f] = [i \in DOMAIN PowerOn[f] |-> s[f][i]]
  BY <1>2
<1>6. \A f \in Fields : \A i \in DOMAIN PowerOn[f] :
        s[f][i] = IF f = g /\ i = j THEN v ELSE r[f][i]
  BY <1>2, ZenonT(30)
<1>7. AreRegisters(s)
  BY <1>4, <1>5 DEF AreRegisters
<1> QED
  BY <1>3, <1>6, <1>7

\* The cases of a write.
LEMMA WrittenIs ==
  ASSUME NEW r, NEW w
  PROVE  /\ Is(w, "CTRL.RST", 1) =>
              Written(r, w) = [f \in DOMAIN r |-> IF f \in DOMAIN DeviceReset
                                                  THEN DeviceReset[f] ELSE r[f]]
         /\ ~ Is(w, "CTRL.RST", 1) /\ Is(w, "DMATXCTL.TE", 1) =>
              Written(r, w) = Put(Put(r, "DMATXCTL.TE", 0, 1), "TXDCTL.ENABLE", 0, 1)
         /\ ~ Is(w, "CTRL.RST", 1) /\ ~ Is(w, "DMATXCTL.TE", 1) /\ w.field \in Delayed =>
              Written(r, w) = r
         /\ ~ Is(w, "CTRL.RST", 1) /\ ~ Is(w, "DMATXCTL.TE", 1) /\ w.field \notin Delayed =>
              Written(r, w) = Put(r, w.field, w.index, Kept(w))
BY DEF Written, Is, Delayed

\* The value of a register after a write.
ValueAfter(r, w, f, i) ==
  IF Is(w, "DMATXCTL.TE", 1)
  THEN IF f \in {"DMATXCTL.TE", "TXDCTL.ENABLE"} /\ i = 0 THEN 1 ELSE r[f][i]
  ELSE IF w.field \in Delayed THEN r[f][i]
  ELSE IF f = w.field /\ i = w.index THEN Kept(w) ELSE r[f][i]

\* What a write does that resets nothing.
LEMMA AfterWrite ==
  ASSUME NEW e, IsDevice(e), NEW w, ~ Is(w, "CTRL.RST", 1)
  PROVE  /\ IsDevice(WriteTo(e, w))
         /\ WriteTo(e, w).due = e.due \cup Due(w)
         /\ \A f \in Fields : \A i \in DOMAIN PowerOn[f] :
              WriteTo(e, w).regs[f][i] = ValueAfter(e.regs, w, f, i)
<1> DEFINE g == WriteTo(e, w)
           r == e.regs
           s == Written(r, w)
           one == Put(r, "DMATXCTL.TE", 0, 1)
<1>1. g = [regs |-> g.regs, due |-> g.due, refused |-> g.refused] /\ g.regs = s
      /\ g.due = e.due \cup Due(w)
  BY DEF WriteTo
<1>2. AreRegisters(r)
  BY DEF IsDevice
<1> HIDE DEF g, r, s
<1>3. SUFFICES /\ AreRegisters(s)
               /\ \A f \in Fields : \A i \in DOMAIN PowerOn[f] : s[f][i] = ValueAfter(r, w, f, i)
  BY <1>1 DEF IsDevice, g, r
<1>4. CASE Is(w, "DMATXCTL.TE", 1)
  <2>1. s = Put(one, "TXDCTL.ENABLE", 0, 1)
    BY <1>4, WrittenIs DEF s
  <2>2. /\ AreRegisters(one)
        /\ \A f \in Fields : \A i \in DOMAIN PowerOn[f] :
             one[f][i] = IF f = "DMATXCTL.TE" /\ i = 0 THEN 1 ELSE r[f][i]
    BY <1>2, PutPuts
  <2> HIDE DEF one
  <2>3. /\ AreRegisters(s)
        /\ \A f \in Fields : \A i \in DOMAIN PowerOn[f] :
             s[f][i] = IF f = "TXDCTL.ENABLE" /\ i = 0 THEN 1 ELSE one[f][i]
    BY <2>1, <2>2, PutPuts
  <2> QED
    BY <1>4, <2>2, <2>3 DEF ValueAfter
<1>5. CASE ~ Is(w, "DMATXCTL.TE", 1) /\ w.field \in Delayed
  <2>1. s = r
    BY <1>5, WrittenIs DEF s
  <2> QED
    BY <1>2, <1>5, <2>1 DEF ValueAfter
<1>6. CASE ~ Is(w, "DMATXCTL.TE", 1) /\ w.field \notin Delayed
  <2>1. s = Put(r, w.field, w.index, Kept(w))
    BY <1>6, WrittenIs DEF s
  <2>2. /\ AreRegisters(s)
        /\ \A f \in Fields : \A i \in DOMAIN PowerOn[f] :
             s[f][i] = IF f = w.field /\ i = w.index THEN Kept(w) ELSE r[f][i]
    BY <1>2, <2>1, PutPuts
  <2> QED
    BY <1>6, <2>2 DEF ValueAfter
<1> QED
  BY <1>4, <1>5, <1>6

\* A reset of the device.
LEMMA AfterReset ==
  ASSUME NEW e, IsDevice(e), NEW w, Is(w, "CTRL.RST", 1)
  PROVE  /\ IsDevice(WriteTo(e, w))
         /\ WriteTo(e, w).due = {Change("EEC.Auto_RD", 0, 1), Change("RDRXCTL.DMAIDONE", 0, 1)}
         /\ \A f \in DOMAIN DeviceReset : WriteTo(e, w).regs[f] = DeviceReset[f]
<1> DEFINE g == WriteTo(e, w)
           r == e.regs
           s == Written(r, w)
<1>1. g = [regs |-> g.regs, due |-> g.due, refused |-> g.refused] /\ g.regs = s
      /\ g.due = (IF Is(w, "CTRL.RST", 1) THEN {} ELSE e.due) \cup Due(w)
  BY DEF WriteTo
<1>2. Due(w) = {Change("EEC.Auto_RD", 0, 1), Change("RDRXCTL.DMAIDONE", 0, 1)}
  <2>1. ~ Is(w, "CTRL.PCIe_Master_Disable", 1) /\ ~ Is(w, "SECRXCTRL.RX_DIS", 1)
        /\ w.field \notin Delayed
    BY DEF Is, Delayed
  <2> QED
    BY <2>1 DEF Due
<1>3. AreRegisters(r) /\ DOMAIN r = Fields
  BY DEF IsDevice, AreRegisters
<1>4. s = [f \in Fields |-> IF f \in DOMAIN DeviceReset THEN DeviceReset[f] ELSE r[f]]
  BY <1>3, WrittenIs
<1>5. \A f \in Fields : PowerOn[f] = [i \in DOMAIN PowerOn[f] |-> PowerOn[f][i]]
  BY RegisterShapes DEF IsDevice, AreRegisters
<1> HIDE DEF g, r, s
<1>6. \A f \in DOMAIN DeviceReset : s[f] = DeviceReset[f]
  BY <1>4, RegisterShapes
<1>7. ASSUME NEW f \in Fields
      PROVE  s[f] = [i \in DOMAIN PowerOn[f] |-> s[f][i]]
  <2>1. CASE f \in DOMAIN DeviceReset
    BY <1>5, <1>6, <2>1, RegisterShapes
  <2>2. CASE f \notin DOMAIN DeviceReset
    BY <1>3, <1>4, <2>2 DEF AreRegisters
  <2> QED
    BY <2>1, <2>2
<1>8. AreRegisters(s)
  <2>1. s = [f \in Fields |-> s[f]]
    BY <1>4
  <2> QED
    BY <1>7, <2>1 DEF AreRegisters
<1>9. IsDevice(g)
  BY <1>1, <1>8 DEF IsDevice
<1> QED
  BY <1>1, <1>2, <1>6, <1>9 DEF g

\* The value of a register after the hardware completed a change.
ValueCompleted(r, w, f, i) == IF f = w.field /\ i = w.index THEN w.value ELSE r[f][i]

\* The hardware completes a change.
LEMMA AfterCompletion ==
  ASSUME NEW e, IsDevice(e), NEW w
  PROVE  /\ IsDevice(Completed(e, w))
         /\ Completed(e, w).due = e.due \ {w} /\ Completed(e, w).refused = e.refused
         /\ \A f \in Fields : \A i \in DOMAIN PowerOn[f] :
              Completed(e, w).regs[f][i] = ValueCompleted(e.regs, w, f, i)
<1> DEFINE g == Completed(e, w)
           r == e.regs
           s == Put(r, w.field, w.index, w.value)
<1>2. g = [regs |-> s, due |-> e.due \ {w}, refused |-> e.refused]
  BY DEF Completed
<1>3. AreRegisters(r)
  BY DEF IsDevice
<1>4. /\ AreRegisters(s)
      /\ \A f \in Fields : \A i \in DOMAIN PowerOn[f] :
           s[f][i] = IF f = w.field /\ i = w.index THEN w.value ELSE r[f][i]
  BY <1>3, PutPuts
<1> HIDE DEF g, s, r
<1>5. g.regs = s /\ g.due = e.due \ {w} /\ g.refused = e.refused
  BY <1>2
<1>6. IsDevice(g)
  BY <1>2, <1>4, <1>5 DEF IsDevice
<1> QED
  BY <1>4, <1>5, <1>6 DEF g, r, ValueCompleted

-----------------------------------------------------------------------------
(* What a sequence of writes does.                                         *)

\* F has the device after each of the first len writes.
Writing(F, e, ws, len) ==
  F[0] = e /\ \A k \in 1 .. len : F[k] = WriteTo(F[k - 1], ws[k])

\* Writes can be done one after the other.
LEMMA WritingExists ==
  ASSUME NEW e, NEW ws, NEW len \in Nat
  PROVE  \E F : Writing(F, e, ws, len)
<1> DEFINE Stuck == {k \in Nat : ~ \E F : Writing(F, e, ws, k)}
<1>1. SUFFICES ASSUME len \in Stuck PROVE FALSE
  OBVIOUS
<1>2. PICK k \in Stuck : \A j \in Stuck : k <= j
  <2>1. Stuck \subseteq Nat
    OBVIOUS
  <2> HIDE DEF Stuck
  <2> QED
    BY <1>1, <2>1, LeastNatural
<1>3. k # 0
  <2> DEFINE F == [j \in {0} |-> e]
  <2>1. F[0] = e /\ 1 .. 0 = {}
    OBVIOUS
  <2> HIDE DEF F
  <2>2. Writing(F, e, ws, 0)
    BY <2>1 DEF Writing
  <2> QED
    BY <2>2
<1>4. k \in Nat /\ k - 1 \in Nat /\ k - 1 \notin Stuck
  BY <1>2, <1>3
<1>5. PICK F : Writing(F, e, ws, k - 1)
  BY <1>4
<1> DEFINE last == WriteTo(F[k - 1], ws[k])
           G == [j \in 0 .. k |-> IF j = k THEN last ELSE F[j]]
<1> HIDE DEF last
<1>6. G[k] = last /\ \A j \in 0 .. k - 1 : G[j] = F[j]
  BY <1>4
<1> HIDE DEF G
<1>7. G[0] = e
  BY <1>4, <1>5, <1>6 DEF Writing
<1>8. ASSUME NEW j \in 1 .. k
      PROVE  G[j] = WriteTo(G[j - 1], ws[j])
  <2>1. CASE j = k
    BY <1>4, <1>6, <2>1 DEF last
  <2>2. CASE j # k
    <3>1. j \in 1 .. k - 1 /\ j \in 0 .. k - 1 /\ j - 1 \in 0 .. k - 1
      BY <1>4, <2>2
    <3>2. G[j] = F[j] /\ G[j - 1] = F[j - 1]
      BY <1>6, <3>1
    <3> QED
      BY <1>5, <3>1, <3>2 DEF Writing
  <2> QED
    BY <2>1, <2>2
<1>9. Writing(G, e, ws, k)
  BY <1>7, <1>8 DEF Writing
<1> QED
  BY <1>2, <1>9

\* WriteAll returns the device after the last write.
LEMMA WriteAllWrites ==
  ASSUME NEW e, NEW ws, Len(ws) \in Nat
  PROVE  \E F : Writing(F, e, ws, Len(ws)) /\ WriteAll(e, ws) = F[Len(ws)]
<1> DEFINE N == Len(ws)
           Step(F, k) == IF k = 0 THEN e ELSE WriteTo(F[k - 1], ws[k])
           after == CHOOSE F : F = [k \in 0 .. N |-> Step(F, k)]
<1>1. WriteAll(e, ws) = after[N]
  BY DEF WriteAll
<1>2. N \in Nat
  OBVIOUS
<1> HIDE DEF N
<1>3. PICK G : Writing(G, e, ws, N)
  BY <1>2, WritingExists
<1> DEFINE H == [k \in 0 .. N |-> G[k]]
<1>4. ASSUME NEW k \in 0 .. N
      PROVE  H[k] = Step(H, k)
  <2>1. CASE k = 0
    BY <1>2, <1>3, <2>1 DEF Writing
  <2>2. CASE k # 0
    <3>1. k \in 1 .. N /\ k - 1 \in 0 .. N
      BY <1>2, <2>2
    <3>2. H[k] = G[k] /\ H[k - 1] = G[k - 1]
      BY <3>1
    <3> QED
      BY <1>3, <2>2, <3>1, <3>2 DEF Writing
  <2> QED
    BY <2>1, <2>2
<1>5. H = [k \in 0 .. N |-> Step(H, k)]
  BY <1>4
<1>6. after = [k \in 0 .. N |-> Step(after, k)]
  <2> HIDE DEF H, Step
  <2> QED
    BY <1>5
<1>7. \A k \in 0 .. N : after[k] = Step(after, k)
  BY <1>6
<1> HIDE DEF after
<1>8. after[0] = e
  BY <1>2, <1>7
<1>9. ASSUME NEW k \in 1 .. N
      PROVE  after[k] = WriteTo(after[k - 1], ws[k])
  <2>1. k \in 0 .. N /\ k # 0
    BY <1>2
  <2> QED
    BY <1>7, <2>1
<1>10. Writing(after, e, ws, N)
  BY <1>8, <1>9 DEF Writing
<1> QED
  BY <1>1, <1>10 DEF N

\* One write, and up to six of them.
LEMMA WriteOne ==
  ASSUME NEW e, NEW a
  PROVE  WriteAll(e, <<a>>) = WriteTo(e, a)
<1>1. Len(<<a>>) = 1 /\ 1 \in Nat /\ <<a>>[1] = a
  OBVIOUS
<1>2. PICK F : Writing(F, e, <<a>>, 1) /\ WriteAll(e, <<a>>) = F[1]
  BY <1>1, WriteAllWrites
<1> QED
  BY <1>1, <1>2 DEF Writing

\* One sequence is two others, one after the other.
Joins(u, s, t) == u = s \o t

\* The first writes, then the others.
LEMMA WriteTogether ==
  ASSUME NEW e, NEW S, NEW s \in Seq(S), NEW t \in Seq(S), NEW u, Joins(u, s, t)
  PROVE  WriteAll(e, u) = WriteAll(WriteAll(e, s), t)
<1>1. /\ Len(s) \in Nat /\ Len(t) \in Nat /\ Len(u) \in Nat /\ Len(u) = Len(s) + Len(t)
      /\ \A k \in 1 .. Len(s) : u[k] = s[k]
      /\ \A k \in 1 .. Len(t) : u[Len(s) + k] = t[k]
  BY DEF Joins
<1>2. PICK F : Writing(F, e, u, Len(u)) /\ WriteAll(e, u) = F[Len(u)]
  BY <1>1, WriteAllWrites
<1>3. PICK G : Writing(G, e, s, Len(s)) /\ WriteAll(e, s) = G[Len(s)]
  BY <1>1, WriteAllWrites
<1> DEFINE f == WriteAll(e, s)
<1>4. PICK H : Writing(H, f, t, Len(t)) /\ WriteAll(f, t) = H[Len(t)]
  BY <1>1, WriteAllWrites
<1> HIDE DEF f
<1> DEFINE BadG == {k \in 0 .. Len(s) : F[k] # G[k]}
           BadH == {k \in 0 .. Len(t) : F[Len(s) + k] # H[k]}
<1>5. BadG = {}
  <2> SUFFICES ASSUME BadG # {} PROVE FALSE
    OBVIOUS
  <2>1. BadG \subseteq Nat
    BY <1>1
  <2>2. PICK k \in BadG : \A j \in BadG : k <= j
    <3> HIDE DEF BadG
    <3> QED
      BY <2>1, LeastNatural
  <2>3. k # 0
    BY <1>2, <1>3 DEF Writing
  <2>4. k \in 1 .. Len(s) /\ k \in 1 .. Len(u) /\ k - 1 \in 0 .. Len(s) /\ k - 1 \notin BadG
    BY <1>1, <2>2, <2>3
  <2>5. F[k] = WriteTo(F[k - 1], u[k]) /\ G[k] = WriteTo(G[k - 1], s[k])
    BY <1>2, <1>3, <2>4 DEF Writing
  <2> QED
    BY <1>1, <2>4, <2>5
<1>6. F[Len(s)] = f
  BY <1>1, <1>3, <1>5 DEF f
<1>7. BadH = {}
  <2> SUFFICES ASSUME BadH # {} PROVE FALSE
    OBVIOUS
  <2>1. BadH \subseteq Nat
    BY <1>1
  <2>2. PICK k \in BadH : \A j \in BadH : k <= j
    <3> HIDE DEF BadH
    <3> QED
      BY <2>1, LeastNatural
  <2>3. k # 0
    BY <1>1, <1>4, <1>6 DEF Writing
  <2>4. /\ k \in 1 .. Len(t) /\ Len(s) + k \in 1 .. Len(u) /\ k - 1 \in 0 .. Len(t)
        /\ k - 1 \notin BadH /\ (Len(s) + k) - 1 = Len(s) + (k - 1)
    BY <1>1, <2>2, <2>3
  <2>5. F[Len(s) + k] = WriteTo(F[Len(s) + k - 1], u[Len(s) + k]) /\ H[k] = WriteTo(H[k - 1], t[k])
    BY <1>2, <1>4, <2>4 DEF Writing
  <2>6. F[Len(s) + (k - 1)] = H[k - 1] /\ u[Len(s) + k] = t[k]
    BY <1>1, <2>4
  <2> QED
    BY <2>4, <2>5, <2>6
<1>8. F[Len(s) + Len(t)] = H[Len(t)]
  BY <1>1, <1>7
<1> QED
  BY <1>1, <1>2, <1>4, <1>8 DEF f

-----------------------------------------------------------------------------
(* Writes that leave most registers alone.                                 *)

\* The fields that a write may change, now or later.
Touched(w) ==
  {w.field} \cup {c.field : c \in Due(w)}
  \cup (IF w.field = "DMATXCTL.TE" THEN {"TXDCTL.ENABLE"} ELSE {})

\* A device changed, or will, in some fields only, and no write was refused.
ChangedIn(e, g, F) ==
  /\ IsDevice(g) /\ g.refused = e.refused
  /\ \A f \in Fields \ F : \A i \in DOMAIN PowerOn[f] : g.regs[f][i] = e.regs[f][i]
  /\ e.due \subseteq g.due
  /\ \A w \in g.due : w \in e.due \/ w.field \in F

\* One write, whether allowed or not.
LEMMA WriteTouches ==
  ASSUME NEW e, IsDevice(e), NEW w, w.field # "CTRL.RST", NEW F, Touched(w) \subseteq F
  PROVE  /\ IsDevice(WriteTo(e, w))
         /\ \A f \in Fields \ F : \A i \in DOMAIN PowerOn[f] :
              WriteTo(e, w).regs[f][i] = e.regs[f][i]
         /\ WriteTo(e, w).due = e.due \cup Due(w)
         /\ \A c \in WriteTo(e, w).due : c \in e.due \/ c.field \in F
<1> DEFINE g == WriteTo(e, w)
<1>1. ~ Is(w, "CTRL.RST", 1)
  BY DEF Is
<1>2. /\ IsDevice(g) /\ g.due = e.due \cup Due(w)
      /\ \A f \in Fields : \A i \in DOMAIN PowerOn[f] : g.regs[f][i] = ValueAfter(e.regs, w, f, i)
  BY <1>1, AfterWrite
<1> HIDE DEF g
<1>3. ASSUME NEW f \in Fields \ F, NEW i \in DOMAIN PowerOn[f]
      PROVE  g.regs[f][i] = e.regs[f][i]
  <2>1. f # w.field /\ (w.field = "DMATXCTL.TE" => f # "TXDCTL.ENABLE")
    BY DEF Touched
  <2>2. ValueAfter(e.regs, w, f, i) = e.regs[f][i]
    BY <2>1 DEF ValueAfter, Is
  <2> QED
    BY <1>2, <2>2
<1>4. \A c \in Due(w) : c.field \in F
  BY DEF Touched
<1> QED
  BY <1>2, <1>3, <1>4 DEF g

\* One write that is allowed.
LEMMA AllowedWrite ==
  ASSUME NEW e, IsDevice(e), NEW w, w.field # "CTRL.RST", NEW F, Touched(w) \subseteq F,
         \/ e.regs[w.field][w.index] = w.value
         \/ Allowed(e.regs, w.field, w.index, w.value)
  PROVE  ChangedIn(e, WriteTo(e, w), F) /\ WriteTo(e, w).due = e.due \cup Due(w)
<1>1. WriteTo(e, w).refused = e.refused
  BY DEF WriteTo
<1>2. /\ IsDevice(WriteTo(e, w))
      /\ \A f \in Fields \ F : \A i \in DOMAIN PowerOn[f] :
           WriteTo(e, w).regs[f][i] = e.regs[f][i]
      /\ WriteTo(e, w).due = e.due \cup Due(w)
      /\ \A c \in WriteTo(e, w).due : c \in e.due \/ c.field \in F
  BY WriteTouches
<1> QED
  BY <1>1, <1>2 DEF ChangedIn

\* Changes add up.
LEMMA ChangedTogether ==
  ASSUME NEW F, NEW e, NEW g, NEW h, ChangedIn(e, g, F), ChangedIn(g, h, F)
  PROVE  ChangedIn(e, h, F)
BY DEF ChangedIn

\* A write that is allowed whatever the registers.
Harmless(w, F) ==
  /\ w.field # "CTRL.RST" /\ Touched(w) \subseteq F
  /\ \A r : Allowed(r, w.field, w.index, w.value)

WriteType(F) == [field : F, index : Int, value : Int]

AreHarmless(ws, F) == ws \in Seq(WriteType(F)) /\ \A k \in 1 .. Len(ws) : Harmless(ws[k], F)

\* Any number of them.
LEMMA HarmlessWrites ==
  ASSUME NEW e, IsDevice(e), NEW F, NEW ws, AreHarmless(ws, F)
  PROVE  ChangedIn(e, WriteAll(e, ws), F)
<1>0. Len(ws) \in Nat
  BY DEF AreHarmless
<1>1. PICK G : Writing(G, e, ws, Len(ws)) /\ WriteAll(e, ws) = G[Len(ws)]
  BY <1>0, WriteAllWrites
<1> DEFINE Bad == {k \in 0 .. Len(ws) : ~ ChangedIn(e, G[k], F)}
<1>2. Bad = {}
  <2> SUFFICES ASSUME Bad # {} PROVE FALSE
    OBVIOUS
  <2>1. Bad \subseteq Nat
    BY <1>0
  <2>2. PICK k \in Bad : \A j \in Bad : k <= j
    <3> HIDE DEF Bad
    <3> QED
      BY <2>1, LeastNatural
  <2>3. k # 0
    <3>1. ChangedIn(e, e, F)
      BY DEF ChangedIn
    <3> QED
      BY <1>1, <3>1 DEF Writing
  <2>4. k \in 1 .. Len(ws) /\ k - 1 \in 0 .. Len(ws) /\ k - 1 \notin Bad
    BY <1>0, <2>2, <2>3
  <2>5. G[k] = WriteTo(G[k - 1], ws[k]) /\ ChangedIn(e, G[k - 1], F)
    BY <1>1, <2>4 DEF Writing
  <2>6. Harmless(ws[k], F) /\ IsDevice(G[k - 1])
    BY <2>4, <2>5 DEF AreHarmless, ChangedIn
  <2>7. Allowed(G[k - 1].regs, ws[k].field, ws[k].index, ws[k].value)
    BY <2>6 DEF Harmless
  <2>8. ChangedIn(G[k - 1], WriteTo(G[k - 1], ws[k]), F)
    BY <2>6, <2>7, AllowedWrite DEF Harmless
  <2>9. ChangedIn(e, G[k], F)
    BY <2>5, <2>8, ChangedTogether
  <2> QED
    BY <2>9
<1> QED
  BY <1>0, <1>1, <1>2

\* Sequences of them.
LEMMA HarmlessTogether ==
  ASSUME NEW F, NEW s, NEW t, AreHarmless(s, F), AreHarmless(t, F)
  PROVE  AreHarmless(s \o t, F)
<1>0. s \in Seq(WriteType(F)) /\ t \in Seq(WriteType(F)) /\ s \o t \in Seq(WriteType(F))
  BY DEF AreHarmless
<1>1. /\ Len(s) \in Nat /\ Len(t) \in Nat /\ Len(s \o t) = Len(s) + Len(t)
      /\ \A k \in 1 .. Len(s) : (s \o t)[k] = s[k]
      /\ \A k \in 1 .. Len(t) : (s \o t)[Len(s) + k] = t[k]
  BY <1>0
<1>2. ASSUME NEW k \in 1 .. Len(s) + Len(t)
      PROVE  Harmless((s \o t)[k], F)
  <2>1. CASE k <= Len(s)
    BY <1>1, <2>1 DEF AreHarmless
  <2>2. CASE ~ (k <= Len(s))
    <3>1. k - Len(s) \in 1 .. Len(t) /\ Len(s) + (k - Len(s)) = k
      BY <1>1, <2>2
    <3>2. (s \o t)[k] = t[k - Len(s)]
      BY <1>1, <3>1
    <3> QED
      BY <3>1, <3>2 DEF AreHarmless
  <2> QED
    BY <2>1, <2>2
<1> QED
  BY <1>0, <1>1, <1>2 DEF AreHarmless

\* No write, and one.
LEMMA HarmlessOne ==
  ASSUME NEW F
  PROVE  /\ AreHarmless(<<>>, F)
         /\ \A w \in WriteType(F) : Harmless(w, F) => AreHarmless(<<w>>, F)
<1>1. AreHarmless(<<>>, F)
  BY DEF AreHarmless
<1>2. ASSUME NEW w \in WriteType(F), Harmless(w, F)
      PROVE  AreHarmless(<<w>>, F)
  <2>1. <<w>> \in Seq(WriteType(F)) /\ Len(<<w>>) = 1 /\ <<w>>[1] = w
    OBVIOUS
  <2> QED
    BY <1>2, <2>1 DEF AreHarmless
<1> QED
  BY <1>1, <1>2

\* A write to one of these may also change other fields.
SideFields == {"CTRL.RST", "CTRL.PCIe_Master_Disable", "SECRXCTRL.RX_DIS", "DMATXCTL.TE"}

\* Most writes touch only their field.
LEMMA TouchesItself ==
  ASSUME NEW f, NEW i, NEW v, f \notin SideFields
  PROVE  Touched(Change(f, i, v)) = {f}
<1> DEFINE w == Change(f, i, v)
<1>1. w.field = f /\ w.value = v
  BY DEF Change
<1> HIDE DEF w
<1>2. Due(w) = IF w.field \in Delayed THEN {w} ELSE {}
  BY <1>1 DEF Due, Is, SideFields
<1> QED
  BY <1>1, <1>2 DEF Touched, SideFields, w

\* What the others touch.
LEMMA TouchesOthers ==
  ASSUME NEW i, NEW v
  PROVE  /\ Touched(Change("DMATXCTL.TE", i, v)) = {"DMATXCTL.TE", "TXDCTL.ENABLE"}
         /\ Touched(Change("SECRXCTRL.RX_DIS", i, v))
              \subseteq {"SECRXCTRL.RX_DIS", "SECRXSTAT.SECRX_RDY"}
         /\ Touched(Change("CTRL.PCIe_Master_Disable", i, v))
              \subseteq {"CTRL.PCIe_Master_Disable", "STATUS.PCIe_Master_Enable_Status",
                         "DEVICE_STATUS.Transaction_Pending"}
<1>1. \A f : Change(f, i, v).field = f /\ Change(f, i, v).value = v
  BY DEF Change
<1>2. Due(Change("DMATXCTL.TE", i, v)) = {}
  BY <1>1 DEF Due, Is, Delayed
<1>3. \A c \in Due(Change("SECRXCTRL.RX_DIS", i, v)) : c.field = "SECRXSTAT.SECRX_RDY"
  BY <1>1 DEF Due, Is, Delayed, Change
<1>4. \A c \in Due(Change("CTRL.PCIe_Master_Disable", i, v)) :
        c.field \in {"STATUS.PCIe_Master_Enable_Status", "DEVICE_STATUS.Transaction_Pending"}
  BY <1>1 DEF Due, Is, Delayed, Change
<1> QED
  BY <1>1, <1>2, <1>3, <1>4 DEF Touched

\* A harmless write, from its field.
LEMMA HarmlessWrite ==
  ASSUME NEW f, NEW i \in Int, NEW v \in Int, NEW F, f \in F,
         f \notin SideFields,
         \A r : Allowed(r, f, i, v)
  PROVE  AreHarmless(<<Change(f, i, v)>>, F)
<1> DEFINE w == Change(f, i, v)
<1>1. w \in WriteType(F) /\ w.field = f /\ w.index = i /\ w.value = v
  BY DEF Change, WriteType
<1>2. Touched(w) \subseteq F
  BY TouchesItself
<1> HIDE DEF w
<1>3. Harmless(w, F)
  BY <1>1, <1>2 DEF Harmless, SideFields
<1> QED
  BY <1>1, <1>3, HarmlessOne DEF w

\* And as many of them as a field has indices.
LEMMA HarmlessFill ==
  ASSUME NEW f, NEW v \in Int, NEW F, f \in F,
         f \notin SideFields,
         \A r : \A i : Allowed(r, f, i, v),
         NEW first \in Int, NEW last \in Int, last >= first - 1
  PROVE  AreHarmless(Fill(f, first, last, v), F)
<1> DEFINE ws == Fill(f, first, last, v)
           c(k) == Change(f, first + k - 1, v)
<1>1. ws = [k \in 1 .. last - first + 1 |-> c(k)] /\ last - first + 1 \in Nat
  BY DEF Fill
<1>2. ASSUME NEW k \in 1 .. last - first + 1
      PROVE  c(k) \in WriteType(F) /\ Harmless(c(k), F)
  <2> DEFINE w == c(k)
  <2>1. w \in WriteType(F) /\ w.field = f /\ w.value = v
    BY DEF Change, WriteType
  <2>2. Touched(w) \subseteq F
    BY TouchesItself
  <2> HIDE DEF w
  <2>3. Harmless(w, F)
    BY <2>1, <2>2 DEF Harmless, SideFields
  <2> QED
    BY <2>1, <2>3 DEF w
<1> HIDE DEF ws, c
<1>3. ws \in Seq(WriteType(F)) /\ Len(ws) = last - first + 1
  BY <1>1, <1>2
<1>4. \A k \in 1 .. Len(ws) : ws[k] = c(k)
  BY <1>1, <1>3
<1> QED
  BY <1>2, <1>3, <1>4 DEF AreHarmless, ws

\* H has what the first len sequences are together.
Flattening(H, ss, len) ==
  \A k \in 1 .. len : H[k] = IF k = 1 THEN ss[k] ELSE H[k - 1] \o ss[k]

\* Sequences can be put together one after the other.
LEMMA FlatteningExists ==
  ASSUME NEW ss, NEW len \in Nat
  PROVE  \E H : Flattening(H, ss, len)
<1> DEFINE Stuck == {k \in Nat : ~ \E H : Flattening(H, ss, k)}
<1>1. SUFFICES ASSUME len \in Stuck PROVE FALSE
  OBVIOUS
<1>2. PICK k \in Stuck : \A j \in Stuck : k <= j
  <2>1. Stuck \subseteq Nat
    OBVIOUS
  <2> HIDE DEF Stuck
  <2> QED
    BY <1>1, <2>1, LeastNatural
<1>3. k # 0
  <2>1. 1 .. 0 = {}
    OBVIOUS
  <2>2. Flattening(<<>>, ss, 0)
    BY <2>1 DEF Flattening
  <2> QED
    BY <2>2
<1>4. k \in Nat /\ k - 1 \in Nat /\ k - 1 \notin Stuck
  BY <1>2, <1>3
<1>5. PICK H : Flattening(H, ss, k - 1)
  BY <1>4
<1> DEFINE last == IF k = 1 THEN ss[k] ELSE H[k - 1] \o ss[k]
           G == [j \in 0 .. k |-> IF j = k THEN last ELSE H[j]]
<1> HIDE DEF last
<1>6. G[k] = last /\ \A j \in 0 .. k - 1 : G[j] = H[j]
  BY <1>4
<1> HIDE DEF G
<1>7. ASSUME NEW j \in 1 .. k
      PROVE  G[j] = IF j = 1 THEN ss[j] ELSE G[j - 1] \o ss[j]
  <2>1. CASE j = k
    <3>1. G[k] = last /\ G[k - 1] = H[k - 1]
      BY <1>4, <1>6
    <3> QED
      BY <2>1, <3>1 DEF last
  <2>2. CASE j # k
    <3>1. j \in 1 .. k - 1 /\ j \in 0 .. k - 1 /\ j - 1 \in 0 .. k - 1
      BY <1>4, <2>2
    <3>2. G[j] = H[j] /\ G[j - 1] = H[j - 1]
      BY <1>6, <3>1
    <3> QED
      BY <1>5, <3>1, <3>2 DEF Flattening
  <2> QED
    BY <2>1, <2>2
<1>8. Flattening(G, ss, k)
  BY <1>7 DEF Flattening
<1> QED
  BY <1>2, <1>8

\* FlattenSeq puts them together.
LEMMA FlattenSeqFlattens ==
  ASSUME NEW ss, Len(ss) \in Nat \ {0}
  PROVE  \E H : Flattening(H, ss, Len(ss)) /\ FlattenSeq(ss) = H[Len(ss)]
<1> DEFINE N == Len(ss)
           Step(H, k) == IF k = 1 THEN ss[k] ELSE H[k - 1] \o ss[k]
           flatten == CHOOSE H : H = [k \in 1 .. N |-> Step(H, k)]
<1>1. FlattenSeq(ss) = flatten[N]
  BY DEF FlattenSeq
<1>2. N \in Nat
  OBVIOUS
<1> HIDE DEF N
<1>3. PICK G : Flattening(G, ss, N)
  BY <1>2, FlatteningExists
<1> DEFINE J == [k \in 1 .. N |-> G[k]]
<1>4. ASSUME NEW k \in 1 .. N
      PROVE  J[k] = Step(J, k)
  <2>1. CASE k = 1
    BY <1>2, <1>3, <2>1 DEF Flattening
  <2>2. CASE k # 1
    <3>1. k - 1 \in 1 .. N
      BY <1>2, <2>2
    <3>2. J[k] = G[k] /\ J[k - 1] = G[k - 1]
      BY <3>1
    <3> QED
      BY <1>3, <2>2, <3>1, <3>2 DEF Flattening
  <2> QED
    BY <2>1, <2>2
<1>5. J = [k \in 1 .. N |-> Step(J, k)]
  BY <1>4
<1>6. flatten = [k \in 1 .. N |-> Step(flatten, k)]
  <2> HIDE DEF J, Step
  <2> QED
    BY <1>5, Zenon
<1>7. \A k \in 1 .. N : flatten[k] = Step(flatten, k)
  BY <1>6, Zenon
<1> HIDE DEF flatten
<1>8. Flattening(flatten, ss, N)
  BY <1>7 DEF Flattening
<1> QED
  BY <1>1, <1>8 DEF N

\* Harmless sequences put together are harmless.
LEMMA HarmlessFlatten ==
  ASSUME NEW F, NEW ss, Len(ss) \in Nat \ {0}, \A k \in 1 .. Len(ss) : AreHarmless(ss[k], F)
  PROVE  AreHarmless(FlattenSeq(ss), F)
<1>1. PICK H : Flattening(H, ss, Len(ss)) /\ FlattenSeq(ss) = H[Len(ss)]
  BY FlattenSeqFlattens
<1> DEFINE Bad == {k \in 1 .. Len(ss) : ~ AreHarmless(H[k], F)}
<1>2. Bad = {}
  <2> SUFFICES ASSUME Bad # {} PROVE FALSE
    OBVIOUS
  <2>1. Bad \subseteq Nat
    OBVIOUS
  <2>2. PICK k \in Bad : \A j \in Bad : k <= j
    <3> HIDE DEF Bad
    <3> QED
      BY <2>1, LeastNatural
  <2>3. k \in 1 .. Len(ss) /\ AreHarmless(ss[k], F)
    OBVIOUS
  <2>4. k # 1
    BY <1>1, <2>3 DEF Flattening
  <2>5. k - 1 \in 1 .. Len(ss) /\ k - 1 \notin Bad
    BY <2>2, <2>3, <2>4
  <2>6. H[k] = H[k - 1] \o ss[k] /\ AreHarmless(H[k - 1], F)
    BY <1>1, <2>3, <2>4, <2>5 DEF Flattening
  <2>7. AreHarmless(H[k], F)
    BY <2>3, <2>6, HarmlessTogether
  <2> QED
    BY <2>7
<1> QED
  BY <1>1, <1>2

\* The fields that are set between a reset and the filters.
InitFields ==
  {"PFUTA.Bit_Vector", "PFVLVF.VI_En", "PFVLVF.VLAN_Id", "MPSAR.POOL_ENA", "PFVLVFB.POOL_ENA",
   "MTA.Bit_Vector", "FTQF.Queue_Enable", "RDRXCTL.CRCStrip", "RDRXCTL.RSCFRSTSIZE",
   "RDRXCTL.RSCACKC", "RDRXCTL.FCOE_WRFIX", "RXPBSIZE.SIZE", "MFLCN.RFCE", "FCCFG.TFCE",
   "RTTDQSEL.TXDQ_IDX", "RTTDT1C.CRQ", "RTTDCS.ARBDIS", "TXPBSIZE.SIZE", "TXPBTHRESH.THRESH",
   "DTXMXSZRQ.Max_bytes_num_req"}

\* What the data sheet allows of them.
LEMMA InitAllowed ==
  /\ \A f \in InitFields : f \notin SideFields
  /\ \A r, i, v : \A f \in {"PFVLVF.VLAN_Id", "MPSAR.POOL_ENA", "PFVLVFB.POOL_ENA",
                            "RTTDQSEL.TXDQ_IDX", "RTTDT1C.CRQ"} : Allowed(r, f, i, v)
  /\ \A r, i : \A f \in {"PFUTA.Bit_Vector", "PFVLVF.VI_En", "FTQF.Queue_Enable",
                         "RDRXCTL.RSCFRSTSIZE", "MTA.Bit_Vector", "RXPBSIZE.SIZE",
                         "TXPBSIZE.SIZE"} : Allowed(r, f, i, 0)
  /\ \A r, i : \A f \in {"RDRXCTL.CRCStrip", "RDRXCTL.RSCACKC", "RDRXCTL.FCOE_WRFIX",
                         "MFLCN.RFCE", "FCCFG.TFCE"} : Allowed(r, f, i, 1)
  /\ \A r, i, v : \A f \in {"RTTDCS.ARBDIS", "TXPBTHRESH.THRESH"} : Allowed(r, f, i, v)
  /\ \A r, i : Allowed(r, "DTXMXSZRQ.Max_bytes_num_req", i, 4095)
<1>1. \A r, f, i, v : receive_init(r, f, i, v) \/ transmit_init(r, f, i, v) => Allowed(r, f, i, v)
  BY DEF Allowed
<1>3. \A f \in InitFields : f \notin SideFields
  BY DEF InitFields, SideFields
<1>4. \A r, i, v : \A f \in {"PFVLVF.VLAN_Id", "MPSAR.POOL_ENA", "PFVLVFB.POOL_ENA",
                             "RTTDQSEL.TXDQ_IDX", "RTTDT1C.CRQ"} : receive_init(r, f, i, v)
  BY DEF receive_init
<1>5. \A r, i : \A f \in {"PFUTA.Bit_Vector", "PFVLVF.VI_En", "FTQF.Queue_Enable",
                          "RDRXCTL.RSCFRSTSIZE", "MTA.Bit_Vector", "RXPBSIZE.SIZE"} :
        receive_init(r, f, i, 0)
  BY DEF receive_init
<1>6. \A r, i : transmit_init(r, "TXPBSIZE.SIZE", i, 0)
  BY DEF transmit_init
<1>7. \A r, i : \A f \in {"RDRXCTL.CRCStrip", "RDRXCTL.RSCACKC", "RDRXCTL.FCOE_WRFIX",
                          "MFLCN.RFCE", "FCCFG.TFCE"} : receive_init(r, f, i, 1)
  BY DEF receive_init
<1>8. \A r, i, v : \A f \in {"RTTDCS.ARBDIS", "TXPBTHRESH.THRESH"} : transmit_init(r, f, i, v)
  BY DEF transmit_init
<1>9. \A r, i : transmit_init(r, "DTXMXSZRQ.Max_bytes_num_req", i, 4095)
  BY DEF transmit_init
<1> QED
  BY <1>1, <1>3, <1>4, <1>5, <1>6, <1>7, <1>8, <1>9

\* Between a reset and the filters, no write needs the registers to be in
\* some state, and none touches what decides what a device receives or sends.
LEMMA InitHarmless == AreHarmless(ReceiveInit \o TransmitInit, InitFields)
<1> DEFINE F == InitFields
           T == TableSize - 1
           Good(ws) == AreHarmless(ws, F)
           queue(k) == << Change("RTTDQSEL.TXDQ_IDX", 0, k - 1), Change("RTTDT1C.CRQ", 0, 0) >>
           queues == [k \in 1 .. TransmitQueuesCount |-> queue(k)]
<1>0. /\ T \in Int /\ 0 \in Int /\ 1 \in Int /\ T >= 0 - 1 /\ T >= 1 - 1 /\ 4095 \in Int
      /\ 160 - PACKET_BUFFER_SIZE \div 1024 \in Int /\ TransmitQueuesCount \in Nat \ {0}
  BY TableAssumption, QueuesAssumption DEF PACKET_BUFFER_SIZE
<1>1. ASSUME NEW f \in F, NEW v \in Int, \A r : \A i : Allowed(r, f, i, v)
      PROVE  /\ Good(Fill(f, 0, T, v)) /\ Good(Fill(f, 1, T, v))
             /\ Good(<<Change(f, 0, v)>>)
  <2>1. f \notin SideFields
    BY InitAllowed
  <2> HIDE DEF T, F
  <2>2. AreHarmless(Fill(f, 0, T, v), F) /\ AreHarmless(Fill(f, 1, T, v), F)
    BY <1>0, <1>1, <2>1, HarmlessFill
  <2>3. AreHarmless(<<Change(f, 0, v)>>, F)
    BY <1>0, <1>1, <2>1, HarmlessWrite
  <2> QED
    BY <2>2, <2>3
<1>2. ASSUME NEW s, NEW t, Good(s), Good(t)
      PROVE  Good(s \o t)
  BY <1>2, HarmlessTogether
<1> HIDE DEF Good, T
<1>3. /\ "PFUTA.Bit_Vector" \in F /\ "PFVLVF.VI_En" \in F /\ "PFVLVF.VLAN_Id" \in F
      /\ "MPSAR.POOL_ENA" \in F /\ "PFVLVFB.POOL_ENA" \in F /\ "MTA.Bit_Vector" \in F
      /\ "FTQF.Queue_Enable" \in F /\ "RDRXCTL.CRCStrip" \in F /\ "RDRXCTL.RSCFRSTSIZE" \in F
      /\ "RDRXCTL.RSCACKC" \in F /\ "RDRXCTL.FCOE_WRFIX" \in F /\ "RXPBSIZE.SIZE" \in F
      /\ "MFLCN.RFCE" \in F /\ "FCCFG.TFCE" \in F /\ "RTTDQSEL.TXDQ_IDX" \in F
      /\ "RTTDT1C.CRQ" \in F /\ "RTTDCS.ARBDIS" \in F /\ "TXPBSIZE.SIZE" \in F
      /\ "TXPBTHRESH.THRESH" \in F /\ "DTXMXSZRQ.Max_bytes_num_req" \in F
  BY DEF InitFields
<1> HIDE DEF F
<1>4. /\ Good(Fill("PFUTA.Bit_Vector", 0, T, 0)) /\ Good(Fill("PFVLVF.VI_En", 0, T, 0))
      /\ Good(Fill("MTA.Bit_Vector", 0, T, 0)) /\ Good(Fill("FTQF.Queue_Enable", 0, T, 0))
      /\ Good(<<Change("RDRXCTL.RSCFRSTSIZE", 0, 0)>>)
      /\ Good(Fill("RXPBSIZE.SIZE", 1, T, 0)) /\ Good(Fill("TXPBSIZE.SIZE", 1, T, 0))
  <2>1. \A r : \A i : \A f \in {"PFUTA.Bit_Vector", "PFVLVF.VI_En", "FTQF.Queue_Enable",
                                "RDRXCTL.RSCFRSTSIZE", "MTA.Bit_Vector", "RXPBSIZE.SIZE",
                                "TXPBSIZE.SIZE"} : Allowed(r, f, i, 0)
    BY InitAllowed
  <2>2. \A f \in {"PFUTA.Bit_Vector", "PFVLVF.VI_En", "FTQF.Queue_Enable", "RDRXCTL.RSCFRSTSIZE",
                  "MTA.Bit_Vector", "RXPBSIZE.SIZE", "TXPBSIZE.SIZE"} :
          Good(Fill(f, 0, T, 0)) /\ Good(Fill(f, 1, T, 0)) /\ Good(<<Change(f, 0, 0)>>)
    BY <1>0, <1>1, <1>3, <2>1
  <2> QED
    BY <2>2
<1>5. /\ Good(Fill("PFVLVF.VLAN_Id", 0, T, 0)) /\ Good(<<Change("MPSAR.POOL_ENA", 0, 1)>>)
      /\ Good(Fill("MPSAR.POOL_ENA", 1, T, 0)) /\ Good(Fill("PFVLVFB.POOL_ENA", 0, T, 0))
      /\ Good(<<Change("RTTDT1C.CRQ", 0, 0)>>)
      /\ \A v \in Int : Good(<<Change("RTTDQSEL.TXDQ_IDX", 0, v)>>)
  <2>1. \A v : \A r : \A i : \A f \in {"PFVLVF.VLAN_Id", "MPSAR.POOL_ENA", "PFVLVFB.POOL_ENA",
                                       "RTTDQSEL.TXDQ_IDX", "RTTDT1C.CRQ"} : Allowed(r, f, i, v)
    BY InitAllowed
  <2> DEFINE G(v) == \A f \in {"PFVLVF.VLAN_Id", "MPSAR.POOL_ENA", "PFVLVFB.POOL_ENA",
                                "RTTDQSEL.TXDQ_IDX", "RTTDT1C.CRQ"} :
                       /\ Good(Fill(f, 0, T, v)) /\ Good(Fill(f, 1, T, v))
                       /\ Good(<<Change(f, 0, v)>>)
  <2>2. \A v \in Int : G(v)
    BY <1>1, <1>3, <2>1
  <2>3. \A v \in Int : Good(<<Change("RTTDQSEL.TXDQ_IDX", 0, v)>>)
    BY <2>2
  <2> HIDE DEF G
  <2>4. G(0) /\ G(1)
    BY <1>0, <2>2
  <2> QED
    BY <2>3, <2>4 DEF G
<1>6. /\ Good(<<Change("RDRXCTL.CRCStrip", 0, 1)>>) /\ Good(<<Change("RDRXCTL.RSCACKC", 0, 1)>>)
      /\ Good(<<Change("RDRXCTL.FCOE_WRFIX", 0, 1)>>) /\ Good(<<Change("MFLCN.RFCE", 0, 1)>>)
      /\ Good(<<Change("FCCFG.TFCE", 0, 1)>>)
  <2>1. \A r : \A i : \A f \in {"RDRXCTL.CRCStrip", "RDRXCTL.RSCACKC", "RDRXCTL.FCOE_WRFIX",
                                "MFLCN.RFCE", "FCCFG.TFCE"} : Allowed(r, f, i, 1)
    BY InitAllowed
  <2> QED
    BY <1>0, <1>1, <1>3, <2>1
<1> DEFINE Arbiter(v) == /\ Good(<<Change("RTTDCS.ARBDIS", 0, v)>>)
                         /\ Good(<<Change("TXPBTHRESH.THRESH", 0, v)>>)
<1>7. \A v \in Int : Arbiter(v)
  <2>1. \A v : \A r : \A i : \A f \in {"RTTDCS.ARBDIS", "TXPBTHRESH.THRESH"} : Allowed(r, f, i, v)
    BY InitAllowed
  <2> QED
    BY <1>0, <1>1, <1>3, <2>1
<1> HIDE DEF Arbiter
<1>8. Good(<<Change("DTXMXSZRQ.Max_bytes_num_req", 0, 4095)>>)
  <2>1. \A r : \A i : Allowed(r, "DTXMXSZRQ.Max_bytes_num_req", i, 4095)
    BY InitAllowed
  <2> QED
    BY <1>0, <1>1, <1>3, <2>1
<1>9. Good(FlattenSeq(queues))
  <2>1. ASSUME NEW k \in 1 .. TransmitQueuesCount
        PROVE  Good(queue(k))
    <3>1. k - 1 \in Int
      BY <1>0
    <3>2. Good(<<Change("RTTDQSEL.TXDQ_IDX", 0, k - 1)>>)
      BY <1>5, <3>1
    <3>3. queue(k) = <<Change("RTTDQSEL.TXDQ_IDX", 0, k - 1)>> \o <<Change("RTTDT1C.CRQ", 0, 0)>>
      OBVIOUS
    <3> HIDE DEF queue
    <3> QED
      BY <1>2, <1>5, <3>2, <3>3
  <2> HIDE DEF queue
  <2>2. queues \in Seq({queue(k) : k \in 1 .. TransmitQueuesCount})
    BY <1>0
  <2>3. Len(queues) = TransmitQueuesCount /\ \A k \in 1 .. Len(queues) : queues[k] = queue(k)
    BY <1>0, <2>2
  <2> HIDE DEF queues
  <2>4. \A k \in 1 .. Len(queues) : AreHarmless(queues[k], F)
    BY <2>1, <2>3 DEF Good
  <2>5. AreHarmless(FlattenSeq(queues), F)
    BY <1>0, <2>3, <2>4, HarmlessFlatten
  <2> QED
    BY <2>5 DEF Good
<1>10. << Change("RDRXCTL.CRCStrip", 0, 1), Change("RDRXCTL.RSCFRSTSIZE", 0, 0),
          Change("RDRXCTL.RSCACKC", 0, 1), Change("RDRXCTL.FCOE_WRFIX", 0, 1) >>
         = <<Change("RDRXCTL.CRCStrip", 0, 1)>> \o <<Change("RDRXCTL.RSCFRSTSIZE", 0, 0)>>
           \o <<Change("RDRXCTL.RSCACKC", 0, 1)>> \o <<Change("RDRXCTL.FCOE_WRFIX", 0, 1)>>
  OBVIOUS
<1>11. << Change("MFLCN.RFCE", 0, 1), Change("FCCFG.TFCE", 0, 1) >>
         = <<Change("MFLCN.RFCE", 0, 1)>> \o <<Change("FCCFG.TFCE", 0, 1)>>
  OBVIOUS
<1>12. Good(ReceiveInit)
  <2> DEFINE a1 == Fill("PFUTA.Bit_Vector", 0, T, 0)
             a2 == Fill("PFVLVF.VI_En", 0, T, 0)
             a3 == Fill("PFVLVF.VLAN_Id", 0, T, 0)
             a4 == <<Change("MPSAR.POOL_ENA", 0, 1)>>
             a5 == Fill("MPSAR.POOL_ENA", 1, T, 0)
             a6 == Fill("PFVLVFB.POOL_ENA", 0, T, 0)
             a7 == Fill("MTA.Bit_Vector", 0, T, 0)
             a8 == Fill("FTQF.Queue_Enable", 0, T, 0)
             a9 == << Change("RDRXCTL.CRCStrip", 0, 1), Change("RDRXCTL.RSCFRSTSIZE", 0, 0),
                      Change("RDRXCTL.RSCACKC", 0, 1), Change("RDRXCTL.FCOE_WRFIX", 0, 1) >>
             b1 == Fill("RXPBSIZE.SIZE", 1, T, 0)
             b2 == << Change("MFLCN.RFCE", 0, 1), Change("FCCFG.TFCE", 0, 1) >>
             b3 == FlattenSeq(queues)
  <2>1. ReceiveInit = a1 \o a2 \o a3 \o a4 \o a5 \o a6 \o a7 \o a8 \o a9 \o b1 \o b2 \o b3
    BY DEF ReceiveInit, T
  <2>2. Good(a9) /\ Good(b2)
    BY <1>2, <1>4, <1>6, <1>10, <1>11
  <2>3. Good(a1) /\ Good(a2) /\ Good(a3) /\ Good(a4) /\ Good(a5) /\ Good(a6) /\ Good(a7)
        /\ Good(a8) /\ Good(b1) /\ Good(b3)
    BY <1>4, <1>5, <1>9
  <2> HIDE DEF a1, a2, a3, a4, a5, a6, a7, a8, a9, b1, b2, b3
  <2>4. Good(a1 \o a2 \o a3 \o a4 \o a5 \o a6)
    BY <1>2, <2>3
  <2>5. Good(a1 \o a2 \o a3 \o a4 \o a5 \o a6 \o a7 \o a8 \o a9)
    BY <1>2, <2>2, <2>3, <2>4
  <2> QED
    BY <1>2, <2>1, <2>2, <2>3, <2>5
<1>13. Good(TransmitInit)
  <2> DEFINE a1 == <<Change("RTTDCS.ARBDIS", 0, 1)>>
             a2 == Fill("TXPBSIZE.SIZE", 1, T, 0)
             threshold == 160 - PACKET_BUFFER_SIZE \div 1024
             a3 == <<Change("TXPBTHRESH.THRESH", 0, threshold)>>
             a4 == <<Change("DTXMXSZRQ.Max_bytes_num_req", 0, 4095)>>
             a5 == <<Change("RTTDCS.ARBDIS", 0, 0)>>
             a6 == << Change("TXPBTHRESH.THRESH", 0, threshold),
                      Change("DTXMXSZRQ.Max_bytes_num_req", 0, 4095),
                      Change("RTTDCS.ARBDIS", 0, 0) >>
  <2>1. TransmitInit = a1 \o a2 \o a6
    BY DEF TransmitInit, T
  <2>2. a6 = a3 \o a4 \o a5
    OBVIOUS
  <2>3. Arbiter(0) /\ Arbiter(1) /\ Arbiter(threshold)
    BY <1>0, <1>7
  <2>4. Good(a1) /\ Good(a2) /\ Good(a3) /\ Good(a4) /\ Good(a5)
    BY <1>4, <1>8, <2>3 DEF Arbiter
  <2> HIDE DEF a1, a2, a3, a4, a5, a6
  <2> QED
    BY <1>2, <2>1, <2>2, <2>4
<1> QED
  BY <1>2, <1>12, <1>13 DEF Good, F

-----------------------------------------------------------------------------
(* What matters of the registers, and what leaves it alone.                *)

\* The registers that are looked at exist.
LEMMA WatchedFields ==
  /\ ReceiveFields \subseteq Fields
  /\ {"TXDCTL.ENABLE", "STATUS.PCIe_Master_Enable_Status",
      "DEVICE_STATUS.Transaction_Pending"} \subseteq Fields
  /\ \A f \in Fields : 0 \in DOMAIN PowerOn[f]
  /\ DOMAIN PowerOn["TXDCTL.ENABLE"] = 0 .. TransmitQueuesCount - 1
<1>1. DOMAIN DeviceReset \subseteq Fields /\ \A f \in Fields : 0 \in DOMAIN PowerOn[f]
  BY RegisterShapes
<1>2. {"RXCTRL.RXEN", "RXDCTL.ENABLE", "TXDCTL.ENABLE", "STATUS.PCIe_Master_Enable_Status",
       "RDBA", "RDT.RDT", "FCTRL.UPE", "FCTRL.MPE", "SECRXSTAT.SECRX_RDY"} \subseteq Fields
  BY <1>1, ResetValues
<1>3. /\ {"DEVICE_STATUS.Transaction_Pending"} \subseteq Fields
      /\ DOMAIN PowerOn["TXDCTL.ENABLE"] = 0 .. TransmitQueuesCount - 1
  BY ResetValues
<1> QED
  BY <1>1, <1>2, <1>3 DEF ReceiveFields

\* What decides whether a device receives stays as it is.
LEMMA ReceiveKept ==
  ASSUME NEW e, NEW g, NEW F, ChangedIn(e, g, F), F \cap ReceiveFields = {}
  PROVE  /\ g.regs["RXCTRL.RXEN"][0] = e.regs["RXCTRL.RXEN"][0]
         /\ ReceivesSafely(e) => ReceivesSafely(g)
         /\ FiltersAreOpen(e) => FiltersAreOpen(g)
         /\ HasReceiveRing(e) => HasReceiveRing(g)
         /\ QueueIsReady(e) => QueueIsReady(g)
         /\ ReceiveIsOff(e) => ReceiveIsOff(g)
<1>1. \A f \in ReceiveFields : g.regs[f][0] = e.regs[f][0]
  BY WatchedFields DEF ChangedIn
<1>2. \A w \in g.due : w.field \in ReceiveFields => w \in e.due
  BY DEF ChangedIn
<1>3. /\ g.regs["RXCTRL.RXEN"][0] = e.regs["RXCTRL.RXEN"][0]
      /\ g.regs["RXDCTL.ENABLE"][0] = e.regs["RXDCTL.ENABLE"][0]
      /\ g.regs["RDBA"][0] = e.regs["RDBA"][0]
      /\ g.regs["RDT.RDT"][0] = e.regs["RDT.RDT"][0]
      /\ g.regs["FCTRL.UPE"][0] = e.regs["FCTRL.UPE"][0]
      /\ g.regs["FCTRL.MPE"][0] = e.regs["FCTRL.MPE"][0]
      /\ g.regs["SECRXSTAT.SECRX_RDY"][0] = e.regs["SECRXSTAT.SECRX_RDY"][0]
      /\ "RXDCTL.ENABLE" \in ReceiveFields
  BY <1>1 DEF ReceiveFields
<1>4. /\ FiltersAreOpen(e) => FiltersAreOpen(g)
      /\ HasReceiveRing(e) => HasReceiveRing(g)
      /\ QueueIsReady(e) => QueueIsReady(g)
  BY <1>3 DEF FiltersAreOpen, HasReceiveRing, QueueIsReady
<1>5. ReceivesSafely(e) => ReceivesSafely(g)
  BY <1>2, <1>3, <1>4 DEF ReceivesSafely
<1>6. ReceiveIsOff(e) => ReceiveIsOff(g)
  BY <1>2, <1>3 DEF ReceiveIsOff
<1> QED
  BY <1>3, <1>4, <1>5, <1>6

\* And so do the transmit queues.
LEMMA TransmitKept ==
  ASSUME NEW e, NEW g, NEW F, ChangedIn(e, g, F), "TXDCTL.ENABLE" \notin F, NEW q \in Nat,
         TransmitIsOff(e, q)
  PROVE  TransmitIsOff(g, q)
<1>1. q < TransmitQueuesCount => q \in DOMAIN PowerOn["TXDCTL.ENABLE"]
  BY WatchedFields, QueuesAssumption
<1>2. q < TransmitQueuesCount => g.regs["TXDCTL.ENABLE"][q] = e.regs["TXDCTL.ENABLE"][q]
  BY <1>1, WatchedFields DEF ChangedIn
<1>3. \A w \in g.due : w.field = "TXDCTL.ENABLE" => w \in e.due
  BY DEF ChangedIn
<1> QED
  BY <1>2, <1>3 DEF TransmitIsOff

\* A register reads as what was written.
LEMMA ReadsAsWritten ==
  ASSUME NEW e, IsDevice(e), NEW f \in Fields, NEW i \in DOMAIN PowerOn[f], NEW v,
         f \notin {"CTRL.RST", "DMATXCTL.TE", "TDBA", "RDBA"} \cup Delayed
  PROVE  WriteTo(e, Change(f, i, v)).regs[f][i] = v
<1> DEFINE w == Change(f, i, v)
<1>1. w.field = f /\ w.index = i /\ w.value = v
  BY DEF Change
<1> HIDE DEF w
<1>2. ~ Is(w, "CTRL.RST", 1) /\ ~ Is(w, "DMATXCTL.TE", 1) /\ w.field \notin Delayed
  BY <1>1 DEF Is
<1>3. WriteTo(e, w).regs[f][i] = ValueAfter(e.regs, w, f, i)
  BY <1>2, AfterWrite
<1>4. Kept(w) = v
  BY <1>1 DEF Kept
<1> QED
  BY <1>1, <1>2, <1>3, <1>4 DEF ValueAfter, w

\* A delayed field does not.
LEMMA ReadsAsBefore ==
  ASSUME NEW e, NEW f \in Delayed, NEW i, NEW v
  PROVE  WriteTo(e, Change(f, i, v)).regs = e.regs
<1> DEFINE w == Change(f, i, v)
<1>1. w.field = f /\ w.value = v /\ f # "CTRL.RST" /\ f # "DMATXCTL.TE"
  BY DEF Change, Delayed
<1> HIDE DEF w
<1>2. ~ Is(w, "CTRL.RST", 1) /\ ~ Is(w, "DMATXCTL.TE", 1) /\ w.field \in Delayed
  BY <1>1 DEF Is
<1>3. Written(e.regs, w) = e.regs
  BY <1>2, WrittenIs
<1> QED
  BY <1>3 DEF WriteTo, w

\* Three writes.
Three(u, a, b, c) == Len(u) = 3 /\ u[1] = a /\ u[2] = b /\ u[3] = c

\* They are done in their order.
LEMMA WriteThree ==
  ASSUME NEW e, NEW a, NEW b, NEW c, NEW u, Three(u, a, b, c)
  PROVE  WriteAll(e, u) = WriteTo(WriteTo(WriteTo(e, a), b), c)
<1>1. Len(u) = 3 /\ u[1] = a /\ u[2] = b /\ u[3] = c
  BY DEF Three
<1>2. PICK F : Writing(F, e, u, Len(u)) /\ WriteAll(e, u) = F[Len(u)]
  <2>1. Len(u) \in Nat
    BY <1>1
  <2> QED
    BY <2>1, WriteAllWrites
<1>3. F[0] = e /\ \A k \in 1 .. 3 : F[k] = WriteTo(F[k - 1], u[k])
  BY <1>1, <1>2 DEF Writing
<1>4. F[1] = WriteTo(e, a) /\ F[2] = WriteTo(F[1], b) /\ F[3] = WriteTo(F[2], c)
  BY <1>1, <1>3
<1> QED
  BY <1>1, <1>2, <1>4

-----------------------------------------------------------------------------
(* What the driver writes while it sets a device up.                       *)

\* What the hardware is asked for.
LEMMA DueIs ==
  ASSUME NEW f, NEW i, NEW v
  PROVE  /\ f \notin SideFields \cup Delayed => Due(Change(f, i, v)) = {}
         /\ f \in Delayed => Due(Change(f, i, v)) = {Change(f, i, v)}
         /\ Due(Change("SECRXCTRL.RX_DIS", i, 1)) = {Change("SECRXSTAT.SECRX_RDY", 0, 1)}
         /\ Due(Change("SECRXCTRL.RX_DIS", i, 0)) = {}
         /\ Due(Change("CTRL.PCIe_Master_Disable", i, 1))
              = {Change("STATUS.PCIe_Master_Enable_Status", 0, 0),
                 Change("DEVICE_STATUS.Transaction_Pending", 0, 0)}
<1>1. \A g, w : Change(g, i, w).field = g /\ Change(g, i, w).value = w
  BY DEF Change
<1>2. f \notin SideFields \cup Delayed => Due(Change(f, i, v)) = {}
  BY <1>1 DEF Due, Is, SideFields
<1>3. f \in Delayed => Due(Change(f, i, v)) = {Change(f, i, v)}
  BY <1>1 DEF Due, Is, Delayed
<1>4. /\ Due(Change("SECRXCTRL.RX_DIS", i, 1)) = {Change("SECRXSTAT.SECRX_RDY", 0, 1)}
      /\ Due(Change("SECRXCTRL.RX_DIS", i, 0)) = {}
  BY <1>1 DEF Due, Is, Delayed
<1>5. Due(Change("CTRL.PCIe_Master_Disable", i, 1))
        = {Change("STATUS.PCIe_Master_Enable_Status", 0, 0),
           Change("DEVICE_STATUS.Transaction_Pending", 0, 0)}
  BY <1>1 DEF Due, Is, Delayed
<1> QED
  BY <1>2, <1>3, <1>4, <1>5

\* The fields of the PCI configuration space that the driver writes.
PciFields == {"COMMAND.BME", "COMMAND.Mem_Access_En", "COMMAND.Interrupt_Dis"}

\* A device that nobody wrote to, as a previous driver left it.
LEMMA LeftBehindIs ==
  ASSUME NEW e, IsDevice(e), IsFresh(e), NEW receives \in [0 .. ReceiveQueuesCount - 1 -> {0, 1}],
         NEW rxen, NEW pending, NEW g, g = LeftBehind(e, receives, rxen, pending)
  PROVE  /\ IsDevice(g) /\ g.due = {} /\ g.refused = e.refused
         /\ g.regs["STATUS.PCIe_Master_Enable_Status"][0] = 1
<1> DEFINE enabled == [e.regs EXCEPT !["RXDCTL.ENABLE"] = receives]
           one == Put(enabled, "RXCTRL.RXEN", 0, rxen)
           two == Put(one, "DEVICE_STATUS.Transaction_Pending", 0, pending)
           status == "STATUS.PCIe_Master_Enable_Status"
<1>1. g = [regs |-> two, due |-> {}, refused |-> e.refused]
  BY DEF LeftBehind, IsFresh
<1>2. AreRegisters(e.regs) /\ DOMAIN e.regs = Fields
  BY DEF IsDevice, AreRegisters
<1>3. enabled = [f \in Fields |-> IF f = "RXDCTL.ENABLE" THEN receives ELSE e.regs[f]]
  BY <1>2
<1> HIDE DEF enabled
<1>4. ASSUME NEW f \in Fields
      PROVE  enabled[f] = [i \in DOMAIN PowerOn[f] |-> enabled[f][i]]
  <2>1. CASE f = "RXDCTL.ENABLE"
    BY <1>3, <2>1, ResetValues
  <2>2. CASE f # "RXDCTL.ENABLE"
    BY <1>2, <1>3, <2>2 DEF AreRegisters
  <2> QED
    BY <2>1, <2>2
<1>5. enabled = [f \in Fields |-> enabled[f]]
  BY <1>3
<1>6. AreRegisters(enabled)
  BY <1>4, <1>5 DEF AreRegisters
<1>7. status \in Fields /\ 0 \in DOMAIN PowerOn[status]
  BY WatchedFields
<1>8. enabled[status][0] = 1
  <2>1. enabled[status] = e.regs[status]
    BY <1>3, <1>7
  <2>2. e.regs[status] = DeviceReset[status] /\ DeviceReset[status][0] = 1
    BY ResetValues, RegisterShapes DEF IsFresh
  <2> QED
    BY <2>1, <2>2
<1>9. AreRegisters(one) /\ one[status][0] = 1
  BY <1>6, <1>7, <1>8, PutPuts
<1> HIDE DEF one
<1>10. AreRegisters(two) /\ two[status][0] = 1
  BY <1>7, <1>9, PutPuts
<1> HIDE DEF two
<1> QED
  BY <1>1, <1>10 DEF IsDevice

\* The driver writes to the PCI configuration space.
LEMMA PciWrites ==
  ASSUME NEW e, IsDevice(e), e.due = {}, e.regs["STATUS.PCIe_Master_Enable_Status"][0] = 1,
         NEW g, g = WriteAll(e, << Change("COMMAND.BME", 0, 1),
                                   Change("COMMAND.Mem_Access_En", 0, 1),
                                   Change("COMMAND.Interrupt_Dis", 0, 1) >>)
  PROVE  IsDevice(g) /\ IsResetting(g) /\ g.refused = e.refused
<1> DEFINE F == PciFields
           one == <<Change("COMMAND.BME", 0, 1)>>
           two == <<Change("COMMAND.Mem_Access_En", 0, 1)>>
           three == <<Change("COMMAND.Interrupt_Dis", 0, 1)>>
           ws == << Change("COMMAND.BME", 0, 1), Change("COMMAND.Mem_Access_En", 0, 1),
                    Change("COMMAND.Interrupt_Dis", 0, 1) >>
<1>1. \A f \in F : f \notin SideFields /\ \A r : Allowed(r, f, 0, 1)
  BY DEF Allowed, pci_setup, PciFields, SideFields
<1>2. "COMMAND.BME" \in F /\ "COMMAND.Mem_Access_En" \in F /\ "COMMAND.Interrupt_Dis" \in F
  BY DEF PciFields
<1>3. ws = one \o two \o three
  OBVIOUS
<1> HIDE DEF F
<1>4. \A f \in F : AreHarmless(<<Change(f, 0, 1)>>, F)
  <2>1. 0 \in Int /\ 1 \in Int
    OBVIOUS
  <2> QED
    BY <1>1, <2>1, HarmlessWrite
<1>5. AreHarmless(one, F) /\ AreHarmless(two, F) /\ AreHarmless(three, F)
  BY <1>2, <1>4
<1> HIDE DEF one, two, three
<1>6. AreHarmless(one \o two, F)
  BY <1>5, HarmlessTogether
<1>7. AreHarmless(one \o two \o three, F)
  BY <1>5, <1>6, HarmlessTogether
<1>8. AreHarmless(ws, F) /\ g = WriteAll(e, ws)
  BY <1>3, <1>7
<1> HIDE DEF ws
<1>9. ChangedIn(e, g, F)
  BY <1>8, HarmlessWrites
<1>10. /\ "STATUS.PCIe_Master_Enable_Status" \in Fields \ F
       /\ 0 \in DOMAIN PowerOn["STATUS.PCIe_Master_Enable_Status"]
  BY WatchedFields DEF F, PciFields
<1>11. g.regs["STATUS.PCIe_Master_Enable_Status"][0] = 1
  BY <1>9, <1>10 DEF ChangedIn
<1>12. \A w \in g.due : w.field \in F
  BY <1>9 DEF ChangedIn
<1>13. IsResetting(g)
  BY <1>11, <1>12 DEF IsResetting, F, PciFields
<1> QED
  BY <1>9, <1>13 DEF ChangedIn

\* Receive queues are disabled one by one.
LEMMA DisableReceiveWrites ==
  ASSUME NEW e, IsDevice(e), IsResetting(e), NEW i,
         NEW g, g = WriteAll(e, << Change("RXDCTL.ENABLE", i, 0) >>)
  PROVE  IsDevice(g) /\ IsResetting(g) /\ g.refused = e.refused /\ g.regs = e.regs
<1> DEFINE w == Change("RXDCTL.ENABLE", i, 0)
<1>1. w.field = "RXDCTL.ENABLE" /\ w.index = i /\ w.value = 0
  BY DEF Change
<1>2. g = WriteTo(e, w)
  BY WriteOne
<1>3. Due(w) = {w} /\ g.regs = e.regs
  BY <1>2, DueIs, ReadsAsBefore DEF Delayed, SideFields
<1> HIDE DEF w
<1>5. Allowed(e.regs, w.field, w.index, w.value)
  BY <1>1 DEF Allowed, master_disable
<1>6. IsDevice(g) /\ g.refused = e.refused /\ g.due = e.due \cup {w}
  <2>1. w.field # "CTRL.RST"
    BY <1>1
  <2>2. Touched(w) \subseteq Touched(w)
    OBVIOUS
  <2>3. ChangedIn(e, WriteTo(e, w), Touched(w)) /\ WriteTo(e, w).due = e.due \cup Due(w)
    BY <1>5, <2>1, <2>2, AllowedWrite
  <2> QED
    BY <1>2, <1>3, <2>3 DEF ChangedIn
<1>7. IsResetting(g)
  BY <1>1, <1>3, <1>6 DEF IsResetting
<1> QED
  BY <1>3, <1>6, <1>7 DEF ChangedIn

\* The device is asked to stop being a bus master.
LEMMA MasterDisableWrites ==
  ASSUME NEW e, IsDevice(e), IsResetting(e), e.regs["RXDCTL.ENABLE"][0] = 0,
         NEW g, g = WriteAll(e, << Change("CTRL.PCIe_Master_Disable", 0, 1) >>)
  PROVE  IsDevice(g) /\ IsResetting(g) /\ g.refused = e.refused
<1> DEFINE w == Change("CTRL.PCIe_Master_Disable", 0, 1)
           status == "STATUS.PCIe_Master_Enable_Status"
           pending == "DEVICE_STATUS.Transaction_Pending"
<1>1. w.field = "CTRL.PCIe_Master_Disable" /\ w.index = 0 /\ w.value = 1
  BY DEF Change
<1>2. g = WriteTo(e, w)
  BY WriteOne
<1>3. Due(w) = {Change(status, 0, 0), Change(pending, 0, 0)}
  BY DueIs
<1> HIDE DEF w
<1>4. WriteTo(e, w).regs[status][0] = e.regs[status][0]
  <2>1. ~ Is(w, "CTRL.RST", 1)
    BY <1>1 DEF Is
  <2>2. status \in Fields /\ 0 \in DOMAIN PowerOn[status]
    BY WatchedFields
  <2>3. ValueAfter(e.regs, w, status, 0) = e.regs[status][0]
    BY <1>1 DEF ValueAfter, Is, Delayed
  <2> QED
    BY <2>1, <2>2, <2>3, AfterWrite
<1>5. Allowed(e.regs, w.field, w.index, w.value)
  BY <1>1 DEF Allowed, master_disable
<1>6. IsDevice(g) /\ g.refused = e.refused /\ g.due = e.due \cup Due(w)
  <2>1. w.field # "CTRL.RST"
    BY <1>1
  <2>2. Touched(w) \subseteq Touched(w)
    OBVIOUS
  <2>3. ChangedIn(e, WriteTo(e, w), Touched(w)) /\ WriteTo(e, w).due = e.due \cup Due(w)
    BY <1>5, <2>1, <2>2, AllowedWrite
  <2> QED
    BY <1>2, <2>3 DEF ChangedIn
<1>7. \A c \in Due(w) : c.value = 0
  BY <1>3 DEF Change
<1>8. IsResetting(g)
  BY <1>2, <1>4, <1>6, <1>7 DEF IsResetting
<1> QED
  BY <1>6, <1>8

\* What the driver waits for after a reset.
AfterResetDue == {Change("EEC.Auto_RD", 0, 1), Change("RDRXCTL.DMAIDONE", 0, 1)}

\* A device that was reset neither receives nor sends.
IsReset(e) ==
  /\ e.regs["RXCTRL.RXEN"][0] = 0
  /\ ReceiveIsOff(e) /\ ReceivesSafely(e) /\ \A q \in Nat : TransmitIsOff(e, q)

\* One write that resets the device.
LEMMA ResetWrite ==
  ASSUME NEW e, IsDevice(e), NEW g, g = WriteTo(e, Change("CTRL.RST", 0, 1))
  PROVE  /\ IsDevice(g) /\ IsReset(g) /\ IsResetting(g) /\ g.refused = e.refused
<1> DEFINE w == Change("CTRL.RST", 0, 1)
<1>1. w.field = "CTRL.RST" /\ w.index = 0 /\ w.value = 1 /\ Is(w, "CTRL.RST", 1)
  BY DEF Change, Is
<1>2. g = WriteTo(e, w)
  OBVIOUS
<1> HIDE DEF w
<1>3. Allowed(e.regs, w.field, w.index, w.value)
  BY <1>1 DEF Allowed, software_reset
<1>4. g.refused = e.refused
  BY <1>2, <1>3 DEF WriteTo
<1>5. /\ IsDevice(g) /\ g.due = AfterResetDue
      /\ \A f \in DOMAIN DeviceReset : g.regs[f] = DeviceReset[f]
  BY <1>1, <1>2, AfterReset DEF AfterResetDue
<1>6. /\ g.regs["RXCTRL.RXEN"][0] = 0 /\ g.regs["RXDCTL.ENABLE"][0] = 0
      /\ g.regs["STATUS.PCIe_Master_Enable_Status"][0] = 1
      /\ \A q \in 0 .. TransmitQueuesCount - 1 : g.regs["TXDCTL.ENABLE"][q] = 0
  BY <1>5, ResetValues
<1>7. \A c \in g.due : c.field \in {"EEC.Auto_RD", "RDRXCTL.DMAIDONE"}
  BY <1>5 DEF AfterResetDue, Change
<1>8. ReceiveIsOff(g)
  BY <1>6, <1>7 DEF ReceiveIsOff
<1>9. ReceivesSafely(g)
  BY <1>6, <1>7 DEF ReceivesSafely, ReceiveFields
<1>10. ASSUME NEW q \in Nat
       PROVE  TransmitIsOff(g, q)
  <2>1. q < TransmitQueuesCount => q \in 0 .. TransmitQueuesCount - 1
    BY QueuesAssumption
  <2> QED
    BY <1>6, <1>7, <2>1 DEF TransmitIsOff
<1>11. IsResetting(g)
  BY <1>6, <1>7 DEF IsResetting
<1> QED
  BY <1>4, <1>5, <1>6, <1>8, <1>9, <1>10, <1>11 DEF IsReset

\* The fields that a flush writes exist.
LEMMA FlushFields ==
  /\ "HLREG0.LPBK" \in Fields /\ "GRC_EXT.Buffers_Clear_Func" \in Fields
  /\ "RXCTRL.RXEN" \in Fields /\ 0 \in DOMAIN PowerOn["HLREG0.LPBK"]
  /\ 0 \in DOMAIN PowerOn["RXCTRL.RXEN"]
<1>1. /\ Row("HLREG0.LPBK", 1, 0) \in AllRows /\ Row("GRC_EXT.Buffers_Clear_Func", 1, 0) \in AllRows
      /\ AllRows \subseteq AllRows
  BY DEF AllRows, DeviceTable, MacReset
<1>2. ASSUME NEW row \in AllRows
      PROVE  row.field \in Fields
  BY <1>1, TableRegisters DEF Fields, PowerOn, AllRows
<1>3. /\ Row("HLREG0.LPBK", 1, 0).field = "HLREG0.LPBK"
      /\ Row("GRC_EXT.Buffers_Clear_Func", 1, 0).field = "GRC_EXT.Buffers_Clear_Func"
  BY DEF Row
<1>4. "HLREG0.LPBK" \in Fields /\ "GRC_EXT.Buffers_Clear_Func" \in Fields
  BY <1>1, <1>2, <1>3
<1>5. "RXCTRL.RXEN" \in Fields
  BY WatchedFields DEF ReceiveFields
<1> QED
  BY <1>4, <1>5, WatchedFields

\* A flush, whose first write the data sheet refuses if the device stopped
\* being a bus master meanwhile.
LEMMA FlushWrites ==
  ASSUME NEW e, IsDevice(e), IsResetting(e),
         e.regs["DEVICE_STATUS.Transaction_Pending"][0] = 0,
         NEW g, g = WriteAll(e, << Change("HLREG0.LPBK", 0, 1), Change("RXCTRL.RXEN", 0, 0),
                                   Change("GRC_EXT.Buffers_Clear_Func", 0, 1),
                                   Change("HLREG0.LPBK", 0, 0),
                                   Change("GRC_EXT.Buffers_Clear_Func", 0, 0),
                                   Change("CTRL.RST", 0, 1) >>)
  PROVE  /\ IsDevice(g) /\ IsResetting(g)
         /\ \/ g.refused = e.refused
            \/ /\ e.regs["STATUS.PCIe_Master_Enable_Status"][0] = 0
               /\ g.refused = e.refused \cup {"HLREG0.LPBK"}
<1> DEFINE loopback == "HLREG0.LPBK"
           clear == "GRC_EXT.Buffers_Clear_Func"
           receive == "RXCTRL.RXEN"
           first == << Change(loopback, 0, 1), Change(receive, 0, 0), Change(clear, 0, 1) >>
           last == << Change(loopback, 0, 0), Change(clear, 0, 0), Change("CTRL.RST", 0, 1) >>
           flush == << Change(loopback, 0, 1), Change(receive, 0, 0), Change(clear, 0, 1),
                       Change(loopback, 0, 0), Change(clear, 0, 0), Change("CTRL.RST", 0, 1) >>
           e1 == WriteTo(e, Change(loopback, 0, 1))
           e2 == WriteTo(e1, Change(receive, 0, 0))
           e3 == WriteTo(e2, Change(clear, 0, 1))
           e4 == WriteTo(e3, Change(loopback, 0, 0))
           e5 == WriteTo(e4, Change(clear, 0, 0))
           S == {Change(f, 0, v) : f \in {loopback, receive, clear, "CTRL.RST"}, v \in {0, 1}}
<1>0. \A f, v : Change(f, 0, v).field = f /\ Change(f, 0, v).index = 0 /\ Change(f, 0, v).value = v
  BY DEF Change
<1>1. g = WriteTo(e5, Change("CTRL.RST", 0, 1))
  <2>1. Joins(flush, first, last)
    BY DEF Joins
  <2>2. first \in Seq(S) /\ last \in Seq(S)
    <3>1. \A f \in {loopback, receive, clear, "CTRL.RST"}, v \in {0, 1} : Change(f, 0, v) \in S
      OBVIOUS
    <3>2. /\ Change(loopback, 0, 1) \in S /\ Change(receive, 0, 0) \in S
          /\ Change(clear, 0, 1) \in S /\ Change(loopback, 0, 0) \in S
          /\ Change(clear, 0, 0) \in S /\ Change("CTRL.RST", 0, 1) \in S
      BY <3>1
    <3> HIDE DEF S
    <3> QED
      BY <3>2
  <2>3. Three(first, Change(loopback, 0, 1), Change(receive, 0, 0), Change(clear, 0, 1))
    BY DEF Three
  <2>4. Three(last, Change(loopback, 0, 0), Change(clear, 0, 0), Change("CTRL.RST", 0, 1))
    BY DEF Three
  <2>5. g = WriteAll(e, flush)
    OBVIOUS
  <2> HIDE DEF flush, first, last, S, e3, e5
  <2>6. WriteAll(e, flush) = WriteAll(WriteAll(e, first), last)
    BY <2>1, <2>2, WriteTogether
  <2>7. WriteAll(e, first) = e3
    BY <2>3, WriteThree DEF e3
  <2>8. WriteAll(e3, last) = WriteTo(e5, Change("CTRL.RST", 0, 1))
    BY <2>4, WriteThree DEF e5
  <2> QED
    BY <2>5, <2>6, <2>7, <2>8
<1>2. /\ IsDevice(e1) /\ e1.regs[loopback][0] = 1
      /\ \/ e1.refused = e.refused
         \/ /\ e.regs["STATUS.PCIe_Master_Enable_Status"][0] = 0
            /\ e1.refused = e.refused \cup {loopback}
  <2> DEFINE w == Change(loopback, 0, 1)
  <2>1. w.field = loopback /\ w.index = 0 /\ w.value = 1
    BY <1>0
  <2>2. e1.regs[loopback][0] = 1
    BY FlushFields, ReadsAsWritten DEF Delayed
  <2> HIDE DEF w
  <2>3. ~ Is(w, "CTRL.RST", 1)
    BY <2>1 DEF Is
  <2>4. IsDevice(WriteTo(e, w))
    BY <2>3, AfterWrite
  <2>5. e.regs["STATUS.PCIe_Master_Enable_Status"][0] # 0 =>
          Allowed(e.regs, w.field, w.index, w.value)
    BY <2>1, SMTT(20) DEF Allowed, master_disable, IsResetting
  <2>6. \/ WriteTo(e, w).refused = e.refused
        \/ /\ e.regs["STATUS.PCIe_Master_Enable_Status"][0] = 0
           /\ WriteTo(e, w).refused = e.refused \cup {loopback}
    BY <2>1, <2>5 DEF WriteTo
  <2> QED
    BY <2>2, <2>4, <2>6 DEF w
<1> HIDE DEF e1
<1>3. /\ IsDevice(e2) /\ e2.regs[loopback][0] = 1 /\ e2.regs[receive][0] = 0
      /\ e2.refused = e1.refused
  <2> DEFINE w == Change(receive, 0, 0)
  <2>1. w.field = receive /\ w.index = 0 /\ w.value = 0
    BY <1>0
  <2>2. e2.regs[receive][0] = 0
    BY <1>2, FlushFields, ReadsAsWritten DEF Delayed
  <2>3. Touched(w) \subseteq {receive}
    BY TouchesItself DEF SideFields
  <2> HIDE DEF w
  <2>4. e1.regs[w.field][w.index] = w.value \/ Allowed(e1.regs, w.field, w.index, w.value)
    BY <2>1 DEF Allowed, promiscuous
  <2> DEFINE F == {receive}
  <2>5. w.field # "CTRL.RST" /\ Touched(w) \subseteq F /\ loopback \in Fields \ F
    BY <2>1, <2>3, FlushFields
  <2> HIDE DEF F
  <2>6. ChangedIn(e1, WriteTo(e1, w), F)
    BY <1>2, <2>4, <2>5, AllowedWrite
  <2> QED
    BY <1>2, <2>2, <2>5, <2>6, FlushFields DEF ChangedIn, w
<1> HIDE DEF e2
<1>4. IsDevice(e3) /\ e3.refused = e2.refused
  <2> DEFINE w == Change(clear, 0, 1)
  <2>1. w.field = clear /\ w.index = 0 /\ w.value = 1
    BY <1>0
  <2> HIDE DEF w
  <2>2. Allowed(e2.regs, w.field, w.index, w.value)
    BY <1>3, <2>1 DEF Allowed, master_disable
  <2>3. ~ Is(w, "CTRL.RST", 1)
    BY <2>1 DEF Is
  <2> QED
    BY <1>3, <2>2, <2>3, AfterWrite DEF WriteTo, w
<1> HIDE DEF e3
<1>5. ASSUME NEW h, IsDevice(h), NEW f \in {loopback, clear}
      PROVE  IsDevice(WriteTo(h, Change(f, 0, 0))) /\ WriteTo(h, Change(f, 0, 0)).refused = h.refused
  <2> DEFINE w == Change(f, 0, 0)
  <2>1. w.field = f /\ w.index = 0 /\ w.value = 0
    BY <1>0
  <2> HIDE DEF w
  <2>2. Allowed(h.regs, w.field, w.index, w.value)
    BY <1>5, <2>1 DEF Allowed, master_disable
  <2>3. ~ Is(w, "CTRL.RST", 1)
    BY <1>5, <2>1 DEF Is
  <2>4. IsDevice(WriteTo(h, w))
    BY <1>5, <2>3, AfterWrite
  <2>5. WriteTo(h, w).refused = h.refused
    BY <2>2 DEF WriteTo
  <2> QED
    BY <2>4, <2>5 DEF w
<1>6. IsDevice(e5) /\ e5.refused = e3.refused
  <2>1. IsDevice(e4) /\ e4.refused = e3.refused
    BY <1>4, <1>5
  <2> HIDE DEF e4
  <2> QED
    BY <1>5, <2>1
<1> HIDE DEF e5
<1>7. IsDevice(g) /\ IsResetting(g) /\ g.refused = e5.refused
  BY <1>1, <1>6, ResetWrite
<1> QED
  BY <1>2, <1>3, <1>4, <1>6, <1>7

-----------------------------------------------------------------------------

\* A sequence of writes to some fields is one of writes to more of them.
LEMMA WritesWiden ==
  ASSUME NEW F, NEW G, F \subseteq G, NEW s \in Seq(WriteType(F))
  PROVE  s \in Seq(WriteType(G))
<1>1. WriteType(F) \subseteq WriteType(G)
  BY DEF WriteType
<1> HIDE DEF WriteType
<1> QED
  BY <1>1

\* A reset changes nothing for the fields a harmless write leaves alone.
LEMMA ResetKept ==
  ASSUME NEW e, IsReset(e), NEW F, NEW ws, AreHarmless(ws, F), IsDevice(e),
         F \cap (ReceiveFields \cup {"TXDCTL.ENABLE"}) = {}
  PROVE  /\ IsDevice(WriteAll(e, ws)) /\ IsReset(WriteAll(e, ws))
         /\ WriteAll(e, ws).refused = e.refused
<1> DEFINE g == WriteAll(e, ws)
<1>1. ChangedIn(e, g, F)
  BY HarmlessWrites
<1> HIDE DEF g
<1>2. IsDevice(g) /\ g.refused = e.refused
  BY <1>1 DEF ChangedIn
<1>3. F \cap ReceiveFields = {} /\ "TXDCTL.ENABLE" \notin F
  OBVIOUS
<1>4. /\ g.regs["RXCTRL.RXEN"][0] = e.regs["RXCTRL.RXEN"][0]
      /\ ReceivesSafely(g) /\ ReceiveIsOff(g)
  BY <1>1, <1>3, ReceiveKept DEF IsReset
<1>5. ASSUME NEW q \in Nat
      PROVE  TransmitIsOff(g, q)
  BY <1>1, <1>3, TransmitKept DEF IsReset
<1>6. IsReset(g)
  BY <1>4, <1>5 DEF IsReset
<1> QED
  BY <1>2, <1>6 DEF g

\* The driver resets a device, masks its interrupts and sets its threshold.
LEMMA ResetWrites ==
  ASSUME NEW e, IsDevice(e),
         NEW g, g = WriteAll(e, << Change("CTRL.RST", 0, 1) >>
                                \o Fill("EIMC.Interrupt_Mask", 0, TableSize - 1, AllBits)
                                \o << Change("FCRTH.RTH", 0, Threshold) >>)
  PROVE  IsDevice(g) /\ IsReset(g) /\ g.refused = e.refused
<1> DEFINE F == {"EIMC.Interrupt_Mask", "FCRTH.RTH"}
           G == {"CTRL.RST", "EIMC.Interrupt_Mask", "FCRTH.RTH"}
           one == << Change("CTRL.RST", 0, 1) >>
           two == Fill("EIMC.Interrupt_Mask", 0, TableSize - 1, AllBits)
           three == << Change("FCRTH.RTH", 0, Threshold) >>
           onetwo == one \o two
           ws == onetwo \o three
           e1 == WriteTo(e, Change("CTRL.RST", 0, 1))
<1>1. AllBits \in Int /\ 0 \in Int /\ Threshold \in Int
  BY DEF AllBits, Threshold
<1>2. TableSize - 1 \in Int /\ TableSize - 1 >= 0 - 1
  BY TableAssumption
<1>3. AreHarmless(two, F)
  <2>1. \A r : \A i : Allowed(r, "EIMC.Interrupt_Mask", i, AllBits)
    BY DEF Allowed, init_sequence
  <2>2. "EIMC.Interrupt_Mask" \in F
    OBVIOUS
  <2> HIDE DEF F
  <2> QED
    BY <1>1, <1>2, <2>1, <2>2, HarmlessFill DEF SideFields
<1>4. AreHarmless(three, F)
  <2>1. \A r : Allowed(r, "FCRTH.RTH", 0, Threshold)
    BY DEF Allowed, global_reset
  <2>2. "FCRTH.RTH" \in F
    OBVIOUS
  <2> HIDE DEF F
  <2> QED
    BY <1>1, <2>1, <2>2, HarmlessWrite DEF SideFields
<1>5. F \cap (ReceiveFields \cup {"TXDCTL.ENABLE"}) = {} /\ F \subseteq G
  BY DEF ReceiveFields
<1>6. one \in Seq(WriteType(G))
  BY DEF WriteType, Change
<1>7. WriteAll(e, one) = e1
  BY WriteOne
<1>8. IsDevice(e1) /\ IsReset(e1) /\ e1.refused = e.refused
  BY ResetWrite
<1> HIDE DEF one, two, three, e1, F, G
<1>9. two \in Seq(WriteType(G)) /\ three \in Seq(WriteType(G))
  BY <1>3, <1>4, <1>5, WritesWiden DEF AreHarmless
<1>10. onetwo \in Seq(WriteType(G))
  BY <1>6, <1>9
<1>11. Joins(onetwo, one, two) /\ Joins(ws, onetwo, three)
  BY DEF Joins
<1>12. g = WriteAll(e, ws)
  BY DEF one, two, three
<1> HIDE DEF onetwo, ws
<1>13. WriteAll(e, onetwo) = WriteAll(e1, two)
  BY <1>6, <1>7, <1>9, <1>11, WriteTogether
<1>14. WriteAll(e, ws) = WriteAll(WriteAll(e, onetwo), three)
  BY <1>9, <1>10, <1>11, WriteTogether
<1> DEFINE e2 == WriteAll(e1, two)
<1>15. IsDevice(e2) /\ IsReset(e2) /\ e2.refused = e1.refused
  BY <1>3, <1>5, <1>8, ResetKept
<1> HIDE DEF e2
<1>16. /\ IsDevice(WriteAll(e2, three)) /\ IsReset(WriteAll(e2, three))
       /\ WriteAll(e2, three).refused = e2.refused
  BY <1>4, <1>5, <1>15, ResetKept
<1> QED
  BY <1>8, <1>12, <1>13, <1>14, <1>15, <1>16 DEF e2

\* What is configured between a reset and the filters.
LEMMA ConfigureWrites ==
  ASSUME NEW e, IsDevice(e), NEW g, g = WriteAll(e, ReceiveInit \o TransmitInit)
  PROVE  /\ IsDevice(g) /\ g.refused = e.refused
         /\ g.regs["RXCTRL.RXEN"][0] = e.regs["RXCTRL.RXEN"][0]
         /\ ReceivesSafely(e) => ReceivesSafely(g)
         /\ ReceiveIsOff(e) => ReceiveIsOff(g)
         /\ \A q \in Nat : TransmitIsOff(e, q) => TransmitIsOff(g, q)
<1> DEFINE F == InitFields
<1>1. ChangedIn(e, g, F)
  BY InitHarmless, HarmlessWrites
<1>2. F \cap ReceiveFields = {} /\ "TXDCTL.ENABLE" \notin F
  BY DEF InitFields, ReceiveFields
<1> HIDE DEF F
<1>3. IsDevice(g) /\ g.refused = e.refused
  BY <1>1 DEF ChangedIn
<1> QED
  BY <1>1, <1>2, <1>3, ReceiveKept, TransmitKept

\* Two writes.
Two(u, a, b) == Len(u) = 2 /\ u[1] = a /\ u[2] = b

\* They are done in their order.
LEMMA WriteTwo ==
  ASSUME NEW e, NEW a, NEW b, NEW u, Two(u, a, b)
  PROVE  WriteAll(e, u) = WriteTo(WriteTo(e, a), b)
<1>1. Len(u) = 2 /\ u[1] = a /\ u[2] = b
  BY DEF Two
<1>2. PICK F : Writing(F, e, u, Len(u)) /\ WriteAll(e, u) = F[Len(u)]
  <2>1. Len(u) \in Nat
    BY <1>1
  <2> QED
    BY <2>1, WriteAllWrites
<1>3. F[0] = e /\ \A k \in 1 .. 2 : F[k] = WriteTo(F[k - 1], u[k])
  BY <1>1, <1>2 DEF Writing
<1>4. F[1] = WriteTo(e, a) /\ F[2] = WriteTo(F[1], b)
  BY <1>1, <1>3
<1> QED
  BY <1>1, <1>2, <1>4

\* One filter is opened while the device does not receive.
LEMMA FilterWrite ==
  ASSUME NEW e, IsDevice(e), e.regs["RXCTRL.RXEN"][0] = 0,
         NEW f \in {"FCTRL.UPE", "FCTRL.MPE"}, NEW g, g = WriteTo(e, Change(f, 0, 1))
  PROVE  ChangedIn(e, g, {f}) /\ g.due = e.due /\ g.regs[f][0] = 1
<1> DEFINE w == Change(f, 0, 1)
<1>1. w.field = f /\ w.index = 0 /\ w.value = 1
  BY DEF Change
<1>2. f \in Fields /\ 0 \in DOMAIN PowerOn[f]
  BY WatchedFields DEF ReceiveFields
<1>3. f \notin SideFields \cup {"TDBA", "RDBA"} \cup Delayed
  BY DEF Delayed, SideFields
<1>4. g.regs[f][0] = 1
  BY <1>2, <1>3, ReadsAsWritten DEF SideFields
<1>5. Due(w) = {}
  BY <1>3, DueIs
<1>6. Touched(w) = {f}
  BY <1>3, TouchesItself
<1> HIDE DEF w
<1>7. Allowed(e.regs, w.field, w.index, w.value)
  BY <1>1 DEF Allowed, promiscuous
<1> DEFINE F == {f}
<1>8. w.field # "CTRL.RST" /\ Touched(w) \subseteq F
  BY <1>1, <1>3, <1>6
<1> HIDE DEF F
<1>9. ChangedIn(e, WriteTo(e, w), F) /\ WriteTo(e, w).due = e.due \cup Due(w)
  BY <1>7, <1>8, AllowedWrite
<1> QED
  BY <1>4, <1>5, <1>9 DEF w, F

\* The filters are opened.
LEMMA FilterWrites ==
  ASSUME NEW e, IsDevice(e), e.regs["RXCTRL.RXEN"][0] = 0,
         NEW g, g = WriteAll(e, PromiscuousWrites(FALSE))
  PROVE  /\ IsDevice(g) /\ g.refused = e.refused /\ g.regs["RXCTRL.RXEN"][0] = 0
         /\ FiltersAreOpen(g)
         /\ ReceivesSafely(e) => ReceivesSafely(g)
         /\ ReceiveIsOff(e) => ReceiveIsOff(g)
         /\ \A q \in Nat : TransmitIsOff(e, q) => TransmitIsOff(g, q)
<1> DEFINE u == "FCTRL.UPE"
           p == "FCTRL.MPE"
           ws == << Change("FCTRL.UPE", 0, 1), Change("FCTRL.MPE", 0, 1) >>
           e1 == WriteTo(e, Change(u, 0, 1))
           e2 == WriteTo(e1, Change(p, 0, 1))
           rxen == "RXCTRL.RXEN"
           receive == "RXDCTL.ENABLE"
           transmit == "TXDCTL.ENABLE"
<1>1. g = WriteAll(e, ws)
  BY DEF PromiscuousWrites
<1>2. Two(ws, Change(u, 0, 1), Change(p, 0, 1))
  BY DEF Two
<1>3. g = e2
  <2> HIDE DEF ws, u, p
  <2>1. WriteAll(e, ws) = WriteTo(WriteTo(e, Change(u, 0, 1)), Change(p, 0, 1))
    BY <1>2, WriteTwo
  <2> QED
    BY <1>1, <2>1
<1> HIDE DEF ws
<1>4. u \in {"FCTRL.UPE", "FCTRL.MPE"} /\ p \in {"FCTRL.UPE", "FCTRL.MPE"} /\ u # p
      /\ rxen \notin {u, p} /\ receive \notin {u, p} /\ transmit \notin {u, p}
  OBVIOUS
<1>5. /\ {u, p, rxen, receive, transmit} \subseteq Fields
      /\ \A f \in Fields : 0 \in DOMAIN PowerOn[f]
      /\ DOMAIN PowerOn[transmit] = 0 .. TransmitQueuesCount - 1
  BY WatchedFields DEF ReceiveFields
<1>6. ChangedIn(e, e1, {u}) /\ e1.due = e.due /\ e1.regs[u][0] = 1
  BY FilterWrite
<1> HIDE DEF e1, u, p, rxen, receive, transmit
<1>7. IsDevice(e1) /\ e1.regs[rxen][0] = 0
  BY <1>4, <1>5, <1>6 DEF ChangedIn, rxen
<1>8. ChangedIn(e1, e2, {p}) /\ e2.due = e1.due /\ e2.regs[p][0] = 1
  BY <1>4, <1>7, FilterWrite DEF rxen
<1> HIDE DEF e2
<1>9. IsDevice(e2) /\ e2.refused = e.refused /\ e2.due = e.due
  BY <1>6, <1>8 DEF ChangedIn
<1>10. \A f \in Fields \ {u, p} : \A i \in DOMAIN PowerOn[f] : e2.regs[f][i] = e.regs[f][i]
  BY <1>6, <1>8 DEF ChangedIn
<1>11. e2.regs[u][0] = 1
  BY <1>4, <1>5, <1>6, <1>8 DEF ChangedIn
<1>12. e2.regs[rxen][0] = 0 /\ e2.regs[receive][0] = e.regs[receive][0]
  BY <1>4, <1>5, <1>10 DEF rxen
<1>13. FiltersAreOpen(e2)
  BY <1>8, <1>11 DEF FiltersAreOpen, u, p
<1>14. ReceivesSafely(e) => ReceivesSafely(e2)
  BY <1>9, <1>12 DEF ReceivesSafely, rxen
<1>15. ReceiveIsOff(e) => ReceiveIsOff(e2)
  BY <1>9, <1>12 DEF ReceiveIsOff, receive
<1>16. ASSUME NEW q \in Nat, TransmitIsOff(e, q)
       PROVE  TransmitIsOff(e2, q)
  <2>1. q < TransmitQueuesCount => q \in DOMAIN PowerOn[transmit]
    BY <1>5, QueuesAssumption
  <2>2. q < TransmitQueuesCount => e2.regs[transmit][q] = e.regs[transmit][q]
    BY <1>4, <1>5, <1>10, <2>1
  <2> QED
    BY <1>9, <1>16, <2>2 DEF TransmitIsOff, transmit
<1> QED
  BY <1>3, <1>9, <1>12, <1>13, <1>14, <1>15, <1>16 DEF rxen

-----------------------------------------------------------------------------
(* What the driver writes for an agent.                                    *)

\* The fields of a transmit queue but the one that enables it.
QueueFields ==
  {"TDBA", "TDLEN.LEN", "TXDCTL.PTHRESH", "TXDCTL.HTHRESH", "TDWBA", "TDWBAL.Head_WB_En",
   "DCA_TXCTRL.TXdescWBROen"}

\* What the driver writes to them.
QueueWrites(q, ring, head) ==
  << Change("TDBA", q, ring), Change("TDLEN.LEN", q, IXGBE_RING_SIZE * 16),
     Change("TXDCTL.PTHRESH", q, 60), Change("TXDCTL.HTHRESH", q, 4),
     Change("TDWBA", q, head), Change("TDWBAL.Head_WB_En", q, 1),
     Change("DCA_TXCTRL.TXdescWBROen", q, 0) >>

\* The length of a ring is one that the data sheet allows.
LEMMA RingLength ==
  IXGBE_RING_SIZE * 16 \in Int /\ ValidLength(IXGBE_RING_SIZE * 16)
BY DEF IXGBE_RING_SIZE, ValidLength

\* They are always allowed.
LEMMA QueueHarmless ==
  ASSUME NEW q \in Int, NEW ring \in Int, NEW head \in Int
  PROVE  AreHarmless(QueueWrites(q, ring, head), QueueFields)
<1> DEFINE F == QueueFields
           s1 == <<Change("TDBA", q, ring)>>
           s2 == <<Change("TDLEN.LEN", q, IXGBE_RING_SIZE * 16)>>
           s3 == <<Change("TXDCTL.PTHRESH", q, 60)>>
           s4 == <<Change("TXDCTL.HTHRESH", q, 4)>>
           s5 == <<Change("TDWBA", q, head)>>
           s6 == <<Change("TDWBAL.Head_WB_En", q, 1)>>
           s7 == <<Change("DCA_TXCTRL.TXdescWBROen", q, 0)>>
<1>1. /\ \A r, i, v : \A f \in {"TDBA", "TXDCTL.PTHRESH", "TXDCTL.HTHRESH", "TDWBA"} :
           Allowed(r, f, i, v)
      /\ \A r, i : Allowed(r, "TDLEN.LEN", i, IXGBE_RING_SIZE * 16)
      /\ \A r, i : Allowed(r, "TDWBAL.Head_WB_En", i, 1)
      /\ \A r, i : Allowed(r, "DCA_TXCTRL.TXdescWBROen", i, 0)
  BY RingLength DEF Allowed, enable_transmit_queue
<1>2. \A f \in F : f \notin SideFields
  BY DEF QueueFields, SideFields
<1>3. /\ "TDBA" \in F /\ "TDLEN.LEN" \in F /\ "TXDCTL.PTHRESH" \in F /\ "TXDCTL.HTHRESH" \in F
      /\ "TDWBA" \in F /\ "TDWBAL.Head_WB_En" \in F /\ "DCA_TXCTRL.TXdescWBROen" \in F
  BY DEF QueueFields
<1> HIDE DEF F
<1>4. AreHarmless(s1, F)
  BY <1>1, <1>2, <1>3, HarmlessWrite
<1>5. AreHarmless(s2, F)
  BY <1>1, <1>2, <1>3, RingLength, HarmlessWrite
<1>6. AreHarmless(s3, F)
  <2>1. 60 \in Int
    OBVIOUS
  <2> QED
    BY <1>1, <1>2, <1>3, <2>1, HarmlessWrite
<1>7. AreHarmless(s4, F)
  <2>1. 4 \in Int
    OBVIOUS
  <2> QED
    BY <1>1, <1>2, <1>3, <2>1, HarmlessWrite
<1>8. AreHarmless(s5, F)
  BY <1>1, <1>2, <1>3, HarmlessWrite
<1>9. AreHarmless(s6, F)
  <2>1. 1 \in Int
    OBVIOUS
  <2> QED
    BY <1>1, <1>2, <1>3, <2>1, HarmlessWrite
<1>10. AreHarmless(s7, F)
  <2>1. 0 \in Int
    OBVIOUS
  <2> QED
    BY <1>1, <1>2, <1>3, <2>1, HarmlessWrite
<1>11. QueueWrites(q, ring, head) = s1 \o s2 \o s3 \o s4 \o s5 \o s6 \o s7
  BY DEF QueueWrites
<1> HIDE DEF s1, s2, s3, s4, s5, s6, s7
<1>12. AreHarmless(s1 \o s2, F)
  BY <1>4, <1>5, HarmlessTogether
<1>13. AreHarmless(s1 \o s2 \o s3, F)
  BY <1>6, <1>12, HarmlessTogether
<1>14. AreHarmless(s1 \o s2 \o s3 \o s4, F)
  BY <1>7, <1>13, HarmlessTogether
<1>15. AreHarmless(s1 \o s2 \o s3 \o s4 \o s5, F)
  BY <1>8, <1>14, HarmlessTogether
<1>16. AreHarmless(s1 \o s2 \o s3 \o s4 \o s5 \o s6, F)
  BY <1>9, <1>15, HarmlessTogether
<1>17. AreHarmless(s1 \o s2 \o s3 \o s4 \o s5 \o s6 \o s7, F)
  BY <1>10, <1>16, HarmlessTogether
<1> QED
  BY <1>11, <1>17 DEF F

\* What is written to an output as a whole, its queue being enabled last.
OutputFields == QueueFields \cup {"DMATXCTL.TE", "TXDCTL.ENABLE"}

\* The write that enables all transmission, and the one for one queue, are
\* always allowed too.
LEMMA EnableHarmless ==
  ASSUME NEW q \in Int
  PROVE  /\ AreHarmless(<<Change("DMATXCTL.TE", 0, 1)>>, OutputFields)
         /\ AreHarmless(<<Change("TXDCTL.ENABLE", q, 1)>>, OutputFields)
<1> DEFINE F == OutputFields
           w == Change("DMATXCTL.TE", 0, 1)
<1>1. "DMATXCTL.TE" \in F /\ "TXDCTL.ENABLE" \in F
  BY DEF OutputFields
<1>2. /\ \A r : Allowed(r, "DMATXCTL.TE", 0, 1)
      /\ \A r : Allowed(r, "TXDCTL.ENABLE", q, 1)
  BY DEF Allowed, enable_transmit_queue
<1>3. Touched(w) = {"DMATXCTL.TE", "TXDCTL.ENABLE"}
  BY TouchesOthers
<1>4. w.field = "DMATXCTL.TE" /\ w.index = 0 /\ w.value = 1
  BY DEF Change
<1>5. w \in WriteType(F)
  BY <1>1 DEF WriteType, Change
<1> HIDE DEF F, w
<1>6. Harmless(w, F)
  BY <1>1, <1>2, <1>3, <1>4 DEF Harmless
<1>7. AreHarmless(<<w>>, F)
  BY <1>5, <1>6, HarmlessOne
<1>8. AreHarmless(<<Change("TXDCTL.ENABLE", q, 1)>>, F)
  <2>1. 1 \in Int
    OBVIOUS
  <2> QED
    BY <1>1, <1>2, <2>1, HarmlessWrite DEF SideFields
<1> QED
  BY <1>7, <1>8 DEF F, w

\* An agent gets a queue of a device: all of it is allowed, and the only
\* queues that are enabled are that one and, with the first agent to get one,
\* queue 0.
LEMMA OutputWritten ==
  ASSUME NEW e, IsDevice(e), NEW q \in Nat, NEW ring \in Int, NEW head \in Int,
         NEW te, te \in {<<>>, <<Change("DMATXCTL.TE", 0, 1)>>},
         NEW g, g = WriteAll(e, QueueWrites(q, ring, head) \o te
                                  \o <<Change("TXDCTL.ENABLE", q, 1)>>)
  PROVE  /\ ChangedIn(e, g, OutputFields)
         /\ \A p \in Nat \ {q} : TransmitIsOff(e, p) /\ (te = <<>> \/ p # 0) =>
                                   TransmitIsOff(g, p)
<1> DEFINE F == OutputFields
           W == WriteType(OutputFields)
           queue == QueueWrites(q, ring, head)
           both == queue \o te
           last == <<Change("TXDCTL.ENABLE", q, 1)>>
           ws == both \o last
           e1 == WriteAll(e, queue)
           e2 == WriteAll(e1, te)
           enable == "TXDCTL.ENABLE"
<1>1. AreHarmless(queue, QueueFields)
  BY QueueHarmless
<1>2. AreHarmless(te, F) /\ AreHarmless(last, F) /\ te \in Seq(W) /\ last \in Seq(W)
  <2>1. AreHarmless(<<>>, F)
    BY HarmlessOne
  <2>2. AreHarmless(<<Change("DMATXCTL.TE", 0, 1)>>, F) /\ AreHarmless(last, F)
    BY EnableHarmless
  <2> HIDE DEF F, last
  <2>3. AreHarmless(te, F)
    BY <2>1, <2>2
  <2> QED
    BY <2>2, <2>3 DEF AreHarmless, F
<1>3. AreHarmless(queue, F) /\ queue \in Seq(W)
  <2>1. QueueFields \subseteq F
    BY DEF OutputFields
  <2>2. queue \in Seq(W)
    BY <1>1, <2>1, WritesWiden DEF AreHarmless
  <2>3. \A w : Harmless(w, QueueFields) => Harmless(w, F)
    BY <2>1 DEF Harmless
  <2> QED
    BY <1>1, <2>2, <2>3 DEF AreHarmless
<1>4. g = WriteAll(e, ws)
  OBVIOUS
<1>5. Joins(both, queue, te) /\ Joins(ws, both, last)
  BY DEF Joins
<1>6. WriteAll(e2, last) = WriteTo(e2, Change(enable, q, 1))
  BY WriteOne
<1>7. te = <<Change("DMATXCTL.TE", 0, 1)>> => e2 = WriteTo(e1, Change("DMATXCTL.TE", 0, 1))
  BY WriteOne
<1>8. te = <<>> => e2 = e1
  <2>1. Len(<<>>) = 0 /\ Len(<<>>) \in Nat
    OBVIOUS
  <2>2. PICK G : Writing(G, e1, <<>>, Len(<<>>)) /\ WriteAll(e1, <<>>) = G[Len(<<>>)]
    BY <2>1, WriteAllWrites
  <2>3. WriteAll(e1, <<>>) = e1
    BY <2>1, <2>2 DEF Writing
  <2> QED
    BY <2>3
<1>9. te = <<>> \/ te = <<Change("DMATXCTL.TE", 0, 1)>>
  OBVIOUS
<1> HIDE DEF F, W, queue, last
<1>10. AreHarmless(both, F) /\ both \in Seq(W)
  BY <1>2, <1>3, HarmlessTogether
<1> HIDE DEF both
<1>11. AreHarmless(ws, F)
  BY <1>2, <1>10, HarmlessTogether
<1>12. WriteAll(e, both) = e2 /\ WriteAll(e, ws) = WriteAll(WriteAll(e, both), last)
  BY <1>2, <1>3, <1>5, <1>10, WriteTogether
<1> HIDE DEF ws
<1>13. ChangedIn(e, g, F)
  BY <1>4, <1>11, HarmlessWrites
<1>14. ChangedIn(e, e1, QueueFields)
  BY <1>1, HarmlessWrites
<1>15. g = WriteTo(e2, Change(enable, q, 1))
  BY <1>4, <1>6, <1>12
<1> HIDE DEF e1
<1>16. ASSUME NEW p \in Nat \ {q}, TransmitIsOff(e, p), te = <<>> \/ p # 0
       PROVE  TransmitIsOff(g, p)
  <2>1. TransmitIsOff(e1, p)
    <3>1. enable \notin QueueFields
      BY DEF QueueFields
    <3> QED
      BY <1>14, <1>16, <3>1, TransmitKept
  <2>2. IsDevice(e1)
    BY <1>14 DEF ChangedIn
  <2>3. TransmitIsOff(e2, p)
    <3>1. CASE te = <<>>
      BY <1>8, <2>1, <3>1
    <3>2. CASE te = <<Change("DMATXCTL.TE", 0, 1)>> /\ p # 0
      <4> DEFINE w == Change("DMATXCTL.TE", 0, 1)
      <4>1. w.field = "DMATXCTL.TE" /\ w.value = 1 /\ ~ Is(w, "CTRL.RST", 1)
            /\ Is(w, "DMATXCTL.TE", 1)
        BY DEF Change, Is
      <4>2. Due(w) = {}
        BY DEF Due, Is, Change, Delayed
      <4>3. e2 = WriteTo(e1, w)
        BY <1>7, <3>2
      <4> HIDE DEF w, e2
      <4>4. e2.due = e1.due
        <5>1. WriteTo(e1, w).due = e1.due \cup Due(w)
          BY <2>2, <4>1, AfterWrite
        <5> QED
          BY <4>2, <4>3, <5>1
      <4>5. p < TransmitQueuesCount => enable \in Fields /\ p \in DOMAIN PowerOn[enable]
        BY WatchedFields, QueuesAssumption
      <4>6. p < TransmitQueuesCount =>
              e2.regs[enable][p] = ValueAfter(e1.regs, w, enable, p)
        BY <2>2, <4>1, <4>3, <4>5, AfterWrite
      <4>7. ValueAfter(e1.regs, w, enable, p) = e1.regs[enable][p]
        BY <3>2, <4>1 DEF ValueAfter
      <4> QED
        BY <2>1, <4>4, <4>6, <4>7 DEF TransmitIsOff
    <3> QED
      BY <1>9, <1>16, <3>1, <3>2
  <2>4. IsDevice(e2)
    <3>1. ChangedIn(e1, e2, F)
      BY <1>2, <2>2, HarmlessWrites
    <3> QED
      BY <3>1 DEF ChangedIn
  <2> HIDE DEF e2
  <2> DEFINE w == Change(enable, q, 1)
  <2>5. enable \in Delayed
    BY DEF Delayed
  <2>6. g.regs = e2.regs /\ Due(w) = {w}
    BY <1>15, <2>5, DueIs, ReadsAsBefore
  <2>7. w.field = enable /\ w.index = q /\ ~ Is(w, "CTRL.RST", 1)
    BY DEF Change, Is
  <2> HIDE DEF w
  <2>8. g.due = e2.due \cup {w}
    BY <1>15, <2>4, <2>6, <2>7, AfterWrite DEF w
  <2> QED
    BY <2>3, <2>6, <2>7, <2>8 DEF TransmitIsOff
<1> QED
  BY <1>13, <1>16 DEF F

\* The fields of the receive queue, and what the driver writes to them.
InputFields == {"RDLEN.LEN", "SRRCTL.BSIZEPACKET", "SRRCTL.Drop_En"}

\* What else is written when a queue becomes an input.
LEMMA InputHarmless ==
  AreHarmless(<< Change("RDLEN.LEN", 0, IXGBE_RING_SIZE * 16),
                 Change("SRRCTL.BSIZEPACKET", 0, PACKET_BUFFER_SIZE \div 1024),
                 Change("SRRCTL.Drop_En", 0, 1) >>, InputFields)
<1> DEFINE F == InputFields
           s1 == <<Change("RDLEN.LEN", 0, IXGBE_RING_SIZE * 16)>>
           s2 == <<Change("SRRCTL.BSIZEPACKET", 0, PACKET_BUFFER_SIZE \div 1024)>>
           s3 == <<Change("SRRCTL.Drop_En", 0, 1)>>
           ws == << Change("RDLEN.LEN", 0, IXGBE_RING_SIZE * 16),
                    Change("SRRCTL.BSIZEPACKET", 0, PACKET_BUFFER_SIZE \div 1024),
                    Change("SRRCTL.Drop_En", 0, 1) >>
<1>1. PACKET_BUFFER_SIZE \div 1024 \in 1 .. 16
  BY DEF PACKET_BUFFER_SIZE
<1>2. /\ \A r, i : Allowed(r, "RDLEN.LEN", i, IXGBE_RING_SIZE * 16)
      /\ \A r, i : Allowed(r, "SRRCTL.BSIZEPACKET", i, PACKET_BUFFER_SIZE \div 1024)
      /\ \A r, i : Allowed(r, "SRRCTL.Drop_En", i, 1)
  BY <1>1, RingLength DEF Allowed, enable_receive_queue
<1>3. /\ "RDLEN.LEN" \in F /\ "SRRCTL.BSIZEPACKET" \in F /\ "SRRCTL.Drop_En" \in F
      /\ \A f \in F : f \notin SideFields
  BY DEF InputFields, SideFields
<1>4. 0 \in Int /\ 1 \in Int /\ PACKET_BUFFER_SIZE \div 1024 \in Int
  BY <1>1
<1> HIDE DEF F
<1>5. AreHarmless(s1, F)
  BY <1>2, <1>3, <1>4, RingLength, HarmlessWrite
<1>6. AreHarmless(s2, F)
  BY <1>2, <1>3, <1>4, HarmlessWrite
<1>7. AreHarmless(s3, F)
  BY <1>2, <1>3, <1>4, HarmlessWrite
<1>8. ws = s1 \o s2 \o s3
  OBVIOUS
<1> HIDE DEF s1, s2, s3
<1>9. AreHarmless(s1 \o s2, F)
  BY <1>5, <1>6, HarmlessTogether
<1>10. AreHarmless(s1 \o s2 \o s3, F)
  BY <1>7, <1>9, HarmlessTogether
<1> QED
  BY <1>8, <1>10, ZenonT(30) DEF F

\* The ring of a receive queue is written first, and the queue enabled last.
LEMMA InputWrites ==
  ASSUME NEW e, IsDevice(e), e.regs["RXCTRL.RXEN"][0] = 0, ReceivesSafely(e),
         NEW ring \in Int,
         NEW g, g = WriteAll(e, << Change("RDBA", 0, ring),
                                   Change("RDLEN.LEN", 0, IXGBE_RING_SIZE * 16),
                                   Change("SRRCTL.BSIZEPACKET", 0, PACKET_BUFFER_SIZE \div 1024),
                                   Change("SRRCTL.Drop_En", 0, 1),
                                   Change("RXDCTL.ENABLE", 0, 1) >>)
  PROVE  /\ IsDevice(g) /\ g.refused = e.refused /\ g.regs["RXCTRL.RXEN"][0] = 0
         /\ ReceivesSafely(g) /\ HasReceiveRing(g)
         /\ FiltersAreOpen(e) => FiltersAreOpen(g)
         /\ \A q \in Nat : TransmitIsOff(e, q) => TransmitIsOff(g, q)
<1> DEFINE rdba == "RDBA"
           enable == "RXDCTL.ENABLE"
           rxen == "RXCTRL.RXEN"
           w1 == Change(rdba, 0, ring)
           w5 == Change(enable, 0, 1)
           one == <<w1>>
           rest == << Change("RDLEN.LEN", 0, IXGBE_RING_SIZE * 16),
                      Change("SRRCTL.BSIZEPACKET", 0, PACKET_BUFFER_SIZE \div 1024),
                      Change("SRRCTL.Drop_En", 0, 1) >>
           last == <<w5>>
           four == << Change("RDBA", 0, ring), Change("RDLEN.LEN", 0, IXGBE_RING_SIZE * 16),
                      Change("SRRCTL.BSIZEPACKET", 0, PACKET_BUFFER_SIZE \div 1024),
                      Change("SRRCTL.Drop_En", 0, 1) >>
           ws == << Change("RDBA", 0, ring), Change("RDLEN.LEN", 0, IXGBE_RING_SIZE * 16),
                    Change("SRRCTL.BSIZEPACKET", 0, PACKET_BUFFER_SIZE \div 1024),
                    Change("SRRCTL.Drop_En", 0, 1), Change("RXDCTL.ENABLE", 0, 1) >>
           W == WriteType(InputFields \cup {rdba, enable})
           e1 == WriteTo(e, w1)
           e2 == WriteAll(e1, rest)
<1>1. Joins(four, one, rest) /\ Joins(ws, four, last)
  BY DEF Joins
<1>2. one \in Seq(W) /\ last \in Seq(W)
  BY DEF WriteType, Change
<1>3. rest \in Seq(W)
  <2>1. InputFields \subseteq InputFields \cup {rdba, enable}
    OBVIOUS
  <2>2. rest \in Seq(WriteType(InputFields))
    BY InputHarmless DEF AreHarmless
  <2> HIDE DEF rest
  <2> QED
    BY <2>1, <2>2, WritesWiden
<1>4. four \in Seq(W)
  BY <1>2, <1>3, <1>1 DEF Joins
<1>5. WriteAll(e, one) = e1
  BY WriteOne
<1>6. WriteAll(e2, last) = WriteTo(e2, w5)
  BY WriteOne
<1>7. AreHarmless(rest, InputFields)
  BY InputHarmless
<1>8. g = WriteAll(e, ws)
  OBVIOUS
<1>9. w1.field = rdba /\ w1.index = 0 /\ w1.value = ring
  BY DEF Change
<1>10. w5.field = enable /\ w5.index = 0 /\ w5.value = 1
  BY DEF Change
<1>11. /\ rdba \in ReceiveFields /\ enable \in ReceiveFields /\ rxen \in ReceiveFields
       /\ rdba # enable /\ rdba # rxen /\ rxen # enable
       /\ {rdba, enable, "TXDCTL.ENABLE"} \cap {"FCTRL.UPE", "FCTRL.MPE"} = {}
       /\ "TXDCTL.ENABLE" \notin {rdba, enable}
  BY DEF ReceiveFields
<1>12. /\ Touched(w1) = {rdba} /\ Due(w1) = {} /\ Touched(w5) = {enable} /\ Due(w5) = {w5}
  <2>1. rdba \notin SideFields \cup Delayed
    BY DEF Delayed, SideFields
  <2>2. enable \notin SideFields /\ enable \in Delayed
    BY DEF Delayed, SideFields
  <2> HIDE DEF rdba, enable
  <2>3. Touched(w1) = {rdba} /\ Due(w1) = {}
    BY <2>1, TouchesItself, DueIs
  <2>4. Touched(w5) = {enable} /\ Due(w5) = {w5}
    BY <2>2, TouchesItself, DueIs
  <2> QED
    BY <2>3, <2>4
<1>13. w5.field # "CTRL.RST" /\ w1.field # "CTRL.RST" /\ ~ Is(w1, "CTRL.RST", 1)
       /\ ~ Is(w1, "DMATXCTL.TE", 1) /\ w1.field \notin Delayed
  BY <1>9, <1>10 DEF Is, Delayed
<1>14. (\A r : Allowed(r, rdba, 0, ring)) /\ (\A r : Allowed(r, enable, 0, 1))
  BY DEF Allowed, enable_receive_queue
<1>15. Kept(w1) # X
  <2>1. Kept(w1) = ring - (ring % 128)
    BY <1>9 DEF Kept, RingBase
  <2>2. ring - (ring % 128) \in Int
    OBVIOUS
  <2> QED
    BY <2>1, <2>2, TableAssumption
<1>16. /\ ReceiveFields \subseteq Fields /\ \A f \in Fields : 0 \in DOMAIN PowerOn[f]
  BY WatchedFields
<1> HIDE DEF W, four, ws, one, rest, last
<1>17. WriteAll(e, four) = e2
  BY <1>1, <1>2, <1>3, <1>5, WriteTogether
<1>18. g = WriteTo(e2, w5)
  <2>1. WriteAll(e, ws) = WriteAll(WriteAll(e, four), last)
    BY <1>1, <1>2, <1>4, WriteTogether
  <2> QED
    BY <1>6, <1>8, <1>17, <2>1
<1> HIDE DEF w1
<1>19. ChangedIn(e, e1, {rdba}) /\ e1.due = e.due
  <2> DEFINE F == {rdba}
  <2>1. Touched(w1) \subseteq F /\ Allowed(e.regs, w1.field, w1.index, w1.value)
    BY <1>9, <1>12, <1>14
  <2> HIDE DEF F, rdba
  <2>2. ChangedIn(e, WriteTo(e, w1), F) /\ WriteTo(e, w1).due = e.due \cup Due(w1)
    BY <1>13, <2>1, AllowedWrite
  <2> QED
    BY <1>12, <2>2 DEF F
<1>20. e1.regs[rdba][0] = Kept(w1)
  <2> HIDE DEF rdba
  <2>1. rdba \in Fields /\ 0 \in DOMAIN PowerOn[rdba]
    BY <1>11, <1>16
  <2>2. e1.regs[rdba][0] = ValueAfter(e.regs, w1, rdba, 0)
    BY <1>13, <2>1, AfterWrite
  <2> QED
    BY <1>9, <1>13, <2>2 DEF ValueAfter
<1> HIDE DEF e1
<1>21. IsDevice(e1) /\ e1.refused = e.refused
  BY <1>19 DEF ChangedIn
<1>22. e1.regs[rxen][0] = 0
  BY <1>11, <1>16, <1>19 DEF ChangedIn
<1>23. ReceivesSafely(e1)
  BY <1>19, <1>22 DEF ReceivesSafely
<1>24. HasReceiveRing(e1)
  BY <1>15, <1>20 DEF HasReceiveRing
<1>25. ChangedIn(e1, e2, InputFields)
  BY <1>7, <1>21, HarmlessWrites
<1>26. InputFields \cap ReceiveFields = {} /\ "TXDCTL.ENABLE" \notin InputFields
  BY DEF InputFields, ReceiveFields
<1> HIDE DEF e2
<1>27. /\ e2.regs[rxen][0] = 0 /\ ReceivesSafely(e2) /\ HasReceiveRing(e2)
       /\ IsDevice(e2) /\ e2.refused = e1.refused
  BY <1>22, <1>23, <1>24, <1>25, <1>26, ReceiveKept DEF ChangedIn
<1> HIDE DEF w5
<1>28. ChangedIn(e2, g, {enable}) /\ g.due = e2.due \cup {w5}
  <2> DEFINE F == {enable}
  <2>1. Touched(w5) \subseteq F /\ Allowed(e2.regs, w5.field, w5.index, w5.value)
    BY <1>10, <1>12, <1>14
  <2> HIDE DEF F, enable
  <2>2. ChangedIn(e2, WriteTo(e2, w5), F) /\ WriteTo(e2, w5).due = e2.due \cup Due(w5)
    BY <1>13, <1>27, <2>1, AllowedWrite
  <2> QED
    BY <1>12, <1>18, <2>2, ZenonT(30) DEF F
<1>29. g.regs[rxen][0] = 0 /\ g.regs[rdba][0] = e2.regs[rdba][0]
  BY <1>11, <1>16, <1>27, <1>28 DEF ChangedIn
<1>30. ReceivesSafely(g)
  BY <1>10, <1>27, <1>28, <1>29 DEF ReceivesSafely
<1>31. HasReceiveRing(g)
  BY <1>27, <1>29 DEF HasReceiveRing
<1>32. IsDevice(g) /\ g.refused = e.refused
  BY <1>21, <1>27, <1>28 DEF ChangedIn
<1>33. ASSUME NEW f \in ReceiveFields \ {rdba, enable}
       PROVE  g.regs[f][0] = e.regs[f][0]
  BY <1>16, <1>19, <1>25, <1>26, <1>28 DEF ChangedIn
<1>34. FiltersAreOpen(e) => FiltersAreOpen(g)
  <2>1. "FCTRL.UPE" \in ReceiveFields \ {rdba, enable} /\ "FCTRL.MPE" \in ReceiveFields \ {rdba, enable}
    BY DEF ReceiveFields
  <2> QED
    BY <1>33, <2>1 DEF FiltersAreOpen
<1>35. ASSUME NEW q \in Nat, TransmitIsOff(e, q)
       PROVE  TransmitIsOff(g, q)
  <2> DEFINE F == {rdba}
             G == {enable}
  <2>1. "TXDCTL.ENABLE" \notin F /\ "TXDCTL.ENABLE" \notin G
    BY <1>11
  <2>2. ChangedIn(e, e1, F) /\ ChangedIn(e2, g, G)
    BY <1>19, <1>28
  <2> HIDE DEF F, G
  <2>3. TransmitIsOff(e1, q)
    BY <1>35, <2>1, <2>2, TransmitKept
  <2>4. TransmitIsOff(e2, q)
    BY <1>25, <1>26, <2>3, TransmitKept
  <2> QED
    BY <2>1, <2>2, <2>4, TransmitKept
<1> QED
  BY <1>29, <1>30, <1>31, <1>32, <1>34, <1>35

\* The queue of an input is enabled: its tail is written, and the driver may
\* ask the device to stop receiving.
LEMMA TailWrites ==
  ASSUME NEW e, IsDevice(e), e.regs["RXCTRL.RXEN"][0] = 0, e.regs["RXDCTL.ENABLE"][0] = 1,
         ReceivesSafely(e), NEW halt,
         halt \in {<<>>, <<Change("SECRXCTRL.RX_DIS", 0, 1)>>},
         NEW g, g = WriteAll(e, <<Change("RDT.RDT", 0, IXGBE_RING_SIZE - 1)>> \o halt)
  PROVE  /\ IsDevice(g) /\ g.refused = e.refused /\ g.regs["RXCTRL.RXEN"][0] = 0
         /\ ReceivesSafely(g) /\ QueueIsReady(g)
         /\ HasReceiveRing(e) => HasReceiveRing(g)
         /\ FiltersAreOpen(e) => FiltersAreOpen(g)
         /\ \A q \in Nat : TransmitIsOff(e, q) => TransmitIsOff(g, q)
<1> DEFINE tail == "RDT.RDT"
           rdy == "SECRXSTAT.SECRX_RDY"
           F == {"SECRXCTRL.RX_DIS", rdy}
           W == WriteType(F \cup {tail})
           w == Change(tail, 0, IXGBE_RING_SIZE - 1)
           v == Change("SECRXCTRL.RX_DIS", 0, 1)
           one == <<w>>
           ws == one \o halt
           e1 == WriteTo(e, w)
<1>1. IXGBE_RING_SIZE - 1 \in Int
  BY DEF IXGBE_RING_SIZE
<1>2. AreHarmless(<<v>>, F)
  <2>1. v.field = "SECRXCTRL.RX_DIS" /\ v.index = 0 /\ v.value = 1
    BY DEF Change
  <2>2. v \in WriteType(F)
    BY DEF Change, WriteType
  <2>3. \A r : Allowed(r, "SECRXCTRL.RX_DIS", 0, 1)
    BY DEF Allowed, enable_receive_queue
  <2>4. Touched(v) \subseteq F
    BY TouchesOthers
  <2> HIDE DEF v, F
  <2>5. Harmless(v, F)
    BY <2>1, <2>3, <2>4 DEF Harmless
  <2> QED
    BY <2>2, <2>5, HarmlessOne
<1>3. AreHarmless(halt, F)
  <2>1. AreHarmless(<<>>, F)
    BY HarmlessOne
  <2> HIDE DEF F
  <2> QED
    BY <1>2, <2>1
<1>4. halt = <<>> \/ halt = <<v>>
  OBVIOUS
<1>5. one \in Seq(W)
  BY <1>1 DEF WriteType, Change
<1>6. halt \in Seq(W)
  <2> DEFINE G == F \cup {tail}
  <2>1. F \subseteq G /\ halt \in Seq(WriteType(F))
    BY <1>3 DEF AreHarmless
  <2> HIDE DEF F, G
  <2>2. halt \in Seq(WriteType(G))
    BY <2>1, WritesWiden
  <2> QED
    BY <2>2 DEF G
<1>7. WriteAll(e, one) = e1
  BY WriteOne
<1>8. w.field = tail /\ w.index = 0 /\ w.value = IXGBE_RING_SIZE - 1
  BY DEF Change
<1>9. Touched(w) = {tail} /\ Due(w) = {}
  <2>1. tail \notin SideFields \cup Delayed
    BY DEF Delayed, SideFields
  <2> HIDE DEF tail
  <2> QED
    BY <2>1, TouchesItself, DueIs
<1>10. Allowed(e.regs, w.field, w.index, w.value)
  BY <1>8 DEF Allowed, enable_receive_queue
<1>11. /\ ReceiveFields \subseteq Fields /\ \A f \in Fields : 0 \in DOMAIN PowerOn[f]
       /\ tail \in ReceiveFields /\ rdy \in ReceiveFields
  BY WatchedFields DEF ReceiveFields
<1>12. e1.regs[tail][0] = IXGBE_RING_SIZE - 1
  <2>1. tail \in Fields /\ 0 \in DOMAIN PowerOn[tail]
    BY <1>11
  <2>2. tail \notin {"CTRL.RST", "DMATXCTL.TE", "TDBA", "RDBA"} \cup Delayed
    BY DEF Delayed
  <2> HIDE DEF tail
  <2> QED
    BY <2>1, <2>2, ReadsAsWritten
<1>13. g = WriteAll(e, ws) /\ Joins(ws, one, halt) /\ w.field # "CTRL.RST"
  BY <1>8 DEF Joins
<1>14. Due(v) = {Change(rdy, 0, 1)}
  BY DueIs
<1> HIDE DEF W, ws, one
<1>15. g = WriteAll(e1, halt)
  BY <1>5, <1>6, <1>7, <1>13, WriteTogether
<1> HIDE DEF w
<1>16. ChangedIn(e, e1, {tail}) /\ e1.due = e.due
  <2> DEFINE G == {tail}
  <2>1. Touched(w) \subseteq G
    BY <1>9
  <2> HIDE DEF G
  <2>2. ChangedIn(e, WriteTo(e, w), G) /\ WriteTo(e, w).due = e.due \cup Due(w)
    BY <1>10, <1>13, <2>1, AllowedWrite
  <2> QED
    BY <1>9, <2>2 DEF G
<1> HIDE DEF e1
<1>17. IsDevice(e1) /\ e1.refused = e.refused
  BY <1>16 DEF ChangedIn
<1> HIDE DEF F
<1>18. ChangedIn(e1, g, F)
  BY <1>3, <1>15, <1>17, HarmlessWrites
<1>19. ASSUME NEW c \in g.due
       PROVE  c \in e1.due \/ c = Change(rdy, 0, 1)
  <2>1. CASE halt = <<>>
    <3> DEFINE none == <<>>
    <3>1. Len(none) = 0 /\ Len(none) \in Nat
      OBVIOUS
    <3> HIDE DEF none
    <3>2. PICK G : Writing(G, e1, none, Len(none)) /\ WriteAll(e1, none) = G[Len(none)]
      BY <3>1, WriteAllWrites
    <3>3. WriteAll(e1, none) = e1
      BY <3>1, <3>2 DEF Writing
    <3> QED
      BY <1>15, <1>19, <2>1, <3>3 DEF none
  <2>2. CASE halt = <<v>>
    <3>1. g = WriteTo(e1, v)
      BY <1>15, <2>2, WriteOne
    <3>2. ~ Is(v, "CTRL.RST", 1)
      BY DEF Is, Change
    <3> HIDE DEF v
    <3>3. WriteTo(e1, v).due = e1.due \cup Due(v)
      BY <1>17, <3>2, AfterWrite
    <3> QED
      BY <1>14, <1>19, <3>1, <3>3
  <2> QED
    BY <1>4, <2>1, <2>2
<1>20. ASSUME NEW f \in ReceiveFields \ {tail, rdy}
       PROVE  g.regs[f][0] = e.regs[f][0]
  <2>1. "SECRXCTRL.RX_DIS" \notin ReceiveFields
    BY DEF ReceiveFields
  <2>2. f \in Fields /\ 0 \in DOMAIN PowerOn[f] /\ f \notin F /\ f # tail
    BY <1>11, <2>1 DEF F
  <2> QED
    BY <1>16, <1>18, <2>2 DEF ChangedIn
<1>21. g.regs[tail][0] = IXGBE_RING_SIZE - 1
  <2>1. tail \notin F
    BY DEF F
  <2> QED
    BY <1>11, <1>12, <1>18, <2>1 DEF ChangedIn
<1>22. {"RXCTRL.RXEN", "RXDCTL.ENABLE", "RDBA", "FCTRL.UPE", "FCTRL.MPE"}
         \subseteq ReceiveFields \ {tail, rdy}
  BY DEF ReceiveFields
<1>23. g.regs["RXCTRL.RXEN"][0] = 0 /\ g.regs["RXDCTL.ENABLE"][0] = 1
  BY <1>20, <1>22
<1>24. QueueIsReady(g)
  BY <1>21, <1>23 DEF QueueIsReady
<1>25. ReceivesSafely(g)
  <2>1. Change(rdy, 0, 1).field = rdy /\ Change(rdy, 0, 1).value = 1
    BY DEF Change
  <2> QED
    BY <1>16, <1>19, <1>23, <2>1 DEF ReceivesSafely
<1>26. HasReceiveRing(e) => HasReceiveRing(g)
  BY <1>20, <1>22 DEF HasReceiveRing
<1>27. FiltersAreOpen(e) => FiltersAreOpen(g)
  BY <1>20, <1>22 DEF FiltersAreOpen
<1>28. IsDevice(g) /\ g.refused = e.refused
  BY <1>17, <1>18 DEF ChangedIn
<1>29. ASSUME NEW q \in Nat, TransmitIsOff(e, q)
       PROVE  TransmitIsOff(g, q)
  <2> DEFINE G == {tail}
  <2>1. "TXDCTL.ENABLE" \notin F /\ "TXDCTL.ENABLE" \notin G /\ ChangedIn(e, e1, G)
    BY <1>16 DEF F
  <2> HIDE DEF G
  <2>2. TransmitIsOff(e1, q)
    BY <1>29, <2>1, TransmitKept
  <2> QED
    BY <1>18, <2>1, <2>2, TransmitKept
<1> QED
  BY <1>23, <1>24, <1>25, <1>26, <1>27, <1>28, <1>29

\* A device that was seen empty receives again, once all else is set.
LEMMA ReceiveWrites ==
  ASSUME NEW e, IsDevice(e), ReceivesSafely(e), FiltersAreOpen(e), HasReceiveRing(e),
         QueueIsReady(e), e.regs["SECRXSTAT.SECRX_RDY"][0] = 1,
         NEW g, g = WriteAll(e, << Change("RXCTRL.RXEN", 0, 1),
                                   Change("SECRXCTRL.RX_DIS", 0, 0),
                                   Change("CTRL_EXT.NS_DIS", 0, 1) >>)
  PROVE  /\ IsDevice(g) /\ g.refused = e.refused
         /\ ReceivesSafely(g) /\ FiltersAreOpen(g) /\ HasReceiveRing(g)
         /\ \A q \in Nat : TransmitIsOff(e, q) => TransmitIsOff(g, q)
<1> DEFINE rxen == "RXCTRL.RXEN"
           dis == "SECRXCTRL.RX_DIS"
           snoop == "CTRL_EXT.NS_DIS"
           w1 == Change(rxen, 0, 1)
           w2 == Change(dis, 0, 0)
           w3 == Change(snoop, 0, 1)
           ws == << Change("RXCTRL.RXEN", 0, 1), Change("SECRXCTRL.RX_DIS", 0, 0),
                    Change("CTRL_EXT.NS_DIS", 0, 1) >>
           e1 == WriteTo(e, w1)
           e2 == WriteTo(e1, w2)
           e3 == WriteTo(e2, w3)
           F == {rxen, dis, snoop}
<1>1. g = e3
  <2>1. Three(ws, w1, w2, w3) /\ g = WriteAll(e, ws)
    BY DEF Three
  <2> HIDE DEF ws, w1, w2, w3
  <2>2. WriteAll(e, ws) = WriteTo(WriteTo(WriteTo(e, w1), w2), w3)
    BY <2>1, WriteThree
  <2> QED
    BY <2>1, <2>2
<1> HIDE DEF ws
<1>2. /\ w1.field = rxen /\ w1.index = 0 /\ w1.value = 1
      /\ w2.field = dis /\ w2.index = 0 /\ w2.value = 0
      /\ w3.field = snoop /\ w3.index = 0 /\ w3.value = 1
  BY DEF Change
<1>3. Touched(w1) = {rxen} /\ Due(w1) = {} /\ Touched(w3) = {snoop} /\ Due(w3) = {}
  <2>1. \A f \in {rxen, snoop} : f \notin SideFields \cup Delayed
    BY DEF Delayed, SideFields
  <2>2. rxen \in {rxen, snoop} /\ snoop \in {rxen, snoop}
    OBVIOUS
  <2> HIDE DEF rxen, snoop
  <2>3. Touched(w1) = {rxen} /\ Due(w1) = {}
    BY <2>1, <2>2, TouchesItself, DueIs
  <2>4. Touched(w3) = {snoop} /\ Due(w3) = {}
    BY <2>1, <2>2, TouchesItself, DueIs
  <2> QED
    BY <2>3, <2>4
<1>4. Touched(w2) = {dis} /\ Due(w2) = {}
  <2>1. Due(w2) = {}
    BY DueIs
  <2>2. dis # "DMATXCTL.TE"
    OBVIOUS
  <2> HIDE DEF w2
  <2> QED
    BY <1>2, <2>1, <2>2 DEF Touched
<1>5. /\ ReceiveFields \subseteq Fields /\ \A f \in Fields : 0 \in DOMAIN PowerOn[f]
      /\ F \cap ReceiveFields = {rxen} /\ rxen \in F /\ dis \in F /\ snoop \in F
      /\ "TXDCTL.ENABLE" \notin F
  BY WatchedFields DEF ReceiveFields
<1>6. /\ w1.field # "CTRL.RST" /\ w2.field # "CTRL.RST" /\ w3.field # "CTRL.RST"
      /\ Allowed(e.regs, rxen, 0, 1)
      /\ \A r : r["RXCTRL.RXEN"][0] = 1 => Allowed(r, dis, 0, 0)
      /\ \A r : Allowed(r, snoop, 0, 1)
  BY <1>2 DEF Allowed, enable_receive_queue
<1>7. IsDevice(e) => e1.regs[rxen][0] = 1
  <2>1. rxen \in Fields /\ 0 \in DOMAIN PowerOn[rxen]
    BY <1>5
  <2>2. rxen \notin {"CTRL.RST", "DMATXCTL.TE", "TDBA", "RDBA"} \cup Delayed
    BY DEF Delayed
  <2> HIDE DEF rxen
  <2> QED
    BY <2>1, <2>2, ReadsAsWritten
<1> HIDE DEF w1, w2, w3, F
<1>8. ChangedIn(e, e1, F) /\ e1.due = e.due
  <2>1. Allowed(e.regs, w1.field, w1.index, w1.value) /\ Touched(w1) \subseteq F
    BY <1>2, <1>3, <1>5, <1>6
  <2>2. ChangedIn(e, WriteTo(e, w1), F) /\ WriteTo(e, w1).due = e.due \cup Due(w1)
    BY <1>6, <2>1, AllowedWrite
  <2> QED
    BY <1>3, <2>2
<1> HIDE DEF e1
<1>9. IsDevice(e1)
  BY <1>8 DEF ChangedIn
<1>10. ChangedIn(e1, e2, F) /\ e2.due = e1.due
  <2>1. Allowed(e1.regs, w2.field, w2.index, w2.value) /\ Touched(w2) \subseteq F
    BY <1>2, <1>4, <1>5, <1>6, <1>7
  <2>2. ChangedIn(e1, WriteTo(e1, w2), F) /\ WriteTo(e1, w2).due = e1.due \cup Due(w2)
    BY <1>6, <1>9, <2>1, AllowedWrite
  <2> QED
    BY <1>4, <2>2
<1> HIDE DEF e2
<1>11. IsDevice(e2)
  BY <1>10 DEF ChangedIn
<1>12. ChangedIn(e2, g, F) /\ g.due = e2.due
  <2>1. Allowed(e2.regs, w3.field, w3.index, w3.value) /\ Touched(w3) \subseteq F
    BY <1>2, <1>3, <1>5, <1>6
  <2>2. ChangedIn(e2, WriteTo(e2, w3), F) /\ WriteTo(e2, w3).due = e2.due \cup Due(w3)
    BY <1>6, <1>11, <2>1, AllowedWrite
  <2> QED
    BY <1>1, <1>3, <2>2
<1>13. ChangedIn(e, g, F) /\ g.due = e.due
  <2>1. ChangedIn(e, e2, F)
    BY <1>8, <1>10, ChangedTogether
  <2> QED
    BY <1>8, <1>10, <1>12, <2>1, ChangedTogether
<1>14. ASSUME NEW f \in ReceiveFields \ {rxen}
       PROVE  g.regs[f][0] = e.regs[f][0]
  BY <1>5, <1>13 DEF ChangedIn
<1>15. {"RXDCTL.ENABLE", "RDBA", "RDT.RDT", "FCTRL.UPE", "FCTRL.MPE", "SECRXSTAT.SECRX_RDY"}
         \subseteq ReceiveFields \ {rxen}
  BY DEF ReceiveFields
<1>16. FiltersAreOpen(g) /\ HasReceiveRing(g) /\ QueueIsReady(g)
       /\ g.regs["SECRXSTAT.SECRX_RDY"][0] = 1
  BY <1>14, <1>15 DEF FiltersAreOpen, HasReceiveRing, QueueIsReady
<1>17. ReceivesSafely(g)
  BY <1>13, <1>16 DEF ReceivesSafely
<1>18. IsDevice(g) /\ g.refused = e.refused
  BY <1>13 DEF ChangedIn
<1>19. ASSUME NEW q \in Nat, TransmitIsOff(e, q)
       PROVE  TransmitIsOff(g, q)
  BY <1>5, <1>13, <1>19, TransmitKept
<1> QED
  BY <1>16, <1>17, <1>18, <1>19

\* The last write to an input.
LEMMA FinishWrites ==
  ASSUME NEW e, IsDevice(e),
         NEW g, g = WriteAll(e, << Change("DCA_RXCTRL.Special_Reserved", 0, 0) >>)
  PROVE  ChangedIn(e, g, {"DCA_RXCTRL.Special_Reserved"})
<1> DEFINE f == "DCA_RXCTRL.Special_Reserved"
           F == {f}
<1>1. \A r : Allowed(r, f, 0, 0)
  BY DEF Allowed, enable_receive_queue
<1>2. f \notin SideFields /\ f \in F /\ 0 \in Int
  BY DEF SideFields
<1> DEFINE ws == <<Change(f, 0, 0)>>
<1> HIDE DEF f, F
<1>3. AreHarmless(ws, F)
  BY <1>1, <1>2, HarmlessWrite
<1>4. g = WriteAll(e, ws)
  BY DEF f
<1> HIDE DEF ws
<1>5. ChangedIn(e, g, F)
  BY <1>3, <1>4, HarmlessWrites
<1> QED
  BY <1>5 DEF F, f

-----------------------------------------------------------------------------
(* What the hardware does.                                                 *)

\* A change that the hardware completes enables no queue that is off, and
\* does not make a device receive that should not.
LEMMA CompletionKeeps ==
  ASSUME NEW e, IsDevice(e), NEW w \in e.due, NEW g, g = Completed(e, w)
  PROVE  /\ IsDevice(g) /\ g.refused = e.refused
         /\ IsResetting(e) =>
              /\ IsResetting(g)
              /\ e.regs["RXDCTL.ENABLE"][0] = 0 => g.regs["RXDCTL.ENABLE"][0] = 0
              /\ e.regs["DEVICE_STATUS.Transaction_Pending"][0] = 0 =>
                   g.regs["DEVICE_STATUS.Transaction_Pending"][0] = 0
         /\ ReceivesSafely(e) =>
              /\ ReceivesSafely(g)
              /\ g.regs["RXCTRL.RXEN"][0] = e.regs["RXCTRL.RXEN"][0]
              /\ FiltersAreOpen(e) => FiltersAreOpen(g)
              /\ HasReceiveRing(e) => HasReceiveRing(g)
              /\ QueueIsReady(e) => QueueIsReady(g)
         /\ ReceiveIsOff(e) => ReceiveIsOff(g)
         /\ \A q \in Nat : TransmitIsOff(e, q) => TransmitIsOff(g, q)
<1>1. IsDevice(g) /\ g.due = e.due \ {w} /\ g.refused = e.refused
  BY AfterCompletion
<1>2. \A f \in Fields : \A i \in DOMAIN PowerOn[f] :
        g.regs[f][i] = ValueCompleted(e.regs, w, f, i)
  BY AfterCompletion
<1>3. /\ ReceiveFields \subseteq Fields /\ \A f \in Fields : 0 \in DOMAIN PowerOn[f]
      /\ {"TXDCTL.ENABLE", "STATUS.PCIe_Master_Enable_Status",
          "DEVICE_STATUS.Transaction_Pending"} \subseteq Fields
      /\ DOMAIN PowerOn["TXDCTL.ENABLE"] = 0 .. TransmitQueuesCount - 1
  BY WatchedFields
<1>4. ASSUME NEW f \in Fields, NEW i \in DOMAIN PowerOn[f]
      PROVE  g.regs[f][i] = e.regs[f][i] \/ (w.field = f /\ w.index = i /\ g.regs[f][i] = w.value)
  BY <1>2 DEF ValueCompleted
<1>5. ASSUME IsResetting(e)
      PROVE  /\ IsResetting(g)
             /\ e.regs["RXDCTL.ENABLE"][0] = 0 => g.regs["RXDCTL.ENABLE"][0] = 0
             /\ e.regs["DEVICE_STATUS.Transaction_Pending"][0] = 0 =>
                  g.regs["DEVICE_STATUS.Transaction_Pending"][0] = 0
  <2>1. {"RXDCTL.ENABLE", "STATUS.PCIe_Master_Enable_Status",
         "DEVICE_STATUS.Transaction_Pending"} \subseteq Fields
    BY <1>3 DEF ReceiveFields
  <2>2. ASSUME NEW f \in {"RXDCTL.ENABLE", "STATUS.PCIe_Master_Enable_Status",
                          "DEVICE_STATUS.Transaction_Pending"}
        PROVE  g.regs[f][0] = e.regs[f][0] \/ g.regs[f][0] = 0
    BY <1>3, <1>4, <1>5, <2>1 DEF IsResetting
  <2> QED
    BY <1>1, <1>5, <2>2 DEF IsResetting
<1>6. ASSUME ReceivesSafely(e)
      PROVE  /\ ReceivesSafely(g)
             /\ g.regs["RXCTRL.RXEN"][0] = e.regs["RXCTRL.RXEN"][0]
             /\ FiltersAreOpen(e) => FiltersAreOpen(g)
             /\ HasReceiveRing(e) => HasReceiveRing(g)
             /\ QueueIsReady(e) => QueueIsReady(g)
  <2>1. ASSUME NEW f \in ReceiveFields \ {"RXDCTL.ENABLE", "SECRXSTAT.SECRX_RDY"}
        PROVE  g.regs[f][0] = e.regs[f][0]
    BY <1>3, <1>4, <1>6, <2>1 DEF ReceivesSafely
  <2>2. ASSUME NEW f \in {"RXDCTL.ENABLE", "SECRXSTAT.SECRX_RDY"}
        PROVE  g.regs[f][0] = e.regs[f][0] \/ g.regs[f][0] = 1
    <3>1. f \in ReceiveFields
      BY DEF ReceiveFields
    <3> QED
      BY <1>3, <1>4, <1>6, <3>1 DEF ReceivesSafely
  <2>3. {"RXCTRL.RXEN", "RDBA", "RDT.RDT", "FCTRL.UPE", "FCTRL.MPE"}
          \subseteq ReceiveFields \ {"RXDCTL.ENABLE", "SECRXSTAT.SECRX_RDY"}
    BY DEF ReceiveFields
  <2>4. g.regs["RXCTRL.RXEN"][0] = e.regs["RXCTRL.RXEN"][0]
    BY <2>1, <2>3
  <2>5. FiltersAreOpen(e) => FiltersAreOpen(g)
    BY <2>1, <2>3 DEF FiltersAreOpen
  <2>6. HasReceiveRing(e) => HasReceiveRing(g)
    BY <2>1, <2>3 DEF HasReceiveRing
  <2>7. QueueIsReady(e) => QueueIsReady(g)
    BY <2>1, <2>2, <2>3 DEF QueueIsReady
  <2>8. e.regs["SECRXSTAT.SECRX_RDY"][0] = 1 => g.regs["SECRXSTAT.SECRX_RDY"][0] = 1
    BY <2>2
  <2>9. ReceivesSafely(g)
    BY <1>1, <1>6, <2>4, <2>5, <2>6, <2>7, <2>8 DEF ReceivesSafely
  <2> QED
    BY <2>4, <2>5, <2>6, <2>7, <2>9
<1>7. ASSUME ReceiveIsOff(e)
      PROVE  ReceiveIsOff(g)
  <2>1. "RXDCTL.ENABLE" \in Fields
    BY <1>3 DEF ReceiveFields
  <2> QED
    BY <1>1, <1>3, <1>4, <1>7, <2>1 DEF ReceiveIsOff
<1>8. ASSUME NEW q \in Nat, TransmitIsOff(e, q)
      PROVE  TransmitIsOff(g, q)
  <2>1. q < TransmitQueuesCount => q \in DOMAIN PowerOn["TXDCTL.ENABLE"]
    BY <1>3, QueuesAssumption
  <2> QED
    BY <1>1, <1>3, <1>4, <1>8, <2>1 DEF TransmitIsOff
<1> QED
  BY <1>1, <1>5, <1>6, <1>7, <1>8

-----------------------------------------------------------------------------
(* What an agent allocates.                                                *)

\* One heap has a block more than another.
HasOneMore(g, h) ==
  /\ Len(h.blocks) \in Nat /\ Len(g.blocks) = Len(h.blocks) + 1
  /\ \A i \in 1 .. Len(h.blocks) : g.blocks[i] = h.blocks[i]

\* A block that was allocated is the last of those that there are.
LEMMA AllocAppends ==
  ASSUME NEW h, HeapOK(h), NEW count, NEW size, IsLegal(count, size),
         NEW g, g = os_memory_alloc(h, count, size), ~ g.halted
  PROVE  /\ ~ h.halted /\ HeapOK(g) /\ HasOneMore(g, h)
         /\ g.blocks[Len(h.blocks) + 1].size = size
<1>0. h \in [used : 0 .. OS_MEMORY_SIZE, blocks : Seq(BlockType), halted : BOOLEAN]
  BY DEF HeapOK
<1>1. \/ g = h /\ h.halted
      \/ g.halted
      \/ ~ h.halted /\ \E a : g.blocks = Append(h.blocks, Block(a, count, size))
  BY <1>0 DEF os_memory_alloc
<1>2. PICK a : g.blocks = Append(h.blocks, Block(a, count, size))
  BY <1>1
<1>3. HeapOK(g)
  BY AllocKeeps
<1>4. Block(a, count, size).size = size
  BY DEF Block
<1>5. h.blocks \in Seq(BlockType)
  BY <1>0
<1> QED
  BY <1>1, <1>2, <1>3, <1>4, <1>5 DEF HasOneMore

\* The heads of an agent's queues are where they are aligned.
LEMMA HeadsAligned ==
  ASSUME NEW h, HeapOK(h), NEW g, g = AllocAll(h, AgentRequests(OutputsCount)), ~ g.halted
  PROVE  LET addr == g.blocks[Len(h.blocks) + 3].addr
         IN  addr \in Nat /\ addr % 128 = 0
<1> DEFINE rs == AgentRequests(OutputsCount)
           k == Len(h.blocks)
<1>1. /\ Len(rs) = 5 /\ rs[3] = <<OutputsCount, TRANSMIT_HEAD_MULTIPLIER * 4>>
      /\ TRANSMIT_HEAD_MULTIPLIER * 4 = 64
  BY DEF AgentRequests, TRANSMIT_HEAD_MULTIPLIER
<1>2. \A i \in 1 .. Len(rs) : IsLegal(rs[i][1], rs[i][2])
  BY DriverRequestsLegal DEF LegalRequests
<1> HIDE DEF rs
<1>3. PICK F : Allocating(F, h, rs, Len(rs)) /\ AllocAll(h, rs) = F[Len(rs)]
  <2>1. Len(rs) \in Nat
    BY <1>1
  <2> QED
    BY <2>1, AllocAllAllocates
<1>4. /\ F[0] = h /\ \A i \in 1 .. 5 : F[i] = os_memory_alloc(F[i - 1], rs[i][1], rs[i][2])
      /\ g = F[5]
  BY <1>1, <1>3 DEF Allocating, rs
<1>5. /\ F[1] = os_memory_alloc(F[0], rs[1][1], rs[1][2])
      /\ F[2] = os_memory_alloc(F[1], rs[2][1], rs[2][2])
      /\ F[3] = os_memory_alloc(F[2], rs[3][1], rs[3][2])
      /\ F[4] = os_memory_alloc(F[3], rs[4][1], rs[4][2])
      /\ F[5] = os_memory_alloc(F[4], rs[5][1], rs[5][2])
  BY <1>4
<1>6. /\ IsLegal(rs[1][1], rs[1][2]) /\ IsLegal(rs[2][1], rs[2][2]) /\ IsLegal(rs[3][1], rs[3][2])
      /\ IsLegal(rs[4][1], rs[4][2]) /\ IsLegal(rs[5][1], rs[5][2])
  BY <1>1, <1>2
<1>7. HeapOK(F[0]) /\ HeapOK(F[1]) /\ HeapOK(F[2]) /\ HeapOK(F[3]) /\ HeapOK(F[4])
  <2>1. HeapOK(F[0])
    BY <1>4
  <2>2. HeapOK(F[1])
    BY <1>5, <1>6, <2>1, AllocKeeps
  <2>3. HeapOK(F[2])
    BY <1>5, <1>6, <2>2, AllocKeeps
  <2>4. HeapOK(F[3])
    BY <1>5, <1>6, <2>3, AllocKeeps
  <2>5. HeapOK(F[4])
    BY <1>5, <1>6, <2>4, AllocKeeps
  <2> QED
    BY <2>1, <2>2, <2>3, <2>4, <2>5
<1>8. ~ F[4].halted /\ HeapOK(F[5]) /\ HasOneMore(F[5], F[4])
  BY <1>4, <1>5, <1>6, <1>7, AllocAppends
<1>9. ~ F[3].halted /\ HasOneMore(F[4], F[3])
  BY <1>5, <1>6, <1>7, <1>8, AllocAppends
<1>10. /\ ~ F[2].halted /\ HasOneMore(F[3], F[2])
       /\ F[3].blocks[Len(F[2].blocks) + 1].size = rs[3][2]
  BY <1>5, <1>6, <1>7, <1>9, AllocAppends
<1>11. ~ F[1].halted /\ HasOneMore(F[2], F[1])
  BY <1>5, <1>6, <1>7, <1>10, AllocAppends
<1>12. HasOneMore(F[1], F[0])
  BY <1>5, <1>6, <1>7, <1>11, AllocAppends
<1>13. k \in Nat /\ Len(F[3].blocks) = k + 3 /\ Len(F[5].blocks) = k + 5
       /\ F[3].blocks[k + 3].size = 64
  <2>1. k \in Nat /\ Len(F[1].blocks) = k + 1
    BY <1>4, <1>12 DEF HasOneMore
  <2> HIDE DEF k
  <2>2. Len(F[2].blocks) = k + 2
    BY <1>11, <2>1 DEF HasOneMore
  <2>3. Len(F[3].blocks) = k + 3 /\ F[3].blocks[k + 3].size = 64
    BY <1>1, <1>10, <2>1, <2>2 DEF HasOneMore
  <2> QED
    BY <1>8, <1>9, <2>1, <2>3 DEF HasOneMore
<1>14. g.blocks[k + 3] = F[3].blocks[k + 3]
  <2>1. Len(F[4].blocks) = k + 4 /\ k + 3 \in 1 .. k + 3 /\ k + 3 \in 1 .. k + 4
    BY <1>9, <1>13 DEF HasOneMore
  <2>2. F[5].blocks[k + 3] = F[4].blocks[k + 3]
    BY <1>8, <2>1 DEF HasOneMore
  <2>3. F[4].blocks[k + 3] = F[3].blocks[k + 3]
    BY <1>9, <1>13, <2>1 DEF HasOneMore
  <2> QED
    BY <1>4, <2>2, <2>3
<1> DEFINE b == g.blocks[k + 3]
<1>15. b.size = 64
  BY <1>13, <1>14
<1>16. k + 3 \in 1 .. Len(g.blocks) /\ HeapOK(g)
  BY <1>4, <1>8, <1>13
<1>17. b.addr % AlignDiv(b.size) = 0
  BY <1>16 DEF HeapOK, KeepsContract
<1>18. b.addr \in Nat
  <2>1. g.blocks \in Seq(BlockType)
    BY <1>16 DEF HeapOK
  <2>2. b \in BlockType
    BY <1>16, <2>1
  <2> QED
    BY <2>2 DEF BlockType
<1>19. AlignDiv(64) = 128
  BY DEF AlignDiv, CACHE_LINE_SIZE
<1> QED
  BY <1>15, <1>17, <1>18, <1>19

\* What is at a multiple of 16 is so for a device too.
LEMMA HeadAddresses ==
  ASSUME NEW x \in Nat, x % 128 = 0, NEW o \in Nat
  PROVE  LET head == os_memory_virt_to_phys(x + o * TRANSMIT_HEAD_MULTIPLIER * 4)
         IN  head \in Int /\ head % 16 = 0
<1> DEFINE K == (PhysicalPage - VirtualPage) * (HUGEPAGE_SIZE \div PAGE_SIZE)
           y == x + o * TRANSMIT_HEAD_MULTIPLIER * 4
<1>1. HUGEPAGE_SIZE \div PAGE_SIZE \in Int
  BY MemoryAssumption DEF PAGE_SIZE
<1>2. K \in Int
  BY <1>1, MemoryAssumption
<1> HIDE DEF K
<1>3. os_memory_virt_to_phys(y) = (y \div 4096 + K) * 4096 + (y % 4096)
  BY DEF os_memory_virt_to_phys, Frame, PAGE_SIZE, K
<1>4. y \in Nat /\ y % 16 = 0
  BY DEF TRANSMIT_HEAD_MULTIPLIER
<1> HIDE DEF y
<1>5. (y \div 4096 + K) * 4096 + (y % 4096) = y + 4096 * K
  BY <1>2, <1>4
<1>6. y + 4096 * K \in Int /\ (y + 4096 * K) % 16 = 0
  BY <1>2, <1>4
<1> QED
  BY <1>3, <1>5, <1>6 DEF y

\* A ring has an address.
LEMMA RingAddress ==
  ASSUME NEW h, HeapOK(h), NEW g, g = descriptor_ring_alloc(h, IXGBE_RING_SIZE), ~ g.halted
  PROVE  os_memory_virt_to_phys(Result(g)) \in Int
<1>1. g = os_memory_alloc(h, IXGBE_RING_SIZE, 16) /\ IsLegal(IXGBE_RING_SIZE, 16)
  BY DriverRequestsLegal DEF descriptor_ring_alloc
<1>2. HeapOK(g) /\ Len(g.blocks) = Len(h.blocks) + 1 /\ Len(h.blocks) \in Nat
  BY <1>1, AllocAppends DEF HasOneMore
<1>3. Result(g) \in Nat
  <2>1. g.blocks \in Seq(BlockType) /\ Len(g.blocks) \in 1 .. Len(g.blocks)
    BY <1>2 DEF HeapOK
  <2>2. g.blocks[Len(g.blocks)] \in BlockType
    BY <2>1
  <2> QED
    BY <2>2 DEF Result, Last, BlockType
<1>4. (PhysicalPage - VirtualPage) * (HUGEPAGE_SIZE \div PAGE_SIZE) \in Int
  <2>1. HUGEPAGE_SIZE \div PAGE_SIZE \in Int
    BY MemoryAssumption DEF PAGE_SIZE
  <2> QED
    BY <2>1, MemoryAssumption
<1> QED
  BY <1>3, <1>4 DEF os_memory_virt_to_phys, Frame, PAGE_SIZE

-----------------------------------------------------------------------------
(* Every step keeps the devices as they should be.                         *)

\* The rings of the outputs there are have addresses.
RingsOK ==
  /\ DOMAIN rings = Devices /\ \A a \in Devices : DOMAIN rings[a] = Outputs
  /\ \A a, d \in Devices : a # d /\ HasOutput(a, d) => rings[a][TrueIndex(a, d)].addr \in Int

\* The heads of the agent that is set up are aligned.
HeadsOK ==
  /\ DOMAIN transmit_heads = Devices
  /\ at \in OutputPlaces \cup InputPlaces =>
       transmit_heads[n] \in Nat /\ transmit_heads[n] % 128 = 0

\* A network function that does not start leaves main before any device.
ExitOK == at = "exit" => n = 0

SetupInv == DevicesInv /\ RingsOK /\ HeadsOK /\ ExitOK

\* A step that does not touch a device, and after which no more is asked of it.
Stays(d) ==
  /\ NotYet(d)' => NotYet(d)
  /\ Undergoes(d)' => Undergoes(d)
  /\ at' \notin {"exit", "fatal"} /\ ~ Undergoes(d)' =>
       at \notin {"exit", "fatal"} /\ ~ Undergoes(d)
  /\ WasReset(d)' => WasReset(d)
  /\ WasReset(d)' /\ ~ MayReceive(d)' => ~ MayReceive(d)
  /\ WasReset(d)' => (HasQueue(d)' <=> HasQueue(d))
  /\ IsConfigured(d)' => IsConfigured(d)
  /\ \A a \in Devices \ {d} : WasReset(d)' /\ ~ HasOutput(a, d)' => ~ HasOutput(a, d)

\* The stage of such a device is as it should be.
LEMMA StageKept ==
  ASSUME NEW d \in Devices, dev'[d] = dev[d], StageOK(d), Stays(d)
  PROVE  StageOK(d)'
BY DEF StageOK, Stays

\* One device was written to.
LEMMA OneTouched ==
  ASSUME DevicesInv, NEW k \in Devices, NEW g, dev' = [dev EXCEPT ![k] = g],
         IsDevice(g), g = dev'[k] => StageOK(k)', PlaceOK',
         \A d \in Devices \ {k} : Stays(d)
  PROVE  DevicesInv'
<1>1. DOMAIN dev = Devices /\ \A d \in Devices : IsDevice(dev[d]) /\ StageOK(d)
  BY DEF DevicesInv
<1>2. dev'[k] = g /\ DOMAIN dev' = Devices /\ \A d \in Devices \ {k} : dev'[d] = dev[d]
  BY <1>1
<1>3. ASSUME NEW d \in Devices
      PROVE  IsDevice(dev'[d]) /\ StageOK(d)'
  <2>1. CASE d = k
    BY <1>2, <2>1
  <2>2. CASE d # k
    BY <1>1, <1>2, <2>2, StageKept
  <2> QED
    BY <2>1, <2>2
<1> QED
  BY <1>2, <1>3 DEF DevicesInv

\* No device was written to.
LEMMA NoneTouched ==
  ASSUME DevicesInv, dev' = dev, PlaceOK', \A d \in Devices : Stays(d)
  PROVE  DevicesInv'
<1>1. DOMAIN dev = Devices /\ \A d \in Devices : IsDevice(dev[d]) /\ StageOK(d)
  BY DEF DevicesInv
<1>2. \A d \in Devices : IsDevice(dev'[d]) /\ StageOK(d)'
  BY <1>1, StageKept
<1> QED
  BY <1>1, <1>2 DEF DevicesInv

\* When a device stays as it is.
LEMMA StaysWhen ==
  ASSUME NEW d \in Devices, LoopsOK, DevicesCount \in Nat
  PROVE  /\ UNCHANGED <<at, n, m>> => Stays(d)
         /\ at' \in {"exit", "fatal"} => Stays(d)
         /\ at' \in {"halt", "undefined"} /\ at \notin {"exit", "fatal"} /\ ~ Undergoes(d) => Stays(d)
         /\ at \in DevicePlaces /\ at' \in DevicePlaces /\ n' = n /\ d # n => Stays(d)
         /\ at \in BeforeDevices /\ at' \in BeforeDevices \cup {"pci"} /\ n' = 0 => Stays(d)
<1> USE DEF Stays, NotYet, Undergoes, WasReset, MayReceive, HasQueue, IsConfigured, HasOutput,
           IsOutput, HasInput, BeforeDevices, DevicePlaces, AgentPlaces, OutputPlaces, InputPlaces,
           Resetting, Devices
<1>1. UNCHANGED <<at, n, m>> => Stays(d)
  OBVIOUS
<1>2. at' \in {"exit", "fatal"} => Stays(d)
  OBVIOUS
<1>3. at' \in {"halt", "undefined"} /\ at \notin {"exit", "fatal"} /\ ~ Undergoes(d) => Stays(d)
  OBVIOUS
<1>4. at \in DevicePlaces /\ at' \in DevicePlaces /\ n' = n /\ d # n => Stays(d)
  OBVIOUS
<1>5. at \in BeforeDevices /\ at' \in BeforeDevices \cup {"pci"} /\ n' = 0 => Stays(d)
  OBVIOUS
<1> QED
  BY <1>1, <1>2, <1>3, <1>4, <1>5

\* And while agents are set up.
LEMMA StaysWhenAgents ==
  ASSUME NEW d \in Devices, LoopsOK, at \in AgentPlaces, at' \in AgentPlaces, n' = n,
         d # n \/ ((HasQueue(d)' <=> HasQueue(d)) /\ (MayReceive(d) => MayReceive(d)')),
         d # n => (HasOutput(n, d)' <=> HasOutput(n, d))
  PROVE  Stays(d)
<1>1. ASSUME NEW a \in Devices, a # n
      PROVE  HasOutput(a, d)' <=> HasOutput(a, d)
  BY <1>1 DEF HasOutput, IsOutput, AgentPlaces, OutputPlaces, InputPlaces
<1>2. d # n => (HasQueue(d)' <=> HasQueue(d)) /\ (MayReceive(d)' <=> MayReceive(d))
  BY DEF HasQueue, MayReceive, HasInput, AgentPlaces, OutputPlaces, InputPlaces
<1>3. /\ ~ NotYet(d)' /\ ~ Undergoes(d)' /\ ~ Undergoes(d) /\ at \notin {"exit", "fatal"}
      /\ WasReset(d) /\ IsConfigured(d)
  BY DEF NotYet, Undergoes, WasReset, IsConfigured, BeforeDevices, DevicePlaces, AgentPlaces,
         OutputPlaces, InputPlaces, Resetting
<1>4. \A a \in Devices \ {d} : ~ HasOutput(a, d)' => ~ HasOutput(a, d)
  BY <1>1
<1> QED
  BY <1>2, <1>3, <1>4 DEF Stays

\* Numbers in rows of the same length are those of one row each.
LEMMA RowsDiffer ==
  ASSUME NEW w \in Nat, NEW x \in Nat, NEW y \in Nat, NEW s \in 0 .. w - 1, NEW t \in 0 .. w - 1
  PROVE  x < y => x * w + s < y * w + t
<1> SUFFICES ASSUME x < y
             PROVE  x * w + s < y * w + t
  OBVIOUS
<1>1. (x + 1) * w <= y * w
  OBVIOUS
<1>2. (x + 1) * w = x * w + w /\ x * w \in Nat /\ y * w \in Nat
  OBVIOUS
<1> QED
  BY <1>1, <1>2

\* A number is in one row only.
LEMMA RowOf ==
  ASSUME NEW w \in Nat, NEW x \in Nat, NEW y \in Nat, NEW s \in 0 .. w - 1, NEW t \in 0 .. w - 1,
         x * w + s = y * w + t
  PROVE  x = y
<1> DEFINE u == x * w + s
           v == y * w + t
<1>1. u \in Nat /\ v \in Nat /\ u = v
  <2>1. x * w \in Nat /\ y * w \in Nat
    OBVIOUS
  <2> QED
    BY <2>1
<1>2. (x < y => u < v) /\ (y < x => v < u)
  BY RowsDiffer
<1> HIDE DEF u, v
<1>3. ~ (x < y) /\ ~ (y < x)
  BY <1>1, <1>2
<1> QED
  BY <1>3

\* The queues of agents have numbers, and no two agents have the same queue of
\* a device.  Queue 0 is that of the first agent at device 1.
LEMMA QueuesDiffer ==
  ASSUME NEW d \in Devices, NEW a \in Devices, a # d
  PROVE  /\ QueueIndex(a, d) \in Nat
         /\ \A b \in Devices \ {d} : QueueIndex(b, d) = QueueIndex(a, d) => b = a
         /\ QueueIndex(a, d) = 0 => a = 0
         /\ QueueIndex(a, d) < DevicesCount * OutputsCount
<1> DEFINE O == OutputsCount
<1>1. O \in Nat /\ DevicesCount = O + 1 /\ Devices = 0 .. O /\ Outputs = 0 .. O - 1
  BY DevicesAssumption DEF OutputsCount, Devices, Outputs
<1>2. \A b \in Devices \ {d} : TrueIndex(b, d) \in 0 .. O - 1
  BY <1>1, TrueIndexFacts
<1>4. ASSUME NEW b \in Devices \ {d}
      PROVE  QueueIndex(b, d) = b * O + TrueIndex(b, d) /\ b \in Nat
  BY <1>1 DEF QueueIndex
<1>5. QueueIndex(a, d) \in Nat
  <2>1. a * O \in Nat /\ TrueIndex(a, d) \in Nat
    BY <1>1, <1>2
  <2> QED
    BY <1>4, <2>1
<1>6. ASSUME NEW b \in Devices \ {d}, QueueIndex(b, d) = QueueIndex(a, d)
      PROVE  b = a
  <2>1. a \in Devices \ {d} /\ a \in Nat /\ b \in Nat
    BY <1>1
  <2>2. /\ QueueIndex(a, d) = a * O + TrueIndex(a, d) /\ QueueIndex(b, d) = b * O + TrueIndex(b, d)
        /\ TrueIndex(a, d) \in 0 .. O - 1 /\ TrueIndex(b, d) \in 0 .. O - 1
    BY <1>2, <1>4, <2>1
  <2>3. b * O + TrueIndex(b, d) = a * O + TrueIndex(a, d)
    BY <1>6, <2>2
  <2> HIDE DEF O
  <2> QED
    BY <1>1, <2>1, <2>2, <2>3, RowOf
<1>7. QueueIndex(a, d) = 0 => a = 0
  <2>1. a \in Nat /\ O \in Nat \ {0} /\ TrueIndex(a, d) \in Nat
    BY <1>1, <1>2
  <2>2. a # 0 => a * O >= O
    BY <2>1
  <2>3. a * O \in Nat
    BY <2>1
  <2> HIDE DEF O
  <2> QED
    BY <1>4, <2>1, <2>2, <2>3
<1>8. QueueIndex(a, d) < DevicesCount * O
  <2>1. a <= O /\ a \in Nat /\ TrueIndex(a, d) \in 0 .. O - 1
    BY <1>1, <1>2
  <2>2. a * O <= O * O /\ a * O \in Nat /\ O * O \in Nat
    BY <1>1, <2>1
  <2>3. DevicesCount * O = O * O + O
    BY <1>1
  <2>4. QueueIndex(a, d) = a * O + TrueIndex(a, d)
    BY <1>4
  <2> HIDE DEF O
  <2> QED
    BY <1>1, <2>1, <2>2, <2>3, <2>4
<1> QED
  BY <1>5, <1>6, <1>7, <1>8

\* The driver stops, or does not start, and the devices stay as they are.
LEMMA StopsQuietly ==
  ASSUME SetupInv, LoopsOK, dev' = dev,
         \/ at' \in {"exit", "fatal"}
         \/ at' \in {"halt", "undefined"} /\ at \notin Resetting \cup {"exit", "fatal"}
  PROVE  DevicesInv'
<1>1. DevicesInv /\ DevicesCount \in Nat
  BY DevicesAssumption DEF SetupInv
<1>2. PlaceOK'
  BY DEF PlaceOK
<1>3. ASSUME NEW d \in Devices
      PROVE  Stays(d)
  <2>1. at \notin Resetting => ~ Undergoes(d)
    BY DEF Undergoes
  <2> QED
    BY <1>1, <2>1, StaysWhen
<1> QED
  BY <1>1, <1>2, <1>3, NoneTouched

\* A step that has nothing to do with devices.
LEMMA NothingHappens ==
  ASSUME SetupInv, LoopsOK, UNCHANGED <<at, n, m, dev>>
  PROVE  DevicesInv'
<1>1. DevicesInv /\ DevicesCount \in Nat
  BY DevicesAssumption DEF SetupInv
<1>2. PlaceOK'
  BY <1>1 DEF PlaceOK, DevicesInv
<1> QED
  BY <1>1, <1>2, StaysWhen, NoneTouched

\* What main does before its devices.
LEMMA StartsQuietly ==
  ASSUME SetupInv, LoopsOK, dev' = dev, at \in BeforeDevices, at' \in BeforeDevices \cup {"pci"},
         n' = 0
  PROVE  DevicesInv'
<1>1. DevicesInv /\ DevicesCount \in Nat
  BY DevicesAssumption DEF SetupInv
<1>2. PlaceOK'
  BY DEF PlaceOK, BeforeDevices
<1> QED
  BY <1>1, <1>2, StaysWhen, NoneTouched

\* A device whose previous driver's work is undone, and is so for longer.
LEMMA StillResetting ==
  ASSUME SetupInv, LoopsOK, at \in DevicePlaces, at' \in Resetting, n' = n,
         NEW g, dev' = [dev EXCEPT ![n] = g], IsDevice(g), IsResetting(g),
         g = dev'[n] => PlaceOK'
  PROVE  DevicesInv'
<1>1. DevicesInv /\ DevicesCount \in Nat /\ n \in Devices /\ Devices \subseteq Nat
  BY DevicesAssumption DEF SetupInv, LoopsOK, Devices
<1>2. at' \in DevicePlaces /\ at' # "pci" /\ at' \notin BeforeDevices \cup AgentPlaces \cup {"run"}
      /\ at' \notin {"await_eeprom", "await_dma", "promiscuous"}
  BY DEF Resetting, DevicePlaces, BeforeDevices, AgentPlaces, OutputPlaces, InputPlaces
<1>3. /\ ~ NotYet(n)' /\ Undergoes(n)' /\ ~ WasReset(n)' /\ ~ IsConfigured(n)'
  BY <1>1, <1>2 DEF NotYet, Undergoes, WasReset, IsConfigured
<1>4. g = dev'[n] => StageOK(n)'
  BY <1>3 DEF StageOK
<1>5. \A d \in Devices \ {n} : Stays(d)
  BY <1>1, <1>2, StaysWhen
<1>6. g = dev'[n]
  BY <1>1 DEF DevicesInv
<1> QED
  BY <1>1, <1>4, <1>5, <1>6, OneTouched

\* Nothing comes into a device or leaves it.
IsOff(e, d) ==
  /\ e.regs["RXCTRL.RXEN"][0] = 0 /\ ReceiveIsOff(e) /\ ReceivesSafely(e)
  /\ \A a \in Devices \ {d} : TransmitIsOff(e, QueueIndex(a, d))

\* A device that was reset.
LEMMA StillReset ==
  ASSUME SetupInv, LoopsOK, at \in DevicePlaces, n' = n,
         at' \in {"await_eeprom", "await_dma", "promiscuous"},
         NEW g, dev' = [dev EXCEPT ![n] = g], IsDevice(g), IsOff(g, n)
  PROVE  DevicesInv'
<1>1. DevicesInv /\ DevicesCount \in Nat /\ n \in Devices /\ Devices \subseteq Nat
  BY DevicesAssumption DEF SetupInv, LoopsOK, Devices
<1>2. at' \in DevicePlaces /\ at' \notin BeforeDevices \cup AgentPlaces \cup {"run", "pci"}
      /\ at' \notin Resetting
  BY DEF Resetting, DevicePlaces, BeforeDevices, AgentPlaces, OutputPlaces, InputPlaces
<1>3. /\ ~ NotYet(n)' /\ ~ Undergoes(n)' /\ ~ IsConfigured(n)' /\ ~ HasQueue(n)'
  BY <1>1, <1>2 DEF NotYet, Undergoes, IsConfigured, HasQueue, HasInput, AgentPlaces, InputPlaces
<1>4. g = dev'[n] => StageOK(n)'
  BY <1>3 DEF StageOK, IsOff
<1>5. \A d \in Devices \ {n} : Stays(d)
  BY <1>1, <1>2, StaysWhen
<1>6. PlaceOK'
  BY DEF PlaceOK
<1> QED
  BY <1>1, <1>4, <1>5, <1>6, OneTouched

\* While the driver waits for such a device, nothing goes through it.
LEMMA ResetIsOff ==
  ASSUME SetupInv, LoopsOK, at \in {"await_eeprom", "await_dma", "promiscuous"}
  PROVE  n \in Devices /\ IsDevice(dev[n]) /\ IsOff(dev[n], n)
<1>1. /\ n \in Devices /\ Devices \subseteq Nat
      /\ IsDevice(dev[n]) /\ StageOK(n)
  BY DevicesAssumption DEF SetupInv, LoopsOK, DevicesInv, Devices
<1>2. /\ ~ Undergoes(n) /\ WasReset(n) /\ ~ HasQueue(n) /\ ~ MayReceive(n)
      /\ \A a \in Devices : ~ HasOutput(a, n)
  BY DEF Undergoes, WasReset, HasQueue, MayReceive, HasInput, HasOutput, IsOutput, AgentPlaces,
         InputPlaces, OutputPlaces, Resetting
<1> QED
  BY <1>1, <1>2 DEF StageOK, IsOff

\* A step within the reset of a device that only reads.
LEMMA ResettingReads ==
  ASSUME SetupInv, LoopsOK, dev' = dev, n' = n, PlaceOK',
         \/ at \in Resetting /\ at' \in Resetting
         \/ at = "await_eeprom" /\ at' = "await_dma"
  PROVE  DevicesInv'
<1>1. DevicesInv /\ n \in Devices /\ Devices \subseteq Nat
  BY DevicesAssumption DEF SetupInv, LoopsOK, Devices
<1>2. ASSUME NEW d \in Devices
      PROVE  Stays(d)
  BY <1>1 DEF Stays, NotYet, Undergoes, WasReset, MayReceive, HasQueue, IsConfigured, HasOutput,
         IsOutput, HasInput, BeforeDevices, DevicePlaces, AgentPlaces, OutputPlaces, InputPlaces,
         Resetting
<1> QED
  BY <1>1, <1>2, NoneTouched

\* The device whose previous driver's work is undone.
LEMMA ResettingIs ==
  ASSUME SetupInv, LoopsOK, at \in Resetting
  PROVE  /\ n \in Devices /\ IsDevice(dev[n]) /\ IsResetting(dev[n])
         /\ at \in DevicePlaces /\ PlaceOK
BY DEF SetupInv, LoopsOK, DevicesInv, StageOK, Undergoes, Resetting, DevicePlaces

\* tn_device_init finds the device, as a previous driver left it.
LEMMA PciSetupKeeps ==
  ASSUME SetupInv, LoopsOK, PciSetup
  PROVE  DevicesInv' /\ \A d \in Devices : dev'[d].refused = dev[d].refused
<1>1. DevicesInv /\ n \in Devices /\ at = "pci" /\ at' = "disable_receive" /\ m' = 0 /\ n' = n
  BY DEF SetupInv, LoopsOK, PciSetup
<1>2. IsDevice(dev[n]) /\ IsFresh(dev[n])
  BY <1>1 DEF DevicesInv, StageOK, NotYet
<1>3. PICK receives \in [0 .. ReceiveQueuesCount - 1 -> {0, 1}], rxen \in {0, 1},
           pending \in {0, 1} :
        dev' = [dev EXCEPT ![n] =
                 WriteAll(LeftBehind(dev[n], receives, rxen, pending),
                          << Change("COMMAND.BME", 0, 1),
                             Change("COMMAND.Mem_Access_En", 0, 1),
                             Change("COMMAND.Interrupt_Dis", 0, 1) >>)]
  BY DEF PciSetup
<1> DEFINE e == LeftBehind(dev[n], receives, rxen, pending)
           g == WriteAll(e, << Change("COMMAND.BME", 0, 1), Change("COMMAND.Mem_Access_En", 0, 1),
                               Change("COMMAND.Interrupt_Dis", 0, 1) >>)
<1>4. /\ IsDevice(e) /\ e.due = {} /\ e.refused = dev[n].refused
      /\ e.regs["STATUS.PCIe_Master_Enable_Status"][0] = 1
  BY <1>2, LeftBehindIs
<1> HIDE DEF e
<1>5. IsDevice(g) /\ IsResetting(g) /\ g.refused = e.refused
  BY <1>4, PciWrites
<1>6. dev' = [dev EXCEPT ![n] = g]
  BY <1>3 DEF e
<1> HIDE DEF g
<1>7. at \in DevicePlaces /\ at' \in Resetting /\ PlaceOK'
  BY <1>1 DEF DevicePlaces, Resetting, PlaceOK
<1>8. DevicesInv'
  BY <1>1, <1>5, <1>6, <1>7, StillResetting
<1> QED
  BY <1>1, <1>4, <1>5, <1>6, <1>8 DEF DevicesInv

\* The receive queues are disabled.
LEMMA DisableReceiveKeeps ==
  ASSUME SetupInv, LoopsOK, DisableReceive
  PROVE  DevicesInv' /\ \A d \in Devices : dev'[d].refused = dev[d].refused
<1> DEFINE g == WriteAll(dev[n], << Change("RXDCTL.ENABLE", m, 0) >>)
<1>1. /\ at = "disable_receive" /\ at' = "await_receive_disabled" /\ n' = n /\ m' = m
      /\ dev' = [dev EXCEPT ![n] = g]
  BY DEF DisableReceive, Do
<1>2. at \in Resetting /\ at' \in Resetting
  BY <1>1 DEF Resetting
<1>3. /\ n \in Devices /\ IsDevice(dev[n]) /\ IsResetting(dev[n])
      /\ at \in DevicePlaces /\ PlaceOK
  BY <1>2, ResettingIs
<1>4. IsDevice(g) /\ IsResetting(g) /\ g.refused = dev[n].refused /\ g.regs = dev[n].regs
  BY <1>3, DisableReceiveWrites
<1> HIDE DEF g
<1>5. ASSUME g = dev'[n]
      PROVE  PlaceOK'
  BY <1>1, <1>3, <1>4, <1>5 DEF PlaceOK
<1>6. DevicesInv'
  BY <1>1, <1>2, <1>3, <1>4, <1>5, StillResetting
<1> QED
  BY <1>1, <1>3, <1>4, <1>6 DEF SetupInv, DevicesInv

\* A receive queue is off.
LEMMA ReceiveDisabledKeeps ==
  ASSUME SetupInv, LoopsOK, ReceiveDisabled
  PROVE  DevicesInv'
<1>1. /\ at = "await_receive_disabled" /\ at' \in {"master_disable", "disable_receive"}
      /\ n' = n /\ dev' = dev /\ dev[n].regs["RXDCTL.ENABLE"][m] = 0
  BY DEF ReceiveDisabled, QueueIsOff, Field, Goto
<1>2. at \in Resetting /\ at' \in Resetting
  BY <1>1 DEF Resetting
<1>3. PlaceOK /\ m \in Nat
  BY <1>2, ResettingIs, DevicesAssumption, QueuesAssumption DEF LoopsOK
<1>4. dev[n].regs["RXDCTL.ENABLE"][0] = 0
  BY <1>1, <1>3 DEF PlaceOK
<1>5. PlaceOK'
  BY <1>1, <1>4 DEF PlaceOK
<1> QED
  BY <1>1, <1>2, <1>5, ResettingReads

\* The device is asked to be no master anymore.
LEMMA MasterDisableKeeps ==
  ASSUME SetupInv, LoopsOK, MasterDisable
  PROVE  DevicesInv' /\ \A d \in Devices : dev'[d].refused = dev[d].refused
<1> DEFINE g == WriteAll(dev[n], << Change("CTRL.PCIe_Master_Disable", 0, 1) >>)
<1>1. /\ at = "master_disable" /\ at' = "await_master" /\ n' = n /\ m' = m
      /\ dev' = [dev EXCEPT ![n] = g]
  BY DEF MasterDisable, Do
<1>2. at \in Resetting /\ at' \in Resetting
  BY <1>1 DEF Resetting
<1>3. /\ n \in Devices /\ IsDevice(dev[n]) /\ IsResetting(dev[n])
      /\ at \in DevicePlaces /\ PlaceOK
  BY <1>2, ResettingIs
<1>4. IsDevice(g) /\ IsResetting(g) /\ g.refused = dev[n].refused
  BY <1>1, <1>3, MasterDisableWrites DEF PlaceOK
<1> HIDE DEF g
<1>5. PlaceOK'
  BY <1>1 DEF PlaceOK
<1>6. DevicesInv'
  BY <1>1, <1>2, <1>3, <1>4, <1>5, StillResetting
<1> QED
  BY <1>1, <1>3, <1>4, <1>6 DEF SetupInv, DevicesInv

\* The driver looks at what the device has still to do.
LEMMA MasterReadsKeep ==
  ASSUME SetupInv, LoopsOK, MasterDisabled \/ MasterTimesOut \/ NothingPending
  PROVE  DevicesInv'
<1>1. /\ dev' = dev /\ n' = n /\ at \in {"await_master", "check_pending"}
      /\ at' \in {"reset", "check_pending", "flush"}
      /\ at' = "flush" => dev[n].regs["DEVICE_STATUS.Transaction_Pending"][0] = 0
  BY DEF MasterDisabled, MasterTimesOut, NothingPending, Goto, Field
<1>2. at \in Resetting /\ at' \in Resetting
  BY <1>1 DEF Resetting
<1>3. PlaceOK'
  BY <1>1 DEF PlaceOK
<1> QED
  BY <1>1, <1>2, <1>3, ResettingReads

\* The flush of transactions, whose first write may be refused.
LEMMA FlushKeeps ==
  ASSUME SetupInv, LoopsOK, Flush
  PROVE  /\ DevicesInv'
         /\ \A d \in Devices :
              \/ dev'[d].refused = dev[d].refused
              \/ /\ d = n /\ Field(d, "STATUS.PCIe_Master_Enable_Status", 0) = 0
                 /\ dev'[d].refused = dev[d].refused \cup {"HLREG0.LPBK"}
<1> DEFINE g == WriteAll(dev[n], << Change("HLREG0.LPBK", 0, 1), Change("RXCTRL.RXEN", 0, 0),
                                    Change("GRC_EXT.Buffers_Clear_Func", 0, 1),
                                    Change("HLREG0.LPBK", 0, 0),
                                    Change("GRC_EXT.Buffers_Clear_Func", 0, 0),
                                    Change("CTRL.RST", 0, 1) >>)
<1>1. at = "flush" /\ at' = "reset" /\ n' = n /\ m' = m /\ dev' = [dev EXCEPT ![n] = g]
  BY DEF Flush, Do
<1>2. at \in Resetting /\ at' \in Resetting
  BY <1>1 DEF Resetting
<1>3. /\ n \in Devices /\ IsDevice(dev[n]) /\ IsResetting(dev[n])
      /\ at \in DevicePlaces /\ PlaceOK
  BY <1>2, ResettingIs
<1>4. /\ IsDevice(g) /\ IsResetting(g)
      /\ \/ g.refused = dev[n].refused
         \/ /\ dev[n].regs["STATUS.PCIe_Master_Enable_Status"][0] = 0
            /\ g.refused = dev[n].refused \cup {"HLREG0.LPBK"}
  <2>1. dev[n].regs["DEVICE_STATUS.Transaction_Pending"][0] = 0
    BY <1>1, <1>3 DEF PlaceOK
  <2> QED
    BY <1>3, <2>1, FlushWrites
<1> HIDE DEF g
<1>5. PlaceOK'
  BY <1>1 DEF PlaceOK
<1>6. DevicesInv'
  BY <1>1, <1>2, <1>3, <1>4, <1>5, StillResetting
<1>7. dev'[n] = g /\ \A d \in Devices \ {n} : dev'[d] = dev[d]
  BY <1>1, <1>3 DEF SetupInv, DevicesInv
<1> QED
  BY <1>4, <1>6, <1>7 DEF Field

\* The reset.
LEMMA ResetKeeps ==
  ASSUME SetupInv, LoopsOK, Reset
  PROVE  DevicesInv' /\ \A d \in Devices : dev'[d].refused = dev[d].refused
<1> DEFINE g == WriteAll(dev[n], << Change("CTRL.RST", 0, 1) >>
                                 \o Fill("EIMC.Interrupt_Mask", 0, TableSize - 1, AllBits)
                                 \o << Change("FCRTH.RTH", 0, Threshold) >>)
<1>1. at = "reset" /\ at' = "await_eeprom" /\ n' = n /\ m' = m /\ dev' = [dev EXCEPT ![n] = g]
  BY DEF Reset, Do
<1>2. at \in Resetting
  BY <1>1 DEF Resetting
<1>3. n \in Devices /\ IsDevice(dev[n]) /\ at \in DevicePlaces
  BY <1>2, ResettingIs
<1>4. IsDevice(g) /\ IsReset(g) /\ g.refused = dev[n].refused
  BY <1>3, ResetWrites
<1> HIDE DEF g
<1>5. IsOff(g, n)
  BY <1>3, <1>4, QueuesDiffer DEF IsReset, IsOff
<1>6. DevicesInv'
  BY <1>1, <1>3, <1>4, <1>5, StillReset
<1> QED
  BY <1>1, <1>3, <1>4, <1>6 DEF SetupInv, DevicesInv

\* The configuration of what is common to all queues.
LEMMA ConfigureKeeps ==
  ASSUME SetupInv, LoopsOK, Configure
  PROVE  DevicesInv' /\ \A d \in Devices : dev'[d].refused = dev[d].refused
<1> DEFINE g == WriteAll(dev[n], ReceiveInit \o TransmitInit)
<1>1. at = "await_dma" /\ at' = "promiscuous" /\ n' = n /\ m' = m /\ dev' = [dev EXCEPT ![n] = g]
  BY DEF Configure, Do
<1>2. n \in Devices /\ IsDevice(dev[n]) /\ IsOff(dev[n], n)
  BY <1>1, ResetIsOff
<1>3. /\ IsDevice(g) /\ g.refused = dev[n].refused
      /\ g.regs["RXCTRL.RXEN"][0] = dev[n].regs["RXCTRL.RXEN"][0]
      /\ ReceivesSafely(dev[n]) => ReceivesSafely(g)
      /\ ReceiveIsOff(dev[n]) => ReceiveIsOff(g)
      /\ \A q \in Nat : TransmitIsOff(dev[n], q) => TransmitIsOff(g, q)
  BY <1>2, ConfigureWrites
<1> HIDE DEF g
<1>4. IsOff(g, n)
  BY <1>2, <1>3, QueuesDiffer DEF IsOff
<1>5. at \in DevicePlaces
  BY <1>1 DEF DevicePlaces
<1>6. DevicesInv'
  BY <1>1, <1>3, <1>4, <1>5, StillReset
<1> QED
  BY <1>1, <1>2, <1>3, <1>6 DEF SetupInv, DevicesInv

\* The filters are opened, and main goes on to the next device or the agents.
LEMMA SetPromiscuousKeeps ==
  ASSUME SetupInv, LoopsOK, LoopsOK', SetPromiscuous
  PROVE  DevicesInv' /\ \A d \in Devices : dev'[d].refused = dev[d].refused
<1> DEFINE g == WriteAll(dev[n], PromiscuousWrites(FALSE))
<1>1. /\ at = "promiscuous" /\ at' \in {"pci", "agent", "halt"}
      /\ n' = (n + 1) % DevicesCount
      /\ at' = "pci" => n' # 0
      /\ at' = "agent" => n' = 0
  BY DEF SetPromiscuous, Allocated
<1>2. n \in Devices /\ IsDevice(dev[n]) /\ IsOff(dev[n], n)
  BY <1>1, ResetIsOff
<1>3. dev' = [dev EXCEPT ![n] = g]
  <2>1. dev[n].regs["RXCTRL.RXEN"][0] = 0
    BY <1>2 DEF IsOff
  <2>2. (Field(n, "RXCTRL.RXEN", 0) = 1) = FALSE
    BY <2>1 DEF Field
  <2>3. dev' = [dev EXCEPT ![n] =
                 WriteAll(dev[n], PromiscuousWrites(Field(n, "RXCTRL.RXEN", 0) = 1))]
    BY DEF SetPromiscuous
  <2>4. PromiscuousWrites(Field(n, "RXCTRL.RXEN", 0) = 1) = PromiscuousWrites(FALSE)
    BY <2>2 DEF PromiscuousWrites
  <2> QED
    BY <2>3, <2>4
<1>4. /\ IsDevice(g) /\ g.refused = dev[n].refused /\ FiltersAreOpen(g) /\ IsOff(g, n)
  <2>1. dev[n].regs["RXCTRL.RXEN"][0] = 0
    BY <1>2 DEF IsOff
  <2>2. /\ IsDevice(g) /\ g.refused = dev[n].refused /\ g.regs["RXCTRL.RXEN"][0] = 0
        /\ FiltersAreOpen(g)
        /\ ReceivesSafely(dev[n]) => ReceivesSafely(g)
        /\ ReceiveIsOff(dev[n]) => ReceiveIsOff(g)
        /\ \A q \in Nat : TransmitIsOff(dev[n], q) => TransmitIsOff(g, q)
    BY <1>2, <2>1, FilterWrites
  <2> QED
    BY <1>2, <2>2, QueuesDiffer DEF IsOff
<1> HIDE DEF g
<1>5. DevicesInv /\ DevicesCount \in Nat /\ Devices = 0 .. DevicesCount - 1 /\ n' \in Devices
  BY DevicesAssumption DEF SetupInv, Devices, LoopsOK
<1>6. at' # "agent" \/ n + 1 = DevicesCount
  BY <1>1, <1>2, <1>5, NextDevice
<1>7. at' # "pci" \/ n' = n + 1
  BY <1>1, <1>2, <1>5, NextDevice
<1>8. PICK k \in Devices : k = n
  BY <1>2
<1>9. g = dev'[k] => StageOK(k)'
  <2>1. ~ Undergoes(k)' /\ ~ HasQueue(k)'
    BY <1>1, <1>5, <1>8 DEF Undergoes, HasQueue, HasInput, AgentPlaces, InputPlaces, OutputPlaces,
                      Resetting
  <2>2. ~ NotYet(k)'
    BY <1>1, <1>2, <1>5, <1>7, <1>8 DEF NotYet, BeforeDevices, DevicePlaces
  <2> QED
    BY <1>4, <1>8, <2>1, <2>2 DEF StageOK, IsOff
<1>10. ASSUME NEW d \in Devices \ {k}
      PROVE  Stays(d)
  <2>1. ~ Undergoes(d) /\ ~ Undergoes(d)' /\ ~ HasQueue(d)' /\ ~ HasQueue(d) /\ ~ MayReceive(d)
    BY <1>1, <1>5 DEF Undergoes, HasQueue, MayReceive, HasInput, AgentPlaces, InputPlaces,
                      OutputPlaces, Resetting
  <2>2. NotYet(d)' => NotYet(d)
    BY <1>1, <1>2, <1>5, <1>7, <1>8 DEF NotYet, BeforeDevices, DevicePlaces
  <2>3. WasReset(d)' => WasReset(d)
    BY <1>1, <1>2, <1>5, <1>6, <1>7, <1>8 DEF WasReset, DevicePlaces, AgentPlaces, InputPlaces,
                                        OutputPlaces
  <2>4. IsConfigured(d)' => IsConfigured(d)
    BY <1>1, <1>2, <1>5, <1>6, <1>7, <1>8 DEF IsConfigured, DevicePlaces, AgentPlaces, InputPlaces,
                                        OutputPlaces
  <2>5. \A a \in Devices : ~ HasOutput(a, d)
    BY <1>1 DEF HasOutput, IsOutput, AgentPlaces, InputPlaces, OutputPlaces
  <2> QED
    BY <1>1, <2>1, <2>2, <2>3, <2>4, <2>5 DEF Stays
<1>11. PlaceOK'
  BY <1>1 DEF PlaceOK
<1>12. DevicesInv'
  BY <1>2, <1>3, <1>4, <1>5, <1>8, <1>9, <1>10, <1>11, OneTouched
<1> QED
  BY <1>2, <1>3, <1>4, <1>5, <1>12 DEF DevicesInv

\* An agent is allocated, goes past its input, or knows that its output is enabled.
LEMMA AgentReadsKeep ==
  ASSUME SetupInv, LoopsOK, Agent \/ SkipInput \/ OutputEnabled
  PROVE  DevicesInv'
<1>1. /\ dev' = dev /\ n' = n /\ at' \notin InputPlaces \ {"input"}
      /\ \/ at' = "fatal"
         \/ at = "agent" /\ at' = "halt"
         \/ at = "agent" /\ at' = "output" /\ m' = 0
         \/ /\ \/ at = "output" /\ m = n
               \/ at = "await_output"
            /\ m' = m + 1 /\ at' = IF m' = DevicesCount THEN "input" ELSE "output"
  <2>1. CASE Agent
    BY <2>1 DEF Agent, Fatal, Allocated, InputPlaces
  <2>2. CASE SkipInput \/ OutputEnabled
    BY <2>2 DEF SkipInput, OutputEnabled, Goto, InputPlaces
  <2> QED
    BY <2>1, <2>2
<1>2. CASE at' \in {"fatal", "halt"}
  <2>1. at' = "fatal" \/ (at' = "halt" /\ at \notin Resetting \cup {"exit", "fatal"})
    BY <1>1, <1>2 DEF Resetting
  <2> QED
    BY <1>1, <2>1, StopsQuietly
<1>3. CASE at' \notin {"fatal", "halt"}
  <2>1. at \in AgentPlaces /\ at' \in AgentPlaces
    BY <1>1, <1>3 DEF AgentPlaces, OutputPlaces, InputPlaces
  <2>2. /\ n \in Devices /\ m \in Int /\ Devices = 0 .. DevicesCount - 1 /\ DevicesCount \in Nat
        /\ at = "await_output" => m # n
        /\ at \in OutputPlaces => m < DevicesCount
    BY DevicesAssumption DEF LoopsOK, Devices
  <2>3. ASSUME NEW d \in Devices
        PROVE  Stays(d)
    <3>1. (HasQueue(d)' <=> HasQueue(d)) /\ (MayReceive(d)' <=> MayReceive(d))
      BY <1>1, <1>3, <2>1, <2>2 DEF HasQueue, MayReceive, HasInput, AgentPlaces, OutputPlaces,
                                    InputPlaces
    <3>2. ASSUME d # n
          PROVE  HasOutput(n, d)' <=> HasOutput(n, d)
      BY <1>1, <1>3, <2>1, <2>2, <3>2 DEF HasOutput, IsOutput, AgentPlaces, OutputPlaces,
                                          InputPlaces
    <3> QED
      BY <1>1, <2>1, <3>1, <3>2, StaysWhenAgents
  <2>4. PlaceOK'
    BY <1>1, <1>3 DEF PlaceOK
  <2> QED
    BY <1>1, <2>3, <2>4, NoneTouched DEF SetupInv
<1> QED
  BY <1>2, <1>3

\* The driver writes to the device whose input an agent is to have.
LEMMA InputWritten ==
  ASSUME SetupInv, LoopsOK, at \in InputPlaces, at' \in InputPlaces, n' = n, m' = m,
         NEW g, dev' = [dev EXCEPT ![n] = g], IsDevice(g), g = dev'[n] => PlaceOK',
         ReceivesSafely(g), FiltersAreOpen(g),
         MayReceive(n)' \/ g.regs["RXCTRL.RXEN"][0] = 0,
         HasQueue(n)', HasReceiveRing(g),
         \A a \in Devices \ {n} :
           TransmitIsOff(dev[n], QueueIndex(a, n)) => TransmitIsOff(g, QueueIndex(a, n))
  PROVE  DevicesInv'
<1>1. DevicesInv /\ dev'[n] = g /\ n \in Devices /\ StageOK(n)
  BY DEF SetupInv, DevicesInv, LoopsOK
<1>2. at \in AgentPlaces /\ at' \in AgentPlaces
  BY DEF AgentPlaces
<1>3. ASSUME NEW d \in Devices, NEW a \in Devices
      PROVE  HasOutput(a, d)' <=> HasOutput(a, d)
  BY DEF HasOutput, IsOutput, AgentPlaces, OutputPlaces, InputPlaces
<1>4. ASSUME NEW d \in Devices \ {n}
      PROVE  Stays(d)
  <2>1. HasOutput(n, d)' <=> HasOutput(n, d)
    BY DEF HasOutput, IsOutput, AgentPlaces, OutputPlaces, InputPlaces
  <2>2. (HasQueue(d)' <=> HasQueue(d)) /\ (MayReceive(d)' <=> MayReceive(d))
    BY <1>1 DEF HasQueue, MayReceive, HasInput, AgentPlaces, OutputPlaces, InputPlaces
  <2> QED
    BY <1>2, <2>1, <2>2, StaysWhenAgents
<1>5. /\ ~ NotYet(n)' /\ ~ Undergoes(n)' /\ WasReset(n)
  BY <1>2 DEF NotYet, Undergoes, WasReset, BeforeDevices, DevicePlaces, AgentPlaces,
              OutputPlaces, InputPlaces, Resetting
<1>6. \A a \in Devices \ {n} : ~ HasOutput(a, n) => TransmitIsOff(g, QueueIndex(a, n))
  BY <1>1, <1>5 DEF StageOK
<1>7. \A a \in Devices \ {n} : ~ HasOutput(a, n)' => TransmitIsOff(g, QueueIndex(a, n))
  BY <1>1, <1>3, <1>6
<1>8. StageOK(n)'
  <2>1. \A a \in Devices \ {n} : ~ HasOutput(a, n)' => TransmitIsOff(dev'[n], QueueIndex(a, n))
    BY <1>1, <1>7
  <2>2. /\ ReceivesSafely(dev'[n]) /\ FiltersAreOpen(dev'[n]) /\ HasReceiveRing(dev'[n])
        /\ MayReceive(n)' \/ dev'[n].regs["RXCTRL.RXEN"][0] = 0
    BY <1>1
  <2> QED
    BY <1>5, <2>1, <2>2 DEF StageOK
<1> QED
  BY <1>1, <1>4, <1>8, OneTouched

\* What such a device is before.
LEMMA InputIs ==
  ASSUME SetupInv, LoopsOK, at \in InputPlaces
  PROVE  /\ n \in Devices /\ IsDevice(dev[n]) /\ ReceivesSafely(dev[n]) /\ FiltersAreOpen(dev[n])
         /\ HasQueue(n) => HasReceiveRing(dev[n])
         /\ ~ HasQueue(n) => ReceiveIsOff(dev[n])
         /\ at # "finish_input" => dev[n].regs["RXCTRL.RXEN"][0] = 0
         /\ at = "await_empty" => QueueIsReady(dev[n])
<1>1. /\ n \in Devices /\ Devices \subseteq Nat /\ IsDevice(dev[n]) /\ StageOK(n) /\ PlaceOK
  BY DevicesAssumption DEF SetupInv, DevicesInv, LoopsOK, Devices
<1>2. /\ ~ Undergoes(n) /\ WasReset(n) /\ IsConfigured(n) /\ at \notin {"exit", "fatal"}
      /\ at # "finish_input" => ~ MayReceive(n)
  BY <1>1 DEF Undergoes, WasReset, IsConfigured, MayReceive, HasInput, AgentPlaces,
              OutputPlaces, InputPlaces, Resetting
<1> QED
  BY <1>1, <1>2 DEF StageOK, PlaceOK

\* tn_agent_set_input asks for the receive queue.
LEMMA SetInputKeeps ==
  ASSUME SetupInv, LoopsOK, SetInput
  PROVE  DevicesInv' /\ \A d \in Devices : dev'[d].refused = dev[d].refused
<1> DEFINE ring == rings[n][0].addr
           g == WriteAll(dev[n], << Change("RDBA", 0, ring),
                                    Change("RDLEN.LEN", 0, IXGBE_RING_SIZE * 16),
                                    Change("SRRCTL.BSIZEPACKET", 0, PACKET_BUFFER_SIZE \div 1024),
                                    Change("SRRCTL.Drop_En", 0, 1),
                                    Change("RXDCTL.ENABLE", 0, 1) >>)
<1>1. CASE at' = "fatal"
  <2>1. dev' = dev
    BY <1>1 DEF SetInput, Fatal, Do
  <2> QED
    BY <1>1, <2>1, StopsQuietly
<1>2. CASE at' # "fatal"
  <2>1. /\ at = "input" /\ at' = "await_input" /\ n' = n /\ m' = m
        /\ dev' = [dev EXCEPT ![n] = g]
    BY <1>2 DEF SetInput, Fatal, Do
  <2>2. at \in InputPlaces /\ at' \in InputPlaces /\ at # "finish_input"
    BY <2>1 DEF InputPlaces
  <2>3. /\ n \in Devices /\ IsDevice(dev[n]) /\ ReceivesSafely(dev[n]) /\ FiltersAreOpen(dev[n])
        /\ dev[n].regs["RXCTRL.RXEN"][0] = 0
    BY <2>2, InputIs
  <2>4. ring \in Int
    <3>1. DevicesCount >= 2 /\ DevicesCount \in Nat
      BY <2>2, DevicesAssumption DEF LoopsOK
    <3>2. PICK d \in Devices : d # n /\ TrueIndex(n, d) = 0
      <4>1. CASE n = 0
        BY <3>1, <4>1 DEF TrueIndex, Devices
      <4>2. CASE n # 0
        BY <2>3, <3>1, <4>2 DEF TrueIndex, Devices
      <4> QED
        BY <4>1, <4>2
    <3>3. HasOutput(n, d)
      BY <2>2 DEF HasOutput, IsOutput
    <3> QED
      BY <2>3, <3>2, <3>3 DEF SetupInv, RingsOK
  <2> HIDE DEF ring
  <2>5. /\ IsDevice(g) /\ g.refused = dev[n].refused /\ g.regs["RXCTRL.RXEN"][0] = 0
        /\ ReceivesSafely(g) /\ HasReceiveRing(g) /\ FiltersAreOpen(g)
        /\ \A q \in Nat : TransmitIsOff(dev[n], q) => TransmitIsOff(g, q)
    BY <2>3, <2>4, InputWrites
  <2> HIDE DEF g
  <2>6. \A a \in Devices \ {n} :
          TransmitIsOff(dev[n], QueueIndex(a, n)) => TransmitIsOff(g, QueueIndex(a, n))
    BY <2>3, <2>5, QueuesDiffer
  <2>7. HasQueue(n)' /\ PlaceOK'
    BY <2>1 DEF HasQueue, PlaceOK
  <2>8. DevicesInv'
    BY <2>1, <2>2, <2>5, <2>6, <2>7, InputWritten
  <2> QED
    BY <2>1, <2>3, <2>5, <2>8 DEF SetupInv, DevicesInv
<1> QED
  BY <1>1, <1>2

\* The receive queue is enabled, and its tail is written.
LEMMA InputEnabledKeeps ==
  ASSUME SetupInv, LoopsOK, InputEnabled
  PROVE  DevicesInv' /\ \A d \in Devices : dev'[d].refused = dev[d].refused
<1> DEFINE halt == IF rx_enabled[n] THEN <<>> ELSE << Change("SECRXCTRL.RX_DIS", 0, 1) >>
           g == WriteAll(dev[n], << Change("RDT.RDT", 0, IXGBE_RING_SIZE - 1) >> \o halt)
<1>1. /\ at = "await_input" /\ at' \in {"finish_input", "await_empty"} /\ n' = n /\ m' = m
      /\ dev' = [dev EXCEPT ![n] = g] /\ dev[n].regs["RXDCTL.ENABLE"][0] = 1
  BY DEF InputEnabled, Do, Field
<1>2. at \in InputPlaces /\ at' \in InputPlaces /\ at # "finish_input" /\ HasQueue(n) /\ HasQueue(n)'
  BY <1>1 DEF InputPlaces, HasQueue
<1>3. /\ n \in Devices /\ IsDevice(dev[n]) /\ ReceivesSafely(dev[n]) /\ FiltersAreOpen(dev[n])
      /\ HasReceiveRing(dev[n]) /\ dev[n].regs["RXCTRL.RXEN"][0] = 0
  BY <1>2, InputIs
<1>4. halt \in {<<>>, << Change("SECRXCTRL.RX_DIS", 0, 1) >>}
  OBVIOUS
<1> HIDE DEF halt
<1>5. /\ IsDevice(g) /\ g.refused = dev[n].refused /\ g.regs["RXCTRL.RXEN"][0] = 0
      /\ ReceivesSafely(g) /\ QueueIsReady(g) /\ HasReceiveRing(g) /\ FiltersAreOpen(g)
      /\ \A q \in Nat : TransmitIsOff(dev[n], q) => TransmitIsOff(g, q)
  BY <1>1, <1>3, <1>4, TailWrites
<1> HIDE DEF g
<1>6. \A a \in Devices \ {n} :
        TransmitIsOff(dev[n], QueueIndex(a, n)) => TransmitIsOff(g, QueueIndex(a, n))
  BY <1>3, <1>5, QueuesDiffer
<1>7. ASSUME g = dev'[n]
      PROVE  PlaceOK'
  BY <1>1, <1>5, <1>7 DEF PlaceOK
<1>8. DevicesInv'
  BY <1>1, <1>2, <1>5, <1>6, <1>7, InputWritten
<1> QED
  BY <1>1, <1>3, <1>5, <1>8 DEF SetupInv, DevicesInv

\* Nothing is left in the device's data path: it may receive.
LEMMA DataPathEmptyKeeps ==
  ASSUME SetupInv, LoopsOK, DataPathEmpty
  PROVE  DevicesInv' /\ \A d \in Devices : dev'[d].refused = dev[d].refused
<1> DEFINE g == WriteAll(dev[n], << Change("RXCTRL.RXEN", 0, 1), Change("SECRXCTRL.RX_DIS", 0, 0),
                                    Change("CTRL_EXT.NS_DIS", 0, 1) >>)
<1>1. /\ at = "await_empty" /\ at' = "finish_input" /\ n' = n /\ m' = m
      /\ dev' = [dev EXCEPT ![n] = g] /\ dev[n].regs["SECRXSTAT.SECRX_RDY"][0] = 1
  BY DEF DataPathEmpty, Do, Field, IsEmpty
<1>2. /\ at \in InputPlaces /\ at' \in InputPlaces /\ HasQueue(n) /\ HasQueue(n)'
      /\ MayReceive(n)'
  BY <1>1 DEF InputPlaces, HasQueue, MayReceive
<1>3. /\ n \in Devices /\ IsDevice(dev[n]) /\ ReceivesSafely(dev[n]) /\ FiltersAreOpen(dev[n])
      /\ HasReceiveRing(dev[n]) /\ QueueIsReady(dev[n])
  BY <1>1, <1>2, InputIs
<1>4. /\ IsDevice(g) /\ g.refused = dev[n].refused
      /\ ReceivesSafely(g) /\ HasReceiveRing(g) /\ FiltersAreOpen(g)
      /\ \A q \in Nat : TransmitIsOff(dev[n], q) => TransmitIsOff(g, q)
  BY <1>1, <1>3, ReceiveWrites
<1> HIDE DEF g
<1>5. \A a \in Devices \ {n} :
        TransmitIsOff(dev[n], QueueIndex(a, n)) => TransmitIsOff(g, QueueIndex(a, n))
  BY <1>3, <1>4, QueuesDiffer
<1>6. PlaceOK'
  BY <1>1 DEF PlaceOK
<1>7. DevicesInv'
  BY <1>1, <1>2, <1>4, <1>5, <1>6, InputWritten
<1> QED
  BY <1>1, <1>3, <1>4, <1>7 DEF SetupInv, DevicesInv

\* tn_agent_add_output writes to a queue that no other agent has.
LEMMA AddOutputKeeps ==
  ASSUME SetupInv, LoopsOK, HeapInv, AddOutput
  PROVE  DevicesInv' /\ \A d \in Devices : dev'[d].refused = dev[d].refused
<1> DEFINE h    == descriptor_ring_alloc(heap, IXGBE_RING_SIZE)
           ring == os_memory_virt_to_phys(Result(h))
           head == HeadAddr(n, TrueIndex(n, m))
           q    == QueueIndex(n, m)
           te   == IF tx_enabled[m] THEN <<>> ELSE << Change("DMATXCTL.TE", 0, 1) >>
           g    == WriteAll(dev[m], QueueWrites(q, ring, head) \o te
                                    \o << Change("TXDCTL.ENABLE", q, 1) >>)
<1>1. CASE at' # "await_output"
  <2>1. dev' = dev /\ (at' = "fatal" \/ (at' = "halt" /\ at = "output"))
    BY <1>1 DEF AddOutput, Fatal, Allocated, Do
  <2>2. at = "output" => at \notin Resetting \cup {"exit", "fatal"}
    BY DEF Resetting
  <2> QED
    BY <1>1, <2>1, <2>2, StopsQuietly
<1>2. CASE at' = "await_output"
  <2>1. /\ at = "output" /\ m # n /\ ~ h.halted
        /\ at' = "await_output" /\ n' = n /\ m' = m
        /\ dev' = [dev EXCEPT ![m] = WriteAll(dev[m], OutputWrites(n, m, ring))]
    BY <1>2 DEF AddOutput, Fatal, Allocated, Do
  <2>2. OutputWrites(n, m, ring)
          = QueueWrites(q, ring, head) \o te \o << Change("TXDCTL.ENABLE", q, 1) >>
    BY DEF OutputWrites, QueueWrites
  <2>3. dev' = [dev EXCEPT ![m] = g]
    BY <2>1, <2>2
  <2>4. PICK k \in Devices : k = m
    BY <2>1, DevicesAssumption DEF LoopsOK, OutputPlaces, Devices
  <2>5. /\ DevicesInv /\ n \in Devices /\ Devices \subseteq Nat /\ k # n
        /\ IsDevice(dev[k]) /\ StageOK(k)
    BY <2>1, <2>4, DevicesAssumption DEF SetupInv, DevicesInv, LoopsOK, Devices
  <2>6. /\ q \in Nat
        /\ \A b \in Devices \ {k} : QueueIndex(b, k) = q => b = n
    BY <2>4, <2>5, QueuesDiffer
  <2>7. ring \in Int
    BY <2>1, RingAddress DEF HeapInv
  <2>8. head \in Int
    <3>1. /\ transmit_heads[n] \in Nat /\ transmit_heads[n] % 128 = 0
      BY <2>1 DEF SetupInv, HeadsOK, OutputPlaces
    <3>2. TrueIndex(n, k) \in Nat
      BY <2>5, TrueIndexFacts DEF Outputs
    <3> QED
      BY <2>4, <3>1, <3>2, HeadAddresses DEF HeadAddr
  <2>9. te \in {<<>>, << Change("DMATXCTL.TE", 0, 1) >>}
    OBVIOUS
  <2>10. te # <<>> \/ te = <<>>
    OBVIOUS
  <2> HIDE DEF te, q, ring, head
  <2>11. /\ ChangedIn(dev[k], g, OutputFields)
         /\ \A p \in Nat \ {q} : TransmitIsOff(dev[k], p) /\ (te = <<>> \/ p # 0) =>
                                   TransmitIsOff(g, p)
    BY <2>4, <2>5, <2>6, <2>7, <2>8, <2>9, OutputWritten
  <2>12. g = dev'[k] /\ dev' = [dev EXCEPT ![k] = g]
    BY <2>3, <2>4, <2>5 DEF DevicesInv
  <2> HIDE DEF g
  <2>13. /\ IsDevice(g) /\ g.refused = dev[k].refused
         /\ g.regs["RXCTRL.RXEN"][0] = dev[k].regs["RXCTRL.RXEN"][0]
         /\ ReceivesSafely(dev[k]) => ReceivesSafely(g)
         /\ FiltersAreOpen(dev[k]) => FiltersAreOpen(g)
         /\ HasReceiveRing(dev[k]) => HasReceiveRing(g)
         /\ ReceiveIsOff(dev[k]) => ReceiveIsOff(g)
    <3>1. OutputFields \cap ReceiveFields = {}
      BY DEF OutputFields, QueueFields, ReceiveFields
    <3>2. IsDevice(g) /\ g.refused = dev[k].refused
      BY <2>11 DEF ChangedIn
    <3> QED
      BY <2>11, <3>1, <3>2, ReceiveKept
  <2>14. /\ ~ NotYet(k)' /\ ~ Undergoes(k)' /\ ~ Undergoes(k) /\ WasReset(k) /\ IsConfigured(k)
         /\ at \notin {"exit", "fatal"} /\ WasReset(k)'
         /\ MayReceive(k)' <=> MayReceive(k)
         /\ HasQueue(k)' <=> HasQueue(k)
    BY <2>1, <2>5 DEF NotYet, Undergoes, WasReset, IsConfigured, MayReceive, HasQueue, HasInput,
                      BeforeDevices, DevicePlaces, AgentPlaces, OutputPlaces, InputPlaces,
                      Resetting
  <2>15. ASSUME NEW a \in Devices \ {k}, ~ HasOutput(a, k)'
         PROVE  TransmitIsOff(g, QueueIndex(a, k))
    <3>1. a # n
      BY <2>1, <2>4, <2>15 DEF HasOutput
    <3>2. ~ HasOutput(a, k) /\ ~ (a < n)
      BY <2>1, <2>15, <3>1 DEF HasOutput, IsOutput, AgentPlaces, OutputPlaces, InputPlaces
    <3>3. TransmitIsOff(dev[k], QueueIndex(a, k))
      BY <2>5, <2>14, <3>2 DEF StageOK
    <3>4. /\ QueueIndex(a, k) \in Nat /\ QueueIndex(a, k) # q
          /\ QueueIndex(a, k) = 0 => a = 0
      BY <2>5, <2>6, <3>1, QueuesDiffer
    <3>5. a # 0
      BY <2>5, <3>1, <3>2
    <3> QED
      BY <2>11, <3>3, <3>4, <3>5
  <2>16. StageOK(k)'
    <3>1. /\ ReceivesSafely(dev'[k]) /\ FiltersAreOpen(dev'[k])
          /\ ~ MayReceive(k) => dev'[k].regs["RXCTRL.RXEN"][0] = 0
          /\ ~ HasQueue(k) => ReceiveIsOff(dev'[k])
          /\ HasQueue(k) => HasReceiveRing(dev'[k])
      BY <2>5, <2>12, <2>13, <2>14 DEF StageOK
    <3>2. \A a \in Devices \ {k} : ~ HasOutput(a, k)' => TransmitIsOff(dev'[k], QueueIndex(a, k))
      BY <2>12, <2>15
    <3> QED
      BY <2>14, <3>1, <3>2 DEF StageOK
  <2>17. ASSUME NEW d \in Devices \ {k}
         PROVE  Stays(d)
    <3>1. at \in AgentPlaces /\ at' \in AgentPlaces
      BY <2>1 DEF AgentPlaces, OutputPlaces, InputPlaces
    <3>2. (HasQueue(d)' <=> HasQueue(d)) /\ (MayReceive(d)' <=> MayReceive(d))
      BY <2>1 DEF HasQueue, MayReceive, HasInput, AgentPlaces, OutputPlaces, InputPlaces
    <3>3. HasOutput(n, d)' <=> HasOutput(n, d)
      BY <2>1, <2>4 DEF HasOutput, IsOutput, AgentPlaces, OutputPlaces, InputPlaces
    <3> QED
      BY <2>1, <3>1, <3>2, <3>3, StaysWhenAgents
  <2>18. PlaceOK'
    BY <2>1 DEF PlaceOK
  <2>19. DevicesInv'
    BY <2>5, <2>12, <2>13, <2>16, <2>17, <2>18, OneTouched
  <2> QED
    BY <2>5, <2>12, <2>13, <2>19 DEF DevicesInv
<1> QED
  BY <1>1, <1>2

\* The input of an agent is done, and main goes on to the next agent.
LEMMA FinishInputKeeps ==
  ASSUME SetupInv, LoopsOK, FinishInput
  PROVE  DevicesInv' /\ \A d \in Devices : dev'[d].refused = dev[d].refused
<1> DEFINE g == WriteAll(dev[n], << Change("DCA_RXCTRL.Special_Reserved", 0, 0) >>)
<1>1. /\ at = "finish_input" /\ n' = (n + 1) % DevicesCount
      /\ at' = (IF n' = 0 THEN "run" ELSE "agent")
      /\ dev' = [dev EXCEPT ![n] = g]
  BY DEF FinishInput, Do
<1>2. at \in InputPlaces /\ HasQueue(n) /\ MayReceive(n)
  BY <1>1 DEF InputPlaces, HasQueue, MayReceive
<1>3. /\ n \in Devices /\ IsDevice(dev[n]) /\ ReceivesSafely(dev[n]) /\ FiltersAreOpen(dev[n])
      /\ HasReceiveRing(dev[n]) /\ StageOK(n) /\ DevicesInv
  BY <1>2, InputIs DEF SetupInv, DevicesInv
<1>4. PICK k \in Devices : k = n
  BY <1>3
<1>5. ChangedIn(dev[k], g, {"DCA_RXCTRL.Special_Reserved"})
  BY <1>3, <1>4, FinishWrites
<1>6. g = dev'[k] /\ dev' = [dev EXCEPT ![k] = g]
  BY <1>1, <1>4, <1>3 DEF DevicesInv
<1> HIDE DEF g
<1>7. /\ IsDevice(g) /\ g.refused = dev[k].refused
      /\ ReceivesSafely(g) /\ FiltersAreOpen(g) /\ HasReceiveRing(g)
  <2>1. {"DCA_RXCTRL.Special_Reserved"} \cap ReceiveFields = {}
    BY DEF ReceiveFields
  <2>2. IsDevice(g) /\ g.refused = dev[k].refused
    BY <1>5 DEF ChangedIn
  <2> QED
    BY <1>3, <1>4, <1>5, <2>1, <2>2, ReceiveKept
<1>8. \A q \in Nat : TransmitIsOff(dev[k], q) => TransmitIsOff(g, q)
  BY <1>5, TransmitKept
<1>9. /\ DevicesCount \in Nat /\ Devices = 0 .. DevicesCount - 1
      /\ n + 1 = DevicesCount => at' = "run"
      /\ n + 1 # DevicesCount => at' = "agent" /\ n' = n + 1
  <2>1. DevicesCount \in Nat /\ Devices = 0 .. DevicesCount - 1
    BY DevicesAssumption DEF Devices
  <2> QED
    BY <1>1, <1>3, <2>1, NextDevice
<1>10. ASSUME NEW d \in Devices
       PROVE  /\ WasReset(d) /\ IsConfigured(d) /\ WasReset(d)'
              /\ ~ NotYet(d)' /\ ~ Undergoes(d) /\ ~ Undergoes(d)'
              /\ \A a \in Devices : HasOutput(a, d)' <=> HasOutput(a, d)
              /\ HasQueue(d)' <=> HasQueue(d)
              /\ MayReceive(d)' <=> MayReceive(d)
  <2>1. /\ WasReset(d) /\ IsConfigured(d) /\ WasReset(d)'
        /\ ~ NotYet(d)' /\ ~ Undergoes(d) /\ ~ Undergoes(d)'
    BY <1>1 DEF NotYet, Undergoes, WasReset, IsConfigured, BeforeDevices, DevicePlaces,
                AgentPlaces, OutputPlaces, InputPlaces, Resetting
  <2>2. ASSUME NEW a \in Devices
        PROVE  HasOutput(a, d)' <=> HasOutput(a, d)
    BY <1>1, <1>3, <1>9 DEF HasOutput, IsOutput, AgentPlaces, OutputPlaces, InputPlaces
  <2>3. (HasQueue(d)' <=> HasQueue(d)) /\ (MayReceive(d)' <=> MayReceive(d))
    BY <1>1, <1>3, <1>9 DEF HasQueue, MayReceive, HasInput, AgentPlaces, OutputPlaces,
                            InputPlaces
  <2> QED
    BY <2>1, <2>2, <2>3
<1>11. \A d \in Devices \ {k} : Stays(d)
  BY <1>1, <1>10 DEF Stays
<1>12. StageOK(k)'
  <2>1. MayReceive(k)' /\ HasQueue(k)'
    BY <1>2, <1>4, <1>10
  <2>2. \A a \in Devices \ {k} : ~ HasOutput(a, k) => TransmitIsOff(dev[k], QueueIndex(a, k))
    BY <1>3, <1>4, <1>10 DEF StageOK
  <2>3. \A a \in Devices \ {k} : ~ HasOutput(a, k)' => TransmitIsOff(dev'[k], QueueIndex(a, k))
    BY <1>6, <1>8, <1>10, <2>2, QueuesDiffer
  <2>4. ReceivesSafely(dev'[k]) /\ FiltersAreOpen(dev'[k]) /\ HasReceiveRing(dev'[k])
    BY <1>6, <1>7
  <2> QED
    BY <1>10, <2>1, <2>3, <2>4 DEF StageOK
<1>13. PlaceOK'
  BY <1>1 DEF PlaceOK
<1>14. DevicesInv'
  BY <1>3, <1>6, <1>7, <1>11, <1>12, <1>13, OneTouched
<1> QED
  BY <1>3, <1>6, <1>7, <1>14 DEF DevicesInv

\* The hardware completes what it was asked for.
LEMMA CompletionNext ==
  ASSUME SetupInv, LoopsOK, NEW k \in Devices, HardwareCompletes(k)
  PROVE  DevicesInv' /\ \A d \in Devices : dev'[d].refused = dev[d].refused
<1>1. DevicesInv /\ UNCHANGED <<at, n, m>> /\ DevicesCount \in Nat
  BY DevicesAssumption DEF HardwareCompletes, SetupInv
<1>2. IsDevice(dev[k]) /\ StageOK(k) /\ PlaceOK
  BY <1>1 DEF DevicesInv
<1>3. PICK w \in dev[k].due : dev' = [dev EXCEPT ![k] = Completed(dev[k], w)]
  BY DEF HardwareCompletes
<1> DEFINE g == Completed(dev[k], w)
<1>4. /\ IsDevice(g) /\ g.refused = dev[k].refused
      /\ IsResetting(dev[k]) =>
           /\ IsResetting(g)
           /\ dev[k].regs["RXDCTL.ENABLE"][0] = 0 => g.regs["RXDCTL.ENABLE"][0] = 0
           /\ dev[k].regs["DEVICE_STATUS.Transaction_Pending"][0] = 0 =>
                g.regs["DEVICE_STATUS.Transaction_Pending"][0] = 0
      /\ ReceivesSafely(dev[k]) =>
           /\ ReceivesSafely(g)
           /\ g.regs["RXCTRL.RXEN"][0] = dev[k].regs["RXCTRL.RXEN"][0]
           /\ FiltersAreOpen(dev[k]) => FiltersAreOpen(g)
           /\ HasReceiveRing(dev[k]) => HasReceiveRing(g)
           /\ QueueIsReady(dev[k]) => QueueIsReady(g)
      /\ ReceiveIsOff(dev[k]) => ReceiveIsOff(g)
      /\ \A q \in Nat : TransmitIsOff(dev[k], q) => TransmitIsOff(g, q)
  BY <1>2, CompletionKeeps
<1>5. g = dev'[k] /\ dev' = [dev EXCEPT ![k] = g]
  BY <1>1, <1>3 DEF DevicesInv
<1> HIDE DEF g
<1>6. ~ NotYet(k)
  <2>1. NotYet(k) => dev[k].due = {}
    BY <1>2 DEF StageOK, IsFresh
  <2> QED
    BY <2>1
<1>7. WasReset(k) => at \notin {"exit", "fatal"} /\ ~ Undergoes(k)
  <2>1. n \in Nat
    BY DevicesAssumption DEF LoopsOK, Devices
  <2> QED
    BY <2>1 DEF WasReset, Undergoes, DevicePlaces, AgentPlaces, OutputPlaces, InputPlaces,
                Resetting
<1>8. IsConfigured(k) => WasReset(k)
  BY DEF WasReset, IsConfigured
<1>9. WasReset(k) => ReceivesSafely(dev[k])
  BY <1>2, <1>7 DEF StageOK
<1>10. StageOK(k)'
  <2>1. /\ NotYet(k)' <=> NotYet(k)
        /\ Undergoes(k)' <=> Undergoes(k)
        /\ WasReset(k)' <=> WasReset(k)
        /\ MayReceive(k)' <=> MayReceive(k)
        /\ HasQueue(k)' <=> HasQueue(k)
        /\ IsConfigured(k)' <=> IsConfigured(k)
        /\ \A a \in Devices : HasOutput(a, k)' <=> HasOutput(a, k)
    BY <1>1 DEF NotYet, Undergoes, WasReset, MayReceive, HasQueue, IsConfigured, HasOutput,
                IsOutput, HasInput
  <2>2. Undergoes(k) => IsResetting(dev'[k])
    BY <1>2, <1>4, <1>5 DEF StageOK
  <2>3. at' \notin {"exit", "fatal"} /\ ~ Undergoes(k) => ReceivesSafely(dev'[k])
    BY <1>1, <1>2, <1>4, <1>5 DEF StageOK
  <2>4. /\ WasReset(k) /\ ~ MayReceive(k) => dev'[k].regs["RXCTRL.RXEN"][0] = 0
        /\ WasReset(k) /\ ~ HasQueue(k) => ReceiveIsOff(dev'[k])
        /\ IsConfigured(k) => FiltersAreOpen(dev'[k])
        /\ WasReset(k) /\ HasQueue(k) => HasReceiveRing(dev'[k])
    BY <1>2, <1>4, <1>5, <1>8, <1>9 DEF StageOK
  <2>5. \A a \in Devices \ {k} : WasReset(k) /\ ~ HasOutput(a, k) =>
                                   TransmitIsOff(dev'[k], QueueIndex(a, k))
    BY <1>2, <1>4, <1>5, QueuesDiffer DEF StageOK
  <2> QED
    BY <1>6, <2>1, <2>2, <2>3, <2>4, <2>5 DEF StageOK
<1>11. PlaceOK'
  <2>1. CASE k # n
    <3>1. dev'[n] = dev[n] /\ n \in Devices
      BY <1>1, <1>5, <2>1 DEF DevicesInv, LoopsOK
    <3> QED
      BY <1>1, <1>2, <3>1 DEF PlaceOK
  <2>2. CASE k = n
    <3>1. dev'[n] = g
      BY <1>5, <2>2
    <3>2. at \in Resetting => IsResetting(dev[n])
      BY <1>2, <2>2 DEF StageOK, Undergoes
    <3>3. at = "await_empty" => ReceivesSafely(dev[n])
      BY <1>2, <2>2 DEF StageOK, Undergoes, Resetting
    <3>4. at \in {"master_disable", "disable_receive", "await_receive_disabled", "flush"} =>
            at \in Resetting
      BY DEF Resetting
    <3> QED
      BY <1>1, <1>2, <1>4, <2>2, <3>1, <3>2, <3>3, <3>4 DEF PlaceOK
  <2> QED
    BY <2>1, <2>2
<1>12. \A d \in Devices \ {k} : Stays(d)
  BY <1>1, StaysWhen
<1>13. DevicesInv'
  BY <1>1, <1>4, <1>5, <1>10, <1>11, <1>12, OneTouched
<1> QED
  BY <1>1, <1>4, <1>5, <1>13 DEF DevicesInv

\* Every step keeps the devices, and the actions of the data sheet allow its
\* writes, with one exception.
DevicesStep ==
  /\ DevicesInv'
  /\ \A d \in Devices :
       \/ dev'[d].refused = dev[d].refused
       \/ /\ Flush /\ d = n
          /\ Field(d, "STATUS.PCIe_Master_Enable_Status", 0) = 0
          /\ dev'[d].refused = dev[d].refused \cup {"HLREG0.LPBK"}

\* All steps together.
LEMMA DevicesNext ==
  ASSUME SetupInv, LoopsOK, LoopsOK', HeapInv, [Next]_vars
  PROVE  DevicesStep
<1>0. DevicesCount \in Nat /\ Devices = 0 .. DevicesCount - 1
  BY DevicesAssumption DEF Devices
<1>1. ASSUME dev' = dev, DevicesInv'
      PROVE  DevicesStep
  BY <1>1 DEF DevicesStep
<1>2. ASSUME DevicesInv', \A d \in Devices : dev'[d].refused = dev[d].refused
      PROVE  DevicesStep
  BY <1>2 DEF DevicesStep
<1>3. CASE UNCHANGED setupVars
  BY <1>1, <1>3, NothingHappens DEF setupVars
<1>4. CASE OsFails \/ WrongDevice \/ WrongEeprom \/ GivesUp
  <2>1. at' = "fatal" /\ dev' = dev
    BY <1>4 DEF OsFails, WrongDevice, WrongEeprom, GivesUp, TimesOut, Fatal
  <2> QED
    BY <1>1, <2>1, StopsQuietly
<1>5. CASE OsInit \/ NfInit \/ AllocateDevices
  <2>1. /\ dev' = dev /\ n' = n /\ at \in BeforeDevices
        /\ at' \in BeforeDevices \cup {"pci", "halt", "exit"}
    BY <1>5 DEF OsInit, NfInit, AllocateDevices, Allocated, BeforeDevices
  <2>2. n' = 0 /\ at \notin Resetting \cup {"exit", "fatal"}
    BY <2>1 DEF LoopsOK, BeforeDevices, Resetting
  <2>3. CASE at' \in {"halt", "exit"}
    BY <1>1, <2>1, <2>2, <2>3, StopsQuietly
  <2>4. CASE at' \in BeforeDevices \cup {"pci"}
    BY <1>1, <2>1, <2>2, <2>4, StartsQuietly
  <2> QED
    BY <2>1, <2>3, <2>4
<1>6. ASSUME NEW p, NEW asked, NEW fl, Handled(p, asked, fl)
      PROVE  DevicesStep
  BY <1>3, <1>6 DEF Handled
<1>8. CASE Undefined
  <2>1. at' = "undefined" /\ dev' = dev /\ at \notin Resetting \cup {"exit", "fatal"}
    BY <1>8 DEF Undefined, Resetting
  <2> QED
    BY <1>1, <2>1, StopsQuietly
<1>7. CASE SetupNext
  <2>1. CASE PciSetup
    BY <1>2, <2>1, PciSetupKeeps
  <2>2. CASE DisableReceive
    BY <1>2, <2>2, DisableReceiveKeeps
  <2>3. CASE ReceiveDisabled
    <3>1. dev' = dev
      BY <2>3 DEF ReceiveDisabled, Goto
    <3> QED
      BY <1>1, <2>3, <3>1, ReceiveDisabledKeeps
  <2>4. CASE MasterDisable
    BY <1>2, <2>4, MasterDisableKeeps
  <2>5. CASE MasterDisabled \/ MasterTimesOut \/ NothingPending
    <3>1. dev' = dev
      BY <2>5 DEF MasterDisabled, MasterTimesOut, NothingPending, Goto
    <3> QED
      BY <1>1, <2>5, <3>1, MasterReadsKeep
  <2>6. CASE Flush
    <3>1. /\ DevicesInv'
          /\ \A d \in Devices :
               \/ dev'[d].refused = dev[d].refused
               \/ /\ d = n /\ Field(d, "STATUS.PCIe_Master_Enable_Status", 0) = 0
                  /\ dev'[d].refused = dev[d].refused \cup {"HLREG0.LPBK"}
      BY <2>6, FlushKeeps
    <3> QED
      BY <2>6, <3>1 DEF DevicesStep
  <2>7. CASE Reset
    BY <1>2, <2>7, ResetKeeps
  <2>8. CASE EepromRead
    <3>1. dev' = dev /\ n' = n /\ at = "await_eeprom" /\ at' = "await_dma"
      BY <2>8 DEF EepromRead, Goto
    <3>2. PlaceOK'
      BY <3>1 DEF PlaceOK
    <3> QED
      BY <1>1, <3>1, <3>2, ResettingReads
  <2>9. CASE Configure
    BY <1>2, <2>9, ConfigureKeeps
  <2>10. CASE SetPromiscuous
    BY <1>2, <2>10, SetPromiscuousKeeps
  <2>11. CASE Agent \/ SkipInput \/ OutputEnabled
    <3>1. dev' = dev
      BY <2>11 DEF Agent, SkipInput, OutputEnabled, Goto, Fatal
    <3> QED
      BY <1>1, <2>11, <3>1, AgentReadsKeep
  <2>12. CASE AddOutput
    BY <1>2, <2>12, AddOutputKeeps
  <2>13. CASE SetInput
    BY <1>2, <2>13, SetInputKeeps
  <2>14. CASE InputEnabled
    BY <1>2, <2>14, InputEnabledKeeps
  <2>15. CASE DataPathEmpty
    BY <1>2, <2>15, DataPathEmptyKeeps
  <2>16. CASE FinishInput
    BY <1>2, <2>16, FinishInputKeeps
  <2>17. ASSUME NEW d \in Devices, HardwareCompletes(d)
         PROVE  DevicesStep
    BY <1>2, <2>17, CompletionNext
  <2> QED
    BY <1>4, <1>7, <2>1, <2>2, <2>3, <2>4, <2>5, <2>6, <2>7, <2>8, <2>9, <2>10, <2>11, <2>12,
       <2>13, <2>14, <2>15, <2>16, <2>17 DEF SetupNext
<1> QED
  BY <1>3, <1>4, <1>5, <1>6, <1>7, <1>8, NextSteps DEF vars

\* And the rings and the heads that agents have.
LEMMA RingsNext ==
  ASSUME SetupInv, LoopsOK, LoopsOK', HeapInv, [Next]_vars
  PROVE  RingsOK' /\ HeadsOK' /\ ExitOK'
<1>0. /\ DevicesCount \in Nat /\ Devices = 0 .. DevicesCount - 1 /\ n \in Devices /\ m \in Int
      /\ RingsOK /\ HeadsOK /\ ExitOK
  BY DevicesAssumption DEF Devices, LoopsOK, SetupInv
\* Steps that keep the rings, and after which there are no more outputs.
<1>1. ASSUME rings' = rings,
             \A a, d \in Devices : a # d /\ HasOutput(a, d)' => HasOutput(a, d)
      PROVE  RingsOK'
  BY <1>0, <1>1 DEF RingsOK
\* Steps that keep the heads of the agent that is set up.
<1>2. ASSUME transmit_heads' = transmit_heads,
             at' \in OutputPlaces \cup InputPlaces =>
               n' = n /\ at \in OutputPlaces \cup InputPlaces
      PROVE  HeadsOK'
  BY <1>0, <1>2 DEF HeadsOK
<1>3. ASSUME UNCHANGED <<rings, transmit_heads>>, at' \notin AgentPlaces \cup {"run", "exit"}
      PROVE  RingsOK' /\ HeadsOK' /\ ExitOK'
  <2>1. \A a, d \in Devices : ~ HasOutput(a, d)'
    BY <1>3 DEF HasOutput, IsOutput, AgentPlaces, OutputPlaces, InputPlaces
  <2> QED
    BY <1>1, <1>2, <1>3, <2>1 DEF AgentPlaces, ExitOK
<1>4. CASE UNCHANGED setupVars
  <2>1. UNCHANGED <<at, n, m, rings, transmit_heads>>
    BY <1>4 DEF setupVars, agents
  <2>2. \A a, d \in Devices : HasOutput(a, d)' => HasOutput(a, d)
    BY <2>1 DEF HasOutput, IsOutput
  <2> QED
    BY <1>0, <1>1, <1>2, <2>1, <2>2 DEF ExitOK
<1>5. CASE OsFails \/ WrongDevice \/ WrongEeprom \/ GivesUp
  <2>1. at' = "fatal" /\ UNCHANGED <<rings, transmit_heads>>
    BY <1>5 DEF OsFails, WrongDevice, WrongEeprom, GivesUp, TimesOut, Fatal, agents
  <2> QED
    BY <1>3, <2>1 DEF AgentPlaces, OutputPlaces, InputPlaces
<1>6. CASE OsInit \/ NfInit \/ AllocateDevices
  <2>1. /\ UNCHANGED <<n, rings, transmit_heads>> /\ n = 0
        /\ at' \in {"nf_init", "allocate", "pci", "halt", "exit"}
    BY <1>6 DEF OsInit, NfInit, AllocateDevices, Allocated, agents, LoopsOK, BeforeDevices
  <2>2. \A a, d \in Devices : ~ HasOutput(a, d)'
    BY <2>1 DEF HasOutput, IsOutput, AgentPlaces, OutputPlaces, InputPlaces
  <2> QED
    BY <1>1, <1>2, <2>1, <2>2 DEF OutputPlaces, InputPlaces, ExitOK
<1>7. ASSUME NEW p, NEW asked, NEW fl, Handled(p, asked, fl)
      PROVE  RingsOK' /\ HeadsOK' /\ ExitOK'
  BY <1>4, <1>7 DEF Handled
<1>8. CASE PciSetup \/ DisableReceive \/ ReceiveDisabled \/ MasterDisable \/ MasterDisabled
           \/ MasterTimesOut \/ NothingPending \/ Flush \/ Reset \/ EepromRead \/ Configure
  <2>1. UNCHANGED <<rings, transmit_heads>> /\ at' \in DevicePlaces
    <3>1. CASE PciSetup \/ DisableReceive \/ ReceiveDisabled \/ MasterDisable
      BY <3>1 DEF PciSetup, DisableReceive, ReceiveDisabled, MasterDisable, Do, Goto, agents,
                  DevicePlaces
    <3>2. CASE MasterDisabled \/ MasterTimesOut \/ NothingPending
      BY <3>2 DEF MasterDisabled, MasterTimesOut, NothingPending, Goto, agents, DevicePlaces
    <3>3. CASE Flush \/ Reset \/ EepromRead \/ Configure
      BY <3>3 DEF Flush, Reset, EepromRead, Configure, Do, Goto, agents, DevicePlaces
    <3> QED
      BY <1>8, <3>1, <3>2, <3>3
  <2> QED
    BY <1>3, <2>1 DEF DevicePlaces, AgentPlaces, OutputPlaces, InputPlaces
<1>9. CASE SetPromiscuous
  <2>1. /\ UNCHANGED <<rings, transmit_heads>> /\ at' \in {"pci", "agent", "halt"}
        /\ at' = "agent" => n' = 0
    BY <1>9 DEF SetPromiscuous, Allocated, agents
  <2>2. \A a, d \in Devices : ~ HasOutput(a, d)'
    BY <1>0, <2>1 DEF HasOutput, IsOutput, AgentPlaces, OutputPlaces, InputPlaces
  <2> QED
    BY <1>1, <1>2, <2>1, <2>2 DEF OutputPlaces, InputPlaces, ExitOK
<1>10. CASE Agent
  <2>1. CASE at' # "output"
    <3>1. UNCHANGED <<rings, transmit_heads>> /\ at' \in {"fatal", "halt"}
      BY <1>10, <2>1 DEF Agent, Allocated, Fatal, agents
    <3> QED
      BY <1>3, <3>1 DEF AgentPlaces, OutputPlaces, InputPlaces
  <2>2. CASE at' = "output"
    <3> DEFINE h == AllocAll(heap, AgentRequests(OutputsCount))
               addr == h.blocks[Len(heap.blocks) + 3].addr
    <3>1. /\ rings' = rings /\ n' = n /\ m' = 0 /\ at = "agent" /\ ~ h.halted
          /\ transmit_heads' = [transmit_heads EXCEPT ![n] = addr]
      BY <1>10, <2>2 DEF Agent, Allocated, Fatal
    <3>2. addr \in Nat /\ addr % 128 = 0
      BY <3>1, HeadsAligned DEF HeapInv
    <3> HIDE DEF addr
    <3>3. HeadsOK'
      BY <1>0, <3>1, <3>2 DEF HeadsOK
    <3>4. ASSUME NEW a \in Devices, NEW d \in Devices, a # d, HasOutput(a, d)'
          PROVE  HasOutput(a, d)
      BY <1>0, <2>2, <3>1, <3>4 DEF HasOutput, IsOutput, AgentPlaces, OutputPlaces, InputPlaces
    <3> QED
      BY <1>1, <2>2, <3>1, <3>3, <3>4 DEF ExitOK
  <2> QED
    BY <2>1, <2>2
<1>11. CASE SkipInput \/ OutputEnabled
  <2>1. /\ UNCHANGED <<n, rings, transmit_heads>>
        /\ \/ at = "output" /\ m = n
           \/ at = "await_output"
        /\ m' = m + 1 /\ at' = IF m' = DevicesCount THEN "input" ELSE "output"
    BY <1>11 DEF SkipInput, OutputEnabled, Goto, agents
  <2>2. ASSUME NEW a \in Devices, NEW d \in Devices, a # d, HasOutput(a, d)'
        PROVE  HasOutput(a, d)
    <3>1. at \in OutputPlaces => m < DevicesCount
      BY DEF LoopsOK
    <3> QED
      BY <1>0, <2>1, <2>2, <3>1 DEF HasOutput, IsOutput, AgentPlaces, OutputPlaces, InputPlaces
  <2> QED
    BY <1>1, <1>2, <2>1, <2>2 DEF OutputPlaces, InputPlaces, ExitOK
<1>12. CASE AddOutput
  <2>1. CASE at' # "await_output"
    <3>1. UNCHANGED <<rings, transmit_heads>> /\ at' \in {"fatal", "halt"}
      BY <1>12, <2>1 DEF AddOutput, Allocated, Fatal, Do, agents
    <3> QED
      BY <1>3, <3>1 DEF AgentPlaces, OutputPlaces, InputPlaces
  <2>2. CASE at' = "await_output"
    <3> DEFINE h    == descriptor_ring_alloc(heap, IXGBE_RING_SIZE)
               ring == os_memory_virt_to_phys(Result(h))
               r    == [addr |-> ring, buffer |-> os_memory_virt_to_phys(buffer[n])]
               o    == TrueIndex(n, m)
    <3>1. /\ n' = n /\ m' = m /\ at = "output" /\ m # n /\ ~ h.halted
          /\ transmit_heads' = transmit_heads
          /\ rings' = [rings EXCEPT ![n][o] = r]
      BY <1>12, <2>2 DEF AddOutput, Allocated, Fatal, Do
    <3>2. ring \in Int
      BY <3>1, RingAddress DEF HeapInv
    <3> HIDE DEF ring
    <3>3. r.addr \in Int
      BY <3>2
    <3> HIDE DEF r
    <3>4. m \in Devices
      BY <1>0, <3>1 DEF LoopsOK, OutputPlaces
    <3>5. o \in Outputs
      BY <1>0, <3>1, <3>4, TrueIndexFacts
    <3> HIDE DEF o
    <3>6. /\ DOMAIN rings' = Devices /\ rings'[n][o] = r
          /\ \A a \in Devices : DOMAIN rings'[a] = Outputs
          /\ \A a \in Devices, i \in Outputs : a # n \/ i # o => rings'[a][i] = rings[a][i]
      BY <1>0, <3>1, <3>5 DEF RingsOK
    <3>7. ASSUME NEW a \in Devices, NEW d \in Devices, a # d, HasOutput(a, d)'
          PROVE  rings'[a][TrueIndex(a, d)].addr \in Int
      <4>1. TrueIndex(a, d) \in Outputs
        BY <3>7, TrueIndexFacts
      <4>2. CASE a = n /\ d = m
        BY <3>3, <3>6, <4>2 DEF o
      <4>3. CASE a # n \/ d # m
        <5>1. HasOutput(a, d)
          BY <2>2, <3>1, <3>7, <4>3 DEF HasOutput, IsOutput, AgentPlaces, OutputPlaces,
                                        InputPlaces
        <5>2. rings[a][TrueIndex(a, d)].addr \in Int
          BY <1>0, <3>7, <5>1 DEF RingsOK
        <5>3. a # n \/ TrueIndex(a, d) # o
          BY <3>1, <3>4, <3>7, <4>3, TrueIndexFacts DEF o
        <5> QED
          BY <3>6, <4>1, <5>2, <5>3
      <4> QED
        BY <4>2, <4>3
    <3>8. RingsOK'
      BY <3>6, <3>7 DEF RingsOK
    <3> QED
      BY <1>2, <2>2, <3>1, <3>8 DEF OutputPlaces, ExitOK
  <2> QED
    BY <2>1, <2>2
<1>13. CASE SetInput \/ InputEnabled \/ DataPathEmpty
  <2>1. /\ UNCHANGED <<n, m, rings, transmit_heads>> /\ at \in InputPlaces
        /\ at' \in InputPlaces \cup {"fatal"}
    BY <1>13 DEF SetInput, InputEnabled, DataPathEmpty, Fatal, Do, agents, InputPlaces
  <2>2. \A a, d \in Devices : HasOutput(a, d)' => HasOutput(a, d)
    BY <2>1 DEF HasOutput, IsOutput, AgentPlaces, OutputPlaces, InputPlaces
  <2> QED
    BY <1>1, <1>2, <2>1, <2>2 DEF OutputPlaces, InputPlaces, ExitOK
<1>14. CASE FinishInput
  <2>1. /\ UNCHANGED <<rings, transmit_heads>> /\ at = "finish_input"
        /\ n' = (n + 1) % DevicesCount /\ at' = (IF n' = 0 THEN "run" ELSE "agent")
    BY <1>14 DEF FinishInput, Do, agents
  <2>2. /\ n + 1 = DevicesCount => at' = "run"
        /\ n + 1 # DevicesCount => at' = "agent" /\ n' = n + 1
    BY <1>0, <2>1, NextDevice
  <2>3. ASSUME NEW a \in Devices, NEW d \in Devices
        PROVE  HasOutput(a, d)' => HasOutput(a, d)
    BY <1>0, <2>1, <2>2 DEF HasOutput, IsOutput, AgentPlaces, OutputPlaces, InputPlaces
  <2> QED
    BY <1>1, <1>2, <2>1, <2>3 DEF OutputPlaces, InputPlaces, ExitOK
<1>15. ASSUME NEW d \in Devices, HardwareCompletes(d)
       PROVE  RingsOK' /\ HeadsOK' /\ ExitOK'
  <2>1. UNCHANGED <<at, n, m, rings, transmit_heads>>
    BY <1>15 DEF HardwareCompletes, agents
  <2>2. \A a, b \in Devices : HasOutput(a, b)' => HasOutput(a, b)
    BY <2>1 DEF HasOutput, IsOutput
  <2> QED
    BY <1>0, <1>1, <1>2, <2>1, <2>2 DEF ExitOK
<1>16. CASE SetupNext
  BY <1>5, <1>8, <1>9, <1>10, <1>11, <1>12, <1>13, <1>14, <1>15, <1>16 DEF SetupNext
<1>17. CASE Undefined
  BY <1>3, <1>17 DEF Undefined, agents, AgentPlaces, OutputPlaces, InputPlaces
<1> QED
  BY <1>4, <1>5, <1>6, <1>7, <1>16, <1>17, NextSteps DEF vars

\* Without power, a device is fresh and there is nothing else.
LEMMA SetupInit ==
  ASSUME Init
  PROVE  SetupInv
<1>1. /\ at = "os_init" /\ n = 0 /\ m = 0
      /\ dev = [d \in Devices |-> [regs |-> PowerOn, due |-> {}, refused |-> {}]]
      /\ transmit_heads = [a \in Devices |-> 0]
      /\ rings = [a \in Devices |-> [o \in Outputs |-> 0]]
  BY DEF Init, InitDevices
<1>2. PowerOn["RXCTRL.RXEN"][0] = 0
  BY RegisterShapes, ResetValues
<1>3. ASSUME NEW d \in Devices
      PROVE  IsDevice(dev[d]) /\ StageOK(d)
  <2> DEFINE e == [regs |-> PowerOn, due |-> {}, refused |-> {}]
  <2>1. dev[d] = e /\ e.regs = PowerOn /\ e.due = {} /\ e.refused = {}
    BY <1>1
  <2>2. IsDevice(e)
    BY RegisterShapes
  <2> HIDE DEF e
  <2>3. ReceivesSafely(e)
    BY <1>2, <2>1 DEF ReceivesSafely
  <2>4. ~ Undergoes(d) /\ ~ WasReset(d) /\ ~ IsConfigured(d)
    BY <1>1 DEF Undergoes, WasReset, IsConfigured, DevicePlaces, AgentPlaces, OutputPlaces,
                InputPlaces, Resetting
  <2> QED
    BY <2>1, <2>2, <2>3, <2>4 DEF StageOK, IsFresh
<1>4. PlaceOK
  BY <1>1 DEF PlaceOK
<1>5. DevicesInv
  BY <1>1, <1>3, <1>4 DEF DevicesInv
<1>6. RingsOK
  BY <1>1 DEF RingsOK, HasOutput, IsOutput, AgentPlaces, OutputPlaces, InputPlaces
<1>7. HeadsOK /\ ExitOK
  BY <1>1 DEF HeadsOK, ExitOK, OutputPlaces, InputPlaces
<1> QED
  BY <1>5, <1>6, <1>7 DEF SetupInv

\* Every device is at the stage that its place in main's loops says.
LEMMA SetupInvariant == Spec => []SetupInv
<1>1. Init => SetupInv
  BY SetupInit
<1>2. SetupInv /\ WiringInv /\ WiringInv' /\ HeapInv /\ [Next]_vars => SetupInv'
  BY DevicesNext, RingsNext DEF WiringInv, SetupInv, DevicesStep
<1> QED
  BY <1>1, <1>2, WiringInvariant, HeapInvariant, PTL DEF Spec

\* Whatever the hardware does meanwhile and whatever a previous driver left
\* behind, the driver writes only what an action of the data sheet allows.
THEOREM DriverWritesAreAllowed == Spec => WritesAreAllowed
<1> DEFINE A == \A d \in Devices :
                  \/ dev'[d].refused = dev[d].refused
                  \/ /\ Flush /\ d = n
                     /\ Field(d, "STATUS.PCIe_Master_Enable_Status", 0) = 0
                     /\ dev'[d].refused = dev[d].refused \cup {"HLREG0.LPBK"}
<1>1. SetupInv /\ WiringInv /\ WiringInv' /\ HeapInv /\ [Next]_vars => [A]_setupVars
  BY DevicesNext DEF WiringInv, DevicesStep
<1>2. Spec => [][A]_setupVars
  BY <1>1, WiringInvariant, HeapInvariant, SetupInvariant, PTL DEF Spec
<1> QED
  BY <1>2 DEF WritesAreAllowed

\* A device that receives again is set up for it, whatever is still to be done:
\* reception is the last thing to be enabled.
THEOREM ReceptionEnabledLast == Spec => []ReceiveEnabledLast
<1>1. SetupInv /\ WiringInv => ReceiveEnabledLast
  <2> SUFFICES ASSUME SetupInv, WiringInv, NEW d \in Devices, IsSetUp(d),
                      dev[d].regs["RXCTRL.RXEN"][0] = 1
               PROVE  /\ dev[d].regs["RXDCTL.ENABLE"][0] = 1 /\ dev[d].regs["RDBA"][0] # X
                      /\ dev[d].regs["RDT.RDT"][0] = IXGBE_RING_SIZE - 1
                      /\ dev[d].regs["FCTRL.UPE"][0] = 1 /\ dev[d].regs["FCTRL.MPE"][0] = 1
                      /\ dev[d].regs["SECRXSTAT.SECRX_RDY"][0] = 1
    BY DEF ReceiveEnabledLast, Field
  <2>1. StageOK(d) /\ ExitOK /\ n \in Nat /\ d \in Nat
    BY DevicesAssumption DEF SetupInv, DevicesInv, WiringInv, LoopsOK, Devices
  <2>2. at \notin {"exit", "fatal"} /\ ~ Undergoes(d)
    BY <2>1 DEF IsSetUp, ExitOK, Undergoes, Resetting
  <2>3. ReceivesSafely(dev[d])
    BY <2>1, <2>2 DEF StageOK
  <2> QED
    BY <2>3 DEF ReceivesSafely, FiltersAreOpen, HasReceiveRing, QueueIsReady
<1> QED
  BY <1>1, SetupInvariant, WiringInvariant, PTL

\* A device has a queue for every agent, and there are agents.
EnoughQueues ==
  DevicesCount >= 2 /\ DevicesCount * OutputsCount <= TransmitQueuesCount

\* The checks of tn_agent_add_output succeed.
LEMMA OutputsAreFree ==
  ASSUME EnoughQueues, SetupInv, WiringInv, at = "output", m # n
  PROVE  OutputIsFree(n, m)
<1>1. /\ n \in Devices /\ m \in Devices /\ DevicesInv /\ HeadsOK /\ TailsOK /\ Devices \subseteq Nat
  BY DevicesAssumption DEF SetupInv, WiringInv, LoopsOK, OutputPlaces, Devices
<1>2. /\ ~ IsOutput(n, m) /\ ~ HasOutput(n, m) /\ WasReset(m)
  BY <1>1 DEF IsOutput, HasOutput, WasReset, AgentPlaces, OutputPlaces, InputPlaces
<1>3. transmit_tail_addrs[n][TrueIndex(n, m)] = Null
  BY <1>1, <1>2 DEF TailsOK, Stopped
<1>4. /\ QueueIndex(n, m) \in Nat /\ QueueIndex(n, m) < TransmitQueuesCount
  <2>1. QueueIndex(n, m) \in Nat /\ QueueIndex(n, m) < DevicesCount * OutputsCount
    BY <1>1, QueuesDiffer
  <2>2. DevicesCount * OutputsCount \in Int
    BY DevicesAssumption DEF OutputsCount
  <2> QED
    BY <2>1, <2>2, QueuesAssumption DEF EnoughQueues
<1>5. TransmitIsOff(dev[m], QueueIndex(n, m))
  <2>1. n \in Devices \ {m} /\ StageOK(m)
    BY <1>1 DEF DevicesInv
  <2> QED
    BY <1>2, <2>1 DEF StageOK
<1>6. Field(m, "TXDCTL.ENABLE", QueueIndex(n, m)) = 0
  BY <1>4, <1>5 DEF TransmitIsOff, Field
<1>7. HeadAddr(n, TrueIndex(n, m)) % 16 = 0
  <2>1. transmit_heads[n] \in Nat /\ transmit_heads[n] % 128 = 0
    BY <1>1 DEF HeadsOK, OutputPlaces
  <2>2. TrueIndex(n, m) \in Nat
    BY <1>1, TrueIndexFacts DEF Outputs
  <2> QED
    BY <2>1, <2>2, HeadAddresses DEF HeadAddr
<1> QED
  BY <1>3, <1>4, <1>6, <1>7 DEF OutputIsFree

\* And those of tn_agent_set_input.
LEMMA InputsAreFree ==
  ASSUME SetupInv, WiringInv, at = "input"
  PROVE  InputIsFree(n)
<1>1. /\ n \in Devices /\ DevicesInv /\ TailsOK /\ Devices = 0 .. DevicesCount - 1
      /\ DevicesCount >= 2 /\ DevicesCount \in Nat /\ at \in InputPlaces
  BY DevicesAssumption DEF SetupInv, WiringInv, LoopsOK, InputPlaces, Devices
<1>2. ~ HasInput(n) /\ ~ HasQueue(n) /\ WasReset(n)
  BY <1>1 DEF HasInput, HasQueue, WasReset, AgentPlaces, InputPlaces
<1>3. receive_tail_addr[n] = Null
  BY <1>1, <1>2 DEF TailsOK, Stopped
<1>4. transmit_tail_addrs[n][0] # Null
  <2>1. PICK d \in Devices : d # n /\ TrueIndex(n, d) = 0
    <3>1. CASE n = 0
      BY <1>1, <3>1 DEF TrueIndex
    <3>2. CASE n # 0
      BY <1>1, <3>2 DEF TrueIndex
    <3> QED
      BY <3>1, <3>2
  <2>2. IsOutput(n, d)
    BY <1>1 DEF IsOutput
  <2>3. transmit_tail_addrs[n][TrueIndex(n, d)] = <<d, QueueIndex(n, d)>>
    BY <1>1, <2>1, <2>2 DEF TailsOK, Stopped
  <2> QED
    BY <2>1, <2>3 DEF Null
<1>5. ReceiveIsOff(dev[n])
  BY <1>1, <1>2 DEF DevicesInv, StageOK
<1> QED
  BY <1>3, <1>4, <1>5 DEF InputIsFree, ReceiveIsOff, Field

\* The cause of a call of fatal, if there was one.
CauseOK == cause \in {"none", "hardware"}

\* With a queue for every agent and at least two devices, the driver is never
\* the one to make a mistake: its checks of queues and heads succeed, and it
\* names no register that does not exist.
THEOREM NoSoftwareFailure ==
  ASSUME DevicesCount >= 2, DevicesCount * OutputsCount <= TransmitQueuesCount
  PROVE  Spec => []DriverNeverFailsItself
<1>0. EnoughQueues /\ OutputsCount # 0
  BY DevicesAssumption DEF EnoughQueues, OutputsCount
<1>1. Init => CauseOK
  BY DEF Init, InitDevices, CauseOK
<1>2. CauseOK /\ SetupInv /\ WiringInv /\ [Next]_vars => CauseOK'
  <2> SUFFICES ASSUME CauseOK, SetupInv, WiringInv, [Next]_vars
               PROVE  CauseOK'
    OBVIOUS
  <2>1. CASE cause' = cause
    BY <2>1 DEF CauseOK
  <2>2. CASE UNCHANGED setupVars
    BY <2>1, <2>2 DEF setupVars
  <2>3. CASE OsFails \/ OsInit \/ NfInit \/ AllocateDevices
    BY <2>1, <2>3 DEF OsFails, OsInit, NfInit, AllocateDevices, Fatal, CauseOK
  <2>4. ASSUME NEW p, NEW asked, NEW fl, Handled(p, asked, fl)
        PROVE  CauseOK'
    BY <2>2, <2>4 DEF Handled
  <2>14. CASE Undefined
    BY <2>1, <2>14 DEF Undefined
  <2>5. CASE WrongDevice \/ WrongEeprom \/ GivesUp
    BY <2>5 DEF WrongDevice, WrongEeprom, GivesUp, TimesOut, Fatal, CauseOK
  <2>6. CASE PciSetup \/ DisableReceive \/ ReceiveDisabled \/ MasterDisable \/ MasterDisabled
             \/ MasterTimesOut \/ NothingPending \/ Flush \/ Reset \/ EepromRead \/ Configure
    BY <2>1, <2>6
       DEF PciSetup, DisableReceive, ReceiveDisabled, MasterDisable, MasterDisabled,
           MasterTimesOut, NothingPending, Flush, Reset, EepromRead, Configure
  <2>7. CASE SetPromiscuous \/ SkipInput \/ OutputEnabled \/ InputEnabled \/ DataPathEmpty
             \/ FinishInput
    BY <2>1, <2>7 DEF SetPromiscuous, SkipInput, OutputEnabled, InputEnabled, DataPathEmpty,
                      FinishInput
  <2>8. CASE Agent
    BY <1>0, <2>1, <2>8 DEF Agent
  <2>9. CASE AddOutput
    <3>1. OutputIsFree(n, m)
      BY <1>0, <2>9, OutputsAreFree DEF AddOutput
    <3> QED
      BY <2>1, <2>9, <3>1 DEF AddOutput
  <2>10. CASE SetInput
    <3>1. InputIsFree(n)
      BY <2>10, InputsAreFree DEF SetInput
    <3> QED
      BY <2>1, <2>10, <3>1 DEF SetInput
  <2>11. ASSUME NEW d \in Devices, HardwareCompletes(d)
         PROVE  CauseOK'
    BY <2>1, <2>11 DEF HardwareCompletes
  <2>12. CASE SetupNext
    BY <2>5, <2>6, <2>7, <2>8, <2>9, <2>10, <2>11, <2>12 DEF SetupNext
  <2> QED
    BY <2>2, <2>3, <2>4, <2>12, <2>14, NextSteps DEF vars
<1>3. CauseOK /\ SetupInv /\ WiringInv => DriverNeverFailsItself
  <2> SUFFICES ASSUME CauseOK, SetupInv, WiringInv
               PROVE  DriverNeverFailsItself
    OBVIOUS
  <2>1. /\ n \in Devices /\ m \in 0 .. DevicesCount + ReceiveQueuesCount
        /\ at \in {"os_init", "nf_init", "allocate", "exit", "halt",
                   "pci", "disable_receive", "await_receive_disabled", "master_disable",
                   "await_master", "check_pending", "flush", "reset", "await_eeprom",
                   "await_dma", "promiscuous", "agent", "output", "await_output", "input",
                   "await_input", "await_empty", "finish_input", "run", "fatal", "undefined"}
    BY DEF WiringInv, LoopsOK, BeforeDevices, DevicePlaces, AgentPlaces, OutputPlaces,
           InputPlaces, Stopped
  <2>2. ASSUME NEW d \in Devices
        PROVE  /\ DOMAIN dev[d].regs = Fields
               /\ \A f \in Fields : DOMAIN dev[d].regs[f] = DOMAIN PowerOn[f]
    <3>1. AreRegisters(dev[d].regs)
      BY DEF SetupInv, DevicesInv, IsDevice
    <3> QED
      BY <3>1 DEF AreRegisters
  <2> QED
    BY <2>1, <2>2 DEF CauseOK, DriverNeverFailsItself, TypeOK
<1> QED
  BY <1>1, <1>2, <1>3, SetupInvariant, WiringInvariant, PTL DEF Spec

-----------------------------------------------------------------------------
(* What the agents' rings, buffers and queues are.                         *)

\* tn_agent_init allocated the buffer of the agent.
HasBuffer(a) ==
  at = "run" \/ (at \in AgentPlaces /\ (a < n \/ (a = n /\ at # "agent")))

\* The first byte that is free, and where a ring would be.
Free(h)      == memory + h.used
NextRing(h)  == Free(h) + AlignPadding(Free(h), 64)

\* Agents share no buffers, and outputs no rings.  With an odd number of
\* devices, rings are where the cards take all of their address.
BuffersOK ==
  /\ DOMAIN buffer = Devices
  /\ \A a \in Devices : HasBuffer(a) => buffer[a] \in Nat /\ buffer[a] < Free(heap)
  /\ \A a, b \in Devices : a # b /\ HasBuffer(a) /\ HasBuffer(b) => buffer[a] # buffer[b]

RingOf(a, d) == rings[a][TrueIndex(a, d)]

IsRing(r, a) ==
  /\ r.addr \in Int /\ (DevicesCount % 2 = 1 => r.addr % 128 = 0)
  /\ r.addr < os_memory_virt_to_phys(Free(heap))
  /\ r.buffer = os_memory_virt_to_phys(buffer[a])

RingsDiffer ==
  /\ \A a, d \in Devices : a # d /\ HasOutput(a, d) => IsRing(RingOf(a, d), a)
  /\ \A a, b, d, e \in Devices :
       /\ a # d /\ b # e /\ <<a, d>> # <<b, e>>
       /\ HasOutput(a, d) /\ HasOutput(b, e)
       => RingOf(a, d).addr # RingOf(b, e).addr
  /\ at \in OutputPlaces /\ DevicesCount % 2 = 1 => NextRing(heap) % 128 = 0

AddressesInv == BuffersOK /\ RingsDiffer

\* What the hardware may do some time after a write.
DueFields ==
  {"EEC.Auto_RD", "RDRXCTL.DMAIDONE", "STATUS.PCIe_Master_Enable_Status",
   "DEVICE_STATUS.Transaction_Pending", "SECRXSTAT.SECRX_RDY"} \cup Delayed

DuesOK(e) == \A w \in e.due : w.field \in DueFields

\* What the flags of a device mean.
FlagsOK(d) ==
  /\ at \in BeforeDevices \cup DevicePlaces => ~ tx_enabled[d] /\ ~ rx_enabled[d]
  /\ at \in AgentPlaces /\ tx_enabled[d] => dev[d].regs["DMATXCTL.TE"][0] = 1
  /\ at \in AgentPlaces /\ rx_enabled[d] => MayReceive(d)

\* A queue sends from a ring and reports to heads, once it is enabled.
IsQueueOf(e, q, ring, head) ==
  /\ q < TransmitQueuesCount
  /\ e.regs["TDBA"][q] = RingBase(ring) /\ e.regs["TDWBA"][q] = head
  /\ e.regs["TDWBAL.Head_WB_En"][q] = 1 /\ e.regs["DMATXCTL.TE"][0] = 1
  /\ \A w \in e.due : w.field = "TXDCTL.ENABLE" /\ w.index = q => w.value = 1

SendsOn(e, q) == e.regs["TXDCTL.ENABLE"][q] = 1

QueueOK(a, d) ==
  /\ HasOutput(a, d) => IsQueueOf(dev[d], QueueIndex(a, d), RingOf(a, d).addr,
                                  HeadAddr(a, TrueIndex(a, d)))
  /\ IsOutput(a, d) => SendsOn(dev[d], QueueIndex(a, d))

InputOK(d) ==
  /\ HasQueue(d) => dev[d].regs["RDBA"][0] = RingBase(rings[d][0].addr)
  /\ MayReceive(d) => dev[d].regs["RXCTRL.RXEN"][0] = 1

IsWired(d) ==
  /\ DuesOK(dev[d]) /\ FlagsOK(d) /\ InputOK(d)
  /\ \A a \in Devices \ {d} : QueueOK(a, d)

QueuesInv ==
  /\ DOMAIN tx_enabled = Devices /\ DOMAIN rx_enabled = Devices
  /\ \A d \in Devices : IsWired(d)

-----------------------------------------------------------------------------
(* Where blocks are.                                                       *)

\* A new block is at the next multiple after what is used, and is used up.
LEMMA AllocPlaces ==
  ASSUME NEW h, HeapOK(h), NEW count, NEW size, IsLegal(count, size),
         NEW g, g = os_memory_alloc(h, count, size), ~ g.halted
  PROVE  LET b == g.blocks[Len(h.blocks) + 1]
         IN  /\ Free(h) \in Nat
             /\ b.addr = Free(h) + AlignPadding(Free(h), AlignDiv(size))
             /\ b.addr \in Nat /\ b.addr >= Free(h)
             /\ Free(g) = b.addr + count * size
<1> DEFINE padding == AlignPadding(memory + h.used, AlignDiv(size))
           used    == h.used + padding
           bytes   == count * size
<1>0. /\ h.used \in Nat /\ h.blocks \in Seq(BlockType) /\ memory \in Nat /\ SIZE_MAX \in Nat
      /\ h \in [used : 0 .. OS_MEMORY_SIZE, blocks : Seq(BlockType), halted : BOOLEAN]
      /\ OS_MEMORY_SIZE \in Nat
  BY MemoryAssumption DEF HeapOK, memory
<1>1. bytes \in Nat /\ bytes % (SIZE_MAX + 1) = bytes
  BY <1>0 DEF IsLegal
<1>2. padding \in Nat
  <2>1. memory + h.used \in Nat /\ size \in Nat
    BY <1>0 DEF IsLegal
  <2> QED
    BY <2>1, Padding
<1>3. ~ h.halted
  BY AllocAppends
<1>4. g = [h EXCEPT !.used = used + bytes,
                    !.blocks = Append(@, Block(memory + used, count, size))]
  <2>1. \/ g.halted
        \/ g = [h EXCEPT !.used = used + (bytes % (SIZE_MAX + 1)),
                         !.blocks = Append(@, Block(memory + used, count, size))]
    <3> HIDE DEF padding, bytes
    <3>1. \/ g = [h EXCEPT !.halted = TRUE]
          \/ g = [h EXCEPT !.halted = TRUE, !.used = used]
          \/ g = [h EXCEPT !.used = used + (bytes % (SIZE_MAX + 1)),
                           !.blocks = Append(@, Block(memory + used, count, size))]
      BY <1>3 DEF os_memory_alloc, padding, bytes
    <3> HIDE DEF used
    <3> QED
      BY <1>0, <3>1
  <2> QED
    BY <1>1, <2>1
<1> HIDE DEF padding, bytes
<1>5. g.used = used + bytes /\ g.blocks = Append(h.blocks, Block(memory + used, count, size))
  BY <1>0, <1>4
<1>6. g.blocks[Len(h.blocks) + 1].addr = memory + used
  BY <1>0, <1>5 DEF Block
<1>7. Free(h) = memory + h.used /\ Free(g) = memory + (used + bytes)
  BY <1>5 DEF Free
<1>8. memory + used = Free(h) + padding
  BY <1>0, <1>2, <1>7
<1>9. Free(g) = (memory + used) + bytes
  BY <1>0, <1>1, <1>2, <1>7
<1>10. memory + used \in Nat /\ memory + used >= Free(h) /\ Free(h) \in Nat
  BY <1>0, <1>2, <1>7
<1> QED
  BY <1>6, <1>7, <1>8, <1>9, <1>10 DEF padding, bytes

\* A device sees the huge page somewhere else, by whole pages.
LEMMA Physical ==
  ASSUME NEW x \in Nat, NEW y \in Nat
  PROVE  /\ os_memory_virt_to_phys(x) \in Int
         /\ x % 128 = 0 => os_memory_virt_to_phys(x) % 128 = 0
         /\ x < y <=> os_memory_virt_to_phys(x) < os_memory_virt_to_phys(y)
         /\ x = y <=> os_memory_virt_to_phys(x) = os_memory_virt_to_phys(y)
<1> DEFINE K == (PhysicalPage - VirtualPage) * (HUGEPAGE_SIZE \div PAGE_SIZE)
<1>1. HUGEPAGE_SIZE \div PAGE_SIZE \in Int
  BY MemoryAssumption DEF PAGE_SIZE
<1>2. K \in Int
  BY <1>1, MemoryAssumption
<1> HIDE DEF K
<1>3. ASSUME NEW z \in Nat
      PROVE  os_memory_virt_to_phys(z) = z + 4096 * K
  <2>1. os_memory_virt_to_phys(z) = (z \div 4096 + K) * 4096 + (z % 4096)
    BY DEF os_memory_virt_to_phys, Frame, PAGE_SIZE, K
  <2> QED
    BY <1>2, <2>1
<1>4. os_memory_virt_to_phys(x) = x + 4096 * K /\ os_memory_virt_to_phys(y) = y + 4096 * K
  BY <1>3
<1>5. x % 128 = 0 => (x + 4096 * K) % 128 = 0
  BY <1>2
<1> QED
  BY <1>2, <1>4, <1>5

\* Blocks of small objects are on boundaries of 64 bytes.
LEMMA SmallDivs == AlignDiv(8) = 64 /\ AlignDiv(16) = 64 /\ AlignDiv(64) = 128
BY DEF AlignDiv, CACHE_LINE_SIZE

\* The padding to a boundary of 64 bytes.
LEMMA Rounds ==
  ASSUME NEW x \in Nat
  PROVE  /\ AlignPadding(x, 64) \in 0 .. 63 /\ (x + AlignPadding(x, 64)) % 64 = 0
         /\ x % 64 = 0 => AlignPadding(x, 64) = 0
<1>1. x % 64 \in 0 .. 63
  OBVIOUS
<1>2. /\ x % 64 = 0 => AlignPadding(x, 64) = 0
      /\ x % 64 # 0 => AlignPadding(x, 64) = 64 - (x % 64)
  BY DEF AlignPadding
<1>3. (x + (64 - (x % 64))) % 64 = 0
  OBVIOUS
<1>4. x + 0 = x
  OBVIOUS
<1> QED
  BY <1>1, <1>2, <1>3, <1>4

\* A ring is 4096 bytes, where NextRing says.
LEMMA RingPlaces ==
  ASSUME NEW h, HeapOK(h), NEW g, g = descriptor_ring_alloc(h, IXGBE_RING_SIZE), ~ g.halted
  PROVE  /\ Free(h) \in Nat /\ Free(g) \in Nat /\ NextRing(h) \in Nat
         /\ Result(g) = NextRing(h) /\ Free(h) <= NextRing(h) /\ NextRing(h) < Free(g)
         /\ NextRing(h) % 128 = 0 => NextRing(g) % 128 = 0
<1>1. g = os_memory_alloc(h, IXGBE_RING_SIZE, 16) /\ IsLegal(IXGBE_RING_SIZE, 16)
  BY DriverRequestsLegal DEF descriptor_ring_alloc
<1>2. /\ HeapOK(g) /\ Len(h.blocks) \in Nat /\ Len(g.blocks) = Len(h.blocks) + 1
      /\ Result(g) = g.blocks[Len(h.blocks) + 1].addr
  BY <1>1, AllocAppends DEF HasOneMore, Result, Last
<1>3. /\ Free(h) \in Nat /\ Result(g) = NextRing(h)
      /\ NextRing(h) \in Nat /\ NextRing(h) >= Free(h)
      /\ Free(g) = NextRing(h) + IXGBE_RING_SIZE * 16
  BY <1>1, <1>2, AllocPlaces, SmallDivs DEF NextRing
<1>4. Free(g) = NextRing(h) + 4096 /\ Free(g) \in Nat
  BY <1>3 DEF IXGBE_RING_SIZE
<1>5. ASSUME NextRing(h) % 128 = 0
      PROVE  NextRing(g) % 128 = 0
  <2>1. Free(g) % 64 = 0 /\ Free(g) % 128 = 0
    BY <1>3, <1>4, <1>5
  <2>2. AlignPadding(Free(g), 64) = 0
    BY <1>4, <2>1, Rounds
  <2>3. NextRing(g) = Free(g)
    BY <1>4, <2>2 DEF NextRing
  <2> QED
    BY <2>1, <2>3
<1> QED
  BY <1>3, <1>4, <1>5

\* Two blocks of the same size after a block of 128s end on a boundary of 128.
LEMMA TwoAlike ==
  ASSUME NEW x \in Nat, x % 128 = 0, NEW t \in Nat,
         NEW y \in Nat, y % 64 = 0, x + t <= y, y < x + t + 64,
         NEW z \in Nat, z % 64 = 0, y + t <= z, z < y + t + 64
  PROVE  z % 128 = 0
<1>1. PICK k \in Nat : x = 128 * k
  OBVIOUS
<1>2. PICK s \in Nat : y = 64 * s
  OBVIOUS
<1>3. PICK r \in Nat : z = 64 * r
  OBVIOUS
<1>4. z - y - (y - x) \in -63 .. 63
  OBVIOUS
<1>5. z - y - (y - x) = 64 * (r - s - s + 2 * k)
  BY <1>1, <1>2, <1>3
<1>6. r - s - s + 2 * k = 0
  BY <1>4, <1>5
<1>7. z = 128 * (s - k)
  BY <1>3, <1>6
<1> QED
  BY <1>7

\* An agent's first block is its buffer.  After its blocks, a ring is at a
\* multiple of 128 bytes if the agent has an even number of outputs.
LEMMA AgentBlocks ==
  ASSUME NEW h, HeapOK(h), NEW g, g = AllocAll(h, AgentRequests(OutputsCount)), ~ g.halted
  PROVE  LET addr == g.blocks[Len(h.blocks) + 1].addr
         IN  /\ Free(h) \in Nat /\ Free(g) \in Nat
             /\ addr \in Nat /\ Free(h) <= addr /\ addr < Free(g)
             /\ OutputsCount % 2 = 0 => NextRing(g) % 128 = 0
<1> DEFINE rs == AgentRequests(OutputsCount)
           k  == Len(h.blocks)
           t  == OutputsCount * 8
<1>1. /\ Len(rs) = 5 /\ rs[1][1] * rs[1][2] \in Nat \ {0}
      /\ rs[2] = <<OutputsCount, 8>> /\ rs[3] = <<OutputsCount, 64>>
      /\ rs[4] = <<OutputsCount, 8>> /\ rs[5] = <<OutputsCount, 8>>
  BY DEF AgentRequests, TRANSMIT_HEAD_MULTIPLIER, IXGBE_RING_SIZE, PACKET_BUFFER_SIZE
<1>2. \A i \in 1 .. Len(rs) : IsLegal(rs[i][1], rs[i][2])
  BY DriverRequestsLegal DEF LegalRequests
<1>3. OutputsCount \in Nat
  BY DevicesAssumption DEF OutputsCount
<1> HIDE DEF rs
<1>4. PICK F : Allocating(F, h, rs, Len(rs)) /\ AllocAll(h, rs) = F[Len(rs)]
  <2>1. Len(rs) \in Nat
    BY <1>1
  <2> QED
    BY <2>1, AllocAllAllocates
<1>5. /\ F[0] = h /\ \A i \in 1 .. 5 : F[i] = os_memory_alloc(F[i - 1], rs[i][1], rs[i][2])
      /\ g = F[5]
  BY <1>1, <1>4 DEF Allocating, rs
<1>6. /\ F[1] = os_memory_alloc(F[0], rs[1][1], rs[1][2])
      /\ F[2] = os_memory_alloc(F[1], rs[2][1], rs[2][2])
      /\ F[3] = os_memory_alloc(F[2], rs[3][1], rs[3][2])
      /\ F[4] = os_memory_alloc(F[3], rs[4][1], rs[4][2])
      /\ F[5] = os_memory_alloc(F[4], rs[5][1], rs[5][2])
  BY <1>5
<1>7. /\ IsLegal(rs[1][1], rs[1][2]) /\ IsLegal(rs[2][1], rs[2][2]) /\ IsLegal(rs[3][1], rs[3][2])
      /\ IsLegal(rs[4][1], rs[4][2]) /\ IsLegal(rs[5][1], rs[5][2])
  BY <1>1, <1>2
<1>8. HeapOK(F[0]) /\ HeapOK(F[1]) /\ HeapOK(F[2]) /\ HeapOK(F[3]) /\ HeapOK(F[4])
  <2>1. HeapOK(F[0])
    BY <1>5
  <2>2. HeapOK(F[1])
    BY <1>6, <1>7, <2>1, AllocKeeps
  <2>3. HeapOK(F[2])
    BY <1>6, <1>7, <2>2, AllocKeeps
  <2>4. HeapOK(F[3])
    BY <1>6, <1>7, <2>3, AllocKeeps
  <2>5. HeapOK(F[4])
    BY <1>6, <1>7, <2>4, AllocKeeps
  <2> QED
    BY <2>1, <2>2, <2>3, <2>4, <2>5
<1>9. ~ F[5].halted /\ ~ F[4].halted /\ HasOneMore(F[5], F[4])
  BY <1>5, <1>6, <1>7, <1>8, AllocAppends
<1>10. ~ F[3].halted /\ HasOneMore(F[4], F[3])
  BY <1>6, <1>7, <1>8, <1>9, AllocAppends
<1>11. ~ F[2].halted /\ HasOneMore(F[3], F[2])
  BY <1>6, <1>7, <1>8, <1>10, AllocAppends
<1>12. ~ F[1].halted /\ HasOneMore(F[2], F[1])
  BY <1>6, <1>7, <1>8, <1>11, AllocAppends
<1>13. HasOneMore(F[1], F[0])
  BY <1>6, <1>7, <1>8, <1>12, AllocAppends
<1>14. g.blocks[k + 1] = F[1].blocks[k + 1]
  <2>1. /\ k \in Nat /\ Len(F[1].blocks) = k + 1 /\ Len(F[2].blocks) = k + 2
        /\ Len(F[3].blocks) = k + 3 /\ Len(F[4].blocks) = k + 4
    BY <1>5, <1>10, <1>11, <1>12, <1>13 DEF HasOneMore
  <2>2. k + 1 \in 1 .. k + 1 /\ k + 1 \in 1 .. k + 2 /\ k + 1 \in 1 .. k + 3 /\ k + 1 \in 1 .. k + 4
    BY <2>1
  <2>3. F[2].blocks[k + 1] = F[1].blocks[k + 1] /\ F[3].blocks[k + 1] = F[2].blocks[k + 1]
    BY <1>11, <1>12, <2>1, <2>2 DEF HasOneMore
  <2>4. F[4].blocks[k + 1] = F[3].blocks[k + 1] /\ F[5].blocks[k + 1] = F[4].blocks[k + 1]
    BY <1>9, <1>10, <2>1, <2>2 DEF HasOneMore
  <2> QED
    BY <1>5, <2>3, <2>4
\* Where each of the blocks is.
<1> DEFINE at1 == F[1].blocks[k + 1].addr
           at3 == F[3].blocks[Len(F[2].blocks) + 1].addr
<1>15. Free(h) \in Nat /\ at1 \in Nat /\ at1 >= Free(h) /\ Free(F[1]) \in Nat /\ at1 < Free(F[1])
  BY <1>1, <1>5, <1>6, <1>7, <1>8, <1>12, AllocPlaces, SMTT(20)
<1>16. Free(F[1]) \in Nat /\ Free(F[2]) >= Free(F[1]) + OutputsCount * 8
  <2>1. \E a \in Nat : a >= Free(F[1]) /\ Free(F[2]) = a + OutputsCount * 8 /\ Free(F[1]) \in Nat
    BY <1>1, <1>6, <1>7, <1>8, <1>11, AllocPlaces, SMTT(20)
  <2> QED
    BY <1>3, <2>1
<1>17. /\ at3 = Free(F[2]) + AlignPadding(Free(F[2]), 128) /\ at3 \in Nat
       /\ Free(F[2]) \in Nat /\ at3 >= Free(F[2]) /\ Free(F[3]) = at3 + OutputsCount * 64
  BY <1>1, <1>6, <1>7, <1>8, <1>10, AllocPlaces, SmallDivs
<1>18. at3 % 128 = 0
  BY <1>17, Padding, SmallDivs
<1>19. /\ Free(F[3]) \in Nat
       /\ Free(F[4]) = Free(F[3]) + AlignPadding(Free(F[3]), 64) + OutputsCount * 8
  BY <1>1, <1>6, <1>7, <1>8, <1>9, AllocPlaces, SmallDivs
<1>20. /\ Free(F[4]) \in Nat
       /\ Free(g) = Free(F[4]) + AlignPadding(Free(F[4]), 64) + OutputsCount * 8
  BY <1>1, <1>5, <1>6, <1>7, <1>8, <1>9, AllocPlaces, SmallDivs
<1>21. PICK p \in 0 .. 63 : /\ p = AlignPadding(Free(F[3]), 64)
                            /\ Free(F[3]) % 64 = 0 => p = 0
  BY <1>19, Rounds
<1>22. PICK q \in 0 .. 63 : q = AlignPadding(Free(F[4]), 64) /\ (Free(F[4]) + q) % 64 = 0
  BY <1>20, Rounds
<1> HIDE DEF at1, at3, k
<1>23. t \in Nat
  BY <1>3
<1>24. Free(F[4]) = Free(F[3]) + p + t /\ Free(g) = Free(F[4]) + q + t
  BY <1>19, <1>20, <1>21, <1>22
<1>25. Free(g) \in Nat /\ at1 < Free(g)
  <2>1. Free(F[3]) \in Nat /\ at1 < Free(F[3])
    BY <1>3, <1>15, <1>16, <1>17
  <2> HIDE DEF t
  <2>2. at1 < Free(F[4])
    BY <1>15, <1>20, <1>23, <1>24, <2>1
  <2> QED
    BY <1>15, <1>20, <1>23, <1>24, <2>2
<1>26. ASSUME OutputsCount % 2 = 0
       PROVE  NextRing(g) % 128 = 0
  <2>1. PICK r \in 0 .. 63 : r = AlignPadding(Free(g), 64) /\ (Free(g) + r) % 64 = 0
    BY <1>25, Rounds
  <2>2. NextRing(g) = Free(g) + r
    BY <2>1 DEF NextRing
  <2>3. Free(F[3]) % 128 = 0 /\ Free(F[3]) % 64 = 0
    <3>1. PICK j \in Nat : at3 = 128 * j
      BY <1>17, <1>18
    <3>2. PICK i \in Nat : OutputsCount = 2 * i
      BY <1>3, <1>26
    <3>3. Free(F[3]) = 128 * j + OutputsCount * 64
      BY <1>17, <3>1
    <3>4. 128 * j + OutputsCount * 64 = 128 * (j + i)
      BY <3>2
    <3> QED
      BY <3>3, <3>4
  <2> HIDE DEF t
  <2>4. Free(F[4]) = Free(F[3]) + t
    BY <1>19, <1>21, <1>23, <1>24, <2>3
  <2>5. PICK x \in Nat : x = Free(F[3])
    BY <1>19
  <2>6. PICK y \in Nat : y = Free(F[4]) + q
    BY <1>20
  <2>7. PICK z \in Nat : z = Free(g) + r
    BY <1>25
  <2>8. x % 128 = 0 /\ y % 64 = 0 /\ z % 64 = 0
    BY <1>22, <2>1, <2>3, <2>5, <2>6, <2>7
  <2>9. y = x + t + q /\ z = y + t + r
    BY <1>19, <1>20, <1>23, <1>24, <1>25, <2>4, <2>5, <2>6, <2>7
  <2>10. z % 128 = 0
    <3>1. x + t <= y /\ y < x + t + 64 /\ y + t <= z /\ z < y + t + 64
      BY <1>23, <2>9
    <3> QED
      BY <1>23, <2>8, <3>1, TwoAlike
  <2> QED
    BY <2>2, <2>7, <2>10
<1> QED
  BY <1>14, <1>15, <1>25, <1>26 DEF at1, k

-----------------------------------------------------------------------------
(* Every step keeps the addresses apart.                                   *)

\* The rings there are lie before what is free, later too.
LEMMA RingsStay ==
  ASSUME NEW r, NEW a, IsRing(r, a), Free(heap) \in Nat, Free(heap)' \in Nat,
         Free(heap) <= Free(heap)', buffer'[a] = buffer[a]
  PROVE  IsRing(r, a)'
<1>1. Free(heap)' = Free(heap) \/ Free(heap) < Free(heap)'
  OBVIOUS
<1>2. \/ os_memory_virt_to_phys(Free(heap)') = os_memory_virt_to_phys(Free(heap))
      \/ os_memory_virt_to_phys(Free(heap)) < os_memory_virt_to_phys(Free(heap)')
  BY <1>1, Physical
<1>3. /\ os_memory_virt_to_phys(Free(heap)) \in Int
      /\ os_memory_virt_to_phys(Free(heap)') \in Int
  BY Physical
<1>4. r.addr < os_memory_virt_to_phys(Free(heap)')
  BY <1>2, <1>3 DEF IsRing
<1>5. os_memory_virt_to_phys(Free(heap))' = os_memory_virt_to_phys(Free(heap)')
  BY DEF os_memory_virt_to_phys, Frame
<1>6. os_memory_virt_to_phys(buffer[a])' = os_memory_virt_to_phys(buffer[a])
  BY DEF os_memory_virt_to_phys, Frame
<1> QED
  BY <1>4, <1>5, <1>6 DEF IsRing

\* An agent was allocated.
LEMMA AgentAddresses ==
  ASSUME AddressesInv, HeapInv, LoopsOK, Agent, at' = "output"
  PROVE  AddressesInv'
<1> DEFINE h    == AllocAll(heap, AgentRequests(OutputsCount))
           addr == h.blocks[Len(heap.blocks) + 1].addr
<1>0. /\ DevicesCount \in Nat /\ Devices = 0 .. DevicesCount - 1 /\ n \in Devices
      /\ DevicesCount % 2 = 1 => OutputsCount % 2 = 0
  BY DevicesAssumption DEF Devices, LoopsOK, OutputsCount
<1>1. /\ heap' = h /\ ~ h.halted /\ rings' = rings /\ n' = n /\ m' = 0 /\ at = "agent"
      /\ buffer' = [buffer EXCEPT ![n] = addr]
  BY DEF Agent, Allocated, Fatal
<1>2. /\ Free(heap) \in Nat /\ Free(h) \in Nat /\ addr \in Nat
      /\ Free(heap) <= addr /\ addr < Free(h)
      /\ DevicesCount % 2 = 1 => NextRing(h) % 128 = 0
  BY <1>0, <1>1, AgentBlocks DEF HeapInv
<1> HIDE DEF addr, h
<1>3. Free(heap)' = Free(h) /\ NextRing(heap)' = NextRing(h)
  BY <1>1 DEF Free, NextRing
<1>4. /\ DOMAIN buffer' = Devices /\ buffer'[n] = addr
      /\ \A a \in Devices \ {n} : buffer'[a] = buffer[a]
  BY <1>0, <1>1 DEF AddressesInv, BuffersOK
<1>5. ASSUME NEW a \in Devices, HasBuffer(a)'
      PROVE  a # n => HasBuffer(a) /\ buffer[a] \in Nat /\ buffer[a] < Free(heap)
  <2>1. a # n => HasBuffer(a)
    BY <1>0, <1>1, <1>5 DEF HasBuffer, AgentPlaces, OutputPlaces, InputPlaces
  <2> QED
    BY <2>1 DEF AddressesInv, BuffersOK
<1>6. BuffersOK'
  <2>1. ASSUME NEW a \in Devices, HasBuffer(a)'
        PROVE  buffer'[a] \in Nat /\ buffer'[a] < Free(heap)'
    <3>1. CASE a = n
      BY <1>2, <1>3, <1>4, <3>1
    <3>2. CASE a # n
      <4>1. buffer'[a] = buffer[a] /\ buffer[a] \in Nat /\ buffer[a] < Free(heap)
        BY <1>4, <1>5, <2>1, <3>2
      <4> QED
        BY <1>2, <1>3, <4>1
    <3> QED
      BY <3>1, <3>2
  <2>2. ASSUME NEW a \in Devices, NEW b \in Devices, a # b, HasBuffer(a)', HasBuffer(b)'
        PROVE  buffer'[a] # buffer'[b]
    <3>1. a # n => buffer'[a] = buffer[a] /\ HasBuffer(a) /\ buffer[a] \in Nat /\ buffer[a] < Free(heap)
      BY <1>4, <1>5, <2>2
    <3>2. b # n => buffer'[b] = buffer[b] /\ HasBuffer(b) /\ buffer[b] \in Nat /\ buffer[b] < Free(heap)
      BY <1>4, <1>5, <2>2
    <3>3. CASE a # n /\ b # n
      BY <2>2, <3>1, <3>2, <3>3 DEF AddressesInv, BuffersOK
    <3>4. CASE a = n \/ b = n
      BY <1>2, <1>4, <2>2, <3>1, <3>2, <3>4
    <3> QED
      BY <3>3, <3>4
  <2> QED
    BY <1>4, <2>1, <2>2 DEF BuffersOK
<1>7. ASSUME NEW a \in Devices, NEW d \in Devices, HasOutput(a, d)'
      PROVE  HasOutput(a, d) /\ a # n /\ RingOf(a, d)' = RingOf(a, d)
  <2>1. HasOutput(a, d) /\ a # n
    BY <1>0, <1>1, <1>7 DEF HasOutput, IsOutput, AgentPlaces, OutputPlaces, InputPlaces
  <2> QED
    BY <1>1, <2>1 DEF RingOf
<1>8. ASSUME NEW a \in Devices, NEW d \in Devices, a # d, HasOutput(a, d)'
      PROVE  IsRing(RingOf(a, d), a)'
  <2> DEFINE r == RingOf(a, d)
  <2>1. r' = r /\ IsRing(r, a) /\ buffer'[a] = buffer[a]
    BY <1>4, <1>7, <1>8 DEF AddressesInv, RingsDiffer
  <2>2. Free(heap) <= Free(heap)' /\ Free(heap)' \in Nat
    BY <1>2, <1>3
  <2> HIDE DEF r
  <2>3. r' = r
    BY <2>1
  <2>4. ASSUME NEW s, IsRing(s, a)
        PROVE  IsRing(s, a)'
    BY <1>2, <2>1, <2>2, <2>4, RingsStay
  <2> QED
    BY <2>1, <2>4 DEF r, IsRing
<1>9. RingsDiffer'
  BY <1>1, <1>2, <1>3, <1>7, <1>8 DEF AddressesInv, RingsDiffer
<1> QED
  BY <1>6, <1>9 DEF AddressesInv

\* An output got its ring.
LEMMA OutputAddresses ==
  ASSUME AddressesInv, RingsOK, HeapInv, LoopsOK, AddOutput, at' = "await_output"
  PROVE  AddressesInv'
<1> DEFINE h    == descriptor_ring_alloc(heap, IXGBE_RING_SIZE)
           ring == os_memory_virt_to_phys(Result(h))
           r    == [addr |-> ring, buffer |-> os_memory_virt_to_phys(buffer[n])]
           o    == TrueIndex(n, m)
<1>0. DevicesCount \in Nat /\ Devices = 0 .. DevicesCount - 1 /\ n \in Devices
  BY DevicesAssumption DEF Devices, LoopsOK
<1>1. /\ n' = n /\ m' = m /\ at = "output" /\ m # n /\ heap' = h /\ ~ h.halted
      /\ buffer' = buffer /\ rings' = [rings EXCEPT ![n][o] = r]
  BY DEF AddOutput, Allocated, Fatal, Do
<1>2. m \in Devices
  BY <1>0, <1>1 DEF LoopsOK, OutputPlaces
<1>3. /\ Free(heap) \in Nat /\ Free(h) \in Nat /\ NextRing(heap) \in Nat
      /\ Result(h) = NextRing(heap) /\ Free(heap) <= NextRing(heap) /\ NextRing(heap) < Free(h)
      /\ DevicesCount % 2 = 1 => NextRing(heap) % 128 = 0 /\ NextRing(h) % 128 = 0
  BY <1>1, RingPlaces DEF HeapInv, AddressesInv, RingsDiffer, OutputPlaces
<1>4. /\ ring \in Int /\ ring < os_memory_virt_to_phys(Free(h))
      /\ DevicesCount % 2 = 1 => ring % 128 = 0
      /\ os_memory_virt_to_phys(Free(heap)) \in Int
      /\ os_memory_virt_to_phys(Free(heap)) <= ring
  <2>1. ring = os_memory_virt_to_phys(NextRing(heap))
    BY <1>3
  <2>2. /\ ring \in Int /\ ring < os_memory_virt_to_phys(Free(h))
        /\ DevicesCount % 2 = 1 => ring % 128 = 0
    BY <1>3, <2>1, Physical
  <2>3. \/ os_memory_virt_to_phys(Free(heap)) = ring
        \/ os_memory_virt_to_phys(Free(heap)) < ring
    <3>1. Free(heap) = NextRing(heap) \/ Free(heap) < NextRing(heap)
      BY <1>3
    <3> QED
      BY <1>3, <2>1, <3>1, Physical
  <2>4. os_memory_virt_to_phys(Free(heap)) \in Int
    BY <1>3, Physical
  <2> QED
    BY <2>2, <2>3, <2>4
<1> HIDE DEF ring, h
<1>5. r.addr = ring /\ r.buffer = os_memory_virt_to_phys(buffer[n])
  OBVIOUS
<1> HIDE DEF r
<1>6. o \in Outputs
  BY <1>0, <1>1, <1>2, TrueIndexFacts
<1> HIDE DEF o
<1>7. /\ rings'[n][o] = r
      /\ \A a \in Devices, i \in Outputs : a # n \/ i # o => rings'[a][i] = rings[a][i]
  BY <1>0, <1>1, <1>6 DEF RingsOK
<1>8. /\ Free(heap)' = Free(h) /\ NextRing(heap)' = NextRing(h)
      /\ os_memory_virt_to_phys(Free(heap))' = os_memory_virt_to_phys(Free(h))
  BY <1>1 DEF Free, NextRing, os_memory_virt_to_phys, Frame
<1>9. \A a \in Devices : HasBuffer(a)' <=> HasBuffer(a)
  BY <1>1 DEF HasBuffer, AgentPlaces, OutputPlaces, InputPlaces
<1>10. BuffersOK'
  <2>1. ASSUME NEW x \in Nat, x < Free(heap)
        PROVE  x < Free(h)
    BY <1>3, <2>1
  <2> QED
    BY <1>1, <1>8, <1>9, <2>1 DEF AddressesInv, BuffersOK
<1>11. ASSUME NEW a \in Devices, NEW d \in Devices, a # d, HasOutput(a, d)', <<a, d>> # <<n, m>>
       PROVE  HasOutput(a, d) /\ RingOf(a, d)' = RingOf(a, d)
  <2>1. HasOutput(a, d)
    BY <1>1, <1>11 DEF HasOutput, IsOutput, AgentPlaces, OutputPlaces, InputPlaces
  <2>2. TrueIndex(a, d) \in Outputs
    BY <1>11, TrueIndexFacts
  <2>3. a # n \/ TrueIndex(a, d) # o
    BY <1>1, <1>2, <1>11, TrueIndexFacts DEF o
  <2> QED
    BY <1>7, <2>1, <2>2, <2>3 DEF RingOf
<1>12. ASSUME NEW a \in Devices, NEW d \in Devices, <<a, d>> = <<n, m>>
       PROVE  RingOf(a, d)' = r
  <2>1. a = n /\ d = m
    BY <1>12
  <2> QED
    BY <1>7, <2>1 DEF RingOf, o
<1>13. ASSUME NEW a \in Devices, NEW d \in Devices, a # d, HasOutput(a, d)'
       PROVE  /\ IsRing(RingOf(a, d), a)'
              /\ <<a, d>> # <<n, m>> => (RingOf(a, d).addr)' # r.addr
  <2>1. CASE <<a, d>> = <<n, m>>
    <3>0. a = n /\ d = m
      BY <2>1
    <3>1. (RingOf(a, d).addr)' = ring /\ (RingOf(a, d).buffer)' = os_memory_virt_to_phys(buffer[n])
      <4>1. RingOf(a, d)' = r
        BY <1>12, <2>1
      <4> QED
        BY <1>5, <4>1
    <3>2. os_memory_virt_to_phys(buffer[a])' = os_memory_virt_to_phys(buffer[n])
      BY <1>1, <2>1 DEF os_memory_virt_to_phys, Frame
    <3> QED
      BY <1>4, <1>8, <2>1, <3>1, <3>2 DEF IsRing
  <2>2. CASE <<a, d>> # <<n, m>>
    <3>1. HasOutput(a, d) /\ RingOf(a, d)' = RingOf(a, d)
      BY <1>11, <1>13, <2>2
    <3>2. IsRing(RingOf(a, d), a)
      BY <1>13, <3>1 DEF AddressesInv, RingsDiffer
    <3>3. Free(heap) <= Free(heap)' /\ Free(heap)' \in Nat /\ buffer'[a] = buffer[a]
      BY <1>1, <1>3, <1>8
    <3>4. ASSUME NEW s, IsRing(s, a)
          PROVE  IsRing(s, a)'
      BY <1>3, <3>3, <3>4, RingsStay
    <3>5. IsRing(RingOf(a, d), a)'
      <4> DEFINE s == RingOf(a, d)
      <4>1. s' = s /\ IsRing(s, a)
        BY <3>1, <3>2
      <4> HIDE DEF s
      <4> QED
        BY <3>4, <4>1 DEF s, IsRing
    <3>6. RingOf(a, d).addr # ring
      BY <1>4, <3>2 DEF IsRing
    <3> QED
      BY <1>5, <3>1, <3>5, <3>6
  <2> QED
    BY <2>1, <2>2
<1>14. ASSUME NEW a \in Devices, NEW b \in Devices, NEW d \in Devices, NEW e \in Devices,
              a # d, b # e, <<a, d>> # <<b, e>>, HasOutput(a, d)', HasOutput(b, e)'
       PROVE  (RingOf(a, d).addr)' # (RingOf(b, e).addr)'
  <2>1. CASE <<a, d>> = <<n, m>>
    <3>1. RingOf(a, d)' = r /\ <<b, e>> # <<n, m>>
      BY <1>12, <1>14, <2>1
    <3>2. (RingOf(b, e).addr)' # r.addr
      BY <1>13, <1>14, <3>1
    <3> QED
      BY <3>1, <3>2
  <2>2. CASE <<b, e>> = <<n, m>>
    <3>1. RingOf(b, e)' = r /\ <<a, d>> # <<n, m>>
      BY <1>12, <1>14, <2>2
    <3>2. (RingOf(a, d).addr)' # r.addr
      BY <1>13, <1>14, <3>1
    <3> QED
      BY <3>1, <3>2
  <2>3. CASE <<a, d>> # <<n, m>> /\ <<b, e>> # <<n, m>>
    <3>1. RingOf(a, d).addr # RingOf(b, e).addr
      BY <1>11, <1>14, <2>3 DEF AddressesInv, RingsDiffer
    <3> QED
      BY <1>11, <1>14, <2>3, <3>1
  <2> QED
    BY <2>1, <2>2, <2>3
<1>15. RingsDiffer'
  BY <1>3, <1>8, <1>13, <1>14 DEF RingsDiffer
<1> QED
  BY <1>10, <1>15 DEF AddressesInv

\* A step that allocates nothing.
LEMMA AddressesStay ==
  ASSUME AddressesInv, UNCHANGED <<heap, rings, buffer>>,
         \A a, d \in Devices : a # d /\ HasOutput(a, d)' => HasOutput(a, d),
         \A a \in Devices : HasBuffer(a)' => HasBuffer(a),
         at' \in OutputPlaces => at \in OutputPlaces
  PROVE  AddressesInv'
<1>1. /\ Free(heap)' = Free(heap) /\ NextRing(heap)' = NextRing(heap)
      /\ os_memory_virt_to_phys(Free(heap))' = os_memory_virt_to_phys(Free(heap))
      /\ \A a, d \in Devices : RingOf(a, d)' = RingOf(a, d)
      /\ \A a \in Devices : os_memory_virt_to_phys(buffer[a])' = os_memory_virt_to_phys(buffer[a])
  BY DEF Free, NextRing, RingOf, os_memory_virt_to_phys, Frame
<1>2. BuffersOK'
  BY <1>1 DEF AddressesInv, BuffersOK
<1>3. \A a, d \in Devices : IsRing(RingOf(a, d), a) => IsRing(RingOf(a, d), a)'
  BY <1>1 DEF IsRing
<1>4. RingsDiffer'
  BY <1>1, <1>3 DEF AddressesInv, RingsDiffer
<1> QED
  BY <1>2, <1>4 DEF AddressesInv

\* All steps together.
LEMMA AddressesNext ==
  ASSUME AddressesInv, RingsOK, HeapInv, LoopsOK, [Next]_vars
  PROVE  AddressesInv'
<1>0. DevicesCount \in Nat /\ Devices = 0 .. DevicesCount - 1 /\ n \in Devices /\ m \in Int
  BY DevicesAssumption DEF Devices, LoopsOK
\* Steps after which there are no agents.
<1>1. ASSUME UNCHANGED <<rings, buffer>>,
             at' \notin AgentPlaces \cup {"run"} \/ (at' = "agent" /\ n' = 0)
      PROVE  AddressesInv'
  <2>1. \A a, d \in Devices : ~ HasOutput(a, d)' /\ ~ HasBuffer(a)'
    BY <1>0, <1>1 DEF HasOutput, IsOutput, HasBuffer, AgentPlaces, OutputPlaces, InputPlaces
  <2>2. at' \notin OutputPlaces
    BY <1>1 DEF AgentPlaces, OutputPlaces
  <2> QED
    BY <1>1, <2>1, <2>2 DEF AddressesInv, BuffersOK, RingsDiffer
<1>2. CASE UNCHANGED setupVars
  <2>1. UNCHANGED <<at, n, m, heap, rings, buffer>>
    BY <1>2 DEF setupVars, agents
  <2>2. /\ \A a, d \in Devices : HasOutput(a, d)' => HasOutput(a, d)
        /\ \A a \in Devices : HasBuffer(a)' => HasBuffer(a)
    BY <2>1 DEF HasOutput, IsOutput, HasBuffer
  <2> QED
    BY <2>1, <2>2, AddressesStay
<1>3. CASE OsFails \/ WrongDevice \/ WrongEeprom \/ GivesUp
  <2>1. at' = "fatal" /\ UNCHANGED <<rings, buffer>>
    BY <1>3 DEF OsFails, WrongDevice, WrongEeprom, GivesUp, TimesOut, Fatal, agents
  <2> QED
    BY <1>1, <2>1 DEF AgentPlaces, OutputPlaces, InputPlaces
<1>4. CASE OsInit \/ NfInit \/ AllocateDevices
  <2>1. UNCHANGED <<rings, buffer>> /\ at' \in {"nf_init", "allocate", "pci", "halt", "exit"}
    BY <1>4 DEF OsInit, NfInit, AllocateDevices, Allocated, agents
  <2> QED
    BY <1>1, <2>1 DEF AgentPlaces, OutputPlaces, InputPlaces
<1>5. ASSUME NEW p, NEW asked, NEW fl, Handled(p, asked, fl)
      PROVE  AddressesInv'
  BY <1>2, <1>5 DEF Handled
<1>6. CASE PciSetup \/ DisableReceive \/ ReceiveDisabled \/ MasterDisable \/ MasterDisabled
           \/ MasterTimesOut \/ NothingPending \/ Flush \/ Reset \/ EepromRead \/ Configure
  <2>1. UNCHANGED <<rings, buffer>> /\ at' \in DevicePlaces
    <3>1. CASE PciSetup \/ DisableReceive \/ ReceiveDisabled \/ MasterDisable
      BY <3>1 DEF PciSetup, DisableReceive, ReceiveDisabled, MasterDisable, Do, Goto, agents,
                  DevicePlaces
    <3>2. CASE MasterDisabled \/ MasterTimesOut \/ NothingPending
      BY <3>2 DEF MasterDisabled, MasterTimesOut, NothingPending, Goto, agents, DevicePlaces
    <3>3. CASE Flush \/ Reset \/ EepromRead \/ Configure
      BY <3>3 DEF Flush, Reset, EepromRead, Configure, Do, Goto, agents, DevicePlaces
    <3> QED
      BY <1>6, <3>1, <3>2, <3>3
  <2> QED
    BY <1>1, <2>1 DEF DevicePlaces, AgentPlaces, OutputPlaces, InputPlaces
<1>7. CASE SetPromiscuous
  <2>1. /\ UNCHANGED <<rings, buffer>> /\ at' \in {"pci", "agent", "halt"}
        /\ at' = "agent" => n' = 0
    BY <1>7 DEF SetPromiscuous, Allocated, agents
  <2> QED
    BY <1>1, <2>1 DEF AgentPlaces, OutputPlaces, InputPlaces
<1>8. CASE Agent
  <2>1. CASE at' # "output"
    <3>1. UNCHANGED <<rings, buffer>> /\ at' \in {"fatal", "halt"}
      BY <1>8, <2>1 DEF Agent, Allocated, Fatal, agents
    <3> QED
      BY <1>1, <3>1 DEF AgentPlaces, OutputPlaces, InputPlaces
  <2> QED
    BY <1>8, <2>1, AgentAddresses
<1>9. CASE SkipInput \/ OutputEnabled
  <2>1. /\ UNCHANGED <<n, heap, rings, buffer>>
        /\ \/ at = "output" /\ m = n
           \/ at = "await_output"
        /\ m' = m + 1 /\ at' = IF m' = DevicesCount THEN "input" ELSE "output"
    BY <1>9 DEF SkipInput, OutputEnabled, Goto, agents
  <2>2. ASSUME NEW a \in Devices, NEW d \in Devices, a # d, HasOutput(a, d)'
        PROVE  HasOutput(a, d)
    <3>1. at \in OutputPlaces => m < DevicesCount
      BY DEF LoopsOK
    <3> QED
      BY <1>0, <2>1, <2>2, <3>1 DEF HasOutput, IsOutput, AgentPlaces, OutputPlaces, InputPlaces
  <2>3. \A a \in Devices : HasBuffer(a)' => HasBuffer(a)
    BY <2>1 DEF HasBuffer, AgentPlaces, OutputPlaces, InputPlaces
  <2> QED
    BY <2>1, <2>2, <2>3, AddressesStay DEF OutputPlaces
<1>10. CASE AddOutput
  <2>1. CASE at' # "await_output"
    <3>1. UNCHANGED <<rings, buffer>> /\ at' \in {"fatal", "halt"}
      BY <1>10, <2>1 DEF AddOutput, Allocated, Fatal, Do, agents
    <3> QED
      BY <1>1, <3>1 DEF AgentPlaces, OutputPlaces, InputPlaces
  <2> QED
    BY <1>10, <2>1, OutputAddresses
<1>11. CASE SetInput \/ InputEnabled \/ DataPathEmpty
  <2>1. /\ UNCHANGED <<n, m, heap, rings, buffer>> /\ at \in InputPlaces
        /\ at' \in InputPlaces \cup {"fatal"}
    BY <1>11 DEF SetInput, InputEnabled, DataPathEmpty, Fatal, Do, agents, InputPlaces
  <2>2. /\ \A a, d \in Devices : HasOutput(a, d)' => HasOutput(a, d)
        /\ \A a \in Devices : HasBuffer(a)' => HasBuffer(a)
    BY <2>1 DEF HasOutput, IsOutput, HasBuffer, AgentPlaces, OutputPlaces, InputPlaces
  <2> QED
    BY <2>1, <2>2, AddressesStay DEF OutputPlaces, InputPlaces
<1>12. CASE FinishInput
  <2>1. /\ UNCHANGED <<heap, rings, buffer>> /\ at = "finish_input"
        /\ n' = (n + 1) % DevicesCount /\ at' = (IF n' = 0 THEN "run" ELSE "agent")
    BY <1>12 DEF FinishInput, Do, agents
  <2>2. /\ n + 1 = DevicesCount => at' = "run"
        /\ n + 1 # DevicesCount => at' = "agent" /\ n' = n + 1
    BY <1>0, <2>1, NextDevice
  <2>3. ASSUME NEW a \in Devices, NEW d \in Devices
        PROVE  (HasOutput(a, d)' => HasOutput(a, d)) /\ (HasBuffer(a)' => HasBuffer(a))
    BY <1>0, <2>1, <2>2 DEF HasOutput, IsOutput, HasBuffer, AgentPlaces, OutputPlaces, InputPlaces
  <2> QED
    BY <2>1, <2>3, AddressesStay DEF OutputPlaces
<1>13. ASSUME NEW d \in Devices, HardwareCompletes(d)
       PROVE  AddressesInv'
  <2>1. UNCHANGED <<at, n, m, heap, rings, buffer>>
    BY <1>13 DEF HardwareCompletes, agents
  <2>2. /\ \A a, b \in Devices : HasOutput(a, b)' => HasOutput(a, b)
        /\ \A a \in Devices : HasBuffer(a)' => HasBuffer(a)
    BY <2>1 DEF HasOutput, IsOutput, HasBuffer
  <2> QED
    BY <2>1, <2>2, AddressesStay
<1>14. CASE SetupNext
  BY <1>3, <1>6, <1>7, <1>8, <1>9, <1>10, <1>11, <1>12, <1>13, <1>14 DEF SetupNext
<1>15. CASE Undefined
  BY <1>1, <1>15 DEF Undefined, agents, AgentPlaces, OutputPlaces, InputPlaces
<1> QED
  BY <1>2, <1>3, <1>4, <1>5, <1>14, <1>15, NextSteps DEF vars

\* Agents share no buffers and outputs no rings, and for an odd number of
\* devices a card takes the whole address of each ring.
LEMMA AddressesInvariant == Spec => []AddressesInv
<1>1. Init => AddressesInv
  <2> SUFFICES ASSUME Init PROVE AddressesInv
    OBVIOUS
  <2>1. at = "os_init" /\ buffer = [a \in Devices |-> 0]
    BY DEF Init, InitDevices
  <2>2. \A a, d \in Devices : ~ HasOutput(a, d) /\ ~ HasBuffer(a)
    BY <2>1 DEF HasOutput, IsOutput, HasBuffer, AgentPlaces, OutputPlaces, InputPlaces
  <2> QED
    BY <2>1, <2>2 DEF AddressesInv, BuffersOK, RingsDiffer, OutputPlaces
<1>2. AddressesInv /\ SetupInv /\ WiringInv /\ HeapInv /\ [Next]_vars => AddressesInv'
  BY AddressesNext DEF SetupInv, WiringInv
<1> QED
  BY <1>1, <1>2, WiringInvariant, HeapInvariant, SetupInvariant, PTL DEF Spec
-----------------------------------------------------------------------------
(* What the queues are made of.                                            *)

\* The registers that wire a device to its agents.
QueueRegisters == {"TDBA", "TDWBA", "TDWBAL.Head_WB_En", "TXDCTL.ENABLE"}
WiringFields   == QueueRegisters \cup {"DMATXCTL.TE", "RDBA", "RXCTRL.RXEN"}

\* They are there, one for each queue if they are about queues.
LEMMA WiringRegisters ==
  /\ WiringFields \subseteq Fields
  /\ \A f \in QueueRegisters : DOMAIN PowerOn[f] = 0 .. TransmitQueuesCount - 1
  /\ \A f \in Fields : 0 \in DOMAIN PowerOn[f]
<1>1. /\ {Row("TDBA", TransmitQueuesCount, X), Row("TDWBA", TransmitQueuesCount, 0),
          Row("TDWBAL.Head_WB_En", TransmitQueuesCount, 0), Row("DMATXCTL.TE", 1, 0)}
           \subseteq DeviceTable
  BY DEF DeviceTable, TransmitQueueReset
<1>2. \A f, count, value : /\ Row(f, count, value).field = f
                           /\ Row(f, count, value).count = count
                           /\ Row(f, count, value).value = value
  BY DEF Row
<1>3. ASSUME NEW f, NEW count, NEW value, Row(f, count, value) \in DeviceTable
      PROVE  f \in Fields /\ DOMAIN PowerOn[f] = 0 .. count - 1
  <2>1. DeviceTable \subseteq AllRows
    BY DEF AllRows
  <2>2. f \in DOMAIN DeviceReset /\ DeviceReset[f] = [i \in 0 .. count - 1 |-> value]
    BY <1>2, <1>3, <2>1, TableRegisters DEF DeviceReset
  <2> QED
    BY <2>2, RegisterShapes
<1>4. "TDBA" \in Fields /\ DOMAIN PowerOn["TDBA"] = 0 .. TransmitQueuesCount - 1
  <2>1. Row("TDBA", TransmitQueuesCount, X) \in DeviceTable
    BY <1>1
  <2> QED
    BY <1>3, <2>1
<1>5. "TDWBA" \in Fields /\ DOMAIN PowerOn["TDWBA"] = 0 .. TransmitQueuesCount - 1
  <2>1. Row("TDWBA", TransmitQueuesCount, 0) \in DeviceTable
    BY <1>1
  <2> QED
    BY <1>3, <2>1
<1>6. /\ "TDWBAL.Head_WB_En" \in Fields
      /\ DOMAIN PowerOn["TDWBAL.Head_WB_En"] = 0 .. TransmitQueuesCount - 1
  <2>1. Row("TDWBAL.Head_WB_En", TransmitQueuesCount, 0) \in DeviceTable
    BY <1>1
  <2> QED
    BY <1>3, <2>1
<1>7. "DMATXCTL.TE" \in Fields
  <2>1. Row("DMATXCTL.TE", 1, 0) \in DeviceTable
    BY <1>1
  <2> QED
    BY <1>3, <2>1
<1>8. /\ "TXDCTL.ENABLE" \in Fields /\ "RDBA" \in Fields /\ "RXCTRL.RXEN" \in Fields
      /\ DOMAIN PowerOn["TXDCTL.ENABLE"] = 0 .. TransmitQueuesCount - 1
      /\ \A f \in Fields : 0 \in DOMAIN PowerOn[f]
  BY WatchedFields DEF ReceiveFields
<1> QED
  BY <1>4, <1>5, <1>6, <1>7, <1>8 DEF WiringFields, QueueRegisters

\* The writes of a sequence.
Writes(ws, S) ==
  /\ Len(ws) \in Nat
  /\ \A k \in 1 .. Len(ws) : ws[k] \in S
  /\ \A w \in S : \E k \in 1 .. Len(ws) : ws[k] = w

\* A write leaves v in a register that has it, or puts it there.
Keeps(w, f, i, v) ==
  /\ w.field # "CTRL.RST"
  /\ w.field = "DMATXCTL.TE" /\ w.value = 1 =>
       w.index = 0 /\ (f \in {"DMATXCTL.TE", "TXDCTL.ENABLE"} /\ i = 0 => v = 1)
  /\ w.field = f /\ w.index = i => f \in Delayed \/ Kept(w) = v

Sets(w, f, i, v) == w.field = f /\ w.index = i /\ f \notin Delayed /\ Kept(w) = v

\* One write.
LEMMA WriteKeeps ==
  ASSUME NEW e, IsDevice(e), NEW f \in Fields, NEW i \in DOMAIN PowerOn[f], NEW v,
         NEW w, Keeps(w, f, i, v), e.regs[f][i] = v \/ Sets(w, f, i, v)
  PROVE  WriteTo(e, w).regs[f][i] = v
<1>1. ~ Is(w, "CTRL.RST", 1)
  BY DEF Keeps, Is
<1>2. WriteTo(e, w).regs[f][i] = ValueAfter(e.regs, w, f, i)
  BY <1>1, AfterWrite
<1>3. ValueAfter(e.regs, w, f, i) = v
  BY DEF ValueAfter, Keeps, Sets, Is
<1> QED
  BY <1>2, <1>3

\* A register has v after writes that put it there, or that leave it there.
LEMMA WritesKeep ==
  ASSUME NEW e, IsDevice(e), NEW f \in Fields, NEW i \in DOMAIN PowerOn[f], NEW v,
         NEW ws, NEW S, Writes(ws, S), \A w \in S : Keeps(w, f, i, v),
         e.regs[f][i] = v \/ \E w \in S : Sets(w, f, i, v)
  PROVE  IsDevice(WriteAll(e, ws)) /\ WriteAll(e, ws).regs[f][i] = v
<1>0. Len(ws) \in Nat /\ \A k \in 1 .. Len(ws) : Keeps(ws[k], f, i, v)
  BY DEF Writes
<1>1. PICK G : Writing(G, e, ws, Len(ws)) /\ WriteAll(e, ws) = G[Len(ws)]
  BY <1>0, WriteAllWrites
<1> DEFINE Had(k) == e.regs[f][i] = v \/ \E j \in 1 .. k : Sets(ws[j], f, i, v)
           Good(k) == IsDevice(G[k]) /\ (Had(k) => G[k].regs[f][i] = v)
           Bad == {k \in 0 .. Len(ws) : ~ Good(k)}
<1>2. Bad = {}
  <2> SUFFICES ASSUME Bad # {} PROVE FALSE
    OBVIOUS
  <2>1. Bad \subseteq Nat
    BY <1>0
  <2>2. PICK k \in Bad : \A j \in Bad : k <= j
    <3> HIDE DEF Bad
    <3> QED
      BY <2>1, LeastNatural
  <2>3. k # 0
    <3>1. Had(0) => e.regs[f][i] = v
      OBVIOUS
    <3> HIDE DEF Had
    <3>2. Good(0)
      BY <1>1, <3>1 DEF Writing
    <3> QED
      BY <2>2, <3>2
  <2>4. k \in 1 .. Len(ws) /\ k - 1 \in 0 .. Len(ws) /\ Good(k - 1)
    <3> HIDE DEF Good
    <3> QED
      BY <1>0, <2>2, <2>3
  <2>5. Had(k) => Had(k - 1) \/ Sets(ws[k], f, i, v)
    BY <1>0, <2>4
  <2>6. G[k] = WriteTo(G[k - 1], ws[k]) /\ Keeps(ws[k], f, i, v) /\ IsDevice(G[k - 1])
    BY <1>0, <1>1, <2>4 DEF Writing
  <2> HIDE DEF Had
  <2>7. IsDevice(G[k])
    <3>1. ~ Is(ws[k], "CTRL.RST", 1)
      BY <2>6 DEF Keeps, Is
    <3> QED
      BY <2>6, <3>1, AfterWrite
  <2>8. Had(k) => G[k].regs[f][i] = v
    <3>1. Had(k) => G[k - 1].regs[f][i] = v \/ Sets(ws[k], f, i, v)
      BY <2>4, <2>5
    <3> QED
      BY <2>6, <3>1, WriteKeeps
  <2> QED
    BY <2>2, <2>7, <2>8
<1>3. Had(Len(ws))
  BY DEF Writes
<1> HIDE DEF Had
<1> QED
  BY <1>0, <1>1, <1>2, <1>3

\* What the hardware has to do after a write, and after a sequence of them.
LEMMA DueIn ==
  ASSUME NEW w, NEW c \in Due(w)
  PROVE  c.field \in DueFields /\ (c.field = "TXDCTL.ENABLE" => c = w)
<1>1. \/ c \in {Change("EEC.Auto_RD", 0, 1), Change("RDRXCTL.DMAIDONE", 0, 1),
                Change("STATUS.PCIe_Master_Enable_Status", 0, 0),
                Change("DEVICE_STATUS.Transaction_Pending", 0, 0),
                Change("SECRXSTAT.SECRX_RDY", 0, 1)}
      \/ c = w /\ w.field \in Delayed
  BY DEF Due
<1> QED
  BY <1>1 DEF DueFields, Change, Delayed

LEMMA DueAfter ==
  ASSUME NEW e, NEW ws, Len(ws) \in Nat
  PROVE  \A c \in WriteAll(e, ws).due :
           c \in e.due \/ \E k \in 1 .. Len(ws) : c \in Due(ws[k])
<1>1. PICK G : Writing(G, e, ws, Len(ws)) /\ WriteAll(e, ws) = G[Len(ws)]
  BY WriteAllWrites
<1> DEFINE Good(k) == \A c \in G[k].due : c \in e.due \/ \E j \in 1 .. Len(ws) : c \in Due(ws[j])
           Bad == {k \in 0 .. Len(ws) : ~ Good(k)}
<1>2. Bad = {}
  <2> SUFFICES ASSUME Bad # {} PROVE FALSE
    OBVIOUS
  <2>1. Bad \subseteq Nat
    OBVIOUS
  <2>2. PICK k \in Bad : \A j \in Bad : k <= j
    <3> HIDE DEF Bad
    <3> QED
      BY <2>1, LeastNatural
  <2>3. k # 0
    BY <1>1 DEF Writing
  <2>4. k \in 1 .. Len(ws) /\ k - 1 \in 0 .. Len(ws) /\ Good(k - 1)
    <3> HIDE DEF Good
    <3> QED
      BY <2>2, <2>3
  <2>5. G[k] = WriteTo(G[k - 1], ws[k])
    BY <1>1, <2>4 DEF Writing
  <2>6. \A c \in G[k].due : c \in G[k - 1].due \/ c \in Due(ws[k])
    BY <2>5 DEF WriteTo
  <2> QED
    BY <2>2, <2>4, <2>6
<1> QED
  BY <1>1, <1>2

\* So the hardware has nothing else to do than before, or what is DueFields.
LEMMA DuesKept ==
  ASSUME NEW e, DuesOK(e), NEW ws, Len(ws) \in Nat
  PROVE  DuesOK(WriteAll(e, ws))
BY DueAfter, DueIn DEF DuesOK

\* A write that does not change queue q, which may be enabled.
SparesQueue(w, q) ==
  /\ w.field # "CTRL.RST"
  /\ w.field \in {"TDBA", "TDWBA", "TDWBAL.Head_WB_En"} => w.index # q
  /\ w.field = "DMATXCTL.TE" => w.value = 1 /\ w.index = 0
  /\ w.field = "TXDCTL.ENABLE" => w.value = 1

\* What is right about queue q stays right.
SameQueue(e, g, q) ==
  /\ \A ring, head : IsQueueOf(e, q, ring, head) => IsQueueOf(g, q, ring, head)
  /\ q < TransmitQueuesCount /\ SendsOn(e, q) => SendsOn(g, q)

\* Writes that do not change queue q leave it as it is.
LEMMA QueueSpared ==
  ASSUME NEW e, IsDevice(e), NEW ws, NEW S, Writes(ws, S), NEW q \in Nat,
         \A w \in S : SparesQueue(w, q)
  PROVE  SameQueue(e, WriteAll(e, ws), q)
<1> DEFINE g == WriteAll(e, ws)
<1>0. TransmitQueuesCount \in Nat
  BY QueuesAssumption
<1>1. \A w \in S : w.field = "DMATXCTL.TE" => Kept(w) = 1
  BY DEF SparesQueue, Kept
<1>2. ASSUME NEW f \in {"TDBA", "TDWBA", "TDWBAL.Head_WB_En"}, q < TransmitQueuesCount
      PROVE  g.regs[f][q] = e.regs[f][q]
  <2>1. f \in Fields /\ q \in DOMAIN PowerOn[f]
    BY <1>0, <1>2, WiringRegisters DEF WiringFields, QueueRegisters
  <2>2. \A w \in S : Keeps(w, f, q, e.regs[f][q])
    BY DEF SparesQueue, Keeps
  <2> QED
    BY <2>1, <2>2, WritesKeep
<1>3. ASSUME e.regs["DMATXCTL.TE"][0] = 1
      PROVE  g.regs["DMATXCTL.TE"][0] = 1
  <2>1. "DMATXCTL.TE" \in Fields /\ 0 \in DOMAIN PowerOn["DMATXCTL.TE"]
    BY WiringRegisters DEF WiringFields
  <2>2. \A w \in S : Keeps(w, "DMATXCTL.TE", 0, 1)
    BY <1>1 DEF SparesQueue, Keeps
  <2> QED
    BY <1>3, <2>1, <2>2, WritesKeep
<1>4. ASSUME q < TransmitQueuesCount, SendsOn(e, q)
      PROVE  SendsOn(g, q)
  <2>1. "TXDCTL.ENABLE" \in Fields /\ q \in DOMAIN PowerOn["TXDCTL.ENABLE"]
    BY <1>0, <1>4, WiringRegisters DEF WiringFields, QueueRegisters
  <2>2. \A w \in S : Keeps(w, "TXDCTL.ENABLE", q, 1)
    BY DEF SparesQueue, Keeps, Delayed
  <2>3. e.regs["TXDCTL.ENABLE"][q] = 1
    BY <1>4 DEF SendsOn
  <2>4. g.regs["TXDCTL.ENABLE"][q] = 1
    BY <2>1, <2>2, <2>3, WritesKeep
  <2> QED
    BY <2>4 DEF SendsOn
<1>5. \A c \in g.due : c.field = "TXDCTL.ENABLE" => c \in e.due \/ c.value = 1
  <2>1. \A c \in g.due : c \in e.due \/ \E w \in S : c \in Due(w)
    BY DueAfter DEF Writes
  <2>2. \A w \in S : \A c \in Due(w) : c.field = "TXDCTL.ENABLE" => c = w
    BY DueIn
  <2> HIDE DEF g
  <2> QED
    BY <2>1, <2>2 DEF SparesQueue
<1> HIDE DEF g
<1>6. ASSUME NEW ring, NEW head, IsQueueOf(e, q, ring, head)
      PROVE  IsQueueOf(g, q, ring, head)
  <2>1. q < TransmitQueuesCount
    BY <1>6 DEF IsQueueOf
  <2>2. /\ g.regs["TDBA"][q] = e.regs["TDBA"][q]
        /\ g.regs["TDWBA"][q] = e.regs["TDWBA"][q]
        /\ g.regs["TDWBAL.Head_WB_En"][q] = e.regs["TDWBAL.Head_WB_En"][q]
    BY <1>2, <2>1
  <2>3. g.regs["DMATXCTL.TE"][0] = 1
    BY <1>3, <1>6 DEF IsQueueOf
  <2> QED
    BY <1>5, <1>6, <2>1, <2>2, <2>3 DEF IsQueueOf
<1> QED
  BY <1>4, <1>6 DEF SameQueue, g

\* Writes for an input leave the transmit queues as they are.
InputWrite(w) == w.field \notin QueueRegisters \cup {"DMATXCTL.TE", "CTRL.RST"}

LEMMA InputSpares ==
  ASSUME NEW e, IsDevice(e), NEW ws, NEW S, Writes(ws, S), \A w \in S : InputWrite(w),
         NEW g, g = WriteAll(e, ws)
  PROVE  /\ \A q \in Nat : SameQueue(e, g, q)
         /\ g.regs["DMATXCTL.TE"][0] = e.regs["DMATXCTL.TE"][0]
         /\ \A f \in {"RDBA", "RXCTRL.RXEN"} :
              /\ (\A w \in S : w.field # f) => g.regs[f][0] = e.regs[f][0]
              /\ \A v : (\E w \in S : Sets(w, f, 0, v)) /\ (\A w \in S : w.field = f => Kept(w) = v)
                         => g.regs[f][0] = v
<1>1. \A w \in S : /\ w.field # "CTRL.RST" /\ w.field # "DMATXCTL.TE"
                   /\ \A q : SparesQueue(w, q)
  BY DEF InputWrite, SparesQueue, QueueRegisters
<1>2. \A q \in Nat : SameQueue(e, g, q)
  BY <1>1, QueueSpared
<1>3. ASSUME NEW f \in {"DMATXCTL.TE", "RDBA", "RXCTRL.RXEN"}, NEW v,
             \A w \in S : w.field = f => Kept(w) = v,
             e.regs[f][0] = v \/ \E w \in S : Sets(w, f, 0, v)
      PROVE  g.regs[f][0] = v
  <2>1. f \in Fields /\ 0 \in DOMAIN PowerOn[f]
    BY WiringRegisters DEF WiringFields
  <2>2. \A w \in S : Keeps(w, f, 0, v)
    BY <1>1, <1>3 DEF Keeps
  <2> QED
    BY <1>3, <2>1, <2>2, WritesKeep
<1>4. ASSUME NEW f \in {"DMATXCTL.TE", "RDBA", "RXCTRL.RXEN"}, \A w \in S : w.field # f
      PROVE  g.regs[f][0] = e.regs[f][0]
  BY <1>3, <1>4
<1>5. g.regs["DMATXCTL.TE"][0] = e.regs["DMATXCTL.TE"][0]
  BY <1>1, <1>4
<1>6. ASSUME NEW f \in {"RDBA", "RXCTRL.RXEN"}, NEW v, \E w \in S : Sets(w, f, 0, v),
             \A w \in S : w.field = f => Kept(w) = v
      PROVE  g.regs[f][0] = v
  BY <1>3, <1>6
<1> QED
  BY <1>2, <1>4, <1>5, <1>6

\* Short sequences of writes.
LEMMA WritesAre ==
  ASSUME NEW a, NEW b, NEW c, NEW d, NEW e
  PROVE  /\ Writes(<<a>>, {a}) /\ Writes(<<a, b>>, {a, b}) /\ Writes(<<a, b, c>>, {a, b, c})
         /\ Writes(<<a, b, c, d, e>>, {a, b, c, d, e})
<1>1. Writes(<<a>>, {a})
  BY DEF Writes
<1>2. Writes(<<a, b>>, {a, b})
  BY DEF Writes
<1>3. Writes(<<a, b, c>>, {a, b, c})
  BY DEF Writes
<1>4. Writes(<<a, b, c, d, e>>, {a, b, c, d, e})
  BY DEF Writes
<1> QED
  BY <1>1, <1>2, <1>3, <1>4

\* What the hardware completes is not wiring, but for queues that it enables.
LEMMA CompletionSpares ==
  ASSUME NEW e, IsDevice(e), DuesOK(e), NEW w \in e.due, NEW g, g = Completed(e, w)
  PROVE  /\ DuesOK(g)
         /\ \A f \in WiringFields \ {"TXDCTL.ENABLE"} : \A i \in DOMAIN PowerOn[f] :
              g.regs[f][i] = e.regs[f][i]
         /\ \A q \in Nat : \A ring, head : IsQueueOf(e, q, ring, head) =>
              IsQueueOf(g, q, ring, head) /\ (SendsOn(e, q) => SendsOn(g, q))
<1>0. TransmitQueuesCount \in Nat
  BY QueuesAssumption
<1>1. /\ g.due = e.due \ {w}
      /\ \A f \in Fields : \A i \in DOMAIN PowerOn[f] :
           g.regs[f][i] = ValueCompleted(e.regs, w, f, i)
  BY AfterCompletion
<1>2. w.field \in DueFields
  BY DEF DuesOK
<1>3. ASSUME NEW f \in WiringFields \ {"TXDCTL.ENABLE"}, NEW i \in DOMAIN PowerOn[f]
      PROVE  g.regs[f][i] = e.regs[f][i]
  <2>1. f # w.field /\ f \in Fields
    BY <1>2, WiringRegisters DEF DueFields, WiringFields, QueueRegisters, Delayed
  <2> QED
    BY <1>1, <2>1 DEF ValueCompleted
<1>4. ASSUME NEW q \in Nat, NEW ring, NEW head, IsQueueOf(e, q, ring, head)
      PROVE  IsQueueOf(g, q, ring, head) /\ (SendsOn(e, q) => SendsOn(g, q))
  <2>1. q \in 0 .. TransmitQueuesCount - 1 /\ q < TransmitQueuesCount
    BY <1>0, <1>4 DEF IsQueueOf
  <2>2. /\ g.regs["TDBA"][q] = e.regs["TDBA"][q]
        /\ g.regs["TDWBA"][q] = e.regs["TDWBA"][q]
        /\ g.regs["TDWBAL.Head_WB_En"][q] = e.regs["TDWBAL.Head_WB_En"][q]
        /\ g.regs["DMATXCTL.TE"][0] = e.regs["DMATXCTL.TE"][0]
    BY <1>3, <2>1, WiringRegisters DEF WiringFields, QueueRegisters
  <2>3. IsQueueOf(g, q, ring, head)
    BY <1>1, <1>4, <2>2 DEF IsQueueOf
  <2>4. g.regs["TXDCTL.ENABLE"][q] = ValueCompleted(e.regs, w, "TXDCTL.ENABLE", q)
    BY <1>1, <2>1, WiringRegisters DEF WiringFields, QueueRegisters
  <2>5. w.field = "TXDCTL.ENABLE" /\ w.index = q => w.value = 1
    BY <1>4 DEF IsQueueOf
  <2> QED
    BY <2>3, <2>4, <2>5 DEF SendsOn, ValueCompleted
<1>5. DuesOK(g)
  BY <1>1 DEF DuesOK
<1> QED
  BY <1>3, <1>4, <1>5

-----------------------------------------------------------------------------
(* The wiring of one device, from one step to the next.                    *)

\* Before there are agents, or once the driver stopped, nothing is wired.
LEMMA NothingWired ==
  ASSUME NEW d \in Devices, FlagsOK(d), DuesOK(dev'[d]),
         tx_enabled'[d] = tx_enabled[d], rx_enabled'[d] = rx_enabled[d],
         \/ at' \in Stopped
         \/ at \in BeforeDevices \cup DevicePlaces /\ at' \in BeforeDevices \cup DevicePlaces
         \/ at \in DevicePlaces /\ at' = "agent" /\ n' = 0
  PROVE  IsWired(d)'
<1>1. \A a \in Devices : a >= 0
  BY DevicesAssumption DEF Devices
<1>2. /\ \A a \in Devices : ~ HasOutput(a, d)' /\ ~ IsOutput(a, d)'
      /\ ~ HasQueue(d)' /\ ~ MayReceive(d)'
  <2>1. \/ at' \notin AgentPlaces \cup {"run"}
        \/ at' = "agent" /\ n' = 0
    BY DEF Stopped, BeforeDevices, DevicePlaces, AgentPlaces, OutputPlaces, InputPlaces
  <2>2. CASE at' \notin AgentPlaces \cup {"run"}
    BY <2>2 DEF HasOutput, IsOutput, HasQueue, MayReceive, HasInput, AgentPlaces, OutputPlaces,
                InputPlaces
  <2>3. CASE at' = "agent" /\ n' = 0
    <3>1. \A a \in Devices : ~ (a < n')
      BY <1>1, <2>3, DevicesAssumption DEF Devices
    <3>2. at' = "agent"
      BY <2>3
    <3> QED
      BY <3>1, <3>2 DEF HasOutput, IsOutput, HasQueue, MayReceive, HasInput, OutputPlaces,
                        InputPlaces
  <2> QED
    BY <2>1, <2>2, <2>3
<1>3. FlagsOK(d)'
  BY DEF FlagsOK, Stopped, BeforeDevices, DevicePlaces, AgentPlaces, OutputPlaces, InputPlaces
<1> QED
  BY <1>2, <1>3 DEF IsWired, QueueOK, InputOK

\* The queue that agent a has of device d, if it had it.
StaysQueue(a, d) ==
  HasOutput(a, d)' =>
    /\ HasOutput(a, d) /\ SameQueue(dev[d], dev'[d], QueueIndex(a, d))
    /\ RingOf(a, d)' = RingOf(a, d) /\ transmit_heads'[a] = transmit_heads[a]
    /\ IsOutput(a, d)' => IsOutput(a, d) \/ SendsOn(dev'[d], QueueIndex(a, d))

LEMMA QueueKept ==
  ASSUME NEW d \in Devices, NEW a \in Devices \ {d}, QueueOK(a, d), StaysQueue(a, d)
  PROVE  QueueOK(a, d)'
<1> DEFINE q == QueueIndex(a, d)
           head == HeadAddr(a, TrueIndex(a, d))
           ring == RingOf(a, d)
<1>1. ASSUME HasOutput(a, d)'
      PROVE  IsQueueOf(dev[d], q, ring.addr, head) /\ IsQueueOf(dev'[d], q, ring.addr, head)
  BY <1>1 DEF QueueOK, StaysQueue, SameQueue
<1>2. ASSUME HasOutput(a, d)'
      PROVE  /\ HeadAddr(a, TrueIndex(a, d))' = HeadAddr(a, TrueIndex(a, d))
             /\ RingOf(a, d)' = RingOf(a, d)
  BY <1>2 DEF StaysQueue, HeadAddr, os_memory_virt_to_phys, Frame
<1>3. IsOutput(a, d)' => HasOutput(a, d)'
  BY DEF HasOutput
<1>4. ASSUME IsOutput(a, d)'
      PROVE  SendsOn(dev'[d], q)
  <2>1. q < TransmitQueuesCount
    BY <1>1, <1>3, <1>4 DEF IsQueueOf
  <2> QED
    BY <1>3, <1>4, <2>1 DEF QueueOK, StaysQueue, SameQueue
<1> QED
  BY <1>1, <1>2, <1>4 DEF QueueOK

\* What else stays as it is in a device that is wired.
StaysFlagged(d) ==
  /\ \/ at' = at
     \/ at \in AgentPlaces /\ at' \in AgentPlaces \cup {"run"}
  /\ tx_enabled'[d] = tx_enabled[d] /\ rx_enabled'[d] = rx_enabled[d]
  /\ dev[d].regs["DMATXCTL.TE"][0] = 1 => dev'[d].regs["DMATXCTL.TE"][0] = 1
  /\ MayReceive(d) => MayReceive(d)'

StaysInput(d) ==
  /\ HasQueue(d)' => HasQueue(d) /\ rings'[d][0].addr = rings[d][0].addr
  /\ MayReceive(d)' => MayReceive(d)
  /\ \A f \in {"RDBA", "RXCTRL.RXEN"} : dev'[d].regs[f][0] = dev[d].regs[f][0]

LEMMA FlagsKept ==
  ASSUME NEW d \in Devices, FlagsOK(d), StaysFlagged(d)
  PROVE  FlagsOK(d)'
BY DEF FlagsOK, StaysFlagged, BeforeDevices, DevicePlaces, AgentPlaces, OutputPlaces, InputPlaces

LEMMA InputKept ==
  ASSUME NEW d \in Devices, InputOK(d), StaysInput(d)
  PROVE  InputOK(d)'
BY DEF InputOK, StaysInput

LEMMA WiredKept ==
  ASSUME NEW d \in Devices, IsWired(d), DuesOK(dev'[d]), StaysFlagged(d), StaysInput(d),
         \A a \in Devices \ {d} : StaysQueue(a, d)
  PROVE  IsWired(d)'
BY QueueKept, FlagsKept, InputKept DEF IsWired

\* A device that nobody writes to.
LEMMA WiredAlone ==
  ASSUME NEW d \in Devices, IsWired(d), dev'[d] = dev[d],
         \/ at' = at
         \/ at \in AgentPlaces /\ at' \in AgentPlaces \cup {"run"},
         tx_enabled'[d] = tx_enabled[d], rx_enabled'[d] = rx_enabled[d],
         MayReceive(d)' <=> MayReceive(d),
         HasQueue(d)' => HasQueue(d) /\ rings'[d][0].addr = rings[d][0].addr,
         \A a \in Devices \ {d} : HasOutput(a, d)' =>
           /\ HasOutput(a, d)
           /\ RingOf(a, d)' = RingOf(a, d) /\ transmit_heads'[a] = transmit_heads[a]
           /\ IsOutput(a, d)' => IsOutput(a, d) \/ SendsOn(dev'[d], QueueIndex(a, d))
  PROVE  IsWired(d)'
<1>1. \A q : SameQueue(dev[d], dev'[d], q)
  BY DEF SameQueue
<1>2. \A a \in Devices \ {d} : StaysQueue(a, d)
  BY <1>1 DEF StaysQueue
<1>3. StaysFlagged(d) /\ StaysInput(d)
  BY DEF StaysFlagged, StaysInput
<1>4. DuesOK(dev'[d])
  BY DEF IsWired
<1> QED
  BY <1>2, <1>3, <1>4, WiredKept

\* A device that is set up is not wired yet.
LEMMA DeviceStepWires ==
  ASSUME QueuesInv, DevicesInv, at \in DevicePlaces,
         NEW e, DuesOK(e), NEW ws, Len(ws) \in Nat,
         dev' = [dev EXCEPT ![n] = WriteAll(e, ws)], UNCHANGED <<tx_enabled, rx_enabled>>,
         at' \in DevicePlaces \cup Stopped \/ (at' = "agent" /\ n' = 0)
  PROVE  QueuesInv'
<1> DEFINE g == WriteAll(e, ws)
<1>1. DuesOK(g)
  BY DuesKept
<1> HIDE DEF g
<1>2. ASSUME NEW d \in Devices
      PROVE  DuesOK(dev'[d]) /\ FlagsOK(d)
  <2>1. dev' = [dev EXCEPT ![n] = g]
    BY DEF g
  <2>2. dev'[d] = g \/ dev'[d] = dev[d]
    BY <2>1 DEF DevicesInv
  <2> QED
    BY <1>1, <2>2 DEF QueuesInv, IsWired
<1>3. \A d \in Devices : IsWired(d)'
  BY <1>2, NothingWired
<1> QED
  BY <1>3 DEF QueuesInv

\* Nor is one that is not written to.
LEMMA DeviceReadWires ==
  ASSUME QueuesInv, dev' = dev, UNCHANGED <<tx_enabled, rx_enabled>>,
         \/ at' \in Stopped
         \/ at \in BeforeDevices \cup DevicePlaces /\ at' \in BeforeDevices \cup DevicePlaces
  PROVE  QueuesInv'
<1>1. \A d \in Devices : FlagsOK(d) /\ DuesOK(dev'[d])
  BY DEF QueuesInv, IsWired
<1>2. \A d \in Devices : IsWired(d)'
  BY <1>1, NothingWired
<1> QED
  BY <1>2 DEF QueuesInv

\* The writes of a reset are a sequence.
LEMMA ResetLength ==
  Len(<< Change("CTRL.RST", 0, 1) >>
      \o Fill("EIMC.Interrupt_Mask", 0, TableSize - 1, AllBits)
      \o << Change("FCRTH.RTH", 0, Threshold) >>) \in Nat
<1> DEFINE F     == {"EIMC.Interrupt_Mask", "FCRTH.RTH"}
           G     == {"CTRL.RST", "EIMC.Interrupt_Mask", "FCRTH.RTH"}
           one   == << Change("CTRL.RST", 0, 1) >>
           two   == Fill("EIMC.Interrupt_Mask", 0, TableSize - 1, AllBits)
           three == << Change("FCRTH.RTH", 0, Threshold) >>
<1>1. AllBits \in Int /\ 0 \in Int /\ Threshold \in Int
  BY DEF AllBits, Threshold
<1>2. TableSize - 1 \in Int /\ TableSize - 1 >= 0 - 1
  BY TableAssumption
<1>3. AreHarmless(two, F)
  <2>1. \A r : \A i : Allowed(r, "EIMC.Interrupt_Mask", i, AllBits)
    BY DEF Allowed, init_sequence
  <2>2. "EIMC.Interrupt_Mask" \in F
    OBVIOUS
  <2> HIDE DEF F
  <2> QED
    BY <1>1, <1>2, <2>1, <2>2, HarmlessFill DEF SideFields
<1>4. two \in Seq(WriteType(F)) /\ F \subseteq G
  BY <1>3 DEF AreHarmless
<1>5. one \in Seq(WriteType(G)) /\ three \in Seq(WriteType(G))
  BY <1>1 DEF WriteType, Change
<1> HIDE DEF one, two, three, F, G
<1>6. two \in Seq(WriteType(G))
  BY <1>4, WritesWiden
<1>7. one \o two \in Seq(WriteType(G))
  BY <1>5, <1>6
<1>8. (one \o two) \o three \in Seq(WriteType(G))
  BY <1>5, <1>7
<1>9. Len((one \o two) \o three) \in Nat
  BY <1>8
<1> QED
  BY <1>9 DEF one, two, three

\* tn_device_init and tn_device_set_promiscuous.
LEMMA DevicesNotWired ==
  ASSUME QueuesInv, DevicesInv, LoopsOK,
         \/ PciSetup \/ DisableReceive \/ MasterDisable \/ Flush \/ Reset \/ Configure
         \/ SetPromiscuous
  PROVE  QueuesInv'
<1>1. n \in Devices /\ DuesOK(dev[n])
  BY DEF LoopsOK, QueuesInv, IsWired
<1>2. CASE PciSetup
  <2> DEFINE ws == << Change("COMMAND.BME", 0, 1), Change("COMMAND.Mem_Access_En", 0, 1),
                      Change("COMMAND.Interrupt_Dis", 0, 1) >>
  <2>1. Len(ws) \in Nat
    OBVIOUS
  <2>2. PICK receives \in [0 .. ReceiveQueuesCount - 1 -> {0, 1}], rxen \in {0, 1},
             pending \in {0, 1} :
          dev' = [dev EXCEPT ![n] = WriteAll(LeftBehind(dev[n], receives, rxen, pending), ws)]
    BY <1>2 DEF PciSetup
  <2>3. DuesOK(LeftBehind(dev[n], receives, rxen, pending))
    BY <1>1 DEF LeftBehind, DuesOK
  <2>4. /\ at = "pci" /\ at' = "disable_receive" /\ UNCHANGED <<tx_enabled, rx_enabled>>
        /\ at \in DevicePlaces /\ at' \in DevicePlaces
    BY <1>2 DEF PciSetup, flags, DevicePlaces
  <2> HIDE DEF ws
  <2> QED
    BY <2>1, <2>2, <2>3, <2>4, DeviceStepWires
<1>3. CASE DisableReceive
  <2> DEFINE ws == << Change("RXDCTL.ENABLE", m, 0) >>
  <2>1. Len(ws) \in Nat
    OBVIOUS
  <2>2. /\ dev' = [dev EXCEPT ![n] = WriteAll(dev[n], ws)]
        /\ at \in DevicePlaces /\ at' \in DevicePlaces /\ UNCHANGED <<tx_enabled, rx_enabled>>
    BY <1>3 DEF DisableReceive, Do, flags, DevicePlaces
  <2> HIDE DEF ws
  <2> QED
    BY <1>1, <2>1, <2>2, DeviceStepWires
<1>4. CASE MasterDisable
  <2> DEFINE ws == << Change("CTRL.PCIe_Master_Disable", 0, 1) >>
  <2>1. Len(ws) \in Nat
    OBVIOUS
  <2>2. /\ dev' = [dev EXCEPT ![n] = WriteAll(dev[n], ws)]
        /\ at \in DevicePlaces /\ at' \in DevicePlaces /\ UNCHANGED <<tx_enabled, rx_enabled>>
    BY <1>4 DEF MasterDisable, Do, flags, DevicePlaces
  <2> HIDE DEF ws
  <2> QED
    BY <1>1, <2>1, <2>2, DeviceStepWires
<1>5. CASE Flush
  <2> DEFINE ws == << Change("HLREG0.LPBK", 0, 1), Change("RXCTRL.RXEN", 0, 0),
                      Change("GRC_EXT.Buffers_Clear_Func", 0, 1),
                      Change("HLREG0.LPBK", 0, 0),
                      Change("GRC_EXT.Buffers_Clear_Func", 0, 0),
                      Change("CTRL.RST", 0, 1) >>
  <2>1. Len(ws) \in Nat
    OBVIOUS
  <2>2. /\ dev' = [dev EXCEPT ![n] = WriteAll(dev[n], ws)]
        /\ at \in DevicePlaces /\ at' \in DevicePlaces /\ UNCHANGED <<tx_enabled, rx_enabled>>
    BY <1>5 DEF Flush, Do, flags, DevicePlaces
  <2> HIDE DEF ws
  <2> QED
    BY <1>1, <2>1, <2>2, DeviceStepWires
<1>6. CASE Reset
  <2> DEFINE ws == << Change("CTRL.RST", 0, 1) >>
                   \o Fill("EIMC.Interrupt_Mask", 0, TableSize - 1, AllBits)
                   \o << Change("FCRTH.RTH", 0, Threshold) >>
  <2>1. Len(ws) \in Nat
    BY ResetLength
  <2>2. /\ dev' = [dev EXCEPT ![n] = WriteAll(dev[n], ws)]
        /\ at \in DevicePlaces /\ at' \in DevicePlaces /\ UNCHANGED <<tx_enabled, rx_enabled>>
    BY <1>6 DEF Reset, Do, flags, DevicePlaces
  <2> HIDE DEF ws
  <2> QED
    BY <1>1, <2>1, <2>2, DeviceStepWires
<1>7. CASE Configure
  <2> DEFINE ws == ReceiveInit \o TransmitInit
  <2>1. Len(ws) \in Nat
    <3>1. ws \in Seq(WriteType(InitFields))
      BY InitHarmless DEF AreHarmless
    <3> HIDE DEF ws
    <3> QED
      BY <3>1
  <2>2. /\ dev' = [dev EXCEPT ![n] = WriteAll(dev[n], ws)]
        /\ at \in DevicePlaces /\ at' \in DevicePlaces /\ UNCHANGED <<tx_enabled, rx_enabled>>
    BY <1>7 DEF Configure, Do, flags, DevicePlaces
  <2> HIDE DEF ws
  <2> QED
    BY <1>1, <2>1, <2>2, DeviceStepWires
<1>8. CASE SetPromiscuous
  <2> DEFINE was == Field(n, "RXCTRL.RXEN", 0) = 1
             ws  == PromiscuousWrites(was)
  <2>1. Len(ws) \in Nat
    BY DEF PromiscuousWrites
  <2>2. /\ dev' = [dev EXCEPT ![n] = WriteAll(dev[n], ws)]
        /\ at \in DevicePlaces /\ UNCHANGED <<tx_enabled, rx_enabled>>
        /\ at' \in DevicePlaces \cup Stopped \/ (at' = "agent" /\ n' = 0)
    BY <1>8 DEF SetPromiscuous, Allocated, flags, DevicePlaces, Stopped
  <2> HIDE DEF ws
  <2> QED
    BY <1>1, <2>1, <2>2, DeviceStepWires
<1> QED
  BY <1>2, <1>3, <1>4, <1>5, <1>6, <1>7, <1>8

-----------------------------------------------------------------------------
(* Every step keeps the wiring.                                            *)

\* A step that has nothing to do with the wiring.
LEMMA WiringStays ==
  ASSUME QueuesInv,
         UNCHANGED <<at, n, m, dev, tx_enabled, rx_enabled, rings, transmit_heads>>
  PROVE  QueuesInv'
<1>1. ASSUME NEW d \in Devices
      PROVE  IsWired(d)'
  <2>1. /\ MayReceive(d)' <=> MayReceive(d)
        /\ HasQueue(d)' <=> HasQueue(d)
        /\ \A a \in Devices : /\ HasOutput(a, d)' <=> HasOutput(a, d)
                              /\ IsOutput(a, d)' <=> IsOutput(a, d)
                              /\ RingOf(a, d)' = RingOf(a, d)
    BY DEF MayReceive, HasQueue, HasInput, HasOutput, IsOutput, RingOf
  <2> QED
    BY <2>1, WiredAlone DEF QueuesInv
<1> QED
  BY <1>1 DEF QueuesInv

\* An agent is allocated.
LEMMA AgentWires ==
  ASSUME QueuesInv, LoopsOK, HeadsOK, Agent
  PROVE  QueuesInv'
<1>1. CASE at' # "output"
  <2>1. /\ at' \in Stopped /\ dev' = dev /\ UNCHANGED <<tx_enabled, rx_enabled>>
    BY <1>1 DEF Agent, Allocated, Fatal, flags, Stopped
  <2> QED
    BY <2>1, DeviceReadWires
<1>2. CASE at' = "output"
  <2>1. /\ at = "agent" /\ m' = 0
        /\ UNCHANGED <<n, dev, tx_enabled, rx_enabled, rings>>
        /\ \/ transmit_heads' = transmit_heads
           \/ \E v : transmit_heads' = [transmit_heads EXCEPT ![n] = v]
    BY <1>2 DEF Agent, Allocated, Fatal, flags
  <2>2. n \in Devices /\ DOMAIN transmit_heads = Devices
    BY DEF LoopsOK, HeadsOK
  <2>3. \A a \in Devices : a # n => transmit_heads'[a] = transmit_heads[a]
    BY <2>1, <2>2
  <2>4. \A d \in Devices : d >= 0
    BY DevicesAssumption DEF Devices
  <2>5. ASSUME NEW d \in Devices
        PROVE  IsWired(d)'
    <3>1. (MayReceive(d)' <=> MayReceive(d)) /\ (HasQueue(d)' <=> HasQueue(d))
      BY <1>2, <2>1 DEF MayReceive, HasQueue, HasInput, AgentPlaces, OutputPlaces, InputPlaces
    <3>2. ASSUME NEW a \in Devices, HasOutput(a, d)'
          PROVE  HasOutput(a, d) /\ IsOutput(a, d) /\ a # n
      <4>1. ~ (d < m')
        BY <2>1, <2>4, DevicesAssumption DEF Devices
      <4> QED
        BY <1>2, <2>1, <2>2, <3>2, <4>1, DevicesAssumption
           DEF HasOutput, IsOutput, AgentPlaces, OutputPlaces, InputPlaces, Devices
    <3>3. \A a \in Devices : RingOf(a, d)' = RingOf(a, d)
      BY <2>1 DEF RingOf
    <3>4. at \in AgentPlaces /\ at' \in AgentPlaces
      BY <1>2, <2>1 DEF AgentPlaces, OutputPlaces
    <3> QED
      BY <2>1, <2>3, <3>1, <3>2, <3>3, <3>4, WiredAlone DEF QueuesInv
  <2> QED
    BY <2>1, <2>5 DEF QueuesInv
<1> QED
  BY <1>1, <1>2

\* The input is not an output, or the queue of the output is enabled.
LEMMA OutputEnabledWires ==
  ASSUME QueuesInv, LoopsOK, SkipInput \/ OutputEnabled
  PROVE  QueuesInv'
<1>1. /\ UNCHANGED <<n, dev, tx_enabled, rx_enabled, rings, transmit_heads>>
      /\ \/ at = "output" /\ m = n
         \/ at = "await_output" /\ SendsOn(dev[m], QueueIndex(n, m))
      /\ m' = m + 1 /\ at' = IF m' = DevicesCount THEN "input" ELSE "output"
  BY DEF SkipInput, OutputEnabled, Goto, agents, flags, Field, SendsOn
<1>2. /\ n \in Devices /\ m \in Int /\ m < DevicesCount /\ DevicesCount \in Nat
      /\ Devices = 0 .. DevicesCount - 1
  BY <1>1, DevicesAssumption DEF LoopsOK, OutputPlaces, Devices
<1>3. at \in OutputPlaces /\ at' \in {"input", "output"} /\ (at' = "input" => m = DevicesCount - 1)
  BY <1>1, <1>2 DEF OutputPlaces
<1>4. ASSUME NEW d \in Devices
      PROVE  IsWired(d)'
  <2>1. (MayReceive(d)' <=> MayReceive(d)) /\ (HasQueue(d)' <=> HasQueue(d))
    BY <1>1, <1>3 DEF MayReceive, HasQueue, HasInput, AgentPlaces, OutputPlaces, InputPlaces
  <2>2. ASSUME NEW a \in Devices \ {d}, HasOutput(a, d)'
        PROVE  /\ HasOutput(a, d)
               /\ IsOutput(a, d) \/ SendsOn(dev[d], QueueIndex(a, d))
    <3>1. a < n \/ (a = n /\ d <= m)
      BY <1>1, <1>2, <1>3, <2>2 DEF HasOutput, IsOutput, AgentPlaces, OutputPlaces, InputPlaces
    <3>2. CASE a < n \/ (a = n /\ d < m)
      BY <1>3, <3>2 DEF HasOutput, IsOutput, AgentPlaces
    <3>3. CASE a = n /\ d = m
      BY <1>1, <3>3, <2>2 DEF HasOutput
    <3> QED
      BY <1>2, <3>1, <3>2, <3>3
  <2>3. \A a \in Devices : RingOf(a, d)' = RingOf(a, d)
    BY <1>1 DEF RingOf
  <2>4. at \in AgentPlaces /\ at' \in AgentPlaces
    BY <1>3 DEF AgentPlaces, OutputPlaces, InputPlaces
  <2> QED
    BY <1>1, <2>1, <2>2, <2>3, <2>4, WiredAlone DEF QueuesInv
<1> QED
  BY <1>1, <1>4 DEF QueuesInv

-----------------------------------------------------------------------------
(* An output is added, an input set, and the hardware does its part.       *)

\* The writes of two sequences, one after the other.
LEMMA WritesTogether ==
  ASSUME NEW V, NEW s \in Seq(V), NEW t \in Seq(V), NEW S, NEW T, Writes(s, S), Writes(t, T)
  PROVE  Writes(s \o t, S \cup T)
<1>1. /\ Len(s) \in Nat /\ Len(t) \in Nat /\ Len(s \o t) = Len(s) + Len(t)
      /\ \A k \in 1 .. Len(s) : (s \o t)[k] = s[k]
      /\ \A k \in 1 .. Len(t) : (s \o t)[Len(s) + k] = t[k]
  OBVIOUS
<1>2. ASSUME NEW k \in 1 .. Len(s) + Len(t)
      PROVE  (s \o t)[k] \in S \cup T
  <2>1. CASE k <= Len(s)
    BY <1>1, <2>1 DEF Writes
  <2>2. CASE k > Len(s)
    <3>1. k - Len(s) \in 1 .. Len(t) /\ Len(s) + (k - Len(s)) = k
      BY <1>1, <2>2
    <3>2. (s \o t)[k] = t[k - Len(s)]
      BY <1>1, <3>1
    <3> QED
      BY <3>1, <3>2 DEF Writes
  <2> QED
    BY <1>1, <2>1, <2>2
<1>3. ASSUME NEW w \in S
      PROVE  \E k \in 1 .. Len(s) + Len(t) : (s \o t)[k] = w
  <2>1. PICK k \in 1 .. Len(s) : s[k] = w
    BY DEF Writes
  <2>2. k \in 1 .. Len(s) + Len(t)
    BY <1>1
  <2> QED
    BY <1>1, <2>1, <2>2
<1>4. ASSUME NEW w \in T
      PROVE  \E k \in 1 .. Len(s) + Len(t) : (s \o t)[k] = w
  <2>1. PICK k \in 1 .. Len(t) : t[k] = w
    BY DEF Writes
  <2>2. Len(s) + k \in 1 .. Len(s) + Len(t)
    BY <1>1
  <2> QED
    BY <1>1, <2>1, <2>2
<1> QED
  BY <1>1, <1>2, <1>3, <1>4 DEF Writes

\* The writes of tn_agent_add_output.
QueueWriteSet(q, ring, head) ==
  {Change("TDBA", q, ring), Change("TDLEN.LEN", q, IXGBE_RING_SIZE * 16),
   Change("TXDCTL.PTHRESH", q, 60), Change("TXDCTL.HTHRESH", q, 4),
   Change("TDWBA", q, head), Change("TDWBAL.Head_WB_En", q, 1),
   Change("DCA_TXCTRL.TXdescWBROen", q, 0)}

LEMMA OutputWritesAre ==
  ASSUME NEW q, NEW ring, NEW head, NEW te,
         te = <<>> \/ te = << Change("DMATXCTL.TE", 0, 1) >>
  PROVE  \E T : /\ Writes(QueueWrites(q, ring, head) \o te \o << Change("TXDCTL.ENABLE", q, 1) >>,
                          QueueWriteSet(q, ring, head) \cup T \cup {Change("TXDCTL.ENABLE", q, 1)})
                /\ T = {} \/ T = {Change("DMATXCTL.TE", 0, 1)}
                /\ te # <<>> => T = {Change("DMATXCTL.TE", 0, 1)}
<1> DEFINE V   == {Change("TDBA", q, ring), Change("TDLEN.LEN", q, IXGBE_RING_SIZE * 16),
                   Change("TXDCTL.PTHRESH", q, 60), Change("TXDCTL.HTHRESH", q, 4),
                   Change("TDWBA", q, head), Change("TDWBAL.Head_WB_En", q, 1),
                   Change("DCA_TXCTRL.TXdescWBROen", q, 0), Change("DMATXCTL.TE", 0, 1),
                   Change("TXDCTL.ENABLE", q, 1)}
           one == << Change("TXDCTL.ENABLE", q, 1) >>
           ws  == QueueWrites(q, ring, head)
           S   == QueueWriteSet(q, ring, head)
<1>1. /\ one \in Seq(V) /\ Writes(one, {Change("TXDCTL.ENABLE", q, 1)})
  BY DEF Writes
<1>2. ws \in Seq(V)
  BY DEF QueueWrites
<1>3. Writes(ws, S)
  <2> DEFINE a == Change("TDBA", q, ring)
             b == Change("TDLEN.LEN", q, IXGBE_RING_SIZE * 16)
             c == Change("TXDCTL.PTHRESH", q, 60)
             d == Change("TXDCTL.HTHRESH", q, 4)
             e == Change("TDWBA", q, head)
             f == Change("TDWBAL.Head_WB_En", q, 1)
             g == Change("DCA_TXCTRL.TXdescWBROen", q, 0)
  <2>1. ws = <<a, b, c, d, e, f, g>> /\ S = {a, b, c, d, e, f, g}
    BY DEF QueueWrites, QueueWriteSet
  <2> HIDE DEF a, b, c, d, e, f, g, ws, S
  <2> QED
    BY <2>1 DEF Writes
<1>4. PICK T : /\ te \in Seq(V) /\ Writes(te, T)
               /\ T = {} \/ T = {Change("DMATXCTL.TE", 0, 1)}
               /\ te # <<>> => T = {Change("DMATXCTL.TE", 0, 1)}
  <2>1. CASE te = <<>>
    <3>1. te \in Seq(V) /\ Writes(te, {})
      BY <2>1 DEF Writes
    <3> QED
      BY <2>1, <3>1
  <2>2. CASE te = << Change("DMATXCTL.TE", 0, 1) >>
    <3>1. te \in Seq(V)
      BY <2>2
    <3>2. Writes(te, {Change("DMATXCTL.TE", 0, 1)})
      BY <2>2, WritesAre
    <3> QED
      BY <3>1, <3>2
  <2> QED
    BY <2>1, <2>2
<1> HIDE DEF V, one, ws, S
<1>5. ws \o te \in Seq(V) /\ Writes(ws \o te, S \cup T)
  BY <1>2, <1>3, <1>4, WritesTogether
<1>6. Writes((ws \o te) \o one, (S \cup T) \cup {Change("TXDCTL.ENABLE", q, 1)})
  BY <1>1, <1>5, WritesTogether
<1> QED
  BY <1>4, <1>6 DEF one, ws, S

\* What is in a register after writes that put v there, or leave it there.
PutsIn(e, S, f, i, v) ==
  /\ \A w \in S : Keeps(w, f, i, v)
  /\ e.regs[f][i] = v \/ \E w \in S : w.field = f /\ w.index = i

LEMMA WiringWritten ==
  ASSUME NEW e, IsDevice(e), NEW f, f \in WiringFields \ {"TXDCTL.ENABLE"},
         NEW i, i \in DOMAIN PowerOn[f], NEW v, NEW ws, NEW S, Writes(ws, S),
         PutsIn(e, S, f, i, v)
  PROVE  WriteAll(e, ws).regs[f][i] = v
<1>1. f \in Fields /\ f \notin Delayed
  BY WiringRegisters DEF Delayed, WiringFields, QueueRegisters
<1>2. \A w \in S : w.field = f /\ w.index = i => Sets(w, f, i, v)
  BY <1>1 DEF Keeps, Sets, PutsIn
<1>3. /\ \A w \in S : Keeps(w, f, i, v)
      /\ e.regs[f][i] = v \/ \E w \in S : Sets(w, f, i, v)
  BY <1>2 DEF PutsIn
<1> QED
  BY <1>1, <1>3, WritesKeep

\* So the writes are those for one queue.
WiresQueue(S, q, ring, head) ==
  /\ \A w \in S :
       /\ w.field \in QueueFields \cup {"DMATXCTL.TE", "TXDCTL.ENABLE"}
       /\ IF w.field = "DMATXCTL.TE" THEN w.value = 1 /\ w.index = 0 ELSE w.index = q
       /\ w.field \in {"TXDCTL.ENABLE", "TDWBAL.Head_WB_En"} => w.value = 1
       /\ w.field = "TDBA" => w.value = ring
       /\ w.field = "TDWBA" => w.value = head
  /\ \A f \in {"TDBA", "TDWBA", "TDWBAL.Head_WB_En"} : \E w \in S : w.field = f /\ w.index = q

AreQueueWrites(ws, q, ring, head, te) ==
  \E S : /\ Writes(ws, S) /\ WiresQueue(S, q, ring, head)
         /\ te # <<>> => \E w \in S : w.field = "DMATXCTL.TE" /\ w.index = 0

LEMMA OutputWiresQueue ==
  ASSUME NEW q, NEW ring, NEW head, NEW te,
         te = <<>> \/ te = << Change("DMATXCTL.TE", 0, 1) >>,
         NEW ws, ws = QueueWrites(q, ring, head) \o te \o << Change("TXDCTL.ENABLE", q, 1) >>
  PROVE  AreQueueWrites(ws, q, ring, head, te)
<1>1. PICK T : /\ Writes(ws, QueueWriteSet(q, ring, head) \cup T \cup {Change("TXDCTL.ENABLE", q, 1)})
               /\ T = {} \/ T = {Change("DMATXCTL.TE", 0, 1)}
               /\ te # <<>> => T = {Change("DMATXCTL.TE", 0, 1)}
  BY OutputWritesAre
<1> DEFINE S == QueueWriteSet(q, ring, head) \cup T \cup {Change("TXDCTL.ENABLE", q, 1)}
<1>2. ASSUME NEW w \in S
      PROVE  /\ w.field \in QueueFields \cup {"DMATXCTL.TE", "TXDCTL.ENABLE"}
             /\ IF w.field = "DMATXCTL.TE" THEN w.value = 1 /\ w.index = 0 ELSE w.index = q
             /\ w.field \in {"TXDCTL.ENABLE", "TDWBAL.Head_WB_En"} => w.value = 1
             /\ w.field = "TDBA" => w.value = ring
             /\ w.field = "TDWBA" => w.value = head
  BY <1>1 DEF QueueWriteSet, QueueFields, Change
<1>3. /\ Change("TDBA", q, ring) \in S /\ Change("TDWBA", q, head) \in S
      /\ Change("TDWBAL.Head_WB_En", q, 1) \in S
      /\ te # <<>> => Change("DMATXCTL.TE", 0, 1) \in S
  BY <1>1 DEF QueueWriteSet
<1>4. \A f, i, v : Change(f, i, v).field = f /\ Change(f, i, v).index = i
  BY DEF Change
<1>5. Writes(ws, S)
  BY <1>1
<1> HIDE DEF S
<1>6. /\ \A f \in {"TDBA", "TDWBA", "TDWBAL.Head_WB_En"} : \E w \in S : w.field = f /\ w.index = q
      /\ te # <<>> => \E w \in S : w.field = "DMATXCTL.TE" /\ w.index = 0
  BY <1>3, <1>4
<1> QED
  BY <1>2, <1>5, <1>6 DEF WiresQueue, AreQueueWrites

\* The queue sends from the ring and reports to the head once it is enabled,
\* and the other queues and the input of the device stay as they are.
LEMMA OutputWired ==
  ASSUME NEW e, IsDevice(e), DuesOK(e), NEW q \in Nat, q < TransmitQueuesCount,
         NEW ring, NEW head, TransmitIsOff(e, q),
         NEW ws, NEW S, Writes(ws, S), WiresQueue(S, q, ring, head),
         \/ e.regs["DMATXCTL.TE"][0] = 1
         \/ \E w \in S : w.field = "DMATXCTL.TE" /\ w.index = 0,
         NEW g, g = WriteAll(e, ws)
  PROVE  /\ DuesOK(g) /\ IsQueueOf(g, q, ring, head)
         /\ g.regs["DMATXCTL.TE"][0] = 1
         /\ \A p \in Nat \ {q} : SameQueue(e, g, p)
         /\ \A f \in {"RDBA", "RXCTRL.RXEN"} : g.regs[f][0] = e.regs[f][0]
<1>2. g = WriteAll(e, ws)
  OBVIOUS
<1>3. Writes(ws, S) /\ Len(ws) \in Nat
  BY DEF Writes
<1>4. ASSUME NEW w \in S
      PROVE  /\ w.field \in QueueFields \cup {"DMATXCTL.TE", "TXDCTL.ENABLE"}
             /\ w.field = "DMATXCTL.TE" => w.value = 1 /\ w.index = 0
             /\ w.field # "DMATXCTL.TE" => w.index = q
             /\ w.field \in {"TXDCTL.ENABLE", "TDWBAL.Head_WB_En"} => w.value = 1
             /\ w.field = "TDBA" => w.value = ring
             /\ w.field = "TDWBA" => w.value = head
  BY DEF WiresQueue
<1>5. /\ \E w \in S : w.field = "TDBA" /\ w.index = q
      /\ \E w \in S : w.field = "TDWBA" /\ w.index = q
      /\ \E w \in S : w.field = "TDWBAL.Head_WB_En" /\ w.index = q
  BY DEF WiresQueue
<1>6. "CTRL.RST" \notin QueueFields \cup {"DMATXCTL.TE", "TXDCTL.ENABLE"}
  BY DEF QueueFields
<1>7. {"RDBA", "RXCTRL.RXEN"} \cap (QueueFields \cup {"DMATXCTL.TE", "TXDCTL.ENABLE"}) = {}
  BY DEF QueueFields
<1>8. \A w : w.field = "TDBA" /\ w.value = ring => Kept(w) = RingBase(ring)
  BY DEF Kept
<1>9. ASSUME NEW f, NEW i, NEW v,
             f \in WiringFields \ {"TXDCTL.ENABLE"}, i \in DOMAIN PowerOn[f],
             \A w \in S : w.field = f /\ w.index = i => Kept(w) = v,
             f = "DMATXCTL.TE" => v = 1,
             e.regs[f][i] = v \/ \E w \in S : w.field = f /\ w.index = i
      PROVE  g.regs[f][i] = v
  <2>1. \A w \in S : Keeps(w, f, i, v)
    BY <1>4, <1>6, <1>9 DEF Keeps
  <2>2. PutsIn(e, S, f, i, v)
    BY <1>9, <2>1 DEF PutsIn
  <2>3. f \in WiringFields \ {"TXDCTL.ENABLE"} /\ i \in DOMAIN PowerOn[f]
    BY <1>9
  <2> QED
    BY <1>2, <1>3, <2>2, <2>3, WiringWritten
<1>10. \A f \in QueueRegisters : q \in DOMAIN PowerOn[f]
  BY QueuesAssumption, WiringRegisters
<1>11. g.regs["TDBA"][q] = RingBase(ring)
  <2>1. \A w \in S : w.field = "TDBA" => Kept(w) = RingBase(ring)
    BY <1>4, <1>8
  <2>2. "TDBA" \in QueueRegisters /\ "TDBA" \in WiringFields \ {"TXDCTL.ENABLE"}
    BY DEF QueueRegisters, WiringFields
  <2>3. /\ "TDBA" \in WiringFields \ {"TXDCTL.ENABLE"} /\ q \in DOMAIN PowerOn["TDBA"]
        /\ \A w \in S : w.field = "TDBA" /\ w.index = q => Kept(w) = RingBase(ring)
        /\ "TDBA" = "DMATXCTL.TE" => RingBase(ring) = 1
        /\ e.regs["TDBA"][q] = RingBase(ring) \/ \E w \in S : w.field = "TDBA" /\ w.index = q
    BY <1>5, <1>10, <2>1, <2>2
  <2> QED
    BY <1>9, <2>3
<1>12. g.regs["TDWBA"][q] = head
  <2>1. \A w \in S : w.field = "TDWBA" => Kept(w) = head
    BY <1>4 DEF Kept
  <2>2. "TDWBA" \in QueueRegisters /\ "TDWBA" \in WiringFields \ {"TXDCTL.ENABLE"}
    BY DEF QueueRegisters, WiringFields
  <2>3. /\ "TDWBA" \in WiringFields \ {"TXDCTL.ENABLE"} /\ q \in DOMAIN PowerOn["TDWBA"]
        /\ \A w \in S : w.field = "TDWBA" /\ w.index = q => Kept(w) = head
        /\ "TDWBA" = "DMATXCTL.TE" => head = 1
        /\ e.regs["TDWBA"][q] = head \/ \E w \in S : w.field = "TDWBA" /\ w.index = q
    BY <1>5, <1>10, <2>1, <2>2
  <2> QED
    BY <1>9, <2>3
<1>13. g.regs["TDWBAL.Head_WB_En"][q] = 1
  <2>1. \A w \in S : w.field = "TDWBAL.Head_WB_En" => Kept(w) = 1
    BY <1>4 DEF Kept
  <2>2. "TDWBAL.Head_WB_En" \in QueueRegisters
        /\ "TDWBAL.Head_WB_En" \in WiringFields \ {"TXDCTL.ENABLE"}
    BY DEF QueueRegisters, WiringFields
  <2>3. /\ "TDWBAL.Head_WB_En" \in WiringFields \ {"TXDCTL.ENABLE"} /\ q \in DOMAIN PowerOn["TDWBAL.Head_WB_En"]
        /\ \A w \in S : w.field = "TDWBAL.Head_WB_En" /\ w.index = q => Kept(w) = 1
        /\ "TDWBAL.Head_WB_En" = "DMATXCTL.TE" => 1 = 1
        /\ e.regs["TDWBAL.Head_WB_En"][q] = 1 \/ \E w \in S : w.field = "TDWBAL.Head_WB_En" /\ w.index = q
    BY <1>5, <1>10, <2>1, <2>2
  <2> QED
    BY <1>9, <2>3
<1>14. g.regs["DMATXCTL.TE"][0] = 1
  <2>1. \A w \in S : w.field = "DMATXCTL.TE" => Kept(w) = 1
    BY <1>4 DEF Kept
  <2>2. "DMATXCTL.TE" \in WiringFields \ {"TXDCTL.ENABLE"} /\ 0 \in DOMAIN PowerOn["DMATXCTL.TE"]
    BY WiringRegisters DEF WiringFields
  <2>3. /\ \A w \in S : w.field = "DMATXCTL.TE" /\ w.index = 0 => Kept(w) = 1
        /\ "DMATXCTL.TE" = "DMATXCTL.TE" => 1 = 1
        /\ e.regs["DMATXCTL.TE"][0] = 1 \/ \E w \in S : w.field = "DMATXCTL.TE" /\ w.index = 0
    BY <1>5, <2>1
  <2> QED
    BY <1>9, <2>2, <2>3
<1>15. ASSUME NEW f \in {"RDBA", "RXCTRL.RXEN"}
       PROVE  g.regs[f][0] = e.regs[f][0]
  <2>1. \A w \in S : w.field # f
    BY <1>4, <1>7
  <2>2. f \in WiringFields \ {"TXDCTL.ENABLE"} /\ 0 \in DOMAIN PowerOn[f] /\ f # "DMATXCTL.TE"
    BY WiringRegisters DEF WiringFields
  <2>3. PICK v : v = e.regs[f][0]
    OBVIOUS
  <2>4. /\ f \in WiringFields \ {"TXDCTL.ENABLE"} /\ 0 \in DOMAIN PowerOn[f]
        /\ \A w \in S : w.field = f /\ w.index = 0 => Kept(w) = v
        /\ f = "DMATXCTL.TE" => v = 1
        /\ e.regs[f][0] = v \/ \E w \in S : w.field = f /\ w.index = 0
    BY <2>1, <2>2, <2>3
  <2>5. g.regs[f][0] = v
    BY <1>9, <2>4
  <2> QED
    BY <2>3, <2>5
<1>16. \A c \in g.due : c.field = "TXDCTL.ENABLE" /\ c.index = q => c.value = 1
  <2>1. \A c \in g.due : c \in e.due \/ \E w \in S : c \in Due(w)
    BY <1>2, <1>3, DueAfter DEF Writes
  <2>2. \A w \in S : \A c \in Due(w) : c.field = "TXDCTL.ENABLE" => c = w
    BY DueIn
  <2> QED
    BY <1>4, <2>1, <2>2 DEF TransmitIsOff
<1>17. IsQueueOf(g, q, ring, head)
  BY <1>11, <1>12, <1>13, <1>14, <1>16 DEF IsQueueOf
<1>18. ASSUME NEW p \in Nat \ {q}
       PROVE  SameQueue(e, g, p)
  <2>1. \A w \in S : SparesQueue(w, p)
    BY <1>4, <1>6 DEF SparesQueue
  <2> QED
    BY <1>2, <1>3, <2>1, QueueSpared
<1>19. DuesOK(g)
  BY <1>2, <1>3, DuesKept
<1> QED
  BY <1>14, <1>15, <1>17, <1>18, <1>19

\* tn_agent_add_output.
LEMMA AddOutputWires ==
  ASSUME QueuesInv, SetupInv, LoopsOK, AddOutput
  PROVE  QueuesInv'
<1> DEFINE ring == os_memory_virt_to_phys(Result(descriptor_ring_alloc(heap, IXGBE_RING_SIZE)))
           head == HeadAddr(n, TrueIndex(n, m))
           q    == QueueIndex(n, m)
           te   == IF tx_enabled[m] THEN <<>> ELSE << Change("DMATXCTL.TE", 0, 1) >>
           ws   == OutputWrites(n, m, ring)
           g    == WriteAll(dev[m], ws)
<1>1. CASE at' # "await_output"
  <2>1. dev' = dev /\ UNCHANGED <<tx_enabled, rx_enabled>> /\ at' \in Stopped
    BY <1>1 DEF AddOutput, Fatal, Allocated, Do, flags, Stopped
  <2> QED
    BY <2>1, DeviceReadWires
<1>2. CASE at' = "await_output"
  <2>1. /\ at = "output" /\ m # n /\ n' = n /\ m' = m /\ OutputIsFree(n, m)
        /\ dev' = [dev EXCEPT ![m] = g] /\ tx_enabled' = [tx_enabled EXCEPT ![m] = TRUE]
        /\ UNCHANGED <<rx_enabled, transmit_heads>>
        /\ \E b : rings' = [rings EXCEPT ![n][TrueIndex(n, m)] = [addr |-> ring, buffer |-> b]]
    BY <1>2 DEF AddOutput, Fatal, Allocated, Do
  <2>2. ws = QueueWrites(q, ring, head) \o te \o << Change("TXDCTL.ENABLE", q, 1) >>
    BY DEF OutputWrites, QueueWrites
  <2>3. te = <<>> \/ te = << Change("DMATXCTL.TE", 0, 1) >>
    OBVIOUS
  <2>4. te = <<>> => tx_enabled[m]
    OBVIOUS
  <2>5. PICK k \in Devices : k = m
    BY <2>1, DevicesAssumption DEF LoopsOK, OutputPlaces, Devices
  <2>6. PICK j \in Devices : j = n
    BY DEF LoopsOK
  <2>7. /\ j # k /\ Devices \subseteq Nat /\ at \in AgentPlaces /\ at' \in AgentPlaces
        /\ at' \in OutputPlaces
        /\ HasOutput(j, k)' /\ ~ HasOutput(j, k) /\ ~ IsOutput(j, k)'
    BY <1>2, <2>1, <2>5, <2>6, DevicesAssumption
       DEF HasOutput, IsOutput, AgentPlaces, OutputPlaces, InputPlaces, Devices
  <2>8. IsDevice(dev[k]) /\ StageOK(k) /\ DOMAIN dev = Devices /\ IsWired(k)
    BY <2>1, <2>5, <2>6 DEF SetupInv, DevicesInv, QueuesInv
  <2>9. q = QueueIndex(j, k) /\ q \in Nat /\ q < TransmitQueuesCount
    BY <2>1, <2>5, <2>6, <2>7, QueuesDiffer DEF OutputIsFree
  <2>10. TransmitIsOff(dev[k], q)
    <3>1. WasReset(k)
      BY <2>7 DEF WasReset
    <3> QED
      BY <2>7, <2>8, <2>9, <3>1 DEF StageOK
  <2>11. te = <<>> => dev[k].regs["DMATXCTL.TE"][0] = 1
    BY <2>4, <2>5, <2>7, <2>8 DEF IsWired, FlagsOK
  <2> HIDE DEF te
\* The rings there are.
  <2>12. /\ RingOf(j, k).addr' = ring
         /\ \A a, d \in Devices : a # d /\ <<a, d>> # <<j, k>> => RingOf(a, d)' = RingOf(a, d)
    <3> HIDE DEF ring
    <3>1. PICK b : rings' = [rings EXCEPT ![j][TrueIndex(j, k)] = [addr |-> ring, buffer |-> b]]
      BY <2>1, <2>5, <2>6
    <3>2. /\ DOMAIN rings = Devices /\ \A a \in Devices : DOMAIN rings[a] = Outputs
          /\ TrueIndex(j, k) \in Outputs
      BY <2>7, TrueIndexFacts DEF SetupInv, RingsOK
    <3>3. /\ rings'[j][TrueIndex(j, k)] = [addr |-> ring, buffer |-> b]
          /\ \A a \in Devices, o \in Outputs :
               a # j \/ o # TrueIndex(j, k) => rings'[a][o] = rings[a][o]
      BY <3>1, <3>2
    <3>4. ASSUME NEW a \in Devices, NEW d \in Devices, a # d, <<a, d>> # <<j, k>>
          PROVE  RingOf(a, d)' = RingOf(a, d)
      <4>1. TrueIndex(a, d) \in Outputs /\ (a # j \/ TrueIndex(a, d) # TrueIndex(j, k))
        BY <2>7, <3>4, TrueIndexFacts
      <4> QED
        BY <3>3, <4>1 DEF RingOf
    <3> QED
      BY <3>3, <3>4 DEF RingOf
  <2> HIDE DEF ring, q, head, ws
  <2>15. PICK S : /\ Writes(ws, S) /\ WiresQueue(S, q, ring, head)
                  /\ te # <<>> => \E w \in S : w.field = "DMATXCTL.TE" /\ w.index = 0
    <3>1. AreQueueWrites(ws, q, ring, head, te)
      BY <2>2, <2>3, OutputWiresQueue
    <3> QED
      BY <3>1 DEF AreQueueWrites
  <2>16. g = WriteAll(dev[k], ws) /\ DuesOK(dev[k])
    BY <2>5, <2>8 DEF IsWired
  <2>17. /\ DuesOK(g) /\ IsQueueOf(g, q, ring, head) /\ g.regs["DMATXCTL.TE"][0] = 1
         /\ \A p \in Nat \ {q} : SameQueue(dev[k], g, p)
         /\ \A f \in {"RDBA", "RXCTRL.RXEN"} : g.regs[f][0] = dev[k].regs[f][0]
    <3>1. \/ dev[k].regs["DMATXCTL.TE"][0] = 1
          \/ \E w \in S : w.field = "DMATXCTL.TE" /\ w.index = 0
      BY <2>11, <2>15
    <3> HIDE DEF g
    <3> QED
      BY <2>8, <2>9, <2>10, <2>15, <2>16, <3>1, OutputWired
  <2> HIDE DEF g
  <2>18. dev'[k] = g /\ \A d \in Devices \ {k} : dev'[d] = dev[d]
    BY <2>1, <2>5, <2>8
  <2>19. /\ DOMAIN tx_enabled' = Devices /\ DOMAIN rx_enabled' = Devices /\ tx_enabled'[k] = TRUE
         /\ \A d \in Devices \ {k} : tx_enabled'[d] = tx_enabled[d]
    BY <2>1, <2>5 DEF QueuesInv
\* The devices there are.
  <2>20. ASSUME NEW d \in Devices
         PROVE  /\ MayReceive(d)' <=> MayReceive(d)
                /\ HasQueue(d)' => HasQueue(d) /\ rings'[d][0].addr = rings[d][0].addr
    <3>1. (MayReceive(d)' <=> MayReceive(d)) /\ (HasQueue(d)' <=> HasQueue(d))
      BY <1>2, <2>1 DEF HasQueue, MayReceive, HasInput, AgentPlaces, OutputPlaces, InputPlaces
    <3>2. HasQueue(d)' => d # j
      BY <1>2, <2>1, <2>6, <2>7 DEF HasQueue, HasInput
    <3>3. d # j => rings'[d] = rings[d]
      BY <2>1, <2>6 DEF SetupInv, RingsOK
    <3> QED
      BY <3>1, <3>2, <3>3
  <2>21. ASSUME NEW a \in Devices, NEW d \in Devices, <<a, d>> # <<j, k>>
         PROVE  (HasOutput(a, d)' <=> HasOutput(a, d)) /\ (IsOutput(a, d)' <=> IsOutput(a, d))
    BY <1>2, <2>1, <2>5, <2>6, <2>21 DEF HasOutput, IsOutput, AgentPlaces, OutputPlaces, InputPlaces
  <2>22. ASSUME NEW d \in Devices \ {k}
         PROVE  IsWired(d)'
    <3>1. \A a \in Devices \ {d} : HasOutput(a, d)' =>
            /\ HasOutput(a, d)
            /\ RingOf(a, d)' = RingOf(a, d) /\ transmit_heads'[a] = transmit_heads[a]
            /\ IsOutput(a, d)' => IsOutput(a, d) \/ SendsOn(dev'[d], QueueIndex(a, d))
      <4>1. \A a : <<a, d>> # <<j, k>>
        OBVIOUS
      <4> QED
        BY <2>1, <2>12, <2>21, <4>1
    <3>2. IsWired(d) /\ tx_enabled'[d] = tx_enabled[d] /\ rx_enabled'[d] = rx_enabled[d]
      BY <2>1, <2>19 DEF QueuesInv
    <3> QED
      BY <2>7, <2>18, <2>20, <3>1, <3>2, WiredAlone
  <2>23. IsWired(k)'
    <3>1. DuesOK(dev[k])'
      BY <2>17, <2>18 DEF DuesOK
    <3>2. FlagsOK(k)'
      <4>1. rx_enabled'[k] = rx_enabled[k] /\ at' \notin BeforeDevices \cup DevicePlaces
        BY <1>2, <2>1 DEF BeforeDevices, DevicePlaces
      <4>2. rx_enabled[k] => MayReceive(k)'
        BY <2>7, <2>8, <2>20 DEF IsWired, FlagsOK
      <4> QED
        BY <2>17, <2>18, <4>1, <4>2 DEF FlagsOK
    <3>3. InputOK(k)'
      BY <2>8, <2>17, <2>18, <2>20 DEF IsWired, InputOK
    <3>4. ASSUME NEW a \in Devices \ {k}
          PROVE  QueueOK(a, k)'
      <4>1. CASE a = j
        <5>1. HeadAddr(a, TrueIndex(a, k))' = head
          BY <2>1, <2>5, <2>6, <4>1 DEF head, HeadAddr, os_memory_virt_to_phys, Frame
        <5>2. IsQueueOf(dev'[k], QueueIndex(a, k), RingOf(a, k).addr', HeadAddr(a, TrueIndex(a, k))')
          BY <2>9, <2>12, <2>17, <2>18, <4>1, <5>1
        <5>3. ~ IsOutput(a, k)'
          BY <2>7, <4>1
        <5> QED
          BY <5>2, <5>3 DEF QueueOK
      <4>2. CASE a # j
        <5>1. <<a, k>> # <<j, k>>
          BY <4>2
        <5>2. QueueIndex(a, k) \in Nat \ {q}
          BY <2>7, <2>9, <4>2, QueuesDiffer
        <5>3. StaysQueue(a, k)
          BY <2>1, <2>12, <2>17, <2>18, <2>21, <5>1, <5>2 DEF StaysQueue
        <5> QED
          BY <2>8, <5>3, QueueKept DEF IsWired
      <4> QED
        BY <4>1, <4>2
    <3> QED
      BY <3>1, <3>2, <3>3, <3>4 DEF IsWired
  <2> QED
    BY <2>19, <2>22, <2>23 DEF QueuesInv
<1> QED
  BY <1>1, <1>2

\* Writes for the input of agent k.
LEMMA InputStepWires ==
  ASSUME QueuesInv, DevicesInv, at \in InputPlaces, at' \in AgentPlaces \cup {"run"},
         NEW k \in Devices, NEW ws, NEW S, Writes(ws, S), \A w \in S : InputWrite(w),
         dev' = [dev EXCEPT ![k] = WriteAll(dev[k], ws)],
         UNCHANGED <<rings, transmit_heads, tx_enabled>>, DOMAIN rx_enabled' = Devices,
         \A a, d \in Devices : /\ HasOutput(a, d)' => HasOutput(a, d)
                               /\ IsOutput(a, d)' => IsOutput(a, d),
         \A d \in Devices \ {k} : /\ rx_enabled'[d] = rx_enabled[d]
                                  /\ MayReceive(d)' <=> MayReceive(d)
                                  /\ HasQueue(d)' => HasQueue(d),
         rx_enabled'[k] => MayReceive(k)', InputOK(k)'
  PROVE  QueuesInv'
<1> DEFINE g == WriteAll(dev[k], ws)
<1>1. IsDevice(dev[k]) /\ IsWired(k) /\ at \in AgentPlaces /\ DOMAIN dev = Devices
  BY DEF DevicesInv, QueuesInv, AgentPlaces
<1>2. /\ \A q \in Nat : SameQueue(dev[k], g, q)
      /\ g.regs["DMATXCTL.TE"][0] = dev[k].regs["DMATXCTL.TE"][0]
  BY <1>1, InputSpares
<1>3. DuesOK(g)
  BY <1>1, DuesKept DEF IsWired, Writes
<1>4. dev'[k] = g /\ \A d \in Devices \ {k} : dev'[d] = dev[d]
  BY <1>1
<1> HIDE DEF g
<1>5. \A a \in Devices : RingOf(a, k)' = RingOf(a, k)
  BY DEF RingOf
<1>6. IsWired(k)'
  <2>1. DuesOK(dev[k])'
    BY <1>3, <1>4 DEF DuesOK
  <2>2. FlagsOK(k)'
    <3>1. at' \notin BeforeDevices \cup DevicePlaces
      BY DEF BeforeDevices, DevicePlaces, AgentPlaces, OutputPlaces, InputPlaces
    <3>2. tx_enabled'[k] => dev'[k].regs["DMATXCTL.TE"][0] = 1
      BY <1>1, <1>2, <1>4 DEF IsWired, FlagsOK
    <3> QED
      BY <3>1, <3>2 DEF FlagsOK
  <2>3. ASSUME NEW a \in Devices \ {k}
        PROVE  QueueOK(a, k)'
    <3>1. QueueIndex(a, k) \in Nat
      BY QueuesDiffer
    <3>2. StaysQueue(a, k)
      BY <1>2, <1>4, <1>5, <3>1 DEF StaysQueue
    <3> QED
      BY <1>1, <3>2, QueueKept DEF IsWired
  <2> QED
    BY <2>1, <2>2, <2>3 DEF IsWired
<1>7. ASSUME NEW d \in Devices \ {k}
      PROVE  IsWired(d)'
  <2>1. \A a \in Devices \ {d} : HasOutput(a, d)' =>
          /\ HasOutput(a, d)
          /\ RingOf(a, d)' = RingOf(a, d) /\ transmit_heads'[a] = transmit_heads[a]
          /\ IsOutput(a, d)' => IsOutput(a, d) \/ SendsOn(dev'[d], QueueIndex(a, d))
    BY DEF RingOf
  <2>2. IsWired(d) /\ tx_enabled'[d] = tx_enabled[d] /\ rx_enabled'[d] = rx_enabled[d]
    BY DEF QueuesInv
  <2>3. HasQueue(d)' => HasQueue(d) /\ rings'[d][0].addr = rings[d][0].addr
    OBVIOUS
  <2> QED
    BY <1>1, <1>4, <2>1, <2>2, <2>3, WiredAlone
<1> QED
  BY <1>6, <1>7 DEF QueuesInv

\* The outputs and the other inputs do not depend on how far this input is.
LEMMA InputPlacesStay ==
  ASSUME at \in InputPlaces, at' \in InputPlaces, n' = n, LoopsOK
  PROVE  /\ at' \in AgentPlaces \cup {"run"}
         /\ \A a, d \in Devices : /\ HasOutput(a, d)' => HasOutput(a, d)
                                  /\ IsOutput(a, d)' => IsOutput(a, d)
         /\ \A d \in Devices \ {n} : /\ MayReceive(d)' <=> MayReceive(d)
                                     /\ HasQueue(d)' => HasQueue(d)
<1>1. at \in AgentPlaces /\ at' \in AgentPlaces /\ at # "run" /\ at' # "run"
      /\ at \notin OutputPlaces /\ at' \notin OutputPlaces
  BY DEF AgentPlaces, InputPlaces, OutputPlaces
<1>2. at' # "await_output"
  BY <1>1 DEF OutputPlaces
<1> QED
  BY <1>1, <1>2 DEF HasOutput, IsOutput, MayReceive, HasQueue, HasInput

\* tn_agent_set_input, until it waits for the queue.
LEMMA SetInputWires ==
  ASSUME QueuesInv, DevicesInv, LoopsOK, SetInput
  PROVE  QueuesInv'
<1>1. CASE at' # "await_input"
  <2>1. dev' = dev /\ UNCHANGED <<tx_enabled, rx_enabled>> /\ at' \in Stopped
    BY <1>1 DEF SetInput, Fatal, Do, flags, Stopped
  <2> QED
    BY <2>1, DeviceReadWires
<1>2. CASE at' = "await_input"
  <2> DEFINE ring == rings[n][0].addr
             u == Change("RDBA", 0, ring)
             v == Change("RDLEN.LEN", 0, IXGBE_RING_SIZE * 16)
             w == Change("SRRCTL.BSIZEPACKET", 0, PACKET_BUFFER_SIZE \div 1024)
             x == Change("SRRCTL.Drop_En", 0, 1)
             y == Change("RXDCTL.ENABLE", 0, 1)
             ws == <<u, v, w, x, y>>
             S  == {u, v, w, x, y}
  <2>1. /\ at = "input" /\ n' = n /\ UNCHANGED <<rings, transmit_heads, tx_enabled, rx_enabled>>
        /\ dev' = [dev EXCEPT ![n] = WriteAll(dev[n], ws)]
    BY <1>2 DEF SetInput, Fatal, Do, flags, agents
  <2>2. PICK k \in Devices : k = n
    BY DEF LoopsOK
  <2>3. at \in InputPlaces /\ at' \in InputPlaces
    BY <1>2, <2>1 DEF InputPlaces
  <2>4. Writes(ws, S)
    <3> HIDE DEF u, v, w, x, y
    <3> QED
      BY WritesAre
  <2>5. /\ \A c \in S : InputWrite(c) /\ c.field # "RXCTRL.RXEN"
        /\ \A c \in S : c.field = "RDBA" => c = u
        /\ u \in S /\ u.field = "RDBA" /\ u.index = 0
    BY DEF InputWrite, QueueRegisters, Change
  <2>6. Kept(u) = RingBase(ring)
    BY DEF Kept, Change
  <2> HIDE DEF ws, S, u, ring
  <2>7. Sets(u, "RDBA", 0, RingBase(ring))
    BY <2>5, <2>6 DEF Sets, Delayed
  <2>8. IsDevice(dev[k]) /\ DOMAIN dev = Devices /\ IsWired(k) /\ DOMAIN rx_enabled = Devices
    BY DEF DevicesInv, QueuesInv
  <2>9. WriteAll(dev[k], ws).regs["RDBA"][0] = RingBase(ring)
    <3> DEFINE e == WriteAll(dev[k], ws)
    <3>1. /\ \E c \in S : Sets(c, "RDBA", 0, RingBase(ring))
          /\ \A c \in S : c.field = "RDBA" => Kept(c) = RingBase(ring)
      BY <2>5, <2>6, <2>7
    <3> HIDE DEF e
    <3>2. e.regs["RDBA"][0] = RingBase(ring)
      BY <2>4, <2>5, <2>8, <3>1, InputSpares DEF e
    <3> QED
      BY <3>2 DEF e
  <2>10. dev'[k] = WriteAll(dev[k], ws)
    BY <2>1, <2>2, <2>8
  <2>11. ~ MayReceive(k)' /\ ~ MayReceive(k)
    BY <1>2, <2>1, <2>2, DevicesAssumption DEF MayReceive, HasInput, Devices
  <2>12. InputOK(k)'
    BY <2>1, <2>2, <2>9, <2>10, <2>11 DEF InputOK, RingBase, ring
  <2>13. ~ rx_enabled'[k]
    BY <2>1, <2>3, <2>8, <2>11 DEF IsWired, FlagsOK, AgentPlaces
  <2>14. dev' = [dev EXCEPT ![k] = WriteAll(dev[k], ws)]
    BY <2>1, <2>2
  <2>15. \A d \in Devices \ {k} : /\ rx_enabled'[d] = rx_enabled[d]
                                  /\ MayReceive(d)' <=> MayReceive(d)
                                  /\ HasQueue(d)' => HasQueue(d)
    BY <2>1, <2>2, <2>3, InputPlacesStay
  <2> QED
    BY <2>1, <2>3, <2>4, <2>5, <2>8, <2>12, <2>13, <2>14, <2>15, InputPlacesStay, InputStepWires
<1> QED
  BY <1>1, <1>2

\* The queue is enabled.
LEMMA InputEnabledWires ==
  ASSUME QueuesInv, DevicesInv, LoopsOK, InputEnabled
  PROVE  QueuesInv'
<1> DEFINE u == Change("RDT.RDT", 0, IXGBE_RING_SIZE - 1)
           v == Change("SECRXCTRL.RX_DIS", 0, 1)
           ws == <<u>> \o <<v>>
           S == {u} \cup {v}
<1>1. PICK k \in Devices : k = n
  BY DEF LoopsOK
<1>2. IsDevice(dev[k]) /\ DOMAIN dev = Devices /\ IsWired(k) /\ DOMAIN rx_enabled = Devices
  BY DEF DevicesInv, QueuesInv
<1>3. ~ rx_enabled[k]
  <2>1. at = "await_input"
    BY DEF InputEnabled
  <2>2. ~ MayReceive(k)
    BY <1>1, <2>1, DevicesAssumption DEF MayReceive, HasInput, Devices
  <2> QED
    BY <1>2, <2>1, <2>2 DEF IsWired, FlagsOK, AgentPlaces, InputPlaces
<1>4. /\ at = "await_input" /\ at' = "await_empty" /\ n' = n
      /\ UNCHANGED <<rings, transmit_heads, tx_enabled, rx_enabled>>
      /\ dev' = [dev EXCEPT ![n] = WriteAll(dev[n], ws)]
  BY <1>1, <1>3 DEF InputEnabled, Do, flags, agents
<1>5. dev' = [dev EXCEPT ![k] = WriteAll(dev[k], ws)]
  BY <1>1, <1>4
<1>6. Writes(ws, S)
  <2> HIDE DEF u, v
  <2>1. Writes(<<u>>, {u}) /\ Writes(<<v>>, {v})
    BY WritesAre
  <2>2. <<u>> \in Seq({u, v}) /\ <<v>> \in Seq({u, v})
    OBVIOUS
  <2>3. Writes(<<u>> \o <<v>>, {u} \cup {v})
    BY <2>1, <2>2, WritesTogether
  <2> QED
    BY <2>3
<1>7. \A c \in S : InputWrite(c) /\ c.field # "RXCTRL.RXEN" /\ c.field # "RDBA"
  BY DEF InputWrite, QueueRegisters, Change
<1> HIDE DEF S, ws, u, v
<1>8. at \in InputPlaces /\ at' \in InputPlaces
  BY <1>4 DEF InputPlaces
<1>9. \A f \in {"RDBA", "RXCTRL.RXEN"} :
        WriteAll(dev[k], ws).regs[f][0] = dev[k].regs[f][0]
  BY <1>2, <1>6, <1>7, InputSpares
<1>10. ~ MayReceive(k)' /\ HasQueue(k)
  BY <1>1, <1>4, DevicesAssumption DEF MayReceive, HasInput, HasQueue, Devices
<1>11. InputOK(k)'
  <2>1. dev'[k] = WriteAll(dev[k], ws)
    BY <1>2, <1>5
  <2> QED
    BY <1>2, <1>4, <1>9, <1>10, <2>1 DEF IsWired, InputOK
<1>12. \A d \in Devices \ {k} : /\ rx_enabled'[d] = rx_enabled[d]
                                /\ MayReceive(d)' <=> MayReceive(d)
                                /\ HasQueue(d)' => HasQueue(d)
  BY <1>1, <1>4, <1>8, InputPlacesStay
<1> QED
  BY <1>2, <1>3, <1>4, <1>5, <1>6, <1>7, <1>8, <1>11, <1>12, InputPlacesStay, InputStepWires

\* The device may receive.
LEMMA DataPathEmptyWires ==
  ASSUME QueuesInv, DevicesInv, LoopsOK, DataPathEmpty
  PROVE  QueuesInv'
<1> DEFINE u == Change("RXCTRL.RXEN", 0, 1)
           v == Change("SECRXCTRL.RX_DIS", 0, 0)
           w == Change("CTRL_EXT.NS_DIS", 0, 1)
           ws == <<u, v, w>>
           S == {u, v, w}
<1>1. PICK k \in Devices : k = n
  BY DEF LoopsOK
<1>2. IsDevice(dev[k]) /\ DOMAIN dev = Devices /\ IsWired(k) /\ DOMAIN rx_enabled = Devices
  BY DEF DevicesInv, QueuesInv
<1>3. /\ at = "await_empty" /\ at' = "finish_input" /\ n' = n
      /\ UNCHANGED <<rings, transmit_heads, tx_enabled>>
      /\ rx_enabled' = [rx_enabled EXCEPT ![n] = TRUE]
      /\ dev' = [dev EXCEPT ![n] = WriteAll(dev[n], ws)]
  BY DEF DataPathEmpty, Do, agents
<1>4. dev' = [dev EXCEPT ![k] = WriteAll(dev[k], ws)]
  BY <1>1, <1>3
<1>5. Writes(ws, S)
  <2> HIDE DEF u, v, w
  <2> QED
    BY WritesAre
<1>6. /\ \A c \in S : InputWrite(c) /\ c.field # "RDBA"
      /\ \A c \in S : c.field = "RXCTRL.RXEN" => Kept(c) = 1
      /\ \E c \in S : Sets(c, "RXCTRL.RXEN", 0, 1)
  <2>1. \A c \in S : /\ InputWrite(c) /\ c.field # "RDBA"
                     /\ c.field = "RXCTRL.RXEN" => c.index = 0 /\ c.value = 1
    BY DEF InputWrite, QueueRegisters, Change
  <2>2. u \in S /\ u.field = "RXCTRL.RXEN"
    BY DEF Change
  <2> HIDE DEF S, u
  <2>3. \A c \in S : c.field = "RXCTRL.RXEN" => Kept(c) = 1 /\ Sets(c, "RXCTRL.RXEN", 0, 1)
    BY <2>1 DEF Kept, Sets, Delayed
  <2> QED
    BY <2>1, <2>2, <2>3
<1> HIDE DEF S, ws, u
<1>7. at \in InputPlaces /\ at' \in InputPlaces
  BY <1>3 DEF InputPlaces
<1>8. /\ WriteAll(dev[k], ws).regs["RDBA"][0] = dev[k].regs["RDBA"][0]
      /\ WriteAll(dev[k], ws).regs["RXCTRL.RXEN"][0] = 1
  <2> DEFINE e == WriteAll(dev[k], ws)
  <2>1. e = WriteAll(dev[k], ws)
    OBVIOUS
  <2> HIDE DEF e
  <2>2. e.regs["RDBA"][0] = dev[k].regs["RDBA"][0]
    BY <1>2, <1>5, <1>6, <2>1, InputSpares
  <2>3. e.regs["RXCTRL.RXEN"][0] = 1
    BY <1>2, <1>5, <1>6, <2>1, InputSpares
  <2> QED
    BY <2>1, <2>2, <2>3
<1>9. MayReceive(k)' /\ HasQueue(k)
  BY <1>1, <1>3 DEF MayReceive, HasQueue
<1>10. InputOK(k)'
  <2>1. dev'[k] = WriteAll(dev[k], ws)
    BY <1>2, <1>4
  <2> QED
    BY <1>2, <1>3, <1>8, <1>9, <2>1 DEF IsWired, InputOK
<1>11. DOMAIN rx_enabled' = Devices
  BY <1>2, <1>3
<1>12. \A d \in Devices \ {k} : /\ rx_enabled'[d] = rx_enabled[d]
                                /\ MayReceive(d)' <=> MayReceive(d)
                                /\ HasQueue(d)' => HasQueue(d)
  BY <1>1, <1>2, <1>3, <1>7, InputPlacesStay
<1> QED
  BY <1>3, <1>4, <1>5, <1>6, <1>7, <1>9, <1>10, <1>11, <1>12, InputPlacesStay, InputStepWires

\* The input of an agent is done, and main goes on to the next agent.
LEMMA FinishInputWires ==
  ASSUME QueuesInv, DevicesInv, LoopsOK, FinishInput
  PROVE  QueuesInv'
<1> DEFINE u == Change("DCA_RXCTRL.Special_Reserved", 0, 0)
<1>1. PICK k \in Devices : k = n
  BY DEF LoopsOK
<1>2. IsDevice(dev[k]) /\ DOMAIN dev = Devices /\ IsWired(k) /\ DOMAIN rx_enabled = Devices
  BY DEF DevicesInv, QueuesInv
<1>3. /\ at = "finish_input" /\ n' = (n + 1) % DevicesCount
      /\ at' = (IF n' = 0 THEN "run" ELSE "agent")
      /\ UNCHANGED <<rings, transmit_heads, tx_enabled, rx_enabled>>
      /\ dev' = [dev EXCEPT ![n] = WriteAll(dev[n], <<u>>)]
  BY DEF FinishInput, Do, flags
<1>4. dev' = [dev EXCEPT ![k] = WriteAll(dev[k], <<u>>)]
  BY <1>1, <1>3
<1>5. Writes(<<u>>, {u})
  <2> HIDE DEF u
  <2> QED
    BY WritesAre
<1>6. \A c \in {u} : InputWrite(c) /\ c.field # "RXCTRL.RXEN" /\ c.field # "RDBA"
  BY DEF InputWrite, QueueRegisters, Change
<1> HIDE DEF u
<1>7. at \in InputPlaces /\ at' \in AgentPlaces \cup {"run"}
  BY <1>3 DEF InputPlaces, AgentPlaces
<1>8. \A f \in {"RDBA", "RXCTRL.RXEN"} : WriteAll(dev[k], <<u>>).regs[f][0] = dev[k].regs[f][0]
  BY <1>2, <1>5, <1>6, InputSpares
<1>9. /\ DevicesCount \in Nat /\ Devices = 0 .. DevicesCount - 1 /\ n \in Devices
      /\ n + 1 = DevicesCount => at' = "run"
      /\ n + 1 # DevicesCount => at' = "agent" /\ n' = n + 1
  <2>1. DevicesCount \in Nat /\ Devices = 0 .. DevicesCount - 1 /\ n \in Devices
    BY DevicesAssumption DEF Devices, LoopsOK
  <2> QED
    BY <1>3, <2>1, NextDevice
<1>10. ASSUME NEW d \in Devices
       PROVE  /\ \A a \in Devices : /\ HasOutput(a, d)' => HasOutput(a, d)
                                    /\ IsOutput(a, d)' => IsOutput(a, d)
              /\ HasQueue(d)' <=> HasQueue(d)
              /\ MayReceive(d)' <=> MayReceive(d)
  <2>1. ASSUME NEW a \in Devices
        PROVE  /\ HasOutput(a, d)' => HasOutput(a, d)
               /\ IsOutput(a, d)' => IsOutput(a, d)
    BY <1>3, <1>9 DEF HasOutput, IsOutput, AgentPlaces, OutputPlaces, InputPlaces
  <2>2. (HasQueue(d)' <=> HasQueue(d)) /\ (MayReceive(d)' <=> MayReceive(d))
    BY <1>3, <1>9 DEF HasQueue, MayReceive, HasInput, AgentPlaces, OutputPlaces, InputPlaces
  <2> QED
    BY <2>1, <2>2
<1>11. InputOK(k)'
  <2>1. dev'[k] = WriteAll(dev[k], <<u>>)
    BY <1>2, <1>4
  <2> QED
    BY <1>2, <1>3, <1>8, <1>10, <2>1 DEF IsWired, InputOK
<1>12. rx_enabled'[k] => MayReceive(k)'
  BY <1>1, <1>3, <1>10 DEF MayReceive
<1>13. /\ DOMAIN rx_enabled' = Devices
       /\ \A a, d \in Devices : /\ HasOutput(a, d)' => HasOutput(a, d)
                                /\ IsOutput(a, d)' => IsOutput(a, d)
       /\ \A d \in Devices \ {k} : /\ rx_enabled'[d] = rx_enabled[d]
                                   /\ MayReceive(d)' <=> MayReceive(d)
                                   /\ HasQueue(d)' => HasQueue(d)
  BY <1>2, <1>3, <1>10
<1> DEFINE ws == <<u>>
           S  == {u}
<1>14. /\ Writes(ws, S) /\ \A c \in S : InputWrite(c)
       /\ dev' = [dev EXCEPT ![k] = WriteAll(dev[k], ws)]
  BY <1>4, <1>5, <1>6
<1> HIDE DEF ws, S
<1> QED
  BY <1>3, <1>7, <1>11, <1>12, <1>13, <1>14, InputStepWires

\* The hardware does what it was asked for.
LEMMA CompletionWires ==
  ASSUME QueuesInv, DevicesInv, LoopsOK, NEW k \in Devices, HardwareCompletes(k)
  PROVE  QueuesInv'
<1>1. UNCHANGED <<at, n, m, rings, transmit_heads, tx_enabled, rx_enabled>>
  BY DEF HardwareCompletes, agents, flags
<1>2. PICK w \in dev[k].due : dev' = [dev EXCEPT ![k] = Completed(dev[k], w)]
  BY DEF HardwareCompletes
<1> DEFINE g == Completed(dev[k], w)
<1>3. IsDevice(dev[k]) /\ DOMAIN dev = Devices /\ IsWired(k)
  BY DEF DevicesInv, QueuesInv
<1>4. /\ DuesOK(g)
      /\ \A f \in WiringFields \ {"TXDCTL.ENABLE"} : \A i \in DOMAIN PowerOn[f] :
           g.regs[f][i] = dev[k].regs[f][i]
      /\ \A q \in Nat : \A ring, head : IsQueueOf(dev[k], q, ring, head) =>
           IsQueueOf(g, q, ring, head) /\ (SendsOn(dev[k], q) => SendsOn(g, q))
  BY <1>2, <1>3, CompletionSpares DEF IsWired
<1>5. dev'[k] = g /\ \A d \in Devices \ {k} : dev'[d] = dev[d]
  BY <1>2, <1>3
<1> HIDE DEF g
<1>6. ASSUME NEW d \in Devices
      PROVE  /\ MayReceive(d)' <=> MayReceive(d)
             /\ HasQueue(d)' <=> HasQueue(d)
             /\ \A a \in Devices : /\ HasOutput(a, d)' <=> HasOutput(a, d)
                                   /\ IsOutput(a, d)' <=> IsOutput(a, d)
                                   /\ RingOf(a, d)' = RingOf(a, d)
                                   /\ HeadAddr(a, TrueIndex(a, d))' = HeadAddr(a, TrueIndex(a, d))
  BY <1>1 DEF MayReceive, HasQueue, HasInput, HasOutput, IsOutput, RingOf, HeadAddr,
              os_memory_virt_to_phys, Frame
<1>7. \A f \in {"RDBA", "RXCTRL.RXEN", "DMATXCTL.TE"} : dev'[k].regs[f][0] = dev[k].regs[f][0]
  <2>1. \A f \in {"RDBA", "RXCTRL.RXEN", "DMATXCTL.TE"} :
          f \in WiringFields \ {"TXDCTL.ENABLE"} /\ 0 \in DOMAIN PowerOn[f]
    BY WiringRegisters DEF WiringFields
  <2> QED
    BY <1>4, <1>5, <2>1
<1>8. IsWired(k)'
  <2>1. DuesOK(dev[k])'
    BY <1>4, <1>5 DEF DuesOK
  <2>2. FlagsOK(k)'
    BY <1>1, <1>3, <1>6, <1>7 DEF IsWired, FlagsOK
  <2>3. InputOK(k)'
    BY <1>1, <1>3, <1>6, <1>7 DEF IsWired, InputOK
  <2>4. ASSUME NEW a \in Devices \ {k}
        PROVE  QueueOK(a, k)'
    <3>1. QueueIndex(a, k) \in Nat
      BY QueuesDiffer
    <3>2. QueueOK(a, k) /\ (IsOutput(a, k) => HasOutput(a, k))
      BY <1>3 DEF IsWired, HasOutput
    <3> QED
      BY <1>4, <1>5, <1>6, <3>1, <3>2 DEF QueueOK
  <2> QED
    BY <2>1, <2>2, <2>3, <2>4 DEF IsWired
<1>9. ASSUME NEW d \in Devices \ {k}
      PROVE  IsWired(d)'
  BY <1>1, <1>5, <1>6, WiredAlone DEF QueuesInv
<1> QED
  BY <1>1, <1>8, <1>9 DEF QueuesInv

\* A step sets up, or it is one of main's, or it leaves the setup alone.
LEMMA StepKinds ==
  ASSUME [Next]_vars
  PROVE  \/ UNCHANGED setupVars \/ OsFails \/ OsInit \/ NfInit \/ AllocateDevices \/ SetupNext
         \/ Undefined
<1>1. ASSUME NEW p, NEW asked, NEW fl, Handled(p, asked, fl)
      PROVE  UNCHANGED setupVars
  BY <1>1 DEF Handled
<1>2. CASE UNCHANGED vars
  BY <1>2 DEF vars
<1>3. CASE Next
  <2>1. \A device : HandleNop(device) => UNCHANGED setupVars
    <3>1. ASSUME NEW device, HandleNop(device)
          PROVE  \E p, asked, fl : Handled(p, asked, fl)
      BY <3>1, Zenon DEF HandleNop
    <3> QED
      BY <1>1, <3>1
  <2>2. \A device, command : HandleCommand(device, command) => UNCHANGED setupVars
    BY <1>1 DEF HandleCommand, Drops
  <2>3. \A device, h : HandleRouted(device, h) => UNCHANGED setupVars \/ Undefined
    BY <1>1 DEF HandleRouted, Drops
  <2>4. \A device : HandleDhcp(device) => UNCHANGED setupVars
    BY <1>1 DEF HandleDhcp, Drops
  <2>5. \A device, disabled : HandleFlood(device, disabled) => UNCHANGED setupVars
    BY <1>1 DEF HandleFlood, Drops
  <2>6. \A device, dst : HandleForwarded(device, dst) => UNCHANGED setupVars
    BY <1>1 DEF HandleForwarded, Drops
  <2> QED
    BY <1>3, <2>1, <2>2, <2>3, <2>4, <2>5, <2>6 DEF Next, Setup
<1> QED
  BY <1>2, <1>3

\* All steps together.
LEMMA QueuesNext ==
  ASSUME QueuesInv, SetupInv, LoopsOK, [Next]_vars
  PROVE  QueuesInv'
<1>0. DevicesInv /\ HeadsOK
  BY DEF SetupInv
<1>1. CASE UNCHANGED setupVars
  BY <1>1, WiringStays DEF setupVars, agents, flags
<1>2. CASE OsFails \/ WrongDevice \/ WrongEeprom \/ GivesUp \/ Undefined
  <2>1. at' \in {"fatal", "undefined"} /\ dev' = dev /\ UNCHANGED <<tx_enabled, rx_enabled>>
    BY <1>2 DEF OsFails, WrongDevice, WrongEeprom, GivesUp, TimesOut, Fatal, Undefined, flags
  <2> QED
    BY <2>1, DeviceReadWires DEF Stopped
<1>3. CASE OsInit \/ NfInit \/ AllocateDevices
  <2>1. /\ dev' = dev /\ UNCHANGED <<tx_enabled, rx_enabled>> /\ at \in BeforeDevices
        /\ at' \in BeforeDevices \cup DevicePlaces \cup Stopped
    BY <1>3 DEF OsInit, NfInit, AllocateDevices, Allocated, BeforeDevices, DevicePlaces, Stopped,
                flags
  <2> QED
    BY <2>1, DeviceReadWires
<1>4. CASE ReceiveDisabled \/ MasterDisabled \/ MasterTimesOut \/ NothingPending \/ EepromRead
  <2>1. /\ dev' = dev /\ UNCHANGED <<tx_enabled, rx_enabled>>
        /\ at \in DevicePlaces /\ at' \in DevicePlaces
    BY <1>4 DEF ReceiveDisabled, MasterDisabled, MasterTimesOut, NothingPending, EepromRead, Goto,
                flags, DevicePlaces
  <2> QED
    BY <2>1, DeviceReadWires
<1>5. CASE PciSetup \/ DisableReceive \/ MasterDisable \/ Flush \/ Reset \/ Configure
           \/ SetPromiscuous
  BY <1>0, <1>5, DevicesNotWired
<1>6. CASE Agent \/ SkipInput \/ OutputEnabled
  BY <1>0, <1>6, AgentWires, OutputEnabledWires
<1>7. CASE AddOutput
  BY <1>7, AddOutputWires
<1>8. CASE SetInput \/ InputEnabled \/ DataPathEmpty \/ FinishInput
  BY <1>0, <1>8, SetInputWires, InputEnabledWires, DataPathEmptyWires, FinishInputWires
<1>9. ASSUME NEW d \in Devices, HardwareCompletes(d)
       PROVE  QueuesInv'
  BY <1>0, <1>9, CompletionWires
<1>10. CASE SetupNext
  BY <1>2, <1>4, <1>5, <1>6, <1>7, <1>8, <1>9, <1>10 DEF SetupNext
<1> QED
  BY <1>1, <1>2, <1>3, <1>10, StepKinds

\* Queues are wired to agents as they should be.
LEMMA QueuesInvariant == Spec => []QueuesInv
<1>1. Init => QueuesInv
  <2> SUFFICES ASSUME Init PROVE QueuesInv
    OBVIOUS
  <2>1. /\ at = "os_init" /\ \A d \in Devices : dev[d].due = {}
        /\ DOMAIN tx_enabled = Devices /\ DOMAIN rx_enabled = Devices
        /\ \A d \in Devices : ~ tx_enabled[d] /\ ~ rx_enabled[d]
    BY DEF Init, InitDevices
  <2>2. ASSUME NEW d \in Devices
        PROVE  IsWired(d)
    <3>1. /\ \A a \in Devices : ~ HasOutput(a, d) /\ ~ IsOutput(a, d)
          /\ ~ HasQueue(d) /\ ~ MayReceive(d)
      BY <2>1 DEF HasOutput, IsOutput, HasQueue, MayReceive, HasInput, AgentPlaces, OutputPlaces,
                  InputPlaces
    <3>2. DuesOK(dev[d])
      BY <2>1 DEF DuesOK
    <3>3. FlagsOK(d)
      BY <2>1 DEF FlagsOK
    <3> QED
      BY <3>1, <3>2, <3>3 DEF IsWired, QueueOK, InputOK
  <2> QED
    BY <2>1, <2>2 DEF QueuesInv
<1>2. QueuesInv /\ SetupInv /\ WiringInv /\ [Next]_vars => QueuesInv'
  BY QueuesNext DEF WiringInv
<1> QED
  BY <1>1, <1>2, WiringInvariant, SetupInvariant, PTL DEF Spec

-----------------------------------------------------------------------------
(* The wiring, once the driver runs.                                       *)

\* What the invariants say about an agent and a device that is its output.
LEMMA OutputIsRight ==
  ASSUME at = "run", WiringInv, SetupInv, AddressesInv, QueuesInv,
         NEW a \in Devices, NEW d \in Devices, a # d
  PROVE  /\ transmit_tail_addrs[a][TrueIndex(a, d)] = <<d, QueueIndex(a, d)>>
         /\ Sends(d, QueueIndex(a, d), a, TrueIndex(a, d))
         /\ IsRing(RingOf(a, d), a)
<1>1. IsOutput(a, d) /\ HasOutput(a, d) /\ at \notin Stopped
  BY DEF IsOutput, HasOutput, Stopped
<1>2. QueueOK(a, d)
  BY DEF QueuesInv, IsWired
<1>3. transmit_tail_addrs[a][TrueIndex(a, d)] = <<d, QueueIndex(a, d)>>
  BY <1>1 DEF WiringInv, TailsOK
<1>4. Sends(d, QueueIndex(a, d), a, TrueIndex(a, d))
  BY <1>1, <1>2 DEF QueueOK, IsQueueOf, SendsOn, Sends, Field, RingOf
<1>5. IsRing(RingOf(a, d), a)
  BY <1>1 DEF AddressesInv, RingsDiffer
<1> QED
  BY <1>3, <1>4, <1>5

\* Each output of an agent is a device.
LEMMA OutputDevice ==
  ASSUME NEW a \in Devices, NEW o \in Outputs
  PROVE  \E d \in Devices : d # a /\ TrueIndex(a, d) = o
<1> DEFINE d == IF o >= a THEN o + 1 ELSE o
<1>1. d \in Devices /\ d # a /\ TrueIndex(a, d) = o
  BY DevicesAssumption DEF TrueIndex, Devices, Outputs, OutputsCount
<1> QED
  BY <1>1

\* Once the driver runs, the lengths and tails that net_transmit and tn_run use
\* for a device are those of a queue of that device that no other agent has and
\* that sends from the ring the agent fills; the rings of an agent share its
\* buffers, and no others; and its input receives into the first of them.
THEOREM QueuesWiredRight == Spec => []WiringIsRight
<1>1. WiringInv /\ SetupInv /\ AddressesInv /\ QueuesInv => WiringIsRight
  <2> SUFFICES ASSUME WiringInv, SetupInv, AddressesInv, QueuesInv, at = "run"
               PROVE  WiringIsRight
    BY DEF WiringIsRight
  <2>1. ASSUME NEW a \in Devices, NEW d \in Devices, a # d
        PROVE  LET o    == TrueIndex(a, d)
                   tail == transmit_tail_addrs[a][o]
               IN  tail[1] = d /\ Sends(d, tail[2], a, o)
    <3>1. /\ transmit_tail_addrs[a][TrueIndex(a, d)] = <<d, QueueIndex(a, d)>>
          /\ Sends(d, QueueIndex(a, d), a, TrueIndex(a, d))
      BY <2>1, OutputIsRight
    <3> QED
      BY <3>1
  <2>2. ASSUME NEW a \in Devices, NEW b \in Devices, NEW o \in Outputs, NEW p \in Outputs,
               <<a, o>> # <<b, p>>
        PROVE  /\ transmit_tail_addrs[a][o] # transmit_tail_addrs[b][p]
               /\ rings[a][o].addr # rings[b][p].addr
               /\ (rings[a][o].buffer = rings[b][p].buffer) <=> (a = b)
    <3>1. PICK d \in Devices : d # a /\ TrueIndex(a, d) = o
      BY OutputDevice
    <3>2. PICK e \in Devices : e # b /\ TrueIndex(b, e) = p
      BY OutputDevice
    <3>3. <<a, d>> # <<b, e>> /\ (a # b \/ d # e)
      BY <2>2, <3>1, <3>2
    <3>4. /\ transmit_tail_addrs[a][o] = <<d, QueueIndex(a, d)>>
          /\ transmit_tail_addrs[b][p] = <<e, QueueIndex(b, e)>>
          /\ IsRing(RingOf(a, d), a) /\ IsRing(RingOf(b, e), b)
      BY <3>1, <3>2, OutputIsRight
    <3>5. transmit_tail_addrs[a][o] # transmit_tail_addrs[b][p]
      <4>1. CASE d # e
        BY <3>4, <4>1
      <4>2. CASE d = e
        <5>1. QueueIndex(a, d) # QueueIndex(b, d)
          BY <3>1, <3>2, <3>3, <4>2, QueuesDiffer
        <5> QED
          BY <3>4, <4>2, <5>1
      <4> QED
        BY <4>1, <4>2
    <3>6. rings[a][o].addr # rings[b][p].addr
      <4>1. HasOutput(a, d) /\ HasOutput(b, e)
        BY DEF HasOutput, IsOutput
      <4>2. RingOf(a, d).addr # RingOf(b, e).addr
        BY <3>1, <3>2, <3>3, <4>1 DEF AddressesInv, RingsDiffer
      <4> QED
        BY <3>1, <3>2, <4>2 DEF RingOf
    <3>7. (rings[a][o].buffer = rings[b][p].buffer) <=> (a = b)
      <4>1. /\ rings[a][o].buffer = os_memory_virt_to_phys(buffer[a])
            /\ rings[b][p].buffer = os_memory_virt_to_phys(buffer[b])
        BY <3>1, <3>2, <3>4 DEF IsRing, RingOf
      <4>2. /\ buffer[a] \in Nat /\ buffer[b] \in Nat
            /\ a # b => buffer[a] # buffer[b]
        BY DEF AddressesInv, BuffersOK, HasBuffer
      <4> QED
        BY <4>1, <4>2, Physical
    <3> QED
      BY <3>5, <3>6, <3>7
  <2>3. ASSUME NEW a \in Devices
        PROVE  /\ receive_tail_addr[a] = <<a, 0>>
               /\ Field(a, "RDBA", 0) = RingBase(rings[a][0].addr)
               /\ Field(a, "RXCTRL.RXEN", 0) = 1
    <3>1. HasInput(a) /\ HasQueue(a) /\ MayReceive(a) /\ at \notin Stopped
      BY DEF HasInput, HasQueue, MayReceive, Stopped
    <3>2. receive_tail_addr[a] = <<a, 0>>
      BY <3>1 DEF WiringInv, TailsOK
    <3>3. InputOK(a)
      BY DEF QueuesInv, IsWired
    <3> QED
      BY <3>1, <3>2, <3>3 DEF InputOK, Field
  <2> QED
    BY <2>1, <2>2, <2>3 DEF WiringIsRight
<1> QED
  BY <1>1, WiringInvariant, SetupInvariant, AddressesInvariant, QueuesInvariant, PTL

\* For an odd number of devices, rings are aligned as the comments at the two
\* registers that get them say, whatever was allocated before them.
THEOREM OddRingsAreAligned ==
  ASSUME DevicesCount % 2 = 1
  PROVE  Spec => []RingsAreAligned
<1>1. AddressesInv => RingsAreAligned
  <2> SUFFICES ASSUME AddressesInv, at = "run", NEW a \in Devices, NEW o \in Outputs
               PROVE  rings[a][o].addr % 128 = 0
    BY DEF RingsAreAligned
  <2>1. PICK d \in Devices : d # a /\ TrueIndex(a, d) = o
    BY OutputDevice
  <2>2. IsRing(RingOf(a, d), a)
    BY <2>1 DEF AddressesInv, RingsDiffer, HasOutput, IsOutput
  <2> QED
    BY <2>1, <2>2 DEF IsRing, RingOf
<1> QED
  BY <1>1, AddressesInvariant, PTL

=============================================================================
