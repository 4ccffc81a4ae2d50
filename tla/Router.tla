------------------------------- MODULE Router --------------------------------
(***************************************************************************)
(* The router and the no-op function: which transmit function of TinyNfTx  *)
(* nf_handle calls for a packet.  The longest prefix match table is the    *)
(* contract of lpm.h as klint has it, since no implementation of it is in  *)
(* the repository.  The last device is the one that routes are set from.   *)
(***************************************************************************)
EXTENDS TinyNfTx, FiniteSets

CONSTANT KeyBits                \* of an address: 32

ASSUME KeyBitsAssumption == KeyBits \in Nat

Keys == 0 .. 2 ^ KeyBits - 1

-----------------------------------------------------------------------------
(* The table: the device of pairs of a key and a width, which is how many  *)
(* of the leading bits of the key are the prefix.                          *)

EmptyTable == <<>>              \* no pairs

Pair(key, width) == [key |-> key, width |-> width]

lpm_set(table, capacity, key, width, value) ==
  IF Pair(key, width) \in DOMAIN table \/ Cardinality(DOMAIN table) < capacity
  THEN [r \in DOMAIN table \cup {Pair(key, width)} |->
          IF r = Pair(key, width) THEN value ELSE table[r]]
  ELSE table

Matches(route, key) ==
  LET shift == KeyBits - route.width
  IN  route.key \div 2 ^ shift = key \div 2 ^ shift

\* The routes for a key that no route with a longer prefix overrules.  There
\* may be several, with the same prefix of different keys.  (Lines 106 to 110
\* of lpm.py only find a pair of the very key that is searched; lpm.h says
\* that it is a longest prefix match, and so it is here.)
Longest(table, key) ==
  {r \in DOMAIN table : /\ Matches(r, key)
                        /\ \A s \in DOMAIN table : Matches(s, key) => s.width <= r.width}

\* What lpm_search may find.
lpm_search(table, key) == {table[r] : r \in Longest(table, key)}

-----------------------------------------------------------------------------
(* nf_handle of the router                                                 *)

IsManagement(device) == device = DevicesCount - 1

\* A packet whose start is read as a key, a width and a device.
RouteCommand(key, width, value) == [key |-> key, width |-> width, value |-> value]

AfterCommand(table, capacity, cmd) ==
  IF cmd.width > KeyBits THEN table
  ELSE lpm_set(table, capacity, cmd.key, cmd.width, cmd.value)

\* total_length is two bytes in the order of the network, read as if in the
\* order of the processor.
Swapped(bytes) == bytes[1] + 256 * bytes[2]

\* Mutated form of HeaderIsValid: no check of the time to live.
HeaderIsValid_NoTtl(h) ==
  /\ h.ether_type = "ipv4" /\ h.version = 4 /\ h.ihl >= 5
  /\ Swapped(h.total_length) >= h.ihl * 4

\* net_ipv4_checksum_valid is always true.
HeaderIsValid(h) ==
  /\ h.ether_type = "ipv4" /\ h.version = 4 /\ h.ihl >= 5
  /\ Swapped(h.total_length) >= h.ihl * 4
  /\ h.time_to_live # 0

\* The devices that the router may send a packet to: none, or one of these.
RouterChoices(table, h) ==
  IF HeaderIsValid(h) THEN lpm_search(table, h.dst) ELSE {}

\* nf_handle of the no-op function
nop_handle(wan_device, lan_device, device) ==
  IF device = wan_device THEN lan_device ELSE wan_device

-----------------------------------------------------------------------------

\* RFC 1812, section 5.2.2, as the comments of spec.py quote it.
IsValidPacket(h) ==
  /\ h.ether_type = "ipv4" /\ h.version = 4 /\ h.ihl >= 5 /\ h.time_to_live # 0
  /\ h.checksum = "right"
  /\ 256 * h.total_length[1] + h.total_length[2] >= h.ihl * 4

\* What the two checks that are not done as they should be let through, and
\* what they stop: a total length whose bytes mean another length when they
\* are swapped, and any checksum.
IsMisjudged(h) ==
  \/ h.checksum = "wrong"
  \/ (Swapped(h.total_length) >= h.ihl * 4)
     # (256 * h.total_length[1] + h.total_length[2] >= h.ihl * 4)

=============================================================================
