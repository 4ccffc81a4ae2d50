------------------------------- MODULE NfStart -------------------------------
(***************************************************************************)
(* nf_init of every network function: what it reads from its configuration *)
(* (the order does not matter, a read that fails ends it), what else it    *)
(* asks for, and the memory it then allocates, in order.                   *)
(***************************************************************************)
EXTENDS Config, FiniteSets

NetworkFunctions == {"nop", "router", "dhcp", "firewall", "nat", "policer", "maglev", "bridge"}

MAX_CHT_HEIGHT == 40000

\* The names that each network function reads.
Names(nf) ==
  CASE nf = "nop"      -> {"wan device", "lan device"}
    [] nf = "router"   -> {"capacity"}
    [] nf = "dhcp"     -> {"max number dhcp connections", "DHCP ipv4 address", "DHCP ipv4 mask",
                           "gateway ipv4 address", "domain name server ip", "expiration time",
                           "server ether address"}
    [] nf = "firewall" -> {"external device", "expiration time", "max flows"}
    [] nf = "nat"      -> {"external addr", "wan device", "max flows", "expiration time",
                           "start port"}
    [] nf = "policer"  -> {"wan device", "rate", "burst", "max flows"}
    [] nf = "maglev"   -> {"flow capacity", "cht height", "backend expiration time",
                           "flow expiration time"}
    [] nf = "bridge"   -> {"bid", "expiration time", "capacity", "stp update time"}

\* By which function it reads them.  The DHCP server reads a time as 32 bits.
Reader(nf, name) ==
  CASE name \in {"wan device", "lan device", "external device"} -> "device"
    [] name \in {"capacity", "max flows", "flow capacity", "max number dhcp connections",
                 "server ether address"} -> "size"
    [] name \in {"rate", "burst", "bid"} -> "u64"
    [] \/ name \in {"DHCP ipv4 address", "DHCP ipv4 mask", "gateway ipv4 address",
                    "domain name server ip", "external addr"}
       \/ nf = "dhcp" /\ name = "expiration time" -> "u32"
    [] name \in {"start port", "cht height"} -> "u16"
    [] OTHER -> "time"

Read(nf, c, items) ==
  [name \in Names(nf) |->
     CASE Reader(nf, name) = "device" -> os_config_get_device(items, name, c)
       [] Reader(nf, name) = "size"   -> os_config_get_size(items, name)
       [] Reader(nf, name) = "u64"    -> os_config_get_u64(items, name)
       [] Reader(nf, name) = "u32"    -> os_config_get_u32(items, name)
       [] Reader(nf, name) = "u16"    -> os_config_get_u16(items, name)
       [] Reader(nf, name) = "time"   -> os_config_get_time(items, name)]

DevicesFit(nf, c) ==
  CASE nf \in {"firewall", "nat", "policer"} -> c = 2
    [] nf \in {"maglev", "bridge"}           -> c >= 2
    [] OTHER                                 -> TRUE

-----------------------------------------------------------------------------
(* The DHCP server                                                         *)

\* The subnet has that many addresses after its first.
num_ipv4_addr_avail(v) == UINT32_MAX - v["DHCP ipv4 mask"]

\* The subtraction wraps around when the subnet is too small.
Usable(v) == (num_ipv4_addr_avail(v) - 4) % (SIZE_MAX + 1)

\* Mutated form of DhcpCapacity: one address more.
DhcpCapacity_OneMore(v) ==
  LET asked == v["max number dhcp connections"]
  IN  IF Usable(v) + 1 < asked THEN Usable(v) + 1 ELSE asked

DhcpCapacity(v) ==
  LET asked == v["max number dhcp connections"]
  IN  IF Usable(v) < asked THEN Usable(v) ELSE asked

\* The bits of an address that the mask has, for a mask of leading ones.
Masked(ip, v) == ip - (ip % (num_ipv4_addr_avail(v) + 1))

ip_subnet(v) == Masked(v["DHCP ipv4 address"], v)

Reserved(v) == {v["DHCP ipv4 address"], v["gateway ipv4 address"], v["domain name server ip"]}

\* The addresses that the loop of nf_init writes; the rest stay zero.
ip_addresses(v) ==
  LET offered == SelectSeq([k \in 1 .. num_ipv4_addr_avail(v) - 1 |-> ip_subnet(v) + k],
                           LAMBDA ip : ip \notin Reserved(v))
  IN  [i \in 1 .. DhcpCapacity(v) |-> IF i <= Len(offered) THEN offered[i] ELSE 0]

-----------------------------------------------------------------------------

ValuesFit(nf, c, v) ==
  CASE nf = "nop"     -> v["lan device"] # v["wan device"]
    [] nf = "dhcp"    -> DhcpCapacity(v) > 0
    [] nf = "policer" -> v["rate"] # 0 /\ v["burst"] # 0
    [] nf = "maglev"  -> /\ v["cht height"] > 0 /\ v["cht height"] < MAX_CHT_HEIGHT
                         /\ c - 1 < v["cht height"]
    [] OTHER          -> TRUE

\* Doubles real_capacity until it is large enough.
get_real_capacity(capacity) ==
  LET doubled[real_capacity \in 1 .. 2 * capacity] ==
        IF real_capacity < capacity THEN doubled[real_capacity * 2]
                                    ELSE real_capacity
  IN  IF capacity = 0 THEN 0 ELSE doubled[1]

map_alloc(capacity)    == << <<1, 24>>, <<get_real_capacity(capacity), 32>> >>
index_pool_alloc(size) == << <<1, 32>>, <<size, 8>> >>
cht_alloc(h, b)        == << <<1, 16>>, <<h * b, 2>>, <<h * b, 2>>, <<h, 8>> >>

\* The calls to os_memory_alloc; the router's table is an external structure.
Requests(nf, c, v) ==
  CASE nf \in {"nop", "router"} -> <<>>
    [] nf = "dhcp"     -> LET n == DhcpCapacity(v)
                          IN  << <<n, 4>> >> \o index_pool_alloc(n) \o << <<n, 6>> >> \o map_alloc(n)
    [] nf \in {"firewall", "nat"} ->
                          LET n == v["max flows"]
                          IN  << <<1, IF nf = "nat" THEN 40 ELSE 24>>, <<n, 16>> >>
                              \o map_alloc(n) \o index_pool_alloc(n)
    [] nf = "policer"  -> LET n == v["max flows"]
                          IN  << <<n, 16>>, <<n, 4>> >> \o map_alloc(n) \o index_pool_alloc(n)
    [] nf = "maglev"   -> LET n == v["flow capacity"]
                          IN  << <<1, 48>> >> \o map_alloc(n) \o index_pool_alloc(n)
                              \o << <<n, 16>>, <<n, 2>> >> \o index_pool_alloc(c - 1)
                              \o cht_alloc(v["cht height"], c - 1)
    [] nf = "bridge"   -> LET n == v["capacity"]
                          IN  << <<c, 1>>, <<1, 32>>, <<n, 6>>, <<n, 2>> >>
                              \o map_alloc(n) \o index_pool_alloc(n)

\* Whether the network function starts.
Starts(nf, c, items) ==
  LET v == Read(nf, c, items)
  IN  /\ DevicesFit(nf, c)
      /\ \A name \in DOMAIN v : v[name] # NoValue
      /\ ValuesFit(nf, c, v)

nf_init(heap, nf, c, items) == AllocAll(heap, Requests(nf, c, Read(nf, c, items)))

-----------------------------------------------------------------------------

\* What the structures ask of their creator, for all that is allocated.
RequestsAreLegal(nf, c, v) ==
  /\ \A i \in 1 .. Len(Requests(nf, c, v)) :
       Requests(nf, c, v)[i][1] * Requests(nf, c, v)[i][2] <= SIZE_MAX
  /\ \A name \in DOMAIN v \cap {"max flows", "flow capacity", "capacity"} :
       v[name] * 64 <= SIZE_MAX

\* All the addresses a DHCP server may give are there, and are good ones.
AddressesAreGood(v) ==
  LET ips == ip_addresses(v)
  IN  /\ \A i, j \in DOMAIN ips : i # j => ips[i] # ips[j]
      /\ \A i \in DOMAIN ips : /\ ips[i] \notin Reserved(v)
                               /\ Masked(ips[i], v) = ip_subnet(v)
                               /\ ips[i] # ip_subnet(v)
                               /\ ips[i] # ip_subnet(v) + num_ipv4_addr_avail(v)

=============================================================================
