# klint in TLA+

klint is a verifier for binary network functions, together with the environment
they are built on: the data structures and the operating system layer under
`src/env`, two drivers (TinyNF for the Intel 82599, and one on DPDK), and the
network functions under `src/nf`. This directory models the parts that keep
state, checks them with TLC on small instances, and proves the most important
results with TLAPS for every instance.

- [Inventory](#inventory): the parts of the system, their state, what is hard about them
- [Modules](#modules): which module models what, and how
- [Runs](#runs): what is checked, with which bounds, and why they are enough
- [Fairness](#fairness)
- [Proofs](#proofs): what is proved, from what, and along which argument
- [What the checks found](#what-the-checks-found)
- [Not modelled](#not-modelled)
- [Plan](#plan)

To run a check: `tlc -config Flows.cfg MCFlows`. To check a proof:
`tlapm FilterProofs.tla`. `PROJECT.json` lists all runs, the source lines of
every definition, and a mutated form of the code for every property, under which
the property fails.

## Inventory

Everything runs in one thread: `main` sets the devices up, then loops over them
for ever and calls `nf_handle` once per packet. What runs concurrently is the
hardware. There is no persistence: a crash loses all state, and nothing recovers it.

| Part | State | Operations | What is hard | What makes it correct |
|---|---|---|---|---|
| TinyNF agent (`env/src/net/tinynf/ixgbe.c`, `tn_run_peragent`) | rings shared by one receive and several transmit queues, `processed_delimiter`, `flush_counter`, `lengths`, heads and tails | receive, handle, recycle, flush | the NIC reads and writes the same memory at any time; indices wrap around | no buffer is reused while an output owes it; each packet is handled once and sent as the handler asked; everything received leaves |
| TinyNF main (`main.c`) | the agents' `lengths`, the header in the shared buffer | start-up, `net_transmit`, the floods | an agent's outputs skip its input; a flood has one buffer for all copies | packets leave through the devices asked for, with those devices' addresses |
| TinyNF set-up (`ixgbe.c`, `tn_device_init`, `tn_agent_init`) | registers of the devices, flags, rings and tails of the agents | reset, configure, add outputs, set the input | the hardware answers late or never; the order of writes matters; devices are found in any state | only writes the data sheet allows; receiving starts last; the agents' queues are their own |
| DPDK loop (`env/src/net/dpdk/main.c`) | mbufs, lists of packets to transmit | receive, handle, transmit | partial transmission | every mbuf has one owner; lists are flushed |
| Index pool (`env/src/structs/index_pool.c`) | a timestamp per index, where the last scan ended | borrow, refresh, used, return | unsigned arithmetic on times; full pools | its VeriFast contract |
| Map (`env/src/structs/map.c`) | slots with keys by reference, hashes, chain counters | get, set, remove | probing around the end, removal without tombstones | its VeriFast contract |
| Consistent hash table (`env/src/structs/cht.c`) | a table of backends | fill, look up | the filling loop checks no bound | every bucket ranks every backend |
| Firewall, NAT, policer, load balancer, bridge (`nf/*`) | a table each: heap, map and pool, plus devices, buckets, backends or a spanning tree | `nf_handle` on every kind of packet | entries expire lazily; three structures must agree; ports, tokens and costs wrap around | see [Runs](#runs) |
| Router, no-op function (`nf/router`, `nf/nop`) | routes | commands that set routes, header checks, lookup | byte orders; routes back to where a packet came from | forward what RFC 1812 asks for, along the longest prefix |
| DHCP server (`nf/dhcp_ipv4`) | a pool of addresses | `nf_init` only: the handler drops everything | the size of small subnets | all addresses offered are good ones |
| Operating system layer (`env/src/os`) | how much memory is used; the configuration | allocate, translate addresses, read a value | alignment; ranges; running out half way | its contracts; what starts can work |
| klint's full-stack checks (`tool/klint/fullstack`) | registers of the data sheet | which writes are allowed, and what they cause | | used to judge the set-up |
| klint's core (`tool/kalm`, `tool/klint`) | symbolic states, ghost maps, heap fractions | explore, merge, infer | not modelled | |

The hazards behind these properties, each at the line where it bites, are in
`PROJECT.json`; those that no property covers say why.

How the parts interact: a network function only knows its environment through
the headers of `env/include`. It keeps keys in a heap, passes pointers to them to
the map, and uses indices of the pool for the heap. The map keeps the pointers,
and the pool does not know what its indices are for, so the function alone must
keep the three in agreement. The driver calls `nf_handle` with a packet, and
`net_transmit` and the floods leave their decision in the driver's arrays
(`lengths` in TinyNF, `bufs_to_tx` in DPDK).

## Modules

**Data structures.** `IndexPool` has the pool's functions as operators on a value
of its struct; `IndexPoolCalls` is a client that makes any sequence of calls, and
`ExpiringPool` the contract of `index_pool.h` as an abstract specification.
`HashMap` has the functions of `map.c` over its arrays (the slots of the probing
sequence up to where it stops, instead of a loop), and `GhostMap` the contract of
`map.h` with both ghost maps, keys to values and keys to addresses, where memory
holding a key must not be written. `Cht` has the consistent hash table. The
contracts are linked to the code by refinement: `ImplementsPoolContract` maps the
pool's timestamps to the set of items in use, `ImplementsContract` the map's slots
to its ghost maps.

**Network functions.** `FlowTable` is the combination of heap, map and pool that
all of them have; the map is taken at the level of `GhostMap`, the pool as in
`IndexPool`. The lines it is mapped to are those of the firewall's table; the
others repeat them. `Firewall`, `AddressTranslation`, `Policer`, `Balancer` and
`Bridge` extend it. One step is one call to `nf_handle`, with its early returns:
`Other` is the packet that lacks a header, and the other actions are the branches.
Times are those the driver reads; where a function's result depends on clocks
that advance, `now` keeps the last one, and elsewhere (`Firewall`, the pool) times
are arbitrary. `FlowFilter` is the abstract specification of the firewall: what
`nf/firewall/spec.py` says, over a set of flows with their times, and `Firewall`
is shown to implement it. `Cht` writes the filling loops of `cht_alloc` as the
sequence of their iterations, and what is in the table after each of them as a
recursive function.

**Drivers.** `TinyNfAgent` is one agent with its NICs. The driver's steps are
split at each access to memory or registers that the hardware also uses: handle a
packet, read one head, write the receive tail, stop polling, write one transmit
tail. The NIC's steps are external and modelled from what the driver relies on:
receive into the slot at the receive head unless it is the tail, transmit from
the head of one queue up to its tail, and write a head back at any later time,
only for descriptors that asked for it. Heads, tails and the delimiter are slots of
the ring, as in the code; `WordModulus` is the width of the subtraction in line
1249.
`DataSheet` is the 82599 as klint describes it: reset values from `spec_reg.py`,
one row for each field that the driver uses (underscores stand for the spaces in the
tool's names), and one operator per group of actions of `spec_act.py` that says which
writes are allowed in which state. `LeftBehind` is a device as any previous driver may
have left it. `DeviceSetup` is the driver's start-up, from the first
device to `tn_run`, with all writes to registers in their order. Between two reads that wait
for the hardware, the writes are one step. What klint's tool applies at once (a
queue gets enabled, the EEPROM is read) is done by the hardware some time later
here, or never, in which case the driver times out. Setting `DMATXCTL.TE` also
enables queue 0, which `spec_act.py:266-269` mentions and leaves out.
`Registers` has, once as the driver's macros and once as klint's data sheet, the
address of every register and the bits of every field that the driver uses, and
the driver's operations on fields; the real constants, not small ones.
`TinyNfTx` has the three transmit functions as operators on a packet (its device,
header and lengths); `Bridge` uses them too, so that what becomes of a BPDU's
address is TinyNF's doing.
`TinyNfMain` composes all this with the operating system layer and the network
functions: `main` from its first line, `os_init` and `nf_init` included, and then
packets, for the router, the no-op function and the DHCP server, and with every
transmit call that the bridge makes. The loop of the agents is not repeated there:
a packet is handled in one step, and the devices it reached are those of the tails
that `tn_run_peragent` would move.
`DpdkLoop` is the loop of the DPDK driver with the pool of mbufs; `rte_eth_rx_burst`
and `rte_eth_tx_burst` return anything they may.

**Operating system layer.** `Memory` is the allocator (`os_memory_alloc` on a
record of the bytes used and the blocks given out, where halting half way is kept
apart), with Linux's translation of addresses for one huge page. `Config` has the
items of a configuration, `os_config_get` with its comparison of signed numbers,
and the typed accessors. `NfStart` has `nf_init` of every network function: what it
reads, what it refuses, and what it allocates, with the sizes of the structs on a
64-bit machine. One definition covers all eight functions there; its lines in
`PROJECT.json` are those of one of them.

**The router's table** (`Router`) is external: `lpm.h` has no implementation in the
repository. `lpm_set` is klint's model of it; `lpm_search` finds any route with
the longest matching prefix, of which there may be several since keys are stored
with the bits after their prefix. For those `spec.py:57` asks that all of them name the
device a packet is sent to, which `lpm.h` does not promise; the property allows any of
them. A command may name any device, existing or not. When a packet matches a route to one
that does not exist, the model stops, in `Undefined`: `net_transmit` then accesses
arrays beyond their ends, and C says nothing of what follows.

**MC modules** (`MCStructures`, `MCFlows`, `MCPacketLoops`, `MCPolicer`, `MCBalancer`,
`MCBridge`, `MCTinyNfMain`) give constants that a configuration file cannot write down.
Three of them put parts next to each other that never meet in one program, as a sum: a
variable says in the initial state which part runs, and the others stay as they are.
`MCPacketLoops` has the loops of the two drivers, one of which a function is built with;
`MCFlows` the two functions that track flows; and `MCStructures` the pool and the map on their own.
Each part runs by its own `Init`, `Next` and fairness.

**Proofs** are in `PacketLoopProofs` (TinyNF's agent and DPDK's loop),
`TinyNfMainProofs` (the allocator, the start of network functions, the set-up of
devices, and packets from then on), `HashMapProofs`, `FlowTableProofs`, which has the
pool and the flow table, and the modules about the network functions that extend it:
`FilterProofs` (firewall and policer), `AddressTranslationProofs`, `BalancerProofs` and
`BridgeProofs`.

What is abstracted: packets are flows, addresses or model values; headers are
there or not; memory is the value it holds, except where ownership matters
(`HashMap`, `DpdkLoop`, the rings). Integers keep their width where the code relies
on it or could break on it: `TIME_MAX`, `PortModulus`, `WordModulus`, `CostModulus`
stand for 2^64, 2^16, 2^64 and 2^32.

## Runs

| Run | Instance | Distinct states | What it shows |
|---|---|---|---|
| `packet_loops` | TinyNF: ring of 3, flush after 2, recycle after 1, 2 outputs; DPDK: 4 mbufs, batches of 2, 2 devices | 31,667 | TinyNF: no buffer is given back early, resent or overwritten; each packet is handled once and sent as asked; everything received is sent. DPDK: every mbuf has one owner, only drops lose them, lists are flushed |
| `tinynf_wedge` | ring of 8, recycle after 2, 1 output | violation | a receive queue that ran dry may never get descriptors back |
| `structures` | pool: 3 indices, 4 times, expiration times 0, 1 and the maximum; map: 4 keys that collide, capacities 0, 2, 3, symmetric addresses | 74,650 | any legal calls, a pool's at any times, implement the contracts; chain counters stay exact |
| `flows` | 2 hosts, 2 servers, and so 4 flows; 2 flows at a time; 5 times; for the translator, 8 ports from 7 on, so that they wrap around, and words of 3 bits in checksums | 55,185 | firewall: heap, map and pool agree; map and memory are used within contract; it is a `FlowFilter`. Translator: the same agreement; live flows keep their port; answers reach their sender; nothing else gets in |
| `nat_checksums` | as `flows` | violation | a packet leaves with wrong checksums in its IPv4 header and in its segment |
| `policer` | 3 symmetric addresses, 2 buckets, 6 times, a factor of 2 and words of 3 bits; rate and burst 1 and 2, 2 and 3, 3 and 2; 2 and 4, 2 and 7, for which words wrap around; rate 0, which is refused | 538,585 | sharing buckets gives every address what a bucket of its own would, up to what truncated divisions add and wrapped words change |
| `balancer` | 3 flows, 2 places, 2 backends, height 3; tables of all heights from 2 to 10 | 89,910 | the table stays in sync; buckets rank all backends for exactly the heights whose permutations are ones; packets go to responsive backends as long as there are any, new flows to the first of their ranking |
| `balancer_sticky` | as `balancer` | violation | a known flow leaves its backend |
| `bridge` | 3 stations, 2 places, 2 devices, costs modulo 32, 3 offers | 43,203 | the table follows stations that move; the elected path is the best one offered |
| `bridge_root_port` | as `bridge` | violation | the port to the root gets disabled |
| `device_setup` | 3 devices, 2 receive and 6 transmit queues, tables of 2; 4 MB of memory in one page; 9 configurations, 10 headers, addresses of 1 bit, commands for devices 0 to 3; about 1,000 more configurations that are only started | 195,292 | memory keeps its contract; every write is allowed, receiving starts last, queues are wired as `main.c` expects; registers are the data sheet's; what starts is sound; packets leave where asked, routed as RFC 1812 says |
| `rings_of_two_devices` | as `device_setup`, with 2 devices | violation | descriptor rings are not aligned to 128 bytes |

The bounds are the smallest ones where everything can happen: more keys than
places, so that entries are evicted; clocks longer than two expiration times, so
that entries expire, are reused and expire again; times below the expiration time,
so that subtractions wrap around; fewer ports than the offset plus the flows, so
that ports wrap; a ring around which packets go while an output lags behind; two
outputs that progress differently; as many transmit queues as the agents of three
devices need and no more. What larger instances would add
is more of the same: the code treats all slots, indices, flows and devices alike.

`CHECK_DEADLOCK FALSE` is used where the system may stop: TinyNF's agent waits for
packets (the spec has no arrival fairness), and `TinyNfMain` ends when the
hardware, the memory or the configuration does not suit. DPDK's loop shares the run of
the agent, so its deadlocks are not looked for either. The other
models never stop, since another packet or call is always possible.

`WritesAreAllowed` has one exception, which is stated in the property: when the
master-enable status bit clears between the driver's last look at it and its
flush, the flush sets `HLREG0.LPBK` although the action in `spec_act.py:478` asks
for the bit to be set. The flush is then superfluous, and a reset follows.

`NeverOverRate` and `TokensAreExact` compare the policer with two ideal buckets per
address: a strict one, and a generous one that is full as soon as the truncated
division says so. They coincide when the rate divides the burst; when the burst is
below the rate the bucket is always full. No rate or burst is left out that `nf_init`
takes. What a burst whose products wrap around in a word can do is in two conditions,
one for each product, and each bears on one side of the comparison only:
`ExpiresNoSoonerThanFull`, without which an address may be given a new, full bucket too
early (rate 2 and burst 4 in the run: the product of line 40 is 0), and
`RefillsFit`, without which an address may lose tokens (rate 2 and burst 7). Without
either condition TLC finds a counterexample. The configuration in the repository has 10^15
for both, so its product in line 40 wraps around, to about 2 * 10^18: indices expire
after 2,003 units of time instead of 10^9. Both conditions hold for it, since its bucket is
full after one.

`BucketsRankAllBackends` says exactly for which heights the table overflows, as the
comment in `cht.h` is a question: in all other cases buckets rank all backends.

Some properties are silent where the code does other than a comment or `spec.py` says, and no run
shows it ([below](#what-the-checks-found)): `RouterFollowsItsSpec` on headers that are
misjudged, `PacketsLeaveWhereAsked` on a packet for its own device and on the
addresses of copies, `OnlyResponsiveBackends` on what is due when all backends have
expired, and `DhcpPoolIsSound` on subnets with no more than the four addresses that
`dhcp.c:145` reserves.

`AllocationsKeepTheirContract` has the formal contract at line 31 of `memory.h`,
alignment to the size of one object; the comment at line 24 says to the whole length,
which nothing relies on.

`StartsOnlyWhenSound`, `DhcpPoolIsSound`, `BucketsRankAllBackends` and the registers of
`CardUnderstandsTheDriver` are about pure definitions, and are evaluated in the initial
states.

## Fairness

- `TinyNfAgent`: weak fairness of the driver's loop, which `foreach_index_forever`
  runs without end, and of each NIC's transmission and write-back, which the
  hardware does on its own. No fairness of packet arrival: a property that needs
  another packet to arrive is not a guarantee. `ReceivedIsTransmitted` holds under
  it, `ReceiveResumes` does not.
- `DpdkLoop`: weak fairness of the loop, which never stops, and of the NICs
  finishing what they took.
- No other run has a liveness property. The data structures and the network
  functions are called by others, and the waits of `DeviceSetup` all time out.

## Proofs

TLAPS checks every step; nothing is assumed beyond the named assumptions on
constants, which TLC evaluates in the runs, and a hypothesis that each of five
theorems states. Every theorem is about every value of the constants: sets of
keys of any size, any capacity, any expiration time, any width of the clock.

**The agent** (`PacketLoopProofs`), for every ring size, flush and recycle
period and number of outputs, assuming the periods are below the ring size and the
machine word wider than twice the ring. `AgentInvariant` proves the inductive
invariant `IInv`, the conjunction of

- `RingOrder`: around the ring, all of the agent's pointers keep their order: each
  output's written-back head, its head, its tail, what was processed, what was
  received, and the receive tail, less than a ring apart. `NoReceiveIntoOwed` alone
  is not inductive: it is about two pointers only, and each moves relative to the
  ones in between;
- `EarliestHeadInv`: while the driver goes through the heads, the earliest one
  found so far is behind all those read, and was behind the others when they were
  read. This is where the wrapped subtraction of line 1249 is shown to order heads
  correctly, given `RingOrder`;
- `LengthsCleared`, `TransmitsWhatWasHandled` and `HandlesEachPacketOnce`, which
  relate the descriptors between these pointers to what was decided for them.

From it follow `PointersKeepOrder`, `BuffersAreSafe`, `TransmitsHandledPackets`, `HandledOnce` and
`TailAdvances` (an action property), the safety properties of the run.

**DPDK's loop** (`PacketLoopProofs`): `MbufOwnership`, for any set of mbufs, any batch
size, and whatever the cards receive and take. The inductive invariant is `LoopInv`:
`MbufsHaveOneOwner` itself is not enough, as it allows lists that are left over from
the last batch, which the next one would overflow. `ListsAreInTurn` says that the lists
are empty when a batch is received and those already sent stay so, and that the rest of
the batch fits in any of them. The proof that the loop flushes its lists is about
fairness and stays with TLC.

**The index pool** (`FlowTableProofs`): `PoolTypeCorrect`, and
`PoolImplementsContract`: for every size, expiration time and width of `time_t`,
the code implements the contract of `index_pool.h`. The type invariant is the only
invariant needed; the work is in showing that the scan finds an index whenever the
contract says that one is available, and that the comparison of wrapped times is
the contract's `pool_young`.

**The map** (`HashMapProofs`): `MapChainsCountPassers` and `MapImplementsContract`.
The invariant has `ChainsCountPassers`, which says that the counter of a slot is
the number of stored keys whose probing goes past it; `Distinct`, that no two slots
hold the same key; and `HashesKept`, that the hash next to a key is the key's. The
contract needs all three: the counter lets a lookup stop early exactly when the key
is not there, equal hashes and keys find the right slot, and only one slot can be
found. That probing finds a free slot when there is room is a counting argument.
That the counters do not wrap around follows from counting too, since a set of
passers is no larger than the capacity.

**Flow tables** (`FlowTableProofs`): the operations that the network functions make
of heap, map and pool keep the three in agreement, and stay within the contracts of
`map.h` (`AllocInSync`, `RefreshInSync`, `InsertInSync`, `InsertLegal`). These lemmas
are about tables, not about a specification, so each network function cites them,
and has `InSync` and its types in its invariant.

**The firewall** (`FilterProofs`): heap, map and pool agree after every packet
(`FirewallTableInSync`), all calls are within the contract of `map.h`
(`FirewallCallsAreLegal`), and `FirewallIsFlowFilter`: the firewall implements
`FlowFilter` under the mapping of its table to flows and their times. The step that
learns a flow takes the most work: a borrow that evicts must forget exactly one
expired flow, and a borrow that fails must mean that all places have live flows.

**The address translator** (`AddressTranslationProofs`): `TranslatorTableInSync`,
`TranslatorKeepsPorts`, `TranslatorLetsOnlyAnswersIn` and
`TranslatorAnswersReachTheirSender`. The invariant adds `Sessions`: the port a live
flow was last seen with is the port of its index, whose timestamp is at least that of the
flow's last packet, and a flow that is not in the table has expired. The last theorem has
the hypothesis `MaxFlows <= PortModulus`; without it two flows share a port, and
`nat.c` does not check it. The other three need no such thing.

**The policer** (`FilterProofs`): `PolicerTableInSync`, `PolicerNeverOverRate` and
`PolicerTokensAreExact`, for any rate and burst that `nf_init` takes; all that
`WordAssumption` says is that they are words. The invariant
has a `Ledger`: the bucket of a known address is as old as its index and lies between
its two ideal ones, on each side as far as the condition for that side holds, and the
ideal ones of an unknown address are full. It is what makes reusing buckets harmless: by
the time an index can be given away, its bucket is full. That needs the product of line
40, modulo the size of a word and divided by the rate, to be at least the truncated
burst / rate, less the one tick for which an index outlives its expiration time
(`FullBeforeExpired`). That the sum of line 59 may wrap around only makes a bucket
smaller, so the generous side does not depend on it (`RefillFacts`).

**The load balancer** (`BalancerProofs`): `BalancerTableInSync`, where a stale
mapping is removed between two packets' worth of calls, for whatever the consistent
hash table holds; and `BalancerOnlyResponsiveBackends`. Its invariant adds
`Heartbeats`: the pool has the time of every backend's last heartbeat. That a packet
goes to some backend whenever one responds needs more: that every bucket has every
backend. This is an induction over the iterations of the filling loops, whose invariant
(`RowFilled`) counts the visitors of each bucket: as long as a backend never visits a bucket
twice, no bucket gets more visitors than it has places, so nothing is written outside
of its row, and after the last iteration everyone has been everywhere. That
it never does is the hypothesis `AllPermutations`: no shift has a divisor in common with
the height. `PrimeHeightsAreEnough` replaces it by the height being prime, as the question
in line 18 of `cht.h` has it.

**The bridge** (`BridgeProofs`): `BridgeTableInSync` and
`BridgeEntriesFollowStations`, which are inductive together (`TableInv`), although
stations move between devices, in both the map and the array of devices;
`BridgeElectsTheBestPath`, on its own, for any cost and any number of offers.

**TinyNF's main** (`TinyNfMainProofs`), for any number of devices, queues and
descriptors, any size of memory, any configurations and any packets, assuming what
`QueuesAssumption`, `TableAssumption` (there are queues and tables, and what the data
sheet leaves open is no number), `MemoryAssumption` (all memory is in one huge page),
`SizesAssumption` and `WidthsAssumption` (a `size_t` holds the sizes of the driver's
arrays and of two packets' worth of 16-bit numbers), `ConfigsAssumption` and
`HeadersAssumption` (the types of configurations and headers) say:

- `RoutesByLongestPrefix`. `RouterInv` relates the last packet to the routes that
  were set when it came; other network functions leave the routes alone. Among
  the routes that match there is a longest one, as widths are bounded. The specification and the code agree on every header up to the checks that
  the property names.
- `LeavesWhereAsked`. `WiringInv` has where the driver is (`LoopsOK`), which tails of
  the agents are set by then, and to what (`TailsOK`): the output of agent a to
  device d has the tail of queue `QueueIndex(a, d)` of d. The agents and the transmit
  functions skip a device's own index in the same way (`DeviceOfIndex`), so that
  the lengths that a call wrote are those of the outputs to the devices it was for. A
  packet for its own device has no such output, and the theorem says nothing of it; of the
  addresses, it only says those of a packet for one device.
- `AllocatorKeepsContract`. `HeapInv` is about the blocks given out: in order, apart,
  aligned, and below what is used. That an allocation keeps it needs a legal request,
  so the requests of all network functions are shown to be legal first, whatever sizes
  their configuration has (`StartRequestsLegal`, from `StartOK`), as are the driver's. That
  a sequence of requests keeps the contract however long it is (`AllocAllKeeps`) is an
  induction on a recursive function, done by the first request after which it would not.
- `StartsSoundly`: whatever has sizes that its structures cannot have, or names devices
  that there are not, is refused by `nf_init`.
- `DriverWritesAreAllowed`, `ReceptionEnabledLast` and `NoSoftwareFailure`, from
  `SetupInv`. It follows each device through the driver's steps (`StageOK`): as it was
  left before (`IsFresh`), then with its previous driver's work undone
  (`IsResetting`), then reset, with the queue for reception and those for transmission
  off until the agents that own them turn them on, and finally receiving, which implies
  the rest (`ReceivesSafely`). Most steps touch one device, and the others stay where
  they are (`Stays`). Whether a write is allowed depends on the registers it finds, so
  each step's writes are followed one by one, hardware in between included. The
  exception of `WritesAreAllowed` is the only step with a write that the invariant does
  not cover. `NoSoftwareFailure` has the hypotheses that there are two devices and that
  each has a queue for every output of every agent, as in the run;
  with fewer queues, the driver does stop.
- `QueuesWiredRight`, for any number of devices. `WiringInv` has the tails;
  `AddressesInv` has the addresses of buffers and rings, and `QueuesInv` what the queue of
  each output was given (`QueueOK`) and that each input receives into the first ring
  of its agent (`InputOK`), whatever the hardware still owes to earlier writes
  (`DuesOK`). A card ignores the low 7 bits of an address it is given (`RingBase`), so
  whether it finds the ring there is another question:
- `OddRingsAreAligned`: with an odd number of devices it does. An agent then has an even
  number of outputs, so the heads (64 bytes each) that the driver allocates before a
  ring keep the next one aligned. The run `rings_of_two_devices` shows what happens
  with an even number.

**Only model-checked**, and why:

- `ReceivedIsTransmitted` of the agent and the liveness of the DPDK loop: they hold under
  fairness, which these provers do not reason about.
- `BucketsRankAllBackends` and `NewFlowsFollowTheRanking`: that buckets have all
  backends is proved, that they have them in the order of the ranking is not, as the
  ranking is computed by a sort of the library.
- `CardUnderstandsTheDriver`: a formula with no constants but the tables of registers,
  which TLC evaluates completely; there is no other instance.
- `DhcpPoolIsSound`: about which addresses are in a list that the code fills by a loop.

## What the checks found

Disagreements between the code and its own comments, contracts and specifications that a
run shows:

- `tinynf_wedge`: the comment at `ixgbe.c:1243-1244` calls the race between reading
  heads and their update by the hardware fine. But heads are read while handling a
  packet only. If the last reads before the receive queue ran dry were old, there
  is no packet left to handle, no descriptor is ever given back, and the agent stops
  for good.
- `rings_of_two_devices`: the lines that give a ring to a card ("This alignment is
  guaranteed by the agent initialization", `ixgbe.c:991` and `:1078`) are wrong for an even
  number of devices: each ring starts on a boundary of 64 bytes and not of 128, and
  the card ignores the difference. The firewall, the translator and the policer
  ask for two.
- `nat_checksums`: `packet.h:104` refers to RFC 1624, whose sum adds carries back; line
  105 drops them. `net_packet_checksum_update`, says `packet.h:108`, updates the checksum for
  a word of the IP header; line 114 updates the two bytes at offset 12, part of the
  source address, instead of the checksum at offset 10, which stays as it was. The source
  address is then overwritten in a packet to a server; in one to a host, which keeps its
  source, it is changed unless the updates cancel out. The property only asks for one right
  checksum, so that the packet in the counterexample has neither.
- `balancer_sticky`: `balancer.h:50` reads the backend of a known flow from
  `flow_backends`, which nothing writes. Every known flow goes to backend 0 once
  that is alive, not to its own backend as lines 49-52 say.
- `bridge_root_port`: "The port to the root must be enabled" (`spanning_tree.h:94`), but
  line 65 disables it for a worse root offered there later.

Disagreements that the models have as the code does, without a run of their own; no property
states the code's side as if it were right:

- By the contract in `cht.h:43-46`, klint's model of it and `maglev/spec.py:30-31`, a packet is
  dropped only if no backend is in the pool. `cht.c:50` also refuses the expired ones, so
  packets are dropped when all have expired (`AlivePlaces` in `Balancer`).
- "If the info changed, broadcast it to others" (`spanning_tree.h:88`). Line 92 floods
  with `UPDATE_ETHER_ADDRS`, so BPDUs leave with an endpoint's address and no bridge
  recognises them (`for_bridges` in `Bridge`).
- `tx.h:10` transmits "on the given device". For the device that a packet came from,
  `main.c:15` has the output of the device after it; `router.c:69` does not check for such
  routes (`index_from_device` in `TinyNfTx`).
- `tx.h:13` transmits "unmodified". A flood with `UPDATE_ETHER_ADDRS` sends all copies
  with the addresses of the last device (`net_flood_except` in `TinyNfTx`).
- "Invalid IP packets must not be forwarded" (`router/spec.py:34`). `router.c:52` compares a
  length with its bytes swapped, and `net_ipv4_checksum_valid` accepts everything
  (`IsMisjudged` in `Router`).
- `dhcp.c:144` ensures that the pool "is not bigger than that of the number of IP
  addresses available"; with fewer than four, the subtraction of line 146 wraps around
  (`Usable` in `NfStart`).
- The number of mbufs "just needs to be high enough" (`dpdk/main.c:15`), but a dropped
  packet's mbuf is never freed, and no number is (`forgotten` in `DpdkLoop`).

Other observations made while modelling, which no run is about:

- `nat.c` does not bound `max_flows`: above 65,536 two live flows share a port. A
  packet from the wrong server refreshes the mapping before it is dropped.
- `cht.h:18` asks how to check that a height is prime. Nothing does: for heights such as 4
  and 6, the filling loop overflows buckets, as `BucketsRankAllBackends` says.
- `policer.c`: with a burst below the rate, nothing is limited; with a rate that does
  not divide the burst, a bucket is full up to one tick early. The unit of the
  expiration time of line 40 is 10^9 times that of the refill in line 59.
- `spanning_tree.h:73`: a cost near 2^32 wraps around and wins.
- The configurations in `src/nf/router/config` and `src/nf/dhcp_ipv4/config` do not
  start at all: a name is missing in the first, and misspelt in the second.
- With 12 devices or more, `tn_agent_init` runs out of transmit queues
  (`DeviceSetup` with a smaller `TransmitQueuesCount` shows it).
- `endpoint_macs` are all zero for fewer than 1,024 devices (`main.c:87`).
- `lpm_set`'s precondition, that the pair is not in the table yet, is not checked by
  the router; klint's `lpm.py:106-110` only finds routes of the very key searched.
- The DHCP server gives the pool its lease time in seconds, where packets have
  times in nanoseconds (`dhcp.c:152`).
- `os/metal/clock.c` waits for a time with `!=`, and would miss it.
- klint's model of the hardware answers at once, so its checks never execute the
  driver's timeouts and flush; `device.py:113` stops device creation altogether.

## Not modelled

- The DHCP server's functions for messages (`dhcp.c:21-110`, most of `dhcp.h`): the
  calls to them are commented out, nothing runs them.
- Header accessors of `packet.h`: they keep no state; that they fail is an action of
  every network function.
- Of the operating system layer: clocks, PCI ports, boot code, and the variants for
  DPDK and bare metal; of the DPDK driver: the set-up, which is calls to a library.
- The Rust policer: it takes the branches of the C one, which `Policer` models.
- klint's own core: symbolic execution, merging, heap, ghost maps. What these do
  depends on a solver's answers about symbolic terms; a model would replace the
  solver by free choice, and show nothing of the code.
- The lemmas under `env/include/proof` and the annotations in the data structures:
  they are VeriFast proofs, not code. Benchmarks and build files.

## Plan

Done, in this order: pool and contract, map and contract, flow table, firewall and
abstract filter, agent, NAT, policer, balancer and hash table, bridge, DPDK loop,
device set-up; proofs of the agent, the pool and the firewall's table; then the
transmit functions, main with the operating system layer and the start of all
network functions, the router, the registers, checksums, and rates and heights of
any kind.

Then the proofs of the map, of the firewall's refinement, and of the tables and the
main properties of translator, policer, balancer and bridge; of the DPDK loop; and of
TinyNF from the first line of `main`.

What is left:

1. The order of the backends in a bucket, with the ranking stated as a relation
   instead of a sorted sequence.
