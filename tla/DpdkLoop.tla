------------------------------ MODULE DpdkLoop ------------------------------
(***************************************************************************)
(* The main loop of env/src/net/dpdk/main.c: for each device in turn, take *)
(* a batch of received packets, have the network function handle them, and *)
(* transmit what it asked for.  Packets live in mbufs of one shared pool,  *)
(* each of which has one owner: the pool, the loop, a list of packets to   *)
(* transmit, or a NIC.  DPDK and the NICs are external: they are what this *)
(* code expects of them.  The names of this module are its own: its proofs *)
(* are next to those of TinyNF's loop.                                     *)
(***************************************************************************)
EXTENDS Integers, FiniteSets, SequencesExt

CONSTANTS
  Mbufs,          \* the MEMPOOL_BUFFER_COUNT * devices_count mbufs
  BATCH_SIZE,
  devices_count

ASSUME MbufsAssumption   == IsFiniteSet(Mbufs)
ASSUME BatchAssumption   == BATCH_SIZE \in Nat \ {0}
ASSUME DevicesAssumption == devices_count \in 1 .. 2   \* MAX_DEVICES

Devices == 0 .. devices_count - 1

VARIABLES
  pool,           \* mbufs free for DPDK to receive into
  device,         \* the device being served
  stage,             \* "rx", "handle" or "tx"
  bufs,           \* the rest of the batch to handle
  bufs_to_tx,     \* bufs_to_tx[d], up to bufs_to_tx_count[d]
  out_device,     \* the device being transmitted on
  nic,            \* mbufs a NIC has still to transmit
  forgotten       \* history: mbufs of packets that were not transmitted

loop_vars == <<pool, device, stage, bufs, bufs_to_tx, out_device, nic, forgotten>>

LoopInit ==
  /\ pool = Mbufs
  /\ device = 0
  /\ stage = "rx"
  /\ bufs = << >>
  /\ bufs_to_tx = [d \in Devices |-> << >>]
  /\ out_device = 0
  /\ nic = {}
  /\ forgotten = {}

NextDevice(d) == IF d = devices_count - 1 THEN 0 ELSE d + 1

Batches(limit) == {SetToSeq(S) : S \in {T \in SUBSET pool : Cardinality(T) <= limit}}

\* rte_eth_rx_burst: a batch of at most BATCH_SIZE packets, maybe none.
Receive(batch) ==
  /\ stage = "rx"
  /\ bufs' = batch
  /\ pool' = pool \ ToSet(batch)
  /\ stage' = "handle"
  /\ UNCHANGED <<device, bufs_to_tx, out_device, nic, forgotten>>

\* net_transmit: the packet being handled goes to the end of a list.
Queued(d) == [bufs_to_tx EXCEPT ![d] = Append(@, Head(bufs))]

\* nf_handle asks for transmission on one device: with net_transmit, or with
\* a flood when there are two devices.
HandleTransmit(d) ==
  /\ stage = "handle"
  /\ bufs # << >>
  /\ bufs_to_tx' = Queued(d)
  /\ bufs' = Tail(bufs)
  /\ UNCHANGED <<pool, device, stage, out_device, nic, forgotten>>

\* nf_handle returns without: nobody frees the mbuf.
HandleDrop ==
  /\ stage = "handle"
  /\ bufs # << >>
  /\ forgotten' = forgotten \cup {Head(bufs)}
  /\ bufs' = Tail(bufs)
  /\ UNCHANGED <<pool, device, stage, bufs_to_tx, out_device, nic>>

HandledAll ==
  /\ stage = "handle"
  /\ bufs = << >>
  /\ stage' = "tx"
  /\ out_device' = 0
  /\ UNCHANGED <<pool, device, bufs, bufs_to_tx, nic, forgotten>>

\* Mutated form of Unsent: the loop that frees starts one mbuf too late.
Unsent_OffByOne(d, nb_tx) ==
  ToSet(SubSeq(bufs_to_tx[d], nb_tx + 2, Len(bufs_to_tx[d])))

\* The mbufs that rte_eth_tx_burst did not take, which are freed.
Unsent(d, nb_tx) == ToSet(SubSeq(bufs_to_tx[d], nb_tx + 1, Len(bufs_to_tx[d])))

\* Mutated form of ListAfter: the count is not reset.
ListAfter_Kept(list) == list

\* bufs_to_tx_count[out_device] = 0
ListAfter(list) == << >>

\* rte_eth_tx_burst takes the first nb_tx packets of the list.
Transmit(nb_tx) ==
  /\ stage = "tx"
  /\ nic' = nic \cup ToSet(SubSeq(bufs_to_tx[out_device], 1, nb_tx))
  /\ pool' = pool \cup Unsent(out_device, nb_tx)
  /\ bufs_to_tx' = [bufs_to_tx EXCEPT ![out_device] = ListAfter(@)]
  /\ IF out_device = devices_count - 1
     THEN stage' = "rx" /\ device' = NextDevice(device) /\ UNCHANGED out_device
     ELSE out_device' = out_device + 1 /\ UNCHANGED <<stage, device>>
  /\ UNCHANGED <<bufs, forgotten>>

\* A NIC has transmitted a packet, and DPDK frees its mbuf.
NicDone(m) ==
  /\ m \in nic
  /\ nic' = nic \ {m}
  /\ pool' = pool \cup {m}
  /\ UNCHANGED <<device, stage, bufs, bufs_to_tx, out_device, forgotten>>

Loop ==
  \/ \E batch \in Batches(BATCH_SIZE) : Receive(batch)
  \/ \E d \in Devices : HandleTransmit(d)
  \/ HandleDrop
  \/ HandledAll
  \/ \E nb_tx \in 0 .. Len(bufs_to_tx[out_device]) : Transmit(nb_tx)

LoopNext == Loop \/ \E m \in Mbufs : NicDone(m)

LoopSpec == LoopInit /\ [][LoopNext]_loop_vars

\* The loop never stops, and NICs with a link transmit what they took.
FairLoopSpec == LoopSpec /\ WF_loop_vars(Loop) /\ \A m \in Mbufs : WF_loop_vars(NicDone(m))

-----------------------------------------------------------------------------

\* What is in the hands of the loop.
Held == ToSet(bufs) \cup UNION {ToSet(bufs_to_tx[d]) : d \in Devices}

\* The loop keeps mbufs in its lists only, none of which ever outgrows the
\* BATCH_SIZE places of bufs_to_tx.
LoopTypeOK ==
  /\ pool \subseteq Mbufs
  /\ device \in Devices
  /\ stage \in {"rx", "handle", "tx"}
  /\ bufs \in Seq(Mbufs) /\ Len(bufs) <= BATCH_SIZE
  /\ \A d \in Devices :
       bufs_to_tx[d] \in Seq(Mbufs) /\ Len(bufs_to_tx[d]) <= BATCH_SIZE
  /\ out_device \in Devices
  /\ nic \subseteq Mbufs
  /\ forgotten \subseteq Mbufs

\* No mbuf is twice in the lists.
InOnePlace ==
  /\ IsInjective(bufs)
  /\ \A d \in Devices : /\ IsInjective(bufs_to_tx[d])
                        /\ ToSet(bufs) \cap ToSet(bufs_to_tx[d]) = {}
  /\ \A d, e \in Devices :
       d # e => ToSet(bufs_to_tx[d]) \cap ToSet(bufs_to_tx[e]) = {}

\* No mbuf is freed twice, transmitted twice, or received into while the loop
\* or a NIC still has it: every mbuf has at most one owner, and no list gets
\* longer than its array.  An mbuf gets lost exactly when nf_handle does not
\* transmit its packet: what rte_eth_tx_burst refuses is freed, what it takes
\* comes back.
MbufsHaveOneOwner ==
  /\ LoopTypeOK
  /\ InOnePlace
  /\ Held \cap pool = {} /\ Held \cap nic = {} /\ pool \cap nic = {}
  /\ Mbufs \ (pool \cup nic \cup Held) = forgotten

\* Between two calls of main the lists are what the next one relies on: those
\* already sent are empty, and a batch fits in any of them.
ListsAreInTurn ==
  /\ bufs_to_tx \in [Devices -> Seq(Mbufs)]
  /\ stage # "handle" => bufs = << >>
  /\ stage = "rx" => \A d \in Devices : bufs_to_tx[d] = << >>
  /\ stage = "tx" => \A d \in 0 .. out_device - 1 : bufs_to_tx[d] = << >>
  /\ \A d \in Devices : Len(bufs) + Len(bufs_to_tx[d]) <= BATCH_SIZE

\* The inductive invariant.
LoopInv == MbufsHaveOneOwner /\ ListsAreInTurn

\* Packets do not get stuck in the lists: whatever the network function asks
\* to transmit leaves the loop, however few packets follow it.
ListsAreFlushed ==
  \A m \in Mbufs : m \in Held ~> m \notin Held

=============================================================================
