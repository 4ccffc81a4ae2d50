----------------------------- MODULE TinyNfAgent -----------------------------
(***************************************************************************)
(* One TinyNF agent (env/src/net/tinynf/ixgbe.c): the driver loop that     *)
(* takes packets from the receive queue of one 82599 device, lets the      *)
(* network function handle them, and hands them to the transmit queue of   *)
(* every other device, concurrently with the hardware.                     *)
(*                                                                         *)
(* All queues of an agent share one array of packet buffers, slot i of     *)
(* each descriptor ring pointing at buffer i, and ring 0 is both the       *)
(* receive ring and the first transmit ring.  A buffer therefore goes      *)
(* around: the NIC fills it, the driver processes it, every output         *)
(* transmits it, and the driver gives it back by moving the receive tail.  *)
(* There is no lock: driver and NIC only share the descriptors, the tail   *)
(* registers, and the transmit heads the NIC writes back to memory.        *)
(***************************************************************************)
EXTENDS Integers

CONSTANTS
  RingSize,       \* IXGBE_RING_SIZE
  FlushPeriod,    \* IXGBE_AGENT_FLUSH_PERIOD
  RecyclePeriod,  \* IXGBE_AGENT_RECYCLE_PERIOD
  OutputsCount,   \* agent->outputs_count
  WordModulus,    \* 2^64, the modulus of the uint64_t arithmetic on heads
  Payloads,       \* what the handler can leave in a packet buffer
  Wire,           \* a packet as the NIC wrote it, not handled yet
  NoData          \* a zeroed buffer

\* The static_asserts on the three periods, and the fatal() calls of
\* tn_agent_init.  The powers of two only serve to write "modulo" as "&".
ASSUME RingAssumption    == RingSize \in Nat /\ RingSize > 1
ASSUME FlushAssumption   == FlushPeriod \in 1 .. RingSize - 1
ASSUME RecycleAssumption == RecyclePeriod \in 1 .. RingSize - 1
ASSUME OutputsAssumption == OutputsCount \in Nat /\ OutputsCount > 0
ASSUME WordAssumption    == WordModulus \in Nat /\ WordModulus > 2 * RingSize
ASSUME DataAssumption    == Wire \notin Payloads /\ NoData \notin Payloads \cup {Wire}

Slots   == 0 .. RingSize - 1
Outputs == 0 .. OutputsCount - 1

VARIABLES
  \* struct tn_agent and the local variables of tn_run_peragent
  processed_delimiter,    \* next slot the driver looks at
  lengths,                \* agent->lengths: what the handler asked for
  flush_counter,          \* packets handled since the transmit tails moved
  pc,                     \* where the driver is in tn_run_peragent
  n,                      \* the output its inner loops are at
  earliest_transmit_head,
  min_diff,
  \* memory shared with the NIC
  buffer,                 \* contents of the packet buffers
  rings,                  \* rings[n][i]: metadata of descriptor i of ring n
  transmit_heads,         \* heads written back by the NIC
  \* device state
  rdt, tdt,               \* receive tail and transmit tails
  rdh, tdh,               \* receive head and transmit heads inside the NIC
  reported,               \* last head a transmit queue has to write back
  \* history
  promise                 \* promise[n][i]: what output n owes for slot i

driverVars == <<processed_delimiter, lengths, flush_counter, pc, n,
                earliest_transmit_head, min_diff>>
memoryVars == <<buffer, rings, transmit_heads>>
deviceVars == <<rdt, tdt, rdh, tdh, reported>>
vars == <<driverVars, memoryVars, deviceVars, promise>>

-----------------------------------------------------------------------------
(* Ring arithmetic.                                                        *)

\* (i + 1) & (IXGBE_RING_SIZE - 1)
NextSlot(i) == IF i = RingSize - 1 THEN 0 ELSE i + 1

\* (i - 1) & (IXGBE_RING_SIZE - 1)
PrevSlot(i) == IF i = 0 THEN RingSize - 1 ELSE i - 1

\* uint64_t subtraction
SubWord(a, b) == IF a >= b THEN a - b ELSE a - b + WordModulus

\* Number of slots from a up to b, going around the ring.
Distance(a, b) == IF a <= b THEN b - a ELSE RingSize - a + b

\* Slots a, a+1, .., b-1, going around the ring.
Between(i, a, b) == Distance(a, i) < Distance(a, b)

NoPromise == [len |-> 0, data |-> NoData]
Metadata  == [len : {0, 1}, rs : BOOLEAN, dd : BOOLEAN]

\* Descriptors as descriptor_ring_alloc leaves them: zeroed.
EmptyMetadata == [len |-> 0, rs |-> FALSE, dd |-> FALSE]

-----------------------------------------------------------------------------
(* The state tn_agent_init leaves: nothing received or transmitted, all    *)
(* slots but one given to the receive queue.                               *)
Init ==
  /\ processed_delimiter = 0
  /\ lengths = [o \in Outputs |-> 0]
  /\ flush_counter = 0
  /\ pc = "poll"
  /\ n = 0
  /\ earliest_transmit_head = 0
  /\ min_diff = 0
  /\ buffer = [i \in Slots |-> NoData]
  /\ rings = [o \in Outputs |-> [i \in Slots |-> EmptyMetadata]]
  /\ transmit_heads = [o \in Outputs |-> 0]
  /\ rdt = RingSize - 1
  /\ tdt = [o \in Outputs |-> 0]
  /\ rdh = 0
  /\ tdh = [o \in Outputs |-> 0]
  /\ reported = [o \in Outputs |-> 0]
  /\ promise = [o \in Outputs |-> [i \in Slots |-> NoPromise]]

-----------------------------------------------------------------------------
(* The driver: tn_run_peragent.                                            *)

Received == rings[0][processed_delimiter].dd

\* Only every RecyclePeriod-th descriptor asks for a head write-back.
RsBit == processed_delimiter % RecyclePeriod = RecyclePeriod - 1

\* Mutated form of TransmitMetadata: DD survives in the shared ring.
TransmitMetadata_KeepDD(len) == [len |-> len, rs |-> RsBit, dd |-> TRUE]

\* What the driver writes in a descriptor of every ring; in ring 0 it clears
\* the receive DD flag.
TransmitMetadata(len) == [len |-> len, rs |-> RsBit, dd |-> FALSE]

\* agent->lengths once the handler asked for transmission on the outputs out.
LengthsAsked(out) == [o \in Outputs |-> IF o \in out THEN 1 ELSE lengths[o]]

\* Mutated form of LengthsAfter: the reset is forgotten.
LengthsAfter_Kept(out) == LengthsAsked(out)

\* agent->lengths after the descriptors are written.
LengthsAfter(out) == [o \in Outputs |-> 0]

\* One packet: the handler rewrites the buffer to data and asks for
\* transmission on the outputs in out; the descriptor goes to every ring.
HandlePacket(out, data) ==
  LET p == processed_delimiter
  IN  /\ pc = "poll"
      /\ flush_counter < FlushPeriod
      /\ Received
      /\ buffer' = [buffer EXCEPT ![p] = data]
      /\ rings' = [o \in Outputs |->
                     [rings[o] EXCEPT
                        ![p] = TransmitMetadata(LengthsAsked(out)[o])]]
      /\ lengths' = LengthsAfter(out)
      /\ promise' = [o \in Outputs |->
                       [promise[o] EXCEPT
                          ![p] = [len  |-> IF o \in out THEN 1 ELSE 0,
                                  data |-> data]]]
      /\ processed_delimiter' = NextSlot(p)
      /\ flush_counter' = flush_counter + 1
      /\ IF RsBit
         THEN /\ pc' = "recycle"
              /\ n' = 0
              /\ earliest_transmit_head' = NextSlot(p)
              /\ min_diff' = WordModulus - 1
         ELSE UNCHANGED <<pc, n, earliest_transmit_head, min_diff>>
      /\ UNCHANGED <<transmit_heads, deviceVars>>

\* Mutated form of IsEarlier: heads compared as plain indices.
IsEarlier_PlainIndex(head) ==
  n = 0 \/ head <= earliest_transmit_head

\* diff <= min_diff
IsEarlier(head) == SubWord(head, processed_delimiter) <= min_diff

\* One iteration of the loop that looks for the earliest transmit head.
ReadTransmitHead ==
  /\ pc = "recycle"
  /\ n < OutputsCount
  /\ LET head == transmit_heads[n]
     IN  IF IsEarlier(head)
         THEN /\ earliest_transmit_head' = head
              /\ min_diff' = SubWord(head, processed_delimiter)
         ELSE UNCHANGED <<earliest_transmit_head, min_diff>>
  /\ n' = n + 1
  /\ UNCHANGED <<processed_delimiter, lengths, flush_counter, pc,
                 memoryVars, deviceVars, promise>>

\* Mutated form of NewReceiveTail: one slot short.
NewReceiveTail_OneShort == PrevSlot(PrevSlot(earliest_transmit_head))

\* The slot before the earliest transmit head.
NewReceiveTail == PrevSlot(earliest_transmit_head)

\* The write to the receive tail that gives slots back to the NIC.
WriteReceiveTail ==
  /\ pc = "recycle"
  /\ n = OutputsCount
  /\ rdt' = NewReceiveTail
  /\ pc' = "poll"
  /\ UNCHANGED <<processed_delimiter, lengths, flush_counter, n,
                 earliest_transmit_head, min_diff, memoryVars,
                 tdt, rdh, tdh, reported, promise>>

\* Mutated form of BatchEnds: only full batches are flushed.
BatchEnds_FullOnly == flush_counter = FlushPeriod

\* The polling loop ends on the first empty slot or after FlushPeriod packets.
BatchEnds == flush_counter = FlushPeriod \/ ~Received

\* With flush_counter = 0 there is nothing to flush: the function returns and
\* polls again the next time it is called.
EndPolling ==
  /\ pc = "poll"
  /\ BatchEnds
  /\ flush_counter # 0
  /\ pc' = "flush"
  /\ n' = 0
  /\ UNCHANGED <<processed_delimiter, lengths, flush_counter,
                 earliest_transmit_head, min_diff,
                 memoryVars, deviceVars, promise>>

\* Mutated form of NewTransmitTail: the slot being filled is included.
NewTransmitTail_OneTooFar == NextSlot(processed_delimiter)

\* The transmit tails go up to the last handled packet.
NewTransmitTail == processed_delimiter

\* One iteration of the loop that writes the transmit tails, after the last
\* of which the function returns and is called again.
WriteTransmitTail ==
  /\ pc = "flush"
  /\ n < OutputsCount
  /\ tdt' = [tdt EXCEPT ![n] = NewTransmitTail]
  /\ n' = n + 1
  /\ IF n + 1 = OutputsCount
     THEN pc' = "poll" /\ flush_counter' = 0
     ELSE UNCHANGED <<pc, flush_counter>>
  /\ UNCHANGED <<processed_delimiter, lengths, earliest_transmit_head,
                 min_diff, memoryVars, rdt, rdh, tdh, reported, promise>>

Driver ==
  \/ \E out \in SUBSET Outputs, data \in Payloads : HandlePacket(out, data)
  \/ ReadTransmitHead
  \/ WriteReceiveTail
  \/ EndPolling
  \/ WriteTransmitTail

-----------------------------------------------------------------------------
(* The 82599, as the driver relies on it.                                  *)

\* A packet arrives and there is a descriptor for it (packets that arrive
\* when there is none are dropped, SRRCTL.Drop_En): the NIC fills the buffer
\* and the descriptor, DD included.
NicReceive ==
  /\ rdh # rdt
  /\ buffer' = [buffer EXCEPT ![rdh] = Wire]
  /\ rings' = [rings EXCEPT ![0][rdh] = [len |-> 1, rs |-> FALSE, dd |-> TRUE]]
  /\ rdh' = NextSlot(rdh)
  /\ UNCHANGED <<driverVars, transmit_heads, rdt, tdt, tdh, reported, promise>>

\* Output o sends the packet its next descriptor describes (none if its
\* length is 0).  With head write-back on, the descriptor is not written.
NicTransmit(o) ==
  /\ tdh[o] # tdt[o]
  /\ tdh' = [tdh EXCEPT ![o] = NextSlot(@)]
  /\ reported' = IF rings[o][tdh[o]].rs
                 THEN [reported EXCEPT ![o] = NextSlot(tdh[o])]
                 ELSE reported
  /\ promise' = [promise EXCEPT ![o][tdh[o]] = NoPromise]
  /\ UNCHANGED <<driverVars, memoryVars, rdt, tdt, rdh>>

\* The head of output o reaches memory, some time after the descriptor that
\* asked for it was transmitted.
NicWriteBackHead(o) ==
  /\ transmit_heads[o] # reported[o]
  /\ transmit_heads' = [transmit_heads EXCEPT ![o] = reported[o]]
  /\ UNCHANGED <<driverVars, buffer, rings, deviceVars, promise>>

Nic ==
  \/ NicReceive
  \/ \E o \in Outputs : NicTransmit(o) \/ NicWriteBackHead(o)

-----------------------------------------------------------------------------
Next == Driver \/ Nic

Spec == Init /\ [][Next]_vars

\* foreach_index_forever keeps calling every agent, so the driver never stops
\* for good, and a NIC with a link keeps transmitting and writing back heads.
\* Nothing says that packets keep arriving.
Fairness ==
  /\ WF_vars(Driver)
  /\ \A o \in Outputs : WF_vars(NicTransmit(o)) /\ WF_vars(NicWriteBackHead(o))

FairSpec == Spec /\ Fairness

-----------------------------------------------------------------------------
\* tn_run_peragent never indexes outside of a ring or of the outputs, and the
\* registers and heads it shares with the NIC only hold such indices.
TypeOK ==
  /\ processed_delimiter \in Slots
  /\ lengths \in [Outputs -> {0, 1}]
  /\ flush_counter \in 0 .. FlushPeriod
  /\ pc \in {"poll", "recycle", "flush"}
  /\ n \in 0 .. OutputsCount
  /\ earliest_transmit_head \in Slots
  /\ min_diff \in 0 .. WordModulus - 1
  /\ buffer \in [Slots -> Payloads \cup {Wire, NoData}]
  /\ rings \in [Outputs -> [Slots -> Metadata]]
  /\ transmit_heads \in [Outputs -> Slots]
  /\ rdt \in Slots
  /\ tdt \in [Outputs -> Slots]
  /\ rdh \in Slots
  /\ tdh \in [Outputs -> Slots]
  /\ reported \in [Outputs -> Slots]
  /\ promise \in [Outputs -> [Slots -> [len : {0, 1}, data : Payloads \cup {NoData}]]]

\* Slots that output o has still to transmit: handled by the driver, the
\* transmit tail moved past them or not.
Owed(i, o) == Between(i, tdh[o], processed_delimiter)

\* Slots the NIC may fill with a packet at any time.
Receivable(i) == Between(i, rdh, rdt)

\* tn_run_peragent never gives a buffer back to the receive queue while an
\* output has still to transmit it, however late the heads it read were and
\* whichever output lags: the earliest transmit head really is the earliest.
NoReceiveIntoOwed ==
  \A i \in Slots, o \in Outputs : ~(Receivable(i) /\ Owed(i, o))

\* Every output transmits, for every packet, what the handler left in the
\* buffer and the length it asked for on that output: no later packet, and no
\* length left over from an earlier one, gets into a descriptor not yet sent.
TransmitsWhatWasHandled ==
  \A i \in Slots, o \in Outputs :
    Owed(i, o) => /\ buffer[i] = promise[o][i].data
                  /\ rings[o][i].len = promise[o][i].len

\* The DD flag the driver polls is set in exactly the slots received and not
\* yet handled, although ring 0 is also a transmit ring and slots are reused:
\* every packet is handled exactly once, in order.
HandlesEachPacketOnce ==
  \A i \in Slots : rings[0][i].dd <=> Between(i, processed_delimiter, rdh)

\* Position of a slot, from the oldest slot not yet given back to the
\* receive queue.
FromOldest(i) == Distance(NextSlot(rdt), i)

\* Around the ring, from the oldest slot not given back to the receive queue:
\* written-back head, head to write back, head and tail of each transmit
\* queue, the processed delimiter and the receive head come in this order.
\* No pointer overtakes another, however often they wrap around.
RingOrder ==
  /\ \A o \in Outputs :
       /\ FromOldest(transmit_heads[o]) <= FromOldest(reported[o])
       /\ FromOldest(reported[o]) <= FromOldest(tdh[o])
       /\ FromOldest(tdh[o]) <= FromOldest(tdt[o])
       /\ FromOldest(tdt[o]) <= FromOldest(processed_delimiter)
  /\ FromOldest(processed_delimiter) <= FromOldest(rdh)

\* While the driver looks for the earliest head: every transmit tail is still
\* strictly behind the processed delimiter, so no head it reads equals the
\* delimiter and unsigned subtraction orders the heads as the ring does; the
\* earliest head found is behind every head already looked at.
EarliestHeadInv ==
  pc = "recycle" =>
    /\ \A o \in Outputs : FromOldest(tdt[o]) < FromOldest(processed_delimiter)
    /\ n = 0 => /\ earliest_transmit_head = processed_delimiter
                /\ min_diff = WordModulus - 1
    /\ n > 0 => /\ FromOldest(earliest_transmit_head)
                     < FromOldest(processed_delimiter)
                /\ min_diff = SubWord(earliest_transmit_head,
                                      processed_delimiter)
    /\ \A o \in Outputs :
         o < n => FromOldest(earliest_transmit_head)
                    <= FromOldest(transmit_heads[o])

\* Between two packets no length is left over for the next one.
LengthsCleared == \A o \in Outputs : lengths[o] = 0

\* The inductive invariant.
IInv ==
  /\ TypeOK
  /\ RingOrder
  /\ EarliestHeadInv
  /\ LengthsCleared
  /\ TransmitsWhatWasHandled
  /\ HandlesEachPacketOnce

\* The driver never takes back a slot it gave to the receive queue: writing
\* the receive tail only adds slots in front of the receive head.
ReceiveTailOnlyAdvances ==
  [][Distance(rdh, rdt) <= Distance(rdh, rdt')]_<<rdt>>

\* A packet that reached the ring leaves it on every output: the flush after
\* the polling loop is enough, whatever the batch size and even if no packet
\* follows it.
ReceivedIsTransmitted ==
  \A i \in Slots, o \in Outputs :
    Between(i, tdh[o], rdh) ~> ~Between(i, tdh[o], rdh)

\* Reading a transmit head too early only delays recycling: a receive queue
\* that ran out of descriptors gets some back.
ReceiveResumes == (rdh = rdt) ~> (rdh # rdt)
=============================================================================
