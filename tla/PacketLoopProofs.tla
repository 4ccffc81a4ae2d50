-------------------------- MODULE PacketLoopProofs ---------------------------
(***************************************************************************)
(* Proofs about the packet loops of the two drivers: TinyNF's, for every   *)
(* ring size, period and number of outputs, then that of DPDK, for every   *)
(* number of mbufs and every size of a batch.                              *)
(***************************************************************************)
EXTENDS TinyNfAgent, DpdkLoop, FiniteSetTheorems, TLAPS

-----------------------------------------------------------------------------
(* Facts about the ring.                                                   *)

\* The operations on slots stay on the ring.
LEMMA SlotTypes ==
  ASSUME NEW a \in Slots, NEW b \in Slots
  PROVE  /\ NextSlot(a) \in Slots
         /\ PrevSlot(a) \in Slots
         /\ Distance(a, b) \in Slots
  BY RingAssumption DEF Slots, NextSlot, PrevSlot, Distance

\* The successor of the predecessor is the slot itself.
LEMMA NextOfPrev ==
  ASSUME NEW a \in Slots
  PROVE  NextSlot(PrevSlot(a)) = a
  BY RingAssumption DEF Slots, NextSlot, PrevSlot

\* Seen from base, the slot just before base is the farthest one.
LEMMA DistanceToLast ==
  ASSUME NEW t \in Slots
  PROVE  Distance(NextSlot(t), t) = RingSize - 1
  BY RingAssumption DEF Slots, NextSlot, Distance

\* Two slots at the same distance are the same.
LEMMA DistanceInjective ==
  ASSUME NEW base \in Slots, NEW a \in Slots, NEW b \in Slots,
         Distance(base, a) = Distance(base, b)
  PROVE  a = b
  BY RingAssumption DEF Slots, Distance

\* Moving one slot forward adds one to the distance, unless it wraps around.
LEMMA DistanceNext ==
  ASSUME NEW base \in Slots, NEW a \in Slots,
         Distance(base, a) < RingSize - 1
  PROVE  Distance(base, NextSlot(a)) = Distance(base, a) + 1
  BY RingAssumption DEF Slots, NextSlot, Distance

\* Distances from a slot c further on.
LEMMA DistanceRebase ==
  ASSUME NEW base \in Slots, NEW c \in Slots, NEW a \in Slots,
         Distance(base, c) <= Distance(base, a)
  PROVE  Distance(c, a) = Distance(base, a) - Distance(base, c)
  BY RingAssumption DEF Slots, Distance

\* A range of slots, in terms of distances from base.
LEMMA BetweenByDistance ==
  ASSUME NEW base \in Slots, NEW a \in Slots, NEW b \in Slots, NEW i \in Slots,
         Distance(base, a) <= Distance(base, b)
  PROVE  Between(i, a, b) <=> /\ Distance(base, a) <= Distance(base, i)
                              /\ Distance(base, i) < Distance(base, b)
  BY RingAssumption DEF Slots, Distance, Between

\* For slots strictly behind p, unsigned subtraction of p orders them as the
\* ring does.
LEMMA SubWordOrder ==
  ASSUME NEW base \in Slots, NEW p \in Slots, NEW a \in Slots, NEW b \in Slots,
         Distance(base, a) < Distance(base, p),
         Distance(base, b) < Distance(base, p)
  PROVE  SubWord(a, p) <= SubWord(b, p)
           <=> Distance(base, a) <= Distance(base, b)
  BY RingAssumption, WordAssumption DEF Slots, Distance, SubWord

\* The difference is a machine word.
LEMMA SubWordType ==
  ASSUME NEW p \in Slots, NEW a \in Slots
  PROVE  SubWord(a, p) \in 0 .. WordModulus - 1
  BY RingAssumption, WordAssumption DEF Slots, SubWord

-----------------------------------------------------------------------------
(* The type invariant.                                                     *)

\* One step keeps the types.
LEMMA TypeStep ==
  ASSUME TypeOK, [Next]_vars
  PROVE  TypeOK'
<1> USE RingAssumption, FlushAssumption, RecycleAssumption,
        OutputsAssumption, WordAssumption
<1> USE DEF TypeOK
<1>1. ASSUME NEW out \in SUBSET Outputs, NEW data \in Payloads,
             HandlePacket(out, data)
      PROVE  TypeOK'
  <2>1. NextSlot(processed_delimiter) \in Slots
    BY SlotTypes
  <2>2. RsBit \in BOOLEAN
    BY DEF RsBit
  <2>3. rings' \in [Outputs -> [Slots -> Metadata]]
    BY <1>1, <2>2 DEF HandlePacket, TransmitMetadata, LengthsAsked, Metadata
  <2>4. promise' \in [Outputs -> [Slots ->
                        [len : {0, 1}, data : Payloads \cup {NoData}]]]
    BY <1>1 DEF HandlePacket
  <2>5. flush_counter' \in 0 .. FlushPeriod
    BY <1>1 DEF HandlePacket
  <2>6. /\ earliest_transmit_head' \in Slots
        /\ min_diff' \in 0 .. WordModulus - 1
        /\ n' \in 0 .. OutputsCount
        /\ pc' \in {"poll", "recycle", "flush"}
    BY <1>1, <2>1 DEF HandlePacket
  <2> QED
    BY <1>1, <2>1, <2>3, <2>4, <2>5, <2>6 DEF HandlePacket, LengthsAfter, deviceVars
<1>2. CASE ReadTransmitHead
  <2>1. n \in Outputs
    BY <1>2 DEF ReadTransmitHead, Outputs
  <2>2. SubWord(transmit_heads[n], processed_delimiter)
          \in 0 .. WordModulus - 1
    BY <2>1, SubWordType
  <2> QED
    BY <1>2, <2>1, <2>2 DEF ReadTransmitHead, memoryVars, deviceVars
<1>3. CASE WriteReceiveTail
  BY <1>3, SlotTypes DEF WriteReceiveTail, NewReceiveTail, memoryVars
<1>4. CASE EndPolling
  BY <1>4 DEF EndPolling, memoryVars, deviceVars
<1>5. CASE WriteTransmitTail
  <2>1. n \in Outputs
    BY <1>5 DEF WriteTransmitTail, Outputs
  <2> QED
    BY <1>5, <2>1 DEF WriteTransmitTail, NewTransmitTail, memoryVars
<1>6. CASE NicReceive
  <2>1. 0 \in Outputs
    BY DEF Outputs
  <2>2. rings' \in [Outputs -> [Slots -> Metadata]]
    BY <1>6, <2>1 DEF NicReceive, Metadata
  <2> QED
    BY <1>6, <2>2, SlotTypes DEF NicReceive, driverVars
<1>7. ASSUME NEW o \in Outputs, NicTransmit(o)
      PROVE  TypeOK'
  <2>1. NextSlot(tdh[o]) \in Slots
    BY SlotTypes
  <2>2. promise' \in [Outputs -> [Slots ->
                        [len : {0, 1}, data : Payloads \cup {NoData}]]]
    BY <1>7 DEF NicTransmit, NoPromise
  <2> QED
    BY <1>7, <2>1, <2>2 DEF NicTransmit, driverVars, memoryVars
<1>8. ASSUME NEW o \in Outputs, NicWriteBackHead(o)
      PROVE  TypeOK'
  BY <1>8 DEF NicWriteBackHead, driverVars, deviceVars
<1>9. CASE UNCHANGED vars
  BY <1>9 DEF vars, driverVars, memoryVars, deviceVars
<1> QED
  BY <1>1, <1>2, <1>3, <1>4, <1>5, <1>6, <1>7, <1>8, <1>9
     DEF Next, Driver, Nic

\* Every variable keeps its type: indices stay on the ring, the unsigned
\* difference stays a machine word, the output counter of the inner loops
\* never runs past the outputs.
THEOREM TypeCorrect == Spec => []TypeOK
<1>1. Init => TypeOK
  BY RingAssumption, FlushAssumption, OutputsAssumption, WordAssumption
     DEF Init, TypeOK, Slots, Outputs, EmptyMetadata, Metadata, NoPromise
<1>2. TypeOK /\ [Next]_vars => TypeOK'
  BY TypeStep
<1> QED
  BY <1>1, <1>2, PTL DEF Spec

-----------------------------------------------------------------------------
(* The order of the pointers on the ring.                                  *)

\* Positions are slots, the oldest slot is at 0, the receive tail is last.
LEMMA FromOldestFacts ==
  ASSUME TypeOK
  PROVE  /\ NextSlot(rdt) \in Slots
         /\ \A i \in Slots : FromOldest(i) \in Slots
         /\ FromOldest(rdt) = RingSize - 1
         /\ \A i, j \in Slots : FromOldest(i) = FromOldest(j) => i = j
         /\ \A i \in Slots : FromOldest(i) < RingSize - 1
                               => FromOldest(NextSlot(i)) = FromOldest(i) + 1
         /\ \A i, a, b \in Slots :
              FromOldest(a) <= FromOldest(b)
                => (Between(i, a, b) <=> /\ FromOldest(a) <= FromOldest(i)
                                         /\ FromOldest(i) < FromOldest(b))
<1>1. rdt \in Slots /\ NextSlot(rdt) \in Slots
  BY SlotTypes DEF TypeOK
<1> QED
  BY <1>1, SlotTypes, DistanceToLast, DistanceInjective, DistanceNext,
     BetweenByDistance DEF FromOldest

\* Different slots have different positions.
LEMMA PositionsDiffer ==
  ASSUME TypeOK, NEW i \in Slots, NEW j \in Slots, i # j
  PROVE  FromOldest(i) # FromOldest(j)
  BY FromOldestFacts

\* The pointers are slots and their positions are numbers.
LEMMA PointerTypes ==
  ASSUME TypeOK
  PROVE  /\ processed_delimiter \in Slots /\ rdh \in Slots /\ rdt \in Slots
         /\ FromOldest(processed_delimiter) \in Int /\ FromOldest(rdh) \in Int
         /\ \A o \in Outputs :
              /\ tdh[o] \in Slots /\ tdt[o] \in Slots
              /\ transmit_heads[o] \in Slots /\ reported[o] \in Slots
              /\ FromOldest(tdh[o]) \in Int /\ FromOldest(tdt[o]) \in Int
              /\ FromOldest(transmit_heads[o]) \in Int
              /\ FromOldest(reported[o]) \in Int
         /\ \A i \in Slots : FromOldest(i) \in Int
<1>1. \A i \in Slots : FromOldest(i) \in Int
  BY FromOldestFacts DEF Slots
<1> QED
  BY <1>1 DEF TypeOK

\* What output o owes, by position.
LEMMA OwedByPosition ==
  ASSUME TypeOK, RingOrder, NEW o \in Outputs, NEW i \in Slots
  PROVE  /\ FromOldest(tdh[o]) <= FromOldest(processed_delimiter)
         /\ Owed(i, o) <=> /\ FromOldest(tdh[o]) <= FromOldest(i)
                           /\ FromOldest(i) < FromOldest(processed_delimiter)
<1>1. FromOldest(tdh[o]) <= FromOldest(processed_delimiter)
  BY PointerTypes DEF RingOrder
<1> QED
  BY <1>1, PointerTypes, FromOldestFacts DEF Owed

\* What is received and not handled, by position.
LEMMA ReceivedByPosition ==
  ASSUME TypeOK, RingOrder, NEW i \in Slots
  PROVE  Between(i, processed_delimiter, rdh)
           <=> /\ FromOldest(processed_delimiter) <= FromOldest(i)
               /\ FromOldest(i) < FromOldest(rdh)
  BY PointerTypes, FromOldestFacts DEF RingOrder

\* What the driver finds ready at the processed delimiter lies strictly before
\* the receive head.
LEMMA ReceivedIsBehindHead ==
  ASSUME TypeOK, RingOrder, HandlesEachPacketOnce, Received
  PROVE  FromOldest(processed_delimiter) < FromOldest(rdh)
<1> QED
  BY PointerTypes, ReceivedByPosition DEF Received, HandlesEachPacketOnce

\* Handling a packet: the delimiter moves one slot towards the receive head.
LEMMA HandlePacketStep ==
  ASSUME IInv, TypeOK',
         NEW out \in SUBSET Outputs, NEW data \in Payloads,
         HandlePacket(out, data)
  PROVE  IInv'
<1> DEFINE p == processed_delimiter
           F(i) == FromOldest(i)
<1> USE DEF IInv
<1>1. /\ p' = NextSlot(p)
      /\ UNCHANGED <<rdt, tdt, rdh, tdh, reported, transmit_heads>>
  BY DEF HandlePacket, deviceVars
<1>2. F(p) < F(rdh) /\ F(rdh) <= RingSize - 1
  BY ReceivedIsBehindHead, FromOldestFacts, PointerTypes
     DEF HandlePacket, Slots
<1>3. F(p') = F(p) + 1
  BY <1>1, <1>2, FromOldestFacts, PointerTypes, RingAssumption
<1>4. RingOrder'
  <2>1. F(p') <= F(rdh)
    BY <1>2, <1>3, PointerTypes
  <2>2. \A o \in Outputs : F(tdt[o]) <= F(p')
    BY <1>3, PointerTypes DEF RingOrder
  <2> QED
    BY <2>1, <2>2, <1>1 DEF RingOrder, FromOldest
<1>5. EarliestHeadInv'
  <2>1. CASE RsBit
    <3>1. \A o \in Outputs : F(tdt[o]) < F(p')
      BY <1>3, PointerTypes DEF RingOrder
    <3>2. n' = 0 /\ earliest_transmit_head' = p' /\ min_diff' = WordModulus - 1
      BY <2>1, <1>1 DEF HandlePacket
    <3>3. \A o \in Outputs : ~(o < n')
      BY <3>2 DEF Outputs
    <3> QED
      BY <3>1, <3>2, <3>3, <1>1 DEF EarliestHeadInv, FromOldest
  <2>2. CASE ~RsBit
    BY <2>2 DEF EarliestHeadInv, HandlePacket
  <2> QED
    BY <2>1, <2>2
<1>6. LengthsCleared'
  BY DEF LengthsCleared, HandlePacket, LengthsAfter
<1>7. ASSUME NEW i \in Slots, NEW o \in Outputs
      PROVE  Owed(i, o)' <=> i = p \/ Owed(i, o)
  <2>1. Owed(i, o)' <=> F(tdh[o]) <= F(i) /\ F(i) < F(p')
    <3>1. F(tdh[o]) <= F(p')
      BY <1>3, PointerTypes, OwedByPosition
    <3>2. Between(i, tdh[o], p') <=> F(tdh[o]) <= F(i) /\ F(i) < F(p')
      BY <3>1, <1>1, PointerTypes, FromOldestFacts, SlotTypes
    <3> QED
      BY <3>2, <1>1 DEF Owed
  <2>2. F(i) < F(p') <=> i = p \/ F(i) < F(p)
    <3>1. F(i) \in Int /\ F(p) \in Int /\ (i # p => F(i) # F(p))
      BY PointerTypes, PositionsDiffer
    <3> QED
      BY <3>1, <1>3
  <2> QED
    BY <2>1, <2>2, OwedByPosition, PointerTypes
<1>8. TransmitsWhatWasHandled'
  <2> SUFFICES ASSUME NEW i \in Slots, NEW o \in Outputs, Owed(i, o)'
               PROVE  /\ buffer'[i] = promise'[o][i].data
                      /\ rings'[o][i].len = promise'[o][i].len
    BY DEF TransmitsWhatWasHandled
  <2>1. CASE i = p
    <3>1. rings'[o][p].len = IF o \in out THEN 1 ELSE lengths[o]
      BY PointerTypes DEF HandlePacket, TransmitMetadata, LengthsAsked, TypeOK
    <3>2. promise'[o][p] = [len |-> IF o \in out THEN 1 ELSE 0, data |-> data]
      BY PointerTypes DEF HandlePacket, TypeOK
    <3>3. buffer'[p] = data
      BY PointerTypes DEF HandlePacket, TypeOK
    <3> QED
      BY <2>1, <3>1, <3>2, <3>3 DEF LengthsCleared
  <2>2. CASE i # p
    <3>1. Owed(i, o)
      BY <2>2, <1>7
    <3>2. /\ buffer'[i] = buffer[i]
          /\ promise'[o][i] = promise[o][i]
          /\ rings'[o][i] = rings[o][i]
      BY <2>2, PointerTypes DEF HandlePacket, TypeOK
    <3> QED
      BY <3>1, <3>2 DEF TransmitsWhatWasHandled
  <2> QED
    BY <2>1, <2>2
<1>9. HandlesEachPacketOnce'
  <2> SUFFICES ASSUME NEW i \in Slots
               PROVE  rings'[0][i].dd <=> Between(i, p', rdh)
    BY <1>1 DEF HandlesEachPacketOnce
  <2>1. 0 \in Outputs
    BY OutputsAssumption DEF Outputs
  <2>2. Between(i, p', rdh) <=> F(p') <= F(i) /\ F(i) < F(rdh)
    <3>1. F(p') <= F(rdh)
      BY <1>2, <1>3, PointerTypes
    <3> QED
      BY <3>1, <1>1, PointerTypes, FromOldestFacts, SlotTypes
  <2>3. F(p') <= F(i) <=> i # p /\ F(p) <= F(i)
    <3>1. F(i) \in Int /\ F(p) \in Int /\ (i # p => F(i) # F(p))
      BY PointerTypes, PositionsDiffer
    <3> QED
      BY <3>1, <1>3
  <2>4. CASE i = p
    <3>1. rings'[0][p].dd = FALSE
      BY <2>1, PointerTypes DEF HandlePacket, TransmitMetadata, TypeOK
    <3> QED
      BY <2>2, <2>3, <2>4, <3>1
  <2>5. CASE i # p
    <3>1. rings'[0][i] = rings[0][i]
      BY <2>1, <2>5, PointerTypes DEF HandlePacket, TypeOK
    <3>2. rings[0][i].dd <=> F(p) <= F(i) /\ F(i) < F(rdh)
      BY ReceivedByPosition DEF HandlesEachPacketOnce
    <3> QED
      BY <2>2, <2>3, <2>5, <3>1, <3>2
  <2> QED
    BY <2>4, <2>5
<1> QED
  BY <1>4, <1>5, <1>6, <1>8, <1>9

\* Looking at one more head: the unsigned comparison keeps the earliest one.
LEMMA ReadTransmitHeadStep ==
  ASSUME IInv, TypeOK', ReadTransmitHead
  PROVE  IInv'
<1> DEFINE p == processed_delimiter
           F(i) == FromOldest(i)
           head == transmit_heads[n]
           e == earliest_transmit_head
<1> USE DEF IInv
<1>1. /\ UNCHANGED <<p, rdt, tdt, rdh, tdh, reported, transmit_heads>>
      /\ UNCHANGED <<lengths, buffer, rings, promise, pc>>
      /\ n' = n + 1 /\ n \in Outputs /\ pc = "recycle"
  BY OutputsAssumption
     DEF ReadTransmitHead, memoryVars, deviceVars, TypeOK, Outputs
<1>2. F(head) < F(p) /\ head \in Slots
  BY <1>1, PointerTypes DEF RingOrder, EarliestHeadInv
<1>3. /\ F(e') < F(p) /\ min_diff' = SubWord(e', p)
      /\ F(e') <= F(head)
      /\ n > 0 => F(e') <= F(e)
  <2>1. CASE n = 0
    <3>1. SubWord(head, p) <= min_diff
      BY <2>1, <1>1, <1>2, SubWordType, PointerTypes, WordAssumption
         DEF EarliestHeadInv
    <3> QED
      BY <2>1, <3>1, <1>2, PointerTypes DEF ReadTransmitHead, IsEarlier
  <2>2. CASE n > 0
    <3>1. F(e) < F(p) /\ min_diff = SubWord(e, p) /\ e \in Slots
      BY <2>2, <1>1 DEF EarliestHeadInv, TypeOK
    <3>2. SubWord(head, p) <= min_diff <=> F(head) <= F(e)
      BY <3>1, <1>2, SubWordOrder, PointerTypes, FromOldestFacts DEF FromOldest
    <3>3. F(head) \in Int /\ F(e) \in Int
      BY <1>2, <3>1, PointerTypes
    <3>4. CASE SubWord(head, p) <= min_diff
      BY <3>4, <3>2, <3>3, <1>2 DEF ReadTransmitHead, IsEarlier
    <3>5. CASE ~(SubWord(head, p) <= min_diff)
      BY <3>5, <3>1, <3>2, <3>3, <1>2 DEF ReadTransmitHead, IsEarlier
    <3> QED
      BY <3>4, <3>5
  <2> QED
    BY <2>1, <2>2, <1>1 DEF Outputs
<1>4. RingOrder'
  BY <1>1 DEF RingOrder, FromOldest
<1>5. EarliestHeadInv'
  <2>1. \A o \in Outputs : F(tdt[o]) < F(p)
    BY <1>1 DEF EarliestHeadInv
  <2>2. \A o \in Outputs : o < n' => F(e') <= F(transmit_heads[o])
    <3> SUFFICES ASSUME NEW o \in Outputs, o < n + 1
                 PROVE  F(e') <= F(transmit_heads[o])
      BY <1>1
    <3>1. CASE o = n
      BY <3>1, <1>3
    <3>2. CASE o < n
      <4>1. n > 0 /\ e \in Slots /\ e' \in Slots
        BY <3>2, <1>1 DEF Outputs, TypeOK
      <4>2. F(e) <= F(transmit_heads[o])
        BY <3>2, <1>1 DEF EarliestHeadInv
      <4>3. F(e) \in Int /\ F(e') \in Int /\ F(transmit_heads[o]) \in Int
        BY <4>1, PointerTypes
      <4> QED
        BY <4>1, <4>2, <4>3, <1>3
    <3> QED
      BY <3>1, <3>2, <1>1 DEF Outputs
  <2>3. n' > 0 /\ n' # 0
    BY <1>1 DEF Outputs
  <2> QED
    BY <2>1, <2>2, <2>3, <1>1, <1>3 DEF EarliestHeadInv, FromOldest
<1>6. LengthsCleared' /\ TransmitsWhatWasHandled' /\ HandlesEachPacketOnce'
  BY <1>1 DEF LengthsCleared, TransmitsWhatWasHandled, HandlesEachPacketOnce,
              Owed
<1> QED
  BY <1>4, <1>5, <1>6

\* Giving slots back: the oldest slot becomes the earliest head, which is
\* behind every other pointer, so the order of the pointers is kept.
LEMMA WriteReceiveTailStep ==
  ASSUME IInv, TypeOK', WriteReceiveTail
  PROVE  IInv'
<1> DEFINE p == processed_delimiter
           F(i) == FromOldest(i)
           e == earliest_transmit_head
<1> USE DEF IInv
<1>1. /\ UNCHANGED <<p, tdt, rdh, tdh, reported, transmit_heads>>
      /\ UNCHANGED <<lengths, buffer, rings, promise>>
      /\ pc = "recycle" /\ pc' = "poll" /\ n = OutputsCount
      /\ rdt' = PrevSlot(e) /\ e \in Slots
  BY DEF WriteReceiveTail, NewReceiveTail, memoryVars, TypeOK
<1>2. NextSlot(rdt') = e
  BY <1>1, NextOfPrev
<1>3. \A o \in Outputs : F(e) <= F(transmit_heads[o])
  <2>1. \A o \in Outputs : o < n
    BY <1>1, OutputsAssumption DEF Outputs
  <2> QED
    BY <2>1, <1>1 DEF EarliestHeadInv
<1>4. ASSUME NEW i \in Slots, F(e) <= F(i)
      PROVE  Distance(e, i) = F(i) - F(e)
  <2>1. NextSlot(rdt) \in Slots
    BY FromOldestFacts
  <2> QED
    BY <2>1, <1>1, <1>4, DistanceRebase DEF FromOldest
<1>5. F(e) \in Int
  BY <1>1, PointerTypes
<1>6. RingOrder'
  <2>1. ASSUME NEW o \in Outputs
        PROVE  /\ Distance(e, transmit_heads[o]) <= Distance(e, reported[o])
               /\ Distance(e, reported[o]) <= Distance(e, tdh[o])
               /\ Distance(e, tdh[o]) <= Distance(e, tdt[o])
               /\ Distance(e, tdt[o]) <= Distance(e, p)
               /\ Distance(e, p) <= Distance(e, rdh)
    <3>1. /\ F(e) <= F(transmit_heads[o]) /\ F(e) <= F(reported[o])
          /\ F(e) <= F(tdh[o]) /\ F(e) <= F(tdt[o])
          /\ F(e) <= F(p) /\ F(e) <= F(rdh)
      BY <1>3, <1>5, PointerTypes DEF RingOrder
    <3>2. /\ Distance(e, transmit_heads[o]) = F(transmit_heads[o]) - F(e)
          /\ Distance(e, reported[o]) = F(reported[o]) - F(e)
          /\ Distance(e, tdh[o]) = F(tdh[o]) - F(e)
          /\ Distance(e, tdt[o]) = F(tdt[o]) - F(e)
          /\ Distance(e, p) = F(p) - F(e)
          /\ Distance(e, rdh) = F(rdh) - F(e)
      BY <3>1, <1>4, PointerTypes
    <3> QED
      BY <3>2, <1>5, PointerTypes DEF RingOrder
  <2>2. 0 \in Outputs
    BY OutputsAssumption DEF Outputs
  <2> QED
    BY <2>1, <2>2, <1>1, <1>2 DEF RingOrder, FromOldest
<1>7. EarliestHeadInv'
  BY <1>1 DEF EarliestHeadInv
<1>8. LengthsCleared' /\ TransmitsWhatWasHandled' /\ HandlesEachPacketOnce'
  BY <1>1 DEF LengthsCleared, TransmitsWhatWasHandled, HandlesEachPacketOnce,
              Owed
<1> QED
  BY <1>6, <1>7, <1>8

\* Moving a transmit tail to the processed delimiter.
LEMMA WriteTransmitTailStep ==
  ASSUME IInv, TypeOK', WriteTransmitTail
  PROVE  IInv'
<1> DEFINE p == processed_delimiter
<1> USE DEF IInv
<1>1. /\ UNCHANGED <<p, rdt, rdh, tdh, reported, transmit_heads>>
      /\ UNCHANGED <<lengths, buffer, rings, promise>>
      /\ pc' # "recycle" /\ n \in Outputs
      /\ tdt' = [tdt EXCEPT ![n] = p]
  BY OutputsAssumption DEF WriteTransmitTail, NewTransmitTail, memoryVars, TypeOK, Outputs
<1>2. RingOrder'
  <2>1. \A o \in Outputs : /\ FromOldest(tdh[o]) <= FromOldest(tdt'[o])
                           /\ FromOldest(tdt'[o]) <= FromOldest(p)
    <3> SUFFICES ASSUME NEW o \in Outputs
                 PROVE  /\ FromOldest(tdh[o]) <= FromOldest(tdt'[o])
                        /\ FromOldest(tdt'[o]) <= FromOldest(p)
      OBVIOUS
    <3>1. tdt'[o] = p \/ tdt'[o] = tdt[o]
      BY <1>1 DEF TypeOK
    <3> QED
      BY <3>1, PointerTypes DEF RingOrder
  <2> QED
    BY <2>1, <1>1 DEF RingOrder, FromOldest
<1>3. EarliestHeadInv'
  BY <1>1 DEF EarliestHeadInv
<1>4. LengthsCleared' /\ TransmitsWhatWasHandled' /\ HandlesEachPacketOnce'
  BY <1>1 DEF LengthsCleared, TransmitsWhatWasHandled, HandlesEachPacketOnce,
              Owed
<1> QED
  BY <1>2, <1>3, <1>4

\* Receiving: the receive head moves into a slot that nobody owes.
LEMMA NicReceiveStep ==
  ASSUME IInv, TypeOK', NicReceive
  PROVE  IInv'
<1> DEFINE p == processed_delimiter
           F(i) == FromOldest(i)
<1> USE DEF IInv
<1>1. /\ UNCHANGED <<p, rdt, tdt, tdh, reported, transmit_heads>>
      /\ UNCHANGED <<lengths, promise, pc, n, min_diff>>
      /\ UNCHANGED earliest_transmit_head
      /\ rdh' = NextSlot(rdh) /\ rdh # rdt
      /\ buffer' = [buffer EXCEPT ![rdh] = Wire]
      /\ rings' = [rings EXCEPT ![0][rdh] =
                     [len |-> 1, rs |-> FALSE, dd |-> TRUE]]
  BY DEF NicReceive, driverVars
<1>2. F(rdh') = F(rdh) + 1
  <2>1. F(rdh) # F(rdt) /\ F(rdt) = RingSize - 1 /\ F(rdh) \in Slots
    BY <1>1, PointerTypes, PositionsDiffer, FromOldestFacts
  <2>2. F(rdh) < RingSize - 1
    BY <2>1, RingAssumption DEF Slots
  <2> QED
    BY <2>2, <1>1, PointerTypes, FromOldestFacts
<1>3. RingOrder'
  <2>1. F(p) <= F(rdh')
    BY <1>2, PointerTypes DEF RingOrder
  <2> QED
    BY <2>1, <1>1 DEF RingOrder, FromOldest
<1>4. EarliestHeadInv' /\ LengthsCleared'
  BY <1>1 DEF EarliestHeadInv, FromOldest, LengthsCleared
<1>5. TransmitsWhatWasHandled'
  <2> SUFFICES ASSUME NEW i \in Slots, NEW o \in Outputs, Owed(i, o)
               PROVE  /\ buffer'[i] = promise[o][i].data
                      /\ rings'[o][i].len = promise[o][i].len
    BY <1>1 DEF TransmitsWhatWasHandled, Owed
  <2>1. i # rdh
    BY OwedByPosition, PointerTypes DEF RingOrder
  <2>2. buffer'[i] = buffer[i] /\ rings'[o][i] = rings[o][i]
    BY <2>1, <1>1, PointerTypes DEF TypeOK
  <2> QED
    BY <2>2 DEF TransmitsWhatWasHandled
<1>6. HandlesEachPacketOnce'
  <2> SUFFICES ASSUME NEW i \in Slots
               PROVE  rings'[0][i].dd <=> Between(i, p, rdh')
    BY <1>1 DEF HandlesEachPacketOnce
  <2>1. 0 \in Outputs
    BY OutputsAssumption DEF Outputs
  <2>2. Between(i, p, rdh') <=> F(p) <= F(i) /\ F(i) < F(rdh')
    <3>1. F(p) <= F(rdh')
      BY <1>2, PointerTypes DEF RingOrder
    <3> QED
      BY <3>1, <1>1, PointerTypes, FromOldestFacts, SlotTypes
  <2>3. F(i) < F(rdh') <=> i = rdh \/ F(i) < F(rdh)
    <3>1. F(i) \in Int /\ F(rdh) \in Int /\ (i # rdh => F(i) # F(rdh))
      BY PointerTypes, PositionsDiffer
    <3> QED
      BY <3>1, <1>2
  <2>4. CASE i = rdh
    <3>1. rings'[0][rdh].dd = TRUE
      BY <2>1, <1>1, PointerTypes DEF TypeOK
    <3> QED
      BY <2>2, <2>3, <2>4, <3>1 DEF RingOrder
  <2>5. CASE i # rdh
    <3>1. rings'[0][i] = rings[0][i]
      BY <2>1, <2>5, <1>1, PointerTypes DEF TypeOK
    <3> QED
      BY <2>2, <2>3, <2>5, <3>1, ReceivedByPosition DEF HandlesEachPacketOnce
  <2> QED
    BY <2>4, <2>5
<1> QED
  BY <1>3, <1>4, <1>5, <1>6

\* Transmitting: the head of one queue moves towards its tail.
LEMMA NicTransmitStep ==
  ASSUME IInv, TypeOK', NEW q \in Outputs, NicTransmit(q)
  PROVE  IInv'
<1> DEFINE p == processed_delimiter
           F(i) == FromOldest(i)
<1> USE DEF IInv
<1>1. /\ UNCHANGED <<p, rdt, tdt, rdh, transmit_heads>>
      /\ UNCHANGED <<lengths, buffer, rings, pc, n, min_diff>>
      /\ UNCHANGED earliest_transmit_head
      /\ tdh[q] # tdt[q]
      /\ tdh' = [tdh EXCEPT ![q] = NextSlot(tdh[q])]
      /\ reported' \in {reported, [reported EXCEPT ![q] = NextSlot(tdh[q])]}
      /\ promise' = [promise EXCEPT ![q][tdh[q]] = NoPromise]
  BY DEF NicTransmit, driverVars, memoryVars
<1>2. F(tdh'[q]) = F(tdh[q]) + 1 /\ F(tdh[q]) < F(tdt[q])
  <2>1. F(tdh[q]) < F(tdt[q])
    BY <1>1, PointerTypes, PositionsDiffer DEF RingOrder
  <2>2. F(tdt[q]) \in Slots
    BY PointerTypes, FromOldestFacts
  <2>3. F(tdh[q]) < RingSize - 1
    BY <2>1, <2>2, PointerTypes, RingAssumption DEF Slots
  <2>4. tdh'[q] = NextSlot(tdh[q])
    BY <1>1 DEF TypeOK
  <2> QED
    BY <2>1, <2>3, <2>4, PointerTypes, FromOldestFacts
<1>3. \A o \in Outputs : o # q => tdh'[o] = tdh[o] /\ reported'[o] = reported[o]
  BY <1>1 DEF TypeOK
<1>4. RingOrder'
  <2>1. ASSUME NEW o \in Outputs
        PROVE  /\ F(transmit_heads[o]) <= F(reported'[o])
               /\ F(reported'[o]) <= F(tdh'[o])
               /\ F(tdh'[o]) <= F(tdt[o])
    <3>1. CASE o = q
      <4>1. reported'[q] = reported[q] \/ reported'[q] = tdh'[q]
        BY <1>1 DEF TypeOK
      <4> QED
        BY <3>1, <4>1, <1>2, PointerTypes DEF RingOrder
    <3>2. CASE o # q
      BY <3>2, <1>3 DEF RingOrder
    <3> QED
      BY <3>1, <3>2
  <2> QED
    BY <2>1, <1>1 DEF RingOrder, FromOldest
<1>5. EarliestHeadInv' /\ LengthsCleared'
  BY <1>1 DEF EarliestHeadInv, FromOldest, LengthsCleared
<1>6. TransmitsWhatWasHandled'
  <2> SUFFICES ASSUME NEW i \in Slots, NEW o \in Outputs,
                      Between(i, tdh'[o], p)
               PROVE  /\ buffer[i] = promise'[o][i].data
                      /\ rings[o][i].len = promise'[o][i].len
    BY <1>1 DEF TransmitsWhatWasHandled, Owed
  <2>1. CASE o = q
    <3>1. F(tdh'[q]) <= F(i) /\ F(i) < F(p)
      <4>1. F(tdh'[q]) <= F(p)
        BY <1>2, PointerTypes DEF RingOrder
      <4>2. tdh'[q] \in Slots
        BY DEF TypeOK
      <4> QED
        BY <2>1, <4>1, <4>2, PointerTypes, FromOldestFacts
    <3>2. Owed(i, q) /\ i # tdh[q]
      BY <3>1, <1>2, OwedByPosition, PointerTypes
    <3>3. promise'[q][i] = promise[q][i]
      BY <3>2, <1>1, PointerTypes DEF TypeOK
    <3> QED
      BY <2>1, <3>2, <3>3 DEF TransmitsWhatWasHandled
  <2>2. CASE o # q
    <3>1. Owed(i, o) /\ promise'[o] = promise[o]
      BY <2>2, <1>1, <1>3 DEF Owed, TypeOK
    <3> QED
      BY <3>1 DEF TransmitsWhatWasHandled
  <2> QED
    BY <2>1, <2>2
<1>7. HandlesEachPacketOnce'
  BY <1>1 DEF HandlesEachPacketOnce
<1> QED
  BY <1>4, <1>5, <1>6, <1>7

\* A head reaching memory: it moves forward, so what the driver already found
\* stays earliest.
LEMMA NicWriteBackHeadStep ==
  ASSUME IInv, TypeOK', NEW q \in Outputs, NicWriteBackHead(q)
  PROVE  IInv'
<1> DEFINE F(i) == FromOldest(i)
<1> USE DEF IInv
<1>1. /\ UNCHANGED <<processed_delimiter, rdt, tdt, rdh, tdh, reported>>
      /\ UNCHANGED <<lengths, buffer, rings, promise, pc, n, min_diff>>
      /\ UNCHANGED earliest_transmit_head
      /\ transmit_heads' = [transmit_heads EXCEPT ![q] = reported[q]]
  BY DEF NicWriteBackHead, driverVars, deviceVars
<1>2. \A o \in Outputs : /\ F(transmit_heads[o]) <= F(transmit_heads'[o])
                         /\ F(transmit_heads'[o]) <= F(reported[o])
                         /\ F(transmit_heads'[o]) \in Int
  <2> SUFFICES ASSUME NEW o \in Outputs
               PROVE  /\ F(transmit_heads[o]) <= F(transmit_heads'[o])
                      /\ F(transmit_heads'[o]) <= F(reported[o])
                      /\ F(transmit_heads'[o]) \in Int
    OBVIOUS
  <2>1. \/ transmit_heads'[o] = transmit_heads[o]
        \/ transmit_heads'[o] = reported[o]
    BY <1>1 DEF TypeOK
  <2> QED
    BY <2>1, PointerTypes DEF RingOrder
<1>3. RingOrder'
  BY <1>1, <1>2 DEF RingOrder, FromOldest
<1>4. EarliestHeadInv'
  <2> SUFFICES ASSUME pc = "recycle" PROVE EarliestHeadInv'
    BY <1>1 DEF EarliestHeadInv
  <2>1. \A o \in Outputs :
          o < n => F(earliest_transmit_head) <= F(transmit_heads'[o])
    <3> SUFFICES ASSUME NEW o \in Outputs, o < n
                 PROVE  F(earliest_transmit_head) <= F(transmit_heads'[o])
      OBVIOUS
    <3>1. F(earliest_transmit_head) <= F(transmit_heads[o])
      BY DEF EarliestHeadInv
    <3>2. F(earliest_transmit_head) \in Int
      BY PointerTypes DEF TypeOK
    <3> QED
      BY <3>1, <3>2, <1>2, PointerTypes
  <2> QED
    BY <2>1, <1>1 DEF EarliestHeadInv, FromOldest
<1>5. LengthsCleared' /\ TransmitsWhatWasHandled' /\ HandlesEachPacketOnce'
  BY <1>1 DEF LengthsCleared, TransmitsWhatWasHandled, HandlesEachPacketOnce,
              Owed
<1> QED
  BY <1>3, <1>4, <1>5

-----------------------------------------------------------------------------
(* The invariant and what follows from it.                                 *)

\* The freshly initialized agent satisfies the invariant.
LEMMA InitIInv == Init => IInv
<1> SUFFICES ASSUME Init PROVE IInv
  OBVIOUS
<1>1. TypeOK
  BY RingAssumption, FlushAssumption, OutputsAssumption, WordAssumption
     DEF Init, TypeOK, Slots, Outputs, EmptyMetadata, Metadata, NoPromise
<1>2. NextSlot(rdt) = 0 /\ Distance(0, 0) = 0
  BY RingAssumption DEF Init, NextSlot, Distance
<1>3. \A i \in Slots : ~Between(i, 0, 0)
  BY RingAssumption DEF Between, Distance, Slots
<1>4. RingOrder
  BY <1>2 DEF Init, RingOrder, FromOldest
<1>5. EarliestHeadInv /\ LengthsCleared
  BY DEF Init, EarliestHeadInv, LengthsCleared
<1>6. TransmitsWhatWasHandled
  BY <1>3 DEF Init, TransmitsWhatWasHandled, Owed
<1>7. 0 \in Outputs
  BY OutputsAssumption DEF Outputs
<1>8. HandlesEachPacketOnce
  BY <1>3, <1>7 DEF Init, HandlesEachPacketOnce, EmptyMetadata
<1> QED
  BY <1>1, <1>4, <1>5, <1>6, <1>8 DEF IInv

\* Every step of the driver and of the NIC keeps the invariant.
LEMMA NextIInv ==
  ASSUME IInv, [Next]_vars
  PROVE  IInv'
<1>1. TypeOK'
  BY TypeStep DEF IInv
<1>2. CASE EndPolling
  <2>1. UNCHANGED <<processed_delimiter, lengths, memoryVars, deviceVars,
                    promise>> /\ pc' = "flush"
    BY <1>2 DEF EndPolling
  <2> QED
    BY <1>1, <2>1 DEF IInv, RingOrder, FromOldest, EarliestHeadInv,
       LengthsCleared, TransmitsWhatWasHandled, HandlesEachPacketOnce, Owed,
       memoryVars, deviceVars
<1>3. CASE UNCHANGED vars
  BY <1>1, <1>3 DEF IInv, RingOrder, FromOldest, EarliestHeadInv,
     LengthsCleared, TransmitsWhatWasHandled, HandlesEachPacketOnce, Owed,
     vars, driverVars, memoryVars, deviceVars
<1> QED
  BY <1>1, <1>2, <1>3, HandlePacketStep, ReadTransmitHeadStep,
     WriteReceiveTailStep, WriteTransmitTailStep, NicReceiveStep,
     NicTransmitStep, NicWriteBackHeadStep DEF Next, Driver, Nic

\* No pointer on the ring overtakes another, and nothing is sent or handled
\* twice, in any execution of an agent, for every ring size, flush and recycle
\* period, and number of outputs that the static_asserts allow.
THEOREM AgentInvariant == Spec => []IInv
<1>1. Init => IInv
  BY InitIInv
<1>2. IInv /\ [Next]_vars => IInv'
  BY NextIInv
<1> QED
  BY <1>1, <1>2, PTL DEF Spec

\* The buffers given back to the receive queue are ones no output owes.
LEMMA OrderSeparates ==
  ASSUME TypeOK, RingOrder
  PROVE  NoReceiveIntoOwed
<1> SUFFICES ASSUME NEW i \in Slots, NEW o \in Outputs,
                    Between(i, rdh, rdt), Owed(i, o)
             PROVE  FALSE
  BY DEF NoReceiveIntoOwed, Receivable
<1>1. FromOldest(rdh) <= FromOldest(rdt)
  BY PointerTypes, FromOldestFacts, RingAssumption DEF Slots
<1>2. FromOldest(rdh) <= FromOldest(i)
  BY <1>1, PointerTypes, FromOldestFacts
<1>3. FromOldest(i) < FromOldest(processed_delimiter)
  BY OwedByPosition
<1> QED
  BY <1>2, <1>3, PointerTypes DEF RingOrder

\* Heads, delimiter and tails keep their order around the ring, however the
\* driver and the NIC interleave and however old the heads it reads are.
THEOREM PointersKeepOrder == Spec => []RingOrder
<1>1. IInv => RingOrder
  BY DEF IInv
<1> QED
  BY <1>1, AgentInvariant, PTL

\* tn_run_peragent never lets the NIC receive into a buffer that some output
\* has still to transmit.
THEOREM BuffersAreSafe == Spec => []NoReceiveIntoOwed
<1>1. IInv => NoReceiveIntoOwed
  BY OrderSeparates DEF IInv
<1> QED
  BY <1>1, AgentInvariant, PTL

\* Every output transmits exactly what the handler decided for it.
THEOREM TransmitsHandledPackets == Spec => []TransmitsWhatWasHandled
<1>1. IInv => TransmitsWhatWasHandled
  BY DEF IInv
<1> QED
  BY <1>1, AgentInvariant, PTL

\* Every received packet is handled exactly once.
THEOREM HandledOnce == Spec => []HandlesEachPacketOnce
<1>1. IInv => HandlesEachPacketOnce
  BY DEF IInv
<1> QED
  BY <1>1, AgentInvariant, PTL

\* The receive tail never moves backwards.
THEOREM TailAdvances == Spec => ReceiveTailOnlyAdvances
<1>1. ASSUME IInv, [Next]_vars
      PROVE  [Distance(rdh, rdt) <= Distance(rdh, rdt')]_<<rdt>>
  <2> DEFINE e == earliest_transmit_head
  <2>1. CASE WriteReceiveTail
    <3>1. rdt' = PrevSlot(e) /\ e \in Slots /\ rdh \in Slots /\ rdt \in Slots
      BY <1>1, <2>1 DEF WriteReceiveTail, NewReceiveTail, IInv, TypeOK
    <3>2. FromOldest(e) <= FromOldest(rdh)
      <4>1. 0 \in Outputs /\ 0 < n /\ pc = "recycle"
        BY <2>1, OutputsAssumption DEF WriteReceiveTail, Outputs
      <4>2. FromOldest(e) < FromOldest(processed_delimiter)
        BY <1>1, <4>1 DEF IInv, EarliestHeadInv
      <4> QED
        BY <1>1, <4>2, <3>1, PointerTypes DEF IInv, RingOrder
    <3> QED
      BY <3>1, <3>2, RingAssumption
         DEF FromOldest, Distance, PrevSlot, NextSlot, Slots
  <2>2. CASE UNCHANGED rdt
    BY <2>2
  <2> QED
    BY <1>1, <2>1, <2>2 DEF Next, Driver, Nic, HandlePacket, ReadTransmitHead,
       EndPolling, WriteTransmitTail, NicReceive, NicTransmit,
       NicWriteBackHead, deviceVars, vars
<1> QED
  BY <1>1, AgentInvariant, PTL DEF Spec, ReceiveTailOnlyAdvances
-----------------------------------------------------------------------------
(* The lists of the DPDK loop.                                             *)

\* net_transmit adds one mbuf, at the end.
LEMMA AppendFacts ==
  ASSUME NEW S, NEW s \in Seq(S), NEW e \in S
  PROVE  /\ Append(s, e) \in Seq(S) /\ Len(Append(s, e)) = Len(s) + 1
         /\ ToSet(Append(s, e)) = ToSet(s) \cup {e}
         /\ IsInjective(s) /\ e \notin ToSet(s) => IsInjective(Append(s, e))
<1>1. /\ DOMAIN Append(s, e) = 1 .. Len(s) + 1 /\ DOMAIN s = 1 .. Len(s) /\ Len(s) \in Nat
      /\ \A i \in 1 .. Len(s) : Append(s, e)[i] = s[i]
      /\ Append(s, e)[Len(s) + 1] = e
      /\ Append(s, e) \in Seq(S) /\ Len(Append(s, e)) = Len(s) + 1
  OBVIOUS
<1> DEFINE t == Append(s, e)
<1> HIDE DEF t
<1> QED
  BY <1>1 DEF ToSet, IsInjective, t

\* The batch without the mbuf being handled.
LEMMA TailFacts ==
  ASSUME NEW S, NEW s \in Seq(S), s # << >>
  PROVE  /\ Tail(s) \in Seq(S) /\ Len(Tail(s)) = Len(s) - 1 /\ Head(s) \in S
         /\ ToSet(s) = ToSet(Tail(s)) \cup {Head(s)}
         /\ IsInjective(s) => IsInjective(Tail(s)) /\ Head(s) \notin ToSet(Tail(s))
<1>1. /\ DOMAIN Tail(s) = 1 .. Len(s) - 1 /\ DOMAIN s = 1 .. Len(s) /\ Len(s) \in Nat \ {0}
      /\ \A i \in 1 .. Len(s) - 1 : Tail(s)[i] = s[i + 1]
      /\ Head(s) = s[1] /\ Head(s) \in S
      /\ Tail(s) \in Seq(S) /\ Len(Tail(s)) = Len(s) - 1
  OBVIOUS
<1> DEFINE t == Tail(s)
           h == Head(s)
<1> HIDE DEF t, h
<1>2. \A i \in 1 .. Len(s) : i = 1 \/ (i - 1 \in 1 .. Len(s) - 1 /\ s[i] = t[i - 1])
  BY <1>1 DEF t
<1>3. ToSet(s) = ToSet(t) \cup {h}
  <2>1. /\ ToSet(s) = {s[i] : i \in 1 .. Len(s)}
        /\ ToSet(t) = {t[i] : i \in 1 .. Len(s) - 1}
        /\ h = s[1] /\ 1 \in 1 .. Len(s)
    <3>1. DOMAIN t = 1 .. Len(s) - 1 /\ h = s[1]
      BY <1>1 DEF t, h
    <3> QED
      BY <1>1, <3>1 DEF ToSet
  <2>2. \A i \in 1 .. Len(s) - 1 : t[i] = s[i + 1] /\ i + 1 \in 1 .. Len(s)
    BY <1>1 DEF t
  <2>3. ASSUME NEW i \in 1 .. Len(s)
        PROVE  s[i] = h \/ s[i] \in ToSet(t)
    BY <2>1, <2>3, <1>2
  <2> QED
    BY <2>1, <2>2, <2>3
<1>4. ASSUME IsInjective(s)
      PROVE  IsInjective(t) /\ h \notin ToSet(t)
  BY <1>1, <1>4 DEF ToSet, IsInjective, t, h
<1> QED
  BY <1>1, <1>3, <1>4 DEF t, h

\* rte_eth_tx_burst cuts a list in two.
LEMMA SplitFacts ==
  ASSUME NEW S, NEW s \in Seq(S), NEW k \in 0 .. Len(s)
  PROVE  /\ ToSet(s) = ToSet(SubSeq(s, 1, k)) \cup ToSet(SubSeq(s, k + 1, Len(s)))
         /\ IsInjective(s) =>
              ToSet(SubSeq(s, 1, k)) \cap ToSet(SubSeq(s, k + 1, Len(s))) = {}
<1> DEFINE a == SubSeq(s, 1, k)
           b == SubSeq(s, k + 1, Len(s))
<1>1. DOMAIN s = 1 .. Len(s) /\ Len(s) \in Nat
  OBVIOUS
<1>2. DOMAIN a = 1 .. k /\ \A i \in 1 .. k : a[i] = s[i]
  OBVIOUS
<1>3. DOMAIN b = 1 .. Len(s) - k /\ \A i \in 1 .. Len(s) - k : b[i] = s[k + i]
  OBVIOUS
<1> HIDE DEF a, b
<1>4. ToSet(a) = {s[i] : i \in 1 .. k}
  BY <1>2 DEF ToSet
<1>5. ToSet(b) = {s[i] : i \in k + 1 .. Len(s)}
  <2>1. ASSUME NEW i \in k + 1 .. Len(s)
        PROVE  s[i] \in ToSet(b)
    <3>1. i - k \in 1 .. Len(s) - k /\ k + (i - k) = i
      BY <2>1, <1>1
    <3> QED
      BY <3>1, <1>3 DEF ToSet
  <2>2. ASSUME NEW i \in 1 .. Len(s) - k
        PROVE  k + i \in k + 1 .. Len(s)
    BY <1>1
  <2> QED
    BY <2>1, <2>2, <1>3 DEF ToSet
<1>6. ToSet(s) = {s[i] : i \in 1 .. Len(s)}
  BY <1>1 DEF ToSet
<1>7. 1 .. Len(s) = (1 .. k) \cup (k + 1 .. Len(s)) /\ (1 .. k) \cap (k + 1 .. Len(s)) = {}
  BY <1>1
<1> QED
  BY <1>1, <1>4, <1>5, <1>6, <1>7 DEF IsInjective, a, b

\* A batch is made of different free mbufs.
LEMMA BatchFacts ==
  ASSUME pool \subseteq Mbufs, NEW limit \in Nat, NEW batch \in Batches(limit)
  PROVE  /\ batch \in Seq(Mbufs) /\ Len(batch) <= limit
         /\ IsInjective(batch) /\ ToSet(batch) \subseteq pool
<1>1. PICK T \in SUBSET pool : Cardinality(T) <= limit /\ batch = SetToSeq(T)
  BY DEF Batches
<1>2. IsFiniteSet(T) /\ Cardinality(T) \in Nat
  BY <1>1, MbufsAssumption, FS_Subset, FS_CardinalityType
<1>3. \E f \in [1 .. Cardinality(T) -> T] : IsInjective(f)
  <2>1. ExistsBijection(1 .. Cardinality(T), T)
    BY <1>2, FS_CardinalityType
  <2>2. PICK f \in [1 .. Cardinality(T) -> T] : IsInjective(f)
    BY <2>1 DEF ExistsBijection, Bijection, Injection, IsInjective
  <2> QED
    BY <2>2
<1>4. batch \in [1 .. Cardinality(T) -> T] /\ IsInjective(batch)
  BY <1>1, <1>3 DEF SetToSeq
<1>5. batch \in Seq(T) /\ Len(batch) = Cardinality(T) /\ DOMAIN batch = 1 .. Cardinality(T)
  BY <1>2, <1>4
<1>6. batch \in Seq(Mbufs)
  BY <1>5, <1>2, <1>4, <1>1, pool \subseteq Mbufs
<1> QED
  BY <1>1, <1>4, <1>5, <1>6 DEF ToSet

-----------------------------------------------------------------------------
(* Every step of the DPDK loop.                                            *)

\* The lists are sequences of mbufs, and the counters are in their ranges.
LEMMA LoopTypes ==
  ASSUME LoopInv
  PROVE  /\ bufs \in Seq(Mbufs) /\ Len(bufs) \in Nat
         /\ bufs_to_tx \in [Devices -> Seq(Mbufs)]
         /\ \A d \in Devices : bufs_to_tx[d] \in Seq(Mbufs) /\ Len(bufs_to_tx[d]) \in Nat
         /\ out_device \in Devices /\ Devices \subseteq Nat
         /\ ToSet(bufs) \subseteq Mbufs
         /\ \A d \in Devices : ToSet(bufs_to_tx[d]) \subseteq Mbufs
<1>1. /\ bufs \in Seq(Mbufs)
      /\ bufs_to_tx \in [Devices -> Seq(Mbufs)]
      /\ out_device \in Devices
  BY DEF LoopInv, ListsAreInTurn, MbufsHaveOneOwner, LoopTypeOK
<1>2. \A s \in Seq(Mbufs) : Len(s) \in Nat /\ ToSet(s) \subseteq Mbufs
  BY DEF ToSet
<1>3. Devices \subseteq Nat
  BY DevicesAssumption DEF Devices
<1> QED
  BY <1>1, <1>2, <1>3

\* main starts with all mbufs in the pool.
LEMMA LoopStarts == LoopInit => LoopInv
<1> SUFFICES ASSUME LoopInit
             PROVE  LoopInv
  OBVIOUS
<1>1. << >> \in Seq(Mbufs) /\ Len(<< >>) = 0 /\ ToSet(<< >>) = {} /\ IsInjective(<< >>)
  BY DEF ToSet, IsInjective
<1>2. 0 \in Devices /\ BATCH_SIZE \in Nat
  BY DevicesAssumption, BatchAssumption DEF Devices
<1>3. bufs = << >> /\ \A d \in Devices : bufs_to_tx[d] = << >>
  BY DEF LoopInit
<1>4. bufs_to_tx \in [Devices -> Seq(Mbufs)]
  BY <1>1 DEF LoopInit
<1>5. Held = {}
  BY <1>1, <1>3 DEF Held
<1>6. LoopTypeOK
  BY <1>1, <1>2, <1>3 DEF LoopTypeOK, LoopInit
<1>7. InOnePlace
  BY <1>1, <1>3 DEF InOnePlace
<1>8. ListsAreInTurn
  BY <1>1, <1>2, <1>3, <1>4 DEF ListsAreInTurn, LoopInit
<1> QED
  BY <1>5, <1>6, <1>7, <1>8 DEF LoopInv, MbufsHaveOneOwner, LoopInit

\* A batch of free mbufs is received when the loop has none.
LEMMA ReceiveKeeps ==
  ASSUME LoopInv, NEW batch \in Batches(BATCH_SIZE), Receive(batch)
  PROVE  LoopInv'
<1> USE DEF Receive
<1>1. /\ batch \in Seq(Mbufs) /\ Len(batch) <= BATCH_SIZE /\ Len(batch) \in Nat
      /\ IsInjective(batch) /\ ToSet(batch) \subseteq pool
  BY BatchFacts, BatchAssumption DEF LoopInv, MbufsHaveOneOwner, LoopTypeOK
<1>2. /\ bufs = << >> /\ \A d \in Devices : bufs_to_tx[d] = << >>
      /\ bufs' = batch /\ bufs_to_tx' = bufs_to_tx
  BY DEF LoopInv, ListsAreInTurn
<1>3. ToSet(<< >>) = {} /\ Len(<< >>) = 0 /\ IsInjective(<< >>) /\ << >> \in Seq(Mbufs)
  BY DEF ToSet, IsInjective
<1>4. Held = {} /\ Held' = ToSet(batch)
  BY <1>2, <1>3 DEF Held
<1>5. LoopTypeOK'
  BY <1>1, <1>2, <1>3, BatchAssumption DEF LoopInv, MbufsHaveOneOwner, LoopTypeOK
<1>6. InOnePlace'
  BY <1>1, <1>2, <1>3 DEF InOnePlace
<1>7. ListsAreInTurn'
  BY <1>1, <1>2, <1>3, LoopTypes DEF ListsAreInTurn
<1>8. /\ Held' \cap pool' = {} /\ Held' \cap nic' = {} /\ pool' \cap nic' = {}
      /\ Mbufs \ (pool' \cup nic' \cup Held') = forgotten'
  BY <1>1, <1>4 DEF LoopInv, MbufsHaveOneOwner
<1> QED
  BY <1>5, <1>6, <1>7, <1>8 DEF LoopInv, MbufsHaveOneOwner

\* The mbuf being handled is in no other place.
LEMMA HandledMbuf ==
  ASSUME LoopInv, bufs # << >>
  PROVE  /\ Head(bufs) \in Mbufs /\ Head(bufs) \in Held
         /\ Tail(bufs) \in Seq(Mbufs) /\ Len(Tail(bufs)) = Len(bufs) - 1
         /\ IsInjective(Tail(bufs))
         /\ ToSet(bufs) = ToSet(Tail(bufs)) \cup {Head(bufs)}
         /\ Head(bufs) \notin ToSet(Tail(bufs))
         /\ \A d \in Devices : Head(bufs) \notin ToSet(bufs_to_tx[d])
<1>1. IsInjective(bufs) /\ \A d \in Devices : ToSet(bufs) \cap ToSet(bufs_to_tx[d]) = {}
  BY DEF LoopInv, MbufsHaveOneOwner, InOnePlace
<1>2. /\ Head(bufs) \in Mbufs
      /\ Tail(bufs) \in Seq(Mbufs) /\ Len(Tail(bufs)) = Len(bufs) - 1
      /\ IsInjective(Tail(bufs))
      /\ ToSet(bufs) = ToSet(Tail(bufs)) \cup {Head(bufs)}
      /\ Head(bufs) \notin ToSet(Tail(bufs))
  BY <1>1, LoopTypes, TailFacts
<1> QED
  BY <1>1, <1>2 DEF Held

\* The packet being handled moves from the batch to a list.
LEMMA HandleTransmitKeeps ==
  ASSUME LoopInv, NEW d \in Devices, HandleTransmit(d)
  PROVE  LoopInv'
<1> DEFINE h == Head(bufs)
           rest == Tail(bufs)
           list == Append(bufs_to_tx[d], h)
           ListsOf(b, l) == ToSet(b) \cup UNION {ToSet(l[e]) : e \in Devices}
<1>1. /\ h \in Mbufs /\ rest \in Seq(Mbufs) /\ Len(rest) = Len(bufs) - 1
      /\ IsInjective(rest) /\ ToSet(bufs) = ToSet(rest) \cup {h} /\ h \notin ToSet(rest)
      /\ \A e \in Devices : h \notin ToSet(bufs_to_tx[e])
  BY HandledMbuf DEF HandleTransmit
<1>2. /\ list \in Seq(Mbufs) /\ Len(list) = Len(bufs_to_tx[d]) + 1
      /\ ToSet(list) = ToSet(bufs_to_tx[d]) \cup {h}
      /\ IsInjective(list)
  <2>1. bufs_to_tx[d] \in Seq(Mbufs) /\ IsInjective(bufs_to_tx[d])
    BY LoopTypes DEF LoopInv, MbufsHaveOneOwner, InOnePlace
  <2> QED
    BY <1>1, <2>1, AppendFacts
<1>3. /\ bufs' = rest /\ bufs_to_tx' = [bufs_to_tx EXCEPT ![d] = list]
      /\ stage = "handle" /\ UNCHANGED <<pool, device, stage, out_device, nic, forgotten>>
  BY DEF HandleTransmit, Queued
<1>4. /\ bufs_to_tx \in [Devices -> Seq(Mbufs)]
      /\ \A e \in Devices : Len(bufs_to_tx[e]) \in Nat /\ Len(bufs) \in Nat
  BY LoopTypes
<1> HIDE DEF h, rest, list
<1>5. /\ bufs_to_tx' \in [Devices -> Seq(Mbufs)]
      /\ bufs_to_tx'[d] = list /\ \A e \in Devices \ {d} : bufs_to_tx'[e] = bufs_to_tx[e]
  BY <1>2, <1>3, <1>4
<1>6. Held' = Held
  <2>1. \A x : x \in Held' <=> x \in ToSet(rest) \/ \E e \in Devices : x \in ToSet(bufs_to_tx'[e])
    BY <1>3 DEF Held
  <2>2. \A x : x \in Held <=> x \in ToSet(bufs) \/ \E e \in Devices : x \in ToSet(bufs_to_tx[e])
    BY DEF Held
  <2>3. \A x : (\E e \in Devices : x \in ToSet(bufs_to_tx'[e]))
               <=> x = h \/ \E e \in Devices : x \in ToSet(bufs_to_tx[e])
    <3>1. \A e \in Devices : \A x : x \in ToSet(bufs_to_tx'[e])
                                    <=> x \in ToSet(bufs_to_tx[e]) \/ (e = d /\ x = h)
      BY <1>2, <1>5
    <3> QED
      BY <3>1
  <2> QED
    BY <1>1, <2>1, <2>2, <2>3
<1>7. LoopTypeOK' /\ ListsAreInTurn'
  <2>1. \A e \in Devices : Len(bufs') + Len(bufs_to_tx'[e]) <= BATCH_SIZE
    <3>1. /\ \A e \in Devices : Len(bufs) + Len(bufs_to_tx[e]) <= BATCH_SIZE
          /\ Len(bufs') = Len(bufs) - 1 /\ Len(bufs) \in Nat /\ BATCH_SIZE \in Nat
      BY <1>1, <1>3, <1>4, BatchAssumption DEF LoopInv, ListsAreInTurn
    <3> SUFFICES ASSUME NEW e \in Devices
                 PROVE  Len(bufs') + Len(bufs_to_tx'[e]) <= BATCH_SIZE
      OBVIOUS
    <3> DEFINE before == Len(bufs_to_tx[e])
               after == Len(bufs_to_tx'[e])
    <3>2. after = before \/ after = before + 1
      BY <1>2, <1>5
    <3>3. before \in Nat /\ Len(bufs) + before <= BATCH_SIZE
      BY <1>4, <3>1
    <3> HIDE DEF before, after
    <3>4. Len(bufs') + after <= BATCH_SIZE
      BY <3>1, <3>2, <3>3
    <3> QED
      BY <3>4 DEF after
  <2>2. \A e \in Devices : bufs_to_tx'[e] \in Seq(Mbufs) /\ Len(bufs_to_tx'[e]) \in Nat
    BY <1>5
  <2>3. bufs' \in Seq(Mbufs) /\ Len(bufs') \in Nat /\ Len(bufs') <= BATCH_SIZE
    BY <1>1, <1>3, <1>4, BatchAssumption DEF LoopInv, MbufsHaveOneOwner, LoopTypeOK
  <2>4. LoopTypeOK'
    BY <2>1, <2>2, <2>3, <1>3, BatchAssumption DEF LoopInv, MbufsHaveOneOwner, LoopTypeOK
  <2> QED
    BY <2>1, <2>4, <1>3, <1>5 DEF ListsAreInTurn
<1>8. InOnePlace'
  <2>1. /\ \A e \in Devices : IsInjective(bufs_to_tx[e]) /\ ToSet(bufs) \cap ToSet(bufs_to_tx[e]) = {}
        /\ \A e, f \in Devices : e # f => ToSet(bufs_to_tx[e]) \cap ToSet(bufs_to_tx[f]) = {}
    BY DEF LoopInv, MbufsHaveOneOwner, InOnePlace
  <2>2. \A e \in Devices : IsInjective(bufs_to_tx'[e]) /\ ToSet(rest) \cap ToSet(bufs_to_tx'[e]) = {}
    BY <1>1, <1>2, <1>5, <2>1
  <2>3. \A e, f \in Devices : e # f => ToSet(bufs_to_tx'[e]) \cap ToSet(bufs_to_tx'[f]) = {}
    BY <1>1, <1>2, <1>5, <2>1
  <2> QED
    BY <1>1, <1>3, <2>2, <2>3 DEF InOnePlace
<1> QED
  BY <1>3, <1>6, <1>7, <1>8 DEF LoopInv, MbufsHaveOneOwner

\* The mbuf of a packet that is dropped leaves the lists for ever.
LEMMA HandleDropKeeps ==
  ASSUME LoopInv, HandleDrop
  PROVE  LoopInv'
<1> DEFINE h == Head(bufs)
           rest == Tail(bufs)
<1>1. /\ h \in Mbufs /\ rest \in Seq(Mbufs) /\ Len(rest) = Len(bufs) - 1
      /\ IsInjective(rest) /\ ToSet(bufs) = ToSet(rest) \cup {h} /\ h \notin ToSet(rest)
      /\ h \in Held
      /\ \A e \in Devices : h \notin ToSet(bufs_to_tx[e])
  BY HandledMbuf DEF HandleDrop
<1>2. /\ bufs' = rest /\ forgotten' = forgotten \cup {h} /\ stage = "handle"
      /\ UNCHANGED <<pool, device, stage, bufs_to_tx, out_device, nic>>
  BY DEF HandleDrop
<1>3. /\ bufs_to_tx \in [Devices -> Seq(Mbufs)] /\ Len(bufs) \in Nat
      /\ \A e \in Devices : Len(bufs_to_tx[e]) \in Nat
  BY LoopTypes
<1> HIDE DEF h, rest
<1>4. Held' = Held \ {h}
  BY <1>1, <1>2 DEF Held
<1>5. LoopTypeOK'
  BY <1>1, <1>2, <1>3, BatchAssumption DEF LoopInv, MbufsHaveOneOwner, LoopTypeOK
<1>6. ListsAreInTurn'
  BY <1>1, <1>2, <1>3, BatchAssumption DEF LoopInv, ListsAreInTurn
<1>7. InOnePlace'
  BY <1>1, <1>2 DEF LoopInv, MbufsHaveOneOwner, InOnePlace
<1>8. /\ Held' \cap pool' = {} /\ Held' \cap nic' = {} /\ pool' \cap nic' = {}
      /\ Mbufs \ (pool' \cup nic' \cup Held') = forgotten'
  BY <1>1, <1>2, <1>4 DEF LoopInv, MbufsHaveOneOwner
<1> QED
  BY <1>5, <1>6, <1>7, <1>8 DEF LoopInv, MbufsHaveOneOwner

\* Nothing moves when the batch has been handled.
LEMMA HandledAllKeeps ==
  ASSUME LoopInv, HandledAll
  PROVE  LoopInv'
<1>1. /\ bufs = << >> /\ stage' = "tx" /\ out_device' = 0
      /\ UNCHANGED <<pool, device, bufs, bufs_to_tx, nic, forgotten>>
  BY DEF HandledAll
<1>2. 0 \in Devices
  BY DevicesAssumption DEF Devices
<1>3. LoopTypeOK' /\ InOnePlace' /\ Held' = Held
  BY <1>1, <1>2 DEF LoopInv, MbufsHaveOneOwner, LoopTypeOK, InOnePlace, Held
<1>4. ListsAreInTurn'
  BY <1>1 DEF LoopInv, ListsAreInTurn
<1> QED
  BY <1>1, <1>3, <1>4 DEF LoopInv, MbufsHaveOneOwner

\* What rte_eth_tx_burst takes goes to the NIC and the rest to the pool; the
\* list is empty then.
LEMMA TransmitKeeps ==
  ASSUME LoopInv, NEW nb_tx \in 0 .. Len(bufs_to_tx[out_device]), Transmit(nb_tx)
  PROVE  LoopInv'
<1> DEFINE o == out_device
           list == bufs_to_tx[o]
           taken == ToSet(SubSeq(list, 1, nb_tx))
           left == ToSet(SubSeq(list, nb_tx + 1, Len(list)))
<1>1. /\ o \in Devices /\ list \in Seq(Mbufs) /\ bufs_to_tx \in [Devices -> Seq(Mbufs)]
      /\ ToSet(list) \subseteq Mbufs
      /\ \A e \in Devices : Len(bufs_to_tx[e]) \in Nat
  BY LoopTypes
<1>2. ToSet(list) = taken \cup left /\ taken \cap left = {}
  <2>1. IsInjective(list)
    BY <1>1 DEF LoopInv, MbufsHaveOneOwner, InOnePlace
  <2> QED
    BY <1>1, <2>1, SplitFacts
<1>3. /\ stage = "tx" /\ nic' = nic \cup taken /\ pool' = pool \cup left
      /\ bufs_to_tx' = [bufs_to_tx EXCEPT ![o] = << >>]
      /\ UNCHANGED <<bufs, forgotten>>
  BY DEF Transmit, Unsent, ListAfter
<1>4. /\ stage' \in {"rx", "tx"} /\ device' \in Devices /\ out_device' \in Devices
      /\ stage' = "rx" => o = devices_count - 1
      /\ stage' = "tx" => out_device' = o + 1
  BY <1>1, DevicesAssumption
     DEF Transmit, NextDevice, Devices, LoopInv, MbufsHaveOneOwner, LoopTypeOK
<1>5. << >> \in Seq(Mbufs) /\ Len(<< >>) = 0 /\ ToSet(<< >>) = {} /\ IsInjective(<< >>)
  BY DEF ToSet, IsInjective
<1>6. /\ bufs_to_tx' \in [Devices -> Seq(Mbufs)]
      /\ bufs_to_tx'[o] = << >> /\ \A e \in Devices \ {o} : bufs_to_tx'[e] = bufs_to_tx[e]
  BY <1>1, <1>3, <1>5
<1>7. /\ bufs = << >> /\ \A d \in 0 .. o - 1 : bufs_to_tx[d] = << >>
      /\ \A e \in Devices : Len(bufs) + Len(bufs_to_tx[e]) <= BATCH_SIZE
  BY <1>3 DEF LoopInv, ListsAreInTurn
<1> HIDE DEF list, taken, left, o
<1>8. \A e \in Devices \ {o} : ToSet(bufs_to_tx[e]) \cap ToSet(list) = {}
  BY <1>1 DEF LoopInv, MbufsHaveOneOwner, InOnePlace, list
<1>9. Held' = Held \ ToSet(list) /\ ToSet(list) \subseteq Held
  <2>1. \A x : x \in Held' <=> \E e \in Devices : x \in ToSet(bufs_to_tx'[e])
    BY <1>3, <1>5, <1>7 DEF Held
  <2>2. \A x : x \in Held <=> \E e \in Devices : x \in ToSet(bufs_to_tx[e])
    BY <1>5, <1>7 DEF Held
  <2>3. \A e \in Devices : \A x : x \in ToSet(bufs_to_tx'[e])
                                  <=> x \in ToSet(bufs_to_tx[e]) /\ e # o
    BY <1>5, <1>6
  <2>4. \A x : x \in ToSet(list) <=> x \in ToSet(bufs_to_tx[o])
    BY DEF list
  <2> QED
    BY <2>1, <2>2, <2>3, <2>4, <1>1, <1>8
<1>10. LoopTypeOK'
  <2>1. \A e \in Devices : bufs_to_tx'[e] \in Seq(Mbufs) /\ Len(bufs_to_tx'[e]) <= BATCH_SIZE
    <3>1. \A e \in Devices : bufs_to_tx[e] \in Seq(Mbufs) /\ Len(bufs_to_tx[e]) <= BATCH_SIZE
      BY DEF LoopInv, MbufsHaveOneOwner, LoopTypeOK
    <3>2. 0 <= BATCH_SIZE
      BY BatchAssumption
    <3> QED
      BY <3>1, <3>2, <1>5, <1>6
  <2>2. /\ pool' \subseteq Mbufs /\ nic' \subseteq Mbufs /\ forgotten' \subseteq Mbufs
        /\ bufs' \in Seq(Mbufs) /\ Len(bufs') <= BATCH_SIZE
    BY <1>1, <1>2, <1>3 DEF LoopInv, MbufsHaveOneOwner, LoopTypeOK, list
  <2> QED
    BY <1>4, <2>1, <2>2 DEF LoopTypeOK
<1>11. ListsAreInTurn'
  <2>1. \A d \in 0 .. o : d \in Devices => bufs_to_tx'[d] = << >>
    <3>1. \A d \in 0 .. o : d = o \/ d \in 0 .. o - 1
      BY <1>1, DevicesAssumption DEF Devices
    <3> QED
      BY <3>1, <1>6, <1>7
  <2>2. stage' = "rx" => \A d \in Devices : bufs_to_tx'[d] = << >>
    BY <1>4, <2>1 DEF Devices
  <2>3. stage' = "tx" => \A d \in 0 .. out_device' - 1 : bufs_to_tx'[d] = << >>
    BY <1>1, <1>4, <2>1, DevicesAssumption DEF Devices
  <2>4. \A e \in Devices : Len(bufs') + Len(bufs_to_tx'[e]) <= BATCH_SIZE
    BY <1>3, <1>5, <1>6, <1>7, BatchAssumption
  <2> QED
    BY <1>3, <1>6, <1>7, <2>2, <2>3, <2>4 DEF ListsAreInTurn
<1>12. InOnePlace'
  <2>1. /\ \A e \in Devices : IsInjective(bufs_to_tx[e])
        /\ \A e, f \in Devices : e # f => ToSet(bufs_to_tx[e]) \cap ToSet(bufs_to_tx[f]) = {}
    BY DEF LoopInv, MbufsHaveOneOwner, InOnePlace
  <2> QED
    BY <1>3, <1>5, <1>6, <1>7, <2>1 DEF InOnePlace
<1>13. /\ Held' \cap pool' = {} /\ Held' \cap nic' = {} /\ pool' \cap nic' = {}
       /\ Mbufs \ (pool' \cup nic' \cup Held') = forgotten'
  BY <1>2, <1>3, <1>9 DEF LoopInv, MbufsHaveOneOwner
<1> QED
  BY <1>10, <1>11, <1>12, <1>13 DEF LoopInv, MbufsHaveOneOwner

\* A NIC gives an mbuf back.
LEMMA NicDoneKeeps ==
  ASSUME LoopInv, NEW m \in Mbufs, NicDone(m)
  PROVE  LoopInv'
<1>1. Held' = Held
  BY DEF NicDone, Held
<1> QED
  BY <1>1 DEF NicDone, LoopInv, MbufsHaveOneOwner, LoopTypeOK, InOnePlace, ListsAreInTurn

\* The loop keeps its lists in turn and every mbuf in one place.
LEMMA LoopInvariant == LoopSpec => []LoopInv
<1>1. LoopInv /\ [LoopNext]_loop_vars => LoopInv'
  <2> SUFFICES ASSUME LoopInv, [LoopNext]_loop_vars
               PROVE  LoopInv'
    OBVIOUS
  <2>1. ASSUME NEW batch \in Batches(BATCH_SIZE), Receive(batch)
        PROVE  LoopInv'
    BY <2>1, ReceiveKeeps
  <2>2. ASSUME NEW d \in Devices, HandleTransmit(d)
        PROVE  LoopInv'
    BY <2>2, HandleTransmitKeeps
  <2>3. CASE HandleDrop
    BY <2>3, HandleDropKeeps
  <2>4. CASE HandledAll
    BY <2>4, HandledAllKeeps
  <2>5. ASSUME NEW nb_tx \in 0 .. Len(bufs_to_tx[out_device]), Transmit(nb_tx)
        PROVE  LoopInv'
    BY <2>5, TransmitKeeps
  <2>6. ASSUME NEW m \in Mbufs, NicDone(m)
        PROVE  LoopInv'
    BY <2>6, NicDoneKeeps
  <2>7. CASE UNCHANGED loop_vars
    <3>1. Held' = Held
      BY <2>7 DEF loop_vars, Held
    <3> QED
      BY <2>7, <3>1 DEF loop_vars, LoopInv, MbufsHaveOneOwner, LoopTypeOK, InOnePlace,
         ListsAreInTurn
  <2> QED
    BY <2>1, <2>2, <2>3, <2>4, <2>5, <2>6, <2>7 DEF LoopNext, Loop
<1> QED
  BY <1>1, LoopStarts, PTL DEF LoopSpec

\* However many mbufs there are, and whatever the cards take: no mbuf is freed
\* or transmitted twice, no list outgrows its array, and the only mbufs that
\* get lost are those of packets that nf_handle does not transmit.
THEOREM MbufOwnership == LoopSpec => []MbufsHaveOneOwner
<1>1. LoopInv => MbufsHaveOneOwner
  BY DEF LoopInv
<1> QED
  BY <1>1, LoopInvariant, PTL

=============================================================================
