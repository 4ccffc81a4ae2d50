---------------------- MODULE AddressTranslationProofs ----------------------
(***************************************************************************)
(* The address translator keeps its table in sync and its sessions on      *)
(* their ports, for any number of flows, ports and hosts, and any          *)
(* expiration time.                                                        *)
(***************************************************************************)
EXTENDS AddressTranslation, FlowTableProofs

\* When the index of a flow was last refreshed.
Stamp(t, flow) == t.port_allocator.timestamps[IndexOf(t, flow)]

\* What sessions and table have to do with each other: a flow that is known
\* has the port of its index, and was used no later than its index, which a
\* spoofed packet refreshes too; one that is not known has expired.
Sessions ==
  /\ \A flow \in Keys : session[flow].time <= now
  /\ \A flow \in Known(table) :
       /\ session[flow].port = ExternalPort(IndexOf(table, flow))
       /\ session[flow].time <= Stamp(table, flow)
  /\ \A flow \in Keys \ Known(table) :
       session[flow].port # NoPort => session[flow].time + ExpirationTime < now

Inv == TypeOK /\ InSync(table) /\ Sessions

-----------------------------------------------------------------------------
(* Remainders.                                                             *)

\* A remainder is in range, and leaves a multiple of the divisor.
LEMMA Remainder ==
  ASSUME NEW m \in Nat, m > 0, NEW x \in Int
  PROVE  x % m \in 0 .. m - 1 /\ \E q \in Int : x = m * q + (x % m)
<1>1. x % m \in 0 .. m - 1
  OBVIOUS
<1>2. \E q \in Int : x = m * q + (x % m)
  OBVIOUS
<1> QED
  BY <1>1, <1>2

\* Remainders of numbers that wrap around at most once.
LEMMA WrapAround ==
  ASSUME NEW m \in Nat, m > 0, NEW x \in Int
  PROVE  /\ 0 <= x /\ x < m => x % m = x
         /\ m <= x /\ x < 2 * m => x % m = x - m
         /\ - m <= x /\ x < 0 => x % m = x + m
OBVIOUS

\* The port of an index and the index of a port, in uint16_t: each is the
\* other's inverse, for indices that are not larger than ports.
LEMMA PortOfIndex ==
  ASSUME NEW i \in Ports
  PROVE  ExternalPort(i) \in Ports /\ PortIndex(ExternalPort(i)) = i
<1>1. PortModulus \in Nat /\ PortModulus > 0 /\ StartPort \in 0 .. PortModulus - 1
  BY PortAssumption
<1>2. i \in Int /\ 0 <= i /\ i < PortModulus
  BY <1>1 DEF Ports
<1>3. ExternalPort(i) = (StartPort + i) % PortModulus
  BY <1>1, <1>2, WrapAround DEF ExternalPort
<1>4. CASE StartPort + i < PortModulus
  <2>1. ExternalPort(i) = StartPort + i
    BY <1>1, <1>2, <1>3, <1>4, WrapAround
  <2> QED
    BY <1>1, <1>2, <1>4, <2>1, WrapAround DEF PortIndex, Ports
<1>5. CASE ~ (StartPort + i < PortModulus)
  <2>1. ExternalPort(i) = StartPort + i - PortModulus
    BY <1>1, <1>2, <1>3, <1>5, WrapAround
  <2>2. (i - PortModulus) % PortModulus = i
    BY <1>1, <1>2, WrapAround
  <2> QED
    BY <1>1, <1>2, <1>5, <2>1, <2>2 DEF PortIndex, Ports
<1> QED
  BY <1>4, <1>5

LEMMA IndexOfPort ==
  ASSUME NEW port \in Ports
  PROVE  PortIndex(port) \in Ports /\ ExternalPort(PortIndex(port)) = port
<1>1. PortModulus \in Nat /\ PortModulus > 0 /\ StartPort \in 0 .. PortModulus - 1
  BY PortAssumption
<1>2. port \in Int /\ 0 <= port /\ port < PortModulus
  BY <1>1 DEF Ports
<1>3. CASE port >= StartPort
  <2>1. PortIndex(port) = port - StartPort
    BY <1>1, <1>2, <1>3, WrapAround DEF PortIndex
  <2>2. PortIndex(port) % PortModulus = PortIndex(port)
    BY <1>1, <1>2, <1>3, <2>1, WrapAround
  <2> QED
    BY <1>1, <1>2, <1>3, <2>1, <2>2, WrapAround DEF ExternalPort, Ports
<1>4. CASE port < StartPort
  <2>1. PortIndex(port) = port - StartPort + PortModulus
    BY <1>1, <1>2, <1>4, WrapAround DEF PortIndex
  <2>2. PortIndex(port) % PortModulus = PortIndex(port)
    BY <1>1, <1>2, <1>4, <2>1, WrapAround
  <2>3. (port + PortModulus) % PortModulus = port
    BY <1>1, <1>2, WrapAround
  <2> QED
    BY <1>1, <1>2, <1>4, <2>1, <2>2, <2>3 DEF ExternalPort, Ports
<1> QED
  BY <1>1, <1>2, <1>3, <1>4

\* Whatever the index, there is a port for it.
LEMMA ExternalPortType ==
  ASSUME NEW i \in Nat
  PROVE  ExternalPort(i) \in Ports
<1>1. PortModulus \in Nat /\ PortModulus > 0 /\ StartPort \in Nat
  BY PortAssumption
<1>2. i % PortModulus \in Nat
  BY <1>1, Remainder
<1> QED
  BY <1>1, <1>2, Remainder DEF ExternalPort, Ports

-----------------------------------------------------------------------------
(* The table and the sessions.                                             *)

\* The table of a translator is one of the tables of FlowTableProofs.
LEMMA TableFacts ==
  ASSUME TypeOK, InSync(table)
  PROVE  /\ table \in TableType(MaxFlows, ExpirationTime)
         /\ Known(table) \subseteq Keys
         /\ \A f \in Known(table) :
              /\ IndexOf(table, f) \in 0 .. MaxFlows - 1
              /\ ~ Free(table.port_allocator, IndexOf(table, f))
              /\ table.flows[IndexOf(table, f)] = f
              /\ Stamp(table, f) \in Nat
<1>1. table \in TableType(MaxFlows, ExpirationTime)
  BY DEF TypeOK
<1>2. Indices(table.port_allocator) = 0 .. MaxFlows - 1
  BY <1>1, PoolOfTable, MaxFlowsAssumption
<1>3. \A f \in Known(table) :
        /\ IndexOf(table, f) \in 0 .. MaxFlows - 1
        /\ ~ Free(table.port_allocator, IndexOf(table, f))
        /\ table.flows[IndexOf(table, f)] = f
  BY <1>2, KnownFacts
<1>4. \A i \in 0 .. MaxFlows - 1 : table.port_allocator.timestamps[i] \in Nat
  BY <1>1, PoolFields, MaxFlowsAssumption
<1> QED
  BY <1>1, <1>3, <1>4, KnownAreKeys, MaxFlowsAssumption DEF Stamp

\* index_pool_used says so of the indices of known flows that have not expired.
LEMMA UsedIsKnown ==
  ASSUME TypeOK, InSync(table), NEW time \in Clock, NEW i \in Nat
  PROVE  /\ index_pool_used(table.port_allocator, time, i) =>
              /\ i \in 0 .. MaxFlows - 1
              /\ ~ Free(table.port_allocator, i)
              /\ table.flows[i] \in Known(table)
              /\ IndexOf(table, table.flows[i]) = i
         /\ \A f \in Known(table) :
              IndexOf(table, f) = i /\ Stamp(table, f) + ExpirationTime >= time
                => index_pool_used(table.port_allocator, time, i)
<1>1. /\ Indices(table.port_allocator) = 0 .. MaxFlows - 1
      /\ table.port_allocator.size = MaxFlows
      /\ table.port_allocator.expiration_time = ExpirationTime
  <2>1. table \in TableType(MaxFlows, ExpirationTime)
    BY TableFacts
  <2>2. Indices(table.port_allocator) = 0 .. MaxFlows - 1
    BY <2>1, PoolOfTable, MaxFlowsAssumption
  <2> QED
    BY <2>1, <2>2, PoolFields, MaxFlowsAssumption
<1>2. ASSUME index_pool_used(table.port_allocator, time, i)
      PROVE  /\ i \in 0 .. MaxFlows - 1
             /\ ~ Free(table.port_allocator, i)
  BY <1>1, <1>2, MaxFlowsAssumption DEF index_pool_used
<1>3. ASSUME NEW f \in Known(table), IndexOf(table, f) = i,
             Stamp(table, f) + ExpirationTime >= time
      PROVE  index_pool_used(table.port_allocator, time, i)
  <2>1. ExpirationTime \in Nat /\ time \in Nat /\ Stamp(table, f) \in Nat
    BY TableFacts, ExpirationAssumption, TimeMaxAssumption DEF Time, Clock
  <2>2. Stamp(table, f) = table.port_allocator.timestamps[i]
    BY <1>3 DEF Stamp
  <2>3. ~ Expired(table.port_allocator, time, i)
    BY <1>1, <1>3, <2>1, <2>2 DEF Expired
  <2>4. i < MaxFlows /\ ~ Free(table.port_allocator, i)
    BY <1>3, TableFacts, MaxFlowsAssumption
  <2> QED
    BY <1>1, <2>3, <2>4 DEF index_pool_used
<1> QED
  BY <1>1, <1>2, <1>3, UsedFacts

\* The table of nf_init has no flows and no sessions.
LEMMA InvInit == Init => Inv
<1> SUFFICES ASSUME Init PROVE Inv
  OBVIOUS
<1>1. table \in TableType(MaxFlows, ExpirationTime) /\ InSync(table)
  BY AllocInSync, MaxFlowsAssumption DEF Init
<1>2. Known(table) = {}
  BY DEF Init, TableAlloc, Known
<1>3. 0 \in Clock
  BY TimeMaxAssumption DEF Clock
<1>4. TypeOK
  BY <1>1, <1>3 DEF Init, TypeOK, OutType, NoSession
<1>5. Sessions
  BY <1>2 DEF Init, Sessions, NoSession
<1> QED
  BY <1>1, <1>4, <1>5 DEF Inv

\* The times of packets.
LEMMA TimeIsClock ==
  ASSUME now \in Clock, NEW time \in now .. TIME_MAX - 1
  PROVE  time \in Clock /\ time \in Nat /\ now \in Nat /\ now <= time
BY TimeMaxAssumption DEF Clock

\* A packet that changes neither table nor sessions.
LEMMA DropKeepsInv ==
  ASSUME Inv, NEW time \in now .. TIME_MAX - 1, now' = time, out' = Dropped,
         UNCHANGED <<table, session>>
  PROVE  Inv'
<1>1. time \in Clock /\ time \in Nat /\ now \in Nat /\ now <= time
  BY TimeIsClock DEF Inv, TypeOK
<1>2. TypeOK'
  BY <1>1 DEF Inv, TypeOK, OutType
<1>3. \A flow \in Keys : session[flow].time \in Nat
  BY TimeMaxAssumption DEF Inv, TypeOK, Clock
<1>4. ExpirationTime \in Nat
  BY ExpirationAssumption, TimeMaxAssumption DEF Time
<1>5. Sessions'
  BY <1>1, <1>3, <1>4 DEF Inv, Sessions, Stamp
<1> QED
  BY <1>2, <1>5 DEF Inv

\* Refreshing the index of a known flow changes its time and no other.
LEMMA RefreshStamps ==
  ASSUME TypeOK, InSync(table), NEW flow \in Known(table), NEW time \in Clock
  PROVE  LET t == Refreshed(table, time, IndexOf(table, flow))
         IN  /\ t \in TableType(MaxFlows, ExpirationTime) /\ InSync(t)
             /\ Known(t) = Known(table)
             /\ \A f \in Known(table) : IndexOf(t, f) = IndexOf(table, f)
             /\ Stamp(t, flow) = time
             /\ \A f \in Known(table) : f # flow => Stamp(t, f) = Stamp(table, f)
<1> DEFINE i == IndexOf(table, flow)
           t == Refreshed(table, time, i)
<1>1. table \in TableType(MaxFlows, ExpirationTime)
  BY TableFacts
<1>2. \A f \in Known(table) : IndexOf(table, f) \in 0 .. MaxFlows - 1
  BY TableFacts
<1>3. t \in TableType(MaxFlows, ExpirationTime) /\ InSync(t)
  BY <1>1, TableFacts, RefreshInSync, MaxFlowsAssumption
<1>4. /\ Known(t) = Known(table)
      /\ \A k : IndexOf(t, k) = IndexOf(table, k)
      /\ \A j \in 0 .. MaxFlows - 1 :
           t.port_allocator.timestamps[j]
             = IF j = i THEN time ELSE table.port_allocator.timestamps[j]
  BY <1>1, RefreshedFacts, MaxFlowsAssumption
<1>5. \A f \in Known(table) : f # flow => IndexOf(table, f) # i
  BY IndexInjective
<1> HIDE DEF t
<1>6. /\ Stamp(t, flow) = time
      /\ \A f \in Known(table) : f # flow => Stamp(t, f) = Stamp(table, f)
  BY <1>2, <1>4, <1>5 DEF Stamp
<1> QED
  BY <1>3, <1>4, <1>6 DEF t

\* An updated checksum is a word.
LEMMA UpdateFacts ==
  ASSUME NEW c \in Words, NEW old \in Words, NEW new \in Words
  PROVE  net_checksum_update(c, old, new) \in Words
<1>1. PortModulus \in Nat /\ PortModulus > 0
  BY PortAssumption
<1>2. c \in Int /\ old \in Int /\ new \in Int
  BY <1>1 DEF Words, Ports
<1>3. - (((- c) - 1) + ((- old) - 1) + new) - 1 = c + old - new + 1
  BY <1>2
<1>4. net_checksum_update(c, old, new) = (c + old - new + 1) % PortModulus
  BY <1>3 DEF net_checksum_update
<1>5. (c + old - new + 1) % PortModulus \in Words
  BY <1>1, <1>2, Remainder DEF Words, Ports
<1> QED
  BY <1>4, <1>5

\* The words of packets are words.
LEMMA WordsFacts ==
  ASSUME NEW flow \in Keys
  PROVE  /\ flow.src \in Hosts /\ flow.dst \in Servers
         /\ Before(flow)[1] \in Words /\ Before(flow)[2] \in Words
         /\ Before(flow)[3] \in Words
         /\ ExternalAddr[1] \in Words /\ ExternalAddr[2] \in Words
         /\ \A server \in Servers : ServerLow[server] \in Words
<1>1. flow.src \in Hosts /\ flow.dst \in Servers
  BY FlowAssumption
<1>2. Before(flow) \in Words \X Words \X Words
  BY <1>1, WordsAssumption DEF Before
<1> QED
  BY <1>1, <1>2, WordsAssumption

\* Packets as they are transmitted have the types of packets.
LEMMA OutTypes ==
  ASSUME NEW flow \in Keys, NEW port \in Ports, NEW checksum
  PROVE  /\ Request(flow, port, checksum) \in OutType
         /\ \A server \in Servers : Answer(flow, port, server, checksum) \in OutType
<1>1. \A difference : IsRight(difference) \in BOOLEAN
  BY DEF IsRight
<1>2. Request(flow, port, checksum) \in OutType
  BY <1>1, WordsFacts DEF Request, ToServer, OutType
<1>3. ASSUME NEW server \in Servers
      PROVE  Answer(flow, port, server, checksum) \in OutType
  <2> DEFINE src_low == net_packet_checksum_update_32(ServerLow[server], After(flow, port),
                                                      Before(flow))
  <2>1. After(flow, port)[1] \in Words /\ After(flow, port)[2] \in Words
    BY WordsFacts DEF After
  <2>2. net_checksum_update(ServerLow[server], After(flow, port)[1], Before(flow)[1]) \in Words
    BY <2>1, WordsFacts, UpdateFacts
  <2>3. src_low \in Words
    BY <2>1, <2>2, WordsFacts, UpdateFacts DEF net_packet_checksum_update_32
  <2> HIDE DEF src_low
  <2>4. \E h, c \in BOOLEAN :
          Answer(flow, port, server, checksum) = ToHost(flow.src, server, src_low, h, c)
    BY <1>1 DEF Answer, src_low
  <2> QED
    BY <2>3, <2>4, WordsFacts DEF ToHost, OutType
<1> QED
  BY <1>2, <1>3

\* A flow that needs an index gets one from a flow that expired, if not from
\* nobody; the others keep index and time.
LEMMA GotFacts ==
  ASSUME TypeOK, InSync(table), NEW flow \in Keys, NEW time \in Clock,
         flow \in Known(table) \/ HasSpace(table, time)
  PROVE  LET t == GotInternal(flow, time)
         IN  /\ t \in TableType(MaxFlows, ExpirationTime) /\ InSync(t)
             /\ flow \in Known(t)
             /\ IndexOf(t, flow) \in 0 .. MaxFlows - 1
             /\ flow \in Known(table) => IndexOf(t, flow) = IndexOf(table, flow)
             /\ Stamp(t, flow) = time
             /\ \A f \in Known(t) : f # flow =>
                  /\ f \in Known(table)
                  /\ IndexOf(t, f) = IndexOf(table, f)
                  /\ Stamp(t, f) = Stamp(table, f)
             /\ \A f \in Known(table) : f \notin Known(t) =>
                  Stamp(table, f) + ExpirationTime < time
<1>1. CASE flow \in Known(table)
  <2>1. GotInternal(flow, time) = Refreshed(table, time, IndexOf(table, flow))
    BY <1>1 DEF GotInternal
  <2> QED
    BY <1>1, <2>1, RefreshStamps, TableFacts
<1>2. CASE flow \notin Known(table)
  <2> DEFINE b == InsertIndex(table, time)
             t == Inserted(table, time, flow)
  <2>1. HasSpace(table, time) /\ table \in TableType(MaxFlows, ExpirationTime)
    BY <1>2, TableFacts
  <2>2. t \in TableType(MaxFlows, ExpirationTime) /\ InSync(t)
    BY <1>2, <2>1, InsertedType, InsertInSync, MaxFlowsAssumption
  <2>3. /\ b \in 0 .. MaxFlows - 1
        /\ Free(table.port_allocator, b) \/ Expired(table.port_allocator, time, b)
        /\ Known(t) = {k \in Known(table) : IndexOf(table, k) # b} \cup {flow}
        /\ IndexOf(t, flow) = b
        /\ \A k \in Known(table) : IndexOf(table, k) # b => IndexOf(t, k) = IndexOf(table, k)
        /\ \A j \in 0 .. MaxFlows - 1 :
             t.port_allocator.timestamps[j]
               = IF j = b THEN time ELSE table.port_allocator.timestamps[j]
    BY <1>2, <2>1, InsertedFacts, MaxFlowsAssumption
  <2>4. \A f \in Known(table) :
          /\ IndexOf(table, f) \in 0 .. MaxFlows - 1
          /\ ~ Free(table.port_allocator, IndexOf(table, f))
          /\ Stamp(table, f) \in Nat
    BY TableFacts
  <2>5. /\ ExpirationTime \in Nat /\ time \in Nat
        /\ table.port_allocator.expiration_time = ExpirationTime
    BY <2>1, PoolFields, MaxFlowsAssumption, ExpirationAssumption, TimeMaxAssumption
       DEF Time, Clock
  <2> HIDE DEF b, t
  <2>6. Stamp(t, flow) = time
    BY <2>3 DEF Stamp
  <2>7. \A f \in Known(t) : f # flow =>
          /\ f \in Known(table)
          /\ IndexOf(t, f) = IndexOf(table, f)
          /\ Stamp(t, f) = Stamp(table, f)
    BY <2>3, <2>4 DEF Stamp
  <2>8. ASSUME NEW f \in Known(table), f \notin Known(t)
        PROVE  Stamp(table, f) + ExpirationTime < time
    <3>1. IndexOf(table, f) = b
      BY <2>3, <2>8
    <3>2. Expired(table.port_allocator, time, b)
      BY <2>3, <2>4, <3>1
    <3>3. Stamp(table, f) = table.port_allocator.timestamps[b]
      BY <3>1 DEF Stamp
    <3> QED
      BY <2>4, <2>5, <3>2, <3>3 DEF Expired
  <2>9. GotInternal(flow, time) = t
    BY <1>2 DEF GotInternal, t
  <2> QED
    BY <1>2, <2>2, <2>3, <2>6, <2>7, <2>8, <2>9
<1> QED
  BY <1>1, <1>2

\* A packet from the inside: its flow gets the port of its index, and a flow
\* that loses its index for it has expired.
LEMMA InternalKeepsInv ==
  ASSUME Inv, NEW flow \in Keys, NEW checksum \in Checksums,
         NEW time \in now .. TIME_MAX - 1, InternalPacket(flow, checksum, time)
  PROVE  Inv'
<1> DEFINE t == GotInternal(flow, time)
           i == IndexOf(t, flow)
           port == ExternalPort(i)
<1>1. TypeOK /\ InSync(table) /\ Sessions
  BY DEF Inv
<1>2. time \in Clock /\ time \in Nat /\ now \in Nat /\ now <= time
  BY <1>1, TimeIsClock DEF TypeOK
<1>3. CASE flow \notin Known(table) /\ ~ HasSpace(table, time)
  BY <1>3, DropKeepsInv DEF InternalPacket
<1>4. CASE flow \in Known(table) \/ HasSpace(table, time)
  <2>1. /\ t \in TableType(MaxFlows, ExpirationTime) /\ InSync(t)
        /\ i \in 0 .. MaxFlows - 1
        /\ Stamp(t, flow) = time
        /\ \A f \in Known(t) : f # flow =>
             /\ f \in Known(table)
             /\ IndexOf(t, f) = IndexOf(table, f)
             /\ Stamp(t, f) = Stamp(table, f)
        /\ \A f \in Known(table) : f \notin Known(t) =>
             Stamp(table, f) + ExpirationTime < time
        /\ flow \in Known(t)
    BY <1>1, <1>2, <1>4, GotFacts
  <2>2. port \in Ports
    BY <2>1, ExternalPortType, MaxFlowsAssumption
  <2>3. /\ table' = t /\ now' = time
        /\ session' = [session EXCEPT ![flow] = [port |-> port, time |-> time]]
    BY <1>4 DEF InternalPacket
  <2>4. out' = Request(flow, port, checksum)
    BY <1>4 DEF InternalPacket
  <2>5. out' \in OutType
    BY <2>2, <2>4, OutTypes
  <2>6. session \in [Keys -> [port : Ports \cup {NoPort}, time : Clock]]
    BY <1>1 DEF TypeOK
  <2> HIDE DEF t
  <2>7. port = ExternalPort(IndexOf(t, flow))
    OBVIOUS
  <2> HIDE DEF port, i
  <2>8. /\ session' \in [Keys -> [port : Ports \cup {NoPort}, time : Clock]]
        /\ session'[flow].port = port /\ session'[flow].time = time
        /\ \A f \in Keys : f # flow => session'[f] = session[f]
    BY <1>2, <2>2, <2>3, <2>6
  <2>9. TypeOK'
    BY <1>2, <2>1, <2>3, <2>5, <2>8 DEF TypeOK
  <2>10. Known(t) \subseteq Keys /\ Known(table) \subseteq Keys
    BY <1>1, <2>1, TableFacts, KnownAreKeys, MaxFlowsAssumption
  <2>11. /\ \A f \in Keys : session[f].time \in Nat
         /\ \A f \in Known(table) : Stamp(table, f) \in Nat
         /\ ExpirationTime \in Nat
    BY <1>1, <2>6, TableFacts, ExpirationAssumption, TimeMaxAssumption DEF Clock, Time
  <2>12. \A f \in Keys : session'[f].time <= time
    BY <1>1, <1>2, <2>8, <2>11 DEF Sessions
  <2>13. ASSUME NEW f \in Known(t)
         PROVE  /\ session'[f].port = ExternalPort(IndexOf(t, f))
                /\ session'[f].time <= Stamp(t, f)
    <3>1. CASE f = flow
      BY <1>2, <2>1, <2>7, <2>8, <3>1
    <3>2. CASE f # flow
      BY <1>1, <2>1, <2>8, <2>10, <3>2 DEF Sessions
    <3> QED
      BY <3>1, <3>2
  <2>14. ASSUME NEW f \in Keys \ Known(t), session'[f].port # NoPort
         PROVE  session'[f].time + ExpirationTime < time
    <3>1. f # flow /\ session'[f] = session[f]
      BY <2>1, <2>8
    <3>2. CASE f \in Known(table)
      <4>1. session[f].time <= Stamp(table, f)
        BY <1>1, <3>2 DEF Sessions
      <4>2. Stamp(table, f) + ExpirationTime < time
        BY <2>1, <3>2
      <4> QED
        BY <1>2, <2>11, <3>1, <3>2, <4>1, <4>2
    <3>3. CASE f \notin Known(table)
      <4>1. session[f].time + ExpirationTime < now
        BY <1>1, <2>14, <3>1, <3>3 DEF Sessions
      <4> QED
        BY <1>2, <2>11, <3>1, <4>1
    <3> QED
      BY <3>2, <3>3
  <2>15. Sessions'
    BY <2>3, <2>12, <2>13, <2>14 DEF Sessions
  <2> QED
    BY <2>1, <2>3, <2>9, <2>15 DEF Inv
<1> QED
  BY <1>3, <1>4

\* A packet from the outside that is passed on, by way of what it needs.
LEMMA AcceptedFacts ==
  ASSUME TypeOK, InSync(table), NEW port \in Ports, NEW server \in Servers,
         NEW checksum, NEW time \in Clock, ExternalPacket(port, server, checksum, time),
         index_pool_used(table.port_allocator, time, PortIndex(port))
  PROVE  LET i    == PortIndex(port)
             flow == table.flows[i]
         IN  /\ i \in Ports
             /\ flow \in Known(table) /\ flow \in Keys /\ IndexOf(table, flow) = i
             /\ table' = Refreshed(table, time, IndexOf(table, flow))
             /\ \/ /\ flow.dst = server
                   /\ out' = Answer(flow, port, server, checksum)
                   /\ session' = [session EXCEPT ![flow].time = time]
                \/ /\ flow.dst # server
                   /\ out' = Dropped
                   /\ UNCHANGED session
<1>1. PortIndex(port) \in Ports /\ PortIndex(port) \in Nat
  BY IndexOfPort, PortAssumption DEF Ports
<1>2. /\ table.flows[PortIndex(port)] \in Known(table)
      /\ IndexOf(table, table.flows[PortIndex(port)]) = PortIndex(port)
  BY <1>1, UsedIsKnown
<1>3. Known(table) \subseteq Keys
  BY TableFacts
<1> QED
  BY <1>1, <1>2, <1>3 DEF ExternalPacket, FromServer

\* A packet from the outside: the index of its port is refreshed, whoever sent
\* it, and the session is, if the right server did.
LEMMA ExternalKeepsInv ==
  ASSUME Inv, NEW port \in Ports, NEW server \in Servers,
         NEW checksum, NEW time \in now .. TIME_MAX - 1,
         ExternalPacket(port, server, checksum, time)
  PROVE  Inv'
<1> DEFINE flow == table.flows[PortIndex(port)]
           t == Refreshed(table, time, IndexOf(table, flow))
<1>1. TypeOK /\ InSync(table) /\ Sessions
  BY DEF Inv
<1>2. time \in Clock /\ time \in Nat /\ now \in Nat /\ now <= time
  BY <1>1, TimeIsClock DEF TypeOK
<1>3. CASE ~ index_pool_used(table.port_allocator, time, PortIndex(port))
  BY <1>3, DropKeepsInv DEF ExternalPacket
<1>4. CASE index_pool_used(table.port_allocator, time, PortIndex(port))
  <2>1. /\ flow \in Known(table) /\ flow \in Keys
        /\ table' = t
        /\ \/ /\ flow.dst = server
              /\ out' = Answer(flow, port, server, checksum)
              /\ session' = [session EXCEPT ![flow].time = time]
           \/ out' = Dropped /\ UNCHANGED session
    BY <1>1, <1>2, <1>4, AcceptedFacts
  <2>2. now' = time
    BY DEF ExternalPacket
  <2>3. /\ t \in TableType(MaxFlows, ExpirationTime) /\ InSync(t)
        /\ Known(t) = Known(table)
        /\ \A f \in Known(table) : IndexOf(t, f) = IndexOf(table, f)
        /\ Stamp(t, flow) = time
        /\ \A f \in Known(table) : f # flow => Stamp(t, f) = Stamp(table, f)
    BY <1>1, <1>2, <2>1, RefreshStamps
  <2>4. session \in [Keys -> [port : Ports \cup {NoPort}, time : Clock]]
    BY <1>1 DEF TypeOK
  <2> HIDE DEF flow, t
  <2>5. out' \in OutType
    <3>1. Dropped \in OutType
      BY DEF OutType
    <3> QED
      BY <2>1, <3>1, OutTypes
  <2>7. /\ session' \in [Keys -> [port : Ports \cup {NoPort}, time : Clock]]
        /\ \A f \in Keys : session'[f].port = session[f].port
        /\ \A f \in Keys : session'[f].time = session[f].time \/ session'[f].time = time
        /\ \A f \in Keys : f # flow => session'[f] = session[f]
    BY <1>2, <2>1, <2>4
  <2>8. TypeOK'
    BY <1>2, <2>1, <2>2, <2>3, <2>5, <2>7 DEF TypeOK
  <2>9. \A f \in Keys : session[f].time \in Nat
    BY <2>4, TimeMaxAssumption DEF Clock
  <2>10. \A f \in Keys : session'[f].time <= time
    BY <1>1, <1>2, <2>7, <2>9 DEF Sessions
  <2>11. Known(table) \subseteq Keys
    BY <1>1, TableFacts
  <2>12. ASSUME NEW f \in Known(t)
         PROVE  /\ session'[f].port = ExternalPort(IndexOf(t, f))
                /\ session'[f].time <= Stamp(t, f)
    <3>1. CASE f = flow
      BY <1>1, <2>3, <2>7, <2>10, <2>11, <3>1 DEF Sessions
    <3>2. CASE f # flow
      BY <1>1, <2>3, <2>7, <2>11, <3>2 DEF Sessions
    <3> QED
      BY <3>1, <3>2
  <2>13. ASSUME NEW f \in Keys \ Known(t), session'[f].port # NoPort
         PROVE  session'[f].time + ExpirationTime < time
    <3>1. f \notin Known(table) /\ session'[f] = session[f]
      BY <2>1, <2>3, <2>7
    <3>2. session[f].time + ExpirationTime < now
      BY <1>1, <2>13, <3>1 DEF Sessions
    <3>3. ExpirationTime \in Nat
      BY ExpirationAssumption, TimeMaxAssumption DEF Time
    <3> QED
      BY <1>2, <2>9, <3>1, <3>2, <3>3
  <2>14. Sessions'
    BY <2>1, <2>2, <2>10, <2>12, <2>13 DEF Sessions
  <2> QED
    BY <2>1, <2>3, <2>8, <2>14 DEF Inv
<1> QED
  BY <1>3, <1>4

\* Every call to nf_handle keeps table and sessions.
LEMMA InvNext ==
  ASSUME Inv, [Next]_vars
  PROVE  Inv'
<1>1. ASSUME NEW time \in now .. TIME_MAX - 1, Other(time)
      PROVE  Inv'
  BY <1>1, DropKeepsInv DEF Other
<1>2. CASE UNCHANGED vars
  BY <1>2 DEF vars, Inv, TypeOK, Sessions, Stamp
<1> QED
  BY <1>1, <1>2, InternalKeepsInv, ExternalKeepsInv DEF Next, FromOutside

\* Table and sessions agree after any sequence of packets.
LEMMA InvAlways == Spec => []Inv
BY InvInit, InvNext, PTL DEF Spec

\* Heap, map and pool of the translator agree after every packet, whatever
\* expired and was evicted before, and have their types.
THEOREM TranslatorTableInSync == Spec => []TableInSync
<1>1. Inv => TableInSync
  BY DEF Inv, TableInSync
<1> QED
  BY <1>1, InvAlways, PTL

-----------------------------------------------------------------------------
(* What hosts and servers see.                                             *)

\* A flow that was used within the expiration time still has its index.
LEMMA LiveIsKnown ==
  ASSUME Inv, NEW flow \in Keys, NEW time \in now .. TIME_MAX - 1, Live(flow, time)
  PROVE  flow \in Known(table)
<1>1. now \in Nat /\ time \in Nat /\ now <= time
  BY TimeIsClock DEF Inv, TypeOK
<1>2. session[flow].time \in Nat /\ ExpirationTime \in Nat
  BY ExpirationAssumption, TimeMaxAssumption DEF Inv, TypeOK, Clock, Time
<1> QED
  BY <1>1, <1>2 DEF Inv, Sessions, Live

\* The time of a step.
LEMMA StepTime ==
  ASSUME Next
  PROVE  now' \in now .. TIME_MAX - 1
BY DEF Next, Other, InternalPacket, FromOutside, ExternalPacket

\* A flow keeps its port for as long as it is used, by packets or answers,
\* whichever other flows are learnt and evicted meanwhile.
THEOREM TranslatorKeepsPorts == Spec => LiveFlowsKeepTheirPort
<1>1. ASSUME Inv, Next, NEW flow \in Keys, Live(flow, now')
      PROVE  session'[flow].port = session[flow].port
  <2>1. TypeOK /\ InSync(table) /\ Sessions
    BY <1>1 DEF Inv
  <2>2. flow \in Known(table)
    BY <1>1, StepTime, LiveIsKnown
  <2>3. session \in [Keys -> [port : Ports \cup {NoPort}, time : Clock]]
    BY <2>1 DEF TypeOK
  <2>4. ASSUME NEW time \in now .. TIME_MAX - 1, NEW f \in Keys, NEW checksum,
               InternalPacket(f, checksum, time)
        PROVE  session'[flow].port = session[flow].port
    <3>1. CASE f = flow
      <4>1. time \in Clock
        BY <2>1, TimeIsClock DEF TypeOK
      <4>2. IndexOf(GotInternal(flow, time), flow) = IndexOf(table, flow)
        BY <2>1, <2>2, <4>1, GotFacts
      <4>3. session' = [session EXCEPT ![flow] =
                          [port |-> ExternalPort(IndexOf(table, flow)), time |-> time]]
        BY <2>2, <2>4, <3>1, <4>2 DEF InternalPacket
      <4> QED
        BY <2>1, <2>2, <2>3, <4>3 DEF Sessions
    <3>2. CASE f # flow
      BY <2>3, <2>4, <3>2 DEF InternalPacket
    <3> QED
      BY <3>1, <3>2
  <2>5. ASSUME NEW time, NEW port, NEW server, FromOutside(port, server, time)
        PROVE  session'[flow].port = session[flow].port
    BY <2>3, <2>5 DEF FromOutside, ExternalPacket
  <2>6. ASSUME NEW time, Other(time)
        PROVE  session'[flow].port = session[flow].port
    BY <2>6 DEF Other
  <2> QED
    BY <1>1, <2>4, <2>5, <2>6 DEF Next
<1>2. Inv /\ [Next]_vars => [\A flow \in Keys : Live(flow, now')
                                => session'[flow].port = session[flow].port]_vars
  BY <1>1
<1> QED
  BY <1>2, InvAlways, PTL DEF Spec, LiveFlowsKeepTheirPort

\* Nothing gets in that is not an answer: a packet is passed to a host only on
\* a port that the host's flow to this server was given, for any number of
\* flows.
THEOREM TranslatorLetsOnlyAnswersIn == Spec => OnlyAnswersGetIn
<1>1. ASSUME Inv, Next, out'.to = "host", NEW port \in Ports, NEW server \in Servers,
             NEW checksum, ExternalPacket(port, server, checksum, now')
      PROVE  session[[src |-> out'.dst, dst |-> server]].port = port
  <2> DEFINE i == PortIndex(port)
             flow == table.flows[i]
             answer == Answer(flow, port, server, checksum)
  <2>1. TypeOK /\ InSync(table) /\ Sessions
    BY <1>1 DEF Inv
  <2>2. now' \in Clock
    BY <1>1, <2>1, StepTime, TimeIsClock DEF TypeOK
  <2>3. index_pool_used(table.port_allocator, now', i)
    BY <1>1 DEF ExternalPacket, Dropped
  <2>4. /\ flow \in Known(table) /\ flow \in Keys /\ IndexOf(table, flow) = i
        /\ \/ flow.dst = server /\ out' = answer
           \/ out' = Dropped
    BY <1>1, <2>1, <2>2, <2>3, AcceptedFacts
  <2>5. flow.dst = server /\ out'.dst = flow.src
    BY <1>1, <2>4 DEF Dropped, Answer, ToHost
  <2> HIDE DEF flow, i, answer
  <2>6. flow = [src |-> flow.src, dst |-> flow.dst]
    BY <2>4, FlowAssumption
  <2>7. session[flow].port = ExternalPort(i)
    BY <2>1, <2>4 DEF Sessions
  <2> QED
    BY <2>5, <2>6, <2>7, IndexOfPort DEF i
<1>2. Inv /\ [Next]_vars =>
        [out'.to = "host" =>
           \A port \in Ports, server \in Servers :
             FromOutside(port, server, now')
             => session[[src |-> out'.dst, dst |-> server]].port = port]_vars
  BY <1>1 DEF FromOutside
<1> QED
  BY <1>2, InvAlways, PTL DEF Spec, OnlyAnswersGetIn

\* An answer within the expiration time reaches the sender, if there are at
\* most as many flows as ports: nf_init does not check this, and with more
\* flows the uint16_t of flow_table_get_internal gives the same port to two of
\* them.
THEOREM TranslatorAnswersReachTheirSender ==
  ASSUME MaxFlows <= PortModulus
  PROVE  Spec => AnswersReachTheirSender
<1>1. ASSUME Inv, Next, NEW flow \in Keys, Live(flow, now'),
             NEW checksum, ExternalPacket(session[flow].port, flow.dst, checksum, now')
      PROVE  out'.to = "host" /\ out'.dst = flow.src
  <2> DEFINE i == IndexOf(table, flow)
             port == session[flow].port
  <2>1. TypeOK /\ InSync(table) /\ Sessions
    BY <1>1 DEF Inv
  <2>2. now' \in now .. TIME_MAX - 1
    BY <1>1, StepTime
  <2>3. now' \in Clock /\ now' \in Nat
    BY <2>1, <2>2, TimeIsClock DEF TypeOK
  <2>4. flow \in Known(table)
    BY <1>1, <2>2, LiveIsKnown
  <2>5. i \in 0 .. MaxFlows - 1 /\ table.flows[i] = flow /\ Stamp(table, flow) \in Nat
    BY <2>1, <2>4, TableFacts
  <2>6. i \in Ports /\ i \in Nat
    BY <2>5, MaxFlowsAssumption, PortAssumption DEF Ports
  <2>7. port = ExternalPort(i) /\ session[flow].time <= Stamp(table, flow)
    BY <2>1, <2>4 DEF Sessions
  <2>8. port \in Ports /\ PortIndex(port) = i
    BY <2>6, <2>7, PortOfIndex
  <2>9. index_pool_used(table.port_allocator, now', i)
    <3>1. session[flow].time \in Nat /\ ExpirationTime \in Nat
      BY <2>1, ExpirationAssumption, TimeMaxAssumption DEF TypeOK, Clock, Time
    <3>2. Stamp(table, flow) + ExpirationTime >= now'
      BY <1>1, <2>3, <2>5, <2>7, <3>1 DEF Live
    <3> QED
      BY <2>1, <2>3, <2>4, <2>6, <3>2, UsedIsKnown
  <2>10. flow.dst \in Servers
    BY WordsFacts
  <2>11. out' = Answer(flow, port, flow.dst, checksum)
    <3>1. ExternalPacket(port, flow.dst, checksum, now')
      BY <1>1
    <3>2. /\ index_pool_used(table.port_allocator, now', PortIndex(port))
          /\ table.flows[PortIndex(port)] = flow
      BY <2>5, <2>8, <2>9
    <3> HIDE DEF i, port
    <3> QED
      BY <2>1, <2>3, <2>8, <2>10, <3>1, <3>2, AcceptedFacts
  <2> QED
    BY <2>11 DEF Answer, ToHost
<1>2. Inv /\ [Next]_vars =>
        [\A flow \in Keys :
           /\ Live(flow, now')
           /\ FromOutside(session[flow].port, flow.dst, now')
           => out'.to = "host" /\ out'.dst = flow.src]_vars
  BY <1>1 DEF FromOutside
<1> QED
  BY <1>2, InvAlways, PTL DEF Spec, AnswersReachTheirSender

=============================================================================
