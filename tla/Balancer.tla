------------------------------ MODULE Balancer ------------------------------
(***************************************************************************)
(* The load balancer of nf/maglev: packets of the last device are flows to *)
(* spread over the backends, one per other device; whatever a backend      *)
(* sends is a heartbeat.  A step is a call to nf_handle.                   *)
(***************************************************************************)
EXTENDS FlowTable, Cht

CONSTANTS
  BackendCapacity,          \* devices_count - 1
  FlowCapacity, FlowExpirationTime, BackendExpirationTime,
  ChtHeight,                \* of the consistent hash table
  Hash,                     \* os_memory_hash, on flows
  Sizes                     \* other <<height, capacity>> its table is tried with

ASSUME BackendsAssumption ==
  BackendCapacity \in Nat \ {0} /\ FlowCapacity \in Nat
ASSUME ExpirationAssumption ==
  FlowExpirationTime \in Time /\ BackendExpirationTime \in Time

Backends == 0 .. BackendCapacity - 1

\* The checks of nf_init.
ASSUME HeightAssumption ==
  ChtHeight \in Nat /\ BackendCapacity < ChtHeight /\ Hash \in [Keys -> Nat]
ASSUME SizesAssumption ==
  \A s \in Sizes : s[1] \in Nat /\ s[2] \in Nat /\ 0 < s[2] /\ s[2] < s[1]

VARIABLES
  table,          \* flow_heap, flow_indices and flow_pool
  flow_backends,
  backend_pool,
  now,            \* time of the last packet: the driver reads an advancing clock
  out,            \* what happened to the last packet
  heard,          \* history: last heartbeat of each backend
  sent            \* history: the backend each flow was last sent to

vars == <<table, flow_backends, backend_pool, now, out, heard, sent>>

Nobody == -1      \* no backend
Never  == -1      \* no heartbeat yet

Init ==
  /\ table = TableAlloc(FlowExpirationTime, FlowCapacity)
  /\ flow_backends = [i \in 0 .. FlowCapacity - 1 |-> 0]
  /\ backend_pool = index_pool_alloc(BackendCapacity, BackendExpirationTime)
  /\ now = 0
  /\ out = "none"
  /\ heard = [b \in Backends |-> Never]
  /\ sent = [f \in Keys |-> Nobody]

\* Mutated form of Alive: a backend is alive once it was heard of.
Alive_Ever(backend, time) == ~ Free(backend_pool, backend)

Alive(backend, time) == index_pool_used(backend_pool, time, backend)

\* nf_handle on a packet without the headers it asks for.
Other(time) ==
  /\ now' = time
  /\ out' = "drop"
  /\ UNCHANGED <<table, flow_backends, backend_pool, heard, sent>>

\* balancer_process_heartbeat
Heartbeat(backend, time) ==
  /\ backend_pool' = index_pool_refresh(backend_pool, time, backend)
  /\ now' = time
  /\ out' = "heartbeat"
  /\ heard' = [heard EXCEPT ![backend] = time]
  /\ UNCHANGED <<table, flow_backends, sent>>

\* balancer->cht->data, which is not written after balancer_alloc
ChtData == cht_alloc(ChtHeight, BackendCapacity).data

RowOf(flow) == Row(ChtData, ChtHeight, BackendCapacity, Hash[flow])

\* cht_find_preferred_available_backend: the candidates of the flow that are
\* in use, by their places, and the first of them.
AlivePlaces(flow, time) ==
  {p \in 1 .. BackendCapacity : Alive(RowOf(flow)[p], time)}

\* Mutated form of Chosen: the search goes on after a match.
Chosen_Last(flow, time) ==
  RowOf(flow)[CHOOSE p \in AlivePlaces(flow, time) :
                   \A q \in AlivePlaces(flow, time) : p >= q]

Chosen(flow, time) ==
  RowOf(flow)[CHOOSE p \in AlivePlaces(flow, time) :
                   \A q \in AlivePlaces(flow, time) : p <= q]

\* The backend a known flow is said to have.
Backend(flow) == flow_backends[IndexOf(table, flow)]

\* A known flow whose backend is alive.
KnownFlow(flow, time) ==
  /\ flow \in Known(table)
  /\ Alive(Backend(flow), time)
  /\ table' = Refreshed(table, time, IndexOf(table, flow))
  /\ out' = "forward"
  /\ sent' = [sent EXCEPT ![flow] = Backend(flow)]
  /\ now' = time
  /\ UNCHANGED <<flow_backends, backend_pool, heard>>

\* Mutated form of Remaining: the pool keeps the index of the flow.
Remaining_IndexKept(flow) ==
  IF flow \in Known(table)
  THEN [table EXCEPT !.flow_indexes = MapRemove(@, flow)]
  ELSE table

\* The table once a stale mapping of the flow is removed from the map, and
\* its index returned to the pool.
Remaining(flow) ==
  IF flow \in Known(table)
  THEN [table EXCEPT
          !.flow_indexes = MapRemove(@, table.flows[IndexOf(table, flow)]),
          !.port_allocator = index_pool_return(@, IndexOf(table, flow))]
  ELSE table

\* Any other flow: the table loses a stale mapping, then gets a new one if a
\* backend is found and there is room.
NewFlow(flow, time) ==
  LET t == Remaining(flow)
  IN  /\ flow \in Known(table) => ~ Alive(Backend(flow), time)
      /\ now' = time
      /\ UNCHANGED <<flow_backends, backend_pool, heard>>
      /\ \/ /\ AlivePlaces(flow, time) # {}
            /\ table' = IF HasSpace(t, time) THEN Inserted(t, time, flow) ELSE t
            /\ out' = "forward"
            /\ sent' = [sent EXCEPT ![flow] = Chosen(flow, time)]
         \/ /\ AlivePlaces(flow, time) = {}
            /\ table' = t
            /\ out' = "drop"
            /\ UNCHANGED sent

Next ==
  \E time \in now .. TIME_MAX - 1 :
    \/ Other(time)
    \/ \E backend \in Backends : Heartbeat(backend, time)
    \/ \E flow \in Keys : KnownFlow(flow, time) \/ NewFlow(flow, time)

Spec == Init /\ [][Next]_vars

-----------------------------------------------------------------------------

\* nf_handle keeps the types of the table and of both pools: all indices it
\* borrows, refreshes and returns are theirs, all backends are devices.
TypeOK ==
  /\ table \in TableType(FlowCapacity, FlowExpirationTime)
  /\ flow_backends \in [0 .. FlowCapacity - 1 -> Backends]
  /\ backend_pool \in PoolType(BackendCapacity, BackendExpirationTime)
  /\ now \in Clock
  /\ out \in {"none", "drop", "heartbeat", "forward"}
  /\ heard \in [Backends -> Clock \cup {Never}]
  /\ sent \in [Keys -> Backends \cup {Nobody}]

\* Whatever packet comes next, remembering its flow keeps to the contracts of
\* map.h, also right after its stale mapping was removed.
CallsAreLegal ==
  \A flow \in Keys, time \in now .. TIME_MAX - 1 :
    LET t == Remaining(flow)
    IN  HasSpace(t, time)
        /\ (flow \in Known(table) => ~ Alive(Backend(flow), time))
        => InsertIsLegal(t, time, flow)

\* Heap, map and pool agree after every packet, stale mappings removed and
\* indices returned in between included, all of them have their types, and the
\* next packet finds them fit for the calls it makes.
TableInSync == TypeOK /\ InSync(table) /\ CallsAreLegal

\* A backend that was heard of within its expiration time.
Responsive(backend, time) ==
  heard[backend] # Never /\ heard[backend] + BackendExpirationTime >= time

FlowPacket(flow, time) == KnownFlow(flow, time) \/ NewFlow(flow, time)

\* Packets only go to backends that were heard of recently, and as long as there
\* is such a backend, every packet goes to one: no flow, bucket or state of the
\* table keeps cht_find_preferred_available_backend from finding it.  Line 44 of
\* cht.h promises a backend also when all of those in the pool have expired; of
\* that nothing is said.
OnlyResponsiveBackends ==
  [][\A flow \in Keys, time \in Clock :
       FlowPacket(flow, time) =>
         /\ out' = "forward" => Responsive(sent'[flow], time)
         /\ (\E b \in Backends : Responsive(b, time)) => out' = "forward"]_vars

\* Before the first packet, cht_alloc has given every bucket every backend
\* once, in the order of their turns: its filling loop writes neither in the
\* next bucket nor beyond the end of the table.  "How to check that cht_height
\* is prime?", asks line 18 of cht.h, and nothing does: the loop writes too much
\* in some bucket exactly for the heights, allowed by the contract, for which
\* the permutation of some backend is none.
BucketsRankAllBackends ==
  out = "none" =>
    \A s \in Sizes \cup {<<ChtHeight, BackendCapacity>>} :
      LET cht == cht_alloc(s[1], s[2])
      IN  IF \A b \in 0 .. s[2] - 1 : IsPermutation(s[1], b)
          THEN \A bucket \in Buckets(s[1]) :
                 Row(cht.data, s[1], s[2], bucket) = Ranking(s[1], s[2], bucket)
          ELSE \E bucket \in Buckets(s[1]) : cht.next[bucket] > s[2]

\* A flow that is not known goes to the first responsive backend of its
\* ranking: a backend that goes away moves no other backend's flows, and one
\* that comes back gets its own again.
NewFlowsFollowTheRanking ==
  [][\A flow \in Keys, time \in Clock :
       NewFlow(flow, time) /\ out' = "forward" =>
         LET ranking == Ranking(ChtHeight, BackendCapacity, Hash[flow] % ChtHeight)
         IN  \E p \in DOMAIN ranking :
               /\ sent'[flow] = ranking[p]
               /\ \A q \in 1 .. p - 1 : ~ Responsive(ranking[q], time)]_vars

\* balancer_get_backend: "We know the backend; is it alive?  Yes -> use it".
\* A flow that is in the table stays with its backend while that one lives.
KnownFlowsKeepTheirBackend ==
  [][\A flow \in Keys, time \in Clock :
       /\ flow \in Known(table)
       /\ Alive(sent[flow], time)
       /\ FlowPacket(flow, time)
       => sent'[flow] = sent[flow]]_vars

=============================================================================
