------------------------------- MODULE Policer -------------------------------
(***************************************************************************)
(* The policer of nf/policer/policer.c: a token bucket for each address    *)
(* that packets of the WAN device go to.  Buckets are created full when an *)
(* address is first seen, and the index of an address that has been idle   *)
(* for long enough may be given to another one.  A step is a call to       *)
(* nf_handle.                                                              *)
(***************************************************************************)
EXTENDS FlowTable

CONSTANTS
  MaxFlows,               \* of the configuration
  Configs,                \* pairs of a rate and a burst
  Second,                 \* the factor between rate and expiration time
  WordModulus,            \* 2^64, the modulus of uint64_t
  Lengths                 \* lengths of packets

ASSUME MaxFlowsAssumption == MaxFlows \in Nat
ASSUME ConfigAssumption   == Configs \subseteq Nat \X Nat
ASSUME SecondAssumption   == Second \in Nat \ {0}
ASSUME WordAssumption     == /\ WordModulus \in Nat
                             /\ \A c \in Configs : c[1] < WordModulus /\ c[2] < WordModulus
ASSUME LengthAssumption   == Lengths \subseteq Nat

VARIABLES
  rate, burst,
  table,      \* addresses, map and pool
  buckets,
  now,        \* time of the last packet: the driver reads an advancing clock
  verdict,
  ideal       \* history: two buckets per address that are never given away

vars == <<rate, burst, table, buckets, now, verdict, ideal>>

\* Mutated form of ExpirationTime: burst and rate are mixed up.
ExpirationTime_Swapped == ((Second * rate) % WordModulus) \div burst

\* 1000000000ull * burst / rate
ExpirationTime == ((Second * burst) % WordModulus) \div rate

EmptyBucket == [size |-> 0, time |-> 0]

AtMost(x, bound) == IF x > bound THEN bound ELSE x

\* What integer division makes of burst / rate.
Steps == burst \div rate

\* What nf_init returns true for.
Init ==
  /\ \E c \in Configs : rate = c[1] /\ burst = c[2]
  /\ rate # 0 /\ burst # 0
  /\ table = TableAlloc(ExpirationTime, MaxFlows)
  /\ buckets = [i \in 0 .. MaxFlows - 1 |-> EmptyBucket]
  /\ now = 0
  /\ verdict = "none"
  /\ ideal = [a \in Keys |-> [strict |-> burst, generous |-> burst * Steps, time |-> 0]]

-----------------------------------------------------------------------------

\* What an ideal bucket holds at a given time: a strict one is filled at the
\* rate; a generous one is full after Steps, and holds Steps times its tokens.
Tokens(bucket, time) ==
  [strict   |-> AtMost(bucket.strict + (time - bucket.time) * rate, burst),
   generous |-> AtMost(bucket.generous + (time - bucket.time) * burst, burst * Steps)]

Charged(bucket, time, length) ==
  LET tokens == Tokens(bucket, time)
  IN  [strict   |-> IF tokens.strict < length THEN 0 ELSE tokens.strict - length,
       generous |-> tokens.generous - length * Steps,
       time     |-> time]

\* The size of a bucket before the packet is counted.  Beyond burst / rate
\* the product is not computed; up to there the sum may wrap around.
Refilled(bucket, time) ==
  LET time_diff == (time - bucket.time) % (TIME_MAX + 1)
  IN  IF time_diff < Steps
      THEN AtMost((bucket.size + time_diff * rate) % WordModulus, burst)
      ELSE burst

\* nf_handle on a packet without the headers it asks for.
Other(time) ==
  /\ verdict' = "drop"
  /\ now' = time
  /\ UNCHANGED <<rate, burst, table, buckets, ideal>>

\* Packets of the other device are not policed.
OutgoingPacket(time) ==
  /\ verdict' = "forward"
  /\ now' = time
  /\ UNCHANGED <<rate, burst, table, buckets, ideal>>

\* An address with a bucket: the bucket is brought up to date, and the index
\* refreshed, whether there is enough in it or not.
KnownAddress(address, length, time) ==
  LET index == IndexOf(table, address)
      size  == Refilled(buckets[index], time)
      pass  == size > length
      left  == IF pass THEN size - length ELSE size
  IN  /\ address \in Known(table)
      /\ table' = Refreshed(table, time, index)
      /\ buckets' = [buckets EXCEPT ![index] = [size |-> left, time |-> time]]
      /\ verdict' = IF pass THEN "forward" ELSE "drop"
      /\ ideal' = IF pass
                  THEN [ideal EXCEPT ![address] = Charged(@, time, length)]
                  ELSE ideal
      /\ now' = time
      /\ UNCHANGED <<rate, burst>>

\* Mutated form of NewBucket: the first packet is free.
NewBucket_Uncharged(length, time) == [size |-> burst, time |-> time]

NewBucket(length, time) == [size |-> burst - length, time |-> time]

NewAddress(address, length, time) ==
  /\ address \notin Known(table)
  /\ length <= burst
  /\ HasSpace(table, time)
  /\ table' = Inserted(table, time, address)
  /\ buckets' = [buckets EXCEPT
                   ![InsertIndex(table, time)] = NewBucket(length, time)]
  /\ verdict' = "forward"
  /\ ideal' = [ideal EXCEPT ![address] = Charged(@, time, length)]
  /\ now' = time
  /\ UNCHANGED <<rate, burst>>

\* Too long for any bucket, or no index to be had.
RefusedAddress(address, length, time) ==
  /\ address \notin Known(table)
  /\ length > burst \/ ~ HasSpace(table, time)
  /\ verdict' = "drop"
  /\ now' = time
  /\ UNCHANGED <<rate, burst, table, buckets, ideal>>

Next ==
  \E time \in now .. TIME_MAX - 1 :
    \/ Other(time)
    \/ OutgoingPacket(time)
    \/ \E address \in Keys, length \in Lengths :
         \/ KnownAddress(address, length, time)
         \/ NewAddress(address, length, time)
         \/ RefusedAddress(address, length, time)

Spec == Init /\ [][Next]_vars

-----------------------------------------------------------------------------

\* nf_handle keeps the types of its table and never leaves more than burst,
\* or less than nothing, in a bucket.
TypeOK ==
  /\ table \in TableType(MaxFlows, ExpirationTime)
  /\ buckets \in [0 .. MaxFlows - 1 -> [size : 0 .. burst, time : Clock]]
  /\ now \in Clock
  /\ verdict \in {"none", "forward", "drop"}

\* Addresses, map and pool agree after every packet, and buckets stay within
\* their bounds.
TableInSync == TypeOK /\ InSync(table)

\* The product of line 40 leaves an index for as long as its bucket takes to
\* fill, which it does not have to once it wraps around.  An index can be given
\* away one tick after its expiration time.
ExpiresNoSoonerThanFull == ((Second * burst) % WordModulus) + rate >= Steps * rate

\* The sum of line 59 cannot wrap around.
RefillsFit == 2 * burst <= WordModulus

\* No address is ever sent more than its bucket allows, even across
\* evictions, unless line 40 makes its index expire before its bucket is full.
\* In any period this is at most burst plus rate times its duration
\* for a rate that divides the burst.  For others the rate is burst divided by
\* the truncated burst / rate of line 58, and there is no limit at all for a
\* burst below the rate.
NeverOverRate == ExpiresNoSoonerThanFull => \A a \in Keys : ideal[a].generous >= 0

\* Sharing MaxFlows buckets between all addresses neither gives nor takes
\* tokens: what a known address has left is what it would have in a bucket of
\* its own, and an address that lost its bucket would have a full one.  Tokens
\* are only lost where line 59 wraps around, and only given away where line 40
\* does.  This too is exact for a rate that divides the burst, as both buckets
\* are then the same; what integer division gives is at most their difference.
TokensAreExact ==
  \A a \in Keys :
    LET tokens == Tokens(ideal[a], now)
        left   == IF a \in Known(table) THEN Refilled(buckets[IndexOf(table, a)], now)
                                        ELSE burst
    IN  /\ RefillsFit => tokens.strict <= left
        /\ ExpiresNoSoonerThanFull => left * Steps <= tokens.generous

=============================================================================
