---------------------------- MODULE BalancerProofs ----------------------------
(***************************************************************************)
(* The load balancer keeps its table in sync and only uses backends that   *)
(* were heard of, for any number of flows and backends; and it finds one   *)
(* of these whenever there is one, for every height of the consistent hash *)
(* table that has no divisor in common with a shift.                       *)
(***************************************************************************)
EXTENDS Balancer, FlowTableProofs

-----------------------------------------------------------------------------
(* The iterations of cht_alloc.                                            *)

\* What the filling loops start with.
NewCht(height, capacity) ==
  [next |-> [b \in Buckets(height) |-> 0],
   data |-> [k \in 0 .. height * capacity - 1 |-> 0]]

\* A function F has the table after each of the first m iterations.
Iterated(F, height, capacity, m) ==
  /\ F[0] = NewCht(height, capacity)
  /\ \A n \in 1 .. m :
       F[n] = Fill(height, capacity, F[n - 1], Turns(height, capacity)[n])

\* The loops run to their end.
LEMMA IteratedExists ==
  ASSUME NEW height, NEW capacity, NEW m \in Nat
  PROVE  \E F : Iterated(F, height, capacity, m)
<1> DEFINE Stuck == {n \in Nat : ~ \E F : Iterated(F, height, capacity, n)}
<1>1. SUFFICES ASSUME m \in Stuck PROVE FALSE
  OBVIOUS
<1>2. PICK n \in Stuck : \A k \in Stuck : n <= k
  <2>1. Stuck \subseteq Nat
    OBVIOUS
  <2> HIDE DEF Stuck
  <2> QED
    BY <1>1, <2>1, LeastNatural
<1>3. n # 0
  <2> DEFINE F == [k \in {0} |-> NewCht(height, capacity)]
  <2>1. F[0] = NewCht(height, capacity) /\ 1 .. 0 = {}
    OBVIOUS
  <2> HIDE DEF F
  <2>2. Iterated(F, height, capacity, 0)
    BY <2>1 DEF Iterated
  <2> QED
    BY <2>2
<1>4. n \in Nat /\ n - 1 \in Nat /\ n - 1 \notin Stuck
  BY <1>2, <1>3
<1>5. PICK F : Iterated(F, height, capacity, n - 1)
  BY <1>4
<1> DEFINE G == [k \in 0 .. n |-> IF k = n THEN Fill(height, capacity, F[n - 1], Turns(height, capacity)[n])
                                          ELSE F[k]]
<1>6. \A k \in 0 .. n - 1 : G[k] = F[k]
  BY <1>4
<1>7. G[n] = Fill(height, capacity, F[n - 1], Turns(height, capacity)[n])
  BY <1>4
<1> HIDE DEF G
<1>8. G[0] = NewCht(height, capacity)
  BY <1>4, <1>5, <1>6 DEF Iterated
<1>9. ASSUME NEW k \in 1 .. n
      PROVE  G[k] = Fill(height, capacity, G[k - 1], Turns(height, capacity)[k])
  <2>1. CASE k = n
    BY <1>4, <1>6, <1>7, <2>1
  <2>2. CASE k # n
    <3>1. k \in 1 .. n - 1 /\ k \in 0 .. n - 1 /\ k - 1 \in 0 .. n - 1
      BY <1>4, <2>2
    <3>2. F[k] = Fill(height, capacity, F[k - 1], Turns(height, capacity)[k])
      BY <1>5, <3>1 DEF Iterated
    <3>3. G[k] = F[k] /\ G[k - 1] = F[k - 1]
      BY <1>6, <3>1
    <3> QED
      BY <3>2, <3>3
  <2> QED
    BY <2>1, <2>2
<1>10. Iterated(G, height, capacity, n)
  BY <1>8, <1>9 DEF Iterated
<1> QED
  BY <1>2, <1>10

\* cht_alloc returns what there is after the last iteration.
LEMMA AllocIterates ==
  ASSUME NEW height \in Nat, NEW capacity \in Nat
  PROVE  \E F : /\ Iterated(F, height, capacity, height * capacity)
                /\ cht_alloc(height, capacity) = F[height * capacity]
<1> DEFINE N == height * capacity
           Step(F, n) == IF n = 0 THEN NewCht(height, capacity)
                         ELSE Fill(height, capacity, F[n - 1], Turns(height, capacity)[n])
           after == CHOOSE F : F = [n \in 0 .. N |-> Step(F, n)]
<1>1. N \in Nat
  OBVIOUS
<1>2. cht_alloc(height, capacity) = after[N]
  BY DEF cht_alloc, NewCht
<1> HIDE DEF N
<1>3. PICK G : Iterated(G, height, capacity, N)
  BY <1>1, IteratedExists
<1> DEFINE H == [n \in 0 .. N |-> G[n]]
<1>4. \A n \in 0 .. N : H[n] = Step(H, n)
  <2>1. ASSUME NEW n \in 0 .. N
        PROVE  H[n] = Step(H, n)
    <3>1. CASE n = 0
      BY <1>1, <1>3, <3>1 DEF Iterated
    <3>2. CASE n # 0
      <4>1. n \in 1 .. N /\ n - 1 \in 0 .. N
        BY <1>1, <3>2
      <4>2. H[n] = G[n] /\ H[n - 1] = G[n - 1]
        BY <4>1
      <4> QED
        BY <1>3, <3>2, <4>1, <4>2 DEF Iterated
    <3> QED
      BY <3>1, <3>2
  <2> QED
    BY <2>1
<1>5. H = [n \in 0 .. N |-> Step(H, n)]
  BY <1>4
<1>6. after = [n \in 0 .. N |-> Step(after, n)]
  <2> HIDE DEF H, Step
  <2> QED
    BY <1>5
<1>7. \A n \in 0 .. N : after[n] = Step(after, n)
  BY <1>6
<1> HIDE DEF after
<1>8. Iterated(after, height, capacity, N)
  <2>1. after[0] = NewCht(height, capacity)
    BY <1>1, <1>7
  <2>2. ASSUME NEW n \in 1 .. N
        PROVE  after[n] = Fill(height, capacity, after[n - 1], Turns(height, capacity)[n])
    <3>1. n \in 0 .. N /\ n # 0
      BY <1>1
    <3> QED
      BY <1>7, <3>1
  <2> QED
    BY <2>1, <2>2 DEF Iterated
<1> QED
  BY <1>2, <1>8 DEF N

\* Division by a positive number.
LEMMA Division ==
  ASSUME NEW x \in Nat, NEW y \in Nat \ {0}
  PROVE  x \div y \in Nat /\ x % y \in 0 .. y - 1 /\ x = (x \div y) * y + (x % y)
OBVIOUS

\* A quotient is below the factor that bounds the dividend.
LEMMA QuotientBound ==
  ASSUME NEW q \in Nat, NEW r \in Nat, NEW h \in Nat, NEW c \in Nat \ {0}, q * c + r < h * c
  PROVE  q < h
<1> SUFFICES ASSUME q >= h PROVE FALSE
  OBVIOUS
<1>1. PICK k \in Nat : q = h + k
  <2>1. q - h \in Nat /\ q = h + (q - h)
    OBVIOUS
  <2> QED
    BY <2>1
<1>2. q * c = h * c + k * c
  BY <1>1
<1>3. k * c \in Nat /\ h * c \in Nat
  OBVIOUS
<1> QED
  BY <1>2, <1>3

\* The k-th iteration: k - 1 in the number system of capacity.
LEMMA TurnFacts ==
  ASSUME NEW height \in Nat, NEW capacity \in Nat \ {0}, NEW k \in 1 .. height * capacity
  PROVE  LET turn == Turns(height, capacity)[k]
         IN  /\ turn.i \in 0 .. height - 1 /\ turn.j \in 0 .. capacity - 1
             /\ k - 1 = turn.i * capacity + turn.j
<1> DEFINE i == (k - 1) \div capacity
           j == (k - 1) % capacity
<1>1. Turns(height, capacity)[k] = [i |-> i, j |-> j]
  BY DEF Turns
<1>2. k - 1 \in Nat /\ height * capacity \in Nat
  OBVIOUS
<1>3. i \in Nat /\ j \in 0 .. capacity - 1 /\ k - 1 = i * capacity + j
  BY <1>2, Division
<1> HIDE DEF i, j
<1>4. i * capacity + j < height * capacity
  BY <1>2, <1>3
<1>5. i < height
  BY <1>3, <1>4, QuotientBound
<1> QED
  BY <1>1, <1>3, <1>5

\* Iteration k is the turn t of backend b.
IsTurn(height, capacity, k, t, b) ==
  Turns(height, capacity)[k].i = t /\ Turns(height, capacity)[k].j = b

\* Every pair of a turn and a backend has its iteration.
LEMMA TurnExists ==
  ASSUME NEW height \in Nat, NEW capacity \in Nat \ {0},
         NEW t \in 0 .. height - 1, NEW b \in 0 .. capacity - 1
  PROVE  \E k \in 1 .. height * capacity : IsTurn(height, capacity, k, t, b)
<1> DEFINE k == t * capacity + b + 1
<1>1. t * capacity \in Nat /\ height * capacity \in Nat
  OBVIOUS
<1>2. (t + 1) * capacity <= height * capacity
  <2>1. PICK d \in Nat : height = t + 1 + d
    <3>1. height - (t + 1) \in Nat /\ height = t + 1 + (height - (t + 1))
      OBVIOUS
    <3> QED
      BY <3>1
  <2>2. height * capacity = (t + 1) * capacity + d * capacity /\ d * capacity \in Nat
    BY <2>1
  <2> QED
    BY <2>2
<1>3. (t + 1) * capacity = t * capacity + capacity
  OBVIOUS
<1>4. k \in 1 .. height * capacity
  BY <1>1, <1>2, <1>3
<1>5. k - 1 = t * capacity + b
  BY <1>1
<1>6. (t * capacity + b) \div capacity = t /\ (t * capacity + b) % capacity = b
  OBVIOUS
<1>7. Turns(height, capacity)[k] = [i |-> t, j |-> b]
  BY <1>4, <1>5, <1>6 DEF Turns
<1> QED
  BY <1>4, <1>7 DEF IsTurn

\* The buckets of permutations are buckets.
LEMMA PermutationType ==
  ASSUME NEW height \in Nat, height >= 2, NEW b \in Nat, NEW t \in Nat
  PROVE  Permutation(height, b, t) \in Buckets(height)
<1> DEFINE offset == (b * 31) % height
           shift == (b % (height - 1)) + 1
           sum == offset + shift * t
<1>1. offset \in Nat /\ shift \in Nat
  BY Division
<1>2. Permutation(height, b, t) = sum % height
  BY DEF Permutation
<1> HIDE DEF offset, shift
<1>3. sum \in Nat
  BY <1>1
<1> HIDE DEF sum
<1>4. sum % height \in 0 .. height - 1
  BY <1>3, Division
<1> QED
  BY <1>2, <1>4 DEF Buckets

\* The bucket of an iteration.
BucketOf(height, capacity, k) ==
  Permutation(height, Turns(height, capacity)[k].j, Turns(height, capacity)[k].i)

LEMMA BucketOfType ==
  ASSUME NEW height \in Nat, NEW capacity \in Nat \ {0}, capacity < height,
         NEW k \in 1 .. height * capacity
  PROVE  BucketOf(height, capacity, k) \in Buckets(height)
<1>1. height >= 2
  OBVIOUS
<1>2. Turns(height, capacity)[k].i \in Nat /\ Turns(height, capacity)[k].j \in Nat
  BY TurnFacts
<1> QED
  BY <1>1, <1>2, PermutationType DEF BucketOf

ChtType(height, capacity) ==
  [next : [Buckets(height) -> Nat],
   data : [0 .. height * capacity - 1 -> 0 .. capacity - 1]]

\* The table gets backend j in the next place of a bucket.
Wrote(new, cht, height, capacity, bucket, j) ==
  /\ \A b \in Buckets(height) :
       new.next[b] = IF b = bucket THEN cht.next[b] + 1 ELSE cht.next[b]
  /\ \A n \in 0 .. height * capacity - 1 :
       new.data[n] = IF n = capacity * bucket + cht.next[bucket] THEN j ELSE cht.data[n]

\* What an iteration writes.
LEMMA FillFacts ==
  ASSUME NEW height \in Nat, NEW capacity \in Nat \ {0}, capacity < height,
         NEW k \in 1 .. height * capacity, NEW cht \in ChtType(height, capacity)
  PROVE  LET new    == Fill(height, capacity, cht, Turns(height, capacity)[k])
             bucket == BucketOf(height, capacity, k)
         IN  /\ new \in ChtType(height, capacity)
             /\ Wrote(new, cht, height, capacity, bucket, Turns(height, capacity)[k].j)
<1> DEFINE j == Turns(height, capacity)[k].j
           bucket == BucketOf(height, capacity, k)
           next == [cht.next EXCEPT ![bucket] = @ + 1]
           place == capacity * bucket + cht.next[bucket]
           data == [cht.data EXCEPT ![place] = j]
           new == Fill(height, capacity, cht, Turns(height, capacity)[k])
<1>1. new = [next |-> next, data |-> data]
  BY DEF Fill, BucketOf
<1>2. bucket \in Buckets(height) /\ j \in 0 .. capacity - 1
  BY BucketOfType, TurnFacts
<1>3. /\ cht.next \in [Buckets(height) -> Nat]
      /\ cht.data \in [0 .. height * capacity - 1 -> 0 .. capacity - 1]
  BY DEF ChtType
<1> HIDE DEF j, bucket, new
<1>4. /\ next \in [Buckets(height) -> Nat]
      /\ \A b \in Buckets(height) :
           next[b] = IF b = bucket THEN cht.next[b] + 1 ELSE cht.next[b]
  BY <1>2, <1>3
<1> HIDE DEF place
<1>5. /\ data \in [0 .. height * capacity - 1 -> 0 .. capacity - 1]
      /\ \A n \in 0 .. height * capacity - 1 :
           data[n] = IF n = place THEN j ELSE cht.data[n]
  BY <1>2, <1>3
<1> HIDE DEF next, data
<1>6. new \in ChtType(height, capacity)
  BY <1>1, <1>4, <1>5 DEF ChtType
<1>7. new.next = next /\ new.data = data
  BY <1>1
<1> QED
  BY <1>4, <1>5, <1>6, <1>7 DEF new, bucket, j, place, Wrote

\* Whatever the height, the table holds backends only.
LEMMA IteratedType ==
  ASSUME NEW height \in Nat, NEW capacity \in Nat \ {0}, capacity < height,
         NEW F, Iterated(F, height, capacity, height * capacity)
  PROVE  \A n \in 0 .. height * capacity : F[n] \in ChtType(height, capacity)
<1> DEFINE N == height * capacity
           Wrong == {n \in 0 .. N : F[n] \notin ChtType(height, capacity)}
<1>1. SUFFICES ASSUME Wrong # {} PROVE FALSE
  OBVIOUS
<1>2. N \in Nat
  OBVIOUS
<1>3. PICK n \in Wrong : \A k \in Wrong : n <= k
  <2>1. Wrong \subseteq Nat
    OBVIOUS
  <2> HIDE DEF Wrong
  <2> QED
    BY <1>1, <2>1, LeastNatural
<1>4. CASE n = 0
  <2>1. [b \in Buckets(height) |-> 0] \in [Buckets(height) -> Nat]
    OBVIOUS
  <2>2. [k \in 0 .. N - 1 |-> 0] \in [0 .. N - 1 -> 0 .. capacity - 1]
    OBVIOUS
  <2>3. NewCht(height, capacity) \in ChtType(height, capacity)
    BY <2>1, <2>2 DEF NewCht, ChtType
  <2> QED
    BY <1>3, <1>4, <2>3 DEF Iterated
<1>5. CASE n # 0
  <2>1. n \in 1 .. N /\ n - 1 \in 0 .. N /\ n - 1 < n
    BY <1>2, <1>5
  <2>2. F[n - 1] \in ChtType(height, capacity)
    <3>1. n - 1 \notin Wrong
      BY <1>3, <2>1
    <3> QED
      BY <2>1, <3>1
  <2>3. F[n] = Fill(height, capacity, F[n - 1], Turns(height, capacity)[n])
    BY <2>1 DEF Iterated
  <2>4. F[n] \in ChtType(height, capacity)
    BY <2>1, <2>2, <2>3, FillFacts
  <2> QED
    BY <1>3, <2>4
<1> QED
  BY <1>4, <1>5

-----------------------------------------------------------------------------
(* The permutations of backends.                                           *)

\* Remainder zero, with the quotient.
LEMMA Multiple ==
  ASSUME NEW x \in Int, NEW m \in Nat \ {0}
  PROVE  x % m = 0 <=> \E q \in Int : x = m * q
<1>1. ASSUME x % m = 0 PROVE \E q \in Int : x = m * q
  <2>1. x = m * (x \div m) /\ x \div m \in Int
    BY <1>1
  <2> QED
    BY <2>1
<1>2. ASSUME NEW q \in Int, x = m * q PROVE x % m = 0
  <2>1. (m * q) % m = 0
    OBVIOUS
  <2> QED
    BY <1>2, <2>1
<1> QED
  BY <1>1, <1>2

\* Numbers with the same remainder differ by a multiple.
LEMMA SameRemainder ==
  ASSUME NEW x \in Nat, NEW y \in Nat, NEW m \in Nat \ {0}, x % m = y % m
  PROVE  \E q \in Int : x - y = m * q
<1> DEFINE p == x \div m
           q == y \div m
           r == x % m
<1>1. p \in Nat /\ r \in 0 .. m - 1 /\ x = p * m + r
  BY Division
<1>2. q \in Nat /\ y = q * m + r
  BY Division
<1> HIDE DEF p, q, r
<1>3. x - y = m * (p - q) /\ p - q \in Int
  BY <1>1, <1>2
<1> QED
  BY <1>3

\* A factor that has no divisor in common with h takes no part in multiples of h.
LEMMA NoCommonDivisor ==
  ASSUME NEW h \in Nat, h >= 2, NEW s \in Nat \ {0}, NEW k \in Nat,
         \A d \in 2 .. h : ~ (h % d = 0 /\ s % d = 0),
         (s * k) % h = 0
  PROVE  k % h = 0
<1> DEFINE D == {m \in Nat \ {0} : (m * k) % h = 0}
<1>1. h \in D
  <2>1. h * k \in Int /\ (h * k) % h = 0
    BY Multiple
  <2> QED
    BY <2>1
<1>2. s \in D
  OBVIOUS
<1>3. PICK m \in D : \A n \in D : m <= n
  <2>1. D \subseteq Nat
    OBVIOUS
  <2> HIDE DEF D
  <2> QED
    BY <1>1, <2>1, LeastNatural
<1>4. ASSUME NEW x \in D
      PROVE  x % m = 0
  <2> DEFINE q == x \div m
             r == x % m
  <2>1. q \in Nat /\ r \in 0 .. m - 1 /\ x = q * m + r
    BY Division
  <2>2. x * k \in Int /\ m * k \in Int
    OBVIOUS
  <2>3. PICK a \in Int : x * k = h * a
    BY <2>2, Multiple
  <2>4. PICK e \in Int : m * k = h * e
    <3>1. (m * k) % h = 0
      BY <1>3
    <3> DEFINE product == m * k
    <3> HIDE DEF product, D
    <3>2. product \in Int /\ product % h = 0
      BY <2>2, <3>1 DEF product
    <3>3. \E e \in Int : product = h * e
      BY <3>2, Multiple
    <3> QED
      BY <3>3 DEF product
  <2> HIDE DEF q, r
  <2>5. r * k = x * k - q * (m * k)
    BY <2>1
  <2>6. q * (h * e) = h * (q * e) /\ q * e \in Int
    BY <2>1
  <2>7. h * a - h * (q * e) = h * (a - q * e)
    BY <2>6
  <2>8. r * k = h * (a - q * e)
    <3> DEFINE A == h * a
               E == q * (h * e)
    <3>1. r * k = A - E
      BY <2>3, <2>4, <2>5
    <3>2. E = h * (q * e)
      BY <2>6
    <3> QED
      BY <2>7, <3>1, <3>2
  <2>9. (r * k) % h = 0
    <3>1. r * k \in Int /\ a - q * e \in Int
      BY <2>1
    <3> DEFINE product == r * k
               factor == a - q * e
    <3>2. product \in Int /\ factor \in Int /\ product = h * factor
      BY <2>8, <3>1
    <3> HIDE DEF product, factor
    <3>3. product % h = 0
      BY <3>2, Multiple
    <3> QED
      BY <3>3 DEF product
  <2>10. r \notin D
    <3> HIDE DEF D
    <3> QED
      BY <1>3, <2>1
  <2>11. r = 0
    BY <2>1, <2>9, <2>10
  <2> QED
    BY <2>11 DEF r
<1>5. m \in Nat \ {0} /\ m <= h /\ h % m = 0 /\ s % m = 0
  BY <1>1, <1>2, <1>3, <1>4
<1>6. m = 1
  <2>1. SUFFICES ASSUME m # 1 PROVE FALSE
    OBVIOUS
  <2>2. m \in 2 .. h
    BY <1>5, <2>1
  <2> QED
    BY <1>5, <2>2
<1>7. 1 * k = k
  OBVIOUS
<1> QED
  BY <1>6, <1>7

\* A backend whose shift has no divisor in common with the height never takes
\* two places in a bucket.
LEMMA PermutationInjective ==
  ASSUME NEW height \in Nat, height >= 2, NEW b \in Nat, IsPermutation(height, b),
         NEW t \in Buckets(height), NEW u \in Buckets(height),
         Permutation(height, b, t) = Permutation(height, b, u)
  PROVE  t = u
<1>1. ASSUME NEW x \in Buckets(height), NEW y \in Buckets(height), x < y,
             Permutation(height, b, x) = Permutation(height, b, y)
      PROVE  FALSE
  <2> DEFINE offset == (b * 31) % height
             shift == (b % (height - 1)) + 1
             k == y - x
             left == offset + shift * x
             right == offset + shift * y
             product == shift * k
  <2>1. offset \in Nat /\ shift \in Nat \ {0}
    BY Division
  <2>2. Permutation(height, b, x) = left % height /\ Permutation(height, b, y) = right % height
    BY DEF Permutation
  <2>3. \A d \in 2 .. height : ~ (height % d = 0 /\ shift % d = 0)
    BY DEF IsPermutation
  <2>4. x \in Nat /\ y \in Nat /\ k \in Nat /\ 0 < k /\ k < height
    BY <1>1 DEF Buckets
  <2> HIDE DEF offset, shift
  <2>5. left \in Nat /\ right \in Nat /\ product \in Nat /\ product = right - left
    BY <2>1, <2>4
  <2> HIDE DEF left, right, product
  <2>6. left % height = right % height
    <3>1. Permutation(height, b, x) = Permutation(height, b, y)
      BY <1>1
    <3> QED
      BY <2>2, <3>1, Zenon
  <2>7. PICK q \in Int : right - left = height * q
    <3>1. height \in Nat \ {0} /\ right % height = left % height
      BY <2>6
    <3>2. right \in Nat /\ left \in Nat
      BY <2>5
    <3>3. \E q \in Int : right - left = height * q
      BY <3>1, <3>2, SameRemainder, Zenon
    <3> QED
      BY <3>3
  <2>8. product % height = 0
    BY <2>5, <2>6, <2>7, Multiple
  <2>9. (shift * k) % height = 0
    BY <2>8 DEF product
  <2> HIDE DEF k
  <2>10. k % height = 0
    BY <2>1, <2>3, <2>4, <2>9, NoCommonDivisor
  <2> QED
    BY <2>4, <2>10
<1>2. t \in Nat /\ u \in Nat
  BY DEF Buckets
<1> QED
  BY <1>1, <1>2

\* Such a backend takes a place in every bucket.
LEMMA PermutationSurjective ==
  ASSUME NEW height \in Nat, height >= 2, NEW b \in Nat, IsPermutation(height, b),
         NEW bucket \in Buckets(height)
  PROVE  \E t \in Buckets(height) : Permutation(height, b, t) = bucket
<1> DEFINE B == Buckets(height)
           f == [t \in B |-> Permutation(height, b, t)]
<1>1. \A t \in B : f[t] \in B /\ f[t] = Permutation(height, b, t)
  <2>1. ASSUME NEW t \in B
        PROVE  Permutation(height, b, t) \in B
    <3>1. t \in Nat
      BY DEF Buckets
    <3> QED
      BY <3>1, PermutationType
  <2> QED
    BY <2>1
<1>2. f \in [B -> B]
  BY <1>1
<1>3. f \in Injection(B, B)
  <2>1. \A t, u \in B : f[t] = f[u] => t = u
    BY <1>1, PermutationInjective
  <2> HIDE DEF f, B
  <2> QED
    BY <1>2, <2>1 DEF Injection, IsInjective
<1>4. IsFiniteSet(B)
  BY FS_Interval DEF Buckets
<1>5. f \in Surjection(B, B)
  <2> HIDE DEF f, B
  <2> QED
    BY <1>3, <1>4, FS_Injection
<1> QED
  BY <1>1, <1>5 DEF Surjection

-----------------------------------------------------------------------------
(* What the filling loops leave in the table.                              *)

\* The backends that took a place in a bucket in the first n iterations.
Visitors(height, capacity, bucket, n) ==
  {j \in 0 .. capacity - 1 :
     \E k \in 1 .. n : BucketOf(height, capacity, k) = bucket /\ Turns(height, capacity)[k].j = j}

\* Each bucket has as many places taken as it has visitors, and each visitor
\* has one of them.
RowFilled(height, capacity, cht, bucket, n) ==
  /\ cht.next[bucket] = Cardinality(Visitors(height, capacity, bucket, n))
  /\ \A j \in Visitors(height, capacity, bucket, n) :
       \E p \in 0 .. cht.next[bucket] - 1 : cht.data[capacity * bucket + p] = j

AllPermutations(height, capacity) ==
  \A b \in 0 .. capacity - 1 : IsPermutation(height, b)

\* The places of the table, bucket by bucket.
LEMMA PlaceFacts ==
  ASSUME NEW height \in Nat, NEW capacity \in Nat \ {0},
         NEW x \in Buckets(height), NEW p \in 0 .. capacity - 1
  PROVE  /\ capacity * x + p \in 0 .. height * capacity - 1
         /\ \A y \in Buckets(height), q \in 0 .. capacity - 1 :
              capacity * x + p = capacity * y + q => x = y /\ p = q
<1>1. x \in 0 .. height - 1 /\ x \in Nat
  BY DEF Buckets
<1>2. capacity * x + p \in 0 .. height * capacity - 1
  <2>1. PICK k \in 1 .. height * capacity :
          Turns(height, capacity)[k].i = x /\ Turns(height, capacity)[k].j = p
    <3>1. \E k \in 1 .. height * capacity : IsTurn(height, capacity, k, x, p)
      BY <1>1, TurnExists
    <3> QED
      BY <3>1 DEF IsTurn
  <2>2. k - 1 = x * capacity + p
    BY <2>1, TurnFacts
  <2>3. height * capacity \in Nat /\ x * capacity = capacity * x /\ k - 1 \in 0 .. height * capacity - 1
    BY <1>1
  <2> QED
    BY <2>2, <2>3
<1>3. ASSUME NEW y \in Buckets(height), NEW q \in 0 .. capacity - 1,
             capacity * x + p = capacity * y + q
      PROVE  x = y /\ p = q
  <2>1. y \in Nat
    BY DEF Buckets
  <2>2. (capacity * x + p) \div capacity = x /\ (capacity * x + p) % capacity = p
    BY <1>1
  <2>3. (capacity * y + q) \div capacity = y /\ (capacity * y + q) % capacity = q
    BY <2>1
  <2> QED
    BY <1>3, <2>2, <2>3
<1> QED
  BY <1>2, <1>3

\* A backend takes one place only in a bucket.
LEMMA NewVisitor ==
  ASSUME NEW height \in Nat, NEW capacity \in Nat \ {0}, capacity < height,
         AllPermutations(height, capacity), NEW k \in 1 .. height * capacity
  PROVE  LET j == Turns(height, capacity)[k].j
             bucket == BucketOf(height, capacity, k)
         IN  /\ j \notin Visitors(height, capacity, bucket, k - 1)
             /\ Visitors(height, capacity, bucket, k)
                  = Visitors(height, capacity, bucket, k - 1) \cup {j}
             /\ \A b \in Buckets(height) \ {bucket} :
                  Visitors(height, capacity, b, k) = Visitors(height, capacity, b, k - 1)
<1> DEFINE j == Turns(height, capacity)[k].j
           i == Turns(height, capacity)[k].i
           bucket == BucketOf(height, capacity, k)
<1>1. i \in 0 .. height - 1 /\ j \in 0 .. capacity - 1 /\ k - 1 = i * capacity + j
  BY TurnFacts
<1>2. bucket = Permutation(height, j, i)
  BY DEF BucketOf
<1>3. height * capacity \in Nat /\ k \in Nat
  OBVIOUS
<1>4. ASSUME j \in Visitors(height, capacity, bucket, k - 1)
      PROVE  FALSE
  <2>1. PICK l \in 1 .. k - 1 : BucketOf(height, capacity, l) = bucket /\ Turns(height, capacity)[l].j = j
    BY <1>4 DEF Visitors
  <2> DEFINE m == Turns(height, capacity)[l].i
  <2>2. l \in 1 .. height * capacity
    BY <1>3
  <2>3. m \in 0 .. height - 1 /\ l - 1 = m * capacity + j
    BY <2>1, <2>2, TurnFacts
  <2>4. Permutation(height, j, m) = Permutation(height, j, i)
    BY <1>2, <2>1 DEF BucketOf
  <2> HIDE DEF i, j, bucket, m
  <2>5. IsPermutation(height, j) /\ j \in Nat /\ height >= 2 /\ i \in Buckets(height) /\ m \in Buckets(height)
    BY <1>1, <2>3 DEF AllPermutations, Buckets
  <2>6. m = i
    BY <2>4, <2>5, PermutationInjective
  <2>7. l - 1 = k - 1
    BY <1>1, <2>3, <2>6
  <2> QED
    BY <1>3, <2>7
<1>5. 1 .. k = (1 .. k - 1) \cup {k}
  BY <1>3
<1>6. Visitors(height, capacity, bucket, k) = Visitors(height, capacity, bucket, k - 1) \cup {j}
  BY <1>1, <1>5 DEF Visitors
<1>7. ASSUME NEW b \in Buckets(height) \ {bucket}
      PROVE  Visitors(height, capacity, b, k) = Visitors(height, capacity, b, k - 1)
  BY <1>5 DEF Visitors
<1> QED
  BY <1>4, <1>6, <1>7

\* A bucket has no more visitors than there are backends.
LEMMA VisitorsFinite ==
  ASSUME NEW height, NEW capacity \in Nat \ {0}, NEW bucket, NEW n
  PROVE  LET visitors == Visitors(height, capacity, bucket, n)
         IN  /\ IsFiniteSet(visitors) /\ Cardinality(visitors) \in 0 .. capacity
             /\ \A j \in (0 .. capacity - 1) \ visitors :
                  /\ Cardinality(visitors) < capacity
                  /\ Cardinality(visitors \cup {j}) = Cardinality(visitors) + 1
<1> DEFINE visitors == Visitors(height, capacity, bucket, n)
           all == 0 .. capacity - 1
<1>1. visitors \subseteq all
  BY DEF Visitors
<1>2. IsFiniteSet(all) /\ Cardinality(all) = capacity
  BY FS_Interval
<1> HIDE DEF visitors, all
<1>3. /\ IsFiniteSet(visitors) /\ Cardinality(visitors) \in Nat
      /\ Cardinality(visitors) <= capacity
  BY <1>1, <1>2, FS_Subset, FS_CardinalityType
<1>4. ASSUME NEW j \in all \ visitors
      PROVE  Cardinality(visitors) < capacity /\ Cardinality(visitors \cup {j}) = Cardinality(visitors) + 1
  <2>1. Cardinality(visitors \cup {j}) = Cardinality(visitors) + 1
    BY <1>3, FS_AddElement
  <2>2. visitors \cup {j} \subseteq all
    BY <1>1
  <2>3. Cardinality(visitors \cup {j}) <= capacity
    BY <1>2, <2>2, FS_Subset
  <2> QED
    BY <1>3, <2>1, <2>3
<1> QED
  BY <1>3, <1>4 DEF visitors, all

\* An iteration keeps the rows filled, and writes within the row of its bucket.
LEMMA FillKeepsRows ==
  ASSUME NEW height \in Nat, NEW capacity \in Nat \ {0}, capacity < height,
         AllPermutations(height, capacity), NEW k \in 1 .. height * capacity,
         NEW cht \in ChtType(height, capacity),
         \A b \in Buckets(height) : RowFilled(height, capacity, cht, b, k - 1)
  PROVE  \A b \in Buckets(height) :
           RowFilled(height, capacity, Fill(height, capacity, cht, Turns(height, capacity)[k]), b, k)
<1> DEFINE j == Turns(height, capacity)[k].j
           bucket == BucketOf(height, capacity, k)
           new == Fill(height, capacity, cht, Turns(height, capacity)[k])
           V(b, n) == Visitors(height, capacity, b, n)
<1>1. bucket \in Buckets(height) /\ j \in 0 .. capacity - 1
  BY BucketOfType, TurnFacts
<1>2. /\ j \notin V(bucket, k - 1)
      /\ V(bucket, k) = V(bucket, k - 1) \cup {j}
      /\ \A b \in Buckets(height) \ {bucket} : V(b, k) = V(b, k - 1)
  BY NewVisitor
<1>3. /\ \A b \in Buckets(height) :
           new.next[b] = IF b = bucket THEN cht.next[b] + 1 ELSE cht.next[b]
      /\ \A n \in 0 .. height * capacity - 1 :
           new.data[n] = IF n = capacity * bucket + cht.next[bucket] THEN j ELSE cht.data[n]
  <2>1. Wrote(new, cht, height, capacity, bucket, j)
    BY FillFacts
  <2> HIDE DEF new, bucket, j
  <2> QED
    BY <2>1 DEF Wrote
<1>4. \A b \in Buckets(height) :
        /\ cht.next[b] = Cardinality(V(b, k - 1))
        /\ \A v \in V(b, k - 1) : \E p \in 0 .. cht.next[b] - 1 : cht.data[capacity * b + p] = v
  BY DEF RowFilled
<1>5. \A b \in Buckets(height) : cht.next[b] \in 0 .. capacity
  <2>1. ASSUME NEW b \in Buckets(height)
        PROVE  Cardinality(V(b, k - 1)) \in 0 .. capacity
    BY VisitorsFinite, Zenon
  <2> HIDE DEF V
  <2> QED
    BY <1>4, <2>1
<1>6. /\ cht.next[bucket] \in 0 .. capacity - 1
      /\ Cardinality(V(bucket, k)) = cht.next[bucket] + 1
  <2>1. j \in (0 .. capacity - 1) \ V(bucket, k - 1)
    BY <1>1, <1>2
  <2> HIDE DEF bucket, j
  <2>2. /\ Cardinality(V(bucket, k - 1)) < capacity
        /\ Cardinality(V(bucket, k - 1) \cup {j}) = Cardinality(V(bucket, k - 1)) + 1
    <3> DEFINE all == 0 .. capacity - 1
               visitors == V(bucket, k - 1)
    <3>1. \A v \in all \ visitors :
            /\ Cardinality(visitors) < capacity
            /\ Cardinality(visitors \cup {v}) = Cardinality(visitors) + 1
      BY VisitorsFinite
    <3>2. j \in all \ visitors
      BY <2>1
    <3> HIDE DEF all, visitors
    <3>3. /\ Cardinality(visitors) < capacity
          /\ Cardinality(visitors \cup {j}) = Cardinality(visitors) + 1
      BY <3>1, <3>2
    <3> QED
      BY <3>3 DEF visitors
  <2>3. cht.next[bucket] = Cardinality(V(bucket, k - 1)) /\ cht.next[bucket] \in 0 .. capacity
    BY <1>1, <1>4, <1>5
  <2> HIDE DEF V
  <2> QED
    BY <1>2, <2>2, <2>3
<1> HIDE DEF j, bucket, new, V
<1>7. ASSUME NEW b \in Buckets(height)
      PROVE  new.next[b] = Cardinality(V(b, k))
  BY <1>2, <1>3, <1>4, <1>6
<1>8. ASSUME NEW b \in Buckets(height), NEW p \in 0 .. capacity - 1,
             b # bucket \/ p # cht.next[bucket]
      PROVE  new.data[capacity * b + p] = cht.data[capacity * b + p]
  <2>1. /\ capacity * b + p \in 0 .. height * capacity - 1
        /\ capacity * b + p = capacity * bucket + cht.next[bucket]
             => b = bucket /\ p = cht.next[bucket]
    BY <1>1, <1>6, PlaceFacts
  <2> QED
    BY <1>3, <1>8, <2>1
<1>9. new.data[capacity * bucket + cht.next[bucket]] = j
  <2> DEFINE q == cht.next[bucket]
  <2>1. q \in 0 .. capacity - 1
    BY <1>6
  <2> HIDE DEF q
  <2>2. capacity * bucket + q \in 0 .. height * capacity - 1
    BY <1>1, <2>1, PlaceFacts
  <2> QED
    BY <1>3, <2>2 DEF q
<1>10. ASSUME NEW b \in Buckets(height), NEW v \in V(b, k)
       PROVE  \E p \in 0 .. new.next[b] - 1 : new.data[capacity * b + p] = v
  <2>1. CASE v \in V(b, k - 1)
    <3>1. PICK p \in 0 .. cht.next[b] - 1 : cht.data[capacity * b + p] = v
      BY <1>4, <2>1
    <3>2. cht.next[b] \in 0 .. capacity
      BY <1>5
    <3>3. p \in 0 .. capacity - 1 /\ (b # bucket \/ p # cht.next[bucket])
      BY <3>2
    <3>4. new.data[capacity * b + p] = v
      BY <1>8, <3>1, <3>3
    <3>5. p \in 0 .. new.next[b] - 1
      BY <1>3, <3>2
    <3> QED
      BY <3>4, <3>5
  <2>2. CASE v \notin V(b, k - 1)
    <3>1. b = bucket /\ v = j
      BY <1>2, <2>2
    <3>2. cht.next[bucket] \in 0 .. new.next[b] - 1
      BY <1>1, <1>3, <1>6, <3>1
    <3> QED
      BY <1>9, <3>1, <3>2
  <2> QED
    BY <2>1, <2>2
<1>11. ASSUME NEW b \in Buckets(height)
       PROVE  RowFilled(height, capacity, new, b, k)
  BY <1>7, <1>10 DEF RowFilled, V
<1> QED
  BY <1>11 DEF new

\* All iterations together fill all rows.
LEMMA IteratedRows ==
  ASSUME NEW height \in Nat, NEW capacity \in Nat \ {0}, capacity < height,
         AllPermutations(height, capacity),
         NEW F, Iterated(F, height, capacity, height * capacity)
  PROVE  \A n \in 0 .. height * capacity, b \in Buckets(height) :
           RowFilled(height, capacity, F[n], b, n)
<1> DEFINE N == height * capacity
           Filled(n) == \A b \in Buckets(height) : RowFilled(height, capacity, F[n], b, n)
           Wrong == {n \in 0 .. N : ~ Filled(n)}
<1>1. SUFFICES ASSUME Wrong # {} PROVE FALSE
  OBVIOUS
<1>2. N \in Nat
  OBVIOUS
<1>3. PICK n \in Wrong : \A k \in Wrong : n <= k
  <2>1. Wrong \subseteq Nat
    OBVIOUS
  <2> HIDE DEF Wrong
  <2> QED
    BY <1>1, <2>1, LeastNatural
<1>4. CASE n = 0
  <2>1. 1 .. 0 = {}
    OBVIOUS
  <2>2. ASSUME NEW b \in Buckets(height)
        PROVE  RowFilled(height, capacity, F[0], b, 0)
    <3>1. Visitors(height, capacity, b, 0) = {}
      BY <2>1 DEF Visitors
    <3>2. Cardinality({}) = 0
      BY FS_EmptySet
    <3>3. F[0].next[b] = 0
      BY DEF Iterated, NewCht
    <3> QED
      BY <3>1, <3>2, <3>3 DEF RowFilled
  <2> QED
    BY <1>3, <1>4, <2>2
<1>5. CASE n # 0
  <2>1. n \in 1 .. N /\ n - 1 \in 0 .. N /\ n - 1 < n
    BY <1>2, <1>5
  <2>2. Filled(n - 1)
    <3>1. n - 1 \notin Wrong
      BY <1>3, <2>1
    <3> HIDE DEF Filled
    <3> QED
      BY <2>1, <3>1
  <2>3. F[n] = Fill(height, capacity, F[n - 1], Turns(height, capacity)[n])
    BY <2>1 DEF Iterated
  <2>4. F[n - 1] \in ChtType(height, capacity)
    BY <2>1, IteratedType
  <2>5. Filled(n)
    BY <2>1, <2>2, <2>3, <2>4, FillKeepsRows
  <2> QED
    BY <1>3, <2>5
<1> QED
  BY <1>4, <1>5

\* What may be found in a row.
HasBackends(row, capacity) ==
  \A p \in 1 .. capacity : row[p] \in 0 .. capacity - 1
HasAllBackends(row, capacity) ==
  \A b \in 0 .. capacity - 1 : \E p \in 1 .. capacity : row[p] = b

\* What a lookup finds: backends, and with permutations every backend.
LEMMA RowFacts ==
  ASSUME NEW height \in Nat, NEW capacity \in Nat \ {0}, capacity < height, NEW hash \in Nat
  PROVE  LET row == Row(cht_alloc(height, capacity).data, height, capacity, hash)
         IN  /\ HasBackends(row, capacity)
             /\ AllPermutations(height, capacity) => HasAllBackends(row, capacity)
<1> DEFINE N == height * capacity
           cht == cht_alloc(height, capacity)
           row == Row(cht.data, height, capacity, hash)
           bucket == hash % height
<1>1. PICK F : Iterated(F, height, capacity, N) /\ cht = F[N]
  BY AllocIterates
<1>2. N \in Nat /\ N \in 0 .. N
  OBVIOUS
<1>3. cht \in ChtType(height, capacity)
  BY <1>1, <1>2, IteratedType
<1>4. bucket \in Buckets(height)
  BY DEF Buckets
<1>5. ASSUME NEW q \in 0 .. capacity - 1
      PROVE  /\ row[q + 1] = cht.data[capacity * bucket + q]
             /\ capacity * bucket + q \in 0 .. N - 1
  <2>1. q + 1 \in 1 .. capacity
    OBVIOUS
  <2>2. row[q + 1] = cht.data[bucket * capacity + (q + 1) - 1]
    BY <2>1 DEF Row
  <2>3. bucket * capacity + (q + 1) - 1 = capacity * bucket + q
    BY <1>4 DEF Buckets
  <2>4. capacity * bucket + q \in 0 .. N - 1
    BY <1>4, PlaceFacts
  <2> HIDE DEF bucket, row, N
  <2> QED
    BY <2>2, <2>3, <2>4
<1>6. ASSUME NEW p \in 1 .. capacity
      PROVE  row[p] \in 0 .. capacity - 1
  <2> DEFINE q == p - 1
  <2>1. q \in 0 .. capacity - 1 /\ p = q + 1
    OBVIOUS
  <2> HIDE DEF q, row
  <2>2. row[p] = cht.data[capacity * bucket + q] /\ capacity * bucket + q \in 0 .. N - 1
    BY <1>5, <2>1
  <2>3. cht.data \in [0 .. N - 1 -> 0 .. capacity - 1]
    BY <1>3 DEF ChtType
  <2> HIDE DEF cht, N
  <2> QED
    BY <2>2, <2>3
<1>7. ASSUME AllPermutations(height, capacity), NEW b \in 0 .. capacity - 1
      PROVE  \E p \in 1 .. capacity : row[p] = b
  <2>1. PICK t \in Buckets(height) : Permutation(height, b, t) = bucket
    <3>1. height >= 2 /\ b \in Nat /\ IsPermutation(height, b)
      BY <1>7 DEF AllPermutations
    <3> HIDE DEF bucket
    <3> QED
      BY <1>4, <3>1, PermutationSurjective
  <2>2. PICK k \in 1 .. N : Turns(height, capacity)[k].i = t /\ Turns(height, capacity)[k].j = b
    <3>1. t \in 0 .. height - 1
      BY DEF Buckets
    <3>2. \E k \in 1 .. height * capacity : IsTurn(height, capacity, k, t, b)
      BY <3>1, TurnExists
    <3> QED
      BY <3>2 DEF IsTurn
  <2> HIDE DEF bucket
  <2>3. b \in Visitors(height, capacity, bucket, N)
    BY <2>1, <2>2 DEF Visitors, BucketOf
  <2>4. RowFilled(height, capacity, cht, bucket, N)
    BY <1>1, <1>2, <1>4, <1>7, IteratedRows
  <2>5. cht.next[bucket] \in 0 .. capacity
    <3>1. Cardinality(Visitors(height, capacity, bucket, N)) \in 0 .. capacity
      BY VisitorsFinite, Zenon
    <3>2. cht.next[bucket] = Cardinality(Visitors(height, capacity, bucket, N))
      BY <2>4 DEF RowFilled
    <3> QED
      BY <3>1, <3>2
  <2>6. PICK q \in 0 .. cht.next[bucket] - 1 : cht.data[capacity * bucket + q] = b
    BY <2>3, <2>4 DEF RowFilled
  <2> HIDE DEF row, cht
  <2>7. q \in 0 .. capacity - 1 /\ q + 1 \in 1 .. capacity
    BY <2>5
  <2>8. row[q + 1] = b
    BY <1>5, <2>6, <2>7
  <2> QED
    BY <2>7, <2>8
<1> QED
  BY <1>6, <1>7 DEF HasBackends, HasAllBackends

-----------------------------------------------------------------------------
(* The flow table between the removal of a stale mapping and the next.     *)

\* Giving back the index of a known key together with its mapping.
LEMMA RemainingFacts ==
  ASSUME table \in TableType(FlowCapacity, FlowExpirationTime), InSync(table),
         NEW flow \in Keys
  PROVE  /\ Remaining(flow) \in TableType(FlowCapacity, FlowExpirationTime)
         /\ InSync(Remaining(flow))
         /\ flow \notin Known(Remaining(flow))
<1> DEFINE size == FlowCapacity
           e == FlowExpirationTime
           t == table
           r == Remaining(flow)
           i == IndexOf(t, flow)
           p == t.port_allocator
           q == index_pool_return(p, i)
           S == Known(t) \ {flow}
           R == [value : 0 .. size - 1, address : 0 .. size - 1]
<1>0. size \in Nat
  BY BackendsAssumption
<1>1. CASE flow \notin Known(t)
  BY <1>1 DEF Remaining
<1>2. CASE flow \in Known(t)
  <2>1. /\ i \in 0 .. size - 1 /\ ~ Free(p, i) /\ t.flows[i] = flow
        /\ p \in PoolType(size, e) /\ t.flows \in [0 .. size - 1 -> Keys \cup {NoKey}]
    <3>1. i \in Indices(p) /\ ~ Free(p, i) /\ t.flows[i] = flow
      BY <1>2, KnownFacts
    <3>2. /\ p \in PoolType(size, e) /\ Indices(p) = 0 .. size - 1
          /\ t.flows \in [0 .. size - 1 -> Keys \cup {NoKey}]
      BY <1>0, PoolOfTable
    <3> QED
      BY <3>1, <3>2
  <2>2. r = [t EXCEPT !.flow_indexes = MapRemove(@, flow), !.port_allocator = q]
    BY <1>2, <2>1 DEF Remaining
  <2>3. /\ r.flows = t.flows /\ r.flow_indexes = MapRemove(t.flow_indexes, flow)
        /\ r.port_allocator = q
        /\ r = [flows |-> r.flows, flow_indexes |-> r.flow_indexes, port_allocator |-> r.port_allocator]
    BY <2>2 DEF TableType
  <2>4. q \in PoolType(size, e)
    <3>1. TIME_MAX \in Time
      BY TimeMaxAssumption DEF Time
    <3> HIDE DEF size, e, p, i
    <3> QED
      BY <1>0, <2>1, <3>1, StampType DEF index_pool_return
  <2>5. \A j \in 0 .. size - 1 : Free(q, j) <=> j = i \/ Free(p, j)
    <3>1. p.timestamps \in [0 .. size - 1 -> Time] /\ q.timestamps = [p.timestamps EXCEPT ![i] = TIME_MAX]
      BY <2>1 DEF PoolType, index_pool_return
    <3> HIDE DEF p, q, i
    <3>2. \A j \in 0 .. size - 1 : q.timestamps[j] = IF j = i THEN TIME_MAX ELSE p.timestamps[j]
      BY <2>1, <3>1
    <3> QED
      BY <3>2 DEF Free
  <2>6. Known(r) = S /\ \A k \in S : r.flow_indexes[k] = t.flow_indexes[k]
    BY <2>3 DEF Known, MapRemove
  <2>7. r.flow_indexes \in UNION {[T -> R] : T \in SUBSET Keys}
    <3>1. PICK T \in SUBSET Keys : t.flow_indexes \in [T -> R]
      BY DEF TableType
    <3>2. Known(t) = T
      BY <3>1 DEF Known
    <3>3. r.flow_indexes = [k \in S |-> t.flow_indexes[k]]
      BY <2>3 DEF MapRemove, Known
    <3> HIDE DEF r, R
    <3>4. r.flow_indexes \in [S -> R] /\ S \in SUBSET Keys
      BY <3>1, <3>2, <3>3
    <3> HIDE DEF S
    <3> QED
      BY <3>4
  <2>8. r \in TableType(size, e)
    <3>1. r.flows \in [0 .. size - 1 -> Keys \cup {NoKey}] /\ r.port_allocator \in PoolType(size, e)
      BY <2>1, <2>3, <2>4
    <3> HIDE DEF r, q, R
    <3> QED
      BY <2>3, <2>7, <3>1 DEF TableType, R
  <2> HIDE DEF r, q, p, i
  <2>9. ASSUME NEW j \in 0 .. size - 1, ~ Free(r.port_allocator, j)
        PROVE  Maps(r, r.flows[j], j)
    <3>1. j # i /\ ~ Free(p, j)
      BY <2>3, <2>5, <2>9
    <3>2. Maps(t, t.flows[j], j)
      BY <1>0, <3>1, PoolOfTable DEF InSync, p
    <3>3. t.flows[j] # flow
      <4>1. SUFFICES ASSUME t.flows[j] = flow PROVE FALSE
        OBVIOUS
      <4>2. t.flow_indexes[flow] = [value |-> j, address |-> j]
        BY <3>2, <4>1 DEF Maps
      <4> QED
        BY <3>1, <4>2 DEF IndexOf, i
    <3> QED
      BY <2>3, <2>6, <3>2, <3>3 DEF Maps
  <2>10. ASSUME NEW k \in Known(r)
         PROVE  \E j \in 0 .. size - 1 : ~ Free(r.port_allocator, j) /\ Maps(r, k, j)
    <3>1. k \in Known(t) /\ k # flow
      BY <2>6
    <3>2. PICK j \in 0 .. size - 1 : ~ Free(p, j) /\ Maps(t, k, j)
      BY <1>0, <3>1, PoolOfTable DEF InSync, p
    <3>3. j # i
      BY <2>1, <3>1, <3>2 DEF Maps
    <3>4. ~ Free(r.port_allocator, j)
      BY <2>3, <2>5, <3>2, <3>3
    <3>5. Maps(r, k, j)
      BY <2>3, <2>6, <3>1, <3>2 DEF Maps
    <3> QED
      BY <3>4, <3>5
  <2>11. InSync(r)
    BY <1>0, <2>8, <2>9, <2>10, InSyncIntro
  <2> QED
    BY <2>6, <2>8, <2>11 DEF r
<1> QED
  BY <1>1, <1>2

\* Whatever comes next, the calls are legal.
LEMMA InSyncCallsAreLegal ==
  ASSUME table \in TableType(FlowCapacity, FlowExpirationTime), InSync(table), now \in Clock
  PROVE  CallsAreLegal
<1>1. ASSUME NEW flow \in Keys, NEW time \in now .. TIME_MAX - 1, HasSpace(Remaining(flow), time)
      PROVE  InsertIsLegal(Remaining(flow), time, flow)
  <2> DEFINE t == Remaining(flow)
  <2>1. /\ t \in TableType(FlowCapacity, FlowExpirationTime) /\ InSync(t) /\ flow \notin Known(t)
        /\ HasSpace(t, time)
    BY <1>1, RemainingFacts
  <2>2. time \in Clock
    BY TimeMaxAssumption DEF Clock
  <2> HIDE DEF t
  <2>3. InsertIsLegal(t, time, flow)
    BY <2>1, <2>2, InsertLegal, BackendsAssumption
  <2> QED
    BY <2>3 DEF t
<1> QED
  BY <1>1 DEF CallsAreLegal

-----------------------------------------------------------------------------
(* The backends.                                                           *)

\* The pool of backends has the time of the last heartbeat of each.
Heartbeats ==
  \A b \in Backends :
    /\ Free(backend_pool, b) <=> heard[b] = Never
    /\ heard[b] # Never => backend_pool.timestamps[b] = heard[b]

\* The inductive invariant.
Inv == TypeOK /\ InSync(table) /\ Heartbeats

\* The fields of the pool of backends.
LEMMA BackendPoolFields ==
  ASSUME TypeOK
  PROVE  /\ backend_pool.size = BackendCapacity
         /\ backend_pool.expiration_time = BackendExpirationTime
         /\ backend_pool.timestamps \in [Backends -> Time]
         /\ BackendCapacity \in Nat \ {0} /\ BackendExpirationTime \in Nat
BY BackendsAssumption, ExpirationAssumption, TimeMaxAssumption
   DEF TypeOK, PoolType, Backends, Time

\* Backends in use are those heard of within the expiration time.
LEMMA AliveIsResponsive ==
  ASSUME Inv, NEW b \in Backends, NEW time \in Clock
  PROVE  Alive(b, time) <=> Responsive(b, time)
<1>1. b \in Nat /\ b < backend_pool.size /\ time \in Nat
  BY BackendPoolFields, TimeMaxAssumption DEF Inv, Backends, Clock
<1>2. heard[b] = Never \/ heard[b] \in Nat
  <2>1. heard[b] \in Clock \cup {Never}
    BY DEF Inv, TypeOK
  <2> QED
    BY <2>1, TimeMaxAssumption DEF Clock
<1>3. backend_pool.expiration_time = BackendExpirationTime /\ BackendExpirationTime \in Nat
  BY BackendPoolFields DEF Inv
<1>4. /\ Free(backend_pool, b) <=> heard[b] = Never
      /\ heard[b] # Never => backend_pool.timestamps[b] = heard[b]
  BY DEF Inv, Heartbeats
<1>5. Alive(b, time) <=> heard[b] # Never /\ ~ Expired(backend_pool, time, b)
  BY <1>1, <1>4 DEF Alive, index_pool_used
<1>6. CASE heard[b] = Never
  BY <1>5, <1>6 DEF Responsive
<1>7. CASE heard[b] # Never
  BY <1>1, <1>2, <1>3, <1>4, <1>5, <1>7 DEF Responsive, Expired
<1> QED
  BY <1>6, <1>7

\* The candidates of a flow are backends.
LEMMA CandidatesAreBackends ==
  ASSUME NEW flow \in Keys
  PROVE  /\ \A p \in 1 .. BackendCapacity : RowOf(flow)[p] \in Backends
         /\ AllPermutations(ChtHeight, BackendCapacity) =>
              \A b \in Backends : \E p \in 1 .. BackendCapacity : RowOf(flow)[p] = b
<1>1. /\ ChtHeight \in Nat /\ BackendCapacity \in Nat \ {0} /\ BackendCapacity < ChtHeight
      /\ Hash[flow] \in Nat
  BY BackendsAssumption, HeightAssumption
<1> DEFINE hash == Hash[flow]
           row == Row(cht_alloc(ChtHeight, BackendCapacity).data, ChtHeight, BackendCapacity, hash)
<1>2. RowOf(flow) = row
  BY DEF RowOf, ChtData
<1>3. hash \in Nat
  BY <1>1
<1> HIDE DEF hash
<1>4. /\ HasBackends(row, BackendCapacity)
      /\ AllPermutations(ChtHeight, BackendCapacity) => HasAllBackends(row, BackendCapacity)
  BY <1>1, <1>3, RowFacts
<1> HIDE DEF row
<1> QED
  BY <1>2, <1>4 DEF Backends, HasBackends, HasAllBackends

\* The lookup returns a backend in use if it finds one.
LEMMA ChosenFacts ==
  ASSUME NEW flow \in Keys, NEW time, AlivePlaces(flow, time) # {}
  PROVE  Chosen(flow, time) \in Backends /\ Alive(Chosen(flow, time), time)
<1> DEFINE P == AlivePlaces(flow, time)
<1>1. P \subseteq Nat /\ P # {}
  BY DEF AlivePlaces
<1> DEFINE c == CHOOSE p \in P : \A q \in P : p <= q
<1>2. Chosen(flow, time) = RowOf(flow)[c]
  BY DEF Chosen
<1> HIDE DEF P
<1>3. \E p \in P : \A q \in P : p <= q
  BY <1>1, LeastNatural
<1>4. c \in P
  BY <1>3
<1> HIDE DEF c
<1>5. c \in 1 .. BackendCapacity /\ Alive(RowOf(flow)[c], time)
  BY <1>4 DEF P, AlivePlaces
<1> QED
  BY <1>2, <1>5, CandidatesAreBackends

\* What the invariant says of the parts, for the steps.
LEMMA InvFacts ==
  ASSUME Inv
  PROVE  /\ table \in TableType(FlowCapacity, FlowExpirationTime) /\ InSync(table)
         /\ flow_backends \in [0 .. FlowCapacity - 1 -> Backends]
         /\ backend_pool \in PoolType(BackendCapacity, BackendExpirationTime)
         /\ now \in Clock
         /\ heard \in [Backends -> Clock \cup {Never}]
         /\ sent \in [Keys -> Backends \cup {Nobody}]
BY DEF Inv, TypeOK

\* The backend of a known flow is one.
LEMMA BackendType ==
  ASSUME Inv, NEW flow \in Known(table)
  PROVE  Backend(flow) \in Backends /\ IndexOf(table, flow) \in 0 .. FlowCapacity - 1
<1>1. IndexOf(table, flow) \in 0 .. FlowCapacity - 1
  <2>1. IndexOf(table, flow) \in Indices(table.port_allocator)
    BY InvFacts, KnownFacts
  <2>2. Indices(table.port_allocator) = 0 .. FlowCapacity - 1
    BY InvFacts, PoolOfTable, BackendsAssumption
  <2> QED
    BY <2>1, <2>2
<1> QED
  BY <1>1, InvFacts DEF Backend

-----------------------------------------------------------------------------

\* balancer_alloc: no flows, and no backend heard of.
LEMMA InvInit == Init => Inv
<1> SUFFICES ASSUME Init PROVE Inv
  OBVIOUS
<1>1. BackendCapacity \in Nat \ {0} /\ FlowCapacity \in Nat
  BY BackendsAssumption
<1>2. table \in TableType(FlowCapacity, FlowExpirationTime) /\ InSync(table)
  BY <1>1, AllocInSync DEF Init
<1>3. 0 \in Backends /\ 0 \in Clock
  BY <1>1, TimeMaxAssumption DEF Backends, Clock
<1>4. flow_backends \in [0 .. FlowCapacity - 1 -> Backends]
  BY <1>3 DEF Init
<1>5. backend_pool \in PoolType(BackendCapacity, BackendExpirationTime)
  BY <1>1, TimeMaxAssumption DEF Init, index_pool_alloc, PoolType, Time
<1>6. heard \in [Backends -> Clock \cup {Never}] /\ sent \in [Keys -> Backends \cup {Nobody}]
  BY DEF Init
<1>7. now \in Clock /\ out = "none"
  BY <1>3 DEF Init
<1>8. TypeOK
  BY <1>2, <1>4, <1>5, <1>6, <1>7 DEF TypeOK
<1>9. ASSUME NEW b \in Backends
      PROVE  Free(backend_pool, b) /\ heard[b] = Never
  BY <1>9 DEF Init, Backends, Free, index_pool_alloc
<1> QED
  BY <1>2, <1>8, <1>9 DEF Inv, Heartbeats

\* A heartbeat is written in the pool.
LEMMA HeartbeatKeepsInv ==
  ASSUME Inv, NEW time \in Clock, NEW backend \in Backends, Heartbeat(backend, time)
  PROVE  Inv'
<1>1. /\ backend_pool' = index_pool_refresh(backend_pool, time, backend)
      /\ now' = time /\ out' = "heartbeat"
      /\ heard' = [heard EXCEPT ![backend] = time]
      /\ UNCHANGED <<table, flow_backends, sent>>
  BY DEF Heartbeat
<1>2. /\ backend_pool \in PoolType(BackendCapacity, BackendExpirationTime)
      /\ BackendCapacity \in Nat /\ backend \in 0 .. BackendCapacity - 1
      /\ time \in Time /\ time # TIME_MAX /\ time # Never
  BY InvFacts, BackendsAssumption, ClockIsTime, TimeMaxAssumption DEF Backends, Never, Clock
<1>3. backend_pool' \in PoolType(BackendCapacity, BackendExpirationTime)
  BY <1>1, <1>2, StampType DEF index_pool_refresh
<1>4. heard' \in [Backends -> Clock \cup {Never}]
  BY <1>1, InvFacts
<1>5. TypeOK'
  BY <1>1, <1>3, <1>4, InvFacts DEF TypeOK
<1>6. ASSUME NEW b \in Backends
      PROVE  /\ heard'[b] = IF b = backend THEN time ELSE heard[b]
             /\ backend_pool'.timestamps[b] = IF b = backend THEN time ELSE backend_pool.timestamps[b]
  <2>1. backend_pool.timestamps \in [Backends -> Time] /\ heard \in [Backends -> Clock \cup {Never}]
    BY BackendPoolFields, InvFacts DEF Inv
  <2>2. backend_pool'.timestamps = [backend_pool.timestamps EXCEPT ![backend] = time]
    BY <1>1, <1>2 DEF index_pool_refresh, PoolType
  <2> QED
    BY <1>1, <2>1, <2>2
<1>7. Heartbeats'
  <2>1. ASSUME NEW b \in Backends
        PROVE  /\ backend_pool'.timestamps[b] = TIME_MAX <=> heard'[b] = Never
               /\ heard'[b] # Never => backend_pool'.timestamps[b] = heard'[b]
    <3>1. /\ backend_pool.timestamps[b] = TIME_MAX <=> heard[b] = Never
          /\ heard[b] # Never => backend_pool.timestamps[b] = heard[b]
      BY DEF Inv, Heartbeats, Free
    <3> QED
      BY <1>2, <1>6, <3>1
  <2> QED
    BY <2>1 DEF Heartbeats, Free
<1> QED
  BY <1>1, <1>5, <1>7 DEF Inv, InSync

\* Packets of flows only write in the table.
LEMMA TableStepKeepsInv ==
  ASSUME Inv, UNCHANGED <<flow_backends, backend_pool, heard>>,
         table' \in TableType(FlowCapacity, FlowExpirationTime), InSync(table'),
         now' \in Clock, out' \in {"drop", "forward"},
         sent' \in [Keys -> Backends \cup {Nobody}]
  PROVE  Inv'
<1>1. TypeOK'
  BY InvFacts DEF TypeOK
<1>2. Heartbeats'
  BY DEF Inv, Heartbeats, Free
<1> QED
  BY <1>1, <1>2 DEF Inv

\* A packet of a flow whose backend is in use.
LEMMA KnownFlowKeepsInv ==
  ASSUME Inv, NEW time \in Clock, NEW flow \in Keys, KnownFlow(flow, time)
  PROVE  Inv'
<1> DEFINE i == IndexOf(table, flow)
<1>1. /\ flow \in Known(table) /\ table' = Refreshed(table, time, i)
      /\ out' = "forward" /\ now' = time
      /\ sent' = [sent EXCEPT ![flow] = Backend(flow)]
      /\ UNCHANGED <<flow_backends, backend_pool, heard>>
  BY DEF KnownFlow
<1>2. Backend(flow) \in Backends /\ i \in 0 .. FlowCapacity - 1
  BY <1>1, BackendType
<1>3. ~ Free(table.port_allocator, i)
  BY <1>1, InvFacts, KnownFacts
<1> HIDE DEF i
<1>4. table' \in TableType(FlowCapacity, FlowExpirationTime) /\ InSync(table')
  BY <1>1, <1>2, <1>3, InvFacts, BackendsAssumption, RefreshInSync
<1>5. sent' \in [Keys -> Backends \cup {Nobody}]
  BY <1>1, <1>2, InvFacts
<1> QED
  BY <1>1, <1>4, <1>5, TableStepKeepsInv

\* A packet of another flow.
LEMMA NewFlowKeepsInv ==
  ASSUME Inv, NEW time \in Clock, NEW flow \in Keys, NewFlow(flow, time)
  PROVE  Inv'
<1> DEFINE t == Remaining(flow)
<1>1. /\ t \in TableType(FlowCapacity, FlowExpirationTime) /\ InSync(t)
      /\ flow \notin Known(t)
  BY InvFacts, RemainingFacts
<1>2. /\ now' = time
      /\ UNCHANGED <<flow_backends, backend_pool, heard>>
      /\ \/ /\ AlivePlaces(flow, time) # {}
            /\ table' = IF HasSpace(t, time) THEN Inserted(t, time, flow) ELSE t
            /\ out' = "forward"
            /\ sent' = [sent EXCEPT ![flow] = Chosen(flow, time)]
         \/ /\ AlivePlaces(flow, time) = {}
            /\ table' = t
            /\ out' = "drop"
            /\ UNCHANGED sent
  BY DEF NewFlow
<1> HIDE DEF t
<1>3. table' \in TableType(FlowCapacity, FlowExpirationTime) /\ InSync(table')
  <2>1. CASE table' = t
    BY <1>1, <2>1
  <2>2. CASE HasSpace(t, time) /\ table' = Inserted(t, time, flow)
    BY <1>1, <2>2, BackendsAssumption, InsertedType, InsertInSync
  <2> QED
    BY <1>2, <2>1, <2>2
<1>4. sent' \in [Keys -> Backends \cup {Nobody}]
  <2>1. CASE UNCHANGED sent
    BY <2>1, InvFacts
  <2>2. CASE AlivePlaces(flow, time) # {} /\ sent' = [sent EXCEPT ![flow] = Chosen(flow, time)]
    <3>1. Chosen(flow, time) \in Backends
      BY <2>2, ChosenFacts
    <3> QED
      BY <2>2, <3>1, InvFacts
  <2> QED
    BY <1>2, <2>1, <2>2
<1> QED
  BY <1>2, <1>3, <1>4, TableStepKeepsInv

\* Every packet keeps the invariant.
LEMMA InvNext == Inv /\ [Next]_vars => Inv'
<1> SUFFICES ASSUME Inv, [Next]_vars PROVE Inv'
  OBVIOUS
<1>1. ASSUME NEW time \in now .. TIME_MAX - 1 PROVE time \in Clock
  BY InvFacts, TimeMaxAssumption DEF Clock
<1>2. ASSUME NEW time \in now .. TIME_MAX - 1, Other(time)
      PROVE  Inv'
  <2>1. /\ UNCHANGED <<table, flow_backends, backend_pool, heard, sent>>
        /\ now' \in Clock /\ out' = "drop"
    BY <1>1, <1>2 DEF Other
  <2> QED
    BY <2>1, InvFacts, TableStepKeepsInv
<1>3. ASSUME NEW time \in now .. TIME_MAX - 1, NEW backend \in Backends, Heartbeat(backend, time)
      PROVE  Inv'
  BY <1>1, <1>3, HeartbeatKeepsInv
<1>4. ASSUME NEW time \in now .. TIME_MAX - 1, NEW flow \in Keys, KnownFlow(flow, time)
      PROVE  Inv'
  BY <1>1, <1>4, KnownFlowKeepsInv
<1>5. ASSUME NEW time \in now .. TIME_MAX - 1, NEW flow \in Keys, NewFlow(flow, time)
      PROVE  Inv'
  BY <1>1, <1>5, NewFlowKeepsInv
<1>6. CASE UNCHANGED vars
  BY <1>6 DEF vars, Inv, TypeOK, Heartbeats, InSync
<1> QED
  BY <1>2, <1>3, <1>4, <1>5, <1>6 DEF Next

LEMMA InvAlways == Spec => []Inv
BY InvInit, InvNext, PTL DEF Spec

\* Removing a stale mapping, giving back its index, borrowing another and
\* mapping it leaves the balancer's heap, map and pool in agreement, and makes
\* only calls their contracts allow, for any number of flows and backends and
\* whatever the consistent hash table holds.
THEOREM BalancerTableInSync == Spec => []TableInSync
<1>1. Inv => TableInSync
  BY InSyncCallsAreLegal DEF Inv, TypeOK, TableInSync
<1> QED
  BY <1>1, InvAlways, PTL

-----------------------------------------------------------------------------

\* A prime height, as cht.h would like it to be, is enough: no shift is a
\* multiple of it.
LEMMA PrimeHeights ==
  ASSUME NEW height \in Nat, height >= 2, \A d \in 2 .. height - 1 : height % d # 0,
         NEW b \in Nat
  PROVE  IsPermutation(height, b)
<1> DEFINE shift == (b % (height - 1)) + 1
<1>1. shift \in 1 .. height - 1
  <2>1. height - 1 \in Nat \ {0}
    OBVIOUS
  <2>2. b % (height - 1) \in 0 .. height - 2
    BY <2>1
  <2> QED
    BY <2>2
<1> HIDE DEF shift
<1>2. shift % height = shift
  BY <1>1
<1>3. ASSUME NEW d \in 2 .. height, height % d = 0, shift % d = 0
      PROVE  FALSE
  <2>1. d = height
    BY <1>3
  <2> QED
    BY <1>1, <1>2, <1>3, <2>1
<1> QED
  BY <1>3 DEF IsPermutation, shift

\* If all permutations are some, as with a prime height, packets only go to
\* backends that were heard of within their expiration time, and every packet
\* does as long as there is such a backend: the lookup goes through all of them,
\* because the filling loops gave every bucket every backend.
THEOREM BalancerOnlyResponsiveBackends ==
  ASSUME AllPermutations(ChtHeight, BackendCapacity)
  PROVE  Spec => OnlyResponsiveBackends
<1> DEFINE Step == \A flow \in Keys, time \in Clock :
                     FlowPacket(flow, time) =>
                       /\ out' = "forward" => Responsive(sent'[flow], time)
                       /\ (\E b \in Backends : Responsive(b, time)) => out' = "forward"
<1>1. ASSUME Inv, NEW flow \in Keys, NEW time \in Clock, KnownFlow(flow, time)
      PROVE  out' = "forward" /\ Responsive(sent'[flow], time)
  <2>1. /\ flow \in Known(table) /\ Alive(Backend(flow), time) /\ out' = "forward"
        /\ sent' = [sent EXCEPT ![flow] = Backend(flow)]
    BY <1>1 DEF KnownFlow
  <2>2. Backend(flow) \in Backends
    BY <1>1, <2>1, BackendType
  <2>3. sent'[flow] = Backend(flow)
    BY <1>1, <2>1, InvFacts
  <2> QED
    BY <1>1, <2>1, <2>2, <2>3, AliveIsResponsive
<1>2. ASSUME Inv, NEW flow \in Keys, NEW time \in Clock, NewFlow(flow, time),
             AlivePlaces(flow, time) # {}
      PROVE  out' = "forward" /\ Responsive(sent'[flow], time)
  <2>1. out' = "forward" /\ sent' = [sent EXCEPT ![flow] = Chosen(flow, time)]
    BY <1>2 DEF NewFlow
  <2>2. Chosen(flow, time) \in Backends /\ Alive(Chosen(flow, time), time)
    BY <1>2, ChosenFacts
  <2>3. sent'[flow] = Chosen(flow, time)
    BY <1>2, <2>1, InvFacts
  <2> QED
    BY <1>2, <2>1, <2>2, <2>3, AliveIsResponsive
<1>3. ASSUME Inv, NEW flow \in Keys, NEW time \in Clock, NewFlow(flow, time),
             AlivePlaces(flow, time) = {}
      PROVE  out' # "forward" /\ \A b \in Backends : ~ Responsive(b, time)
  <2>1. out' = "drop"
    BY <1>3 DEF NewFlow
  <2>2. ASSUME NEW b \in Backends, Alive(b, time) PROVE FALSE
    <3>1. PICK p \in 1 .. BackendCapacity : RowOf(flow)[p] = b
      BY CandidatesAreBackends
    <3> QED
      BY <1>3, <2>2, <3>1 DEF AlivePlaces
  <2> QED
    BY <1>3, <2>1, <2>2, AliveIsResponsive
<1>4. Inv => Step
  BY <1>1, <1>2, <1>3 DEF FlowPacket
<1>5. Inv => [Step]_vars
  BY <1>4
<1> HIDE DEF Step
<1>6. Spec => [][Step]_vars
  BY <1>5, InvAlways, PTL
<1> QED
  BY <1>6 DEF OnlyResponsiveBackends, Step

\* So a prime height makes the balancer use all backends that are heard of.
THEOREM PrimeHeightsAreEnough ==
  ASSUME \A d \in 2 .. ChtHeight - 1 : ChtHeight % d # 0
  PROVE  Spec => OnlyResponsiveBackends
<1>1. ChtHeight \in Nat /\ ChtHeight >= 2
  BY BackendsAssumption, HeightAssumption
<1>2. ASSUME NEW b \in 0 .. BackendCapacity - 1
      PROVE  IsPermutation(ChtHeight, b)
  <2>1. b \in Nat
    BY BackendsAssumption
  <2> QED
    BY <1>1, <2>1, PrimeHeights
<1>3. AllPermutations(ChtHeight, BackendCapacity)
  BY <1>2 DEF AllPermutations
<1> QED
  BY <1>3, BalancerOnlyResponsiveBackends

=============================================================================
