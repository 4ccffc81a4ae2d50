--------------------------------- MODULE Cht ---------------------------------
(***************************************************************************)
(* The consistent hash table of env/src/structs/cht.c, which gives each    *)
(* hash an order of preference over the backends: what cht_alloc writes,   *)
(* after each iteration of its filling loops, and the lookup.              *)
(***************************************************************************)
EXTENDS Integers, Sequences, SequencesExt

Buckets(height) == 0 .. height - 1

\* The bucket that backend b takes a place in at turn t.
Permutation(height, b, t) ==
  LET offset == (b * 31) % height
      shift  == (b % (height - 1)) + 1
  IN  (offset + shift * t) % height

\* Mutated form of Turns: the loops are nested the other way around, so that
\* backend 0 comes first everywhere.
Turns_BackendByBackend(height, capacity) ==
  [k \in 1 .. height * capacity |->
     [i |-> (k - 1) % height, j |-> (k - 1) \div height]]

\* The iterations of the filling loops, in their order: j within i.
Turns(height, capacity) ==
  [k \in 1 .. height * capacity |->
     [i |-> (k - 1) \div capacity, j |-> (k - 1) % capacity]]

\* An iteration: backend j goes to the next place of its bucket.  Nothing
\* checks that the bucket has one left, and what lies beyond the end of
\* cht->data is not modelled.
Fill(height, capacity, cht, turn) ==
  LET bucket_id == Permutation(height, turn.j, turn.i)
  IN  [next |-> [cht.next EXCEPT ![bucket_id] = @ + 1],
       data |-> [cht.data EXCEPT
                   ![capacity * bucket_id + cht.next[bucket_id]] = turn.j]]

\* cht->data of a new table, and how many places of each bucket were taken:
\* what is there after all iterations.
cht_alloc(height, capacity) ==
  LET after[n \in 0 .. height * capacity] ==
        IF n = 0
        THEN [next |-> [b \in Buckets(height) |-> 0],
              data |-> [k \in 0 .. height * capacity - 1 |-> 0]]
        ELSE Fill(height, capacity, after[n - 1], Turns(height, capacity)[n])
  IN  after[height * capacity]

\* The candidates cht_find_preferred_available_backend tries, in its order.
Row(data, height, capacity, hash) ==
  [p \in 1 .. capacity |-> data[(hash % height) * capacity + p - 1]]

-----------------------------------------------------------------------------
(* What the table should hold.                                             *)

\* Whether the permutation of a backend is one: its shift and the height have
\* no divisor in common.  A prime height is enough for it.
IsPermutation(height, b) ==
  \A d \in 2 .. height : ~ (height % d = 0 /\ ((b % (height - 1)) + 1) % d = 0)

\* The turn at which a backend takes a place in a bucket.
Turn(height, b, bucket) ==
  CHOOSE t \in Buckets(height) : Permutation(height, b, t) = bucket

\* Backends by turn, then by number.
Ranking(height, capacity, bucket) ==
  SetToSortSeq(0 .. capacity - 1,
               LAMBDA b, c :
                 \/ Turn(height, b, bucket) < Turn(height, c, bucket)
                 \/ Turn(height, b, bucket) = Turn(height, c, bucket) /\ b < c)

=============================================================================
