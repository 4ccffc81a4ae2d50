----------------------------- MODULE MCBalancer -----------------------------
(***************************************************************************)
(* Balancer with two backends, a consistent hash table of height 3 and one *)
(* flow per bucket; the filling of the table is tried for all numbers of   *)
(* backends that the contract allows with a small height.                  *)
(***************************************************************************)
EXTENDS Balancer

CONSTANTS f1, f2, f3

MCFlows == {f1, f2, f3}
MCHash  == [f \in MCFlows |-> CASE f = f1 -> 0 [] f = f2 -> 4 [] f = f3 -> 2]

MCSizes == {s \in (2 .. 10) \X (1 .. 9) : s[2] < s[1]}

=============================================================================
