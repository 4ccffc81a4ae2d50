------------------------------ MODULE MCBridge ------------------------------
(***************************************************************************)
(* Bridge with interchangeable stations.                                   *)
(***************************************************************************)
EXTENDS Bridge, TLC

\* A better root than 2, on paths of which the longer one wraps around to a
\* lower cost, and a worse root.
MCBpdus == {<<1, 0>>, <<1, 25>>, <<3, 0>>}

\* Stations are only compared with each other.
MCSymmetry == Permutations(Keys)

=============================================================================
