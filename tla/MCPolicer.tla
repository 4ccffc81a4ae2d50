----------------------------- MODULE MCPolicer ------------------------------
(***************************************************************************)
(* Policer for a rate that divides the burst, one that does not, one that  *)
(* the burst is below, and one that nf_init refuses.  For the two large    *)
(* bursts the product of nf_init wraps around, the first time to less than *)
(* a bucket takes to fill, and so may the sum of nf_handle.                *)
(***************************************************************************)
EXTENDS Policer, TLC

MCConfigs == { <<1, 2>>, <<2, 3>>, <<3, 2>>, <<2, 4>>, <<2, 7>>, <<0, 4>> }

MCSymmetry == Permutations(Keys)

=============================================================================
