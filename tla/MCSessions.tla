----------------------------- MODULE MCSessions -----------------------------
(***************************************************************************)
(* Instance of Sessions for TLC: clocks that may differ by more than the   *)
(* allowance, and tokens that live longer than is allowed.                 *)
(***************************************************************************)
EXTENDS Sessions, TLC

MCLifetimes == {2, 6}
MCRightSets == {{}, {"Upload", "AllCompanies"}}
Symmetry == Permutations(Nodes)
=============================================================================
