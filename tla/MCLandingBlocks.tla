-------------------------- MODULE MCLandingBlocks --------------------------
(* Instances of LandingBlocks for TLC. *)
EXTENDS LandingBlocks, TLC

CONSTANTS a1, a2, a3, k1, k2, k3, k4, n1, c1, c2

TwoAdmins == {a1, a2}
ThreeAdmins == {a1, a2, a3}
FourBlocks == {k1, k2, k3, k4}
OneName == {n1}
TwoConfigs == {c1, c2}

(* Administrators, blocks and settings are interchangeable. *)
Symmetry ==
  Permutations(Handlers) \union Permutations(Blocks) \union Permutations(Configs)
=============================================================================
