-------------------------- MODULE MCLandingBanners --------------------------
(* Instances of LandingBanners for TLC. *)
EXTENDS LandingBanners, TLC

CONSTANTS a1, a2, a3, b1, b2, b3, b4

ThreeAdmins == {a1, a2, a3}
FourBanners == {b1, b2, b3, b4}
AllFaults == {"db", "r2", "commit", "crash"}

(* Administrators are interchangeable, and so are banners. *)
Symmetry == Permutations(Handlers) \union Permutations(Banners)
=============================================================================
