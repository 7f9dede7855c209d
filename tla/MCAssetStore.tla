---------------------------- MODULE MCAssetStore ----------------------------
(* Instances of AssetStore for TLC. *)
EXTENDS AssetStore, TLC

CONSTANTS a1, a2, o1, v1, m1, m2, m3, m4

TwoAdmins == {a1, a2}
OneOfferBlock == {o1}
OneVideoBlock == {v1}
FourAssets == {m1, m2, m3, m4}
AllFaults == {"db", "r2", "commit", "crash"}

(* Administrators are interchangeable, and so are opaque keys. *)
Symmetry == Permutations(Handlers) \union Permutations(Assets)
=============================================================================
