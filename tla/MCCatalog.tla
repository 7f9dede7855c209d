------------------------------ MODULE MCCatalog ------------------------------
(* Instances of Catalog for TLC. *)
EXTENDS Catalog

CONSTANTS a1, a2

OneAdmin == {a1}
TwoAdmins == {a1, a2}
OneProduct == {1}
TwoProducts == {1, 2}
DraftSlugs == [p \in {1, 2} |-> IF p = 1 THEN "draft-1" ELSE "draft-2"]
TheSlugs == {"draft-1", "draft-2", "shop"}

(* Administrators are interchangeable. *)
Symmetry == Permutations(Handlers)

(* A tier with a percentage or with a fixed discount in cents. *)
Tier(q, percent, amount) ==
  [quantity |-> {q}, label |-> {"padded"}, sublabel |-> {"blank"},
   percent |-> percent, amount |-> amount, compare |-> {}]

(* 75 cents off two units: 38 percent at 100 cents, too much at 40. *)
TheProductUpdates == {[price |-> 40], [sku |-> "sku1"]}
TheConfigUpdates ==
  {[mode |-> "fixed_positions", positions |-> <<2, 1>>],
   [mode |-> "every_n", interval |-> 2, count |-> 1],
   [count |-> 2, offers |-> <<Tier(2, {}, {75}), Tier(1, {}, {})>>],
   [default |-> 2, text |-> "blank", blocksAccent |-> "short",
    overrides |-> (1 :> "padded"), colors |-> (1 :> "dark" @@ 2 :> "default"),
    slug |-> "shop"],
   [positions |-> <<1, 1>>, mode |-> "fixed_positions"],
   [count |-> 2, offers |-> <<Tier(1, {}, {}), Tier(2, {10}, {75})>>]}
=============================================================================
