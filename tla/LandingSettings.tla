---------------------------- MODULE LandingSettings ----------------------------
(****************************************************************************)
(* The rules for a landing's settings: where call-to-action buttons go, the *)
(* quantity offers and what they cost, colours and wording, and what a      *)
(* template keeps of them.  Pure definitions; Catalog uses them.            *)
(*                                                                          *)
(* A value that may be absent is a set of at most one element.  A validator *)
(* is the set of values it returns: empty when it raises.  Prices are in    *)
(* cents.  A text is "padded" (spaces around "text"), "blank", "long" (over *)
(* its maximum) or anything else; a colour is canonical unless it is        *)
(* "short" (#abc) or one of "blank" and "notHex".                           *)
(****************************************************************************)
EXTENDS Integers, Sequences, FiniteSets, SequencesExt

MaxOfferCount == 3
MaxDiscountPercent == 90
IntervalMax == 15
MaxBannersPerLanding == 15

(* A record that takes what f has, and the rest from g. *)
f ++ g ==
  [x \in DOMAIN f \union DOMAIN g |-> IF x \in DOMAIN f THEN f[x] ELSE g[x]]

Absent == {}
If(accepted, value) == IF accepted THEN {value} ELSE {}

Strip(text) == CASE text = "padded" -> "text"
                 [] OTHER -> text
Required(raw) == {Strip(t) : t \in raw \ {"blank", "long"}}
Optional(raw) ==
  IF raw \subseteq {"blank"} THEN {Absent} ELSE {{t} : t \in Required(raw)}

----------------------------------------------------------------------------
(* Where the buttons go.                                                    *)

Sorted(S) ==
  [i \in 1 .. Cardinality(S) |->
     CHOOSE x \in S : Cardinality({y \in S : y <= x}) = i]

(* The three fields written together; positions is a sequence as given. *)
ValidateCtaConfig(mode, interval, positions, bannerCount) ==
  CASE mode = "after_every" ->
         {[mode |-> mode, interval |-> Absent, positions |-> <<>>]}
    [] mode = "every_n" ->
         {[mode |-> mode, interval |-> {n}, positions |-> <<>>] :
            n \in interval \cap 1 .. IntervalMax}
    [] mode = "fixed_positions" ->
         LET unique == ToSet(positions)
         IN If(/\ positions # <<>>
               /\ IsInjective(positions)
               /\ \A p \in unique : p >= 1 /\ \A n \in bannerCount : p <= n,
               [mode |-> mode, interval |-> Absent,
                positions |-> Sorted(unique)])
    [] OTHER -> {}

(* The banners after which a button renders. *)
ComputeCtaPositions(config, bannerCount) ==
  LET banners == 1 .. bannerCount
  IN CASE config.mode = "after_every" -> banners
       [] config.mode = "every_n" ->
            {p \in banners : \A n \in config.interval : p % n = 0}
       [] OTHER -> ToSet(config.positions) \cap banners

----------------------------------------------------------------------------
(* The quantity offers.  A tier as given has optional fields.               *)

ValidateOfferCount(raw) == raw \cap 1 .. MaxOfferCount
ValidateDefaultOfferQuantity(raw, count) == raw \cap 1 .. count

DefaultOffer(q) ==
  [quantity |-> q, label |-> "default", sublabel |-> Absent,
   percent |-> 0, amount |-> Absent, compare |-> Absent]
DefaultOffers(count) == [q \in 1 .. count |-> DefaultOffer(q)]

ValidateQuantity(raw, maximum) == raw \cap 1 .. maximum

ValidateDiscountPercent(raw, q) ==
  IF raw = Absent THEN {0}
  ELSE {p \in raw \cap 0 .. MaxDiscountPercent : p = 0 \/ q >= 2}

ValidateDiscountAmount(raw, q) ==
  IF raw = Absent THEN {Absent}
  ELSE {{a} : a \in {x \in raw : q >= 2 /\ x > 0}}

ValidateCompareAtPrice(raw, q) ==
  IF raw = Absent THEN {Absent}
  ELSE {{c} : c \in {x \in raw : q = 1 /\ x > 0}}

ValidateOffer(raw, count) ==
  UNION {{[quantity |-> q, label |-> label, sublabel |-> sublabel,
           percent |-> percent, amount |-> amount, compare |-> compare] :
             label \in Required(raw.label),
             sublabel \in Optional(raw.sublabel),
             percent \in ValidateDiscountPercent(raw.percent, q),
             amount \in {a \in ValidateDiscountAmount(raw.amount, q) :
                           a = Absent \/ raw.percent \subseteq {0}},
             compare \in ValidateCompareAtPrice(raw.compare, q)} :
           q \in ValidateQuantity(raw.quantity, count)}

(* One tier for every quantity up to the count, in order. *)
ValidateOffers(raw, count) ==
  IF raw = <<>> THEN {DefaultOffers(count)}
  ELSE LET tiers == UNION {ValidateOffer(raw[i], count) : i \in DOMAIN raw}
       IN If(/\ Len(raw) = count
             /\ {tier.quantity : tier \in tiers} = 1 .. count,
             [q \in 1 .. count |-> CHOOSE tier \in tiers : tier.quantity = q])

SafeText(raw) ==
  UNION {IF t = "blank" THEN Absent
         ELSE IF t = "long" THEN {"cut"} ELSE {Strip(t)} : t \in raw}
SafeDiscount(raw, q) ==
  IF q < 2 \/ raw = Absent THEN 0
  ELSE CHOOSE p \in 0 .. MaxDiscountPercent :
         \E x \in raw : \/ p = x
                        \/ x > MaxDiscountPercent /\ p = MaxDiscountPercent
                        \/ x < 0 /\ p = 0
SafePrice(raw) == {x \in raw : x > 0}
SafeDiscountAmount(raw, q) == IF q < 2 THEN Absent ELSE SafePrice(raw)

(* What is kept of tiers that no longer fit: the last one of a quantity. *)
Salvage(raw, count) ==
  [q \in 1 .. count |->
     LET same == {i \in DOMAIN raw : raw[i].quantity = {q}}
     IN IF same = {} THEN DefaultOffer(q)
        ELSE LET stored == raw[CHOOSE i \in same : \A j \in same : j <= i]
                 kept == SafeText(stored.label)
             IN [quantity |-> q,
                 label |-> IF kept = Absent THEN "default"
                           ELSE CHOOSE t \in kept : TRUE,
                 sublabel |-> SafeText(stored.sublabel),
                 percent |-> SafeDiscount(stored.percent, q),
                 amount |-> SafeDiscountAmount(stored.amount, q),
                 compare |-> IF q = 1 THEN SafePrice(stored.compare)
                             ELSE Absent]]

ParseStoredOffers(raw, count) ==
  LET valid == ValidateOffers(raw, count)
  IN IF valid # {} THEN CHOOSE tiers \in valid : TRUE ELSE Salvage(raw, count)

(* A stored tier, read back: its fields are given again. *)
ToJson(tiers) ==
  [q \in DOMAIN tiers |->
     [quantity |-> {q}, label |-> {tiers[q].label},
      sublabel |-> tiers[q].sublabel, percent |-> {tiers[q].percent},
      amount |-> tiers[q].amount, compare |-> tiers[q].compare]]

(* x / y rounded half up. *)
HalfUp(x, y) == (2 * x + y) \div (2 * y)

(* What a tier costs: nothing when its fixed discount does not fit. *)
ResolveOfferPricing(unit, tier) ==
  LET gross == unit * tier.quantity
      Priced(percent, total) ==
        [percent |-> percent, gross |-> gross, total |-> total,
         savings |-> gross - total]
  IN IF tier.amount = Absent
     THEN {Priced(tier.percent,
                  HalfUp(gross * (100 - tier.percent), 100))}
     ELSE {Priced(HalfUp(100 * a, gross), gross - a) :
             a \in {x \in tier.amount :
                      /\ x < gross
                      /\ HalfUp(100 * x, gross) <= MaxDiscountPercent}}

Priceable(unit, tiers) ==
  \A q \in DOMAIN tiers : ResolveOfferPricing(unit, tiers[q]) # {}

FindOffer(tiers, q) == {tiers[i] : i \in {j \in DOMAIN tiers :
                                            tiers[j].quantity = q}}

----------------------------------------------------------------------------
(* Colours and wording.                                                     *)

BandStyles == {"gradient", "solid"}
FormPresentations == {"inline", "modal"}
Animations == {"slide", "shake"}
DefaultAccent == "green"

NormalizeAccentColor(raw) ==
  CASE raw \in {"blank", "notHex"} -> {}
    [] raw = "short" -> {"expanded"}
    [] OTHER -> {raw}

(* Both maps are from a button's position to a value. *)
ValidateCtaTextOverrides(raw) ==
  If(\A p \in DOMAIN raw : p >= 1 /\ raw[p] \notin {"blank", "long"},
     [p \in DOMAIN raw |-> Strip(raw[p])])

ValidateCtaColorModes(raw) ==
  If(\A p \in DOMAIN raw : p >= 1 /\ raw[p] \in {"default", "dark", "light"},
     [p \in {x \in DOMAIN raw : raw[x] # "default"} |-> raw[p]])

ResolveCtaText(p, overrides, default) ==
  IF p \in DOMAIN overrides THEN {overrides[p]} ELSE default
ResolveCtaColorMode(p, modes) ==
  IF p \in DOMAIN modes THEN modes[p] ELSE "default"

(* A landing nobody has edited. *)
NewSettings ==
  [mode |-> "after_every", interval |-> Absent, positions |-> <<>>,
   count |-> MaxOfferCount, default |-> 1, offers |-> <<>>,
   style |-> "gradient", form |-> "inline", accent |-> DefaultAccent,
   formAccent |-> Absent, blocksAccent |-> Absent, text |-> Absent,
   animation |-> Absent, overrides |-> <<>>, colors |-> <<>>,
   dark |-> FALSE]
SettingFields == DOMAIN NewSettings
CtaFields == {"mode", "interval", "positions"}
OfferFields == {"count", "offers"}
LookFields == SettingFields \ (CtaFields \union OfferFields \union {"default"})

(* "" clears a nullable field; a new text is kept as typed, blanks too. *)
Cleared(given, accepted) ==
  IF given = "" THEN {Absent} ELSE {{v} : v \in accepted}

ValidateLookField(field, given) ==
  CASE field = "style" -> {given} \cap BandStyles
    [] field = "form" -> {given} \cap FormPresentations
    [] field = "accent" -> NormalizeAccentColor(given)
    [] field \in {"formAccent", "blocksAccent"} ->
         Cleared(given, NormalizeAccentColor(given))
    [] field = "text" -> Cleared(given, {given} \ {"long"})
    [] field = "animation" -> Cleared(given, {given} \cap Animations)
    [] field = "overrides" -> ValidateCtaTextOverrides(given)
    [] field = "colors" -> ValidateCtaColorModes(given)
    [] OTHER -> {given}

----------------------------------------------------------------------------
(* Changing a landing's settings: given holds the fields of the request,    *)
(* the result the columns to write; one refused field refuses them all.     *)

Given(given, field, stored) ==
  IF field \in DOMAIN given THEN given[field] ELSE stored[field]
NoColumns == [f \in {} |-> 0]

LookColumns(given) ==
  LET fields == DOMAIN given \cap LookFields
      accepted == [f \in fields |-> ValidateLookField(f, given[f])]
  IN If(\A f \in fields : accepted[f] # {},
        [f \in fields |-> CHOOSE v \in accepted[f] : TRUE])

(* The three are written together, whichever was given. *)
CtaColumns(given, stored, bannerCount) ==
  IF DOMAIN given \cap CtaFields = {} THEN {NoColumns}
  ELSE ValidateCtaConfig(
         Given(given, "mode", stored),
         IF "interval" \in DOMAIN given THEN {given.interval}
         ELSE stored.interval,
         Given(given, "positions", stored),
         {bannerCount} \ {0})

(* Count and tiers are written together; tiers not given are refitted. *)
OfferColumns(given, stored, price) ==
  IF DOMAIN given \cap OfferFields = {} THEN {NoColumns}
  ELSE UNION {{[count |-> count, offers |-> ToJson(tiers)] :
                 tiers \in {fitted \in
                              IF "offers" \in DOMAIN given
                              THEN ValidateOffers(given.offers, count)
                              ELSE {ParseStoredOffers(stored.offers, count)} :
                            Priceable(price, fitted)}} :
              count \in ValidateOfferCount({Given(given, "count", stored)})}

(* Faulty variant: lowering the count leaves the default above it. *)
DefaultColumnsKept(given, stored, count) ==
  IF "default" \in DOMAIN given
  THEN {[default |-> q] :
          q \in ValidateDefaultOfferQuantity({given.default}, count)}
  ELSE {NoColumns}

(* A default above the count in force falls back to one unit. *)
DefaultColumns(given, stored, count) ==
  IF "default" \in DOMAIN given
  THEN {[default |-> q] :
          q \in ValidateDefaultOfferQuantity({given.default}, count)}
  ELSE {IF count < stored.default THEN [default |-> 1] ELSE NoColumns}

UpdateColumns(given, stored, bannerCount, price) ==
  UNION {{look ++ cta ++ offer ++ default :
            look \in LookColumns(given),
            cta \in CtaColumns(given, stored, bannerCount),
            default \in DefaultColumns(given, stored,
                                       Given(offer, "count", stored))} :
         offer \in OfferColumns(given, stored, price)}

----------------------------------------------------------------------------
(* What a template keeps of a landing, and what loading it gives.           *)

SnapshotConfig(landing) == Restrict(landing, SettingFields)

(* Loading reads an unset or blank text, colour or animation as unset. *)
Nullable(value, accepted) ==
  IF value \subseteq {"blank"} THEN {Absent} ELSE {{v} : v \in accepted}
(* Faulty variant: the optional colours are not restored. *)
NormalizeOptionalDropped(value) == {Absent}
NormalizeOptional(value) ==
  Nullable(value, UNION {NormalizeAccentColor(v) : v \in value})

ParseLook(config) ==
  {[style |-> style, form |-> form, accent |-> accent,
    formAccent |-> formAccent, blocksAccent |-> blocksAccent,
    text |-> text, animation |-> animation, overrides |-> overrides,
    colors |-> colors, dark |-> config.dark] :
     style \in {config.style} \cap BandStyles,
     form \in {config.form} \cap FormPresentations,
     accent \in NormalizeAccentColor(config.accent),
     formAccent \in NormalizeOptional(config.formAccent),
     blocksAccent \in NormalizeOptional(config.blocksAccent),
     text \in Nullable(config.text, config.text \ {"long"}),
     animation \in Nullable(config.animation,
                            config.animation \cap Animations),
     overrides \in ValidateCtaTextOverrides(config.overrides),
     colors \in ValidateCtaColorModes(config.colors)}

ParseTemplateConfig(config, bannerCount) ==
  UNION {{cta ++ look ++ [count |-> count, default |-> default,
                          offers |-> ToJson(tiers)] :
            cta \in ValidateCtaConfig(config.mode, config.interval,
                                      config.positions, {bannerCount} \ {0}),
            default \in ValidateDefaultOfferQuantity({config.default}, count),
            tiers \in ValidateOffers(config.offers, count),
            look \in ParseLook(config)} :
         count \in ValidateOfferCount({config.count})}
=============================================================================
