---------------------------- MODULE Catalog_proofs ----------------------------
(****************************************************************************)
(* Proofs about Catalog: types and unique slugs and SKUs, retirement, the   *)
(* pages that open, and the templates that load as they were saved.         *)
(****************************************************************************)
EXTENDS Catalog, FiniteSetTheorems, SequenceTheorems, TLAPS

(* A stored value is one that its own validator returns.                    *)
GoodCta(s) ==
  \/ s.mode = "after_every" /\ s.interval = {} /\ s.positions = <<>>
  \/ /\ s.mode = "every_n" /\ s.positions = <<>>
     /\ \E n \in 1 .. IntervalMax : s.interval = {n}
  \/ /\ s.mode = "fixed_positions" /\ s.interval = {}
     /\ s.positions \in Seq(Nat \ {0}) /\ s.positions # <<>>
     /\ IsInjective(s.positions)

GoodText(text) == text \notin {"padded", "blank", "long"}
GoodTier(t) ==
  /\ t = [quantity |-> t.quantity, label |-> t.label, sublabel |-> t.sublabel,
          percent |-> t.percent, amount |-> t.amount, compare |-> t.compare]
  /\ GoodText(t.label)
  /\ t.sublabel # {} => \E x \in t.sublabel : t.sublabel = {x} /\ GoodText(x)
  /\ t.percent \in 0 .. MaxDiscountPercent
  /\ t.percent # 0 => t.quantity >= 2
  /\ t.amount # {} => /\ t.quantity >= 2 /\ t.percent = 0
                      /\ \E x \in t.amount : t.amount = {x} /\ x > 0
  /\ t.compare # {} => /\ t.quantity = 1
                       /\ \E x \in t.compare : t.compare = {x} /\ x > 0
GoodTiers(tiers, count) ==
  /\ tiers = [q \in 1 .. count |-> tiers[q]]
  /\ \A q \in 1 .. count : GoodTier(tiers[q]) /\ tiers[q].quantity = q
GoodOffers(s) ==
  /\ s.count \in 1 .. MaxOfferCount
  /\ s.offers # <<>> =>
       \E tiers \in ValidateOffers(s.offers, s.count) :
         GoodTiers(tiers, s.count) /\ s.offers = ToJson(tiers)

GoodColour(c) == c \notin {"short", "blank", "notHex"}
AtMostOne(value, Good(_)) == value # {} => \E x \in value : value = {x} /\ Good(x)
GoodLook(field, v) ==
  CASE field = "style" -> v \in BandStyles
    [] field = "form" -> v \in FormPresentations
    [] field = "accent" -> GoodColour(v)
    [] field \in {"formAccent", "blocksAccent"} -> AtMostOne(v, GoodColour)
    [] field = "text" -> AtMostOne(v, LAMBDA x : x # "long")
    [] field = "animation" -> AtMostOne(v, LAMBDA x : x \in Animations)
    [] field = "overrides" -> ValidateCtaTextOverrides(v) = {v}
    [] field = "colors" -> ValidateCtaColorModes(v) = {v}
    [] OTHER -> TRUE

(* Columns to write: of the fields that are validated together, all or none.*)
GoodColumns(c) ==
  /\ DOMAIN c \subseteq LandingColumns
  /\ DOMAIN c \cap CtaFields # {} => CtaFields \subseteq DOMAIN c /\ GoodCta(c)
  /\ DOMAIN c \cap OfferFields # {} => OfferFields \subseteq DOMAIN c /\ GoodOffers(c)
  /\ "default" \in DOMAIN c => c.default \in 1 .. MaxOfferCount
  /\ "slug" \in DOMAIN c => c.slug \in Slugs
  /\ "status" \in DOMAIN c => c.status \in {"draft", "published"}
  /\ \A f \in LookFields \cap DOMAIN c : GoodLook(f, c[f])
GoodSettings(s) == DOMAIN s = SettingFields /\ GoodColumns(s)
GoodRow(r) == DOMAIN r = LandingColumns /\ GoodColumns(r)

(* What a request that has begun carries.                                   *)
Editing(h) ==
  /\ job[h].op \in ProductOperations
  /\ {"op", "p", "columns", "seen"} \subseteq DOMAIN job[h]
  /\ job[h].p \in Stored
  /\ job[h].seen # "retired"
  /\ DOMAIN job[h].columns \subseteq {"sku", "price", "status"}
  /\ "sku" \in DOMAIN job[h].columns => job[h].columns.sku \in Skus
  /\ "price" \in DOMAIN job[h].columns => job[h].columns.price \in Prices
  /\ "status" \in DOMAIN job[h].columns =>
       job[h].columns.status \in {"active", "paused", "retired"}
OnLanding(h) ==
  /\ job[h].op \in {"config", "publish", "save", "load"}
  /\ {"op", "p", "row"} \subseteq DOMAIN job[h]
  /\ job[h].p \in Stored
  /\ GoodRow(job[h].row)
Checking(h) ==
  /\ OnLanding(h)
  /\ job[h].op = "config" => /\ {"given", "count"} \subseteq DOMAIN job[h]
                             /\ job[h].given \in ConfigUpdates
ReadingSteps == {"slug", "banners", "check"}

(* The count and the default that a request leaves fit each other, if those *)
(* it has read are still in force; a price that it has read fits its tiers. *)
Fitting(h) ==
  LET left == job[h].columns ++ job[h].row
  IN /\ left.default <= left.count
     /\ job[h].op = "config" /\ "offers" \in DOMAIN job[h].columns =>
          Priceable(job[h].price, ParseStoredOffers(left.offers, left.count))
Writing(h) ==
  /\ OnLanding(h)
  /\ job[h].op # "save"
  /\ "columns" \in DOMAIN job[h] /\ GoodColumns(job[h].columns)
  /\ job[h].op = "publish" => job[h].columns = [status |-> "published"]
  /\ job[h].op = "load" => DOMAIN job[h].columns = SettingFields
  /\ job[h].op \in {"config", "load"} => Fitting(h)
Instantiating(h) ==
  /\ job[h].op = "instantiate"
  /\ GoodSettings(job[h].columns)
  /\ job[h].columns.default <= job[h].columns.count
  /\ job[h].sku \in Skus /\ job[h].slug \in Slugs /\ job[h].price \in Prices
  /\ job[h].banners \in 0 .. MaxBanners
Request(h) ==
  CASE pc[h] = "idle" -> job[h] = NoJob
    [] pc[h] \in ReadingSteps -> Checking(h)
    [] pc[h] = "write" -> Editing(h) \/ Writing(h)
    [] pc[h] = "stamp" -> job[h].op = "retire" /\ job[h].p \in Stored
    [] OTHER -> pc[h] = "persist" /\ Instantiating(h)

Requests ==
  /\ DOMAIN pc = Handlers /\ DOMAIN job = Handlers
  /\ \A h \in Handlers : Request(h)
Settings ==
  /\ \A p \in Stored : GoodRow(landings[p])
  /\ \A t \in template : GoodSettings(t.config) /\ t.banners \in 0 .. MaxBanners
Priced == \A p \in Stored \ unchecked : Priceable(products[p].price, Tiers(p))
(* Until a landing is contested, an edit of it has read what is in force.   *)
Uncontested ==
  \A p \in Stored \ contested :
    /\ landings[p].default <= landings[p].count
    /\ \A h \in Handlers :
         job[h].op \in {"config", "load"} /\ job[h].p = p =>
           /\ job[h].row.count = landings[p].count
           /\ job[h].row.default = landings[p].default

IInv == TypeOK /\ Requests /\ Settings /\ Priced /\ Uncontested

----------------------------------------------------------------------------
(* Lemmas about records and sequences.                                      *)

(* The fields of one record over another's.                                 *)
LEMMA OverFacts ==
  ASSUME NEW f, NEW g
  PROVE  /\ DOMAIN (f ++ g) = DOMAIN f \union DOMAIN g
         /\ \A x \in DOMAIN f : (f ++ g)[x] = f[x]
         /\ \A x \in DOMAIN g \ DOMAIN f : (f ++ g)[x] = g[x]
BY DEF ++

(* A sorted set is a function of the ranks.                                 *)
LEMMA IndexedByRank ==
  ASSUME NEW S
  PROVE  Sorted(S) = [i \in 1 .. Cardinality(S) |-> Sorted(S)[i]]
<1> DEFINE Ranked(i) == CHOOSE x \in S : Cardinality({y \in S : y <= x}) = i
<1>1. Sorted(S) = [i \in 1 .. Cardinality(S) |-> Ranked(i)]
  BY DEF Sorted
<1> HIDE DEF Ranked
<1> QED
  BY <1>1

(* A finite set of integers, sorted, has each element once.                 *)
LEMMA SortedFacts ==
  ASSUME NEW S \in SUBSET Int, IsFiniteSet(S)
  PROVE  /\ Sorted(S) \in Seq(S)
         /\ IsInjective(Sorted(S))
         /\ ToSet(Sorted(S)) = S
         /\ Sorted(S) = <<>> => S = {}
<1> DEFINE n == Cardinality(S)
           UpTo(x) == {y \in S : y <= x}
           r == [x \in S |-> Cardinality(UpTo(x))]
           At(i) == CHOOSE x \in S : Cardinality({y \in S : y <= x}) = i
<1>1. n \in Nat
  BY FS_CardinalityType
<1>2. ASSUME NEW x \in S
      PROVE  /\ IsFiniteSet(UpTo(x)) /\ Cardinality(UpTo(x)) \in Nat
             /\ Cardinality(UpTo(x)) <= n /\ Cardinality(UpTo(x)) # 0
  <2>1. UpTo(x) \in SUBSET S /\ x \in UpTo(x)
    OBVIOUS
  <2> HIDE DEF UpTo
  <2>2. IsFiniteSet(UpTo(x)) /\ Cardinality(UpTo(x)) <= Cardinality(S)
    BY <2>1, FS_Subset
  <2>3. Cardinality(UpTo(x)) \in Nat
    BY <2>2, FS_CardinalityType
  <2>4. Cardinality(UpTo(x)) # 0
    BY <2>1, <2>2, FS_EmptySet
  <2> QED
    BY <2>2, <2>3, <2>4
<1>3. ASSUME NEW x \in S, NEW y \in S, x < y
      PROVE  Cardinality(UpTo(x)) < Cardinality(UpTo(y))
  <2>0. x \in Int /\ y \in Int /\ \A z \in S : z \in Int
    OBVIOUS
  <2>1. /\ \A z \in S : z <= x => z <= y
        /\ y <= y /\ ~(y <= x)
    BY <1>3, <2>0
  <2>2. UpTo(x) \in SUBSET UpTo(y) /\ y \in UpTo(y) /\ y \notin UpTo(x)
    BY <2>1
  <2> HIDE DEF UpTo
  <2>3. /\ Cardinality(UpTo(x)) <= Cardinality(UpTo(y))
        /\ Cardinality(UpTo(y)) # Cardinality(UpTo(x))
    BY <1>2, <2>2, FS_Subset
  <2> QED
    BY <1>2, <2>3
<1>4. r \in [S -> 1 .. n]
  <2> SUFFICES ASSUME NEW x \in S PROVE Cardinality(UpTo(x)) \in 1 .. n
    OBVIOUS
  <2> HIDE DEF UpTo, n
  <2> QED
    BY <1>1, <1>2
<1>5. \A x, y \in S : r[x] = r[y] => x = y
  <2> SUFFICES ASSUME NEW x \in S, NEW y \in S, r[x] = r[y], x # y PROVE FALSE
    OBVIOUS
  <2>1. x < y \/ y < x
    OBVIOUS
  <2> HIDE DEF UpTo
  <2>2. r[x] = Cardinality(UpTo(x)) /\ r[y] = Cardinality(UpTo(y))
    OBVIOUS
  <2>3. r[x] \in Int /\ r[y] \in Int
    BY <1>2, <2>2
  <2> HIDE DEF r
  <2>4. r[x] < r[y] \/ r[y] < r[x]
    BY <1>3, <2>1, <2>2
  <2> QED
    BY <2>3, <2>4
<1>6. IsFiniteSet(1 .. n) /\ Cardinality(1 .. n) = n
  <2> HIDE DEF n
  <2> QED
    BY <1>1, FS_Interval
<1>7. r \in Surjection(S, 1 .. n)
  <2>1. r \in Injection(S, 1 .. n)
    <3> HIDE DEF r
    <3> QED
      BY <1>4, <1>5 DEF Injection, IsInjective
  <2> HIDE DEF r
  <2> QED
    BY <1>6, <2>1, FS_Injection
<1>8. ASSUME NEW i \in 1 .. n
      PROVE  At(i) \in S /\ r[At(i)] = i
  <2>1. \E x \in S : r[x] = i
    <3> HIDE DEF r
    <3> QED
      BY <1>7 DEF Surjection
  <2>2. \E x \in S : Cardinality({y \in S : y <= x}) = i
    BY <2>1
  <2>3. At(i) \in S /\ Cardinality({y \in S : y <= At(i)}) = i
    BY <2>2
  <2> HIDE DEF At
  <2> QED
    BY <2>3
<1>9. /\ DOMAIN Sorted(S) = 1 .. n
      /\ \A i \in 1 .. n : Sorted(S)[i] = At(i)
  BY DEF Sorted
<1>10. \A x \in S : x = At(r[x])
  <2> HIDE DEF r, At
  <2> QED
    BY <1>4, <1>5, <1>8
<1>11. Sorted(S) \in [1 .. n -> S]
  <2> HIDE DEF At
  <2>1. Sorted(S) = [i \in 1 .. n |-> Sorted(S)[i]]
    BY IndexedByRank
  <2> QED
    BY <1>8, <1>9, <2>1
<1> HIDE DEF At, r, n
<1>12. Sorted(S) \in Seq(S)
  BY <1>1, <1>11
<1>13. IsInjective(Sorted(S))
  BY <1>8, <1>9 DEF IsInjective
<1>14. ToSet(Sorted(S)) = S
  <2>1. ASSUME NEW x \in S PROVE \E i \in DOMAIN Sorted(S) : Sorted(S)[i] = x
    <3>1. r[x] \in 1 .. n /\ x = At(r[x])
      BY <1>4, <1>10
    <3> QED
      BY <1>9, <3>1
  <2>2. \A i \in DOMAIN Sorted(S) : Sorted(S)[i] \in S
    BY <1>8, <1>9
  <2> QED
    BY <2>1, <2>2 DEF ToSet
<1>15. Sorted(S) = <<>> => S = {}
  BY <1>14 DEF ToSet
<1> QED
  BY <1>12, <1>13, <1>14, <1>15

(* The elements of a sequence are finitely many.                            *)
LEMMA ToSetFacts ==
  ASSUME NEW T, NEW s \in Seq(T)
  PROVE  /\ ToSet(s) \subseteq T /\ IsFiniteSet(ToSet(s))
         /\ s # <<>> <=> ToSet(s) # {}
<1>1. Len(s) \in Nat /\ DOMAIN s = 1 .. Len(s)
  OBVIOUS
<1>2. s \in Surjection(1 .. Len(s), ToSet(s))
  <2>1. s \in [1 .. Len(s) -> ToSet(s)]
    BY <1>1 DEF ToSet
  <2> QED
    BY <1>1, <2>1 DEF Surjection, ToSet
<1>3. IsFiniteSet(ToSet(s))
  BY <1>1, <1>2, FS_Interval, FS_Surjection
<1>4. ToSet(s) \subseteq T
  BY DEF ToSet
<1>5. s # <<>> <=> ToSet(s) # {}
  <2>1. s # <<>> <=> Len(s) # 0
    OBVIOUS
  <2>2. ToSet(s) # {} <=> Len(s) # 0
    BY <1>1 DEF ToSet
  <2> QED
    BY <2>1, <2>2
<1> QED
  BY <1>3, <1>4, <1>5

(* Where the buttons go: what is validated is well formed, and what is well *)
(* formed is validated again, unless a position is past the banners.        *)
LEMMA CtaValidated ==
  ASSUME NEW mode, NEW interval, NEW positions \in Seq(Int), NEW B,
         NEW cta \in ValidateCtaConfig(mode, interval, positions, B)
  PROVE  DOMAIN cta = CtaFields /\ GoodCta(cta)
<1>1. CASE mode = "after_every"
  BY <1>1 DEF ValidateCtaConfig, GoodCta, CtaFields, Absent
<1>2. CASE mode = "every_n"
  BY <1>2 DEF ValidateCtaConfig, GoodCta, CtaFields
<1>3. CASE mode = "fixed_positions"
  <2> DEFINE S == ToSet(positions)
  <2>1. /\ positions # <<>>
        /\ \A p \in S : p >= 1
        /\ cta = [mode |-> mode, interval |-> {}, positions |-> Sorted(S)]
    BY <1>3 DEF ValidateCtaConfig, If, Absent
  <2>2. S \in SUBSET Int /\ IsFiniteSet(S) /\ S # {}
    BY <2>1, ToSetFacts
  <2> HIDE DEF S
  <2>3. S \subseteq Nat \ {0}
    BY <2>1, <2>2
  <2>4. /\ Sorted(S) \in Seq(S) /\ IsInjective(Sorted(S)) /\ Sorted(S) # <<>>
    BY <2>2, SortedFacts
  <2>5. Sorted(S) \in Seq(Nat \ {0})
    BY <2>3, <2>4, SeqMonotonic
  <2> QED
    BY <1>3, <2>1, <2>4, <2>5 DEF GoodCta, CtaFields
<1>4. CASE mode \notin {"after_every", "every_n", "fixed_positions"}
  BY <1>4 DEF ValidateCtaConfig
<1> QED
  BY <1>1, <1>2, <1>3, <1>4

LEMMA CtaAgain ==
  ASSUME NEW s, GoodCta(s), NEW B \in SUBSET Int
  PROVE  /\ \A cta \in ValidateCtaConfig(s.mode, s.interval, s.positions, B) :
              /\ cta.mode = s.mode /\ cta.interval = s.interval
              /\ ToSet(cta.positions) = ToSet(s.positions)
              /\ s.mode # "fixed_positions" => cta.positions = s.positions
         /\ \/ ValidateCtaConfig(s.mode, s.interval, s.positions, B) # {}
            \/ \E i \in DOMAIN s.positions, n \in B : s.positions[i] > n
<1> DEFINE V == ValidateCtaConfig(s.mode, s.interval, s.positions, B)
<1>1. CASE s.mode = "after_every"
  <2>1. V = {[mode |-> s.mode, interval |-> s.interval, positions |-> s.positions]}
    BY <1>1 DEF ValidateCtaConfig, GoodCta, Absent
  <2>4. ASSUME NEW cta \in V
        PROVE  cta = [mode |-> s.mode, interval |-> s.interval, positions |-> s.positions]
    BY <2>1
  <2>5. V # {}
    BY <2>1
  <2> QED
    BY <2>4, <2>5
<1>2. CASE s.mode = "every_n"
  <2>1. PICK n \in 1 .. IntervalMax : s.interval = {n}
    BY <1>2 DEF GoodCta
  <2>2. s.positions = <<>>
    BY <1>2 DEF GoodCta
  <2>3. V = {[mode |-> s.mode, interval |-> s.interval, positions |-> s.positions]}
    BY <1>2, <2>1, <2>2 DEF ValidateCtaConfig
  <2>4. ASSUME NEW cta \in V
        PROVE  cta = [mode |-> s.mode, interval |-> s.interval, positions |-> s.positions]
    BY <2>3
  <2>5. V # {}
    BY <2>3
  <2> QED
    BY <2>4, <2>5
<1>3. CASE s.mode = "fixed_positions"
  <2>1. /\ s.interval = {} /\ s.positions \in Seq(Nat \ {0}) /\ s.positions # <<>>
        /\ IsInjective(s.positions)
    BY <1>3 DEF GoodCta
  <2> DEFINE S == ToSet(s.positions)
             fits == \A p \in S : p >= 1 /\ \A n \in B : p <= n
  <2>2. S \subseteq Nat \ {0} /\ IsFiniteSet(S)
    BY <2>1, ToSetFacts
  <2>3. V = IF fits THEN {[mode |-> s.mode, interval |-> {}, positions |-> Sorted(S)]}
            ELSE {}
    BY <1>3, <2>1 DEF ValidateCtaConfig, If, Absent
  <2>4. ToSet(Sorted(S)) = S
    <3> HIDE DEF S
    <3>1. S \in SUBSET Int
      BY <2>2
    <3> QED
      BY <2>2, <3>1, SortedFacts
  <2>5. fits \/ \E i \in DOMAIN s.positions, n \in B : s.positions[i] > n
    <3> SUFFICES ASSUME ~fits
                 PROVE  \E i \in DOMAIN s.positions, n \in B : s.positions[i] > n
      OBVIOUS
    <3>1. PICK p \in S, n \in B : p > n
      BY <2>2
    <3>2. PICK i \in DOMAIN s.positions : p = s.positions[i]
      BY DEF ToSet
    <3> QED
      BY <3>1, <3>2
  <2> HIDE DEF S, fits
  <2>6. fits \/ V = {}
    BY <2>3
  <2>7. \A cta \in V : /\ cta.mode = s.mode /\ cta.interval = {}
                       /\ cta.positions = Sorted(S)
    BY <1>3, <2>3
  <2> QED
    BY <1>3, <2>1, <2>3, <2>4, <2>5, <2>7 DEF S
<1>4. s.mode \in {"after_every", "every_n", "fixed_positions"}
  BY DEF GoodCta
<1> QED
  BY <1>1, <1>2, <1>3, <1>4

(* The quantity offers: a validated tier is well formed, and a well-formed  *)
(* tier is validated to itself when it is read back.                        *)
Stored1(t) ==
  [quantity |-> {t.quantity}, label |-> {t.label}, sublabel |-> t.sublabel,
   percent |-> {t.percent}, amount |-> t.amount, compare |-> t.compare]

LEMMA StripFacts ==
  /\ \A t : t \notin {"blank", "long"} => GoodText(Strip(t))
  /\ \A t : GoodText(t) => Strip(t) = t
  /\ \A t : GoodText(t) => Required({t}) = {t}
<1>1. \A t : t \notin {"blank", "long"} => GoodText(Strip(t))
  BY DEF GoodText, Strip
<1>2. \A t : GoodText(t) => Strip(t) = t
  BY DEF GoodText, Strip
<1>3. ASSUME NEW t, GoodText(t) PROVE Required({t}) = {t}
  <2>1. {t} \ {"blank", "long"} = {t}
    BY <1>3 DEF GoodText
  <2> QED
    BY <1>2, <1>3, <2>1 DEF Required
<1> QED
  BY <1>1, <1>2, <1>3

LEMMA TierValidated ==
  ASSUME NEW raw, NEW count, NEW t \in ValidateOffer(raw, count)
  PROVE  GoodTier(t) /\ t.quantity \in 1 .. count
<1>1. PICK q \in ValidateQuantity(raw.quantity, count) :
        t \in {[quantity |-> q, label |-> label, sublabel |-> sublabel,
                percent |-> percent, amount |-> amount, compare |-> compare] :
                  label \in Required(raw.label),
                  sublabel \in Optional(raw.sublabel),
                  percent \in ValidateDiscountPercent(raw.percent, q),
                  amount \in {a \in ValidateDiscountAmount(raw.amount, q) :
                                a = Absent \/ raw.percent \subseteq {0}},
                  compare \in ValidateCompareAtPrice(raw.compare, q)}
  BY DEF ValidateOffer
<1>2. PICK label \in Required(raw.label), sublabel \in Optional(raw.sublabel),
           percent \in ValidateDiscountPercent(raw.percent, q),
           amount \in ValidateDiscountAmount(raw.amount, q),
           compare \in ValidateCompareAtPrice(raw.compare, q) :
        /\ amount = Absent \/ raw.percent \subseteq {0}
        /\ t = [quantity |-> q, label |-> label, sublabel |-> sublabel,
                percent |-> percent, amount |-> amount, compare |-> compare]
  BY <1>1
<1>3. q \in 1 .. count
  BY DEF ValidateQuantity
<1>4. \A x \in raw.label \ {"blank", "long"} : GoodText(Strip(x))
  BY StripFacts
<1>5. GoodText(label)
  BY <1>4 DEF Required
<1>6. sublabel # {} => \E x \in sublabel : sublabel = {x} /\ GoodText(x)
  BY StripFacts DEF Optional, Required, Absent
<1>7. /\ percent \in 0 .. MaxDiscountPercent
      /\ percent # 0 => q >= 2
  BY DEF ValidateDiscountPercent, MaxDiscountPercent
<1>8. amount # {} => /\ q >= 2 /\ percent = 0
                     /\ \E x \in amount : amount = {x} /\ x > 0
  <2>1. ASSUME amount # {}
        PROVE  q >= 2 /\ \E x \in amount : amount = {x} /\ x > 0
    BY <2>1 DEF ValidateDiscountAmount, Absent
  <2>2. ASSUME amount # {}
        PROVE  percent = 0
    BY <1>2, <2>2 DEF ValidateDiscountPercent, Absent
  <2> QED
    BY <2>1, <2>2
<1>9. compare # {} => /\ q = 1
                      /\ \E x \in compare : compare = {x} /\ x > 0
  BY DEF ValidateCompareAtPrice, Absent
<1>10. /\ t.quantity = q /\ t.label = label /\ t.sublabel = sublabel
       /\ t.percent = percent /\ t.amount = amount /\ t.compare = compare
  BY <1>2
<1>11. t = [quantity |-> t.quantity, label |-> t.label, sublabel |-> t.sublabel,
            percent |-> t.percent, amount |-> t.amount, compare |-> t.compare]
  BY <1>2, <1>10
<1> QED
  BY <1>3, <1>5, <1>6, <1>7, <1>8, <1>9, <1>10, <1>11 DEF GoodTier

LEMMA TierAgain ==
  ASSUME NEW t, GoodTier(t), NEW count, t.quantity \in 1 .. count
  PROVE  ValidateOffer(Stored1(t), count) = {t}
<1> DEFINE raw == Stored1(t)
           q == t.quantity
<1>1. /\ raw.quantity = {q} /\ raw.label = {t.label} /\ raw.sublabel = t.sublabel
      /\ raw.percent = {t.percent} /\ raw.amount = t.amount
      /\ raw.compare = t.compare
  BY DEF Stored1
<1> HIDE DEF raw
<1>2. ValidateQuantity(raw.quantity, count) = {q}
  BY <1>1 DEF ValidateQuantity
<1>3. Required(raw.label) = {t.label}
  BY <1>1, StripFacts DEF GoodTier
<1>4. Optional(raw.sublabel) = {t.sublabel}
  <2>1. CASE t.sublabel = {}
    BY <1>1, <2>1 DEF Optional, Absent
  <2>2. CASE t.sublabel # {}
    <3>1. PICK x \in t.sublabel : t.sublabel = {x} /\ GoodText(x)
      BY <2>2 DEF GoodTier
    <3>2. Required(raw.sublabel) = {x}
      BY <1>1, <3>1, StripFacts
    <3>3. ~(raw.sublabel \subseteq {"blank"})
      BY <1>1, <3>1 DEF GoodText
    <3> QED
      BY <3>1, <3>2, <3>3 DEF Optional
  <2> QED
    BY <2>1, <2>2
<1>5. ValidateDiscountPercent(raw.percent, q) = {t.percent}
  BY <1>1 DEF ValidateDiscountPercent, GoodTier, Absent
<1>6. {a \in ValidateDiscountAmount(raw.amount, q) :
         a = Absent \/ raw.percent \subseteq {0}} = {t.amount}
  <2>1. CASE t.amount = {}
    BY <1>1, <2>1 DEF ValidateDiscountAmount, Absent
  <2>2. CASE t.amount # {}
    <3>1. /\ q >= 2 /\ t.percent = 0
          /\ \E x \in t.amount : t.amount = {x} /\ x > 0
      BY <2>2 DEF GoodTier
    <3>2. PICK x \in t.amount : t.amount = {x} /\ x > 0
      BY <3>1
    <3>3. {y \in t.amount : q >= 2 /\ y > 0} = {x}
      BY <3>1, <3>2
    <3>4. ValidateDiscountAmount(raw.amount, q) = {{x}}
      BY <1>1, <2>2, <3>3 DEF ValidateDiscountAmount, Absent
    <3> QED
      BY <1>1, <3>1, <3>2, <3>4
  <2> QED
    BY <2>1, <2>2
<1>7. ValidateCompareAtPrice(raw.compare, q) = {t.compare}
  <2>1. CASE t.compare = {}
    BY <1>1, <2>1 DEF ValidateCompareAtPrice, Absent
  <2>2. CASE t.compare # {}
    <3>1. /\ q = 1
          /\ \E x \in t.compare : t.compare = {x} /\ x > 0
      BY <2>2 DEF GoodTier
    <3>2. PICK x \in t.compare : t.compare = {x} /\ x > 0
      BY <3>1
    <3>3. {y \in t.compare : q = 1 /\ y > 0} = {x}
      BY <3>1, <3>2
    <3> QED
      BY <1>1, <2>2, <3>2, <3>3 DEF ValidateCompareAtPrice, Absent
  <2> QED
    BY <2>1, <2>2
<1>8. t = [quantity |-> q, label |-> t.label, sublabel |-> t.sublabel,
           percent |-> t.percent, amount |-> t.amount, compare |-> t.compare]
  BY DEF GoodTier
<1> DEFINE Tiers1(n) ==
             {[quantity |-> n, label |-> label, sublabel |-> sublabel,
               percent |-> percent, amount |-> amount, compare |-> compare] :
                label \in Required(raw.label),
                sublabel \in Optional(raw.sublabel),
                percent \in ValidateDiscountPercent(raw.percent, n),
                amount \in {a \in ValidateDiscountAmount(raw.amount, n) :
                              a = Absent \/ raw.percent \subseteq {0}},
                compare \in ValidateCompareAtPrice(raw.compare, n)}
<1>9. ValidateOffer(raw, count) = UNION {Tiers1(n) : n \in {q}}
  BY <1>2 DEF ValidateOffer
<1> HIDE DEF q
<1>10. Tiers1(q) =
         {[quantity |-> q, label |-> label, sublabel |-> sublabel,
           percent |-> percent, amount |-> amount, compare |-> compare] :
            label \in {t.label}, sublabel \in {t.sublabel}, percent \in {t.percent},
            amount \in {t.amount}, compare \in {t.compare}}
  BY <1>3, <1>4, <1>5, <1>6, <1>7
<1>11. Tiers1(q) = {t}
  <2> HIDE DEF Tiers1
  <2> QED
    BY <1>8, <1>10
<1> HIDE DEF Tiers1
<1>12. ValidateOffer(raw, count) = {t}
  BY <1>9, <1>11
<1> QED
  BY <1>12 DEF raw

(* The tiers of a landing.                                                  *)
LEMMA OffersValidated ==
  ASSUME NEW raw, NEW count \in 1 .. MaxOfferCount,
         NEW tiers \in ValidateOffers(raw, count)
  PROVE  GoodTiers(tiers, count)
<1>1. CASE raw = <<>>
  <2>1. tiers = DefaultOffers(count)
    BY <1>1 DEF ValidateOffers
  <2>2. \A q \in 1 .. count : tiers[q] = DefaultOffer(q)
    BY <2>1 DEF DefaultOffers
  <2>3. \A q \in 1 .. count : GoodTier(DefaultOffer(q)) /\ DefaultOffer(q).quantity = q
    BY DEF DefaultOffer, GoodTier, GoodText, Absent, MaxDiscountPercent
  <2>4. tiers = [q \in 1 .. count |-> tiers[q]]
    BY <2>1 DEF DefaultOffers
  <2> QED
    BY <2>2, <2>3, <2>4 DEF GoodTiers
<1>2. CASE raw # <<>>
  <2> DEFINE T == UNION {ValidateOffer(raw[i], count) : i \in DOMAIN raw}
             Pick(q) == CHOOSE tier \in T : tier.quantity = q
  <2>1. /\ {tier.quantity : tier \in T} = 1 .. count
        /\ tiers = [q \in 1 .. count |-> Pick(q)]
    BY <1>2 DEF ValidateOffers, If
  <2>2. \A tier \in T : GoodTier(tier)
    BY TierValidated
  <2> HIDE DEF T
  <2>3. ASSUME NEW q \in 1 .. count
        PROVE  Pick(q) \in T /\ Pick(q).quantity = q
    <3>1. \E tier \in T : tier.quantity = q
      BY <2>1
    <3> QED
      BY <3>1
  <2> HIDE DEF Pick
  <2>4. /\ \A q \in 1 .. count : tiers[q] = Pick(q)
        /\ tiers = [q \in 1 .. count |-> tiers[q]]
    BY <2>1
  <2> QED
    BY <2>2, <2>3, <2>4 DEF GoodTiers
<1> QED
  BY <1>1, <1>2

LEMMA ToJsonFacts ==
  ASSUME NEW tiers, NEW count \in 1 .. MaxOfferCount, GoodTiers(tiers, count)
  PROVE  /\ DOMAIN tiers = 1 .. count
         /\ DOMAIN ToJson(tiers) = 1 .. count
         /\ Len(ToJson(tiers)) = count /\ ToJson(tiers) # <<>>
         /\ \A q \in 1 .. count : ToJson(tiers)[q] = Stored1(tiers[q])
<1>1. DOMAIN tiers = 1 .. count /\ \A q \in 1 .. count : tiers[q].quantity = q
  BY DEF GoodTiers
<1>2. /\ DOMAIN ToJson(tiers) = 1 .. count
      /\ \A q \in 1 .. count : ToJson(tiers)[q] = Stored1(tiers[q])
  BY <1>1 DEF ToJson, Stored1
<1>3. ToJson(tiers) = [q \in 1 .. count |-> ToJson(tiers)[q]]
  BY <1>1 DEF ToJson
<1>4. ToJson(tiers) \in Seq({Stored1(tiers[q]) : q \in 1 .. count})
  BY <1>2, <1>3, IsASeq DEF MaxOfferCount
<1> QED
  BY <1>1, <1>2, <1>4 DEF MaxOfferCount

LEMMA OffersAgain ==
  ASSUME NEW tiers, NEW count \in 1 .. MaxOfferCount, GoodTiers(tiers, count)
  PROVE  ValidateOffers(ToJson(tiers), count) = {tiers}
<1> DEFINE raw == ToJson(tiers)
           T == UNION {ValidateOffer(raw[i], count) : i \in DOMAIN raw}
<1>1. /\ DOMAIN raw = 1 .. count /\ Len(raw) = count /\ raw # <<>>
      /\ \A q \in 1 .. count : raw[q] = Stored1(tiers[q])
  BY ToJsonFacts
<1>2. \A q \in 1 .. count : GoodTier(tiers[q]) /\ tiers[q].quantity = q
  BY DEF GoodTiers
<1>3. \A q \in 1 .. count : ValidateOffer(raw[q], count) = {tiers[q]}
  BY <1>1, <1>2, TierAgain
<1> HIDE DEF raw
<1>4. T = {tiers[q] : q \in 1 .. count}
  BY <1>1, <1>3
<1> HIDE DEF T
<1>5. {tier.quantity : tier \in T} = 1 .. count
  BY <1>2, <1>4
<1>6. \A q \in 1 .. count : (CHOOSE tier \in T : tier.quantity = q) = tiers[q]
  BY <1>2, <1>4
<1>7. ValidateOffers(raw, count) =
        {[q \in 1 .. count |-> CHOOSE tier \in T : tier.quantity = q]}
  BY <1>1, <1>5 DEF ValidateOffers, If, T
<1>8. tiers = [q \in 1 .. count |-> tiers[q]]
  BY DEF GoodTiers
<1>9. [q \in 1 .. count |-> CHOOSE tier \in T : tier.quantity = q] = tiers
  BY <1>6, <1>8
<1> QED
  BY <1>7, <1>9 DEF raw

(* Refitting stored tiers to another count keeps those that still have a    *)
(* place, as they are.                                                      *)
SafeTier(stored, q) ==
  LET kept == SafeText(stored.label)
  IN [quantity |-> q,
      label |-> IF kept = Absent THEN "default" ELSE CHOOSE t \in kept : TRUE,
      sublabel |-> SafeText(stored.sublabel),
      percent |-> SafeDiscount(stored.percent, q),
      amount |-> SafeDiscountAmount(stored.amount, q),
      compare |-> IF q = 1 THEN SafePrice(stored.compare) ELSE Absent]

LEMMA TierSalvaged ==
  ASSUME NEW t, GoodTier(t), NEW q \in Nat, t.quantity = q
  PROVE  SafeTier(Stored1(t), q) = t
<1> DEFINE raw == Stored1(t)
<1>1. /\ raw.label = {t.label} /\ raw.sublabel = t.sublabel
      /\ raw.percent = {t.percent} /\ raw.amount = t.amount
      /\ raw.compare = t.compare
  BY DEF Stored1
<1> HIDE DEF raw
<1>2. \A x : GoodText(x) => SafeText({x}) = {x}
  BY StripFacts DEF SafeText, GoodText
<1>3. SafeText(raw.label) = {t.label}
  BY <1>1, <1>2 DEF GoodTier
<1>4. SafeText(raw.sublabel) = t.sublabel
  <2>1. CASE t.sublabel = {}
    BY <1>1, <2>1 DEF SafeText
  <2>2. CASE t.sublabel # {}
    <3>1. PICK x \in t.sublabel : t.sublabel = {x} /\ GoodText(x)
      BY <2>2 DEF GoodTier
    <3> QED
      BY <1>1, <1>2, <3>1
  <2> QED
    BY <2>1, <2>2
<1>5. SafeDiscount(raw.percent, q) = t.percent
  <2>1. t.percent \in 0 .. MaxDiscountPercent /\ (q < 2 => t.percent = 0)
    BY DEF GoodTier, MaxDiscountPercent
  <2>2. CASE q < 2
    BY <2>1, <2>2 DEF SafeDiscount
  <2>3. CASE ~(q < 2)
    <3>1. SafeDiscount(raw.percent, q) =
            CHOOSE p \in 0 .. MaxDiscountPercent :
              \E x \in {t.percent} : \/ p = x
                                     \/ x > MaxDiscountPercent /\ p = MaxDiscountPercent
                                     \/ x < 0 /\ p = 0
      BY <1>1, <2>3 DEF SafeDiscount, Absent
    <3>2. \A p \in 0 .. MaxDiscountPercent :
            (\E x \in {t.percent} : \/ p = x
                                    \/ x > MaxDiscountPercent /\ p = MaxDiscountPercent
                                    \/ x < 0 /\ p = 0) <=> p = t.percent
      BY <2>1 DEF MaxDiscountPercent
    <3> QED
      BY <2>1, <3>1, <3>2
  <2> QED
    BY <2>2, <2>3
<1>6. \A value : (value # {} => \E x \in value : value = {x} /\ x > 0)
                   => SafePrice(value) = value
  BY DEF SafePrice
<1>7. SafeDiscountAmount(raw.amount, q) = t.amount
  <2>1. SafePrice(raw.amount) = t.amount
    BY <1>1, <1>6 DEF GoodTier
  <2>2. q < 2 => t.amount = {}
    BY DEF GoodTier
  <2> QED
    BY <2>1, <2>2 DEF SafeDiscountAmount, Absent
<1>8. (IF q = 1 THEN SafePrice(raw.compare) ELSE Absent) = t.compare
  <2>1. SafePrice(raw.compare) = t.compare
    BY <1>1, <1>6 DEF GoodTier
  <2>2. q # 1 => t.compare = {}
    BY DEF GoodTier
  <2> QED
    BY <2>1, <2>2 DEF Absent
<1>9. t = [quantity |-> t.quantity, label |-> t.label, sublabel |-> t.sublabel,
           percent |-> t.percent, amount |-> t.amount, compare |-> t.compare]
  BY DEF GoodTier
<1>10. SafeTier(raw, q) =
         [quantity |-> t.quantity, label |-> t.label, sublabel |-> t.sublabel,
          percent |-> t.percent, amount |-> t.amount, compare |-> t.compare]
  BY <1>3, <1>4, <1>5, <1>7, <1>8 DEF SafeTier, Absent
<1> QED
  BY <1>9, <1>10 DEF raw

LEMMA DefaultTiers ==
  \A q : GoodTier(DefaultOffer(q)) /\ DefaultOffer(q).quantity = q
BY DEF DefaultOffer, GoodTier, GoodText, Absent, MaxDiscountPercent

LEMMA OffersSalvaged ==
  ASSUME NEW s, GoodOffers(s), NEW count \in 1 .. MaxOfferCount
  PROVE  GoodTiers(Salvage(s.offers, count), count)
<1> DEFINE raw == s.offers
           Same(q) == {i \in DOMAIN raw : raw[i].quantity = {q}}
           LastOf(q) == CHOOSE i \in Same(q) : \A j \in Same(q) : j <= i
           kept == Salvage(raw, count)
<1>1. /\ DOMAIN kept = 1 .. count
      /\ kept = [q \in 1 .. count |-> kept[q]]
      /\ \A q \in 1 .. count :
           kept[q] = IF Same(q) = {} THEN DefaultOffer(q)
                     ELSE SafeTier(raw[LastOf(q)], q)
  BY DEF Salvage, SafeTier
<1> HIDE DEF kept
<1>2. ASSUME NEW q \in 1 .. count
      PROVE  Same(q) # {} => SafeTier(raw[LastOf(q)], q).quantity = q /\ GoodTier(SafeTier(raw[LastOf(q)], q))
  <2>1. CASE raw = <<>>
    BY <2>1
  <2>2. CASE raw # <<>>
    <3>1. PICK tiers : GoodTiers(tiers, s.count) /\ raw = ToJson(tiers)
      BY <2>2 DEF GoodOffers
    <3>2. s.count \in 1 .. MaxOfferCount
      BY DEF GoodOffers
    <3>3. /\ DOMAIN raw = 1 .. s.count
          /\ \A i \in 1 .. s.count : raw[i] = Stored1(tiers[i])
      BY <3>1, <3>2, ToJsonFacts
    <3>4. \A i \in 1 .. s.count : GoodTier(tiers[i]) /\ tiers[i].quantity = i
      BY <3>1 DEF GoodTiers
    <3>5. \A i \in 1 .. s.count : raw[i].quantity = {i}
      <4> HIDE DEF raw
      <4>1. \A t : Stored1(t).quantity = {t.quantity}
        BY DEF Stored1
      <4> QED
        BY <3>3, <3>4, <4>1
    <3> HIDE DEF raw
    <3>6. Same(q) # {} => Same(q) = {q} /\ q \in 1 .. s.count
      BY <3>3, <3>5
    <3>7. Same(q) = {q} => LastOf(q) = q
      <4> SUFFICES ASSUME Same(q) = {q} PROVE LastOf(q) = q
        OBVIOUS
      <4>1. q \in Int
        OBVIOUS
      <4> HIDE DEF Same
      <4>2. \A j \in Same(q) : j <= q
        BY <4>1
      <4> QED
        BY <4>2
    <3> HIDE DEF Same, LastOf
    <3>8. q \in Nat
      OBVIOUS
    <3> QED
      BY <3>3, <3>4, <3>6, <3>7, <3>8, TierSalvaged
  <2> QED
    BY <2>1, <2>2
<1> HIDE DEF raw, Same, LastOf
<1>3. \A q \in 1 .. count : GoodTier(kept[q]) /\ kept[q].quantity = q
  BY <1>1, <1>2, DefaultTiers
<1>4. GoodTiers(kept, count)
  BY <1>1, <1>3 DEF GoodTiers
<1> QED
  BY <1>4 DEF kept, raw

(* What is read of stored tiers: with the count they were stored with, the  *)
(* tiers themselves; with another, tiers that are well formed again.        *)
LEMMA OffersParsed ==
  ASSUME NEW s, GoodOffers(s)
  PROVE  LET tiers == ParseStoredOffers(s.offers, s.count)
         IN /\ ValidateOffers(s.offers, s.count) = {tiers}
            /\ GoodTiers(tiers, s.count)
            /\ s.offers # <<>> => s.offers = ToJson(tiers)
<1>0. s.count \in 1 .. MaxOfferCount
  BY DEF GoodOffers
<1>1. \E tiers : /\ ValidateOffers(s.offers, s.count) = {tiers}
                 /\ s.offers # <<>> => s.offers = ToJson(tiers)
  <2>1. CASE s.offers = <<>>
    BY <2>1 DEF ValidateOffers
  <2>2. CASE s.offers # <<>>
    <3>1. PICK tiers : GoodTiers(tiers, s.count) /\ s.offers = ToJson(tiers)
      BY <2>2 DEF GoodOffers
    <3> QED
      BY <1>0, <3>1, OffersAgain
  <2> QED
    BY <2>1, <2>2
<1>2. PICK tiers : /\ ValidateOffers(s.offers, s.count) = {tiers}
                   /\ s.offers # <<>> => s.offers = ToJson(tiers)
  BY <1>1
<1>3. ParseStoredOffers(s.offers, s.count) = tiers
  BY <1>2 DEF ParseStoredOffers
<1>4. GoodTiers(tiers, s.count)
  BY <1>0, <1>2, OffersValidated
<1> QED
  BY <1>2, <1>3, <1>4

LEMMA OffersRefitted ==
  ASSUME NEW s, GoodOffers(s), NEW count \in 1 .. MaxOfferCount
  PROVE  GoodTiers(ParseStoredOffers(s.offers, count), count)
<1> DEFINE valid == ValidateOffers(s.offers, count)
<1>1. CASE valid # {}
  <2>1. ParseStoredOffers(s.offers, count) \in valid
    BY <1>1 DEF ParseStoredOffers
  <2> QED
    BY <2>1, OffersValidated
<1>2. CASE valid = {}
  <2>1. ParseStoredOffers(s.offers, count) = Salvage(s.offers, count)
    BY <1>2 DEF ParseStoredOffers
  <2> QED
    BY <2>1, OffersSalvaged
<1> QED
  BY <1>1, <1>2

LEMMA OffersStored ==
  ASSUME NEW s, s.count \in 1 .. MaxOfferCount,
         NEW tiers, GoodTiers(tiers, s.count), s.offers = ToJson(tiers)
  PROVE  GoodOffers(s) /\ ParseStoredOffers(s.offers, s.count) = tiers
<1>1. ValidateOffers(s.offers, s.count) = {tiers}
  BY OffersAgain
<1>2. GoodOffers(s)
  BY <1>1 DEF GoodOffers
<1>3. ParseStoredOffers(s.offers, s.count) = tiers
  BY <1>1 DEF ParseStoredOffers
<1> QED
  BY <1>2, <1>3

----------------------------------------------------------------------------
(* Colours, wording and the whole of the settings.                          *)

LEMMA Fields ==
  /\ SettingFields =
       {"mode", "interval", "positions", "count", "default", "offers", "style",
        "form", "accent", "formAccent", "blocksAccent", "text", "animation",
        "overrides", "colors", "dark"}
  /\ LookFields =
       {"style", "form", "accent", "formAccent", "blocksAccent", "text",
        "animation", "overrides", "colors", "dark"}
  /\ CtaFields = {"mode", "interval", "positions"}
  /\ OfferFields = {"count", "offers"}
  /\ LandingColumns = SettingFields \union {"status", "slug"}
BY DEF SettingFields, NewSettings, LookFields, CtaFields, OfferFields, LandingColumns

LEMMA OverridesValidated ==
  ASSUME NEW raw, NEW v \in ValidateCtaTextOverrides(raw)
  PROVE  ValidateCtaTextOverrides(v) = {v}
<1>1. /\ \A p \in DOMAIN raw : p >= 1 /\ raw[p] \notin {"blank", "long"}
      /\ v = [p \in DOMAIN raw |-> Strip(raw[p])]
  BY DEF ValidateCtaTextOverrides, If
<1>2. \A p \in DOMAIN v : p >= 1 /\ GoodText(v[p])
  BY <1>1, StripFacts
<1>3. \A p \in DOMAIN v : /\ p >= 1 /\ v[p] \notin {"blank", "long"}
                          /\ Strip(v[p]) = v[p]
  BY <1>2, StripFacts DEF GoodText
<1>4. v = [p \in DOMAIN v |-> v[p]]
  BY <1>1
<1>5. [p \in DOMAIN v |-> Strip(v[p])] = v
  BY <1>3, <1>4
<1> QED
  BY <1>3, <1>5 DEF ValidateCtaTextOverrides, If

LEMMA ColorsValidated ==
  ASSUME NEW raw, NEW v \in ValidateCtaColorModes(raw)
  PROVE  ValidateCtaColorModes(v) = {v}
<1>1. /\ \A p \in DOMAIN raw : p >= 1 /\ raw[p] \in {"default", "dark", "light"}
      /\ v = [p \in {x \in DOMAIN raw : raw[x] # "default"} |-> raw[p]]
  BY DEF ValidateCtaColorModes, If
<1>2. \A p \in DOMAIN v : p >= 1 /\ v[p] \in {"dark", "light"}
  BY <1>1
<1>3. v = [p \in DOMAIN v |-> v[p]]
  BY <1>1
<1>4. {x \in DOMAIN v : v[x] # "default"} = DOMAIN v
  BY <1>2
<1>5. [p \in {x \in DOMAIN v : v[x] # "default"} |-> v[p]] = v
  BY <1>3, <1>4
<1>6. \A p \in DOMAIN v : p >= 1 /\ v[p] \in {"default", "dark", "light"}
  BY <1>2
<1> QED
  BY <1>5, <1>6 DEF ValidateCtaColorModes, If

LEMMA ColourFacts ==
  /\ \A raw : \A c \in NormalizeAccentColor(raw) : GoodColour(c)
  /\ \A c : GoodColour(c) => NormalizeAccentColor(c) = {c}
BY DEF NormalizeAccentColor, GoodColour

(* What an edit stores of a field is well formed.                           *)
LEMMA LookValidated ==
  ASSUME NEW f \in LookFields, NEW given, NEW v \in ValidateLookField(f, given)
  PROVE  GoodLook(f, v)
<1>1. CASE f \in {"style", "form"}
  BY <1>1 DEF ValidateLookField, GoodLook
<1>2. CASE f = "accent"
  BY <1>2, ColourFacts DEF ValidateLookField, GoodLook
<1>3. CASE f \in {"formAccent", "blocksAccent"}
  <2>1. v \in Cleared(given, NormalizeAccentColor(given))
    BY <1>3 DEF ValidateLookField
  <2>2. AtMostOne(v, GoodColour)
    BY <2>1, ColourFacts DEF Cleared, Absent, AtMostOne
  <2> QED
    BY <1>3, <2>2 DEF GoodLook
<1>4. CASE f = "text"
  <2>1. v \in Cleared(given, {given} \ {"long"})
    BY <1>4 DEF ValidateLookField
  <2>2. v # {} => \E x \in v : v = {x} /\ x # "long"
    BY <2>1 DEF Cleared, Absent
  <2> QED
    BY <1>4, <2>2 DEF GoodLook, AtMostOne
<1>5. CASE f = "animation"
  <2>1. v \in Cleared(given, {given} \cap Animations)
    BY <1>5 DEF ValidateLookField
  <2>2. v # {} => \E x \in v : v = {x} /\ x \in Animations
    BY <2>1 DEF Cleared, Absent
  <2> QED
    BY <1>5, <2>2 DEF GoodLook, AtMostOne
<1>6. CASE f = "overrides"
  <2>1. v \in ValidateCtaTextOverrides(given)
    BY <1>6 DEF ValidateLookField
  <2> QED
    BY <1>6, <2>1, OverridesValidated DEF GoodLook
<1>7. CASE f = "colors"
  <2>1. v \in ValidateCtaColorModes(given)
    BY <1>7 DEF ValidateLookField
  <2> QED
    BY <1>7, <2>1, ColorsValidated DEF GoodLook
<1>8. CASE f = "dark"
  BY <1>8 DEF GoodLook
<1> QED
  BY <1>1, <1>2, <1>3, <1>4, <1>5, <1>6, <1>7, <1>8, Fields

LEMMA LookColumnsFacts ==
  ASSUME NEW given, NEW look \in LookColumns(given)
  PROVE  /\ DOMAIN look \subseteq LookFields
         /\ \A f \in DOMAIN look : GoodLook(f, look[f])
<1> DEFINE fields == DOMAIN given \cap LookFields
           accepted == [f \in fields |-> ValidateLookField(f, given[f])]
<1>1. /\ \A f \in fields : accepted[f] # {}
      /\ look = [f \in fields |-> CHOOSE v \in accepted[f] : TRUE]
  BY DEF LookColumns, If
<1>2. \A f \in fields : look[f] \in ValidateLookField(f, given[f])
  BY <1>1
<1>3. DOMAIN look = fields
  BY <1>1
<1> HIDE DEF accepted
<1> QED
  BY <1>2, <1>3, LookValidated

(* Loading well-formed settings keeps them; a blank text is none.           *)
LEMMA LookAgain ==
  ASSUME NEW s, GoodSettings(s)
  PROVE  ParseLook(s) =
           {[style |-> s.style, form |-> s.form, accent |-> s.accent,
             formAccent |-> s.formAccent, blocksAccent |-> s.blocksAccent,
             text |-> s.text \ {"blank"}, animation |-> s.animation,
             overrides |-> s.overrides, colors |-> s.colors, dark |-> s.dark]}
<1>1. \A f \in LookFields : GoodLook(f, s[f])
  BY Fields DEF GoodSettings, GoodColumns
<1>2. /\ GoodLook("style", s.style) /\ GoodLook("form", s.form)
      /\ GoodLook("accent", s.accent) /\ GoodLook("formAccent", s.formAccent)
      /\ GoodLook("blocksAccent", s.blocksAccent) /\ GoodLook("text", s.text)
      /\ GoodLook("animation", s.animation) /\ GoodLook("overrides", s.overrides)
      /\ GoodLook("colors", s.colors)
  BY <1>1, Fields
<1>3. {s.style} \cap BandStyles = {s.style} /\ {s.form} \cap FormPresentations = {s.form}
  BY <1>2 DEF GoodLook
<1>4. NormalizeAccentColor(s.accent) = {s.accent}
  BY <1>2, ColourFacts DEF GoodLook
<1>5. \A value : AtMostOne(value, GoodColour) => NormalizeOptional(value) = {value}
  <2> SUFFICES ASSUME NEW value, AtMostOne(value, GoodColour)
               PROVE  NormalizeOptional(value) = {value}
    OBVIOUS
  <2>1. CASE value = {}
    BY <2>1 DEF NormalizeOptional, Nullable, Absent
  <2>2. CASE value # {}
    <3>1. PICK x \in value : value = {x} /\ GoodColour(x)
      BY <2>2 DEF AtMostOne
    <3>2. UNION {NormalizeAccentColor(v) : v \in value} = {x}
      BY <3>1, ColourFacts
    <3>3. ~(value \subseteq {"blank"})
      BY <3>1 DEF GoodColour
    <3> QED
      BY <3>1, <3>2, <3>3 DEF NormalizeOptional, Nullable
  <2> QED
    BY <2>1, <2>2
<1>6. /\ NormalizeOptional(s.formAccent) = {s.formAccent}
      /\ NormalizeOptional(s.blocksAccent) = {s.blocksAccent}
  BY <1>2, <1>5 DEF GoodLook
<1>7. Nullable(s.text, s.text \ {"long"}) = {s.text \ {"blank"}}
  <2>1. s.text # {} => \E x \in s.text : s.text = {x} /\ x # "long"
    BY <1>2 DEF GoodLook, AtMostOne
  <2>2. CASE s.text \subseteq {"blank"}
    <3>1. s.text \ {"blank"} = {}
      BY <2>2
    <3> QED
      BY <2>2, <3>1 DEF Nullable, Absent
  <2>3. CASE ~(s.text \subseteq {"blank"})
    <3>1. PICK x \in s.text : s.text = {x} /\ x # "long"
      BY <2>1, <2>3
    <3>2. s.text \ {"blank"} = {x} /\ s.text \ {"long"} = {x}
      BY <2>3, <3>1
    <3> QED
      BY <2>3, <3>2 DEF Nullable
  <2> QED
    BY <2>2, <2>3
<1>8. Nullable(s.animation, s.animation \cap Animations) = {s.animation}
  <2>1. s.animation # {} =>
          \E x \in s.animation : s.animation = {x} /\ x \in Animations
    BY <1>2 DEF GoodLook, AtMostOne
  <2>2. CASE s.animation = {}
    BY <2>2 DEF Nullable, Absent
  <2>3. CASE s.animation # {}
    <3>1. PICK x \in s.animation : s.animation = {x} /\ x \in Animations
      BY <2>1, <2>3
    <3>2. s.animation \cap Animations = {x} /\ ~(s.animation \subseteq {"blank"})
      BY <3>1 DEF Animations
    <3> QED
      BY <3>1, <3>2 DEF Nullable
  <2> QED
    BY <2>2, <2>3
<1>9. /\ ValidateCtaTextOverrides(s.overrides) = {s.overrides}
      /\ ValidateCtaColorModes(s.colors) = {s.colors}
  BY <1>2 DEF GoodLook
<1> DEFINE Looks(A, B, C, D, E, F, G, H, I) ==
             {[style |-> style, form |-> form, accent |-> accent,
               formAccent |-> formAccent, blocksAccent |-> blocksAccent,
               text |-> text, animation |-> animation, overrides |-> overrides,
               colors |-> colors, dark |-> s.dark] :
                style \in A, form \in B, accent \in C, formAccent \in D,
                blocksAccent \in E, text \in F, animation \in G,
                overrides \in H, colors \in I}
<1>10. ParseLook(s) =
         Looks({s.style} \cap BandStyles, {s.form} \cap FormPresentations,
               NormalizeAccentColor(s.accent), NormalizeOptional(s.formAccent),
               NormalizeOptional(s.blocksAccent),
               Nullable(s.text, s.text \ {"long"}),
               Nullable(s.animation, s.animation \cap Animations),
               ValidateCtaTextOverrides(s.overrides),
               ValidateCtaColorModes(s.colors))
  BY DEF ParseLook
<1>11. Looks({s.style}, {s.form}, {s.accent}, {s.formAccent}, {s.blocksAccent},
             {s.text \ {"blank"}}, {s.animation}, {s.overrides}, {s.colors}) =
         {[style |-> s.style, form |-> s.form, accent |-> s.accent,
           formAccent |-> s.formAccent, blocksAccent |-> s.blocksAccent,
           text |-> s.text \ {"blank"}, animation |-> s.animation,
           overrides |-> s.overrides, colors |-> s.colors, dark |-> s.dark]}
  OBVIOUS
<1> HIDE DEF Looks
<1> QED
  BY <1>3, <1>4, <1>6, <1>7, <1>8, <1>9, <1>10, <1>11

(* Columns written over a row: the fields that are validated together come  *)
(* from one of the two.                                                     *)
LEMMA Merged ==
  ASSUME NEW c, NEW r, GoodColumns(c), GoodColumns(r)
  PROVE  /\ DOMAIN (c ++ r) = DOMAIN c \union DOMAIN r
         /\ GoodColumns(c ++ r)
<1> DEFINE m == c ++ r
<1>1. /\ DOMAIN m = DOMAIN c \union DOMAIN r
      /\ \A x \in DOMAIN c : m[x] = c[x]
      /\ \A x \in DOMAIN r \ DOMAIN c : m[x] = r[x]
  BY OverFacts
<1> HIDE DEF m
<1>2. DOMAIN m \subseteq LandingColumns
  BY <1>1 DEF GoodColumns
<1>3. DOMAIN m \cap CtaFields # {} => CtaFields \subseteq DOMAIN m /\ GoodCta(m)
  <2>1. CASE DOMAIN c \cap CtaFields # {}
    <3>1. CtaFields \subseteq DOMAIN c /\ GoodCta(c)
      BY <2>1 DEF GoodColumns
    <3>2. m.mode = c.mode /\ m.interval = c.interval /\ m.positions = c.positions
      BY <1>1, <3>1, Fields
    <3>3. GoodCta(m)
      BY <3>1, <3>2 DEF GoodCta
    <3> QED
      BY <1>1, <3>1, <3>3
  <2>2. CASE DOMAIN c \cap CtaFields = {} /\ DOMAIN r \cap CtaFields # {}
    <3>1. CtaFields \subseteq DOMAIN r /\ GoodCta(r)
      BY <2>2 DEF GoodColumns
    <3>2. m.mode = r.mode /\ m.interval = r.interval /\ m.positions = r.positions
      BY <1>1, <2>2, <3>1, Fields
    <3>3. GoodCta(m)
      BY <3>1, <3>2 DEF GoodCta
    <3> QED
      BY <1>1, <3>1, <3>3
  <2> QED
    BY <1>1, <2>1, <2>2
<1>4. DOMAIN m \cap OfferFields # {} => OfferFields \subseteq DOMAIN m /\ GoodOffers(m)
  <2>1. CASE DOMAIN c \cap OfferFields # {}
    <3>1. OfferFields \subseteq DOMAIN c /\ GoodOffers(c)
      BY <2>1 DEF GoodColumns
    <3>2. m.count = c.count /\ m.offers = c.offers
      BY <1>1, <3>1, Fields
    <3>3. GoodOffers(m)
      BY <3>1, <3>2 DEF GoodOffers
    <3> QED
      BY <1>1, <3>1, <3>3
  <2>2. CASE DOMAIN c \cap OfferFields = {} /\ DOMAIN r \cap OfferFields # {}
    <3>1. OfferFields \subseteq DOMAIN r /\ GoodOffers(r)
      BY <2>2 DEF GoodColumns
    <3>2. m.count = r.count /\ m.offers = r.offers
      BY <1>1, <2>2, <3>1, Fields
    <3>3. GoodOffers(m)
      BY <3>1, <3>2 DEF GoodOffers
    <3> QED
      BY <1>1, <3>1, <3>3
  <2> QED
    BY <1>1, <2>1, <2>2
<1>5. /\ "default" \in DOMAIN m => m.default \in 1 .. MaxOfferCount
      /\ "slug" \in DOMAIN m => m.slug \in Slugs
      /\ "status" \in DOMAIN m => m.status \in {"draft", "published"}
  <2>1. \A x \in DOMAIN m : \/ x \in DOMAIN c /\ m[x] = c[x]
                            \/ x \in DOMAIN r /\ m[x] = r[x]
    BY <1>1
  <2> QED
    BY <2>1 DEF GoodColumns
<1>6. \A f \in LookFields \cap DOMAIN m : GoodLook(f, m[f])
  <2>1. \A f \in LookFields \cap DOMAIN c : GoodLook(f, c[f])
    BY DEF GoodColumns
  <2>2. \A f \in LookFields \cap DOMAIN r : GoodLook(f, r[f])
    BY DEF GoodColumns
  <2> QED
    BY <1>1, <2>1, <2>2
<1>7. GoodColumns(m)
  BY <1>2, <1>3, <1>4, <1>5, <1>6 DEF GoodColumns
<1> QED
  BY <1>1, <1>7 DEF m

(* Each pair of fields is the columns' or the row's.                        *)
LEMMA MergedOffers ==
  ASSUME NEW c, NEW r, GoodColumns(c), GoodRow(r)
  PROVE  /\ GoodRow(c ++ r)
         /\ "offers" \in DOMAIN c => /\ (c ++ r).offers = c.offers
                                     /\ (c ++ r).count = c.count
         /\ "offers" \notin DOMAIN c => /\ (c ++ r).offers = r.offers
                                        /\ (c ++ r).count = r.count
         /\ "default" \in DOMAIN c => (c ++ r).default = c.default
         /\ "default" \notin DOMAIN c => (c ++ r).default = r.default
<1>1. DOMAIN r = LandingColumns /\ GoodColumns(r)
  BY DEF GoodRow
<1>2. /\ DOMAIN (c ++ r) = DOMAIN c \union DOMAIN r
      /\ \A x \in DOMAIN c : (c ++ r)[x] = c[x]
      /\ \A x \in DOMAIN r \ DOMAIN c : (c ++ r)[x] = r[x]
  BY OverFacts
<1>3. GoodRow(c ++ r)
  <2>1. DOMAIN c \subseteq LandingColumns
    BY DEF GoodColumns
  <2> QED
    BY <1>1, <1>2, <2>1, Merged DEF GoodRow
<1>4. "offers" \in DOMAIN c <=> "count" \in DOMAIN c
  BY Fields DEF GoodColumns
<1> QED
  BY <1>1, <1>2, <1>3, <1>4, Fields

(* A landing nobody has edited.                                             *)
LEMMA NewRow ==
  ASSUME NEW p \in Products
  PROVE  /\ GoodRow(NewLanding(p))
         /\ NewLanding(p).slug = DraftSlug[p]
         /\ NewLanding(p).status = "draft"
         /\ NewLanding(p).default <= NewLanding(p).count
         /\ \A price : Priceable(price, ParseStoredOffers(NewLanding(p).offers,
                                                         NewLanding(p).count))
<1> DEFINE d == [status |-> "draft", slug |-> DraftSlug[p]]
<1>1. GoodColumns(d)
  BY CatalogAssumption DEF CatalogAssumption, GoodColumns, LandingColumns, CtaFields,
     OfferFields, LookFields, SettingFields, NewSettings
<1>2. \A f \in LookFields : GoodLook(f, NewSettings[f])
  <2>1. /\ ValidateCtaTextOverrides(<<>>) = {<<>>}
        /\ ValidateCtaColorModes(<<>>) = {<<>>}
    <3>1. DOMAIN <<>> = {}
      OBVIOUS
    <3>2. \A f : DOMAIN f = {} /\ f = [x \in {} |-> f[x]] => f = <<>>
      OBVIOUS
    <3>3. /\ [p_1 \in DOMAIN <<>> |-> Strip(<<>>[p_1])] = <<>>
          /\ [p_1 \in {x \in DOMAIN <<>> : <<>>[x] # "default"} |-> <<>>[p_1]] = <<>>
      BY <3>1
    <3> QED
      BY <3>1, <3>3 DEF ValidateCtaTextOverrides, ValidateCtaColorModes, If
  <2> QED
    BY <2>1, Fields DEF GoodLook, NewSettings, BandStyles, FormPresentations, DefaultAccent,
       GoodColour, AtMostOne, Absent
<1>3. GoodOffers(NewSettings)
  BY DEF GoodOffers, NewSettings, MaxOfferCount
<1>4. GoodCta(NewSettings)
  BY DEF GoodCta, NewSettings, Absent
<1>5. GoodColumns(NewSettings) /\ DOMAIN NewSettings = SettingFields
  <2>1. DOMAIN NewSettings = SettingFields
    BY DEF SettingFields
  <2>2. NewSettings.default \in 1 .. MaxOfferCount
    BY DEF NewSettings, MaxOfferCount
  <2> QED
    BY <1>2, <1>3, <1>4, <2>1, <2>2, Fields DEF GoodColumns
<1>6. /\ DOMAIN NewLanding(p) = LandingColumns
      /\ GoodColumns(NewLanding(p))
  <2>1. DOMAIN d = {"status", "slug"}
    OBVIOUS
  <2> HIDE DEF d
  <2>2. NewLanding(p) = NewSettings ++ d
    BY DEF NewLanding, d
  <2>3. /\ DOMAIN (NewSettings ++ d) = DOMAIN NewSettings \union DOMAIN d
        /\ GoodColumns(NewSettings ++ d)
    BY <1>1, <1>5, Merged
  <2> QED
    BY <1>5, <2>1, <2>2, <2>3 DEF LandingColumns
<1>7. /\ \A x \in SettingFields : NewLanding(p)[x] = NewSettings[x]
      /\ NewLanding(p).slug = DraftSlug[p] /\ NewLanding(p).status = "draft"
  <2>1. \A x \in SettingFields : (NewSettings ++ d)[x] = NewSettings[x]
    BY <1>5, OverFacts
  <2>2. {"slug", "status"} \cap SettingFields = {} /\ DOMAIN d = {"slug", "status"}
    BY Fields
  <2>3. \A x \in DOMAIN d \ DOMAIN NewSettings : (NewSettings ++ d)[x] = d[x]
    BY OverFacts
  <2>4. "slug" \in DOMAIN d \ DOMAIN NewSettings /\ "status" \in DOMAIN d \ DOMAIN NewSettings
    BY <1>5, <2>2
  <2> QED
    BY <2>1, <2>3, <2>4 DEF NewLanding
<1>8. /\ NewLanding(p).default = 1 /\ NewLanding(p).count = MaxOfferCount
      /\ NewLanding(p).offers = <<>>
  BY <1>7, Fields DEF NewSettings
<1>9. ParseStoredOffers(<<>>, MaxOfferCount) = DefaultOffers(MaxOfferCount)
  BY DEF ParseStoredOffers, ValidateOffers
<1>10. ASSUME NEW price, NEW q \in 1 .. MaxOfferCount
       PROVE  ResolveOfferPricing(price, DefaultOffers(MaxOfferCount)[q]) # {}
  <2>1. DefaultOffers(MaxOfferCount)[q].amount = Absent
    BY DEF DefaultOffers, DefaultOffer
  <2> QED
    BY <2>1 DEF ResolveOfferPricing
<1>11. \A price : Priceable(price, ParseStoredOffers(<<>>, MaxOfferCount))
  <2>1. DOMAIN DefaultOffers(MaxOfferCount) = 1 .. MaxOfferCount
    BY DEF DefaultOffers
  <2> QED
    BY <1>9, <1>10, <2>1 DEF Priceable
<1> QED
  BY <1>6, <1>7, <1>8, <1>11 DEF GoodRow, MaxOfferCount

(* What an edit of the settings writes.                                     *)
LEMMA NoColumnsFacts == DOMAIN NoColumns = {} /\ GoodColumns(NoColumns)
<1>1. DOMAIN NoColumns = {}
  BY DEF NoColumns
<1> QED
  BY <1>1 DEF GoodColumns

LEMMA OfferColumnsFacts ==
  ASSUME NEW given, NEW row, GoodRow(row), NEW price,
         NEW offer \in OfferColumns(given, row, price)
  PROVE  /\ DOMAIN offer \subseteq OfferFields /\ GoodColumns(offer)
         /\ "count" \in DOMAIN offer <=> "offers" \in DOMAIN offer
         /\ Given(offer, "count", row) \in 1 .. MaxOfferCount
         /\ "offers" \in DOMAIN offer =>
              Priceable(price, ParseStoredOffers(offer.offers, offer.count))
<1>0. row.count \in 1 .. MaxOfferCount /\ GoodOffers(row)
  BY Fields DEF GoodRow, GoodColumns, GoodOffers
<1>1. CASE DOMAIN given \cap OfferFields = {}
  <2>1. offer = NoColumns
    BY <1>1 DEF OfferColumns
  <2>2. DOMAIN offer = {} /\ GoodColumns(offer)
    BY <2>1, NoColumnsFacts
  <2> QED
    BY <1>0, <2>2 DEF Given
<1>2. CASE DOMAIN given \cap OfferFields # {}
  <2> DEFINE fitted(n) == IF "offers" \in DOMAIN given
                          THEN ValidateOffers(given.offers, n)
                          ELSE {ParseStoredOffers(row.offers, n)}
  <2>1. PICK count \in ValidateOfferCount({Given(given, "count", row)}) :
          \E tiers \in fitted(count) :
            /\ Priceable(price, tiers)
            /\ offer = [count |-> count, offers |-> ToJson(tiers)]
    BY <1>2 DEF OfferColumns
  <2>11. PICK tiers \in fitted(count) :
           /\ Priceable(price, tiers)
           /\ offer = [count |-> count, offers |-> ToJson(tiers)]
    BY <2>1
  <2>2. count \in 1 .. MaxOfferCount
    BY DEF ValidateOfferCount
  <2>3. GoodTiers(tiers, count)
    <3>1. CASE "offers" \in DOMAIN given
      BY <2>11, <2>2, <3>1, OffersValidated
    <3>2. CASE "offers" \notin DOMAIN given
      BY <1>0, <2>11, <2>2, <3>2, OffersRefitted
    <3> QED
      BY <3>1, <3>2
  <2> HIDE DEF fitted
  <2>4. /\ DOMAIN offer = {"count", "offers"}
        /\ offer.count = count /\ offer.offers = ToJson(tiers)
    BY <2>11
  <2>5. GoodOffers(offer) /\ ParseStoredOffers(offer.offers, offer.count) = tiers
    BY <2>2, <2>3, <2>4, OffersStored
  <2>6. GoodColumns(offer)
    BY <2>4, <2>5, Fields DEF GoodColumns
  <2> QED
    BY <2>11, <2>2, <2>4, <2>5, <2>6 DEF OfferFields, Given
<1> QED
  BY <1>1, <1>2

LEMMA CtaColumnsFacts ==
  ASSUME NEW given \in ConfigUpdates, NEW row, GoodRow(row), NEW n,
         NEW cta \in CtaColumns(given, row, n)
  PROVE  DOMAIN cta \subseteq CtaFields /\ GoodColumns(cta)
<1>1. CASE DOMAIN given \cap CtaFields = {}
  <2>1. cta = NoColumns
    BY <1>1 DEF CtaColumns
  <2> QED
    BY <2>1, NoColumnsFacts
<1>2. CASE DOMAIN given \cap CtaFields # {}
  <2>1. GoodCta(row)
    BY Fields DEF GoodRow, GoodColumns
  <2>2. row.positions \in Seq(Int)
    <3>1. row.positions = <<>> \/ row.positions \in Seq(Nat \ {0})
      BY <2>1 DEF GoodCta
    <3>2. <<>> \in Seq(Int) /\ Nat \ {0} \subseteq Int
      OBVIOUS
    <3>3. Seq(Nat \ {0}) \subseteq Seq(Int)
      BY <3>2, SeqMonotonic
    <3> QED
      BY <3>1, <3>2, <3>3
  <2>3. Given(given, "positions", row) \in Seq(Int)
    BY <2>2, UpdatesAssumption DEF UpdatesAssumption, Given
  <2>4. DOMAIN cta = CtaFields /\ GoodCta(cta)
    <3>1. cta \in ValidateCtaConfig(
                    Given(given, "mode", row),
                    IF "interval" \in DOMAIN given THEN {given.interval}
                    ELSE row.interval,
                    Given(given, "positions", row), {n} \ {0})
      BY <1>2 DEF CtaColumns
    <3> QED
      BY <2>3, <3>1, CtaValidated
  <2>5. GoodColumns(cta)
    BY <2>4, Fields DEF GoodColumns
  <2> QED
    BY <2>4, <2>5
<1> QED
  BY <1>1, <1>2

LEMMA UpdateFacts ==
  ASSUME NEW given \in ConfigUpdates, NEW row, GoodRow(row), NEW n, NEW price,
         NEW columns \in UpdateColumns(given, row, n, price)
  PROVE  /\ DOMAIN columns \subseteq SettingFields /\ GoodColumns(columns)
         /\ (columns ++ row).default <= (columns ++ row).count
         /\ "offers" \in DOMAIN columns =>
              Priceable(price, ParseStoredOffers(columns.offers, columns.count))
<1>0. row.count \in 1 .. MaxOfferCount /\ row.default \in 1 .. MaxOfferCount
  BY Fields DEF GoodRow, GoodColumns, GoodOffers
<1>1. PICK offer \in OfferColumns(given, row, price) :
        \E look \in LookColumns(given), cta \in CtaColumns(given, row, n),
           default \in DefaultColumns(given, row, Given(offer, "count", row)) :
          columns = look ++ cta ++ offer ++ default
  BY DEF UpdateColumns
<1>01. PICK look \in LookColumns(given), cta \in CtaColumns(given, row, n),
            default \in DefaultColumns(given, row, Given(offer, "count", row)) :
         columns = look ++ cta ++ offer ++ default
  BY <1>1
<1>2. /\ DOMAIN offer \subseteq OfferFields /\ GoodColumns(offer)
      /\ "count" \in DOMAIN offer <=> "offers" \in DOMAIN offer
      /\ Given(offer, "count", row) \in 1 .. MaxOfferCount
      /\ "offers" \in DOMAIN offer =>
           Priceable(price, ParseStoredOffers(offer.offers, offer.count))
  BY OfferColumnsFacts
<1>3. DOMAIN cta \subseteq CtaFields /\ GoodColumns(cta)
  BY CtaColumnsFacts
<1>4. DOMAIN look \subseteq LookFields /\ GoodColumns(look)
  <2>1. /\ DOMAIN look \subseteq LookFields
        /\ \A f \in DOMAIN look : GoodLook(f, look[f])
    BY LookColumnsFacts
  <2> QED
    BY <2>1, Fields DEF GoodColumns
<1>5. /\ DOMAIN default \subseteq {"default"} /\ GoodColumns(default)
      /\ "default" \in DOMAIN default =>
           default.default \in 1 .. Given(offer, "count", row)
      /\ "default" \notin DOMAIN default => row.default <= Given(offer, "count", row)
  <2>1. CASE default = NoColumns
    <3>1. row.default <= Given(offer, "count", row)
      <4>1. "default" \notin DOMAIN given
        <5> SUFFICES ASSUME "default" \in DOMAIN given PROVE FALSE
          OBVIOUS
        <5>1. PICK q : default = [default |-> q]
          BY DEF DefaultColumns
        <5>2. "default" \in DOMAIN default
          BY <5>1
        <5> QED
          BY <2>1, <5>2, NoColumnsFacts
      <4>2. default = IF Given(offer, "count", row) < row.default
                      THEN [default |-> 1] ELSE NoColumns
        BY <4>1 DEF DefaultColumns
      <4>3. "default" \in DOMAIN [default |-> 1]
        OBVIOUS
      <4>4. ~(Given(offer, "count", row) < row.default)
        BY <2>1, <4>2, <4>3, NoColumnsFacts
      <4> QED
        BY <1>0, <1>2, <4>4
    <3> QED
      BY <2>1, <3>1, NoColumnsFacts
  <2>2. CASE default # NoColumns
    <3>1. PICK q \in 1 .. Given(offer, "count", row) : default = [default |-> q]
      BY <1>2, <2>2 DEF DefaultColumns, ValidateDefaultOfferQuantity
    <3>2. DOMAIN default = {"default"} /\ default.default = q
      BY <3>1
    <3>3. q \in 1 .. MaxOfferCount
      BY <1>2 DEF MaxOfferCount
    <3> QED
      BY <3>2, <3>3, Fields DEF GoodColumns
  <2> QED
    BY <2>1, <2>2
<1> DEFINE a == look ++ cta
           b == a ++ offer
<1>6. GoodColumns(a) /\ DOMAIN a \subseteq LookFields \union CtaFields
  BY <1>3, <1>4, Merged
<1>7. /\ GoodColumns(b) /\ DOMAIN b \subseteq LookFields \union CtaFields \union OfferFields
      /\ \A x \in OfferFields : /\ x \in DOMAIN b <=> x \in DOMAIN offer
                                /\ x \in DOMAIN b => b[x] = offer[x]
  <2> HIDE DEF a
  <2>1. GoodColumns(b) /\ DOMAIN b = DOMAIN a \union DOMAIN offer
    BY <1>2, <1>6, Merged
  <2>2. \A x \in DOMAIN offer \ DOMAIN a : b[x] = offer[x]
    BY OverFacts
  <2>3. DOMAIN a \cap OfferFields = {}
    BY <1>6, Fields
  <2> HIDE DEF b
  <2> QED
    BY <1>2, <1>6, <2>1, <2>2, <2>3
<1> HIDE DEF a, b
<1>8. columns = b ++ default
  BY <1>01 DEF a, b
<1>9. /\ GoodColumns(columns) /\ DOMAIN columns = DOMAIN b \union DOMAIN default
      /\ \A x \in OfferFields : /\ x \in DOMAIN columns <=> x \in DOMAIN offer
                                /\ x \in DOMAIN columns => columns[x] = offer[x]
      /\ "default" \in DOMAIN columns <=> "default" \in DOMAIN default
      /\ "default" \in DOMAIN columns => columns.default = default.default
  <2>1. GoodColumns(columns) /\ DOMAIN columns = DOMAIN b \union DOMAIN default
    BY <1>5, <1>7, <1>8, Merged
  <2>0. /\ \A x \in DOMAIN b : (b ++ default)[x] = b[x]
        /\ \A x \in DOMAIN default \ DOMAIN b : (b ++ default)[x] = default[x]
    BY OverFacts
  <2>2. /\ \A x \in DOMAIN b : columns[x] = b[x]
        /\ \A x \in DOMAIN default \ DOMAIN b : columns[x] = default[x]
    BY <1>8, <2>0
  <2>3. "default" \notin OfferFields /\ "default" \notin DOMAIN b
    BY <1>7, Fields
  <2> QED
    BY <1>5, <1>7, <2>1, <2>2, <2>3
<1>10. DOMAIN columns \subseteq SettingFields
  BY <1>5, <1>7, <1>9, Fields
<1>11. (columns ++ row).count = Given(offer, "count", row)
  BY <1>2, <1>9, MergedOffers, Fields DEF Given
<1>12. (columns ++ row).default <= (columns ++ row).count
  <2>1. CASE "default" \in DOMAIN columns
    <3>1. (columns ++ row).default = default.default
      BY <1>9, <2>1, MergedOffers
    <3> QED
      BY <1>2, <1>5, <1>9, <1>11, <2>1, <3>1
  <2>2. CASE "default" \notin DOMAIN columns
    <3>1. (columns ++ row).default = row.default
      BY <1>9, <2>2, MergedOffers
    <3> QED
      BY <1>5, <1>9, <1>11, <2>2, <3>1
  <2> QED
    BY <2>1, <2>2
<1>13. "offers" \in DOMAIN columns =>
         Priceable(price, ParseStoredOffers(columns.offers, columns.count))
  BY <1>2, <1>9, Fields
<1> QED
  BY <1>9, <1>10, <1>12, <1>13

(* What loading a template writes: what it holds.                           *)
LoadedAs(columns, s) ==
  /\ columns.mode = s.mode /\ columns.interval = s.interval
  /\ ToSet(columns.positions) = ToSet(s.positions)
  /\ s.mode # "fixed_positions" => columns.positions = s.positions
  /\ columns.count = s.count /\ columns.default = s.default
  /\ columns.offers = ToJson(ParseStoredOffers(s.offers, s.count))
  /\ \A f \in LookFields \ {"text"} : columns[f] = s[f]
  /\ columns.text = s.text \ {"blank"}

LEMMA SettingsFacts ==
  ASSUME NEW s, GoodSettings(s)
  PROVE  /\ GoodCta(s) /\ GoodOffers(s) /\ s.positions \in Seq(Int)
         /\ s.count \in 1 .. MaxOfferCount /\ s.default \in 1 .. MaxOfferCount
         /\ \A f \in LookFields : GoodLook(f, s[f])
<1>1. /\ GoodCta(s) /\ GoodOffers(s) /\ s.default \in 1 .. MaxOfferCount
      /\ \A f \in LookFields : GoodLook(f, s[f])
  BY Fields DEF GoodSettings, GoodColumns
<1>2. s.positions \in Seq(Int)
  <2>1. s.positions = <<>> \/ s.positions \in Seq(Nat \ {0})
    BY <1>1 DEF GoodCta
  <2>2. <<>> \in Seq(Int) /\ Nat \ {0} \subseteq Int
    OBVIOUS
  <2>3. Seq(Nat \ {0}) \subseteq Seq(Int)
    BY <2>2, SeqMonotonic
  <2> QED
    BY <2>1, <2>2, <2>3
<1> QED
  BY <1>1, <1>2 DEF GoodOffers

LEMMA TemplateParsed ==
  ASSUME NEW s, GoodSettings(s), NEW n \in Nat,
         NEW columns \in ParseTemplateConfig(s, n)
  PROVE  /\ GoodSettings(columns) /\ LoadedAs(columns, s)
         /\ columns.default <= columns.count
<1> DEFINE tiers0 == ParseStoredOffers(s.offers, s.count)
           look0 == [style |-> s.style, form |-> s.form, accent |-> s.accent,
                     formAccent |-> s.formAccent, blocksAccent |-> s.blocksAccent,
                     text |-> s.text \ {"blank"}, animation |-> s.animation,
                     overrides |-> s.overrides, colors |-> s.colors, dark |-> s.dark]
<1>0. /\ GoodCta(s) /\ GoodOffers(s) /\ s.positions \in Seq(Int)
      /\ s.count \in 1 .. MaxOfferCount /\ s.default \in 1 .. MaxOfferCount
      /\ \A f \in LookFields : GoodLook(f, s[f])
  BY SettingsFacts
<1> DEFINE Loads(count) ==
             {cta ++ look ++ [count |-> count, default |-> default,
                              offers |-> ToJson(tiers)] :
                cta \in ValidateCtaConfig(s.mode, s.interval, s.positions, {n} \ {0}),
                default \in ValidateDefaultOfferQuantity({s.default}, count),
                tiers \in ValidateOffers(s.offers, count),
                look \in ParseLook(s)}
<1>01. ParseTemplateConfig(s, n) =
         UNION {Loads(count) : count \in ValidateOfferCount({s.count})}
  BY DEF ParseTemplateConfig
<1>1. PICK count \in ValidateOfferCount({s.count}) : columns \in Loads(count)
  <2> HIDE DEF Loads
  <2> QED
    BY <1>01
<1>2. PICK cta \in ValidateCtaConfig(s.mode, s.interval, s.positions, {n} \ {0}),
           default \in ValidateDefaultOfferQuantity({s.default}, count),
           tiers \in ValidateOffers(s.offers, count), look \in ParseLook(s) :
         columns = cta ++ look ++ [count |-> count, default |-> default,
                                   offers |-> ToJson(tiers)]
  BY <1>1
<1>3. count = s.count
  BY DEF ValidateOfferCount
<1>4. default = s.default /\ default <= count
  BY <1>0, <1>3 DEF ValidateDefaultOfferQuantity
<1>5. ValidateOffers(s.offers, s.count) = {tiers0} /\ GoodTiers(tiers0, s.count)
  BY <1>0, OffersParsed
<1>6. tiers = tiers0
  BY <1>3, <1>5
<1>7. look = look0
  BY LookAgain
<1> HIDE DEF tiers0, look0
<1>8. /\ DOMAIN cta = CtaFields /\ GoodCta(cta)
      /\ cta.mode = s.mode /\ cta.interval = s.interval
      /\ ToSet(cta.positions) = ToSet(s.positions)
      /\ s.mode # "fixed_positions" => cta.positions = s.positions
  <2>1. DOMAIN cta = CtaFields /\ GoodCta(cta)
    BY <1>0, CtaValidated
  <2>2. {n} \ {0} \in SUBSET Int
    OBVIOUS
  <2> QED
    BY <1>0, <2>1, <2>2, CtaAgain
<1> DEFINE rest == [count |-> count, default |-> default, offers |-> ToJson(tiers)]
           a == cta ++ look
<1>9. /\ DOMAIN look = LookFields
      /\ \A f \in LookFields \ {"text"} : look[f] = s[f]
      /\ look.text = s.text \ {"blank"}
  BY <1>7, Fields DEF look0
<1>10. GoodColumns(look)
  <2>1. GoodLook("text", s.text \ {"blank"})
    <3>1. s.text # {} => \E x \in s.text : s.text = {x} /\ x # "long"
      BY <1>0, Fields DEF GoodLook, AtMostOne
    <3>2. s.text \ {"blank"} # {} =>
            \E x \in s.text \ {"blank"} : s.text \ {"blank"} = {x} /\ x # "long"
      BY <3>1
    <3> QED
      BY <3>2 DEF GoodLook, AtMostOne
  <2>2. \A f \in LookFields : GoodLook(f, look[f])
    BY <1>0, <1>9, <2>1
  <2> QED
    BY <1>9, <2>2, Fields DEF GoodColumns
<1>11. GoodColumns(cta)
  BY <1>8, Fields DEF GoodColumns
<1>12. /\ DOMAIN rest = {"count", "default", "offers"}
       /\ rest.count = count /\ rest.default = default /\ rest.offers = ToJson(tiers)
  OBVIOUS
<1> HIDE DEF rest
<1>13. GoodColumns(rest)
  <2>1. GoodOffers(rest)
    BY <1>0, <1>3, <1>5, <1>6, <1>12, OffersStored
  <2> QED
    BY <1>0, <1>4, <1>12, <2>1, Fields DEF GoodColumns
<1>14. /\ GoodColumns(a) /\ DOMAIN a = CtaFields \union LookFields
       /\ \A x \in CtaFields : a[x] = cta[x]
       /\ \A x \in LookFields : a[x] = look[x]
  <2>1. GoodColumns(a) /\ DOMAIN a = DOMAIN cta \union DOMAIN look
    BY <1>10, <1>11, Merged
  <2>2. /\ \A x \in DOMAIN cta : a[x] = cta[x]
        /\ \A x \in DOMAIN look \ DOMAIN cta : a[x] = look[x]
    BY OverFacts
  <2>3. LookFields \cap CtaFields = {}
    BY Fields
  <2> HIDE DEF a
  <2> QED
    BY <1>8, <1>9, <2>1, <2>2, <2>3
<1> HIDE DEF a
<1>15. columns = a ++ rest
  BY <1>2 DEF a, rest
<1>16. /\ GoodColumns(columns) /\ DOMAIN columns = DOMAIN a \union DOMAIN rest
       /\ \A x \in DOMAIN a : columns[x] = a[x]
       /\ \A x \in DOMAIN rest \ DOMAIN a : columns[x] = rest[x]
  <2>1. GoodColumns(a ++ rest) /\ DOMAIN (a ++ rest) = DOMAIN a \union DOMAIN rest
    BY <1>13, <1>14, Merged
  <2>2. /\ \A x \in DOMAIN a : (a ++ rest)[x] = a[x]
        /\ \A x \in DOMAIN rest \ DOMAIN a : (a ++ rest)[x] = rest[x]
    BY OverFacts
  <2> QED
    BY <1>15, <2>1, <2>2
<1>17. DOMAIN columns = SettingFields
  BY <1>12, <1>14, <1>16, Fields
<1>18. /\ \A x \in CtaFields : columns[x] = cta[x]
       /\ \A x \in LookFields : columns[x] = look[x]
       /\ columns.count = count /\ columns.default = default
       /\ columns.offers = ToJson(tiers)
  <2>1. \A x \in {"count", "default", "offers"} : x \in DOMAIN rest \ DOMAIN a
    BY <1>12, <1>14, Fields
  <2> QED
    BY <1>12, <1>14, <1>16, <2>1
<1>19. /\ columns.mode = cta.mode /\ columns.interval = cta.interval
       /\ columns.positions = cta.positions /\ columns.text = look.text
  BY <1>18, Fields
<1>20. LoadedAs(columns, s)
  BY <1>3, <1>4, <1>6, <1>8, <1>9, <1>18, <1>19 DEF LoadedAs, tiers0
<1> QED
  BY <1>4, <1>16, <1>17, <1>18, <1>20 DEF GoodSettings

(* A template is refused only for its positions or its default.             *)
LEMMA TemplateRefused ==
  ASSUME NEW s, GoodSettings(s), NEW n \in Nat, ParseTemplateConfig(s, n) = {}
  PROVE  \/ n > 0 /\ \E i \in DOMAIN s.positions : s.positions[i] > n
         \/ s.default > s.count
<1>0. /\ GoodCta(s) /\ GoodOffers(s)
      /\ s.count \in 1 .. MaxOfferCount /\ s.default \in 1 .. MaxOfferCount
  BY SettingsFacts
<1> SUFFICES ASSUME s.default <= s.count
             PROVE  n > 0 /\ \E i \in DOMAIN s.positions : s.positions[i] > n
  BY <1>0 DEF MaxOfferCount
<1>1. s.count \in ValidateOfferCount({s.count})
  BY <1>0 DEF ValidateOfferCount
<1>2. s.default \in ValidateDefaultOfferQuantity({s.default}, s.count)
  BY <1>0 DEF ValidateDefaultOfferQuantity, MaxOfferCount
<1>3. ParseStoredOffers(s.offers, s.count) \in ValidateOffers(s.offers, s.count)
  BY <1>0, OffersParsed
<1>4. PICK look : look \in ParseLook(s)
  BY LookAgain
<1>5. ValidateCtaConfig(s.mode, s.interval, s.positions, {n} \ {0}) = {}
  <2> SUFFICES ASSUME NEW cta \in ValidateCtaConfig(s.mode, s.interval, s.positions, {n} \ {0})
               PROVE  FALSE
    OBVIOUS
  <2> DEFINE Loads(count) ==
               {made ++ shown ++ [count |-> count, default |-> default,
                                  offers |-> ToJson(tiers)] :
                  made \in ValidateCtaConfig(s.mode, s.interval, s.positions, {n} \ {0}),
                  default \in ValidateDefaultOfferQuantity({s.default}, count),
                  tiers \in ValidateOffers(s.offers, count),
                  shown \in ParseLook(s)}
  <2>1. ParseTemplateConfig(s, n) = UNION {Loads(count) : count \in ValidateOfferCount({s.count})}
    BY DEF ParseTemplateConfig
  <2>2. cta ++ look ++ [count |-> s.count, default |-> s.default,
                        offers |-> ToJson(ParseStoredOffers(s.offers, s.count))]
          \in Loads(s.count)
    BY <1>2, <1>3, <1>4
  <2> HIDE DEF Loads
  <2> QED
    BY <1>1, <2>1, <2>2
<1>6. {n} \ {0} \in SUBSET Int
  OBVIOUS
<1>7. \E i \in DOMAIN s.positions, m \in {n} \ {0} : s.positions[i] > m
  BY <1>0, <1>5, <1>6, CtaAgain
<1> QED
  BY <1>7

----------------------------------------------------------------------------
(* How a request moves.                                                     *)

Others(h) ==
  /\ DOMAIN pc' = DOMAIN pc /\ DOMAIN job' = DOMAIN job
  /\ \A g \in Handlers \ {h} : pc'[g] = pc[g] /\ job'[g] = job[g]

LEMMA CountFacts ==
  ASSUME requests \in 0 .. MaxRequests, Count
  PROVE  requests' \in 0 .. MaxRequests
BY CatalogAssumption DEF CatalogAssumption, Count

LEMMA ArriveFacts ==
  ASSUME TypeOK, Requests, NEW h \in Handlers, NEW step, NEW request,
         Arrive(h, step, request)
  PROVE  /\ pc[h] = "idle" /\ pc'[h] = step /\ job'[h] = request /\ Others(h)
         /\ requests' \in 0 .. MaxRequests
BY CountFacts DEF Arrive, Requests, TypeOK, Others

LEMMA ContinueFacts ==
  ASSUME TypeOK, Requests, NEW h \in Handlers, NEW step, NEW fields,
         Continue(h, step, fields)
  PROVE  /\ pc'[h] = step /\ job'[h] = fields ++ job[h] /\ Others(h)
         /\ requests' \in 0 .. MaxRequests
BY DEF Continue, Requests, TypeOK, Others

LEMMA FinishFacts ==
  ASSUME TypeOK, Requests, NEW h \in Handlers, Finish(h)
  PROVE  /\ pc'[h] = "idle" /\ job'[h] = NoJob /\ Others(h) /\ Request(h)'
         /\ requests' \in 0 .. MaxRequests
BY DEF Finish, Requests, TypeOK, Others, Request, ReadingSteps

(* A request that does nothing stays what it was, as rows are never deleted.*)
LEMMA RequestKept ==
  ASSUME NEW g \in Handlers, Request(g), Stored \subseteq Stored',
         pc'[g] = pc[g], job'[g] = job[g]
  PROVE  Request(g)'
<1>1. CASE pc[g] = "idle"
  BY <1>1 DEF Request, ReadingSteps
<1>2. CASE pc[g] \in ReadingSteps
  BY <1>2 DEF Request, Checking, OnLanding, ReadingSteps
<1>3. CASE pc[g] = "write"
  <2>1. Editing(g) => Editing(g)'
    BY DEF Editing
  <2>2. Writing(g) => Writing(g)'
    BY DEF Writing, OnLanding, Fitting
  <2> QED
    BY <1>3, <2>1, <2>2 DEF Request, ReadingSteps
<1>4. CASE pc[g] = "stamp"
  BY <1>4 DEF Request, ReadingSteps
<1>5. CASE pc[g] \notin ReadingSteps \union {"idle", "write", "stamp"}
  BY <1>5 DEF Request, Instantiating
<1> QED
  BY <1>1, <1>2, <1>3, <1>4, <1>5

LEMMA RequestsKept ==
  ASSUME Requests, NEW h \in Handlers, Others(h), Stored \subseteq Stored', Request(h)'
  PROVE  Requests'
<1>1. \A g \in Handlers \ {h} : Request(g)'
  BY RequestKept DEF Requests, Others
<1> QED
  BY <1>1 DEF Requests, Others

(* A request that has read a landing since its last change.                 *)
Current(h) ==
  job[h].op \in {"config", "load"} =>
    \A p \in Stored \ contested :
      job[h].p = p => /\ job[h].row.count = landings[p].count
                      /\ job[h].row.default = landings[p].default

LEMMA Moved ==
  ASSUME IInv, NEW h \in Handlers, Others(h), UNCHANGED <<rows, unchecked, contested>>,
         requests' \in 0 .. MaxRequests, Request(h)', Current(h)'
  PROVE  IInv'
<1>1. TypeOK'
  BY DEF IInv, TypeOK, rows, Stored, SlugOwnedBy
<1>2. Requests'
  BY RequestsKept DEF IInv, rows, Stored
<1>3. Settings'
  BY DEF IInv, Settings, rows, Stored
<1>4. Priced'
  BY DEF IInv, Priced, rows, Stored, Tiers
<1>5. Uncontested'
  <2> SUFFICES ASSUME NEW p \in Stored \ contested
               PROVE  /\ landings[p].default <= landings[p].count
                      /\ \A g \in Handlers :
                           job'[g].op \in {"config", "load"} /\ job'[g].p = p =>
                             /\ job'[g].row.count = landings[p].count
                             /\ job'[g].row.default = landings[p].default
    BY DEF Uncontested, rows, Stored
  <2>1. /\ landings[p].default <= landings[p].count
        /\ \A g \in Handlers :
             job[g].op \in {"config", "load"} /\ job[g].p = p =>
               /\ job[g].row.count = landings[p].count
               /\ job[g].row.default = landings[p].default
    BY DEF IInv, Uncontested
  <2>2. job'[h].op \in {"config", "load"} /\ job'[h].p = p =>
          /\ job'[h].row.count = landings[p].count
          /\ job'[h].row.default = landings[p].default
    BY DEF Current, rows, Stored
  <2> QED
    BY <2>1, <2>2 DEF Others
<1> QED
  BY <1>1, <1>2, <1>3, <1>4, <1>5 DEF IInv

LEMMA Refused ==
  ASSUME IInv, NEW h \in Handlers, Refuse(h)
  PROVE  IInv'
<1>1. /\ job'[h] = NoJob /\ Others(h) /\ Request(h)' /\ requests' \in 0 .. MaxRequests
  BY FinishFacts DEF Refuse, IInv
<1>2. Current(h)'
  BY <1>1 DEF Current, NoJob
<1> QED
  BY <1>1, <1>2, Moved DEF Refuse

(* Requests that begin.                                                     *)
LEMMA StartUpdateProductKeeps ==
  ASSUME IInv, NEW h \in Handlers, NEW p \in Stored, NEW given \in ProductUpdates,
         StartUpdateProduct(h, p, given)
  PROVE  IInv'
<1> DEFINE request == [op |-> "product", p |-> p, columns |-> given,
                       seen |-> products[p].status]
<1>1. /\ Arrive(h, "write", request) /\ UNCHANGED <<rows, unchecked, contested>>
      /\ products[p].status # "retired"
  BY DEF StartUpdateProduct
<1>2. /\ pc'[h] = "write" /\ job'[h] = request /\ Others(h)
      /\ requests' \in 0 .. MaxRequests
  BY <1>1, ArriveFacts DEF IInv
<1>3. Editing(h)'
  BY <1>1, <1>2, UpdatesAssumption
  DEF Editing, ProductOperations, UpdatesAssumption, rows, Stored
<1>4. Current(h)'
  BY <1>2 DEF Current
<1>5. Request(h)'
  BY <1>2, <1>3 DEF Request
<1> QED
  BY <1>1, <1>2, <1>4, <1>5, Moved

LEMMA StartTransitionKeeps ==
  ASSUME IInv, NEW h \in Handlers, NEW p \in Stored, NEW op \in Lifecycle,
         StartTransition(h, p, op)
  PROVE  IInv'
<1>1. PICK status \in NextStatus(op, products[p].status) :
        /\ Arrive(h, "write", [op |-> op, p |-> p, columns |-> [status |-> status],
                               seen |-> products[p].status])
        /\ UNCHANGED <<rows, unchecked, contested>>
  BY DEF StartTransition
<1> DEFINE request == [op |-> op, p |-> p, columns |-> [status |-> status],
                       seen |-> products[p].status]
<1>2. /\ pc'[h] = "write" /\ job'[h] = request /\ Others(h)
      /\ requests' \in 0 .. MaxRequests
  BY <1>1, ArriveFacts DEF IInv
<1>3. products[p].status # "retired" /\ status \in {"active", "paused", "retired"}
  BY DEF NextStatus, Lifecycle
<1>4. op \in ProductOperations /\ op \notin {"config", "load"}
  BY DEF ProductOperations, Lifecycle
<1>5. Editing(h)'
  BY <1>1, <1>2, <1>3, <1>4 DEF Editing, rows, Stored
<1>6. Current(h)'
  BY <1>2, <1>4 DEF Current
<1>7. Request(h)'
  BY <1>2, <1>5 DEF Request
<1> QED
  BY <1>1, <1>2, <1>6, <1>7, Moved

LEMMA StartLandingKeeps ==
  ASSUME IInv, NEW h \in Handlers, NEW p \in Stored, NEW step \in ReadingSteps,
         NEW request, StartLanding(h, p, step, request),
         DOMAIN request \subseteq {"op", "given", "count"}, "op" \in DOMAIN request,
         request.op \in {"config", "publish", "save", "load"},
         request.op = "config" => /\ {"given", "count"} \subseteq DOMAIN request
                                  /\ request.given \in ConfigUpdates
  PROVE  IInv'
<1> DEFINE read == [p |-> p, row |-> landings[p]]
           full == request ++ read
<1>1. /\ Arrive(h, step, full) /\ UNCHANGED <<rows, unchecked, contested>>
  BY DEF StartLanding
<1>2. /\ DOMAIN full = DOMAIN request \union {"p", "row"}
      /\ \A x \in DOMAIN request : full[x] = request[x]
      /\ full.p = p /\ full.row = landings[p]
  <2>1. DOMAIN read = {"p", "row"} /\ read.p = p /\ read.row = landings[p]
    OBVIOUS
  <2> HIDE DEF read
  <2>2. /\ DOMAIN full = DOMAIN request \union DOMAIN read
        /\ \A x \in DOMAIN request : full[x] = request[x]
        /\ \A x \in DOMAIN read \ DOMAIN request : full[x] = read[x]
    BY OverFacts
  <2> HIDE DEF full
  <2>3. {"p", "row"} \cap DOMAIN request = {}
    OBVIOUS
  <2> QED
    BY <2>1, <2>2, <2>3
<1> HIDE DEF full
<1>3. /\ pc'[h] = step /\ job'[h] = full /\ Others(h)
      /\ requests' \in 0 .. MaxRequests
  BY <1>1, ArriveFacts DEF IInv
<1>4. GoodRow(landings[p])
  BY DEF IInv, Settings
<1>5. Checking(h)'
  BY <1>1, <1>2, <1>3, <1>4 DEF Checking, OnLanding, rows, Stored
<1>6. Current(h)'
  BY <1>1, <1>2, <1>3 DEF Current, rows, Stored
<1>7. Request(h)'
  BY <1>3, <1>5 DEF Request, ReadingSteps
<1> QED
  BY <1>1, <1>3, <1>6, <1>7, Moved

LEMMA StartsKeep ==
  ASSUME IInv, NEW h \in Handlers, NEW p \in Stored,
         \/ \E given \in ConfigUpdates : StartUpdateConfig(h, p, given)
         \/ StartPublish(h, p) \/ StartSave(h, p) \/ StartLoad(h, p)
  PROVE  IInv'
<1>1. ASSUME NEW given \in ConfigUpdates, StartUpdateConfig(h, p, given) PROVE IInv'
  <2> DEFINE request == [op |-> "config", given |-> given, count |-> 0]
  <2>1. PICK step \in ReadingSteps : StartLanding(h, p, step, request)
    BY <1>1 DEF StartUpdateConfig, AfterSlug, ReadingSteps
  <2>2. /\ DOMAIN request = {"op", "given", "count"} /\ request.op = "config"
        /\ request.given = given
    OBVIOUS
  <2> HIDE DEF request
  <2> QED
    BY <2>1, <2>2, StartLandingKeeps
<1>2. CASE StartPublish(h, p)
  BY <1>2, StartLandingKeeps DEF StartPublish, ReadingSteps
<1>3. CASE StartSave(h, p)
  BY <1>3, StartLandingKeeps DEF StartSave, ReadingSteps
<1>4. CASE StartLoad(h, p)
  BY <1>4, StartLandingKeeps DEF StartLoad, ReadingSteps
<1> QED
  BY <1>1, <1>2, <1>3, <1>4

LEMMA StartInstantiateKeeps ==
  ASSUME IInv, NEW h \in Handlers, NEW sku \in Skus, NEW slug \in Slugs,
         NEW price \in Prices, StartInstantiate(h, sku, slug, price)
  PROVE  IInv'
<1>1. PICK t \in template : \E settings \in ParseTemplateConfig(t.config, t.banners) :
        Arrive(h, "persist", [op |-> "instantiate", columns |-> settings, sku |-> sku,
                              slug |-> slug, price |-> price, banners |-> t.banners])
  BY DEF StartInstantiate
<1>2. PICK settings \in ParseTemplateConfig(t.config, t.banners) :
        Arrive(h, "persist", [op |-> "instantiate", columns |-> settings, sku |-> sku,
                              slug |-> slug, price |-> price, banners |-> t.banners])
  BY <1>1
<1>3. UNCHANGED <<rows, unchecked, contested>>
  BY DEF StartInstantiate
<1> DEFINE request == [op |-> "instantiate", columns |-> settings, sku |-> sku,
                       slug |-> slug, price |-> price, banners |-> t.banners]
<1>4. /\ pc'[h] = "persist" /\ job'[h] = request /\ Others(h)
      /\ requests' \in 0 .. MaxRequests
  BY <1>2, ArriveFacts DEF IInv
<1>5. GoodSettings(t.config) /\ t.banners \in 0 .. MaxBanners /\ t.banners \in Nat
  BY DEF IInv, Settings
<1>6. GoodSettings(settings) /\ settings.default <= settings.count
  BY <1>5, TemplateParsed
<1>7. Instantiating(h)'
  BY <1>4, <1>5, <1>6 DEF Instantiating
<1>8. Current(h)'
  BY <1>4 DEF Current
<1>9. Request(h)'
  BY <1>4, <1>7 DEF Request, ReadingSteps
<1> QED
  BY <1>3, <1>4, <1>8, <1>9, Moved

(* Requests that go on.                                                     *)
LEMMA ReadingKeeps ==
  ASSUME IInv, NEW h \in Handlers, NEW step \in ReadingSteps, NEW fields,
         pc[h] \in ReadingSteps, DOMAIN fields \subseteq {"count"},
         Continue(h, step, fields), UNCHANGED <<rows, unchecked, contested>>
  PROVE  IInv'
<1>1. Checking(h)
  BY DEF IInv, Requests, Request, ReadingSteps
<1>2. /\ pc'[h] = step /\ job'[h] = fields ++ job[h] /\ Others(h)
      /\ requests' \in 0 .. MaxRequests
  BY ContinueFacts DEF IInv
<1>3. /\ DOMAIN job[h] \subseteq DOMAIN job'[h]
      /\ \A x \in DOMAIN job[h] \ {"count"} : job'[h][x] = job[h][x]
  <2>1. /\ DOMAIN (fields ++ job[h]) = DOMAIN fields \union DOMAIN job[h]
        /\ \A x \in DOMAIN job[h] \ DOMAIN fields : (fields ++ job[h])[x] = job[h][x]
    BY OverFacts
  <2> QED
    BY <1>2, <2>1
<1>4. {"op", "p", "row"} \subseteq DOMAIN job[h]
  BY <1>1 DEF Checking, OnLanding
<1>5. /\ job'[h].op = job[h].op /\ job'[h].p = job[h].p /\ job'[h].row = job[h].row
      /\ "given" \in DOMAIN job[h] => job'[h].given = job[h].given
  BY <1>3, <1>4
<1>6. Checking(h)'
  BY <1>1, <1>3, <1>4, <1>5 DEF Checking, OnLanding, rows, Stored
<1>7. Current(h)'
  <2>1. Current(h)
    BY DEF Current, IInv, Uncontested
  <2>2. UNCHANGED landings /\ UNCHANGED contested /\ UNCHANGED Stored
    BY DEF rows, Stored
  <2> QED
    BY <1>5, <2>1, <2>2 DEF Current
<1>8. Request(h)'
  BY <1>2, <1>6 DEF Request, ReadingSteps
<1> QED
  BY <1>2, <1>7, <1>8, Moved

LEMMA CheckSlugKeeps ==
  ASSUME IInv, NEW h \in Handlers, CheckSlug(h)
  PROVE  IInv'
<1> DEFINE step == AfterSlug(job[h].given)
<1>1. step \in ReadingSteps /\ pc[h] \in ReadingSteps /\ DOMAIN NoColumns = {}
  BY DEF CheckSlug, AfterSlug, ReadingSteps, NoColumns
<1>2. \/ Refuse(h)
      \/ Continue(h, step, NoColumns) /\ UNCHANGED <<rows, unchecked, contested>>
  BY DEF CheckSlug
<1> HIDE DEF step
<1> QED
  BY <1>1, <1>2, Refused, ReadingKeeps

LEMMA CountBannersKeeps ==
  ASSUME IInv, NEW h \in Handlers, CountBanners(h)
  PROVE  IInv'
<1> DEFINE fields == [count |-> banners[job[h].p]]
<1>1. "check" \in ReadingSteps /\ pc[h] \in ReadingSteps /\ DOMAIN fields = {"count"}
  BY DEF CountBanners, ReadingSteps
<1>2. \/ Refuse(h)
      \/ Continue(h, "check", fields) /\ UNCHANGED <<rows, unchecked, contested>>
  BY DEF CountBanners
<1> HIDE DEF fields
<1> QED
  BY <1>1, <1>2, Refused, ReadingKeeps

LEMMA CheckConfigKeeps ==
  ASSUME IInv, NEW h \in Handlers, CheckConfig(h)
  PROVE  IInv'
<1>1. CASE ConfigColumns(h) \in {{}, {NoColumns}}
  BY <1>1, Refused DEF CheckConfig
<1>2. CASE ConfigColumns(h) \notin {{}, {NoColumns}}
  <2>1. PICK columns \in ConfigColumns(h) :
          /\ Continue(h, "write", [columns |-> columns, given |-> NoColumns,
                                   price |-> products[job[h].p].price,
                                   count |-> 0])
          /\ UNCHANGED <<rows, unchecked, contested>>
    BY <1>2 DEF CheckConfig
  <2> DEFINE p == job[h].p
             row == job[h].row
             given == job[h].given
             price == products[p].price
             fields == [columns |-> columns, given |-> NoColumns,
                        price |-> price, count |-> 0]
             slug == Given(given, "slug", row)
             moved == IF slug = row.slug THEN NoColumns ELSE [slug |-> slug]
  <2>2. /\ pc[h] = "check" /\ job[h].op = "config" /\ Checking(h)
    BY DEF CheckConfig, IInv, Requests, Request, ReadingSteps
  <2>3. /\ {"op", "p", "row", "given", "count"} \subseteq DOMAIN job[h]
        /\ p \in Stored /\ GoodRow(row) /\ given \in ConfigUpdates
    BY <2>2 DEF Checking, OnLanding
  <2>4. PICK update \in UpdateColumns(given, row, job[h].count, price) :
          columns = moved ++ update
    BY DEF ConfigColumns
  <2>5. /\ DOMAIN update \subseteq SettingFields /\ GoodColumns(update)
        /\ (update ++ row).default <= (update ++ row).count
        /\ "offers" \in DOMAIN update =>
             Priceable(price, ParseStoredOffers(update.offers, update.count))
    BY <2>3, UpdateFacts
  <2>6. DOMAIN moved \subseteq {"slug"} /\ GoodColumns(moved)
    <3>1. slug \in Slugs
      <4>1. row.slug \in Slugs
        BY <2>3, Fields DEF GoodRow, GoodColumns
      <4> QED
        BY <2>3, <4>1, UpdatesAssumption DEF UpdatesAssumption, Given
    <3>2. CASE slug = row.slug
      BY <3>2, NoColumnsFacts
    <3>3. CASE slug # row.slug
      <4>1. DOMAIN moved = {"slug"} /\ moved.slug = slug
        BY <3>3
      <4> HIDE DEF moved
      <4> QED
        BY <3>1, <4>1, Fields DEF GoodColumns
    <3> QED
      BY <3>2, <3>3
  <2> HIDE DEF moved, slug
  <2>7. /\ GoodColumns(columns) /\ DOMAIN columns = DOMAIN moved \union DOMAIN update
        /\ \A x \in SettingFields : /\ x \in DOMAIN columns <=> x \in DOMAIN update
                                    /\ x \in DOMAIN columns => columns[x] = update[x]
    <3>1. GoodColumns(moved ++ update) /\ DOMAIN (moved ++ update) = DOMAIN moved \union DOMAIN update
      BY <2>5, <2>6, Merged
    <3>2. \A x \in DOMAIN update \ DOMAIN moved : (moved ++ update)[x] = update[x]
      BY OverFacts
    <3>3. "slug" \notin SettingFields
      BY Fields
    <3> QED
      BY <2>4, <2>6, <3>1, <3>2, <3>3
  <2>8. /\ (columns ++ row).default = (update ++ row).default
        /\ (columns ++ row).count = (update ++ row).count
        /\ "offers" \in DOMAIN columns =>
             /\ (columns ++ row).count = update.count
             /\ (columns ++ row).offers = update.offers
    <3>1. {"default", "count", "offers"} \subseteq SettingFields
      BY Fields
    <3>2. /\ "offers" \in DOMAIN columns <=> "offers" \in DOMAIN update
          /\ "default" \in DOMAIN columns <=> "default" \in DOMAIN update
          /\ "offers" \in DOMAIN columns => columns.offers = update.offers
          /\ "default" \in DOMAIN columns => columns.default = update.default
      BY <2>7, <3>1
    <3>3. "offers" \in DOMAIN columns => columns.count = update.count
      <4>1. "offers" \in DOMAIN columns => "count" \in DOMAIN columns
        BY <2>7, Fields DEF GoodColumns
      <4> QED
        BY <2>7, <3>1, <4>1
    <3> QED
      BY <2>3, <2>5, <2>7, <3>2, <3>3, MergedOffers
  <2>9. /\ pc'[h] = "write" /\ job'[h] = fields ++ job[h] /\ Others(h)
        /\ requests' \in 0 .. MaxRequests
    BY <2>1, ContinueFacts DEF IInv
  <2>10. /\ {"op", "p", "row", "columns", "price"} \subseteq DOMAIN job'[h]
         /\ job'[h].columns = columns /\ job'[h].price = price
         /\ job'[h].op = "config" /\ job'[h].p = p /\ job'[h].row = row
    <3>1. /\ DOMAIN fields = {"columns", "given", "price", "count"}
          /\ fields.columns = columns /\ fields.price = price
      OBVIOUS
    <3> HIDE DEF fields
    <3>2. /\ DOMAIN (fields ++ job[h]) = DOMAIN fields \union DOMAIN job[h]
          /\ \A x \in DOMAIN fields : (fields ++ job[h])[x] = fields[x]
          /\ \A x \in DOMAIN job[h] \ DOMAIN fields : (fields ++ job[h])[x] = job[h][x]
      BY OverFacts
    <3> QED
      BY <2>2, <2>3, <2>9, <3>1, <3>2
  <2> HIDE DEF p, row, given, price, fields
  <2>11. Fitting(h)'
    BY <2>5, <2>7, <2>8, <2>10, Fields DEF Fitting
  <2>12. OnLanding(h)'
    BY <2>1, <2>3, <2>10 DEF OnLanding, rows, Stored
  <2>13. Writing(h)'
    BY <2>7, <2>10, <2>11, <2>12 DEF Writing
  <2>14. Current(h)'
    <3>1. Current(h)
      BY DEF Current, IInv, Uncontested
    <3>2. UNCHANGED landings /\ UNCHANGED contested /\ UNCHANGED Stored
      BY <2>1 DEF rows, Stored
    <3> QED
      BY <2>2, <2>10, <3>1, <3>2 DEF Current, p, row
  <2>15. Request(h)'
    BY <2>9, <2>13 DEF Request
  <2> QED
    BY <2>1, <2>9, <2>14, <2>15, Moved
<1> QED
  BY <1>1, <1>2

LEMMA CheckPublishKeeps ==
  ASSUME IInv, NEW h \in Handlers, CheckPublish(h)
  PROVE  IInv'
<1>1. CASE ~Publishable(job[h].row, banners[job[h].p])
  BY <1>1, Refused DEF CheckPublish
<1>2. CASE Publishable(job[h].row, banners[job[h].p])
  <2> DEFINE published == [status |-> "published"]
             fields == [columns |-> published]
  <2>1. /\ Continue(h, "write", fields) /\ UNCHANGED <<rows, unchecked, contested>>
    BY <1>2 DEF CheckPublish
  <2>2. /\ pc[h] = "check" /\ job[h].op = "publish" /\ Checking(h)
    BY DEF CheckPublish, IInv, Requests, Request, ReadingSteps
  <2>3. /\ pc'[h] = "write" /\ job'[h] = fields ++ job[h] /\ Others(h)
        /\ requests' \in 0 .. MaxRequests
    BY <2>1, ContinueFacts DEF IInv
  <2>4. /\ {"op", "p", "row"} \subseteq DOMAIN job[h]
        /\ job[h].p \in Stored /\ GoodRow(job[h].row)
    BY <2>2 DEF Checking, OnLanding
  <2>5. /\ DOMAIN job'[h] = {"columns"} \union DOMAIN job[h]
        /\ job'[h].columns = published
        /\ job'[h].op = "publish" /\ job'[h].p = job[h].p /\ job'[h].row = job[h].row
    <3>1. DOMAIN fields = {"columns"} /\ fields.columns = published
      OBVIOUS
    <3> HIDE DEF fields
    <3>2. /\ DOMAIN (fields ++ job[h]) = DOMAIN fields \union DOMAIN job[h]
          /\ \A x \in DOMAIN fields : (fields ++ job[h])[x] = fields[x]
          /\ \A x \in DOMAIN job[h] \ DOMAIN fields : (fields ++ job[h])[x] = job[h][x]
      BY OverFacts
    <3> QED
      BY <2>2, <2>3, <2>4, <3>1, <3>2
  <2>6. GoodColumns(published)
    <3>1. DOMAIN published = {"status"} /\ published.status = "published"
      OBVIOUS
    <3> HIDE DEF published
    <3> QED
      BY <3>1, Fields DEF GoodColumns
  <2>7. OnLanding(h)'
    BY <2>1, <2>4, <2>5 DEF OnLanding, rows, Stored
  <2>8. Writing(h)'
    BY <2>5, <2>6, <2>7 DEF Writing
  <2>9. Current(h)'
    BY <2>5 DEF Current
  <2>10. Request(h)'
    BY <2>3, <2>8 DEF Request
  <2> HIDE DEF fields
  <2> QED
    BY <2>1, <2>3, <2>9, <2>10, Moved
<1> QED
  BY <1>1, <1>2

LEMMA CheckLoadKeeps ==
  ASSUME IInv, NEW h \in Handlers, CheckLoad(h)
  PROVE  IInv'
<1> DEFINE p == job[h].p
           row == job[h].row
           fitting == {s \in template : s.banners = banners[p]}
           columns == UNION {ParseTemplateConfig(t.config, banners[p]) : t \in fitting}
<1>1. CASE columns = {}
  BY <1>1, Refused DEF CheckLoad
<1>2. CASE columns # {}
  <2>1. PICK loaded \in columns :
          /\ Continue(h, "write", [columns |-> loaded])
          /\ UNCHANGED <<rows, unchecked, contested>>
    BY <1>2 DEF CheckLoad
  <2>2. /\ pc[h] = "check" /\ job[h].op = "load" /\ Checking(h)
    BY DEF CheckLoad, IInv, Requests, Request, ReadingSteps
  <2>3. PICK t \in template : loaded \in ParseTemplateConfig(t.config, banners[p])
    OBVIOUS
  <2> HIDE DEF columns
  <2>4. /\ {"op", "p", "row"} \subseteq DOMAIN job[h] /\ p \in Stored /\ GoodRow(row)
    BY <2>2 DEF Checking, OnLanding
  <2>5. GoodSettings(t.config) /\ banners[p] \in Nat
    BY <2>4 DEF IInv, Settings, TypeOK
  <2>6. GoodSettings(loaded) /\ loaded.default <= loaded.count
    BY <2>3, <2>5, TemplateParsed
  <2>7. GoodColumns(loaded) /\ DOMAIN loaded = SettingFields
    BY <2>6 DEF GoodSettings
  <2>8. (loaded ++ row).default = loaded.default /\ (loaded ++ row).count = loaded.count
    BY <2>4, <2>7, MergedOffers, Fields
  <2> DEFINE fields == [columns |-> loaded]
  <2>9. /\ pc'[h] = "write" /\ job'[h] = fields ++ job[h] /\ Others(h)
        /\ requests' \in 0 .. MaxRequests
    BY <2>1, ContinueFacts DEF IInv
  <2>10. /\ DOMAIN job'[h] = {"columns"} \union DOMAIN job[h]
         /\ job'[h].columns = loaded
         /\ job'[h].op = "load" /\ job'[h].p = p /\ job'[h].row = row
    <3>1. DOMAIN fields = {"columns"} /\ fields.columns = loaded
      OBVIOUS
    <3> HIDE DEF fields
    <3>2. /\ DOMAIN (fields ++ job[h]) = DOMAIN fields \union DOMAIN job[h]
          /\ \A x \in DOMAIN fields : (fields ++ job[h])[x] = fields[x]
          /\ \A x \in DOMAIN job[h] \ DOMAIN fields : (fields ++ job[h])[x] = job[h][x]
      BY OverFacts
    <3> QED
      BY <2>2, <2>4, <2>9, <3>1, <3>2
  <2> HIDE DEF p, row, fields
  <2>11. Fitting(h)'
    BY <2>6, <2>8, <2>10 DEF Fitting
  <2>12. OnLanding(h)'
    BY <2>1, <2>4, <2>10 DEF OnLanding, rows, Stored
  <2>13. Writing(h)'
    BY <2>7, <2>10, <2>11, <2>12 DEF Writing
  <2>14. Current(h)'
    <3>1. Current(h)
      BY DEF Current, IInv, Uncontested
    <3>2. UNCHANGED landings /\ UNCHANGED contested /\ UNCHANGED Stored
      BY <2>1 DEF rows, Stored
    <3> QED
      BY <2>2, <2>10, <3>1, <3>2 DEF Current, p, row
  <2>15. Request(h)'
    BY <2>9, <2>13 DEF Request
  <2> QED
    BY <2>1, <2>9, <2>14, <2>15, Moved
<1> QED
  BY <1>1, <1>2

(* What an edited or settled landing is, and what a snapshot of it is.      *)
LEMMA RowFacts ==
  ASSUME NEW r, GoodRow(r)
  PROVE  /\ DOMAIN r = LandingColumns /\ GoodColumns(r) /\ GoodOffers(r)
         /\ r.status \in {"draft", "published"} /\ r.slug \in Slugs
         /\ r.count \in 1 .. MaxOfferCount /\ r.default \in 1 .. MaxOfferCount
BY Fields DEF GoodRow, GoodColumns, GoodOffers

LEMMA SnapshotFacts ==
  ASSUME NEW r, GoodRow(r)
  PROVE  /\ GoodSettings(SnapshotConfig(r))
         /\ \A f \in SettingFields : SnapshotConfig(r)[f] = r[f]
<1> DEFINE s == SnapshotConfig(r)
<1>1. DOMAIN s = SettingFields /\ \A f \in SettingFields : s[f] = r[f]
  BY DEF SnapshotConfig, Restrict
<1> HIDE DEF s
<1>2. /\ GoodCta(r) /\ GoodOffers(r) /\ r.default \in 1 .. MaxOfferCount
      /\ \A f \in LookFields : GoodLook(f, r[f])
  BY Fields DEF GoodRow, GoodColumns
<1>3. /\ s.mode = r.mode /\ s.interval = r.interval /\ s.positions = r.positions
      /\ s.count = r.count /\ s.offers = r.offers /\ s.default = r.default
      /\ \A f \in LookFields : s[f] = r[f]
  BY <1>1, Fields
<1>4. GoodCta(s)
  BY <1>2, <1>3 DEF GoodCta
<1>5. GoodOffers(s)
  BY <1>2, <1>3 DEF GoodOffers
<1>6. GoodColumns(s)
  BY <1>1, <1>2, <1>3, <1>4, <1>5, Fields DEF GoodColumns
<1> QED
  BY <1>1, <1>6 DEF GoodSettings, s

LEMMA OpenLanding ==
  ASSUME Requests, NEW g \in Handlers, job[g].op \in {"config", "load"}
  PROVE  /\ OnLanding(g) /\ job[g].p \in Stored
         /\ pc[g] \in ReadingSteps \/ (pc[g] = "write" /\ Writing(g))
<1>1. Request(g)
  BY DEF Requests
<1> QED
  BY <1>1 DEF Request, Checking, Editing, Writing, Instantiating, OnLanding,
     ProductOperations, Lifecycle, NoJob

LEMMA UncontestedFacts ==
  Uncontested <=> /\ \A p \in Stored \ contested : landings[p].default <= landings[p].count
                  /\ \A g \in Handlers : Current(g)
BY DEF Uncontested, Current

(* A request that reads nothing of a landing, or goes on as it was.         *)
Still(h) ==
  \A g \in Handlers : \/ job'[g] = job[g]
                      \/ g = h /\ job'[g].op \notin {"config", "load"}

ProductRow == [status : {"active", "paused", "retired"}, sku : Skus, price : Prices,
               retiredAt : BOOLEAN]

(* A new product and its landing.                                           *)
LEMMA Inserted ==
  ASSUME IInv, NEW h, Still(h), Requests', requests' \in 0 .. MaxRequests,
         NEW p \in Products \ Stored, NEW product \in ProductRow, NEW landing,
         NEW count \in 0 .. MaxBanners, GoodRow(landing),
         landing.default <= landing.count, SkuFree(product.sku), SlugFree(landing.slug),
         Insert(p, product, landing, count), UNCHANGED <<template, contested>>,
         unchecked \subseteq unchecked', unchecked' \subseteq unchecked \union {p},
         p \in unchecked' \/ Priceable(product.price,
                               ParseStoredOffers(landing.offers, landing.count))
  PROVE  IInv'
<1>0. TypeOK /\ Requests /\ Settings /\ Priced /\ Uncontested
  BY DEF IInv
<1>1. /\ Stored' = Stored \union {p}
      /\ DOMAIN landings' = Stored \union {p} /\ DOMAIN banners' = Stored \union {p}
      /\ products'[p] = product /\ landings'[p] = landing /\ banners'[p] = count
      /\ \A q \in Stored : /\ products'[q] = products[q] /\ landings'[q] = landings[q]
                           /\ banners'[q] = banners[q]
  <2>1. DOMAIN landings = Stored /\ DOMAIN banners = Stored /\ DOMAIN products = Stored
    BY <1>0 DEF TypeOK, Stored
  <2> QED
    BY <2>1 DEF Insert, ++, Stored
<1>2. /\ landing.status \in {"draft", "published"} /\ landing.slug \in Slugs
      /\ landing.count \in 1 .. MaxOfferCount /\ landing.default \in 1 .. MaxOfferCount
      /\ DOMAIN landing = LandingColumns
  BY RowFacts
<1>3. /\ \A q \in Stored : products[q].sku # product.sku
      /\ \A q \in Stored : landings[q].slug # landing.slug
  BY DEF SkuFree, SlugFree
<1>4. TypeOK'
  <2>1. Stored' \subseteq Products
    BY <1>0, <1>1 DEF TypeOK
  <2>2. ASSUME NEW q \in Stored'
        PROVE  /\ products'[q] \in ProductRow
               /\ DOMAIN landings'[q] = LandingColumns
               /\ landings'[q].status \in {"draft", "published"}
               /\ landings'[q].slug \in Slugs
               /\ landings'[q].count \in 1 .. MaxOfferCount
               /\ landings'[q].default \in 1 .. MaxOfferCount
               /\ banners'[q] \in 0 .. MaxBanners
    BY <1>0, <1>1, <1>2 DEF TypeOK, ProductRow
  <2>3. ASSUME NEW q \in Stored', NEW r \in Stored' \ {q}
        PROVE  landings'[r].slug # landings'[q].slug /\ products'[r].sku # products'[q].sku
    BY <1>0, <1>1, <1>3 DEF TypeOK, SlugOwnedBy
  <2>4. unchecked' \subseteq Stored' /\ contested' \subseteq Stored'
    BY <1>0, <1>1 DEF TypeOK
  <2> QED
    BY <1>1, <2>1, <2>2, <2>3, <2>4 DEF TypeOK, SlugOwnedBy, ProductRow
<1>5. Settings'
  BY <1>0, <1>1 DEF Settings
<1>6. Priced'
  BY <1>0, <1>1 DEF Priced, Tiers
<1>7. Uncontested'
  <2>1. ASSUME NEW q \in (Stored \ contested)'
        PROVE  landings'[q].default <= landings'[q].count
    BY <1>0, <1>1 DEF Uncontested
  <2>2. ASSUME NEW g \in Handlers
        PROVE  Current(g)'
    <3> SUFFICES ASSUME job'[g].op \in {"config", "load"}, NEW q \in (Stored \ contested)',
                        job'[g].p = q
                 PROVE  /\ job'[g].row.count = landings'[q].count
                        /\ job'[g].row.default = landings'[q].default
      BY DEF Current
    <3>1. job'[g] = job[g]
      BY DEF Still
    <3>2. q \in Stored
      BY <1>0, <3>1, OpenLanding
    <3> QED
      BY <1>0, <1>1, <3>1, <3>2 DEF Uncontested
  <2> QED
    BY <2>1, <2>2 DEF Uncontested, Current
<1> QED
  BY <1>4, <1>5, <1>6, <1>7 DEF IInv

LEMMA CreateProductKeeps ==
  ASSUME IInv, NEW p \in Products, NEW sku \in Skus, NEW price \in Prices,
         NEW status \in {"active", "paused"}, CreateProduct(p, sku, price, status)
  PROVE  IInv'
<1> DEFINE product == [status |-> status, sku |-> sku, price |-> price, retiredAt |-> FALSE]
<1>1. /\ Count /\ p \notin Stored /\ SkuFree(sku) /\ SlugFree(DraftSlug[p])
      /\ Insert(p, product, NewLanding(p), 0)
      /\ UNCHANGED <<template, pc, job, unchecked, contested>>
  BY DEF CreateProduct
<1>2. product \in ProductRow /\ product.sku = sku /\ product.price = price
  BY DEF ProductRow
<1>3. requests' \in 0 .. MaxRequests
  BY <1>1, CountFacts DEF IInv, TypeOK
<1>4. 0 \in 0 .. MaxBanners
  BY CatalogAssumption DEF CatalogAssumption
<1>5. Stored \subseteq Stored'
  BY <1>1 DEF Insert, ++, Stored
<1>6. Requests'
  BY <1>1, <1>5, RequestKept DEF IInv, Requests
<1>7. \A h : Still(h)
  BY <1>1 DEF Still
<1> HIDE DEF product
<1> QED
  BY <1>1, <1>2, <1>3, <1>4, <1>6, <1>7, NewRow, Inserted

LEMMA PersistKeeps ==
  ASSUME IInv, NEW h \in Handlers, Persist(h)
  PROVE  IInv'
<1> DEFINE j == job[h]
           tail == [status |-> "published", slug |-> j.slug]
           landing == j.columns ++ tail
           product == [status |-> "active", sku |-> j.sku, price |-> j.price,
                       retiredAt |-> FALSE]
<1>1. CASE ~SkuFree(j.sku) \/ ~SlugFree(j.slug)
  BY <1>1, Refused DEF Persist
<1>2. CASE SkuFree(j.sku) /\ SlugFree(j.slug)
  <2>1. PICK p \in Products \ Stored :
          /\ Insert(p, product, landing, j.banners)
          /\ unchecked' = unchecked \union {p}
          /\ Finish(h)
          /\ UNCHANGED <<template, contested>>
    BY <1>2 DEF Persist
  <2>2. Instantiating(h)
    BY DEF Persist, IInv, Requests, Request, ReadingSteps
  <2>3. product \in ProductRow /\ product.sku = j.sku
    BY <2>2 DEF ProductRow, Instantiating
  <2>4. /\ DOMAIN j.columns = SettingFields /\ GoodColumns(j.columns)
        /\ j.columns.default <= j.columns.count
    BY <2>2 DEF Instantiating, GoodSettings
  <2>5. DOMAIN tail = {"status", "slug"} /\ tail.slug = j.slug /\ tail.status = "published"
    OBVIOUS
  <2> HIDE DEF tail
  <2>6. GoodColumns(tail)
    BY <2>2, <2>5, Fields DEF Instantiating, GoodColumns
  <2>7. /\ DOMAIN landing = SettingFields \union {"status", "slug"} /\ GoodColumns(landing)
        /\ \A x \in SettingFields : landing[x] = j.columns[x]
        /\ landing.slug = j.slug
    <3>1. /\ DOMAIN landing = DOMAIN j.columns \union DOMAIN tail
          /\ GoodColumns(landing)
      BY <2>4, <2>6, Merged
    <3>2. /\ \A x \in DOMAIN j.columns : landing[x] = j.columns[x]
          /\ \A x \in DOMAIN tail \ DOMAIN j.columns : landing[x] = tail[x]
      BY OverFacts
    <3>3. "slug" \notin SettingFields
      BY Fields
    <3> QED
      BY <2>4, <2>5, <3>1, <3>2, <3>3
  <2> HIDE DEF landing
  <2>8. GoodRow(landing) /\ landing.default <= landing.count
    BY <2>4, <2>7, Fields DEF GoodRow
  <2>9. /\ job'[h] = NoJob /\ Others(h) /\ Request(h)' /\ requests' \in 0 .. MaxRequests
    BY <2>1, FinishFacts DEF IInv
  <2>10. Stored \subseteq Stored'
    BY <2>1 DEF Insert, ++, Stored
  <2>11. Requests'
    BY <2>9, <2>10, RequestsKept DEF IInv
  <2>12. Still(h)
    BY <2>9 DEF Still, Others, NoJob
  <2>13. j.banners \in 0 .. MaxBanners
    BY <2>2 DEF Instantiating
  <2>14. SkuFree(product.sku) /\ SlugFree(landing.slug)
    BY <1>2, <2>3, <2>7
  <2> HIDE DEF product, j
  <2> QED
    BY <2>1, <2>3, <2>8, <2>9, <2>11, <2>12, <2>13, <2>14, Inserted
<1> QED
  BY <1>1, <1>2

(* A product row that changes: its landing does not.                        *)
LEMMA ProductChanged ==
  ASSUME IInv, NEW h, Still(h), Requests', requests' \in 0 .. MaxRequests,
         NEW p \in Stored, NEW product \in ProductRow,
         products' = [products EXCEPT ![p] = product],
         \A q \in Stored \ {p} : products[q].sku # product.sku,
         UNCHANGED <<landings, banners, template, contested>>,
         unchecked' \in {unchecked, unchecked \union {p}},
         p \in unchecked' \/ product.price = products[p].price
  PROVE  IInv'
<1>0. TypeOK /\ Settings /\ Priced /\ Uncontested
  BY DEF IInv
<1>1. /\ Stored' = Stored
      /\ products'[p] = product
      /\ \A q \in Stored \ {p} : products'[q] = products[q]
  BY DEF Stored
<1>2. TypeOK'
  <2>1. ASSUME NEW q \in Stored'
        PROVE  /\ products'[q] \in ProductRow
               /\ \A r \in Stored' \ {q} : products'[r].sku # products'[q].sku
    BY <1>0, <1>1 DEF TypeOK, ProductRow
  <2>2. unchecked' \subseteq Stored'
    BY <1>0, <1>1 DEF TypeOK
  <2> QED
    BY <1>0, <1>1, <2>1, <2>2 DEF TypeOK, SlugOwnedBy, ProductRow
<1>3. Settings'
  BY <1>0, <1>1 DEF Settings
<1>4. Priced'
  BY <1>0, <1>1 DEF Priced, Tiers
<1>5. Uncontested'
  BY <1>0, <1>1, UncontestedFacts DEF Uncontested, Current, Still
<1> QED
  BY <1>2, <1>3, <1>4, <1>5 DEF IInv

LEMMA WriteProductKeeps ==
  ASSUME IInv, NEW h \in Handlers, WriteProduct(h)
  PROVE  IInv'
<1> DEFINE p == job[h].p
           columns == job[h].columns
           taken == /\ "sku" \in DOMAIN columns
                    /\ \E q \in Stored \ {p} : products[q].sku = columns.sku
           product == columns ++ products[p]
<1>1. CASE taken
  BY <1>1, Refused DEF WriteProduct
<1>2. CASE ~taken
  <2>1. /\ products' = [products EXCEPT ![p] = product]
        /\ unchecked' = IF "price" \in DOMAIN columns
                        THEN unchecked \union {p} ELSE unchecked
        /\ IF job[h].op = "retire" THEN Continue(h, "stamp", NoColumns) ELSE Finish(h)
        /\ UNCHANGED <<landings, banners, template, contested>>
    BY <1>2 DEF WriteProduct
  <2>2. Editing(h)
    <3>1. Request(h) /\ pc[h] = "write" /\ job[h].op \in ProductOperations
      BY DEF WriteProduct, IInv, Requests
    <3> QED
      BY <3>1 DEF Request, Writing, OnLanding, ProductOperations, Lifecycle
  <2>3. /\ p \in Stored /\ DOMAIN columns \subseteq {"sku", "price", "status"}
        /\ products[p] \in ProductRow
    BY <2>2 DEF Editing, IInv, TypeOK, ProductRow
  <2>4. /\ product \in ProductRow
        /\ "price" \notin DOMAIN columns => product.price = products[p].price
        /\ \A q \in Stored \ {p} : products[q].sku # product.sku
    <3>1. DOMAIN products[p] = {"status", "sku", "price", "retiredAt"}
      BY <2>3 DEF ProductRow
    <3>2. /\ DOMAIN product = {"status", "sku", "price", "retiredAt"}
          /\ \A x \in DOMAIN columns : product[x] = columns[x]
          /\ \A x \in DOMAIN products[p] \ DOMAIN columns : product[x] = products[p][x]
      <4>1. /\ DOMAIN product = DOMAIN columns \union DOMAIN products[p]
            /\ \A x \in DOMAIN columns : product[x] = columns[x]
            /\ \A x \in DOMAIN products[p] \ DOMAIN columns : product[x] = products[p][x]
        BY OverFacts
      <4> HIDE DEF product
      <4> QED
        BY <2>3, <3>1, <4>1
    <3>3. product = [x \in DOMAIN product |-> product[x]]
      BY DEF ++
    <3> HIDE DEF product
    <3>4. /\ product.status \in {"active", "paused", "retired"}
          /\ product.sku \in Skus /\ product.price \in Prices
          /\ product.retiredAt \in BOOLEAN
      BY <2>2, <2>3, <3>1, <3>2 DEF Editing, ProductRow
    <3>5. product = [status |-> product.status, sku |-> product.sku,
                     price |-> product.price, retiredAt |-> product.retiredAt]
      BY <3>2, <3>3
    <3>6. \A q \in Stored \ {p} : products[q].sku # product.sku
      <4>1. "sku" \in DOMAIN columns => product.sku = columns.sku
        BY <3>2
      <4>2. "sku" \notin DOMAIN columns => product.sku = products[p].sku
        BY <3>1, <3>2
      <4>3. \A q \in Stored \ {p} : products[q].sku # products[p].sku
        BY <2>3 DEF IInv, TypeOK
      <4> QED
        BY <1>2, <4>1, <4>2, <4>3
    <3> QED
      BY <3>1, <3>2, <3>4, <3>5, <3>6 DEF ProductRow
  <2>5. /\ Others(h) /\ Request(h)' /\ requests' \in 0 .. MaxRequests
        /\ job'[h].op \notin {"config", "load"}
    <3>1. CASE job[h].op = "retire"
      <4>1. /\ pc'[h] = "stamp" /\ job'[h] = NoColumns ++ job[h] /\ Others(h)
            /\ requests' \in 0 .. MaxRequests
        BY <2>1, <3>1, ContinueFacts DEF IInv
      <4>2. job'[h].op = "retire" /\ job'[h].p = p
        <5>1. \A x \in DOMAIN job[h] \ DOMAIN NoColumns : (NoColumns ++ job[h])[x] = job[h][x]
          BY OverFacts
        <5>2. {"op", "p"} \subseteq DOMAIN job[h]
          BY <2>2 DEF Editing
        <5> QED
          BY <3>1, <4>1, <5>1, <5>2, NoColumnsFacts
      <4>3. Stored' = Stored
        BY <2>1 DEF Stored
      <4>4. Request(h)'
        BY <2>3, <4>1, <4>2, <4>3 DEF Request
      <4> QED
        BY <4>1, <4>2, <4>4
    <3>2. CASE job[h].op # "retire"
      <4>1. /\ job'[h] = NoJob /\ Others(h) /\ Request(h)' /\ requests' \in 0 .. MaxRequests
        BY <2>1, <3>2, FinishFacts DEF IInv
      <4> QED
        BY <4>1 DEF NoJob
    <3> QED
      BY <3>1, <3>2
  <2> HIDE DEF product
  <2>6. Requests'
    <3>1. Stored \subseteq Stored'
      BY <2>1 DEF Stored
    <3> QED
      BY <2>5, <3>1, RequestsKept DEF IInv
  <2>7. Still(h)
    BY <2>5 DEF Still, Others
  <2>8. /\ unchecked' \in {unchecked, unchecked \union {p}}
        /\ p \in unchecked' \/ product.price = products[p].price
    BY <2>1, <2>4
  <2> HIDE DEF p, columns
  <2> QED
    BY <2>1, <2>3, <2>4, <2>5, <2>6, <2>7, <2>8, ProductChanged
<1> QED
  BY <1>1, <1>2

LEMMA StampRetirementKeeps ==
  ASSUME IInv, NEW h \in Handlers, StampRetirement(h)
  PROVE  IInv'
<1> DEFINE p == job[h].p
           product == [products[p] EXCEPT !.retiredAt = TRUE]
<1>1. /\ products' = [products EXCEPT ![p] = product]
      /\ Finish(h) /\ UNCHANGED <<landings, banners, template, unchecked, contested>>
  BY DEF StampRetirement
<1>2. p \in Stored
  BY DEF StampRetirement, IInv, Requests, Request
<1>3. products[p] \in ProductRow
  BY <1>2 DEF IInv, TypeOK, ProductRow
<1>4. /\ product \in ProductRow /\ product.sku = products[p].sku
      /\ product.price = products[p].price
  BY <1>3 DEF ProductRow
<1>5. \A q \in Stored \ {p} : products[q].sku # product.sku
  <2>1. \A q \in Stored \ {p} : products[q].sku # products[p].sku
    BY <1>2 DEF IInv, TypeOK
  <2> QED
    BY <1>4, <2>1
<1>6. /\ job'[h] = NoJob /\ Others(h) /\ Request(h)' /\ requests' \in 0 .. MaxRequests
  BY <1>1, FinishFacts DEF IInv
<1>7. Requests'
  <2>1. Stored \subseteq Stored'
    BY <1>1 DEF Stored
  <2> QED
    BY <1>6, <2>1, RequestsKept DEF IInv
<1>8. Still(h)
  BY <1>6 DEF Still, Others, NoJob
<1> HIDE DEF p, product
<1> QED
  BY <1>1, <1>2, <1>4, <1>5, <1>6, <1>7, <1>8, ProductChanged

(* Landings and templates.                                                  *)
LEMMA SaveTemplateKeeps ==
  ASSUME IInv, NEW h \in Handlers, SaveTemplate(h)
  PROVE  IInv'
<1> DEFINE saved == [config |-> SnapshotConfig(job[h].row), banners |-> banners[job[h].p]]
<1>1. /\ template' = {saved} /\ Finish(h)
      /\ UNCHANGED <<products, landings, banners, unchecked, contested>>
  BY DEF SaveTemplate
<1>2. job[h].p \in Stored /\ GoodRow(job[h].row)
  BY DEF SaveTemplate, IInv, Requests, Request, Checking, OnLanding, ReadingSteps
<1>3. GoodSettings(saved.config) /\ saved.banners \in 0 .. MaxBanners
  BY <1>2, SnapshotFacts DEF IInv, TypeOK
<1>4. /\ job'[h] = NoJob /\ Others(h) /\ Request(h)' /\ requests' \in 0 .. MaxRequests
  BY <1>1, FinishFacts DEF IInv
<1>5. Requests'
  <2>1. Stored \subseteq Stored'
    BY <1>1 DEF Stored
  <2> QED
    BY <1>4, <2>1, RequestsKept DEF IInv
<1>6. Still(h)
  BY <1>4 DEF Still, Others, NoJob
<1> HIDE DEF saved
<1>7. TypeOK'
  BY <1>1, <1>4 DEF IInv, TypeOK, Stored, SlugOwnedBy
<1>8. Settings'
  BY <1>1, <1>3 DEF IInv, Settings, Stored
<1>9. Priced'
  BY <1>1 DEF IInv, Priced, Tiers, Stored
<1>10. Uncontested'
  BY <1>1, <1>6 DEF IInv, Uncontested, Still, Stored
<1> QED
  BY <1>5, <1>7, <1>8, <1>9, <1>10 DEF IInv

(* A landing row that changes, with its slug still its own.                 *)
LEMMA LandingChanged ==
  ASSUME IInv, Requests', requests' \in 0 .. MaxRequests,
         NEW p \in Stored, NEW landing, GoodRow(landing),
         landings' = [landings EXCEPT ![p] = landing],
         SlugOwnedBy(p, landing.slug),
         UNCHANGED <<products, banners, template>>,
         unchecked' \subseteq Stored, unchecked \ {p} \subseteq unchecked',
         contested' \subseteq Stored, contested \subseteq contested',
         p \in unchecked' \/ Priceable(products[p].price,
                               ParseStoredOffers(landing.offers, landing.count)),
         p \in contested' \/ landing.default <= landing.count,
         \A g \in Handlers : Current(g)'
  PROVE  IInv'
<1>0. TypeOK /\ Settings /\ Priced /\ Uncontested
  BY DEF IInv
<1>1. /\ Stored' = Stored /\ DOMAIN landings' = Stored
      /\ landings'[p] = landing
      /\ \A q \in Stored \ {p} : landings'[q] = landings[q]
  BY <1>0 DEF Stored, TypeOK
<1>2. /\ landing.status \in {"draft", "published"} /\ landing.slug \in Slugs
      /\ landing.count \in 1 .. MaxOfferCount /\ landing.default \in 1 .. MaxOfferCount
      /\ DOMAIN landing = LandingColumns
  BY RowFacts
<1>3. TypeOK'
  <2>1. ASSUME NEW q \in Stored
        PROVE  /\ DOMAIN landings'[q] = LandingColumns
               /\ landings'[q].status \in {"draft", "published"}
               /\ landings'[q].slug \in Slugs
               /\ landings'[q].count \in 1 .. MaxOfferCount
               /\ landings'[q].default \in 1 .. MaxOfferCount
    BY <1>0, <1>1, <1>2 DEF TypeOK
  <2>2. ASSUME NEW q \in Stored, NEW r \in Stored \ {q}
        PROVE  landings'[r].slug # landings'[q].slug
    BY <1>0, <1>1 DEF TypeOK, SlugOwnedBy
  <2> QED
    BY <1>0, <1>1, <2>1, <2>2 DEF TypeOK, SlugOwnedBy
<1>4. Settings'
  BY <1>0, <1>1 DEF Settings
<1>5. Priced'
  BY <1>0, <1>1 DEF Priced, Tiers
<1>6. Uncontested'
  <2>1. ASSUME NEW q \in (Stored \ contested)'
        PROVE  landings'[q].default <= landings'[q].count
    BY <1>0, <1>1 DEF Uncontested
  <2> QED
    BY <2>1 DEF Uncontested, Current
<1> QED
  BY <1>3, <1>4, <1>5, <1>6 DEF IInv

LEMMA WriteLandingKeeps ==
  ASSUME IInv, NEW h \in Handlers, WriteLanding(h)
  PROVE  IInv'
<1> DEFINE p == job[h].p
           row == job[h].row
           columns == job[h].columns
           checked == job[h].op = "config" /\ job[h].price = products[p].price
           taken == "slug" \in DOMAIN columns /\ ~SlugOwnedBy(p, columns.slug)
           landing == columns ++ landings[p]
<1>0. TypeOK /\ Requests /\ Settings /\ Priced /\ Uncontested
  BY DEF IInv
<1>1. CASE taken
  BY <1>1, Refused DEF WriteLanding
<1>2. CASE ~taken
  <2>1. /\ landings' = [landings EXCEPT ![p] = landing]
        /\ unchecked' = IF "offers" \notin DOMAIN columns THEN unchecked
                        ELSE IF checked THEN unchecked \ {p}
                        ELSE unchecked \union {p}
        /\ contested' = IF Overlapping(h, p) THEN contested \union {p} ELSE contested
        /\ Finish(h) /\ UNCHANGED <<products, banners, template>>
    BY <1>2 DEF WriteLanding
  <2>2. Writing(h) /\ job[h].op \in {"config", "publish", "load"}
    <3>1. Request(h) /\ pc[h] = "write" /\ job[h].op \in {"config", "publish", "load"}
      BY DEF WriteLanding, IInv, Requests
    <3> QED
      BY <3>1 DEF Request, Editing, ProductOperations, Lifecycle
  <2>3. p \in Stored /\ GoodRow(row) /\ GoodColumns(columns) /\ GoodRow(landings[p])
    BY <1>0, <2>2 DEF Writing, OnLanding, Settings
  <2>4. /\ GoodRow(landing)
        /\ "offers" \in DOMAIN columns => /\ landing.offers = columns.offers
                                          /\ landing.count = columns.count
        /\ "offers" \notin DOMAIN columns => /\ landing.offers = landings[p].offers
                                             /\ landing.count = landings[p].count
        /\ "default" \in DOMAIN columns => landing.default = columns.default
        /\ "default" \notin DOMAIN columns => landing.default = landings[p].default
    BY <2>3, MergedOffers
  <2>5. /\ "offers" \in DOMAIN columns => /\ (columns ++ row).offers = columns.offers
                                          /\ (columns ++ row).count = columns.count
        /\ "offers" \notin DOMAIN columns => (columns ++ row).count = row.count
        /\ "default" \in DOMAIN columns => (columns ++ row).default = columns.default
        /\ "default" \notin DOMAIN columns => (columns ++ row).default = row.default
    BY <2>3, MergedOffers
  <2>6. SlugOwnedBy(p, landing.slug)
    <3>1. "slug" \in DOMAIN columns => landing.slug = columns.slug
      BY OverFacts
    <3>2. "slug" \notin DOMAIN columns => landing.slug = landings[p].slug
      <4>1. "slug" \in DOMAIN landings[p]
        BY <2>3, Fields DEF GoodRow
      <4>2. \A x \in DOMAIN landings[p] \ DOMAIN columns : landing[x] = landings[p][x]
        BY OverFacts
      <4> HIDE DEF landing
      <4> QED
        BY <4>1, <4>2
    <3>3. SlugOwnedBy(p, landings[p].slug)
      BY <1>0, <2>3 DEF TypeOK
    <3> QED
      BY <1>2, <3>1, <3>2, <3>3
  <2>7. /\ job'[h] = NoJob /\ Others(h) /\ Request(h)' /\ requests' \in 0 .. MaxRequests
    BY <1>0, <2>1, FinishFacts
  <2>8. Requests'
    <3>1. Stored \subseteq Stored'
      BY <2>1 DEF Stored
    <3> QED
      BY <1>0, <2>7, <3>1, RequestsKept
  <2> HIDE DEF landing
  <2>9. p \in unchecked' \/ Priceable(products[p].price,
                              ParseStoredOffers(landing.offers, landing.count))
    <3>1. CASE "offers" \notin DOMAIN columns
      BY <1>0, <2>1, <2>3, <2>4, <3>1 DEF Priced, Tiers
    <3>2. CASE "offers" \in DOMAIN columns /\ checked
      <4>1. Priceable(job[h].price, ParseStoredOffers((columns ++ row).offers, (columns ++ row).count))
        BY <2>2, <3>2 DEF Writing, Fitting
      <4> QED
        BY <2>4, <2>5, <3>2, <4>1
    <3>3. CASE "offers" \in DOMAIN columns /\ ~checked
      BY <2>1, <3>3
    <3> QED
      BY <3>1, <3>2, <3>3
  <2>10. p \in contested' \/ landing.default <= landing.count
    <3> SUFFICES ASSUME p \notin contested' PROVE landing.default <= landing.count
      OBVIOUS
    <3>1. p \notin contested
      BY <2>1
    <3>2. landings[p].default <= landings[p].count
      BY <1>0, <2>3, <3>1 DEF Uncontested
    <3>3. CASE job[h].op = "publish"
      <4>1. columns = [status |-> "published"]
        BY <2>2, <3>3 DEF Writing
      <4>2. DOMAIN columns = {"status"}
        BY <4>1
      <4> HIDE DEF columns
      <4> QED
        BY <2>4, <3>2, <4>2
    <3>4. CASE job[h].op \in {"config", "load"}
      <4>1. row.count = landings[p].count /\ row.default = landings[p].default
        BY <1>0, <2>3, <3>1, <3>4 DEF Uncontested
      <4>2. (columns ++ row).default <= (columns ++ row).count
        BY <2>2, <3>4 DEF Writing, Fitting
      <4> QED
        BY <2>4, <2>5, <4>1, <4>2
    <3> QED
      BY <2>2, <3>3, <3>4
  <2>11. ASSUME NEW g \in Handlers
         PROVE  Current(g)'
    <3> SUFFICES ASSUME job'[g].op \in {"config", "load"}, NEW q \in (Stored \ contested)',
                        job'[g].p = q
                 PROVE  /\ job'[g].row.count = landings'[q].count
                        /\ job'[g].row.default = landings'[q].default
      BY DEF Current
    <3>1. g # h /\ job'[g] = job[g]
      BY <2>7 DEF Others, NoJob
    <3>2. q \in Stored \ contested
      BY <2>1 DEF Stored
    <3>3. q # p
      BY <2>1, <3>1 DEF Overlapping
    <3>4. landings'[q] = landings[q]
      BY <2>1, <3>3
    <3> QED
      BY <1>0, <3>1, <3>2, <3>4 DEF Uncontested
  <2>12. /\ unchecked' \subseteq Stored /\ unchecked \ {p} \subseteq unchecked'
         /\ contested' \subseteq Stored /\ contested \subseteq contested'
    BY <1>0, <2>1, <2>3 DEF TypeOK
  <2> HIDE DEF p
  <2> QED
    BY <2>1, <2>3, <2>4, <2>6, <2>7, <2>8, <2>9, <2>10, <2>11, <2>12, LandingChanged
<1> QED
  BY <1>1, <1>2

LEMMA UnpublishKeeps ==
  ASSUME IInv, NEW p \in Stored, Unpublish(p)
  PROVE  IInv'
<1> DEFINE landing == [landings[p] EXCEPT !.status = "draft"]
<1>0. TypeOK /\ Requests /\ Settings /\ Priced /\ Uncontested
  BY DEF IInv
<1>1. /\ landings' = [landings EXCEPT ![p] = landing] /\ Count
      /\ UNCHANGED <<products, banners, template, pc, job, unchecked, contested>>
  BY DEF Unpublish
<1>2. requests' \in 0 .. MaxRequests
  BY <1>0, <1>1, CountFacts DEF TypeOK
<1>3. GoodRow(landings[p])
  BY <1>0 DEF Settings
<1>4. /\ DOMAIN landing = LandingColumns
      /\ landing.status = "draft"
      /\ \A x \in LandingColumns \ {"status"} : landing[x] = landings[p][x]
  BY <1>3, Fields DEF GoodRow
<1> HIDE DEF landing
<1>5. /\ landing.mode = landings[p].mode /\ landing.interval = landings[p].interval
      /\ landing.positions = landings[p].positions
      /\ landing.count = landings[p].count /\ landing.offers = landings[p].offers
      /\ landing.default = landings[p].default /\ landing.slug = landings[p].slug
      /\ \A f \in LookFields : landing[f] = landings[p][f]
  BY <1>4, Fields
<1>6. GoodRow(landing)
  <2>1. /\ GoodCta(landings[p]) /\ GoodOffers(landings[p])
        /\ landings[p].default \in 1 .. MaxOfferCount /\ landings[p].slug \in Slugs
        /\ \A f \in LookFields : GoodLook(f, landings[p][f])
    BY <1>3, Fields DEF GoodRow, GoodColumns
  <2>2. GoodCta(landing)
    BY <1>5, <2>1 DEF GoodCta
  <2>3. GoodOffers(landing)
    BY <1>5, <2>1 DEF GoodOffers
  <2> QED
    BY <1>4, <1>5, <2>1, <2>2, <2>3, Fields DEF GoodRow, GoodColumns
<1>7. SlugOwnedBy(p, landing.slug)
  BY <1>0, <1>5 DEF TypeOK
<1>8. Stored' = Stored
  BY <1>1 DEF Stored
<1>9. Requests'
  BY <1>0, <1>1, <1>8, RequestKept DEF Requests
<1>10. ASSUME NEW g \in Handlers
       PROVE  Current(g)'
  <2>1. \A q \in Stored : /\ landings'[q].count = landings[q].count
                          /\ landings'[q].default = landings[q].default
    BY <1>0, <1>1, <1>5 DEF TypeOK
  <2> QED
    BY <1>0, <1>1, <1>8, <2>1 DEF Uncontested, Current
<1>11. p \in unchecked \/ Priceable(products[p].price,
                            ParseStoredOffers(landing.offers, landing.count))
  BY <1>0, <1>5 DEF Priced, Tiers
<1>12. p \in contested \/ landing.default <= landing.count
  BY <1>0, <1>5 DEF Uncontested
<1>13. unchecked \subseteq Stored /\ contested \subseteq Stored
  BY <1>0 DEF TypeOK
<1> QED
  BY <1>1, <1>2, <1>6, <1>7, <1>9, <1>10, <1>11, <1>12, <1>13, LandingChanged

LEMMA ChangeBannersKeeps ==
  ASSUME IInv, NEW p \in Stored, NEW n \in 0 .. MaxBanners, ChangeBanners(p, n)
  PROVE  IInv'
<1>0. TypeOK /\ Requests /\ Settings /\ Priced /\ Uncontested
  BY DEF IInv
<1>1. /\ banners' = [banners EXCEPT ![p] = n]
      /\ UNCHANGED <<products, landings, template, pc, job, requests, unchecked, contested>>
  BY DEF ChangeBanners
<1>2. Stored' = Stored
  BY <1>1 DEF Stored
<1>3. TypeOK'
  BY <1>0, <1>1, <1>2 DEF TypeOK, SlugOwnedBy
<1>4. Requests'
  BY <1>0, <1>1, <1>2, RequestKept DEF Requests
<1>5. Settings'
  BY <1>0, <1>1, <1>2 DEF Settings
<1>6. Priced'
  BY <1>0, <1>1, <1>2 DEF Priced, Tiers
<1>7. Uncontested'
  BY <1>0, <1>1, <1>2 DEF Uncontested
<1> QED
  BY <1>3, <1>4, <1>5, <1>6, <1>7 DEF IInv

LEMMA StutterKeeps ==
  ASSUME IInv, UNCHANGED vars
  PROVE  IInv'
<1>1. UNCHANGED <<products, landings, banners, template, pc, job, requests, unchecked,
                  contested>>
  BY DEF vars, rows
<1>2. Stored' = Stored
  BY <1>1 DEF Stored
<1>3. TypeOK'
  BY <1>1, <1>2 DEF IInv, TypeOK, SlugOwnedBy
<1>4. Requests'
  BY <1>1, <1>2, RequestKept DEF IInv, Requests
<1>5. Settings' /\ Priced' /\ Uncontested'
  BY <1>1, <1>2 DEF IInv, Settings, Priced, Tiers, Uncontested
<1> QED
  BY <1>3, <1>4, <1>5 DEF IInv

LEMMA InitIInv == Init => IInv
<1> SUFFICES ASSUME Init PROVE IInv
  OBVIOUS
<1>1. /\ products \in [OnSale -> [status : {"active"}, sku : Skus, price : Prices,
                                  retiredAt : {FALSE}]]
      /\ \A p, q \in OnSale : products[p].sku = products[q].sku => p = q
      /\ landings = [p \in OnSale |-> [NewLanding(p) EXCEPT !.status = "published"]]
      /\ banners = [p \in OnSale |-> 1]
      /\ template = {} /\ unchecked = {} /\ contested = {}
      /\ pc = [h \in Handlers |-> "idle"] /\ job = [h \in Handlers |-> NoJob]
      /\ requests = 0
  BY DEF Init, Absent
<1>2. Stored = OnSale /\ OnSale \subseteq Products
  BY <1>1, CatalogAssumption DEF Stored, CatalogAssumption
<1>3. ASSUME NEW p \in OnSale
      PROVE  /\ GoodRow(landings[p]) /\ landings[p].slug = DraftSlug[p]
             /\ landings[p].default <= landings[p].count
             /\ \A price : Priceable(price, Tiers(p))
  <2> DEFINE new == NewLanding(p)
             row == [new EXCEPT !.status = "published"]
  <2>1. landings[p] = row
    BY <1>1
  <2>2. /\ GoodRow(new) /\ new.slug = DraftSlug[p] /\ new.default <= new.count
        /\ \A price : Priceable(price, ParseStoredOffers(new.offers, new.count))
    BY <1>2, NewRow
  <2>3. DOMAIN new = LandingColumns
    BY <2>2 DEF GoodRow
  <2> HIDE DEF new
  <2>4. /\ DOMAIN row = LandingColumns /\ row.status = "published"
        /\ \A x \in LandingColumns \ {"status"} : row[x] = new[x]
    BY <2>3, Fields
  <2> HIDE DEF row
  <2>5. /\ row.mode = new.mode /\ row.interval = new.interval
        /\ row.positions = new.positions /\ row.count = new.count
        /\ row.offers = new.offers /\ row.default = new.default /\ row.slug = new.slug
        /\ \A f \in LookFields : row[f] = new[f]
    BY <2>4, Fields
  <2>6. GoodRow(row)
    <3>1. /\ GoodCta(new) /\ GoodOffers(new)
          /\ new.default \in 1 .. MaxOfferCount /\ new.slug \in Slugs
          /\ \A f \in LookFields : GoodLook(f, new[f])
      BY <2>2, Fields DEF GoodRow, GoodColumns
    <3>2. GoodCta(row)
      BY <2>5, <3>1 DEF GoodCta
    <3>3. GoodOffers(row)
      BY <2>5, <3>1 DEF GoodOffers
    <3> QED
      BY <2>4, <2>5, <3>1, <3>2, <3>3, Fields DEF GoodRow, GoodColumns
  <2> QED
    BY <2>1, <2>2, <2>5, <2>6 DEF Tiers
<1>4. TypeOK
  <2>1. ASSUME NEW p \in OnSale
        PROVE  /\ products[p] \in ProductRow
               /\ DOMAIN landings[p] = LandingColumns
               /\ landings[p].status \in {"draft", "published"}
               /\ landings[p].slug \in Slugs
               /\ landings[p].count \in 1 .. MaxOfferCount
               /\ landings[p].default \in 1 .. MaxOfferCount
               /\ banners[p] \in 0 .. MaxBanners
    <3>1. products[p] \in ProductRow
      BY <1>1 DEF ProductRow
    <3>2. banners[p] \in 0 .. MaxBanners
      BY <1>1, CatalogAssumption DEF CatalogAssumption
    <3> QED
      BY <1>3, <3>1, <3>2, RowFacts
  <2>2. ASSUME NEW p \in OnSale, NEW q \in OnSale \ {p}
        PROVE  landings[q].slug # landings[p].slug /\ products[q].sku # products[p].sku
    BY <1>1, <1>2, <1>3, CatalogAssumption DEF CatalogAssumption
  <2>3. 0 \in 0 .. MaxRequests
    BY CatalogAssumption DEF CatalogAssumption
  <2>4. DOMAIN landings = OnSale /\ DOMAIN banners = OnSale
    BY <1>1
  <2> QED
    BY <1>1, <1>2, <2>1, <2>2, <2>3, <2>4 DEF TypeOK, SlugOwnedBy, ProductRow
<1>5. Requests
  BY <1>1 DEF Requests, Request, ReadingSteps
<1>6. Settings
  BY <1>1, <1>2, <1>3 DEF Settings
<1>7. Priced
  BY <1>2, <1>3 DEF Priced
<1>8. Uncontested
  BY <1>1, <1>2, <1>3 DEF Uncontested, NoJob
<1> QED
  BY <1>4, <1>5, <1>6, <1>7, <1>8 DEF IInv

LEMMA NextIInv == IInv /\ [Next]_vars => IInv'
<1> SUFFICES ASSUME IInv, [Next]_vars PROVE IInv'
  OBVIOUS
<1>1. CASE UNCHANGED vars
  BY <1>1, StutterKeeps
<1>2. ASSUME NEW p \in Products, NEW sku \in Skus, NEW price \in Prices,
             NEW status \in {"active", "paused"}, CreateProduct(p, sku, price, status)
      PROVE  IInv'
  BY <1>2, CreateProductKeeps
<1>3. ASSUME NEW p \in Stored,
             Unpublish(p) \/ \E n \in 0 .. MaxBanners : ChangeBanners(p, n)
      PROVE  IInv'
  BY <1>3, UnpublishKeeps, ChangeBannersKeeps
<1>4. ASSUME NEW h \in Handlers, NEW p \in Stored,
             \/ \E given \in ProductUpdates : StartUpdateProduct(h, p, given)
             \/ \E op \in Lifecycle : StartTransition(h, p, op)
             \/ \E given \in ConfigUpdates : StartUpdateConfig(h, p, given)
             \/ StartPublish(h, p) \/ StartSave(h, p) \/ StartLoad(h, p)
      PROVE  IInv'
  BY <1>4, StartUpdateProductKeeps, StartTransitionKeeps, StartsKeep
<1>5. ASSUME NEW h \in Handlers, NEW sku \in Skus, NEW slug \in Slugs, NEW price \in Prices,
             StartInstantiate(h, sku, slug, price)
      PROVE  IInv'
  BY <1>5, StartInstantiateKeeps
<1>6. ASSUME NEW h \in Handlers,
             \/ WriteProduct(h) \/ StampRetirement(h)
             \/ CheckSlug(h) \/ CountBanners(h) \/ CheckConfig(h)
             \/ CheckPublish(h) \/ CheckLoad(h) \/ SaveTemplate(h)
             \/ WriteLanding(h) \/ Persist(h) \/ Fail(h)
      PROVE  IInv'
  <2>1. Fail(h) => Refuse(h)
    BY DEF Fail
  <2> QED
    BY <1>6, <2>1, WriteProductKeeps, StampRetirementKeeps, CheckSlugKeeps,
       CountBannersKeeps, CheckConfigKeeps,
       CheckPublishKeeps, CheckLoadKeeps, SaveTemplateKeeps, WriteLandingKeeps,
       PersistKeeps, Refused
<1>7. CASE Next
  BY <1>2, <1>3, <1>4, <1>5, <1>6, <1>7 DEF Next
<1> QED
  BY <1>1, <1>7

----------------------------------------------------------------------------
(* The theorems.                                                            *)

LEMMA InductiveInvariant == Spec => []IInv
BY InitIInv, NextIInv, PTL DEF Spec

(* Every row keeps its columns and their ranges, and no two products share  *)
(* a SKU and no two landings a slug, whatever requests overlap.             *)
THEOREM TypeCorrect == Spec => []TypeOK
<1>1. IInv => TypeOK
  BY DEF IInv
<1> QED
  BY <1>1, InductiveInvariant, PTL

(* What a landing stores can be shown and loaded again: each of its values  *)
(* is one that its validator accepts.                                       *)
THEOREM SettingsStayValid == Spec => []Settings
<1>1. IInv => Settings
  BY DEF IInv
<1> QED
  BY <1>1, InductiveInvariant, PTL

(* A visible page opens with tiers that are valid as stored; it is priced,  *)
(* and its default exists, unless unchecked or contested says otherwise.    *)
THEOREM VisiblePagesOpen == Spec => []PagesOpen
<1>1. ASSUME IInv PROVE PagesOpen
  <2> SUFFICES ASSUME NEW slug \in Slugs, NEW p \in Visible(slug)
               PROVE  /\ Cta(p, landings[p].positions) # {}
                      /\ ValidateOffers(landings[p].offers, landings[p].count) # {}
                      /\ p \notin unchecked => PublicPage(p) # {}
                      /\ p \notin contested =>
                           FindOffer(Tiers(p), landings[p].default) # {}
    BY DEF PagesOpen
  <2> DEFINE row == landings[p]
  <2>1. p \in Stored /\ GoodRow(row)
    BY <1>1 DEF Visible, IInv, Settings
  <2>2. GoodCta(row) /\ GoodOffers(row) /\ row.count \in 1 .. MaxOfferCount /\ row.default \in 1 .. MaxOfferCount
    BY <2>1, Fields DEF GoodRow, GoodColumns, GoodOffers
  <2>3. Cta(p, row.positions) # {}
    <3>1. {} \in SUBSET Int
      OBVIOUS
    <3> HIDE DEF row
    <3>2. ValidateCtaConfig(row.mode, row.interval, row.positions, {}) # {}
      BY <2>2, <3>1, CtaAgain
    <3> QED
      BY <3>2 DEF Cta, row
  <2>4. ValidateOffers(row.offers, row.count) # {} /\ GoodTiers(Tiers(p), row.count)
    <3> HIDE DEF row
    <3>1. /\ ValidateOffers(row.offers, row.count) # {}
          /\ GoodTiers(ParseStoredOffers(row.offers, row.count), row.count)
      BY <2>2, OffersParsed
    <3> QED
      BY <3>1 DEF Tiers, row
  <2>5. ASSUME p \notin unchecked
        PROVE  PublicPage(p) # {}
    <3>1. Priceable(products[p].price, Tiers(p))
      BY <1>1, <2>1, <2>5 DEF IInv, Priced
    <3>2. PICK cta : cta \in Cta(p, row.positions)
      BY <2>3
    <3>3. cta \in {c \in Cta(p, landings[p].positions) : Priceable(products[p].price, Tiers(p))}
      BY <3>1, <3>2
    <3> QED
      BY <3>3 DEF PublicPage
  <2>6. ASSUME p \notin contested
        PROVE  FindOffer(Tiers(p), row.default) # {}
    <3>1. row.default <= row.count
      BY <1>1, <2>1, <2>6 DEF IInv, Uncontested
    <3>2. row.default \in 1 .. row.count
      BY <2>2, <3>1 DEF MaxOfferCount
    <3>3. DOMAIN Tiers(p) = 1 .. row.count /\ Tiers(p)[row.default].quantity = row.default
      BY <2>4, <3>2 DEF GoodTiers
    <3> HIDE DEF row
    <3> QED
      BY <3>2, <3>3 DEF FindOffer
  <2> QED
    BY <2>3, <2>4, <2>5, <2>6
<1> QED
  BY <1>1, InductiveInvariant, PTL

(* The buttons of well-formed settings.                                     *)
LEMMA Placed ==
  ASSUME NEW s, GoodCta(s), NEW n
  PROVE  {ComputeCtaPositions(cta, n) :
            cta \in ValidateCtaConfig(s.mode, s.interval, s.positions, {})} =
           {ComputeCtaPositions(s, n)}
<1> DEFINE V == ValidateCtaConfig(s.mode, s.interval, s.positions, {})
<1>1. {} \in SUBSET Int
  OBVIOUS
<1>2. V # {} /\ \A cta \in V : /\ cta.mode = s.mode /\ cta.interval = s.interval
                               /\ ToSet(cta.positions) = ToSet(s.positions)
  BY <1>1, CtaAgain
<1> HIDE DEF V
<1>3. \A cta \in V : ComputeCtaPositions(cta, n) = ComputeCtaPositions(s, n)
  BY <1>2 DEF ComputeCtaPositions
<1>4. {ComputeCtaPositions(cta, n) : cta \in V} = {ComputeCtaPositions(s, n)}
  BY <1>2, <1>3
<1> QED
  BY <1>4 DEF V

LEMMA LooksAlike ==
  ASSUME NEW s, GoodSettings(s), NEW columns, GoodSettings(columns),
         LoadedAs(columns, s), NEW n
  PROVE  Appearance(columns, n) = Appearance(s, n)
<1> DEFINE A(t) == Appearance(t, n)
           Where(t) == {ComputeCtaPositions(cta, n) :
                          cta \in ValidateCtaConfig(t.mode, t.interval, t.positions, {})}
<1>1. ASSUME NEW t, DOMAIN t = SettingFields
      PROVE  A(t) = [x \in SettingFields |->
                       CASE x = "text" -> t.text \ {"blank"}
                         [] x = "positions" -> Where(t)
                         [] x = "offers" -> ParseStoredOffers(t.offers, t.count)
                         [] OTHER -> t[x]]
  BY <1>1, Fields DEF Appearance
<1>2. DOMAIN s = SettingFields /\ DOMAIN columns = SettingFields
  BY DEF GoodSettings
<1>3. Where(columns) = Where(s)
  <2>1. GoodCta(s) /\ GoodCta(columns)
    BY SettingsFacts
  <2>2. ComputeCtaPositions(columns, n) = ComputeCtaPositions(s, n)
    BY DEF ComputeCtaPositions, LoadedAs
  <2>3. Where(columns) = {ComputeCtaPositions(columns, n)}
    BY <2>1, Placed
  <2>4. Where(s) = {ComputeCtaPositions(s, n)}
    BY <2>1, Placed
  <2> QED
    BY <2>2, <2>3, <2>4
<1>4. ParseStoredOffers(columns.offers, columns.count) = ParseStoredOffers(s.offers, s.count)
  <2> DEFINE tiers == ParseStoredOffers(s.offers, s.count)
  <2>1. GoodOffers(s) /\ s.count \in 1 .. MaxOfferCount
    BY SettingsFacts
  <2>2. GoodTiers(tiers, s.count)
    BY <2>1, OffersParsed
  <2>3. columns.count = s.count /\ columns.offers = ToJson(tiers)
    BY DEF LoadedAs
  <2> HIDE DEF tiers
  <2>4. ParseStoredOffers(columns.offers, columns.count) = tiers
    BY <2>1, <2>2, <2>3, OffersStored
  <2> QED
    BY <2>4 DEF tiers
<1>5. columns.text \ {"blank"} = s.text \ {"blank"}
  BY DEF LoadedAs
<1>6. \A x \in SettingFields \ {"text", "positions", "offers"} : columns[x] = s[x]
  BY Fields DEF LoadedAs
<1> DEFINE Column(t, x) == CASE x = "text" -> t.text \ {"blank"}
                             [] x = "positions" -> Where(t)
                             [] x = "offers" -> ParseStoredOffers(t.offers, t.count)
                             [] OTHER -> t[x]
<1>7. A(columns) = A(s)
  <2>1. A(columns) = [x \in SettingFields |-> Column(columns, x)]
    BY <1>1, <1>2
  <2>2. A(s) = [x \in SettingFields |-> Column(s, x)]
    BY <1>1, <1>2
  <2>3. ASSUME NEW x \in SettingFields PROVE Column(columns, x) = Column(s, x)
    <3> HIDE DEF A, Where
    <3>1. CASE x = "text"
      BY <3>1, <1>5
    <3>2. CASE x = "positions"
      BY <3>2, <1>3
    <3>3. CASE x = "offers"
      BY <3>3, <1>4
    <3>4. CASE x \notin {"text", "positions", "offers"}
      <4>1. Column(columns, x) = columns[x] /\ Column(s, x) = s[x]
        BY <3>4
      <4> QED
        BY <4>1, <3>4, <1>6
    <3> QED
      BY <3>1, <3>2, <3>3, <3>4
  <2> HIDE DEF A, Column
  <2> QED
    BY <2>1, <2>2, <2>3
<1> QED
  BY <1>7 DEF A

(* A template saved from any landing gives back the page that it was saved  *)
(* from; only positions past the banners, or a default that overlapping     *)
(* edits left above the count, refuse it.                                   *)
THEOREM TemplatesFaithful == Spec => []TemplatesLoadAsSaved
<1>1. ASSUME IInv PROVE TemplatesLoadAsSaved
  <2> SUFFICES ASSUME NEW p \in Stored
               PROVE  LET saved == SnapshotConfig(landings[p])
                          loaded == ParseTemplateConfig(saved, banners[p])
                          beyond == \E i \in DOMAIN saved.positions :
                                      saved.positions[i] > banners[p]
                      IN /\ \A settings \in loaded :
                              Appearance(settings, banners[p]) = Appearance(saved, banners[p])
                         /\ loaded = {} => \/ beyond /\ banners[p] > 0
                                           \/ p \in contested /\ saved.default > saved.count
    BY DEF TemplatesLoadAsSaved
  <2> DEFINE saved == SnapshotConfig(landings[p])
             n == banners[p]
  <2>1. GoodRow(landings[p]) /\ n \in Nat
    BY <1>1 DEF IInv, Settings, TypeOK
  <2>2. GoodSettings(saved) /\ saved.default = landings[p].default /\ saved.count = landings[p].count
    BY <2>1, SnapshotFacts, Fields
  <2>3. p \notin contested => saved.default <= saved.count
    BY <1>1, <2>2 DEF IInv, Uncontested
  <2>4. saved.default \in Int /\ saved.count \in Int
    BY <2>2, SettingsFacts
  <2> HIDE DEF saved, n
  <2>5. ASSUME NEW settings \in ParseTemplateConfig(saved, n)
        PROVE  Appearance(settings, n) = Appearance(saved, n)
    BY <2>1, <2>2, TemplateParsed, LooksAlike
  <2>6. ASSUME ParseTemplateConfig(saved, n) = {}
        PROVE  \/ (\E i \in DOMAIN saved.positions : saved.positions[i] > n) /\ n > 0
               \/ p \in contested /\ saved.default > saved.count
    BY <2>1, <2>2, <2>3, <2>4, <2>6, TemplateRefused
  <2> QED
    BY <2>5, <2>6 DEF saved, n
<1> QED
  BY <1>1, InductiveInvariant, PTL

(* Once retired, a product is only stamped, unless a request that had read  *)
(* it earlier still writes.                                                 *)
THEOREM RetiredForGood == Spec => RetirementIsFinal
<1> DEFINE Late(p) == \E h \in Handlers : /\ pc[h] = "write"
                                          /\ job[h].op \in ProductOperations
                                          /\ job[h].p = p
                                          /\ job[h].seen # "retired"
           Final == \A p \in Stored :
                      products[p].status = "retired" /\ products'[p] # products[p] =>
                        \/ products'[p] = [products[p] EXCEPT !.retiredAt = TRUE]
                        \/ Late(p)
<1>1. ASSUME IInv, [Next]_vars PROVE Final
  <2> SUFFICES ASSUME NEW p \in Stored, products'[p] # products[p], ~Late(p)
               PROVE  products'[p] = [products[p] EXCEPT !.retiredAt = TRUE]
    OBVIOUS
  <2>1. PICK h \in Handlers : WriteProduct(h) \/ StampRetirement(h)
    <3>1. UNCHANGED vars => products' = products
      BY DEF vars, rows
    <3>2. ASSUME NEW q \in Products \ Stored, NEW product, NEW landing, NEW count,
                 Insert(q, product, landing, count)
          PROVE  products'[p] = products[p]
      BY <3>2 DEF Insert, ++, Stored
    <3>3. \A h \in Handlers : Refuse(h) => products' = products
      BY DEF Refuse, rows
    <3>4. ASSUME NEW q \in Products, NEW sku \in Skus, NEW price \in Prices,
                 NEW status \in {"active", "paused"}, CreateProduct(q, sku, price, status)
          PROVE  FALSE
      BY <3>2, <3>4 DEF CreateProduct
    <3>5. ASSUME NEW h \in Handlers, Persist(h) PROVE FALSE
      BY <3>2, <3>3, <3>5 DEF Persist
    <3>6. ASSUME NEW q \in Stored, Unpublish(q) \/ \E n \in 0 .. MaxBanners : ChangeBanners(q, n)
          PROVE  FALSE
      BY <3>6 DEF Unpublish, ChangeBanners
    <3>7. ASSUME NEW h \in Handlers, NEW q \in Stored,
                 \/ \E given \in ProductUpdates : StartUpdateProduct(h, q, given)
                 \/ \E op \in Lifecycle : StartTransition(h, q, op)
                 \/ \E given \in ConfigUpdates : StartUpdateConfig(h, q, given)
                 \/ StartPublish(h, q) \/ StartSave(h, q) \/ StartLoad(h, q)
          PROVE  FALSE
      BY <3>7 DEF StartUpdateProduct, StartTransition, StartUpdateConfig, StartPublish,
         StartSave, StartLoad, StartLanding, rows
    <3>8. ASSUME NEW h \in Handlers, NEW sku \in Skus, NEW slug \in Slugs, NEW price \in Prices,
                 StartInstantiate(h, sku, slug, price)
          PROVE  FALSE
      BY <3>8 DEF StartInstantiate, rows
    <3>9. ASSUME NEW h \in Handlers,
                 \/ CheckSlug(h) \/ CountBanners(h) \/ CheckConfig(h)
                 \/ CheckPublish(h) \/ CheckLoad(h) \/ SaveTemplate(h)
                 \/ WriteLanding(h) \/ Fail(h)
          PROVE  FALSE
      BY <3>3, <3>9 DEF CheckSlug, CountBanners, CheckConfig, CheckPublish, CheckLoad, SaveTemplate, WriteLanding, Fail,
         rows
    <3> QED
      BY <1>1, <3>1, <3>4, <3>5, <3>6, <3>7, <3>8, <3>9 DEF Next
  <2>2. Request(h)
    BY <1>1 DEF IInv, Requests
  <2>3. ~WriteProduct(h)
    <3> SUFFICES ASSUME WriteProduct(h) PROVE FALSE
      OBVIOUS
    <3>1. pc[h] = "write" /\ job[h].op \in ProductOperations
      BY DEF WriteProduct
    <3>2. Editing(h)
      BY <2>2, <3>1 DEF Request, Writing, OnLanding, ProductOperations, Lifecycle
    <3>3. job[h].p # p
      BY <3>1, <3>2 DEF Editing
    <3>4. products'[p] = products[p]
      <4>1. \/ products' = products
            \/ products' = [products EXCEPT ![job[h].p] = job[h].columns ++ products[job[h].p]]
        BY DEF WriteProduct, Refuse, rows
      <4> QED
        BY <3>3, <4>1 DEF Stored
    <3> QED
      BY <3>4
  <2>4. products' = [products EXCEPT ![job[h].p].retiredAt = TRUE]
    BY <2>1, <2>3 DEF StampRetirement
  <2> QED
    BY <2>4 DEF Stored
<1> QED
  BY <1>1, InductiveInvariant, PTL DEF Spec, RetirementIsFinal
=============================================================================
