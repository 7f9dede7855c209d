-------------------------------- MODULE Catalog --------------------------------
(****************************************************************************)
(* Products, their landings and the pages a visitor and an administrator    *)
(* get.  Creating, editing, pausing and retiring products, changing a       *)
(* landing's settings, publishing it, saving and loading its settings as a  *)
(* template and instantiating one, by concurrent administrators.            *)
(*                                                                          *)
(* A request reads a row, decides, and writes; every transaction here ends  *)
(* with one statement on one row, so that statement is its commit.  Only    *)
(* the columns a request computed are written: what another one wrote to    *)
(* the rest stays.  Components are in LandingBlocks, banner rows in         *)
(* LandingBanners, uploaded objects in AssetStore.                          *)
(****************************************************************************)
EXTENDS LandingSettings

CONSTANTS
  Handlers,        \* concurrent administrator requests
  Products,        \* product ids; a product's landing has its id
  OnSale,          \* products that are on sale to begin with
  Skus,
  Slugs,           \* valid slugs
  DraftSlug,       \* product id -> the slug its landing is created with
  Prices,          \* valid prices, in cents
  ProductUpdates,  \* columns that a product edit may give
  ConfigUpdates,   \* fields that a settings edit may give, valid or not
  MaxBanners,      \* bound: banners of a landing
  MaxRequests      \* bound: requests in a behaviour

ASSUME CatalogAssumption ==
  /\ OnSale \subseteq Products
  /\ DraftSlug \in [Products -> Slugs]
  /\ \A p, q \in Products : DraftSlug[p] = DraftSlug[q] => p = q
  /\ Prices \subseteq Nat \ {0}
  /\ MaxBanners \in 1 .. MaxBannersPerLanding
  /\ MaxRequests \in Nat

(* What the request schemas and the format checks before any read let by.   *)
ASSUME UpdatesAssumption ==
  /\ \A given \in ProductUpdates :
       /\ DOMAIN given \subseteq {"sku", "price"}
       /\ "sku" \in DOMAIN given => given.sku \in Skus
       /\ "price" \in DOMAIN given => given.price \in Prices
  /\ \A given \in ConfigUpdates :
       /\ DOMAIN given \subseteq SettingFields \union {"slug"}
       /\ "slug" \in DOMAIN given => given.slug \in Slugs
       /\ "positions" \in DOMAIN given => given.positions \in Seq(Int)

VARIABLES
  products,   \* id -> product row
  landings,   \* id -> landing row: status, slug and settings
  banners,    \* id -> number of banners
  template,   \* the saved template, if any
  pc,         \* what each request does next
  job,        \* the request: operation, its input, what it has read
  requests,   \* requests started so far
  unchecked,  \* history: landings whose tiers nobody checked at this price
  contested   \* history: landings changed by requests that overlapped

rows == <<products, landings, banners, template>>
vars == <<rows, pc, job, requests, unchecked, contested>>

Stored == DOMAIN products
Lifecycle == {"activate", "pause", "retire"}
ProductOperations == Lifecycle \union {"product"}
LandingColumns == SettingFields \union {"status", "slug"}

NewLanding(p) == NewSettings ++ [status |-> "draft", slug |-> DraftSlug[p]]
NoJob == [op |-> "none"]

(* Products on sale: created, given a banner, activated and published. *)
Init ==
  /\ products \in {row \in [OnSale -> [status : {"active"}, sku : Skus,
                                        price : Prices, retiredAt : {FALSE}]] :
                     \A p, q \in OnSale : row[p].sku = row[q].sku => p = q}
  /\ landings = [p \in OnSale |->
                   [NewLanding(p) EXCEPT !.status = "published"]]
  /\ banners = [p \in OnSale |-> 1]
  /\ template = Absent
  /\ pc = [h \in Handlers |-> "idle"]
  /\ job = [h \in Handlers |-> NoJob]
  /\ requests = 0
  /\ unchecked = {}
  /\ contested = {}

(* Faulty variant: the SKU is not looked up and its column has no unique index. *)
SkuFreeUnread(sku) == TRUE
SkuFree(sku) == \A p \in Stored : products[p].sku # sku
SlugFree(slug) == \A p \in Stored : landings[p].slug # slug
SlugOwnedBy(p, slug) == \A q \in Stored \ {p} : landings[q].slug # slug

Count == requests < MaxRequests /\ requests' = requests + 1
(* Another request that is about to change the landing. *)
Overlapping(h, p) ==
  \E g \in Handlers \ {h} : job[g].op \in {"config", "load"} /\ job[g].p = p
Arrive(h, step, request) ==
  /\ pc[h] = "idle"
  /\ Count
  /\ pc' = [pc EXCEPT ![h] = step]
  /\ job' = [job EXCEPT ![h] = request]

Continue(h, step, fields) ==
  /\ pc' = [pc EXCEPT ![h] = step]
  /\ job' = [job EXCEPT ![h] = fields ++ @]
  /\ UNCHANGED requests
Finish(h) ==
  /\ pc' = [pc EXCEPT ![h] = "idle"]
  /\ job' = [job EXCEPT ![h] = NoJob]
  /\ UNCHANGED requests
Refuse(h) == Finish(h) /\ UNCHANGED <<rows, unchecked, contested>>

(* A new product and its landing, in one transaction. *)
Insert(p, product, landing, count) ==
  /\ products' = [q \in {p} |-> product] ++ products
  /\ landings' = [q \in {p} |-> landing] ++ landings
  /\ banners' = [q \in {p} |-> count] ++ banners

----------------------------------------------------------------------------
(* Products.                                                                *)

CreateProduct(p, sku, price, status) ==
  /\ Count
  /\ p \notin Stored
  /\ SkuFree(sku)
  /\ SlugFree(DraftSlug[p])
  /\ Insert(p, [status |-> status, sku |-> sku, price |-> price,
                retiredAt |-> FALSE], NewLanding(p), 0)
  /\ UNCHANGED <<template, pc, job, unchecked, contested>>

(* An edit and a lifecycle step read the product first. *)
StartUpdateProduct(h, p, given) ==
  /\ products[p].status # "retired"
  /\ "sku" \in DOMAIN given /\ given.sku # products[p].sku =>
       SkuFree(given.sku)
  /\ Arrive(h, "write", [op |-> "product", p |-> p, columns |-> given,
                         seen |-> products[p].status])
  /\ UNCHANGED <<rows, unchecked, contested>>

(* Faulty variant: pausing does not look at the status. *)
NextStatusUnread(op, status) ==
  CASE op = "activate" -> IF status = "paused" THEN {"active"} ELSE {}
    [] op = "pause" -> {"paused"}
    [] op = "retire" -> {"retired"} \ {status}

NextStatus(op, status) ==
  CASE op = "activate" -> IF status = "paused" THEN {"active"} ELSE {}
    [] op = "pause" -> IF status = "active" THEN {"paused"} ELSE {}
    [] op = "retire" -> {"retired"} \ {status}

StartTransition(h, p, op) ==
  \E status \in NextStatus(op, products[p].status) :
    /\ Arrive(h, "write", [op |-> op, p |-> p,
                           columns |-> [status |-> status],
                           seen |-> products[p].status])
    /\ UNCHANGED <<rows, unchecked, contested>>

(* The write; the unique SKU index has the last word. *)
WriteProduct(h) ==
  /\ pc[h] = "write"
  /\ job[h].op \in ProductOperations
  /\ LET p == job[h].p
         columns == job[h].columns
     IN IF "sku" \in DOMAIN columns
           /\ \E q \in Stored \ {p} : products[q].sku = columns.sku
        THEN Refuse(h)
        ELSE /\ products' = [products EXCEPT ![p] = columns ++ @]
             /\ unchecked' = IF "price" \in DOMAIN columns
                             THEN unchecked \union {p} ELSE unchecked
             /\ IF job[h].op = "retire"
                THEN Continue(h, "stamp", NoColumns)
                ELSE Finish(h)
             /\ UNCHANGED <<landings, banners, template, contested>>

(* The second transaction of a retirement. *)
StampRetirement(h) ==
  /\ pc[h] = "stamp"
  /\ products' = [products EXCEPT ![job[h].p].retiredAt = TRUE]
  /\ Finish(h)
  /\ UNCHANGED <<landings, banners, template, unchecked, contested>>

----------------------------------------------------------------------------
(* Landings.                                                                *)

StartLanding(h, p, step, request) ==
  /\ Arrive(h, step, request ++ [p |-> p, row |-> landings[p]])
  /\ UNCHANGED <<rows, unchecked, contested>>

(* A settings edit reads the owner of a new slug, then the banners, then    *)
(* the price, each only if what it was given asks for it.                   *)
AfterSlug(given) ==
  IF DOMAIN given \cap CtaFields = {} THEN "check" ELSE "banners"

StartUpdateConfig(h, p, given) ==
  LET slug == Given(given, "slug", landings[p])
  IN StartLanding(h, p,
       IF slug = landings[p].slug THEN AfterSlug(given) ELSE "slug",
       [op |-> "config", given |-> given, count |-> 0])
StartPublish(h, p) == StartLanding(h, p, "check", [op |-> "publish"])
StartSave(h, p) == StartLanding(h, p, "check", [op |-> "save"])
StartLoad(h, p) == StartLanding(h, p, "check", [op |-> "load"])

CheckSlug(h) ==
  /\ pc[h] = "slug"
  /\ IF SlugOwnedBy(job[h].p, job[h].given.slug)
     THEN /\ Continue(h, AfterSlug(job[h].given), NoColumns)
          /\ UNCHANGED <<rows, unchecked, contested>>
     ELSE Refuse(h)

CountBanners(h) ==
  /\ pc[h] = "banners"
  /\ LET count == banners[job[h].p]
     IN IF CtaColumns(job[h].given, job[h].row, count) = {} THEN Refuse(h)
        ELSE /\ Continue(h, "check", [count |-> count])
             /\ UNCHANGED <<rows, unchecked, contested>>

(* The price is read last; then the columns are known. *)
ConfigColumns(h) ==
  LET p == job[h].p
      row == job[h].row
      given == job[h].given
      slug == Given(given, "slug", row)
      moved == IF slug = row.slug THEN NoColumns ELSE [slug |-> slug]
  IN {moved ++ columns :
        columns \in UpdateColumns(given, row, job[h].count,
                                  products[p].price)}

CheckConfig(h) ==
  /\ pc[h] = "check"
  /\ job[h].op = "config"
  /\ IF ConfigColumns(h) \in {{}, {NoColumns}} THEN Refuse(h)
     ELSE \E columns \in ConfigColumns(h) :
            /\ Continue(h, "write", [columns |-> columns, given |-> NoColumns,
                                     price |-> products[job[h].p].price,
                                     count |-> 0])
            /\ UNCHANGED <<rows, unchecked, contested>>

Publishable(row, count) ==
  /\ count \in 1 .. MaxBannersPerLanding
  /\ ValidateCtaConfig(row.mode, row.interval, row.positions, {count}) # {}

CheckPublish(h) ==
  /\ pc[h] = "check"
  /\ job[h].op = "publish"
  /\ IF Publishable(job[h].row, banners[job[h].p])
     THEN /\ Continue(h, "write", [columns |-> [status |-> "published"]])
          /\ UNCHANGED <<rows, unchecked, contested>>
     ELSE Refuse(h)

(* The template and the banners are read; nothing asks for the price. *)
CheckLoad(h) ==
  /\ pc[h] = "check"
  /\ job[h].op = "load"
  /\ LET p == job[h].p
         columns == UNION {ParseTemplateConfig(t.config, banners[p]) :
                             t \in {s \in template :
                                      s.banners = banners[p]}}
     IN IF columns = {} THEN Refuse(h)
        ELSE \E loaded \in columns :
               /\ Continue(h, "write", [columns |-> loaded])
               /\ UNCHANGED <<rows, unchecked, contested>>

SaveTemplate(h) ==
  /\ pc[h] = "check"
  /\ job[h].op = "save"
  /\ template' = {[config |-> SnapshotConfig(job[h].row),
                   banners |-> banners[job[h].p]]}
  /\ Finish(h)
  /\ UNCHANGED <<products, landings, banners, unchecked, contested>>

(* The write; the unique slug index has the last word. *)
WriteLanding(h) ==
  /\ pc[h] = "write"
  /\ job[h].op \in {"config", "publish", "load"}
  /\ LET p == job[h].p
         columns == job[h].columns
         checked == /\ job[h].op = "config"
                    /\ job[h].price = products[p].price
     IN IF "slug" \in DOMAIN columns /\ ~SlugOwnedBy(p, columns.slug)
        THEN Refuse(h)
        ELSE /\ landings' = [landings EXCEPT ![p] = columns ++ @]
             /\ unchecked' = IF "offers" \notin DOMAIN columns THEN unchecked
                             ELSE IF checked THEN unchecked \ {p}
                             ELSE unchecked \union {p}
             /\ contested' = IF Overlapping(h, p)
                             THEN contested \union {p} ELSE contested
             /\ Finish(h)
             /\ UNCHANGED <<products, banners, template>>

Unpublish(p) ==
  /\ Count
  /\ landings' = [landings EXCEPT ![p].status = "draft"]
  /\ UNCHANGED <<products, banners, template, pc, job, unchecked, contested>>

(* A banner is added or removed (LandingBanners). *)
ChangeBanners(p, count) ==
  /\ count \in {banners[p] - 1, banners[p] + 1}
  /\ banners' = [banners EXCEPT ![p] = count]
  /\ UNCHANGED <<products, landings, template, pc, job, requests, unchecked,
                 contested>>

----------------------------------------------------------------------------
(* A product and a published landing made from the template.                *)

(* A request is refused unless it names the version of the template that is *)
(* stored, which some request always does.                                  *)
StartInstantiate(h, sku, slug, price) ==
  /\ SkuFree(sku) /\ SlugFree(slug)
  /\ \E t \in template :
       /\ t.banners >= 1
       /\ \E settings \in ParseTemplateConfig(t.config, t.banners) :
            Arrive(h, "persist",
                   [op |-> "instantiate", columns |-> settings,
                    sku |-> sku, slug |-> slug, price |-> price,
                    banners |-> t.banners])
  /\ UNCHANGED <<rows, unchecked, contested>>

Persist(h) ==
  /\ pc[h] = "persist"
  /\ LET j == job[h]
     IN IF ~SkuFree(j.sku) \/ ~SlugFree(j.slug) THEN Refuse(h)
        ELSE \E p \in Products \ Stored :
               /\ Insert(p, [status |-> "active", sku |-> j.sku,
                             price |-> j.price, retiredAt |-> FALSE],
                         j.columns ++ [status |-> "published",
                                       slug |-> j.slug], j.banners)
               /\ unchecked' = unchecked \union {p}
               /\ Finish(h)
               /\ UNCHANGED <<template, contested>>

(* A request stops before its write: its transaction is rolled back. *)
Fail(h) == pc[h] # "idle" /\ Refuse(h)

----------------------------------------------------------------------------
Next ==
  \/ \E p \in Products, sku \in Skus, price \in Prices,
        status \in {"active", "paused"} : CreateProduct(p, sku, price, status)
  \/ \E p \in Stored : \/ Unpublish(p)
                       \/ \E n \in 0 .. MaxBanners : ChangeBanners(p, n)
  \/ \E h \in Handlers :
       \/ \E p \in Stored :
            \/ \E given \in ProductUpdates : StartUpdateProduct(h, p, given)
            \/ \E op \in Lifecycle : StartTransition(h, p, op)
            \/ \E given \in ConfigUpdates : StartUpdateConfig(h, p, given)
            \/ StartPublish(h, p)
            \/ StartSave(h, p)
            \/ StartLoad(h, p)
       \/ \E sku \in Skus, slug \in Slugs, price \in Prices :
            StartInstantiate(h, sku, slug, price)
       \/ WriteProduct(h)
       \/ StampRetirement(h)
       \/ CheckSlug(h)
       \/ CountBanners(h)
       \/ CheckConfig(h)
       \/ CheckPublish(h)
       \/ CheckLoad(h)
       \/ SaveTemplate(h)
       \/ WriteLanding(h)
       \/ Persist(h)
       \/ Fail(h)

Spec == Init /\ [][Next]_vars

----------------------------------------------------------------------------
(* What is shown.                                                           *)

Tiers(p) == ParseStoredOffers(landings[p].offers, landings[p].count)
Cta(p, positions) ==
  ValidateCtaConfig(landings[p].mode, landings[p].interval, positions, {})

(* The landing a visitor reaches by a slug, if any. *)
Visible(slug) ==
  {p \in Stored : /\ landings[p].slug = slug
                  /\ products[p].status = "active"
                  /\ landings[p].status = "published"}

(* The page: empty when the request raises. *)
PublicPage(p) ==
  {[buttons |-> [b \in ComputeCtaPositions(cta, banners[p]) |->
                   [text |-> ResolveCtaText(b, landings[p].overrides,
                                            landings[p].text),
                    color |-> ResolveCtaColorMode(b, landings[p].colors)]],
    form |-> IF landings[p].formAccent = Absent THEN {landings[p].accent}
             ELSE landings[p].formAccent,
    offers |-> Tiers(p),
    default |-> landings[p].default] :
     cta \in {c \in Cta(p, landings[p].positions) :
                Priceable(products[p].price, Tiers(p))}}

(* The dashboard's entry, read leniently: a bad sequence shows no button. *)
DetailPositions(p) ==
  UNION {ComputeCtaPositions(cta, banners[p]) :
           cta \in Cta(p, landings[p].positions)}
Summary(p) ==
  {[positions |-> DetailPositions(p), offers |-> Tiers(p)] :
     priced \in {Priceable(products[p].price, Tiers(p))} \ {FALSE}}

(* The banners and buttons of a page in order; the last is a button. *)
Elements(count, positions) ==
  FlattenSeq([n \in 1 .. count |-> IF n \in positions \union {count}
                                   THEN <<"banner", "cta">>
                                   ELSE <<"banner">>])
DescribeSlots(p) == Elements(banners[p], ToSet(landings[p].positions))

(* The landings on the dashboard's list. *)
Listed == {p \in Stored : products[p].status # "retired"}

----------------------------------------------------------------------------
(* Properties.                                                              *)

(* Every row keeps the columns and the ranges the schema gives them. *)
TypeOK ==
  /\ Stored \subseteq Products
  /\ DOMAIN landings = Stored /\ DOMAIN banners = Stored
  /\ \A p \in Stored :
       /\ products[p] \in [status : {"active", "paused", "retired"},
                           sku : Skus, price : Prices, retiredAt : BOOLEAN]
       /\ DOMAIN landings[p] = LandingColumns
       /\ landings[p].status \in {"draft", "published"}
       /\ landings[p].slug \in Slugs
       /\ landings[p].count \in 1 .. MaxOfferCount
       /\ landings[p].default \in 1 .. MaxOfferCount
       /\ banners[p] \in 0 .. MaxBanners
       /\ SlugOwnedBy(p, landings[p].slug)
       /\ \A q \in Stored \ {p} : products[q].sku # products[p].sku
  /\ requests \in 0 .. MaxRequests
  /\ unchecked \subseteq Stored /\ contested \subseteq Stored

(* A visible page opens, with the tiers as the merchant wrote them and a     *)
(* default among them.  Fixed discounts are checked against the price only  *)
(* when the settings are edited, and two overlapping edits may disagree on  *)
(* the default: apart from those two cases, which unchecked and contested   *)
(* record, whatever the administrators do, in whatever order.               *)
PagesOpen ==
  \A slug \in Slugs : \A p \in Visible(slug) :
    /\ Cta(p, landings[p].positions) # {}
    /\ ValidateOffers(landings[p].offers, landings[p].count) # {}
    /\ p \notin unchecked => PublicPage(p) # {}
    /\ p \notin contested =>
         FindOffer(Tiers(p), landings[p].default) # {}

(* What a visitor sees of settings; a blank text is no text. *)
Appearance(settings, count) ==
  [settings EXCEPT
     !.text = @ \ {"blank"},
     !.positions = {ComputeCtaPositions(cta, count) :
                      cta \in ValidateCtaConfig(settings.mode,
                                settings.interval, settings.positions, {})},
     !.offers = ParseStoredOffers(settings.offers, settings.count)]

(* A template saved from any landing loads, onto as many banners, and gives *)
(* the page it was saved from.  It may only be refused when fixed positions *)
(* point beyond the banners that are left, or when overlapping edits left   *)
(* a default that no tier has.                                              *)
TemplatesLoadAsSaved ==
  \A p \in Stored :
    LET saved == SnapshotConfig(landings[p])
        loaded == ParseTemplateConfig(saved, banners[p])
        beyond == \E i \in DOMAIN saved.positions :
                    saved.positions[i] > banners[p]
    IN /\ \A settings \in loaded :
            Appearance(settings, banners[p]) = Appearance(saved, banners[p])
       /\ loaded = {} => \/ beyond /\ banners[p] > 0
                         \/ p \in contested /\ saved.default > saved.count

(* A retired product stays as it was: later steps only stamp it, unless     *)
(* they belong to a request that had read it before it was retired.         *)
RetirementIsFinal ==
  [][\A p \in Stored :
       products[p].status = "retired" /\ products'[p] # products[p] =>
         \/ products'[p] = [products[p] EXCEPT !.retiredAt = TRUE]
         \/ \E h \in Handlers : /\ pc[h] = "write"
                                /\ job[h].op \in ProductOperations
                                /\ job[h].p = p
                                /\ job[h].seen # "retired"]_vars

(* "a stored tier list that drifted from `offer_count` still has to open in *)
(* the dashboard so the merchant can repair it" (admin_landings.py): every  *)
(* landing the list of landings shows has an entry.                         *)
DashboardOpens == \A p \in Listed : Summary(p) # {}

(* "Derived from the same banner sequence and CTA positions the public page *)
(* renders, so the dashboard's position list and the rendered result cannot *)
(* disagree" (landing_block_service.py): the places offered for components  *)
(* are those between the banners and buttons a visitor sees.                *)
SlotsAsRendered ==
  \A slug \in Slugs : \A p \in Visible(slug) :
    \A page \in PublicPage(p) :
      DescribeSlots(p) = Elements(banners[p], DOMAIN page.buttons)
=============================================================================
