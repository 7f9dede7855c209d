------------------------------ MODULE BlockContent ------------------------------
(****************************************************************************)
(* What is written in the components of a landing, and how it travels:      *)
(* edited, saved in a template, loaded again, and copied with its media     *)
(* into a new page.  LandingBlocks has the placement of components under    *)
(* concurrent requests; here one administrator works at a time.             *)
(*                                                                          *)
(* Content maps fields to optional values, as LandingSettings does, and a   *)
(* validator is again the set of what it returns.  A text may also be       *)
(* "notText", any JSON value but a string.  Numbers are in tenths, zero     *)
(* standing for all that cannot be read as one; a list field that holds no  *)
(* list is as good as one too long: refused.  List indexes count from one.  *)
(****************************************************************************)
EXTENDS LandingSettings

CONSTANTS
  Slots,          \* slots asked for, legal or not
  Contents,       \* components asked for: [type, config]
  Older,          \* templates that earlier releases may have stored
  OfferCount,     \* offers of the landing's settings
  Assignments,    \* media given to make a page
  MaxComponents,  \* bound: components an administrator creates
  MaxOperations   \* bound: operations in a behaviour

VARIABLES
  landing,    \* the landing's components
  template,   \* the stored template's entries, if there is one
  page,       \* the components of the page made last, with their media
  operations  \* operations so far

vars == <<landing, template, page, operations>>

MaxSlotIndex == 30
MaxOrderIndex == 9
MaxBlocksPerLanding == 20
MaxVideosPerCarousel == 6

----------------------------------------------------------------------------
(* Fields.                                                                  *)

Get(object, field) ==
  IF field \in DOMAIN object THEN object[field] ELSE Absent

(* JSON as requests and templates give it: a field holds one value at most, *)
(* numbers are whole tenths, the items of lists are texts or objects.       *)
Object(object) == \A f \in DOMAIN object : \A v, w \in object[f] : v = w
Sequence(list) == Len(list) \in Nat /\ DOMAIN list = 1 .. Len(list)
ListFields == {"items", "steps", "benefits", "positive_items", "negative_items"}
TextLists == {"benefits", "audience"}
Json(type, config) ==
  /\ Object(config)
  /\ Get(config, "days") \subseteq Int
  /\ \A f \in ListFields : \A list \in Get(config, f) :
       /\ Sequence(list)
       /\ type \notin TextLists =>
            \A i \in DOMAIN list : /\ Object(list[i])
                                   /\ Get(list[i], "rating") \subseteq Int

ASSUME ContentAssumption ==
  /\ OfferCount \in 1 .. MaxOfferCount
  /\ MaxComponents \in Nat
  /\ MaxOperations \in Nat
  /\ \A content \in Contents : Json(content.type, content.config)
  /\ \A entries \in Older :
       /\ Sequence(entries)
       /\ \A i \in DOMAIN entries :
            /\ entries[i].order \in Int
            /\ Json(entries[i].type, entries[i].config)

(* All fields must be accepted. *)
Accepted(fields) ==
  If(\A f \in DOMAIN fields : fields[f] # {},
     [f \in DOMAIN fields |-> CHOOSE v \in fields[f] : TRUE])

RequireString(raw) == {{t} : t \in Required(raw \ {"notText"})}
RequireText(object, field) == RequireString(Get(object, field))
OptionalText(object, field) ==
  IF Get(object, field) = {"notText"} THEN {} ELSE Optional(Get(object, field))

Number(raw, accepted) ==
  IF raw = Absent THEN {Absent} ELSE {{n} : n \in accepted}
Whole(raw, maximum) ==
  Number(raw, {10 * (n \div 10) : n \in raw} \cap 10 .. 10 * maximum)

RequireList(raw, minimum, maximum, Validate(_)) ==
  {{[i \in DOMAIN list |-> CHOOSE item \in Validate(list[i]) : TRUE]} :
     list \in {l \in raw : /\ Len(l) \in minimum .. maximum
                           /\ \A i \in DOMAIN l : Validate(l[i]) # {}}}

OptionalAccentColor(object) ==
  LET raw == Get(object, "accent_color")
  IN IF raw \subseteq {""} THEN {Absent}
     ELSE {{c} : c \in UNION {NormalizeAccentColor(r) : r \in raw}}

(* Three answers: dark, light, or as the landing is. *)
DarkMode(raw, unset) ==
  IF raw \subseteq {""} THEN {unset}
  ELSE IF raw \subseteq {"True", "true", "1", "dark"} THEN {{"True"}}
  ELSE IF raw \subseteq {"False", "false", "0", "light"} THEN {{"False"}}
  ELSE {}
(* Faulty variant: a component that says nothing is light. *)
OptionalDarkModeLight(object) == DarkMode(Get(object, "dark_mode"), {"False"})
OptionalDarkMode(object) == DarkMode(Get(object, "dark_mode"), Absent)

(* A component's own fields and the two every component has. *)
Content(object, own) ==
  Accepted(own ++ [accent_color |-> OptionalAccentColor(object),
                   dark_mode |-> OptionalDarkMode(object)])

(* Items of lists. *)
StringItem(item) == Required({item} \ {"notText"})
Card(item) == Accepted([title |-> RequireText(item, "title"),
                        text |-> RequireText(item, "text")])
KickerCard(item) == Accepted([title |-> RequireText(item, "title"),
                              text |-> RequireText(item, "text"),
                              kicker |-> OptionalText(item, "kicker")])
TitleCard(item) == Accepted([title |-> RequireText(item, "title"),
                             text |-> OptionalText(item, "text")])
BenefitItem(item) == Accepted([name |-> RequireText(item, "name"),
                               value |-> OptionalText(item, "value"),
                               tag |-> OptionalText(item, "tag")])
Review(item) == Accepted([name |-> RequireText(item, "name"),
                          city |-> OptionalText(item, "city"),
                          text |-> RequireText(item, "text"),
                          rating |-> Whole(Get(item, "rating"), 5)])
Question(item) == Accepted([question |-> RequireText(item, "question"),
                            answer |-> RequireText(item, "answer")])

Cards(object, field, maximum, Validate(_)) ==
  RequireList(Get(object, field), 1, maximum, Validate)
Strings(object, field) == RequireList(Get(object, field), 1, 10, StringItem)

----------------------------------------------------------------------------
(* The components.                                                          *)

AnnouncementBar(c) == Content(c, [text |-> RequireText(c, "text")])
Cta(c) == Content(c, [text |-> OptionalText(c, "text")])
VideoCarousel(c) == Content(c, [title |-> OptionalText(c, "title")])
CodAssurance(c) == Content(c, [note |-> OptionalText(c, "note")])
OffersPrice(c) == Content(c, [title |-> OptionalText(c, "title")])
StoreTrust(c) == Content(c, <<>>)
PurchaseBenefits(c) == Content(c, [note |-> OptionalText(c, "note")])
Spacer(c) == Content(c, <<>>)

Benefits(c) ==
  Content(c, [title |-> OptionalText(c, "title"),
              items |-> RequireList(Get(c, "items"), 2, 5, StringItem)])

OfferPrice(c) ==
  LET was == Get(c, "compare_at_price")
  IN Content(c, [compare_at_price |-> Number(was, {n \in was : n > 0}),
                 note |-> OptionalText(c, "note")])

(* The note is checked, then dropped. *)
PriceSummary(c) ==
  {Restrict(content, DOMAIN content \ {"note"}) : content \in OfferPrice(c)}

IncludedBenefits(c) ==
  Content(c, [title |-> OptionalText(c, "title"),
              items |-> RequireList(Get(c, "items"), 2, 8, BenefitItem)])
Reviews(c) == Content(c, [title |-> OptionalText(c, "title"),
                          items |-> Cards(c, "items", 4, Review)])
Faq(c) == Content(c, [title |-> OptionalText(c, "title"),
                      items |-> Cards(c, "items", 6, Question)])

Guarantee(c) ==
  LET benefits == Get(c, "benefits")
  IN Content(c, [title |-> RequireText(c, "title"),
                 text |-> RequireText(c, "text"),
                 days |-> Whole(Get(c, "days"), 365),
                 eyebrow |-> OptionalText(c, "eyebrow"),
                 benefits |-> IF benefits \subseteq {<<>>} THEN {{<<>>}}
                              ELSE Cards(c, "benefits", 4, TitleCard)])

MainProblem(c) ==
  Content(c, [eyebrow |-> OptionalText(c, "eyebrow"),
              title |-> RequireText(c, "title"),
              highlight |-> OptionalText(c, "highlight"),
              subtitle |-> OptionalText(c, "subtitle"),
              items |-> Cards(c, "items", 6, Card)])

SolutionPresentation(c) ==
  Content(c, [f \in {"bridge_text", "eyebrow", "highlight", "supporting_text",
                     "final_title", "final_highlight"} |-> OptionalText(c, f)]
             ++ [title |-> RequireText(c, "title"),
                 text |-> RequireText(c, "text"),
                 items |-> Cards(c, "items", 6, KickerCard)])

HowItWorks(c) ==
  Content(c, [title |-> RequireText(c, "title"),
              highlight |-> OptionalText(c, "highlight"),
              subtitle |-> OptionalText(c, "subtitle"),
              steps |-> Cards(c, "steps", 10, KickerCard)])

Audience(c) ==
  Content(c, [f \in {"title", "positive_title", "negative_title"} |->
                RequireText(c, f)]
             ++ [f \in {"highlight", "positive_subtitle", "negative_subtitle",
                        "footer"} |-> OptionalText(c, f)]
             ++ [f \in {"positive_items", "negative_items"} |-> Strings(c, f)])

Moment(c) ==
  Content(c, [f \in {"title", "highlight", "text"} |-> RequireText(c, f)]
             ++ [f \in {"emphasis", "footer"} |-> OptionalText(c, f)])

ValidateBlockConfig(type, c) ==
  CASE type = "cta" -> Cta(c)
    [] type = "video_carousel" -> VideoCarousel(c)
    [] type = "price_summary" -> PriceSummary(c)
    [] type = "offers_price" -> OffersPrice(c)
    [] type = "store_trust" -> StoreTrust(c)
    [] type = "purchase_benefits" -> PurchaseBenefits(c)
    [] type = "spacer" -> Spacer(c)
    [] type = "cod_assurance" -> CodAssurance(c)
    [] type = "benefits" -> Benefits(c)
    [] type = "offer_price" -> OfferPrice(c)
    [] type = "included_benefits" -> IncludedBenefits(c)
    [] type = "reviews" -> Reviews(c)
    [] type = "faq" -> Faq(c)
    [] type = "guarantee" -> Guarantee(c)
    [] type = "announcement_bar" -> AnnouncementBar(c)
    [] type = "main_problem" -> MainProblem(c)
    [] type = "solution_presentation" -> SolutionPresentation(c)
    [] type = "how_it_works" -> HowItWorks(c)
    [] type = "audience" -> Audience(c)
    [] type = "moment" -> Moment(c)
    [] OTHER -> {}

ValidateSlotIndex(slot) == {slot} \cap 0 .. MaxSlotIndex

----------------------------------------------------------------------------
(* Templates.                                                               *)

Place(row) == <<row.slot, row.order>>
(* Places counted in the order of the page. *)
Rank(row) == (MaxOrderIndex + 1) * row.slot + row.order
FreeOrders(rows, slot) ==
  (0 .. MaxOrderIndex) \ {row.order : row \in {r \in rows : r.slot = slot}}

(* History: the fields, of those a landing can set, that were left to it. *)
LeftToLanding(config) ==
  {f \in {"accent_color", "dark_mode"} : Get(config, f) \subseteq {""}}

(* In the order of the page, without what only a row has. *)
SnapshotBlocks(rows) ==
  LET ranks == Sorted({Rank(row) : row \in rows})
  IN [i \in DOMAIN ranks |->
        Restrict(CHOOSE row \in rows : Rank(row) = ranks[i],
                 {"type", "slot", "order", "config", "enabled"})]

(* An order out of range is clamped, a taken one moved to the next free. *)
ParseEntry(rows, entry) ==
  LET wanted == IF entry.order < 0 THEN 0
                ELSE IF entry.order > MaxOrderIndex THEN MaxOrderIndex
                ELSE entry.order
  IN {Append(rows, [type |-> entry.type, slot |-> slot, config |-> config,
                    order |-> Min(FreeOrders(ToSet(rows), slot)
                                    \cap wanted .. MaxOrderIndex),
                    enabled |-> entry.enabled,
                    left |-> LeftToLanding(entry.config)]) :
        config \in ValidateBlockConfig(entry.type, entry.config),
        slot \in {s \in ValidateSlotIndex(entry.slot) :
                    FreeOrders(ToSet(rows), s)
                      \cap wanted .. MaxOrderIndex # {}}}

ParseTemplateBlocks(entries) ==
  LET parsed[n \in 0 .. Len(entries)] ==
        IF n = 0 THEN {<<>>}
        ELSE UNION {ParseEntry(rows, entries[n]) : rows \in parsed[n - 1]}
  IN IF Len(entries) > MaxBlocksPerLanding THEN {} ELSE parsed[Len(entries)]

----------------------------------------------------------------------------
(* Media for a page made from a template.                                   *)

(* A public URL names the object directly under originals/. *)
R2OriginalObjectKey(url) ==
  If(/\ url.host = "public" /\ ~url.query
     /\ Len(url.path) = 2
     /\ url.path[1] = "originals"
     /\ url.path[2] \notin {"", ".", ".."},
     url.path[2])

MediaRequirements(rows) ==
  {i \in DOMAIN rows : rows[i].type \in {"video_carousel", "offers_price"}}

NoMedia == [videos |-> <<>>, images |-> <<>>]
(* What an assignment list gives the component at an index. *)
MediaFor(assignments, i) ==
  LET given == SelectSeq(assignments, LAMBDA a : a.index = i)
  IN IF given = <<>> THEN NoMedia
     ELSE [videos |-> given[1].videos, images |-> given[1].images]

ValidateBlockAssetAssignments(rows, assignments) ==
  /\ IsInjective([a \in DOMAIN assignments |-> assignments[a].index])
  /\ \A a \in DOMAIN assignments :
       assignments[a].index \in MediaRequirements(rows)
  /\ \A i \in MediaRequirements(rows) :
       LET media == MediaFor(assignments, i)
           quantities == [m \in DOMAIN media.images |->
                            media.images[m].quantity]
       IN IF rows[i].type = "video_carousel"
          THEN media.images = <<>> /\ Len(media.videos) <= MaxVideosPerCarousel
          ELSE /\ media.videos = <<>>
               /\ IsInjective(quantities)
               /\ ToSet(quantities) = 1 .. OfferCount

SourcesResolve(assignments) ==
  \A a \in DOMAIN assignments :
    /\ \A v \in DOMAIN assignments[a].videos :
         /\ R2OriginalObjectKey(assignments[a].videos[v].url) # {}
         /\ Optional(assignments[a].videos[v].caption) # {}
    /\ \A m \in DOMAIN assignments[a].images :
         R2OriginalObjectKey(assignments[a].images[m].url) # {}

----------------------------------------------------------------------------
Init ==
  /\ landing = {}
  /\ template \in {Absent} \union {{entries} : entries \in Older}
  /\ page = <<>>
  /\ operations = 0

Operate == operations < MaxOperations /\ operations' = operations + 1

CreateBlock(type, raw, slot, enabled) ==
  /\ Operate
  /\ Cardinality(landing) < MaxComponents
  /\ Cardinality(landing) < MaxBlocksPerLanding
  /\ \E s \in ValidateSlotIndex(slot),
        config \in ValidateBlockConfig(type, raw) :
       /\ FreeOrders(landing, s) # {}
       /\ landing' = landing \union
            {[type |-> type, slot |-> s, order |-> Min(FreeOrders(landing, s)),
              config |-> config, enabled |-> enabled,
              left |-> LeftToLanding(raw)]}
  /\ UNCHANGED <<template, page>>

(* The component with the content given, if any is given. *)
Edited(row, given) ==
  IF given = Absent THEN {row}
  ELSE UNION {{[row EXCEPT !.config = config, !.left = LeftToLanding(raw)] :
                 config \in ValidateBlockConfig(row.type, raw)} : raw \in given}

(* New content, a new slot, shown or hidden, or any of these: a slot or an  *)
(* enabled that is not given is the one the component has.                  *)
UpdateBlock(row, given, slot, enabled) ==
  /\ Operate
  /\ LET others == landing \ {row}
     IN \E s \in ValidateSlotIndex(slot), edited \in Edited(row, given) :
          /\ s = row.slot \/ FreeOrders(others, s) # {}
          /\ landing' = others \union
               {[edited EXCEPT !.slot = s, !.enabled = enabled,
                               !.order = IF s = row.slot THEN @
                                         ELSE Min(FreeOrders(others, s))]}
  /\ UNCHANGED <<template, page>>

DeleteBlock(row) ==
  /\ Operate
  /\ landing' = landing \ {row}
  /\ UNCHANGED <<template, page>>

SaveTemplate ==
  /\ Operate
  /\ template' = {SnapshotBlocks(landing)}
  /\ UNCHANGED <<landing, page>>

(* The unique index on places has the last word. *)
LoadTemplate ==
  /\ Operate
  /\ \E entries \in template : \E rows \in ParseTemplateBlocks(entries) :
       /\ IsInjective([i \in DOMAIN rows |-> Place(rows[i])])
       /\ landing' = ToSet(rows)
  /\ UNCHANGED <<template, page>>

Instantiate(assignments) ==
  /\ Operate
  /\ \E entries \in template : \E rows \in ParseTemplateBlocks(entries) :
       /\ ValidateBlockAssetAssignments(rows, assignments)
       /\ SourcesResolve(assignments)
       /\ page' = [i \in DOMAIN rows |-> rows[i] ++ MediaFor(assignments, i)]
  /\ UNCHANGED <<landing, template>>

Next ==
  \/ \E content \in Contents, enabled \in BOOLEAN :
       \/ \E slot \in Slots :
            CreateBlock(content.type, content.config, slot, enabled)
       \/ \E row \in {r \in landing : r.type = content.type} :
            \E slot \in Slots \union {row.slot} :
              UpdateBlock(row, {content.config}, slot, enabled)
  \/ \E row \in landing, enabled \in BOOLEAN :
       \E slot \in Slots \union {row.slot} :
         UpdateBlock(row, Absent, slot, enabled)
  \/ \E row \in landing : DeleteBlock(row)
  \/ SaveTemplate
  \/ LoadTemplate
  \/ \E assignments \in Assignments : Instantiate(assignments)

Spec == Init /\ [][Next]_vars

----------------------------------------------------------------------------
(* Properties.                                                              *)

(* What is stored is what its validator gives for it: the editor can save   *)
(* it again unchanged.  A colour or dark mode that was left to the landing  *)
(* is still left to it, on the landing and on a page from the template.     *)
Settled(row) ==
  /\ ValidateBlockConfig(row.type, row.config) = {row.config}
  /\ LeftToLanding(row.config) = row.left

(* No edit, save or load loses or alters content: stored components are     *)
(* settled, a template saved now would give back the very same components,  *)
(* and one that can be loaded, however old, gives each a place of its own.  *)
ContentSurvives ==
  /\ \A row \in landing \union ToSet(page) : Settled(row)
  /\ {ToSet(rows) : rows \in ParseTemplateBlocks(SnapshotBlocks(landing))}
       = {landing}
  /\ \A entries \in template : \A rows \in ParseTemplateBlocks(entries) :
       IsInjective([i \in DOMAIN rows |-> Place(rows[i])])
=============================================================================
