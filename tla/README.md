# Easy Funnel: TLA+ models, checks and proofs

Easy Funnel sells single products by cash on delivery (COD). A buyer opens a
landing page and submits a form; the backend screens the order for fraud, stores
it in PostgreSQL and hands it to the fulfilment provider MasterShop. The merchant
edits landings and reviews orders in a dashboard. The backend is one FastAPI
process on one event loop; PostgreSQL (through Prisma, READ COMMITTED) and Redis
hold all shared state; R2 holds images and videos.

## 1. Inventory

| Component | State | Operations | Interacts with |
|---|---|---|---|
| Order submission (`services/order_submission_service.py`, `api/routers/public.py`) | `orders`, `order_fulfillment_details`, `fraud_flags`, `mastershop_order_syncs` | `POST /orders` | reads landing, product, fraud settings; calls the rate limiter, the fraud checks, then `sync_order` |
| Rate limiter (`redis/rate_limit.py`) | Redis counters with a TTL | `check_rate_limit` | submission, login |
| Fraud checks and settings (`domains/fraud`, `services/fraud_settings_service.py`) | `fraud_config`, `blacklist_entries`, `geoip_rules` | checks; dashboard edits | submission |
| MasterShop hand-off (`integrations/mastershop`) | `mastershop_order_syncs` row: status, attempts, last attempt, request body | `sync_order` | provider over HTTP; called by checkout, retry and approval |
| Order administration (`api/routers/admin_orders.py`) | order status, delivery data | retry, transition, edit, list, export | the sync row, `sync_order` |
| Traffic counters (`services/landing_traffic_service.py`) | Redis hash per day, set of pending days; `landing_analytics_daily` | record view/click, reconcile | public tracking, dashboard analytics |
| Catalog (`services/product_lifecycle_service.py`) | product status, price, `retiredAt` | create, update, activate, pause, retire | submission, publication |
| Publication, configuration (`landing_publication_service.py`, `landing_management_service.py`) | landing status, offers, CTA | publish, unpublish, update | banners, submission |
| Banner sequence (`banner_upload_service.py`, `banner_ordering.py`) | `banners` with unique position | upload, move, delete, reorder | publication, assets |
| Conversion blocks, templates (`landing_block_service.py`, `landing_template*_service.py`) | `landing_blocks` with unique (slot, order) | create, move, reorder, delete, instantiate | landing |
| Asset uploads (`offer_image_`, `video_`, `banner_upload_service.py`, `store_settings_service.py`) | rows naming objects in R2 | upload, replace, delete | object store |
| Pure algorithms (`offers.py`, `cta_placement.py`, `variants.py`, `blocks.py`) | none | pricing, placement, validation | most of the above |
| Authentication (`auth_service.py`, `jwt_auth.py`) | login counter, stateless token | login, logout | dashboard |
| Background tasks (`services/tasks`) | none shared with requests | image cleanup, GeoIP download, backup age | start-up |
| Storefront and dashboard (`frontend/src`) | component state | forms, editors | the HTTP API |

What is hard here: every `await` is a point where other handlers run; most
handlers read a row in one statement and act on it in a later one; the provider
knows no idempotency key; a process may stop between any two statements; Redis
may fail alone; a reply can be lost after its effect. `PROJECT.json` lists these
hazards at the lines where they bite, with the properties that would catch each.
Where the code admits what a hazard describes, no property can exclude it: the entry
says so, and section 5 describes the behaviour.

Correctness, per component: an order is screened against everything that held
when its request came, sold on terms that were set, answered truthfully; an
order reaches the provider once, reviewed, with the data the shop shows; its
status follows the graph; a view or click is neither lost nor doubled; a landing
keeps to its limit of banners, in gap-free order, each with its image; its
components stay where an administrator put them; what a template saved it gives
back; no row names an object that was deleted, and no object is left behind
unnoticed; a published landing of an active product opens, whatever was edited
in which order; a retired product stays retired.

## 2. Modules

| Module | Models |
|---|---|
| `OrderSync` | one order: `sync_order`, `_fail`, retry, transition, edit, the provider |
| `OrderSync_proofs` | its theorems, and that it implements `OrderLifecycle`, one administrator request at a time |
| `OrderSubmission` | concurrent checkouts: `submit`, the fraud checks, the counters, the answer |
| `OrderSubmission_proofs` | its theorems |
| `LandingTraffic` | one landing's counters: `_record`, `reconcile_landing`, acknowledgement |
| `LandingTraffic_proofs` | its theorems |
| `LandingBanners` | one landing's banners: upload, `delete_banner`, `update_banner`, `reorder_banners`, the images in R2 |
| `LandingBanners_proofs` | its theorems |
| `LandingBlocks` | one landing's components: creation, move, reordering, deletion, templates saved and loaded |
| `LandingBlocks_proofs` | its theorems |
| `BlockContent` | what each type of component keeps of its content through edits, templates and new pages |
| `BlockContent_proofs` | its theorems |
| `AssetStore` | rows against R2: offer images, videos, brand images, removals, pages made from a template |
| `AssetStore_proofs` | its theorems |
| `LandingSettings` | pure rules: button placement, offers and prices, colours and wording, template settings |
| `Catalog` | products and landings: lifecycle, settings, publication, templates, and the pages shown |
| `Catalog_proofs` | its theorems, and those about the rules of `LandingSettings` that they rest on |
| `OrderLifecycle` | abstract: what the backend promises of one order |
| `TrafficLedger` | abstract: what the counters promise of one landing |
| `MCOrderSync`, `MCOrderSubmission`, `MCLandingTraffic`, `MCLandingBanners`, `MCLandingBlocks`, `MCAssetStore`, `MCCatalog`, `MCBlockContent` | instances for TLC |

How they fit together: `OrderSubmission!Commit` writes the row that is
`OrderSync`'s initial state, and `OrderSubmission!HandOff` is the whole of
`OrderSync` seen from the buyer. `Catalog` EXTENDS `LandingSettings`, as does
`BlockContent`. The number of banners in `Catalog` and `LandingBlocks` changes as
`LandingBanners` describes it; the settings in `LandingBlocks` change as `Catalog`
describes them; the media of `LandingBanners` and of the components are those of
`AssetStore`. Composing them in one state space would multiply it without adding
an interaction: they share rows, not transactions, so that each sees the others
as an environment that changes a row between any two of its statements.

In all of them a step is one awaited statement (one SQL statement, one Lua script,
one HTTP exchange cut into send, acceptance and reply). `find_unique` with
`include` is one SELECT per relation and so several steps. An interactive
transaction whose first statement takes the row lock all others need is one step
at its commit (the edit); the checkout's transaction takes no lock, so its reads
are steps and its inserts appear at COMMIT. Operators named "faulty variant" in
a module are not part of the specification: each is a plausible bug that the
property it is paired with in `PROJECT.json` must detect.

### OrderSync

State: `order` (status), `edition` (number of the current delivery data, shared
by the orders row and the details row because one transaction writes both),
`sync` (the `mastershop_order_syncs` row with the age of its claim), and for each
handler `pc`, the status it has `seen`, the `form` it carries and the `goal` of a
transition. `posted` and `accepted` stand for the provider. `origin`, `doubtful`
and `overrun` are history.

| Code | Actions |
|---|---|
| `sync_order` 30-51 | `ReadOrder`, `ReadSync`, `MarkWaitingReview` |
| claim 54-80 | `Claim`, `ClaimGetsOld` (the row passes `stale_before`) |
| reload 84-112 | `ReloadOrder`, `ReloadDetails` |
| request 113-142 | `SaveRequestBody`, `Send`, `ReceiveOk`, `ReceiveRefusal`, `LoseReply` |
| results 143-173 | `RecordSuccess`, `RecordFailure` |
| `retry_mastershop_sync` | `RetrySync`, then as above |
| `transition_order` | `RequestTransition`, `CheckTransition`, `WriteTransition` |
| `update_order_fulfillment` | `RequestEdit`, `EditReadOrder`, `EditReadSync`, `CommitEdit` |
| database error, stop | `Die` |

Two facts of the code decide what holds. The claim is a conditional update and
so a lock. But the writes of `waiting_review`, `failed` and `success` are not
conditional. For an order that was never flagged, no handler ever sees a status
other than pending before the order moves on, and the lock is sound; for an order
released from review a handler may still carry the old status. The properties
about the lock are therefore stated for `Undisturbed` orders: created pending,
and no worker outlived its claim. The remaining cases are the first
finding and two observations of section 5.

Seen from outside this is `OrderLifecycle`: a status that moves along the
documented graph, an attempt counter, and a provider that takes an attempt only
if the order is not held and every earlier taken attempt went unheard.
`ImplementsLifecycle` maps its `status`, `attempts`, `taken` and `unheard` to
`order`, `sync.attempts`, the numbers of `accepted` and `doubtful`; every other step
of the handlers is a stutter.

`ReceiveRefusal` takes the provider at its word: a reply other than 200 means
that it created nothing. `LoseReply` is every case in which it might have.

### OrderSubmission

State: what the checkout reads (`landing`, `product`, `limit`, `blacklist`,
`rules`), the Redis counters `count`, the committed `orders`, those inside the
duplicate window (`recent`), and per request `pc`, the `terms` and `cap` it read,
the `flags` it collected and its `answer`. `window`, `strictness`, `witness` and
`unknown` are history. `Closed` stands for a landing that is not published and
for a product that is not active.

| Code | Actions |
|---|---|
| `submit` 161-194 | `Receive` |
| 196-212 | `ReadLanding`, `ReadProduct` |
| 214-241 | `ReadConfig` |
| 243-256, `check_rate_limit` | `CountPhone`, `CountIp`, `WindowEnds` |
| 267-280, `checks.py` | `CheckDuplicate`, `CheckBlacklistPhone`, `CheckBlacklistIp`, `CheckGeoip` |
| 281-349 | `Commit` |
| `create_order` 560-589 | `Reply`, `FailDatabase`, `HandOff` |
| dashboard | `ChangeLanding`, `ChangeProduct`, `ChangeLimit`, the blacklist and GeoIP actions |

Whatever happens in `HandOff` is swallowed and the answer is 201. The blacklist and
the GeoIP rules are arbitrary to begin with. An address has one country for a
whole behaviour; a failed GeoIP lookup is a country no rule names.

### LandingTraffic

State: Redis (`hash`, `expires`, `index`), PostgreSQL (`pg`, `fallback`), and per
worker `pc`, the `day` of its event, and `current`, `todo`, `snapshot` of its
reconciliation. `counted`, `late` and `unsure` are history.

| Code | Actions |
|---|---|
| `_record` | `Record`, `Increment`, `IncrementFails`, `RecordFallback` |
| `get_landing_analytics` | `OpenAnalytics` |
| `reconcile_landing` | `ReadMembers`, `ReadHash`, `ForgetDay`, `Persist`, `Acknowledge`, `SkipDay` |
| deadline of the dashboard | `Cancel` |
| time | `DayEnds`, `KeyExpires` |

`TrafficLedger` is what this is for: events are counted by day, and a stored total
only moves towards what was counted. `ImplementsLedger` maps `stored` to `pg`; the
caching, the index, the retries and the TTL are invisible in it.

The 48 hours of the TTL are abstracted to any time after the acknowledgement,
which gives more behaviours than the code has.

### LandingBanners

State: `position` (the committed `banners` rows), for each handler the rows its
transaction has `written` or `removed`, its `pc` and its locals (`target`: the
banner it uploads or deletes; `size`; `rank`: the numbering to write; `step`: how
far the two passes are), and `objects` (banners whose images are in R2).
`orphaned`, `shown`, `doubtful` and `overlapping` are history.

| Code | Actions |
|---|---|
| `upload_banner` 76-100 | `BeginUpload` |
| puts 102-115, `_cleanup_partial_upload` | `Put`, `Cleanup` |
| `_persist` | `Insert`, `CommitUpload` |
| `delete_banner` | `BeginDelete`, `DeleteRow`, then as below |
| `update_banner`, `reorder_banners` | `BeginReorder`, then as below |
| `_apply_order` | `Renumber`, `RenumberCollides`, `CommitOrder` |
| errors, stop | `FailDatabase`, `Crash` |

PostgreSQL is the environment: `View` is what a statement sees, `Locked` the row
locks, `InDoubt` the wait for another transaction at the unique index, `Taken` its
violation. A deadlock of two renumberings ends with one of them as its victim
(`FailDatabase`). The image rows are written in the transaction of the banner's
row and are one with it here. A move is any permutation, which is what
`reorder_banners` accepts. Requests that are rejected on sight, and updates of the
alternative text alone, change none of this. A deleted banner's image stays in R2
by design; the clean-up task that is to remove it lists no object at this commit.

### LandingBlocks

State: `place` (component -> slot and order, the committed rows), `written` and
`removed` of each transaction, `config` and `banners` of the landing, the saved
`templates`, and per handler its `pc` and locals (`target`, `slot`, `seen`: the rows
it read; `goal`, `todo`, `step` of a reordering; `draft`: the template in hand).
`chosen`, `overlapping` and `joined` are history. The database is as in
`LandingBanners`.

| Code | Actions |
|---|---|
| `create_block` | `BeginCreate` (cap, free order), `Insert`, `CommitCreate` |
| `update_block` | `BeginMove`, `Move`, `CommitChange` |
| `delete_block` | `BeginDelete`, `DeleteRow`, `CommitChange` |
| `reorder_blocks` | `BeginReorder`, `BeginSlot`, `Rewrite`, `RewriteCollides`, `EndSlot`, `CommitReorder` |
| `save_template`, `delete_template` | `BeginSave`, `ReadBlocks`, `CommitSave`, `DeleteTemplate` |
| `load_template` | `BeginLoad`, `UpdateLanding`, `Clear`, `Fill`, `CommitLoad` |
| errors, stop | `Abort` |
| banners and settings change | `ChangeLanding` |

A reordering first parks every component of a slot in a slot that was free when
it was read, then gives each its new place; `step` says how far it is.

### BlockContent

State: the landing's components with their content, the stored template, the page
made last. One administrator works at a time: this module is about data.

| Code | Definitions |
|---|---|
| `blocks.py`, one validator per type | `AnnouncementBar` to `Moment`, `ValidateBlockConfig` |
| `_require_text`, `_optional_text`, accents, dark mode | `RequireText`, `OptionalText`, `OptionalAccentColor`, `DarkMode` |
| `templates.py` | `SnapshotBlocks`, `ParseEntry`, `ParseTemplateBlocks` |
| `landing_template_instantiation_service.py` | `MediaRequirements`, `ValidateBlockAssetAssignments`, `R2OriginalObjectKey` |
| requests | `CreateBlock`, `UpdateBlock`, `DeleteBlock`, `SaveTemplate`, `LoadTemplate`, `Instantiate` |

A text is one of a few kinds that the validators tell apart (blank, padded, too
long, no text at all, anything else); numbers are in tenths. `left` is history: what
the administrator left to the landing. `Json` says what a request or a template of an
earlier release can hold: one value per field, lists that have a length, whole tenths
(an order that is no integer is read as 0, so entries have integers).
It is all that is assumed of them; fields may be missing, wrong or unknown, and a
field that should be a list and is none counts as a list that is too long: both are
refused. An edit gives new content, a new slot, the enabled flag, or any of these.
`Rank` is the `ORDER BY slotIndex, orderIndex` of `list_for_landing`, and
`ParseTemplateBlocks` the loop over the entries, as a recursive function.

### AssetStore

State: the component rows (`blocks`) and the rows that name media (`tier`: offer
images, one offer per component; `clips`: videos with their order; `brand`; `pages`:
media of landings made from templates), `objects` in R2, and per handler what it
does (`kind`, `spot`, `target`), what it has read (`previous`, `count`, `order`), and
the keys it is to put, has put and is to delete. `stray`, `doubtful` and
`contested` are history.

| Code | Actions |
|---|---|
| `offer_image_upload_service.py` | `BeginImage`, `BeginImageRemoval` |
| `video_upload_service.py` | `BeginVideo`, `BeginVideoRemoval`, `ReadRemaining` |
| `delete_landing_block`, `load_landing_template` | `BeginDrop`, `BeginLoad` |
| `store_settings_service.py`, `upload_asset` | `BeginBrand`, `ReadBrand`, `ReadBrandFails`, `UpdateBrand`, `AuditBrand` |
| `instantiate` | `BeginPage` |
| all uploads | `Put`, `PutFails`, `Persist`, `PersistFails` |
| all removals | `Remove`, `RemoveFails` |
| clean-ups, stop | `DeleteKeys`, `Crash` |

### LandingSettings and Catalog

`LandingSettings` has no state. It defines the validators and parsers of
`offers.py`, `cta_placement.py`, `cta_*.py`, the columns `update_config` writes
(`UpdateColumns`) and what templates do with them (`SnapshotConfig`,
`ParseTemplateConfig`). An optional value is a set of at most one element; a
validator is the set of values it returns, empty when it raises. Prices are whole
cents, and rounding is half up as in the code. `f ++ g` is the record that takes
what `f` has and the rest from `g` (a partial update over the stored row);
`Sorted` is Python's `sorted` of a set. Both are written out here, where the
provers can see them.

`Catalog`'s state: `products`, `landings` (status, slug and all settings), the number
of `banners`, the saved `template`, and per handler `pc` and `job`, the request with
what it has read. `unchecked` and `contested` are history.

| Code | Actions |
|---|---|
| `create` | `CreateProduct` |
| `update` | `StartUpdateProduct`, `WriteProduct` |
| `activate`, `pause`, `retire` | `StartTransition`, `WriteProduct`, `StampRetirement` |
| `update_config` | `StartUpdateConfig`, `CheckSlug`, `CountBanners`, `CheckConfig`, `WriteLanding` |
| `publish`, `unpublish` | `StartPublish`, `CheckPublish`, `WriteLanding`, `Unpublish` |
| templates: settings | `StartSave`, `SaveTemplate`, `StartLoad`, `CheckLoad`, `WriteLanding` |
| `instantiate` | `StartInstantiate`, `Persist` |
| errors, stop | `Fail` |
| banner operations | `ChangeBanners` |
| pages | `Visible`, `PublicPage`, `Summary`, `DescribeSlots` (no state) |

A settings edit reads the landing, then what it is validated against (the owner of
a new slug, the banners, the price), each in a step of its own and only if what it
was given asks for it, and then writes; the other requests read in one step and
write in a later one. That a template changed its version since it was shown is
left out of `StartInstantiate`: it only refuses a request. Only the columns a request
computed are written. The audit entry is in the transaction of the write and part
of it.

The assumptions say what the code gives the constants: draft slugs contain the
product's id, so no two are equal (`product_lifecycle_service.py:123`); the fields
an edit may give are those of the request schemas, with formats already checked
(`products.py:39-43`, `admin_landings.py:167-184`). Everything else about a
settings edit, its ranges included, is left to the validators.

## 3. Runs

Passing runs (states are distinct states, up to symmetry where it is used):

| Run | Instance | Shows |
|---|---|---|
| `order_sync_concurrent` | checkout, 2 administrator handlers, 3 requests, all faults, at most two deaths or overruns, both origins (about 1.4 million states) | the six invariants of the hand-off |
| `order_sync_sequential` | checkout, 1 administrator handler, 3 requests, a death and lost replies, retries of old claims without bound (about 100 000 states) | the abstract life of an order is implemented, hand-off once for reviewed orders too; every request ends; an abandoned claim ends |
| `order_submission` | 2 requests of one buyer, 2 prices, 2 limits, any initial blacklist and rules, 1 administrator change, all faults (about 4.3 million states) | terms that were set, screening, limit, answer |
| `landing_traffic` | 2 workers, 2 days, 3 events, 2 failures (about 180 000 states) | the ledger is implemented, nothing lost, nothing doubled, days are persisted |
| `landing_banners` | 3 administrators, 4 banners, limit 3, 3 operations, all faults (about 43 000 states) | limit, positions and images; an operation alone leaves no gap |
| `landing_blocks` | 2 administrators, 4 components, cap 2, 3 slots of 2 orders, 1 template, 2 settings, 3 operations | parked slots are never committed; cap, reordering, load and save do what they say |
| `asset_store` | 2 administrators, 4 opaque keys, 1 offer component, 1 carousel of at most 2 videos, 3 operations, all faults | rows and objects agree; the carousel keeps its limit and order |
| `catalog` | 2 administrators, 2 products, 2 prices, 3 slugs, at most 2 banners, 3 requests, valid and invalid edits | visible pages open, templates give back what was saved, retirement is final |
| `block_content` | every type with full content and with each field wrong in turn, 6 kinds of old templates, 1 component, 4 operations (about 115 000 states) | content survives every path |

Bounds. `MaxRequests = 3` with two handlers admits every pair of concurrent
administrator operations followed by a third one that exposes the damage; the
checkout is a further handler. Two submissions suffice because every property of
`OrderSubmission` relates one request to what others left behind, and with limit
1 the second one exceeds it; one administrator change can fall between any two
statements, and the arbitrary initial lists stand for all earlier ones. Two days
let a day end, be acknowledged, expire and be hit late; two workers let two
reconciliations overlap, and a third event comes after one of them. Three
overlapping operations on banners let each of two interfere with the third, and
with a limit of 3 every start from an empty to a full landing occurs. With a cap
of 2 and four components two creations can exceed the cap and a load can follow;
two orders per slot are what a swap needs, three slots leave one to park in. In
`asset_store` a third operation shows what two overlapping ones left. In `catalog`
the prices and the fixed discount are chosen so that the discount fits one price
and not the other; the edits include each mode, a lower count in one edit with a mode (so that it reads
banners and price), a default above it, unsorted positions, duplicate positions and
two discounts on one tier. In
`block_content` content is validated field by field, so one wrong field at a time
reaches every branch, and four operations are a creation, an edit, a save and a
load. Deadlock checking is off: behaviours end when their bounds are used up.

Symmetry: handlers in `order_sync_concurrent`, `landing_banners`,
`landing_blocks`, `asset_store` and `catalog`, buyers' requests and prices in
`order_submission`, banners, components, settings and opaque keys. None of these
values is compared or chosen from, and symmetry is used only in runs without
liveness properties.

Violation runs, one property each: `order_sync_sent_twice`, `catalog_unpriced`,
`catalog_slots` (section 5).

Definitions named "faulty variant" are the plausible bugs: replacing the
definition they follow by them makes TLC violate the property `PROJECT.json`
pairs them with.

Fairness. `OrderSync!FairSpec`: a handler that can step does so (the event loop
runs it, and httpx ends every call by a timeout), time passes, and
administrators who keep seeing a row in progress after its claim got old retry
it. Nothing else reclaims a row in the code, so `ClaimsEnd` needs the last
assumption; `Persistent` exempts these retries from the bound on requests, so
that the bound cannot end the waiting. `LandingTraffic!FairSpec`:
days end, calls in flight end, the dashboard is opened again and again; failures
are bounded by `MaxFailures`. The code has no scheduler, so without visitors to
the dashboard nothing is promised. The other modules have no liveness property:
their requests end by returning or failing, and nothing waits for them.

## 4. Proofs

The invariants below hold for every set of handlers, requests, workers, keys and
days, and for any bound; TLC evaluates the assumptions on the constants in each
passing run, and it checked every inductive invariant on the small instances
before it was proved.

`OrderSync_proofs`: `TypeCorrect`, `UnreviewedOrdersStay`, `SendsAreCounted`,
`OneHolder`, `HandedOffOnce`, `ProviderHasTheData`. The inductive invariant
adds to the properties: claim numbers are distinct among holders and among
requests, and a holder sends once per claim (`Numbering`); only a handler that
read "pending" goes on to send, and an order born pending never returns to it
(`Reading`); while an undisturbed order is pending a holder's number is the
row's attempt count and the row is freshly syncing (`Locked`); there is one
sender at most, and a request whose result is not recorded belongs to it or is
doubtful (`OneSender`); what the sender gathered is the current edition
(`Delivered`). Without `Reading` a stale write could release the lock, and
without `OneSender` a success could be forgotten.

Its second part assumes one administrator handler and no claim that is
outlived (`Sequential`), and proves `HandedOffOnceInTurns` and
`LifecycleImplemented` for any number of requests, deaths and lost answers, and for
orders held for review. It adds two invariants.
`Turns`: the checkout never changes the status, an order held for review has no
checkout at work, and a transition is written to the status it was validated
against. `HeldForReview`: for such an order the one handler owns the row while it
holds the claim, and every request at the provider is unheard, recorded, or about
to be recorded, all but the last unheard. Orders that were never held are covered
by `OneSender`. The step lemma then maps each action to a step of `OrderLifecycle`
or to a stutter; the interesting case is the provider taking an attempt, where the
two invariants give that every other taken attempt was unheard.

`OrderSubmission_proofs`: `TypeCorrect`, `NothingSlipsThrough`, `LimitIsKept`,
`OffersAreHonoured`, `AnswersAreTrue`. One lemma says that a step of one request
leaves the others alone, one that administrators and time leave requests alone;
the invariant is then a condition per request (`Answered`, `Offered`,
`Screened`) and one per counter (`Limited`: the requests that their own count did
not flag are at most as many as the counter shows, and at most the largest
limit applied). The last one is a cardinality argument over the finite set of
submissions.

`LandingTraffic_proofs`: `TypeCorrect`, `IdleLandingLosesNothing`,
`SnapshotsNeverExceed`, `EventsCountedOnce`, `LedgerIsKept` (the refinement of
`TrafficLedger`: only a merge changes a stored total, and what it merges is
bounded by what was counted). The invariant says that a snapshot held by a worker
is at most what was counted, and all of it when the day is over and has no late
events; that only closed days expire; and that what is in the hash but not in the
index has been stored. `EventsCountedOnce` needs a balance: the sums of both
counters and the events still under way (`Underway`) never exceed the events
recorded and the lost replies. A sum over days is the number of its events
(`Total`), so that one increment adds one element to a finite set.

`LandingBanners_proofs`: `TypeCorrect`, `PositionsStayInRange`, `CapAlwaysHolds`,
`ImagesOfRows`, `RowsOfImages`, `PositionsCloseUpAlone`. Every action is first
shown to have one of five effects on the rows (none, rollback, a write, a
deletion, a commit), and each effect to keep the laws of the unique index
(`Locking`, `Distinct`, `Unique`: what two transactions write, and what is
committed and not being left, never coincides). `Transactions`, `Passing` and
`Freshness` then say per handler what it holds and why: in particular, once the
second pass is beyond a banner, its placeholder is gone (`Passing`), hence no
commit publishes one; an upload carries a position below the limit it tested. The
limit on the number of banners follows by the pigeonhole principle from distinct
positions in range, although nobody counts at the insert. Images need `Imaging`:
they are put before the row, and a clean-up meets a committed row only if its
COMMIT went unanswered. For operations that run alone, `Undisturbed` says that
what they read is still so and that the banners the second pass went by are
written; numbers that are one-to-one and as many as the banners then leave no gap
(`NoGap`).

`AssetStore_proofs`: `TypeCorrect`, `RowsKeepObjects`, `NoObjectForgotten`,
`CarouselsStayInOrder`, all from `AlwaysIInv`. Its invariant says who owns what: an
asset belongs to the request that generated it, and nobody else has seen it before
its row is written (`Owned`); a row keeps its id for life, and what a request has
read is still where it read it, or nowhere (`Identified`, `Reading`); so the keys
a request is about to delete belong to no row but a doubtful one (`Cleaning`). For
the other direction, requests that meet are on record (`Overlaps`), hence what an
unrecorded one has read is all there is (`Current`), and an object is named, held
by a request, left behind on record or contested (`Accounted`). The limit of a
carousel is once more a pigeonhole argument: orders are distinct (the unique
index) and below the maximum, though the count an upload took may be old.

`LandingBlocks_proofs`: `TypeCorrect`, `SlotsAreChosen`, `LoadsReplaceAll`,
`CapKeptAlone`, `SnapshotsAreFaithful`, `ReorderingsTakeEffect`. `Transactions`,
`Locking`, `Distinct` and `Unique` are the laws of open transactions, as for
banners. `SlotsWereChosen` needs `Placing`: whatever a transaction has written is
either where an administrator put the component or the temporary slot of a
reordering that still has to bring it back (`Returning`), so that none commits in
it. The three properties of operations that run alone rest on `Undisturbed` (what
such an operation has read is still so) and the reordering on `Rewriting`: in the
slot being rewritten each component is as read, parked or in its new place,
according to how many statements have been executed; slots done are as asked and
slots to do as read. From that the unique index is never met, because the place
due next is one that its holder has left already, and at the end every slot is in
the order asked for. Ranks are a bijection between a slot's components and
`1 .. n`, a lemma about cardinalities.

`Catalog_proofs`: `TypeCorrect`, `SettingsStayValid`, `VisiblePagesOpen`,
`TemplatesFaithful`, `RetiredForGood`. The heart is a set of lemmas about the
validators of `LandingSettings`, each a fixed point: what a validator returned, it
accepts again unchanged, also after offers went through their stored form
(`ToJson`, `ParseStoredOffers`) and after a change of the number of offers.
`Settings` then says that every stored value is such a fixed point; it is
inductive because fields that are validated together are written together
(`GoodColumns`), so that partial updates of different requests cannot combine into
something none of them validated. `Requests` says what each request carries,
`Priced` that tiers fit the price unless an unchecked price is on record, and
`Uncontested` that while nothing overlapped on a landing its default is one of its
offers and every edit of it has read the count and default in force. `TypeOK`
carries the uniqueness of SKUs and slugs: the look-up before a write may be stale,
the unique index at the write is not, and a draft slug is a product's own. Without
`Settings` neither the page nor the template theorem could be proved: a template
is a second reading of the stored columns, and that it loads as the same page is
idempotence of the validators.

`BlockContent_proofs`: `AlwaysKept` and `ContentAlwaysSurvives`, for every set of
requests and older templates that are JSON. First, field by field, list by list and
type by type: what a validator returned is a fixed point of it, and leaves to the
landing what the raw content left to it (`Sound`, `JsonIsSound`). This is what makes
a save, a load and a copy harmless, since each of them validates again. Then the loop
over a template's entries: each entry read takes a free place, so places stay apart
(`ParsedApart`), and a snapshot reads back, entry by entry, as the components it
lists, each at the place it asks for because that place is still free
(`SnapshotGivesBack`; here distinct places and `Sound` are both needed, hence the
invariant). The induction theorems of the library are out of the provers' reach, so
these two facts are proved from a least counterexample (`LeastNumber`, from the
well-foundedness of `<`): the first length at which one of them would fail. The same
argument shows that the recursive function in `ParseTemplateBlocks` exists
(`ParseExists`); nothing follows from its definition before that. `IInv` is then that
the landing's components are sound, at places of their own and at most 20, that each
entry of the stored template is sound to read, and that a page's components are.

Only model-checked: liveness (`RequestsAnswered`, `ClaimsEnd`, `DaysArePersisted`),
which the provers do not cover. Every other property of a passing run is the
statement of a theorem.

## 5. Findings

1. *An order that already synced is sent twice* (`order_sync_sent_twice`, against
   `admin_orders.py:391`). A retry reads a flagged order and stops before its
   unconditional `waiting_review` write (`service.py:46-48`). Another
   administrator approves the order; it is sent and recorded as a success. The
   write then reopens the row, and the next retry sends the order again.
2. *A landing no longer opens in the dashboard* (`catalog_unpriced`, against
   `admin_landings.py:319`). A product's price may be lowered below a fixed discount
   of its landing; nothing checks it. `resolve_offer_pricing` then raises while the
   summary is built, for this landing and for the list of all landings.
3. *The dashboard names places the page does not have* (`catalog_slots`, against
   `landing_block_service.py:68`). Slot labels are derived from the stored button
   positions, which are empty unless the mode is `fixed_positions`; the page
   computes the buttons from the mode.

Observations: behaviour met while modelling that no run claims to be an error.
The properties are stated so that they say what holds besides.

- The write of finding 1 in the middle of a claim makes the row editable while its
  worker sends (`admin_orders.py:267` rejects edits in progress).
- Two transitions validated against the same status write one after the other
  (`admin_orders.py:418` says "legal graph only").
- The duplicate check always filters on phone and address, whatever match fields
  are configured (`checks.py:37`, `:56`).
- An event stamped before midnight and counted after its day was acknowledged
  sits in a key that expires; if the landing then stays idle the count is lost.
- An upload that overlaps a deletion can leave a gap in the banner positions. The
  next upload then meets the unique index and fails, until a deletion or a
  reordering renumbers all banners.
- The docstring of `upload_banner` says that a failure leaves neither row nor object.
  If the answer to COMMIT is lost, the row stays and its images are deleted. The same
  holds for offer images, videos and instantiated pages, and for a brand image whose
  audit entry fails after its row was written.
- The upload of a brand image reads the settings row after the image was put and
  outside the `try` (`store_settings_service.py:127`): if that read fails, the image
  stays in R2 and no row names it.
- Two overlapping creations can exceed the cap on components.
- A pause that read a product before it was retired writes "paused" over "retired";
  `retire` stamps `retiredAt` in a second transaction.
- Overlapping edits, one lowering the number of offers and one raising the default
  quantity, store a default no tier has; a template saved from such a landing does
  not load.
- A blank button text is stored by `update_config` and read as unset from a template.
- A landing may be published while its last banner is being deleted, and it stays
  published when its banners are deleted later; its page opens without them.
- The draft landing of a new product takes the slug `draft-<id>`, which another
  landing may have been given; the creation then fails.
- `resolve_public_landing` is called by tests only; the public endpoint reads the
  landing itself, and `Catalog!Visible` models that.
- `float()` accepts "nan" and "inf" as the reference price of a component.

## 6. Not modelled

Left out on purpose: rendering, pixel and video processing, SQL aggregates, CSV
text, start-up tasks, the login counter (the function `OrderSubmission` models, with
another key and limit), the text fields of the store settings, the replacement of the
provider's product mappings (whether a payload can be built is a choice in
`OrderSync`), product variants, the fields of the COD form. Two simultaneous first
orders of one buyer both pass the duplicate check; the code has nothing against it
and no document promises it. `find_unique` of a landing with its product is two
reads, so an order can combine an offer and a price that were never set together;
`SoldAsOffered` therefore speaks about each alone.
