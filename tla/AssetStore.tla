------------------------------ MODULE AssetStore ------------------------------
(****************************************************************************)
(* Rows that name media objects and the objects in R2: offer images, videos *)
(* and brand images, the removal of components with their media, and the    *)
(* landings created from a template with all their media.                   *)
(*                                                                          *)
(* R2 knows no transactions: every upload puts its objects first, writes    *)
(* its row next and cleans up last, by the keys it remembers.  A database   *)
(* transaction takes effect in one step, at its COMMIT; the removal of a    *)
(* video, which decides on rows it has read, is the only one with a step    *)
(* before that.  What the banners do with their images is in LandingBanners.*)
(****************************************************************************)
EXTENDS Integers, FiniteSets

CONSTANTS
  Handlers,       \* concurrent administrator requests
  OfferBlocks,    \* components with one image per offer (one offer here)
  VideoBlocks,    \* components with a sequence of videos
  Assets,         \* opaque keys: each names two objects, a brand's one
  MaxVideos,      \* MAX_VIDEOS_PER_CAROUSEL
  PageAssets,     \* bound: media of a landing created from a template
  MaxOperations,  \* bound: operations started in a behaviour
  Faults          \* which of "db", "r2", "commit", "crash" may happen

ASSUME AssetAssumption ==
  /\ IsFiniteSet(Assets)
  /\ OfferBlocks \intersect VideoBlocks = {}
  /\ MaxVideos \in Nat \ {0}
  /\ PageAssets \in Nat \ {0}
  /\ MaxOperations \in Nat
  /\ Faults \subseteq {"db", "r2", "commit", "crash"}

VARIABLES
  blocks,      \* component rows
  tier,        \* offer images: component -> its row, if any
  clips,       \* videos: component -> asset -> order
  brand,       \* the brand image, if any
  pages,       \* media rows of landings created from templates
  objects,     \* keys in R2
  pc,          \* next awaited statement of each handler, "idle" if none
  kind,        \* what it does
  spot,        \* the components it is about
  target,      \* the opaque keys it has generated
  previous,    \* the row or rows it has read and means to replace or delete
  count,       \* videos it has counted
  order,       \* orders it means to give remaining videos
  queue,       \* keys it has yet to put
  uploaded,    \* uploaded_keys: the keys whose put succeeded
  doomed,      \* keys it is about to delete
  used,        \* opaque keys taken so far
  operations,  \* operations started so far
  stray,       \* history: keys a failed put, read or clean-up left behind
  doubtful,    \* history: assets cleaned up although their row was written
  contested    \* history: components that several requests were about at
               \* once, and the assets of these requests

rows == <<blocks, tier, clips, brand, pages>>
locals == <<kind, spot, target, previous, count, order, queue, uploaded, doomed>>
started == <<used, operations>>
history == <<stray, doubtful, contested>>
vars == <<rows, objects, pc, locals, started, history>>

Components == OfferBlocks \union VideoBlocks
Keys == Assets \X {1, 2}
KeysOf(A) == A \X {1, 2}
BrandKey(a) == <<a, 1>>

(* An offer image row keeps its id when its image is replaced. *)
ImageRows == [id : Assets, asset : Assets]
Orders == UNION {[A -> 0 .. MaxVideos - 1] : A \in SUBSET Assets}
NoClips == [a \in {} |-> 0]

Uploads == {"image", "video", "brand", "page"}
Removals == {"unimage", "unvideo", "drop", "load"}
PCs == {"idle", "put", "read", "persist", "audit", "remove", "renumber",
        "delete"}

AssetsIn(R) == {r.asset : r \in R}
MediaOf(c) == AssetsIn(tier[c]) \union DOMAIN clips[c]
Named == (UNION {MediaOf(c) : c \in Components}) \union brand \union pages
KeysNamed == KeysOf(Named \ brand) \union {BrandKey(a) : a \in brand}

Gapless(c) ==
  {clips[c][a] : a \in DOMAIN clips[c]} = 0 .. Cardinality(DOMAIN clips[c]) - 1

(* Some carousels have been filled before. *)
Init ==
  /\ blocks = Components
  /\ tier = [c \in Components |-> {}]
  /\ clips \in [Components -> Orders]
  /\ \A c \in Components : Gapless(c) /\ (c \in OfferBlocks => clips[c] = NoClips)
  /\ \A c, d \in Components :
       c # d => DOMAIN clips[c] \intersect DOMAIN clips[d] = {}
  /\ brand = {}
  /\ pages = {}
  /\ objects = KeysOf(Named)
  /\ pc = [h \in Handlers |-> "idle"]
  /\ kind = [h \in Handlers |-> "image"]
  /\ spot = [h \in Handlers |-> {}]
  /\ target = [h \in Handlers |-> {}]
  /\ previous = [h \in Handlers |-> {}]
  /\ count = [h \in Handlers |-> 0]
  /\ order = [h \in Handlers |-> NoClips]
  /\ queue = [h \in Handlers |-> {}]
  /\ uploaded = [h \in Handlers |-> {}]
  /\ doomed = [h \in Handlers |-> {}]
  /\ used = Named
  /\ operations = 0
  /\ stray = {}
  /\ doubtful = {}
  /\ contested = {}

Goto(h, where) == pc' = [pc EXCEPT ![h] = where]

(* The request ends and its locals are gone. *)
Forget(h) ==
  /\ Goto(h, "idle")
  /\ kind' = [kind EXCEPT ![h] = "image"]
  /\ spot' = [spot EXCEPT ![h] = {}]
  /\ target' = [target EXCEPT ![h] = {}]
  /\ previous' = [previous EXCEPT ![h] = {}]
  /\ count' = [count EXCEPT ![h] = 0]
  /\ order' = [order EXCEPT ![h] = NoClips]
  /\ queue' = [queue EXCEPT ![h] = {}]
  /\ uploaded' = [uploaded EXCEPT ![h] = {}]
  /\ doomed' = [doomed EXCEPT ![h] = {}]

(* The request goes on to delete these keys, best effort, and ends. *)
CleanUp(h, K) ==
  /\ Goto(h, "delete")
  /\ doomed' = [doomed EXCEPT ![h] = K]
  /\ UNCHANGED <<kind, spot, target, previous, count, order, queue, uploaded>>

----------------------------------------------------------------------------
(* Starting a request: what it reads before its first await on R2 *)

(* k: what it does, C: the components, A: new opaque keys, K: keys to put,  *)
(* R: rows read, n: videos counted, where: its next statement               *)
Begin(h, k, C, A, K, R, n, where) ==
  /\ pc[h] = "idle"
  /\ operations < MaxOperations
  /\ operations' = operations + 1
  /\ A \subseteq Assets \ used
  /\ used' = used \union A
  /\ kind' = [kind EXCEPT ![h] = k]
  /\ spot' = [spot EXCEPT ![h] = C]
  /\ target' = [target EXCEPT ![h] = A]
  /\ previous' = [previous EXCEPT ![h] = R]
  /\ count' = [count EXCEPT ![h] = n]
  /\ queue' = [queue EXCEPT ![h] = K]
  /\ LET others == {g \in Handlers \ {h} :
                      /\ pc[g] # "idle"
                      /\ \/ spot[g] \intersect C # {}
                         \/ kind[g] = "brand" /\ k = "brand"}
     IN contested' = IF others = {} THEN contested
                     ELSE contested \union C \union A
                          \union UNION {spot[g] \union target[g] : g \in others}
  /\ Goto(h, where)
  /\ UNCHANGED <<rows, objects, order, uploaded, doomed, stray, doubtful>>

(* OfferImageUploadService.upload, delete *)
BeginImage(h, c) ==
  /\ c \in blocks \intersect OfferBlocks
  /\ \E a \in Assets :
       Begin(h, "image", {c}, {a}, KeysOf({a}), tier[c], 0, "put")

BeginImageRemoval(h, c) ==
  /\ c \in blocks \intersect OfferBlocks
  /\ tier[c] # {}
  /\ Begin(h, "unimage", {c}, {}, {}, tier[c], 0, "remove")

(* VideoUploadService.upload, delete; a full carousel rejects. *)
(* Faulty variant: the maximum itself still admits a video. *)
HasRoomForOneMore(c) == Cardinality(DOMAIN clips[c]) <= MaxVideos
HasRoom(c) == Cardinality(DOMAIN clips[c]) < MaxVideos

BeginVideo(h, c) ==
  /\ c \in blocks \intersect VideoBlocks
  /\ HasRoom(c)
  /\ \E a \in Assets : Begin(h, "video", {c}, {a}, KeysOf({a}), {},
                             Cardinality(DOMAIN clips[c]), "put")

BeginVideoRemoval(h, c) ==
  /\ c \in blocks \intersect VideoBlocks
  /\ \E a \in DOMAIN clips[c] :
       Begin(h, "unvideo", {c}, {}, {}, {[id |-> a, asset |-> a]}, 0, "remove")

(* delete_landing_block and load_landing_template, which removes every      *)
(* component: the keys are read before the transaction of the removal.      *)
RowsOf(C) == {[id |-> a, asset |-> a] : a \in UNION {MediaOf(c) : c \in C}}
BeginDrop(h, c) ==
  /\ c \in blocks
  /\ Begin(h, "drop", {c}, {}, {}, RowsOf({c}), 0, "remove")
BeginLoad(h) == Begin(h, "load", Components, {}, {}, RowsOf(blocks), 0, "remove")

(* upload_asset puts its object before it reads the current one. *)
BeginBrand(h) ==
  \E a \in Assets : Begin(h, "brand", {}, {a}, {BrandKey(a)}, {}, 0, "put")

(* instantiate: the sources are read and every medium is put. *)
BeginPage(h) ==
  \E A \in SUBSET Assets :
    /\ Cardinality(A) = PageAssets
    /\ Begin(h, "page", {}, A, KeysOf(A), {}, 0, "put")

----------------------------------------------------------------------------
(* R2 *)

Put(h) ==
  /\ pc[h] = "put"
  /\ \E k \in queue[h] :
       /\ objects' = objects \union {k}
       /\ uploaded' = [uploaded EXCEPT ![h] = @ \union {k}]
       /\ queue' = [queue EXCEPT ![h] = @ \ {k}]
       /\ Goto(h, IF queue[h] # {k} THEN "put"
                  ELSE IF kind[h] = "brand" THEN "read" ELSE "persist")
  /\ UNCHANGED <<rows, kind, spot, target, previous, count, order, doomed,
                 started, history>>

(* A put fails, before or after R2 has stored the object: only the keys     *)
(* whose put succeeded are cleaned up.  The brand's put is not guarded.     *)
PutFails(h) ==
  /\ pc[h] = "put"
  /\ "r2" \in Faults
  /\ \E k \in queue[h] :
       \/ UNCHANGED <<objects, stray>>
       \/ objects' = objects \union {k} /\ stray' = stray \union {k}
  /\ IF kind[h] = "brand" THEN Forget(h) ELSE CleanUp(h, uploaded[h])
  /\ UNCHANGED <<rows, started, doubtful, contested>>

(* Every delete is attempted; its failure is suppressed. *)
DeleteKeys(h) ==
  /\ pc[h] = "delete"
  /\ \E D \in SUBSET doomed[h] :
       /\ D = doomed[h] \/ "r2" \in Faults
       /\ objects' = objects \ D
       /\ stray' = stray \union (doomed[h] \ D)
  /\ Forget(h)
  /\ UNCHANGED <<rows, started, doubtful, contested>>

----------------------------------------------------------------------------
(* The database *)

(* What the statements of an upload's transaction require: the component is *)
(* there, the unique index is free, the row that was read is still there.   *)
SameRow(h, c) == \E p \in previous[h], r \in tier[c] : r.id = p.id
CanWrite(h) ==
  CASE kind[h] = "image" ->
         \E c \in spot[h] \intersect blocks :
           IF previous[h] = {} THEN tier[c] = {} ELSE SameRow(h, c)
    [] kind[h] = "video" ->
         \E c \in spot[h] \intersect blocks :
           \A b \in DOMAIN clips[c] : clips[c][b] # count[h]
    [] kind[h] = "page" -> TRUE
    [] kind[h] = "brand" -> FALSE

WriteImage(h) ==
  /\ kind[h] = "image"
  /\ \E a \in target[h] :
       tier' = [c \in Components |->
                  IF c \notin spot[h] THEN tier[c]
                  ELSE IF previous[h] = {} THEN {[id |-> a, asset |-> a]}
                  ELSE {[r EXCEPT !.asset = a] : r \in tier[c]}]
  /\ UNCHANGED <<blocks, clips, brand, pages>>

WriteVideo(h) ==
  /\ kind[h] = "video"
  /\ \E c \in spot[h], a \in target[h] :
       clips' = [clips EXCEPT ![c] = [b \in DOMAIN @ \union {a} |->
                                        IF b = a THEN count[h] ELSE @[b]]]
  /\ UNCHANGED <<blocks, tier, brand, pages>>

(* A new product and landing with its components, banners and media *)
WritePage(h) ==
  /\ kind[h] = "page"
  /\ pages' = pages \union target[h]
  /\ UNCHANGED <<blocks, tier, clips, brand>>

WriteRows(h) ==
  /\ CanWrite(h)
  /\ WriteImage(h) \/ WriteVideo(h) \/ WritePage(h)

(* Faulty variant: the image that was replaced is kept. *)
ReplacedIsKept(h) == {}
Replaced(h) == KeysOf(AssetsIn(previous[h]))

(* The upload counts as failed although its row is written: its own objects *)
(* are deleted, and those it replaced (K) are not.                          *)
MisjudgedAsFailed(h, K) ==
  /\ doubtful' = doubtful \union target[h]
  /\ stray' = stray \union K
  /\ CleanUp(h, uploaded[h])

(* The transaction commits; the image it replaced, by the row that was      *)
(* read, is deleted.  Or the answer to COMMIT is lost.                      *)
Persist(h) ==
  /\ pc[h] = "persist"
  /\ WriteRows(h)
  /\ \/ CleanUp(h, Replaced(h)) /\ UNCHANGED <<stray, doubtful>>
     \/ "commit" \in Faults /\ MisjudgedAsFailed(h, Replaced(h))
  /\ UNCHANGED <<objects, started, contested>>

(* The transaction fails: a requirement is not met, the SKU or the slug of  *)
(* a page is taken, or the database fails.                                  *)
PersistFails(h) ==
  /\ pc[h] = "persist"
  /\ \/ kind[h] # "brand" /\ ~CanWrite(h)
     \/ kind[h] = "page"
     \/ "db" \in Faults
  /\ CleanUp(h, uploaded[h])
  /\ UNCHANGED <<rows, objects, started, history>>

ReadBrand(h) ==
  /\ pc[h] = "read"
  /\ previous' = [previous EXCEPT ![h] = {[id |-> a, asset |-> a] : a \in brand}]
  /\ Goto(h, "persist")
  /\ UNCHANGED <<rows, objects, kind, spot, target, count, order, queue,
                 uploaded, doomed, started, history>>

(* The read is not guarded: the object that was put is left behind. *)
ReadBrandFails(h) ==
  /\ pc[h] = "read"
  /\ "db" \in Faults
  /\ stray' = stray \union uploaded[h]
  /\ Forget(h)
  /\ UNCHANGED <<rows, objects, started, doubtful, contested>>

(* upload_asset has no transaction: the row is written, then the audit      *)
(* entry; when that fails, the new object is deleted again.                 *)
UpdateBrand(h) ==
  /\ pc[h] = "persist"
  /\ kind[h] = "brand"
  /\ brand' = target[h]
  /\ Goto(h, "audit")
  /\ UNCHANGED <<blocks, tier, clips, pages, objects, locals, started, history>>

FormerBrand(h) == {BrandKey(a) : a \in AssetsIn(previous[h])}

AuditBrand(h) ==
  /\ pc[h] = "audit"
  /\ \/ CleanUp(h, FormerBrand(h)) /\ UNCHANGED <<stray, doubtful>>
     \/ "db" \in Faults /\ MisjudgedAsFailed(h, FormerBrand(h))
  /\ UNCHANGED <<rows, objects, started, contested>>

(* VideoUploadService.delete: the row is deleted, and locked, and the rest  *)
(* of the carousel is read; those whose order is not their rank get it.     *)
RankIn(o, A, a) == Cardinality({b \in A : o[b] < o[a]})
(* Faulty variant: the remaining videos keep their orders. *)
KeepsOrders(o, A) == [a \in A |-> o[a]]
Renumbered(o, A) ==
  [a \in {b \in A : o[b] # RankIn(o, A, b)} |-> RankIn(o, A, a)]

ReadRemaining(h) ==
  /\ pc[h] = "remove"
  /\ kind[h] = "unvideo"
  /\ \A g \in Handlers : pc[g] = "renumber" => previous[g] # previous[h]
  /\ \E c \in spot[h] :
       order' = [order EXCEPT ![h] =
         Renumbered(clips[c], DOMAIN clips[c] \ AssetsIn(previous[h]))]
  /\ Goto(h, "renumber")
  /\ UNCHANGED <<rows, objects, kind, spot, target, previous, count, queue,
                 uploaded, doomed, started, history>>

(* The carousel as the transaction leaves it: other rows stay as they are. *)
Renumbering(h, c) ==
  [a \in DOMAIN clips[c] \ AssetsIn(previous[h]) |->
     IF a \in DOMAIN order[h] THEN order[h][a] ELSE clips[c][a]]

RemovesVideo(h) ==
  /\ pc[h] = "renumber"
  /\ clips' = [c \in Components |-> IF c \in spot[h] THEN Renumbering(h, c)
                                   ELSE clips[c]]
  /\ \A c \in spot[h], a, b \in Assets :
       {a, b} \subseteq DOMAIN clips'[c] /\ clips'[c][a] = clips'[c][b] => a = b
  /\ UNCHANGED <<blocks, tier>>

(* The row that was read, if it is still there *)
RemovesImage(h) ==
  /\ pc[h] = "remove"
  /\ kind[h] = "unimage"
  /\ tier' = [c \in Components |->
                {r \in tier[c] : \A p \in previous[h] : r.id # p.id}]
  /\ UNCHANGED <<blocks, clips>>

(* The media of a component go with it. *)
RemovesComponents(h) ==
  /\ pc[h] = "remove"
  /\ kind[h] \in {"drop", "load"}
  /\ kind[h] = "drop" => spot[h] \subseteq blocks
  /\ blocks' = blocks \ spot[h]
  /\ tier' = [c \in Components |-> IF c \in spot[h] THEN {} ELSE tier[c]]
  /\ clips' = [c \in Components |-> IF c \in spot[h] THEN NoClips ELSE clips[c]]

RemoveRows(h) == RemovesVideo(h) \/ RemovesImage(h) \/ RemovesComponents(h)

Removing(h) == pc[h] \in {"remove", "renumber"}

(* Faulty variant: a failed transaction does not keep the objects alive. *)
RemoveAnyway(h) ==
  /\ Removing(h)
  /\ RemoveRows(h) \/ UNCHANGED <<blocks, tier, clips>>
  /\ CleanUp(h, KeysOf(AssetsIn(previous[h])))
  /\ UNCHANGED <<brand, pages, objects, started, history>>

(* The objects of the rows that were read are deleted, unless the answer to *)
(* COMMIT is lost.                                                          *)
Remove(h) ==
  /\ RemoveRows(h)
  /\ LET keys == KeysOf(AssetsIn(previous[h])) IN
     \/ CleanUp(h, keys) /\ UNCHANGED stray
     \/ /\ "commit" \in Faults
        /\ stray' = stray \union keys
        /\ Forget(h)
  /\ UNCHANGED <<brand, pages, objects, started, doubtful, contested>>

(* The component is gone by now, two videos would share an order, or the    *)
(* database fails.                                                          *)
RemoveFails(h) ==
  /\ Removing(h)
  /\ Forget(h)
  /\ UNCHANGED <<rows, objects, started, history>>

(* The process stops: nobody cleans up. *)
Crash(h) ==
  /\ "crash" \in Faults
  /\ pc[h] # "idle"
  /\ stray' = stray \union (IF pc[h] = "delete" THEN doomed[h] ELSE uploaded[h])
                    \union (IF pc[h] = "audit" THEN FormerBrand(h) ELSE {})
  /\ Forget(h)
  /\ UNCHANGED <<rows, objects, started, doubtful, contested>>

----------------------------------------------------------------------------
Next ==
  \E h \in Handlers :
    \/ \E c \in OfferBlocks : BeginImage(h, c) \/ BeginImageRemoval(h, c)
    \/ \E c \in VideoBlocks : BeginVideo(h, c) \/ BeginVideoRemoval(h, c)
    \/ \E c \in Components : BeginDrop(h, c)
    \/ BeginLoad(h) \/ BeginBrand(h) \/ BeginPage(h)
    \/ Put(h) \/ PutFails(h) \/ DeleteKeys(h)
    \/ Persist(h) \/ PersistFails(h)
    \/ ReadBrand(h) \/ ReadBrandFails(h) \/ UpdateBrand(h) \/ AuditBrand(h)
    \/ ReadRemaining(h) \/ Remove(h) \/ RemoveFails(h)
    \/ Crash(h)

Spec == Init /\ [][Next]_vars

----------------------------------------------------------------------------
(* Properties *)

(* Every variable has its type. *)
TypeOK ==
  /\ blocks \subseteq Components
  /\ tier \in [Components -> SUBSET ImageRows]
  /\ clips \in [Components -> Orders]
  /\ brand \subseteq Assets
  /\ pages \subseteq Assets
  /\ objects \subseteq Keys
  /\ pc \in [Handlers -> PCs]
  /\ kind \in [Handlers -> Uploads \union Removals]
  /\ spot \in [Handlers -> SUBSET Components]
  /\ target \in [Handlers -> SUBSET Assets]
  /\ previous \in [Handlers -> SUBSET ImageRows]
  /\ count \in [Handlers -> 0 .. MaxVideos]
  /\ order \in [Handlers -> Orders]
  /\ queue \in [Handlers -> SUBSET Keys]
  /\ uploaded \in [Handlers -> SUBSET Keys]
  /\ doomed \in [Handlers -> SUBSET Keys]
  /\ used \subseteq Assets
  /\ operations \in Nat
  /\ stray \subseteq Keys
  /\ doubtful \subseteq Assets
  /\ contested \subseteq Assets \union Components

(* Every object a row names is in R2, whatever requests overlap, fail or    *)
(* stop, except where the code itself deletes the objects of a row that was *)
(* written: after a COMMIT without an answer, and after the brand's audit   *)
(* entry failed (store_settings_service.py:132).                            *)
KeyAsset(k) == k[1]
RowsHaveObjects == \A k \in KeysNamed : k \in objects \/ KeyAsset(k) \in doubtful

(* An object no row names belongs to a request under way, to a put or a     *)
(* clean-up that failed or never ran, to a brand upload that could not read *)
(* the store's row (store_settings_service.py:127), or to one of several    *)
(* requests that were about the same component at once.  No other request   *)
(* leaves an object behind: not a replacement, a removal, a rejected        *)
(* upload, nor a component that goes with its media.                        *)
InHand(k) ==
  \E h \in Handlers :
    \/ k \in uploaded[h] \union doomed[h]
    \/ pc[h] = "audit" /\ k \in FormerBrand(h)
ObjectsAccountedFor ==
  \A k \in objects :
    \/ k \in KeysNamed \/ k \in stray \/ InHand(k)
    \/ KeyAsset(k) \in contested

(* A carousel never holds more videos than the maximum and no two share an  *)
(* order, though uploads count them long before they insert; and unless     *)
(* requests about it have overlapped, its orders have no gap.               *)
CarouselCap ==
  \A c \in VideoBlocks :
    /\ Cardinality(DOMAIN clips[c]) <= MaxVideos
    /\ \A a, b \in DOMAIN clips[c] : clips[c][a] = clips[c][b] => a = b
    /\ c \notin contested => Gapless(c)
=============================================================================
