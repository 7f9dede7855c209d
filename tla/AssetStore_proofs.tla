--------------------------- MODULE AssetStore_proofs ---------------------------
(****************************************************************************)
(* Proofs about AssetStore: no row loses its objects, no object is left     *)
(* behind unnoticed, and a carousel keeps to its maximum and its order,     *)
(* for any requests that overlap, fail or stop in any order.                *)
(****************************************************************************)
EXTENDS AssetStore, FiniteSetTheorems, TLAPS

Active(h) == pc[h] # "idle"
(* The row of an upload is not written yet. *)
Pending(h) == pc[h] \in {"put", "read", "persist"}
ReadsRows == {"image", "unimage"}

(* What each kind of request carries, and when. *)
Requests ==
  \A h \in Handlers :
    /\ ~Active(h) => target[h] = {} /\ spot[h] = {} /\ previous[h] = {}
    /\ kind[h] # "page" => \A a, b \in target[h] : a = b
    /\ kind[h] # "load" => \A c, d \in spot[h] : c = d
    /\ kind[h] \in ReadsRows => spot[h] \subseteq OfferBlocks
    /\ kind[h] \in {"video", "unvideo"} => spot[h] \subseteq VideoBlocks
    /\ kind[h] \in {"brand", "page"} => spot[h] = {}
    /\ kind[h] \in {"video", "page"} => previous[h] = {}
    /\ kind[h] \in Removals => target[h] = {}
    /\ pc[h] \in {"put", "persist"} => kind[h] \in Uploads
    /\ pc[h] \in {"read", "audit"} => kind[h] = "brand"
    /\ pc[h] = "remove" => kind[h] \in Removals
    /\ pc[h] = "renumber" => kind[h] = "unvideo"
    /\ pc[h] # "delete" => doomed[h] = {}

(* The objects of an upload: what it puts, what it has put. *)
KeysFor(h) == IF kind[h] = "brand" THEN {BrandKey(a) : a \in target[h]}
              ELSE KeysOf(target[h])
Putting ==
  \A h \in Handlers :
    /\ uploaded[h] \union queue[h] \subseteq KeysFor(h)
    /\ pc[h] = "put" => KeysFor(h) \subseteq uploaded[h] \union queue[h]
    /\ pc[h] \in {"read", "persist"} => KeysFor(h) \subseteq uploaded[h]
    /\ pc[h] = "put" /\ kind[h] = "brand" => uploaded[h] = {}
    /\ Pending(h) => uploaded[h] \subseteq objects

(* Where rows are, and that no two of them name the same asset. *)
Placed ==
  /\ \A c \in Components :
       /\ c \notin OfferBlocks => tier[c] = {}
       /\ c \notin VideoBlocks => clips[c] = NoClips
       /\ c \notin blocks => tier[c] = {} /\ clips[c] = NoClips
       /\ \A r, s \in tier[c] : r = s
       /\ MediaOf(c) \intersect (brand \union pages) = {}
  /\ \A c, d \in Components : c # d => MediaOf(c) \intersect MediaOf(d) = {}
  /\ brand \intersect pages = {}

(* An asset belongs to the request that generated it, and nobody else has   *)
(* seen it before its row is written.                                       *)
Owned ==
  /\ Named \subseteq used
  /\ \A h \in Handlers : target[h] \union AssetsIn(previous[h]) \subseteq used
  /\ \A g, h \in Handlers : g # h => target[g] \intersect target[h] = {}
  /\ \A h \in Handlers : doomed[h] \subseteq KeysOf(target[h] \union AssetsIn(previous[h]))
  /\ \A h \in Handlers : Pending(h) =>
       /\ target[h] \intersect Named = {}
       /\ \A g \in Handlers : target[h] \intersect AssetsIn(previous[g]) = {}

(* A row keeps its id for life, and no two rows share one. *)
Ids(R) == {r.id : r \in R}
Identified ==
  /\ \A c \in Components : Ids(tier[c]) \subseteq used
  /\ \A c, d \in Components : c # d => Ids(tier[c]) \intersect Ids(tier[d]) = {}
  /\ \A h \in Handlers : Ids(previous[h]) \subseteq used
  /\ \A h \in Handlers : Pending(h) =>
       /\ \A c \in Components : target[h] \intersect Ids(tier[c]) = {}
       /\ \A g \in Handlers : target[h] \intersect Ids(previous[g]) = {}
  /\ \A h \in Handlers : kind[h] \in ReadsRows =>
       \A c \in Components \ spot[h] : Ids(tier[c]) \intersect Ids(previous[h]) = {}

(* A row that was read is still where it was read, or nowhere. *)
StillThere(h, p) ==
  IF kind[h] = "brand" THEN p.asset \in brand
  ELSE \E c \in spot[h] : /\ p.asset \in MediaOf(c)
                          /\ kind[h] \in ReadsRows => p \in tier[c]
Reading ==
  \A h \in Handlers :
    /\ \A p \in previous[h] : p.asset \in Named => StillThere(h, p)
    /\ pc[h] = "audit" => AssetsIn(previous[h]) \intersect Named = {}

(* Keys to be deleted are no row's, but for doubtful ones. *)
Cleaning ==
  \A h \in Handlers : \A k \in doomed[h] \intersect KeysNamed : KeyAsset(k) \in doubtful

(* Requests that meet are on record, so what an unrecorded one has read is  *)
(* what there is.                                                           *)
Meet(g, h) == \/ spot[g] \intersect spot[h] # {}
              \/ kind[g] = "brand" /\ kind[h] = "brand"
Overlaps ==
  \A g, h \in Handlers : g # h /\ Active(g) /\ Active(h) /\ Meet(g, h) =>
    spot[g] \union target[g] \subseteq contested
Current(h) ==
  /\ pc[h] \in {"put", "persist", "remove"} /\ kind[h] \in ReadsRows =>
       \A c \in spot[h] : AssetsIn(tier[c]) \subseteq AssetsIn(previous[h]) \union contested
  /\ pc[h] = "remove" /\ kind[h] \in {"drop", "load"} =>
       \A c \in spot[h] : MediaOf(c) \subseteq AssetsIn(previous[h]) \union contested
  /\ pc[h] = "persist" /\ kind[h] = "brand" =>
       brand \subseteq AssetsIn(previous[h]) \union contested
Recorded == Overlaps /\ \A h \in Handlers : Current(h)

(* An object is named, stray, contested, or in the hands of a request that  *)
(* has not come to the point of naming or deleting it.                      *)
Held(k) ==
  \E h \in Handlers :
    \/ Pending(h) /\ k \in uploaded[h]
    \/ pc[h] = "audit" /\ k \in FormerBrand(h)
    \/ k \in doomed[h]
Accounted ==
  \A k \in objects :
    k \in KeysNamed \/ k \in stray \/ Held(k) \/ KeyAsset(k) \in contested

(* What a request means to do to a carousel nobody else works on is still   *)
(* right when it does it.                                                   *)
Counted(h, c) ==
  /\ kind[h] = "video" /\ pc[h] \in {"put", "persist"} =>
       count[h] = Cardinality(DOMAIN clips[c])
  /\ pc[h] = "renumber" =>
       order[h] = Renumbered(clips[c], DOMAIN clips[c] \ AssetsIn(previous[h]))
Counting ==
  /\ \A h \in Handlers : kind[h] = "video" /\ pc[h] \in {"put", "persist"} =>
       count[h] < MaxVideos
  /\ \A h \in Handlers : \A c \in spot[h] \ contested : Counted(h, c)
Ordered ==
  \A c \in VideoBlocks :
    /\ \A a, b \in DOMAIN clips[c] : clips[c][a] = clips[c][b] => a = b
    /\ c \notin contested => Gapless(c)

IInv == /\ TypeOK /\ Requests /\ Putting /\ Placed /\ Owned /\ Identified /\ Reading
        /\ Cleaning /\ RowsHaveObjects /\ Recorded /\ Accounted /\ Counting /\ Ordered

----------------------------------------------------------------------------
(* Facts about orders and keys *)

LEMMA OrdersType ==
  ASSUME NEW o \in Orders
  PROVE  /\ DOMAIN o \subseteq Assets
         /\ o \in [DOMAIN o -> 0 .. MaxVideos - 1]
         /\ \A a \in DOMAIN o : o[a] \in 0 .. MaxVideos - 1
BY DEF Orders

LEMMA OrdersIntro ==
  ASSUME NEW A \in SUBSET Assets, NEW o \in [A -> 0 .. MaxVideos - 1]
  PROVE  o \in Orders
BY DEF Orders

LEMMA NoClipsType == NoClips \in Orders /\ DOMAIN NoClips = {}
<1>1. DOMAIN NoClips = {} /\ NoClips \in [{} -> 0 .. MaxVideos - 1]
  BY DEF NoClips
<1> QED
  BY <1>1, OrdersIntro

LEMMA KeysFacts ==
  ASSUME NEW A
  PROVE  /\ \A k \in KeysOf(A) : KeyAsset(k) \in A
         /\ \A a \in A : \A i \in {1, 2} : <<a, i>> \in KeysOf(A) /\ KeyAsset(<<a, i>>) = a
         /\ \A a \in A : BrandKey(a) \in KeysOf(A) /\ KeyAsset(BrandKey(a)) = a
         /\ \A B : KeysOf(A) \intersect KeysOf(B) = KeysOf(A \intersect B)
BY DEF KeysOf, KeyAsset, BrandKey

LEMMA KeysForFacts ==
  ASSUME NEW h \in Handlers
  PROVE  /\ KeysFor(h) \subseteq KeysOf(target[h])
         /\ \A k \in KeysFor(h) : KeyAsset(k) \in target[h]
BY KeysFacts DEF KeysFor

LEMMA NamedFacts ==
  /\ \A a : a \in Named <=> \/ \E c \in Components : a \in MediaOf(c)
                            \/ a \in brand \union pages
  /\ \A k \in KeysNamed : KeyAsset(k) \in Named
  /\ \A k \in KeysNamed : \/ KeyAsset(k) \in brand /\ k = BrandKey(KeyAsset(k))
                          \/ KeyAsset(k) \notin brand /\ k \in KeysOf(Named)
  /\ \A a \in Named \ brand : KeysOf({a}) \subseteq KeysNamed
  /\ \A a \in brand : BrandKey(a) \in KeysNamed
<1>1. ASSUME NEW a
      PROVE  a \in Named <=> \/ \E c \in Components : a \in MediaOf(c)
                            \/ a \in brand \union pages
  <2>1. a \in UNION {MediaOf(c) : c \in Components} <=> \E c \in Components : a \in MediaOf(c)
    OBVIOUS
  <2> QED
    BY <2>1 DEF Named
<1>2. brand \subseteq Named
  BY <1>1
<1> HIDE DEF Named
<1>3. \A k \in KeysNamed : \/ k \in KeysOf(Named \ brand)
                           \/ \E a \in brand : k = BrandKey(a)
  BY DEF KeysNamed
<1> QED
  BY <1>1, <1>2, <1>3 DEF KeysNamed, KeysOf, KeyAsset, BrandKey

(* A carousel holds no more videos than there are orders. *)
LEMMA AtMostMax ==
  ASSUME TypeOK, NEW c \in Components,
         \A a, b \in DOMAIN clips[c] : clips[c][a] = clips[c][b] => a = b
  PROVE  /\ IsFiniteSet(DOMAIN clips[c])
         /\ Cardinality(DOMAIN clips[c]) \in 0 .. MaxVideos
<1> USE AssetAssumption DEF AssetAssumption
<1>1. clips[c] \in Orders
  BY DEF TypeOK
<1>2. /\ IsFiniteSet(DOMAIN clips[c]) /\ Cardinality(DOMAIN clips[c]) \in Nat
  BY <1>1, OrdersType, FS_Subset, FS_CardinalityType
<1>3. /\ IsFiniteSet(0 .. MaxVideos - 1)
      /\ Cardinality(0 .. MaxVideos - 1) = MaxVideos
  BY FS_Interval
<1>4. clips[c] \in [DOMAIN clips[c] -> 0 .. MaxVideos - 1]
  BY <1>1, OrdersType
<1>5. ~(MaxVideos < Cardinality(DOMAIN clips[c]))
  BY <1>2, <1>3, <1>4, FS_PigeonHole
<1> QED
  BY <1>2, <1>5

(* The ranks of all videos of a set.                                        *)
Ranks(o, A) == [a \in A |-> RankIn(o, A, a)]

(* Ranking a set of videos gives the numbers from zero, one to each.    *)
LEMMA RanksFacts ==
  ASSUME NEW o \in Orders, NEW A \in SUBSET DOMAIN o,
         \A a, b \in DOMAIN o : o[a] = o[b] => a = b
  PROVE  /\ DOMAIN Ranks(o, A) = A
         /\ \A a \in A : Ranks(o, A)[a] \in 0 .. Cardinality(A) - 1
         /\ \A a, b \in A : Ranks(o, A)[a] = Ranks(o, A)[b] => a = b
         /\ {Ranks(o, A)[a] : a \in A} = 0 .. Cardinality(A) - 1
<1> DEFINE Below(a) == {b \in A : o[b] < o[a]}
<1>1. \A a \in A : o[a] \in Int
  BY OrdersType, AssetAssumption DEF AssetAssumption
<1>2. IsFiniteSet(A) /\ Cardinality(A) \in Nat
  BY OrdersType, AssetAssumption, FS_Subset, FS_CardinalityType DEF AssetAssumption
<1>3. \A a \in A : Ranks(o, A)[a] = Cardinality(Below(a))
  BY DEF Ranks, RankIn
<1>4. \A a \in A : IsFiniteSet(Below(a)) /\ Cardinality(Below(a)) \in Nat
  BY <1>2, FS_Subset, FS_CardinalityType
<1>5. ASSUME NEW a \in A PROVE Cardinality(Below(a)) < Cardinality(A)
  <2>1. Below(a) \in SUBSET A /\ a \notin Below(a)
    BY <1>1
  <2>2. Cardinality(Below(a)) <= Cardinality(A) /\ Cardinality(A) # Cardinality(Below(a))
    BY <1>2, <2>1, FS_Subset
  <2> QED
    BY <1>2, <1>4, <2>2
<1>6. ASSUME NEW a \in A, NEW b \in A, o[a] < o[b]
      PROVE  Cardinality(Below(a)) # Cardinality(Below(b))
  <2>1. Below(a) \in SUBSET Below(b) /\ a \in Below(b) /\ a \notin Below(a)
    BY <1>1, <1>6
  <2> QED
    BY <1>4, <2>1, FS_Subset
<1>7. ASSUME NEW a \in A, NEW b \in A, Ranks(o, A)[a] = Ranks(o, A)[b]
      PROVE  a = b
  <2>1. ~(o[a] < o[b]) /\ ~(o[b] < o[a])
    BY <1>3, <1>6, <1>7
  <2> QED
    BY <1>1, <2>1
<1>8. \A a \in A : Ranks(o, A)[a] \in 0 .. Cardinality(A) - 1
  <2> HIDE DEF Below
  <2> QED
    BY <1>2, <1>3, <1>4, <1>5
<1>9. DOMAIN Ranks(o, A) = A
  BY DEF Ranks, RankIn
<1> DEFINE r == Ranks(o, A)
<1>10. {r[a] : a \in A} = 0 .. Cardinality(A) - 1
  <2> HIDE DEF r
  <2>1. r \in Injection(A, 0 .. Cardinality(A) - 1)
    <3>1. r \in [A -> 0 .. Cardinality(A) - 1]
      BY <1>8, <1>9 DEF r, Ranks
    <3> QED
      BY <1>7, <3>1 DEF r, Injection, IsInjective
  <2>2. /\ IsFiniteSet(0 .. Cardinality(A) - 1)
        /\ Cardinality(0 .. Cardinality(A) - 1) = Cardinality(A)
    BY <1>2, FS_Interval
  <2>3. r \in Surjection(A, 0 .. Cardinality(A) - 1)
    BY <2>1, <2>2, FS_Injection
  <2> QED
    BY <2>3 DEF Surjection
<1> QED
  BY <1>7, <1>8, <1>9, <1>10

(* Those renumbered get their rank; it is the order of the others.          *)
LEMMA RenumberedFacts ==
  ASSUME NEW o, NEW A
  PROVE  /\ DOMAIN Renumbered(o, A) \subseteq A
         /\ Renumbered(o, A) = [a \in DOMAIN Renumbered(o, A) |-> Ranks(o, A)[a]]
         /\ \A a \in A : Ranks(o, A)[a] = IF a \in DOMAIN Renumbered(o, A)
                                        THEN Renumbered(o, A)[a] ELSE o[a]
BY DEF Renumbered, Ranks

----------------------------------------------------------------------------
(* What steps do to requests *)

SameRequest(g) ==
  /\ pc'[g] = pc[g] /\ kind'[g] = kind[g] /\ spot'[g] = spot[g]
  /\ target'[g] = target[g] /\ previous'[g] = previous[g] /\ count'[g] = count[g]
  /\ order'[g] = order[g] /\ queue'[g] = queue[g] /\ uploaded'[g] = uploaded[g]
  /\ doomed'[g] = doomed[g]
OthersWait(h) == \A g \in Handlers \ {h} : SameRequest(g)

Ended(h) ==
  /\ pc'[h] = "idle" /\ kind'[h] = "image" /\ spot'[h] = {} /\ target'[h] = {}
  /\ previous'[h] = {} /\ count'[h] = 0 /\ order'[h] = NoClips /\ queue'[h] = {}
  /\ uploaded'[h] = {} /\ doomed'[h] = {}
Deleting(h, K) ==
  /\ pc'[h] = "delete" /\ doomed'[h] = K /\ kind'[h] = kind[h] /\ spot'[h] = spot[h]
  /\ target'[h] = target[h] /\ previous'[h] = previous[h] /\ count'[h] = count[h]
  /\ order'[h] = order[h] /\ queue'[h] = queue[h] /\ uploaded'[h] = uploaded[h]

(* The types of what requests carry *)
LocalsOK ==
  /\ pc \in [Handlers -> PCs]
  /\ kind \in [Handlers -> Uploads \union Removals]
  /\ spot \in [Handlers -> SUBSET Components]
  /\ target \in [Handlers -> SUBSET Assets]
  /\ previous \in [Handlers -> SUBSET ImageRows]
  /\ count \in [Handlers -> 0 .. MaxVideos]
  /\ order \in [Handlers -> Orders]
  /\ queue \in [Handlers -> SUBSET Keys]
  /\ uploaded \in [Handlers -> SUBSET Keys]
  /\ doomed \in [Handlers -> SUBSET Keys]

LEMMA TypeLocals == TypeOK => LocalsOK
BY DEF TypeOK, LocalsOK

LEMMA ForgetEffect ==
  ASSUME LocalsOK, NEW h \in Handlers, Forget(h)
  PROVE  Ended(h) /\ OthersWait(h) /\ LocalsOK'
<1>1. Ended(h) /\ OthersWait(h)
  BY DEF LocalsOK, Forget, Goto, Ended, OthersWait, SameRequest
<1>2. 0 \in 0 .. MaxVideos /\ NoClips \in Orders
  BY AssetAssumption, NoClipsType DEF AssetAssumption
<1>3. "idle" \in PCs /\ "image" \in Uploads \union Removals
  BY DEF PCs, Uploads
<1> QED
  BY <1>1, <1>2, <1>3 DEF LocalsOK, Forget, Goto

LEMMA CleanUpEffect ==
  ASSUME LocalsOK, NEW h \in Handlers, NEW K, CleanUp(h, K)
  PROVE  Deleting(h, K) /\ OthersWait(h) /\ (K \subseteq Keys => LocalsOK')
<1>1. Deleting(h, K) /\ OthersWait(h)
  BY DEF LocalsOK, CleanUp, Goto, Deleting, OthersWait, SameRequest
<1>2. "delete" \in PCs
  BY DEF PCs
<1> QED
  BY <1>1, <1>2 DEF LocalsOK, CleanUp, Goto

(* What a request has read and generated when it starts *)
Fits(k, C, A, K, R, n, where) ==
  /\ k \in Uploads \union Removals /\ C \subseteq Components /\ A \subseteq Assets
  /\ R \subseteq ImageRows /\ n \in 0 .. MaxVideos /\ K \subseteq Keys
  /\ where = IF k \in Uploads THEN "put" ELSE "remove"
  /\ k # "page" => \A a, b \in A : a = b
  /\ k # "load" => \A c, d \in C : c = d
  /\ k \in ReadsRows => C \subseteq OfferBlocks
  /\ k \in {"video", "unvideo"} => C \subseteq VideoBlocks
  /\ k \in {"brand", "page"} => C = {}
  /\ k \in {"video", "brand", "page"} => R = {}
  /\ k \in Removals => A = {}
  /\ K = IF k = "brand" THEN {BrandKey(a) : a \in A} ELSE KeysOf(A)
  /\ \A p \in R : \E c \in C : /\ p.asset \in MediaOf(c)
                               /\ k \in ReadsRows => p \in tier[c]
  /\ k \in ReadsRows => \A c \in C : AssetsIn(tier[c]) \subseteq AssetsIn(R)
  /\ k \in ReadsRows => \A p \in R : \E c \in C : p \in tier[c]
  /\ k \notin ReadsRows => \A p \in R : p.id = p.asset
  /\ k \in {"drop", "load"} => \A c \in C : MediaOf(c) \subseteq AssetsIn(R)
  /\ k = "video" => n < MaxVideos /\ \A c \in C : n = Cardinality(DOMAIN clips[c])

Starts(h) ==
  \E k, C, A, K, R, n, where :
    Begin(h, k, C, A, K, R, n, where) /\ Fits(k, C, A, K, R, n, where)

LEMMA MediaType ==
  ASSUME TypeOK, NEW c \in Components
  PROVE  MediaOf(c) \subseteq Assets /\ tier[c] \subseteq ImageRows
<1>1. tier[c] \subseteq ImageRows /\ clips[c] \in Orders
  BY DEF TypeOK
<1> QED
  BY <1>1, OrdersType DEF MediaOf, AssetsIn, ImageRows

LEMMA KeysType ==
  ASSUME NEW A \in SUBSET Assets
  PROVE  KeysOf(A) \subseteq Keys /\ {BrandKey(a) : a \in A} \subseteq Keys
BY DEF KeysOf, Keys, BrandKey

LEMMA RowsOfFacts ==
  ASSUME TypeOK, NEW C \in SUBSET Components
  PROVE  /\ RowsOf(C) \subseteq ImageRows
         /\ \A p \in RowsOf(C) : p.id = p.asset /\ \E c \in C : p.asset \in MediaOf(c)
         /\ \A c \in C : MediaOf(c) \subseteq AssetsIn(RowsOf(C))
<1>1. \A c \in C : MediaOf(c) \subseteq Assets
  BY MediaType
<1>2. \A p \in RowsOf(C) : \E a : /\ p = [id |-> a, asset |-> a]
                                  /\ \E c \in C : a \in MediaOf(c)
  BY DEF RowsOf
<1>3. ASSUME NEW c \in C, NEW a \in MediaOf(c)
      PROVE  a \in AssetsIn(RowsOf(C))
  <2>1. [id |-> a, asset |-> a] \in RowsOf(C)
    BY DEF RowsOf
  <2> QED
    BY <2>1 DEF AssetsIn
<1> QED
  BY <1>1, <1>2, <1>3 DEF ImageRows

LEMMA StartsImage ==
  ASSUME TypeOK, NEW h \in Handlers, NEW c \in OfferBlocks
  PROVE  /\ BeginImage(h, c) => Starts(h)
         /\ BeginImageRemoval(h, c) => Starts(h)
<1> USE DEF Uploads, Removals, ReadsRows
<1>1. /\ c \in Components /\ tier[c] \subseteq ImageRows /\ 0 \in 0 .. MaxVideos
      /\ \A p \in tier[c] : p.asset \in MediaOf(c)
  BY MediaType, AssetAssumption DEF AssetAssumption, Components, MediaOf, AssetsIn
<1>2. ASSUME NEW a \in Assets
      PROVE  Fits("image", {c}, {a}, KeysOf({a}), tier[c], 0, "put")
  <2>1. KeysOf({a}) \subseteq Keys
    BY KeysType
  <2> QED
    BY <1>1, <2>1 DEF Fits
<1>3. Fits("unimage", {c}, {}, {}, tier[c], 0, "remove")
  <2>1. KeysOf({}) = {}
    BY DEF KeysOf
  <2> QED
    BY <1>1, <2>1 DEF Fits
<1>4. ASSUME BeginImage(h, c) PROVE Starts(h)
  <2>1. PICK a \in Assets : Begin(h, "image", {c}, {a}, KeysOf({a}), tier[c], 0, "put")
    BY <1>4 DEF BeginImage
  <2> QED
    BY <2>1, <1>2 DEF Starts
<1>5. ASSUME BeginImageRemoval(h, c) PROVE Starts(h)
  BY <1>5, <1>3 DEF BeginImageRemoval, Starts
<1> QED
  BY <1>4, <1>5

LEMMA StartsVideo ==
  ASSUME TypeOK, NEW h \in Handlers, NEW c \in VideoBlocks
  PROVE  /\ BeginVideo(h, c) => Starts(h)
         /\ BeginVideoRemoval(h, c) => Starts(h)
<1> USE DEF Uploads, Removals, ReadsRows
<1>1. /\ c \in Components /\ DOMAIN clips[c] \subseteq Assets /\ 0 \in 0 .. MaxVideos
      /\ Cardinality(DOMAIN clips[c]) \in Nat /\ MaxVideos \in Nat
      /\ DOMAIN clips[c] \subseteq MediaOf(c)
  <2>1. c \in Components /\ clips[c] \in Orders
    BY DEF TypeOK, Components
  <2> QED
    BY <2>1, OrdersType, AssetAssumption, FS_Subset, FS_CardinalityType
    DEF AssetAssumption, MediaOf
<1>2. ASSUME BeginVideo(h, c) PROVE Starts(h)
  <2> DEFINE n == Cardinality(DOMAIN clips[c])
  <2>1. PICK a \in Assets : Begin(h, "video", {c}, {a}, KeysOf({a}), {}, n, "put")
    BY <1>2 DEF BeginVideo
  <2>2. n < MaxVideos
    BY <1>2 DEF BeginVideo, HasRoom
  <2>3. KeysOf({a}) \subseteq Keys
    BY KeysType
  <2>4. Fits("video", {c}, {a}, KeysOf({a}), {}, n, "put")
    BY <1>1, <2>2, <2>3 DEF Fits
  <2> QED
    BY <2>1, <2>4 DEF Starts
<1>3. ASSUME BeginVideoRemoval(h, c) PROVE Starts(h)
  <2>1. PICK a \in DOMAIN clips[c] :
          Begin(h, "unvideo", {c}, {}, {}, {[id |-> a, asset |-> a]}, 0, "remove")
    BY <1>3 DEF BeginVideoRemoval
  <2>2. KeysOf({}) = {}
    BY DEF KeysOf
  <2>3. Fits("unvideo", {c}, {}, {}, {[id |-> a, asset |-> a]}, 0, "remove")
    BY <1>1, <2>2 DEF Fits, ImageRows
  <2> QED
    BY <2>1, <2>3 DEF Starts
<1> QED
  BY <1>2, <1>3

LEMMA StartsOther ==
  ASSUME TypeOK, Placed, NEW h \in Handlers
  PROVE  /\ \A c \in Components : BeginDrop(h, c) => Starts(h)
         /\ BeginLoad(h) => Starts(h)
         /\ BeginBrand(h) => Starts(h)
         /\ BeginPage(h) => Starts(h)
<1> USE DEF Uploads, Removals, ReadsRows
<1>1. 0 \in 0 .. MaxVideos /\ KeysOf({}) = {} /\ blocks \subseteq Components
  BY AssetAssumption DEF AssetAssumption, KeysOf, TypeOK
<1>2. ASSUME NEW c \in Components, BeginDrop(h, c) PROVE Starts(h)
  <2>1. Fits("drop", {c}, {}, {}, RowsOf({c}), 0, "remove")
    BY <1>1, RowsOfFacts DEF Fits
  <2> QED
    BY <1>2, <2>1 DEF BeginDrop, Starts
<1>3. ASSUME BeginLoad(h) PROVE Starts(h)
  <2>1. \A c \in Components \ blocks : MediaOf(c) = {}
    BY NoClipsType DEF Placed, MediaOf, AssetsIn
  <2>2. \A c \in Components : MediaOf(c) \subseteq AssetsIn(RowsOf(blocks))
    BY <1>1, <2>1, RowsOfFacts
  <2>3. Fits("load", Components, {}, {}, RowsOf(blocks), 0, "remove")
    BY <1>1, <2>2, RowsOfFacts DEF Fits
  <2> QED
    BY <1>3, <2>3 DEF BeginLoad, Starts
<1>4. ASSUME BeginBrand(h) PROVE Starts(h)
  <2>1. PICK a \in Assets : Begin(h, "brand", {}, {a}, {BrandKey(a)}, {}, 0, "put")
    BY <1>4 DEF BeginBrand
  <2>2. {BrandKey(b) : b \in {a}} = {BrandKey(a)} /\ {BrandKey(b) : b \in {a}} \subseteq Keys
    BY KeysType
  <2>3. Fits("brand", {}, {a}, {BrandKey(a)}, {}, 0, "put")
    BY <1>1, <2>2 DEF Fits
  <2> QED
    BY <2>1, <2>3 DEF Starts
<1>5. ASSUME BeginPage(h) PROVE Starts(h)
  <2>1. PICK A \in SUBSET Assets : Begin(h, "page", {}, A, KeysOf(A), {}, 0, "put")
    BY <1>5 DEF BeginPage
  <2>2. Fits("page", {}, A, KeysOf(A), {}, 0, "put")
    BY <1>1, KeysType DEF Fits
  <2> QED
    BY <2>1, <2>2 DEF Starts
<1> QED
  BY <1>2, <1>3, <1>4, <1>5

Step(h) ==
  \/ Starts(h) \/ Put(h) \/ PutFails(h) \/ DeleteKeys(h) \/ Persist(h)
  \/ PersistFails(h) \/ ReadBrand(h) \/ ReadBrandFails(h) \/ UpdateBrand(h)
  \/ AuditBrand(h) \/ ReadRemaining(h) \/ Remove(h) \/ RemoveFails(h) \/ Crash(h)

LEMMA NextIsStep ==
  ASSUME TypeOK, Placed, Next
  PROVE  \E h \in Handlers : Step(h)
BY StartsImage, StartsVideo, StartsOther DEF Next, Step

LEMMA BeginEffect ==
  ASSUME TypeOK, NEW h \in Handlers, NEW k, NEW C, NEW A, NEW K, NEW R, NEW n, NEW where,
         Begin(h, k, C, A, K, R, n, where), Fits(k, C, A, K, R, n, where)
  PROVE  /\ pc[h] = "idle" /\ pc'[h] = where /\ kind'[h] = k /\ spot'[h] = C
         /\ target'[h] = A /\ previous'[h] = R /\ count'[h] = n /\ queue'[h] = K
         /\ order'[h] = order[h] /\ uploaded'[h] = uploaded[h] /\ doomed'[h] = doomed[h]
         /\ OthersWait(h) /\ LocalsOK'
         /\ A \intersect used = {} /\ used' = used \union A
         /\ contested \subseteq contested' /\ contested' \subseteq Assets \union Components
         /\ \A g \in Handlers \ {h} :
              pc[g] # "idle" /\ \/ spot[g] \intersect C # {}
                                \/ kind[g] = "brand" /\ k = "brand"
              => C \union A \union spot[g] \union target[g] \subseteq contested'
         /\ UNCHANGED <<rows, objects, stray, doubtful>>
         /\ operations' \in Nat
<1> DEFINE others == {g \in Handlers \ {h} :
                        /\ pc[g] # "idle"
                        /\ \/ spot[g] \intersect C # {}
                           \/ kind[g] = "brand" /\ k = "brand"}
           everything == contested \union C \union A
                         \union UNION {spot[g] \union target[g] : g \in others}
<1>1. contested' = IF others = {} THEN contested ELSE everything
  BY DEF Begin
<1>2. \A g \in others : C \union A \union spot[g] \union target[g] \subseteq everything
  OBVIOUS
<1>3. contested \subseteq everything /\ everything \subseteq Assets \union Components
  BY DEF TypeOK, Fits
<1>4. /\ contested \subseteq contested' /\ contested' \subseteq Assets \union Components
      /\ \A g \in Handlers \ {h} :
           pc[g] # "idle" /\ \/ spot[g] \intersect C # {}
                             \/ kind[g] = "brand" /\ k = "brand"
           => C \union A \union spot[g] \union target[g] \subseteq contested'
  <2> HIDE DEF everything
  <2>1. contested \subseteq contested'
    BY <1>1, <1>3
  <2>2. contested' \subseteq Assets \union Components
    BY <1>1, <1>3 DEF TypeOK
  <2> QED
    BY <1>1, <1>2, <2>1, <2>2
<1>5. where \in PCs
  BY DEF Fits, PCs
<1>6. /\ pc[h] = "idle" /\ pc'[h] = where /\ kind'[h] = k /\ spot'[h] = C
      /\ target'[h] = A /\ previous'[h] = R /\ count'[h] = n /\ queue'[h] = K
      /\ order'[h] = order[h] /\ uploaded'[h] = uploaded[h] /\ doomed'[h] = doomed[h]
      /\ OthersWait(h)
  BY DEF Begin, Goto, TypeOK, OthersWait, SameRequest
<1>7. LocalsOK'
  BY <1>5 DEF Begin, Goto, TypeOK, LocalsOK, Fits
<1>8. UNCHANGED <<rows, objects, stray, doubtful>> /\ operations' \in Nat
  BY DEF Begin, TypeOK
<1>9. A \intersect used = {} /\ used' = used \union A
  BY DEF Begin
<1> QED
  BY <1>4, <1>6, <1>7, <1>8, <1>9

LEMMA AssetsInType ==
  ASSUME NEW R \in SUBSET ImageRows
  PROVE  /\ AssetsIn(R) \subseteq Assets /\ Ids(R) \subseteq Assets
         /\ KeysOf(AssetsIn(R)) \subseteq Keys
         /\ {BrandKey(a) : a \in AssetsIn(R)} \subseteq KeysOf(AssetsIn(R))
         /\ {BrandKey(a) : a \in AssetsIn(R)} \subseteq Keys
<1>1. AssetsIn(R) \subseteq Assets /\ Ids(R) \subseteq Assets
  BY DEF AssetsIn, Ids, ImageRows
<1>2. {BrandKey(a) : a \in AssetsIn(R)} \subseteq KeysOf(AssetsIn(R))
  BY DEF BrandKey, KeysOf
<1> QED
  BY <1>1, <1>2, KeysType

LEMMA LocalsStep ==
  ASSUME TypeOK, Ordered, Placed, Requests, NEW h \in Handlers, Step(h)
  PROVE  LocalsOK' /\ OthersWait(h)
<1>1. LocalsOK
  BY TypeLocals
<1>2. /\ uploaded[h] \subseteq Keys /\ doomed[h] \subseteq Keys
      /\ Replaced(h) \subseteq Keys /\ FormerBrand(h) \subseteq Keys
      /\ KeysOf(AssetsIn(previous[h])) \subseteq Keys
  BY AssetsInType DEF TypeOK, Replaced, FormerBrand
<1>3. ASSUME Starts(h) PROVE LocalsOK' /\ OthersWait(h)
  BY <1>3, BeginEffect DEF Starts
<1>4. ASSUME Put(h) PROVE LocalsOK' /\ OthersWait(h)
  <2>1. {"put", "read", "persist"} \subseteq PCs
    BY DEF PCs
  <2> QED
    BY <1>1, <1>4, <2>1 DEF Put, Goto, LocalsOK, OthersWait, SameRequest
<1>5. ASSUME PutFails(h) PROVE LocalsOK' /\ OthersWait(h)
  BY <1>1, <1>2, <1>5, ForgetEffect, CleanUpEffect DEF PutFails
<1>6. ASSUME DeleteKeys(h) PROVE LocalsOK' /\ OthersWait(h)
  BY <1>1, <1>6, ForgetEffect DEF DeleteKeys
<1>7. ASSUME Persist(h) PROVE LocalsOK' /\ OthersWait(h)
  BY <1>1, <1>2, <1>7, CleanUpEffect DEF Persist, MisjudgedAsFailed
<1>8. ASSUME PersistFails(h) PROVE LocalsOK' /\ OthersWait(h)
  BY <1>1, <1>2, <1>8, CleanUpEffect DEF PersistFails
<1>9. ASSUME ReadBrand(h) PROVE LocalsOK' /\ OthersWait(h)
  <2>1. "persist" \in PCs /\ {[id |-> a, asset |-> a] : a \in brand} \subseteq ImageRows
    BY DEF PCs, ImageRows, TypeOK
  <2> QED
    BY <1>1, <1>9, <2>1 DEF ReadBrand, Goto, LocalsOK, OthersWait, SameRequest
<1>10. ASSUME UpdateBrand(h) PROVE LocalsOK' /\ OthersWait(h)
  <2>1. "audit" \in PCs
    BY DEF PCs
  <2> QED
    BY <1>1, <1>10, <2>1 DEF UpdateBrand, Goto, locals, LocalsOK, OthersWait, SameRequest
<1>11. ASSUME AuditBrand(h) PROVE LocalsOK' /\ OthersWait(h)
  BY <1>1, <1>2, <1>11, CleanUpEffect DEF AuditBrand, MisjudgedAsFailed
<1>12. ASSUME ReadRemaining(h) PROVE LocalsOK' /\ OthersWait(h)
  <2>1. PICK c \in spot[h] :
          order' = [order EXCEPT ![h] =
            Renumbered(clips[c], DOMAIN clips[c] \ AssetsIn(previous[h]))]
    BY <1>12 DEF ReadRemaining
  <2> DEFINE A == DOMAIN clips[c] \ AssetsIn(previous[h])
             o == Renumbered(clips[c], A)
  <2>2. c \in VideoBlocks /\ c \in Components
    BY <1>12 DEF ReadRemaining, Requests, TypeOK
  <2>3. clips[c] \in Orders /\ \A a, b \in DOMAIN clips[c] : clips[c][a] = clips[c][b] => a = b
    BY <2>2 DEF TypeOK, Ordered
  <2>4. IsFiniteSet(DOMAIN clips[c]) /\ Cardinality(DOMAIN clips[c]) \in 0 .. MaxVideos
    BY <2>2, <2>3, AtMostMax
  <2>5. Cardinality(A) \in Nat /\ Cardinality(A) <= MaxVideos /\ A \subseteq Assets
    BY <2>3, <2>4, FS_Subset, FS_CardinalityType, OrdersType, AssetAssumption
    DEF AssetAssumption
  <2>6. /\ DOMAIN o \subseteq A /\ o = [a \in DOMAIN o |-> Ranks(clips[c], A)[a]]
        /\ \A a \in A : Ranks(clips[c], A)[a] \in 0 .. Cardinality(A) - 1
    <3>1. A \subseteq DOMAIN clips[c]
      OBVIOUS
    <3> HIDE DEF A
    <3>2. \A a \in A : Ranks(clips[c], A)[a] \in 0 .. Cardinality(A) - 1
      BY <2>3, <3>1, RanksFacts
    <3> QED
      BY <3>2, RenumberedFacts
  <2>7. o \in [DOMAIN o -> 0 .. MaxVideos - 1]
    <3> HIDE DEF A, o
    <3>1. \A a \in DOMAIN o : Ranks(clips[c], A)[a] \in 0 .. MaxVideos - 1
      BY <2>5, <2>6, AssetAssumption DEF AssetAssumption
    <3> QED
      BY <2>6, <3>1
  <2>8. o \in Orders
    <3> HIDE DEF o
    <3> QED
      BY <2>5, <2>6, <2>7, OrdersIntro
  <2>9. "renumber" \in PCs
    BY DEF PCs
  <2> HIDE DEF o
  <2>10. order' = [order EXCEPT ![h] = o]
    BY <2>1 DEF o
  <2> QED
    BY <1>1, <1>12, <2>8, <2>9, <2>10
    DEF ReadRemaining, Goto, LocalsOK, OthersWait, SameRequest
<1>13. ASSUME Remove(h) PROVE LocalsOK' /\ OthersWait(h)
  BY <1>1, <1>2, <1>13, ForgetEffect, CleanUpEffect DEF Remove
<1>14. ASSUME RemoveFails(h) PROVE LocalsOK' /\ OthersWait(h)
  BY <1>1, <1>14, ForgetEffect DEF RemoveFails
<1>15. ASSUME Crash(h) PROVE LocalsOK' /\ OthersWait(h)
  BY <1>1, <1>15, ForgetEffect DEF Crash
<1>16. ASSUME ReadBrandFails(h) PROVE LocalsOK' /\ OthersWait(h)
  BY <1>1, <1>16, ForgetEffect DEF ReadBrandFails
<1> QED
  BY <1>3, <1>4, <1>5, <1>6, <1>7, <1>8, <1>9, <1>10, <1>11, <1>12, <1>13, <1>14,
     <1>15, <1>16 DEF Step

----------------------------------------------------------------------------
(* What steps do to rows *)

ImageWritten(h, c, a, i) ==
  /\ spot[h] = {c} /\ target[h] = {a} /\ c \in Components
  /\ tier'[c] = {[id |-> i, asset |-> a]}
  /\ \A d \in Components : d # c => tier'[d] = tier[d]
  /\ tier' \in [Components -> SUBSET ImageRows]
  /\ \/ previous[h] = {} /\ tier[c] = {} /\ i = a
     \/ \E p \in previous[h], r \in tier[c] :
          r.id = i /\ p.id = i /\ tier[c] = {r} /\ r \in ImageRows
  /\ UNCHANGED <<blocks, clips, brand, pages>>

VideoWritten(h, c, a) ==
  /\ spot[h] = {c} /\ target[h] = {a} /\ c \in Components
  /\ \A b \in DOMAIN clips[c] : clips[c][b] # count[h]
  /\ clips'[c] = [b \in DOMAIN clips[c] \union {a} |->
                    IF b = a THEN count[h] ELSE clips[c][b]]
  /\ \A d \in Components : d # c => clips'[d] = clips[d]
  /\ clips' = [clips EXCEPT ![c] = clips'[c]]
  /\ UNCHANGED <<blocks, tier, brand, pages>>

LEMMA ImageWrite ==
  ASSUME TypeOK, Requests, Placed, NEW h \in Handlers, WriteRows(h), kind[h] = "image"
  PROVE  \E c \in OfferBlocks \intersect blocks, a \in Assets, i \in Assets :
           ImageWritten(h, c, a, i)
<1> DEFINE NewRows(c, a) == IF c \notin spot[h] THEN tier[c]
                            ELSE IF previous[h] = {} THEN {[id |-> a, asset |-> a]}
                            ELSE {[r EXCEPT !.asset = a] : r \in tier[c]}
<1>1. WriteImage(h) /\ CanWrite(h)
  BY DEF WriteRows, WriteVideo, WritePage
<1>2. PICK a \in target[h] : tier' = [c \in Components |-> NewRows(c, a)]
  BY <1>1 DEF WriteImage
<1>3. PICK c \in spot[h] \intersect blocks :
        IF previous[h] = {} THEN tier[c] = {} ELSE SameRow(h, c)
  BY <1>1 DEF CanWrite
<1>4. /\ spot[h] = {c} /\ target[h] = {a} /\ c \in OfferBlocks /\ c \in Components
      /\ a \in Assets
  BY DEF Requests, ReadsRows, TypeOK
<1>5. \A d \in Components : d # c => tier'[d] = tier[d]
  BY <1>2, <1>4
<1>6. tier[c] \subseteq ImageRows /\ previous[h] \subseteq ImageRows
      /\ tier \in [Components -> SUBSET ImageRows]
  BY <1>4 DEF TypeOK
<1>7. ASSUME NEW i \in Assets, tier'[c] = {[id |-> i, asset |-> a]}
      PROVE  tier' \in [Components -> SUBSET ImageRows]
  <2>1. tier'[c] \subseteq ImageRows
    BY <1>4, <1>7 DEF ImageRows
  <2>2. \A d \in Components : tier'[d] \subseteq ImageRows
    BY <2>1, <1>5, <1>6
  <2>3. tier' = [d \in Components |-> tier'[d]]
    BY <1>2
  <2> QED
    BY <2>2, <2>3
<1>8. UNCHANGED <<blocks, clips, brand, pages>>
  BY <1>1 DEF WriteImage
<1>9. CASE previous[h] = {}
  <2>1. tier'[c] = {[id |-> a, asset |-> a]} /\ tier[c] = {}
    BY <1>2, <1>3, <1>4, <1>9
  <2> QED
    BY <2>1, <1>3, <1>4, <1>5, <1>7, <1>8, <1>9 DEF ImageWritten
<1>10. CASE previous[h] # {}
  <2>1. PICK p \in previous[h], r \in tier[c] : r.id = p.id
    BY <1>3, <1>10 DEF SameRow
  <2>2. tier[c] = {r} /\ r \in ImageRows /\ r.id \in Assets
    BY <2>1, <1>4, <1>6 DEF Placed, ImageRows
  <2>3. tier'[c] = {[s EXCEPT !.asset = a] : s \in tier[c]}
    BY <1>2, <1>4, <1>10
  <2>4. [r EXCEPT !.asset = a] = [id |-> r.id, asset |-> a]
    BY <2>2 DEF ImageRows
  <2>5. tier'[c] = {[id |-> r.id, asset |-> a]}
    BY <2>2, <2>3, <2>4
  <2> QED
    BY <2>1, <2>2, <2>5, <1>3, <1>4, <1>5, <1>7, <1>8 DEF ImageWritten
<1> QED
  BY <1>9, <1>10

LEMMA VideoWrite ==
  ASSUME TypeOK, Requests, NEW h \in Handlers, WriteRows(h), kind[h] = "video"
  PROVE  \E c \in VideoBlocks \intersect blocks, a \in Assets : VideoWritten(h, c, a)
<1>1. WriteVideo(h) /\ CanWrite(h)
  BY DEF WriteRows, WriteImage, WritePage
<1>2. PICK d \in spot[h] \intersect blocks :
        \A b \in DOMAIN clips[d] : clips[d][b] # count[h]
  BY <1>1 DEF CanWrite
<1>3. PICK c \in spot[h], a \in target[h] :
        clips' = [clips EXCEPT ![c] = [b \in DOMAIN clips[c] \union {a} |->
                                         IF b = a THEN count[h] ELSE clips[c][b]]]
  BY <1>1 DEF WriteVideo
<1>4. /\ c = d /\ spot[h] = {c} /\ target[h] = {a} /\ c \in VideoBlocks /\ c \in Components
      /\ a \in Assets
  BY DEF Requests, TypeOK
<1>5. clips \in [Components -> Orders]
  BY DEF TypeOK
<1>6. UNCHANGED <<blocks, tier, brand, pages>>
  BY <1>1 DEF WriteVideo
<1>7. /\ clips'[c] = [b \in DOMAIN clips[c] \union {a} |->
                        IF b = a THEN count[h] ELSE clips[c][b]]
      /\ \A e \in Components : e # c => clips'[e] = clips[e]
      /\ clips' = [clips EXCEPT ![c] = clips'[c]]
  BY <1>3, <1>4, <1>5
<1> QED
  BY <1>2, <1>4, <1>6, <1>7 DEF VideoWritten

LEMMA PageWrite ==
  ASSUME NEW h \in Handlers, WriteRows(h), kind[h] \notin {"image", "video"}
  PROVE  /\ kind[h] = "page" /\ pages' = pages \union target[h]
         /\ UNCHANGED <<blocks, tier, clips, brand>>
BY DEF WriteRows, WriteImage, WriteVideo, WritePage

LEMMA RemoveEffect ==
  ASSUME TypeOK, Requests, Placed, Reading, NEW h \in Handlers, RemoveRows(h)
  PROVE  /\ pc[h] \in {"remove", "renumber"} /\ kind[h] \in Removals
         /\ blocks' \subseteq blocks
         /\ \A c \in Components :
              /\ tier'[c] \subseteq tier[c] /\ DOMAIN clips'[c] \subseteq DOMAIN clips[c]
              /\ c \notin spot[h] => clips'[c] = clips[c]
              /\ c \in spot[h] => MediaOf(c)' \intersect AssetsIn(previous[h]) = {}
              /\ c \notin blocks' /\ c \in blocks => tier'[c] = {} /\ clips'[c] = NoClips
         /\ tier' \in [Components -> SUBSET ImageRows]
         /\ \/ /\ kind[h] = "unvideo" /\ pc[h] = "renumber" /\ UNCHANGED <<blocks, tier>>
               /\ clips' = [c \in Components |-> IF c \in spot[h] THEN Renumbering(h, c)
                                                ELSE clips[c]]
               /\ \A c \in spot[h], a, b \in Assets :
                    {a, b} \subseteq DOMAIN clips'[c] /\ clips'[c][a] = clips'[c][b] => a = b
            \/ /\ kind[h] = "unimage" /\ UNCHANGED <<blocks, clips>>
               /\ pc[h] = "remove"
               /\ \A c \in Components :
                    tier'[c] = {r \in tier[c] : \A p \in previous[h] : r.id # p.id}
            \/ /\ kind[h] \in {"drop", "load"} /\ pc[h] = "remove"
               /\ \A c \in Components :
                    /\ tier'[c] = IF c \in spot[h] THEN {} ELSE tier[c]
                    /\ clips'[c] = IF c \in spot[h] THEN NoClips ELSE clips[c]
               /\ clips' = [c \in Components |-> clips'[c]]
<1> USE DEF Removals
<1>1. /\ tier \in [Components -> SUBSET ImageRows] /\ clips \in [Components -> Orders]
      /\ spot[h] \subseteq Components /\ previous[h] \subseteq ImageRows
  BY DEF TypeOK
<1>2. CASE RemovesVideo(h)
  <2>1. /\ kind[h] = "unvideo" /\ pc[h] = "renumber" /\ UNCHANGED <<blocks, tier>>
        /\ clips' = [c \in Components |-> IF c \in spot[h] THEN Renumbering(h, c)
                                         ELSE clips[c]]
        /\ \A c \in spot[h], a, b \in Assets :
             {a, b} \subseteq DOMAIN clips'[c] /\ clips'[c][a] = clips'[c][b] => a = b
    BY <1>2 DEF RemovesVideo, Requests
  <2>2. \A c \in Components :
          /\ c \in spot[h] =>
               DOMAIN clips'[c] = DOMAIN clips[c] \ AssetsIn(previous[h])
          /\ c \notin spot[h] => clips'[c] = clips[c]
    BY <2>1 DEF Renumbering
  <2>3. ASSUME NEW c \in spot[h]
        PROVE  MediaOf(c)' \intersect AssetsIn(previous[h]) = {}
    <3>1. c \in VideoBlocks /\ c \in Components
      BY <1>1, <2>1 DEF Requests
    <3>2. tier[c] = {}
      BY <3>1, AssetAssumption DEF AssetAssumption, Placed
    <3> QED
      BY <3>1, <3>2, <2>1, <2>2 DEF MediaOf, AssetsIn
  <2> QED
    BY <1>1, <2>1, <2>2, <2>3
<1>3. CASE RemovesImage(h)
  <2>1. /\ kind[h] = "unimage" /\ pc[h] = "remove" /\ UNCHANGED <<blocks, clips>>
        /\ \A c \in Components :
             tier'[c] = {r \in tier[c] : \A p \in previous[h] : r.id # p.id}
        /\ tier' \in [Components -> SUBSET ImageRows]
    BY <1>1, <1>3 DEF RemovesImage
  <2>2. ASSUME NEW c \in spot[h]
        PROVE  MediaOf(c)' \intersect AssetsIn(previous[h]) = {}
    <3>1. c \in OfferBlocks /\ c \in Components /\ spot[h] = {c}
      BY <1>1, <2>1 DEF Requests, ReadsRows
    <3>2. clips[c] = NoClips
      BY <3>1, AssetAssumption DEF AssetAssumption, Placed
    <3>3. ASSUME NEW r \in tier'[c], NEW p \in previous[h], r.asset = p.asset PROVE FALSE
      <4>1. r \in tier[c] /\ r.id # p.id
        BY <2>1, <3>1, <3>3
      <4>2. p.asset \in MediaOf(c)
        BY <4>1, <3>3 DEF MediaOf, AssetsIn
      <4>3. p.asset \in Named
        BY <3>1, <4>2, NamedFacts
      <4>4. StillThere(h, p)
        BY <4>3 DEF Reading
      <4>5. p \in tier[c]
        BY <2>1, <3>1, <4>4 DEF StillThere, ReadsRows
      <4> QED
        BY <3>1, <4>1, <4>5 DEF Placed
    <3>4. AssetsIn(tier'[c]) \intersect AssetsIn(previous[h]) = {}
      BY <3>3 DEF AssetsIn
    <3> QED
      BY <2>1, <3>2, <3>4, NoClipsType DEF MediaOf, AssetsIn
  <2>3. \A c \in Components : tier'[c] \subseteq tier[c]
    BY <2>1
  <2> QED
    BY <2>1, <2>2, <2>3
<1>4. CASE RemovesComponents(h)
  <2>1. /\ kind[h] \in {"drop", "load"} /\ pc[h] = "remove" /\ blocks' = blocks \ spot[h]
        /\ \A c \in Components :
             /\ tier'[c] = IF c \in spot[h] THEN {} ELSE tier[c]
             /\ clips'[c] = IF c \in spot[h] THEN NoClips ELSE clips[c]
        /\ clips' = [c \in Components |-> clips'[c]]
        /\ tier' \in [Components -> SUBSET ImageRows]
    BY <1>1, <1>4 DEF RemovesComponents
  <2>2. \A c \in Components : c \in spot[h] => MediaOf(c)' = {}
    BY <2>1, NoClipsType DEF MediaOf, AssetsIn
  <2> QED
    BY <1>1, <2>1, <2>2, NoClipsType
<1> QED
  BY <1>2, <1>3, <1>4 DEF RemoveRows

(* A step adds to rows at most what it has generated itself; nothing else   *)
(* comes to a row, and nothing changes its place.                           *)
Fresh(h) == IF Pending(h) THEN target[h] ELSE {}
NothingMoves(h) ==
  /\ \A c \in Components :
       /\ \A r \in tier'[c] : r \in tier[c] \/ (c \in spot[h] /\ r.asset \in Fresh(h))
       /\ \A a \in DOMAIN clips'[c] : a \in DOMAIN clips[c] \/ (c \in spot[h] /\ a \in Fresh(h))
       /\ c \notin spot[h] => clips'[c] = clips[c]
  /\ \A a \in brand' : a \in brand \/ (kind[h] = "brand" /\ a \in Fresh(h))
  /\ \A a \in pages' : a \in pages \/ (kind[h] = "page" /\ a \in Fresh(h))

LEMMA StepMoves ==
  ASSUME TypeOK, Requests, Placed, Reading, NEW h \in Handlers, Step(h)
  PROVE  NothingMoves(h)
<1>1. ASSUME UNCHANGED rows PROVE NothingMoves(h)
  BY <1>1 DEF NothingMoves, rows
<1>2. ASSUME Starts(h) PROVE NothingMoves(h)
  BY <1>1, <1>2 DEF Starts, Begin
<1>3. ASSUME Persist(h) PROVE NothingMoves(h)
  <2>1. WriteRows(h) /\ Fresh(h) = target[h]
    BY <1>3 DEF Persist, Fresh, Pending
  <2>2. CASE kind[h] = "image"
    <3>1. PICK c \in OfferBlocks \intersect blocks, a \in Assets, i \in Assets :
            ImageWritten(h, c, a, i)
      BY <2>1, <2>2, ImageWrite
    <3> USE DEF ImageWritten
    <3>2. \A r \in tier'[c] : c \in spot[h] /\ r.asset \in Fresh(h)
      BY <2>1, <3>1
    <3> QED
      BY <2>1, <3>1, <3>2 DEF NothingMoves
  <2>3. CASE kind[h] = "video"
    <3>1. PICK c \in VideoBlocks \intersect blocks, a \in Assets : VideoWritten(h, c, a)
      BY <2>1, <2>3, VideoWrite
    <3> USE DEF VideoWritten
    <3>2. \A b \in DOMAIN clips'[c] : b \in DOMAIN clips[c] \/ b \in Fresh(h)
      BY <2>1, <3>1
    <3> QED
      BY <2>1, <3>1, <3>2 DEF NothingMoves
  <2>4. CASE kind[h] \notin {"image", "video"}
    BY <2>1, <2>4, PageWrite DEF NothingMoves
  <2> QED
    BY <2>2, <2>3, <2>4
<1>4. ASSUME UpdateBrand(h) PROVE NothingMoves(h)
  BY <1>4 DEF UpdateBrand, NothingMoves, Fresh, Pending
<1>5. ASSUME Remove(h) PROVE NothingMoves(h)
  BY <1>5, RemoveEffect DEF Remove, NothingMoves
<1> QED
  BY <1>1, <1>2, <1>3, <1>4, <1>5
  DEF Step, Put, PutFails, DeleteKeys, PersistFails, ReadBrand, AuditBrand,
      ReadRemaining, RemoveFails, ReadBrandFails, Crash, rows

LEMMA RowTypesStep ==
  ASSUME TypeOK, Requests, Placed, Reading, Counting, NEW h \in Handlers, Step(h)
  PROVE  /\ blocks' \subseteq Components
         /\ tier' \in [Components -> SUBSET ImageRows]
         /\ clips' \in [Components -> Orders]
         /\ brand' \subseteq Assets
         /\ pages' \subseteq Assets
<1> DEFINE Typed == /\ blocks' \subseteq Components
                    /\ tier' \in [Components -> SUBSET ImageRows]
                    /\ clips' \in [Components -> Orders]
                    /\ brand' \subseteq Assets
                    /\ pages' \subseteq Assets
<1>1. ASSUME UNCHANGED rows PROVE Typed
  BY <1>1 DEF TypeOK, rows
<1>2. ASSUME Starts(h) PROVE Typed
  BY <1>1, <1>2 DEF Starts, Begin
<1>3. ASSUME Persist(h) PROVE Typed
  <2>1. WriteRows(h)
    BY <1>3 DEF Persist
  <2>2. CASE kind[h] = "image"
    BY <2>1, <2>2, ImageWrite DEF TypeOK, ImageWritten
  <2>3. CASE kind[h] = "video"
    <3>1. PICK c \in VideoBlocks \intersect blocks, a \in Assets : VideoWritten(h, c, a)
      BY <2>1, <2>3, VideoWrite
    <3> USE DEF VideoWritten
    <3>2. clips[c] \in Orders /\ count[h] \in 0 .. MaxVideos - 1
      BY <1>3, <2>3, <3>1, AssetAssumption DEF Persist, Counting, TypeOK, AssetAssumption
    <3> DEFINE o == [b \in DOMAIN clips[c] \union {a} |->
                       IF b = a THEN count[h] ELSE clips[c][b]]
    <3>3. o \in [DOMAIN clips[c] \union {a} -> 0 .. MaxVideos - 1]
      BY <3>2, OrdersType
    <3>4. clips'[c] \in Orders
      BY <3>1, <3>2, <3>3, OrdersType, OrdersIntro
    <3> QED
      BY <3>1, <3>4 DEF TypeOK
  <2>4. CASE kind[h] \notin {"image", "video"}
    BY <2>1, <2>4, PageWrite DEF TypeOK
  <2> QED
    BY <2>2, <2>3, <2>4
<1>4. ASSUME UpdateBrand(h) PROVE Typed
  BY <1>4 DEF UpdateBrand, TypeOK
<1>5. ASSUME Remove(h) PROVE Typed
  <2>1. RemoveRows(h) /\ UNCHANGED <<brand, pages>>
    BY <1>5 DEF Remove
  <2>2. \A c \in Components : DOMAIN clips[c] \subseteq Assets /\ clips[c] \in Orders
    BY OrdersType DEF TypeOK
  <2>3. ASSUME clips' = [c \in Components |-> IF c \in spot[h] THEN Renumbering(h, c)
                                             ELSE clips[c]]
        PROVE  clips' \in [Components -> Orders]
    <3>1. ASSUME NEW c \in Components PROVE Renumbering(h, c) \in Orders
      <4> DEFINE A == DOMAIN clips[c] \ AssetsIn(previous[h])
      <4>1. A \subseteq Assets /\ order[h] \in Orders /\ clips[c] \in Orders
        BY <2>2 DEF TypeOK
      <4>2. \A a \in A : /\ clips[c][a] \in 0 .. MaxVideos - 1
                         /\ a \in DOMAIN order[h] => order[h][a] \in 0 .. MaxVideos - 1
        BY <4>1, OrdersType
      <4>3. Renumbering(h, c) \in [A -> 0 .. MaxVideos - 1]
        BY <4>2 DEF Renumbering
      <4> QED
        BY <4>1, <4>3, OrdersIntro
    <3> QED
      BY <2>2, <2>3, <3>1
  <2>4. ASSUME clips' = [c \in Components |-> clips'[c]],
               \A c \in Components : clips'[c] = IF c \in spot[h] THEN NoClips ELSE clips[c]
        PROVE  clips' \in [Components -> Orders]
    <3>1. \A c \in Components : clips'[c] \in Orders
      BY <2>2, <2>4, NoClipsType
    <3> QED
      BY <2>4, <3>1
  <2>5. clips' \in [Components -> Orders]
    BY <2>1, <2>3, <2>4, RemoveEffect DEF TypeOK
  <2> QED
    BY <2>1, <2>5, RemoveEffect DEF TypeOK
<1> QED
  BY <1>1, <1>2, <1>3, <1>4, <1>5
  DEF Step, Put, PutFails, DeleteKeys, PersistFails, ReadBrand, AuditBrand,
      ReadRemaining, RemoveFails, ReadBrandFails, Crash, rows

LEMMA TypeStep ==
  ASSUME IInv, NEW h \in Handlers, Step(h)
  PROVE  TypeOK'
<1>1. LocalsOK'
  BY LocalsStep DEF IInv
<1>2. /\ blocks' \subseteq Components
      /\ tier' \in [Components -> SUBSET ImageRows]
      /\ clips' \in [Components -> Orders]
      /\ brand' \subseteq Assets
      /\ pages' \subseteq Assets
  BY RowTypesStep DEF IInv
<1> USE DEF TypeOK
<1>3. TypeOK
  BY DEF IInv
<1>4. /\ uploaded[h] \subseteq Keys /\ doomed[h] \subseteq Keys /\ queue[h] \subseteq Keys
      /\ Replaced(h) \subseteq Keys /\ FormerBrand(h) \subseteq Keys
      /\ KeysOf(AssetsIn(previous[h])) \subseteq Keys
      /\ target[h] \subseteq Assets
  BY <1>3, AssetsInType DEF Replaced, FormerBrand
<1>5. /\ objects' \subseteq Keys /\ used' \subseteq Assets /\ operations' \in Nat
      /\ stray' \subseteq Keys /\ doubtful' \subseteq Assets
      /\ contested' \subseteq Assets \union Components
  <2>1. CASE Starts(h)
    <3>1. PICK k, C, A, K, R, n, where :
            Begin(h, k, C, A, K, R, n, where) /\ Fits(k, C, A, K, R, n, where)
      BY <2>1 DEF Starts
    <3>2. /\ used' = used \union A /\ contested' \subseteq Assets \union Components
          /\ objects' = objects /\ stray' = stray /\ doubtful' = doubtful
          /\ operations' \in Nat
      BY <1>3, <3>1, BeginEffect
    <3>3. A \subseteq Assets
      BY <3>1 DEF Fits
    <3> QED
      BY <1>3, <3>2, <3>3
  <2>2. CASE Put(h)
    BY <1>3, <1>4, <2>2 DEF Put, started, history
  <2>3. CASE PutFails(h)
    BY <1>3, <1>4, <2>3 DEF PutFails, started
  <2>4. CASE DeleteKeys(h)
    BY <1>3, <1>4, <2>4 DEF DeleteKeys, started
  <2>5. CASE Persist(h)
    BY <1>3, <1>4, <2>5 DEF Persist, MisjudgedAsFailed, started
  <2>6. CASE AuditBrand(h)
    BY <1>3, <1>4, <2>6 DEF AuditBrand, MisjudgedAsFailed, started
  <2>7. CASE Remove(h)
    BY <1>3, <1>4, <2>7 DEF Remove, started
  <2>8. CASE Crash(h)
    BY <1>3, <1>4, <2>8 DEF Crash, started
  <2>9. CASE ReadBrandFails(h)
    BY <1>3, <1>4, <2>9 DEF ReadBrandFails, started
  <2> QED
    BY <1>3, <2>1, <2>2, <2>3, <2>4, <2>5, <2>6, <2>7, <2>8, <2>9
    DEF Step, PersistFails, ReadBrand, UpdateBrand, ReadRemaining, RemoveFails,
        started, history
<1> QED
  BY <1>1, <1>2, <1>5 DEF LocalsOK

LEMMA RequestsStep ==
  ASSUME TypeOK, Requests, Ordered, Placed, NEW h \in Handlers, Step(h)
  PROVE  Requests'
<1> DEFINE Fine(g) ==
      /\ ~Active(g) => target[g] = {} /\ spot[g] = {} /\ previous[g] = {}
      /\ kind[g] # "page" => \A a, b \in target[g] : a = b
      /\ kind[g] # "load" => \A c, d \in spot[g] : c = d
      /\ kind[g] \in ReadsRows => spot[g] \subseteq OfferBlocks
      /\ kind[g] \in {"video", "unvideo"} => spot[g] \subseteq VideoBlocks
      /\ kind[g] \in {"brand", "page"} => spot[g] = {}
      /\ kind[g] \in {"video", "page"} => previous[g] = {}
      /\ kind[g] \in Removals => target[g] = {}
      /\ pc[g] \in {"put", "persist"} => kind[g] \in Uploads
      /\ pc[g] \in {"read", "audit"} => kind[g] = "brand"
      /\ pc[g] = "remove" => kind[g] \in Removals
      /\ pc[g] = "renumber" => kind[g] = "unvideo"
      /\ pc[g] # "delete" => doomed[g] = {}
<1>1. LocalsOK /\ OthersWait(h)
  BY TypeLocals, LocalsStep
<1>2. \A g \in Handlers : Fine(g)
  BY DEF Requests
<1>3. \A g \in Handlers \ {h} : Fine(g)'
  BY <1>1, <1>2 DEF OthersWait, SameRequest, Active
<1>4. ASSUME Ended(h) PROVE Fine(h)'
  BY <1>4 DEF Ended, Active, Removals, ReadsRows
<1>5. ASSUME NEW K, Deleting(h, K), Active(h) PROVE Fine(h)'
  BY <1>2, <1>5 DEF Deleting, Active
<1>6. CASE Starts(h)
  <2>1. PICK k, C, A, K, R, n, where :
          Begin(h, k, C, A, K, R, n, where) /\ Fits(k, C, A, K, R, n, where)
    BY <1>6 DEF Starts
  <2>2. /\ pc[h] = "idle" /\ pc'[h] = where /\ kind'[h] = k /\ spot'[h] = C
        /\ target'[h] = A /\ previous'[h] = R /\ doomed'[h] = doomed[h]
    BY <2>1, BeginEffect
  <2>3. doomed'[h] = {} /\ where \in {"put", "remove"}
    BY <1>2, <2>1, <2>2 DEF Fits
  <2>4. Fine(h)'
    BY <2>1, <2>2, <2>3 DEF Fits, Active, Uploads, Removals, ReadsRows
  <2> QED
    BY <1>3, <2>4 DEF Requests
<1>7. CASE Put(h) \/ ReadBrand(h) \/ UpdateBrand(h) \/ ReadRemaining(h)
  <2>1. /\ kind'[h] = kind[h] /\ spot'[h] = spot[h] /\ target'[h] = target[h]
        /\ doomed'[h] = doomed[h]
        /\ previous'[h] = previous[h] \/ kind[h] = "brand"
    BY <1>2, <1>7 DEF Put, ReadBrand, UpdateBrand, ReadRemaining, locals
  <2>2. /\ pc[h] \in {"put", "read", "persist", "remove"} /\ pc'[h] # "idle"
        /\ pc'[h] \in {"put", "persist"} => kind[h] \in Uploads
        /\ pc'[h] \in {"read", "audit"} => kind[h] = "brand"
        /\ pc'[h] = "renumber" => kind[h] = "unvideo"
        /\ pc'[h] # "remove"
    BY <1>1, <1>2, <1>7
    DEF LocalsOK, Put, ReadBrand, UpdateBrand, ReadRemaining, Goto, Uploads
  <2>3. Fine(h)'
    BY <1>2, <2>1, <2>2 DEF Active
  <2> QED
    BY <1>3, <2>3 DEF Requests
<1>8. CASE PutFails(h) \/ DeleteKeys(h) \/ Persist(h) \/ PersistFails(h)
           \/ AuditBrand(h) \/ Remove(h) \/ RemoveFails(h) \/ Crash(h)
           \/ ReadBrandFails(h)
  <2>1. Ended(h) \/ \E K : Deleting(h, K) /\ Active(h)
    BY <1>1, <1>8, ForgetEffect, CleanUpEffect
    DEF PutFails, DeleteKeys, Persist, PersistFails, AuditBrand, Remove, RemoveFails,
        ReadBrandFails, Crash, MisjudgedAsFailed, Active, RemoveRows, RemovesVideo, RemovesImage,
        RemovesComponents
  <2>2. Fine(h)'
    BY <1>4, <1>5, <2>1
  <2> QED
    BY <1>3, <2>2 DEF Requests
<1> QED
  BY <1>6, <1>7, <1>8 DEF Step

(* The ways a request goes on *)
Continues(h) ==
  /\ kind'[h] = kind[h] /\ spot'[h] = spot[h] /\ target'[h] = target[h]
  /\ previous'[h] = previous[h] /\ doomed'[h] = doomed[h] /\ count'[h] = count[h]
  /\ pc'[h] \in {"put", "persist", "remove"} =>
       /\ pc[h] = "put" /\ pc'[h] # "remove" /\ UNCHANGED rows
       /\ kind[h] = "brand" => pc'[h] = "put"
Carries(h, R) ==
  /\ Pending(h) /\ pc'[h] = "persist" /\ kind[h] = "brand" /\ previous'[h] = R
  /\ kind'[h] = kind[h] /\ spot'[h] = spot[h] /\ target'[h] = target[h]
  /\ doomed'[h] = doomed[h] /\ count'[h] = count[h] /\ UNCHANGED rows
BrandRows == {[id |-> a, asset |-> a] : a \in brand}

LEMMA StepCases ==
  ASSUME TypeOK, Requests, NEW h \in Handlers, Step(h)
  PROVE  \/ Starts(h)
         \/ Ended(h) /\ Active(h)
         \/ Active(h) /\ \E K : Deleting(h, K)
         \/ Active(h) /\ Continues(h) /\ (Pending(h)' => Pending(h))
         \/ Active(h) /\ Carries(h, BrandRows)
<1>1. LocalsOK
  BY TypeLocals
<1>2. CASE Put(h) \/ UpdateBrand(h) \/ ReadRemaining(h)
  <2>1. Continues(h)
    BY <1>1, <1>2 DEF Put, UpdateBrand, ReadRemaining, Continues, locals, Goto, LocalsOK
  <2>2. (Pending(h)' => Pending(h)) /\ Active(h)
    BY <1>1, <1>2 DEF Put, UpdateBrand, ReadRemaining, Goto, Pending, LocalsOK, Active
  <2> QED
    BY <2>1, <2>2
<1>3. CASE ReadBrand(h)
  BY <1>1, <1>3 DEF ReadBrand, Goto, Carries, BrandRows, LocalsOK, Active, Requests, Pending
<1>4. CASE PutFails(h) \/ DeleteKeys(h) \/ Persist(h) \/ PersistFails(h)
           \/ AuditBrand(h) \/ Remove(h) \/ RemoveFails(h) \/ Crash(h)
           \/ ReadBrandFails(h)
  BY <1>1, <1>4, ForgetEffect, CleanUpEffect
  DEF PutFails, DeleteKeys, Persist, PersistFails, AuditBrand, Remove, RemoveFails,
      ReadBrandFails, Crash, MisjudgedAsFailed, Active, RemoveRows, RemovesVideo, RemovesImage,
      RemovesComponents, Removing
<1> QED
  BY <1>2, <1>3, <1>4 DEF Step

LEMMA RowSteps ==
  ASSUME NEW h \in Handlers, Step(h)
  PROVE  UNCHANGED rows \/ Persist(h) \/ UpdateBrand(h) \/ Remove(h)
<1>1. Starts(h) => UNCHANGED rows
  BY DEF Starts, Begin
<1> QED
  BY <1>1 DEF Step, Put, PutFails, DeleteKeys, PersistFails, ReadBrand, AuditBrand,
              ReadRemaining, RemoveFails, ReadBrandFails, Crash

LEMMA UsedGrows ==
  ASSUME TypeOK, NEW h \in Handlers, Step(h)
  PROVE  used \subseteq used' /\ (used' = used \/ Starts(h))
<1>1. Starts(h) => used \subseteq used'
  BY DEF Starts, Begin
<1> QED
  BY <1>1 DEF Step, Put, PutFails, DeleteKeys, Persist, PersistFails, ReadBrand,
              UpdateBrand, AuditBrand, ReadRemaining, Remove, RemoveFails, ReadBrandFails, Crash, started

(* Where rows come to name an asset they did not name before *)
LEMMA MediaMoves ==
  ASSUME NEW h \in Handlers, NothingMoves(h), NEW c \in Components, NEW a \in MediaOf(c)'
  PROVE  a \in MediaOf(c) \/ (c \in spot[h] /\ a \in Fresh(h))
<1>1. CASE a \in DOMAIN clips'[c]
  BY <1>1 DEF NothingMoves, MediaOf
<1>2. CASE a \in AssetsIn(tier'[c])
  BY <1>2 DEF NothingMoves, MediaOf, AssetsIn
<1> QED
  BY <1>1, <1>2 DEF MediaOf, AssetsIn

LEMMA NamedMoves ==
  ASSUME NEW h \in Handlers, NothingMoves(h)
  PROVE  Named' \subseteq Named \union Fresh(h)
<1>1. ASSUME NEW a \in Named' PROVE a \in Named \union Fresh(h)
  <2>1. (\E c \in Components : a \in MediaOf(c)') \/ a \in brand' \/ a \in pages'
    BY DEF Named
  <2>2. CASE \E c \in Components : a \in MediaOf(c)'
    BY <2>2, MediaMoves, NamedFacts
  <2>3. CASE a \in brand' \/ a \in pages'
    BY <2>3, NamedFacts DEF NothingMoves
  <2> QED
    BY <2>1, <2>2, <2>3
<1> QED
  BY <1>1

LEMMA PuttingStep ==
  ASSUME TypeOK, Requests, Placed, Ordered, Putting, Owned, NEW h \in Handlers, Step(h)
  PROVE  Putting'
<1> DEFINE Fine(g) == /\ uploaded[g] \union queue[g] \subseteq KeysFor(g)
                      /\ pc[g] = "put" => KeysFor(g) \subseteq uploaded[g] \union queue[g]
                      /\ pc[g] \in {"read", "persist"} => KeysFor(g) \subseteq uploaded[g]
                      /\ pc[g] = "put" /\ kind[g] = "brand" => uploaded[g] = {}
                      /\ Pending(g) => uploaded[g] \subseteq objects
<1>1. LocalsOK /\ LocalsOK' /\ OthersWait(h)
  BY TypeLocals, LocalsStep
<1>2. \A g \in Handlers : Fine(g)
  BY DEF Putting
<1>3. ASSUME NEW g \in Handlers \ {h}, Pending(g) PROVE uploaded[g] \subseteq objects'
  <2>1. uploaded[g] \subseteq objects /\ uploaded[g] \subseteq KeysOf(target[g])
    BY <1>2, <1>3, KeysForFacts
  <2>2. KeysOf(target[g]) \intersect doomed[h] = {}
    <3>1. target[g] \intersect (target[h] \union AssetsIn(previous[h])) = {}
      BY <1>3 DEF Owned
    <3>2. doomed[h] \subseteq KeysOf(target[h] \union AssetsIn(previous[h]))
      BY DEF Owned
    <3> QED
      BY <3>1, <3>2, KeysFacts
  <2>3. objects \subseteq objects' \/ \E D \in SUBSET doomed[h] : objects' = objects \ D
    <3>1. Starts(h) => objects' = objects
      BY DEF Starts, Begin
    <3> QED
      BY <3>1 DEF Step, Put, PutFails, DeleteKeys, Persist, PersistFails, ReadBrand,
                  UpdateBrand, AuditBrand, ReadRemaining, Remove, RemoveFails, ReadBrandFails, Crash
  <2> QED
    BY <2>1, <2>2, <2>3
<1>4. \A g \in Handlers \ {h} : Fine(g)'
  BY <1>1, <1>2, <1>3 DEF OthersWait, SameRequest, KeysFor, Pending
<1>5. ASSUME Ended(h) PROVE Fine(h)'
  BY <1>5 DEF Ended, Pending
<1>6. ASSUME NEW K, Deleting(h, K) PROVE Fine(h)'
  BY <1>2, <1>6 DEF Deleting, Pending, KeysFor
<1>7. CASE Starts(h)
  <2>1. PICK k, C, A, K, R, n, where :
          Begin(h, k, C, A, K, R, n, where) /\ Fits(k, C, A, K, R, n, where)
    BY <1>7 DEF Starts
  <2>2. /\ pc[h] = "idle" /\ pc'[h] = where /\ kind'[h] = k
        /\ target'[h] = A /\ queue'[h] = K /\ uploaded'[h] = uploaded[h]
    BY <2>1, BeginEffect
  <2>3. uploaded[h] = {}
    <3>1. target[h] = {} /\ KeysFor(h) \subseteq KeysOf(target[h])
      BY <2>2, KeysForFacts DEF Requests, Active
    <3> QED
      BY <1>2, <3>1, KeysFacts
  <2>4. KeysFor(h)' = K /\ where \in {"put", "remove"}
    BY <2>1, <2>2 DEF KeysFor, Fits
  <2>5. Fine(h)'
    BY <2>2, <2>3, <2>4
  <2> QED
    BY <1>4, <2>5 DEF Putting
<1>8. CASE Put(h)
  <2>1. PICK k \in queue[h] :
          /\ objects' = objects \union {k}
          /\ uploaded' = [uploaded EXCEPT ![h] = @ \union {k}]
          /\ queue' = [queue EXCEPT ![h] = @ \ {k}]
          /\ Goto(h, IF queue[h] # {k} THEN "put"
                     ELSE IF kind[h] = "brand" THEN "read" ELSE "persist")
    BY <1>8 DEF Put
  <2>2. /\ pc[h] = "put" /\ Pending(h)
        /\ uploaded'[h] = uploaded[h] \union {k} /\ queue'[h] = queue[h] \ {k}
        /\ pc'[h] = IF queue[h] # {k} THEN "put"
                    ELSE IF kind[h] = "brand" THEN "read" ELSE "persist"
        /\ KeysFor(h)' = KeysFor(h) /\ kind'[h] = kind[h]
    BY <1>1, <1>8, <2>1 DEF Put, Goto, LocalsOK, KeysFor, Pending
  <2>3. kind[h] = "brand" => queue[h] = {k}
    BY <1>2, <2>1 DEF KeysFor, Requests, BrandKey
  <2>4. Fine(h)'
    BY <1>2, <2>1, <2>2, <2>3
  <2> QED
    BY <1>4, <2>4 DEF Putting
<1>9. CASE ReadBrand(h) \/ UpdateBrand(h) \/ ReadRemaining(h)
  <2>1. /\ kind'[h] = kind[h] /\ target'[h] = target[h] /\ objects' = objects
        /\ uploaded'[h] = uploaded[h] /\ queue'[h] = queue[h]
    BY <1>9 DEF ReadBrand, UpdateBrand, ReadRemaining, locals
  <2>2. (pc[h] = "read" /\ pc'[h] = "persist") \/ pc'[h] \in {"audit", "renumber"}
    BY <1>1, <1>9 DEF ReadBrand, UpdateBrand, ReadRemaining, Goto, LocalsOK
  <2>3. Fine(h)'
    BY <1>2, <2>1, <2>2 DEF KeysFor, Pending
  <2> QED
    BY <1>4, <2>3 DEF Putting
<1>10. CASE PutFails(h) \/ DeleteKeys(h) \/ Persist(h) \/ PersistFails(h)
            \/ AuditBrand(h) \/ Remove(h) \/ RemoveFails(h) \/ Crash(h)
            \/ ReadBrandFails(h)
  <2>1. Ended(h) \/ \E K : Deleting(h, K)
    BY <1>1, <1>10, ForgetEffect, CleanUpEffect
    DEF PutFails, DeleteKeys, Persist, PersistFails, AuditBrand, Remove, RemoveFails,
        ReadBrandFails, Crash, MisjudgedAsFailed
  <2>2. Fine(h)'
    BY <1>5, <1>6, <2>1
  <2> QED
    BY <1>4, <2>2 DEF Putting
<1> QED
  BY <1>7, <1>8, <1>9, <1>10 DEF Step

LEMMA FreshFacts ==
  ASSUME Requests, Owned, NEW h \in Handlers
  PROVE  /\ Fresh(h) \intersect Named = {} /\ Fresh(h) \subseteq target[h]
         /\ Fresh(h) # {} => Pending(h) /\ kind[h] \notin Removals
         /\ \A g \in Handlers : Fresh(h) \intersect AssetsIn(previous[g]) = {}
         /\ \A g \in Handlers \ {h} : Fresh(h) \intersect target[g] = {}
BY DEF Fresh, Owned, Requests

LEMMA EmptyClips ==
  ASSUME NEW o \in Orders, DOMAIN o = {}
  PROVE  o = NoClips
BY OrdersType DEF NoClips

LEMMA PlacedStep ==
  ASSUME TypeOK, Requests, Placed, Reading, Owned, Counting, NEW h \in Handlers, Step(h)
  PROVE  Placed'
<1> DEFINE Local(c) == /\ c \notin OfferBlocks => tier[c] = {}
                       /\ c \notin VideoBlocks => clips[c] = NoClips
                       /\ c \notin blocks => tier[c] = {} /\ clips[c] = NoClips
                       /\ \A r, s \in tier[c] : r = s
<1>1. \A c \in Components : Local(c)
  BY DEF Placed
<1>2. NothingMoves(h)
  BY StepMoves
<1>3. ASSUME NEW c \in Components PROVE Local(c)'
  <2>1. CASE UNCHANGED rows
    BY <1>1, <2>1 DEF rows
  <2>2. CASE Persist(h)
    <3>1. WriteRows(h)
      BY <2>2 DEF Persist
    <3>2. CASE kind[h] = "image"
      <4>1. PICK d \in OfferBlocks \intersect blocks, a \in Assets, i \in Assets :
              ImageWritten(h, d, a, i)
        BY <3>1, <3>2, ImageWrite
      <4> QED
        BY <1>1, <4>1 DEF ImageWritten
    <3>3. CASE kind[h] = "video"
      <4>1. PICK d \in VideoBlocks \intersect blocks, a \in Assets : VideoWritten(h, d, a)
        BY <3>1, <3>3, VideoWrite
      <4> QED
        BY <1>1, <4>1 DEF VideoWritten
    <3>4. CASE kind[h] \notin {"image", "video"}
      BY <1>1, <3>1, <3>4, PageWrite
    <3> QED
      BY <3>2, <3>3, <3>4
  <2>3. CASE UpdateBrand(h)
    BY <1>1, <2>3 DEF UpdateBrand
  <2>4. CASE Remove(h)
    <3>1. /\ tier'[c] \subseteq tier[c] /\ DOMAIN clips'[c] \subseteq DOMAIN clips[c]
          /\ c \notin blocks' /\ c \in blocks => tier'[c] = {} /\ clips'[c] = NoClips
      BY <2>4, RemoveEffect DEF Remove
    <3>2. clips'[c] \in Orders
      BY RowTypesStep
    <3>3. clips[c] = NoClips => clips'[c] = NoClips
      BY <3>1, <3>2, NoClipsType, EmptyClips
    <3> QED
      BY <1>1, <3>1, <3>3
  <2> QED
    BY <2>1, <2>2, <2>3, <2>4, RowSteps
<1>4. ASSUME NEW c \in Components PROVE MediaOf(c)' \intersect (brand' \union pages') = {}
  <2>1. SUFFICES ASSUME NEW a \in MediaOf(c)', a \in brand' \union pages' PROVE FALSE
    OBVIOUS
  <2>2. a \in MediaOf(c) \/ (c \in spot[h] /\ a \in Fresh(h))
    BY <1>2, MediaMoves
  <2>3. \/ a \in brand \union pages
        \/ kind[h] \in {"brand", "page"} /\ a \in Fresh(h)
    BY <1>2, <2>1 DEF NothingMoves
  <2>4. MediaOf(c) \intersect (brand \union pages) = {}
    BY DEF Placed
  <2>5. kind[h] \in {"brand", "page"} => c \notin spot[h]
    BY DEF Requests
  <2> QED
    BY <2>2, <2>3, <2>4, <2>5, FreshFacts, NamedFacts
<1>5. ASSUME NEW c \in Components, NEW d \in Components, c # d
      PROVE  MediaOf(c)' \intersect MediaOf(d)' = {}
  <2>1. SUFFICES ASSUME NEW a \in MediaOf(c)', a \in MediaOf(d)' PROVE FALSE
    OBVIOUS
  <2>2. /\ a \in MediaOf(c) \/ (c \in spot[h] /\ a \in Fresh(h))
        /\ a \in MediaOf(d) \/ (d \in spot[h] /\ a \in Fresh(h))
    BY <1>2, <2>1, MediaMoves
  <2>3. MediaOf(c) \intersect MediaOf(d) = {}
    BY <1>5 DEF Placed
  <2>4. ~(a \in Fresh(h) /\ {c, d} \subseteq spot[h])
    BY <1>5, FreshFacts DEF Requests, Removals
  <2> QED
    BY <2>2, <2>3, <2>4, FreshFacts, NamedFacts
<1>6. brand' \intersect pages' = {}
  <2>1. SUFFICES ASSUME NEW a \in brand', a \in pages' PROVE FALSE
    OBVIOUS
  <2>2. /\ a \in brand \/ (kind[h] = "brand" /\ a \in Fresh(h))
        /\ a \in pages \/ (kind[h] = "page" /\ a \in Fresh(h))
    BY <1>2, <2>1 DEF NothingMoves
  <2> QED
    BY <2>2, FreshFacts, NamedFacts DEF Placed
<1> QED
  BY <1>3, <1>4, <1>5, <1>6 DEF Placed

(* What a request has read was named when it read it. *)
LEMMA PreviousReads ==
  ASSUME TypeOK, Requests, NEW h \in Handlers, Step(h)
  PROVE  AssetsIn(previous'[h]) \subseteq AssetsIn(previous[h]) \union Named
<1>1. CASE Starts(h)
  <2>1. PICK k, C, A, K, R, n, where :
          Begin(h, k, C, A, K, R, n, where) /\ Fits(k, C, A, K, R, n, where)
    BY <1>1 DEF Starts
  <2>2. previous'[h] = R
    BY <2>1, BeginEffect
  <2>3. \A p \in R : \E c \in Components : p.asset \in MediaOf(c)
    BY <2>1 DEF Fits
  <2> QED
    BY <2>2, <2>3, NamedFacts DEF AssetsIn
<1>2. CASE Carries(h, BrandRows)
  BY <1>2, NamedFacts DEF Carries, AssetsIn, BrandRows
<1> QED
  BY <1>1, <1>2, StepCases DEF Ended, Deleting, Continues, AssetsIn

LEMMA PreviousMoves ==
  ASSUME TypeOK, Requests, NEW h \in Handlers, Step(h), Owned
  PROVE  Named \union target'[h] \union AssetsIn(previous'[h]) \subseteq used'
<1>1. /\ used \subseteq used' /\ Named \subseteq used
      /\ target[h] \union AssetsIn(previous[h]) \subseteq used
  BY UsedGrows DEF Owned
<1>2. AssetsIn(previous'[h]) \subseteq used'
  BY <1>1, PreviousReads
<1>3. target'[h] \subseteq target[h] \/ target'[h] \subseteq used'
  <2>1. Starts(h) => target'[h] \subseteq used'
    BY BeginEffect DEF Starts
  <2> QED
    BY <2>1, StepCases DEF Ended, Deleting, Continues, Carries
<1> QED
  BY <1>1, <1>2, <1>3

LEMMA DoomedStep ==
  ASSUME TypeOK, Requests, Owned, Putting, NEW h \in Handlers, Step(h)
  PROVE  doomed'[h] \subseteq KeysOf(target'[h] \union AssetsIn(previous'[h]))
<1> DEFINE mine == KeysOf(target[h] \union AssetsIn(previous[h]))
<1>1. doomed[h] \subseteq mine /\ uploaded[h] \subseteq mine
  <2>1. uploaded[h] \subseteq KeysOf(target[h])
    BY KeysForFacts DEF Putting
  <2> QED
    BY <2>1 DEF Owned, KeysOf
<1>2. /\ Replaced(h) \subseteq mine /\ FormerBrand(h) \subseteq mine
      /\ KeysOf(AssetsIn(previous[h])) \subseteq mine
  <2>1. FormerBrand(h) \subseteq KeysOf(AssetsIn(previous[h]))
    BY DEF FormerBrand, KeysOf, BrandKey
  <2> QED
    BY <2>1 DEF Replaced, KeysOf
<1>3. LocalsOK
  BY TypeLocals
<1>4. CASE Starts(h)
  <2>1. doomed'[h] = doomed[h] /\ pc[h] = "idle"
    BY <1>4, BeginEffect DEF Starts
  <2> QED
    BY <2>1 DEF Requests
<1>5. CASE \/ Put(h) \/ ReadBrand(h) \/ UpdateBrand(h) \/ ReadRemaining(h)
  BY <1>5 DEF Put, ReadBrand, UpdateBrand, ReadRemaining, locals, Requests
<1> HIDE DEF mine
<1>6. CASE PutFails(h) \/ DeleteKeys(h) \/ Persist(h) \/ PersistFails(h)
           \/ AuditBrand(h) \/ Remove(h) \/ RemoveFails(h) \/ Crash(h)
           \/ ReadBrandFails(h)
  <2>1. Ended(h) \/ \E K \in SUBSET mine : Deleting(h, K)
    BY <1>1, <1>2, <1>3, <1>6, ForgetEffect, CleanUpEffect
    DEF PutFails, DeleteKeys, Persist, PersistFails, AuditBrand, Remove, RemoveFails,
        ReadBrandFails, Crash, MisjudgedAsFailed
  <2> QED
    BY <2>1 DEF Ended, Deleting, mine
<1> QED
  BY <1>4, <1>5, <1>6 DEF Step

LEMMA OwnedStep ==
  ASSUME TypeOK, Requests, Placed, Reading, Ordered, Putting, Owned,
         NEW h \in Handlers, Step(h)
  PROVE  Owned'
<1>1. NothingMoves(h) /\ OthersWait(h) /\ used \subseteq used'
  BY StepMoves, LocalsStep, UsedGrows
<1>2. Named' \subseteq Named \union Fresh(h)
  BY <1>1, NamedMoves
<1>3. Named \union target'[h] \union AssetsIn(previous'[h]) \subseteq used'
  BY PreviousMoves
<1>4. /\ Named \subseteq used
      /\ \A g \in Handlers : target[g] \union AssetsIn(previous[g]) \subseteq used
      /\ \A g, f \in Handlers : g # f => target[g] \intersect target[f] = {}
  BY DEF Owned
<1>5. Named' \subseteq used'
  BY <1>1, <1>2, <1>4, FreshFacts
<1>6. \A g \in Handlers \ {h} : target'[g] = target[g] /\ previous'[g] = previous[g]
                                /\ doomed'[g] = doomed[g] /\ pc'[g] = pc[g]
  BY <1>1 DEF OthersWait, SameRequest
<1>7. \A g \in Handlers : target'[g] \union AssetsIn(previous'[g]) \subseteq used'
  BY <1>1, <1>3, <1>4, <1>6
<1>8. target'[h] = target[h] \/ target'[h] = {} \/ target'[h] \intersect used = {}
  <2>1. Starts(h) => target'[h] \intersect used = {}
    BY BeginEffect DEF Starts
  <2> QED
    BY <2>1, StepCases DEF Ended, Deleting, Continues, Carries
<1>9. \A g \in Handlers \ {h} : target'[g] \intersect target'[h] = {}
  BY <1>4, <1>6, <1>8
<1>10. \A g \in Handlers : doomed'[g] \subseteq KeysOf(target'[g] \union AssetsIn(previous'[g]))
  BY <1>6, DoomedStep DEF Owned
<1>11. ASSUME NEW g \in Handlers \ {h}, Pending(g)'
       PROVE  /\ target'[g] \intersect Named' = {}
              /\ \A f \in Handlers : target'[g] \intersect AssetsIn(previous'[f]) = {}
  <2>1. Pending(g) /\ target'[g] = target[g]
    BY <1>6, <1>11 DEF Pending
  <2>2. /\ target[g] \intersect Named = {}
        /\ \A f \in Handlers : target[g] \intersect AssetsIn(previous[f]) = {}
    BY <2>1 DEF Owned
  <2>3. AssetsIn(previous'[h]) \subseteq AssetsIn(previous[h]) \union Named
    BY PreviousReads
  <2> QED
    BY <1>2, <1>6, <2>1, <2>2, <2>3, FreshFacts
<1>12. ASSUME Pending(h)'
       PROVE  /\ target'[h] \intersect Named' = {}
              /\ \A f \in Handlers : target'[h] \intersect AssetsIn(previous'[f]) = {}
  <2>1. CASE Starts(h)
    <3>1. PICK k, C, A, K, R, n, where :
            Begin(h, k, C, A, K, R, n, where) /\ Fits(k, C, A, K, R, n, where)
      BY <2>1 DEF Starts
    <3>2. /\ target'[h] = A /\ A \intersect used = {} /\ pc[h] = "idle"
      BY <3>1, BeginEffect
    <3>3. Fresh(h) = {} /\ AssetsIn(previous[h]) = {}
      BY <3>2 DEF Fresh, Pending, Requests, Active, AssetsIn
    <3>4. AssetsIn(previous'[h]) \subseteq Named
      BY <3>3, PreviousReads
    <3> QED
      BY <1>2, <1>4, <1>6, <3>2, <3>3, <3>4
  <2>2. ASSUME UNCHANGED rows, Pending(h), target'[h] = target[h],
               AssetsIn(previous'[h]) \subseteq AssetsIn(previous[h]) \union Named
        PROVE  /\ target'[h] \intersect Named' = {}
               /\ \A f \in Handlers : target'[h] \intersect AssetsIn(previous'[f]) = {}
    <3>1. Named' = Named
      BY <2>2 DEF Named, MediaOf, rows
    <3> QED
      BY <1>6, <2>2, <3>1 DEF Owned
  <2>3. UNCHANGED rows \/ Starts(h)
    <3>1. ~UpdateBrand(h) /\ ~Persist(h) /\ ~Remove(h)
      BY <1>12, TypeLocals, ForgetEffect, CleanUpEffect
      DEF UpdateBrand, Persist, Remove, MisjudgedAsFailed, Ended, Deleting, Pending,
          Goto, LocalsOK
    <3> QED
      BY <3>1, RowSteps
  <2>4. CASE Carries(h, BrandRows)
    <3>1. AssetsIn(BrandRows) \subseteq Named
      BY NamedFacts DEF AssetsIn, BrandRows
    <3> QED
      BY <2>1, <2>2, <2>3, <2>4, <3>1 DEF Carries
  <2> QED
    BY <1>12, <2>1, <2>2, <2>3, <2>4, StepCases DEF Ended, Deleting, Continues, Pending
<1> QED
  BY <1>5, <1>6, <1>7, <1>9, <1>10, <1>11, <1>12 DEF Owned

LEMMA IdsMove ==
  ASSUME TypeOK, Requests, Placed, Reading, NEW h \in Handlers, Step(h),
         NEW c \in Components, NEW i \in Ids(tier'[c])
  PROVE  i \in Ids(tier[c]) \/ (c \in spot[h] /\ kind[h] = "image" /\ i \in Fresh(h))
<1>1. CASE UNCHANGED rows
  BY <1>1 DEF rows
<1>2. CASE Persist(h)
  <2>1. WriteRows(h) /\ Fresh(h) = target[h]
    BY <1>2 DEF Persist, Fresh, Pending
  <2>2. CASE kind[h] = "image"
    <3>1. PICK d \in OfferBlocks \intersect blocks, a \in Assets, j \in Assets :
            ImageWritten(h, d, a, j)
      BY <2>1, <2>2, ImageWrite
    <3>2. CASE c = d
      <4>1. i = j /\ d \in spot[h] /\ a \in Fresh(h)
        BY <2>1, <3>1, <3>2 DEF ImageWritten, Ids
      <4>2. j = a \/ j \in Ids(tier[d])
        BY <3>1 DEF ImageWritten, Ids
      <4> QED
        BY <2>2, <3>2, <4>1, <4>2
    <3>3. CASE c # d
      BY <3>1, <3>3 DEF ImageWritten
    <3> QED
      BY <3>2, <3>3
  <2>3. CASE kind[h] = "video"
    BY <2>1, <2>3, VideoWrite DEF VideoWritten
  <2>4. CASE kind[h] \notin {"image", "video"}
    BY <2>1, <2>4, PageWrite
  <2> QED
    BY <2>2, <2>3, <2>4
<1>3. CASE UpdateBrand(h)
  BY <1>3 DEF UpdateBrand
<1>4. CASE Remove(h)
  BY <1>4, RemoveEffect DEF Remove, Ids
<1> QED
  BY <1>1, <1>2, <1>3, <1>4, RowSteps

LEMMA IdentifiedStep ==
  ASSUME TypeOK, Requests, Placed, Reading, Ordered, Owned, Identified,
         NEW h \in Handlers, Step(h)
  PROVE  Identified'
<1>1. OthersWait(h) /\ used \subseteq used' /\ Fresh(h) \subseteq used
  BY LocalsStep, UsedGrows, FreshFacts DEF Owned
<1>2. \A g \in Handlers \ {h} : /\ target'[g] = target[g] /\ previous'[g] = previous[g]
                                /\ kind'[g] = kind[g] /\ spot'[g] = spot[g]
                                /\ Pending(g)' = Pending(g)
  BY <1>1 DEF OthersWait, SameRequest, Pending
<1>3. \A c \in Components : Ids(tier[c]) \subseteq used
  BY DEF Identified
<1>4. Fresh(h) # {} => Pending(h)
  BY FreshFacts
<1>5. \A c \in Components : Fresh(h) \intersect Ids(tier[c]) = {}
  BY <1>4, FreshFacts DEF Identified
<1>6. \A g \in Handlers : Fresh(h) \intersect Ids(previous[g]) = {}
  BY <1>4, FreshFacts DEF Identified
<1>7. \A c \in Components : Ids(tier'[c]) \subseteq used'
  BY <1>1, <1>3, IdsMove
<1>8. ASSUME NEW c \in Components, NEW d \in Components, c # d
      PROVE  Ids(tier'[c]) \intersect Ids(tier'[d]) = {}
  <2>1. SUFFICES ASSUME NEW i \in Ids(tier'[c]), i \in Ids(tier'[d]) PROVE FALSE
    OBVIOUS
  <2>2. /\ i \in Ids(tier[c]) \/ (c \in spot[h] /\ kind[h] = "image" /\ i \in Fresh(h))
        /\ i \in Ids(tier[d]) \/ (d \in spot[h] /\ kind[h] = "image" /\ i \in Fresh(h))
    BY <2>1, IdsMove
  <2>3. Ids(tier[c]) \intersect Ids(tier[d]) = {}
    BY <1>8 DEF Identified
  <2>4. ~(kind[h] = "image" /\ {c, d} \subseteq spot[h])
    BY <1>8 DEF Requests
  <2> QED
    BY <1>5, <2>2, <2>3, <2>4
<1>9. /\ Ids(previous'[h]) \subseteq used
      /\ \A g \in Handlers \ {h} : Pending(g) => target[g] \intersect Ids(previous'[h]) = {}
      /\ kind'[h] \in ReadsRows => \A c \in Components \ spot'[h] :
           Ids(tier'[c]) \intersect Ids(previous'[h]) = {}
  <2>1. CASE Starts(h)
    <3>1. PICK k, C, A, K, R, n, where :
            Begin(h, k, C, A, K, R, n, where) /\ Fits(k, C, A, K, R, n, where)
      BY <2>1 DEF Starts
    <3>2. previous'[h] = R /\ kind'[h] = k /\ spot'[h] = C /\ UNCHANGED tier
      BY <3>1, BeginEffect DEF rows
    <3>3. /\ C \subseteq Components
          /\ k \in ReadsRows => \A p \in R : \E c \in C : p \in tier[c]
          /\ k \notin ReadsRows => \A p \in R : p.id = p.asset
          /\ \A p \in R : \E c \in C : p.asset \in MediaOf(c)
      BY <3>1 DEF Fits
    <3>4. \A i \in Ids(R) : i \in Named \/ \E c \in C : i \in Ids(tier[c])
      BY <3>3, NamedFacts DEF Ids
    <3>5. k \in ReadsRows => \A i \in Ids(R) : \E c \in C : i \in Ids(tier[c])
      BY <3>3 DEF Ids
    <3>6. Ids(R) \subseteq used
      BY <1>3, <3>3, <3>4 DEF Owned
    <3>7. \A g \in Handlers : Pending(g) => target[g] \intersect Ids(R) = {}
      BY <3>3, <3>4 DEF Owned, Identified
    <3>8. k \in ReadsRows => \A c \in Components \ C : Ids(tier[c]) \intersect Ids(R) = {}
      BY <3>3, <3>5 DEF Identified
    <3> QED
      BY <3>2, <3>6, <3>7, <3>8
  <2>2. CASE Carries(h, BrandRows)
    <3>1. Ids(BrandRows) \subseteq Named
      BY NamedFacts DEF BrandRows, Ids
    <3> QED
      BY <2>2, <3>1 DEF Carries, Owned, ReadsRows
  <2>3. CASE Ended(h)
    BY <2>3 DEF Ended, Ids
  <2>4. CASE Continues(h) \/ \E K : Deleting(h, K)
    <3>1. kind'[h] = kind[h] /\ spot'[h] = spot[h] /\ previous'[h] = previous[h]
      BY <2>4 DEF Continues, Deleting
    <3>2. ASSUME kind[h] \in ReadsRows, NEW c \in Components \ spot[h]
          PROVE  Ids(tier'[c]) \intersect Ids(previous[h]) = {}
      BY <3>2, IdsMove DEF Identified
    <3> QED
      BY <3>1, <3>2 DEF Identified
  <2> QED
    BY <2>1, <2>2, <2>3, <2>4, StepCases
<1>10. \A g \in Handlers : Ids(previous'[g]) \subseteq used'
  BY <1>1, <1>2, <1>9 DEF Identified
<1>11. ASSUME NEW g \in Handlers \ {h}, Pending(g)'
       PROVE  /\ \A c \in Components : target'[g] \intersect Ids(tier'[c]) = {}
              /\ \A f \in Handlers : target'[g] \intersect Ids(previous'[f]) = {}
  <2>1. Pending(g) /\ target'[g] = target[g] /\ target[g] \intersect Fresh(h) = {}
    BY <1>2, <1>11, FreshFacts
  <2>2. \A c \in Components : target[g] \intersect Ids(tier'[c]) = {}
    BY <2>1, IdsMove DEF Identified
  <2> QED
    BY <1>2, <1>9, <2>1, <2>2 DEF Identified
<1>12. ASSUME Pending(h)'
       PROVE  /\ \A c \in Components : target'[h] \intersect Ids(tier'[c]) = {}
              /\ \A f \in Handlers : target'[h] \intersect Ids(previous'[f]) = {}
  <2>1. UNCHANGED rows \/ Starts(h)
    <3>1. ~UpdateBrand(h) /\ ~Persist(h) /\ ~Remove(h)
      BY <1>12, TypeLocals, ForgetEffect, CleanUpEffect
      DEF UpdateBrand, Persist, Remove, MisjudgedAsFailed, Ended, Deleting, Pending,
          Goto, LocalsOK
    <3> QED
      BY <3>1, RowSteps
  <2>2. CASE Starts(h)
    <3>1. target'[h] \intersect used = {} /\ UNCHANGED tier
      BY <2>2, BeginEffect DEF Starts, rows
    <3> QED
      BY <1>2, <1>3, <1>9, <3>1 DEF Identified
  <2>3. CASE ~Starts(h)
    <3>1. UNCHANGED tier
      BY <2>1, <2>3 DEF rows
    <3>2. CASE Carries(h, BrandRows)
      <4>1. Pending(h) /\ target'[h] = target[h] /\ previous'[h] = BrandRows
        BY <3>2 DEF Carries
      <4>2. Ids(BrandRows) \subseteq Named
        BY NamedFacts DEF BrandRows, Ids
      <4> QED
        BY <1>2, <3>1, <4>1, <4>2 DEF Owned, Identified
    <3>3. CASE Continues(h) /\ (Pending(h)' => Pending(h))
      BY <1>2, <1>12, <3>1, <3>3 DEF Continues, Identified
    <3> QED
      BY <1>12, <2>3, <3>2, <3>3, StepCases DEF Ended, Deleting, Pending
  <2> QED
    BY <2>2, <2>3
<1>13. ASSUME NEW g \in Handlers \ {h}, kind'[g] \in ReadsRows,
              NEW c \in Components \ spot'[g]
       PROVE  Ids(tier'[c]) \intersect Ids(previous'[g]) = {}
  BY <1>2, <1>6, <1>13, IdsMove DEF Identified
<1> QED
  BY <1>7, <1>8, <1>9, <1>10, <1>11, <1>12, <1>13 DEF Identified

(* A row that was read and is still named has not moved. *)
LEMMA NotMoved ==
  ASSUME TypeOK, Requests, Placed, NEW h \in Handlers, NothingMoves(h),
         NEW g \in Handlers, NEW p \in previous[g], StillThere(g, p),
         p.asset \in Named', p.asset \notin Fresh(h)
  PROVE  IF kind[g] = "brand" THEN p.asset \in brand'
         ELSE \E c \in spot[g] : /\ p.asset \in MediaOf(c)'
                                 /\ kind[g] \in ReadsRows => p \in tier'[c]
<1> DEFINE a == p.asset
<1>1. (\E c \in Components : a \in MediaOf(c)') \/ a \in brand' \/ a \in pages'
  BY DEF Named
<1>2. /\ \A c \in Components : a \in MediaOf(c)' => a \in MediaOf(c)
      /\ a \in brand' => a \in brand
      /\ a \in pages' => a \in pages
  BY MediaMoves DEF NothingMoves
<1>3. CASE kind[g] = "brand"
  <2>1. a \in brand
    BY <1>3 DEF StillThere
  <2> QED
    BY <1>1, <1>2, <1>3, <2>1 DEF Placed
<1>4. CASE kind[g] # "brand"
  <2>1. PICK c \in spot[g] : a \in MediaOf(c) /\ (kind[g] \in ReadsRows => p \in tier[c])
    BY <1>4 DEF StillThere
  <2>2. c \in Components
    BY DEF TypeOK
  <2>3. a \in MediaOf(c)'
    BY <1>1, <1>2, <2>1, <2>2 DEF Placed
  <2>4. ASSUME kind[g] \in ReadsRows PROVE p \in tier'[c]
    <3>1. clips[c] = NoClips
      BY <2>2, <2>4, AssetAssumption DEF Requests, Placed, AssetAssumption
    <3>2. a \notin DOMAIN clips'[c]
      BY <2>2, <3>1, NoClipsType DEF NothingMoves
    <3>3. PICK r \in tier'[c] : r.asset = a
      BY <2>3, <3>2 DEF MediaOf, AssetsIn
    <3>4. r \in tier[c]
      BY <2>2, <3>3 DEF NothingMoves
    <3> QED
      BY <2>1, <2>2, <2>4, <3>3, <3>4 DEF Placed
  <2> QED
    BY <1>4, <2>1, <2>3, <2>4
<1> QED
  BY <1>3, <1>4

(* Once a request has written or removed rows, those it had read are gone. *)
LEMMA Gone ==
  ASSUME TypeOK, Requests, Placed, Owned, Reading, NEW h \in Handlers, Step(h),
         Persist(h) \/ UpdateBrand(h) \/ Remove(h)
  PROVE  AssetsIn(previous[h]) \intersect Named' = {}
<1>1. SUFFICES ASSUME NEW p \in previous[h], p.asset \in Named' PROVE FALSE
  BY DEF AssetsIn
<1>2. NothingMoves(h)
  BY StepMoves
<1>3. p.asset \notin Fresh(h)
  BY FreshFacts DEF AssetsIn
<1>4. StillThere(h, p)
  BY <1>1, <1>2, <1>3, NamedMoves DEF Reading
<1>5. IF kind[h] = "brand" THEN p.asset \in brand'
      ELSE \E c \in spot[h] : /\ p.asset \in MediaOf(c)'
                              /\ kind[h] \in ReadsRows => p \in tier'[c]
  BY <1>1, <1>2, <1>3, <1>4, NotMoved
<1>6. CASE Persist(h)
  <2>1. WriteRows(h) /\ Fresh(h) = target[h]
    BY <1>6 DEF Persist, Fresh, Pending
  <2>2. kind[h] = "image"
    BY <2>1, PageWrite DEF Requests
  <2>3. PICK c \in OfferBlocks \intersect blocks, a \in Assets, i \in Assets :
          ImageWritten(h, c, a, i)
    BY <2>1, <2>2, ImageWrite
  <2>4. p \in tier'[c]
    BY <1>5, <2>2, <2>3 DEF ImageWritten, ReadsRows
  <2> QED
    BY <1>3, <2>1, <2>3, <2>4 DEF ImageWritten
<1>7. CASE UpdateBrand(h)
  BY <1>3, <1>5, <1>7 DEF UpdateBrand, Fresh, Pending
<1>8. CASE Remove(h)
  <2>1. kind[h] \in Removals /\ spot[h] \subseteq Components
    BY <1>8, RemoveEffect DEF Remove, TypeOK
  <2>2. PICK c \in spot[h] : p.asset \in MediaOf(c)'
    BY <1>5, <2>1 DEF Removals
  <2>3. MediaOf(c)' \intersect AssetsIn(previous[h]) = {}
    BY <1>8, <2>1, RemoveEffect DEF Remove
  <2> QED
    BY <2>2, <2>3 DEF AssetsIn
<1> QED
  BY <1>6, <1>7, <1>8

LEMMA SameNames ==
  ASSUME UNCHANGED rows
  PROVE  /\ Named' = Named /\ KeysNamed' = KeysNamed
         /\ \A c \in Components : MediaOf(c)' = MediaOf(c)
         /\ tier' = tier /\ clips' = clips /\ brand' = brand
BY DEF rows, Named, KeysNamed, MediaOf

LEMMA ReadingStep ==
  ASSUME TypeOK, Requests, Placed, Ordered, Owned, Reading, NEW h \in Handlers, Step(h)
  PROVE  Reading'
<1>1. NothingMoves(h) /\ OthersWait(h)
  BY StepMoves, LocalsStep
<1>2. \A g \in Handlers : Fresh(h) \intersect AssetsIn(previous[g]) = {}
  BY FreshFacts
<1>3. ASSUME NEW g \in Handlers, kind'[g] = kind[g], spot'[g] = spot[g],
             previous'[g] = previous[g], NEW p \in previous'[g], p.asset \in Named'
      PROVE  StillThere(g, p)'
  <2>1. p.asset \notin Fresh(h) /\ p \in previous[g]
    BY <1>2, <1>3 DEF AssetsIn
  <2>2. StillThere(g, p)
    BY <1>1, <1>3, <2>1, NamedMoves DEF Reading
  <2>3. IF kind[g] = "brand" THEN p.asset \in brand'
        ELSE \E c \in spot[g] : /\ p.asset \in MediaOf(c)'
                                /\ kind[g] \in ReadsRows => p \in tier'[c]
    BY <1>1, <1>3, <2>1, <2>2, NotMoved
  <2> QED
    BY <1>3, <2>3 DEF StillThere
<1>4. ASSUME NEW p \in previous'[h], p.asset \in Named' PROVE StillThere(h, p)'
  <2>1. CASE Starts(h)
    <3>1. PICK k, C, A, K, R, n, where :
            Begin(h, k, C, A, K, R, n, where) /\ Fits(k, C, A, K, R, n, where)
      BY <2>1 DEF Starts
    <3>2. previous'[h] = R /\ kind'[h] = k /\ spot'[h] = C /\ UNCHANGED rows
      BY <3>1, BeginEffect
    <3>3. C \subseteq Components /\ k # "brand"
      BY <1>4, <3>1, <3>2 DEF Fits
    <3>4. \E c \in C : p.asset \in MediaOf(c) /\ (k \in ReadsRows => p \in tier[c])
      BY <1>4, <3>1, <3>2 DEF Fits
    <3> QED
      BY <3>2, <3>3, <3>4, SameNames DEF StillThere
  <2>2. CASE Carries(h, BrandRows)
    BY <1>4, <2>2, SameNames DEF Carries, BrandRows, StillThere
  <2>3. CASE Ended(h)
    BY <1>4, <2>3 DEF Ended
  <2>4. CASE Continues(h) \/ \E K : Deleting(h, K)
    BY <1>3, <1>4, <2>4 DEF Continues, Deleting
  <2> QED
    BY <2>1, <2>2, <2>3, <2>4, StepCases
<1>5. \A g \in Handlers \ {h} : /\ kind'[g] = kind[g] /\ spot'[g] = spot[g]
                                /\ previous'[g] = previous[g] /\ pc'[g] = pc[g]
  BY <1>1 DEF OthersWait, SameRequest
<1>6. ASSUME NEW g \in Handlers \ {h}, pc'[g] = "audit"
      PROVE  AssetsIn(previous'[g]) \intersect Named' = {}
  BY <1>1, <1>2, <1>5, <1>6, NamedMoves DEF Reading
<1>7. ASSUME pc'[h] = "audit" PROVE AssetsIn(previous'[h]) \intersect Named' = {}
  <2>1. UpdateBrand(h)
    <3>1. ASSUME Starts(h) PROVE pc'[h] \in {"put", "remove"}
      <4>1. PICK k, C, A, K, R, n, where :
              Begin(h, k, C, A, K, R, n, where) /\ Fits(k, C, A, K, R, n, where)
        BY <3>1 DEF Starts
      <4>2. where \in {"put", "remove"}
        BY <4>1 DEF Fits
      <4> QED
        BY <4>1, <4>2, BeginEffect
    <3>2. ~Ended(h) /\ ~(\E K : Deleting(h, K))
      BY <1>7 DEF Ended, Deleting
    <3> QED
      BY <1>7, <3>1, <3>2, TypeLocals, ForgetEffect, CleanUpEffect
      DEF Step, Put, PutFails, DeleteKeys, Persist, PersistFails, ReadBrand, AuditBrand,
          ReadRemaining, Remove, RemoveFails, ReadBrandFails, Crash, MisjudgedAsFailed, Goto, LocalsOK
  <2>2. previous'[h] = previous[h]
    BY <2>1 DEF UpdateBrand, locals
  <2> QED
    BY <2>1, <2>2, Gone
<1> QED
  BY <1>3, <1>4, <1>5, <1>6, <1>7 DEF Reading

LEMMA KeysMove ==
  ASSUME TypeOK, Requests, Placed, Owned, Reading, NEW h \in Handlers, Step(h)
  PROVE  /\ KeysNamed' \subseteq KeysNamed \union (IF Pending(h) THEN KeysFor(h) ELSE {})
         /\ KeysNamed' \subseteq KeysNamed \union KeysOf(Fresh(h))
<1>1. NothingMoves(h)
  BY StepMoves
<1>2. Fresh(h) = IF Pending(h) THEN target[h] ELSE {}
  BY DEF Fresh
<1>3. ASSUME NEW a \in brand', a \notin brand
      PROVE  kind[h] = "brand" /\ a \in Fresh(h) /\ Pending(h)
  BY <1>1, <1>2, <1>3 DEF NothingMoves
<1>4. ASSUME NEW a \in Named', a \notin brand'
      PROVE  a \in Named \ brand \/ (a \in Fresh(h) /\ kind[h] # "brand" /\ Pending(h))
  <2>1. (\E c \in Components : a \in MediaOf(c)') \/ a \in pages'
    BY <1>4 DEF Named
  <2>2. CASE a \in pages'
    <3>1. a \in pages \/ (kind[h] = "page" /\ a \in Fresh(h))
      BY <1>1, <2>2 DEF NothingMoves
    <3> QED
      BY <1>2, <3>1, NamedFacts DEF Placed
  <2>3. ASSUME NEW c \in Components, a \in MediaOf(c)'
        PROVE  a \in Named \ brand \/ (a \in Fresh(h) /\ kind[h] # "brand" /\ Pending(h))
    <3>1. a \in MediaOf(c) \/ (c \in spot[h] /\ a \in Fresh(h))
      BY <1>1, <2>3, MediaMoves
    <3>2. kind[h] = "brand" => c \notin spot[h]
      BY DEF Requests
    <3>3. MediaOf(c) \intersect brand = {} /\ MediaOf(c) \subseteq Named
      BY NamedFacts DEF Placed
    <3> QED
      BY <1>2, <3>1, <3>2, <3>3
  <2> QED
    BY <2>1, <2>2, <2>3
<1>5. ASSUME NEW k \in KeysNamed'
      PROVE  k \in KeysNamed \/ (k \in KeysFor(h) /\ Pending(h) /\ k \in KeysOf(Fresh(h)))
  <2>1. (\E a \in brand' : k = BrandKey(a)) \/ k \in KeysOf(Named' \ brand')
    BY DEF KeysNamed, KeysOf, BrandKey
  <2>2. CASE \E a \in brand' : k = BrandKey(a)
    <3>1. PICK a \in brand' : k = BrandKey(a)
      BY <2>2
    <3>2. CASE a \in brand
      BY <3>1, <3>2 DEF KeysNamed
    <3>3. CASE a \notin brand
      <4>1. kind[h] = "brand" /\ a \in Fresh(h) /\ Pending(h) /\ a \in target[h]
        BY <1>2, <1>3, <3>3
      <4> QED
        BY <3>1, <4>1, KeysFacts DEF KeysFor
    <3> QED
      BY <3>2, <3>3
  <2>3. CASE k \in KeysOf(Named' \ brand')
    <3>1. PICK a \in Named' \ brand', j \in {1, 2} : k = <<a, j>>
      BY <2>3 DEF KeysOf
    <3>2. a \in Named \ brand \/ (a \in Fresh(h) /\ kind[h] # "brand" /\ Pending(h))
      BY <1>4
    <3> QED
      BY <1>2, <3>1, <3>2 DEF KeysNamed, KeysFor, KeysOf
  <2> QED
    BY <2>1, <2>2, <2>3
<1> QED
  BY <1>5

LEMMA CleaningStep ==
  ASSUME TypeOK, Requests, Placed, Owned, Ordered, Reading, Putting, Cleaning,
         NEW h \in Handlers, Step(h)
  PROVE  Cleaning'
<1>1. OthersWait(h) /\ KeysNamed' \subseteq KeysNamed \union KeysOf(Fresh(h))
  BY LocalsStep, KeysMove
<1>2. doubtful \subseteq doubtful'
  <2>1. Starts(h) => doubtful' = doubtful
    BY DEF Starts, Begin
  <2> QED
    BY <2>1 DEF Step, Put, PutFails, DeleteKeys, Persist, PersistFails, ReadBrand,
                UpdateBrand, AuditBrand, ReadRemaining, Remove, RemoveFails, ReadBrandFails, Crash,
                MisjudgedAsFailed, history
<1>3. ASSUME NEW g \in Handlers, NEW k \in doomed[g], k \in KeysNamed'
      PROVE  KeyAsset(k) \in doubtful'
  <2>1. k \notin KeysOf(Fresh(h))
    <3>1. doomed[g] \subseteq KeysOf(target[g] \union AssetsIn(previous[g]))
      BY DEF Owned
    <3>2. g # h => Fresh(h) \intersect (target[g] \union AssetsIn(previous[g])) = {}
      BY FreshFacts
    <3>3. g = h => Fresh(h) = {}
      BY <1>3 DEF Fresh, Pending, Requests
    <3> QED
      BY <1>3, <3>1, <3>2, <3>3, KeysFacts
  <2> QED
    BY <1>1, <1>2, <1>3, <2>1 DEF Cleaning
<1>4. ASSUME NEW k \in uploaded[h], k \in KeysNamed', UNCHANGED rows, Pending(h) PROVE FALSE
  <2>1. KeyAsset(k) \in target[h]
    BY <1>4, KeysForFacts DEF Putting
  <2> QED
    BY <1>4, <2>1, SameNames, NamedFacts DEF Owned
<1>5. ASSUME NEW k \in KeysOf(AssetsIn(previous[h])), k \in KeysNamed'
      PROVE  KeyAsset(k) \in AssetsIn(previous[h]) \intersect Named'
  BY <1>5 DEF KeysNamed, KeysOf, KeyAsset, BrandKey, Named
<1>6. ASSUME NEW k \in doomed'[h], k \in KeysNamed'
      PROVE  KeyAsset(k) \in doubtful'
  <2>1. CASE PutFails(h) \/ PersistFails(h)
    <3>1. Ended(h) \/ Deleting(h, uploaded[h])
      BY <2>1, TypeLocals, ForgetEffect, CleanUpEffect DEF PutFails, PersistFails
    <3>2. UNCHANGED rows /\ Pending(h)
      BY <2>1 DEF PutFails, PersistFails, Pending
    <3> QED
      BY <1>4, <1>6, <3>1, <3>2 DEF Ended, Deleting
  <2>2. ASSUME NEW K, MisjudgedAsFailed(h, K) PROVE KeyAsset(k) \in doubtful'
    <3>1. k \in uploaded[h] /\ doubtful' = doubtful \union target[h]
      BY <1>6, <2>2, TypeLocals, CleanUpEffect DEF MisjudgedAsFailed, Deleting
    <3> QED
      BY <3>1, KeysForFacts DEF Putting
  <2>3. CASE Persist(h)
    <3>1. ASSUME CleanUp(h, Replaced(h)) PROVE FALSE
      <4>1. k \in KeysOf(AssetsIn(previous[h]))
        BY <1>6, <3>1, TypeLocals, CleanUpEffect DEF Deleting, Replaced
      <4> QED
        BY <1>5, <1>6, <2>3, <4>1, Gone
    <3> QED
      BY <2>2, <2>3, <3>1 DEF Persist
  <2>4. CASE AuditBrand(h)
    <3>1. ASSUME CleanUp(h, FormerBrand(h)) PROVE FALSE
      <4>1. k \in KeysOf(AssetsIn(previous[h]))
        BY <1>6, <3>1, TypeLocals, CleanUpEffect
        DEF Deleting, FormerBrand, KeysOf, BrandKey
      <4>2. UNCHANGED rows /\ pc[h] = "audit"
        BY <2>4 DEF AuditBrand
      <4> QED
        BY <1>5, <1>6, <4>1, <4>2, SameNames DEF Reading
    <3> QED
      BY <2>2, <2>4, <3>1 DEF AuditBrand
  <2>5. CASE Remove(h)
    <3>1. Ended(h) \/ Deleting(h, KeysOf(AssetsIn(previous[h])))
      BY <2>5, TypeLocals, ForgetEffect, CleanUpEffect DEF Remove
    <3> QED
      BY <1>5, <1>6, <2>5, <3>1, Gone DEF Ended, Deleting
  <2>6. CASE \/ Starts(h) \/ Put(h) \/ ReadBrand(h) \/ UpdateBrand(h) \/ ReadRemaining(h)
    <3>1. doomed'[h] = doomed[h]
      BY <2>6, BeginEffect DEF Starts, Put, ReadBrand, UpdateBrand, ReadRemaining, locals
    <3> QED
      BY <1>3, <1>6, <3>1
  <2>7. CASE DeleteKeys(h) \/ RemoveFails(h) \/ Crash(h)
             \/ ReadBrandFails(h)
    <3>1. Ended(h)
      BY <2>7, TypeLocals, ForgetEffect DEF DeleteKeys, RemoveFails, ReadBrandFails, Crash
    <3> QED
      BY <1>6, <3>1 DEF Ended
  <2> QED
    BY <2>1, <2>3, <2>4, <2>5, <2>6, <2>7 DEF Step
<1>7. \A g \in Handlers \ {h} : doomed'[g] = doomed[g]
  BY <1>1 DEF OthersWait, SameRequest
<1>8. ASSUME NEW g \in Handlers, NEW k \in doomed'[g] \intersect KeysNamed'
      PROVE  KeyAsset(k) \in doubtful'
  BY <1>3, <1>6, <1>7, <1>8
<1> QED
  BY <1>8 DEF Cleaning, KeyAsset

LEMMA ObjectsStep ==
  ASSUME TypeOK, Requests, Placed, Owned, Reading, Putting, Cleaning, RowsHaveObjects,
         NEW h \in Handlers, Step(h)
  PROVE  RowsHaveObjects'
<1>1. doubtful \subseteq doubtful'
  <2>1. Starts(h) => doubtful' = doubtful
    BY DEF Starts, Begin
  <2> QED
    BY <2>1 DEF Step, Put, PutFails, DeleteKeys, Persist, PersistFails, ReadBrand,
                UpdateBrand, AuditBrand, ReadRemaining, Remove, RemoveFails, ReadBrandFails, Crash,
                MisjudgedAsFailed, history
<1>2. objects \ doomed[h] \subseteq objects'
  <2>1. Starts(h) => objects' = objects
    BY DEF Starts, Begin
  <2> QED
    BY <2>1 DEF Step, Put, PutFails, DeleteKeys, Persist, PersistFails, ReadBrand,
                UpdateBrand, AuditBrand, ReadRemaining, Remove, RemoveFails, ReadBrandFails, Crash
<1>3. ASSUME NEW k \in KeysNamed', k \notin KeysNamed PROVE k \in objects'
  <2>1. k \in KeysFor(h) /\ Pending(h) /\ ~(UNCHANGED rows)
    BY <1>3, KeysMove, SameNames
  <2>2. Persist(h) \/ UpdateBrand(h)
    BY <2>1, RowSteps, RemoveEffect DEF Remove, Pending
  <2>3. pc[h] = "persist" /\ objects' = objects
    BY <2>2 DEF Persist, UpdateBrand
  <2> QED
    BY <2>1, <2>3 DEF Putting
<1>4. ASSUME NEW k \in KeysNamed' PROVE k \in objects' \/ KeyAsset(k) \in doubtful'
  <2>1. CASE k \in KeysNamed
    BY <1>1, <1>2, <2>1 DEF RowsHaveObjects, Cleaning
  <2> QED
    BY <1>3, <2>1
<1> QED
  BY <1>4 DEF RowsHaveObjects, KeyAsset

LEMMA ContestedGrows ==
  ASSUME TypeOK, NEW h \in Handlers, Step(h)
  PROVE  contested \subseteq contested'
<1>1. Starts(h) => contested \subseteq contested'
  BY BeginEffect DEF Starts
<1> QED
  BY <1>1 DEF Step, Put, PutFails, DeleteKeys, Persist, PersistFails, ReadBrand,
              UpdateBrand, AuditBrand, ReadRemaining, Remove, RemoveFails, ReadBrandFails, Crash,
              MisjudgedAsFailed, history

LEMMA OverlapsStep ==
  ASSUME TypeOK, Requests, Ordered, Placed, Overlaps, NEW h \in Handlers, Step(h)
  PROVE  Overlaps'
<1>1. OthersWait(h) /\ contested \subseteq contested'
  BY LocalsStep, ContestedGrows
<1>2. \A g \in Handlers \ {h} : /\ spot'[g] = spot[g] /\ kind'[g] = kind[g]
                                /\ target'[g] = target[g] /\ pc'[g] = pc[g]
  BY <1>1 DEF OthersWait, SameRequest
<1>3. ASSUME NEW g \in Handlers, NEW f \in Handlers, g # f, Active(g)', Active(f)',
             Meet(g, f)'
      PROVE  spot'[g] \union target'[g] \subseteq contested'
  <2>1. CASE Starts(h) /\ h \in {g, f}
    <3>1. PICK k, C, A, K, R, n, where :
            Begin(h, k, C, A, K, R, n, where) /\ Fits(k, C, A, K, R, n, where)
      BY <2>1 DEF Starts
    <3>2. /\ spot'[h] = C /\ target'[h] = A /\ kind'[h] = k
          /\ \A e \in Handlers \ {h} :
               pc[e] # "idle" /\ \/ spot[e] \intersect C # {}
                                 \/ kind[e] = "brand" /\ k = "brand"
               => C \union A \union spot[e] \union target[e] \subseteq contested'
      BY <3>1, BeginEffect
    <3>3. PICK e \in Handlers \ {h} : {e, h} = {g, f}
      BY <1>3, <2>1
    <3>4. C \union A \union spot[e] \union target[e] \subseteq contested'
      <4>1. pc[e] # "idle" /\ \/ spot[e] \intersect C # {}
                              \/ kind[e] = "brand" /\ k = "brand"
        BY <1>2, <1>3, <3>2, <3>3 DEF Meet, Active
      <4> QED
        BY <3>2, <4>1
    <3> QED
      BY <1>2, <3>2, <3>3, <3>4
  <2>2. CASE ~Starts(h) \/ h \notin {g, f}
    <3>1. h \in {g, f} => /\ spot'[h] = spot[h] /\ kind'[h] = kind[h]
                          /\ target'[h] = target[h] /\ Active(h)
      BY <1>3, <2>2, StepCases DEF Ended, Deleting, Continues, Carries, Active
    <3>2. Active(g) /\ Active(f) /\ Meet(g, f)
      BY <1>2, <1>3, <3>1 DEF Meet, Active
    <3>3. spot[g] \union target[g] \subseteq contested
      BY <1>3, <3>2 DEF Overlaps
    <3> QED
      BY <1>1, <1>2, <3>1, <3>3
  <2> QED
    BY <2>1, <2>2
<1> QED
  BY <1>3 DEF Overlaps

LEMMA RecordedStep ==
  ASSUME TypeOK, Requests, Ordered, Placed, Owned, Reading, Recorded,
         NEW h \in Handlers, Step(h)
  PROVE  Recorded'
<1>1. /\ OthersWait(h) /\ contested \subseteq contested' /\ NothingMoves(h)
      /\ \A g \in Handlers : Current(g)
  BY LocalsStep, ContestedGrows, StepMoves DEF Recorded
<1>2. Overlaps'
  BY OverlapsStep DEF Recorded
<1>3. ASSUME NEW g \in Handlers \ {h} PROVE Current(g)'
  <2>1. /\ spot'[g] = spot[g] /\ kind'[g] = kind[g] /\ previous'[g] = previous[g]
        /\ pc'[g] = pc[g]
    BY <1>1 DEF OthersWait, SameRequest
  <2>2. ASSUME Active(g), Meet(h, g), Pending(h) PROVE Fresh(h) \subseteq contested
    <3>1. Active(h)
      BY <2>2 DEF Active, Pending
    <3> QED
      BY <2>2, <3>1, FreshFacts DEF Recorded, Overlaps
  <2>3. ASSUME Active(g), NEW c \in spot[g], c \in spot[h], NEW a \in Fresh(h)
        PROVE  a \in contested
    BY <2>2, <2>3, FreshFacts DEF Meet
  <2>4. ASSUME pc[g] \in {"put", "persist", "remove"}, kind[g] \in ReadsRows,
               NEW c \in spot[g], NEW a \in AssetsIn(tier'[c])
        PROVE  a \in AssetsIn(previous[g]) \union contested
    <3>1. c \in Components /\ Active(g)
      BY <2>4 DEF TypeOK, Active
    <3>2. PICK r \in tier'[c] : r.asset = a
      BY <2>4 DEF AssetsIn
    <3>3. CASE r \in tier[c]
      BY <1>1, <2>4, <3>2, <3>3 DEF Current, AssetsIn
    <3>4. CASE r \notin tier[c]
      BY <1>1, <2>3, <3>1, <3>2, <3>4 DEF NothingMoves
    <3> QED
      BY <3>3, <3>4
  <2>5. ASSUME pc[g] = "remove", kind[g] \in {"drop", "load"},
               NEW c \in spot[g], NEW a \in MediaOf(c)'
        PROVE  a \in AssetsIn(previous[g]) \union contested
    <3>1. c \in Components /\ Active(g)
      BY <2>5 DEF TypeOK, Active
    <3>2. a \in MediaOf(c) \/ (c \in spot[h] /\ a \in Fresh(h))
      BY <1>1, <2>5, <3>1, MediaMoves
    <3> QED
      BY <1>1, <2>3, <2>5, <3>1, <3>2 DEF Current
  <2>6. ASSUME pc[g] = "persist", kind[g] = "brand", NEW a \in brand'
        PROVE  a \in AssetsIn(previous[g]) \union contested
    <3>1. a \in brand \/ (kind[h] = "brand" /\ a \in Fresh(h))
      BY <1>1 DEF NothingMoves
    <3>2. Active(g)
      BY <2>6 DEF Active
    <3> QED
      BY <1>1, <2>2, <2>6, <3>1, <3>2, FreshFacts DEF Current, Meet
  <2> QED
    BY <1>1, <2>1, <2>4, <2>5, <2>6 DEF Current
<1>4. Current(h)'
  <2>1. CASE Starts(h)
    <3>1. PICK k, C, A, K, R, n, where :
            Begin(h, k, C, A, K, R, n, where) /\ Fits(k, C, A, K, R, n, where)
      BY <2>1 DEF Starts
    <3>2. /\ spot'[h] = C /\ kind'[h] = k /\ previous'[h] = R /\ UNCHANGED rows
          /\ pc'[h] = where
      BY <3>1, BeginEffect
    <3>3. /\ C \subseteq Components /\ where \in {"put", "remove"}
          /\ k \in ReadsRows => \A c \in C : AssetsIn(tier[c]) \subseteq AssetsIn(R)
          /\ k \in {"drop", "load"} => \A c \in C : MediaOf(c) \subseteq AssetsIn(R)
      BY <3>1 DEF Fits
    <3> QED
      BY <3>2, <3>3, SameNames DEF Current
  <2>2. CASE Ended(h) \/ \E K : Deleting(h, K)
    BY <2>2 DEF Ended, Deleting, Current
  <2>3. CASE Carries(h, BrandRows)
    <3>1. brand \subseteq AssetsIn(BrandRows)
      <4>1. ASSUME NEW a \in brand PROVE a \in AssetsIn(BrandRows)
        <5>1. [id |-> a, asset |-> a] \in BrandRows /\ [id |-> a, asset |-> a].asset = a
          BY DEF BrandRows
        <5> QED
          BY <5>1 DEF AssetsIn
      <4> QED
        BY <4>1
    <3> QED
      BY <2>3, <3>1, SameNames DEF Carries, Current, ReadsRows
  <2>4. CASE Continues(h)
    <3>1. /\ spot'[h] = spot[h] /\ kind'[h] = kind[h] /\ previous'[h] = previous[h]
          /\ pc'[h] \in {"put", "persist", "remove"} =>
               /\ pc[h] = "put" /\ pc'[h] # "remove" /\ UNCHANGED rows
               /\ kind[h] = "brand" => pc'[h] = "put"
      BY <2>4 DEF Continues
    <3>2. CASE pc'[h] \in {"put", "persist", "remove"}
      <4>1. /\ pc[h] = "put" /\ pc'[h] # "remove" /\ tier' = tier
            /\ kind[h] = "brand" => pc'[h] = "put"
        BY <3>1, <3>2, SameNames
      <4>2. kind[h] \in ReadsRows => \A c \in spot[h] :
              AssetsIn(tier[c]) \subseteq AssetsIn(previous[h]) \union contested
        BY <1>1, <4>1 DEF Current
      <4> QED
        BY <1>1, <3>1, <4>1, <4>2 DEF Current
    <3>3. CASE pc'[h] \notin {"put", "persist", "remove"}
      BY <3>3 DEF Current
    <3> QED
      BY <3>2, <3>3
  <2> QED
    BY <2>1, <2>2, <2>3, <2>4, StepCases
<1> QED
  BY <1>2, <1>3, <1>4 DEF Recorded

(* A key that no row names any more was a component's, or the brand's. *)
LEMMA LostKeys ==
  ASSUME UNCHANGED brand, pages \subseteq pages', NEW k \in KeysNamed, k \notin KeysNamed'
  PROVE  /\ k \in KeysOf({KeyAsset(k)})
         /\ \E c \in Components : KeyAsset(k) \in MediaOf(c) /\ KeyAsset(k) \notin MediaOf(c)'
<1> DEFINE a == KeyAsset(k)
<1>1. a \notin brand
  BY NamedFacts DEF KeysNamed
<1>2. k \in KeysOf(Named) /\ a \in Named
  BY <1>1, NamedFacts
<1>3. k \in KeysOf({a})
  BY <1>2 DEF KeysOf, KeyAsset
<1>4. a \notin Named'
  <2>1. a \notin Named' \ brand'
    BY <1>3 DEF KeysNamed, KeysOf
  <2> QED
    BY <1>1, <2>1
<1> HIDE DEF a
<1>5. PICK c \in Components : a \in MediaOf(c)
  BY <1>1, <1>2, <1>4, NamedFacts DEF Named
<1>6. a \notin MediaOf(c)'
  BY <1>4 DEF Named
<1> QED
  BY <1>3, <1>5, <1>6 DEF a

LEMMA PersistLoses ==
  ASSUME TypeOK, Requests, Placed, Recorded, NEW h \in Handlers, Persist(h),
         NEW k \in KeysNamed, k \notin KeysNamed'
  PROVE  k \in Replaced(h) \/ KeyAsset(k) \in contested
<1>1. WriteRows(h) /\ pc[h] = "persist"
  BY DEF Persist
<1>2. CASE kind[h] = "image"
  <2>1. PICK c \in OfferBlocks \intersect blocks, a \in Assets, i \in Assets :
          ImageWritten(h, c, a, i)
    BY <1>1, <1>2, ImageWrite
  <2>2. PICK d \in Components : KeyAsset(k) \in MediaOf(d) /\ KeyAsset(k) \notin MediaOf(d)'
    BY <2>1, LostKeys DEF ImageWritten
  <2>3. d = c /\ KeyAsset(k) \in AssetsIn(tier[c])
    BY <2>1, <2>2 DEF ImageWritten, MediaOf
  <2>4. AssetsIn(tier[c]) \subseteq AssetsIn(previous[h]) \union contested
    BY <1>1, <1>2, <2>1 DEF Recorded, Current, ReadsRows, ImageWritten
  <2>5. k \in KeysOf({KeyAsset(k)})
    BY <2>1, LostKeys DEF ImageWritten
  <2> QED
    BY <2>3, <2>4, <2>5 DEF Replaced, KeysOf
<1>3. CASE kind[h] = "video"
  <2>1. PICK c \in VideoBlocks \intersect blocks, a \in Assets : VideoWritten(h, c, a)
    BY <1>1, <1>3, VideoWrite
  <2>2. PICK d \in Components : KeyAsset(k) \in MediaOf(d) /\ KeyAsset(k) \notin MediaOf(d)'
    BY <2>1, LostKeys DEF VideoWritten
  <2> QED
    BY <2>1, <2>2 DEF VideoWritten, MediaOf
<1>4. CASE kind[h] \notin {"image", "video"}
  <2>1. UNCHANGED <<tier, clips, brand>> /\ pages \subseteq pages'
    BY <1>1, <1>4, PageWrite
  <2>2. PICK d \in Components : KeyAsset(k) \in MediaOf(d) /\ KeyAsset(k) \notin MediaOf(d)'
    BY <2>1, LostKeys
  <2> QED
    BY <2>1, <2>2 DEF MediaOf
<1> QED
  BY <1>2, <1>3, <1>4

LEMMA RemoveLoses ==
  ASSUME TypeOK, Requests, Placed, Reading, Identified, Recorded, NEW h \in Handlers,
         Remove(h), NEW k \in KeysNamed, k \notin KeysNamed'
  PROVE  k \in KeysOf(AssetsIn(previous[h])) \/ KeyAsset(k) \in contested
<1> DEFINE a == KeyAsset(k)
<1>1. RemoveRows(h) /\ UNCHANGED <<brand, pages>>
  BY DEF Remove
<1>2. k \in KeysOf({a})
  BY <1>1, LostKeys
<1>3. PICK c \in Components : a \in MediaOf(c) /\ a \notin MediaOf(c)'
  BY <1>1, LostKeys
<1>4. a \in AssetsIn(previous[h]) \union contested
  <2> HIDE DEF a
  <2>1. CASE kind[h] = "unvideo"
    <3>1. UNCHANGED tier /\ clips' = [d \in Components |->
                                        IF d \in spot[h] THEN Renumbering(h, d) ELSE clips[d]]
      BY <1>1, <2>1, RemoveEffect DEF Removals
    <3> QED
      BY <1>3, <3>1 DEF MediaOf, Renumbering
  <2>2. CASE kind[h] = "unimage"
    <3>1. /\ UNCHANGED clips /\ pc[h] = "remove"
          /\ \A d \in Components :
               tier'[d] = {r \in tier[d] : \A p \in previous[h] : r.id # p.id}
      BY <1>1, <2>2, RemoveEffect
    <3>2. PICK r \in tier[c] : r.asset = a /\ r \notin tier'[c]
      BY <1>3, <3>1 DEF MediaOf, AssetsIn
    <3>3. c \in spot[h]
      <4>1. \E p \in previous[h] : r.id = p.id
        BY <3>1, <3>2
      <4>2. r.id \in Ids(tier[c]) /\ r.id \in Ids(previous[h])
        BY <3>2, <4>1 DEF Ids
      <4> QED
        BY <2>2, <4>2 DEF Identified, ReadsRows
    <3> QED
      BY <2>2, <3>1, <3>2, <3>3 DEF Recorded, Current, ReadsRows, AssetsIn
  <2>3. CASE kind[h] \in {"drop", "load"}
    <3>1. /\ pc[h] = "remove"
          /\ \A d \in Components :
               /\ tier'[d] = IF d \in spot[h] THEN {} ELSE tier[d]
               /\ clips'[d] = IF d \in spot[h] THEN NoClips ELSE clips[d]
      BY <1>1, <2>3, RemoveEffect
    <3>2. c \in spot[h]
      BY <1>3, <3>1 DEF MediaOf
    <3> QED
      BY <1>3, <2>3, <3>1, <3>2 DEF Recorded, Current
  <2> QED
    BY <1>1, <2>1, <2>2, <2>3, RemoveEffect
<1> QED
  BY <1>2, <1>4 DEF KeysOf

(* What a transaction writes names all objects of the upload. *)
LEMMA PersistNames ==
  ASSUME TypeOK, Requests, Placed, Owned, NEW h \in Handlers, WriteRows(h),
         pc[h] = "persist"
  PROVE  KeysOf(target[h]) \subseteq KeysNamed'
<1>1. brand' = brand /\ target[h] \intersect brand = {}
  <2>1. brand' = brand
    BY DEF WriteRows, WriteImage, WriteVideo, WritePage
  <2> QED
    BY <2>1, NamedFacts DEF Owned, Pending
<1>2. target[h] \subseteq Named'
  <2>1. CASE kind[h] = "image"
    <3>1. PICK c \in OfferBlocks \intersect blocks, a \in Assets, i \in Assets :
            ImageWritten(h, c, a, i)
      BY <2>1, ImageWrite
    <3>2. a \in AssetsIn(tier'[c])
      <4>1. [id |-> i, asset |-> a] \in tier'[c] /\ [id |-> i, asset |-> a].asset = a
        BY <3>1 DEF ImageWritten
      <4> QED
        BY <4>1 DEF AssetsIn
    <3>3. a \in MediaOf(c)' /\ c \in Components /\ target[h] = {a}
      BY <3>1, <3>2 DEF ImageWritten, MediaOf, AssetsIn
    <3> QED
      BY <3>3 DEF Named
  <2>2. CASE kind[h] = "video"
    <3>1. PICK c \in VideoBlocks \intersect blocks, a \in Assets : VideoWritten(h, c, a)
      BY <2>2, VideoWrite
    <3>2. a \in MediaOf(c)' /\ c \in Components /\ target[h] = {a}
      BY <3>1 DEF VideoWritten, MediaOf
    <3> QED
      BY <3>2 DEF Named
  <2>3. CASE kind[h] \notin {"image", "video"}
    BY <2>3, PageWrite DEF Named
  <2> QED
    BY <2>1, <2>2, <2>3
<1> QED
  BY <1>1, <1>2 DEF KeysNamed, KeysOf

HeldBy(h, k) == \/ Pending(h) /\ k \in uploaded[h]
                \/ pc[h] = "audit" /\ k \in FormerBrand(h)
                \/ k \in doomed[h]
Safe(k) == k \in KeysNamed \/ k \in stray \/ Held(k) \/ KeyAsset(k) \in contested

LEMMA AccountedStep ==
  ASSUME TypeOK, Requests, Ordered, Placed, Owned, Identified, Reading, Putting, Recorded,
         Accounted, NEW h \in Handlers, Step(h)
  PROVE  Accounted'
<1>1. OthersWait(h) /\ contested \subseteq contested' /\ LocalsOK
  BY LocalsStep, ContestedGrows, TypeLocals
<1>2. \A k : \A g \in Handlers : HeldBy(g, k)' => Safe(k)'
  BY DEF HeldBy, Safe, Held
<1>3. \A k : \A g \in Handlers \ {h} : HeldBy(g, k) => Safe(k)'
  <2>1. \A k : \A g \in Handlers \ {h} : HeldBy(g, k) => HeldBy(g, k)'
    BY <1>1 DEF OthersWait, SameRequest, HeldBy, Pending, FormerBrand
  <2> QED
    BY <1>2, <2>1
<1>4. stray \subseteq stray'
  <2>1. Starts(h) => stray' = stray
    BY DEF Starts, Begin
  <2> QED
    BY <2>1 DEF Step, Put, PutFails, DeleteKeys, Persist, PersistFails, ReadBrand,
                UpdateBrand, AuditBrand, ReadRemaining, Remove, RemoveFails, ReadBrandFails, Crash,
                MisjudgedAsFailed, history
<1>5. \A k : k \in stray' \/ KeyAsset(k) \in contested \/ k \in KeysNamed' => Safe(k)'
  BY <1>1 DEF Safe, KeyAsset
<1>6. SUFFICES ASSUME NEW k \in objects',
                      k \notin stray', KeyAsset(k) \notin contested,
                      k \notin KeysNamed',
                      \/ k \notin objects
                      \/ k \in KeysNamed
                      \/ HeldBy(h, k)
               PROVE  Safe(k)'
  BY <1>3, <1>4, <1>5 DEF Accounted, Safe, Held, HeldBy, KeyAsset
<1>7. CASE Starts(h)
  <2>1. /\ UNCHANGED rows /\ objects' = objects /\ pc[h] = "idle"
    BY <1>7, BeginEffect DEF Starts
  <2>2. ~HeldBy(h, k)
    BY <2>1 DEF HeldBy, Pending, Requests
  <2> QED
    BY <1>6, <2>1, <2>2, SameNames
<1>8. CASE Put(h)
  <2>1. /\ UNCHANGED rows /\ pc[h] = "put" /\ pc'[h] \in {"put", "read", "persist"}
        /\ k \in uploaded'[h] \/ k \in objects
        /\ uploaded[h] \subseteq uploaded'[h] /\ doomed'[h] = doomed[h]
    BY <1>1, <1>8 DEF Put, Goto, LocalsOK
  <2>2. k \notin KeysNamed
    BY <1>6, <2>1, SameNames
  <2>3. HeldBy(h, k)'
    BY <1>6, <2>1, <2>2 DEF HeldBy, Pending
  <2> QED
    BY <1>2, <2>3
<1>9. CASE PutFails(h)
  <2>1. UNCHANGED rows /\ pc[h] = "put" /\ (k \in stray' \/ k \in objects)
    BY <1>9 DEF PutFails
  <2>2. HeldBy(h, k)
    BY <1>6, <2>1, SameNames
  <2>3. k \in uploaded[h] /\ kind[h] # "brand"
    BY <2>1, <2>2 DEF HeldBy, Requests, Putting
  <2>4. k \in doomed'[h]
    BY <1>1, <1>9, <2>3, CleanUpEffect DEF PutFails, Deleting
  <2> QED
    BY <1>2, <2>4 DEF HeldBy
<1>10. CASE DeleteKeys(h)
  <2>1. PICK D \in SUBSET doomed[h] :
          objects' = objects \ D /\ stray' = stray \union (doomed[h] \ D)
    BY <1>10 DEF DeleteKeys
  <2>2. UNCHANGED rows /\ pc[h] = "delete"
    BY <1>10 DEF DeleteKeys
  <2>3. HeldBy(h, k)
    BY <1>6, <2>1, <2>2, SameNames
  <2> QED
    BY <1>6, <2>1, <2>2, <2>3 DEF HeldBy, Pending
<1>11. CASE Persist(h)
  <2>1. objects' = objects /\ pc[h] = "persist" /\ WriteRows(h)
    BY <1>11 DEF Persist
  <2>2. ~HeldBy(h, k)
    BY <1>6, <2>1, PersistNames, KeysForFacts DEF HeldBy, Requests, Putting
  <2>3. k \in Replaced(h)
    BY <1>6, <1>11, <2>1, <2>2, PersistLoses
  <2>4. k \in doomed'[h]
    BY <1>1, <1>6, <1>11, <2>3, CleanUpEffect DEF Persist, MisjudgedAsFailed, Deleting
  <2> QED
    BY <1>2, <2>4 DEF HeldBy
<1>12. CASE PersistFails(h)
  <2>1. UNCHANGED rows /\ objects' = objects /\ pc[h] = "persist"
    BY <1>12 DEF PersistFails
  <2>2. k \in uploaded[h]
    BY <1>6, <2>1, SameNames DEF HeldBy, Requests
  <2>3. k \in doomed'[h]
    BY <1>1, <1>12, <2>2, CleanUpEffect DEF PersistFails, Deleting
  <2> QED
    BY <1>2, <2>3 DEF HeldBy
<1>13. CASE ReadBrand(h)
  <2>1. /\ UNCHANGED rows /\ objects' = objects /\ pc[h] = "read" /\ pc'[h] = "persist"
        /\ uploaded'[h] = uploaded[h]
    BY <1>1, <1>13 DEF ReadBrand, Goto, LocalsOK
  <2>2. k \in uploaded[h]
    BY <1>6, <2>1, SameNames DEF HeldBy, Requests
  <2>3. HeldBy(h, k)'
    BY <2>1, <2>2 DEF HeldBy, Pending
  <2> QED
    BY <1>2, <2>3
<1>14. CASE UpdateBrand(h)
  <2>1. /\ objects' = objects /\ pc[h] = "persist" /\ kind[h] = "brand" /\ pc'[h] = "audit"
        /\ brand' = target[h] /\ UNCHANGED <<tier, clips, pages>>
        /\ previous'[h] = previous[h]
    BY <1>1, <1>14 DEF UpdateBrand, Goto, LocalsOK, locals
  <2>2. ~HeldBy(h, k)
    <3>1. KeysFor(h) \subseteq KeysNamed'
      BY <2>1 DEF KeysFor, KeysNamed
    <3> QED
      BY <1>6, <2>1, <3>1 DEF HeldBy, Requests, Putting
  <2>3. k \in KeysNamed
    BY <1>6, <2>1, <2>2
  <2>4. KeyAsset(k) \in brand /\ k = BrandKey(KeyAsset(k))
    <3>1. CASE KeyAsset(k) \notin brand
      <4>1. k \in KeysOf(Named \ brand)
        BY <2>3, <3>1 DEF KeysNamed, KeyAsset, BrandKey, KeysOf
      <4>2. Named \ brand \subseteq Named' \ target[h]
        BY <2>1 DEF Named, MediaOf, Owned, Pending
      <4> QED
        BY <1>6, <2>1, <4>1, <4>2 DEF KeysNamed, KeysOf
    <3> QED
      BY <2>3, <3>1, NamedFacts
  <2>5. KeyAsset(k) \in AssetsIn(previous[h])
    BY <1>6, <2>1, <2>4 DEF Recorded, Current
  <2>6. k \in FormerBrand(h)'
    BY <2>1, <2>4, <2>5 DEF FormerBrand, AssetsIn
  <2> QED
    BY <1>2, <2>1, <2>6 DEF HeldBy
<1>15. CASE AuditBrand(h)
  <2>1. UNCHANGED rows /\ objects' = objects /\ pc[h] = "audit"
    BY <1>15 DEF AuditBrand
  <2>2. k \in FormerBrand(h)
    BY <1>6, <2>1, SameNames DEF HeldBy, Pending, Requests
  <2>3. k \in doomed'[h]
    BY <1>1, <1>6, <1>15, <2>2, CleanUpEffect DEF AuditBrand, MisjudgedAsFailed, Deleting
  <2> QED
    BY <1>2, <2>3 DEF HeldBy
<1>16. CASE ReadRemaining(h) \/ RemoveFails(h)
  <2>1. /\ UNCHANGED rows /\ objects' = objects /\ pc[h] \in {"remove", "renumber"}
    BY <1>16 DEF ReadRemaining, RemoveFails, Removing
  <2> QED
    BY <1>6, <2>1, SameNames DEF HeldBy, Pending, Requests
<1>17. CASE Remove(h)
  <2>1. /\ objects' = objects /\ pc[h] \in {"remove", "renumber"}
    BY <1>17, RemoveEffect DEF Remove
  <2>2. k \in KeysNamed
    BY <1>6, <2>1 DEF HeldBy, Pending, Requests
  <2>3. k \in KeysOf(AssetsIn(previous[h]))
    BY <1>6, <1>17, <2>2, RemoveLoses
  <2>4. k \in doomed'[h]
    BY <1>1, <1>6, <1>17, <2>3, CleanUpEffect DEF Remove, Deleting
  <2> QED
    BY <1>2, <2>4 DEF HeldBy
<1>18. CASE Crash(h)
  <2>1. /\ UNCHANGED rows /\ objects' = objects
        /\ stray' = stray \union (IF pc[h] = "delete" THEN doomed[h] ELSE uploaded[h])
                          \union (IF pc[h] = "audit" THEN FormerBrand(h) ELSE {})
    BY <1>18 DEF Crash
  <2>2. HeldBy(h, k)
    BY <1>6, <2>1, SameNames
  <2> QED
    BY <1>6, <2>1, <2>2 DEF HeldBy, Pending, Requests
<1>19. CASE ReadBrandFails(h)
  <2>1. /\ UNCHANGED rows /\ objects' = objects /\ pc[h] = "read"
        /\ stray' = stray \union uploaded[h]
    BY <1>19 DEF ReadBrandFails
  <2>2. HeldBy(h, k)
    BY <1>6, <2>1, SameNames
  <2> QED
    BY <1>6, <2>1, <2>2 DEF HeldBy, Pending, Requests
<1> QED
  BY <1>7, <1>8, <1>9, <1>10, <1>11, <1>12, <1>13, <1>14, <1>15, <1>16, <1>17, <1>18,
     <1>19
  DEF Step

(* Only an active request changes a carousel, and only its own. *)
LEMMA ClipsChange ==
  ASSUME TypeOK, Requests, Placed, Reading, NEW h \in Handlers, Step(h),
         NEW c \in Components, clips'[c] # clips[c]
  PROVE  c \in spot[h] /\ Active(h)
<1>1. c \in spot[h]
  BY StepMoves DEF NothingMoves
<1> QED
  BY <1>1 DEF Requests

LEMMA CountingStep ==
  ASSUME TypeOK, Requests, Ordered, Placed, Reading, Recorded, Counting,
         NEW h \in Handlers, Step(h)
  PROVE  Counting'
<1>1. OthersWait(h) /\ contested \subseteq contested' /\ LocalsOK
  BY LocalsStep, ContestedGrows, TypeLocals
<1>2. ASSUME NEW g \in Handlers \ {h}
      PROVE  /\ kind'[g] = "video" /\ pc'[g] \in {"put", "persist"} => count'[g] < MaxVideos
             /\ \A c \in spot'[g] \ contested' : Counted(g, c)'
  <2>1. SameRequest(g)
    BY <1>1 DEF OthersWait
  <2>2. ASSUME NEW c \in spot[g] \ contested PROVE clips'[c] = clips[c]
    <3>1. c \in Components /\ Active(g)
      BY DEF TypeOK, Requests
    <3>2. ~(c \in spot[h] /\ Active(h))
      BY <2>2, <3>1 DEF Recorded, Overlaps, Meet
    <3> QED
      BY <3>1, <3>2, ClipsChange
  <2>3. \A c \in spot[g] \ contested : Counted(g, c)
    BY DEF Counting
  <2> QED
    BY <1>1, <2>1, <2>2, <2>3 DEF SameRequest, Counted, Counting
<1>3. /\ kind'[h] = "video" /\ pc'[h] \in {"put", "persist"} => count'[h] < MaxVideos
      /\ \A c \in spot'[h] \ contested' : Counted(h, c)'
  <2>1. CASE Starts(h)
    <3>1. PICK k, C, A, K, R, n, where :
            Begin(h, k, C, A, K, R, n, where) /\ Fits(k, C, A, K, R, n, where)
      BY <2>1 DEF Starts
    <3>2. /\ spot'[h] = C /\ kind'[h] = k /\ count'[h] = n /\ UNCHANGED rows
          /\ pc'[h] = where
      BY <3>1, BeginEffect
    <3>3. /\ where \in {"put", "remove"}
          /\ k = "video" => n < MaxVideos /\ \A c \in C : n = Cardinality(DOMAIN clips[c])
      BY <3>1 DEF Fits
    <3> QED
      BY <3>2, <3>3, SameNames DEF Counted
  <2>2. CASE ReadRemaining(h)
    <3>1. PICK d \in spot[h] :
            order' = [order EXCEPT ![h] =
              Renumbered(clips[d], DOMAIN clips[d] \ AssetsIn(previous[h]))]
      BY <2>2 DEF ReadRemaining
    <3> DEFINE o == Renumbered(clips[d], DOMAIN clips[d] \ AssetsIn(previous[h]))
    <3> HIDE DEF o
    <3>2. order'[h] = o
      BY <1>1, <3>1 DEF o, LocalsOK
    <3>3. /\ kind[h] = "unvideo" /\ kind'[h] = kind[h] /\ spot'[h] = spot[h]
          /\ previous'[h] = previous[h] /\ clips' = clips
      BY <2>2 DEF ReadRemaining, rows
    <3>4. \A c \in spot[h] : c = d
      BY <3>3 DEF Requests
    <3> QED
      BY <3>2, <3>3, <3>4 DEF Counted, o
  <2>3. CASE Put(h)
    <3>1. /\ UNCHANGED rows /\ kind'[h] = kind[h] /\ spot'[h] = spot[h]
          /\ count'[h] = count[h] /\ pc[h] = "put" /\ pc'[h] # "renumber"
      BY <1>1, <2>3 DEF Put, Goto, LocalsOK
    <3>2. /\ kind[h] = "video" => count[h] < MaxVideos
          /\ kind[h] = "video" => \A c \in spot[h] \ contested :
               count[h] = Cardinality(DOMAIN clips[c])
      BY <3>1 DEF Counting, Counted
    <3> QED
      BY <1>1, <3>1, <3>2, SameNames DEF Counted
  <2>4. CASE ReadBrand(h) \/ UpdateBrand(h)
    <3>1. kind'[h] = "brand" /\ spot'[h] = {}
      BY <2>4 DEF ReadBrand, UpdateBrand, Requests, locals
    <3> QED
      BY <3>1
  <2>5. CASE PutFails(h) \/ DeleteKeys(h) \/ Persist(h) \/ PersistFails(h)
             \/ AuditBrand(h) \/ Remove(h) \/ RemoveFails(h) \/ Crash(h)
             \/ ReadBrandFails(h)
    <3>1. Ended(h) \/ \E K : Deleting(h, K)
      BY <1>1, <2>5, ForgetEffect, CleanUpEffect
      DEF PutFails, DeleteKeys, Persist, PersistFails, AuditBrand, Remove, RemoveFails,
          ReadBrandFails, Crash, MisjudgedAsFailed
    <3> QED
      BY <3>1 DEF Ended, Deleting, Counted
  <2> QED
    BY <2>1, <2>2, <2>3, <2>4, <2>5 DEF Step
<1> QED
  BY <1>2, <1>3 DEF Counting

LEMMA VideoOrder ==
  ASSUME TypeOK, Requests, Owned, Counting, Ordered, NEW h \in Handlers,
         pc[h] = "persist", kind[h] = "video",
         NEW c \in VideoBlocks, NEW a \in Assets, VideoWritten(h, c, a)
  PROVE  /\ \A x, y \in DOMAIN clips'[c] : clips'[c][x] = clips'[c][y] => x = y
         /\ c \notin contested => Gapless(c)'
<1> DEFINE n == Cardinality(DOMAIN clips[c])
           old == DOMAIN clips[c]
           new == clips'[c]
<1> USE DEF VideoWritten
<1>1. /\ IsFiniteSet(old) /\ n \in Nat
      /\ \A x, y \in old : clips[c][x] = clips[c][y] => x = y
  BY AtMostMax DEF Ordered
<1>2. DOMAIN new = old \union {a} /\ new[a] = count[h] /\ \A b \in old \ {a} : new[b] = clips[c][b]
  OBVIOUS
<1>3. a \notin old
  <2>1. a \in target[h] /\ Pending(h) /\ old \subseteq MediaOf(c)
    BY DEF Pending, MediaOf
  <2> QED
    BY <2>1, NamedFacts DEF Owned
<1>4. \A x, y \in DOMAIN new : new[x] = new[y] => x = y
  <2> HIDE DEF new
  <2>1. \A b \in old : new[b] # count[h]
    BY <1>2, <1>3
  <2> QED
    BY <1>1, <1>2, <1>3, <2>1
<1>5. ASSUME c \notin contested PROVE Gapless(c)'
  <2>1. Gapless(c) /\ count[h] = n
    BY <1>5 DEF Ordered, Counting, Counted
  <2>2. Cardinality(DOMAIN new) = n + 1
    BY <1>1, <1>2, <1>3, FS_AddElement
  <2> HIDE DEF new
  <2>3. {new[b] : b \in DOMAIN new} = {clips[c][b] : b \in old} \union {n}
    BY <1>2, <1>3, <2>1
  <2>4. {clips[c][b] : b \in old} = 0 .. n - 1
    BY <2>1 DEF Gapless
  <2>5. {new[b] : b \in DOMAIN new} = 0 .. n
    <3> HIDE DEF n
    <3> QED
      BY <1>1, <2>3, <2>4
  <2>6. {new[b] : b \in DOMAIN new} = 0 .. Cardinality(DOMAIN new) - 1
    <3> HIDE DEF n
    <3> QED
      BY <1>1, <2>2, <2>5
  <2> QED
    BY <2>6 DEF Gapless, new
<1> QED
  BY <1>4, <1>5

LEMMA RenumberedOrder ==
  ASSUME TypeOK, Requests, Counting, Ordered, NEW h \in Handlers, pc[h] = "renumber",
         NEW c \in VideoBlocks, c \in spot[h], c \notin contested,
         clips'[c] = Renumbering(h, c)
  PROVE  Gapless(c)'
<1> DEFINE A == DOMAIN clips[c] \ AssetsIn(previous[h])
           o == Renumbered(clips[c], A)
           r == Ranks(clips[c], A)
<1>1. order[h] = o
  BY DEF Counting, Counted
<1>2. /\ clips[c] \in Orders /\ A \subseteq DOMAIN clips[c]
      /\ \A a, b \in DOMAIN clips[c] : clips[c][a] = clips[c][b] => a = b
  BY DEF TypeOK, Ordered, Components
<1>3. /\ DOMAIN r = A /\ {r[a] : a \in A} = 0 .. Cardinality(A) - 1
      /\ \A a \in A : r[a] = IF a \in DOMAIN o THEN o[a] ELSE clips[c][a]
  BY <1>2, RanksFacts, RenumberedFacts
<1> HIDE DEF A, o, r
<1>4. clips'[c] = [a \in A |-> r[a]]
  BY <1>1, <1>3 DEF Renumbering, A
<1>5. DOMAIN clips'[c] = A /\ {clips'[c][a] : a \in A} = {r[a] : a \in A}
  BY <1>4
<1> QED
  BY <1>3, <1>5 DEF Gapless

LEMMA OrderedStep ==
  ASSUME TypeOK, Requests, Placed, Owned, Reading, Counting, Ordered,
         NEW h \in Handlers, Step(h)
  PROVE  Ordered'
<1>1. contested \subseteq contested' /\ clips' \in [Components -> Orders]
  BY ContestedGrows, RowTypesStep
<1>2. SUFFICES ASSUME NEW c \in VideoBlocks, clips'[c] # clips[c]
               PROVE  /\ \A a, b \in DOMAIN clips'[c] : clips'[c][a] = clips'[c][b] => a = b
                      /\ c \notin contested => Gapless(c)'
  BY <1>1 DEF Ordered, Gapless
<1>3. c \in Components
  BY DEF Components
<1>4. CASE Persist(h)
  <2>1. WriteRows(h) /\ pc[h] = "persist"
    BY <1>4 DEF Persist
  <2>2. kind[h] = "video"
    BY <1>2, <2>1, PageWrite, ImageWrite DEF ImageWritten
  <2>3. PICK d \in VideoBlocks \intersect blocks, a \in Assets : VideoWritten(h, d, a)
    BY <2>1, <2>2, VideoWrite
  <2>4. c = d
    BY <1>2, <1>3, <2>3 DEF VideoWritten
  <2> QED
    BY <2>1, <2>2, <2>3, <2>4, VideoOrder
<1>5. CASE Remove(h)
  <2>1. RemoveRows(h)
    BY <1>5 DEF Remove
  <2>2. c \in spot[h]
    BY <1>2, <1>3, <2>1, RemoveEffect
  <2>3. CASE kind[h] = "unvideo"
    <3>1. /\ pc[h] = "renumber"
          /\ clips' = [d \in Components |-> IF d \in spot[h] THEN Renumbering(h, d)
                                           ELSE clips[d]]
          /\ \A d \in spot[h], a, b \in Assets :
               {a, b} \subseteq DOMAIN clips'[d] /\ clips'[d][a] = clips'[d][b] => a = b
      BY <2>1, <2>3, RemoveEffect
    <3>2. clips'[c] = Renumbering(h, c) /\ DOMAIN clips'[c] \subseteq Assets
      BY <1>1, <1>3, <2>2, <3>1, OrdersType
    <3> QED
      BY <2>2, <3>1, <3>2, RenumberedOrder
  <2>4. CASE kind[h] # "unvideo"
    <3>1. clips'[c] = NoClips
      BY <1>2, <1>3, <2>1, <2>2, <2>4, RemoveEffect
    <3>2. {clips'[c][a] : a \in DOMAIN clips'[c]} = {} /\ Cardinality(DOMAIN clips'[c]) = 0
      BY <3>1, NoClipsType, FS_EmptySet
    <3>3. 0 .. Cardinality(DOMAIN clips'[c]) - 1 = {}
      BY <3>2
    <3> QED
      BY <3>1, <3>2, <3>3, NoClipsType DEF Gapless
  <2> QED
    BY <2>3, <2>4
<1>6. clips' = clips \/ Persist(h) \/ Remove(h)
  BY RowSteps DEF rows, UpdateBrand
<1> QED
  BY <1>2, <1>4, <1>5, <1>6

----------------------------------------------------------------------------
(* The invariant, and what it establishes *)

LEMMA InitIInv == Init => IInv
<1> SUFFICES ASSUME Init PROVE IInv
  OBVIOUS
<1> USE DEF Init
<1>1. \A c \in Components : /\ clips[c] \in Orders /\ DOMAIN clips[c] \subseteq Assets
                            /\ MediaOf(c) = DOMAIN clips[c]
  BY OrdersType DEF MediaOf, AssetsIn
<1>2. brand \union pages = {} /\ Named \subseteq Assets
  BY <1>1 DEF Named
<1>3. KeysNamed = KeysOf(Named) /\ KeysOf(Named) \subseteq Keys
  BY <1>2, KeysType DEF KeysNamed
<1>4. TypeOK
  <2>1. /\ 0 \in 0 .. MaxVideos /\ NoClips \in Orders /\ "idle" \in PCs
        /\ "image" \in Uploads \union Removals
    BY NoClipsType, AssetAssumption DEF AssetAssumption, PCs, Uploads
  <2> QED
    BY <1>2, <1>3, <2>1 DEF TypeOK
<1>5. Requests
  BY DEF Requests, Active, Removals, ReadsRows
<1>6. Putting
  BY DEF Putting, Pending
<1>7. Placed
  BY <1>1, AssetAssumption DEF Placed, AssetAssumption, Components
<1>8. Owned /\ Identified
  BY DEF Owned, Identified, Pending, AssetsIn, Ids
<1>9. Reading /\ Cleaning
  BY DEF Reading, Cleaning
<1>10. RowsHaveObjects /\ Accounted
  BY <1>3 DEF RowsHaveObjects, Accounted
<1>11. Recorded
  BY DEF Recorded, Overlaps, Active, Current
<1>12. Counting
  BY DEF Counting
<1>13. Ordered
  <2>1. ASSUME NEW c \in VideoBlocks, NEW a \in DOMAIN clips[c], NEW b \in DOMAIN clips[c],
               clips[c][a] = clips[c][b]
        PROVE  a = b
    <3> DEFINE S == DOMAIN clips[c]
               o == clips[c]
               n == Cardinality(S)
    <3>1. c \in Components
      BY DEF Components
    <3>2. o \in Orders /\ S \subseteq Assets /\ o = [x \in S |-> o[x]]
      BY <1>1, <3>1, OrdersType
    <3>3. IsFiniteSet(S) /\ n \in Nat
      BY <3>2, AssetAssumption, FS_Subset, FS_CardinalityType DEF AssetAssumption
    <3>4. {o[x] : x \in S} = 0 .. n - 1
      BY <3>1 DEF Gapless
    <3> HIDE DEF S, o, n
    <3>5. o \in Surjection(S, 0 .. n - 1)
      BY <3>2, <3>4 DEF Surjection
    <3>6. IsFiniteSet(0 .. n - 1) /\ Cardinality(0 .. n - 1) = n
      BY <3>3, FS_Interval
    <3>7. o \in Injection(S, 0 .. n - 1)
      BY <3>3, <3>5, <3>6, FS_SurjSameCardinalityImpliesInj DEF n
    <3> QED
      BY <2>1, <3>7 DEF Injection, IsInjective, S, o
  <2> QED
    BY <2>1 DEF Ordered, Components
<1> QED
  BY <1>4, <1>5, <1>6, <1>7, <1>8, <1>9, <1>10, <1>11, <1>12, <1>13 DEF IInv

LEMMA StutterIInv == IInv /\ UNCHANGED vars => IInv'
<1> SUFFICES ASSUME IInv, UNCHANGED vars PROVE IInv'
  OBVIOUS
<1>1. UNCHANGED <<rows, objects, pc, locals, started, history>> /\ UNCHANGED rows
  BY DEF vars
<1>2. /\ Named' = Named /\ KeysNamed' = KeysNamed /\ \A c : MediaOf(c)' = MediaOf(c)
      /\ UNCHANGED <<blocks, tier, clips, brand, pages>>
  BY <1>1 DEF rows, Named, KeysNamed, MediaOf
<1> USE <1>1, <1>2 DEF IInv, locals, started, history
<1>3. TypeOK' /\ Requests'
  BY DEF TypeOK, Requests, Active
<1>9. Counting'
  <2>1. ASSUME NEW h \in Handlers, NEW c \in spot[h] \ contested
        PROVE  Counted(h, c)'
    <3>1. Counted(h, c)
      BY DEF Counting
    <3> QED
      BY <3>1 DEF Counted
  <2> QED
    BY <2>1 DEF Counting
<1>10. Ordered'
  BY DEF Ordered, Gapless
<1>4. Putting' /\ Placed'
  BY DEF Putting, KeysFor, Pending, Placed
<1>5. Owned' /\ Identified'
  BY DEF Owned, Identified, Pending
<1>6. Reading' /\ Cleaning'
  BY DEF Reading, StillThere, Cleaning
<1>7. RowsHaveObjects' /\ Accounted'
  BY DEF RowsHaveObjects, Accounted, Held, Pending, FormerBrand, KeyAsset
<1>8. Recorded'
  BY DEF Recorded, Overlaps, Meet, Active, Current
<1> QED
  BY <1>3, <1>4, <1>5, <1>6, <1>7, <1>8, <1>9, <1>10

LEMMA NextIInv == IInv /\ [Next]_vars => IInv'
<1>1. ASSUME IInv, Next PROVE IInv'
  <2>1. PICK h \in Handlers : Step(h)
    BY <1>1, NextIsStep DEF IInv
  <2> USE <1>1, <2>1 DEF IInv
  <2>2. TypeOK'
    BY TypeStep
  <2>3. Requests'
    BY RequestsStep
  <2>4. Putting'
    BY PuttingStep
  <2>5. Placed'
    BY PlacedStep
  <2>6. Owned' /\ Identified'
    BY OwnedStep, IdentifiedStep
  <2>7. Reading'
    BY ReadingStep
  <2>8. Cleaning' /\ RowsHaveObjects'
    BY CleaningStep, ObjectsStep
  <2>9. Recorded'
    BY RecordedStep
  <2>10. Accounted'
    BY AccountedStep
  <2>11. Counting' /\ Ordered'
    BY CountingStep, OrderedStep
  <2> QED
    BY <2>2, <2>3, <2>4, <2>5, <2>6, <2>7, <2>8, <2>9, <2>10, <2>11
<1> QED
  BY <1>1, StutterIInv

(* What requests carry, have read and have put is as IInv says, always. *)
THEOREM AlwaysIInv == Spec => []IInv
BY InitIInv, NextIInv, PTL DEF Spec

(* Every variable keeps its type; a video's order stays below the maximum   *)
(* because an upload that counted too many was rejected.                    *)
THEOREM TypeCorrect == Spec => []TypeOK
<1>1. IInv => TypeOK
  BY DEF IInv
<1> QED
  BY <1>1, AlwaysIInv, PTL

(* A row never names an object that is not in R2, for any number of         *)
(* requests that overlap, fail or stop, except where the code itself takes  *)
(* a written row for a failed one (storage clean-up of the upload services).*)
THEOREM RowsKeepObjects == Spec => []RowsHaveObjects
<1>1. IInv => RowsHaveObjects
  BY DEF IInv
<1> QED
  BY <1>1, AlwaysIInv, PTL

(* No object is left behind by anything but a failed or unfinished clean-up *)
(* or requests about the same component at once.                            *)
THEOREM NoObjectForgotten == Spec => []ObjectsAccountedFor
<1>1. IInv => ObjectsAccountedFor
  BY DEF IInv, Accounted, Held, ObjectsAccountedFor, InHand, KeyAsset
<1> QED
  BY <1>1, AlwaysIInv, PTL

(* A carousel keeps to MAX_VIDEOS_PER_CAROUSEL and no two videos share an   *)
(* order, though uploads count long before they insert; and a carousel only *)
(* one request at a time was about has its orders without a gap.            *)
THEOREM CarouselsStayInOrder == Spec => []CarouselCap
<1>1. ASSUME IInv PROVE CarouselCap
  <2>1. TypeOK /\ Ordered
    BY <1>1 DEF IInv
  <2>2. ASSUME NEW c \in VideoBlocks
        PROVE  Cardinality(DOMAIN clips[c]) <= MaxVideos
    <3>1. Cardinality(DOMAIN clips[c]) \in 0 .. MaxVideos
      BY <2>1, AtMostMax DEF Ordered, Components
    <3> QED
      BY <3>1, AssetAssumption DEF AssetAssumption
  <2> QED
    BY <2>1, <2>2 DEF Ordered, CarouselCap
<1> QED
  BY <1>1, AlwaysIInv, PTL
=============================================================================
