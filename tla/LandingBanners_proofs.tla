------------------------- MODULE LandingBanners_proofs -------------------------
(****************************************************************************)
(* Proofs about LandingBanners: no placeholder of a renumbering is ever     *)
(* committed, the limit on banners holds though uploads test it early, rows *)
(* and images belong together, and operations that run alone leave no gap.  *)
(****************************************************************************)
EXTENDS LandingBanners, FiniteSetTheorems, TLAPS

(* The rows a transaction holds *)
Held(h) == DOMAIN written[h] \union removed[h]
InSequence(h) == pc[h] \in {"delete", "renumber"}
Unfinished(h) == pc[h] \in Uploading \union {"commit"}

(* No two transactions hold the same row, and what is held is written for a *)
(* reason: an upload holds its new row, a renumbering rows of its list.     *)
Transactions ==
  \A h \in Handlers :
    /\ pc[h] = "idle" => target[h] = {}
    /\ \A b, c \in target[h] : b = c
    /\ pc[h] \notin {"renumber", "commit"} => DOMAIN written[h] = {}
    /\ pc[h] # "renumber" => removed[h] = {}
    /\ removed[h] \subseteq Stored
    /\ pc[h] = "commit" => /\ DOMAIN written[h] = target[h]
                           /\ \A b \in target[h] : written[h][b] = size[h]
    /\ pc[h] \in {"put", "insert", "commit"} => size[h] < MaxBanners
    /\ pc[h] = "renumber" => DOMAIN written[h] \subseteq Stored \intersect DOMAIN rank[h]
Locking ==
  /\ \A g, h \in Handlers : g # h => Held(g) \intersect Held(h) = {}
  /\ \A h \in Handlers : DOMAIN written[h] \intersect removed[h] = {}

(* The numbering to write is one-to-one and within the limit; the second    *)
(* pass has replaced the placeholders it went by.                           *)
Passing ==
  \A h \in Handlers : InSequence(h) =>
    /\ DOMAIN rank[h] \intersect (target[h] \union removed[h]) = {}
    /\ \A b \in DOMAIN rank[h] : rank[h][b] \in 0 .. size[h] - 1
    /\ \A b, c \in DOMAIN rank[h] : rank[h][b] = rank[h][c] => b = c
    /\ \A b \in DOMAIN written[h] \intersect DOMAIN rank[h] :
         step[h] > size[h] + rank[h][b] => written[h][b] = rank[h][b]

(* Every upload has a banner of its own, without a row until it commits.    *)
Freshness ==
  /\ Stored \subseteq used
  /\ \A h \in Handlers : Unfinished(h) => target[h] \subseteq used
  /\ \A h \in Handlers :
       pc[h] \in {"put", "insert", "commit"} => target[h] \intersect Stored = {}
  /\ \A g, h \in Handlers :
       Unfinished(g) /\ Unfinished(h) /\ g # h => target[g] \intersect target[h] = {}

(* The unique index: among committed rows, within what a transaction sees,  *)
(* and between transactions.                                                *)
Distinct == \A b, c \in Stored : position[b] = position[c] => b = c
Unique ==
  \A h \in Handlers : \A b \in DOMAIN written[h] :
    /\ \A c \in DOMAIN written[h] : written[h][b] = written[h][c] => b = c
    /\ \A c \in Stored \ Held(h) : position[c] # written[h][b]
    /\ \A g \in Handlers \ {h} : \A c \in DOMAIN written[g] : written[g][c] # written[h][b]

(* Images are there before the row and go only after it has failed. *)
Imaging ==
  /\ \A h \in Handlers : pc[h] \in {"insert", "commit"} => target[h] \subseteq objects
  /\ \A h \in Handlers : pc[h] = "cleanup" => target[h] \intersect Stored \subseteq doubtful

IInv == /\ TypeOK /\ Transactions /\ Locking /\ Passing /\ Freshness
        /\ Distinct /\ Unique /\ PositionsInRange
        /\ Imaging /\ RowsHaveImages /\ ImagesAccountedFor

----------------------------------------------------------------------------
(* Facts about rows and counting *)

LEMMA RowsType ==
  ASSUME NEW f \in Rows
  PROVE  /\ DOMAIN f \subseteq Banners
         /\ f \in [DOMAIN f -> Indices]
         /\ \A b \in DOMAIN f : f[b] \in Indices
BY DEF Rows

LEMMA RowsIntro ==
  ASSUME NEW S \in SUBSET Banners, NEW f \in [S -> Indices]
  PROVE  f \in Rows
BY DEF Rows

LEMMA NoRowsType == NoRows \in Rows /\ DOMAIN NoRows = {}
<1>1. DOMAIN NoRows = {} /\ NoRows \in [{} -> Indices]
  BY DEF NoRows
<1> QED
  BY <1>1, RowsIntro

(* What a transaction sees of each row.                                     *)
LEMMA ViewFacts ==
  ASSUME NEW h \in Handlers
  PROVE  /\ DOMAIN View(h) = (Stored \union DOMAIN written[h]) \ removed[h]
         /\ \A b \in DOMAIN View(h) :
              View(h)[b] = IF b \in DOMAIN written[h] THEN written[h][b]
                           ELSE position[b]
BY DEF View

(* A write touches one row of one transaction.                              *)
LEMMA WriteFacts ==
  ASSUME TypeOK, NEW h \in Handlers, NEW b \in Banners, NEW i \in Indices,
         WriteRow(h, b, i)
  PROVE  /\ written' \in [Handlers -> Rows]
         /\ DOMAIN written'[h] = DOMAIN written[h] \union {b}
         /\ written'[h][b] = i
         /\ \A c \in DOMAIN written[h] \ {b} : written'[h][c] = written[h][c]
         /\ \A g \in Handlers \ {h} : written'[g] = written[g]
<1> DEFINE w == [c \in DOMAIN written[h] \union {b} |->
                   IF c = b THEN i ELSE written[h][c]]
<1>1. written[h] \in Rows /\ written \in [Handlers -> Rows]
  BY DEF TypeOK
<1>2. w \in [DOMAIN written[h] \union {b} -> Indices]
  BY <1>1, RowsType
<1>3. w \in Rows
  BY <1>1, <1>2, RowsType, RowsIntro
<1>4. written' = [written EXCEPT ![h] = w]
  BY <1>1 DEF WriteRow
<1> HIDE DEF w
<1>5. written'[h] = w /\ \A g \in Handlers \ {h} : written'[g] = written[g]
  BY <1>1, <1>4
<1>6. written' \in [Handlers -> Rows]
  BY <1>1, <1>3, <1>4
<1> QED
  BY <1>5, <1>6 DEF w

(* The banners of a landing are few enough.                                 *)
LEMMA AtMostMax ==
  ASSUME TypeOK, Distinct, PositionsInRange
  PROVE  /\ IsFiniteSet(Stored)
         /\ Cardinality(Stored) \in 0 .. MaxBanners
<1> USE BannerAssumption DEF BannerAssumption
<1>1. Stored \subseteq Banners
  BY RowsType DEF TypeOK, Stored
<1>2. IsFiniteSet(Stored) /\ Cardinality(Stored) \in Nat
  BY <1>1, FS_Subset, FS_CardinalityType
<1>3. /\ IsFiniteSet(0 .. MaxBanners - 1)
      /\ Cardinality(0 .. MaxBanners - 1) = MaxBanners
  BY FS_Interval
<1>4. position \in [Stored -> 0 .. MaxBanners - 1]
  BY RowsType DEF TypeOK, PositionsInRange, Stored
<1>5. ~(MaxBanners < Cardinality(Stored))
  BY <1>2, <1>3, <1>4, FS_PigeonHole DEF Distinct
<1> QED
  BY <1>2, <1>5

(* contiguous_indices numbers the rows one-to-one from zero.                *)
LEMMA RenumberedFacts ==
  ASSUME TypeOK, Distinct, NEW S \in SUBSET Stored, IsFiniteSet(S)
  PROVE  /\ DOMAIN Renumbered(S) = S
         /\ \A b \in S : Renumbered(S)[b] \in 0 .. Cardinality(S) - 1
         /\ \A b, c \in S : Renumbered(S)[b] = Renumbered(S)[c] => b = c
<1> DEFINE Below(b) == {c \in S : position[c] < position[b]}
<1>1. \A b \in S : position[b] \in Int
  BY RowsType, BannerAssumption DEF TypeOK, Indices, BannerAssumption, Stored
<1>0. Cardinality(S) \in Nat
  BY FS_CardinalityType
<1>2. \A b \in S : Renumbered(S)[b] = Cardinality(Below(b))
  BY DEF Renumbered
<1>3. \A b \in S : IsFiniteSet(Below(b)) /\ Cardinality(Below(b)) \in Nat
  BY FS_Subset, FS_CardinalityType
<1>4. ASSUME NEW b \in S PROVE Cardinality(Below(b)) < Cardinality(S)
  <2>1. Below(b) \in SUBSET S /\ b \notin Below(b)
    BY <1>1
  <2>2. Cardinality(Below(b)) <= Cardinality(S) /\ Cardinality(S) # Cardinality(Below(b))
    BY <2>1, FS_Subset
  <2> QED
    BY <1>3, <2>2, FS_CardinalityType
<1>5. ASSUME NEW b \in S, NEW c \in S, position[b] < position[c]
      PROVE  Cardinality(Below(b)) # Cardinality(Below(c))
  <2>1. Below(b) \in SUBSET Below(c) /\ b \in Below(c) /\ b \notin Below(b)
    BY <1>1, <1>5
  <2> QED
    BY <1>3, <2>1, FS_Subset
<1>6. ASSUME NEW b \in S, NEW c \in S, Renumbered(S)[b] = Renumbered(S)[c]
      PROVE  b = c
  <2>1. ~(position[b] < position[c]) /\ ~(position[c] < position[b])
    BY <1>2, <1>5, <1>6
  <2> QED
    BY <1>1, <2>1 DEF Distinct
<1>7. ASSUME NEW b \in S PROVE Renumbered(S)[b] \in 0 .. Cardinality(S) - 1
  <2> HIDE DEF Below
  <2> QED
    BY <1>0, <1>2, <1>3, <1>4
<1> QED
  BY <1>6, <1>7 DEF Renumbered

----------------------------------------------------------------------------
(* What a step does to the rows                                             *)

Dropped(h) ==
  /\ position' = position
  /\ written' = [written EXCEPT ![h] = NoRows]
  /\ removed' = [removed EXCEPT ![h] = {}]

Wrote(h, b, i) ==
  /\ b \notin removed[h]
  /\ ~Locked(h, b) /\ ~InDoubt(h, i) /\ ~Taken(h, b, i)
  /\ WriteRow(h, b, i)
  /\ UNCHANGED <<position, removed>>

Deleted(h) ==
  /\ DOMAIN written[h] = {} /\ removed[h] = {}
  /\ \A b \in target[h] : ~Locked(h, b)
  /\ removed' = [removed EXCEPT ![h] = target[h] \intersect Stored]
  /\ UNCHANGED <<position, written>>

Committed(h) ==
  /\ position' = View(h)
  /\ written' = [written EXCEPT ![h] = NoRows]
  /\ removed' = [removed EXCEPT ![h] = {}]

RowInv == /\ position \in Rows /\ written \in [Handlers -> Rows]
          /\ removed \in [Handlers -> SUBSET Banners]
          /\ Locking /\ Distinct /\ Unique

LEMMA DroppedKeeps ==
  ASSUME RowInv, NEW h \in Handlers, Dropped(h)
  PROVE  RowInv'
<1>1. /\ written' \in [Handlers -> Rows]
      /\ removed' \in [Handlers -> SUBSET Banners]
      /\ DOMAIN written'[h] = {} /\ removed'[h] = {}
      /\ \A g \in Handlers \ {h} : written'[g] = written[g] /\ removed'[g] = removed[g]
  BY NoRowsType DEF RowInv, Dropped
<1>2. Locking'
  BY <1>1 DEF RowInv, Locking, Held
<1>3. Distinct' /\ position' \in Rows
  BY DEF RowInv, Distinct, Dropped, Stored
<1>4. Unique'
  BY <1>1 DEF RowInv, Unique, Held, Dropped, Stored
<1> QED
  BY <1>1, <1>2, <1>3, <1>4 DEF RowInv

LEMMA WroteKeeps ==
  ASSUME TypeOK, RowInv, NEW h \in Handlers, NEW b \in Banners, NEW i \in Indices,
         Wrote(h, b, i)
  PROVE  RowInv'
<1>1. /\ written' \in [Handlers -> Rows]
      /\ DOMAIN written'[h] = DOMAIN written[h] \union {b}
      /\ written'[h][b] = i
      /\ \A c \in DOMAIN written[h] \ {b} : written'[h][c] = written[h][c]
      /\ \A g \in Handlers \ {h} : written'[g] = written[g]
  BY WriteFacts DEF Wrote
<1>2. /\ position' = position /\ removed' = removed /\ Stored' = Stored
  BY DEF Wrote, Stored
<1>3. Locking'
  BY <1>1, <1>2 DEF RowInv, Locking, Held, Wrote, Locked
<1>4. /\ \A c \in DOMAIN written[h] : c # b => written[h][c] # i
      /\ \A c \in Stored \ Held(h) : c # b => position[c] # i
  BY ViewFacts DEF RowInv, Locking, Wrote, Taken, Held
<1>5. \A g \in Handlers \ {h} : \A c \in DOMAIN written[g] : written[g][c] # i
  BY DEF Wrote, InDoubt
<1>6. Unique'
  BY <1>1, <1>2, <1>4, <1>5 DEF RowInv, Unique, Held
<1> QED
  BY <1>1, <1>2, <1>3, <1>6 DEF RowInv, Distinct

LEMMA DeletedKeeps ==
  ASSUME TypeOK, RowInv, NEW h \in Handlers, Deleted(h)
  PROVE  RowInv'
<1>1. /\ removed' \in [Handlers -> SUBSET Banners]
      /\ removed'[h] = target[h] \intersect Stored
      /\ \A g \in Handlers \ {h} : removed'[g] = removed[g]
      /\ written' = written /\ position' = position /\ Stored' = Stored
  BY DEF TypeOK, RowInv, Deleted, Stored
<1>2. Locking'
  BY <1>1 DEF RowInv, Locking, Held, Deleted, Locked
<1>3. \A g \in Handlers : DOMAIN written[g] # {} => Held(g)' = Held(g)
  BY <1>1 DEF Held, Deleted
<1>4. Unique'
  BY <1>1, <1>3 DEF RowInv, Unique
<1> QED
  BY <1>1, <1>2, <1>4 DEF RowInv, Distinct

(* A commit publishes rows that no other transaction holds.                 *)
LEMMA CommittedKeeps ==
  ASSUME TypeOK, RowInv, NEW h \in Handlers, Committed(h)
  PROVE  RowInv'
<1>1. /\ written' \in [Handlers -> Rows]
      /\ removed' \in [Handlers -> SUBSET Banners]
      /\ DOMAIN written'[h] = {} /\ removed'[h] = {}
      /\ \A g \in Handlers \ {h} : written'[g] = written[g] /\ removed'[g] = removed[g]
  BY NoRowsType DEF RowInv, Committed
<1>2. /\ Stored' = (Stored \union DOMAIN written[h]) \ removed[h]
      /\ \A b \in Stored' : position'[b] = IF b \in DOMAIN written[h]
                                          THEN written[h][b] ELSE position[b]
  BY ViewFacts DEF Committed, Stored
<1>3. position' \in Rows
  <2>1. position \in Rows /\ written[h] \in Rows
    BY DEF RowInv
  <2>2. /\ DOMAIN View(h) \in SUBSET Banners
        /\ \A b \in DOMAIN View(h) : View(h)[b] \in Indices
    BY <2>1, RowsType, ViewFacts DEF Stored
  <2>3. View(h) \in [DOMAIN View(h) -> Indices]
    BY <2>2 DEF View
  <2> QED
    BY <2>2, <2>3, RowsIntro DEF Committed
<1>4. Locking'
  BY <1>1 DEF RowInv, Locking, Held
<1>5. Distinct'
  BY <1>2 DEF RowInv, Distinct, Unique, Held
<1>6. Unique'
  <2> SUFFICES ASSUME NEW g \in Handlers, g # h, NEW b \in DOMAIN written[g]
               PROVE  /\ \A c \in DOMAIN written[g] : written[g][b] = written[g][c] => b = c
                      /\ \A c \in Stored' \ Held(g) : position'[c] # written[g][b]
                      /\ \A f \in Handlers \ {g} : \A c \in DOMAIN written'[f] :
                           written'[f][c] # written[g][b]
    BY <1>1 DEF Unique, Held
  <2>1. \A c \in Stored' \ Held(g) : position'[c] # written[g][b]
    BY <1>2 DEF RowInv, Unique
  <2>2. \A f \in Handlers \ {g} : \A c \in DOMAIN written'[f] :
          written'[f][c] # written[g][b]
    BY <1>1 DEF RowInv, Unique
  <2> QED
    BY <2>1, <2>2 DEF RowInv, Unique
<1> QED
  BY <1>1, <1>3, <1>4, <1>5, <1>6 DEF RowInv

(* The step of every action, as one of these.                               *)
Effect(h) ==
  \/ UNCHANGED rows
  \/ Dropped(h)
  \/ \E b \in Banners, i \in Indices : Wrote(h, b, i)
  \/ Deleted(h)
  \/ Committed(h)

LEMMA EffectKeeps ==
  ASSUME TypeOK, RowInv, NEW h \in Handlers, Effect(h)
  PROVE  RowInv'
<1>1. CASE UNCHANGED rows
  BY <1>1 DEF rows, RowInv, Locking, Distinct, Unique, Held, Stored
<1>2. CASE Dropped(h)
  BY <1>2, DroppedKeeps
<1>3. CASE \E b \in Banners, i \in Indices : Wrote(h, b, i)
  BY <1>3, WroteKeeps
<1>4. CASE Deleted(h)
  BY <1>4, DeletedKeeps
<1>5. CASE Committed(h)
  BY <1>5, CommittedKeeps
<1> QED
  BY <1>1, <1>2, <1>3, <1>4, <1>5 DEF Effect

Begins(h) == BeginUpload(h) \/ BeginReorder(h) \/ BeginDelete(h)

LEMMA Effects ==
  ASSUME IInv, NEW h \in Handlers, Begins(h) \/ Operation(h) \/ Crash(h)
  PROVE  Effect(h)
<1> USE DEF Effect
<1>1. CASE Begins(h)
  BY <1>1 DEF Begins, BeginUpload, BeginReorder, BeginDelete, Begin
<1>2. CASE Put(h)
  BY <1>2 DEF Put
<1>3. CASE Insert(h)
  <2>1. /\ size[h] \in Indices /\ target[h] \subseteq Banners
        /\ target[h] \intersect Stored = {} /\ removed[h] = {}
    BY <1>3, BannerAssumption DEF Insert, IInv, TypeOK, Transactions, Freshness,
       Indices, BannerAssumption
  <2>2. CASE UNCHANGED written
    BY <1>3, <2>2 DEF Insert, rows
  <2>3. PICK b \in target[h] :
           written' # written =>
             ~InDoubt(h, size[h]) /\ ~Taken(h, b, size[h]) /\ WriteRow(h, b, size[h])
    BY <1>3 DEF Insert, AppendIndex
  <2>4. ~Locked(h, b)
    <3> SUFFICES ASSUME NEW g \in Handlers \ {h}, b \in DOMAIN written[g] PROVE FALSE
      BY <2>1 DEF Locked, IInv, Transactions
    <3>1. CASE pc[g] = "commit"
      BY <1>3, <3>1 DEF Insert, IInv, Transactions, Freshness, Unfinished, Uploading
    <3>2. CASE pc[g] # "commit"
      BY <2>1, <3>2 DEF IInv, Transactions
    <3> QED
      BY <3>1, <3>2
  <2> QED
    BY <1>3, <2>1, <2>2, <2>3, <2>4 DEF Insert, Wrote
<1>4. CASE Cleanup(h)
  BY <1>4 DEF Cleanup, Forget, Dropped
<1>5. CASE CommitUpload(h)
  <2>1. removed[h] = {} /\ removed \in [Handlers -> SUBSET Banners]
    BY <1>5 DEF CommitUpload, IInv, TypeOK, Transactions
  <2> QED
    BY <1>5, <2>1 DEF CommitUpload, Forget, Committed
<1>6. CASE DeleteRow(h)
  BY <1>6 DEF DeleteRow, Deleted, IInv, Transactions
<1>7. CASE Renumber(h)
  <2>1. CASE UNCHANGED written
    BY <1>7, <2>1 DEF Renumber, rows
  <2>2. CASE written' # written
    <3>1. PICK b \in DOMAIN rank[h] :
            /\ Due(h, b) /\ ~Locked(h, b) /\ b \in Stored
            /\ ~InDoubt(h, DueIndex(h, b)) /\ ~Taken(h, b, DueIndex(h, b))
            /\ WriteRow(h, b, DueIndex(h, b))
      BY <1>7, <2>2 DEF Renumber
    <3>2. b \in Banners /\ b \notin removed[h]
      BY <1>7, RowsType DEF Renumber, IInv, TypeOK, Passing, InSequence
    <3>3. rank[h][b] \in 0 .. size[h] - 1 /\ size[h] \in 0 .. MaxBanners
      BY <1>7 DEF Renumber, IInv, TypeOK, Passing, InSequence
    <3>4. DueIndex(h, b) \in Indices
      BY <3>3, BannerAssumption DEF DueIndex, Indices, BannerAssumption
    <3> QED
      BY <1>7, <3>1, <3>2, <3>4 DEF Renumber, Wrote
  <2> QED
    BY <2>1, <2>2
<1>8. CASE RenumberCollides(h)
  BY <1>8 DEF RenumberCollides, Forget, Dropped
<1>9. CASE CommitOrder(h)
  BY <1>9 DEF CommitOrder, Forget, Committed
<1>10. CASE FailDatabase(h)
  <2>1. CASE pc[h] \in {"insert", "commit"}
    <3>1. removed[h] = {} /\ removed \in [Handlers -> SUBSET Banners]
      BY <2>1 DEF IInv, TypeOK, Transactions
    <3> QED
      BY <1>10, <2>1, <3>1 DEF FailDatabase, Dropped
  <2> QED
    BY <1>10, <2>1 DEF FailDatabase, Forget, Dropped
<1>11. CASE Crash(h)
  BY <1>11 DEF Crash, Forget, Dropped
<1> QED
  BY <1>1, <1>2, <1>3, <1>4, <1>5, <1>6, <1>7, <1>8, <1>9, <1>10, <1>11
     DEF Operation

----------------------------------------------------------------------------
(* Types *)

LEMMA ForgetType ==
  ASSUME TypeOK, NEW h \in Handlers, Forget(h)
  PROVE  /\ target' \in [Handlers -> SUBSET Banners]
         /\ size' \in [Handlers -> 0 .. MaxBanners]
         /\ rank' \in [Handlers -> Rows]
         /\ step' \in [Handlers -> Nat]
BY NoRowsType, BannerAssumption DEF TypeOK, Forget, BannerAssumption

LEMMA StepTypes ==
  ASSUME IInv, NEW h \in Handlers, Begins(h) \/ Operation(h) \/ Crash(h)
  PROVE  TypeOK'
<1> USE BannerAssumption DEF BannerAssumption
<1>0. TypeOK /\ Distinct /\ PositionsInRange /\ RowInv
  BY DEF IInv, RowInv, TypeOK
<1>1. /\ position' \in Rows /\ written' \in [Handlers -> Rows]
      /\ removed' \in [Handlers -> SUBSET Banners]
  BY <1>0, Effects, EffectKeeps DEF RowInv
<1>2. pc' \in [Handlers -> PCs]
  BY <1>0 DEF TypeOK, PCs, Begins, BeginUpload, BeginReorder, BeginDelete, Begin, Goto,
     Operation, Put, Insert, Cleanup, CommitUpload, DeleteRow, Renumber, RenumberCollides,
     CommitOrder, FailDatabase, Crash
<1>3. /\ objects' \subseteq used' /\ used' \subseteq Banners
      /\ operations' \in Nat /\ orphaned' \subseteq Banners
      /\ shown' \subseteq Banners /\ doubtful' \subseteq Banners
      /\ overlapping' \subseteq Handlers
  <2>1. CASE Begins(h)
    BY <1>0, <2>1 DEF TypeOK, Begins, BeginUpload, BeginReorder, BeginDelete, Begin, history
  <2>2. CASE Put(h)
    BY <1>0, <2>2 DEF TypeOK, Put, started, history, IInv, Freshness, Unfinished, Uploading
  <2>3. CASE Operation(h) /\ ~Put(h)
    BY <1>0, <2>3 DEF TypeOK, Operation, Insert, Cleanup, CommitUpload, DeleteRow, Renumber,
       RenumberCollides, CommitOrder, FailDatabase, started, history
  <2>4. CASE Crash(h)
    BY <1>0, <2>4 DEF TypeOK, Crash, started
  <2> QED
    BY <2>1, <2>2, <2>3, <2>4
<1>4. /\ target' \in [Handlers -> SUBSET Banners]
      /\ size' \in [Handlers -> 0 .. MaxBanners]
      /\ rank' \in [Handlers -> Rows]
      /\ step' \in [Handlers -> Nat]
  <2>0. /\ IsFiniteSet(Stored) /\ Cardinality(Stored) \in 0 .. MaxBanners
        /\ Stored \subseteq Banners
    BY <1>0, AtMostMax, RowsType DEF TypeOK, Stored
  <2>1. CASE BeginUpload(h)
    BY <1>0, <2>0, <2>1 DEF TypeOK, BeginUpload, Begin
  <2>2. CASE BeginReorder(h)
    <3>1. PICK r \in Numberings(Stored) : rank' = [rank EXCEPT ![h] = r]
      BY <2>2 DEF BeginReorder
    <3>2. r \in [Stored -> Indices]
      BY <2>0, <3>1 DEF Numberings, Indices
    <3>3. r \in Rows
      BY <2>0, <3>2, RowsIntro
    <3> QED
      BY <1>0, <2>0, <2>2, <3>1, <3>3 DEF TypeOK, BeginReorder, Begin
  <2>3. CASE BeginDelete(h)
    <3>1. PICK b \in Stored :
            /\ target' = [target EXCEPT ![h] = {b}]
            /\ size' = [size EXCEPT ![h] = Cardinality(Stored \ {b})]
            /\ rank' = [rank EXCEPT ![h] = Renumbered(Stored \ {b})]
      BY <2>3 DEF BeginDelete
    <3>2. /\ IsFiniteSet(Stored \ {b}) /\ Stored \ {b} \in SUBSET Stored
          /\ Cardinality(Stored \ {b}) \in 0 .. MaxBanners
      <4>1. /\ IsFiniteSet(Stored \ {b})
            /\ Cardinality(Stored \ {b}) = Cardinality(Stored) - 1
        BY <2>0, FS_RemoveElement
      <4>2. Cardinality(Stored \ {b}) \in Nat
        BY <4>1, FS_CardinalityType
      <4> QED
        BY <2>0, <4>1, <4>2
    <3>3. \A c \in Stored \ {b} :
            Renumbered(Stored \ {b})[c] \in 0 .. Cardinality(Stored \ {b}) - 1
      BY <1>0, <3>2, RenumberedFacts
    <3>4. Renumbered(Stored \ {b}) \in [Stored \ {b} -> Indices]
      BY SMTT(30), <3>2, <3>3 DEF Renumbered, Indices
    <3>5. Renumbered(Stored \ {b}) \in Rows
      BY <2>0, <3>4, RowsIntro
    <3> QED
      BY <1>0, <2>0, <2>3, <3>1, <3>2, <3>5 DEF TypeOK, BeginDelete, Begin
  <2>4. CASE Operation(h) \/ Crash(h)
    <3>1. CASE Forget(h)
      BY <1>0, <3>1, ForgetType
    <3>2. CASE UNCHANGED plan
      BY <1>0, <3>2 DEF TypeOK, plan
    <3>3. CASE Renumber(h)
      BY <1>0, <3>3 DEF TypeOK, Renumber
    <3> QED
      BY <2>4, <3>1, <3>2, <3>3 DEF Operation, Put, Insert, Cleanup, CommitUpload, DeleteRow,
         RenumberCollides, CommitOrder, FailDatabase, Crash
  <2> QED
    BY <2>1, <2>2, <2>3, <2>4 DEF Begins
<1> QED
  BY <1>1, <1>2, <1>3, <1>4 DEF TypeOK

----------------------------------------------------------------------------
(* A step of one handler leaves the others alone.                           *)

Frame(h) ==
  \A g \in Handlers \ {h} :
    /\ pc'[g] = pc[g] /\ written'[g] = written[g] /\ removed'[g] = removed[g]
    /\ target'[g] = target[g] /\ size'[g] = size[g]
    /\ rank'[g] = rank[g] /\ step'[g] = step[g]

LEMMA Framed ==
  ASSUME IInv, NEW h \in Handlers, Begins(h) \/ Operation(h) \/ Crash(h)
  PROVE  Frame(h)
<1>0. TypeOK
  BY DEF IInv
<1>1. \A g \in Handlers \ {h} : pc'[g] = pc[g]
  BY <1>0 DEF TypeOK, Begins, BeginUpload, BeginReorder, BeginDelete, Begin, Goto,
     Operation, Put, Insert, Cleanup, CommitUpload, DeleteRow, Renumber, RenumberCollides,
     CommitOrder, FailDatabase, Crash
<1>2. \A g \in Handlers \ {h} : written'[g] = written[g] /\ removed'[g] = removed[g]
  <2>1. CASE UNCHANGED rows \/ Dropped(h) \/ Deleted(h) \/ Committed(h)
    BY <1>0, <2>1 DEF TypeOK, rows, Dropped, Deleted, Committed
  <2>2. CASE \E b \in Banners, i \in Indices : Wrote(h, b, i)
    BY <1>0, <2>2, WriteFacts DEF Wrote
  <2> QED
    BY <2>1, <2>2, Effects DEF Effect
<1>3. \A g \in Handlers \ {h} : /\ target'[g] = target[g] /\ size'[g] = size[g]
                                /\ rank'[g] = rank[g] /\ step'[g] = step[g]
  <2>1. CASE Begins(h)
    BY <1>0, <2>1 DEF TypeOK, Begins, BeginUpload, BeginReorder, BeginDelete, Begin
  <2>2. CASE Forget(h)
    BY <1>0, <2>2 DEF TypeOK, Forget
  <2>3. CASE UNCHANGED plan
    BY <2>3 DEF plan
  <2>4. CASE Renumber(h)
    BY <1>0, <2>4 DEF TypeOK, Renumber
  <2> QED
    BY <2>1, <2>2, <2>3, <2>4 DEF Operation, Put, Insert, Cleanup, CommitUpload, DeleteRow,
       RenumberCollides, CommitOrder, FailDatabase, Crash
<1> QED
  BY <1>1, <1>2, <1>3 DEF Frame

(* Rows come from a commit and go with one.                                 *)
LEMMA StoredMoves ==
  ASSUME IInv, NEW h \in Handlers, Begins(h) \/ Operation(h) \/ Crash(h)
  PROVE  /\ Stored' \subseteq Stored \union DOMAIN written[h]
         /\ Stored \ removed[h] \subseteq Stored'
         /\ pc[h] \notin {"commit", "renumber"} => Stored' = Stored
         /\ Stored' # Stored => CommitUpload(h) \/ CommitOrder(h)
<1>1. CASE CommitUpload(h) \/ CommitOrder(h)
  BY <1>1, ViewFacts DEF CommitUpload, CommitOrder, Stored
<1>2. CASE ~(CommitUpload(h) \/ CommitOrder(h))
  <2>1. position' = position
    BY <1>2 DEF Begins, BeginUpload, BeginReorder, BeginDelete, Begin, Operation, Put, Insert,
       Cleanup, DeleteRow, Renumber, RenumberCollides, FailDatabase, Crash, rows
  <2> QED
    BY <2>1 DEF Stored
<1> QED
  BY <1>1, <1>2

----------------------------------------------------------------------------
(* The parts of the invariant about handlers *)

LEMMA FreshnessStep ==
  ASSUME IInv, TypeOK', NEW h \in Handlers, Begins(h) \/ Operation(h) \/ Crash(h)
  PROVE  Freshness'
<1>0. TypeOK /\ Transactions /\ Freshness /\ Frame(h)
  BY Framed DEF IInv
<1> USE DEF Unfinished, Uploading
<1>1. used \subseteq used'
  BY DEF Begins, BeginUpload, BeginReorder, BeginDelete, Begin, Operation, Put, Insert,
     Cleanup, CommitUpload, DeleteRow, Renumber, RenumberCollides, CommitOrder,
     FailDatabase, Crash, started
<1>2. DOMAIN written[h] \subseteq used
  BY <1>0 DEF Transactions, Freshness
<1>3. Stored' \subseteq used'
  BY <1>0, <1>1, <1>2, StoredMoves DEF Freshness
<1>4. \/ ~Unfinished(h)'
      \/ BeginUpload(h)
      \/ target'[h] = target[h] /\ Unfinished(h)
  BY <1>0 DEF TypeOK, Begins, BeginUpload, BeginReorder, BeginDelete, Begin, Goto,
     Operation, Put, Insert, Cleanup, CommitUpload, DeleteRow, Renumber, RenumberCollides,
     CommitOrder, FailDatabase, Crash, plan
<1>5. BeginUpload(h) => /\ target'[h] \intersect used = {}
                        /\ target'[h] \subseteq used'
                        /\ Stored' = Stored
  BY <1>0 DEF TypeOK, BeginUpload, Begin, rows, Stored
<1>6. \A g \in Handlers : Unfinished(g)' => target'[g] \subseteq used'
  BY <1>0, <1>1, <1>4, <1>5 DEF Freshness, Frame
<1>7. \A f, g \in Handlers :
        Unfinished(f)' /\ Unfinished(g)' /\ f # g => target'[f] \intersect target'[g] = {}
  BY <1>0, <1>4, <1>5 DEF Freshness, Frame
<1>8. ASSUME NEW g \in Handlers, pc'[g] \in {"put", "insert", "commit"}
      PROVE  target'[g] \intersect Stored' = {}
  <2>1. CASE g # h
    <3>1. target[g] \intersect DOMAIN written[h] = {}
      BY <1>0, <1>8, <2>1 DEF Transactions, Freshness, Frame
    <3> QED
      BY <1>0, <1>8, <2>1, <3>1, StoredMoves DEF Freshness, Frame
  <2>2. CASE g = h /\ BeginUpload(h)
    BY <1>0, <1>5, <2>2 DEF Freshness
  <2>3. CASE g = h /\ ~BeginUpload(h)
    <3>1. Stored' = Stored /\ pc[h] \in {"put", "insert", "commit"}
      BY <1>0, <1>8, <2>3, StoredMoves DEF TypeOK, Begins, BeginReorder, BeginDelete, Begin,
         Goto, Operation, Put, Insert, Cleanup, CommitUpload, DeleteRow, Renumber,
         RenumberCollides, CommitOrder, FailDatabase, Crash
    <3>2. target'[h] = target[h]
      BY <1>4, <1>8, <2>3
    <3> QED
      BY <1>0, <2>3, <3>1, <3>2 DEF Freshness
  <2> QED
    BY <2>1, <2>2, <2>3
<1> QED
  BY <1>3, <1>6, <1>7, <1>8 DEF Freshness

(* What one handler holds and why, as a condition on that handler           *)
Accountable(h) ==
  /\ pc[h] = "idle" => target[h] = {}
  /\ \A b, c \in target[h] : b = c
  /\ pc[h] \notin {"renumber", "commit"} => DOMAIN written[h] = {}
  /\ pc[h] # "renumber" => removed[h] = {}
  /\ removed[h] \subseteq Stored
  /\ pc[h] = "commit" => /\ DOMAIN written[h] = target[h]
                         /\ \A b \in target[h] : written[h][b] = size[h]
  /\ pc[h] \in {"put", "insert", "commit"} => size[h] < MaxBanners
  /\ pc[h] = "renumber" => DOMAIN written[h] \subseteq Stored \intersect DOMAIN rank[h]

LEMMA AccountableStep ==
  ASSUME IInv, TypeOK', NEW h \in Handlers, Begins(h) \/ Operation(h) \/ Crash(h)
  PROVE  Accountable(h)'
<1>0. TypeOK /\ Accountable(h)
  BY DEF IInv, Transactions, Accountable
<1>00. pc \in [Handlers -> PCs] /\ written \in [Handlers -> Rows]
  BY <1>0 DEF TypeOK
<1>1. CASE Begins(h)
  <2>1. /\ written' = written /\ removed' = removed /\ Stored' = Stored /\ pc[h] = "idle"
    BY <1>1 DEF Begins, BeginUpload, BeginReorder, BeginDelete, Begin, rows, Stored
  <2>2. pc'[h] \in {"put", "delete", "renumber"}
    BY <1>00, <1>1 DEF Begins, BeginUpload, BeginReorder, BeginDelete, Begin, Goto
  <2>3. pc'[h] = "put" => size'[h] < MaxBanners
    BY <1>00, <1>0, <1>1 DEF TypeOK, Begins, BeginUpload, BeginReorder, BeginDelete, Begin, Goto,
       CanAdd
  <2>4. \A b, c \in target'[h] : b = c
    <3>1. PICK S \in SUBSET Banners : /\ \A b, c \in S : b = c
                                      /\ target' = [target EXCEPT ![h] = S]
      <4>1. target = [target EXCEPT ![h] = target[h]] /\ target[h] \in SUBSET Banners
        BY <1>0 DEF TypeOK
      <4>2. CASE BeginReorder(h)
        BY <1>0, <4>1, <4>2 DEF BeginReorder, Accountable
      <4>3. CASE BeginUpload(h)
        BY <4>3 DEF BeginUpload
      <4>4. CASE BeginDelete(h)
        <5>1. PICK b \in Stored : target' = [target EXCEPT ![h] = {b}]
          BY <4>4 DEF BeginDelete
        <5>2. b \in Banners
          BY <1>0, <5>1, RowsType DEF TypeOK, Stored
        <5> QED
          BY <5>1, <5>2
      <4> QED
        BY <1>1, <4>2, <4>3, <4>4 DEF Begins
    <3> QED
      BY <1>0, <3>1 DEF TypeOK
  <2> QED
    BY <1>0, <2>1, <2>2, <2>3, <2>4 DEF Accountable
<1>2. CASE Forget(h) /\ Goto(h, "idle")
  BY <1>0, <1>00, <1>2, NoRowsType DEF TypeOK, Forget, Goto, Accountable
<1>3. CASE Put(h)
  BY <1>0, <1>00, <1>3 DEF Put, Goto, rows, plan, Accountable, Stored
<1>4. CASE Insert(h)
  <2>1. /\ pc[h] = "insert" /\ DOMAIN written[h] = {} /\ removed[h] = {}
        /\ removed' = removed /\ target' = target /\ size' = size
        /\ size[h] < MaxBanners
    BY <1>0, <1>4 DEF Insert, plan, Accountable
  <2>2. CASE pc'[h] = "cleanup"
    <3>1. written' = written
      BY <1>00, <1>4, <2>2 DEF Insert, Goto
    <3> QED
      BY <1>0, <1>4, <2>1, <2>2, <3>1 DEF Insert, Accountable, Stored
  <2>3. CASE pc'[h] # "cleanup"
    <3>1. PICK b \in target[h] : WriteRow(h, b, size[h]) /\ Goto(h, "commit")
      BY <1>00, <1>4, <2>3 DEF Insert, Goto, AppendIndex
    <3>2. b \in Banners /\ size[h] \in Indices
      BY <1>0, <2>1, BannerAssumption DEF TypeOK, Indices, BannerAssumption
    <3>3. DOMAIN written'[h] = {b} /\ written'[h][b] = size[h]
      BY <1>0, <2>1, <3>1, <3>2, WriteFacts
    <3>4. target[h] = {b}
      BY <1>0 DEF Accountable
    <3> QED
      BY <1>00, <2>1, <3>1, <3>3, <3>4 DEF Goto, Accountable
  <2> QED
    BY <2>2, <2>3
<1>5. CASE CommitUpload(h) /\ ~(Forget(h) /\ Goto(h, "idle"))
  <2>1. /\ pc[h] = "commit" /\ pc'[h] = "cleanup" /\ DOMAIN written'[h] = {}
        /\ removed' = removed /\ target' = target
    BY <1>00, <1>5, NoRowsType DEF CommitUpload, Goto, plan
  <2> QED
    BY <1>0, <2>1 DEF Accountable
<1>6. CASE DeleteRow(h)
  BY <1>0, <1>00, <1>6 DEF TypeOK, DeleteRow, Goto, plan, Accountable, Stored
<1>7. CASE Renumber(h)
  <2>1. /\ pc' = pc /\ pc[h] = "renumber" /\ removed' = removed /\ rank' = rank
        /\ Stored' = Stored /\ target' = target
    BY <1>7 DEF Renumber, Stored
  <2>2. CASE written' = written
    BY <1>0, <2>1, <2>2 DEF Accountable
  <2>3. CASE written' # written
    <3>1. PICK b \in DOMAIN rank[h] : b \in Stored /\ WriteRow(h, b, DueIndex(h, b))
      BY <1>7, <2>3 DEF Renumber
    <3>2. DOMAIN written'[h] = DOMAIN written[h] \union {b}
      BY <1>00, <3>1 DEF WriteRow
    <3> QED
      BY <1>0, <2>1, <3>1, <3>2 DEF Accountable
  <2> QED
    BY <2>2, <2>3
<1>8. CASE FailDatabase(h) /\ pc[h] \in {"insert", "commit"}
  BY <1>0, <1>00, <1>8, NoRowsType DEF FailDatabase, Goto, plan, Accountable, Stored
<1>9. CASE Cleanup(h) \/ RenumberCollides(h) \/ CommitOrder(h) \/ Crash(h)
  BY <1>2, <1>9 DEF Cleanup, RenumberCollides, CommitOrder, Crash
<1>10. CASE CommitUpload(h)
  BY <1>2, <1>5, <1>10 DEF CommitUpload
<1>11. CASE FailDatabase(h)
  BY <1>2, <1>8, <1>11 DEF FailDatabase
<1> QED
  BY <1>1, <1>3, <1>4, <1>6, <1>7, <1>9, <1>10, <1>11 DEF Operation

LEMMA TransactionsStep ==
  ASSUME IInv, TypeOK', NEW h \in Handlers, Begins(h) \/ Operation(h) \/ Crash(h)
  PROVE  Transactions'
<1> SUFFICES ASSUME NEW g \in Handlers PROVE Accountable(g)'
  BY DEF Transactions, Accountable
<1>1. CASE g = h
  BY <1>1, AccountableStep
<1>2. CASE g # h
  <2>1. Held(g) \intersect Held(h) = {} /\ Accountable(g) /\ Frame(h)
    BY <1>2, Framed DEF IInv, Locking, Transactions, Accountable
  <2>2. Held(g) \intersect Stored \subseteq Stored'
    BY <2>1, StoredMoves DEF Held
  <2> QED
    BY <1>2, <2>1, <2>2 DEF Accountable, Frame, Held
<1> QED
  BY <1>1, <1>2

(* The numbering one handler is writing                                     *)
OnItsWay(h) ==
  InSequence(h) =>
    /\ DOMAIN rank[h] \intersect (target[h] \union removed[h]) = {}
    /\ \A b \in DOMAIN rank[h] : rank[h][b] \in 0 .. size[h] - 1
    /\ \A b, c \in DOMAIN rank[h] : rank[h][b] = rank[h][c] => b = c
    /\ \A b \in DOMAIN written[h] \intersect DOMAIN rank[h] :
         step[h] > size[h] + rank[h][b] => written[h][b] = rank[h][b]

LEMMA RenumberMovesOn ==
  ASSUME IInv, NEW h \in Handlers, Renumber(h)
  PROVE  OnItsWay(h)'
<1>0. TypeOK /\ OnItsWay(h) /\ Accountable(h)
  BY DEF IInv, Passing, OnItsWay, Transactions, Accountable
<1>1. /\ pc' = pc /\ pc[h] = "renumber" /\ removed' = removed /\ rank' = rank
      /\ target' = target /\ size' = size
  BY DEF Renumber
<1>2. /\ size[h] \in Nat /\ step[h] \in Nat /\ step'[h] = step[h] + 1
  BY <1>0, BannerAssumption DEF TypeOK, Renumber, BannerAssumption
<1>3. PICK b \in DOMAIN rank[h] :
        /\ Due(h, b)
        /\ \/ b \in Stored /\ WriteRow(h, b, DueIndex(h, b))
           \/ b \notin Stored /\ UNCHANGED written
  BY DEF Renumber
<1>4. \A c \in DOMAIN rank[h] : rank[h][c] \in 0 .. size[h] - 1
  BY <1>0, <1>1 DEF OnItsWay, InSequence
<1>5. ASSUME NEW c \in DOMAIN rank[h], c # b, step'[h] > size[h] + rank[h][c]
      PROVE  step[h] > size[h] + rank[h][c]
  <2>1. step[h] # size[h] + rank[h][c]
    <3>1. rank[h][b] # rank[h][c]
      BY <1>0, <1>1, <1>5 DEF OnItsWay, InSequence
    <3> QED
      BY <1>2, <1>3, <1>4, <3>1 DEF Due
  <2> QED
    BY <1>2, <1>4, <1>5, <2>1
<1>6. CASE b \in Stored /\ WriteRow(h, b, DueIndex(h, b))
  <2>1. /\ DOMAIN written'[h] = DOMAIN written[h] \union {b}
        /\ written'[h][b] = DueIndex(h, b)
        /\ \A c \in DOMAIN written[h] \ {b} : written'[h][c] = written[h][c]
    <3>1. written \in [Handlers -> Rows]
      BY <1>0 DEF TypeOK
    <3> QED
      BY <1>6, <3>1 DEF WriteRow
  <2>2. step'[h] > size[h] + rank[h][b] => DueIndex(h, b) = rank[h][b]
    BY <1>2, <1>3, <1>4 DEF Due, DueIndex
  <2>3. \A c \in DOMAIN written'[h] \intersect DOMAIN rank[h] :
          step'[h] > size[h] + rank[h][c] => written'[h][c] = rank[h][c]
    BY <1>0, <1>1, <1>5, <2>1, <2>2 DEF OnItsWay, InSequence
  <2> QED
    BY <1>0, <1>1, <2>3 DEF OnItsWay, InSequence
<1>7. CASE b \notin Stored /\ UNCHANGED written
  <2>1. b \notin DOMAIN written[h]
    BY <1>0, <1>1, <1>7 DEF Accountable
  <2> QED
    BY <1>0, <1>1, <1>5, <1>7, <2>1 DEF OnItsWay, InSequence
<1> QED
  BY <1>3, <1>6, <1>7

LEMMA PassingStep ==
  ASSUME IInv, TypeOK', NEW h \in Handlers, Begins(h) \/ Operation(h) \/ Crash(h)
  PROVE  Passing'
<1> SUFFICES ASSUME NEW g \in Handlers PROVE OnItsWay(g)'
  BY DEF Passing, OnItsWay
<1>0. TypeOK /\ OnItsWay(h) /\ OnItsWay(g) /\ Accountable(h) /\ Distinct /\ PositionsInRange
  BY DEF IInv, Passing, OnItsWay, Transactions, Accountable
<1>1. CASE g # h
  BY <1>0, <1>1, Framed DEF OnItsWay, InSequence, Frame
<1>2. CASE g = h
  <2>1. CASE BeginUpload(h)
    BY <1>0, <1>2, <2>1 DEF TypeOK, BeginUpload, Begin, Goto, OnItsWay, InSequence
  <2>2. CASE BeginReorder(h)
    <3>1. PICK r \in Numberings(Stored) : rank' = [rank EXCEPT ![h] = r]
      BY <2>2 DEF BeginReorder
    <3>2. /\ rank'[h] = r /\ DOMAIN r = Stored
          /\ size'[h] = Cardinality(Stored) /\ written'[h] = written[h]
          /\ target'[h] = target[h] /\ removed'[h] = removed[h] /\ pc[h] = "idle"
      BY <1>0, <2>2, <3>1 DEF TypeOK, BeginReorder, Begin, rows, Numberings
    <3>3. /\ \A b \in Stored : r[b] \in 0 .. Cardinality(Stored) - 1
          /\ \A b, c \in Stored : r[b] = r[c] => b = c
      BY <3>1 DEF Numberings
    <3>4. target[h] = {} /\ removed[h] = {} /\ DOMAIN written[h] = {}
      BY <1>0, <3>2 DEF Accountable
    <3> QED
      BY <1>2, <3>2, <3>3, <3>4 DEF OnItsWay
  <2>3. CASE BeginDelete(h)
    <3>1. PICK b \in Stored :
            /\ target' = [target EXCEPT ![h] = {b}]
            /\ size' = [size EXCEPT ![h] = Cardinality(Stored \ {b})]
            /\ rank' = [rank EXCEPT ![h] = Renumbered(Stored \ {b})]
      BY <2>3 DEF BeginDelete
    <3>2. IsFiniteSet(Stored \ {b}) /\ Stored \ {b} \in SUBSET Stored
      BY <1>0, AtMostMax, FS_RemoveElement
    <3>3. /\ DOMAIN Renumbered(Stored \ {b}) = Stored \ {b}
          /\ \A c \in Stored \ {b} :
               Renumbered(Stored \ {b})[c] \in 0 .. Cardinality(Stored \ {b}) - 1
          /\ \A c, d \in Stored \ {b} :
               Renumbered(Stored \ {b})[c] = Renumbered(Stored \ {b})[d] => c = d
      BY <1>0, <3>2, RenumberedFacts
    <3>4. /\ rank'[h] = Renumbered(Stored \ {b}) /\ target'[h] = {b}
          /\ size'[h] = Cardinality(Stored \ {b})
          /\ written'[h] = written[h] /\ removed'[h] = removed[h] /\ pc[h] = "idle"
      BY <1>0, <2>3, <3>1 DEF TypeOK, BeginDelete, Begin, rows
    <3>5. removed[h] = {} /\ DOMAIN written[h] = {}
      BY <1>0, <3>4 DEF Accountable
    <3> QED
      BY <1>2, <3>3, <3>4, <3>5 DEF OnItsWay
  <2>4. CASE DeleteRow(h)
    BY <1>0, <1>2, <2>4 DEF TypeOK, DeleteRow, Goto, plan, OnItsWay, InSequence
  <2>5. CASE Renumber(h)
    BY <1>2, <2>5, RenumberMovesOn
  <2>6. CASE (Operation(h) \/ Crash(h)) /\ ~DeleteRow(h) /\ ~Renumber(h)
    <3>1. ~InSequence(h)'
      BY <1>0, <2>6 DEF TypeOK, Goto, Operation, Put, Insert, Cleanup, CommitUpload,
         RenumberCollides, CommitOrder, FailDatabase, Crash, InSequence
    <3> QED
      BY <1>2, <3>1 DEF OnItsWay
  <2> QED
    BY <2>1, <2>2, <2>3, <2>4, <2>5, <2>6 DEF Begins
<1> QED
  BY <1>1, <1>2

(* Placeholders are gone when the second pass ends, and an upload appends   *)
(* below the limit it tested.                                               *)
LEMMA RangeStep ==
  ASSUME IInv, NEW h \in Handlers, Begins(h) \/ Operation(h) \/ Crash(h)
  PROVE  PositionsInRange'
<1> USE BannerAssumption DEF BannerAssumption
<1>0. TypeOK /\ Accountable(h) /\ PositionsInRange /\ Passing
  BY DEF IInv, Transactions, Accountable
<1>1. size[h] \in 0 .. MaxBanners /\ step[h] \in Nat
  BY <1>0 DEF TypeOK
<1>2. CASE CommitUpload(h)
  <2>1. \A b \in DOMAIN written[h] : written[h][b] \in 0 .. MaxBanners - 1
    BY <1>0, <1>1, <1>2 DEF CommitUpload, Accountable
  <2> QED
    BY ZenonT(60), <1>0, <1>2, <2>1, ViewFacts DEF CommitUpload, PositionsInRange, Stored
<1>3. CASE CommitOrder(h)
  <2>1. pc[h] = "renumber" /\ step[h] = 2 * size[h]
    BY <1>3 DEF CommitOrder, Passes
  <2>2. \A b \in DOMAIN written[h] : b \in DOMAIN rank[h] /\ rank[h][b] \in 0 .. size[h] - 1
    BY <1>0, <2>1 DEF Accountable, Passing, InSequence
  <2>3. \A b \in DOMAIN written[h] : step[h] > size[h] + rank[h][b]
    BY <1>1, <2>1, <2>2
  <2>4. \A b \in DOMAIN written[h] : written[h][b] = rank[h][b]
    BY <1>0, <2>1, <2>2, <2>3 DEF Passing, InSequence
  <2>5. \A b \in DOMAIN written[h] : written[h][b] \in 0 .. MaxBanners - 1
    BY <1>1, <2>2, <2>4
  <2> QED
    BY <1>0, <1>3, <2>5, ViewFacts DEF CommitOrder, PositionsInRange, Stored
<1>4. CASE ~(CommitUpload(h) \/ CommitOrder(h))
  <2>1. position' = position
    BY <1>4 DEF Begins, BeginUpload, BeginReorder, BeginDelete, Begin, Operation, Put, Insert,
       Cleanup, DeleteRow, Renumber, RenumberCollides, FailDatabase, Crash, rows
  <2> QED
    BY <1>0, <2>1 DEF PositionsInRange, Stored
<1> QED
  BY <1>2, <1>3, <1>4

(* Images come with a put and go with a clean-up.                           *)
LEMMA ObjectsMove ==
  ASSUME NEW h \in Handlers, Begins(h) \/ Operation(h) \/ Crash(h)
  PROVE  /\ Put(h) => objects' = objects \union target[h]
         /\ ~Put(h) => objects' \subseteq objects
         /\ Cleanup(h) => objects \ target[h] \subseteq objects'
         /\ ~Cleanup(h) => objects \subseteq objects'
         /\ shown \subseteq shown' /\ orphaned \subseteq orphaned'
         /\ doubtful \subseteq doubtful'
<1>1. Put(h) => objects' = objects \union target[h]
  BY DEF Put
<1>2. CASE Put(h) \/ Cleanup(h)
  BY <1>2 DEF Put, Cleanup, history
<1>3. CASE ~Put(h) /\ ~Cleanup(h)
  BY <1>3 DEF Begins, BeginUpload, BeginReorder, BeginDelete, Begin, Operation, Insert,
     CommitUpload, DeleteRow, Renumber, RenumberCollides, CommitOrder, FailDatabase, Crash,
     history
<1> QED
  BY <1>1, <1>2, <1>3

LEMMA ImagingStep ==
  ASSUME IInv, NEW h \in Handlers, Begins(h) \/ Operation(h) \/ Crash(h)
  PROVE  Imaging'
<1>0. TypeOK /\ Transactions /\ Freshness /\ Imaging /\ Frame(h)
  BY Framed DEF IInv
<1>1. ASSUME NEW g \in Handlers \ {h}
      PROVE  /\ pc'[g] \in {"insert", "commit"} => target'[g] \subseteq objects'
             /\ pc'[g] = "cleanup" => target'[g] \intersect Stored' \subseteq doubtful'
  <2>1. pc'[g] = pc[g] /\ target'[g] = target[g]
    BY <1>0 DEF Frame
  <2>2. Cleanup(h) => pc[h] = "cleanup"
    BY DEF Cleanup
  <2>3. pc'[g] \in {"insert", "commit"} => target'[g] \subseteq objects'
    BY <1>0, <2>1, <2>2, ObjectsMove DEF Imaging, Freshness, Unfinished, Uploading
  <2>4. pc[g] = "cleanup" => target[g] \intersect DOMAIN written[h] \subseteq Stored
    BY <1>0 DEF Transactions, Freshness, Unfinished, Uploading
  <2> QED
    BY <1>0, <2>1, <2>3, <2>4, ObjectsMove, StoredMoves DEF Imaging
<1>2. pc'[h] \in {"insert", "commit"} => target'[h] \subseteq objects'
  <2>1. pc'[h] \in {"insert", "commit"} => Put(h) \/ Insert(h)
    BY <1>0 DEF TypeOK, Goto, Begins, BeginUpload, BeginReorder, BeginDelete, Begin, Operation,
       Cleanup, CommitUpload, DeleteRow, Renumber, RenumberCollides, CommitOrder,
       FailDatabase, Crash
  <2>2. Put(h) \/ Insert(h) => target' = target
    BY DEF Put, Insert, plan
  <2>3. CASE Put(h)
    BY <2>2, <2>3, ObjectsMove
  <2>4. CASE Insert(h)
    BY <1>0, <2>2, <2>4 DEF Insert, Imaging
  <2> QED
    BY <2>1, <2>3, <2>4
<1>3. pc'[h] = "cleanup" => target'[h] \intersect Stored' \subseteq doubtful'
  <2>1. CASE CommitUpload(h)
    <3>1. pc'[h] = "cleanup" => doubtful' = doubtful \union target[h] /\ target' = target
      BY <1>0, <2>1 DEF TypeOK, CommitUpload, Goto, plan
    <3> QED
      BY <3>1
  <2>2. CASE ~CommitUpload(h)
    <3>1. pc'[h] = "cleanup" =>
            /\ pc[h] \in {"put", "insert", "commit"}
            /\ target' = target /\ position' = position
      BY <1>0, <2>2 DEF TypeOK, Goto, Begins, BeginUpload, BeginReorder, BeginDelete, Begin,
         Operation, Put, Insert, Cleanup, DeleteRow, Renumber, RenumberCollides, CommitOrder,
         FailDatabase, Crash, plan, rows
    <3> QED
      BY <1>0, <3>1 DEF Freshness, Stored
  <2> QED
    BY <2>1, <2>2
<1> QED
  BY <1>1, <1>2, <1>3 DEF Imaging

(* A row is committed while its image is there, and a clean-up spares the   *)
(* images of rows but for those of a COMMIT without an answer.              *)
LEMMA RowsHaveImagesStep ==
  ASSUME IInv, NEW h \in Handlers, Begins(h) \/ Operation(h) \/ Crash(h)
  PROVE  RowsHaveImages'
<1>0. Accountable(h) /\ Imaging /\ RowsHaveImages
  BY DEF IInv, Transactions, Accountable
<1>1. CASE Cleanup(h)
  <2>1. pc[h] = "cleanup" /\ Stored' = Stored
    BY <1>1 DEF Cleanup, Stored
  <2> QED
    BY <1>0, <1>1, <2>1, ObjectsMove DEF Imaging, RowsHaveImages
<1>2. CASE ~Cleanup(h)
  <2>1. CASE CommitUpload(h)
    BY <1>0, <1>2, <2>1, ObjectsMove, StoredMoves
       DEF CommitUpload, Accountable, Imaging, RowsHaveImages
  <2>2. CASE CommitOrder(h)
    BY <1>0, <1>2, <2>2, ObjectsMove, StoredMoves
       DEF CommitOrder, Accountable, RowsHaveImages
  <2>3. CASE ~CommitUpload(h) /\ ~CommitOrder(h)
    BY <1>0, <1>2, <2>3, ObjectsMove, StoredMoves DEF RowsHaveImages
  <2> QED
    BY <2>1, <2>2, <2>3
<1> QED
  BY <1>1, <1>2

LEMMA ImagesAccountedForStep ==
  ASSUME IInv, NEW h \in Handlers, Begins(h) \/ Operation(h) \/ Crash(h)
  PROVE  ImagesAccountedFor'
<1>0. TypeOK /\ ImagesAccountedFor /\ Frame(h) /\ Accountable(h)
  BY Framed DEF IInv, Transactions, Accountable
<1> USE DEF Uploading
<1>1. \A b \in Banners : InUpload(b) /\ ~InUpload(b)' =>
        b \in target[h] /\ Unfinished(h)
  BY <1>0 DEF InUpload, Frame, Unfinished
<1>2. ASSUME Unfinished(h)
      PROVE  \A b \in target[h] :
               b \in shown' \/ b \in orphaned' \/ InUpload(b)' \/ b \notin objects'
  <2>1. CASE Cleanup(h)
    BY <2>1 DEF Cleanup
  <2>2. CASE Crash(h)
    BY <1>2, <2>2 DEF Crash, Unfinished
  <2>3. CASE CommitUpload(h)
    BY <2>3 DEF CommitUpload
  <2>4. CASE Put(h) \/ Insert(h) \/ FailDatabase(h)
    <3>1. target' = target /\ Unfinished(h)'
      BY <1>0, <1>2, <2>4 DEF TypeOK, Put, Insert, FailDatabase, Goto, plan, Unfinished
    <3> QED
      BY <3>1 DEF InUpload, Unfinished
  <2> QED
    BY <1>2, <2>1, <2>2, <2>3, <2>4 DEF Begins, BeginUpload, BeginReorder, BeginDelete, Begin,
       Operation, DeleteRow, Renumber, RenumberCollides, CommitOrder, Unfinished
<1>3. ASSUME NEW b \in objects', b \notin objects
      PROVE  b \in target[h] /\ Unfinished(h)
  BY <1>3, ObjectsMove DEF Put, Unfinished
<1>4. objects \subseteq Banners
  BY <1>0 DEF TypeOK
<1> QED
  BY <1>0, <1>1, <1>2, <1>3, <1>4, ObjectsMove DEF ImagesAccountedFor

----------------------------------------------------------------------------
(* The invariant *)

LEMMA InitInv == Init => IInv
<1> SUFFICES ASSUME Init PROVE IInv
  OBVIOUS
<1> USE BannerAssumption DEF BannerAssumption
<1>1. PICK S \in SUBSET Banners :
        /\ Cardinality(S) <= MaxBanners
        /\ position \in Numberings(S)
        /\ objects = S /\ used = S /\ shown = S
  BY DEF Init
<1>2. Cardinality(S) \in Nat
  BY FS_Subset, FS_CardinalityType
<1>3. /\ position \in [S -> 0 .. Cardinality(S) - 1]
      /\ \A b, c \in S : position[b] = position[c] => b = c
  BY <1>1 DEF Numberings
<1>4. Stored = S
  BY <1>3 DEF Stored
<1>5. \A b \in S : position[b] \in 0 .. MaxBanners - 1 /\ position[b] \in Indices
  BY <1>1, <1>2, <1>3 DEF Indices
<1>6. position \in Rows
  BY <1>3, <1>5, RowsIntro
<1>7. /\ \A h \in Handlers : /\ written[h] = NoRows /\ removed[h] = {} /\ pc[h] = "idle"
                             /\ target[h] = {}
      /\ doubtful = {}
  BY DEF Init
<1>8. TypeOK
  BY <1>1, <1>6, NoRowsType DEF Init, TypeOK, PCs
<1>9. Transactions /\ Locking /\ Passing /\ Unique
  BY <1>7, NoRowsType DEF Transactions, Locking, Held, Passing, InSequence, Unique
<1>10. Freshness /\ Imaging
  BY <1>1, <1>4, <1>7 DEF Freshness, Unfinished, Uploading, Imaging
<1>11. Distinct /\ PositionsInRange /\ RowsHaveImages /\ ImagesAccountedFor
  BY <1>1, <1>3, <1>4, <1>5
     DEF Distinct, PositionsInRange, RowsHaveImages, ImagesAccountedFor
<1> QED
  BY <1>8, <1>9, <1>10, <1>11 DEF IInv

LEMMA NextInv == IInv /\ [Next]_vars => IInv'
<1> SUFFICES ASSUME IInv, [Next]_vars PROVE IInv'
  OBVIOUS
<1>1. CASE Next
  <2>1. PICK h \in Handlers : Begins(h) \/ Operation(h) \/ Crash(h)
    BY <1>1 DEF Next, Begins
  <2>2. TypeOK'
    BY <2>1, StepTypes
  <2>3. RowInv'
    BY <2>1, Effects, EffectKeeps DEF IInv, RowInv, TypeOK
  <2>4. Transactions' /\ Passing' /\ Freshness'
    BY <2>1, <2>2, TransactionsStep, PassingStep, FreshnessStep
  <2>5. PositionsInRange' /\ Imaging' /\ RowsHaveImages' /\ ImagesAccountedFor'
    BY <2>1, RangeStep, ImagingStep, RowsHaveImagesStep, ImagesAccountedForStep
  <2> QED
    BY <2>2, <2>3, <2>4, <2>5 DEF IInv, RowInv
<1>2. CASE UNCHANGED vars
  <2> USE <1>2 DEF vars, rows, plan, started, history, IInv
  <2>1. TypeOK'
    BY DEF TypeOK
  <2>2. Transactions' /\ Locking' /\ Passing' /\ Unique'
    BY DEF Transactions, Locking, Held, Passing, InSequence, Unique, Stored
  <2>3. Freshness' /\ Distinct' /\ PositionsInRange'
    BY DEF Freshness, Unfinished, Distinct, PositionsInRange, Stored
  <2>4. Imaging' /\ RowsHaveImages' /\ ImagesAccountedFor'
    BY DEF Imaging, RowsHaveImages, ImagesAccountedFor, InUpload, Stored
  <2> QED
    BY <2>1, <2>2, <2>3, <2>4
<1> QED
  BY <1>1, <1>2

LEMMA InductiveInvariant == Spec => []IInv
<1> QED
  BY InitInv, NextInv, PTL DEF Spec

(* Every variable keeps its type.                                           *)
THEOREM TypeCorrect == Spec => []TypeOK
<1>1. IInv => TypeOK
  BY DEF IInv
<1> QED
  BY <1>1, InductiveInvariant, PTL

(* No placeholder of _apply_order is ever committed, and no position        *)
(* reaches the limit, whatever overlaps, fails or is rolled back.           *)
THEOREM PositionsStayInRange == Spec => []PositionsInRange
<1>1. IInv => PositionsInRange
  BY DEF IInv
<1> QED
  BY <1>1, InductiveInvariant, PTL

(* A landing never has more than MAX_BANNERS_PER_LANDING banners, though    *)
(* validate_can_add_banner runs long before the insert: an upload appends   *)
(* below the limit it tested, and the index keeps positions apart.          *)
THEOREM CapAlwaysHolds == Spec => []CapHolds
<1>1. IInv => CapHolds
  <2> SUFFICES ASSUME IInv PROVE CapHolds
    OBVIOUS
  <2>1. Cardinality(Stored) \in 0 .. MaxBanners
    BY AtMostMax DEF IInv
  <2> QED
    BY <2>1, BannerAssumption DEF CapHolds, BannerAssumption
<1> QED
  BY <1>1, InductiveInvariant, PTL

(* Every banner shown has its image, unless the answer to the COMMIT of its *)
(* upload was lost (upload_banner cleans up after it).                      *)
THEOREM ImagesOfRows == Spec => []RowsHaveImages
<1>1. IInv => RowsHaveImages
  BY DEF IInv
<1> QED
  BY <1>1, InductiveInvariant, PTL

(* Every image in R2 is that of a banner that was shown, of an upload under *)
(* way, or of one whose clean-up failed or never ran.                       *)
THEOREM RowsOfImages == Spec => []ImagesAccountedFor
<1>1. IInv => ImagesAccountedFor
  BY DEF IInv
<1> QED
  BY <1>1, InductiveInvariant, PTL
----------------------------------------------------------------------------
(* An operation that runs alone: what it has read is still so, and of the   *)
(* banners it numbers those the second pass went by are written.            *)
Alone(h) == pc[h] # "idle" /\ h \notin overlapping
UpToDate(h) ==
  /\ pc[h] \in {"put", "insert", "commit"} => size[h] = Cardinality(Stored)
  /\ InSequence(h) => size[h] = Cardinality(DOMAIN rank[h])
  /\ pc[h] = "delete" => /\ target[h] \subseteq Stored
                         /\ DOMAIN rank[h] = Stored \ target[h]
  /\ pc[h] = "renumber" =>
       /\ DOMAIN rank[h] = Stored \ removed[h]
       /\ \A b \in DOMAIN rank[h] :
            step[h] > size[h] + rank[h][b] => b \in DOMAIN written[h]
FromZero == \A h \in Handlers : pc[h] # "renumber" => step[h] = 0
Undisturbed ==
  \A h \in Handlers : Alone(h) =>
    /\ \A g \in Handlers \ {h} : pc[g] = "idle"
    /\ UpToDate(h)

(* Numbers from zero, one-to-one and as many as banners, leave no gap.      *)
LEMMA NoGap ==
  ASSUME NEW S, IsFiniteSet(S), NEW r,
         \A b \in S : r[b] \in 0 .. Cardinality(S) - 1,
         \A b, c \in S : r[b] = r[c] => b = c
  PROVE  {r[b] : b \in S} = 0 .. Cardinality(S) - 1
<1> DEFINE n == Cardinality(S)
           f == [b \in S |-> r[b]]
<1>1. n \in Nat
  BY FS_CardinalityType
<1>2. IsFiniteSet(0 .. n - 1) /\ Cardinality(0 .. n - 1) = n
  BY <1>1, FS_Interval
<1>3. f \in [S -> 0 .. n - 1] /\ \A b, c \in S : f[b] = f[c] => b = c
  OBVIOUS
<1>4. f \in Injection(S, 0 .. n - 1)
  BY <1>3 DEF Injection, IsInjective
<1>5. f \in Surjection(S, 0 .. n - 1)
  BY <1>2, <1>4, FS_Injection
<1>6. \A i \in 0 .. n - 1 : \E b \in S : f[b] = i
  BY <1>5 DEF Surjection
<1> QED
  BY <1>6

(* What an operation that begins alone reads.                               *)
LEMMA BeginsUpToDate ==
  ASSUME IInv, FromZero, NEW h \in Handlers, Begins(h)
  PROVE  UpToDate(h)'
<1>0. TypeOK /\ Distinct /\ PositionsInRange /\ Accountable(h)
  BY DEF IInv, Transactions, Accountable
<1>1. /\ Stored' = Stored /\ pc[h] = "idle" /\ removed[h] = {} /\ removed' = removed
      /\ step'[h] = 0
  BY <1>0 DEF FromZero, Begins, BeginUpload, BeginReorder, BeginDelete, Begin, rows, Stored, Accountable
<1>2. CASE BeginUpload(h)
  <2>1. pc'[h] = "put" /\ size'[h] = Cardinality(Stored)
    BY <1>0, <1>2, AtMostMax DEF TypeOK, BeginUpload, Begin, Goto
  <2> QED
    BY <1>1, <2>1 DEF UpToDate, InSequence
<1>3. CASE BeginReorder(h)
  <2>1. PICK r \in Numberings(Stored) : rank' = [rank EXCEPT ![h] = r]
    BY <1>3 DEF BeginReorder
  <2>2. /\ rank'[h] = r /\ DOMAIN r = Stored /\ size'[h] = Cardinality(Stored)
        /\ pc'[h] = "renumber"
    BY <1>0, <1>3, <2>1 DEF TypeOK, BeginReorder, Begin, Goto, Numberings
  <2>3. /\ Cardinality(Stored) \in 0 .. MaxBanners
        /\ \A b \in Stored : r[b] \in 0 .. Cardinality(Stored) - 1
    BY <1>0, <2>1, AtMostMax DEF Numberings
  <2>4. \A b \in DOMAIN rank'[h] : ~(step'[h] > size'[h] + rank'[h][b])
    BY <1>1, <2>2, <2>3, BannerAssumption DEF BannerAssumption
  <2> QED
    BY <1>1, <2>2, <2>4 DEF UpToDate, InSequence
<1>4. CASE BeginDelete(h)
  <2>1. PICK b \in Stored :
          /\ target' = [target EXCEPT ![h] = {b}]
          /\ size' = [size EXCEPT ![h] = Cardinality(Stored \ {b})]
          /\ rank' = [rank EXCEPT ![h] = Renumbered(Stored \ {b})]
    BY <1>4 DEF BeginDelete
  <2>2. /\ target'[h] = {b} /\ size'[h] = Cardinality(Stored \ {b})
        /\ rank'[h] = Renumbered(Stored \ {b}) /\ pc'[h] = "delete"
    BY <1>0, <1>4, <2>1 DEF TypeOK, BeginDelete, Begin, Goto
  <2>3. DOMAIN rank'[h] = Stored \ {b}
    BY <2>2 DEF Renumbered
  <2> QED
    BY <1>1, <2>1, <2>2, <2>3 DEF UpToDate, InSequence
<1> QED
  BY <1>2, <1>3, <1>4 DEF Begins

(* What the steps of an operation that runs alone leave of it.              *)
LEMMA StaysUpToDate ==
  ASSUME IInv, FromZero, NEW h \in Handlers, Operation(h), UpToDate(h)
  PROVE  UpToDate(h)'
<1> USE BannerAssumption DEF BannerAssumption, InSequence
<1>0. TypeOK /\ Accountable(h) /\ Passing
  BY DEF IInv, Transactions, Accountable
<1>1. /\ pc \in [Handlers -> PCs] /\ written \in [Handlers -> Rows]
      /\ size[h] \in Nat /\ step[h] \in Nat
  BY <1>0 DEF TypeOK
<1>2. CASE Put(h) \/ Insert(h)
  <2>1. /\ pc[h] \in {"put", "insert"} /\ pc'[h] \notin {"put", "delete", "renumber"}
        /\ Stored' = Stored /\ size' = size
    BY <1>1, <1>2 DEF Put, Insert, Goto, rows, plan, Stored
  <2> QED
    BY <2>1 DEF UpToDate
<1>3. CASE Cleanup(h) \/ CommitUpload(h) \/ RenumberCollides(h) \/ CommitOrder(h) \/ FailDatabase(h)
  <2>1. pc'[h] \in {"idle", "cleanup"}
    BY <1>1, <1>3 DEF Cleanup, CommitUpload, RenumberCollides, CommitOrder, FailDatabase, Goto
  <2> QED
    BY <2>1 DEF UpToDate
<1>4. CASE DeleteRow(h)
  <2>1. /\ pc[h] = "delete" /\ pc'[h] = "renumber" /\ Stored' = Stored
        /\ removed'[h] = target[h] \intersect Stored
        /\ size' = size /\ rank' = rank /\ step'[h] = 0
    BY <1>0, <1>1, <1>4 DEF FromZero, TypeOK, DeleteRow, Goto, plan, Stored
  <2>2. \A b \in DOMAIN rank[h] : rank[h][b] \in 0 .. size[h] - 1
    BY <1>0, <2>1 DEF Passing
  <2>3. \A b \in DOMAIN rank'[h] : ~(step'[h] > size'[h] + rank'[h][b])
    BY <1>1, <2>1, <2>2
  <2>4. DOMAIN rank'[h] = Stored' \ removed'[h]
    BY <2>1 DEF UpToDate
  <2> QED
    BY <2>1, <2>3, <2>4 DEF UpToDate
<1>5. CASE Renumber(h)
  <2>1. /\ pc' = pc /\ pc[h] = "renumber" /\ removed' = removed /\ rank' = rank
        /\ Stored' = Stored /\ size' = size /\ step'[h] = step[h] + 1
    BY <1>0, <1>5 DEF TypeOK, Renumber, Stored
  <2>2. DOMAIN rank[h] \subseteq Stored
    BY <2>1 DEF UpToDate
  <2>3. PICK b \in DOMAIN rank[h] : Due(h, b) /\ WriteRow(h, b, DueIndex(h, b))
    BY <1>5, <2>2 DEF Renumber
  <2>4. DOMAIN written'[h] = DOMAIN written[h] \union {b}
    BY <1>1, <2>3 DEF WriteRow
  <2>5. /\ \A c \in DOMAIN rank[h] : rank[h][c] \in 0 .. size[h] - 1
        /\ \A c, d \in DOMAIN rank[h] : rank[h][c] = rank[h][d] => c = d
    BY <1>0, <2>1 DEF Passing
  <2>6. ASSUME NEW c \in DOMAIN rank[h], c # b, step'[h] > size[h] + rank[h][c]
        PROVE  c \in DOMAIN written[h]
    <3>1. rank[h][b] # rank[h][c]
      BY <2>5, <2>6
    <3>2. step[h] # size[h] + rank[h][c]
      BY <1>1, <2>3, <2>5, <3>1 DEF Due
    <3>3. step[h] > size[h] + rank[h][c]
      BY <1>1, <2>1, <2>5, <2>6, <3>2
    <3> QED
      BY <2>1, <3>3 DEF UpToDate
  <2>7. \A c \in DOMAIN rank[h] :
          step'[h] > size[h] + rank[h][c] => c \in DOMAIN written'[h]
    BY <2>4, <2>6
  <2> QED
    BY <2>1, <2>7 DEF UpToDate
<1> QED
  BY <1>2, <1>3, <1>4, <1>5 DEF Operation

LEMMA FromZeroStep ==
  ASSUME IInv, FromZero, NEW h \in Handlers, Begins(h) \/ Operation(h) \/ Crash(h)
  PROVE  FromZero'
<1>0. TypeOK /\ Frame(h)
  BY Framed DEF IInv
<1>1. pc'[h] # "renumber" => step'[h] = 0
  <2>1. CASE Begins(h)
    BY <1>0, <2>1 DEF TypeOK, FromZero, Begins, BeginUpload, BeginReorder, BeginDelete, Begin
  <2>2. CASE Forget(h)
    BY <1>0, <2>2 DEF TypeOK, Forget
  <2>3. CASE UNCHANGED plan /\ pc[h] # "renumber"
    BY <2>3 DEF plan, FromZero
  <2>4. CASE Renumber(h)
    BY <2>4 DEF Renumber
  <2> QED
    BY <2>1, <2>2, <2>3, <2>4 DEF Operation, Put, Insert, Cleanup, CommitUpload, DeleteRow,
       RenumberCollides, CommitOrder, FailDatabase, Crash
<1> QED
  BY <1>0, <1>1 DEF FromZero, Frame

(* Who begins while another runs puts both on record.                       *)
LEMMA UndisturbedStep ==
  ASSUME IInv, FromZero, Undisturbed, NEW h \in Handlers,
         Begins(h) \/ Operation(h) \/ Crash(h)
  PROVE  Undisturbed'
<1> SUFFICES ASSUME NEW g \in Handlers, Alone(g)'
             PROVE  /\ \A f \in Handlers \ {g} : pc'[f] = "idle"
                    /\ UpToDate(g)'
  BY DEF Undisturbed
<1>0. TypeOK /\ Frame(h)
  BY Framed DEF IInv
<1>1. CASE Begins(h)
  <2> DEFINE others == {f \in Handlers \ {h} : pc[f] # "idle"}
  <2>1. overlapping' = IF others = {} THEN overlapping \ {h}
                       ELSE overlapping \union others \union {h}
    BY <1>1 DEF Begins, BeginUpload, BeginReorder, BeginDelete, Begin
  <2>2. g = h
    BY <1>0, <2>1 DEF Alone, Frame
  <2>3. others = {}
    BY <2>1, <2>2 DEF Alone
  <2>4. UpToDate(h)'
    BY <1>1, BeginsUpToDate
  <2> QED
    BY <1>0, <2>2, <2>3, <2>4 DEF Frame
<1>2. CASE Operation(h) \/ Crash(h)
  <2>1. overlapping' = overlapping /\ pc[h] # "idle"
    BY <1>2 DEF Operation, Put, Insert, Cleanup, CommitUpload, DeleteRow, Renumber,
       RenumberCollides, CommitOrder, FailDatabase, Crash, started
  <2>2. pc[g] # "idle"
    BY <1>0, <2>1 DEF Alone, Frame
  <2>3. Alone(g)
    BY <2>1, <2>2 DEF Alone
  <2>4. g = h
    BY <2>1, <2>3 DEF Undisturbed
  <2>5. Operation(h)
    <3>1. Crash(h) => pc'[h] = "idle"
      BY <1>0 DEF TypeOK, Crash, Goto
    <3> QED
      BY <1>2, <2>4, <3>1 DEF Alone
  <2>6. UpToDate(h)'
    BY <2>3, <2>4, <2>5, StaysUpToDate DEF Undisturbed
  <2> QED
    BY <1>0, <2>3, <2>4, <2>6 DEF Undisturbed, Frame
<1> QED
  BY <1>1, <1>2

LEMMA AlwaysUndisturbed == Spec => [](IInv /\ FromZero /\ Undisturbed)
<1>1. Init => FromZero /\ Undisturbed
  BY DEF Init, FromZero, Undisturbed, Alone
<1>2. IInv /\ FromZero /\ Undisturbed /\ [Next]_vars => FromZero' /\ Undisturbed'
  <2> SUFFICES ASSUME IInv, FromZero, Undisturbed, [Next]_vars
               PROVE  FromZero' /\ Undisturbed'
    OBVIOUS
  <2>1. CASE Next
    <3>1. PICK h \in Handlers : Begins(h) \/ Operation(h) \/ Crash(h)
      BY <2>1 DEF Next, Begins
    <3> QED
      BY <3>1, FromZeroStep, UndisturbedStep
  <2>2. CASE UNCHANGED vars
    BY <2>2 DEF vars, rows, plan, started, FromZero, Undisturbed, Alone, UpToDate, InSequence,
       Stored
  <2> QED
    BY <2>1, <2>2
<1> QED
  BY <1>1, <1>2, InitInv, NextInv, PTL DEF Spec

(* An operation that overlapped with no other leaves no gap in the          *)
(* positions: delete_banner, update_banner and reorder_banners close even   *)
(* those they find, upload_banner makes none.                               *)
THEOREM PositionsCloseUpAlone == Spec => PositionsCloseUp
<1>1. IInv /\ Undisturbed =>
        \A h \in Handlers \ overlapping :
          /\ CommitOrder(h) => Contiguous'
          /\ CommitUpload(h) /\ Contiguous => Contiguous'
  <2> SUFFICES ASSUME IInv, Undisturbed, NEW h \in Handlers \ overlapping
               PROVE  /\ CommitOrder(h) => Contiguous'
                      /\ CommitUpload(h) /\ Contiguous => Contiguous'
    OBVIOUS
  <2> USE BannerAssumption DEF BannerAssumption, InSequence
  <2>0. /\ TypeOK /\ Accountable(h) /\ Passing /\ Distinct /\ PositionsInRange
        /\ IsFiniteSet(Stored) /\ Cardinality(Stored) \in Nat
        /\ size[h] \in Nat
    BY AtMostMax DEF IInv, TypeOK, Transactions, Accountable
  <2>1. ASSUME CommitOrder(h) PROVE Contiguous'
    <3> DEFINE D == DOMAIN rank[h]
    <3>1. /\ pc[h] = "renumber" /\ step[h] = 2 * size[h]
          /\ D = Stored \ removed[h] /\ size[h] = Cardinality(D)
      BY <2>1 DEF CommitOrder, Passes, Undisturbed, Alone, UpToDate
    <3>2. /\ \A b \in D : rank[h][b] \in 0 .. Cardinality(D) - 1
          /\ \A b, c \in D : rank[h][b] = rank[h][c] => b = c
      BY <2>0, <3>1 DEF Passing
    <3>3. ASSUME NEW b \in D PROVE step[h] > size[h] + rank[h][b]
      <4>1. rank[h][b] \in 0 .. size[h] - 1
        BY <3>1, <3>2
      <4> QED
        BY <2>0, <3>1, <4>1
    <3>4. D \subseteq DOMAIN written[h] /\ \A b \in D : written[h][b] = rank[h][b]
      <4>1. D \subseteq DOMAIN written[h]
        BY <2>1, <3>1, <3>3 DEF CommitOrder, Undisturbed, Alone, UpToDate
      <4> QED
        BY <2>0, <3>1, <3>3, <4>1 DEF Passing
    <3>5. Stored' = D /\ \A b \in D : position'[b] = rank[h][b]
      <4>1. position' = View(h) /\ DOMAIN written[h] \subseteq Stored
        BY <2>0, <2>1, <3>1 DEF CommitOrder, Accountable
      <4> QED
        BY <3>1, <3>4, <4>1, ViewFacts DEF Stored
    <3>6. {rank[h][b] : b \in D} = 0 .. Cardinality(D) - 1
      <4>1. IsFiniteSet(D)
        BY <2>0, <3>1, FS_Subset
      <4> HIDE DEF D
      <4> QED
        BY <3>2, <4>1, NoGap
    <3> QED
      BY <3>5, <3>6 DEF Contiguous
  <2>2. ASSUME CommitUpload(h), Contiguous PROVE Contiguous'
    <3>1. /\ pc[h] = "commit" /\ size[h] = Cardinality(Stored)
          /\ removed[h] = {} /\ position' = View(h)
      BY <2>0, <2>2 DEF CommitUpload, Accountable, Undisturbed, Alone, UpToDate
    <3>2. CASE target[h] = {}
      <4>1. Stored' = Stored /\ \A b \in Stored : position'[b] = position[b]
        BY <2>0, <3>1, <3>2, ViewFacts DEF Accountable, Stored
      <4> QED
        BY <2>2, <4>1 DEF Contiguous
    <3>3. CASE target[h] # {}
      <4>1. PICK b \in target[h] : target[h] = {b} /\ b \notin Stored
        BY <2>0, <3>1, <3>3 DEF Accountable, IInv, Freshness
      <4>2. /\ Stored' = Stored \union {b}
            /\ position'[b] = Cardinality(Stored)
            /\ \A c \in Stored : position'[c] = position[c]
        BY <2>0, <3>1, <4>1, ViewFacts DEF Accountable, Stored
      <4>3. Cardinality(Stored') = Cardinality(Stored) + 1
        BY <2>0, <4>1, <4>2, FS_AddElement
      <4> DEFINE at == {position[c] : c \in Stored}
                 after == {position'[c] : c \in Stored'}
      <4>4. after = at \union {Cardinality(Stored)}
        BY <4>2
      <4>5. at = 0 .. Cardinality(Stored) - 1
        BY <2>2 DEF Contiguous
      <4>6. (0 .. Cardinality(Stored) - 1) \union {Cardinality(Stored)} =
              0 .. Cardinality(Stored') - 1
        BY <2>0, <4>3
      <4> HIDE DEF at, after
      <4>7. after = 0 .. Cardinality(Stored') - 1
        BY <4>4, <4>5, <4>6
      <4> QED
        BY <4>7 DEF Contiguous, after
    <3> QED
      BY <3>2, <3>3
  <2> QED
    BY <2>1, <2>2
<1> QED
  BY <1>1, AlwaysUndisturbed, PTL DEF PositionsCloseUp
=============================================================================
