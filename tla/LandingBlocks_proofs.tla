-------------------------- MODULE LandingBlocks_proofs --------------------------
(****************************************************************************)
(* Proofs about LandingBlocks: components stay in slots that were chosen    *)
(* for them, a load leaves what its template holds, and what runs alone     *)
(* keeps to the cap, saves what is there and reorders as asked.             *)
(****************************************************************************)
EXTENDS LandingBlocks, FiniteSetTheorems, TLAPS

(* The rows a transaction holds, and those only it knows of *)
Held(h) == DOMAIN written[h] \union removed[h]
New(h) == IF Creating(h) THEN target[h]
          ELSE IF pc[h] = "fill" THEN DOMAIN written[h] ELSE {}
Reordering(h) == pc[h] \in {"reorder", "rewrite"}
Loading(h) == pc[h] \in {"update", "clear", "fill"}
Saving(h) == pc[h] \in {"snapshot", "save"}
Alone(h) == pc[h] # "idle" /\ h \notin overlapping

(* No two transactions hold the same row, and what one holds is what its    *)
(* operation is about.                                                      *)
Locking ==
  /\ \A g, h \in Handlers : g # h => Held(g) \intersect Held(h) = {}
  /\ \A h \in Handlers : DOMAIN written[h] \intersect removed[h] = {}
Accountable(h) ==
  /\ \A b, c \in target[h] : b = c
  /\ \A t, u \in draft[h] : t = u
  /\ pc[h] \notin {"created", "commit", "reorder", "rewrite", "fill"} =>
       DOMAIN written[h] = {}
  /\ pc[h] \in {"commit", "reorder", "rewrite"} => DOMAIN written[h] \subseteq Stored
  /\ pc[h] = "created" => DOMAIN written[h] = target[h]
  /\ pc[h] \notin {"commit", "fill"} => removed[h] = {}
  /\ removed[h] \subseteq Stored
  /\ pc[h] # "rewrite" => step[h] = 0
Transactions == \A h \in Handlers : Accountable(h)

(* The unique index: among committed rows, within what a transaction sees,  *)
(* and between transactions.                                                *)
Distinct == \A b, c \in Stored : place[b] = place[c] => b = c
Unique ==
  \A h \in Handlers : \A b \in DOMAIN written[h] :
    /\ \A c \in DOMAIN written[h] : written[h][b] = written[h][c] => b = c
    /\ \A c \in Stored \ Held(h) : place[c] # written[h][b]
    /\ \A g \in Handlers \ {h} : \A c \in DOMAIN written[g] : written[g][c] # written[h][b]

(* Rows not yet committed are nobody else's. *)
Freshness ==
  /\ Stored \subseteq used
  /\ \A h \in Handlers : New(h) \subseteq used \ Stored
  /\ \A g, h \in Handlers : g # h => New(g) \intersect New(h) = {}

(* The slots of a row about to be written, or written already: chosen, but  *)
(* for rows that a reordering has parked, which have a way back.            *)
Aimed(h) ==
  pc[h] \in {"insert", "move"} =>
    /\ NextOrder(seen[h], slot[h]) # {}
    /\ \A b \in target[h] : slot[h] \in chosen[b]
Returning(h, b) ==
  pc[h] = "rewrite" /\ b \in Members(h) /\ step[h] <= Cardinality(Members(h)) + goal[h][b]
Planned(h) ==
  Reordering(h) =>
    /\ Free(seen[h]) # {}
    /\ goal[h] \in Orderings(seen[h])
    /\ DOMAIN written[h] \subseteq DOMAIN seen[h]
    /\ \A b \in DOMAIN seen[h] : SlotOf(seen[h][b]) \in chosen[b]
    /\ \A b \in DOMAIN written[h] :
         Returning(h, b) \/ SlotOf(written[h][b]) = SlotOf(seen[h][b])
Settled(h) ==
  ~Reordering(h) => \A b \in DOMAIN written[h] : SlotOf(written[h][b]) \in chosen[b]
Placing == \A h \in Handlers : Aimed(h) /\ Planned(h) /\ Settled(h)

(* Loads take turns; one that no creation has joined has removed all rows,  *)
(* and what it has filled in is the template's.                             *)
Loads ==
  /\ \A g, h \in Handlers :
       pc[g] \in {"clear", "fill"} /\ pc[h] \in {"clear", "fill"} => g = h
  /\ \A h \in Handlers : Loading(h) =>
       /\ \A t \in draft[h] : /\ Cardinality(t.places) <= MaxBlocks
                              /\ h \notin overlapping => t.banners = banners
       /\ h \notin overlapping => h \notin joined
       /\ h \notin joined => \A g \in Handlers : ~Creating(g)
       /\ pc[h] = "fill" => /\ \A t \in draft[h] : PlacesOf(written[h]) \subseteq t.places
                            /\ h \notin joined => Stored \subseteq removed[h]

(* What an operation that runs alone has read is still so. *)
Undisturbed ==
  \A h \in Handlers : Alone(h) =>
    /\ \A g \in Handlers \ {h} : pc[g] = "idle"
    /\ Creating(h) => Cardinality(Stored) < MaxBlocks
    /\ Reordering(h) => place = seen[h]
    /\ Saving(h) => \A t \in draft[h] : /\ t.config = config
                                        /\ t.banners = banners
                                        /\ pc[h] = "save" => t.places = PlacesOf(place)

(* How far a reordering that runs alone has come: the slots still to do are *)
(* as read, the others as asked, and in the one being rewritten every row   *)
(* is as read, parked or in its new place, by its turn.                     *)
Asked(h, b) == <<SlotOf(seen[h][b]), goal[h][b]>>
Parked(h, b) == <<Temporary(seen[h]), OrderOf(seen[h][b])>>
AsAsked(h, s) ==
  \A b \in In(seen[h], s) : b \in DOMAIN written[h] /\ written[h][b] = Asked(h, b)
AsRead(h, s) ==
  \A b \in In(seen[h], s) : b \notin DOMAIN written[h]
InTurn(h) ==
  \A b \in Members(h) :
    /\ step[h] <= Rank(seen[h], b) => b \notin DOMAIN written[h]
    /\ Rank(seen[h], b) < step[h] => b \in DOMAIN written[h]
    /\ Rank(seen[h], b) < step[h] /\ step[h] <= Cardinality(Members(h)) + goal[h][b] =>
         written[h][b] = Parked(h, b)
    /\ Cardinality(Members(h)) + goal[h][b] < step[h] => written[h][b] = Asked(h, b)
Progress(h) ==
  /\ \A s \in todo[h] : (pc[h] = "rewrite" /\ s = slot[h]) \/ AsRead(h, s)
  /\ \A s \in Slots \ todo[h] :
       \/ AsAsked(h, s)
       \/ AsRead(h, s) /\ \A b \in In(seen[h], s) : goal[h][b] = Rank(seen[h], b)
  /\ pc[h] = "rewrite" => slot[h] \in todo[h] /\ InTurn(h)
Rewriting == \A h \in Handlers : Alone(h) /\ Reordering(h) => Progress(h)

IInv == /\ TypeOK /\ Transactions /\ Locking /\ Distinct /\ Unique /\ Freshness
        /\ Placing /\ SlotsWereChosen /\ Loads /\ Undisturbed /\ Rewriting

----------------------------------------------------------------------------
(* Facts about rows, ranks and slots *)

LEMMA PlacesType ==
  /\ \A p \in Places : SlotOf(p) \in Slots /\ OrderOf(p) \in 0 .. MaxOrder
  /\ \A s \in Slots, o \in 0 .. MaxOrder :
       /\ <<s, o>> \in Places
       /\ SlotOf(<<s, o>>) = s /\ OrderOf(<<s, o>>) = o
  /\ \A p, q \in Places : SlotOf(p) = SlotOf(q) /\ OrderOf(p) = OrderOf(q) => p = q
BY DEF Places, SlotOf, OrderOf

LEMMA RowsType ==
  ASSUME NEW R \in Rows
  PROVE  /\ DOMAIN R \subseteq Blocks
         /\ R \in [DOMAIN R -> Places]
         /\ \A b \in DOMAIN R : R[b] \in Places
BY DEF Rows

LEMMA RowsIntro ==
  ASSUME NEW S \in SUBSET Blocks, NEW R \in [S -> Places]
  PROVE  R \in Rows
BY DEF Rows

LEMMA NoRowsType == NoRows \in Rows /\ DOMAIN NoRows = {}
<1>1. DOMAIN NoRows = {} /\ NoRows \in [{} -> Places]
  BY DEF NoRows
<1> QED
  BY <1>1, RowsIntro

(* What a transaction sees of each row.                                     *)
LEMMA ViewFacts ==
  ASSUME NEW h \in Handlers
  PROVE  /\ DOMAIN View(h) = (Stored \union DOMAIN written[h]) \ removed[h]
         /\ \A b \in DOMAIN View(h) :
              View(h)[b] = IF b \in DOMAIN written[h] THEN written[h][b] ELSE place[b]
BY DEF View

(* A write touches one row of one transaction.                              *)
LEMMA WriteFacts ==
  ASSUME written \in [Handlers -> Rows], NEW h \in Handlers, NEW b \in Blocks,
         NEW p \in Places, Write(h, b, p)
  PROVE  /\ written' \in [Handlers -> Rows]
         /\ DOMAIN written'[h] = DOMAIN written[h] \union {b}
         /\ written'[h][b] = p
         /\ \A c \in DOMAIN written[h] \ {b} : written'[h][c] = written[h][c]
         /\ \A g \in Handlers \ {h} : written'[g] = written[g]
<1> DEFINE w == [c \in DOMAIN written[h] \union {b} |->
                   IF c = b THEN p ELSE written[h][c]]
<1>1. written[h] \in Rows
  OBVIOUS
<1>2. w \in [DOMAIN written[h] \union {b} -> Places]
  BY <1>1, RowsType
<1>3. w \in Rows
  BY <1>1, <1>2, RowsType, RowsIntro
<1>4. written' = [written EXCEPT ![h] = w]
  BY DEF Write
<1> HIDE DEF w
<1>5. written'[h] = w /\ \A g \in Handlers \ {h} : written'[g] = written[g]
  BY <1>1, <1>4
<1>6. written' \in [Handlers -> Rows]
  BY <1>3, <1>4
<1> QED
  BY <1>5, <1>6 DEF w

(* Counting the elements with a smaller value numbers a set from zero.      *)
Ranked(S, v) ==
  /\ \A x \in S : Cardinality({y \in S : v[y] < v[x]}) \in 0 .. Cardinality(S) - 1
  /\ \A x, y \in S :
       v[x] < v[y] =>
         Cardinality({z \in S : v[z] < v[x]}) < Cardinality({z \in S : v[z] < v[y]})

LEMMA Ranking ==
  ASSUME NEW S, IsFiniteSet(S), NEW v \in [S -> Int],
         \A x, y \in S : v[x] = v[y] => x = y
  PROVE  Ranked(S, v)
<1> DEFINE Below(x) == {y \in S : v[y] < v[x]}
<1>1. Cardinality(S) \in Nat
  BY FS_CardinalityType
<1>2. \A x \in S : /\ Below(x) \in SUBSET S /\ x \notin Below(x)
                   /\ IsFiniteSet(Below(x)) /\ Cardinality(Below(x)) \in Nat
  <2> SUFFICES ASSUME NEW x \in S
               PROVE  /\ Below(x) \in SUBSET S /\ x \notin Below(x)
                      /\ IsFiniteSet(Below(x)) /\ Cardinality(Below(x)) \in Nat
    OBVIOUS
  <2>1. Below(x) \in SUBSET S /\ x \notin Below(x)
    OBVIOUS
  <2> HIDE DEF Below
  <2> QED
    BY <2>1, FS_Subset, FS_CardinalityType
<1>3. ASSUME NEW x \in S, NEW y \in S, v[x] < v[y]
      PROVE  Below(x) \in SUBSET Below(y) /\ x \in Below(y)
  BY <1>3
<1>4. ASSUME NEW x \in S
      PROVE  Cardinality(Below(x)) < Cardinality(S)
  <2> HIDE DEF Below
  <2>1. Cardinality(Below(x)) <= Cardinality(S) /\ Cardinality(S) # Cardinality(Below(x))
    BY <1>2, FS_Subset
  <2> QED
    BY <1>1, <1>2, <2>1
<1>5. ASSUME NEW x \in S, NEW y \in S, v[x] < v[y]
      PROVE  Cardinality(Below(x)) < Cardinality(Below(y))
  <2>1. Below(x) \in SUBSET Below(y) /\ x \in Below(y)
    BY <1>3, <1>5
  <2> HIDE DEF Below
  <2>2. /\ Cardinality(Below(x)) <= Cardinality(Below(y))
        /\ Cardinality(Below(y)) # Cardinality(Below(x))
    BY <1>2, <2>1, FS_Subset
  <2> QED
    BY <1>2, <2>2
<1>6. \A x \in S : Cardinality(Below(x)) \in 0 .. Cardinality(S) - 1
  <2> HIDE DEF Below
  <2> QED
    BY <1>1, <1>2, <1>4
<1> QED
  BY <1>5, <1>6 DEF Ranked

(* A finite set of integers has a least one.                                *)
LEMMA Least ==
  ASSUME NEW S \in SUBSET Int, IsFiniteSet(S), S # {}
  PROVE  \E x \in S : \A y \in S : x <= y
<1> DEFINE v == [x \in S |-> x]
           r == [x \in S |-> Cardinality({y \in S : v[y] < v[x]})]
           n == Cardinality(S)
<1>1. v \in [S -> Int] /\ \A x, y \in S : v[x] = v[y] => x = y
  OBVIOUS
<1>2. n \in Nat /\ n # 0
  BY FS_CardinalityType, FS_EmptySet
<1> HIDE DEF v
<1>3. /\ r \in [S -> 0 .. n - 1]
      /\ \A x, y \in S : v[x] < v[y] => r[x] < r[y]
  <2>1. Ranked(S, v)
    BY <1>1, Ranking
  <2> QED
    BY <2>1 DEF Ranked
<1>4. IsFiniteSet(0 .. n - 1) /\ Cardinality(0 .. n - 1) = n
  <2> HIDE DEF n
  <2> QED
    BY <1>2, FS_Interval
<1> HIDE DEF r
<1>5. ASSUME NEW x \in S, NEW y \in S, r[x] = r[y]
      PROVE  x = y
  <2>1. r[x] \in Int /\ r[y] \in Int
    BY <1>3
  <2>2. ~(v[x] < v[y]) /\ ~(v[y] < v[x])
    BY <1>3, <1>5, <2>1
  <2> QED
    BY <1>1, <2>2
<1>6. r \in Injection(S, 0 .. n - 1)
  BY <1>3, <1>5 DEF Injection, IsInjective
<1>7. r \in Surjection(S, 0 .. n - 1)
  BY <1>4, <1>6, FS_Injection DEF n
<1>8. PICK x \in S : r[x] = 0
  BY <1>2, <1>7 DEF Surjection
<1>9. \A y \in S : x <= y
  <2> SUFFICES ASSUME NEW y \in S, y < x PROVE FALSE
    OBVIOUS
  <2>1. v[y] < v[x]
    BY DEF v
  <2>2. r[y] < r[x] /\ r[y] \in 0 .. n - 1
    BY <1>3, <2>1
  <2> QED
    BY <1>8, <2>2
<1> QED
  BY <1>9

LEMMA SlotFacts ==
  /\ Slots \subseteq Nat /\ IsFiniteSet(Slots)
  /\ 0 \in Slots
BY BlockAssumption, FS_Interval DEF Slots, BlockAssumption

(* A temporary slot is a slot without a block.                              *)
LEMMA TemporaryFacts ==
  ASSUME NEW R, Free(R) # {}
  PROVE  Temporary(R) \in Slots /\ In(R, Temporary(R)) = {}
<1>1. Free(R) \in SUBSET Slots
  BY DEF Free
<1>2. Free(R) \in SUBSET Int
  <2>1. \A s \in Slots : s \in Int
    BY DEF Slots
  <2> QED
    BY <1>1, <2>1
<1>0. IsFiniteSet(Free(R))
  BY <1>1, SlotFacts, FS_Subset
<1>3. \E s \in Free(R) : \A t \in Free(R) : s <= t
  BY <1>0, <1>2, Least
<1>4. Temporary(R) \in Free(R)
  BY <1>3 DEF Temporary
<1> QED
  BY <1>4 DEF Free

(* The rows of a slot are ranked by their orders, from zero.                *)
LEMMA RankFacts ==
  ASSUME NEW R \in Rows, NEW s \in Slots
  PROVE  /\ IsFiniteSet(In(R, s)) /\ Cardinality(In(R, s)) \in Nat
         /\ In(R, s) \subseteq DOMAIN R
         /\ \A b \in In(R, s) : Rank(R, b) \in 0 .. Cardinality(In(R, s)) - 1
<1>1. In(R, s) \subseteq DOMAIN R /\ DOMAIN R \subseteq Blocks
  BY RowsType DEF In
<1>2. IsFiniteSet(In(R, s))
  BY <1>1, FS_Subset, BlockAssumption DEF BlockAssumption
<1>3. Cardinality(In(R, s)) \in Nat
  BY <1>2, FS_CardinalityType
<1>4. ASSUME NEW b \in In(R, s)
      PROVE  Rank(R, b) \in 0 .. Cardinality(In(R, s)) - 1
  <2> DEFINE B == {c \in In(R, s) : OrderOf(R[c]) < OrderOf(R[b])}
  <2>1. SlotOf(R[b]) = s /\ OrderOf(R[b]) \in Int
    BY <1>1, RowsType, PlacesType DEF In
  <2>2. B \in SUBSET In(R, s) /\ b \notin B
    BY <2>1
  <2>3. Rank(R, b) = Cardinality(B)
    BY <2>1 DEF Rank
  <2> HIDE DEF B
  <2>4. /\ Cardinality(B) \in Nat /\ Cardinality(B) <= Cardinality(In(R, s))
        /\ Cardinality(In(R, s)) # Cardinality(B)
    BY <1>2, <2>2, FS_Subset, FS_CardinalityType
  <2> QED
    BY <1>3, <2>3, <2>4
<1> QED
  BY <1>1, <1>2, <1>3, <1>4

LEMMA RankOrders ==
  ASSUME NEW R \in Rows, NEW s \in Slots,
         \A b, c \in DOMAIN R : R[b] = R[c] => b = c
  PROVE  /\ \A b \in In(R, s) : Rank(R, b) \in 0 .. Cardinality(In(R, s)) - 1
         /\ \A b, c \in In(R, s) :
              /\ OrderOf(R[b]) < OrderOf(R[c]) <=> Rank(R, b) < Rank(R, c)
              /\ Rank(R, b) = Rank(R, c) => b = c
<1>0. PICK S : S = In(R, s)
  OBVIOUS
<1>1. \A b \in S : b \in DOMAIN R /\ SlotOf(R[b]) = s /\ R[b] \in Places
  BY <1>0, RowsType DEF In
<1>2. IsFiniteSet(S)
  BY <1>0, RankFacts
<1>3. \A b \in S : OrderOf(R[b]) \in Int
  BY <1>1, PlacesType
<1>4. PICK v \in [S -> Int] : \A b \in S : v[b] = OrderOf(R[b])
  <2>1. [b \in S |-> OrderOf(R[b])] \in [S -> Int]
    BY <1>3
  <2> QED
    BY <2>1
<1>5. \A x, y \in S : v[x] = v[y] => x = y
  BY <1>1, <1>4, PlacesType
<1>6. \A b \in S : {c \in S : v[c] < v[b]} = {c \in S : OrderOf(R[c]) < OrderOf(R[b])}
  BY <1>4
<1>7. \A b \in S : Rank(R, b) = Cardinality({c \in S : v[c] < v[b]})
  <2> SUFFICES ASSUME NEW b \in S
               PROVE  Rank(R, b) = Cardinality({c \in S : v[c] < v[b]})
    OBVIOUS
  <2>1. Rank(R, b) = Cardinality({c \in S : OrderOf(R[c]) < OrderOf(R[b])})
    BY <1>0, <1>1 DEF Rank
  <2> QED
    BY <1>6, <2>1
<1>8. v \in [S -> Int]
  BY <1>4
<1>9. /\ \A b \in S : Rank(R, b) \in 0 .. Cardinality(S) - 1
      /\ \A b, c \in S : v[b] < v[c] => Rank(R, b) < Rank(R, c)
  <2>1. Ranked(S, v)
    BY <1>2, <1>5, <1>8, Ranking
  <2> QED
    BY <1>7, <2>1 DEF Ranked
<1>10. ASSUME NEW b \in S, NEW c \in S
       PROVE  /\ OrderOf(R[b]) < OrderOf(R[c]) <=> Rank(R, b) < Rank(R, c)
              /\ Rank(R, b) = Rank(R, c) => b = c
  <2>1. /\ v[b] \in Int /\ v[c] \in Int
        /\ v[b] = OrderOf(R[b]) /\ v[c] = OrderOf(R[c])
    BY <1>4
  <2>2. Rank(R, b) \in Int /\ Rank(R, c) \in Int
    BY <1>2, <1>9, FS_CardinalityType
  <2>3. v[b] < v[c] => Rank(R, b) < Rank(R, c)
    BY <1>9
  <2>4. v[c] < v[b] => Rank(R, c) < Rank(R, b)
    BY <1>9
  <2>5. v[b] = v[c] => b = c
    BY <1>5
  <2> QED
    BY <2>1, <2>2, <2>3, <2>4, <2>5
<1> QED
  BY <1>0, <1>9, <1>10

(* A requested order permutes the ranks of a slot.                          *)
LEMMA OrderingFacts ==
  ASSUME NEW R \in Rows, NEW g \in Orderings(R), NEW s \in Slots
  PROVE  /\ DOMAIN g = DOMAIN R
         /\ \A b \in DOMAIN R : g[b] \in 0 .. MaxOrder
         /\ \A b \in In(R, s) : g[b] \in 0 .. Cardinality(In(R, s)) - 1
         /\ \A b, c \in In(R, s) : g[b] = g[c] => b = c
<1> DEFINE S == In(R, s)
           T == 0 .. Cardinality(S) - 1
           f == [b \in S |-> g[b]]
<1>1. /\ g \in [DOMAIN R -> 0 .. MaxOrder]
      /\ {g[b] : b \in S} = T
  BY DEF Orderings
<1>2. IsFiniteSet(S) /\ Cardinality(S) \in Nat
  BY RankFacts
<1> HIDE DEF S
<1>3. f \in [S -> T] /\ \A t \in T : \E b \in S : f[b] = t
  <2>1. \A b \in S : g[b] \in T
    BY <1>1
  <2>2. \A t \in T : \E b \in S : g[b] = t
    BY <1>1
  <2> QED
    BY <2>1, <2>2
<1>4. Cardinality(T) = Cardinality(S)
  BY <1>2, FS_Interval
<1> HIDE DEF f, T
<1>5. f \in Surjection(S, T)
  BY <1>3 DEF Surjection
<1>6. f \in Injection(S, T)
  BY <1>2, <1>4, <1>5, FS_SurjSameCardinalityImpliesInj
<1>7. \A b, c \in S : f[b] = f[c] => b = c
  BY <1>6 DEF Injection, IsInjective
<1> QED
  BY <1>1, <1>7 DEF f, S, T

----------------------------------------------------------------------------
(* What a step does to the rows                                             *)

Dropped(h) ==
  /\ place' = place
  /\ written' = [written EXCEPT ![h] = NoRows]
  /\ removed' = [removed EXCEPT ![h] = {}]

Wrote(h, b, p) ==
  /\ b \notin removed[h]
  /\ Write(h, b, p)
  /\ UNCHANGED <<place, removed>>

Deleted(h, B) ==
  /\ DOMAIN written[h] = {} /\ removed[h] = {}
  /\ \A b \in B : ~Locked(h, b)
  /\ removed' = [removed EXCEPT ![h] = B]
  /\ UNCHANGED <<place, written>>

Committed(h) ==
  /\ place' = View(h)
  /\ written' = [written EXCEPT ![h] = NoRows]
  /\ removed' = [removed EXCEPT ![h] = {}]

RowInv == /\ place \in Rows /\ written \in [Handlers -> Rows]
          /\ removed \in [Handlers -> SUBSET Blocks]
          /\ Locking /\ Distinct /\ Unique

LEMMA DroppedKeeps ==
  ASSUME RowInv, NEW h \in Handlers, Dropped(h)
  PROVE  RowInv'
<1>1. /\ written' \in [Handlers -> Rows]
      /\ removed' \in [Handlers -> SUBSET Blocks]
      /\ DOMAIN written'[h] = {} /\ removed'[h] = {}
      /\ \A g \in Handlers \ {h} : written'[g] = written[g] /\ removed'[g] = removed[g]
  BY NoRowsType DEF RowInv, Dropped
<1>2. Locking'
  BY <1>1 DEF RowInv, Locking, Held
<1>3. Distinct' /\ place' \in Rows
  BY DEF RowInv, Distinct, Dropped, Stored
<1>4. Unique'
  BY <1>1 DEF RowInv, Unique, Held, Dropped, Stored
<1> QED
  BY <1>1, <1>2, <1>3, <1>4 DEF RowInv

LEMMA WroteKeeps ==
  ASSUME RowInv, NEW h \in Handlers, NEW b \in Blocks, NEW p \in Places,
         Wrote(h, b, p)
  PROVE  RowInv'
<1>1. /\ written' \in [Handlers -> Rows]
      /\ DOMAIN written'[h] = DOMAIN written[h] \union {b}
      /\ written'[h][b] = p
      /\ \A c \in DOMAIN written[h] \ {b} : written'[h][c] = written[h][c]
      /\ \A g \in Handlers \ {h} : written'[g] = written[g]
  BY WriteFacts DEF Wrote, RowInv
<1>2. /\ place' = place /\ removed' = removed /\ Stored' = Stored
  BY DEF Wrote, Stored
<1>0. ~Locked(h, b) /\ ~InDoubt(h, p) /\ ~Taken(h, b, p)
  BY DEF Wrote, Write, Ready
<1>3. Locking'
  BY <1>0, <1>1, <1>2 DEF RowInv, Locking, Held, Wrote, Locked
<1>4. /\ \A c \in DOMAIN written[h] : c # b => written[h][c] # p
      /\ \A c \in Stored \ Held(h) : c # b => place[c] # p
  BY <1>0, ViewFacts DEF RowInv, Locking, Taken, Held
<1>5. \A g \in Handlers \ {h} : \A c \in DOMAIN written[g] : written[g][c] # p
  BY <1>0 DEF InDoubt
<1>6. Unique'
  BY <1>1, <1>2, <1>4, <1>5 DEF RowInv, Unique, Held
<1> QED
  BY <1>1, <1>2, <1>3, <1>6 DEF RowInv, Distinct

LEMMA DeletedKeeps ==
  ASSUME RowInv, NEW h \in Handlers, NEW B \in SUBSET Stored, Deleted(h, B)
  PROVE  RowInv'
<1>0. B \in SUBSET Blocks
  BY RowsType DEF RowInv, Stored
<1>1. /\ removed' \in [Handlers -> SUBSET Blocks]
      /\ removed'[h] = B
      /\ \A g \in Handlers \ {h} : removed'[g] = removed[g]
      /\ written' = written /\ place' = place /\ Stored' = Stored
  BY <1>0 DEF RowInv, Deleted, Stored
<1>2. Locking'
  BY <1>1 DEF RowInv, Locking, Held, Deleted, Locked
<1>3. \A g \in Handlers : DOMAIN written[g] # {} => Held(g)' = Held(g)
  BY <1>1 DEF Held, Deleted
<1>4. Unique'
  BY <1>1, <1>3 DEF RowInv, Unique
<1> QED
  BY <1>1, <1>2, <1>4 DEF RowInv, Distinct

(* A commit publishes rows that no other transaction holds.                 *)
LEMMA CommittedKeeps ==
  ASSUME RowInv, NEW h \in Handlers, Committed(h)
  PROVE  RowInv'
<1>1. /\ written' \in [Handlers -> Rows]
      /\ removed' \in [Handlers -> SUBSET Blocks]
      /\ DOMAIN written'[h] = {} /\ removed'[h] = {}
      /\ \A g \in Handlers \ {h} : written'[g] = written[g] /\ removed'[g] = removed[g]
  BY NoRowsType DEF RowInv, Committed
<1>2. /\ Stored' = (Stored \union DOMAIN written[h]) \ removed[h]
      /\ \A b \in Stored' : place'[b] = IF b \in DOMAIN written[h]
                                        THEN written[h][b] ELSE place[b]
  BY ViewFacts DEF Committed, Stored
<1>3. place' \in Rows
  <2>1. place \in Rows /\ written[h] \in Rows
    BY DEF RowInv
  <2>2. /\ DOMAIN View(h) \in SUBSET Blocks
        /\ \A b \in DOMAIN View(h) : View(h)[b] \in Places
    BY <2>1, RowsType, ViewFacts DEF Stored
  <2>3. View(h) \in [DOMAIN View(h) -> Places]
    BY <2>2 DEF View
  <2> QED
    BY <2>2, <2>3, RowsIntro DEF Committed
<1>4. Locking'
  BY <1>1 DEF RowInv, Locking, Held
<1>5. Distinct'
  BY <1>2 DEF RowInv, Distinct, Unique, Held
<1>6. Unique'
  <2> SUFFICES ASSUME NEW g \in Handlers, g # h, NEW b \in DOMAIN written[g]
               PROVE  /\ \A c \in DOMAIN written[g] : written[g][b] = written[g][c] => b = c
                      /\ \A c \in Stored' \ Held(g) : place'[c] # written[g][b]
                      /\ \A f \in Handlers \ {g} : \A c \in DOMAIN written'[f] :
                           written'[f][c] # written[g][b]
    BY <1>1 DEF Unique, Held
  <2>1. \A c \in Stored' \ Held(g) : place'[c] # written[g][b]
    BY <1>2 DEF RowInv, Unique
  <2>2. \A f \in Handlers \ {g} : \A c \in DOMAIN written'[f] :
          written'[f][c] # written[g][b]
    BY <1>1 DEF RowInv, Unique
  <2> QED
    BY <2>1, <2>2 DEF RowInv, Unique
<1> QED
  BY <1>1, <1>3, <1>4, <1>5, <1>6 DEF RowInv

(* The step of every action, as one of these.                               *)
Effect(h) ==
  \/ UNCHANGED rows
  \/ Dropped(h)
  \/ \E b \in Blocks, p \in Places : Wrote(h, b, p)
  \/ \E B \in SUBSET Stored : Deleted(h, B)
  \/ Committed(h)

LEMMA EffectKeeps ==
  ASSUME RowInv, NEW h \in Handlers, Effect(h)
  PROVE  RowInv'
<1>1. CASE UNCHANGED rows
  BY <1>1 DEF rows, RowInv, Locking, Distinct, Unique, Held, Stored
<1>2. CASE Dropped(h)
  BY <1>2, DroppedKeeps
<1>3. CASE \E b \in Blocks, p \in Places : Wrote(h, b, p)
  BY <1>3, WroteKeeps
<1>4. CASE \E B \in SUBSET Stored : Deleted(h, B)
  BY <1>4, DeletedKeeps
<1>5. CASE Committed(h)
  BY <1>5, CommittedKeeps
<1> QED
  BY <1>1, <1>2, <1>3, <1>4, <1>5 DEF Effect

(* The actions, by kind *)
Begins(h) ==
  \/ \E s \in Slots : BeginCreate(h, s)
  \/ \E b \in Stored, s \in Slots : BeginMove(h, b, s)
  \/ \E b \in Stored : BeginDelete(h, b)
  \/ BeginReorder(h)
  \/ \E n \in DOMAIN templates : BeginLoad(h, n)
  \/ BeginSave(h)
Works(h) ==
  \/ Insert(h) \/ Move(h) \/ DeleteRow(h)
  \/ BeginSlot(h) \/ Rewrite(h) \/ EndSlot(h)
  \/ UpdateLanding(h) \/ Clear(h) \/ Fill(h) \/ ReadBlocks(h)
Commits(h) == CommitCreate(h) \/ CommitChange(h) \/ CommitReorder(h) \/ CommitLoad(h)
Ends(h) == RewriteCollides(h) \/ Abort(h) \/ \E n \in Names : CommitSave(h, n)
Steps(h) == Begins(h) \/ Works(h) \/ Commits(h) \/ Ends(h)

(* The places an operation writes are places. *)
LEMMA AimType ==
  ASSUME TypeOK, NEW h \in Handlers, NextOrder(seen[h], slot[h]) # {}
  PROVE  /\ Aim(h) \in Places /\ SlotOf(Aim(h)) = slot[h]
<1>1. PICK o \in NextOrder(seen[h], slot[h]) : Aim(h) = <<slot[h], o>>
  BY DEF Aim
<1>2. o \in 0 .. MaxOrder /\ slot[h] \in Slots
  BY <1>1 DEF NextOrder, TypeOK
<1> QED
  BY <1>1, <1>2, PlacesType

LEMMA ViewType ==
  ASSUME TypeOK, NEW h \in Handlers
  PROVE  View(h) \in Rows
<1>1. place \in Rows /\ written[h] \in Rows
  BY DEF TypeOK
<1>2. /\ DOMAIN View(h) \in SUBSET Blocks
      /\ \A b \in DOMAIN View(h) : View(h)[b] \in Places
  BY <1>1, RowsType, ViewFacts DEF Stored
<1>3. View(h) \in [DOMAIN View(h) -> Places]
  BY <1>2 DEF View
<1> QED
  BY <1>2, <1>3, RowsIntro

LEMMA DuePlaceType ==
  ASSUME TypeOK, NEW h \in Handlers, Reordering(h), Planned(h), Accountable(h),
         NEW b \in Members(h) \intersect Stored
  PROVE  DuePlace(h, b) \in Places
<1>1. seen[h] \in Rows /\ slot[h] \in Slots
  BY DEF TypeOK
<1>2. b \in DOMAIN seen[h] /\ goal[h][b] \in 0 .. MaxOrder
  BY <1>1, OrderingFacts, RankFacts DEF Planned, Members
<1>3. b \in DOMAIN View(h)
  BY ViewFacts DEF Accountable, Reordering
<1>4. OrderOf(View(h)[b]) \in 0 .. MaxOrder
  BY <1>3, ViewType, RowsType, PlacesType
<1>5. Temporary(seen[h]) \in Slots
  BY TemporaryFacts DEF Planned
<1> QED
  BY <1>1, <1>2, <1>4, <1>5, PlacesType DEF DuePlace

LEMMA Effects ==
  ASSUME IInv, NEW h \in Handlers, Steps(h)
  PROVE  Effect(h)
<1> USE DEF Effect
<1>0. TypeOK /\ Accountable(h) /\ Aimed(h) /\ Planned(h) /\ Freshness
  BY DEF IInv, Transactions, Placing
<1>00. target[h] \subseteq Blocks /\ place \in Rows /\ Stored \subseteq Blocks
  BY <1>0, RowsType DEF TypeOK, Stored
<1>1. CASE Begins(h)
  BY <1>1 DEF Begins, BeginCreate, BeginMove, BeginDelete, BeginReorder, BeginLoad,
     BeginSave, Begin
<1>2. CASE Insert(h)
  <2>1. PICK b \in target[h] : Write(h, b, Aim(h))
    BY <1>2 DEF Insert
  <2>2. b \in Blocks /\ b \notin removed[h] /\ Aim(h) \in Places
    BY <1>0, <1>00, <1>2, AimType DEF Insert, Accountable, Aimed
  <2> QED
    BY <1>2, <2>1, <2>2 DEF Insert, Wrote
<1>3. CASE Move(h)
  <2>1. PICK b \in target[h] \intersect Stored : Write(h, b, Aim(h))
    BY <1>3 DEF Move
  <2>2. b \in Blocks /\ b \notin removed[h] /\ Aim(h) \in Places
    BY <1>0, <1>00, <1>3, AimType DEF Move, Accountable, Aimed
  <2> QED
    BY <1>3, <2>1, <2>2 DEF Move, Wrote
<1>4. CASE DeleteRow(h)
  <2>1. Deleted(h, target[h] \intersect Stored)
    BY <1>0, <1>4 DEF DeleteRow, Deleted, Accountable
  <2> QED
    BY <2>1
<1>5. CASE Rewrite(h)
  <2>1. CASE UNCHANGED written
    BY <1>5, <2>1 DEF Rewrite, rows
  <2>2. CASE written' # written
    <3>1. PICK b \in Members(h) : b \in Stored /\ Write(h, b, DuePlace(h, b))
      BY <1>5, <2>2 DEF Rewrite
    <3>2. b \in Blocks /\ b \notin removed[h]
      BY <1>0, <1>00, <1>5, <3>1 DEF Rewrite, Accountable
    <3>3. DuePlace(h, b) \in Places
      BY <1>0, <1>5, <3>1, DuePlaceType DEF Rewrite, Reordering
    <3> QED
      BY <1>5, <3>1, <3>2, <3>3 DEF Rewrite, Wrote
  <2> QED
    BY <2>1, <2>2
<1>6. CASE BeginSlot(h) \/ EndSlot(h) \/ UpdateLanding(h) \/ ReadBlocks(h)
  BY <1>6 DEF BeginSlot, EndSlot, UpdateLanding, ReadBlocks
<1>7. CASE Clear(h)
  <2>1. Deleted(h, Stored)
    BY <1>0, <1>7 DEF Clear, Deleted, Accountable
  <2> QED
    BY <2>1
<1>8. CASE Fill(h)
  <2>1. PICK p \in Missing(h), b \in Blocks \ used : Write(h, b, p)
    BY <1>8 DEF Fill
  <2>2. \A t \in draft[h] : t.places \subseteq Places
    BY <1>0 DEF TypeOK, Drafts
  <2>3. p \in Places
    BY <2>1, <2>2 DEF Missing
  <2>4. b \notin removed[h]
    BY <1>0, <2>1 DEF Accountable, Freshness
  <2> QED
    BY <1>8, <2>1, <2>3, <2>4 DEF Fill, Wrote
<1>9. CASE Commits(h)
  BY <1>9 DEF Commits, CommitCreate, CommitChange, CommitReorder, CommitLoad, Forget,
     Committed
<1>10. CASE Ends(h)
  BY <1>10 DEF Ends, RewriteCollides, Abort, CommitSave, Forget, Dropped
<1> QED
  BY <1>1, <1>2, <1>3, <1>4, <1>5, <1>6, <1>7, <1>8, <1>9, <1>10 DEF Steps, Works

----------------------------------------------------------------------------
(* Types *)

Goals == UNION {[S -> 0 .. MaxOrder] : S \in SUBSET Blocks}

LEMMA ForgetEffect ==
  ASSUME TypeOK, NEW h \in Handlers, Forget(h)
  PROVE  /\ target' \in [Handlers -> SUBSET Blocks] /\ target'[h] = {}
         /\ slot' \in [Handlers -> Slots]
         /\ seen' \in [Handlers -> Rows]
         /\ goal' \in [Handlers -> Goals]
         /\ todo' \in [Handlers -> SUBSET Slots]
         /\ step' \in [Handlers -> Nat] /\ step'[h] = 0
         /\ draft' \in [Handlers -> SUBSET Drafts] /\ draft'[h] = {}
         /\ pc' \in [Handlers -> PCs] /\ pc'[h] = "idle"
         /\ written'[h] = NoRows /\ removed'[h] = {}
         /\ \A g \in Handlers \ {h} :
              /\ target'[g] = target[g] /\ slot'[g] = slot[g] /\ seen'[g] = seen[g]
              /\ goal'[g] = goal[g] /\ todo'[g] = todo[g] /\ step'[g] = step[g]
              /\ draft'[g] = draft[g] /\ pc'[g] = pc[g]
              /\ written'[g] = written[g] /\ removed'[g] = removed[g]
<1>1. NoRows \in Goals
  <2>1. NoRows \in [{} -> 0 .. MaxOrder]
    BY DEF NoRows
  <2> QED
    BY <2>1 DEF Goals
<1>2. goal \in [Handlers -> Goals]
  BY DEF TypeOK, Goals
<1> QED
  BY <1>1, <1>2, NoRowsType, SlotFacts DEF TypeOK, Forget, Goto, PCs

(* Choosing a slot adds it to what was chosen for a block.                  *)
LEMMA ChooseFacts ==
  ASSUME TypeOK, NEW B, NEW s \in Slots, Choose(B, s)
  PROVE  /\ chosen' \in [Blocks -> SUBSET Slots]
         /\ \A b \in Blocks : chosen[b] \subseteq chosen'[b]
         /\ \A b \in B \intersect Blocks : s \in chosen'[b]
BY DEF TypeOK, Choose

LEMMA DraftFacts ==
  /\ \A t \in Drafts : /\ t.config \in Configs /\ t.banners \in 0 .. MaxBanners
                       /\ t.places \in SUBSET Places
                       /\ t = [config |-> t.config, banners |-> t.banners,
                               places |-> t.places]
  /\ \A c \in Configs, n \in 0 .. MaxBanners, P \in SUBSET Places :
       [config |-> c, banners |-> n, places |-> P] \in Drafts
BY DEF Drafts

LEMMA TemplatesType ==
  ASSUME NEW T \in Templates
  PROVE  DOMAIN T \subseteq Names /\ \A n \in DOMAIN T : T[n] \in Drafts
BY DEF Templates

LEMMA TemplatesIntro ==
  ASSUME NEW S \in SUBSET Names, NEW T \in [S -> Drafts]
  PROVE  T \in Templates
BY DEF Templates

LEMMA PlacesOfType ==
  ASSUME NEW R \in Rows
  PROVE  PlacesOf(R) \subseteq Places
BY RowsType DEF PlacesOf

(* What a handler keeps to itself *)
LocalTypes ==
  /\ pc \in [Handlers -> PCs]
  /\ target \in [Handlers -> SUBSET Blocks]
  /\ slot \in [Handlers -> Slots]
  /\ seen \in [Handlers -> Rows]
  /\ goal \in [Handlers -> Goals]
  /\ todo \in [Handlers -> SUBSET Slots]
  /\ step \in [Handlers -> Nat]
  /\ draft \in [Handlers -> SUBSET Drafts]
Unmoved(g) ==
  /\ pc'[g] = pc[g] /\ target'[g] = target[g] /\ slot'[g] = slot[g]
  /\ seen'[g] = seen[g] /\ goal'[g] = goal[g] /\ todo'[g] = todo[g]
  /\ step'[g] = step[g] /\ draft'[g] = draft[g]

(* What the start of each operation leaves a handler with                   *)
LEMMA BeginFacts ==
  ASSUME TypeOK, NEW h \in Handlers, Begins(h)
  PROVE  /\ pc[h] = "idle" /\ UNCHANGED <<rows, landing, templates, step>>
         /\ operations' \in Nat
         /\ overlapping' \subseteq Handlers
         /\ \A g \in Handlers \ {h} : g \in overlapping' <=> g \in overlapping \/ pc[g] # "idle"
         /\ h \notin overlapping' => \A g \in Handlers \ {h} : pc[g] = "idle"
<1>1. PICK w \in PCs : Begin(h, w)
  BY DEF Begins, BeginCreate, BeginMove, BeginDelete, BeginReorder, BeginLoad, BeginSave, PCs
<1> DEFINE others == {g \in Handlers \ {h} : pc[g] # "idle"}
<1>2. overlapping' = IF others = {} THEN overlapping \ {h}
                     ELSE overlapping \union others \union {h}
  BY <1>1 DEF Begin
<1>3. pc[h] = "idle" /\ UNCHANGED <<rows, landing, templates, step>> /\ operations' \in Nat
  BY <1>1 DEF Begin, TypeOK
<1>4. overlapping' \subseteq Handlers
  BY <1>2 DEF TypeOK
<1>5. \A g \in Handlers \ {h} : g \in overlapping' <=> g \in overlapping \/ pc[g] # "idle"
  BY <1>2
<1>6. h \notin overlapping' => \A g \in Handlers \ {h} : pc[g] = "idle"
  BY <1>2
<1> QED
  BY <1>3, <1>4, <1>5, <1>6

LEMMA CreateFacts ==
  ASSUME TypeOK, NEW h \in Handlers, NEW s \in Slots, BeginCreate(h, s)
  PROVE  /\ LocalTypes' /\ \A g \in Handlers \ {h} : Unmoved(g)
         /\ pc'[h] = "insert" /\ seen'[h] = place /\ slot'[h] = s /\ draft'[h] = draft[h]
         /\ Cardinality(Stored) < MaxBlocks
         /\ NextOrder(place, s) # {}
         /\ used' \subseteq Blocks /\ used \subseteq used'
         /\ \E b \in Blocks \ used :
              b \in used' /\ target'[h] = {b} /\ Choose({b}, s)
         /\ joined' = joined \union {g \in Handlers : pc[g] # "idle"}
<1>1. goal \in [Handlers -> Goals] /\ place \in Rows
  BY DEF TypeOK, Goals
<1>2. PICK b \in Blocks \ used :
        /\ used' = used \union {b}
        /\ target' = [target EXCEPT ![h] = {b}]
        /\ Choose({b}, s)
  BY DEF BeginCreate
<1> QED
  BY ZenonT(60), <1>1, <1>2 DEF TypeOK, BeginCreate, Begin, Goto, LocalTypes, Unmoved, PCs, CanAdd

LEMMA MoveFacts ==
  ASSUME TypeOK, NEW h \in Handlers, NEW b \in Stored, NEW s \in Slots, BeginMove(h, b, s)
  PROVE  /\ LocalTypes' /\ \A g \in Handlers \ {h} : Unmoved(g)
         /\ pc'[h] = "move" /\ seen'[h] = place /\ slot'[h] = s /\ target'[h] = {b}
         /\ draft'[h] = draft[h]
         /\ NextOrder(place, s) # {} /\ Choose({b}, s) /\ b \in Blocks
         /\ UNCHANGED <<used, joined>>
<1>1. goal \in [Handlers -> Goals] /\ place \in Rows
  BY DEF TypeOK, Goals
<1>2. b \in Blocks
  BY <1>1, RowsType DEF Stored
<1> QED
  BY <1>1, <1>2 DEF TypeOK, BeginMove, Begin, Goto, LocalTypes, Unmoved, PCs

LEMMA DeleteFacts ==
  ASSUME TypeOK, NEW h \in Handlers, NEW b \in Stored, BeginDelete(h, b)
  PROVE  /\ LocalTypes' /\ \A g \in Handlers \ {h} : Unmoved(g)
         /\ pc'[h] = "delete" /\ target'[h] = {b} /\ draft'[h] = draft[h]
         /\ UNCHANGED <<used, chosen, joined>>
<1>1. goal \in [Handlers -> Goals] /\ place \in Rows
  BY DEF TypeOK, Goals
<1>2. b \in Blocks
  BY <1>1, RowsType DEF Stored
<1> QED
  BY <1>1, <1>2 DEF TypeOK, BeginDelete, Begin, Goto, LocalTypes, Unmoved, PCs

LEMMA ReorderFacts ==
  ASSUME TypeOK, NEW h \in Handlers, BeginReorder(h)
  PROVE  /\ LocalTypes' /\ \A g \in Handlers \ {h} : Unmoved(g)
         /\ pc'[h] = "reorder" /\ seen'[h] = place /\ Free(place) # {}
         /\ target'[h] = target[h] /\ draft'[h] = draft[h]
         /\ goal'[h] \in Orderings(place)
         /\ todo'[h] = {SlotOf(place[b]) : b \in {c \in Stored : goal'[h][c] # Rank(place, c)}}
         /\ UNCHANGED <<used, chosen, joined>>
<1>1. goal \in [Handlers -> Goals] /\ place \in Rows /\ todo \in [Handlers -> SUBSET Slots]
  BY DEF TypeOK, Goals
<1>2. PICK g \in Orderings(place) :
        /\ goal' = [goal EXCEPT ![h] = g]
        /\ todo' = [todo EXCEPT ![h] =
             {SlotOf(place[b]) : b \in {c \in Stored : g[c] # Rank(place, c)}}]
  BY DEF BeginReorder
<1>3. g \in Goals
  BY <1>1, RowsType DEF Orderings, Goals, Stored
<1>4. {SlotOf(place[b]) : b \in {c \in Stored : g[c] # Rank(place, c)}} \in SUBSET Slots
  BY <1>1, RowsType, PlacesType DEF Stored
<1> DEFINE T == {SlotOf(place[b]) : b \in {c \in Stored : g[c] # Rank(place, c)}}
<1>5. goal' \in [Handlers -> Goals] /\ goal'[h] = g
      /\ \A f \in Handlers \ {h} : goal'[f] = goal[f]
  BY <1>1, <1>2, <1>3
<1>6. todo' = [todo EXCEPT ![h] = T] /\ T \in SUBSET Slots
  BY <1>2, <1>4
<1>7. todo'[h] = {SlotOf(place[b]) : b \in {c \in Stored : goal'[h][c] # Rank(place, c)}}
  BY <1>1, <1>5, <1>6
<1> HIDE DEF T
<1>8. todo' \in [Handlers -> SUBSET Slots] /\ \A f \in Handlers \ {h} : todo'[f] = todo[f]
  BY <1>1, <1>6
<1> QED
  BY <1>1, <1>5, <1>7, <1>8 DEF TypeOK, BeginReorder, Begin, Goto, LocalTypes, Unmoved, PCs

LEMMA LoadFacts ==
  ASSUME TypeOK, NEW h \in Handlers, NEW n \in DOMAIN templates, BeginLoad(h, n)
  PROVE  /\ LocalTypes' /\ \A g \in Handlers \ {h} : Unmoved(g)
         /\ pc'[h] = "update" /\ draft'[h] = {templates[n]} /\ target'[h] = target[h]
         /\ templates[n].banners = banners
         /\ Cardinality(templates[n].places) <= MaxBlocks
         /\ joined' = IF \E g \in Handlers : Creating(g) THEN joined \union {h}
                      ELSE joined \ {h}
         /\ UNCHANGED <<used, chosen>>
<1>1. goal \in [Handlers -> Goals]
  BY DEF TypeOK, Goals
<1>2. templates[n] \in Drafts
  BY TemplatesType DEF TypeOK
<1> QED
  BY <1>1, <1>2 DEF TypeOK, BeginLoad, Begin, Goto, LocalTypes, Unmoved, PCs, Fits

LEMMA SaveFacts ==
  ASSUME TypeOK, NEW h \in Handlers, BeginSave(h)
  PROVE  /\ LocalTypes' /\ \A g \in Handlers \ {h} : Unmoved(g)
         /\ pc'[h] = "snapshot" /\ target'[h] = target[h]
         /\ draft'[h] = {[config |-> config, banners |-> banners, places |-> {}]}
         /\ UNCHANGED <<used, chosen, joined>>
<1>1. goal \in [Handlers -> Goals]
  BY DEF TypeOK, Goals
<1>2. [config |-> config, banners |-> banners, places |-> {}] \in Drafts
  BY DraftFacts DEF TypeOK
<1> DEFINE d == [config |-> config, banners |-> banners, places |-> {}]
<1>3. draft' = [draft EXCEPT ![h] = {d}] /\ d \in Drafts
  BY <1>2 DEF BeginSave
<1> HIDE DEF d
<1>4. /\ draft' \in [Handlers -> SUBSET Drafts] /\ draft'[h] = {d}
      /\ \A g \in Handlers \ {h} : draft'[g] = draft[g]
  BY <1>3 DEF TypeOK
<1> QED
  BY <1>1, <1>4 DEF TypeOK, BeginSave, Begin, Goto, LocalTypes, Unmoved, PCs, d

LEMMA FillFacts ==
  ASSUME IInv, NEW h \in Handlers, Fill(h)
  PROVE  \E p \in Missing(h), b \in Blocks \ used :
           /\ p \in Places /\ Write(h, b, p) /\ used' = used \union {b}
           /\ Choose({b}, SlotOf(p))
           /\ pc[h] = "fill"
           /\ UNCHANGED <<place, removed, landing, templates, pc, locals, operations,
                          overlapping, joined>>
<1>1. PICK p \in Missing(h), b \in Blocks \ used :
        Write(h, b, p) /\ used' = used \union {b} /\ Choose({b}, SlotOf(p))
  BY DEF Fill
<1>2. \A t \in draft[h] : t.places \subseteq Places
  BY DEF IInv, TypeOK, Drafts
<1>3. p \in Places
  BY <1>1, <1>2 DEF Missing
<1> QED
  BY <1>1, <1>3 DEF Fill

LEMMA ReadBlocksFacts ==
  ASSUME TypeOK, NEW h \in Handlers, ReadBlocks(h)
  PROVE  /\ draft' \in [Handlers -> SUBSET Drafts]
         /\ \A g \in Handlers \ {h} : draft'[g] = draft[g]
         /\ draft'[h] = {[t EXCEPT !.places = PlacesOf(place)] : t \in draft[h]}
<1> DEFINE D == {[t EXCEPT !.places = PlacesOf(place)] : t \in draft[h]}
<1>1. PlacesOf(place) \in SUBSET Places
  BY PlacesOfType DEF TypeOK
<1>2. \A t \in draft[h] : [t EXCEPT !.places = PlacesOf(place)] \in Drafts
  BY <1>1 DEF TypeOK, Drafts
<1>3. D \in SUBSET Drafts
  BY <1>2
<1>4. draft' = [draft EXCEPT ![h] = D]
  BY DEF ReadBlocks
<1> HIDE DEF D
<1>5. /\ draft' \in [Handlers -> SUBSET Drafts] /\ draft'[h] = D
      /\ \A g \in Handlers \ {h} : draft'[g] = draft[g]
  BY <1>3, <1>4 DEF TypeOK
<1> QED
  BY <1>5 DEF D

LEMMA WorkFacts ==
  ASSUME IInv, NEW h \in Handlers, Works(h)
  PROVE  /\ LocalTypes' /\ \A g \in Handlers \ {h} : Unmoved(g)
         /\ UNCHANGED <<place, landing, templates, operations, overlapping, joined>>
         /\ target' = target /\ seen' = seen /\ goal' = goal
         /\ used \subseteq used' /\ used' \subseteq Blocks
         /\ chosen' \in [Blocks -> SUBSET Slots]
         /\ \A b \in Blocks : chosen[b] \subseteq chosen'[b]
         /\ ~Fill(h) => used' = used /\ chosen' = chosen
<1>0. TypeOK /\ LocalTypes /\ chosen \in [Blocks -> SUBSET Slots] /\ used \subseteq Blocks
  BY DEF IInv, TypeOK, LocalTypes, Goals
<1>1. CASE Insert(h) \/ Move(h) \/ DeleteRow(h) \/ UpdateLanding(h) \/ Clear(h)
  <2>1. PICK w \in PCs : Goto(h, w)
    BY <1>1 DEF Insert, Move, DeleteRow, UpdateLanding, Clear, PCs
  <2>2. UNCHANGED <<place, landing, templates, locals, started, chosen, joined>>
    BY <1>1 DEF Insert, Move, DeleteRow, UpdateLanding, Clear, rows
  <2>3. /\ LocalTypes' /\ \A g \in Handlers \ {h} : Unmoved(g)
    BY <1>0, <2>1, <2>2 DEF Goto, LocalTypes, Unmoved, locals
  <2> QED
    BY <1>0, <2>2, <2>3 DEF locals, started
<1>2. CASE BeginSlot(h)
  <2>1. PICK s \in todo[h] : slot' = [slot EXCEPT ![h] = s]
    BY <1>2 DEF BeginSlot
  <2> QED
    BY <1>0, <1>2, <2>1 DEF BeginSlot, Goto, LocalTypes, Unmoved, PCs, started, rows
<1>3. CASE Rewrite(h)
  BY <1>0, <1>3 DEF Rewrite, LocalTypes, Unmoved, started
<1>4. CASE EndSlot(h)
  BY <1>0, <1>4 DEF EndSlot, Goto, LocalTypes, Unmoved, PCs, started, rows
<1>5. CASE Fill(h)
  <2>1. PICK p \in Missing(h), b \in Blocks \ used :
           /\ p \in Places /\ Write(h, b, p) /\ used' = used \union {b}
           /\ Choose({b}, SlotOf(p))
           /\ UNCHANGED <<place, landing, templates, pc, locals, operations, overlapping,
                          joined>>
    BY <1>5, FillFacts
  <2>2. SlotOf(p) \in Slots
    BY <2>1, PlacesType
  <2>3. /\ chosen' \in [Blocks -> SUBSET Slots]
        /\ \A c \in Blocks : chosen[c] \subseteq chosen'[c]
    BY <1>0, <2>1, <2>2, ChooseFacts
  <2> QED
    BY <1>0, <1>5, <2>1, <2>3 DEF LocalTypes, Unmoved, locals
<1>6. CASE ReadBlocks(h)
  BY <1>0, <1>6, ReadBlocksFacts DEF ReadBlocks, Goto, LocalTypes, Unmoved, PCs, started, rows
<1> QED
  BY <1>1, <1>2, <1>3, <1>4, <1>5, <1>6 DEF Works

LEMMA EndFacts ==
  ASSUME TypeOK, NEW h \in Handlers, Commits(h) \/ Ends(h)
  PROVE  /\ Forget(h) /\ LocalTypes' /\ \A g \in Handlers \ {h} : Unmoved(g)
         /\ UNCHANGED <<banners, used, operations, overlapping, chosen, joined>>
         /\ ~CommitLoad(h) => UNCHANGED config
         /\ config' \in Configs
         /\ Commits(h) => UNCHANGED templates
         /\ Ends(h) => UNCHANGED place
<1>1. Forget(h)
  BY DEF Commits, CommitCreate, CommitChange, CommitReorder, CommitLoad, Ends,
     RewriteCollides, Abort, CommitSave
<1>2. LocalTypes' /\ \A g \in Handlers \ {h} : Unmoved(g)
  BY <1>1, ForgetEffect DEF LocalTypes, Unmoved
<1>3. /\ UNCHANGED <<banners, used, operations, overlapping, chosen, joined>>
      /\ ~CommitLoad(h) => UNCHANGED config
      /\ Commits(h) => UNCHANGED templates
      /\ Ends(h) => UNCHANGED place
  BY DEF Commits, CommitCreate, CommitChange, CommitReorder, CommitLoad, Ends,
     RewriteCollides, Abort, CommitSave, landing, started
<1>4. config' \in Configs
  <2>1. CASE CommitLoad(h)
    <3>1. PICK t \in draft[h] : config' = t.config
      BY <2>1 DEF CommitLoad
    <3> QED
      BY <3>1, DraftFacts DEF TypeOK
  <2>2. CASE ~CommitLoad(h)
    BY <1>3, <2>2 DEF TypeOK
  <2> QED
    BY <2>1, <2>2
<1> QED
  BY <1>1, <1>2, <1>3, <1>4

LEMMA CommitSaveType ==
  ASSUME TypeOK, NEW h \in Handlers, NEW n \in Names, CommitSave(h, n)
  PROVE  templates' \in Templates
<1>1. PICK t \in draft[h] : templates' = [m \in DOMAIN templates \union {n} |->
                                            IF m = n THEN t ELSE templates[m]]
  BY DEF CommitSave, Saved
<1>2. t \in Drafts
  BY DEF TypeOK
<1>3. DOMAIN templates \union {n} \in SUBSET Names
  BY TemplatesType DEF TypeOK
<1>4. [m \in DOMAIN templates \union {n} |-> IF m = n THEN t ELSE templates[m]]
        \in [DOMAIN templates \union {n} -> Drafts]
  BY <1>2, TemplatesType DEF TypeOK
<1> QED
  BY <1>1, <1>3, <1>4, TemplatesIntro

LEMMA Framed ==
  ASSUME IInv, NEW h \in Handlers, Steps(h)
  PROVE  /\ LocalTypes' /\ \A g \in Handlers \ {h} : Unmoved(g)
         /\ used \subseteq used' /\ used' \subseteq Blocks
         /\ chosen' \in [Blocks -> SUBSET Slots]
         /\ \A b \in Blocks : chosen[b] \subseteq chosen'[b]
<1>0. TypeOK /\ chosen \in [Blocks -> SUBSET Slots] /\ used \subseteq Blocks
  BY DEF IInv, TypeOK
<1>1. CASE \E s \in Slots : BeginCreate(h, s)
  <2>1. PICK s \in Slots : BeginCreate(h, s)
    BY <1>1
  <2>2. PICK b \in Blocks \ used : Choose({b}, s)
    BY <1>0, <2>1, CreateFacts
  <2> QED
    BY <1>0, <2>1, <2>2, CreateFacts, ChooseFacts
<1>2. CASE \E b \in Stored, s \in Slots : BeginMove(h, b, s)
  <2>1. PICK b \in Stored, s \in Slots : BeginMove(h, b, s)
    BY <1>2
  <2> QED
    BY <1>0, <2>1, MoveFacts, ChooseFacts
<1>3. CASE \E b \in Stored : BeginDelete(h, b)
  BY <1>0, <1>3, DeleteFacts
<1>4. CASE BeginReorder(h)
  BY <1>0, <1>4, ReorderFacts
<1>5. CASE \E n \in DOMAIN templates : BeginLoad(h, n)
  BY <1>0, <1>5, LoadFacts
<1>6. CASE BeginSave(h)
  BY <1>0, <1>6, SaveFacts
<1>7. CASE Works(h)
  BY <1>7, WorkFacts
<1>8. CASE Commits(h) \/ Ends(h)
  BY <1>0, <1>8, EndFacts
<1> QED
  BY <1>1, <1>2, <1>3, <1>4, <1>5, <1>6, <1>7, <1>8 DEF Steps, Begins

(* A step of one handler leaves the others' rows alone.                     *)
LEMMA RowsFramed ==
  ASSUME IInv, NEW h \in Handlers, Steps(h), NEW g \in Handlers \ {h}
  PROVE  written'[g] = written[g] /\ removed'[g] = removed[g]
<1>0. written \in [Handlers -> Rows] /\ removed \in [Handlers -> SUBSET Blocks]
  BY DEF IInv, TypeOK
<1>1. CASE UNCHANGED rows \/ Dropped(h) \/ Committed(h)
  BY <1>0, <1>1 DEF rows, Dropped, Committed
<1>2. CASE \E b \in Blocks, p \in Places : Wrote(h, b, p)
  BY <1>0, <1>2, WriteFacts DEF Wrote
<1>3. CASE \E B \in SUBSET Stored : Deleted(h, B)
  BY <1>0, <1>3 DEF Deleted
<1> QED
  BY <1>1, <1>2, <1>3, Effects DEF Effect

LEMMA StepTypes ==
  ASSUME IInv, NEW h \in Handlers, Steps(h)
  PROVE  TypeOK' /\ RowInv'
<1>0. TypeOK /\ RowInv
  BY DEF IInv, RowInv, TypeOK
<1>1. RowInv'
  BY <1>0, Effects, EffectKeeps
<1>2. /\ LocalTypes' /\ used' \subseteq Blocks /\ chosen' \in [Blocks -> SUBSET Slots]
  BY Framed
<1>3. /\ config' \in Configs /\ banners' \in 0 .. MaxBanners
      /\ operations' \in Nat /\ overlapping' \subseteq Handlers
  <2>1. CASE Begins(h)
    BY <1>0, <2>1, BeginFacts DEF TypeOK, landing
  <2>2. CASE Works(h)
    BY <1>0, <2>2, WorkFacts DEF TypeOK, landing
  <2>3. CASE Commits(h) \/ Ends(h)
    BY <1>0, <2>3, EndFacts DEF TypeOK
  <2> QED
    BY <2>1, <2>2, <2>3 DEF Steps
<1>4. joined' \subseteq Handlers
  <2>1. CASE Begins(h)
    BY <1>0, <2>1 DEF Begins, BeginCreate, BeginMove, BeginDelete, BeginReorder, BeginLoad,
       BeginSave, TypeOK
  <2>2. CASE ~Begins(h)
    BY <1>0, <2>2, WorkFacts, EndFacts DEF Steps, TypeOK
  <2> QED
    BY <2>1, <2>2
<1>5. templates' \in Templates
  <2>1. CASE \E n \in Names : CommitSave(h, n)
    BY <1>0, <2>1, CommitSaveType
  <2>2. CASE RewriteCollides(h) \/ Abort(h)
    BY <1>0, <2>2 DEF RewriteCollides, Abort, TypeOK
  <2>3. CASE Begins(h) \/ Works(h) \/ Commits(h)
    BY <1>0, <2>3, BeginFacts, WorkFacts, EndFacts DEF TypeOK
  <2> QED
    BY <2>1, <2>2, <2>3 DEF Steps, Ends
<1> QED
  BY <1>1, <1>2, <1>3, <1>4, <1>5 DEF TypeOK, RowInv, LocalTypes, Goals

----------------------------------------------------------------------------
(* What transactions hold *)

(* Rows come from a commit and go with one.                                 *)
LEMMA StoredMoves ==
  ASSUME IInv, NEW h \in Handlers, Steps(h)
  PROVE  /\ Stored' \subseteq Stored \union DOMAIN written[h]
         /\ Stored \ removed[h] \subseteq Stored'
         /\ ~Commits(h) => place' = place /\ Stored' = Stored
         /\ ~(CommitCreate(h) \/ CommitLoad(h)) => Stored' \subseteq Stored
<1>1. CASE Commits(h)
  <2>1. place' = View(h)
    BY <1>1 DEF Commits, CommitCreate, CommitChange, CommitReorder, CommitLoad
  <2>2. Stored' = (Stored \union DOMAIN written[h]) \ removed[h]
    BY <2>1, ViewFacts DEF Stored
  <2>3. CommitChange(h) \/ CommitReorder(h) => DOMAIN written[h] \subseteq Stored
    BY DEF CommitChange, CommitReorder, IInv, Transactions, Accountable
  <2> QED
    BY <1>1, <2>2, <2>3 DEF Commits
<1>2. CASE ~Commits(h)
  <2>1. place' = place
    BY <1>2, BeginFacts, WorkFacts, EndFacts DEF Steps, IInv, rows
  <2> QED
    BY <1>2, <2>1 DEF Stored
<1> QED
  BY <1>1, <1>2

(* What a work step writes or deletes *)
LEMMA WorkRows ==
  ASSUME IInv, NEW h \in Handlers, Works(h)
  PROVE  /\ Stored' = Stored
         /\ \/ UNCHANGED <<written, removed>>
            \/ /\ Insert(h) \/ Move(h) \/ Rewrite(h) \/ Fill(h)
               /\ removed' = removed
               /\ \E b \in Blocks :
                    /\ DOMAIN written'[h] = DOMAIN written[h] \union {b}
                    /\ Insert(h) => b \in target[h]
                    /\ Move(h) \/ Rewrite(h) => b \in Stored
                    /\ Fill(h) => b \in used' \ used
            \/ /\ DeleteRow(h) \/ Clear(h)
               /\ written' = written
               /\ removed'[h] \subseteq Stored
<1>0. /\ written \in [Handlers -> Rows] /\ removed \in [Handlers -> SUBSET Blocks]
      /\ target[h] \subseteq Blocks /\ Stored \subseteq Blocks
  BY RowsType DEF IInv, TypeOK, Stored
<1>1. Stored' = Stored
  BY WorkFacts DEF Stored
<1>00. \A b, p : Write(h, b, p) => DOMAIN written'[h] = DOMAIN written[h] \union {b}
  BY <1>0 DEF Write
<1>000. /\ Insert(h) => pc[h] = "insert"
        /\ Move(h) => pc[h] = "move"
        /\ Rewrite(h) => pc[h] = "rewrite"
        /\ Fill(h) => pc[h] = "fill"
  BY DEF Insert, Move, Rewrite, Fill
<1>2. CASE Insert(h)
  <2>1. PICK b \in target[h] : Write(h, b, Aim(h)) /\ removed' = removed
    BY <1>2 DEF Insert
  <2> QED
    BY <1>0, <1>00, <1>1, <1>2, <1>000, <2>1
<1>3. CASE Move(h)
  <2>1. PICK b \in target[h] \intersect Stored : Write(h, b, Aim(h)) /\ removed' = removed
    BY <1>3 DEF Move
  <2> QED
    BY <1>0, <1>00, <1>1, <1>3, <1>000, <2>1
<1>4. CASE Rewrite(h)
  <2>1. removed' = removed
    BY <1>4 DEF Rewrite
  <2>2. CASE written' = written
    BY <1>1, <2>1, <2>2
  <2>3. CASE written' # written
    <3>1. PICK b \in Members(h) : b \in Stored /\ Write(h, b, DuePlace(h, b))
      BY <1>4, <2>3 DEF Rewrite
    <3> QED
      BY <1>0, <1>00, <1>1, <1>4, <2>1, <3>1 DEF Insert, Fill, Rewrite
  <2> QED
    BY <2>2, <2>3
<1>5. CASE Fill(h)
  <2>1. PICK p \in Missing(h), b \in Blocks \ used :
           Write(h, b, p) /\ used' = used \union {b} /\ removed' = removed /\ pc[h] = "fill"
    BY <1>5, FillFacts
  <2> QED
    BY <1>00, <1>1, <1>5, <2>1 DEF Insert, Move, Rewrite
<1>6. CASE DeleteRow(h) \/ Clear(h)
  BY <1>0, <1>1, <1>6 DEF DeleteRow, Clear
<1>7. CASE BeginSlot(h) \/ EndSlot(h) \/ UpdateLanding(h) \/ ReadBlocks(h)
  BY <1>1, <1>7 DEF BeginSlot, EndSlot, UpdateLanding, ReadBlocks, rows
<1> QED
  BY <1>1, <1>2, <1>3, <1>4, <1>5, <1>6, <1>7 DEF Works

(* Where a work step goes *)
LEMMA WorkMoves ==
  ASSUME IInv, NEW h \in Handlers
  PROVE  /\ Insert(h) => pc[h] = "insert" /\ pc'[h] = "created" /\ step' = step
         /\ Move(h) => pc[h] = "move" /\ pc'[h] = "commit" /\ step' = step
         /\ DeleteRow(h) => pc[h] = "delete" /\ pc'[h] = "commit" /\ step' = step
         /\ BeginSlot(h) => pc[h] = "reorder" /\ pc'[h] = "rewrite" /\ step' = step
         /\ Rewrite(h) => pc[h] = "rewrite" /\ pc'[h] = "rewrite"
         /\ EndSlot(h) => pc[h] = "rewrite" /\ pc'[h] = "reorder" /\ step'[h] = 0
         /\ UpdateLanding(h) => pc[h] = "update" /\ pc'[h] = "clear" /\ step' = step
         /\ Clear(h) => pc[h] = "clear" /\ pc'[h] = "fill" /\ step' = step
         /\ Fill(h) => pc[h] = "fill" /\ pc'[h] = "fill" /\ step' = step
         /\ ReadBlocks(h) => pc[h] = "snapshot" /\ pc'[h] = "save" /\ step' = step
         /\ Works(h) /\ ~ReadBlocks(h) => draft' = draft
<1> USE DEF IInv, TypeOK, Goto, locals
<1>1. Insert(h) => pc[h] = "insert" /\ pc'[h] = "created" /\ step' = step
  BY DEF Insert
<1>2. Move(h) => pc[h] = "move" /\ pc'[h] = "commit" /\ step' = step
  BY DEF Move
<1>3. DeleteRow(h) => pc[h] = "delete" /\ pc'[h] = "commit" /\ step' = step
  BY DEF DeleteRow
<1>4. BeginSlot(h) => pc[h] = "reorder" /\ pc'[h] = "rewrite" /\ step' = step
  BY DEF BeginSlot
<1>5. Rewrite(h) => pc[h] = "rewrite" /\ pc'[h] = "rewrite"
  BY DEF Rewrite
<1>6. EndSlot(h) => pc[h] = "rewrite" /\ pc'[h] = "reorder" /\ step'[h] = 0
  BY DEF EndSlot
<1>7. UpdateLanding(h) => pc[h] = "update" /\ pc'[h] = "clear" /\ step' = step
  BY DEF UpdateLanding
<1>8. Clear(h) => pc[h] = "clear" /\ pc'[h] = "fill" /\ step' = step
  BY DEF Clear
<1>9. Fill(h) => pc[h] = "fill" /\ pc'[h] = "fill" /\ step' = step
  BY DEF Fill
<1>10. ReadBlocks(h) => pc[h] = "snapshot" /\ pc'[h] = "save" /\ step' = step
  BY DEF ReadBlocks
<1>11. Works(h) /\ ~ReadBlocks(h) => draft' = draft
  BY DEF Works, Insert, Move, DeleteRow, BeginSlot, Rewrite, EndSlot, UpdateLanding, Clear, Fill
<1> QED
  BY <1>1, <1>2, <1>3, <1>4, <1>5, <1>6, <1>7, <1>8, <1>9, <1>10, <1>11

LEMMA AccountableStep ==
  ASSUME IInv, NEW h \in Handlers, Steps(h)
  PROVE  Accountable(h)'
<1>0. TypeOK /\ Accountable(h)
  BY DEF IInv, Transactions
<1>1. CASE Begins(h)
  <2>1. /\ written' = written /\ removed' = removed /\ Stored' = Stored /\ step' = step
        /\ pc[h] = "idle"
    BY <1>0, <1>1, BeginFacts DEF rows, Stored
  <2>2. /\ pc'[h] \in {"insert", "move", "delete", "reorder", "update", "snapshot"}
        /\ \A b, c \in target'[h] : b = c
        /\ \A t, u \in draft'[h] : t = u
    <3>1. CASE \E s \in Slots : BeginCreate(h, s)
      <4>1. PICK s \in Slots : BeginCreate(h, s)
        BY <3>1
      <4>2. PICK b \in Blocks : target'[h] = {b}
        BY <1>0, <4>1, CreateFacts
      <4> QED
        BY <1>0, <4>1, <4>2, CreateFacts DEF Accountable
    <3>2. CASE \E b \in Stored, s \in Slots : BeginMove(h, b, s)
      BY <1>0, <3>2, MoveFacts DEF Accountable
    <3>3. CASE \E b \in Stored : BeginDelete(h, b)
      BY <1>0, <3>3, DeleteFacts DEF Accountable
    <3>4. CASE BeginReorder(h)
      BY <1>0, <3>4, ReorderFacts DEF Accountable
    <3>5. CASE \E n \in DOMAIN templates : BeginLoad(h, n)
      BY <1>0, <3>5, LoadFacts DEF Accountable
    <3>6. CASE BeginSave(h)
      BY <1>0, <3>6, SaveFacts DEF Accountable
    <3> QED
      BY <1>1, <3>1, <3>2, <3>3, <3>4, <3>5, <3>6 DEF Begins
  <2> QED
    BY <1>0, <2>1, <2>2 DEF Accountable
<1>2. CASE Works(h)
  <2>1. target' = target /\ Stored' = Stored
    BY <1>2, WorkFacts, WorkRows
  <2>2. \A t, u \in draft'[h] : t = u
    <3>1. CASE ReadBlocks(h)
      BY <1>0, <3>1, ReadBlocksFacts DEF Accountable
    <3>2. CASE ~ReadBlocks(h)
      BY <1>0, <1>2, <3>2, WorkMoves DEF Accountable
    <3> QED
      BY <3>1, <3>2
  <2>3. CASE Insert(h)
    <3>1. DOMAIN written[h] = {} /\ removed[h] = {}
      BY <1>0, <2>3, WorkMoves DEF Accountable
    <3>2. removed' = removed /\ DOMAIN written'[h] = target[h]
      <4>1. PICK b \in target[h] : Write(h, b, Aim(h))
        BY <2>3 DEF Insert
      <4>2. DOMAIN written'[h] = DOMAIN written[h] \union {b}
        BY <1>0, <4>1 DEF Write, TypeOK
      <4> QED
        BY <1>0, <2>3, <3>1, <4>1, <4>2 DEF Insert, Accountable
    <3> QED
      BY <1>0, <2>1, <2>2, <2>3, <3>1, <3>2, WorkMoves DEF Accountable
  <2>4. CASE Move(h) \/ DeleteRow(h) \/ Rewrite(h)
    BY <1>0, <1>2, <2>1, <2>2, <2>4, WorkRows, WorkMoves DEF Accountable
  <2>5. CASE BeginSlot(h) \/ EndSlot(h) \/ UpdateLanding(h) \/ Clear(h)
    BY <1>0, <1>2, <2>1, <2>2, <2>5, WorkRows, WorkMoves DEF Accountable
  <2>6. CASE Fill(h) \/ ReadBlocks(h)
    BY <1>0, <1>2, <2>1, <2>2, <2>6, WorkRows, WorkMoves DEF Accountable
  <2> QED
    BY <1>2, <2>3, <2>4, <2>5, <2>6 DEF Works
<1>3. CASE Commits(h) \/ Ends(h)
  <2>1. Forget(h)
    BY <1>0, <1>3, EndFacts
  <2> QED
    BY <1>0, <2>1, ForgetEffect, NoRowsType DEF Accountable
<1> QED
  BY <1>1, <1>2, <1>3 DEF Steps

LEMMA TransactionsStep ==
  ASSUME IInv, NEW h \in Handlers, Steps(h)
  PROVE  Transactions'
<1> SUFFICES ASSUME NEW g \in Handlers PROVE Accountable(g)'
  BY DEF Transactions
<1>1. CASE g = h
  BY <1>1, AccountableStep
<1>2. CASE g # h
  <2>1. /\ Held(g) \intersect Held(h) = {} /\ Accountable(g) /\ Unmoved(g)
        /\ written'[g] = written[g] /\ removed'[g] = removed[g]
    BY <1>2, Framed, RowsFramed DEF IInv, Locking, Transactions
  <2>2. Held(g) \intersect Stored \subseteq Stored'
    BY <2>1, StoredMoves DEF Held
  <2> QED
    BY <1>2, <2>1, <2>2 DEF Accountable, Unmoved, Held
<1> QED
  BY <1>1, <1>2

(* The rows of an unfinished creation or load are its own.                  *)
LEMMA NewMoves ==
  ASSUME IInv, NEW h \in Handlers, Steps(h)
  PROVE  /\ New(h)' \subseteq New(h) \union (used' \ used)
         /\ \A g \in Handlers \ {h} : New(g)' = New(g)
         /\ Stored' \intersect New(h)' = {}
         /\ Stored' \subseteq Stored \union New(h)
<1>0. /\ TypeOK /\ Accountable(h) /\ Accountable(h)' /\ Freshness
      /\ used \subseteq used'
  BY AccountableStep, Framed DEF IInv, Transactions
<1>1. \A g \in Handlers \ {h} : New(g)' = New(g)
  BY Framed, RowsFramed DEF New, Creating, Unmoved
<1>2. Stored' \subseteq Stored \union New(h)
  <2>1. CASE CommitCreate(h)
    BY <1>0, <2>1, StoredMoves DEF CommitCreate, Accountable, New, Creating
  <2>2. CASE CommitLoad(h)
    BY <1>0, <2>2, StoredMoves DEF CommitLoad, New, Creating
  <2>3. CASE ~(CommitCreate(h) \/ CommitLoad(h))
    BY <2>3, StoredMoves
  <2> QED
    BY <2>1, <2>2, <2>3
<1>3. /\ New(h)' \subseteq New(h) \union (used' \ used)
      /\ Stored' \intersect New(h)' = {}
  <2>1. CASE Begins(h)
    <3>1. New(h)' \subseteq used' \ used /\ Stored' = Stored
      <4>1. Stored' = Stored
        BY <1>0, <2>1, BeginFacts DEF rows, Stored
      <4>2. CASE \E s \in Slots : BeginCreate(h, s)
        <5>1. PICK s \in Slots : BeginCreate(h, s)
          BY <4>2
        <5>2. PICK b \in Blocks \ used : b \in used' /\ target'[h] = {b}
          BY <1>0, <5>1, CreateFacts
        <5>3. pc'[h] = "insert"
          BY <1>0, <5>1, CreateFacts
        <5> QED
          BY <4>1, <5>2, <5>3 DEF New, Creating
      <4>3. CASE ~\E s \in Slots : BeginCreate(h, s)
        <5>1. pc'[h] \in {"move", "delete", "reorder", "update", "snapshot"}
          BY <1>0, <2>1, <4>3, MoveFacts, DeleteFacts, ReorderFacts, LoadFacts, SaveFacts
             DEF Begins
        <5> QED
          BY <4>1, <5>1 DEF New, Creating
      <4> QED
        BY <4>2, <4>3
    <3> QED
      BY <1>0, <3>1 DEF Freshness
  <2>2. CASE Works(h)
    <3>1. target' = target /\ Stored' = Stored
      BY <2>2, WorkFacts, WorkRows
    <3>2. CASE Insert(h)
      BY <1>0, <3>1, <3>2, WorkMoves DEF New, Creating, Freshness
    <3>3. CASE Clear(h)
      <4>1. DOMAIN written'[h] = {}
        BY <1>0, <3>3, WorkMoves DEF Clear, Accountable
      <4> QED
        BY <3>3, <4>1, WorkMoves DEF New, Creating
    <3>4. CASE Fill(h)
      <4>1. PICK b \in Blocks : /\ DOMAIN written'[h] \subseteq DOMAIN written[h] \union {b}
                                /\ b \in used' \ used
        <5>1. PICK p \in Missing(h), b \in Blocks \ used :
                Write(h, b, p) /\ used' = used \union {b}
          BY <3>4, FillFacts
        <5>2. DOMAIN written'[h] = DOMAIN written[h] \union {b}
          BY <1>0, <5>1 DEF Write, TypeOK
        <5> QED
          BY <5>1, <5>2
      <4>2. New(h) = DOMAIN written[h] /\ New(h)' = DOMAIN written'[h]
        BY <3>4, WorkMoves DEF New, Creating
      <4> QED
        BY <1>0, <3>1, <4>1, <4>2 DEF Freshness
    <3>5. CASE Works(h) /\ ~Insert(h) /\ ~Clear(h) /\ ~Fill(h)
      <4>1. pc'[h] \in {"commit", "rewrite", "reorder", "clear", "save"}
        BY <3>5, WorkMoves DEF Works
      <4> QED
        BY <4>1 DEF New, Creating
    <3> QED
      BY <2>2, <3>2, <3>3, <3>4, <3>5
  <2>3. CASE Commits(h) \/ Ends(h)
    <3>1. pc'[h] = "idle"
      BY <1>0, <2>3, EndFacts, ForgetEffect
    <3> QED
      BY <3>1 DEF New, Creating
  <2> QED
    BY <2>1, <2>2, <2>3 DEF Steps
<1> QED
  BY <1>1, <1>2, <1>3

LEMMA FreshnessStep ==
  ASSUME IInv, NEW h \in Handlers, Steps(h)
  PROVE  Freshness'
<1>0. Freshness /\ used \subseteq used' /\ TypeOK'
  BY Framed, StepTypes DEF IInv
<1>1. /\ New(h)' \subseteq New(h) \union (used' \ used)
      /\ \A g \in Handlers \ {h} : New(g)' = New(g)
      /\ Stored' \intersect New(h)' = {}
      /\ Stored' \subseteq Stored \union New(h)
  BY NewMoves
<1>2. Stored' \subseteq used'
  BY <1>0, <1>1 DEF Freshness
<1>3. \A g \in Handlers : New(g)' \subseteq used' \ Stored'
  BY <1>0, <1>1 DEF Freshness
<1>4. \A f, g \in Handlers : f # g => New(f)' \intersect New(g)' = {}
  BY <1>0, <1>1 DEF Freshness
<1> QED
  BY <1>2, <1>3, <1>4 DEF Freshness

----------------------------------------------------------------------------
(* Slots *)

Placed(h) == Aimed(h) /\ Planned(h) /\ Settled(h)

LEMMA RewritePlaced ==
  ASSUME IInv, NEW h \in Handlers, Rewrite(h)
  PROVE  Planned(h)'
<1> DEFINE n == Cardinality(Members(h))
<1>0. TypeOK /\ Accountable(h) /\ Planned(h) /\ pc[h] = "rewrite"
  BY DEF IInv, Transactions, Placing, Rewrite
<1>1. seen[h] \in Rows /\ slot[h] \in Slots /\ step[h] \in Nat
      /\ goal[h] \in Orderings(seen[h])
  BY <1>0 DEF TypeOK, Planned, Reordering
<1>2. /\ n \in Nat
      /\ \A b \in Members(h) :
           /\ b \in DOMAIN seen[h] /\ SlotOf(seen[h][b]) = slot[h]
           /\ goal[h][b] \in 0 .. n - 1 /\ Rank(seen[h], b) \in 0 .. n - 1
      /\ \A b, c \in Members(h) : goal[h][b] = goal[h][c] => b = c
  <2>1. \A b \in Members(h) : SlotOf(seen[h][b]) = slot[h]
    BY DEF Members, In
  <2> QED
    BY <1>1, <2>1, RankFacts, OrderingFacts DEF Members
<1>3. /\ pc' = pc /\ seen' = seen /\ goal' = goal /\ slot' = slot /\ chosen' = chosen
      /\ Members(h)' = Members(h) /\ step'[h] = step[h] + 1
  BY <1>0 DEF Rewrite, Members, TypeOK
<1>4. PICK b \in Members(h) :
        /\ Due(h, b)
        /\ \/ b \in Stored /\ Write(h, b, DuePlace(h, b))
           \/ b \notin Stored /\ UNCHANGED written
  BY DEF Rewrite
<1>5. /\ DOMAIN written'[h] \subseteq DOMAIN written[h] \union {b}
      /\ \A c \in DOMAIN written'[h] \ {b} : written'[h][c] = written[h][c]
      /\ b \in DOMAIN written'[h] => written'[h][b] = DuePlace(h, b)
  <2>1. CASE Write(h, b, DuePlace(h, b))
    BY <1>0, <2>1 DEF Write, TypeOK
  <2>2. CASE b \notin Stored /\ UNCHANGED written
    BY <1>0, <2>2 DEF Accountable
  <2> QED
    BY <1>4, <2>1, <2>2
<1>6. ASSUME NEW c \in DOMAIN written'[h]
      PROVE  \/ c \in Members(h) /\ step[h] + 1 <= n + goal[h][c]
             \/ SlotOf(written'[h][c]) = SlotOf(seen[h][c])
  <2> HIDE DEF n
  <2>1. CASE c = b /\ Parking(h)
    BY <1>1, <1>2, <2>1 DEF Parking, n
  <2>2. CASE c = b /\ ~Parking(h)
    <3>1. written'[h][b] = <<slot[h], goal[h][b]>>
      BY <1>5, <1>6, <2>2 DEF DuePlace
    <3> QED
      BY <1>2, <2>2, <3>1 DEF SlotOf
  <2>3. CASE c # b
    <3>1. c \in DOMAIN written[h] /\ written'[h][c] = written[h][c]
      BY <1>5, <1>6, <2>3
    <3>2. CASE Returning(h, c)
      <4>1. c \in Members(h) /\ step[h] <= n + goal[h][c]
        BY <3>2 DEF Returning, n
      <4>2. step[h] # n + goal[h][c]
        <5> SUFFICES ASSUME step[h] = n + goal[h][c] PROVE FALSE
          OBVIOUS
        <5>1. step[h] = n + goal[h][b]
          BY <1>1, <1>2, <1>4, <4>1 DEF Due, n
        <5> QED
          BY <1>2, <2>3, <4>1, <5>1
      <4> QED
        BY <1>1, <1>2, <4>1, <4>2
    <3>3. CASE ~Returning(h, c)
      BY <1>0, <3>1, <3>3 DEF Planned, Reordering
    <3> QED
      BY <3>2, <3>3
  <2> QED
    BY <2>1, <2>2, <2>3
<1>7. \A c \in DOMAIN written'[h] :
        Returning(h, c)' \/ SlotOf(written'[h][c]) = SlotOf(seen'[h][c])
  <2> HIDE DEF n
  <2> QED
    BY <1>0, <1>3, <1>6 DEF Returning, n
<1>8. DOMAIN written'[h] \subseteq DOMAIN seen[h]
  BY <1>0, <1>2, <1>5 DEF Planned, Reordering
<1> QED
  BY <1>0, <1>3, <1>7, <1>8 DEF Planned, Reordering

LEMMA PlacedStep ==
  ASSUME IInv, NEW h \in Handlers, Steps(h)
  PROVE  Placed(h)'
<1>0. /\ TypeOK /\ Accountable(h) /\ Accountable(h)' /\ Placed(h) /\ SlotsWereChosen
      /\ target[h] \subseteq Blocks /\ Stored \subseteq Blocks
      /\ \A b \in Blocks : chosen[b] \subseteq chosen'[b]
  BY AccountableStep, Framed, RowsType DEF IInv, Transactions, Placing, Placed, TypeOK, Stored
<1>1. CASE Begins(h)
  <2>1. /\ pc[h] = "idle" /\ place' = place /\ written' = written /\ DOMAIN written'[h] = {}
    BY <1>0, <1>1, BeginFacts DEF rows, Accountable
  <2>2. CASE \E s \in Slots : BeginCreate(h, s)
    <3>1. PICK s \in Slots : BeginCreate(h, s)
      BY <2>2
    <3>2. PICK b \in Blocks : target'[h] = {b} /\ Choose({b}, s)
      BY <1>0, <3>1, CreateFacts
    <3>3. pc'[h] = "insert" /\ seen'[h] = place /\ slot'[h] = s /\ NextOrder(place, s) # {}
      BY <1>0, <3>1, CreateFacts
    <3> QED
      BY <1>0, <2>1, <3>2, <3>3, ChooseFacts DEF Placed, Aimed, Planned, Settled, Reordering
  <2>3. CASE \E b \in Stored, s \in Slots : BeginMove(h, b, s)
    <3>1. PICK b \in Stored, s \in Slots : BeginMove(h, b, s)
      BY <2>3
    <3>2. target'[h] = {b} /\ Choose({b}, s) /\ b \in Blocks
      BY <1>0, <3>1, MoveFacts
    <3>3. pc'[h] = "move" /\ seen'[h] = place /\ slot'[h] = s /\ NextOrder(place, s) # {}
      BY <1>0, <3>1, MoveFacts
    <3> QED
      BY <1>0, <2>1, <3>2, <3>3, ChooseFacts DEF Placed, Aimed, Planned, Settled, Reordering
  <2>4. CASE BeginReorder(h)
    BY <1>0, <2>1, <2>4, ReorderFacts
       DEF Placed, Aimed, Planned, Settled, Reordering, SlotsWereChosen, Stored
  <2>5. CASE pc'[h] \in {"delete", "update", "snapshot"}
    BY <2>1, <2>5 DEF Placed, Aimed, Planned, Settled, Reordering
  <2> QED
    BY <1>0, <1>1, <2>2, <2>3, <2>4, <2>5, DeleteFacts, LoadFacts, SaveFacts DEF Begins
<1>2. CASE Insert(h)
  <2>1. PICK b \in target[h] : Write(h, b, Aim(h))
    BY <1>2 DEF Insert
  <2>2. pc[h] = "insert" /\ pc'[h] = "created" /\ chosen' = chosen /\ removed[h] = {}
        /\ DOMAIN written[h] = {}
    BY <1>0, <1>2, WorkMoves DEF Insert, Accountable
  <2>3. SlotOf(Aim(h)) = slot[h] /\ slot[h] \in chosen[b]
    BY <1>0, <2>1, <2>2, AimType DEF Placed, Aimed
  <2>4. \A c \in DOMAIN written'[h] : c = b /\ written'[h][c] = Aim(h)
    BY <1>0, <2>1, <2>2 DEF Write, TypeOK
  <2> QED
    BY <2>2, <2>3, <2>4 DEF Placed, Aimed, Planned, Settled, Reordering
<1>3. CASE Move(h)
  <2>1. PICK b \in target[h] : Write(h, b, Aim(h))
    BY <1>3 DEF Move
  <2>2. pc[h] = "move" /\ pc'[h] = "commit" /\ chosen' = chosen /\ DOMAIN written[h] = {}
    BY <1>0, <1>3, WorkMoves DEF Move, Accountable
  <2>3. SlotOf(Aim(h)) = slot[h] /\ slot[h] \in chosen[b]
    BY <1>0, <2>1, <2>2, AimType DEF Placed, Aimed
  <2>4. \A c \in DOMAIN written'[h] : c = b /\ written'[h][c] = Aim(h)
    BY <1>0, <2>1, <2>2 DEF Write, TypeOK
  <2> QED
    BY <2>2, <2>3, <2>4 DEF Placed, Aimed, Planned, Settled, Reordering
<1>4. CASE DeleteRow(h) \/ UpdateLanding(h) \/ Clear(h) \/ ReadBlocks(h)
  <2>1. pc'[h] \in {"commit", "clear", "fill", "save"} /\ written' = written
        /\ DOMAIN written[h] = {}
    BY <1>0, <1>4, WorkMoves
       DEF DeleteRow, UpdateLanding, Clear, ReadBlocks, rows, Accountable
  <2> QED
    BY <2>1 DEF Placed, Aimed, Planned, Settled, Reordering
<1>5. CASE BeginSlot(h)
  <2>1. /\ pc[h] = "reorder" /\ pc'[h] = "rewrite" /\ written' = written
        /\ seen' = seen /\ goal' = goal /\ chosen' = chosen
    BY <1>5, WorkMoves DEF BeginSlot, rows
  <2> QED
    BY <1>0, <2>1 DEF Placed, Aimed, Planned, Settled, Reordering, Returning
<1>6. CASE Rewrite(h)
  BY <1>6, RewritePlaced, WorkMoves DEF Placed, Aimed, Settled, Reordering
<1>7. CASE EndSlot(h)
  <2> DEFINE n == Cardinality(Members(h))
  <2>1. /\ pc[h] = "rewrite" /\ pc'[h] = "reorder" /\ written' = written
        /\ seen' = seen /\ goal' = goal /\ chosen' = chosen /\ step[h] = 2 * n
    BY <1>7, WorkMoves DEF EndSlot, rows
  <2>2. seen[h] \in Rows /\ slot[h] \in Slots /\ goal[h] \in Orderings(seen[h])
    BY <1>0, <2>1 DEF TypeOK, Placed, Planned, Reordering
  <2>3. n \in Nat /\ \A b \in Members(h) : goal[h][b] \in 0 .. n - 1
    BY <2>2, RankFacts, OrderingFacts DEF Members
  <2>4. \A b : ~Returning(h, b)
    <3> HIDE DEF n
    <3>1. \A b \in Members(h) : ~(2 * n <= n + goal[h][b])
      BY <2>3
    <3> QED
      BY <2>1, <3>1 DEF Returning, n
  <2> QED
    BY <1>0, <2>1, <2>4 DEF Placed, Aimed, Planned, Settled, Reordering
<1>8. CASE Fill(h)
  <2>1. PICK p \in Missing(h), b \in Blocks \ used :
          p \in Places /\ Write(h, b, p) /\ Choose({b}, SlotOf(p))
    BY <1>8, FillFacts
  <2>2. SlotOf(p) \in chosen'[b]
    BY <1>0, <2>1, PlacesType, ChooseFacts
  <2>3. /\ \A c \in DOMAIN written'[h] \ {b} :
             c \in DOMAIN written[h] /\ written'[h][c] = written[h][c]
        /\ written'[h][b] = p
    BY <1>0, <2>1 DEF Write, TypeOK
  <2>4. pc[h] = "fill" /\ pc'[h] = "fill"
    BY <1>8, WorkMoves
  <2>5. DOMAIN written[h] \subseteq Blocks
    BY <1>0, RowsType DEF TypeOK
  <2>6. \A c \in DOMAIN written[h] : SlotOf(written[h][c]) \in chosen[c]
    BY <1>0, <2>4 DEF Placed, Settled, Reordering
  <2>7. ASSUME NEW c \in DOMAIN written'[h]
        PROVE  SlotOf(written'[h][c]) \in chosen'[c]
    BY <1>0, <2>2, <2>3, <2>5, <2>6
  <2> QED
    BY <2>4, <2>7 DEF Placed, Aimed, Planned, Settled, Reordering
<1>9. CASE Commits(h) \/ Ends(h)
  <2>1. pc'[h] = "idle" /\ DOMAIN written'[h] = {}
    BY <1>0, <1>9, EndFacts, ForgetEffect, NoRowsType
  <2> QED
    BY <2>1 DEF Placed, Aimed, Planned, Settled, Reordering
<1> QED
  BY <1>1, <1>2, <1>3, <1>4, <1>5, <1>6, <1>7, <1>8, <1>9 DEF Steps, Works

LEMMA PlacingStep ==
  ASSUME IInv, NEW h \in Handlers, Steps(h)
  PROVE  Placing'
<1> SUFFICES ASSUME NEW g \in Handlers PROVE Placed(g)'
  BY DEF Placing, Placed
<1>1. CASE g = h
  BY <1>1, PlacedStep
<1>2. CASE g # h
  <2>1. /\ Placed(g) /\ Unmoved(g) /\ written'[g] = written[g]
        /\ \A b \in Blocks : chosen[b] \subseteq chosen'[b]
    BY <1>2, Framed, RowsFramed DEF IInv, Placing, Placed
  <2>2. target[g] \subseteq Blocks /\ DOMAIN seen[g] \subseteq Blocks
        /\ DOMAIN written[g] \subseteq Blocks
    BY RowsType DEF IInv, TypeOK
  <2>3. Aimed(g)'
    BY <2>1, <2>2 DEF Placed, Aimed, Unmoved
  <2>4. Planned(g)'
    BY <2>1, <2>2 DEF Placed, Planned, Unmoved, Reordering, Returning, Members
  <2>5. Settled(g)'
    BY <2>1, <2>2 DEF Placed, Settled, Unmoved, Reordering
  <2> QED
    BY <2>3, <2>4, <2>5 DEF Placed
<1> QED
  BY <1>1, <1>2

LEMMA SlotsWereChosenStep ==
  ASSUME IInv, NEW h \in Handlers, Steps(h)
  PROVE  SlotsWereChosen'
<1>0. /\ TypeOK /\ Placed(h) /\ SlotsWereChosen /\ Stored \subseteq Blocks
      /\ \A b \in Blocks : chosen[b] \subseteq chosen'[b]
  BY Framed, RowsType DEF IInv, Placing, Placed, TypeOK, Stored
<1>1. CASE Commits(h)
  <2>1. place' = View(h) /\ chosen' = chosen
    BY <1>0, <1>1, EndFacts
       DEF Commits, CommitCreate, CommitChange, CommitReorder, CommitLoad
  <2>2. \A b \in DOMAIN written[h] : SlotOf(written[h][b]) \in chosen[b]
    <3>1. pc[h] # "rewrite"
      BY <1>1 DEF Commits, CommitCreate, CommitChange, CommitReorder, CommitLoad
    <3> QED
      BY <1>0, <3>1 DEF Placed, Planned, Settled, Reordering, Returning
  <2> QED
    BY <1>0, <2>1, <2>2, ViewFacts DEF SlotsWereChosen, Stored
<1>2. CASE ~Commits(h)
  BY <1>0, <1>2, StoredMoves DEF SlotsWereChosen
<1> QED
  BY <1>1, <1>2

----------------------------------------------------------------------------
(* Loads, and operations that run alone *)

(* Who is under way with what *)
LEMMA Phases ==
  ASSUME IInv, NEW h \in Handlers, Steps(h)
  PROVE  /\ ~Begins(h) => pc[h] # "idle" /\ overlapping' = overlapping /\ joined' = joined
         /\ banners' = banners
         /\ Creating(h)' => (\E s \in Slots : BeginCreate(h, s)) \/ Creating(h)
         /\ CommitCreate(h) => Creating(h)
         /\ CommitLoad(h) => pc[h] = "fill"
         /\ pc'[h] \in {"clear", "fill"} => UpdateLanding(h) \/ pc[h] \in {"clear", "fill"}
<1>0. TypeOK
  BY DEF IInv
<1>1. CASE Begins(h)
  <2>1. banners' = banners /\ pc[h] = "idle"
    BY <1>0, <1>1, BeginFacts DEF landing
  <2>2. CommitCreate(h) => Creating(h)
    BY DEF CommitCreate, Creating
  <2>3. CommitLoad(h) => pc[h] = "fill"
    BY DEF CommitLoad
  <2>4. \/ \E s \in Slots : BeginCreate(h, s)
        \/ pc'[h] \in {"move", "delete", "reorder", "update", "snapshot"}
    BY <1>0, <1>1, MoveFacts, DeleteFacts, ReorderFacts, LoadFacts, SaveFacts DEF Begins
  <2>5. (\E s \in Slots : BeginCreate(h, s)) => pc'[h] = "insert"
    BY <1>0, CreateFacts
  <2> QED
    BY <1>1, <2>1, <2>2, <2>3, <2>4, <2>5 DEF Creating
<1>2. CASE Works(h)
  <2>1. banners' = banners /\ overlapping' = overlapping /\ joined' = joined
    BY <1>2, WorkFacts DEF landing
  <2>2. pc[h] # "idle" /\ pc[h] # "created"
    BY <1>2, WorkMoves DEF Works
  <2>3. Creating(h)' => Creating(h)
    BY <1>2, WorkMoves DEF Works, Creating
  <2>4. pc'[h] \in {"clear", "fill"} => UpdateLanding(h) \/ pc[h] \in {"clear", "fill"}
    BY <1>2, WorkMoves DEF Works
  <2> QED
    BY <2>1, <2>2, <2>3, <2>4 DEF CommitCreate, CommitLoad, Creating
<1>3. CASE Commits(h) \/ Ends(h)
  <2>1. /\ banners' = banners /\ overlapping' = overlapping /\ joined' = joined
        /\ pc'[h] = "idle"
    BY <1>0, <1>3, EndFacts, ForgetEffect
  <2>2. pc[h] # "idle"
    BY <1>3 DEF Commits, CommitCreate, CommitChange, CommitReorder, CommitLoad, Ends,
       RewriteCollides, Abort, CommitSave
  <2> QED
    BY <2>1, <2>2 DEF CommitCreate, CommitLoad, Creating
<1> QED
  BY <1>1, <1>2, <1>3 DEF Steps

LoadSound(h) ==
  Loading(h) =>
    /\ \A t \in draft[h] : /\ Cardinality(t.places) <= MaxBlocks
                           /\ h \notin overlapping => t.banners = banners
    /\ h \notin overlapping => h \notin joined
    /\ h \notin joined => \A g \in Handlers : ~Creating(g)
    /\ pc[h] = "fill" => /\ \A t \in draft[h] : PlacesOf(written[h]) \subseteq t.places
                         /\ h \notin joined => Stored \subseteq removed[h]

LEMMA LoadStep ==
  ASSUME IInv, NEW h \in Handlers, Steps(h)
  PROVE  LoadSound(h)'
<1>0. /\ TypeOK /\ Accountable(h) /\ LoadSound(h) /\ \A g \in Handlers \ {h} : Unmoved(g)
  BY Framed DEF IInv, Transactions, Loads, LoadSound
<1>1. CASE Begins(h) /\ Loading(h)'
  <2>1. PICK n \in DOMAIN templates : BeginLoad(h, n)
    <3>1. CASE \E n \in DOMAIN templates : BeginLoad(h, n)
      BY <3>1
    <3>2. CASE ~\E n \in DOMAIN templates : BeginLoad(h, n)
      <4>1. pc'[h] \in {"insert", "move", "delete", "reorder", "snapshot"}
        BY <1>0, <1>1, <3>2, CreateFacts, MoveFacts, DeleteFacts, ReorderFacts, SaveFacts
           DEF Begins
      <4> QED
        BY <1>1, <4>1 DEF Loading
    <3> QED
      BY <3>1, <3>2
  <2>2. /\ pc'[h] = "update" /\ draft'[h] = {templates[n]}
        /\ templates[n].banners = banners
        /\ Cardinality(templates[n].places) <= MaxBlocks
        /\ joined' = IF \E g \in Handlers : Creating(g) THEN joined \union {h}
                     ELSE joined \ {h}
    BY <1>0, <2>1, LoadFacts
  <2>3. /\ banners' = banners /\ pc[h] = "idle"
        /\ h \notin overlapping' => \A g \in Handlers \ {h} : pc[g] = "idle"
    BY <1>0, <1>1, BeginFacts DEF landing
  <2>4. h \notin overlapping' => h \notin joined'
    <3>1. h \notin overlapping' => \A g \in Handlers : ~Creating(g)
      BY <2>3 DEF Creating
    <3> QED
      BY <2>2, <3>1
  <2>5. h \notin joined' => \A g \in Handlers : ~Creating(g)'
    BY <1>0, <2>2 DEF Creating, Unmoved
  <2> QED
    BY <2>2, <2>3, <2>4, <2>5 DEF LoadSound
<1>2. CASE Works(h) /\ Loading(h)'
  <2>1. UpdateLanding(h) \/ Clear(h) \/ Fill(h)
    BY <1>2, WorkMoves DEF Works, Loading
  <2>2. /\ Loading(h) /\ draft' = draft /\ Stored' = Stored
        /\ banners' = banners /\ overlapping' = overlapping /\ joined' = joined
    BY <1>2, <2>1, WorkMoves, WorkFacts, WorkRows DEF Loading, landing
  <2>3. \A g \in Handlers : Creating(g)' => Creating(g)
    <3>1. ~Creating(h)'
      BY <2>1, WorkMoves DEF Creating
    <3> QED
      BY <1>0, <3>1 DEF Creating, Unmoved
  <2>4. pc'[h] = "fill" => /\ \A t \in draft[h] : PlacesOf(written'[h]) \subseteq t.places
                           /\ h \notin joined => Stored \subseteq removed'[h]
    <3>1. CASE UpdateLanding(h)
      BY <3>1, WorkMoves
    <3>2. CASE Clear(h)
      <4>1. DOMAIN written'[h] = {} /\ removed'[h] = Stored
        BY <1>0, <3>2, WorkMoves DEF Clear, Accountable, TypeOK
      <4> QED
        BY <4>1 DEF PlacesOf
    <3>3. CASE Fill(h)
      <4>1. PICK p \in Missing(h), b \in Blocks \ used :
              /\ p \in Places /\ Write(h, b, p) /\ pc[h] = "fill" /\ removed' = removed
        BY <3>3, FillFacts
      <4>2. /\ DOMAIN written'[h] = DOMAIN written[h] \union {b}
            /\ \A c \in DOMAIN written'[h] \ {b} : written'[h][c] = written[h][c]
            /\ written'[h][b] = p
        BY <1>0, <4>1 DEF Write, TypeOK
      <4>3. PlacesOf(written'[h]) \subseteq PlacesOf(written[h]) \union {p}
        BY <4>2 DEF PlacesOf
      <4>4. \A t \in draft[h] : p \in t.places
        <5>1. PICK u \in draft[h] : p \in u.places
          BY <4>1 DEF Missing
        <5> QED
          BY <1>0, <5>1 DEF Accountable
      <4> QED
        BY <1>0, <2>2, <4>1, <4>3, <4>4 DEF LoadSound
    <3> QED
      BY <2>1, <3>1, <3>2, <3>3
  <2> QED
    BY <1>0, <2>2, <2>3, <2>4 DEF LoadSound
<1>3. CASE Commits(h) \/ Ends(h)
  <2>1. pc'[h] = "idle"
    BY <1>0, <1>3, EndFacts, ForgetEffect
  <2> QED
    BY <2>1 DEF LoadSound, Loading
<1> QED
  BY <1>1, <1>2, <1>3 DEF Steps, LoadSound

LEMMA LoadsStep ==
  ASSUME IInv, NEW h \in Handlers, Steps(h)
  PROVE  Loads'
<1>0. /\ TypeOK /\ Loads /\ \A g \in Handlers \ {h} : Unmoved(g)
  BY Framed DEF IInv
<1>1. ASSUME NEW f \in Handlers, NEW g \in Handlers,
             pc'[f] \in {"clear", "fill"}, pc'[g] \in {"clear", "fill"}, f # g
      PROVE  FALSE
  <2>1. ASSUME NEW e \in Handlers \ {h}, pc'[h] \in {"clear", "fill"},
               pc'[e] \in {"clear", "fill"}
        PROVE  FALSE
    <3>1. pc[e] \in {"clear", "fill"}
      BY <1>0, <2>1 DEF Unmoved
    <3>2. UpdateLanding(h) => pc[e] \notin {"clear", "fill"}
      BY DEF UpdateLanding
    <3> QED
      BY <1>0, <2>1, <3>1, <3>2, Phases DEF Loads
  <2>2. CASE f = h \/ g = h
    BY <1>1, <2>1, <2>2
  <2>3. CASE f # h /\ g # h
    BY <1>0, <1>1, <2>3 DEF Loads, Unmoved
  <2> QED
    BY <2>2, <2>3
<1>2. ASSUME NEW g \in Handlers \ {h}, Loading(g)'
      PROVE  LoadSound(g)'
  <2>1. /\ Unmoved(g) /\ written'[g] = written[g] /\ removed'[g] = removed[g] /\ Loading(g)
        /\ LoadSound(g) /\ pc[g] # "idle"
    BY <1>0, <1>2, RowsFramed DEF Unmoved, Loading, Loads, LoadSound
  <2>2. banners' = banners
    BY Phases
  <2>3. Begins(h) => g \in overlapping'
    BY <1>0, <2>1, BeginFacts
  <2>4. g \notin overlapping' => g \notin overlapping /\ ~Begins(h)
    BY <1>0, <2>3, Phases
  <2>5. g \notin overlapping' => g \notin joined'
    BY <2>1, <2>4, Phases DEF LoadSound
  <2>6. /\ g \notin joined' => g \notin joined
        /\ g \notin joined' => ~\E s \in Slots : BeginCreate(h, s)
    <3>1. CASE Begins(h)
      <4>1. (\E s \in Slots : BeginCreate(h, s)) => g \in joined'
        BY <1>0, <2>1, CreateFacts
      <4>2. ~(\E s \in Slots : BeginCreate(h, s)) => (g \in joined' <=> g \in joined)
        BY ZenonT(60), <1>0, <3>1, MoveFacts, DeleteFacts, ReorderFacts, LoadFacts, SaveFacts DEF Begins
      <4> QED
        BY <4>1, <4>2
    <3>2. CASE ~Begins(h)
      BY <3>2, Phases DEF Begins
    <3> QED
      BY <3>1, <3>2
  <2>7. g \notin joined' => \A f \in Handlers : ~Creating(f)'
    <3>1. g \notin joined' => ~Creating(h)'
      BY <2>1, <2>6, Phases DEF LoadSound
    <3> QED
      BY <1>0, <2>1, <2>6, <3>1 DEF LoadSound, Creating, Unmoved
  <2>8. pc[g] = "fill" /\ g \notin joined' => Stored' \subseteq removed[g]
    <3> SUFFICES ASSUME pc[g] = "fill", g \notin joined' PROVE Stored' \subseteq removed[g]
      OBVIOUS
    <3>1. ~CommitCreate(h)
      BY <2>1, <2>6, Phases DEF LoadSound
    <3>2. ~CommitLoad(h)
      BY <1>0, Phases DEF Loads
    <3>3. Stored \subseteq removed[g]
      BY <2>1, <2>6 DEF LoadSound
    <3> QED
      BY <3>1, <3>2, <3>3, StoredMoves
  <2> QED
    BY <2>1, <2>2, <2>4, <2>5, <2>7, <2>8 DEF LoadSound, Unmoved
<1>3. \A g \in Handlers : LoadSound(g)'
  BY <1>2, LoadStep DEF LoadSound
<1> QED
  BY <1>1, <1>3 DEF Loads, LoadSound

Still(h) ==
  Alone(h) =>
    /\ \A g \in Handlers \ {h} : pc[g] = "idle"
    /\ Creating(h) => Cardinality(Stored) < MaxBlocks
    /\ Reordering(h) => place = seen[h]
    /\ Saving(h) => \A t \in draft[h] : /\ t.config = config
                                        /\ t.banners = banners
                                        /\ pc[h] = "save" => t.places = PlacesOf(place)

LEMMA StillStep ==
  ASSUME IInv, NEW h \in Handlers, Steps(h)
  PROVE  Still(h)'
<1>0. /\ TypeOK /\ Still(h) /\ \A g \in Handlers \ {h} : Unmoved(g)
  BY Framed DEF IInv, Undisturbed, Still
<1>1. CASE Begins(h)
  <2>1. /\ place' = place /\ Stored' = Stored /\ config' = config /\ banners' = banners
        /\ h \notin overlapping' => \A g \in Handlers \ {h} : pc[g] = "idle"
    BY <1>0, <1>1, BeginFacts DEF rows, Stored, landing
  <2>2. CASE \E s \in Slots : BeginCreate(h, s)
    <3>1. pc'[h] = "insert" /\ Cardinality(Stored) < MaxBlocks
      BY <1>0, <2>2, CreateFacts
    <3> QED
      BY <1>0, <2>1, <3>1 DEF Still, Alone, Creating, Reordering, Saving, Unmoved
  <2>3. CASE BeginReorder(h)
    <3>1. pc'[h] = "reorder" /\ seen'[h] = place
      BY <1>0, <2>3, ReorderFacts
    <3> QED
      BY <1>0, <2>1, <3>1 DEF Still, Alone, Creating, Reordering, Saving, Unmoved
  <2>4. CASE BeginSave(h)
    <3>1. /\ pc'[h] = "snapshot"
          /\ draft'[h] = {[config |-> config, banners |-> banners, places |-> {}]}
      BY <1>0, <2>4, SaveFacts
    <3> QED
      BY <1>0, <2>1, <3>1 DEF Still, Alone, Creating, Reordering, Saving, Unmoved
  <2>5. CASE pc'[h] \in {"move", "delete", "update"}
    BY <1>0, <2>1, <2>5 DEF Still, Alone, Creating, Reordering, Saving, Unmoved
  <2> QED
    BY <1>0, <1>1, <2>2, <2>3, <2>4, <2>5, MoveFacts, DeleteFacts, LoadFacts DEF Begins
<1>2. CASE Works(h)
  <2>1. /\ place' = place /\ Stored' = Stored /\ config' = config /\ banners' = banners
        /\ overlapping' = overlapping /\ seen' = seen
    BY <1>2, WorkFacts, WorkRows DEF landing
  <2>2. pc[h] # "idle"
    BY <1>2, WorkMoves DEF Works
  <2>3. \A g \in Handlers \ {h} : Alone(h)' => pc'[g] = "idle"
    BY <1>0, <2>1, <2>2 DEF Still, Alone, Unmoved
  <2>4. CASE ReadBlocks(h)
    <3>1. pc[h] = "snapshot" /\ pc'[h] = "save"
      BY <2>4, WorkMoves
    <3>2. draft'[h] = {[t EXCEPT !.places = PlacesOf(place)] : t \in draft[h]}
      BY <1>0, <2>4, ReadBlocksFacts
    <3>3. \A t \in draft[h] :
            /\ [t EXCEPT !.places = PlacesOf(place)].config = t.config
            /\ [t EXCEPT !.places = PlacesOf(place)].banners = t.banners
            /\ [t EXCEPT !.places = PlacesOf(place)].places = PlacesOf(place)
      BY <1>0 DEF TypeOK, Drafts
    <3>4. \A t \in draft'[h] : \E u \in draft[h] :
            t.config = u.config /\ t.banners = u.banners /\ t.places = PlacesOf(place)
      BY <3>2, <3>3
    <3>5. PlacesOf(place)' = PlacesOf(place)
      BY <2>1 DEF PlacesOf
    <3> QED
      BY <1>0, <2>1, <2>2, <2>3, <3>1, <3>4, <3>5
         DEF Still, Alone, Creating, Reordering, Saving
  <2>5. CASE ~ReadBlocks(h)
    <3>1. ~Saving(h)'
      BY <1>2, <2>5, WorkMoves DEF Works, Saving
    <3>2. (Creating(h)' => Creating(h)) /\ (Reordering(h)' => Reordering(h))
      BY <1>2, WorkMoves DEF Works, Creating, Reordering
    <3> QED
      BY <1>0, <2>1, <2>2, <2>3, <3>1, <3>2 DEF Still, Alone
  <2> QED
    BY <2>4, <2>5
<1>3. CASE Commits(h) \/ Ends(h)
  <2>1. pc'[h] = "idle"
    BY <1>0, <1>3, EndFacts, ForgetEffect
  <2> QED
    BY <2>1 DEF Still, Alone
<1> QED
  BY <1>1, <1>2, <1>3 DEF Steps

(* What runs alone is the only one to take a step, but for one that begins, *)
(* and then it does not run alone any more.                                 *)
LEMMA OnlyStep ==
  ASSUME IInv, NEW h \in Handlers, Steps(h), NEW g \in Handlers \ {h}
  PROVE  ~Alone(g)'
<1>1. Unmoved(g) /\ TypeOK /\ Undisturbed
  BY Framed DEF IInv
<1>2. CASE Begins(h)
  BY <1>1, <1>2, BeginFacts DEF Alone, Unmoved
<1>3. CASE ~Begins(h)
  BY <1>1, <1>3, Phases DEF Alone, Unmoved, Undisturbed
<1> QED
  BY <1>2, <1>3

LEMMA UndisturbedStep ==
  ASSUME IInv, NEW h \in Handlers, Steps(h)
  PROVE  Undisturbed'
BY StillStep, OnlyStep DEF Undisturbed, Still

----------------------------------------------------------------------------
(* A reordering that runs alone *)

LEMMA SeenFacts ==
  ASSUME IInv, NEW h \in Handlers, Alone(h), Reordering(h)
  PROVE  /\ place = seen[h] /\ Stored = DOMAIN seen[h] /\ seen[h] \in Rows
         /\ \A b, c \in DOMAIN seen[h] : seen[h][b] = seen[h][c] => b = c
         /\ goal[h] \in Orderings(seen[h]) /\ Free(seen[h]) # {}
         /\ removed[h] = {} /\ DOMAIN written[h] \subseteq Stored
         /\ Progress(h) /\ step[h] \in Nat /\ slot[h] \in Slots
         /\ todo[h] \subseteq Slots
<1>1. place = seen[h]
  BY DEF IInv, Undisturbed
<1>2. Stored = DOMAIN seen[h] /\ Distinct /\ TypeOK
  BY <1>1 DEF Stored, IInv
<1>3. \A b, c \in DOMAIN seen[h] : seen[h][b] = seen[h][c] => b = c
  BY <1>1, <1>2 DEF Distinct
<1>4. Planned(h) /\ Accountable(h) /\ Progress(h)
  BY DEF IInv, Placing, Transactions, Rewriting
<1> QED
  BY <1>1, <1>2, <1>3, <1>4 DEF Planned, Accountable, Reordering, TypeOK

(* The numbers of the slot being rewritten *)
LEMMA MembersFacts ==
  ASSUME IInv, NEW h \in Handlers, Alone(h), pc[h] = "rewrite"
  PROVE  LET n == Cardinality(Members(h)) IN
         /\ n \in Nat
         /\ \A b \in Members(h) :
              /\ b \in DOMAIN seen[h] /\ b \in Stored /\ SlotOf(seen[h][b]) = slot[h]
              /\ seen[h][b] \in Places
              /\ goal[h][b] \in 0 .. n - 1 /\ Rank(seen[h], b) \in 0 .. n - 1
         /\ \A b, c \in Members(h) : b # c =>
              goal[h][b] # goal[h][c] /\ Rank(seen[h], b) # Rank(seen[h], c)
<1> DEFINE n == Cardinality(Members(h))
<1>0. Reordering(h)
  BY DEF Reordering
<1>1. \A b \in Members(h) : b \in DOMAIN seen[h] /\ SlotOf(seen[h][b]) = slot[h]
  BY DEF Members, In
<1>2. n \in Nat
  BY <1>0, SeenFacts, RankFacts DEF Members
<1>3. \A b \in Members(h) : seen[h][b] \in Places /\ b \in Stored
  BY <1>0, <1>1, SeenFacts, RowsType
<1>4. \A b \in Members(h) : goal[h][b] \in 0 .. n - 1 /\ Rank(seen[h], b) \in 0 .. n - 1
  BY <1>0, SeenFacts, RankFacts, OrderingFacts DEF Members
<1>5. \A b, c \in Members(h) : goal[h][b] = goal[h][c] => b = c
  BY <1>0, SeenFacts, OrderingFacts DEF Members
<1>6. \A b, c \in Members(h) : Rank(seen[h], b) = Rank(seen[h], c) => b = c
  BY <1>0, SeenFacts, RankOrders DEF Members
<1> QED
  BY <1>1, <1>2, <1>3, <1>4, <1>5, <1>6

(* Whose turn it is, and where to *)
LEMMA DueFacts ==
  ASSUME IInv, NEW h \in Handlers, Alone(h), pc[h] = "rewrite",
         NEW b \in Members(h), Due(h, b)
  PROVE  LET n == Cardinality(Members(h)) IN
         \/ /\ step[h] < n /\ step[h] = Rank(seen[h], b)
            /\ DuePlace(h, b) = Parked(h, b)
         \/ /\ n <= step[h] /\ step[h] = n + goal[h][b]
            /\ DuePlace(h, b) = Asked(h, b)
<1> DEFINE n == Cardinality(Members(h))
<1>0. Reordering(h)
  BY DEF Reordering
<1>1. /\ n \in Nat /\ b \in Stored
      /\ b \in DOMAIN seen[h] /\ SlotOf(seen[h][b]) = slot[h]
      /\ goal[h][b] \in 0 .. n - 1 /\ Rank(seen[h], b) \in 0 .. n - 1
  BY MembersFacts
<1>2. step[h] \in Nat /\ place = seen[h] /\ removed[h] = {} /\ Progress(h)
  BY <1>0, SeenFacts
<1>3. step[h] \in {Rank(seen[h], b), n + goal[h][b]}
  BY DEF Due
<1> HIDE DEF n
<1>4. CASE step[h] < n
  <2>1. step[h] = Rank(seen[h], b)
    BY <1>1, <1>2, <1>3, <1>4
  <2>2. b \notin DOMAIN written[h]
    BY <1>1, <1>2, <2>1 DEF Progress, InTurn
  <2>3. View(h)[b] = seen[h][b]
    BY <1>1, <1>2, <2>2, ViewFacts
  <2> QED
    BY <1>4, <2>1, <2>3 DEF DuePlace, Parking, Parked, n
<1>5. CASE ~(step[h] < n)
  <2>1. step[h] = n + goal[h][b] /\ n <= step[h]
    BY <1>1, <1>2, <1>3, <1>5
  <2> QED
    BY <1>1, <1>5, <2>1 DEF DuePlace, Parking, Asked, n
<1> QED
  BY <1>4, <1>5 DEF n

LEMMA RewriteProgress ==
  ASSUME IInv, NEW h \in Handlers, Alone(h), Rewrite(h)
  PROVE  Progress(h)'
<1> DEFINE n == Cardinality(Members(h))
<1>0. pc[h] = "rewrite" /\ Reordering(h) /\ TypeOK
  BY DEF Rewrite, Reordering, IInv
<1>1. /\ n \in Nat
      /\ \A b \in Members(h) :
           /\ b \in DOMAIN seen[h] /\ b \in Stored /\ SlotOf(seen[h][b]) = slot[h]
           /\ goal[h][b] \in 0 .. n - 1 /\ Rank(seen[h], b) \in 0 .. n - 1
      /\ \A b, c \in Members(h) : b # c =>
           goal[h][b] # goal[h][c] /\ Rank(seen[h], b) # Rank(seen[h], c)
  BY <1>0, MembersFacts
<1>2. step[h] \in Nat /\ Progress(h) /\ slot[h] \in todo[h] /\ InTurn(h)
  BY <1>0, SeenFacts DEF Progress
<1>3. PICK b \in Members(h) : Due(h, b) /\ Write(h, b, DuePlace(h, b))
  BY <1>1 DEF Rewrite
<1>4. /\ DOMAIN written'[h] = DOMAIN written[h] \union {b}
      /\ \A c \in DOMAIN written[h] \ {b} : written'[h][c] = written[h][c]
      /\ written'[h][b] = DuePlace(h, b)
  BY <1>0, <1>3 DEF Write, TypeOK
<1>5. /\ pc' = pc /\ seen' = seen /\ goal' = goal /\ slot' = slot /\ todo' = todo
      /\ step'[h] = step[h] + 1
      /\ Members(h)' = Members(h)
  BY <1>0 DEF Rewrite, Members, TypeOK
<1>6. /\ \A c : Parked(h, c)' = Parked(h, c)
      /\ \A c : Asked(h, c)' = Asked(h, c)
  BY <1>5 DEF Parked, Asked
<1>7. \/ /\ step[h] < n /\ step[h] = Rank(seen[h], b)
         /\ DuePlace(h, b) = Parked(h, b)
      \/ /\ n <= step[h] /\ step[h] = n + goal[h][b]
         /\ DuePlace(h, b) = Asked(h, b)
  BY <1>0, <1>3, DueFacts
<1>8. ASSUME NEW c \in Members(h)
      PROVE  /\ step[h] + 1 <= Rank(seen[h], c) => c \notin DOMAIN written'[h]
             /\ Rank(seen[h], c) < step[h] + 1 => c \in DOMAIN written'[h]
             /\ Rank(seen[h], c) < step[h] + 1 /\ step[h] + 1 <= n + goal[h][c] =>
                  written'[h][c] = Parked(h, c)
             /\ n + goal[h][c] < step[h] + 1 => written'[h][c] = Asked(h, c)
  <2>0. /\ step[h] <= Rank(seen[h], c) => c \notin DOMAIN written[h]
        /\ Rank(seen[h], c) < step[h] => c \in DOMAIN written[h]
        /\ Rank(seen[h], c) < step[h] /\ step[h] <= n + goal[h][c] =>
             written[h][c] = Parked(h, c)
        /\ n + goal[h][c] < step[h] => written[h][c] = Asked(h, c)
    BY <1>2 DEF InTurn
  <2> HIDE DEF n
  <2>1. CASE c = b
    BY <1>1, <1>2, <1>4, <1>7, <2>1
  <2>2. CASE c # b /\ step[h] < n
    <3>1. step[h] # Rank(seen[h], c) /\ ~(n + goal[h][c] < step[h] + 1)
      BY <1>1, <1>2, <1>7, <2>2
    <3> QED
      BY <1>1, <1>2, <1>4, <2>0, <2>2, <3>1
  <2>3. CASE c # b /\ ~(step[h] < n)
    <3>1. step[h] # n + goal[h][c] /\ Rank(seen[h], c) < step[h]
      BY <1>1, <1>2, <1>7, <2>3
    <3> QED
      BY <1>1, <1>2, <1>4, <2>0, <2>3, <3>1
  <2> QED
    BY <2>1, <2>2, <2>3
<1>9. InTurn(h)'
  <2>1. step'[h] = step[h] + 1 /\ Cardinality(Members(h)') = n
    BY <1>5
  <2> HIDE DEF n
  <2> QED
    BY <1>5, <1>6, <1>8, <2>1 DEF InTurn
<1>10. ASSUME NEW s \in Slots, s # slot[h]
       PROVE  /\ AsRead(h, s) => AsRead(h, s)'
              /\ AsAsked(h, s) => AsAsked(h, s)'
  <2>1. b \notin In(seen[h], s)
    BY <1>1, <1>10 DEF In
  <2>2. In(seen[h], s)' = In(seen[h], s)
    BY <1>5 DEF In
  <2> QED
    BY <1>4, <1>6, <2>1, <2>2 DEF AsRead, AsAsked
<1>11. todo[h] \subseteq Slots
  BY <1>0, SeenFacts
<1>12. \A s : In(seen[h], s)' = In(seen[h], s)
  BY <1>5 DEF In
<1>13. \A s \in todo'[h] : (pc'[h] = "rewrite" /\ s = slot'[h]) \/ AsRead(h, s)'
  BY <1>0, <1>2, <1>5, <1>10, <1>11 DEF Progress
<1>14. \A s \in Slots \ todo'[h] :
         \/ AsAsked(h, s)'
         \/ AsRead(h, s)' /\ \A c \in In(seen[h], s)' : goal'[h][c] = Rank(seen'[h], c)
  <2> SUFFICES ASSUME NEW s \in Slots \ todo[h]
               PROVE  \/ AsAsked(h, s)'
                      \/ AsRead(h, s)' /\ \A c \in In(seen[h], s) : goal[h][c] = Rank(seen[h], c)
    BY <1>5, <1>12
  <2>1. s # slot[h]
    BY <1>2
  <2> QED
    BY <1>2, <1>10, <2>1 DEF Progress
<1> QED
  BY <1>0, <1>2, <1>5, <1>9, <1>13, <1>14 DEF Progress

LEMMA RewritingStep ==
  ASSUME IInv, NEW h \in Handlers, Steps(h)
  PROVE  Rewriting'
<1> SUFFICES ASSUME Alone(h)', Reordering(h)' PROVE Progress(h)'
  BY OnlyStep DEF Rewriting
<1>0. TypeOK /\ Accountable(h)
  BY DEF IInv, Transactions
<1>1. CASE BeginReorder(h)
  <2>1. /\ pc'[h] = "reorder" /\ seen'[h] = place
        /\ todo'[h] = {SlotOf(place[b]) : b \in {c \in Stored : goal'[h][c] # Rank(place, c)}}
    BY <1>0, <1>1, ReorderFacts
  <2>2. written' = written /\ pc[h] = "idle"
    BY <1>0, <1>1, BeginFacts DEF Begins, rows
  <2>3. DOMAIN written'[h] = {}
    BY <1>0, <2>2 DEF Accountable
  <2>4. \A s : AsRead(h, s)'
    BY <2>3 DEF AsRead
  <2>5. ASSUME NEW s \in Slots \ todo'[h], NEW b \in In(place, s)
        PROVE  goal'[h][b] = Rank(place, b)
    <3>1. b \in Stored /\ SlotOf(place[b]) = s
      BY DEF In, Stored
    <3> QED
      BY <2>1, <3>1
  <2>6. \A s \in Slots \ todo'[h] : \A b \in In(seen[h], s)' : goal'[h][b] = Rank(seen'[h], b)
    BY <2>1, <2>5 DEF In
  <2> QED
    BY <2>1, <2>4, <2>6 DEF Progress
<1>2. CASE BeginSlot(h)
  <2>1. /\ Alone(h) /\ Reordering(h) /\ pc[h] = "reorder" /\ pc'[h] = "rewrite"
        /\ written' = written /\ seen' = seen /\ goal' = goal /\ todo' = todo
        /\ step' = step /\ step[h] = 0
    BY <1>0, <1>2, WorkMoves DEF BeginSlot, Alone, Reordering, rows, started, Accountable
  <2>2. Progress(h) /\ todo[h] \subseteq Slots
    BY <2>1, SeenFacts
  <2>3. PICK s \in todo[h] : slot'[h] = s
    BY <1>0, <1>2 DEF BeginSlot, TypeOK
  <2>4. AsRead(h, s)
    BY <2>1, <2>2 DEF Progress
  <2>5. /\ \A t : AsRead(h, t) => AsRead(h, t)'
        /\ \A t : AsAsked(h, t) => AsAsked(h, t)'
    BY <2>1 DEF AsRead, AsAsked, Asked
  <2>6. InTurn(h)'
    <3>1. Members(h)' = In(seen[h], s)
      BY <2>1, <2>3 DEF Members
    <3>2. /\ seen[h] \in Rows /\ goal[h] \in Orderings(seen[h]) /\ s \in Slots
      BY <2>1, <2>2, SeenFacts
    <3>3. /\ Cardinality(In(seen[h], s)) \in Nat
          /\ \A b \in In(seen[h], s) :
               /\ Rank(seen[h], b) \in 0 .. Cardinality(In(seen[h], s)) - 1
               /\ goal[h][b] \in 0 .. Cardinality(In(seen[h], s)) - 1
      BY <3>2, RankFacts, OrderingFacts
    <3>4. \A b \in In(seen[h], s) :
            /\ b \notin DOMAIN written[h]
            /\ ~(Rank(seen[h], b) < 0)
            /\ ~(Cardinality(In(seen[h], s)) + goal[h][b] < 0)
      BY <2>4, <3>3 DEF AsRead
    <3> QED
      BY <2>1, <3>1, <3>4 DEF InTurn
  <2>7. \A t \in todo'[h] : (pc'[h] = "rewrite" /\ t = slot'[h]) \/ AsRead(h, t)'
    BY <2>1, <2>2, <2>5 DEF Progress
  <2>8. \A t \in Slots \ todo'[h] :
          \/ AsAsked(h, t)'
          \/ AsRead(h, t)' /\ \A b \in In(seen[h], t)' : goal'[h][b] = Rank(seen'[h], b)
    BY <2>1, <2>2, <2>5 DEF Progress
  <2> QED
    BY <2>1, <2>3, <2>6, <2>7, <2>8 DEF Progress
<1>3. CASE Rewrite(h)
  <2>1. Alone(h)
    BY <1>3 DEF Rewrite, Alone, started
  <2> QED
    BY <1>3, <2>1, RewriteProgress
<1>4. CASE EndSlot(h)
  <2> DEFINE n == Cardinality(Members(h))
  <2>1. /\ Alone(h) /\ Reordering(h) /\ pc[h] = "rewrite" /\ pc'[h] = "reorder"
        /\ written' = written /\ seen' = seen /\ goal' = goal /\ slot' = slot
        /\ step[h] = 2 * n /\ todo'[h] = todo[h] \ {slot[h]}
    BY <1>0, <1>4, WorkMoves DEF EndSlot, Alone, Reordering, rows, started, TypeOK
  <2>2. Progress(h) /\ InTurn(h)
    BY <2>1, SeenFacts DEF Progress
  <2>3. /\ n \in Nat
        /\ \A b \in Members(h) :
             /\ SlotOf(seen[h][b]) = slot[h]
             /\ goal[h][b] \in 0 .. n - 1 /\ Rank(seen[h], b) \in 0 .. n - 1
    BY <2>1, MembersFacts
  <2>4. ASSUME NEW b \in Members(h)
        PROVE  b \in DOMAIN written[h] /\ written[h][b] = Asked(h, b)
    <3>1. /\ Rank(seen[h], b) < step[h] => b \in DOMAIN written[h]
          /\ n + goal[h][b] < step[h] => written[h][b] = Asked(h, b)
      BY <2>2 DEF InTurn
    <3> HIDE DEF n
    <3>2. Rank(seen[h], b) < step[h] /\ n + goal[h][b] < step[h]
      BY <2>1, <2>3
    <3> QED
      BY <3>1, <3>2
  <2>5. AsAsked(h, slot[h])
    BY <2>4 DEF AsAsked, Members
  <2>6. /\ \A t : AsRead(h, t) => AsRead(h, t)'
        /\ \A t : AsAsked(h, t) => AsAsked(h, t)'
    BY <2>1 DEF AsRead, AsAsked, Asked
  <2>7. \A t \in todo'[h] : AsRead(h, t)'
    BY <2>1, <2>2, <2>6 DEF Progress
  <2>8. \A t \in Slots \ todo'[h] :
          \/ AsAsked(h, t)'
          \/ AsRead(h, t)' /\ \A b \in In(seen[h], t)' : goal'[h][b] = Rank(seen'[h], b)
    BY <2>1, <2>2, <2>5, <2>6 DEF Progress
  <2> QED
    BY <2>1, <2>7, <2>8 DEF Progress
<1>5. CASE ~(BeginReorder(h) \/ BeginSlot(h) \/ Rewrite(h) \/ EndSlot(h))
  <2>1. CASE Begins(h)
    <3>1. pc'[h] \in {"insert", "move", "delete", "update", "snapshot"}
      BY <1>0, <1>5, <2>1, CreateFacts, MoveFacts, DeleteFacts, LoadFacts, SaveFacts
         DEF Begins
    <3> QED
      BY <3>1 DEF Reordering
  <2>2. CASE Works(h)
    BY <1>5, <2>2, WorkMoves DEF Works, Reordering
  <2>3. CASE Commits(h) \/ Ends(h)
    BY <1>0, <2>3, EndFacts, ForgetEffect DEF Reordering
  <2> QED
    BY <2>1, <2>2, <2>3 DEF Steps
<1> QED
  BY <1>1, <1>2, <1>3, <1>4, <1>5

(* What a reordering that runs alone sees of a row outside its slot         *)
LEMMA OtherSlots ==
  ASSUME IInv, NEW h \in Handlers, Alone(h), Reordering(h), NEW c \in Stored,
         pc[h] = "rewrite" => c \notin Members(h)
  PROVE  SlotOf(View(h)[c]) = SlotOf(seen[h][c])
<1> DEFINE s == SlotOf(seen[h][c])
<1>1. /\ c \in DOMAIN seen[h] /\ place = seen[h] /\ seen[h] \in Rows
      /\ removed[h] = {} /\ Progress(h)
  BY SeenFacts
<1>2. s \in Slots /\ c \in In(seen[h], s)
  BY <1>1, RowsType, PlacesType DEF In
<1>3. pc[h] = "rewrite" => s # slot[h]
  BY <1>1 DEF Members, In
<1>4. View(h)[c] = IF c \in DOMAIN written[h] THEN written[h][c] ELSE seen[h][c]
  BY <1>1, ViewFacts
<1>5. \/ c \in DOMAIN written[h] /\ written[h][c] = Asked(h, c)
      \/ c \notin DOMAIN written[h]
  <2> HIDE DEF s
  <2> QED
    BY <1>1, <1>2, <1>3 DEF Progress, AsAsked, AsRead
<1> QED
  BY <1>4, <1>5 DEF Asked, SlotOf

LEMMA NoCollision ==
  ASSUME IInv, NEW h \in Handlers, Alone(h), pc[h] = "rewrite",
         NEW b \in Members(h), Due(h, b)
  PROVE  ~Taken(h, b, DuePlace(h, b))
<1> DEFINE n == Cardinality(Members(h))
<1>0. Reordering(h)
  BY DEF Reordering
<1>1. /\ place = seen[h] /\ Stored = DOMAIN seen[h] /\ seen[h] \in Rows
      /\ \A c, d \in DOMAIN seen[h] : seen[h][c] = seen[h][d] => c = d
      /\ removed[h] = {} /\ DOMAIN written[h] \subseteq Stored
      /\ InTurn(h) /\ step[h] \in Nat /\ slot[h] \in Slots
  BY <1>0, SeenFacts DEF Progress
<1>2. In(seen[h], Temporary(seen[h])) = {}
  BY <1>0, SeenFacts, TemporaryFacts
<1>3. /\ n \in Nat
      /\ \A c \in Members(h) :
           /\ c \in DOMAIN seen[h] /\ SlotOf(seen[h][c]) = slot[h]
           /\ seen[h][c] \in Places
           /\ goal[h][c] \in 0 .. n - 1 /\ Rank(seen[h], c) \in 0 .. n - 1
      /\ \A c, d \in Members(h) : c # d =>
           goal[h][c] # goal[h][d] /\ Rank(seen[h], c) # Rank(seen[h], d)
  BY MembersFacts
<1>4. Temporary(seen[h]) # slot[h]
  BY <1>2 DEF Members
<1>5. DOMAIN View(h) = Stored
  BY <1>1, ViewFacts
<1> SUFFICES ASSUME NEW c \in Stored, c # b, View(h)[c] = DuePlace(h, b) PROVE FALSE
  BY <1>5 DEF Taken
<1>6. View(h)[c] = IF c \in DOMAIN written[h] THEN written[h][c] ELSE seen[h][c]
  BY <1>1, <1>5, ViewFacts
<1>7. c \notin Members(h) =>
        /\ SlotOf(View(h)[c]) = SlotOf(seen[h][c])
        /\ SlotOf(seen[h][c]) # slot[h]
        /\ SlotOf(seen[h][c]) # Temporary(seen[h])
  <2>1. c \notin Members(h) => SlotOf(View(h)[c]) = SlotOf(seen[h][c])
    BY <1>0, OtherSlots
  <2>2. c \notin Members(h) => SlotOf(seen[h][c]) # slot[h]
    BY <1>1 DEF Members, In
  <2>3. SlotOf(seen[h][c]) # Temporary(seen[h])
    BY <1>1, <1>2 DEF In
  <2> QED
    BY <2>1, <2>2, <2>3
<1>8. c \in Members(h) =>
        /\ step[h] <= Rank(seen[h], c) => c \notin DOMAIN written[h]
        /\ Rank(seen[h], c) < step[h] => c \in DOMAIN written[h]
        /\ Rank(seen[h], c) < step[h] /\ step[h] <= n + goal[h][c] =>
             written[h][c] = Parked(h, c)
        /\ n + goal[h][c] < step[h] => written[h][c] = Asked(h, c)
  BY <1>1 DEF InTurn
<1>9. /\ SlotOf(Parked(h, b)) = Temporary(seen[h])
      /\ OrderOf(Parked(h, b)) = OrderOf(seen[h][b])
      /\ SlotOf(Parked(h, c)) = Temporary(seen[h])
      /\ OrderOf(Parked(h, c)) = OrderOf(seen[h][c])
  BY DEF Parked, SlotOf, OrderOf
<1>10. /\ SlotOf(Asked(h, b)) = slot[h] /\ OrderOf(Asked(h, b)) = goal[h][b]
       /\ c \in Members(h) => SlotOf(Asked(h, c)) = slot[h] /\ OrderOf(Asked(h, c)) = goal[h][c]
  BY <1>3 DEF Asked, SlotOf, OrderOf
<1>11. CASE step[h] < n /\ DuePlace(h, b) = Parked(h, b)
  <2>1. c \in Members(h)
    BY <1>7, <1>9, <1>11
  <2>2. CASE step[h] <= Rank(seen[h], c)
    BY <1>3, <1>4, <1>6, <1>8, <1>9, <1>11, <2>1, <2>2
  <2>3. CASE ~(step[h] <= Rank(seen[h], c))
    <3>1. Rank(seen[h], c) < step[h] /\ step[h] <= n + goal[h][c]
      <4> HIDE DEF n
      <4> QED
        BY <1>1, <1>3, <1>11, <2>1, <2>3
    <3>2. Parked(h, c) = Parked(h, b)
      BY <1>6, <1>8, <1>11, <2>1, <3>1
    <3>3. OrderOf(seen[h][c]) = OrderOf(seen[h][b]) /\ SlotOf(seen[h][c]) = SlotOf(seen[h][b])
      BY <1>3, <1>9, <2>1, <3>2
    <3>4. seen[h][c] = seen[h][b]
      BY <1>3, <2>1, <3>3, PlacesType
    <3> QED
      BY <1>1, <1>3, <2>1, <3>4
  <2> QED
    BY <2>2, <2>3
<1>12. CASE n <= step[h] /\ step[h] = n + goal[h][b] /\ DuePlace(h, b) = Asked(h, b)
  <2>1. c \in Members(h)
    BY <1>7, <1>10, <1>12
  <2>2. Rank(seen[h], c) < step[h]
    <3> HIDE DEF n
    <3> QED
      BY <1>1, <1>3, <1>12, <2>1
  <2>3. CASE step[h] <= n + goal[h][c]
    BY <1>4, <1>6, <1>8, <1>9, <1>10, <1>12, <2>1, <2>2, <2>3
  <2>4. CASE ~(step[h] <= n + goal[h][c])
    <3>1. n + goal[h][c] < step[h]
      <4> HIDE DEF n
      <4> QED
        BY <1>1, <1>3, <2>1, <2>4
    <3>2. Asked(h, c) = Asked(h, b)
      BY <1>6, <1>8, <1>12, <2>1, <2>2, <3>1
    <3>3. goal[h][c] = goal[h][b]
      BY <1>10, <2>1, <3>2
    <3> QED
      BY <1>3, <2>1, <3>3
  <2> QED
    BY <2>3, <2>4
<1> QED
  BY <1>11, <1>12, DueFacts

(* The end of a reordering that ran alone                                   *)
LEMMA Reordered ==
  ASSUME IInv, NEW h \in Handlers, Alone(h), CommitReorder(h)
  PROVE  /\ Stored' = Stored
         /\ \A b, c \in Stored :
              /\ SlotOf(place'[b]) = SlotOf(place[b])
              /\ SlotOf(place[b]) = SlotOf(place[c]) =>
                   (OrderOf(place'[b]) < OrderOf(place'[c]) <=> goal[h][b] < goal[h][c])
<1>0. pc[h] = "reorder" /\ Reordering(h) /\ todo[h] = {} /\ place' = View(h)
  BY DEF CommitReorder, Reordering
<1>1. /\ place = seen[h] /\ Stored = DOMAIN seen[h] /\ seen[h] \in Rows
      /\ \A b, c \in DOMAIN seen[h] : seen[h][b] = seen[h][c] => b = c
      /\ removed[h] = {} /\ DOMAIN written[h] \subseteq Stored
      /\ goal[h] \in Orderings(seen[h]) /\ Progress(h)
  BY <1>0, SeenFacts
<1>2. /\ Stored' = Stored
      /\ \A b \in Stored : place'[b] = IF b \in DOMAIN written[h] THEN written[h][b]
                                       ELSE seen[h][b]
  BY <1>0, <1>1, ViewFacts DEF Stored
<1>3. \A b \in Stored : SlotOf(place'[b]) = SlotOf(place[b])
  BY <1>0, <1>1, OtherSlots
<1>4. ASSUME NEW b \in Stored, NEW c \in Stored, SlotOf(place[b]) = SlotOf(place[c])
      PROVE  OrderOf(place'[b]) < OrderOf(place'[c]) <=> goal[h][b] < goal[h][c]
  <2>1. PICK s \in Slots : b \in In(seen[h], s) /\ c \in In(seen[h], s)
    BY <1>1, <1>4, RowsType, PlacesType DEF In
  <2>2. CASE AsAsked(h, s)
    <3>1. place'[b] = Asked(h, b) /\ place'[c] = Asked(h, c)
      BY <1>2, <2>1, <2>2 DEF AsAsked
    <3> QED
      BY <3>1 DEF Asked, OrderOf
  <2>3. CASE AsRead(h, s) /\ \A d \in In(seen[h], s) : goal[h][d] = Rank(seen[h], d)
    <3>1. place'[b] = seen[h][b] /\ place'[c] = seen[h][c]
      BY <1>2, <2>1, <2>3 DEF AsRead
    <3>2. OrderOf(seen[h][b]) < OrderOf(seen[h][c]) <=> Rank(seen[h], b) < Rank(seen[h], c)
      BY <1>1, <2>1, RankOrders
    <3> QED
      BY <2>1, <2>3, <3>1, <3>2
  <2> QED
    BY <1>0, <1>1, <2>2, <2>3 DEF Progress
<1> QED
  BY <1>2, <1>3, <1>4

----------------------------------------------------------------------------
(* The end of a load, a creation and a save *)

LEMMA Loaded ==
  ASSUME IInv, NEW h \in Handlers, CommitLoad(h)
  PROVE  \E t \in draft[h] :
           /\ h \notin joined => PlacesOf(place') = t.places
           /\ h \notin overlapping => banners = t.banners
           /\ Cardinality(t.places) <= MaxBlocks /\ t.places \subseteq Places
           /\ h \notin overlapping => h \notin joined
<1>0. /\ pc[h] = "fill" /\ Missing(h) = {} /\ place' = View(h) /\ Loading(h)
      /\ TypeOK /\ Accountable(h) /\ LoadSound(h) /\ DOMAIN written[h] \intersect removed[h] = {}
  BY DEF CommitLoad, Loading, IInv, Transactions, Loads, LoadSound, Locking
<1>1. PICK t \in draft[h] : config' = t.config
  BY DEF CommitLoad
<1>2. t.places \subseteq PlacesOf(written[h])
  BY <1>0, <1>1 DEF Missing
<1>3. PlacesOf(written[h]) \subseteq t.places
  BY <1>0, <1>1 DEF LoadSound
<1>4. ASSUME h \notin joined PROVE PlacesOf(place') = t.places
  <2>1. DOMAIN View(h) = DOMAIN written[h]
    BY <1>0, <1>4, ViewFacts DEF LoadSound
  <2>2. \A b \in DOMAIN written[h] : View(h)[b] = written[h][b]
    BY <2>1, ViewFacts
  <2>3. PlacesOf(View(h)) = PlacesOf(written[h])
    BY <2>1, <2>2 DEF PlacesOf
  <2> QED
    BY <1>0, <1>2, <1>3, <2>3
<1>5. t.places \subseteq Places
  BY <1>0, <1>1, DraftFacts DEF TypeOK
<1> QED
  BY <1>0, <1>1, <1>4, <1>5 DEF LoadSound

LEMMA CapKept ==
  ASSUME IInv, NEW h \in Handlers, h \notin overlapping, CommitCreate(h) \/ CommitLoad(h)
  PROVE  Cardinality(Stored') <= MaxBlocks
<1> USE BlockAssumption DEF BlockAssumption
<1>0. /\ Steps(h) /\ TypeOK /\ Accountable(h)
  BY DEF Steps, Commits, IInv, Transactions
<1>1. Stored \subseteq Blocks /\ IsFiniteSet(Stored) /\ Cardinality(Stored) \in Nat
  BY <1>0, RowsType, FS_Subset, FS_CardinalityType DEF TypeOK, Stored
<1>2. CASE CommitCreate(h)
  <2>1. Cardinality(Stored) < MaxBlocks
    BY <1>2 DEF CommitCreate, IInv, Undisturbed, Alone, Creating
  <2>2. Stored' = Stored \union target[h]
    BY <1>0, <1>2, ViewFacts DEF CommitCreate, Accountable, Stored
  <2>3. CASE target[h] = {}
    <3>1. Stored' = Stored
      BY <2>2, <2>3
    <3> QED
      BY <1>1, <2>1, <3>1
  <2>4. CASE target[h] # {}
    <3>1. PICK b : b \in target[h]
      BY <2>4
    <3>2. Stored' = Stored \union {b}
      BY <1>0, <2>2, <3>1 DEF Accountable
    <3>3. Cardinality(Stored \cup {b}) = IF b \in Stored THEN Cardinality(Stored)
                                       ELSE Cardinality(Stored) + 1
      BY <1>1, FS_AddElement, Zenon
    <3> HIDE DEF Stored
    <3> DEFINE c == Cardinality(Stored)
    <3>4. c \in Nat /\ c < MaxBlocks /\ Cardinality(Stored') \in {c, c + 1}
      BY <1>1, <2>1, <3>2, <3>3
    <3> HIDE DEF c
    <3> QED
      BY <3>4
  <2> QED
    BY <2>3, <2>4
<1>3. CASE CommitLoad(h)
  <2>1. PICK t \in draft[h] : /\ PlacesOf(place') = t.places
                              /\ Cardinality(t.places) <= MaxBlocks
                              /\ t.places \subseteq Places
    BY <1>3, Loaded
  <2>2. IsFiniteSet(Places)
    <3>1. IsFiniteSet(0 .. MaxOrder)
      BY FS_Interval
    <3>2. IsFiniteSet(Slots \X (0 .. MaxOrder))
      BY <3>1, SlotFacts, FS_Product
    <3> QED
      BY <3>2 DEF Places
  <2>3. IsFiniteSet(t.places) /\ Cardinality(t.places) \in Nat
    BY <2>1, <2>2, FS_Subset, FS_CardinalityType
  <2>4. /\ place' \in Rows
        /\ \A b, c \in Stored' : place'[b] = place'[c] => b = c
    BY <1>0, StepTypes DEF RowInv, Distinct
  <2>5. place' \in [Stored' -> t.places]
    BY <2>1, <2>4, RowsType DEF Stored, PlacesOf
  <2>6. place' \in Injection(Stored', t.places)
    BY <2>4, <2>5 DEF Injection, IsInjective
  <2>7. IsFiniteSet(Stored') /\ Cardinality(Stored') <= Cardinality(t.places)
    BY <2>3, <2>6, FS_Injection
  <2>8. Cardinality(Stored') \in Nat
    BY <2>7, FS_CardinalityType
  <2> QED
    BY <2>1, <2>3, <2>7, <2>8
<1> QED
  BY <1>2, <1>3

LEMMA Faithful ==
  ASSUME IInv, NEW h \in Handlers, h \notin overlapping, NEW n \in Names, CommitSave(h, n)
  PROVE  templates'[n] = [config |-> config, banners |-> banners, places |-> PlacesOf(place)]
<1>0. Alone(h) /\ Saving(h) /\ pc[h] = "save" /\ TypeOK
  BY DEF CommitSave, Alone, Saving, IInv
<1>1. PICK t \in draft[h] : templates' = [m \in DOMAIN templates \union {n} |->
                                            IF m = n THEN t ELSE templates[m]]
  BY DEF CommitSave, Saved
<1>2. t.config = config /\ t.banners = banners /\ t.places = PlacesOf(place)
  BY <1>0, <1>1 DEF IInv, Undisturbed
<1>3. t \in Drafts
  BY <1>0, <1>1 DEF TypeOK
<1>4. t = [config |-> t.config, banners |-> t.banners, places |-> t.places]
  BY <1>3, DraftFacts
<1> QED
  BY <1>1, <1>2, <1>4

----------------------------------------------------------------------------
(* The invariant *)

LEMMA InitInv == Init => IInv
<1> SUFFICES ASSUME Init PROVE IInv
  OBVIOUS
<1> USE BlockAssumption DEF BlockAssumption
<1>1. PICK S \in SUBSET Blocks :
        /\ place \in {R \in [S -> Places] : \A b, c \in S : R[b] = R[c] => b = c}
        /\ used = S
  BY DEF Init
<1>2. /\ Stored = S /\ place \in Rows
      /\ \A b, c \in S : place[b] = place[c] => b = c
  BY <1>1, RowsIntro DEF Stored
<1>3. \A h \in Handlers : /\ written[h] = NoRows /\ removed[h] = {} /\ pc[h] = "idle"
                          /\ target[h] = {} /\ draft[h] = {} /\ step[h] = 0
  BY DEF Init
<1>4. chosen \in [Blocks -> SUBSET Slots] /\ SlotsWereChosen
  <2>1. \A b \in Stored : SlotOf(place[b]) \in Slots
    BY <1>2, RowsType, PlacesType DEF Stored
  <2> QED
    BY <1>1, <1>2, <2>1 DEF Init, SlotsWereChosen
<1>5. templates \in Templates
  <2>1. [n \in {} |-> 0] \in [{} -> Drafts]
    OBVIOUS
  <2> QED
    BY <2>1, TemplatesIntro DEF Init
<1>6. goal \in [Handlers -> Goals]
  <2>1. NoRows \in [{} -> 0 .. MaxOrder]
    BY DEF NoRows
  <2>2. NoRows \in Goals
    BY <2>1 DEF Goals
  <2> QED
    BY <2>2 DEF Init
<1>7. TypeOK
  BY <1>1, <1>2, <1>4, <1>5, <1>6, NoRowsType, SlotFacts DEF Init, TypeOK, PCs, Goals
<1>8. Transactions /\ Locking /\ Distinct /\ Unique
  BY <1>2, <1>3, NoRowsType DEF Transactions, Accountable, Locking, Held, Distinct, Unique
<1>9. Freshness /\ Placing
  BY <1>1, <1>2, <1>3, NoRowsType
     DEF Freshness, New, Creating, Placing, Aimed, Planned, Settled, Reordering
<1>10. Loads /\ Undisturbed /\ Rewriting
  BY <1>3 DEF Loads, Loading, Undisturbed, Rewriting, Alone
<1> QED
  BY <1>4, <1>7, <1>8, <1>9, <1>10 DEF IInv

LEMMA NextInv == IInv /\ [Next]_vars => IInv'
<1> SUFFICES ASSUME IInv, [Next]_vars PROVE IInv'
  OBVIOUS
<1>1. ASSUME NEW h \in Handlers, Steps(h)
      PROVE  IInv'
  <2>1. TypeOK' /\ RowInv'
    BY <1>1, StepTypes
  <2>2. Transactions' /\ Freshness' /\ Placing' /\ SlotsWereChosen'
    BY <1>1, TransactionsStep, FreshnessStep, PlacingStep, SlotsWereChosenStep
  <2>3. Loads' /\ Undisturbed' /\ Rewriting'
    BY <1>1, LoadsStep, UndisturbedStep, RewritingStep
  <2> QED
    BY <2>1, <2>2, <2>3 DEF IInv, RowInv
<1>2. ASSUME UNCHANGED <<rows, pc, locals, used, chosen, joined>>,
             overlapping \subseteq overlapping', overlapping' \subseteq Handlers,
             \/ UNCHANGED <<landing, overlapping>>
             \/ {h \in Handlers : pc[h] # "idle"} \subseteq overlapping',
             templates' \in Templates, operations' \in Nat,
             config' \in Configs, banners' \in 0 .. MaxBanners
      PROVE  IInv'
  <2> USE <1>2 DEF rows, locals, landing
  <2>0. IInv
    OBVIOUS
  <2>1. TypeOK'
    BY <2>0 DEF IInv, TypeOK
  <2>2. Transactions' /\ Locking' /\ Distinct' /\ Unique'
    BY <2>0 DEF IInv, Transactions, Accountable, Locking, Held, Distinct, Unique, Stored
  <2>3. Freshness' /\ SlotsWereChosen'
    BY <2>0 DEF IInv, Freshness, New, Creating, SlotsWereChosen, Stored
  <2>4. Placing'
    BY <2>0 DEF IInv, Placing, Aimed, Planned, Settled, Reordering, Returning, Members
  <2>5. /\ \A h \in Handlers : Alone(h)' => Alone(h) /\ UNCHANGED landing
        /\ \A h \in Handlers : Loading(h) /\ h \notin overlapping' =>
             h \notin overlapping /\ UNCHANGED landing
    BY DEF Alone, Loading
  <2>6. Loads'
    BY <2>0, <2>5 DEF IInv, Loads, Loading, Creating, Stored, PlacesOf
  <2>7. Undisturbed'
    BY <2>0, <2>5 DEF IInv, Undisturbed, Alone, Creating, Reordering, Saving, Stored, PlacesOf
  <2>8. Rewriting'
    BY <2>0, <2>5 DEF IInv, Rewriting, Reordering, Progress, AsRead, AsAsked, InTurn, Asked,
       Parked, Members
  <2> QED
    BY <2>1, <2>2, <2>3, <2>4, <2>6, <2>7, <2>8 DEF IInv
<1>3. ASSUME NEW n \in Names, DeleteTemplate(n)
      PROVE  IInv'
  <2>1. /\ UNCHANGED <<rows, pc, locals, used, chosen, joined>>
        /\ UNCHANGED <<landing, overlapping>>
        /\ operations' \in Nat
    BY <1>3 DEF DeleteTemplate, IInv, TypeOK
  <2>2. templates' \in Templates
    <3>1. templates' = [m \in DOMAIN templates \ {n} |-> templates[m]]
      BY <1>3 DEF DeleteTemplate
    <3>2. /\ DOMAIN templates \ {n} \in SUBSET Names
          /\ [m \in DOMAIN templates \ {n} |-> templates[m]] \in [DOMAIN templates \ {n} -> Drafts]
      BY TemplatesType DEF IInv, TypeOK
    <3> QED
      BY <3>1, <3>2, TemplatesIntro
  <2>3. config' \in Configs /\ banners' \in 0 .. MaxBanners /\ overlapping' \subseteq Handlers
    BY <2>1 DEF IInv, TypeOK, landing
  <2> QED
    BY <1>2, <2>1, <2>2, <2>3
<1>4. CASE ChangeLanding
  <2>1. /\ UNCHANGED <<rows, pc, locals, used, chosen, joined>>
        /\ overlapping' = overlapping \union {h \in Handlers : pc[h] # "idle"}
        /\ operations' \in Nat /\ templates' \in Templates
        /\ config' \in Configs /\ banners' \in 0 .. MaxBanners
    BY <1>4 DEF ChangeLanding, IInv, TypeOK
  <2>2. overlapping' \subseteq Handlers
    BY <2>1 DEF IInv, TypeOK
  <2> QED
    BY <1>2, <2>1, <2>2
<1>5. CASE UNCHANGED vars
  <2>1. /\ UNCHANGED <<rows, pc, locals, used, chosen, joined>>
        /\ UNCHANGED <<landing, overlapping>>
        /\ UNCHANGED <<templates, operations>>
    BY <1>5 DEF vars, started
  <2>2. /\ templates' \in Templates /\ operations' \in Nat
        /\ config' \in Configs /\ banners' \in 0 .. MaxBanners /\ overlapping' \subseteq Handlers
    BY <2>1 DEF IInv, TypeOK, landing
  <2> QED
    BY <1>2, <2>1, <2>2
<1>6. CASE Next
  <2>1. \/ \E h \in Handlers : Steps(h)
        \/ \E n \in Names : DeleteTemplate(n)
        \/ ChangeLanding
    BY <1>6 DEF Next, Steps, Begins, Works, Commits, Ends
  <2> QED
    BY <1>1, <1>3, <1>4, <2>1
<1> QED
  BY <1>5, <1>6

LEMMA InductiveInvariant == Spec => []IInv
<1> QED
  BY InitInv, NextInv, PTL DEF Spec

----------------------------------------------------------------------------

(* Every variable keeps its type.                                           *)
THEOREM TypeCorrect == Spec => []TypeOK
<1>1. IInv => TypeOK
  BY DEF IInv
<1> QED
  BY <1>1, InductiveInvariant, PTL

(* No component is ever shown in the temporary slot of reorder_blocks, or   *)
(* anywhere but in a slot an administrator chose for it, for any number of  *)
(* requests that overlap or fail.                                           *)
THEOREM SlotsAreChosen == Spec => []SlotsWereChosen
<1>1. IInv => SlotsWereChosen
  BY DEF IInv
<1> QED
  BY <1>1, InductiveInvariant, PTL

(* load_template leaves exactly the template's components, and alone also   *)
(* finds the number of banners it was saved with.                           *)
THEOREM LoadsReplaceAll == Spec => LoadReplacesAll
<1>1. IInv => \A h \in Handlers :
        CommitLoad(h) =>
          \E t \in draft[h] :
            /\ h \notin joined => PlacesOf(place') = t.places
            /\ h \notin overlapping => banners = t.banners
  BY Loaded
<1> QED
  BY <1>1, InductiveInvariant, PTL DEF LoadReplacesAll

(* MAX_BLOCKS_PER_LANDING holds after a creation or a load that ran alone.  *)
THEOREM CapKeptAlone == Spec => CapHoldsAlone
<1>1. IInv => \A h \in Handlers \ overlapping :
        CommitCreate(h) \/ CommitLoad(h) => Cardinality(Stored') <= MaxBlocks
  BY CapKept
<1> QED
  BY <1>1, InductiveInvariant, PTL DEF CapHoldsAlone

(* A template saved while nothing else ran is the landing as it was.        *)
THEOREM SnapshotsAreFaithful == Spec => SnapshotIsFaithful
<1>1. IInv => \A h \in Handlers \ overlapping, n \in Names :
        CommitSave(h, n) =>
          templates'[n] = [config |-> config, banners |-> banners,
                           places |-> PlacesOf(place)]
  BY Faithful
<1> QED
  BY <1>1, InductiveInvariant, PTL DEF SnapshotIsFaithful

(* reorder_blocks never meets the unique index when it runs alone, and ends *)
(* with the order that was asked for in every slot.                         *)
THEOREM ReorderingsTakeEffect == Spec => ReorderTakesEffect
<1>1. IInv => \A h \in Handlers \ overlapping :
        /\ ~RewriteCollides(h)
        /\ CommitReorder(h) =>
             /\ Stored' = Stored
             /\ \A b, c \in Stored :
                  /\ SlotOf(place'[b]) = SlotOf(place[b])
                  /\ SlotOf(place[b]) = SlotOf(place[c]) =>
                       (OrderOf(place'[b]) < OrderOf(place'[c])
                          <=> goal[h][b] < goal[h][c])
  <2> SUFFICES ASSUME IInv, NEW h \in Handlers \ overlapping
               PROVE  /\ ~RewriteCollides(h)
                      /\ CommitReorder(h) =>
                           /\ Stored' = Stored
                           /\ \A b, c \in Stored :
                                /\ SlotOf(place'[b]) = SlotOf(place[b])
                                /\ SlotOf(place[b]) = SlotOf(place[c]) =>
                                     (OrderOf(place'[b]) < OrderOf(place'[c])
                                        <=> goal[h][b] < goal[h][c])
    OBVIOUS
  <2>1. ~RewriteCollides(h)
    <3> SUFFICES ASSUME RewriteCollides(h) PROVE FALSE
      OBVIOUS
    <3>1. pc[h] = "rewrite" /\ Alone(h)
      BY DEF RewriteCollides, Alone
    <3>2. PICK b \in Members(h) : Due(h, b) /\ Taken(h, b, DuePlace(h, b))
      BY DEF RewriteCollides, Collides
    <3> QED
      BY <3>1, <3>2, NoCollision
  <2>2. CommitReorder(h) => Alone(h)
    BY DEF CommitReorder, Alone
  <2> QED
    BY <2>1, <2>2, Reordered
<1> QED
  BY <1>1, InductiveInvariant, PTL DEF ReorderTakesEffect
=============================================================================
