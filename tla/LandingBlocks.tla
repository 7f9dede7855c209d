----------------------------- MODULE LandingBlocks -----------------------------
(****************************************************************************)
(* The conversion components ("blocks") of one landing and the templates    *)
(* that save and restore them, used by concurrent administrators.           *)
(*                                                                          *)
(* As in LandingBanners, every awaited statement is a step, transactions    *)
(* run at READ COMMITTED, a written row stays locked until its transaction  *)
(* ends, and the unique index on (landing, slot, order) is checked by every *)
(* statement.  What a component shows is in BlockContent; here a component  *)
(* is a row with a place.                                                   *)
(****************************************************************************)
EXTENDS Integers, FiniteSets

CONSTANTS
  Handlers,       \* concurrent administrator requests
  Blocks,         \* component rows
  Names,          \* template names
  Configs,        \* CTA, form and offer settings of a landing
  MaxBlocks,      \* MAX_BLOCKS_PER_LANDING
  MaxSlot,        \* MAX_SLOT_INDEX
  MaxOrder,       \* MAX_ORDER_INDEX
  MaxBanners,     \* MAX_BANNERS_PER_LANDING
  MaxOperations   \* bound: operations started in a behaviour

ASSUME BlockAssumption ==
  /\ IsFiniteSet(Blocks)
  /\ MaxBlocks \in Nat \ {0}
  /\ MaxSlot \in Nat
  /\ MaxOrder \in Nat
  /\ MaxBanners \in Nat
  /\ MaxOperations \in Nat
  /\ Configs # {}

VARIABLES
  place,       \* committed rows: block -> place
  written,     \* uncommitted rows of each transaction
  removed,     \* rows each transaction has deleted, uncommitted
  config,      \* the landing's settings
  banners,     \* the number of its banners
  templates,   \* saved templates: name -> what was saved
  pc,          \* next awaited statement of each handler, "idle" if none
  target,      \* the block a handler creates, moves or deletes
  slot,        \* the slot it moves to, or is reordering
  seen,        \* the rows it has read
  goal,        \* reordering: block -> its new order in its slot
  todo,        \* reordering: slots whose order changes
  step,        \* statements done in the slot being reordered
  draft,       \* the template it saves or loads
  used,        \* row ids taken so far
  operations,  \* operations started so far
  chosen,      \* history: slots an administrator chose for each block
  overlapping, \* history: operations that ran at the same time as another
  joined       \* history: template loads during which a block was created

rows == <<place, written, removed>>
landing == <<config, banners>>
locals == <<target, slot, seen, goal, todo, step, draft>>
started == <<used, operations, overlapping>>
vars == <<rows, landing, templates, pc, locals, started, chosen, joined>>

Slots == 0 .. MaxSlot
Places == Slots \X (0 .. MaxOrder)
SlotOf(p) == p[1]
OrderOf(p) == p[2]

Stored == DOMAIN place
Rows == UNION {[S -> Places] : S \in SUBSET Blocks}
NoRows == [b \in {} |-> 0]

(* What a template holds: settings, banner count, places of its blocks. *)
Drafts == [config : Configs, banners : 0 .. MaxBanners,
           places : SUBSET Places]
Templates == UNION {[N -> Drafts] : N \in SUBSET Names}

PCs == {"idle", "insert", "created", "move", "delete", "reorder", "rewrite",
        "commit", "update", "clear", "fill", "snapshot", "save"}
Creating(h) == pc[h] \in {"insert", "created"}

(* The rows as the handler's own transaction sees them. *)
View(h) ==
  [b \in (Stored \union DOMAIN written[h]) \ removed[h] |->
     IF b \in DOMAIN written[h] THEN written[h][b] ELSE place[b]]

In(R, s) == {b \in DOMAIN R : SlotOf(R[b]) = s}
PlacesOf(R) == {R[b] : b \in DOMAIN R}

(* Any state that creations leave: within the cap, places distinct. *)
Init ==
  /\ \E S \in SUBSET Blocks :
       /\ Cardinality(S) <= MaxBlocks
       /\ place \in {R \in [S -> Places] :
                       \A b, c \in S : R[b] = R[c] => b = c}
       /\ used = S
  /\ chosen = [b \in Blocks |->
                 IF b \in Stored THEN {SlotOf(place[b])} ELSE {}]
  /\ config \in Configs
  /\ banners \in 0 .. MaxBanners
  /\ templates = [n \in {} |-> 0]
  /\ written = [h \in Handlers |-> NoRows]
  /\ removed = [h \in Handlers |-> {}]
  /\ pc = [h \in Handlers |-> "idle"]
  /\ target = [h \in Handlers |-> {}]
  /\ slot = [h \in Handlers |-> 0]
  /\ seen = [h \in Handlers |-> NoRows]
  /\ goal = [h \in Handlers |-> NoRows]
  /\ todo = [h \in Handlers |-> {}]
  /\ step = [h \in Handlers |-> 0]
  /\ draft = [h \in Handlers |-> {}]
  /\ operations = 0
  /\ overlapping = {}
  /\ joined = {}

Goto(h, where) == pc' = [pc EXCEPT ![h] = where]

(* The transaction ends: its rows become the committed ones, or are gone. *)
Forget(h) ==
  /\ written' = [written EXCEPT ![h] = NoRows]
  /\ removed' = [removed EXCEPT ![h] = {}]
  /\ target' = [target EXCEPT ![h] = {}]
  /\ slot' = [slot EXCEPT ![h] = 0]
  /\ seen' = [seen EXCEPT ![h] = NoRows]
  /\ goal' = [goal EXCEPT ![h] = NoRows]
  /\ todo' = [todo EXCEPT ![h] = {}]
  /\ step' = [step EXCEPT ![h] = 0]
  /\ draft' = [draft EXCEPT ![h] = {}]
  /\ Goto(h, "idle")

Choose(B, s) ==
  chosen' = [b \in Blocks |-> IF b \in B THEN chosen[b] \union {s}
                              ELSE chosen[b]]

----------------------------------------------------------------------------
(* Starting an operation: the landing and its blocks are read. *)

Begin(h, where) ==
  /\ pc[h] = "idle"
  /\ operations < MaxOperations
  /\ operations' = operations + 1
  /\ LET others == {g \in Handlers \ {h} : pc[g] # "idle"}
     IN overlapping' = IF others = {} THEN overlapping \ {h}
                       ELSE overlapping \union others \union {h}
  /\ Goto(h, where)
  /\ UNCHANGED <<rows, landing, templates, step>>

(* validate_can_add_block *)
(* Faulty variant: the cap itself still admits a block. *)
CanAddOneMore(count) == count <= MaxBlocks
CanAdd(count) == count < MaxBlocks

(* _next_order_in_slot: the first free order, none if the slot is full. *)
(* Faulty variant: a full slot gets one more order. *)
NextOrderBeyond(R, s) ==
  {o \in 0 .. MaxOrder + 1 :
     /\ \A b \in In(R, s) : OrderOf(R[b]) # o
     /\ \A p \in 0 .. o - 1 : \E b \in In(R, s) : OrderOf(R[b]) = p}
NextOrder(R, s) ==
  {o \in 0 .. MaxOrder :
     /\ \A b \in In(R, s) : OrderOf(R[b]) # o
     /\ \A p \in 0 .. o - 1 : \E b \in In(R, s) : OrderOf(R[b]) = p}

(* create_block: the cap and the order are taken from the rows just read. *)
BeginCreate(h, s) ==
  /\ Begin(h, "insert")
  /\ CanAdd(Cardinality(Stored))
  /\ NextOrder(place, s) # {}
  /\ seen' = [seen EXCEPT ![h] = place]
  /\ slot' = [slot EXCEPT ![h] = s]
  /\ \E b \in Blocks \ used :
       /\ used' = used \union {b}
       /\ target' = [target EXCEPT ![h] = {b}]
       /\ Choose({b}, s)
  /\ joined' = joined \union {g \in Handlers : pc[g] # "idle"}
  /\ UNCHANGED <<goal, todo, draft>>

(* update_block with a new slot.  Without one, the place is not written. *)
BeginMove(h, b, s) ==
  /\ Begin(h, "move")
  /\ SlotOf(place[b]) # s
  /\ NextOrder(place, s) # {}
  /\ seen' = [seen EXCEPT ![h] = place]
  /\ slot' = [slot EXCEPT ![h] = s]
  /\ target' = [target EXCEPT ![h] = {b}]
  /\ Choose({b}, s)
  /\ UNCHANGED <<goal, todo, draft, used, joined>>

BeginDelete(h, b) ==
  /\ Begin(h, "delete")
  /\ target' = [target EXCEPT ![h] = {b}]
  /\ UNCHANGED <<seen, slot, goal, todo, draft, used, chosen, joined>>

(* The order in which a block was read within its slot, from 0 *)
Rank(R, b) ==
  Cardinality({c \in In(R, SlotOf(R[b])) : OrderOf(R[c]) < OrderOf(R[b])})

(* A request names every block once: within each slot, a permutation. *)
Orderings(R) ==
  {g \in [DOMAIN R -> 0 .. MaxOrder] :
     \A s \in Slots :
       {g[b] : b \in In(R, s)} = 0 .. Cardinality(In(R, s)) - 1}

Free(R) == {s \in Slots : In(R, s) = {}}
Temporary(R) == CHOOSE s \in Free(R) : \A t \in Free(R) : s <= t

(* reorder_blocks: the slots whose order changes are rewritten in any       *)
(* order, as the request may name them in any order.                        *)
BeginReorder(h) ==
  /\ Begin(h, "reorder")
  /\ Free(place) # {}
  /\ seen' = [seen EXCEPT ![h] = place]
  /\ \E g \in Orderings(place) :
       /\ goal' = [goal EXCEPT ![h] = g]
       /\ todo' = [todo EXCEPT ![h] =
            {SlotOf(place[b]) : b \in {c \in Stored : g[c] # Rank(place, c)}}]
  /\ UNCHANGED <<target, slot, draft, used, chosen, joined>>

(* load_template reads the template and the number of banners.  The two     *)
(* reads are one step: nothing that comes between them changes both.        *)
(* Faulty variant: the banner count is not compared. *)
FitsAnything(t) == t.banners \in 0 .. MaxBanners
Fits(t) == t.banners = banners

BeginLoad(h, n) ==
  /\ Begin(h, "update")
  /\ Fits(templates[n])
  /\ Cardinality(templates[n].places) <= MaxBlocks
  /\ draft' = [draft EXCEPT ![h] = {templates[n]}]
  /\ joined' = IF \E g \in Handlers : Creating(g) THEN joined \union {h}
               ELSE joined \ {h}
  /\ UNCHANGED <<target, slot, seen, goal, todo, used, chosen>>

(* save_template reads the landing and the number of banners, one step for  *)
(* the same reason; the blocks come with a later statement.                 *)
BeginSave(h) ==
  /\ Begin(h, "snapshot")
  /\ draft' = [draft EXCEPT ![h] =
                 {[config |-> config, banners |-> banners, places |-> {}]}]
  /\ UNCHANGED <<target, slot, seen, goal, todo, used, chosen, joined>>

----------------------------------------------------------------------------
(* Locks and the unique index *)

Locked(h, b) ==
  \E g \in Handlers \ {h} : b \in DOMAIN written[g] \union removed[g]

(* Another transaction is writing this place, or leaving it. *)
InDoubt(h, p) ==
  \E g \in Handlers \ {h} :
    \/ \E b \in DOMAIN written[g] : written[g][b] = p
    \/ \E b \in (DOMAIN written[g] \union removed[g]) \intersect Stored :
         place[b] = p

Taken(h, b, p) == \E c \in DOMAIN View(h) \ {b} : View(h)[c] = p

(* A statement that writes one row is not waiting, and succeeds or not. *)
Ready(h, b, p) == ~Locked(h, b) /\ ~InDoubt(h, p)
Write(h, b, p) ==
  /\ Ready(h, b, p)
  /\ ~Taken(h, b, p)
  /\ written' = [written EXCEPT ![h] = [c \in DOMAIN @ \union {b} |->
                                          IF c = b THEN p ELSE @[c]]]
Collides(h, b, p) == Ready(h, b, p) /\ Taken(h, b, p)

(* A failed statement, or a process that stops: rollback. *)
Abort(h) ==
  /\ pc[h] # "idle"
  /\ Forget(h)
  /\ UNCHANGED <<place, landing, templates, started, chosen, joined>>

(* The order a creation or a move has computed from the rows it read *)
Aim(h) == CHOOSE p \in {<<slot[h], o>> : o \in NextOrder(seen[h], slot[h])} : TRUE

Insert(h) ==
  /\ pc[h] = "insert"
  /\ \E b \in target[h] : Write(h, b, Aim(h))
  /\ Goto(h, "created")
  /\ UNCHANGED <<place, removed, landing, templates, locals, started, chosen,
                 joined>>

(* A row that is gone by now ends the request: Abort. *)
Move(h) ==
  /\ pc[h] = "move"
  /\ \E b \in target[h] \intersect Stored : Write(h, b, Aim(h))
  /\ Goto(h, "commit")
  /\ UNCHANGED <<place, removed, landing, templates, locals, started, chosen,
                 joined>>

(* A row that is gone by now is no error. *)
DeleteRow(h) ==
  /\ pc[h] = "delete"
  /\ \A b \in target[h] : ~Locked(h, b)
  /\ removed' = [removed EXCEPT ![h] = target[h] \intersect Stored]
  /\ Goto(h, "commit")
  /\ UNCHANGED <<place, written, landing, templates, locals, started, chosen,
                 joined>>

----------------------------------------------------------------------------
(* reorder_blocks: every block of a slot is parked in the temporary slot    *)
(* under the order it has by now; then each takes its new place.            *)

Members(h) == In(seen[h], slot[h])
Due(h, b) == step[h] \in {Rank(seen[h], b), Cardinality(Members(h)) + goal[h][b]}
Parking(h) == step[h] < Cardinality(Members(h))

(* Faulty variant: blocks are not parked but written in place. *)
DuePlaceInPlace(h, b) ==
  IF Parking(h) THEN View(h)[b] ELSE <<slot[h], goal[h][b]>>
DuePlace(h, b) ==
  IF Parking(h) THEN <<Temporary(seen[h]), OrderOf(View(h)[b])>>
  ELSE <<slot[h], goal[h][b]>>

BeginSlot(h) ==
  /\ pc[h] = "reorder"
  /\ \E s \in todo[h] : slot' = [slot EXCEPT ![h] = s]
  /\ Goto(h, "rewrite")
  /\ UNCHANGED <<rows, landing, templates, target, seen, goal, todo, step,
                 draft, started, chosen, joined>>

Rewrite(h) ==
  /\ pc[h] = "rewrite"
  /\ \E b \in Members(h) :
       /\ Due(h, b)
       /\ \/ b \in Stored /\ Write(h, b, DuePlace(h, b))
          \/ b \notin Stored /\ UNCHANGED written
  /\ step' = [step EXCEPT ![h] = @ + 1]
  /\ UNCHANGED <<place, removed, landing, templates, pc, target, slot, seen,
                 goal, todo, draft, started, chosen, joined>>

EndSlot(h) ==
  /\ pc[h] = "rewrite"
  /\ step[h] = 2 * Cardinality(Members(h))
  /\ step' = [step EXCEPT ![h] = 0]
  /\ todo' = [todo EXCEPT ![h] = @ \ {slot[h]}]
  /\ Goto(h, "reorder")
  /\ UNCHANGED <<rows, landing, templates, target, slot, seen, goal, draft,
                 started, chosen, joined>>

(* Faulty variant: what was written before the collision is committed. *)
RewriteCollidesCommitted(h) ==
  /\ pc[h] = "rewrite"
  /\ \E b \in Members(h) \intersect Stored :
       Due(h, b) /\ Collides(h, b, DuePlace(h, b))
  /\ place' = View(h)
  /\ Forget(h)
  /\ UNCHANGED <<landing, templates, started, chosen, joined>>
RewriteCollides(h) ==
  /\ pc[h] = "rewrite"
  /\ \E b \in Members(h) \intersect Stored :
       Due(h, b) /\ Collides(h, b, DuePlace(h, b))
  /\ Abort(h)

----------------------------------------------------------------------------
(* load_template: the landing row, all blocks out, the template's blocks in *)

UpdateLanding(h) ==
  /\ pc[h] = "update"
  /\ \A g \in Handlers \ {h} : pc[g] \notin {"clear", "fill"}
  /\ Goto(h, "clear")
  /\ UNCHANGED <<rows, landing, templates, locals, started, chosen, joined>>

(* Faulty variant: the landing's blocks stay. *)
ClearNothing(h) ==
  /\ pc[h] = "clear"
  /\ Goto(h, "fill")
  /\ UNCHANGED <<rows, landing, templates, locals, started, chosen, joined>>

(* delete_for_landing *)
Clear(h) ==
  /\ pc[h] = "clear"
  /\ \A b \in Stored : ~Locked(h, b)
  /\ removed' = [removed EXCEPT ![h] = Stored]
  /\ Goto(h, "fill")
  /\ UNCHANGED <<place, written, landing, templates, locals, started, chosen,
                 joined>>

Missing(h) == (UNION {t.places : t \in draft[h]}) \ PlacesOf(written[h])

Fill(h) ==
  /\ pc[h] = "fill"
  /\ \E p \in Missing(h), b \in Blocks \ used :
       /\ Write(h, b, p)
       /\ used' = used \union {b}
       /\ Choose({b}, SlotOf(p))
  /\ UNCHANGED <<place, removed, landing, templates, pc, locals, operations,
                 overlapping, joined>>

CommitLoad(h) ==
  /\ pc[h] = "fill"
  /\ Missing(h) = {}
  /\ place' = View(h)
  /\ \E t \in draft[h] : config' = t.config
  /\ Forget(h)
  /\ UNCHANGED <<banners, templates, started, chosen, joined>>

(* save_template *)
ReadBlocks(h) ==
  /\ pc[h] = "snapshot"
  /\ draft' = [draft EXCEPT ![h] = {[t EXCEPT !.places = PlacesOf(place)] : t \in @}]
  /\ Goto(h, "save")
  /\ UNCHANGED <<rows, landing, templates, target, slot, seen, goal, todo, step,
                 started, chosen, joined>>

(* Faulty variant: overwriting a template keeps its banner count. *)
SavedKeepingCount(n, t) ==
  IF n \in DOMAIN templates THEN [t EXCEPT !.banners = templates[n].banners] ELSE t
Saved(n, t) == t

(* A new name, or an existing one that may be overwritten *)
CommitSave(h, n) ==
  /\ pc[h] = "save"
  /\ \E t \in draft[h] :
       templates' = [m \in DOMAIN templates \union {n} |->
                       IF m = n THEN Saved(n, t) ELSE templates[m]]
  /\ Forget(h)
  /\ UNCHANGED <<place, landing, started, chosen, joined>>

DeleteTemplate(n) ==
  /\ operations < MaxOperations
  /\ operations' = operations + 1
  /\ n \in DOMAIN templates
  /\ templates' = [m \in DOMAIN templates \ {n} |-> templates[m]]
  /\ UNCHANGED <<rows, landing, pc, locals, used, overlapping, chosen, joined>>

CommitCreate(h) ==
  /\ pc[h] = "created"
  /\ place' = View(h)
  /\ Forget(h)
  /\ UNCHANGED <<landing, templates, started, chosen, joined>>

CommitChange(h) ==
  /\ pc[h] = "commit"
  /\ place' = View(h)
  /\ Forget(h)
  /\ UNCHANGED <<landing, templates, started, chosen, joined>>

CommitReorder(h) ==
  /\ pc[h] = "reorder"
  /\ todo[h] = {}
  /\ place' = View(h)
  /\ Forget(h)
  /\ UNCHANGED <<landing, templates, started, chosen, joined>>

(* The landing's banners and settings change, as LandingBanners and Catalog *)
(* describe; whatever is under way overlaps with it.                        *)
ChangeLanding ==
  /\ operations < MaxOperations
  /\ operations' = operations + 1
  /\ \/ /\ banners' \in {banners - 1, banners + 1} \intersect (0 .. MaxBanners)
        /\ UNCHANGED config
     \/ /\ \A h \in Handlers : pc[h] \notin {"clear", "fill"}
        /\ config' \in Configs \ {config}
        /\ UNCHANGED banners
  /\ overlapping' = overlapping \union {h \in Handlers : pc[h] # "idle"}
  /\ UNCHANGED <<rows, templates, pc, locals, used, chosen, joined>>

----------------------------------------------------------------------------
Next ==
  \/ \E h \in Handlers :
       \/ \E s \in Slots : BeginCreate(h, s)
       \/ \E b \in Stored, s \in Slots : BeginMove(h, b, s)
       \/ \E b \in Stored : BeginDelete(h, b)
       \/ BeginReorder(h)
       \/ \E n \in DOMAIN templates : BeginLoad(h, n)
       \/ BeginSave(h)
       \/ Insert(h) \/ Move(h) \/ DeleteRow(h)
       \/ BeginSlot(h) \/ Rewrite(h) \/ EndSlot(h) \/ RewriteCollides(h)
       \/ UpdateLanding(h) \/ Clear(h) \/ Fill(h) \/ ReadBlocks(h)
       \/ CommitCreate(h) \/ CommitChange(h) \/ CommitReorder(h) \/ CommitLoad(h)
       \/ \E n \in Names : CommitSave(h, n)
       \/ Abort(h)
  \/ \E n \in Names : DeleteTemplate(n)
  \/ ChangeLanding

Spec == Init /\ [][Next]_vars

----------------------------------------------------------------------------
(* Properties *)

(* Every variable has its type. *)
TypeOK ==
  /\ place \in Rows
  /\ written \in [Handlers -> Rows]
  /\ removed \in [Handlers -> SUBSET Blocks]
  /\ config \in Configs
  /\ banners \in 0 .. MaxBanners
  /\ templates \in Templates
  /\ pc \in [Handlers -> PCs]
  /\ target \in [Handlers -> SUBSET Blocks]
  /\ slot \in [Handlers -> Slots]
  /\ seen \in [Handlers -> Rows]
  /\ goal \in [Handlers -> UNION {[S -> 0 .. MaxOrder] : S \in SUBSET Blocks}]
  /\ todo \in [Handlers -> SUBSET Slots]
  /\ step \in [Handlers -> Nat]
  /\ draft \in [Handlers -> SUBSET Drafts]
  /\ used \subseteq Blocks
  /\ operations \in Nat
  /\ chosen \in [Blocks -> SUBSET Slots]
  /\ overlapping \subseteq Handlers
  /\ joined \subseteq Handlers

(* A component is only ever shown in a slot an administrator chose for it:  *)
(* the temporary slot of a reordering (landing_block_service.py:211) is     *)
(* never committed, whatever overlaps, fails or is deleted meanwhile.       *)
SlotsWereChosen == \A b \in Stored : SlotOf(place[b]) \in chosen[b]

(* A creation or a load that overlaps with nothing leaves the landing       *)
(* within the cap, even if earlier overlapping ones exceeded it.            *)
CapHoldsAlone ==
  [][\A h \in Handlers \ overlapping :
       CommitCreate(h) \/ CommitLoad(h) => Cardinality(Stored') <= MaxBlocks]_vars

(* A reordering that overlaps with nothing never meets the unique index and *)
(* ends with every component in its slot, in the order requested.           *)
ReorderTakesEffect ==
  [][\A h \in Handlers \ overlapping :
       /\ ~RewriteCollides(h)
       /\ CommitReorder(h) =>
            /\ Stored' = Stored
            /\ \A b, c \in Stored :
                 /\ SlotOf(place'[b]) = SlotOf(place[b])
                 /\ SlotOf(place[b]) = SlotOf(place[c]) =>
                      (OrderOf(place'[b]) < OrderOf(place'[c])
                         <=> goal[h][b] < goal[h][c])]_vars

(* A load leaves exactly the template's components, whatever moves,         *)
(* reorders, deletes or loads at the same time; only a creation under way   *)
(* may add one.  Alone, the template and the landing also agree on the      *)
(* number of banners (templates.py:123).                                    *)
LoadReplacesAll ==
  [][\A h \in Handlers :
       CommitLoad(h) =>
         \E t \in draft[h] :
           /\ h \notin joined => PlacesOf(place') = t.places
           /\ h \notin overlapping => banners = t.banners]_vars

(* A template saved while nothing else ran is the landing: its settings,    *)
(* its banner count and the places of its components (templates.py:145).    *)
SnapshotIsFaithful ==
  [][\A h \in Handlers \ overlapping, n \in Names :
       CommitSave(h, n) =>
         templates'[n] = [config |-> config, banners |-> banners,
                          places |-> PlacesOf(place)]]_vars
=============================================================================
