---------------------------- MODULE LandingBanners ----------------------------
(****************************************************************************)
(* The banner sequence of one landing: uploads, deletions and reorderings   *)
(* by concurrent administrators, and the image objects in R2.               *)
(*                                                                          *)
(* Every awaited statement is a step.  Transactions run at READ COMMITTED:  *)
(* a statement sees what is committed and what its own transaction wrote, a *)
(* written row stays locked until the transaction ends, and the unique      *)
(* index on (landing, order_index) is checked by every statement; one that  *)
(* meets an index another transaction is writing or leaving waits for it.   *)
(****************************************************************************)
EXTENDS Integers, FiniteSets

CONSTANTS
  Handlers,       \* concurrent administrator requests
  Banners,        \* banner rows, each with its image asset
  MaxBanners,     \* MAX_BANNERS_PER_LANDING
  MaxOperations,  \* bound: operations started in a behaviour
  Faults          \* which of "db", "r2", "commit", "crash" may happen

ASSUME BannerAssumption ==
  /\ IsFiniteSet(Banners)
  /\ MaxBanners \in Nat \ {0}
  /\ MaxOperations \in Nat
  /\ Faults \subseteq {"db", "r2", "commit", "crash"}

VARIABLES
  position,    \* committed rows: banner -> order_index
  written,     \* uncommitted rows of each transaction
  removed,     \* rows each transaction has deleted, uncommitted
  objects,     \* banners whose image objects are in R2
  pc,          \* next awaited statement of each handler, "idle" if none
  target,      \* the banner a handler uploads or deletes
  size,        \* number of banners it has read, or has to renumber
  rank,        \* contiguous_indices: the numbering it is to write
  step,        \* statements of the two passes done so far
  used,        \* banner ids and opaque keys taken so far
  operations,  \* operations started so far
  orphaned,    \* history: images a failed clean-up or a stop left behind
  shown,       \* history: banners that had a committed row
  doubtful,    \* history: uploads whose answer to COMMIT was lost
  overlapping  \* history: operations that ran at the same time as another

rows == <<position, written, removed>>
plan == <<target, size, rank, step>>
history == <<orphaned, shown, doubtful>>
started == <<used, operations, overlapping>>
vars == <<rows, objects, pc, plan, started, history>>

Stored == DOMAIN position
PCs == {"idle", "put", "insert", "cleanup", "delete", "renumber", "commit"}
Uploading == {"put", "insert", "cleanup"}

(* Any set of banners with a position or a placeholder each *)
Indices == -MaxBanners .. MaxBanners - 1
Rows == UNION {[S -> Indices] : S \in SUBSET Banners}
NoRows == [b \in {} |-> 0]

(* The rows as the handler's own transaction sees them. *)
View(h) ==
  [b \in (Stored \union DOMAIN written[h]) \ removed[h] |->
     IF b \in DOMAIN written[h] THEN written[h][b] ELSE position[b]]

Numberings(S) ==
  {r \in [S -> 0 .. Cardinality(S) - 1] :
     \A b, c \in S : r[b] = r[c] => b = c}

Init ==
  /\ \E S \in SUBSET Banners :
       /\ Cardinality(S) <= MaxBanners
       /\ position \in Numberings(S)
       /\ objects = S
       /\ used = S
       /\ shown = S
  /\ written = [h \in Handlers |-> NoRows]
  /\ removed = [h \in Handlers |-> {}]
  /\ pc = [h \in Handlers |-> "idle"]
  /\ target = [h \in Handlers |-> {}]
  /\ size = [h \in Handlers |-> 0]
  /\ rank = [h \in Handlers |-> NoRows]
  /\ step = [h \in Handlers |-> 0]
  /\ operations = 0
  /\ orphaned = {}
  /\ doubtful = {}
  /\ overlapping = {}

Goto(h, where) == pc' = [pc EXCEPT ![h] = where]

(* The transaction and the handler's locals are gone. *)
Forget(h) ==
  /\ written' = [written EXCEPT ![h] = NoRows]
  /\ removed' = [removed EXCEPT ![h] = {}]
  /\ target' = [target EXCEPT ![h] = {}]
  /\ size' = [size EXCEPT ![h] = 0]
  /\ rank' = [rank EXCEPT ![h] = NoRows]
  /\ step' = [step EXCEPT ![h] = 0]

----------------------------------------------------------------------------
(* Starting an operation: the landing and its banners are read. *)

Begin(h, where) ==
  /\ pc[h] = "idle"
  /\ operations < MaxOperations
  /\ operations' = operations + 1
  /\ LET others == {g \in Handlers \ {h} : pc[g] # "idle"}
     IN overlapping' = IF others = {} THEN overlapping \ {h}
                       ELSE overlapping \union others \union {h}
  /\ Goto(h, where)
  /\ UNCHANGED <<rows, objects, step, history>>

(* validate_can_add_banner *)
(* Faulty variant: the limit itself still admits a banner. *)
CanAddOneMore(count) == count <= MaxBanners
CanAdd(count) == count < MaxBanners

(* upload_banner: outside a transaction; a full landing rejects.            *)
BeginUpload(h) ==
  /\ Begin(h, "put")
  /\ CanAdd(Cardinality(Stored))
  /\ \E b \in Banners \ used :
       /\ used' = used \union {b}
       /\ target' = [target EXCEPT ![h] = {b}]
  /\ size' = [size EXCEPT ![h] = Cardinality(Stored)]
  /\ UNCHANGED rank

(* update_banner with a new position, reorder_banners: the new order is a   *)
(* permutation of the rows just read.                                       *)
BeginReorder(h) ==
  /\ Begin(h, "renumber")
  /\ Stored # {}
  /\ size' = [size EXCEPT ![h] = Cardinality(Stored)]
  /\ \E r \in Numberings(Stored) : rank' = [rank EXCEPT ![h] = r]
  /\ UNCHANGED <<used, target>>

(* contiguous_indices of the rows in their stored order *)
Renumbered(S) ==
  [b \in S |-> Cardinality({c \in S : position[c] < position[b]})]

(* Faulty variant: the remaining banners keep their positions. *)
BeginDeleteOnly(h) ==
  /\ Begin(h, "delete")
  /\ \E b \in Stored : target' = [target EXCEPT ![h] = {b}]
  /\ UNCHANGED <<used, size, rank>>

(* delete_banner *)
BeginDelete(h) ==
  /\ Begin(h, "delete")
  /\ \E b \in Stored :
       /\ target' = [target EXCEPT ![h] = {b}]
       /\ size' = [size EXCEPT ![h] = Cardinality(Stored \ {b})]
       /\ rank' = [rank EXCEPT ![h] = Renumbered(Stored \ {b})]
  /\ UNCHANGED used

----------------------------------------------------------------------------
(* Locks and the unique index *)

Locked(h, b) ==
  \E g \in Handlers \ {h} : b \in DOMAIN written[g] \union removed[g]

(* Another transaction is writing this index, or leaving it. *)
InDoubt(h, index) ==
  \E g \in Handlers \ {h} :
    \/ \E b \in DOMAIN written[g] : written[g][b] = index
    \/ \E b \in (DOMAIN written[g] \union removed[g]) \intersect Stored :
         position[b] = index

Taken(h, b, index) == \E c \in DOMAIN View(h) \ {b} : View(h)[c] = index

WriteRow(h, b, index) ==
  written' = [written EXCEPT ![h] = [c \in DOMAIN @ \union {b} |->
                                       IF c = b THEN index ELSE @[c]]]

(* Every object of the upload, one put_bytes after the other; when one      *)
(* fails the earlier ones are deleted again.  The one that failed may have  *)
(* been stored all the same, and nobody deletes it: what that leaves behind *)
(* is what a clean-up that failed leaves behind.                            *)
Put(h) ==
  /\ pc[h] = "put"
  /\ objects' = objects \union target[h]
  /\ \/ Goto(h, "insert")
     \/ "r2" \in Faults /\ Goto(h, "cleanup")
  /\ UNCHANGED <<rows, plan, started, history>>

(* Faulty variant: positions count from one. *)
AppendIndexFromOne(count) == count + 1

(* next_append_index *)
AppendIndex(count) == count

(* Faulty variant: a rejected insert leaves the uploaded image behind. *)
InsertWithoutCleanup(h) ==
  /\ pc[h] = "insert"
  /\ ~InDoubt(h, size[h])
  /\ \/ \E b \in target[h] : /\ ~Taken(h, b, size[h])
                             /\ WriteRow(h, b, size[h])
                             /\ Goto(h, "commit")
                             /\ UNCHANGED <<removed, plan>>
     \/ /\ \E b \in target[h] : Taken(h, b, size[h])
        /\ Forget(h)
        /\ Goto(h, "idle")
  /\ UNCHANGED <<position, objects, started, history>>

(* The row is inserted at the end of the sequence that was read before the  *)
(* images were put; the index of another row there ends the upload.         *)
Insert(h) ==
  /\ pc[h] = "insert"
  /\ LET index == AppendIndex(size[h]) IN
     /\ ~InDoubt(h, index)
     /\ \E b \in target[h] :
          \/ /\ ~Taken(h, b, index)
             /\ WriteRow(h, b, index)
             /\ Goto(h, "commit")
          \/ /\ Taken(h, b, index)
             /\ Goto(h, "cleanup")
             /\ UNCHANGED written
  /\ UNCHANGED <<position, removed, objects, plan, started, history>>

(* _cleanup_partial_upload: best effort; the error goes to the client. *)
Cleanup(h) ==
  /\ pc[h] = "cleanup"
  /\ \/ objects' = objects \ target[h] /\ UNCHANGED orphaned
     \/ /\ "r2" \in Faults
        /\ orphaned' = orphaned \union target[h]
        /\ UNCHANGED objects
  /\ Forget(h)
  /\ Goto(h, "idle")
  /\ UNCHANGED <<position, started, shown, doubtful>>

(* Faulty variant: the image is deleted with the row. *)
DeleteRowAndImage(h) ==
  /\ pc[h] = "delete"
  /\ \A b \in target[h] : ~Locked(h, b)
  /\ removed' = [removed EXCEPT ![h] = target[h] \intersect Stored]
  /\ objects' = objects \ target[h]
  /\ Goto(h, "renumber")
  /\ UNCHANGED <<position, written, plan, started, history>>

(* A row that is gone by now is no error; the image stays in R2. *)
DeleteRow(h) ==
  /\ pc[h] = "delete"
  /\ \A b \in target[h] : ~Locked(h, b)
  /\ removed' = [removed EXCEPT ![h] = target[h] \intersect Stored]
  /\ Goto(h, "renumber")
  /\ UNCHANGED <<position, written, objects, plan, started, history>>

(* _apply_order: first every banner of the list to a negative placeholder,  *)
(* then every banner to its number; a row that is gone by now is skipped.   *)
(* Faulty variant: the second pass is missing.                              *)
PassesParkingOnly(h) == size[h]
Passes(h) == 2 * size[h]

Due(h, b) == step[h] \in {rank[h][b], size[h] + rank[h][b]}
DueIndex(h, b) == IF step[h] = rank[h][b] THEN -(rank[h][b] + 1) ELSE rank[h][b]

Renumber(h) ==
  /\ pc[h] = "renumber"
  /\ step[h] < Passes(h)
  /\ \E b \in DOMAIN rank[h] :
       /\ Due(h, b)
       /\ ~Locked(h, b)
       /\ \/ /\ b \in Stored
             /\ ~InDoubt(h, DueIndex(h, b))
             /\ ~Taken(h, b, DueIndex(h, b))
             /\ WriteRow(h, b, DueIndex(h, b))
          \/ b \notin Stored /\ UNCHANGED written
  /\ step' = [step EXCEPT ![h] = @ + 1]
  /\ UNCHANGED <<position, removed, objects, pc, target, size, rank, started,
                 history>>

(* The index is a committed row's: unique violation, rollback. *)
RenumberCollides(h) ==
  /\ pc[h] = "renumber"
  /\ \E b \in DOMAIN rank[h] \intersect Stored :
       /\ Due(h, b)
       /\ ~Locked(h, b)
       /\ ~InDoubt(h, DueIndex(h, b))
       /\ Taken(h, b, DueIndex(h, b))
  /\ Forget(h)
  /\ Goto(h, "idle")
  /\ UNCHANGED <<position, objects, started, history>>

(* COMMIT of an upload.  When its answer is lost, the handler takes the     *)
(* upload for failed and cleans up.                                         *)
CommitUpload(h) ==
  /\ pc[h] = "commit"
  /\ position' = View(h)
  /\ shown' = shown \union target[h]
  /\ \/ Forget(h) /\ Goto(h, "idle") /\ UNCHANGED doubtful
     \/ /\ "commit" \in Faults
        /\ Goto(h, "cleanup")
        /\ doubtful' = doubtful \union target[h]
        /\ written' = [written EXCEPT ![h] = NoRows]
        /\ UNCHANGED <<removed, plan>>
  /\ UNCHANGED <<objects, started, orphaned>>

CommitOrder(h) ==
  /\ pc[h] = "renumber"
  /\ step[h] = Passes(h)
  /\ position' = View(h)
  /\ Forget(h)
  /\ Goto(h, "idle")
  /\ UNCHANGED <<objects, started, history>>

(* A statement fails: a database error, the transaction's time limit, or    *)
(* the victim of a deadlock.  The transaction rolls back.                   *)
FailDatabase(h) ==
  /\ "db" \in Faults
  /\ \/ /\ pc[h] \in {"insert", "commit"}
        /\ Goto(h, "cleanup")
        /\ written' = [written EXCEPT ![h] = NoRows]
        /\ UNCHANGED <<removed, plan>>
     \/ /\ pc[h] \in {"delete", "renumber"}
        /\ Forget(h)
        /\ Goto(h, "idle")
  /\ UNCHANGED <<position, objects, started, history>>

(* The process stops. *)
Crash(h) ==
  /\ "crash" \in Faults
  /\ pc[h] # "idle"
  /\ orphaned' = IF pc[h] \in Uploading \union {"commit"}
                 THEN orphaned \union target[h] ELSE orphaned
  /\ Forget(h)
  /\ Goto(h, "idle")
  /\ UNCHANGED <<position, objects, started, shown, doubtful>>

----------------------------------------------------------------------------
Operation(h) ==
  \/ Put(h) \/ Insert(h) \/ Cleanup(h) \/ CommitUpload(h)
  \/ DeleteRow(h) \/ Renumber(h) \/ RenumberCollides(h) \/ CommitOrder(h)
  \/ FailDatabase(h)

Next ==
  \E h \in Handlers :
    \/ BeginUpload(h) \/ BeginReorder(h) \/ BeginDelete(h)
    \/ Operation(h) \/ Crash(h)

Spec == Init /\ [][Next]_vars

----------------------------------------------------------------------------
(* Properties *)

(* Every variable has its type. *)
TypeOK ==
  /\ position \in Rows
  /\ written \in [Handlers -> Rows]
  /\ removed \in [Handlers -> SUBSET Banners]
  /\ objects \subseteq used
  /\ pc \in [Handlers -> PCs]
  /\ target \in [Handlers -> SUBSET Banners]
  /\ size \in [Handlers -> 0 .. MaxBanners]
  /\ rank \in [Handlers -> Rows]
  /\ step \in [Handlers -> Nat]
  /\ used \subseteq Banners
  /\ operations \in Nat
  /\ orphaned \subseteq Banners
  /\ shown \subseteq Banners
  /\ doubtful \subseteq Banners
  /\ overlapping \subseteq Handlers

(* No placeholder of a renumbering is ever committed, and no position lies  *)
(* beyond the limit: with stale counts, rollbacks and overlapping passes.   *)
PositionsInRange == \A b \in Stored : position[b] \in 0 .. MaxBanners - 1

(* A landing never has more banners than the limit, though uploads count    *)
(* them long before they insert (validate_can_add_banner).                  *)
CapHolds == Cardinality(Stored) <= MaxBanners

(* Every banner shown has its image, unless the answer to the COMMIT of its *)
(* upload was lost and the handler took it for failed.                      *)
RowsHaveImages == Stored \subseteq objects \union doubtful

(* An image in R2 without a row belongs to a deleted banner, to an upload   *)
(* in progress, or to one whose clean-up failed or never ran.               *)
InUpload(b) == \E h \in Handlers : /\ b \in target[h]
                                  /\ pc[h] \in Uploading \union {"commit"}
ImagesAccountedFor ==
  \A b \in objects : b \in shown \/ b \in orphaned \/ InUpload(b)

(* An operation that overlapped with no other leaves no gap: a deletion or  *)
(* reordering closes even gaps it found, an upload makes none.              *)
Contiguous == {position[b] : b \in Stored} = 0 .. Cardinality(Stored) - 1
PositionsCloseUp ==
  [][\A h \in Handlers \ overlapping :
       /\ CommitOrder(h) => Contiguous'
       /\ CommitUpload(h) /\ Contiguous => Contiguous']_vars
=============================================================================
