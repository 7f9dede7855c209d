------------------------------ MODULE OrderSync ------------------------------
(****************************************************************************)
(* One COD order and its hand-off to the fulfilment provider MasterShop.    *)
(*                                                                          *)
(* The order and its synchronisation row live in PostgreSQL.  Handlers are  *)
(* HTTP requests on one event loop: the checkout that has just committed    *)
(* the order, and administrator requests that retry the hand-off, move the  *)
(* order along its status graph or edit its delivery data.  Every awaited   *)
(* statement is one step here, so handlers interleave between any two of    *)
(* them.  An interactive transaction is one step: it takes the row lock of  *)
(* its conditional update first and becomes visible at commit.  A           *)
(* find_unique with `include` is one SELECT for the row and later ones for  *)
(* its relations, hence two steps.                                          *)
(*                                                                          *)
(* No operation touches two orders, so one order is modelled.  Delivery     *)
(* data is abstracted to its edition number: the order row and the details  *)
(* row are always written by the same transaction, so one number serves     *)
(* both, and a request that read them around an edit carries two.           *)
(****************************************************************************)
EXTENDS Naturals

CONSTANTS
  Checkout,     \* the public request that created the order
  Admins,       \* concurrent administrator requests
  MaxRequests,  \* bound: administrator requests received in a behaviour
  Persistent,   \* retries of a row whose claim is old are exempt from the bound
  MaxLost,      \* bound: handlers that die, and claims that outlive their time
  Faults,       \* which of "crash", "lostReply", "overrun" may happen
  Origins       \* statuses the order may be created with

ASSUME SyncAssumption ==
  /\ Checkout \notin Admins
  /\ MaxRequests \in Nat
  /\ MaxLost \in Nat
  /\ Persistent \in BOOLEAN
  /\ Faults \subseteq {"crash", "lostReply", "overrun"}
  /\ Origins \subseteq {"pending", "flagged_fraud"}

Handlers == Admins \union {Checkout}

(* ALLOWED_TRANSITIONS: the legal order status graph *)
Statuses == {"pending", "confirmed", "shipped", "delivered", "cancelled",
             "flagged_fraud"}
(* Faulty variant: a pending order may be flagged again. *)
LegalWithReflag ==
  {<<"pending", "confirmed">>, <<"pending", "cancelled">>,
   <<"pending", "flagged_fraud">>, <<"confirmed", "shipped">>,
   <<"flagged_fraud", "pending">>, <<"flagged_fraud", "cancelled">>}

Legal == {<<"pending", "confirmed">>, <<"pending", "cancelled">>,
          <<"confirmed", "shipped">>, <<"confirmed", "cancelled">>,
          <<"shipped", "delivered">>, <<"shipped", "cancelled">>,
          <<"flagged_fraud", "pending">>, <<"flagged_fraud", "cancelled">>}

SyncStatuses == {"pending", "waiting_review", "syncing", "success", "failed"}

(* Faulty variant: an edit does not look at claims. *)
EditableAnyTime == {"pending", "failed", "waiting_review", "syncing"}
Editable == {"pending", "failed", "waiting_review"}

Requests == [no : Nat, contact : Nat, details : Nat]
NoRequest == [no |-> 0, contact |-> 0, details |-> 0]

VARIABLES
  order,      \* orders.status
  edition,    \* edition of the delivery data in orders and details rows
  sync,       \* the mastershop_order_syncs row
  pc,         \* next awaited statement of each handler, "idle" if none
  seen,       \* order status the handler read last, "none" before
  form,       \* the claim number and delivery data a sync worker holds
  goal,       \* to_status of a transition request
  received,   \* administrator requests received so far
  posted,     \* requests sent to the provider and not refused by it
  accepted,   \* requests the provider turned into an order of its own
  origin,     \* history: status the order was created with
  doubtful,   \* history: claims whose provider answer was never recorded
  overrun,    \* history: a claim grew old while its worker was still alive
  lost        \* handlers that died and claims that grew old under their worker

vars == <<order, edition, sync, pc, seen, form, goal, received, posted,
          accepted, origin, doubtful, overrun, lost>>

(* The handler is between winning the claim and recording its result. *)
Holding == {"reload", "details", "save", "send", "await",
            "succeed", "fail", "release"}
PCs == Holding \union {"idle", "order", "sync", "review", "claim",
                       "torder", "twrite", "eorder", "esync", "etx"}

SyncRows == [status : SyncStatuses, attempts : Nat, age : {"fresh", "old"},
             body : Requests]

(* submit: the order, its details and its sync row commit together; the     *)
(* checkout goes on to sync_order only when the order is not flagged.       *)
Init ==
  /\ origin \in Origins
  /\ order = origin
  /\ edition = 1
  /\ sync = [status |-> IF origin = "pending" THEN "pending" ELSE "waiting_review",
             attempts |-> 0, age |-> "fresh", body |-> NoRequest]
  /\ pc = [h \in Handlers |->
             IF h = Checkout /\ origin = "pending" THEN "order" ELSE "idle"]
  /\ seen = [h \in Handlers |-> "none"]
  /\ form = [h \in Handlers |-> NoRequest]
  /\ goal = [h \in Handlers |-> "none"]
  /\ received = 0
  /\ posted = {}
  /\ accepted = {}
  /\ doubtful = {}
  /\ overrun = FALSE
  /\ lost = 0

Goto(h, where) == pc' = [pc EXCEPT ![h] = where]

(* The handler answers its client and forgets what it read. *)
Finish(h) ==
  /\ Goto(h, "idle")
  /\ seen' = [seen EXCEPT ![h] = "none"]
  /\ form' = [form EXCEPT ![h] = NoRequest]
  /\ goal' = [goal EXCEPT ![h] = "none"]

Outside == <<received, posted, accepted, origin, doubtful, overrun, lost>>

----------------------------------------------------------------------------
(* sync_order, one awaited statement after the other *)

(* find_unique(order): the order row ... *)
ReadOrder(h) ==
  /\ pc[h] = "order"
  /\ seen' = [seen EXCEPT ![h] = order]
  /\ Goto(h, "sync")
  /\ UNCHANGED <<order, edition, sync, form, goal>>
  /\ UNCHANGED Outside

(* ... and its sync row: nothing to do after a success; an order that is    *)
(* not pending waits for review; otherwise try to claim.                    *)
ReadSync(h) ==
  /\ pc[h] = "sync"
  /\ \/ /\ sync.status = "success"
        /\ Finish(h)
     \/ /\ sync.status # "success"
        /\ Goto(h, IF seen[h] = "pending" THEN "claim" ELSE "review")
        /\ UNCHANGED <<seen, form, goal>>
  /\ UNCHANGED <<order, edition, sync>>
  /\ UNCHANGED Outside

(* The update to waiting_review names no expected status: it overwrites     *)
(* whatever the row holds by now, before or after a claim.                  *)
MarkWaitingReview(h) ==
  /\ pc[h] \in {"review", "release"}
  /\ sync' = [sync EXCEPT !.status = "waiting_review"]
  /\ Finish(h)
  /\ UNCHANGED <<order, edition>>
  /\ UNCHANGED Outside

(* update_many: the atomic claim of a free row or of an old claim *)
(* Faulty variants: a claim in progress is taken over at once, or never.    *)
ClaimableInProgress == sync.status # "success"
ClaimableIfFree == sync.status \in Editable
Claimable == sync.status \in Editable \/ (sync.status = "syncing" /\ sync.age = "old")

(* Faulty variant: the attempt is not counted. *)
ClaimUncounted(h) ==
  /\ pc[h] = "claim"
  /\ \/ /\ Claimable
        /\ sync' = [sync EXCEPT !.status = "syncing", !.age = "fresh"]
        /\ form' = [form EXCEPT ![h].no = sync.attempts]
        /\ Goto(h, "reload")
        /\ UNCHANGED <<seen, goal>>
     \/ ~Claimable /\ Finish(h) /\ UNCHANGED sync
  /\ UNCHANGED <<order, edition>>
  /\ UNCHANGED Outside

Claim(h) ==
  /\ pc[h] = "claim"
  /\ \/ /\ Claimable
        /\ sync' = [sync EXCEPT !.status = "syncing", !.age = "fresh",
                                !.attempts = @ + 1]
        /\ form' = [form EXCEPT ![h].no = sync.attempts + 1]
        /\ Goto(h, "reload")
        /\ UNCHANGED <<seen, goal>>
     \/ /\ ~Claimable
        /\ Finish(h)
        /\ UNCHANGED sync
  /\ UNCHANGED <<order, edition>>
  /\ UNCHANGED Outside

(* The reload after the claim: the order row (status, phone, place) ... *)
ReloadOrder(h) ==
  /\ pc[h] = "reload"
  /\ seen' = [seen EXCEPT ![h] = order]
  /\ form' = [form EXCEPT ![h].contact = edition]
  /\ Goto(h, "details")
  /\ UNCHANGED <<order, edition, sync, goal>>
  /\ UNCHANGED Outside

(* ... then the details row (name, address); the status is tested after.    *)
(* The payload is built from both and from the product's mappings, which no *)
(* step here changes; a missing mapping or last name is a payload error.    *)
ReloadDetails(h) ==
  /\ pc[h] = "details"
  /\ form' = [form EXCEPT ![h].details = edition]
  /\ \/ seen[h] # "pending" /\ Goto(h, "release")
     \/ seen[h] = "pending" /\ \E next \in {"save", "fail"} : Goto(h, next)
  /\ UNCHANGED <<order, edition, sync, seen, goal>>
  /\ UNCHANGED Outside

(* requestBody is stored; without an API key the attempt ends here. *)
SaveRequestBody(h) ==
  /\ pc[h] = "save"
  /\ sync' = [sync EXCEPT !.body = form[h]]
  /\ \E next \in {"send", "fail"} : Goto(h, next)
  /\ UNCHANGED <<order, edition, seen, form, goal>>
  /\ UNCHANGED Outside

Send(h) ==
  /\ pc[h] = "send"
  /\ posted' = posted \union {form[h]}
  /\ Goto(h, "await")
  /\ UNCHANGED <<order, edition, sync, seen, form, goal, received, accepted,
                 origin, doubtful, overrun, lost>>

(* External: the provider takes a request; it knows no idempotency key. *)
ProviderAccepts(m) ==
  /\ m \in posted \ accepted
  /\ accepted' = accepted \union {m}
  /\ UNCHANGED <<order, edition, sync, pc, seen, form, goal, received, posted,
                 origin, doubtful, overrun, lost>>

(* HTTP 200 comes back. *)
ReceiveOk(h) ==
  /\ pc[h] = "await"
  /\ form[h] \in accepted
  /\ Goto(h, "succeed")
  /\ UNCHANGED <<order, edition, sync, seen, form, goal>>
  /\ UNCHANGED Outside

(* Faulty variant: a refused request is sent again at once. *)
ReceiveRefusalResending(h) ==
  /\ pc[h] = "await"
  /\ form[h] \notin accepted
  /\ posted' = posted \ {form[h]}
  /\ Goto(h, "send")
  /\ UNCHANGED <<order, edition, sync, seen, form, goal, received, accepted,
                 origin, doubtful, overrun, lost>>

(* Another HTTP status, or no connection: the provider did not take it. *)
ReceiveRefusal(h) ==
  /\ pc[h] = "await"
  /\ form[h] \notin accepted
  /\ posted' = posted \ {form[h]}
  /\ Goto(h, "fail")
  /\ UNCHANGED <<order, edition, sync, seen, form, goal, received, accepted,
                 origin, doubtful, overrun, lost>>

(* A timeout or a connection lost under the answer: the provider may have   *)
(* taken the request, or may still take it.                                 *)
LoseReply(h) ==
  /\ "lostReply" \in Faults
  /\ pc[h] = "await"
  /\ doubtful' = doubtful \union {form[h].no}
  /\ Goto(h, "fail")
  /\ UNCHANGED <<order, edition, sync, seen, form, goal, received, posted,
                 accepted, origin, overrun, lost>>

(* Faulty variant: the success is answered, not stored. *)
RecordSuccessUnsaved(h) ==
  /\ pc[h] = "succeed"
  /\ Finish(h)
  /\ UNCHANGED <<order, edition, sync>>
  /\ UNCHANGED Outside

RecordSuccess(h) ==
  /\ pc[h] = "succeed"
  /\ sync' = [sync EXCEPT !.status = "success"]
  /\ Finish(h)
  /\ UNCHANGED <<order, edition>>
  /\ UNCHANGED Outside

(* Faulty variant: a status the row's enumeration does not have. *)
RecordFailureAsError(h) ==
  /\ pc[h] = "fail"
  /\ sync' = [sync EXCEPT !.status = "error"]
  /\ Finish(h)
  /\ UNCHANGED <<order, edition>>
  /\ UNCHANGED Outside

(* _fail: again an update that names no expected status *)
RecordFailure(h) ==
  /\ pc[h] = "fail"
  /\ sync' = [sync EXCEPT !.status = "failed"]
  /\ Finish(h)
  /\ UNCHANGED <<order, edition>>
  /\ UNCHANGED Outside

(* stale_before moves past the claim's lastAttemptAt.  The threshold exceeds *)
(* the HTTP timeout, so the claim's own worker is gone by then unless it is  *)
(* late (a stalled event loop or database, a reply that drips in).           *)
ClaimGetsOld ==
  LET alive == \E h \in Handlers : pc[h] \in Holding /\ form[h].no = sync.attempts
  IN /\ sync.status = "syncing" /\ sync.age = "fresh"
     /\ alive => "overrun" \in Faults /\ lost < MaxLost
     /\ sync' = [sync EXCEPT !.age = "old"]
     /\ overrun' = (overrun \/ alive)
     /\ lost' = IF alive THEN lost + 1 ELSE lost
     /\ UNCHANGED <<order, edition, pc, seen, form, goal, received, posted,
                    accepted, origin, doubtful>>

----------------------------------------------------------------------------
(* Administrator requests *)

Receive(h, where) ==
  /\ h \in Admins
  /\ pc[h] = "idle"
  /\ \/ received < MaxRequests /\ received' = received + 1
     \/ /\ Persistent /\ where = "order"
        /\ sync.status = "syncing" /\ sync.age = "old"
        /\ UNCHANGED received
  /\ Goto(h, where)
  /\ UNCHANGED <<order, edition, sync, seen, form, posted, accepted, origin,
                 doubtful, overrun, lost>>

(* POST /{order_id}/mastershop/retry *)
RetrySync(h) == Receive(h, "order") /\ UNCHANGED goal

(* POST /{order_id}/transition *)
RequestTransition(h) ==
  /\ Receive(h, "torder")
  /\ \E to \in Statuses : goal' = [goal EXCEPT ![h] = to]

(* PATCH /{order_id}/fulfillment *)
RequestEdit(h) == Receive(h, "eorder") /\ UNCHANGED goal

(* Faulty variant: only the target is validated, not the step to it. *)
CheckTransitionTarget(h) ==
  /\ pc[h] = "torder"
  /\ seen' = [seen EXCEPT ![h] = order]
  /\ Goto(h, "twrite")
  /\ UNCHANGED <<order, edition, sync, form, goal>>
  /\ UNCHANGED Outside

(* transition_order reads the status and validates against what it read ... *)
CheckTransition(h) ==
  /\ pc[h] = "torder"
  /\ \/ /\ <<order, goal[h]>> \in Legal
        /\ seen' = [seen EXCEPT ![h] = order]
        /\ Goto(h, "twrite")
        /\ UNCHANGED <<form, goal>>
     \/ /\ <<order, goal[h]>> \notin Legal
        /\ Finish(h)
  /\ UNCHANGED <<order, edition, sync>>
  /\ UNCHANGED Outside

(* ... then writes without a condition; an approved order is handed off.    *)
WriteTransition(h) ==
  /\ pc[h] = "twrite"
  /\ order' = goal[h]
  /\ \/ /\ seen[h] = "flagged_fraud" /\ goal[h] = "pending"
        /\ Goto(h, "order")
        /\ seen' = [seen EXCEPT ![h] = "none"]
        /\ goal' = [goal EXCEPT ![h] = "none"]
        /\ UNCHANGED form
     \/ /\ ~(seen[h] = "flagged_fraud" /\ goal[h] = "pending")
        /\ Finish(h)
  /\ UNCHANGED <<edition, sync>>
  /\ UNCHANGED Outside

(* update_order_fulfillment reads the order row ... *)
EditReadOrder(h) ==
  /\ pc[h] = "eorder"
  /\ seen' = [seen EXCEPT ![h] = order]
  /\ Goto(h, "esync")
  /\ UNCHANGED <<order, edition, sync, form, goal>>
  /\ UNCHANGED Outside

(* ... and the sync row, and refuses a synchronised or in-progress order;   *)
(* it refuses data that are not valid, too.                                 *)
EditReadSync(h) ==
  /\ pc[h] = "esync"
  /\ \/ Finish(h)
     \/ /\ sync.status \notin {"success", "syncing"}
        /\ Goto(h, "etx")
        /\ UNCHANGED <<seen, form, goal>>
  /\ UNCHANGED <<order, edition, sync>>
  /\ UNCHANGED Outside

(* The transaction: claim the row by its status, rewrite order and details, *)
(* reset the row to the status derived from the order status read before.   *)
CommitEdit(h) ==
  /\ pc[h] = "etx"
  /\ \/ /\ sync.status \in Editable
        /\ edition' = edition + 1
        /\ sync' = [sync EXCEPT
                      !.status = IF seen[h] = "pending" THEN "pending"
                                                       ELSE "waiting_review",
                      !.body = NoRequest]
     \/ /\ sync.status \notin Editable
        /\ UNCHANGED <<edition, sync>>
  /\ Finish(h)
  /\ UNCHANGED order
  /\ UNCHANGED Outside

(* The handler ends at an awaited statement: a database error, or the       *)
(* process stops (one such step per live handler).                          *)
Die(h) ==
  /\ "crash" \in Faults
  /\ lost < MaxLost
  /\ pc[h] # "idle"
  /\ doubtful' = IF pc[h] \in {"await", "succeed"}
                 THEN doubtful \union {form[h].no} ELSE doubtful
  /\ Finish(h)
  /\ lost' = lost + 1
  /\ UNCHANGED <<order, edition, sync, received, posted, accepted, origin,
                 overrun>>

----------------------------------------------------------------------------
SyncStep(h) ==
  \/ ReadOrder(h) \/ ReadSync(h) \/ MarkWaitingReview(h) \/ Claim(h)
  \/ ReloadOrder(h) \/ ReloadDetails(h) \/ SaveRequestBody(h)
  \/ Send(h) \/ ReceiveOk(h) \/ ReceiveRefusal(h)
  \/ LoseReply(h) \/ RecordSuccess(h) \/ RecordFailure(h)

AdminStep(h) ==
  \/ CheckTransition(h) \/ WriteTransition(h)
  \/ EditReadOrder(h) \/ EditReadSync(h) \/ CommitEdit(h)

NewRequest(h) == RetrySync(h) \/ RequestTransition(h) \/ RequestEdit(h)

Next ==
  \/ \E h \in Handlers : SyncStep(h) \/ AdminStep(h) \/ NewRequest(h) \/ Die(h)
  \/ \E m \in posted : ProviderAccepts(m)
  \/ ClaimGetsOld

Spec == Init /\ [][Next]_vars

(* The event loop runs every awaiting handler on; every provider call ends  *)
(* (httpx timeout); time passes; an administrator who keeps seeing a row in  *)
(* progress after its claim got old retries it.                              *)
HandlerStep(h) == SyncStep(h) \/ AdminStep(h)

FairSpec ==
  /\ Spec
  /\ \A h \in Handlers : WF_vars(HandlerStep(h))
  /\ WF_vars(ClaimGetsOld)
  /\ \A h \in Admins : SF_vars(/\ sync.status = "syncing" /\ sync.age = "old"
                               /\ RetrySync(h))

----------------------------------------------------------------------------
(* Properties *)

(* Every variable has its type. *)
TypeOK ==
  /\ order \in Statuses
  /\ edition \in Nat
  /\ sync \in SyncRows
  /\ pc \in [Handlers -> PCs]
  /\ seen \in [Handlers -> Statuses \union {"none"}]
  /\ form \in [Handlers -> Requests]
  /\ goal \in [Handlers -> Statuses \union {"none"}]
  /\ received \in Nat
  /\ posted \subseteq Requests
  /\ accepted \subseteq posted
  /\ origin \in {"pending", "flagged_fraud"}
  /\ doubtful \subseteq Nat
  /\ overrun \in BOOLEAN
  /\ lost \in Nat

(* While an order is still flagged as fraud nothing has been sent to the    *)
(* provider, however many retries ran (sync_order's two status tests).      *)
UnreviewedNeverSent == order = "flagged_fraud" => posted = {}

(* attemptCount never under-reports: every request sent has an attempt of   *)
(* its own, at most the count the row shows.                                *)
AttemptsCountSends ==
  /\ \A m \in posted : m.no \in 1 .. sync.attempts
  /\ \A m1, m2 \in posted : m1.no = m2.no => m1 = m2

(* An order that was never held for review and that no worker outlived:     *)
(* what the claim, the reload and the blind status updates guarantee then.  *)
Undisturbed == origin = "pending" /\ ~overrun

(* The provider takes a second request for such an order only if the answer *)
(* to every earlier one was lost before the backend could record it: with   *)
(* any number of concurrent retries, edits and transitions.                 *)
HandoffOnce ==
  Undisturbed =>
    \A m1, m2 \in accepted : m1.no < m2.no => m1.no \in doubtful

(* The claim is a lock: while such an order is pending at most one handler  *)
(* is between its claim and its result.                                     *)
ClaimIsExclusive ==
  Undisturbed /\ order = "pending" =>
    \A g, h \in Handlers : pc[g] \in Holding /\ pc[h] \in Holding => g = h

(* While such an order is pending and shown as synchronised, the provider   *)
(* holds exactly the delivery data an administrator sees, and requestBody   *)
(* is what was sent.                                                        *)
DeliveryDataAgrees ==
  Undisturbed /\ order = "pending" /\ sync.status = "success" =>
    /\ sync.body \in accepted
    /\ sync.body.contact = edition
    /\ sync.body.details = edition

(* With administrator requests one at a time the same holds for orders      *)
(* released from review, too.                                               *)
HandoffOnceAlways ==
  ~overrun => \A m1, m2 \in accepted : m1.no < m2.no => m1.no \in doubtful

(* With administrator requests one at a time the handlers together behave   *)
(* as the documented life of an order, hand-off included.                   *)
Lifecycle == INSTANCE OrderLifecycle
               WITH status <- order, attempts <- sync.attempts,
                    taken <- {m.no : m \in accepted}, unheard <- doubtful
ImplementsLifecycle == Lifecycle!Spec

(* "An order that already synced is not sent twice": once the success of a  *)
(* request was recorded, no other request leaves.                           *)
Recorded(m) ==
  /\ m \in accepted
  /\ m.no \notin doubtful
  /\ \A h \in Handlers : form[h].no = m.no => pc[h] \notin {"await", "succeed"}
SyncedNotSentTwice ==
  [][(\E m \in accepted : Recorded(m)) => posted' \subseteq posted]_vars

(* Every request is answered in the end. *)
RequestsAnswered == \A h \in Handlers : pc[h] # "idle" ~> pc[h] = "idle"

(* A claim whose worker died does not stay in progress for ever: as long as *)
(* administrators retry what they see in progress, it is taken over.        *)
ClaimsEnd == sync.status = "syncing" ~> sync.status # "syncing"
=============================================================================
