-------------------------- MODULE OrderSync_proofs --------------------------
(****************************************************************************)
(* Theorems about OrderSync for any number of administrators, requests and  *)
(* faults.                                                                  *)
(****************************************************************************)
EXTENDS OrderSync, TLAPS

(* What Finish and Goto do to the types of the handlers' local state.       *)
LEMMA NoRequestType == NoRequest \in Requests
  BY DEF NoRequest, Requests

LEMMA FinishType ==
  ASSUME TypeOK, NEW h \in Handlers, Finish(h)
  PROVE  /\ pc' \in [Handlers -> PCs]
         /\ seen' \in [Handlers -> Statuses \union {"none"}]
         /\ form' \in [Handlers -> Requests]
         /\ goal' \in [Handlers -> Statuses \union {"none"}]
  BY NoRequestType DEF TypeOK, Finish, Goto, PCs

(* A transition is written as it was validated.                             *)
WriteIsLegal ==
  \A h \in Handlers : pc[h] = "twrite" => <<seen[h], goal[h]>> \in Legal

LEMMA WriteIsLegalStep == TypeOK /\ WriteIsLegal /\ [Next]_vars => WriteIsLegal'
<1> SUFFICES ASSUME TypeOK, WriteIsLegal, [Next]_vars PROVE WriteIsLegal'
  OBVIOUS
<1> USE DEF TypeOK, WriteIsLegal, Goto, Finish, Outside
<1>1. ASSUME NEW h \in Handlers, SyncStep(h) PROVE WriteIsLegal'
  BY <1>1 DEF SyncStep, ReadOrder, ReadSync, MarkWaitingReview, Claim,
              ReloadOrder, ReloadDetails, SaveRequestBody, Send, ReceiveOk,
              ReceiveRefusal, LoseReply, RecordSuccess, RecordFailure
<1>2. ASSUME NEW h \in Handlers, AdminStep(h) PROVE WriteIsLegal'
  BY <1>2 DEF AdminStep, CheckTransition, WriteTransition, EditReadOrder,
              EditReadSync, CommitEdit
<1>3. ASSUME NEW h \in Handlers, NewRequest(h) PROVE WriteIsLegal'
  BY <1>3 DEF NewRequest, RetrySync, RequestTransition, RequestEdit, Receive
<1>4. ASSUME NEW h \in Handlers, Die(h) PROVE WriteIsLegal'
  BY <1>4 DEF Die
<1>5. ASSUME NEW m \in posted, ProviderAccepts(m) PROVE WriteIsLegal'
  BY <1>5 DEF ProviderAccepts
<1>6. CASE ClaimGetsOld
  BY <1>6 DEF ClaimGetsOld
<1>7. CASE UNCHANGED vars
  BY <1>7 DEF vars
<1> QED
  BY <1>1, <1>2, <1>3, <1>4, <1>5, <1>6, <1>7 DEF Next

(* Types, with the strengthening they need.                                 *)
LEMMA TypesAndWrites == Spec => [](TypeOK /\ WriteIsLegal)
<1> USE SyncAssumption DEF SyncAssumption
<1>1. Init => TypeOK
  <2> SUFFICES ASSUME Init PROVE TypeOK
    OBVIOUS
  <2>1. sync \in SyncRows
    BY NoRequestType DEF Init, SyncRows, SyncStatuses
  <2>2. pc \in [Handlers -> PCs]
    BY DEF Init, PCs
  <2>3. form \in [Handlers -> Requests]
    BY NoRequestType DEF Init
  <2> QED
    BY <2>1, <2>2, <2>3 DEF Init, TypeOK, Statuses
<1>2. TypeOK /\ WriteIsLegal /\ [Next]_vars => TypeOK'
  <2> SUFFICES ASSUME TypeOK, WriteIsLegal, [Next]_vars PROVE TypeOK'
    OBVIOUS
  <2> USE DEF TypeOK, Goto, Outside, Statuses, SyncRows, SyncStatuses, PCs,
              Holding
  <2>1. ASSUME NEW h \in Handlers, ReadOrder(h) PROVE TypeOK'
    BY <2>1 DEF ReadOrder
  <2>2. ASSUME NEW h \in Handlers, ReadSync(h) PROVE TypeOK'
    BY <2>2, FinishType DEF ReadSync
  <2>3. ASSUME NEW h \in Handlers, MarkWaitingReview(h) PROVE TypeOK'
    BY <2>3, FinishType DEF MarkWaitingReview
  <2>4. ASSUME NEW h \in Handlers, Claim(h) PROVE TypeOK'
    <3>1. CASE Claimable
      <4>0. /\ sync.attempts + 1 \in Nat
            /\ sync.body \in Requests
        OBVIOUS
      <4>1. sync' \in SyncRows
        BY <2>4, <3>1, <4>0 DEF Claim
      <4>2. pc' \in [Handlers -> PCs]
        BY <2>4, <3>1 DEF Claim
      <4>3. form' \in [Handlers -> Requests]
        <5>1. form' = [form EXCEPT ![h] = [form[h] EXCEPT !.no = sync.attempts + 1]]
          BY <2>4, <3>1 DEF Claim
        <5>2. [form[h] EXCEPT !.no = sync.attempts + 1] \in Requests
          BY <4>0 DEF Requests
        <5> QED
          BY <5>1, <5>2
      <4> QED
        BY <2>4, <3>1, <4>1, <4>2, <4>3 DEF Claim
    <3>2. CASE ~Claimable
      BY <2>4, <3>2, FinishType DEF Claim
    <3> QED
      BY <3>1, <3>2
  <2>5. ASSUME NEW h \in Handlers, ReloadOrder(h) PROVE TypeOK'
    BY <2>5 DEF ReloadOrder, Requests
  <2>6. ASSUME NEW h \in Handlers, ReloadDetails(h) PROVE TypeOK'
    <3>1. form' \in [Handlers -> Requests]
      BY <2>6 DEF ReloadDetails, Requests
    <3>2. pc' \in [Handlers -> PCs]
      BY <2>6 DEF ReloadDetails
    <3> QED
      BY <2>6, <3>1, <3>2 DEF ReloadDetails
  <2>7. ASSUME NEW h \in Handlers, SaveRequestBody(h) PROVE TypeOK'
    BY <2>7 DEF SaveRequestBody
  <2>8. ASSUME NEW h \in Handlers, Send(h) PROVE TypeOK'
    BY <2>8 DEF Send
  <2>9. ASSUME NEW m \in posted, ProviderAccepts(m) PROVE TypeOK'
    BY <2>9 DEF ProviderAccepts
  <2>10. ASSUME NEW h \in Handlers, ReceiveOk(h) PROVE TypeOK'
    BY <2>10 DEF ReceiveOk
  <2>11. ASSUME NEW h \in Handlers, ReceiveRefusal(h) PROVE TypeOK'
    BY <2>11 DEF ReceiveRefusal
  <2>12. ASSUME NEW h \in Handlers, LoseReply(h) PROVE TypeOK'
    BY <2>12 DEF LoseReply, Requests
  <2>13. ASSUME NEW h \in Handlers, RecordSuccess(h) PROVE TypeOK'
    BY <2>13, FinishType DEF RecordSuccess
  <2>14. ASSUME NEW h \in Handlers, RecordFailure(h) PROVE TypeOK'
    BY <2>14, FinishType DEF RecordFailure
  <2>15. CASE ClaimGetsOld
    BY <2>15 DEF ClaimGetsOld
  <2>16. ASSUME NEW h \in Handlers, NewRequest(h) PROVE TypeOK'
    <3>1. /\ received' \in Nat
          /\ pc' \in [Handlers -> PCs]
          /\ UNCHANGED <<order, edition, sync, seen, form, posted, accepted,
                         origin, doubtful, overrun, lost>>
      BY <2>16 DEF NewRequest, RetrySync, RequestTransition, RequestEdit, Receive
    <3>2. goal' \in [Handlers -> Statuses \union {"none"}]
      BY <2>16 DEF NewRequest, RetrySync, RequestTransition, RequestEdit
    <3> QED
      BY <3>1, <3>2
  <2>17. ASSUME NEW h \in Handlers, CheckTransition(h) PROVE TypeOK'
    BY <2>17, FinishType DEF CheckTransition
  <2>18. ASSUME NEW h \in Handlers, WriteTransition(h) PROVE TypeOK'
    <3>1. order' \in Statuses
      BY <2>18 DEF WriteTransition, WriteIsLegal, Legal
    <3>2. /\ pc' \in [Handlers -> PCs]
          /\ seen' \in [Handlers -> Statuses \union {"none"}]
          /\ form' \in [Handlers -> Requests]
          /\ goal' \in [Handlers -> Statuses \union {"none"}]
      BY <2>18, FinishType DEF WriteTransition
    <3> QED
      BY <2>18, <3>1, <3>2 DEF WriteTransition
  <2>19. ASSUME NEW h \in Handlers, EditReadOrder(h) PROVE TypeOK'
    BY <2>19 DEF EditReadOrder
  <2>20. ASSUME NEW h \in Handlers, EditReadSync(h) PROVE TypeOK'
    BY <2>20, FinishType DEF EditReadSync
  <2>21. ASSUME NEW h \in Handlers, CommitEdit(h) PROVE TypeOK'
    <3>1. edition' \in Nat /\ sync' \in SyncRows
      <4>1. CASE sync.status \in Editable
        <5>1. sync' = [status |-> IF seen[h] = "pending" THEN "pending"
                                                        ELSE "waiting_review",
                       attempts |-> sync.attempts, age |-> sync.age,
                       body |-> NoRequest]
          BY <2>21, <4>1 DEF CommitEdit
        <5> QED
          BY <2>21, <4>1, <5>1, NoRequestType DEF CommitEdit
      <4>2. CASE sync.status \notin Editable
        BY <2>21, <4>2 DEF CommitEdit
      <4> QED
        BY <4>1, <4>2
    <3> QED
      BY <2>21, <3>1, FinishType DEF CommitEdit
  <2>22. ASSUME NEW h \in Handlers, Die(h) PROVE TypeOK'
    <3>1. doubtful' \subseteq Nat
      BY <2>22 DEF Die, Requests
    <3> QED
      BY <2>22, <3>1, FinishType DEF Die
  <2>23. CASE UNCHANGED vars
    BY <2>23 DEF vars
  <2> QED
    BY <2>1, <2>2, <2>3, <2>4, <2>5, <2>6, <2>7, <2>8, <2>9, <2>10, <2>11,
       <2>12, <2>13, <2>14, <2>15, <2>16, <2>17, <2>18, <2>19, <2>20, <2>21,
       <2>22, <2>23 DEF Next, SyncStep, AdminStep
<1>3. Init => WriteIsLegal
  BY DEF Init, WriteIsLegal
<1> QED
  BY <1>1, <1>2, <1>3, WriteIsLegalStep, PTL DEF Spec

----------------------------------------------------------------------------
(* The inductive invariant, in named parts *)

(* Claims are numbered: a holder has a number of its own, every request     *)
(* sent carries the number of its claim, and a worker sends once per claim. *)
Numbering ==
  /\ \A h \in Handlers : pc[h] \in Holding => form[h].no \in 1 .. sync.attempts
  /\ \A g, h \in Handlers :
       pc[g] \in Holding /\ pc[h] \in Holding /\ form[g].no = form[h].no => g = h
  /\ \A m \in posted : m.no \in 1 .. sync.attempts
  /\ \A m1, m2 \in posted : m1.no = m2.no => m1 = m2
  /\ \A h \in Handlers, m \in posted :
       pc[h] \in Holding /\ m.no = form[h].no =>
         pc[h] \in {"await", "succeed", "fail"} /\ m = form[h]

(* What a handler read, against what the order is now: no handler goes on   *)
(* to send unless it read "pending"; nobody has read more than the flag     *)
(* while the order is flagged; an order born pending never returns to       *)
(* pending, so whoever read another status knows it has left.               *)
Reading ==
  /\ \A h \in Handlers :
       /\ pc[h] \in {"save", "send", "await", "succeed", "fail"} =>
            seen[h] = "pending"
       /\ pc[h] \in {"review", "release"} => seen[h] \notin {"pending", "none"}
       /\ pc[h] \in {"sync", "details"} => seen[h] # "none"
  /\ order = "flagged_fraud" =>
       posted = {} /\ \A h \in Handlers : seen[h] \in {"flagged_fraud", "none"}
  /\ origin = "pending" =>
       /\ order # "flagged_fraud"
       /\ \A h \in Handlers : /\ seen[h] # "flagged_fraud"
                              /\ seen[h] \notin {"pending", "none"} => order # "pending"

(* The claim protects a pending order: its holder's claim is the latest and *)
(* nothing but the holder can end it.                                       *)
Locked ==
  Undisturbed /\ order = "pending" =>
    \A h \in Handlers : pc[h] \in Holding =>
      /\ sync.status = "syncing"
      /\ sync.age = "fresh"
      /\ form[h].no = sync.attempts

(* A handler that will send, or has sent, on the strength of a reload that  *)
(* found the order pending.                                                 *)
Sender(h) == /\ pc[h] \in {"details", "save", "send", "await", "succeed", "fail"}
             /\ seen[h] = "pending"

(* There is one sender at most, and all other requests are accounted for.   *)
OneSender ==
  Undisturbed =>
    /\ \A g, h \in Handlers : Sender(g) /\ Sender(h) => g = h
    /\ order = "pending" =>
         \A m \in posted :
           \/ m.no \in doubtful
           \/ sync.status = "success"
           \/ \E h \in Handlers : pc[h] \in {"await", "succeed"} /\ form[h] = m
    /\ \A h \in Handlers, m \in posted :
         Sender(h) => /\ m.no <= form[h].no
                      /\ m.no # form[h].no => m.no \in doubtful
    /\ \A m1, m2 \in posted : m1.no < m2.no => m1.no \in doubtful

(* While the order is pending nobody edits under a sender.                  *)
Delivered ==
  Undisturbed /\ order = "pending" =>
    /\ \A h \in Handlers :
         /\ pc[h] \in {"details", "save", "send", "await", "succeed", "fail"} =>
              form[h].contact = edition
         /\ pc[h] \in {"save", "send", "await", "succeed", "fail"} =>
              form[h].details = edition
         /\ pc[h] \in {"send", "await", "succeed"} => sync.body = form[h]
         /\ pc[h] = "succeed" => form[h] \in accepted
    /\ sync.status = "success" =>
         /\ sync.body \in accepted
         /\ sync.body.contact = edition
         /\ sync.body.details = edition

IInv == /\ TypeOK /\ WriteIsLegal /\ Numbering /\ Reading
        /\ Locked /\ OneSender /\ Delivered

(* What a claim that is won changes.                                         *)
LEMMA ClaimWon ==
  ASSUME TypeOK, NEW h \in Handlers, Claim(h), Claimable
  PROVE  /\ sync'.status = "syncing" /\ sync'.age = "fresh"
         /\ sync'.attempts = sync.attempts + 1
         /\ pc' = [pc EXCEPT ![h] = "reload"]
         /\ form'[h].no = sync.attempts + 1
         /\ \A g \in Handlers \ {h} : form'[g] = form[g]
         /\ UNCHANGED <<order, edition, seen, goal>>
         /\ UNCHANGED Outside
<1>1. sync' = [sync EXCEPT !.status = "syncing", !.age = "fresh",
                           !.attempts = @ + 1]
  BY DEF Claim
<1>2. /\ sync'.status = "syncing" /\ sync'.age = "fresh"
      /\ sync'.attempts = sync.attempts + 1
  BY <1>1 DEF TypeOK, SyncRows
<1>3. form' = [form EXCEPT ![h] = [form[h] EXCEPT !.no = sync.attempts + 1]]
  BY DEF Claim
<1>4. form'[h] = [form[h] EXCEPT !.no = sync.attempts + 1]
  BY <1>3 DEF TypeOK
<1>5. form'[h].no = sync.attempts + 1
  BY <1>4 DEF TypeOK, Requests
<1>6. \A g \in Handlers \ {h} : form'[g] = form[g]
  BY <1>3 DEF TypeOK
<1> QED
  BY <1>2, <1>5, <1>6 DEF Claim, Goto

(* A handler that finishes takes its claim with it.                         *)
LEMMA FinishNumbering ==
  ASSUME TypeOK, Numbering, NEW h \in Handlers, Finish(h),
         posted' = posted, sync'.attempts = sync.attempts
  PROVE  Numbering'
  BY DEF TypeOK, Numbering, Finish, Goto, Holding, NoRequest

LEMMA NumberingStep ==
  ASSUME TypeOK, Numbering, [Next]_vars
  PROVE  Numbering'
<1> USE DEF TypeOK, Numbering, Goto, Finish, Outside, Requests, NoRequest, SyncRows, Holding
<1>1. ASSUME NEW h \in Handlers, ReadOrder(h) PROVE Numbering'
  BY <1>1 DEF ReadOrder
<1>2. ASSUME NEW h \in Handlers, ReadSync(h) PROVE Numbering'
  <2>1. CASE Finish(h)
    BY <1>2, <2>1, FinishNumbering DEF ReadSync
  <2>2. CASE ~Finish(h)
    <3>1. /\ pc[h] \notin Holding /\ pc'[h] \notin Holding
          /\ \A g \in Handlers \ {h} : pc'[g] = pc[g]
          /\ UNCHANGED <<form, posted, sync>>
      BY <1>2, <2>2 DEF ReadSync
    <3> QED
      BY SMTT(30), <3>1
  <2> QED
    BY <2>1, <2>2
<1>3. ASSUME NEW h \in Handlers, MarkWaitingReview(h) PROVE Numbering'
  BY <1>3 DEF MarkWaitingReview
<1>4. ASSUME NEW h \in Handlers, Claim(h) PROVE Numbering'
  <2>1. CASE Claimable
    <3>1. /\ sync'.attempts = sync.attempts + 1 /\ posted' = posted
          /\ form'[h].no = sync.attempts + 1 /\ pc'[h] = "reload"
          /\ \A g \in Handlers \ {h} : pc'[g] = pc[g] /\ form'[g] = form[g]
      BY <1>4, <2>1, ClaimWon
    <3>2. sync.attempts \in Nat
      OBVIOUS
    <3>3. \A g \in Handlers : pc'[g] \in Holding =>
            form'[g].no \in 1 .. sync'.attempts
      BY <3>1, <3>2
    <3>4. \A g, k \in Handlers :
            pc'[g] \in Holding /\ pc'[k] \in Holding /\ form'[g].no = form'[k].no
              => g = k
      BY <3>1, <3>2
    <3>5. \A m \in posted' : m.no \in 1 .. sync'.attempts
      BY <3>1, <3>2
    <3>6. \A g \in Handlers, m \in posted' :
            pc'[g] \in Holding /\ m.no = form'[g].no =>
              pc'[g] \in {"await", "succeed", "fail"} /\ m = form'[g]
      BY <3>1, <3>2
    <3> QED
      BY <3>1, <3>3, <3>4, <3>5, <3>6
  <2>2. CASE ~Claimable
    BY <1>4, <2>2, FinishNumbering DEF Claim
  <2> QED
    BY <2>1, <2>2
<1>5. ASSUME NEW h \in Handlers, ReloadOrder(h) PROVE Numbering'
  BY <1>5 DEF ReloadOrder
<1>6. ASSUME NEW h \in Handlers, ReloadDetails(h) PROVE Numbering'
  BY <1>6 DEF ReloadDetails
<1>7. ASSUME NEW h \in Handlers, SaveRequestBody(h) PROVE Numbering'
  BY <1>7 DEF SaveRequestBody
<1>8. ASSUME NEW h \in Handlers, Send(h) PROVE Numbering'
  BY <1>8 DEF Send
<1>9. ASSUME NEW h \in Handlers, ReceiveOk(h) PROVE Numbering'
  BY <1>9 DEF ReceiveOk
<1>10. ASSUME NEW h \in Handlers, ReceiveRefusal(h) PROVE Numbering'
  BY <1>10 DEF ReceiveRefusal
<1>11. ASSUME NEW h \in Handlers, LoseReply(h) PROVE Numbering'
  BY <1>11 DEF LoseReply
<1>12. ASSUME NEW h \in Handlers, RecordSuccess(h) PROVE Numbering'
  BY <1>12 DEF RecordSuccess
<1>13. ASSUME NEW h \in Handlers, RecordFailure(h) PROVE Numbering'
  BY <1>13 DEF RecordFailure
<1>14. ASSUME NEW h \in Handlers, CheckTransition(h) PROVE Numbering'
  <2>1. CASE Finish(h)
    BY <1>14, <2>1, FinishNumbering DEF CheckTransition
  <2>2. CASE ~Finish(h)
    <3>1. /\ pc[h] \notin Holding /\ pc'[h] \notin Holding
          /\ \A g \in Handlers \ {h} : pc'[g] = pc[g]
          /\ UNCHANGED <<form, posted, sync>>
      BY <1>14, <2>2 DEF CheckTransition
    <3> QED
      BY SMTT(30), <3>1
  <2> QED
    BY <2>1, <2>2
<1>15. ASSUME NEW h \in Handlers, WriteTransition(h) PROVE Numbering'
  <2>1. CASE Finish(h)
    BY <1>15, <2>1, FinishNumbering DEF WriteTransition
  <2>2. CASE ~Finish(h)
    <3>1. /\ pc[h] \notin Holding /\ pc'[h] \notin Holding
          /\ \A g \in Handlers \ {h} : pc'[g] = pc[g]
          /\ UNCHANGED <<form, posted, sync>>
      BY <1>15, <2>2 DEF WriteTransition
    <3> QED
      BY SMTT(30), <3>1
  <2> QED
    BY <2>1, <2>2
<1>16. ASSUME NEW h \in Handlers, EditReadOrder(h) PROVE Numbering'
  BY <1>16 DEF EditReadOrder
<1>17. ASSUME NEW h \in Handlers, EditReadSync(h) PROVE Numbering'
  <2>1. CASE Finish(h)
    BY <1>17, <2>1, FinishNumbering DEF EditReadSync
  <2>2. CASE ~Finish(h)
    <3>1. /\ pc[h] \notin Holding /\ pc'[h] \notin Holding
          /\ \A g \in Handlers \ {h} : pc'[g] = pc[g]
          /\ UNCHANGED <<form, posted, sync>>
      BY <1>17, <2>2 DEF EditReadSync
    <3> QED
      BY SMTT(30), <3>1
  <2> QED
    BY <2>1, <2>2
<1>18. ASSUME NEW h \in Handlers, CommitEdit(h) PROVE Numbering'
  <2>1. sync'.attempts = sync.attempts
    BY <1>18 DEF CommitEdit
  <2> QED
    BY <1>18, <2>1, FinishNumbering DEF CommitEdit
<1>19. ASSUME NEW h \in Handlers, Die(h) PROVE Numbering'
  BY <1>19 DEF Die
<1>20. ASSUME NEW h \in Handlers, NewRequest(h) PROVE Numbering'
  BY <1>20 DEF NewRequest, RetrySync, RequestTransition, RequestEdit, Receive
<1>21. ASSUME NEW m \in posted, ProviderAccepts(m) PROVE Numbering'
  BY <1>21 DEF ProviderAccepts
<1>22. CASE ClaimGetsOld
  BY <1>22 DEF ClaimGetsOld
<1>23. CASE UNCHANGED vars
  BY <1>23 DEF vars
<1> QED
  BY <1>1, <1>2, <1>3, <1>4, <1>5, <1>6, <1>7, <1>8, <1>9, <1>10, <1>11,
     <1>12, <1>13, <1>14, <1>15, <1>16, <1>17, <1>18, <1>19, <1>20, <1>21,
     <1>22, <1>23 DEF Next, SyncStep, AdminStep

LEMMA ReadingStep ==
  ASSUME TypeOK, WriteIsLegal, Reading, [Next]_vars
  PROVE  Reading'
<1> USE DEF TypeOK, WriteIsLegal, Reading, Goto, Finish, Outside, Legal, Statuses
<1>1. ASSUME NEW h \in Handlers, ReadOrder(h) PROVE Reading'
  BY <1>1 DEF ReadOrder
<1>2. ASSUME NEW h \in Handlers, ReadSync(h) PROVE Reading'
  BY <1>2 DEF ReadSync
<1>3. ASSUME NEW h \in Handlers, MarkWaitingReview(h) PROVE Reading'
  BY <1>3 DEF MarkWaitingReview
<1>4. ASSUME NEW h \in Handlers, Claim(h) PROVE Reading'
  BY <1>4 DEF Claim
<1>5. ASSUME NEW h \in Handlers, ReloadOrder(h) PROVE Reading'
  BY <1>5 DEF ReloadOrder
<1>6. ASSUME NEW h \in Handlers, ReloadDetails(h) PROVE Reading'
  BY <1>6 DEF ReloadDetails
<1>7. ASSUME NEW h \in Handlers, SaveRequestBody(h) PROVE Reading'
  BY <1>7 DEF SaveRequestBody
<1>8. ASSUME NEW h \in Handlers, Send(h) PROVE Reading'
  BY <1>8 DEF Send
<1>9. ASSUME NEW h \in Handlers, ReceiveOk(h) PROVE Reading'
  BY <1>9 DEF ReceiveOk
<1>10. ASSUME NEW h \in Handlers, ReceiveRefusal(h) PROVE Reading'
  BY <1>10 DEF ReceiveRefusal
<1>11. ASSUME NEW h \in Handlers, LoseReply(h) PROVE Reading'
  BY <1>11 DEF LoseReply
<1>12. ASSUME NEW h \in Handlers, RecordSuccess(h) PROVE Reading'
  BY <1>12 DEF RecordSuccess
<1>13. ASSUME NEW h \in Handlers, RecordFailure(h) PROVE Reading'
  BY <1>13 DEF RecordFailure
<1>14. ASSUME NEW h \in Handlers, CheckTransition(h) PROVE Reading'
  BY <1>14 DEF CheckTransition
<1>15. ASSUME NEW h \in Handlers, WriteTransition(h) PROVE Reading'
  BY <1>15 DEF WriteTransition
<1>16. ASSUME NEW h \in Handlers, EditReadOrder(h) PROVE Reading'
  BY <1>16 DEF EditReadOrder
<1>17. ASSUME NEW h \in Handlers, EditReadSync(h) PROVE Reading'
  BY <1>17 DEF EditReadSync
<1>18. ASSUME NEW h \in Handlers, CommitEdit(h) PROVE Reading'
  BY <1>18 DEF CommitEdit
<1>19. ASSUME NEW h \in Handlers, Die(h) PROVE Reading'
  BY <1>19 DEF Die
<1>20. ASSUME NEW h \in Handlers, NewRequest(h) PROVE Reading'
  BY <1>20 DEF NewRequest, RetrySync, RequestTransition, RequestEdit, Receive
<1>21. ASSUME NEW m \in posted, ProviderAccepts(m) PROVE Reading'
  BY <1>21 DEF ProviderAccepts
<1>22. CASE ClaimGetsOld
  BY <1>22 DEF ClaimGetsOld
<1>23. CASE UNCHANGED vars
  BY <1>23 DEF vars
<1> QED
  BY <1>1, <1>2, <1>3, <1>4, <1>5, <1>6, <1>7, <1>8, <1>9, <1>10, <1>11,
     <1>12, <1>13, <1>14, <1>15, <1>16, <1>17, <1>18, <1>19, <1>20, <1>21,
     <1>22, <1>23 DEF Next, SyncStep, AdminStep

LEMMA LockedStep ==
  ASSUME TypeOK, WriteIsLegal, Numbering, Reading, Locked, [Next]_vars
  PROVE  Locked'
<1> USE DEF TypeOK, Numbering, Reading, Locked, Undisturbed, WriteIsLegal, Legal, Goto, Finish, Outside, Holding, SyncRows
<1>1. ASSUME NEW h \in Handlers, ReadOrder(h) PROVE Locked'
  BY <1>1 DEF ReadOrder
<1>2. ASSUME NEW h \in Handlers, ReadSync(h) PROVE Locked'
  BY <1>2 DEF ReadSync
<1>3. ASSUME NEW h \in Handlers, MarkWaitingReview(h) PROVE Locked'
  BY <1>3 DEF MarkWaitingReview
<1>4. ASSUME NEW h \in Handlers, Claim(h) PROVE Locked'
  <2>1. CASE Claimable
    <3>1. /\ sync'.status = "syncing" /\ sync'.age = "fresh"
          /\ sync'.attempts = sync.attempts + 1
          /\ form'[h].no = sync.attempts + 1
          /\ \A g \in Handlers \ {h} : pc'[g] = pc[g]
          /\ UNCHANGED <<order, origin, overrun>>
      BY <1>4, <2>1, ClaimWon
    <3>2. Undisturbed /\ order = "pending" =>
            \A g \in Handlers : pc[g] \notin Holding
      BY <2>1 DEF Claimable, Editable
    <3> QED
      BY <3>1, <3>2
  <2>2. CASE ~Claimable
    BY <1>4, <2>2 DEF Claim
  <2> QED
    BY <2>1, <2>2
<1>5. ASSUME NEW h \in Handlers, ReloadOrder(h) PROVE Locked'
  BY <1>5 DEF ReloadOrder
<1>6. ASSUME NEW h \in Handlers, ReloadDetails(h) PROVE Locked'
  BY <1>6 DEF ReloadDetails
<1>7. ASSUME NEW h \in Handlers, SaveRequestBody(h) PROVE Locked'
  BY <1>7 DEF SaveRequestBody
<1>8. ASSUME NEW h \in Handlers, Send(h) PROVE Locked'
  BY <1>8 DEF Send
<1>9. ASSUME NEW h \in Handlers, ReceiveOk(h) PROVE Locked'
  BY <1>9 DEF ReceiveOk
<1>10. ASSUME NEW h \in Handlers, ReceiveRefusal(h) PROVE Locked'
  BY <1>10 DEF ReceiveRefusal
<1>11. ASSUME NEW h \in Handlers, LoseReply(h) PROVE Locked'
  BY <1>11 DEF LoseReply
<1>12. ASSUME NEW h \in Handlers, RecordSuccess(h) PROVE Locked'
  BY <1>12 DEF RecordSuccess
<1>13. ASSUME NEW h \in Handlers, RecordFailure(h) PROVE Locked'
  BY <1>13 DEF RecordFailure
<1>14. ASSUME NEW h \in Handlers, CheckTransition(h) PROVE Locked'
  BY <1>14 DEF CheckTransition
<1>15. ASSUME NEW h \in Handlers, WriteTransition(h) PROVE Locked'
  BY <1>15 DEF WriteTransition
<1>16. ASSUME NEW h \in Handlers, EditReadOrder(h) PROVE Locked'
  BY <1>16 DEF EditReadOrder
<1>17. ASSUME NEW h \in Handlers, EditReadSync(h) PROVE Locked'
  BY <1>17 DEF EditReadSync
<1>18. ASSUME NEW h \in Handlers, CommitEdit(h) PROVE Locked'
  <2>1. CASE sync.status \in Editable
    <3>1. Undisturbed /\ order = "pending" =>
            \A g \in Handlers : pc[g] \notin Holding
      BY <2>1 DEF Editable
    <3>2. /\ \A g \in Handlers : pc'[g] \in Holding => pc[g] \in Holding
          /\ UNCHANGED <<order, origin, overrun>>
      BY <1>18 DEF CommitEdit
    <3> QED
      BY <3>1, <3>2
  <2>2. CASE sync.status \notin Editable
    BY <1>18, <2>2 DEF CommitEdit
  <2> QED
    BY <2>1, <2>2
<1>19. ASSUME NEW h \in Handlers, Die(h) PROVE Locked'
  BY <1>19 DEF Die
<1>20. ASSUME NEW h \in Handlers, NewRequest(h) PROVE Locked'
  BY <1>20 DEF NewRequest, RetrySync, RequestTransition, RequestEdit, Receive
<1>21. ASSUME NEW m \in posted, ProviderAccepts(m) PROVE Locked'
  BY <1>21 DEF ProviderAccepts
<1>22. CASE ClaimGetsOld
  BY <1>22 DEF ClaimGetsOld
<1>23. CASE UNCHANGED vars
  BY <1>23 DEF vars
<1> QED
  BY <1>1, <1>2, <1>3, <1>4, <1>5, <1>6, <1>7, <1>8, <1>9, <1>10, <1>11,
     <1>12, <1>13, <1>14, <1>15, <1>16, <1>17, <1>18, <1>19, <1>20, <1>21,
     <1>22, <1>23 DEF Next, SyncStep, AdminStep

(* A step that makes no new sender, sends nothing, settles nothing and does *)
(* not take a success back.                                                 *)
LEMMA OneSenderKept ==
  ASSUME OneSender,
         Undisturbed' => Undisturbed,
         Undisturbed' /\ order' = "pending" => order = "pending",
         posted' = posted, doubtful' = doubtful,
         \A g \in Handlers : Sender(g)' => Sender(g) /\ form'[g] = form[g],
         Undisturbed' /\ order' = "pending" /\ sync.status = "success" =>
           sync'.status = "success",
         \A g \in Handlers : pc[g] \in {"await", "succeed"} =>
           pc'[g] = pc[g] /\ form'[g] = form[g]
  PROVE  OneSender'
<1>1. \A m \in posted : \A g \in Handlers :
        pc[g] \in {"await", "succeed"} /\ form[g] = m =>
          pc'[g] \in {"await", "succeed"} /\ form'[g] = m
  OBVIOUS
<1> QED
  BY <1>1 DEF OneSender

LEMMA OneSenderStep ==
  ASSUME TypeOK, WriteIsLegal, Numbering, Reading, Locked, OneSender, [Next]_vars
  PROVE  OneSender'
<1> USE DEF TypeOK, WriteIsLegal, Numbering, Reading, Locked, OneSender, Undisturbed,
            Sender, Legal, Goto, Finish, Outside, Holding, SyncRows, Requests
<1>1. ASSUME NEW h \in Handlers, ReadOrder(h) PROVE OneSender'
  BY <1>1 DEF ReadOrder
<1>2. ASSUME NEW h \in Handlers, ReadSync(h) PROVE OneSender'
  BY SMTT(30), <1>2 DEF ReadSync
<1>3. ASSUME NEW h \in Handlers, MarkWaitingReview(h) PROVE OneSender'
  BY <1>3 DEF MarkWaitingReview
<1>4. ASSUME NEW h \in Handlers, Claim(h) PROVE OneSender'
  <2>1. CASE Claimable
    <3>1. sync.status # "success"
      BY <2>1 DEF Claimable, Editable
    <3>2. \A g \in Handlers : Sender(g)' => Sender(g) /\ form'[g] = form[g]
      BY <1>4, <2>1, ClaimWon
    <3>3. \A g \in Handlers : pc[g] \in {"await", "succeed"} =>
            pc'[g] = pc[g] /\ form'[g] = form[g]
      BY <1>4, <2>1, ClaimWon DEF Claim
    <3> QED
      BY <1>4, <2>1, <3>1, <3>2, <3>3, ClaimWon, OneSenderKept
  <2>2. CASE ~Claimable
    BY <1>4, <2>2, OneSenderKept DEF Claim
  <2> QED
    BY <2>1, <2>2
<1>5. ASSUME NEW h \in Handlers, ReloadOrder(h) PROVE OneSender'
  BY <1>5 DEF ReloadOrder
<1>6. ASSUME NEW h \in Handlers, ReloadDetails(h) PROVE OneSender'
  BY <1>6 DEF ReloadDetails
<1>7. ASSUME NEW h \in Handlers, SaveRequestBody(h) PROVE OneSender'
  BY <1>7 DEF SaveRequestBody
<1>8. ASSUME NEW h \in Handlers, Send(h) PROVE OneSender'
  BY <1>8 DEF Send
<1>9. ASSUME NEW h \in Handlers, ReceiveOk(h) PROVE OneSender'
  BY <1>9 DEF ReceiveOk
<1>10. ASSUME NEW h \in Handlers, ReceiveRefusal(h) PROVE OneSender'
  BY <1>10 DEF ReceiveRefusal
<1>11. ASSUME NEW h \in Handlers, LoseReply(h) PROVE OneSender'
  BY <1>11 DEF LoseReply
<1>12. ASSUME NEW h \in Handlers, RecordSuccess(h) PROVE OneSender'
  BY <1>12 DEF RecordSuccess
<1>13. ASSUME NEW h \in Handlers, RecordFailure(h) PROVE OneSender'
  BY <1>13 DEF RecordFailure
<1>14. ASSUME NEW h \in Handlers, CheckTransition(h) PROVE OneSender'
  <2>1. /\ posted' = posted /\ doubtful' = doubtful
        /\ UNCHANGED <<origin, overrun>>
        /\ UNCHANGED sync
    BY <1>14 DEF CheckTransition
  <2>2. \A g \in Handlers : Sender(g)' => Sender(g) /\ form'[g] = form[g]
    BY <1>14 DEF CheckTransition
  <2>3. \A g \in Handlers : pc[g] \in {"await", "succeed"} =>
          pc'[g] = pc[g] /\ form'[g] = form[g]
    BY <1>14 DEF CheckTransition
  <2>4. Undisturbed' /\ order' = "pending" => order = "pending"
    BY <1>14 DEF CheckTransition
  <2> QED
    BY <2>1, <2>2, <2>3, <2>4, OneSenderKept
<1>15. ASSUME NEW h \in Handlers, WriteTransition(h) PROVE OneSender'
  <2>1. /\ posted' = posted /\ doubtful' = doubtful
        /\ UNCHANGED <<origin, overrun>>
        /\ UNCHANGED sync
    BY <1>15 DEF WriteTransition
  <2>2. \A g \in Handlers : Sender(g)' => Sender(g) /\ form'[g] = form[g]
    BY <1>15 DEF WriteTransition
  <2>3. \A g \in Handlers : pc[g] \in {"await", "succeed"} =>
          pc'[g] = pc[g] /\ form'[g] = form[g]
    BY <1>15 DEF WriteTransition
  <2>4. Undisturbed' /\ order' = "pending" => order = "pending"
    BY <1>15 DEF WriteTransition
  <2> QED
    BY <2>1, <2>2, <2>3, <2>4, OneSenderKept
<1>16. ASSUME NEW h \in Handlers, EditReadOrder(h) PROVE OneSender'
  BY <1>16 DEF EditReadOrder
<1>17. ASSUME NEW h \in Handlers, EditReadSync(h) PROVE OneSender'
  <2>1. /\ posted' = posted /\ doubtful' = doubtful
        /\ UNCHANGED <<origin, overrun>>
        /\ UNCHANGED sync
    BY <1>17 DEF EditReadSync
  <2>2. \A g \in Handlers : Sender(g)' => Sender(g) /\ form'[g] = form[g]
    BY <1>17 DEF EditReadSync
  <2>3. \A g \in Handlers : pc[g] \in {"await", "succeed"} =>
          pc'[g] = pc[g] /\ form'[g] = form[g]
    BY <1>17 DEF EditReadSync
  <2>4. Undisturbed' /\ order' = "pending" => order = "pending"
    BY <1>17 DEF EditReadSync
  <2> QED
    BY <2>1, <2>2, <2>3, <2>4, OneSenderKept
<1>18. ASSUME NEW h \in Handlers, CommitEdit(h) PROVE OneSender'
  <2>1. /\ posted' = posted /\ doubtful' = doubtful
        /\ UNCHANGED <<origin, overrun>>
        /\ sync.status = "success" => sync'.status = "success"
    BY <1>18 DEF CommitEdit, Editable
  <2>2. \A g \in Handlers : Sender(g)' => Sender(g) /\ form'[g] = form[g]
    BY <1>18 DEF CommitEdit
  <2>3. \A g \in Handlers : pc[g] \in {"await", "succeed"} =>
          pc'[g] = pc[g] /\ form'[g] = form[g]
    BY <1>18 DEF CommitEdit
  <2>4. Undisturbed' /\ order' = "pending" => order = "pending"
    BY <1>18 DEF CommitEdit
  <2> QED
    BY <2>1, <2>2, <2>3, <2>4, OneSenderKept
<1>19. ASSUME NEW h \in Handlers, Die(h) PROVE OneSender'
  BY <1>19 DEF Die
<1>20. ASSUME NEW h \in Handlers, NewRequest(h) PROVE OneSender'
  <2>1. /\ posted' = posted /\ doubtful' = doubtful
        /\ UNCHANGED <<origin, overrun>>
        /\ UNCHANGED sync
    BY <1>20 DEF NewRequest, RetrySync, RequestTransition, RequestEdit, Receive
  <2>2. \A g \in Handlers : Sender(g)' => Sender(g) /\ form'[g] = form[g]
    BY <1>20 DEF NewRequest, RetrySync, RequestTransition, RequestEdit, Receive
  <2>3. \A g \in Handlers : pc[g] \in {"await", "succeed"} =>
          pc'[g] = pc[g] /\ form'[g] = form[g]
    BY <1>20 DEF NewRequest, RetrySync, RequestTransition, RequestEdit, Receive
  <2>4. Undisturbed' /\ order' = "pending" => order = "pending"
    BY <1>20 DEF NewRequest, RetrySync, RequestTransition, RequestEdit, Receive
  <2> QED
    BY <2>1, <2>2, <2>3, <2>4, OneSenderKept
<1>21. ASSUME NEW m \in posted, ProviderAccepts(m) PROVE OneSender'
  BY <1>21 DEF ProviderAccepts
<1>22. CASE ClaimGetsOld
  BY <1>22 DEF ClaimGetsOld
<1>23. CASE UNCHANGED vars
  BY <1>23 DEF vars
<1> QED
  BY <1>1, <1>2, <1>3, <1>4, <1>5, <1>6, <1>7, <1>8, <1>9, <1>10, <1>11,
     <1>12, <1>13, <1>14, <1>15, <1>16, <1>17, <1>18, <1>19, <1>20, <1>21,
     <1>22, <1>23 DEF Next, SyncStep, AdminStep

LEMMA DeliveredStep ==
  ASSUME TypeOK, WriteIsLegal, Numbering, Reading, Locked, Delivered, [Next]_vars
  PROVE  Delivered'
<1> USE DEF TypeOK, WriteIsLegal, Numbering, Reading, Locked, Delivered, Undisturbed,
            Legal, Goto, Finish, Outside, Holding, SyncRows, Requests
<1>1. ASSUME NEW h \in Handlers, ReadOrder(h) PROVE Delivered'
  BY <1>1 DEF ReadOrder
<1>2. ASSUME NEW h \in Handlers, ReadSync(h) PROVE Delivered'
  BY <1>2 DEF ReadSync
<1>3. ASSUME NEW h \in Handlers, MarkWaitingReview(h) PROVE Delivered'
  BY <1>3 DEF MarkWaitingReview
<1>4. ASSUME NEW h \in Handlers, Claim(h) PROVE Delivered'
  <2>1. CASE Claimable
    <3>1. /\ sync'.status = "syncing"
          /\ pc'[h] = "reload"
          /\ \A g \in Handlers \ {h} : pc'[g] = pc[g]
          /\ UNCHANGED <<order, origin, overrun>>
      BY <1>4, <2>1, ClaimWon
    <3>2. Undisturbed /\ order = "pending" =>
            \A g \in Handlers : pc[g] \notin Holding
      BY <2>1 DEF Claimable, Editable
    <3> QED
      BY <3>1, <3>2
  <2>2. CASE ~Claimable
    BY <1>4, <2>2 DEF Claim
  <2> QED
    BY <2>1, <2>2
<1>5. ASSUME NEW h \in Handlers, ReloadOrder(h) PROVE Delivered'
  BY <1>5 DEF ReloadOrder
<1>6. ASSUME NEW h \in Handlers, ReloadDetails(h) PROVE Delivered'
  BY <1>6 DEF ReloadDetails
<1>7. ASSUME NEW h \in Handlers, SaveRequestBody(h) PROVE Delivered'
  BY <1>7 DEF SaveRequestBody
<1>8. ASSUME NEW h \in Handlers, Send(h) PROVE Delivered'
  BY <1>8 DEF Send
<1>9. ASSUME NEW h \in Handlers, ReceiveOk(h) PROVE Delivered'
  BY <1>9 DEF ReceiveOk
<1>10. ASSUME NEW h \in Handlers, ReceiveRefusal(h) PROVE Delivered'
  BY <1>10 DEF ReceiveRefusal
<1>11. ASSUME NEW h \in Handlers, LoseReply(h) PROVE Delivered'
  BY <1>11 DEF LoseReply
<1>12. ASSUME NEW h \in Handlers, RecordSuccess(h) PROVE Delivered'
  BY <1>12 DEF RecordSuccess
<1>13. ASSUME NEW h \in Handlers, RecordFailure(h) PROVE Delivered'
  BY <1>13 DEF RecordFailure
<1>14. ASSUME NEW h \in Handlers, CheckTransition(h) PROVE Delivered'
  BY <1>14 DEF CheckTransition
<1>15. ASSUME NEW h \in Handlers, WriteTransition(h) PROVE Delivered'
  BY <1>15 DEF WriteTransition
<1>16. ASSUME NEW h \in Handlers, EditReadOrder(h) PROVE Delivered'
  BY <1>16 DEF EditReadOrder
<1>17. ASSUME NEW h \in Handlers, EditReadSync(h) PROVE Delivered'
  BY <1>17 DEF EditReadSync
<1>18. ASSUME NEW h \in Handlers, CommitEdit(h) PROVE Delivered'
  <2>1. CASE sync.status \in Editable
    <3>1. Undisturbed /\ order = "pending" =>
            \A g \in Handlers : pc[g] \notin Holding
      BY <2>1 DEF Editable
    <3>2. /\ \A g \in Handlers : pc'[g] \in Holding => pc[g] \in Holding
          /\ UNCHANGED <<order, origin, overrun>>
      BY <1>18 DEF CommitEdit
    <3>3. sync' = [sync EXCEPT
                     !.status = IF seen[h] = "pending" THEN "pending"
                                                      ELSE "waiting_review",
                     !.body = NoRequest]
      BY <1>18, <2>1 DEF CommitEdit
    <3>4. sync'.status # "success"
      BY <3>3
    <3> QED
      BY <3>1, <3>2, <3>4
  <2>2. CASE sync.status \notin Editable
    BY <1>18, <2>2 DEF CommitEdit
  <2> QED
    BY <2>1, <2>2
<1>19. ASSUME NEW h \in Handlers, Die(h) PROVE Delivered'
  BY <1>19 DEF Die
<1>20. ASSUME NEW h \in Handlers, NewRequest(h) PROVE Delivered'
  BY <1>20 DEF NewRequest, RetrySync, RequestTransition, RequestEdit, Receive
<1>21. ASSUME NEW m \in posted, ProviderAccepts(m) PROVE Delivered'
  BY <1>21 DEF ProviderAccepts
<1>22. CASE ClaimGetsOld
  BY <1>22 DEF ClaimGetsOld
<1>23. CASE UNCHANGED vars
  BY <1>23 DEF vars
<1> QED
  BY <1>1, <1>2, <1>3, <1>4, <1>5, <1>6, <1>7, <1>8, <1>9, <1>10, <1>11,
     <1>12, <1>13, <1>14, <1>15, <1>16, <1>17, <1>18, <1>19, <1>20, <1>21,
     <1>22, <1>23 DEF Next, SyncStep, AdminStep

(* The parts together are inductive.                                        *)
LEMMA Inductive == Spec => []IInv
<1>1. Init => Numbering /\ Reading /\ Locked /\ OneSender /\ Delivered
  BY SyncAssumption
     DEF Init, Numbering, Reading, Locked, OneSender, Delivered, Undisturbed,
         Sender, Holding, SyncAssumption
<1>2. IInv /\ [Next]_vars => (Numbering /\ Reading /\ Locked /\ OneSender /\ Delivered)'
  BY NumberingStep, ReadingStep, LockedStep, OneSenderStep, DeliveredStep
     DEF IInv
<1>3. Spec => [](TypeOK /\ WriteIsLegal)
  BY TypesAndWrites
<1> QED
  BY <1>1, <1>2, <1>3, PTL DEF Spec, IInv

(* Type correctness.                                                        *)
THEOREM TypeCorrect == Spec => []TypeOK
  BY TypesAndWrites, PTL

(* A flagged order that nobody approved never reaches the provider.         *)
THEOREM UnreviewedOrdersStay == Spec => []UnreviewedNeverSent
<1>1. IInv => UnreviewedNeverSent
  BY DEF IInv, Reading, UnreviewedNeverSent
<1> QED
  BY <1>1, Inductive, PTL

(* The attempt counter accounts for every request sent.                     *)
THEOREM SendsAreCounted == Spec => []AttemptsCountSends
<1>1. IInv => AttemptsCountSends
  BY DEF IInv, Numbering, AttemptsCountSends
<1> QED
  BY <1>1, Inductive, PTL

(* The claim is a lock on a pending order.                                  *)
THEOREM OneHolder == Spec => []ClaimIsExclusive
<1>1. IInv => ClaimIsExclusive
  BY DEF IInv, Numbering, Locked, ClaimIsExclusive
<1> QED
  BY <1>1, Inductive, PTL

(* An order that was never held for review is handed off once, whatever     *)
(* retries, edits and transitions run beside the hand-off, unless answers   *)
(* are lost.                                                                *)
THEOREM HandedOffOnce == Spec => []HandoffOnce
<1>1. IInv => HandoffOnce
  BY DEF IInv, TypeOK, OneSender, HandoffOnce
<1> QED
  BY <1>1, Inductive, PTL

(* What the administrator sees of a synchronised pending order is what the  *)
(* provider got.                                                            *)
THEOREM ProviderHasTheData == Spec => []DeliveryDataAgrees
<1>1. IInv => DeliveryDataAgrees
  BY DEF IInv, Delivered, DeliveryDataAgrees
<1> QED
  BY <1>1, Inductive, PTL
-----------------------------------------------------------------------------
(****************************************************************************)
(* OrderSync implements OrderLifecycle when administrator requests come one *)
(* at a time and no claim grows old under its worker: for any number of     *)
(* requests, crashes and lost replies, and for orders held for review, too. *)
(*                                                                          *)
(* The argument: an order held for review has no checkout at work, so its   *)
(* only handler is alone with the row; an order that was not held is        *)
(* covered by IInv above.                                                   *)
(****************************************************************************)
(* One administrator, and no late worker: the assumption from here on.      *)
Sequential(a) == Admins = {a} /\ "overrun" \notin Faults

(* Whose turn it is: the checkout never moves the status, an order held for *)
(* review has no checkout, and a transition is written to what it read.     *)
AdminPlaces == {"torder", "twrite", "eorder", "esync", "etx"}
Turns(a) ==
  /\ pc[Checkout] \notin AdminPlaces
  /\ origin = "flagged_fraud" => pc[Checkout] = "idle"
  /\ ~overrun
  /\ pc[a] = "twrite" => seen[a] = order

LEMMA TurnsStep ==
  ASSUME NEW a, Sequential(a), TypeOK, Turns(a), [Next]_vars
  PROVE  Turns(a)'
<1> USE SyncAssumption DEF SyncAssumption, Sequential, Handlers, TypeOK, Turns, AdminPlaces,
        Goto, Finish, Outside
<1>1. ASSUME NEW h \in Handlers, SyncStep(h) PROVE Turns(a)'
  BY <1>1 DEF SyncStep, ReadOrder, ReadSync, MarkWaitingReview, Claim,
              ReloadOrder, ReloadDetails, SaveRequestBody, Send, ReceiveOk,
              ReceiveRefusal, LoseReply, RecordSuccess, RecordFailure
<1>2. ASSUME NEW h \in Handlers, AdminStep(h) PROVE Turns(a)'
  BY <1>2 DEF AdminStep, CheckTransition, WriteTransition, EditReadOrder,
              EditReadSync, CommitEdit
<1>3. ASSUME NEW h \in Handlers, NewRequest(h) PROVE Turns(a)'
  BY <1>3 DEF NewRequest, RetrySync, RequestTransition, RequestEdit, Receive
<1>4. ASSUME NEW h \in Handlers, Die(h) PROVE Turns(a)'
  BY <1>4 DEF Die
<1>5. ASSUME NEW m \in posted, ProviderAccepts(m) PROVE Turns(a)'
  BY <1>5 DEF ProviderAccepts
<1>6. CASE ClaimGetsOld
  BY <1>6 DEF ClaimGetsOld
<1>7. CASE UNCHANGED vars
  BY <1>7 DEF vars
<1> QED
  BY <1>1, <1>2, <1>3, <1>4, <1>5, <1>6, <1>7 DEF Next

----------------------------------------------------------------------------
(* An order held for review *)

(* Its one handler owns the row while it holds the claim, and every request *)
(* is settled: unheard, recorded, or about to be recorded.                  *)
Answered(m, a) == \/ m.no \in doubtful
                  \/ sync.status = "success"
                  \/ pc[a] \in {"await", "succeed"} /\ form[a] = m
HeldForReview(a) ==
  origin = "flagged_fraud" =>
    /\ pc[a] \in Holding => sync.status = "syncing" /\ form[a].no = sync.attempts
    /\ pc[a] = "review" => sync.status # "success"
    /\ \A m \in posted : Answered(m, a)
    /\ \A m1, m2 \in posted : m1.no < m2.no => m1.no \in doubtful

(* A step that sends nothing, settles nothing and takes no success back.    *)
LEMMA HeldIfQuiet ==
  ASSUME NEW a, HeldForReview(a),
         UNCHANGED <<origin, posted, doubtful>>,
         sync.status = "success" => sync'.status = "success",
         pc[a] \in {"await", "succeed"} => pc'[a] \in {"await", "succeed"} /\ form'[a] = form[a],
         pc'[a] \in Holding => sync'.status = "syncing" /\ form'[a].no = sync'.attempts,
         pc'[a] = "review" => sync'.status # "success"
  PROVE  HeldForReview(a)'
  BY DEF HeldForReview, Answered

LEMMA HeldStep ==
  ASSUME NEW a, Sequential(a), TypeOK, Numbering, Turns(a), HeldForReview(a), [Next]_vars
  PROVE  HeldForReview(a)'
<1> SUFFICES ASSUME origin = "flagged_fraud" PROVE HeldForReview(a)'
  <2>1. origin' = origin
    BY DEF Next, vars, SyncStep, AdminStep, NewRequest, Outside, ReadOrder, ReadSync,
           MarkWaitingReview, Claim, ReloadOrder, ReloadDetails, SaveRequestBody, Send,
           ReceiveOk, ReceiveRefusal, LoseReply, RecordSuccess, RecordFailure,
           CheckTransition, WriteTransition, EditReadOrder, EditReadSync, CommitEdit,
           RetrySync, RequestTransition, RequestEdit, Receive, Die, ProviderAccepts,
           ClaimGetsOld
  <2> QED
    BY <2>1 DEF HeldForReview
<1>0. /\ Handlers = {a, Checkout} /\ a # Checkout /\ a \in Handlers
      /\ pc[Checkout] = "idle"
  BY SyncAssumption DEF SyncAssumption, Sequential, Handlers, Turns
<1> USE DEF TypeOK, Goto, Finish, Outside, Holding, SyncRows, Requests
<1>1. CASE \/ ReadOrder(a) \/ ReadSync(a) \/ ReloadOrder(a) \/ ReloadDetails(a)
           \/ SaveRequestBody(a) \/ ReceiveOk(a) \/ CheckTransition(a)
           \/ WriteTransition(a) \/ EditReadOrder(a) \/ EditReadSync(a) \/ NewRequest(a)
  BY <1>0, <1>1, HeldIfQuiet
     DEF ReadOrder, ReadSync, ReloadOrder, ReloadDetails, SaveRequestBody, ReceiveOk,
         CheckTransition, WriteTransition, EditReadOrder, EditReadSync, NewRequest,
         RetrySync, RequestTransition, RequestEdit, Receive, HeldForReview
<1>2. CASE Claim(a)
  <2>1. CASE Claimable
    BY <1>0, <1>2, <2>1, ClaimWon, HeldIfQuiet DEF Claim, Claimable, Editable
  <2>2. CASE ~Claimable
    BY <1>0, <1>2, <2>2, HeldIfQuiet DEF Claim
  <2> QED
    BY <2>1, <2>2
<1>3. CASE CommitEdit(a)
  <2>1. sync.status = "success" => sync'.status = "success"
    BY <1>3 DEF CommitEdit, Editable
  <2>2. pc[a] = "etx" /\ pc'[a] = "idle" /\ UNCHANGED <<origin, posted, doubtful>>
    BY <1>0, <1>3 DEF CommitEdit
  <2> QED
    BY <2>1, <2>2, HeldIfQuiet
<1>4. CASE MarkWaitingReview(a) \/ RecordFailure(a) \/ RecordSuccess(a) \/ Die(a)
  BY <1>0, <1>4 DEF MarkWaitingReview, RecordFailure, RecordSuccess, Die,
                    HeldForReview, Answered
<1>5. CASE Send(a)
  <2>1. /\ posted' = posted \union {form[a]} /\ pc'[a] = "await"
        /\ UNCHANGED <<sync, form, doubtful, origin>>
    BY <1>0, <1>5 DEF Send
  <2>2. /\ sync.status = "syncing" /\ form[a].no = sync.attempts
        /\ \A m \in posted : m.no \in doubtful
    BY <1>5 DEF Send, HeldForReview, Answered
  <2>3. \A m \in posted : m.no \in 1 .. sync.attempts
    BY DEF Numbering
  <2> QED
    BY <2>1, <2>2, <2>3 DEF HeldForReview, Answered
<1>6. CASE ReceiveRefusal(a) \/ LoseReply(a)
  BY <1>0, <1>6 DEF ReceiveRefusal, LoseReply, HeldForReview, Answered
<1>7. CASE ClaimGetsOld
  BY <1>7, HeldIfQuiet DEF ClaimGetsOld, HeldForReview
<1>8. ASSUME NEW m \in posted, ProviderAccepts(m) PROVE HeldForReview(a)'
  BY <1>8, HeldIfQuiet DEF ProviderAccepts, HeldForReview
<1>9. CASE UNCHANGED vars
  BY <1>9, HeldIfQuiet DEF vars, HeldForReview
<1>10. ASSUME SyncStep(Checkout) \/ AdminStep(Checkout) \/ NewRequest(Checkout) \/ Die(Checkout)
       PROVE  FALSE
  BY <1>0, <1>10, SyncAssumption
     DEF SyncStep, AdminStep, NewRequest, SyncAssumption, ReadOrder, ReadSync,
         MarkWaitingReview, Claim, ReloadOrder, ReloadDetails, SaveRequestBody, Send,
         ReceiveOk, ReceiveRefusal, LoseReply, RecordSuccess, RecordFailure,
         CheckTransition, WriteTransition, EditReadOrder, EditReadSync, CommitEdit,
         RetrySync, RequestTransition, RequestEdit, Receive, Die
<1> QED
  BY <1>0, <1>1, <1>2, <1>3, <1>4, <1>5, <1>6, <1>7, <1>8, <1>9, <1>10
     DEF Next, SyncStep, AdminStep

----------------------------------------------------------------------------
(* The refinement *)

SIInv(a) == IInv /\ Turns(a) /\ HeldForReview(a)

LEMMA SequentialInvariant ==
  ASSUME NEW a, Sequential(a)
  PROVE  Spec => []SIInv(a)
<1>1. Init => Turns(a) /\ HeldForReview(a)
  BY SyncAssumption
     DEF SyncAssumption, Sequential, Init, Turns, AdminPlaces, HeldForReview, Handlers,
         Holding
<1>2. IInv /\ Turns(a) /\ HeldForReview(a) /\ [Next]_vars => (Turns(a) /\ HeldForReview(a))'
  BY TurnsStep, HeldStep DEF IInv
<1> QED
  BY <1>1, <1>2, Inductive, PTL DEF Spec, SIInv

(* Of two requests at the provider the earlier one's answer was lost.       *)
LEMMA EarlierUnheard ==
  ASSUME NEW a, SIInv(a), NEW m1 \in posted, NEW m2 \in posted, m1.no < m2.no
  PROVE  m1.no \in doubtful
<1>1. CASE origin = "pending"
  BY <1>1 DEF SIInv, IInv, Turns, OneSender, Undisturbed
<1>2. CASE origin = "flagged_fraud"
  BY <1>2 DEF SIInv, HeldForReview
<1> QED
  BY <1>1, <1>2 DEF SIInv, IInv, TypeOK

(* One request at a time: the provider holds an order once unless answers   *)
(* were lost, also after a review (sync_order's claim and status tests).    *)
THEOREM HandedOffOnceInTurns ==
  ASSUME NEW a, Sequential(a)
  PROVE  Spec => []HandoffOnceAlways
<1>1. SIInv(a) => HandoffOnceAlways
  BY EarlierUnheard DEF SIInv, IInv, TypeOK, HandoffOnceAlways
<1> QED
  BY <1>1, SequentialInvariant, PTL

LEMMA LifecycleStep ==
  ASSUME NEW a, Sequential(a), SIInv(a), [Next]_vars
  PROVE  [Lifecycle!Next]_(Lifecycle!lifecycle)
<1> DEFINE taken == {m.no : m \in accepted}
<1>0. /\ TypeOK /\ WriteIsLegal /\ Numbering /\ Reading /\ Turns(a)
      /\ Handlers = {a, Checkout} /\ a # Checkout
  BY SyncAssumption DEF SyncAssumption, Sequential, Handlers, SIInv, IInv
<1>1. CASE UNCHANGED <<order, accepted, doubtful>> /\ sync'.attempts = sync.attempts
  BY <1>1 DEF Lifecycle!lifecycle
<1>2. ASSUME NEW h \in Handlers, WriteTransition(h) PROVE Lifecycle!Next
  <2>1. h = a /\ order = seen[a]
    BY <1>0, <1>2 DEF WriteTransition, Turns, AdminPlaces
  <2>2. <<order, order'>> \in Legal
    BY <1>0, <1>2, <2>1 DEF WriteTransition, WriteIsLegal
  <2>3. order' \in Lifecycle!After[order]
    BY <2>2 DEF Legal, Lifecycle!After
  <2>4. UNCHANGED <<sync, accepted, doubtful>>
    BY <1>2 DEF WriteTransition, Outside
  <2> QED
    BY <2>3, <2>4 DEF Lifecycle!Next, Lifecycle!Move
<1>3. ASSUME NEW h \in Handlers, Claim(h), Claimable PROVE Lifecycle!Next
  <2>1. sync'.attempts = sync.attempts + 1 /\ UNCHANGED <<order, accepted, doubtful>>
    BY <1>0, <1>3, ClaimWon DEF Outside
  <2> QED
    BY <2>1 DEF Lifecycle!Next, Lifecycle!Attempt
<1>4. ASSUME NEW m \in posted, ProviderAccepts(m) PROVE Lifecycle!Next
  <2>1. /\ m \notin accepted /\ accepted' = accepted \union {m} /\ accepted \subseteq posted
        /\ UNCHANGED <<order, sync, doubtful>>
    BY <1>0, <1>4 DEF ProviderAccepts, TypeOK
  <2>2. order # "flagged_fraud" /\ m.no \in 1 .. sync.attempts
    BY <1>0 DEF Reading, Numbering
  <2>3. m.no \notin taken /\ {x.no : x \in accepted'} = taken \union {m.no}
    BY <1>0, <2>1 DEF Numbering
  <2>4. ASSUME NEW k \in taken
        PROVE  IF k < m.no THEN k \in doubtful ELSE m.no \in doubtful
    <3>1. PICK x \in accepted : k = x.no
      OBVIOUS
    <3>2. k \in Nat /\ m.no \in Nat /\ k # m.no
      BY <1>0, <2>1, <2>3, <3>1 DEF TypeOK, Requests
    <3> QED
      BY <2>1, <3>1, <3>2, EarlierUnheard
  <2>5. Lifecycle!Take(m.no)
    BY <2>1, <2>2, <2>3, <2>4 DEF Lifecycle!Take
  <2> QED
    BY <2>2, <2>5 DEF Lifecycle!Next
<1>5. ASSUME NEW h \in Handlers, pc[h] \in Holding, doubtful' = doubtful \union {form[h].no},
             UNCHANGED <<order, sync, accepted>>
      PROVE  Lifecycle!Next
  <2>1. form[h].no \in 1 .. sync.attempts
    BY <1>0, <1>5 DEF Numbering
  <2>2. Lifecycle!Lose(form[h].no)
    BY <1>5 DEF Lifecycle!Lose
  <2> QED
    BY <2>1, <2>2 DEF Lifecycle!Next
<1>6. ASSUME NEW h \in Handlers, LoseReply(h) PROVE Lifecycle!Next
  BY <1>5, <1>6 DEF LoseReply, Holding
<1>7. ASSUME NEW h \in Handlers, Die(h) PROVE [Lifecycle!Next]_(Lifecycle!lifecycle)
  <2>1. UNCHANGED <<order, sync, accepted>>
    BY <1>7 DEF Die
  <2>2. CASE pc[h] \in {"await", "succeed"}
    BY <1>5, <1>7, <2>1, <2>2 DEF Die, Holding
  <2>3. CASE pc[h] \notin {"await", "succeed"}
    BY <1>1, <1>7, <2>1, <2>3 DEF Die
  <2> QED
    BY <2>2, <2>3
<1>8. ASSUME NEW h \in Handlers,
             \/ ReadOrder(h) \/ ReadSync(h) \/ MarkWaitingReview(h) \/ (Claim(h) /\ ~Claimable)
             \/ ReloadOrder(h) \/ ReloadDetails(h) \/ SaveRequestBody(h) \/ Send(h)
             \/ ReceiveOk(h) \/ ReceiveRefusal(h) \/ RecordSuccess(h) \/ RecordFailure(h)
             \/ CheckTransition(h) \/ EditReadOrder(h) \/ EditReadSync(h) \/ CommitEdit(h)
             \/ NewRequest(h)
      PROVE  UNCHANGED <<order, accepted, doubtful>> /\ sync'.attempts = sync.attempts
  BY <1>0, <1>8
     DEF TypeOK, SyncRows, Outside, ReadOrder, ReadSync, MarkWaitingReview, Claim,
         ReloadOrder, ReloadDetails, SaveRequestBody, Send, ReceiveOk, ReceiveRefusal,
         RecordSuccess, RecordFailure, CheckTransition, EditReadOrder, EditReadSync,
         CommitEdit, NewRequest, RetrySync, RequestTransition, RequestEdit, Receive
<1>9. CASE ClaimGetsOld \/ UNCHANGED vars
  BY <1>0, <1>1, <1>9 DEF TypeOK, SyncRows, ClaimGetsOld, vars
<1>10. ASSUME NEW h \in Handlers, SyncStep(h) \/ AdminStep(h) \/ NewRequest(h)
       PROVE  [Lifecycle!Next]_(Lifecycle!lifecycle)
  <2>1. CASE WriteTransition(h) \/ LoseReply(h) \/ (Claim(h) /\ Claimable)
    BY <1>2, <1>3, <1>6, <2>1
  <2>2. CASE ~(WriteTransition(h) \/ LoseReply(h) \/ (Claim(h) /\ Claimable))
    <3>1. UNCHANGED <<order, accepted, doubtful>> /\ sync'.attempts = sync.attempts
      BY <1>8, <1>10, <2>2 DEF SyncStep, AdminStep
    <3> QED
      BY <1>1, <3>1
  <2> QED
    BY <2>1, <2>2
<1> QED
  BY <1>4, <1>7, <1>9, <1>10 DEF Next

(* The handlers implement the documented life of an order: legal moves only,*)
(* no hand-off under review, and one order at the provider.                 *)
THEOREM LifecycleImplemented ==
  ASSUME NEW a, Sequential(a)
  PROVE  Spec => ImplementsLifecycle
<1>1. Init => Lifecycle!Init
  BY DEF Init, Lifecycle!Init
<1>2. SIInv(a) /\ [Next]_vars => [Lifecycle!Next]_(Lifecycle!lifecycle)
  BY LifecycleStep
<1> QED
  BY <1>1, <1>2, SequentialInvariant, PTL DEF Spec, ImplementsLifecycle, Lifecycle!Spec
=============================================================================
