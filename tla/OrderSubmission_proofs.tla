----------------------- MODULE OrderSubmission_proofs -----------------------
(****************************************************************************)
(* Theorems about OrderSubmission for any finite set of submissions, any    *)
(* prices, limits and faults, and any number of administrator changes.      *)
(****************************************************************************)
EXTENDS OrderSubmission, FiniteSetTheorems, TLAPS

----------------------------------------------------------------------------
(* Type correctness *)

LEMMA GotoType ==
  ASSUME TypeOK, NEW s \in Submissions, NEW where \in PCs, Goto(s, where)
  PROVE  pc' \in [Submissions -> PCs]
  BY DEF TypeOK, Goto

LEMMA ReplyType ==
  ASSUME TypeOK, NEW s \in Submissions, NEW status \in {201, 422, 503}, Reply(s, status)
  PROVE  pc' \in [Submissions -> PCs] /\ answer' \in [Submissions -> {0, 201, 422, 503}]
  BY DEF TypeOK, Reply, Goto, PCs

LEMMA CountType ==
  ASSUME TypeOK, NEW s \in Submissions, NEW k \in Keys, NEW flag \in FlagTypes,
         CheckRateLimit(s, k, flag)
  PROVE  /\ count' \in [Keys -> Nat]
         /\ window' \in [Keys -> SUBSET Submissions]
         /\ strictness' \in [Keys -> Nat]
         /\ flags' \in [Submissions -> SUBSET FlagTypes]
<1>1. CASE UNCHANGED <<redis, flags>>
  BY <1>1 DEF TypeOK, redis
<1>2. CASE /\ count' = [count EXCEPT ![k] = @ + 1]
           /\ window' = [window EXCEPT ![k] = @ \union {s}]
           /\ strictness' = [strictness EXCEPT ![k] = IF cap[s] > @ THEN cap[s] ELSE @]
           /\ flags' = [flags EXCEPT ![s] =
                          IF count[k] + 1 > cap[s] THEN @ \union {flag} ELSE @]
  <2>1. count[k] \in Nat /\ cap[s] \in Nat /\ strictness[k] \in Nat
    BY DEF TypeOK
  <2>2. count' \in [Keys -> Nat] /\ strictness' \in [Keys -> Nat]
    BY <1>2, <2>1 DEF TypeOK
  <2>3. window' \in [Keys -> SUBSET Submissions]
    BY <1>2 DEF TypeOK
  <2>4. flags' \in [Submissions -> SUBSET FlagTypes]
    BY <1>2 DEF TypeOK
  <2> QED
    BY <2>2, <2>3, <2>4
<1> QED
  BY <1>1, <1>2 DEF CheckRateLimit

LEMMA FlagType ==
  ASSUME TypeOK, NEW s \in Submissions, NEW flag \in FlagTypes, NEW triggered,
         Flag(s, flag, triggered)
  PROVE  flags' \in [Submissions -> SUBSET FlagTypes]
  BY DEF TypeOK, Flag

Witnesses == [orders : SUBSET Submissions, listed : SUBSET Blacklistable,
              rules : SUBSET Countries,
              offers : SUBSET (Offers \union {Closed}),
              prices : SUBSET (Prices \union {Closed})]

TermsRecords == [offer : Offers \union {Closed}, price : Prices \union {Closed}]

Priced == {"config", "phone", "ip", "duplicate", "blacklistPhone", "blacklistIp",
           "geoip", "commit", "sync"}
HasTerms == \A s \in Submissions :
              pc[s] \in Priced => terms[s] \in [offer : Offers, price : Prices]

LEMMA KeysOf == \A s \in Submissions : PhoneOf[s] \in Keys /\ IpOf[s] \in Keys
  BY DEF Keys, Phones, Ips

LEMMA WitnessType ==
  ASSUME TypeOK, witness' = [t \in Submissions |-> witness'[t]],
         \A t \in Submissions : witness'[t] \in Witnesses
  PROVE  witness' \in [Submissions -> Witnesses]
  OBVIOUS

LEMMA TypeStep ==
  ASSUME TypeOK, HasTerms, [Next]_vars
  PROVE  TypeOK'
<1> USE DEF admin, redis, request, vars, Ordered
<1>1. ASSUME NEW s \in Submissions, Receive(s) PROVE TypeOK'
  <2>1. pc' \in [Submissions -> PCs] /\ answer' \in [Submissions -> {0, 201, 422, 503}]
    <3>1. CASE Goto(s, "landing") /\ UNCHANGED answer
      BY <3>1, GotoType DEF TypeOK, PCs
    <3>2. CASE Reply(s, 422)
      BY <3>2, ReplyType
    <3> QED
      BY <1>1, <3>1, <3>2 DEF Receive
  <2>2. [orders |-> recent, listed |-> blacklist, rules |-> rules,
         offers |-> {landing}, prices |-> {product}] \in Witnesses
    BY DEF TypeOK, Witnesses
  <2>3. witness' \in [Submissions -> Witnesses]
    BY <1>1, <2>2 DEF TypeOK, Receive, Witnesses
  <2> QED
    BY <1>1, <2>1, <2>3 DEF TypeOK, Receive, Witnesses
<1>2. ASSUME NEW s \in Submissions, ReadLanding(s) PROVE TypeOK'
  <2>1. terms' \in [Submissions -> TermsRecords]
    <3>1. [terms[s] EXCEPT !.offer = landing] \in TermsRecords
      BY DEF TypeOK, TermsRecords
    <3>2. terms' = [terms EXCEPT ![s] = [terms[s] EXCEPT !.offer = landing]]
      BY <1>2 DEF ReadLanding
    <3> QED
      BY <3>1, <3>2 DEF TypeOK, TermsRecords
  <2>2. pc' \in [Submissions -> PCs]
    BY <1>2 DEF TypeOK, ReadLanding, Goto, PCs
  <2> QED
    BY <1>2, <2>1, <2>2 DEF TypeOK, ReadLanding, TermsRecords
<1>3. ASSUME NEW s \in Submissions, ReadProduct(s) PROVE TypeOK'
  <2>1. terms' \in [Submissions -> TermsRecords]
    <3>1. [terms[s] EXCEPT !.price = product] \in TermsRecords
      <4>1. terms[s] \in TermsRecords /\ product \in Prices \union {Closed}
        BY DEF TypeOK, TermsRecords
      <4> QED
        BY <4>1 DEF TermsRecords
    <3>2. \/ terms' = [terms EXCEPT ![s] = [terms[s] EXCEPT !.price = product]]
          \/ terms' = terms
      BY <1>3 DEF ReadProduct
    <3> QED
      BY SMTT(30), <3>1, <3>2 DEF TypeOK, TermsRecords
  <2>2. pc' \in [Submissions -> PCs] /\ answer' \in [Submissions -> {0, 201, 422, 503}]
    <3>1. CASE Goto(s, "config") /\ UNCHANGED answer
      BY <3>1, GotoType DEF TypeOK, PCs
    <3>2. CASE Reply(s, 422)
      BY <3>2, ReplyType
    <3> QED
      BY <1>3, <3>1, <3>2 DEF ReadProduct
  <2> QED
    BY <1>3, <2>1, <2>2 DEF TypeOK, ReadProduct, TermsRecords
<1>4. ASSUME NEW s \in Submissions, ReadConfig(s) PROVE TypeOK'
  <2>1. pc' \in [Submissions -> PCs] /\ answer' \in [Submissions -> {0, 201, 422, 503}]
    BY <1>4, ReplyType DEF TypeOK, ReadConfig, Goto, PCs
  <2>2. cap' \in [Submissions -> Nat]
    BY <1>4, SubmissionAssumption DEF TypeOK, ReadConfig
  <2> QED
    BY <1>4, <2>1, <2>2 DEF TypeOK, ReadConfig
<1>5. ASSUME NEW s \in Submissions, CountPhone(s) \/ CountIp(s) PROVE TypeOK'
  <2>1. /\ count' \in [Keys -> Nat]
        /\ window' \in [Keys -> SUBSET Submissions]
        /\ strictness' \in [Keys -> Nat]
        /\ flags' \in [Submissions -> SUBSET FlagTypes]
    BY <1>5, KeysOf, CountType DEF CountPhone, CountIp, FlagTypes
  <2>2. pc' \in [Submissions -> PCs]
    BY <1>5 DEF TypeOK, CountPhone, CountIp, Goto, PCs
  <2> QED
    BY <1>5, <2>1, <2>2 DEF TypeOK, CountPhone, CountIp
<1>6. ASSUME NEW s \in Submissions,
             CheckDuplicate(s) \/ CheckBlacklistPhone(s) \/ CheckBlacklistIp(s)
               \/ CheckGeoip(s)
      PROVE  TypeOK'
  <2>1. flags' \in [Submissions -> SUBSET FlagTypes]
    BY <1>6, FlagType DEF CheckDuplicate, CheckBlacklistPhone, CheckBlacklistIp,
                          CheckGeoip, FlagTypes
  <2>2. pc' \in [Submissions -> PCs]
    BY <1>6, GotoType DEF CheckDuplicate, CheckBlacklistPhone, CheckBlacklistIp,
                          CheckGeoip, PCs
  <2> QED
    BY <1>6, <2>1, <2>2 DEF TypeOK, CheckDuplicate, CheckBlacklistPhone,
                            CheckBlacklistIp, CheckGeoip
<1>7. ASSUME NEW s \in Submissions, Commit(s) PROVE TypeOK'
  <2>1. pc' \in [Submissions -> PCs] /\ answer' \in [Submissions -> {0, 201, 422, 503}]
    BY SMTT(30), <1>7, ReplyType DEF TypeOK, Commit, Goto, PCs
  <2>2. /\ DOMAIN orders' = Ordered \union {s}
        /\ \A t \in Ordered \ {s} : orders'[t] = orders[t]
        /\ orders'[s] = [terms |-> terms[s], flags |-> flags[s],
                         status |-> OrderStatus(flags[s]),
                         sync |-> SyncStatus(flags[s])]
        /\ orders' = [t \in DOMAIN orders' |-> orders'[t]]
    BY <1>7 DEF Commit
  <2>3. terms[s] \in [offer : Offers, price : Prices] /\ flags[s] \in SUBSET FlagTypes
    BY <1>7 DEF HasTerms, Priced, Commit, TypeOK
  <2>4. orders'[s] \in OrderRecords
    BY <2>2, <2>3 DEF OrderRecords, OrderStatus, SyncStatus
  <2>5. \A t \in Ordered : orders[t] \in OrderRecords
    BY DEF TypeOK
  <2>6. orders' \in [DOMAIN orders' -> OrderRecords]
    BY <2>2, <2>4, <2>5
  <2>7. DOMAIN orders' \subseteq Submissions /\ recent' \subseteq DOMAIN orders'
    BY <1>7, <2>2 DEF TypeOK, Commit
  <2> QED
    BY <1>7, <2>1, <2>6, <2>7 DEF TypeOK, Commit
<1>8. ASSUME NEW s \in Submissions, HandOff(s) \/ FailDatabase(s) PROVE TypeOK'
  BY <1>8, ReplyType DEF TypeOK, HandOff, FailDatabase
<1>9. ASSUME NEW s \in Submissions, Crash(s) PROVE TypeOK'
  BY <1>9 DEF TypeOK, Crash, Goto, PCs
<1>10. ASSUME NEW s \in Submissions, OrderAges(s) PROVE TypeOK'
  <2>1. witness' \in [Submissions -> Witnesses]
    <3>1. ASSUME NEW t \in Submissions PROVE witness'[t] \in Witnesses
      <4>1. witness[t] \in Witnesses
        BY DEF TypeOK, Witnesses
      <4>2. witness'[t] = [witness[t] EXCEPT !.orders = witness[t].orders \ {s}]
        BY <1>10 DEF OrderAges
      <4> QED
        BY <4>1, <4>2 DEF Witnesses
    <3> QED
      BY <1>10, <3>1, WitnessType DEF OrderAges
  <2> QED
    BY <1>10, <2>1 DEF TypeOK, OrderAges, Witnesses
<1>11. ASSUME NEW k \in Keys, WindowEnds(k) PROVE TypeOK'
  BY <1>11 DEF TypeOK, WindowEnds
<1>12. CASE ChangeLanding \/ ChangeProduct
  <2>1. witness' \in [Submissions -> Witnesses]
    <3>1. landing' \in Offers \union {Closed} /\ product' \in Prices \union {Closed}
      BY <1>12 DEF TypeOK, ChangeLanding, ChangeProduct
    <3>2. ASSUME NEW t \in Submissions PROVE witness'[t] \in Witnesses
      <4>1. witness[t] \in Witnesses
        BY DEF TypeOK, Witnesses
      <4>2. CASE witness'[t] = [witness[t] EXCEPT !.offers = witness[t].offers \union {landing'}]
        BY <3>1, <4>1, <4>2 DEF Witnesses
      <4>3. CASE witness'[t] = [witness[t] EXCEPT !.prices = witness[t].prices \union {product'}]
        BY <3>1, <4>1, <4>3 DEF Witnesses
      <4> QED
        BY <1>12, <4>2, <4>3 DEF ChangeLanding, ChangeProduct
    <3> QED
      BY <1>12, <3>2, WitnessType DEF ChangeLanding, ChangeProduct
  <2> QED
    BY <1>12, <2>1 DEF TypeOK, ChangeLanding, ChangeProduct, Change, Witnesses
<1>13. CASE ChangeLimit \/ AddBlacklistEntry \/ EnableGeoipRule
  BY <1>13 DEF TypeOK, ChangeLimit, AddBlacklistEntry, EnableGeoipRule, Change
<1>14. CASE RemoveBlacklistEntry \/ DisableGeoipRule
  <2>1. witness' \in [Submissions -> Witnesses]
    <3>1. ASSUME NEW t \in Submissions PROVE witness'[t] \in Witnesses
      <4>1. witness[t] \in Witnesses
        BY DEF TypeOK, Witnesses
      <4>2. ASSUME NEW e,
                   \/ witness'[t] = [witness[t] EXCEPT !.listed = witness[t].listed \ {e}]
                   \/ witness'[t] = [witness[t] EXCEPT !.rules = witness[t].rules \ {e}]
            PROVE  witness'[t] \in Witnesses
        BY <4>1, <4>2 DEF Witnesses
      <4> QED
        BY <1>14, <4>2 DEF RemoveBlacklistEntry, DisableGeoipRule
    <3> QED
      BY <1>14, <3>1, WitnessType DEF RemoveBlacklistEntry, DisableGeoipRule
  <2> QED
    BY <1>14, <2>1 DEF TypeOK, RemoveBlacklistEntry, DisableGeoipRule, Change, Witnesses
<1>15. CASE UNCHANGED vars
  BY <1>15 DEF TypeOK
<1> QED
  BY <1>1, <1>2, <1>3, <1>4, <1>5, <1>6, <1>7, <1>8, <1>9, <1>10, <1>11, <1>12,
     <1>13, <1>14, <1>15 DEF Next, Submit

----------------------------------------------------------------------------
(* Who changes what *)

(* A step of one request changes nothing of another.                        *)
LEMMA OneRequest ==
  ASSUME TypeOK, NEW s \in Submissions, Submit(s) \/ Crash(s), NEW t \in Submissions \ {s}
  PROVE  /\ pc'[t] = pc[t] /\ terms'[t] = terms[t] /\ flags'[t] = flags[t]
         /\ answer'[t] = answer[t] /\ witness'[t] = witness[t]
         /\ t \in unknown' <=> t \in unknown
         /\ t \in DOMAIN orders' <=> t \in Ordered
         /\ t \in Ordered => orders'[t] = orders[t]
         /\ UNCHANGED admin /\ recent \subseteq recent'
<1> USE DEF request, redis, Goto, Reply, Ordered
<1>1. CASE Receive(s) \/ ReadLanding(s) \/ ReadProduct(s) \/ ReadConfig(s)
  BY <1>1 DEF TypeOK, Receive, ReadLanding, ReadProduct, ReadConfig
<1>2. CASE CountPhone(s) \/ CountIp(s)
  BY <1>2 DEF TypeOK, CountPhone, CountIp, CheckRateLimit
<1>3. CASE CheckDuplicate(s) \/ CheckBlacklistPhone(s) \/ CheckBlacklistIp(s)
             \/ CheckGeoip(s)
  BY <1>3 DEF TypeOK, CheckDuplicate, CheckBlacklistPhone, CheckBlacklistIp,
              CheckGeoip, Flag
<1>4. CASE Commit(s)
  BY <1>4 DEF TypeOK, Commit
<1>5. CASE HandOff(s) \/ FailDatabase(s) \/ Crash(s)
  BY <1>5 DEF TypeOK, HandOff, FailDatabase, Crash
<1> QED
  BY <1>1, <1>2, <1>3, <1>4, <1>5 DEF Submit

(* What goes on around the requests: time and administrators.               *)
Around ==
  \/ \E s \in Submissions : OrderAges(s)
  \/ \E k \in Keys : WindowEnds(k)
  \/ ChangeLanding \/ ChangeProduct \/ ChangeLimit \/ AddBlacklistEntry
  \/ RemoveBlacklistEntry \/ EnableGeoipRule \/ DisableGeoipRule

(* It changes no request and no order; what held since a request arrived is *)
(* revised together with what holds.                                        *)
LEMMA AroundRequests ==
  ASSUME TypeOK, Around
  PROVE  /\ UNCHANGED <<orders, pc, terms, flags, answer, unknown>>
         /\ \A t \in Submissions :
              /\ witness'[t].orders \subseteq witness[t].orders
              /\ witness'[t].listed \subseteq witness[t].listed
              /\ witness'[t].rules \subseteq witness[t].rules
              /\ witness[t].offers \subseteq witness'[t].offers
              /\ witness[t].prices \subseteq witness'[t].prices
              /\ witness[t].orders \subseteq recent => witness'[t].orders \subseteq recent'
              /\ witness[t].listed \subseteq blacklist =>
                   witness'[t].listed \subseteq blacklist'
              /\ witness[t].rules \subseteq rules => witness'[t].rules \subseteq rules'
              /\ landing' = landing \/ landing' \in witness'[t].offers
              /\ product' = product \/ product' \in witness'[t].prices
<1> USE DEF admin, redis, request
<1>0. \A t \in Submissions : witness[t] \in Witnesses
  BY DEF TypeOK, Witnesses
<1>1. CASE \E s \in Submissions : OrderAges(s)
  BY <1>0, <1>1 DEF OrderAges, Witnesses
<1>2. CASE \E k \in Keys : WindowEnds(k)
  BY <1>2 DEF WindowEnds
<1>3. CASE ChangeLanding
  BY <1>0, <1>3 DEF ChangeLanding, Change, Witnesses
<1>4. CASE ChangeProduct
  BY <1>0, <1>4 DEF ChangeProduct, Change, Witnesses
<1>5. CASE ChangeLimit \/ AddBlacklistEntry \/ EnableGeoipRule
  BY <1>5 DEF ChangeLimit, AddBlacklistEntry, EnableGeoipRule, Change
<1>6. CASE RemoveBlacklistEntry
  BY <1>0, <1>6 DEF RemoveBlacklistEntry, Change, Witnesses
<1>7. CASE DisableGeoipRule
  BY <1>0, <1>7 DEF DisableGeoipRule, Change, Witnesses
<1> QED
  BY <1>1, <1>2, <1>3, <1>4, <1>5, <1>6, <1>7 DEF Around

LEMMA ThreeKindsOfSteps ==
  ASSUME [Next]_vars
  PROVE  \/ \E s \in Submissions : Submit(s) \/ Crash(s)
         \/ Around
         \/ UNCHANGED vars
  BY DEF Next, Around

----------------------------------------------------------------------------
(* Answers *)

Stored(s) ==
  /\ orders[s].terms = terms[s]
  /\ orders[s].flags = flags[s]
  /\ orders[s].status = OrderStatus(flags[s])

Answered(s) ==
  /\ pc[s] # "done" => answer[s] = 0
  /\ s \in Ordered => pc[s] \in {"sync", "done"} /\ Stored(s)
  /\ pc[s] = "sync" => s \in Ordered
  /\ answer[s] = 201 => s \in Ordered
  /\ answer[s] = 422 => s \notin Ordered
  /\ answer[s] = 503 /\ s \notin unknown => s \notin Ordered

LEMMA AnsweredStep ==
  ASSUME TypeOK, [Next]_vars, \A s \in Submissions : Answered(s)
  PROVE  \A s \in Submissions : Answered(s)'
<1> USE DEF Ordered
<1>1. ASSUME NEW s \in Submissions, Submit(s) \/ Crash(s), NEW t \in Submissions \ {s}
      PROVE  Answered(t)'
  BY <1>1, OneRequest DEF Answered, Stored
<1>2. ASSUME NEW s \in Submissions, Submit(s) \/ Crash(s)
      PROVE  Answered(s)'
  <2> USE DEF request, redis, Goto, Reply
  <2>0. Answered(s)
    OBVIOUS
  <2>1. CASE Receive(s) \/ ReadLanding(s) \/ ReadProduct(s) \/ ReadConfig(s)
    BY <2>0, <2>1 DEF TypeOK, Answered, Receive, ReadLanding, ReadProduct, ReadConfig
  <2>2. CASE CountPhone(s) \/ CountIp(s)
    BY <2>0, <2>2 DEF TypeOK, Answered, CountPhone, CountIp
  <2>3. CASE CheckDuplicate(s) \/ CheckBlacklistPhone(s) \/ CheckBlacklistIp(s)
               \/ CheckGeoip(s)
    BY <2>0, <2>3 DEF TypeOK, Answered, CheckDuplicate, CheckBlacklistPhone,
                      CheckBlacklistIp, CheckGeoip
  <2>4. CASE Commit(s)
    BY <2>0, <2>4 DEF TypeOK, Answered, Stored, Commit
  <2>5. CASE HandOff(s) \/ FailDatabase(s) \/ Crash(s)
    BY <2>0, <2>5 DEF TypeOK, Answered, Stored, HandOff, FailDatabase, Crash
  <2> QED
    BY <1>2, <2>1, <2>2, <2>3, <2>4, <2>5 DEF Submit
<1>3. CASE Around
  BY <1>3, AroundRequests DEF Answered, Stored
<1>4. CASE UNCHANGED vars
  BY <1>4 DEF vars, request, Answered, Stored
<1> QED
  BY <1>1, <1>2, <1>3, <1>4, ThreeKindsOfSteps

----------------------------------------------------------------------------
(* Offers and prices *)

Offered(s) ==
  /\ pc[s] # "new" => landing \in witness[s].offers /\ product \in witness[s].prices
  /\ pc[s] = "product" => terms[s].offer \in witness[s].offers
  /\ pc[s] \in Priced \/ s \in Ordered =>
       /\ terms[s].offer \in witness[s].offers \ {Closed}
       /\ terms[s].price \in witness[s].prices \ {Closed}
       /\ terms[s] \in [offer : Offers, price : Prices]

LEMMA OfferedStep ==
  ASSUME TypeOK, [Next]_vars, \A s \in Submissions : Answered(s) /\ Offered(s)
  PROVE  \A s \in Submissions : Offered(s)'
<1> USE DEF Ordered, Priced
<1>1. ASSUME NEW s \in Submissions, Submit(s) \/ Crash(s), NEW t \in Submissions \ {s}
      PROVE  Offered(t)'
  BY <1>1, OneRequest DEF Offered, admin
<1>2. ASSUME NEW s \in Submissions, Submit(s) \/ Crash(s)
      PROVE  Offered(s)'
  <2> USE DEF request, redis, admin, Goto, Reply
  <2>0. Answered(s) /\ Offered(s)
    OBVIOUS
  <2>1. CASE Receive(s)
    BY <2>0, <2>1 DEF TypeOK, Answered, Offered, Receive
  <2>2. CASE ReadLanding(s)
    BY <2>0, <2>2 DEF TypeOK, Answered, Offered, ReadLanding
  <2>3. CASE ReadProduct(s)
    <3>1. terms[s] \in TermsRecords
      BY DEF TypeOK, TermsRecords
    <3>2. landing \in Offers \union {Closed} /\ product \in Prices \union {Closed}
      BY DEF TypeOK
    <3>3. CASE /\ terms[s].offer # Closed /\ product # Closed
               /\ terms' = [terms EXCEPT ![s].price = product] /\ Goto(s, "config")
      <4>1. terms'[s] = [offer |-> terms[s].offer, price |-> product]
        BY <3>1, <3>3 DEF TypeOK, TermsRecords
      <4> QED
        BY <2>0, <2>3, <3>1, <3>2, <3>3, <4>1 DEF TypeOK, Offered, ReadProduct, TermsRecords
    <3>4. CASE Reply(s, 422) /\ UNCHANGED terms
      BY <2>0, <2>3, <3>4 DEF TypeOK, Answered, Offered, ReadProduct
    <3> QED
      BY <2>3, <3>3, <3>4 DEF ReadProduct
  <2>4. CASE ReadConfig(s)
    BY <2>0, <2>4 DEF TypeOK, Offered, ReadConfig
  <2>5. CASE CountPhone(s) \/ CountIp(s)
    BY <2>0, <2>5 DEF TypeOK, Offered, CountPhone, CountIp
  <2>6. CASE CheckDuplicate(s) \/ CheckBlacklistPhone(s) \/ CheckBlacklistIp(s)
               \/ CheckGeoip(s)
    BY <2>0, <2>6 DEF TypeOK, Offered, CheckDuplicate, CheckBlacklistPhone,
                      CheckBlacklistIp, CheckGeoip
  <2>7. CASE Commit(s)
    BY <2>0, <2>7 DEF TypeOK, Offered, Commit
  <2>8. CASE HandOff(s) \/ FailDatabase(s) \/ Crash(s)
    BY <2>0, <2>8 DEF TypeOK, Offered, HandOff, FailDatabase, Crash
  <2> QED
    BY <1>2, <2>1, <2>2, <2>3, <2>4, <2>5, <2>6, <2>7, <2>8 DEF Submit
<1>3. CASE Around
  BY <1>3, AroundRequests DEF Offered
<1>4. CASE UNCHANGED vars
  BY <1>4 DEF vars, request, admin, Offered
<1> QED
  BY <1>1, <1>2, <1>3, <1>4, ThreeKindsOfSteps

----------------------------------------------------------------------------
(* Screening *)

(* From which statement on a check of a request is behind it.               *)
Committing == {"commit", "sync"}
DuplicateDone == Committing \union {"blacklistPhone", "blacklistIp", "geoip"}
PhoneDone == Committing \union {"blacklistIp", "geoip"}
IpDone == Committing \union {"geoip"}

Screened(s) ==
  LET w == witness[s] IN
  /\ w.orders \subseteq recent /\ w.listed \subseteq blacklist /\ w.rules \subseteq rules
  /\ pc[s] \in DuplicateDone /\ w.orders \intersect Similar(s) # {} => flags[s] # {}
  /\ pc[s] \in PhoneDone /\ PhoneOf[s] \in w.listed => flags[s] # {}
  /\ pc[s] \in IpDone /\ IpOf[s] \in w.listed => flags[s] # {}
  /\ pc[s] \in Committing /\ CountryOf[s] \in w.rules => flags[s] # {}

LEMMA ScreenedStep ==
  ASSUME TypeOK, [Next]_vars, \A s \in Submissions : Screened(s)
  PROVE  \A s \in Submissions : Screened(s)'
<1> USE DEF Ordered, Committing, DuplicateDone, PhoneDone, IpDone
<1>0. \A t \in Submissions : Similar(t)' = Similar(t)
  BY DEF Similar
<1>1. ASSUME NEW s \in Submissions, Submit(s) \/ Crash(s), NEW t \in Submissions \ {s}
      PROVE  Screened(t)'
  BY <1>0, <1>1, OneRequest DEF Screened, admin
<1>2. ASSUME NEW s \in Submissions, Submit(s) \/ Crash(s)
      PROVE  Screened(s)'
  <2> USE DEF request, redis, admin, Goto, Reply
  <2>0. Screened(s)
    OBVIOUS
  <2>1. CASE Receive(s)
    BY <2>1 DEF TypeOK, Screened, Receive
  <2>2. CASE ReadLanding(s) \/ ReadProduct(s) \/ ReadConfig(s)
    BY <2>0, <2>2 DEF TypeOK, Screened, ReadLanding, ReadProduct, ReadConfig
  <2>3. CASE CountPhone(s) \/ CountIp(s)
    BY <2>0, <2>3 DEF TypeOK, Screened, CountPhone, CountIp
  <2>4. CASE CheckDuplicate(s)
    <3>1. /\ flags[s] \subseteq flags'[s]
          /\ recent \intersect Similar(s) # {} => flags'[s] # {}
      <4>1. flags'[s] = IF recent \intersect Similar(s) # {}
                        THEN flags[s] \union {"duplicate"} ELSE flags[s]
        BY <2>4 DEF TypeOK, CheckDuplicate, Flag
      <4> QED
        BY <4>1
    <3>2. pc'[s] = "blacklistPhone" /\ witness'[s] = witness[s] /\ UNCHANGED <<admin, recent>>
      BY <2>4 DEF TypeOK, CheckDuplicate
    <3> QED
      BY <1>0, <2>0, <3>1, <3>2 DEF Screened
  <2>5. CASE CheckBlacklistPhone(s)
    <3>1. /\ flags[s] \subseteq flags'[s]
          /\ PhoneOf[s] \in blacklist => flags'[s] # {}
      <4>1. flags'[s] = IF PhoneOf[s] \in blacklist
                        THEN flags[s] \union {"blacklist"} ELSE flags[s]
        BY <2>5 DEF TypeOK, CheckBlacklistPhone, Flag
      <4> QED
        BY <4>1
    <3>2. /\ pc[s] = "blacklistPhone" /\ pc'[s] = "blacklistIp"
          /\ witness'[s] = witness[s] /\ UNCHANGED <<admin, recent>>
      BY <2>5 DEF TypeOK, CheckBlacklistPhone
    <3> QED
      BY <1>0, <2>0, <3>1, <3>2 DEF Screened
  <2>6. CASE CheckBlacklistIp(s)
    <3>1. /\ flags[s] \subseteq flags'[s]
          /\ IpOf[s] \in blacklist => flags'[s] # {}
      <4>1. flags'[s] = IF IpOf[s] \in blacklist
                        THEN flags[s] \union {"blacklist"} ELSE flags[s]
        BY <2>6 DEF TypeOK, CheckBlacklistIp, Flag
      <4> QED
        BY <4>1
    <3>2. /\ pc[s] = "blacklistIp" /\ pc'[s] = "geoip"
          /\ witness'[s] = witness[s] /\ UNCHANGED <<admin, recent>>
      BY <2>6 DEF TypeOK, CheckBlacklistIp
    <3> QED
      BY <1>0, <2>0, <3>1, <3>2 DEF Screened
  <2>7. CASE CheckGeoip(s)
    <3>1. /\ flags[s] \subseteq flags'[s]
          /\ CountryOf[s] \in rules => flags'[s] # {}
      <4>1. flags'[s] = IF CountryOf[s] \in rules
                        THEN flags[s] \union {"geoip"} ELSE flags[s]
        BY <2>7 DEF TypeOK, CheckGeoip, Flag
      <4> QED
        BY <4>1
    <3>2. /\ pc[s] = "geoip" /\ pc'[s] = "commit"
          /\ witness'[s] = witness[s] /\ UNCHANGED <<admin, recent>>
      BY <2>7 DEF TypeOK, CheckGeoip
    <3> QED
      BY <1>0, <2>0, <3>1, <3>2 DEF Screened
  <2>8. CASE Commit(s)
    BY <1>0, <2>0, <2>8 DEF TypeOK, Screened, Commit
  <2>9. CASE HandOff(s) \/ FailDatabase(s) \/ Crash(s)
    BY <1>0, <2>0, <2>9 DEF TypeOK, Screened, HandOff, FailDatabase, Crash
  <2> QED
    BY <1>2, <2>1, <2>2, <2>3, <2>4, <2>5, <2>6, <2>7, <2>8, <2>9 DEF Submit
<1>3. CASE Around
  BY <1>0, <1>3, AroundRequests DEF Screened
<1>4. CASE UNCHANGED vars
  BY <1>0, <1>4 DEF vars, request, admin, Screened
<1> QED
  BY <1>1, <1>2, <1>3, <1>4, ThreeKindsOfSteps

----------------------------------------------------------------------------
(* The rate limit *)

(* The requests of a counter's window that their own count did not flag.    *)
RateFlag(k) == IF k \in Phones THEN "rate_limit_phone" ELSE "rate_limit_ip"
Free(k) == {s \in window[k] : RateFlag(k) \notin flags[s]}

(* There are no more of them than the counter shows, and no more than the   *)
(* largest limit applied; and a request is in a window only after it was    *)
(* counted.                                                                 *)
Limited(k) ==
  /\ Cardinality(Free(k)) <= count[k]
  /\ Cardinality(Free(k)) <= strictness[k]

LEMMA FreeIsFinite ==
  ASSUME TypeOK, NEW k \in Keys
  PROVE  IsFiniteSet(Free(k)) /\ Cardinality(Free(k)) \in Nat
<1>1. Free(k) \subseteq Submissions
  BY DEF TypeOK, Free
<1> QED
  BY <1>1, SubmissionAssumption, FS_Subset, FS_CardinalityType

(* A set that does not grow keeps the bound.                                *)
LEMMA FewerAreLimited ==
  ASSUME TypeOK, TypeOK', NEW k \in Keys, Limited(k), Free(k)' \subseteq Free(k),
         count[k] <= count'[k], strictness[k] <= strictness'[k]
  PROVE  Limited(k)'
<1>1. Cardinality(Free(k)') \in Nat /\ Cardinality(Free(k)') <= Cardinality(Free(k))
  BY FreeIsFinite, FS_Subset, FS_CardinalityType
<1>2. /\ count[k] \in Nat /\ count'[k] \in Nat
      /\ strictness[k] \in Nat /\ strictness'[k] \in Nat
  BY DEF TypeOK
<1>3. Cardinality(Free(k)) \in Nat
  BY FreeIsFinite
<1> QED
  BY <1>1, <1>2, <1>3 DEF Limited

LEMMA CountKeepsLimit ==
  ASSUME TypeOK, TypeOK', NEW s \in Submissions, NEW key \in Keys,
         CheckRateLimit(s, key, RateFlag(key)), NEW k \in Keys, Limited(k)
  PROVE  Limited(k)'
<1>1. CASE UNCHANGED <<redis, flags>>
  BY <1>1 DEF Limited, Free, RateFlag, redis
<1>2. CASE /\ count' = [count EXCEPT ![key] = @ + 1]
           /\ window' = [window EXCEPT ![key] = @ \union {s}]
           /\ strictness' = [strictness EXCEPT ![key] = IF cap[s] > @ THEN cap[s] ELSE @]
           /\ flags' = [flags EXCEPT ![s] =
                          IF count[key] + 1 > cap[s] THEN @ \union {RateFlag(key)} ELSE @]
  <2>1. \A t \in Submissions : flags[t] \subseteq flags'[t]
    BY <1>2 DEF TypeOK
  <2>2. /\ count[key] \in Nat /\ cap[s] \in Nat /\ strictness[key] \in Nat
        /\ window \in [Keys -> SUBSET Submissions]
    BY DEF TypeOK
  <2>3. CASE k # key
    <3>1. window'[k] = window[k] /\ count'[k] = count[k] /\ strictness'[k] = strictness[k]
      BY <1>2, <2>3 DEF TypeOK
    <3>2. Free(k)' \subseteq Free(k)
      BY <2>1, <2>2, <3>1 DEF Free, RateFlag
    <3>3. count[k] \in Nat /\ strictness[k] \in Nat
      BY DEF TypeOK
    <3> QED
      BY <3>1, <3>2, <3>3, FewerAreLimited
  <2>4. CASE k = key
    <3>1. /\ window'[k] = window[k] \union {s} /\ count'[k] = count[k] + 1
          /\ strictness'[k] = IF cap[s] > strictness[k] THEN cap[s] ELSE strictness[k]
          /\ flags'[s] = IF count[k] + 1 > cap[s] THEN flags[s] \union {RateFlag(k)}
                                                  ELSE flags[s]
      BY <1>2, <2>4 DEF TypeOK
    <3>2. CASE count[k] + 1 > cap[s]
      <4>1. Free(k)' \subseteq Free(k)
        BY <2>1, <2>2, <3>1, <3>2 DEF Free, RateFlag
      <4> QED
        BY <2>2, <2>4, <3>1, <4>1, FewerAreLimited
    <3>3. CASE ~(count[k] + 1 > cap[s])
      <4>1. Free(k)' \subseteq Free(k) \union {s}
        BY <2>1, <2>2, <3>1 DEF Free, RateFlag
      <4>2. /\ IsFiniteSet(Free(k) \union {s})
            /\ Cardinality(Free(k) \union {s}) <= Cardinality(Free(k)) + 1
            /\ Cardinality(Free(k) \union {s}) \in Nat
        <5>1. IsFiniteSet(Free(k)) /\ Cardinality(Free(k)) \in Nat
          BY FreeIsFinite
        <5>2. /\ IsFiniteSet(Free(k) \union {s})
              /\ \/ Cardinality(Free(k) \union {s}) = Cardinality(Free(k))
                 \/ Cardinality(Free(k) \union {s}) = Cardinality(Free(k)) + 1
          BY <5>1, FS_AddElement
        <5> QED
          BY <5>1, <5>2
      <4>3. Cardinality(Free(k)') \in Nat
            /\ Cardinality(Free(k)') <= Cardinality(Free(k) \union {s})
        BY <4>1, <4>2, FS_Subset, FS_CardinalityType
      <4>4. Cardinality(Free(k)) <= count[k] /\ Cardinality(Free(k)) \in Nat
        BY FreeIsFinite DEF Limited
      <4> QED
        BY <2>2, <2>4, <3>1, <3>3, <4>2, <4>3, <4>4 DEF Limited
    <3> QED
      BY <3>2, <3>3
  <2> QED
    BY <2>3, <2>4
<1> QED
  BY <1>1, <1>2 DEF CheckRateLimit

LEMMA LimitedStep ==
  ASSUME TypeOK, TypeOK', [Next]_vars, NEW k \in Keys, Limited(k)
  PROVE  Limited(k)'
<1> USE DEF admin, redis, request
<1>1. ASSUME UNCHANGED redis, \A t \in Submissions : flags[t] \subseteq flags'[t]
      PROVE  Limited(k)'
  <2>1. Free(k)' \subseteq Free(k)
    BY <1>1 DEF Free, RateFlag, TypeOK
  <2>2. count[k] \in Nat /\ strictness[k] \in Nat
    BY DEF TypeOK
  <2> QED
    BY <1>1, <2>1, <2>2, FewerAreLimited
<1>2. ASSUME NEW s \in Submissions, CountPhone(s) PROVE Limited(k)'
  <2>1. PhoneOf[s] \in Keys /\ RateFlag(PhoneOf[s]) = "rate_limit_phone"
    BY KeysOf DEF RateFlag, Phones
  <2> QED
    BY <1>2, <2>1, CountKeepsLimit DEF CountPhone
<1>3. ASSUME NEW s \in Submissions, CountIp(s) PROVE Limited(k)'
  <2>1. IpOf[s] \in Keys /\ RateFlag(IpOf[s]) = "rate_limit_ip"
    BY KeysOf, SubmissionAssumption DEF RateFlag, Ips
  <2> QED
    BY <1>3, <2>1, CountKeepsLimit DEF CountIp
<1>4. ASSUME NEW s \in Submissions,
             \/ Receive(s) \/ ReadLanding(s) \/ ReadProduct(s) \/ ReadConfig(s)
             \/ Commit(s) \/ HandOff(s) \/ FailDatabase(s) \/ Crash(s)
      PROVE  Limited(k)'
  BY <1>1, <1>4 DEF Receive, ReadLanding, ReadProduct, ReadConfig, Commit, HandOff,
                    FailDatabase, Crash
<1>5. ASSUME NEW s \in Submissions,
             CheckDuplicate(s) \/ CheckBlacklistPhone(s) \/ CheckBlacklistIp(s)
               \/ CheckGeoip(s)
      PROVE  Limited(k)'
  <2>1. \A t \in Submissions : flags[t] \subseteq flags'[t]
    <3>1. CASE CheckDuplicate(s)
      BY <3>1 DEF TypeOK, CheckDuplicate, Flag
    <3>2. CASE CheckBlacklistPhone(s)
      BY <3>2 DEF TypeOK, CheckBlacklistPhone, Flag
    <3>3. CASE CheckBlacklistIp(s)
      BY <3>3 DEF TypeOK, CheckBlacklistIp, Flag
    <3>4. CASE CheckGeoip(s)
      BY <3>4 DEF TypeOK, CheckGeoip, Flag
    <3> QED
      BY <1>5, <3>1, <3>2, <3>3, <3>4
  <2> QED
    BY <1>1, <1>5, <2>1 DEF CheckDuplicate, CheckBlacklistPhone, CheckBlacklistIp,
                            CheckGeoip
<1>6. ASSUME NEW key \in Keys, WindowEnds(key) PROVE Limited(k)'
  <2>1. CASE k = key
    <3>1. window'[k] = {} /\ count'[k] = 0 /\ strictness'[k] = 0
      BY <1>6, <2>1 DEF TypeOK, WindowEnds
    <3>2. Free(k)' = {}
      BY <3>1 DEF Free
    <3> QED
      BY <3>1, <3>2, FS_EmptySet DEF Limited
  <2>2. CASE k # key
    BY <1>6, <2>2 DEF TypeOK, WindowEnds, Limited, Free, RateFlag
  <2> QED
    BY <2>1, <2>2
<1>7. CASE ChangeLanding \/ ChangeProduct \/ ChangeLimit \/ AddBlacklistEntry
             \/ RemoveBlacklistEntry \/ EnableGeoipRule \/ DisableGeoipRule
  BY <1>1, <1>7 DEF ChangeLanding, ChangeProduct, ChangeLimit, AddBlacklistEntry,
                    RemoveBlacklistEntry, EnableGeoipRule, DisableGeoipRule, Change
<1>8. ASSUME NEW s \in Submissions, OrderAges(s) PROVE Limited(k)'
  BY <1>1, <1>8 DEF OrderAges
<1>9. CASE UNCHANGED vars
  BY <1>1, <1>9 DEF vars
<1> QED
  BY <1>2, <1>3, <1>4, <1>5, <1>6, <1>7, <1>8, <1>9 DEF Next, Submit

----------------------------------------------------------------------------
(* The inductive invariant and what follows from it *)

IInv == /\ TypeOK
        /\ \A s \in Submissions : Answered(s) /\ Offered(s) /\ Screened(s)
        /\ \A k \in Keys : Limited(k)

LEMMA Initially == Init => IInv
<1> SUFFICES ASSUME Init PROVE IInv
  OBVIOUS
<1>1. TypeOK
  <2>1. NoWitness \in Witnesses
    BY DEF NoWitness, Witnesses
  <2>2. [offer |-> Closed, price |-> Closed] \in TermsRecords
    BY DEF TermsRecords
  <2>3. orders \in [Ordered -> OrderRecords] /\ Ordered = {}
    BY DEF Init, Ordered
  <2> QED
    BY <2>1, <2>2, <2>3 DEF Init, TypeOK, PCs, Witnesses, TermsRecords
<1>2. Ordered = {}
  BY DEF Init, Ordered
<1>3. ASSUME NEW s \in Submissions PROVE Answered(s) /\ Offered(s) /\ Screened(s)
  BY <1>2 DEF Init, Answered, Offered, Screened, Priced, Committing, DuplicateDone,
              PhoneDone, IpDone, NoWitness
<1>4. ASSUME NEW k \in Keys PROVE Limited(k)
  <2>1. Free(k) = {} /\ count[k] = 0 /\ strictness[k] = 0
    BY DEF Init, Free
  <2> QED
    BY <2>1, FS_EmptySet DEF Limited
<1> QED
  BY <1>1, <1>3, <1>4 DEF IInv

LEMMA Always == Spec => []IInv
<1>1. ASSUME IInv, [Next]_vars PROVE IInv'
  <2>1. HasTerms
    BY <1>1 DEF IInv, HasTerms, Offered
  <2>2. TypeOK'
    BY <1>1, <2>1, TypeStep DEF IInv
  <2>3. \A s \in Submissions : Answered(s)' /\ Offered(s)' /\ Screened(s)'
    BY <1>1, AnsweredStep, OfferedStep, ScreenedStep DEF IInv
  <2>4. \A k \in Keys : Limited(k)'
    BY <1>1, <2>2, LimitedStep DEF IInv
  <2>5. Keys' = Keys
    BY DEF Keys, Phones, Ips
  <2> QED
    BY <2>2, <2>3, <2>4, <2>5 DEF IInv
<1> QED
  BY Initially, <1>1, PTL DEF Spec

(* Every variable keeps its type.                                           *)
THEOREM TypeCorrect == Spec => []TypeOK
  BY Always, PTL DEF IInv

(* A committed order was flagged if anything spoke against it from the      *)
(* arrival of its request to the commit.                                    *)
THEOREM NothingSlipsThrough == Spec => []ScreeningSeesThePast
<1>1. IInv => ScreeningSeesThePast
  BY DEF IInv, ScreeningSeesThePast, Answered, Stored, Screened, OrderStatus,
         Committing, DuplicateDone, PhoneDone, IpDone
<1> QED
  BY Always, <1>1, PTL

(* Within one window of a counter no more orders stay unflagged than the    *)
(* largest limit applied in it.                                             *)
THEOREM LimitIsKept == Spec => []RateLimitHolds
<1>1. ASSUME IInv PROVE RateLimitHolds
  <2>1. ASSUME NEW k \in Keys PROVE Cardinality(Unflagged(k)) <= strictness[k]
    <3>1. Unflagged(k) \subseteq Free(k)
      BY <1>1 DEF Unflagged, Free, IInv, TypeOK, Answered, Stored
    <3>2. /\ Cardinality(Unflagged(k)) \in Nat /\ Cardinality(Free(k)) \in Nat
          /\ Cardinality(Unflagged(k)) <= Cardinality(Free(k))
      BY <1>1, <3>1, FreeIsFinite, FS_Subset, FS_CardinalityType DEF IInv
    <3>3. strictness[k] \in Nat /\ Cardinality(Free(k)) <= strictness[k]
      BY <1>1 DEF IInv, TypeOK, Limited
    <3> QED
      BY <3>2, <3>3
  <2> QED
    BY <2>1 DEF RateLimitHolds
<1> QED
  BY Always, <1>1, PTL

(* Every order was sold under an offer and at a price set since its request *)
(* arrived.                                                                 *)
THEOREM OffersAreHonoured == Spec => []SoldAsOffered
<1>1. IInv => SoldAsOffered
  BY DEF IInv, SoldAsOffered, TypeOK, Answered, Stored, Offered
<1> QED
  BY Always, <1>1, PTL

(* The HTTP status a customer sees tells whether the order is stored.       *)
THEOREM AnswersAreTrue == Spec => []AnswerIsTrue
<1>1. IInv => AnswerIsTrue
  BY DEF IInv, AnswerIsTrue, Answered
<1> QED
  BY Always, <1>1, PTL
=============================================================================
