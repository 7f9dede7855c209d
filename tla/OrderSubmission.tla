--------------------------- MODULE OrderSubmission ---------------------------
(****************************************************************************)
(* Public order submission: validation, the rate-limit counters in Redis,   *)
(* the fraud checks and the one transaction that stores the order.          *)
(*                                                                          *)
(* Each awaited statement is a step.  The transaction runs at READ          *)
(* COMMITTED: its reads are steps of their own, each sees what is committed *)
(* by then, and its inserts become visible together at COMMIT.              *)
(****************************************************************************)
EXTENDS Naturals, FiniteSets

CONSTANTS
  Submissions,     \* the POST /orders requests of a behaviour
  PhoneOf, IpOf,   \* phoneNormalizedKey and client IP address of each
  CountryOf,       \* what the GeoIP database says of each
  Offers,          \* values of landings.offers an administrator may set
  Prices,          \* values of products.price an administrator may set
  Limits,          \* values of rate_limit_max an administrator may set
  Faults,          \* which of "redis", "db", "commit", "crash" may happen
  MaxChanges       \* bound: administrator changes in a behaviour

Phones == {PhoneOf[s] : s \in Submissions}
Ips == {IpOf[s] : s \in Submissions}
Countries == {CountryOf[s] : s \in Submissions}

ASSUME SubmissionAssumption ==
  /\ IsFiniteSet(Submissions)
  /\ Phones \intersect Ips = {}
  /\ Limits \subseteq Nat \ {0}
  /\ Faults \subseteq {"redis", "db", "commit", "crash"}
  /\ MaxChanges \in Nat
  /\ "closed" \notin Offers \union Prices

Keys == Phones \union Ips         \* rl:phone:<key> and rl:ip:<address>
Blacklistable == Phones \union Ips
FlagTypes == {"duplicate", "blacklist", "rate_limit_phone", "rate_limit_ip",
              "geoip"}
Closed == "closed"

VARIABLES
  landing,    \* the landing's offers; Closed unless it is published
  product,    \* its product's price; Closed unless that is active
  limit,      \* fraud_config.rate_limit_max
  blacklist,  \* manual blacklist entries
  rules,      \* countries with an enabled GeoIP rule
  count,      \* the Redis counters
  orders,     \* committed orders, by submission: price, flags, status, sync
  recent,     \* submissions whose order is inside the duplicate window
  pc,         \* next awaited statement of each request
  terms,      \* offer and price the request has read, Closed before
  cap,        \* rate_limit_max the request read
  flags,      \* flags the request has collected
  answer,     \* HTTP status given, 0 before
  unknown,    \* history: requests whose answer to COMMIT was lost
  changes,    \* administrator changes so far
  window,     \* history: per counter, the requests counted since it restarted
  strictness, \* history: per counter, the largest cap applied since then
  witness     \* history: what held all the time since the request arrived,
              \* and every offer and price that was set in that time

admin == <<landing, product, limit, blacklist, rules, changes>>
redis == <<count, window, strictness>>
request == <<terms, cap, flags, answer, unknown>>
vars == <<admin, redis, orders, recent, pc, request, witness>>

OrderRecords == [terms : [offer : Offers, price : Prices], flags : SUBSET FlagTypes,
                 status : {"pending", "flagged_fraud"},
                 sync : {"pending", "waiting_review"}]
Ordered == DOMAIN orders
PCs == {"new", "landing", "product", "config", "phone", "ip", "duplicate",
        "blacklistPhone", "blacklistIp", "geoip", "commit", "sync", "done"}

NoWitness == [orders |-> {}, listed |-> {}, rules |-> {}, offers |-> {},
              prices |-> {}]

Init ==
  /\ landing \in Offers
  /\ product \in Prices
  /\ limit \in Limits
  /\ blacklist \in SUBSET Blacklistable
  /\ rules \in SUBSET Countries
  /\ changes = 0
  /\ count = [k \in Keys |-> 0]
  /\ window = [k \in Keys |-> {}]
  /\ strictness = [k \in Keys |-> 0]
  /\ orders = << >>
  /\ recent = {}
  /\ pc = [s \in Submissions |-> "new"]
  /\ terms = [s \in Submissions |-> [offer |-> Closed, price |-> Closed]]
  /\ cap = [s \in Submissions |-> 0]
  /\ flags = [s \in Submissions |-> {}]
  /\ answer = [s \in Submissions |-> 0]
  /\ unknown = {}
  /\ witness = [s \in Submissions |-> NoWitness]

Goto(s, where) == pc' = [pc EXCEPT ![s] = where]

Reply(s, status) ==
  /\ Goto(s, "done")
  /\ answer' = [answer EXCEPT ![s] = status]

----------------------------------------------------------------------------
(* The request arrives; the fields that need no database are validated.     *)
Receive(s) ==
  /\ pc[s] = "new"
  /\ witness' = [witness EXCEPT ![s] =
                   [orders |-> recent, listed |-> blacklist, rules |-> rules,
                    offers |-> {landing}, prices |-> {product}]]
  /\ \/ Goto(s, "landing") /\ UNCHANGED answer
     \/ Reply(s, 422)
  /\ UNCHANGED <<admin, redis, orders, recent, terms, cap, flags, unknown>>

(* find_unique(landing) with its product: the landing row ...              *)
ReadLanding(s) ==
  /\ pc[s] = "landing"
  /\ terms' = [terms EXCEPT ![s].offer = landing]
  /\ Goto(s, "product")
  /\ UNCHANGED <<admin, redis, orders, recent, cap, flags, answer, witness,
                 unknown>>

(* Faulty variant: the price is the one the request names. *)
ReadProductTrusting(s) ==
  /\ pc[s] = "product"
  /\ \/ /\ terms[s].offer # Closed /\ product # Closed
        /\ \E named \in Prices : terms' = [terms EXCEPT ![s].price = named]
        /\ Goto(s, "config")
        /\ UNCHANGED answer
     \/ /\ terms[s].offer = Closed \/ product = Closed
        /\ Reply(s, 422)
        /\ UNCHANGED terms
  /\ UNCHANGED <<admin, redis, orders, recent, cap, flags, witness, unknown>>

(* ... then the product row: published, active, and the price.              *)
ReadProduct(s) ==
  /\ pc[s] = "product"
  /\ \/ /\ terms[s].offer # Closed /\ product # Closed
        /\ terms' = [terms EXCEPT ![s].price = product]
        /\ Goto(s, "config")
        /\ UNCHANGED answer
     \/ /\ terms[s].offer = Closed \/ product = Closed
        /\ Reply(s, 422)
        /\ UNCHANGED terms
  /\ UNCHANGED <<admin, redis, orders, recent, cap, flags, witness, unknown>>

(* The fraud configuration; banned city, variants, quantity are checked.    *)
ReadConfig(s) ==
  /\ pc[s] = "config"
  /\ \/ /\ cap' = [cap EXCEPT ![s] = limit]
        /\ Goto(s, "phone")
        /\ UNCHANGED answer
     \/ Reply(s, 422) /\ UNCHANGED cap
  /\ UNCHANGED <<admin, redis, orders, recent, terms, flags, witness,
                 unknown>>

(* Faulty variant: the counter is compared before it is incremented. *)
CheckRateLimitBefore(s, key, flag) ==
  /\ count' = [count EXCEPT ![key] = @ + 1]
  /\ window' = [window EXCEPT ![key] = @ \union {s}]
  /\ strictness' = [strictness EXCEPT ![key] = IF cap[s] > @ THEN cap[s] ELSE @]
  /\ flags' = [flags EXCEPT ![s] =
                 IF count[key] > cap[s] THEN @ \union {flag} ELSE @]

(* check_rate_limit: one INCR per request; an unreachable Redis does not    *)
(* trigger.                                                                 *)
CheckRateLimit(s, key, flag) ==
  \/ /\ count' = [count EXCEPT ![key] = @ + 1]
     /\ window' = [window EXCEPT ![key] = @ \union {s}]
     /\ strictness' = [strictness EXCEPT ![key] = IF cap[s] > @ THEN cap[s] ELSE @]
     /\ flags' = [flags EXCEPT ![s] =
                    IF count[key] + 1 > cap[s] THEN @ \union {flag} ELSE @]
  \/ /\ "redis" \in Faults
     /\ UNCHANGED <<redis, flags>>

CountPhone(s) ==
  /\ pc[s] = "phone"
  /\ CheckRateLimit(s, PhoneOf[s], "rate_limit_phone")
  /\ Goto(s, "ip")
  /\ UNCHANGED <<admin, orders, recent, terms, cap, answer, witness,
                 unknown>>

CountIp(s) ==
  /\ pc[s] = "ip"
  /\ CheckRateLimit(s, IpOf[s], "rate_limit_ip")
  /\ Goto(s, "duplicate")
  /\ UNCHANGED <<admin, orders, recent, terms, cap, answer, witness,
                 unknown>>

(* Faulty variant: one earlier order is tolerated. *)
CheckDuplicateTolerant(s) ==
  /\ pc[s] = "duplicate"
  /\ flags' = [flags EXCEPT ![s] =
                 IF Cardinality({t \in recent : PhoneOf[t] = PhoneOf[s]}) > 1
                 THEN @ \union {"duplicate"} ELSE @]
  /\ Goto(s, "blacklistPhone")
  /\ UNCHANGED <<admin, redis, orders, recent, terms, cap, answer, witness,
                 unknown>>

(* check_duplicate: an order in the window with the same phone and the same *)
(* address; the configured match fields select among these, and cannot      *)
(* reject any.                                                              *)
Similar(s) == {t \in Submissions : PhoneOf[t] = PhoneOf[s] /\ IpOf[t] = IpOf[s]}

Flag(s, flag, triggered) ==
  flags' = [flags EXCEPT ![s] = IF triggered THEN @ \union {flag} ELSE @]

CheckDuplicate(s) ==
  /\ pc[s] = "duplicate"
  /\ Flag(s, "duplicate", recent \intersect Similar(s) # {})
  /\ Goto(s, "blacklistPhone")
  /\ UNCHANGED <<admin, redis, orders, recent, terms, cap, answer, witness,
                 unknown>>

(* check_blacklist looks the phone up, then the address.                    *)
CheckBlacklistPhone(s) ==
  /\ pc[s] = "blacklistPhone"
  /\ Flag(s, "blacklist", PhoneOf[s] \in blacklist)
  /\ Goto(s, "blacklistIp")
  /\ UNCHANGED <<admin, redis, orders, recent, terms, cap, answer, witness,
                 unknown>>

CheckBlacklistIp(s) ==
  /\ pc[s] = "blacklistIp"
  /\ Flag(s, "blacklist", IpOf[s] \in blacklist)
  /\ Goto(s, "geoip")
  /\ UNCHANGED <<admin, redis, orders, recent, terms, cap, answer, witness,
                 unknown>>

CheckGeoip(s) ==
  /\ pc[s] = "geoip"
  /\ Flag(s, "geoip", CountryOf[s] \in rules)
  /\ Goto(s, "commit")
  /\ UNCHANGED <<admin, redis, orders, recent, terms, cap, answer, witness,
                 unknown>>

OrderStatus(fl) == IF fl = {} THEN "pending" ELSE "flagged_fraud"

(* Faulty variant: the row takes over the status of the order. *)
SyncStatusOfOrder(fl) == OrderStatus(fl)
SyncStatus(fl) == IF fl = {} THEN "pending" ELSE "waiting_review"

(* COMMIT: order, details, sync row, flags and audit entry together.  The   *)
(* connection may break under the answer to COMMIT: the client is told 503. *)
Commit(s) ==
  /\ pc[s] = "commit"
  /\ orders' = [t \in Ordered \union {s} |->
                 IF t # s THEN orders[t]
                 ELSE [terms |-> terms[s], flags |-> flags[s],
                       status |-> OrderStatus(flags[s]),
                       sync |-> SyncStatus(flags[s])]]
  /\ recent' = recent \union {s}
  /\ \/ Goto(s, "sync") /\ UNCHANGED <<answer, unknown>>
     \/ /\ "commit" \in Faults
        /\ Reply(s, 503)
        /\ unknown' = unknown \union {s}
  /\ UNCHANGED <<admin, redis, terms, cap, flags, witness>>

(* Faulty variant: a failure after COMMIT reaches the client. *)
HandOffMayFail(s) ==
  /\ pc[s] = "sync"
  /\ \E status \in {201, 503} : Reply(s, status)
  /\ UNCHANGED <<admin, redis, orders, recent, terms, cap, flags, witness,
                 unknown>>

(* A pending order is handed to MasterShop (module OrderSync); whatever     *)
(* comes of it the client is told 201.                                      *)
HandOff(s) ==
  /\ pc[s] = "sync"
  /\ Reply(s, 201)
  /\ UNCHANGED <<admin, redis, orders, recent, terms, cap, flags, witness,
                 unknown>>

(* A database error at any statement rolls back; the counters keep their    *)
(* increments.                                                              *)
FailDatabase(s) ==
  /\ "db" \in Faults
  /\ pc[s] \in {"landing", "product", "config", "duplicate", "blacklistPhone",
               "blacklistIp", "geoip", "commit"}
  /\ Reply(s, 503)
  /\ UNCHANGED <<admin, redis, orders, recent, terms, cap, flags, witness,
                 unknown>>

(* The process stops: the request gets no answer. *)
Crash(s) ==
  /\ "crash" \in Faults
  /\ pc[s] \notin {"new", "done"}
  /\ Goto(s, "done")
  /\ UNCHANGED <<admin, redis, orders, recent, request, witness>>

----------------------------------------------------------------------------
(* Time and administrators *)

(* The counter's TTL runs out. *)
WindowEnds(k) ==
  /\ count[k] > 0
  /\ count' = [count EXCEPT ![k] = 0]
  /\ window' = [window EXCEPT ![k] = {}]
  /\ strictness' = [strictness EXCEPT ![k] = 0]
  /\ UNCHANGED <<admin, orders, recent, pc, request, witness>>

(* An order's createdAt falls out of the duplicate window. *)
OrderAges(s) ==
  /\ s \in recent
  /\ recent' = recent \ {s}
  /\ witness' = [t \in Submissions |->
                   [witness[t] EXCEPT !.orders = @ \ {s}]]
  /\ UNCHANGED <<admin, redis, orders, pc, request>>

Change ==
  /\ changes < MaxChanges
  /\ changes' = changes + 1
  /\ UNCHANGED <<redis, orders, recent, pc, request>>

(* Publishing, unpublishing the landing or editing its offers *)
ChangeLanding ==
  /\ Change
  /\ landing' \in (Offers \union {Closed}) \ {landing}
  /\ witness' = [t \in Submissions |->
                   [witness[t] EXCEPT !.offers = @ \union {landing'}]]
  /\ UNCHANGED <<product, limit, blacklist, rules>>

(* Activating, pausing the product or editing its price *)
ChangeProduct ==
  /\ Change
  /\ product' \in (Prices \union {Closed}) \ {product}
  /\ witness' = [t \in Submissions |->
                   [witness[t] EXCEPT !.prices = @ \union {product'}]]
  /\ UNCHANGED <<landing, limit, blacklist, rules>>

(* update_config *)
ChangeLimit ==
  /\ Change
  /\ limit' \in Limits \ {limit}
  /\ UNCHANGED <<landing, product, blacklist, rules, witness>>

(* add_blacklist_entry, remove_blacklist_entry *)
AddBlacklistEntry ==
  /\ Change
  /\ \E e \in Blacklistable \ blacklist : blacklist' = blacklist \union {e}
  /\ UNCHANGED <<landing, product, limit, rules, witness>>

RemoveBlacklistEntry ==
  /\ Change
  /\ \E e \in blacklist :
       /\ blacklist' = blacklist \ {e}
       /\ witness' = [t \in Submissions |-> [witness[t] EXCEPT !.listed = @ \ {e}]]
  /\ UNCHANGED <<landing, product, limit, rules>>

(* create_geoip_rule, update_geoip_rule, delete_geoip_rule *)
EnableGeoipRule ==
  /\ Change
  /\ \E c \in Countries \ rules : rules' = rules \union {c}
  /\ UNCHANGED <<landing, product, limit, blacklist, witness>>

DisableGeoipRule ==
  /\ Change
  /\ \E c \in rules :
       /\ rules' = rules \ {c}
       /\ witness' = [t \in Submissions |-> [witness[t] EXCEPT !.rules = @ \ {c}]]
  /\ UNCHANGED <<landing, product, limit, blacklist>>

----------------------------------------------------------------------------
Submit(s) ==
  \/ Receive(s) \/ ReadLanding(s) \/ ReadProduct(s) \/ ReadConfig(s)
  \/ CountPhone(s) \/ CountIp(s) \/ CheckDuplicate(s)
  \/ CheckBlacklistPhone(s) \/ CheckBlacklistIp(s) \/ CheckGeoip(s)
  \/ Commit(s) \/ HandOff(s) \/ FailDatabase(s)

Next ==
  \/ \E s \in Submissions : Submit(s) \/ Crash(s) \/ OrderAges(s)
  \/ \E k \in Keys : WindowEnds(k)
  \/ ChangeLanding \/ ChangeProduct \/ ChangeLimit \/ AddBlacklistEntry \/ RemoveBlacklistEntry
  \/ EnableGeoipRule \/ DisableGeoipRule

Spec == Init /\ [][Next]_vars

----------------------------------------------------------------------------
(* Properties *)

(* Every variable has its type. *)
TypeOK ==
  /\ landing \in Offers \union {Closed}
  /\ product \in Prices \union {Closed}
  /\ limit \in Limits
  /\ blacklist \subseteq Blacklistable
  /\ rules \subseteq Countries
  /\ changes \in Nat
  /\ count \in [Keys -> Nat]
  /\ window \in [Keys -> SUBSET Submissions]
  /\ strictness \in [Keys -> Nat]
  /\ Ordered \subseteq Submissions
  /\ orders \in [Ordered -> OrderRecords]
  /\ recent \subseteq Ordered
  /\ pc \in [Submissions -> PCs]
  /\ terms \in [Submissions -> [offer : Offers \union {Closed},
                                price : Prices \union {Closed}]]
  /\ cap \in [Submissions -> Nat]
  /\ flags \in [Submissions -> SUBSET FlagTypes]
  /\ answer \in [Submissions -> {0, 201, 422, 503}]
  /\ unknown \subseteq Submissions
  /\ witness \in [Submissions -> [orders : SUBSET Submissions,
                                  listed : SUBSET Blacklistable,
                                  rules : SUBSET Countries,
                                  offers : SUBSET (Offers \union {Closed}),
                                  prices : SUBSET (Prices \union {Closed})]]

(* Whatever held from the arrival of a request until its commit - a similar *)
(* order in the window, a blacklist entry, a GeoIP rule - has flagged the   *)
(* order: the checks run late enough to see it and early enough to count.   *)
ScreeningSeesThePast ==
  \A s \in Submissions :
    pc[s] = "sync" =>
      LET w == witness[s] IN
      \/ orders[s].status = "flagged_fraud"
      \/ /\ w.orders \intersect Similar(s) = {}
         /\ w.listed \intersect {PhoneOf[s], IpOf[s]} = {}
         /\ CountryOf[s] \notin w.rules

(* However requests interleave, one Redis window of a phone or an address   *)
(* lets through unflagged at most as many orders as the largest limit that  *)
(* was applied in it.                                                       *)
Unflagged(k) == {s \in window[k] \intersect Ordered : orders[s].flags = {}}
RateLimitHolds == \A k \in Keys : Cardinality(Unflagged(k)) <= strictness[k]

(* An order is sold under an offer and at a price that were each set at     *)
(* some moment since its request arrived, never ones that were closed or    *)
(* replaced before.                                                         *)
SoldAsOffered ==
  \A s \in Ordered : /\ orders[s].terms.offer \in witness[s].offers \ {Closed}
                      /\ orders[s].terms.price \in witness[s].prices \ {Closed}

(* What the customer is told is what happened: 201 means stored, 422 means  *)
(* not stored, and 503 too unless the answer to COMMIT was lost.            *)
AnswerIsTrue ==
  \A s \in Submissions :
    /\ answer[s] = 201 => s \in Ordered
    /\ answer[s] = 422 => s \notin Ordered
    /\ answer[s] = 503 /\ s \notin unknown => s \notin Ordered
=============================================================================
