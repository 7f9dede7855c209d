---------------------------- MODULE LandingTraffic ----------------------------
(****************************************************************************)
(* Traffic counters of one landing: a hash per business day and an index of *)
(* pending days in Redis, folded into one PostgreSQL row per day.           *)
(*                                                                          *)
(* Workers are public tracking requests and dashboard requests.  A Lua      *)
(* script is one step; every other Redis or SQL call is one step, too.      *)
(* Views and clicks are two fields that every operation treats alike, so    *)
(* one counter is modelled.                                                 *)
(****************************************************************************)
EXTENDS Integers, FiniteSets

CONSTANTS
  Workers,      \* concurrent requests
  LastDay,      \* bound: business days in a behaviour are 1 .. LastDay
  MaxEvents,    \* bound: tracking events in a behaviour
  MaxFailures,  \* bound: failing calls in a behaviour
  Faults        \* which of "redis", "reply", "db", "timeout" may happen

ASSUME TrafficAssumption ==
  /\ LastDay \in Nat \ {0}
  /\ MaxEvents \in Nat
  /\ MaxFailures \in Nat
  /\ Faults \subseteq {"redis", "reply", "db", "timeout"}

Days == 1 .. LastDay

VARIABLES
  today,      \* colombia_today()
  hash,       \* Redis: events of each day's hash, 0 if the key does not exist
  expires,    \* Redis: days whose key has a TTL
  index,      \* Redis: days in the landing's set of pending days
  pg,         \* PostgreSQL: view_count of each day
  fallback,   \* PostgreSQL: fallback_view_count of each day
  pc,         \* next call of each worker
  day,        \* business day an event was stamped with
  current,    \* current_day of a reconciliation
  todo,       \* days it still has to look at
  snapshot,   \* the hash it read
  events,     \* tracking events so far
  failures,   \* calls that failed so far
  counted,    \* history: increments Redis has applied, by day
  late,       \* history: days incremented after they had ended
  unsure      \* history: increments applied whose reply was lost

redis == <<hash, expires, index>>
postgres == <<pg, fallback>>
local == <<day, current, todo, snapshot>>
history == <<counted, late, unsure>>
vars == <<today, redis, postgres, pc, local, events, failures, history>>

PCs == {"idle", "increment", "fallback", "members", "all", "hgetall", "srem",
        "persist", "acknowledge"}

Init ==
  /\ today = 1
  /\ hash = [d \in Days |-> 0]
  /\ expires = {}
  /\ index = {}
  /\ pg = [d \in Days |-> 0]
  /\ fallback = [d \in Days |-> 0]
  /\ pc = [w \in Workers |-> "idle"]
  /\ day = [w \in Workers |-> 1]
  /\ current = [w \in Workers |-> 1]
  /\ todo = [w \in Workers |-> {}]
  /\ snapshot = [w \in Workers |-> 0]
  /\ events = 0
  /\ failures = 0
  /\ counted = [d \in Days |-> 0]
  /\ late = {}
  /\ unsure = 0

Goto(w, where) == pc' = [pc EXCEPT ![w] = where]

Failure == failures < MaxFailures /\ failures' = failures + 1

(* Midnight in Colombia. *)
DayEnds ==
  /\ today < LastDay
  /\ today' = today + 1
  /\ UNCHANGED <<redis, postgres, pc, local, events, failures, history>>

(* 48 hours after the acknowledgement, abstracted to any time after it. *)
KeyExpires(d) ==
  /\ d \in expires
  /\ hash' = [hash EXCEPT ![d] = 0]
  /\ expires' = expires \ {d}
  /\ UNCHANGED <<today, index, postgres, pc, local, events, failures, history>>

----------------------------------------------------------------------------
(* _record *)

(* record_view, record_cta_click: the event is stamped with its day ...     *)
Record(w) ==
  /\ pc[w] = "idle"
  /\ events < MaxEvents
  /\ events' = events + 1
  /\ day' = [day EXCEPT ![w] = today]
  /\ Goto(w, "increment")
  /\ UNCHANGED <<today, redis, postgres, current, todo, snapshot, failures,
                 history>>

(* Faulty variant: the day is not indexed. *)
ApplyIncrementUnindexed(d) ==
  /\ hash' = [hash EXCEPT ![d] = @ + 1]
  /\ counted' = [counted EXCEPT ![d] = @ + 1]
  /\ late' = IF d < today THEN late \union {d} ELSE late
  /\ UNCHANGED <<expires, index>>

(* ... and the script increments the day's hash and indexes the day.        *)
ApplyIncrement(d) ==
  /\ hash' = [hash EXCEPT ![d] = @ + 1]
  /\ index' = index \union {d}
  /\ counted' = [counted EXCEPT ![d] = @ + 1]
  /\ late' = IF d < today THEN late \union {d} ELSE late
  /\ UNCHANGED expires

(* A reply that shows an older pending day starts a reconciliation of the   *)
(* past days, as of the day of the event.                                   *)
Increment(w) ==
  /\ pc[w] = "increment"
  /\ ApplyIncrement(day[w])
  /\ \/ /\ \E d \in index : d < day[w]
        /\ current' = [current EXCEPT ![w] = day[w]]
        /\ Goto(w, "members")
     \/ /\ \A d \in index : d >= day[w]
        /\ Goto(w, "idle")
        /\ UNCHANGED current
  /\ day' = [day EXCEPT ![w] = 1]
  /\ UNCHANGED <<today, postgres, todo, snapshot, events, failures, unsure>>

(* Redis is down, or the reply is lost after the script ran.                *)
IncrementFails(w) ==
  /\ pc[w] = "increment"
  /\ Failure
  /\ \/ /\ "redis" \in Faults
        /\ UNCHANGED <<redis, history>>
     \/ /\ "reply" \in Faults
        /\ ApplyIncrement(day[w])
        /\ unsure' = unsure + 1
  /\ Goto(w, "fallback")
  /\ day' = [day EXCEPT ![w] = 1]
  /\ UNCHANGED <<today, postgres, current, todo, snapshot, events>>

(* record_fallback counts on the database's current day, or fails (5xx).    *)
RecordFallback(w) ==
  /\ pc[w] = "fallback"
  /\ \/ fallback' = [fallback EXCEPT ![today] = @ + 1] /\ UNCHANGED failures
     \/ "db" \in Faults /\ Failure /\ UNCHANGED fallback
  /\ Goto(w, "idle")
  /\ UNCHANGED <<today, redis, pg, local, events, history>>

----------------------------------------------------------------------------
(* reconcile_landing *)

(* Faulty variant: the dashboard asks for the days up to yesterday. *)
OpenAnalyticsYesterday(w) ==
  /\ pc[w] = "idle"
  /\ current' = [current EXCEPT ![w] = today - 1]
  /\ Goto(w, "all")
  /\ UNCHANGED <<today, redis, postgres, day, todo, snapshot, events, failures,
                 history>>

(* The dashboard reconciles every day, the current one included.            *)
OpenAnalytics(w) ==
  /\ pc[w] = "idle"
  /\ current' = [current EXCEPT ![w] = today]
  /\ Goto(w, "all")
  /\ UNCHANGED <<today, redis, postgres, day, todo, snapshot, events, failures,
                 history>>

(* Go on with the earliest day left, or end. *)
NextDay(w, left) ==
  /\ todo' = [todo EXCEPT ![w] = left]
  /\ current' = IF left = {} THEN [current EXCEPT ![w] = 1] ELSE current
  /\ snapshot' = [snapshot EXCEPT ![w] = 0]
  /\ Goto(w, IF left = {} THEN "idle" ELSE "hgetall")

Earliest(w) == CHOOSE d \in todo[w] : \A e \in todo[w] : d <= e

(* smembers; an event's reconciliation leaves its own day out.              *)
ReadMembers(w) ==
  /\ \/ pc[w] = "members" /\ NextDay(w, {d \in index : d < current[w]})
     \/ pc[w] = "all" /\ NextDay(w, index)
  /\ UNCHANGED <<today, redis, postgres, day, events, failures, history>>

ReadHash(w) ==
  /\ pc[w] = "hgetall"
  /\ snapshot' = [snapshot EXCEPT ![w] = hash[Earliest(w)]]
  /\ Goto(w, IF hash[Earliest(w)] = 0 THEN "srem" ELSE "persist")
  /\ UNCHANGED <<today, redis, postgres, day, current, todo, events, failures,
                 history>>

(* The key has expired: only its index entry is left.                       *)
ForgetDay(w) ==
  /\ pc[w] = "srem"
  /\ index' = index \ {Earliest(w)}
  /\ NextDay(w, todo[w] \ {Earliest(w)})
  /\ UNCHANGED <<today, hash, expires, postgres, day, events, failures,
                 history>>

(* Faulty variants: the snapshot is added, or replaces what is stored.      *)
MergeBySum(stored, read) == stored + read
MergeByOverwriting(stored, read) == read
Merge(stored, read) == IF read > stored THEN read ELSE stored

(* Faulty variant: the current day is acknowledged, too. *)
ClosedAlways(w, d) == d <= current[w]
Closed(w, d) == d < current[w]

(* persist_redis_snapshot: GREATEST of the stored total and the snapshot    *)
Persist(w) ==
  LET d == Earliest(w) IN
  /\ pc[w] = "persist"
  /\ pg' = [pg EXCEPT ![d] = Merge(@, snapshot[w])]
  /\ \/ Closed(w, d) /\ Goto(w, "acknowledge") /\ UNCHANGED <<todo, current, snapshot>>
     \/ ~Closed(w, d) /\ NextDay(w, todo[w] \ {d})
  /\ UNCHANGED <<today, redis, fallback, day, events, failures, history>>

(* The acknowledgement script: a TTL on the key, the day off the index      *)
Acknowledge(w) ==
  LET d == Earliest(w) IN
  /\ pc[w] = "acknowledge"
  /\ expires' = IF hash[d] > 0 THEN expires \union {d} ELSE expires
  /\ index' = index \ {d}
  /\ NextDay(w, todo[w] \ {d})
  /\ UNCHANGED <<today, hash, postgres, day, events, failures, history>>

(* An exception leaves the day pending; smembers ends the reconciliation.   *)
SkipDay(w) ==
  /\ Failure
  /\ \/ /\ pc[w] \in {"hgetall", "srem", "acknowledge"} /\ "redis" \in Faults
        /\ NextDay(w, todo[w] \ {Earliest(w)})
     \/ /\ pc[w] = "persist" /\ "db" \in Faults
        /\ NextDay(w, todo[w] \ {Earliest(w)})
     \/ /\ pc[w] \in {"members", "all"} /\ "redis" \in Faults
        /\ NextDay(w, {})
  /\ UNCHANGED <<today, redis, postgres, day, events, history>>

(* The dashboard's deadline cancels its reconciliation, a stop any of them. *)
Cancel(w) ==
  /\ "timeout" \in Faults
  /\ Failure
  /\ pc[w] # "idle"
  /\ NextDay(w, {})
  /\ UNCHANGED <<today, redis, postgres, day, events, history>>

----------------------------------------------------------------------------
Reconcile(w) ==
  ReadMembers(w) \/ ReadHash(w) \/ ForgetDay(w) \/ Persist(w) \/ Acknowledge(w)

Next ==
  \/ DayEnds
  \/ \E d \in Days : KeyExpires(d)
  \/ \E w \in Workers :
       \/ Record(w) \/ Increment(w) \/ IncrementFails(w) \/ RecordFallback(w)
       \/ OpenAnalytics(w) \/ Reconcile(w) \/ SkipDay(w) \/ Cancel(w)

Spec == Init /\ [][Next]_vars

(* Administrators keep opening the dashboard, days end, calls in flight end *)
(* and outages end (MaxFailures).                                           *)
FairSpec ==
  /\ Spec
  /\ WF_vars(DayEnds)
  /\ \A w \in Workers : /\ WF_vars(OpenAnalytics(w))
                         /\ WF_vars(Reconcile(w))
                         /\ WF_vars(Increment(w))
                         /\ WF_vars(RecordFallback(w))

----------------------------------------------------------------------------
(* Properties *)

(* Every variable has its type. *)
TypeOK ==
  /\ today \in Days
  /\ hash \in [Days -> Nat]
  /\ expires \subseteq Days
  /\ index \subseteq Days
  /\ pg \in [Days -> Nat]
  /\ fallback \in [Days -> Nat]
  /\ pc \in [Workers -> PCs]
  /\ day \in [Workers -> Days]
  /\ current \in [Workers -> Days]
  /\ todo \in [Workers -> SUBSET Days]
  /\ snapshot \in [Workers -> Nat]
  /\ events \in Nat
  /\ failures \in Nat
  /\ counted \in [Days -> Nat]
  /\ late \subseteq Days
  /\ unsure \in Nat

(* What PostgreSQL does not hold yet is in a key that does not expire and   *)
(* that the index names, for every day that got no event after its end: an  *)
(* idle landing loses nothing, however reconciliations overlap or fail.     *)
Pending(d) == hash[d] = counted[d] /\ d \notin expires /\ d \in index
NothingForgotten ==
  \A d \in Days \ late : pg[d] # counted[d] => Pending(d)

(* The sum of a counter over the days: its events, numbered by day. *)
Numbered(counter) == UNION {{d} \X (1 .. counter[d]) : d \in Days}
Total(counter) == Cardinality(Numbered(counter))

(* No snapshot and no retry counts an event twice; only an increment whose  *)
(* reply was lost may be counted again by the fallback.                     *)
NoDoubleCount ==
  /\ \A d \in Days : pg[d] <= counted[d] /\ hash[d] <= counted[d]
  /\ Total(counted) + Total(fallback) <= events + unsure

(* PostgreSQL is a ledger of the events Redis counted: it names no event    *)
(* that was not counted and "an older snapshot can never replace a newer    *)
(* one" (persist_redis_snapshot), for any overlap of reconciliations.       *)
Ledger == INSTANCE TrafficLedger WITH stored <- pg
ImplementsLedger == Ledger!Spec

(* A day that has ended reaches PostgreSQL completely in the end.           *)
DaysArePersisted ==
  \A d \in Days : d < today ~> (pg[d] = counted[d] \/ d \in late)
=============================================================================
