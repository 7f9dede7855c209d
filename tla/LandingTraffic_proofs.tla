------------------------ MODULE LandingTraffic_proofs ------------------------
(****************************************************************************)
(* Proofs about LandingTraffic: no event of an ended day is lost between    *)
(* Redis and PostgreSQL, whatever reconciliations overlap, fail or are      *)
(* cancelled, for every number of workers, days and events.                 *)
(*                                                                          *)
(* The argument: a worker that is about to drop a day from the index or to  *)
(* let its key expire has read, or stored, everything that was counted on   *)
(* that day, and a day that has ended gets no further event except a late   *)
(* one.  That none is counted twice is a balance of sums and events.        *)
(****************************************************************************)
EXTENDS LandingTraffic, FiniteSetTheorems, TLAPS

(* Events and reconciliations never carry a day that is yet to come. *)
Calendar == \A w \in Workers : day[w] <= today /\ current[w] <= today

(* Neither store shows more than was counted. *)
Bounded == \A d \in Days : pg[d] <= counted[d] /\ hash[d] <= counted[d]

(* The hash of a day that has not ended is complete and cannot expire. *)
Open == \A d \in Days :
          d >= today => hash[d] = counted[d] /\ d \notin expires /\ d \notin late

(* Only days with events are pending. *)
Indexed ==
  /\ \A d \in index : counted[d] > 0
  /\ \A w \in Workers : \A d \in todo[w] : counted[d] > 0

(* A worker at one of a day's calls has a day left. *)
AtADay == {"hgetall", "srem", "persist", "acknowledge"}
Busy == \A w \in Workers : pc[w] \in AtADay => todo[w] # {}

(* What a worker holds of the day it is at. *)
Settled(d) == d \in late \/ pg[d] = counted[d]
Holds(w) ==
  LET d == Earliest(w) IN
  /\ pc[w] = "srem" => (d \in late \/ d < today) /\ Settled(d)
  /\ pc[w] = "persist" =>
       /\ snapshot[w] <= counted[d]
       /\ d < current[w] => Settled(d) \/ snapshot[w] = counted[d]
  /\ pc[w] = "acknowledge" => d < current[w] /\ Settled(d)
Held == \A w \in Workers : Holds(w)

----------------------------------------------------------------------------
(* The days, and the earliest of some of them *)

LEMMA DaysAreNumbers == Days \subseteq Nat /\ 1 \in Days
  BY TrafficAssumption DEF Days

(* Every nonempty set of numbers has a least element.                       *)
Before == {p \in Nat \X Nat : p[1] < p[2]}
LEMMA LeastNumber ==
  ASSUME NEW T \in SUBSET Nat, T # {}
  PROVE  \E d \in T : \A e \in T : d <= e
<1>1. IsWellFoundedOn(Before, Nat)
  BY NatLessThanWellFounded DEF OpToRel, Before
<1>2. PICK d \in T : \A e \in T : <<e, d>> \notin Before
  BY <1>1, WFMin
<1>3. ASSUME NEW e \in T PROVE d <= e
  <2>1. d \in Nat /\ e \in Nat
    OBVIOUS
  <2>2. <<e, d>> \in Nat \X Nat /\ <<e, d>>[1] = e /\ <<e, d>>[2] = d
    BY <2>1
  <2>3. ~(e < d)
    BY <1>2, <2>2 DEF Before
  <2> QED
    BY <2>1, <2>3
<1> QED
  BY <1>3

(* The earliest day of a reconciliation is one of the days it has left.     *)
LEMMA EarliestIsLeft ==
  ASSUME TypeOK, NEW w \in Workers, todo[w] # {}
  PROVE  Earliest(w) \in todo[w] /\ Earliest(w) \in Days
<1>1. todo[w] \subseteq Days
  BY DEF TypeOK
<1>2. \E d \in todo[w] : \A e \in todo[w] : d <= e
  BY <1>1, DaysAreNumbers, LeastNumber
<1> QED
  BY <1>1, <1>2 DEF Earliest

----------------------------------------------------------------------------
(* Type correctness *)

LEMMA NextDayType ==
  ASSUME TypeOK, NEW w \in Workers, NEW left \in SUBSET Days, NextDay(w, left)
  PROVE  /\ pc' \in [Workers -> PCs]
         /\ current' \in [Workers -> Days]
         /\ todo' \in [Workers -> SUBSET Days]
         /\ snapshot' \in [Workers -> Nat]
  BY DaysAreNumbers DEF TypeOK, NextDay, Goto, PCs

LEMMA ApplyIncrementType ==
  ASSUME TypeOK, NEW d \in Days, ApplyIncrement(d)
  PROVE  /\ hash' \in [Days -> Nat]
         /\ counted' \in [Days -> Nat]
         /\ expires' \subseteq Days /\ index' \subseteq Days /\ late' \subseteq Days
  BY DEF TypeOK, ApplyIncrement

LEMMA TypeStep ==
  ASSUME TypeOK, Busy, [Next]_vars
  PROVE  TypeOK'
<1> USE DaysAreNumbers DEF redis, postgres, local, history
<1>1. CASE DayEnds
  <2>1. today + 1 \in Days
    BY <1>1, TrafficAssumption DEF TypeOK, DayEnds, Days
  <2> QED
    BY <1>1, <2>1 DEF TypeOK, DayEnds
<1>2. ASSUME NEW d \in Days, KeyExpires(d) PROVE TypeOK'
  BY <1>2 DEF TypeOK, KeyExpires
<1>3. ASSUME NEW w \in Workers, Record(w) PROVE TypeOK'
  BY <1>3 DEF TypeOK, Record, Goto, PCs
<1>4. ASSUME NEW w \in Workers, Increment(w) PROVE TypeOK'
  <2>1. day[w] \in Days
    BY DEF TypeOK
  <2>2. current' \in [Workers -> Days] /\ day' \in [Workers -> Days]
    BY <1>4 DEF TypeOK, Increment
  <2>3. pc' \in [Workers -> PCs]
    BY <1>4 DEF TypeOK, Increment, Goto, PCs
  <2> QED
    BY <1>4, <2>1, <2>2, <2>3, ApplyIncrementType DEF TypeOK, Increment
<1>5. ASSUME NEW w \in Workers, IncrementFails(w) PROVE TypeOK'
  <2>1. day[w] \in Days
    BY DEF TypeOK
  <2>2. day' \in [Workers -> Days] /\ failures' \in Nat /\ unsure' \in Nat
    BY <1>5 DEF TypeOK, IncrementFails, Failure
  <2>3. pc' \in [Workers -> PCs]
    BY <1>5 DEF TypeOK, IncrementFails, Goto, PCs
  <2>4. /\ hash' \in [Days -> Nat]
        /\ counted' \in [Days -> Nat]
        /\ expires' \subseteq Days /\ index' \subseteq Days /\ late' \subseteq Days
    BY <1>5, <2>1, ApplyIncrementType DEF TypeOK, IncrementFails
  <2> QED
    BY <1>5, <2>2, <2>3, <2>4 DEF TypeOK, IncrementFails
<1>6. ASSUME NEW w \in Workers, RecordFallback(w) PROVE TypeOK'
  BY <1>6 DEF TypeOK, RecordFallback, Failure, Goto, PCs
<1>7. ASSUME NEW w \in Workers, OpenAnalytics(w) PROVE TypeOK'
  BY <1>7 DEF TypeOK, OpenAnalytics, Goto, PCs
<1>8. ASSUME NEW w \in Workers, ReadMembers(w) PROVE TypeOK'
  <2>1. index \in SUBSET Days /\ {d \in index : d < current[w]} \in SUBSET Days
    BY DEF TypeOK
  <2> QED
    BY <1>8, <2>1, NextDayType DEF TypeOK, ReadMembers
<1>9. ASSUME NEW w \in Workers, pc[w] \in AtADay PROVE Earliest(w) \in Days
  BY <1>9, EarliestIsLeft DEF Busy
<1>10. ASSUME NEW w \in Workers PROVE todo[w] \ {Earliest(w)} \in SUBSET Days
  BY DEF TypeOK
<1>11. ASSUME NEW w \in Workers, ReadHash(w) PROVE TypeOK'
  <2>1. hash[Earliest(w)] \in Nat
    BY <1>9, <1>11 DEF ReadHash, AtADay, TypeOK
  <2> QED
    BY <1>11, <2>1 DEF TypeOK, ReadHash, Goto, PCs
<1>12. ASSUME NEW w \in Workers, ForgetDay(w) PROVE TypeOK'
  BY <1>10, <1>12, NextDayType DEF TypeOK, ForgetDay
<1>13. ASSUME NEW w \in Workers, Persist(w) PROVE TypeOK'
  <2>1. pg' \in [Days -> Nat]
    BY <1>9, <1>13 DEF Persist, TypeOK, Merge
  <2>2. CASE Closed(w, Earliest(w)) /\ Goto(w, "acknowledge") /\ UNCHANGED <<todo, current, snapshot>>
    BY <1>13, <2>1, <2>2 DEF TypeOK, Persist, Goto, PCs
  <2>3. CASE NextDay(w, todo[w] \ {Earliest(w)})
    BY <1>10, <1>13, <2>1, <2>3, NextDayType DEF TypeOK, Persist
  <2> QED
    BY <1>13, <2>2, <2>3 DEF Persist
<1>14. ASSUME NEW w \in Workers, Acknowledge(w) PROVE TypeOK'
  <2>1. expires' \subseteq Days
    BY <1>9, <1>14 DEF Acknowledge, AtADay, TypeOK
  <2> QED
    BY <1>10, <1>14, <2>1, NextDayType DEF TypeOK, Acknowledge
<1>15. ASSUME NEW w \in Workers, SkipDay(w) PROVE TypeOK'
  <2>1. {} \in SUBSET Days
    OBVIOUS
  <2>2. \/ NextDay(w, todo[w] \ {Earliest(w)})
        \/ NextDay(w, {})
    BY <1>15 DEF SkipDay
  <2> QED
    BY <1>10, <1>15, <2>1, <2>2, NextDayType DEF TypeOK, SkipDay, Failure
<1>16. ASSUME NEW w \in Workers, Cancel(w) PROVE TypeOK'
  <2>1. {} \in SUBSET Days
    OBVIOUS
  <2> QED
    BY <1>16, <2>1, NextDayType DEF TypeOK, Cancel, Failure
<1>17. CASE UNCHANGED vars
  BY <1>17 DEF TypeOK, vars
<1> QED
  BY <1>1, <1>2, <1>3, <1>4, <1>5, <1>6, <1>7, <1>8, <1>11, <1>12, <1>13,
     <1>14, <1>15, <1>16, <1>17 DEF Next, Reconcile

----------------------------------------------------------------------------
(* Workers and their days *)

(* What going on with the next day leaves in a worker.                      *)
LEMMA NextDayEffect ==
  ASSUME TypeOK, NEW w \in Workers, NEW left, NextDay(w, left)
  PROVE  /\ todo'[w] = left
         /\ \/ pc'[w] = "idle" /\ current'[w] = 1
            \/ pc'[w] = "hgetall" /\ left # {} /\ current'[w] = current[w]
         /\ \A v \in Workers \ {w} :
              /\ pc'[v] = pc[v] /\ todo'[v] = todo[v]
              /\ current'[v] = current[v] /\ snapshot'[v] = snapshot[v]
  BY DEF TypeOK, NextDay, Goto

(* The actions of a worker that end with NextDay.                           *)
LEMMA MovesOn ==
  ASSUME NEW w \in Workers,
         ReadMembers(w) \/ ForgetDay(w) \/ Acknowledge(w) \/ SkipDay(w) \/ Cancel(w)
  PROVE  \E left \in SUBSET (index \union todo[w]) : NextDay(w, left)
<1>1. CASE ReadMembers(w)
  BY <1>1 DEF ReadMembers
<1>2. CASE ForgetDay(w) \/ Acknowledge(w)
  BY <1>2 DEF ForgetDay, Acknowledge
<1>3. CASE SkipDay(w) \/ Cancel(w)
  BY <1>3 DEF SkipDay, Cancel
<1> QED
  BY <1>1, <1>2, <1>3

LEMMA BusyStep ==
  ASSUME TypeOK, Busy, [Next]_vars
  PROVE  Busy'
<1> USE DEF Busy, AtADay, redis, postgres, local, history
<1>1. CASE DayEnds \/ \E d \in Days : KeyExpires(d)
  BY <1>1 DEF DayEnds, KeyExpires
<1>2. ASSUME NEW w \in Workers, Record(w) \/ OpenAnalytics(w) \/ RecordFallback(w)
      PROVE  Busy'
  BY <1>2 DEF TypeOK, Record, OpenAnalytics, RecordFallback, Goto
<1>3. ASSUME NEW w \in Workers, Increment(w) \/ IncrementFails(w) PROVE Busy'
  BY <1>3 DEF TypeOK, Increment, IncrementFails, Goto
<1>4. ASSUME NEW w \in Workers,
             ReadMembers(w) \/ ForgetDay(w) \/ Acknowledge(w) \/ SkipDay(w) \/ Cancel(w)
      PROVE  Busy'
  BY <1>4, MovesOn, NextDayEffect
<1>5. ASSUME NEW w \in Workers, ReadHash(w) PROVE Busy'
  BY <1>5 DEF TypeOK, ReadHash, Goto
<1>6. ASSUME NEW w \in Workers, Persist(w) PROVE Busy'
  <2>1. CASE NextDay(w, todo[w] \ {Earliest(w)})
    BY <2>1, NextDayEffect
  <2>2. CASE Goto(w, "acknowledge") /\ UNCHANGED todo
    BY <1>6, <2>2 DEF TypeOK, Persist, Goto
  <2> QED
    BY <1>6, <2>1, <2>2 DEF Persist
<1>7. CASE UNCHANGED vars
  BY <1>7 DEF vars
<1> QED
  BY <1>1, <1>2, <1>3, <1>4, <1>5, <1>6, <1>7 DEF Next, Reconcile

LEMMA CalendarStep ==
  ASSUME TypeOK, Busy, Calendar, [Next]_vars
  PROVE  Calendar'
<1> USE DEF Calendar, redis, postgres, local, history
<1>0. /\ \A d \in Days : d \in Nat /\ 1 <= d
      /\ today \in Nat
  BY DEF TypeOK, Days
<1>1. CASE DayEnds \/ \E d \in Days : KeyExpires(d)
  <2>1. UNCHANGED <<day, current>> /\ today' \in {today, today + 1}
    BY <1>1 DEF DayEnds, KeyExpires
  <2>2. \A w \in Workers : day[w] \in Nat /\ current[w] \in Nat
    BY <1>0 DEF TypeOK
  <2> QED
    BY <1>0, <2>1, <2>2
<1>2. ASSUME NEW w \in Workers, Record(w) \/ OpenAnalytics(w) \/ RecordFallback(w)
      PROVE  Calendar'
  BY <1>0, <1>2 DEF TypeOK, Record, OpenAnalytics, RecordFallback
<1>3. ASSUME NEW w \in Workers, Increment(w) \/ IncrementFails(w) PROVE Calendar'
  BY <1>0, <1>3 DEF TypeOK, Increment, IncrementFails
<1>4. ASSUME NEW w \in Workers, NEW left, NextDay(w, left), UNCHANGED <<today, day>>
      PROVE  Calendar'
  BY <1>0, <1>4, NextDayEffect DEF TypeOK
<1>5. ASSUME NEW w \in Workers,
             ReadMembers(w) \/ ForgetDay(w) \/ Acknowledge(w) \/ SkipDay(w) \/ Cancel(w)
      PROVE  Calendar'
  <2>1. UNCHANGED <<today, day>>
    BY <1>5 DEF ReadMembers, ForgetDay, Acknowledge, SkipDay, Cancel
  <2> QED
    BY <1>4, <1>5, <2>1, MovesOn
<1>6. ASSUME NEW w \in Workers, ReadHash(w) PROVE Calendar'
  BY <1>6 DEF ReadHash
<1>7. ASSUME NEW w \in Workers, Persist(w) PROVE Calendar'
  <2>1. CASE NextDay(w, todo[w] \ {Earliest(w)})
    BY <1>4, <1>7, <2>1 DEF Persist
  <2>2. CASE UNCHANGED current
    BY <1>7, <2>2 DEF Persist
  <2> QED
    BY <1>7, <2>1, <2>2 DEF Persist
<1>8. CASE UNCHANGED vars
  BY <1>8 DEF vars
<1> QED
  BY <1>1, <1>2, <1>3, <1>5, <1>6, <1>7, <1>8 DEF Next, Reconcile

----------------------------------------------------------------------------
(* The stores *)

(* How the shared state moves in a step, whoever takes it.                  *)
Onward ==
  /\ today <= today'
  /\ late \subseteq late'
  /\ \A d \in Days :
       /\ pg[d] <= pg'[d] /\ pg'[d] <= counted'[d]
       /\ hash'[d] <= counted'[d]
       /\ counted[d] <= counted'[d]
       /\ counted'[d] = counted[d] \/ d \in late' \/ d = today

Stored == TypeOK /\ Busy /\ Calendar /\ Bounded /\ Held

LEMMA OnwardIfStoresKept ==
  ASSUME TypeOK, Bounded, UNCHANGED <<hash, pg, counted, late>>, today' = today
  PROVE  Onward
  BY DaysAreNumbers DEF TypeOK, Bounded, Onward

LEMMA OnwardIncrement ==
  ASSUME Stored, NEW w \in Workers, ApplyIncrement(day[w]), UNCHANGED <<today, pg>>
  PROVE  Onward
<1>1. day[w] \in Days /\ day[w] <= today /\ today \in Nat /\ day[w] \in Nat
  BY DaysAreNumbers DEF Stored, TypeOK, Calendar
<1> DEFINE e == day[w]
<1>2. /\ hash' = [hash EXCEPT ![e] = @ + 1]
      /\ counted' = [counted EXCEPT ![e] = @ + 1]
      /\ late' = IF e < today THEN late \union {e} ELSE late
  BY DEF ApplyIncrement
<1>3. \A d \in Days : pg[d] \in Nat /\ hash[d] \in Nat /\ counted[d] \in Nat
  BY DEF Stored, TypeOK
<1>4. \A d \in Days :
        /\ hash'[d] = IF d = e THEN hash[d] + 1 ELSE hash[d]
        /\ counted'[d] = IF d = e THEN counted[d] + 1 ELSE counted[d]
        /\ pg'[d] = pg[d]
  BY <1>2 DEF Stored, TypeOK
<1>5. \A d \in Days : pg[d] <= counted[d] /\ hash[d] <= counted[d]
  BY DEF Stored, Bounded
<1> HIDE DEF e
<1>6. e \in late' \/ e = today
  BY <1>1, <1>2 DEF e
<1>7. late \subseteq late'
  BY <1>2
<1> QED
  BY <1>1, <1>3, <1>4, <1>5, <1>6, <1>7 DEF Onward

LEMMA OnwardPersist ==
  ASSUME Stored, NEW w \in Workers, Persist(w)
  PROVE  Onward
<1> DEFINE e == Earliest(w)
<1>1. e \in Days
  BY EarliestIsLeft DEF Persist, Stored, Busy, AtADay
<1>2. snapshot[w] \in Nat /\ snapshot[w] <= counted[e]
  BY DEF Stored, Held, Holds, Persist, TypeOK
<1>3. /\ \A d \in Days : pg'[d] = IF d = e THEN Merge(pg[d], snapshot[w]) ELSE pg[d]
      /\ UNCHANGED <<today, hash, counted, late>>
  BY <1>1 DEF Persist, Stored, TypeOK, redis, history
<1>4. \A d \in Days : /\ pg[d] \in Nat /\ hash[d] \in Nat /\ counted[d] \in Nat
                      /\ pg[d] <= counted[d] /\ hash[d] <= counted[d]
  BY DEF Stored, TypeOK, Bounded
<1>5. today \in Nat
  BY DaysAreNumbers DEF Stored, TypeOK
<1> HIDE DEF e
<1> QED
  BY <1>1, <1>2, <1>3, <1>4, <1>5 DEF Onward, Merge

LEMMA OnwardStep ==
  ASSUME Stored, [Next]_vars
  PROVE  Onward
<1> USE DEF redis, postgres, local, history
<1>0. TypeOK /\ Bounded
  BY DEF Stored
<1>1. CASE DayEnds
  BY <1>0, <1>1, DaysAreNumbers DEF TypeOK, Bounded, Onward, DayEnds
<1>2. ASSUME NEW d \in Days, KeyExpires(d) PROVE Onward
  <2>1. \A e \in Days : hash'[e] = IF e = d THEN 0 ELSE hash[e]
    BY <1>0, <1>2 DEF KeyExpires, TypeOK
  <2>2. UNCHANGED <<today, pg, counted, late>>
    BY <1>2 DEF KeyExpires
  <2> QED
    BY <1>0, <2>1, <2>2, DaysAreNumbers DEF TypeOK, Bounded, Onward
<1>3. ASSUME NEW w \in Workers, Record(w) \/ OpenAnalytics(w) \/ RecordFallback(w)
                                \/ ReadHash(w)
      PROVE  Onward
  BY <1>0, <1>3, OnwardIfStoresKept DEF Record, OpenAnalytics, RecordFallback, ReadHash
<1>4. ASSUME NEW w \in Workers, Increment(w) \/ IncrementFails(w) PROVE Onward
  <2>1. CASE ApplyIncrement(day[w])
    BY <1>4, <2>1, OnwardIncrement DEF Increment, IncrementFails
  <2>2. CASE UNCHANGED <<redis, history>>
    BY <1>0, <1>4, <2>2, OnwardIfStoresKept DEF Increment, IncrementFails
  <2> QED
    BY <1>4, <2>1, <2>2 DEF Increment, IncrementFails
<1>5. ASSUME NEW w \in Workers,
             ReadMembers(w) \/ ForgetDay(w) \/ Acknowledge(w) \/ SkipDay(w) \/ Cancel(w)
      PROVE  Onward
  BY <1>0, <1>5, OnwardIfStoresKept
     DEF ReadMembers, ForgetDay, Acknowledge, SkipDay, Cancel
<1>6. ASSUME NEW w \in Workers, Persist(w) PROVE Onward
  BY <1>6, OnwardPersist
<1>7. CASE UNCHANGED vars
  BY <1>0, <1>7, OnwardIfStoresKept DEF vars
<1> QED
  BY <1>1, <1>2, <1>3, <1>4, <1>5, <1>6, <1>7 DEF Next, Reconcile

----------------------------------------------------------------------------
(* What is pending *)

Complete == Stored /\ Open /\ Indexed /\ NothingForgotten

(* The effect of an increment on the store, by days.                        *)
LEMMA IncrementEffect ==
  ASSUME Stored, NEW w \in Workers, ApplyIncrement(day[w])
  PROVE  /\ day[w] \in Days /\ day[w] <= today
         /\ \A d \in Days :
              /\ hash'[d] = IF d = day[w] THEN hash[d] + 1 ELSE hash[d]
              /\ counted'[d] = IF d = day[w] THEN counted[d] + 1 ELSE counted[d]
         /\ index' = index \union {day[w]} /\ expires' = expires
         /\ late' = IF day[w] < today THEN late \union {day[w]} ELSE late
  BY DEF Stored, TypeOK, Calendar, ApplyIncrement

LEMMA Numbers ==
  ASSUME TypeOK
  PROVE  /\ today \in Nat
         /\ \A d \in Days : /\ d \in Nat /\ hash[d] \in Nat /\ counted[d] \in Nat
                            /\ pg[d] \in Nat
         /\ \A w \in Workers : current[w] \in Nat /\ day[w] \in Nat /\ snapshot[w] \in Nat
  BY DaysAreNumbers DEF TypeOK

LEMMA OpenStep ==
  ASSUME Complete, [Next]_vars
  PROVE  Open'
<1> USE DEF redis, postgres, local, history
<1>0. /\ Stored /\ TypeOK /\ Open
  BY DEF Complete, Stored
<1>1. CASE DayEnds
  BY <1>0, <1>1, Numbers DEF Open, DayEnds
<1>2. ASSUME NEW d \in Days, KeyExpires(d) PROVE Open'
  <2>1. ~(d >= today)
    BY <1>0, <1>2 DEF Open, KeyExpires
  <2>2. \A e \in Days \ {d} : hash'[e] = hash[e]
    BY <1>0, <1>2 DEF TypeOK, KeyExpires
  <2> QED
    BY <1>0, <1>2, <2>1, <2>2 DEF Open, KeyExpires
<1>3. ASSUME NEW w \in Workers, ApplyIncrement(day[w]), UNCHANGED today PROVE Open'
  BY <1>0, <1>3, IncrementEffect, Numbers DEF Open
<1>4. ASSUME NEW w \in Workers, Increment(w) \/ IncrementFails(w) PROVE Open'
  <2>1. CASE ApplyIncrement(day[w])
    BY <1>3, <1>4, <2>1 DEF Increment, IncrementFails
  <2>2. CASE UNCHANGED <<redis, history>>
    BY <1>0, <1>4, <2>2 DEF Open, Increment, IncrementFails
  <2> QED
    BY <1>4, <2>1, <2>2 DEF Increment, IncrementFails
<1>5. ASSUME NEW w \in Workers, Acknowledge(w) PROVE Open'
  <2>1. Earliest(w) \in Days /\ Earliest(w) < current[w] /\ current[w] <= today
    BY <1>0, <1>5, EarliestIsLeft
       DEF Stored, Busy, AtADay, Held, Holds, Calendar, Acknowledge
  <2>2. ~(Earliest(w) >= today)
    BY <1>0, <2>1, Numbers
  <2> QED
    BY <1>0, <1>5, <2>2 DEF Open, Acknowledge
<1>6. CASE UNCHANGED <<today, hash, counted, expires, late>>
  BY <1>0, <1>6 DEF Open
<1>7. ASSUME NEW w \in Workers, \/ Record(w) \/ OpenAnalytics(w) \/ RecordFallback(w)
                                \/ ReadMembers(w) \/ ReadHash(w) \/ ForgetDay(w)
                                \/ Persist(w) \/ SkipDay(w) \/ Cancel(w)
      PROVE  Open'
  BY <1>6, <1>7 DEF Record, OpenAnalytics, RecordFallback, ReadMembers, ReadHash,
                    ForgetDay, Persist, SkipDay, Cancel
<1>8. CASE UNCHANGED vars
  BY <1>6, <1>8 DEF vars
<1> QED
  BY <1>1, <1>2, <1>4, <1>5, <1>7, <1>8 DEF Next, Reconcile

LEMMA IndexedStep ==
  ASSUME Complete, [Next]_vars
  PROVE  Indexed'
<1> USE DEF redis, postgres, local, history
<1>0. /\ Stored /\ TypeOK /\ TypeOK' /\ Indexed
  BY TypeStep DEF Complete, Stored
<1>1. \A d \in Days : counted[d] > 0 => counted'[d] > 0
  BY <1>0, OnwardStep, Numbers DEF Onward, TypeOK
<1>2. index \subseteq Days /\ \A w \in Workers : todo[w] \subseteq Days
  BY <1>0 DEF TypeOK
<1>3. CASE index' \subseteq index /\ todo' = todo
  BY <1>0, <1>1, <1>2, <1>3 DEF Indexed
<1>4. ASSUME NEW w \in Workers, NEW left, NextDay(w, left),
             left \subseteq index \union todo[w], index' \subseteq index
      PROVE  Indexed'
  BY <1>0, <1>1, <1>2, <1>4, NextDayEffect DEF Indexed
<1>5. ASSUME NEW w \in Workers, Increment(w) \/ IncrementFails(w) PROVE Indexed'
  <2>1. CASE ApplyIncrement(day[w])
    <3>1. counted'[day[w]] > 0 /\ index' = index \union {day[w]}
      BY <1>0, <2>1, IncrementEffect, Numbers
    <3>2. todo' = todo
      BY <1>5 DEF Increment, IncrementFails
    <3> QED
      BY <1>0, <1>1, <1>2, <3>1, <3>2 DEF Indexed
  <2>2. CASE UNCHANGED <<redis, history>>
    BY <1>3, <1>5, <2>2 DEF Increment, IncrementFails
  <2> QED
    BY <1>5, <2>1, <2>2 DEF Increment, IncrementFails
<1>6. ASSUME NEW w \in Workers,
             ReadMembers(w) \/ ForgetDay(w) \/ Acknowledge(w) \/ SkipDay(w) \/ Cancel(w)
      PROVE  Indexed'
  <2>1. index' \subseteq index
    BY <1>6 DEF ReadMembers, ForgetDay, Acknowledge, SkipDay, Cancel
  <2> QED
    BY <1>4, <1>6, <2>1, MovesOn
<1>7. ASSUME NEW w \in Workers, Persist(w) PROVE Indexed'
  <2>1. CASE NextDay(w, todo[w] \ {Earliest(w)})
    BY <1>4, <1>7, <2>1 DEF Persist
  <2>2. CASE UNCHANGED todo
    BY <1>3, <1>7, <2>2 DEF Persist
  <2> QED
    BY <1>7, <2>1, <2>2 DEF Persist
<1>8. ASSUME NEW w \in Workers, Record(w) \/ OpenAnalytics(w) \/ RecordFallback(w)
                                \/ ReadHash(w)
      PROVE  Indexed'
  BY <1>3, <1>8 DEF Record, OpenAnalytics, RecordFallback, ReadHash
<1>9. CASE DayEnds \/ \E d \in Days : KeyExpires(d)
  BY <1>3, <1>9 DEF DayEnds, KeyExpires
<1>10. CASE UNCHANGED vars
  BY <1>3, <1>10 DEF vars
<1> QED
  BY <1>5, <1>6, <1>7, <1>8, <1>9, <1>10 DEF Next, Reconcile

(* A step of anybody else leaves what a worker holds true.                  *)
LEMMA StillHolds ==
  ASSUME Stored, TypeOK', Onward, NEW v \in Workers,
         pc'[v] = pc[v], todo'[v] = todo[v], current'[v] = current[v],
         snapshot'[v] = snapshot[v]
  PROVE  Holds(v)'
<1> DEFINE d == Earliest(v)
<1>1. CASE pc[v] \notin {"srem", "persist", "acknowledge"}
  BY <1>1 DEF Holds
<1>2. CASE pc[v] \in {"srem", "persist", "acknowledge"}
  <2>1. d \in Days /\ d' = d
    BY <1>2, EarliestIsLeft DEF Stored, Busy, AtADay, Earliest
  <2>2. /\ today <= today' /\ late \subseteq late'
        /\ pg[d] <= pg'[d] /\ pg'[d] <= counted'[d] /\ counted[d] <= counted'[d]
        /\ counted'[d] = counted[d] \/ d \in late' \/ d = today
    BY <2>1 DEF Onward
  <2>3. /\ d \in Nat /\ pg[d] \in Nat /\ counted[d] \in Nat /\ today \in Nat
        /\ pg'[d] \in Nat /\ counted'[d] \in Nat /\ today' \in Nat
        /\ current[v] \in Nat /\ snapshot[v] \in Nat /\ current[v] <= today
    BY <2>1, DaysAreNumbers DEF Stored, Calendar, TypeOK
  <2>4. Holds(v)
    BY DEF Stored, Held
  <2>5. d < today => (Settled(d) => d \in late' \/ pg'[d] = counted'[d])
    BY <2>2, <2>3 DEF Settled
  <2> HIDE DEF d
  <2>6. CASE pc[v] = "srem"
    <3>1. d \in late' \/ d < today'
      BY <2>2, <2>3, <2>4, <2>6 DEF Holds, d
    <3>2. d \in late' \/ pg'[d] = counted'[d]
      BY <2>2, <2>4, <2>5, <2>6 DEF Holds, d
    <3> QED
      BY <2>1, <2>6, <3>1, <3>2 DEF Holds, Settled, d
  <2>7. CASE pc[v] = "persist"
    <3>1. snapshot[v] <= counted'[d]
      BY <2>2, <2>3, <2>4, <2>7 DEF Holds, d
    <3>2. d < current[v] =>
            d \in late' \/ pg'[d] = counted'[d] \/ snapshot[v] = counted'[d]
      BY <2>2, <2>3, <2>4, <2>5, <2>7 DEF Holds, d
    <3> QED
      BY <2>1, <2>7, <3>1, <3>2 DEF Holds, Settled, d
  <2>8. CASE pc[v] = "acknowledge"
    <3>1. d < current[v] /\ (d \in late' \/ pg'[d] = counted'[d])
      BY <2>3, <2>4, <2>5, <2>8 DEF Holds, d
    <3> QED
      BY <2>1, <2>8, <3>1 DEF Holds, Settled, d
  <2> QED
    BY <1>2, <2>6, <2>7, <2>8
<1> QED
  BY <1>1, <1>2

LEMMA HeldStep ==
  ASSUME Complete, [Next]_vars
  PROVE  Held'
<1> USE DEF redis, postgres, local, history
<1>0. /\ Stored /\ TypeOK /\ TypeOK' /\ Onward /\ Busy
  BY TypeStep, OnwardStep DEF Complete, Stored
<1>1. ASSUME NEW w \in Workers, pc'[w] \notin {"srem", "persist", "acknowledge"},
             \A v \in Workers \ {w} : /\ pc'[v] = pc[v] /\ todo'[v] = todo[v]
                                      /\ current'[v] = current[v]
                                      /\ snapshot'[v] = snapshot[v]
      PROVE  Held'
  <2>1. Holds(w)'
    BY <1>1 DEF Holds
  <2> QED
    BY <1>0, <1>1, <2>1, StillHolds DEF Held
<1>2. CASE UNCHANGED <<pc, todo, current, snapshot>>
  BY <1>0, <1>2, StillHolds DEF Held
<1>3. ASSUME NEW w \in Workers, NEW left, NextDay(w, left) PROVE Held'
  BY <1>0, <1>1, <1>3, NextDayEffect
<1>4. ASSUME NEW w \in Workers, \/ Record(w) \/ OpenAnalytics(w) \/ RecordFallback(w)
                                \/ Increment(w) \/ IncrementFails(w)
      PROVE  Held'
  <2>1. /\ pc'[w] \in {"idle", "increment", "fallback", "members", "all"}
        /\ \A v \in Workers \ {w} : pc'[v] = pc[v] /\ current'[v] = current[v]
        /\ todo' = todo /\ snapshot' = snapshot
    BY <1>0, <1>4 DEF TypeOK, Record, OpenAnalytics, RecordFallback, Increment,
                      IncrementFails, Goto
  <2> QED
    BY <1>1, <2>1
<1>5. ASSUME NEW w \in Workers,
             ReadMembers(w) \/ ForgetDay(w) \/ Acknowledge(w) \/ SkipDay(w) \/ Cancel(w)
      PROVE  Held'
  BY <1>3, <1>5, MovesOn
<1>6. ASSUME NEW w \in Workers, ReadHash(w) PROVE Held'
  <2> DEFINE d == Earliest(w)
  <2>1. /\ d \in Days /\ d \in todo[w] /\ d' = d
        /\ current'[w] = current[w] /\ UNCHANGED <<today, hash, pg, counted, late>>
        /\ snapshot'[w] = hash[d]
        /\ pc'[w] = IF hash[d] = 0 THEN "srem" ELSE "persist"
        /\ \A v \in Workers \ {w} : pc'[v] = pc[v] /\ snapshot'[v] = snapshot[v]
        /\ UNCHANGED <<todo, current>>
    BY <1>0, <1>6, EarliestIsLeft DEF Busy, AtADay, TypeOK, ReadHash, Goto, Earliest
  <2>2. counted[d] > 0 /\ hash[d] <= counted[d] /\ pg[d] <= counted[d]
    BY <2>1 DEF Complete, Indexed, Stored, Bounded
  <2>3. d \notin late /\ pg[d] # counted[d] => hash[d] = counted[d]
    BY <2>1 DEF Complete, NothingForgotten, Pending
  <2>4. d >= today => hash[d] = counted[d]
    BY <2>1 DEF Complete, Open
  <2>5. /\ d \in Nat /\ today \in Nat /\ hash[d] \in Nat /\ counted[d] \in Nat
        /\ pg[d] \in Nat
    BY <1>0, <2>1, Numbers
  <2> HIDE DEF d
  <2>6. Holds(w)'
    <3>1. CASE hash[d] = 0
      <4>1. d < today /\ Settled(d)
        BY <2>2, <2>3, <2>4, <2>5, <3>1 DEF Settled
      <4> QED
        BY <2>1, <3>1, <4>1 DEF Holds, Settled, d
    <3>2. CASE hash[d] # 0
      <4>1. Settled(d) \/ hash[d] = counted[d]
        BY <2>3 DEF Settled
      <4> QED
        BY <2>1, <2>2, <3>2, <4>1 DEF Holds, Settled, d
    <3> QED
      BY <3>1, <3>2
  <2> QED
    BY <1>0, <2>1, <2>6, StillHolds DEF Held
<1>7. ASSUME NEW w \in Workers, Persist(w) PROVE Held'
  <2> DEFINE d == Earliest(w)
  <2>1. CASE NextDay(w, todo[w] \ {d})
    BY <1>3, <2>1
  <2>2. CASE Closed(w, d) /\ Goto(w, "acknowledge") /\ UNCHANGED <<todo, current, snapshot>>
    <3>1. /\ d \in Days /\ d' = d /\ d < current[w] /\ current'[w] = current[w]
          /\ pc'[w] = "acknowledge" /\ UNCHANGED <<todo, current, snapshot, counted, late>>
          /\ \A v \in Workers \ {w} : pc'[v] = pc[v]
          /\ pg'[d] = Merge(pg[d], snapshot[w])
      BY <1>0, <1>7, <2>2, EarliestIsLeft
         DEF Busy, AtADay, TypeOK, Persist, Closed, Goto, Earliest
    <3>2. /\ snapshot[w] <= counted[d] /\ pg[d] <= counted[d]
          /\ Settled(d) \/ snapshot[w] = counted[d]
      BY <1>7, <3>1 DEF Complete, Stored, Bounded, Held, Holds, Persist
    <3>3. pg[d] \in Nat /\ counted[d] \in Nat /\ snapshot[w] \in Nat
      BY <1>0, <3>1, Numbers
    <3> HIDE DEF d
    <3>4. d \in late \/ pg'[d] = counted[d]
      BY <3>1, <3>2, <3>3 DEF Settled, Merge
    <3>5. Holds(w)'
      BY <3>1, <3>4 DEF Holds, Settled, d
    <3> QED
      BY <1>0, <3>1, <3>5, StillHolds DEF Held
  <2> QED
    BY <1>7, <2>1, <2>2 DEF Persist
<1>8. CASE DayEnds \/ \E d \in Days : KeyExpires(d)
  BY <1>2, <1>8 DEF DayEnds, KeyExpires
<1>9. CASE UNCHANGED vars
  BY <1>2, <1>9 DEF vars
<1> QED
  BY <1>4, <1>5, <1>6, <1>7, <1>8, <1>9 DEF Next, Reconcile

LEMMA NothingForgottenStep ==
  ASSUME Complete, [Next]_vars
  PROVE  NothingForgotten'
<1> USE DEF redis, postgres, local, history
<1>0. /\ Stored /\ TypeOK /\ Onward /\ Bounded /\ NothingForgotten
  BY OnwardStep DEF Complete, Stored
<1>1. CASE UNCHANGED <<hash, pg, counted, late, expires, index>>
  BY <1>0, <1>1 DEF NothingForgotten, Pending
<1>2. ASSUME NEW d \in Days, KeyExpires(d) PROVE NothingForgotten'
  <2>1. d \in late \/ pg[d] = counted[d]
    BY <1>0, <1>2 DEF KeyExpires, NothingForgotten, Pending
  <2>2. /\ \A e \in Days \ {d} : hash'[e] = hash[e]
        /\ expires' = expires \ {d} /\ UNCHANGED <<pg, counted, late, index>>
    BY <1>0, <1>2 DEF KeyExpires, TypeOK
  <2> QED
    BY <1>0, <2>1, <2>2 DEF NothingForgotten, Pending
<1>3. ASSUME NEW w \in Workers, ApplyIncrement(day[w]), UNCHANGED pg
      PROVE  NothingForgotten'
  <2>1. day[w] \in late' \/ day[w] = today
    BY <1>0, <1>3, IncrementEffect, Numbers
  <2>2. day[w] = today => hash[today] = counted[today] /\ today \notin expires
    BY <1>0, <1>3, IncrementEffect, Numbers DEF Complete, Open
  <2>3. ASSUME NEW d \in Days, d \notin late', pg'[d] # counted'[d] PROVE Pending(d)'
    <3>1. CASE d = day[w]
      BY <1>0, <1>3, <2>1, <2>2, <2>3, <3>1, IncrementEffect DEF Pending
    <3>2. CASE d # day[w]
      <4>1. /\ hash'[d] = hash[d] /\ counted'[d] = counted[d] /\ d \notin late
            /\ expires' = expires /\ index \subseteq index'
        BY <1>0, <1>3, <2>3, <3>2, IncrementEffect
      <4>2. Pending(d)
        BY <1>0, <1>3, <2>3, <4>1 DEF NothingForgotten
      <4> QED
        BY <4>1, <4>2 DEF Pending
    <3> QED
      BY <3>1, <3>2
  <2> QED
    BY <2>3 DEF NothingForgotten
<1>4. ASSUME NEW w \in Workers, Increment(w) \/ IncrementFails(w) PROVE NothingForgotten'
  <2>1. CASE ApplyIncrement(day[w])
    BY <1>3, <1>4, <2>1 DEF Increment, IncrementFails
  <2>2. CASE UNCHANGED <<redis, history>>
    BY <1>1, <1>4, <2>2 DEF Increment, IncrementFails
  <2> QED
    BY <1>4, <2>1, <2>2 DEF Increment, IncrementFails
<1>5. ASSUME NEW w \in Workers, ForgetDay(w) \/ Acknowledge(w) PROVE NothingForgotten'
  <2> DEFINE d == Earliest(w)
  <2>1. Settled(d)
    BY <1>0, <1>5 DEF Stored, Held, Holds, ForgetDay, Acknowledge
  <2>2. /\ UNCHANGED <<hash, pg, counted, late>>
        /\ \A e \in Days \ {d} : /\ e \in expires' <=> e \in expires
                                 /\ e \in index' <=> e \in index
    BY <1>5 DEF ForgetDay, Acknowledge
  <2> HIDE DEF d
  <2> QED
    BY <1>0, <2>1, <2>2 DEF NothingForgotten, Pending, Settled
<1>6. ASSUME NEW w \in Workers, Persist(w) PROVE NothingForgotten'
  <2>1. UNCHANGED <<hash, counted, late, expires, index>>
    BY <1>6 DEF Persist
  <2>2. \A d \in Days : pg[d] = counted[d] => pg'[d] = counted'[d]
    <3>1. ASSUME NEW d \in Days, pg[d] = counted[d] PROVE pg'[d] = counted[d]
      <4>1. pg[d] <= pg'[d] /\ pg'[d] <= counted[d]
        BY <1>0, <2>1 DEF Onward
      <4>2. pg[d] \in Nat /\ pg'[d] \in Nat
        BY TypeStep, DaysAreNumbers DEF Complete, Stored, TypeOK
      <4> QED
        BY <3>1, <4>1, <4>2
    <3> QED
      BY <2>1, <3>1
  <2> QED
    BY <1>0, <2>1, <2>2 DEF NothingForgotten, Pending
<1>7. ASSUME NEW w \in Workers, \/ Record(w) \/ OpenAnalytics(w) \/ RecordFallback(w)
                                \/ ReadMembers(w) \/ ReadHash(w)
                                \/ SkipDay(w) \/ Cancel(w)
      PROVE  NothingForgotten'
  BY <1>1, <1>7 DEF Record, OpenAnalytics, RecordFallback, ReadMembers, ReadHash,
                    SkipDay, Cancel
<1>8. CASE DayEnds \/ UNCHANGED vars
  BY <1>1, <1>8 DEF DayEnds, vars
<1> QED
  BY <1>2, <1>4, <1>5, <1>6, <1>7, <1>8 DEF Next, Reconcile

----------------------------------------------------------------------------
(* The inductive invariant and what follows from it *)

IInv == TypeOK /\ Busy /\ Calendar /\ Bounded /\ Held /\ Open /\ Indexed /\ NothingForgotten

LEMMA Initially == Init => IInv
<1> SUFFICES ASSUME Init PROVE IInv
  OBVIOUS
<1>1. TypeOK
  BY DaysAreNumbers DEF Init, TypeOK, PCs
<1>2. Busy /\ Held
  BY DEF Init, Busy, AtADay, Held, Holds
<1>3. Calendar /\ Bounded /\ Open /\ Indexed /\ NothingForgotten
  BY DaysAreNumbers DEF Init, Calendar, Bounded, Open, Indexed, NothingForgotten
<1> QED
  BY <1>1, <1>2, <1>3 DEF IInv

LEMMA Inductively ==
  ASSUME IInv, [Next]_vars
  PROVE  IInv' /\ Onward
<1>1. Stored /\ Complete
  BY DEF IInv, Stored, Complete
<1>2. Onward
  BY <1>1, OnwardStep
<1>3. Bounded'
  BY <1>2, TypeStep DEF Onward, Bounded, IInv
<1> QED
  BY <1>1, <1>2, <1>3, TypeStep, BusyStep, CalendarStep, HeldStep, OpenStep,
     IndexedStep, NothingForgottenStep DEF IInv

LEMMA Always == Spec => []IInv
<1>1. IInv /\ [Next]_vars => IInv'
  BY Inductively
<1> QED
  BY Initially, <1>1, PTL DEF Spec

(* Every variable keeps its type.                                           *)
THEOREM TypeCorrect == Spec => []TypeOK
  BY Always, PTL DEF IInv

(* Until PostgreSQL holds all events of a day, the day's key does not       *)
(* expire and is indexed, unless an event came after the day's end.         *)
THEOREM IdleLandingLosesNothing == Spec => []NothingForgotten
  BY Always, PTL DEF IInv

(* Neither PostgreSQL nor Redis ever shows more events than were counted.   *)
THEOREM SnapshotsNeverExceed == Spec => []Bounded
  BY Always, PTL DEF IInv

(* A step of the code counts one event, stores one total, or neither.       *)
LEMMA LedgerStep ==
  ASSUME IInv, [Next]_vars
  PROVE  [Ledger!Next]_<<counted, pg>>
<1> USE DEF redis, postgres, local, history
<1>0. Stored /\ TypeOK /\ Bounded /\ Onward
  BY Inductively DEF IInv, Stored
<1>1. ASSUME NEW w \in Workers, ApplyIncrement(day[w]), UNCHANGED pg
      PROVE  Ledger!Next
  <2>1. day[w] \in Days
    BY <1>0 DEF TypeOK
  <2>2. Ledger!Count(day[w])
    BY <1>1 DEF Ledger!Count, ApplyIncrement
  <2> QED
    BY <2>1, <2>2 DEF Ledger!Next
<1>2. ASSUME NEW w \in Workers, Persist(w) PROVE Ledger!Next
  <2> DEFINE e == Earliest(w)
  <2>1. e \in Days
    BY <1>0, <1>2, EarliestIsLeft DEF Persist, Stored, Busy, AtADay
  <2> DEFINE total == Merge(pg[e], snapshot[w])
  <2>2. pg' = [pg EXCEPT ![e] = total] /\ UNCHANGED counted
    BY <1>2 DEF Persist
  <2>3. pg'[e] = total
    BY <1>0, <2>1, <2>2 DEF TypeOK
  <2> HIDE DEF e, total
  <2>4. pg[e] \in Nat /\ pg'[e] \in Nat /\ counted[e] \in Nat
    BY <1>0, <2>1, Inductively DEF IInv, TypeOK
  <2>5. pg[e] <= pg'[e] /\ pg'[e] <= counted[e]
    BY <1>0, <2>1, <2>2 DEF Onward
  <2>6. total \in pg[e] .. counted[e]
    BY <2>3, <2>4, <2>5
  <2>7. Ledger!Store(e)
    BY <2>2, <2>6 DEF Ledger!Store
  <2> QED
    BY <2>1, <2>7 DEF Ledger!Next
<1>3. ASSUME NEW w \in Workers, Increment(w) \/ IncrementFails(w)
      PROVE  [Ledger!Next]_<<counted, pg>>
  <2>1. CASE ApplyIncrement(day[w])
    BY <1>1, <1>3, <2>1 DEF Increment, IncrementFails
  <2>2. CASE UNCHANGED <<redis, history>>
    BY <1>3, <2>2 DEF IncrementFails, Increment
  <2> QED
    BY <1>3, <2>1, <2>2 DEF Increment, IncrementFails
<1>4. ASSUME NEW w \in Workers, \/ Record(w) \/ OpenAnalytics(w) \/ RecordFallback(w)
                                \/ ReadMembers(w) \/ ReadHash(w) \/ ForgetDay(w)
                                \/ Acknowledge(w) \/ SkipDay(w) \/ Cancel(w)
      PROVE  UNCHANGED <<counted, pg>>
  BY <1>4 DEF Record, OpenAnalytics, RecordFallback, ReadMembers, ReadHash, ForgetDay,
              Acknowledge, SkipDay, Cancel
<1>5. ASSUME NEW d \in Days, KeyExpires(d) PROVE UNCHANGED <<counted, pg>>
  BY <1>5 DEF KeyExpires
<1>6. CASE DayEnds \/ UNCHANGED vars
  BY <1>6 DEF DayEnds, vars
<1> QED
  BY <1>2, <1>3, <1>4, <1>5, <1>6 DEF Next, Reconcile

(* The counters are a ledger of the counted events: reconciliations that    *)
(* overlap, repeat or fail never lower a stored total nor invent an event.  *)
THEOREM LedgerIsKept == Spec => ImplementsLedger
<1>1. Init => Ledger!Init
  BY DEF Init, Ledger!Init
<1>2. IInv /\ [Next]_vars => [Ledger!Next]_<<counted, pg>>
  BY LedgerStep
<1> QED
  BY Always, <1>1, <1>2, PTL DEF Spec, ImplementsLedger, Ledger!Spec

----------------------------------------------------------------------------
(* Every event is counted at most once, but for lost replies.               *)

(* The events that no store has been told of, or may have to be told again. *)
Underway == {w \in Workers : pc[w] \in {"increment", "fallback"}}
Balanced ==
  /\ IsFiniteSet(Underway)
  /\ IsFiniteSet(Numbered(counted)) /\ IsFiniteSet(Numbered(fallback))
  /\ unsure \in Nat
  /\ Total(counted) + Total(fallback) + Cardinality(Underway) <= events + unsure

(* One more event is one more in the sum.                                   *)
LEMMA OneMore ==
  ASSUME NEW f \in [Days -> Nat], NEW e \in Days, IsFiniteSet(Numbered(f)),
         NEW g, g = [f EXCEPT ![e] = @ + 1]
  PROVE  IsFiniteSet(Numbered(g)) /\ Total(g) = Total(f) + 1
<1> DEFINE new == <<e, f[e] + 1>>
<1>1. \A d, n : <<d, n>> \in Numbered(f) <=> d \in Days /\ n \in 1 .. f[d]
  BY DEF Numbered
<1>2. \A d, n : <<d, n>> \in Numbered(g) <=> d \in Days /\ n \in 1 .. g[d]
  BY DEF Numbered
<1>3. g[e] = f[e] + 1 /\ f[e] \in Nat /\ \A d \in Days \ {e} : g[d] = f[d]
  OBVIOUS
<1>4. new \notin Numbered(f)
  BY <1>1, <1>3
<1>5. Numbered(g) = Numbered(f) \union {new}
  <2>1. \A p \in Numbered(f) \union Numbered(g) : p = <<p[1], p[2]>>
    BY DEF Numbered
  <2>2. \A d, n : <<d, n>> \in Numbered(g) <=> <<d, n>> \in Numbered(f) \/ <<d, n>> = new
    <3> SUFFICES ASSUME NEW d, NEW n
                 PROVE  <<d, n>> \in Numbered(g) <=>
                          <<d, n>> \in Numbered(f) \/ <<d, n>> = new
      OBVIOUS
    <3>1. CASE d = e
      <4>1. n \in 1 .. f[e] + 1 <=> n \in 1 .. f[e] \/ n = f[e] + 1
        BY <1>3
      <4> QED
        BY <1>1, <1>2, <1>3, <3>1, <4>1
    <3>2. CASE d # e
      BY <1>1, <1>2, <1>3, <3>2
    <3> QED
      BY <3>1, <3>2
  <2>3. ASSUME NEW p \in Numbered(g) PROVE p \in Numbered(f) \union {new}
    <3>1. p = <<p[1], p[2]>>
      BY <2>1
    <3>2. <<p[1], p[2]>> \in Numbered(g)
      BY <3>1
    <3> HIDE DEF new
    <3>3. <<p[1], p[2]>> \in Numbered(f) \/ <<p[1], p[2]>> = new
      BY <2>2, <3>2
    <3> QED
      BY <3>1, <3>3
  <2>4. ASSUME NEW p \in Numbered(f) PROVE p \in Numbered(g)
    <3>1. p = <<p[1], p[2]>>
      BY <2>1
    <3>2. <<p[1], p[2]>> \in Numbered(f)
      BY <3>1
    <3>3. <<p[1], p[2]>> \in Numbered(g)
      BY <2>2, <3>2
    <3> QED
      BY <3>1, <3>3
  <2>5. new \in Numbered(g)
    BY <2>2
  <2> QED
    BY <2>3, <2>4, <2>5
<1> HIDE DEF new
<1>6. /\ IsFiniteSet(Numbered(f) \union {new})
      /\ Cardinality(Numbered(f) \union {new}) = Cardinality(Numbered(f)) + 1
  BY <1>4, FS_AddElement
<1> QED
  BY <1>5, <1>6 DEF Total

LEMMA NothingNumbered ==
  ASSUME NEW f, \A d \in Days : f[d] = 0
  PROVE  IsFiniteSet(Numbered(f)) /\ Total(f) = 0
<1>1. \A d \in Days : 1 .. f[d] = {}
  OBVIOUS
<1>2. Numbered(f) = {}
  BY <1>1 DEF Numbered
<1> QED
  BY <1>2, FS_EmptySet DEF Total

(* An event is under way from its stamp to its end.                         *)
LEMMA UnderwayStep ==
  ASSUME TypeOK, Balanced, NEW w \in Workers
  PROVE  /\ Record(w) => /\ IsFiniteSet(Underway')
                         /\ Cardinality(Underway') = Cardinality(Underway) + 1
         /\ Increment(w) \/ RecordFallback(w) =>
              /\ IsFiniteSet(Underway')
              /\ Cardinality(Underway') = Cardinality(Underway) - 1
         /\ Underway' \subseteq Underway =>
              /\ IsFiniteSet(Underway')
              /\ Cardinality(Underway') <= Cardinality(Underway)
<1>0. pc \in [Workers -> PCs] /\ IsFiniteSet(Underway)
  BY DEF TypeOK, Balanced
<1>1. ASSUME Record(w)
      PROVE  IsFiniteSet(Underway') /\ Cardinality(Underway') = Cardinality(Underway) + 1
  <2>1. w \notin Underway /\ Underway' = Underway \union {w}
    BY <1>0, <1>1 DEF Record, Goto, Underway
  <2> QED
    BY <1>0, <2>1, FS_AddElement
<1>2. ASSUME Increment(w) \/ RecordFallback(w)
      PROVE  IsFiniteSet(Underway') /\ Cardinality(Underway') = Cardinality(Underway) - 1
  <2>1. w \in Underway /\ Underway' = Underway \ {w}
    BY <1>0, <1>2 DEF Increment, RecordFallback, Goto, Underway
  <2> QED
    BY <1>0, <2>1, FS_RemoveElement
<1>3. ASSUME Underway' \subseteq Underway
      PROVE  IsFiniteSet(Underway') /\ Cardinality(Underway') <= Cardinality(Underway)
  BY <1>0, <1>3, FS_Subset
<1> QED
  BY <1>1, <1>2, <1>3

LEMMA BalancedStep ==
  ASSUME IInv, Balanced, [Next]_vars
  PROVE  Balanced'
<1> USE DEF redis, postgres, local, history
<1>0. /\ TypeOK
      /\ IsFiniteSet(Underway) /\ Cardinality(Underway) \in Nat
      /\ IsFiniteSet(Numbered(counted)) /\ Total(counted) \in Nat
      /\ IsFiniteSet(Numbered(fallback)) /\ Total(fallback) \in Nat
      /\ unsure \in Nat /\ events \in Nat
      /\ Total(counted) + Total(fallback) + Cardinality(Underway) <= events + unsure
      /\ counted \in [Days -> Nat] /\ fallback \in [Days -> Nat]
  BY FS_CardinalityType DEF IInv, TypeOK, Balanced, Total
<1>00. ASSUME IsFiniteSet(Underway') PROVE Cardinality(Underway') \in Nat
  BY <1>00, FS_CardinalityType
<1>1. ASSUME NEW d \in Days, ApplyIncrement(d)
      PROVE  /\ IsFiniteSet(Numbered(counted'))
             /\ Total(counted') = Total(counted) + 1
  BY <1>0, <1>1, OneMore DEF ApplyIncrement
<1>2. ASSUME NEW w \in Workers, Record(w) PROVE Balanced'
  <2>1. UNCHANGED <<counted, fallback, unsure>> /\ events' = events + 1
    BY <1>2 DEF Record
  <2>2. /\ IsFiniteSet(Underway')
        /\ Cardinality(Underway') = Cardinality(Underway) + 1
    BY <1>0, <1>2, UnderwayStep DEF Balanced
  <2> QED
    BY <1>0, <2>1, <2>2 DEF Balanced
<1>3. ASSUME NEW w \in Workers, Increment(w) PROVE Balanced'
  <2>1. /\ IsFiniteSet(Numbered(counted'))
        /\ Total(counted') = Total(counted) + 1
    BY <1>0, <1>1, <1>3 DEF TypeOK, Increment
  <2>2. /\ IsFiniteSet(Underway')
        /\ Cardinality(Underway') = Cardinality(Underway) - 1
    BY <1>0, <1>3, UnderwayStep DEF Balanced
  <2>3. UNCHANGED <<fallback, events, unsure>>
    BY <1>3 DEF Increment
  <2> QED
    BY <1>0, <2>1, <2>2, <2>3 DEF Balanced
<1>4. ASSUME NEW w \in Workers, IncrementFails(w) PROVE Balanced'
  <2>1. /\ IsFiniteSet(Underway')
        /\ Cardinality(Underway') <= Cardinality(Underway)
    <3>1. Underway' \subseteq Underway
      BY <1>0, <1>4 DEF TypeOK, IncrementFails, Goto, Underway
    <3> QED
      BY <1>0, <3>1, <1>4, UnderwayStep DEF Balanced
  <2>2. UNCHANGED <<fallback, events>>
    BY <1>4 DEF IncrementFails
  <2>3. CASE UNCHANGED <<counted, unsure>>
    BY <1>0, <1>00, <2>1, <2>2, <2>3 DEF Balanced
  <2>4. CASE ApplyIncrement(day[w]) /\ unsure' = unsure + 1
    <3>1. /\ IsFiniteSet(Numbered(counted'))
          /\ Total(counted') = Total(counted) + 1
      BY <1>0, <1>1, <2>4 DEF TypeOK
    <3> QED
      BY <1>0, <1>00, <2>1, <2>2, <2>4, <3>1 DEF Balanced
  <2> QED
    BY <1>4, <2>3, <2>4 DEF IncrementFails
<1>5. ASSUME NEW w \in Workers, RecordFallback(w) PROVE Balanced'
  <2>1. /\ IsFiniteSet(Underway')
        /\ Cardinality(Underway') = Cardinality(Underway) - 1
    BY <1>0, <1>5, UnderwayStep DEF Balanced
  <2>2. UNCHANGED <<counted, events, unsure>>
    BY <1>5 DEF RecordFallback
  <2>3. CASE UNCHANGED fallback
    BY <1>0, <2>1, <2>2, <2>3 DEF Balanced
  <2>4. CASE fallback' = [fallback EXCEPT ![today] = @ + 1]
    <3>1. /\ IsFiniteSet(Numbered(fallback'))
          /\ Total(fallback') = Total(fallback) + 1
      BY <1>0, <2>4, OneMore DEF TypeOK
    <3> QED
      BY <1>0, <2>1, <2>2, <3>1 DEF Balanced
  <2> QED
    BY <1>5, <2>3, <2>4 DEF RecordFallback
<1>6. CASE UNCHANGED <<counted, fallback, unsure, events>> /\ Underway' \subseteq Underway
  <2>1. IsFiniteSet(Underway') /\ Cardinality(Underway') <= Cardinality(Underway)
    BY <1>0, <1>6, FS_Subset
  <2> QED
    BY <1>0, <1>00, <1>6, <2>1 DEF Balanced
<1>7. ASSUME NEW w \in Workers, OpenAnalytics(w) \/ Reconcile(w) \/ SkipDay(w) \/ Cancel(w)
      PROVE  UNCHANGED <<counted, fallback, unsure, events>> /\ Underway' \subseteq Underway
  <2>1. UNCHANGED <<counted, fallback, unsure, events>>
    BY <1>7 DEF OpenAnalytics, Reconcile, ReadMembers, ReadHash, ForgetDay, Persist,
       Acknowledge, SkipDay, Cancel
  <2>2. \E where \in PCs \ {"increment", "fallback"} : Goto(w, where)
    BY <1>7 DEF PCs, OpenAnalytics, Reconcile, ReadMembers, ReadHash, ForgetDay, Persist,
       Acknowledge, SkipDay, Cancel, NextDay
  <2> QED
    BY <1>0, <2>1, <2>2 DEF TypeOK, Goto, Underway
<1>8. CASE DayEnds \/ (\E d \in Days : KeyExpires(d)) \/ UNCHANGED vars
  BY <1>6, <1>8 DEF DayEnds, KeyExpires, vars, Underway
<1> QED
  BY <1>2, <1>3, <1>4, <1>5, <1>6, <1>7, <1>8 DEF Next

(* No snapshot, retry or fallback counts an event twice, but a fallback     *)
(* after an increment whose reply was lost.                                 *)
THEOREM EventsCountedOnce == Spec => []NoDoubleCount
<1>1. Init => Balanced
  <2> SUFFICES ASSUME Init PROVE Balanced
    OBVIOUS
  <2>1. Underway = {}
    BY DEF Init, Underway
  <2>2. /\ \A d \in Days : counted[d] = 0 /\ fallback[d] = 0
        /\ events = 0 /\ unsure = 0
    BY DEF Init
  <2> QED
    BY <2>1, <2>2, NothingNumbered, FS_EmptySet DEF Balanced
<1>2. IInv /\ Balanced /\ [Next]_vars => Balanced'
  BY BalancedStep
<1>3. IInv /\ Balanced => NoDoubleCount
  <2> SUFFICES ASSUME IInv, Balanced PROVE NoDoubleCount
    OBVIOUS
  <2>1. /\ Cardinality(Underway) \in Nat /\ Total(counted) \in Nat /\ Total(fallback) \in Nat
        /\ unsure \in Nat /\ events \in Nat
    BY FS_CardinalityType DEF IInv, TypeOK, Balanced, Total
  <2>2. Total(counted) + Total(fallback) <= events + unsure
    BY <2>1 DEF Balanced
  <2> QED
    BY <2>2 DEF IInv, Bounded, NoDoubleCount
<1> QED
  BY Always, <1>1, <1>2, <1>3, PTL DEF Spec
=============================================================================
