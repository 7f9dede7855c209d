----------------------------- MODULE TrafficLedger -----------------------------
(****************************************************************************)
(* What the traffic counters promise of one landing, whatever is cached,    *)
(* retried or lost on the way: events are counted by day, and the stored    *)
(* total of a day only moves towards what was counted of it.  Module        *)
(* LandingTraffic implements it.                                            *)
(****************************************************************************)
EXTENDS Naturals

CONSTANT Days  \* business days

VARIABLES
  counted,  \* events counted so far, by day
  stored    \* total in PostgreSQL, by day

Init ==
  /\ counted = [d \in Days |-> 0]
  /\ stored = [d \in Days |-> 0]

(* One more event of a day. *)
Count(d) ==
  /\ counted' = [counted EXCEPT ![d] = @ + 1]
  /\ UNCHANGED stored

(* The day's total catches up, not always with the latest event. *)
Store(d) ==
  /\ \E total \in stored[d] .. counted[d] : stored' = [stored EXCEPT ![d] = total]
  /\ UNCHANGED counted

Next == \E d \in Days : Count(d) \/ Store(d)

Spec == Init /\ [][Next]_<<counted, stored>>
=============================================================================
