---------------------------- MODULE OrderLifecycle ----------------------------
(****************************************************************************)
(* What the backend promises of one order when administrator requests come  *)
(* one at a time: its status follows the documented life of an order, and   *)
(* the provider holds it once, never before its review, and again only if   *)
(* the provider's answer to each earlier attempt was never heard.  Module   *)
(* OrderSync implements it.                                                 *)
(****************************************************************************)
EXTENDS Naturals

CONSTANT Origins  \* statuses an order may be created with

VARIABLES
  status,    \* status an administrator sees
  attempts,  \* hand-off attempts shown beside it
  taken,     \* attempts the provider turned into an order of its own
  unheard    \* attempts whose answer was never recorded

lifecycle == <<status, attempts, taken, unheard>>

(* The statuses that may follow each status. *)
After == [pending       |-> {"confirmed", "cancelled"},
          confirmed     |-> {"shipped", "cancelled"},
          shipped       |-> {"delivered", "cancelled"},
          delivered     |-> {},
          cancelled     |-> {},
          flagged_fraud |-> {"pending", "cancelled"}]

Init ==
  /\ status \in Origins
  /\ attempts = 0
  /\ taken = {}
  /\ unheard = {}

Move ==
  /\ status' \in After[status]
  /\ UNCHANGED <<attempts, taken, unheard>>

Attempt ==
  /\ attempts' = attempts + 1
  /\ UNCHANGED <<status, taken, unheard>>

(* Of any two attempts taken, the answer to the earlier one was not heard. *)
Take(n) ==
  /\ status # "flagged_fraud"
  /\ n \notin taken
  /\ \A k \in taken : IF k < n THEN k \in unheard ELSE n \in unheard
  /\ taken' = taken \union {n}
  /\ UNCHANGED <<status, attempts, unheard>>

Lose(n) ==
  /\ unheard' = unheard \union {n}
  /\ UNCHANGED <<status, attempts, taken>>

Next == Move \/ Attempt \/ \E n \in 1 .. attempts : Take(n) \/ Lose(n)

Spec == Init /\ [][Next]_lifecycle
=============================================================================
