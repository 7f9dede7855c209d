---------------------------- MODULE MCOrderSync ----------------------------
(* Instances of OrderSync for TLC. *)
EXTENDS OrderSync, TLC

CONSTANTS checkout, a1, a2

OneAdmin == {a1}
TwoAdmins == {a1, a2}

SomeFaults == {"crash", "lostReply"}
AllFaults == {"crash", "lostReply", "overrun"}
NoFaults == {}

AnyOrigin == {"pending", "flagged_fraud"}
FlaggedOnly == {"flagged_fraud"}

(* The concurrent administrator requests are interchangeable. *)
AdminSymmetry == Permutations(Admins)
=============================================================================
