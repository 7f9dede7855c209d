--------------------------- MODULE MCLandingTraffic ---------------------------
(* Instances of LandingTraffic for TLC. *)
EXTENDS LandingTraffic, TLC

CONSTANTS w1, w2

TwoWorkers == {w1, w2}
AllFaults == {"redis", "reply", "db", "timeout"}
=============================================================================
