-------------------------- MODULE MCOrderSubmission --------------------------
(* Instance of OrderSubmission for TLC: two requests of one customer.       *)
EXTENDS OrderSubmission, TLC

CONSTANTS s1, s2, alice, home, co, o1, p1, p2

TwoSubmissions == {s1, s2}
OnePhone == [s \in Submissions |-> alice]
OneAddress == [s \in Submissions |-> home]
Country == [s \in Submissions |-> co]
OneOffer == {o1}
TwoPrices == {p1, p2}
TwoLimits == {1, 2}
AllFaults == {"redis", "db", "commit", "crash"}
(* The two requests of one customer are interchangeable, as are the prices. *)
Symmetry == Permutations({s1, s2}) \union Permutations(Prices)
=============================================================================
