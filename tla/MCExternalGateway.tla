------------------------- MODULE MCExternalGateway -------------------------
(* Instances of ExternalGateway for TLC. *)
EXTENDS ExternalGateway, TLC

CONSTANTS c1, c2, m1, m2, m3, m4, k1, k2, w1, w2

MCCapable == Tasks \X {w1}
MCBudget == [t \in Tasks |-> 1]
MCGrants == [t \in Tasks |-> 2]
GatewaySymmetry ==
  Permutations(Messages) \cup Permutations(Challenges) \cup Permutations(Sessions)
=============================================================================
