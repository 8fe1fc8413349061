---------------------------- MODULE MCTaskStore ----------------------------
(* Instances of TaskStore for TLC. *)
EXTENDS TaskStore, TLC

CONSTANTS t1, t2, w1, w2, c1, c2

MCCapable == Tasks \X Workers
MCBudget == [t \in Tasks |-> IF t = t1 THEN 1 ELSE 0]
MCGrants == [t \in Tasks |-> MCBudget[t] + 1]
ClientSymmetry == Permutations({c1, c2})
=============================================================================
