---------------------------- MODULE MCExecution ----------------------------
(* Instances of Execution for TLC. *)
EXTENDS Execution, TLC

CONSTANTS f1, f2, x, y, a1, a2, g1, g2

Operation(f, old, new) == [file |-> f, pre |-> old, post |-> new]
\* One plan creates a file and replaces another, one takes both changes back.
MCPlans == { << Operation(f1, Absent, x), Operation(f2, x, y) >>,
             << Operation(f1, x, Absent), Operation(f2, y, x) >> }
MCDisk == (f1 :> Absent) @@ (f2 :> x)
MCCapable == Tasks \X Workers
MCBudget == [t \in Tasks |-> 1]
MCGrants == [t \in Tasks |-> 2]
ApplierSymmetry == Permutations(Appliers) \cup Permutations(Grants)
=============================================================================
