---------------------------- MODULE MCIngestion ----------------------------
(* Instances of Ingestion for TLC. *)
EXTENDS Ingestion, TLC

CONSTANTS a, b, k1, k2, k3

Line(i, k, v) == [id |-> i, key |-> k, verified |-> v, cut |-> FALSE]
\* One directive under two bindings, and another one, read-back verified or not.
FourLines ==
    {Line(a, k1, TRUE), Line(a, k2, TRUE), Line(b, k3, TRUE), Line(b, k3, FALSE)}

\* Ingestors are alike, and so are the two bindings of the one directive.
Alike == Permutations(Ingestors) \cup Permutations({k1, k2})

\* A line that is refused is followed in a file nobody altered: it ends every
\* cycle that comes to it in the same way, before and after an alteration.
RefusedUnaltered == altered => \A l \in Elements(file) \cup {writing} : l \in {NoLine, Torn} \/ l.verified
=============================================================================
