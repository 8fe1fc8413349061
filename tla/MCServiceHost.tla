--------------------------- MODULE MCServiceHost ---------------------------
(* Instances of ServiceHost for TLC. *)
EXTENDS ServiceHost, TLC

CONSTANTS a, b, k1

Line(i, k, v) == [id |-> i, key |-> k, verified |-> v, cut |-> FALSE]
\* A directive, and another one that was not written as read-back verified.
TwoLines == {Line(a, k1, TRUE), Line(b, k1, FALSE)}

\* Of a file that was altered no property of the hosts says anything.
Unaltered == ~altered
=============================================================================
