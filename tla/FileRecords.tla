----------------------------- MODULE FileRecords -----------------------------
(***************************************************************************)
(* What the components that keep their state in a file have in common: a   *)
(* file, or an instance's copy of it, is a set of records with an id each. *)
(***************************************************************************)

CONSTANT Nobody  \* no owner, no instance, no status, nothing given

Has(recs, r) == \E x \in recs : x.id = r
Rec(recs, r) == CHOOSE x \in recs : x.id = r
With(recs, x) == {y \in recs : y.id # x.id} \cup {x}
=============================================================================
