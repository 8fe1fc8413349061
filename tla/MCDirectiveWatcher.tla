------------------------- MODULE MCDirectiveWatcher -------------------------
(* Instances of DirectiveWatcher for TLC. *)
EXTENDS DirectiveWatcher, TLC

CONSTANTS i1, i2, k1, k2

Doc(i, k, g) == [id |-> i, commit |-> k, gate |-> g]
\* One id that comes in two commits, one of them for a human, and a malformed
\* file of its name.
OneIdDocs == {Doc(i1, k1, "plain"), Doc(i1, k2, "human"), Doc(i1, k1, "bad")}
\* Two ids, one of them for a human, and a malformed file of the other's name.
TwoIdDocs == {Doc(i1, k1, "plain"), Doc(i2, k1, "human"), Doc(i1, k1, "bad")}
AnyArrival == Names \X Docs
\* Under an odd name only the document for a human comes.
OddForHuman == {<<n, d>> \in Names \X Docs : n \in OddNames => d.gate = "human"}
=============================================================================
