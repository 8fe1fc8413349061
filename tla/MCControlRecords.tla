--------------------------- MODULE MCControlRecords ---------------------------
(***************************************************************************)
(* A small instance of ControlRecords for TLC.                             *)
(***************************************************************************)
EXTENDS ControlRecords, TLC

CONSTANTS g1, g2, g3, k1, v1, v2  \* model values

\* g2 has the content of g1, under the key of g1, at the directive's own path.
MCRepo ==
    g1 :> [own |-> v1, id |-> v1, key |-> k1] @@ g2 :> [own |-> v1, id |-> Missing, key |-> k1]
    @@ g3 :> [own |-> v2, id |-> v1, key |-> Nobody]
Sound ==
    [source |-> TRUE, branch |-> TRUE, commit |-> g1, hash |-> v1, path |-> "id",
     times |-> "good", action |-> "allowed"]
\* A sound directive, one that is admitted from its own path and waits for a
\* human, and one for every check that can fail.
MCInbox ==
    {Sound,
     [Sound EXCEPT !.commit = g2, !.path = "own", !.hash = Nobody, !.action = "human"],
     [Sound EXCEPT !.commit = g2],
     [Sound EXCEPT !.commit = g3], [Sound EXCEPT !.hash = v2],
     [Sound EXCEPT !.commit = Missing], [Sound EXCEPT !.source = FALSE],
     [Sound EXCEPT !.branch = FALSE], [Sound EXCEPT !.times = "future"],
     [Sound EXCEPT !.times = "unparsable"], [Sound EXCEPT !.action = "prohibited"]}

Governed ==
    [file |-> "read", api |-> TRUE, auth |-> TRUE, pr |-> TRUE, ci |-> TRUE, merged |-> TRUE,
     protection |-> Rules, override |-> Nobody]
MCSnapshots ==
    {Governed, [Governed EXCEPT !.file = "stale"], [Governed EXCEPT !.protection = Nobody],
     [Governed EXCEPT !.override = Rules \ {"admin"}]}
MCAsked ==
    {[code |-> 1, evidence |-> 2], [code |-> 1, evidence |-> 1], [code |-> Nobody, evidence |-> 2],
     [code |-> 1, evidence |-> 4], [code |-> Stray, evidence |-> 2]}
\* The last commit changes the code.
MCTree == [c \in History |-> IF c = MaxHead THEN 1 ELSE 0]
MCSigned == Heads

NoFileThere == [here |-> FALSE, says |-> Nobody, pulse |-> Nobody, beat |-> "none", human |-> FALSE,
                commit |-> Nobody]
Silent == [NoFileThere EXCEPT !.here = TRUE]
MCWritten ==
    {NoFileThere, Silent, [Silent EXCEPT !.says = "PASS", !.commit = "other"], [Silent EXCEPT !.says = "RUNNING"],
     [Silent EXCEPT !.says = "DEVELOPING", !.beat = "fresh", !.human = TRUE, !.commit = "pushed"],
     [Silent EXCEPT !.pulse = "DEVELOPING", !.beat = "old"],
     [Silent EXCEPT !.pulse = "PASS", !.beat = "fresh"],
     [Silent EXCEPT !.says = "UNKNOWN", !.pulse = "RUNNING", !.beat = "fresh"]}
=============================================================================
