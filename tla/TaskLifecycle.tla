--------------------------- MODULE TaskLifecycle ---------------------------
(***************************************************************************)
(* What the task store promises about one task, whatever its rows look     *)
(* like: it is offered to at most one worker at a time, every grant ends   *)
(* in a delivery or in one charge against the retry budget, a delivery is  *)
(* only accepted by review, and a finished task is never offered again.    *)
(***************************************************************************)
EXTENDS Naturals

CONSTANTS Tasks, Workers, NoWorker, Capable, Admissible, RetryBudget

VARIABLES phase, holder, grants, charges

vars == <<phase, holder, grants, charges>>

Phases == {"absent", "barred", "open", "held", "review", "done", "dead"}

TypeOK ==
  /\ phase \in [Tasks -> Phases]
  /\ holder \in [Tasks -> Workers \cup {NoWorker}]
  /\ grants \in [Tasks -> Nat] /\ charges \in [Tasks -> Nat]

Init ==
  /\ phase = [t \in Tasks |-> "absent"]
  /\ holder = [t \in Tasks |-> NoWorker]
  /\ grants = [t \in Tasks |-> 0] /\ charges = [t \in Tasks |-> 0]

Admit(t) ==
  /\ phase[t] = "absent"
  /\ phase' = [phase EXCEPT ![t] = IF t \in Admissible THEN "open" ELSE "barred"]
  /\ UNCHANGED <<holder, grants, charges>>

Grant(t, w) ==
  /\ phase[t] = "open" /\ <<t, w>> \in Capable
  /\ charges[t] <= RetryBudget[t] /\ grants[t] = charges[t]
  /\ phase' = [phase EXCEPT ![t] = "held"]
  /\ holder' = [holder EXCEPT ![t] = w]
  /\ grants' = [grants EXCEPT ![t] = @ + 1]
  /\ UNCHANGED charges

\* The holder's failure, or the loss of its lease or of its heartbeat.
Fail(t) ==
  /\ phase[t] = "held"
  /\ phase' = [phase EXCEPT ![t] = IF charges[t] < RetryBudget[t] THEN "open" ELSE "dead"]
  /\ holder' = [holder EXCEPT ![t] = NoWorker]
  /\ charges' = [charges EXCEPT ![t] = @ + 1]
  /\ UNCHANGED grants

Deliver(t) ==
  /\ phase[t] = "held"
  /\ phase' = [phase EXCEPT ![t] = "review"]
  /\ UNCHANGED <<holder, grants, charges>>

Accept(t) ==
  /\ phase[t] = "review"
  /\ phase' = [phase EXCEPT ![t] = "done"]
  /\ holder' = [holder EXCEPT ![t] = NoWorker]
  /\ UNCHANGED <<grants, charges>>

Next ==
  \E t \in Tasks :
    \/ Admit(t) \/ Fail(t) \/ Deliver(t) \/ Accept(t)
    \/ \E w \in Workers : Grant(t, w)

Spec == Init /\ [][Next]_vars
=============================================================================
