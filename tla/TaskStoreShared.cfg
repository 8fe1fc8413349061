SPECIFICATION Spec
CONSTANTS
  t1 = t1
  t2 = t2
  w1 = w1
  w2 = w2
  c1 = c1
  c2 = c2
  NoTask = NoTask
  NoWorker = NoWorker
  Capable <- MCCapable
  RetryBudget <- MCBudget
  Tasks = {t1, t2, u}
  Workers = {w1}
  Clients = {c1, c2}
  HumanTasks = {}
  GovernedTasks = {t1, t2}
  Capacities = {1}
  Sla = 1
  LeaseTerm = 1
  MaxLag = 0
  Evidence = {e1}
  MaxGrants <- MCGrants
SYMMETRY ClientSymmetry
INVARIANTS
  HumanGate
  CompletedOnEvidence
  HeldHasLease
