SPECIFICATION FairSpec
CONSTANTS
  t1 = t1
  t2 = t2
  w1 = w1
  w2 = w2
  c1 = c1
  c2 = c2
  NoTask = NoTask
  NoWorker = NoWorker
  Capable <- MCCapable
  RetryBudget <- MCBudget
  Tasks = {t1, t2, h}
  Workers = {w1}
  Clients = {c1}
  HumanTasks = {h}
  GovernedTasks = {t1, t2, h}
  Capacities = {0, 1}
  Sla = 1
  LeaseTerm = 2
  MaxLag = 1
  Evidence = {e1}
  MaxGrants <- MCGrants
INVARIANTS
  EachLeaseChargedOnce
PROPERTIES
  ClaimsFitCapacity
  ImplementsLifecycle
  LeasesEnd
