SPECIFICATION XFairSpec
CONSTANTS
  f1 = f1
  f2 = f2
  x = x
  y = y
  a1 = a1
  a2 = a2
  g1 = g1
  g2 = g2
  Absent = Absent
  NoTask = NoTask
  NoWorker = NoWorker
  NoGrant = NoGrant
  Capable <- MCCapable
  RetryBudget <- MCBudget
  MaxGrants <- MCGrants
  Plans <- MCPlans
  FirstDisk <- MCDisk
  Tasks = {t1}
  Workers = {w1}
  Clients = {gateway, supervisor, others}
  Gateway = gateway
  Supervisor = supervisor
  HumanTasks = {}
  GovernedTasks = {t1}
  Capacities = {1}
  Sla = 2
  LeaseTerm = 2
  MaxLag = 0
  Evidence = {e1}
  Appliers = {a1, a2}
  Grants = {g1, g2}
  Files = {f1, f2}
  Contents = {Absent, x, y}
  GrantTerm = 2
INVARIANTS
  LedgerMatchesDisk
  ReviewHasEvidence
PROPERTIES
  TransactionsSettle
