SPECIFICATION GSpec
CONSTANTS
  c1 = c1
  c2 = c2
  m1 = m1
  m2 = m2
  m3 = m3
  m4 = m4
  k1 = k1
  k2 = k2
  w1 = w1
  w2 = w2
  NoTask = NoTask
  NoWorker = NoWorker
  NoSession = NoSession
  NoMessage = NoMessage
  Capable <- MCCapable
  RetryBudget <- MCBudget
  MaxGrants <- MCGrants
  Tasks = {t1}
  Workers = {w1, w2}
  Clients = {c1, c2}
  Gate = c2
  HumanTasks = {}
  GovernedTasks = {t1}
  Capacities = {1}
  Sla = 1
  LeaseTerm = 2
  MaxLag = 0
  Evidence = {e1}
  Sessions = {s1, s2}
  Challenges = {k1, k2}
  Messages = {m1, m2}
  MaxSeq = 2
  ChallengeTerm = 1
SYMMETRY GatewaySymmetry
INVARIANTS
  DispatchRowsTrue
  OneDispatchPerLease
  EvidenceFromAcker
PROPERTIES
  SessionKept
  OnlyTrustedAct
