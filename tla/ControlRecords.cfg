SPECIFICATION Spec
CONSTANTS
  MaxTime = 2
  Nobody = Nobody
  Procs = {p1, p2}
  MaxIncidents = 2
  Blank = Blank
  Controllers = {k1, k2, k3}
  LeaseTtl = 2
  Instances = {p1, p2}
  Projects = {d1, d2}
  Observed = {"STALE", "BLOCKED"}
  Torn = Torn
  Engines = {p1, p2}
  Directives = {d1}
  Payloads = {v1, v2}
  MaxRetries = 2
  Window = 1
  MaxAge = 1
  MaxCalls = 4
  NoFile = NoFile
  ApprovalEngines = {p1}
  Executors = {k1, k2}
  Requests = {d1, d2}
  Actions = {v1, v2}
  Approvers = {"admin"}
  Actors = {"system", "admin"}
  ApprovalTtl = 1
  Queues = {p1}
  Entries = {d1}
  Claimants = {k1, k2}
  Hashes = {v1, v2}
  MaxStarts = 2
  g1 = g1
  g2 = g2
  g3 = g3
  k1 = k1
  v1 = v1
  v2 = v2
  Commits = {g1, g2, g3}
  Keys = {k1}
  Bodies = {v1, v2}
  Missing = Missing
  Repo <- MCRepo
  Inbox <- MCInbox
  Old = 3
  MaxHead = 5
  Stray = Stray
  Tree <- MCTree
  Signed <- MCSigned
  Snapshots <- MCSnapshots
  Asked <- MCAsked
  Written <- MCWritten
  Harnesses = {p1}
  HarnessSessions = {d1, d2}
  HarnessSla = 1
  SampleLag = 1
  MaxSequence = 2
  Adapters = {p1}
  BridgeSessions = {d1, d2}
  StatusSla = 1
  ClockAhead = 0
  MaxFrames = 3
INVARIANTS
  RecordsTyped
  
  PublishedIsWhole
  PidNeverNamesAnother
  ContinuedOnce
  NoRetryStorm
  ExecutedAsApproved
  SpentIsSpent
  
  LetThroughStillTrusted
  CertificateNamesOneHead
  VerifiedIsUnambiguous
  OfferedOnLatestWord
PROPERTIES
  ResumeIsEarned
  
  HeardForward
CHECK_DEADLOCK FALSE
