SPECIFICATION SFairSpec
CONSTANTS
  a = a
  b = b
  k1 = k1
  Ingestors = {h1, h2}
  Hosts = {h1, h2}
  Ids = {a, b}
  Keys = {k1}
  Lines <- TwoLines
  Producers = {"queue"}
  MaxLines = 2
  MaxFailures = 1
  MaxCycles = 1
  Torn = Torn
  NoLine = NoLine
  NoHost = NoHost
PROPERTIES
  QueuedBecomesTask
