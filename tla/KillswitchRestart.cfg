SPECIFICATION KSpec
CONSTANTS
  Procs = {p1}
  MaxIncidents = 1
  Blank = Blank
INVARIANT
  StopSurvivesRestart
CHECK_DEADLOCK FALSE
