SPECIFICATION HealthSpec
CONSTANTS
  d1 = d1
  d2 = d2
  Watched = {d1, d2}
  Scopes <- TheScopes
  Pages = {p1}
  Sweep = sweep
  Unmarked = unmarked
  MaxPeriod <- ThePeriods
  MaxFaults = 1
CHECK_DEADLOCK FALSE
INVARIANT ReportedOncePerSilence
 
