SPECIFICATION Spec
CONSTANTS
  Lane = {w1, w2}
  NoJob = NoJob
  a = a
  b = b
  a1 = a1
  a2 = a2
  a3 = a3
  b1 = b1
  again = again
  Job <- MCJob
  EventOf <- MCEventOf
  Event <- MCEvent
  NoEvent = NoEvent
  Incident = {a, b}
  IncidentOf <- MCIncidentOf
  Time <- MCTime
  Quota = 2
  RetainLimit = 1
  MaxFaults = 1
SYMMETRY MCSymmetry
CHECK_DEADLOCK FALSE
INVARIANTS ObjectsFollowRows SourceIsLatest UsageIsBounded BuildsAreFinished
           RetentionIsEnforced
PROPERTY RepeatsTakeNoNumber
