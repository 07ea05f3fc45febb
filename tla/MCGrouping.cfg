SPECIFICATION Spec
CONSTANTS
  Lane = {w1, w2}
  e1 = e1
  e2 = e2
  e3 = e3
  again = again
  Event <- MCEvent
  Job <- MCJob
  EventOf <- MCEventOf
  Type <- MCType
  Time <- MCTime
  Rank <- MCRank
  DeployTime = {2, 4}
  Window = 2
  Thresholds = {1, 3}
  NoJob = NoJob
  MaxResolves = 2
SYMMETRY MCSymmetry
CHECK_DEADLOCK FALSE
INVARIANTS RegressionsAreAnnounced CountsItsEvents AnnouncedOnce BundlesAreRequested
           RegressionsAreEarned SamplesAreKept RepresentativesAreKept SamplesAreBounded
PROPERTY ImplementsLog
