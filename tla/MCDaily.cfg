SPECIFICATION Spec
CONSTANTS
    l1 = l1
    l2 = l2
    morning = morning
    evening = evening
    web = web
    i1 = i1
    i2 = i2
    NoLane = NoLane
    Off = Off
    NoBatch = NoBatch
    Lane = {l1, l2}
    Schedule = {morning, evening}
    Project = {web}
    Item = {i1, i2}
    ProjectOf <- MCProjectOf
    MaxAttempts = 1
    MaxDay = 2
    MaxChanges = 1
    MaxFaults = 1
SYMMETRY Symmetry
CHECK_DEADLOCK FALSE
INVARIANTS
    OverdueIsFound
    NothingIsSilentlyDropped
    RepeatsNeedFaults
PROPERTY
    MovesAreNotCharged
