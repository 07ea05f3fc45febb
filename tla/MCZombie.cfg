SPECIFICATION Spec
CONSTANTS
    group = group
    build = build
    reproduce = reproduce
    event = event
    Job = {build}
    NoJob = NoJob
    ParentOf <- MCParentOf
    NameOf <- MCNameOf
    Follow <- MCFollow
    Transactional <- MCTransactional
    Adopts <- MCAdopts
    Message = {event}
    NoMessage = NoMessage
    Worker = {w1, w2}
    NoWorker = NoWorker
    Token = {t1, t2, t3, t4}
    NoToken = NoToken
    MaxAttempts = 2
    BatchLimit = 1
    MaxCrashes = 0
SYMMETRY QueueSymmetry
INVARIANTS
    NothingLost
PROPERTIES
    ImplementsLedger
