SPECIFICATION Spec
CONSTANTS
    group = group
    build = build
    reproduce = reproduce
    event = event
    Job = {build, reproduce}
    NoJob = NoJob
    ParentOf <- MCParentOf
    NameOf <- MCNameOf
    Follow <- MCFollow
    Transactional <- MCTransactional
    Adopts <- MCAdopts
    Message = {event}
    NoMessage = NoMessage
    Worker = {w1}
    NoWorker = NoWorker
    Token = {t1, t2, t3}
    NoToken = NoToken
    MaxAttempts = 1
    BatchLimit = 3
    MaxCrashes = 0
SYMMETRY QueueSymmetry
PROPERTIES
    FollowUpsBeforeReceipt
