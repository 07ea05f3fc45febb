SPECIFICATION FairSpec
CONSTANTS
    group = group
    build = build
    reproduce = reproduce
    event = event
    Job = {group}
    NoJob = NoJob
    ParentOf <- MCParentOf
    NameOf <- MCNameOf
    Follow <- MCFollow
    Transactional <- MCTransactional
    Adopts <- MCAdopts
    Message = {event}
    NoMessage = NoMessage
    Worker = {w1}
    NoWorker = NoWorker
    Token = {t1, t2, t3}
    NoToken = NoToken
    MaxAttempts = 2
    BatchLimit = 1
    MaxCrashes = 0
PROPERTIES
    IngressIsAdopted
    OpenJobsSettle
