SPECIFICATION JobsSpec
CONSTANTS
    build = build
    publish = publish
    receipt = receipt
    Job = {build, publish, receipt}
    NoJob = NoJob
    ParentOf <- MCParentOf
    Token = {t1, t2}
    NoToken = NoToken
    MaxAttempts = 2
    BatchLimit = 1
SYMMETRY TokenSymmetry
PROPERTIES
    ReceiptIsRetained
