SPECIFICATION Spec
CONSTANTS
    job1 = job1
    Event <- MCEvent
    Worker = {w1, w2}
    Job <- MCJob
    JobOf <- MCJobOf
    Kinds <- MCKinds
    MaxAttempts = 2
    MaxIterations = 2
    MayUpdateJobs = TRUE
    Failures <- MCFailures
    MaxCrashes = 1
    None = None
INVARIANTS
    TypeOK
    OneWorkerPerEvent
    RetryBudget
    ProcessedMeansApplied
PROPERTIES
    SettledIsFinal
    EventuallySettled
