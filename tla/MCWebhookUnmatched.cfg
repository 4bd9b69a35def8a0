SPECIFICATION Spec
CONSTANTS
    job1 = job1
    Event <- MCEvent
    Worker = {w1, w2}
    Job <- MCJob
    JobOf <- MCJobOf
    Kinds <- MCHits
    MaxAttempts = 2
    MaxIterations = 2
    MayUpdateJobs = FALSE
    Failures <- MCNoFailures
    MaxCrashes = 0
    None = None
PROPERTY ResultsReachJobs
