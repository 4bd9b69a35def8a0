SPECIFICATION OverlapSpec
CONSTANTS
    ind = ind
    corp = corp
    r1 = r1
    r2 = r2
    r3 = r3
    none = none
    Session <- MCSession
    Corporate <- MCCorporate
    Opened <- MCOpened
    Request <- MCRequest
    Profile <- MCProfile
    AssessmentWriters <- MCWriters
    Recorded <- MCRecorded
    Caller <- MCCaller
    Calls <- MCCalls
    Offered <- MCOffered
    None = none
SYMMETRY Symmetric
INVARIANTS
    TypeOK
    VersionChain
    FinalizationComplete
    CaseIsJustified
    AuditTrailSound
    AnomaliesNeedOverlap
CHECK_DEADLOCK FALSE
