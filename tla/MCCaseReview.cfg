SPECIFICATION Spec
CONSTANTS
    case1 = case1
    ana = ana
    sen = sen
    mlro = mlro
    r1 = r1
    r2 = r2
    r3 = r3
    none = none
    Case <- MCCase
    Analyst <- MCAnalyst
    Senior <- MCSenior
    Compliance <- MCCompliance
    Request <- MCRequest
    Caller <- MCCaller
    Calls <- MCCalls
    None = none
INVARIANTS
    TypeOK
    StatusNeedsApproval
    TimelineMatchesDecision
    MailAfterRecord
    ComplianceDecisionCloses
PROPERTY RegisterSpec
CHECK_DEADLOCK FALSE
