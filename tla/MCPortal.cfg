SPECIFICATION PortalSpec
CONSTANTS
    x1 = x1
    x2 = x2
    y1 = y1
    y2 = y2
    z1 = z1
    none = none
    lost = lost
    Tab <- MCPair
    Applicant <- MCPair
    MaxReviews = 2
    SignUp <- MCPair
    Foreign = none
    Missing = lost
    MaxEvents = 2
    Attempt <- MCSingle
    Callback <- MCOther
    NoKey = none
    MaxKeys = 1
    Officer <- MCPair
    Nobody = none
    MaxRoleChanges = 2
    Reporter <- MCPair
    Suspicion <- MCOther
    Nothing = none
    MaxReports = 3
    PageSize = 1
    CaseId <- MCPair
    SessionId <- MCOther
    Staff <- MCSingle
    Unset = none
    MaxClock = 3
    MonthLength = 2
    Days = 1
SYMMETRY Symmetric
CONSTRAINT Bounded
INVARIANTS
    PortalTypeOK
    WizardSound
    ProvidersHeard
    IdentityAssured
    ScreensSound
    NumbersExplained
CHECK_DEADLOCK FALSE
