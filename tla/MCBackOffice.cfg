SPECIFICATION BackOfficeSpec
CONSTANTS
    r1 = r1
    r2 = r2
    r3 = r3
    p1 = p1
    t1 = t1
    t2 = t2
    h1 = h1
    s1 = s1
    s2 = s2
    w1 = w1
    wp = wp
    d1 = d1
    analyst = analyst
    mlro = mlro
    none = none
    Request <- MCRequest
    None = none
    Person <- MCPerson
    Tenant <- MCTenant
    Grantable <- MCGrantable
    Hit <- MCHit
    Report <- MCReport
    Base = 3
    Limit = 3
    MaxVersions = 4
    ConfigWritable = TRUE
    TenantWorkflow <- MCTenantWorkflow
    PlatformWorkflow <- MCPlatformWorkflow
    MaxAcks = 2
    Doc <- MCDoc
SYMMETRY Symmetric
CONSTRAINT Bounded
INVARIANTS
    BackOfficeTypeOK
    ProvisioningExplained
    StatusIsARecordedResolution
    SarNumbersCount
    FiledWasValidated
    SettingsKeptUnlessCrossed
    DocumentHistory
PROPERTIES
    AppendOnly
    SwitchedOnWithAck
CHECK_DEADLOCK FALSE
