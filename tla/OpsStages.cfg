SPECIFICATION Spec
CONSTANTS
    Waits = {2, 3, 5}
    DefaultWait = 2
    ResetPeriod = 3
    BootLimit = 2
    MaxTries = 3
    MaxGround = 2
    MaxHarm = 4
    None = None
    Corrupt = Corrupt
INVARIANT DeployOnlyAfterWait
PROPERTIES StoredOrTriedOut EventuallyDeploys
