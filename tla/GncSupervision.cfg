CONSTANTS
    GroundModes = {"SAFE", "POINTING"}
    MaxGround = 1
    MaxHarm = 1
SPECIFICATION Spec
PROPERTIES
    ResetsJustified
    OffKept
    CommReturns
    SafeWhenCritical
    SpinsWhenPowered
