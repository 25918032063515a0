SPECIFICATION Spec
CONSTANTS
    Axes <- MCAxes
    Field <- MCField
    MaxField = 30000
    Period = 2
INVARIANTS
    TypeOK
    ConfigNeverTorn
    CalibInField
    InStep
PROPERTIES
    OffsetCentresField
    GoodConfigKept
