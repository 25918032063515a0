SPECIFICATION Spec
CONSTANTS
    Axes <- MCAxes
    Field <- MCField
    MaxField = 30000
    Period = 2
INVARIANT
    ExtremaApproximated
