SPECIFICATION Spec
CONSTANTS
    Orientations = {zup, xup}
    None = none
    Settle = 1
INVARIANTS TypeOK TouchesKept PositionKnown
