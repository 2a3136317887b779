SPECIFICATION Spec
CONSTANTS
    Second = 2
    Wrap = 4
    Release = 0
    MaxSyncs = 1
INVARIANTS ShareAtMostOne NoOtherMoveMissed ReportsAlternate
PROPERTIES AbsenceTold
