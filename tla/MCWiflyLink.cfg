SPECIFICATION Spec
CONSTANTS
    ConnectTimeout = 2
    SleepRetry = 1
    WakeGaps = {1, 5}
    MacTime = 1
    FailMod = 5
INVARIANTS AsksWhileTrying
PROPERTIES OneSessionPerWake EveryWakeEnds
