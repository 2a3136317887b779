SPECIFICATION Spec
CONSTANTS
    List = {sample}
    TaskId = {a, b}
    TimeMs <- MCTimeMs
    MaxEvents = 3
    TimerMod = 32
    RtcPeriod = 4
    CallTicks <- MCCallTicks
    MaxTasks = 3
INVARIANTS StableSorted NeverEarly Timely
PROPERTIES RunsAllOnce Terminates
