SPECIFICATION CycleSpec
CONSTANTS
    TimeMod = 8
    RetryMod = 4
    ERROR_RETRY_INTERVAL = 1
    ERROR_NUM_RETRIES = 1
    SampleIntervals = {1, 2}
    RecordIntervals = {1, 3}
    SyncTimes = {0, 5}
    Round = 5
    MaxPackets = 2
    HistoryMax = 4
INVARIANTS CycleTypeOK
PROPERTIES ReportsWhenDue KeepsReporting RetriesStop
