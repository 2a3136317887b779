\* the default fields: temperature, humidity, occupancy, light, acceleration
CONSTANTS
    Byte <- MCByte
    Record <- MCRecord
    ReportLength = 36
    MemSize = 71
    MaxRecords = 6
    Header = 2
SPECIFICATION Spec
INVARIANTS RoundTrip OneFirstPerLength WritesInside
