SPECIFICATION Spec
CONSTANTS
    MAX_REPORTS = 3
    Fields = {"levels", "changes"}
    Changes = {"changes"}
    StoreRoom = 2
    MaxReports = 4
    MaxPackets = 3
INVARIANTS ConfigurationHolds
