SPECIFICATION Spec
CONSTANTS
    OrderId = {1, 2, 3}
    Nil = Nil
    SlotsPerDay = 4
    Offset <- ZoneOffset
    Status = {"uncompleted", "completed", "all"}
    Limit = {0, 1, 3}
    Absent = Absent
    DefaultLimit = 1
    MaxLimit = 2
    MaxVersion <- VersionBound
    MaxPending = 5
    None = None
    Rejected = Rejected
    MaxNote = 1
    FormOf <- Forms
    Date = {0, 1, 2}
    MaxDays = 2
    SlotsPerBucket = 1
    MaxPeaks = 2
CHECK_DEADLOCK FALSE
INVARIANT PagesComplete
INVARIANT QuietClientShowsBoard
INVARIANT ReportsAgree
INVARIANT ReportAddsUp
