CONSTANTS
    MaxRows <- ROWS
    MaxCrashes = 2
    StatementRows = 3
    BACKFILL_CHUNK_ROWS <- CHUNK
SPECIFICATION FairSpec
INVARIANTS
    OneSeed
    HistoryAttributed
    ChoiceNeverLost
    RecordedIsApplied
    BootedIsComplete
PROPERTIES
    UpgradeEnds
CHECK_DEADLOCK FALSE
