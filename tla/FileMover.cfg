SPECIFICATION BothFairSpec
CONSTANTS
    Runs = {1, 2}
    RunsIncrease = TRUE
    MaxFileSize = 1
    OutputForceWrite = FALSE
    GarbageIndexes = {1}
    MaxIndex = 1
    Faults = {"open", "write"}
    MoverFaults = {"compress", "remove"}
    NoFile = NoFile
    NoJournal = NoJournal
PROPERTY ArchivedForGood
PROPERTY FilesLeave
PROPERTY StopPublishes
