SPECIFICATION FairSpec
CONSTANTS
    Runs = {1, 2}
    RunsIncrease = TRUE
    MaxFileSize = 1
    OutputForceWrite = FALSE
    GarbageIndexes = {1}
    MaxIndex = 2
    Faults = {"crash", "open", "rename", "journal"}
    NoFile = NoFile
    NoJournal = NoJournal
PROPERTY StopCloses
