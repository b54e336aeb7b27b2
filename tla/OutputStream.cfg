SPECIFICATION Spec
CONSTANTS
    Runs = {1, 2}
    RunsIncrease = TRUE
    MaxFileSize = 1
    OutputForceWrite = FALSE
    GarbageIndexes = {1}
    MaxIndex = 2
    Faults = {"crash", "open", "write", "rename", "journal"}
    NoFile = NoFile
    NoJournal = NoJournal
INVARIANT TypeOK
INVARIANT RunAttribution
INVARIANT FilesBounded
INVARIANT JournalDominates
PROPERTY PublishedImmutable
PROPERTY WrittenStays
