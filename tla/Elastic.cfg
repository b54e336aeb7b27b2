SPECIFICATION FairSpec
CONSTANTS
    Threads = {t1, t2}
    Runs = {1, 2}
    Blocks = {0, 1}
    Muons = {0, 1}
    MaxData = 2
    NoRun = NoRun
PROPERTY Populates
CHECK_DEADLOCK FALSE
