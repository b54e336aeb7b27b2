SPECIFICATION FairSpec
CONSTANTS
    MaxRun = 2
    MaxEnds = 1
    MaxExits = 1
    MaxConns = 3
    NoCommand = NoCommand
INVARIANT TypeOK
INVARIANT ReplyIsTrue
INVARIANT ReplyIsDue
PROPERTY CommandedOnlyGrows
PROPERTY Follows
PROPERTY IsCtrl
