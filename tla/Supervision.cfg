\* One deploy.  In ticks of about 30 s: 15, 45, 60, 30, 2 to 300 and 20 s.
SPECIFICATION SupervisedSpec
CONSTANTS
    MaxWatchdogs = 2
    Check = 1
    Grace = 1
    Stale = 2
    MinUptime = 1
    BackoffStart = 1
    BackoffMax = 2
    DeploySleep = 1
INVARIANTS
    SupervisedTypeOK
    DumpTellsAll
    OneBot
PROPERTIES
    DumpsOnlySick
    SickBotEnds
    DeadBotRestarts
CHECK_DEADLOCK TRUE
