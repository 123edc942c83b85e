\* Two deploys.  Pauses of 1, 2 and 4 ticks, and 3 for the sleep of the deploy:
\* only the longest pause outlasts it, as those of 32 s and more outlast 20 s.
SPECIFICATION Spec
CONSTANTS
    MaxWatchdogs = 3
    Check = 1
    Grace = 2
    Stale = 3
    MinUptime = 2
    BackoffStart = 1
    BackoffMax = 4
    DeploySleep = 3
INVARIANTS
    StoppedByDeploy
CHECK_DEADLOCK TRUE
