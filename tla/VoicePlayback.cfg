\* Two guilds of which the first served may be left for the second; clips of
\* two steps, the second a short one.
SPECIFICATION FairSpec
CONSTANTS
    Guilds = {g1, g2}
    NoGuild = NoGuild
    StepSize = 2
    Sizes = {3}
    MaxIdle = 2
    MaxPlays = 2
    MaxConns = 2
    MaxFaults = 1
    MaxOutages = 1
INVARIANTS
    TypeOK
    SongOrder
    MixedExactlyOnce
    IdleClearsNothingBegun
    TickKeepsItsGuild
    IdleCounterReset
PROPERTIES
    PlaysAsJukebox
    SkipNeverReachesBack
    QueuedAudioDrains
    QuietConnectionCloses
\* The ticker stops when it is asked to.
CHECK_DEADLOCK FALSE
