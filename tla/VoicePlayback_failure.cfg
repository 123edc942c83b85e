\* One send throws, the connection survives it.
SPECIFICATION FairSpec
CONSTANTS
    Guilds = {g1}
    NoGuild = NoGuild
    StepSize = 2
    Sizes = {3}
    MaxIdle = 2
    MaxPlays = 2
    MaxConns = 2
    MaxFaults = 1
    MaxOutages = 0
PROPERTIES
    KeepsPlayingAfterFailure
CHECK_DEADLOCK FALSE
