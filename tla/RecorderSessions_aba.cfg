\* A late end of one session meets the next session of the same user.
SPECIFICATION Spec
CONSTANTS
    Users = {u1}
    NoUser = NoUser
    Callbacks = {c1}
    Duration = 1
    EndDelay = 1
    TimeoutGrace = 2
    StreamDelay = 1
    ChunkSize = 3
    PacketSizes = {0}
    MaxSessions = 3
    MaxPackets = 0
    MaxTime = 7
INVARIANTS
    OneSessionPerUser
CHECK_DEADLOCK FALSE
