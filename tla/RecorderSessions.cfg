\* One user, two sessions one after the other, two packets in flight.
SPECIFICATION FairSpec
CONSTANTS
    Users = {u1}
    NoUser = NoUser
    Callbacks = {c1, c2}
    Duration = 1
    EndDelay = 1
    TimeoutGrace = 2
    StreamDelay = 1
    ChunkSize = 3
    PacketSizes = {0, 2}
    MaxSessions = 2
    MaxPackets = 2
    MaxTime = 5
INVARIANTS
    TypeOK
    NoDeadEntry
    StreamsInOrder
    DestroyedOnlyWhenShut
PROPERTIES
    SilentOnceShut
    SessionEnds
\* The model stops where the clock does.
CHECK_DEADLOCK FALSE
