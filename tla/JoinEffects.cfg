\* One user, two channels, three updates, two entries armed.
SPECIFICATION FairSpec
CONSTANTS
    Users = {u1}
    Channels = {ch1, ch2}
    Nowhere = Nowhere
    Unseen = Unseen
    MaxEvents = 3
    MaxArms = 2
    MaxMoves = 1
INVARIANTS
    TypeOK
    PlaysOnce
    NoBargeInOnceSeen
PROPERTIES
    EntriesActedUpon
    ArmedIsPlayed
\* The system may stop: the updates run out.
CHECK_DEADLOCK FALSE
