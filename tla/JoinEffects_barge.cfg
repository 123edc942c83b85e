\* A user is in voice when the bot starts, and mutes after the suppression.
SPECIFICATION Spec
CONSTANTS
    Users = {u1}
    Channels = {ch1, ch2}
    Nowhere = Nowhere
    Unseen = Unseen
    MaxEvents = 3
    MaxArms = 2
    MaxMoves = 1
INVARIANTS
    ActsOnlyOnEntry
CHECK_DEADLOCK FALSE
