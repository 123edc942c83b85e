\* Two users, one session more than fits, and time for buttons to expire.
SPECIFICATION Spec
CONSTANTS
    Users = {p1, p2}
    MaxSessions <- MCMaxSessions
    Expire = 1
    Cleanup = 2
    PageSize = 2
    MaxVolume = 2
    NTags = 2
    FirstSounds = 2
    MaxSounds = 3
    MaxUids = 3
    MaxClicks = 2
    MaxTime = 2
SYMMETRY Symmetry
INVARIANTS
    TypeOK
    PageHasClips
    ChoosesOnce
PROPERTIES
    ChangedByItsOwn
    KeepsSessionTable
\* The system may stop: the clicks run out.
CHECK_DEADLOCK FALSE
