\* Two calls of /add that may choose the same name, a crash, and time for the
\* buttons of a first and of a later reply to expire.
SPECIFICATION Spec
CONSTANTS
    Adds = {a1, a2}
    Names = {n1, n2}
    Tags = {t1}
    None = None
    Expire = 1
    MaxTime = 3
    MaxCrashes = 1
SYMMETRY Symmetry
INVARIANTS
    TypeOK
    OneEnd
    RowHasItsClip
\* The system may stop: the calls of /add run out.
CHECK_DEADLOCK FALSE
