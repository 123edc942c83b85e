\* A session that is left alone, and a second call of /add.
SPECIFICATION Spec
CONSTANTS
    Adds = {a1, a2}
    Names = {n1}
    Tags = {}
    None = None
    Expire = 1
    MaxTime = 3
    MaxCrashes = 0
PROPERTY ExpiredRefusesNobody
CHECK_DEADLOCK FALSE
