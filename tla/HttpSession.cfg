CONSTANTS
    t1 = t1
    t2 = t2
    t3 = t3
    Tasks = {t1, t2, t3}
    Null = Null
SPECIFICATION Spec
INVARIANTS
    TypeOK
    Accounted
    SafeUse
PROPERTIES
    Settles
CHECK_DEADLOCK FALSE
