CONSTANTS
    k1 = k1
    k2 = k2
    Clients = {k1, k2}
    Requests <- RequestsValue
    Records <- RecordsValue
    PoolSize = 2
SPECIFICATION Spec
INVARIANTS
    TypeOK
    RightAnswer
PROPERTIES
    Served
CHECK_DEADLOCK FALSE
