SPECIFICATION LiveSpec
CONSTANTS
    Workers = {w1}
    Dbs = {d1}
    Logs = {g1}
    Addr = {1}
    NoConn = NoConn
    BadText = BadText
    Null = Null
    Empty = Empty
    NotV4 = NotV4
    NIL = NIL
    Agents = {}
    MaxRows = 2
    InitialTables <- FewTables
PROPERTIES
    EveryRequestAnswered
    EveryCommandEnds
