SPECIFICATION Spec
CONSTANTS
    Workers = {w1}
    Dbs = {}
    Logs = {}
    Addr = {1, 2, 3}
    NoConn = NoConn
    BadText = BadText
    Null = Null
    Empty = Empty
    NotV4 = NotV4
    NIL = NIL
    Agents = {}
    MaxRows = 1
    InitialTables <- RangeTables
INVARIANTS
    RangesAreBlocked
