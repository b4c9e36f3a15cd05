SPECIFICATION Spec
CONSTANTS
    Workers = {}
    Dbs = {d1, d2}
    Logs = {g1}
    Addr = {1, 2}
    NoConn = NoConn
    BadText = BadText
    Null = Null
    Empty = Empty
    NotV4 = NotV4
    NIL = NIL
    Agents = {}
    MaxRows = 3
    InitialTables <- MixedTables
SYMMETRY Tools
INVARIANTS
    
    IndexIsComplete
    CreateIsComplete
    
