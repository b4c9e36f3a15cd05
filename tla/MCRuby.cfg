CONSTANTS
    Conn = {c1}
    Stmt = {s1, s2}
    Handle = {h1, h2}
    NULL = NULL
    Garbage = Garbage
    Empty = Empty
    q1 = q1
    q2 = q2
    a = a
    b = b
    c = c
    Query = {Empty, q1, q2}
    Columns <- MCColumns
    Table <- MCTable
    Half = 8
SYMMETRY Symmetric
SPECIFICATION Spec
INVARIANTS OpenIsOwnedOrLost EndReleases SelectIsFaithful
PROPERTIES ConnectionOutlivesStatements
CHECK_DEADLOCK FALSE
