SPECIFICATION Spec
CONSTANTS
    Main = main
    VHosts = {vh}
    Dirs <- TwoDirs
    Names = {a, b}
    Paths = {p, q}
    Readable = {p}
    UserKeys = {"opt"}
    UserValues = {v}
    NoValue = NoValue
    MaxDirectives = 4
CONSTRAINT OneKind
SYMMETRY Symmetric
INVARIANTS
    
    NotesNameDatabase
    HandlersAreDeclared
CHECK_DEADLOCK FALSE
