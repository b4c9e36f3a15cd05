CONSTANTS
    Forms <- MCForms
    Raw <- MCRaw
    MaxRead = 2
    MaxCalls = 3
SPECIFICATION Spec
INVARIANTS FormIsWhatWasSent ContentIsTheBody LinesEndOnce DecodeStaysInside
CHECK_DEADLOCK FALSE
