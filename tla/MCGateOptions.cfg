SPECIFICATION Spec
CONSTANTS
    Lines <- SomeLines
INVARIANTS IndicesOK WordsLast PathFollowsCommand ArgumentIsThere
PROPERTY EveryLineEnds
CHECK_DEADLOCK FALSE
