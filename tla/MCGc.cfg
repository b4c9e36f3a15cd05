CONSTANTS
    o1 = o1
    o2 = o2
    o3 = o3
    p1 = p1
    Obj = {o1, o2, o3}
    Page = {p1}
    PageOf <- MCPageOf
    MaxRefs = 1
    MaxRoots = 2
CONSTRAINT FewRoots
SYMMETRY Symmetric
SPECIFICATION Spec
INVARIANTS ReachableIsLive StackIsSafe MinorMissesNothing CycleEndsClean
 
CHECK_DEADLOCK FALSE
