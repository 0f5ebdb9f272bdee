SPECIFICATION ThrdFairSpec
CONSTANTS
    c1 = c1
    c2 = c2
    c3 = c3
    o1 = o1
    o2 = o2
    o3 = o3
    Main = Main
    NULL = NULL
    Children <- ThreeChildren
    Objs <- ThreeObjects
INVARIANTS
    SelfIsOwn
    NewFindsItsOwn
    JoinedHasEnded
PROPERTY
    NewReturns
CHECK_DEADLOCK FALSE
