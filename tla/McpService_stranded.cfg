SPECIFICATION FairSpec
CONSTANTS
    Calls = {c1, c2, c3}
    Stop = Stop
    NoCall = NoCall
PROPERTIES
    EveryCallEnds
CHECK_DEADLOCK FALSE
