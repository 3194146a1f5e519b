SPECIFICATION Spec
CONSTANTS
    e1 = e1
    e2 = e2
    Exchanges = {e1, e2}
    NoExchange = NoExchange
    Anonymous = Anonymous
    MaxMsgs = 2
    MaxOut = 2
    Surroundings = {{"crowded", "editing"}, {"crowded", "editing", "watched"}}
SYMMETRY Symmetry
CHECK_DEADLOCK FALSE
INVARIANT QueueOrder
INVARIANT NothingLost
INVARIANT PartialKept
INVARIANT NoStrayTask
INVARIANT EventsMeetTheirContext
INVARIANT StreamMatchesNotice
