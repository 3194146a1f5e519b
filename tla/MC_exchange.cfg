SPECIFICATION FairSpec
CONSTANTS
    e1 = e1
    e2 = e2
    Exchanges = {e1, e2}
    NoExchange = NoExchange
    Anonymous = Anonymous
    MaxMsgs = 1
    MaxOut = 1
    Surroundings = {{"overlapping", "lingering"}, {"crowded", "editing"}, {"watched"}}
CHECK_DEADLOCK FALSE
INVARIANT TypeOK
INVARIANT StreamingHasTask
PROPERTY BusyEnds
PROPERTY ImplementsProtocol
