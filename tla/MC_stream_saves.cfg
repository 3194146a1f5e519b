SPECIFICATION StreamsEnd
CONSTANTS
    a = a
    b = b
    c = c
    d = d
    Turns = {a, b, c, d}
    OldTurns = {a}
    NoTurn = NoTurn
    Savers = {}
    MaxVersion = 1
    Surroundings = {{"busy"}, {"busy", "fail", "crash", "cancel"}}
CHECK_DEADLOCK FALSE
INVARIANT CleanIsStored
PROPERTY ImplementsLog
PROPERTY ScheduledIsStored
