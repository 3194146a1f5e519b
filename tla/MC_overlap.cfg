SPECIFICATION Spec
CONSTANTS
    a = a
    b = b
    c = c
    s1 = s1
    s2 = s2
    Turns = {a, b, c}
    OldTurns = {a}
    NoTurn = NoTurn
    Savers = {s1, s2}
    MaxVersion = 1
    Surroundings = {{"busy", "others"}}
CHECK_DEADLOCK FALSE
SYMMETRY Symmetry
INVARIANT NothingLeftOut
