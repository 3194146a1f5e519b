SPECIFICATION Spec
CONSTANTS
    a = a
    b = b
    c = c
    s1 = s1
    Turns = {a, b, c}
    OldTurns = {a, b}
    NoTurn = NoTurn
    Savers = {s1}
    MaxVersion = 2
    Surroundings = {{"others", "change", "delete", "archive", "crash"},
                    {"others", "change", "archive", "crash", "fail", "cancel"},
                    {"others", "change", "delete", "archive", "crash", "fail", "cancel"},
                    {"others", "change", "delete", "archive", "busy", "fail", "crash", "cancel"}}
CHECK_DEADLOCK FALSE
SYMMETRY Symmetry
INVARIANT OrderHasRecords
INVARIANT SavedMeansStored
PROPERTY StoredStays
