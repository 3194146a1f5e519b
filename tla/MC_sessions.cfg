SPECIFICATION MCSpec
CONSTANTS
  Sessions = {s1, s2, s3}
  Roots = {s1, s2}
  Nobody = nobody
  Callers = {c1, c2}
  MaxCopy = 6
  MaxTurns = 4
  Occasions = {
    {"fork", "compress", "merge", "conclude", "delete", "talk", "restart"},
    {"compress", "merge", "fail", "backend"},
    {"link", "watch", "unwatch", "watcher", "open", "alert", "create"},
    {"watch", "unwatch", "open", "restart"},
    {"link", "compress", "talk", "together", "warm"},
    {"link", "watch", "conclude", "together", "warm"},
    {"fork", "merge", "talk", "alert", "together", "warm"},
    {"delete", "open", "talk", "together"}}
  Clients = {"a", "b"}
  MaxSaid = 4
  MaxArchive = 2
  MaxTurn = 7
  Plans = {
    {"say", "archive", "rehydrate", "complete"},
    {"say", "think", "archive", "rehydrate", "alone"},
    {"review", "approve", "mode", "fail", "alone"},
    {"delete", "archive", "rehydrate", "restart"},
    {"say", "archive", "complete", "manual", "alone"}}
  Waiters = {"w1", "w2"}
  Pump = "pump"
  MaxPieces = 2
  Automatic = {TRUE, FALSE}
  Kinds = {"text", "markdown", "image", "tool_use", "tool_result", "error", "forked_from",
           "review"}
  MaxStory = 3
  MaxFiles = 2
SYMMETRY Alike
CHECK_DEADLOCK FALSE
INVARIANT ParentNeverAhead
INVARIANT BothEndsAgree
INVARIANT TextsSafe
INVARIANT StoryKept
INVARIANT ResultTakenOnce
PROPERTY StoredTurnsStay
