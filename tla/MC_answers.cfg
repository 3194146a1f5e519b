SPECIFICATION MCSpec
CONSTANTS
  MaxWords = 4
  MaxBlanks = 1
  MaxCalls = 3
  MaxAsks = 2
  MaxTogether = 2
  MaxModes = 1
  Happens = {
    {"cancel", "blank", "thinking"},
    {"steer", "ui", "cancel"},
    {"ask", "steer", "embedded"},
    {"fail", "modes", "cancel"},
    {"modes", "ui", "ask"}}
  Viewers = {"a", "b"}
  MaxTurn = 4
  MaxPiece = 2
  MaxTasks = 4
  Page = 2
  Feeds = {
    {"history", "stall"},
    {"reverse", "switch", "leave"},
    {"history", "tree", "switch"},
    {"lazy", "history", "leave"},
    {"slam", "leave", "lazy", "stall"},
    {"history", "delete"}}
  MaxParent = 4
  MaxIds = 6
  MaxForks = 2
  PlanLength = 2
  Ranges = {"all", "last", "0"}
  Sayings = {{"text", "delete"}, {"text", "link"}, {"text", "again"}, {"markdown", "images"}}
CHECK_DEADLOCK FALSE
INVARIANT ToolProtocol
INVARIANT WordsKept
INVARIANT StoredIsShown
INVARIANT SteeringReachesModel
INVARIANT ViewsConverge
INVARIANT ForkFaithful
