SPECIFICATION MCSpec
CONSTANTS
  HostSessions = {"u", "v"}
  Catalogs = {{"files", "charts", "reports"}, {"charts", "rival"}, {"files", "charts", "rival"}}
  MaxInstances = 3
  Users = {"u", "v"}
  ColumnCount = 2
  MaxBoards = 2
  MaxTasks = 1
  MaxLinks = 4
  MaxEdits = 1
  KanbanWays = {{"edit", "columns"}, {"boards", "links"}, {"early", "crash"}, {"overlap", "links"}, {"wrong", "edit"}, {"crash", "boards"}}
  Openings <- MCOpenings
  MaxPlies = 2
  DrawnAfter = 4
  Callers = {"u", "v"}
  Shelves = {"calendars", "charts"}
  Hours = 2
  MaxDocuments = 2
  MaxEntries = 2
  DocumentWays = {{"edit", "feed"}, {"feed", "crash"}, {"feed", "overlap"}, {"early"}}
  Shoppers = {"model", "ui"}
  StoreIds = {1, 2}
  MaxBrowsers = 2
  MaxBought = 2
  MaxDays = 2
  GroceryWays = {{"cart"}, {"harvest", "days"}, {"clicks", "fail"}, {"harvest", "fail"}, {"overlap"}}
CHECK_DEADLOCK FALSE
INVARIANT OffersAreLoaded
INVARIANT TasksKept
INVARIANT PositionSound
INVARIANT DocumentsKept
INVARIANT TrackedWasAddedInTurn
