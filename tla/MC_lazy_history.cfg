SPECIFICATION FeedSpec
CONSTANTS
  Viewers = {"a"}
  MaxTurn = 6
  MaxPiece = 1
  MaxTasks = 4
  Page = 2
  Feeds = {{"lazy"}}
CHECK_DEADLOCK FALSE
INVARIANT LazyHistoryComplete
