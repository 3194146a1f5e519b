SPECIFICATION WatchSpec
CONSTANTS
  Watchers = {"v", "w"}
  MaxExchanges = 2
  MaxAsked = 1
  MaxAlerts = 1
  Hows = {{"users"}, {"stop", "fail"}, {"restart", "hurry"}, {"delete"}}
CHECK_DEADLOCK FALSE
INVARIANT ToldThenAsked
PROPERTY AllTold
