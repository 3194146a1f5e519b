SPECIFICATION MCSpec
CONSTANTS
  Hosts = {h1, h2}
  Backends = {b}
  Procs = {p1, p2}
  Nothing = nothing
  MaxEdits = 3
  MaxChecks = 2
  MaxStops = 2
  MaxLines = 2
  Chores = {
    {"edit", "check"},
    {"edit", "fail"},
    {"run", "stop"},
    {"run", "refresh"},
    {"run", "write"}}
  Keys = {k1}
  Users = {u1, u2}
  MaxServers = 2
  MaxRequests = 7
  Limit = 1
  Demands = {
    {"ask", "stop", "cancel"},
    {"ask", "start", "restart", "die"},
    {"ask", "stop", "busy"}}
  Names = {n1, n2}
  NoName = noname
  MaxBrowsers = 3
  MaxPages = 3
  Habits = {{"crash"}, {"hasty"}, {"browse"}}
CHECK_DEADLOCK FALSE
INVARIANT StatusIsCurrent
INVARIANT OneServerEach
INVARIANT TableSound
 
PROPERTY CallsReturn
