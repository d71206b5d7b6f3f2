SPECIFICATION FairSpec
CONSTANTS
  Reqs = {"r1"}
  Cqm = "cqm"
  Ids <- MCIds
  Delay <- MCDelay
  Bss = {"a", "b"}
  Home = "a"
  Ctxs = {1, 2}
  MaxRetry = 2
  MaxQueue = 1
  MaxTurns = 2
INVARIANTS TypeOK NothingLeftBehind
PROPERTIES PeersAgree RequestsEnd  TimerSpec
\* A station without requests and events may rest.
CHECK_DEADLOCK FALSE
