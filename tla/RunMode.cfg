SPECIFICATION RLiveSpec
CONSTANTS
  MaxKids = 2
  MaxInputs = 1
  Asks <- DawnChallenges
  Written = {"KoalaBear"}
  Logs = TRUE
INVARIANTS IdleWithoutClients StoppedWhenIdle
PROPERTIES StopStops JoinReturns
CHECK_DEADLOCK FALSE
