SPECIFICATION ConverterSpec
CONSTANTS
  MaxFailures = 2
  Loggers = {"net_handler"}
  Writers = {"a", "b"}
  Process <- MCProcess
  PIPE_SIZE = 1
  MAX_NUM_LOGS = 1
  MaxLogs = 2
  MaxVisits = 2
  MaxBroken = 1
  MaxSessions = 3
  MaxOut = 2
  MaxIn = 2
INVARIANT EofIsAnError
CHECK_DEADLOCK FALSE
