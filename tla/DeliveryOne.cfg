SPECIFICATION DSpec
CONSTANTS
  s0 = s0
  s1 = s1
  e1 = e1
  n1 = n1
  MAX_DEVICES = 1
  Uids = {u0}
  NoDev = NoDev
  Params = {0, 1}
  Vals = {0, 1}
  Threads = {s0, e1, n1}
  Process <- MCProcess
  Sender <- MCSender
PROPERTIES CommandsArriveOrWait SubsArrive
