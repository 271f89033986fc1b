SPECIFICATION DSpec
CONSTANTS
  s0 = s0
  s1 = s1
  e1 = e1
  n1 = n1
  MAX_DEVICES = 2
  Uids = {u0, u1}
  NoDev = NoDev
  Params = {0}
  Vals = {0}
  Threads = {s0, s1, e1, n1}
  Process <- MCProcess
  Sender <- MCSender
PROPERTY SubsArrive
