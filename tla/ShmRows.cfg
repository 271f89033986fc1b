CONSTANTS
  MAX_DEVICES = 1
  Uids = {u1, u2}
  NoDev = NoDev
  Params = {0, 1}
  Vals = {0, 1}
  r1 = r1
  r2 = r2
  e1 = e1
  n1 = n1
  NoOne = NoOne
  Threads = {r1, r2, e1}
  Process <- MCProcess
  Work <- RowWork
  Writes <- Ones
  Masks <- MCMasks
  Subs = {{0}}
SYMMETRY Sym
SPECIFICATION WSpec
PROPERTY CallsAreAtomic
