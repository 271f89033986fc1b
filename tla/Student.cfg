SPECIFICATION MCSpec
CONSTANTS
  v0 = v0
  v1 = v1
  r1 = r1
  udpt = udpt
  Vals = {v0, v1}
  Zero = v0
  Unplugged = Unplugged
  Malformed = Malformed
  Readers = {r1}
  NoOne = NoOne
  UdpThread = udpt
  MaxDatagrams = 2
  DEBUFF_DURATION = 2
  Velocities = {50, 0, 5, 25}
  ActionNames = {"f", "g"}
  MAX_THREADS = 2
  MaxCreated = 4
  w1 = w1
  w2 = w2
  net = net
  a = a
  b = b
  c = c
  long = long
  UCHAR_MAX = 2
  Keys = {a, b, c}
  LongKeys = {long}
  LogVals = {v0, v1}
  Writers = {w1, w2}
  Sender = net
  Nobody = Nobody
INVARIANTS WholeInput OneThreadPerAction CopyIsTable
PROPERTIES SettledInputIsSeen DebuffTakesEffect DataKeepsFlowing
CHECK_DEADLOCK FALSE
