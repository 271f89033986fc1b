SPECIFICATION MCSpec
CONSTANTS
  Ports = {p1, p2}
  MAX_DEVICES = 1
  NoPort = NoPort
  BYTE_MAX = 15
  MAX_PAYLOAD_SIZE = 4
  BUFFER = 15
  xor <- MCXor
  Messages <- MCMessages
  MaxSent = 3
  MaxLost = 4
  MODULUS = 16
  MaxFailures = 3
  INT_BITS = 16
  Bitmaps <- MCBitmaps
  SLOTS = 2
  Devs = {"a", "b", "c"}
  Unknown = {"c"}
INVARIANTS OneRelay WorksOnOwnSlot LossIsLocal MovesExactly ParametersLand DatagramIsTrue
PROPERTY FramesAreCobs
CHECK_DEADLOCK FALSE
