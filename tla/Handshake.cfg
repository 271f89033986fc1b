SPECIFICATION HLiveSpec
CONSTANTS
  p1 = p1
  Ports = {p1}
  port = p1
  MAX_DEVICES = 1
  NoPort = NoPort
  TIMEOUT = 4
  MIN_SUB_INTERVAL = 1
  MAX_SUB_INTERVAL = 2
  EnableTimes = {0, 4, 5}
  MaxFaults = 2
PROPERTIES StaysConnected UnpluggedIsReleased MissedStartIsRetried
