SPECIFICATION MCSpec
CONSTANTS
  TIMEOUT = 2
  MIN_SUB_INTERVAL = 1
  MAX_SUB_INTERVAL = 1
  Motors = {m1}
  FULL = 2
  Commands <- MCCommands
  Deadbands = {0, 4}
  DEADBAND = 4
  PidOutputs <- MCPidOutputs
  EnableTime <- MCEnableTime
  MaxIdle = 3
  BITS = 3
  BYTES = 2
  CT <- MCCT
  Cards <- MCCards
  IdBits = 6
  MaxCards = 2
  MaxMoves = 2
  MaxNoise = 1
  MaxCalibrations = 2
  Readings <- MCReadings
  NUM_SERVOS = 2
  SERVOS_PER_TIMER = 12
  REFRESH_INTERVAL = 12
  SLACK = 1
  COUNTS = 20
  Widths = {2, 4}
  DEFAULT_PULSE_WIDTH = 3
INVARIANTS
  ReportsPresentCard
  OneCalibration
  PulsesInTime
PROPERTIES
  RampsSlowly
  NoMotionFromThePast
  ComesToRest
  CardsAreReported
