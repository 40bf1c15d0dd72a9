SPECIFICATION FairSpec
CONSTANTS
  Task = {"light", "logger"}
  Capacity = 4
  SignalLimit = 1
  MaxSensorErrors = 0
  LogMayFail = FALSE
  Restarts = FALSE
  HeartbeatPeriod = "covers_round"
  StopSignals = {}
  ClientTargets = {}
INVARIANTS
  NoFalseAlarm
  NotWedged
PROPERTIES
  HeartbeatKept
  MessagesRead
  RoundsRecur
