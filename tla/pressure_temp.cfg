SPECIFICATION Spec
CONSTANTS
  Task = {"temp", "logger"}
  Capacity = 1
  SignalLimit = 1
  MaxSensorErrors = 1
  LogMayFail = FALSE
  Restarts = TRUE
  HeartbeatPeriod = "arbitrary"
  StopSignals = {}
  ClientTargets = {}
INVARIANTS
  NoLostWakeup
  HangsAreFullQueues
PROPERTIES
  HeartbeatKept
CHECK_DEADLOCK FALSE
