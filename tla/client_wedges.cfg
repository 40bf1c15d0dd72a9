SPECIFICATION Spec
CONSTANTS
  Task = {"logger"}
  Capacity = 10
  SignalLimit = 1
  MaxSensorErrors = 0
  LogMayFail = FALSE
  Restarts = FALSE
  HeartbeatPeriod = "covers_round"
  StopSignals = {}
  ClientTargets = {"logger"}
INVARIANTS
  NotWedged
