SPECIFICATION Spec
CONSTANTS
  Task = {"temp", "logger"}
  Capacity = 10
  SignalLimit = 1
  MaxSensorErrors = 1
  LogMayFail = FALSE
  Restarts = FALSE
  HeartbeatPeriod = "covers_round"
  StopSignals = {"SIGINT"}
  ClientTargets = {}
INVARIANTS
  ServerCanStep
