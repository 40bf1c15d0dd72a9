SPECIFICATION FairSpec
CONSTANTS
  Task = {"logger"}
  Capacity = 10
  SignalLimit = 2
  MaxSensorErrors = 0
  LogMayFail = TRUE
  Restarts = FALSE
  HeartbeatPeriod = "covers_round"
  StopSignals = {"SIGINT", "SIGTERM"}
  ClientTargets = {}
INVARIANTS
  ExitReapsAll
  NoFalseAlarm
PROPERTIES
  StopCompletes
  LogLossIsFatal
