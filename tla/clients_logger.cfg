SPECIFICATION Spec
CONSTANTS
  Task = {"logger"}
  Capacity = 1
  SignalLimit = 1
  MaxSensorErrors = 0
  LogMayFail = TRUE
  Restarts = TRUE
  HeartbeatPeriod = "arbitrary"
  StopSignals = {"SIGINT", "SIGTERM"}
  ClientTargets = {"main", "logger"}
INVARIANTS
  TypeOK
  NoLostWakeup
  WakeupInv
  HangsAreFullQueues
PROPERTIES
  ImplementsMailbox
CHECK_DEADLOCK FALSE
