SPECIFICATION Spec
CONSTANTS
  Programs <- MCPrograms
  TempReadings <- MCTempReadings
  LightReadings <- MCLightReadings
INVARIANTS
  SensorsTypeOK
PROPERTIES
  OneSensorServed
  CleanCallsAreRight
  FailureReadsFreezing
  LostChannelDecides
  ConfigBitsKept
CHECK_DEADLOCK FALSE
