CONSTANTS
  Suites <- MCSuites
  Symbols = {"a"}
  Parameters <- MCParameters
  Pointers = {"p", "q"}
  MaxBlocks = 3
  MayCall <- MCMayCall
SPECIFICATION Spec
INVARIANTS CmockaTypeOK KnownResults
PROPERTIES PassedMeansKept NoFalseFailure SkipIsAsked LeaksAreCharged
