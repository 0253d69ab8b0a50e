SPECIFICATION Spec
CONSTANTS
  PipeCapacity = 2
  PollInterval = 2
  OutputCap = 1
  Requests <- AllRequests
INVARIANTS SamplesAreTheChilds OutcomeIsOfMeasured
PROPERTIES TimeoutIsReal EveryCommandReturns
