\* No symmetry, for the liveness property.
SPECIFICATION FairSpec
CONSTANTS
 Calls = {c1, c2}
 Versions = {v1}
 Receipts = {a, b}
 MaxRetries = 1
 HasFallback = TRUE
 Torn = Torn
 None = None
INVARIANTS AnswersAreTruthful AppendsBounded FallbackIsLastResort
PROPERTIES EveryCallReturns
CHECK_DEADLOCK FALSE
