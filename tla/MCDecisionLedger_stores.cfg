\* Three requests over each of the stores.
SPECIFICATION Spec
CONSTANTS
 Requests = {1, 2, 3}
 Backends <- MCBackends
 Variations = {10, 40}
 Prunes <- MCPrunes
 HistoryLimit = 2
 AcceptedRules <- MCAcceptedRules
 MaxClock = 1
 Null = Null
INVARIANTS FlakinessFromHistory PruneReportsRemoved ListsAreComplete
CHECK_DEADLOCK FALSE
