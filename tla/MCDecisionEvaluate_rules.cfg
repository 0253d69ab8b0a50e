SPECIFICATION TwoRuns
CONSTANTS
  HigherIsBetter = {"rate"}
  Scenarios <- Four
  Configs <- SomeConfigs
  Evidences <- SomeEvidence
  MaxRuns = 2
  None = None
INVARIANTS FailuresArePaidFor RuleOrderIrrelevant
PROPERTY BundleHoldsTogether
