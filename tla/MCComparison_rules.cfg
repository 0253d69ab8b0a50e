\* Around a baseline of 10: 0 and 8 are better, 12 sits on the 20% budget, 13
\* is over it.  None is a run that lacks the metric.
SPECIFICATION CompareSpec
CONSTANTS
 wall = wall
 tput = tput
 Metrics = {wall, tput}
 Values = {0, 7, 8, 10, 12, 13}
 Budgets <- MCBudgets
 DefaultDirection <- MCDirection
 Tradeoffs <- MCTradeoffs
 RequireSignificance = TRUE
 None = None
INVARIANTS ReceiptMatchesDeltas FailureIsJustified
CHECK_DEADLOCK FALSE
