----------------------------- MODULE MCComparison -----------------------------
EXTENDS Comparison

CONSTANTS wall, tput

\* Budgets of 20% with a warning from 18%; throughput is the better the higher.
MCBudgets ==
  [m \in Metrics |->
     [threshold |-> 20, warn |-> 18,
      direction |-> IF m = tput THEN "higher" ELSE "lower",
      noise_policy |-> IF m = tput THEN "skip" ELSE "warn"]]

MCDirection == [m \in Metrics |-> IF m = tput THEN "higher" ELSE "lower"]

Need(m, min) == [metric |-> m, min |-> min, probe |-> FALSE]

\* A rule that is left to the scenario evaluation, one with two requirements,
\* and a weaker one behind it; throughput may be given up for wall time.
MCTradeoffs ==
  << [if_failed |-> wall, allow |-> TRUE, downgrade_to |-> "pass", require |-> {Need(tput, 110)}],
     [if_failed |-> wall, allow |-> FALSE, downgrade_to |-> "pass",
      require |-> {Need(tput, 120), Need(wall, 50)}],
     [if_failed |-> wall, allow |-> FALSE, downgrade_to |-> "warn", require |-> {Need(tput, 110)}],
     [if_failed |-> tput, allow |-> FALSE, downgrade_to |-> "warn", require |-> {Need(wall, 110)}] >>
=============================================================================
