------------------------------ MODULE Comparison ------------------------------
(***************************************************************************)
(* compare_runs_with_tradeoffs: one current run against its baseline.  A   *)
(* loop over the budgets gives each metric a status, counting and naming   *)
(* reasons as it goes; a second loop revisits the failed metrics and lets  *)
(* tradeoff rules downgrade them, correcting counts and reasons in place.  *)
(*                                                                         *)
(* Metric values are naturals and ratios are percentages, compared exactly *)
(* (the code divides f64s).  The noise of a metric (cv > noise_threshold)  *)
(* and the outcome of Welch's t-test are inputs.                           *)
(***************************************************************************)
EXTENDS Verdict, FiniteSets, Sequences

CONSTANTS
  Metrics,             \* metrics with a budget
  Values,              \* values a metric may be measured at
  Budgets,             \* metric -> [threshold, warn, direction, noise_policy]
  DefaultDirection,    \* Metric::default_direction
  Tradeoffs,           \* the configured rules, in order
  RequireSignificance  \* --require-significance with --significance-alpha

Budget == [threshold : Nat, warn : Nat, direction : {"lower", "higher"},
           noise_policy : {"ignore", "warn", "skip"}]

\* probe is whether the requirement names one, allow whether the rule has
\* allowances: both are left to the scenario evaluation.
Rule == [if_failed : Metrics, allow : BOOLEAN, downgrade_to : {"warn", "pass"},
         require : SUBSET [metric : Metrics, min : Nat, probe : BOOLEAN]]

ASSUME MetricsAssumption == IsFiniteSet(Metrics)
ASSUME ValuesAssumption == Values \subseteq Nat
ASSUME BudgetsAssumption ==
  /\ Budgets \in [Metrics -> Budget]
  /\ DefaultDirection \in [Metrics -> {"lower", "higher"}]
ASSUME TradeoffsAssumption == Tradeoffs \in Seq(Rule)
ASSUME SignificanceAssumption == RequireSignificance \in BOOLEAN

Reading == [baseline : Values, current : Values, noisy : BOOLEAN, significant : BOOLEAN]

ASSUME ReadingAssumption == None \notin MetricStatus /\ None \notin Reading

\* Reason tokens: {metric}_{status} and three about tradeoffs, of no metric.
Tradeoff(what) == <<None, what>>
Reason == (Metrics \X MetricStatus)
          \cup {Tradeoff(what) : what \in {"applied", "missing_metric", "not_satisfied"}}

VARIABLES
  stage,     \* the loop that is running
  todo,      \* metrics it has not reached
  reading,   \* what was measured: metric -> reading, or None where a run lacks it
  status,    \* status of each delta, None where there is none
  counts,    \* VerdictCounts so far
  reasons    \* reason tokens so far

compareVars == <<stage, todo, reading, status, counts, reasons>>

CompareTypeOK ==
  /\ stage \in {"evaluate", "tradeoff", "done"}
  /\ todo \subseteq Metrics
  /\ reading \in [Metrics -> Reading \cup {None}]
  /\ status \in [Metrics -> MetricStatus \cup {None}]
  /\ counts \in VerdictCounts
  /\ reasons \subseteq Reason

-----------------------------------------------------------------------------
(* evaluate_budget. *)

\* The regression, in percent of the baseline times the baseline.
CalculateRegression(b, c, direction) ==
  LET worse == IF direction = "lower" THEN c - b ELSE b - c IN
    IF worse > 0 THEN 100 * worse ELSE 0

DetermineStatus(regression, b, budget) ==
  IF regression > budget.threshold * b THEN "fail"
  ELSE IF regression >= budget.warn * b THEN "warn"
  ELSE "pass"

\* Noise replaces the status, whatever it was, unless it is to be ignored;
\* then a warning or failure that is not significant is dropped.
EvaluateBudget(m, r) ==
  LET budget == Budgets[m]
      plain  == DetermineStatus(CalculateRegression(r.baseline, r.current, budget.direction),
                                r.baseline, budget)
      noted  == IF r.noisy /\ budget.noise_policy # "ignore" THEN budget.noise_policy ELSE plain
  IN IF RequireSignificance /\ ~r.significant /\ noted \in {"warn", "fail"} THEN "pass" ELSE noted

\* One turn of the first loop.  A metric that either run lacks is passed over;
\* one whose baseline is not positive is skipped, without a reason.
EvaluateMetric(m, r) ==
  /\ stage = "evaluate" /\ m \in todo
  /\ todo' = todo \ {m}
  /\ reading' = [reading EXCEPT ![m] = r]
  /\ \/ /\ r = None
        /\ UNCHANGED <<status, counts, reasons>>
     \/ /\ r # None /\ r.baseline = 0
        /\ status' = [status EXCEPT ![m] = "skip"]
        /\ counts' = Count(counts, "skip")
        /\ UNCHANGED reasons
     \/ /\ r # None /\ r.baseline > 0
        /\ LET s == EvaluateBudget(m, r) IN
             /\ status' = [status EXCEPT ![m] = s]
             /\ counts' = Count(counts, s)
             /\ reasons' = IF s = "pass" THEN reasons ELSE reasons \cup {<<m, s>>}
  /\ UNCHANGED stage

Failed == {m \in Metrics : status[m] = "fail"}

\* The failed metrics are collected once, before any of them is downgraded.
StartTradeoffs ==
  /\ stage = "evaluate" /\ todo = {}
  /\ stage' = "tradeoff"
  /\ todo' = Failed
  /\ UNCHANGED <<reading, status, counts, reasons>>

-----------------------------------------------------------------------------
(* apply_tradeoffs. *)

\* improvement_ratio(metric, delta) >= min, by the metric's default direction.
\* The ratio of a skipped delta is 1; a current value of 0 is infinitely better.
ImprovedBy(m, min) ==
  LET r == reading[m] IN
    IF DefaultDirection[m] = "higher"
      THEN IF r.baseline = 0 THEN 100 >= min ELSE 100 * r.current >= min * r.baseline
      ELSE r.current = 0 \/ 100 * r.baseline >= min * r.current

\* Mutant of Satisfied: one satisfied requirement is enough.
Satisfied_Any(rule) ==
  /\ rule.require # {} /\ ~rule.allow
  /\ \E q \in rule.require : /\ ~q.probe /\ status[q.metric] # None
                             /\ ImprovedBy(q.metric, q.min)

Satisfied(rule) ==
  /\ rule.require # {} /\ ~rule.allow
  /\ \A q \in rule.require : /\ ~q.probe /\ status[q.metric] # None
                             /\ ImprovedBy(q.metric, q.min)

\* The rule could not be evaluated here.
Unavailable(rule) ==
  rule.allow \/ \E q \in rule.require : q.probe \/ status[q.metric] = None

RulesFor(m) == {i \in DOMAIN Tradeoffs : Tradeoffs[i].if_failed = m}
SatisfiedFor(m) == {i \in RulesFor(m) : Satisfied(Tradeoffs[i])}

\* Mutant of Downgrade: the reason stays.
Downgrade_KeepsReason(m, to) ==
  /\ status' = [status EXCEPT ![m] = to]
  /\ counts' = Count([counts EXCEPT !["fail"] = @ - 1], to)
  /\ reasons' = reasons \cup {Tradeoff("applied")}

Downgrade(m, to) ==
  /\ status' = [status EXCEPT ![m] = to]
  /\ counts' = Count([counts EXCEPT !["fail"] = @ - 1], to)
  /\ reasons' = (reasons \ {<<m, "fail">>}) \cup {Tradeoff("applied")}
                \cup (IF to = "warn" THEN {<<m, "warn">>} ELSE {})

\* One turn of the second loop: the first satisfied rule is applied; a metric
\* with rules and none satisfied gets the reasons why.
TradeMetric(m) ==
  /\ stage = "tradeoff" /\ m \in todo
  /\ todo' = todo \ {m}
  /\ \/ \E i \in SatisfiedFor(m) :
          /\ \A j \in SatisfiedFor(m) : i <= j
          /\ Downgrade(m, Tradeoffs[i].downgrade_to)
     \/ /\ SatisfiedFor(m) = {}
        /\ reasons' = reasons
             \cup (IF RulesFor(m) # {} THEN {Tradeoff("not_satisfied")} ELSE {})
             \cup (IF \E i \in RulesFor(m) : Unavailable(Tradeoffs[i])
                     THEN {Tradeoff("missing_metric")} ELSE {})
        /\ UNCHANGED <<status, counts>>
  /\ UNCHANGED <<stage, reading>>

Finish ==
  /\ stage = "tradeoff" /\ todo = {}
  /\ stage' = "done"
  /\ UNCHANGED <<todo, reading, status, counts, reasons>>

-----------------------------------------------------------------------------

CompareInit ==
  /\ stage = "evaluate"
  /\ todo = Metrics
  /\ reading = [m \in Metrics |-> None]
  /\ status = [m \in Metrics |-> None]
  /\ counts = NoCounts
  /\ reasons = {}

CompareNext ==
  \/ \E m \in Metrics, r \in Reading \cup {None} : EvaluateMetric(m, r)
  \/ StartTradeoffs
  \/ \E m \in Metrics : TradeMetric(m)
  \/ Finish

CompareSpec == CompareInit /\ [][CompareNext]_compareVars

-----------------------------------------------------------------------------
(* Properties. *)

\* The counts, kept by increments and corrected by the tradeoffs, always say
\* how many deltas have each status (compare_runs_with_tradeoffs, apply_tradeoffs).
CountsMatchDeltas ==
  \A s \in MetricStatus : counts[s] = Cardinality({m \in Metrics : status[m] = s})

\* The reasons, pushed and retracted along the way, name exactly the metrics
\* that warn or fail in the end.
ReasonsMatchDeltas ==
  \A m \in Metrics, s \in {"warn", "fail"} : <<m, s>> \in reasons <=> status[m] = s

\* A receipt agrees with itself at every moment: its counts and its reasons are
\* those of its deltas, although the first loop builds them and the second one
\* corrects them in place (compare_runs_with_tradeoffs, apply_tradeoffs).
ReceiptMatchesDeltas == CountsMatchDeltas /\ ReasonsMatchDeltas

\* r is over its budget and neither noise nor the t-test takes the edge off it.
OverBudget(m, r) ==
  /\ r # None /\ r.baseline > 0
  /\ IF Budgets[m].direction = "lower"
       THEN 100 * r.current > (100 + Budgets[m].threshold) * r.baseline
       ELSE 100 * r.current < (100 - Budgets[m].threshold) * r.baseline
  /\ r.noisy => Budgets[m].noise_policy = "ignore"
  /\ RequireSignificance => r.significant

\* The verdict is a failure exactly when some metric is over its budget and no
\* rule for it has all its requirements met, in whatever order the metrics and
\* the rules were gone through (docs/CONFIG.md: "every required compensating
\* improvement must be present and satisfied").
FailureIsJustified ==
  stage = "done" =>
    (VerdictStatus(counts) = "fail" <=>
       \E m \in Metrics :
         /\ OverBudget(m, reading[m])
         /\ \A i \in RulesFor(m) :
              \/ Tradeoffs[i].require = {} \/ Tradeoffs[i].allow
              \/ \E q \in Tradeoffs[i].require :
                   q.probe \/ reading[q.metric] = None \/ ~ImprovedBy(q.metric, q.min))

=============================================================================
