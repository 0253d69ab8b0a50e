------------------------------ MODULE Evidence ------------------------------
(***************************************************************************)
(* The structured decision, step by step as pure functions: probe receipts *)
(* compared (app/probe.rs), compare receipts weighted into a scenario      *)
(* (app/scenario.rs), and tradeoff rules applied to it (app/tradeoff.rs).  *)
(*                                                                         *)
(* A receipt's map from metrics to deltas is a function on the metrics     *)
(* present.  A delta is [baseline, current, cv]; only quotients of values  *)
(* matter, so a weighted mean is left as the weighted sum and a median is  *)
(* doubled.  Thresholds, ratios and cvs are percentages, cv is -1 if there *)
(* is none.                                                                *)
(***************************************************************************)
EXTENDS Verdict, Sequences, SequencesExt, FiniteSetsExt

CONSTANTS HigherIsBetter   \* metrics whose default direction is Higher

(* calculate_regression, times the baseline.                               *)
Worse(m, d) ==
    LET loss == IF m \in HigherIsBetter THEN d.baseline - d.current
                ELSE d.current - d.baseline
    IN IF loss > 0 THEN loss ELSE 0

Keys(maps) == UNION {DOMAIN f : f \in maps}
-----------------------------------------------------------------------------
(* app/probe.rs.  A probe receipt is a sequence of observations            *)
(* [name, metrics].                                                        *)

(* The values of a probe's metric, by the place of their observation.      *)
Observed(receipt, name, m) ==
    [i \in {i \in DOMAIN receipt : receipt[i].name = name /\ m \in DOMAIN receipt[i].metrics} |->
       receipt[i].metrics[m]]

(* The value at place k when they are sorted.                              *)
Ranked(values, k) ==
    CHOOSE x \in Range(values) :
       /\ Cardinality({i \in DOMAIN values : values[i] < x}) < k
       /\ Cardinality({i \in DOMAIN values : values[i] <= x}) >= k

(* median, doubled.                                                        *)
Median2(values) ==
    LET n == Cardinality(DOMAIN values) IN
    IF n % 2 = 1 THEN 2 * Ranked(values, (n + 1) \div 2)
    ELSE Ranked(values, n \div 2) + Ranked(values, n \div 2 + 1)

(* summarize_probes.                                                       *)
Summary(receipt) ==
    [name \in {o.name : o \in Range(receipt)} |->
       [m \in UNION {DOMAIN o.metrics : o \in {o \in Range(receipt) : o.name = name}} |->
          Median2(Observed(receipt, name, m))]]

(* compare_probe: a delta for each metric both sides have.  Whatever is    *)
(* missing or worse makes the probe a warning, never a failure.            *)
CompareProbe(name, base, cur) ==
    LET both == name \in DOMAIN base /\ name \in DOMAIN cur
        common == IF both THEN DOMAIN base[name] \cap DOMAIN cur[name] ELSE {}
        deltas == [m \in common |->
                     [baseline |-> base[name][m], current |-> cur[name][m], cv |-> -1]]
        complete == both /\ DOMAIN base[name] = DOMAIN cur[name]
    IN [deltas |-> deltas,
        status |-> IF complete /\ \A m \in common : Worse(m, deltas[m]) = 0
                   THEN "pass" ELSE "warn"]

(* ProbeCompareUseCase::compare, of two receipts that have probes.         *)
CompareProbes(baseline, current) ==
    LET base == Summary(baseline) cur == Summary(current) IN
    [name \in DOMAIN base \cup DOMAIN cur |-> CompareProbe(name, base, cur)]

(* index_probe_compares: the last receipt that has a probe wins.  The      *)
(* receipts are numbered in the order of their scenarios.                  *)
ProbeIndex(receipts) ==
    [name \in UNION {DOMAIN receipts[s] : s \in DOMAIN receipts} |->
       receipts[Max({s \in DOMAIN receipts : name \in DOMAIN receipts[s]})][name].deltas]
-----------------------------------------------------------------------------
(* app/scenario.rs.  An input is [weight, deltas].                         *)

SumSeq(terms) ==
    LET sum[i \in 0..Len(terms)] == IF i = 0 THEN 0 ELSE sum[i - 1] + terms[i]
    IN sum[Len(terms)]

WeightedBaseline(inputs, m) ==
    SumSeq([i \in DOMAIN inputs |->
              IF m \in DOMAIN inputs[i].deltas
              THEN inputs[i].weight * inputs[i].deltas[m].baseline ELSE 0])

WeightedCurrent(inputs, m) ==
    SumSeq([i \in DOMAIN inputs |->
              IF m \in DOMAIN inputs[i].deltas
              THEN inputs[i].weight * inputs[i].deltas[m].current ELSE 0])

(* determine_status with the configured defaults.                          *)
StatusOf(m, b, c, defaults) ==
    LET regression == 100 * Worse(m, [baseline |-> b, current |-> c]) IN
    IF regression > defaults.threshold * b THEN "fail"
    ELSE IF regression >= defaults.warn * b THEN "warn"
    ELSE "pass"

(* build_weighted_deltas: over the components that have the metric, which  *)
(* is all the weight that counts.  The result has no cv.                   *)
WeightedDeltas(inputs, defaults) ==
    [m \in Keys({i.deltas : i \in Range(inputs)}) |->
       LET b == WeightedBaseline(inputs, m) c == WeightedCurrent(inputs, m) IN
       [baseline |-> b, current |-> c, cv |-> -1,
        status |-> StatusOf(m, b, c, defaults)]]

(* A metric whose weighted baseline is not positive is an error.           *)
Evaluable(inputs) ==
    \A m \in Keys({i.deltas : i \in Range(inputs)}) : WeightedBaseline(inputs, m) > 0

(* aggregate_verdict.                                                      *)
VerdictOf(deltas) ==
    VerdictStatus([s \in MetricStatus |-> Cardinality({m \in DOMAIN deltas : deltas[m].status = s})])
-----------------------------------------------------------------------------
(* app/tradeoff.rs.  A rule is [if_failed, require, allow, downgrade_to];  *)
(* a requirement [metric, probe, min], an allowance [metric, probe, max].  *)
(* A requirement on the scenario itself has the probe "".                  *)

(* The delta a requirement or an allowance is about, if there is one: a    *)
(* set of at most one.                                                     *)
Found(e, weighted, index) ==
    IF e.probe = ""
    THEN {weighted[m] : m \in {e.metric} \cap DOMAIN weighted}
    ELSE {index[p][e.metric] :
            p \in {p \in {e.probe} \cap DOMAIN index : e.metric \in DOMAIN index[p]}}

(* improvement_ratio >= min.  A lower-is-better metric that is now 0 has   *)
(* improved without bound, whatever it was; a higher-is-better one that    *)
(* was 0 has ratio 0.                                                      *)
Improved(m, d, min) ==
    IF m \in HigherIsBetter
    THEN (d.baseline > 0 /\ 100 * d.current >= min * d.baseline) \/ min = 0
           \/ (d.baseline = 0 /\ d.current = 0 /\ min <= 100)
    ELSE 100 * d.baseline >= min * d.current

Satisfied(r, weighted, index) ==
    \E d \in Found(r, weighted, index) : Improved(r.metric, d, r.min)

(* regression <= max_regression; from nothing to something is 100 % worse  *)
(* where lower is better.                                                  *)
WithinCap(a, weighted, index) ==
    \E d \in Found(a, weighted, index) :
       IF d.baseline = 0 THEN Worse(a.metric, d) = 0 \/ a.max >= 100
       ELSE 100 * Worse(a.metric, d) <= a.max * d.baseline

Missing(e, weighted, index) == Found(e, weighted, index) = {}

(* evidence_incomplete_but_satisfied.                                      *)
IncompleteButSatisfied(rule, weighted, index) ==
    LET absentR(r) == r.probe # "" /\ Missing(r, weighted, index)
        absentA(a) == Missing(a, weighted, index)
    IN /\ (\E r \in rule.require : absentR(r)) \/ (\E a \in rule.allow : absentA(a))
       /\ \A r \in rule.require : Satisfied(r, weighted, index) \/ absentR(r)
       /\ \A a \in rule.allow : WithinCap(a, weighted, index) \/ absentA(a)

(* noise_review_reason, over all evidence the rule uses.                   *)
TooNoisyToAccept(rule, weighted, index, policy) ==
    LET used == rule.require \cup rule.allow
        cvs(e) == {d.cv : d \in Found(e, weighted, index)}
    IN /\ policy.low_noise
       /\ \/ \E e \in used : \E cv \in cvs(e) : cv > policy.max_cv
          \/ /\ policy.missing = "needs_review"
             /\ \E e \in used : cvs(e) \subseteq {-1}

(* A rule is accepted whose caps nobody looked at.                         *)
EvaluateRule_NoCaps(rule, weighted, index, policy) ==
    IF rule.if_failed \notin DOMAIN weighted \/ weighted[rule.if_failed].status # "fail"
    THEN "not_evaluated"
    ELSE IF rule.require # {} /\ \A r \in rule.require : Satisfied(r, weighted, index)
         THEN "accepted" ELSE "rejected"

(* evaluate_rule.                                                          *)
EvaluateRule(rule, weighted, index, policy) ==
    LET evidence == /\ rule.require # {}
                    /\ \A r \in rule.require : Satisfied(r, weighted, index)
                    /\ \A a \in rule.allow : WithinCap(a, weighted, index)
        noisy == evidence /\ TooNoisyToAccept(rule, weighted, index, policy)
    IN IF rule.if_failed \notin DOMAIN weighted \/ weighted[rule.if_failed].status # "fail"
       THEN "not_evaluated"
       ELSE IF evidence /\ ~noisy THEN "accepted"
       ELSE IF noisy \/ IncompleteButSatisfied(rule, weighted, index) THEN "needs_review"
       ELSE "rejected"

WithStatus(deltas, ms, s) ==
    [m \in DOMAIN deltas |-> IF m \in ms THEN [deltas[m] EXCEPT !.status = s] ELSE deltas[m]]

(* One turn of the loop of TradeoffUseCase::evaluate: an accepted rule     *)
(* changes the status the next rules see.                                  *)
ApplyRule(so_far, rule, index, policy) ==
    LET outcome == EvaluateRule(rule, so_far.deltas, index, policy)
        when(o) == IF outcome = o THEN {rule.if_failed} ELSE {}
    IN [deltas |-> WithStatus(so_far.deltas, when("accepted"), rule.downgrade_to),
        accepted |-> so_far.accepted \cup when("accepted"),
        review |-> so_far.review \cup when("needs_review")]

ApplyRules(rules, weighted, index, policy) ==
    LET after[i \in 0..Len(rules)] ==
          IF i = 0 THEN [deltas |-> weighted, accepted |-> {}, review |-> {}]
          ELSE ApplyRule(after[i - 1], rules[i], index, policy)
    IN after[Len(rules)]

(* A rule that asks for a review does so even when another one accepted.   *)
Decide_ReviewWins(rules, weighted, index, policy) ==
    LET applied == ApplyRules(rules, weighted, index, policy)
        deltas == WithStatus(applied.deltas, applied.review, "warn")
    IN [deltas |-> deltas, verdict |-> VerdictOf(deltas),
        accepted |-> applied.accepted # {}, review_required |-> applied.review # {}]

(* The receipt: review candidates whose metric no rule accepted become     *)
(* warnings.                                                               *)
Decide(rules, weighted, index, policy) ==
    LET applied == ApplyRules(rules, weighted, index, policy)
        review == applied.review \ applied.accepted
        deltas == WithStatus(applied.deltas, review, "warn")
    IN [deltas |-> deltas, verdict |-> VerdictOf(deltas),
        accepted |-> applied.accepted # {}, review_required |-> review # {}]
=============================================================================
