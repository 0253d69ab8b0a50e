------------------------------ MODULE Aggregate ------------------------------
(***************************************************************************)
(* `perfgate aggregate`: run receipts of one benchmark from several        *)
(* runners become one verdict under a policy.                              *)
(*                                                                         *)
(* A receipt is [id, bench, label, bad, cold, walls]: bad and cold tell    *)
(* whether a measured sample or a warm-up failed or timed out, walls are   *)
(* its measured wall times, at most two here, so that a variance is half a *)
(* square.  Variances and their floor are doubled, quorums are percentages *)
(* and weights compared after multiplication with all variances.           *)
(***************************************************************************)
EXTENDS Integers, Sequences, FiniteSets, FiniteSetsExt, SequencesExt

CONSTANTS
  Requests,   \* [policy, mode, quorum, n, m, floor, weights] of the command line
  Fleets,     \* sequences of receipts
  Unset       \* an option that is not given

VARIABLES request, receipts, outcome

aggregateVars == <<request, receipts, outcome>>

Policies == {"all", "majority", "weighted", "quorum", "fail_if_n_of_m"}

RunReceipt == [id : Nat, bench : STRING, label : STRING, bad : BOOLEAN, cold : BOOLEAN,
               walls : Seq(Nat)]

ASSUME UnsetAssumption == Unset \notin Int
ASSUME RequestsAssumption ==
  \A q \in Requests :
    /\ q.policy \in Policies /\ {q.quorum, q.n, q.m, q.floor} \subseteq (Int \cup {Unset})
    /\ \A label \in DOMAIN q.weights : q.weights[label] \in Nat
ASSUME FleetsAssumption == Fleets \subseteq Seq(RunReceipt)

\* validate_aggregate_options.
Valid(q) ==
  /\ q.quorum # Unset => q.quorum \in 0..100 /\ q.policy \in {"weighted", "quorum"}
  /\ q.mode = "inverse_variance" => q.policy = "weighted"
  /\ q.floor # Unset => q.floor > 0 /\ q.mode = "inverse_variance"
  /\ IF q.policy = "fail_if_n_of_m"
     THEN q.n # Unset /\ q.n >= 1 /\ (q.m # Unset => q.m >= 1 /\ q.m >= q.n)
     ELSE q.n = Unset /\ q.m = Unset

\* The receipts must be of different runs of one benchmark, and something must
\* have been measured (compute_stats).
Loadable(rs) ==
  /\ rs # <<>>
  /\ \A i, j \in DOMAIN rs : rs[i].id = rs[j].id => i = j
  /\ \A i \in DOMAIN rs : rs[i].bench = rs[1].bench
  /\ \E i \in DOMAIN rs : rs[i].walls # <<>>
-----------------------------------------------------------------------------
OrElse(option, default) == IF option = Unset THEN default ELSE option

\* wall_ms_variance, doubled; fewer than two samples have none.
Variance2(r) ==
  IF Len(r.walls) < 2 THEN Unset ELSE (r.walls[1] - r.walls[2]) * (r.walls[1] - r.walls[2])

\* DEFAULT_VARIANCE_FLOOR is 1.
Floor2(q) == 2 * OrElse(q.floor, 1)

Spread(q, r) ==
  LET v == OrElse(Variance2(r), Floor2(q)) IN IF v > Floor2(q) THEN v ELSE Floor2(q)

\* parse_weight_map: labels without a weight count 1.
ConfiguredWeight(q, r) == IF r.label \in DOMAIN q.weights THEN q.weights[r.label] ELSE 1

Total(terms) ==
  LET sum[i \in 0..Len(terms)] == IF i = 0 THEN 0 ELSE sum[i - 1] + terms[i]
  IN sum[Len(terms)]

Product(terms) ==
  LET prod[i \in 0..Len(terms)] == IF i = 0 THEN 1 ELSE prod[i - 1] * terms[i]
  IN prod[Len(terms)]

\* effective_weight, times the product of all spreads.
EffectiveWeight(q, rs, i) ==
  LET others == [j \in DOMAIN rs |-> IF j = i THEN 1 ELSE Spread(q, rs[j])]
  IN IF q.policy # "weighted" THEN 1
     ELSE ConfiguredWeight(q, rs[i]) * (IF q.mode = "inverse_variance" THEN Product(others) ELSE 1)

\* build_runner_weight_profiles: four times the median of the variances.
Median4(vs) ==
  LET s == SortSeq(vs, <) n == Len(vs) IN
  IF n % 2 = 1 THEN 4 * s[(n + 1) \div 2] ELSE 2 * (s[n \div 2] + s[n \div 2 + 1])

Outliers(q, rs) ==
  LET vs == SelectSeq([i \in DOMAIN rs |-> Variance2(rs[i])], LAMBDA v : v # Unset)
      limit == IF Median4(vs) > 4 * Floor2(q) THEN Median4(vs) ELSE 4 * Floor2(q)
  IN IF q.mode # "inverse_variance" \/ vs = <<>> THEN {}
     ELSE {i \in DOMAIN rs : Variance2(rs[i]) # Unset /\ Variance2(rs[i]) > limit}

\* Mutant of Passed: warm-ups count.
Passed_Warmups(rs) == {i \in DOMAIN rs : ~rs[i].bad /\ ~rs[i].cold}

\* input_status: only measured samples count.
Passed(rs) == {i \in DOMAIN rs : ~rs[i].bad}

WeightOf(q, rs, S) ==
  Total([i \in DOMAIN rs |-> IF i \in S THEN EffectiveWeight(q, rs, i) ELSE 0])

\* evaluate_policy.
Accepts(q, rs) ==
  LET passed == Cardinality(Passed(rs))
      failed == Len(rs) - passed
      total == WeightOf(q, rs, DOMAIN rs)
      required == OrElse(q.quorum, 50)
  IN CASE q.policy = "all" -> failed = 0
       [] q.policy = "majority" -> passed > failed
       [] q.policy = "weighted" ->
            IF total = 0 THEN required = 0 ELSE 100 * WeightOf(q, rs, Passed(rs)) >= required * total
       [] q.policy = "quorum" -> 100 * passed >= required * Len(rs)
       [] q.policy = "fail_if_n_of_m" -> Len(rs) >= OrElse(q.m, Len(rs)) /\ failed < q.n
-----------------------------------------------------------------------------
AggregateInit ==
  /\ request \in Requests
  /\ receipts \in Fleets
  /\ outcome = Unset

\* The command: options, receipts, verdict, exit code.
RunAggregate ==
  /\ outcome = Unset
  /\ outcome' =
       IF ~Valid(request) \/ ~Loadable(receipts) THEN [exit |-> 1]
       ELSE [exit |-> IF Accepts(request, receipts) THEN 0 ELSE 2,
             outliers |-> Outliers(request, receipts)]
  /\ UNCHANGED <<request, receipts>>

AggregateSpec == AggregateInit /\ [][RunAggregate]_aggregateVars
-----------------------------------------------------------------------------
Repaired(rs, S) == [i \in DOMAIN rs |-> IF i \in S THEN [rs[i] EXCEPT !.bad = FALSE] ELSE rs[i]]

\* No policy punishes a runner for passing: whichever failed runs had passed
\* instead, a fleet that was accepted would still be.  And whatever the policy
\* says of a unanimous fleet, it says for a reason: one that passed everywhere
\* is refused only for want of receipts or of any weight, one that failed
\* everywhere is accepted only if nothing, or fewer receipts, was asked for.
PolicyIsMonotone ==
  (outcome # Unset /\ outcome.exit # 1) =>
    LET all == DOMAIN receipts
        failed == {i \in all : receipts[i].bad}
    IN /\ outcome.exit = 0 => \A S \in SUBSET failed : Accepts(request, Repaired(receipts, S))
       /\ failed = {} /\ outcome.exit = 2 =>
            \/ request.policy = "fail_if_n_of_m" /\ Len(receipts) < request.m
            \/ request.policy = "weighted" /\ WeightOf(request, receipts, all) = 0
       /\ failed = all /\ outcome.exit = 0 =>
            request.quorum = 0 \/ (request.policy = "fail_if_n_of_m" /\ request.n > Len(receipts))
=============================================================================
