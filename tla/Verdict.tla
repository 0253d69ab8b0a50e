------------------------------- MODULE Verdict -------------------------------
(***************************************************************************)
(* Metric statuses, how many metrics have each (VerdictCounts), and the    *)
(* verdict they add up to (perfgate::domain::budget).                      *)
(***************************************************************************)
EXTENDS Integers

CONSTANT None   \* Option::None

MetricStatus == {"pass", "warn", "fail", "skip"}
VerdictCounts == [MetricStatus -> Nat]

NoCounts == [s \in MetricStatus |-> 0]

Count(counts, s) == [counts EXCEPT ![s] = @ + 1]

\* aggregate_verdict_from_counts: the worst status present; no metric at all,
\* or none but skipped ones, is a skip.
VerdictStatus(counts) ==
  IF counts["fail"] > 0 THEN "fail"
  ELSE IF counts["warn"] > 0 THEN "warn"
  ELSE IF counts["pass"] > 0 THEN "pass"
  ELSE "skip"
=============================================================================
