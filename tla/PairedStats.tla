---------------------------- MODULE PairedStats ----------------------------
(***************************************************************************)
(* The statistics of paired samples (domain/paired.rs) as integer          *)
(* inequalities over the sequence d of wall-time differences of the        *)
(* measured pairs.  With n = Len(d), S the sum of d and Q the sum of its    *)
(* squares, the mean is S/n and the variance (nQ - S^2)/n^2; comparing a   *)
(* mean with a multiple of a standard deviation is comparing squares, so   *)
(* no root and no fraction is left.  Sequences are shorter than 30, where  *)
(* the code uses t = 2 (from 30 on it uses 1.96).                          *)
(***************************************************************************)
EXTENDS Integers, Sequences, SequencesExt, FiniteSets

Total(d) == FoldSeq(+, 0, d)
Squares(d) == FoldSeq(LAMBDA x, acc : acc + x * x, 0, d)

(* compute_paired_stats' confidence interval: |mean| > 2 * std_error.  A   *)
(* single pair has std_error 0, so any difference is outside.              *)
ExcludesZero(d) ==
    LET n == Len(d) IN
    Total(d) * Total(d) * (n + 4) > 4 * Squares(d) * n

(* summarize_paired_diffs: too few samples are never significant.          *)
Significant(d, min_samples) == Len(d) >= min_samples /\ ExcludesZero(d)

(* compute_paired_cv(samples) > pct / 100, with CV = 0 when the mean is 0. *)
NoisierThan(d, pct) ==
    LET S == Total(d) IN
    /\ S # 0
    /\ 10000 * (Len(d) * Squares(d) - S * S) > pct * pct * S * S

(* median_u64_sorted, rounded down between two middle values.              *)
Median(s) ==
    LET t == SortSeq(s, <) n == Len(s) IN
    IF n % 2 = 1 THEN t[(n + 1) \div 2] ELSE (t[n \div 2] + t[n \div 2 + 1]) \div 2

(* compare_paired_stats: the mean difference over the median of the        *)
(* baseline exceeds pct / 100, and the interval excludes zero (whatever    *)
(* the number of pairs).                                                   *)
RegressedBy(d, baseline, pct) ==
    /\ Median(baseline) > 0
    /\ 100 * Total(d) > pct * Len(d) * Median(baseline)
    /\ ExcludesZero(d)

(* ceil((retries_done + 1) * 1.5): the pairs of the next retry.            *)
ExtraPairs(retries_done) == (3 * (retries_done + 1) + 1) \div 2
=============================================================================
