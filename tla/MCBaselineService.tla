-------------------------- MODULE MCBaselineService --------------------------
EXTENDS BaselineService, TLC

Symmetry == Permutations(Requests) \cup Permutations(Receipts)
=============================================================================
