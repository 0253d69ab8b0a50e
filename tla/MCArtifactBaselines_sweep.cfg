\* Three store calls, two versions, and the cleanup task; no symmetry, for the
\* liveness property.
SPECIFICATION ThreeCalls
CONSTANTS
 t1 = t1
 t2 = t2
 t3 = t3
 v1 = v1
 v2 = v2
 a = a
 b = b
 Tasks = {t1, t2, t3}
 Versions = {v1, v2}
 Receipts = {a, b}
 Sweepers = {s1}
 Retention = {1}
 MaxClock = 2
 None = None
INVARIANTS RowHasArtifact MismatchNeedsLoser ServedWasUploaded
PROPERTIES RowsImplementStore EveryCallReturns
CHECK_DEADLOCK FALSE
