\* Two benchmarks and two invocations, so that whatever the first leaves behind
\* is there for the second.
SPECIFICATION Spec
CONSTANTS
 Benches = {b1, b2}
 Deltas <- MCDeltas
 Gates = {None, "warn"}
 MaxInvocations = 2
 RequireBaseline = FALSE
 None = None
 Error = Error
 Absent = Absent
 Torn = Torn
INVARIANTS ArtifactsAreCurrent CockpitReports ReceiptsAgree RunIsNewest ExitCodeIsWorst
SYMMETRY Interchangeable
CHECK_DEADLOCK FALSE
