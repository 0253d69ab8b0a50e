\* In-memory store: no storage failures, a crash empties the store.  Two
\* requests suffice for every race for a name; no symmetry, for liveness.
CONSTANTS
  Requests = {r1, r2}
  Versions = {1, 2}
  Receipts = {a, b}
  MaxClock = 1
  Durable = FALSE
  None = None
SPECIFICATION FairSpec
INVARIANTS AuditComplete
PROPERTIES EveryRequestAnswered
