CONSTANTS
  Requests = {r1, r2, r3}
  Versions = {1, 2}
  Receipts = {a, b}
  MaxClock = 1
  Durable = TRUE
  None = None
SPECIFICATION Spec
SYMMETRY Symmetry
INVARIANTS AuditMatchesStore PromotionCopiesSource AcknowledgedIsStored
PROPERTIES LatestNeverRegresses ImplementsStore
