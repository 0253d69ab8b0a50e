\* Three callers over the SQLite key store: enough to create a key, revoke or
\* rotate it, and use it.
SPECIFICATION Spec
CONSTANTS
 Requests = {1, 2, 3}
 Grants <- MCGrants
 Tokens <- MCTokens
 TokenGrant <- MCTokenGrant
 Targets <- MCTargets
 Cli = Cli
 Kids = {1, 2}
 Leeway = 1
 Durable = TRUE
 MaxClock = 1
 MaxFaults = 1
 None = None
INVARIANTS NoEntryAfterRevocation AuthorityFromAdmin RotationKeepsAccess AuditTellsKeys
CHECK_DEADLOCK FALSE
