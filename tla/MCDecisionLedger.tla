-------------------------- MODULE MCDecisionLedger --------------------------
EXTENDS DecisionLedger

MCBackends == {"memory", "sqlite", "postgres"}

\* One rule's name is part of the other's.
MCAcceptedRules == <<{2}, {}, {1}>>

MCPrunes == {[older_than |-> 1, dry_run |-> FALSE], [older_than |-> 2, dry_run |-> FALSE],
             [older_than |-> 2, dry_run |-> TRUE]}
=============================================================================
