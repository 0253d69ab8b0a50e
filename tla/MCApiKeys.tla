------------------------------ MODULE MCApiKeys ------------------------------
EXTENDS ApiKeys

MCGrants ==
  {[role |-> "admin", project |-> "q", pattern |-> "any", expires_at |-> 1],
   [role |-> "contributor", project |-> "p", pattern |-> "one", expires_at |-> 0]}

MCTokenGrant == [role |-> "promoter", project |-> "p", pattern |-> "any", expires_at |-> 0]

MCTokens == {[kid |-> 1, exp |-> -1, mapped |-> TRUE], [kid |-> 2, exp |-> 0, mapped |-> TRUE]}

MCTargets ==
  {[project |-> "p", benchmark |-> "one", scope |-> "write"],
   [project |-> "p", benchmark |-> "two", scope |-> "promote"],
   [project |-> "q", benchmark |-> None, scope |-> "write"]}
=============================================================================
