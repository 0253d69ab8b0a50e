---------------------------- MODULE BaselineStore ----------------------------
(***************************************************************************)
(* What the baseline service promises about the versions of one benchmark, *)
(* without saying how: a version is published at most once, keeps the      *)
(* receipt it was published with, may be withdrawn, and once withdrawn     *)
(* never returns.  A volatile (in-memory) store may lose everything at     *)
(* once, never a single version.                                           *)
(***************************************************************************)
CONSTANTS Versions, Receipts, Durable

VARIABLE ledger    \* one entry per version

Absent == [state |-> "absent"]
Live(rc) == [state |-> "live", receipt |-> rc]
Gone(rc) == [state |-> "gone", receipt |-> rc]

Init == ledger = [v \in Versions |-> Absent]

\* The version name was never used: it now holds rc for good.
Publish(v, rc) ==
  /\ ledger[v] = Absent
  /\ ledger' = [ledger EXCEPT ![v] = Live(rc)]

\* The version is hidden, its receipt and its name stay taken.
Withdraw(v) ==
  \E rc \in Receipts :
    /\ ledger[v] = Live(rc)
    /\ ledger' = [ledger EXCEPT ![v] = Gone(rc)]

\* The process of a volatile store ends.
LoseAll ==
  /\ ~Durable
  /\ ledger' = [v \in Versions |-> Absent]

Next ==
  \/ \E v \in Versions, rc \in Receipts : Publish(v, rc)
  \/ \E v \in Versions : Withdraw(v)
  \/ LoseAll

Spec == Init /\ [][Next]_ledger
=============================================================================
