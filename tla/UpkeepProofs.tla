----------------------------- MODULE UpkeepProofs -----------------------------
(***************************************************************************)
(* Proofs about Promotion and Aggregate.                                   *)
(*                                                                         *)
(* Promotion: for every config file, every change a comparison may find    *)
(* and any number of comparisons and promotions.  Nothing is assumed of    *)
(* the percentages but that they are integers: max_tightening may exceed   *)
(* 100, and a threshold may be negative.                                   *)
(*                                                                         *)
(* Aggregate: for every fleet, every policy and all weights.               *)
(***************************************************************************)
EXTENDS Promotion, Aggregate, FiniteSetTheorems, WellFoundedInduction, TLAPS

-----------------------------------------------------------------------------
(* Promotion: the inductive invariant. *)

Running == [step : {"baseline", "ratchet", "receipt"}, run : Nat, ratchet : BOOLEAN,
            compare : CompareReceipt \cup {None}, plan : SUBSET Int]

TypeInv ==
  /\ config \in ConfigFile \cup {None}
  /\ compares \subseteq CompareReceipt /\ IsFiniteSet(compares)
  /\ baseline \in Nat /\ promotions \in Nat
  /\ cmd \in Running \cup {Idle}
  /\ wrote \subseteq Int

\* A comparison's status is the one of its own threshold.
StatusesAreOwn == \A c \in compares : c.status = StatusAt(c.threshold, c.change)

\* The comparison a promotion works from is on disk.
ComparesOnDisk == cmd \in Running => cmd.compare \in compares \cup {None}

\* The ratchet changes a threshold, never the policy.
PolicyIsProjects == config # None => \E d \in Configs : d.policy = config.policy

IndInv ==
  TypeInv /\ StatusesAreOwn /\ ComparesOnDisk /\ PolicyIsProjects /\ TightenedOncePerReceipt

-----------------------------------------------------------------------------
(* Lemmas. *)

LEMMA Commands ==
  /\ Idle.step = "idle" /\ Idle \notin Running
  /\ \A x \in Running : x.step \in {"baseline", "ratchet", "receipt"}
BY DEF Idle, Running

LEMMA LossIsInt ==
  ASSUME NEW e \in Delta
  PROVE  Loss(e) \in Int
BY DEF Loss, Delta

LEMMA StatusTyped ==
  ASSUME NEW t, NEW e
  PROVE  StatusAt(t, e) \in Statuses
BY DEF StatusAt, Statuses

LEMMA EffectiveIsInt ==
  ASSUME NEW c \in ConfigFile
  PROVE  Effective(c) \in Int
<1>1. c.default \in Int /\ c.own \in Threshold \cup {None}
  BY DEF ConfigFile
<1> QED BY <1>1 DEF Effective, Threshold

\* Nothing passes a negative threshold: a loss is at least zero.
LEMMA PassIsNonNegative ==
  ASSUME NEW t \in Int, NEW e \in Delta, StatusAt(t, e) = "pass"
  PROVE  t \in Nat
<1> DEFINE loss == IF Loss(e) > 0 THEN Loss(e) ELSE 0
<1>1. loss \in Int /\ loss >= 0
  BY LossIsInt
<1>2. ~(loss > t)
  BY DEF StatusAt
<1> HIDE DEF loss
<1> QED BY <1>1, <1>2

\* One tightening takes off at most the capped share of the threshold.
LEMMA CappedStep ==
  ASSUME NEW t \in Nat, NEW by \in Int, NEW max \in Int, by <= max
  PROVE  /\ t - (t * by) \div 100 \in Int
         /\ 100 * (t - (t * by) \div 100) >= t * (100 - max)
<1>1. t * by <= t * max
  <2>1. max - by \in Nat
    OBVIOUS
  <2>2. t * (max - by) >= 0
    BY <2>1
  <2>3. t * (max - by) = t * max - t * by
    OBVIOUS
  <2> QED BY <2>2, <2>3
<1>2. t * (100 - max) = 100 * t - t * max
  OBVIOUS
<1> DEFINE p == t * by
<1>3. p \in Int /\ t * max \in Int
  OBVIOUS
<1> HIDE DEF p
<1>4. (p \div 100) \in Int /\ 100 * (p \div 100) <= p
  BY <1>3
<1>5. 100 * (t - p \div 100) = 100 * t - 100 * (p \div 100)
  BY <1>4
<1>6. p <= t * max
  BY <1>1 DEF p
<1>7. 100 * t - 100 * (p \div 100) >= 100 * t - t * max
  BY <1>3, <1>4, <1>6
<1> QED BY <1>2, <1>4, <1>5, <1>7 DEF p

\* What apply_ratchet_toml_changes makes of a config: nothing, or the one
\* planned value, which is below the receipt's threshold and the file's own.
LEMMA AppliedEffect ==
  ASSUME NEW conf \in ConfigFile, NEW c \in CompareReceipt,
         c.status = StatusAt(c.threshold, c.change),
         NEW new, new = Applied(conf, c, Plan(c, conf.policy)), new # conf
  PROVE  /\ new \in ConfigFile /\ new.policy = conf.policy
         /\ c.verdict = "pass"
         /\ Effective(new) < c.threshold
         /\ 100 * Effective(new) >= c.threshold * (100 - conf.policy.max)
         /\ Readable(conf.own) => Effective(new) < conf.own.v
<1> DEFINE plan == Plan(c, conf.policy)
           current == IF Readable(conf.own) THEN conf.own.v ELSE c.threshold
           lower == {n \in plan : n < current}
           n == NewThreshold(c, conf.policy)
           own == [v |-> CHOOSE x \in lower : TRUE, form |-> "float"]
<1>1. conf.policy.max \in Int /\ c.threshold \in Int /\ c.change \in Delta
  BY DEF ConfigFile, RatchetConfig, CompareReceipt
<1>2. lower # {} /\ new = [conf EXCEPT !.own = own]
  BY DEF Applied
<1>3. lower = {n} /\ Eligible(c, conf.policy) /\ n < c.threshold /\ n < current
  BY <1>2 DEF Plan
<1>4. own = [v |-> n, form |-> "float"]
  <2>1. (CHOOSE x \in {n} : TRUE) = n
    OBVIOUS
  <2> QED BY <1>3, <2>1
<1>5. c.verdict = "pass" /\ c.threshold \in Nat
  BY <1>1, <1>3, PassIsNonNegative DEF Eligible
<1>6. n \in Int /\ 100 * n >= c.threshold * (100 - conf.policy.max)
  <2> DEFINE by == IF Improvement(c) < conf.policy.max THEN Improvement(c) ELSE conf.policy.max
  <2>1. Loss(c.change) \in Int
    BY <1>1, LossIsInt
  <2>2. Improvement(c) \in Int
    BY <2>1 DEF Improvement
  <2>3. by \in Int /\ by <= conf.policy.max
    BY <1>1, <2>2
  <2>4. n = c.threshold - (c.threshold * by) \div 100
    BY DEF NewThreshold
  <2> HIDE DEF by, n
  <2> QED BY <1>1, <1>5, <2>3, <2>4, CappedStep
<1> HIDE DEF n, lower, plan
<1>7. [v |-> n, form |-> "float"] \in Threshold
  BY <1>6 DEF Threshold
<1> HIDE DEF own
<1>8. new.own = own /\ new.policy = conf.policy /\ new \in ConfigFile
  BY <1>2, <1>4, <1>7 DEF ConfigFile
<1>9. Effective(new) = n
  <2>1. new.own # None
    BY <1>4, <1>7, <1>8, NoneAssumption
  <2>2. own.v = n
    BY <1>4
  <2> QED BY <1>8, <2>1, <2>2 DEF Effective
<1> QED BY <1>3, <1>5, <1>6, <1>8, <1>9

-----------------------------------------------------------------------------
(* Every step preserves the invariant. *)

LEMMA InitInd == Init => IndInv
<1> SUFFICES ASSUME Init PROVE IndInv
  OBVIOUS
<1>1. config \in ConfigFile
  BY InputsAssumption DEF Init
<1>2. wrote \subseteq Int
  BY <1>1, EffectiveIsInt DEF Init
<1>3. TypeInv
  BY <1>1, <1>2, FS_EmptySet DEF Init, TypeInv
<1>4. StatusesAreOwn /\ ComparesOnDisk /\ PolicyIsProjects /\ TightenedOncePerReceipt
  BY Commands DEF Init, StatusesAreOwn, ComparesOnDisk, PolicyIsProjects, TightenedOncePerReceipt
<1> QED BY <1>3, <1>4 DEF IndInv

\* The project's own threshold is one it wrote.
LEMMA EditInd ==
  ASSUME IndInv, Edit
  PROVE  IndInv'
<1>1. config' \in ConfigFile
  BY InputsAssumption DEF Edit
<1>2. TypeInv'
  BY <1>1, EffectiveIsInt DEF Edit, IndInv, TypeInv
<1>3. StatusesAreOwn' /\ ComparesOnDisk'
  BY DEF Edit, IndInv, StatusesAreOwn, ComparesOnDisk
<1>4. PolicyIsProjects' /\ TightenedOncePerReceipt'
  BY DEF Edit, PolicyIsProjects, TightenedOncePerReceipt
<1> QED BY <1>2, <1>3, <1>4 DEF IndInv

\* A new comparison: with the flag's threshold or the config's.
LEMMA CompareInd ==
  ASSUME IndInv, Compare
  PROVE  IndInv'
<1>1. PICK e \in Changes, t \in Flags \cup (IF config = None THEN {} ELSE {Effective(config)}) :
        compares' = compares \cup
          {[threshold |-> t, change |-> e, status |-> StatusAt(t, e),
            run |-> Cardinality(compares) + 1,
            verdict |-> IF e.others = "pass" THEN StatusAt(t, e) ELSE e.others]}
  BY DEF Compare
<1> DEFINE new == [threshold |-> t, change |-> e, status |-> StatusAt(t, e),
                   run |-> Cardinality(compares) + 1,
                   verdict |-> IF e.others = "pass" THEN StatusAt(t, e) ELSE e.others]
<1>2. e \in Delta /\ t \in Int
  BY InputsAssumption, EffectiveIsInt DEF IndInv, TypeInv
<1>3. Cardinality(compares) + 1 \in Nat
  BY FS_CardinalityType DEF IndInv, TypeInv
<1>4. new \in CompareReceipt /\ new.status = StatusAt(new.threshold, new.change)
  BY <1>2, <1>3, StatusTyped DEF CompareReceipt, Delta
<1> HIDE DEF new
<1>5. compares' = compares \cup {new}
  BY <1>1 DEF new
<1>6. IsFiniteSet(compares')
  BY <1>5, FS_AddElement DEF IndInv, TypeInv
<1>7. TypeInv'
  BY <1>4, <1>5, <1>6 DEF Compare, IndInv, TypeInv
<1>8. StatusesAreOwn' /\ ComparesOnDisk'
  BY <1>4, <1>5 DEF Compare, IndInv, StatusesAreOwn, ComparesOnDisk
<1>9. PolicyIsProjects' /\ TightenedOncePerReceipt'
  BY <1>5 DEF Compare, IndInv, PolicyIsProjects, TightenedOncePerReceipt
<1> QED BY <1>7, <1>8, <1>9 DEF IndInv

\* The steps of a promotion that leave the config alone.
LEMMA CommandInd ==
  ASSUME IndInv, Promote \/ WriteBaseline \/ RatchetRefused \/ WriteRatchetReceipt \/ Fails
  PROVE  IndInv'
<1>1. UNCHANGED <<config, compares, wrote>>
  BY DEF Promote, WriteBaseline, RatchetRefused, WriteRatchetReceipt, Fails
<1>2. StatusesAreOwn' /\ PolicyIsProjects' /\ TightenedOncePerReceipt'
  BY <1>1 DEF IndInv, StatusesAreOwn, PolicyIsProjects, TightenedOncePerReceipt
<1>3. CASE Promote
  <2>1. PICK run \in {c.run : c \in compares}, ratchet \in BOOLEAN, c \in compares \cup {None} :
          cmd' = [step |-> "baseline", run |-> run, ratchet |-> ratchet, compare |-> c, plan |-> {}]
    BY <1>3 DEF Promote
  <2>2. run \in Nat /\ c \in CompareReceipt \cup {None}
    BY DEF IndInv, TypeInv, CompareReceipt
  <2>3. cmd' \in Running /\ cmd'.compare = c
    BY <2>1, <2>2 DEF Running
  <2>4. TypeInv'
    BY <1>1, <1>3, <2>3 DEF Promote, IndInv, TypeInv
  <2>5. ComparesOnDisk'
    BY <1>1, <2>3 DEF ComparesOnDisk
  <2> QED BY <1>2, <2>4, <2>5 DEF IndInv
<1>4. CASE WriteBaseline
  <2>1. cmd \in Running
    BY <1>4, Commands DEF WriteBaseline, IndInv, TypeInv
  <2>2. cmd.run \in Nat
    BY <2>1 DEF Running
  <2>3. cmd' = Idle \/ (cmd' \in Running /\ cmd'.compare = cmd.compare)
    BY <1>4, <2>1 DEF WriteBaseline, Running
  <2>4. TypeInv'
    BY <1>1, <1>4, <2>2, <2>3 DEF WriteBaseline, IndInv, TypeInv
  <2>5. ComparesOnDisk'
    BY <1>1, <2>1, <2>3, Commands DEF IndInv, ComparesOnDisk
  <2> QED BY <1>2, <2>4, <2>5 DEF IndInv
<1>5. CASE RatchetRefused \/ WriteRatchetReceipt \/ Fails
  <2>1. cmd' = Idle /\ UNCHANGED <<baseline, promotions>>
    BY <1>5 DEF RatchetRefused, WriteRatchetReceipt, Fails
  <2>2. TypeInv' /\ ComparesOnDisk'
    BY <1>1, <2>1, Commands DEF IndInv, TypeInv, ComparesOnDisk
  <2> QED BY <1>2, <2>2 DEF IndInv
<1> QED BY <1>3, <1>4, <1>5

\* The promotion that ratchets, and what it works from.
LEMMA RatchetInputs ==
  ASSUME IndInv, cmd.step = "ratchet", cmd.compare # None, config # None
  PROVE  /\ cmd \in Running /\ cmd.compare \in compares /\ cmd.compare \in CompareReceipt
         /\ cmd.compare.status = StatusAt(cmd.compare.threshold, cmd.compare.change)
         /\ config \in ConfigFile
<1>1. cmd \in Running
  BY Commands DEF IndInv, TypeInv
<1>2. cmd.compare \in compares
  BY <1>1 DEF IndInv, ComparesOnDisk
<1> QED BY <1>1, <1>2 DEF IndInv, TypeInv, StatusesAreOwn

LEMMA PlanTyped ==
  ASSUME NEW c \in CompareReceipt, NEW conf \in ConfigFile
  PROVE  Plan(c, conf.policy) \subseteq Int
<1>1. c.threshold \in Int /\ conf.policy.max \in Int /\ c.change \in Delta
  BY DEF CompareReceipt, ConfigFile, RatchetConfig
<1>2. Improvement(c) \in Int
  BY <1>1, LossIsInt DEF Improvement
<1> DEFINE by == IF Improvement(c) < conf.policy.max THEN Improvement(c) ELSE conf.policy.max
<1>3. by \in Int
  BY <1>1, <1>2
<1>4. NewThreshold(c, conf.policy) = c.threshold - (c.threshold * by) \div 100
  BY DEF NewThreshold
<1> HIDE DEF by
<1>5. c.threshold * by \in Int
  BY <1>1, <1>3
<1>6. NewThreshold(c, conf.policy) \in Int
  BY <1>1, <1>4, <1>5
<1> QED BY <1>6 DEF Plan

LEMMA RatchetInd ==
  ASSUME IndInv, Ratchet
  PROVE  IndInv'
<1> DEFINE c == cmd.compare
           plan == Plan(c, config.policy)
<1>1. /\ cmd \in Running /\ c \in compares /\ c \in CompareReceipt
      /\ c.status = StatusAt(c.threshold, c.change) /\ config \in ConfigFile
  BY RatchetInputs DEF Ratchet
<1>2. /\ config' = Applied(config, c, plan)
      /\ cmd' = [cmd EXCEPT !.step = "receipt", !.plan = plan]
      /\ UNCHANGED <<compares, baseline, promotions, wrote>>
  BY DEF Ratchet
<1>3. plan \subseteq Int
  BY <1>1, PlanTyped
<1>4. cmd' \in Running /\ cmd'.compare = c
  BY <1>1, <1>2, <1>3 DEF Running
<1>5. StatusesAreOwn' /\ ComparesOnDisk'
  BY <1>1, <1>2, <1>4 DEF IndInv, StatusesAreOwn, ComparesOnDisk
<1>6. CASE config' = config
  BY <1>2, <1>4, <1>5, <1>6 DEF IndInv, TypeInv, PolicyIsProjects, TightenedOncePerReceipt
<1>7. CASE config' # config
  <2>1. /\ config' \in ConfigFile /\ config'.policy = config.policy
        /\ c.verdict = "pass"
        /\ Effective(config') < c.threshold
        /\ 100 * Effective(config') >= c.threshold * (100 - config.policy.max)
    BY <1>1, <1>2, <1>7, AppliedEffect
  <2>2. PICK d \in Configs : d.policy = config.policy
    BY <1>1, NoneAssumption DEF IndInv, PolicyIsProjects
  <2>3. TypeInv'
    BY <1>2, <1>4, <2>1 DEF IndInv, TypeInv
  <2>4. PolicyIsProjects'
    BY <2>1, <2>2 DEF PolicyIsProjects
  <2>5. 100 * Effective(config') >= c.threshold * (100 - d.policy.max)
    BY <2>1, <2>2
  <2>6. TightenedOncePerReceipt'
    <3> SUFFICES \E x \in compares : /\ x.verdict = "pass"
                                     /\ Effective(config') < x.threshold
                                     /\ \E y \in Configs :
                                          100 * Effective(config') >= x.threshold * (100 - y.policy.max)
      BY <1>2 DEF TightenedOncePerReceipt, Effective
    <3> QED BY <1>1, <2>1, <2>5
  <2> QED BY <1>5, <2>3, <2>4, <2>6 DEF IndInv
<1> QED BY <1>6, <1>7

\* A config torn by a killed write promises nothing.
LEMMA KilledInd ==
  ASSUME IndInv, KilledInWrite
  PROVE  IndInv'
BY Commands DEF KilledInWrite, IndInv, TypeInv, StatusesAreOwn, ComparesOnDisk,
                PolicyIsProjects, TightenedOncePerReceipt

LEMMA NextInd == IndInv /\ [Next]_vars => IndInv'
<1> SUFFICES ASSUME IndInv, [Next]_vars PROVE IndInv'
  OBVIOUS
<1>1. CASE Next
  BY <1>1, EditInd, CompareInd, CommandInd, RatchetInd, KilledInd DEF Next
<1>2. CASE UNCHANGED vars
  BY <1>2 DEF vars, IndInv, TypeInv, StatusesAreOwn, ComparesOnDisk, PolicyIsProjects,
              TightenedOncePerReceipt
<1> QED BY <1>1, <1>2

\* Promoting again and again, from the same comparison or an older one, through
\* edits, failures and kills: every threshold in the file is one the project
\* wrote or at most one capped step below that of a passing comparison.
THEOREM TightensOnce == Spec => []TightenedOncePerReceipt
<1>1. IndInv => TightenedOncePerReceipt
  BY DEF IndInv
<1> QED BY InitInd, NextInd, <1>1, PTL DEF Spec

\* A promotion that changes the threshold lowers it, unless the ratchet did not
\* find the project's threshold (apply_ratchet_toml_changes reads a float in a
\* table) and the receipt was made with a higher one: then it may loosen.
THEOREM LoosensUnread == Spec => LoosensOnlyUnread
<1> DEFINE Lowers ==
      (cmd.step = "ratchet" /\ config' # config /\ config' # None) =>
        \/ Effective(config') < Effective(config)
        \/ ~Readable(config.own) /\ cmd.compare.threshold > Effective(config)
<1>1. IndInv /\ [Next]_vars => [Lowers]_vars
  <2> SUFFICES ASSUME IndInv, Next, cmd.step = "ratchet", config' # config, config' # None
               PROVE  \/ Effective(config') < Effective(config)
                      \/ ~Readable(config.own) /\ cmd.compare.threshold > Effective(config)
    OBVIOUS
  <2>1. Ratchet
    BY Commands DEF Next, Edit, Compare, Promote, WriteBaseline, RatchetRefused, KilledInWrite,
                    WriteRatchetReceipt, Fails
  <2>2. /\ cmd.compare \in CompareReceipt /\ config \in ConfigFile
        /\ cmd.compare.status = StatusAt(cmd.compare.threshold, cmd.compare.change)
    BY <2>1, RatchetInputs DEF Ratchet
  <2>3. config' = Applied(config, cmd.compare, Plan(cmd.compare, config.policy))
    BY <2>1 DEF Ratchet
  <2>4. /\ Effective(config') < cmd.compare.threshold
        /\ Readable(config.own) => Effective(config') < config.own.v
    BY <2>2, <2>3, AppliedEffect
  <2>5. CASE Readable(config.own)
    BY <2>4, <2>5 DEF Effective, Readable
  <2>6. CASE ~Readable(config.own)
    <3>1. config' \in ConfigFile /\ cmd.compare.threshold \in Int
      BY <2>2, <2>3, AppliedEffect DEF CompareReceipt
    <3>2. \A c \in ConfigFile : Effective(c) \in Int
      BY DEF ConfigFile, Threshold, Effective
    <3> HIDE DEF Lowers
    <3> QED BY <2>2, <2>4, <2>6, <3>1, <3>2
  <2> QED BY <2>5, <2>6
<1> QED BY InitInd, NextInd, <1>1, PTL DEF Spec, LoosensOnlyUnread

-----------------------------------------------------------------------------
(* Aggregate: the policies that count receipts. *)

Counts(q) == q.policy # "weighted"

LEMMA OptionFacts ==
  ASSUME NEW q \in Requests, Valid(q)
  PROVE  /\ q.policy \in Policies
         /\ OrElse(q.quorum, 50) \in 0..100
         /\ OrElse(q.quorum, 50) = 0 => q.quorum = 0
         /\ q.policy = "fail_if_n_of_m" => q.n \in Int /\ q.n >= 1
         /\ q.m \in Int \cup {Unset}
<1>1. q.policy \in Policies /\ q.quorum \in Int \cup {Unset} /\ q.n \in Int \cup {Unset}
      /\ q.m \in Int \cup {Unset}
  BY RequestsAssumption
<1>2. OrElse(q.quorum, 50) \in 0..100 /\ (OrElse(q.quorum, 50) = 0 => q.quorum = 0)
  <2>1. CASE q.quorum = Unset
    <3>1. OrElse(q.quorum, 50) = 50
      BY <2>1 DEF OrElse
    <3> QED BY <3>1
  <2>2. CASE q.quorum # Unset
    <3>1. OrElse(q.quorum, 50) = q.quorum
      BY <2>2 DEF OrElse
    <3>2. q.quorum \in 0..100
      BY <2>2 DEF Valid
    <3> QED BY <3>1, <3>2
  <2> QED BY <2>1, <2>2
<1>3. q.policy = "fail_if_n_of_m" => q.n \in Int /\ q.n >= 1
  BY <1>1 DEF Valid
<1> QED BY <1>1, <1>2, <1>3

\* What a policy that counts asks of p receipts that passed among n.
Agrees(q, p, n) ==
  \/ q.policy = "all" /\ n - p = 0
  \/ q.policy = "majority" /\ p > n - p
  \/ q.policy = "quorum" /\ 100 * p >= OrElse(q.quorum, 50) * n
  \/ q.policy = "fail_if_n_of_m" /\ n >= OrElse(q.m, n) /\ n - p < q.n

LEMMA AcceptsCounts ==
  ASSUME NEW q, NEW rs, q.policy \in Policies, Counts(q)
  PROVE  Accepts(q, rs) <=> Agrees(q, Cardinality(Passed(rs)), Len(rs))
<1>1. CASE q.policy = "all"
  BY <1>1 DEF Accepts, Agrees
<1>2. CASE q.policy = "majority"
  BY <1>2 DEF Accepts, Agrees
<1>3. CASE q.policy = "quorum"
  BY <1>3 DEF Accepts, Agrees
<1>4. CASE q.policy = "fail_if_n_of_m"
  BY <1>4 DEF Accepts, Agrees
<1> QED BY <1>1, <1>2, <1>3, <1>4 DEF Policies, Counts

LEMMA PassedFacts ==
  ASSUME NEW rs \in Seq(RunReceipt)
  PROVE  /\ IsFiniteSet(DOMAIN rs) /\ Cardinality(DOMAIN rs) = Len(rs) /\ Len(rs) \in Nat
         /\ IsFiniteSet(Passed(rs)) /\ Cardinality(Passed(rs)) \in Nat
         /\ Cardinality(Passed(rs)) <= Len(rs)
<1>1. DOMAIN rs = 1..Len(rs) /\ Len(rs) \in Nat
  OBVIOUS
<1>2. IsFiniteSet(1..Len(rs)) /\ Cardinality(1..Len(rs)) = Len(rs)
  BY <1>1, FS_Interval
<1>3. Passed(rs) \in SUBSET (1..Len(rs))
  BY <1>1 DEF Passed
<1>4. IsFiniteSet(Passed(rs)) /\ Cardinality(Passed(rs)) <= Cardinality(1..Len(rs))
  BY <1>2, <1>3, FS_Subset
<1>5. Cardinality(Passed(rs)) \in Nat
  BY <1>4, FS_CardinalityType
<1> QED BY <1>1, <1>2, <1>4, <1>5

\* Failed receipts that pass instead only add to those that passed.
LEMMA RepairAdds ==
  ASSUME NEW rs \in Seq(RunReceipt), NEW S \in SUBSET DOMAIN rs
  PROVE  /\ Repaired(rs, S) \in Seq(RunReceipt) /\ Len(Repaired(rs, S)) = Len(rs)
         /\ Cardinality(Passed(rs)) <= Cardinality(Passed(Repaired(rs, S)))
<1> DEFINE new == Repaired(rs, S)
<1>1. DOMAIN rs = 1..Len(rs) /\ Len(rs) \in Nat /\ \A i \in DOMAIN rs : rs[i] \in RunReceipt
  OBVIOUS
<1>2. \A r \in RunReceipt : /\ [r EXCEPT !.bad = FALSE] \in RunReceipt
                            /\ ~[r EXCEPT !.bad = FALSE].bad
  BY DEF RunReceipt
<1>3. DOMAIN new = 1..Len(rs) /\ \A i \in 1..Len(rs) :
        new[i] = IF i \in S THEN [rs[i] EXCEPT !.bad = FALSE] ELSE rs[i]
  BY <1>1 DEF Repaired
<1>4. \A i \in 1..Len(rs) : new[i] \in RunReceipt /\ (~rs[i].bad => ~new[i].bad)
  <2> SUFFICES ASSUME NEW i \in 1..Len(rs)
               PROVE new[i] \in RunReceipt /\ (~rs[i].bad => ~new[i].bad)
    OBVIOUS
  <2>1. CASE i \in S
    BY <1>1, <1>2, <1>3, <2>1
  <2>2. CASE i \notin S
    BY <1>1, <1>3, <2>2
  <2> QED BY <2>1, <2>2
<1>5. new \in Seq(RunReceipt) /\ Len(new) = Len(rs)
  <2>1. new \in [1..Len(rs) -> RunReceipt]
    BY <1>3, <1>4 DEF Repaired
  <2> QED BY <1>1, <2>1
<1>6. Passed(rs) \in SUBSET Passed(new)
  BY <1>1, <1>3, <1>4 DEF Passed
<1>7. IsFiniteSet(Passed(new))
  BY <1>5, PassedFacts
<1> QED BY <1>5, <1>6, <1>7, FS_Subset

LEMMA AgreesMonotone ==
  ASSUME NEW q \in Requests, Valid(q), NEW n \in Nat, NEW p \in Nat, NEW p2 \in Nat,
         p <= p2, p2 <= n, Agrees(q, p, n)
  PROVE  Agrees(q, p2, n)
<1> DEFINE required == OrElse(q.quorum, 50)
<1>1. /\ required \in 0..100
      /\ q.policy = "fail_if_n_of_m" => q.n \in Int
  BY OptionFacts
<1>2. CASE q.policy = "all" /\ n - p = 0
  BY <1>2 DEF Agrees
<1>3. CASE q.policy = "majority" /\ p > n - p
  BY <1>3 DEF Agrees
<1>4. CASE q.policy = "quorum" /\ 100 * p >= required * n
  <2>1. required * n \in Int
    BY <1>1
  <2>2. 100 * p2 >= required * n
    BY <1>4, <2>1
  <2> QED BY <1>4, <2>2 DEF Agrees
<1>5. CASE q.policy = "fail_if_n_of_m" /\ n >= OrElse(q.m, n) /\ n - p < q.n
  BY <1>1, <1>5 DEF Agrees
<1> QED BY <1>2, <1>3, <1>4, <1>5 DEF Agrees

\* Once the command has ended with a verdict: its inputs were in order, and the
\* exit code is the policy's.
VerdictOfPolicy ==
  /\ request \in Requests /\ receipts \in Seq(RunReceipt)
  /\ (outcome # Unset /\ outcome.exit # 1) =>
       /\ Valid(request) /\ Loadable(receipts)
       /\ outcome.exit = 0 => Accepts(request, receipts)
       /\ outcome.exit = 2 => ~Accepts(request, receipts)

LEMMA VerdictInd ==
  VerdictOfPolicy /\ [RunAggregate]_aggregateVars => VerdictOfPolicy'
<1> SUFFICES ASSUME VerdictOfPolicy, [RunAggregate]_aggregateVars
             PROVE  VerdictOfPolicy'
  OBVIOUS
<1>1. CASE RunAggregate
  <2>1. request' = request /\ receipts' = receipts
    BY <1>1 DEF RunAggregate
  <2>2. CASE ~Valid(request) \/ ~Loadable(receipts)
    <3>1. outcome'.exit = 1
      BY <1>1, <2>2 DEF RunAggregate
    <3> QED BY <2>1, <3>1 DEF VerdictOfPolicy
  <2>3. CASE Valid(request) /\ Loadable(receipts)
    <3>1. outcome'.exit = IF Accepts(request, receipts) THEN 0 ELSE 2
      BY <1>1, <2>3 DEF RunAggregate
    <3> QED BY <2>1, <2>3, <3>1 DEF VerdictOfPolicy
  <2> QED BY <2>2, <2>3
<1>2. CASE UNCHANGED aggregateVars
  BY <1>2 DEF aggregateVars, VerdictOfPolicy
<1> QED BY <1>1, <1>2

LEMMA CountingIsMonotone ==
  VerdictOfPolicy /\ Counts(request) => PolicyIsMonotone
<1> SUFFICES ASSUME VerdictOfPolicy, Counts(request), outcome # Unset, outcome.exit # 1
             PROVE
    LET all == DOMAIN receipts
        failed == {i \in all : receipts[i].bad}
    IN /\ outcome.exit = 0 => \A S \in SUBSET failed : Accepts(request, Repaired(receipts, S))
       /\ failed = {} /\ outcome.exit = 2 =>
            \/ request.policy = "fail_if_n_of_m" /\ Len(receipts) < request.m
            \/ request.policy = "weighted" /\ WeightOf(request, receipts, all) = 0
       /\ failed = all /\ outcome.exit = 0 =>
            request.quorum = 0 \/ (request.policy = "fail_if_n_of_m" /\ request.n > Len(receipts))
  BY DEF PolicyIsMonotone
<1> DEFINE failed == {i \in DOMAIN receipts : receipts[i].bad}
           n == Len(receipts)
           p == Cardinality(Passed(receipts))
           required == OrElse(request.quorum, 50)
<1>1. /\ request \in Requests /\ Valid(request) /\ Loadable(receipts)
      /\ receipts \in Seq(RunReceipt)
      /\ outcome.exit = 0 => Accepts(request, receipts)
      /\ outcome.exit = 2 => ~Accepts(request, receipts)
  BY DEF VerdictOfPolicy
<1>2. /\ request.policy \in Policies /\ required \in 0..100
      /\ required = 0 => request.quorum = 0
      /\ request.policy = "fail_if_n_of_m" => request.n \in Int /\ request.n >= 1
      /\ request.m \in Int \cup {Unset}
  BY <1>1, OptionFacts
<1>3. /\ n \in Nat /\ p \in Nat /\ p <= n /\ n > 0
      /\ IsFiniteSet(DOMAIN receipts) /\ Cardinality(DOMAIN receipts) = n
  <2>1. n > 0
    BY <1>1 DEF Loadable
  <2> QED BY <1>1, <2>1, PassedFacts
<1>4. Accepts(request, receipts) <=> Agrees(request, p, n)
  BY <1>2, AcceptsCounts
<1>5. ASSUME outcome.exit = 0, NEW S \in SUBSET failed
      PROVE  Accepts(request, Repaired(receipts, S))
  <2> DEFINE new == Repaired(receipts, S)
  <2>1. S \in SUBSET DOMAIN receipts
    OBVIOUS
  <2>2. new \in Seq(RunReceipt) /\ Len(new) = n /\ p <= Cardinality(Passed(new))
    BY <1>1, <2>1, RepairAdds
  <2>3. Cardinality(Passed(new)) \in Nat /\ Cardinality(Passed(new)) <= n
    BY <2>2, PassedFacts
  <2> HIDE DEF new, n, p
  <2>4. Agrees(request, Cardinality(Passed(new)), Len(new))
    BY <1>1, <1>3, <1>4, <1>5, <2>2, <2>3, AgreesMonotone
  <2>5. Accepts(request, new)
    BY <1>2, <2>4, AcceptsCounts
  <2> QED BY <2>5 DEF new
<1>6. ASSUME failed = {}, outcome.exit = 2
      PROVE  request.policy = "fail_if_n_of_m" /\ n < request.m
  <2>1. p = n
    <3>1. Passed(receipts) = DOMAIN receipts
      BY <1>6 DEF Passed
    <3> QED BY <1>3, <3>1
  <2>2. ~Agrees(request, p, n)
    BY <1>1, <1>4, <1>6
  <2> HIDE DEF p, n, required
  <2>3. request.policy # "all" /\ request.policy # "majority"
    BY <1>3, <2>1, <2>2 DEF Agrees
  <2>4. request.policy # "quorum"
    <3>1. 100 * n >= required * n
      BY <1>2, <1>3
    <3> QED BY <2>1, <2>2, <3>1 DEF Agrees, required
  <2>5. request.policy = "fail_if_n_of_m"
    BY <1>2, <2>3, <2>4 DEF Policies, Counts
  <2>6. n - p < request.n
    BY <1>2, <1>3, <2>1, <2>5
  <2>7. ~(n >= OrElse(request.m, n))
    BY <2>2, <2>5, <2>6 DEF Agrees
  <2>8. request.m # Unset
    BY <1>3, <2>7 DEF OrElse
  <2> QED BY <1>2, <1>3, <2>5, <2>7, <2>8 DEF OrElse
<1>7. ASSUME failed = DOMAIN receipts, outcome.exit = 0
      PROVE  request.quorum = 0 \/ (request.policy = "fail_if_n_of_m" /\ request.n > n)
  <2>1. p = 0
    <3>1. Passed(receipts) = {}
      BY <1>7 DEF Passed
    <3> QED BY <3>1, FS_EmptySet
  <2>2. Agrees(request, p, n)
    BY <1>1, <1>4, <1>7
  <2> HIDE DEF p, n, required
  <2>3. CASE request.policy = "quorum" /\ 100 * p >= required * n
    <3>1. required = 0
      <4>1. required >= 1 => required * n >= n
        BY <1>2, <1>3
      <4>2. required * n <= 0
        BY <1>2, <1>3, <2>1, <2>3
      <4> QED BY <1>2, <1>3, <4>1, <4>2
    <3> QED BY <1>2, <3>1
  <2>4. CASE request.policy = "fail_if_n_of_m" /\ n - p < request.n
    BY <1>2, <1>3, <2>1, <2>4
  <2>5. ~(n - p = 0) /\ ~(p > n - p)
    BY <1>3, <2>1
  <2> QED BY <2>2, <2>3, <2>4, <2>5 DEF Agrees, required
<1> QED BY <1>5, <1>6, <1>7

-----------------------------------------------------------------------------
(* The weighted policy.  What a sum or a product computes is an induction  *)
(* over its terms, and that a least counterexample exists because the      *)
(* strict subset order on finite sets is well founded.                     *)

\* A non-empty set of natural numbers has a least element.
LEMMA LeastElement ==
  ASSUME NEW T \in SUBSET Nat, T # {}
  PROVE  \E m \in T : \A n \in T : m <= n
<1> DEFINE U == {0..k : k \in T}
<1>1. U \subseteq FiniteSubsetsOf(Nat)
  <2>1. \A k \in T : IsFiniteSet(0..k) BY FS_Interval
  <2> QED BY <2>1 DEF FiniteSubsetsOf
<1>2. U # {} OBVIOUS
<1>3. IsWellFoundedOn(StrictSubsetOrdering(Nat), FiniteSubsetsOf(Nat))
  BY FS_StrictSubsetOrderingWellFounded
<1> HIDE DEF U
<1>4. PICK x \in U : \A y \in U : ~(<<y, x>> \in StrictSubsetOrdering(Nat))
  BY <1>1, <1>2, <1>3, WFMin
<1>5. PICK m \in T : x = 0..m BY DEF U
<1>6. ASSUME NEW n \in T, n < m PROVE FALSE
  <2>1. 0..n \in U BY DEF U
  <2>2. 0..n \in SUBSET Nat /\ 0..m \in SUBSET Nat OBVIOUS
  <2>3. (0..n) \subseteq (0..m) BY <1>6
  <2>4. m \in 0..m /\ m \notin 0..n BY <1>6
  <2>5. 0..n # 0..m BY <2>4
  <2>6. <<0..n, 0..m>> \in StrictSubsetOrdering(Nat)
    BY <2>2, <2>3, <2>5 DEF StrictSubsetOrdering
  <2> QED BY <2>1, <2>6, <1>4, <1>5
<1> QED BY <1>6

\* Induction over the natural numbers up to a bound.
LEMMA Induction ==
  ASSUME NEW n \in Nat, NEW G, 0 \in G, \A k \in 0..n - 1 : k \in G => k + 1 \in G
  PROVE  0..n \subseteq G
<1> SUFFICES ASSUME (0..n) \ G # {} PROVE FALSE OBVIOUS
<1>1. PICK m \in (0..n) \ G : \A k \in (0..n) \ G : m <= k
  <2>1. (0..n) \ G \in SUBSET Nat OBVIOUS
  <2> QED BY <2>1, LeastElement
<1>2. m # 0 /\ m - 1 \in 0..n - 1 /\ m - 1 < m OBVIOUS
<1>3. m - 1 \in 0..n /\ m - 1 \in G BY <1>1, <1>2
<1>4. (m - 1) + 1 \in G BY <1>2, <1>3
<1> QED BY <1>4

\* A running sum or product of n terms.
Accumulate(kind, x, y) == IF kind = "sum" THEN x + y ELSE x * y
FirstOf(kind) == IF kind = "sum" THEN 0 ELSE 1
IsRunning(kind, g, n, terms) ==
  g = [i \in 0..n |-> IF i = 0 THEN FirstOf(kind) ELSE Accumulate(kind, g[i - 1], terms[i])]

LEMMA RunningExists ==
  ASSUME NEW kind, NEW n \in Nat, NEW terms
  PROVE  \E g : IsRunning(kind, g, n, terms)
<1> DEFINE G == {k \in 0..n : \E f : IsRunning(kind, f, k, terms)}
<1>1. 0 \in G
  <2> DEFINE f == [i \in 0..0 |-> FirstOf(kind)]
  <2>1. IsRunning(kind, f, 0, terms) BY DEF IsRunning
  <2> QED BY <2>1
<1>2. ASSUME NEW k \in 0..n - 1, k \in G PROVE k + 1 \in G
  <2>1. PICK f : IsRunning(kind, f, k, terms) BY <1>2
  <2>2. f = [i \in 0..k |-> IF i = 0 THEN FirstOf(kind) ELSE Accumulate(kind, f[i - 1], terms[i])]
    BY <2>1 DEF IsRunning
  <2> DEFINE g == [i \in 0..k + 1 |-> IF i = 0 THEN FirstOf(kind) ELSE Accumulate(kind, f[i - 1], terms[i])]
  <2>3. \A i \in 0..k : g[i] = f[i] BY <2>2
  <2>4. \A i \in 0..k + 1 : i # 0 => f[i - 1] = g[i - 1]
    <3> SUFFICES ASSUME NEW i \in 0..k + 1, i # 0 PROVE f[i - 1] = g[i - 1]
      OBVIOUS
    <3>1. i - 1 \in 0..k BY <1>2
    <3> HIDE DEF g
    <3> QED BY <2>3, <3>1
  <2>5. IsRunning(kind, g, k + 1, terms) BY <2>4 DEF IsRunning
  <2>6. k + 1 \in 0..n BY <1>2
  <2> QED BY <2>5, <2>6
<1> HIDE DEF G
<1>3. 0..n \subseteq G BY <1>1, <1>2, Induction
<1> QED BY <1>3 DEF G

LEMMA RunningSteps ==
  ASSUME NEW kind, NEW g, NEW n \in Nat, NEW terms, IsRunning(kind, g, n, terms)
  PROVE  /\ g[0] = FirstOf(kind)
         /\ \A i \in 0..n - 1 : g[i + 1] = Accumulate(kind, g[i], terms[i + 1])
<1>1. g = [i \in 0..n |-> IF i = 0 THEN FirstOf(kind) ELSE Accumulate(kind, g[i - 1], terms[i])]
  BY DEF IsRunning
<1>2. ASSUME NEW i \in 0..n - 1 PROVE g[i + 1] = Accumulate(kind, g[i], terms[i + 1])
  <2>1. i + 1 \in 0..n /\ i + 1 # 0 /\ (i + 1) - 1 = i BY <1>2
  <2> QED BY <1>1, <2>1
<1> QED BY <1>1, <1>2

LEMMA TotalIs ==
  ASSUME NEW terms, NEW n \in Nat, Len(terms) = n
  PROVE  \E g : /\ Total(terms) = g[n] /\ g[0] = 0
                /\ \A i \in 0..n - 1 : g[i + 1] = g[i] + terms[i + 1]
<1> DEFINE g == CHOOSE g : IsRunning("sum", g, Len(terms), terms)
<1>1. IsRunning("sum", g, n, terms) BY RunningExists
<1>2. Total(terms) = g[n] BY DEF Total, IsRunning, FirstOf, Accumulate
<1> HIDE DEF g
<1>3. /\ g[0] = FirstOf("sum")
      /\ \A i \in 0..n - 1 : g[i + 1] = Accumulate("sum", g[i], terms[i + 1])
  BY <1>1, RunningSteps
<1>4. FirstOf("sum") = 0 /\ \A x, y : Accumulate("sum", x, y) = x + y
  BY DEF FirstOf, Accumulate
<1> QED BY <1>2, <1>3, <1>4

LEMMA ProductIs ==
  ASSUME NEW terms, NEW n \in Nat, Len(terms) = n
  PROVE  \E g : /\ Product(terms) = g[n] /\ g[0] = 1
                /\ \A i \in 0..n - 1 : g[i + 1] = g[i] * terms[i + 1]
<1> DEFINE g == CHOOSE g : IsRunning("product", g, Len(terms), terms)
<1>1. IsRunning("product", g, n, terms) BY RunningExists
<1>2. Product(terms) = g[n] BY DEF Product, IsRunning, FirstOf, Accumulate
<1> HIDE DEF g
<1>3. /\ g[0] = FirstOf("product")
      /\ \A i \in 0..n - 1 : g[i + 1] = Accumulate("product", g[i], terms[i + 1])
  BY <1>1, RunningSteps
<1>4. FirstOf("product") = 1 /\ \A x, y : Accumulate("product", x, y) = x * y
  BY DEF FirstOf, Accumulate
<1> QED BY <1>2, <1>3, <1>4

LEMMA NatProduct == \A a, b \in Nat : a * b \in Nat
BY Z3

LEMMA ProductTyped ==
  ASSUME NEW n \in Nat, NEW f, Len(f) = n, \A i \in 1..n : f[i] \in Nat
  PROVE  Product(f) \in Nat
<1>1. PICK F : /\ Product(f) = F[n] /\ F[0] = 1
               /\ \A i \in 0..n - 1 : F[i + 1] = F[i] * f[i + 1]
  BY ProductIs
<1> DEFINE G == {k \in 0..n : F[k] \in Nat}
<1>2. 0 \in G BY <1>1
<1>3. ASSUME NEW k \in 0..n - 1, k \in G PROVE k + 1 \in G
  <2>1. k + 1 \in 1..n /\ k + 1 \in 0..n BY <1>3
  <2>2. F[k] \in Nat /\ f[k + 1] \in Nat /\ F[k + 1] = F[k] * f[k + 1] BY <1>1, <1>3, <2>1
  <2>3. F[k + 1] \in Nat BY <2>2, NatProduct, Zenon
  <2> QED BY <2>1, <2>3
<1> HIDE DEF G
<1>4. 0..n \subseteq G BY <1>2, <1>3, Induction
<1>5. n \in G BY <1>4
<1> QED BY <1>1, <1>5 DEF G

\* Totals, term by term.
LEMMA TotalsCompare ==
  ASSUME NEW n \in Nat, NEW f, NEW g, Len(f) = n, Len(g) = n,
         \A i \in 1..n : f[i] \in Nat /\ g[i] \in Nat /\ f[i] <= g[i]
  PROVE  /\ Total(f) \in Nat /\ Total(g) \in Nat /\ Total(f) <= Total(g)
         /\ (\A i \in 1..n : f[i] = 0) => Total(f) = 0
<1>1. PICK F : /\ Total(f) = F[n] /\ F[0] = 0
               /\ \A i \in 0..n - 1 : F[i + 1] = F[i] + f[i + 1]
  BY TotalIs
<1>2. PICK H : /\ Total(g) = H[n] /\ H[0] = 0
               /\ \A i \in 0..n - 1 : H[i + 1] = H[i] + g[i + 1]
  BY TotalIs
<1> DEFINE none == \A i \in 1..n : f[i] = 0
           G == {k \in 0..n : /\ F[k] \in Nat /\ H[k] \in Nat /\ F[k] <= H[k]
                              /\ none => F[k] = 0}
<1>3. 0 \in G BY <1>1, <1>2
<1>4. ASSUME NEW k \in 0..n - 1, k \in G PROVE k + 1 \in G
  <2>1. k + 1 \in 1..n /\ k + 1 \in 0..n BY <1>4
  <2>2. F[k] \in Nat /\ H[k] \in Nat /\ F[k] <= H[k] /\ (none => F[k] = 0) BY <1>4
  <2>3. f[k + 1] \in Nat /\ g[k + 1] \in Nat /\ f[k + 1] <= g[k + 1] /\ (none => f[k + 1] = 0)
    BY <2>1
  <2>4. F[k + 1] = F[k] + f[k + 1] /\ H[k + 1] = H[k] + g[k + 1] BY <1>1, <1>2, <1>4
  <2> HIDE DEF none
  <2>5. F[k + 1] \in Nat /\ H[k + 1] \in Nat /\ F[k + 1] <= H[k + 1] BY <2>2, <2>3, <2>4
  <2>6. none => F[k + 1] = 0 BY <2>2, <2>3, <2>4
  <2> QED BY <2>1, <2>5, <2>6
<1> HIDE DEF G
<1>5. 0..n \subseteq G BY <1>3, <1>4, Induction
<1>6. n \in G BY <1>5
<1> QED BY <1>1, <1>2, <1>6 DEF G

LEMMA Square == \A x \in Int : x * x \in Nat
BY Z3

\* A spread is a number: variances are squares, and the floor is positive.
LEMMA SpreadTyped ==
  ASSUME NEW q \in Requests, Valid(q), NEW r \in RunReceipt
  PROVE  Spread(q, r) \in Nat
<1>1. q.floor \in Int \cup {Unset}
  BY RequestsAssumption
<1>2. Floor2(q) \in Nat
  <2>1. CASE q.floor = Unset
    BY <2>1 DEF Floor2, OrElse
  <2>2. CASE q.floor # Unset
    <3>1. q.floor \in Int /\ q.floor > 0 BY <1>1, <2>2 DEF Valid
    <3> QED BY <2>2, <3>1 DEF Floor2, OrElse
  <2> QED BY <2>1, <2>2
<1>3. Variance2(r) = Unset \/ Variance2(r) \in Nat
  <2>1. CASE Len(r.walls) < 2
    BY <2>1 DEF Variance2
  <2>2. CASE ~(Len(r.walls) < 2)
    <3>1. r.walls \in Seq(Nat) BY DEF RunReceipt
    <3>2. Len(r.walls) \in Nat /\ 1 \in 1..Len(r.walls) /\ 2 \in 1..Len(r.walls) BY <2>2, <3>1
    <3>3. r.walls[1] \in Nat /\ r.walls[2] \in Nat BY <3>1, <3>2
    <3> DEFINE d == r.walls[1] - r.walls[2]
    <3>4. d \in Int BY <3>3
    <3>5. Variance2(r) = d * d BY <2>2 DEF Variance2
    <3> HIDE DEF d
    <3> QED BY <3>4, <3>5, Square
  <2> QED BY <2>1, <2>2
<1>4. OrElse(Variance2(r), Floor2(q)) \in Nat
  BY <1>2, <1>3 DEF OrElse
<1> QED BY <1>2, <1>4 DEF Spread

LEMMA WeightTyped ==
  ASSUME NEW q \in Requests, Valid(q), NEW rs \in Seq(RunReceipt), NEW i \in 1..Len(rs)
  PROVE  EffectiveWeight(q, rs, i) \in Nat
<1> DEFINE n == Len(rs)
           others == [j \in 1..n |-> IF j = i THEN 1 ELSE Spread(q, rs[j])]
           w == ConfiguredWeight(q, rs[i])
<1>1. n \in Nat /\ DOMAIN rs = 1..n /\ \A j \in 1..n : rs[j] \in RunReceipt
  OBVIOUS
<1>2. \A j \in 1..n : others[j] \in Nat
  BY <1>1, SpreadTyped
<1>3. Len(others) = n
  <2>1. DOMAIN others = 1..n OBVIOUS
  <2>2. others \in Seq(Nat) BY <1>1, <1>2
  <2> QED BY <1>1, <2>1, <2>2
<1>4. w \in Nat
  BY RequestsAssumption DEF ConfiguredWeight
<1>5. EffectiveWeight(q, rs, i) =
        IF q.policy # "weighted" THEN 1
        ELSE w * (IF q.mode = "inverse_variance" THEN Product(others) ELSE 1)
  BY <1>1 DEF EffectiveWeight
<1> HIDE DEF others, w, n
<1>6. Product(others) \in Nat
  BY <1>1, <1>2, <1>3, ProductTyped
<1>7. w * Product(others) \in Nat
  BY <1>4, <1>6, NatProduct
<1> QED BY <1>4, <1>5, <1>7

\* What a receipt weighs does not depend on whether its run failed.
LEMMA WeightKept ==
  ASSUME NEW q, NEW rs \in Seq(RunReceipt), NEW S \in SUBSET DOMAIN rs, NEW T
  PROVE  WeightOf(q, Repaired(rs, S), T) = WeightOf(q, rs, T)
<1> DEFINE new == Repaired(rs, S)
<1>1. DOMAIN new = DOMAIN rs /\ \A j \in DOMAIN rs :
        new[j] = IF j \in S THEN [rs[j] EXCEPT !.bad = FALSE] ELSE rs[j]
  BY DEF Repaired
<1>2. \A r \in RunReceipt : /\ [r EXCEPT !.bad = FALSE].label = r.label
                            /\ [r EXCEPT !.bad = FALSE].walls = r.walls
  BY DEF RunReceipt
<1>3. \A j \in DOMAIN rs : new[j].label = rs[j].label /\ new[j].walls = rs[j].walls
  <2> TAKE j \in DOMAIN rs
  <2>1. rs[j] \in RunReceipt OBVIOUS
  <2> QED BY <1>1, <1>2, <2>1
<1> HIDE DEF new
<1>4. \A j \in DOMAIN rs : /\ Spread(q, new[j]) = Spread(q, rs[j])
                           /\ ConfiguredWeight(q, new[j]) = ConfiguredWeight(q, rs[j])
  BY <1>3 DEF Spread, Variance2, ConfiguredWeight
<1>5. ASSUME NEW i \in DOMAIN rs PROVE EffectiveWeight(q, new, i) = EffectiveWeight(q, rs, i)
  <2> DEFINE others(x) == [j \in DOMAIN x |-> IF j = i THEN 1 ELSE Spread(q, x[j])]
  <2>1. others(new) = others(rs) BY <1>1, <1>4
  <2>2. \A x : EffectiveWeight(q, x, i) =
          IF q.policy # "weighted" THEN 1
          ELSE ConfiguredWeight(q, x[i]) * (IF q.mode = "inverse_variance" THEN Product(others(x)) ELSE 1)
    BY DEF EffectiveWeight
  <2> HIDE DEF others
  <2> QED BY <1>4, <2>1, <2>2
<1>6. [i \in DOMAIN new |-> IF i \in T THEN EffectiveWeight(q, new, i) ELSE 0]
        = [i \in DOMAIN rs |-> IF i \in T THEN EffectiveWeight(q, rs, i) ELSE 0]
  BY <1>1, <1>5
<1> QED BY <1>6 DEF WeightOf, new

\* More receipts weigh more, none weigh nothing.
LEMMA WeightGrows ==
  ASSUME NEW q \in Requests, Valid(q), NEW rs \in Seq(RunReceipt), NEW T, NEW U, T \subseteq U
  PROVE  /\ WeightOf(q, rs, T) \in Nat /\ WeightOf(q, rs, U) \in Nat
         /\ WeightOf(q, rs, T) <= WeightOf(q, rs, U)
         /\ T = {} => WeightOf(q, rs, T) = 0
<1> DEFINE n == Len(rs)
           part(X) == [i \in 1..n |-> IF i \in X THEN EffectiveWeight(q, rs, i) ELSE 0]
<1>1. n \in Nat /\ DOMAIN rs = 1..n OBVIOUS
<1>2. \A X : WeightOf(q, rs, X) = Total(part(X)) BY <1>1 DEF WeightOf
<1>3. \A i \in 1..n : EffectiveWeight(q, rs, i) \in Nat BY WeightTyped
<1>4. \A X : part(X) \in Seq(Nat) /\ Len(part(X)) = n /\ \A i \in 1..n :
        part(X)[i] = IF i \in X THEN EffectiveWeight(q, rs, i) ELSE 0
  BY <1>1, <1>3
<1> HIDE DEF part, n
<1>5. /\ \A i \in 1..n : part(T)[i] \in Nat /\ part(U)[i] \in Nat /\ part(T)[i] <= part(U)[i]
      /\ T = {} => \A i \in 1..n : part(T)[i] = 0
  <2>1. ASSUME NEW i \in 1..n
        PROVE  part(T)[i] \in Nat /\ part(U)[i] \in Nat /\ part(T)[i] <= part(U)[i]
    <3>1. /\ part(T)[i] = (IF i \in T THEN EffectiveWeight(q, rs, i) ELSE 0)
          /\ part(U)[i] = (IF i \in U THEN EffectiveWeight(q, rs, i) ELSE 0)
      BY <1>4
    <3>2. EffectiveWeight(q, rs, i) \in Nat BY <1>3
    <3> QED BY <3>1, <3>2
  <2>2. ASSUME T = {}, NEW i \in 1..n PROVE part(T)[i] = 0
    BY <1>4, <2>2
  <2> QED BY <2>1, <2>2
<1>6. /\ Total(part(T)) \in Nat /\ Total(part(U)) \in Nat /\ Total(part(T)) <= Total(part(U))
      /\ (\A i \in 1..n : part(T)[i] = 0) => Total(part(T)) = 0
  <2> DEFINE f == part(T)
             g == part(U)
  <2>1. /\ Len(f) = n /\ Len(g) = n
        /\ \A i \in 1..n : f[i] \in Nat /\ g[i] \in Nat /\ f[i] <= g[i]
    BY <1>4, <1>5
  <2> HIDE DEF f, g
  <2>2. /\ Total(f) \in Nat /\ Total(g) \in Nat /\ Total(f) <= Total(g)
        /\ (\A i \in 1..n : f[i] = 0) => Total(f) = 0
    BY <1>1, <2>1, TotalsCompare
  <2> QED BY <2>2 DEF f, g
<1> QED BY <1>2, <1>5, <1>6

\* What the weighted policy asks of a weight w that passed among a total t.
Outweighs(required, w, t) == IF t = 0 THEN required = 0 ELSE 100 * w >= required * t

LEMMA AcceptsWeights ==
  ASSUME NEW q, NEW rs, q.policy = "weighted"
  PROVE  Accepts(q, rs) <=> Outweighs(OrElse(q.quorum, 50), WeightOf(q, rs, Passed(rs)),
                                      WeightOf(q, rs, DOMAIN rs))
BY DEF Accepts, Outweighs

LEMMA OutweighFacts ==
  /\ \A a \in 0..100, v, w, t \in Nat : v <= w /\ Outweighs(a, v, t) => Outweighs(a, w, t)
  /\ \A a \in 0..100, t \in Nat : t # 0 => Outweighs(a, t, t)
  /\ \A a \in 0..100, t \in Nat : Outweighs(a, 0, t) => a = 0
<1>1. \A a \in 0..100, t \in Nat : a * t \in Nat /\ a * t <= 100 * t BY Z3
<1>2. \A a \in 0..100, t \in Nat \ {0} : a * t <= 0 => a = 0 BY Z3
<1>3. ASSUME NEW a \in 0..100, NEW v \in Nat, NEW w \in Nat, NEW t \in Nat, v <= w, Outweighs(a, v, t)
      PROVE  Outweighs(a, w, t)
  <2> DEFINE x == a * t
  <2>1. x \in Nat BY <1>1
  <2>2. t # 0 => 100 * v >= x BY <1>3 DEF Outweighs
  <2> HIDE DEF x
  <2>3. t # 0 => 100 * w >= x BY <1>3, <2>1, <2>2
  <2> QED BY <1>3, <2>3 DEF Outweighs, x
<1>4. ASSUME NEW a \in 0..100, NEW t \in Nat, t # 0 PROVE Outweighs(a, t, t)
  <2> DEFINE x == a * t
  <2>1. x \in Nat /\ x <= 100 * t BY <1>1
  <2> HIDE DEF x
  <2>2. 100 * t >= x BY <2>1
  <2> QED BY <1>4, <2>2 DEF Outweighs, x
<1>5. ASSUME NEW a \in 0..100, NEW t \in Nat, Outweighs(a, 0, t) PROVE a = 0
  <2>1. CASE t = 0
    BY <1>5, <2>1 DEF Outweighs
  <2>2. CASE t # 0
    <3> DEFINE x == a * t
    <3>1. x \in Nat /\ 100 * 0 >= x BY <1>1, <1>5, <2>2 DEF Outweighs
    <3>2. x <= 0 BY <3>1
    <3> QED BY <1>2, <2>2, <3>2
  <2> QED BY <2>1, <2>2
<1> QED BY <1>3, <1>4, <1>5

LEMMA WeightedIsMonotone ==
  VerdictOfPolicy /\ ~Counts(request) => PolicyIsMonotone
<1> SUFFICES ASSUME VerdictOfPolicy, ~Counts(request), outcome # Unset, outcome.exit # 1
             PROVE
    LET all == DOMAIN receipts
        failed == {i \in all : receipts[i].bad}
    IN /\ outcome.exit = 0 => \A S \in SUBSET failed : Accepts(request, Repaired(receipts, S))
       /\ failed = {} /\ outcome.exit = 2 =>
            \/ request.policy = "fail_if_n_of_m" /\ Len(receipts) < request.m
            \/ request.policy = "weighted" /\ WeightOf(request, receipts, all) = 0
       /\ failed = all /\ outcome.exit = 0 =>
            request.quorum = 0 \/ (request.policy = "fail_if_n_of_m" /\ request.n > Len(receipts))
  BY DEF PolicyIsMonotone
<1> DEFINE failed == {i \in DOMAIN receipts : receipts[i].bad}
           all == DOMAIN receipts
           required == OrElse(request.quorum, 50)
           total == WeightOf(request, receipts, all)
           won == WeightOf(request, receipts, Passed(receipts))
<1>1. /\ request \in Requests /\ Valid(request) /\ receipts \in Seq(RunReceipt)
      /\ request.policy = "weighted"
      /\ outcome.exit = 0 => Accepts(request, receipts)
      /\ outcome.exit = 2 => ~Accepts(request, receipts)
  BY DEF VerdictOfPolicy, Counts
<1>2. required \in 0..100 /\ (required = 0 => request.quorum = 0)
  BY <1>1, OptionFacts
<1>3. Accepts(request, receipts) <=> Outweighs(required, won, total)
  BY <1>1, AcceptsWeights
<1>4. won \in Nat /\ total \in Nat
  <2>1. Passed(receipts) \subseteq all BY DEF Passed
  <2> QED BY <1>1, <2>1, WeightGrows
<1>5. ASSUME outcome.exit = 0, NEW S \in SUBSET failed
      PROVE  Accepts(request, Repaired(receipts, S))
  <2> DEFINE new == Repaired(receipts, S)
             more == WeightOf(request, receipts, Passed(new))
  <2>1. S \in SUBSET all /\ all = DOMAIN new BY DEF Repaired
  <2>2. Passed(receipts) \subseteq Passed(new)
    <3>1. \A i \in all : i \notin S => new[i] = receipts[i] BY DEF Repaired
    <3> QED BY <2>1, <3>1 DEF Passed
  <2>3. more \in Nat /\ won <= more
    BY <1>1, <2>2, WeightGrows
  <2>4. /\ WeightOf(request, new, Passed(new)) = more
        /\ WeightOf(request, new, DOMAIN new) = total
    BY <1>1, <2>1, WeightKept
  <2> HIDE DEF more, won, total, required, new
  <2>5. Outweighs(required, more, total)
    BY <1>1, <1>2, <1>3, <1>4, <1>5, <2>3, OutweighFacts
  <2>6. Accepts(request, new)
    BY <1>1, <2>4, <2>5, AcceptsWeights DEF required
  <2> QED BY <2>6 DEF new
<1>6. ASSUME failed = {}, outcome.exit = 2 PROVE total = 0
  <2>1. Passed(receipts) = all BY <1>6 DEF Passed
  <2>2. won = total BY <2>1
  <2> HIDE DEF won, total, required
  <2> QED BY <1>1, <1>2, <1>3, <1>4, <1>6, <2>2, OutweighFacts
<1>7. ASSUME failed = all, outcome.exit = 0 PROVE request.quorum = 0
  <2>1. Passed(receipts) = {} BY <1>7 DEF Passed
  <2>2. won = 0 BY <1>1, <2>1, WeightGrows
  <2> HIDE DEF won, total, required
  <2>3. required = 0 BY <1>1, <1>2, <1>3, <1>4, <1>7, <2>2, OutweighFacts
  <2> QED BY <1>2, <2>3
<1> QED BY <1>1, <1>5, <1>6, <1>7

\* Under every policy, for every fleet, all options and all weights: no runner
\* is punished for passing, and a unanimous fleet is refused or accepted
\* against its votes only as the options ask (evaluate_policy).
THEOREM PoliciesMonotone == AggregateSpec => []PolicyIsMonotone
<1>1. AggregateInit => VerdictOfPolicy
  BY FleetsAssumption DEF AggregateInit, VerdictOfPolicy
<1>2. VerdictOfPolicy => PolicyIsMonotone
  BY CountingIsMonotone, WeightedIsMonotone
<1> QED BY <1>1, <1>2, VerdictInd, PTL DEF AggregateSpec

=============================================================================
