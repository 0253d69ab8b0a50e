------------------------------ MODULE Promotion ------------------------------
(***************************************************************************)
(* `perfgate promote --to F [--ratchet --compare C]`: a run becomes the    *)
(* baseline file, then, from an earlier comparison, the benchmark's        *)
(* threshold in perfgate.toml is tightened.  Each file is written on its   *)
(* own; a write may fail, the process may be killed, and the command is    *)
(* run again, with the same comparison or an older one.                    *)
(*                                                                         *)
(* One benchmark, one metric.  Thresholds, improvements and tightenings    *)
(* are percentages.                                                        *)
(***************************************************************************)
EXTENDS Integers, FiniteSets

CONSTANTS
  Configs,        \* what the project may write into perfgate.toml
  Changes,        \* what a comparison may find
  Flags,          \* --threshold of `perfgate compare`
  MaxCompares, MaxPromotions,
  None

RatchetConfig ==
  [enabled : BOOLEAN, min : Int, max : Int, significance : BOOLEAN, allowed : BOOLEAN]

\* How a threshold is written: as a float in a table of its own, as an integer
\* there, or in an inline table.
Threshold == [v : Int, form : {"float", "integer", "inline"}]

ConfigFile ==
  [default : Int, own : Threshold \cup {None}, listed : BOOLEAN, policy : RatchetConfig]

Statuses == {"pass", "warn", "fail", "skip"}

\* The metric's delta; others is what the verdict would be without it.
Delta == [pct : Int, direction : {"lower", "higher"}, others : Statuses, noisy : BOOLEAN,
          significant : BOOLEAN]

CompareReceipt ==
  [threshold : Int, change : Delta, status : Statuses, run : Nat, verdict : Statuses]

ASSUME BoundsAssumption == MaxCompares \in Nat /\ MaxPromotions \in Nat
ASSUME InputsAssumption == Configs \subseteq ConfigFile /\ Changes \subseteq Delta /\ Flags \subseteq Int
ASSUME NoneAssumption == None \notin ConfigFile \cup Threshold \cup CompareReceipt

VARIABLES
  config,      \* [default, own, listed, policy], None: torn by a killed write
  compares,    \* compare receipts on disk
  baseline,    \* the run in the baseline file
  cmd,         \* the promotion that is running
  promotions,  \* how many were started
  wrote        \* thresholds the project wrote itself (read by properties only)

vars == <<config, compares, baseline, cmd, promotions, wrote>>

\* build_budgets: the benchmark's own threshold, else the default.
Effective(c) == IF c.own = None THEN c.default ELSE c.own.v

Idle == [step |-> "idle"]

Init ==
  /\ config \in Configs
  /\ compares = {} /\ baseline = 0 /\ cmd = Idle /\ promotions = 0
  /\ wrote = {Effective(config)}

\* The project edits or restores its config.
Edit ==
  /\ cmd = Idle
  /\ config' \in Configs
  /\ wrote' = wrote \cup {Effective(config')}
  /\ UNCHANGED <<compares, baseline, cmd, promotions>>
-----------------------------------------------------------------------------
(* Evidence: a change is [pct, direction, others, noisy, significant].     *)

Loss(e) == IF e.direction = "lower" THEN e.pct ELSE -e.pct

\* determine_status, with a warn factor of 0.9.
StatusAt(threshold, e) ==
  LET loss == IF Loss(e) > 0 THEN Loss(e) ELSE 0 IN
  IF loss > threshold THEN "fail" ELSE IF 10 * loss >= 9 * threshold THEN "warn" ELSE "pass"

\* `check` takes the threshold from the config, `compare` from its flags.  The
\* other metrics have their say in the verdict.
Compare ==
  /\ cmd = Idle /\ Cardinality(compares) < MaxCompares
  /\ \E e \in Changes :
     \E t \in Flags \cup (IF config = None THEN {} ELSE {Effective(config)}) :
       LET status == StatusAt(t, e) IN
       compares' = compares \cup
         {[threshold |-> t, change |-> e, status |-> status, run |-> Cardinality(compares) + 1,
           verdict |-> IF e.others = "pass" THEN status ELSE e.others]}
  /\ UNCHANGED <<config, baseline, cmd, promotions, wrote>>
-----------------------------------------------------------------------------
(* RatchetUseCase::preview. *)

\* is_host_mismatch_reason looks for "host_mismatch" among the verdict's
\* reasons; a comparison of different hosts only prints a warning.
HostMismatch(c) == FALSE

Improvement(c) == IF -Loss(c.change) > 0 THEN -Loss(c.change) ELSE 0

Eligible(c, policy) ==
  /\ policy.enabled /\ c.verdict = "pass" /\ ~HostMismatch(c)
  /\ policy.allowed
  /\ c.status = "pass"
  /\ ~c.change.noisy
  /\ policy.significance => c.change.significant
  /\ Improvement(c) >= policy.min

NewThreshold(c, policy) ==
  LET by == IF Improvement(c) < policy.max THEN Improvement(c) ELSE policy.max
  IN c.threshold - (c.threshold * by) \div 100

\* The changes planned: at most one value.
Plan(c, policy) ==
  {n \in {NewThreshold(c, policy)} : Eligible(c, policy) /\ n < c.threshold}

\* The ratchet finds a float of the metric's table; an inline table is replaced
\* by an empty one before it looks.
Readable(own) == own # None /\ own.form = "float"

\* Mutant of Applied: the file's own threshold is not looked at.
Applied_Blindly(conf, c, plan) ==
  IF plan = {} \/ ~conf.listed THEN conf
  ELSE [conf EXCEPT !.own = [v |-> CHOOSE n \in plan : TRUE, form |-> "float"]]

\* Mutant of Applied: the file's threshold is tightened, not the receipt's.
Applied_Again(conf, c, plan) ==
  LET current == IF Readable(conf.own) THEN conf.own.v ELSE c.threshold
  IN IF plan = {} \/ ~conf.listed THEN conf
     ELSE [conf EXCEPT !.own =
             [v |-> current - (current * conf.policy.max) \div 100, form |-> "float"]]

\* apply_ratchet_toml_changes: the benchmark's table must be in the file; a
\* threshold that it does not find there counts as the receipt's.
Applied(conf, c, plan) ==
  LET current == IF Readable(conf.own) THEN conf.own.v ELSE c.threshold
      lower == {n \in plan : n < current}
  IN IF lower = {} \/ ~conf.listed THEN conf
     ELSE [conf EXCEPT !.own = [v |-> CHOOSE n \in lower : TRUE, form |-> "float"]]
-----------------------------------------------------------------------------
(* The command. *)

Promote ==
  /\ cmd = Idle /\ promotions < MaxPromotions
  /\ \E run \in {c.run : c \in compares}, ratchet \in BOOLEAN, c \in compares \cup {None} :
       /\ c # None => ratchet
       /\ cmd' = [step |-> "baseline", run |-> run, ratchet |-> ratchet, compare |-> c, plan |-> {}]
  /\ promotions' = promotions + 1
  /\ UNCHANGED <<config, compares, baseline, wrote>>

\* The baseline file is replaced before anything else is looked at.
WriteBaseline ==
  /\ cmd.step = "baseline"
  /\ baseline' = cmd.run
  /\ cmd' = IF cmd.ratchet THEN [cmd EXCEPT !.step = "ratchet"] ELSE Idle
  /\ UNCHANGED <<config, compares, promotions, wrote>>

\* No comparison given, or no readable config: an error, after the promotion.
RatchetRefused ==
  /\ cmd.step = "ratchet"
  /\ cmd.compare = None \/ config = None
  /\ cmd' = Idle
  /\ UNCHANGED <<config, compares, baseline, promotions, wrote>>

Ratchet ==
  /\ cmd.step = "ratchet"
  /\ cmd.compare # None /\ config # None
  /\ LET plan == Plan(cmd.compare, config.policy) IN
     /\ config' = Applied(config, cmd.compare, plan)
     /\ cmd' = [cmd EXCEPT !.step = "receipt", !.plan = plan]
  /\ UNCHANGED <<compares, baseline, promotions, wrote>>

\* fs::write truncates the config before it fills it.
KilledInWrite ==
  /\ cmd.step = "ratchet"
  /\ cmd.compare # None /\ config # None
  /\ Applied(config, cmd.compare, Plan(cmd.compare, config.policy)) # config
  /\ config' = None
  /\ cmd' = Idle
  /\ UNCHANGED <<compares, baseline, promotions, wrote>>

\* The ratchet receipt; the command succeeds.
WriteRatchetReceipt ==
  /\ cmd.step = "receipt"
  /\ cmd' = Idle
  /\ UNCHANGED <<config, compares, baseline, promotions, wrote>>

\* A write fails or the process is killed: nothing is undone.
Fails ==
  /\ cmd # Idle
  /\ cmd' = Idle
  /\ UNCHANGED <<config, compares, baseline, promotions, wrote>>

Next ==
  \/ Edit \/ Compare \/ Promote \/ WriteBaseline \/ RatchetRefused \/ Ratchet
  \/ KilledInWrite \/ WriteRatchetReceipt \/ Fails

Spec == Init /\ [][Next]_vars
-----------------------------------------------------------------------------
\* A promotion that changes the threshold lowers it, with two conditions for
\* the one way in which the code does loosen: it did not find the project's
\* threshold (the default applies, it is an integer, or in an inline table), and
\* the comparison was made with a higher one than the project has.  A float in
\* a table is never raised, and a comparison under the project's own threshold,
\* or under a lower one, never loosens, however old it is.
LoosensOnlyUnread ==
  [][ (cmd.step = "ratchet" /\ config' # config /\ config' # None) =>
        \/ Effective(config') < Effective(config)
        \/ ~Readable(config.own) /\ cmd.compare.threshold > Effective(config) ]_vars

\* Promoting again with the same comparison does not tighten again: every
\* threshold in the file is one the project wrote or at most one capped step
\* below the one that some passing comparison was made with.
TightenedOncePerReceipt ==
  (config # None /\ Effective(config) \notin wrote) =>
    \E c \in compares :
      /\ c.verdict = "pass"
      /\ Effective(config) < c.threshold
      /\ \E d \in Configs : 100 * Effective(config) >= c.threshold * (100 - d.policy.max)
=============================================================================
