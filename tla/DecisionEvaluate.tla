-------------------------- MODULE DecisionEvaluate --------------------------
(***************************************************************************)
(* `perfgate decision evaluate` and `decision bundle`: the command reads   *)
(* the evidence of the configured scenarios, and writes its results one    *)
(* file after the other, each replaced as a whole (atomic_write); a write  *)
(* may fail or the process be killed between two of them.  The command is  *)
(* run again, on new evidence, over what an earlier run left.              *)
(*                                                                         *)
(* Files carry the run that wrote them (`gen`, a ghost).  None: no file.   *)
(* Compare receipts, and probe comparisons that another command writes,    *)
(* are not this command's: they are whatever the benchmarks left last.     *)
(***************************************************************************)
EXTENDS Evidence

CONSTANTS Scenarios,       \* configured scenarios, a sequence of [weight, probes]
          Configs,         \* [rules, policy, defaults] a project may have
          Evidences,       \* [compares, base, cur, probed]: what the benchmarks left behind
          MaxRuns

(* What ConfigFile::validate lets through.  A scenario has probe inputs    *)
(* and a probe_compare file for their comparison, a probe_compare file     *)
(* alone, or no probes.                                                    *)
Scenario == [weight : Nat \ {0}, probes : {"inputs", "compare", "none"}]
Requirement == [metric : STRING, probe : STRING, min : Nat \ {0}]
Allowance == [metric : STRING, probe : STRING \ {""}, max : Nat]
TradeoffRule == [if_failed : STRING, require : (SUBSET Requirement) \ {{}},
                 allow : SUBSET Allowance, downgrade_to : {"warn", "pass"}]
Policy == [low_noise : BOOLEAN, max_cv : Nat, missing : STRING]

ASSUME RunsAssumption == MaxRuns \in Nat \ {0}
ASSUME ExitAssumption == None \notin Int
ASSUME ScenariosAssumption == Scenarios \in Seq(Scenario)
ASSUME ConfigsAssumption ==
    Configs \subseteq [rules : Seq(TradeoffRule), policy : Policy,
                      defaults : [threshold : Int, warn : Int]]

Names == DOMAIN Scenarios

(* Receipts hold measurements: of every scenario one of its benchmark,     *)
(* two probe receipts, and whether another command compared them already.  *)
ProbeReceipt(r) ==
    /\ r \in Seq(Range(r))
    /\ \A o \in Range(r) : \A m \in DOMAIN o.metrics : o.metrics[m] \in Nat

ASSUME EvidencesAssumption ==
    \A e \in Evidences, s \in Names :
       /\ \A m \in DOMAIN e.compares[s] :
            e.compares[s][m] \in [baseline : Nat, current : Nat, cv : Int]
       /\ ProbeReceipt(e.base[s]) /\ ProbeReceipt(e.cur[s])
       /\ e.probed[s] \in BOOLEAN

VARIABLES config, evidence,
          files,      \* artifact -> None or [gen, ...]
          stage,      \* "idle", then the next step of the command
          gen,        \* runs started
          receipt,    \* the receipt in memory: scenario, then tradeoff
          exit,       \* exit code of the last run, None if it was killed
          bundle,     \* the bundle: what each of the indexed artifacts held
          remeasured  \* ghost: the benchmarks ran since the last run began

evaluateVars == <<config, evidence, files, stage, gen, receipt, exit, bundle, remeasured>>

File(name) == <<name, 0>>
ProbeFile(s) == <<"probe-compare.json", s>>
Written == {File(n) : n \in {"scenario.json", "tradeoff.json", "decision.md", "decision.index.json"}}
Artifacts == Written \cup {ProbeFile(s) : s \in Names}

(* The scenarios whose probes this command compares, and all that name a   *)
(* probe_compare file.                                                     *)
Compared == {s \in Names : Scenarios[s].probes = "inputs"}
Referenced == {s \in Names : Scenarios[s].probes # "none"}

(* What `perfgate probe compare` makes of a scenario's probe receipts.     *)
ProbeResult(s) == CompareProbes(evidence.base[s], evidence.cur[s])

(* Whether there is a file at a scenario's probe_compare path, and what it *)
(* holds.                                                                  *)
ProbeExists(s) == IF s \in Compared THEN files[ProbeFile(s)] # None ELSE evidence.probed[s]
ProbeCompare(s) == IF s \in Compared THEN files[ProbeFile(s)].content ELSE ProbeResult(s)

EvaluateInit ==
    /\ config \in Configs /\ evidence \in Evidences
    /\ files = [a \in Artifacts |-> None]
    /\ stage = "idle" /\ gen = 0 /\ receipt = None /\ exit = None /\ bundle = None
    /\ remeasured = FALSE

(* The benchmarks ran again.                                               *)
NewEvidence ==
    /\ stage = "idle" /\ gen < MaxRuns
    /\ evidence' \in Evidences /\ remeasured' = TRUE
    /\ UNCHANGED <<config, files, stage, gen, receipt, exit, bundle>>

Start ==
    /\ stage = "idle" /\ gen < MaxRuns
    /\ gen' = gen + 1 /\ stage' = "probes" /\ receipt' = None /\ exit' = None
    /\ remeasured' = FALSE
    /\ UNCHANGED <<config, evidence, files, bundle>>

Stop(code) == stage' = "idle" /\ exit' = code

(* An error, or the process is killed.  Nothing is undone.                 *)
Fails ==
    /\ stage # "idle"
    /\ \E code \in {1, None} : Stop(code)
    /\ UNCHANGED <<config, evidence, files, gen, receipt, bundle, remeasured>>

Put(a, content) == files' = [files EXCEPT ![a] = [gen |-> gen, content |-> content]]

(* run_configured_probe_compares: one scenario after the other; one that   *)
(* has no probe inputs is skipped, and an unreadable or empty receipt is   *)
(* an error.                                                               *)
CompareConfiguredProbes ==
    LET due == {s \in Compared : files[ProbeFile(s)] = None \/ files[ProbeFile(s)].gen # gen}
    IN
    /\ stage = "probes"
    /\ IF due = {} THEN stage' = "scenario" /\ UNCHANGED <<files, exit>>
       ELSE LET s == Min(due) IN
            IF evidence.base[s] # <<>> /\ evidence.cur[s] # <<>>
            THEN /\ Put(ProbeFile(s), ProbeResult(s))
                 /\ UNCHANGED <<stage, exit>>
            ELSE Stop(1) /\ UNCHANGED files
    /\ UNCHANGED <<config, evidence, gen, receipt, bundle, remeasured>>

Inputs == [s \in Names |-> [weight |-> Scenarios[s].weight, deltas |-> evidence.compares[s]]]

(* evaluate_configured_scenarios and the write of its receipt; it names    *)
(* the compare receipts and the configured probe comparisons, whether they *)
(* exist or not.                                                           *)
EvaluateScenarios ==
    /\ stage = "scenario"
    /\ IF Evaluable(Inputs)
       THEN LET r == [deltas |-> WeightedDeltas(Inputs, config.defaults),
                      probes |-> Referenced, compares |-> Names]
            IN /\ receipt' = r
               /\ Put(File("scenario.json"), r)
               /\ stage' = "tradeoff" /\ UNCHANGED exit
       ELSE Stop(1) /\ UNCHANGED <<files, receipt>>
    /\ UNCHANGED <<config, evidence, gen, bundle, remeasured>>

(* load_tradeoff_probe_compares: the files the scenario's components name, *)
(* those of them that exist.                                               *)
LoadedProbes ==
    [s \in {s \in files[File("scenario.json")].content.probes : ProbeExists(s)} |->
       ProbeCompare(s)]

(* evaluate_configured_tradeoffs and the write of its receipt.             *)
EvaluateTradeoffs ==
    LET t == Decide(config.rules, receipt.deltas, ProbeIndex(LoadedProbes), config.policy) IN
    /\ stage = "tradeoff"
    /\ IF config.rules # <<>>
       THEN receipt' = t /\ Put(File("tradeoff.json"), t) /\ stage' = "markdown" /\ UNCHANGED exit
       ELSE Stop(1) /\ UNCHANGED <<files, receipt>>
    /\ UNCHANGED <<config, evidence, gen, bundle, remeasured>>

(* A report that is already there is kept.                                 *)
WriteDecision_Keep ==
    /\ stage = "markdown"
    /\ IF files[File("decision.md")] = None
       THEN Put(File("decision.md"), [verdict |-> receipt.verdict])
       ELSE UNCHANGED files
    /\ stage' = "index"
    /\ UNCHANGED <<config, evidence, gen, receipt, exit, bundle, remeasured>>

WriteDecision ==
    /\ stage = "markdown"
    /\ Put(File("decision.md"), [verdict |-> receipt.verdict])
    /\ stage' = "index"
    /\ UNCHANGED <<config, evidence, gen, receipt, exit, bundle, remeasured>>

WriteIndex ==
    LET scenario == files[File("scenario.json")].content IN
    /\ stage = "index"
    /\ Put(File("decision.index.json"), [probes |-> scenario.probes, compares |-> scenario.compares])
    /\ stage' = "exit"
    /\ UNCHANGED <<config, evidence, gen, receipt, exit, bundle, remeasured>>

ExitCode(verdict) == IF verdict = "fail" THEN 2 ELSE 0

Exit ==
    /\ stage = "exit"
    /\ Stop(ExitCode(receipt.verdict))
    /\ UNCHANGED <<config, evidence, files, gen, receipt, bundle, remeasured>>

(* execute_decision_bundle: whatever the paths in the index hold now, the  *)
(* compare receipts as the benchmarks left them last; one that is missing  *)
(* is an error and leaves the bundle as it was.                            *)
Bundle ==
    /\ stage = "idle" /\ files[File("decision.index.json")] # None
    /\ LET index == files[File("decision.index.json")].content IN
       /\ \A a \in Written : files[a] # None
       /\ \A s \in index.probes : ProbeExists(s)
       /\ bundle' = [written |-> [a \in Written |-> files[a].content],
                     probes |-> [s \in index.probes |-> ProbeCompare(s)],
                     compares |-> [s \in index.compares |-> evidence.compares[s]]]
    /\ UNCHANGED <<config, evidence, files, stage, gen, receipt, exit, remeasured>>

Done == stage = "idle" /\ gen = MaxRuns /\ UNCHANGED evaluateVars

EvaluateNext ==
    \/ NewEvidence \/ Start \/ Fails \/ CompareConfiguredProbes \/ EvaluateScenarios
    \/ EvaluateTradeoffs \/ WriteDecision \/ WriteIndex \/ Exit \/ Bundle \/ Done

EvaluateSpec == EvaluateInit /\ [][EvaluateNext]_evaluateVars
-----------------------------------------------------------------------------
(* The scenarios whose probes were compared, by whatever command.          *)
Probed == Compared \cup {s \in Referenced : evidence.probed[s]}

(* The evidence as it was measured, before any receipt was built from it:  *)
(* of every scenario or, for a probe, of the last one that names it.       *)
Measured(e) ==
    LET naming == {s \in Probed : e.probe \in DOMAIN ProbeResult(s)}
        maps == IF e.probe = "" THEN {evidence.compares[s] : s \in Names}
                ELSE {ProbeResult(s)[e.probe].deltas : s \in {s \in naming : s = Max(naming)}}
    IN {d[e.metric] : d \in {d \in maps : e.metric \in DOMAIN d}}

(* A rate that was nothing and is something is better, although its ratio  *)
(* counts as 0.                                                            *)
Better(r) ==
    {d \in Measured(r) : \/ Improved(r.metric, d, r.min)
                         \/ r.metric \in HigherIsBetter /\ d.baseline = 0 /\ d.current > 0}

(* Half as much again is over a cap of 50 percent; something, where there  *)
(* was nothing, is over every cap below 100.                               *)
OverCap(a) ==
    \E d \in Measured(a) :
       LET loss == IF a.metric \in HigherIsBetter THEN d.baseline - d.current
                   ELSE d.current - d.baseline
       IN IF d.baseline = 0 THEN loss > 0 /\ a.max < 100 ELSE 100 * loss > a.max * d.baseline

JustDecided == stage = "markdown"

(* A failure of the scenario that the tradeoff receipt no longer counts as *)
(* one is paid for by what was measured: some rule for that metric has     *)
(* requirements, each of them met by a component, and no cap of it is      *)
(* exceeded; what nobody measured is not taken for granted but makes the   *)
(* decision one to review, with a warning.  Accepted, the metric has the   *)
(* status the rule names.                                                  *)
FailuresArePaidFor ==
    JustDecided =>
      \A m \in DOMAIN receipt.deltas :
        LET before == files[File("scenario.json")].content.deltas[m].status
            after == receipt.deltas[m].status
            review == after = "warn" /\ receipt.review_required
        IN after # before =>
             /\ before = "fail"
             /\ \E i \in DOMAIN config.rules :
                  LET rule == config.rules[i] IN
                  /\ rule.if_failed = m
                  /\ \A r \in rule.require :
                       Better(r) # {} \/ (review /\ r.probe # "" /\ Measured(r) = {})
                  /\ \A a \in rule.allow : ~OverCap(a) /\ (Measured(a) # {} \/ review)
                  /\ after = rule.downgrade_to \/ review

(* Which metrics fail, whether a tradeoff was accepted and whether a       *)
(* review is required do not depend on the order of the rules in the file, *)
(* although each accepted rule changes what the next ones see.             *)
RuleOrderIrrelevant ==
    JustDecided =>
      \A other \in SetToSeqs(Range(config.rules)) :
        LET index == ProbeIndex(LoadedProbes)
            d == Decide(other, files[File("scenario.json")].content.deltas, index, config.policy)
        IN /\ {m \in DOMAIN d.deltas : d.deltas[m].status = "fail"}
                = {m \in DOMAIN receipt.deltas : receipt.deltas[m].status = "fail"}
           /\ d.accepted = receipt.accepted
           /\ d.review_required = receipt.review_required

(* The receipts in a bundle follow from the measurements in it: scenario   *)
(* from its compare receipts, tradeoff from scenario and probe             *)
(* comparisons, report from tradeoff.                                      *)
Explained(b) ==
    LET scenario == b.written[File("scenario.json")]
        tradeoff == b.written[File("tradeoff.json")]
        inputs == [s \in Names |-> [weight |-> Scenarios[s].weight, deltas |-> b.compares[s]]]
    IN /\ scenario.deltas = WeightedDeltas(inputs, config.defaults)
       /\ tradeoff = Decide(config.rules, scenario.deltas, ProbeIndex(b.probes), config.policy)
       /\ b.written[File("decision.md")].verdict = tradeoff.verdict

(* b is at least as new as a.                                              *)
NoOlder(b, a) == files[b].gen >= files[a].gen

(* What a bundle holds together.  It may mix runs after one that failed or *)
(* was killed, but then nothing in it is older than what was made from it. *)
(* After a run that ended by itself all the command wrote is of that run,  *)
(* and its exit code is 2 exactly when the tradeoff receipt fails; and     *)
(* unless the benchmarks ran again since, whose new receipts the bundle    *)
(* would take, it explains itself.                                         *)
BundleHoldsTogether ==
    [][Bundle =>
         LET compared == {ProbeFile(s) : s \in DOMAIN bundle'.probes \cap Compared}
             all == Written \cup compared
             finished == exit \in {0, 2}
         IN /\ \A a \in compared : NoOlder(a, File("scenario.json"))
            /\ NoOlder(File("scenario.json"), File("tradeoff.json"))
            /\ NoOlder(File("tradeoff.json"), File("decision.md"))
            /\ NoOlder(File("decision.md"), File("decision.index.json"))
            /\ finished => /\ \A a \in all : files[a].gen = gen
                           /\ exit = 2 <=> bundle'.written[File("tradeoff.json")].verdict = "fail"
            /\ finished /\ ~remeasured => Explained(bundle')]_evaluateVars

=============================================================================
