-------------------------------- MODULE Check --------------------------------
(***************************************************************************)
(* `perfgate check` run again and again over the same output directory.    *)
(* Every invocation loads the config, runs and judges each benchmark,      *)
(* writes its receipts one file after another and turns the outcomes into  *)
(* an exit code (standard mode) or a sensor report (cockpit mode).  Any    *)
(* write may fail and the process may be killed between two writes.        *)
(*                                                                         *)
(* A file is abstracted to the invocation that wrote it and the verdict in *)
(* it.  Benchmarks are taken in any order.                                 *)
(***************************************************************************)
EXTENDS Verdict

CONSTANTS
  Benches,          \* benchmarks of the config file
  Deltas,           \* VerdictCounts a comparison may come to
  Gates,            \* what the complexity gate may say, None where there is none
  MaxInvocations,   \* bound on the number of invocations
  RequireBaseline,  \* --require-baseline
  Error, Absent, Torn

\* evaluate_complexity_gate, without its measurements: an incomplete series or
\* a poor fit is inconclusive, which counts as a warning; None without [scaling].
ComplexityGate == {None, "pass", "warn", "fail"}

ASSUME DeltasAssumption == Deltas \subseteq VerdictCounts /\ Gates \subseteq ComplexityGate
ASSUME BoundAssumption == MaxInvocations \in Nat /\ RequireBaseline \in BOOLEAN

Verdicts == [status : MetricStatus, counts : VerdictCounts]

\* CheckOutcome, its receipts reduced to the status of their verdicts; compare
\* is None without a baseline.
Outcome == [compare : MetricStatus \cup {None}, report : MetricStatus, code : {0, 2, 3}]

ASSUME NoneAssumption ==
  /\ None \notin Outcome \cup Verdicts \cup MetricStatus \cup {0, 1, 2, 3}
  /\ Error \notin Outcome \cup {None}

Receipts == {"run", "compare", "report"}
File == [inv : 1 .. MaxInvocations, verdict : MetricStatus \cup {None}]
Envelope == [inv : 1 .. MaxInvocations, status : MetricStatus,
             artifacts : SUBSET (Benches \X Receipts)]

ASSUME FileAssumption ==
  /\ {Absent, Torn} \cap (File \cup Envelope) = {}
  /\ Absent # Torn

VARIABLES
  mode,       \* --mode
  separate,   \* only the config file names the output directory
  fail_on_warn, \* --fail-on-warn (in cockpit mode nothing depends on it)
  inv,        \* the invocation, counted from 1
  pc,         \* where it is; "idle" when no process runs
  bench,      \* benchmark in hand
  outcome,    \* its CheckOutcome
  results,    \* outcome of each benchmark so far, Error, or None
  code,       \* max_exit_code
  exit,       \* exit status of the invocation, None while it runs or if killed
  plain,      \* bench -> run.json, compare.json, report.json, comment.md
  versioned,  \* bench -> perfgate.run.v1.json and so on
  envelope    \* report.json of the output and of the fallback directory

vars == <<mode, separate, fail_on_warn, inv, pc, bench, outcome, results, code, exit,
          plain, versioned, envelope>>
files == <<plain, versioned, envelope>>
options == <<mode, separate, fail_on_warn>>
process == <<inv, bench, outcome, results, code>>

Stages == {"idle", "config", "bench", "run", "compare", "report", "truncate", "comment",
           "rename_run", "rename_compare", "rename_report", "done", "combined", "error"}

TypeOK ==
  /\ mode \in {"standard", "cockpit"} /\ {separate, fail_on_warn} \subseteq BOOLEAN
  /\ inv \in 0 .. MaxInvocations
  /\ pc \in Stages
  /\ bench \in Benches \cup {None}
  /\ outcome \in Outcome \cup {None}
  /\ results \in [Benches -> Outcome \cup {None, Error}]
  /\ code \in {0, 2, 3} /\ exit \in {0, 1, 2, 3, None}
  /\ plain \in [Benches -> [Receipts \cup {"comment"} -> File \cup {Absent, Torn}]]
  /\ versioned \in [Benches -> [Receipts -> File \cup {Absent}]]
  /\ envelope \in [{"out", "fallback"} -> Envelope \cup {Absent}]

-----------------------------------------------------------------------------
(* CheckUseCase::execute. *)

\* build_report takes the verdict of the comparison over; without a baseline
\* the report is a warning.
BuildReport(compare) ==
  IF compare = None THEN [status |-> "warn", counts |-> Count(NoCounts, "warn")] ELSE compare

\* Mutant of GateCompare: only the report hears of the complexity gate.
GateCompare_Ignored(compare, gate) == compare

\* apply_complexity_gate counts the gate among the metrics (inconclusive as a
\* warning); a verdict it touches is never a skip.
Gated(v, gate) ==
  IF gate = None THEN v
  ELSE LET counts == Count(v.counts, gate) IN
    [counts |-> counts,
     status |-> IF counts["fail"] > 0 THEN "fail" ELSE IF counts["warn"] > 0 THEN "warn" ELSE "pass"]

GateCompare(compare, gate) == IF compare = None THEN None ELSE Gated(compare, gate)

ExitCode(compare) ==
  IF compare = "fail" THEN 2
  ELSE IF compare = "warn" /\ fail_on_warn THEN 3
  ELSE 0

\* counts is None when there is no baseline, gate when there is no scaling
\* section.  The failed flag of the run (a command that exited nonzero) is
\* dropped: execute keeps the run's receipt only.
Judge(counts, gate) ==
  LET compared == IF counts = None THEN None
                  ELSE [status |-> VerdictStatus(counts), counts |-> counts]
      compare  == GateCompare(compared, gate)
      status   == IF compare = None THEN None ELSE compare.status
  IN [compare |-> status, report |-> Gated(BuildReport(compared), gate).status,
      code |-> ExitCode(status)]

-----------------------------------------------------------------------------
(* run_check_standard, run_check_cockpit, run_check_cockpit_inner. *)

Start ==
  /\ pc = "idle" /\ inv < MaxInvocations
  /\ pc' = "config"
  /\ inv' = inv + 1 
  /\ results' = [b \in Benches |-> None]
  /\ code' = 0 /\ exit' = None
  /\ UNCHANGED <<options, bench, outcome, files>>

Exit(status) ==
  /\ pc' = "idle" /\ exit' = status

\* The config is missing or invalid, a template unreadable: a cockpit run
\* still tries to leave an error report.
ConfigFails ==
  /\ pc = "config"
  /\ \/ mode = "standard" /\ Exit(1)
     \/ mode = "cockpit" /\ pc' = "error" /\ UNCHANGED exit
  /\ UNCHANGED <<options, process, files>>

\* A cockpit run cannot even create its directory.
SetupFails ==
  /\ pc = "config" /\ mode = "cockpit"
  /\ Exit(1)
  /\ UNCHANGED <<options, process, files>>

ConfigLoads ==
  /\ pc = "config"
  /\ pc' = "bench"
  /\ UNCHANGED <<options, process, exit, files>>

Todo == {b \in Benches : results[b] = None}

\* An error ends a standard run; a cockpit run records it and goes on.
BenchError(b) ==
  /\ results' = [results EXCEPT ![b] = Error]
  /\ bench' = None /\ outcome' = None
  /\ \/ mode = "standard" /\ Exit(1)
     \/ mode = "cockpit" /\ pc' = "bench" /\ UNCHANGED exit

\* Before anything is written: no directory, an unreadable or required
\* baseline, a command that cannot be run, a host mismatch.
CheckFails(b) ==
  /\ pc = "bench" /\ b \in Todo
  /\ BenchError(b)
  /\ UNCHANGED <<options, inv, code, files>>

CheckSucceeds(b, counts, gate) ==
  /\ pc = "bench" /\ b \in Todo
  /\ counts = None => ~RequireBaseline
  /\ pc' = "run"
  /\ bench' = b
  /\ outcome' = Judge(counts, gate)
  /\ UNCHANGED <<options, inv, results, code, exit, files>>

-----------------------------------------------------------------------------
(* write_check_artifacts: JSON files are replaced by a rename, the comment *)
(* is written in place.                                                    *)

Put(name, file) == plain' = [plain EXCEPT ![bench][name] = file]

Written(verdict) == [inv |-> inv, verdict |-> verdict]

WriteRun ==
  /\ pc = "run" /\ pc' = "compare"
  /\ Put("run", Written(None))
  /\ UNCHANGED <<options, process, exit, versioned, envelope>>

\* Mutant of WriteCompare: an old compare.json stays when there is no baseline.
WriteCompare_KeepsStale ==
  /\ pc = "compare" /\ pc' = "report"
  /\ IF outcome.compare = None THEN UNCHANGED plain
     ELSE Put("compare", Written(outcome.compare))
  /\ UNCHANGED <<options, process, exit, versioned, envelope>>

WriteCompare ==
  /\ pc = "compare" /\ pc' = "report"
  /\ Put("compare", IF outcome.compare = None THEN Absent ELSE Written(outcome.compare))
  /\ UNCHANGED <<options, process, exit, versioned, envelope>>

WriteReport ==
  /\ pc = "report" /\ pc' = "truncate"
  /\ Put("report", Written(outcome.report))
  /\ UNCHANGED <<options, process, exit, versioned, envelope>>

TruncateComment ==
  /\ pc = "truncate" /\ pc' = "comment"
  /\ Put("comment", Torn)
  /\ UNCHANGED <<options, process, exit, versioned, envelope>>

\* The rest of the comment; where there is a comparison it is then rendered
\* again and replaced.
WriteComment ==
  /\ pc = "comment" /\ pc' = IF mode = "cockpit" THEN "rename_run" ELSE "done"
  /\ Put("comment", Written(None))
  /\ UNCHANGED <<options, process, exit, versioned, envelope>>

\* rename_extras_to_versioned: run, compare, report, each if it exists.
RenameStage == [run |-> "rename_run", compare |-> "rename_compare", report |-> "rename_report"]
AfterRename == [run |-> "rename_compare", compare |-> "rename_report", report |-> "done"]

\* Mutant of Rename: the report is renamed first and the run last.
Rename_ReportFirst(name) ==
  /\ pc = RenameStage[name] /\ pc' = AfterRename[name]
  /\ LET from == IF name = "run" THEN "report" ELSE IF name = "report" THEN "run" ELSE name IN
       /\ plain[bench][from] # Absent
       /\ Put(from, Absent)
       /\ versioned' = [versioned EXCEPT ![bench][from] = plain[bench][from]]
  /\ UNCHANGED <<options, process, exit, envelope>>

Rename(name) ==
  /\ pc = RenameStage[name] /\ pc' = AfterRename[name]
  /\ \/ /\ plain[bench][name] # Absent
        /\ Put(name, Absent)
        /\ versioned' = [versioned EXCEPT ![bench][name] = plain[bench][name]]
     \/ plain[bench][name] = Absent /\ UNCHANGED <<plain, versioned>>
  /\ UNCHANGED <<options, process, exit, envelope>>

\* Any of the steps above may fail instead, and leaves its file as it was.
WriteFails ==
  /\ pc \in Stages \ {"idle", "config", "bench", "done", "combined", "error"}
  /\ BenchError(bench)
  /\ UNCHANGED <<options, inv, code, files>>

-----------------------------------------------------------------------------
(* The end of a benchmark and of an invocation. *)

\* Mutant of UpdateMaxExitCode: the larger number wins.
UpdateMaxExitCode_Largest(max, c) == IF c > max THEN c ELSE max

UpdateMaxExitCode(max, c) ==
  IF c = 2 THEN 2 ELSE IF c = 3 /\ max # 2 THEN 3 ELSE max

BenchDone ==
  /\ pc = "done" /\ pc' = "bench"
  /\ results' = [results EXCEPT ![bench] = outcome]
  /\ bench' = None /\ outcome' = None
  /\ code' = UpdateMaxExitCode(code, outcome.code)
  /\ UNCHANGED <<options, inv, exit, files>>

\* --output-github may fail, which is a tool error.
FinishStandard ==
  /\ pc = "bench" /\ Todo = {} /\ mode = "standard"
  /\ \E status \in {code, 1} : Exit(status)
  /\ UNCHANGED <<options, process, files>>

\* Mutant of Worst: a benchmark that could not be checked does not count.
Worst_IgnoresErrors(rs) ==
  LET statuses == {r.report : r \in rs \ {Error}} IN
    IF "fail" \in statuses THEN "fail"
    ELSE IF "warn" \in statuses THEN "warn"
    ELSE IF "pass" \in statuses THEN "pass"
    ELSE "skip"

Worst(rs) ==
  LET statuses == {r.report : r \in rs \ {Error}} IN
    IF Error \in rs \/ "fail" \in statuses THEN "fail"
    ELSE IF "warn" \in statuses THEN "warn"
    ELSE IF "pass" \in statuses THEN "pass"
    ELSE "skip"

\* The artifacts the sensor report names.
Artifacts ==
  {a \in Benches \X Receipts :
     /\ results[a[1]] # Error
     /\ a[2] = "compare" => results[a[1]].compare # None}

WriteEnvelope ==
  /\ pc = "bench" /\ Todo = {} /\ mode = "cockpit"
  /\ pc' = "combined"
  /\ envelope' = [envelope EXCEPT !["out"] =
       [inv |-> inv, status |-> Worst({results[b] : b \in Benches}), artifacts |-> Artifacts]]
  /\ UNCHANGED <<options, process, exit, plain, versioned>>

\* The combined comment.md, then the GitHub outputs, whose failure is ignored.
WriteCombined ==
  /\ pc = "combined"
  /\ Exit(0)
  /\ UNCHANGED <<options, process, files>>

CockpitFails ==
  /\ \/ pc = "bench" /\ Todo = {} /\ mode = "cockpit"
     \/ pc = "combined"
  /\ pc' = "error"
  /\ UNCHANGED <<options, process, exit, files>>

\* Without --out-dir an error report does not go where the config file says.
FallbackDir == IF separate THEN "fallback" ELSE "out"

WriteErrorReport ==
  /\ pc = "error"
  /\ \/ /\ envelope' = [envelope EXCEPT ![FallbackDir] =
                          [inv |-> inv, status |-> "fail", artifacts |-> {}]]
        /\ \E status \in {0, 1} : Exit(status)
     \/ Exit(1) /\ UNCHANGED envelope
  /\ UNCHANGED <<options, process, plain, versioned>>

\* The process is killed, and what it had in memory is gone.
Kill ==
  /\ pc # "idle"
  /\ pc' = "idle"
  /\ bench' = None /\ outcome' = None
  /\ results' = [b \in Benches |-> None] /\ code' = 0
  /\ UNCHANGED <<options, inv, exit, files>>

-----------------------------------------------------------------------------

Init ==
  /\ mode \in {"standard", "cockpit"}
  /\ separate \in BOOLEAN /\ (separate => mode = "cockpit")
  /\ fail_on_warn \in BOOLEAN /\ (fail_on_warn => mode = "standard")
  /\ inv = 0
  /\ pc = "idle" /\ bench = None /\ outcome = None
  /\ results = [b \in Benches |-> None]
  /\ code = 0 /\ exit = None
  /\ plain = [b \in Benches |-> [n \in Receipts \cup {"comment"} |-> Absent]]
  /\ versioned = [b \in Benches |-> [n \in Receipts |-> Absent]]
  /\ envelope = [d \in {"out", "fallback"} |-> Absent]

Next ==
  \/ Start \/ ConfigFails \/ SetupFails \/ ConfigLoads
  \/ \E b \in Benches :
       \/ CheckFails(b)
       \/ \E counts \in Deltas \cup {None}, gate \in Gates :
             CheckSucceeds(b, counts, gate)
  \/ WriteRun \/ WriteCompare \/ WriteReport \/ TruncateComment \/ WriteComment
  \/ \E name \in Receipts : Rename(name)
  \/ WriteFails \/ BenchDone
  \/ FinishStandard \/ WriteEnvelope \/ WriteCombined \/ CockpitFails \/ WriteErrorReport
  \/ Kill

Spec == Init /\ [][Next]_vars

-----------------------------------------------------------------------------
(* Properties. *)

Current(file) == file \notin {Absent, Torn} /\ file.inv = inv

\* A standard run that ends in a verdict leaves the four artifacts of this
\* very invocation for every benchmark, whatever earlier invocations that
\* failed or were killed left behind; compare.json is there exactly when there
\* was a baseline (write_check_artifacts: "Ensure compare.json is absent when
\* no baseline is available").
ArtifactsAreCurrent ==
  mode = "standard" /\ exit \in {0, 2, 3} =>
    \A b \in Benches :
      /\ Current(plain[b]["run"]) /\ Current(plain[b]["report"]) /\ Current(plain[b]["comment"])
      /\ IF results[b].compare = None THEN plain[b]["compare"] = Absent
         ELSE Current(plain[b]["compare"])

\* A cockpit run that exits 0 has left a sensor report, and it is a failure if
\* any benchmark failed or could not be checked.
CockpitReports ==
  mode = "cockpit" /\ exit = 0 =>
    \E d \in {"out", "fallback"} :
      /\ envelope[d] # Absent /\ envelope[d].inv = inv
      /\ (\E b \in Benches : \/ results[b] = Error
                             \/ results[b] \in Outcome /\ results[b].report = "fail")
           => envelope[d].status = "fail"

\* Receipts of one invocation agree on the verdict at every moment, between
\* two writes too (docs/REQUIREMENTS.md: "Report verdict MUST match compare
\* verdict"; apply_complexity_gate changes both).
ReceiptsAgree ==
  \A b \in Benches :
    LET both == <<{plain[b]["compare"], versioned[b]["compare"]} \ {Absent},
                  {plain[b]["report"], versioned[b]["report"]} \ {Absent}>> IN
      \A c \in both[1], r \in both[2] : c.inv = r.inv => c.verdict = r.verdict

\* No receipt is ever newer than the run receipt it was derived from, in the
\* directory a consumer reads: run.json is written first and renamed first.
RunIsNewest ==
  \A b \in Benches :
    LET d == IF mode = "standard" THEN plain[b] ELSE versioned[b] IN
      \A n \in {"compare", "report"} :
        d[n] # Absent => d["run"] # Absent /\ d["run"].inv >= d[n].inv

\* A standard run exits 2 exactly when a comparison failed, and 3 exactly when
\* none did but one warned under --fail-on-warn (update_max_exit_code,
\* docs/REQUIREMENTS.md, exit codes), in whatever order the benchmarks came.
ExitCodeIsWorst ==
  mode = "standard" /\ exit \in {0, 2, 3} =>
    LET Some(s) == \E b \in Benches : results[b].compare = s IN
      /\ exit = 2 <=> Some("fail")
      /\ exit = 3 <=> ~Some("fail") /\ Some("warn") /\ fail_on_warn

=============================================================================
