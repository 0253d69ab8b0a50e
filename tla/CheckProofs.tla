----------------------------- MODULE CheckProofs -----------------------------
(***************************************************************************)
(* Proofs about the check command and the comparison it rests on: about    *)
(* Check, for every config file, every outcome of a comparison or of the   *)
(* complexity gate and any number of invocations; and, in the second part, *)
(* about Comparison, for every set of metrics, budgets and rules.          *)
(***************************************************************************)
EXTENDS Check, Comparison, FiniteSetTheorems, TLAPS

-----------------------------------------------------------------------------
(* The inductive invariant. *)

Renaming == {"rename_run", "rename_compare", "rename_report"}
AfterReport == {"truncate", "comment", "done"} \cup Renaming
AfterCompare == {"report"} \cup AfterReport
Writing == {"run", "compare"} \cup AfterCompare

\* What execute promises of an outcome: the report takes the comparison's
\* status over, and the exit code is the comparison's.
Sound(o) ==
  /\ o.compare # None => o.report = o.compare
  /\ o.code = ExitCode(o.compare)

\* What the process in hand may rely on at each stage.
StageInv ==
  /\ pc # "idle" => exit = None /\ inv # 0
  /\ pc \in Writing =>
       bench \in Benches /\ outcome \in Outcome /\ Sound(outcome) /\ results[bench] = None
  /\ mode = "standard" => pc \notin Renaming \cup {"combined", "error"}
  /\ mode = "standard" /\ pc # "idle" => \A b \in Benches : results[b] # Error

\* A receipt is replaced by a rename: it is never half written.
ReceiptsWhole == \A b \in Benches, n \in Receipts : plain[b][n] # Torn

TypeInv == TypeOK /\ StageInv /\ ReceiptsWhole

Files(b, n) == {plain[b][n], versioned[b][n]} \ {Absent}

\* No file comes from an invocation that has not begun.
NoneNewer == \A b \in Benches, n \in Receipts : \A f \in Files(b, n) : f.inv <= inv

\* A benchmark still to be checked has no receipt of this invocation, and one
\* being checked has them only from the stage that writes them on.
Fresh ==
  pc # "idle" =>
    \A b \in Benches :
      results[b] = None =>
        /\ bench # b \/ pc \notin AfterCompare => \A f \in Files(b, "compare") : f.inv # inv
        /\ bench # b \/ pc \notin AfterReport => \A f \in Files(b, "report") : f.inv # inv

\* Where a comparison of this invocation is written, it is the outcome's.
CompareIsOutcomes ==
  pc = "report" =>
    \A f \in Files(bench, "compare") :
      f.inv = inv => outcome.compare # None /\ f.verdict = outcome.compare

AgreeInv == NoneNewer /\ Fresh /\ CompareIsOutcomes /\ ReceiptsAgree

\* The run receipt of this invocation is in place before the others follow, in
\* the output directory and under its versioned name.
RunFirst ==
  /\ pc \in {"compare", "report", "truncate", "comment", "rename_run"} =>
       Current(plain[bench]["run"])
  /\ pc \in {"rename_compare", "rename_report"} => Current(versioned[bench]["run"])

CompareInPlace(b, o) ==
  IF o.compare = None THEN plain[b]["compare"] = Absent ELSE Current(plain[b]["compare"])

\* The artifacts of benchmark b, with outcome o, are those of this invocation.
Complete(b, o) ==
  /\ Current(plain[b]["run"]) /\ Current(plain[b]["report"]) /\ Current(plain[b]["comment"])
  /\ CompareInPlace(b, o)

\* A standard run leaves the artifacts of a benchmark in place one by one.
Progress ==
  mode = "standard" =>
    /\ pc \in {"compare"} \cup AfterCompare => Current(plain[bench]["run"])
    /\ pc \in AfterCompare => CompareInPlace(bench, outcome)
    /\ pc \in AfterReport => Current(plain[bench]["report"])
    /\ pc = "done" => Current(plain[bench]["comment"])
    /\ \A b \in Benches : results[b] \in Outcome => Complete(b, results[b])

\* A standard run ends in a verdict only when every benchmark has an outcome.
Finished ==
  mode = "standard" /\ exit \in {0, 2, 3} =>
    exit = code /\ \A b \in Benches : results[b] \in Outcome

SomeResult(s) == \E b \in Benches : results[b] \in Outcome /\ results[b].compare = s

\* max_exit_code is the worst so far, in whatever order the outcomes came.
CodeIsWorst ==
  code = IF SomeResult("fail") THEN 2
         ELSE IF SomeResult("warn") /\ fail_on_warn THEN 3 ELSE 0

\* The sensor report in directory d is this invocation's and tells of failures.
Reported(d) ==
  /\ envelope[d] # Absent /\ envelope[d].inv = inv
  /\ (\E b \in Benches : \/ results[b] = Error
                         \/ results[b] \in Outcome /\ results[b].report = "fail")
       => envelope[d].status = "fail"

ReportInv ==
  /\ pc = "combined" => Reported("out")
  /\ CockpitReports

-----------------------------------------------------------------------------
(* Type correctness, stage by stage. *)

Names == Receipts \cup {"comment"}
PlainType == [Benches -> [Names -> File \cup {Absent, Torn}]]
VersionedType == [Benches -> [Receipts -> File \cup {Absent}]]

\* The distinct ways of not being there.
LEMMA Distinct ==
  /\ \A f \in File : f # Absent /\ f # Torn
  /\ \A e \in Envelope : e # Absent
  /\ Absent # Torn
  /\ \A o \in Outcome : o # None /\ o # Error
  /\ None # Error
  /\ \A s \in MetricStatus : s # None
BY FileAssumption, NoneAssumption

\* A file written now carries this invocation and its verdict.
LEMMA WrittenFile ==
  ASSUME inv \in 0 .. MaxInvocations, inv # 0, NEW v \in MetricStatus \cup {None}
  PROVE  /\ Written(v) \in File /\ Written(v) # Absent /\ Written(v) # Torn
         /\ Written(v).inv = inv /\ Written(v).verdict = v
<1>1. inv \in 1 .. MaxInvocations
  BY BoundAssumption
<1>2. Written(v) \in File
  BY <1>1 DEF Written, File
<1> QED BY <1>2, Distinct DEF Written

\* A write changes one file of the benchmark in hand.
LEMMA PutEffect ==
  ASSUME plain \in PlainType, bench \in Benches,
         NEW name \in Names, NEW file \in File \cup {Absent, Torn}, Put(name, file)
  PROVE  /\ plain' \in PlainType
         /\ \A b \in Benches, n \in Names :
              plain'[b][n] = IF b = bench /\ n = name THEN file ELSE plain[b][n]
<1>1. plain' = [plain EXCEPT ![bench] = [plain[bench] EXCEPT ![name] = file]]
  BY DEF Put
<1>2. plain[bench] \in [Names -> File \cup {Absent, Torn}]
  BY DEF PlainType
<1> DEFINE new == [plain[bench] EXCEPT ![name] = file]
<1>3. /\ new \in [Names -> File \cup {Absent, Torn}]
      /\ \A n \in Names : new[n] = IF n = name THEN file ELSE plain[bench][n]
  BY <1>2
<1> HIDE DEF new
<1>4. plain' = [plain EXCEPT ![bench] = new]
  BY <1>1 DEF new
<1> QED BY <1>3, <1>4 DEF PlainType

\* A rename moves a receipt from its plain to its versioned name.
LEMMA MoveEffect ==
  ASSUME versioned \in VersionedType, bench \in Benches,
         NEW name \in Receipts, NEW file \in File,
         versioned' = [versioned EXCEPT ![bench][name] = file]
  PROVE  /\ versioned' \in VersionedType
         /\ \A b \in Benches, n \in Receipts :
              versioned'[b][n] = IF b = bench /\ n = name THEN file ELSE versioned[b][n]
<1>1. versioned' = [versioned EXCEPT ![bench] = [versioned[bench] EXCEPT ![name] = file]]
  OBVIOUS
<1>2. versioned[bench] \in [Receipts -> File \cup {Absent}]
  BY DEF VersionedType
<1> DEFINE new == [versioned[bench] EXCEPT ![name] = file]
<1>3. /\ new \in [Receipts -> File \cup {Absent}]
      /\ \A n \in Receipts : new[n] = IF n = name THEN file ELSE versioned[bench][n]
  BY <1>2
<1> HIDE DEF new
<1>4. versioned' = [versioned EXCEPT ![bench] = new]
  BY <1>1 DEF new
<1> QED BY <1>3, <1>4 DEF VersionedType

\* A verdict stays a verdict under the complexity gate.
LEMMA GatedVerdict ==
  ASSUME NEW v \in Verdicts, NEW gate \in ComplexityGate
  PROVE  Gated(v, gate) \in Verdicts
<1>1. CASE gate = None
  BY <1>1 DEF Gated
<1>2. CASE gate # None
  <2>1. gate \in MetricStatus
    BY <1>2 DEF ComplexityGate, MetricStatus
  <2>2. v.counts \in VerdictCounts
    BY DEF Verdicts
  <2> DEFINE tally == Count(v.counts, gate)
  <2>3. tally \in VerdictCounts
    BY <2>1, <2>2 DEF Count, VerdictCounts
  <2> HIDE DEF tally
  <2>4. Gated(v, gate) =
          [counts |-> tally,
           status |-> IF tally["fail"] > 0 THEN "fail"
                      ELSE IF tally["warn"] > 0 THEN "warn" ELSE "pass"]
    BY <1>2 DEF Gated, tally
  <2> QED BY <2>3, <2>4 DEF Verdicts, MetricStatus
<1> QED BY <1>1, <1>2

\* execute: the report's status is the comparison's, under the complexity gate
\* too, and the exit code follows the comparison.
LEMMA JudgeIsSound ==
  ASSUME NEW tally \in Deltas \cup {None}, NEW gate \in Gates
  PROVE  Judge(tally, gate) \in Outcome /\ Sound(Judge(tally, gate))
<1> DEFINE compared == IF tally = None THEN None
                       ELSE [status |-> VerdictStatus(tally), counts |-> tally]
           compare  == GateCompare(compared, gate)
           shown   == IF compare = None THEN None ELSE compare.status
           report   == Gated(BuildReport(compared), gate).status
<1>0. gate \in ComplexityGate
  BY DeltasAssumption
<1>1. Judge(tally, gate) =
        [compare |-> shown, report |-> report, code |-> ExitCode(shown)]
  BY DEF Judge
<1>2. ExitCode(shown) \in {0, 2, 3}
  BY DEF ExitCode
<1>3. CASE tally = None
  <2>1. shown = None
    BY <1>3 DEF GateCompare
  <2>2. BuildReport(compared) = [status |-> "warn", counts |-> Count(NoCounts, "warn")]
    BY <1>3 DEF BuildReport
  <2>3. Count(NoCounts, "warn") \in VerdictCounts
    BY DEF Count, NoCounts, VerdictCounts, MetricStatus
  <2>4. BuildReport(compared) \in Verdicts
    BY <2>2, <2>3 DEF Verdicts, MetricStatus
  <2>5. report \in MetricStatus
    BY <1>0, <2>4, GatedVerdict DEF Verdicts
  <2> HIDE DEF shown, report
  <2> QED BY <1>1, <1>2, <2>1, <2>5 DEF Outcome, Sound
<1>4. CASE tally # None
  <2>1. tally \in VerdictCounts
    BY <1>4, DeltasAssumption
  <2>2. compared \in Verdicts
    BY <1>4, <2>1 DEF Verdicts, VerdictStatus, MetricStatus
  <2> HIDE DEF compared
  <2>3. compared # None /\ Gated(compared, gate) \in Verdicts
    BY <1>0, <2>2, GatedVerdict, NoneAssumption
  <2>4. compare = Gated(compared, gate) /\ compare # None
    BY <2>3, NoneAssumption DEF GateCompare
  <2>5. BuildReport(compared) = compared
    BY <2>3 DEF BuildReport
  <2>6. shown = report /\ shown \in MetricStatus
    BY <2>3, <2>4, <2>5 DEF Verdicts
  <2> HIDE DEF shown, report
  <2> QED BY <1>1, <1>2, <2>6 DEF Outcome, Sound
<1> QED BY <1>3, <1>4

LEMMA InitType == Init => TypeInv
<1> SUFFICES ASSUME Init PROVE TypeInv
  OBVIOUS
<1>1. inv \in 0 .. MaxInvocations
  BY BoundAssumption DEF Init
<1>2. TypeOK
  BY <1>1 DEF Init, TypeOK, Stages
<1>3. StageInv
  BY DEF Init, StageInv, Writing, Renaming, AfterCompare, AfterReport
<1>4. ReceiptsWhole
  BY Distinct DEF Init, ReceiptsWhole
<1> QED BY <1>2, <1>3, <1>4 DEF TypeInv

\* The stages that write no file and end no benchmark.
LEMMA ProcessType ==
  ASSUME TypeInv, Start \/ ConfigFails \/ SetupFails \/ ConfigLoads \/ FinishStandard
                  \/ WriteCombined \/ CockpitFails \/ Kill
  PROVE  TypeInv'
<1> USE DEF TypeInv
<1>0. UNCHANGED <<options, files>>
  BY DEF Start, ConfigFails, SetupFails, ConfigLoads, FinishStandard, WriteCombined,
         CockpitFails, Kill
<1>1. ReceiptsWhole'
  BY <1>0 DEF ReceiptsWhole, files
<1>2. CASE Start
  <2>1. inv' \in 0 .. MaxInvocations /\ inv' # 0
    BY <1>2, BoundAssumption DEF Start, TypeOK
  <2>2. TypeOK'
    BY <1>0, <1>2, <2>1 DEF Start, TypeOK, options, files, Stages
  <2>3. StageInv'
    BY <1>0, <1>2, <2>1, Distinct DEF Start, StageInv, options, Writing, Renaming,
                                     AfterCompare, AfterReport
  <2> QED BY <1>1, <2>2, <2>3
<1>3. CASE ConfigFails \/ SetupFails \/ ConfigLoads
  <2>1. TypeOK'
    BY <1>0, <1>3 DEF ConfigFails, SetupFails, ConfigLoads, Exit, TypeOK, options, files,
                      process, Stages
  <2>2. StageInv'
    BY <1>0, <1>3 DEF ConfigFails, SetupFails, ConfigLoads, Exit, StageInv, options,
                      process, Writing, Renaming, AfterCompare, AfterReport
  <2> QED BY <1>1, <2>1, <2>2
<1>4. CASE FinishStandard \/ WriteCombined \/ CockpitFails
  <2>1. TypeOK'
    BY <1>0, <1>4 DEF FinishStandard, WriteCombined, CockpitFails, Exit, TypeOK, options,
                      files, process, Stages
  <2>2. StageInv'
    BY <1>0, <1>4 DEF FinishStandard, WriteCombined, CockpitFails, Exit, StageInv, options,
                      process, Writing, Renaming, AfterCompare, AfterReport
  <2> QED BY <1>1, <2>1, <2>2
<1>5. CASE Kill
  <2>1. TypeOK'
    BY <1>0, <1>5 DEF Kill, TypeOK, options, files, Stages
  <2>2. StageInv'
    BY <1>0, <1>5 DEF Kill, StageInv, options, Writing, Renaming, AfterCompare, AfterReport
  <2> QED BY <1>1, <2>1, <2>2
<1> QED BY <1>2, <1>3, <1>4, <1>5

\* The beginning and the end of a benchmark.
LEMMA BenchType ==
  ASSUME TypeInv,
         \/ \E b \in Benches :
              \/ CheckFails(b)
              \/ \E tally \in Deltas \cup {None}, gate \in Gates :
                    CheckSucceeds(b, tally, gate)
         \/ WriteFails \/ BenchDone
  PROVE  TypeInv'
<1> USE DEF TypeInv
<1>0. UNCHANGED <<options, inv, files>>
  BY DEF CheckFails, CheckSucceeds, WriteFails, BenchDone
<1>1. ReceiptsWhole'
  BY <1>0 DEF ReceiptsWhole, files
<1>2. ASSUME NEW b \in Benches, BenchError(b), code' = code, pc # "idle"
      PROVE  TypeInv'
  <2>1. TypeOK'
    BY <1>0, <1>2 DEF BenchError, Exit, TypeOK, options, files, Stages
  <2>2. StageInv'
    BY <1>0, <1>2, Distinct DEF BenchError, Exit, StageInv, options, Writing, Renaming,
                               AfterCompare, AfterReport
  <2> QED BY <1>1, <2>1, <2>2
<1>3. ASSUME NEW b \in Benches, CheckFails(b) PROVE TypeInv'
  BY <1>2, <1>3 DEF CheckFails
<1>4. ASSUME NEW b \in Benches, NEW tally \in Deltas \cup {None}, NEW gate \in Gates,
             CheckSucceeds(b, tally, gate)
      PROVE  TypeInv'
  <2>1. outcome' \in Outcome /\ Sound(outcome)'
    BY <1>0, <1>4, JudgeIsSound DEF CheckSucceeds, Sound, ExitCode, options
  <2>2. TypeOK'
    BY <1>0, <1>4, <2>1 DEF CheckSucceeds, TypeOK, options, files, Stages
  <2>3. StageInv'
    BY <1>0, <1>4, <2>1 DEF CheckSucceeds, StageInv, Todo, options, Writing, Renaming,
                            AfterCompare, AfterReport
  <2> QED BY <1>1, <2>2, <2>3
<1>5. CASE WriteFails
  <2>1. pc \in Writing
    BY <1>5 DEF WriteFails, Stages, Writing, Renaming, AfterCompare, AfterReport
  <2>2. bench \in Benches /\ pc # "idle"
    BY <2>1 DEF StageInv, Writing, Renaming, AfterCompare, AfterReport
  <2> QED BY <1>2, <1>5, <2>2 DEF WriteFails
<1>6. CASE BenchDone
  <2>1. bench \in Benches /\ outcome \in Outcome /\ outcome.code \in {0, 2, 3}
    BY <1>6 DEF BenchDone, StageInv, Writing, AfterCompare, AfterReport, Outcome
  <2>2. code' \in {0, 2, 3}
    BY <1>6, <2>1 DEF BenchDone, UpdateMaxExitCode, TypeOK
  <2>3. TypeOK'
    BY <1>0, <1>6, <2>1, <2>2 DEF BenchDone, TypeOK, options, files, Stages
  <2>4. StageInv'
    BY <1>0, <1>6, <2>1, Distinct DEF BenchDone, StageInv, TypeOK, options, Writing,
                                     Renaming, AfterCompare, AfterReport
  <2> QED BY <1>1, <2>3, <2>4
<1> QED BY <1>3, <1>4, <1>5, <1>6

\* The two sensor reports.
LEMMA EnvelopeType ==
  ASSUME TypeInv, WriteEnvelope \/ WriteErrorReport
  PROVE  TypeInv'
<1> USE DEF TypeInv
<1>0. UNCHANGED <<options, process, plain, versioned>>
  BY DEF WriteEnvelope, WriteErrorReport
<1>1. ReceiptsWhole'
  BY <1>0 DEF ReceiptsWhole
<1>2. inv \in 1 .. MaxInvocations
  BY BoundAssumption DEF WriteEnvelope, WriteErrorReport, TypeOK, StageInv
<1>3. CASE WriteEnvelope
  <2> DEFINE new == [inv |-> inv, status |-> Worst({results[b] : b \in Benches}),
                     artifacts |-> Artifacts]
  <2>1. Worst({results[b] : b \in Benches}) \in MetricStatus
    BY DEF Worst, MetricStatus
  <2>2. Artifacts \in SUBSET (Benches \X Receipts)
    BY DEF Artifacts
  <2>3. new \in Envelope
    BY <1>2, <2>1, <2>2 DEF Envelope
  <2> HIDE DEF new
  <2>4. envelope' = [envelope EXCEPT !["out"] = new]
    BY <1>3 DEF WriteEnvelope, new
  <2>5. TypeOK'
    BY <1>0, <1>3, <2>3, <2>4 DEF WriteEnvelope, TypeOK, options, process, Stages
  <2>6. StageInv'
    BY <1>0, <1>3 DEF WriteEnvelope, StageInv, options, process, Writing, Renaming,
                      AfterCompare, AfterReport
  <2> QED BY <1>1, <2>5, <2>6
<1>4. CASE WriteErrorReport
  <2>1. [inv |-> inv, status |-> "fail", artifacts |-> {}] \in Envelope
    BY <1>2 DEF Envelope, MetricStatus
  <2>2. envelope' \in [{"out", "fallback"} -> Envelope \cup {Absent}]
    BY <1>4, <2>1 DEF WriteErrorReport, FallbackDir, TypeOK
  <2>3. TypeOK'
    BY <1>0, <1>4, <2>2 DEF WriteErrorReport, Exit, TypeOK, options, process, Stages
  <2>4. StageInv'
    BY <1>0, <1>4 DEF WriteErrorReport, Exit, StageInv, options, process, Writing, Renaming,
                      AfterCompare, AfterReport
  <2> QED BY <1>1, <2>3, <2>4
<1> QED BY <1>3, <1>4

\* What a write leaves alone: everything but the file and the stage.
SameProcess == UNCHANGED <<options, process, exit>>

\* A stage that writes its file and goes on to the next.
LEMMA StagePreserved ==
  ASSUME StageInv, SameProcess, pc \in Writing, pc' \in Writing,
         pc' \in Renaming => mode # "standard"
  PROVE  StageInv'
BY DEF StageInv, SameProcess, options, process, Sound, ExitCode, Writing, Renaming,
       AfterCompare, AfterReport

\* The file that a writing stage puts, by the stage.
Product(step) ==
  IF step = "run" THEN Written(None)
  ELSE IF step = "compare" /\ outcome.compare = None THEN Absent
  ELSE IF step = "compare" THEN Written(outcome.compare)
  ELSE IF step = "report" THEN Written(outcome.report)
  ELSE IF step = "truncate" THEN Torn
  ELSE Written(None)

Target(step) == IF step \in {"truncate", "comment"} THEN "comment" ELSE step

PutStages == {"run", "compare", "report", "truncate", "comment"}

Write == WriteRun \/ WriteCompare \/ WriteReport \/ TruncateComment \/ WriteComment

\* write_check_artifacts, step by step.
LEMMA WriteSteps ==
  ASSUME Write
  PROVE  /\ pc \in PutStages
         /\ Put(Target(pc), Product(pc))
         /\ SameProcess /\ UNCHANGED <<versioned, envelope>>
         /\ pc = "run" => pc' = "compare"
         /\ pc = "compare" => pc' = "report"
         /\ pc = "report" => pc' = "truncate"
         /\ pc = "truncate" => pc' = "comment"
         /\ pc = "comment" => pc' = IF mode = "cockpit" THEN "rename_run" ELSE "done"
<1>1. CASE WriteRun
  BY <1>1 DEF WriteRun, PutStages, Target, Product, SameProcess
<1>2. CASE WriteCompare
  BY <1>2 DEF WriteCompare, PutStages, Target, Product, SameProcess
<1>3. CASE WriteReport
  BY <1>3 DEF WriteReport, PutStages, Target, Product, SameProcess
<1>4. CASE TruncateComment
  BY <1>4 DEF TruncateComment, PutStages, Target, Product, SameProcess
<1>5. CASE WriteComment
  BY <1>5 DEF WriteComment, PutStages, Target, Product, SameProcess
<1> QED BY <1>1, <1>2, <1>3, <1>4, <1>5 DEF Write

\* The benchmark in hand while its files are written.
LEMMA InHand ==
  ASSUME TypeInv, pc \in Writing
  PROVE  /\ bench \in Benches /\ outcome \in Outcome /\ results[bench] = None
         /\ Sound(outcome)
         /\ outcome.compare \in MetricStatus \cup {None} /\ outcome.report \in MetricStatus
         /\ inv \in 0 .. MaxInvocations /\ inv # 0
BY DEF TypeInv, TypeOK, StageInv, Outcome, Writing, Renaming, AfterCompare, AfterReport

\* What a write does to the files, and that it is typed.
LEMMA WriteEffect ==
  ASSUME TypeInv, Write
  PROVE  /\ plain' \in PlainType
         /\ Product(pc) \in File \cup {Absent, Torn}
         /\ pc # "truncate" => Product(pc) # Torn
         /\ Product(pc) \in File => Product(pc).inv = inv
         /\ pc = "report" => Product(pc) \in File /\ Product(pc).verdict = outcome.report
         /\ pc \in {"run", "comment"} => Product(pc) \in File
         /\ pc = "compare" =>
              IF outcome.compare = None THEN Product(pc) = Absent
              ELSE Product(pc) \in File /\ Product(pc).verdict = outcome.compare
         /\ \A b \in Benches, n \in Names :
              plain'[b][n] = IF b = bench /\ n = Target(pc) THEN Product(pc) ELSE plain[b][n]
<1>1. pc \in PutStages /\ Put(Target(pc), Product(pc))
  BY WriteSteps
<1>2. pc \in Writing
  BY <1>1 DEF PutStages, Writing, AfterCompare, AfterReport
<1>3. /\ bench \in Benches /\ inv \in 0 .. MaxInvocations /\ inv # 0
      /\ outcome.compare \in MetricStatus \cup {None} /\ outcome.report \in MetricStatus
  BY <1>2, InHand
<1>4. \A v \in MetricStatus \cup {None} :
        /\ Written(v) \in File /\ Written(v) # Absent /\ Written(v) # Torn
        /\ Written(v).inv = inv /\ Written(v).verdict = v
  BY <1>3, WrittenFile
<1>5. plain \in PlainType
  BY DEF TypeInv, TypeOK, PlainType, Names
<1>6. Target(pc) \in Names
  BY <1>1 DEF Target, PutStages, Names, Receipts
<1>7. /\ Product(pc) \in File \cup {Absent, Torn}
      /\ pc # "truncate" => Product(pc) # Torn
      /\ Product(pc) \in File => Product(pc).inv = inv
      /\ pc = "report" => Product(pc) \in File /\ Product(pc).verdict = outcome.report
      /\ pc \in {"run", "comment"} => Product(pc) \in File
      /\ pc = "compare" =>
           IF outcome.compare = None THEN Product(pc) = Absent
           ELSE Product(pc) \in File /\ Product(pc).verdict = outcome.compare
  BY <1>1, <1>3, <1>4, Distinct DEF Product, PutStages
<1> QED BY <1>1, <1>3, <1>5, <1>6, <1>7, PutEffect

LEMMA WriteType ==
  ASSUME TypeInv, Write
  PROVE  TypeInv'
<1>0. plain' \in PlainType /\ SameProcess /\ UNCHANGED <<versioned, envelope>>
  BY WriteSteps, WriteEffect
<1>1. pc \in Writing /\ pc' \in Writing /\ pc' \in Stages /\ (pc' \in Renaming => mode # "standard")
  BY WriteSteps DEF PutStages, Writing, Renaming, AfterCompare, AfterReport, Stages
<1>2. TypeOK'
  BY <1>0, <1>1 DEF TypeInv, TypeOK, SameProcess, options, process, PlainType, Names
<1>3. StageInv'
  BY <1>0, <1>1, StagePreserved DEF TypeInv
<1>4. ReceiptsWhole'
  <2> SUFFICES ASSUME NEW b \in Benches, NEW n \in Receipts PROVE plain'[b][n] # Torn
    BY DEF ReceiptsWhole
  <2>1. plain[b][n] # Torn
    BY DEF TypeInv, ReceiptsWhole
  <2>2. plain'[b][n] = IF b = bench /\ n = Target(pc) THEN Product(pc) ELSE plain[b][n]
    BY WriteEffect DEF Names
  <2>3. n = Target(pc) => pc # "truncate"
    BY DEF Target, Receipts
  <2> QED BY <2>1, <2>2, <2>3, WriteEffect
<1> QED BY <1>2, <1>3, <1>4 DEF TypeInv

\* A rename moves a whole receipt, or nothing where there is none.
LEMMA RenameEffect ==
  ASSUME TypeInv, NEW name \in Receipts, Rename(name)
  PROVE  /\ pc = RenameStage[name] /\ pc' = AfterRename[name]
         /\ pc \in Renaming /\ bench \in Benches
         /\ SameProcess /\ UNCHANGED envelope
         /\ plain' \in PlainType /\ versioned' \in VersionedType
         /\ \A b \in Benches, n \in Names :
              plain'[b][n] = IF b = bench /\ n = name THEN Absent ELSE plain[b][n]
         /\ \A b \in Benches, n \in Receipts :
              versioned'[b][n] = IF b = bench /\ n = name /\ plain[b][n] # Absent
                                 THEN plain[b][n] ELSE versioned[b][n]
<1>1. /\ pc = RenameStage[name] /\ pc' = AfterRename[name]
      /\ SameProcess /\ UNCHANGED envelope
  BY DEF Rename, SameProcess
<1>2. pc \in Renaming
  BY <1>1 DEF RenameStage, Renaming, Receipts
<1>3. bench \in Benches
  BY <1>2, InHand DEF Writing, AfterCompare, AfterReport
<1>4. plain \in PlainType /\ versioned \in VersionedType
  BY DEF TypeInv, TypeOK, PlainType, VersionedType, Names
<1>5. CASE plain[bench][name] = Absent
  <2>1. UNCHANGED <<plain, versioned>>
    BY <1>5 DEF Rename
  <2> QED BY <1>1, <1>2, <1>3, <1>4, <1>5, <2>1
<1>6. CASE plain[bench][name] # Absent
  <2>1. /\ Put(name, Absent)
        /\ versioned' = [versioned EXCEPT ![bench][name] = plain[bench][name]]
    BY <1>6 DEF Rename
  <2>2. plain[bench][name] \in File
    BY <1>3, <1>4, <1>6 DEF PlainType, Names, TypeInv, ReceiptsWhole
  <2>3. name \in Names
    BY DEF Names
  <2>4. /\ plain' \in PlainType
        /\ \A b \in Benches, n \in Names :
             plain'[b][n] = IF b = bench /\ n = name THEN Absent ELSE plain[b][n]
    BY <1>3, <1>4, <2>1, <2>3, PutEffect
  <2>5. /\ versioned' \in VersionedType
        /\ \A b \in Benches, n \in Receipts :
             versioned'[b][n] = IF b = bench /\ n = name THEN plain[bench][name]
                                ELSE versioned[b][n]
    BY <1>3, <1>4, <2>1, <2>2, MoveEffect
  <2> QED BY <1>1, <1>2, <1>3, <1>6, <2>4, <2>5
<1> QED BY <1>5, <1>6

LEMMA RenameType ==
  ASSUME TypeInv, NEW name \in Receipts, Rename(name)
  PROVE  TypeInv'
<1>0. /\ plain' \in PlainType /\ versioned' \in VersionedType
      /\ SameProcess /\ UNCHANGED envelope
  BY RenameEffect
<1>1. pc \in Writing /\ pc' \in Writing /\ pc' \in Stages /\ mode # "standard"
  <2>1. pc \in Renaming /\ pc' = AfterRename[name]
    BY RenameEffect
  <2> QED BY <2>1 DEF AfterRename, Receipts, Writing, Renaming, AfterCompare, AfterReport,
                      Stages, TypeInv, StageInv
<1>2. TypeOK'
  BY <1>0, <1>1 DEF TypeInv, TypeOK, SameProcess, options, process, PlainType,
                    VersionedType, Names
<1>3. StageInv'
  BY <1>0, <1>1, StagePreserved DEF TypeInv
<1>4. ReceiptsWhole'
  BY RenameEffect, Distinct DEF TypeInv, ReceiptsWhole, Names
<1> QED BY <1>2, <1>3, <1>4 DEF TypeInv

\* The steps of the program by what they do to the files.
Process == Start \/ ConfigFails \/ SetupFails \/ ConfigLoads \/ FinishStandard
           \/ WriteCombined \/ CockpitFails \/ Kill
Bench == \/ \E b \in Benches :
              \/ CheckFails(b)
              \/ \E tally \in Deltas \cup {None}, gate \in Gates :
                    CheckSucceeds(b, tally, gate)
         \/ WriteFails \/ BenchDone

LEMMA Kinds ==
  ASSUME Next
  PROVE  \/ Process \/ Bench \/ Write \/ WriteEnvelope \/ WriteErrorReport
         \/ \E name \in Receipts : Rename(name)
BY DEF Next, Process, Bench, Write

LEMMA NextType == TypeInv /\ [Next]_vars => TypeInv'
<1> SUFFICES ASSUME TypeInv, [Next]_vars PROVE TypeInv'
  OBVIOUS
<1>1. CASE Process
  BY <1>1, ProcessType DEF Process
<1>2. CASE Bench
  BY <1>2, BenchType DEF Bench
<1>3. CASE Write \/ WriteEnvelope \/ WriteErrorReport
  BY <1>3, WriteType, EnvelopeType
<1>5. ASSUME NEW name \in Receipts, Rename(name) PROVE TypeInv'
  BY <1>5, RenameType
<1>4. CASE UNCHANGED vars
  BY <1>4 DEF vars, TypeInv, TypeOK, StageInv, Sound, ExitCode, ReceiptsWhole
<1> QED BY <1>1, <1>2, <1>3, <1>4, <1>5, Kinds

\* Every variable keeps its type: a versioned receipt is a whole file, because
\* only the comment is written in place.
THEOREM TypeCorrect == Spec => []TypeOK
<1>1. TypeInv => TypeOK
  BY DEF TypeInv
<1> QED BY InitType, NextType, <1>1, PTL DEF Spec

-----------------------------------------------------------------------------
(* Receipts of one invocation agree. *)

\* Invocations and ends of benchmarks write no receipt, nor do the sensor
\* reports.
LEMMA Quiet ==
  ASSUME Process \/ Bench \/ WriteEnvelope \/ WriteErrorReport
  PROVE  UNCHANGED <<options, plain, versioned>>
BY DEF Process, Bench, Start, ConfigFails, SetupFails, ConfigLoads, FinishStandard,
       WriteCombined, CockpitFails, Kill, CheckFails, CheckSucceeds, WriteFails, BenchDone,
       WriteEnvelope, WriteErrorReport, files

LEMMA FilesTyped ==
  ASSUME TypeInv, NEW b \in Benches, NEW n \in Receipts
  PROVE  Files(b, n) \subseteq File /\ \A f \in Files(b, n) : f.inv \in Int
<1>1. plain[b][n] \in File \cup {Absent} /\ versioned[b][n] \in File \cup {Absent}
  BY DEF TypeInv, TypeOK, ReceiptsWhole
<1> QED BY <1>1 DEF Files, File

\* ReceiptsAgree in terms of Files.
LEMMA Agreement ==
  ReceiptsAgree <=>
    \A b \in Benches : \A c \in Files(b, "compare"), r \in Files(b, "report") :
      c.inv = r.inv => c.verdict = r.verdict
BY DEF ReceiptsAgree, Files

LEMMA AgreementNext ==
  ReceiptsAgree' <=>
    \A b \in Benches : \A c \in Files(b, "compare")', r \in Files(b, "report")' :
      c.inv = r.inv => c.verdict = r.verdict
BY DEF ReceiptsAgree, Files

\* A step that adds no receipt keeps what is said of all receipts.
LEMMA Shrink ==
  ASSUME AgreeInv, inv' = inv,
         \A b \in Benches, n \in Receipts : Files(b, n)' \subseteq Files(b, n)
  PROVE  NoneNewer' /\ ReceiptsAgree'
<1>1. NoneNewer'
  BY DEF AgreeInv, NoneNewer
<1>2. ReceiptsAgree'
  BY Agreement, AgreementNext DEF AgreeInv, Receipts
<1> QED BY <1>1, <1>2

LEMMA StartAgree ==
  ASSUME TypeInv, AgreeInv, Start
  PROVE  AgreeInv'
<1>1. /\ \A b \in Benches, n \in Receipts : Files(b, n)' = Files(b, n)
      /\ inv' = inv + 1 /\ pc' = "config" /\ inv \in Int
  BY DEF Start, files, Files, TypeInv, TypeOK
<1>2. \A b \in Benches, n \in Receipts : \A f \in Files(b, n)' : f.inv < inv'
  <2> SUFFICES ASSUME NEW b \in Benches, NEW n \in Receipts, NEW f \in Files(b, n)
               PROVE  f.inv < inv'
    BY <1>1
  <2>1. f.inv \in Int /\ f.inv <= inv
    BY FilesTyped DEF AgreeInv, NoneNewer
  <2> QED BY <1>1, <2>1
<1>3. inv' \in Int
  BY <1>1
<1>4. \A b \in Benches, n \in Receipts : \A f \in Files(b, n)' : f.inv <= inv' /\ f.inv # inv'
  <2> SUFFICES ASSUME NEW b \in Benches, NEW n \in Receipts, NEW f \in Files(b, n)
               PROVE  f.inv <= inv' /\ f.inv # inv'
    BY <1>1
  <2>1. f.inv \in Int /\ f.inv < inv'
    BY <1>1, <1>2, FilesTyped
  <2> QED BY <1>3, <2>1
<1>5. NoneNewer' /\ Fresh' /\ CompareIsOutcomes'
  BY <1>1, <1>4 DEF NoneNewer, Fresh, CompareIsOutcomes, Receipts
<1>6. ReceiptsAgree'
  BY <1>1, Agreement, AgreementNext DEF AgreeInv, Receipts
<1> QED BY <1>5, <1>6 DEF AgreeInv

\* The other steps that write no receipt: a benchmark they begin was untouched,
\* and one they end is no longer to be checked.
LEMMA QuietAgree ==
  ASSUME TypeInv, AgreeInv, Process \/ Bench \/ WriteEnvelope \/ WriteErrorReport, ~Start
  PROVE  AgreeInv'
<1>1. \A b \in Benches, n \in Receipts : Files(b, n)' = Files(b, n)
  BY Quiet DEF Files
<1>2. inv' = inv
  BY DEF Process, Bench, ConfigFails, SetupFails, ConfigLoads, FinishStandard,
         WriteCombined, CockpitFails, Kill, CheckFails, CheckSucceeds, WriteFails, BenchDone,
         WriteEnvelope, WriteErrorReport, process
<1>3. NoneNewer' /\ ReceiptsAgree'
  BY <1>1, <1>2, Shrink
<1>4. pc' \notin AfterCompare /\ pc' # "report"
  BY DEF Process, Bench, ConfigFails, SetupFails, ConfigLoads, FinishStandard, Exit, BenchError,
         WriteCombined, CockpitFails, Kill, CheckFails, CheckSucceeds, WriteFails, BenchDone,
         WriteEnvelope, WriteErrorReport, AfterCompare, AfterReport, Renaming
<1>5. ASSUME pc' # "idle", NEW b \in Benches, results'[b] = None
      PROVE  pc # "idle" /\ results[b] = None /\ (bench # b \/ pc \notin AfterCompare)
  <2>1. CASE Process \/ WriteEnvelope \/ WriteErrorReport
    BY <1>5, <2>1 DEF Process, ConfigFails, SetupFails, ConfigLoads, FinishStandard, Exit,
         WriteCombined, CockpitFails, Kill, WriteEnvelope, WriteErrorReport, process,
         AfterCompare, AfterReport, Renaming
  <2>2. ASSUME NEW c \in Benches, CheckFails(c)
        PROVE  pc # "idle" /\ results[b] = None /\ (bench # b \/ pc \notin AfterCompare)
    BY <1>5, <2>2, Distinct DEF CheckFails, BenchError, TypeInv, TypeOK,
         AfterCompare, AfterReport, Renaming
  <2>3. ASSUME NEW c \in Benches, NEW tally \in Deltas \cup {None}, NEW gate \in Gates,
               CheckSucceeds(c, tally, gate)
        PROVE  pc # "idle" /\ results[b] = None /\ (bench # b \/ pc \notin AfterCompare)
    BY <1>5, <2>3 DEF CheckSucceeds, AfterCompare, AfterReport, Renaming
  <2>4. CASE WriteFails
    BY <1>5, <2>4, Distinct DEF WriteFails, BenchError, TypeInv, TypeOK
  <2>5. CASE BenchDone
    <3>1. outcome \in Outcome
      BY <2>5, InHand DEF BenchDone, Writing, AfterCompare, AfterReport
    <3> QED BY <1>5, <2>5, <3>1, Distinct DEF BenchDone, TypeInv, TypeOK
  <2> QED BY <2>1, <2>2, <2>3, <2>4, <2>5 DEF Bench
<1>6. AfterReport \subseteq AfterCompare
  BY DEF AfterCompare
<1>7. Fresh'
  <2> SUFFICES ASSUME pc' # "idle", NEW b \in Benches, results'[b] = None
               PROVE  /\ \A f \in Files(b, "compare")' : f.inv # inv'
                      /\ \A f \in Files(b, "report")' : f.inv # inv'
    BY DEF Fresh
  <2>1. pc # "idle" /\ results[b] = None /\ (bench # b \/ pc \notin AfterCompare)
    BY <1>5
  <2> QED BY <1>1, <1>2, <1>6, <2>1 DEF AgreeInv, Fresh, Receipts
<1>8. CompareIsOutcomes'
  BY <1>4 DEF CompareIsOutcomes
<1> QED BY <1>3, <1>7, <1>8 DEF AgreeInv

LEMMA RenameAgree ==
  ASSUME TypeInv, AgreeInv, NEW name \in Receipts, Rename(name)
  PROVE  AgreeInv'
<1>1. pc \in Renaming /\ pc' \in AfterReport /\ SameProcess
  BY RenameEffect DEF AfterRename, Receipts, AfterReport, Renaming
<1>2. inv' = inv /\ bench' = bench /\ results' = results
  BY <1>1 DEF SameProcess, process
<1>3. \A b \in Benches, n \in Receipts : Files(b, n)' \subseteq Files(b, n)
  <2> SUFFICES ASSUME NEW b \in Benches, NEW n \in Receipts
               PROVE  Files(b, n)' \subseteq Files(b, n)
    OBVIOUS
  <2>1. /\ plain'[b][n] = IF b = bench /\ n = name THEN Absent ELSE plain[b][n]
        /\ versioned'[b][n] = IF b = bench /\ n = name /\ plain[b][n] # Absent
                              THEN plain[b][n] ELSE versioned[b][n]
    BY RenameEffect DEF Names
  <2> QED BY <2>1 DEF Files
<1>4. NoneNewer' /\ ReceiptsAgree'
  BY <1>2, <1>3, Shrink
<1>5. Fresh' /\ CompareIsOutcomes'
  <2>1. pc # "idle" /\ pc \in AfterCompare /\ pc \in AfterReport /\ pc' # "report"
        /\ pc' \in AfterCompare
    BY <1>1 DEF AfterCompare, AfterReport, Renaming
  <2> QED BY <1>1, <1>2, <1>3, <2>1 DEF AgreeInv, Fresh, CompareIsOutcomes, Receipts
<1> QED BY <1>4, <1>5 DEF AgreeInv

\* A write adds one file of this invocation.
LEMMA WriteAgree ==
  ASSUME TypeInv, AgreeInv, Write
  PROVE  AgreeInv'
<1>0. /\ pc \in PutStages /\ SameProcess /\ versioned' = versioned
      /\ bench \in Benches /\ Sound(outcome) /\ results[bench] = None /\ inv \in Int
  BY WriteSteps, InHand DEF PutStages, Writing, AfterCompare, AfterReport
<1>1. inv' = inv /\ bench' = bench /\ results' = results /\ outcome' = outcome
  BY <1>0 DEF SameProcess, process
<1>2. \A b \in Benches, n \in Receipts :
        IF b = bench /\ n = Target(pc)
        THEN Files(b, n)' \subseteq Files(b, n) \cup ({Product(pc)} \cap File)
        ELSE Files(b, n)' = Files(b, n)
  <2> SUFFICES ASSUME NEW b \in Benches, NEW n \in Receipts
               PROVE  IF b = bench /\ n = Target(pc)
                      THEN Files(b, n)' \subseteq Files(b, n) \cup ({Product(pc)} \cap File)
                      ELSE Files(b, n)' = Files(b, n)
    OBVIOUS
  <2>1. plain'[b][n] = IF b = bench /\ n = Target(pc) THEN Product(pc) ELSE plain[b][n]
    BY WriteEffect DEF Names
  <2>2. n = Target(pc) => Product(pc) \in File \cup {Absent}
    BY WriteEffect DEF Target, Receipts
  <2> QED BY <1>0, <2>1, <2>2 DEF Files
<1>3. NoneNewer'
  <2> SUFFICES ASSUME NEW b \in Benches, NEW n \in Receipts, NEW f \in Files(b, n)'
               PROVE  f.inv <= inv
    BY <1>1 DEF NoneNewer
  <2>1. CASE f \in Files(b, n)
    BY <2>1 DEF AgreeInv, NoneNewer
  <2>2. CASE f \notin Files(b, n)
    <3>1. f = Product(pc) /\ f \in File
      BY <1>2, <2>2
    <3>2. f.inv = inv
      BY <3>1, WriteEffect
    <3> QED BY <1>0, <3>2
  <2> QED BY <2>1, <2>2
<1>4. CASE pc \in {"run", "truncate", "comment"}
  <2>1. /\ Target(pc) \notin {"compare", "report"}
        /\ pc' \notin {"report", "idle"} /\ pc # "idle"
        /\ pc' \in AfterCompare <=> pc \in AfterCompare
        /\ pc' \in AfterReport <=> pc \in AfterReport
    BY <1>4, WriteSteps DEF Target, AfterCompare, AfterReport, Renaming
  <2>2. \A b \in Benches, n \in {"compare", "report"} : Files(b, n)' = Files(b, n)
    BY <1>2, <2>1 DEF Receipts
  <2>3. ReceiptsAgree'
    BY <2>2, Agreement, AgreementNext DEF AgreeInv
  <2>4. Fresh' /\ CompareIsOutcomes'
    BY <1>1, <2>1, <2>2 DEF AgreeInv, Fresh, CompareIsOutcomes
  <2> QED BY <1>3, <2>3, <2>4 DEF AgreeInv
<1>5. CASE pc = "compare"
  <2>1. pc' = "report" /\ pc \notin AfterCompare /\ pc \notin AfterReport /\ pc' \notin AfterReport
        /\ Target(pc) = "compare"
    BY <1>5, WriteSteps DEF Target, AfterCompare, AfterReport, Renaming
  <2>2. \A b \in Benches : Files(b, "report")' = Files(b, "report")
    BY <1>2, <2>1 DEF Receipts
  <2>3. \A b \in Benches : b # bench => Files(b, "compare")' = Files(b, "compare")
    BY <1>2, <2>1 DEF Receipts
  <2>4. /\ \A f \in Files(bench, "compare") : f.inv # inv
        /\ \A f \in Files(bench, "report") : f.inv # inv
    BY <1>0, <1>5, <2>1 DEF AgreeInv, Fresh
  <2>5. \A b \in Benches : \A f \in Files(b, "compare")' :
          \/ f \in Files(b, "compare")
          \/ b = bench /\ f.inv = inv /\ outcome.compare # None /\ f.verdict = outcome.compare
    <3> SUFFICES ASSUME NEW b \in Benches, b = bench,
                        NEW f \in Files(b, "compare")', f \notin Files(b, "compare")
                 PROVE  f.inv = inv /\ outcome.compare # None /\ f.verdict = outcome.compare
      BY <2>3
    <3>1. f = Product(pc) /\ f \in File
      BY <1>0, <1>1, <1>2, <2>1 DEF Receipts
    <3> QED BY <1>5, <3>1, WriteEffect, Distinct
  <2>6. CompareIsOutcomes'
    BY <1>0, <1>1, <2>4, <2>5 DEF CompareIsOutcomes
  <2>7. Fresh'
    <3>1. \A b \in Benches : results[b] = None =>
             /\ b # bench => \A f \in Files(b, "compare")' : f.inv # inv
             /\ \A f \in Files(b, "report")' : f.inv # inv
      BY <1>5, <2>1, <2>2, <2>3 DEF AgreeInv, Fresh
    <3>2. pc' \in AfterCompare
      BY <2>1 DEF AfterCompare
    <3> QED BY <1>1, <2>1, <3>1, <3>2 DEF Fresh
  <2>8. ReceiptsAgree'
    <3> SUFFICES ASSUME NEW b \in Benches, NEW c \in Files(b, "compare")',
                        NEW r \in Files(b, "report")', c.inv = r.inv
                 PROVE  c.verdict = r.verdict
      BY AgreementNext
    <3>1. r \in Files(b, "report")
      BY <2>2
    <3>2. CASE c \in Files(b, "compare")
      BY <3>1, <3>2, Agreement DEF AgreeInv
    <3>3. CASE c \notin Files(b, "compare")
      BY <2>3, <2>4, <2>5, <3>1, <3>3
    <3> QED BY <3>2, <3>3
  <2> QED BY <1>3, <2>6, <2>7, <2>8 DEF AgreeInv
<1>6. CASE pc = "report"
  <2>1. pc' = "truncate" /\ pc \in AfterCompare /\ pc' \in AfterCompare /\ pc' \in AfterReport
        /\ pc \notin AfterReport /\ Target(pc) = "report"
    BY <1>6, WriteSteps DEF Target, AfterCompare, AfterReport, Renaming
  <2>2. \A b \in Benches : Files(b, "compare")' = Files(b, "compare")
    BY <1>2, <2>1 DEF Receipts
  <2>3. \A b \in Benches : b # bench => Files(b, "report")' = Files(b, "report")
    BY <1>2, <2>1 DEF Receipts
  <2>4. \A b \in Benches : \A f \in Files(b, "report")' :
          \/ f \in Files(b, "report")
          \/ b = bench /\ f.inv = inv /\ f.verdict = outcome.report
    <3> SUFFICES ASSUME NEW b \in Benches, b = bench,
                        NEW f \in Files(b, "report")', f \notin Files(b, "report")
                 PROVE  f.inv = inv /\ f.verdict = outcome.report
      BY <2>3
    <3>1. f = Product(pc) /\ f \in File
      BY <1>0, <1>1, <1>2, <2>1 DEF Receipts
    <3> QED BY <1>6, <3>1, WriteEffect
  <2>5. CompareIsOutcomes'
    BY <2>1 DEF CompareIsOutcomes
  <2>6. Fresh'
    <3>1. \A b \in Benches : results[b] = None /\ b # bench =>
             /\ \A f \in Files(b, "compare")' : f.inv # inv
             /\ \A f \in Files(b, "report")' : f.inv # inv
      BY <1>6, <2>2, <2>3 DEF AgreeInv, Fresh
    <3> QED BY <1>1, <2>1, <3>1 DEF Fresh
  <2>7. ReceiptsAgree'
    <3> SUFFICES ASSUME NEW b \in Benches, NEW c \in Files(b, "compare")',
                        NEW r \in Files(b, "report")', c.inv = r.inv
                 PROVE  c.verdict = r.verdict
      BY AgreementNext
    <3>1. c \in Files(b, "compare")
      BY <2>2
    <3>2. CASE r \in Files(b, "report")
      BY <3>1, <3>2, Agreement DEF AgreeInv
    <3>3. CASE r \notin Files(b, "report")
      <4>1. b = bench
        BY <2>3, <3>3
      <4>2. r.inv = inv /\ r.verdict = outcome.report
        BY <2>4, <3>3, <4>1
      <4>3. outcome.compare # None /\ c.verdict = outcome.compare
        BY <1>6, <3>1, <4>1, <4>2 DEF AgreeInv, CompareIsOutcomes
      <4> QED BY <1>0, <4>2, <4>3 DEF Sound
    <3> QED BY <3>2, <3>3
  <2> QED BY <1>3, <2>5, <2>6, <2>7 DEF AgreeInv
<1> QED BY <1>0, <1>4, <1>5, <1>6 DEF PutStages

LEMMA InitAgree == Init => AgreeInv
<1> SUFFICES ASSUME Init PROVE AgreeInv
  OBVIOUS
<1>1. \A b \in Benches, n \in Receipts : Files(b, n) = {}
  BY DEF Init, Files
<1>2. NoneNewer /\ Fresh /\ CompareIsOutcomes
  BY <1>1 DEF Init, NoneNewer, Fresh, CompareIsOutcomes
<1>3. ReceiptsAgree
  BY <1>1, Agreement DEF Receipts
<1> QED BY <1>2, <1>3 DEF AgreeInv

LEMMA NextAgree == TypeInv /\ AgreeInv /\ [Next]_vars => AgreeInv'
<1> SUFFICES ASSUME TypeInv, AgreeInv, [Next]_vars PROVE AgreeInv'
  OBVIOUS
<1>1. CASE Process \/ Bench \/ WriteEnvelope \/ WriteErrorReport
  BY <1>1, StartAgree, QuietAgree
<1>2. CASE Write
  BY <1>2, WriteAgree
<1>3. ASSUME NEW name \in Receipts, Rename(name) PROVE AgreeInv'
  BY <1>3, RenameAgree
<1>4. CASE UNCHANGED vars
  BY <1>4 DEF vars, AgreeInv, NoneNewer, Fresh, CompareIsOutcomes, Files, ReceiptsAgree
<1> QED BY <1>1, <1>2, <1>3, <1>4, Kinds

\* The comparison and the report of one invocation agree on the verdict between
\* any two writes, and beside whatever older invocations left.
THEOREM ReceiptsAlwaysAgree == Spec => []ReceiptsAgree
<1>1. AgreeInv => ReceiptsAgree
  BY DEF AgreeInv
<1> QED BY InitType, NextType, InitAgree, NextAgree, <1>1, PTL DEF Spec

-----------------------------------------------------------------------------
(* No receipt is newer than its run receipt. *)

NewestInv == RunFirst /\ RunIsNewest

LEMMA QuietNewest ==
  ASSUME NewestInv, Process \/ Bench \/ WriteEnvelope \/ WriteErrorReport
  PROVE  NewestInv'
<1>1. mode' = mode /\ plain' = plain /\ versioned' = versioned
  BY Quiet DEF options
<1>2. RunIsNewest'
  BY <1>1 DEF NewestInv, RunIsNewest
<1>3. pc' \notin {"compare"} \cup AfterCompare
  BY DEF Process, Bench, Start, ConfigFails, SetupFails, ConfigLoads, FinishStandard, Exit,
         BenchError, WriteCombined, CockpitFails, Kill, CheckFails, CheckSucceeds, WriteFails,
         BenchDone, WriteEnvelope, WriteErrorReport, AfterCompare, AfterReport, Renaming
<1>4. RunFirst'
  BY <1>3 DEF RunFirst, AfterCompare, AfterReport, Renaming
<1> QED BY <1>2, <1>4 DEF NewestInv

LEMMA WriteNewest ==
  ASSUME TypeInv, NoneNewer, NewestInv, Write
  PROVE  NewestInv'
<1>0. /\ pc \in PutStages /\ SameProcess /\ versioned' = versioned
      /\ bench \in Benches /\ inv \in Int
  BY WriteSteps, InHand DEF PutStages, Writing, AfterCompare, AfterReport
<1>1. inv' = inv /\ bench' = bench /\ mode' = mode
  BY <1>0 DEF SameProcess, process, options
<1>2. \A b \in Benches, n \in Receipts :
        plain'[b][n] = IF b = bench /\ n = Target(pc) THEN Product(pc) ELSE plain[b][n]
  BY WriteEffect DEF Names
<1>3. Current(plain[bench]["run"])'
  <2>1. CASE pc = "run"
    <3>1. plain'[bench]["run"] = Product(pc)
      BY <1>0, <1>2, <2>1 DEF Target, Receipts
    <3>2. Product(pc) \in File /\ Product(pc).inv = inv
      BY <2>1, WriteEffect
    <3> QED BY <1>1, <3>1, <3>2, Distinct DEF Current
  <2>2. CASE pc # "run"
    <3>1. Current(plain[bench]["run"])
      BY <1>0, <2>2 DEF NewestInv, RunFirst, PutStages
    <3>2. plain'[bench]["run"] = plain[bench]["run"]
      BY <1>0, <1>2, <2>2 DEF Target, Receipts, PutStages
    <3> QED BY <1>1, <3>1, <3>2 DEF Current
  <2> QED BY <2>1, <2>2
<1>4. RunFirst'
  BY <1>0, <1>3, WriteSteps DEF RunFirst, PutStages
<1>5. RunIsNewest'
  <2>1. CASE mode # "standard"
    BY <1>0, <1>1, <2>1 DEF NewestInv, RunIsNewest
  <2>2. CASE mode = "standard"
    <3> SUFFICES ASSUME NEW b \in Benches, NEW n \in {"compare", "report"}, plain'[b][n] # Absent
                 PROVE  plain'[b]["run"] # Absent /\ plain'[b]["run"].inv >= plain'[b][n].inv
      BY <1>1, <2>2 DEF RunIsNewest
    <3>1. CASE b = bench
      <4>1. plain'[b]["run"] # Absent /\ plain'[b]["run"].inv = inv
        BY <1>1, <1>3, <3>1 DEF Current
      <4>2. plain'[b][n].inv <= inv
        <5>1. CASE n = Target(pc)
          <6>1. Product(pc) \in File
            BY <1>2, <3>1, <5>1, WriteEffect DEF Target, Receipts
          <6> QED BY <1>0, <1>2, <3>1, <5>1, <6>1, WriteEffect DEF Receipts
        <5>2. CASE n # Target(pc)
          <6>1. plain'[b][n] = plain[b][n]
            BY <1>2, <5>2 DEF Receipts
          <6> QED BY <6>1 DEF NoneNewer, Files, Receipts
        <5> QED BY <5>1, <5>2
      <4>3. plain'[b][n].inv \in Int
        <5>1. TypeInv'
          BY WriteType
        <5>2. plain'[b][n] \in File
          BY <5>1 DEF TypeInv, TypeOK, ReceiptsWhole, Receipts
        <5> QED BY <5>2 DEF File
      <4> QED BY <1>0, <4>1, <4>2, <4>3
    <3>2. CASE b # bench
      BY <1>2, <2>2, <3>2 DEF NewestInv, RunIsNewest, Receipts
    <3> QED BY <3>1, <3>2
  <2> QED BY <2>1, <2>2
<1> QED BY <1>4, <1>5 DEF NewestInv

LEMMA RenameNewest ==
  ASSUME TypeInv, NoneNewer, NewestInv, NEW name \in Receipts, Rename(name)
  PROVE  NewestInv'
<1>0. /\ pc = RenameStage[name] /\ pc' = AfterRename[name] /\ pc \in Renaming
      /\ SameProcess /\ bench \in Benches
  BY RenameEffect
<1>1. inv' = inv /\ bench' = bench /\ mode' = mode /\ inv \in Int /\ mode # "standard"
  BY <1>0 DEF SameProcess, process, options, TypeInv, TypeOK, StageInv
<1>2. \A b \in Benches, n \in Receipts :
        versioned'[b][n] = IF b = bench /\ n = name /\ plain[b][n] # Absent
                           THEN plain[b][n] ELSE versioned[b][n]
  BY RenameEffect
<1>3. Current(versioned[bench]["run"])'
  <2>1. CASE name = "run"
    <3>1. Current(plain[bench]["run"])
      BY <1>0, <2>1 DEF RenameStage, NewestInv, RunFirst
    <3>2. versioned'[bench]["run"] = plain[bench]["run"]
      BY <1>0, <1>2, <2>1, <3>1 DEF Current
    <3> QED BY <1>1, <3>1, <3>2 DEF Current
  <2>2. CASE name # "run"
    <3>1. Current(versioned[bench]["run"])
      BY <1>0, <2>2 DEF RenameStage, NewestInv, RunFirst, Receipts
    <3>2. versioned'[bench]["run"] = versioned[bench]["run"]
      BY <1>0, <1>2, <2>2 DEF Receipts
    <3> QED BY <1>1, <3>1, <3>2 DEF Current
  <2> QED BY <2>1, <2>2
<1>4. RunFirst'
  <2>1. pc' \in {"rename_compare", "rename_report", "done"}
    BY <1>0 DEF AfterRename, Receipts
  <2> QED BY <1>3, <2>1 DEF RunFirst
<1>5. RunIsNewest'
  <2> SUFFICES ASSUME NEW b \in Benches, NEW n \in {"compare", "report"}, versioned'[b][n] # Absent
               PROVE  versioned'[b]["run"] # Absent /\ versioned'[b]["run"].inv >= versioned'[b][n].inv
    BY <1>1 DEF RunIsNewest
  <2>1. CASE b = bench
    <3>1. versioned'[b]["run"] # Absent /\ versioned'[b]["run"].inv = inv
      BY <1>1, <1>3, <2>1 DEF Current
    <3>2. versioned'[b][n] \in Files(b, n)
      BY <1>2 DEF Files, Receipts
    <3>3. versioned'[b][n].inv <= inv /\ versioned'[b][n].inv \in Int
      BY <3>2, FilesTyped DEF NoneNewer, Receipts
    <3> QED BY <1>1, <3>1, <3>3
  <2>2. CASE b # bench
    BY <1>1, <1>2, <2>2 DEF NewestInv, RunIsNewest, Receipts
  <2> QED BY <2>1, <2>2
<1> QED BY <1>4, <1>5 DEF NewestInv

LEMMA NextNewest == TypeInv /\ AgreeInv /\ NewestInv /\ [Next]_vars => NewestInv'
<1> SUFFICES ASSUME TypeInv, AgreeInv, NewestInv, [Next]_vars PROVE NewestInv'
  OBVIOUS
<1>0. NoneNewer
  BY DEF AgreeInv
<1>1. CASE Process \/ Bench \/ WriteEnvelope \/ WriteErrorReport
  BY <1>1, QuietNewest
<1>2. CASE Write
  BY <1>0, <1>2, WriteNewest
<1>3. ASSUME NEW name \in Receipts, Rename(name) PROVE NewestInv'
  BY <1>0, <1>3, RenameNewest
<1>4. CASE UNCHANGED vars
  BY <1>4 DEF vars, NewestInv, RunFirst, RunIsNewest, Current
<1> QED BY <1>1, <1>2, <1>3, <1>4, Kinds

\* In the directory a consumer reads no receipt is newer than the run receipt,
\* whenever the process fails or dies.
THEOREM RunIsAlwaysNewest == Spec => []RunIsNewest
<1>1. Init => NewestInv
  BY DEF Init, NewestInv, RunFirst, RunIsNewest, Receipts
<1>2. NewestInv => RunIsNewest
  BY DEF NewestInv
<1> QED BY InitType, NextType, InitAgree, NextAgree, <1>1, <1>2, NextNewest, PTL DEF Spec

-----------------------------------------------------------------------------
(* A verdict means that all artifacts are there and counts the worst outcome. *)

EndInv == Progress /\ Finished /\ CodeIsWorst

LEMMA ProcessEnd ==
  ASSUME TypeInv, EndInv, Process \/ WriteEnvelope \/ WriteErrorReport
  PROVE  EndInv'
<1>0. UNCHANGED <<mode, fail_on_warn, plain>>
  BY Quiet DEF options
<1>1. pc' \notin {"compare"} \cup AfterCompare
  BY DEF Process, Start, ConfigFails, SetupFails, ConfigLoads, FinishStandard, Exit,
         WriteCombined, CockpitFails, Kill, WriteEnvelope, WriteErrorReport,
         AfterCompare, AfterReport, Renaming
<1>2. CASE Start \/ Kill
  <2>1. code' = 0 /\ results' = [b \in Benches |-> None] /\ exit' = None
    BY <1>2 DEF Start, Kill, TypeInv, StageInv
  <2>2. \A b \in Benches : results'[b] \notin Outcome
    BY <2>1, NoneAssumption
  <2>3. Progress'
    BY <1>1, <2>2 DEF Progress, AfterCompare, AfterReport
  <2>4. CodeIsWorst'
    BY <2>1, <2>2 DEF CodeIsWorst, SomeResult
  <2>5. Finished'
    BY <2>1, NoneAssumption DEF Finished
  <2> QED BY <2>3, <2>4, <2>5 DEF EndInv
<1>3. CASE ~(Start \/ Kill)
  <2>1. UNCHANGED <<inv, results, code>> /\ pc # "idle"
    BY <1>3 DEF Process, ConfigFails, SetupFails, ConfigLoads, FinishStandard,
         WriteCombined, CockpitFails, WriteEnvelope, WriteErrorReport, process
  <2>2. Progress'
    BY <1>0, <1>1, <2>1 DEF EndInv, Progress, AfterCompare, AfterReport, Complete,
                            CompareInPlace, Current
  <2>3. CodeIsWorst'
    BY <1>0, <2>1 DEF EndInv, CodeIsWorst, SomeResult
  <2>4. Finished'
    <3> SUFFICES ASSUME mode = "standard", exit' \in {0, 2, 3}
                 PROVE  exit' = code /\ \A b \in Benches : results[b] \in Outcome
      BY <1>0, <2>1 DEF Finished
    <3>1. CASE exit' = exit
      BY <2>1, <3>1 DEF EndInv, Finished
    <3>2. CASE exit' # exit
      <4>1. FinishStandard
        BY <1>3, <3>2 DEF Process, ConfigFails, SetupFails, ConfigLoads, Exit,
             WriteCombined, CockpitFails, WriteEnvelope, WriteErrorReport, TypeInv, StageInv
      <4>2. exit' = code /\ \A b \in Benches : results[b] # None /\ results[b] # Error
        BY <4>1 DEF FinishStandard, Exit, Todo, TypeInv, StageInv
      <4> QED BY <4>2 DEF TypeInv, TypeOK
    <3> QED BY <3>1, <3>2
  <2> QED BY <2>2, <2>3, <2>4 DEF EndInv
<1> QED BY <1>2, <1>3

\* A benchmark that could not be checked ends a standard run with a tool error.
LEMMA ErrorEnd ==
  ASSUME TypeInv, EndInv, NEW b \in Benches, results[b] = None, pc # "idle",
         BenchError(b), UNCHANGED <<options, inv, code, files>>
  PROVE  EndInv'
<1>0. UNCHANGED <<mode, fail_on_warn, plain, inv, code>>
  BY DEF options, files
<1>1. /\ \A c \in Benches : results'[c] = IF c = b THEN Error ELSE results[c]
      /\ pc' \in {"idle", "bench"} /\ (mode = "standard" => exit' = 1)
  BY DEF BenchError, Exit, TypeInv, TypeOK
<1>2. \A c \in Benches : results'[c] \in Outcome <=> results[c] \in Outcome
  BY <1>1, Distinct
<1>3. \A c \in Benches : results'[c] \in Outcome => results'[c] = results[c]
  BY <1>1, Distinct
<1>4. Progress'
  BY <1>0, <1>1, <1>3 DEF EndInv, Progress, AfterCompare, AfterReport, Renaming, Complete,
                          CompareInPlace, Current
<1>5. CodeIsWorst'
  <2>1. \A s : SomeResult(s)' <=> SomeResult(s)
    BY <1>2, <1>3 DEF SomeResult
  <2> QED BY <1>0, <2>1 DEF EndInv, CodeIsWorst
<1>6. Finished'
  BY <1>0, <1>1 DEF Finished
<1> QED BY <1>4, <1>5, <1>6 DEF EndInv

\* A benchmark with an outcome has its artifacts in place, and its exit code
\* joins the worst so far.
LEMMA DoneEnd ==
  ASSUME TypeInv, EndInv, BenchDone
  PROVE  EndInv'
<1>0. UNCHANGED <<mode, fail_on_warn, plain, inv, exit>> /\ pc = "done" /\ pc' = "bench"
  BY DEF BenchDone, options, files
<1>1. bench \in Benches /\ outcome \in Outcome /\ results[bench] = None /\ Sound(outcome)
  BY <1>0, InHand DEF Writing, AfterCompare, AfterReport
<1>2. /\ \A c \in Benches : results'[c] = IF c = bench THEN outcome ELSE results[c]
      /\ code' = UpdateMaxExitCode(code, outcome.code)
  BY DEF BenchDone, TypeInv, TypeOK
<1>3. Progress'
  <2> SUFFICES ASSUME mode = "standard", NEW c \in Benches, results'[c] \in Outcome
               PROVE  Complete(c, results'[c])
    BY <1>0 DEF Progress, AfterCompare, AfterReport, Renaming, Complete, CompareInPlace, Current
  <2>1. CASE c = bench
    BY <1>0, <1>2, <2>1 DEF EndInv, Progress, AfterCompare, AfterReport, Complete
  <2>2. CASE c # bench
    BY <1>2, <2>2 DEF EndInv, Progress
  <2> QED BY <2>1, <2>2
<1>4. \A s : SomeResult(s)' <=> SomeResult(s) \/ outcome.compare = s
  <2> TAKE s
  <2>1. SomeResult(s) => SomeResult(s)'
    BY <1>1, <1>2, Distinct DEF SomeResult
  <2>2. outcome.compare = s => SomeResult(s)'
    BY <1>1, <1>2 DEF SomeResult
  <2>3. SomeResult(s)' => SomeResult(s) \/ outcome.compare = s
    BY <1>1, <1>2 DEF SomeResult
  <2> QED BY <2>1, <2>2, <2>3
<1>5. CodeIsWorst'
  <2>1. outcome.code = ExitCode(outcome.compare)
    BY <1>1 DEF Sound
  <2>2. /\ SomeResult("fail")' <=> SomeResult("fail") \/ outcome.compare = "fail"
        /\ SomeResult("warn")' <=> SomeResult("warn") \/ outcome.compare = "warn"
    BY <1>4
  <2>3. code' = IF outcome.code = 2 THEN 2 ELSE IF outcome.code = 3 /\ code # 2 THEN 3 ELSE code
    BY <1>2 DEF UpdateMaxExitCode
  <2>4. code = IF SomeResult("fail") THEN 2
               ELSE IF SomeResult("warn") /\ fail_on_warn THEN 3 ELSE 0
    BY DEF EndInv, CodeIsWorst
  <2>5. outcome.code = IF outcome.compare = "fail" THEN 2
                       ELSE IF outcome.compare = "warn" /\ fail_on_warn THEN 3 ELSE 0
    BY <2>1 DEF ExitCode
  <2>6. code' = IF SomeResult("fail")' THEN 2
                ELSE IF SomeResult("warn")' /\ fail_on_warn THEN 3 ELSE 0
    BY <2>2, <2>3, <2>4, <2>5
  <2> QED BY <1>0, <2>6 DEF CodeIsWorst
<1>6. Finished'
  BY <1>0, NoneAssumption DEF Finished, TypeInv, StageInv
<1> QED BY <1>3, <1>5, <1>6 DEF EndInv

LEMMA BenchEnd ==
  ASSUME TypeInv, EndInv, Bench
  PROVE  EndInv'
<1>1. ASSUME NEW b \in Benches, CheckFails(b) PROVE EndInv'
  BY <1>1, ErrorEnd DEF CheckFails, Todo
<1>2. ASSUME NEW b \in Benches, NEW tally \in Deltas \cup {None}, NEW gate \in Gates,
             CheckSucceeds(b, tally, gate)
      PROVE  EndInv'
  <2>1. UNCHANGED <<mode, fail_on_warn, plain, inv, results, code, exit>> /\ pc' = "run"
    BY <1>2 DEF CheckSucceeds, options, files
  <2>2. Progress'
    BY <2>1 DEF EndInv, Progress, AfterCompare, AfterReport, Renaming, Complete,
                CompareInPlace, Current
  <2>3. Finished' /\ CodeIsWorst'
    BY <2>1 DEF EndInv, Finished, CodeIsWorst, SomeResult
  <2> QED BY <2>2, <2>3 DEF EndInv
<1>3. CASE WriteFails
  <2>1. pc \in Writing /\ pc # "idle"
    BY <1>3 DEF WriteFails, Stages, Writing, Renaming, AfterCompare, AfterReport
  <2>2. bench \in Benches /\ results[bench] = None
    BY <2>1, InHand
  <2> QED BY <1>3, <2>1, <2>2, ErrorEnd DEF WriteFails
<1>4. CASE BenchDone
  BY <1>4, DoneEnd
<1> QED BY <1>1, <1>2, <1>3, <1>4 DEF Bench

\* One more artifact of the benchmark in hand is in place; the artifacts of the
\* benchmarks already done are not touched.
LEMMA WriteEnd ==
  ASSUME TypeInv, EndInv, Write
  PROVE  EndInv'
<1>0. /\ pc \in PutStages /\ SameProcess
      /\ bench \in Benches /\ results[bench] = None
  BY WriteSteps, InHand DEF PutStages, Writing, AfterCompare, AfterReport
<1>1. UNCHANGED <<inv, bench, mode, fail_on_warn, results, code, exit, outcome>>
  BY <1>0 DEF SameProcess, process, options
<1>2. \A b \in Benches, n \in Names :
        plain'[b][n] = IF b = bench /\ n = Target(pc) THEN Product(pc) ELSE plain[b][n]
  BY WriteEffect
<1>3. Finished' /\ CodeIsWorst'
  BY <1>1 DEF EndInv, Finished, CodeIsWorst, SomeResult
<1>4. ASSUME mode = "standard" PROVE Progress'
  <2>1. \A b \in Benches : results[b] \in Outcome => Complete(b, results[b])'
    <3> SUFFICES ASSUME NEW b \in Benches, results[b] \in Outcome
                 PROVE  Complete(b, results[b])'
      OBVIOUS
    <3>1. b # bench
      BY <1>0, Distinct
    <3>2. \A n \in Names : plain'[b][n] = plain[b][n]
      BY <1>2, <3>1
    <3>3. Complete(b, results[b])
      BY <1>4 DEF EndInv, Progress
    <3> QED BY <1>1, <3>2, <3>3 DEF Complete, CompareInPlace, Current, Names, Receipts
  <2>2. \A n \in Names : n # Target(pc) => plain'[bench][n] = plain[bench][n]
    BY <1>0, <1>2
  <2>3. pc \in PutStages => plain'[bench][Target(pc)] = Product(pc)
    BY <1>0, <1>2 DEF Target, PutStages, Names, Receipts
  <2>4. pc' \in {"compare"} \cup AfterCompare => Current(plain[bench]["run"])'
    <3>1. CASE pc = "run"
      <4>1. plain'[bench]["run"] \in File /\ plain'[bench]["run"].inv = inv
        BY <1>0, <2>3, <3>1, WriteEffect DEF Target
      <4> QED BY <1>1, <4>1, Distinct DEF Current
    <3>2. CASE pc # "run"
      <4>1. Current(plain[bench]["run"])
        BY <1>0, <1>4, <3>2 DEF EndInv, Progress, PutStages, AfterCompare, AfterReport
      <4>2. plain'[bench]["run"] = plain[bench]["run"]
        BY <1>0, <2>2, <3>2 DEF Target, Names, Receipts, PutStages
      <4> QED BY <1>1, <4>1, <4>2 DEF Current
    <3> QED BY <3>1, <3>2
  <2>5. pc' \in AfterCompare => CompareInPlace(bench, outcome)'
    <3>1. CASE pc = "run"
      BY <3>1, WriteSteps DEF AfterCompare, AfterReport, Renaming
    <3>2. CASE pc = "compare"
      <4>1. IF outcome.compare = None THEN plain'[bench]["compare"] = Absent
            ELSE plain'[bench]["compare"] \in File /\ plain'[bench]["compare"].inv = inv
        BY <1>0, <2>3, <3>2, WriteEffect DEF Target
      <4> QED BY <1>1, <4>1, Distinct DEF Current, CompareInPlace
    <3>3. CASE pc \notin {"run", "compare"}
      <4>1. CompareInPlace(bench, outcome)
        BY <1>0, <1>4, <3>3 DEF EndInv, Progress, PutStages, AfterCompare, AfterReport
      <4>2. plain'[bench]["compare"] = plain[bench]["compare"]
        BY <1>0, <2>2, <3>3 DEF Target, Names, Receipts, PutStages
      <4> QED BY <1>1, <4>1, <4>2 DEF Current, CompareInPlace
    <3> QED BY <3>1, <3>2, <3>3
  <2>6. pc' \in AfterReport => Current(plain[bench]["report"])'
    <3>1. CASE pc \in {"run", "compare"}
      BY <3>1, WriteSteps DEF AfterReport, Renaming
    <3>2. CASE pc = "report"
      <4>1. plain'[bench]["report"] \in File /\ plain'[bench]["report"].inv = inv
        BY <1>0, <2>3, <3>2, WriteEffect DEF Target
      <4> QED BY <1>1, <4>1, Distinct DEF Current
    <3>3. CASE pc \notin {"run", "compare", "report"}
      <4>1. Current(plain[bench]["report"])
        BY <1>0, <1>4, <3>3 DEF EndInv, Progress, PutStages, AfterReport
      <4>2. plain'[bench]["report"] = plain[bench]["report"]
        BY <1>0, <2>2, <3>3 DEF Target, Names, Receipts, PutStages
      <4> QED BY <1>1, <4>1, <4>2 DEF Current
    <3> QED BY <3>1, <3>2, <3>3
  <2>7. pc' = "done" => Current(plain[bench]["comment"])'
    <3> SUFFICES ASSUME pc' = "done" PROVE Current(plain[bench]["comment"])'
      OBVIOUS
    <3>1. pc = "comment"
      BY <1>0, WriteSteps DEF PutStages
    <3>2. plain'[bench]["comment"] \in File /\ plain'[bench]["comment"].inv = inv
      BY <1>0, <2>3, <3>1, WriteEffect DEF Target
    <3> QED BY <1>1, <3>2, Distinct DEF Current
  <2> QED BY <1>1, <2>1, <2>4, <2>5, <2>6, <2>7 DEF Progress
<1>5. mode # "standard" => Progress'
  BY <1>1 DEF Progress
<1> QED BY <1>3, <1>4, <1>5 DEF EndInv

LEMMA RenameEnd ==
  ASSUME TypeInv, EndInv, NEW name \in Receipts, Rename(name)
  PROVE  EndInv'
<1>1. SameProcess /\ pc \in Renaming
  BY RenameEffect
<1>2. UNCHANGED <<mode, fail_on_warn, results, code, exit>> /\ mode # "standard"
  BY <1>1 DEF SameProcess, options, process, TypeInv, StageInv
<1> QED BY <1>2 DEF EndInv, Progress, Finished, CodeIsWorst, SomeResult

LEMMA NextEnd == TypeInv /\ EndInv /\ [Next]_vars => EndInv'
<1> SUFFICES ASSUME TypeInv, EndInv, [Next]_vars PROVE EndInv'
  OBVIOUS
<1>1. CASE Process \/ WriteEnvelope \/ WriteErrorReport
  BY <1>1, ProcessEnd
<1>2. CASE Bench \/ Write
  BY <1>2, BenchEnd, WriteEnd
<1>3. ASSUME NEW name \in Receipts, Rename(name) PROVE EndInv'
  BY <1>3, RenameEnd
<1>4. CASE UNCHANGED vars
  BY <1>4 DEF vars, EndInv, Progress, Complete, CompareInPlace, Current, Finished,
              CodeIsWorst, SomeResult
<1> QED BY <1>1, <1>2, <1>3, <1>4, Kinds

LEMMA InitEnd == Init => EndInv
<1> SUFFICES ASSUME Init PROVE EndInv
  OBVIOUS
<1>1. \A b \in Benches : results[b] \notin Outcome
  BY NoneAssumption DEF Init
<1> QED BY <1>1, NoneAssumption DEF Init, EndInv, Progress, Finished, CodeIsWorst, SomeResult,
                                    AfterCompare, AfterReport, Renaming

LEMMA EndHolds == Spec => [](TypeInv /\ EndInv)
BY InitType, NextType, InitEnd, NextEnd, PTL DEF Spec

\* A standard run that ends in a verdict has written the four artifacts of
\* every benchmark in this very invocation.
THEOREM ArtifactsOfThisRun == Spec => []ArtifactsAreCurrent
<1>1. EndInv => ArtifactsAreCurrent
  BY DEF EndInv, Progress, Finished, ArtifactsAreCurrent, Complete, CompareInPlace
<1> QED BY <1>1, EndHolds, PTL

\* The exit code is 2 exactly when a comparison failed, 3 exactly when none did
\* and one warned under --fail-on-warn, in whatever order the benchmarks came.
THEOREM ExitIsWorst == Spec => []ExitCodeIsWorst
<1>1. EndInv => ExitCodeIsWorst
  <2> SUFFICES ASSUME EndInv, mode = "standard", exit \in {0, 2, 3}
               PROVE  LET Some(s) == \E b \in Benches : results[b].compare = s IN
                        /\ exit = 2 <=> Some("fail")
                        /\ exit = 3 <=> ~Some("fail") /\ Some("warn") /\ fail_on_warn
    BY DEF ExitCodeIsWorst
  <2>1. exit = code /\ \A b \in Benches : results[b] \in Outcome
    BY DEF EndInv, Finished
  <2>2. \A s : SomeResult(s) <=> \E b \in Benches : results[b].compare = s
    BY <2>1 DEF SomeResult
  <2>3. exit = IF SomeResult("fail") THEN 2
               ELSE IF SomeResult("warn") /\ fail_on_warn THEN 3 ELSE 0
    BY <2>1 DEF EndInv, CodeIsWorst
  <2> QED BY <2>2, <2>3
<1> QED BY <1>1, EndHolds, PTL

-----------------------------------------------------------------------------
(* The sensor report of a cockpit run. *)

\* A benchmark that failed or could not be checked.
Bad == \E b \in Benches : \/ results[b] = Error
                          \/ results[b] \in Outcome /\ results[b].report = "fail"

LEMMA WorstIsFail == Bad => Worst({results[b] : b \in Benches}) = "fail"
<1> SUFFICES ASSUME NEW b \in Benches, \/ results[b] = Error
                                       \/ results[b] \in Outcome /\ results[b].report = "fail"
             PROVE  Worst({results[c] : c \in Benches}) = "fail"
  BY DEF Bad
<1> DEFINE rs == {results[c] : c \in Benches}
<1>1. CASE Error \in rs
  BY <1>1 DEF Worst
<1>2. CASE Error \notin rs
  <2>1. results[b] \in rs \ {Error} /\ results[b].report = "fail"
    BY <1>2
  <2>2. "fail" \in {r.report : r \in rs \ {Error}}
    BY <2>1
  <2> QED BY <2>2 DEF Worst
<1> QED BY <1>1, <1>2

LEMMA NextReport == TypeInv /\ ReportInv /\ [Next]_vars => ReportInv'
<1> SUFFICES ASSUME TypeInv, ReportInv, [Next]_vars PROVE ReportInv'
  OBVIOUS
<1>0. CockpitReports' <=> (mode' = "cockpit" /\ exit' = 0 => \E d \in {"out", "fallback"} : Reported(d)')
  BY DEF CockpitReports, Reported
<1>1. CASE UNCHANGED vars
  BY <1>1 DEF vars, ReportInv, Reported, CockpitReports
<1>2. CASE WriteEnvelope
  <2>1. /\ pc' = "combined" /\ inv' = inv /\ results' = results /\ exit' = None
        /\ envelope' = [envelope EXCEPT !["out"] =
             [inv |-> inv, status |-> Worst({results[b] : b \in Benches}), artifacts |-> Artifacts]]
    BY <1>2 DEF WriteEnvelope, process, TypeInv, StageInv
  <2>2. /\ envelope'["out"].inv = inv /\ envelope'["out"] \in Envelope \cup {Absent}
        /\ envelope'["out"].status = Worst({results[b] : b \in Benches})
        /\ envelope'["out"] = [inv |-> inv, status |-> Worst({results[b] : b \in Benches}),
                               artifacts |-> Artifacts]
    BY <1>2, <2>1, EnvelopeType DEF TypeInv, TypeOK
  <2>3. envelope'["out"] \in Envelope
    <3>1. inv \in 1 .. MaxInvocations
      BY <1>2, BoundAssumption DEF WriteEnvelope, TypeInv, TypeOK, StageInv
    <3>2. Worst({results[b] : b \in Benches}) \in MetricStatus
      BY DEF Worst, MetricStatus
    <3>3. Artifacts \in SUBSET (Benches \X Receipts)
      BY DEF Artifacts
    <3> QED BY <2>2, <3>1, <3>2, <3>3 DEF Envelope
  <2>4. Reported("out")'
    BY <2>1, <2>2, <2>3, WorstIsFail, Distinct DEF Reported, Bad
  <2> QED BY <1>0, <2>1, <2>4, NoneAssumption DEF ReportInv
<1>3. CASE WriteCombined
  <2>1. Reported("out") /\ UNCHANGED <<inv, results, envelope>> /\ pc' = "idle"
    BY <1>3 DEF WriteCombined, Exit, ReportInv, process, files
  <2>2. Reported("out")'
    BY <2>1 DEF Reported
  <2> QED BY <1>0, <2>1, <2>2 DEF ReportInv
<1>4. CASE WriteErrorReport
  <2>1. pc' = "idle" /\ inv' = inv /\ results' = results
    BY <1>4 DEF WriteErrorReport, Exit, process
  <2>2. CASE exit' = 0
    <3>1. envelope' = [envelope EXCEPT ![FallbackDir] =
                         [inv |-> inv, status |-> "fail", artifacts |-> {}]]
      BY <1>4, <2>2 DEF WriteErrorReport, Exit
    <3>2. PICK d \in {"out", "fallback"} : d = FallbackDir
      BY DEF FallbackDir
    <3>3. envelope'[d] = [inv |-> inv, status |-> "fail", artifacts |-> {}]
      BY <3>1, <3>2 DEF TypeInv, TypeOK
    <3>4. [inv |-> inv, status |-> "fail", artifacts |-> {}] \in Envelope
      <4>1. inv \in 1 .. MaxInvocations
        BY <1>4, BoundAssumption DEF WriteErrorReport, TypeInv, TypeOK, StageInv
      <4> QED BY <4>1 DEF Envelope, MetricStatus
    <3>5. Reported(d)'
      BY <2>1, <3>3, <3>4, Distinct DEF Reported
    <3> QED BY <1>0, <2>1, <3>5 DEF ReportInv
  <2>3. CASE exit' # 0
    BY <1>0, <2>1, <2>3 DEF ReportInv
  <2> QED BY <2>2, <2>3
<1>5. CASE Process /\ ~WriteCombined
  <2>1. pc' # "combined" /\ mode' = mode
    BY <1>5 DEF Process, Start, ConfigFails, SetupFails, ConfigLoads, FinishStandard, Exit,
         CockpitFails, Kill, options
  <2>2. mode = "cockpit" => exit' # 0
    BY <1>5, NoneAssumption DEF Process, Start, ConfigFails, SetupFails, ConfigLoads,
         FinishStandard, Exit, CockpitFails, Kill, TypeInv, StageInv
  <2> QED BY <1>0, <2>1, <2>2 DEF ReportInv
<1>6. CASE Bench \/ Write
  <2>1. pc' # "combined" /\ (exit' = exit \/ exit' = 1) /\ pc # "idle"
    <3>1. CASE Bench
      BY <3>1 DEF Bench, CheckFails, CheckSucceeds, WriteFails, BenchDone, BenchError, Exit
    <3>2. CASE Write
      BY <3>2, WriteSteps DEF PutStages, SameProcess
    <3> QED BY <1>6, <3>1, <3>2
  <2>2. exit' # 0
    BY <2>1, NoneAssumption DEF TypeInv, StageInv
  <2> QED BY <1>0, <2>1, <2>2 DEF ReportInv
<1>7. ASSUME NEW name \in Receipts, Rename(name) PROVE ReportInv'
  <2>1. pc' # "combined" /\ exit' = exit /\ pc # "idle"
    BY <1>7, RenameEffect DEF AfterRename, Receipts, SameProcess, Renaming
  <2>2. exit' # 0
    BY <2>1, NoneAssumption DEF TypeInv, StageInv
  <2> QED BY <1>0, <2>1, <2>2 DEF ReportInv
<1> QED BY <1>1, <1>2, <1>3, <1>4, <1>5, <1>6, <1>7, Kinds

\* A cockpit run that exits 0 has left the sensor report of this invocation,
\* and a failure if any benchmark failed or could not be checked.
THEOREM CockpitAlwaysReports == Spec => []CockpitReports
<1>1. Init => ReportInv
  BY NoneAssumption DEF Init, ReportInv, CockpitReports
<1>2. ReportInv => CockpitReports
  BY DEF ReportInv
<1> QED BY InitType, NextType, NextReport, <1>1, <1>2, PTL DEF Spec

-----------------------------------------------------------------------------
(***************************************************************************)
(* Comparison.  The counts are right because each metric is judged once    *)
(* and downgraded at most once (Pending); a failure is justified because   *)
(* what a metric's status says of its budget and of its rules (Judged)     *)
(* does not depend on the order in which the loops reach it.               *)
(***************************************************************************)

\* What is still to be judged has no status, and only measured metrics have one.
Untouched ==
  /\ stage = "evaluate" => \A m \in todo : reading[m] = None
  /\ \A m \in Metrics : status[m] = None <=> reading[m] = None

\* The second loop only goes through failures that are not yet downgraded.
Pending ==
  /\ stage = "tradeoff" => todo \subseteq Failed
  /\ stage = "done" => todo = {}

\* No rule for m is satisfied, told from the readings alone.
Unpaid(m) ==
  \A i \in RulesFor(m) :
    \/ Tradeoffs[i].require = {} \/ Tradeoffs[i].allow
    \/ \E q \in Tradeoffs[i].require :
         q.probe \/ reading[q.metric] = None \/ ~ImprovedBy(q.metric, q.min)

\* A metric the loops are through with fails iff it is over budget and, in the
\* second loop, unpaid for; one still to be traded is over budget.
Judged ==
  /\ stage = "evaluate" =>
       \A m \in Metrics \ todo : status[m] = "fail" <=> OverBudget(m, reading[m])
  /\ stage # "evaluate" =>
       \A m \in Metrics :
         IF m \in todo THEN OverBudget(m, reading[m])
         ELSE status[m] = "fail" <=> OverBudget(m, reading[m]) /\ Unpaid(m)

CompareInv == CompareTypeOK /\ CountsMatchDeltas /\ ReasonsMatchDeltas /\ Untouched /\ Pending /\ Judged

-----------------------------------------------------------------------------
(* Lemmas. *)

With(st, s) == {m \in Metrics : st[m] = s}

\* Giving a metric another status moves it from one counter to another.
LEMMA Move ==
  ASSUME NEW st \in [Metrics -> MetricStatus \cup {None}], NEW m \in Metrics,
         NEW to \in MetricStatus, st[m] # to
  PROVE
    /\ Cardinality(With([st EXCEPT ![m] = to], to)) = Cardinality(With(st, to)) + 1
    /\ st[m] \in MetricStatus =>
         Cardinality(With([st EXCEPT ![m] = to], st[m])) = Cardinality(With(st, st[m])) - 1
    /\ \A s \in MetricStatus \ {to, st[m]} : With([st EXCEPT ![m] = to], s) = With(st, s)
<1> DEFINE new == [st EXCEPT ![m] = to]
<1>1. \A s : IsFiniteSet(With(st, s))
  BY MetricsAssumption, FS_Subset DEF With
<1>2. With(new, to) = With(st, to) \cup {m} /\ m \notin With(st, to)
  BY DEF With
<1>3. Cardinality(With(new, to)) = Cardinality(With(st, to)) + 1
  BY <1>1, <1>2, FS_AddElement
<1>4. ASSUME st[m] \in MetricStatus
      PROVE  Cardinality(With(new, st[m])) = Cardinality(With(st, st[m])) - 1
  <2>1. With(new, st[m]) = With(st, st[m]) \ {m} /\ m \in With(st, st[m])
    BY DEF With
  <2> QED BY <1>1, <2>1, FS_RemoveElement
<1>5. \A s \in MetricStatus \ {to, st[m]} : With(new, s) = With(st, s)
  BY DEF With
<1> QED BY <1>3, <1>4, <1>5

\* The counters are natural numbers; one is positive iff a metric has the status.
LEMMA CountPositive ==
  ASSUME NEW st, NEW s
  PROVE  /\ Cardinality(With(st, s)) \in Nat
         /\ Cardinality(With(st, s)) > 0 <=> \E m \in Metrics : st[m] = s
<1>1. IsFiniteSet(With(st, s))
  BY MetricsAssumption, FS_Subset DEF With
<1>2. Cardinality(With(st, s)) \in Nat
  BY <1>1, FS_CardinalityType
<1>3. Cardinality(With(st, s)) = 0 <=> With(st, s) = {}
  BY <1>1, FS_EmptySet
<1> QED BY <1>2, <1>3 DEF With

\* The status evaluate_budget gives is a failure iff the reading is over budget.
LEMMA BudgetFails ==
  ASSUME NEW m \in Metrics, NEW r \in Reading, r.baseline > 0
  PROVE  /\ EvaluateBudget(m, r) \in MetricStatus
         /\ EvaluateBudget(m, r) = "fail" <=> OverBudget(m, r)
<1> DEFINE budget == Budgets[m]
           b == r.baseline
           c == r.current
           raw == DetermineStatus(CalculateRegression(b, c, budget.direction), b, budget)
<1>1. /\ budget.threshold \in Nat /\ budget.warn \in Nat
      /\ budget.direction \in {"lower", "higher"}
      /\ budget.noise_policy \in {"ignore", "warn", "skip"}
  BY BudgetsAssumption DEF Budget
<1>2. /\ b \in Nat /\ c \in Nat /\ b > 0
      /\ r.noisy \in BOOLEAN /\ r.significant \in BOOLEAN
  BY ValuesAssumption DEF Reading
<1>3. r # None
  BY ReadingAssumption
<1>4. raw \in {"pass", "warn", "fail"}
  BY DEF DetermineStatus
<1>5. budget.threshold * b \in Nat
  BY <1>1, <1>2
<1>6. CASE budget.direction = "lower"
  <2>1. (100 + budget.threshold) * b = 100 * b + budget.threshold * b
    BY <1>1, <1>2
  <2>2. raw = "fail" <=> 100 * c > (100 + budget.threshold) * b
    BY <1>1, <1>2, <1>5, <1>6, <2>1 DEF DetermineStatus, CalculateRegression
  <2> QED BY <1>1, <1>2, <1>3, <1>4, <1>6, <2>2, SignificanceAssumption
          DEF EvaluateBudget, OverBudget, MetricStatus
<1>7. CASE budget.direction = "higher"
  <2>1. (100 - budget.threshold) * b = 100 * b - budget.threshold * b
    BY <1>1, <1>2
  <2>2. raw = "fail" <=> 100 * c < (100 - budget.threshold) * b
    BY <1>1, <1>2, <1>5, <1>7, <2>1 DEF DetermineStatus, CalculateRegression
  <2> QED BY <1>1, <1>2, <1>3, <1>4, <1>7, <2>2, SignificanceAssumption
          DEF EvaluateBudget, OverBudget, MetricStatus
<1> QED BY <1>1, <1>6, <1>7

\* ImprovedBy and OverBudget are about the readings: a metric has a delta iff
\* it has a reading, so a rule is satisfied iff the readings say so.
LEMMA PaidFor ==
  ASSUME Untouched, CompareTypeOK, NEW m \in Metrics
  PROVE  SatisfiedFor(m) = {} <=> Unpaid(m)
<1>0. \A i \in DOMAIN Tradeoffs : Tradeoffs[i] \in Rule
  BY TradeoffsAssumption
<1>1. \A i \in DOMAIN Tradeoffs : \A q \in Tradeoffs[i].require : q.metric \in Metrics
  BY <1>0 DEF Rule
<1>2. \A i \in RulesFor(m) : Satisfied(Tradeoffs[i]) <=>
        ~(\/ Tradeoffs[i].require = {} \/ Tradeoffs[i].allow
          \/ \E q \in Tradeoffs[i].require :
               q.probe \/ reading[q.metric] = None \/ ~ImprovedBy(q.metric, q.min))
  BY <1>1, Zenon DEF Untouched, Satisfied, RulesFor
<1> QED BY <1>2, Zenon DEF SatisfiedFor, Unpaid

-----------------------------------------------------------------------------
(* The invariant is inductive. *)

LEMMA CompareInitInv == CompareInit => CompareInv
<1> SUFFICES ASSUME CompareInit PROVE CompareInv
  OBVIOUS
<1>1. None \notin MetricStatus
  BY ReadingAssumption
<1>2. CompareTypeOK
  BY DEF CompareInit, CompareTypeOK, VerdictCounts, NoCounts
<1>3. CountsMatchDeltas
  <2> SUFFICES ASSUME NEW s \in MetricStatus
               PROVE  counts[s] = Cardinality({m \in Metrics : status[m] = s})
    BY DEF CountsMatchDeltas
  <2>1. {m \in Metrics : status[m] = s} = {}
    BY <1>1 DEF CompareInit
  <2> QED BY <2>1, FS_EmptySet DEF CompareInit, NoCounts
<1>4. ReasonsMatchDeltas
  BY <1>1 DEF CompareInit, ReasonsMatchDeltas, MetricStatus
<1>5. Untouched /\ Pending /\ Judged
  BY DEF CompareInit, Untouched, Pending, Judged
<1> QED BY <1>2, <1>3, <1>4, <1>5 DEF CompareInv

\* Counting what EvaluateMetric has just given a status.
LEMMA CountOne ==
  ASSUME CompareTypeOK, CountsMatchDeltas, NEW m \in Metrics, status[m] = None,
         NEW s \in MetricStatus, status' = [status EXCEPT ![m] = s], counts' = Count(counts, s)
  PROVE  CountsMatchDeltas' /\ counts' \in VerdictCounts /\ status' \in [Metrics -> MetricStatus \cup {None}]
<1>1. status \in [Metrics -> MetricStatus \cup {None}] /\ counts \in [MetricStatus -> Nat]
  BY DEF CompareTypeOK, VerdictCounts
<1>2. None \notin MetricStatus
  BY ReadingAssumption
<1>3. \A t \in MetricStatus : counts[t] = Cardinality(With(status, t))
  BY DEF CountsMatchDeltas, With
<1>4. /\ Cardinality(With(status', s)) = Cardinality(With(status, s)) + 1
      /\ \A t \in MetricStatus \ {s} : With(status', t) = With(status, t)
  <2>1. status[m] # s /\ \A t \in MetricStatus : t # status[m]
    BY <1>2
  <2>2. /\ Cardinality(With([status EXCEPT ![m] = s], s)) = Cardinality(With(status, s)) + 1
        /\ \A t \in MetricStatus \ {s, status[m]} : With([status EXCEPT ![m] = s], t) = With(status, t)
    BY <1>1, <2>1, Move
  <2> QED BY <2>1, <2>2
<1>5. counts' = [counts EXCEPT ![s] = @ + 1]
  BY DEF Count
<1>6. \A t \in MetricStatus : counts'[t] = Cardinality(With(status', t))
  BY <1>1, <1>3, <1>4, <1>5
<1> QED BY <1>1, <1>5, <1>6 DEF CountsMatchDeltas, With, VerdictCounts

LEMMA EvaluateIndInv ==
  ASSUME CompareInv, NEW m \in Metrics, NEW r \in Reading \cup {None}, EvaluateMetric(m, r)
  PROVE  CompareInv'
<1> USE DEF CompareInv
<1>0. /\ stage = "evaluate" /\ stage' = "evaluate" /\ m \in todo /\ todo' = todo \ {m}
      /\ reading' = [reading EXCEPT ![m] = r]
  BY DEF EvaluateMetric
<1>1. None \notin MetricStatus /\ None \notin Reading
  BY ReadingAssumption
<1>2. reading \in [Metrics -> Reading \cup {None}] /\ status \in [Metrics -> MetricStatus \cup {None}]
      /\ todo \subseteq Metrics /\ reasons \subseteq Reason
  BY DEF CompareTypeOK
<1>3. status[m] = None /\ reading[m] = None
  BY <1>0 DEF Untouched
<1>4. CASE r = None
  <2>1. UNCHANGED <<status, counts, reasons>>
    BY <1>4 DEF EvaluateMetric
  <2>2. reading' = reading
    BY <1>0, <1>2, <1>3, <1>4
  <2>3. ~OverBudget(m, reading[m])
    BY <1>3 DEF OverBudget
  <2>4. CompareTypeOK' /\ CountsMatchDeltas' /\ ReasonsMatchDeltas'
    BY <1>0, <2>1, <2>2 DEF CompareTypeOK, CountsMatchDeltas, ReasonsMatchDeltas
  <2>5. Untouched' /\ Pending'
    BY <1>0, <2>1, <2>2 DEF Untouched, Pending
  <2>6. Judged'
    BY <1>0, <1>1, <1>3, <2>1, <2>2, <2>3 DEF Judged, OverBudget, MetricStatus
  <2> QED BY <2>4, <2>5, <2>6
<1>5. CASE r # None
  <2>1. r \in Reading /\ r.baseline \in Nat
    BY <1>5, ValuesAssumption DEF Reading
  <2>2. PICK s \in MetricStatus :
          /\ status' = [status EXCEPT ![m] = s]
          /\ counts' = Count(counts, s)
          /\ reasons' \in {reasons, reasons \cup {<<m, s>>}}
          /\ s \in {"warn", "fail"} => reasons' = reasons \cup {<<m, s>>}
          /\ s = "fail" <=> OverBudget(m, r)
    <3>1. CASE r.baseline = 0
      BY <1>5, <2>1, <3>1 DEF EvaluateMetric, MetricStatus, OverBudget
    <3>2. CASE r.baseline > 0
      <4>1. /\ EvaluateBudget(m, r) \in MetricStatus
            /\ EvaluateBudget(m, r) = "fail" <=> OverBudget(m, r)
        BY <2>1, <3>2, BudgetFails
      <4> QED BY <1>5, <2>1, <3>2, <4>1 DEF EvaluateMetric
    <3> QED BY <2>1, <3>1, <3>2
  <2>3. CountsMatchDeltas' /\ counts' \in VerdictCounts /\ status' \in [Metrics -> MetricStatus \cup {None}]
    BY <1>3, <2>2, CountOne
  <2>4. CompareTypeOK'
    BY <1>0, <1>2, <2>1, <2>2, <2>3 DEF CompareTypeOK, Reason
  <2>5. ReasonsMatchDeltas'
    <3> SUFFICES ASSUME NEW n \in Metrics, NEW t \in {"warn", "fail"}
                 PROVE  <<n, t>> \in reasons' <=> status'[n] = t
      BY DEF ReasonsMatchDeltas
    <3>1. <<n, t>> \in reasons <=> status[n] = t
      BY DEF ReasonsMatchDeltas
    <3>2. CASE n = m
      BY <1>1, <1>2, <1>3, <2>2, <3>1, <3>2 DEF MetricStatus
    <3>3. CASE n # m
      BY <1>2, <2>2, <3>1, <3>3
    <3> QED BY <3>2, <3>3
  <2>6. Untouched' /\ Pending'
    BY <1>0, <1>1, <1>2, <1>5, <2>2 DEF Untouched, Pending
  <2>7. Judged'
    BY <1>0, <1>2, <2>2 DEF Judged, OverBudget
  <2> QED BY <2>3, <2>4, <2>5, <2>6, <2>7
<1> QED BY <1>4, <1>5

LEMMA StartIndInv ==
  ASSUME CompareInv, StartTradeoffs
  PROVE  CompareInv'
<1> USE DEF CompareInv
<1>1. /\ stage = "evaluate" /\ todo = {} /\ stage' = "tradeoff" /\ todo' = Failed
      /\ UNCHANGED <<reading, status, counts, reasons>>
  BY DEF StartTradeoffs
<1>2. CompareTypeOK' /\ CountsMatchDeltas' /\ ReasonsMatchDeltas'
  BY <1>1 DEF CompareTypeOK, CountsMatchDeltas, ReasonsMatchDeltas, Failed
<1>3. Untouched' /\ Pending'
  BY <1>1 DEF Untouched, Pending, Failed
<1>4. Judged'
  BY <1>1 DEF Judged, Failed, OverBudget, Unpaid
<1> QED BY <1>2, <1>3, <1>4

\* Counting a downgrade: the failure counter it takes from is positive.
LEMMA CountDowngrade ==
  ASSUME CompareTypeOK, CountsMatchDeltas, NEW m \in Metrics, status[m] = "fail",
         NEW to \in {"warn", "pass"}, Downgrade(m, to)
  PROVE  CountsMatchDeltas' /\ counts' \in VerdictCounts /\ status' \in [Metrics -> MetricStatus \cup {None}]
<1>1. status \in [Metrics -> MetricStatus \cup {None}] /\ counts \in [MetricStatus -> Nat]
  BY DEF CompareTypeOK, VerdictCounts
<1>2. to \in MetricStatus /\ "fail" \in MetricStatus /\ to # "fail" /\ status[m] # to
  BY DEF MetricStatus
<1>3. \A t \in MetricStatus : counts[t] = Cardinality(With(status, t))
  BY DEF CountsMatchDeltas, With
<1>4. /\ Cardinality(With([status EXCEPT ![m] = to], to)) = Cardinality(With(status, to)) + 1
      /\ Cardinality(With([status EXCEPT ![m] = to], "fail")) = Cardinality(With(status, "fail")) - 1
      /\ \A t \in MetricStatus \ {to, "fail"} : With([status EXCEPT ![m] = to], t) = With(status, t)
  <2>1. status[m] \in MetricStatus
    BY <1>2
  <2>2. /\ Cardinality(With([status EXCEPT ![m] = to], to)) = Cardinality(With(status, to)) + 1
        /\ Cardinality(With([status EXCEPT ![m] = to], status[m])) = Cardinality(With(status, status[m])) - 1
        /\ \A t \in MetricStatus \ {to, status[m]} : With([status EXCEPT ![m] = to], t) = With(status, t)
    BY <1>1, <1>2, <2>1, Move
  <2> QED BY <2>2
<1>5. counts["fail"] > 0
  BY <1>2, <1>3, CountPositive
<1>6. /\ status' = [status EXCEPT ![m] = to]
      /\ counts' = [[counts EXCEPT !["fail"] = @ - 1] EXCEPT ![to] = @ + 1]
  BY DEF Downgrade, Count
<1>7. \A t \in MetricStatus : counts'[t] = Cardinality(With(status', t))
  BY <1>1, <1>2, <1>3, <1>4, <1>6
<1> QED BY <1>1, <1>2, <1>5, <1>6, <1>7 DEF CountsMatchDeltas, With, VerdictCounts

LEMMA TradeIndInv ==
  ASSUME CompareInv, NEW m \in Metrics, TradeMetric(m)
  PROVE  CompareInv'
<1> USE DEF CompareInv
<1>0. /\ stage = "tradeoff" /\ stage' = "tradeoff" /\ m \in todo /\ todo' = todo \ {m}
      /\ reading' = reading
  BY DEF TradeMetric
<1>1. None \notin MetricStatus
  BY ReadingAssumption
<1>2. /\ status \in [Metrics -> MetricStatus \cup {None}] /\ todo \subseteq Failed
      /\ reasons \subseteq Reason /\ status[m] = "fail"
  BY <1>0 DEF CompareTypeOK, Pending, Failed
<1>3. SatisfiedFor(m) = {} <=> Unpaid(m)
  BY PaidFor
<1>4. /\ \A n \in Metrics : Unpaid(n)' <=> Unpaid(n)
      /\ \A n \in Metrics : OverBudget(n, reading[n])' <=> OverBudget(n, reading[n])
  BY <1>0 DEF Unpaid, ImprovedBy, OverBudget
<1>5. OverBudget(m, reading[m])
  BY <1>0 DEF Judged
<1>6. CASE \E i \in SatisfiedFor(m) : Downgrade(m, Tradeoffs[i].downgrade_to)
  <2>1. PICK i \in SatisfiedFor(m) : Downgrade(m, Tradeoffs[i].downgrade_to)
    BY <1>6
  <2> DEFINE to == Tradeoffs[i].downgrade_to
  <2>2. to \in {"warn", "pass"}
    <3>1. Tradeoffs[i] \in Rule
      BY TradeoffsAssumption DEF SatisfiedFor, RulesFor
    <3> QED BY <3>1 DEF Rule
  <2> HIDE DEF to
  <2>3. /\ status' = [status EXCEPT ![m] = to]
        /\ reasons' = (reasons \ {<<m, "fail">>}) \cup {Tradeoff("applied")}
                      \cup (IF to = "warn" THEN {<<m, "warn">>} ELSE {})
    BY <2>1 DEF to, Downgrade
  <2>4. CountsMatchDeltas' /\ counts' \in VerdictCounts /\ status' \in [Metrics -> MetricStatus \cup {None}]
    <3>1. Downgrade(m, to)
      BY <2>1 DEF to
    <3> QED BY <1>2, <2>2, <3>1, CountDowngrade
  <2>5. CompareTypeOK'
    <3>1. reasons' \subseteq Reason
      BY <1>2, <2>3 DEF Reason, MetricStatus
    <3> QED BY <1>0, <2>4, <3>1 DEF CompareTypeOK
  <2>6. ReasonsMatchDeltas'
    <3> SUFFICES ASSUME NEW n \in Metrics, NEW t \in {"warn", "fail"}
                 PROVE  <<n, t>> \in reasons' <=> status'[n] = t
      BY DEF ReasonsMatchDeltas
    <3>1. /\ <<n, t>> \in reasons <=> status[n] = t
          /\ <<m, "warn">> \notin reasons
      BY <1>2 DEF ReasonsMatchDeltas
    <3>2. <<n, t>> # Tradeoff("applied")
      BY DEF Tradeoff
    <3>3. CASE n = m
      BY <1>2, <2>2, <2>3, <3>1, <3>2, <3>3
    <3>4. CASE n # m
      BY <1>2, <2>3, <3>1, <3>2, <3>4
    <3> QED BY <3>3, <3>4
  <2>7. Untouched' /\ Pending'
    <3>1. to \in MetricStatus /\ to # None /\ status[m] # None
      BY <1>1, <1>2, <2>2 DEF MetricStatus
    <3>2. Untouched'
      BY <1>0, <1>2, <2>3, <3>1 DEF Untouched
    <3> QED BY <1>0, <1>2, <2>3, <3>2 DEF Pending, Failed
  <2>8. Judged'
    <3>1. ~Unpaid(m)
      BY <1>3, <2>1
    <3> QED BY <1>0, <1>2, <1>4, <2>2, <2>3, <3>1, Zenon DEF Judged
  <2> QED BY <2>4, <2>5, <2>6, <2>7, <2>8
<1>7. CASE /\ SatisfiedFor(m) = {} /\ UNCHANGED <<status, counts>>
           /\ \E new \in SUBSET {Tradeoff("not_satisfied"), Tradeoff("missing_metric")} :
                reasons' = reasons \cup new
  <2>1. CompareTypeOK' /\ CountsMatchDeltas'
    BY <1>0, <1>2, <1>7 DEF CompareTypeOK, CountsMatchDeltas, Reason
  <2>2. ReasonsMatchDeltas'
    BY <1>7 DEF ReasonsMatchDeltas, Tradeoff
  <2>3. Untouched' /\ Pending'
    BY <1>0, <1>7 DEF Untouched, Pending, Failed
  <2>4. Judged'
    BY <1>0, <1>2, <1>3, <1>4, <1>5, <1>7 DEF Judged
  <2> QED BY <2>1, <2>2, <2>3, <2>4
<1> QED
  <2>1. \/ \E i \in SatisfiedFor(m) : Downgrade(m, Tradeoffs[i].downgrade_to)
        \/ /\ SatisfiedFor(m) = {} /\ UNCHANGED <<status, counts>>
           /\ reasons' = reasons
             \cup (IF RulesFor(m) # {} THEN {Tradeoff("not_satisfied")} ELSE {})
             \cup (IF \E i \in RulesFor(m) : Unavailable(Tradeoffs[i])
                     THEN {Tradeoff("missing_metric")} ELSE {})
    BY DEF TradeMetric
  <2> DEFINE new == (IF RulesFor(m) # {} THEN {Tradeoff("not_satisfied")} ELSE {})
                    \cup (IF \E i \in RulesFor(m) : Unavailable(Tradeoffs[i])
                            THEN {Tradeoff("missing_metric")} ELSE {})
  <2>2. new \in SUBSET {Tradeoff("not_satisfied"), Tradeoff("missing_metric")}
    OBVIOUS
  <2>3. \/ \E i \in SatisfiedFor(m) : Downgrade(m, Tradeoffs[i].downgrade_to)
        \/ /\ SatisfiedFor(m) = {} /\ UNCHANGED <<status, counts>>
           /\ reasons' = reasons \cup new
    BY <2>1
  <2> HIDE DEF new
  <2> QED BY <1>6, <1>7, <2>2, <2>3

LEMMA FinishIndInv ==
  ASSUME CompareInv, Finish \/ UNCHANGED compareVars
  PROVE  CompareInv'
<1> USE DEF CompareInv
<1>1. CASE Finish
  <2>1. /\ stage = "tradeoff" /\ todo = {} /\ stage' = "done"
        /\ UNCHANGED <<todo, reading, status, counts, reasons>>
    BY <1>1 DEF Finish
  <2>2. CompareTypeOK' /\ CountsMatchDeltas' /\ ReasonsMatchDeltas' /\ Untouched' /\ Pending'
    BY <2>1 DEF CompareTypeOK, CountsMatchDeltas, ReasonsMatchDeltas, Untouched, Pending
  <2>3. Judged'
    BY <2>1 DEF Judged, OverBudget, Unpaid, ImprovedBy
  <2> QED BY <2>2, <2>3
<1>2. CASE UNCHANGED compareVars
  BY <1>2 DEF compareVars, CompareTypeOK, CountsMatchDeltas, ReasonsMatchDeltas, Untouched, Pending, Failed,
              Judged, OverBudget, Unpaid, ImprovedBy
<1> QED BY <1>1, <1>2

LEMMA CompareNextInv == CompareInv /\ [CompareNext]_compareVars => CompareInv'
BY EvaluateIndInv, StartIndInv, TradeIndInv, FinishIndInv DEF CompareNext

-----------------------------------------------------------------------------
(* What it implies. *)

\* CompareInv holds in every state of every comparison.
THEOREM CompareInvariance == CompareSpec => []CompareInv
BY CompareInitInv, CompareNextInv, PTL DEF CompareSpec

\* compare_runs_with_tradeoffs and apply_tradeoffs keep counts and deltas in
\* step; in particular no counter underflows (saturating_sub never saturates).
THEOREM CountsCorrect == CompareSpec => [](CompareTypeOK /\ CountsMatchDeltas)
BY CompareInvariance, PTL DEF CompareInv

\* push_unique_reason and remove_reason keep reasons and deltas in step.
THEOREM ReasonsCorrect == CompareSpec => []ReasonsMatchDeltas
BY CompareInvariance, PTL DEF CompareInv

\* Counts and reasons of a receipt are those of its deltas, for every set of
\* metrics, budgets, readings and rules (compare_runs_with_tradeoffs,
\* apply_tradeoffs).
THEOREM ReceiptCorrect == CompareSpec => []ReceiptMatchesDeltas
BY CountsCorrect, ReasonsCorrect, PTL DEF ReceiptMatchesDeltas

\* aggregate_verdict_from_counts says fail exactly when a metric is over its
\* budget and no rule's requirements are met.
THEOREM FailureCorrect == CompareSpec => []FailureIsJustified
<1>1. CompareInv => FailureIsJustified
  <2> SUFFICES ASSUME CompareInv, stage = "done"
               PROVE  VerdictStatus(counts) = "fail" <=>
                        \E m \in Metrics : OverBudget(m, reading[m]) /\ Unpaid(m)
    BY DEF FailureIsJustified, Unpaid
  <2>1. VerdictStatus(counts) = "fail" <=> counts["fail"] > 0
    BY DEF VerdictStatus
  <2>2. counts["fail"] = Cardinality(With(status, "fail"))
    BY DEF CompareInv, CountsMatchDeltas, With, MetricStatus
  <2>3. counts["fail"] > 0 <=> \E m \in Metrics : status[m] = "fail"
    BY <2>2, CountPositive
  <2>4. \A m \in Metrics : status[m] = "fail" <=> OverBudget(m, reading[m]) /\ Unpaid(m)
    BY DEF CompareInv, Pending, Judged
  <2> QED BY <2>1, <2>3, <2>4
<1> QED BY <1>1, CompareInvariance, PTL
=============================================================================
