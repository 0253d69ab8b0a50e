---------------------------- MODULE Measurement ----------------------------
(***************************************************************************)
(* `perfgate run` and `perfgate paired`: the use cases of app/mod.rs and   *)
(* app/paired.rs over the process runner, and what the command does with   *)
(* the outcome.  A request runs one command (run) or a baseline and a      *)
(* current command in turn (paired): commands is a sequence of one or two, *)
(* and a sample has one half per command.  A run never requires            *)
(* significance and has no regression gate, so one loop models both.       *)
(*                                                                         *)
(* Absent options are -1.  The ghost field `time` of a half is how long    *)
(* the child really worked.                                                *)
(***************************************************************************)
EXTENDS ProcessRunner, PairedStats

CONSTANTS Requests

(* RunBenchRequest and PairedRunRequest.                                   *)
Request == [commands : Seq(CommandType), warmup : Nat, repeat : Nat, timeout : Nat,
            allow_nonzero : BOOLEAN, require_significance : BOOLEAN,
            min_samples : Nat, max_retries : Nat, cv_threshold : Int,
            fail_on : Int, upload : BOOLEAN]

ASSUME RequestsAssumption ==
    \A r \in Requests : r \in Request /\ Len(r.commands) \in {1, 2}

VARIABLES req,       \* the request
          step,      \* "measure", "write", "upload", "exit", "done"
          halves,    \* results of the current sample
          samples,   \* samples collected, warm-ups first
          reasons,   \* why the benchmark failed
          retries,   \* retries_done
          early,     \* early_termination
          goal,      \* pairs to collect before the next decision
          receipt,   \* bench.repeat of the receipt once built, -1 before
          written, uploaded,
          exit       \* the process's exit code, -1 while it runs

useVars == <<req, step, halves, samples, reasons, retries, early, goal,
             receipt, written, uploaded, exit>>
vars == <<runnerVars, useVars>>

Init ==
    /\ RunnerInit
    /\ req \in Requests
    /\ step = "measure" /\ halves = <<>> /\ samples = <<>> /\ reasons = {}
    /\ retries = 0 /\ early = FALSE /\ goal = req.repeat /\ receipt = -1
    /\ written = FALSE /\ uploaded = FALSE /\ exit = -1

Paired == Len(req.commands) = 2
MeasuredSamples == SelectSeq(samples, LAMBDA s : ~s.warmup)
Walls(half) == [i \in DOMAIN MeasuredSamples |-> MeasuredSamples[i].halves[half].wall]
Diffs == IF Paired THEN [i \in DOMAIN MeasuredSamples |-> Walls(2)[i] - Walls(1)[i]]
         ELSE <<>>

(* The loops still have a sample to take: warm-ups, then measured ones.    *)
MoreToRun == Len(samples) < req.warmup + goal

(* The command of the next half of the sample.                             *)
StartHalf ==
    /\ step = "measure" /\ MoreToRun
    /\ Spawn(req.commands[Len(halves) + 1], req.timeout)
    /\ UNCHANGED useVars

Half == [wall |-> Result.wall, code |-> Result.code, rss |-> Result.rss,
         stdout |-> Result.stdout, time |-> child.time, own |-> spec.command.rss]

(* A warm-up that fails is held against the benchmark.                     *)
SampleReasons_Warmup(s, index) ==
    {[kind |-> "exit", index |-> index, half |-> h] :
       h \in {h \in DOMAIN s.halves : s.halves[h].code # 0}}

(* The reasons a measured sample adds.  `run` notes a nonzero exit also    *)
(* under --allow-nonzero, `paired` does not.                               *)
SampleReasons(s, index) ==
    IF s.warmup \/ (Paired /\ req.allow_nonzero) THEN {}
    ELSE {[kind |-> "exit", index |-> index, half |-> h] :
            h \in {h \in DOMAIN s.halves : s.halves[h].code # 0}}

(* A sample that failed is taken again instead of recorded.                *)
EndHalf_Again ==
    LET hs == Append(halves, Half)
        s == [warmup |-> Len(samples) < req.warmup, halves |-> hs]
        complete == Len(hs) = Len(req.commands)
        good == \A h \in DOMAIN hs : hs[h].code = 0
    IN
    /\ step = "measure" /\ phase = "ok"
    /\ phase' = "idle"
    /\ halves' = IF complete THEN <<>> ELSE hs
    /\ samples' = IF complete /\ good THEN Append(samples, s) ELSE samples
    /\ reasons' = IF complete THEN reasons \cup SampleReasons(s, Len(samples) + 1)
                  ELSE reasons
    /\ UNCHANGED <<platform, spec, child, pipe, captured, elapsed, wall, peak,
                   req, step, retries, early, goal, receipt, written, uploaded, exit>>

(* run() returned Ok: sample_from_run, or sample_half and, after the       *)
(* second half, the pair.                                                  *)
EndHalf ==
    LET hs == Append(halves, Half)
        s == [warmup |-> Len(samples) < req.warmup, halves |-> hs]
        complete == Len(hs) = Len(req.commands)
    IN
    /\ step = "measure" /\ phase = "ok"
    /\ phase' = "idle"
    /\ halves' = IF complete THEN <<>> ELSE hs
    /\ samples' = IF complete THEN Append(samples, s) ELSE samples
    /\ reasons' = IF complete THEN reasons \cup SampleReasons(s, Len(samples) + 1)
                  ELSE reasons
    /\ UNCHANGED <<platform, spec, child, pipe, captured, elapsed, wall, peak,
                   req, step, retries, early, goal, receipt, written, uploaded, exit>>

(* Any error of run() ends the use case: no receipt, exit code 1.          *)
RunFails ==
    /\ step = "measure" /\ phase \in {"timeout", "spawnerror"}
    /\ step' = "done" /\ exit' = 1
    /\ UNCHANGED <<runnerVars, req, halves, samples, reasons, retries, early, goal,
                   receipt, written, uploaded>>

AllCollected == step = "measure" /\ phase = "idle" /\ ~MoreToRun

(* compute_stats on no measured sample is an error.                        *)
NoSamples ==
    /\ AllCollected /\ Len(samples) = req.warmup
    /\ step' = "done" /\ exit' = 1
    /\ UNCHANGED <<runnerVars, req, halves, samples, reasons, retries, early, goal,
                   receipt, written, uploaded>>

(* `paired` stops here; `run` always does.                                 *)
StopNow ==
    \/ ~req.require_significance
    \/ Significant(Diffs, req.min_samples)
    \/ retries >= req.max_retries

TooNoisy == req.cv_threshold >= 0 /\ NoisierThan(Diffs, req.cv_threshold)

Retry ==
    /\ AllCollected /\ Len(samples) > req.warmup
    /\ ~StopNow /\ ~TooNoisy
    /\ goal' = goal + ExtraPairs(retries)
    /\ retries' = retries + 1
    /\ UNCHANGED <<runnerVars, req, step, halves, samples, reasons, early,
                   receipt, written, uploaded, exit>>

(* The loop ends: bench.repeat, the noise note and the regression gate.    *)
Finish ==
    LET noisy == ~StopNow /\ TooNoisy
        regressed == /\ req.fail_on >= 0
                     /\ RegressedBy(Diffs, Walls(1), req.fail_on)
    IN
    /\ AllCollected /\ Len(samples) > req.warmup
    /\ StopNow \/ TooNoisy
    /\ early' = noisy
    /\ reasons' = reasons
         \cup (IF noisy THEN {[kind |-> "early", index |-> 0, half |-> 0]} ELSE {})
         \cup (IF regressed THEN {[kind |-> "regression", index |-> 0, half |-> 0]} ELSE {})
    /\ receipt' = goal
    /\ step' = "write"
    /\ UNCHANGED <<runnerVars, req, halves, samples, retries, goal, written, uploaded, exit>>

(* write_json.                                                             *)
WriteReceipt ==
    /\ step = "write"
    /\ \/ written' = TRUE /\ exit' = exit
          /\ step' = IF req.upload THEN "upload" ELSE "exit"
       \/ written' = FALSE /\ exit' = 1 /\ step' = "done"
    /\ UNCHANGED <<runnerVars, req, halves, samples, reasons, retries, early, goal,
                   receipt, uploaded>>

(* `run --upload` sends the receipt as a baseline before it looks at the   *)
(* reasons.                                                                *)
Upload ==
    /\ step = "upload"
    /\ \/ uploaded' = TRUE /\ exit' = exit /\ step' = "exit"
       \/ uploaded' = FALSE /\ exit' = 1 /\ step' = "done"
    /\ UNCHANGED <<runnerVars, req, halves, samples, reasons, retries, early, goal,
                   receipt, written>>

ExitCode == IF reasons # {} /\ ~req.allow_nonzero THEN 1 ELSE 0

Exit ==
    /\ step = "exit"
    /\ exit' = ExitCode
    /\ step' = "done"
    /\ UNCHANGED <<runnerVars, req, halves, samples, reasons, retries, early, goal,
                   receipt, written, uploaded>>

(* Returned, or stuck for ever in the runner.                              *)
Halted ==
    /\ step = "done" \/ Stalled
    /\ UNCHANGED vars

Work == \/ StartHalf \/ EndHalf \/ RunFails \/ NoSamples \/ Retry \/ Finish
        \/ WriteReceipt \/ Upload \/ Exit

Next == \/ Work
        \/ RunnerStep /\ UNCHANGED useVars
        \/ Tick /\ UNCHANGED useVars
        \/ Halted

(* The command's one thread runs, and so does the operating system.        *)
Spec == Init /\ [][Next]_vars /\ WF_vars(Next)
-----------------------------------------------------------------------------
(* A timeout is reported only of a child that had not ended one polling    *)
(* interval before the deadline, or that was waiting for somebody to read  *)
(* its output (runtime.rs: wait_timeout polls, and reads nothing).         *)
TimeoutIsReal ==
    [][phase' = "timeout" /\ phase # "timeout" =>
         \/ ~child.exited /\ child.left > 0
         \/ ~child.exited /\ child.unwritten > 0 /\ pipe = PipeCapacity
         \/ child.time + PollInterval > spec.timeout]_vars

(* A sample is the child's own: its output is all the child wrote, up to   *)
(* the cap; its wall time is the time of that child alone, exact without a *)
(* timeout and off by less than one polling interval with one.  On Unix a  *)
(* process left behind by the child that holds the pipe adds what it takes. *)
SamplesAreTheChilds ==
    \A s \in Range(samples) : \A h \in DOMAIN s.halves :
      LET half == s.halves[h]
          held == IF platform = "unix" THEN req.commands[h].holds ELSE 0
          slack == IF req.timeout > 0 THEN PollInterval - 1 ELSE 0
      IN /\ half.stdout = Kept(req.commands[h].output)
         /\ half.wall - half.time \in 0..(held + slack)

(* The exit code and the receipt are those of the measured samples: a      *)
(* receipt holds warmup and bench.repeat samples in this order, exit code  *)
(* 0 means that it was written and that every measured sample exited with  *)
(* 0 or failures were allowed, and a failed warm-up alone never fails the  *)
(* run.                                                                    *)
OutcomeIsOfMeasured ==
    step = "done" /\ written =>
      /\ Len(samples) = req.warmup + receipt
      /\ \A i \in DOMAIN samples : samples[i].warmup <=> i <= req.warmup
      /\ LET bad == \E s \in Range(samples) : ~s.warmup /\
                       \E h \in DOMAIN s.halves : s.halves[h].code # 0
             judged == req.fail_on >= 0 \/ req.require_significance
         IN /\ exit = 0 /\ ~req.allow_nonzero => ~bad
            /\ exit = 1 /\ ~bad /\ ~judged => req.upload /\ ~uploaded

(* Every command returns, with one exception, run_windows without a        *)
(* timeout: there nobody reads the output while wait() waits, and a child  *)
(* that writes more than the pipe holds waits for ever.                    *)
EveryCommandReturns ==
    <>(\/ step = "done"
       \/ /\ Stalled /\ platform = "windows" /\ req.timeout = 0
          /\ spec.command.output > PipeCapacity)

(* runtime.rs, RunResult: "Result of a single execution", "Peak resident   *)
(* set size in KB".                                                        *)
PeakIsOfOneExecution ==
    \A s \in Range(samples) : \A h \in DOMAIN s.halves : s.halves[h].rss = s.halves[h].own

=============================================================================
