--------------------------- MODULE ProcessRunner ---------------------------
(***************************************************************************)
(* StdProcessRunner (app/runtime.rs): one command at a time is spawned     *)
(* with its output in a pipe of PipeCapacity units, waited for, read, and  *)
(* measured.  The operating system's side (the child and the pipe) is      *)
(* external; it is as eager as possible: time passes (Tick) only when      *)
(* neither process can take a step.  A unit of time is a fraction          *)
(* of the polling interval of wait_timeout.                                *)
(*                                                                         *)
(* A command is a record                                                   *)
(*   found   - spawn succeeds;  times - how long it may run;               *)
(*   output  - units it writes before it ends;  codes - its exit codes;    *)
(*   rss     - its own peak memory;                                        *)
(*   holds   - how long a process it left behind keeps the pipe open.      *)
(***************************************************************************)
EXTENDS Integers, Sequences, FiniteSetsExt

CommandType == [found : BOOLEAN, times : SUBSET Nat, output : Nat,
                codes : SUBSET Int, rss : Nat, holds : Nat]

CONSTANTS PipeCapacity,    \* units of output the kernel keeps for a reader
          PollInterval,    \* the 10 ms of wait_timeout
          OutputCap        \* output_cap_bytes, 0 for no limit

ASSUME RunnerAssumption ==
    /\ PipeCapacity \in Nat \ {0}
    /\ PollInterval \in Nat \ {0}
    /\ OutputCap \in Nat

VARIABLES platform,   \* "unix" or "windows": which run_* was compiled in
          phase,      \* where run() is: "idle" between two calls, "poll", "output",
                      \* "wait", "drain", and "ok", "timeout", "spawnerror" at its end
          spec,       \* the command and its timeout (0: none)
          child,      \* the child: time left, output unwritten, lingering holder
          pipe,       \* units written and not yet read
          captured,   \* units read
          elapsed,    \* time since start
          wall,       \* wall_ms once measured
          peak        \* ru_maxrss of RUSAGE_CHILDREN: the children waited for

runnerVars == <<platform, phase, spec, child, pipe, captured, elapsed, wall, peak>>

NoSpec == [timeout |-> 0]
NoChild == [time |-> 0, code |-> 0, left |-> 0, unwritten |-> 0, holds |-> 0, exited |-> TRUE]

RunnerInit ==
    /\ platform \in {"unix", "windows"}
    /\ phase = "idle" /\ spec = NoSpec /\ child = NoChild
    /\ pipe = 0 /\ captured = 0 /\ elapsed = 0 /\ wall = 0 /\ peak = 0

(* The clock of the next command runs on from the last one.                *)
Spawn_SharedClock(c, timeout) ==
    /\ phase = "idle"
    /\ spec' = [command |-> c, timeout |-> timeout]
    /\ IF c.found
       THEN /\ phase' = IF timeout > 0 THEN "poll"
                        ELSE IF platform = "unix" THEN "output" ELSE "wait"
            /\ \E t \in c.times, x \in c.codes :
                 child' = [time |-> t, code |-> x, left |-> t, unwritten |-> c.output,
                           holds |-> c.holds, exited |-> FALSE]
       ELSE phase' = "spawnerror" /\ child' = NoChild
    /\ pipe' = 0 /\ captured' = 0 /\ wall' = 0
    /\ UNCHANGED <<platform, peak, elapsed>>

(* Command::new, spawn.  Without a timeout run_unix calls output(), which  *)
(* reads while it waits, and run_windows wait(), which does not.           *)
Spawn(c, timeout) ==
    /\ phase = "idle"
    /\ spec' = [command |-> c, timeout |-> timeout]
    /\ IF c.found
       THEN /\ phase' = IF timeout > 0 THEN "poll"
                        ELSE IF platform = "unix" THEN "output" ELSE "wait"
            /\ \E t \in c.times, x \in c.codes :
                 child' = [time |-> t, code |-> x, left |-> t, unwritten |-> c.output,
                           holds |-> c.holds, exited |-> FALSE]
       ELSE phase' = "spawnerror" /\ child' = NoChild
    /\ pipe' = 0 /\ captured' = 0 /\ elapsed' = 0 /\ wall' = 0
    /\ UNCHANGED <<platform, peak>>

Running == phase \notin {"idle", "ok", "timeout", "spawnerror"}

(* The child, its work done, writes into the pipe as long as there is room *)
(* and ends when all is written.                                           *)
CanWrite == child.left = 0 /\ child.unwritten > 0 /\ pipe < PipeCapacity
CanExit == ~child.exited /\ child.left = 0 /\ child.unwritten = 0

ChildWrites ==
    /\ Running /\ CanWrite
    /\ pipe' = pipe + 1
    /\ child' = [child EXCEPT !.unwritten = @ - 1]
    /\ UNCHANGED <<platform, phase, spec, captured, elapsed, wall, peak>>

ChildExits ==
    /\ Running /\ CanExit
    /\ child' = [child EXCEPT !.exited = TRUE]
    /\ UNCHANGED <<platform, phase, spec, pipe, captured, elapsed, wall, peak>>

(* Waiting for an ended child adds it to the children getrusage reports.   *)
Reap == peak' = IF spec.command.rss > peak THEN spec.command.rss ELSE peak

(* A deadline one polling interval early.                                  *)
Deadline_Early == spec.timeout > 0 /\ elapsed + PollInterval >= spec.timeout

Deadline == spec.timeout > 0 /\ elapsed >= spec.timeout

AtPoll == elapsed % PollInterval = 0

(* wait_timeout: while elapsed < timeout, try_wait, then sleep.            *)
PollSeesExit ==
    /\ phase = "poll" /\ AtPoll /\ ~Deadline /\ child.exited
    /\ Reap
    /\ phase' = "drain"
    /\ wall' = IF platform = "windows" THEN elapsed ELSE wall
    /\ UNCHANGED <<platform, spec, child, pipe, captured, elapsed>>

(* The loop ends after a sleep that reached the deadline: no last try_wait.  *)
(* The child is killed, not waited for, and its output is dropped.         *)
PollExpires ==
    /\ phase = "poll" /\ AtPoll /\ Deadline
    /\ phase' = "timeout" /\ child' = NoChild /\ pipe' = 0
    /\ UNCHANGED <<platform, spec, captured, elapsed, wall, peak>>

(* run_windows without a timeout: wait(), the pipe unread.                 *)
WaitReturns ==
    /\ phase = "wait" /\ child.exited
    /\ Reap
    /\ phase' = "drain" /\ wall' = elapsed
    /\ UNCHANGED <<platform, spec, child, pipe, captured, elapsed>>

(* output(), wait_with_output() and read_to_end().                         *)
ParentReads ==
    /\ phase \in {"output", "drain"} /\ pipe > 0
    /\ captured' = captured + pipe /\ pipe' = 0
    /\ UNCHANGED <<platform, phase, spec, child, elapsed, wall, peak>>

(* End of file: the child has ended and nobody else holds the pipe.  On    *)
(* Unix the clock is read only now.                                        *)
ReadEnds ==
    /\ phase \in {"output", "drain"}
    /\ pipe = 0 /\ child.exited /\ child.holds = 0
    /\ IF phase = "output" THEN Reap ELSE UNCHANGED peak
    /\ wall' = IF platform = "windows" THEN wall ELSE elapsed
    /\ phase' = "ok"
    /\ UNCHANGED <<platform, spec, child, pipe, captured, elapsed>>

RunnerStep == \/ ChildWrites \/ ChildExits \/ PollSeesExit \/ PollExpires
              \/ WaitReturns \/ ParentReads \/ ReadEnds

(* Whether the child, or the process it left behind, still needs time.     *)
Busy == child.left > 0 \/ (child.exited /\ child.holds > 0)

PollReturns == phase = "poll" /\ AtPoll /\ (Deadline \/ child.exited)
Readable == /\ phase \in {"output", "drain"}
            /\ pipe > 0 \/ (child.exited /\ child.holds = 0)

(* A step of the runner or the child is possible without time passing.     *)
Eager == /\ Running
         /\ \/ CanWrite \/ CanExit \/ PollReturns \/ Readable
            \/ phase = "wait" /\ child.exited

(* Time passes: for the child's work, for what it left behind, and for the *)
(* poll loop's sleep.                                                      *)
Tick ==
    /\ Running /\ ~Eager
    /\ Busy \/ phase = "poll"
    /\ elapsed' = elapsed + 1
    /\ child' = [child EXCEPT !.left = IF @ > 0 THEN @ - 1 ELSE 0,
                              !.holds = IF child.exited /\ @ > 0 THEN @ - 1 ELSE @]
    /\ UNCHANGED <<platform, phase, spec, pipe, captured, wall, peak>>

(* Nothing can happen any more: the child waits for room in the pipe, and  *)
(* the runner for the child.                                               *)
Stalled == Running /\ ~Eager /\ ~Busy /\ phase # "poll"

(* truncate: what is kept of the output.                                   *)
Kept(n) == IF OutputCap > 0 /\ n > OutputCap THEN OutputCap ELSE n

(* RunResult.  max_rss_kb is the child's own on Windows                    *)
(* (GetProcessMemoryInfo) and the peak over all children on Unix.          *)
Result == [wall |-> wall, code |-> child.code,
           rss |-> IF platform = "windows" THEN spec.command.rss ELSE peak,
           stdout |-> Kept(captured)]
=============================================================================
