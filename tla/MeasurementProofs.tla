------------------------- MODULE MeasurementProofs -------------------------
(***************************************************************************)
(* What a sample, a timeout and an outcome mean, for every pipe, polling   *)
(* interval, output cap and set of requests.  RunnerInv follows one child  *)
(* through run(): where its output is, and how far the clock may be from   *)
(* the time the child worked.  UseInv says what the loops have collected.  *)
(***************************************************************************)
EXTENDS Measurement, TLAPS

-----------------------------------------------------------------------------
(* Types.                                                                  *)

ChildType == [time : Nat, code : Int, left : Nat, unwritten : Nat, holds : Nat,
              exited : BOOLEAN]
Phases == {"idle", "poll", "output", "wait", "drain", "ok", "timeout", "spawnerror"}
Steps == {"measure", "write", "upload", "exit", "done"}
HalfType == [wall : Nat, code : Int, rss : Nat, stdout : Nat, time : Nat, own : Nat]
SampleType == [warmup : BOOLEAN, halves : Seq(HalfType)]

RunnerTypes ==
    /\ platform \in {"unix", "windows"} /\ phase \in Phases /\ child \in ChildType
    /\ pipe \in 0..PipeCapacity /\ captured \in Nat /\ elapsed \in Nat /\ wall \in Nat /\ peak \in Nat

UseTypes ==
    /\ req \in Requests /\ step \in Steps
    /\ halves \in Seq(HalfType) /\ samples \in Seq(SampleType)
    /\ retries \in Nat /\ goal \in Nat
    /\ written \in BOOLEAN /\ uploaded \in BOOLEAN

-----------------------------------------------------------------------------
(* The runner: a command is being run for the next half, and only then.    *)

Command == req.commands[Len(halves) + 1]
Slack == IF req.timeout > 0 THEN PollInterval - 1 ELSE 0

(* run() is called by a loop that still has a sample to take, for the next *)
(* command of the request.                                                 *)
SpecIsNext ==
    /\ Len(halves) < Len(req.commands)
    /\ phase # "idle" => spec = [command |-> Command, timeout |-> req.timeout]
    /\ (Running \/ phase = "ok") => step = "measure" /\ Len(samples) < req.warmup + goal
    /\ phase = "poll" => req.timeout > 0
    /\ phase \in {"output", "wait"} => req.timeout = 0
    /\ phase = "output" => platform = "unix"
    /\ phase = "wait" => platform = "windows"

(* No unit of output is lost, and a child ends only after the last one.    *)
OutputKept ==
    /\ Running => captured + pipe + child.unwritten = Command.output
    /\ Running /\ child.exited => child.left = 0 /\ child.unwritten = 0
    /\ phase = "drain" => child.exited
    /\ phase = "ok" => captured = Command.output

(* The child waits for somebody to read its output.                        *)
Blocked == phase = "poll" /\ child.unwritten > 0 /\ pipe = PipeCapacity

(* The clock of a child that has not ended.                                *)
ClockOfChild ==
    Running /\ ~child.exited =>
      /\ child.holds = Command.holds
      /\ child.left > 0 => elapsed + child.left = child.time
      /\ child.left = 0 /\ ~Blocked => elapsed = child.time

(* A child that ended at t and is not yet waited for at e: no poll lies    *)
(* between the two.                                                        *)
Late(e, t) == t <= e /\ (e = t \/ e - t <= (e - 1) % PollInterval)

(* The clock after the child has ended: exact until somebody has to wait   *)
(* for the next poll, or for whatever holds the pipe.                      *)
ClockAfterExit ==
    Running /\ child.exited =>
      /\ child.time <= elapsed /\ child.holds <= Command.holds
      /\ phase = "wait" => elapsed = child.time
      /\ phase = "poll" => Late(elapsed, child.time)
      /\ phase \in {"output", "drain"} =>
           elapsed - child.time + child.holds <= Command.holds + Slack

(* What is measured: on Windows before the output is read, on Unix after.  *)
WallIsChilds ==
    /\ phase = "drain" /\ platform = "windows" => wall - child.time \in 0..Slack
    /\ phase = "ok" =>
         wall - child.time
           \in 0..((IF platform = "unix" THEN Command.holds ELSE 0) + Slack)

RunnerInv == SpecIsNext /\ OutputKept /\ ClockOfChild /\ ClockAfterExit /\ WallIsChilds

-----------------------------------------------------------------------------
(* The use case.                                                           *)

(* A half is that of the h-th command.                                     *)
GoodHalf(half, h) ==
    /\ half.stdout = Kept(req.commands[h].output)
    /\ half.wall - half.time
         \in 0..((IF platform = "unix" THEN req.commands[h].holds ELSE 0) + Slack)

HalvesGood == \A h \in DOMAIN halves : GoodHalf(halves[h], h)
SamplesGood == \A i \in DOMAIN samples :
                 \A h \in DOMAIN samples[i].halves : GoodHalf(samples[i].halves[h], h)
WarmupsFirst == \A i \in DOMAIN samples : samples[i].warmup <=> i <= req.warmup

(* Never more samples than asked for, and exactly as many in a receipt.    *)
Counted ==
    /\ Len(samples) <= req.warmup + goal
    /\ step \in {"write", "upload", "exit"} \/ written =>
         Len(samples) = req.warmup + receipt
    /\ step \in {"measure", "write"} => ~written /\ ~uploaded
    /\ step = "upload" => ~uploaded /\ req.upload

ExitReason(i, h) == [kind |-> "exit", index |-> i, half |-> h]
BadHalf(i, h) == ~samples[i].warmup /\ samples[i].halves[h].code # 0

(* The reasons are those of measured samples, all of them.                 *)
ReasonsSound ==
    \A r \in reasons :
      \/ \E i \in DOMAIN samples : \E h \in DOMAIN samples[i].halves : BadHalf(i, h)
      \/ req.require_significance
      \/ req.fail_on >= 0
ReasonsComplete ==
    \A i \in DOMAIN samples : \A h \in DOMAIN samples[i].halves :
      BadHalf(i, h) /\ ~req.allow_nonzero => ExitReason(i, h) \in reasons

Outcome ==
    step = "done" /\ written =>
      exit = ExitCode \/ (exit = 1 /\ req.upload /\ ~uploaded)

UseInv == /\ HalvesGood /\ SamplesGood /\ WarmupsFirst /\ Counted
          /\ ReasonsSound /\ ReasonsComplete /\ Outcome

IndInv == RunnerTypes /\ UseTypes /\ RunnerInv /\ UseInv

-----------------------------------------------------------------------------
(* Facts about the operators.                                              *)

(* The remainder of the clock by the polling interval.                     *)
LEMMA Remainder ==
    \A n \in Nat : /\ n % PollInterval \in 0..(PollInterval - 1)
                   /\ (n - 1) % PollInterval \in 0..(PollInterval - 1)
                   /\ n % PollInterval # 0 =>
                        n % PollInterval = ((n - 1) % PollInterval) + 1
<1> SUFFICES ASSUME NEW n \in Nat
             PROVE /\ n % PollInterval \in 0..(PollInterval - 1)
                   /\ (n - 1) % PollInterval \in 0..(PollInterval - 1)
                   /\ n % PollInterval # 0 =>
                        n % PollInterval = ((n - 1) % PollInterval) + 1
  OBVIOUS
<1>0. PollInterval \in Nat /\ PollInterval > 0
  BY RunnerAssumption
<1>1. n % PollInterval \in 0..(PollInterval - 1)
  BY <1>0
<1>2. (n - 1) % PollInterval \in 0..(PollInterval - 1)
  BY <1>0
<1>3. ASSUME n % PollInterval # 0
      PROVE n % PollInterval = ((n - 1) % PollInterval) + 1
  <2> DEFINE r == n % PollInterval  s == (n - 1) % PollInterval
             k == (n \div PollInterval) - ((n - 1) \div PollInterval)
  <2>1. n = PollInterval * (n \div PollInterval) + r
    BY <1>0
  <2>2. n - 1 = PollInterval * ((n - 1) \div PollInterval) + s
    BY <1>0
  <2>3. k \in Int /\ n \div PollInterval \in Int /\ (n - 1) \div PollInterval \in Int
    BY <1>0
  <2>4. PollInterval * k = 1 - r + s
    <3>1. PollInterval * k = PollInterval * (n \div PollInterval)
                               - PollInterval * ((n - 1) \div PollInterval)
      BY <1>0, <2>3
    <3> QED
      BY <1>0, <1>1, <1>2, <2>1, <2>2, <2>3, <3>1
  <2>5. r \in 1..(PollInterval - 1) /\ s \in 0..(PollInterval - 1)
    BY <1>0, <1>1, <1>2, <1>3
  <2> HIDE DEF r, s, k
  <2>6. k = 0
    <3>1. k >= 1 => PollInterval * k >= PollInterval
      BY <1>0, <2>3
    <3>2. k <= -1 => PollInterval * k <= -PollInterval
      BY <1>0, <2>3
    <3> QED
      BY <1>0, <2>3, <2>4, <2>5, <3>1, <3>2
  <2> QED
    BY <1>0, <2>4, <2>5, <2>6 DEF r, s
<1> QED
  BY <1>1, <1>2, <1>3

(* How late a poll sees that a child has ended: by less than an interval,  *)
(* and a tick between two polls adds one to both sides.                    *)
LEMMA PollLag ==
    \A e, t \in Nat : Late(e, t) => e - t \in 0..(PollInterval - 1)
<1> SUFFICES ASSUME NEW e \in Nat, NEW t \in Nat, Late(e, t)
             PROVE e - t \in 0..(PollInterval - 1)
  OBVIOUS
<1> DEFINE r == (e - 1) % PollInterval
<1>1. r \in 0..(PollInterval - 1)
  BY Remainder, Zenon
<1>2. t <= e /\ (e = t \/ e - t <= r)
  BY DEF Late
<1> HIDE DEF r
<1> QED
  BY <1>1, <1>2, RunnerAssumption

LEMMA PollLagGrows ==
    \A e, t \in Nat : Late(e, t) /\ e % PollInterval # 0 => Late(e + 1, t)
<1> SUFFICES ASSUME NEW e \in Nat, NEW t \in Nat, Late(e, t), e % PollInterval # 0
             PROVE Late(e + 1, t)
  OBVIOUS
<1> DEFINE r == (e - 1) % PollInterval  q == e % PollInterval
<1>1. r \in 0..(PollInterval - 1) /\ q = r + 1
  BY Remainder, Zenon
<1>2. t <= e /\ (e = t \/ e - t <= r)
  BY DEF Late
<1>3. ((e + 1) - 1) % PollInterval = q
  <2>1. (e + 1) - 1 = e
    OBVIOUS
  <2> QED
    BY <2>1
<1> HIDE DEF r, q
<1>4. t <= e + 1 /\ (e + 1) - t <= q
  BY <1>1, <1>2, RunnerAssumption
<1> QED
  BY <1>3, <1>4 DEF Late

(* The request, the command being run, and the slack of its clock.         *)
LEMMA RequestFacts ==
    ASSUME req \in Requests
    PROVE  /\ Len(req.commands) \in {1, 2} /\ req.commands \in Seq(CommandType)
           /\ req.warmup \in Nat /\ req.timeout \in Nat /\ req.repeat \in Nat
           /\ Slack \in Nat
           /\ req.timeout > 0 => Slack = PollInterval - 1
           /\ req.timeout = 0 => Slack = 0
<1>1. req \in Request /\ Len(req.commands) \in {1, 2}
  BY RequestsAssumption
<1>2. req.warmup \in Nat /\ req.timeout \in Nat /\ req.repeat \in Nat
      /\ req.commands \in Seq(CommandType)
  BY <1>1 DEF Request
<1>3. PollInterval \in Nat /\ PollInterval > 0
  BY RunnerAssumption
<1> QED
  BY <1>1, <1>2, <1>3 DEF Slack

LEMMA CommandFacts ==
    ASSUME UseTypes, Len(halves) < Len(req.commands)
    PROVE  /\ Command \in CommandType
           /\ Command.output \in Nat /\ Command.holds \in Nat /\ Command.rss \in Nat
           /\ Command.times \subseteq Nat /\ Command.codes \subseteq Int
<1>1. req.commands \in Seq(CommandType)
  BY RequestFacts DEF UseTypes
<1>2. Len(halves) \in Nat
  BY DEF UseTypes
<1>3. Command \in CommandType
  BY <1>1, <1>2 DEF Command
<1> QED
  BY <1>3 DEF CommandType

(* A step of the runner or of time leaves the command and the slack alone. *)
LEMMA SameCommand ==
    ASSUME UNCHANGED useVars
    PROVE  Command' = Command /\ Slack' = Slack /\ req' = req /\ step' = step
           /\ samples' = samples /\ halves' = halves /\ goal' = goal
BY DEF useVars, Command, Slack

(* Types are kept by the runner.                                           *)
LEMMA RunnerStepTypes ==
    ASSUME RunnerTypes, UseTypes, SpecIsNext, RunnerStep \/ Tick, UNCHANGED useVars
    PROVE  RunnerTypes' /\ UseTypes'
<1>1. UseTypes'
  BY DEF UseTypes, useVars
<1>2. spec.command.rss \in Nat \/ ~Running
  BY CommandFacts DEF SpecIsNext, Running
<1>3. CASE ChildWrites
  BY <1>1, <1>3, RunnerAssumption DEF ChildWrites, CanWrite, RunnerTypes, ChildType
<1>4. CASE ChildExits
  BY <1>1, <1>4 DEF ChildExits, CanExit, RunnerTypes, ChildType
<1>5. CASE PollSeesExit
  BY <1>1, <1>2, <1>5 DEF PollSeesExit, Reap, Running, RunnerTypes, Phases
<1>6. CASE PollExpires
  BY <1>1, <1>6, RunnerAssumption DEF PollExpires, RunnerTypes, Phases, NoChild, ChildType
<1>7. CASE WaitReturns
  BY <1>1, <1>2, <1>7 DEF WaitReturns, Reap, Running, RunnerTypes, Phases
<1>8. CASE ParentReads
  BY <1>1, <1>8, RunnerAssumption DEF ParentReads, RunnerTypes
<1>9. CASE ReadEnds
  BY <1>1, <1>2, <1>9 DEF ReadEnds, Reap, Running, RunnerTypes, Phases
<1>10. CASE Tick
  <2>1. child \in ChildType /\ child.left \in Nat /\ child.holds \in Nat
    BY DEF RunnerTypes, ChildType
  <2>2. (IF child.left > 0 THEN child.left - 1 ELSE 0) \in Nat
    BY <2>1
  <2>3. (IF child.exited /\ child.holds > 0 THEN child.holds - 1 ELSE child.holds) \in Nat
    BY <2>1
  <2>4. child' \in ChildType
    BY <1>10, <2>1, <2>2, <2>3 DEF Tick, ChildType
  <2> QED
    BY <1>1, <1>10, <2>4 DEF Tick, RunnerTypes
<1> QED
  BY <1>1, <1>3, <1>4, <1>5, <1>6, <1>7, <1>8, <1>9, <1>10 DEF RunnerStep

-----------------------------------------------------------------------------
(* The runner's steps and time keep RunnerInv.                             *)

LEMMA RunnerStepSpec ==
    ASSUME SpecIsNext, RunnerStep \/ Tick, UNCHANGED useVars
    PROVE  SpecIsNext'
<1>1. spec' = spec /\ platform' = platform
  BY DEF RunnerStep, ChildWrites, ChildExits, PollSeesExit, PollExpires, WaitReturns,
         ParentReads, ReadEnds, Tick
<1>2. \/ phase' = phase
      \/ phase' = "drain" /\ Running
      \/ phase' = "timeout" /\ Running
      \/ phase' = "ok" /\ Running
  BY DEF RunnerStep, ChildWrites, ChildExits, PollSeesExit, PollExpires, WaitReturns,
         ParentReads, ReadEnds, Tick, Running
<1> QED
  BY <1>1, <1>2, SameCommand DEF SpecIsNext, Running

LEMMA RunnerStepOutput ==
    ASSUME RunnerTypes, UseTypes, SpecIsNext, OutputKept, RunnerStep \/ Tick,
           UNCHANGED useVars
    PROVE  OutputKept'
<1> USE SameCommand
<1>0. Command.output \in Nat
  BY CommandFacts DEF SpecIsNext
<1>1. child \in ChildType /\ pipe \in Nat /\ captured \in Nat
      /\ child.left \in Nat /\ child.unwritten \in Nat /\ child.exited \in BOOLEAN
  BY RunnerAssumption DEF RunnerTypes, ChildType
<1>2. CASE ChildWrites
  BY <1>0, <1>1, <1>2 DEF ChildWrites, CanWrite, OutputKept, Running, ChildType
<1>3. CASE ChildExits
  <2>1. /\ child.left = 0 /\ child.unwritten = 0 /\ Running
        /\ child'.left = 0 /\ child'.unwritten = 0 /\ child'.exited
        /\ pipe' = pipe /\ captured' = captured /\ phase' = phase
    BY <1>1, <1>3 DEF ChildExits, CanExit, ChildType
  <2> QED
    BY <1>1, <2>1 DEF OutputKept, Running
<1>4. CASE PollSeesExit
  BY <1>0, <1>1, <1>4 DEF PollSeesExit, OutputKept, Running
<1>5. CASE PollExpires
  BY <1>0, <1>1, <1>5 DEF PollExpires, OutputKept, Running
<1>6. CASE WaitReturns
  BY <1>0, <1>1, <1>6 DEF WaitReturns, OutputKept, Running
<1>7. CASE ParentReads
  BY <1>0, <1>1, <1>7 DEF ParentReads, OutputKept, Running
<1>8. CASE ReadEnds
  BY <1>0, <1>1, <1>8 DEF ReadEnds, OutputKept, Running
<1>9. CASE Tick
  <2>1. /\ child'.unwritten = child.unwritten /\ child'.exited = child.exited
        /\ child.left = 0 => child'.left = 0
        /\ pipe' = pipe /\ captured' = captured /\ phase' = phase
    BY <1>1, <1>9 DEF Tick, ChildType
  <2> QED
    BY <1>1, <2>1 DEF OutputKept, Running
<1> QED
  BY <1>2, <1>3, <1>4, <1>5, <1>6, <1>7, <1>8, <1>9 DEF RunnerStep

LEMMA RunnerStepChildClock ==
    ASSUME RunnerTypes, UseTypes, SpecIsNext, OutputKept, ClockOfChild,
           RunnerStep \/ Tick, UNCHANGED useVars
    PROVE  ClockOfChild'
<1> USE SameCommand
<1>1. child \in ChildType /\ pipe \in 0..PipeCapacity /\ elapsed \in Nat /\ child.time \in Nat
      /\ child.left \in Nat /\ child.unwritten \in Nat /\ child.holds \in Nat
      /\ child.exited \in BOOLEAN /\ PipeCapacity \in Nat
  BY RunnerAssumption DEF RunnerTypes, ChildType
<1>2. CASE ChildWrites
  BY <1>1, <1>2 DEF ChildWrites, CanWrite, OutputKept, ClockOfChild, Blocked, Running, ChildType
<1>3. CASE ChildExits
  BY <1>1, <1>3 DEF ChildExits, ClockOfChild, Running, ChildType
<1>4. CASE PollSeesExit
  BY <1>1, <1>4 DEF PollSeesExit, ClockOfChild, Running
<1>5. CASE PollExpires
  BY <1>5 DEF PollExpires, ClockOfChild, Running
<1>6. CASE WaitReturns
  BY <1>6 DEF WaitReturns, ClockOfChild, Running
<1>7. CASE ParentReads
  BY <1>1, <1>7 DEF ParentReads, ClockOfChild, Blocked, Running
<1>8. CASE ReadEnds
  BY <1>8 DEF ReadEnds, ClockOfChild, Running
<1>9. CASE Tick
  <2> SUFFICES ASSUME Running, ~child.exited
               PROVE ClockOfChild'
    BY <1>1, <1>9 DEF Tick, ClockOfChild, Running, ChildType
  <2>1. /\ child'.left = IF child.left > 0 THEN child.left - 1 ELSE 0
        /\ child'.holds = child.holds /\ child'.unwritten = child.unwritten
        /\ child'.time = child.time /\ pipe' = pipe /\ phase' = phase
        /\ elapsed' = elapsed + 1
    BY <1>1, <1>9 DEF Tick, ChildType
  <2>2. CASE child.left > 0
    BY <1>1, <2>1, <2>2 DEF ClockOfChild, Running
  <2>3. CASE child.left = 0
    <3>1. child.unwritten > 0 /\ pipe >= PipeCapacity
      BY <1>1, <1>9, <2>3 DEF Tick, Eager, CanWrite, CanExit
    <3>2. phase = "poll"
      BY <1>1, <1>9, <2>3 DEF Tick, Busy
    <3> QED
      BY <1>1, <2>1, <2>3, <3>1, <3>2 DEF ClockOfChild, Blocked, Running
  <2> QED
    BY <1>1, <2>2, <2>3
<1> QED
  BY <1>2, <1>3, <1>4, <1>5, <1>6, <1>7, <1>8, <1>9 DEF RunnerStep

LEMMA RunnerStepExitClock ==
    ASSUME RunnerTypes, UseTypes, SpecIsNext, OutputKept, ClockOfChild, ClockAfterExit,
           RunnerStep \/ Tick, UNCHANGED useVars
    PROVE  ClockAfterExit'
<1> USE SameCommand
<1>1. child \in ChildType /\ elapsed \in Nat /\ child.time \in Nat
      /\ child.left \in Nat /\ child.unwritten \in Nat /\ child.holds \in Nat
      /\ child.exited \in BOOLEAN /\ PollInterval \in Nat \ {0}
  BY RunnerAssumption DEF RunnerTypes, ChildType
<1>2. Command.holds \in Nat /\ Slack \in Nat
      /\ (req.timeout > 0 => Slack = PollInterval - 1) /\ req.timeout \in Nat
  BY CommandFacts, RequestFacts DEF SpecIsNext, UseTypes
<1>3. CASE ChildWrites
  <2>1. Running /\ ~child.exited
    BY <1>1, <1>3 DEF ChildWrites, CanWrite, OutputKept
  <2>2. ~child'.exited
    BY <1>1, <1>3, <2>1 DEF ChildWrites, ChildType
  <2> QED
    BY <2>2 DEF ClockAfterExit
<1>4. CASE ChildExits
  <2>1. /\ child'.time = child.time /\ child'.holds = child.holds /\ Running
        /\ elapsed' = elapsed /\ phase' = phase
    BY <1>1, <1>4 DEF ChildExits, ChildType
  <2>2. elapsed = child.time /\ child.holds = Command.holds
    BY <1>1, <1>4, <2>1 DEF ChildExits, CanExit, ClockOfChild, Blocked
  <2>3. Late(elapsed, child.time)
    BY <1>1, <2>2 DEF Late
  <2> QED
    BY <1>1, <1>2, <2>1, <2>2, <2>3 DEF ClockAfterExit
<1>5. CASE PollSeesExit
  <2>1. /\ child.time <= elapsed /\ child.holds <= Command.holds
        /\ Late(elapsed, child.time) /\ req.timeout > 0
    BY <1>5 DEF PollSeesExit, ClockAfterExit, SpecIsNext, Running
  <2>2. elapsed - child.time \in 0..(PollInterval - 1)
    BY <1>1, <2>1, PollLag
  <2>3. elapsed - child.time + child.holds <= Command.holds + Slack
    BY <1>1, <1>2, <2>1, <2>2
  <2> QED
    BY <1>5, <2>1, <2>3 DEF PollSeesExit, ClockAfterExit
<1>6. CASE PollExpires
  BY <1>6 DEF PollExpires, ClockAfterExit, Running
<1>7. CASE WaitReturns
  BY <1>1, <1>2, <1>7 DEF WaitReturns, ClockAfterExit, Running
<1>8. CASE ParentReads
  BY <1>8 DEF ParentReads, ClockAfterExit, Running
<1>9. CASE ReadEnds
  BY <1>9 DEF ReadEnds, ClockAfterExit, Running
<1>10. CASE Tick
  <2> SUFFICES ASSUME child.exited
               PROVE ClockAfterExit'
    BY <1>1, <1>10 DEF Tick, ClockAfterExit, ChildType
  <2>1. /\ child'.holds = IF child.holds > 0 THEN child.holds - 1 ELSE 0
        /\ child'.time = child.time /\ phase' = phase /\ elapsed' = elapsed + 1
        /\ Running
    BY <1>1, <1>10 DEF Tick, ChildType
  <2>2. /\ child.time <= elapsed /\ child.holds <= Command.holds
        /\ phase = "poll" => Late(elapsed, child.time)
        /\ phase \in {"output", "drain"} =>
             elapsed - child.time + child.holds <= Command.holds + Slack
    BY <2>1 DEF ClockAfterExit
  <2>3. child'.time <= elapsed' /\ child'.holds <= Command.holds
    BY <1>1, <1>2, <2>1, <2>2
  <2>4. phase # "wait"
    BY <1>10 DEF Tick, Eager
  <2>5. ASSUME phase = "poll"
        PROVE Late(elapsed', child'.time)
    <3>1. elapsed % PollInterval # 0
      BY <1>10, <2>5 DEF Tick, Eager, PollReturns, AtPoll
    <3> QED
      BY <1>1, <2>1, <2>2, <2>5, <3>1, PollLagGrows
  <2>6. ASSUME phase \in {"output", "drain"}
        PROVE elapsed' - child'.time + child'.holds <= Command.holds + Slack
    <3>1. child.holds > 0
      BY <1>1, <1>10, <2>6 DEF Tick, Busy, OutputKept, Running
    <3> QED
      BY <1>1, <1>2, <2>1, <2>2, <2>6, <3>1
  <2> QED
    BY <2>1, <2>3, <2>4, <2>5, <2>6 DEF ClockAfterExit
<1> QED
  BY <1>3, <1>4, <1>5, <1>6, <1>7, <1>8, <1>9, <1>10 DEF RunnerStep

LEMMA RunnerStepWall ==
    ASSUME RunnerTypes, UseTypes, SpecIsNext, OutputKept, ClockAfterExit, WallIsChilds,
           RunnerStep \/ Tick, UNCHANGED useVars
    PROVE  WallIsChilds'
<1> USE SameCommand
<1>1. child \in ChildType /\ elapsed \in Nat /\ child.time \in Nat /\ wall \in Nat
      /\ child.holds \in Nat /\ PollInterval \in Nat \ {0} /\ platform \in {"unix", "windows"}
  BY RunnerAssumption DEF RunnerTypes, ChildType
<1>2. Command.holds \in Nat /\ Slack \in Nat
      /\ (req.timeout > 0 => Slack = PollInterval - 1) /\ req.timeout \in Nat
  BY CommandFacts, RequestFacts DEF SpecIsNext, UseTypes
<1>3. CASE ChildWrites
  BY <1>1, <1>3 DEF ChildWrites, WallIsChilds, ChildType
<1>4. CASE ChildExits
  BY <1>1, <1>4 DEF ChildExits, WallIsChilds, ChildType
<1>5. CASE PollSeesExit
  <2>1. Late(elapsed, child.time) /\ req.timeout > 0
    BY <1>5 DEF PollSeesExit, ClockAfterExit, SpecIsNext, Running
  <2>2. elapsed - child.time \in 0..Slack
    BY <1>1, <1>2, <2>1, PollLag
  <2> QED
    BY <1>5, <2>2 DEF PollSeesExit, WallIsChilds
<1>6. CASE PollExpires
  BY <1>6 DEF PollExpires, WallIsChilds
<1>7. CASE WaitReturns
  BY <1>1, <1>2, <1>7 DEF WaitReturns, ClockAfterExit, WallIsChilds, Running
<1>8. CASE ParentReads
  BY <1>8 DEF ParentReads, WallIsChilds
<1>9. CASE ReadEnds
  <2>1. Running /\ child.exited /\ child'.time = child.time /\ platform' = platform
        /\ phase' = "ok" /\ phase \in {"output", "drain"} /\ child.holds = 0
    BY <1>9 DEF ReadEnds, Running
  <2>2. CASE platform = "unix"
    <3>1. wall' = elapsed
      BY <1>9, <2>2 DEF ReadEnds
    <3>2. child.time <= elapsed /\ elapsed - child.time + child.holds <= Command.holds + Slack
      BY <2>1 DEF ClockAfterExit
    <3>3. wall' - child'.time \in 0..(Command.holds + Slack)
      BY <1>1, <1>2, <2>1, <3>1, <3>2
    <3> QED
      BY <2>1, <2>2, <3>3 DEF WallIsChilds
  <2>3. CASE platform = "windows"
    <3>1. wall' = wall /\ phase = "drain"
      BY <1>9, <2>1, <2>3 DEF ReadEnds, SpecIsNext
    <3> QED
      BY <1>2, <2>1, <2>3, <3>1 DEF WallIsChilds
  <2> QED
    BY <1>1, <2>2, <2>3
<1>10. CASE Tick
  BY <1>1, <1>10 DEF Tick, WallIsChilds, Running, ChildType
<1> QED
  BY <1>3, <1>4, <1>5, <1>6, <1>7, <1>8, <1>9, <1>10 DEF RunnerStep

LEMMA RunnerStepKeeps ==
    ASSUME IndInv, RunnerStep \/ Tick, UNCHANGED useVars
    PROVE  IndInv'
<1>1. RunnerTypes' /\ UseTypes'
  BY RunnerStepTypes DEF IndInv, RunnerInv
<1>2. RunnerInv'
  BY RunnerStepSpec, RunnerStepOutput, RunnerStepChildClock, RunnerStepExitClock,
     RunnerStepWall DEF IndInv, RunnerInv
<1>3. platform' = platform
  BY DEF RunnerStep, ChildWrites, ChildExits, PollSeesExit, PollExpires, WaitReturns,
         ParentReads, ReadEnds, Tick
<1>4. UseInv'
  BY <1>3 DEF IndInv, UseInv, useVars, HalvesGood, SamplesGood, GoodHalf, Slack, WarmupsFirst,
              Counted, ReasonsSound, ReasonsComplete, BadHalf, Outcome, ExitCode
<1> QED
  BY <1>1, <1>2, <1>4 DEF IndInv

-----------------------------------------------------------------------------
(* The steps of the use case.                                              *)

LEMMA StartHalfKeeps ==
    ASSUME IndInv, StartHalf
    PROVE  IndInv'
<1> USE SameCommand
<1>0. UNCHANGED useVars /\ step = "measure" /\ Len(samples) < req.warmup + goal
      /\ Spawn(Command, req.timeout)
  BY DEF StartHalf, MoreToRun, Command
<1>1. /\ Command \in CommandType /\ Command.output \in Nat /\ Command.holds \in Nat
      /\ Command.times \subseteq Nat /\ Command.codes \subseteq Int /\ req.timeout \in Nat
  BY CommandFacts, RequestFacts DEF IndInv, RunnerInv, SpecIsNext, UseTypes
<1>2. /\ phase = "idle" /\ platform' = platform /\ peak' = peak
      /\ spec' = [command |-> Command, timeout |-> req.timeout]
      /\ pipe' = 0 /\ captured' = 0 /\ elapsed' = 0 /\ wall' = 0
  BY <1>0 DEF Spawn
<1>3. UseTypes'
  BY <1>0 DEF IndInv, UseTypes, useVars
<1>4. UseInv'
  BY <1>0, <1>2 DEF IndInv, UseInv, useVars, HalvesGood, SamplesGood, GoodHalf, Slack,
              WarmupsFirst, Counted, ReasonsSound, ReasonsComplete, BadHalf, Outcome, ExitCode
<1>5. PipeCapacity \in Nat /\ platform \in {"unix", "windows"} /\ peak \in Nat
  BY RunnerAssumption DEF IndInv, RunnerTypes
<1>6. CASE Command.found
  <2>1. phase' = IF req.timeout > 0 THEN "poll"
                 ELSE IF platform = "unix" THEN "output" ELSE "wait"
    BY <1>0, <1>6 DEF Spawn
  <2>2. PICK t \in Command.times, x \in Command.codes :
          child' = [time |-> t, code |-> x, left |-> t, unwritten |-> Command.output,
                    holds |-> Command.holds, exited |-> FALSE]
    BY <1>0, <1>6 DEF Spawn
  <2>3. t \in Nat /\ x \in Int
    BY <1>1
  <2>4. RunnerTypes'
    BY <1>1, <1>2, <1>5, <2>1, <2>2, <2>3 DEF RunnerTypes, Phases, ChildType
  <2>5. SpecIsNext'
    BY <1>0, <1>1, <1>2, <1>5, <2>1 DEF IndInv, RunnerInv, SpecIsNext, Running
  <2>6. OutputKept'
    BY <1>0, <1>1, <1>2, <2>1, <2>2 DEF OutputKept, Running
  <2>7. ClockOfChild'
    <3>1. child'.holds = Command.holds /\ child'.left = t /\ child'.time = t
      BY <2>2
    <3> QED
      BY <1>0, <1>2, <2>3, <3>1 DEF ClockOfChild
  <2>8. ClockAfterExit'
    BY <2>2 DEF ClockAfterExit
  <2>9. WallIsChilds'
    BY <2>1 DEF WallIsChilds
  <2> QED
    BY <1>3, <1>4, <2>4, <2>5, <2>6, <2>7, <2>8, <2>9 DEF IndInv, RunnerInv
<1>7. CASE ~Command.found
  <2>1. phase' = "spawnerror" /\ child' = NoChild
    BY <1>0, <1>7 DEF Spawn
  <2>2. RunnerTypes'
    BY <1>2, <1>5, <2>1 DEF RunnerTypes, Phases, NoChild, ChildType
  <2>3. RunnerInv'
    BY <1>0, <1>2, <2>1 DEF IndInv, RunnerInv, SpecIsNext, OutputKept, ClockOfChild,
                            ClockAfterExit, WallIsChilds, Running
  <2> QED
    BY <1>3, <1>4, <2>2, <2>3 DEF IndInv
<1> QED
  BY <1>6, <1>7

(* The half measured is that of the command just run.                      *)
LEMMA HalfIsGood ==
    ASSUME IndInv, phase = "ok"
    PROVE  Half \in HalfType /\ GoodHalf(Half, Len(halves) + 1)
<1>1. /\ Command \in CommandType /\ Command.output \in Nat /\ Command.rss \in Nat
      /\ spec.command = Command
  BY CommandFacts DEF IndInv, RunnerInv, SpecIsNext
<1>2. /\ child.time \in Nat /\ child.code \in Int /\ wall \in Nat /\ peak \in Nat
      /\ captured = Command.output
  BY DEF IndInv, RunnerInv, OutputKept, RunnerTypes, ChildType
<1>3. Kept(captured) \in Nat
  BY <1>1, <1>2, RunnerAssumption DEF Kept
<1>4. Half \in HalfType
  BY <1>1, <1>2, <1>3 DEF Half, Result, HalfType
<1>5. Half.stdout = Kept(Command.output) /\ Half.wall = wall /\ Half.time = child.time
  BY <1>2 DEF Half, Result
<1>6. GoodHalf(Half, Len(halves) + 1)
  BY <1>5 DEF GoodHalf, IndInv, RunnerInv, WallIsChilds, Command
<1> QED
  BY <1>4, <1>6

(* A new sample keeps the old ones, and the reasons are complete again.    *)
LEMMA EndHalfKeeps ==
    ASSUME IndInv, EndHalf
    PROVE  IndInv'
<1> DEFINE hs == Append(halves, Half)
           s == [warmup |-> Len(samples) < req.warmup, halves |-> hs]
           complete == Len(hs) = Len(req.commands)
           n == Len(samples) + 1
<1>1. /\ step = "measure" /\ phase = "ok" /\ phase' = "idle"
      /\ halves' = IF complete THEN <<>> ELSE hs
      /\ samples' = IF complete THEN Append(samples, s) ELSE samples
      /\ reasons' = IF complete THEN reasons \cup SampleReasons(s, n) ELSE reasons
      /\ UNCHANGED <<platform, spec, child, pipe, captured, elapsed, wall, peak,
                     req, step, retries, early, goal, receipt, written, uploaded, exit>>
  BY DEF EndHalf
<1>2. Half \in HalfType /\ GoodHalf(Half, Len(halves) + 1)
  BY <1>1, HalfIsGood
<1>3. /\ halves \in Seq(HalfType) /\ samples \in Seq(SampleType) /\ goal \in Nat
      /\ Len(halves) \in Nat /\ Len(samples) \in Nat /\ req \in Requests
  BY DEF IndInv, UseTypes
<1>4. /\ Len(req.commands) \in {1, 2} /\ req.warmup \in Nat
  BY <1>3, RequestFacts
<1>5. Len(halves) < Len(req.commands) /\ Len(samples) < req.warmup + goal
  BY <1>1 DEF IndInv, RunnerInv, SpecIsNext
<1>6. /\ hs \in Seq(HalfType) /\ Len(hs) = Len(halves) + 1
      /\ \A h \in DOMAIN hs : GoodHalf(hs[h], h)
  <2>1. hs \in Seq(HalfType) /\ Len(hs) = Len(halves) + 1
    BY <1>2, <1>3
  <2>2. ASSUME NEW h \in DOMAIN hs
        PROVE GoodHalf(hs[h], h)
    <3>1. h \in 1..(Len(halves) + 1) /\ DOMAIN halves = 1..Len(halves)
      BY <1>3, <2>1
    <3>2. CASE h = Len(halves) + 1
      BY <1>2, <1>3, <3>2
    <3>3. CASE h \in 1..Len(halves)
      <4>1. hs[h] = halves[h]
        BY <1>2, <1>3, <3>3
      <4> QED
        BY <3>1, <3>3, <4>1 DEF IndInv, UseInv, HalvesGood
    <3> QED
      BY <1>3, <3>1, <3>2, <3>3
  <2> QED
    BY <2>1, <2>2
<1>7. s \in SampleType /\ s.halves = hs /\ (s.warmup <=> n <= req.warmup)
  <2>1. (Len(samples) < req.warmup) \in BOOLEAN
    OBVIOUS
  <2>2. s \in SampleType
    BY <1>6, <2>1, Zenon DEF SampleType
  <2>3. s.halves = hs
    BY Zenon
  <2>4. s.warmup <=> Len(samples) < req.warmup
    BY Zenon
  <2>5. Len(samples) < req.warmup <=> n <= req.warmup
    BY <1>3, <1>4
  <2> QED
    BY <2>2, <2>3, <2>4, <2>5, Zenon
<1> HIDE DEF hs, s
<1>8. UseTypes'
  BY <1>1, <1>3, <1>6, <1>7 DEF IndInv, UseTypes
<1>9. RunnerTypes' /\ RunnerInv'
  <2>1. RunnerTypes'
    BY <1>1 DEF IndInv, RunnerTypes, Phases
  <2>2. Len(halves') < Len(req'.commands)
    BY <1>1, <1>3, <1>4, <1>5, <1>6
  <2> QED
    BY <1>1, <2>1, <2>2 DEF RunnerInv, SpecIsNext, OutputKept, ClockOfChild, ClockAfterExit,
                            WallIsChilds, Running
<1>10. CASE ~complete
  <2>1. halves' = hs /\ samples' = samples /\ reasons' = reasons
    BY <1>1, <1>10
  <2>2. HalvesGood'
    BY <1>1, <1>6, <2>1 DEF HalvesGood, GoodHalf, Slack
  <2>3. UseInv'
    BY <1>1, <2>1, <2>2 DEF IndInv, UseInv, SamplesGood, GoodHalf, Slack, WarmupsFirst,
                   Counted, ReasonsSound, ReasonsComplete, BadHalf, Outcome, ExitCode
  <2> QED
    BY <1>8, <1>9, <2>3 DEF IndInv
<1>11. CASE complete
  <2>1. halves' = <<>> /\ samples' = Append(samples, s)
        /\ reasons' = reasons \cup SampleReasons(s, n)
    BY <1>1, <1>11
  <2>2. /\ DOMAIN samples = 1..Len(samples) /\ DOMAIN samples' = 1..n
        /\ Len(samples') = n /\ samples'[n] = s
        /\ \A i \in DOMAIN samples : samples'[i] = samples[i]
    BY <1>3, <1>7, <2>1
  <2>3. \A i \in DOMAIN samples' : i \in DOMAIN samples \/ i = n
    BY <1>3, <2>2
  <2>4. HalvesGood'
    BY <2>1 DEF HalvesGood
  <2>5. SamplesGood'
    <3> SUFFICES ASSUME NEW i \in DOMAIN samples', NEW h \in DOMAIN samples'[i].halves
                 PROVE GoodHalf(samples[i].halves[h], h)'
      BY Zenon DEF SamplesGood
    <3>1. GoodHalf(samples'[i].halves[h], h)
      <4>1. ASSUME i \in DOMAIN samples
            PROVE GoodHalf(samples'[i].halves[h], h)
        BY <2>2, <4>1 DEF IndInv, UseInv, SamplesGood
      <4>2. ASSUME i = n
            PROVE GoodHalf(samples'[i].halves[h], h)
        BY <1>6, <1>7, <2>2, <4>2
      <4> QED
        BY <2>3, <4>1, <4>2
    <3> QED
      BY <1>1, <3>1 DEF GoodHalf, Slack
  <2>6. WarmupsFirst'
    <3> SUFFICES ASSUME NEW i \in DOMAIN samples'
                 PROVE samples'[i].warmup <=> i <= req'.warmup
      BY DEF WarmupsFirst
    <3>1. ASSUME i \in DOMAIN samples
          PROVE samples'[i].warmup <=> i <= req'.warmup
      <4>1. samples'[i] = samples[i] /\ req' = req
        BY <1>1, <2>2, <3>1
      <4>2. samples[i].warmup <=> i <= req.warmup
        BY <3>1 DEF IndInv, UseInv, WarmupsFirst
      <4> QED
        BY <4>1, <4>2, Zenon
    <3>2. ASSUME i = n
          PROVE samples'[i].warmup <=> i <= req'.warmup
      BY <1>1, <1>7, <2>2, <3>2, Zenon
    <3> QED
      BY <2>3, <3>1, <3>2
  <2>7. Counted'
    BY <1>1, <1>3, <1>4, <1>5, <2>2 DEF IndInv, UseInv, Counted
  <2>8. ReasonsSound'
    <3> SUFFICES ASSUME NEW r \in reasons'
                 PROVE (\/ \E i \in DOMAIN samples :
                            \E h \in DOMAIN samples[i].halves : BadHalf(i, h)
                        \/ req.require_significance
                        \/ req.fail_on >= 0)'
      BY DEF ReasonsSound
    <3>1. CASE r \in reasons
      BY <1>1, <2>2, <3>1 DEF IndInv, UseInv, ReasonsSound, BadHalf
    <3>2. CASE r \in SampleReasons(s, n)
      <4>1. ~s.warmup
        BY <3>2 DEF SampleReasons
      <4>2. PICK h \in DOMAIN s.halves : s.halves[h].code # 0
        BY <3>2 DEF SampleReasons
      <4>3. n \in DOMAIN samples' /\ samples'[n] = s
        BY <1>3, <2>2
      <4> QED
        BY <4>1, <4>2, <4>3 DEF BadHalf
    <3> QED
      BY <2>1, <3>1, <3>2
  <2>9. ReasonsComplete'
    <3> SUFFICES ASSUME NEW i \in DOMAIN samples', NEW h \in DOMAIN samples'[i].halves,
                        ~samples'[i].warmup, samples'[i].halves[h].code # 0,
                        ~req.allow_nonzero
                 PROVE ExitReason(i, h) \in reasons'
      BY <1>1 DEF ReasonsComplete, BadHalf, ExitReason
    <3>1. CASE i \in DOMAIN samples
      BY <2>1, <2>2, <3>1 DEF IndInv, UseInv, ReasonsComplete, BadHalf
    <3>2. CASE i = n
      <4>1. ~s.warmup /\ h \in DOMAIN s.halves /\ s.halves[h].code # 0
        BY <2>2, <3>2
      <4>2. ExitReason(n, h) \in SampleReasons(s, n)
        BY <4>1 DEF SampleReasons, ExitReason
      <4> QED
        BY <2>1, <3>2, <4>2
    <3> QED
      BY <2>3, <3>1, <3>2
  <2>10. Outcome'
    BY <1>1 DEF Outcome
  <2> QED
    BY <1>8, <1>9, <2>4, <2>5, <2>6, <2>7, <2>8, <2>9, <2>10 DEF IndInv, UseInv
<1> QED
  BY <1>10, <1>11

(* The steps that end the loops or the command: the runner is at rest, the *)
(* samples stay as they are.                                               *)
LEMMA ClosingKeeps ==
    ASSUME IndInv, RunFails \/ NoSamples \/ Retry \/ Finish \/ WriteReceipt \/ Upload \/ Exit
    PROVE  IndInv'
<1>0. /\ UNCHANGED <<runnerVars, req, halves, samples>>
      /\ goal \in Nat /\ retries \in Nat /\ Len(samples) \in Nat
  BY DEF IndInv, UseTypes, RunFails, NoSamples, Retry, Finish, WriteReceipt, Upload, Exit
<1>1. req.warmup \in Nat
  BY RequestFacts DEF IndInv, UseTypes
<1>2. ~Running /\ phase # "ok"
  BY DEF IndInv, RunnerInv, SpecIsNext, Running, RunFails, NoSamples, Retry, Finish,
         WriteReceipt, Upload, Exit, AllCollected
<1>3. RunnerTypes'
  BY <1>0 DEF IndInv, RunnerTypes, runnerVars
<1>4. RunnerInv'
  BY <1>0, <1>2 DEF IndInv, RunnerInv, SpecIsNext, OutputKept, ClockOfChild, ClockAfterExit,
              WallIsChilds, Running, Command, Slack, runnerVars
<1>5. HalvesGood' /\ SamplesGood' /\ WarmupsFirst'
  BY <1>0 DEF IndInv, UseInv, HalvesGood, SamplesGood, WarmupsFirst, GoodHalf, Slack, runnerVars
<1>6. ASSUME UNCHANGED reasons
      PROVE ReasonsSound' /\ ReasonsComplete'
  BY <1>0, <1>6 DEF IndInv, UseInv, ReasonsSound, ReasonsComplete, BadHalf
<1>7. SUFFICES UseTypes' /\ Counted' /\ ReasonsSound' /\ ReasonsComplete' /\ Outcome'
  BY <1>3, <1>4, <1>5 DEF IndInv, UseInv
<1>8. CASE RunFails \/ NoSamples
  <2>1. step = "measure" /\ step' = "done" /\ ~written /\ ~uploaded
        /\ UNCHANGED <<retries, goal, receipt, written, uploaded, reasons>>
    BY <1>8 DEF RunFails, NoSamples, AllCollected, IndInv, UseInv, Counted
  <2> QED
    BY <1>0, <1>6, <2>1 DEF IndInv, UseInv, UseTypes, Steps, Counted, Outcome
<1>9. CASE Retry
  <2>1. ExtraPairs(retries) \in Nat
    BY <1>0 DEF ExtraPairs
  <2>2. /\ step = "measure" /\ UNCHANGED <<step, receipt, written, uploaded, reasons>>
        /\ goal' = goal + ExtraPairs(retries) /\ retries' = retries + 1
    BY <1>9 DEF Retry, AllCollected
  <2>3. UseTypes'
    BY <1>0, <2>1, <2>2 DEF IndInv, UseTypes
  <2>4. Counted'
    BY <1>0, <1>1, <2>1, <2>2 DEF IndInv, UseInv, Counted
  <2> QED
    BY <1>6, <2>2, <2>3, <2>4 DEF Outcome
<1>10. CASE Finish
  <2>1. /\ step = "measure" /\ step' = "write" /\ receipt' = goal
        /\ Len(samples) = req.warmup + goal
        /\ UNCHANGED <<retries, goal, written, uploaded>>
    BY <1>0, <1>1, <1>10 DEF Finish, AllCollected, MoreToRun, IndInv, UseInv, Counted
  <2>2. UseTypes' /\ Counted' /\ Outcome'
    BY <1>0, <2>1 DEF IndInv, UseInv, UseTypes, Steps, Counted, Outcome
  <2>3. reasons \subseteq reasons'
    BY <1>10 DEF Finish
  <2>4. reasons' = reasons \/ req.require_significance \/ req.fail_on >= 0
    BY <1>10 DEF Finish, StopNow
  <2>5. ReasonsSound'
    BY <1>0, <2>4 DEF IndInv, UseInv, ReasonsSound, BadHalf
  <2>6. ReasonsComplete'
    BY <1>0, <2>3 DEF IndInv, UseInv, ReasonsComplete, BadHalf
  <2> QED
    BY <2>2, <2>5, <2>6
<1>11. CASE WriteReceipt
  <2>1. /\ step = "write" /\ ~uploaded /\ UNCHANGED <<retries, goal, receipt, uploaded, reasons>>
        /\ \/ written' = TRUE /\ step' \in {"upload", "exit"} /\ (step' = "upload" => req.upload)
           \/ written' = FALSE /\ step' = "done"
    BY <1>11 DEF WriteReceipt, IndInv, UseInv, Counted
  <2> QED
    BY <1>0, <1>6, <2>1 DEF IndInv, UseInv, UseTypes, Steps, Counted, Outcome
<1>12. CASE Upload
  <2>1. /\ step = "upload" /\ UNCHANGED <<retries, goal, receipt, written, reasons>>
        /\ \/ uploaded' = TRUE /\ step' = "exit"
           \/ uploaded' = FALSE /\ step' = "done" /\ exit' = 1
    BY <1>12 DEF Upload
  <2>2. UseTypes' /\ Counted'
    BY <1>0, <2>1 DEF IndInv, UseInv, UseTypes, Steps, Counted
  <2>3. Outcome'
    BY <1>0, <2>1 DEF IndInv, UseInv, Counted, Outcome
  <2> QED
    BY <1>6, <2>1, <2>2, <2>3
<1>13. CASE Exit
  <2>1. /\ step = "exit" /\ step' = "done" /\ exit' = ExitCode
        /\ UNCHANGED <<retries, goal, receipt, written, uploaded, reasons>>
    BY <1>13 DEF Exit
  <2>2. ExitCode' = ExitCode
    BY <1>0, <2>1 DEF ExitCode
  <2> QED
    BY <1>0, <1>6, <2>1, <2>2 DEF IndInv, UseInv, UseTypes, Steps, Counted, Outcome
<1> QED
  BY <1>8, <1>9, <1>10, <1>11, <1>12, <1>13

LEMMA InitHolds ==
    Init => IndInv
<1> SUFFICES ASSUME Init PROVE IndInv
  OBVIOUS
<1>1. req \in Requests
  BY DEF Init
<1>2. Len(req.commands) \in {1, 2} /\ req.commands \in Seq(CommandType)
      /\ req.warmup \in Nat /\ req.repeat \in Nat
  BY <1>1, RequestFacts
<1>3. RunnerTypes
  BY RunnerAssumption DEF Init, RunnerInit, RunnerTypes, Phases, NoChild, ChildType
<1>4. UseTypes
  <2>1. halves \in Seq(HalfType) /\ samples \in Seq(SampleType)
    BY DEF Init
  <2>2. /\ step = "measure" /\ retries = 0 /\ goal = req.repeat
        /\ written = FALSE /\ uploaded = FALSE
    BY DEF Init
  <2> QED
    BY <1>1, <1>2, <2>1, <2>2 DEF UseTypes, Steps
<1>5. RunnerInv
  <2>1. phase = "idle" /\ Len(halves) = 0
    BY DEF Init, RunnerInit
  <2>2. Len(halves) < Len(req.commands)
    <3>1. 0 < 1 /\ 0 < 2
      OBVIOUS
    <3> QED
      BY <1>2, <2>1, <3>1, Zenon
  <2>3. SpecIsNext
    BY <2>1, <2>2 DEF SpecIsNext, Running
  <2> QED
    BY <2>1, <2>3 DEF RunnerInv, OutputKept, ClockOfChild, ClockAfterExit,
                      WallIsChilds, Running
<1>6. UseInv
  BY <1>2 DEF Init, UseInv, HalvesGood, SamplesGood, WarmupsFirst, Counted, ReasonsSound,
              ReasonsComplete, Outcome
<1> QED
  BY <1>3, <1>4, <1>5, <1>6 DEF IndInv

LEMMA NextKeeps ==
    IndInv /\ [Next]_vars => IndInv'
<1> SUFFICES ASSUME IndInv, [Next]_vars PROVE IndInv'
  OBVIOUS
<1>1. CASE Work
  BY <1>1, StartHalfKeeps, EndHalfKeeps, ClosingKeeps DEF Work
<1>2. CASE (RunnerStep \/ Tick) /\ UNCHANGED useVars
  BY <1>2, RunnerStepKeeps
<1>3. CASE UNCHANGED vars
  BY <1>3 DEF vars, runnerVars, useVars, IndInv, RunnerTypes, UseTypes, RunnerInv, UseInv,
     SpecIsNext, OutputKept, Blocked, ClockOfChild, ClockAfterExit, WallIsChilds, Running,
     Command, Slack, HalvesGood, SamplesGood, GoodHalf, WarmupsFirst, Counted,
     ReasonsSound, ReasonsComplete, BadHalf, Outcome, ExitCode
<1> QED
  BY <1>1, <1>2, <1>3 DEF Next, Halted

-----------------------------------------------------------------------------
(* The theorems.                                                           *)

(* IndInv holds throughout.                                                *)
THEOREM Inductive ==
    Spec => []IndInv
<1>1. Init => IndInv
  BY InitHolds
<1>2. IndInv /\ [Next]_vars => IndInv'
  BY NextKeeps
<1> QED
  BY <1>1, <1>2, PTL DEF Spec

(* A sample holds its own child's output, all of it up to the cap, and     *)
(* its wall time is off by less than a polling interval, plus what a       *)
(* process left behind adds on Unix (run_unix, run_windows, wait_timeout). *)
THEOREM SamplesAreOwn ==
    Spec => []SamplesAreTheChilds
<1>1. IndInv => SamplesAreTheChilds
  BY DEF IndInv, UseInv, SamplesGood, GoodHalf, Slack, SamplesAreTheChilds, Range
<1> QED
  BY <1>1, Inductive, PTL

(* A receipt holds the samples it says it does, exit code 0 means that no  *)
(* measured sample failed unless failures were allowed, and a failed       *)
(* warm-up alone never fails the run (RunBenchUseCase::execute,            *)
(* PairedRunUseCase::execute, and the Run and Paired commands).            *)
THEOREM OutcomeHolds ==
    Spec => []OutcomeIsOfMeasured
<1>1. IndInv => OutcomeIsOfMeasured
  <2> DEFINE bad == \E s \in Range(samples) : ~s.warmup /\
                       \E h \in DOMAIN s.halves : s.halves[h].code # 0
  <2> SUFFICES ASSUME IndInv, step = "done", written
               PROVE /\ Len(samples) = req.warmup + receipt
                     /\ \A i \in DOMAIN samples : samples[i].warmup <=> i <= req.warmup
                     /\ exit = 0 /\ ~req.allow_nonzero => ~bad
                     /\ exit = 1 /\ ~bad /\ ~(req.fail_on >= 0 \/ req.require_significance)
                          => req.upload /\ ~uploaded
    BY DEF OutcomeIsOfMeasured
  <2>1. Len(samples) = req.warmup + receipt
    BY DEF IndInv, UseInv, Counted
  <2>2. \A i \in DOMAIN samples : samples[i].warmup <=> i <= req.warmup
    BY DEF IndInv, UseInv, WarmupsFirst
  <2>3. exit = ExitCode \/ (exit = 1 /\ req.upload /\ ~uploaded)
    BY DEF IndInv, UseInv, Outcome
  <2>4. bad <=> \E i \in DOMAIN samples : \E h \in DOMAIN samples[i].halves : BadHalf(i, h)
    BY DEF Range, BadHalf
  <2>5. ASSUME exit = 0, ~req.allow_nonzero, bad
        PROVE FALSE
    <3>1. reasons = {}
      BY <2>3, <2>5 DEF ExitCode
    <3> QED
      BY <2>4, <2>5, <3>1 DEF IndInv, UseInv, ReasonsComplete
  <2>6. ASSUME exit = 1, ~bad, ~(req.fail_on >= 0 \/ req.require_significance)
        PROVE req.upload /\ ~uploaded
    <3>1. reasons = {}
      BY <2>4, <2>6 DEF IndInv, UseInv, ReasonsSound
    <3> QED
      BY <2>3, <2>6, <3>1 DEF ExitCode
  <2> HIDE DEF bad
  <2> QED
    BY <2>1, <2>2, <2>5, <2>6
<1> QED
  BY <1>1, Inductive, PTL

(* A timeout is reported only of a child that had not ended one polling    *)
(* interval before the deadline, or that waited for its output to be read  *)
(* (wait_timeout).                                                         *)
THEOREM TimeoutsAreReal ==
    Spec => TimeoutIsReal
<1> DEFINE Real == phase' = "timeout" /\ phase # "timeout" =>
         \/ ~child.exited /\ child.left > 0
         \/ ~child.exited /\ child.unwritten > 0 /\ pipe = PipeCapacity
         \/ child.time + PollInterval > spec.timeout
<1>1. IndInv /\ [Next]_vars => [Real]_vars
  <2> SUFFICES ASSUME IndInv, Next, phase' = "timeout", phase # "timeout"
               PROVE  \/ ~child.exited /\ child.left > 0
                      \/ ~child.exited /\ child.unwritten > 0 /\ pipe = PipeCapacity
                      \/ child.time + PollInterval > spec.timeout
    OBVIOUS
  <2>1. PollExpires
    BY DEF Next, Work, StartHalf, Spawn, EndHalf, RunFails, NoSamples, Retry, Finish,
           WriteReceipt, Upload, Exit, Halted, RunnerStep, ChildWrites, ChildExits,
           PollSeesExit, WaitReturns, ParentReads, ReadEnds, Tick, vars, runnerVars
  <2>2. phase = "poll" /\ elapsed >= spec.timeout /\ Running
    BY <2>1 DEF PollExpires, Deadline, Running
  <2>3. child.time \in Nat /\ child.left \in Nat /\ elapsed \in Nat /\ spec.timeout \in Nat
        /\ PollInterval \in Nat \ {0}
    BY <2>2, RequestFacts, RunnerAssumption
       DEF IndInv, RunnerTypes, ChildType, RunnerInv, SpecIsNext, UseTypes
  <2>4. CASE child.exited
    <3>1. elapsed - child.time \in 0..(PollInterval - 1)
      BY <2>2, <2>3, <2>4, PollLag DEF IndInv, RunnerInv, ClockAfterExit
    <3> QED
      BY <2>2, <2>3, <3>1
  <2>5. CASE ~child.exited /\ child.left = 0 /\ ~Blocked
    <3>1. elapsed = child.time
      BY <2>2, <2>5 DEF IndInv, RunnerInv, ClockOfChild
    <3> QED
      BY <2>2, <2>3, <3>1
  <2> QED
    BY <2>3, <2>4, <2>5 DEF Blocked
<1> QED
  BY <1>1, Inductive, PTL DEF Spec, TimeoutIsReal

=============================================================================
