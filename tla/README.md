# perfgate in TLA+

perfgate measures benchmarks, compares each run with a stored baseline under
per-metric budgets and turns the result into receipts, an exit code and reports
for CI. Baselines live in files or in a baseline server with an audit log,
artifacts in an object store and a retrying client with a local fallback.

This directory models the parts of perfgate whose correctness depends on the
order of steps: the server's handlers, stores, ledger and keys, the client,
the measurement of a command, the comparison, the decision over several
scenarios, and the commands that write files: `run`, `paired`, `check`,
`decision`, `promote` and `aggregate`. TLC checks small instances, TLAPS proves
the safety properties for instances of every size.

    tlc -config MCBaselineService_sql.cfg MCBaselineService
    tlapm BaselineServiceProofs.tla

`PROJECT.json` records, for every definition that models code, the lines it
models; for every property a mutated definition (a plausible bug) that breaks
it; and the hazards the properties are aimed at.

## 1. The system

| Component | State | Operations | Hard behaviour | What makes it correct |
|---|---|---|---|---|
| Baseline handlers (`perfgate-server/src/handlers/baselines.rs`) | none of their own | upload, promote, delete, get, latest, list | every store and log call is an await: requests interleave there; promote spans three | a version is created once, never changes, is never resurrected; the audit log tells the truth |
| Stores (`storage/memory.rs`, `sqlite.rs`, `postgres.rs`) | baselines, verdicts, decisions, audit events | create, get, latest, list, delete, log | failures whose effect is unknown, crashes, order of stamps | acknowledged writes last; latest does not go back |
| Object artifacts (`storage/artifacts.rs`) | path -> receipt | put, get, list, delete | not in one transaction with the row | every row has its receipt, and the right one |
| Cleanup (`cleanup.rs`, `handlers/admin.rs`) | none | background pass, admin pass | works from a listing that ages | deletes only what has expired |
| Verdicts and decisions (`handlers/verdicts.rs`, `handlers/decisions.rs`) | append-only tables | submit, upload, list, latest, prune | a score from a history read before the insert; a prune of two statements; three stores that page differently | scores rest on what was acknowledged, a prune reports what it removes, paging shows everything |
| Keys, scopes, OIDC (`auth.rs`, `handlers/keys.rs`, `storage/key_store.rs`, `oidc.rs`) | keys, key set of the issuer | create, revoke, rotate, validate | revocation and rotation race requests; the key set ages | revocation is final, authority comes from an administrator, a rotation never locks out, the audit log tells what happened to keys |
| Process runner (`app/runtime.rs`) | child, pipe, deadline | spawn, poll, kill, read | pipes of bounded capacity read after the exit; deadlines between polls | a timeout is real, a sample is its child's, the command returns |
| run and paired (`app/mod.rs`, `app/paired.rs`) | samples so far | warm-up, repeat, alternate, retry | failures of warm-ups and halves, retries that change the count | the outcome is that of the measured samples |
| Client (`perfgate-client`) | retry counter | one call per endpoint | lost, late and repeated requests | what it reports is true of the server; it always returns |
| Fallback (`fallback.rs`) | directory of records | save, get, latest | used when the server is away | never hides a refusal |
| Comparison (`domain/budget.rs`, `comparison.rs`) | counts and reasons, corrected in place | evaluate, trade | order of metrics and rules, boundaries, zero | fails exactly when something is over budget and unpaid for |
| check (`app/check.rs`, `perfgate-cli/src/main.rs`) | output directory | run, judge, write, rename, report | kills and failed writes between files, leftovers of earlier runs | what it leaves belongs to this run, agrees, and is the worst of the benchmarks |
| decision (`app/probe.rs`, `app/scenario.rs`, `app/tradeoff.rs`) | five result files | compare probes, weight, judge, bundle | rules that change what later rules see; missing evidence; kills between the files | failures are paid for by what was measured; nothing in a bundle is older than what was made from it |
| promote and ratchet (`app/promote.rs`, `app/ratchet.rs`) | baseline file, `perfgate.toml` | promote, tighten | repetition after failures, old comparisons | tightens once per receipt, loosens only a threshold it does not read |
| aggregate (`app/aggregate.rs`) | none | judge a fleet | zero weights, quorums, missing receipts | no policy punishes a runner for passing |
| Other commands (bisect, watch, blame, trend, init, doctor, ...) | mostly none | see `PROJECT.json` | loops around git and the file system | section 7 |

The CLI calls the client, the client the handlers, the handlers a store and the
audit log; stores with an artifact backend call the object store, which the
cleanup shares with them. `check` measures and compares each benchmark; the
receipts it leaves are the evidence of `decision` and `promote --ratchet`.

## 2. Modules

| Module | Models | Composition |
|---|---|---|
| `BaselineStore` | the abstract promise: a version is published once, keeps its receipt, may be withdrawn, never returns | instantiated by the three modules below |
| `BaselineService` | handlers, record store, audit log, scopes | implements `BaselineStore` |
| `ArtifactBaselines` | a SQL store whose receipts are objects, with cleanup passes | its rows implement `BaselineStore` |
| `BaselineClient` | client, retries, fallback directory, network | its server is a `BaselineStore` |
| `Verdict` | metric statuses, counts, verdict of counts | extended by `Comparison`, `Check` and `Evidence` |
| `Comparison` | `compare_runs_with_tradeoffs` | |
| `Check` | `perfgate check`, repeated over one output directory | |
| `StoreQueries` | filters and pages of the lists, in memory and in SQL | extended by `DecisionLedger` |
| `DecisionLedger` | verdict history, decision ledger and their audit events over the three stores | |
| `ApiKeys` | middleware, key handlers, key stores, OIDC key set, the CLI's rotation | |
| `PairedStats` | interval, variation and median of paired differences | extended by `Measurement` |
| `ProcessRunner` | one command run by `run_unix` or `run_windows` | extended by `Measurement` |
| `Measurement` | `perfgate run` and `perfgate paired` over the runner | |
| `Evidence` | probe comparison, scenario, tradeoff decision as functions | extends `Verdict` |
| `DecisionEvaluate` | `decision evaluate` and `decision bundle` over one directory | extends `Evidence` |
| `Promotion` | `promote` and its ratchet | joined with the next in `MCUpkeep` |
| `Aggregate` | `aggregate` | |
| `BaselineServiceProofs`, `ArtifactBaselinesProofs`, `BaselineClientProofs`, `ApiKeysProofs`, `MeasurementProofs` | theorems | extend the module they are about |
| `CheckProofs` | theorems | extends `Comparison` and `Check` |
| `DecisionProofs` | theorems | extends `DecisionLedger` and `DecisionEvaluate` |
| `UpkeepProofs` | theorems | extends `Promotion` and `Aggregate` |
| `MC*` | constants and symmetry for TLC | |

**BaselineService.** `baselines` is the table (or BTreeMap) of one benchmark,
`audit` the log, and for every request `pc`, `call`, `draft` and `reply` are
the handler's position and its locals. Each await is one action:
`PromoteSource`, `PromoteTarget`, `Create`, `Delete`, `Read`, `EmitAudit`;
`Reject` and `Accept` are `check_scope`. `StorageFails` answers 500 with the write done or not,
`AuditFails` is the warning `emit_audit` swallows, `Crash` loses the handlers
and, in memory, the store. Metadata, tags and git fields are left out: they are
copied and never decided upon. A version is a number because the BTreeMap's key
order breaks ties of `created_at`; SQL leaves them open, and the tie is then
taken the same way, which only the choice of `latest` among equal stamps can see.

**ArtifactBaselines.** `rows` and `objects` are written by `StoreArtifact` and
`Insert`, the two awaits of `create`; reads are `SelectRows` followed by one
`LoadArtifact` per row. A pass of `run_cleanup` is `StartSweep` (cutoff),
`ListObjects` or `ListFails`, and one `SweepObject` per expired object.
`swept` remembers what the cleanup removed; nothing reads it but properties.

**BaselineClient.** A call sends attempt after attempt; `requests` and `replies`
are the messages on their way, taken in any order or never. An attempt the
client gave up on may still arrive. The server's actions answer with what
`BaselineStore` allows; posts without a name of their own (verdicts, decisions,
dependency events) are counted in `appended`.

**Comparison.** `EvaluateMetric` is one turn of the loop over the budgets,
`TradeMetric` one of the loop over the failed metrics; the loops take the
metrics in any order, which covers the BTreeMap's. f64 ratios are exact
percentages; whether a metric is noisy or its change significant is an input.

**Check.** One `Start` per invocation; each file written, renamed or truncated
is a step, `WriteFails` and `Kill` can come between any two. A file is the
invocation that wrote it and the verdict in it. Benchmarks come in any order.
In cockpit mode the files are renamed to their versioned names and the sensor
report is written last, or an error report in its place.

**DecisionLedger.** `verdicts`, `decisions` and `audit` are the tables. A
verdict is history, insert, answer; a decision insert, audit, answer; a
prune is one step in memory and in SQLite (each under its lock) and
`PruneMatch` then `PruneRemove` in PostgreSQL. `settled` (what was acknowledged when a
request read) and `removed` are read by properties only. A list is an operator
of the backend, the query and the table; a decision's rules are names one of
which is part of another, because SQLite searches them in a JSON text.

**ApiKeys.** A request arrives with a credential, is identified by the
middleware in one await and then goes through the awaits of its handler.
`rotate` is the CLI's chain of list, create and revoke, each a request of its
own that can be refused or fail. A key's plaintext is its holder; a token has a
key id and an expiry, which the library enforces with a leeway (`Leeway`, 60 s by
default). The key set is fetched once, at the start (`Refresh`). Roles are the
four of the code (viewer, contributor, promoter, admin) with their scopes read,
write, promote, delete and admin; a target names the scope its endpoint asks for.

**Measurement, ProcessRunner.** The child writes to a pipe of `PipeCapacity`
units, works for a time and exits; `Tick` is the clock, which moves only when
no step of the child or the runner is possible (`Eager`, the disjunction of
their guards). Without a timeout
`run_unix` reads while it waits (`output`); with one it polls every
`PollInterval` and reads afterwards; `run_windows` waits first in both cases. Peak
memory is that of the largest child so far on Unix, as `RUSAGE_CHILDREN` has it.
`Measurement` is the loop above: halves of a pair alternate, `Retry` adds pairs
when the result is not significant or too noisy, errors end the command.

**Evidence, DecisionEvaluate.** The three use cases are functions of receipts;
quotients are compared by multiplication, so a weighted mean needs no division.
Each file the command writes is a step; a file carries the run that wrote it.
A scenario's probes are inputs the command compares itself, or only the file
another command leaves (`probe_compare` alone), which may be missing, or none.
The index names that file either way. `Bundle` takes probe comparisons and
compare receipts as they are on disk when it runs; `remeasured`, which nothing
reads but a property, says that the benchmarks ran again since the last run. They
do not run while `decision evaluate` does, although the code takes no lock against it.

**Promotion, Aggregate.** `config` is the benchmark's part of `perfgate.toml`,
`None` after a kill inside `fs::write`, which is not atomic there. `compares`
are the receipts on disk, of whichever config they were made with. A threshold is a
float in a table, an integer there, or in an inline table: the edit reads only
the first, and replaces an inline table by an empty one, which drops its other
keys (`warn_factor`, `statistic`) too. `Aggregate` is
one step: options, receipts, weights, policy, exit code.

## 3. Runs

| Run | Shows |
|---|---|
| `service_sql` | three concurrent requests, two versions, two receipts over a durable store: the audit log matches the store, promotions copy their source, a 201 is final, latest never goes back, and the service implements `BaselineStore`, with storage and log failures and crashes |
| `service_memory` | two requests over the in-memory store: everything kept is audited, every request is answered, a restart loses all or nothing |
| `artifacts_sweep` | three store calls, two versions and a cleanup pass, so that a receipt is overwritten or swept between a reader's SELECT and its load, and a list has two rows: only the cleanup takes a row's receipt away, two acknowledged uploads never mix, readers get receipts of the version they asked for, every call returns |
| `client_retry` | two concurrent calls with one retry each: results are true of the server, appends are bounded by the attempts, the directory is the last resort, every call returns |
| `comparison_rules` | two metrics of opposite directions, values on and around the budget and zero, four rules: counts and reasons follow the deltas, a failure is justified |
| `check_modes` | two invocations over two benchmarks in both modes: artifacts are current, the sensor report carries every failure, receipts agree, the exit code is the worst |
| `ledger_stores` | three verdicts, decisions, prunes and reads over each store: scores rest on the history acknowledged before, a prune reports what it removes and what it reports is gone, a client that pages sees every matching record |
| `keys_sqlite` | three callers create, use, revoke and rotate keys while the issuer rotates its own: nothing is granted after an acknowledged revocation, every key goes back to an administrator, a rotation hands out what it replaces, and the log says of a key what became of it |
| `measurement_commands` | 185 kinds of `run` and `paired` on Unix and Windows, with quick, slow, failing, talkative, forking and missing commands: timeouts are real, samples are their child's, the outcome is that of the measured samples, every command returns |
| `measurement_peak` | ends in a counterexample: `RunResult` is documented as the result of a single execution, but its peak memory on Unix is that of the largest child since the process started |
| `decision_rules` | repeated decisions over changing evidence of four scenarios (two with probe inputs, one with a comparison made elsewhere, one without probes) with kills in between: a forgiven failure is paid for by what was measured; which metrics fail, are accepted or are reviewed does not depend on the order of the rules; a bundle never holds a result newer than its evidence, and after a completed run explains itself unless the benchmarks ran again |
| `upkeep_files` | promotions with old and repeated comparisons, edited configs and failures; and every policy of aggregate over fleets of up to three runners: a receipt tightens once, loosens only where the threshold is not read, policies are monotone |

### Bounds

Two requests race for one name; a third one makes a promotion's source
disappear, or be created, while two others race for its target, so
`service_sql` has three. Two versions are a source and a target. One clock tick
tells an early stamp from a late one. In `artifacts_sweep` a reader meets two
writes: the first call creates, the second creates or deletes, the third does
anything; which version and receipt the first one names is no loss, since names
are interchangeable. Time passes by more than a retention period or not at all, and
a pass starts once something can have expired. One retry lets
an abandoned attempt meet its successor; further ones repeat it. In
`comparison_rules` 12 and 13 stand on and above a 20% budget over 10, 8 and 7
on and below it for throughput, 0 is the boundary of the ratios. Two
invocations of `check` are enough for every leftover: an invocation sees the
directory only, and what a file of two invocations ago could do, one of the
last invocation does. Symmetry is used where the run checks safety and
refinement only: over requests and receipts (`service_sql`) and benchmarks
(`check_modes`), which the actions never tell apart.

In `ledger_stores` a history of one (`HistoryLimit` counts the new verdict too)
is cut with two verdicts; three requests are a prune, another prune or an
upload that overtakes it, and a record both can see. `keys_sqlite` needs three
callers to create a key, revoke or rotate it, and use it; one tick makes a
grant expire, and a token that had expired one leeway before; one fault is a
failed statement or a restart.
In `measurement_commands` a pipe of 2 is overfilled by 3 units, deadlines fall
between polls of 2, and one or two retries end by significance or by the limit.
`decision_rules` has two runs: the second one meets every leftover of the
first, with one of four kinds of new evidence, which are enough to be mixed with it. `upkeep_files` has two comparisons and three promotions: the same
receipt twice and another one before, between or after.

Deadlock is not checked where the model may really stop: all calls made, the
comparison finished, the last invocation over.

### Known disagreements

Met while modelling and kept in the models as the code has them. They are not
runs: the properties above are stated so that they hold with them.

- SQL stores put the receipt at the version's path before the INSERT can report a
  conflict (`storage/sqlite.rs:295`, `postgres.rs:390`): an upload answered 409 has
  replaced the live version's receipt. `docs/REQUIREMENTS.md:322`: "Immutable versions".
- The cleanup deletes by listing (`cleanup.rs:42-52`): an object rewritten since is
  deleted although it is new. `cleanup.rs:4`: "removes objects older than".
- The client maps errors nested under `error` (`perfgate-client/src/error.rs:89`), the
  server answers a flat body: a 404 is never `NotFoundError` (client `lib.rs:86`).
- A cockpit run without a baseline leaves the compare receipt of an earlier one
  (`perfgate-cli/src/main.rs:7521`). `docs/COCKPIT_MODE.md:24`: "omitted if no baseline".
- `check` drops the failed flag of its run (`app/check.rs:179`): without
  `--allow-nonzero` it exits 0 although the command failed (`main.rs:1118`).
- `improvement_ratio` is infinite when the current value is 0
  (`domain/movement.rs:63`), also when it was 0 before: it pays for any regression.
- Weighted deltas and probe deltas carry no coefficient of variation
  (`app/scenario.rs:176`, `app/probe.rs`), so `max_cv` of the decision policy never
  sees one; with a low-noise policy every tradeoff is reviewed or none is.
- `is_host_mismatch_reason` looks for a token no comparison emits (`app/ratchet.rs:104`).
- `run --upload` uploads before it looks at the failure (`main.rs:2443`).
- `docs/REQUIREMENTS.md:72` lets a sample that times out end the command "after writing the
  receipt". The runner returns an error instead (`app/runtime.rs:171`, `:310`): no sample
  has `timed_out` set, and no receipt is written.
- The ratchet can loosen. `apply_ratchet_toml_changes` compares the new value with the
  threshold of the benchmark when it finds a float in a table, else with the value the
  comparison was made with (`perfgate-types/src/config.rs:189-199`): default 16%, an old
  comparison under 40%, and the benchmark gets 30%. An inline table, the form of
  `docs/CONFIG.md:24`, is emptied first and so never read.
  `docs/BASELINE_POLICY.md:25`: "Automatic loosening of thresholds is strictly forbidden."
- `decision bundle` embeds the compare receipts of the moment (`main.rs:3816-3824`), not
  those "that fed the decision" (`docs/SCHEMAS.md:189`): a benchmark that ran since
  shows up in a bundle whose scenario and tradeoff know nothing of it.
- A `probe_compare` file that is missing is a warning (`docs/CONFIG.md:139`), but the index
  names it (`main.rs:4555-4558`) and the bundle then fails to read it.

## 4. Fairness

`BaselineService` and `ArtifactBaselines` assume weak fairness of each handler's
next step: tokio polls a task whose await is ready, and a store call returns,
with a result or an error. `BaselineClient` assumes that a client's timer
fires and its backoff ends, and nothing of the network or the server: a request
or an answer may be lost for ever. `Measurement` assumes that the command goes
on: time passes, a child that works ends, a parent that can read or poll does;
nothing makes a parent read while it waits. The other modules check safety only.

## 5. Proofs

All proofs hold for every value of the constants that satisfies the named
assumptions, which TLC evaluates in every run. They are of three kinds: nulls
are no values; inputs have their types (versions, times and sizes are natural
numbers, percentages integers, requests and receipts records of the fields the
code reads); and a few facts the code relies on (a pipe holds something, polls
are apart, a request has one command or two, the set of metrics is finite, weights
and rules are such as the configuration's validation lets through). No
bound of a run enters a proof: where a bound is a constant of a module, the
theorem holds for all its values. The inductive invariants of the protocols
were model-checked on the run's instance before they were proved.

**BaselineServiceProofs.** `TypeCorrect`, then `IndInv`, which ties every handler
to the await it is at. The safety properties alone are not inductive: that a
promotion's event is right when it is written depends on what the store held
when the record was created and on what the handler had read before. `IndInv`
adds: which operation can be at which step (`StepMatchesOp`), that a handler
about to create holds a fresh record of its own (`DraftIsOwn`), that a
promotion's draft still equals its source (`DraftFromSource`), and that between
the store's answer and the audit event the effect stays (`EffectStands`). The
argument rests on one fact about the store (`StoreKeeps`): a step never changes
identity, receipt or stamp of a record and never undoes a delete; so what a
handler learned before an await still holds after it. From it follow
`AuditIsTruthful`, `PromotionIsFaithful`, `AcknowledgedDurable`,
`LatestIsMonotone` (an action property) and `ServiceRefinesStore`: the
initial state maps to the initial state and every step to a `BaselineStore` step
or a stutter. `LogIsComplete` needs `Accounted` besides: the request that stored
a record is at its audit step or has logged it; `AuditComplete` itself says
nothing of a record on its way to the log.

**ArtifactBaselinesProofs.** Rows and objects are traced back to the call that
wrote them. The facts about a step are that it keeps finished calls, rows and
objects, except where the code replaces them: an insert of an absent version, the
soft delete, an upload and the cleanup (`CallsKept`, `RowsKept`, `ObjectsKept`).
`IndInv` adds to the properties: which call can be at which step
(`StepMatchesCall`), that every row and object comes from a create of that version
(`WrittenByCreate`), that an acknowledged create owns the row
(`AcknowledgedOwnsRow`), and that a create about to insert has its artifact stored
or swept (`ArtifactPrecedesInsert`). From it follow `ArtifactStays` (only the cleanup
separates a row from its receipt), `WinnersDoNotMix` (a receipt that is not the
row's comes from a create that did not win), `ReadersAreServedUploads`, and
`RowsRefineStore`: for the rows alone every step, a failing or cut-off one included, is
a step of `BaselineStore` or a stutter.

**BaselineClientProofs.** A success means something because the answers on the
wire do: `RepliesAreTrue` says of every answer on its way, not only of the one
taken, that it is true of the server, and stays so because a version keeps its
receipt (`LedgerKeeps`). That gives `ClientIsTruthful`. `FallbackIsLast` needs
that a call reaches the directory with its attempts used up (`CallInv`) and
that each receipt there has an owner (`LocalIsOwned`). `AppendsAreBounded` needs
to count what is still under way: stored appends and requests in flight
together never exceed the attempts sent (`Counted`); taking a request off the
wire pays for storing it.

**ApiKeysProofs.** `StepInv`, `MadeInv` and `CopyInv` say which request can be at
which step, that a key is stored by its own request and once, and that what a
rotation copied is still the grant of the old key. The fact about a step is
`StoreStep`: short of a restart a key keeps its grant and its revocation. So a
key that was stored and is revoked, or lost with the process, is `Dead` for ever,
and `RevokeInv` says that every acknowledged revocation left such a key and that no
request which arrived later is identified by it: `RevocationIsFinal`.
`IdentityInv` ties an identity read in the middleware to the grant still stored
when the handler uses it: `AuthorityHolds`. `RotationIsSafe` follows from
`CopyInv`. `KeyAuditHolds` needs to know what a request about to write an event has
seen (`SeenInv`: the change it made, and the grant it read before it), and that the
events written stay true (`EventInv`), since no key loses its grant or its
revocation; that none is missing is `LoggedInv`, until the first fault.

**CheckProofs.** What a directory shows depends on what the process had in hand
when it was killed, so each invariant speaks about every stage (`StageInv`: a
process that writes has a benchmark without a result and a sound outcome).
`ReceiptsAlwaysAgree`: no file is newer than the invocation (`NoneNewer`), a
benchmark still to be checked has no receipt of this one (`Fresh`), and while a
report is written the comparison beside it is the outcome's. `RunIsAlwaysNewest`:
the run receipt is in place, plain and under its versioned name, before the
others follow (`RunFirst`). `ArtifactsOfThisRun` and `ExitIsWorst`: the files of a
benchmark arrive one by one and stay (`Progress`), a verdict needs every
benchmark's result (`Finished`), and the code is the worst of the results so
far (`CodeIsWorst`), whatever their order. `CockpitAlwaysReports`: the report is
complete when the combined comment is written (`ReportInv`).

Of the comparison, the counters are right because each metric is counted once
and moved at most once: `Untouched` says that a metric still to be judged has no
status, `Pending` that the second loop only holds failures; `Move` and its
corollaries turn a change of one status into +1 and -1 of two cardinalities, so
the `saturating_sub` never saturates; `ReceiptCorrect` joins counts and reasons. `Judged` says what a status means in
terms of the readings alone, which makes it independent of the order of the
loops; `FailureCorrect` is read off it at the end.

**MeasurementProofs.** `RunnerInv` follows one child through `run()`. Its output is
read, in the pipe or unwritten, nowhere else (`OutputKept`). Its clock: until it
ends, elapsed time and what is left add up to the child's time, unless it is
blocked on a full pipe (`ClockOfChild`); after that, `Late(e, t)` says that no
poll lies between its end and now, written as a bound by the remainder of the
clock, so that a tick between two polls adds one to both sides (`PollLagGrows`)
and a poll comes less than one interval late (`PollLag`); while the output is
drained, elapsed time and what the pipe's holder still needs add up to a constant
(`ClockAfterExit`). `UseInv` says what the loops collected: halves and samples
of their own command, warm-ups first, never more than asked for, and a reason
for each measured failure and for nothing else. From both follow
`SamplesAreOwn`, `OutcomeHolds` and `TimeoutsAreReal` (an action property).

**UpkeepProofs.** `TightensOnce` and `LoosensUnread`: a comparison's status is that
of its own threshold (`StatusesAreOwn`), the comparison in hand is on disk
(`ComparesOnDisk`) and the ratchet leaves the policy alone (`PolicyIsProjects`);
without the first, a failed comparison could tighten. `LoosensUnread` gives the exact
condition under which the code does loosen (section 3, known disagreements). Nothing is assumed of the
percentages: no comparison passes a negative threshold, and the code never
checks `max_tightening` against 1. `PoliciesMonotone` has two parts. Policies that
count (all, majority, quorum, n of m) are monotone in the number of receipts
that passed (`AgreesMonotone`), to which a repair only adds (`RepairAdds`). For the
weighted one, what a receipt weighs does not depend on whether its run failed
(`WeightKept`), more receipts weigh more and none nothing (`WeightGrows`), for any
configured weights and any variances.

**DecisionProofs.** Three inductions over data come first. The prover cannot
instantiate the library's induction theorems, which take an operator; but a
non-empty set of natural numbers has a least element because the strict subset order
on finite sets is well founded (`LeastElement`, from `WFMin`), and with a property
given as the set of the values that have it, that is enough for induction up to a
bound and over a finite set (`Induction`, `SetInduction`). A recursive function is
what its equation says once some function satisfies it on ever larger arguments
(`SumExists`, `ApplyExists`, `SeqSumExists`).

The ledger: `LedgerInv` says of every request which step of its handler it is at and
what it has read (`StepOf`), where each stored verdict and decision comes from, and
what a prune holds between its two statements (`PruneOf`). `FlakinessCorrect` adds the
bound of the score, a sum over the history (`ScoreBound`). `PruneReports` holds
although a second prune may overtake the first: what it selected is then in the other's
`removed`. `ListsComplete` is proved for every page size, not only those of the
run: the records ranked by age are numbered without gaps, a page is an interval
of ranks, and consecutive intervals cover them (`FilteredWalk`, `CountedWalk`).

The decision: `EvaluateInv` says of every step of `decision evaluate` which files are of
this run and what they hold (`ProbesInv`, `ReceiptInv`, `ReportInv`), so that what is
read back from disk is the evidence's (`LoadedAreProbed`) whatever an earlier
run left. `BundleConsistent` needs two facts more: files are written in the order in
which they are made from each other, so that none is newer than its evidence
whenever the command stops (`OrderInv`), and a run that ended by itself has all of
them, as its evidence has it, until the benchmarks run again (`UpToDate`). `RuleOrder`: an accepted rule changes only the status of its
own metric, and a rule looks at the status of no other, so each rule's outcome
is that on the scenario's totals unless its metric was already accepted
(`SoFarStep`); which metrics are accepted or reviewed is then a property of the set
of rules (`Decided`, `OrderIrrelevant`). Whether an accepted metric is downgraded to
warn or to pass can depend on the order, and the property leaves it open. `FailuresPaid` goes back from the receipts to the
measurements: the index keeps of a probe what its last scenario measured
(`MeasuredProbe`), a cap on it is a cap on the measurement (`CapRespected`), and a
weighted total reaches a ratio only if a component does, or was zero and is
not (`SomeComponentImproved`, the sum of the parts compared term by term).
It needs that weights and ratios are positive, which `ConfigFile::validate` checks,
and that no total is zero, which `build_weighted_deltas` checks.

Only model-checked: liveness (`EveryRequestAnswered`, `EveryCallReturns`,
`EveryCommandReturns`), which needs fairness and `ENABLED`, outside the proof system's
reach. Every safety property of a passing run is a theorem.

## 6. Not modelled, and why

- Statistics, significance, curve fits: floating point. Their results are inputs.
- Rendering, export, parsers of other tools, schemas: no state.
- In `Check`: submission of verdicts, upload to a local database, profiling,
  repair context, content of GITHUB_OUTPUT and of the combined comment, temporary
  files of atomic writes (a rename either happened or did not).
- In `BaselineService`: a client that disconnects and so cancels its handler between
  two awaits (for a single request a `Crash` cuts it off at the same places); the
  failing store and log in `service_memory`, whose store cannot fail; filters and paging of list; restrictions of keys to a
  project or a benchmark, which `ApiKeys` has.
- In `ApiKeys`: tokens signed with a shared secret, the local mode where everyone is
  an administrator, retries of the client (a key created twice).
- In `ProcessRunner`: CPU time, page faults, context switches, the profiler.
- In `Promotion`: promotion to a server (it is an upload of `BaselineService`); how the
  edited TOML is printed.
- Fleet dependency events, trend and dashboard: views over lists.
- `bisect`, `watch`, `blame`: wrappers around git, file events and lock files.
- Command-line parsing, configuration files, the development tools (`xtask`), and
  the half of the sources that is tests: no state of the system.
- Time is counted in units that only order events; lengths of delays and of
  retention are not compared with wall time.

## 7. Plan

1. `Check` with the submission of its verdict to the ledger before its files.
2. `LocalFallback`: the directory with its file names, half-written files and
   prefix matching.
3. `Bisect` and `Watch`: loops around git and the file system.
