---------------------------- MODULE DecisionLedger ----------------------------
(***************************************************************************)
(* Verdict history and decision ledger of perfgate-server: submit_verdict, *)
(* upload_decision, prune_decisions, latest_decision and their audit       *)
(* events, over the three stores.  A handler's awaits are its steps.       *)
(*                                                                         *)
(* A record's id is its request.  A request without the scope it needs     *)
(* (check_scope) or with a wrong schema or name is Reject.                 *)
(***************************************************************************)
EXTENDS StoreQueries

CONSTANTS
  Requests,      \* identities of the HTTP requests, numbers
  Backends,      \* stores the server may run on
  Variations,    \* wall_ms_cv of the verdicts submitted, in percent
  Prunes,        \* [older_than, dry_run] of the prunes asked for
  HistoryLimit,  \* FLAKINESS_HISTORY_LIMIT
  AcceptedRules, \* request -> the rules its decision was accepted under, numbers
  MaxClock       \* bound on the wall clock

Ops == {"submit", "upload", "prune", "latest"}

VerdictRecord ==
  [id : Requests, benchmark : {"bench"}, status : {"pass"}, wall_ms_cv : Variations,
   flakiness_score : Nat, created_at : Nat, history : SUBSET Requests]

\* What a decision says is stored and only searched.
DecisionRecord == [id : Requests, created_at : Nat, status : {"pass"}, rules : SUBSET Nat]

\* older_than comes from the client and may lie in the future.
Call ==
  [op : {"submit"}, cv : Variations]
    \cup {[op |-> "prune", older_than |-> p.older_than, dry_run |-> p.dry_run] : p \in Prunes}
    \cup [op : {"upload", "latest"}]

AuditEvent == [id : Requests, action : {"create", "delete"}, created_at : Nat,
               ids : SUBSET Requests]

PCs == {"idle", "history", "create", "match", "remove", "read", "audit", "done", "lost"}
Statuses == {0, 200, 201, 400, 404, 500}

ASSUME RequestsAssumption == Requests \subseteq Nat /\ IsFiniteSet(Requests)
ASSUME BackendsAssumption == Backends \subseteq {"memory", "sqlite", "postgres"}
ASSUME LimitAssumption == HistoryLimit \in Nat \ {0} /\ MaxClock \in Nat
ASSUME RulesAssumption == AcceptedRules \in [Requests -> SUBSET (1..Cardinality(Requests))]
ASSUME VariationsAssumption == Variations \subseteq Nat
ASSUME PrunesAssumption == Prunes \subseteq [older_than : Nat, dry_run : BOOLEAN]
ASSUME NullAssumption ==
  Null \notin Nat \cup {"create"} /\ Null \notin VerdictRecord \cup DecisionRecord \cup Call

VARIABLES
  backend,    \* the store of this server
  verdicts,   \* table verdicts
  decisions,  \* table decisions
  audit,      \* table audit_events
  clock,
  pc,         \* where each handler is
  call,       \* the request it serves
  draft,      \* the record it has built
  ids,        \* decision_ids of a prune: what the SELECT matched
  reply,      \* status code, 0 before
  removed,    \* what a prune deleted            (read by properties only)
  settled     \* requests answered when a handler first read its table (likewise)

local == <<pc, call, draft, ids, reply, removed, settled>>
vars == <<backend, verdicts, decisions, audit, clock, local>>

TypeOK ==
  /\ backend \in Backends
  /\ verdicts \subseteq VerdictRecord
  /\ decisions \subseteq DecisionRecord
  /\ audit \subseteq AuditEvent
  /\ clock \in Nat
  /\ pc \in [Requests -> PCs]
  /\ call \in [Requests -> Call \cup {Null}]
  /\ draft \in [Requests -> VerdictRecord \cup DecisionRecord \cup {Null}]
  /\ ids \in [Requests -> SUBSET Requests]
  /\ reply \in [Requests -> Statuses]
  /\ removed \in [Requests -> SUBSET Requests]
  /\ settled \in [Requests -> SUBSET Requests]

Durable == backend # "memory"

-----------------------------------------------------------------------------
(* Flakiness. *)

HighCv == 30

SumOver(S, f) ==
  LET sum[T \in SUBSET S] ==
        IF T = {} THEN 0 ELSE LET x == CHOOSE x \in T : TRUE IN f[x] + sum[T \ {x}]
  IN sum[S]

\* score_flakiness_history in permille: 70% the share of noisy verdicts, 30%
\* their severity, which stops counting at twice the threshold.
Score(cvs) ==
  LET n == Cardinality(DOMAIN cvs)
      noisy == Cardinality({x \in DOMAIN cvs : cvs[x] > HighCv})
      severity == [x \in DOMAIN cvs |-> IF cvs[x] < 2 * HighCv THEN cvs[x] ELSE 2 * HighCv]
  IN (700 * noisy + (300 * SumOver(DOMAIN cvs, severity)) \div (2 * HighCv)) \div n

\* Mutant of History: one verdict less than the limit leaves room for.
History_OffByOne == PageOf(verdicts, HistoryLimit - 2, 0)

\* The newest verdicts of the benchmark; the verdict being scored is the last.
History == PageOf(verdicts, HistoryLimit - 1, 0)

-----------------------------------------------------------------------------
(* Handlers. *)

Answered == {r \in Requests : reply[r] \in {200, 201}}

\* The handler returns and its locals are dropped (a 200 keeps its call, for
\* the properties).
Respond(r, status) ==
  /\ pc' = [pc EXCEPT ![r] = "done"]
  /\ reply' = [reply EXCEPT ![r] = status]
  /\ draft' = [draft EXCEPT ![r] = Null]
  /\ call' = [call EXCEPT ![r] = IF status = 200 THEN @ ELSE Null]

Goto(r, step) == pc' = [pc EXCEPT ![r] = step] /\ UNCHANGED reply

FirstStep == [submit |-> "history", upload |-> "create", prune |-> "match", latest |-> "read"]

\* Invalid benchmark name or schema, before any await.
Reject(r) ==
  /\ pc[r] = "idle"
  /\ Respond(r, 400)
  /\ UNCHANGED <<backend, verdicts, decisions, audit, clock, ids, removed, settled>>

NewDecision(r) ==
  [id |-> r, created_at |-> clock, status |-> "pass", rules |-> AcceptedRules[r]]

\* upload_decision has built and stamped its record before its first await.
Accept(r, c) ==
  /\ pc[r] = "idle"
  /\ call' = [call EXCEPT ![r] = c]
  /\ draft' = [draft EXCEPT ![r] =
                 IF c.op = "upload" THEN NewDecision(r) ELSE Null]
  /\ Goto(r, FirstStep[c.op])
  /\ UNCHANGED <<backend, verdicts, decisions, audit, clock, ids, removed, settled>>

\* A verdict scored with the history it has read.
NewVerdict(r, past) ==
  LET cvs == [x \in {v.id : v \in past} \cup {r} |->
                IF x = r THEN call[r].cv ELSE (CHOOSE v \in past : v.id = x).wall_ms_cv]
  IN [id |-> r, benchmark |-> "bench", status |-> "pass", wall_ms_cv |-> call[r].cv,
      flakiness_score |-> Score(cvs), created_at |-> clock, history |-> {v.id : v \in past}]

\* compute_flakiness_score: a history that cannot be read counts as empty.
ReadHistory(r) ==
  /\ pc[r] = "history"
  /\ \E past \in {History} \cup (IF Durable THEN {{}} ELSE {}) :
       /\ draft' = [draft EXCEPT ![r] = NewVerdict(r, past)]
       /\ settled' = [settled EXCEPT ![r] = IF past = History THEN Answered ELSE {}]
  /\ Goto(r, "create")
  /\ UNCHANGED <<backend, verdicts, decisions, audit, clock, call, ids, removed>>

InsertRecord(r) ==
  IF call[r].op = "submit"
    THEN verdicts' = verdicts \cup {draft[r]} /\ UNCHANGED decisions
    ELSE decisions' = decisions \cup {draft[r]} /\ UNCHANGED verdicts

\* create_verdict, create_decision.
Create(r) ==
  /\ pc[r] = "create"
  /\ InsertRecord(r)
  /\ Goto(r, "audit")
  /\ UNCHANGED <<backend, audit, clock, call, draft, ids, removed, settled>>

Expired(r) == {d \in decisions : d.created_at < call[r].older_than}

\* Mutant of RemoveExpired: the DELETE takes the cutoff itself, the SELECT does not.
RemoveExpired_Inclusive(r) ==
  LET gone == {d \in decisions : d.created_at <= call[r].older_than}
  IN /\ decisions' = decisions \ gone
     /\ removed' = [removed EXCEPT ![r] = {d.id : d \in gone}]

\* DELETE ... WHERE created_at < older_than, evaluated again.
RemoveExpired(r) ==
  /\ decisions' = decisions \ Expired(r)
  /\ removed' = [removed EXCEPT ![r] = {d.id : d \in Expired(r)}]

\* prune_decisions.  PostgreSQL selects and deletes in two awaits; the others
\* hold one lock over both.  A dry run stops at the SELECT and is not audited.
PruneMatch(r) ==
  /\ pc[r] = "match"
  /\ ids' = [ids EXCEPT ![r] = {d.id : d \in Expired(r)}]
  /\ settled' = [settled EXCEPT ![r] = Answered]
  /\ \/ /\ call[r].dry_run
        /\ Respond(r, 200)
        /\ UNCHANGED <<decisions, removed>>
     \/ /\ ~call[r].dry_run /\ backend = "postgres"
        /\ Goto(r, "remove")
        /\ UNCHANGED <<decisions, removed, draft, call>>
     \/ /\ ~call[r].dry_run /\ backend # "postgres"
        /\ RemoveExpired(r)
        /\ Goto(r, "audit")
        /\ UNCHANGED <<draft, call>>
  /\ UNCHANGED <<backend, verdicts, audit, clock>>

PruneRemove(r) ==
  /\ pc[r] = "remove"
  /\ RemoveExpired(r)
  /\ Goto(r, "audit")
  /\ UNCHANGED <<backend, verdicts, audit, clock, call, draft, ids, settled>>

\* latest_decision.
ReadLatest(r) ==
  /\ pc[r] = "read"
  /\ Respond(r, IF LatestDecision(decisions) = {} THEN 404 ELSE 200)
  /\ UNCHANGED <<backend, verdicts, decisions, audit, clock, ids, removed, settled>>

SuccessStatus(r) == IF call[r].op = "prune" THEN 200 ELSE 201

\* The event of a create names the record, that of a prune what was matched.
NewEvent(r) ==
  [id |-> r, created_at |-> clock,
   action |-> IF call[r].op = "prune" THEN "delete" ELSE "create",
   ids |-> IF call[r].op = "prune" THEN ids[r] ELSE {r}]

LogEvent(r) ==
  /\ pc[r] = "audit"
  /\ audit' = audit \cup {NewEvent(r)}
  /\ Respond(r, SuccessStatus(r))
  /\ UNCHANGED <<backend, verdicts, decisions, clock, ids, removed, settled>>

\* A failed log_event is a warning.
LogFails(r) ==
  /\ Durable
  /\ pc[r] = "audit"
  /\ Respond(r, SuccessStatus(r))
  /\ UNCHANGED <<backend, verdicts, decisions, audit, clock, ids, removed, settled>>

\* A StoreError is a 500 without an event; a write may have been committed.
StorageFails(r) ==
  /\ Durable
  /\ pc[r] \in {"create", "match", "remove", "read"}
  /\ \/ UNCHANGED <<verdicts, decisions, removed>>
     \/ pc[r] = "create" /\ InsertRecord(r) /\ UNCHANGED removed
     \/ /\ pc[r] = "remove" \/ (pc[r] = "match" /\ backend = "sqlite" /\ ~call[r].dry_run)
        /\ RemoveExpired(r) /\ UNCHANGED verdicts
  /\ Respond(r, 500)
  /\ ids' = [ids EXCEPT ![r] = {}]
  /\ UNCHANGED <<backend, audit, clock, settled>>

\* list_verdicts, list_decisions and list_audit_events read and change nothing.
ListVerdicts(q) ==
  CASE backend = "memory" -> MemoryListVerdicts(verdicts, q)
    [] backend = "sqlite" -> SqliteListVerdicts(verdicts, q)
    [] backend = "postgres" -> PostgresListVerdicts(verdicts, q)

ListDecisions(q) ==
  CASE backend = "memory" -> MemoryListDecisions(decisions, q)
    [] backend = "sqlite" -> SqliteListDecisions(decisions, q)
    [] backend = "postgres" -> PostgresListDecisions(decisions, q)

ListEvents(q) ==
  CASE backend = "memory" -> MemoryListEvents(audit, q)
    [] backend = "sqlite" -> SqliteListEvents(audit, q)
    [] backend = "postgres" -> PostgresListEvents(audit, q)

-----------------------------------------------------------------------------

Tick ==
  /\ clock < MaxClock
  /\ clock' = clock + 1
  /\ UNCHANGED <<backend, verdicts, decisions, audit, local>>

Crash ==
  /\ pc' = [r \in Requests |-> IF pc[r] \in {"idle", "done"} THEN pc[r] ELSE "lost"]
  /\ IF Durable THEN UNCHANGED <<verdicts, decisions, audit>>
     ELSE verdicts' = {} /\ decisions' = {} /\ audit' = {}
  /\ draft' = [r \in Requests |-> Null]
  /\ call' = [r \in Requests |-> IF pc[r] = "done" THEN call[r] ELSE Null]
  /\ ids' = [r \in Requests |-> IF pc[r] = "done" THEN ids[r] ELSE {}]
  /\ UNCHANGED <<backend, clock, reply, removed, settled>>

Init ==
  /\ backend \in Backends
  /\ verdicts = {} /\ decisions = {} /\ audit = {}
  /\ clock = 0
  /\ pc = [r \in Requests |-> "idle"]
  /\ call = [r \in Requests |-> Null]
  /\ draft = [r \in Requests |-> Null]
  /\ ids = [r \in Requests |-> {}]
  /\ reply = [r \in Requests |-> 0]
  /\ removed = [r \in Requests |-> {}]
  /\ settled = [r \in Requests |-> {}]

\* Requests are numbered as they arrive, as their ULIDs are.
Receive(r) ==
  /\ \A q \in Requests : q < r => pc[q] # "idle"
  /\ Reject(r) \/ \E c \in Call : Accept(r, c)

Handle(r) ==
  \/ ReadHistory(r) \/ Create(r) \/ PruneMatch(r) \/ PruneRemove(r)
  \/ ReadLatest(r) \/ LogEvent(r)

Next ==
  \/ \E r \in Requests : Receive(r) \/ Handle(r) \/ LogFails(r) \/ StorageFails(r)
  \/ Tick
  \/ Crash

Spec == Init /\ [][Next]_vars

-----------------------------------------------------------------------------
(* Properties. *)

\* The score of a verdict rests on every verdict of the benchmark acknowledged
\* before its handler read the history, or on as many newer ones as the
\* history holds, and is high only if one of them was noisy
\* (compute_flakiness_score, read one await before the insert).
FlakinessFromHistory ==
  \A v \in verdicts :
    /\ \A u \in verdicts : (u.id \in settled[v.id] \ v.history) =>
         /\ Cardinality(v.history) = HistoryLimit - 1
         /\ \A w \in verdicts : w.id \in v.history => w.created_at >= u.created_at
    /\ v.flakiness_score <= 1000
    /\ v.flakiness_score > 150 =>
         \E u \in verdicts : u.id \in v.history \cup {v.id} /\ u.wall_ms_cv > HighCv

\* A decision acknowledged before a prune selected is deleted by it only if
\* the answer and the audit event list it; what they list is gone, by this
\* prune or by one that overtook it (SELECT and DELETE are two statements).
PruneReportsRemoved ==
  \A p \in Requests : (call[p] # Null /\ call[p].op = "prune" /\ reply[p] = 200) =>
    IF call[p].dry_run THEN removed[p] = {}
    ELSE /\ removed[p] \cap settled[p] \subseteq ids[p]
         /\ ids[p] \subseteq UNION {removed[q] : q \in Requests}

NoTies(table) == \A r, s \in table : r.created_at = s.created_at => r = s

\* What a client sees that asks for the next page as long as has_more says so.
Walk(page) ==
  UNION {page[k].items : k \in {k \in DOMAIN page : \A j \in 0..k - 1 : page[j].has_more}}

\* More pages than any list here has.
Pages == 0..Cardinality(Requests)

DecisionPages(rule, limit) ==
  [k \in Pages |-> ListDecisions([limit |-> limit, offset |-> k * limit, status |-> Null,
                                  accepted |-> Null, rule |-> rule])]

EventPages(limit) ==
  [k \in Pages |-> ListEvents([limit |-> limit, offset |-> k * limit, action |-> "create",
                               since |-> Null, until |-> clock])]

VerdictPages(limit) ==
  [k \in Pages |-> ListVerdicts([limit |-> limit, offset |-> k * limit, benchmark |-> Null,
                                 status |-> Null, since |-> clock, until |-> Null])]

\* Pages of this size show the matching records, all of them and no others.
CompleteFor(limit) ==
  /\ NoTies(decisions) => \A rule \in UNION {AcceptedRules[r] : r \in Requests} :
       Walk(DecisionPages(rule, limit)) = {d \in decisions : rule \in d.rules}
  /\ NoTies(audit) => Walk(EventPages(limit)) = {e \in audit : e.action = "create"}
  /\ NoTies(verdicts) => Walk(VerdictPages(limit)) = {v \in verdicts : v.created_at >= clock}

\* Whoever pages through a list of a quiet ledger sees the matching records,
\* all of them and no others, in each store: has_more comes from the filtered
\* records in memory, from a COUNT in SQL that for verdicts (and events, in
\* PostgreSQL) ignores the filter; the rules of a decision are searched in a
\* list, in a JSON text and in jsonb.
ListsAreComplete ==
  (\A r \in Requests : pc[r] \in {"done", "lost"}) => \A limit \in 1..2 : CompleteFor(limit)

=============================================================================
