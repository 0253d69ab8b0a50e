--------------------------- MODULE BaselineService ---------------------------
(***************************************************************************)
(* The baseline handlers of perfgate-server (upload, promote, delete, get, *)
(* latest) over a record store, with the audit log.  Every await in a      *)
(* handler that reaches the store or the log is a step of its own, so      *)
(* requests interleave exactly where the server lets them.                 *)
(*                                                                         *)
(* One (project, benchmark) pair is modelled: a store operation never      *)
(* touches the records of another pair.  Versions are numbers because the  *)
(* in-memory store is a BTreeMap, whose key order decides ties.            *)
(*                                                                         *)
(* Durable = FALSE is the in-memory store: it never fails and a crash      *)
(* empties it.  Durable = TRUE is a SQL store that keeps the receipt in    *)
(* the row: an operation may fail, and the rows survive a crash.           *)
(***************************************************************************)
EXTENDS Integers, FiniteSets

CONSTANTS
  Requests,   \* identities of the HTTP requests (a record's id is its request's)
  Versions,   \* version names of the benchmark, in BTreeMap key order
  Receipts,   \* run receipts that may be uploaded
  MaxClock,   \* bound on the wall clock
  Durable,    \* SQL store (TRUE) or in-memory store (FALSE)
  None        \* Rust's Option::None

Record == [id : Requests, receipt : Receipts, created_at : Nat,
           source : {"upload", "promote"}, deleted : BOOLEAN]

Ops == {"upload", "promote", "delete", "get", "latest"}
Roles == {"viewer", "contributor", "promoter", "admin"}

\* A request as the router hands it over: from is the version to promote, an
\* upload carries a receipt.
Call == [op : Ops, version : Versions, from : Versions, receipt : Receipts \cup {None}]

WellFormed(c) ==
  /\ c.op = "upload" <=> c.receipt # None
  /\ c.op # "promote" => c.from = c.version

AuditEvent == [req : Requests, action : {"create", "promote", "delete"},
               version : Versions, from : Versions]

Statuses == {0, 200, 201, 403, 404, 409, 500}
PCs == {"idle", "source", "target", "create", "delete", "read", "audit", "done", "lost"}

ASSUME VersionsAssumption == Versions \subseteq Nat
ASSUME ClockAssumption == MaxClock \in Nat
ASSUME DurableAssumption == Durable \in BOOLEAN
ASSUME NoneAssumption == None \notin Record /\ None \notin Call /\ None \notin Receipts
                         /\ None \notin Versions

VARIABLES
  baselines,  \* the store: version -> record, or None
  audit,      \* events in the audit log
  clock,      \* wall clock
  pc,         \* where each handler is
  call,       \* the request each handler serves
  draft,      \* the record a handler has built or read so far
  reply       \* status code sent back, 0 before

vars == <<baselines, audit, clock, pc, call, draft, reply>>

TypeOK ==
  /\ baselines \in [Versions -> Record \cup {None}]
  /\ audit \subseteq AuditEvent
  /\ clock \in Nat
  /\ pc \in [Requests -> PCs]
  /\ call \in [Requests -> Call \cup {None}]
  /\ draft \in [Requests -> Record \cup {None}]
  /\ reply \in [Requests -> Statuses]

-----------------------------------------------------------------------------
(* The record store. *)

\* Stored and not soft-deleted.
IsLive(v) == baselines[v] # None /\ ~baselines[v].deleted

\* BaselineStore::get hides soft-deleted records.
Get(v) == IF IsLive(v) THEN baselines[v] ELSE None

LiveVersions == {v \in Versions : IsLive(v)}

\* Mutant of LatestVersions: the greatest version name, not the newest record.
LatestVersions_ByName == {v \in LiveVersions : \A w \in LiveVersions : w <= v}

\* BaselineStore::get_latest: the newest live record; max_by_key keeps the last
\* of equal keys.  Empty when nothing is live, one version otherwise.
LatestVersions ==
  {v \in LiveVersions :
     \A w \in LiveVersions :
       \/ baselines[w].created_at < baselines[v].created_at
       \/ baselines[w].created_at = baselines[v].created_at /\ w <= v}

-----------------------------------------------------------------------------
(* Request handlers. *)

AllowedScopes ==
  [viewer      |-> {"read"},
   contributor |-> {"read", "write"},
   promoter    |-> {"read", "write", "promote"},
   admin       |-> {"read", "write", "promote", "delete", "admin"}]

RequiredScope ==
  [upload |-> "write", promote |-> "promote", delete |-> "delete",
   get |-> "read", latest |-> "read"]

HasScope(role, op) == RequiredScope[op] \in AllowedScopes[role]

FirstStep == [upload |-> "create", promote |-> "source", delete |-> "delete",
              get |-> "read", latest |-> "read"]

\* BaselineRecord::new: stamped when the handler builds it, not when it is stored.
NewRecord(r, rc, src) ==
  [id |-> r, receipt |-> rc, created_at |-> clock, source |-> src, deleted |-> FALSE]

Respond(r, status) ==
  /\ pc' = [pc EXCEPT ![r] = "done"]
  /\ reply' = [reply EXCEPT ![r] = status]

Goto(r, step) ==
  /\ pc' = [pc EXCEPT ![r] = step]
  /\ UNCHANGED reply

\* check_scope refuses the request before the handler touches the store.
Reject(r, c, role) ==
  /\ pc[r] = "idle"
  /\ ~HasScope(role, c.op)
  /\ call' = [call EXCEPT ![r] = c]
  /\ Respond(r, 403)
  /\ UNCHANGED <<baselines, audit, clock, draft>>

\* Up to its first await a handler runs undisturbed; an upload has stamped
\* its record by then.
Accept(r, c, role) ==
  /\ pc[r] = "idle"
  /\ HasScope(role, c.op)
  /\ call' = [call EXCEPT ![r] = c]
  /\ draft' = [draft EXCEPT ![r] =
                 IF c.op = "upload" THEN NewRecord(r, c.receipt, "upload") ELSE None]
  /\ Goto(r, FirstStep[c.op])
  /\ UNCHANGED <<baselines, audit, clock>>

\* promote_baseline, first await: the receipt to promote is read here.
PromoteSource(r) ==
  /\ pc[r] = "source"
  /\ LET source == Get(call[r].from) IN
       \/ /\ source = None
          /\ Respond(r, 404)
          /\ UNCHANGED draft
       \/ /\ source # None
          /\ draft' = [draft EXCEPT ![r] = source]
          /\ Goto(r, "target")
  /\ UNCHANGED <<baselines, audit, clock, call>>

\* promote_baseline, second await: the early conflict check on the target.
PromoteTarget(r) ==
  /\ pc[r] = "target"
  /\ \/ /\ IsLive(call[r].version)
        /\ Respond(r, 409)
        /\ UNCHANGED draft
     \/ /\ ~IsLive(call[r].version)
        /\ draft' = [draft EXCEPT ![r] = NewRecord(r, draft[r].receipt, "promote")]
        /\ Goto(r, "create")
  /\ UNCHANGED <<baselines, audit, clock, call>>

\* Mutant of Create: an upsert, the exists check is gone.
Create_Upsert(r) ==
  /\ pc[r] = "create"
  /\ baselines' = [baselines EXCEPT ![call[r].version] = draft[r]]
  /\ Goto(r, "audit")
  /\ UNCHANGED <<audit, clock, call, draft>>

\* Mutant of Create: a conflict is audited and acknowledged like a success.
Create_ConflictIsSuccess(r) ==
  /\ pc[r] = "create"
  /\ baselines' = [baselines EXCEPT ![call[r].version] = IF @ = None THEN draft[r] ELSE @]
  /\ Goto(r, "audit")
  /\ UNCHANGED <<audit, clock, call, draft>>

\* Mutant of Create: the name of a deleted version may be used again.
Create_ReusesDeleted(r) ==
  /\ pc[r] = "create"
  /\ LET v == call[r].version IN
       \/ /\ ~IsLive(v)
          /\ baselines' = [baselines EXCEPT ![v] = draft[r]]
          /\ Goto(r, "audit")
       \/ /\ IsLive(v)
          /\ Respond(r, 409)
          /\ UNCHANGED baselines
  /\ UNCHANGED <<audit, clock, call, draft>>

\* Mutant of Create: a conflict waits for the name instead of answering.
Create_WaitsForName(r) ==
  /\ pc[r] = "create"
  /\ baselines[call[r].version] = None
  /\ baselines' = [baselines EXCEPT ![call[r].version] = draft[r]]
  /\ Goto(r, "audit")
  /\ UNCHANGED <<audit, clock, call, draft>>

\* A version name is used once: a soft-deleted record still holds it.
InsertRecord(r) ==
  /\ baselines[call[r].version] = None
  /\ baselines' = [baselines EXCEPT ![call[r].version] = draft[r]]

\* BaselineStore::create and what each handler makes of its result: a
\* conflict is 409 for an upload, 500 for a promotion.
Create(r) ==
  /\ pc[r] = "create"
  /\ \/ /\ InsertRecord(r)
        /\ Goto(r, "audit")
     \/ /\ baselines[call[r].version] # None
        /\ Respond(r, IF call[r].op = "upload" THEN 409 ELSE 500)
        /\ UNCHANGED baselines
  /\ UNCHANGED <<audit, clock, call, draft>>

\* Mutant of Delete: the record is removed instead of marked.
Delete_Hard(r) ==
  /\ pc[r] = "delete"
  /\ LET v == call[r].version IN
       \/ /\ IsLive(v)
          /\ baselines' = [baselines EXCEPT ![v] = None]
          /\ Goto(r, "audit")
       \/ /\ ~IsLive(v)
          /\ Respond(r, 404)
          /\ UNCHANGED baselines
  /\ UNCHANGED <<audit, clock, call, draft>>

MarkDeleted(r) ==
  /\ IsLive(call[r].version)
  /\ baselines' = [baselines EXCEPT ![call[r].version].deleted = TRUE]

\* delete_baseline: a soft delete, refused for what is not live.
Delete(r) ==
  /\ pc[r] = "delete"
  /\ \/ /\ MarkDeleted(r)
        /\ Goto(r, "audit")
     \/ /\ ~IsLive(call[r].version)
        /\ Respond(r, 404)
        /\ UNCHANGED baselines
  /\ UNCHANGED <<audit, clock, call, draft>>

\* get_baseline and get_latest_baseline.
Read(r) ==
  /\ pc[r] = "read"
  /\ LET found == IF call[r].op = "latest" THEN LatestVersions
                  ELSE {call[r].version} \cap LiveVersions
     IN \/ /\ found = {}
           /\ Respond(r, 404)
           /\ UNCHANGED draft
        \/ \E v \in found :
             /\ draft' = [draft EXCEPT ![r] = baselines[v]]
             /\ Respond(r, 200)
  /\ UNCHANGED <<baselines, audit, clock, call>>

AuditAction == [upload |-> "create", promote |-> "promote", delete |-> "delete"]

SuccessStatus(op) == IF op = "delete" THEN 200 ELSE 201

\* Mutant of EmitAudit: only uploads and deletes are audited.
EmitAudit_SkipsPromote(r) ==
  /\ pc[r] = "audit"
  /\ audit' = IF call[r].op = "promote" THEN audit ELSE audit \cup
       {[req |-> r, action |-> AuditAction[call[r].op],
         version |-> call[r].version, from |-> call[r].from]}
  /\ Respond(r, SuccessStatus(call[r].op))
  /\ UNCHANGED <<baselines, clock, call, draft>>

\* emit_audit, then the success response.
EmitAudit(r) ==
  /\ pc[r] = "audit"
  /\ audit' = audit \cup
       {[req |-> r, action |-> AuditAction[call[r].op],
         version |-> call[r].version, from |-> call[r].from]}
  /\ Respond(r, SuccessStatus(call[r].op))
  /\ UNCHANGED <<baselines, clock, call, draft>>

\* A failure of the audit log is logged and otherwise ignored.
AuditFails(r) ==
  /\ Durable
  /\ pc[r] = "audit"
  /\ Respond(r, SuccessStatus(call[r].op))
  /\ UNCHANGED <<baselines, audit, clock, call, draft>>

\* Any other StoreError is a 500, without an audit event.  A write whose
\* answer the database connection lost may have been committed.
StorageFails(r) ==
  /\ Durable
  /\ pc[r] \in {"source", "target", "create", "delete", "read"}
  /\ \/ UNCHANGED baselines
     \/ pc[r] = "create" /\ InsertRecord(r)
     \/ pc[r] = "delete" /\ MarkDeleted(r)
  /\ Respond(r, 500)
  /\ UNCHANGED <<audit, clock, call, draft>>

-----------------------------------------------------------------------------

Tick ==
  /\ clock < MaxClock
  /\ clock' = clock + 1
  /\ UNCHANGED <<baselines, audit, pc, call, draft, reply>>

\* The server process dies: handlers in flight never answer.  The in-memory
\* store and its audit log go with it.
Crash ==
  /\ pc' = [r \in Requests |-> IF pc[r] \in {"idle", "done"} THEN pc[r] ELSE "lost"]
  /\ IF Durable
       THEN UNCHANGED <<baselines, audit>>
       ELSE baselines' = [v \in Versions |-> None] /\ audit' = {}
  /\ UNCHANGED <<clock, call, draft, reply>>

Init ==
  /\ baselines = [v \in Versions |-> None]
  /\ audit = {}
  /\ clock = 0
  /\ pc = [r \in Requests |-> "idle"]
  /\ call = [r \in Requests |-> None]
  /\ draft = [r \in Requests |-> None]
  /\ reply = [r \in Requests |-> 0]

Receive(r) ==
  \E c \in Call, role \in Roles :
    /\ WellFormed(c)
    /\ Reject(r, c, role) \/ Accept(r, c, role)

Handle(r) ==
  \/ PromoteSource(r) \/ PromoteTarget(r) \/ Create(r)
  \/ Delete(r) \/ Read(r) \/ EmitAudit(r)

Next ==
  \/ \E r \in Requests : Receive(r) \/ Handle(r) \/ AuditFails(r) \/ StorageFails(r)
  \/ Tick
  \/ Crash

\* A handler whose future is ready is polled again: tokio schedules every
\* ready task.  Nothing obliges a client to send, the clock to advance or the
\* process to die.
Fairness == \A r \in Requests : WF_vars(Handle(r))

Spec == Init /\ [][Next]_vars
FairSpec == Spec /\ Fairness
-----------------------------------------------------------------------------
(* Properties. *)

\* Every audit event names the record that is really stored: whichever
\* request won a race for a version, the create or promote event of a request
\* is there only if that request's own record is the stored one, and a delete
\* event only if the record is soft-deleted (emit_audit after create/delete).
AuditMatchesStore ==
  \A e \in audit :
    /\ baselines[e.version] # None
    /\ e.action \in {"create", "promote"} => baselines[e.version].id = e.req
    /\ e.action = "delete" => baselines[e.version].deleted

\* A promotion copies a receipt it read two awaits earlier; whatever happened
\* in between, an audited promotion and its source version carry the same
\* receipt, because no version ever changes content.
PromotionCopiesSource ==
  \A e \in audit :
    e.action = "promote" =>
      /\ baselines[e.from] # None
      /\ baselines[e.version].receipt = baselines[e.from].receipt

\* On a durable store a 201 is final: the version acknowledged to a client
\* holds that client's record, across races for the name, deletes, failures
\* and crashes.  In particular two requests are never both told they created
\* the same version.
AcknowledgedIsStored ==
  Durable =>
    \A r \in Requests :
      reply[r] = 201 =>
        /\ baselines[call[r].version] # None
        /\ baselines[call[r].version].id = r

\* With the in-memory store, whose log cannot fail, nothing stays in the store
\* unaudited: every stored record whose request was answered has the create
\* or promote event of that very request.
AuditComplete ==
  ~Durable =>
    \A v \in Versions :
      (baselines[v] # None /\ pc[baselines[v].id] = "done") =>
        \E e \in audit : /\ e.req = baselines[v].id
                         /\ e.version = v
                         /\ e.action \in {"create", "promote"}

\* get_latest never moves to an older record unless a live record is deleted
\* or the in-memory store is lost: a late insert with an early stamp does not
\* displace a newer baseline.
NoRegression ==
  (\A v \in Versions : IsLive(v) => IsLive(v)') =>
    \A v \in LatestVersions : \A w \in LatestVersions' :
      baselines[v].created_at <= baselines'[w].created_at
LatestNeverRegresses == [][NoRegression]_vars

-----------------------------------------------------------------------------
(* The inductive invariant behind AuditMatchesStore, PromotionCopiesSource   *)
(* and AcknowledgedIsStored: what a handler may rely on at each await.       *)

\* Each step belongs to the operations that reach it.
StepMatchesOp ==
  \A r \in Requests :
    /\ pc[r] # "idle" => call[r] \in Call
    /\ pc[r] \in {"source", "target"} => call[r].op = "promote"
    /\ pc[r] = "create" => call[r].op \in {"upload", "promote"}
    /\ pc[r] = "delete" => call[r].op = "delete"
    /\ pc[r] = "audit" => call[r].op \in {"upload", "promote", "delete"}
    /\ reply[r] # 0 => pc[r] = "done"
    /\ reply[r] = 201 => call[r].op \in {"upload", "promote"}

\* A handler about to create holds a fresh record of its own.
DraftIsOwn ==
  \A r \in Requests :
    /\ pc[r] \in {"target", "create"} => draft[r] \in Record
    /\ pc[r] = "create" => draft[r].id = r /\ ~draft[r].deleted

\* A promotion in flight still carries its source's receipt.
DraftFromSource ==
  \A r \in Requests :
    (pc[r] \in {"target", "create"} /\ call[r].op = "promote") =>
      /\ baselines[call[r].from] # None
      /\ draft[r].receipt = baselines[call[r].from].receipt

\* Between the store's answer and the audit event the effect stays in place.
EffectStands ==
  \A r \in Requests :
    pc[r] = "audit" =>
      /\ baselines[call[r].version] # None
      /\ call[r].op \in {"upload", "promote"} => baselines[call[r].version].id = r
      /\ call[r].op = "delete" => baselines[call[r].version].deleted
      /\ call[r].op = "promote" =>
           /\ baselines[call[r].from] # None
           /\ baselines[call[r].version].receipt = baselines[call[r].from].receipt

IndInv ==
  /\ TypeOK
  /\ StepMatchesOp
  /\ DraftIsOwn
  /\ DraftFromSource
  /\ EffectStands
  /\ AuditMatchesStore
  /\ PromotionCopiesSource
  /\ AcknowledgedIsStored

-----------------------------------------------------------------------------

\* Every accepted request is answered unless the process dies under it.
EveryRequestAnswered ==
  \A r \in Requests : (pc[r] # "idle") ~> (pc[r] \in {"done", "lost"})

\* The versions of the benchmark as BaselineStore sees them.
Ledger ==
  [v \in Versions |->
     IF baselines[v] = None THEN [state |-> "absent"]
     ELSE [state |-> IF baselines[v].deleted THEN "gone" ELSE "live",
           receipt |-> baselines[v].receipt]]

Promise == INSTANCE BaselineStore WITH ledger <- Ledger

\* The service implements the promise: versions are immutable, created once,
\* and never return after a delete.
ImplementsStore == Promise!Spec
=============================================================================
