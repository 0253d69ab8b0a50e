-------------------------------- MODULE ApiKeys --------------------------------
(***************************************************************************)
(* Authentication of perfgate-server: the middleware that turns a bearer   *)
(* key or an OIDC token into an identity, check_scope and check_admin, the *)
(* key store behind them, the handlers that create, list and revoke keys,  *)
(* the operations behind check_scope (uploads, promotions, deletions), and *)
(* the CLI's `admin keys rotate`, a sequence of three requests.            *)
(*                                                                         *)
(* A key's id is the request that creates it.  Its plaintext is known only *)
(* to who received the answer; other plaintexts match no hash, as a key    *)
(* that a restart has lost.                                                *)
(***************************************************************************)
EXTENDS Integers, FiniteSets

CONSTANTS
  Requests,    \* HTTP requests and CLI rotations, numbered as they arrive
  Grants,      \* what a key may be created with
  Tokens,      \* OIDC tokens in use
  TokenGrant,  \* repo_mappings: what a mapped repository may do
  Targets,     \* what a write may be aimed at
  Cli,         \* the admin key of the command line
  Kids,        \* signing keys of the OIDC issuer, numbered in the order of their use
  Leeway,      \* how long past its expiry jsonwebtoken still accepts a token
  Durable,     \* TRUE for SqliteKeyStore
  MaxClock,    \* bound on the wall clock
  MaxFaults,   \* bound on storage faults and restarts
  None

Roles == {"viewer", "contributor", "promoter", "admin"}
Patterns == {"any", "one", "two", "invalid"}

Grant == [role : Roles, project : {"p", "q"}, pattern : Patterns, expires_at : Nat]
Target == [project : {"p", "q"}, benchmark : {"one", "two", None},
           scope : {"write", "promote", "delete"}]
\* Times count from the start; a token may have been issued before it.
Token == [kid : Kids, exp : Int, mapped : BOOLEAN]

\* An Authorization header with the plaintext of a stored key.
Bearer(K) == [key : K]

KeyRecord == [grant : Grants, created_at : Nat, revoked_at : Nat \cup {None}]
Identity == [id : Bearer(Requests) \cup Tokens \cup {Cli}, role : Roles, project : {"p", "q"},
             pattern : Patterns]

\* What a caller may ask for, and as whom.
Credential == {Cli} \cup Bearer(Requests)
Call ==
  [op : {"create"}, credential : Credential, grant : Grants]
    \cup [op : {"revoke", "rotate"}, credential : Credential, key : Requests]
    \cup [op : {"write"}, credential : Credential \cup Tokens, target : Targets]

AuditEvent == [by : Requests, action : {"create", "delete"}, key : Requests,
               project : {"p", "q"}, role : Roles \cup {None}]

Tasks == {"create", "list", "revoke", "write"}
PCs == {"idle", "auth", "list", "create", "revoke", "write", "audit", "done", "lost"}
Statuses == {0, 200, 201, 400, 401, 403, 404, 500}

ASSUME GrantsAssumption == Grants \subseteq Grant /\ TokenGrant \in Grant
ASSUME TargetsAssumption == Targets \subseteq Target /\ Tokens \subseteq Token
ASSUME RequestsAssumption == Requests \subseteq Nat /\ Kids \subseteq Nat /\ MaxClock \in Nat
ASSUME DurableAssumption == Durable \in BOOLEAN /\ MaxFaults \in Nat /\ Leeway \in Nat
ASSUME NoneAssumption == None \notin KeyRecord /\ None \notin Identity
                         /\ None \notin Nat /\ None \notin Roles
ASSUME CliAssumption == Cli \notin Tokens /\ Cli \notin Bearer(Requests)

VARIABLES
  keys,       \* table api_keys: id -> record or None
  audit,
  jwks,       \* cached key set of the OIDC provider, None before a fetch
  published,  \* key set the issuer publishes; the newest one signs
  signed,     \* keys the issuer has ever signed with
  clock,
  faults,     \* storage faults and restarts so far
  pc,         \* where each request is
  call,       \* what the caller wants
  task,       \* the request a caller is making, of the three of a rotation
  identity,   \* AuthContext of the request
  seen,       \* what the handler or the CLI read from list_keys
  stamp,      \* revoked_at in the answer
  reply,      \* status code, 0 before
  gone        \* keys whose revocation was acknowledged on arrival (properties only)

local == <<pc, call, task, identity, seen, stamp, reply, gone>>
issuer == <<jwks, published, signed>>
vars == <<keys, audit, issuer, clock, faults, local>>

-----------------------------------------------------------------------------
(* Roles and records. *)

AllowedScopes(role) ==
  CASE role = "viewer" -> {"read"}
    [] role = "contributor" -> {"read", "write"}
    [] role = "promoter" -> {"read", "write", "promote"}
    [] role = "admin" -> {"read", "write", "promote", "delete", "admin"}

\* Mutant of IsActive: is_expired alone.
IsActive_Unexpired(k) == keys[k].grant.expires_at >= clock

IsActive(k) == keys[k].revoked_at = None /\ keys[k].grant.expires_at >= clock

As(id, grant) ==
  [id |-> id, role |-> grant.role, project |-> grant.project, pattern |-> grant.pattern]

CliGrant == [role |-> "admin", project |-> "p", pattern |-> "any", expires_at |-> 0]

\* OidcProvider::validate_token: the key comes from the cache, which is not
\* fetched again; then expiry, with the default leeway of Validation::new, and
\* the mapping of the repository.
TokenAccepted(t) == jwks # None /\ t.kid \in jwks /\ t.exp + Leeway >= clock /\ t.mapped

\* auth_middleware: the identities a credential stands for, none if refused.
Identified(c) ==
  CASE c = Cli -> {As(Cli, CliGrant)}
    [] c \in Tokens -> IF TokenAccepted(c) THEN {As(c, TokenGrant)} ELSE {}
    [] OTHER -> IF keys[c.key] # None /\ IsActive(c.key) THEN {As(c, keys[c.key].grant)} ELSE {}

\* check_scope of a handler: 200, or the status of its error.
CheckScope(who, target) ==
  IF \/ target.scope \notin AllowedScopes(who.role)
     \/ "admin" \notin AllowedScopes(who.role) /\ who.project # target.project
    THEN 403
  ELSE IF who.pattern = "any" \/ target.benchmark = None THEN 200
  ELSE IF who.pattern = "invalid" THEN 500
  ELSE IF who.pattern = target.benchmark THEN 200 ELSE 403

\* Mutant of CheckAdmin: anyone who may write.
CheckAdmin_Write(who) == IF "write" \in AllowedScopes(who.role) THEN 200 ELSE 403

CheckAdmin(who) == IF "admin" \in AllowedScopes(who.role) THEN 200 ELSE 403

-----------------------------------------------------------------------------
(* Requests. *)

Acknowledged == {k \in Requests : \E r \in Requests :
                   /\ reply[r] = 200 /\ task[r] = "revoke" /\ call[r].key = k}

\* The plaintext is in the answer of create_key, or printed by a rotation
\* that got as far as its last request, whether or not that one succeeded.
Known(k) ==
  /\ pc[k] = "done"
  /\ \/ call[k].op = "create" /\ reply[k] = 201
     \/ call[k].op = "rotate" /\ task[k] = "revoke"

ApiKeyHeaders == {Cli} \cup Bearer({k \in Requests : Known(k)})

SignedTokens == {t \in Tokens : t.kid \in signed}

\* A key can be named once it is listed.  Tokens belong to CI jobs, which write.
Calls ==
  [op : {"create"}, credential : ApiKeyHeaders, grant : Grants]
    \cup [op : {"revoke", "rotate"}, credential : ApiKeyHeaders,
          key : {k \in Requests : keys[k] # None}]
    \cup [op : {"write"}, credential : ApiKeyHeaders \cup SignedTokens, target : Targets]

FirstTask(op) == IF op = "rotate" THEN "list" ELSE op

Arrive(r) ==
  /\ pc[r] = "idle"
  /\ \A q \in Requests : q < r => pc[q] # "idle"
  /\ \E c \in Calls :
       /\ call' = [call EXCEPT ![r] = c]
       /\ task' = [task EXCEPT ![r] = FirstTask(c.op)]
  /\ pc' = [pc EXCEPT ![r] = "auth"]
  /\ gone' = [gone EXCEPT ![r] = Acknowledged]
  /\ UNCHANGED <<keys, audit, issuer, clock, identity, seen, stamp, reply>>

Respond(r, status) ==
  /\ pc' = [pc EXCEPT ![r] = "done"]
  /\ reply' = [reply EXCEPT ![r] = status]
  /\ UNCHANGED task

Goto(r, step) == pc' = [pc EXCEPT ![r] = step] /\ UNCHANGED <<reply, task>>

\* Mutant of Succeed: a rotation revokes before it creates.
Succeed_RevokeFirst(r, status) ==
  IF call[r].op = "rotate" /\ task[r] # "create"
    THEN /\ task' = [task EXCEPT ![r] = IF @ = "list" THEN "revoke" ELSE "create"]
         /\ pc' = [pc EXCEPT ![r] = "auth"]
         /\ UNCHANGED reply
    ELSE Respond(r, status)

\* A handler succeeds: a rotation makes its next request, any other caller is done.
Succeed(r, status) ==
  IF call[r].op = "rotate" /\ task[r] # "revoke"
    THEN /\ task' = [task EXCEPT ![r] = IF @ = "list" THEN "create" ELSE "revoke"]
         /\ pc' = [pc EXCEPT ![r] = "auth"]
         /\ UNCHANGED reply
    ELSE Respond(r, status)

\* The first await of each handler; revoke_key lists before it revokes.
FirstStep(t) == IF t = "revoke" THEN "list" ELSE t

\* The middleware, and the check at the start of the handler: neither reads
\* anything shared after the key has been looked up.
Authenticate(r) ==
  /\ pc[r] = "auth"
  /\ \E who \in Identified(call[r].credential) :
       LET status == IF task[r] = "write" THEN CheckScope(who, call[r].target)
                     ELSE CheckAdmin(who)
       IN /\ identity' = [identity EXCEPT ![r] = who]
          /\ IF status = 200 THEN Goto(r, FirstStep(task[r])) ELSE Respond(r, status)
  /\ UNCHANGED <<keys, audit, issuer, clock, call, seen, stamp, gone>>

Refuse(r) ==
  /\ pc[r] = "auth"
  /\ Identified(call[r].credential) = {}
  /\ Respond(r, 401)
  /\ UNCHANGED <<keys, audit, issuer, clock, call, identity, seen, stamp, gone>>

\* A key store that cannot be asked: 401 as well.
RefuseUnasked(r) ==
  /\ Durable /\ pc[r] = "auth"
  /\ call[r].credential \in Bearer(Requests)
  /\ Respond(r, 401)
  /\ UNCHANGED <<keys, audit, issuer, clock, call, identity, seen, stamp, gone>>

\* create_key with a blank description.
RejectBlank(r) ==
  /\ pc[r] = "create" /\ call[r].op = "create"
  /\ Respond(r, 400)
  /\ UNCHANGED <<keys, audit, issuer, clock, call, identity, seen, stamp, gone>>

NewKey(r) ==
  [grant |-> IF call[r].op = "rotate" THEN seen[r].grant ELSE call[r].grant,
   created_at |-> clock, revoked_at |-> None]

Create(r) ==
  /\ pc[r] = "create"
  /\ keys' = [keys EXCEPT ![r] = NewKey(r)]
  /\ Goto(r, "audit")
  /\ UNCHANGED <<audit, issuer, clock, call, identity, seen, stamp, gone>>

\* list_keys: for a rotation, which stops here at a key that is missing or
\* revoked, or for the audit event of a revocation, where nothing stops.
List(r) ==
  /\ pc[r] = "list"
  /\ seen' = [seen EXCEPT ![r] = keys[call[r].key]]
  /\ IF task[r] = "revoke" THEN Goto(r, "revoke")
     ELSE IF keys[call[r].key] = None \/ keys[call[r].key].revoked_at # None
       THEN Respond(r, 404)
       ELSE Succeed(r, 200)
  /\ UNCHANGED <<keys, audit, issuer, clock, call, identity, stamp, gone>>

\* A listing for the audit event that fails is a warning.
ListFails(r) ==
  /\ Durable /\ pc[r] = "list" /\ task[r] = "revoke"
  /\ seen' = [seen EXCEPT ![r] = None]
  /\ Goto(r, "revoke")
  /\ UNCHANGED <<keys, audit, issuer, clock, call, identity, stamp, gone>>

\* The first revocation stands.
RevokedAt(k) == IF keys[k].revoked_at = None THEN clock ELSE keys[k].revoked_at

Revoke(r) ==
  LET k == call[r].key
  IN /\ pc[r] = "revoke"
     /\ IF keys[k] = None
          THEN Respond(r, 404) /\ UNCHANGED <<keys, stamp>>
          ELSE /\ keys' = [keys EXCEPT ![k].revoked_at = RevokedAt(k)]
               /\ stamp' = [stamp EXCEPT ![r] = RevokedAt(k)]
               /\ Goto(r, "audit")
     /\ UNCHANGED <<audit, issuer, clock, call, identity, seen, gone>>

\* Any handler behind check_scope: it writes, promotes or deletes.
Write(r) ==
  /\ pc[r] = "write"
  /\ Respond(r, 201)
  /\ UNCHANGED <<keys, audit, issuer, clock, call, identity, seen, stamp, gone>>

\* Mutant of NewEvent: filed under the project of the actor.
NewEvent_Actor(r) ==
  [by |-> r, action |-> IF task[r] = "create" THEN "create" ELSE "delete",
   key |-> IF task[r] = "create" THEN r ELSE call[r].key, project |-> identity[r].project,
   role |-> IF task[r] = "create" THEN keys[r].grant.role
            ELSE IF seen[r] = None THEN None ELSE seen[r].grant.role]

\* emit_key_audit: without metadata a revocation is filed under the actor's project.
NewEvent(r) ==
  IF task[r] = "create"
    THEN [by |-> r, action |-> "create", key |-> r, project |-> keys[r].grant.project,
          role |-> keys[r].grant.role]
    ELSE [by |-> r, action |-> "delete", key |-> call[r].key,
          project |-> IF seen[r] = None THEN identity[r].project ELSE seen[r].grant.project,
          role |-> IF seen[r] = None THEN None ELSE seen[r].grant.role]

Audit(r) ==
  /\ pc[r] = "audit"
  /\ audit' = audit \cup {NewEvent(r)}
  /\ Succeed(r, IF task[r] = "create" THEN 201 ELSE 200)
  /\ UNCHANGED <<keys, issuer, clock, call, identity, seen, stamp, gone>>

AuditFails(r) ==
  /\ Durable /\ pc[r] = "audit"
  /\ Succeed(r, IF task[r] = "create" THEN 201 ELSE 200)
  /\ UNCHANGED <<keys, audit, issuer, clock, call, identity, seen, stamp, gone>>

\* A StoreError is a 500; the write may have been done.
StorageFails(r) ==
  /\ Durable
  /\ \/ pc[r] = "list" /\ task[r] = "list" /\ UNCHANGED keys
     \/ pc[r] = "create" /\ keys' \in {keys, [keys EXCEPT ![r] = NewKey(r)]}
     \/ /\ pc[r] = "revoke"
        /\ keys' \in {keys} \cup
             (IF keys[call[r].key] = None THEN {}
              ELSE {[keys EXCEPT ![call[r].key].revoked_at = RevokedAt(call[r].key)]})
  /\ Respond(r, 500)
  /\ UNCHANGED <<audit, issuer, clock, call, identity, seen, stamp, gone>>

-----------------------------------------------------------------------------
(* The issuer, time and crashes. *)

\* The issuer signs with a new key and withdraws the old one.
RotateSigning(kid) ==
  /\ kid \notin signed /\ \A k \in Kids : k < kid => k \in signed
  /\ published' = {kid} /\ signed' = signed \cup {kid}
  /\ UNCHANGED <<keys, audit, jwks, clock, faults, local>>

\* OidcProvider::new: one fetch, whose failure is a warning.
Refresh == jwks' \in {published, None}

\* The process stops and starts again: requests are cut off, an in-memory
\* key store is empty, the key set is fetched.
Restart ==
  /\ pc' = [r \in Requests |-> IF pc[r] \in {"idle", "done"} THEN pc[r] ELSE "lost"]
  /\ keys' = IF Durable THEN keys ELSE [r \in Requests |-> None]
  /\ Refresh
  /\ faults < MaxFaults /\ faults' = faults + 1
  /\ UNCHANGED <<audit, published, signed, clock, call, task, identity, seen, stamp, reply, gone>>

Tick ==
  /\ clock < MaxClock
  /\ clock' = clock + 1
  /\ UNCHANGED <<keys, audit, issuer, faults, local>>

Init ==
  /\ keys = [r \in Requests |-> None]
  /\ audit = {}
  /\ published = {k \in Kids : \A l \in Kids : k <= l} /\ signed = published
  /\ jwks \in {published, None}
  /\ clock = 0 /\ faults = 0
  /\ pc = [r \in Requests |-> "idle"]
  /\ call = [r \in Requests |-> None]
  /\ task = [r \in Requests |-> None]
  /\ identity = [r \in Requests |-> None]
  /\ seen = [r \in Requests |-> None]
  /\ stamp = [r \in Requests |-> None]
  /\ reply = [r \in Requests |-> 0]
  /\ gone = [r \in Requests |-> {}]

Serve(r) ==
  \/ Authenticate(r) \/ Refuse(r) \/ RejectBlank(r) \/ Create(r) \/ List(r) \/ Revoke(r)
  \/ Write(r) \/ Audit(r)

Fault(r) == RefuseUnasked(r) \/ ListFails(r) \/ AuditFails(r) \/ StorageFails(r)

Next ==
  \/ \E r \in Requests : (Arrive(r) \/ Serve(r)) /\ UNCHANGED faults
  \/ \E r \in Requests : Fault(r) /\ faults < MaxFaults /\ faults' = faults + 1
  \/ \E kid \in Kids : RotateSigning(kid)
  \/ Restart
  \/ Tick

Spec == Init /\ [][Next]_vars

-----------------------------------------------------------------------------
(* Properties. *)

TypeOK ==
  /\ keys \in [Requests -> KeyRecord \cup {None}]
  /\ audit \subseteq AuditEvent
  /\ jwks \in (SUBSET Kids) \cup {None} /\ published \subseteq Kids /\ signed \subseteq Kids
  /\ clock \in Nat /\ faults \in Nat
  /\ pc \in [Requests -> PCs] /\ call \in [Requests -> Call \cup {None}]
  /\ task \in [Requests -> Tasks \cup {None}]
  /\ identity \in [Requests -> Identity \cup {None}]
  /\ seen \in [Requests -> KeyRecord \cup {None}]
  /\ stamp \in [Requests -> Nat \cup {None}]
  /\ reply \in [Requests -> Statuses]
  /\ gone \in [Requests -> SUBSET Requests]

\* A request that arrives after a revocation was acknowledged gets nothing for
\* that key, across failing stores and restarts; one that was let in earlier
\* may still finish (the middleware looks a key up once).
NoEntryAfterRevocation ==
  \A r \in Requests : identity[r] # None => identity[r].id \notin Bearer(gone[r])

GrantOf(id) ==
  CASE id = Cli -> CliGrant [] id \in Tokens -> TokenGrant [] OTHER -> keys[id.key].grant

Stored(id) == id \in Bearer(Requests) => keys[id.key] # None

\* Who may do what in a project of its own without being its administrator.
Holders(scope) ==
  CASE scope = "write" -> {"contributor", "promoter"}
    [] scope = "promote" -> {"promoter"}
    [] scope = "delete" -> {}

\* Every key goes back to the administrator: whoever created it holds an admin
\* grant, itself created so, and whatever else succeeded lies within the grant
\* of the key it was done with: uploads are of contributors and promoters,
\* promotions of promoters, deletions of nobody else, in the project and of the
\* benchmarks granted (check_admin, check_scope, an await after the lookup).
AuthorityFromAdmin ==
  \A r \in Requests : (identity[r] # None /\ Stored(identity[r].id)) =>
    LET grant == GrantOf(identity[r].id)
        target == call[r].target
    IN /\ keys[r] # None => grant.role = "admin"
       /\ (reply[r] = 201 /\ task[r] = "write" /\ grant.role # "admin") =>
            /\ grant.role \in Holders(target.scope) /\ grant.project = target.project
            /\ target.benchmark # None => grant.pattern \in {"any", target.benchmark}

\* A rotation never takes a key away without handing out its replacement: when
\* it revoked the old key, the new one is stored with the same grant, and when
\* it ends, by success or at its last request, its plaintext is known.
RotationKeepsAccess ==
  \A r \in Requests :
    (call[r] # None /\ call[r].op = "rotate" /\ stamp[r] # None /\ keys[call[r].key] # None) =>
      /\ keys[r] # None /\ keys[r].grant = keys[call[r].key].grant
      /\ pc[r] = "done" => Known(r)

EventOf(action, k) == \E e \in audit : e.action = action /\ e.key = k

\* The log tells what happened to keys, although the event is written two
\* awaits after the metadata was read and one after the change: what it says
\* was revoked is revoked, by an administrator, and where it names a role, role
\* and project are those of the key and not of the actor.  As long as nothing
\* failed it names one, and no key was made or revoked without its event, save
\* by a request that is about to write it.
AuditTellsKeys ==
  /\ \A e \in audit :
       /\ identity[e.by].role = "admin"
       /\ faults = 0 => e.role # None
       /\ keys[e.key] # None =>
            /\ e.action = "delete" => keys[e.key].revoked_at # None
            /\ e.role # None => e.project = keys[e.key].grant.project
                                 /\ e.role = keys[e.key].grant.role
  /\ \A k \in Requests : (faults = 0 /\ keys[k] # None) =>
       /\ EventOf("create", k) \/ (pc[k] = "audit" /\ task[k] = "create")
       /\ keys[k].revoked_at # None =>
            \/ EventOf("delete", k)
            \/ \E r \in Requests : pc[r] = "audit" /\ task[r] = "revoke" /\ call[r].key = k

=============================================================================
