---------------------------- MODULE ApiKeysProofs ----------------------------
(***************************************************************************)
(* Machine-checked proofs about ApiKeys, for any number of requests, keys, *)
(* tokens and signing keys and for both key stores.                        *)
(***************************************************************************)
EXTENDS ApiKeys, TLAPS

-----------------------------------------------------------------------------
(* The inductive invariant. *)

TasksOf(op) == IF op = "rotate" THEN {"list", "create", "revoke"} ELSE {op}

Inside == {"list", "create", "revoke", "write", "audit"}

\* A request that has not arrived has done nothing; one that has is at a step
\* of a request its caller makes, and unanswered until it is done.
StepInv(r) ==
  /\ pc[r] = "idle" => /\ identity[r] = None /\ seen[r] = None /\ stamp[r] = None
                       /\ call[r] = None
  /\ pc[r] # "idle" => call[r] \in Call /\ task[r] \in TasksOf(call[r].op)
  /\ pc[r] \in Inside => identity[r] # None
  /\ pc[r] = "list" => task[r] \in {"list", "revoke"}
  /\ pc[r] = "create" => task[r] = "create"
  /\ pc[r] = "revoke" => task[r] = "revoke"
  /\ pc[r] = "write" => task[r] = "write"
  /\ pc[r] = "audit" => task[r] \in {"create", "revoke"}
  /\ pc[r] # "done" => reply[r] = 0

\* The key of request k is stored, or will never be: k is past its creation.
Past(k) ==
  \/ pc[k] \in {"audit", "done", "lost"}
  \/ pc[k] # "idle" /\ call[k].op = "rotate" /\ task[k] = "revoke"

\* A key is stored by its own request and once; what a caller names or holds
\* was stored before.
MadeInv(r) ==
  /\ keys[r] # None => Past(r)
  /\ (pc[r] = "audit" /\ task[r] = "create") => keys[r] # None
  /\ (pc[r] # "idle" /\ call[r].op \in {"revoke", "rotate"}) => Past(call[r].key)
  /\ (pc[r] # "idle" /\ call[r].credential \in Bearer(Requests)) =>
       Past(call[r].credential.key)

\* What a rotation has copied, and then stored, is the grant of the old key.
CopyInv(r) ==
  (pc[r] # "idle" /\ call[r].op = "rotate") =>
    /\ task[r] = "create" => seen[r] # None
    /\ (task[r] = "create" /\ keys[call[r].key] # None) =>
         seen[r].grant = keys[call[r].key].grant
    /\ ((task[r] = "revoke" \/ (task[r] = "create" /\ pc[r] = "audit"))
          /\ keys[call[r].key] # None) =>
         keys[r] # None /\ keys[r].grant = keys[call[r].key].grant

\* A key that nobody can use any more.
Dead(k) == Past(k) /\ (keys[k] = None \/ keys[k].revoked_at # None)

\* An acknowledged revocation was carried out, on a key that stays dead.
RevokeInv(r) ==
  /\ stamp[r] # None => /\ Dead(call[r].key) /\ task[r] = "revoke"
                        /\ pc[r] \in {"audit", "done", "lost"}
  /\ (task[r] = "revoke" /\ (pc[r] = "audit" \/ reply[r] = 200)) => stamp[r] # None
  /\ \A k \in gone[r] : Dead(k)
  /\ identity[r] # None => identity[r].id \notin Bearer(gone[r])

\* An identity is the grant of the credential, for as long as that is stored;
\* administrators are behind every key, and a write that was let in is in scope.
IdentityInv(r) ==
  /\ identity[r] # None =>
       /\ identity[r].id = call[r].credential
       /\ Stored(identity[r].id) => identity[r] = As(identity[r].id, GrantOf(identity[r].id))
  /\ (pc[r] \in Inside \ {"write"} \/ keys[r] # None) =>
       identity[r] # None /\ identity[r].role = "admin"
  /\ (pc[r] = "write" \/ (reply[r] = 201 /\ task[r] = "write")) =>
       identity[r] # None /\ CheckScope(identity[r], call[r].target) = 200

TypeInv ==
  /\ TypeOK
  /\ \A r \in Requests : StepInv(r) /\ MadeInv(r) /\ CopyInv(r)

-----------------------------------------------------------------------------
(* What a step may do to the store and to the requests that do not take it. *)

SameLocal(q) ==
  /\ pc'[q] = pc[q] /\ call'[q] = call[q] /\ task'[q] = task[q]
  /\ identity'[q] = identity[q] /\ seen'[q] = seen[q] /\ stamp'[q] = stamp[q]
  /\ reply'[q] = reply[q] /\ gone'[q] = gone[q]

\* Short of a restart, a stored key keeps its grant and its revocation, a new
\* one comes from a request at "create", and no request returns to before it.
StoreStep ==
  \A k \in Requests :
    /\ Past(k) => Past(k)'
    /\ keys[k] # None => /\ keys'[k] # None /\ keys'[k].grant = keys[k].grant
                         /\ keys[k].revoked_at # None => keys'[k].revoked_at # None
    /\ (keys[k] = None /\ keys'[k] # None) => pc[k] = "create" /\ pc'[k] # "create"

Of(r) == Arrive(r) \/ Serve(r) \/ Fault(r)

LEMMA CallFields ==
  ASSUME NEW c \in Call
  PROVE  /\ c.op \in {"create", "revoke", "rotate", "write"}
         /\ c.op = "create" => c.credential \in Credential /\ c.grant \in Grants
         /\ c.op \in {"revoke", "rotate"} => c.credential \in Credential /\ c.key \in Requests
         /\ c.op = "write" => c.credential \in Credential \cup Tokens /\ c.target \in Targets
BY DEF Call

LEMMA BearerFields ==
  /\ \A c \in Bearer(Requests) : c.key \in Requests /\ c \notin Tokens
  /\ \A K, c : c \in Bearer(K) => c.key \in K
BY TargetsAssumption DEF Bearer, Token

LEMMA GrantFields ==
  ASSUME NEW g \in Grant
  PROVE  g.role \in Roles /\ g.project \in {"p", "q"} /\ g.pattern \in Patterns
BY DEF Grant

\* auth_middleware only hands out the identities of active keys, accepted
\* tokens and the administrator.
LEMMA IdentifiedTyped ==
  ASSUME TypeOK, NEW c \in Credential \cup Tokens, NEW who \in Identified(c)
  PROVE  /\ who \in Identity /\ who # None /\ who.id = c
         /\ Stored(c) /\ who = As(c, GrantOf(c))
         /\ c \in Bearer(Requests) => keys[c.key] # None /\ keys[c.key].revoked_at = None
         /\ c \in Tokens => TokenAccepted(c)
<1>1. CASE c = Cli
  <2>1. who = As(Cli, CliGrant)
    BY <1>1, CliAssumption DEF Identified
  <2> QED BY <1>1, <2>1, CliAssumption, NoneAssumption
        DEF As, CliGrant, Identity, Roles, Patterns, Stored, GrantOf
<1>2. CASE c \in Tokens
  <2>1. c # Cli /\ c \notin Bearer(Requests)
    BY <1>2, CliAssumption, BearerFields
  <2>2. who = As(c, TokenGrant) /\ TokenAccepted(c)
    BY <1>2, <2>1 DEF Identified
  <2>3. TokenGrant \in Grant
    BY GrantsAssumption
  <2> QED BY <1>2, <2>1, <2>2, <2>3, NoneAssumption, GrantFields
        DEF As, Identity, Stored, GrantOf
<1>3. CASE c \in Bearer(Requests)
  <2>1. c # Cli /\ c \notin Tokens /\ c.key \in Requests
    BY <1>3, CliAssumption, BearerFields
  <2>2. keys[c.key] # None /\ IsActive(c.key) /\ who = As(c, keys[c.key].grant)
    BY <1>3, <2>1 DEF Identified
  <2>3. keys[c.key] \in KeyRecord
    BY <2>1, <2>2 DEF TypeOK
  <2>4. keys[c.key].grant \in Grant
    BY <2>3, GrantsAssumption DEF KeyRecord
  <2> QED BY <1>3, <2>1, <2>2, <2>4, NoneAssumption, GrantFields
        DEF As, Identity, Stored, GrantOf, IsActive
<1> QED BY <1>1, <1>2, <1>3 DEF Credential

\* A step of one request leaves what every other request holds alone.
LEMMA Frame ==
  ASSUME TypeOK, NEW r \in Requests, NEW q \in Requests, q # r, Of(r)
  PROVE  SameLocal(q)
<1> USE DEF TypeOK, SameLocal, Goto, Respond, Succeed
<1>1. CASE Arrive(r)
  BY <1>1 DEF Arrive
<1>2. CASE Authenticate(r)
  BY <1>2 DEF Authenticate
<1>3. CASE Refuse(r) \/ RefuseUnasked(r) \/ RejectBlank(r) \/ Write(r)
  BY <1>3 DEF Refuse, RefuseUnasked, RejectBlank, Write
<1>4. CASE Create(r) \/ Revoke(r)
  BY <1>4 DEF Create, Revoke
<1>5. CASE List(r) \/ ListFails(r)
  BY <1>5 DEF List, ListFails
<1>6. CASE Audit(r) \/ AuditFails(r) \/ StorageFails(r)
  BY <1>6 DEF Audit, AuditFails, StorageFails
<1> QED BY <1>1, <1>2, <1>3, <1>4, <1>5, <1>6 DEF Of, Serve, Fault

\* A request past its creation is never back before it.
LEMMA PastStays ==
  ASSUME TypeInv, NEW r \in Requests, Of(r), NEW k \in Requests, Past(k)
  PROVE  Past(k)'
<1>1. CASE k # r
  BY <1>1, Frame DEF TypeInv, SameLocal, Past
<1>2. CASE k = r
  <2> USE DEF TypeInv, TypeOK, StepInv, Past, Goto, Respond, Succeed, TasksOf, Inside
  <2>1. CASE Arrive(r)
    BY <1>2, <2>1 DEF Arrive
  <2>2. CASE Authenticate(r)
    BY <1>2, <2>2 DEF Authenticate, FirstStep
  <2>3. CASE Refuse(r) \/ RefuseUnasked(r) \/ RejectBlank(r) \/ Write(r) \/ Create(r)
    BY <1>2, <2>3 DEF Refuse, RefuseUnasked, RejectBlank, Write, Create
  <2>4. CASE Revoke(r)
    BY <1>2, <2>4 DEF Revoke
  <2>5. CASE List(r) \/ ListFails(r)
    BY <1>2, <2>5 DEF List, ListFails
  <2>6. CASE Audit(r) \/ AuditFails(r)
    BY <1>2, <2>6 DEF Audit, AuditFails
  <2>7. CASE StorageFails(r)
    BY <1>2, <2>7 DEF StorageFails
  <2> QED BY <2>1, <2>2, <2>3, <2>4, <2>5, <2>6, <2>7 DEF Of, Serve, Fault
<1> QED BY <1>1, <1>2

\* A request at "create" holds what its key is made of.
LEMMA NewKeyTyped ==
  ASSUME TypeInv, NEW r \in Requests, pc[r] = "create"
  PROVE  NewKey(r) \in KeyRecord /\ NewKey(r) # None
<1>1. task[r] = "create" /\ call[r] \in Call
  BY DEF TypeInv, StepInv, Inside, TypeOK
<1>2. CASE call[r].op = "rotate"
  <2>1. seen[r] \in KeyRecord
    BY <1>1, <1>2 DEF TypeInv, CopyInv, TypeOK
  <2> QED BY <1>2, <2>1, NoneAssumption DEF NewKey, KeyRecord, TypeInv, TypeOK
<1>3. CASE call[r].op # "rotate"
  <2>1. call[r].op = "create"
    BY <1>1, <1>3 DEF TypeInv, StepInv, TasksOf
  <2>2. call[r].grant \in Grants
    BY <1>1, <2>1, CallFields
  <2> QED BY <1>3, <2>2, NoneAssumption DEF NewKey, KeyRecord, TypeInv, TypeOK
<1> QED BY <1>2, <1>3

\* A request about a key names one, and revoking it sets one field.
LEMMA NamedKey ==
  ASSUME TypeInv, NEW r \in Requests, pc[r] \in {"list", "revoke"}
  PROVE  /\ call[r] \in Call /\ call[r].op \in {"revoke", "rotate"}
         /\ call[r].key \in Requests /\ Past(call[r].key)
<1>1. task[r] \in {"list", "revoke"} /\ call[r] \in Call
  BY DEF TypeInv, StepInv, Inside, TypeOK, Tasks
<1>2. call[r].op \in {"revoke", "rotate"}
  BY <1>1, CallFields DEF TypeInv, StepInv, TasksOf
<1> QED BY <1>1, <1>2, CallFields DEF TypeInv, MadeInv

LEMMA RevokedRecord ==
  ASSUME TypeOK, NEW k \in Requests, keys[k] # None
  PROVE  LET x == [keys[k] EXCEPT !.revoked_at = RevokedAt(k)]
         IN  /\ RevokedAt(k) \in Nat /\ RevokedAt(k) # None
             /\ x \in KeyRecord /\ x # None /\ x.grant = keys[k].grant
             /\ x.revoked_at = RevokedAt(k)
<1>1. keys[k] \in KeyRecord
  BY DEF TypeOK
<1>2. RevokedAt(k) \in Nat /\ RevokedAt(k) # None
  BY <1>1, NoneAssumption DEF RevokedAt, KeyRecord, TypeOK
<1> QED BY <1>1, <1>2, NoneAssumption DEF KeyRecord

\* The table after a step: as it was, with the key of r made, or with the key
\* that r names revoked.
Made(r) == pc[r] = "create" /\ keys' = [keys EXCEPT ![r] = NewKey(r)]

Revoked(r) ==
  /\ pc[r] = "revoke" /\ keys[call[r].key] # None
  /\ keys' = [keys EXCEPT ![call[r].key] =
                [keys[call[r].key] EXCEPT !.revoked_at = RevokedAt(call[r].key)]]

LEMMA TableSteps ==
  ASSUME TypeInv, NEW r \in Requests, Of(r)
  PROVE  /\ keys' = keys \/ Made(r) \/ Revoked(r)
         /\ keys' \in [Requests -> KeyRecord \cup {None}]
<1>1. keys' = keys \/ Made(r) \/ Revoked(r)
  <2>1. CASE Revoke(r)
    BY <2>1 DEF Revoke, Revoked
  <2>2. CASE StorageFails(r)
    BY <2>2 DEF StorageFails, Made, Revoked
  <2>3. CASE ~Revoke(r) /\ ~StorageFails(r)
    BY <2>3 DEF Of, Serve, Fault, Arrive, Authenticate, Refuse, RefuseUnasked, RejectBlank,
                Create, List, ListFails, Write, Audit, AuditFails, Made
  <2> QED BY <2>1, <2>2, <2>3
<1>2. CASE Made(r)
  BY <1>1, <1>2, NewKeyTyped DEF Made, TypeInv, TypeOK
<1>3. CASE Revoked(r)
  BY <1>1, <1>3, NamedKey, RevokedRecord DEF Revoked, TypeInv, TypeOK
<1> QED BY <1>1, <1>2, <1>3 DEF TypeInv, TypeOK

\* StoreStep holds of every step of a request.
LEMMA StoreSteps ==
  ASSUME TypeInv, NEW r \in Requests, Of(r)
  PROVE  StoreStep
<1> SUFFICES ASSUME NEW k \in Requests
    PROVE  /\ keys[k] # None => /\ keys'[k] # None /\ keys'[k].grant = keys[k].grant
                                /\ keys[k].revoked_at # None => keys'[k].revoked_at # None
           /\ (keys[k] = None /\ keys'[k] # None) => pc[k] = "create" /\ pc'[k] # "create"
  BY PastStays DEF StoreStep
<1>1. CASE keys' = keys
  BY <1>1
<1>2. CASE Made(r)
  <2>1. task[r] = "create" /\ call[r] \in Call
    BY <1>2 DEF Made, TypeInv, StepInv, Inside, TypeOK
  <2>2. keys[r] = None
    BY <1>2, <2>1 DEF Made, TypeInv, MadeInv, Past
  <2>3. keys'[k] # keys[k] => k = r /\ keys'[r] = NewKey(r)
    BY <1>2 DEF Made, TypeInv, TypeOK
  <2>4. keys'[k] # keys[k] => pc'[r] # "create"
    <3>1. CASE Create(r) \/ StorageFails(r)
      BY <3>1 DEF Create, StorageFails, Goto, Respond, TypeInv, TypeOK
    <3>2. CASE ~Create(r) /\ ~StorageFails(r)
      BY <1>2, <3>2 DEF Made, Of, Serve, Fault, Arrive, Authenticate, Refuse, RefuseUnasked,
                        RejectBlank, List, ListFails, Revoke, Write, Audit, AuditFails
    <3> QED BY <3>1, <3>2
  <2> QED BY <1>2, <2>2, <2>3, <2>4 DEF Made
<1>3. CASE Revoked(r)
  <2>1. call[r].key \in Requests
    BY <1>3, NamedKey DEF Revoked
  <2>2. CASE k = call[r].key
    BY <1>3, <2>2, RevokedRecord DEF Revoked, TypeInv, TypeOK
  <2>3. CASE k # call[r].key
    BY <1>3, <2>3 DEF Revoked, TypeInv, TypeOK
  <2> QED BY <2>2, <2>3
<1> QED BY <1>1, <1>2, <1>3, TableSteps

-----------------------------------------------------------------------------
(* Type correctness, with what it needs to know of a request's progress. *)

\* What a caller sends: a credential it was given and a key it saw listed.
LEMMA CallsTyped ==
  ASSUME TypeInv, NEW c \in Calls
  PROVE  /\ c \in Call
         /\ c.op \in {"revoke", "rotate"} => Past(c.key)
         /\ c.credential \in Bearer(Requests) => Past(c.credential.key)
<1> DEFINE K == {k \in Requests : Known(k)}
           N == {k \in Requests : keys[k] # None}
<1>1. /\ \A k \in K : k \in Requests /\ Past(k)
      /\ \A k \in N : k \in Requests /\ Past(k)
  BY DEF Known, Past, TypeInv, MadeInv
<1>2. \A h \in ApiKeyHeaders :
        h \in Credential /\ (h \in Bearer(Requests) => Past(h.key))
  BY <1>1, CliAssumption DEF ApiKeyHeaders, Credential, Bearer
<1>3. CASE c \in [op : {"create"}, credential : ApiKeyHeaders, grant : Grants]
  BY <1>2, <1>3 DEF Call
<1>4. CASE c \in [op : {"revoke", "rotate"}, credential : ApiKeyHeaders, key : N]
  BY <1>1, <1>2, <1>4 DEF Call
<1>5. CASE c \in [op : {"write"}, credential : ApiKeyHeaders \cup SignedTokens, target : Targets]
  BY <1>2, <1>5, BearerFields DEF Call, SignedTokens
<1> QED BY <1>3, <1>4, <1>5 DEF Calls

\* The credential of a request that has arrived.
LEMMA CredentialTyped ==
  ASSUME TypeInv, NEW r \in Requests, pc[r] # "idle"
  PROVE  /\ call[r] \in Call /\ call[r].credential \in Credential \cup Tokens
         /\ call[r].credential \in Bearer(Requests) => Past(call[r].credential.key)
BY CallFields DEF TypeInv, StepInv, MadeInv

\* An audit event names the key and what is known of it.
LEMMA NewEventTyped ==
  ASSUME TypeInv, NEW r \in Requests, pc[r] = "audit"
  PROVE  NewEvent(r) \in AuditEvent
<1>1. call[r] \in Call /\ task[r] \in {"create", "revoke"}
      /\ task[r] \in TasksOf(call[r].op) /\ identity[r] \in Identity
  BY DEF TypeInv, TypeOK, StepInv, Inside
<1>2. \A x \in KeyRecord : x.grant.project \in {"p", "q"} /\ x.grant.role \in Roles
  BY GrantsAssumption, GrantFields DEF KeyRecord
<1>3. CASE task[r] = "create"
  <2>1. keys[r] \in KeyRecord
    BY <1>3 DEF TypeInv, TypeOK, MadeInv
  <2> QED BY <1>2, <1>3, <2>1 DEF NewEvent, AuditEvent
<1>4. CASE task[r] = "revoke"
  <2>1. call[r].key \in Requests
    BY <1>1, <1>4, CallFields DEF TasksOf
  <2>2. seen[r] \in KeyRecord \cup {None} /\ identity[r].project \in {"p", "q"}
    BY <1>1 DEF TypeInv, TypeOK, Identity
  <2> QED BY <1>2, <1>4, <2>1, <2>2 DEF NewEvent, AuditEvent
<1> QED BY <1>1, <1>3, <1>4

\* Every step of a request keeps the types.
LEMMA TypeStep ==
  ASSUME TypeInv, NEW r \in Requests, Of(r), faults' \in Nat
  PROVE  TypeOK'
<1>0. keys' \in [Requests -> KeyRecord \cup {None}]
  BY TableSteps
<1>1. CASE Arrive(r)
  <2>1. Acknowledged \in SUBSET Requests
    BY DEF Acknowledged
  <2>2. PICK c \in Calls : /\ call' = [call EXCEPT ![r] = c]
                           /\ task' = [task EXCEPT ![r] = FirstTask(c.op)]
    BY <1>1 DEF Arrive
  <2>3. c \in Call /\ FirstTask(c.op) \in Tasks
    BY CallsTyped, CallFields DEF FirstTask, Tasks
  <2> QED BY <1>0, <1>1, <2>1, <2>2, <2>3 DEF Arrive, TypeInv, TypeOK, PCs, issuer
<1>2. CASE Authenticate(r)
  <2>1. PICK who \in Identified(call[r].credential) :
          LET status == IF task[r] = "write" THEN CheckScope(who, call[r].target)
                        ELSE CheckAdmin(who)
          IN /\ identity' = [identity EXCEPT ![r] = who]
             /\ IF status = 200 THEN Goto(r, FirstStep(task[r])) ELSE Respond(r, status)
    BY <1>2 DEF Authenticate
  <2>2. who \in Identity
    BY <1>2, IdentifiedTyped, CredentialTyped DEF Authenticate, TypeInv
  <2>3. CheckScope(who, call[r].target) \in Statuses /\ CheckAdmin(who) \in Statuses
    BY DEF CheckScope, CheckAdmin, Statuses
  <2>4. task[r] \in Tasks
    BY <1>2, CallFields DEF Authenticate, TypeInv, StepInv, TasksOf, Tasks
  <2>5. FirstStep(task[r]) \in PCs
    BY <2>4 DEF FirstStep, Tasks, PCs
  <2>6. pc' \in [Requests -> PCs] /\ reply' \in [Requests -> Statuses] /\ task' = task
    BY <2>1, <2>3, <2>5 DEF Goto, Respond, TypeInv, TypeOK, PCs
  <2> QED BY <1>0, <1>2, <2>1, <2>2, <2>6 DEF Authenticate, TypeInv, TypeOK, issuer
<1>3. CASE Refuse(r) \/ RefuseUnasked(r) \/ RejectBlank(r) \/ Write(r)
  BY <1>0, <1>3 DEF Refuse, RefuseUnasked, RejectBlank, Write, Respond, TypeInv, TypeOK,
                    PCs, Statuses, issuer
<1>4. CASE Create(r)
  BY <1>0, <1>4 DEF Create, Goto, TypeInv, TypeOK, PCs, issuer
<1>5. CASE List(r) \/ ListFails(r)
  <2>1. keys[call[r].key] \in KeyRecord \cup {None}
    BY <1>5, NamedKey DEF List, ListFails, TypeInv, TypeOK
  <2>2. seen' \in [Requests -> KeyRecord \cup {None}]
    BY <1>5, <2>1 DEF List, ListFails, TypeInv, TypeOK
  <2>3. task' \in [Requests -> Tasks \cup {None}] /\ pc' \in [Requests -> PCs]
        /\ reply' \in [Requests -> Statuses]
    BY <1>5 DEF List, ListFails, Succeed, Goto, Respond, TypeInv, TypeOK, PCs, Statuses, Tasks
  <2> QED BY <1>0, <1>5, <2>2, <2>3 DEF List, ListFails, TypeInv, TypeOK, issuer
<1>6. CASE Revoke(r)
  <2>1. stamp' \in [Requests -> Nat \cup {None}]
    BY <1>6, NamedKey, RevokedRecord DEF Revoke, TypeInv, TypeOK
  <2>2. pc' \in [Requests -> PCs] /\ reply' \in [Requests -> Statuses] /\ task' = task
    BY <1>6 DEF Revoke, Goto, Respond, TypeInv, TypeOK, PCs, Statuses
  <2> QED BY <1>0, <1>6, <2>1, <2>2 DEF Revoke, TypeInv, TypeOK, issuer
<1>7. CASE Audit(r) \/ AuditFails(r)
  <2>1. audit' \subseteq AuditEvent
    BY <1>7, NewEventTyped DEF Audit, AuditFails, TypeInv, TypeOK
  <2>2. task' \in [Requests -> Tasks \cup {None}] /\ pc' \in [Requests -> PCs]
        /\ reply' \in [Requests -> Statuses]
    BY <1>7 DEF Audit, AuditFails, Succeed, Respond, TypeInv, TypeOK, PCs, Statuses, Tasks
  <2> QED BY <1>0, <1>7, <2>1, <2>2 DEF Audit, AuditFails, TypeInv, TypeOK, issuer
<1>8. CASE StorageFails(r)
  BY <1>0, <1>8 DEF StorageFails, Respond, TypeInv, TypeOK, PCs, Statuses, issuer
<1> QED BY <1>1, <1>2, <1>3, <1>4, <1>5, <1>6, <1>7, <1>8 DEF Of, Serve, Fault

\* The request that takes a step is at a step of its task again.
LEMMA StepInvStep ==
  ASSUME TypeInv, NEW r \in Requests, Of(r)
  PROVE  StepInv(r)'
<1> USE DEF TypeInv, TypeOK, StepInv, Inside
<1>1. CASE Arrive(r)
  <2>1. PICK c \in Calls : /\ call' = [call EXCEPT ![r] = c]
                           /\ task' = [task EXCEPT ![r] = FirstTask(c.op)]
    BY <1>1 DEF Arrive
  <2>2. c \in Call /\ FirstTask(c.op) \in TasksOf(c.op)
    BY CallsTyped, CallFields DEF FirstTask, TasksOf
  <2> QED BY <1>1, <2>1, <2>2 DEF Arrive
<1>2. CASE Authenticate(r)
  <2>1. PICK who \in Identified(call[r].credential) :
          LET status == IF task[r] = "write" THEN CheckScope(who, call[r].target)
                        ELSE CheckAdmin(who)
          IN /\ identity' = [identity EXCEPT ![r] = who]
             /\ IF status = 200 THEN Goto(r, FirstStep(task[r])) ELSE Respond(r, status)
    BY <1>2 DEF Authenticate
  <2>2. who # None
    BY <1>2, IdentifiedTyped, CredentialTyped DEF Authenticate
  <2>3. task[r] \in Tasks
    BY <1>2, CallFields DEF Authenticate, TasksOf, Tasks
  <2> QED BY <1>2, <2>1, <2>2, <2>3 DEF Authenticate, Goto, Respond, FirstStep, Tasks
<1>3. CASE Refuse(r) \/ RefuseUnasked(r) \/ RejectBlank(r) \/ Write(r)
  BY <1>3 DEF Refuse, RefuseUnasked, RejectBlank, Write, Respond
<1>4. CASE Create(r)
  BY <1>4 DEF Create, Goto
<1>5. CASE List(r) \/ ListFails(r)
  BY <1>5 DEF List, ListFails, Succeed, Goto, Respond, TasksOf
<1>6. CASE Revoke(r)
  BY <1>6 DEF Revoke, Goto, Respond
<1>7. CASE Audit(r) \/ AuditFails(r)
  BY <1>7 DEF Audit, AuditFails, Succeed, Respond, TasksOf
<1>8. CASE StorageFails(r)
  BY <1>8 DEF StorageFails, Respond
<1> QED BY <1>1, <1>2, <1>3, <1>4, <1>5, <1>6, <1>7, <1>8 DEF Of, Serve, Fault

\* Its key is stored when it leaves "create", and not before.
LEMMA MadeInvStep ==
  ASSUME TypeInv, NEW r \in Requests, Of(r)
  PROVE  MadeInv(r)'
<1>1. keys'[r] # None => Past(r)'
  <2>1. CASE keys[r] # None
    BY <2>1, PastStays DEF TypeInv, MadeInv
  <2>2. CASE keys[r] = None /\ keys'[r] # None
    <3>1. pc[r] = "create" /\ pc'[r] # "create"
      BY <2>2, StoreSteps DEF StoreStep
    <3>2. CASE Create(r) \/ RejectBlank(r) \/ StorageFails(r)
      BY <3>2 DEF Create, RejectBlank, StorageFails, Goto, Respond, Past, TypeInv, TypeOK
    <3>3. CASE ~(Create(r) \/ RejectBlank(r) \/ StorageFails(r))
      BY <3>1, <3>3 DEF Of, Serve, Fault, Arrive, Authenticate, Refuse, RefuseUnasked,
                        List, ListFails, Revoke, Write, Audit, AuditFails
    <3> QED BY <3>2, <3>3
  <2> QED BY <2>1, <2>2
<1>2. (pc'[r] = "audit" /\ task'[r] = "create") => keys'[r] # None
  <2>1. CASE Create(r)
    BY <2>1, NewKeyTyped DEF Create, Goto, TypeInv, TypeOK
  <2>2. CASE Revoke(r)
    BY <2>2 DEF Revoke, Goto, Respond, TypeInv, TypeOK, StepInv
  <2>3. CASE ~Create(r) /\ ~Revoke(r)
    <3>0. Authenticate(r) => pc'[r] # "audit"
      BY CallFields DEF Authenticate, Goto, Respond, FirstStep, TypeInv, TypeOK, StepInv, TasksOf
    <3>1. pc'[r] # "audit"
      BY <2>3, <3>0 DEF Of, Serve, Fault, Arrive, Refuse, RefuseUnasked, RejectBlank,
                  List, ListFails, Write, Audit, AuditFails, StorageFails, Succeed, Goto,
                  Respond, TypeInv, TypeOK
    <3> QED BY <3>1
  <2> QED BY <2>1, <2>2, <2>3
<1>3. \A k \in Requests : Past(k) => Past(k)'
  BY PastStays
<1>4. (pc'[r] # "idle" /\ call'[r].op \in {"revoke", "rotate"}) => Past(call[r].key)' 
  <2>1. CASE Arrive(r)
    <3>1. PICK c \in Calls : call' = [call EXCEPT ![r] = c]
      BY <2>1 DEF Arrive
    <3>2. call'[r] = c
      BY <3>1 DEF TypeInv, TypeOK
    <3> QED BY <1>3, <3>2, CallsTyped, CallFields
  <2>2. CASE ~Arrive(r)
    <3>1. call' = call /\ pc[r] # "idle"
      BY <2>2 DEF Of, Serve, Fault, Authenticate, Refuse, RefuseUnasked, RejectBlank, Create,
                  List, ListFails, Revoke, Write, Audit, AuditFails, StorageFails
    <3> QED BY <1>3, <3>1, CredentialTyped, CallFields DEF TypeInv, MadeInv
  <2> QED BY <2>1, <2>2
<1>5. (pc'[r] # "idle" /\ call'[r].credential \in Bearer(Requests)) =>
         Past(call[r].credential.key)'
  <2>1. CASE Arrive(r)
    <3>1. PICK c \in Calls : call' = [call EXCEPT ![r] = c]
      BY <2>1 DEF Arrive
    <3>2. call'[r] = c
      BY <3>1 DEF TypeInv, TypeOK
    <3> QED BY <1>3, <3>2, CallsTyped, BearerFields
  <2>2. CASE ~Arrive(r)
    <3>1. call' = call /\ pc[r] # "idle"
      BY <2>2 DEF Of, Serve, Fault, Authenticate, Refuse, RefuseUnasked, RejectBlank, Create,
                  List, ListFails, Revoke, Write, Audit, AuditFails, StorageFails
    <3> QED BY <1>3, <3>1, CredentialTyped, BearerFields
  <2> QED BY <2>1, <2>2
<1> QED BY <1>1, <1>2, <1>4, <1>5 DEF MadeInv

\* A key past its creation is never stored again, keeps its grant and, once
\* dead, stays so.
LEMMA PastKept ==
  ASSUME TypeInv, StoreStep, NEW k \in Requests, Past(k)
  PROVE  /\ Past(k)'
         /\ keys'[k] # None => keys[k] # None /\ keys'[k].grant = keys[k].grant
         /\ Dead(k) => Dead(k)'
<1>1. pc[k] = "create" => FALSE
  BY DEF Past, TypeInv, StepInv
<1>2. Past(k)' /\ (keys'[k] # None => keys[k] # None /\ keys'[k].grant = keys[k].grant)
  BY <1>1 DEF StoreStep
<1>3. Dead(k) => Dead(k)'
  BY <1>2 DEF StoreStep, Dead
<1> QED BY <1>2, <1>3

\* The rotation that takes a step still holds a copy of the old key's grant.
LEMMA CopyInvStep ==
  ASSUME TypeInv, NEW r \in Requests, Of(r)
  PROVE  CopyInv(r)'
<1>0. StoreStep
  BY StoreSteps
<1>1. CASE Arrive(r)
  <2>1. PICK c \in Calls : /\ call' = [call EXCEPT ![r] = c]
                           /\ task' = [task EXCEPT ![r] = FirstTask(c.op)]
    BY <1>1 DEF Arrive
  <2> QED BY <2>1 DEF TypeInv, TypeOK, CopyInv, FirstTask
<1>2. CASE ~Arrive(r)
  <2>1. call' = call /\ pc[r] # "idle"
    BY <1>2 DEF Of, Serve, Fault, Authenticate, Refuse, RefuseUnasked, RejectBlank, Create,
                List, ListFails, Revoke, Write, Audit, AuditFails, StorageFails
  <2> SUFFICES ASSUME call[r].op = "rotate" PROVE CopyInv(r)'
    BY <2>1 DEF CopyInv
  <2> DEFINE k == call[r].key
  <2>2. k \in Requests /\ Past(k)
    BY <2>1, CredentialTyped, CallFields DEF TypeInv, MadeInv
  <2>3. keys'[k] # None => keys[k] # None /\ keys'[k].grant = keys[k].grant
    BY <1>0, <2>2, PastKept
  <2>4. keys[r] # None => keys'[r] # None /\ keys'[r].grant = keys[r].grant
    BY <1>0 DEF StoreStep
  <2> HIDE DEF k
  <2>5. SUFFICES
          /\ task'[r] = "create" => seen'[r] # None
          /\ (task'[r] = "create" /\ keys[k] # None) => seen'[r].grant = keys[k].grant
          /\ ((task'[r] = "revoke" \/ (task'[r] = "create" /\ pc'[r] = "audit"))
                /\ keys[k] # None) => keys'[r] # None /\ keys'[r].grant = keys[k].grant
    BY <2>1, <2>3 DEF CopyInv, k
  <2>6. CASE Create(r)
    <3>1. task[r] = "create" /\ seen[r] # None /\ (keys[k] # None => seen[r].grant = keys[k].grant)
      BY <2>1, <2>6 DEF Create, TypeInv, StepInv, CopyInv, k
    <3>2. keys'[r] # None /\ keys'[r].grant = seen[r].grant
      BY <2>6, NewKeyTyped DEF Create, NewKey, TypeInv, TypeOK
    <3> QED BY <2>6, <3>1, <3>2 DEF Create, Goto
  <2>7. CASE List(r) \/ ListFails(r)
    BY <2>1, <2>4, <2>7 DEF List, ListFails, Succeed, Goto, Respond, TypeInv, TypeOK, StepInv,
                            CopyInv, k
  <2>8. CASE Audit(r) \/ AuditFails(r)
    BY <2>1, <2>4, <2>8 DEF Audit, AuditFails, Succeed, Respond, TypeInv, TypeOK, StepInv,
                            CopyInv, k
  <2>9. CASE ~(Create(r) \/ List(r) \/ ListFails(r) \/ Audit(r) \/ AuditFails(r))
    <3>1. seen' = seen /\ task' = task
      BY <1>2, <2>9 DEF Of, Serve, Fault, Authenticate, Refuse, RefuseUnasked, RejectBlank,
                        Revoke, Write, StorageFails, Goto, Respond
    <3>2. (pc'[r] = "audit" /\ task[r] = "create") => FALSE
      BY <1>2, <2>9, CallFields
         DEF Of, Serve, Fault, Authenticate, Refuse, RefuseUnasked, RejectBlank, Revoke, Write,
             StorageFails, Goto, Respond, FirstStep, TypeInv, TypeOK, StepInv, TasksOf
    <3> QED BY <2>1, <2>4, <3>1, <3>2 DEF TypeInv, CopyInv, k
  <2> QED BY <2>6, <2>7, <2>8, <2>9
<1> QED BY <1>1, <1>2

\* The requests that do not take the step.
LEMMA TypeInvKept ==
  ASSUME TypeInv, StoreStep, NEW q \in Requests, SameLocal(q)
  PROVE  StepInv(q)' /\ MadeInv(q)' /\ CopyInv(q)'
<1>0. /\ Past(q)' <=> Past(q)
      /\ keys'[q] # None <=> keys[q] # None
      /\ keys[q] # None => keys'[q].grant = keys[q].grant
  BY DEF SameLocal, StoreStep, Past
<1>1. StepInv(q)'
  BY DEF TypeInv, StepInv, SameLocal
<1>2. CASE pc[q] = "idle"
  <2>1. keys[q] = None /\ ~Past(q)
    BY <1>2 DEF TypeInv, MadeInv, Past
  <2> QED BY <1>0, <1>1, <1>2, <2>1 DEF MadeInv, CopyInv, SameLocal
<1>3. CASE pc[q] # "idle"
  <2>1. /\ call[q].op \in {"revoke", "rotate"} =>
             call[q].key \in Requests /\ Past(call[q].key)
        /\ call[q].credential \in Bearer(Requests) =>
             call[q].credential.key \in Requests /\ Past(call[q].credential.key)
    BY <1>3, CredentialTyped, CallFields, BearerFields DEF TypeInv, MadeInv
  <2>2. MadeInv(q)'
    BY <1>0, <2>1, PastKept DEF TypeInv, MadeInv, SameLocal
  <2>3. CopyInv(q)'
    BY <1>0, <1>3, <2>1, PastKept DEF TypeInv, CopyInv, SameLocal
  <2> QED BY <1>1, <2>2, <2>3
<1> QED BY <1>1, <1>2, <1>3

\* A restart cuts requests off; a volatile store is empty after it.
LEMMA RestartType ==
  ASSUME TypeInv, Restart
  PROVE  TypeInv'
<1>1. /\ \A k \in Requests : keys'[k] = keys[k] \/ keys'[k] = None
      /\ keys' \in [Requests -> KeyRecord \cup {None}]
  BY DEF Restart, TypeInv, TypeOK
<1>2. pc' \in [Requests -> PCs]
  <2>1. \A r \in Requests : pc[r] \in PCs /\ "lost" \in PCs
    BY DEF TypeInv, TypeOK, PCs
  <2> QED BY <2>1 DEF Restart
<1>3. TypeOK'
  <2>1. jwks' \in (SUBSET Kids) \cup {None}
    BY DEF Restart, Refresh, TypeInv, TypeOK
  <2>2. faults' \in Nat
    BY DEF Restart, TypeInv, TypeOK
  <2> QED BY <1>1, <1>2, <2>1, <2>2 DEF Restart, TypeInv, TypeOK
<1>4. \A k \in Requests : Past(k) => Past(k)'
  BY DEF Restart, Past, TypeInv, TypeOK
<1>5. ASSUME NEW q \in Requests PROVE StepInv(q)' /\ MadeInv(q)' /\ CopyInv(q)'
  <2>1. pc'[q] \in {pc[q], "lost"} /\ (pc'[q] = "idle" <=> pc[q] = "idle")
        /\ (pc'[q] # "idle" => pc'[q] \in {"done", "lost"}) /\ (pc'[q] = "lost" => pc[q] # "done")
    BY DEF Restart, TypeInv, TypeOK
  <2>2. StepInv(q)'
    BY <2>1 DEF Restart, TypeInv, StepInv, Inside
  <2>3. MadeInv(q)'
    <3>1. keys'[q] # None => Past(q)'
      BY <1>1, <1>4 DEF TypeInv, MadeInv
    <3>2. CASE pc[q] = "idle"
      BY <2>1, <3>1, <3>2 DEF MadeInv
    <3>3. CASE pc[q] # "idle"
      BY <1>4, <2>1, <3>1, <3>3, CredentialTyped, CallFields, BearerFields
         DEF Restart, TypeInv, MadeInv
    <3> QED BY <3>2, <3>3
  <2>4. CopyInv(q)'
    <3>1. CASE Durable
      BY <2>1, <3>1 DEF Restart, TypeInv, CopyInv
    <3>2. CASE ~Durable
      BY <2>1, <3>2, CredentialTyped, CallFields DEF Restart, TypeInv, CopyInv
    <3> QED BY <3>1, <3>2
  <2> QED BY <2>2, <2>3, <2>4
<1> QED BY <1>3, <1>5 DEF TypeInv

\* Time, the issuer and stuttering leave the requests and the store alone.
Ambient == Tick \/ (\E kid \in Kids : RotateSigning(kid)) \/ UNCHANGED vars

LEMMA AmbientFrame ==
  ASSUME Ambient
  PROVE  keys' = keys /\ StoreStep /\ \A q \in Requests : SameLocal(q)
<1>1. keys' = keys /\ UNCHANGED local
  BY DEF Ambient, Tick, RotateSigning, vars
<1> QED BY <1>1 DEF local, StoreStep, SameLocal, Past

\* Next, as the steps of the requests, a restart and the rest.
LEMMA Steps ==
  ASSUME [Next]_vars
  PROVE  (\E r \in Requests : Of(r) /\ faults' \in {faults, faults + 1}) \/ Restart \/ Ambient
BY DEF Next, Of, Ambient

LEMMA TypeInvStep == TypeInv /\ [Next]_vars => TypeInv'
<1> SUFFICES ASSUME TypeInv, [Next]_vars PROVE TypeInv'
  OBVIOUS
<1>1. ASSUME NEW r \in Requests, Of(r), faults' \in {faults, faults + 1} PROVE TypeInv'
  <2>1. faults' \in Nat
    BY <1>1 DEF TypeInv, TypeOK
  <2>2. TypeOK'
    BY <1>1, <2>1, TypeStep
  <2>4. ASSUME NEW q \in Requests PROVE StepInv(q)' /\ MadeInv(q)' /\ CopyInv(q)'
    <3>1. CASE q = r
      BY <1>1, <3>1, StepInvStep, MadeInvStep, CopyInvStep
    <3>2. CASE q # r
      BY <1>1, <3>2, Frame, StoreSteps, TypeInvKept DEF TypeInv
    <3> QED BY <3>1, <3>2
  <2> QED BY <2>2, <2>4 DEF TypeInv
<1>2. CASE Restart
  BY <1>2, RestartType
<1>3. CASE Ambient
  <2>1. TypeOK'
    <3>1. CASE Tick
      BY <3>1 DEF Tick, TypeInv, TypeOK, issuer, local
    <3>2. CASE \E kid \in Kids : RotateSigning(kid)
      BY <3>2 DEF RotateSigning, TypeInv, TypeOK, local
    <3>3. CASE UNCHANGED vars
      BY <3>3 DEF vars, TypeInv, TypeOK, issuer, local
    <3> QED BY <1>3, <3>1, <3>2, <3>3 DEF Ambient
  <2>2. \A q \in Requests : StepInv(q)' /\ MadeInv(q)' /\ CopyInv(q)'
    BY <1>3, AmbientFrame, TypeInvKept
  <2> QED BY <2>1, <2>2 DEF TypeInv
<1> QED BY <1>1, <1>2, <1>3, Steps

LEMMA InitType == Init => TypeInv
<1> SUFFICES ASSUME Init PROVE TypeInv
  OBVIOUS
<1>1. TypeOK
  <2>1. published \subseteq Kids /\ jwks \in (SUBSET Kids) \cup {None}
    BY DEF Init
  <2> QED BY <2>1 DEF Init, TypeOK, PCs, Statuses
<1>3. \A r \in Requests : StepInv(r) /\ MadeInv(r) /\ CopyInv(r)
  BY DEF Init, StepInv, MadeInv, CopyInv, Inside
<1> QED BY <1>1, <1>3 DEF TypeInv

\* The variables keep their types: a request at a step of the middleware, a
\* handler or a rotation always has the call, the identity and the key record
\* that the code reads there.
THEOREM TypeCorrect == Spec => []TypeOK
<1>1. Spec => []TypeInv
  BY InitType, TypeInvStep, PTL DEF Spec
<1>2. TypeInv => TypeOK
  BY DEF TypeInv
<1> QED BY <1>1, <1>2, PTL

-----------------------------------------------------------------------------
(* Revocations. *)

\* A revocation whose answer was sent is on a key that is dead for good.
LEMMA AcknowledgedDead ==
  ASSUME TypeInv, \A q \in Requests : RevokeInv(q), NEW k \in Acknowledged
  PROVE  k \in Requests /\ Dead(k)
BY DEF Acknowledged, RevokeInv

LEMMA RevokeInvStep ==
  ASSUME TypeInv, \A q \in Requests : RevokeInv(q), NEW r \in Requests, Of(r)
  PROVE  RevokeInv(r)'
<1>0. \A k \in Requests : Dead(k) => Dead(k)'
  BY StoreSteps, PastKept DEF Dead
<1>1. CASE Arrive(r)
  <2>1. identity'[r] = None /\ stamp'[r] = None /\ pc'[r] = "auth" /\ reply'[r] = 0
        /\ gone'[r] = Acknowledged
    BY <1>1 DEF Arrive, TypeInv, TypeOK, StepInv
  <2>2. \A k \in gone'[r] : Dead(k)'
    BY <1>0, <2>1, AcknowledgedDead
  <2> QED BY <2>1, <2>2 DEF RevokeInv
<1>2. CASE ~Arrive(r)
  <2>1. call' = call /\ gone' = gone /\ pc[r] # "idle"
    BY <1>2 DEF Of, Serve, Fault, Authenticate, Refuse, RefuseUnasked, RejectBlank, Create,
                List, ListFails, Revoke, Write, Audit, AuditFails, StorageFails
  <2>2. \A k \in gone'[r] : Dead(k)'
    BY <1>0, <2>1 DEF RevokeInv, TypeInv, TypeOK
  <2>3. identity'[r] # None => identity'[r].id \notin Bearer(gone'[r])
    <3>1. CASE Authenticate(r)
      <4>1. PICK who \in Identified(call[r].credential) : identity'[r] = who
        BY <3>1 DEF Authenticate, TypeInv, TypeOK
      <4>2. /\ who.id = call[r].credential
            /\ who.id \in Bearer(Requests) =>
                 keys[who.id.key] # None /\ keys[who.id.key].revoked_at = None
        BY <2>1, IdentifiedTyped, CredentialTyped DEF TypeInv
      <4>3. gone[r] \subseteq Requests
        BY DEF TypeInv, TypeOK
      <4>4. \A b \in Bearer(gone[r]) : b \in Bearer(Requests) /\ b.key \in gone[r]
        BY <4>3 DEF Bearer
      <4> QED BY <2>1, <4>1, <4>2, <4>4 DEF RevokeInv, Dead
    <3>2. CASE ~Authenticate(r)
      <4>1. identity' = identity
        BY <1>2, <3>2 DEF Of, Serve, Fault, Refuse, RefuseUnasked, RejectBlank, Create,
                List, ListFails, Revoke, Write, Audit, AuditFails, StorageFails
      <4> QED BY <2>1, <4>1 DEF RevokeInv
    <3> QED BY <3>1, <3>2
  <2>4. SUFFICES
          /\ stamp'[r] # None => /\ Dead(call[r].key)' /\ task'[r] = "revoke"
                                 /\ pc'[r] \in {"audit", "done", "lost"}
          /\ (task'[r] = "revoke" /\ (pc'[r] = "audit" \/ reply'[r] = 200)) => stamp'[r] # None
    BY <2>2, <2>3 DEF RevokeInv
  <2>5. CASE Revoke(r)
    <3> DEFINE k == call[r].key
    <3>0. k \in Requests /\ Past(k) /\ task[r] = "revoke" /\ reply[r] = 0
      BY <2>5, NamedKey DEF Revoke, TypeInv, StepInv
    <3>1. CASE keys[k] = None
      BY <2>1, <2>5, <3>0, <3>1 DEF Revoke, Respond, TypeInv, TypeOK, RevokeInv
    <3>2. CASE keys[k] # None
      <4>1. stamp'[r] # None /\ keys'[k] # None /\ keys'[k].revoked_at # None
        BY <2>5, <3>0, <3>2, RevokedRecord DEF Revoke, TypeInv, TypeOK
      <4>2. \A j \in Requests : Past(j) => Past(j)'
        BY PastStays
      <4>3. Dead(k)'
        BY <2>1, <3>0, <4>1, <4>2 DEF Dead
      <4> QED BY <2>1, <2>5, <3>0, <3>2, <4>1, <4>3 DEF Revoke, Goto, TypeInv, TypeOK
    <3> QED BY <3>1, <3>2
  <2>6. CASE ~Revoke(r)
    <3>1. stamp' = stamp
      BY <1>2, <2>6 DEF Of, Serve, Fault, Authenticate, Refuse, RefuseUnasked, RejectBlank,
                        Create, List, ListFails, Write, Audit, AuditFails, StorageFails
    <3>2. stamp[r] # None => /\ Dead(call[r].key)' /\ task'[r] = "revoke"
                             /\ pc'[r] \in {"audit", "done", "lost"}
      <4> SUFFICES ASSUME stamp[r] # None
                   PROVE  /\ Dead(call[r].key)' /\ task'[r] = "revoke"
                          /\ pc'[r] \in {"audit", "done", "lost"}
        OBVIOUS
      <4>1. Dead(call[r].key) /\ task[r] = "revoke" /\ pc[r] \in {"audit", "done", "lost"}
        BY DEF RevokeInv
      <4>2. call[r].key \in Requests
        BY <2>1, <4>1, CredentialTyped, CallFields DEF TypeInv, StepInv, TasksOf
      <4>3. Dead(call[r].key)'
        BY <1>0, <2>1, <4>1, <4>2
      <4>4. Audit(r) \/ AuditFails(r)
        BY <1>2, <2>6, <4>1 DEF Of, Serve, Fault, Authenticate, Refuse, RefuseUnasked,
              RejectBlank, Create, List, ListFails, Write, StorageFails
      <4> QED BY <4>1, <4>3, <4>4 DEF Audit, AuditFails, Succeed, Respond, TypeInv, TypeOK
    <3>3. (task'[r] = "revoke" /\ (pc'[r] = "audit" \/ reply'[r] = 200)) => stamp[r] # None
      <4> USE DEF TypeInv, TypeOK, StepInv, RevokeInv, Goto, Respond, Succeed
      <4>1. CASE Authenticate(r)
        BY <4>1, CallFields DEF Authenticate, FirstStep, TasksOf
      <4>2. CASE List(r) \/ ListFails(r)
        BY <2>1, <4>2 DEF List, ListFails, TasksOf
      <4>3. CASE Audit(r) \/ AuditFails(r)
        BY <4>3 DEF Audit, AuditFails
      <4>4. CASE Refuse(r) \/ RefuseUnasked(r) \/ RejectBlank(r) \/ Write(r) \/ Create(r)
                 \/ StorageFails(r)
        BY <4>4 DEF Refuse, RefuseUnasked, RejectBlank, Write, Create, StorageFails
      <4> QED BY <1>2, <2>6, <4>1, <4>2, <4>3, <4>4 DEF Of, Serve, Fault
    <3> QED BY <3>1, <3>2, <3>3
  <2> QED BY <2>5, <2>6
<1> QED BY <1>1, <1>2

LEMMA RevokeInvKept ==
  ASSUME TypeInv, StoreStep, NEW q \in Requests, SameLocal(q), RevokeInv(q)
  PROVE  RevokeInv(q)'
<1>1. \A k \in Requests : Dead(k) => Dead(k)'
  BY PastKept DEF Dead
<1>2. stamp[q] # None => call[q].key \in Requests
  BY CredentialTyped, CallFields DEF RevokeInv, TypeInv, StepInv, TasksOf
<1>3. gone[q] \subseteq Requests
  BY DEF TypeInv, TypeOK
<1> QED BY <1>1, <1>2, <1>3 DEF RevokeInv, SameLocal

LEMMA RevokeInvRestart ==
  ASSUME TypeInv, NEW q \in Requests, Restart, RevokeInv(q)
  PROVE  RevokeInv(q)'
<1>1. \A k \in Requests : Dead(k) => Dead(k)'
  BY DEF Restart, Dead, Past, TypeInv, TypeOK
<1>2. stamp[q] # None => call[q].key \in Requests
  BY CredentialTyped, CallFields DEF RevokeInv, TypeInv, StepInv, TasksOf
<1>3. gone[q] \subseteq Requests /\ (pc'[q] = "audit" => FALSE)
      /\ (pc[q] \in {"audit", "done", "lost"} => pc'[q] \in {"audit", "done", "lost"})
  BY DEF Restart, TypeInv, TypeOK
<1> QED BY <1>1, <1>2, <1>3 DEF Restart, RevokeInv

\* Revocations survive every step.
LEMMA RevokeInvNext ==
  TypeInv /\ (\A r \in Requests : RevokeInv(r)) /\ [Next]_vars =>
    (\A r \in Requests : RevokeInv(r))'
<1> SUFFICES ASSUME TypeInv, \A r \in Requests : RevokeInv(r), [Next]_vars, NEW q \in Requests
             PROVE  RevokeInv(q)'
  OBVIOUS
<1>1. ASSUME NEW r \in Requests, Of(r) PROVE RevokeInv(q)'
  <2>1. CASE q = r
    BY <1>1, <2>1, RevokeInvStep
  <2>2. CASE q # r
    BY <1>1, <2>2, Frame, StoreSteps, RevokeInvKept DEF TypeInv
  <2> QED BY <2>1, <2>2
<1>2. CASE Restart
  BY <1>2, RevokeInvRestart
<1>3. CASE Ambient
  BY <1>3, AmbientFrame, RevokeInvKept
<1> QED BY <1>1, <1>2, <1>3, Steps

\* A request that arrives after a revocation was acknowledged is never taken
\* for the holder of that key: not after a restart, a lost key store or a
\* storage fault, and whatever other requests do (auth_middleware looks a key
\* up once, revoke_key keeps the first revocation, ids are never used again).
THEOREM RevocationIsFinal == Spec => []NoEntryAfterRevocation
<1> DEFINE R == \A r \in Requests : RevokeInv(r)
<1>1. Init => R
  BY DEF Init, RevokeInv
<1>2. TypeInv /\ R /\ [Next]_vars => R'
  BY RevokeInvNext
<1>3. R => NoEntryAfterRevocation
  BY DEF RevokeInv, NoEntryAfterRevocation
<1> HIDE DEF R
<1> QED BY <1>1, <1>2, <1>3, InitType, TypeInvStep, PTL DEF Spec

-----------------------------------------------------------------------------
(* Authority. *)

\* check_admin lets in administrators only; check_scope those who hold the
\* scope and, unless they administer, in their project and pattern.
LEMMA ScopesOf ==
  /\ AllowedScopes("viewer") = {"read"} /\ AllowedScopes("contributor") = {"read", "write"}
  /\ AllowedScopes("promoter") = {"read", "write", "promote"}
BY DEF AllowedScopes

LEMMA AdminChecked ==
  ASSUME NEW who \in Identity, CheckAdmin(who) = 200
  PROVE  who.role = "admin"
<1>1. who.role \in Roles
  BY DEF Identity
<1> QED BY <1>1, ScopesOf DEF CheckAdmin, Roles

LEMMA ScopeChecked ==
  ASSUME NEW who \in Identity, NEW target \in Target, CheckScope(who, target) = 200,
         who.role # "admin"
  PROVE  /\ who.role \in Holders(target.scope) /\ who.project = target.project
         /\ target.benchmark # None => who.pattern \in {"any", target.benchmark}
<1>1. who.role \in {"viewer", "contributor", "promoter"}
  BY DEF Identity, Roles
<1>2. "admin" \notin AllowedScopes(who.role)
  BY <1>1, ScopesOf
<1>3. target.scope \in AllowedScopes(who.role) /\ target.scope \in {"write", "promote", "delete"}
  BY <1>2 DEF CheckScope, Target
<1>4. who.role \in Holders(target.scope)
  <2>1. CASE target.scope = "write"
    BY <1>1, <1>3, <2>1, ScopesOf DEF Holders
  <2>2. CASE target.scope = "promote"
    BY <1>1, <1>3, <2>2, ScopesOf DEF Holders
  <2>3. CASE target.scope = "delete"
    BY <1>1, <1>3, <2>3, ScopesOf
  <2> QED BY <1>3, <2>1, <2>2, <2>3
<1>5. who.project = target.project
  BY <1>2, <1>3 DEF CheckScope
<1>6. target.benchmark # None => who.pattern \in {"any", target.benchmark}
  BY <1>2, <1>3, <1>5 DEF CheckScope
<1> QED BY <1>4, <1>5, <1>6

\* The grant behind a credential does not change while it is stored.
LEMMA GrantKept ==
  ASSUME TypeInv, StoreStep, NEW c \in Credential \cup Tokens,
         c \in Bearer(Requests) => Past(c.key), Stored(c)'
  PROVE  Stored(c) /\ GrantOf(c)' = GrantOf(c)
<1>1. CASE c \in Bearer(Requests)
  <2>1. c.key \in Requests /\ c \notin Tokens /\ c # Cli
    BY <1>1, BearerFields, CliAssumption
  <2>2. keys'[c.key] # None
    BY <1>1 DEF Stored
  <2>3. keys[c.key] # None /\ keys'[c.key].grant = keys[c.key].grant
    BY <1>1, <2>1, <2>2, PastKept
  <2> QED BY <2>1, <2>3 DEF Stored, GrantOf
<1>2. CASE c \in Tokens
  BY <1>2, BearerFields, CliAssumption DEF Stored, GrantOf
<1>3. CASE c = Cli
  BY <1>3, CliAssumption DEF Stored, GrantOf
<1> QED BY <1>1, <1>2, <1>3 DEF Credential

\* A request that was identified before is the same caller when the
\* middleware asks again, as it does for each of a rotation's requests.
LEMMA IdentifiedAgain ==
  ASSUME TypeInv, NEW r \in Requests, IdentityInv(r), pc[r] # "idle", identity[r] # None,
         NEW who \in Identified(call[r].credential)
  PROVE  who = identity[r]
<1>1. Stored(call[r].credential) /\ who = As(call[r].credential, GrantOf(call[r].credential))
  BY IdentifiedTyped, CredentialTyped DEF TypeInv
<1> QED BY <1>1 DEF IdentityInv

LEMMA IdentityInvStep ==
  ASSUME TypeInv, NEW r \in Requests, IdentityInv(r), Of(r)
  PROVE  IdentityInv(r)'
<1>0. StoreStep
  BY StoreSteps
<1>1. CASE Arrive(r)
  <2>1. identity'[r] = None /\ pc'[r] = "auth" /\ reply'[r] = 0 /\ keys' = keys
    BY <1>1 DEF Arrive, TypeInv, TypeOK, StepInv
  <2>2. keys[r] = None
    BY <1>1 DEF Arrive, TypeInv, MadeInv, Past
  <2> QED BY <2>1, <2>2 DEF IdentityInv, Inside
<1>2. CASE Authenticate(r)
  <2> DEFINE c == call[r].credential
  <2>1. PICK who \in Identified(c) :
          LET status == IF task[r] = "write" THEN CheckScope(who, call[r].target)
                        ELSE CheckAdmin(who)
          IN /\ identity' = [identity EXCEPT ![r] = who]
             /\ IF status = 200 THEN Goto(r, FirstStep(task[r])) ELSE Respond(r, status)
    BY <1>2 DEF Authenticate
  <2>2. pc[r] = "auth" /\ reply[r] = 0 /\ keys' = keys /\ call' = call
    BY <1>2 DEF Authenticate, TypeInv, StepInv
  <2>3. c \in Credential \cup Tokens
    BY <2>2, CredentialTyped
  <2>4. who \in Identity /\ who # None /\ who.id = c /\ who = As(c, GrantOf(c))
    BY <2>3, IdentifiedTyped DEF TypeInv
  <2>5. GrantOf(c)' = GrantOf(c)
    BY <2>2 DEF GrantOf
  <2>6. identity'[r] = who
    BY <2>1 DEF TypeInv, TypeOK
  <2>7. /\ identity'[r].id = call'[r].credential
        /\ identity'[r] = As(identity'[r].id, GrantOf(identity[r].id)')
    BY <2>2, <2>4, <2>5, <2>6
  <2>8. (pc'[r] \in Inside \ {"write"} \/ keys'[r] # None) => who.role = "admin"
    <3>1. CASE keys[r] # None
      BY <2>2, <3>1, IdentifiedAgain DEF IdentityInv
    <3>2. CASE pc'[r] \in Inside \ {"write"}
      <4>1. task[r] # "write" /\ CheckAdmin(who) = 200
        BY <2>1, <2>2, <3>2 DEF Goto, Respond, FirstStep, Inside, TypeInv, TypeOK
      <4> QED BY <2>4, <4>1, AdminChecked
    <3> QED BY <2>2, <3>1, <3>2
  <2>9. (pc'[r] = "write" \/ (reply'[r] = 201 /\ task'[r] = "write")) =>
           CheckScope(who, call[r].target) = 200
    <3>1. task[r] \in Tasks /\ task' = task
      BY <2>1, <2>2, CallFields DEF Goto, Respond, TypeInv, StepInv, TasksOf, Tasks
    <3>2. CASE task[r] = "write"
      <4>1. CheckScope(who, call[r].target) # 201
        BY DEF CheckScope
      <4> QED BY <2>1, <2>2, <3>2, <4>1 DEF Goto, Respond, FirstStep, TypeInv, TypeOK
    <3>3. CASE task[r] # "write"
      BY <2>1, <2>2, <3>1, <3>3 DEF Goto, Respond, FirstStep, Tasks, TypeInv, TypeOK
    <3> QED BY <3>2, <3>3
  <2> QED BY <2>2, <2>4, <2>6, <2>7, <2>8, <2>9 DEF IdentityInv, CheckScope
<1>3. CASE ~Arrive(r) /\ ~Authenticate(r)
  <2>1. \/ identity' = identity /\ call' = call /\ pc[r] # "idle" /\ pc[r] # "auth"
        \/ Refuse(r) \/ RefuseUnasked(r)
    BY <1>3 DEF Of, Serve, Fault, RejectBlank, Create,
                List, ListFails, Revoke, Write, Audit, AuditFails, StorageFails
  <2>2. identity' = identity /\ call' = call /\ pc[r] # "idle"
    BY <2>1 DEF Refuse, RefuseUnasked
  <2>3. /\ call[r].credential \in Credential \cup Tokens
        /\ call[r].credential \in Bearer(Requests) => Past(call[r].credential.key)
    BY <2>2, CredentialTyped
  <2>4. identity[r] # None =>
         /\ identity'[r].id = call'[r].credential
         /\ Stored(identity[r].id)' => identity'[r] = As(identity[r].id, GrantOf(identity[r].id)')
    <3>1. \A c \in Credential \cup Tokens :
            (c \in Bearer(Requests) => Past(c.key)) /\ Stored(c)' =>
               Stored(c) /\ GrantOf(c)' = GrantOf(c)
      BY <1>0, GrantKept
    <3> QED BY <2>2, <2>3, <3>1 DEF IdentityInv
  <2>5. (pc'[r] \in Inside \ {"write"} \/ keys'[r] # None) =>
           identity[r] # None /\ identity[r].role = "admin"
    <3>1. CASE keys[r] # None \/ pc[r] \in Inside \ {"write"}
      BY <3>1 DEF IdentityInv
    <3>2. CASE keys[r] = None /\ pc[r] \notin Inside \ {"write"}
      <4>1. keys'[r] = None
        BY <1>0, <3>2 DEF StoreStep, Inside
      <4>2. pc'[r] \notin Inside \ {"write"}
        BY <1>3, <3>2 DEF Of, Serve, Fault, Refuse, RefuseUnasked, RejectBlank, Create, List,
           ListFails, Revoke, Write, Audit, AuditFails, StorageFails, Respond, Inside, TypeInv, TypeOK
      <4> QED BY <4>1, <4>2
    <3> QED BY <3>1, <3>2
  <2>6. (pc'[r] = "write" \/ (reply'[r] = 201 /\ task'[r] = "write")) =>
         identity[r] # None /\ CheckScope(identity[r], call[r].target) = 200
    <3>1. CASE Write(r)
      BY <3>1 DEF Write, IdentityInv
    <3>2. CASE ~Write(r)
      <4>1. ~(pc'[r] = "write" \/ (reply'[r] = 201 /\ task'[r] = "write"))
        <5> USE DEF Goto, Respond, Succeed, TypeInv, TypeOK, StepInv
        <5>1. CASE Refuse(r) \/ RefuseUnasked(r) \/ RejectBlank(r) \/ Create(r)
          BY <5>1 DEF Refuse, RefuseUnasked, RejectBlank, Create
        <5>2. CASE List(r) \/ ListFails(r)
          BY <5>2 DEF List, ListFails
        <5>3. CASE Revoke(r) \/ StorageFails(r)
          BY <5>3 DEF Revoke, StorageFails
        <5>4. CASE Audit(r) \/ AuditFails(r)
          BY <5>4 DEF Audit, AuditFails
        <5> QED BY <1>3, <3>2, <5>1, <5>2, <5>3, <5>4 DEF Of, Serve, Fault
      <4> QED BY <4>1
    <3> QED BY <3>1, <3>2
  <2> QED BY <2>2, <2>4, <2>5, <2>6 DEF IdentityInv, CheckScope
<1> QED BY <1>1, <1>2, <1>3

LEMMA IdentityInvKept ==
  ASSUME TypeInv, StoreStep, NEW q \in Requests, SameLocal(q), IdentityInv(q)
  PROVE  IdentityInv(q)'
<1>1. keys'[q] # None => keys[q] # None
  BY DEF SameLocal, StoreStep
<1>2. identity[q] # None =>
         /\ identity'[q].id = call'[q].credential
         /\ Stored(identity[q].id)' => identity'[q] = As(identity[q].id, GrantOf(identity[q].id)')
  <2> SUFFICES ASSUME identity[q] # None
      PROVE  /\ identity'[q].id = call'[q].credential
             /\ Stored(identity[q].id)' =>
                  identity'[q] = As(identity[q].id, GrantOf(identity[q].id)')
    OBVIOUS
  <2>1. pc[q] # "idle"
    BY DEF TypeInv, StepInv
  <2>2. /\ call[q].credential \in Credential \cup Tokens
        /\ call[q].credential \in Bearer(Requests) => Past(call[q].credential.key)
    BY <2>1, CredentialTyped
  <2>3. \A c \in Credential \cup Tokens :
          (c \in Bearer(Requests) => Past(c.key)) /\ Stored(c)' =>
             Stored(c) /\ GrantOf(c)' = GrantOf(c)
    BY GrantKept
  <2> QED BY <2>2, <2>3 DEF SameLocal, IdentityInv
<1> QED BY <1>1, <1>2 DEF IdentityInv, SameLocal, CheckScope

LEMMA IdentityInvRestart ==
  ASSUME TypeInv, NEW q \in Requests, Restart, IdentityInv(q)
  PROVE  IdentityInv(q)'
<1>1. pc'[q] \notin Inside
  BY DEF Restart, Inside, TypeInv, TypeOK
<1>2. identity' = identity /\ call' = call /\ reply' = reply /\ task' = task
      /\ \A k \in Requests : keys'[k] = keys[k] \/ keys'[k] = None
  BY DEF Restart
<1>3. \A c \in Credential \cup Tokens : Stored(c)' => Stored(c) /\ GrantOf(c)' = GrantOf(c)
  <2> SUFFICES ASSUME NEW c \in Credential \cup Tokens, Stored(c)'
               PROVE  Stored(c) /\ GrantOf(c)' = GrantOf(c)
    OBVIOUS
  <2>1. CASE c \in Bearer(Requests)
    BY <1>2, <2>1, BearerFields, CliAssumption DEF Stored, GrantOf
  <2>2. CASE c \in Tokens
    BY <2>2, BearerFields, CliAssumption DEF Stored, GrantOf
  <2>3. CASE c = Cli
    BY <2>3, CliAssumption DEF Stored, GrantOf
  <2> QED BY <2>1, <2>2, <2>3 DEF Credential
<1>4. identity[q] # None => identity[q].id \in Credential \cup Tokens
  BY CredentialTyped DEF IdentityInv, TypeInv, StepInv
<1> QED BY <1>1, <1>2, <1>3, <1>4 DEF IdentityInv, CheckScope, Inside

\* Identities stand for grants in every step.
LEMMA IdentityInvNext ==
  TypeInv /\ (\A r \in Requests : IdentityInv(r)) /\ [Next]_vars =>
    (\A r \in Requests : IdentityInv(r))'
<1> SUFFICES ASSUME TypeInv, \A r \in Requests : IdentityInv(r), [Next]_vars,
                    NEW q \in Requests
             PROVE  IdentityInv(q)'
  OBVIOUS
<1>1. ASSUME NEW r \in Requests, Of(r) PROVE IdentityInv(q)'
  <2>1. CASE q = r
    BY <1>1, <2>1, IdentityInvStep
  <2>2. CASE q # r
    BY <1>1, <2>2, Frame, StoreSteps, IdentityInvKept DEF TypeInv
  <2> QED BY <2>1, <2>2
<1>2. CASE Restart
  BY <1>2, IdentityInvRestart
<1>3. CASE Ambient
  BY <1>3, AmbientFrame, IdentityInvKept
<1> QED BY <1>1, <1>2, <1>3, Steps

\* Every key goes back to the administrator: a stored key was made by a caller
\* whose own grant is an admin's, and an upload, promotion or deletion that was
\* answered with success lies within the grant of the key it was made with,
\* whatever happened between the lookup in auth_middleware and the handler's
\* work.
THEOREM AuthorityHolds == Spec => []AuthorityFromAdmin
<1> DEFINE I == \A r \in Requests : IdentityInv(r)
<1>1. Init => I
  BY DEF Init, IdentityInv, Inside
<1>2. TypeInv /\ I /\ [Next]_vars => I'
  BY IdentityInvNext
<1>3. TypeInv /\ I => AuthorityFromAdmin
  <2> SUFFICES ASSUME TypeInv, I, NEW r \in Requests, identity[r] # None,
                      Stored(identity[r].id)
      PROVE  LET grant == GrantOf(identity[r].id)
             IN /\ keys[r] # None => grant.role = "admin"
                /\ (reply[r] = 201 /\ task[r] = "write" /\ grant.role # "admin") =>
                     /\ grant.role \in Holders(call[r].target.scope)
                     /\ grant.project = call[r].target.project
                     /\ call[r].target.benchmark # None =>
                          grant.pattern \in {"any", call[r].target.benchmark}
    BY DEF AuthorityFromAdmin
  <2> DEFINE grant == GrantOf(identity[r].id)
  <2>1. identity[r] \in Identity
    BY DEF TypeInv, TypeOK
  <2>2. identity[r].role = grant.role /\ identity[r].project = grant.project
        /\ identity[r].pattern = grant.pattern
    <3>1. identity[r] = As(identity[r].id, grant)
      BY DEF IdentityInv
    <3> QED BY <3>1 DEF As
  <2>3. keys[r] # None => grant.role = "admin"
    BY <2>2 DEF IdentityInv
  <2>4. ASSUME reply[r] = 201, task[r] = "write", grant.role # "admin"
        PROVE  /\ grant.role \in Holders(call[r].target.scope)
               /\ grant.project = call[r].target.project
               /\ call[r].target.benchmark # None =>
                    grant.pattern \in {"any", call[r].target.benchmark}
    <3>1. CheckScope(identity[r], call[r].target) = 200
      BY <2>4 DEF IdentityInv
    <3>2. call[r].target \in Target
      <4>1. pc[r] # "idle"
        BY <2>4 DEF TypeInv, StepInv
      <4>2. call[r] \in Call /\ call[r].op = "write"
        BY <2>4, <4>1, CallFields DEF TypeInv, StepInv, TasksOf
      <4> QED BY <4>2, CallFields, TargetsAssumption
    <3> QED BY <2>1, <2>2, <2>4, <3>1, <3>2, ScopeChecked
  <2> QED BY <2>3, <2>4
<1> HIDE DEF I
<1> QED BY <1>1, <1>2, <1>3, InitType, TypeInvStep, PTL DEF Spec

\* A rotation never takes a key away without handing out its replacement:
\* `admin keys rotate` revokes the old key only after the new one is stored
\* with the same grant, and then prints its plaintext.
THEOREM RotationIsSafe == Spec => []RotationKeepsAccess
<1> DEFINE R == \A r \in Requests : RevokeInv(r)
<1>1. Init => R
  BY DEF Init, RevokeInv
<1>2. TypeInv /\ R /\ [Next]_vars => R'
  BY RevokeInvNext
<1>3. TypeInv /\ R => RotationKeepsAccess
  <2> SUFFICES ASSUME TypeInv, R, NEW r \in Requests, call[r] # None, call[r].op = "rotate",
                      stamp[r] # None, keys[call[r].key] # None
               PROVE  /\ keys[r] # None /\ keys[r].grant = keys[call[r].key].grant
                      /\ pc[r] = "done" => Known(r)
    BY DEF RotationKeepsAccess
  <2>1. pc[r] # "idle" /\ task[r] = "revoke"
    BY DEF TypeInv, StepInv, RevokeInv
  <2> QED BY <2>1 DEF TypeInv, CopyInv, Known
<1> HIDE DEF R
<1> QED BY <1>1, <1>2, <1>3, InitType, TypeInvStep, PTL DEF Spec

-----------------------------------------------------------------------------
(* The audit log of keys. *)

\* An event was written by an administrator, about a key that is past its
\* creation and, if it was a revocation, dead.
EventInv(e) ==
  /\ e.by \in Requests /\ pc[e.by] # "idle"
  /\ identity[e.by] # None /\ identity[e.by].role = "admin"
  /\ e.key \in Requests /\ Past(e.key)
  /\ e.action = "delete" => Dead(e.key)
  /\ (keys[e.key] # None /\ e.role # None) =>
       e.project = keys[e.key].grant.project /\ e.role = keys[e.key].grant.role
  /\ faults = 0 => e.role # None

\* As long as nothing failed the key a request names is stored; what a
\* revocation read of it still holds.
SeenInv(r) ==
  /\ (faults = 0 /\ pc[r] # "idle" /\ call[r].op \in {"revoke", "rotate"}) =>
       keys[call[r].key] # None
  /\ (task[r] = "revoke" /\ pc[r] \in {"revoke", "audit"}) =>
       /\ faults = 0 => seen[r] # None
       /\ (seen[r] # None /\ keys[call[r].key] # None) =>
            seen[r].grant = keys[call[r].key].grant

LogsRevocation(r, k) == pc[r] = "audit" /\ task[r] = "revoke" /\ call[r].key = k

\* As long as nothing failed, what was done to a key is logged or about to be.
LoggedInv(k) ==
  (faults = 0 /\ keys[k] # None) =>
    /\ EventOf("create", k) \/ (pc[k] = "audit" /\ task[k] = "create")
    /\ keys[k].revoked_at # None =>
         EventOf("delete", k) \/ \E r \in Requests : LogsRevocation(r, k)

KeyLogInv ==
  /\ \A r \in Requests : RevokeInv(r) /\ IdentityInv(r)
  /\ \A e \in audit : EventInv(e)
  /\ \A r \in Requests : SeenInv(r) /\ LoggedInv(r)

\* Next again, with what it does to the count of faults.
LEMMA CountedSteps ==
  ASSUME TypeInv, [Next]_vars
  PROVE  \/ \E r \in Requests : (Arrive(r) \/ Serve(r)) /\ faults' = faults
         \/ \E r \in Requests : Fault(r) /\ faults' # 0
         \/ Restart /\ faults' # 0
         \/ Ambient /\ faults' = faults
<1>1. faults \in Nat
  BY DEF TypeInv, TypeOK
<1>2. CASE Next
  BY <1>1, <1>2 DEF Next, Ambient, Restart, Tick, RotateSigning
<1>3. CASE UNCHANGED vars
  BY <1>3 DEF vars, Ambient
<1> QED BY <1>2, <1>3

\* Who was identified stays so, also when a rotation is asked again.
LEMMA IdentityStays ==
  ASSUME TypeInv, \A r \in Requests : IdentityInv(r), NEW r \in Requests, Of(r),
         NEW q \in Requests, pc[q] # "idle", identity[q] # None
  PROVE  identity'[q] = identity[q] /\ pc'[q] # "idle"
<1>1. CASE q # r
  BY <1>1, Frame DEF TypeInv, SameLocal
<1>2. CASE q = r
  <2> USE DEF TypeInv, TypeOK, Goto, Respond, Succeed
  <2>1. CASE Authenticate(r)
    <3>1. PICK who \in Identified(call[r].credential) :
            LET status == IF task[r] = "write" THEN CheckScope(who, call[r].target)
                          ELSE CheckAdmin(who)
            IN /\ identity' = [identity EXCEPT ![r] = who]
               /\ IF status = 200 THEN Goto(r, FirstStep(task[r])) ELSE Respond(r, status)
      BY <2>1 DEF Authenticate
    <3>2. who = identity[r]
      BY <1>2, IdentifiedAgain
    <3>3. FirstStep(task[r]) # "idle"
      BY <1>2, CallFields DEF StepInv, TasksOf, FirstStep
    <3> QED BY <1>2, <3>1, <3>2, <3>3
  <2>2. CASE ~Authenticate(r)
    <3>1. ~Arrive(r)
      BY <1>2 DEF Arrive
    <3>2. identity' = identity
      BY <2>2, <3>1 DEF Of, Serve, Fault, Refuse, RefuseUnasked, RejectBlank, Create, List,
                        ListFails, Revoke, Write, Audit, AuditFails, StorageFails
    <3>3. pc'[r] # "idle"
      <4>1. CASE Refuse(r) \/ RefuseUnasked(r) \/ RejectBlank(r) \/ Create(r) \/ Write(r)
        BY <4>1 DEF Refuse, RefuseUnasked, RejectBlank, Create, Write
      <4>2. CASE List(r) \/ ListFails(r)
        BY <4>2 DEF List, ListFails
      <4>3. CASE Revoke(r) \/ StorageFails(r)
        BY <4>3 DEF Revoke, StorageFails
      <4>4. CASE Audit(r) \/ AuditFails(r)
        BY <4>4 DEF Audit, AuditFails
      <4> QED BY <2>2, <3>1, <4>1, <4>2, <4>3, <4>4 DEF Of, Serve, Fault
    <3> QED BY <1>2, <3>2, <3>3
  <2> QED BY <2>1, <2>2
<1> QED BY <1>1, <1>2

\* An event keeps telling the truth.
LEMMA EventKept ==
  ASSUME TypeInv, StoreStep, NEW e, EventInv(e), faults' = faults \/ faults' # 0,
         identity'[e.by] = identity[e.by], pc'[e.by] # "idle"
  PROVE  EventInv(e)'
<1>1. e.key \in Requests /\ Past(e.key)
  BY DEF EventInv
<1>2. /\ Past(e.key)'
      /\ keys'[e.key] # None => keys[e.key] # None /\ keys'[e.key].grant = keys[e.key].grant
      /\ Dead(e.key) => Dead(e.key)'
  BY <1>1, PastKept
<1> QED BY <1>1, <1>2 DEF EventInv

\* The event a request is about to write is true.
LEMMA NewEventTrue ==
  ASSUME TypeInv, NEW r \in Requests, pc[r] = "audit", RevokeInv(r), IdentityInv(r), SeenInv(r)
  PROVE  EventInv(NewEvent(r))
<1>1. /\ task[r] \in {"create", "revoke"} /\ call[r] \in Call /\ task[r] \in TasksOf(call[r].op)
      /\ identity[r] # None /\ identity[r].role = "admin"
  BY DEF TypeInv, StepInv, IdentityInv, Inside
<1>2. \A x \in KeyRecord : x.grant.role \in Roles /\ x.grant.role # None
  BY GrantsAssumption, GrantFields, NoneAssumption DEF KeyRecord
<1>3. CASE task[r] = "create"
  <2>1. keys[r] # None /\ keys[r] \in KeyRecord /\ Past(r)
    BY <1>3 DEF TypeInv, TypeOK, MadeInv, Past
  <2> DEFINE e == NewEvent(r)
  <2>2. /\ e.by = r /\ e.key = r /\ e.action = "create" /\ e.project = keys[r].grant.project
        /\ e.role = keys[r].grant.role
    BY <1>3 DEF NewEvent
  <2> HIDE DEF e
  <2>3. EventInv(e)
    BY <1>1, <1>2, <2>1, <2>2 DEF EventInv
  <2> QED BY <2>3 DEF e
<1>4. CASE task[r] = "revoke"
  <2> DEFINE e == NewEvent(r)
             k == call[r].key
  <2>1. k \in Requests /\ Past(k) /\ Dead(k)
    BY <1>1, <1>4, CallFields DEF TypeInv, MadeInv, TasksOf, RevokeInv
  <2>2. /\ e.by = r /\ e.key = k /\ e.action = "delete"
        /\ e.project = IF seen[r] = None THEN identity[r].project ELSE seen[r].grant.project
        /\ e.role = IF seen[r] = None THEN None ELSE seen[r].grant.role
    BY <1>4 DEF NewEvent
  <2>3. seen[r] \in KeyRecord \cup {None}
    BY DEF TypeInv, TypeOK
  <2>4. /\ faults = 0 => seen[r] # None
        /\ (seen[r] # None /\ keys[k] # None) => seen[r].grant = keys[k].grant
    BY <1>4 DEF SeenInv
  <2> HIDE DEF e, k
  <2>5. EventInv(e)
    BY <1>1, <1>2, <2>1, <2>2, <2>3, <2>4 DEF EventInv
  <2> QED BY <2>5 DEF e
<1> QED BY <1>1, <1>3, <1>4

LEMMA EventsStep ==
  ASSUME TypeInv, KeyLogInv, NEW r \in Requests, Of(r), faults' = faults \/ faults' # 0,
         NEW e \in audit'
  PROVE  EventInv(e)'
<1>1. EventInv(e)
  <2>1. CASE Audit(r)
    BY <2>1, NewEventTrue DEF Audit, KeyLogInv
  <2>2. CASE ~Audit(r)
    <3>1. audit' = audit
      BY <2>2 DEF Of, Serve, Fault, Arrive, Authenticate, Refuse, RefuseUnasked, RejectBlank,
                  Create, List, ListFails, Revoke, Write, AuditFails, StorageFails
    <3> QED BY <3>1 DEF KeyLogInv
  <2> QED BY <2>1, <2>2
<1>2. identity'[e.by] = identity[e.by] /\ pc'[e.by] # "idle"
  BY <1>1, IdentityStays DEF EventInv, KeyLogInv
<1>3. StoreStep
  BY StoreSteps
<1> QED BY <1>1, <1>2, <1>3, EventKept

\* What a request knows of the key it names survives the steps of others.
LEMMA SeenKept ==
  ASSUME TypeInv, StoreStep, NEW q \in Requests, SameLocal(q), SeenInv(q),
         faults' = faults \/ faults' # 0
  PROVE  SeenInv(q)'
<1>1. CASE pc[q] = "idle"
  BY <1>1 DEF SeenInv, SameLocal
<1>2. CASE pc[q] # "idle" /\ call[q].op \in {"revoke", "rotate"}
  <2>1. call[q].key \in Requests /\ Past(call[q].key)
    BY <1>2, CallFields, CredentialTyped DEF TypeInv, MadeInv
  <2> DEFINE k == call[q].key
  <2>2. /\ keys'[k] # None => keys[k] # None /\ keys'[k].grant = keys[k].grant
        /\ keys[k] # None => keys'[k] # None
    BY <2>1, PastKept DEF StoreStep
  <2>3. call'[q].key = k /\ call'[q] = call[q]
    BY DEF SameLocal
  <2> HIDE DEF k
  <2>4. (faults = 0 => keys[k] # None) /\
        ((task[q] = "revoke" /\ pc[q] \in {"revoke", "audit"}) =>
           /\ faults = 0 => seen[q] # None
           /\ (seen[q] # None /\ keys[k] # None) => seen[q].grant = keys[k].grant)
    BY <1>2 DEF SeenInv, k
  <2> QED BY <1>2, <2>2, <2>3, <2>4 DEF SeenInv, SameLocal
<1>3. CASE pc[q] # "idle" /\ call[q].op \notin {"revoke", "rotate"}
  <2>1. task[q] # "revoke"
    BY <1>3 DEF TypeInv, StepInv, TasksOf
  <2> QED BY <1>3, <2>1 DEF SeenInv, SameLocal
<1> QED BY <1>1, <1>2, <1>3

\* The request that takes a step: it names a stored key, and reads it before it
\* revokes.
LEMMA SeenStep ==
  ASSUME TypeInv, NEW r \in Requests, Of(r), SeenInv(r), faults' = faults \/ faults' # 0,
         Arrive(r) \/ Serve(r) \/ faults' # 0
  PROVE  SeenInv(r)'
<1>0. StoreStep
  BY StoreSteps
<1>1. CASE Arrive(r)
  <2>1. PICK c \in Calls : /\ call' = [call EXCEPT ![r] = c]
                           /\ task' = [task EXCEPT ![r] = FirstTask(c.op)]
    BY <1>1 DEF Arrive
  <2>2. call'[r] = c /\ pc'[r] = "auth" /\ keys' = keys
    BY <1>1, <2>1 DEF Arrive, TypeInv, TypeOK
  <2>3. c.op \in {"revoke", "rotate"} => keys[c.key] # None
    BY DEF Calls
  <2> QED BY <2>2, <2>3 DEF SeenInv
<1>2. CASE List(r) \/ ListFails(r)
  <2> DEFINE k == call[r].key
  <2>1. pc[r] = "list" /\ keys' = keys /\ call' = call
    BY <1>2 DEF List, ListFails
  <2>2. k \in Requests /\ call[r].op \in {"revoke", "rotate"}
    BY <2>1, NamedKey
  <2>3. faults = 0 => keys[k] # None
    BY <2>1, <2>2 DEF SeenInv
  <2>4. CASE List(r)
    <3>1. seen'[r] = keys[k]
      BY <2>4 DEF List, TypeInv, TypeOK
    <3> HIDE DEF k
    <3>2. (faults' = 0 => keys'[k] # None) /\ (faults' = 0 => seen'[r] # None)
          /\ (seen'[r] # None => seen'[r].grant = keys'[k].grant)
      BY <2>1, <2>3, <3>1
    <3> QED BY <2>1, <3>2 DEF SeenInv, k
  <2>5. CASE ~List(r)
    <3>1. ~Arrive(r) /\ ~Serve(r)
      BY <2>1, <2>5 DEF Arrive, Serve, Authenticate, Refuse, RejectBlank, Create, Revoke, Write, Audit
    <3>2. seen'[r] = None /\ faults' # 0
      BY <1>2, <2>5, <3>1 DEF ListFails, TypeInv, TypeOK
    <3> QED BY <3>2 DEF SeenInv
  <2> QED BY <2>4, <2>5
<1>3. CASE ~Arrive(r) /\ ~List(r) /\ ~ListFails(r)
  <2>1. call' = call /\ seen' = seen /\ pc[r] # "idle"
    BY <1>3 DEF Of, Serve, Fault, Authenticate, Refuse, RefuseUnasked, RejectBlank, Create,
                Revoke, Write, Audit, AuditFails, StorageFails
  <2>2. CASE call[r].op \notin {"revoke", "rotate"}
    <3>1. task'[r] = task[r] /\ task[r] # "revoke"
      BY <1>3, <2>1, <2>2 DEF Of, Serve, Fault, Authenticate, Refuse, RefuseUnasked, RejectBlank,
             Create, Revoke, Write, Audit, AuditFails, StorageFails, Goto, Respond, Succeed,
             TypeInv, StepInv, TasksOf
    <3> QED BY <2>1, <2>2, <3>1 DEF SeenInv
  <2>3. CASE call[r].op \in {"revoke", "rotate"}
    <3> DEFINE k == call[r].key
    <3>1. k \in Requests /\ Past(k)
      BY <2>1, <2>3, CallFields, CredentialTyped DEF TypeInv, MadeInv
    <3>2. /\ keys'[k] # None => keys[k] # None /\ keys'[k].grant = keys[k].grant
          /\ keys[k] # None => keys'[k] # None
      BY <1>0, <3>1, PastKept DEF StoreStep
    <3>3. (task'[r] = "revoke" /\ pc'[r] \in {"revoke", "audit"}) =>
             task[r] = "revoke" /\ pc[r] \in {"revoke", "audit"}
      <4> USE DEF Goto, Respond, Succeed, TypeInv, TypeOK, StepInv
      <4>1. CASE Authenticate(r)
        <5>1. task[r] \in {"list", "create", "revoke"}
          BY <2>1, <2>3, CallFields DEF TasksOf
        <5> QED BY <4>1, <5>1 DEF Authenticate, FirstStep
      <4>2. CASE Refuse(r) \/ RefuseUnasked(r) \/ RejectBlank(r) \/ Create(r) \/ Write(r)
        BY <4>2 DEF Refuse, RefuseUnasked, RejectBlank, Create, Write
      <4>3. CASE Revoke(r) \/ StorageFails(r)
        BY <4>3 DEF Revoke, StorageFails
      <4>4. CASE Audit(r) \/ AuditFails(r)
        BY <4>4 DEF Audit, AuditFails
      <4> QED BY <1>3, <4>1, <4>2, <4>3, <4>4 DEF Of, Serve, Fault
    <3>4. (faults = 0 => keys[k] # None) /\
          ((task[r] = "revoke" /\ pc[r] \in {"revoke", "audit"}) =>
             /\ faults = 0 => seen[r] # None
             /\ (seen[r] # None /\ keys[k] # None) => seen[r].grant = keys[k].grant)
      BY <2>1, <2>3 DEF SeenInv
    <3>5. call'[r].key = k /\ call'[r] = call[r] /\ seen'[r] = seen[r]
      BY <2>1
    <3> HIDE DEF k
    <3> QED BY <2>1, <3>2, <3>3, <3>4, <3>5 DEF SeenInv
  <2> QED BY <2>2, <2>3
<1> QED BY <1>1, <1>2, <1>3

\* An event written once stays written.
LEMMA EventsStay ==
  ASSUME NEW r \in Requests, Of(r)
  PROVE  audit \subseteq audit' /\ \A a, k : EventOf(a, k) => EventOf(a, k)'
<1>1. audit \subseteq audit'
  BY DEF Of, Serve, Fault, Arrive, Authenticate, Refuse, RefuseUnasked, RejectBlank, Create, List,
         ListFails, Revoke, Write, Audit, AuditFails, StorageFails
<1> QED BY <1>1 DEF EventOf

\* A handler that makes or revokes a key goes on to its event.
LEMMA LoggedStep ==
  ASSUME TypeInv, NEW r \in Requests, Arrive(r) \/ Serve(r), faults' = faults,
         NEW k \in Requests, LoggedInv(k)
  PROVE  LoggedInv(k)'
<1>0. Of(r) /\ audit \subseteq audit' /\ \A a \in {"create", "delete"} :
        EventOf(a, k) => EventOf(a, k)'
  BY EventsStay DEF Of
<1>1. CASE keys'[k] = None \/ faults # 0
  BY <1>1 DEF LoggedInv
<1>2. CASE keys'[k] # None /\ faults = 0
  <2>1. pc[r] = "audit" => Audit(r)
    BY DEF Arrive, Serve, Authenticate, Refuse, RejectBlank, Create, List, Revoke, Write
  <2>2. pc[r] = "audit" => NewEvent(r) \in audit'
    BY <2>1 DEF Audit
  <2>3. EventOf("create", k)' \/ (pc'[k] = "audit" /\ task'[k] = "create")
    <3>1. CASE keys[k] = None
      <4>1. Made(r) /\ k = r
        <5>1. keys' = keys \/ Made(r) \/ Revoked(r)
          BY <1>0, TableSteps
        <5>2. Revoked(r) => call[r].key \in Requests
          BY NamedKey DEF Revoked
        <5> QED BY <1>2, <3>1, <5>1, <5>2 DEF Made, Revoked, TypeInv, TypeOK
      <4>2. pc[r] = "create" /\ task[r] = "create" /\ keys' # keys
        BY <1>2, <3>1, <4>1 DEF Made, TypeInv, StepInv
      <4>3. Create(r)
        BY <4>2 DEF Arrive, Serve, Authenticate, Refuse, RejectBlank, List, Revoke, Write, Audit
      <4> QED BY <4>1, <4>2, <4>3 DEF Create, Goto, TypeInv, TypeOK
    <3>2. CASE keys[k] # None /\ EventOf("create", k)
      BY <1>0, <3>2
    <3>3. CASE keys[k] # None /\ pc[k] = "audit" /\ task[k] = "create"
      <4>1. CASE k = r
        <5>1. NewEvent(k).action = "create" /\ NewEvent(k).key = k /\ NewEvent(k) \in audit'
          BY <2>2, <3>3, <4>1 DEF NewEvent
        <5> QED BY <5>1 DEF EventOf
      <4>2. CASE k # r
        BY <1>0, <3>3, <4>2, Frame DEF SameLocal, TypeInv
      <4> QED BY <4>1, <4>2
    <3> QED BY <1>2, <3>1, <3>2, <3>3 DEF LoggedInv
  <2>4. keys'[k].revoked_at # None =>
           EventOf("delete", k)' \/ \E q \in Requests : LogsRevocation(q, k)'
    <3> SUFFICES ASSUME keys'[k].revoked_at # None
                 PROVE  EventOf("delete", k)' \/ \E q \in Requests : LogsRevocation(q, k)'
      OBVIOUS
    <3>1. CASE keys[k] # None /\ keys[k].revoked_at # None
      <4>1. CASE EventOf("delete", k)
        BY <1>0, <4>1
      <4>2. CASE \E q \in Requests : LogsRevocation(q, k)
        <5>1. PICK q \in Requests : LogsRevocation(q, k)
          BY <4>2
        <5>2. CASE q = r
          <6>1. NewEvent(q).action = "delete" /\ NewEvent(q).key = k /\ NewEvent(q) \in audit'
            BY <2>2, <5>1, <5>2 DEF NewEvent, LogsRevocation
          <6> QED BY <6>1 DEF EventOf
        <5>3. CASE q # r
          BY <1>0, <5>1, <5>3, Frame DEF SameLocal, TypeInv, LogsRevocation
        <5> QED BY <5>2, <5>3
      <4> QED BY <1>2, <3>1, <4>1, <4>2 DEF LoggedInv
    <3>2. CASE keys[k] = None \/ keys[k].revoked_at = None
      <4>1. keys' # keys
        BY <1>2, <3>2
      <4>2. CASE Made(r)
        <5>1. keys'[k] = IF k = r THEN NewKey(r) ELSE keys[k]
          BY <4>2 DEF Made, TypeInv, TypeOK
        <5>2. NewKey(r).revoked_at = None
          BY DEF NewKey
        <5> QED BY <1>2, <3>2, <5>1, <5>2
      <4>3. CASE Revoked(r)
        <5>1. pc[r] = "revoke" /\ task[r] = "revoke" /\ call[r].key \in Requests
          BY <4>3, NamedKey DEF Revoked, TypeInv, StepInv
        <5>2. Revoke(r)
          BY <5>1 DEF Arrive, Serve, Authenticate, Refuse, RejectBlank, Create, List, Write, Audit
        <5>3. call[r].key = k
          BY <1>2, <3>2, <4>3, <5>1 DEF Revoked, TypeInv, TypeOK
        <5>4. pc'[r] = "audit" /\ task'[r] = "revoke" /\ call'[r].key = k
          BY <4>3, <5>1, <5>2, <5>3 DEF Revoke, Revoked, Goto, TypeInv, TypeOK
        <5> QED BY <5>4 DEF LogsRevocation
      <4> QED BY <1>0, <4>1, <4>2, <4>3, TableSteps
    <3> QED BY <3>1, <3>2
  <2> QED BY <2>3, <2>4 DEF LoggedInv
<1> QED BY <1>1, <1>2

\* After a restart the events are still true, of the keys that are left.
LEMMA EventsRestart ==
  ASSUME TypeInv, KeyLogInv, Restart, NEW e \in audit
  PROVE  EventInv(e)'
<1>1. EventInv(e)
  BY DEF KeyLogInv
<1>2. /\ identity' = identity /\ faults' # 0
      /\ \A k \in Requests : keys'[k] = keys[k] \/ keys'[k] = None
  BY DEF Restart, TypeInv, TypeOK
<1>3. \A k \in Requests : (Past(k) => Past(k)') /\ (Dead(k) => Dead(k)')
                          /\ (pc[k] # "idle" => pc'[k] # "idle")
  BY DEF Restart, Dead, Past, TypeInv, TypeOK
<1> QED BY <1>1, <1>2, <1>3 DEF EventInv

LEMMA KeyLogNext == TypeInv /\ KeyLogInv /\ [Next]_vars => KeyLogInv'
<1> SUFFICES ASSUME TypeInv, KeyLogInv, [Next]_vars PROVE KeyLogInv'
  OBVIOUS
<1>1. (\A r \in Requests : RevokeInv(r)')  /\ (\A r \in Requests : IdentityInv(r)')
  BY RevokeInvNext, IdentityInvNext DEF KeyLogInv
<1>2. CASE \E r \in Requests : (Arrive(r) \/ Serve(r)) /\ faults' = faults
  <2>1. PICK r \in Requests : (Arrive(r) \/ Serve(r)) /\ faults' = faults
    BY <1>2
  <2>3. Of(r) /\ StoreStep
    BY <2>1, StoreSteps DEF Of
  <2>4. \A e \in audit' : EventInv(e)'
    BY <2>1, <2>3, EventsStep
  <2>5. \A q \in Requests : LoggedInv(q)'
    BY <2>1, LoggedStep DEF KeyLogInv
  <2>6. \A q \in Requests : SeenInv(q)'
    <3> SUFFICES ASSUME NEW q \in Requests PROVE SeenInv(q)'
      OBVIOUS
    <3>1. CASE q # r
      BY <2>1, <2>3, <3>1, Frame, SeenKept DEF KeyLogInv, TypeInv
    <3>2. CASE q = r
      BY <2>1, <2>3, <3>2, SeenStep DEF KeyLogInv
    <3> QED BY <3>1, <3>2
  <2> QED BY <1>1, <2>4, <2>5, <2>6 DEF KeyLogInv
<1>3. CASE \E r \in Requests : Fault(r) /\ faults' # 0
  <2>1. PICK r \in Requests : Fault(r) /\ faults' # 0
    BY <1>3
  <2>2. Of(r) /\ StoreStep
    BY <2>1, StoreSteps DEF Of
  <2>3. \A e \in audit' : EventInv(e)'
    BY <2>1, <2>2, EventsStep
  <2>4. \A q \in Requests : LoggedInv(q)'
    BY <2>1 DEF LoggedInv
  <2>5. \A q \in Requests : SeenInv(q)'
    <3>1. \A q \in Requests : q # r => SeenInv(q)'
      BY <2>1, <2>2, Frame, SeenKept DEF KeyLogInv, TypeInv
    <3>2. SeenInv(r)'
      BY <2>1, <2>2, SeenStep DEF KeyLogInv
    <3> QED BY <3>1, <3>2
  <2> QED BY <1>1, <2>3, <2>4, <2>5 DEF KeyLogInv
<1>4. CASE Restart /\ faults' # 0
  <2>1. audit' = audit
    BY <1>4 DEF Restart
  <2>2. \A e \in audit' : EventInv(e)'
    BY <1>4, <2>1, EventsRestart
  <2>3. \A q \in Requests : LoggedInv(q)' /\ SeenInv(q)'
    <3> SUFFICES ASSUME NEW q \in Requests PROVE LoggedInv(q)' /\ SeenInv(q)'
      OBVIOUS
    <3>1. pc'[q] \notin {"revoke", "audit"}
      BY <1>4 DEF Restart, TypeInv, TypeOK
    <3> QED BY <1>4, <3>1 DEF LoggedInv, SeenInv
  <2> QED BY <1>1, <2>2, <2>3 DEF KeyLogInv
<1>5. CASE Ambient /\ faults' = faults
  <2>1. keys' = keys /\ StoreStep /\ audit' = audit /\ \A q \in Requests : SameLocal(q)
    BY <1>5, AmbientFrame DEF Ambient, Tick, RotateSigning, vars
  <2>2. \A e \in audit' : EventInv(e)'
    <3> SUFFICES ASSUME NEW e \in audit PROVE EventInv(e)'
      BY <2>1
    <3>1. EventInv(e)
      BY DEF KeyLogInv
    <3>2. identity'[e.by] = identity[e.by] /\ pc'[e.by] # "idle"
      BY <2>1, <3>1 DEF EventInv, SameLocal
    <3> QED BY <1>5, <2>1, <3>1, <3>2, EventKept
  <2>3. \A q \in Requests : SeenInv(q)'
    BY <1>5, <2>1, SeenKept DEF KeyLogInv
  <2>4. \A q \in Requests : LoggedInv(q)'
    BY <1>5, <2>1 DEF KeyLogInv, LoggedInv, EventOf, LogsRevocation, SameLocal
  <2> QED BY <1>1, <2>2, <2>3, <2>4 DEF KeyLogInv
<1> QED BY <1>2, <1>3, <1>4, <1>5, CountedSteps

\* The log tells what happened to keys: revoke_key reads the key for its event
\* an await before it revokes and logs another await later, and the event is
\* still about that key's grant, written by an administrator; unless a call
\* failed or the process stopped, no key was made or revoked unlogged.
THEOREM KeyAuditHolds == Spec => []AuditTellsKeys
<1>1. Init => KeyLogInv
  BY DEF Init, KeyLogInv, RevokeInv, IdentityInv, SeenInv, LoggedInv, Inside
<1>2. KeyLogInv => AuditTellsKeys
  <2> SUFFICES ASSUME KeyLogInv PROVE AuditTellsKeys
    OBVIOUS
  <2>1. \A e \in audit :
          /\ identity[e.by].role = "admin"
          /\ faults = 0 => e.role # None
          /\ keys[e.key] # None =>
               /\ e.action = "delete" => keys[e.key].revoked_at # None
               /\ e.role # None => e.project = keys[e.key].grant.project
                                    /\ e.role = keys[e.key].grant.role
    BY DEF KeyLogInv, EventInv, Dead
  <2>2. \A k \in Requests : (faults = 0 /\ keys[k] # None) =>
          /\ EventOf("create", k) \/ (pc[k] = "audit" /\ task[k] = "create")
          /\ keys[k].revoked_at # None =>
               \/ EventOf("delete", k)
               \/ \E r \in Requests : pc[r] = "audit" /\ task[r] = "revoke" /\ call[r].key = k
    BY DEF KeyLogInv, LoggedInv, LogsRevocation
  <2> QED BY <2>1, <2>2 DEF AuditTellsKeys
<1> QED BY <1>1, <1>2, KeyLogNext, InitType, TypeInvStep, PTL DEF Spec

=============================================================================
