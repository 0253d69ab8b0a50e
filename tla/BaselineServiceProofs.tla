------------------------ MODULE BaselineServiceProofs ------------------------
(***************************************************************************)
(* Machine-checked proofs about BaselineService, for any number of         *)
(* requests, versions and receipts and for both kinds of store.            *)
(***************************************************************************)
EXTENDS BaselineService, TLAPS

\* Option::None is no record, no call, no receipt and no version: the
\* assumption in the form the steps below use.
LEMMA NoneIsNothing ==
  /\ \A x \in Record : x # None
  /\ \A c \in Call : c # None
  /\ \A rc \in Receipts : rc # None
BY NoneAssumption

\* A soft delete sets one field of a record.
LEMMA MarkedRecord ==
  ASSUME NEW x \in Record
  PROVE  LET y == [x EXCEPT !.deleted = TRUE]
         IN  /\ y \in Record /\ y.id = x.id /\ y.receipt = x.receipt
             /\ y.created_at = x.created_at /\ y.deleted
BY DEF Record

\* A fresh record is its request's own and not deleted.
LEMMA FreshRecord ==
  ASSUME NEW r \in Requests, NEW rc \in Receipts, NEW src \in {"upload", "promote"},
         clock \in Nat
  PROVE  LET x == NewRecord(r, rc, src)
         IN  x \in Record /\ x.id = r /\ x.receipt = rc /\ ~x.deleted
BY DEF NewRecord, Record

\* What a stored record keeps in every step but the loss of a volatile store:
\* its identity, receipt and stamp; a soft delete is never undone.
StoreKeeps ==
  \A v \in Versions :
    baselines[v] # None =>
      /\ baselines'[v] # None
      /\ baselines'[v].id = baselines[v].id
      /\ baselines'[v].receipt = baselines[v].receipt
      /\ baselines'[v].created_at = baselines[v].created_at
      /\ baselines[v].deleted => baselines'[v].deleted

-----------------------------------------------------------------------------
(* Type correctness.  A handler's local state is typed by where it is. *)

TypeInv == TypeOK /\ StepMatchesOp /\ DraftIsOwn

LEMMA InitType == Init => TypeInv
BY DEF Init, TypeInv, TypeOK, StepMatchesOp, DraftIsOwn, PCs, Statuses

\* Receiving a request: check_scope refuses it or the handler starts.
LEMMA ReceiveType ==
  ASSUME TypeInv, NEW r \in Requests, Receive(r)
  PROVE  TypeInv'
<1>1. PICK c \in Call, role \in Roles :
        WellFormed(c) /\ (Reject(r, c, role) \/ Accept(r, c, role))
  BY DEF Receive
<1>2. CASE Reject(r, c, role)
  <2>1. TypeOK'
    BY <1>2 DEF TypeInv, TypeOK, Reject, Respond, PCs, Statuses
  <2>2. StepMatchesOp' /\ DraftIsOwn'
    BY <1>2 DEF TypeInv, TypeOK, StepMatchesOp, DraftIsOwn, Reject, Respond
  <2> QED BY <2>1, <2>2 DEF TypeInv
<1>3. CASE Accept(r, c, role)
  <2>1. c.op \in Ops /\ FirstStep[c.op] \in {"create", "source", "delete", "read"}
    BY DEF Call, Ops, FirstStep
  <2>2. draft'[r] \in Record \cup {None}
        /\ (c.op = "upload" => draft'[r] \in Record /\ draft'[r].id = r /\ ~draft'[r].deleted)
    <3>1. CASE c.op = "upload"
      <4>1. c.receipt \in Receipts
        BY <1>1, <3>1 DEF WellFormed, Call
      <4>2. draft'[r] = NewRecord(r, c.receipt, "upload")
        BY <1>3, <3>1 DEF Accept, TypeInv, TypeOK
      <4> QED BY <4>1, <4>2 DEF NewRecord, Record, TypeInv, TypeOK
    <3>2. CASE c.op # "upload"
      BY <1>3, <3>2 DEF Accept, TypeInv, TypeOK
    <3> QED BY <3>1, <3>2
  <2>3. TypeOK'
    <3>1. draft' \in [Requests -> Record \cup {None}]
      BY <1>3, <2>2 DEF Accept, TypeInv, TypeOK
    <3> QED BY <1>3, <2>1, <3>1 DEF TypeInv, TypeOK, Accept, Goto, PCs
  <2>4. StepMatchesOp'
    BY <1>3, <2>1 DEF TypeInv, TypeOK, StepMatchesOp, Accept, Goto, Ops, FirstStep
  <2>5. DraftIsOwn'
    BY <1>3, <2>1, <2>2 DEF TypeInv, TypeOK, DraftIsOwn, Accept, Goto, Ops, FirstStep
  <2> QED BY <2>3, <2>4, <2>5 DEF TypeInv
<1> QED BY <1>1, <1>2, <1>3

\* A soft delete keeps the table typed and changes the deleted flag only.
LEMMA MarkTyped ==
  ASSUME TypeOK, NEW r \in Requests, call[r].version \in Versions, MarkDeleted(r)
  PROVE  /\ baselines' \in [Versions -> Record \cup {None}]
         /\ StoreKeeps
<1>1. baselines[call[r].version] \in Record
  BY DEF MarkDeleted, IsLive, TypeOK
<1>2. baselines' = [baselines EXCEPT ![call[r].version] =
                      [baselines[call[r].version] EXCEPT !.deleted = TRUE]]
  BY DEF MarkDeleted
<1> QED BY <1>1, <1>2, MarkedRecord, NoneIsNothing DEF TypeOK, StoreKeeps

\* The steps of a handler, its failures, the clock and a crash.
LEMMA HandleType ==
  ASSUME TypeInv, NEW r \in Requests, Handle(r) \/ AuditFails(r) \/ StorageFails(r)
  PROVE  TypeInv'
<1> USE DEF TypeInv
<1>1. CASE PromoteSource(r)
  <2>1. call[r].from \in Versions
    BY <1>1 DEF PromoteSource, StepMatchesOp, Call
  <2>2. Get(call[r].from) \in Record \cup {None}
    BY <2>1 DEF Get, TypeOK
  <2>3. TypeOK'
    BY <1>1, <2>2 DEF PromoteSource, Respond, Goto, TypeOK, PCs, Statuses
  <2>4. StepMatchesOp' /\ DraftIsOwn'
    BY <1>1, <2>2 DEF PromoteSource, Respond, Goto, TypeOK, StepMatchesOp, DraftIsOwn
  <2> QED BY <2>3, <2>4
<1>2. CASE PromoteTarget(r)
  <2> DEFINE x == NewRecord(r, draft[r].receipt, "promote")
  <2>0. draft[r].receipt \in Receipts /\ clock \in Nat
    BY <1>2 DEF PromoteTarget, DraftIsOwn, Record, TypeOK
  <2>1. x \in Record /\ x.id = r /\ ~x.deleted
    BY <2>0, FreshRecord
  <2> HIDE DEF x
  <2>2. TypeOK'
    BY <1>2, <2>1 DEF PromoteTarget, Respond, Goto, TypeOK, PCs, Statuses, x
  <2>3. StepMatchesOp'
    BY <1>2 DEF PromoteTarget, Respond, Goto, TypeOK, StepMatchesOp
  <2>4. DraftIsOwn'
    <3> SUFFICES ASSUME NEW q \in Requests
                 PROVE  /\ pc'[q] \in {"target", "create"} => draft'[q] \in Record
                        /\ pc'[q] = "create" => draft'[q].id = q /\ ~draft'[q].deleted
      BY DEF DraftIsOwn
    <3>1. CASE IsLive(call[r].version)
      BY <1>2, <3>1 DEF PromoteTarget, Respond, TypeOK, DraftIsOwn
    <3>2. CASE ~IsLive(call[r].version)
      <4>1. draft' = [draft EXCEPT ![r] = x] /\ pc' = [pc EXCEPT ![r] = "create"]
        BY <1>2, <3>2 DEF PromoteTarget, Goto, x
      <4>2. CASE q = r
        BY <4>1, <4>2, <2>1 DEF TypeOK
      <4>3. CASE q # r
        BY <4>1, <4>3 DEF TypeOK, DraftIsOwn
      <4> QED BY <4>2, <4>3
    <3> QED BY <3>1, <3>2
  <2> QED BY <2>2, <2>3, <2>4
<1>3. CASE Create(r)
  <2>1. TypeOK'
    BY <1>3 DEF Create, InsertRecord, Respond, Goto, TypeOK, DraftIsOwn, PCs, Statuses
  <2>2. StepMatchesOp' /\ DraftIsOwn'
    BY <1>3 DEF Create, Respond, Goto, TypeOK, StepMatchesOp, DraftIsOwn
  <2> QED BY <2>1, <2>2
<1>4. CASE Delete(r)
  <2>1. call[r].version \in Versions
    BY <1>4 DEF Delete, StepMatchesOp, Call
  <2>2. baselines' \in [Versions -> Record \cup {None}]
    BY <1>4, <2>1, MarkTyped DEF Delete, TypeOK
  <2>3. TypeOK'
    BY <1>4, <2>2 DEF Delete, Respond, Goto, TypeOK, PCs, Statuses
  <2>4. StepMatchesOp' /\ DraftIsOwn'
    BY <1>4 DEF Delete, Respond, Goto, TypeOK, StepMatchesOp, DraftIsOwn
  <2> QED BY <2>3, <2>4
<1>5. CASE Read(r)
  <2>1. \A v \in LiveVersions : baselines[v] \in Record
    BY DEF LiveVersions, IsLive, TypeOK
  <2>2. LatestVersions \subseteq LiveVersions
    BY DEF LatestVersions
  <2>3. TypeOK'
    BY <1>5, <2>1, <2>2 DEF Read, Respond, TypeOK, PCs, Statuses
  <2>4. StepMatchesOp' /\ DraftIsOwn'
    BY <1>5 DEF Read, Respond, TypeOK, StepMatchesOp, DraftIsOwn
  <2> QED BY <2>3, <2>4
<1>6. CASE EmitAudit(r)
  <2>1. /\ AuditAction[call[r].op] \in {"create", "promote", "delete"}
        /\ call[r].version \in Versions /\ call[r].from \in Versions
        /\ SuccessStatus(call[r].op) \in Statuses
        /\ SuccessStatus(call[r].op) = 201 => call[r].op \in {"upload", "promote"}
    BY <1>6 DEF EmitAudit, StepMatchesOp, Call, AuditAction, SuccessStatus, Statuses
  <2>2. TypeOK'
    BY <1>6, <2>1 DEF EmitAudit, Respond, TypeOK, AuditEvent, PCs
  <2>3. StepMatchesOp' /\ DraftIsOwn'
    BY <1>6, <2>1 DEF EmitAudit, Respond, TypeOK, StepMatchesOp, DraftIsOwn
  <2> QED BY <2>2, <2>3
<1>7. CASE AuditFails(r)
  <2>1. /\ SuccessStatus(call[r].op) \in Statuses
        /\ SuccessStatus(call[r].op) = 201 => call[r].op \in {"upload", "promote"}
    BY <1>7 DEF AuditFails, StepMatchesOp, SuccessStatus, Statuses
  <2>2. TypeOK'
    BY <1>7, <2>1 DEF AuditFails, Respond, TypeOK, PCs
  <2>3. StepMatchesOp' /\ DraftIsOwn'
    BY <1>7, <2>1 DEF AuditFails, Respond, TypeOK, StepMatchesOp, DraftIsOwn
  <2> QED BY <2>2, <2>3
<1>8. CASE StorageFails(r)
  <2>0. baselines' \in [Versions -> Record \cup {None}]
    <3>1. CASE UNCHANGED baselines
      BY <3>1 DEF TypeOK
    <3>2. CASE pc[r] = "create" /\ InsertRecord(r)
      BY <3>2 DEF InsertRecord, TypeOK, DraftIsOwn
    <3>3. CASE pc[r] = "delete" /\ MarkDeleted(r)
      <4>1. call[r].version \in Versions
        BY <3>3 DEF StepMatchesOp, Call
      <4> QED BY <3>3, <4>1, MarkTyped
    <3> QED BY <1>8, <3>1, <3>2, <3>3 DEF StorageFails
  <2>1. TypeOK'
    BY <1>8, <2>0 DEF StorageFails, Respond, TypeOK, PCs, Statuses
  <2>2. StepMatchesOp' /\ DraftIsOwn'
    BY <1>8 DEF StorageFails, Respond, TypeOK, StepMatchesOp, DraftIsOwn
  <2> QED BY <2>1, <2>2
<1> QED BY <1>1, <1>2, <1>3, <1>4, <1>5, <1>6, <1>7, <1>8 DEF Handle

LEMMA NextType == TypeInv /\ [Next]_vars => TypeInv'
<1> SUFFICES ASSUME TypeInv, [Next]_vars PROVE TypeInv'
  OBVIOUS
<1>1. ASSUME NEW r \in Requests,
             Receive(r) \/ Handle(r) \/ AuditFails(r) \/ StorageFails(r)
      PROVE  TypeInv'
  BY <1>1, ReceiveType, HandleType
<1>2. CASE Tick
  BY <1>2 DEF Tick, TypeInv, TypeOK, StepMatchesOp, DraftIsOwn
<1>3. CASE Crash
  <2>1. TypeOK'
    BY <1>3, DurableAssumption DEF Crash, TypeInv, TypeOK, PCs
  <2>2. StepMatchesOp' /\ DraftIsOwn'
    BY <1>3 DEF Crash, TypeInv, TypeOK, StepMatchesOp, DraftIsOwn
  <2> QED BY <2>1, <2>2 DEF TypeInv
<1>4. CASE UNCHANGED vars
  BY <1>4 DEF vars, TypeInv, TypeOK, StepMatchesOp, DraftIsOwn
<1> QED BY <1>1, <1>2, <1>3, <1>4 DEF Next

\* Type correctness: every variable of the handlers keeps its type, including
\* the record a promotion builds from what it read two awaits earlier.
THEOREM TypeCorrect == Spec => []TypeOK
<1>1. Spec => []TypeInv
  BY InitType, NextType, PTL DEF Spec
<1>2. TypeInv => TypeOK
  BY DEF TypeInv
<1> QED BY <1>1, <1>2, PTL

-----------------------------------------------------------------------------
(* Safety.  A step of one handler leaves the others where they are, and no   *)
(* step takes anything away from the store; what is left to prove is what    *)
(* the handler that moves has established.                                   *)

Step(r) == Receive(r) \/ Handle(r) \/ AuditFails(r) \/ StorageFails(r)

Others(r) ==
  \A q \in Requests \ {r} :
    /\ pc'[q] = pc[q] /\ call'[q] = call[q]
    /\ draft'[q] = draft[q] /\ reply'[q] = reply[q]

LEMMA StepFrame ==
  ASSUME TypeOK, NEW r \in Requests, Step(r)
  PROVE  Others(r)
<1>1. CASE Receive(r)
  BY <1>1 DEF Receive, Reject, Accept, Respond, Goto, Others, TypeOK
<1>2. CASE PromoteSource(r) \/ PromoteTarget(r) \/ Create(r)
  BY <1>2 DEF PromoteSource, PromoteTarget, Create, Respond, Goto, Others, TypeOK
<1>3. CASE Delete(r) \/ Read(r)
  BY <1>3 DEF Delete, Read, Respond, Goto, Others, TypeOK
<1>4. CASE EmitAudit(r) \/ AuditFails(r) \/ StorageFails(r)
  BY <1>4 DEF EmitAudit, AuditFails, StorageFails, Respond, Others, TypeOK
<1> QED BY <1>1, <1>2, <1>3, <1>4 DEF Step, Handle

\* The only writes to the store: an insert by a create, a mark by a delete,
\* each acknowledged or not.
LEMMA StoreSteps ==
  ASSUME NEW r \in Requests, Step(r)
  PROVE  \/ pc[r] = "create" /\ InsertRecord(r)
         \/ pc[r] = "delete" /\ MarkDeleted(r)
         \/ UNCHANGED baselines
BY DEF Step, Receive, Reject, Accept, Handle, PromoteSource, PromoteTarget,
       Create, Delete, Read, EmitAudit, AuditFails, StorageFails

LEMMA StepKeeps ==
  ASSUME TypeInv, NEW r \in Requests, Step(r)
  PROVE  StoreKeeps
<1> USE DEF TypeInv
<1>1. CASE pc[r] = "create" /\ InsertRecord(r)
  BY <1>1 DEF InsertRecord, StoreKeeps, TypeOK
<1>2. CASE pc[r] = "delete" /\ MarkDeleted(r)
  <2>1. call[r].version \in Versions
    BY <1>2 DEF StepMatchesOp, Call
  <2> QED BY <1>2, <2>1, MarkTyped
<1>3. CASE UNCHANGED baselines
  BY <1>3 DEF StoreKeeps
<1> QED BY <1>1, <1>2, <1>3, StoreSteps

\* A promotion's draft agrees with its source from the moment it is read.
LEMMA StepDraft ==
  ASSUME IndInv, NEW r \in Requests, Step(r)
  PROVE  DraftFromSource'
<1>0. TypeInv /\ TypeInv' /\ StoreKeeps /\ Others(r)
  BY StepKeeps, StepFrame, ReceiveType, HandleType DEF IndInv, TypeInv, Step
<1> SUFFICES ASSUME NEW q \in Requests,
                    pc'[q] \in {"target", "create"}, call'[q].op = "promote"
             PROVE  /\ baselines'[call'[q].from] # None
                    /\ draft'[q].receipt = baselines'[call'[q].from].receipt
  BY DEF DraftFromSource
<1>1. call'[q].from \in Versions
  BY <1>0 DEF TypeInv, StepMatchesOp, Call
<1>2. CASE q # r
  BY <1>0, <1>1, <1>2 DEF Others, StoreKeeps, IndInv, DraftFromSource
<1>3. CASE q = r
  <2>1. CASE Receive(r)
    BY <1>0, <1>3, <2>1
       DEF Receive, Reject, Accept, Respond, Goto, FirstStep, Call, Ops, TypeInv, TypeOK
  <2>2. CASE PromoteSource(r)
    BY <1>0, <1>1, <1>3, <2>2
       DEF PromoteSource, Get, IsLive, Respond, Goto, TypeInv, TypeOK
  <2>3. CASE PromoteTarget(r)
    BY <1>0, <1>1, <1>3, <2>3
       DEF PromoteTarget, NewRecord, Respond, Goto, TypeInv, TypeOK, IndInv, DraftFromSource
  <2>4. CASE Create(r) \/ Delete(r)
    BY <1>0, <1>3, <2>4 DEF Create, Delete, Respond, Goto, TypeInv, TypeOK
  <2>5. CASE Read(r)
    BY <1>0, <1>3, <2>5 DEF Read, Respond, TypeInv, TypeOK
  <2>6. CASE EmitAudit(r) \/ AuditFails(r) \/ StorageFails(r)
    BY <1>0, <1>3, <2>6 DEF EmitAudit, AuditFails, StorageFails, Respond, TypeInv, TypeOK
  <2> QED BY <2>1, <2>2, <2>3, <2>4, <2>5, <2>6 DEF Step, Handle
<1> QED BY <1>2, <1>3

\* What the store answered still holds when the audit event is written.
LEMMA StepEffect ==
  ASSUME IndInv, NEW r \in Requests, Step(r)
  PROVE  EffectStands'
<1>0. TypeInv /\ TypeInv' /\ StoreKeeps /\ Others(r)
  BY StepKeeps, StepFrame, ReceiveType, HandleType DEF IndInv, TypeInv, Step
<1> SUFFICES ASSUME NEW q \in Requests, pc'[q] = "audit"
             PROVE  LET v == call'[q].version
                        f == call'[q].from
                        op == call'[q].op
                    IN  /\ baselines'[v] # None
                        /\ op \in {"upload", "promote"} => baselines'[v].id = q
                        /\ op = "delete" => baselines'[v].deleted
                        /\ op = "promote" =>
                             /\ baselines'[f] # None
                             /\ baselines'[v].receipt = baselines'[f].receipt
  BY DEF EffectStands
<1>1. call'[q].from \in Versions /\ call'[q].version \in Versions
  BY <1>0 DEF TypeInv, StepMatchesOp, Call
<1>2. CASE q # r
  <2>1. pc[q] = "audit" /\ call[q] = call'[q]
    BY <1>0, <1>2 DEF Others
  <2> QED BY <1>0, <1>1, <2>1 DEF StoreKeeps, IndInv, EffectStands
<1>3. CASE q = r
  <2>1. CASE Create(r)
    <3>1. /\ baselines' = [baselines EXCEPT ![call[r].version] = draft[r]]
          /\ baselines[call[r].version] = None /\ call' = call
      BY <1>0, <1>3, <2>1 DEF Create, InsertRecord, Respond, Goto, TypeInv, TypeOK
    <3>2. draft[r] \in Record /\ draft[r].id = r /\ call[r].op \in {"upload", "promote"}
      BY <1>0, <2>1 DEF Create, TypeInv, DraftIsOwn, StepMatchesOp
    <3>3. baselines'[call[r].version] = draft[r] /\ draft[r] # None
      BY <1>0, <1>1, <1>3, <3>1, <3>2, NoneIsNothing DEF TypeInv, TypeOK
    <3>4. CASE call[r].op = "promote"
      <4>1. /\ baselines[call[r].from] # None
            /\ draft[r].receipt = baselines[call[r].from].receipt
        BY <2>1, <3>4 DEF Create, IndInv, DraftFromSource
      <4> QED BY <1>0, <1>1, <1>3, <3>1, <3>2, <3>3, <3>4, <4>1 DEF StoreKeeps
    <3>5. CASE call[r].op = "upload"
      BY <1>3, <3>1, <3>2, <3>3, <3>5
    <3> QED BY <3>2, <3>4, <3>5
  <2>2. CASE Delete(r)
    <3>1. /\ IsLive(call[r].version) /\ call' = call
          /\ baselines' = [baselines EXCEPT ![call[r].version] =
                             [baselines[call[r].version] EXCEPT !.deleted = TRUE]]
      BY <1>0, <1>3, <2>2 DEF Delete, MarkDeleted, Respond, Goto, TypeInv, TypeOK
    <3>2. call[r].op = "delete"
      BY <1>0, <2>2 DEF Delete, TypeInv, StepMatchesOp
    <3>3. baselines[call[r].version] \in Record
      BY <1>0, <1>1, <1>3, <3>1 DEF IsLive, TypeInv, TypeOK
    <3> QED BY <1>0, <1>1, <1>3, <3>1, <3>2, <3>3, MarkedRecord, NoneIsNothing
            DEF TypeInv, TypeOK
  <2>3. CASE Receive(r)
    BY <1>0, <1>3, <2>3
       DEF Receive, Reject, Accept, Respond, Goto, FirstStep, Call, Ops, TypeInv, TypeOK
  <2>4. CASE PromoteSource(r) \/ PromoteTarget(r) \/ Read(r)
    BY <1>0, <1>3, <2>4 DEF PromoteSource, PromoteTarget, Read, Respond, Goto, TypeInv, TypeOK
  <2>5. CASE EmitAudit(r) \/ AuditFails(r) \/ StorageFails(r)
    BY <1>0, <1>3, <2>5 DEF EmitAudit, AuditFails, StorageFails, Respond, TypeInv, TypeOK
  <2> QED BY <2>1, <2>2, <2>3, <2>4, <2>5 DEF Step, Handle
<1> QED BY <1>2, <1>3

\* The audit log only gains the event of a handler whose effect stands.
LEMMA StepAudit ==
  ASSUME IndInv, NEW r \in Requests, Step(r)
  PROVE  AuditMatchesStore' /\ PromotionCopiesSource'
<1>0. TypeInv /\ StoreKeeps
  BY StepKeeps DEF IndInv, TypeInv
<1> SUFFICES ASSUME NEW e \in audit'
             PROVE  /\ baselines'[e.version] # None
                    /\ e.action \in {"create", "promote"} => baselines'[e.version].id = e.req
                    /\ e.action = "delete" => baselines'[e.version].deleted
                    /\ e.action = "promote" =>
                         /\ baselines'[e.from] # None
                         /\ baselines'[e.version].receipt = baselines'[e.from].receipt
  BY DEF AuditMatchesStore, PromotionCopiesSource
<1>1. CASE e \in audit
  <2>1. e.version \in Versions /\ e.from \in Versions
    BY <1>0, <1>1 DEF TypeInv, TypeOK, AuditEvent
  <2>2. /\ baselines[e.version] # None
        /\ e.action \in {"create", "promote"} => baselines[e.version].id = e.req
        /\ e.action = "delete" => baselines[e.version].deleted
        /\ e.action = "promote" =>
             /\ baselines[e.from] # None
             /\ baselines[e.version].receipt = baselines[e.from].receipt
    BY <1>1 DEF IndInv, AuditMatchesStore, PromotionCopiesSource
  <2> QED BY <1>0, <2>1, <2>2 DEF StoreKeeps
<1>2. CASE e \notin audit
  <2>1. EmitAudit(r)
    BY <1>2 DEF Step, Receive, Reject, Accept, Handle, PromoteSource, PromoteTarget,
                Create, Delete, Read, AuditFails, StorageFails
  <2>2. /\ pc[r] = "audit" /\ baselines' = baselines
        /\ e = [req |-> r, action |-> AuditAction[call[r].op],
                version |-> call[r].version, from |-> call[r].from]
    BY <1>2, <2>1 DEF EmitAudit
  <2>3. call[r].op \in {"upload", "promote", "delete"}
    BY <1>0, <2>2 DEF TypeInv, StepMatchesOp
  <2>4. /\ baselines[call[r].version] # None
        /\ call[r].op \in {"upload", "promote"} => baselines[call[r].version].id = r
        /\ call[r].op = "delete" => baselines[call[r].version].deleted
        /\ call[r].op = "promote" =>
             /\ baselines[call[r].from] # None
             /\ baselines[call[r].version].receipt = baselines[call[r].from].receipt
    BY <2>2 DEF IndInv, EffectStands
  <2>5. e.version = call[r].version /\ e.from = call[r].from /\ e.req = r
    BY <2>2
  <2>6. CASE call[r].op = "upload"
    <3>1. e.action = "create"
      BY <2>2, <2>6 DEF AuditAction
    <3> QED BY <2>2, <2>4, <2>5, <2>6, <3>1
  <2>7. CASE call[r].op = "promote"
    <3>1. e.action = "promote"
      BY <2>2, <2>7 DEF AuditAction
    <3> QED BY <2>2, <2>4, <2>5, <2>7, <3>1
  <2>8. CASE call[r].op = "delete"
    <3>1. e.action = "delete"
      BY <2>2, <2>8 DEF AuditAction
    <3> QED BY <2>2, <2>4, <2>5, <2>8, <3>1
  <2> QED BY <2>3, <2>6, <2>7, <2>8
<1> QED BY <1>1, <1>2

\* A 201 is sent only from the audit step, whose effect stands.
LEMMA StepAcknowledged ==
  ASSUME IndInv, NEW r \in Requests, Step(r)
  PROVE  AcknowledgedIsStored'
<1>0. TypeInv /\ TypeInv' /\ StoreKeeps /\ Others(r)
  BY StepKeeps, StepFrame, ReceiveType, HandleType DEF IndInv, TypeInv, Step
<1> SUFFICES ASSUME Durable, NEW q \in Requests, reply'[q] = 201
             PROVE  /\ baselines'[call'[q].version] # None
                    /\ baselines'[call'[q].version].id = q
  BY DEF AcknowledgedIsStored
<1>1. call'[q].version \in Versions
  BY <1>0 DEF TypeInv, StepMatchesOp, Call
<1>2. CASE reply[q] = 201 /\ call'[q] = call[q]
  BY <1>0, <1>1, <1>2 DEF StoreKeeps, IndInv, AcknowledgedIsStored
<1>3. CASE reply[q] # 201 \/ call'[q] # call[q]
  <2>1. q = r
    BY <1>0, <1>3 DEF Others
  <2>2. ~Receive(r)
    BY <1>0, <2>1 DEF Receive, Reject, Accept, Respond, Goto, TypeInv, TypeOK, StepMatchesOp
  <2>3. call' = call
    BY <2>2 DEF Step, Handle, PromoteSource, PromoteTarget, Create, Delete, Read,
                EmitAudit, AuditFails, StorageFails
  <2>4. EmitAudit(r) \/ AuditFails(r)
    BY <1>0, <1>3, <2>1, <2>2, <2>3
       DEF Step, Handle, PromoteSource, PromoteTarget, Create, Delete, Read,
           StorageFails, Respond, Goto, TypeInv, TypeOK
  <2>5. pc[r] = "audit" /\ baselines' = baselines
    BY <2>4 DEF EmitAudit, AuditFails
  <2>6. call[r].op \in {"upload", "promote"}
    BY <1>0, <2>1, <2>3 DEF TypeInv, StepMatchesOp
  <2> QED BY <2>1, <2>3, <2>5, <2>6 DEF IndInv, EffectStands
<1> QED BY <1>2, <1>3

LEMMA InitInd == Init => IndInv
BY InitType DEF Init, TypeInv, IndInv, DraftFromSource, EffectStands, AuditMatchesStore,
                PromotionCopiesSource, AcknowledgedIsStored

\* The process dies: in-flight handlers are gone, so nothing in the invariant
\* speaks of them any more; a volatile store and its log are emptied together.
LEMMA CrashInd ==
  ASSUME IndInv, Crash
  PROVE  IndInv'
<1>1. TypeInv'
  BY NextType DEF IndInv, TypeInv, Next
<1>2. DraftFromSource' /\ EffectStands'
  BY DEF Crash, IndInv, TypeOK, DraftFromSource, EffectStands
<1>3. AuditMatchesStore' /\ PromotionCopiesSource' /\ AcknowledgedIsStored'
  <2>1. CASE Durable
    BY <2>1 DEF Crash, IndInv, AuditMatchesStore, PromotionCopiesSource, AcknowledgedIsStored
  <2>2. CASE ~Durable
    BY <2>2 DEF Crash, AuditMatchesStore, PromotionCopiesSource, AcknowledgedIsStored
  <2> QED BY <2>1, <2>2
<1> QED BY <1>1, <1>2, <1>3 DEF IndInv, TypeInv

LEMMA NextInd == IndInv /\ [Next]_vars => IndInv'
<1> SUFFICES ASSUME IndInv, [Next]_vars PROVE IndInv'
  OBVIOUS
<1>0. TypeInv'
  BY NextType DEF IndInv, TypeInv
<1>1. ASSUME NEW r \in Requests, Step(r) PROVE IndInv'
  BY <1>0, <1>1, StepDraft, StepEffect, StepAudit, StepAcknowledged DEF IndInv, TypeInv
<1>2. CASE Tick
  BY <1>0, <1>2 DEF Tick, IndInv, TypeInv, DraftFromSource, EffectStands,
                    AuditMatchesStore, PromotionCopiesSource, AcknowledgedIsStored
<1>3. CASE Crash
  BY <1>3, CrashInd
<1>4. CASE UNCHANGED vars
  BY <1>0, <1>4 DEF vars, IndInv, TypeInv, DraftFromSource, EffectStands,
                    AuditMatchesStore, PromotionCopiesSource, AcknowledgedIsStored
<1> QED BY <1>1, <1>2, <1>3, <1>4 DEF Next, Step

\* The inductive invariant holds in every reachable state.
THEOREM Inductive == Spec => []IndInv
BY InitInd, NextInd, PTL DEF Spec

\* Every audit event names the record really stored, whoever won the race.
THEOREM AuditIsTruthful == Spec => []AuditMatchesStore
<1>1. IndInv => AuditMatchesStore
  BY DEF IndInv
<1> QED BY <1>1, Inductive, PTL

\* An audited promotion and its source carry the same receipt although the
\* receipt was read two awaits before it was stored.
THEOREM PromotionIsFaithful == Spec => []PromotionCopiesSource
<1>1. IndInv => PromotionCopiesSource
  BY DEF IndInv
<1> QED BY <1>1, Inductive, PTL

\* On a durable store an acknowledged version holds the acknowledged record.
THEOREM AcknowledgedDurable == Spec => []AcknowledgedIsStored
<1>1. IndInv => AcknowledgedIsStored
  BY DEF IndInv
<1> QED BY <1>1, Inductive, PTL

-----------------------------------------------------------------------------
(* Completeness of the log over the in-memory store.  AuditComplete is not   *)
(* inductive: it says nothing of a record whose request is still on its way  *)
(* to the log.                                                               *)

Logged(r, v) ==
  \E e \in audit : e.req = r /\ e.version = v /\ e.action \in {"create", "promote"}

\* The request that stored a record is either about to log it or has done so.
Accounted ==
  ~Durable =>
    \A v \in Versions :
      baselines[v] # None =>
        LET r == baselines[v].id IN
          \/ pc[r] = "audit" /\ call[r].op \in {"upload", "promote"} /\ call[r].version = v
          \/ pc[r] = "done" /\ Logged(r, v)

\* No step of a handler takes an event out of the log.
LEMMA LogGrows ==
  ASSUME NEW r \in Requests, Step(r)
  PROVE  audit \subseteq audit'
BY DEF Step, Receive, Reject, Accept, Handle, PromoteSource, PromoteTarget,
       Create, Delete, Read, EmitAudit, AuditFails, StorageFails

\* A record is accounted for after a step of its own request, which can only
\* be the one that logs it, and after a step of any other, which can insert or
\* mark a record but leaves the request that stored it where it is.
LEMMA StepAccounted ==
  ASSUME TypeInv, Accounted, NEW r \in Requests, Step(r), ~Durable
  PROVE  Accounted'
<1>0. StoreKeeps /\ Others(r) /\ audit \subseteq audit' /\ TypeOK /\ StepMatchesOp /\ DraftIsOwn
  BY StepKeeps, StepFrame, LogGrows DEF TypeInv
<1>a. \A v \in Versions : baselines'[v] # None => baselines'[v].id \in Requests
  BY ReceiveType, HandleType DEF Step, TypeInv, TypeOK, Record
<1> SUFFICES ASSUME NEW v \in Versions, baselines'[v] # None,
                    NEW q \in Requests, q = baselines'[v].id
             PROVE  \/ /\ pc'[q] = "audit" /\ call'[q].op \in {"upload", "promote"}
                       /\ call'[q].version = v
                    \/ pc'[q] = "done" /\ Logged(q, v)'
  BY <1>a DEF Accounted, Logged
<1>1. CASE baselines[v] # None
  <2>1. baselines[v].id = q
    BY <1>0, <1>1 DEF StoreKeeps
  <2>2. \/ pc[q] = "audit" /\ call[q].op \in {"upload", "promote"} /\ call[q].version = v
        \/ pc[q] = "done" /\ Logged(q, v)
    BY <1>1, <2>1 DEF Accounted, Logged
  <2>3. Logged(q, v) => Logged(q, v)'
    BY <1>0 DEF Logged
  <2>4. CASE q # r
    BY <1>0, <2>1, <2>2, <2>3, <2>4 DEF Others
  <2>5. CASE q = r
    <3>0. EmitAudit(r)
      BY <2>2, <2>5 DEF Step, Receive, Reject, Accept, Handle, PromoteSource, PromoteTarget,
                        Create, Delete, Read, AuditFails, StorageFails
    <3>1. pc[r] = "audit" /\ EmitAudit(r)
      BY <3>0 DEF EmitAudit
    <3>2. call[r].op \in {"upload", "promote"} /\ call[r].version = v
      BY <2>2, <2>5, <3>1
    <3>3. pc'[r] = "done"
      BY <1>0, <3>1 DEF EmitAudit, Respond, TypeOK
    <3>4. AuditAction[call[r].op] \in {"create", "promote"}
      BY <3>2 DEF AuditAction
    <3>5. Logged(r, v)'
      <4> DEFINE e == [req |-> r, action |-> AuditAction[call[r].op],
                       version |-> call[r].version, from |-> call[r].from]
      <4>1. e \in audit'
        BY <3>1 DEF EmitAudit
      <4>2. e.req = r /\ e.version = v /\ e.action \in {"create", "promote"}
        BY <3>2, <3>4
      <4> HIDE DEF e
      <4> QED BY <4>1, <4>2 DEF Logged
    <3> QED BY <2>1, <2>5, <3>3, <3>5
  <2> QED BY <2>4, <2>5
<1>2. CASE baselines[v] = None
  <2>1. pc[r] = "create" /\ InsertRecord(r)
    BY <1>0, <1>2, StoreSteps DEF MarkDeleted, IsLive, TypeOK
  <2>2. call[r].version = v /\ baselines'[v] = draft[r]
    BY <1>0, <1>2, <2>1 DEF InsertRecord, TypeOK
  <2>3. draft[r].id = r /\ call[r].op \in {"upload", "promote"}
    BY <1>0, <2>1 DEF DraftIsOwn, StepMatchesOp
  <2>4. Create(r)
    BY <2>1 DEF Step, Receive, Reject, Accept, Handle, PromoteSource, PromoteTarget,
                Delete, Read, EmitAudit, AuditFails, StorageFails
  <2>5. pc'[r] = "audit" /\ call' = call
    BY <1>0, <2>1, <2>4 DEF Create, InsertRecord, Goto, TypeOK
  <2> QED BY <2>2, <2>3, <2>5
<1> QED BY <1>1, <1>2

LEMMA NextAccounted == TypeInv /\ Accounted /\ [Next]_vars => Accounted'
<1> SUFFICES ASSUME TypeInv, Accounted, [Next]_vars, ~Durable PROVE Accounted'
  BY DEF Accounted
<1>1. ASSUME NEW r \in Requests, Step(r) PROVE Accounted'
  BY <1>1, StepAccounted
<1>2. CASE Tick
  BY <1>2 DEF Tick, Accounted, Logged
<1>3. CASE Crash
  BY <1>3 DEF Crash, Accounted
<1>4. CASE UNCHANGED vars
  BY <1>4 DEF vars, Accounted, Logged
<1> QED BY <1>1, <1>2, <1>3, <1>4 DEF Next, Step

\* Nothing stays in the in-memory store unaudited once its request has been
\* answered, whatever the other requests did between the insert and the log.
THEOREM LogIsComplete == Spec => []AuditComplete
<1>1. Init => TypeInv /\ Accounted
  BY InitType DEF Init, Accounted
<1>2. TypeInv /\ Accounted /\ [Next]_vars => (TypeInv /\ Accounted)'
  BY NextType, NextAccounted
<1>3. Accounted => AuditComplete
  BY DEF Accounted, AuditComplete, Logged
<1> QED BY <1>1, <1>2, <1>3, PTL DEF Spec

-----------------------------------------------------------------------------
(* get_latest never regresses. *)

LEMMA StoreKeepsNoRegression ==
  ASSUME TypeOK, TypeOK', StoreKeeps
  PROVE  NoRegression
<1> SUFFICES ASSUME \A v \in Versions : IsLive(v) => IsLive(v)',
                    NEW v \in LatestVersions, NEW w \in LatestVersions'
             PROVE  baselines[v].created_at <= baselines'[w].created_at
  BY DEF NoRegression
<1>1. v \in Versions /\ IsLive(v) /\ IsLive(v)'
  BY DEF LatestVersions, LiveVersions
<1>2. v \in LiveVersions' /\ w \in LiveVersions'
  BY <1>1 DEF LatestVersions, LiveVersions
<1>3. baselines'[v].created_at <= baselines'[w].created_at
  <2>1. baselines'[v].created_at \in Nat /\ baselines'[w].created_at \in Nat
    BY <1>2 DEF LiveVersions, IsLive, TypeOK, Record
  <2> QED BY <1>2, <2>1 DEF LatestVersions
<1>4. baselines'[v].created_at = baselines[v].created_at
  BY <1>1 DEF IsLive, StoreKeeps
<1> QED BY <1>3, <1>4

\* While nothing live is deleted or lost, get_latest never returns an older
\* record than before, however late a record with an early stamp is inserted.
THEOREM LatestIsMonotone == Spec => LatestNeverRegresses
<1>1. TypeInv /\ TypeInv' /\ [Next]_vars => [NoRegression]_vars
  <2> SUFFICES ASSUME TypeInv, TypeInv', Next PROVE NoRegression
    OBVIOUS
  <2>1. ASSUME NEW r \in Requests, Step(r) PROVE NoRegression
    BY <2>1, StepKeeps, StoreKeepsNoRegression DEF TypeInv
  <2>2. CASE Tick
    <3>1. StoreKeeps
      BY <2>2 DEF Tick, StoreKeeps
    <3> QED BY <3>1, StoreKeepsNoRegression DEF TypeInv
  <2>3. CASE Crash /\ Durable
    <3>1. StoreKeeps
      BY <2>3 DEF Crash, StoreKeeps
    <3> QED BY <3>1, StoreKeepsNoRegression DEF TypeInv
  <2>4. CASE Crash /\ ~Durable
    <3>1. LatestVersions' = {}
      BY <2>4 DEF Crash, LatestVersions, LiveVersions, IsLive
    <3> QED BY <3>1 DEF NoRegression
  <2> QED BY <2>1, <2>2, <2>3, <2>4 DEF Next, Step
<1>2. Spec => []TypeInv
  BY InitType, NextType, PTL DEF Spec
<1> QED BY <1>1, <1>2, PTL DEF Spec, LatestNeverRegresses

-----------------------------------------------------------------------------
(* The service implements BaselineStore. *)

LEMMA InitRefines == Init => Promise!Init
BY DEF Init, Ledger, Promise!Init, Promise!Absent

LEMMA InsertRefines ==
  ASSUME TypeInv, NEW r \in Requests, pc[r] = "create", InsertRecord(r)
  PROVE  [Promise!Next]_Ledger
<1> DEFINE v == call[r].version
<1>1. v \in Versions /\ draft[r] \in Record /\ draft[r].receipt \in Receipts
      /\ ~draft[r].deleted /\ draft[r] # None
  BY NoneIsNothing DEF TypeInv, StepMatchesOp, DraftIsOwn, Call, Record
<1>2. baselines[v] = None /\ baselines' = [baselines EXCEPT ![v] = draft[r]]
  BY DEF InsertRecord
<1>3. Ledger[v] = Promise!Absent
  BY <1>1, <1>2 DEF Ledger, Promise!Absent
<1>4. Ledger' = [Ledger EXCEPT ![v] = Promise!Live(draft[r].receipt)]
  <2>1. Ledger'[v] = Promise!Live(draft[r].receipt)
    BY <1>1, <1>2 DEF Ledger, TypeInv, TypeOK, Promise!Live
  <2>2. \A w \in Versions : w # v => Ledger'[w] = Ledger[w]
    BY <1>1, <1>2 DEF Ledger, TypeInv, TypeOK
  <2> QED BY <2>1, <2>2 DEF Ledger
<1>5. Promise!Publish(v, draft[r].receipt)
  BY <1>3, <1>4 DEF Promise!Publish
<1> QED BY <1>1, <1>5 DEF Promise!Next

LEMMA MarkRefines ==
  ASSUME TypeInv, NEW r \in Requests, pc[r] = "delete", MarkDeleted(r)
  PROVE  [Promise!Next]_Ledger
<1> DEFINE v == call[r].version
           x == baselines[v]
           y == [x EXCEPT !.deleted = TRUE]
<1>1. v \in Versions
  BY DEF TypeInv, StepMatchesOp, Call
<1>2. x \in Record /\ ~x.deleted /\ x.receipt \in Receipts /\ x # None
  BY <1>1 DEF MarkDeleted, IsLive, TypeInv, TypeOK, Record
<1>3. y \in Record /\ y.receipt = x.receipt /\ y.deleted /\ y # None
  BY <1>2, MarkedRecord, NoneIsNothing
<1>4. baselines' = [baselines EXCEPT ![v] = y]
  BY DEF MarkDeleted
<1> HIDE DEF y
<1>5. Ledger[v] = Promise!Live(x.receipt)
  BY <1>1, <1>2 DEF Ledger, Promise!Live
<1>6. Ledger' = [Ledger EXCEPT ![v] = Promise!Gone(x.receipt)]
  <2>1. Ledger'[v] = Promise!Gone(x.receipt)
    BY <1>1, <1>3, <1>4 DEF Ledger, TypeInv, TypeOK, Promise!Gone
  <2>2. \A w \in Versions : w # v => Ledger'[w] = Ledger[w]
    BY <1>1, <1>4 DEF Ledger, TypeInv, TypeOK
  <2> QED BY <2>1, <2>2 DEF Ledger
<1>7. Promise!Withdraw(v)
  BY <1>2, <1>5, <1>6 DEF Promise!Withdraw
<1> QED BY <1>1, <1>7 DEF Promise!Next

LEMMA NextRefines == TypeInv /\ [Next]_vars => [Promise!Next]_Ledger
<1> SUFFICES ASSUME TypeInv, [Next]_vars PROVE [Promise!Next]_Ledger
  OBVIOUS
<1>1. ASSUME NEW r \in Requests, Step(r) PROVE [Promise!Next]_Ledger
  <2>1. CASE UNCHANGED baselines
    BY <2>1 DEF Ledger
  <2> QED BY <1>1, <2>1, StoreSteps, InsertRefines, MarkRefines
<1>2. CASE Tick \/ UNCHANGED vars
  BY <1>2 DEF Tick, vars, Ledger
<1>3. CASE Crash
  <2>1. CASE Durable
    BY <1>3, <2>1 DEF Crash, Ledger
  <2>2. CASE ~Durable
    <3>1. Ledger' = [v \in Versions |-> Promise!Absent]
      BY <1>3, <2>2 DEF Crash, Ledger, Promise!Absent
    <3>2. Promise!LoseAll
      BY <2>2, <3>1 DEF Promise!LoseAll
    <3> QED BY <3>2 DEF Promise!Next
  <2> QED BY <2>1, <2>2
<1> QED BY <1>1, <1>2, <1>3 DEF Next, Step

\* The service implements the promise of BaselineStore: versions are created
\* once, never change content, and never return after a delete.
THEOREM ServiceRefinesStore == Spec => ImplementsStore
<1>1. Spec => []TypeInv
  BY InitType, NextType, PTL DEF Spec
<1> QED BY <1>1, InitRefines, NextRefines, PTL DEF Spec, ImplementsStore, Promise!Spec
=============================================================================
