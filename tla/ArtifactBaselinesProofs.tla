----------------------- MODULE ArtifactBaselinesProofs -----------------------
(***************************************************************************)
(* Proofs about ArtifactBaselines, for any number of calls, versions,      *)
(* receipts and cleanup passes.  Rows and objects are traced to the call   *)
(* that wrote them, and a call never changes its arguments.                *)
(***************************************************************************)
EXTENDS ArtifactBaselines, TLAPS

LEMMA NullIsNothing ==
  /\ \A x \in Row : x # None
  /\ \A x \in Object : x # None
  /\ \A c \in Call : c # None
  /\ \A v \in Versions : v # None
  /\ \A rc \in Receipts : rc # None
BY NullAssumption

\* A call under way has typed arguments.
LEMMA Arguments ==
  ASSUME TypeOK, StepMatchesCall, NEW t \in Tasks, pc[t] # "idle"
  PROVE  /\ call[t] \in Call /\ call[t].at \in Nat
         /\ call[t].op \in {"create", "get", "delete"} => call[t].version \in Versions
         /\ call[t].op = "create" => call[t].receipt \in Receipts
<1>1. call[t] \in Call /\ WellFormed(call[t])
  BY DEF TypeOK, StepMatchesCall
<1> QED BY <1>1 DEF Call, WellFormed

\* The row a create inserts and the object it puts.
NewRow(t) == [id |-> t, content_hash |-> call[t].receipt,
              created_at |-> call[t].at, deleted |-> FALSE]
NewObject(t) == [receipt |-> call[t].receipt, last_modified |-> clock, by |-> t]

LEMMA Fresh ==
  ASSUME TypeOK, StepMatchesCall, NEW t \in Tasks, pc[t] \in {"put", "insert"}
  PROVE  /\ call[t].version \in Versions /\ call[t].receipt \in Receipts
         /\ call[t].op = "create" /\ call[t] # None
         /\ NewRow(t) \in Row /\ NewRow(t) # None
         /\ NewObject(t) \in Object /\ NewObject(t) # None
<1>1. call[t].op = "create" /\ call[t] \in Call
      /\ call[t].version \in Versions /\ call[t].receipt \in Receipts /\ call[t].at \in Nat
  BY Arguments DEF StepMatchesCall
<1>2. NewRow(t) \in Row /\ NewObject(t) \in Object
  BY <1>1 DEF NewRow, Row, NewObject, Object, TypeOK
<1> QED BY <1>1, <1>2, NullIsNothing

\* A soft delete sets one field of a row.
LEMMA MarkedRow ==
  ASSUME NEW x \in Row
  PROVE  LET y == [x EXCEPT !.deleted = TRUE]
         IN  /\ y \in Row /\ y # None /\ y.id = x.id
             /\ y.content_hash = x.content_hash /\ y.deleted
<1> DEFINE y == [x EXCEPT !.deleted = TRUE]
<1>1. y \in Row /\ y.id = x.id /\ y.content_hash = x.content_hash /\ y.deleted
  BY DEF Row
<1>2. y # None
  BY <1>1, NullIsNothing
<1> QED BY <1>1, <1>2

-----------------------------------------------------------------------------
(* What a step may change. *)

Step(t) == Receive(t) \/ Handle(t) \/ StorageFails(t)

Others(t) ==
  \A u \in Tasks \ {t} :
    /\ pc'[u] = pc[u] /\ call'[u] = call[u] /\ result'[u] = result[u]
    /\ page'[u] = page[u] /\ served'[u] = served[u]

LEMMA StepFrame ==
  ASSUME TypeOK, NEW t \in Tasks, Step(t)
  PROVE  Others(t) /\ clock' = clock /\ UNCHANGED sweep
<1>1. CASE Receive(t)
  BY <1>1 DEF Receive, Begin, Goto, Others, TypeOK
<1>2. CASE StoreArtifact(t) \/ Insert(t)
  BY <1>2 DEF StoreArtifact, Insert, Return, Goto, Others, TypeOK
<1>3. CASE SelectRows(t)
  BY <1>3 DEF SelectRows, Return, Goto, Others, TypeOK
<1>4. CASE LoadArtifact(t)
  BY <1>4 DEF LoadArtifact, Return, Goto, Others, TypeOK
<1>5. CASE MarkDeleted(t) \/ StorageFails(t)
  BY <1>5 DEF MarkDeleted, StorageFails, Return, Others, TypeOK
<1> QED BY <1>1, <1>2, <1>3, <1>4, <1>5 DEF Step, Handle

\* The only writes to the table.
LEMMA RowSteps ==
  ASSUME NEW t \in Tasks, Step(t)
  PROVE  \/ pc[t] = "insert" /\ InsertRow(t)
         \/ pc[t] = "mark" /\ MarkRow(t)
         \/ UNCHANGED rows
BY DEF Step, Handle, Receive, Begin, StoreArtifact, Insert, SelectRows,
       LoadArtifact, MarkDeleted, StorageFails

\* The only writes of a call to the object store.
LEMMA ObjectSteps ==
  ASSUME NEW t \in Tasks, Step(t)
  PROVE  \/ pc[t] = "put" /\ PutObject(t)
         \/ UNCHANGED <<objects, swept>>
BY DEF Step, Handle, Receive, Begin, StoreArtifact, Insert, SelectRows,
       LoadArtifact, MarkDeleted, StorageFails

\* Rows stay, and stay whose they are.
RowsKept ==
  \A v \in Versions :
    rows[v] # None =>
      /\ rows'[v] # None /\ rows'[v].id = rows[v].id
      /\ rows'[v].content_hash = rows[v].content_hash

\* Only the cleanup takes objects away, and leaves a mark.
ObjectsKept ==
  \A v \in Versions :
    (objects[v] # None \/ v \in swept) => (objects'[v] # None \/ v \in swept')

\* A call keeps its arguments.
CallsKept == \A t \in Tasks : call[t] # None => call'[t] = call[t]

LEMMA StepRows ==
  ASSUME TypeOK, StepMatchesCall, NEW t \in Tasks, Step(t)
  PROVE  rows' \in [Versions -> Row \cup {None}] /\ RowsKept
<1>1. CASE pc[t] = "insert" /\ InsertRow(t)
  <2>1. rows' = [rows EXCEPT ![call[t].version] = NewRow(t)] /\ rows[call[t].version] = None
    BY <1>1 DEF InsertRow, NewRow
  <2> QED BY <1>1, <2>1, Fresh DEF TypeOK, RowsKept
<1>2. CASE pc[t] = "mark" /\ MarkRow(t)
  <2> DEFINE v == call[t].version
             y == [rows[v] EXCEPT !.deleted = TRUE]
  <2>1. v \in Versions
    BY <1>2, Arguments DEF StepMatchesCall
  <2>2. rows[v] \in Row
    BY <1>2, <2>1 DEF MarkRow, IsLive, TypeOK
  <2>3. rows' = [rows EXCEPT ![v] = y]
    BY <1>2 DEF MarkRow
  <2>4. y \in Row /\ y # None /\ y.id = rows[v].id /\ y.content_hash = rows[v].content_hash
    BY <2>2, MarkedRow
  <2> HIDE DEF y
  <2> QED BY <2>1, <2>3, <2>4 DEF TypeOK, RowsKept
<1>3. CASE UNCHANGED rows
  BY <1>3 DEF TypeOK, RowsKept
<1> QED BY <1>1, <1>2, <1>3, RowSteps

LEMMA StepObjects ==
  ASSUME TypeOK, StepMatchesCall, NEW t \in Tasks, Step(t)
  PROVE  /\ objects' \in [Versions -> Object \cup {None}]
         /\ swept' \in SUBSET Versions
         /\ ObjectsKept
<1>1. CASE pc[t] = "put" /\ PutObject(t)
  <2>1. objects' = [objects EXCEPT ![call[t].version] = NewObject(t)]
        /\ swept' = swept \ {call[t].version}
    BY <1>1 DEF PutObject, NewObject
  <2> QED BY <1>1, <2>1, Fresh DEF TypeOK, ObjectsKept
<1>2. CASE UNCHANGED <<objects, swept>>
  BY <1>2 DEF TypeOK, ObjectsKept
<1> QED BY <1>1, <1>2, ObjectSteps

LEMMA StepCalls ==
  ASSUME TypeOK, StepMatchesCall, NEW t \in Tasks, Step(t)
  PROVE  CallsKept
<1>1. CASE Receive(t)
  <2>1. pc[t] = "idle"
    BY <1>1 DEF Receive, Begin
  <2>2. call[t] = None
    BY <2>1 DEF StepMatchesCall
  <2> QED BY <2>2, StepFrame DEF Others, CallsKept
<1>2. CASE Handle(t) \/ StorageFails(t)
  <2>1. call' = call
    BY <1>2 DEF Handle, StoreArtifact, Insert, SelectRows, LoadArtifact, MarkDeleted, StorageFails
  <2> QED BY <2>1 DEF CallsKept
<1> QED BY <1>1, <1>2 DEF Step

-----------------------------------------------------------------------------
(* Type correctness. *)

TypeInv == TypeOK /\ StepMatchesCall

LEMMA InitType == Init => TypeInv
<1> SUFFICES ASSUME Init PROVE TypeInv
  OBVIOUS
<1>1. NoRows \in [Versions -> Row \cup {None}]
  BY DEF NoRows
<1>2. TypeOK
  <2>1. rows \in [Versions -> Row \cup {None}] /\ page \in [Tasks -> [Versions -> Row \cup {None}]]
    BY <1>1 DEF Init
  <2>2. clock \in Nat /\ cutoff \in [Sweepers -> Int]
    <3>1. clock = 0 /\ cutoff = [s \in Sweepers |-> 0]
      BY DEF Init
    <3> QED BY <3>1
  <2>3. /\ objects \in [Versions -> Object \cup {None}]
        /\ pc \in [Tasks -> {"idle", "put", "insert", "select", "load", "mark", "done", "lost"}]
        /\ call \in [Tasks -> Call \cup {None}]
        /\ result \in [Tasks -> {"", "ok", "exists", "missing", "failed"}]
        /\ served \in [Tasks -> SUBSET Loaded]
        /\ spc \in [Sweepers -> {"idle", "list", "delete"}]
        /\ doomed \in [Sweepers -> SUBSET Versions]
        /\ swept \in SUBSET Versions
    BY DEF Init
  <2> QED BY <2>1, <2>2, <2>3 DEF TypeOK
<1>3. StepMatchesCall
  BY DEF Init, StepMatchesCall
<1> QED BY <1>2, <1>3 DEF TypeInv

LEMMA BeginType ==
  ASSUME TypeInv, NEW t \in Tasks, Receive(t)
  PROVE  TypeInv'
<1>0. PICK c \in Call : Begin(t, c)
  <2>1. PICK op \in {"create", "get", "latest", "list", "delete"},
             v \in Versions \cup {None}, rc \in Receipts \cup {None}, at \in {0, clock} :
          Begin(t, [op |-> op, version |-> v, receipt |-> rc, at |-> at])
    BY DEF Receive
  <2>2. at \in Nat
    <3>1. clock \in Nat
      BY DEF TypeInv, TypeOK
    <3> QED BY <3>1
  <2>3. [op |-> op, version |-> v, receipt |-> rc, at |-> at] \in Call
    BY <2>2 DEF Call
  <2> QED BY <2>1, <2>3
<1>1. /\ c # None /\ WellFormed(c) /\ pc[t] = "idle"
      /\ FirstStep[c.op] \in {"put", "select", "mark"}
      /\ FirstStep[c.op] = "put" => c.op = "create"
      /\ FirstStep[c.op] = "select" => c.op \in {"get", "latest", "list"}
      /\ FirstStep[c.op] = "mark" => c.op = "delete"
  BY <1>0, NullIsNothing DEF Begin, FirstStep, Call
<1>2. call' = [call EXCEPT ![t] = c] /\ pc' = [pc EXCEPT ![t] = FirstStep[c.op]]
      /\ UNCHANGED <<rows, objects, swept, clock, result, page, served, spc, cutoff, doomed>>
  BY <1>0 DEF Begin, Goto, sweep
<1>3. TypeOK'
  BY <1>1, <1>2 DEF TypeInv, TypeOK
<1>4. StepMatchesCall'
  BY <1>1, <1>2 DEF TypeInv, TypeOK, StepMatchesCall
<1> QED BY <1>3, <1>4 DEF TypeInv

\* What a handler returns or where it goes next.
LEMMA HandleLocal ==
  ASSUME TypeInv, NEW t \in Tasks, Handle(t) \/ StorageFails(t)
  PROVE  /\ pc[t] \in {"put", "insert", "select", "load", "mark"}
         /\ \/ Return(t, "ok") \/ Return(t, "exists") \/ Return(t, "missing")
            \/ Return(t, "failed")
            \/ pc[t] = "put" /\ Goto(t, "insert")
            \/ pc[t] \in {"select", "load"} /\ Goto(t, "load")
         /\ UNCHANGED <<clock, call, spc, cutoff, doomed>>
<1>1. CASE StoreArtifact(t) \/ Insert(t)
  BY <1>1 DEF StoreArtifact, Insert, sweep
<1>2. CASE SelectRows(t)
  BY <1>2 DEF SelectRows, sweep
<1>3. CASE LoadArtifact(t)
  BY <1>3 DEF LoadArtifact, sweep
<1>4. CASE MarkDeleted(t) \/ StorageFails(t)
  BY <1>4 DEF MarkDeleted, StorageFails, sweep
<1> QED BY <1>1, <1>2, <1>3, <1>4 DEF Handle

\* Pages hold selected rows, and what is served is typed.
LEMMA HandlePages ==
  ASSUME TypeInv, NEW t \in Tasks, Handle(t) \/ StorageFails(t)
  PROVE  /\ page' \in [Tasks -> [Versions -> Row \cup {None}]]
         /\ served' \in [Tasks -> SUBSET Loaded]
<1> USE DEF TypeInv
<1>1. CASE StoreArtifact(t) \/ Insert(t) \/ MarkDeleted(t) \/ StorageFails(t)
  BY <1>1 DEF StoreArtifact, Insert, MarkDeleted, StorageFails, TypeOK
<1>2. CASE SelectRows(t)
  <2>1. \A vs : Select(vs) \in [Versions -> Row \cup {None}]
    BY DEF Select, TypeOK
  <2>2. PICK vs : page' = [page EXCEPT ![t] = Select(vs)]
    BY <1>2 DEF SelectRows
  <2>3. served' = served
    BY <1>2 DEF SelectRows
  <2> QED BY <2>1, <2>2, <2>3 DEF TypeOK
<1>3. CASE LoadArtifact(t)
  <2>1. PICK v \in Newest(page[t]) :
          \/ UNCHANGED <<page, served>>
          \/ /\ objects[v] # None
             /\ page' = [page EXCEPT ![t][v] = None]
             /\ served' = [served EXCEPT ![t] = @ \cup
                             {[version |-> v, content_hash |-> page[t][v].content_hash,
                               receipt |-> objects[v].receipt]}]
    BY <1>3 DEF LoadArtifact
  <2>2. CASE UNCHANGED <<page, served>>
    BY <2>2 DEF TypeOK
  <2>3. CASE objects[v] # None /\ page' = [page EXCEPT ![t][v] = None]
             /\ served' = [served EXCEPT ![t] = @ \cup
                             {[version |-> v, content_hash |-> page[t][v].content_hash,
                               receipt |-> objects[v].receipt]}]
    <3>1. v \in Versions /\ page[t][v] \in Row /\ objects[v] \in Object
      <4>1. v \in Versions /\ page[t][v] # None
        BY DEF Newest
      <4>2. page[t] \in [Versions -> Row \cup {None}]
        BY DEF TypeOK
      <4>3. objects \in [Versions -> Object \cup {None}]
        BY DEF TypeOK
      <4> QED BY <2>3, <4>1, <4>2, <4>3
    <3>2. [version |-> v, content_hash |-> page[t][v].content_hash,
           receipt |-> objects[v].receipt] \in Loaded
      BY <3>1 DEF Loaded, Row, Object
    <3>3. page' \in [Tasks -> [Versions -> Row \cup {None}]]
      <4>1. [page[t] EXCEPT ![v] = None] \in [Versions -> Row \cup {None}]
        BY <3>1 DEF TypeOK
      <4>2. page' = [page EXCEPT ![t] = [page[t] EXCEPT ![v] = None]]
        BY <2>3
      <4> QED BY <4>1, <4>2 DEF TypeOK
    <3> QED BY <2>3, <3>2, <3>3 DEF TypeOK
  <2> QED BY <2>1, <2>2, <2>3
<1> QED BY <1>1, <1>2, <1>3 DEF Handle

LEMMA HandleType ==
  ASSUME TypeInv, NEW t \in Tasks, Handle(t) \/ StorageFails(t)
  PROVE  TypeInv'
<1>1. /\ rows' \in [Versions -> Row \cup {None}]
      /\ objects' \in [Versions -> Object \cup {None}]
      /\ swept' \in SUBSET Versions
  BY StepRows, StepObjects DEF Step, TypeInv
<1>2. TypeOK'
  <2>1. pc' \in [Tasks -> {"idle", "put", "insert", "select", "load", "mark", "done", "lost"}]
        /\ result' \in [Tasks -> {"", "ok", "exists", "missing", "failed"}]
    BY HandleLocal DEF TypeInv, TypeOK, Return, Goto
  <2> QED BY <1>1, <2>1, HandleLocal, HandlePages DEF TypeInv, TypeOK
<1>3. StepMatchesCall'
  <2> SUFFICES ASSUME NEW u \in Tasks
               PROVE  /\ pc'[u] = "idle" => call'[u] = None
                      /\ pc'[u] # "idle" => call'[u] # None /\ WellFormed(call'[u])
                      /\ pc'[u] \in {"put", "insert"} => call'[u].op = "create"
                      /\ pc'[u] \in {"select", "load"} => call'[u].op \in {"get", "latest", "list"}
                      /\ pc'[u] = "mark" => call'[u].op = "delete"
                      /\ result'[u] # "" => pc'[u] = "done"
    BY DEF StepMatchesCall, WellFormed
  <2>1. call' = call
    BY HandleLocal
  <2>2. CASE u # t
    <3>1. pc'[u] = pc[u] /\ result'[u] = result[u]
      BY <2>2, StepFrame DEF Step, Others, TypeInv
    <3> QED BY <2>1, <3>1 DEF TypeInv, StepMatchesCall
  <2>3. CASE u = t
    <3>1. pc[t] # "idle" /\ call[t] # None /\ WellFormed(call[t]) /\ result[t] = ""
      BY HandleLocal DEF TypeInv, StepMatchesCall
    <3>2. CASE pc'[t] = "done"
      BY <2>1, <2>3, <3>1, <3>2
    <3>3. CASE Goto(t, "insert") /\ pc[t] = "put"
      BY <2>1, <2>3, <3>1, <3>3 DEF Goto, TypeInv, TypeOK, StepMatchesCall
    <3>4. CASE Goto(t, "load") /\ pc[t] \in {"select", "load"}
      BY <2>1, <2>3, <3>1, <3>4 DEF Goto, TypeInv, TypeOK, StepMatchesCall
    <3> QED BY <3>2, <3>3, <3>4, HandleLocal DEF Return, TypeInv, TypeOK
  <2> QED BY <2>2, <2>3
<1> QED BY <1>2, <1>3 DEF TypeInv

\* Cleanup passes, the clock and a crash leave calls and rows alone.
Elsewhere ==
  /\ UNCHANGED <<rows, call, result, page, served>>
  /\ \A t \in Tasks : pc'[t] = pc[t] \/ (pc'[t] = "lost" /\ pc[t] \notin {"idle", "done"})

LEMMA SweepType ==
  ASSUME TypeInv, NEW s \in Sweepers, Sweep(s)
  PROVE  TypeInv' /\ Elsewhere /\ ObjectsKept
<1> USE DEF TypeInv
<1>1. UNCHANGED <<rows, clock>> /\ UNCHANGED task
  BY DEF Sweep, StartSweep, ListObjects, ListFails, SweepObject
<1>2. StepMatchesCall' /\ Elsewhere
  BY <1>1 DEF task, StepMatchesCall, Elsewhere
<1>3. CASE \E days \in Retention : StartSweep(s, days)
  <2>1. \A days \in Retention : clock - days \in Int
    <3>1. clock \in Nat
      BY DEF TypeOK
    <3> QED BY <3>1, RetentionAssumption
  <2>2. TypeOK'
    BY <1>1, <1>3, <2>1 DEF StartSweep, task, TypeOK
  <2> QED BY <1>2, <1>3, <2>2 DEF StartSweep, ObjectsKept
<1>4. CASE ListObjects(s)
  <2>1. Expired(s) \in SUBSET Versions
    BY DEF Expired
  <2>2. TypeOK'
    BY <1>1, <1>4, <2>1 DEF ListObjects, task, TypeOK
  <2> QED BY <1>2, <1>4, <2>2 DEF ListObjects, ObjectsKept
<1>5. CASE ListFails(s)
  <2>1. TypeOK'
    BY <1>1, <1>5 DEF ListFails, task, TypeOK
  <2> QED BY <1>2, <1>5, <2>1 DEF ListFails, ObjectsKept
<1>6. CASE SweepObject(s)
  <2>1. TypeOK'
    BY <1>1, <1>6 DEF SweepObject, task, TypeOK
  <2>2. ObjectsKept
    BY <1>6 DEF SweepObject, ObjectsKept, TypeOK
  <2> QED BY <1>2, <2>1, <2>2
<1> QED BY <1>3, <1>4, <1>5, <1>6 DEF Sweep

LEMMA OutsideType ==
  ASSUME TypeInv, Tick \/ Crash \/ UNCHANGED vars
  PROVE  TypeInv' /\ Elsewhere /\ UNCHANGED <<objects, swept>>
<1> USE DEF TypeInv
<1>1. CASE Tick \/ UNCHANGED vars
  <2>1. UNCHANGED <<rows, objects, swept, pc, call, result, page, served, spc, cutoff, doomed>>
    BY <1>1 DEF Tick, vars, task, sweep
  <2>2. clock' \in Nat
    <3>1. clock \in Nat
      BY DEF TypeOK
    <3> QED BY <1>1, <3>1 DEF Tick, vars
  <2>3. TypeOK'
    BY <2>1, <2>2 DEF TypeOK
  <2> QED BY <2>1, <2>3 DEF StepMatchesCall, Elsewhere
<1>2. CASE Crash
  <2>1. TypeOK'
    BY <1>2 DEF Crash, TypeOK
  <2>2. StepMatchesCall' /\ Elsewhere /\ UNCHANGED <<objects, swept>>
    BY <1>2 DEF Crash, TypeOK, StepMatchesCall, Elsewhere
  <2> QED BY <2>1, <2>2
<1> QED BY <1>1, <1>2

LEMMA NextType == TypeInv /\ [Next]_vars => TypeInv'
BY BeginType, HandleType, SweepType, OutsideType DEF Next

\* Every variable keeps its type, a page across the awaits that empty it too.
THEOREM TypeCorrect == Spec => []TypeOK
<1>1. Spec => []TypeInv
  BY InitType, NextType, PTL DEF Spec
<1>2. TypeInv => TypeOK
  BY DEF TypeInv
<1> QED BY <1>1, <1>2, PTL

-----------------------------------------------------------------------------
(* The invariants.  Each holds after a step because the step keeps calls,    *)
(* rows and objects (CallsKept, RowsKept, ObjectsKept) and because of what   *)
(* the call that moves has just done.                                        *)

Kept == CallsKept /\ RowsKept /\ ObjectsKept

LEMMA StepKept ==
  ASSUME TypeInv, NEW t \in Tasks, Step(t)
  PROVE  Kept
BY StepRows, StepObjects, StepCalls DEF Kept, TypeInv

LEMMA ElsewhereKept ==
  ASSUME Elsewhere, ObjectsKept
  PROVE  Kept
BY DEF Elsewhere, Kept, CallsKept, RowsKept

IsCreate(c, v, rc) == c # None /\ c.op = "create" /\ c.version = v /\ c.receipt = rc

\* A create stays what it is.
LEMMA CreatesKept ==
  ASSUME CallsKept, NEW u \in Tasks, NEW v, NEW rc, Creates(u, v, rc)
  PROVE  IsCreate(call'[u], v, rc)
BY DEF Creates, CallsKept, IsCreate

\* The table: whatever it holds was written by a create of that version.
LEMMA StepWritten ==
  ASSUME TypeInv, TypeInv', WrittenByCreate, NEW t \in Tasks, Step(t)
  PROVE  WrittenByCreate'
<1>0. Kept
  BY StepKept
<1>1. \A v \in Versions : rows'[v] # None => IsCreate(call'[rows'[v].id], v, rows'[v].content_hash)
  <2> SUFFICES ASSUME NEW v \in Versions, rows'[v] # None
               PROVE  IsCreate(call'[rows'[v].id], v, rows'[v].content_hash)
    OBVIOUS
  <2>1. CASE rows[v] # None
    <3>1. rows'[v].id = rows[v].id /\ rows'[v].content_hash = rows[v].content_hash
      BY <1>0, <2>1 DEF Kept, RowsKept
    <3>2. rows[v].id \in Tasks
      BY <2>1 DEF TypeInv, TypeOK, Row
    <3>3. Creates(rows[v].id, v, rows[v].content_hash)
      BY <2>1 DEF WrittenByCreate
    <3> QED BY <1>0, <3>1, <3>2, <3>3, CreatesKept DEF Kept
  <2>2. CASE rows[v] = None
    <3>1. pc[t] = "insert" /\ InsertRow(t)
      BY <2>2, RowSteps DEF MarkRow, IsLive, TypeInv, TypeOK
    <3>2. rows' = [rows EXCEPT ![call[t].version] = NewRow(t)]
      BY <3>1 DEF InsertRow, NewRow
    <3>3. v = call[t].version /\ rows'[v] = NewRow(t)
      BY <2>2, <3>2 DEF TypeInv, TypeOK
    <3>4. Creates(t, v, call[t].receipt)
      BY <3>1, <3>3, Fresh DEF TypeInv, Creates
    <3> QED BY <1>0, <3>3, <3>4, CreatesKept DEF Kept, NewRow
  <2> QED BY <2>1, <2>2
<1>2. \A v \in Versions : objects'[v] # None => IsCreate(call'[objects'[v].by], v, objects'[v].receipt)
  <2> SUFFICES ASSUME NEW v \in Versions, objects'[v] # None
               PROVE  IsCreate(call'[objects'[v].by], v, objects'[v].receipt)
    OBVIOUS
  <2>1. CASE objects'[v] = objects[v]
    <3>1. objects[v].by \in Tasks
      BY <2>1 DEF TypeInv, TypeOK, Object
    <3>2. Creates(objects[v].by, v, objects[v].receipt)
      BY <2>1 DEF WrittenByCreate
    <3> QED BY <1>0, <2>1, <3>1, <3>2, CreatesKept DEF Kept
  <2>2. CASE objects'[v] # objects[v]
    <3>1. pc[t] = "put" /\ PutObject(t)
      BY <2>2, ObjectSteps
    <3>2. objects' = [objects EXCEPT ![call[t].version] = NewObject(t)]
      BY <3>1 DEF PutObject, NewObject
    <3>3. v = call[t].version /\ objects'[v] = NewObject(t)
      BY <2>2, <3>2 DEF TypeInv, TypeOK
    <3>4. Creates(t, v, call[t].receipt)
      BY <3>1, <3>3, Fresh DEF TypeInv, Creates
    <3> QED BY <1>0, <3>3, <3>4, CreatesKept DEF Kept, NewObject
  <2> QED BY <2>1, <2>2
<1> QED BY <1>1, <1>2 DEF WrittenByCreate, Creates, IsCreate

\* Only an insert of its own row acknowledges a create.
LEMMA StepAcknowledged ==
  ASSUME TypeInv, TypeInv', AcknowledgedOwnsRow, NEW t \in Tasks, Step(t)
  PROVE  AcknowledgedOwnsRow'
<1>0. Kept /\ Others(t)
  BY StepKept, StepFrame DEF TypeInv
<1> SUFFICES ASSUME NEW u \in Tasks, result'[u] = "ok", call'[u].op = "create"
             PROVE  rows'[call'[u].version] # None /\ rows'[call'[u].version].id = u
  BY DEF AcknowledgedOwnsRow
<1>1. call'[u].version \in Versions
  <2>1. pc'[u] # "idle"
    BY DEF TypeInv, StepMatchesCall
  <2>2. call'[u] \in Call /\ WellFormed(call'[u])
    <3>1. call'[u] \in Call \cup {None}
      BY DEF TypeInv, TypeOK
    <3>2. call'[u] # None /\ WellFormed(call'[u])
      BY <2>1 DEF TypeInv, StepMatchesCall, WellFormed
    <3> QED BY <3>1, <3>2
  <2> QED BY <2>2 DEF Call, WellFormed
<1>2. CASE result[u] = "ok"
  <2>1. call[u] # None
    BY <1>2 DEF TypeInv, StepMatchesCall
  <2>2. call'[u] = call[u]
    BY <1>0, <2>1 DEF Kept, CallsKept
  <2> QED BY <1>0, <1>1, <1>2, <2>2 DEF AcknowledgedOwnsRow, Kept, RowsKept
<1>3. CASE result[u] # "ok"
  <2>1. u = t
    BY <1>0, <1>3 DEF Others
  <2>2. CASE Receive(t)
    BY <1>3, <2>1, <2>2 DEF Receive, Begin, Goto
  <2>3. CASE Handle(t) \/ StorageFails(t)
    <3>1. call' = call /\ pc[t] \in {"put", "insert"}
      <4>1. call' = call
        BY <2>3, HandleLocal
      <4> QED BY <2>1, <2>3, <4>1, HandleLocal DEF TypeInv, StepMatchesCall
    <3>2. Insert(t)
      BY <1>3, <2>1, <2>3, <3>1
         DEF Handle, StoreArtifact, SelectRows, LoadArtifact, MarkDeleted, StorageFails,
             Goto, Return, TypeInv, TypeOK
    <3>3. InsertRow(t)
      BY <2>1, <3>2 DEF Insert, Return, TypeInv, TypeOK
    <3>4. rows' = [rows EXCEPT ![call[t].version] = NewRow(t)]
      BY <3>3 DEF InsertRow, NewRow
    <3>5. NewRow(t) # None /\ NewRow(t).id = t
      BY <3>1, Fresh DEF TypeInv, NewRow
    <3> QED BY <1>1, <2>1, <3>1, <3>4, <3>5 DEF TypeInv, TypeOK
  <2> QED BY <2>2, <2>3 DEF Step
<1> QED BY <1>2, <1>3

\* The object is there, or was swept, before its row is inserted.
LEMMA StepArtifact ==
  ASSUME TypeInv, TypeInv', ArtifactPrecedesInsert, RowHasArtifact, NEW t \in Tasks, Step(t)
  PROVE  ArtifactPrecedesInsert' /\ RowHasArtifact'
<1>0. Kept /\ Others(t)
  BY StepKept, StepFrame DEF TypeInv
<1>1. ASSUME NEW u \in Tasks, pc'[u] = "insert"
      PROVE  objects'[call'[u].version] # None \/ call'[u].version \in swept'
  <2>1. CASE pc[u] = "insert"
    <3>1. call'[u] = call[u] /\ call[u].version \in Versions
      BY <1>0, <2>1, Fresh DEF Kept, CallsKept, TypeInv
    <3> QED BY <1>0, <2>1, <3>1 DEF ArtifactPrecedesInsert, Kept, ObjectsKept
  <2>2. CASE pc[u] # "insert"
    <3>1. u = t
      BY <1>0, <1>1, <2>2 DEF Others
    <3>2. StoreArtifact(t)
      <4>1. ~Receive(t)
        <5> SUFFICES ASSUME Receive(t) PROVE FALSE
          OBVIOUS
        <5>1. PICK op \in {"create", "get", "latest", "list", "delete"} :
                pc' = [pc EXCEPT ![t] = FirstStep[op]]
          BY DEF Receive, Begin, Goto
        <5>2. FirstStep[op] # "insert"
          BY DEF FirstStep
        <5> QED BY <1>1, <3>1, <5>1, <5>2 DEF TypeInv, TypeOK
      <4>2. pc[t] = "put" /\ ~StorageFails(t)
        <5>1. Handle(t) \/ StorageFails(t)
          BY <4>1 DEF Step
        <5>2. \A res : ~Return(t, res)
          BY <1>1, <3>1 DEF Return, TypeInv, TypeOK
        <5>3. ~Goto(t, "load")
          BY <1>1, <3>1 DEF Goto, TypeInv, TypeOK
        <5> QED BY <5>1, <5>2, <5>3, HandleLocal DEF StorageFails
      <4> QED BY <4>1, <4>2 DEF Step, Handle, Insert, SelectRows, LoadArtifact, MarkDeleted
    <3>3. pc[t] = "put" /\ objects' = [objects EXCEPT ![call[t].version] = NewObject(t)]
          /\ call' = call
      BY <3>2 DEF StoreArtifact, PutObject, NewObject
    <3> QED BY <3>1, <3>3, Fresh DEF TypeInv, TypeOK
  <2> QED BY <2>1, <2>2
<1>2. ASSUME NEW v \in Versions, rows'[v] # None
      PROVE  objects'[v] # None \/ v \in swept'
  <2>1. CASE rows[v] # None
    BY <1>0, <2>1 DEF RowHasArtifact, Kept, ObjectsKept
  <2>2. CASE rows[v] = None
    <3>1. pc[t] = "insert" /\ InsertRow(t)
      BY <1>2, <2>2, RowSteps DEF MarkRow, IsLive, TypeInv, TypeOK
    <3>2. v = call[t].version
      BY <1>2, <2>2, <3>1 DEF InsertRow, TypeInv, TypeOK
    <3> QED BY <1>0, <3>1, <3>2 DEF ArtifactPrecedesInsert, Kept, ObjectsKept
  <2> QED BY <2>1, <2>2
<1> QED BY <1>1, <1>2 DEF ArtifactPrecedesInsert, RowHasArtifact

\* A reader is served what the object under the version holds at that moment.
LEMMA StepServed ==
  ASSUME TypeInv, TypeInv', WrittenByCreate, ServedWasUploaded, NEW t \in Tasks, Step(t)
  PROVE  ServedWasUploaded'
<1>0. Kept /\ Others(t)
  BY StepKept, StepFrame DEF TypeInv
<1> SUFFICES ASSUME NEW u \in Tasks, NEW x \in served'[u]
             PROVE  \E w \in Tasks : IsCreate(call'[w], x.version, x.receipt)
  BY DEF ServedWasUploaded, Creates, IsCreate
<1>1. CASE x \in served[u]
  <2>1. PICK w \in Tasks : Creates(w, x.version, x.receipt)
    BY <1>1 DEF ServedWasUploaded
  <2> QED BY <1>0, <2>1, CreatesKept DEF Kept
<1>2. CASE x \notin served[u]
  <2>1. u = t
    BY <1>0, <1>2 DEF Others
  <2>2. LoadArtifact(t)
    <3>1. CASE served' = served
      BY <1>2, <3>1
    <3>2. CASE LoadArtifact(t)
      BY <3>2
    <3> QED BY <3>1, <3>2 DEF Step, Handle, Receive, Begin, StoreArtifact, Insert, SelectRows,
                              MarkDeleted, StorageFails
  <2>3. PICK v \in Newest(page[t]) :
          /\ objects[v] # None
          /\ served' = [served EXCEPT ![t] = @ \cup
                          {[version |-> v, content_hash |-> page[t][v].content_hash,
                            receipt |-> objects[v].receipt]}]
    BY <1>2, <2>2 DEF LoadArtifact
  <2>4. x.version = v /\ x.receipt = objects[v].receipt
    <3>1. served'[t] = served[t] \cup
            {[version |-> v, content_hash |-> page[t][v].content_hash,
              receipt |-> objects[v].receipt]}
      BY <2>3 DEF TypeInv, TypeOK
    <3>2. x = [version |-> v, content_hash |-> page[t][v].content_hash,
               receipt |-> objects[v].receipt]
      BY <1>2, <2>1, <3>1
    <3> QED BY <3>2
  <2>5. v \in Versions
    BY DEF Newest
  <2>6. objects[v].by \in Tasks
    BY <2>3, <2>5 DEF TypeInv, TypeOK, Object
  <2>7. Creates(objects[v].by, x.version, x.receipt)
    BY <2>3, <2>4, <2>5 DEF WrittenByCreate
  <2> QED BY <1>0, <2>6, <2>7, CreatesKept DEF Kept
<1> QED BY <1>1, <1>2

LEMMA InitInd == Init => IndInv
<1> SUFFICES ASSUME Init PROVE IndInv
  OBVIOUS
<1>1. TypeInv
  BY InitType
<1>2. \A t \in Tasks : pc[t] = "idle" /\ result[t] = "" /\ served[t] = {}
  BY DEF Init
<1>3. \A v \in Versions : rows[v] = None /\ objects[v] = None
  BY DEF Init, NoRows
<1> QED BY <1>1, <1>2, <1>3
        DEF IndInv, TypeInv, WrittenByCreate, AcknowledgedOwnsRow, ArtifactPrecedesInsert,
            RowHasArtifact, ServedWasUploaded

\* The cleanup, the clock and a crash: what is left of an object is unchanged.
LEMMA ElsewhereInd ==
  ASSUME IndInv, TypeInv', Elsewhere, ObjectsKept,
         \A v \in Versions : objects'[v] = objects[v] \/ objects'[v] = None
  PROVE  IndInv'
<1>1. UNCHANGED <<rows, call, result, served>>
  BY DEF Elsewhere
<1>2. WrittenByCreate'
  BY <1>1 DEF IndInv, WrittenByCreate, Creates
<1>3. AcknowledgedOwnsRow'
  BY <1>1 DEF IndInv, AcknowledgedOwnsRow
<1>4. ArtifactPrecedesInsert'
  <2> SUFFICES ASSUME NEW t \in Tasks, pc'[t] = "insert"
               PROVE  objects'[call'[t].version] # None \/ call'[t].version \in swept'
    BY DEF ArtifactPrecedesInsert
  <2>1. pc[t] = "insert"
    BY DEF Elsewhere
  <2>2. call[t].version \in Versions
    BY <2>1, Fresh DEF IndInv
  <2> QED BY <1>1, <2>1, <2>2 DEF IndInv, ArtifactPrecedesInsert, ObjectsKept
<1>5. RowHasArtifact'
  BY <1>1 DEF IndInv, RowHasArtifact, ObjectsKept
<1>6. ServedWasUploaded'
  BY <1>1 DEF IndInv, ServedWasUploaded, Creates
<1> QED BY <1>2, <1>3, <1>4, <1>5, <1>6 DEF IndInv, TypeInv

LEMMA NextInd == IndInv /\ [Next]_vars => IndInv'
<1> SUFFICES ASSUME IndInv, [Next]_vars PROVE IndInv'
  OBVIOUS
<1>0. TypeInv /\ TypeInv'
  BY NextType DEF IndInv, TypeInv
<1>1. ASSUME NEW t \in Tasks, Step(t) PROVE IndInv'
  BY <1>0, <1>1, StepWritten, StepAcknowledged, StepArtifact, StepServed DEF IndInv, TypeInv
<1>2. ASSUME NEW s \in Sweepers, Sweep(s) PROVE IndInv'
  <2>1. \A v \in Versions : objects'[v] = objects[v] \/ objects'[v] = None
    BY <1>0, <1>2 DEF Sweep, StartSweep, ListObjects, ListFails, SweepObject, TypeInv, TypeOK
  <2> QED BY <1>0, <1>2, <2>1, SweepType, ElsewhereInd
<1>3. CASE Tick \/ Crash \/ UNCHANGED vars
  <2>1. Elsewhere /\ UNCHANGED <<objects, swept>>
    BY <1>0, <1>3, OutsideType
  <2>2. ObjectsKept
    BY <2>1 DEF ObjectsKept
  <2> QED BY <1>0, <2>1, <2>2, ElsewhereInd
<1> QED BY <1>1, <1>2, <1>3 DEF Next, Step

\* The inductive invariant holds in every reachable state.
THEOREM Inductive == Spec => []IndInv
BY InitInd, NextInd, PTL DEF Spec

\* No crash, failure or race leaves a baseline without its receipt: the object
\* is put before the row, and only the cleanup removes it.
THEOREM ArtifactStays == Spec => []RowHasArtifact
<1>1. IndInv => RowHasArtifact
  BY DEF IndInv
<1> QED BY <1>1, Inductive, PTL

\* Two acknowledged creates never mix: a receipt that is not the row's own was
\* put there by a create that was refused or failed.
THEOREM WinnersDoNotMix == Spec => []MismatchNeedsLoser
<1>1. IndInv => MismatchNeedsLoser
  <2> SUFFICES ASSUME IndInv, NEW v \in Versions, rows[v] # None, objects[v] # None,
                      result[objects[v].by] = "ok"
               PROVE  objects[v].receipt = rows[v].content_hash
    BY DEF MismatchNeedsLoser
  <2>1. /\ Creates(objects[v].by, v, objects[v].receipt)
        /\ Creates(rows[v].id, v, rows[v].content_hash)
    BY DEF IndInv, WrittenByCreate
  <2>2. objects[v].by \in Tasks
    BY DEF IndInv, TypeOK, Object
  <2>3. rows[v].id = objects[v].by
    BY <2>1, <2>2 DEF IndInv, AcknowledgedOwnsRow, Creates
  <2> QED BY <2>1, <2>3 DEF Creates
<1> QED BY <1>1, Inductive, PTL

\* What a reader is handed was uploaded under the version it asked for.
THEOREM ReadersAreServedUploads == Spec => []ServedWasUploaded
<1>1. IndInv => ServedWasUploaded
  BY DEF IndInv
<1> QED BY <1>1, Inductive, PTL

-----------------------------------------------------------------------------
(* The rows implement BaselineStore. *)

LEMMA InitRefines == Init => Promise!Init
BY DEF Init, NoRows, Ledger, Promise!Init, Promise!Absent

LEMMA InsertRefines ==
  ASSUME TypeInv, NEW t \in Tasks, pc[t] = "insert", InsertRow(t)
  PROVE  [Promise!Next]_Ledger
<1> DEFINE v == call[t].version
           rc == call[t].receipt
<1>1. v \in Versions /\ rc \in Receipts /\ NewRow(t) # None
      /\ NewRow(t).content_hash = rc /\ ~NewRow(t).deleted
  BY Fresh DEF TypeInv, NewRow
<1>2. rows[v] = None /\ rows' = [rows EXCEPT ![v] = NewRow(t)]
  BY DEF InsertRow, NewRow
<1>3. Ledger[v] = Promise!Absent
  BY <1>1, <1>2 DEF Ledger, Promise!Absent
<1>4. Ledger' = [Ledger EXCEPT ![v] = Promise!Live(rc)]
  <2>1. Ledger'[v] = Promise!Live(rc)
    BY <1>1, <1>2 DEF Ledger, TypeInv, TypeOK, Promise!Live
  <2>2. \A w \in Versions : w # v => Ledger'[w] = Ledger[w]
    BY <1>1, <1>2 DEF Ledger, TypeInv, TypeOK
  <2> QED BY <2>1, <2>2 DEF Ledger
<1>5. Promise!Publish(v, rc)
  BY <1>3, <1>4 DEF Promise!Publish
<1> QED BY <1>1, <1>5 DEF Promise!Next

LEMMA MarkRefines ==
  ASSUME TypeInv, NEW t \in Tasks, pc[t] = "mark", MarkRow(t)
  PROVE  [Promise!Next]_Ledger
<1> DEFINE v == call[t].version
           x == rows[v]
           y == [x EXCEPT !.deleted = TRUE]
<1>1. v \in Versions
  BY Arguments DEF TypeInv, StepMatchesCall
<1>2. x \in Row /\ ~x.deleted /\ x.content_hash \in Receipts /\ x # None
  BY <1>1 DEF MarkRow, IsLive, TypeInv, TypeOK, Row
<1>3. y.content_hash = x.content_hash /\ y.deleted /\ y # None
  BY <1>2, MarkedRow
<1>4. rows' = [rows EXCEPT ![v] = y]
  BY DEF MarkRow
<1> HIDE DEF y
<1>5. Ledger[v] = Promise!Live(x.content_hash)
  BY <1>1, <1>2 DEF Ledger, Promise!Live
<1>6. Ledger' = [Ledger EXCEPT ![v] = Promise!Gone(x.content_hash)]
  <2>1. Ledger'[v] = Promise!Gone(x.content_hash)
    BY <1>1, <1>3, <1>4 DEF Ledger, TypeInv, TypeOK, Promise!Gone
  <2>2. \A w \in Versions : w # v => Ledger'[w] = Ledger[w]
    BY <1>1, <1>4 DEF Ledger, TypeInv, TypeOK
  <2> QED BY <2>1, <2>2 DEF Ledger
<1>7. Promise!Withdraw(v)
  BY <1>2, <1>5, <1>6 DEF Promise!Withdraw
<1> QED BY <1>1, <1>7 DEF Promise!Next

LEMMA NextRefines == TypeInv /\ [Next]_vars => [Promise!Next]_Ledger
<1> SUFFICES ASSUME TypeInv, [Next]_vars PROVE [Promise!Next]_Ledger
  OBVIOUS
<1>1. CASE UNCHANGED rows
  BY <1>1 DEF Ledger
<1>2. ASSUME NEW t \in Tasks, Step(t) PROVE [Promise!Next]_Ledger
  BY <1>1, <1>2, RowSteps, InsertRefines, MarkRefines
<1>3. ASSUME NEW s \in Sweepers, Sweep(s) PROVE [Promise!Next]_Ledger
  BY <1>1, <1>3, SweepType DEF Elsewhere
<1>4. CASE Tick \/ Crash \/ UNCHANGED vars
  BY <1>1, <1>4, OutsideType DEF Elsewhere
<1> QED BY <1>2, <1>3, <1>4 DEF Next, Step

\* The baselines table by itself keeps the promise of BaselineStore: versions
\* are created once, never change their content hash, never return.
THEOREM RowsRefineStore == Spec => RowsImplementStore
<1>1. Spec => []TypeInv
  BY InitType, NextType, PTL DEF Spec
<1> QED BY <1>1, InitRefines, NextRefines, PTL DEF Spec, RowsImplementStore, Promise!Spec
=============================================================================
