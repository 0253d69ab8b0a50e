-------------------------- MODULE ArtifactBaselines --------------------------
(***************************************************************************)
(* A SQL baseline store (SQLite or PostgreSQL) whose receipts live in an   *)
(* object store: a row holds the metadata, an object the receipt, and the  *)
(* two are written and read in separate awaits with no transaction around  *)
(* them.  The artifact cleanup deletes objects behind the rows' back.      *)
(*                                                                         *)
(* Rows and objects of one benchmark are modelled; the object path         *)
(* project/benchmark/version.json is named by its version.  A task is one  *)
(* call of a store operation by a request handler.                         *)
(***************************************************************************)
EXTENDS Integers, FiniteSets

CONSTANTS
  Tasks,      \* calls of a store operation
  Versions,   \* versions of the benchmark
  Receipts,   \* run receipts; content_hash tells any two of them apart
  Sweepers,   \* cleanup passes: the background task and admin requests
  Retention,  \* retention periods in use, in clock units
  MaxClock,   \* bound on the wall clock
  None        \* SQL NULL, a missing object

ASSUME RetentionAssumption == Retention \subseteq Nat \ {0}
ASSUME MaxClockAssumption == MaxClock \in Nat

Row == [id : Tasks, content_hash : Receipts, created_at : Nat, deleted : BOOLEAN]

\* by is not stored: it names the call that wrote the object.
Object == [receipt : Receipts, last_modified : Nat, by : Tasks]

\* at is the clock when the caller built the record it creates.
Call == [op : {"create", "get", "latest", "list", "delete"},
         version : Versions \cup {None}, receipt : Receipts \cup {None}, at : Nat]

WellFormed(c) ==
  /\ c.op \in {"create", "get", "delete"} <=> c.version # None
  /\ c.op = "create" <=> c.receipt # None

Loaded == [version : Versions, content_hash : Receipts, receipt : Receipts]

ASSUME NullAssumption == None \notin Row /\ None \notin Object /\ None \notin Call
                         /\ None \notin Versions /\ None \notin Receipts

VARIABLES
  rows,       \* the baselines table: version -> row, or None
  objects,    \* the object store: version -> object, or None
  clock,      \* wall clock
  pc,         \* where each call is
  call,       \* its arguments
  result,     \* its outcome, "" while it runs
  page,       \* rows it has selected and not yet loaded: version -> row, or None
  served,     \* the records it has loaded
  spc,        \* where each cleanup pass is
  cutoff,     \* its retention cutoff
  doomed,     \* listed objects it still has to delete
  swept       \* auxiliary: objects a cleanup deleted and nobody wrote again

task == <<pc, call, result, page, served>>
sweep == <<spc, cutoff, doomed>>
vars == <<rows, objects, clock, pc, call, result, page, served, spc, cutoff, doomed, swept>>

TypeOK ==
  /\ rows \in [Versions -> Row \cup {None}]
  /\ objects \in [Versions -> Object \cup {None}]
  /\ clock \in Nat
  /\ pc \in [Tasks -> {"idle", "put", "insert", "select", "load", "mark", "done", "lost"}]
  /\ call \in [Tasks -> Call \cup {None}]
  /\ result \in [Tasks -> {"", "ok", "exists", "missing", "failed"}]
  /\ page \in [Tasks -> [Versions -> Row \cup {None}]]
  /\ served \in [Tasks -> SUBSET Loaded]
  /\ spc \in [Sweepers -> {"idle", "list", "delete"}]
  /\ cutoff \in [Sweepers -> Int]
  /\ doomed \in [Sweepers -> SUBSET Versions]
  /\ swept \in SUBSET Versions

-----------------------------------------------------------------------------
(* Store operations. *)

NoRows == [v \in Versions |-> None]
IsLive(v) == rows[v] # None /\ ~rows[v].deleted
LiveVersions == {v \in Versions : IsLive(v)}

\* ORDER BY created_at DESC: SQL leaves the order of equal stamps open.
Newest(rs) ==
  {v \in Versions : rs[v] # None /\ \A w \in Versions : rs[w] # None =>
                                      rs[w].created_at <= rs[v].created_at}

\* The rows among vs, as SELECT returns them.
Select(vs) == [v \in Versions |-> IF v \in vs THEN rows[v] ELSE None]

Return(t, res) ==
  /\ pc' = [pc EXCEPT ![t] = "done"]
  /\ result' = [result EXCEPT ![t] = res]

Goto(t, step) ==
  /\ pc' = [pc EXCEPT ![t] = step]
  /\ UNCHANGED result

FirstStep == [create |-> "put", get |-> "select", latest |-> "select",
              list |-> "select", delete |-> "mark"]

Begin(t, c) ==
  /\ pc[t] = "idle"
  /\ WellFormed(c)
  /\ c.at = (IF c.op = "create" THEN clock ELSE 0)
  /\ call' = [call EXCEPT ![t] = c]
  /\ Goto(t, FirstStep[c.op])
  /\ UNCHANGED <<rows, objects, swept, clock, page, served>> /\ UNCHANGED sweep

PutObject(t) ==
  /\ objects' = [objects EXCEPT ![call[t].version] =
                   [receipt |-> call[t].receipt, last_modified |-> clock, by |-> t]]
  /\ swept' = swept \ {call[t].version}

\* Mutant of StoreArtifact: the put is started and not awaited.
StoreArtifact_NotAwaited(t) ==
  /\ pc[t] = "put"
  /\ Goto(t, "insert")
  /\ UNCHANGED <<rows, objects, swept, clock, call, page, served>> /\ UNCHANGED sweep

\* create, first await: the object is written over whatever is at its path.
StoreArtifact(t) ==
  /\ pc[t] = "put"
  /\ PutObject(t)
  /\ Goto(t, "insert")
  /\ UNCHANGED <<rows, clock, call, page, served>> /\ UNCHANGED sweep

InsertRow(t) ==
  /\ rows[call[t].version] = None
  /\ rows' = [rows EXCEPT ![call[t].version] =
                [id |-> t, content_hash |-> call[t].receipt,
                 created_at |-> call[t].at, deleted |-> FALSE]]

\* Mutant of Insert: INSERT OR REPLACE.
Insert_OrReplace(t) ==
  /\ pc[t] = "insert"
  /\ rows' = [rows EXCEPT ![call[t].version] =
                [id |-> t, content_hash |-> call[t].receipt,
                 created_at |-> call[t].at, deleted |-> FALSE]]
  /\ Return(t, "ok")
  /\ UNCHANGED <<objects, swept, clock, call, page, served>> /\ UNCHANGED sweep

\* create, second await: the row, unless the version is taken (deleted or not).
Insert(t) ==
  /\ pc[t] = "insert"
  /\ \/ InsertRow(t) /\ Return(t, "ok")
     \/ rows[call[t].version] # None /\ Return(t, "exists") /\ UNCHANGED rows
  /\ UNCHANGED <<objects, swept, clock, call, page, served>> /\ UNCHANGED sweep

\* The rows get, get_latest and list ask for.
Wanted(t) ==
  CASE call[t].op = "get"    -> {{call[t].version} \cap LiveVersions}
    [] call[t].op = "list"   -> {LiveVersions}
    [] call[t].op = "latest" -> IF LiveVersions = {} THEN {{}}
                                ELSE {{v} : v \in Newest(Select(LiveVersions))}

\* get, get_latest and list(include_receipt), first await.
SelectRows(t) ==
  /\ pc[t] = "select"
  /\ \E vs \in Wanted(t) :
       /\ page' = [page EXCEPT ![t] = Select(vs)]
       /\ \/ vs = {} /\ Return(t, IF call[t].op = "list" THEN "ok" ELSE "missing")
          \/ vs # {} /\ Goto(t, "load")
  /\ UNCHANGED <<rows, objects, swept, clock, call, served>> /\ UNCHANGED sweep

\* Mutant of LoadArtifact: a missing object is waited for.
LoadArtifact_Waits(t) ==
  /\ pc[t] = "load"
  /\ \E v \in Newest(page[t]) :
       /\ objects[v] # None
       /\ page' = [page EXCEPT ![t][v] = None]
       /\ served' = [served EXCEPT ![t] = @ \cup
                       {[version |-> v, content_hash |-> page[t][v].content_hash,
                         receipt |-> objects[v].receipt]}]
       /\ IF page'[t] = NoRows THEN Return(t, "ok") ELSE Goto(t, "load")
  /\ UNCHANGED <<rows, objects, swept, clock, call>> /\ UNCHANGED sweep

\* Mutant of LoadArtifact: a missing object is served as a default receipt.
LoadArtifact_OrDefault(t) ==
  /\ pc[t] = "load"
  /\ \E v \in Newest(page[t]), rc \in Receipts :
       /\ objects[v] # None => rc = objects[v].receipt
       /\ page' = [page EXCEPT ![t][v] = None]
       /\ served' = [served EXCEPT ![t] = @ \cup
                       {[version |-> v, content_hash |-> page[t][v].content_hash,
                         receipt |-> rc]}]
       /\ IF page'[t] = NoRows THEN Return(t, "ok") ELSE Goto(t, "load")
  /\ UNCHANGED <<rows, objects, swept, clock, call>> /\ UNCHANGED sweep

\* load_artifact, one await per selected row: the first object missing fails
\* the whole call.
LoadArtifact(t) ==
  /\ pc[t] = "load"
  /\ \E v \in Newest(page[t]) :
       \/ /\ objects[v] = None
          /\ Return(t, "failed")
          /\ UNCHANGED <<page, served>>
       \/ /\ objects[v] # None
          /\ page' = [page EXCEPT ![t][v] = None]
          /\ served' = [served EXCEPT ![t] = @ \cup
                          {[version |-> v, content_hash |-> page[t][v].content_hash,
                            receipt |-> objects[v].receipt]}]
          /\ IF page'[t] = NoRows THEN Return(t, "ok") ELSE Goto(t, "load")
  /\ UNCHANGED <<rows, objects, swept, clock, call>> /\ UNCHANGED sweep

\* Mutant of MarkDeleted: the row is removed.
MarkDeleted_Hard(t) ==
  /\ pc[t] = "mark"
  /\ LET v == call[t].version IN
       \/ IsLive(v) /\ rows' = [rows EXCEPT ![v] = None] /\ Return(t, "ok")
       \/ ~IsLive(v) /\ Return(t, "missing") /\ UNCHANGED rows
  /\ UNCHANGED <<objects, swept, clock, call, page, served>> /\ UNCHANGED sweep

MarkRow(t) ==
  /\ IsLive(call[t].version)
  /\ rows' = [rows EXCEPT ![call[t].version].deleted = TRUE]

\* delete: UPDATE ... SET deleted = 1 WHERE deleted = 0.  The object stays.
MarkDeleted(t) ==
  /\ pc[t] = "mark"
  /\ \/ MarkRow(t) /\ Return(t, "ok")
     \/ ~IsLive(call[t].version) /\ Return(t, "missing") /\ UNCHANGED rows
  /\ UNCHANGED <<objects, swept, clock, call, page, served>> /\ UNCHANGED sweep

\* A database or object-store call fails; whether a write took effect is unknown.
StorageFails(t) ==
  /\ pc[t] \in {"put", "insert", "select", "load", "mark"}
  /\ Return(t, "failed")
  /\ \/ UNCHANGED <<rows, objects, swept>>
     \/ pc[t] = "put" /\ PutObject(t) /\ UNCHANGED rows
     \/ pc[t] = "insert" /\ InsertRow(t) /\ UNCHANGED <<objects, swept>>
     \/ pc[t] = "mark" /\ MarkRow(t) /\ UNCHANGED <<objects, swept>>
  /\ UNCHANGED <<clock, call, page, served>> /\ UNCHANGED sweep

-----------------------------------------------------------------------------
(* run_cleanup. *)

\* The cutoff is taken before the objects are listed.
StartSweep(s, days) ==
  /\ spc[s] = "idle"
  /\ cutoff' = [cutoff EXCEPT ![s] = clock - days]
  /\ spc' = [spc EXCEPT ![s] = "list"]
  /\ UNCHANGED <<rows, objects, swept, clock, doomed>> /\ UNCHANGED task

Expired(s) == {v \in Versions : objects[v] # None /\ objects[v].last_modified < cutoff[s]}

\* Lists every object; the loop will visit those older than the cutoff.
ListObjects(s) ==
  /\ spc[s] = "list"
  /\ doomed' = [doomed EXCEPT ![s] = Expired(s)]
  /\ spc' = [spc EXCEPT ![s] = IF doomed'[s] = {} THEN "idle" ELSE "delete"]
  /\ UNCHANGED <<rows, objects, swept, clock, cutoff>> /\ UNCHANGED task

\* A listing that fails ends the pass.
ListFails(s) ==
  /\ spc[s] = "list"
  /\ spc' = [spc EXCEPT ![s] = "idle"]
  /\ UNCHANGED <<rows, objects, swept, clock, cutoff, doomed>> /\ UNCHANGED task

\* One object of the list, by its path alone; a failure is counted and skipped.
SweepObject(s) ==
  /\ spc[s] = "delete"
  /\ \E v \in doomed[s] :
       /\ \/ objects' = [objects EXCEPT ![v] = None] /\ swept' = swept \cup {v}
          \/ UNCHANGED <<objects, swept>>
       /\ doomed' = [doomed EXCEPT ![s] = @ \ {v}]
       /\ spc' = [spc EXCEPT ![s] = IF doomed'[s] = {} THEN "idle" ELSE "delete"]
  /\ UNCHANGED <<rows, clock, cutoff>> /\ UNCHANGED task

-----------------------------------------------------------------------------

Tick ==
  /\ clock < MaxClock
  /\ clock' = clock + 1
  /\ UNCHANGED <<rows, objects, swept>> /\ UNCHANGED task /\ UNCHANGED sweep

\* The server dies: rows and objects stay, calls and cleanup passes are gone.
Crash ==
  /\ pc' = [t \in Tasks |-> IF pc[t] \in {"idle", "done"} THEN pc[t] ELSE "lost"]
  /\ spc' = [s \in Sweepers |-> "idle"]
  /\ doomed' = [s \in Sweepers |-> {}]
  /\ UNCHANGED <<rows, objects, swept, clock, call, result, page, served, cutoff>>

Init ==
  /\ rows = NoRows
  /\ objects = [v \in Versions |-> None]
  /\ clock = 0
  /\ pc = [t \in Tasks |-> "idle"]
  /\ call = [t \in Tasks |-> None]
  /\ result = [t \in Tasks |-> ""]
  /\ page = [t \in Tasks |-> NoRows]
  /\ served = [t \in Tasks |-> {}]
  /\ spc = [s \in Sweepers |-> "idle"]
  /\ cutoff = [s \in Sweepers |-> 0]
  /\ doomed = [s \in Sweepers |-> {}]
  /\ swept = {}

Handle(t) ==
  \/ StoreArtifact(t) \/ Insert(t) \/ SelectRows(t)
  \/ LoadArtifact(t) \/ MarkDeleted(t)

Receive(t) ==
  \E op \in {"create", "get", "latest", "list", "delete"},
     v \in Versions \cup {None}, rc \in Receipts \cup {None}, at \in {0, clock} :
    Begin(t, [op |-> op, version |-> v, receipt |-> rc, at |-> at])

Sweep(s) ==
  \/ \E days \in Retention : StartSweep(s, days)
  \/ ListObjects(s) \/ ListFails(s) \/ SweepObject(s)

Next ==
  \/ \E t \in Tasks : Receive(t) \/ Handle(t) \/ StorageFails(t)
  \/ \E s \in Sweepers : Sweep(s)
  \/ Tick
  \/ Crash

\* A pending call is polled until it returns (tokio schedules ready tasks).
Spec == Init /\ [][Next]_vars
FairSpec == Spec /\ \A t \in Tasks : WF_vars(Handle(t))

-----------------------------------------------------------------------------
(* Properties. *)

\* t is a create of version v with receipt rc.
Creates(t, v, rc) ==
  call[t] # None /\ call[t].op = "create" /\ call[t].version = v /\ call[t].receipt = rc

\* The object is written before its row, so that no crash, failure or race
\* leaves a baseline whose receipt cannot be read: only the cleanup can take it
\* away (store_artifact precedes the INSERT in create).
RowHasArtifact ==
  \A v \in Versions : rows[v] # None => objects[v] # None \/ v \in swept

\* The receipt under a row is not the one its content_hash was computed from
\* only if a create that was NOT acknowledged wrote it: two acknowledged
\* uploads never mix.
MismatchNeedsLoser ==
  \A v \in Versions :
    (/\ rows[v] # None /\ objects[v] # None
     /\ objects[v].receipt # rows[v].content_hash) => result[objects[v].by] # "ok"

\* A receipt handed to a reader was uploaded under the very version asked for,
\* whatever was overwritten or swept between the SELECT and the load.
ServedWasUploaded ==
  \A t \in Tasks : \A x \in served[t] :
    \E u \in Tasks : Creates(u, x.version, x.receipt)

-----------------------------------------------------------------------------
(* The inductive invariant: rows and objects are traced to the call that     *)
(* wrote them.                                                               *)

StepMatchesCall ==
  \A t \in Tasks :
    /\ pc[t] = "idle" => call[t] = None
    /\ pc[t] # "idle" => call[t] # None /\ WellFormed(call[t])
    /\ pc[t] \in {"put", "insert"} => call[t].op = "create"
    /\ pc[t] \in {"select", "load"} => call[t].op \in {"get", "latest", "list"}
    /\ pc[t] = "mark" => call[t].op = "delete"
    /\ result[t] # "" => pc[t] = "done"

\* Whatever the tables hold was written by a create of that version.
WrittenByCreate ==
  \A v \in Versions :
    /\ rows[v] # None => Creates(rows[v].id, v, rows[v].content_hash)
    /\ objects[v] # None => Creates(objects[v].by, v, objects[v].receipt)

\* An acknowledged create owns its version's row for good.
AcknowledgedOwnsRow ==
  \A t \in Tasks :
    (result[t] = "ok" /\ call[t].op = "create") =>
      rows[call[t].version] # None /\ rows[call[t].version].id = t

\* Until it inserts its row only the cleanup can take a create's object away.
ArtifactPrecedesInsert ==
  \A t \in Tasks : pc[t] = "insert" =>
    objects[call[t].version] # None \/ call[t].version \in swept

\* Inductive, and implies RowHasArtifact, MismatchNeedsLoser, ServedWasUploaded.
IndInv ==
  /\ TypeOK
  /\ StepMatchesCall
  /\ WrittenByCreate
  /\ AcknowledgedOwnsRow
  /\ ArtifactPrecedesInsert
  /\ RowHasArtifact
  /\ ServedWasUploaded

-----------------------------------------------------------------------------

\* The rows by themselves keep the promise of the baseline store: one row per
\* version, for good, with the metadata it was created with.
Ledger ==
  [v \in Versions |->
     IF rows[v] = None THEN [state |-> "absent"]
     ELSE [state |-> IF rows[v].deleted THEN "gone" ELSE "live",
           receipt |-> rows[v].content_hash]]

Promise == INSTANCE BaselineStore WITH ledger <- Ledger, Durable <- TRUE

\* The baselines table implements BaselineStore with content_hash as content.
RowsImplementStore == Promise!Spec

\* Every call returns unless the process dies: a missing object fails a read,
\* it does not hold it.
EveryCallReturns ==
  \A t \in Tasks : (pc[t] # "idle") ~> (pc[t] \in {"done", "lost"})

=============================================================================
