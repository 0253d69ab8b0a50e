----------------------------- MODULE StoreQueries -----------------------------
(***************************************************************************)
(* The list operations of the three stores over one project's tables:      *)
(* filter, newest first, page, total, has_more.  A table is a finite set   *)
(* of records with an id and a created_at; a filter field that is Null is  *)
(* not given.  Each store has its own operators because each has its own   *)
(* code: the in-memory store filters in Rust, the others build SQL.        *)
(*                                                                         *)
(* Among equal stamps SQL leaves the order open and the in-memory store    *)
(* keeps insertion order; ids decide here, and the properties about pages  *)
(* look only at tables without such ties.                                  *)
(***************************************************************************)
EXTENDS Integers, FiniteSets

CONSTANT Null

\* An option that is not given, or given and equal.
Matches(wanted, actual) == wanted = Null \/ wanted = actual

Within(since, until, at) ==
  (since = Null \/ at >= since) /\ (until = Null \/ at <= until)

NewestFirst(r, s) ==
  r.created_at > s.created_at \/ (r.created_at = s.created_at /\ r.id <= s.id)

\* ORDER BY created_at DESC LIMIT limit OFFSET offset.
PageOf(rows, limit, offset) ==
  {r \in rows : Cardinality({s \in rows : NewestFirst(s, r)}) \in offset + 1 .. offset + limit}

Response(items, total, more) == [items |-> items, total |-> total, has_more |-> more]

\* In memory: everything follows from the filtered records.
FilteredPage(rows, q) ==
  LET page == PageOf(rows, q.limit, q.offset)
  IN Response(page, Cardinality(rows),
              q.offset + Cardinality(page) < Cardinality(rows))

\* Mutant of CountedPage: the page after next decides.
CountedPage_OffByOne(rows, counted, q) ==
  Response(PageOf(rows, q.limit, q.offset), Cardinality(counted),
           q.offset + q.limit + 1 < Cardinality(counted))

\* SQL: the page from one statement, the total from a COUNT over `counted`.
CountedPage(rows, counted, q) ==
  Response(PageOf(rows, q.limit, q.offset), Cardinality(counted),
           q.offset + q.limit < Cardinality(counted))

-----------------------------------------------------------------------------
(* Verdicts: a record has a benchmark and a status. *)

VerdictMatches(q, r) ==
  /\ Matches(q.benchmark, r.benchmark)
  /\ Matches(q.status, r.status)
  /\ Within(q.since, q.until, r.created_at)

MemoryListVerdicts(table, q) == FilteredPage({r \in table : VerdictMatches(q, r)}, q)

\* The COUNT has no filter but the project.
SqliteListVerdicts(table, q) == CountedPage({r \in table : VerdictMatches(q, r)}, table, q)

PostgresListVerdicts(table, q) == CountedPage({r \in table : VerdictMatches(q, r)}, table, q)

-----------------------------------------------------------------------------
(* Decisions: a record has a status (scenario, verdict and review_required *)
(* are filtered alike) and the set of rules it was accepted under.         *)

MemoryListDecisions(table, q) ==
  FilteredPage({r \in table :
                  /\ Matches(q.status, r.status)
                  /\ Matches(q.accepted, r.rules # {})
                  /\ q.rule = Null \/ q.rule \in r.rules}, q)

\* Rules are numbers; a name is part of another when its number is smaller.
PartOf(a, b) == a <= b

\* instr(accepted_rules, '"rule"') > 0: the quotes of the JSON string keep a
\* name from matching inside a longer one.
InEncodedList(rule, rules) == \E b \in rules : PartOf(rule, b) /\ PartOf(b, rule)

SqliteListDecisions(table, q) ==
  LET rows == {r \in table :
                 /\ Matches(q.status, r.status)
                 /\ q.accepted = Null \/ (q.accepted <=> r.rules # {})
                 /\ q.rule = Null \/ InEncodedList(q.rule, r.rules)}
  IN CountedPage(rows, rows, q)

\* jsonb_array_length and @> on the encoded list.
PostgresListDecisions(table, q) ==
  LET rows == {r \in table :
                 /\ Matches(q.status, r.status)
                 /\ q.accepted = Null \/ (q.accepted <=> Cardinality(r.rules) > 0)
                 /\ q.rule = Null \/ {q.rule} \subseteq r.rules}
  IN CountedPage(rows, rows, q)

\* latest_decision: the newest record, if any.
LatestDecision(table) == {r \in table : \A s \in table : NewestFirst(r, s)}

-----------------------------------------------------------------------------
(* Audit events: an event has an action (project, resource type and actor  *)
(* are filtered alike).                                                    *)

EventMatches(q, e) == Matches(q.action, e.action) /\ Within(q.since, q.until, e.created_at)

MemoryListEvents(table, q) == FilteredPage({e \in table : EventMatches(q, e)}, q)

SqliteListEvents(table, q) ==
  LET rows == {e \in table : EventMatches(q, e)} IN CountedPage(rows, rows, q)

\* The COUNT has no filter at all.
PostgresListEvents(table, q) == CountedPage({e \in table : EventMatches(q, e)}, table, q)

=============================================================================
