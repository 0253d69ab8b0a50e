---------------------------- MODULE BaselineClient ----------------------------
(***************************************************************************)
(* perfgate-client against the baseline service over HTTP: BaselineClient  *)
(* with its retries, wrapped by FallbackClient with its local directory.   *)
(*                                                                         *)
(* The network may refuse a connection, lose a request or an answer, or    *)
(* deliver a request after the client has stopped waiting for it.  The     *)
(* server keeps the promise of BaselineStore; "append" stands for the      *)
(* posts that have no name of their own and so never conflict: verdicts,   *)
(* decisions and dependency events.                                        *)
(***************************************************************************)
EXTENDS Integers, FiniteSets

CONSTANTS
  Calls,       \* calls of the client library
  Versions,    \* versions of one benchmark
  Receipts,    \* run receipts
  MaxRetries,  \* RetryConfig::max_retries
  HasFallback, \* FallbackClient was given a directory
  Torn,        \* what is left of a local file when fs::write fails half way
  None         \* Option::None

\* Up to 31 retries delay_for_attempt's 2u32.pow(attempt) stays within u32; the
\* length of a backoff is not modelled.
ASSUME RetriesAssumption == MaxRetries \in 0..31
ASSUME FallbackAssumption == HasFallback \in BOOLEAN
ASSUME NoneAssumption ==
  /\ None \notin Versions /\ None \notin Receipts
  /\ Torn # None /\ Torn \notin Receipts

Job == [op : {"upload", "get", "delete", "append"}, version : Versions \cup {None},
        receipt : Receipts \cup {None}]

WellFormed(j) ==
  /\ j.op = "append" <=> j.version = None
  /\ j.op \in {"upload", "append"} <=> j.receipt # None

\* How a call ends: an answer from the server or from the local directory, or
\* the class of ClientError it returns.
Errors == {"NotFound", "AlreadyExists", "Auth", "Http4xx", "Http5xx",
           "Connect", "Timeout", "Request", "Fallback", "Parse"}
Outcomes == {"", "ok", "local"} \cup Errors

Request == [call : Calls, attempt : Nat]
Statuses == {200, 201, 403, 404, 409, 429, 500, 503}
Reply == [call : Calls, attempt : Nat, status : Statuses, receipt : Receipts \cup {None}]

VARIABLES
  ledger,      \* the server's versions, as BaselineStore keeps them
  appended,    \* how many records of each append the server has stored
  local,       \* the fallback directory: version -> receipt, Torn or None
  job,         \* what each call asks for
  pc,          \* where it is
  attempts,    \* attempts that have failed
  outcome,     \* its result, "" while it runs
  got,         \* the receipt it returns
  requests,    \* requests on their way to the server
  replies      \* answers on their way back

Server == INSTANCE BaselineStore WITH Durable <- TRUE

client == <<job, pc, attempts, outcome, got>>
vars == <<ledger, appended, local, job, pc, attempts, outcome, got, requests, replies>>

Entry == [state : {"absent"}] \cup [state : {"live", "gone"}, receipt : Receipts]

TypeOK ==
  /\ ledger \in [Versions -> Entry]
  /\ appended \in [Calls -> Nat]
  /\ local \in [Versions -> Receipts \cup {Torn, None}]
  /\ job \in [Calls -> Job \cup {None}]
  /\ pc \in [Calls -> {"idle", "waiting", "backoff", "fallback", "done"}]
  /\ attempts \in [Calls -> Nat]
  /\ outcome \in [Calls -> Outcomes]
  /\ got \in [Calls -> Receipts \cup {None}]
  /\ requests \subseteq Request
  /\ replies \subseteq Reply

-----------------------------------------------------------------------------
(* Classifying an error. *)

\* The body of an error: the server sends ApiError, a flat {code, message};
\* a 503 comes from a proxy in front of it.
Body(status) ==
  [shape |-> IF status = 503 THEN "text" ELSE "flat",
   code  |-> CASE status = 403 -> "forbidden" [] status = 404 -> "not_found"
               [] status = 409 -> "conflict" [] OTHER -> "internal_error"]

\* ClientError::from_http: the specific classes need {error: {code, message}}
\* with an upper-case code; every other body keeps the status.
FromHttp(status) ==
  LET body == Body(status) IN
    IF body.shape = "nested" /\ body.code \in {"FORBIDDEN", "NOT_FOUND", "ALREADY_EXISTS"}
      THEN CASE body.code = "FORBIDDEN" -> "Auth"
             [] body.code = "NOT_FOUND" -> "NotFound"
             [] body.code = "ALREADY_EXISTS" -> "AlreadyExists"
      ELSE IF status >= 500 \/ status = 429 THEN "Http5xx" ELSE "Http4xx"

\* is_retryable: a 429 counts with the 5xx.
IsRetryable(e) == e \in {"Http5xx", "Connect", "Timeout"}

\* Mutant of IsConnectionError: every error falls back.
IsConnectionError_Any(e) == TRUE

\* is_connection_error; RetryExhausted is never constructed.
IsConnectionError(e) == e \in {"Connect", "Timeout"}

-----------------------------------------------------------------------------
(* One attempt. *)

Current(c) == [call |-> c, attempt |-> attempts[c]]

Return(c, out, rc) ==
  /\ pc' = [pc EXCEPT ![c] = "done"]
  /\ outcome' = [outcome EXCEPT ![c] = out]
  /\ got' = [got EXCEPT ![c] = rc]

\* FallbackClient: only reads and uploads of a version fall back.
FallsBack(c, e) ==
  HasFallback /\ IsConnectionError(e) /\ job[c].op \in {"upload", "get"}

\* Mutant of Fail: one attempt too many.
Fail_OffByOne(c, e) ==
  LET n == attempts[c] + 1 IN
    IF IsRetryable(e) /\ n <= MaxRetries + 1
      THEN /\ attempts' = [attempts EXCEPT ![c] = n]
           /\ pc' = [pc EXCEPT ![c] = "backoff"]
           /\ UNCHANGED <<outcome, got>>
      ELSE /\ attempts' = [attempts EXCEPT ![c] = n]
           /\ IF FallsBack(c, e)
                THEN pc' = [pc EXCEPT ![c] = "fallback"] /\ UNCHANGED <<outcome, got>>
                ELSE Return(c, e, None)

\* Mutant of Fail: the counter is not advanced.
Fail_NeverCounts(c, e) ==
  IF IsRetryable(e)
    THEN /\ pc' = [pc EXCEPT ![c] = "backoff"]
         /\ UNCHANGED <<attempts, outcome, got>>
    ELSE /\ Return(c, e, None)
         /\ UNCHANGED attempts

\* execute_with_retry, an attempt has failed with e; then FallbackClient.
Fail(c, e) ==
  LET n == attempts[c] + 1 IN
    /\ attempts' = [attempts EXCEPT ![c] = n]
    /\ IF IsRetryable(e) /\ n <= MaxRetries
         THEN /\ pc' = [pc EXCEPT ![c] = "backoff"]
              /\ UNCHANGED <<outcome, got>>
         ELSE IF FallsBack(c, e)
                THEN pc' = [pc EXCEPT ![c] = "fallback"] /\ UNCHANGED <<outcome, got>>
                ELSE Return(c, e, None)

Start(c, j) ==
  /\ pc[c] = "idle"
  /\ WellFormed(j)
  /\ job' = [job EXCEPT ![c] = j]
  /\ pc' = [pc EXCEPT ![c] = "waiting"]
  /\ requests' = requests \cup {Current(c)}
  /\ UNCHANGED <<ledger, appended, local, attempts, outcome, got, replies>>

\* The backoff is over: the same request again.
Resend(c) ==
  /\ pc[c] = "backoff"
  /\ pc' = [pc EXCEPT ![c] = "waiting"]
  /\ requests' = requests \cup {Current(c)}
  /\ UNCHANGED <<ledger, appended, local, job, attempts, outcome, got, replies>>

\* The connection is refused: the server never sees the request.
ConnectFails(c) ==
  /\ pc[c] = "waiting"
  /\ Current(c) \in requests
  /\ requests' = requests \ {Current(c)}
  /\ Fail(c, "Connect")
  /\ UNCHANGED <<ledger, appended, local, job, replies>>

\* The client stops waiting.  Its request may still be on the way; an answer
\* that arrives now is dropped with the connection.
Timeout(c) ==
  /\ pc[c] = "waiting"
  /\ replies' = {m \in replies : m.call # c}
  /\ Fail(c, "Timeout")
  /\ UNCHANGED <<ledger, appended, local, job, requests>>

\* The connection breaks under a request already sent: an error of reqwest
\* that is neither is_connect nor is_timeout.
ConnectionBreaks(c) ==
  /\ pc[c] = "waiting"
  /\ replies' = {m \in replies : m.call # c}
  /\ Fail(c, "Request")
  /\ UNCHANGED <<ledger, appended, local, job, requests>>

\* Mutant of Receive: a conflict on a retry is taken for the call's own upload.
Receive_ConflictIsOwn(c) ==
  /\ pc[c] = "waiting"
  /\ \E m \in replies :
       /\ m.call = c /\ m.attempt = attempts[c]
       /\ replies' = replies \ {m}
       /\ IF m.status \in {200, 201} \/ (m.status = 409 /\ m.attempt > 0)
            THEN Return(c, "ok", m.receipt) /\ UNCHANGED attempts
            ELSE Fail(c, FromHttp(m.status))
  /\ UNCHANGED <<ledger, appended, local, job, requests>>

\* The answer to the current attempt; an unreadable body of a success is an
\* error that is neither retried nor sent to the fallback.
Receive(c) ==
  /\ pc[c] = "waiting"
  /\ \E m \in replies :
       /\ m.call = c /\ m.attempt = attempts[c]
       /\ replies' = replies \ {m}
       /\ \/ /\ m.status \in {200, 201}
             /\ \/ Return(c, "ok", m.receipt)
                \/ Return(c, "Request", None)
             /\ UNCHANGED attempts
          \/ /\ m.status \notin {200, 201}
             /\ Fail(c, FromHttp(m.status))
  /\ UNCHANGED <<ledger, appended, local, job, requests>>

\* LocalFallbackStorage: save_baseline overwrites in place, and may fail
\* before the write or in the middle of it; get_baseline_version reads.
Fallback(c) ==
  /\ pc[c] = "fallback"
  /\ LET v == job[c].version IN
       \/ /\ job[c].op = "upload"
          /\ \/ Return(c, "local", None) /\ local' = [local EXCEPT ![v] = job[c].receipt]
             \/ Return(c, "Fallback", None) /\ local' = [local EXCEPT ![v] = Torn]
             \/ Return(c, "Fallback", None) /\ UNCHANGED local
       \/ /\ job[c].op = "get"
          /\ \/ local[v] \in Receipts /\ Return(c, "local", local[v])
             \/ local[v] = Torn /\ Return(c, "Parse", None)
             \/ local[v] = None /\ Return(c, "NotFound", None)
             \/ Return(c, "Fallback", None)
          /\ UNCHANGED local
  /\ UNCHANGED <<ledger, appended, job, attempts, requests, replies>>

-----------------------------------------------------------------------------
(* The server's side of one request. *)

Answer(q, status, rc) ==
  replies' = IF pc[q.call] = "waiting" /\ q.attempt = attempts[q.call]
               THEN replies \cup {[call |-> q.call, attempt |-> q.attempt,
                                   status |-> status, receipt |-> rc]}
               ELSE replies

\* The request takes effect as BaselineStore allows, or is refused.
Serve(q) ==
  /\ requests' = requests \ {q}
  /\ LET j == job[q.call]
         v == j.version
     IN \/ /\ j.op = "upload" /\ Server!Publish(v, j.receipt)
           /\ Answer(q, 201, None) /\ UNCHANGED appended
        \/ /\ j.op = "upload" /\ ledger[v] # Server!Absent
           /\ Answer(q, 409, None) /\ UNCHANGED <<ledger, appended>>
        \/ /\ j.op = "get" /\ ledger[v].state = "live"
           /\ Answer(q, 200, ledger[v].receipt) /\ UNCHANGED <<ledger, appended>>
        \/ /\ j.op = "delete" /\ Server!Withdraw(v)
           /\ Answer(q, 200, None) /\ UNCHANGED appended
        \/ /\ j.op \in {"get", "delete"} /\ ledger[v].state # "live"
           /\ Answer(q, 404, None) /\ UNCHANGED <<ledger, appended>>
        \/ /\ j.op = "append"
           /\ appended' = [appended EXCEPT ![q.call] = @ + 1]
           /\ Answer(q, 201, None) /\ UNCHANGED ledger
  /\ UNCHANGED <<local>> /\ UNCHANGED client

\* Refused before it takes effect: scope, rate limit, storage failure, proxy.
Refuse(q) ==
  /\ requests' = requests \ {q}
  /\ \E status \in {403, 429, 500, 503} : Answer(q, status, None)
  /\ UNCHANGED <<ledger, appended, local>> /\ UNCHANGED client

\* The request is lost on the way.
Lose(q) ==
  /\ requests' = requests \ {q}
  /\ UNCHANGED <<ledger, appended, local, replies>> /\ UNCHANGED client

-----------------------------------------------------------------------------

Init ==
  /\ Server!Init
  /\ appended = [c \in Calls |-> 0]
  /\ local = [v \in Versions |-> None]
  /\ job = [c \in Calls |-> None]
  /\ pc = [c \in Calls |-> "idle"]
  /\ attempts = [c \in Calls |-> 0]
  /\ outcome = [c \in Calls |-> ""]
  /\ got = [c \in Calls |-> None]
  /\ requests = {}
  /\ replies = {}

Client(c) == Resend(c) \/ ConnectFails(c) \/ Timeout(c) \/ Receive(c) \/ Fallback(c)

Next ==
  \/ \E c \in Calls : (\E j \in Job : Start(c, j)) \/ Client(c) \/ ConnectionBreaks(c)
  \/ \E q \in requests : Serve(q) \/ Refuse(q) \/ Lose(q)

\* reqwest's timeout and tokio's timers fire: a waiting client always moves on.
\* Nothing is assumed of the network or the server.
Fairness == \A c \in Calls : WF_vars(Client(c))

Spec == Init /\ [][Next]_vars
FairSpec == Spec /\ Fairness

-----------------------------------------------------------------------------
(* Properties. *)

\* What a call reports about an upload is true of the server, whatever its
\* earlier, late or duplicated attempts did: a success means the version holds
\* this call's receipt, and a version read from the server is one that was
\* uploaded under that name.
AnswersAreTruthful ==
  \A c \in Calls :
    /\ (outcome[c] = "ok" /\ job[c].op = "upload") =>
         /\ ledger[job[c].version] # Server!Absent
         /\ ledger[job[c].version].receipt = job[c].receipt
    /\ (outcome[c] = "ok" /\ job[c].op = "get") =>
         /\ ledger[job[c].version] # Server!Absent
         /\ ledger[job[c].version].receipt = got[c]

\* A retried post that the server does not deduplicate is stored at most once
\* per attempt, late deliveries included, and at least once when the call
\* succeeds (execute_with_retry, max_retries).
AppendsBounded ==
  \A c \in Calls :
    /\ appended[c] <= MaxRetries + 1
    /\ (outcome[c] = "ok" /\ job[c].op = "append") => appended[c] >= 1

\* The local directory is the last resort: a call ends there only when it is
\* out of attempts (a refusal by the server ends it earlier, and is never
\* hidden by a local copy), and every receipt in the directory is that of an
\* upload that ended there, whatever other calls overwrote it.
FallbackIsLastResort ==
  /\ \A c \in Calls : outcome[c] = "local" =>
       /\ HasFallback
       /\ attempts[c] = MaxRetries + 1
       /\ job[c].op \in {"upload", "get"}
  /\ \A v \in Versions : local[v] \in Receipts =>
       \E c \in Calls : /\ outcome[c] = "local" /\ job[c].op = "upload"
                        /\ job[c].version = v /\ job[c].receipt = local[v]

\* Every call returns, whether or not the server ever answers.
EveryCallReturns == \A c \in Calls : (pc[c] # "idle") ~> (pc[c] = "done")

=============================================================================
