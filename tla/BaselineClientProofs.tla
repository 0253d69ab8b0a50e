------------------------- MODULE BaselineClientProofs -------------------------
(***************************************************************************)
(* Machine-checked proofs about BaselineClient, for any number of calls,   *)
(* versions, receipts and retries, over a network that loses, delays and   *)
(* reorders.                                                               *)
(***************************************************************************)
EXTENDS BaselineClient, FiniteSetTheorems, TLAPS

-----------------------------------------------------------------------------
(* The inductive invariant. *)

\* A call that runs has a job and no outcome; it has used up its attempts when
\* it comes to the fallback, and not while it waits.
CallInv(c) ==
  /\ pc[c] = "idle" => attempts[c] = 0 /\ appended[c] = 0
  /\ pc[c] # "idle" => job[c] \in Job /\ WellFormed(job[c])
  /\ pc[c] # "done" => outcome[c] = ""
  /\ pc[c] \in {"waiting", "backoff"} => attempts[c] <= MaxRetries
  /\ (pc[c] = "fallback" \/ outcome[c] = "local") =>
       /\ HasFallback /\ attempts[c] = MaxRetries + 1
       /\ job[c].op \in {"upload", "get"}
  /\ attempts[c] <= MaxRetries + 1
  /\ outcome[c] = "ok" => attempts[c] <= MaxRetries

\* What a success says about the server.
Truth(c, rc) ==
  LET v == job[c].version IN
  /\ job[c].op = "upload" => ledger[v] # Server!Absent /\ ledger[v].receipt = job[c].receipt
  /\ job[c].op = "get" => ledger[v] # Server!Absent /\ ledger[v].receipt = rc
  /\ job[c].op = "append" => appended[c] >= 1

\* A success on its way, or returned, is true.
RepliesAreTrue ==
  /\ \A m \in replies : /\ pc[m.call] # "idle"
                        /\ m.status \in {200, 201} => Truth(m.call, m.receipt)
  /\ \A c \in Calls : outcome[c] = "ok" => Truth(c, got[c])

\* Every receipt in the local directory was put there by a call that says so.
LocalIsOwned ==
  \A v \in Versions : local[v] \in Receipts =>
    \E c \in Calls : /\ outcome[c] = "local" /\ job[c].op = "upload"
                     /\ job[c].version = v /\ job[c].receipt = local[v]

\* The attempts a call has sent.
Sent(c) ==
  IF pc[c] = "idle" THEN 0
  ELSE IF pc[c] = "waiting" THEN attempts[c] + 1
  ELSE IF pc[c] = "done" THEN MaxRetries + 1 ELSE attempts[c]

InFlight(c) == {q \in requests : q.call = c}

\* An attempt is sent once, and stored at most once: those stored and those on
\* the way are never more than those sent.
Counted(c) ==
  /\ IsFiniteSet(InFlight(c))
  /\ \A q \in InFlight(c) : q.attempt < Sent(c)
  /\ appended[c] + Cardinality(InFlight(c)) <= Sent(c)

AttemptsCounted == \A c \in Calls : Counted(c)

TypeInv == TypeOK /\ (\A c \in Calls : CallInv(c)) /\ \A q \in requests : pc[q.call] # "idle"

-----------------------------------------------------------------------------
(* Type correctness. *)

ClientStep(c) == (\E j \in Job : Start(c, j)) \/ Client(c) \/ ConnectionBreaks(c)
ServerStep(q) == Serve(q) \/ Refuse(q) \/ Lose(q)

LEMMA RetriesNat == MaxRetries \in Nat
BY RetriesAssumption

\* A job that is asked for names what its operation needs.
LEMMA JobFields ==
  ASSUME NEW j \in Job, WellFormed(j)
  PROVE  /\ j.op \in {"upload", "get", "delete", "append"}
         /\ j.op # "append" => j.version \in Versions
         /\ j.op \in {"upload", "append"} => j.receipt \in Receipts
BY DEF Job, WellFormed

\* Every error of the server is one of ClientError's classes.
LEMMA FromHttpTyped ==
  ASSUME NEW status \in Statuses
  PROVE  FromHttp(status) \in {"Http5xx", "Http4xx"}
BY DEF FromHttp, Body, Statuses

\* An attempt that failed: a retry, the fallback when there is none left, or
\* the error.
Failed(c, e) ==
  /\ attempts[c] \in 0 .. MaxRetries
  /\ attempts' = [attempts EXCEPT ![c] = attempts[c] + 1]
  /\ \/ /\ pc' = [pc EXCEPT ![c] = "backoff"] /\ attempts[c] + 1 <= MaxRetries
        /\ outcome' = outcome /\ got' = got
     \/ /\ pc' = [pc EXCEPT ![c] = "fallback"] /\ attempts[c] + 1 = MaxRetries + 1
        /\ HasFallback /\ job[c].op \in {"upload", "get"}
        /\ outcome' = outcome /\ got' = got
     \/ /\ pc' = [pc EXCEPT ![c] = "done"]
        /\ outcome' = [outcome EXCEPT ![c] = e] /\ got' = [got EXCEPT ![c] = None]

LEMMA FailStep ==
  ASSUME TypeOK, NEW c \in Calls, CallInv(c), pc[c] = "waiting", NEW e \in Errors, Fail(c, e)
  PROVE  Failed(c, e)
<1>1. attempts[c] \in Nat /\ attempts[c] <= MaxRetries
  BY DEF TypeOK, CallInv
<1>2. IsConnectionError(e) => IsRetryable(e)
  BY DEF IsConnectionError, IsRetryable
<1> QED BY <1>1, <1>2, RetriesNat DEF Failed, Fail, FallsBack, Return

\* The four ways an attempt fails, and what else the step does.
Failing(c) ==
  \E e \in Errors :
    /\ pc[c] = "waiting" /\ Fail(c, e)
    /\ requests' \subseteq requests /\ replies' \subseteq replies
    /\ UNCHANGED <<ledger, appended, local, job>>

Succeeding(c) ==
  \E m \in replies :
    /\ pc[c] = "waiting" /\ m.call = c
    /\ \/ m.status \in {200, 201} /\ Return(c, "ok", m.receipt)
       \/ Return(c, "Request", None)
    /\ replies' \subseteq replies
    /\ UNCHANGED <<ledger, appended, local, job, requests, attempts>>

LEMMA ClientSteps ==
  ASSUME TypeOK, NEW c \in Calls, ClientStep(c)
  PROVE  \/ \E j \in Job : Start(c, j)
         \/ Resend(c) \/ Failing(c) \/ Succeeding(c) \/ Fallback(c)
<1>1. CASE ConnectFails(c)
  <2>1. "Connect" \in Errors /\ pc[c] = "waiting" /\ Fail(c, "Connect")
    BY <1>1 DEF ConnectFails, Errors
  <2> QED BY <1>1, <2>1 DEF ConnectFails, Failing
<1>2. CASE Timeout(c)
  <2>1. "Timeout" \in Errors /\ pc[c] = "waiting" /\ Fail(c, "Timeout")
    BY <1>2 DEF Timeout, Errors
  <2> QED BY <1>2, <2>1 DEF Timeout, Failing
<1>3. CASE ConnectionBreaks(c)
  <2>1. "Request" \in Errors /\ pc[c] = "waiting" /\ Fail(c, "Request")
    BY <1>3 DEF ConnectionBreaks, Errors
  <2> QED BY <1>3, <2>1 DEF ConnectionBreaks, Failing
<1>4. CASE Receive(c)
  <2>1. PICK m \in replies :
       /\ m.call = c /\ m.attempt = attempts[c]
       /\ replies' = replies \ {m}
       /\ \/ /\ m.status \in {200, 201}
             /\ \/ Return(c, "ok", m.receipt)
                \/ Return(c, "Request", None)
             /\ UNCHANGED attempts
          \/ /\ m.status \notin {200, 201}
             /\ Fail(c, FromHttp(m.status))
    BY <1>4 DEF Receive
  <2>2. CASE m.status \in {200, 201}
    BY <1>4, <2>1, <2>2 DEF Receive, Succeeding
  <2>3. CASE m.status \notin {200, 201}
    <3>1. FromHttp(m.status) \in Errors
      BY FromHttpTyped DEF TypeOK, Reply, Errors
    <3> QED BY <1>4, <2>1, <2>3, <3>1 DEF Receive, Failing
  <2> QED BY <2>2, <2>3
<1> QED BY <1>1, <1>2, <1>3, <1>4 DEF ClientStep, Client

\* A call's step does not touch another call.
SameCall(d) ==
  /\ pc'[d] = pc[d] /\ job'[d] = job[d] /\ attempts'[d] = attempts[d]
  /\ outcome'[d] = outcome[d] /\ got'[d] = got[d] /\ appended'[d] = appended[d]

LEMMA ClientFrame ==
  ASSUME TypeInv, NEW c \in Calls, ClientStep(c), NEW d \in Calls, d # c
  PROVE  SameCall(d)
<1> USE DEF TypeInv, TypeOK, SameCall
<1>1. CASE (\E j \in Job : Start(c, j)) \/ Resend(c)
  BY <1>1 DEF Start, Resend
<1>2. CASE Failing(c)
  <2>1. \E e \in Errors : Failed(c, e) /\ job' = job /\ appended' = appended
    BY <1>2, FailStep DEF Failing
  <2> QED BY <2>1 DEF Failed
<1>3. CASE Succeeding(c)
  BY <1>3 DEF Succeeding, Return
<1>4. CASE Fallback(c)
  BY <1>4 DEF Fallback, Return
<1> QED BY <1>1, <1>2, <1>3, <1>4, ClientSteps

\* The server and the network leave the clients alone.
LEMMA ServerFrame ==
  ASSUME TypeOK, NEW q \in requests, ServerStep(q)
  PROVE  /\ UNCHANGED client /\ local' = local /\ requests' = requests \ {q}
         /\ \A d \in Calls : d # q.call => appended'[d] = appended[d]
BY DEF ServerStep, Serve, Refuse, Lose, TypeOK

LEMMA ClientType ==
  ASSUME TypeInv, NEW c \in Calls, ClientStep(c)
  PROVE  TypeOK' /\ CallInv(c)' /\ \A q \in requests' : pc'[q.call] # "idle"
<1>a. TypeOK /\ CallInv(c)
  BY DEF TypeInv
<1>b. \A q \in requests : pc[q.call] # "idle"
  BY DEF TypeInv
<1>0. Current(c) \in Request /\ Current(c).call = c
  BY <1>a DEF Current, Request, TypeOK
<1>1. ASSUME NEW j \in Job, Start(c, j)
      PROVE  TypeOK' /\ CallInv(c)' /\ \A q \in requests' : pc'[q.call] # "idle"
  <2>1. TypeOK'
    BY <1>a, <1>0, <1>1 DEF Start, TypeOK
  <2>2. CallInv(c)'
    <3>1. /\ pc'[c] = "waiting" /\ job'[c] = j /\ WellFormed(j)
          /\ attempts'[c] = 0 /\ outcome'[c] = ""
      BY <1>a, <1>1 DEF Start, TypeOK, CallInv
    <3>2. attempts'[c] <= MaxRetries /\ attempts'[c] <= MaxRetries + 1
      <4>1. 0 <= MaxRetries /\ 0 <= MaxRetries + 1
        BY RetriesNat
      <4> QED BY <3>1, <4>1, Zenon
    <3> QED BY <1>a, <3>1, <3>2 DEF CallInv, WellFormed
  <2>3. \A q \in requests' : pc'[q.call] # "idle"
    BY <1>a, <1>b, <1>0, <1>1 DEF Start, TypeOK, Request
  <2> QED BY <2>1, <2>2, <2>3
<1>2. CASE Resend(c)
  <2>1. TypeOK'
    BY <1>a, <1>0, <1>2 DEF Resend, TypeOK
  <2>2. CallInv(c)'
    BY <1>a, <1>2, RetriesNat DEF Resend, TypeOK, CallInv
  <2>3. \A q \in requests' : pc'[q.call] # "idle"
    BY <1>a, <1>b, <1>0, <1>2 DEF Resend, TypeOK, Request
  <2> QED BY <2>1, <2>2, <2>3
<1>3. CASE Failing(c)
  <2>1. PICK e \in Errors : pc[c] = "waiting" /\ Fail(c, e)
    BY <1>3 DEF Failing
  <2>2. Failed(c, e) /\ job' = job
    BY <1>a, <1>3, <2>1, FailStep DEF Failing
  <2>3. /\ attempts' \in [Calls -> Nat] /\ outcome' \in [Calls -> Outcomes]
        /\ pc' \in [Calls -> {"idle", "waiting", "backoff", "fallback", "done"}]
        /\ got' \in [Calls -> Receipts \cup {None}]
    <3>1. attempts' \in [Calls -> Nat]
      BY <1>a, <2>2, RetriesNat DEF TypeOK, Failed
    <3>2. outcome' \in [Calls -> Outcomes]
      BY <1>a, <2>2 DEF TypeOK, Failed, Outcomes
    <3> QED BY <1>a, <2>2, <3>1, <3>2 DEF TypeOK, Failed
  <2>4. TypeOK'
    BY <1>a, <1>3, <2>3 DEF Failing, TypeOK
  <2>5. CallInv(c)'
    <3>1. e \notin {"", "ok", "local"}
      BY DEF Errors
    <3>2. attempts'[c] = attempts[c] + 1 /\ pc'[c] \in {"backoff", "fallback", "done"}
          /\ outcome'[c] \in {outcome[c], e} /\ (pc'[c] # "done" => outcome'[c] = outcome[c])
      BY <1>a, <2>2 DEF Failed, TypeOK
    <3>3. pc'[c] = "backoff" => attempts[c] + 1 <= MaxRetries
      BY <1>a, <2>2 DEF Failed, TypeOK
    <3>4. pc'[c] = "fallback" =>
            attempts[c] = MaxRetries /\ HasFallback /\ job[c].op \in {"upload", "get"}
      BY <1>a, <2>2, RetriesNat DEF Failed, TypeOK
    <3>5. attempts[c] \in 0 .. MaxRetries /\ outcome[c] = ""
          /\ job[c] \in Job /\ WellFormed(job[c])
      BY <1>a, <2>1, <2>2 DEF Failed, CallInv
    <3>6. /\ attempts[c] + 1 <= MaxRetries + 1
          /\ attempts[c] = MaxRetries => attempts[c] + 1 = MaxRetries + 1
      <4>1. attempts[c] \in 0 .. MaxRetries
        BY <2>2 DEF Failed
      <4> QED BY <4>1, RetriesNat
    <3> QED BY <1>a, <2>2, <3>1, <3>2, <3>3, <3>4, <3>5, <3>6, Zenon DEF CallInv
  <2>6. \A q \in requests' : pc'[q.call] # "idle"
    BY <1>a, <1>b, <1>3, <2>2 DEF Failing, Failed, TypeOK, Request
  <2> QED BY <2>4, <2>5, <2>6
<1>4. CASE Succeeding(c)
  <2>1. PICK m \in replies :
          /\ pc[c] = "waiting" /\ m.call = c
          /\ \/ m.status \in {200, 201} /\ Return(c, "ok", m.receipt)
             \/ Return(c, "Request", None)
    BY <1>4 DEF Succeeding
  <2>2. m.receipt \in Receipts \cup {None}
    BY <1>a DEF TypeOK, Reply
  <2>3. TypeOK'
    <3>1. \E o \in Outcomes, rc \in Receipts \cup {None} : Return(c, o, rc)
      <4>1. "ok" \in Outcomes /\ "Request" \in Outcomes
        BY DEF Outcomes, Errors
      <4> QED BY <2>1, <2>2, <4>1
    <3> QED BY <1>a, <1>4, <3>1 DEF Succeeding, Return, TypeOK
  <2>4. CallInv(c)'
    <3>1. pc'[c] = "done" /\ outcome'[c] \in {"ok", "Request"} /\ attempts' = attempts
          /\ job' = job
      BY <1>a, <1>4, <2>1 DEF Succeeding, Return, TypeOK
    <3>2. attempts[c] <= MaxRetries /\ job[c] \in Job /\ WellFormed(job[c])
          /\ attempts[c] \in Nat
      BY <1>a, <2>1 DEF CallInv, TypeOK
    <3> QED BY <1>a, <3>1, <3>2, RetriesNat DEF CallInv, WellFormed
  <2>5. \A q \in requests' : pc'[q.call] # "idle"
    BY <1>a, <1>b, <1>4, <2>1 DEF Succeeding, Return, TypeOK, Request
  <2> QED BY <2>3, <2>4, <2>5
<1>5. CASE Fallback(c)
  <2>1. job[c] \in Job /\ WellFormed(job[c]) /\ pc[c] = "fallback"
    BY <1>a, <1>5 DEF Fallback, CallInv
  <2>2. job[c].op \in {"upload", "get"} => job[c].version \in Versions
    BY <2>1, JobFields
  <2>3. local' \in [Versions -> Receipts \cup {Torn, None}]
    BY <1>a, <1>5, <2>1, <2>2, JobFields DEF Fallback, TypeOK
  <2>4. \E o \in {"local", "Fallback", "Parse", "NotFound"}, rc \in Receipts \cup {None} :
           Return(c, o, rc)
    BY <1>a, <1>5, <2>1, <2>2 DEF Fallback, TypeOK
  <2>5. TypeOK'
    BY <1>a, <1>5, <2>3, <2>4 DEF Fallback, Return, TypeOK, Outcomes, Errors
  <2>6. CallInv(c)'
    BY <1>a, <1>5, <2>1, <2>4 DEF Fallback, Return, TypeOK, CallInv
  <2>7. \A q \in requests' : pc'[q.call] # "idle"
    BY <1>a, <1>b, <1>5, <2>4 DEF Fallback, Return, TypeOK, Request
  <2> QED BY <2>5, <2>6, <2>7
<1> QED BY <1>a, <1>1, <1>2, <1>3, <1>4, <1>5, ClientSteps

\* A version keeps the receipt it was published with, withdrawn or not.
LedgerKeeps ==
  \A v \in Versions : ledger[v] # Server!Absent =>
    ledger'[v] # Server!Absent /\ ledger'[v].receipt = ledger[v].receipt

\* What the server does with a request.
LEMMA ServerType ==
  ASSUME TypeInv, NEW q \in requests, ServerStep(q)
  PROVE  TypeOK' /\ LedgerKeeps /\ (appended'[q.call] \in {appended[q.call], appended[q.call] + 1})
<1> USE DEF TypeInv
<1>0. q \in Request /\ q.call \in Calls /\ q.attempt \in Nat
  BY DEF TypeOK, Request
<1>1. ASSUME NEW status \in Statuses, NEW rc \in Receipts \cup {None}, Answer(q, status, rc)
      PROVE  replies' \subseteq Reply
  BY <1>0, <1>1 DEF Answer, TypeOK, Reply
<1>2. CASE Refuse(q)
  <2>1. PICK status \in {403, 429, 500, 503} : Answer(q, status, None)
    BY <1>2 DEF Refuse
  <2>2. replies' \subseteq Reply
    BY <1>1, <2>1 DEF Statuses
  <2> QED BY <1>2, <2>2 DEF Refuse, TypeOK, client, LedgerKeeps
<1>3. CASE Lose(q)
  BY <1>3 DEF Lose, TypeOK, client, LedgerKeeps
<1>4. CASE Serve(q)
  <2> DEFINE j == job[q.call]
             v == j.version
  <2>1. j \in Job /\ WellFormed(j)
    BY <1>0 DEF CallInv
  <2>2. /\ j.op # "append" => v \in Versions
        /\ j.op = "upload" => j.receipt \in Receipts
    BY <2>1, JobFields
  <2> HIDE DEF j
  <2>3. /\ ledger' \in [Versions -> Entry] /\ LedgerKeeps
        /\ appended' \in [Calls -> Nat]
        /\ appended'[q.call] \in {appended[q.call], appended[q.call] + 1}
        /\ replies' \subseteq Reply
    <3>1. CASE j.op = "upload" /\ Server!Publish(v, j.receipt) /\ Answer(q, 201, None)
               /\ UNCHANGED appended
      BY <1>1, <2>2, <3>1 DEF Server!Publish, Server!Live, Server!Absent, TypeOK, Entry, Statuses,
                              LedgerKeeps
    <3>2. CASE j.op = "get" /\ ledger[v].state = "live" /\ Answer(q, 200, ledger[v].receipt)
               /\ UNCHANGED <<ledger, appended>>
      <4>1. ledger[v].receipt \in Receipts
        BY <2>2, <3>2 DEF TypeOK, Entry
      <4> QED BY <1>1, <3>2, <4>1 DEF TypeOK, Statuses, LedgerKeeps
    <3>3. CASE j.op = "delete" /\ Server!Withdraw(v) /\ Answer(q, 200, None)
               /\ UNCHANGED appended
      BY <1>1, <2>2, <3>3 DEF Server!Withdraw, Server!Live, Server!Gone, Server!Absent, TypeOK,
                              Entry, Statuses, LedgerKeeps
    <3>4. CASE j.op = "append" /\ appended' = [appended EXCEPT ![q.call] = @ + 1]
               /\ Answer(q, 201, None) /\ UNCHANGED ledger
      BY <1>0, <1>1, <3>4 DEF TypeOK, Statuses, LedgerKeeps
    <3>5. CASE (Answer(q, 409, None) \/ Answer(q, 404, None)) /\ UNCHANGED <<ledger, appended>>
      BY <1>1, <3>5 DEF TypeOK, Statuses, LedgerKeeps
    <3> QED BY <1>4, <3>1, <3>2, <3>3, <3>4, <3>5 DEF Serve, j
  <2> QED BY <1>4, <2>3 DEF Serve, TypeOK, client
<1> QED BY <1>2, <1>3, <1>4 DEF ServerStep

\* Another call keeps its invariant, on either side of the network.
LEMMA CallKept ==
  ASSUME NEW d \in Calls, CallInv(d), SameCall(d)
  PROVE  CallInv(d)'
BY DEF CallInv, SameCall, WellFormed

LEMMA TypeInvStep == TypeInv /\ [Next]_vars => TypeInv'
<1> SUFFICES ASSUME TypeInv, [Next]_vars PROVE TypeInv'
  OBVIOUS
<1>1. ASSUME NEW c \in Calls, ClientStep(c) PROVE TypeInv'
  <2>1. TypeOK' /\ CallInv(c)' /\ \A q \in requests' : pc'[q.call] # "idle"
    BY <1>1, ClientType
  <2>2. ASSUME NEW d \in Calls, d # c PROVE CallInv(d)'
    BY <1>1, <2>2, ClientFrame, CallKept DEF TypeInv
  <2> QED BY <2>1, <2>2 DEF TypeInv
<1>2. ASSUME NEW q \in requests, ServerStep(q) PROVE TypeInv'
  <2>1. TypeOK'
    BY <1>2, ServerType
  <2>2. UNCHANGED client /\ requests' \subseteq requests
    BY <1>2, ServerFrame DEF TypeInv
  <2>3. q.call \in Calls /\ pc[q.call] # "idle"
    BY DEF TypeInv, TypeOK, Request
  <2>4. ASSUME NEW d \in Calls PROVE CallInv(d)'
    <3>1. CallInv(d)
      BY DEF TypeInv
    <3>2. CASE pc[d] = "idle"
      <4>1. SameCall(d)
        BY <1>2, <2>2, <2>3, <3>2, ServerFrame DEF TypeInv, SameCall, client
      <4> QED BY <3>1, <4>1, CallKept
    <3>3. CASE pc[d] # "idle"
      BY <2>2, <3>1, <3>3 DEF CallInv, WellFormed, client
    <3> QED BY <3>2, <3>3
  <2>5. \A p \in requests' : pc'[p.call] # "idle"
    BY <2>2 DEF client, TypeInv
  <2> QED BY <2>1, <2>4, <2>5 DEF TypeInv
<1>3. CASE UNCHANGED vars
  <2>1. TypeOK'
    BY <1>3 DEF TypeInv, TypeOK, vars
  <2>2. \A d \in Calls : CallInv(d)'
    BY <1>3, CallKept DEF TypeInv, SameCall, vars
  <2>3. \A p \in requests' : pc'[p.call] # "idle"
    BY <1>3 DEF TypeInv, vars
  <2> QED BY <2>1, <2>2, <2>3 DEF TypeInv
<1> QED BY <1>1, <1>2, <1>3 DEF Next, ClientStep, ServerStep

LEMMA InitType == Init => TypeInv
<1> SUFFICES ASSUME Init PROVE TypeInv
  OBVIOUS
<1>1. TypeOK
  BY DEF Init, Server!Init, Server!Absent, TypeOK, Entry, Outcomes
<1>2. \A c \in Calls : CallInv(c)
  <2>1. 0 <= MaxRetries + 1
    BY RetriesNat
  <2> QED BY <2>1, Zenon DEF Init, CallInv
<1>3. \A q \in requests : pc[q.call] # "idle"
  BY DEF Init
<1> QED BY <1>1, <1>2, <1>3 DEF TypeInv

\* The variables keep their types: in particular every request and every
\* answer on the wire belongs to a call that was started.
THEOREM TypeCorrect == Spec => []TypeOK
<1>1. Spec => []TypeInv
  BY InitType, TypeInvStep, PTL DEF Spec
<1>2. TypeInv => TypeOK
  BY DEF TypeInv
<1> QED BY <1>1, <1>2, PTL

-----------------------------------------------------------------------------
(* Answers. *)

\* What was true of the server stays true.
LEMMA TruthKept ==
  ASSUME TypeInv, NEW c \in Calls, pc[c] # "idle", job'[c] = job[c], LedgerKeeps,
         appended[c] >= 1 => appended'[c] >= 1, NEW rc, Truth(c, rc)
  PROVE  Truth(c, rc)'
<1>1. job[c] \in Job /\ WellFormed(job[c])
  BY DEF TypeInv, CallInv
<1>2. job[c].op # "append" => job[c].version \in Versions
  BY <1>1, JobFields
<1>3. job[c].op \in {"upload", "get"} => job[c].op # "append"
  OBVIOUS
<1> QED BY <1>2, <1>3 DEF Truth, LedgerKeeps

\* A step of a call: a success is returned only when it was received.
LEMMA ClientAnswers ==
  ASSUME TypeInv, RepliesAreTrue, NEW c \in Calls, ClientStep(c)
  PROVE  RepliesAreTrue'
<1>1. ledger' = ledger /\ appended' = appended /\ replies' \subseteq replies
      /\ \A d \in Calls : pc[d] # "idle" => job'[d] = job[d] /\ pc'[d] # "idle"
  <2>1. CASE \E j \in Job : Start(c, j)
    BY <2>1 DEF Start, TypeInv, TypeOK
  <2>2. CASE Resend(c)
    BY <2>2 DEF Resend, TypeInv, TypeOK
  <2>3. CASE Failing(c)
    <3>1. \E e \in Errors : Failed(c, e)
      BY <2>3, FailStep DEF Failing, TypeInv
    <3> QED BY <2>3, <3>1 DEF Failing, Failed, TypeInv, TypeOK
  <2>4. CASE Succeeding(c)
    BY <2>4 DEF Succeeding, Return, TypeInv, TypeOK
  <2>5. CASE Fallback(c)
    BY <2>5 DEF Fallback, Return, TypeInv, TypeOK
  <2> QED BY <2>1, <2>2, <2>3, <2>4, <2>5, ClientSteps DEF TypeInv
<1>2. LedgerKeeps
  BY <1>1 DEF LedgerKeeps
<1>3. ASSUME NEW m \in replies'
      PROVE  pc'[m.call] # "idle" /\ (m.status \in {200, 201} => Truth(m.call, m.receipt)')
  <2>1. m.call \in Calls /\ pc[m.call] # "idle" /\ m \in replies
    BY <1>1, <1>3 DEF RepliesAreTrue, TypeInv, TypeOK, Reply
  <2> QED BY <1>1, <1>2, <2>1, TruthKept DEF RepliesAreTrue
<1>4. ASSUME NEW d \in Calls, outcome'[d] = "ok" PROVE Truth(d, got[d])'
  <2>1. CASE outcome[d] = "ok" /\ d # c
    <3>1. SameCall(d)
      BY <2>1, ClientFrame
    <3>2. pc[d] # "idle" /\ Truth(d, got[d])
      BY <2>1 DEF TypeInv, CallInv, RepliesAreTrue
    <3>3. \A rc : Truth(d, rc) => Truth(d, rc)'
      BY <1>1, <1>2, <3>2, TruthKept
    <3> QED BY <3>1, <3>2, <3>3 DEF SameCall
  <2>2. CASE d = c
    <3>1. Succeeding(c)
      <4>1. ~(\E j \in Job : Start(c, j)) /\ ~Resend(c)
        BY <1>4, <2>2 DEF Start, Resend, TypeInv, CallInv
      <4>2. ~Failing(c)
        <5>1. ASSUME NEW e \in Errors, Failed(c, e), pc[c] = "waiting" PROVE FALSE
          <6>1. outcome'[c] \in {outcome[c], e} /\ outcome[c] = "" /\ e # "ok"
            BY <5>1 DEF Failed, TypeInv, TypeOK, CallInv, Errors
          <6> QED BY <1>4, <2>2, <6>1
        <5> QED BY <5>1, FailStep DEF Failing, TypeInv
      <4>3. ~Fallback(c)
        BY <1>4, <2>2 DEF Fallback, Return, TypeInv, TypeOK
      <4> QED BY <4>1, <4>2, <4>3, ClientSteps DEF TypeInv
    <3>2. PICK m \in replies : /\ pc[c] = "waiting" /\ m.call = c
                               /\ \/ m.status \in {200, 201} /\ Return(c, "ok", m.receipt)
                                  \/ Return(c, "Request", None)
      BY <3>1 DEF Succeeding
    <3>3. m.status \in {200, 201} /\ got'[c] = m.receipt
      BY <1>4, <2>2, <3>2 DEF Return, TypeInv, TypeOK
    <3>4. Truth(c, m.receipt) /\ pc[c] # "idle"
      BY <3>2, <3>3 DEF RepliesAreTrue
    <3>5. \A rc : Truth(c, rc) => Truth(c, rc)'
      BY <1>1, <1>2, <3>4, TruthKept
    <3> QED BY <2>2, <3>3, <3>4, <3>5
  <2>3. CASE outcome[d] # "ok" /\ d # c
    BY <1>4, <2>3, ClientFrame DEF SameCall
  <2> QED BY <2>1, <2>2, <2>3
<1> QED BY <1>3, <1>4 DEF RepliesAreTrue

\* A step of the server: it answers with a success only what it has done.
LEMMA ServerAnswers ==
  ASSUME TypeInv, RepliesAreTrue, NEW q \in requests, ServerStep(q)
  PROVE  RepliesAreTrue'
<1>0. q.call \in Calls /\ pc[q.call] # "idle" /\ q.attempt \in Nat
  BY DEF TypeInv, TypeOK, Request
<1>1. UNCHANGED client /\ LedgerKeeps
      /\ \A d \in Calls : appended[d] >= 1 => appended'[d] >= 1
  <2>1. UNCHANGED client /\ LedgerKeeps
    BY ServerFrame, ServerType DEF TypeInv
  <2>2. ASSUME NEW d \in Calls, appended[d] >= 1 PROVE appended'[d] >= 1
    <3>1. CASE d = q.call
      <4>1. appended'[d] \in {appended[d], appended[d] + 1} /\ appended[d] \in Nat
        BY <3>1, ServerType DEF TypeInv, TypeOK
      <4> QED BY <2>2, <4>1
    <3>2. CASE d # q.call
      BY <2>2, <3>2, ServerFrame DEF TypeInv
    <3> QED BY <3>1, <3>2
  <2> QED BY <2>1, <2>2
<1>2. \A d \in Calls : \A rc : pc[d] # "idle" /\ Truth(d, rc) => Truth(d, rc)'
  BY <1>1, TruthKept DEF client
<1>3. \A d \in Calls : outcome'[d] = "ok" => Truth(d, got[d])'
  <2>1. \A d \in Calls : outcome[d] = "ok" => pc[d] # "idle" /\ Truth(d, got[d])
    BY DEF RepliesAreTrue, TypeInv, CallInv
  <2> QED BY <1>1, <1>2, <2>1 DEF client
<1>4. ASSUME NEW m \in replies
      PROVE  pc'[m.call] # "idle" /\ (m.status \in {200, 201} => Truth(m.call, m.receipt)')
  <2>1. m.call \in Calls
    BY DEF TypeInv, TypeOK, Reply
  <2> QED BY <1>1, <1>2, <2>1 DEF RepliesAreTrue, client
<1>5. ASSUME NEW status \in Statuses, NEW rc \in Receipts \cup {None}, Answer(q, status, rc),
             status \in {200, 201} => Truth(q.call, rc)'
      PROVE  RepliesAreTrue'
  <2> DEFINE new == [call |-> q.call, attempt |-> q.attempt, status |-> status, receipt |-> rc]
  <2>1. replies' \subseteq replies \cup {new}
    BY <1>5 DEF Answer
  <2>2. new.call = q.call /\ new.status = status /\ new.receipt = rc
    OBVIOUS
  <2> HIDE DEF new
  <2>3. pc'[new.call] # "idle" /\ (new.status \in {200, 201} => Truth(new.call, new.receipt)')
    BY <1>0, <1>1, <1>5, <2>2 DEF client
  <2>4. \A m \in replies' :
          pc'[m.call] # "idle" /\ (m.status \in {200, 201} => Truth(m.call, m.receipt)')
    BY <1>4, <2>1, <2>3
  <2> QED BY <1>3, <2>4 DEF RepliesAreTrue
<1>6. CASE Refuse(q)
  BY <1>5, <1>6 DEF Refuse, Statuses
<1>7. CASE Lose(q)
  BY <1>3, <1>4, <1>7 DEF Lose, RepliesAreTrue
<1>8. CASE Serve(q)
  <2> DEFINE j == job[q.call]
             v == j.version
  <2>1. /\ j.op # "append" => v \in Versions
        /\ j.op = "upload" => j.receipt \in Receipts
    BY <1>0, JobFields DEF TypeInv, CallInv
  <2>2. job' = job /\ 200 \in Statuses /\ 201 \in Statuses /\ 404 \in Statuses /\ 409 \in Statuses
    BY <1>1 DEF client, Statuses
  <2>3. CASE j.op = "upload" /\ Server!Publish(v, j.receipt) /\ Answer(q, 201, None)
    <3>1. ledger'[v] = Server!Live(j.receipt)
      BY <2>1, <2>3 DEF Server!Publish, TypeInv, TypeOK
    <3>2. Truth(q.call, None)'
      BY <2>2, <2>3, <3>1 DEF Truth, Server!Live, Server!Absent
    <3> QED BY <1>5, <2>2, <2>3, <3>2
  <2>4. CASE j.op = "get" /\ ledger[v].state = "live" /\ Answer(q, 200, ledger[v].receipt)
             /\ UNCHANGED ledger
    <3>1. ledger[v].receipt \in Receipts
      BY <2>1, <2>4 DEF TypeInv, TypeOK, Entry
    <3>2. \A rc : rc = ledger[v].receipt => Truth(q.call, rc)'
      BY <2>2, <2>4 DEF Truth, Server!Absent
    <3> QED BY <1>5, <2>2, <2>4, <3>1, <3>2
  <2>5. CASE j.op = "delete" /\ Answer(q, 200, None)
    <3>1. Truth(q.call, None)'
      BY <2>2, <2>5 DEF Truth
    <3> QED BY <1>5, <2>2, <2>5, <3>1
  <2>6. CASE j.op = "append" /\ appended' = [appended EXCEPT ![q.call] = @ + 1]
             /\ Answer(q, 201, None)
    <3>1. appended'[q.call] >= 1
      BY <1>0, <2>6 DEF TypeInv, TypeOK
    <3>2. Truth(q.call, None)'
      BY <2>2, <2>6, <3>1 DEF Truth
    <3> QED BY <1>5, <2>2, <2>6, <3>2
  <2>7. CASE Answer(q, 409, None) \/ Answer(q, 404, None)
    BY <1>5, <2>2, <2>7
  <2> QED BY <1>8, <2>3, <2>4, <2>5, <2>6, <2>7 DEF Serve
<1> QED BY <1>6, <1>7, <1>8 DEF ServerStep

LEMMA AnswersStep == TypeInv /\ RepliesAreTrue /\ [Next]_vars => RepliesAreTrue'
<1> SUFFICES ASSUME TypeInv, RepliesAreTrue, [Next]_vars PROVE RepliesAreTrue'
  OBVIOUS
<1>1. CASE UNCHANGED vars
  BY <1>1 DEF vars, RepliesAreTrue, Truth
<1> QED BY <1>1, ClientAnswers, ServerAnswers DEF Next, ClientStep, ServerStep

\* What a call reports about an upload, or reads, is true of the server
\* whatever its earlier, late or duplicated attempts did (ledger entries keep
\* their receipts, and an answer is only taken for the attempt it belongs to).
THEOREM ClientIsTruthful == Spec => []AnswersAreTruthful
<1>1. Init => RepliesAreTrue
  BY DEF Init, RepliesAreTrue
<1>2. TypeInv /\ RepliesAreTrue /\ [Next]_vars => RepliesAreTrue'
  BY AnswersStep
<1>3. RepliesAreTrue => AnswersAreTruthful
  BY DEF RepliesAreTrue, Truth, AnswersAreTruthful
<1> QED BY <1>1, <1>2, <1>3, InitType, TypeInvStep, PTL DEF Spec

-----------------------------------------------------------------------------
(* The local directory. *)

\* An ended call stays as it ended.
LEMMA DoneStays ==
  ASSUME TypeInv, NEW c \in Calls, ClientStep(c)
  PROVE  pc[c] # "done"
BY ClientSteps DEF TypeInv, Start, Resend, Failing, Succeeding, Fallback

LEMMA LocalStep ==
  ASSUME TypeInv, LocalIsOwned, [Next]_vars
  PROVE  LocalIsOwned'
<1>1. ASSUME NEW d \in Calls, outcome[d] = "local"
      PROVE  outcome'[d] = "local" /\ job'[d] = job[d]
  <2>1. pc[d] = "done"
    BY <1>1 DEF TypeInv, CallInv
  <2>2. ASSUME NEW c \in Calls, ClientStep(c) PROVE outcome'[d] = "local" /\ job'[d] = job[d]
    BY <1>1, <2>1, <2>2, DoneStays, ClientFrame DEF SameCall
  <2>3. ASSUME NEW q \in requests, ServerStep(q) PROVE outcome'[d] = "local" /\ job'[d] = job[d]
    BY <1>1, <2>3, ServerFrame DEF client, TypeInv
  <2> QED BY <1>1, <2>2, <2>3 DEF Next, ClientStep, ServerStep, vars
<1>2. SUFFICES ASSUME NEW v \in Versions, local'[v] \in Receipts
               PROVE  \E c \in Calls : /\ outcome'[c] = "local" /\ job'[c].op = "upload"
                                       /\ job'[c].version = v /\ job'[c].receipt = local'[v]
  BY DEF LocalIsOwned
<1>3. CASE local'[v] = local[v]
  BY <1>1, <1>2, <1>3 DEF LocalIsOwned
<1>4. CASE local'[v] # local[v]
  <2>1. PICK c \in Calls : Fallback(c)
    <3>1. \A q \in requests : ServerStep(q) => local' = local
      BY ServerFrame DEF TypeInv
    <3>2. \A c \in Calls : ClientStep(c) => local' = local \/ Fallback(c)
      <4>1. SUFFICES ASSUME NEW c \in Calls, ClientStep(c) PROVE local' = local \/ Fallback(c)
        OBVIOUS
      <4> QED BY <4>1, ClientSteps DEF TypeInv, Start, Resend, Failing, Succeeding
    <3> QED BY <1>4, <3>1, <3>2 DEF Next, ClientStep, ServerStep, vars
  <2>2. job[c] \in Job /\ WellFormed(job[c]) /\ job' = job
    BY <2>1 DEF Fallback, TypeInv, CallInv
  <2>3. job[c].op = "upload" => job[c].version \in Versions
    BY <2>2, JobFields
  <2>4. job[c].op = "upload"
    BY <1>4, <2>1 DEF Fallback
  <2>5. \/ Return(c, "local", None) /\ local' = [local EXCEPT ![job[c].version] = job[c].receipt]
        \/ local' = [local EXCEPT ![job[c].version] = Torn]
    BY <1>4, <2>1, <2>4 DEF Fallback
  <2>6. v = job[c].version
    BY <1>4, <2>5 DEF TypeInv, TypeOK
  <2>7. Return(c, "local", None) /\ local'[v] = job[c].receipt
    BY <1>2, <2>3, <2>4, <2>5, <2>6, NoneAssumption DEF TypeInv, TypeOK
  <2>8. outcome'[c] = "local"
    BY <2>7 DEF Return, TypeInv, TypeOK
  <2> QED BY <2>2, <2>4, <2>6, <2>7, <2>8
<1> QED BY <1>3, <1>4

\* The local directory is the last resort (FallbackClient): a call ends there
\* only with its attempts used up, never to hide a refusal by the server, and
\* every receipt in the directory belongs to an upload that ended there.
THEOREM FallbackIsLast == Spec => []FallbackIsLastResort
<1>1. Init => LocalIsOwned
  <2>1. Init => \A v \in Versions : local[v] = None
    BY DEF Init
  <2> QED BY <2>1, NoneAssumption DEF LocalIsOwned
<1>2. TypeInv /\ LocalIsOwned /\ [Next]_vars => LocalIsOwned'
  BY LocalStep
<1>3. TypeInv /\ LocalIsOwned => FallbackIsLastResort
  <2>1. TypeInv => \A c \in Calls : outcome[c] = "local" =>
          HasFallback /\ attempts[c] = MaxRetries + 1 /\ job[c].op \in {"upload", "get"}
    BY Zenon DEF TypeInv, CallInv
  <2> QED BY <2>1, Zenon DEF LocalIsOwned, FallbackIsLastResort
<1> QED BY <1>1, <1>2, <1>3, InitType, TypeInvStep, PTL DEF Spec

-----------------------------------------------------------------------------
(* Counting attempts. *)

LEMMA SentNat ==
  ASSUME TypeInv, NEW c \in Calls
  PROVE  Sent(c) \in Nat /\ Sent(c) <= MaxRetries + 1
<1>1. attempts[c] \in Nat /\ attempts[c] <= MaxRetries + 1
  BY DEF TypeInv, TypeOK, CallInv
<1>2. pc[c] = "waiting" => attempts[c] <= MaxRetries
  BY DEF TypeInv, CallInv
<1> QED BY <1>1, <1>2, RetriesNat DEF Sent

LEMMA SentNatNext ==
  ASSUME TypeInv', NEW c \in Calls
  PROVE  Sent(c)' \in Nat
<1>1. attempts'[c] \in Nat
  BY DEF TypeInv, TypeOK
<1> QED BY <1>1, RetriesNat DEF Sent

\* Fewer requests on the way, and no fewer sent.
LEMMA FewerInFlight ==
  ASSUME TypeInv, TypeInv', NEW c \in Calls, Counted(c), InFlight(c)' \subseteq InFlight(c),
         Sent(c) <= Sent(c)', appended'[c] = appended[c]
  PROVE  Counted(c)'
<1>1. /\ IsFiniteSet(InFlight(c)')
      /\ Cardinality(InFlight(c)') <= Cardinality(InFlight(c))
      /\ Cardinality(InFlight(c)) \in Nat /\ Cardinality(InFlight(c)') \in Nat
  BY FS_Subset, FS_CardinalityType DEF Counted
<1>2. Sent(c) \in Nat /\ Sent(c)' \in Nat
  BY SentNat, SentNatNext
<1>3. appended[c] \in Nat
  BY DEF TypeInv, TypeOK
<1>4. \A q \in InFlight(c)' : q.attempt < Sent(c)'
  <2> SUFFICES ASSUME NEW q \in InFlight(c)' PROVE q.attempt < Sent(c)'
    OBVIOUS
  <2>1. q.attempt \in Nat /\ q.attempt < Sent(c)
    BY DEF InFlight, TypeInv, TypeOK, Request, Counted
  <2> QED BY <1>2, <2>1
<1>5. appended'[c] + Cardinality(InFlight(c)') <= Sent(c)'
  <2>1. appended[c] + Cardinality(InFlight(c)) <= Sent(c)
    BY DEF Counted
  <2> QED BY <1>1, <1>2, <1>3, <2>1
<1> QED BY <1>1, <1>4, <1>5 DEF Counted

\* One more request, sent for the first time.
LEMMA OneMoreInFlight ==
  ASSUME TypeInv, TypeInv', NEW c \in Calls, Counted(c),
         InFlight(c)' = InFlight(c) \cup {Current(c)}, Sent(c) = attempts[c],
         Sent(c)' = attempts[c] + 1, appended'[c] = appended[c]
  PROVE  Counted(c)'
<1>1. Current(c).attempt = attempts[c] /\ attempts[c] \in Nat /\ appended[c] \in Nat
  BY DEF Current, TypeInv, TypeOK
<1>2. Current(c) \notin InFlight(c)
  <2> SUFFICES ASSUME Current(c) \in InFlight(c) PROVE FALSE
    OBVIOUS
  <2>1. attempts[c] < attempts[c]
    BY <1>1 DEF Counted
  <2> QED BY <1>1, <2>1
<1>3. /\ IsFiniteSet(InFlight(c)')
      /\ Cardinality(InFlight(c)') = Cardinality(InFlight(c)) + 1
      /\ Cardinality(InFlight(c)) \in Nat
  BY <1>2, FS_AddElement, FS_CardinalityType DEF Counted
<1>4. \A q \in InFlight(c)' : q.attempt < Sent(c)'
  <2> SUFFICES ASSUME NEW q \in InFlight(c)' PROVE q.attempt < attempts[c] + 1
    OBVIOUS
  <2>1. CASE q = Current(c)
    BY <1>1, <2>1
  <2>2. CASE q \in InFlight(c)
    <3>1. q.attempt \in Nat /\ q.attempt < attempts[c]
      BY <2>2 DEF InFlight, TypeInv, TypeOK, Request, Counted
    <3> QED BY <1>1, <3>1
  <2> QED BY <2>1, <2>2
<1>5. appended'[c] + Cardinality(InFlight(c)') <= Sent(c)'
  <2>1. appended[c] + Cardinality(InFlight(c)) <= attempts[c]
    BY DEF Counted
  <2> QED BY <1>1, <1>3, <2>1
<1> QED BY <1>3, <1>4, <1>5 DEF Counted

LEMMA ClientCounts ==
  ASSUME TypeInv, TypeInv', NEW c \in Calls, ClientStep(c), Counted(c)
  PROVE  Counted(c)'
<1>0. attempts[c] \in Nat /\ appended[c] \in Nat
  BY DEF TypeInv, TypeOK
<1>1. CASE \E j \in Job : Start(c, j)
  <2>1. /\ pc[c] = "idle" /\ pc'[c] = "waiting" /\ attempts' = attempts /\ appended' = appended
        /\ requests' = requests \cup {Current(c)}
    BY <1>1 DEF Start, TypeInv, TypeOK
  <2>2. attempts[c] = 0
    BY <2>1 DEF TypeInv, CallInv
  <2>3. InFlight(c)' = InFlight(c) \cup {Current(c)}
    BY <2>1 DEF InFlight, Current
  <2>4. Sent(c) = attempts[c] /\ Sent(c)' = attempts[c] + 1
    BY <2>1, <2>2 DEF Sent
  <2> QED BY <2>1, <2>3, <2>4, OneMoreInFlight
<1>2. CASE Resend(c)
  <2>1. /\ pc[c] = "backoff" /\ pc'[c] = "waiting" /\ attempts' = attempts /\ appended' = appended
        /\ requests' = requests \cup {Current(c)}
    BY <1>2 DEF Resend, TypeInv, TypeOK
  <2>2. InFlight(c)' = InFlight(c) \cup {Current(c)}
    BY <2>1 DEF InFlight, Current
  <2>3. Sent(c) = attempts[c] /\ Sent(c)' = attempts[c] + 1
    BY <2>1 DEF Sent
  <2> QED BY <2>1, <2>2, <2>3, OneMoreInFlight
<1>3. CASE Failing(c)
  <2>1. PICK e \in Errors : Failed(c, e) /\ pc[c] = "waiting"
    BY <1>3, FailStep DEF Failing, TypeInv
  <2>2. attempts[c] \in 0 .. MaxRetries /\ attempts'[c] = attempts[c] + 1
        /\ pc'[c] \in {"backoff", "fallback", "done"}
    BY <2>1 DEF Failed, TypeInv, TypeOK
  <2>3. Sent(c) = attempts[c] + 1 /\ Sent(c)' \in {attempts[c] + 1, MaxRetries + 1}
    BY <2>1, <2>2 DEF Sent
  <2>4. attempts[c] + 1 <= MaxRetries + 1
    <3>1. attempts[c] \in 0 .. MaxRetries
      BY <2>2
    <3> QED BY <3>1, RetriesNat
  <2>5. Sent(c) <= Sent(c)'
    BY <1>0, <2>3, <2>4
  <2>6. InFlight(c)' \subseteq InFlight(c) /\ appended' = appended
    BY <1>3 DEF Failing, InFlight
  <2> QED BY <2>5, <2>6, FewerInFlight
<1>4. CASE Succeeding(c) \/ Fallback(c)
  <2>1. requests' = requests /\ appended' = appended
    BY <1>4 DEF Succeeding, Fallback
  <2>2. Sent(c)' = MaxRetries + 1
    BY <1>4 DEF Succeeding, Fallback, Return, Sent, TypeInv, TypeOK
  <2>3. Sent(c) <= Sent(c)'
    BY <2>2, SentNat
  <2>4. InFlight(c)' = InFlight(c)
    BY <2>1 DEF InFlight
  <2> QED BY <2>1, <2>3, <2>4, FewerInFlight
<1> QED BY <1>1, <1>2, <1>3, <1>4, ClientSteps DEF TypeInv

\* A call that takes no step: nothing of it is sent.
LEMMA OtherCounts ==
  ASSUME TypeInv, TypeInv', NEW d \in Calls, Counted(d), pc'[d] = pc[d],
         attempts'[d] = attempts[d], appended'[d] = appended[d], InFlight(d)' \subseteq InFlight(d)
  PROVE  Counted(d)'
<1>1. Sent(d)' = Sent(d)
  BY DEF Sent
<1>2. Sent(d) <= Sent(d)'
  BY <1>1, SentNat
<1> QED BY <1>2, FewerInFlight

LEMMA CountedStep ==
  ASSUME TypeInv, TypeInv', AttemptsCounted, [Next]_vars
  PROVE  AttemptsCounted'
<1> SUFFICES ASSUME NEW d \in Calls PROVE Counted(d)'
  BY DEF AttemptsCounted
<1>0. Counted(d)
  BY DEF AttemptsCounted
<1>1. ASSUME NEW c \in Calls, ClientStep(c) PROVE Counted(d)'
  <2>1. CASE d = c
    BY <1>0, <1>1, <2>1, ClientCounts
  <2>2. CASE d # c
    <3>1. SameCall(d)
      BY <1>1, <2>2, ClientFrame
    <3>2. requests' \subseteq requests \cup {Current(c)}
      BY <1>1, ClientSteps DEF TypeInv, Start, Resend, Failing, Succeeding, Fallback
    <3>3. InFlight(d)' \subseteq InFlight(d)
      BY <2>2, <3>2 DEF InFlight, Current
    <3> QED BY <1>0, <3>1, <3>3, OtherCounts DEF SameCall
  <2> QED BY <2>1, <2>2
<1>2. ASSUME NEW q \in requests, ServerStep(q) PROVE Counted(d)'
  <2>1. UNCHANGED client /\ requests' = requests \ {q}
    BY <1>2, ServerFrame DEF TypeInv
  <2>2. CASE d # q.call
    <3>1. appended'[d] = appended[d]
      BY <1>2, <2>2, ServerFrame DEF TypeInv
    <3>2. InFlight(d)' \subseteq InFlight(d)
      BY <2>1 DEF InFlight
    <3> QED BY <1>0, <2>1, <3>1, <3>2, OtherCounts DEF client
  <2>3. CASE d = q.call
    <3>1. appended'[d] \in {appended[d], appended[d] + 1} /\ appended[d] \in Nat
      BY <1>2, <2>3, ServerType DEF TypeInv, TypeOK
    <3>2. InFlight(d)' = InFlight(d) \ {q} /\ q \in InFlight(d)
      BY <2>1, <2>3 DEF InFlight
    <3>3. /\ IsFiniteSet(InFlight(d)')
          /\ Cardinality(InFlight(d)') = Cardinality(InFlight(d)) - 1
          /\ Cardinality(InFlight(d)) \in Nat
      BY <1>0, <3>2, FS_RemoveElement, FS_CardinalityType DEF Counted
    <3>4. Sent(d)' = Sent(d) /\ Sent(d) \in Nat
      BY <2>1, SentNat DEF Sent, client
    <3>5. \A p \in InFlight(d)' : p.attempt < Sent(d)'
      BY <1>0, <3>2, <3>4 DEF Counted
    <3>6. appended'[d] + Cardinality(InFlight(d)') <= Sent(d)'
      <4>1. appended[d] + Cardinality(InFlight(d)) <= Sent(d)
        BY <1>0 DEF Counted
      <4> QED BY <3>1, <3>3, <3>4, <4>1
    <3> QED BY <3>3, <3>5, <3>6 DEF Counted
  <2> QED BY <2>2, <2>3
<1>3. CASE UNCHANGED vars
  BY <1>0, <1>3, OtherCounts DEF vars, InFlight
<1> QED BY <1>1, <1>2, <1>3 DEF Next, ClientStep, ServerStep

\* A retried post that the server does not deduplicate is stored at most once
\* per attempt, late deliveries included, and at least once when the call
\* succeeds (execute_with_retry with any max_retries).
THEOREM AppendsAreBounded == Spec => []AppendsBounded
<1>1. Init => RepliesAreTrue /\ AttemptsCounted
  <2> SUFFICES ASSUME Init PROVE RepliesAreTrue /\ AttemptsCounted
    OBVIOUS
  <2>1. RepliesAreTrue
    BY DEF Init, RepliesAreTrue
  <2>2. \A c \in Calls : InFlight(c) = {} /\ Sent(c) = 0 /\ appended[c] = 0
    BY DEF Init, InFlight, Sent
  <2>3. AttemptsCounted
    BY <2>2, FS_EmptySet DEF AttemptsCounted, Counted
  <2> QED BY <2>1, <2>3
<1>2. TypeInv /\ RepliesAreTrue /\ [Next]_vars => RepliesAreTrue'
  BY AnswersStep
<1>3. TypeInv /\ TypeInv' /\ AttemptsCounted /\ [Next]_vars => AttemptsCounted'
  BY CountedStep
<1>4. TypeInv /\ RepliesAreTrue /\ AttemptsCounted => AppendsBounded
  <2> SUFFICES ASSUME TypeInv, RepliesAreTrue, AttemptsCounted, NEW c \in Calls
               PROVE  /\ appended[c] <= MaxRetries + 1
                      /\ (outcome[c] = "ok" /\ job[c].op = "append") => appended[c] >= 1
    BY DEF AppendsBounded
  <2>1. appended[c] \in Nat /\ Cardinality(InFlight(c)) \in Nat
    BY FS_CardinalityType DEF TypeInv, TypeOK, AttemptsCounted, Counted
  <2>2. appended[c] + Cardinality(InFlight(c)) <= Sent(c)
    BY DEF AttemptsCounted, Counted
  <2>3. Sent(c) \in Nat /\ Sent(c) <= MaxRetries + 1
    BY SentNat
  <2>4. appended[c] <= MaxRetries + 1
    BY <2>1, <2>2, <2>3, RetriesNat
  <2>5. (outcome[c] = "ok" /\ job[c].op = "append") => appended[c] >= 1
    BY DEF RepliesAreTrue, Truth
  <2> QED BY <2>4, <2>5
<1> QED BY <1>1, <1>2, <1>3, <1>4, InitType, TypeInvStep, PTL DEF Spec
=============================================================================
