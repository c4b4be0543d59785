------------------------------ MODULE Delivery ------------------------------
(***************************************************************************)
(* From the agent's client to the server's store: HTTPClient.sendRequest   *)
(* with Retry, GRPCClient.UpdateMetrics with its deadline, the network in  *)
(* between, and the update handlers of both protocols, which apply the     *)
(* metrics of a request one by one, at any time after it was sent.         *)
(*                                                                         *)
(* Every metric here is of one gauge or of one counter.  A call sets the   *)
(* gauge to its own number, so that a later call carries a newer value,    *)
(* and adds 1 to the counter.                                              *)
(***************************************************************************)
EXTENDS Integers, Sequences, FiniteSets

CONSTANTS
  Sender,     \* the goroutines of runSender
  Protocols,  \* the values of PROTOCOL to consider
  Bodies,     \* what UpdateMetrics may carry
  MaxRetry,   \* client.maxRetry
  MaxCalls    \* bound: calls of the client in a behaviour

ASSUME DeliveryAssumption ==
  /\ Protocols \subseteq {"http", "grpc"}
  /\ Bodies \subseteq Seq({"gauge", "counter"}) \ {<<>>}
  /\ MaxRetry \in Nat \ {0} /\ MaxCalls \in Nat

VARIABLES
  protocol,     \* flags.Protocol, of both programs
  batchUpdate,  \* flags.BatchUpdate of the agent
  pc,           \* where each sender is in its call
  current,      \* the call a sender is in, 0 when it is in none
  attempt,      \* the loop variable i of Retry
  calls,        \* history: number of calls so far
  body,         \* per call: its metrics
  outcome,      \* per call: what it has returned
  request,      \* per call and attempt: the request on its way
  gauge,        \* value of the gauge in the store
  counter,      \* value of the counter in the store
  applied,      \* history: how often each metric of a call was applied
  saved         \* history: how often its row was inserted

flagVars   == <<protocol, batchUpdate>>
senderVars == <<pc, current, attempt>>
callVars   == <<calls, body, outcome>>
storeVars  == <<gauge, counter, applied, saved>>
vars == <<protocol, batchUpdate, pc, current, attempt, calls, body, outcome,
          request, gauge, counter, applied, saved>>

Id == 1 .. MaxCalls
Attempt == 1 .. MaxRetry

\* A request: how many metrics were taken, whether an error was met, and
\* whether its client stopped waiting for the answer.
Unsent == [state |-> "none", taken |-> 0, failed |-> FALSE, late |-> FALSE]
Request == [state : {"none", "sent", "answered", "refused", "lost"},
            taken : Nat, failed : BOOLEAN, late : BOOLEAN]

TypeOK ==
  /\ protocol \in Protocols
  /\ batchUpdate \in BOOLEAN
  /\ pc \in [Sender -> {"idle", "post", "wait", "sleep"}]
  /\ current \in [Sender -> Id \cup {0}]
  /\ attempt \in [Sender -> 1 .. MaxRetry + 1]
  /\ \A s \in Sender : pc[s] = "idle" => current[s] = 0 /\ attempt[s] = 1
  /\ calls \in 0 .. MaxCalls
  /\ body \in [Id -> Bodies \cup {<<>>}]
  /\ outcome \in [Id -> {"none", "nil", "error"}]
  /\ request \in [Id -> [Attempt -> Request]]
  /\ \A i \in Id, n \in Attempt : request[i][n].taken <= Len(body[i])
  /\ gauge \in 0 .. MaxCalls
  /\ counter \in Nat
  /\ DOMAIN applied = Id /\ DOMAIN saved = Id
  /\ \A i \in Id : /\ applied[i] \in [DOMAIN body[i] -> 0 .. MaxRetry]
                   /\ saved[i] \in [DOMAIN body[i] -> 0 .. MaxRetry]

Init ==
  /\ protocol \in Protocols
  /\ batchUpdate \in BOOLEAN
  /\ pc = [s \in Sender |-> "idle"]
  /\ current = [s \in Sender |-> 0]
  /\ attempt = [s \in Sender |-> 1]
  /\ calls = 0
  /\ body = [i \in Id |-> <<>>]
  /\ outcome = [i \in Id |-> "none"]
  /\ request = [i \in Id |-> [n \in Attempt |-> Unsent]]
  /\ gauge = 0 /\ counter = 0
  /\ applied = [i \in Id |-> <<>>]
  /\ saved = [i \in Id |-> <<>>]

Goto(s, from, to) == pc[s] = from /\ pc' = [pc EXCEPT ![s] = to]

-----------------------------------------------------------------------------
(* The client.                                                             *)

\* UpdateMetric sends one metric, UpdateMetrics as many as were drained.
Calling == IF batchUpdate THEN Bodies ELSE {b \in Bodies : Len(b) = 1}

Begin(s) ==
  /\ calls < MaxCalls
  /\ Goto(s, "idle", "post")
  /\ calls' = calls + 1
  /\ current' = [current EXCEPT ![s] = calls + 1]
  /\ \E b \in Calling :
       /\ body' = [body EXCEPT ![calls + 1] = b]
       /\ applied' = [applied EXCEPT ![calls + 1] = [k \in DOMAIN b |-> 0]]
       /\ saved' = [saved EXCEPT ![calls + 1] = [k \in DOMAIN b |-> 0]]
  /\ UNCHANGED <<flagVars, attempt, outcome, request, gauge, counter>>

\* Mutation: the number of the attempt outlives the call.
ReturnKeepingAttempt(s, result) ==
  /\ outcome' = [outcome EXCEPT ![current[s]] = result]
  /\ current' = [current EXCEPT ![s] = 0]
  /\ UNCHANGED attempt

\* The call returns and the sender is free for the next one.
ReturnWith(s, result) ==
  /\ outcome' = [outcome EXCEPT ![current[s]] = result]
  /\ current' = [current EXCEPT ![s] = 0]
  /\ attempt' = [attempt EXCEPT ![s] = 1]

MayTry(s) == attempt[s] <= MaxRetry

\* The request cannot be built: the body does not marshal or is too long for
\* the RSA key, or a metric has no value for gRPC.  Nothing is sent.
BuildError(s) ==
  /\ attempt[s] = 1
  /\ Goto(s, "post", "idle")
  /\ ReturnWith(s, "error")
  /\ UNCHANGED <<flagVars, calls, body, request, storeVars>>

\* req.SetBody(body).Post(path), and the unary call of the gRPC stub.
Post(s) ==
  /\ MayTry(s)
  /\ Goto(s, "post", "wait")
  /\ request' = [request EXCEPT ![current[s]][attempt[s]].state = "sent"]
  /\ UNCHANGED <<flagVars, current, attempt, callVars, storeVars>>

Waiting(s) == request[current[s]][attempt[s]]

\* Mutation: whatever the server answers is success.
AnyAnswerIsNil(s) == TRUE

\* HTTP status 200, or no gRPC status.
AnswerIsNil(s) == Waiting(s).state = "answered" /\ ~Waiting(s).failed

\* The server has answered, from the handler or before it.
HasAnswer(s) == Waiting(s).state \in {"answered", "refused"}

\* Mutation: the request is sent and forgotten.
ReturnUnanswered(s) ==
  /\ Goto(s, "wait", "idle")
  /\ ReturnWith(s, "nil")
  /\ UNCHANGED <<flagVars, calls, body, request, storeVars>>

\* Mutation: Retry also tries again when the status is not 200.
ReceiveOrRetry(s) ==
  /\ pc[s] = "wait" /\ HasAnswer(s)
  /\ IF AnswerIsNil(s)
       THEN Goto(s, "wait", "idle") /\ ReturnWith(s, "nil")
       ELSE Goto(s, "wait", "sleep") /\ UNCHANGED <<current, attempt, outcome>>
  /\ UNCHANGED <<flagVars, calls, body, request, storeVars>>

\* An answer ends Retry, whatever its status.
Receive(s) ==
  /\ Goto(s, "wait", "idle")
  /\ HasAnswer(s)
  /\ ReturnWith(s, IF AnswerIsNil(s) THEN "nil" ELSE "error")
  /\ UNCHANGED <<flagVars, calls, body, request, storeVars>>

\* The timeout of the client (8 ns for HTTP, 8 s for gRPC), a refused or a
\* broken connection: the client does not know what became of the request.
\* Retry sleeps and tries again; a gRPC call returns the error.
TransportError(s) ==
  /\ IF protocol = "http"
       THEN Goto(s, "wait", "sleep") /\ UNCHANGED <<current, attempt, outcome>>
       ELSE Goto(s, "wait", "idle") /\ ReturnWith(s, "error")
  /\ request' = [request EXCEPT ![current[s]][attempt[s]].late = TRUE]
  /\ UNCHANGED <<flagVars, calls, body, storeVars>>

\* time.Sleep(delay), then i++.
Sleep(s) ==
  /\ Goto(s, "sleep", "post")
  /\ attempt' = [attempt EXCEPT ![s] = @ + 1]
  /\ UNCHANGED <<flagVars, current, callVars, request, storeVars>>

GiveUp(s) ==
  /\ ~MayTry(s)
  /\ Goto(s, "post", "idle")
  /\ ReturnWith(s, "error")
  /\ UNCHANGED <<flagVars, calls, body, request, storeVars>>

-----------------------------------------------------------------------------
(* The network and the server.                                             *)

\* The request never reaches a handler.
Lose(i, n) ==
  /\ request[i][n].state = "sent" /\ request[i][n].taken = 0
  /\ request' = [request EXCEPT ![i][n].state = "lost"]
  /\ UNCHANGED <<flagVars, senderVars, callVars, storeVars>>

\* The middleware answers 400, 401 or 415, or the interceptor PermissionDenied,
\* without calling the handler.
Refuse(i, n) ==
  /\ request[i][n].state = "sent" /\ request[i][n].taken = 0
  /\ request' = [request EXCEPT ![i][n].state = "refused"]
  /\ UNCHANGED <<flagVars, senderVars, callVars, storeVars>>

Reporting == protocol = "grpc" \/ batchUpdate

\* Mutation: the HTTP batch also stops at the first error.
StopsAtAnyError == TRUE

\* The gRPC handler returns at the first error, the HTTP batch goes on.
StopsAtError == protocol = "grpc"

Complete(i, n) ==
  \/ request[i][n].taken = Len(body[i])
  \/ request[i][n].failed /\ StopsAtError

\* The type a metric is sent with decides which of the maps it goes to; no
\* handler refuses what the agent sends, which has an id, a type and a value.
IsGauge(i, k) == body[i][k] = "gauge"

\* ms.UpdateGauge and ms.UpdateCounter change the store also when they return
\* an error; only the row is missing then.  The route of one metric drops the
\* error.
Apply(i, n) ==
  LET k == request[i][n].taken + 1
  IN  /\ request[i][n].state = "sent"
      /\ ~(request[i][n].failed /\ StopsAtError)
      /\ k \in DOMAIN body[i]
      /\ IF IsGauge(i, k)
           THEN gauge' = i /\ UNCHANGED counter
           ELSE counter' = counter + 1 /\ UNCHANGED gauge
      /\ applied' = [applied EXCEPT ![i][k] = @ + 1]
      /\ \E err \in BOOLEAN :
           /\ request' = [request EXCEPT ![i][n].taken = k,
                                         ![i][n].failed = @ \/ (err /\ Reporting)]
           /\ saved' = IF err THEN saved ELSE [saved EXCEPT ![i][k] = @ + 1]
      /\ UNCHANGED <<flagVars, senderVars, callVars>>

\* The handler does not look at the request's context: it finishes and answers
\* also when nobody waits any more.
Answer(i, n) ==
  /\ request[i][n].state = "sent"
  /\ Complete(i, n)
  /\ request' = [request EXCEPT ![i][n].state = "answered"]
  /\ UNCHANGED <<flagVars, senderVars, callVars, storeVars>>

-----------------------------------------------------------------------------
ClientStep(s) ==
  \/ BuildError(s) \/ Post(s) \/ Receive(s) \/ TransportError(s)
  \/ Sleep(s) \/ GiveUp(s)

Next ==
  \/ \E s \in Sender : Begin(s) \/ ClientStep(s)
  \/ \E i \in Id, n \in Attempt :
       Lose(i, n) \/ Refuse(i, n) \/ Apply(i, n) \/ Answer(i, n)

Spec == Init /\ [][Next]_vars

-----------------------------------------------------------------------------
(* Properties.                                                             *)

\* The clients and the handlers deliver at least once, in order: a nil error
\* means that every metric was applied (and saved, on the routes that report a
\* failed save); no metric is applied more often than its request was sent.
Once == INSTANCE AtLeastOnce WITH
  limit <- IF protocol = "http" THEN MaxRetry ELSE 1,
  reporting <- Reporting

DeliversAtLeastOnce == Once!Spec

\* A metric is applied more than once only because an answer was not waited
\* for, and then at most once for every such attempt and once for the last
\* one: an answer, good or bad, is never asked for again.
LateAttempts(i) == {n \in Attempt : request[i][n].late}

DuplicateNeedsLostAnswer ==
  \A i \in Id : \A k \in DOMAIN body[i] :
    applied[i][k] <= Cardinality(LateAttempts(i)) + 1

\* An older value replaces a newer one in the store only if its call was not
\* over when the newer value was set, or by a request the client had given up:
\* without a transport error one sender never goes back.
StaleOnlyWhenLate ==
  [][gauge' < gauge =>
       outcome[gauge'] = "none" \/ LateAttempts(gauge') # {}]_vars

\* What an error leaves behind when no attempt was given up.  A request that was
\* not sent or did not come to a handler: nothing.  The HTTP batch: every metric
\* applied once, and at least one of them without its row.  The gRPC handler:
\* the metrics up to the one whose save failed, that one included, and none
\* after it.  The caller gets an error in each of the cases, so a new call with
\* the same metrics would be right in the first of them only.
NothingTaken(i) == \A k \in DOMAIN body[i] : applied[i][k] = 0

AllTaken(i) ==
  /\ batchUpdate
  /\ \A k \in DOMAIN body[i] : applied[i][k] = 1
  /\ \E k \in DOMAIN body[i] : saved[i][k] = 0

TakenUpTo(i, m) ==
  \A k \in DOMAIN body[i] :
    /\ applied[i][k] = IF k <= m THEN 1 ELSE 0
    /\ saved[i][k] = IF k < m THEN 1 ELSE 0

RefusedBatch ==
  \A i \in Id :
    outcome[i] = "error" /\ LateAttempts(i) = {} =>
      IF request[i][1].state # "answered" THEN NothingTaken(i)
      ELSE IF protocol = "http" THEN AllTaken(i)
      ELSE \E m \in DOMAIN body[i] : TakenUpTo(i, m)
=============================================================================
