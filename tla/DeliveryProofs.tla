--------------------------- MODULE DeliveryProofs ---------------------------
(***************************************************************************)
(* Machine-checked proofs about Delivery, for any number of senders, any   *)
(* bodies, any number of attempts and any number of calls.                 *)
(***************************************************************************)
EXTENDS Delivery, FiniteSetTheorems, TLAPS

-----------------------------------------------------------------------------
(* The inductive invariant.                                                *)

\* The attempts of a call whose handler has taken its first k metrics.
Passed(i, k) == {n \in Attempt : request[i][n].taken >= k}

\* Calls are numbered as they begin, and a sender is in one of its own that
\* has not returned.
CallInv ==
  /\ \A i \in Id : i <= calls <=> body[i] # <<>>
  /\ \A i \in Id : i > calls => outcome[i] = "none"
  /\ \A s \in Sender : pc[s] # "idle" => current[s] # 0
  /\ \A s \in Sender : current[s] # 0 =>
       current[s] <= calls /\ outcome[current[s]] = "none"
  /\ \A s, t \in Sender : current[s] = current[t] /\ current[s] # 0 => s = t

\* A sender goes on to another attempt only when it has given the last one
\* up, and only with HTTP.
InAttempt(s) ==
  /\ protocol = "grpc" => attempt[s] = 1 /\ pc[s] # "sleep"
  /\ pc[s] \in {"wait", "sleep"} =>
       attempt[s] <= MaxRetry /\ Waiting(s).state # "none"
  /\ pc[s] = "sleep" => Waiting(s).late
  /\ \A n \in Attempt : n < attempt[s] => request[current[s]][n].late
  /\ \A n \in Attempt : n > attempt[s] \/ (n = attempt[s] /\ pc[s] = "post") =>
       request[current[s]][n].state = "none"

AttemptInv == \A s \in Sender : current[s] # 0 => InAttempt(s)

\* A request that is not sent, refused or lost has done nothing; one that is
\* answered is complete; only the last one sent may still be waited for.
RequestOK(i, n) ==
  /\ i > calls \/ (protocol = "grpc" /\ n > 1) => request[i][n].state = "none"
  /\ request[i][n].state \in {"none", "refused", "lost"} =>
       request[i][n].taken = 0
  /\ request[i][n].state = "none" => ~request[i][n].late
  /\ request[i][n].state = "answered" => Complete(i, n)
  /\ request[i][n].failed => request[i][n].taken > 0
  /\ request[i][n].state # "none" =>
       \A m \in Attempt : m < n => request[i][m].late

RequestInv == \A i \in Id, n \in Attempt : RequestOK(i, n)

\* A call that is over and was answered every time it asked has asked at most
\* once; an error that comes from the handler is one of the store.
Settled(i) ==
  /\ request[i][1].state \in {"none", "refused", "answered"}
  /\ outcome[i] = "error" /\ request[i][1].state = "answered" =>
       request[i][1].failed

OutcomeInv ==
  \A i \in Id : outcome[i] # "none" /\ LateAttempts(i) = {} => Settled(i)

\* A metric is applied once by every attempt that has come past it.
CountInv ==
  \A i \in Id : \A k \in DOMAIN body[i] :
    applied[i][k] = Cardinality(Passed(i, k)) /\ saved[i][k] <= applied[i][k]

\* What is saved: all that a request without an error has taken; in the one
\* request of a gRPC call also the metrics before the refused one, once.
SavedOK(i, n) ==
  /\ Reporting /\ ~request[i][n].failed =>
       \A k \in 1 .. request[i][n].taken : saved[i][k] > 0
  /\ protocol = "grpc" /\ n = 1 =>
       \A k \in DOMAIN body[i] :
         saved[i][k] = IF \/ k < request[i][n].taken
                          \/ k = request[i][n].taken /\ ~request[i][n].failed
                         THEN 1 ELSE 0

SavedInv == \A i \in Id, n \in Attempt : SavedOK(i, n)

\* An error is one of a save, on a route that reports it: the row of some
\* metric is missing once for ever.
FailedInv ==
  \A i \in Id, n \in Attempt :
    request[i][n].failed =>
      Reporting /\ \E k \in DOMAIN body[i] : saved[i][k] < applied[i][k]

IInv ==
  /\ TypeOK /\ CallInv /\ AttemptInv /\ RequestInv /\ OutcomeInv
  /\ CountInv /\ SavedInv /\ FailedInv

-----------------------------------------------------------------------------
(* Bodies, attempts and requests.                                          *)

\* Every call has a first attempt, and finitely many of them.
LEMMA FirstAttempt ==
  1 \in Attempt /\ Attempt \subseteq Nat \ {0} /\ IsFiniteSet(Attempt)
<1>1. 1 \in Attempt /\ Attempt \subseteq Nat \ {0}
  BY DeliveryAssumption DEF Attempt
<1>2. IsFiniteSet(1 .. MaxRetry)
  BY DeliveryAssumption, FS_Interval
<1> QED
  BY <1>1, <1>2 DEF Attempt

\* The places of a body are numbered from 1, and only a call that has not
\* begun has none.
LEMMA BodyShape ==
  ASSUME NEW b \in Bodies \cup {<<>>}
  PROVE  /\ Len(b) \in Nat /\ DOMAIN b = 1 .. Len(b)
         /\ b # <<>> <=> Len(b) > 0
         /\ b \in Bodies => b # <<>>
<1>1. CASE b \in Bodies
  <2>1. b \in Seq({"gauge", "counter"}) /\ b # <<>>
    BY <1>1, DeliveryAssumption
  <2> QED
    BY <2>1
<1>2. CASE b = <<>> /\ b \notin Bodies
  BY <1>2
<1> QED
  BY <1>1, <1>2

Requests == [Id -> [Attempt -> Request]]

\* A step changes one request, and what it is then.
Becomes(i, n, state, taken, failed, late) ==
  /\ request' \in Requests
  /\ request'[i][n].state = state
  /\ request'[i][n].taken = taken
  /\ request'[i][n].failed = failed
  /\ request'[i][n].late = late
  /\ \A j \in Id, m \in Attempt : j # i \/ m # n => request'[j][m] = request[j][m]

\* Every step that changes requests changes one of them.
LEMMA OneRequest ==
  ASSUME request \in Requests, NEW i \in Id, NEW n \in Attempt,
         NEW r \in Request, request' = [request EXCEPT ![i][n] = r]
  PROVE  Becomes(i, n, r.state, r.taken, r.failed, r.late)
<1>1. request' \in Requests
  BY DEF Requests
<1>2. request'[i][n] = r
  BY DEF Requests
<1>3. \A j \in Id, m \in Attempt : j # i \/ m # n => request'[j][m] = request[j][m]
  BY DEF Requests
<1> QED
  BY <1>1, <1>2, <1>3 DEF Becomes

\* Its place in its call goes from none to sent, and on to its end.
LEMMA StateStep ==
  ASSUME request \in Requests, NEW i \in Id, NEW n \in Attempt,
         NEW st \in {"none", "sent", "answered", "refused", "lost"},
         request' = [request EXCEPT ![i][n].state = st]
  PROVE  Becomes(i, n, st, request[i][n].taken, request[i][n].failed,
                 request[i][n].late)
<1> DEFINE r == request[i][n]
           q == [r EXCEPT !.state = st]
<1>1. r \in Request
  BY DEF Requests
<1>2. /\ q \in Request /\ q.state = st /\ q.taken = r.taken
      /\ q.failed = r.failed /\ q.late = r.late
  <2> HIDE DEF r
  <2> QED
    BY <1>1 DEF Request
<1>3. request' = [request EXCEPT ![i][n] = q]
  BY DEF Requests
<1> HIDE DEF r, q
<1>4. Becomes(i, n, q.state, q.taken, q.failed, q.late)
  BY <1>2, <1>3, OneRequest
<1> QED
  BY <1>2, <1>4 DEF r

\* Its client stops waiting for the answer.
LEMMA LateStep ==
  ASSUME request \in Requests, NEW i \in Id, NEW n \in Attempt,
         request' = [request EXCEPT ![i][n].late = TRUE]
  PROVE  Becomes(i, n, request[i][n].state, request[i][n].taken,
                 request[i][n].failed, TRUE)
<1> DEFINE r == request[i][n]
           q == [r EXCEPT !.late = TRUE]
<1>1. r \in Request
  BY DEF Requests
<1>2. /\ q \in Request /\ q.state = r.state /\ q.taken = r.taken
      /\ q.failed = r.failed /\ q.late = TRUE
  <2> HIDE DEF r
  <2> QED
    BY <1>1 DEF Request
<1>3. request' = [request EXCEPT ![i][n] = q]
  BY DEF Requests
<1> HIDE DEF r, q
<1>4. Becomes(i, n, q.state, q.taken, q.failed, q.late)
  BY <1>2, <1>3, OneRequest
<1> QED
  BY <1>2, <1>4 DEF r

\* Its handler takes a metric, and may meet an error.
LEMMA TakeStep ==
  ASSUME request \in Requests, NEW i \in Id, NEW n \in Attempt,
         NEW k \in Nat, NEW e \in BOOLEAN,
         request' = [request EXCEPT ![i][n].taken = k, ![i][n].failed = @ \/ e]
  PROVE  Becomes(i, n, request[i][n].state, k, request[i][n].failed \/ e,
                 request[i][n].late)
<1> DEFINE r == request[i][n]
           f == r.failed \/ e
           q == [r EXCEPT !.taken = k, !.failed = f]
<1>1. r \in Request
  BY DEF Requests
<1>2. f \in BOOLEAN
  OBVIOUS
<1>3. request' = [request EXCEPT ![i][n] = q]
  BY DEF Requests
<1>4. /\ q \in Request /\ q.state = r.state /\ q.taken = k
      /\ q.failed = f /\ q.late = r.late
  <2> HIDE DEF r, f
  <2> QED
    BY <1>1, <1>2 DEF Request
<1> HIDE DEF q
<1>5. Becomes(i, n, q.state, q.taken, q.failed, q.late)
  BY <1>3, <1>4, OneRequest
<1> QED
  BY <1>4, <1>5

-----------------------------------------------------------------------------
(* What each step does to the requests.                                    *)

\* The request a sender posts, waits for or has given up.
LEMMA OwnRequest ==
  ASSUME TypeOK, CallInv, AttemptInv, NEW s \in Sender, pc[s] # "idle"
  PROVE  /\ current[s] \in Id /\ current[s] <= calls
         /\ outcome[current[s]] = "none"
         /\ pc[s] # "post" => attempt[s] \in Attempt
         /\ MayTry(s) => attempt[s] \in Attempt
  BY DeliveryAssumption DEF TypeOK, CallInv, AttemptInv, InAttempt, MayTry, Attempt, Id

LEMMA PostEffect ==
  ASSUME TypeOK, CallInv, AttemptInv, NEW s \in Sender, Post(s)
  PROVE  Becomes(current[s], attempt[s], "sent", Waiting(s).taken,
                 Waiting(s).failed, Waiting(s).late)
<1>1. current[s] \in Id /\ attempt[s] \in Attempt /\ request \in Requests
  BY OwnRequest DEF Post, Goto, TypeOK, Requests
<1>2. request' = [request EXCEPT ![current[s]][attempt[s]].state = "sent"]
  BY DEF Post
<1> QED
  BY <1>1, <1>2, StateStep DEF Waiting

LEMMA TransportErrorEffect ==
  ASSUME TypeOK, CallInv, AttemptInv, NEW s \in Sender, TransportError(s)
  PROVE  Becomes(current[s], attempt[s], Waiting(s).state, Waiting(s).taken,
                 Waiting(s).failed, TRUE)
<1>1. pc[s] = "wait"
  BY DEF TransportError, Goto
<1>2. current[s] \in Id /\ attempt[s] \in Attempt /\ request \in Requests
  BY <1>1, OwnRequest DEF TypeOK, Requests
<1>3. request' = [request EXCEPT ![current[s]][attempt[s]].late = TRUE]
  BY DEF TransportError
<1> QED
  BY <1>2, <1>3, LateStep DEF Waiting

LEMMA LoseEffect ==
  ASSUME TypeOK, NEW i \in Id, NEW n \in Attempt, Lose(i, n)
  PROVE  Becomes(i, n, "lost", request[i][n].taken, request[i][n].failed,
                 request[i][n].late)
<1>1. /\ request \in Requests
      /\ request' = [request EXCEPT ![i][n].state = "lost"]
  BY DEF TypeOK, Requests, Lose
<1> QED
  BY <1>1, StateStep

LEMMA RefuseEffect ==
  ASSUME TypeOK, NEW i \in Id, NEW n \in Attempt, Refuse(i, n)
  PROVE  Becomes(i, n, "refused", request[i][n].taken, request[i][n].failed,
                 request[i][n].late)
<1>1. /\ request \in Requests
      /\ request' = [request EXCEPT ![i][n].state = "refused"]
  BY DEF TypeOK, Requests, Refuse
<1> QED
  BY <1>1, StateStep

LEMMA AnswerEffect ==
  ASSUME TypeOK, NEW i \in Id, NEW n \in Attempt, Answer(i, n)
  PROVE  Becomes(i, n, "answered", request[i][n].taken, request[i][n].failed,
                 request[i][n].late)
<1>1. /\ request \in Requests
      /\ request' = [request EXCEPT ![i][n].state = "answered"]
  BY DEF TypeOK, Requests, Answer
<1> QED
  BY <1>1, StateStep

\* A handler takes the next metric of a request; an error marks the request,
\* where it is reported, and leaves the metric unsaved.
LEMMA ApplyEffect ==
  ASSUME TypeOK, NEW i \in Id, NEW n \in Attempt, Apply(i, n)
  PROVE  \E k \in DOMAIN body[i] :
           /\ k = request[i][n].taken + 1 /\ k \in Nat /\ k <= Len(body[i])
           /\ applied' = [applied EXCEPT ![i][k] = @ + 1]
           /\ \E err \in BOOLEAN :
                /\ Becomes(i, n, request[i][n].state, k,
                           request[i][n].failed \/ (err /\ Reporting),
                           request[i][n].late)
                /\ saved' = IF err THEN saved ELSE [saved EXCEPT ![i][k] = @ + 1]
<1> DEFINE k == request[i][n].taken + 1
<1>1. request \in Requests
  BY DEF TypeOK, Requests
<1>2. /\ k \in DOMAIN body[i] /\ applied' = [applied EXCEPT ![i][k] = @ + 1]
  BY DEF Apply
<1>3. k \in Nat /\ k <= Len(body[i])
  <2>1. body[i] \in Bodies \cup {<<>>}
    BY DEF TypeOK
  <2> QED
    BY <2>1, <1>2, BodyShape
<1>4. PICK err \in BOOLEAN :
        /\ request' = [request EXCEPT ![i][n].taken = k,
                                      ![i][n].failed = @ \/ (err /\ Reporting)]
        /\ saved' = IF err THEN saved ELSE [saved EXCEPT ![i][k] = @ + 1]
  BY DEF Apply
<1>5. (err /\ Reporting) \in BOOLEAN
  OBVIOUS
<1>6. Becomes(i, n, request[i][n].state, k,
              request[i][n].failed \/ (err /\ Reporting), request[i][n].late)
  <2> DEFINE e == err /\ Reporting
  <2>1. e \in BOOLEAN /\ request' = [request EXCEPT ![i][n].taken = k, ![i][n].failed = @ \/ e]
    BY <1>4
  <2> HIDE DEF k, e
  <2>2. Becomes(i, n, request[i][n].state, k, request[i][n].failed \/ e, request[i][n].late)
    BY <1>1, <1>3, <2>1, TakeStep
  <2> QED
    BY <2>2 DEF e
<1> QED
  BY <1>2, <1>3, <1>4, <1>6

-----------------------------------------------------------------------------
(* Type correctness.                                                       *)

\* The invariant holds at the start.
LEMMA InitIInv == Init => IInv
<1> SUFFICES ASSUME Init PROVE IInv
  OBVIOUS
<1> USE DeliveryAssumption
<1>1. TypeOK
  BY DEF Init, TypeOK, Id, Attempt, Request, Unsent
<1>2. \A i \in Id, n \in Attempt : request[i][n] = Unsent
  BY DEF Init
<1>3. \A i \in Id : body[i] = <<>> /\ outcome[i] = "none"
  BY DEF Init
<1>4. CallInv
  BY <1>3 DEF Init, CallInv, Id
<1>5. AttemptInv
  BY DEF Init, AttemptInv, InAttempt
<1>6. RequestInv
  BY <1>2 DEF RequestInv, RequestOK, Unsent
<1>7. OutcomeInv
  BY <1>3 DEF OutcomeInv
<1>8. CountInv
  BY <1>3 DEF CountInv
<1>9. SavedInv /\ FailedInv
  BY <1>2, <1>3 DEF SavedInv, SavedOK, FailedInv, Unsent
<1> QED
  BY <1>1, <1>4, <1>5, <1>6, <1>7, <1>8, <1>9 DEF IInv

\* What a body, a call and its metrics are is fixed when it begins.
LEMMA BeginEffect ==
  ASSUME TypeOK, NEW s \in Sender, Begin(s)
  PROVE  \E b \in Bodies :
           /\ calls + 1 \in Id /\ calls \in Nat
           /\ pc[s] = "idle" /\ current[s] = 0 /\ attempt[s] = 1
           /\ pc' = [pc EXCEPT ![s] = "post"]
           /\ current' = [current EXCEPT ![s] = calls + 1]
           /\ body' = [body EXCEPT ![calls + 1] = b]
           /\ applied' = [applied EXCEPT ![calls + 1] = [k \in DOMAIN b |-> 0]]
           /\ saved' = [saved EXCEPT ![calls + 1] = [k \in DOMAIN b |-> 0]]
<1>1. calls + 1 \in Id /\ calls \in Nat
  BY DeliveryAssumption DEF Begin, TypeOK, Id
<1>2. /\ pc[s] = "idle" /\ current[s] = 0 /\ attempt[s] = 1
      /\ pc' = [pc EXCEPT ![s] = "post"]
      /\ current' = [current EXCEPT ![s] = calls + 1]
  BY DEF Begin, Goto, TypeOK
<1>3. PICK b \in Calling :
        /\ body' = [body EXCEPT ![calls + 1] = b]
        /\ applied' = [applied EXCEPT ![calls + 1] = [k \in DOMAIN b |-> 0]]
        /\ saved' = [saved EXCEPT ![calls + 1] = [k \in DOMAIN b |-> 0]]
  BY DEF Begin
<1>4. b \in Bodies
  BY DEF Calling
<1> QED
  BY <1>1, <1>2, <1>3, <1>4

\* The attempts that have taken a metric, and those that have taken the one
\* before: the attempt about to take it is one of these only.
LEMMA ApplyLimit ==
  ASSUME IInv, NEW i \in Id, NEW n \in Attempt, Apply(i, n),
         NEW k \in DOMAIN body[i], k = request[i][n].taken + 1
  PROVE  /\ protocol = "http" => applied[i][k] < MaxRetry
         /\ protocol = "grpc" => applied[i][k] < 1
         /\ k > 1 => applied[i][k - 1] > applied[i][k]
         /\ protocol = "grpc" => n = 1
<1>0. TypeOK /\ RequestInv /\ CountInv
  BY DEF IInv
<1>1. /\ body[i] \in Bodies \cup {<<>>}
      /\ \A m \in Attempt : request[i][m].taken \in Nat
      /\ protocol \in {"http", "grpc"}
  <2>1. \A m \in Attempt : request[i][m] \in Request
    BY <1>0 DEF TypeOK
  <2> QED
    BY <1>0, <2>1, DeliveryAssumption DEF TypeOK, Request
<1>2. k \in Nat /\ DOMAIN body[i] = 1 .. Len(body[i]) /\ Len(body[i]) \in Nat
  BY <1>1, BodyShape
<1>3. applied[i][k] = Cardinality(Passed(i, k))
  BY <1>0 DEF CountInv
<1>4. n \notin Passed(i, k) /\ Passed(i, k) \subseteq Attempt
  BY <1>1 DEF Passed
<1>5. request[i][n].state = "sent"
  BY DEF Apply
<1>6. protocol = "grpc" => n = 1
  BY <1>0, <1>5, FirstAttempt DEF RequestInv, RequestOK
<1>7. ASSUME protocol = "http" PROVE applied[i][k] < MaxRetry
  <2>1. IsFiniteSet(Attempt) /\ Cardinality(Attempt) = MaxRetry
    BY DeliveryAssumption, FS_Interval DEF Attempt
  <2>2. /\ IsFiniteSet(Attempt \ {n})
        /\ Cardinality(Attempt \ {n}) = MaxRetry - 1
    BY <2>1, FS_RemoveElement
  <2>3. Cardinality(Passed(i, k)) <= MaxRetry - 1
    BY <1>4, <2>2, FS_Subset
  <2>4. Cardinality(Passed(i, k)) \in Nat
    BY <1>4, <2>1, FS_Subset, FS_CardinalityType
  <2> QED
    BY <1>3, <2>3, <2>4, DeliveryAssumption
<1>8. ASSUME protocol = "grpc" PROVE applied[i][k] < 1
  <2>1. \A m \in Attempt : m # 1 => request[i][m].taken = 0
    BY <1>0, <1>8, FirstAttempt DEF RequestInv, RequestOK
  <2>2. Passed(i, k) = {}
    BY <1>2, <1>4, <1>6, <1>8, <2>1 DEF Passed
  <2> QED
    BY <1>3, <2>2, FS_EmptySet
<1>9. ASSUME k > 1 PROVE applied[i][k - 1] > applied[i][k]
  <2>1. k - 1 \in DOMAIN body[i]
    BY <1>2, <1>9
  <2>2. applied[i][k - 1] = Cardinality(Passed(i, k - 1))
    BY <1>0, <2>1 DEF CountInv
  <2>3. Passed(i, k) \cup {n} \subseteq Passed(i, k - 1)
    BY <1>1, <1>2, <1>4 DEF Passed
  <2>4. Passed(i, k - 1) \subseteq Attempt
    BY DEF Passed
  <2>5. IsFiniteSet(Passed(i, k - 1)) /\ IsFiniteSet(Passed(i, k))
    BY <1>4, <2>4, FirstAttempt, FS_Subset
  <2>6. Cardinality(Passed(i, k) \cup {n}) = Cardinality(Passed(i, k)) + 1
    BY <1>4, <2>5, FS_AddElement
  <2>7. Cardinality(Passed(i, k) \cup {n}) <= Cardinality(Passed(i, k - 1))
    BY <2>3, <2>5, FS_Subset
  <2>8. /\ Cardinality(Passed(i, k)) \in Nat
        /\ Cardinality(Passed(i, k - 1)) \in Nat
    BY <2>5, FS_CardinalityType
  <2> QED
    BY <1>3, <2>2, <2>6, <2>7, <2>8
<1> QED
  BY <1>1, <1>6, <1>7, <1>8, <1>9

LEMMA NextTypeOK ==
  ASSUME IInv, [Next]_vars
  PROVE  TypeOK'
<1> USE DeliveryAssumption
<1>0. TypeOK /\ CallInv /\ AttemptInv /\ RequestInv /\ CountInv
  BY DEF IInv
<1>1. ASSUME NEW s \in Sender, Begin(s) PROVE TypeOK'
  <2>1. PICK b \in Bodies :
           /\ calls + 1 \in Id /\ calls \in Nat
           /\ pc' = [pc EXCEPT ![s] = "post"]
           /\ current' = [current EXCEPT ![s] = calls + 1]
           /\ body' = [body EXCEPT ![calls + 1] = b]
           /\ applied' = [applied EXCEPT ![calls + 1] = [k \in DOMAIN b |-> 0]]
           /\ saved' = [saved EXCEPT ![calls + 1] = [k \in DOMAIN b |-> 0]]
    BY <1>0, <1>1, BeginEffect
  <2>2. body' \in [Id -> Bodies \cup {<<>>}]
    BY <1>0, <2>1 DEF TypeOK
  <2>3. \A i \in Id, n \in Attempt : request'[i][n].taken <= Len(body'[i])
    <3> SUFFICES ASSUME NEW i \in Id, NEW n \in Attempt
                 PROVE  request[i][n].taken <= Len(body'[i])
      BY <1>1 DEF Begin
    <3>1. CASE i = calls + 1
      <4>1. request[i][n].taken = 0
        BY <1>0, <2>1, <3>1 DEF RequestInv, RequestOK
      <4>2. Len(body'[i]) \in Nat
        BY <2>2, BodyShape
      <4> QED
        BY <4>1, <4>2
    <3>2. CASE i # calls + 1
      BY <1>0, <2>1, <3>2 DEF TypeOK
    <3> QED
      BY <3>1, <3>2
  <2>4. /\ DOMAIN applied' = Id /\ DOMAIN saved' = Id
        /\ \A i \in Id : /\ applied'[i] \in [DOMAIN body'[i] -> 0 .. MaxRetry]
                         /\ saved'[i] \in [DOMAIN body'[i] -> 0 .. MaxRetry]
    BY <1>0, <2>1 DEF TypeOK
  <2> QED
    BY <1>0, <1>1, <2>1, <2>2, <2>3, <2>4 DEF TypeOK, Begin, flagVars, Id
<1>2. ASSUME NEW s \in Sender, Post(s) PROVE TypeOK'
  <2>1. /\ request' \in Requests
        /\ \A i \in Id, n \in Attempt : request'[i][n].taken = request[i][n].taken
    BY <1>0, <1>2, PostEffect DEF Becomes, Waiting
  <2> QED
    BY <1>0, <1>2, <2>1 DEF Post, Goto, TypeOK, Requests, flagVars, callVars, storeVars
<1>3. ASSUME NEW s \in Sender, Receive(s) PROVE TypeOK'
  BY <1>0, <1>3 DEF Receive, ReturnWith, Goto, TypeOK, flagVars, storeVars, CallInv
<1>4. ASSUME NEW s \in Sender, TransportError(s) PROVE TypeOK'
  <2>1. /\ request' \in Requests
        /\ \A i \in Id, n \in Attempt : request'[i][n].taken = request[i][n].taken
    BY <1>0, <1>4, TransportErrorEffect DEF Becomes, Waiting
  <2>2. \/ Goto(s, "wait", "sleep") /\ UNCHANGED <<current, attempt, outcome>>
        \/ Goto(s, "wait", "idle") /\ ReturnWith(s, "error")
    BY <1>4 DEF TransportError
  <2>3. /\ pc' \in [Sender -> {"idle", "post", "wait", "sleep"}]
        /\ current' \in [Sender -> Id \cup {0}]
        /\ attempt' \in [Sender -> 1 .. MaxRetry + 1]
        /\ \A t \in Sender : pc'[t] = "idle" => current'[t] = 0 /\ attempt'[t] = 1
    <3>1. CASE Goto(s, "wait", "sleep") /\ UNCHANGED <<current, attempt, outcome>>
      BY <1>0, <3>1 DEF Goto, TypeOK
    <3>2. CASE Goto(s, "wait", "idle") /\ ReturnWith(s, "error")
      BY <1>0, <3>2 DEF Goto, ReturnWith, TypeOK
    <3> QED
      BY <2>2, <3>1, <3>2
  <2>4. outcome' \in [Id -> {"none", "nil", "error"}]
    BY <1>0, <2>2 DEF ReturnWith, TypeOK
  <2>5. UNCHANGED <<protocol, batchUpdate, calls, body, gauge, counter, applied, saved>>
    BY <1>4 DEF TransportError, flagVars, storeVars
  <2> QED
    BY <1>0, <2>1, <2>3, <2>4, <2>5 DEF TypeOK, Requests
<1>5. ASSUME NEW s \in Sender, Sleep(s) PROVE TypeOK'
  <2>1. attempt[s] <= MaxRetry
    BY <1>0, <1>5 DEF Sleep, Goto, CallInv, AttemptInv, InAttempt
  <2> QED
    BY <1>0, <1>5, <2>1 DEF Sleep, Goto, TypeOK, flagVars, callVars, storeVars
<1>6. ASSUME NEW s \in Sender, GiveUp(s) PROVE TypeOK'
  BY <1>0, <1>6 DEF GiveUp, ReturnWith, Goto, TypeOK, flagVars, storeVars, CallInv
<1>b. ASSUME NEW s \in Sender, BuildError(s) PROVE TypeOK'
  BY <1>0, <1>b DEF BuildError, ReturnWith, Goto, TypeOK, flagVars, storeVars, CallInv
<1>r. ASSUME NEW i \in Id, NEW n \in Attempt, Refuse(i, n) PROVE TypeOK'
  <2>1. /\ request' \in Requests
        /\ \A j \in Id, m \in Attempt : request'[j][m].taken = request[j][m].taken
    BY <1>0, <1>r, RefuseEffect DEF Becomes
  <2> QED
    BY <1>0, <1>r, <2>1 DEF Refuse, TypeOK, Requests, flagVars, callVars, storeVars, senderVars
<1>7. ASSUME NEW i \in Id, NEW n \in Attempt, Lose(i, n) PROVE TypeOK'
  <2>1. /\ request' \in Requests
        /\ \A j \in Id, m \in Attempt : request'[j][m].taken = request[j][m].taken
    BY <1>0, <1>7, LoseEffect DEF Becomes
  <2> QED
    BY <1>0, <1>7, <2>1 DEF Lose, TypeOK, Requests, flagVars, callVars, storeVars, senderVars
<1>8. ASSUME NEW i \in Id, NEW n \in Attempt, Apply(i, n) PROVE TypeOK'
  <2>1. PICK k \in DOMAIN body[i] :
           /\ k = request[i][n].taken + 1 /\ k \in Nat /\ k <= Len(body[i])
           /\ applied' = [applied EXCEPT ![i][k] = @ + 1]
           /\ \E err \in BOOLEAN :
                /\ Becomes(i, n, request[i][n].state, k,
                           request[i][n].failed \/ (err /\ Reporting),
                           request[i][n].late)
                /\ saved' = IF err THEN saved ELSE [saved EXCEPT ![i][k] = @ + 1]
    BY <1>0, <1>8, ApplyEffect
  <2>2. /\ request' \in Requests
        /\ \A j \in Id, m \in Attempt : request'[j][m].taken <= Len(body[j])
    BY <1>0, <2>1 DEF Becomes, TypeOK
  <2>3. applied[i][k] + 1 <= MaxRetry /\ saved[i][k] <= applied[i][k]
    <3>1. /\ protocol = "http" => applied[i][k] < MaxRetry
          /\ protocol = "grpc" => applied[i][k] < 1
          /\ protocol \in {"http", "grpc"}
      BY <1>0, <1>8, <2>1, ApplyLimit DEF TypeOK
    <3>2. /\ applied[i][k] \in 0 .. MaxRetry
          /\ saved[i][k] <= applied[i][k]
      BY <1>0 DEF TypeOK, CountInv
    <3> QED
      BY <3>1, <3>2
  <2>4. /\ DOMAIN applied' = Id
        /\ \A j \in Id : applied'[j] \in [DOMAIN body[j] -> 0 .. MaxRetry]
    BY <1>0, <2>1, <2>3 DEF TypeOK
  <2>5. /\ DOMAIN saved' = Id
        /\ \A j \in Id : saved'[j] \in [DOMAIN body[j] -> 0 .. MaxRetry]
    BY <1>0, <2>1, <2>3 DEF TypeOK
  <2>6. gauge' \in 0 .. MaxCalls /\ counter' \in Nat
    BY <1>0, <1>8 DEF Apply, TypeOK, Id
  <2> QED
    BY <1>0, <1>8, <2>2, <2>4, <2>5, <2>6
    DEF Apply, TypeOK, Requests, flagVars, callVars, senderVars
<1>9. ASSUME NEW i \in Id, NEW n \in Attempt, Answer(i, n) PROVE TypeOK'
  <2>1. /\ request' \in Requests
        /\ \A j \in Id, m \in Attempt : request'[j][m].taken = request[j][m].taken
    BY <1>0, <1>9, AnswerEffect DEF Becomes
  <2> QED
    BY <1>0, <1>9, <2>1 DEF Answer, TypeOK, Requests, flagVars, callVars, storeVars, senderVars
<1>10. CASE UNCHANGED vars
  BY <1>0, <1>10 DEF vars, TypeOK
<1> QED
  BY <1>1, <1>2, <1>3, <1>4, <1>5, <1>6, <1>7, <1>8, <1>9, <1>10, <1>b, <1>r
  DEF Next, ClientStep

-----------------------------------------------------------------------------
(* The calls.                                                              *)

LEMMA NextCallInv ==
  ASSUME IInv, [Next]_vars
  PROVE  CallInv'
<1>0. TypeOK /\ CallInv /\ AttemptInv
  BY DEF IInv
<1>1. ASSUME NEW s \in Sender, Begin(s) PROVE CallInv'
  <2>1. PICK b \in Bodies :
           /\ calls + 1 \in Id /\ calls \in Nat
           /\ pc' = [pc EXCEPT ![s] = "post"]
           /\ current' = [current EXCEPT ![s] = calls + 1]
           /\ body' = [body EXCEPT ![calls + 1] = b]
    BY <1>0, <1>1, BeginEffect
  <2>2. calls' = calls + 1 /\ outcome' = outcome
    BY <1>1 DEF Begin
  <2>3. b # <<>> /\ Id \subseteq Nat \ {0}
    BY DeliveryAssumption, BodyShape DEF Id
  <2>4. \A i \in Id : i <= calls' <=> body'[i] # <<>>
    BY <1>0, <2>1, <2>2, <2>3 DEF CallInv, TypeOK
  <2>5. outcome[calls + 1] = "none" /\ \A i \in Id : i > calls' => outcome[i] = "none"
    BY <1>0, <2>1, <2>2, <2>3 DEF CallInv
  <2>6. \A t \in Sender : /\ t # s => pc'[t] = pc[t] /\ current'[t] = current[t]
                          /\ current[t] # 0 => current[t] <= calls
                          /\ current[t] \in Nat
    <3> SUFFICES ASSUME NEW t \in Sender
                 PROVE  /\ t # s => pc'[t] = pc[t] /\ current'[t] = current[t]
                        /\ current[t] # 0 => current[t] <= calls
                        /\ current[t] \in Nat
      OBVIOUS
    <3>1. current[t] \in Nat /\ (current[t] # 0 => current[t] <= calls)
      <4>1. current[t] \in Id \cup {0}
        BY <1>0 DEF TypeOK
      <4>2. current[t] # 0 => current[t] <= calls
        BY <1>0 DEF CallInv
      <4>3. current[t] \in Nat
        <5>1. CASE current[t] = 0
          BY <5>1
        <5>2. CASE current[t] \in Id
          BY <5>2, <2>3
        <5> QED
          BY <4>1, <5>1, <5>2
      <4> QED
        BY <4>2, <4>3
    <3>2. t # s => pc'[t] = pc[t] /\ current'[t] = current[t]
      BY <1>0, <2>1 DEF TypeOK
    <3> QED
      BY <3>1, <3>2
  <2>7. current'[s] = calls + 1
    BY <1>0, <2>1 DEF TypeOK
  <2>8. \A t \in Sender : pc'[t] # "idle" => current'[t] # 0
    BY <1>0, <2>1, <2>6, <2>7 DEF CallInv
  <2>9. \A t \in Sender : current'[t] # 0 =>
           current'[t] <= calls' /\ outcome[current'[t]] = "none"
    BY <1>0, <2>1, <2>2, <2>5, <2>6, <2>7 DEF CallInv
  <2>10. \A t, u \in Sender : current'[t] = current'[u] /\ current'[t] # 0 => t = u
    BY <1>0, <2>1, <2>6, <2>7 DEF CallInv
  <2> QED
    BY <2>2, <2>4, <2>5, <2>8, <2>9, <2>10 DEF CallInv
<1>2. ASSUME NEW s \in Sender, pc[s] # "idle", NEW to,
             pc' = [pc EXCEPT ![s] = to],
             UNCHANGED <<calls, body, outcome, current>>
      PROVE  CallInv'
  BY <1>0, <1>2 DEF CallInv, TypeOK
<1>3. ASSUME NEW s \in Sender, NEW from, from # "idle", NEW r,
             Goto(s, from, "idle"), ReturnWith(s, r), UNCHANGED <<calls, body>>
      PROVE  CallInv'
  <2>1. /\ current[s] \in Id /\ current[s] <= calls
        /\ \A t \in Sender : t # s => current[t] # current[s]
    BY <1>0, <1>3 DEF Goto, CallInv, TypeOK
  <2>2. \A t \in Sender : current'[t] = IF t = s THEN 0 ELSE current[t]
    BY <1>0, <1>3 DEF ReturnWith, TypeOK
  <2>3. \A t \in Sender : pc'[t] = IF t = s THEN "idle" ELSE pc[t]
    BY <1>0, <1>3 DEF Goto, TypeOK
  <2>4. \A i \in Id : i # current[s] => outcome'[i] = outcome[i]
    BY <1>0, <1>3 DEF ReturnWith, TypeOK
  <2>5. \A t \in Sender : current[t] \in Id \cup {0}
    BY <1>0 DEF TypeOK
  <2>6. Id \subseteq Int /\ calls \in Int
    BY <1>0 DEF Id, TypeOK
  <2>7. \A i \in Id : i > calls => outcome'[i] = "none"
    <3> SUFFICES ASSUME NEW i \in Id, i > calls PROVE outcome'[i] = "none"
      OBVIOUS
    <3>1. i # current[s]
      BY <2>1, <2>6
    <3> QED
      BY <1>0, <2>4, <3>1 DEF CallInv
  <2>8. \A t \in Sender : current'[t] # 0 =>
          current'[t] <= calls /\ outcome'[current'[t]] = "none"
    BY <1>0, <2>1, <2>2, <2>4, <2>5 DEF CallInv
  <2> QED
    BY <1>0, <1>3, <2>2, <2>3, <2>7, <2>8 DEF CallInv
<1>4. ASSUME UNCHANGED <<calls, body, outcome, current, pc>> PROVE CallInv'
  BY <1>0, <1>4 DEF CallInv
<1>5. ASSUME NEW s \in Sender, ClientStep(s) PROVE CallInv'
  <2>1. CASE Post(s)
    BY <1>2, <2>1 DEF Post, Goto, callVars
  <2>2. CASE Receive(s)
    BY <1>3, <2>2 DEF Receive
  <2>3. CASE TransportError(s)
    BY <1>2, <1>3, <2>3 DEF TransportError, Goto
  <2>4. CASE Sleep(s)
    BY <1>2, <2>4 DEF Sleep, Goto, callVars
  <2>5. CASE GiveUp(s) \/ BuildError(s)
    BY <1>3, <2>5 DEF GiveUp, BuildError
  <2> QED
    BY <1>5, <2>1, <2>2, <2>3, <2>4, <2>5 DEF ClientStep
<1>6. ASSUME NEW i \in Id, NEW n \in Attempt,
             Lose(i, n) \/ Refuse(i, n) \/ Apply(i, n) \/ Answer(i, n)
      PROVE  CallInv'
  BY <1>4, <1>6 DEF Lose, Refuse, Apply, Answer, senderVars, callVars
<1>7. CASE UNCHANGED vars
  BY <1>4, <1>7 DEF vars
<1> QED
  BY <1>1, <1>5, <1>6, <1>7 DEF Next

-----------------------------------------------------------------------------
(* The attempts of a call.                                                 *)

LEMMA NextAttemptInv ==
  ASSUME IInv, [Next]_vars
  PROVE  AttemptInv'
<1>0. TypeOK /\ CallInv /\ AttemptInv /\ RequestInv
  BY DEF IInv
<1>a. /\ Attempt = 1 .. MaxRetry /\ MaxRetry \in Nat /\ 1 \in Attempt
      /\ Id = 1 .. MaxCalls /\ MaxCalls \in Nat
      /\ \A t \in Sender : /\ current[t] \in Id \cup {0}
                           /\ attempt[t] \in 1 .. MaxRetry + 1
  BY <1>0, FirstAttempt, DeliveryAssumption DEF TypeOK, Attempt, Id
<1>1. ASSUME NEW s \in Sender, Begin(s) PROVE AttemptInv'
  <2>1. /\ calls + 1 \in Id /\ calls \in Nat
        /\ attempt[s] = 1
        /\ pc' = [pc EXCEPT ![s] = "post"]
        /\ current' = [current EXCEPT ![s] = calls + 1]
    BY <1>0, <1>1, BeginEffect
  <2>2. UNCHANGED <<protocol, attempt, request>>
    BY <1>1 DEF Begin, flagVars
  <2>3. \A n \in Attempt : request[calls + 1][n].state = "none"
    BY <1>0, <2>1 DEF RequestInv, RequestOK
  <2>4. \A t \in Sender : /\ pc'[t] = IF t = s THEN "post" ELSE pc[t]
                          /\ current'[t] = IF t = s THEN calls + 1 ELSE current[t]
    BY <1>0, <2>1 DEF TypeOK
  <2> SUFFICES ASSUME NEW t \in Sender, current'[t] # 0 PROVE InAttempt(t)'
    BY DEF AttemptInv
  <2>5. CASE t = s
    BY <1>a, <2>1, <2>2, <2>3, <2>4, <2>5 DEF InAttempt, Waiting
  <2>6. CASE t # s
    BY <1>0, <2>2, <2>4, <2>6 DEF AttemptInv, InAttempt, Waiting
  <2> QED
    BY <2>5, <2>6
\* Another sender is in another call.
<1>2. ASSUME NEW s \in Sender, NEW t \in Sender, t # s, current'[t] # 0,
             current'[t] = current[t], attempt'[t] = attempt[t], pc'[t] = pc[t],
             current[s] # 0, UNCHANGED protocol,
             \A n \in Attempt : request'[current[t]][n] = request[current[t]][n]
      PROVE  InAttempt(t)'
  <2>1. attempt[t] <= MaxRetry => attempt[t] \in Attempt
    BY <1>a
  <2> QED
    BY <1>0, <1>2, <2>1 DEF AttemptInv, InAttempt, Waiting
<1>3. ASSUME NEW s \in Sender, Post(s) PROVE AttemptInv'
  <2>1. /\ Becomes(current[s], attempt[s], "sent", Waiting(s).taken,
                   Waiting(s).failed, Waiting(s).late)
        /\ pc[s] = "post" /\ current[s] # 0
        /\ pc' = [pc EXCEPT ![s] = "wait"]
        /\ UNCHANGED <<protocol, current, attempt>>
        /\ attempt[s] <= MaxRetry
    BY <1>0, <1>3, PostEffect DEF Post, Goto, flagVars, CallInv, MayTry
  <2> SUFFICES ASSUME NEW t \in Sender, current'[t] # 0 PROVE InAttempt(t)'
    BY DEF AttemptInv
  <2>2. CASE t = s
    <3>1. InAttempt(s) /\ attempt[s] \in Attempt /\ current[s] \in Id
      BY <1>0, <1>a, <2>1 DEF AttemptInv
    <3>2. pc'[s] = "wait" /\ request'[current[s]][attempt[s]].state = "sent"
      BY <1>0, <2>1 DEF TypeOK, Becomes
    <3>3. \A n \in Attempt : n # attempt[s] =>
            request'[current[s]][n] = request[current[s]][n]
      BY <2>1, <3>1 DEF Becomes
    <3>4. \A n \in Attempt : n < attempt[s] \/ n > attempt[s] => n # attempt[s]
      BY <1>a
    <3> QED
      BY <1>a, <2>1, <2>2, <3>1, <3>2, <3>3, <3>4 DEF InAttempt, Waiting
  <2>3. CASE t # s
    <3>1. current[t] # current[s]
      BY <1>0, <2>1, <2>3 DEF CallInv
    <3>2. pc'[t] = pc[t]
      BY <1>0, <2>1, <2>3 DEF TypeOK
    <3> QED
      BY <1>a, <1>2, <2>1, <2>3, <3>1, <3>2 DEF Becomes
  <2> QED
    BY <2>2, <2>3
<1>4. ASSUME NEW s \in Sender, pc[s] # "idle", NEW r, ReturnWith(s, r),
             pc' = [pc EXCEPT ![s] = "idle"], UNCHANGED protocol,
             \A i \in Id, n \in Attempt : i # current[s] => request'[i][n] = request[i][n]
      PROVE  AttemptInv'
  <2>1. current[s] # 0
    BY <1>0, <1>4 DEF CallInv
  <2>2. current'[s] = 0
    BY <1>0, <1>4 DEF ReturnWith, TypeOK
  <2>3. ASSUME NEW t \in Sender, t # s
        PROVE  current'[t] = current[t] /\ attempt'[t] = attempt[t] /\ pc'[t] = pc[t]
    BY <1>0, <1>4, <2>3 DEF ReturnWith, TypeOK
  <2> SUFFICES ASSUME NEW t \in Sender, current'[t] # 0 PROVE InAttempt(t)'
    BY DEF AttemptInv
  <2>4. t # s
    BY <2>2
  <2>5. current[t] \in Id /\ current[t] # current[s]
    BY <1>0, <1>a, <2>1, <2>3, <2>4 DEF CallInv
  <2> QED
    BY <1>2, <1>4, <2>1, <2>3, <2>4, <2>5
<1>5. ASSUME NEW s \in Sender, TransportError(s) PROVE AttemptInv'
  <2>1. /\ Becomes(current[s], attempt[s], Waiting(s).state, Waiting(s).taken,
                   Waiting(s).failed, TRUE)
        /\ pc[s] = "wait" /\ current[s] # 0
        /\ UNCHANGED protocol
    BY <1>0, <1>5, TransportErrorEffect DEF TransportError, Goto, flagVars, CallInv
  <2>2. CASE /\ protocol = "http"
             /\ pc' = [pc EXCEPT ![s] = "sleep"] /\ UNCHANGED <<current, attempt, outcome>>
    <3> SUFFICES ASSUME NEW t \in Sender, current'[t] # 0 PROVE InAttempt(t)'
      BY DEF AttemptInv
    <3>1. CASE t = s
      <4>1. InAttempt(s) /\ attempt[s] \in Attempt /\ current[s] \in Id
        BY <1>0, <1>a, <2>1 DEF AttemptInv, InAttempt
      <4>2. /\ pc'[s] = "sleep"
            /\ request'[current[s]][attempt[s]].state # "none"
            /\ request'[current[s]][attempt[s]].late
        BY <1>0, <2>1, <2>2, <4>1 DEF TypeOK, Becomes, InAttempt
      <4>3. \A n \in Attempt : n # attempt[s] =>
              request'[current[s]][n] = request[current[s]][n]
        BY <2>1, <4>1 DEF Becomes
      <4>4. \A n \in Attempt : n < attempt[s] \/ n > attempt[s] => n # attempt[s]
        BY <1>a
      <4>5. protocol # "grpc"
        BY <2>2
      <4> QED
        BY <1>a, <2>1, <2>2, <3>1, <4>1, <4>2, <4>3, <4>4, <4>5 DEF InAttempt, Waiting
    <3>2. CASE t # s
      <4>1. current[t] # current[s]
        BY <1>0, <2>1, <2>2, <3>2 DEF CallInv
      <4>2. pc'[t] = pc[t]
        BY <1>0, <2>2, <3>2 DEF TypeOK
      <4> QED
        BY <1>a, <1>2, <2>1, <2>2, <3>2, <4>1, <4>2 DEF Becomes
    <3> QED
      BY <3>1, <3>2
  <2>3. CASE pc' = [pc EXCEPT ![s] = "idle"] /\ ReturnWith(s, "error")
    BY <1>4, <2>1, <2>3 DEF Becomes
  <2> QED
    BY <1>5, <2>2, <2>3 DEF TransportError, Goto
<1>6. ASSUME NEW s \in Sender, Sleep(s) PROVE AttemptInv'
  <2>1. /\ pc[s] = "sleep" /\ current[s] # 0
        /\ pc' = [pc EXCEPT ![s] = "post"]
        /\ attempt' = [attempt EXCEPT ![s] = @ + 1]
        /\ UNCHANGED <<protocol, current, request>>
    BY <1>0, <1>6 DEF Sleep, Goto, flagVars, CallInv
  <2> SUFFICES ASSUME NEW t \in Sender, current'[t] # 0 PROVE InAttempt(t)'
    BY DEF AttemptInv
  <2>2. CASE t = s
    <3>1. pc'[s] = "post" /\ attempt'[s] = attempt[s] + 1
      BY <1>0, <2>1 DEF TypeOK
    <3>2. InAttempt(s) /\ attempt[s] \in Attempt
      BY <1>0, <1>a, <2>1 DEF AttemptInv, InAttempt
    <3>3. \A n \in Attempt : /\ n < attempt[s] + 1 => n < attempt[s] \/ n = attempt[s]
                             /\ n >= attempt[s] + 1 => n > attempt[s]
      BY <1>a
    <3> QED
      BY <1>a, <2>1, <2>2, <3>1, <3>2, <3>3 DEF InAttempt, Waiting
  <2>3. CASE t # s
    BY <1>0, <1>2, <2>1, <2>3 DEF TypeOK
  <2> QED
    BY <2>2, <2>3
<1>7. ASSUME UNCHANGED <<protocol, pc, current, attempt>>,
             \A i \in Id, n \in Attempt :
               /\ request[i][n].state = "none" <=> request'[i][n].state = "none"
               /\ request[i][n].late <=> request'[i][n].late
      PROVE  AttemptInv'
  <2> SUFFICES ASSUME NEW t \in Sender, current'[t] # 0 PROVE InAttempt(t)'
    BY DEF AttemptInv
  <2>1. current[t] \in Id /\ InAttempt(t)
    BY <1>0, <1>a, <1>7 DEF AttemptInv
  <2>2. attempt[t] <= MaxRetry => attempt[t] \in Attempt
    BY <1>a
  <2> QED
    BY <1>7, <2>1, <2>2 DEF InAttempt, Waiting
<1>8. ASSUME NEW s \in Sender, ClientStep(s) PROVE AttemptInv'
  <2>1. CASE Receive(s)
    BY <1>4, <2>1 DEF Receive, Goto, flagVars
  <2>2. CASE GiveUp(s) \/ BuildError(s)
    BY <1>4, <2>2 DEF GiveUp, BuildError, Goto, flagVars
  <2> QED
    BY <1>3, <1>5, <1>6, <1>8, <2>1, <2>2 DEF ClientStep
<1>9. ASSUME NEW i \in Id, NEW n \in Attempt,
             Lose(i, n) \/ Refuse(i, n) \/ Apply(i, n) \/ Answer(i, n)
      PROVE  AttemptInv'
  <2>1. UNCHANGED <<protocol, pc, current, attempt>> /\ request[i][n].state = "sent"
    BY <1>9 DEF Lose, Refuse, Apply, Answer, flagVars, senderVars
  <2>2. CASE Lose(i, n)
    BY <1>0, <1>7, <2>1, <2>2, LoseEffect DEF Becomes
  <2>3. CASE Apply(i, n)
    BY <1>0, <1>7, <2>1, <2>3, ApplyEffect DEF Becomes
  <2>4. CASE Answer(i, n)
    BY <1>0, <1>7, <2>1, <2>4, AnswerEffect DEF Becomes
  <2>5. CASE Refuse(i, n)
    BY <1>0, <1>7, <2>1, <2>5, RefuseEffect DEF Becomes
  <2> QED
    BY <1>9, <2>2, <2>3, <2>4, <2>5
<1>10. CASE UNCHANGED vars
  BY <1>7, <1>10 DEF vars
<1> QED
  BY <1>1, <1>8, <1>9, <1>10 DEF Next

-----------------------------------------------------------------------------
(* The requests and what a call has returned.                              *)

LEMMA NextRequestInv ==
  ASSUME IInv, [Next]_vars
  PROVE  RequestInv'
<1>0. TypeOK /\ CallInv /\ AttemptInv /\ RequestInv
  BY DEF IInv
<1>a. /\ Attempt = 1 .. MaxRetry /\ MaxRetry \in Nat /\ 1 \in Attempt
      /\ Id = 1 .. MaxCalls /\ MaxCalls \in Nat /\ calls \in 0 .. MaxCalls
      /\ request \in Requests
      /\ \A i \in Id, n \in Attempt : request[i][n].taken \in Nat
  <2>1. request \in Requests
    BY <1>0 DEF TypeOK, Requests
  <2>2. \A i \in Id, n \in Attempt : request[i][n] \in Request
    BY <2>1 DEF Requests
  <2> QED
    BY <1>0, <2>1, <2>2, FirstAttempt, DeliveryAssumption DEF TypeOK, Attempt, Id, Request
<1>1. ASSUME NEW s \in Sender, Begin(s) PROVE RequestInv'
  <2>1. PICK b \in Bodies : body' = [body EXCEPT ![calls + 1] = b]
    BY <1>0, <1>1, BeginEffect
  <2>2. calls' = calls + 1 /\ UNCHANGED <<protocol, request>>
    BY <1>1 DEF Begin, flagVars
  <2> SUFFICES ASSUME NEW i \in Id, NEW n \in Attempt PROVE RequestOK(i, n)'
    BY DEF RequestInv
  <2>3. RequestOK(i, n)
    BY <1>0 DEF RequestInv
  <2>4. i > calls => request[i][n].state = "none"
    BY <2>3 DEF RequestOK
  <2>5. i <= calls => body'[i] = body[i]
    BY <1>0, <1>a, <2>1 DEF TypeOK
  <2>6. request[i][n].state = "answered" => i <= calls
    BY <1>a, <2>4
  <2> QED
    BY <1>a, <2>2, <2>3, <2>5, <2>6 DEF RequestOK, Complete, StopsAtError
\* A request is as it was, but for its state; its client may be late.
<1>2. ASSUME NEW i \in Id, NEW n \in Attempt, NEW st, NEW lt,
             Becomes(i, n, st, request[i][n].taken, request[i][n].failed, lt),
             UNCHANGED <<calls, protocol, body>>,
             request[i][n].late => lt,
             st # "none" => /\ i <= calls /\ (protocol = "grpc" => n = 1)
                            /\ \A m \in Attempt : m < n => request[i][m].late,
             st = "refused" => request[i][n].taken = 0,
             st = "lost" => request[i][n].taken = 0,
             st = "none" => ~lt /\ request[i][n].state = "none",
             st = "answered" => Complete(i, n)
      PROVE  RequestInv'
  <2> SUFFICES ASSUME NEW j \in Id, NEW m \in Attempt PROVE RequestOK(j, m)'
    BY DEF RequestInv
  <2>1. \A l \in Attempt : request[j][l].late => request'[j][l].late
    BY <1>2 DEF Becomes
  <2>2. RequestOK(j, m)
    BY <1>0 DEF RequestInv
  <2>3. CASE j = i /\ m = n
    <3>1. /\ request'[i][n].state = st
          /\ request'[i][n].taken = request[i][n].taken
          /\ request'[i][n].failed = request[i][n].failed
          /\ request'[i][n].late = lt
      BY <1>2 DEF Becomes
    <3>2. Complete(i, n) => Complete(i, n)'
      BY <1>2, <3>1 DEF Complete, StopsAtError
    <3>3. st = "none" => request[i][n].taken = 0
      BY <1>2, <2>2, <2>3 DEF RequestOK
    <3>4. request[i][n].failed => request[i][n].taken > 0
      BY <2>2, <2>3 DEF RequestOK
    <3>5. st # "none" => \A l \in Attempt : l < n => request'[i][l].late
      BY <1>2, <2>1, <2>3
    <3>6. i > calls' \/ (protocol' = "grpc" /\ n > 1) => st = "none"
      <4>1. calls \in Nat /\ i \in Nat
        BY <1>a
      <4> QED
        BY <1>2, <4>1
    <3> QED
      BY <1>2, <2>3, <3>1, <3>2, <3>3, <3>4, <3>5, <3>6 DEF RequestOK
  <2>4. CASE j # i \/ m # n
    <3>1. request'[j][m] = request[j][m]
      BY <1>2, <2>4 DEF Becomes
    <3> QED
      BY <1>2, <2>1, <2>2, <3>1 DEF RequestOK, Complete, StopsAtError
  <2> QED
    BY <2>3, <2>4
<1>3. ASSUME NEW s \in Sender, Post(s) PROVE RequestInv'
  <2>1. /\ Becomes(current[s], attempt[s], "sent", Waiting(s).taken,
                   Waiting(s).failed, Waiting(s).late)
        /\ pc[s] = "post" /\ current[s] # 0
        /\ UNCHANGED <<protocol, calls, body>>
    BY <1>0, <1>3, PostEffect DEF Post, Goto, flagVars, callVars, CallInv
  <2>2. /\ current[s] \in Id /\ current[s] <= calls /\ attempt[s] \in Attempt
        /\ InAttempt(s)
    BY <1>0, <1>3, <2>1, OwnRequest DEF AttemptInv, Post
  <2> QED
    BY <1>2, <2>1, <2>2 DEF InAttempt, Waiting
<1>4. ASSUME NEW s \in Sender, TransportError(s) PROVE RequestInv'
  <2>1. /\ Becomes(current[s], attempt[s], Waiting(s).state, Waiting(s).taken,
                   Waiting(s).failed, TRUE)
        /\ pc[s] = "wait" /\ current[s] # 0
        /\ UNCHANGED <<protocol, calls, body>>
    BY <1>0, <1>4, TransportErrorEffect DEF TransportError, Goto, flagVars, CallInv
  <2>2. /\ current[s] \in Id /\ current[s] <= calls /\ attempt[s] \in Attempt
        /\ InAttempt(s) /\ RequestOK(current[s], attempt[s])
    BY <1>0, <2>1, OwnRequest DEF AttemptInv, RequestInv
  <2>3. /\ Waiting(s).state # "none"
        /\ protocol = "grpc" => attempt[s] = 1
        /\ \A m \in Attempt : m < attempt[s] => request[current[s]][m].late
    BY <2>1, <2>2 DEF InAttempt
  <2>4. /\ Waiting(s).state = "refused" => Waiting(s).taken = 0
        /\ Waiting(s).state = "lost" => Waiting(s).taken = 0
        /\ Waiting(s).state = "answered" => Complete(current[s], attempt[s])
    BY <2>2 DEF RequestOK, Waiting
  <2> DEFINE i == current[s]
             n == attempt[s]
             r == request[i][n]
  <2>5. /\ Becomes(i, n, r.state, r.taken, r.failed, TRUE)
        /\ i \in Id /\ n \in Attempt /\ UNCHANGED <<calls, protocol, body>>
        /\ r.state # "none" /\ i <= calls
        /\ r.state = "refused" => r.taken = 0
        /\ r.state = "lost" => r.taken = 0
        /\ r.state = "answered" => Complete(i, n)
        /\ protocol = "grpc" => n = 1
        /\ \A m \in Attempt : m < n => request[i][m].late
    BY <2>1, <2>2, <2>3, <2>4 DEF Waiting
  <2> HIDE DEF i, n
  <2> QED
    BY <1>2, <2>5
<1>5. ASSUME NEW i \in Id, NEW n \in Attempt, Lose(i, n) \/ Refuse(i, n)
      PROVE  RequestInv'
  <2>1. /\ request[i][n].state = "sent" /\ request[i][n].taken = 0
        /\ UNCHANGED <<protocol, calls, body>>
    BY <1>5 DEF Lose, Refuse, flagVars, callVars
  <2>2. RequestOK(i, n)
    BY <1>0 DEF RequestInv
  <2>3. /\ i <= calls /\ (protocol = "grpc" => n = 1)
        /\ \A m \in Attempt : m < n => request[i][m].late
    BY <1>a, <2>1, <2>2 DEF RequestOK
  <2>4. CASE Lose(i, n)
    <3>1. Becomes(i, n, "lost", request[i][n].taken, request[i][n].failed,
                  request[i][n].late)
      BY <1>0, <2>4, LoseEffect
    <3> QED
      BY <1>2, <2>1, <2>3, <3>1, SMTT(60)
  <2>5. CASE Refuse(i, n)
    <3>1. Becomes(i, n, "refused", request[i][n].taken, request[i][n].failed,
                  request[i][n].late)
      BY <1>0, <2>5, RefuseEffect
    <3> QED
      BY <1>2, <2>1, <2>3, <3>1, SMTT(60)
  <2> QED
    BY <1>5, <2>4, <2>5
<1>6. ASSUME NEW i \in Id, NEW n \in Attempt, Answer(i, n) PROVE RequestInv'
  <2>1. /\ request[i][n].state = "sent" /\ Complete(i, n)
        /\ UNCHANGED <<protocol, calls, body>>
    BY <1>6 DEF Answer, flagVars, callVars
  <2>2. RequestOK(i, n)
    BY <1>0 DEF RequestInv
  <2>3. /\ i <= calls /\ (protocol = "grpc" => n = 1)
        /\ \A m \in Attempt : m < n => request[i][m].late
    BY <1>a, <2>1, <2>2 DEF RequestOK
  <2>4. Becomes(i, n, "answered", request[i][n].taken, request[i][n].failed,
                request[i][n].late)
    BY <1>0, <1>6, AnswerEffect
  <2> QED
    BY <1>2, <2>1, <2>3, <2>4
<1>7. ASSUME NEW i \in Id, NEW n \in Attempt, Apply(i, n) PROVE RequestInv'
  <2>1. PICK k \in DOMAIN body[i], f \in BOOLEAN :
           /\ k = request[i][n].taken + 1 /\ k \in Nat
           /\ Becomes(i, n, request[i][n].state, k, f, request[i][n].late)
    <3>1. PICK k \in DOMAIN body[i], err \in BOOLEAN :
           /\ k = request[i][n].taken + 1 /\ k \in Nat
           /\ Becomes(i, n, request[i][n].state, k,
                      request[i][n].failed \/ (err /\ Reporting),
                      request[i][n].late)
      BY <1>0, <1>7, ApplyEffect
    <3>2. (request[i][n].failed \/ (err /\ Reporting)) \in BOOLEAN
      OBVIOUS
    <3> QED
      BY <3>1, <3>2
  <2>2. request[i][n].state = "sent" /\ UNCHANGED <<protocol, calls, body>>
    BY <1>7 DEF Apply, flagVars, callVars
  <2> SUFFICES ASSUME NEW j \in Id, NEW m \in Attempt PROVE RequestOK(j, m)'
    BY DEF RequestInv
  <2>3. \A l \in Attempt : request[j][l].late <=> request'[j][l].late
    BY <2>1 DEF Becomes
  <2>4. RequestOK(j, m)
    BY <1>0 DEF RequestInv
  <2>5. CASE j = i /\ m = n
    <3>1. /\ request'[i][n].state = "sent" /\ request'[i][n].taken > 0
          /\ request'[i][n].late <=> request[i][n].late
      BY <1>a, <2>1, <2>2 DEF Becomes
    <3> QED
      BY <2>2, <2>3, <2>4, <2>5, <3>1 DEF RequestOK
  <2>6. CASE j # i \/ m # n
    <3>1. request'[j][m] = request[j][m]
      BY <2>1, <2>6 DEF Becomes
    <3> QED
      BY <2>2, <2>3, <2>4, <3>1 DEF RequestOK, Complete, StopsAtError
  <2> QED
    BY <2>5, <2>6
<1>8. ASSUME UNCHANGED <<calls, protocol, body, request>> PROVE RequestInv'
  BY <1>0, <1>8 DEF RequestInv, RequestOK, Complete, StopsAtError
<1>9. ASSUME NEW s \in Sender,
             BuildError(s) \/ Receive(s) \/ Sleep(s) \/ GiveUp(s)
      PROVE  RequestInv'
  BY <1>8, <1>9 DEF BuildError, Receive, Sleep, GiveUp, flagVars, callVars
<1>10. CASE UNCHANGED vars
  BY <1>8, <1>10 DEF vars
<1> QED
  BY <1>1, <1>3, <1>4, <1>5, <1>6, <1>7, <1>9, <1>10 DEF Next, ClientStep

LEMMA NextOutcomeInv ==
  ASSUME IInv, [Next]_vars
  PROVE  OutcomeInv'
<1>0. TypeOK /\ CallInv /\ AttemptInv /\ RequestInv /\ OutcomeInv
  BY DEF IInv
<1>a. 1 \in Attempt /\ Attempt \subseteq Nat \ {0}
  BY FirstAttempt
\* A call that has returned and was answered is not touched.
<1>1. ASSUME NEW i \in Id, outcome'[i] = outcome[i],
             \A n \in Attempt : request[i][n].late => request'[i][n].late,
             request'[i][1] = request[i][1] \/ request[i][1].state = "sent",
             outcome'[i] # "none", LateAttempts(i)' = {}
      PROVE  Settled(i)'
  BY <1>0, <1>a, <1>1 DEF OutcomeInv, Settled, LateAttempts
<1>2. ASSUME NEW s \in Sender, Receive(s) PROVE OutcomeInv'
  <2>1. /\ pc[s] = "wait" /\ request' = request
        /\ Waiting(s).state \in {"answered", "refused"}
        /\ outcome' = [outcome EXCEPT ![current[s]] =
                         IF AnswerIsNil(s) THEN "nil" ELSE "error"]
    BY <1>2 DEF Receive, Goto, ReturnWith, HasAnswer
  <2>2. /\ current[s] \in Id /\ attempt[s] \in Attempt /\ InAttempt(s)
    BY <1>0, <2>1, OwnRequest DEF AttemptInv, CallInv
  <2> SUFFICES ASSUME NEW i \in Id, outcome'[i] # "none", LateAttempts(i)' = {}
               PROVE  Settled(i)'
    BY DEF OutcomeInv
  <2>3. CASE i = current[s]
    <3>1. attempt[s] = 1
      <4>1. ~(1 < attempt[s])
        BY <1>a, <2>1, <2>2, <2>3 DEF InAttempt, LateAttempts
      <4> QED
        BY <1>a, <2>2, <4>1
    <3>2. outcome'[i] = "error" /\ Waiting(s).state = "answered" =>
            Waiting(s).failed
      BY <1>0, <2>1, <2>2, <2>3 DEF TypeOK, AnswerIsNil
    <3> QED
      BY <2>1, <2>3, <3>1, <3>2 DEF Waiting, Settled
  <2>4. CASE i # current[s]
    <3>1. outcome'[i] = outcome[i]
      BY <1>0, <2>1, <2>2, <2>4 DEF TypeOK
    <3> QED
      BY <1>1, <2>1, <3>1
  <2> QED
    BY <2>3, <2>4
\* A call that gives up has been late at its last attempt.
<1>3. ASSUME NEW s \in Sender, NEW n \in Attempt, request'[current[s]][n].late,
             pc[s] # "idle",
             \A i \in Id : i # current[s] => /\ outcome'[i] = outcome[i]
                                             /\ request'[i] = request[i]
      PROVE  OutcomeInv'
  <2> SUFFICES ASSUME NEW i \in Id, outcome'[i] # "none", LateAttempts(i)' = {}
               PROVE  Settled(i)'
    BY DEF OutcomeInv
  <2>1. i # current[s]
    BY <1>3 DEF LateAttempts
  <2> QED
    BY <1>1, <1>3, <2>1
<1>4. ASSUME NEW s \in Sender, TransportError(s) PROVE OutcomeInv'
  <2>1. /\ Becomes(current[s], attempt[s], Waiting(s).state, Waiting(s).taken,
                   Waiting(s).failed, TRUE)
        /\ pc[s] = "wait"
        /\ current[s] \in Id /\ attempt[s] \in Attempt
    BY <1>0, <1>4, TransportErrorEffect, OwnRequest DEF TransportError, Goto
  <2>2. \A i \in Id : i # current[s] => outcome'[i] = outcome[i]
    BY <1>0, <1>4 DEF TransportError, ReturnWith, TypeOK
  <2>3. \A i \in Id : i # current[s] => request'[i] = request[i]
    BY <1>0, <1>4 DEF TransportError, TypeOK
  <2> QED
    BY <1>3, <2>1, <2>2, <2>3 DEF Becomes
<1>5. ASSUME NEW s \in Sender, GiveUp(s) PROVE OutcomeInv'
  <2>1. /\ pc[s] = "post" /\ request' = request /\ ~(attempt[s] <= MaxRetry)
        /\ outcome' = [outcome EXCEPT ![current[s]] = "error"]
    BY <1>5 DEF GiveUp, Goto, ReturnWith, MayTry
  <2>2. current[s] \in Id /\ InAttempt(s)
    BY <1>0, <2>1, OwnRequest DEF AttemptInv, CallInv
  <2>3. request[current[s]][1].late
    <3>1. 1 < attempt[s]
      BY <1>0, <2>1, DeliveryAssumption DEF TypeOK
    <3> QED
      BY <1>a, <2>2, <3>1 DEF InAttempt
  <2>4. \A i \in Id : i # current[s] => outcome'[i] = outcome[i]
    BY <1>0, <2>1 DEF TypeOK
  <2> QED
    BY <1>a, <1>3, <2>1, <2>3, <2>4
\* A call whose request could not be built has sent none.
<1>b. ASSUME NEW s \in Sender, BuildError(s) PROVE OutcomeInv'
  <2>1. /\ pc[s] = "post" /\ attempt[s] = 1 /\ request' = request
        /\ outcome' = [outcome EXCEPT ![current[s]] = "error"]
    BY <1>b DEF BuildError, Goto, ReturnWith
  <2>2. current[s] \in Id /\ InAttempt(s)
    BY <1>0, <2>1, OwnRequest DEF AttemptInv, CallInv
  <2>3. request[current[s]][1].state = "none"
    BY <1>a, <2>1, <2>2 DEF InAttempt
  <2> SUFFICES ASSUME NEW i \in Id, outcome'[i] # "none", LateAttempts(i)' = {}
               PROVE  Settled(i)'
    BY DEF OutcomeInv
  <2>4. CASE i = current[s]
    BY <2>1, <2>3, <2>4 DEF Settled
  <2>5. CASE i # current[s]
    <3>1. outcome'[i] = outcome[i]
      BY <1>0, <2>1, <2>2, <2>5 DEF TypeOK
    <3> QED
      BY <1>1, <2>1, <3>1
  <2> QED
    BY <2>4, <2>5
<1>6. ASSUME NEW s \in Sender, Post(s) PROVE OutcomeInv'
  <2>1. /\ Becomes(current[s], attempt[s], "sent", Waiting(s).taken,
                   Waiting(s).failed, Waiting(s).late)
        /\ pc[s] = "post" /\ outcome' = outcome
    BY <1>0, <1>6, PostEffect DEF Post, Goto, callVars
  <2>2. /\ current[s] \in Id /\ attempt[s] \in Attempt
        /\ outcome[current[s]] = "none"
    BY <1>0, <1>6, <2>1, OwnRequest DEF Post
  <2> SUFFICES ASSUME NEW i \in Id, outcome'[i] # "none", LateAttempts(i)' = {}
               PROVE  Settled(i)'
    BY DEF OutcomeInv
  <2>3. i # current[s]
    BY <2>1, <2>2
  <2>4. \A n \in Attempt : request'[i][n] = request[i][n]
    BY <2>1, <2>3 DEF Becomes
  <2> QED
    BY <1>1, <1>a, <2>1, <2>4
<1>7. ASSUME NEW i \in Id, NEW n \in Attempt,
             Lose(i, n) \/ Refuse(i, n) \/ Apply(i, n) \/ Answer(i, n)
      PROVE  OutcomeInv'
  <2>1. /\ request[i][n].state = "sent" /\ outcome' = outcome
        /\ \A j \in Id, m \in Attempt :
             /\ request[j][m].late => request'[j][m].late
             /\ j # i \/ m # n => request'[j][m] = request[j][m]
    <3>1. request[i][n].state = "sent" /\ outcome' = outcome
      BY <1>7 DEF Lose, Refuse, Apply, Answer, callVars
    <3>2. CASE Lose(i, n)
      BY <1>0, <3>1, <3>2, LoseEffect DEF Becomes
    <3>3. CASE Apply(i, n)
      BY <1>0, <3>1, <3>3, ApplyEffect DEF Becomes
    <3>4. CASE Answer(i, n)
      BY <1>0, <3>1, <3>4, AnswerEffect DEF Becomes
    <3>5. CASE Refuse(i, n)
      BY <1>0, <3>1, <3>5, RefuseEffect DEF Becomes
    <3> QED
      BY <1>7, <3>2, <3>3, <3>4, <3>5
  <2> SUFFICES ASSUME NEW j \in Id, outcome'[j] # "none", LateAttempts(j)' = {}
               PROVE  Settled(j)'
    BY DEF OutcomeInv
  <2>2. j # i \/ 1 # n \/ request[j][1].state = "sent"
    BY <2>1
  <2> QED
    BY <1>1, <1>a, <2>1, <2>2
<1>8. ASSUME UNCHANGED <<outcome, request>> PROVE OutcomeInv'
  BY <1>0, <1>8 DEF OutcomeInv, Settled, LateAttempts
<1>9. ASSUME NEW s \in Sender, Begin(s) \/ Sleep(s) PROVE OutcomeInv'
  BY <1>8, <1>9 DEF Begin, Sleep, callVars
<1>10. CASE UNCHANGED vars
  BY <1>8, <1>10 DEF vars
<1> QED
  BY <1>2, <1>4, <1>5, <1>6, <1>7, <1>9, <1>10, <1>b DEF Next, ClientStep

-----------------------------------------------------------------------------
(* What is applied and what is saved.                                      *)

LEMMA NextCountInv ==
  ASSUME IInv, [Next]_vars
  PROVE  CountInv'
<1>0. TypeOK /\ CallInv /\ AttemptInv /\ RequestInv /\ CountInv
  BY DEF IInv
<1>a. \A i \in Id : /\ body[i] \in Bodies \cup {<<>>}
                    /\ DOMAIN body[i] = 1 .. Len(body[i]) /\ Len(body[i]) \in Nat
                    /\ \A n \in Attempt : request[i][n].taken \in Nat
  <2>1. \A i \in Id : body[i] \in Bodies \cup {<<>>}
    BY <1>0 DEF TypeOK
  <2>2. \A i \in Id, n \in Attempt : request[i][n] \in Request
    BY <1>0 DEF TypeOK
  <2> QED
    BY <2>1, <2>2, BodyShape DEF Request
<1>1. ASSUME NEW s \in Sender, Begin(s) PROVE CountInv'
  <2>1. PICK b \in Bodies :
           /\ calls + 1 \in Id /\ calls \in Nat
           /\ body' = [body EXCEPT ![calls + 1] = b]
           /\ applied' = [applied EXCEPT ![calls + 1] = [k \in DOMAIN b |-> 0]]
           /\ saved' = [saved EXCEPT ![calls + 1] = [k \in DOMAIN b |-> 0]]
    BY <1>0, <1>1, BeginEffect
  <2>2. request' = request
    BY <1>1 DEF Begin
  <2> SUFFICES ASSUME NEW i \in Id, NEW k \in DOMAIN body'[i]
               PROVE  /\ applied'[i][k] = Cardinality(Passed(i, k))
                      /\ saved'[i][k] <= applied'[i][k]
    BY <2>2 DEF CountInv, Passed
  <2>3. CASE i = calls + 1
    <3>1. body'[i] = b /\ applied'[i][k] = 0 /\ saved'[i][k] = 0
      BY <1>0, <2>1, <2>3 DEF TypeOK
    <3>2. k \in Nat \ {0}
      <4>1. DOMAIN b = 1 .. Len(b) /\ Len(b) \in Nat
        BY BodyShape
      <4> QED
        BY <3>1, <4>1
    <3>3. \A n \in Attempt : request[i][n].taken = 0
      BY <1>0, <2>1, <2>3 DEF RequestInv, RequestOK
    <3>4. Passed(i, k) = {}
      BY <3>2, <3>3 DEF Passed
    <3> QED
      BY <3>1, <3>4, FS_EmptySet
  <2>4. CASE i # calls + 1
    <3>1. body'[i] = body[i] /\ applied'[i] = applied[i] /\ saved'[i] = saved[i]
      BY <1>0, <2>1, <2>4 DEF TypeOK
    <3> QED
      BY <1>0, <3>1 DEF CountInv
  <2> QED
    BY <2>3, <2>4
<1>2. ASSUME UNCHANGED <<body, applied, saved>>,
             \A i \in Id, n \in Attempt : request'[i][n].taken = request[i][n].taken
      PROVE  CountInv'
  <2>1. \A i \in Id : \A k : Passed(i, k)' = Passed(i, k)
    BY <1>2 DEF Passed
  <2> QED
    BY <1>0, <1>2, <2>1 DEF CountInv
<1>3. ASSUME NEW i \in Id, NEW n \in Attempt, Apply(i, n) PROVE CountInv'
  <2>1. PICK k \in DOMAIN body[i] :
           /\ k = request[i][n].taken + 1 /\ k \in Nat
           /\ applied' = [applied EXCEPT ![i][k] = @ + 1]
           /\ \E err \in BOOLEAN :
                /\ Becomes(i, n, request[i][n].state, k,
                           request[i][n].failed \/ (err /\ Reporting),
                           request[i][n].late)
                /\ saved' = IF err THEN saved ELSE [saved EXCEPT ![i][k] = @ + 1]
    BY <1>0, <1>3, ApplyEffect
  <2>2. body' = body
    BY <1>3 DEF Apply, callVars
  <2>3. /\ request'[i][n].taken = k
        /\ \A j \in Id, m \in Attempt : j # i \/ m # n => request'[j][m] = request[j][m]
    BY <2>1 DEF Becomes
  <2> SUFFICES ASSUME NEW j \in Id, NEW l \in DOMAIN body[j]
               PROVE  /\ applied'[j][l] = Cardinality(Passed(j, l)')
                      /\ saved'[j][l] <= applied'[j][l]
    BY <2>2 DEF CountInv
  <2>4. /\ applied[j][l] = Cardinality(Passed(j, l)) /\ saved[j][l] <= applied[j][l]
        /\ applied[j][l] \in Nat /\ saved[j][l] \in Nat
    BY <1>0 DEF CountInv, TypeOK
  <2>5. l \in Nat
    BY <1>a
  <2>6. CASE j = i /\ l = k
    <3>1. n \notin Passed(i, k) /\ Passed(i, k) \subseteq Attempt
      BY <1>a, <2>1 DEF Passed
    <3>2. IsFiniteSet(Passed(i, k))
      BY <3>1, FirstAttempt, FS_Subset
    <3>3. Passed(i, k)' = Passed(i, k) \cup {n}
      BY <2>1, <2>3 DEF Passed
    <3>4. Cardinality(Passed(i, k)') = Cardinality(Passed(i, k)) + 1
      BY <3>1, <3>2, <3>3, FS_AddElement
    <3>5. applied'[j][l] = applied[j][l] + 1
      BY <1>0, <2>1, <2>6 DEF TypeOK
    <3>6. saved'[j][l] = saved[j][l] \/ saved'[j][l] = saved[j][l] + 1
      BY <1>0, <2>1, <2>6 DEF TypeOK
    <3> QED
      BY <2>4, <2>6, <3>4, <3>5, <3>6
  <2>7. CASE j # i \/ l # k
    <3>1. \A m \in Attempt : request'[j][m].taken >= l <=> request[j][m].taken >= l
      <4> SUFFICES ASSUME NEW m \in Attempt, j = i, m = n
                   PROVE  k >= l <=> request[i][n].taken >= l
        BY <2>3
      <4> QED
        BY <1>a, <2>1, <2>5, <2>7
    <3>2. Passed(j, l)' = Passed(j, l)
      BY <3>1 DEF Passed
    <3>3. applied'[j][l] = applied[j][l] /\ saved'[j][l] = saved[j][l]
      BY <1>0, <2>1, <2>7 DEF TypeOK
    <3> QED
      BY <2>4, <3>2, <3>3
  <2> QED
    BY <2>6, <2>7
<1>4. ASSUME NEW s \in Sender, ClientStep(s) PROVE CountInv'
  <2>1. UNCHANGED <<body, applied, saved>>
    BY <1>4 DEF ClientStep, BuildError, Post, Receive, TransportError, Sleep,
                GiveUp, callVars, storeVars
  <2>2. CASE Post(s)
    BY <1>0, <1>2, <2>1, <2>2, PostEffect DEF Becomes, Waiting
  <2>3. CASE TransportError(s)
    BY <1>0, <1>2, <2>1, <2>3, TransportErrorEffect DEF Becomes, Waiting
  <2>4. CASE BuildError(s) \/ Receive(s) \/ Sleep(s) \/ GiveUp(s)
    BY <1>2, <2>1, <2>4 DEF BuildError, Receive, Sleep, GiveUp
  <2> QED
    BY <1>4, <2>2, <2>3, <2>4 DEF ClientStep
<1>5. ASSUME NEW i \in Id, NEW n \in Attempt,
             Lose(i, n) \/ Refuse(i, n) \/ Answer(i, n)
      PROVE  CountInv'
  <2>1. UNCHANGED <<body, applied, saved>>
    BY <1>5 DEF Lose, Refuse, Answer, callVars, storeVars
  <2>2. CASE Lose(i, n)
    BY <1>0, <1>2, <2>1, <2>2, LoseEffect DEF Becomes
  <2>3. CASE Answer(i, n)
    BY <1>0, <1>2, <2>1, <2>3, AnswerEffect DEF Becomes
  <2>4. CASE Refuse(i, n)
    BY <1>0, <1>2, <2>1, <2>4, RefuseEffect DEF Becomes
  <2> QED
    BY <1>5, <2>2, <2>3, <2>4
<1>6. CASE UNCHANGED vars
  BY <1>2, <1>6 DEF vars
<1> QED
  BY <1>1, <1>3, <1>4, <1>5, <1>6 DEF Next

LEMMA NextSavedInv ==
  ASSUME IInv, [Next]_vars
  PROVE  SavedInv'
<1>0. TypeOK /\ CallInv /\ AttemptInv /\ RequestInv /\ CountInv /\ SavedInv
  BY DEF IInv
<1>a. \A i \in Id : /\ body[i] \in Bodies \cup {<<>>}
                    /\ DOMAIN body[i] = 1 .. Len(body[i]) /\ Len(body[i]) \in Nat
                    /\ \A n \in Attempt : /\ request[i][n].taken \in Nat
                                          /\ request[i][n].failed \in BOOLEAN
  <2>1. \A i \in Id : body[i] \in Bodies \cup {<<>>}
    BY <1>0 DEF TypeOK
  <2>2. \A i \in Id, n \in Attempt : request[i][n] \in Request
    BY <1>0 DEF TypeOK
  <2> QED
    BY <2>1, <2>2, BodyShape DEF Request
<1>b. /\ protocol' = protocol /\ batchUpdate' = batchUpdate
      /\ Reporting' = Reporting /\ 1 \in Attempt
  <2>1. protocol' = protocol /\ batchUpdate' = batchUpdate
    BY DEF Next, ClientStep, Begin, BuildError, Post, Receive, TransportError,
           Sleep, GiveUp, Lose, Refuse, Apply, Answer, flagVars, vars
  <2> QED
    BY <2>1, FirstAttempt DEF Reporting
<1>1. ASSUME NEW i \in Id, body'[i] = body[i], saved'[i] = saved[i],
             \A n \in Attempt : /\ request'[i][n].taken = request[i][n].taken
                                /\ request'[i][n].failed = request[i][n].failed,
             NEW n \in Attempt
      PROVE  SavedOK(i, n)'
  BY <1>0, <1>b, <1>1 DEF SavedInv, SavedOK
<1>2. ASSUME NEW s \in Sender, Begin(s) PROVE SavedInv'
  <2>1. PICK b \in Bodies :
           /\ calls + 1 \in Id /\ calls \in Nat
           /\ body' = [body EXCEPT ![calls + 1] = b]
           /\ saved' = [saved EXCEPT ![calls + 1] = [k \in DOMAIN b |-> 0]]
    BY <1>0, <1>2, BeginEffect
  <2>2. request' = request
    BY <1>2 DEF Begin
  <2> SUFFICES ASSUME NEW i \in Id, NEW n \in Attempt PROVE SavedOK(i, n)'
    BY DEF SavedInv
  <2>3. CASE i = calls + 1
    <3>1. request'[i][n].taken = 0 /\ ~request'[i][n].failed
      BY <1>0, <1>a, <2>1, <2>2, <2>3 DEF RequestInv, RequestOK
    <3>2. DOMAIN b = 1 .. Len(b) /\ Len(b) \in Nat
      BY BodyShape
    <3>3. body'[i] = b /\ \A k \in DOMAIN b : saved'[i][k] = 0
      BY <1>0, <2>1, <2>3 DEF TypeOK
    <3>4. \A k \in DOMAIN b : ~(k < 0) /\ k # 0
      BY <3>2
    <3> QED
      BY <3>1, <3>3, <3>4 DEF SavedOK
  <2>4. CASE i # calls + 1
    <3>1. body'[i] = body[i] /\ saved'[i] = saved[i]
      BY <1>0, <2>1, <2>4 DEF TypeOK
    <3> QED
      BY <1>1, <2>2, <3>1
  <2> QED
    BY <2>3, <2>4
<1>3. ASSUME NEW i \in Id, NEW n \in Attempt, Apply(i, n) PROVE SavedInv'
  <2>1. PICK k \in DOMAIN body[i], err \in BOOLEAN :
           /\ k = request[i][n].taken + 1 /\ k \in Nat
           /\ Becomes(i, n, request[i][n].state, k,
                      request[i][n].failed \/ (err /\ Reporting),
                      request[i][n].late)
           /\ saved' = IF err THEN saved ELSE [saved EXCEPT ![i][k] = @ + 1]
    BY <1>0, <1>3, ApplyEffect
  <2>2. body' = body
    BY <1>3 DEF Apply, callVars
  <2>3. /\ request'[i][n].taken = k
        /\ request'[i][n].failed <=> request[i][n].failed \/ (err /\ Reporting)
        /\ \A j \in Id, m \in Attempt : j # i \/ m # n => request'[j][m] = request[j][m]
    BY <2>1 DEF Becomes
  <2>4. \A j \in Id : j # i => saved'[j] = saved[j]
    BY <1>0, <2>1 DEF TypeOK
  <2>5. \A l \in DOMAIN body[i] :
          saved'[i][l] = IF l = k /\ ~err THEN saved[i][l] + 1 ELSE saved[i][l]
    BY <1>0, <2>1 DEF TypeOK
  <2>6. ASSUME NEW l \in DOMAIN body[i]
        PROVE  /\ saved[i][l] \in Nat /\ saved'[i][l] \in Nat
               /\ saved'[i][l] >= saved[i][l]
    <3>1. saved[i][l] \in Nat
      BY <1>0 DEF TypeOK
    <3> QED
      BY <2>5, <3>1
  <2>7. \A m \in Attempt : request[i][m].taken <= Len(body[i])
    BY <1>0 DEF TypeOK
  <2> SUFFICES ASSUME NEW j \in Id, NEW m \in Attempt PROVE SavedOK(j, m)'
    BY DEF SavedInv
  <2>8. CASE j # i
    BY <1>1, <2>2, <2>3, <2>4, <2>8
  <2>9. CASE j = i
    <3>1. ASSUME Reporting, ~request'[i][m].failed, NEW l \in 1 .. request'[i][m].taken
          PROVE  saved'[i][l] > 0
      <4>1. CASE m = n
        <5>1. ~err /\ ~request[i][n].failed
          BY <2>3, <3>1, <4>1
        <5>2. l \in DOMAIN body[i] /\ (l = k \/ l \in 1 .. request[i][n].taken)
          BY <1>a, <2>1, <2>3, <3>1, <4>1
        <5>3. l # k => saved[i][l] > 0
          BY <1>0, <3>1, <5>1, <5>2 DEF SavedInv, SavedOK
        <5> QED
          BY <2>5, <2>6, <5>1, <5>2, <5>3
      <4>2. CASE m # n
        <5>1. request'[i][m] = request[i][m]
          BY <2>3, <4>2
        <5>2. l \in DOMAIN body[i] /\ saved[i][l] > 0
          BY <1>0, <1>a, <2>7, <3>1, <5>1 DEF SavedInv, SavedOK
        <5> QED
          BY <2>6, <5>2
      <4> QED
        BY <4>1, <4>2
    <3>2. ASSUME protocol = "grpc", m = 1, NEW l \in DOMAIN body[i]
          PROVE  saved'[i][l] = IF \/ l < request'[i][m].taken
                                   \/ l = request'[i][m].taken /\ ~request'[i][m].failed
                                  THEN 1 ELSE 0
      <4>1. n = 1
        BY <1>3, <2>1, <3>2, ApplyLimit
      <4>2. ~request[i][n].failed /\ Reporting
        BY <1>3, <3>2 DEF Apply, StopsAtError, Reporting
      <4>3. saved[i][l] = IF l < k THEN 1 ELSE 0
        BY <1>0, <1>a, <2>1, <3>2, <4>1, <4>2 DEF SavedInv, SavedOK
      <4>4. request'[i][m].taken = k /\ (request'[i][m].failed <=> err)
        BY <2>3, <3>2, <4>1, <4>2
      <4>5. l \in Nat
        BY <1>a
      <4> QED
        BY <2>1, <2>5, <4>3, <4>4, <4>5
    <3> QED
      BY <1>b, <2>2, <2>9, <3>1, <3>2 DEF SavedOK
  <2> QED
    BY <2>8, <2>9
<1>4. ASSUME UNCHANGED <<body, saved>>,
             \A i \in Id, n \in Attempt :
               /\ request'[i][n].taken = request[i][n].taken
               /\ request'[i][n].failed = request[i][n].failed
      PROVE  SavedInv'
  BY <1>1, <1>4 DEF SavedInv
<1>5. ASSUME NEW s \in Sender, ClientStep(s) PROVE SavedInv'
  <2>1. UNCHANGED <<body, saved>>
    BY <1>5 DEF ClientStep, BuildError, Post, Receive, TransportError, Sleep,
                GiveUp, callVars, storeVars
  <2>2. CASE Post(s)
    BY <1>0, <1>4, <2>1, <2>2, PostEffect DEF Becomes, Waiting
  <2>3. CASE TransportError(s)
    BY <1>0, <1>4, <2>1, <2>3, TransportErrorEffect DEF Becomes, Waiting
  <2>4. CASE BuildError(s) \/ Receive(s) \/ Sleep(s) \/ GiveUp(s)
    BY <1>4, <2>1, <2>4 DEF BuildError, Receive, Sleep, GiveUp
  <2> QED
    BY <1>5, <2>2, <2>3, <2>4 DEF ClientStep
<1>6. ASSUME NEW i \in Id, NEW n \in Attempt,
             Lose(i, n) \/ Refuse(i, n) \/ Answer(i, n)
      PROVE  SavedInv'
  <2>1. UNCHANGED <<body, saved>>
    BY <1>6 DEF Lose, Refuse, Answer, callVars, storeVars
  <2>2. CASE Lose(i, n)
    BY <1>0, <1>4, <2>1, <2>2, LoseEffect DEF Becomes
  <2>3. CASE Answer(i, n)
    BY <1>0, <1>4, <2>1, <2>3, AnswerEffect DEF Becomes
  <2>4. CASE Refuse(i, n)
    BY <1>0, <1>4, <2>1, <2>4, RefuseEffect DEF Becomes
  <2> QED
    BY <1>6, <2>2, <2>3, <2>4
<1>7. CASE UNCHANGED vars
  BY <1>4, <1>7 DEF vars
<1> QED
  BY <1>2, <1>3, <1>5, <1>6, <1>7 DEF Next

LEMMA NextFailedInv ==
  ASSUME IInv, [Next]_vars
  PROVE  FailedInv'
<1>0. TypeOK /\ CallInv /\ AttemptInv /\ RequestInv /\ CountInv /\ FailedInv
  BY DEF IInv
<1>b. Reporting' = Reporting
  <2>1. protocol' = protocol /\ batchUpdate' = batchUpdate
    BY DEF Next, ClientStep, Begin, BuildError, Post, Receive, TransportError,
           Sleep, GiveUp, Lose, Refuse, Apply, Answer, flagVars, vars
  <2> QED
    BY <2>1 DEF Reporting
<1>1. ASSUME UNCHANGED <<body, applied, saved>>,
             \A i \in Id, n \in Attempt :
               request'[i][n].failed = request[i][n].failed
      PROVE  FailedInv'
  BY <1>0, <1>b, <1>1 DEF FailedInv
<1>2. ASSUME NEW s \in Sender, Begin(s) PROVE FailedInv'
  <2>1. PICK b \in Bodies :
           /\ calls + 1 \in Id /\ calls \in Nat
           /\ body' = [body EXCEPT ![calls + 1] = b]
           /\ applied' = [applied EXCEPT ![calls + 1] = [k \in DOMAIN b |-> 0]]
           /\ saved' = [saved EXCEPT ![calls + 1] = [k \in DOMAIN b |-> 0]]
    BY <1>0, <1>2, BeginEffect
  <2>2. request' = request
    BY <1>2 DEF Begin
  <2> SUFFICES ASSUME NEW i \in Id, NEW n \in Attempt, request[i][n].failed
               PROVE  /\ Reporting
                      /\ \E k \in DOMAIN body'[i] : saved'[i][k] < applied'[i][k]
    BY <1>b, <2>2 DEF FailedInv
  <2>3. i # calls + 1
    <3>1. RequestOK(i, n) /\ request[i][n] \in Request
      BY <1>0 DEF RequestInv, TypeOK
    <3>2. ~(i > calls)
      BY <3>1 DEF RequestOK, Request
    <3> QED
      BY <2>1, <3>2
  <2>4. body'[i] = body[i] /\ applied'[i] = applied[i] /\ saved'[i] = saved[i]
    BY <1>0, <2>1, <2>3 DEF TypeOK
  <2> QED
    BY <1>0, <2>4 DEF FailedInv
<1>3. ASSUME NEW i \in Id, NEW n \in Attempt, Apply(i, n) PROVE FailedInv'
  <2>1. PICK k \in DOMAIN body[i], err \in BOOLEAN :
           /\ applied' = [applied EXCEPT ![i][k] = @ + 1]
           /\ Becomes(i, n, request[i][n].state, k,
                      request[i][n].failed \/ (err /\ Reporting),
                      request[i][n].late)
           /\ saved' = IF err THEN saved ELSE [saved EXCEPT ![i][k] = @ + 1]
    BY <1>0, <1>3, ApplyEffect
  <2>2. body' = body
    BY <1>3 DEF Apply, callVars
  <2>3. ASSUME NEW j \in Id, NEW l \in DOMAIN body[j]
        PROVE  /\ saved[j][l] \in Nat /\ applied[j][l] \in Nat
               /\ saved[j][l] <= applied[j][l]
    BY <1>0 DEF TypeOK, CountInv
  \* A row that is missing stays missing.
  <2>4. ASSUME NEW j \in Id, NEW l \in DOMAIN body[j],
               saved[j][l] < applied[j][l]
        PROVE  saved'[j][l] < applied'[j][l]
    <3>1. CASE j = i /\ l = k
      <4>1. applied'[j][l] = applied[j][l] + 1
        BY <1>0, <2>1, <3>1 DEF TypeOK
      <4>2. saved'[j][l] = saved[j][l] \/ saved'[j][l] = saved[j][l] + 1
        BY <1>0, <2>1, <3>1 DEF TypeOK
      <4> QED
        BY <2>3, <2>4, <4>1, <4>2
    <3>2. CASE j # i \/ l # k
      <4>1. applied'[j][l] = applied[j][l] /\ saved'[j][l] = saved[j][l]
        BY <1>0, <2>1, <3>2 DEF TypeOK
      <4> QED
        BY <2>4, <4>1
    <3> QED
      BY <3>1, <3>2
  <2>5. err => saved'[i][k] < applied'[i][k]
    <3>1. applied'[i][k] = applied[i][k] + 1
      BY <1>0, <2>1 DEF TypeOK
    <3> QED
      BY <2>1, <2>3, <3>1
  <2> SUFFICES ASSUME NEW j \in Id, NEW m \in Attempt, request'[j][m].failed
               PROVE  /\ Reporting
                      /\ \E l \in DOMAIN body[j] : saved'[j][l] < applied'[j][l]
    BY <1>b, <2>2 DEF FailedInv
  <2>6. CASE request[j][m].failed
    BY <1>0, <2>4, <2>6 DEF FailedInv
  <2>7. CASE ~request[j][m].failed
    <3>1. j = i /\ m = n /\ err /\ Reporting
      BY <2>1, <2>7 DEF Becomes
    <3> QED
      BY <2>5, <3>1
  <2> QED
    BY <2>6, <2>7
<1>4. ASSUME NEW s \in Sender, ClientStep(s) PROVE FailedInv'
  <2>1. UNCHANGED <<body, applied, saved>>
    BY <1>4 DEF ClientStep, BuildError, Post, Receive, TransportError, Sleep,
                GiveUp, callVars, storeVars
  <2>2. CASE Post(s)
    BY <1>0, <1>1, <2>1, <2>2, PostEffect DEF Becomes, Waiting
  <2>3. CASE TransportError(s)
    BY <1>0, <1>1, <2>1, <2>3, TransportErrorEffect DEF Becomes, Waiting
  <2>4. CASE BuildError(s) \/ Receive(s) \/ Sleep(s) \/ GiveUp(s)
    BY <1>1, <2>1, <2>4 DEF BuildError, Receive, Sleep, GiveUp
  <2> QED
    BY <1>4, <2>2, <2>3, <2>4 DEF ClientStep
<1>5. ASSUME NEW i \in Id, NEW n \in Attempt,
             Lose(i, n) \/ Refuse(i, n) \/ Answer(i, n)
      PROVE  FailedInv'
  <2>1. UNCHANGED <<body, applied, saved>>
    BY <1>5 DEF Lose, Refuse, Answer, callVars, storeVars
  <2>2. \A j \in Id, m \in Attempt :
          request'[j][m].failed = request[j][m].failed
    BY <1>0, <1>5, LoseEffect, RefuseEffect, AnswerEffect DEF Becomes
  <2> QED
    BY <1>1, <2>1, <2>2
<1>6. CASE UNCHANGED vars
  BY <1>1, <1>6 DEF vars
<1> QED
  BY <1>2, <1>3, <1>4, <1>5, <1>6 DEF Next

-----------------------------------------------------------------------------
(* The theorems.                                                           *)

\* The invariant is inductive.
LEMMA NextIInv == IInv /\ [Next]_vars => IInv'
<1> SUFFICES ASSUME IInv, [Next]_vars PROVE IInv'
  OBVIOUS
<1> QED
  BY NextTypeOK, NextCallInv, NextAttemptInv, NextRequestInv, NextOutcomeInv,
     NextCountInv, NextSavedInv, NextFailedInv DEF IInv

\* Every reachable state satisfies the inductive invariant.
THEOREM Invariance == Spec => []IInv
<1>1. Init => IInv
  BY InitIInv
<1>2. IInv /\ [Next]_vars => IInv'
  BY NextIInv
<1> QED
  BY <1>1, <1>2, PTL DEF Spec

\* The variables of the clients, the network and the store keep their types.
THEOREM TypeCorrect == Spec => []TypeOK
<1>1. IInv => TypeOK
  BY DEF IInv
<1> QED
  BY <1>1, Invariance, PTL

\* Of the attempts of a call only the last may be answered: every other one
\* that has taken a metric was given up.
LEMMA OneNotLate ==
  ASSUME IInv, NEW i \in Id, NEW m \in Attempt, NEW n \in Attempt,
         request[i][m].state # "none", request[i][n].state # "none", m # n
  PROVE  request[i][m].late \/ request[i][n].late
<1>1. RequestOK(i, m) /\ RequestOK(i, n)
  BY DEF IInv, RequestInv
<1>2. m < n \/ n < m
  BY FirstAttempt
<1> QED
  BY <1>1, <1>2 DEF RequestOK

\* A metric is applied more than once only because answers were not waited
\* for, whatever Retry, the timeouts, the network and the handlers do.
THEOREM DuplicatesAreLate == Spec => []DuplicateNeedsLostAnswer
<1>1. ASSUME IInv PROVE DuplicateNeedsLostAnswer
  <2> SUFFICES ASSUME NEW i \in Id, NEW k \in DOMAIN body[i]
               PROVE  applied[i][k] <= Cardinality(LateAttempts(i)) + 1
    BY DEF DuplicateNeedsLostAnswer
  <2>1. TypeOK /\ RequestInv /\ applied[i][k] = Cardinality(Passed(i, k))
    BY <1>1 DEF IInv, CountInv
  <2>2. k \in Nat \ {0}
    <3>1. body[i] \in Bodies \cup {<<>>}
      BY <2>1 DEF TypeOK
    <3> QED
      BY <3>1, BodyShape
  <2>3. \A n \in Passed(i, k) : n \in Attempt /\ request[i][n].state # "none"
    BY <2>1, <2>2 DEF Passed, RequestInv, RequestOK
  <2>4. IsFiniteSet(LateAttempts(i)) /\ Cardinality(LateAttempts(i)) \in Nat
    BY FirstAttempt, FS_Subset, FS_CardinalityType DEF LateAttempts
  <2>5. ASSUME NEW m
        PROVE  /\ IsFiniteSet(LateAttempts(i) \cup {m})
               /\ Cardinality(LateAttempts(i) \cup {m}) <= Cardinality(LateAttempts(i)) + 1
               /\ Cardinality(LateAttempts(i) \cup {m}) \in Nat
    <3>1. /\ IsFiniteSet(LateAttempts(i) \cup {m})
          /\ \/ Cardinality(LateAttempts(i) \cup {m}) = Cardinality(LateAttempts(i))
             \/ Cardinality(LateAttempts(i) \cup {m}) = Cardinality(LateAttempts(i)) + 1
      BY <2>4, FS_AddElement
    <3> QED
      BY <2>4, <3>1
  <2>6. \E m : Passed(i, k) \subseteq LateAttempts(i) \cup {m}
    <3>1. CASE Passed(i, k) \subseteq LateAttempts(i)
      BY <3>1
    <3>2. ASSUME NEW m \in Passed(i, k), m \notin LateAttempts(i)
          PROVE  Passed(i, k) \subseteq LateAttempts(i) \cup {m}
      <4> SUFFICES ASSUME NEW n \in Passed(i, k), n # m PROVE n \in LateAttempts(i)
        OBVIOUS
      <4>1. request[i][n].late
        BY <1>1, <2>3, <3>2, OneNotLate DEF LateAttempts
      <4> QED
        BY <2>3, <4>1 DEF LateAttempts
    <3> QED
      BY <3>1, <3>2
  <2>7. PICK m : Passed(i, k) \subseteq LateAttempts(i) \cup {m}
    BY <2>6
  <2>8. /\ IsFiniteSet(Passed(i, k))
        /\ Cardinality(Passed(i, k)) <= Cardinality(LateAttempts(i) \cup {m})
        /\ Cardinality(Passed(i, k)) \in Nat
    BY <2>5, <2>7, FS_Subset, FS_CardinalityType
  <2>9. /\ Cardinality(LateAttempts(i) \cup {m}) <= Cardinality(LateAttempts(i)) + 1
        /\ Cardinality(LateAttempts(i) \cup {m}) \in Nat
    BY <2>5
  <2> QED
    BY <2>1, <2>4, <2>8, <2>9
<1> QED
  BY <1>1, Invariance, PTL

\* A call that is over and was always waited for has sent one request at most.
LEMMA OneRequestOnly ==
  ASSUME IInv, NEW i \in Id, outcome[i] # "none", LateAttempts(i) = {},
         NEW n \in Attempt, n # 1
  PROVE  request[i][n].state = "none" /\ request[i][n].taken = 0
<1>1. 1 \in Attempt /\ 1 < n /\ RequestOK(i, n)
  BY FirstAttempt DEF IInv, RequestInv
<1>2. request[i][n].state = "none"
  BY <1>1 DEF RequestOK, LateAttempts
<1> QED
  BY <1>2 DEF IInv, RequestInv, RequestOK

\* An older value replaces a newer one only by a call that is not over or by
\* a request its client has given up.
THEOREM StaleNeedsLateness == Spec => StaleOnlyWhenLate
<1> DEFINE Stale == gauge' < gauge =>
                      outcome[gauge'] = "none" \/ LateAttempts(gauge') # {}
<1>1. ASSUME IInv, [Next]_vars PROVE [Stale]_vars
  <2>1. ASSUME NEW i \in Id, NEW n \in Attempt, Apply(i, n) PROVE Stale
    <3> SUFFICES ASSUME gauge' < gauge, outcome[gauge'] # "none", LateAttempts(gauge') = {}
                 PROVE  FALSE
      OBVIOUS
    <3>1. gauge \in Int
      BY <1>1 DEF IInv, TypeOK
    <3>2. gauge' = i
      BY <2>1, <3>1 DEF Apply
    <3>3. outcome[i] # "none" /\ LateAttempts(i) = {}
      BY <3>2
    <3>4. request[i][1].state # "sent" /\ request[i][n].state = "sent"
      BY <1>1, <2>1, <3>3 DEF IInv, OutcomeInv, Settled, Apply
    <3>5. n # 1
      BY <3>4
    <3> QED
      BY <1>1, <3>3, <3>4, <3>5, OneRequestOnly
  <2>2. ASSUME gauge' = gauge PROVE Stale
    <3>1. gauge \in Int
      BY <1>1 DEF IInv, TypeOK
    <3> QED
      BY <2>2, <3>1
  <2>3. \/ UNCHANGED vars \/ gauge' = gauge
        \/ \E i \in Id, n \in Attempt : Apply(i, n)
    BY <1>1 DEF Next, ClientStep, Begin, BuildError, Post, Receive,
                TransportError, Sleep, GiveUp, Lose, Refuse, Answer, storeVars
  <2> QED
    BY <2>1, <2>2, <2>3
<1> QED
  BY <1>1, Invariance, PTL DEF Spec, StaleOnlyWhenLate

\* What an error leaves behind, when every answer was waited for: nothing if the
\* request was not built or refused before the handler; all of the metrics, one
\* of them without its row, with HTTP; a prefix that ends with the metric
\* without its row, with gRPC.
THEOREM RefusalsAreExact == Spec => []RefusedBatch
<1>1. ASSUME IInv PROVE RefusedBatch
  <2> SUFFICES ASSUME NEW i \in Id, outcome[i] = "error", LateAttempts(i) = {}
               PROVE  IF request[i][1].state # "answered" THEN NothingTaken(i)
                      ELSE IF protocol = "http" THEN AllTaken(i)
                      ELSE \E m \in DOMAIN body[i] : TakenUpTo(i, m)
    BY DEF RefusedBatch
  <2> DEFINE r == request[i][1]
  <2>1. TypeOK /\ RequestInv /\ OutcomeInv /\ CountInv /\ SavedInv /\ 1 \in Attempt
        /\ FailedInv
    BY <1>1, FirstAttempt DEF IInv
  <2>2. /\ RequestOK(i, 1) /\ r.taken \in Nat /\ r.taken <= Len(body[i])
        /\ Settled(i)
    <3>1. r \in Request /\ RequestOK(i, 1) /\ r.taken <= Len(body[i]) /\ Settled(i)
      BY <2>1 DEF TypeOK, RequestInv, OutcomeInv
    <3> QED
      BY <3>1 DEF Request
  <2>3. DOMAIN body[i] = 1 .. Len(body[i]) /\ Len(body[i]) \in Nat
    <3>1. body[i] \in Bodies \cup {<<>>}
      BY <2>1 DEF TypeOK
    <3> QED
      BY <3>1, BodyShape
  <2>4. ASSUME NEW k \in DOMAIN body[i]
        PROVE  applied[i][k] = IF k <= r.taken THEN 1 ELSE 0
    <3>1. \A n \in Attempt : n # 1 => ~(request[i][n].taken >= k)
      BY <1>1, <2>3, OneRequestOnly
    <3>2. Passed(i, k) = IF k <= r.taken THEN {1} ELSE {}
      BY <2>1, <2>2, <2>3, <3>1 DEF Passed
    <3>3. Cardinality({1}) = 1 /\ Cardinality({}) = 0
      BY FS_Singleton, FS_EmptySet
    <3> QED
      BY <2>1, <3>2, <3>3 DEF CountInv
  <2>5. CASE r.state # "answered"
    <3>1. r.taken = 0
      BY <2>2, <2>5 DEF RequestOK, Settled
    <3>2. \A k \in DOMAIN body[i] : ~(k <= 0)
      BY <2>3
    <3> QED
      BY <2>4, <2>5, <3>1, <3>2 DEF NothingTaken
  <2>6. ASSUME r.state = "answered"
        PROVE  /\ r.failed /\ r.taken \in Nat \ {0} /\ Complete(i, 1)
               /\ Reporting
               /\ \E k \in DOMAIN body[i] : saved[i][k] < applied[i][k]
    <3>1. r.failed
      BY <2>2, <2>6 DEF Settled
    <3> QED
      BY <2>1, <2>2, <2>6, <3>1 DEF RequestOK, FailedInv
  <2>7. CASE r.state = "answered" /\ protocol = "http"
    <3>1. r.taken = Len(body[i]) /\ batchUpdate
      BY <2>6, <2>7 DEF Complete, StopsAtError, Reporting
    <3>2. \A k \in DOMAIN body[i] : applied[i][k] = 1
      BY <2>3, <2>4, <3>1
    <3>3. \A k \in DOMAIN body[i] : saved[i][k] \in Nat
      BY <2>1 DEF TypeOK
    <3>4. \E k \in DOMAIN body[i] : saved[i][k] = 0
      BY <2>6, <2>7, <3>2, <3>3
    <3> QED
      BY <2>7, <3>1, <3>2, <3>4 DEF AllTaken
  <2>8. CASE r.state = "answered" /\ protocol = "grpc"
    <3>1. \A k \in DOMAIN body[i] : saved[i][k] = IF k < r.taken THEN 1 ELSE 0
      BY <2>1, <2>3, <2>6, <2>8 DEF SavedInv, SavedOK
    <3>2. r.taken \in DOMAIN body[i]
      BY <2>2, <2>3, <2>6, <2>8
    <3> QED
      BY <2>4, <2>8, <3>1, <3>2 DEF TakenUpTo
  <2> QED
    BY <2>1, <2>5, <2>7, <2>8, DeliveryAssumption DEF TypeOK
<1> QED
  BY <1>1, Invariance, PTL

-----------------------------------------------------------------------------
(* The refinement.                                                         *)

\* A call that is answered without an error has had all of its metrics
\* applied, and saved where a failed save is reported.
LEMMA NilIsApplied ==
  ASSUME IInv, NEW i \in Id, NEW n \in Attempt,
         request[i][n].state = "answered", ~request[i][n].failed,
         NEW k \in DOMAIN body[i]
  PROVE  applied[i][k] > 0 /\ (Reporting => saved[i][k] > 0)
<1>0. TypeOK /\ RequestOK(i, n) /\ SavedOK(i, n)
  BY DEF IInv, RequestInv, SavedInv
<1>1. request[i][n].taken = Len(body[i])
  BY <1>0 DEF RequestOK, Complete
<1>2. k \in 1 .. request[i][n].taken
  <2>1. body[i] \in Bodies \cup {<<>>}
    BY <1>0 DEF TypeOK
  <2> QED
    BY <2>1, <1>1, BodyShape
<1>3. n \in Passed(i, k) /\ Passed(i, k) \subseteq Attempt
  BY <1>2 DEF Passed
<1>4. /\ IsFiniteSet(Passed(i, k)) /\ Cardinality(Passed(i, k)) \in Nat
      /\ Cardinality(Passed(i, k)) # 0
  BY <1>3, FirstAttempt, FS_Subset, FS_CardinalityType, FS_EmptySet
<1>5. applied[i][k] = Cardinality(Passed(i, k))
  BY DEF IInv, CountInv
<1> QED
  BY <1>0, <1>2, <1>4, <1>5 DEF SavedOK

\* Whatever a sender does while another program looks on is one of the
\* steps of the abstract delivery, or none.
THEOREM Refinement == Spec => DeliversAtLeastOnce
<1>1. Init => Once!Init
  BY DeliveryAssumption DEF Init, Once!Init, Reporting
<1>2. ASSUME IInv, [Next]_vars PROVE [Once!Next]_(Once!vars)
  <2>0. TypeOK /\ CallInv /\ AttemptInv
    BY <1>2 DEF IInv
  <2>a. UNCHANGED <<protocol, batchUpdate>>
    BY <1>2 DEF Next, ClientStep, Begin, BuildError, Post, Receive,
                TransportError, Sleep, GiveUp, Lose, Refuse, Apply, Answer,
                flagVars, vars
  <2>b. UNCHANGED Once!fixedVars
    BY <2>a DEF Once!fixedVars, Reporting
  <2>1. ASSUME NEW s \in Sender, Begin(s) PROVE Once!Next
    <3>1. PICK b \in Bodies :
             /\ calls + 1 \in Id /\ calls \in Nat
             /\ body' = [body EXCEPT ![calls + 1] = b]
             /\ applied' = [applied EXCEPT ![calls + 1] = [k \in DOMAIN b |-> 0]]
             /\ saved' = [saved EXCEPT ![calls + 1] = [k \in DOMAIN b |-> 0]]
      BY <2>0, <2>1, BeginEffect
    <3>2. body[calls + 1] = <<>> /\ outcome' = outcome
      BY <2>0, <2>1, <3>1 DEF CallInv, Begin
    <3>3. Once!Begin(calls + 1)
      BY <2>b, <3>1, <3>2 DEF Once!Begin, Once!Zeros
    <3> QED
      BY <3>1, <3>3 DEF Once!Next
  <2>2. ASSUME NEW s \in Sender, pc[s] # "idle", ReturnWith(s, "error"),
               UNCHANGED <<body, applied, saved>>
        PROVE  Once!Next
    <3>1. current[s] \in Id /\ current[s] <= calls /\ outcome[current[s]] = "none"
      BY <2>0, <2>2, OwnRequest
    <3>2. body[current[s]] # <<>>
      BY <2>0, <3>1 DEF CallInv
    <3>3. Once!ReturnError(current[s])
      BY <2>b, <2>2, <3>1, <3>2 DEF Once!ReturnError, ReturnWith
    <3> QED
      BY <3>1, <3>3 DEF Once!Next
  <2>3. ASSUME NEW s \in Sender, Receive(s) PROVE Once!Next
    <3>1. /\ pc[s] = "wait"
          /\ UNCHANGED <<body, applied, saved>>
          /\ ReturnWith(s, IF AnswerIsNil(s) THEN "nil" ELSE "error")
      BY <2>3 DEF Receive, Goto, storeVars
    <3>2. CASE ~AnswerIsNil(s)
      BY <2>2, <3>1, <3>2
    <3>3. CASE AnswerIsNil(s)
      <4>1. /\ current[s] \in Id /\ current[s] <= calls
            /\ outcome[current[s]] = "none" /\ attempt[s] \in Attempt
        BY <2>0, <3>1, OwnRequest
      <4>2. body[current[s]] # <<>>
        BY <2>0, <4>1 DEF CallInv
      <4>3. \A k \in DOMAIN body[current[s]] :
              applied[current[s]][k] > 0 /\ (Reporting => saved[current[s]][k] > 0)
        BY <1>2, <3>1, <3>3, <4>1, NilIsApplied DEF AnswerIsNil, Waiting
      <4>4. outcome' = [outcome EXCEPT ![current[s]] = "nil"]
        BY <3>1, <3>3 DEF ReturnWith
      <4>5. Once!ReturnNil(current[s])
        BY <2>b, <3>1, <4>1, <4>2, <4>3, <4>4 DEF Once!ReturnNil
      <4> QED
        BY <4>1, <4>5 DEF Once!Next
    <3> QED
      BY <3>2, <3>3
  <2>4. ASSUME NEW i \in Id, NEW n \in Attempt, Apply(i, n) PROVE Once!Next
    <3>1. PICK k \in DOMAIN body[i], err \in BOOLEAN :
             /\ k = request[i][n].taken + 1 /\ k \in Nat /\ k <= Len(body[i])
             /\ applied' = [applied EXCEPT ![i][k] = @ + 1]
             /\ saved' = IF err THEN saved ELSE [saved EXCEPT ![i][k] = @ + 1]
      BY <2>0, <2>4, ApplyEffect
    <3>2. /\ applied[i][k] < IF protocol = "http" THEN MaxRetry ELSE 1
          /\ k > 1 => applied[i][k - 1] > applied[i][k]
      <4>1. protocol \in {"http", "grpc"}
        BY <2>0, DeliveryAssumption DEF TypeOK
      <4>2. /\ protocol = "http" => applied[i][k] < MaxRetry
            /\ protocol = "grpc" => applied[i][k] < 1
            /\ k > 1 => applied[i][k - 1] > applied[i][k]
        BY <1>2, <2>4, <3>1, ApplyLimit
      <4> QED
        BY <4>1, <4>2
    <3>3. UNCHANGED <<body, outcome>>
      BY <2>4 DEF Apply, callVars
    <3>4. saved' = [saved EXCEPT ![i][k] = @ + 1] \/ UNCHANGED saved
      BY <3>1
    <3>5. Once!Apply(i, k)
      BY <2>b, <3>1, <3>2, <3>3, <3>4 DEF Once!Apply
    <3>6. k \in 1 .. Len(body[i])
      <4>1. body[i] \in Bodies \cup {<<>>}
        BY <2>0 DEF TypeOK
      <4> QED
        BY <3>1, <4>1, BodyShape
    <3> QED
      BY <3>5, <3>6 DEF Once!Next
  <2>5. ASSUME UNCHANGED <<body, outcome, applied, saved>> PROVE UNCHANGED Once!vars
    BY <2>a, <2>5 DEF Once!vars, Reporting
  <2>6. ASSUME NEW s \in Sender, ClientStep(s)
        PROVE  [Once!Next]_(Once!vars)
    <3>1. CASE Post(s) \/ Sleep(s)
      BY <2>5, <3>1 DEF Post, Sleep, callVars, storeVars
    <3>2. CASE TransportError(s)
      <4>1. pc[s] = "wait" /\ UNCHANGED <<body, applied, saved>>
        BY <3>2 DEF TransportError, Goto, storeVars
      <4>2. UNCHANGED outcome \/ ReturnWith(s, "error")
        BY <3>2 DEF TransportError
      <4> QED
        BY <2>2, <2>5, <4>1, <4>2
    <3>3. CASE GiveUp(s) \/ BuildError(s)
      BY <2>2, <3>3 DEF GiveUp, BuildError, Goto, storeVars
    <3> QED
      BY <2>3, <2>6, <3>1, <3>2, <3>3 DEF ClientStep
  <2>7. ASSUME NEW i \in Id, NEW n \in Attempt,
               Lose(i, n) \/ Refuse(i, n) \/ Answer(i, n)
        PROVE  UNCHANGED Once!vars
    BY <2>5, <2>7 DEF Lose, Refuse, Answer, callVars, storeVars
  <2>8. CASE UNCHANGED vars
    BY <2>5, <2>8 DEF vars
  <2> QED
    BY <1>2, <2>1, <2>4, <2>6, <2>7, <2>8 DEF Next
<1> QED
  BY <1>1, <1>2, Invariance, PTL DEF Spec, DeliversAtLeastOnce, Once!Spec
=============================================================================
