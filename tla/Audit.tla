------------------------------- MODULE Audit -------------------------------
(***************************************************************************)
(* The audit log: update requests that publish an event when they are      *)
(* done, to a file that all of them append to and to an HTTP receiver      *)
(* (internal/audit, auditMetrics and its callers in                        *)
(* internal/handler/handler.go, initAuditPublisher in cmd/server/main.go). *)
(*                                                                         *)
(* A request is a goroutine of the HTTP server; the event it publishes is  *)
(* named after it.  Its context is cancelled when its client goes away,    *)
(* which an agent with a timeout of 8 ns does early.                       *)
(***************************************************************************)
EXTENDS Integers, SequencesExt

CONSTANTS
  Request,     \* update requests
  Publishers,  \* lists of receivers that initAuditPublisher may build
  None         \* the mutex of the FileReceiver is free

ASSUME AuditAssumption ==
  /\ Publishers \subseteq {<<>>, <<"file">>, <<"url">>, <<"file", "url">>}
  /\ None \notin Request

VARIABLES
  receivers,  \* handler.audit
  route,      \* per request: where it came in, "none" before
  pc,         \* per request: where it is
  at,         \* per request: index of the receiver it has come to
  gone,       \* per request: its context is cancelled
  errs,       \* per request: the receivers whose error Publish joins
  status,     \* per request: its answer, 0 before
  mu,         \* who holds the mutex of the FileReceiver
  file,       \* what has been written to the file
  wire,       \* per request: its POST to the receiver's URL
  applied     \* history: the metrics of the request are in the store

requestVars == <<route, status, applied>>
vars == <<receivers, route, pc, at, gone, errs, status, mu, file, wire,
          applied>>

Routes == {"/update", "/updates", "/update/gauge"}

\* What one write(2) leaves: a whole line, its beginning or the rest of it.
Piece == [event : Request, part : {"line", "start", "rest"}]

InFile == {"locked", "opened", "rest"}
PC == {"new", "next", "file", "lock", "post", "answer", "done"} \cup InFile

TypeOK ==
  /\ receivers \in Publishers
  /\ route \in [Request -> Routes \cup {"none"}]
  /\ pc \in [Request -> PC]
  /\ at \in [Request -> 1 .. 3]
  /\ gone \in [Request -> BOOLEAN]
  /\ errs \in [Request -> SUBSET {"file", "url"}]
  /\ status \in [Request -> {0, 200, 400}]
  /\ mu \in Request \cup {None}
  /\ file \in Seq(Piece)
  /\ wire \in [Request -> {"none", "sent", "received"}]
  /\ applied \in [Request -> BOOLEAN]
  /\ \A r \in Request : mu = r <=> pc[r] \in InFile

Init ==
  /\ receivers \in Publishers
  /\ route = [r \in Request |-> "none"]
  /\ pc = [r \in Request |-> "new"]
  /\ at = [r \in Request |-> 1]
  /\ gone = [r \in Request |-> FALSE]
  /\ errs = [r \in Request |-> {}]
  /\ status = [r \in Request |-> 0]
  /\ mu = None
  /\ file = <<>>
  /\ wire = [r \in Request |-> "none"]
  /\ applied = [r \in Request |-> FALSE]

Goto(r, from, to) == pc[r] = from /\ pc' = [pc EXCEPT ![r] = to]

-----------------------------------------------------------------------------
(* The handlers.                                                           *)

\* Mutation: the batch is audited before its errors are looked at.
AuditsAlways(rt, known, err) == rt # "/update/gauge"

\* auditMetrics is called by the two JSON routes only, by the batch only if
\* no save failed, and returns at once when there is no metric to name.
Audits(rt, known, err) ==
  \/ rt = "/update"
  \/ rt = "/updates" /\ known /\ ~err

\* The update itself: "known" is that the body names a metric, "err" that a
\* row could not be saved.  (Requests that do not come as far as the store are
\* the business of HttpPipeline.)
Update(r) ==
  \E rt \in Routes, known \in BOOLEAN, err \in BOOLEAN :
    /\ rt # "/updates" => known
    /\ err => known
    /\ Goto(r, "new", IF Audits(rt, known, err) THEN "next" ELSE "done")
    /\ route' = [route EXCEPT ![r] = rt]
    /\ applied' = [applied EXCEPT ![r] = known]
    /\ status' = [status EXCEPT ![r] =
         IF rt = "/updates" /\ err THEN 400
         ELSE IF Audits(rt, known, err) THEN 0 ELSE 200]
    /\ UNCHANGED <<receivers, at, gone, errs, mu, file, wire>>

\* The client goes away: net/http cancels the context of the request.
Leave(r) ==
  /\ pc[r] # "done" /\ ~gone[r]
  /\ gone' = [gone EXCEPT ![r] = TRUE]
  /\ UNCHANGED <<receivers, requestVars, pc, at, errs, mu, file, wire>>

-----------------------------------------------------------------------------
(* Publish.                                                                *)

MoreReceivers(r) == at[r] <= Len(receivers)

Publish(r) ==
  /\ MoreReceivers(r)
  /\ Goto(r, "next", IF receivers[at[r]] = "file" THEN "file" ELSE "post")
  /\ UNCHANGED <<receivers, requestVars, at, gone, errs, mu, file, wire>>

\* auditMetrics drops the joined errors: the answer is 200 all the same.
Answer(r) ==
  /\ ~MoreReceivers(r)
  /\ Goto(r, "next", "done")
  /\ status' = [status EXCEPT ![r] = 200]
  /\ UNCHANGED <<receivers, route, applied, at, gone, errs, mu, file, wire>>

\* Receive returns, and the loop goes on with the next receiver.
Return(r, failed) ==
  /\ pc' = [pc EXCEPT ![r] = "next"]
  /\ at' = [at EXCEPT ![r] = @ + 1]
  /\ errs' = [errs EXCEPT ![r] = @ \cup failed]
  /\ UNCHANGED <<receivers, requestVars, gone>>

-----------------------------------------------------------------------------
(* FileReceiver.Receive.                                                   *)

\* Before the lock: the event is encoded unless the client has left.
Encode(r) ==
  /\ ~gone[r]
  /\ Goto(r, "file", "lock")
  /\ UNCHANGED <<receivers, requestVars, at, gone, errs, mu, file, wire>>

EncodeCancelled(r) ==
  /\ pc[r] = "file" /\ gone[r]
  /\ Return(r, {"file"})
  /\ UNCHANGED <<mu, file, wire>>

\* Mutation: the receiver has no mutex of its own.
LockIsFree == TRUE

LockFree == mu = None

Lock(r) ==
  /\ LockFree
  /\ Goto(r, "lock", "locked")
  /\ mu' = r
  /\ UNCHANGED <<receivers, requestVars, at, gone, errs, file, wire>>

Open(r) ==
  /\ ~gone[r]
  /\ Goto(r, "locked", "opened")
  /\ UNCHANGED <<receivers, requestVars, at, gone, errs, mu, file, wire>>

\* The file is opened with O_APPEND.
AppendPiece(r, part) == file' = Append(file, [event |-> r, part |-> part])

Write(r) ==
  /\ pc[r] = "opened" /\ ~gone[r]
  /\ AppendPiece(r, "line")
  /\ mu' = None
  /\ Return(r, {})
  /\ UNCHANGED wire

\* A short write: os.File.Write goes on with the rest.
WriteStart(r) ==
  /\ ~gone[r]
  /\ Goto(r, "opened", "rest")
  /\ AppendPiece(r, "start")
  /\ UNCHANGED <<receivers, requestVars, at, gone, errs, mu, wire>>

WriteRest(r) ==
  /\ pc[r] = "rest"
  /\ AppendPiece(r, "rest")
  /\ mu' = None
  /\ Return(r, {})
  /\ UNCHANGED wire

\* Mutation: Unlock is not deferred, the error paths forget it.
FileErrorLocked(r) ==
  /\ pc[r] \in InFile
  /\ Return(r, {"file"})
  /\ UNCHANGED <<mu, file, wire>>

\* A cancelled context, or a failed OpenFile or Write; Unlock is deferred.
FileError(r) ==
  /\ pc[r] \in InFile
  /\ mu' = None
  /\ Return(r, {"file"})
  /\ UNCHANGED <<file, wire>>

-----------------------------------------------------------------------------
(* HTTPReceiver.Receive.                                                   *)

Post(r) ==
  /\ ~gone[r]
  /\ Goto(r, "post", "answer")
  /\ wire' = [wire EXCEPT ![r] = "sent"]
  /\ UNCHANGED <<receivers, requestVars, at, gone, errs, mu, file>>

PostCancelled(r) ==
  /\ pc[r] = "post" /\ gone[r]
  /\ Return(r, {"url"})
  /\ UNCHANGED <<mu, file, wire>>

\* The other end takes the event, perhaps after the client has given up.
Deliver(r) ==
  /\ wire[r] = "sent"
  /\ wire' = [wire EXCEPT ![r] = "received"]
  /\ UNCHANGED <<receivers, requestVars, pc, at, gone, errs, mu, file>>

\* Only the receiver itself answers with a 2xx status.
PostAccepted(r) ==
  /\ pc[r] = "answer" /\ wire[r] = "received"
  /\ Return(r, {})
  /\ UNCHANGED <<mu, file, wire>>

\* The timeout of 3 s, a cancelled context, a connection that fails, or
\* another status.
PostError(r) ==
  /\ pc[r] = "answer"
  /\ Return(r, {"url"})
  /\ UNCHANGED <<mu, file, wire>>

-----------------------------------------------------------------------------
FileStep(r) ==
  \/ Encode(r) \/ EncodeCancelled(r) \/ Open(r) \/ Write(r) \/ WriteStart(r)
  \/ WriteRest(r) \/ FileError(r)

PostStep(r) == Post(r) \/ PostCancelled(r) \/ PostAccepted(r) \/ PostError(r)

Step(r) == Publish(r) \/ Answer(r) \/ FileStep(r) \/ PostStep(r)

Next ==
  \E r \in Request :
    Update(r) \/ Leave(r) \/ Lock(r) \/ Step(r) \/ Deliver(r)

Spec == Init /\ [][Next]_vars

\* Goroutines run, system calls return and the HTTP client has a timeout.  The
\* mutex hands itself to who has waited for a millisecond.
FairSpec ==
  Spec /\ \A r \in Request : WF_vars(Step(r)) /\ SF_vars(Lock(r))

-----------------------------------------------------------------------------
(* Properties.                                                             *)

\* The log only tells what happened: an event in the file or at the receiver
\* is of a request whose metrics are in the store and that is not refused.
Begins(r) == {i \in DOMAIN file : file[i].event = r /\ file[i].part # "rest"}

AuditedHappened ==
  \A r \in Request :
    Begins(r) # {} \/ wire[r] # "none" => applied[r] /\ status[r] # 400

\* A receiver whose error Publish did not report has the event.  In the file
\* it is one line, whole; only the remains of a line whose write failed can
\* stand before it on that line.  And the receivers are independent: the event
\* is sent to the URL whatever became of the file, unless the client has left.
Torn(i) == file[i].part = "start" /\ "file" \in errs[file[i].event]

LineAt(i, r) ==
  /\ \/ file[i].part = "line"
     \/ i < Len(file) /\ file[i + 1] = [event |-> r, part |-> "rest"]
  /\ i = 1 \/ file[i - 1].part # "start" \/ Torn(i - 1)

Published(r) ==
  pc[r] = "done" /\ applied[r] /\ status[r] = 200 /\ route[r] # "/update/gauge"

RecordedUnlessReported ==
  \A r \in Request :
    Published(r) =>
      /\ "file" \in ToSet(receivers) \ errs[r] =>
           \E i \in DOMAIN file : Begins(r) = {i} /\ LineAt(i, r)
      /\ "url" \in ToSet(receivers) \ errs[r] => wire[r] = "received"
      /\ "url" \in ToSet(receivers) /\ wire[r] = "none" => gone[r]

\* Auditing ends, and with it the request, whatever disk, network and the
\* other requests do.
EveryRequestEnds == \A r \in Request : pc[r] # "new" ~> pc[r] = "done"
=============================================================================
