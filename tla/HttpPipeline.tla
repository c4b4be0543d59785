---------------------------- MODULE HttpPipeline ----------------------------
(***************************************************************************)
(* One HTTP request on its way through the server: the middleware in the   *)
(* order of router.Metric, the content type of the route, the handler, and *)
(* back out through the compressing writer (internal/router/metric.go,     *)
(* internal/handler, internal/service/compresser.go, hasher.go).  Requests *)
(* come from the agent as HTTPClient.sendRequest builds them, or from any  *)
(* other client.                                                           *)
(*                                                                         *)
(* A body is its wrappings, outermost first, around the metrics it decodes *)
(* to.  A metric is "good", or lacks the field its type needs ("unset"),   *)
(* its name ("noid") or a known type ("unknown"), wherever it stands in a  *)
(* batch.  No metric at all is a body that does not decode, a value in the *)
(* path that does not parse, an empty batch, or one metric without either  *)
(* field.  A JSON type error inside a metric leaves one of these kinds: the*)
(* decoder goes on and what it could not store is zero or not there.       *)
(***************************************************************************)
EXTENDS Integers, Sequences

CONSTANTS
  Keys,    \* values of KEY, of the server and of clients
  NoKey,   \* the empty one
  Bodies,  \* wrappings that bodies may have
  Size     \* most metrics in the body of POST /updates

ASSUME PipelineAssumption ==
  /\ NoKey \in Keys
  /\ Bodies \subseteq Seq({"gzip", "rsa"})
  /\ Size \in Nat \ {0}

VARIABLES
  key,      \* handler.Key
  private,  \* handler.privKey is not nil
  fromAgent, \* the request was built by HTTPClient.sendRequest
  req,      \* the request as the next handler finds it
  wire,     \* history: the wrappings of its body when it arrived
  step,     \* the middleware or handler it has come to
  resp,     \* what has been sent: status (0: nothing), label, body
  wrapped,  \* the writer is a CompressWriter
  applied,  \* how many updates the store has taken
  failed    \* history: it returned an error for one it has taken

configVars == <<key, private>>
storeVars == <<applied, failed>>
vars == <<key, private, fromAgent, req, wire, step, resp, wrapped, applied, failed>>

Kind == {"good", "unset", "noid", "unknown"}
Batches == UNION {[1 .. n -> Kind] : n \in 0 .. Size}

JsonRoute  == {"/update", "/updates", "/value"}
PathUpdate == {"/update/gauge", "/update/counter"}
PathRead   == {"/value/gauge", "/value/counter"}
InvalidType == {"/update/other"}
Route == JsonRoute \cup PathUpdate \cup PathRead \cup InvalidType
           \cup {"/", "/ping", "unknown"}

\* The HMAC in HashSHA256: of what, under which key.
Unsigned == [of |-> <<"unsigned">>, under |-> NoKey]
Hash == [of : Bodies, under : Keys]

Steps == {"gunzip", "wrap", "hash", "decrypt", "route", "handler", "close",
          "done", "aborted"}

TypeOK ==
  /\ key \in Keys /\ private \in BOOLEAN
  /\ fromAgent \in BOOLEAN
  /\ step \in Steps
  /\ req.body \in Seq({"gzip", "rsa"}) /\ Len(req.body) <= Len(wire)
  /\ resp.status \in {0, 200, 400, 401, 404, 415, 500}
  /\ resp.status # 0 => step \in {"close", "done", "aborted"}
  /\ wrapped \in BOOLEAN
  /\ applied \in 0 .. Size /\ failed \in BOOLEAN

-----------------------------------------------------------------------------
(* Clients.                                                                *)

\* sendRequest signs the body, then encrypts it, and does not compress it;
\* the transport asks for a compressed answer.
Sign(k, body) == IF k = NoKey THEN Unsigned ELSE [of |-> body, under |-> k]

AgentRequest(k, public, r, metrics) ==
  [route |-> r, metrics |-> metrics,
   body |-> IF public THEN <<"rsa">> ELSE <<>>,
   gzip |-> FALSE, encrypted |-> public, acceptGzip |-> TRUE,
   hash |-> Sign(k, <<>>),
   type |-> IF public THEN "octets" ELSE "json"]

\* UpdateMetric sends one metric, UpdateMetrics a batch; all are complete.
AgentRequests ==
  {AgentRequest(k, public, "/update", <<"good">>) : k \in Keys, public \in BOOLEAN}
    \cup {AgentRequest(k, public, "/updates", [i \in 1 .. n |-> "good"]) :
            k \in Keys, public \in BOOLEAN, n \in 1 .. Size}

RequestOn(routes, bodies, batches) ==
  [route : routes, metrics : batches,
   body : bodies, gzip : BOOLEAN, encrypted : BOOLEAN, acceptGzip : BOOLEAN,
   hash : Hash \cup {Unsigned}, type : {"json", "octets"}]

Single == {b \in Batches : Len(b) <= 1}

\* On the routes without JSON the metric is in the path, the body is empty.
\* What a request to read names, the store has or has not.
OtherRequests ==
  RequestOn({"/updates"}, Bodies, Batches)
    \cup RequestOn({"/update"}, Bodies, Single)
    \cup RequestOn({"/value"}, Bodies, {<<>>})
    \cup RequestOn(PathUpdate, {<<>>}, {<<>>, <<"good">>})
    \cup RequestOn(Route \ (JsonRoute \cup PathUpdate), {<<>>}, {<<>>})

Init ==
  /\ key \in Keys /\ private \in BOOLEAN
  /\ \/ fromAgent = TRUE /\ req \in AgentRequests
     \/ fromAgent = FALSE /\ req \in OtherRequests
  /\ wire = req.body
  /\ step = "gunzip"
  /\ resp = [status |-> 0, labelled |-> FALSE, body |-> "none"]
  /\ wrapped = FALSE
  /\ applied = 0 /\ failed = FALSE

-----------------------------------------------------------------------------
(* The response writer.                                                    *)

After(from, to) == step = from /\ step' = to

\* WriteHeader: the headers are sent with the status, later changes are lost.
Header(r, code) ==
  IF r.status # 0 THEN r
  ELSE [r EXCEPT !.status = code, !.labelled = wrapped /\ code < 300]

\* Write sets the label first; without a status it sends 200.
Written(r) ==
  [(IF r.status # 0 THEN r
    ELSE [r EXCEPT !.status = 200, !.labelled = wrapped])
     EXCEPT !.body = IF wrapped THEN "gzip" ELSE "plain"]

\* http.Error, http.NotFound: a status and a text.
Refuse(code) ==
  /\ resp' = Written(Header(resp, code))
  /\ step' = "close"
  /\ UNCHANGED <<configVars, fromAgent, req, wire, wrapped, storeVars>>

\* A panic: net/http drops the connection and the client gets no answer.
Abort ==
  /\ step' = "aborted"
  /\ UNCHANGED <<configVars, fromAgent, req, wire, resp, wrapped, storeVars>>

Pass(to, r) ==
  /\ step' = to
  /\ req' = r
  /\ UNCHANGED <<configVars, fromAgent, wire, resp, wrapped, storeVars>>

Outermost(w) == req.body # <<>> /\ Head(req.body) = w

-----------------------------------------------------------------------------
(* The middleware, in order.                                               *)

WithRequestCompress ==
  /\ step = "gunzip"
  /\ CASE ~req.gzip -> Pass("wrap", req)
       [] req.gzip /\ Outermost("gzip") ->
            Pass("wrap", [req EXCEPT !.body = Tail(@)])
       [] OTHER -> Refuse(400)

WithResponseCompress ==
  /\ After("wrap", "hash")
  /\ wrapped' = req.acceptGzip
  /\ UNCHANGED <<configVars, fromAgent, req, wire, resp, storeVars>>

\* Mutation: the key is not part of the HMAC.
HashMatchesAnyKey == req.hash.of = req.body

\* SignData(body, handler.Key) = hash.
HashMatches == req.hash = [of |-> req.body, under |-> key]

WithHashedRequest ==
  /\ step = "hash"
  /\ IF req.hash = Unsigned \/ HashMatches
       THEN Pass("decrypt", req)
       ELSE Refuse(401)

NoBody == req.route \notin JsonRoute

\* rsa.DecryptPKCS1v15 dereferences a private key that is nil.
WithDecrypt ==
  /\ step = "decrypt"
  /\ CASE ~req.encrypted -> Pass("route", req)
       [] req.encrypted /\ ~private /\ (Outermost("rsa") \/ NoBody) -> Abort
       [] req.encrypted /\ private /\ Outermost("rsa") ->
            Pass("route", [req EXCEPT !.body = Tail(@), !.encrypted = FALSE])
       [] OTHER -> Refuse(400)

\* Mutation: the routes take any content type.
AnyTypeAllowed == TRUE

\* middleware.AllowContentType, which lets an empty body pass.
TypeAllowed == NoBody \/ req.type = "json"

Routing ==
  /\ step = "route"
  /\ CASE req.route = "unknown" -> Refuse(404)
       [] req.route # "unknown" /\ ~TypeAllowed -> Refuse(415)
       [] OTHER -> Pass("handler", req)

-----------------------------------------------------------------------------
(* The handlers.                                                           *)

\* What the decoder makes of the body; layers are not JSON.
Decoded == IF req.body = <<>> THEN req.metrics ELSE <<>>

Handling(routes) == step = "handler" /\ req.route \in routes

\* The store keeps what it is given in memory even when it returns an error,
\* because the row in the database failed.
Take(count) ==
  /\ applied' = applied + count
  /\ failed' \in IF count > 0 THEN BOOLEAN ELSE {FALSE}

Finish(r) ==
  /\ resp' = r
  /\ step' = "close"
  /\ UNCHANGED <<configVars, fromAgent, req, wire, wrapped>>

Read(r) == Finish(r) /\ UNCHANGED storeVars

OK == Written(Header(resp, 200))

\* A nil Value or Delta is dereferenced after the metrics before it.
PanicAfter(count) ==
  /\ Take(count)
  /\ step' = "aborted"
  /\ UNCHANGED <<configVars, fromAgent, req, wire, resp, wrapped>>

\* With neither field the metric is refused, with the other one only it is
\* dereferenced; the error of the store is not looked at.
UpdateMetrics ==
  /\ Handling({"/update"})
  /\ CASE Decoded = <<>> -> Refuse(400)
       [] Decoded = <<"unset">> -> PanicAfter(0)
       [] OTHER -> Take(1) /\ Finish(OK)

Complete(batch) == \A i \in DOMAIN batch : batch[i] # "unset"

FirstUnset(n) ==
  /\ n \in DOMAIN Decoded /\ Decoded[n] = "unset"
  /\ \A i \in 1 .. n - 1 : Decoded[i] # "unset"

BatchAnswer(errs) == IF errs THEN Written(Header(resp, 400)) ELSE OK

\* Mutation: the batch is applied again where it should be reported.
BatchCountedTwice ==
  /\ Handling({"/updates"})
  /\ Take(2 * Len(Decoded)) /\ Finish(BatchAnswer(failed'))

\* Mutation: the batch stops at the first error of the store.
BatchStopsAtError ==
  /\ Handling({"/updates"})
  /\ \/ Take(Len(Decoded)) /\ ~failed' /\ Finish(BatchAnswer(FALSE))
     \/ \E n \in DOMAIN Decoded : Take(n) /\ failed' /\ Finish(BatchAnswer(TRUE))

\* A name is not looked at, and what is no gauge is a counter.  Errors of the
\* store are collected, and answered when the whole batch has been given to it.
UpdateMetricsBatch ==
  /\ Handling({"/updates"})
  /\ \/ \E n \in DOMAIN Decoded : FirstUnset(n) /\ PanicAfter(n - 1)
     \/ /\ Complete(Decoded)
        /\ Take(Len(Decoded))
        /\ Finish(BatchAnswer(failed'))

\* UpdateGauge neither writes nor sets a status, UpdateCounter sets one; the
\* error of the store is not looked at.
UpdateByPath ==
  /\ Handling(PathUpdate)
  /\ CASE Decoded = <<>> -> Refuse(400)
       [] Decoded # <<>> /\ req.route = "/update/gauge" -> Take(1) /\ Finish(resp)
       [] OTHER -> Take(1) /\ Finish(Header(resp, 200))

\* GetGauge, GetCounter and GetMetrics answer 404 without a text.
GetByPath == Handling(PathRead) /\ (Read(OK) \/ Read(Header(resp, 404)))

GetMetrics == Handling({"/value"}) /\ (Read(OK) \/ Read(Header(resp, 404)))

InvalidMetricHandler == Handling(InvalidType) /\ Refuse(400)

GetInfo == Handling({"/"}) /\ Read(OK)

\* Without a database, or when it does not answer, 500.
Ping == Handling({"/ping"}) /\ (Refuse(500) \/ Read(OK))

\* The deferred Close always writes the header and the trailer of a gzip
\* stream; net/http sends 200 if nobody has sent a status.
Closed ==
  [resp EXCEPT !.status = IF @ = 0 THEN 200 ELSE @,
               !.body = IF wrapped THEN "gzip" ELSE @]

Close ==
  /\ After("close", "done")
  /\ resp' = Closed
  /\ UNCHANGED <<configVars, fromAgent, req, wire, wrapped, storeVars>>

-----------------------------------------------------------------------------
Next ==
  \/ WithRequestCompress \/ WithResponseCompress \/ WithHashedRequest
  \/ WithDecrypt \/ Routing
  \/ UpdateMetrics \/ UpdateMetricsBatch \/ UpdateByPath
  \/ GetByPath \/ GetMetrics \/ InvalidMetricHandler \/ GetInfo \/ Ping
  \/ Close

Spec == Init /\ [][Next]_vars

-----------------------------------------------------------------------------
(* Properties.                                                             *)

\* A request changes the store only if all that it claims about itself was
\* checked: the signature is by the server's key and over the body as it came
\* out of the gzip stream, an encrypted body was decrypted, JSON is declared
\* as such, and the layers were taken off in the order of the headers.
Unzipped(w) == IF w # <<>> /\ Head(w) = "gzip" THEN Tail(w) ELSE w

ChangesAreChecked ==
  applied > 0 =>
    /\ req.hash # Unsigned => req.hash = [of |-> Unzipped(wire), under |-> key]
    /\ Unzipped(wire) \in {<<>>, <<"rsa">>}
    /\ "rsa" \in {wire[i] : i \in DOMAIN wire} => private
    /\ req.route \in JsonRoute => req.type = "json"

\* What an answer tells of the store.  A request that is answered has been
\* applied as a whole or not at all.  An error with the metrics applied is
\* given by the batch handler only, when the store returned an error for one
\* of them; then it never says 200.  (The routes for one metric do: they drop
\* that error.)
AnswerTellsEffect ==
  step = "done" =>
    /\ applied \in {0, Len(req.metrics)}
    /\ resp.status >= 400 /\ applied > 0 => failed /\ req.route = "/updates"
    /\ failed /\ req.route = "/updates" => resp.status = 400

\* The agent's updates arrive exactly when it does not encrypt and signs with
\* the server's key or not at all: all of them, also when the answer is an error
\* of the store.  An encrypted update never does: signed, it
\* is refused because the hash is checked before the body is decrypted, and
\* unsigned, because its content type is not JSON.
AgentUnderstood ==
  fromAgent /\ step \in {"done", "aborted"} =>
    IF wire = <<>> /\ req.hash \in {Unsigned, [of |-> <<>>, under |-> key]}
      THEN /\ step = "done" /\ applied = Len(req.metrics)
           /\ resp.status = IF failed /\ req.route = "/updates" THEN 400 ELSE 200
      ELSE applied = 0 /\ (step = "done" => resp.status \in {401, 415})

\* What TestCompressWriter_WriteHeader_DoesNotSetGzipOnErrorStatus says: an
\* error is not labelled gzip, so that the client reads its body as it is.
BodyDecodes == step = "done" /\ resp.body = "gzip" => resp.labelled
=============================================================================
