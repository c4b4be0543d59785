---------------------------- MODULE EntriesProofs ----------------------------
(***************************************************************************)
(* Machine-checked proofs about HttpPipeline and Entries, for any keys,    *)
(* any wrappings of a body and batches of any size.                        *)
(***************************************************************************)
EXTENDS Entries, TLAPS

-----------------------------------------------------------------------------
(* The inductive invariant of the HTTP pipeline.                           *)

Wrappings == Seq({"gzip", "rsa"})

Request ==
  [route : Route, metrics : Batches,
   body : Wrappings, gzip : BOOLEAN, encrypted : BOOLEAN, acceptGzip : BOOLEAN,
   hash : [of : Wrappings, under : Keys] \cup {Unsigned},
   type : {"json", "octets"}]

Response ==
  [status : {0, 200, 400, 401, 404, 415, 500}, labelled : BOOLEAN,
   body : {"none", "plain", "gzip"}]

\* TypeOK with the fields it leaves out.
FieldsOK ==
  /\ req \in Request /\ wire \in Wrappings /\ resp \in Response
  /\ NoBody => wire = <<>>
  /\ req.route \in {"/update"} \cup PathUpdate => Len(req.metrics) <= 1

\* Nothing is answered or applied before the handler, or without a handler.
Unanswered == {"gunzip", "wrap", "hash", "decrypt", "route", "handler"}

NothingYet ==
  /\ step \in Unanswered => resp.status = 0 /\ applied = 0 /\ failed = FALSE
  /\ step = "aborted" => resp.status = 0

\* The signature, if there is one, is by the server's key and over b.
Authentic(b) == req.hash = Unsigned \/ req.hash = [of |-> b, under |-> key]

\* What is left of the body when a layer has been opened with its key.
Opened(b) ==
  req.body = b \/ (private /\ b # <<>> /\ Head(b) = "rsa" /\ req.body = Tail(b))

\* Which layers are off, and what has been checked, by the place of the
\* request.
LayersOK ==
  /\ step = "gunzip" => req.body = wire
  /\ step \in {"wrap", "hash", "decrypt"} => req.body \in {wire, Unzipped(wire)}
  /\ step = "decrypt" => Authentic(req.body)
  /\ step \in {"route", "handler"} =>
       \E b \in {wire, Unzipped(wire)} : Authentic(b) /\ Opened(b)
  /\ step = "handler" => TypeAllowed

\* AnswerTellsEffect, from the handler's answer on.
EffectInv ==
  step \in {"close", "done"} =>
    /\ applied \in {0, Len(req.metrics)}
    /\ resp.status >= 400 /\ applied > 0 => failed /\ req.route = "/updates"
    /\ failed /\ req.route = "/updates" => resp.status = 400

\* A request of the agent that the server can understand.
Understood == wire = <<>> /\ req.hash \in {Unsigned, [of |-> <<>>, under |-> key]}

\* An agent's request: what it is, and how far it comes.
AgentInv ==
  fromAgent =>
    /\ req.route \in {"/update", "/updates"} /\ ~req.gzip
    /\ req.metrics # <<>> /\ \A i \in DOMAIN req.metrics : req.metrics[i] = "good"
    /\ wire \in {<<>>, <<"rsa">>}
    /\ req.hash = Unsigned \/ req.hash.of = <<>>
    /\ wire = <<>> => req.type = "json" /\ ~req.encrypted /\ req.body = <<>>
    /\ wire # <<>> => req.type = "octets"
    /\ step \in {"gunzip", "wrap", "hash", "decrypt"} =>
         req.body = wire /\ (wire # <<>> => req.encrypted)
    /\ step \in {"decrypt", "route", "handler"} => Understood \/ wire # <<>>
    /\ step = "handler" => Understood
    /\ step \in {"close", "done", "aborted"} =>
         IF Understood
           THEN /\ step # "aborted" /\ applied = Len(req.metrics)
                /\ resp.status = IF failed /\ req.route = "/updates" THEN 400 ELSE 200
           ELSE applied = 0 /\ (step # "aborted" => resp.status \in {401, 415})

PipelineInv ==
  /\ TypeOK /\ FieldsOK /\ NothingYet /\ LayersOK /\ AgentInv
  /\ ChangesAreChecked /\ EffectInv

-----------------------------------------------------------------------------
(* The inductive invariant of both entries.                                *)

\* A batch that gRPC could carry as well is refused by nobody; only a metric
\* without a value stops it, after all before it.
BareInv ==
  Bare =>
    /\ step \in {"close", "done"} => applied = Len(req.metrics)
    /\ step = "aborted" =>
         applied < Len(req.metrics) /\ req.metrics[applied + 1] = "unset"

\* The call repeats the batch of a request that has been answered; the
\* handler has taken what comes before the metric that ends it.
RpcInv ==
  /\ taken \in Nat /\ taken <= Len(batch)
  /\ batch \in Batches
  /\ at \in {"none", "client", "interceptor", "service", "done"}
  /\ at # "none" => Answered /\ Bare /\ batch = req.metrics
  /\ at \in {"none", "client", "interceptor"} => taken = 0
  /\ at = "done" =>
       \/ code = "OK" /\ taken = Len(batch)
       \/ code = "InvalidArgument" /\ taken < Len(batch) /\ ~Rpc!Valid(batch[taken + 1])
       \/ code = "Internal" /\ taken > 0
       \/ code \in {"PermissionDenied", "Unsent"} /\ taken = 0

EntriesInv == PipelineInv /\ BareInv /\ RpcInv

-----------------------------------------------------------------------------
(* Batches, wrappings and answers.                                         *)

LEMMA BatchesAre ==
  /\ \A b \in Batches :
       /\ Len(b) \in 0 .. Size /\ Len(b) \in Nat /\ DOMAIN b = 1 .. Len(b)
       /\ \A i \in 1 .. Len(b) : b[i] \in Kind
       /\ b = <<>> <=> Len(b) = 0
       /\ Len(b) <= 1 /\ b # <<>> => Len(b) = 1
  /\ <<>> \in Batches /\ Len(<<>>) = 0
  /\ <<"good">> \in Batches /\ Len(<<"good">>) <= 1 /\ <<"good">> # <<>>
  /\ \A n \in 1 .. Size : /\ [i \in 1 .. n |-> "good"] \in Batches
                         /\ [i \in 1 .. n |-> "good"] # <<>>
<1>1. ASSUME NEW b \in Batches
      PROVE  /\ Len(b) \in 0 .. Size /\ Len(b) \in Nat /\ DOMAIN b = 1 .. Len(b)
             /\ \A i \in 1 .. Len(b) : b[i] \in Kind
             /\ b = <<>> <=> Len(b) = 0
             /\ Len(b) <= 1 /\ b # <<>> => Len(b) = 1
  <2>1. PICK n \in 0 .. Size : b \in [1 .. n -> Kind]
    BY DEF Batches
  <2>2. n \in Nat /\ b \in Seq(Kind)
    BY <2>1, PipelineAssumption
  <2>3. Len(b) = n
    BY <2>1, <2>2
  <2> QED
    BY <2>1, <2>2, <2>3
<1>2. ASSUME NEW n \in 0 .. Size, NEW b \in [1 .. n -> Kind]
      PROVE  b \in Batches
  BY <1>2 DEF Batches
<1>3. 0 \in 0 .. Size /\ 1 \in 0 .. Size /\ \A n \in 1 .. Size : n \in 0 .. Size /\ n \in Nat
  BY PipelineAssumption
<1>4. <<>> \in [1 .. 0 -> Kind] /\ <<"good">> \in [1 .. 1 -> Kind]
  BY DEF Kind
<1>5. ASSUME NEW n \in 1 .. Size
      PROVE  [i \in 1 .. n |-> "good"] \in Batches /\ [i \in 1 .. n |-> "good"] # <<>>
  <2>1. [i \in 1 .. n |-> "good"] \in [1 .. n -> Kind]
    BY DEF Kind
  <2>2. 1 \in DOMAIN [i \in 1 .. n |-> "good"] /\ 1 \notin DOMAIN <<>>
    BY <1>3
  <2> QED
    BY <1>2, <1>3, <2>1, <2>2
<1>6. <<>> \in Batches /\ <<"good">> \in Batches
  BY <1>2, <1>3, <1>4
<1>7. Len(<<>>) = 0 /\ Len(<<"good">>) <= 1 /\ <<"good">> # <<>>
  OBVIOUS
<1> QED
  BY <1>1, <1>5, <1>6, <1>7

LEMMA Layers ==
  /\ \A w \in Wrappings : w # <<>> =>
       Head(w) \in {"gzip", "rsa"} /\ Tail(w) \in Wrappings /\ Len(Tail(w)) < Len(w)
  /\ \A w \in Wrappings : Unzipped(w) \in Wrappings /\ Len(Unzipped(w)) <= Len(w)
  /\ <<>> \in Wrappings /\ <<"rsa">> \in Wrappings /\ <<"rsa">> # <<>>
  /\ Unzipped(<<>>) = <<>> /\ Unzipped(<<"rsa">>) = <<"rsa">>
<1>1. \A w \in Wrappings : w # <<>> =>
        Head(w) \in {"gzip", "rsa"} /\ Tail(w) \in Wrappings /\ Len(Tail(w)) < Len(w)
  BY DEF Wrappings
<1>2. \A w \in Wrappings : Len(w) \in Nat
  BY DEF Wrappings
<1>3. \A w \in Wrappings : Unzipped(w) \in Wrappings /\ Len(Unzipped(w)) <= Len(w)
  BY <1>1, <1>2 DEF Unzipped, Wrappings
<1>4. <<>> \in Wrappings /\ <<"rsa">> \in Wrappings /\ <<"rsa">> # <<>>
  BY DEF Wrappings
<1>5. Unzipped(<<>>) = <<>> /\ Unzipped(<<"rsa">>) = <<"rsa">>
  BY DEF Unzipped
<1> QED
  BY <1>1, <1>3, <1>4, <1>5

\* A sequence whose tail is empty is its head.
LEMMA OneLayer ==
  ASSUME NEW w \in Wrappings, w # <<>>, Head(w) = "rsa", Tail(w) = <<>>
  PROVE  w = <<"rsa">>
<1>1. Len(w) \in Nat /\ Len(Tail(w)) = Len(w) - 1
  BY DEF Wrappings
<1>2. Len(w) = 1 /\ w[1] = "rsa"
  BY <1>1 DEF Wrappings
<1> QED
  BY <1>2 DEF Wrappings

\* "rsa" is among the layers only if it is the first or stands below a gzip.
LEMMA RsaBelow ==
  ASSUME NEW w \in Wrappings, NEW i \in DOMAIN w, w[i] = "rsa"
  PROVE  Unzipped(w) # <<>>
<1>1. CASE w = <<>>
  BY <1>1
<1>2. CASE w # <<>> /\ Head(w) # "gzip"
  BY <1>2 DEF Unzipped
<1>3. CASE w # <<>> /\ Head(w) = "gzip"
  <2>1. i # 1 /\ i \in 1 .. Len(w)
    BY <1>3 DEF Wrappings
  <2>2. Len(Tail(w)) = Len(w) - 1 /\ Len(w) \in Nat
    BY <1>3 DEF Wrappings
  <2>3. Tail(w) # <<>>
    BY <2>1, <2>2
  <2> QED
    BY <1>3, <2>3 DEF Unzipped
<1> QED
  BY <1>1, <1>2, <1>3

\* The first status counts.
LEMMA Answers ==
  ASSUME FieldsOK, TypeOK, resp.status = 0
  PROVE  /\ \A answer \in {200, 400, 401, 404, 415, 500} :
              /\ Header(resp, answer) \in Response /\ Header(resp, answer).status = answer
              /\ Written(Header(resp, answer)) \in Response
              /\ Written(Header(resp, answer)).status = answer
         /\ OK \in Response /\ OK.status = 200
         /\ \A answer \in {200, 400, 401, 404, 415, 500} : Refuse(answer) =>
              /\ resp' \in Response /\ resp'.status = answer /\ step' = "close"
              /\ UNCHANGED <<configVars, fromAgent, req, wire, wrapped, applied, failed>>
<1>1. \A answer \in {200, 400, 401, 404, 415, 500} :
        Header(resp, answer) \in Response /\ Header(resp, answer).status = answer
  <2> SUFFICES ASSUME NEW answer \in {200, 400, 401, 404, 415, 500}
               PROVE  /\ Header(resp, answer) \in Response
                      /\ Header(resp, answer).status = answer
    OBVIOUS
  <2> DEFINE label == wrapped /\ answer < 300
  <2>1. label \in BOOLEAN
    OBVIOUS
  <2>2. Header(resp, answer) = [resp EXCEPT !.status = answer, !.labelled = label]
    BY DEF Header
  <2>3. resp \in Response
    BY DEF FieldsOK
  <2>4. [resp EXCEPT !.status = answer, !.labelled = label]
          = [[resp EXCEPT !.status = answer] EXCEPT !.labelled = label]
    OBVIOUS
  <2> HIDE DEF label
  <2>5. /\ [resp EXCEPT !.status = answer] \in Response
        /\ [resp EXCEPT !.status = answer].status = answer
    BY <2>3 DEF Response
  <2>6. \A r \in Response : /\ [r EXCEPT !.labelled = label] \in Response
                           /\ [r EXCEPT !.labelled = label].status = r.status
    BY <2>1 DEF Response
  <2> DEFINE sent == [resp EXCEPT !.status = answer]
  <2>7. Header(resp, answer) = [sent EXCEPT !.labelled = label]
    BY <2>2, <2>4, Zenon
  <2>8. sent \in Response /\ sent.status = answer
    BY <2>5
  <2> HIDE DEF sent
  <2> QED
    BY <2>6, <2>7, <2>8
<1>2. \A r \in Response : r.status # 0 =>
        Written(r) \in Response /\ Written(r).status = r.status
  BY DEF Written, Response, TypeOK
<1>3. OK \in Response /\ OK.status = 200
  BY <1>1, <1>2 DEF OK
<1>4. \A answer \in {200, 400, 401, 404, 415, 500} :
        /\ Written(Header(resp, answer)) \in Response
        /\ Written(Header(resp, answer)).status = answer
  BY <1>1, <1>2
<1> QED
  BY <1>1, <1>3, <1>4 DEF Refuse, storeVars

\* The agent's requests are of complete metrics, at least one.
LEMMA AgentRequestsAre ==
  ASSUME NEW q \in AgentRequests
  PROVE  \E k \in Keys, public \in BOOLEAN, r \in {"/update", "/updates"}, metrics \in Batches :
           /\ q = AgentRequest(k, public, r, metrics)
           /\ r = "/update" => Len(metrics) <= 1
           /\ metrics # <<>> /\ \A i \in DOMAIN metrics : metrics[i] = "good"
<1>1. CASE \E k \in Keys, public \in BOOLEAN : q = AgentRequest(k, public, "/update", <<"good">>)
  <2>1. /\ <<"good">> \in Batches /\ <<"good">> # <<>> /\ Len(<<"good">>) <= 1
        /\ \A i \in DOMAIN <<"good">> : <<"good">>[i] = "good"
    BY BatchesAre
  <2> QED
    BY <1>1, <2>1
<1>2. CASE \E k \in Keys, public \in BOOLEAN, n \in 1 .. Size :
             q = AgentRequest(k, public, "/updates", [i \in 1 .. n |-> "good"])
  <2>1. PICK k \in Keys, public \in BOOLEAN, n \in 1 .. Size :
          q = AgentRequest(k, public, "/updates", [i \in 1 .. n |-> "good"])
    BY <1>2
  <2> DEFINE metrics == [i \in 1 .. n |-> "good"]
  <2>2. /\ metrics \in Batches /\ metrics # <<>>
        /\ \A i \in DOMAIN metrics : metrics[i] = "good"
    BY BatchesAre
  <2>3. q = AgentRequest(k, public, "/updates", metrics)
    BY <2>1
  <2> HIDE DEF metrics
  <2> QED
    BY <2>2, <2>3
<1>3. q \in {AgentRequest(k, public, "/update", <<"good">>) : k \in Keys, public \in BOOLEAN}
        => \E k \in Keys, public \in BOOLEAN : q = AgentRequest(k, public, "/update", <<"good">>)
  OBVIOUS
<1>4. q \in {AgentRequest(k, public, "/updates", [i \in 1 .. n |-> "good"]) :
               k \in Keys, public \in BOOLEAN, n \in 1 .. Size}
        => \E k \in Keys, public \in BOOLEAN, n \in 1 .. Size :
             q = AgentRequest(k, public, "/updates", [i \in 1 .. n |-> "good"])
  OBVIOUS
<1> QED
  BY <1>1, <1>2, <1>3, <1>4 DEF AgentRequests

LEMMA InitPipelineInv == Init => PipelineInv
<1> SUFFICES ASSUME Init PROVE PipelineInv
  OBVIOUS
<1>1. \A b \in Bodies : b \in Wrappings
  BY PipelineAssumption DEF Wrappings
<1>2. req \in Request
  <2>1. CASE req \in AgentRequests
    <3>1. PICK k \in Keys, public \in BOOLEAN, r \in {"/update", "/updates"},
               metrics \in Batches :
            req = AgentRequest(k, public, r, metrics)
      BY <2>1, AgentRequestsAre
    <3>2. Sign(k, <<>>) \in [of : Wrappings, under : Keys] \cup {Unsigned}
      BY Layers DEF Sign
    <3>3. r \in Route
      BY DEF Route, JsonRoute
    <3> QED
      BY <3>1, <3>2, <3>3, Layers DEF AgentRequest, Request
  <2>2. CASE req \in OtherRequests
    <3>1. Hash \subseteq [of : Wrappings, under : Keys]
      BY <1>1 DEF Hash
    <3>2. /\ JsonRoute \subseteq Route /\ {"/updates"} \subseteq Route
          /\ {"/update"} \subseteq Route /\ {"/value"} \subseteq Route
          /\ PathUpdate \subseteq Route
          /\ Route \ (JsonRoute \cup PathUpdate) \subseteq Route
          /\ Single \subseteq Batches
      BY DEF Route, JsonRoute, Single
    <3>3. <<>> \in Wrappings
      BY Layers
    <3> QED
      BY <1>1, <2>2, <3>1, <3>2, <3>3, BatchesAre DEF OtherRequests, RequestOn, Request
  <2> QED
    BY <2>1, <2>2 DEF Init
<1>3. NoBody => wire = <<>>
  <2>1. CASE req \in AgentRequests
    BY <2>1, AgentRequestsAre DEF AgentRequest, NoBody, JsonRoute
  <2>2. CASE req \in OtherRequests
    BY <2>2 DEF Init, OtherRequests, RequestOn, NoBody, JsonRoute
  <2> QED
    BY <2>1, <2>2 DEF Init
<1>3a. req.route \in {"/update"} \cup PathUpdate => Len(req.metrics) <= 1
  <2>1. CASE req \in AgentRequests
    <3>1. PICK k \in Keys, public \in BOOLEAN, r \in {"/update", "/updates"},
               metrics \in Batches :
            req = AgentRequest(k, public, r, metrics) /\ (r = "/update" => Len(metrics) <= 1)
      BY <2>1, AgentRequestsAre
    <3>2. req.route = r /\ req.metrics = metrics
      BY <3>1 DEF AgentRequest
    <3>3. CASE r = "/update"
      BY <3>1, <3>2, <3>3
    <3>4. CASE r = "/updates"
      BY <3>2, <3>4 DEF PathUpdate
    <3> QED
      BY <3>3, <3>4
  <2>2. CASE req \in OtherRequests
    BY <2>2, BatchesAre DEF OtherRequests, RequestOn, PathUpdate, JsonRoute, Single
  <2> QED
    BY <2>1, <2>2 DEF Init
<1>4. wire = req.body /\ wire \in Wrappings
  BY <1>2 DEF Init, Request
<1>5. TypeOK
  <2>1. req.body \in Seq({"gzip", "rsa"}) /\ Len(req.body) <= Len(wire)
    BY <1>4 DEF Wrappings
  <2>2. applied \in 0 .. Size
    BY PipelineAssumption DEF Init
  <2> QED
    BY <2>1, <2>2 DEF Init, TypeOK, Steps
<1>6. FieldsOK
  BY <1>2, <1>3, <1>3a, <1>4 DEF Init, FieldsOK, Response
<1>7. NothingYet /\ LayersOK
  BY <1>4 DEF Init, NothingYet, LayersOK
<1>8. AgentInv
  <2> SUFFICES ASSUME fromAgent PROVE AgentInv
    BY DEF AgentInv
  <2>1. PICK k \in Keys, public \in BOOLEAN, r \in {"/update", "/updates"},
             metrics \in Batches :
          /\ req = AgentRequest(k, public, r, metrics)
          /\ metrics # <<>> /\ \A i \in DOMAIN metrics : metrics[i] = "good"
    BY AgentRequestsAre DEF Init
  <2>2. req.hash = Unsigned \/ req.hash.of = <<>>
    BY <2>1 DEF AgentRequest, Sign
  <2> QED
    BY <1>4, <2>1, <2>2, Layers DEF AgentInv, AgentRequest, Init
<1>9. ChangesAreChecked /\ EffectInv
  BY DEF Init, ChangesAreChecked, EffectInv
<1> QED
  BY <1>5, <1>6, <1>7, <1>8, <1>9 DEF PipelineInv

-----------------------------------------------------------------------------
(* What a step of the pipeline does.                                       *)

\* A middleware may take a layer off and forget the header of encryption;
\* nothing else of the request changes.
LEMMA RequestStays ==
  ASSUME TypeOK, FieldsOK, [Next]_vars
  PROVE  /\ UNCHANGED <<key, private, fromAgent, wire>>
         /\ req' \in Request
         /\ \/ req' = req
            \/ req.body # <<>> /\ req'.body = Tail(req.body)
         /\ req'.encrypted = req.encrypted \/ (req'.body = Tail(req.body) /\ Outermost("rsa"))
         /\ req'.route = req.route /\ req'.metrics = req.metrics
         /\ req'.hash = req.hash /\ req'.type = req.type /\ req'.gzip = req.gzip
<1> DEFINE Stays ==
      /\ UNCHANGED <<key, private, fromAgent, wire>>
      /\ req' \in Request
      /\ \/ req' = req
         \/ req.body # <<>> /\ req'.body = Tail(req.body)
      /\ req'.encrypted = req.encrypted \/ (req'.body = Tail(req.body) /\ Outermost("rsa"))
      /\ req'.route = req.route /\ req'.metrics = req.metrics
      /\ req'.hash = req.hash /\ req'.type = req.type /\ req'.gzip = req.gzip
<1> SUFFICES Stays
  OBVIOUS
<1>1. req \in Request
  BY DEF FieldsOK
<1>2. ASSUME UNCHANGED <<key, private, fromAgent, wire, req>>
      PROVE  Stays
  BY <1>1, <1>2
<1>3. ASSUME UNCHANGED <<key, private, fromAgent, wire>>, NEW w \in {"gzip", "rsa"},
             Outermost(w),
             \/ w = "gzip" /\ req' = [req EXCEPT !.body = Tail(@)]
             \/ w = "rsa" /\ req' = [req EXCEPT !.body = Tail(@), !.encrypted = FALSE]
      PROVE  Stays
  <2>1. req.body \in Wrappings /\ req.body # <<>>
    BY <1>1, <1>3 DEF Request, Outermost
  <2>2. Tail(req.body) \in Wrappings
    BY <2>1, Layers
  <2> DEFINE opened == [req EXCEPT !.body = Tail(@)]
  <2>3. /\ opened \in Request /\ opened.body = Tail(req.body)
        /\ opened.encrypted = req.encrypted
        /\ opened.route = req.route /\ opened.metrics = req.metrics
        /\ opened.hash = req.hash /\ opened.type = req.type /\ opened.gzip = req.gzip
    BY <1>1, <2>2 DEF Request
  <2>4. [req EXCEPT !.body = Tail(@), !.encrypted = FALSE]
          = [opened EXCEPT !.encrypted = FALSE]
    OBVIOUS
  <2> HIDE DEF opened
  <2>5. CASE w = "gzip"
    <3>1. req' = opened
      BY <1>3, <2>5 DEF opened
    <3> QED
      BY <1>3, <2>1, <2>3, <3>1
  <2>6. CASE w = "rsa"
    <3>1. req' = [opened EXCEPT !.encrypted = FALSE]
      BY <1>3, <2>4, <2>6, Zenon
    <3>2. /\ req' \in Request /\ req'.body = opened.body
          /\ req'.route = opened.route /\ req'.metrics = opened.metrics
          /\ req'.hash = opened.hash /\ req'.type = opened.type /\ req'.gzip = opened.gzip
      BY <2>3, <3>1 DEF Request
    <3> QED
      BY <1>3, <2>1, <2>3, <2>6, <3>2
  <2> QED
    BY <2>5, <2>6
<1> HIDE DEF Stays
<1>4. CASE WithRequestCompress
  BY <1>2, <1>3, <1>4 DEF WithRequestCompress, Pass, Refuse, configVars
<1>5. CASE WithDecrypt
  BY <1>2, <1>3, <1>5 DEF WithDecrypt, Pass, Refuse, Abort, configVars
<1>6. CASE WithResponseCompress \/ WithHashedRequest \/ Routing
  BY <1>2, <1>6 DEF WithResponseCompress, WithHashedRequest, Routing, Pass, Refuse, configVars
<1>7. CASE UpdateMetrics \/ UpdateMetricsBatch \/ UpdateByPath
  BY <1>2, <1>7 DEF UpdateMetrics, UpdateMetricsBatch, UpdateByPath, Refuse, Finish,
                    Take, PanicAfter, configVars
<1>8. CASE GetByPath \/ GetMetrics \/ InvalidMetricHandler \/ GetInfo \/ Ping \/ Close
  BY <1>2, <1>8 DEF GetByPath, GetMetrics, InvalidMetricHandler, GetInfo, Ping, Close,
                    Refuse, Read, Finish, configVars
<1>9. CASE UNCHANGED vars
  BY <1>2, <1>9 DEF vars, configVars
<1> QED
  BY <1>4, <1>5, <1>6, <1>7, <1>8, <1>9 DEF Next

\* Up to the handler a request passes, is refused, or breaks the connection.
LEMMA Middle ==
  ASSUME TypeOK, FieldsOK, NothingYet, Next, step \notin {"handler", "close"}
  PROVE  /\ UNCHANGED <<applied, failed>> /\ wrapped' \in BOOLEAN
         /\ step \in {"gunzip", "wrap", "hash", "decrypt", "route"}
         /\ \/ step' \in Unanswered /\ UNCHANGED resp
            \/ step' = "close" /\ resp' \in Response /\ resp'.status \in {400, 401, 404, 415}
            \/ step' = "aborted" /\ UNCHANGED resp
<1>1. \/ WithRequestCompress \/ WithResponseCompress \/ WithHashedRequest
      \/ WithDecrypt \/ Routing
  BY DEF Next, UpdateMetrics, UpdateMetricsBatch, UpdateByPath, GetByPath, GetMetrics,
         InvalidMetricHandler, GetInfo, Ping, Handling, Close, After
<1>2. step \in {"gunzip", "wrap", "hash", "decrypt", "route"}
  BY <1>1 DEF WithRequestCompress, WithResponseCompress, WithHashedRequest, WithDecrypt,
              Routing, After
<1>3. resp.status = 0
  BY <1>2 DEF NothingYet, Unanswered
<1>4. wrapped \in BOOLEAN /\ req.acceptGzip \in BOOLEAN
  BY DEF TypeOK, FieldsOK, Request
<1>5. ASSUME NEW answer \in {400, 401, 404, 415}, Refuse(answer)
      PROVE  /\ UNCHANGED <<applied, failed, wrapped>> /\ step' = "close"
             /\ resp' \in Response /\ resp'.status \in {400, 401, 404, 415}
  BY <1>3, <1>5, Answers
<1>6. ASSUME NEW to \in Unanswered, NEW r, Pass(to, r)
      PROVE  UNCHANGED <<applied, failed, wrapped, resp>> /\ step' \in Unanswered
  BY <1>6 DEF Pass, storeVars
<1>7. CASE WithRequestCompress
  BY <1>2, <1>4, <1>5, <1>6, <1>7 DEF WithRequestCompress, Unanswered
<1>8. CASE WithResponseCompress
  BY <1>2, <1>4, <1>8 DEF WithResponseCompress, After, Unanswered, storeVars
<1>9. CASE WithHashedRequest
  BY <1>2, <1>4, <1>5, <1>6, <1>9 DEF WithHashedRequest, Unanswered
<1>10. CASE WithDecrypt
  BY <1>2, <1>4, <1>5, <1>6, <1>10 DEF WithDecrypt, Abort, Unanswered, storeVars
<1>11. CASE Routing
  BY <1>2, <1>4, <1>5, <1>6, <1>11 DEF Routing, Unanswered
<1> QED
  BY <1>1, <1>7, <1>8, <1>9, <1>10, <1>11

\* A handler applies all that the body decodes to, or nothing, or breaks the
\* connection; an error for what it has applied is that of the store.
LEMMA Handled ==
  ASSUME TypeOK, FieldsOK, NothingYet, Next, step = "handler"
  PROVE  /\ UNCHANGED <<req, wrapped>> /\ failed' \in BOOLEAN
         /\ \/ /\ step' = "close" /\ resp' \in Response /\ applied' = 0
               /\ failed' = FALSE
            \/ /\ step' = "close" /\ resp' \in Response
               /\ applied' = Len(req.metrics) /\ applied' \in 0 .. Size /\ req.body = <<>>
               /\ IF failed' /\ req.route = "/updates" THEN resp'.status = 400
                                                      ELSE resp'.status \in {0, 200}
            \/ /\ step' = "aborted" /\ UNCHANGED resp
               /\ applied' \in 0 .. Size /\ (req.body = <<>> \/ applied' = 0)
<1> USE DEF Handling
<1>1. resp.status = 0 /\ applied = 0 /\ failed = FALSE /\ resp \in Response
  BY DEF NothingYet, Unanswered, FieldsOK
<1>2. /\ \A answer \in {200, 400, 404} : /\ Header(resp, answer) \in Response
                                      /\ Header(resp, answer).status = answer
      /\ OK \in Response /\ OK.status = 200
  BY <1>1, Answers
<1>3. ASSUME NEW answer \in {400, 500}, Refuse(answer)
      PROVE  /\ UNCHANGED <<req, wrapped>> /\ step' = "close" /\ failed' = FALSE
             /\ resp' \in Response /\ applied' = 0
  BY <1>1, <1>3, Answers
<1>4. ASSUME NEW count \in Nat, Take(count)
      PROVE  applied' = count /\ failed' \in BOOLEAN /\ (count = 0 => failed' = FALSE)
  <2>1. applied' = count
    BY <1>1, <1>4 DEF Take
  <2>2. failed' \in IF count > 0 THEN BOOLEAN ELSE {FALSE}
    BY <1>4 DEF Take
  <2>3. CASE count > 0
    BY <2>1, <2>2, <2>3
  <2>4. CASE ~(count > 0)
    <3>1. failed' = FALSE
      BY <2>2, <2>4
    <3> QED
      BY <2>1, <3>1
  <2> QED
    BY <2>3, <2>4
<1>5. /\ Len(req.metrics) \in Nat /\ Len(req.metrics) \in 0 .. Size
      /\ DOMAIN req.metrics = 1 .. Len(req.metrics)
      /\ req.metrics # <<>> /\ Len(req.metrics) <= 1 => Len(req.metrics) = 1
  BY BatchesAre DEF FieldsOK, Request
<1>6. /\ 0 \in 0 .. Size /\ 1 \in 0 .. Size /\ 1 \in Nat /\ 0 \in Nat
      /\ \A n \in 1 .. Len(req.metrics) : n - 1 \in 0 .. Size /\ n - 1 \in Nat
  BY <1>5, PipelineAssumption
<1>7. Decoded # <<>> => req.body = <<>> /\ Decoded = req.metrics
  BY DEF Decoded
<1>8. CASE UpdateMetrics
  <2>1. CASE Decoded = <<>>
    <3>1. Refuse(400)
      BY <1>8, <2>1 DEF UpdateMetrics
    <3> QED
      BY <1>3, <3>1
  <2>2. CASE Decoded # <<>>
    <3>0. req.route = "/update"
      BY <1>8 DEF UpdateMetrics
    <3>1. Len(req.metrics) = 1 /\ req.body = <<>> /\ req.route = "/update"
      <4>1. Len(req.metrics) <= 1
        BY <3>0 DEF FieldsOK
      <4>2. req.metrics # <<>> /\ req.body = <<>>
        BY <1>7, <2>2
      <4> QED
        BY <1>5, <3>0, <4>1, <4>2
    <3>2. PanicAfter(0) \/ (Take(1) /\ Finish(OK))
      BY <1>8, <2>2 DEF UpdateMetrics
    <3>3. CASE PanicAfter(0)
      BY <1>4, <1>6, <3>3 DEF PanicAfter
    <3>4. CASE Take(1) /\ Finish(OK)
      <4>1. applied' = 1 /\ failed' \in BOOLEAN
        BY <1>4, <1>6, <3>4
      <4>2. resp' = OK /\ step' = "close" /\ UNCHANGED <<req, wrapped>>
        BY <3>4 DEF Finish
      <4> QED
        BY <1>2, <1>6, <3>1, <4>1, <4>2
    <3> QED
      BY <3>2, <3>3, <3>4
  <2> QED
    BY <2>1, <2>2
<1>9. CASE UpdateMetricsBatch
  <2>1. CASE \E n \in DOMAIN Decoded : FirstUnset(n) /\ PanicAfter(n - 1)
    <3>1. PICK n \in DOMAIN Decoded : PanicAfter(n - 1)
      BY <2>1
    <3>2. Decoded # <<>>
      BY <3>1
    <3>3. n \in 1 .. Len(req.metrics) /\ req.body = <<>>
      BY <1>5, <1>7, <3>1, <3>2
    <3> QED
      BY <1>4, <1>6, <3>1, <3>3 DEF PanicAfter
  <2>2. CASE Take(Len(Decoded)) /\ Finish(BatchAnswer(failed'))
    <3>1. Len(Decoded) \in Nat /\ (Decoded = <<>> => Len(Decoded) = 0)
      BY <1>5, BatchesAre DEF Decoded
    <3>2. /\ applied' = Len(Decoded) /\ failed' \in BOOLEAN
          /\ Decoded = <<>> => failed' = FALSE
      BY <1>4, <2>2, <3>1
    <3>3. /\ resp' = BatchAnswer(failed') /\ step' = "close" /\ UNCHANGED <<req, wrapped>>
          /\ req.route = "/updates"
      BY <1>9, <2>2 DEF Finish, UpdateMetricsBatch
    <3>4. resp' \in Response /\ resp'.status = IF failed' THEN 400 ELSE 200
      BY <1>1, <1>2, <3>2, <3>3, Answers DEF BatchAnswer
    <3>5. CASE Decoded = <<>>
      BY <3>1, <3>2, <3>3, <3>4, <3>5
    <3>6. CASE Decoded # <<>>
      BY <1>5, <1>7, <3>2, <3>3, <3>4, <3>6
    <3> QED
      BY <3>5, <3>6
  <2> QED
    BY <1>9, <2>1, <2>2 DEF UpdateMetricsBatch
<1>10. CASE UpdateByPath
  <2>1. CASE Decoded = <<>>
    <3>1. Refuse(400)
      BY <1>10, <2>1 DEF UpdateByPath
    <3> QED
      BY <1>3, <3>1
  <2>2. CASE Decoded # <<>>
    <3>1. /\ Len(req.metrics) = 1 /\ req.body = <<>> /\ req.route # "/updates"
      <4>1. Len(req.metrics) <= 1 /\ req.route # "/updates"
        BY <1>10 DEF UpdateByPath, FieldsOK, PathUpdate
      <4>2. req.metrics # <<>> /\ req.body = <<>>
        BY <1>7, <2>2
      <4> QED
        BY <1>5, <4>1, <4>2
    <3>2. PICK r \in {resp, Header(resp, 200)} : Take(1) /\ Finish(r)
      BY <1>10, <2>2 DEF UpdateByPath
    <3>3. applied' = 1 /\ failed' \in BOOLEAN
      BY <1>4, <1>6, <3>2
    <3>4. resp' = r /\ step' = "close" /\ UNCHANGED <<req, wrapped>>
      BY <3>2 DEF Finish
    <3> QED
      BY <1>1, <1>2, <1>6, <3>1, <3>3, <3>4
  <2> QED
    BY <2>1, <2>2
<1>11. CASE GetByPath \/ GetMetrics \/ GetInfo
  <2>1. PICK r \in {OK, Header(resp, 404)} : Read(r)
    BY <1>11 DEF GetByPath, GetMetrics, GetInfo
  <2>2. /\ UNCHANGED <<req, wrapped>> /\ step' = "close" /\ resp' \in Response
        /\ applied' = 0 /\ failed' = FALSE
    BY <1>1, <1>2, <2>1 DEF Read, Finish, storeVars
  <2> QED
    BY <2>2
<1>12. CASE InvalidMetricHandler \/ Ping
  <2>1. Refuse(400) \/ Refuse(500) \/ Read(OK)
    BY <1>12 DEF InvalidMetricHandler, Ping
  <2>2. CASE Read(OK)
    <3>1. /\ UNCHANGED <<req, wrapped>> /\ step' = "close" /\ resp' \in Response
          /\ applied' = 0 /\ failed' = FALSE
      BY <1>1, <1>2, <2>2 DEF Read, Finish, storeVars
    <3> QED
      BY <3>1
  <2>3. CASE Refuse(400) \/ Refuse(500)
    <3>1. /\ UNCHANGED <<req, wrapped>> /\ step' = "close" /\ failed' = FALSE
          /\ resp' \in Response /\ applied' = 0
      BY <1>3, <2>3
    <3> QED
      BY <3>1
  <2> QED
    BY <2>1, <2>2, <2>3
<1> QED
  BY <1>8, <1>9, <1>10, <1>11, <1>12
     DEF Next, WithRequestCompress, WithResponseCompress, WithHashedRequest, WithDecrypt,
         Routing, Close, After

\* Close sends 200 if nobody has sent a status.
LEMMA Closing ==
  ASSUME TypeOK, FieldsOK, Next, step = "close"
  PROVE  /\ step' = "done" /\ UNCHANGED <<req, wrapped, applied, failed>>
         /\ resp' \in Response
         /\ resp'.status = IF resp.status = 0 THEN 200 ELSE resp.status
<1>1. Close
  BY DEF Next, WithRequestCompress, WithResponseCompress, WithHashedRequest, WithDecrypt,
         Routing, UpdateMetrics, UpdateMetricsBatch, UpdateByPath, GetByPath, GetMetrics,
         InvalidMetricHandler, GetInfo, Ping, Handling, After
<1> DEFINE answer == IF resp.status = 0 THEN 200 ELSE resp.status
           form == IF wrapped THEN "gzip" ELSE resp.body
<1>2. resp \in Response /\ answer \in {200, 400, 401, 404, 415, 500}
  BY DEF FieldsOK, Response
<1>3. form \in {"none", "plain", "gzip"}
  BY <1>2 DEF Response
<1>4. resp' = [resp EXCEPT !.status = answer, !.body = form]
  BY <1>1 DEF Close, Closed
<1> DEFINE sent == [resp EXCEPT !.status = answer]
<1>5. [resp EXCEPT !.status = answer, !.body = form] = [sent EXCEPT !.body = form]
  OBVIOUS
<1>6. sent \in Response /\ sent.status = answer
  <2> HIDE DEF answer
  <2> QED
    BY <1>2 DEF Response
<1>7. resp' = [sent EXCEPT !.body = form]
  BY <1>4, <1>5, Zenon
<1> HIDE DEF sent, form
<1>8. resp' \in Response /\ resp'.status = sent.status
  BY <1>3, <1>6, <1>7 DEF Response
<1> QED
  BY <1>1, <1>6, <1>8 DEF Close, After, storeVars

-----------------------------------------------------------------------------
(* The steps keep the invariant of the pipeline.                           *)

LEMMA FieldsNext ==
  ASSUME TypeOK, FieldsOK, NothingYet, [Next]_vars
  PROVE  TypeOK' /\ FieldsOK' /\ NothingYet'
<1>1. /\ UNCHANGED <<key, private, fromAgent, wire>> /\ req' \in Request
      /\ req'.route = req.route /\ req'.metrics = req.metrics
  BY RequestStays
<1>2. Len(req'.body) <= Len(wire') /\ req'.body \in Wrappings
  <2>1. req'.body \in Wrappings /\ req.body \in Wrappings
    BY <1>1 DEF FieldsOK, Request
  <2>2. Len(req'.body) \in Nat /\ Len(req.body) \in Nat /\ Len(wire) \in Nat
    BY <2>1 DEF FieldsOK, Wrappings
  <2>3. Len(req.body) <= Len(wire)
    BY DEF TypeOK
  <2>4. CASE req' = req
    BY <1>1, <2>3, <2>4, <2>1
  <2>5. CASE req.body # <<>> /\ req'.body = Tail(req.body)
    <3>1. Len(req'.body) < Len(req.body)
      BY <2>1, <2>5, Layers
    <3> QED
      BY <1>1, <2>1, <2>2, <2>3, <3>1
  <2> QED
    BY <2>4, <2>5, RequestStays
<1>3. /\ step' \in Steps /\ wrapped' \in BOOLEAN /\ applied' \in 0 .. Size
      /\ failed' \in BOOLEAN
      /\ resp' \in Response /\ NothingYet'
      /\ resp'.status # 0 => step' \in {"close", "done", "aborted"}
  <2>1. /\ 0 \in 0 .. Size /\ resp \in Response /\ applied \in 0 .. Size
        /\ wrapped \in BOOLEAN /\ failed \in BOOLEAN
    BY PipelineAssumption DEF FieldsOK, TypeOK
  <2>2. CASE UNCHANGED vars
    BY <2>1, <2>2 DEF vars, TypeOK, NothingYet
  <2>3. CASE Next /\ step \notin {"handler", "close"}
    <3>1. applied = 0 /\ resp.status = 0 /\ failed = FALSE
      BY <2>3, Middle DEF NothingYet, Unanswered
    <3> QED
      BY <2>1, <2>3, <3>1, Middle DEF NothingYet, Unanswered, Steps
  <2>4. CASE Next /\ step = "handler"
    <3>1. applied = 0 /\ resp.status = 0 /\ failed = FALSE
      BY <2>4 DEF NothingYet, Unanswered
    <3> QED
      BY <2>1, <2>4, <3>1, Handled DEF NothingYet, Unanswered, Steps
  <2>5. CASE Next /\ step = "close"
    BY <2>1, <2>5, Closing DEF NothingYet, Unanswered, Steps
  <2> QED
    BY <2>2, <2>3, <2>4, <2>5
<1>4. TypeOK'
  <2>1. req'.body \in Seq({"gzip", "rsa"})
    BY <1>2 DEF Wrappings
  <2>2. resp'.status \in {0, 200, 400, 401, 404, 415, 500}
    BY <1>3 DEF Response
  <2>3. key' \in Keys /\ private' \in BOOLEAN /\ fromAgent' \in BOOLEAN
    BY <1>1 DEF TypeOK
  <2> QED
    BY <1>2, <1>3, <2>1, <2>2, <2>3 DEF TypeOK
<1> QED
  BY <1>1, <1>3, <1>4 DEF FieldsOK, NoBody

\* The layers come off in the order of the middleware, each with its check.
LEMMA LayersNext ==
  ASSUME TypeOK, FieldsOK, NothingYet, LayersOK, [Next]_vars
  PROVE  LayersOK'
<1>1. /\ UNCHANGED <<key, private, wire>>
      /\ req'.hash = req.hash /\ req'.route = req.route /\ req'.type = req.type
  BY RequestStays
<1>2. CASE UNCHANGED vars
  BY <1>2 DEF vars, LayersOK, Authentic, Opened, TypeAllowed, NoBody
<1>3. CASE step' \in {"close", "done", "aborted"}
  BY <1>3 DEF LayersOK
<1>4. CASE Next /\ step' \in Unanswered
  <2>1. step \in {"gunzip", "wrap", "hash", "decrypt", "route"}
    BY <1>4, Middle, Handled, Closing DEF Unanswered
  <2>2. \/ WithRequestCompress \/ WithResponseCompress \/ WithHashedRequest
        \/ WithDecrypt \/ Routing
    BY <1>4, <2>1
       DEF Next, UpdateMetrics, UpdateMetricsBatch, UpdateByPath, GetByPath, GetMetrics,
           InvalidMetricHandler, GetInfo, Ping, Handling, Close, After
  <2>3. CASE WithRequestCompress
    <3>1. step = "gunzip" /\ step' = "wrap"
      BY <1>4, <2>3 DEF WithRequestCompress, Pass, Refuse, Unanswered
    <3>2. \/ req' = req
          \/ Outermost("gzip") /\ req'.body = Tail(req.body)
      <4>1. \/ req' = req
            \/ Outermost("gzip") /\ req' = [req EXCEPT !.body = Tail(@)]
        BY <1>4, <2>3 DEF WithRequestCompress, Pass, Refuse, Unanswered
      <4> QED
        BY <4>1 DEF FieldsOK, Request
    <3>3. req.body = wire
      BY <3>1 DEF LayersOK
    <3>4. req'.body \in {wire, Unzipped(wire)}
      BY <3>2, <3>3 DEF Outermost, Unzipped
    <3> QED
      BY <1>1, <3>1, <3>4 DEF LayersOK
  <2>4. CASE WithResponseCompress
    BY <1>1, <2>4 DEF WithResponseCompress, After, LayersOK
  <2>5. CASE WithHashedRequest
    <3>1. step = "hash" /\ step' = "decrypt" /\ req' = req /\ Authentic(req.body)
      BY <1>4, <2>5 DEF WithHashedRequest, HashMatches, Pass, Refuse, Authentic, Unanswered
    <3> QED
      BY <1>1, <3>1 DEF LayersOK, Authentic
  <2>6. CASE WithDecrypt
    <3>1. step = "decrypt" /\ step' = "route"
      BY <1>4, <2>6 DEF WithDecrypt, Pass, Refuse, Abort, Unanswered
    <3>2. \/ req' = req
          \/ private /\ Outermost("rsa") /\ req'.body = Tail(req.body)
      <4>1. \/ req' = req
            \/ private /\ Outermost("rsa")
        BY <1>4, <2>6 DEF WithDecrypt, Pass, Refuse, Abort, Unanswered
      <4>2. req' # req => req'.body = Tail(req.body)
        BY RequestStays
      <4> QED
        BY <4>1, <4>2
    <3>3. PICK b \in {wire, Unzipped(wire)} : b = req.body /\ Authentic(b)
      BY <3>1 DEF LayersOK
    <3>4. Authentic(b)' /\ Opened(b)'
      BY <1>1, <3>2, <3>3 DEF Authentic, Opened, Outermost
    <3>5. b \in {wire', Unzipped(wire')}
      BY <1>1, <3>3
    <3>6. \E c \in {wire', Unzipped(wire')} : Authentic(c)' /\ Opened(c)'
      BY <3>4, <3>5
    <3> QED
      BY <3>1, <3>6 DEF LayersOK
  <2>7. CASE Routing
    <3>1. step = "route" /\ step' = "handler" /\ req' = req /\ TypeAllowed
      BY <1>4, <2>7 DEF Routing, Pass, Refuse, Unanswered
    <3>2. \E b \in {wire, Unzipped(wire)} : Authentic(b) /\ Opened(b)
      BY <3>1 DEF LayersOK
    <3> QED
      BY <1>1, <3>1, <3>2 DEF LayersOK, Authentic, Opened, TypeAllowed, NoBody
  <2> QED
    BY <2>2, <2>3, <2>4, <2>5, <2>6, <2>7
<1> QED
  BY <1>2, <1>3, <1>4, FieldsNext DEF TypeOK, Steps, Unanswered

\* A body that decodes has all its layers off, one by one.
LEMMA LayersOff ==
  ASSUME TypeOK, FieldsOK, LayersOK, step = "handler", req.body = <<>>
  PROVE  /\ req.hash # Unsigned => req.hash = [of |-> Unzipped(wire), under |-> key]
         /\ Unzipped(wire) \in {<<>>, <<"rsa">>}
         /\ "rsa" \in {wire[i] : i \in DOMAIN wire} => private
         /\ req.route \in JsonRoute => req.type = "json"
<1>1. PICK b \in {wire, Unzipped(wire)} : Authentic(b) /\ Opened(b)
  BY DEF LayersOK
<1>2. wire \in Wrappings /\ b \in Wrappings
  BY <1>1, Layers DEF FieldsOK
<1>3. b = <<>> \/ (private /\ b = <<"rsa">>)
  BY <1>1, <1>2, OneLayer DEF Opened
<1>4. b = Unzipped(wire)
  BY <1>1, <1>3, Layers
<1>5. "rsa" \in {wire[i] : i \in DOMAIN wire} => private
  BY <1>2, <1>3, <1>4, RsaBelow
<1> QED
  BY <1>1, <1>3, <1>4, <1>5 DEF Authentic, LayersOK, TypeAllowed, NoBody

LEMMA CheckedNext ==
  ASSUME TypeOK, FieldsOK, NothingYet, LayersOK, ChangesAreChecked, EffectInv, [Next]_vars
  PROVE  ChangesAreChecked' /\ EffectInv'
<1>1. /\ UNCHANGED <<key, private, wire>>
      /\ req'.hash = req.hash /\ req'.route = req.route /\ req'.type = req.type
      /\ req'.metrics = req.metrics
  BY RequestStays
<1>2. CASE UNCHANGED vars
  BY <1>2 DEF vars, storeVars, ChangesAreChecked, EffectInv
<1>3. CASE Next /\ step \notin {"handler", "close"}
  <2>1. applied = 0 /\ failed = FALSE
    BY <1>3, Middle DEF NothingYet, Unanswered
  <2>2. applied' = 0 /\ failed' = FALSE
    BY <1>3, <2>1, Middle
  <2> QED
    BY <2>2 DEF ChangesAreChecked, EffectInv
<1>4. CASE Next /\ step = "handler"
  <2>1. applied' = 0 \/ req.body = <<>>
    BY <1>4, Handled
  <2>2. ChangesAreChecked'
    BY <1>1, <1>4, <2>1, LayersOff DEF ChangesAreChecked
  <2>3. EffectInv'
    <3>1. CASE applied' = 0 /\ failed' = FALSE
      BY <3>1 DEF EffectInv
    <3>2. CASE step' = "aborted"
      BY <3>2 DEF EffectInv
    <3>3. CASE /\ applied' = Len(req.metrics)
               /\ IF failed' /\ req.route = "/updates" THEN resp'.status = 400
                                                      ELSE resp'.status \in {0, 200}
      BY <1>1, <3>3 DEF EffectInv
    <3> QED
      BY <1>4, <3>1, <3>2, <3>3, Handled
  <2> QED
    BY <2>2, <2>3
<1>5. CASE Next /\ step = "close"
  <2>1. /\ UNCHANGED <<applied, failed>>
        /\ resp'.status = IF resp.status = 0 THEN 200 ELSE resp.status
    BY <1>5, Closing
  <2> QED
    BY <1>1, <1>5, <2>1 DEF ChangesAreChecked, EffectInv
<1> QED
  BY <1>2, <1>3, <1>4, <1>5

\* What a refusal by the middleware leaves behind.
LEMMA Refused ==
  ASSUME TypeOK, FieldsOK, resp.status = 0, NEW status \in {400, 401, 404, 415}, Refuse(status)
  PROVE  resp'.status = status /\ step' = "close" /\ UNCHANGED <<applied, failed>>
  BY Answers

\* An agent's request goes through the pipeline as its body and its signature
\* say: the middleware lets it pass, except for a signature by another key or
\* over an encrypted body, an encrypted body without a private key, and the
\* content type of what has been decrypted.
LEMMA AgentNext ==
  ASSUME TypeOK, FieldsOK, NothingYet, AgentInv, [Next]_vars
  PROVE  AgentInv'
<1> SUFFICES ASSUME fromAgent PROVE AgentInv'
  BY RequestStays DEF AgentInv
<1> DEFINE Far ==
      /\ step' \in {"gunzip", "wrap", "hash", "decrypt"} =>
           req'.body = wire /\ (wire # <<>> => req'.encrypted)
      /\ step' \in {"decrypt", "route", "handler"} => Understood \/ wire # <<>>
      /\ step' = "handler" => Understood
      /\ step' \in {"close", "done", "aborted"} =>
           IF Understood
             THEN /\ step' # "aborted" /\ applied' = Len(req.metrics)
                  /\ resp'.status = IF failed' /\ req.route = "/updates" THEN 400 ELSE 200
             ELSE applied' = 0 /\ (step' # "aborted" => resp'.status \in {401, 415})
      /\ wire = <<>> => ~req'.encrypted /\ req'.body = <<>>
<1>1. /\ UNCHANGED <<key, private, fromAgent, wire>>
      /\ req'.hash = req.hash /\ req'.route = req.route /\ req'.type = req.type
      /\ req'.metrics = req.metrics /\ req'.gzip = req.gzip
  BY RequestStays
<1>2. /\ req.route \in {"/update", "/updates"} /\ ~req.gzip
      /\ req.metrics # <<>> /\ \A i \in DOMAIN req.metrics : req.metrics[i] = "good"
      /\ wire \in {<<>>, <<"rsa">>}
      /\ req.hash = Unsigned \/ req.hash.of = <<>>
      /\ wire = <<>> => req.type = "json" /\ ~req.encrypted /\ req.body = <<>>
      /\ wire # <<>> => req.type = "octets"
  BY DEF AgentInv
<1>3. Understood' <=> Understood
  BY <1>1 DEF Understood
<1>4. SUFFICES Far
  BY <1>1, <1>2, <1>3 DEF AgentInv
<1>5. /\ step \in {"gunzip", "wrap", "hash", "decrypt"} =>
           req.body = wire /\ (wire # <<>> => req.encrypted)
      /\ step \in {"decrypt", "route", "handler"} => Understood \/ wire # <<>>
      /\ step = "handler" => Understood
      /\ step \in {"close", "done", "aborted"} =>
           IF Understood
             THEN /\ step # "aborted" /\ applied = Len(req.metrics)
                  /\ resp.status = IF failed /\ req.route = "/updates" THEN 400 ELSE 200
             ELSE applied = 0 /\ (step # "aborted" => resp.status \in {401, 415})
  BY DEF AgentInv
<1>6. step \in Unanswered => resp.status = 0 /\ applied = 0 /\ failed = FALSE
  BY DEF NothingYet
<1>7. <<"rsa">> # <<>> /\ Head(<<"rsa">>) = "rsa" /\ Tail(<<"rsa">>) = <<>>
  BY Layers
<1>8. CASE UNCHANGED vars
  BY <1>2, <1>5, <1>8 DEF vars, configVars, storeVars
<1>9. ASSUME NEW answer \in {401, 415}, step \in Unanswered, Refuse(answer), ~Understood,
             req' = req
      PROVE  Far
  <2>1. resp'.status = answer /\ step' = "close" /\ applied' = 0
    <3>1. resp.status = 0 /\ applied = 0
      BY <1>6, <1>9
    <3>2. resp'.status = answer /\ step' = "close" /\ UNCHANGED <<applied, failed>>
      BY <1>9, <3>1, Refused
    <3> QED
      BY <3>1, <3>2
  <2> QED
    BY <1>2, <1>9, <2>1
<1>10. CASE WithRequestCompress
  <2>1. step = "gunzip" /\ Pass("wrap", req)
    <3>1. step = "gunzip" /\ ~req.gzip
      BY <1>2, <1>10 DEF WithRequestCompress
    <3> QED
      BY <1>10, <3>1, Zenon DEF WithRequestCompress
  <2> QED
    BY <1>2, <1>5, <2>1 DEF Pass
<1>11. CASE WithResponseCompress
  BY <1>2, <1>5, <1>11 DEF WithResponseCompress, After
<1>12. CASE WithHashedRequest
  <2>1. step = "hash" /\ req.body = wire
    BY <1>5, <1>12 DEF WithHashedRequest
  <2>2. CASE req.hash = Unsigned \/ HashMatches
    <3>1. Pass("decrypt", req)
      BY <1>12, <2>2 DEF WithHashedRequest
    <3>2. Understood \/ wire # <<>>
      BY <2>1, <2>2 DEF Understood, HashMatches
    <3> QED
      BY <1>2, <1>5, <2>1, <3>1, <3>2 DEF Pass
  <2>3. CASE ~(req.hash = Unsigned \/ HashMatches)
    <3>1. Refuse(401) /\ req' = req
      BY <1>12, <2>3 DEF WithHashedRequest, Refuse
    <3>2. ~Understood
      BY <2>1, <2>3 DEF Understood, HashMatches
    <3> QED
      BY <1>9, <2>1, <3>1, <3>2 DEF Unanswered
  <2> QED
    BY <2>2, <2>3
<1>13. CASE WithDecrypt
  <2>1. step = "decrypt" /\ req.body = wire /\ (Understood \/ wire # <<>>)
    BY <1>5, <1>13 DEF WithDecrypt
  <2>2. CASE wire = <<>>
    <3>1. Pass("route", req)
      BY <1>2, <1>13, <2>2 DEF WithDecrypt
    <3> QED
      BY <1>2, <2>1, <2>2, <3>1 DEF Pass
  <2>3. CASE wire # <<>>
    <3>1. req.encrypted /\ Outermost("rsa") /\ ~Understood
      BY <1>2, <1>5, <1>7, <2>1, <2>3 DEF Outermost, Understood
    <3>2. CASE private
      <4>1. step' = "route"
        BY <1>13, <3>1, <3>2 DEF WithDecrypt, Pass
      <4> QED
        BY <2>3, <4>1
    <3>3. CASE ~private
      <4>1. Abort
        BY <1>13, <3>1, <3>3 DEF WithDecrypt
      <4> QED
        BY <1>6, <2>1, <2>3, <3>1, <4>1 DEF Abort, Unanswered, storeVars
    <3> QED
      BY <3>2, <3>3
  <2> QED
    BY <2>2, <2>3
<1>14. CASE Routing
  <2>1. step = "route" /\ req.route # "unknown" /\ ~NoBody
    BY <1>2, <1>14 DEF Routing, NoBody, JsonRoute
  <2>2. CASE wire = <<>>
    <3>1. Pass("handler", req)
      BY <1>2, <1>14, <2>1, <2>2 DEF Routing, TypeAllowed
    <3> QED
      BY <1>2, <1>5, <2>1, <2>2, <3>1 DEF Pass
  <2>3. CASE wire # <<>>
    <3>1. Refuse(415) /\ req' = req
      BY <1>2, <1>14, <2>1, <2>3 DEF Routing, TypeAllowed, Refuse
    <3> QED
      BY <1>9, <2>1, <2>3, <3>1 DEF Unanswered, Understood
  <2> QED
    BY <2>2, <2>3
<1>15. CASE Next /\ step = "handler"
  <2>1. Understood /\ req.body = <<>> /\ Decoded = req.metrics
    BY <1>2, <1>5, <1>15 DEF Understood, Decoded
  <2>2. resp.status = 0 /\ applied = 0 /\ failed = FALSE
    BY <1>6, <1>15 DEF Unanswered
  <2>3. OK.status = 200 /\ Written(Header(resp, 400)).status = 400
    BY <2>2, Answers
  <2>4. /\ Len(req.metrics) \in Nat /\ DOMAIN req.metrics = 1 .. Len(req.metrics)
        /\ Len(req.metrics) <= 1 => Len(req.metrics) = 1
    BY <1>2, BatchesAre DEF FieldsOK, Request
  <2>5. ASSUME NEW count \in Nat, Take(count)
        PROVE  applied' = count /\ failed' \in BOOLEAN
    <3>1. applied' = count
      BY <2>2, <2>5 DEF Take
    <3>2. failed' \in IF count > 0 THEN BOOLEAN ELSE {FALSE}
      BY <2>5 DEF Take
    <3> QED
      BY <3>1, <3>2
  <2>6. UpdateMetrics \/ UpdateMetricsBatch
    BY <1>2, <1>15
       DEF Next, WithRequestCompress, WithResponseCompress, WithHashedRequest, WithDecrypt,
           Routing, UpdateByPath, GetByPath, GetMetrics, InvalidMetricHandler, GetInfo, Ping,
           Handling, PathUpdate, PathRead, InvalidType, Close, After
  <2>7. CASE UpdateMetrics
    <3>0. req.route = "/update"
      BY <2>7 DEF UpdateMetrics, Handling
    <3>1. req.route = "/update" /\ Len(req.metrics) = 1
      <4>1. Len(req.metrics) <= 1
        BY <3>0 DEF FieldsOK
      <4> QED
        BY <2>4, <3>0, <4>1
    <3>2. Decoded # <<>> /\ Decoded # <<"unset">>
      BY <1>2, <2>1, <2>4, <3>1
    <3>3. Take(1) /\ Finish(OK)
      BY <2>7, <3>2 DEF UpdateMetrics
    <3>4. applied' = 1 /\ resp' = OK /\ step' = "close" /\ req' = req
      BY <2>5, <3>3 DEF Finish
    <3> QED
      BY <1>2, <2>1, <2>3, <3>1, <3>4
  <2>8. CASE UpdateMetricsBatch
    <3>1. req.route = "/updates"
      BY <2>8 DEF UpdateMetricsBatch, Handling
    <3>2. \A n : ~FirstUnset(n)
      BY <1>2, <2>1 DEF FirstUnset
    <3>3. Take(Len(req.metrics)) /\ Finish(BatchAnswer(failed'))
      BY <2>1, <2>8, <3>2 DEF UpdateMetricsBatch
    <3>4. /\ applied' = Len(req.metrics) /\ failed' \in BOOLEAN
          /\ resp' = BatchAnswer(failed') /\ step' = "close" /\ req' = req
      BY <2>4, <2>5, <3>3 DEF Finish
    <3>5. resp'.status = IF failed' THEN 400 ELSE 200
      <4>1. CASE failed'
        BY <2>3, <3>4, <4>1 DEF BatchAnswer
      <4>2. CASE ~failed'
        BY <2>3, <3>4, <4>2 DEF BatchAnswer
      <4> QED
        BY <4>1, <4>2
    <3> QED
      BY <1>2, <2>1, <3>1, <3>4, <3>5
  <2> QED
    BY <2>6, <2>7, <2>8
<1>16. CASE Next /\ step = "close"
  <2>1. /\ step' = "done" /\ UNCHANGED <<req, applied, failed>>
        /\ resp'.status = IF resp.status = 0 THEN 200 ELSE resp.status
    BY <1>16, Closing
  <2>2. resp.status \in {200, 400, 401, 415}
    BY <1>5, <1>16
  <2>3. resp'.status = resp.status
    BY <2>1, <2>2
  <2> QED
    BY <1>2, <1>5, <1>16, <2>1, <2>3
<1>17. CASE Next /\ step \notin {"handler", "close"}
  <2>1. \/ WithRequestCompress \/ WithResponseCompress \/ WithHashedRequest
        \/ WithDecrypt \/ Routing
    BY <1>17
       DEF Next, UpdateMetrics, UpdateMetricsBatch, UpdateByPath, GetByPath, GetMetrics,
           InvalidMetricHandler, GetInfo, Ping, Handling, Close, After
  <2> QED
    BY <1>10, <1>11, <1>12, <1>13, <1>14, <2>1
<1> HIDE DEF Far
<1> QED
  BY <1>8, <1>15, <1>16, <1>17

\* A step keeps every part of the invariant.
LEMMA PipelineNext == PipelineInv /\ [Next]_vars => PipelineInv'
  BY FieldsNext, LayersNext, CheckedNext, AgentNext DEF PipelineInv

\* The invariant of the pipeline holds in every state of Spec.
THEOREM Invariance == Spec => []PipelineInv
<1>1. Init => PipelineInv
  BY InitPipelineInv
<1>2. PipelineInv /\ [Next]_vars => PipelineInv'
  BY PipelineNext
<1> QED
  BY <1>1, <1>2, PTL DEF Spec

\* The variables of router.Metric's model keep their types, and nothing has
\* been answered before a handler or a middleware has answered.
THEOREM TypeCorrect == Spec => []TypeOK
<1>1. PipelineInv => TypeOK
  BY DEF PipelineInv
<1> QED
  BY <1>1, Invariance, PTL

\* No request changes the store unless its signature, its encryption and its
\* content type passed their checks, in the order of the middleware of
\* router.Metric: for any keys and any wrappings of the body.
THEOREM ChangesChecked == Spec => []ChangesAreChecked
<1>1. PipelineInv => ChangesAreChecked
  BY DEF PipelineInv
<1> QED
  BY <1>1, Invariance, PTL

\* Whatever the route, the wrappings and the size of the batch: a request that
\* is answered was applied as a whole or not at all, and an error is answered
\* for applied metrics exactly by UpdateMetricsBatch when the store returned one.
THEOREM AnswersTellEffect == Spec => []AnswerTellsEffect
<1>1. PipelineInv => AnswerTellsEffect
  BY DEF PipelineInv, EffectInv, AnswerTellsEffect
<1> QED
  BY <1>1, Invariance, PTL

\* The updates of HTTPClient.sendRequest arrive, all of them, exactly when they
\* are not encrypted and are signed with the server's key or not at all.
THEOREM AgentArrives == Spec => []AgentUnderstood
<1>1. PipelineInv => AgentUnderstood
  BY DEF PipelineInv, AgentInv, AgentUnderstood, Understood
<1> QED
  BY <1>1, Invariance, PTL

-----------------------------------------------------------------------------
(* Both entries.                                                           *)

\* A batch without wrappings, signature and headers passes the middleware.
LEMMA BareNext ==
  ASSUME PipelineInv, BareInv, [Next]_vars
  PROVE  BareInv'
<1> SUFFICES ASSUME Bare'
             PROVE  /\ step' \in {"close", "done"} => applied' = Len(req'.metrics)
                    /\ step' = "aborted" => /\ applied' < Len(req'.metrics)
                                            /\ req'.metrics[applied' + 1] = "unset"
  BY DEF BareInv
<1> USE DEF PipelineInv
<1>1. req' = req /\ wire' = wire /\ req.body = <<>>
  <2>1. wire' = wire /\ wire = <<>>
    BY RequestStays DEF Bare
  <2>2. Len(req.body) <= 0 /\ req.body \in Wrappings
    BY <2>1 DEF TypeOK, Wrappings
  <2>3. req.body = <<>>
    BY <2>2 DEF Wrappings
  <2> QED
    BY <2>1, <2>3, RequestStays
<1>2. Bare
  BY <1>1 DEF Bare
<1>3. /\ req.route = "/updates" /\ req.hash = Unsigned
      /\ req.type = "json" /\ ~req.gzip /\ ~req.encrypted
  BY <1>2 DEF Bare
<1>4. CASE UNCHANGED vars
  BY <1>1, <1>2, <1>4 DEF vars, BareInv
<1>5. CASE Next /\ step \notin {"handler", "close"}
  <2>1. \/ WithRequestCompress \/ WithResponseCompress \/ WithHashedRequest
        \/ WithDecrypt \/ Routing
    BY <1>5
       DEF Next, UpdateMetrics, UpdateMetricsBatch, UpdateByPath, GetByPath, GetMetrics,
           InvalidMetricHandler, GetInfo, Ping, Handling, Close, After
  <2>2. step' \in {"wrap", "hash", "decrypt", "route", "handler"}
    <3>1. CASE WithRequestCompress
      BY <1>3, <3>1 DEF WithRequestCompress, Pass
    <3>2. CASE WithResponseCompress
      BY <3>2 DEF WithResponseCompress, After
    <3>3. CASE WithHashedRequest
      BY <1>3, <3>3 DEF WithHashedRequest, Pass
    <3>4. CASE WithDecrypt
      BY <1>3, <3>4 DEF WithDecrypt, Pass
    <3>5. CASE Routing
      BY <1>3, <3>5 DEF Routing, TypeAllowed, Pass
    <3> QED
      BY <2>1, <3>1, <3>2, <3>3, <3>4, <3>5
  <2> QED
    BY <2>2
<1>6. CASE Next /\ step = "handler"
  <2>1. applied = 0 /\ Decoded = req.metrics
    BY <1>1, <1>6 DEF NothingYet, Unanswered, Decoded
  <2>2. Len(req.metrics) \in Nat /\ DOMAIN req.metrics = 1 .. Len(req.metrics)
    BY BatchesAre DEF FieldsOK, Request
  <2>3. UpdateMetricsBatch
    BY <1>3, <1>6
       DEF Next, WithRequestCompress, WithResponseCompress, WithHashedRequest, WithDecrypt,
           Routing, UpdateMetrics, UpdateByPath, GetByPath, GetMetrics,
           InvalidMetricHandler, GetInfo, Ping, Handling, PathUpdate, PathRead, InvalidType,
           Close, After
  <2>4. CASE \E n \in DOMAIN Decoded : FirstUnset(n) /\ PanicAfter(n - 1)
    <3>1. PICK n \in DOMAIN req.metrics : FirstUnset(n) /\ PanicAfter(n - 1)
      BY <2>1, <2>4
    <3>2. n \in 1 .. Len(req.metrics) /\ req.metrics[n] = "unset"
      BY <2>1, <2>2, <3>1 DEF FirstUnset
    <3>3. applied' = n - 1 /\ step' = "aborted"
      BY <2>1, <3>1, <3>2 DEF PanicAfter, Take
    <3>4. applied' < Len(req.metrics) /\ applied' + 1 = n
      BY <2>2, <3>2, <3>3
    <3> QED
      BY <1>1, <3>2, <3>3, <3>4
  <2>5. CASE Take(Len(Decoded)) /\ Finish(BatchAnswer(failed'))
    BY <1>1, <2>1, <2>2, <2>5 DEF Take, Finish
  <2> QED
    BY <2>3, <2>4, <2>5 DEF UpdateMetricsBatch
<1>7. CASE Next /\ step = "close"
  BY <1>1, <1>2, <1>7, Closing DEF BareInv
<1> QED
  BY <1>4, <1>5, <1>6, <1>7

\* A request that has been answered, or has broken its connection, is over.
LEMMA AnsweredIsOver == Next => ~Answered
  BY DEF Next, WithRequestCompress, WithResponseCompress, WithHashedRequest, WithDecrypt,
         Routing, UpdateMetrics, UpdateMetricsBatch, UpdateByPath, GetByPath, GetMetrics,
         InvalidMetricHandler, GetInfo, Ping, Handling, Close, After, Answered

\* A step of the call, or of the client that makes it, keeps its invariant.
LEMMA RpcNext ==
  ASSUME FieldsOK, RpcInv, SendByRpc \/ Rpc!Next, UNCHANGED vars
  PROVE  RpcInv'
<1>1. /\ Answered' <=> Answered
      /\ Bare' <=> Bare
      /\ req' = req
  BY DEF vars, configVars, Answered, Bare
<1>2. taken \in Nat /\ taken <= Len(batch) /\ batch \in Batches /\ Len(batch) \in Nat
  BY BatchesAre DEF RpcInv
<1>3. CASE SendByRpc
  <2>1. /\ Answered /\ Bare /\ at = "none" /\ taken = 0
        /\ at' = "client" /\ batch' = req.metrics /\ UNCHANGED taken
    BY <1>3 DEF SendByRpc, Rpc!Call, RpcInv
  <2>2. req.metrics \in Batches /\ Len(req.metrics) \in Nat
    BY BatchesAre DEF FieldsOK, Request
  <2> QED
    BY <1>1, <2>1, <2>2 DEF RpcInv
<1>4. CASE Rpc!Next
  <2>1. /\ UNCHANGED batch /\ at # "none" /\ at' # "none"
    BY <1>4 DEF Rpc!Next, Rpc!Send, Rpc!Intercept, Rpc!UpdateMetric, Rpc!UpdateMetricFails,
                Rpc!RefuseMetric, Rpc!Answer, Rpc!More, Rpc!Goto, Rpc!End, Rpc!callVars
  <2>2. Answered' /\ Bare' /\ batch' = req'.metrics
    BY <1>1, <2>1 DEF RpcInv
  <2>3. CASE Rpc!Send \/ Rpc!Intercept
    <3>1. UNCHANGED <<taken, batch>> /\ taken = 0
      BY <2>3 DEF RpcInv, Rpc!Send, Rpc!Intercept, Rpc!Goto, Rpc!End, Rpc!callVars
    <3>2. \/ at' \in {"interceptor", "service"}
          \/ at' = "done" /\ code' \in {"PermissionDenied", "Unsent"}
      BY <2>3 DEF Rpc!Send, Rpc!Intercept, Rpc!Goto, Rpc!End
    <3> QED
      BY <1>2, <2>2, <3>1, <3>2 DEF RpcInv
  <2>4. CASE Rpc!UpdateMetric \/ Rpc!UpdateMetricFails
    <3>1. /\ taken < Len(batch) /\ taken' = taken + 1 /\ UNCHANGED batch
          /\ \/ at' = "service"
             \/ at' = "done" /\ code' = "Internal"
      BY <2>1, <2>4 DEF Rpc!UpdateMetric, Rpc!UpdateMetricFails, Rpc!More
    <3>2. taken' \in Nat /\ taken' <= Len(batch) /\ taken' > 0
      BY <1>2, <3>1
    <3> QED
      BY <1>2, <2>2, <3>1, <3>2 DEF RpcInv
  <2>5. CASE Rpc!RefuseMetric
    <3>1. /\ at' = "done" /\ code' = "InvalidArgument" /\ taken < Len(batch)
          /\ ~Rpc!Valid(batch[taken + 1]) /\ UNCHANGED <<batch, taken>>
      BY <2>5 DEF Rpc!RefuseMetric, Rpc!More, Rpc!End, Rpc!callVars
    <3>2. ~Rpc!Valid(batch[taken + 1])'
      BY <3>1 DEF Rpc!Valid
    <3> QED
      BY <1>2, <2>2, <3>1, <3>2 DEF RpcInv
  <2>6. CASE Rpc!Answer
    <3>1. at' = "done" /\ code' = "OK" /\ taken = Len(batch) /\ UNCHANGED <<batch, taken>>
      BY <2>6 DEF Rpc!Answer, Rpc!End, Rpc!callVars
    <3> QED
      BY <1>2, <2>2, <3>1 DEF RpcInv
  <2> QED
    BY <1>4, <2>3, <2>4, <2>5, <2>6 DEF Rpc!Next
<1> QED
  BY <1>3, <1>4

\* Once the call has begun, the request is over and only the call goes on.
LEMMA EntriesNext ==
  ASSUME EntriesInv, [NextEntries]_allVars
  PROVE  EntriesInv'
<1> USE DEF EntriesInv
<1>1. [Next]_vars
  BY DEF NextEntries, allVars
<1>2. PipelineInv' /\ BareInv'
  BY <1>1, PipelineNext, BareNext
<1>3. RpcInv'
  <2>1. CASE (SendByRpc \/ Rpc!Next) /\ UNCHANGED vars
    BY <2>1, RpcNext DEF PipelineInv
  <2>2. CASE UNCHANGED rpcVars /\ Next
    <3>1. UNCHANGED <<at, taken, batch>> /\ at = "none"
      BY <2>2, AnsweredIsOver DEF RpcInv, rpcVars
    <3> QED
      BY <3>1 DEF RpcInv
  <2>3. CASE UNCHANGED allVars
    BY <2>3 DEF allVars, vars, configVars, rpcVars, RpcInv, Answered, Bare, Rpc!Valid
  <2> QED
    BY <2>1, <2>2, <2>3 DEF NextEntries
<1> QED
  BY <1>2, <1>3

\* The invariant of both entries holds in every state of SpecEntries.
THEOREM EntriesInvariance == SpecEntries => []EntriesInv
<1>1. InitEntries => EntriesInv
  <2> SUFFICES ASSUME InitEntries PROVE EntriesInv
    OBVIOUS
  <2>1. PipelineInv
    BY InitPipelineInv DEF InitEntries
  <2>2. BareInv
    BY DEF InitEntries, Init, BareInv
  <2>3. RpcInv
    BY BatchesAre DEF InitEntries, Rpc!Init, RpcInv
  <2> QED
    BY <2>1, <2>2, <2>3 DEF EntriesInv
<1>2. EntriesInv /\ [NextEntries]_allVars => EntriesInv'
  BY EntriesNext
<1> QED
  BY <1>1, <1>2, PTL DEF SpecEntries

\* What the batch handler and the gRPC service make of the same batch, of any
\* size, with odd metrics anywhere in it: each store has a first part of it, and
\* the metric at which the shorter part ends says why it is shorter.
THEOREM EntriesAgree == SpecEntries => []TransportsAgree
<1>1. EntriesInv => TransportsAgree
  <2> SUFFICES ASSUME EntriesInv, at = "done" PROVE TransportsAgree
    BY DEF TransportsAgree
  <2>1. Answered /\ Bare /\ batch = req.metrics /\ RpcInv /\ BareInv /\ TypeOK
    BY DEF EntriesInv, RpcInv, PipelineInv
  <2>2. /\ taken \in Nat /\ taken <= Len(batch) /\ applied \in Nat /\ Len(batch) \in Nat
        /\ \A i \in 1 .. Len(batch) : batch[i] \in Kind
    BY <2>1, BatchesAre DEF RpcInv, TypeOK
  <2>3. \/ step = "done" /\ applied = Len(batch)
        \/ step = "aborted" /\ applied < Len(batch) /\ batch[applied + 1] = "unset"
    BY <2>1 DEF BareInv, Answered
  <2>4. CASE code = "InvalidArgument" /\ taken < Len(batch) /\ ~Rpc!Valid(batch[taken + 1])
    <3>1. batch[taken + 1] \in Kind
      BY <2>2, <2>4
    <3>2. batch[taken + 1] \in {"noid", "unknown"}
      BY <2>4, <3>1 DEF Rpc!Valid, Kind
    <3> QED
      BY <2>2, <2>3, <2>4, <3>2 DEF TransportsAgree
  <2>5. CASE \/ code = "OK" /\ taken = Len(batch)
             \/ code = "Internal" /\ taken > 0
             \/ code \in {"PermissionDenied", "Unsent"} /\ taken = 0
    BY <2>2, <2>3, <2>5 DEF TransportsAgree
  <2> QED
    BY <2>1, <2>4, <2>5 DEF RpcInv
<1> QED
  BY <1>1, EntriesInvariance, PTL
=============================================================================
