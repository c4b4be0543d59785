------------------------------ MODULE GrpcEntry ------------------------------
(***************************************************************************)
(* One call of the gRPC method UpdateMetrics: the request as GRPCClient    *)
(* builds it (internal/agent/grpc_client.go) or as any other client may,   *)
(* the interceptor of the trusted subnet and the handler                   *)
(* (internal/rpc).                                                         *)
(*                                                                         *)
(* A metric is "good", or lacks its value ("unset"), its name ("noid") or  *)
(* a known type ("unknown").                                               *)
(***************************************************************************)
EXTENDS Naturals, Sequences

VARIABLES
  subnet,    \* a trusted subnet is configured
  realIP,    \* the x-real-ip of the metadata, as seen from that subnet
  byAgent,   \* the call comes from GRPCClient
  batch,     \* the metrics of the request
  at,        \* "none", "client", "interceptor", "service", "done"
  taken,     \* how many of them the store has taken
  code       \* the status of the answer; "none" before, "Unsent" without a call

callVars == <<subnet, realIP, byAgent, batch>>
vars == <<subnet, realIP, byAgent, batch, at, taken, code>>

\* Before the call; the rest stands for nothing yet.
Init ==
  /\ subnet = FALSE /\ realIP = "missing" /\ byAgent = FALSE
  /\ batch = <<>> /\ at = "none" /\ taken = 0 /\ code = "none"

\* getOutboundIP of an agent: its address, in the subnet or not, or none.
OutboundIP == {"missing", "inside", "outside"}

\* A call with these metrics, by any client to any server.  withRealIP leaves
\* the address out when it cannot be found.
Call(metrics) ==
  /\ at = "none" /\ at' = "client"
  /\ batch' = metrics
  /\ subnet' \in BOOLEAN
  /\ \/ byAgent' = TRUE /\ realIP' \in OutboundIP
     \/ byAgent' = FALSE /\ realIP' \in OutboundIP \cup {"invalid"}
  /\ UNCHANGED <<taken, code>>

Goto(to) == at' = to /\ UNCHANGED <<callVars, taken, code>>

End(status) ==
  /\ at' = "done" /\ code' = status
  /\ UNCHANGED <<callVars, taken>>

Odd(kinds) == \E i \in DOMAIN batch : batch[i] \in kinds

\* transformMetricToProto returns an error, and nothing is sent; other clients
\* send whatever they like.
CanSend == byAgent => ~Odd({"unset", "unknown"})

Send == at = "client" /\ IF CanSend THEN Goto("interceptor") ELSE End("Unsent")

\* Without a subnet everybody passes; with one only a call that names an
\* address, and one inside.  An agent that cannot find its own names none.
Trusted == subnet => realIP = "inside"

Intercept ==
  /\ at = "interceptor"
  /\ IF Trusted THEN Goto("service") ELSE End("PermissionDenied")

\* metricFromProto; the value of a field that is not set is 0.
Valid(metric) == metric \in {"good", "unset"}

More == at = "service" /\ taken < Len(batch)

UpdateMetric ==
  /\ More /\ Valid(batch[taken + 1])
  /\ taken' = taken + 1
  /\ UNCHANGED <<callVars, at, code>>

\* The store has the metric, but returns the error of its row.
UpdateMetricFails ==
  /\ More /\ Valid(batch[taken + 1])
  /\ at' = "done" /\ code' = "Internal" /\ taken' = taken + 1
  /\ UNCHANGED callVars

\* Mutation: a metric is looked at when the store has it.
RefuseMetricTooLate ==
  /\ More /\ ~Valid(batch[taken + 1])
  /\ at' = "done" /\ code' = "InvalidArgument" /\ taken' = taken + 1
  /\ UNCHANGED callVars

RefuseMetric ==
  /\ More /\ ~Valid(batch[taken + 1])
  /\ End("InvalidArgument")

Answer ==
  /\ at = "service" /\ taken = Len(batch)
  /\ End("OK")

Next ==
  \/ Send \/ Intercept
  \/ UpdateMetric \/ UpdateMetricFails \/ RefuseMetric \/ Answer
=============================================================================
