------------------------------- MODULE Entries -------------------------------
(***************************************************************************)
(* The two ways a batch of metrics comes into the server, side by side:    *)
(* the HTTP pipeline and the gRPC service.  A client sends a request by    *)
(* HTTP; a batch without wrappings, signature or headers of its own it     *)
(* then sends again to a server of its own by gRPC, which knows none of    *)
(* these.                                                                  *)
(***************************************************************************)
EXTENDS HttpPipeline

VARIABLES subnet, realIP, byAgent, batch, at, taken, code

rpcVars == <<subnet, realIP, byAgent, batch, at, taken, code>>
allVars == <<vars, rpcVars>>

Rpc == INSTANCE GrpcEntry

InitEntries == Init /\ Rpc!Init

Answered == step \in {"done", "aborted"}

Bare ==
  /\ req.route = "/updates" /\ wire = <<>>
  /\ req.hash = Unsigned /\ req.type = "json"
  /\ ~req.gzip /\ ~req.encrypted

SendByRpc == Answered /\ Bare /\ Rpc!Call(req.metrics)

NextEntries ==
  \/ Next /\ UNCHANGED rpcVars
  \/ (SendByRpc \/ Rpc!Next) /\ UNCHANGED vars

SpecEntries == InitEntries /\ [][NextEntries]_allVars

-----------------------------------------------------------------------------
(* Properties.                                                             *)

\* The same batch by both ways: each store has a first part of it, all of it
\* where the entry accepts it, and one is ahead of the other only for a reason
\* that stands at the end of the shorter part.  HTTP is behind when it met a
\* metric without a value, which breaks the connection; gRPC reads it as 0.
\* gRPC is behind when it met a metric without a name or of an unknown type,
\* which HTTP stores under the empty name or as a counter; when the store
\* returned an error, after which HTTP goes on; or when the call never came to
\* the service.  Whatever follows such a metric is lost with it.
TransportsAgree ==
  at = "done" =>
    /\ step = "done" => applied = Len(batch)
    /\ code = "OK" => taken = Len(batch)
    /\ applied < taken => step = "aborted" /\ batch[applied + 1] = "unset"
    /\ taken < applied =>
         \/ code \in {"PermissionDenied", "Unsent"} /\ taken = 0
         \/ code = "InvalidArgument" /\ batch[taken + 1] \in {"noid", "unknown"}
         \/ code = "Internal" /\ taken > 0
=============================================================================
