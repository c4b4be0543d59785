--------------------------- MODULE MCPersistence ---------------------------
(* Small instances of Persistence for TLC.                                 *)
EXTENDS Persistence

CONSTANTS h1, h2

MCHandlers == {h1, h2}
MCIntervals == {-1, 0, 1}
MCSyncOnly == {0}
\* A "batch" request does what a "plain" one without NaN does.
MCRoutes == {"json", "plain"}
MCJSONOnly == {"json"}
=============================================================================
