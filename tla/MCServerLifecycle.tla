-------------------------- MODULE MCServerLifecycle --------------------------
(* A small instance of ServerLifecycle for TLC.                             *)
EXTENDS ServerLifecycle

CONSTANTS c1, c2

MCTwoCaptures == {c1, c2}
MCProtocols == {"http", "grpc"}
MCIntervals == {0, 1}
=============================================================================
