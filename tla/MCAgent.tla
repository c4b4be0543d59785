------------------------------ MODULE MCAgent ------------------------------
(* Small instances of Agent for TLC.                                       *)
EXTENDS Agent

CONSTANTS s1, s2

MCSenders == {s1, s2}
=============================================================================
