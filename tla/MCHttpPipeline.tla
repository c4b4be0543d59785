--------------------------- MODULE MCHttpPipeline ---------------------------
(* A small instance of HttpPipeline for TLC.                               *)
EXTENDS HttpPipeline

CONSTANT k

MCKeys == {k, NoKey}
MCBodies == {<<>>, <<"gzip">>, <<"rsa">>, <<"gzip", "rsa">>}
=============================================================================
