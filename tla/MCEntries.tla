----------------------------- MODULE MCEntries -----------------------------
(* A small instance of Entries for TLC.                                    *)
EXTENDS Entries

CONSTANT k

MCKeys == {k, NoKey}
MCBodies == {<<>>, <<"gzip">>, <<"rsa">>, <<"gzip", "rsa">>}
=============================================================================
