------------------------------ MODULE MCAudit ------------------------------
(* Small instances of Audit for TLC.                                       *)
EXTENDS Audit

CONSTANTS r1, r2

MCRequests == {r1, r2}
MCPublishers == {<<>>, <<"file">>, <<"url">>, <<"file", "url">>}
=============================================================================
