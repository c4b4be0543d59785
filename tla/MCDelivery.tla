---------------------------- MODULE MCDelivery ----------------------------
(* Small instances of Delivery for TLC.                                    *)
EXTENDS Delivery, TLC

CONSTANTS s1, s2

MCTwoSenders == {s1, s2}
MCProtocols == {"http", "grpc"}
MCBodies == {<<"gauge">>, <<"gauge", "counter">>}

\* For safety only.
MCSymmetry == Permutations(MCTwoSenders)
=============================================================================
