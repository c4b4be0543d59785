---------------------------- MODULE MCMemStorage ----------------------------
(* A small instance of MemStorage for TLC.                                 *)
EXTENDS MemStorage

CONSTANTS p1, p2, p3, g, c, x, y

MCProcs == {p1, p2, p3}
MCGauges == {g}
MCCounters == {c}
MCValues == {x, y}
MCHalf == 2
MCDelta == {1}

\* A start after a restore: no gauge yet, and the counter at its limit.
MCRestored == {[gauges |-> [n \in MCGauges |-> Absent],
                counters |-> [n \in MCCounters |-> MCHalf - 1]]}
=============================================================================
