------------------------------- MODULE Int64 -------------------------------
(***************************************************************************)
(* Signed machine words.  Go's int64 addition is exact modulo 2^64 and its *)
(* result is the representative in -2^63 .. 2^63-1.  The width is a        *)
(* parameter, so that a check reaches the overflow with small numbers:     *)
(* Half stands for 2^63.                                                   *)
(***************************************************************************)
EXTENDS Integers

CONSTANT Half

ASSUME HalfAssumption == Half \in Nat \ {0}

Word == -Half .. Half - 1

\* x + y on words; the exact sum of two words is off by at most one modulus.
AddWord(x, y) ==
  LET sum == x + y
  IN  IF sum >= Half THEN sum - 2 * Half
      ELSE IF sum < -Half THEN sum + 2 * Half
      ELSE sum
=============================================================================
