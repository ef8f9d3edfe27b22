------------------------------ MODULE MCReplayGuard ------------------------------
(***************************************************************************)
(* An assertion, a second one under the same jti that is issued later, one *)
(* of another jti that outlives both, one whose lifetime is too long, and  *)
(* one whose record would expire past the end of int64, cut down to 7.     *)
(***************************************************************************)
EXTENDS ReplayGuard, TLC

CONSTANTS c1, c2, c3, x, y

MCCalls == {c1, c2, c3}

Assertion(key, issuedAt, expiresAt) ==
  [key |-> key, issuedAt |-> issuedAt, expiresAt |-> expiresAt]

MCAssertions ==
  {Assertion(x, 0, 1), Assertion(x, 1, 3), Assertion(y, 2, 5), Assertion(y, 0, 5), Assertion(x, 4, 6)}

Symmetry == Permutations(MCCalls)
================================================================================
