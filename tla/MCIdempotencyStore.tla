--------------------------- MODULE MCIdempotencyStore ---------------------------
(***************************************************************************)
(* One slot shared by an Enroll, the same Enroll from a worker without the *)
(* canonical hash, and a Grant that reuses the key; and a second slot of   *)
(* the same owner.                                                         *)
(***************************************************************************)
EXTENDS IdempotencyStore, TLC

CONSTANTS c1, c2, c3

In(key, command, canonical, hash) ==
  [owner |-> "agent", key |-> key, command |-> command, canonical |-> canonical, hash |-> hash]

MCCalls == {c1, c2, c3}

Enroll      == In("k1", "enroll", "r1", "r1a")
OlderEnroll == In("k1", "enroll", None, "r1a")
ReusedKey   == In("k1", "grant",  "r2", "r2a")
OtherKey    == In("k2", "enroll", "r1", "r1b")

MCInputs == {Enroll, OlderEnroll, ReusedKey, OtherKey}

\* The calls are interchangeable, so not every call needs every input.
MCRequestsOf == (c1 :> {Enroll}) @@ (c2 :> {Enroll, OlderEnroll, OtherKey})
                  @@ (c3 :> {Enroll, ReusedKey})
================================================================================
