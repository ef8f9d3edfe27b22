---------------------------- MODULE IdempotencyInput ----------------------------
(***************************************************************************)
(* IdempotencyInput of service/types.go and platform/types.go: who asks,   *)
(* under which key, for which command (or operation), and two hashes of    *)
(* the request.  "hash" is the hash of the request as it was encoded;      *)
(* "canonical" does not depend on the order of the members of nested       *)
(* objects, and is None in an input written by an older worker.            *)
(***************************************************************************)
CONSTANTS
  Inputs,   \* records [owner, key, command, canonical, hash]
  None

\* The map key of a record: the owner and its idempotency key, not the command.
Slot(input) == <<input.owner, input.key>>

Slots == {Slot(i) : i \in Inputs}

\* IdempotencyInput.Matches: canonical hashes when both have one, else the
\* published request hash.
Matches(stored, input) ==
  /\ stored.owner = input.owner
  /\ stored.command = input.command
  /\ stored.key = input.key
  /\ IF stored.canonical # None /\ input.canonical # None
     THEN stored.canonical = input.canonical
     ELSE stored.hash = input.hash
================================================================================
