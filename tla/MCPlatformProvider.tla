--------------------------- MODULE MCPlatformProvider ---------------------------
(***************************************************************************)
(* One Service: one call creates; the other finds, creates or signs claims *)
(* of its own or of another Service.  The Platform replaces its document   *)
(* twice, and forbids, allows or limits its reuse.                         *)
(***************************************************************************)
EXTENDS PlatformProvider, TLC

CONSTANTS c1, c2, s1, s2, j1, j2

Claims(audience, jti) ==
  [audience |-> audience, jti |-> jti, operation |-> "enroll", resource |-> None,
   lifetime |-> 60]
Ask(op) == [op |-> op, service |-> s1, claims |-> None]
Sign(audience, jti) == [op |-> "sign", service |-> s1, claims |-> Claims(audience, jti)]

MCRequests ==
  (c1 :> {Ask("getOrCreate")}) @@
  (c2 :> {Ask("find"), Ask("getOrCreate"), Sign(s1, j1), Sign(s2, j2)})

MCCacheControls ==
  {None, [store |-> TRUE, reuse |-> TRUE, maxAge |-> 1],
   [store |-> TRUE, reuse |-> FALSE, maxAge |-> 2],
   [store |-> FALSE, reuse |-> TRUE, maxAge |-> 2]}
================================================================================
