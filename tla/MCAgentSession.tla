----------------------------- MODULE MCAgentSession -----------------------------
(***************************************************************************)
(* Three calls from two sessions x and y of one Client.  c1 grants from x; *)
(* c2 enrolls or revokes everything from y; c3 waits or grants from y, or  *)
(* revokes: everything from y, under the key that c2 may have used, or     *)
(* one credential from x.  The Client has a provider of its own, with and  *)
(* without an identity saved earlier, or a Platform that has one for it.   *)
(***************************************************************************)
EXTENDS AgentSession, TLC

CONSTANTS c1, c2, c3, x, y, k1, k2, apikey, custom, i1, i2

Simple(op, session, key) ==
  [op |-> op, session |-> session, key |-> key, type |-> None, id |-> None]
Typed(op, session, key, type, id) ==
  [op |-> op, session |-> session, key |-> key, type |-> type, id |-> id]

MCRequests ==
  (c1 :> {Typed("grant", x, k2, apikey, None)}) @@
  (c2 :> {Simple("enroll", y, k1), Typed("revoke", y, k1, All, None)}) @@
  (c3 :> {Simple("wait", y, None), Typed("grant", y, k2, custom, None),
          Typed("revoke", y, k1, All, None), Typed("revoke", x, k1, apikey, 1)})

MCDecisions == {<<"pending", "active">>, <<"active", "suspended">>}

MCStarts ==
  {[provider |-> "own", provisioned |-> None, stored |-> None],
   [provider |-> "own", provisioned |-> None, stored |-> i1],
   [provider |-> "platform", provisioned |-> i1, stored |-> None]}
================================================================================
