--------------------------- MODULE MCPlatformIdentity ---------------------------
(***************************************************************************)
(* Four calls at a Platform with two principals and a Service.  c1         *)
(* provisions for p1; c2 does so again under another key, provisions for   *)
(* p2, or signs; c3 repeats that signature, with another lifetime too,     *)
(* verifies what c2 signed, updates the lifecycle, or lists; c4 verifies   *)
(* what c2 or c3 signed, reads as the other principal, or reads the DID    *)
(* document.                                                               *)
(***************************************************************************)
EXTENDS PlatformIdentity

CONSTANTS c1, c2, c3, c4, p1, p2, s1, s2, d1, d2, k1, k2, j1, res

Provisions(principals, services, ks) ==
  [op : {"provision"}, principal : principals, service : services, key : ks]
SignRequests(principals, ids, ks, aops, resources, lifetimes) ==
  [op : {"sign"}, principal : principals, service : {s1}, key : ks, id : ids,
   aop : aops, jti : {j1}, resource : resources, lifetime : lifetimes, now : {None}]
VerifyRequests(services, ks, calls) ==
  [op : {"verify"}, principal : {s1}, service : services, key : ks, of : calls,
   aop : {"enroll"}, resource : {None}, now : {None, 0}]

MCRequests ==
  (c1 :> Provisions({p1}, {s1}, {k1})) @@
  (c2 :> Provisions({p1}, {s1}, {k2}) \cup Provisions({p2}, {s1}, {k1})
         \cup SignRequests({p1}, {1}, {k2}, {"enroll"}, {None}, {None})) @@
  (c3 :> SignRequests({p1}, {1}, {k2}, {"enroll"}, {None}, {None, 2})
         \cup VerifyRequests({s1}, {k2}, {c2})
         \cup [op : {"update"}, principal : {p1}, id : {1}, to : {"revoked"}]
         \cup [op : {"list"}, principal : {p1}, service : {s1}, status : {"active"},
               offset : {0}, limit : {1}, descending : BOOLEAN]) @@
  (c4 :> VerifyRequests({s1}, {k1}, {c2, c3})
         \cup [op : {"get"}, principal : {p2}, id : {1}]
         \cup [op : {"document"}, did : {d1}])

MCTransitions == {<<"active", "revoked">>, <<"revoked", "active">>}
================================================================================
