----------------------------- MODULE MCAgentCaches -----------------------------
(***************************************************************************)
(* Two Sessions of one Client: call c1 inspects from x or asks its OpenAPI *)
(* policy with revalidation; c2 asks the policy of y or reads a Service    *)
(* document.  The Service publishes one document or header more.           *)
(***************************************************************************)
EXTENDS AgentCaches, TLC

CONSTANTS c1, c2, x, y, dPlain, dLinked, dBad, dForeign, oOld, oNew, pGood

Ask2(op, s, again) == [op |-> op, session |-> s, revalidate |-> again, portable |-> TRUE]

MCRequests ==
  (c1 :> {Ask2("inspect", x, FALSE), Ask2("policy", x, TRUE)}) @@
  (c2 :> {Ask2("policy", y, FALSE), Ask2("document", y, FALSE),
          [op |-> "document", session |-> y, revalidate |-> FALSE, portable |-> FALSE]})

MCDocuments == {dPlain, dLinked, dBad, dForeign, oOld, oNew, pGood}

MCKind ==
  [d \in MCDocuments |->
     CASE d = dLinked -> "advertises"
       [] d \in {dBad} -> "invalid"
       [] d = dForeign -> "foreign"
       [] OTHER -> "plain"]

Brief == [store |-> TRUE, reuse |-> TRUE, maxAge |-> 1]
NoCache == [store |-> TRUE, reuse |-> FALSE, maxAge |-> 2]
NoStore == [store |-> FALSE, reuse |-> TRUE, maxAge |-> 2]
P(d, control) == [document |-> d, control |-> control]

MCPublications ==
  ("inspect" :> {P(dLinked, None), P(dLinked, Brief), P(dForeign, None)}) @@
  ("openapi" :> {P(oOld, None), P(oOld, NoCache), P(oNew, NoStore)}) @@
  ("portable" :> {P(pGood, None)})
MCFirst ==
  ("inspect" :> P(dLinked, None)) @@ ("openapi" :> P(oOld, None)) @@
  ("portable" :> P(pGood, None))
MCEarlier == {P(dPlain, None), P(dBad, None), P(dForeign, None)}
================================================================================
