---------------------------- MODULE MCAgentResource ----------------------------
(***************************************************************************)
(* Two origins, the first with two resources and two tenants that share    *)
(* its did:web authority; one URL is refused.                              *)
(***************************************************************************)
EXTENDS AgentResource, TLC

CONSTANTS a, b, d1, d2, d3, k1, k2

MCURLs == {1, 2, 3, 4}
MCOrigin == <<a, a, b, b>>
MCHome == (d1 :> a) @@ (d2 :> a) @@ (d3 :> b)
MCAdvertised == {<<>>, <<"bearer", "aep-jwt">>, <<"aep-jwt">>, <<"aep-jwt", "api-key">>}

Request(authorization, carrier, method, credential, assertionOnly, extra, additional, maximum) ==
  [url |-> 1, authorization |-> authorization, carrier |-> carrier, method |-> method,
   methods |-> IF carrier = "standard" THEN {"aep-jwt", "bearer"} ELSE None,
   credential |-> credential, assertionOnly |-> assertionOnly, extra |-> extra,
   additional |-> additional, maximum |-> maximum]

\* A payment, additional or the caller's own, alone or before a value that a
\* Service would take for a presentation, and such values first.
MCRequests ==
  {Request(<<"aep">>, "dedicated", None, None, FALSE, "headers", <<"other">>, 3),
   Request(<<"aep", "other">>, "dedicated", "api-key", None, FALSE, "none", <<>>, 1),
   Request(<<"other", "aep">>, "dedicated", None, None, FALSE, "headers", <<>>, 1),
   Request(<<>>, "dedicated", "aep-jwt", None, FALSE, "dedicated", <<>>, 1),
   Request(<<"other", "aep">>, "standard", None, k1, FALSE, "headers", <<>>, 1),
   Request(<<"other">>, "dedicated", None, None, TRUE, "headers", <<"aep">>, 1),
   Request(<<>>, "standard", "bearer", None, TRUE, "none", <<>>, 1)}
================================================================================
