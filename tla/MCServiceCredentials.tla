-------------------------- MODULE MCServiceCredentials --------------------------
(***************************************************************************)
(* Two Agents, two Grants whose issuers may choose the same identifier or  *)
(* secret, a Revoke, and a request: one secret under each grant type, two  *)
(* under one and one under the other, two tokens, an assertion, or a scheme*)
(* that is not advertised.                                                 *)
(***************************************************************************)
EXTENDS ServiceCredentials, TLC

CONSTANTS a1, a2, g1, g2, r1, q1, k1, k2, s1, s2

MCGrantTypes == <<"api_key", "oauth_bearer">>

MCMethods == <<"oauth_bearer", "api_key">>

Value(scheme, secret) == [scheme |-> scheme, secret |-> secret]
Carry(dedicated, standard, apiKeys) ==
  [dedicated |-> dedicated, standard |-> standard, apiKeys |-> apiKeys]

MCPresentations ==
  {Carry(<<>>, <<Value("Bearer", s1)>>, {s1}),
   Carry(<<Value("Bearer", s2)>>, <<Value("other", None)>>, {s1, s2}),
   Carry(<<>>, <<Value("Bearer", s1), Value("Bearer", s2)>>, {}),
   Carry(<<>>, <<Value("AEP", a1)>>, {s1}), Carry(<<>>, <<Value("AEP", a2)>>, {s1}),
   Carry(<<>>, <<Value("Basic", s1)>>, {})}

\* Which Agent, Grant or identifier is which makes no difference.
Symmetry == Permutations(Agents) \cup Permutations(Grants) \cup Permutations(CredentialIDs)
================================================================================
