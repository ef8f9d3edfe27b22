------------------------------ MODULE AgentResource ------------------------------
(***************************************************************************)
(* Client.FetchProtectedResource: one request for a protected resource,    *)
(* sent anonymously or authenticated, challenged, redirected and repeated, *)
(* with Session.AuthenticationHeaders choosing a stored credential or an   *)
(* assertion and Grant as the last resort.  The Services answer as they    *)
(* like: every redirect, challenge, document and policy is a choice of     *)
(* theirs.  Other calls of the Client appear by what they do to the        *)
(* credential store; the caches of Inspect and OpenAPI, which can change   *)
(* their answer between two questions, are another component's.            *)
(***************************************************************************)
EXTENDS Integers, Sequences, SequencesExt, FiniteSets

CONSTANTS
  URLs, Origin,      \* Origin[u]: scheme, host and port of URL u
  Refused,           \* URLs validateProtectedResource or the scheme refuses
  Dids, Home,        \* Home[d]: the origin that the did:web DID d names
  Methods,           \* authentication methods, "aep-jwt" and grant types
  Advertised,        \* sequences of methods a Service may put in Inspect
  Requests,          \* [url, authorization, carrier, methods, method, credential,
                     \* assertionOnly, extra, additional, maximum]; see ValidRequest
  Credentials,       \* identifiers of credentials
  None

JWT == "aep-jwt"

\* What an Authorization header can hold, as far as anybody looks: values of a
\* scheme of AEP (AEP, Bearer, Basic) that parse, or of others (Payment).
Values == {"aep", "other"}
Fields == Seq(Values)

Carriers == {"standard", "dedicated"}

\* Whose generated headers a request carries: a credential's, or an assertion's
\* for a resource.
Bearers == [did : Dids, credential : Credentials \cup {None}, resource : URLs \cup {None}]
Headers == [carrier : Carriers \cup {"api-key"}, by : Bearers]

\* A request as it is sent: its two authorization fields, whether the caller's
\* headers and the additional ones are among its headers, who is authenticated.
Messages == [url : URLs, standard : Fields, dedicated : Fields, caller : BOOLEAN,
             additional : BOOLEAN, by : Bearers \cup {None}]

\* Methods in an order of preference.
Allowances == [order : Advertised, methods : SUBSET Methods]

\* request.extra says whether there are additional headers, and an
\* AEP-Authorization among them; request.additional is the Authorization among
\* them. None is none of the things a variable or a field holds instead of it.
ASSUME ResourceAssumption ==
  /\ JWT \in Methods /\ Advertised \subseteq Seq(Methods)
  /\ \A r \in Requests :
       /\ r.url \in URLs /\ r.maximum \in Nat
       /\ r.authorization \in Fields /\ r.additional \in Fields
       /\ r.extra \in {"none", "headers", "dedicated"}
       /\ r.extra = "none" => r.additional = <<>>
  /\ None \notin Methods \cup Carriers \cup {"ambiguous"} /\ None \notin Credentials
  /\ None \notin Requests \cup Bearers \cup Headers \cup Messages \cup Allowances

VARIABLES
  request,           \* the request of the call, or None
  stage,             \* where the call is
  target,            \* the URL it is at
  redirects,         \* redirects followed
  requireChallenge,  \* it has left an origin, and wants a challenge first
  policy,            \* OpenAPI: [state, methods] of the operation
  challenge,         \* the Service DID of the challenge it has, or None
  allowed,           \* [order, methods] it may authenticate with; None until
                     \* it knows
  granted,           \* the grant type it asked a Grant of, or None
  headers,           \* generated headers: [carrier, by], or None
  store,             \* credential store: [id, did, type]
  message,           \* the last request sent, or None
  asked,             \* history: origins that challenged this call at its target
  reply              \* what the call returned, or None

callVars == <<request, target, redirects, requireChallenge>>
hopVars == <<policy, challenge, allowed, granted, headers>>
vars == <<stage, callVars, hopVars, store, message, asked, reply>>

\* A URL with HTTPS, or with HTTP on a loopback host where that is allowed.
validateProtectedResource(u) == u \notin Refused

\* FetchProtectedResource checks its arguments before it sends anything; a
\* limit of 0 redirects has become the default by then.
ValidRequest(r) ==
  /\ validateProtectedResource(r.url)
  /\ r.assertionOnly => r.credential = None /\ r.method = None
  /\ r.carrier \in Carriers
  /\ r.maximum > 0

Fresh == [state |-> "fallback", methods |-> <<>>]

Init ==
  /\ request = None
  /\ stage = "idle"
  /\ target = None
  /\ redirects = 0
  /\ requireChallenge = FALSE
  /\ policy = Fresh
  /\ challenge = None
  /\ allowed = None
  /\ granted = None
  /\ headers = None
  /\ store \in SUBSET [id : Credentials, did : Dids, type : Methods \ {JWT}]
  /\ \A k, l \in store : k.id = l.id => k = l
  /\ message = None
  /\ asked = {}
  /\ reply = None

GoTo(from, to) == stage = from /\ stage' = to

Return(r) == stage' = "done" /\ reply' = r

FetchProtectedResource(r) ==
  /\ stage = "idle"
  /\ request' = r
  /\ IF ValidRequest(r) THEN stage' = "policy" /\ target' = r.url /\ UNCHANGED reply
     ELSE Return("error") /\ UNCHANGED target
  /\ UNCHANGED <<redirects, requireChallenge, hopVars, store, message, asked>>

\* OpenAPIPolicy at the target's Service; an error of it is a fallback.
Policies ==
  {[state |-> s, methods |-> <<>>] : s \in {"public", "fallback"}}
    \cup {[state |-> "required", methods |-> ms] : ms \in Advertised \ {<<>>}}

AnonymousFirst(p) == p.state # "required" \/ requireChallenge

OpenAPIPolicy(p) ==
  /\ GoTo("policy", IF AnonymousFirst(p) THEN "anonymous" ELSE "inspect")
  /\ policy' = p
  /\ UNCHANGED <<callVars, challenge, allowed, granted, headers, store, message, asked, reply>>

-----------------------------------------------------------------------------
(* Requests on the wire.                                                    *)

Nothing ==
  [url |-> target, standard |-> <<>>, dedicated |-> <<>>, caller |-> FALSE,
   additional |-> FALSE, by |-> None]

\* The anonymous request has no authentication headers of the caller's, and
\* after another origin none of the caller's at all.
SendAnonymous ==
  /\ GoTo("anonymous", "awaiting")
  /\ message' = [Nothing EXCEPT !.caller = ~requireChallenge]
  /\ UNCHANGED <<callVars, hopVars, store, asked, reply>>

AtHome == Origin[target] = Origin[request.url]

\* The Authorization values of the caller, which its additional ones replace.
Brought ==
  IF ~AtHome THEN <<>>
  ELSE IF request.additional # <<>> THEN request.additional ELSE request.authorization

\* Get sees the first value of a header and no other.
StartsRecognized(values) == values # <<>> /\ values[1] = "aep"

\* mergeResourceHeaders: an additional header that AEP generates, or an
\* additional Authorization that its Service would take for AEP's.
Conflict ==
  /\ AtHome
  /\ \/ request.extra = "dedicated"
     \/ headers.carrier = "standard" /\ request.additional # <<>>
     \/ headers.carrier # "standard" /\ StartsRecognized(request.additional)

\* The header of the selected carrier; an API key has a header of its own.
authorizationHeaders(carrier) == IF headers.carrier = carrier THEN <<"aep">> ELSE <<>>

\* At another origin there is nothing but the generated headers.
Merged ==
  [url |-> target,
   standard |-> IF headers.carrier = "standard" \/ StartsRecognized(Brought)
                THEN authorizationHeaders("standard") ELSE Brought,
   dedicated |-> authorizationHeaders("dedicated"),
   caller |-> AtHome, additional |-> AtHome /\ request.extra # "none",
   by |-> headers.by]

SendAuthenticated ==
  /\ GoTo("merge", "awaiting")
  /\ ~Conflict
  /\ message' = Merged
  /\ UNCHANGED <<callVars, hopVars, store, asked, reply>>

HeadersConflict ==
  /\ stage = "merge" /\ Conflict
  /\ Return("error")
  /\ UNCHANGED <<callVars, hopVars, store, message, asked>>

-----------------------------------------------------------------------------
(* Responses.                                                               *)

\* Fault: a redirect is followed wherever it leads.
RedirectedAnywhere(next) ==
  /\ stage = "awaiting"
  /\ IF redirects < request.maximum
     THEN /\ stage' = "policy"
          /\ requireChallenge' = (requireChallenge \/ Origin[target] # Origin[next])
          /\ target' = next
          /\ redirects' = redirects + 1
          /\ challenge' = None /\ allowed' = None /\ granted' = None /\ headers' = None
          /\ policy' = Fresh
          /\ asked' = {} /\ message' = None
          /\ UNCHANGED <<request, reply>>
     ELSE Return("error") /\ UNCHANGED <<callVars, hopVars, message, asked>>
  /\ UNCHANGED store

\* resourceRedirect, for the anonymous and the authenticated request alike.
Redirected(next) ==
  /\ stage = "awaiting"
  /\ IF redirects < request.maximum /\ validateProtectedResource(next)
     THEN /\ stage' = "policy"
          /\ requireChallenge' = (requireChallenge \/ Origin[target] # Origin[next])
          /\ target' = next
          /\ redirects' = redirects + 1
          /\ challenge' = None /\ allowed' = None /\ granted' = None /\ headers' = None
          /\ policy' = Fresh
          /\ asked' = {} /\ message' = None
          /\ UNCHANGED <<request, reply>>
     ELSE Return("error") /\ UNCHANGED <<callVars, hopVars, message, asked>>
  /\ UNCHANGED store

\* An authenticated response is the call's; so is an anonymous one without a
\* challenge of AEP.
Responds ==
  /\ stage = "awaiting"
  /\ Return("response")
  /\ UNCHANGED <<callVars, hopVars, store, message, asked>>

\* A 401 whose challenge names a Service DID and the URL of an Inspect document.
parseResourceChallenge(did, origin) ==
  /\ stage = "awaiting" /\ message.by = None
  /\ IF origin = Origin[target]
     THEN /\ stage' = "inspect"
          /\ challenge' = did
          /\ asked' = {origin}
          /\ UNCHANGED reply
     ELSE Return("error") /\ UNCHANGED <<challenge, asked>>
  /\ UNCHANGED <<callVars, policy, allowed, granted, headers, store, message>>

-----------------------------------------------------------------------------
(* Authentication.                                                          *)

\* DIDWebDocumentURL: the authority a did:web DID names.
Authority(did) == Home[did]

\* Fault: any did:web DID is taken for the origin's.
AnyServiceIdentity(did) == did \in Dids

\* validateServiceIdentity: the DID in an Inspect document names its origin.
validateServiceIdentity(did) == Authority(did) = Origin[target]

\* The Service's document decides the methods, the policy where it requires.
\* Whether a policy "public" is read again changes nothing for this call.
Inspect(did, methods) ==
  /\ stage = "inspect"
  /\ validateServiceIdentity(did)
  /\ LET offered == IF policy.state = "required" THEN policy.methods ELSE methods IN
       IF challenge \notin {None, did} THEN Return("error") /\ UNCHANGED allowed
       ELSE IF offered = <<>> /\ challenge # None THEN Return("response") /\ UNCHANGED allowed
       ELSE /\ allowed' = [order |-> offered,
                            methods |-> {m \in ToSet(offered) \cap ToSet(methods) :
                                           request.methods = None \/ m \in request.methods}]
            /\ stage' = "authenticate"
            /\ UNCHANGED reply
  /\ UNCHANGED <<callVars, policy, challenge, granted, headers, store, message, asked>>

\* AuthenticationHeaders inspects once more: the document may be another now,
\* and it is its order of the methods that counts.
Offered(methods) == ToSet(methods) \cap allowed.methods
Rank(methods, m) == SelectInSeq(methods, LAMBDA n : n = m)

GrantType == IF granted # None THEN granted ELSE request.method
Selected == request.credential # None \/ GrantType # None

\* The methods tried for credentials: those preferred to an assertion, or, for
\* a selected credential or grant type, all.
CredentialMethods(methods) ==
  {m \in Offered(methods) :
     /\ ~request.assertionOnly
     /\ Selected \/ JWT \notin Offered(methods) \/ Rank(methods, m) < Rank(methods, JWT)}

validateStoredCredential(k, did) == k.did = did

\* findCredential.
Found(did, methods) ==
  {k \in store : /\ validateStoredCredential(k, did)
                 /\ k.type \in CredentialMethods(methods)
                 /\ request.credential \in {k.id, None}
                 /\ GrantType \in {k.type, None}}

\* ListCredentials is searched in the order of the methods.
Preferred(did, methods) ==
  {k \in Found(did, methods) :
     \A l \in Found(did, methods) : Rank(methods, k.type) <= Rank(methods, l.type)}

credentialHeaders(did, methods) ==
  /\ stage = "authenticate" /\ validateServiceIdentity(did)
  /\ \E k \in Preferred(did, methods) :
       headers' = [carrier |-> IF k.type = "api-key" THEN "api-key" ELSE request.carrier,
                   by |-> [did |-> k.did, credential |-> k.id, resource |-> None]]
  /\ stage' = "merge"
  /\ UNCHANGED <<callVars, policy, challenge, allowed, granted, store, message, asked, reply>>

signAssertion(did, methods) ==
  /\ stage = "authenticate" /\ validateServiceIdentity(did)
  /\ JWT \in Offered(methods) /\ Found(did, methods) = {} /\ ~Selected
  /\ headers' = [carrier |-> request.carrier,
                 by |-> [did |-> did, credential |-> None, resource |-> target]]
  /\ stage' = "merge"
  /\ UNCHANGED <<callVars, policy, challenge, allowed, granted, store, message, asked, reply>>

\* The selected grant type, or the first one allowed.
Wanted ==
  IF request.method # None THEN request.method
  ELSE LET types == allowed.methods \ {JWT} IN
       IF types = {} THEN None
       ELSE CHOOSE m \in types :
              \A n \in types : Rank(allowed.order, m) <= Rank(allowed.order, n)

\* resourceAuthenticationHeaders: a credential that is missing, and was not
\* selected by identifier, is asked for once. What the caller may have selected
\* as a grant type and is not one leaves nothing to save.
Grant(did, methods, id) ==
  /\ stage = "authenticate" /\ validateServiceIdentity(did)
  /\ granted = None /\ request.credential = None /\ ~request.assertionOnly
  /\ Found(did, methods) = {} /\ (Selected \/ JWT \notin Offered(methods))
  /\ Wanted # None /\ Wanted \in allowed.methods
  /\ id \notin {k.id : k \in store}
  /\ granted' = Wanted
  /\ IF Wanted = JWT THEN UNCHANGED store
     ELSE \E issuer \in Dids :
            /\ validateServiceIdentity(issuer)
            /\ store' = store \cup {[id |-> id, did |-> issuer, type |-> Wanted]}
  /\ UNCHANGED <<stage, callVars, policy, challenge, allowed, headers, message, asked, reply>>

\* Inspect, the credential store, the Grant, the signer or the network fails,
\* no method is left, or the context ends.
Fail ==
  /\ stage \notin {"idle", "done"}
  /\ Return("error")
  /\ UNCHANGED <<callVars, hopVars, store, message, asked>>

\* Other calls of the Client: a Grant, a Revoke; and credentials expire.
SaveCredential(k) ==
  /\ k.id \notin {l.id : l \in store}
  /\ store' = store \cup {k}
  /\ UNCHANGED <<stage, callVars, hopVars, message, asked, reply>>

ForgetCredential(k) ==
  /\ store' = store \ {k}
  /\ UNCHANGED <<stage, callVars, hopVars, message, asked, reply>>

Next ==
  \/ \E r \in Requests : FetchProtectedResource(r)
  \/ \E p \in Policies : OpenAPIPolicy(p)
  \/ SendAnonymous \/ SendAuthenticated \/ HeadersConflict
  \/ \E u \in URLs : Redirected(u)
  \/ Responds
  \/ \E did \in Dids, origin \in {Origin[u] : u \in URLs} : parseResourceChallenge(did, origin)
  \/ \E did \in Dids, methods \in Advertised :
       \/ Inspect(did, methods)
       \/ credentialHeaders(did, methods)
       \/ signAssertion(did, methods)
       \/ \E id \in Credentials : Grant(did, methods, id)
  \/ Fail
  \/ \E k \in [id : Credentials, did : Dids, type : Methods \ {JWT}] : SaveCredential(k)
  \/ \E k \in store : ForgetCredential(k)

Spec == Init /\ [][Next]_vars

-----------------------------------------------------------------------------
(* The Service that receives a request: selectAuthorizationPresentation.    *)

Presented(values) == {i \in 1..Len(values) : values[i] = "aep"}

selectAuthorizationPresentation(m) ==
  IF m.dedicated = <<>>
  THEN IF Presented(m.standard) = {} THEN None
       ELSE IF Len(m.standard) > 1 THEN "ambiguous" ELSE "standard"
  ELSE IF Len(m.dedicated) # 1 \/ Presented(m.dedicated) = {} \/ Presented(m.standard) # {}
       THEN "ambiguous" ELSE "dedicated"

-----------------------------------------------------------------------------
\* Types, and what the call knows at each stage.
TypeOK ==
  /\ request \in Requests \cup {None}
  /\ stage \in {"idle", "policy", "anonymous", "inspect", "authenticate", "merge",
                "awaiting", "done"}
  /\ target \in URLs \cup {None} /\ requireChallenge \in BOOLEAN
  /\ request # None => redirects \in 0..request.maximum
  /\ policy \in Policies /\ challenge \in Dids \cup {None}
  /\ allowed \in Allowances \cup {None} /\ granted \in Methods \cup {None}
  /\ headers \in Headers \cup {None} /\ message \in Messages \cup {None}
  /\ store \subseteq [id : Credentials, did : Dids, type : Methods \ {JWT}]
  /\ \A k, l \in store : k.id = l.id => k = l
  /\ stage \in {"authenticate", "merge"} => allowed # None
  /\ stage = "merge" => headers # None
  /\ stage = "awaiting" => message # None /\ message.url = target
  /\ stage \notin {"idle", "done"} => request # None /\ validateProtectedResource(target)

Original == Origin[request.url]

\* A credential goes only to the origin its Service's DID names, an assertion
\* is for the very URL it is sent to, however the Services redirect and
\* whatever they claim to be.
BoundToOrigin ==
  message # None /\ message.by # None =>
    /\ Home[message.by.did] = Origin[message.url]
    /\ message.by.resource \in {message.url, None}

\* Headers of the caller never reach another origin than the one called, and
\* what the caller added for authentication only goes with it.
CallerHeadersStay ==
  message # None =>
    /\ message.caller \/ message.additional \/ "other" \in ToSet(message.standard) =>
         Origin[message.url] = Original
    /\ message.additional => message.by # None

\* Once another origin was visited, nothing is authenticated anywhere but in
\* answer to a challenge of the URL it is sent to.
AskedFirst ==
  message # None /\ message.by # None /\ requireChallenge => asked = {Origin[message.url]}

\* A value of an AEP scheme behind one of another scheme, which the merge does
\* not look at.
Hidden(values) ==
  values # <<>> /\ ~StartsRecognized(values) /\ Presented(values) # {}

\* The Service finds the presentation the Agent selected, and it alone, or none
\* where an API key was. Only what a caller hid behind another scheme
\* is left beside a dedicated carrier or a key, and then the Service refuses to
\* choose: it never takes a value of the caller's for the presentation.
OnePresentation ==
  message # None /\ message.by # None =>
    selectAuthorizationPresentation(message) =
      IF headers.carrier # "standard" /\ Hidden(Brought) THEN "ambiguous"
      ELSE IF headers.carrier = "api-key" THEN None
      ELSE headers.carrier

\* README: "Cross-origin redirects discard all caller headers and generated
\* credentials, restart anonymously, and require a new AEP challenge before
\* authenticating" (agent/README.md:186).
SentAsPromised == BoundToOrigin /\ CallerHeadersStay /\ AskedFirst /\ OnePresentation
================================================================================
