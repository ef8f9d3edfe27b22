--------------------------- MODULE ServiceCredentials ---------------------------
(***************************************************************************)
(* Session credentials of a Service: Grant and Revoke of                   *)
(* service/commands.go through the stored grant types of                   *)
(* service/credentials.go, and AuthenticateProtectedResource of            *)
(* service/authentication.go, over one memoryServiceCredentialStore.       *)
(*                                                                         *)
(* Every method of the store is atomic.  The commands are not: a Grant     *)
(* reads the enrollment and saves the credential later; a Revoke of all    *)
(* grant types revokes them one by one; a request looks its credential up, *)
(* one method after the other, and reads the enrollment after a match.     *)
(* The enrollments are those of ServiceEnrollment, seen from outside, and  *)
(* an assertion is worth what authenticateAssertion (ReplayGuard) says.    *)
(***************************************************************************)
EXTENDS Integers, Sequences, FiniteSets

CONSTANTS
  Agents,
  Grants,         \* Grant commands, each made once; issuers choose ...
  CredentialIDs,  \* ... an identifier,
  Secrets,        \* ... a secret in a header of the grant type,
  Lifetimes,      \* ... and a time to live
  Revokes,        \* Revoke commands
  Requests,       \* requests for a protected resource
  GrantTypes,     \* the stored grant types, in the order slices.Sort gives them
  Methods,        \* the stored ones of service.authenticationMethods
  JWTMethod,      \* whether these contain the JWT method
  Presentations,  \* what a request may carry: [dedicated, standard], the values
                  \* of AEP-Authorization and of Authorization, and apiKeys, the
                  \* set of secrets in other headers
  MaxTime,        \* bound on the clock
  None

Calls == Grants \cup Revokes \cup Requests

Types == {GrantTypes[i] : i \in 1..Len(GrantTypes)}

\* A value of an authorization header: [scheme, secret].  The secret of an
\* assertion is its Agent, and None that of a value that does not parse.
AuthorizationValues ==
  [scheme : {"AEP"}, secret : Agents \cup {None}]
    \cup [scheme : {"Bearer", "Basic", "other"}, secret : Secrets \cup {None}]

ASSUME CallsAssumption ==
  Grants \cap Revokes = {} /\ Requests \cap (Grants \cup Revokes) = {}
ASSUME MethodsAssumption ==
  /\ GrantTypes \in Seq(Types) /\ GrantTypes # <<>>
  /\ Methods \in Seq(Types) /\ Methods # <<>>
ASSUME DataAssumption ==
  /\ Lifetimes \subseteq Nat
  /\ \A p \in Presentations :
       {p.dedicated, p.standard} \subseteq Seq(AuthorizationValues)

VARIABLES
  now,          \* service.clock()
  standing,     \* standing[a]: what FindEnrollment and the checks on it yield
  credentials,  \* store.records: CredentialID -> record, or None
  pc,           \* pc[c]: where call c is
  actor,        \* actor[c]: the Agent of a Grant or Revoke, then of a match
  asked,        \* asked[c]: the grant type of a Grant, the [types, id] of a Revoke,
                \* what a request carries
  started,      \* started[c]: the Now that a Grant or a request captured
  todo,         \* todo[c]: grant types that a Revoke or a request has yet to visit
  outcome,      \* outcome[c]: the credential granted or matched, or None
  seen,         \* seen[q]: a detector has seen a presentation in the request
  problem,      \* problem[q]: the code of the 401 that answers a request, or None
  baseline      \* history: when c began, the credentials in scope of a Revoke, or
                \* those that a request could no longer be authenticated by

vars == <<now, standing, credentials, pc, actor, asked, started, todo, outcome, seen,
          problem, baseline>>

\* No enrollment; active; any other status.
Standings == {"unknown", "active", "inactive"}

Credentials ==
  [agent : Agents, type : Types, secret : Secrets, expiresAt : Nat, revoked : BOOLEAN]

ASSUME NoneAssumption == None \notin Agents \cup CredentialIDs \cup Credentials

Locations ==
  {"idle", "issuing", "granted", "revoking", "revoked", "asserting", "matching",
   "matched", "authenticated", "refused", "failed"}

Problems ==
  {"authentication_required", "not_recognized", "unsupported_authentication_method"}

TypeOK ==
  /\ now \in Nat
  /\ standing \in [Agents -> Standings]
  /\ credentials \in [CredentialIDs -> Credentials \cup {None}]
  /\ pc \in [Calls -> Locations]
  /\ actor \in [Calls -> Agents \cup {None}]
  /\ started \in [Calls -> Nat \cup {None}]
  /\ todo \in [Calls -> Seq(Types)]
  /\ outcome \in [Calls -> CredentialIDs \cup {None}]
  /\ seen \in [Requests -> BOOLEAN]
  /\ problem \in [Requests -> Problems \cup {None}]
  /\ baseline \in [Calls -> SUBSET CredentialIDs]
  /\ \A c \in Calls : pc[c] \in {"revoking", "matching"} => todo[c] # <<>>

Init ==
  /\ now = 0
  /\ standing = [a \in Agents |-> "unknown"]
  /\ credentials = [k \in CredentialIDs |-> None]
  /\ pc = [c \in Calls |-> "idle"]
  /\ actor = [c \in Calls |-> None]
  /\ asked = [c \in Calls |-> None]
  /\ started = [c \in Calls |-> None]
  /\ todo = [c \in Calls |-> <<>>]
  /\ outcome = [c \in Calls |-> None]
  /\ seen = [q \in Requests |-> FALSE]
  /\ problem = [q \in Requests |-> None]
  /\ baseline = [c \in Calls |-> {}]

--------------------------------------------------------------------------------
GoTo(c, from, to) ==
  /\ pc[c] = from
  /\ pc' = [pc EXCEPT ![c] = to]

\* What is over without a result is forgotten.
Forget(c) ==
  /\ actor' = [actor EXCEPT ![c] = None]
  /\ asked' = [asked EXCEPT ![c] = None]
  /\ started' = [started EXCEPT ![c] = None]
  /\ todo' = [todo EXCEPT ![c] = <<>>]
  /\ outcome' = [outcome EXCEPT ![c] = None]
  /\ baseline' = [baseline EXCEPT ![c] = {}]

Stored == {k \in CredentialIDs : credentials[k] # None}

\* Authenticated at time t: neither revoked nor expired.
LiveAt(t) == {k \in Stored : ~credentials[k].revoked /\ credentials[k].expiresAt > t}

\* Fault: revoked records do not count, so their identifiers can be issued again.
DuplicateOfLive(id, type, secret) ==
  \/ id \in Stored /\ ~credentials[id].revoked
  \/ \E k \in Stored : /\ ~credentials[k].revoked
                       /\ credentials[k].type = type /\ credentials[k].secret = secret

\* Fault: only the identifier is compared.
DuplicateID(id, type, secret) == id \in Stored

\* SaveCredential: the identifier or the secret has already been issued, to
\* whomever and whether or not the credential is still of use.
Duplicate(id, type, secret) ==
  \/ id \in Stored
  \/ \E k \in Stored : credentials[k].type = type /\ credentials[k].secret = secret

\* Fault: the credential is found without looking at its grant type.
InAnyTypesScope(k, agent, type, id) ==
  /\ credentials[k].agent = agent
  /\ id \in {k, None}

\* RevokeCredential (an identifier is given) and RevokeGrantType (None).
InScope(k, agent, type, id) ==
  /\ credentials[k].agent = agent
  /\ credentials[k].type = type
  /\ id \in {k, None}

--------------------------------------------------------------------------------
\* Grant finds no enrollment, one that is not active, or an active one that
\* misses a requirement: which of them do is left open here.
RefuseGrant(g) ==
  /\ GoTo(g, "idle", "refused")
  /\ UNCHANGED <<now, standing, credentials, actor, asked, started, todo, outcome,
                 seen, problem, baseline>>

\* Grant reads an active enrollment and goes to the issuer of the grant type.
BeginGrant(g, a, type) ==
  /\ GoTo(g, "idle", "issuing")
  /\ standing[a] = "active"
  /\ actor' = [actor EXCEPT ![g] = a]
  /\ asked' = [asked EXCEPT ![g] = type]
  /\ started' = [started EXCEPT ![g] = now]
  /\ UNCHANGED <<now, standing, credentials, todo, outcome, seen, problem, baseline>>

\* memoryCredentialRecord: what the store keeps of a credential.
Record(g, secret, lifetime) ==
  [agent |-> actor[g], type |-> asked[g], secret |-> secret,
   expiresAt |-> started[g] + lifetime, revoked |-> FALSE]

\* The issuer answers and the store saves the credential.
SaveCredential(g, id, secret, lifetime) ==
  /\ GoTo(g, "issuing", "granted")
  /\ ~Duplicate(id, asked[g], secret)
  /\ credentials' = [credentials EXCEPT ![id] = Record(g, secret, lifetime)]
  /\ outcome' = [outcome EXCEPT ![g] = id]
  /\ UNCHANGED <<now, standing, actor, asked, started, todo,
                 seen, problem, baseline>>

\* The issuer fails or its answer is invalid, the credential is a duplicate, or
\* the context ended: nothing is saved, and the command is not recorded.
GrantFails(g) ==
  /\ GoTo(g, "issuing", "failed")
  /\ Forget(g)
  /\ UNCHANGED <<now, standing, credentials, seen, problem>>

--------------------------------------------------------------------------------
\* Revoke finds no enrollment.
RefuseRevoke(r, a) ==
  /\ GoTo(r, "idle", "refused")
  /\ standing[a] = "unknown"
  /\ UNCHANGED <<now, standing, credentials, actor, asked, started, todo, outcome,
                 seen, problem, baseline>>

\* Revoke finds an enrollment of any status, then visits its grant types: every
\* one, or the one named, with or without a credential_id.
BeginRevoke(r, a, types, id) ==
  /\ GoTo(r, "idle", "revoking")
  /\ standing[a] # "unknown"
  /\ actor' = [actor EXCEPT ![r] = a]
  /\ asked' = [asked EXCEPT ![r] = [types |-> types, id |-> id]]
  /\ todo' = [todo EXCEPT ![r] = types]
  /\ baseline' = [baseline EXCEPT ![r] =
       {k \in Stored : \E i \in 1..Len(types) : InScope(k, a, types[i], id)}]
  /\ UNCHANGED <<now, standing, credentials, started, outcome, seen, problem>>

RevokeInScope(r) ==
  credentials' = [k \in CredentialIDs |->
    IF k \in Stored /\ InScope(k, actor[r], Head(todo[r]), asked[r].id)
    THEN [credentials[k] EXCEPT !.revoked = TRUE] ELSE credentials[k]]

\* Fault: the loop does not end with its last grant type.
RevokeNextForever(r) ==
  /\ GoTo(r, "revoking", "revoking")
  /\ RevokeInScope(r)
  /\ todo' = [todo EXCEPT ![r] = Tail(@)]
  /\ UNCHANGED <<now, standing, actor, asked, started, outcome,
                 seen, problem, baseline>>

\* One handler's Revoke: one locked section of the store.
RevokeNext(r) ==
  /\ GoTo(r, "revoking", IF Len(todo[r]) = 1 THEN "revoked" ELSE "revoking")
  /\ RevokeInScope(r)
  /\ todo' = [todo EXCEPT ![r] = Tail(@)]
  /\ UNCHANGED <<now, standing, actor, asked, started, outcome,
                 seen, problem, baseline>>

\* Fault: a handler's error ends the loop but not the command.
RevokeFailsQuietly(r) ==
  /\ GoTo(r, "revoking", "revoked")
  /\ UNCHANGED <<now, standing, credentials, actor, asked, started, todo, outcome,
                 seen, problem, baseline>>

\* A handler fails: what the ones before it revoked stays revoked.
RevokeFails(r) ==
  /\ GoTo(r, "revoking", "failed")
  /\ UNCHANGED <<now, standing, credentials, actor, asked, started, todo, outcome,
                 seen, problem, baseline>>

--------------------------------------------------------------------------------
(* A request for a protected resource.                                      *)

\* ParseProtectedResourceAuthorization: of the three schemes, and well formed.
Parses(v) == v.scheme \in {"AEP", "Bearer", "Basic"} /\ v.secret # None
Recognized(values) == {values[i] : i \in {j \in 1..Len(values) : Parses(values[j])}}

\* selectAuthorizationPresentation refuses a request that leaves a choice: a
\* recognized value beside another of Authorization, a dedicated header that is
\* not one recognized value, or one beside a recognized Authorization.
Ambiguous(p) ==
  IF p.dedicated = <<>>
    THEN Recognized(p.standard) # {} /\ Len(p.standard) > 1
    ELSE \/ Len(p.dedicated) # 1
         \/ Recognized(p.dedicated) = {}
         \/ Recognized(p.standard) # {}

\* The Authorization header after the selection; of an unambiguous request, a
\* value that is recognized is the only one.
Authorization(p) == IF p.dedicated # <<>> THEN p.dedicated ELSE p.standard
Assertions(p) == {v \in Recognized(Authorization(p)) : v.scheme = "AEP"}

Scheme(type) ==
  CASE type = "oauth_bearer" -> "Bearer" [] type = "basic" -> "Basic" [] OTHER -> None

\* credentialPresentations, apiKeyPresentations.
PresentedAs(type, p) ==
  IF type = "api_key" THEN p.apiKeys
  ELSE {v.secret : v \in {w \in Recognized(Authorization(p)) : w.scheme = Scheme(type)}}

Refuse(q, from, code) ==
  /\ GoTo(q, from, "refused")
  /\ problem' = [problem EXCEPT ![q] = code]
  /\ seen' = [seen EXCEPT ![q] = FALSE]
  /\ Forget(q)

RefusePresentation(q, p) ==
  /\ Ambiguous(p)
  /\ Refuse(q, "idle", "not_recognized")
  /\ UNCHANGED <<now, standing, credentials>>

\* An assertion is the whole presentation: no credential is looked at.
BeginAssertion(q, p) ==
  /\ ~Ambiguous(p) /\ Assertions(p) # {}
  /\ \/ /\ JWTMethod /\ GoTo(q, "idle", "asserting")
        /\ asked' = [asked EXCEPT ![q] = p]
        /\ UNCHANGED <<actor, started, todo, outcome, seen, problem, baseline>>
     \/ ~JWTMethod /\ Refuse(q, "idle", "unsupported_authentication_method")
  /\ UNCHANGED <<now, standing, credentials>>

\* authenticateAssertion verifies the assertion and consumes it, or does not.
AcceptAssertion(q) ==
  /\ GoTo(q, "asserting", "matched")
  /\ \E v \in Assertions(asked[q]) : actor' = [actor EXCEPT ![q] = v.secret]
  /\ UNCHANGED <<now, standing, credentials, asked, started, todo, outcome,
                 seen, problem, baseline>>

RefuseAssertion(q) ==
  /\ Refuse(q, "asserting", "not_recognized")
  /\ UNCHANGED <<now, standing, credentials>>

\* AuthenticateProtectedResource captures the time.
BeginRequest(q, p) ==
  /\ ~Ambiguous(p) /\ Assertions(p) = {}
  /\ GoTo(q, "idle", "matching")
  /\ asked' = [asked EXCEPT ![q] = p]
  /\ started' = [started EXCEPT ![q] = now]
  /\ todo' = [todo EXCEPT ![q] = Methods]
  /\ baseline' = [baseline EXCEPT ![q] = Stored \ LiveAt(now)]
  /\ UNCHANGED <<now, standing, credentials, actor, outcome, seen, problem>>

\* HasCredentialPresentation: an API key is one when some stored key uses its
\* header, revoked or not.  It is a store call of its own before that of
\* AuthenticateCredential, but as no record is ever removed, what it sees could
\* be seen by the same lookup at the earlier or at the later moment.
Detected(type, p) ==
  /\ PresentedAs(type, p) # {}
  /\ type = "api_key" => \E k \in Stored : credentials[k].type = type
SeenNow(q) == seen[q] \/ Detected(Head(todo[q]), asked[q])

\* The store's AuthenticateCredential: a request that presents no secret of the
\* grant type, or more than one, matches nothing.
Matches(q) ==
  {k \in LiveAt(started[q]) : /\ credentials[k].type = Head(todo[q])
                              /\ PresentedAs(Head(todo[q]), asked[q]) = {credentials[k].secret}}

MatchNext(q) ==
  /\ pc[q] = "matching"
  /\ \E k \in Matches(q) :
       /\ GoTo(q, "matching", "matched")
       /\ actor' = [actor EXCEPT ![q] = credentials[k].agent]
       /\ outcome' = [outcome EXCEPT ![q] = k]
  /\ UNCHANGED <<now, standing, credentials, asked, started, todo, seen, problem, baseline>>

SkipMethod(q) ==
  /\ Len(todo[q]) > 1
  /\ GoTo(q, "matching", "matching")
  /\ Matches(q) = {}
  /\ seen' = [seen EXCEPT ![q] = SeenNow(q)]
  /\ todo' = [todo EXCEPT ![q] = Tail(@)]
  /\ UNCHANGED <<now, standing, credentials, actor, asked, started, outcome, problem, baseline>>

\* authorizationMethod: the scheme of the first value, well formed or not.
Method(p) ==
  IF Authorization(p) = <<>> THEN None
  ELSE IF Authorization(p)[1].scheme = "other" THEN None ELSE Authorization(p)[1].scheme
Advertised(scheme) ==
  IF scheme = "AEP" THEN JWTMethod ELSE \E i \in 1..Len(Methods) : Scheme(Methods[i]) = scheme

\* Nothing matched: the code tells the Agent what to try next.
Code(q) ==
  LET method == Method(asked[q]) IN
  IF /\ method # None /\ ~SeenNow(q) /\ ~Advertised(method)
     /\ Parses(Authorization(asked[q])[1])
    THEN "unsupported_authentication_method"
  ELSE IF SeenNow(q) \/ method # None THEN "not_recognized"
  ELSE "authentication_required"

NothingMatches(q) ==
  /\ pc[q] = "matching" /\ Len(todo[q]) = 1
  /\ Matches(q) = {}
  /\ Refuse(q, "matching", Code(q))
  /\ UNCHANGED <<now, standing, credentials>>

\* A store or the application fails: the request has no answer.
RequestFails(q) ==
  /\ pc[q] \in {"asserting", "matching", "matched"}
  /\ pc' = [pc EXCEPT ![q] = "failed"]
  /\ seen' = [seen EXCEPT ![q] = FALSE]
  /\ Forget(q)
  /\ UNCHANGED <<now, standing, credentials, problem>>

\* Whatever matched is worth what its Agent's enrollment is worth now.
CheckEnrollment(q) ==
  /\ pc[q] = "matched"
  /\ IF standing[actor[q]] = "active"
       THEN /\ GoTo(q, "matched", "authenticated")
            /\ UNCHANGED <<actor, asked, started, todo, outcome, seen, problem, baseline>>
       ELSE Refuse(q, "matched", "not_recognized")
  /\ UNCHANGED <<now, standing, credentials>>

--------------------------------------------------------------------------------
\* Enroll and the operator change an enrollment; an Agent never loses it.
SetStanding(a, s) ==
  /\ s # "unknown"
  /\ standing' = [standing EXCEPT ![a] = s]
  /\ UNCHANGED <<now, credentials, pc, actor, asked, started, todo, outcome,
                 seen, problem, baseline>>

Tick ==
  /\ now < MaxTime
  /\ now' = now + 1
  /\ UNCHANGED <<standing, credentials, pc, actor, asked, started, todo, outcome,
                 seen, problem, baseline>>

GrantStep(g) ==
  \/ RefuseGrant(g)
  \/ \E a \in Agents, type \in Types : BeginGrant(g, a, type)
  \/ \E id \in CredentialIDs, s \in Secrets, l \in Lifetimes : SaveCredential(g, id, s, l)
  \/ GrantFails(g)

RevokeStep(r) ==
  \/ \E a \in Agents :
       \/ RefuseRevoke(r, a)
       \/ BeginRevoke(r, a, GrantTypes, None)
       \/ \E type \in Types, id \in CredentialIDs \cup {None} : BeginRevoke(r, a, <<type>>, id)
  \/ RevokeNext(r)
  \/ RevokeFails(r)

RequestStep(q) ==
  \/ \E p \in Presentations : \/ RefusePresentation(q, p)
                             \/ BeginAssertion(q, p) \/ BeginRequest(q, p)
  \/ AcceptAssertion(q) \/ RefuseAssertion(q)
  \/ MatchNext(q) \/ SkipMethod(q) \/ NothingMatches(q)
  \/ CheckEnrollment(q) \/ RequestFails(q)

Next ==
  \/ \E g \in Grants : GrantStep(g)
  \/ \E r \in Revokes : RevokeStep(r)
  \/ \E q \in Requests : RequestStep(q)
  \/ \E a \in Agents, s \in Standings : SetStanding(a, s)
  \/ Tick

Spec == Init /\ [][Next]_vars

--------------------------------------------------------------------------------
\* DeadStaysDead.  A credential that was revoked or expired when a request began
\* does not authenticate it, whatever its lookups interleave with: nothing
\* brings it back, not a Grant that is given its identifier or its secret
\* either (credentials.go:207-219, 243-246).
DeadStaysDead ==
  \A q \in Requests : pc[q] = "authenticated" => outcome[q] \notin baseline[q]

\* RevokeIsComplete.  When a Revoke succeeds, every credential in its scope that
\* the Agent held when it began is revoked, and stays so; a Revoke that failed
\* half way does not succeed (commands.go:229-240).
RevokeIsComplete ==
  \A r \in Revokes : pc[r] = "revoked" => \A k \in baseline[r] : credentials[k].revoked

\* A Revoke names k: one of its own Agent, for k's grant type, and for no other
\* identifier.
Names(r, k) ==
  /\ actor[r] = credentials[k].agent
  /\ \E i \in 1..Len(asked[r].types) : asked[r].types[i] = credentials[k].type
  /\ asked[r].id \in {k, None}

\* RevokedByOwner.  Only a Revoke that names it revokes a credential: one by the
\* Agent it was granted to, for all grant types or for its own, with its
\* identifier or none.  An identifier of another grant type, or of another
\* Agent, names nothing (credentials.go:285, 302).
RevokedByOwner ==
  \A k \in Stored : credentials[k].revoked =>
    \E r \in Revokes : Names(r, k)

\* AuthenticatedAsGranted.  A request that authenticates leaves no choice: it
\* carries one assertion and acts as its Agent, or the secret, alone of its
\* kind, of one successful Grant, and acts as the Agent of that Grant and no
\* other (authentication.go:125, credentials.go:239).
AuthenticatedAsGranted ==
  \A q \in Requests : pc[q] = "authenticated" =>
    /\ ~Ambiguous(asked[q])
    /\ Assertions(asked[q]) =
         IF outcome[q] = None THEN {[scheme |-> "AEP", secret |-> actor[q]]} ELSE {}
    /\ outcome[q] # None =>
         /\ \E g \in Grants :
              pc[g] = "granted" /\ outcome[g] = outcome[q] /\ actor[g] = actor[q]
         /\ \A g \in Grants :
              pc[g] = "granted" /\ asked[g] = credentials[outcome[q]].type
                /\ PresentedAs(asked[g], asked[q]) = {credentials[outcome[g]].secret}
                => actor[g] = actor[q]
================================================================================
