---------------------------- MODULE PlatformProvider ----------------------------
(***************************************************************************)
(* agent.PlatformIdentityProvider: the Agent's client of a Platform.  Its  *)
(* discovery document is cached under one mutex that is held across the    *)
(* HTTP exchange; List, Provision and Sign are one exchange each, which the *)
(* HTTP transport may send twice because it carries an Idempotency-Key.    *)
(* Which URL answers discovery is left out, redirects are counted.  The    *)
(* Platform appears by its document and its handlers (see PlatformIdentity).*)
(***************************************************************************)
EXTENDS Integers, FiniteSets

CONSTANTS
  Calls,                    \* calls of the provider; each one is made once
  Requests,                 \* Requests[c]: the requests call c may make; sign
                            \* requests carry the claims' own fields
  Services,
  Changes,                  \* the statuses an identity is changed to
  Documents,                \* successive versions of the Platform's document
  InvalidDocuments,         \* those a provider of this version does not take
  CacheControls,            \* Cache-Control headers: [store, reuse, maxAge];
                            \* None is a response without the header
  maximumInspectRedirects,
  RequestTimeout,
  DefaultMaxAge,            \* 300 seconds
  MaxStages,                \* bound on the pending answers to one Sign
  MaxClock,                 \* bound on the clock
  None

ASSUME TimesAssumption ==
  {maximumInspectRedirects, RequestTimeout, DefaultMaxAge, MaxStages, MaxClock} \subseteq Nat
ASSUME DocumentsAssumption == Documents \subseteq Nat /\ 0 \in Documents
\* A max-age that is no number of seconds is not reused (platformDiscoveryFresh).
ASSUME CacheControlsAssumption == \A h \in CacheControls \ {None} : h.maxAge \in Nat

AllRequests == UNION {Requests[c] : c \in Calls}
ASSUME RequestsAssumption ==
  \A r \in AllRequests : r.op \in {"find", "getOrCreate", "sign"} /\ r.service \in Services

Statuses == {"active", "revoked", "suspended", "terminated"}
ASSUME ChangesAssumption == Changes \subseteq Statuses

VARIABLES
  request,      \* request[c]: what call c asks for, or None
  stage,        \* stage[c]: where call c is
  purpose,      \* purpose[c]: the command call c needs the document for
  attempt,      \* attempt[c]: the pending answers call c has had resolved
  started,      \* started[c]: when the HTTP exchange of call c began
  redirects,    \* redirects[c]: redirects followed in it
  used,         \* used[c]: the document discover last returned to c, when, and
                \* when the command that follows it left, if it did
  reply,        \* reply[c]: what call c returned, or None
  discoveryMu,  \* the call that holds the mutex, or None
  discovery,    \* the cache: [document, cachedAt, cacheControl], or None
  wire,         \* requests on their way to the Platform
  answer,       \* answer[c]: the response on its way to call c, or None
  clock,
  document,     \* the document the Platform publishes
  superseded,   \* superseded[d]: when the Platform replaced d, or None
  agents,       \* agents[s]: the status of its identity for s, or None
  live,         \* live[c]: Services whose identity has been active during c
  memory        \* its idempotency store: [key, answer]

callVars == <<request, stage, purpose, attempt, started, redirects, used, reply>>
cacheVars == <<discoveryMu, discovery>>
netVars == <<wire, answer>>
platformVars == <<document, superseded, agents, live, memory>>
vars == <<callVars, cacheVars, netVars, clock, platformVars>>

\* NewPlatformIdentityProvider: nothing is cached.
Init ==
  /\ request = [c \in Calls |-> None]
  /\ stage = [c \in Calls |-> "idle"]
  /\ purpose = [c \in Calls |-> None]
  /\ attempt = [c \in Calls |-> 0]
  /\ started = [c \in Calls |-> None]
  /\ redirects = [c \in Calls |-> 0]
  /\ used = [c \in Calls |-> None]
  /\ reply = [c \in Calls |-> None]
  /\ discoveryMu = None
  /\ discovery = None
  /\ wire = {}
  /\ answer = [c \in Calls |-> None]
  /\ clock = 0
  /\ document = 0
  /\ superseded = [d \in Documents |-> None]
  /\ agents = [s \in Services |-> None]
  /\ live = [c \in Calls |-> {}]
  /\ memory = {}

Error == [kind |-> "error"]
\* serviceIdentity: what the Agent keeps of a Platform's identity.
Identity(s) == [kind |-> "identity", service |-> s]
NoIdentity == [kind |-> "none"]
ASSUME NoneAssumption ==
  /\ None \notin Calls \cup AllRequests \cup Nat \cup {Error, NoIdentity}
  /\ None \notin {Identity(s) : s \in Services}
  /\ None \notin {[document |-> d, at |-> t, left |-> None] : d \in Documents, t \in 0..MaxClock}

Return(c, r) ==
  /\ stage' = [stage EXCEPT ![c] = "done"]
  /\ reply' = [reply EXCEPT ![c] = r]

\* The context of an exchange is cancelled when it is over.
EndExchange(c) ==
  /\ started' = [started EXCEPT ![c] = None]
  /\ used' = [used EXCEPT ![c] = None]
  /\ redirects' = [redirects EXCEPT ![c] = 0]

Active(s) == agents[s] = "active"

-----------------------------------------------------------------------------
(* The calls, and the discovery each of their commands begins with.         *)

Discover(c, command) ==
  /\ stage' = [stage EXCEPT ![c] = "discover"]
  /\ purpose' = [purpose EXCEPT ![c] = command]
  /\ UNCHANGED reply

\* The signer of an identity signs claims of that identity only.
SignerAccepts(r) == r.claims.audience = r.service

\* SignerFor takes an identity the Platform once told of as active.
validatePlatformIdentity(s) == agents[s] # None

Call(c, r) ==
  /\ request[c] = None
  /\ r.op = "sign" => validatePlatformIdentity(r.service)
  /\ request' = [request EXCEPT ![c] = r]
  /\ live' = [live EXCEPT ![c] = {s \in Services : Active(s)}]
  /\ CASE r.op \in {"find", "getOrCreate"} -> Discover(c, "list")
       [] r.op = "sign" ->
            IF SignerAccepts(r) THEN Discover(c, "sign")
            ELSE Return(c, Error) /\ UNCHANGED purpose
  /\ UNCHANGED <<attempt, started, redirects, used, cacheVars, netVars, clock, document,
                 superseded, agents, memory>>

MaxAge(cacheControl) == IF cacheControl = None THEN DefaultMaxAge ELSE cacheControl.maxAge
Reusable(cacheControl) ==
  cacheControl # None => cacheControl.reuse /\ cacheControl.store
Storable(cacheControl) == cacheControl # None => cacheControl.store

\* Fault: an entry is fresh until its age exceeds max-age.
FreshInclusive(entry, now) ==
  Reusable(entry.cacheControl) /\ entry.cachedAt + MaxAge(entry.cacheControl) >= now

\* platformDiscoveryFresh.
Fresh(entry, now) ==
  Reusable(entry.cacheControl) /\ entry.cachedAt + MaxAge(entry.cacheControl) > now

\* newIdempotencyKey draws at random: a key is the call and its stage.
Key(c) == <<c, purpose[c], attempt[c]>>

Command(c) ==
  [call |-> c, command |-> purpose[c], key |-> Key(c), service |-> request[c].service,
   claims |-> IF purpose[c] = "sign" THEN request[c].claims ELSE None,
   context |-> attempt[c]]

\* The document names the endpoint; the timeout of the command begins before
\* the headers callback.
Discovered(c, d) ==
  /\ stage' = [stage EXCEPT ![c] = "leaving"]
  /\ started' = [started EXCEPT ![c] = clock]
  /\ used' = [used EXCEPT ![c] = [document |-> d, at |-> clock, left |-> None]]

\* discover locks, and looks at the cache.
DiscoverCached(c) ==
  /\ stage[c] = "discover" /\ discoveryMu = None
  /\ discovery # None /\ Fresh(discovery, clock)
  /\ Discovered(c, discovery.document)
  /\ UNCHANGED <<request, purpose, attempt, redirects, reply, cacheVars, netVars, clock,
                 platformVars>>

BeginDiscovery(c) ==
  /\ stage[c] = "discover" /\ discoveryMu = None
  /\ discovery # None => ~Fresh(discovery, clock)
  /\ discoveryMu' = c
  /\ stage' = [stage EXCEPT ![c] = "fetching"]
  /\ started' = [started EXCEPT ![c] = clock]
  /\ UNCHANGED <<request, purpose, attempt, redirects, used, reply, discovery, netVars, clock,
                 platformVars>>

\* A redirect that stays at the origin; any other is an error.
FollowRedirect(c) ==
  /\ stage[c] = "fetching" /\ answer[c] = None
  /\ redirects[c] < maximumInspectRedirects
  /\ redirects' = [redirects EXCEPT ![c] = @ + 1]
  /\ UNCHANGED <<request, stage, purpose, attempt, started, used, reply, cacheVars, netVars,
                 clock, platformVars>>

\* discoveryResponse: 304 renews the cached entry, and keeps its Cache-Control
\* unless it brings another.
Entry(response) ==
  IF response.modified
  THEN [document |-> response.document, cachedAt |-> clock,
        cacheControl |-> response.cacheControl]
  ELSE [document |-> discovery.document, cachedAt |-> clock,
        cacheControl |-> IF response.cacheControl = None THEN discovery.cacheControl
                         ELSE response.cacheControl]

validatePlatformDiscovery(d) == d \notin InvalidDocuments

\* A document that is refused, Fail, leaves the cache as it was.
ReceiveDiscovery(c) ==
  /\ stage[c] = "fetching" /\ answer[c] # None
  /\ answer[c].modified => validatePlatformDiscovery(answer[c].document)
  /\ LET entry == Entry(answer[c]) IN
       /\ discovery' = IF Storable(entry.cacheControl) THEN entry ELSE None
       /\ Discovered(c, entry.document)
  /\ discoveryMu' = None
  /\ redirects' = [redirects EXCEPT ![c] = 0]
  /\ answer' = [answer EXCEPT ![c] = None]
  /\ UNCHANGED <<request, purpose, attempt, reply, wire, clock, platformVars>>

\* The headers callback has returned; nobody looks at the cache again.
SendCommand(c) ==
  /\ stage[c] = "leaving"
  /\ stage' = [stage EXCEPT ![c] = "sent"]
  /\ used' = [used EXCEPT ![c].left = clock]
  /\ wire' = wire \cup {Command(c)}
  /\ UNCHANGED <<request, purpose, attempt, started, redirects, reply, cacheVars, answer, clock,
                 platformVars>>

-----------------------------------------------------------------------------
(* The Platform.                                                            *)

\* Discovery compares If-None-Match with the document of the moment.
ServeDiscovery(c) ==
  /\ stage[c] = "fetching" /\ answer[c] = None
  /\ \E cacheControl \in CacheControls :
       answer' = [answer EXCEPT ![c] =
         [modified |-> discovery = None \/ discovery.document # document,
          document |-> document, cacheControl |-> cacheControl]]
  /\ UNCHANGED <<callVars, cacheVars, wire, clock, platformVars>>

\* The Platform is deployed with other options, New makes another document.
ReplaceDocument ==
  /\ document + 1 \in Documents
  /\ document' = document + 1
  /\ superseded' = [superseded EXCEPT ![document] = clock]
  /\ UNCHANGED <<callVars, cacheVars, netVars, clock, agents, live, memory>>

SetStatus(s, status) ==
  /\ agents' = [agents EXCEPT ![s] = status]
  /\ live' = IF status = "active" THEN [c \in Calls |-> live[c] \cup {s}] ELSE live

\* Lifecycle, by whoever manages the Platform's identities.
UpdateIdentity(s, status) ==
  /\ agents[s] \notin {None, status}
  /\ SetStatus(s, status)
  /\ UNCHANGED <<callVars, cacheVars, netVars, clock, document, superseded, memory>>

Awaited(m) == stage[m.call] = "sent" /\ Key(m.call) = m.key

\* The transport sends a request again when the connection broke under it.
Answer(m, a) ==
  \/ wire' = wire \ {m} /\ answer' = IF Awaited(m) THEN [answer EXCEPT ![m.call] = a] ELSE answer
  \/ Awaited(m) /\ UNCHANGED netVars

Shown(s) == [kind |-> "identity", service |-> s, status |-> agents[s]]

ServeList(m) ==
  /\ m.command = "list"
  /\ Answer(m, [kind |-> "list",
                data |-> IF agents[m.service] = None THEN {} ELSE {Shown(m.service)}])
  /\ UNCHANGED <<callVars, cacheVars, clock, platformVars>>

Recalled(m) == {e \in memory : e.key = m.key}

Remembering(m, a) ==
  /\ Answer(m, a)
  /\ memory' = memory \cup {[key |-> m.key, answer |-> a]}

Replay(m) ==
  /\ m.command # "list"
  /\ \E e \in Recalled(m) : Answer(m, e.answer)
  /\ UNCHANGED <<callVars, cacheVars, clock, platformVars>>

\* Provision shows the one identity there is, whatever its status.
ServeProvision(m) ==
  /\ m.command = "provision" /\ Recalled(m) = {}
  /\ IF agents[m.service] = None THEN SetStatus(m.service, "active")
     ELSE UNCHANGED <<agents, live>>
  /\ Remembering(m, [kind |-> "identity", service |-> m.service,
                     status |-> agents'[m.service]])
  /\ UNCHANGED <<callVars, cacheVars, clock, document, superseded>>

ServeSign(m) ==
  /\ m.command = "sign" /\ Recalled(m) = {} /\ Active(m.service)
  /\ \/ Remembering(m, [kind |-> "assertion", service |-> m.service, claims |-> m.claims])
     \/ m.context < MaxStages /\ Remembering(m, [kind |-> "pending"])
  /\ UNCHANGED <<callVars, cacheVars, clock, document, superseded, agents, live>>

-----------------------------------------------------------------------------
(* Answers at the Agent.                                                    *)

Received(c, command) ==
  /\ stage[c] = "sent" /\ purpose[c] = command
  /\ answer[c] # None
  /\ answer' = [answer EXCEPT ![c] = None]
  /\ EndExchange(c)

\* Fault: an identity is taken for usable because it is listed.
UsableWhenListed(c) == {i \in answer[c].data : i.service = request[c].service}

\* FindIdentityByServiceDID takes active identities only.
Usable(c) ==
  {i \in answer[c].data : i.service = request[c].service /\ i.status = "active"}

validatePlatformAgentIdentity(i) == i.service \in Services /\ i.status \in Statuses

ReceiveList(c) ==
  /\ Received(c, "list") /\ \A i \in answer[c].data : validatePlatformAgentIdentity(i)
  /\ IF Usable(c) # {} THEN Return(c, Identity(request[c].service)) /\ UNCHANGED purpose
     ELSE IF request[c].op = "find" THEN Return(c, NoIdentity) /\ UNCHANGED purpose
     ELSE Discover(c, "provision")
  /\ UNCHANGED <<request, attempt, cacheVars, wire, clock, platformVars>>

ReceiveProvision(c) ==
  /\ Received(c, "provision") /\ validatePlatformAgentIdentity(answer[c])
  /\ Return(c, IF answer[c].service = request[c].service /\ answer[c].status = "active"
               THEN Identity(request[c].service) ELSE Error)
  /\ UNCHANGED <<request, purpose, attempt, cacheVars, wire, clock, platformVars>>

validCompletedSignResponse(c) ==
  /\ answer[c].service = request[c].service
  /\ answer[c].claims.jti = request[c].claims.jti
  /\ answer[c].claims.lifetime = request[c].claims.lifetime

\* sign: a completed answer that fits, or a pending one.
CompletedSign(c) == answer[c].kind = "assertion" /\ validCompletedSignResponse(c)

\* A pending answer goes to the PendingSignResolver, where there is one, and
\* the signer asks again under another key.
ReceiveSign(c, resolved) ==
  /\ Received(c, "sign")
  /\ IF answer[c].kind = "pending" /\ resolved
     THEN Discover(c, "sign") /\ attempt' = [attempt EXCEPT ![c] = @ + 1]
     ELSE /\ Return(c, IF CompletedSign(c) THEN answer[c] ELSE Error)
          /\ UNCHANGED <<purpose, attempt>>
  /\ UNCHANGED <<request, cacheVars, wire, clock, platformVars>>

\* Fault: the mutex is not released on the way out of an error.
FailKeepsMutex(c) ==
  /\ stage[c] \in {"fetching", "leaving", "sent"}
  /\ Return(c, Error)
  /\ EndExchange(c)
  /\ answer' = [answer EXCEPT ![c] = None]
  /\ UNCHANGED <<request, purpose, attempt, cacheVars, wire, clock, platformVars>>

\* The exchange, a validation, a callback or the context fails.
Fail(c) ==
  /\ stage[c] \in {"fetching", "leaving", "sent"}
  /\ Return(c, Error)
  /\ EndExchange(c)
  /\ discoveryMu' = IF discoveryMu = c THEN None ELSE discoveryMu
  /\ answer' = [answer EXCEPT ![c] = None]
  /\ UNCHANGED <<request, purpose, attempt, discovery, wire, clock, platformVars>>

\* No exchange outlives its timeout.
Tick ==
  /\ clock < MaxClock
  /\ \A c \in Calls :
       stage[c] \in {"fetching", "leaving", "sent"} => clock < started[c] + RequestTimeout
  /\ clock' = clock + 1
  /\ UNCHANGED <<callVars, cacheVars, netVars, platformVars>>

Next ==
  \/ \E c \in Calls :
       \/ \E r \in Requests[c] : Call(c, r)
       \/ DiscoverCached(c) \/ BeginDiscovery(c) \/ FollowRedirect(c) \/ ReceiveDiscovery(c)
       \/ ServeDiscovery(c) \/ SendCommand(c)
       \/ ReceiveList(c) \/ ReceiveProvision(c)
       \/ \E resolved \in BOOLEAN : ReceiveSign(c, resolved)
       \/ Fail(c)
  \/ \E m \in wire : ServeList(m) \/ Replay(m) \/ ServeProvision(m) \/ ServeSign(m)
  \/ ReplaceDocument
  \/ \E s \in Services, status \in Changes : UpdateIdentity(s, status)
  \/ Tick

Spec == Init /\ [][Next]_vars

-----------------------------------------------------------------------------
\* Types; the mutex is held exactly by the call that fetches; what is cached
\* may be stored and was published.
TypeOK ==
  /\ request \in [Calls -> AllRequests \cup {None}]
  /\ stage \in [Calls -> {"idle", "discover", "fetching", "leaving", "sent", "done"}]
  /\ purpose \in [Calls -> {"list", "provision", "sign", None}]
  /\ attempt \in [Calls -> 0..MaxStages]
  /\ redirects \in [Calls -> 0..maximumInspectRedirects]
  /\ \A c \in Calls : (reply[c] # None) = (stage[c] = "done")
  /\ \A c \in Calls : (stage[c] = "fetching") = (discoveryMu = c)
  /\ discovery # None => /\ discovery.document \in 0..document
                         /\ discovery.cachedAt \in 0..clock
                         /\ Storable(discovery.cacheControl)
  /\ agents \in [Services -> Statuses \cup {None}]
  /\ document \in Documents /\ clock \in 0..MaxClock

\* At time t, document d was the Platform's own no longer ago than slack and
\* the longest max-age the Platform gives.
ReplacedWithin(d, t, slack) ==
  superseded[d] # None =>
    \/ t - superseded[d] <= slack
    \/ \E h \in CacheControls : Reusable(h) /\ t - superseded[d] < slack + MaxAge(h)

\* The document discover returns was the Platform's own no longer ago than the
\* longest max-age it gives and one request timeout, however often the entry is
\* renewed, shared by callers or answered late; a command that leaves after the
\* mutex is gone and its headers are made adds no more than its own timeout; and
\* no command follows a document that is not valid.
UsedWhileFresh ==
  \A c \in Calls : used[c] # None =>
    /\ used[c].document \notin InvalidDocuments
    /\ ReplacedWithin(used[c].document, used[c].at, RequestTimeout)
    /\ used[c].left # None =>
         ReplacedWithin(used[c].document, used[c].left, 2 * RequestTimeout)

\* An identity the provider returns was active during the call, whatever is
\* suspended, provisioned and sent twice meanwhile; an assertion is the one
\* that was asked for, with the claims the response does not repeat too.
AnswersHold ==
  \A c \in Calls : reply[c] # None =>
    /\ reply[c].kind = "identity" => request[c].service \in live[c]
    /\ reply[c].kind = "assertion" =>
         reply[c].claims = request[c].claims /\ request[c].service \in live[c]
================================================================================
