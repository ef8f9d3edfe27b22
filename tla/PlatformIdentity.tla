---------------------------- MODULE PlatformIdentity ----------------------------
(***************************************************************************)
(* platform.Platform: identities provisioned for a principal and a         *)
(* Service, the assertions signed with their keys, hosted verification and *)
(* the lifecycle, with the memory identity store and the memory replay     *)
(* store.  Provision, Sign and Verify run behind the idempotency store,    *)
(* which appears here as IdempotencyContract promises it.  The key store,  *)
(* the authorizer, the Service DID resolver, the sign handler and the      *)
(* lifecycle policy belong to the application.                             *)
(***************************************************************************)
EXTENDS Integers, FiniteSets, SequencesExt

CONSTANTS
  Calls,            \* calls of Platform methods; each one is made once
  Requests,         \* Requests[c]: the requests call c may make, with the
                    \* requestContext; "now" is its Now, None for the clock
  Principals, Services,
  Ids,              \* agent identity ids the generators may draw, as ordered
  Dids,             \* Agent DIDs (an Agent DID id and its DID are one value)
  Transitions,      \* <<from, to>> pairs LifecyclePolicy.CanTransition allows
  MaximumLifetime, DefaultLifetime,
  HostedVerification,
  MaxClock,         \* bound on the clock
  None

MaximumListLimit == 100

Statuses == {"active", "revoked", "suspended", "terminated"}

\* New refuses lifetimes outside the protocol's maximum, a default above it.
ValidOptions ==
  /\ {MaximumLifetime, DefaultLifetime} \subseteq 1..300
  /\ DefaultLifetime <= MaximumLifetime
  /\ HostedVerification \in BOOLEAN
ASSUME OptionsAssumption == ValidOptions
ASSUME DataAssumption ==
  MaxClock \in Nat /\ Ids \subseteq Nat /\ None \notin Int

Idempotent == {"provision", "sign", "verify"}

\* executeIdempotent hashes the request (the Sign material adds the identity
\* id); requestContext.Now is not part of what is hashed.
InputOf(r) ==
  LET material == IF r.op = "provision" THEN r ELSE [r EXCEPT !.now = None]
  IN  [owner |-> r.principal, key |-> r.key, command |-> r.op,
       canonical |-> material, hash |-> material]

AllRequests == UNION {Requests[c] : c \in Calls}
ASSUME RequestsAssumption ==
  /\ None \notin AllRequests /\ None \notin Calls
  /\ \A r \in AllRequests : r.op = "provision" =>
       r.principal \in Principals /\ r.service \in Services
  /\ \A r \in AllRequests : r.op = "update" => r.to \in Statuses
  /\ \A r \in AllRequests : r.op \in {"sign", "verify"} => r.now \in Int \cup {None}
  /\ \A r \in AllRequests : r.op = "verify" => r.of \in Calls

Inputs == {InputOf(r) : r \in {q \in AllRequests : q.op \in Idempotent}}

VARIABLES
  request,     \* request[c]: the request call c made, or None
  identity,    \* identity[c]: the copy of the record that call c read, or None
  draft,       \* draft[c]: the record createIdentity made for call c, or None
  result,      \* result[c]: what the execution of call c computed, or None
  reply,       \* reply[c]: what call c returned, or None
  records,     \* records[id]: memoryIdentityStore.records, None when absent
  pending,     \* pending[scope]: the call creating the scope's identity, or None
  keys,        \* Agent DIDs the key store has created a key for
  replayed,    \* memoryReplayStore.records: pairs [key, expiry]
  clock,       \* time.Now, which is the Platform's clock by default
  asked, executing, memory, answer    \* the idempotency store

callVars == <<request, identity>>
storeVars == <<records, pending, keys>>
idemVars == <<asked, executing, memory, answer>>
vars == <<callVars, draft, result, reply, storeVars, replayed, clock, idemVars>>

Idem == INSTANCE IdempotencyContract

Scopes == Principals \X Services

Identities ==
  [id : Ids, did : Dids, principal : Principals, service : Services,
   status : Statuses, created : 0..MaxClock]

ASSUME NoneAssumption == None \notin Identities

Scope(record) == <<record.principal, record.service>>
Stored == {records[id] : id \in {i \in Ids : records[i] # None}}

\* Responses.  An assertion is known by its claims and the key that signed it.
Shown(record) == [kind |-> "identity", id |-> record.id, status |-> record.status]
Problem(code) == [kind |-> "problem", code |-> code]
Pending == [kind |-> "pending"]
Error == [kind |-> "error"]
Unrecognized == [kind |-> "unrecognized"]

\* New: the memory stores start empty.
Init ==
  /\ request = [c \in Calls |-> None]
  /\ identity = [c \in Calls |-> None]
  /\ draft = [c \in Calls |-> None]
  /\ result = [c \in Calls |-> None]
  /\ reply = [c \in Calls |-> None]
  /\ records = [id \in Ids |-> None]
  /\ pending = [s \in Scopes |-> None]
  /\ keys = {}
  /\ replayed = {}
  /\ clock = 0
  /\ Idem!Init

Time(c) == IF request[c].now = None THEN clock ELSE request[c].now

Return(c, r) == reply' = [reply EXCEPT ![c] = r]

Arrives(c, r) ==
  /\ request[c] = None
  /\ request' = [request EXCEPT ![c] = r]
  /\ UNCHANGED <<draft, result, storeVars, replayed, clock>>

\* A call the store lets in waits there for its turn; the copy it read stays
\* with it (Provision reads none).
EntersStore(c, r, copy) ==
  /\ Idem!Ask(c, InputOf(r))
  /\ identity' = [identity EXCEPT ![c] = copy]
  /\ UNCHANGED reply

Turned(c, response) == Return(c, response) /\ UNCHANGED <<identity, idemVars>>

-----------------------------------------------------------------------------
(* Receiving a request: validation, the read of the identity and the       *)
(* authorizer, whose verdict is "ok".                                       *)

ReceiveProvision(c, r, ok) ==
  /\ r.op = "provision"
  /\ Arrives(c, r)
  /\ IF ok THEN EntersStore(c, r, None) ELSE Turned(c, Problem("not_recognized"))

RecognizedByAuthorizer(r, ok) ==
  IF r.id \in Ids /\ records[r.id] # None /\ ok THEN records[r.id] ELSE None

\* authorizedIdentity: the stored record, only to its own principal.
Recognized(r, ok) ==
  IF r.id \in Ids /\ records[r.id] # None /\ ok /\ records[r.id].principal = r.principal
  THEN records[r.id] ELSE None

\* A resource goes with "authenticate" and with no other operation.
ResourceFits(r) == (r.aop = "authenticate") = (r.resource # None)

ValidSignRequest(r) ==
  /\ ResourceFits(r)
  /\ r.lifetime # None => r.lifetime \in 1..MaximumLifetime

ReceiveSign(c, r, ok) ==
  /\ r.op = "sign"
  /\ Arrives(c, r)
  /\ LET found == Recognized(r, ok) IN
       IF ~ValidSignRequest(r) THEN Turned(c, Problem("invalid_request"))
       ELSE IF found = None THEN Turned(c, Problem("not_recognized"))
       ELSE IF found.service # r.service THEN Turned(c, Problem("not_recognized"))
       ELSE EntersStore(c, r, found)

\* The assertion of a Verify request is the one call r.of signed.
Presented(r) ==
  IF result[r.of] = None THEN None
  ELSE IF result[r.of].kind = "assertion" THEN result[r.of] ELSE None

Signer(assertion) == {record \in Stored : record.did = assertion.did}

ReceiveVerify(c, r, ok) ==
  /\ r.op = "verify"
  /\ Arrives(c, r)
  /\ IF ~HostedVerification THEN Turned(c, Problem("not_recognized"))
     ELSE IF ~ResourceFits(r) THEN Turned(c, Problem("invalid_request"))
     ELSE IF Presented(r) = None THEN Turned(c, Unrecognized)
     ELSE LET found == {s \in Signer(Presented(r)) : s.service = r.service /\ ok} IN
            IF found = {} THEN Turned(c, Unrecognized)
            ELSE \E s \in found : EntersStore(c, r, s)

Read(c, r, ok) ==
  /\ Arrives(c, r)
  /\ Turned(c, IF Recognized(r, ok) = None THEN Problem("not_recognized")
               ELSE Shown(Recognized(r, ok)))

GetIdentity(c, r, ok) == r.op = "get" /\ Read(c, r, ok)

\* CreateDIDDocument: the key is the one the key store has for the identity.
CreateDIDDocument(record) == [kind |-> "document", did |-> record.did, key |-> record.did]

\* GetDIDDocument asks no authorizer: the DID document is public.
GetDIDDocument(c, r) ==
  /\ r.op = "document"
  /\ Arrives(c, r)
  /\ LET found == {s \in Stored : s.did = r.did} IN
       IF found = {} THEN Turned(c, Problem("not_recognized"))
       ELSE \E s \in found : Turned(c, CreateDIDDocument(s))

\* ListIdentities: by creation time, then by id; a page of the whole.
Selected(r) ==
  {s \in Stored : /\ s.principal = r.principal
                  /\ r.service # None => s.service = r.service
                  /\ r.status # None => s.status = r.status}

Earlier(a, b) == a.created < b.created \/ (a.created = b.created /\ a.id < b.id)

\* The one enumeration of the set in that order.
Sorted(set) ==
  {f \in [1..Cardinality(set) -> set] :
     \A i, j \in 1..Cardinality(set) : i < j => Earlier(f[i], f[j])}

Page(sorted, offset, limit) ==
  LET last == offset + (IF limit = 0 THEN MaximumListLimit ELSE limit)
  IN  SubSeq(sorted, offset + 1, IF last > Len(sorted) THEN Len(sorted) ELSE last)

ValidListQuery(r) == r.limit \in 0..MaximumListLimit /\ r.offset \in Nat

List(c, r, ok) ==
  /\ r.op = "list"
  /\ Arrives(c, r)
  /\ IF ~ValidListQuery(r) THEN Turned(c, Problem("invalid_request"))
     ELSE IF ~ok THEN Turned(c, Problem("not_recognized"))
     ELSE \E ascending \in Sorted(Selected(r)) :
            LET sorted == IF r.descending THEN Reverse(ascending) ELSE ascending
                page == Page(sorted, r.offset, r.limit)
            IN  Turned(c, [kind |-> "identities", total |-> Len(sorted),
                           page |-> [i \in DOMAIN page |-> page[i].id]])

\* UpdateIdentity asks the policy about the copy it read; the store is
\* written in a later step.
ReceiveUpdate(c, r, ok) ==
  /\ r.op = "update"
  /\ Arrives(c, r)
  /\ LET found == Recognized(r, ok) IN
       IF found = None THEN Turned(c, Problem("not_recognized"))
       ELSE IF <<found.status, r.to>> \notin Transitions
       THEN Turned(c, Problem("lifecycle"))
       ELSE /\ identity' = [identity EXCEPT ![c] = found]
            /\ UNCHANGED <<reply, idemVars>>

ApplyUpdate(c) ==
  /\ identity[c] # None /\ request[c].op = "update" /\ reply[c] = None
  /\ records' = [records EXCEPT ![identity[c].id].status = request[c].to]
  /\ Return(c, Shown(records'[identity[c].id]))
  /\ UNCHANGED <<callVars, draft, result, pending, keys, replayed, clock, idemVars>>

-----------------------------------------------------------------------------
(* The commands the idempotency store runs, and their way out of it.        *)

Executing(c, op) ==
  /\ request[c] # None
  /\ request[c].op = op
  /\ asked[c] # None
  /\ executing[Idem!Slot(asked[c])] = c
  /\ result[c] = None

Compute(c, response) == result' = [result EXCEPT ![c] = response]

Begin(c) ==
  /\ Idem!Begin(c)
  /\ UNCHANGED <<callVars, draft, result, reply, storeVars, replayed, clock>>

MyScope(c) == <<request[c].principal, request[c].service>>
Creating(c) == pending[MyScope(c)] = c

ServiceUnresolved(c) ==
  /\ Executing(c, "provision") /\ ~Creating(c)
  /\ Compute(c, Problem("invalid_request"))
  /\ UNCHANGED <<callVars, draft, reply, storeVars, replayed, clock, idemVars>>

InScope(scope) == {s \in Stored : Scope(s) = scope}

FindIdentity(c) ==
  /\ Executing(c, "provision") /\ ~Creating(c)
  /\ \E s \in InScope(MyScope(c)) : Compute(c, Shown(s))
  /\ UNCHANGED <<callVars, draft, reply, storeVars, replayed, clock, idemVars>>

ClaimWithoutLookup(c) ==
  /\ Executing(c, "provision")
  /\ pending[MyScope(c)] = None
  /\ pending' = [pending EXCEPT ![MyScope(c)] = c]
  /\ UNCHANGED <<callVars, draft, result, reply, records, keys, replayed, clock, idemVars>>

\* A call that finds a creation pending waits for it outside the lock.
ClaimCreation(c) ==
  /\ Executing(c, "provision")
  /\ InScope(MyScope(c)) = {} /\ pending[MyScope(c)] = None
  /\ pending' = [pending EXCEPT ![MyScope(c)] = c]
  /\ UNCHANGED <<callVars, draft, result, reply, records, keys, replayed, clock, idemVars>>

\* createIdentity draws an id and a DID and makes the key before anybody
\* can see the identity.
CreateIdentity(c) ==
  /\ Executing(c, "provision") /\ Creating(c) /\ draft[c] = None
  /\ \E id \in Ids, did \in Dids :
       /\ draft' = [draft EXCEPT ![c] =
            [id |-> id, did |-> did, principal |-> request[c].principal,
             service |-> request[c].service, status |-> "active", created |-> clock]]
       /\ keys' = keys \cup {did}
  /\ UNCHANGED <<callVars, result, reply, records, pending, replayed, clock, idemVars>>

TakenById(record) == records[record.id] # None

\* Drawn twice: the id of a stored identity, or its DID.
Taken(record) == records[record.id] # None \/ \E s \in Stored : s.did = record.did

PublishIdentity(c) ==
  /\ Executing(c, "provision") /\ draft[c] # None /\ ~Taken(draft[c])
  /\ records' = [records EXCEPT ![draft[c].id] = draft[c]]
  /\ pending' = [pending EXCEPT ![MyScope(c)] = None]
  /\ draft' = [draft EXCEPT ![c] = None]
  /\ Compute(c, Shown(draft[c]))
  /\ UNCHANGED <<callVars, reply, keys, replayed, clock, idemVars>>

SignRefused(c) ==
  /\ Executing(c, "sign") /\ identity[c].status # "active"
  /\ Compute(c, Problem("lifecycle"))
  /\ UNCHANGED <<callVars, draft, reply, storeVars, replayed, clock, idemVars>>

\* validateSignResult: what a sign handler may answer in the key store's place.
\* A completed response is left out: it is a Sign by other means.
validateSignResult == {Pending, Problem("invalid_request")}

SignHandled(c) ==
  /\ Executing(c, "sign") /\ identity[c].status = "active"
  /\ \E r \in validateSignResult : Compute(c, r)
  /\ UNCHANGED <<callVars, draft, reply, storeVars, replayed, clock, idemVars>>

Lifetime(r) == IF r.lifetime = None THEN DefaultLifetime ELSE r.lifetime

Assertion(c) ==
  [kind |-> "assertion", did |-> identity[c].did, aud |-> request[c].service,
   aop |-> request[c].aop, jti |-> request[c].jti, resource |-> request[c].resource,
   iat |-> Time(c), exp |-> Time(c) + Lifetime(request[c])]

Sign(c) ==
  /\ Executing(c, "sign") /\ identity[c].status = "active" /\ identity[c].did \in keys
  /\ Compute(c, Assertion(c))
  /\ UNCHANGED <<callVars, draft, reply, storeVars, replayed, clock, idemVars>>

\* aep.VerifyClientAssertion as Verify calls it: no clock tolerance.
VerifyClientAssertion(a, r, signer, at) ==
  /\ a.aud = r.service /\ a.did = signer.did /\ a.aop = r.aop
  /\ r.resource # None => a.resource = r.resource
  /\ a.iat <= at /\ at < a.exp

Verifiable(c) ==
  /\ identity[c].status = "active"
  /\ VerifyClientAssertion(Presented(request[c]), request[c], identity[c], Time(c))

ReplayKey(c) ==
  <<request[c].service, request[c].aop, identity[c].did, Presented(request[c]).jti>>

\* memoryReplayStore.ConsumeReplay judges expiry by time.Now.
Unexpired == {r \in replayed : r.expiry > clock}

ConsumableAtRequest(c) ==
  /\ Presented(request[c]).exp > Time(c)
  /\ \A r \in Unexpired : r.key # ReplayKey(c)

Consumable(c) ==
  /\ Presented(request[c]).exp > clock
  /\ \A r \in Unexpired : r.key # ReplayKey(c)

Verify(c) ==
  /\ Executing(c, "verify") /\ Verifiable(c) /\ Consumable(c)
  /\ replayed' = Unexpired \cup {[key |-> ReplayKey(c), expiry |-> Presented(request[c]).exp]}
  /\ Compute(c, [kind |-> "verified", id |-> identity[c].id, key |-> ReplayKey(c),
                 at |-> clock, exp |-> Presented(request[c]).exp])
  /\ UNCHANGED <<callVars, draft, reply, storeVars, clock, idemVars>>

VerifyUnrecognized(c) ==
  /\ Executing(c, "verify") /\ ~(Verifiable(c) /\ Consumable(c))
  /\ replayed' = IF Verifiable(c) /\ Presented(request[c]).exp > clock
                 THEN Unexpired ELSE replayed
  /\ Compute(c, Unrecognized)
  /\ UNCHANGED <<callVars, draft, reply, storeVars, clock, idemVars>>

\* The response is remembered and answered.
Finish(c) ==
  /\ result[c] # None
  /\ Idem!Finish(c)
  /\ Return(c, result[c])
  /\ UNCHANGED <<callVars, draft, result, storeVars, replayed, clock>>

FailKeepsPending(c) ==
  /\ result[c] = None
  /\ Idem!Fail(c)
  /\ draft' = [draft EXCEPT ![c] = None]
  /\ Return(c, Error)
  /\ UNCHANGED <<callVars, result, storeVars, replayed, clock>>

\* The application's code or the context failed the command, or the drawn id
\* or DID is taken.  A pending creation is released; its key stays.
Fail(c) ==
  /\ result[c] = None
  /\ Idem!Fail(c)
  /\ pending' = IF request[c].op = "provision" /\ Creating(c)
                THEN [pending EXCEPT ![MyScope(c)] = None] ELSE pending
  /\ draft' = [draft EXCEPT ![c] = None]
  /\ Return(c, Error)
  /\ UNCHANGED <<callVars, result, records, keys, replayed, clock>>

DuplicateRefused(c) == draft[c] # None /\ Taken(draft[c]) /\ Fail(c)

Recall(c) ==
  /\ Idem!Recall(c)
  /\ Return(c, IF answer'[c].state = "replayed" THEN result[answer'[c].response]
               ELSE Problem("idempotency_conflict"))
  /\ UNCHANGED <<callVars, draft, result, storeVars, replayed, clock>>

GiveUp(c) ==
  /\ Idem!GiveUp(c)
  /\ Return(c, Error)
  /\ UNCHANGED <<callVars, draft, result, storeVars, replayed, clock>>

Forget(slot) ==
  /\ memory[slot] # None
  /\ Idem!Forget({slot})
  /\ UNCHANGED <<callVars, draft, result, reply, storeVars, replayed, clock>>

Tick ==
  /\ clock < MaxClock
  /\ clock' = clock + 1
  /\ UNCHANGED <<callVars, draft, result, reply, storeVars, replayed, idemVars>>

Receive(c) ==
  \E r \in Requests[c], ok \in BOOLEAN :
    \/ ReceiveProvision(c, r, ok)
    \/ ReceiveSign(c, r, ok)
    \/ ReceiveVerify(c, r, ok)
    \/ GetIdentity(c, r, ok)
    \/ GetDIDDocument(c, r)
    \/ List(c, r, ok)
    \/ ReceiveUpdate(c, r, ok)

\* What a call does on its own, once it is made and while its context lasts.
Advance(c) ==
  \/ ApplyUpdate(c)
  \/ Begin(c) \/ Recall(c) \/ Finish(c)
  \/ FindIdentity(c) \/ ClaimCreation(c)
  \/ CreateIdentity(c) \/ PublishIdentity(c) \/ DuplicateRefused(c)
  \/ SignRefused(c) \/ SignHandled(c) \/ Sign(c)
  \/ Verify(c) \/ VerifyUnrecognized(c)

Next ==
  \/ \E c \in Calls :
       Receive(c) \/ Advance(c) \/ ServiceUnresolved(c) \/ Fail(c) \/ GiveUp(c)
  \/ \E slot \in Idem!Slots : Forget(slot)
  \/ Tick

\* The application's functions return, and a goroutine that can run does run:
\* nothing makes a function fail, the client give up or the clock move.
Fairness == \A c \in Calls : WF_vars(Advance(c))

Spec == Init /\ [][Next]_vars /\ Fairness

-----------------------------------------------------------------------------

\* Types, and that a creation is pending only while its call executes.
TypeOK ==
  /\ request \in [Calls -> AllRequests \cup {None}]
  /\ identity \in [Calls -> Identities \cup {None}]
  /\ draft \in [Calls -> Identities \cup {None}]
  /\ \A c \in Calls : \A r \in {result[c], reply[c]} : r # None =>
       r.kind \in {"identity", "identities", "document", "assertion", "verified",
                   "problem", "pending", "error", "unrecognized"}
  /\ records \in [Ids -> Identities \cup {None}]
  /\ \A id \in Ids : records[id] # None => records[id].id = id
  /\ pending \in [Scopes -> Calls \cup {None}]
  /\ \A scope \in Scopes :
       pending[scope] # None => Executing(pending[scope], "provision")
  /\ keys \subseteq Dids
  /\ \A r \in replayed : r.expiry > 0
  /\ clock \in 0..MaxClock
  /\ Idem!TypeOK

\* Two identities never share a scope, an Agent DID or a key, however many
\* creations race and whatever the generators draw; a scope being created has
\* none yet.
IdentitiesAreDistinct ==
  /\ \A s, t \in Stored : s # t => Scope(s) # Scope(t) /\ s.did # t.did
  /\ \A s \in Stored : s.did \in keys
  /\ \A scope \in Scopes : pending[scope] # None => InScope(scope) = {}

ProvisionAnswers ==
  {c \in Calls : /\ request[c] # None /\ reply[c] # None
                 /\ request[c].op = "provision" /\ reply[c].kind = "identity"}

\* Whoever provisions for a principal and a Service is told of one identity,
\* on every retry and under every idempotency key, and it stays stored.
ProvisionIsStable ==
  \A c \in ProvisionAnswers :
    /\ records[reply[c].id] # None /\ Scope(records[reply[c].id]) = MyScope(c)
    /\ \A d \in ProvisionAnswers :
         MyScope(c) = MyScope(d) => reply[c].id = reply[d].id

\* The identities a reply speaks of.
Disclosed(r) ==
  CASE r.kind = "identity" -> {records[r.id]}
    [] r.kind = "identities" -> {records[id] : id \in Range(r.page)}
    [] r.kind = "assertion" -> {s \in Stored : s.did = r.did}
    [] OTHER -> {}

\* Only an identity's own principal is shown it or signs with its key, and
\* only for its Service: from the store, from an execution and from a
\* remembered response alike.
ResultsArePrivate ==
  \A c \in Calls : request[c] # None /\ reply[c] # None =>
    /\ \A s \in Disclosed(reply[c]) : s.principal = request[c].principal
    /\ reply[c].kind = "assertion" =>
         \E s \in Disclosed(reply[c]) : Scope(s) = <<request[c].principal, reply[c].aud>>

Verified == {c \in Calls : result[c] # None /\ result[c].kind = "verified"}

\* Two executions never verify one assertion, nor two that share a replay key
\* while the first is unexpired, though expiry is judged by time.Now and the
\* assertion by the time of the request.
VerifiedOnce ==
  \A c, d \in Verified : c # d /\ result[c].key = result[d].key =>
    /\ request[c].of # request[d].of
    /\ result[c].exp <= result[d].at \/ result[d].exp <= result[c].at

\* Every request is answered: nobody waits for ever at the idempotency store
\* or for the creation of an identity (each call is made once, so in the end
\* all that were made have returned).
EveryRequestReturns ==
  <>[](\A c \in Calls : request[c] # None => reply[c] # None)

\* "PLT-LIFE-002 and PLT-SIGN-007 forbid signing for a revoked, suspended, or
\* terminated identity outright" (platform.go:307).
SignsOnlyWhileActive ==
  [][\A c \in Calls : Sign(c) => records[identity[c].id].status = "active"]_vars
================================================================================
