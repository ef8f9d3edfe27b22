# A verification of aep-go

TLA+ models of the Go SDK of the Agent Enrollment Protocol: Agents enroll with
Services, obtain and revoke credentials, and authenticate with signed
assertions; Platforms hold identities and sign for Agents. The modules are
translated from the code, operation by operation; TLC checks them on small
instances and TLAPS proves the central ones for every value of their constants.

The SDK's logic is small, but it is called concurrently, calls out to
application code (policies, issuers, verifiers, key stores) between two locked
sections, and promises at-most-once behaviour under retries. Those are the
things modelled here. `PROJECT.json` lists the runs, the correspondence of
definitions and source lines, the hazards and the theorems.

## Inventory

| Component | State | Operations | Interacts with | Hard part |
|---|---|---|---|---|
| Idempotency stores (`service/stores.go`, `platform/stores.go`) | responses by (owner, key); one channel per execution; clock | `ExecuteIdempotent` | wraps Enroll, Grant, Revoke; Provision, Sign, Verify | waiters, failure, expiry, panic, key reuse |
| Service enrollment (`service/commands.go`, `documents.go`, `stores.go`) | one record per Agent; one channel per creation | Enroll (create, update), `FindEnrollment`, `FindOrCreateEnrollment`, `SaveEnrollment` | policy callback; application | races to create; whole-record writes of stale copies |
| Service assertion authentication (`service/commands.go`, `stores.go`) | replay records by (subject, jti) | `authenticateAssertion`, `ConsumeReplay` | every command; verifier (network) | time captured before the verifier, skew, eviction |
| Service credentials (`service/credentials.go`, `authentication.go`, `commands.go`) | credentials by identifier | Grant, Revoke, `AuthenticateProtectedResource` | issuers, enrollments | multi-step Revoke and lookup; duplicates |
| Service Status, HTTP binding, construction | none of their own | Status, handlers, `New` | the above | sequential |
| Platform (`platform/platform.go`, `stores.go`) | identities by id, scope, DID; keys | Provision, Get, List, Sign, UpdateIdentity | policies, key store, idempotency store | copies read before a wait; a key made before its identity |
| Platform verification (`platform/verification.go`) | replay records | Verify | identities, key store | stale lifecycle; two clocks |
| Agent session (`agent/commands.go`, `stores.go`) | identity under two locks, cached enrollment, credentials | Enroll, Status, `WaitForActive`, Grant, Revoke | Service over HTTP, provider | lost and late answers, partial local failure |
| Agent resources (`agent/resource.go`, `authentication.go`) | none across calls | fetch, redirects, challenges | Service, caches | what is sent to which origin |
| Agent caches (`agent/inspect.go`, `openapi.go`, `documents.go`) | cached documents | `inspect`, `openAPI`, document retrieval | Service over HTTP | fetches between two locked sections |
| Agent Platform provider (`agent/platform_provider.go`) | discovery cache | `GetOrCreateIdentity`, `SignerFor`, `discover` | Platform over HTTP | retries |
| Protocol values (root package) | none | parsing, validation, assertion lifetime, path matching | all | numeric ends |
| Adapters and examples (`cmd/`, `examples/`) | - | test harnesses | - | - |

What makes each correct:

- *Idempotency*: a command runs at most once per key and retention, one call at
  a time; a replay is a response to the same request; no caller is stranded.
- *Enrollment*: an Agent keeps its enrollment; stored data was supplied by an
  Enroll that the policy let in and that was saved; required claims hold; what
  was stored while nothing else was under way is not lost; the status changes
  only on purpose.
- *Assertions*: none is accepted twice while it is valid; no valid one is an
  internal error.
- *Credentials*: a dead one stays dead; Revoke is complete and only touches its
  owner's; whoever authenticates was granted the credential.
- *Platform*: one identity per principal and Service; no signature and no
  positive verification for an identity that is not active; no forbidden
  lifecycle transition; no identity without a key.
- *Agent*: no Grant on a belief that a later answer refuted; local credentials
  agree with what the Service answered; credentials reach only origins that
  asked; caches keep no document for longer
  than its Service allowed.

## Modules

| Module | What it is | Proofs |
|---|---|---|
| `IdempotencyInput` | the input record, its slot and `Matches`; shared by the next two and the Platform | |
| `IdempotencyContract` | abstract: what a store promises, without lock, channel or clock | |
| `IdempotencyStore` | `memoryIdempotencyStore` of both packages; refines the contract | `IdempotencyStoreProofs` |
| `ServiceEnrollment` | Enroll over `memoryEnrollmentStore`, for one Agent | `ServiceEnrollmentProofs` |
| `ReplayGuard` | `authenticateAssertion` over `memoryReplayStore` | `AuthenticationProofs` |
| `ServiceCredentials` | Grant, Revoke and resource requests over `memoryServiceCredentialStore` | `ServiceCredentialsProofs` |
| `PlatformIdentity` | `platform.Platform`: all its methods, over its stores | `PlatformIdentityProofs` |
| `AgentSession` | the commands of `agent.Session`, and the handlers that answer them | `AgentSessionProofs` |
| `PlatformProvider` | `agent.PlatformIdentityProvider` and the Platform it talks to | `PlatformProviderProofs` |
| `AgentResource` | `Client.FetchProtectedResource` and `Session.AuthenticationHeaders` | `AuthenticationProofs` |
| `AgentCaches` | Inspect, OpenAPI and portable documents, and their caches | `AgentCachesProofs` |
| `MC*` | the instances that TLC checks | |

How they compose. `PlatformIdentity` instantiates `IdempotencyContract`: Provision,
Sign and Verify run behind what `IdempotencyStore` is shown, and proved, to
implement. `AgentSession` and `PlatformProvider` contain the two ends of a channel:
the Agent's side in full, the other side by its handlers. Elsewhere a component
appears to another only as its answers: an assertion's verdict in
`ServiceCredentials` (see `ReplayGuard`), an enrollment there as a `standing` (see
`ServiceEnrollment`), Inspect in `AgentSession` (see `AgentCaches`).

Conventions. A section that a mutex protects is one action; code between two
sections is a value of `pc` or `stage`, so callbacks and waits are where others
interleave. A blocked `select` is an action enabled when the channel is closed,
and a context that ends is the other arm. History variables say so where they are
declared, and no guard reads them: `begun`, `answeredAt`, `acceptedAt`, `baseline`,
`before` (which calls had returned when a call was made), `superseded`, `live`,
`asked` of `AgentResource`, and in `AgentCaches` the `word` of an entry (what the
Service said last of that document). A definition commented *Fault* is a plausible
bug, used to check that a property would notice it; no specification uses it.

### IdempotencyStore

`records`, `pending` are the two maps of the store, by slot; `waitingFor` is the
channel a call blocks on, named by its owner. `AnswerFromRecord`, `AwaitPending`
and `BeginExecution` are the three ends of the locked section at the head of the
loop, each with the sweep of `expire`. `ExecuteSucceeds`, `ExecuteFails` and
`ExecutePanics` are the command; `Publish` is the locked section after it. The
Service stamps a response when it is produced, the Platform lets the store do
it: `ExecuteSucceeds` does either. `ContextEnds` at `lookup` exists in the
Platform's store only; the model contains both.

### ServiceEnrollment

`record` and `creating` are the store's two maps at one Agent. `FindEnrollment`
is the read of the closure; then either the update path (policy, merge, check,
`SaveEnrollment` of the whole `copy`) or the create path (`FindCreated`,
`AwaitCreator`, `ClaimCreation`, then the policy inside `create()`). A claim's
value is named by the call that supplied it, an enrollment's identity by the
call that created it.

The application (external) has the same two methods: an edit reads a copy
(`ReadRecord`), changes a status, a document requirement or a pending list in it
(`Edited`), and saves the whole of it (`SaveRecord`) or gives up
(`AbandonRecord`). `pending` stands for the policy's metadata by one bit: whether a
response made from it is valid. A new record is stored after its response
was parsed; an update is stored before, so `SaveEnrollment` can end as
`unreported`, an error to the caller with its claims stored.

`StoredWasAdmitted` therefore speaks of Enrolls that were let in and saved, not of
those that were answered with an enrollment. `SoloEnrollIsDurable` is the most
that whole-record writes leave of durability: a claim stored by an Enroll that no
other Enroll and no edit overlapped gives way only to an Enroll that was made
after it had been answered.

### ReplayGuard

`captured[c]` is the local `now`, read before the verifier; `Verify` and
`Refuse` are the verdict and the time checks; `Accept`, `RefuseReplay` and
`ConsumeFails` are `ConsumeReplay`, with its eviction by the captured time.
Times are int64 seconds: `Plus` wraps at the upper end, and the comparisons that
keep the code away from it (`LifetimeIsValid`, `issuedDeadline`, `Recordable`) are
those of the code. The lower end is out of reach of times that are not negative.

### ServiceCredentials

`credentials` is the store. A Grant is a read of the enrollment, the issuer, and
`SaveCredential`; a Revoke visits the grant types in `todo` one locked section
at a time; a resource request selects what it presents (`AEP-Authorization`,
`Authorization` and the other headers), then visits the methods in `todo` and
reads the enrollment after a match. `standing` is all that the three see of an
enrollment. A Revoke that fails half way ends as `failed`; a retry of it is
another Revoke. Header syntax is abstracted to a scheme and a secret; a field
holds any number of values. `asked` of a Revoke is the grant types and the
identifier of its request, and `RevokedByOwner` compares both, and the Agent, with
what is revoked.

### PlatformIdentity

`records`, `pending` and `keys` are the identity store, its creations under way and
the key store; `replayed` is the memory replay store. Each method is an action that
receives the request - validation, the read of the identity, the authorizer -
and, for the idempotent ones, the steps `Begin`, the command, `Finish` or `Fail`,
`Recall` and `GiveUp` around the store. Provision is `FindIdentity`,
`ClaimCreation`, `CreateIdentity` (generators and key, outside the lock) and
`PublishIdentity`; a drawn id or DID may be taken. `identity[c]` is the copy that
Sign, Verify and UpdateIdentity read before they waited. An assertion is its claims
and the key that signed it. The key store, the authorizer, the resolver, the sign
handler and the lifecycle policy are the application's and may answer anything.

### AgentSession

`sessionLock` and `clientLock` are the two `identityMu`; an identity is resolved under
both (`LockSession`, `LockClient`, `Provide`, `SaveIdentity`), or without either for a
Grant (`LookUpIdentity`, `RecoverIdentity`). A command is one exchange: `SendCommand`,
one of the `Serve` actions, one of the `Receive` actions. The request may be served
after the caller has gone, or never. `activeEnrollment` is what the session recorded
of its last answers, and `doomed` what a Revoke has listed of the local credential
store and has yet to delete. The Service keeps `standing`, `issued`, `dead` and its
idempotency `memory`; the operator may change a standing at any time. One Service
DID. A key the caller does not give is its own.

### PlatformProvider

`discoveryMu` is held across the exchange that fills `discovery`; List, Provision and
Sign are one exchange each, which the transport may send again on its own because it
carries an idempotency key. Between the return of `discover` and the departure of the
command (`SendCommand`) a call is `leaving`: the mutex is free, the application's
headers callback runs and the request is built, and the command's own timeout has
begun. `UsedWhileFresh` judges the document at both moments. The Platform replaces its
document, changes the identity's status, and answers a Sign as pending up to
`MaxStages` times. Left out: which URL answers discovery (redirects are counted).

### AgentResource

One call of `FetchProtectedResource`. The Services are adversarially free: every
redirect, challenge, Inspect document and OpenAPI policy is a choice of theirs, and
two questions for one document may have two answers. The model keeps where the call is
(`target`, `redirects`, `requireChallenge`), what it knows there (`policy`,
`challenge`, and in `allowed` the methods it may use, with their order), whose
generated `headers` it carries, and the last request sent. Other calls of the Client
change the credential `store` at any time. `SentAsPromised` is what `agent/README.md`
says of the two headers and of origins: generated headers go only to the origin of the
Service DID that they are bound to and, for an assertion, to its resource; the
caller's own go to the first origin only; past a redirect to another origin nothing is
sent before that origin has asked for it; and of what arrives the Service selects the
Agent's presentation and no other. An Authorization field is a sequence of values. The
merge looks at the first of them and the Service at all, so what a caller brings
`Hidden` behind a value of another scheme makes the Service refuse the request; the
property says exactly when.

### AgentCaches

`inspectCache` is read, judged, revalidated and written by separate operations of the
application's cache under the mutex of a *session*; `openAPICache` is read and written
under the Client's `openAPIMu` with the exchange between the two under no lock. An
answer is made by the Service at one moment (`Serve`, with 304 on a matching entity
tag) and received at a later one. Left out: which URL answers.

## Runs

| Run | Instance | States | Shows |
|---|---|---|---|
| `idempotency` | 3 calls, 2 slots, 4 inputs, retention 2, clock to 3 | 359 thousand | contract, single flight, no re-execution, faithful replays, no stranded call |
| `enrollment` | 3 Enrolls, 1 edit of the application, 2 claims (1 required), 3 documents, 3 statuses | 120 thousand | what survives racing whole-record writes; no stranded Enroll |
| `enrollment_status` | the same | violated | finding 1 below |
| `enrollment_merge` | the same | violated | finding 2 below |
| `replay` | 3 requests, 5 assertions, skew 2, lifetime 3, clock to 7, where int64 ends | 2.5 million | single use inside the window, whatever times were captured; no wrapped expiry |
| `credentials` | 2 Agents, 2 Grants, 1 Revoke, 1 request, 2 identifiers, 2 secrets, 2 types, clock to 1 | 1.4 million | dead credentials, complete and owned Revokes, faithful principals |
| `platform` | 4 calls, 2 principals, 1 Service, 2 ids, 2 DIDs, clock to 1 | 463 thousand | unique, private and stable identities; an assertion verified once; no stranded call |
| `platform_sign` | the same | violated | finding 3 below |
| `session` | 3 calls, 2 sessions, 2 identities, 2 grant types, 2 credentials | 1.2 million | one identity, Revokes that forget, no call left waiting |
| `provider` | 2 calls, 1 Service, 3 documents, 1 redirect, clock to 4 | 3.4 million | how old a document may be used; what a returned identity promises |
| `resource` | 1 call, 4 URLs of 2 origins, 3 Service DIDs, 3 methods, up to 3 redirects, up to 2 Authorization values | 585 thousand | what is sent to whom |
| `caches` | 2 calls made 3 times in 2 sessions, 7 documents, 1 later publication, clock to 2 | 3.2 million | no document older than the Service's last word allows |

Why the bounds suffice. `idempotency`: an execution, a waiter and a third call that
arrives, retries or reuses the key are the longest chain of roles in the loop; the
clock passes one retention from every start. `enrollment`: a creator, a waiter that
takes over or a racer, an update over a stale copy, and an edit that may be stale, be
overwritten, or leave a pending list invalid. `replay`: two accepts and an evictor in
between; the clock reaches the end of the window with skew of all assertions that can
be accepted. `credentials`: one credential before and one during a Revoke or a
request; two types, so that both loops have an inside. `platform`: a creator, a racer
for the scope, a call that signs or updates and one that verifies or reads as another
principal. `session`: a resolver in each session and a Revoke whose key is shared; two
credentials, one of each kind of grant type. `provider`: two callers of one cache
entry, one replaced document, and a clock that reaches the longest max-age and two
timeouts: the discovery's and the command's. `resource`: a redirect within an origin,
one that leaves it and one that comes back; two tenants of one did:web authority;
recognized values before, behind and without one of another scheme. `caches`: two
overlapping exchanges and a third that sees what they left. The theorems remove the
bounds of every invariant that a run checks. The bounds that are not sizes of a set
are `MaxTime`, `MaxClock`, `MaxStages`, `MaxCredentials`, `MaxStarts` and
`MaxPublished`. Deadlock checking is off: in all models every call is made once, or so
many times, and the system may stop.

Fairness, where a run checks liveness. Weak fairness of every call's own steps
(`Progress(c)` of `IdempotencyStore` and `ServiceEnrollment`, `Advance(c)` of
`PlatformIdentity` and `AgentSession`): the Go scheduler runs a goroutine that can
run, the mutexes are held for bounded sections, and a callback returns. `AgentSession`
adds weak fairness of `Expire(c)`: the request timeout of a command and the deadline
of `WaitForActive` pass. Nothing obliges a call to be made, a Service to answer, a
client to give up, a callback to panic, the application to act, or the clock to
move. Progress contains an execution's success and failure and weak fairness asks
for one of them. The liveness of the idempotency store and of Enroll excepts a
panic, which is real: nothing in the two loops is deferred, so a panic in a callback
leaves a channel that nobody closes, and callers wait until their contexts end. In
`PlatformIdentity` a drawn DID that is taken fails the call (`DuplicateRefused`), which
must then release the scope for whoever waits for it. `PlatformProvider`,
`ServiceCredentials`, `ReplayGuard`, `AgentResource` and `AgentCaches` state no
fairness: only safety is checked of them.

## What the models found

1. *A repeated Enroll can undo a status change.* `updateEnrollment` saves the
   whole record it was given, read before the policy was consulted. An Agent
   suspended in between is active again. `service/README.md` says that the
   status is preserved. (`enrollment_status`.) The same write can lose another
   Enroll's claims or a renewed document requirement, and an edit of the
   application, which saves a whole record too, can lose the claims of an Enroll
   that no other overlapped; `SoloEnrollIsDurable` states what is not lost.
2. *The loser of a race to enroll is answered from another call's record.* Its
   policy is not consulted and its claims are not merged, contrary to what the
   same paragraph says of a repeated Enroll. (`enrollment_merge`.)
3. *A Sign that waited signs for an identity revoked meanwhile.* Sign tests the
   status of the copy it read before the authorizer and before its turn at the
   idempotency store; the comment at `platform.go:307` says that signing for such an
   identity is forbidden outright. (`platform_sign`.) Verify has the same shape
   (`verification.go:38`, `:67`); no run repeats it.

Worth knowing although nothing says otherwise: if the verifier stalls for longer
than the assertion's window, a request may be recognized, and its jti a second
time, after the window has closed, because all is judged by the captured time
(`AcceptedOnceInWindow` is about acceptances inside the window). Two concurrent
UpdateIdentity calls whose transitions are each allowed may compose to one that is
not. A credential that was issued but could not be stored locally is issued again
under the next key, unless the caller repeats the one it used. A policy that gives
an update an empty or repeated pending name makes the Enroll fail after its claims
were stored (`documents.go:52`, `commands.go:364`); a first Enroll in that case stores
nothing. A caller that brings an Authorization value of AEP's behind one of another
scheme, and has chosen the dedicated carrier or an API key, is refused by the Service
(`agent/resource.go:239`, `service/authentication.go:158`). A creation that failed
after its key was made leaves that key behind, and the store looks at identities
only when it decides whether a drawn DID is free.

## Proofs

All proofs are for arbitrary constants under the named assumptions of the modules,
which TLC evaluates on every run: `None` is no value of another kind (no call,
request, answer or entry); edits of the application are no Enrolls
(`EditsAssumption`); requests name principals, Services, sessions, URLs and statuses
that exist (`RequestsAssumption`; `ResourceAssumption` says all of this of
`AgentResource`); times, timeouts, max-ages, skew and retention are natural numbers,
and claims fit int64; every document that a Service publishes, or published before, is
one of `Documents`, and only Inspect documents can name a foreign Service
(`PublicationsAssumption`); an identity that an earlier process saved, of a Platform
or of a store, is the one the Platform has (`StartsAssumption` - justified by
`ProvisionIsStable`). No proof bounds the number of calls, slots, assertions, grant
types, documents, URLs or sessions, or uses the bound of a clock.

Every invariant that a run checks is a theorem, and so is the refinement and the action
property. An inductive invariant is checked by TLC, on the instance of its run, before
it is proved; `ServiceInv`, `ProviderInv` and `CachesInv` hold of every state there.

*IdempotencyStore.* `SingleFlight`, `OncePerRetention` and `RepliesAreFaithful`
are not inductive. `StoreInv` adds: a call has an input once made and an answer
once returned; `pending` names exactly the executing calls
(`PendingIsExecuting`) - the fact that makes the loop's check of the map mean
anything; an executing slot has no record; stamps are in the past; a record is
the response of a completed execution, and conversely a completed execution is
on record or past its retention (`KeptOrExpired`); and an execution under way
began after all earlier ones of its slot had expired (`BegunAfterExpiry`), which
becomes `OncePerRetention` when it publishes. One lemma per action, combined in
`StoreInvariant`; the four invariants are corollaries.

*Refinement.* `StoreImplementsContract`: initial states map to initial states
and each step to a step of `IdempotencyContract` or a stutter, under
`Remembered` (records still live at `now`). `expire` is invisible, the clock is
`Forget`, and a response published after its own expiry is a `Finish` that
leaves the memory alone: at an idle slot the memory is the same either way.

*ReplayGuard* (in `AuthenticationProofs`, with `AgentResource`: what an Agent sends, and
how often a Service takes it; hence the names of its own, `ReplaySpec` and `Nil`).
`ReplayInv` adds that captured times are past, that what reaches
the store was valid when captured and leaves room for the skew, and that an
accepted assertion is on record or outside its window (`RecordedOrExpired`), which
holds because eviction by a captured time drops less than eviction by the present
would. `KeyInKeys` is where overflow is excluded.

*ServiceEnrollment.* Seven actions matter to what is stored: a call is made, reads,
merges, saves or creates, and an edit reads or saves; every other step is `Quiet`.
Each invariant says of the copies in hand, an Enroll's or an edit's, what it says of
the record: a copy that is checked, or owes its calls their claims, may be written
over the record without harm. For `SoloEnrollIsDurable` that takes a further fact:
once an Enroll is answered and solo, no call or edit holds a copy from before it
(`SoloBegins`), and no step can make an answered Enroll solo. `EnrollmentIsPermanent`
follows from the creator being alone (`CreatorInv`) and from every copy having the
identity of the record.

*ServiceCredentials.* The store changes in two ways only (`StoreEndures`): a
credential is added, or revoked. On that rest three invariants, each inductive given
those before: of the Grants (a credential is what one Grant was given; secrets and
identifiers are distinct), of the Revokes (what existed when it began is dead or its
type is still in `todo`) and of the requests (a match was alive when the request
began and is of a presented secret).

*PlatformIdentity.* `Asking`: an executing call has the turn of its slot until its own
step ends it - `Executing` survives every step of others. `Creations`: a pending scope
is being created by an executing Provision of that scope, has no identity, and a
draft is of its call's scope. Hence a published identity is the first of its scope
(`Publishes`), and `Distinct` follows. For `ProvisionIsStable`, `Answered`: results,
replies and remembered responses name stored identities of the asker's scope;
a remembered Provision that `Matches` is the same request (`SameRequest`).
`VerifiedOnce` rests on `Replaying`: an assertion that was verified is on record in the
replay store until it expires, by the clock that evicts (`OnRecord`), and a Verify that
succeeds found no such record. That needs `Admitted`: what a Sign is let in with is valid
and the caller's, so that the expiry of what it signs is past its issue. `ResultsArePrivate`
rests on `Private`: replies, results and remembered responses belong to the principal
that asked, which `Copies` carries from the record a call read to the one it answers with.

*AgentSession.* `SessionInv` for identities: `Kept` is what a Platform has for the
Service, or what the identity store holds. Everything in use is `Kept` or `None`; a
provider of one's own is asked only under the Client's lock while nothing is kept.
`ServiceInv` for the rest: who is
where and holds which lock (`Places`); an answer under way is one the Service gave to
that operation, and that of a Revoke is still in its memory (`Wired`); a dead credential
is one that a remembered Revoke selects (`Remembered`); a stored record is of an issued
credential (`Stored`). Then `Forgetting`: every record that was there when a Revoke was
made, and that it selects, is gone or among those it has listed. The idempotency memory
is what makes this stand when the Service answers a retry.

*PlatformProvider.* `ProviderInv` has five parts. `Shaped` and `Placed` are types and
times: a call in an exchange began it within the last `RequestTimeout`. `Published` is
about the document: an answer confirms what was current when its exchange began
(`Confirmed`), so an entry is of a document that was current an exchange before it was
cached (`Cached`), so a use is no later than a max-age and an exchange after the
document was replaced (`Sound`, hence `UsedWhileFresh`). A 304 is about the entry that
is cached because `discoveryMu` is held. `Departed` carries that to the command: it
leaves within a `RequestTimeout` of `discover`'s return, so a use is later by no more
than that. `Answered` is about identities: what is on the
wire, what the Platform remembers by idempotency key and what is due back to a call is
true of that call (`True`), and an identity that is active now has been so during every
call under way (`Live`), hence `AnswersHold`.

*AgentCaches.* `CachesInv` says of every entry, in a cache or in a hand, that the Service
said of the document what the entry says, and when (`Truthful`); of an answer under way
that it was made after its exchange began (`Confirmed`); of an entry to be saved that the
Service's word is of this call (`Made`). A 304 extends the copy the call sent the entity
tag of, not what is cached by then, and the invariant says so. `AsFreshAsPromised` is its
last part (`Promised`).

*AgentResource.* `Travelled` (the call left its origin only with a challenge still to
come), `Bearing` (whose headers it carries at each stage) and `Sent` (what the last
request carried, until the call has moved on) are one invariant, from which the four
parts of `SentAsPromised` follow. `TypeOK` relies on it for what a call knows at each
stage: a redirect is followed within the limit and to no URL that is refused, and
generated headers, methods and messages are there when the stage uses them.

Only model-checked. Liveness (`EveryCallReturns`, `EveryEnrollReturns`,
`EveryRequestReturns`), which is out of the prover's reach, and the three disagreements
of *What the models found*, which are counterexamples.

## Plan

Done: the stores of both packages, the Service's commands, the Platform, the Agent's
session, provider, resource access and caches; theorems for all of them. Left, in order
of what matters next:

1. Composition: Enroll behind the idempotency contract - same-key retries and
   distinct keys together, over one record.
2. `MatchOpenAPIPath`, `cacheDirectiveValue` and `negotiate` against reference
   definitions.

## Not modelled

Parsing, encoding, hashing, signatures and key formats (a verdict or a value); HTTP
routing, body limits, content negotiation and the rendering of documents; the
construction of a Service, a Platform or a Client beyond the option bounds that are
assumptions; limits on the size and number of claims; which URL answers a redirected
discovery or document; scopes and header names of credentials; durable stores,
which the SDK leaves to the application: the models are of the stores in this
repository, and a durable idempotency store should refine the same contract. The
conformance adapter (`cmd/`), the interoperability runner and the examples are test
harnesses and demonstrations over the packages above. `PROJECT.json` names, for each
hazard that no property covers, why: the code promises nothing there.
