------------------------------ MODULE AgentSession ------------------------------
(***************************************************************************)
(* agent.Session: the commands an Agent sends a Service, from any number   *)
(* of sessions of one agent.Client.  Identities are resolved under two     *)
(* locks; each command is one HTTP exchange that may be lost on either     *)
(* way; answers are recorded in the session and in the credential store.   *)
(* The Service appears by its handlers of Enroll, Status, Grant and        *)
(* Revoke, with its idempotency store.  Inspect succeeds or fails here:    *)
(* its cache is another component's.                                       *)
(***************************************************************************)
EXTENDS Integers, FiniteSets

CONSTANTS
  Calls,            \* calls of Session methods; each one is made once
  Requests,         \* Requests[c]: the requests call c may make; the key of a
                    \* request is None when the provider has to draw one
  Sessions,
  Identities,       \* Agent DIDs the identity provider may come up with
  GrantTypes, BuiltInGrantTypes,
  Starts,           \* [provider, provisioned, stored]: which identity provider
                    \* the Client has, "own" or "platform"; the identity the
                    \* Platform has for the Service, or None; what the identity
                    \* store holds, from an earlier process, or None
  Decisions,        \* <<from, to>>: statuses the Service's operator changes
  MaxCredentials,   \* bound on the credentials the Service issues
  None

ASSUME GrantTypesAssumption == BuiltInGrantTypes \subseteq GrantTypes
ASSUME MaxCredentialsAssumption == MaxCredentials \in Nat

AgentStatuses == {"active", "pending", "rejected", "suspended", "terminated", "unavailable"}

Commands == {"enroll", "status", "grant", "revoke"}

AllRequests == UNION {Requests[c] : c \in Calls}
ASSUME RequestsAssumption ==
  \A r \in AllRequests :
    /\ r = [op |-> r.op, session |-> r.session, key |-> r.key, type |-> r.type, id |-> r.id]
    /\ r.op \in Commands \cup {"wait", "identity"} /\ r.session \in Sessions
    /\ r.op = "grant" => r.type \in GrantTypes

\* What an earlier process left of a Platform's identity is what the Platform has.
ASSUME StartsAssumption ==
  \A start \in Starts :
    /\ {start.stored, start.provisioned} \subseteq Identities \cup {None}
    /\ start.provider = "platform" => start.stored \in {None, start.provisioned}

\* What a Service issued: identifiers are its own.
CredentialIDs == 1..MaxCredentials

\* Revoke selects all grant types, one of them, or one credential of one.
All == "all"

VARIABLES
  request,           \* request[c]: what call c asks for, or None
  stage,             \* stage[c]: where call c is
  using,             \* using[c]: the identity call c resolved, or None
  offered,           \* offered[c]: what the provider returned to call c, or None
  doomed,            \* doomed[c]: records call c has listed and not yet deleted
  reply,             \* reply[c]: what call c returned, or None
  before,            \* before[c]: the calls that had returned when c was made
  sessionLock,       \* Session.identityMu: the call that holds it, or None
  sessionIdentity,   \* Session.identity, or None
  activeEnrollment,  \* Session.activeEnrollment: an identity, or None
  clientLock,        \* Client.identityMu: the call that holds it, or None
  identityStore,     \* the record of the Service in the identity store, or None
  credentialStore,   \* credential records, with the call that saved each
  provider,          \* which kind of identity provider the Client has
  provisioned,       \* the identity a Platform has for the Service, or None
  wire,              \* requests on their way: [call, command, identity]
  answer,            \* answer[c]: the response on its way to call c, or None
  standing,          \* standing[i]: the Service's enrollment of i, or None
  issued,            \* credentials the Service issued: [id, type, owner]
  dead,              \* what it revoked: [id, slot], the slot of the Revoke
  memory             \* its idempotency store: [slot, request, answer]

callVars == <<request, stage, using, offered, doomed, reply, before>>
sessionVars == <<sessionLock, sessionIdentity, activeEnrollment>>
clientVars == <<clientLock, identityStore, credentialStore, provider, provisioned>>
netVars == <<wire, answer>>
serviceVars == <<standing, issued, dead, memory>>
vars == <<callVars, sessionVars, clientVars, netVars, serviceVars>>

-----------------------------------------------------------------------------
(* Bodies of the answers, as the Agent's parsers accept them.               *)

EnrollAnswers == [kind : {"enroll"}, status : AgentStatuses]
StatusAnswers == [kind : {"status"}, status : AgentStatuses]
GrantAnswers == [kind : {"grant"}, type : GrantTypes, id : CredentialIDs]
RevokeAnswer == [kind |-> "revoke"]
\* A call fails on Problem Details whatever their code.
ProblemDetails == [kind |-> "problem"]

Answers == EnrollAnswers \cup StatusAnswers \cup GrantAnswers \cup {RevokeAnswer, ProblemDetails}

ASSUME NoneAssumption == None \notin Calls \cup Identities \cup AllRequests \cup Answers

ParseRevokeResponse(a) == a = RevokeAnswer
\* A built-in grant type has a parser of its own, any other an object.
ParseGrant(a, type) == a \in GrantAnswers /\ a.type = type

\* New: no session has an identity; the identity store may be one that
\* outlives the process.
Init ==
  /\ request = [c \in Calls |-> None]
  /\ stage = [c \in Calls |-> "idle"]
  /\ using = [c \in Calls |-> None]
  /\ offered = [c \in Calls |-> None]
  /\ doomed = [c \in Calls |-> {}]
  /\ reply = [c \in Calls |-> None]
  /\ before = [c \in Calls |-> {}]
  /\ sessionLock = [s \in Sessions |-> None]
  /\ sessionIdentity = [s \in Sessions |-> None]
  /\ activeEnrollment = [s \in Sessions |-> None]
  /\ clientLock = None
  /\ credentialStore = {}
  /\ \E start \in Starts :
       /\ provider = start.provider
       /\ provisioned = start.provisioned
       /\ identityStore = start.stored
  /\ wire = {}
  /\ answer = [c \in Calls |-> None]
  /\ standing = [i \in Identities |-> IF i \in {identityStore, provisioned} THEN "active" ELSE None]
  /\ issued = {}
  /\ dead = {}
  /\ memory = {}

Session(c) == request[c].session

GoTo(c, from, to) ==
  /\ stage[c] = from
  /\ stage' = [stage EXCEPT ![c] = to]

Return(c, r) == reply' = [reply EXCEPT ![c] = r]

Finish(c, from, r) == GoTo(c, from, "done") /\ Return(c, r)

Ok(a) == [ok |-> TRUE, body |-> a]
Failed == [ok |-> FALSE]
ASSUME ReplyAssumption == None \notin {Failed} \cup {Ok(a) : a \in Answers \cup Identities}

-----------------------------------------------------------------------------
(* From the call to the command.                                            *)

\* A Revoke selects everything, a grant type, or a credential of one.
ValidateRevokeRequest(r) == r.op = "revoke" /\ r.type = All => r.id = None

\* Inspect succeeds and advertises the command, the grant type and, where it
\* is needed, per-credential Revoke.
Accepts(r, advertised) == advertised /\ ValidateRevokeRequest(r)

\* Grant looks for an identity; every other call, Identity too, may make one.
Call(c, r, advertised) ==
  /\ request[c] = None
  /\ request' = [request EXCEPT ![c] = r]
  /\ before' = [before EXCEPT ![c] = {d \in Calls : reply[d] # None}]
  /\ IF Accepts(r, advertised)
     THEN /\ GoTo(c, "idle", IF r.op = "grant" THEN "lookup" ELSE "resolve")
          /\ UNCHANGED reply
     ELSE Finish(c, "idle", Failed)
  /\ UNCHANGED <<using, offered, doomed, sessionVars, clientVars, netVars, serviceVars>>

\* Identity returns once it has one; a command goes on with it.
Resolved(c, from, identity) ==
  /\ using' = [using EXCEPT ![c] = identity]
  /\ IF request[c].op = "identity" THEN Finish(c, from, Ok(identity))
     ELSE GoTo(c, from, "ready") /\ UNCHANGED reply

\* resolveIdentity takes the session's lock.
LockSession(c) ==
  /\ stage[c] = "resolve" /\ sessionLock[Session(c)] = None
  /\ IF sessionIdentity[Session(c)] # None
     THEN /\ Resolved(c, "resolve", sessionIdentity[Session(c)])
          /\ UNCHANGED sessionLock
     ELSE /\ GoTo(c, "resolve", "claim")
          /\ sessionLock' = [sessionLock EXCEPT ![Session(c)] = c]
          /\ UNCHANGED <<using, reply>>
  /\ UNCHANGED <<request, offered, doomed, before, sessionIdentity, activeEnrollment,
                 clientVars, netVars, serviceVars>>

Unlock(c) ==
  /\ sessionLock' = [s \in Sessions |-> IF sessionLock[s] = c THEN None ELSE sessionLock[s]]
  /\ clientLock' = IF clientLock = c THEN None ELSE clientLock

\* Fault: the lock of the session is held to be enough.
LockNoClient(c) ==
  /\ stage[c] = "claim"
  /\ IF identityStore # None
     THEN /\ Resolved(c, "claim", identityStore)
          /\ sessionIdentity' = [sessionIdentity EXCEPT ![Session(c)] = identityStore]
          /\ Unlock(c)
     ELSE /\ GoTo(c, "claim", "provide")
          /\ UNCHANGED <<using, reply, sessionIdentity, sessionLock, clientLock>>
  /\ UNCHANGED <<request, offered, doomed, before, activeEnrollment, identityStore,
                 credentialStore, provider, provisioned, netVars, serviceVars>>

\* It then takes the client's, and asks the identity store.
LockClient(c) ==
  /\ stage[c] = "claim" /\ clientLock = None
  /\ IF identityStore # None
     THEN /\ Resolved(c, "claim", identityStore)
          /\ sessionIdentity' = [sessionIdentity EXCEPT ![Session(c)] = identityStore]
          /\ Unlock(c)
     ELSE /\ GoTo(c, "claim", "provide")
          /\ clientLock' = c
          /\ UNCHANGED <<using, reply, sessionIdentity, sessionLock>>
  /\ UNCHANGED <<request, offered, doomed, before, activeEnrollment, identityStore,
                 credentialStore, provider, provisioned, netVars, serviceVars>>

\* GetOrCreateIdentity: a Platform has one identity for the Service; another
\* provider may come up with a new one whenever it is asked.
Provide(c) ==
  /\ GoTo(c, "provide", "save")
  /\ \E i \in Identities :
       /\ provider = "platform" /\ provisioned # None => i = provisioned
       /\ offered' = [offered EXCEPT ![c] = i]
       /\ provisioned' = IF provider = "platform" THEN i ELSE provisioned
  /\ UNCHANGED <<request, using, doomed, reply, before, sessionVars, clientLock,
                 identityStore, credentialStore, provider, netVars, serviceVars>>

\* SaveIdentity comes before the session remembers the identity.
SaveIdentity(c) ==
  /\ stage[c] = "save"
  /\ identityStore' = offered[c]
  /\ sessionIdentity' = [sessionIdentity EXCEPT ![Session(c)] = offered[c]]
  /\ Resolved(c, "save", offered[c])
  /\ Unlock(c)
  /\ UNCHANGED <<request, offered, doomed, before, activeEnrollment, credentialStore,
                 provider, provisioned, netVars, serviceVars>>

\* SaveIdentity fails, whether or not the store has written the record.
SaveFails(c) ==
  /\ Finish(c, "save", Failed)
  /\ identityStore' \in {identityStore, offered[c]}
  /\ Unlock(c)
  /\ UNCHANGED <<request, using, offered, doomed, before, sessionIdentity, activeEnrollment,
                 credentialStore, provider, provisioned, netVars, serviceVars>>

\* existingCommandContext takes no lock.
LookUpIdentity(c) ==
  /\ stage[c] = "lookup"
  /\ IF identityStore # None THEN Resolved(c, "lookup", identityStore)
     ELSE IF provider = "platform"
     THEN GoTo(c, "lookup", "recover") /\ UNCHANGED <<using, reply>>
     ELSE Finish(c, "lookup", Failed) /\ UNCHANGED using
  /\ UNCHANGED <<request, offered, doomed, before, sessionVars, clientVars, netVars,
                 serviceVars>>

\* FindIdentityByServiceDID, and the record saved for the next time.
RecoverIdentity(c) ==
  /\ stage[c] = "recover"
  /\ IF provisioned # None
     THEN /\ identityStore' = provisioned
          /\ Resolved(c, "recover", provisioned)
     ELSE Finish(c, "recover", Failed) /\ UNCHANGED <<using, identityStore>>
  /\ UNCHANGED <<request, offered, doomed, before, sessionVars, clientLock,
                 credentialStore, provider, provisioned, netVars, serviceVars>>

-----------------------------------------------------------------------------
(* Commands on the wire.                                                    *)

hasActiveEnrollment(c) == activeEnrollment[Session(c)] = using[c]

\* A Grant asks for the Status first when the session has not recorded an
\* active enrollment of the identity.
CommandOf(c) ==
  CASE request[c].op \in {"status", "wait"} -> "status"
    [] request[c].op = "grant" /\ stage[c] = "ready" /\ ~hasActiveEnrollment(c) -> "status"
    [] OTHER -> request[c].op

\* signAssertion: the Service will know the command by its issuer.
Signed(c) == [call |-> c, command |-> CommandOf(c), identity |-> using[c]]

\* executeCommand.
SendCommand(c) ==
  /\ stage[c] \in {"ready", "enrolled"}
  /\ GoTo(c, stage[c], IF request[c].op = "grant" /\ CommandOf(c) = "status"
                       THEN "checking" ELSE "sent")
  /\ wire' = wire \cup {Signed(c)}
  /\ UNCHANGED <<request, using, offered, doomed, reply, before, sessionVars, clientVars,
                 answer, serviceVars>>

Waiting == {"sent", "checking"}

\* idempotencyKey: the caller's, or a random one.
KeyOf(c) == IF request[c].key = None THEN c ELSE request[c].key
Slot(c) == <<using[c], KeyOf(c)>>

\* Every request body but the key.
Material(c) == [request[c] EXCEPT !.key = None, !.session = None]

-----------------------------------------------------------------------------
(* The Service.  A response to a call that no longer waits goes nowhere.    *)

Answer(m, a) ==
  /\ wire' = wire \ {m}
  /\ answer' = IF stage[m.call] \in Waiting THEN [answer EXCEPT ![m.call] = a] ELSE answer

Remember(m, a) ==
  memory' = memory \cup {[slot |-> Slot(m.call), request |-> Material(m.call), answer |-> a]}

Recalled(m) == {e \in memory : e.slot = Slot(m.call)}

agentSide == <<callVars, sessionVars, clientVars>>

statusResponse(status) == [kind |-> "status", status |-> status]

\* Status reads the enrollment and changes nothing.
ServeStatus(m) ==
  /\ m.command = "status"
  /\ Answer(m, IF standing[m.identity] = None THEN ProblemDetails
               ELSE statusResponse(standing[m.identity]))
  /\ UNCHANGED <<agentSide, serviceVars>>

\* A command under a remembered key: its response, or a conflict.
Replay(m) ==
  /\ m.command # "status"
  /\ \E e \in Recalled(m) :
       Answer(m, IF e.request = Material(m.call) THEN e.answer
                 ELSE ProblemDetails)
  /\ UNCHANGED <<agentSide, serviceVars>>

Fresh(m) == m.command # "status" /\ Recalled(m) = {}

\* The first Enroll stores what the policy decides, a rejection too; the
\* following ones are answered from the record and leave its status alone.
ServeEnroll(m) ==
  /\ Fresh(m) /\ m.command = "enroll"
  /\ \E status \in IF standing[m.identity] = None THEN {"active", "pending", "rejected"}
                   ELSE {standing[m.identity]} :
       /\ standing' = [standing EXCEPT ![m.identity] = status]
       /\ Answer(m, [kind |-> "enroll", status |-> status])
       /\ Remember(m, [kind |-> "enroll", status |-> status])
  /\ UNCHANGED <<agentSide, issued, dead>>

NextCredential == Cardinality(issued) + 1

ServeGrant(m) ==
  /\ Fresh(m) /\ m.command = "grant"
  /\ standing[m.identity] = "active" /\ NextCredential \in CredentialIDs
  /\ LET type == request[m.call].type
         a == [kind |-> "grant", type |-> type, id |-> NextCredential]
     IN  /\ issued' = issued \cup {[id |-> NextCredential, type |-> type, owner |-> m.identity]}
         /\ Answer(m, a) /\ Remember(m, a)
  /\ UNCHANGED <<agentSide, standing, dead>>

Selects(r, type, id) ==
  r.type = All \/ (r.type = type /\ r.id \in {id, None})

ServeRevoke(m) ==
  /\ Fresh(m) /\ m.command = "revoke" /\ standing[m.identity] # None
  /\ dead' = dead \cup
       {[id |-> k.id, slot |-> Slot(m.call)] :
          k \in {x \in issued : /\ x.owner = m.identity
                                /\ \A d \in dead : d.id # x.id
                                /\ Selects(request[m.call], x.type, x.id)}}
  /\ Answer(m, RevokeAnswer) /\ Remember(m, RevokeAnswer)
  /\ UNCHANGED <<agentSide, standing, issued>>

\* Any command may be refused: its assertion, its grant type, for requirements
\* or by the policy.  A Grant without an active enrollment and a Revoke without
\* any always are.  What the handler refuses is remembered like a success; what
\* the assertion or the body is refused for is not.
ServeProblem(m) ==
  /\ Fresh(m)
  /\ Answer(m, ProblemDetails)
  /\ Remember(m, ProblemDetails) \/ UNCHANGED memory
  /\ UNCHANGED <<agentSide, standing, issued, dead>>

\* The operator of the Service changes an enrollment.
SetStanding(i, status) ==
  /\ <<standing[i], status>> \in Decisions
  /\ standing' = [standing EXCEPT ![i] = status]
  /\ UNCHANGED <<agentSide, netVars, issued, dead, memory>>

-----------------------------------------------------------------------------
(* Answers at the Agent.                                                    *)

Take(c) == answer' = [answer EXCEPT ![c] = None]

recordEnrollment(c, status) ==
  activeEnrollment' = [activeEnrollment EXCEPT ![Session(c)] =
    IF status = "active" THEN using[c] ELSE None]

ReceiveEnroll(c) ==
  /\ stage[c] = "sent" /\ answer[c] \in EnrollAnswers
  /\ recordEnrollment(c, answer[c].status)
  /\ Finish(c, "sent", Ok(answer[c]))
  /\ Take(c)
  /\ UNCHANGED <<request, using, offered, doomed, before, sessionLock, sessionIdentity,
                 clientVars, wire, serviceVars>>

ReceiveStatus(c) ==
  /\ stage[c] \in Waiting /\ answer[c] \in StatusAnswers
  /\ recordEnrollment(c, answer[c].status)
  /\ CASE request[c].op = "status" -> Finish(c, "sent", Ok(answer[c]))
       [] request[c].op = "wait" ->
            (CASE answer[c].status = "active" -> Finish(c, "sent", Ok(answer[c]))
               [] answer[c].status \in {"rejected", "suspended", "terminated"} ->
                    Finish(c, "sent", Failed)
               [] OTHER -> GoTo(c, "sent", "pausing") /\ UNCHANGED reply)
       [] OTHER -> IF answer[c].status = "active"
                   THEN GoTo(c, "checking", "enrolled") /\ UNCHANGED reply
                   ELSE Finish(c, "checking", Failed)
  /\ Take(c)
  /\ UNCHANGED <<request, using, offered, doomed, before, sessionLock, sessionIdentity,
                 clientVars, wire, serviceVars>>

\* The timer of WaitForActive.
PollAgain(c) ==
  /\ GoTo(c, "pausing", "ready")
  /\ UNCHANGED <<request, using, offered, doomed, reply, before, sessionVars, clientVars,
                 netVars, serviceVars>>

CredentialRecord(c) == [id |-> answer[c].id, type |-> answer[c].type, by |-> c]

\* Only a credential of a built-in grant type is stored.
ReceiveGrant(c) ==
  /\ stage[c] = "sent" /\ request[c].op = "grant"
  /\ answer[c] # None /\ ParseGrant(answer[c], request[c].type)
  /\ IF request[c].type \in BuiltInGrantTypes
     THEN credentialStore' =
            {r \in credentialStore : r.id # answer[c].id} \cup {CredentialRecord(c)}
     ELSE UNCHANGED credentialStore
  /\ Finish(c, "sent", Ok(answer[c]))
  /\ Take(c)
  /\ UNCHANGED <<request, using, offered, doomed, before, sessionVars, clientLock,
                 identityStore, provider, provisioned, wire, serviceVars>>

\* The credential of the answer is out of date already, or the store fails.
StoreCredentialFails(c) ==
  /\ request[c] # None /\ request[c].op = "grant" /\ request[c].type \in BuiltInGrantTypes
  /\ answer[c] # None /\ ParseGrant(answer[c], request[c].type)
  /\ Finish(c, "sent", Failed)
  /\ Take(c)
  /\ UNCHANGED <<request, using, offered, doomed, before, sessionVars, clientVars, wire,
                 serviceVars>>

\* Fault: all grant types taken for a grant type.
MatchesByType(r) == {k \in credentialStore : r.type = k.type /\ r.id \in {k.id, None}}

\* The records deleteRevokedCredentials goes through.
MatchingRecords(r) == {k \in credentialStore : Selects(r, k.type, k.id) \/ r.id = k.id}

\* deleteRevokedCredentials lists once.
ReceiveRevoke(c) ==
  /\ stage[c] = "sent" /\ answer[c] # None /\ ParseRevokeResponse(answer[c])
  /\ GoTo(c, "sent", "deleting")
  /\ doomed' = [doomed EXCEPT ![c] = MatchingRecords(request[c])]
  /\ Take(c)
  /\ UNCHANGED <<request, using, offered, reply, before, sessionVars, clientVars, wire,
                 serviceVars>>

\* DeleteCredential deletes by identifier, whoever saved the record since.
DeleteNext(c) ==
  /\ stage[c] = "deleting"
  /\ \E k \in doomed[c] :
       /\ credentialStore' = {r \in credentialStore : r.id # k.id}
       /\ doomed' = [doomed EXCEPT ![c] = @ \ {k}]
  /\ UNCHANGED <<request, stage, using, offered, reply, before, sessionVars, clientLock,
                 identityStore, provider, provisioned, netVars, serviceVars>>

RevokeReturns(c) ==
  /\ doomed[c] = {}
  /\ Finish(c, "deleting", Ok(RevokeAnswer))
  /\ UNCHANGED <<request, using, offered, doomed, before, sessionVars, clientVars, netVars,
                 serviceVars>>

\* Problem Details, or a body the parser refuses.
ReceiveProblem(c) ==
  /\ stage[c] \in Waiting /\ answer[c] # None /\ answer[c].kind = "problem"
  /\ Finish(c, stage[c], Failed)
  /\ Take(c)
  /\ UNCHANGED <<request, using, offered, doomed, before, sessionVars, clientVars, wire,
                 serviceVars>>

\* Waiting for a mutex heeds no context.
Interruptible ==
  {"lookup", "recover", "provide", "ready", "enrolled", "sent", "checking", "pausing",
   "deleting"}

\* Fault: the locks are not released on the way out of an error.
FailKeepsLocks(c) ==
  /\ stage[c] \in Interruptible
  /\ Finish(c, stage[c], Failed)
  /\ Take(c)
  /\ UNCHANGED <<request, using, offered, doomed, before, sessionVars, clientVars, wire,
                 serviceVars>>

\* The caller's context or the request timeout ends, the network, the provider,
\* the signer or a store fails.
Fail(c) ==
  /\ stage[c] \in Interruptible
  /\ Finish(c, stage[c], Failed)
  /\ Unlock(c)
  /\ Take(c)
  /\ UNCHANGED <<request, using, offered, doomed, before, sessionIdentity, activeEnrollment,
                 identityStore, credentialStore, provider, provisioned, wire, serviceVars>>

-----------------------------------------------------------------------------
\* What a call does on its own, once it is made.
Advance(c) ==
  \/ LockSession(c) \/ LockClient(c) \/ Provide(c) \/ SaveIdentity(c)
  \/ LookUpIdentity(c) \/ RecoverIdentity(c)
  \/ SendCommand(c)
  \/ ReceiveEnroll(c) \/ ReceiveStatus(c) \/ ReceiveGrant(c) \/ ReceiveRevoke(c)
  \/ ReceiveProblem(c)
  \/ PollAgain(c) \/ DeleteNext(c) \/ RevokeReturns(c)

\* The request timeout of a command, the deadline of WaitForActive.
Expire(c) ==
  /\ request[c] # None
  /\ request[c].op = "wait" \/ stage[c] \in Waiting
  /\ Fail(c)

Serve(m) ==
  ServeStatus(m) \/ Replay(m) \/ ServeEnroll(m) \/ ServeGrant(m) \/ ServeRevoke(m)
  \/ ServeProblem(m)

Next ==
  \/ \E c \in Calls : \E r \in Requests[c], advertised \in BOOLEAN : Call(c, r, advertised)
  \/ \E c \in Calls : Advance(c) \/ SaveFails(c) \/ StoreCredentialFails(c) \/ Fail(c)
  \/ \E m \in wire : Serve(m)
  \/ \E i \in Identities, status \in AgentStatuses : SetStanding(i, status)

\* Goroutines that can run do, the provider and the stores return, and
\* deadlines pass.  Nothing makes the Service answer.
Fairness == \A c \in Calls : WF_vars(Advance(c)) /\ WF_vars(Expire(c))

Spec == Init /\ [][Next]_vars /\ Fairness

-----------------------------------------------------------------------------
\* Types; who holds a lock is between its Lock and its Unlock; the Service
\* answers what the parsers of the Agent accept.
TypeOK ==
  /\ request \in [Calls -> AllRequests \cup {None}]
  /\ stage \in [Calls -> Interruptible \cup {"idle", "resolve", "claim", "save", "done"}]
  /\ {using[c] : c \in Calls} \cup {offered[c] : c \in Calls} \subseteq Identities \cup {None}
  /\ \A c \in Calls : (reply[c] # None) = (stage[c] = "done")
  /\ \A s \in Sessions : sessionLock[s] # None =>
       /\ Session(sessionLock[s]) = s
       /\ stage[sessionLock[s]] \in {"claim", "provide", "save"}
  /\ \A m \in wire : m.command \in Commands /\ m.identity = using[m.call]
  /\ clientLock # None => stage[clientLock] \in {"provide", "save"}
  /\ identityStore \in Identities \cup {None}
  /\ \A c \in Calls : answer[c] # None =>
       \/ answer[c] \in EnrollAnswers \cup StatusAnswers \cup GrantAnswers
       \/ ParseRevokeResponse(answer[c]) \/ answer[c].kind = "problem"
  /\ standing \in [Identities -> AgentStatuses \cup {None}]
  /\ \A k \in issued : k.id \in CredentialIDs
  /\ \A k \in credentialStore : \E x \in issued : x.id = k.id /\ x.type = k.type

\* Every call of every session uses the same identity at the Service, though
\* the provider would come up with another whenever it is asked, sessions race
\* and saves fail: the record an Agent enrolled under is the one it keeps.
OneIdentity ==
  \A c, d \in Calls : using[c] # None /\ using[d] # None => using[c] = using[d]

\* A Revoke that returned, or was retried under its key until it did, leaves
\* no record of what the Service revoked for it, unless a Grant that had not
\* returned when it was made saved the record since.
RevokeForgets ==
  \A c \in Calls :
    /\ request[c] # None /\ request[c].op = "revoke"
    /\ reply[c] # None /\ reply[c].ok
    => \A k \in credentialStore :
         [id |-> k.id, slot |-> Slot(c)] \in dead => k.by \notin before[c]

\* Every call returns, WaitForActive of a pending enrollment included, whether
\* or not the Service answers: nobody waits for ever at the locks.
EveryCallReturns ==
  <>[](\A c \in Calls : request[c] # None => reply[c] # None)
================================================================================
