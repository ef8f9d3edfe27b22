--------------------------- MODULE AgentSessionProofs ---------------------------
(***************************************************************************)
(* One identity at the Service for any number of sessions and calls,       *)
(* whatever a provider comes up with.  What all agree on is Kept: what a   *)
(* Platform has for the Service, or what the identity store holds.         *)
(* Then ServiceInv, over the calls, the messages and the Service: the      *)
(* types, and what a Revoke leaves of the credential records.              *)
(***************************************************************************)
EXTENDS AgentSession, FiniteSetTheorems, TLAPS

Providing == {"provide", "save"}

Located ==
  /\ DOMAIN request = Calls /\ DOMAIN stage = Calls /\ DOMAIN using = Calls
  /\ DOMAIN offered = Calls /\ DOMAIN sessionIdentity = Sessions
  /\ \A c \in Calls : stage[c] # "idle" => request[c] \in AllRequests
  /\ \A c \in Calls : stage[c] \in Providing => clientLock = c
  /\ \A c \in Calls : stage[c] = "recover" => provider = "platform"

Kept == IF provider = "platform" THEN provisioned ELSE identityStore

\* Nothing else is in use; a provider of one's own is only asked while nothing
\* is kept.
Agreed ==
  /\ \A c \in Calls : using[c] \in {None, Kept}
  /\ \A s \in Sessions : sessionIdentity[s] \in {None, Kept}
  /\ identityStore \in {None, Kept}
  /\ provider # "platform" /\ clientLock # None => identityStore = None
  /\ \A c \in Calls : provider = "platform" /\ stage[c] = "save" => offered[c] = provisioned

SessionInv == Located /\ Agreed

\* A step of call c that resolves nothing, and may release its locks.
Unresolving(c) ==
  /\ UNCHANGED <<using, offered, sessionIdentity, identityStore, provider, provisioned>>
  /\ clientLock' = clientLock \/ (clientLock = c /\ clientLock' = None)
  /\ DOMAIN request' = Calls /\ DOMAIN stage' = Calls
  /\ \A d \in Calls : d # c => stage'[d] = stage[d] /\ request'[d] = request[d]
  /\ \/ stage'[c] = stage[c] /\ clientLock' = clientLock
     \/ stage'[c] \notin Providing \cup {"recover"}
  /\ stage'[c] # "idle" => request'[c] \in AllRequests

LEMMA UnresolvingStep ==
  ASSUME SessionInv, NEW c \in Calls, Unresolving(c)
  PROVE  SessionInv'
  <1>1. Kept' = Kept
    BY DEF Unresolving, Kept
  <1>2. Located'
    BY NoneAssumption DEF SessionInv, Located, Unresolving, Providing
  <1>3. Agreed'
    BY <1>1 DEF SessionInv, Agreed, Unresolving, Providing
  <1> QED
    BY <1>2, <1>3 DEF SessionInv

\* A call is made.
LEMMA CallStep ==
  ASSUME SessionInv, NEW c \in Calls, NEW r \in Requests[c], NEW advertised \in BOOLEAN,
         Call(c, r, advertised)
  PROVE  Unresolving(c)
  <1>1. r \in AllRequests
    BY DEF AllRequests
  <1>2. /\ request' = [request EXCEPT ![c] = r]
        /\ \E to \in {"lookup", "resolve", "done"} : GoTo(c, "idle", to)
        /\ UNCHANGED <<using, offered, sessionVars, clientVars>>
    BY DEF Call, Finish
  <1> QED
    BY <1>1, <1>2 DEF GoTo, SessionInv, Located, Unresolving, Providing, sessionVars, clientVars

\* Commands, their answers and errors.
LEMMA CommandStep ==
  ASSUME SessionInv, NEW c \in Calls,
         \/ SendCommand(c) \/ ReceiveEnroll(c) \/ ReceiveStatus(c) \/ ReceiveGrant(c)
         \/ ReceiveRevoke(c) \/ ReceiveProblem(c) \/ PollAgain(c) \/ DeleteNext(c)
         \/ RevokeReturns(c) \/ StoreCredentialFails(c) \/ Fail(c)
  PROVE  Unresolving(c)
  <1> DEFINE Moves == \E from, to : GoTo(c, from, to) /\ from # "idle"
                                    /\ to \notin Providing \cup {"recover"}
             Frame == UNCHANGED <<request, using, offered, sessionIdentity, identityStore,
                                  provider, provisioned>>
             Locks == clientLock' = clientLock \/ (clientLock = c /\ clientLock' = None)
  <1>1. CASE SendCommand(c)
    <2>1. Moves
      BY <1>1 DEF SendCommand, Providing
    <2>2. Frame /\ Locks
      BY <1>1 DEF SendCommand, sessionVars, clientVars
    <2> QED
      BY <2>1, <2>2 DEF GoTo, SessionInv, Located, Unresolving
  <1>2. CASE ReceiveEnroll(c)
    <2>1. Moves
      BY <1>2 DEF ReceiveEnroll, Finish, Providing
    <2>2. Frame /\ Locks
      BY <1>2 DEF ReceiveEnroll, sessionVars, clientVars
    <2> QED
      BY <2>1, <2>2 DEF GoTo, SessionInv, Located, Unresolving
  <1>3. CASE ReceiveStatus(c)
    <2>1. Moves
      <3>1. request[c].op = "status" => GoTo(c, "sent", "done")
        BY <1>3 DEF ReceiveStatus, Finish
      <3>2. request[c].op = "wait" => GoTo(c, "sent", "done") \/ GoTo(c, "sent", "pausing")
        BY <1>3 DEF ReceiveStatus, Finish
      <3>3. request[c].op \notin {"status", "wait"} =>
              GoTo(c, "checking", "enrolled") \/ GoTo(c, "checking", "done")
        BY <1>3 DEF ReceiveStatus, Finish
      <3> QED
        BY <3>1, <3>2, <3>3 DEF Providing
    <2>2. Frame /\ Locks
      BY <1>3 DEF ReceiveStatus, sessionVars, clientVars
    <2> QED
      BY <2>1, <2>2 DEF GoTo, SessionInv, Located, Unresolving
  <1>4. CASE ReceiveGrant(c) \/ StoreCredentialFails(c)
    <2>1. Moves
      BY <1>4 DEF ReceiveGrant, StoreCredentialFails, Finish, Providing
    <2>2. Frame /\ Locks
      BY <1>4 DEF ReceiveGrant, StoreCredentialFails, sessionVars, clientVars
    <2> QED
      BY <2>1, <2>2 DEF GoTo, SessionInv, Located, Unresolving
  <1>5. CASE ReceiveRevoke(c) \/ RevokeReturns(c) \/ PollAgain(c)
    <2>1. Moves
      BY <1>5 DEF ReceiveRevoke, RevokeReturns, PollAgain, Finish, Providing
    <2>2. Frame /\ Locks
      BY <1>5 DEF ReceiveRevoke, RevokeReturns, PollAgain, sessionVars, clientVars
    <2> QED
      BY <2>1, <2>2 DEF GoTo, SessionInv, Located, Unresolving
  <1>6. CASE ReceiveProblem(c)
    <2>1. Moves
      BY <1>6 DEF ReceiveProblem, Finish, Waiting, Providing
    <2>2. Frame /\ Locks
      BY <1>6 DEF ReceiveProblem, sessionVars, clientVars
    <2> QED
      BY <2>1, <2>2 DEF GoTo, SessionInv, Located, Unresolving
  <1>7. CASE DeleteNext(c)
    <2>1. /\ stage[c] = "deleting" /\ UNCHANGED stage
          /\ Frame /\ Locks
      BY <1>7 DEF DeleteNext, sessionVars
    <2> QED
      BY <2>1 DEF SessionInv, Located, Unresolving, Providing
  <1>8. CASE Fail(c)
    <2>1. Moves
      BY <1>8 DEF Fail, Finish, Interruptible, Providing
    <2>2. Frame /\ Locks
      BY <1>8 DEF Fail, Unlock
    <2>3. stage'[c] = "done"
      BY <1>8 DEF Fail, Finish, GoTo, SessionInv, Located
    <2> QED
      BY <2>1, <2>2, <2>3 DEF GoTo, SessionInv, Located, Unresolving, Providing
  <1> QED
    BY <1>1, <1>2, <1>3, <1>4, <1>5, <1>6, <1>7, <1>8

\* The locks, and the look for an identity.
LEMMA ResolvingStep ==
  ASSUME SessionInv, NEW c \in Calls,
         \/ LockSession(c) \/ LockClient(c) \/ Provide(c) \/ LookUpIdentity(c) \/ RecoverIdentity(c)
  PROVE  SessionInv'
  <1> DEFINE Told(from, i) ==
        /\ using' = [using EXCEPT ![c] = i]
        /\ \E to \in {"done", "ready"} : GoTo(c, from, to)
  <1>1. \A from, i : Resolved(c, from, i) => Told(from, i)
    BY DEF Resolved, Finish
  <1> HIDE DEF Told
  <1>2. CASE LockSession(c)
    <2>1. /\ stage[c] = "resolve"
          /\ UNCHANGED <<request, offered, sessionIdentity, clientLock, identityStore, provider, provisioned>>
          /\ \/ Told("resolve", sessionIdentity[Session(c)])
             \/ GoTo(c, "resolve", "claim") /\ UNCHANGED using
      BY <1>1, <1>2 DEF LockSession, clientVars
    <2>2. Session(c) \in Sessions
      BY <2>1, RequestsAssumption DEF SessionInv, Located, Session
    <2>3. sessionIdentity[Session(c)] \in {None, Kept} /\ Kept' = Kept
      BY <2>1, <2>2 DEF SessionInv, Agreed, Kept
    <2>4. Located'
      BY <2>1 DEF Told, GoTo, SessionInv, Located, Providing
    <2>5. Agreed'
      BY <2>1, <2>3 DEF Told, GoTo, SessionInv, Located, Agreed
    <2> QED
      BY <2>4, <2>5 DEF SessionInv
  <1>3. CASE LockClient(c)
    <2>1. /\ stage[c] = "claim" /\ clientLock = None
          /\ UNCHANGED <<request, offered, identityStore, provider, provisioned>>
          /\ \/ /\ Told("claim", identityStore) /\ clientLock' = None
                /\ sessionIdentity' = [sessionIdentity EXCEPT ![Session(c)] = identityStore]
             \/ /\ GoTo(c, "claim", "provide") /\ clientLock' = c /\ identityStore = None
                /\ UNCHANGED <<using, sessionIdentity>>
      BY <1>1, <1>3 DEF LockClient, Unlock
    <2>2. identityStore \in {None, Kept} /\ Kept' = Kept
      BY <2>1 DEF SessionInv, Agreed, Kept
    <2>3. \A d \in Calls : stage[d] \notin Providing
      BY <2>1, NoneAssumption DEF SessionInv, Located
    <2>4. Located'
      BY <2>1, <2>3 DEF Told, GoTo, SessionInv, Located, Providing
    <2>5. Agreed'
      BY <2>1, <2>2 DEF Told, GoTo, SessionInv, Located, Agreed
    <2> QED
      BY <2>4, <2>5 DEF SessionInv
  <1>4. CASE Provide(c)
    <2>1. PICK i \in Identities :
            /\ provider = "platform" /\ provisioned # None => i = provisioned
            /\ offered' = [offered EXCEPT ![c] = i]
            /\ provisioned' = IF provider = "platform" THEN i ELSE provisioned
      BY <1>4 DEF Provide
    <2>2. /\ GoTo(c, "provide", "save")
          /\ UNCHANGED <<request, using, sessionIdentity, clientLock, identityStore, provider>>
      BY <1>4 DEF Provide, sessionVars
    <2>3. \A d \in Calls : d # c => stage[d] \notin Providing
      BY <2>2 DEF GoTo, SessionInv, Located, Providing
    <2>4. Located'
      BY <2>1, <2>2 DEF GoTo, SessionInv, Located, Providing
    <2>5. Kept' = Kept \/ Kept = None
      BY <2>1, <2>2 DEF Kept
    <2>6. \A d \in Calls : provider' = "platform" /\ stage'[d] = "save" => offered'[d] = provisioned'
      BY <2>1, <2>2, <2>3 DEF GoTo, SessionInv, Located, Providing
    <2>7. Agreed'
      BY <2>2, <2>5, <2>6 DEF SessionInv, Agreed
    <2> QED
      BY <2>4, <2>7 DEF SessionInv
  <1>5. CASE LookUpIdentity(c)
    <2>1. /\ UNCHANGED <<request, offered, sessionIdentity, clientLock, identityStore, provider, provisioned>>
          /\ \/ Told("lookup", identityStore)
             \/ GoTo(c, "lookup", "recover") /\ provider = "platform" /\ UNCHANGED using
             \/ GoTo(c, "lookup", "done") /\ UNCHANGED using
      BY <1>1, <1>5 DEF LookUpIdentity, Finish, sessionVars, clientVars
    <2>2. identityStore \in {None, Kept} /\ Kept' = Kept
      BY <2>1 DEF SessionInv, Agreed, Kept
    <2>3. Located'
      BY <2>1 DEF Told, GoTo, SessionInv, Located, Providing
    <2>4. Agreed'
      BY <2>1, <2>2 DEF Told, GoTo, SessionInv, Located, Agreed
    <2> QED
      BY <2>3, <2>4 DEF SessionInv
  <1>6. CASE RecoverIdentity(c)
    <2>1. /\ stage[c] = "recover"
          /\ UNCHANGED <<request, offered, sessionIdentity, clientLock, provider, provisioned>>
          /\ \/ Told("recover", provisioned) /\ identityStore' = provisioned
             \/ GoTo(c, "recover", "done") /\ UNCHANGED <<using, identityStore>>
      BY <1>1, <1>6 DEF RecoverIdentity, Finish, sessionVars
    <2>2. provider = "platform" /\ Kept = provisioned /\ Kept' = Kept
      BY <2>1 DEF SessionInv, Located, Kept
    <2>3. Located'
      BY <2>1 DEF Told, GoTo, SessionInv, Located, Providing
    <2>4. Agreed'
      BY <2>1, <2>2 DEF Told, GoTo, SessionInv, Located, Agreed
    <2> QED
      BY <2>3, <2>4 DEF SessionInv
  <1> QED
    BY <1>2, <1>3, <1>4, <1>5, <1>6

\* The identity a provider offers is kept: whoever asked held the lock, and
\* nothing was kept before.
LEMMA SavingStep ==
  ASSUME SessionInv, NEW c \in Calls, SaveIdentity(c) \/ SaveFails(c)
  PROVE  SessionInv'
  <1>1. /\ stage[c] = "save" /\ clientLock = c /\ c # None
        /\ \A d \in Calls : d # c => stage[d] \notin Providing
    BY NoneAssumption DEF SaveIdentity, SaveFails, Finish, GoTo, SessionInv, Located, Providing
  <1>2. Kept \in {None, offered[c]} /\ (provider # "platform" => Kept = None)
    BY <1>1 DEF SessionInv, Agreed, Kept
  <1>3. /\ UNCHANGED <<request, offered, provider, provisioned>> /\ clientLock' = None
        /\ \E to \in {"done", "ready"} : GoTo(c, "save", to)
        /\ \/ /\ using' = [using EXCEPT ![c] = offered[c]]
              /\ sessionIdentity' = [sessionIdentity EXCEPT ![Session(c)] = offered[c]]
              /\ identityStore' = offered[c]
           \/ /\ UNCHANGED <<using, sessionIdentity>>
              /\ identityStore' \in {identityStore, offered[c]}
    BY <1>1 DEF SaveIdentity, SaveFails, Resolved, Finish, Unlock
  <1>4. Located'
    BY <1>1, <1>3 DEF GoTo, SessionInv, Located, Providing
  <1>5. provider = "platform" => offered[c] = provisioned
    BY <1>1 DEF SessionInv, Agreed
  <1>6. identityStore \in {None, Kept}
    BY DEF SessionInv, Agreed
  <1>7. Agreed'
    <2>1. CASE provider = "platform"
      <3>1. Kept = offered[c] /\ Kept' = Kept
        BY <1>3, <1>5, <2>1 DEF Kept
      <3> QED
        BY <1>1, <1>3, <1>6, <2>1, <3>1 DEF GoTo, SessionInv, Located, Providing, Agreed
    <2>2. CASE provider # "platform"
      <3>1. Kept = None /\ Kept' = identityStore' /\ identityStore' \in {None, offered[c]}
        BY <1>2, <1>3, <1>6, <2>2 DEF Kept
      <3> QED
        BY <1>3, <2>2, <3>1 DEF SessionInv, Located, Agreed
    <2> QED
      BY <2>1, <2>2
  <1> QED
    BY <1>4, <1>7 DEF SessionInv

\* The Service, and a step of nobody.
LEMMA StillStep ==
  ASSUME SessionInv,
         \/ UNCHANGED vars \/ \E m \in wire : Serve(m)
         \/ \E i \in Identities, status \in AgentStatuses : SetStanding(i, status)
  PROVE  SessionInv'
  <1>1. UNCHANGED agentSide
    BY DEF vars, Serve, ServeStatus, Replay, ServeEnroll, ServeGrant, ServeRevoke, ServeProblem,
           SetStanding, agentSide
  <1> QED
    BY <1>1 DEF agentSide, callVars, sessionVars, clientVars, SessionInv, Located, Agreed, Kept

LEMMA SessionInitially ==
  ASSUME Init
  PROVE  SessionInv
  <1>1. Located
    BY DEF Init, Located, Providing
  <1>2. Agreed
    BY StartsAssumption DEF Init, Agreed, Kept
  <1> QED
    BY <1>1, <1>2 DEF SessionInv

\* Every step keeps to the one identity.
THEOREM SessionInvariant == Spec => []SessionInv
  <1>1. Init => SessionInv
    BY SessionInitially
  <1>2. SessionInv /\ [Next]_vars => SessionInv'
    <2> SUFFICES ASSUME SessionInv, [Next]_vars
                 PROVE  SessionInv'
      OBVIOUS
    <2>1. CASE \E c \in Calls : \E r \in Requests[c], advertised \in BOOLEAN : Call(c, r, advertised)
      BY <2>1, CallStep, UnresolvingStep
    <2>2. CASE \E c \in Calls : Advance(c) \/ SaveFails(c) \/ StoreCredentialFails(c) \/ Fail(c)
      BY <2>2, CommandStep, UnresolvingStep, ResolvingStep, SavingStep DEF Advance
    <2>3. CASE \/ UNCHANGED vars \/ \E m \in wire : Serve(m)
               \/ \E i \in Identities, status \in AgentStatuses : SetStanding(i, status)
      BY <2>3, StillStep
    <2> QED
      BY <2>1, <2>2, <2>3 DEF Next
  <1> QED
    BY <1>1, <1>2, PTL DEF Spec

\* Every call of every session uses one identity at the Service, though a
\* provider would come up with another whenever it is asked, sessions race and
\* saves fail half way.
THEOREM SessionsShareOneIdentity == Spec => []OneIdentity
  <1>1. SessionInv => OneIdentity
    BY DEF SessionInv, Agreed, OneIdentity
  <1> QED
    BY <1>1, SessionInvariant, PTL
-----------------------------------------------------------------------------
(* Where a call is, and what it holds there.                                *)

Stages == Interruptible \cup {"idle", "resolve", "claim", "save", "done"}
Holding == {"claim", "provide", "save"}
Seeking == {"resolve", "claim", "provide", "save", "lookup", "recover"}
\* Stages of a call that has its identity.
Beyond == {"ready", "enrolled", "sent", "checking", "pausing", "deleting"}
Replies == {Failed} \cup {Ok(a) : a \in Answers \cup Identities}

Shaped ==
  /\ request \in [Calls -> AllRequests \cup {None}]
  /\ stage \in [Calls -> Stages]
  /\ using \in [Calls -> Identities \cup {None}]
  /\ offered \in [Calls -> Identities \cup {None}]
  /\ reply \in [Calls -> Replies \cup {None}]
  /\ answer \in [Calls -> Answers \cup {None}]
  /\ DOMAIN doomed = Calls /\ DOMAIN before = Calls
  /\ sessionLock \in [Sessions -> Calls \cup {None}]
  /\ sessionIdentity \in [Sessions -> Identities \cup {None}]
  /\ identityStore \in Identities \cup {None} /\ provisioned \in Identities \cup {None}

Placed ==
  /\ \A c \in Calls : (request[c] = None) = (stage[c] = "idle")
  /\ \A c \in Calls : (reply[c] # None) = (stage[c] = "done")
  /\ \A c \in Calls : stage[c] = "save" => offered[c] # None
  /\ \A c \in Calls : stage[c] \in Beyond => using[c] # None /\ request[c].op # "identity"
  /\ \A c, d \in Calls : d \in before[c] => reply[d] # None

Locked ==
  /\ \A s \in Sessions : sessionLock[s] # None =>
       Session(sessionLock[s]) = s /\ stage[sessionLock[s]] \in Holding
  /\ clientLock # None => clientLock \in Calls /\ stage[clientLock] \in Providing

Places == Shaped /\ Placed /\ Locked

-----------------------------------------------------------------------------
(* What goes between a call and the Service.                                *)

\* The commands of an operation: the one it is named after, and Status.
Asks(op, command) ==
  IF command = "status" THEN op \in {"status", "wait", "grant"} ELSE command = op

\* A call past the look for an identity does not go back to it.
Settled == Beyond \cup {"done"}

Issued(a) == a \in GrantAnswers => \E x \in issued : x.id = a.id /\ x.type = a.type

Wired ==
  /\ \A m \in wire :
       /\ m.call \in Calls /\ stage[m.call] \in Settled
       /\ m.identity = using[m.call] /\ m.identity \in Identities
       /\ m.command \in Commands /\ Asks(request[m.call].op, m.command)
  /\ \A c \in Calls : answer[c] # None =>
       /\ stage[c] \in Settled
       /\ answer[c].kind = "problem" \/ Asks(request[c].op, answer[c].kind)
       /\ Issued(answer[c])
       /\ answer[c] = RevokeAnswer =>
            [slot |-> Slot(c), request |-> Material(c), answer |-> RevokeAnswer] \in memory

Remembered ==
  /\ \A e, f \in memory : e.slot = f.slot => e = f
  /\ \A e \in memory :
       /\ e = [slot |-> e.slot, request |-> e.request, answer |-> e.answer]
       /\ e.answer \in Answers /\ Issued(e.answer)
       /\ e.answer.kind \in {"problem", e.request.op}
  /\ standing \in [Identities -> AgentStatuses \cup {None}]
  /\ IsFiniteSet(issued)
  /\ \A x \in issued : x.id \in CredentialIDs /\ x.id \in 1..Cardinality(issued)
  /\ \A x, y \in issued : x.id = y.id => x = y
  /\ \A d \in dead : \E x \in issued, e \in memory :
       x.id = d.id /\ e.slot = d.slot /\ Selects(e.request, x.type, x.id)

\* A record of the Agent is of a credential the Service issued.
Stored ==
  \A k \in credentialStore :
    /\ k.by \in Calls /\ reply[k.by] # None
    /\ \E x \in issued : x.id = k.id /\ x.type = k.type

Matches(r, k) == Selects(r, k.type, k.id) \/ r.id = k.id

\* What a Revoke that was answered has seen of the records: the ones that were
\* there and match are gone or about to go.
Forgotten(c) ==
  /\ [slot |-> Slot(c), request |-> Material(c), answer |-> RevokeAnswer] \in memory
  /\ \A k \in credentialStore :
       k.by \in before[c] /\ Matches(request[c], k) => k \in doomed[c]

Forgetting ==
  \A c \in Calls :
    /\ stage[c] = "deleting" => Forgotten(c)
    /\ stage[c] = "done" /\ request[c].op = "revoke" /\ reply[c].ok =>
         Forgotten(c) /\ doomed[c] = {}

ServiceInv == Places /\ Wired /\ Remembered /\ Stored /\ Forgetting

-----------------------------------------------------------------------------
(* What a step leaves alone.                                                *)

\* A step of call c, once it is made: it keeps to its own, moves on, and lets
\* go of what it holds when it leaves.
Turn(c) ==
  /\ Shaped' /\ UNCHANGED <<request, before>>
  /\ \A d \in Calls : d # c =>
       /\ stage'[d] = stage[d] /\ using'[d] = using[d] /\ offered'[d] = offered[d]
       /\ reply'[d] = reply[d] /\ doomed'[d] = doomed[d]
  /\ stage[c] \notin {"idle", "done"} /\ stage'[c] # "idle"
  /\ (reply'[c] # None) = (stage'[c] = "done")
  /\ stage'[c] = "save" => offered'[c] # None
  /\ stage'[c] \in Beyond => using'[c] # None /\ request[c].op # "identity"
  /\ stage[c] \in Settled => stage'[c] \in Settled /\ using'[c] = using[c]
  /\ \/ /\ sessionLock' \in {sessionLock, [sessionLock EXCEPT ![Session(c)] = c]}
        /\ clientLock' \in {clientLock, c}
        /\ stage'[c] \in Holding /\ (c \in {clientLock, clientLock'} => stage'[c] \in Providing)
     \/ Unlock(c)
     \/ stage[c] \notin Holding /\ UNCHANGED <<sessionLock, clientLock>>

LEMMA TurnPlaces ==
  ASSUME Places, NEW c \in Calls, Turn(c)
  PROVE  Places'
  <1>1. Placed'
    <2>1. \A d \in Calls : (request'[d] = None) = (stage'[d] = "idle")
      BY DEF Places, Placed, Turn
    <2>2. \A d \in Calls : (reply'[d] # None) = (stage'[d] = "done")
      BY DEF Places, Placed, Turn
    <2>3. \A d \in Calls : stage'[d] = "save" => offered'[d] # None
      BY DEF Places, Placed, Turn
    <2>4. \A d \in Calls : stage'[d] \in Beyond => using'[d] # None /\ request'[d].op # "identity"
      BY DEF Places, Placed, Turn
    <2>5. \A d, e \in Calls : e \in before'[d] => reply'[e] # None
      BY DEF Places, Placed, Turn
    <2> QED
      BY <2>1, <2>2, <2>3, <2>4, <2>5 DEF Placed
  <1>2. Locked'
    <2>1. CASE /\ sessionLock' \in {sessionLock, [sessionLock EXCEPT ![Session(c)] = c]}
               /\ clientLock' \in {clientLock, c}
               /\ stage'[c] \in Holding /\ (c \in {clientLock, clientLock'} => stage'[c] \in Providing)
      BY <2>1 DEF Places, Shaped, Locked, Turn, Session
    <2>2. CASE Unlock(c)
      BY <2>2 DEF Places, Shaped, Locked, Turn, Unlock, Session
    <2>3. CASE stage[c] \notin Holding /\ UNCHANGED <<sessionLock, clientLock>>
      <3>1. \A s \in Sessions : sessionLock[s] # c \/ None = c
        BY <2>3 DEF Places, Locked
      <3>2. clientLock # c \/ None = c
        BY <2>3 DEF Places, Locked, Holding, Providing
      <3> QED
        BY <2>3, <3>1, <3>2 DEF Places, Shaped, Locked, Turn, Session
    <2> QED
      BY <2>1, <2>2, <2>3 DEF Turn
  <1> QED
    BY <1>1, <1>2 DEF Places, Turn

\* A call that has its identity, or has returned, keeps what it asks for and under
\* which key, and what had returned when it was made.
Endures ==
  \A d \in Calls :
    /\ stage[d] \in Settled =>
         /\ stage'[d] \in Settled
         /\ request'[d] = request[d] /\ Slot(d)' = Slot(d) /\ Material(d)' = Material(d)
         /\ using'[d] = using[d] /\ before'[d] = before[d]
    /\ reply[d] # None => reply'[d] = reply[d]

LEMMA TurnEndures ==
  ASSUME Places, NEW c \in Calls, Turn(c)
  PROVE  Endures
  <1> SUFFICES ASSUME NEW d \in Calls
               PROVE  /\ stage[d] \in Settled =>
                           /\ stage'[d] \in Settled
                           /\ request'[d] = request[d] /\ Slot(d)' = Slot(d) /\ Material(d)' = Material(d)
                           /\ using'[d] = using[d] /\ before'[d] = before[d]
                      /\ reply[d] # None => reply'[d] = reply[d]
    BY DEF Endures
  <1>1. request' = request /\ before' = before
    BY DEF Turn
  <1>2. stage[d] \in Settled => stage'[d] \in Settled /\ using'[d] = using[d]
    BY DEF Turn
  <1>3. reply[d] # None => reply'[d] = reply[d]
    BY DEF Turn, Places, Placed
  <1>4. stage[d] \in Settled => Slot(d)' = Slot(d)
    BY <1>1, <1>2 DEF Slot, KeyOf
  <1>5. Material(d)' = Material(d)
    BY <1>1 DEF Material
  <1> QED
    BY <1>1, <1>2, <1>3, <1>4, <1>5

\* Messages stay true while nothing is forgotten.
LEMMA WiredEndures ==
  ASSUME Places, Wired, Endures, wire' \subseteq wire, memory \subseteq memory',
         issued \subseteq issued', \A c \in Calls : answer'[c] \in {None, answer[c]}
  PROVE  Wired'
  <1>1. \A a : Issued(a) => Issued(a)'
    BY DEF Issued
  <1>2. ASSUME NEW m \in wire'
        PROVE  /\ m.call \in Calls /\ stage'[m.call] \in Settled
               /\ m.identity = using'[m.call] /\ m.identity \in Identities
               /\ m.command \in Commands /\ Asks(request'[m.call].op, m.command)
    BY <1>2 DEF Wired, Endures
  <1>3. ASSUME NEW c \in Calls, answer'[c] # None
        PROVE  /\ stage'[c] \in Settled
               /\ answer'[c].kind = "problem" \/ Asks(request'[c].op, answer'[c].kind)
               /\ Issued(answer[c])'
               /\ answer'[c] = RevokeAnswer =>
                    [slot |-> Slot(c)', request |-> Material(c)', answer |-> RevokeAnswer] \in memory'
    <2>1. answer'[c] = answer[c] /\ answer[c] # None
      BY <1>3
    <2>2. /\ stage'[c] \in Settled /\ request'[c] = request[c]
          /\ Slot(c)' = Slot(c) /\ Material(c)' = Material(c)
      BY <2>1 DEF Wired, Endures
    <2>3. Issued(answer[c])'
      BY <2>1 DEF Wired, Issued
    <2> QED
      BY <2>1, <2>2, <2>3 DEF Wired
  <1> QED
    BY <1>2, <1>3 DEF Wired

LEMMA RememberedEndures ==
  ASSUME Remembered, UNCHANGED serviceVars
  PROVE  Remembered'
  <1>1. \A a : Issued(a)' = Issued(a)
    BY DEF Issued, serviceVars
  <1> QED
    BY <1>1 DEF Remembered, serviceVars, Issued

LEMMA StoredEndures ==
  ASSUME Stored, Endures, credentialStore' \subseteq credentialStore, issued \subseteq issued'
  PROVE  Stored'
  BY DEF Stored, Endures

\* A record that a call saves as it returns was not there for a Revoke to see.
LEMMA ForgottenEndures ==
  ASSUME Places, Endures, memory \subseteq memory', NEW c \in Calls, stage[c] \in Settled,
         doomed'[c] = doomed[c], Forgotten(c),
         \A k \in credentialStore' : k \in credentialStore \/ (k.by \in Calls /\ reply[k.by] = None)
  PROVE  Forgotten(c)'
  <1>1. /\ Slot(c)' = Slot(c) /\ Material(c)' = Material(c)
        /\ request'[c] = request[c] /\ before'[c] = before[c]
    BY DEF Endures
  <1>2. [slot |-> Slot(c)', request |-> Material(c)', answer |-> RevokeAnswer] \in memory'
    BY <1>1 DEF Forgotten
  <1>3. ASSUME NEW k \in credentialStore', k.by \in before'[c], Matches(request'[c], k)
        PROVE  k \in doomed'[c]
    <2>1. k \in credentialStore
      BY <1>1, <1>3 DEF Places, Placed
    <2> QED
      BY <1>1, <1>3, <2>1 DEF Forgotten
  <1> QED
    BY <1>2, <1>3 DEF Forgotten, Matches, Selects

-----------------------------------------------------------------------------
(* The turns of a call.                                                     *)

Moves(c) ==
  /\ stage' \in [Calls -> Stages] /\ reply' \in [Calls -> Replies \cup {None}]
  /\ \A d \in Calls : d # c => stage'[d] = stage[d] /\ reply'[d] = reply[d]
  /\ stage[c] \notin {"idle", "done"} /\ stage'[c] # "idle"
  /\ (reply'[c] # None) = (stage'[c] = "done")

LEMMA GoesOn ==
  ASSUME Places, NEW c \in Calls, NEW from \in Stages \ {"idle", "done"},
         NEW to \in Stages \ {"idle", "done"}, GoTo(c, from, to), UNCHANGED reply
  PROVE  Moves(c) /\ stage'[c] = to
  BY DEF Places, Shaped, Placed, GoTo, Moves

LEMMA Returns ==
  ASSUME Places, NEW c \in Calls, NEW from \in Stages \ {"idle", "done"},
         NEW r \in Replies, Finish(c, from, r)
  PROVE  Moves(c) /\ stage'[c] = "done" /\ reply'[c] = r
  <1>1. "done" \in Stages /\ r # None
    BY ReplyAssumption DEF Stages, Replies
  <1> QED
    BY <1>1 DEF Places, Shaped, Placed, GoTo, Finish, Return, Moves

\* Looking for an identity disturbs nothing of what a command does.
Sought(c) ==
  /\ UNCHANGED <<doomed, credentialStore, netVars, serviceVars>>
  /\ stage[c] \notin Settled /\ stage'[c] # "deleting"
  /\ stage'[c] = "done" => request[c].op = "identity" \/ ~reply'[c].ok

LEMMA Resolves ==
  ASSUME Places, NEW c \in Calls, NEW from \in Stages \ (Settled \cup {"idle"}),
         NEW i \in Identities, Resolved(c, from, i)
  PROVE  /\ Moves(c) /\ stage'[c] \in {"ready", "done"}
         /\ stage'[c] = "done" <=> request[c].op = "identity"
         /\ using' \in [Calls -> Identities \cup {None}] /\ using'[c] = i /\ i # None
         /\ \A d \in Calls : d # c => using'[d] = using[d]
  <1>1. /\ from \in Stages \ {"idle", "done"} /\ "ready" \in Stages \ {"idle", "done"}
        /\ Ok(i) \in Replies
    BY DEF Settled, Stages, Interruptible, Replies
  <1>2. Moves(c) /\ stage'[c] \in {"ready", "done"} /\ (stage'[c] = "done" <=> request[c].op = "identity")
    <2>1. CASE request[c].op = "identity"
      BY <1>1, <2>1, Returns DEF Resolved
    <2>2. CASE request[c].op # "identity"
      BY <1>1, <2>2, GoesOn DEF Resolved
    <2> QED
      BY <2>1, <2>2
  <1>3. using' = [using EXCEPT ![c] = i]
    BY DEF Resolved
  <1>4. i # None
    BY NoneAssumption
  <1> QED
    BY <1>2, <1>3, <1>4 DEF Places, Shaped

LEMMA Fails ==
  ASSUME Places, NEW c \in Calls, NEW from \in Stages \ {"idle", "done"}, Finish(c, from, Failed)
  PROVE  Moves(c) /\ stage'[c] = "done" /\ ~reply'[c].ok
  <1>1. Failed \in Replies /\ ~Failed.ok
    BY DEF Replies, Failed
  <1> QED
    BY <1>1, Returns

\* Session of a call that has been made.
LEMMA HasSession ==
  ASSUME Places, NEW c \in Calls, stage[c] # "idle"
  PROVE  request[c] \in AllRequests /\ Session(c) \in Sessions
  BY RequestsAssumption DEF Places, Shaped, Placed, Session

LEMMA SeekingTurn ==
  ASSUME Places, NEW c \in Calls,
         \/ LockSession(c) \/ LockClient(c) \/ Provide(c) \/ LookUpIdentity(c) \/ RecoverIdentity(c)
         \/ SaveIdentity(c) \/ SaveFails(c)
  PROVE  Turn(c) /\ Sought(c)
  <1>0. /\ {"resolve", "claim", "provide", "save", "lookup", "recover"} \subseteq Stages \ (Settled \cup {"idle", "done"})
        /\ {"ready", "done"} \cap (Holding \cup Seeking) = {}
    BY DEF Stages, Settled, Beyond, Interruptible, Holding, Seeking
  <1>1. CASE LockSession(c)
    <2>1. /\ stage[c] = "resolve" /\ Session(c) \in Sessions
          /\ UNCHANGED <<request, offered, doomed, before, sessionIdentity, activeEnrollment,
                 clientVars, netVars, serviceVars>>
      BY <1>1, HasSession DEF LockSession
    <2>2. CASE sessionIdentity[Session(c)] # None
      <3>1. sessionIdentity[Session(c)] \in Identities
        BY <2>1, <2>2 DEF Places, Shaped
      <3>2. Resolved(c, "resolve", sessionIdentity[Session(c)]) /\ UNCHANGED sessionLock
        BY <1>1, <2>2 DEF LockSession
      <3>3. /\ Moves(c) /\ stage'[c] \in {"ready", "done"}
            /\ stage'[c] = "done" <=> request[c].op = "identity"
            /\ using' \in [Calls -> Identities \cup {None}] /\ using'[c] # None
            /\ \A d \in Calls : d # c => using'[d] = using[d]
        BY <1>0, <3>1, <3>2, Resolves
      <3>4. Turn(c)
        BY <1>0, <2>1, <3>2, <3>3 DEF Turn, Places, Shaped, Moves, clientVars, netVars, Holding, Settled, Beyond
      <3> QED
        BY <1>0, <2>1, <3>3, <3>4 DEF Sought, clientVars
    <2>3. CASE sessionIdentity[Session(c)] = None
      <3>1. /\ GoTo(c, "resolve", "claim")
            /\ sessionLock' = [sessionLock EXCEPT ![Session(c)] = c]
            /\ UNCHANGED <<using, reply>>
        BY <1>1, <2>3 DEF LockSession
      <3>2. Moves(c) /\ stage'[c] = "claim"
        BY <1>0, <3>1, GoesOn
      <3>3. c \notin {clientLock, clientLock'} \/ stage'[c] \in Providing
        BY <1>0, <2>1, NoneAssumption DEF Places, Locked, clientVars, Providing
      <3>4. Shaped'
        BY <2>1, <3>1, <3>2 DEF Places, Shaped, Moves, clientVars, netVars
      <3>5. Turn(c)
        BY <1>0, <2>1, <3>1, <3>2, <3>3, <3>4 DEF Turn, Moves, clientVars, Holding, Settled, Beyond
      <3> QED
        BY <1>0, <2>1, <3>2, <3>5 DEF Sought, clientVars
    <2> QED
      BY <2>2, <2>3
  <1>2. CASE LockClient(c)
    <2>1. /\ stage[c] = "claim"
          /\ UNCHANGED <<request, offered, doomed, before, activeEnrollment, identityStore,
                 credentialStore, provider, provisioned, netVars, serviceVars>>
      BY <1>2 DEF LockClient
    <2>2. CASE identityStore # None
      <3>1. identityStore \in Identities
        BY <2>2 DEF Places, Shaped
      <3>2. /\ Resolved(c, "claim", identityStore) /\ Unlock(c)
            /\ sessionIdentity' = [sessionIdentity EXCEPT ![Session(c)] = identityStore]
        BY <1>2, <2>2 DEF LockClient
      <3>3. /\ Moves(c) /\ stage'[c] \in {"ready", "done"}
            /\ stage'[c] = "done" <=> request[c].op = "identity"
            /\ using' \in [Calls -> Identities \cup {None}] /\ using'[c] # None
            /\ \A d \in Calls : d # c => using'[d] = using[d]
        BY <1>0, <3>1, <3>2, Resolves
      <3>4. sessionLock' \in [Sessions -> Calls \cup {None}]
        BY <3>2 DEF Unlock, Places, Shaped
      <3>5. Shaped'
        BY <2>1, <3>1, <3>2, <3>3, <3>4 DEF Places, Shaped, Moves, netVars
      <3>6. Turn(c)
        BY <1>0, <2>1, <3>2, <3>3, <3>5 DEF Turn, Moves, Settled, Beyond
      <3> QED
        BY <1>0, <2>1, <3>3, <3>6 DEF Sought
    <2>3. CASE identityStore = None
      <3>1. /\ GoTo(c, "claim", "provide") /\ clientLock' = c
            /\ UNCHANGED <<using, reply, sessionIdentity, sessionLock>>
        BY <1>2, <2>3 DEF LockClient
      <3>2. Moves(c) /\ stage'[c] = "provide"
        BY <1>0, <3>1, GoesOn
      <3>3. Shaped'
        BY <2>1, <3>1, <3>2 DEF Places, Shaped, Moves, netVars
      <3>4. Turn(c)
        BY <1>0, <2>1, <3>1, <3>2, <3>3 DEF Turn, Moves, Holding, Providing, Settled, Beyond
      <3> QED
        BY <1>0, <2>1, <3>2, <3>4 DEF Sought
    <2> QED
      BY <2>2, <2>3
  <1>3. CASE Provide(c)
    <2>1. /\ GoTo(c, "provide", "save")
          /\ UNCHANGED <<request, using, doomed, reply, before, sessionVars, clientLock,
                 identityStore, credentialStore, provider, netVars, serviceVars>>
      BY <1>3 DEF Provide
    <2>2. PICK i \in Identities : /\ offered' = [offered EXCEPT ![c] = i]
                                 /\ provisioned' \in {i, provisioned}
      BY <1>3 DEF Provide
    <2>3. stage[c] = "provide" /\ Moves(c) /\ stage'[c] = "save" /\ i # None
      BY <1>0, <2>1, GoesOn, NoneAssumption DEF GoTo
    <2>4. Shaped'
      BY <2>1, <2>2, <2>3 DEF Places, Shaped, Moves, sessionVars, netVars
    <2>5. offered'[c] = i /\ \A d \in Calls : d # c => offered'[d] = offered[d]
      BY <2>2 DEF Places, Shaped
    <2>6. Turn(c)
      BY <1>0, <2>1, <2>3, <2>4, <2>5 DEF Turn, Moves, Holding, Providing, Settled, Beyond, sessionVars
    <2> QED
      BY <1>0, <2>1, <2>3, <2>6 DEF Sought
  <1>4. CASE SaveIdentity(c)
    <2>1. /\ stage[c] = "save" /\ identityStore' = offered[c]
          /\ sessionIdentity' = [sessionIdentity EXCEPT ![Session(c)] = offered[c]]
          /\ Resolved(c, "save", offered[c]) /\ Unlock(c)
          /\ UNCHANGED <<request, offered, doomed, before, activeEnrollment, credentialStore,
                 provider, provisioned, netVars, serviceVars>>
      BY <1>4 DEF SaveIdentity
    <2>2. offered[c] \in Identities
      BY <2>1 DEF Places, Shaped, Placed
    <2>3. /\ Moves(c) /\ stage'[c] \in {"ready", "done"}
          /\ stage'[c] = "done" <=> request[c].op = "identity"
          /\ using' \in [Calls -> Identities \cup {None}] /\ using'[c] # None
          /\ \A d \in Calls : d # c => using'[d] = using[d]
      BY <1>0, <2>1, <2>2, Resolves
    <2>4. sessionLock' \in [Sessions -> Calls \cup {None}]
      BY <2>1 DEF Unlock, Places, Shaped
    <2>5. Shaped'
      BY <2>1, <2>2, <2>3, <2>4 DEF Places, Shaped, Moves, netVars
    <2>6. Turn(c)
      BY <1>0, <2>1, <2>3, <2>5 DEF Turn, Moves, Settled, Beyond
    <2> QED
      BY <1>0, <2>1, <2>3, <2>6 DEF Sought
  <1>5. CASE SaveFails(c)
    <2>1. /\ Finish(c, "save", Failed) /\ Unlock(c) /\ stage[c] = "save"
          /\ identityStore' \in {identityStore, offered[c]}
          /\ UNCHANGED <<request, using, offered, doomed, before, sessionIdentity, activeEnrollment,
                 credentialStore, provider, provisioned, netVars, serviceVars>>
      BY <1>5 DEF SaveFails, Finish, GoTo
    <2>2. Moves(c) /\ stage'[c] = "done" /\ ~reply'[c].ok
      BY <1>0, <2>1, Fails
    <2>3. sessionLock' \in [Sessions -> Calls \cup {None}]
      BY <2>1 DEF Unlock, Places, Shaped
    <2>4. Shaped'
      BY <2>1, <2>2, <2>3 DEF Places, Shaped, Moves, netVars
    <2>5. Turn(c)
      BY <1>0, <2>1, <2>2, <2>4 DEF Turn, Moves, Settled, Beyond
    <2> QED
      BY <1>0, <2>1, <2>2, <2>5 DEF Sought
  <1>6. CASE LookUpIdentity(c)
    <2>1. /\ stage[c] = "lookup"
          /\ UNCHANGED <<request, offered, doomed, before, sessionVars, clientVars, netVars,
                 serviceVars>>
      BY <1>6 DEF LookUpIdentity
    <2>2. CASE identityStore # None
      <3>1. identityStore \in Identities /\ Resolved(c, "lookup", identityStore)
        BY <1>6, <2>2 DEF LookUpIdentity, Places, Shaped
      <3>2. /\ Moves(c) /\ stage'[c] \in {"ready", "done"}
            /\ stage'[c] = "done" <=> request[c].op = "identity"
            /\ using' \in [Calls -> Identities \cup {None}] /\ using'[c] # None
            /\ \A d \in Calls : d # c => using'[d] = using[d]
        BY <1>0, <3>1, Resolves
      <3>3. Shaped'
        BY <2>1, <3>2 DEF Places, Shaped, Moves, sessionVars, clientVars, netVars
      <3>4. Turn(c)
        BY <1>0, <2>1, <3>2, <3>3 DEF Turn, Moves, Holding, Settled, Beyond, sessionVars, clientVars
      <3> QED
        BY <1>0, <2>1, <3>2, <3>4 DEF Sought, clientVars
    <2>3. CASE identityStore = None
      <3>1. /\ UNCHANGED using
            /\ \/ GoTo(c, "lookup", "recover") /\ UNCHANGED reply
               \/ Finish(c, "lookup", Failed)
        BY <1>6, <2>3 DEF LookUpIdentity
      <3>2. /\ Moves(c) /\ stage'[c] \in {"recover", "done"}
            /\ stage'[c] = "done" => ~reply'[c].ok
        BY <1>0, <3>1, GoesOn, Fails
      <3>3. Shaped'
        BY <2>1, <3>1, <3>2 DEF Places, Shaped, Moves, sessionVars, clientVars, netVars
      <3>4. Turn(c)
        BY <1>0, <2>1, <3>1, <3>2, <3>3 DEF Turn, Moves, Holding, Settled, Beyond, sessionVars, clientVars
      <3> QED
        BY <1>0, <2>1, <3>2, <3>4 DEF Sought, clientVars
    <2> QED
      BY <2>2, <2>3
  <1>7. CASE RecoverIdentity(c)
    <2>1. /\ stage[c] = "recover"
          /\ UNCHANGED <<request, offered, doomed, before, sessionVars, clientLock,
                 credentialStore, provider, provisioned, netVars, serviceVars>>
      BY <1>7 DEF RecoverIdentity
    <2>2. CASE provisioned # None
      <3>1. provisioned \in Identities /\ Resolved(c, "recover", provisioned) /\ identityStore' = provisioned
        BY <1>7, <2>2 DEF RecoverIdentity, Places, Shaped
      <3>2. /\ Moves(c) /\ stage'[c] \in {"ready", "done"}
            /\ stage'[c] = "done" <=> request[c].op = "identity"
            /\ using' \in [Calls -> Identities \cup {None}] /\ using'[c] # None
            /\ \A d \in Calls : d # c => using'[d] = using[d]
        BY <1>0, <3>1, Resolves
      <3>3. Shaped'
        BY <2>1, <3>1, <3>2 DEF Places, Shaped, Moves, sessionVars, netVars
      <3>4. Turn(c)
        BY <1>0, <2>1, <3>2, <3>3 DEF Turn, Moves, Holding, Settled, Beyond, sessionVars
      <3> QED
        BY <1>0, <2>1, <3>2, <3>4 DEF Sought
    <2>3. CASE provisioned = None
      <3>1. Finish(c, "recover", Failed) /\ UNCHANGED <<using, identityStore>>
        BY <1>7, <2>3 DEF RecoverIdentity
      <3>2. Moves(c) /\ stage'[c] = "done" /\ ~reply'[c].ok
        BY <1>0, <3>1, Fails
      <3>3. Shaped'
        BY <2>1, <3>1, <3>2 DEF Places, Shaped, Moves, sessionVars, netVars
      <3>4. Turn(c)
        BY <1>0, <2>1, <3>1, <3>2, <3>3 DEF Turn, Moves, Holding, Settled, Beyond, sessionVars
      <3> QED
        BY <1>0, <2>1, <3>2, <3>4 DEF Sought
    <2> QED
      BY <2>2, <2>3
  <1> QED
    BY <1>1, <1>2, <1>3, <1>4, <1>5, <1>6, <1>7

\* The other calls' records of what they have forgotten stand.
LEMMA ForgettingStep ==
  ASSUME ServiceInv, NEW c \in Calls, Turn(c), memory \subseteq memory',
         \A k \in credentialStore' : k \in credentialStore \/ (k.by \in Calls /\ reply[k.by] = None),
         stage'[c] = "deleting" => Forgotten(c)',
         stage'[c] = "done" /\ request'[c].op = "revoke" /\ reply'[c].ok =>
           Forgotten(c)' /\ doomed'[c] = {}
  PROVE  Forgetting'
  <1> SUFFICES ASSUME NEW d \in Calls, d # c
               PROVE  /\ stage'[d] = "deleting" => Forgotten(d)'
                      /\ stage'[d] = "done" /\ request'[d].op = "revoke" /\ reply'[d].ok =>
                           Forgotten(d)' /\ doomed'[d] = {}
    BY DEF Forgetting
  <1>1. /\ stage'[d] = stage[d] /\ reply'[d] = reply[d] /\ request'[d] = request[d]
        /\ doomed'[d] = doomed[d]
    BY DEF Turn
  <1>2. Forgotten(d) /\ stage[d] \in Settled => Forgotten(d)'
    BY <1>1, TurnEndures, ForgottenEndures DEF ServiceInv
  <1> QED
    BY <1>1, <1>2 DEF ServiceInv, Forgetting, Settled, Beyond

\* A call that is not a Revoke that succeeds, and leaves the Service alone.
Plain(c) ==
  /\ UNCHANGED <<doomed, serviceVars>>
  /\ \A k \in credentialStore' : k \in credentialStore \/ (k.by \in Calls /\ reply[k.by] = None)
  /\ stage'[c] # "deleting"
  /\ stage'[c] = "done" => request[c].op # "revoke" \/ ~reply'[c].ok

LEMMA PlainStep ==
  ASSUME ServiceInv, NEW c \in Calls, Turn(c), Plain(c), Wired', Stored'
  PROVE  ServiceInv'
  <1>1. Places'
    BY TurnPlaces DEF ServiceInv
  <1>2. Remembered'
    BY RememberedEndures DEF ServiceInv, Plain
  <1>3. request' = request /\ memory' = memory
    BY DEF Turn, Plain, serviceVars
  <1>4. Forgetting'
    BY <1>3, ForgettingStep DEF Plain
  <1> QED
    BY <1>1, <1>2, <1>4 DEF ServiceInv

\* Looking for an identity.
LEMMA SeekingStep ==
  ASSUME ServiceInv, NEW c \in Calls, Turn(c), Sought(c)
  PROVE  ServiceInv'
  <1>1. Endures
    BY TurnEndures DEF ServiceInv
  <1>2. Wired'
    <2>1. UNCHANGED <<wire, answer, memory, issued>>
      BY DEF Sought, netVars, serviceVars
    <2> QED
      BY <1>1, <2>1, WiredEndures DEF ServiceInv
  <1>3. Stored'
    BY <1>1, StoredEndures DEF ServiceInv, Sought, serviceVars
  <1>4. Plain(c)
    BY DEF Sought, Plain
  <1> QED
    BY <1>2, <1>3, <1>4, PlainStep

-----------------------------------------------------------------------------
(* Commands and their answers, at the Agent.                                *)

LEMMA CommandTurn ==
  ASSUME Places, NEW c \in Calls, Moves(c), stage'[c] \in Settled,
         stage'[c] = "done" \/ stage[c] \in Beyond,
         UNCHANGED <<request, using, offered, before, sessionIdentity, identityStore, provisioned>>,
         answer' \in [Calls -> Answers \cup {None}],
         DOMAIN doomed' = Calls, \A d \in Calls : d # c => doomed'[d] = doomed[d],
         Unlock(c) \/ (stage[c] \notin Holding /\ UNCHANGED <<sessionLock, clientLock>>)
  PROVE  Turn(c)
  <1>1. sessionLock' \in [Sessions -> Calls \cup {None}]
    BY DEF Unlock, Places, Shaped
  <1>2. Shaped'
    BY <1>1 DEF Places, Shaped, Moves
  <1>3. stage'[c] # "save" /\ (stage'[c] \in Beyond => using'[c] # None /\ request[c].op # "identity")
    BY DEF Places, Placed, Settled, Beyond
  <1> QED
    BY <1>2, <1>3 DEF Turn, Moves

LEMMA Takes ==
  ASSUME Places, NEW c \in Calls, Take(c) \/ UNCHANGED answer
  PROVE  /\ answer' \in [Calls -> Answers \cup {None}]
         /\ \A d \in Calls : answer'[d] \in {None, answer[d]}
  BY DEF Places, Shaped, Take

\* A step that only takes an answer, or gives up.
LEMMA HearingStep ==
  ASSUME ServiceInv, NEW c \in Calls, Turn(c), Plain(c), Take(c) \/ UNCHANGED answer,
         UNCHANGED <<wire, credentialStore>>
  PROVE  ServiceInv'
  <1>1. Endures /\ UNCHANGED <<memory, issued>>
    BY TurnEndures DEF ServiceInv, Plain, serviceVars
  <1>2. Wired'
    BY <1>1, Takes, WiredEndures DEF ServiceInv
  <1>3. Stored'
    BY <1>1, StoredEndures DEF ServiceInv
  <1> QED
    BY <1>2, <1>3, PlainStep

LEMMA EnrollHeard ==
  ASSUME ServiceInv, NEW c \in Calls, ReceiveEnroll(c)
  PROVE  ServiceInv'
  <1>1. /\ stage[c] = "sent" /\ answer[c] \in EnrollAnswers /\ Finish(c, "sent", Ok(answer[c]))
        /\ Take(c)
        /\ UNCHANGED <<request, using, offered, doomed, before, sessionLock, sessionIdentity,
                       clientVars, wire, serviceVars>>
    BY DEF ReceiveEnroll
  <1>2. "sent" \in Stages \ {"idle", "done"} /\ Ok(answer[c]) \in Replies
    BY <1>1 DEF Stages, Interruptible, Replies, Answers
  <1>3. Moves(c) /\ stage'[c] = "done"
    BY <1>1, <1>2, Returns DEF ServiceInv
  <1>4. request[c].op # "revoke"
    <2>1. answer[c] # None /\ answer[c].kind = "enroll"
      BY <1>1, NoneAssumption DEF Answers, EnrollAnswers
    <2> QED
      BY <2>1 DEF ServiceInv, Wired, Asks
  <1>5. Turn(c)
    BY <1>1, <1>3, Takes, CommandTurn DEF ServiceInv, Places, Shaped, clientVars, Settled, Beyond, Holding
  <1>6. Plain(c)
    BY <1>1, <1>3, <1>4 DEF Plain, clientVars
  <1> QED
    BY <1>1, <1>5, <1>6, HearingStep DEF clientVars

LEMMA StatusHeard ==
  ASSUME ServiceInv, NEW c \in Calls, ReceiveStatus(c)
  PROVE  ServiceInv'
  <1>1. /\ stage[c] \in Waiting /\ answer[c] \in StatusAnswers
        /\ Take(c)
        /\ UNCHANGED <<request, using, offered, doomed, before, sessionLock, sessionIdentity,
                       clientVars, wire, serviceVars>>
    BY DEF ReceiveStatus
  <1>2. /\ {"sent", "checking", "pausing", "enrolled"} \subseteq Stages \ {"idle", "done"}
        /\ Ok(answer[c]) \in Replies
    BY <1>1 DEF Stages, Interruptible, Replies, Answers
  <1>3. \/ Finish(c, "sent", Ok(answer[c]))
        \/ Finish(c, "sent", Failed) \/ Finish(c, "checking", Failed)
        \/ GoTo(c, "sent", "pausing") /\ UNCHANGED reply
        \/ GoTo(c, "checking", "enrolled") /\ UNCHANGED reply
    <2>1. CASE request[c].op = "status"
      BY <2>1 DEF ReceiveStatus
    <2>2. CASE request[c].op = "wait"
      BY <2>2 DEF ReceiveStatus
    <2>3. CASE request[c].op \notin {"status", "wait"}
      BY <2>3 DEF ReceiveStatus
    <2> QED
      BY <2>1, <2>2, <2>3
  <1>4. Moves(c) /\ stage'[c] \in {"done", "pausing", "enrolled"}
    BY <1>2, <1>3, Returns, Fails, GoesOn DEF ServiceInv
  <1>5. request[c].op # "revoke"
    <2>1. answer[c] # None /\ answer[c].kind = "status"
      BY <1>1, NoneAssumption DEF Answers, StatusAnswers
    <2> QED
      BY <2>1 DEF ServiceInv, Wired, Asks
  <1>6. Turn(c)
    BY <1>1, <1>4, Takes, CommandTurn DEF ServiceInv, Places, Shaped, clientVars, Settled, Beyond, Holding, Waiting
  <1>7. Plain(c)
    BY <1>1, <1>4, <1>5 DEF Plain, clientVars
  <1> QED
    BY <1>1, <1>6, <1>7, HearingStep DEF clientVars

\* Giving up, and the pause between two polls.
LEMMA GivingUp ==
  ASSUME ServiceInv, NEW c \in Calls,
         ReceiveProblem(c) \/ StoreCredentialFails(c) \/ Fail(c) \/ PollAgain(c)
  PROVE  ServiceInv'
  <1>1. /\ Take(c) \/ UNCHANGED answer
        /\ UNCHANGED <<request, using, offered, doomed, before, sessionIdentity, identityStore,
                       credentialStore, provisioned, wire, serviceVars>>
    BY DEF ReceiveProblem, StoreCredentialFails, Fail, PollAgain, sessionVars, clientVars, netVars
  <1>2. \/ stage[c] \in Interruptible /\ Finish(c, stage[c], Failed)
        \/ stage[c] = "pausing" /\ GoTo(c, "pausing", "ready") /\ UNCHANGED reply
    BY DEF ReceiveProblem, StoreCredentialFails, Fail, PollAgain, Finish, GoTo, Waiting, Interruptible
  <1>3. /\ Interruptible \subseteq Stages \ {"idle", "done"} /\ "ready" \in Stages \ {"idle", "done"}
        /\ "pausing" \in Stages \ {"idle", "done"}
    BY DEF Stages, Interruptible
  <1>4. /\ Moves(c) /\ stage'[c] \in {"done", "ready"}
        /\ stage'[c] = "done" => ~reply'[c].ok
        /\ stage'[c] = "ready" => stage[c] = "pausing"
    BY <1>2, <1>3, Fails, GoesOn DEF ServiceInv
  <1>5. Unlock(c) \/ (stage[c] \notin Holding /\ UNCHANGED <<sessionLock, clientLock>>)
    <2>1. CASE Fail(c)
      BY <2>1 DEF Fail
    <2>2. CASE ~Fail(c)
      BY <2>2 DEF ReceiveProblem, StoreCredentialFails, PollAgain, Finish, GoTo, Waiting, Holding,
                  sessionVars, clientVars
    <2> QED
      BY <2>1, <2>2
  <1>6. Turn(c)
    BY <1>1, <1>4, <1>5, Takes, CommandTurn DEF ServiceInv, Places, Shaped, Settled, Beyond
  <1>7. Plain(c)
    BY <1>1, <1>4 DEF Plain
  <1> QED
    BY <1>1, <1>6, <1>7, HearingStep

\* Its message names the identity the call uses, and a command of its operation.
LEMMA SendingStep ==
  ASSUME ServiceInv, NEW c \in Calls, SendCommand(c)
  PROVE  ServiceInv'
  <1>1. /\ stage[c] \in {"ready", "enrolled"} /\ \E to \in {"checking", "sent"} : GoTo(c, stage[c], to)
        /\ wire' = wire \cup {Signed(c)}
        /\ UNCHANGED <<request, using, offered, doomed, reply, before, sessionVars, clientVars,
                       answer, serviceVars>>
    BY DEF SendCommand
  <1>2. {"ready", "enrolled", "checking", "sent"} \subseteq Stages \ {"idle", "done"}
    BY DEF Stages, Interruptible
  <1>3. Moves(c) /\ stage'[c] \in {"checking", "sent"}
    BY <1>1, <1>2, GoesOn DEF ServiceInv
  <1>4. Turn(c)
    <2>1. /\ stage'[c] \in Settled /\ stage[c] \in Beyond /\ stage[c] \notin Holding
          /\ UNCHANGED <<sessionLock, clientLock, identityStore, provisioned, sessionIdentity>>
      BY <1>1, <1>3 DEF Settled, Beyond, Holding, sessionVars, clientVars
    <2>2. DOMAIN doomed' = Calls /\ \A d \in Calls : d # c => doomed'[d] = doomed[d]
      BY <1>1 DEF ServiceInv, Places, Shaped
    <2> QED
      BY <1>1, <1>3, <2>1, <2>2, Takes, CommandTurn DEF ServiceInv
  <1>5. Endures
    BY <1>4, TurnEndures DEF ServiceInv
  <1>6. CommandOf(c) \in Commands /\ Asks(request[c].op, CommandOf(c))
    <2>1. request[c] \in AllRequests /\ stage[c] \in Beyond
      BY <1>1, HasSession DEF ServiceInv, Beyond
    <2>2. request[c].op \in Commands \cup {"wait"}
      <3>1. request[c].op # "identity"
        BY <2>1 DEF ServiceInv, Placed, Places
      <3> QED
        BY <2>1, <3>1, RequestsAssumption
    <2>3. CASE request[c].op \in {"status", "wait"}
      <3>1. CommandOf(c) = "status"
        BY <2>3 DEF CommandOf
      <3> QED
        BY <2>3, <3>1 DEF Commands, Asks
    <2>4. CASE request[c].op = "grant" /\ stage[c] = "ready" /\ ~hasActiveEnrollment(c)
      <3>1. CommandOf(c) = "status"
        BY <2>4 DEF CommandOf
      <3> QED
        BY <2>4, <3>1 DEF Commands, Asks
    <2>5. CASE /\ request[c].op \notin {"status", "wait"}
               /\ ~(request[c].op = "grant" /\ stage[c] = "ready" /\ ~hasActiveEnrollment(c))
      <3>1. CommandOf(c) = request[c].op
        BY <2>5 DEF CommandOf
      <3> QED
        BY <2>2, <2>5, <3>1 DEF Commands, Asks
    <2> QED
      BY <2>3, <2>4, <2>5
  <1>7. Wired'
    <2>1. UNCHANGED <<memory, issued, standing, dead>>
      BY <1>1 DEF serviceVars
    <2>2. using[c] \in Identities /\ stage'[c] \in Settled /\ request'[c] = request[c] /\ using'[c] = using[c]
      BY <1>1, <1>3 DEF ServiceInv, Places, Shaped, Placed, Beyond, Settled
    <2>3. ASSUME NEW m \in wire'
          PROVE  /\ m.call \in Calls /\ stage'[m.call] \in Settled
                 /\ m.identity = using'[m.call] /\ m.identity \in Identities
                 /\ m.command \in Commands /\ Asks(request'[m.call].op, m.command)
      <3>1. CASE m = Signed(c)
        <4>1. m.call = c /\ m.command = CommandOf(c) /\ m.identity = using[c]
          BY <3>1 DEF Signed
        <4> QED
          BY <1>6, <2>2, <4>1
      <3>2. CASE m \in wire
        BY <1>5, <3>2 DEF ServiceInv, Wired, Endures
      <3> QED
        BY <1>1, <3>1, <3>2
    <2>4. ASSUME NEW d \in Calls, answer'[d] # None
          PROVE  /\ stage'[d] \in Settled
                 /\ answer'[d].kind = "problem" \/ Asks(request'[d].op, answer'[d].kind)
                 /\ Issued(answer[d])'
                 /\ answer'[d] = RevokeAnswer =>
                      [slot |-> Slot(d)', request |-> Material(d)', answer |-> RevokeAnswer] \in memory'
      <3>1. answer' = answer
        BY <1>1
      <3>2. /\ stage'[d] \in Settled /\ request'[d] = request[d]
            /\ Slot(d)' = Slot(d) /\ Material(d)' = Material(d)
        BY <1>5, <2>4, <3>1 DEF ServiceInv, Wired, Endures
      <3>3. Issued(answer[d])'
        BY <2>1, <2>4, <3>1 DEF ServiceInv, Wired, Issued
      <3> QED
        BY <2>1, <2>4, <3>1, <3>2, <3>3 DEF ServiceInv, Wired
    <2> QED
      BY <2>3, <2>4 DEF Wired
  <1>8. Stored'
    BY <1>1, <1>5, StoredEndures DEF ServiceInv, clientVars, serviceVars
  <1>9. Plain(c)
    BY <1>1, <1>3 DEF Plain, clientVars
  <1> QED
    BY <1>4, <1>7, <1>8, <1>9, PlainStep

\* The record saved is of the credential in the answer, and the call returns
\* with it.
LEMMA GrantHeard ==
  ASSUME ServiceInv, NEW c \in Calls, ReceiveGrant(c)
  PROVE  ServiceInv'
  <1>1. /\ stage[c] = "sent" /\ request[c].op = "grant"
        /\ answer[c] # None /\ answer[c] \in GrantAnswers
        /\ credentialStore' \in {credentialStore,
             {r \in credentialStore : r.id # answer[c].id} \cup {CredentialRecord(c)}}
        /\ Finish(c, "sent", Ok(answer[c])) /\ Take(c)
        /\ UNCHANGED <<request, using, offered, doomed, before, sessionVars, clientLock,
                       identityStore, provider, provisioned, wire, serviceVars>>
    BY DEF ReceiveGrant, ParseGrant
  <1>2. "sent" \in Stages \ {"idle", "done"} /\ Ok(answer[c]) \in Replies
    BY <1>1 DEF Stages, Interruptible, Replies, Answers
  <1>3. Moves(c) /\ stage'[c] = "done"
    BY <1>1, <1>2, Returns DEF ServiceInv
  <1>4. Turn(c)
    BY <1>1, <1>3, Takes, CommandTurn DEF ServiceInv, Places, Shaped, sessionVars, Settled, Beyond, Holding
  <1>5. Endures /\ UNCHANGED <<memory, issued>>
    BY <1>1, <1>4, TurnEndures DEF ServiceInv, serviceVars
  <1>6. Wired'
    BY <1>1, <1>5, Takes, WiredEndures DEF ServiceInv
  <1>7. \A k \in credentialStore' : k \in credentialStore \/ k = CredentialRecord(c)
    BY <1>1
  <1>8. /\ CredentialRecord(c).by = c /\ CredentialRecord(c).id = answer[c].id
        /\ CredentialRecord(c).type = answer[c].type
    BY DEF CredentialRecord
  <1>9. reply[c] = None /\ reply'[c] # None
    BY <1>1, <1>3 DEF ServiceInv, Places, Placed, Moves
  <1>10. \E x \in issued : x.id = answer[c].id /\ x.type = answer[c].type
    BY <1>1 DEF ServiceInv, Wired, Issued
  <1>11. Stored'
    BY <1>5, <1>7, <1>8, <1>9, <1>10 DEF ServiceInv, Stored, Endures
  <1>12. Plain(c)
    BY <1>1, <1>3, <1>7, <1>8, <1>9 DEF Plain
  <1> QED
    BY <1>4, <1>6, <1>11, <1>12, PlainStep

\* The records it is about to delete are all that match.
LEMMA RevokeHeard ==
  ASSUME ServiceInv, NEW c \in Calls, ReceiveRevoke(c)
  PROVE  ServiceInv'
  <1>1. /\ stage[c] = "sent" /\ answer[c] # None /\ answer[c] = RevokeAnswer
        /\ GoTo(c, "sent", "deleting") /\ Take(c)
        /\ doomed' = [doomed EXCEPT ![c] = MatchingRecords(request[c])]
        /\ UNCHANGED <<request, using, offered, reply, before, sessionVars, clientVars, wire,
                       serviceVars>>
    BY DEF ReceiveRevoke, ParseRevokeResponse
  <1>2. {"sent", "deleting"} \subseteq Stages \ {"idle", "done"}
    BY DEF Stages, Interruptible
  <1>3. Moves(c) /\ stage'[c] = "deleting"
    BY <1>1, <1>2, GoesOn DEF ServiceInv
  <1>4. /\ DOMAIN doomed' = Calls /\ doomed'[c] = MatchingRecords(request[c])
        /\ \A d \in Calls : d # c => doomed'[d] = doomed[d]
    BY <1>1 DEF ServiceInv, Places, Shaped
  <1>5. Turn(c)
    BY <1>1, <1>3, <1>4, Takes, CommandTurn DEF ServiceInv, sessionVars, clientVars, Settled, Beyond, Holding
  <1>6. Endures /\ UNCHANGED <<memory, issued, credentialStore>>
    BY <1>1, <1>5, TurnEndures DEF ServiceInv, serviceVars, clientVars
  <1>7. Wired' /\ Stored' /\ Remembered'
    BY <1>1, <1>6, Takes, WiredEndures, StoredEndures, RememberedEndures DEF ServiceInv
  <1>8. Forgotten(c)'
    <2>1. [slot |-> Slot(c), request |-> Material(c), answer |-> RevokeAnswer] \in memory
      BY <1>1 DEF ServiceInv, Wired
    <2>2. /\ Slot(c)' = Slot(c) /\ Material(c)' = Material(c)
          /\ request'[c] = request[c] /\ before'[c] = before[c]
      BY <1>1, <1>6 DEF Endures, Settled, Beyond
    <2>3. \A k \in credentialStore' : Matches(request'[c], k) => k \in doomed'[c]
      BY <1>4, <1>6, <2>2 DEF Matches, MatchingRecords
    <2>4. [slot |-> Slot(c)', request |-> Material(c)', answer |-> RevokeAnswer] \in memory'
      BY <1>6, <2>1, <2>2
    <2> QED
      BY <2>3, <2>4 DEF Forgotten, Matches, Selects
  <1>9. Forgetting'
    BY <1>3, <1>5, <1>6, <1>8, ForgettingStep
  <1>10. Places'
    BY <1>5, TurnPlaces DEF ServiceInv
  <1> QED
    BY <1>7, <1>9, <1>10 DEF ServiceInv

\* What goes from the list is gone from the store, under its identifier.
LEMMA DeletingStep ==
  ASSUME ServiceInv, NEW c \in Calls, DeleteNext(c)
  PROVE  ServiceInv'
  <1>1. PICK k \in doomed[c] : /\ credentialStore' = {r \in credentialStore : r.id # k.id}
                               /\ doomed' = [doomed EXCEPT ![c] = @ \ {k}]
    BY DEF DeleteNext
  <1>2. /\ stage[c] = "deleting"
        /\ UNCHANGED <<request, stage, using, offered, reply, before, sessionVars, clientLock,
                       identityStore, provider, provisioned, netVars, serviceVars>>
    BY DEF DeleteNext
  <1>3. Moves(c)
    BY <1>2 DEF ServiceInv, Places, Shaped, Placed, Moves
  <1>4. /\ DOMAIN doomed' = Calls /\ doomed'[c] = doomed[c] \ {k}
        /\ \A d \in Calls : d # c => doomed'[d] = doomed[d]
    BY <1>1 DEF ServiceInv, Places, Shaped
  <1>5. Turn(c)
    BY <1>2, <1>3, <1>4, Takes, CommandTurn DEF ServiceInv, sessionVars, netVars, Settled, Beyond, Holding
  <1>6. /\ Endures /\ UNCHANGED <<memory, issued, wire, answer>>
        /\ credentialStore' \subseteq credentialStore
    BY <1>1, <1>2, <1>5, TurnEndures DEF ServiceInv, serviceVars, netVars
  <1>7. Wired' /\ Stored' /\ Remembered'
    BY <1>2, <1>6, Takes, WiredEndures, StoredEndures, RememberedEndures DEF ServiceInv
  <1>8. Forgotten(c)'
    <2>1. Forgotten(c)
      BY <1>2 DEF ServiceInv, Forgetting
    <2>2. /\ Slot(c)' = Slot(c) /\ Material(c)' = Material(c)
          /\ request'[c] = request[c] /\ before'[c] = before[c]
      BY <1>2, <1>6 DEF Endures, Settled, Beyond
    <2>3. \A r \in credentialStore' : r.by \in before'[c] /\ Matches(request'[c], r) => r \in doomed'[c]
      BY <1>1, <1>4, <2>1, <2>2 DEF Forgotten
    <2>4. [slot |-> Slot(c)', request |-> Material(c)', answer |-> RevokeAnswer] \in memory'
      BY <1>6, <2>1, <2>2 DEF Forgotten
    <2> QED
      BY <2>3, <2>4 DEF Forgotten, Matches, Selects
  <1>9. Forgetting'
    BY <1>2, <1>5, <1>6, <1>8, ForgettingStep
  <1>10. Places'
    BY <1>5, TurnPlaces DEF ServiceInv
  <1> QED
    BY <1>7, <1>9, <1>10 DEF ServiceInv

LEMMA RevokeEnds ==
  ASSUME ServiceInv, NEW c \in Calls, RevokeReturns(c)
  PROVE  ServiceInv'
  <1>1. /\ doomed[c] = {} /\ stage[c] = "deleting" /\ Finish(c, "deleting", Ok(RevokeAnswer))
        /\ UNCHANGED <<request, using, offered, doomed, before, sessionVars, clientVars, netVars,
                       serviceVars>>
    BY DEF RevokeReturns, Finish, GoTo
  <1>2. "deleting" \in Stages \ {"idle", "done"} /\ Ok(RevokeAnswer) \in Replies
    BY DEF Stages, Interruptible, Replies, Answers
  <1>3. Moves(c) /\ stage'[c] = "done"
    BY <1>1, <1>2, Returns DEF ServiceInv
  <1>4. Turn(c)
    BY <1>1, <1>3, Takes, CommandTurn DEF ServiceInv, Places, Shaped, sessionVars, clientVars, netVars,
       Settled, Beyond, Holding
  <1>5. Endures /\ UNCHANGED <<memory, issued, credentialStore, wire, answer>>
    BY <1>1, <1>4, TurnEndures DEF ServiceInv, serviceVars, clientVars, netVars
  <1>6. Wired' /\ Stored' /\ Remembered'
    BY <1>1, <1>5, Takes, WiredEndures, StoredEndures, RememberedEndures DEF ServiceInv
  <1>7. Forgotten(c)' /\ doomed'[c] = {}
    <2>1. Forgotten(c) /\ stage[c] \in Settled
      BY <1>1 DEF ServiceInv, Forgetting, Settled, Beyond
    <2> QED
      BY <1>1, <1>5, <2>1, ForgottenEndures DEF ServiceInv
  <1>8. Forgetting'
    BY <1>3, <1>4, <1>5, <1>7, ForgettingStep
  <1>9. Places'
    BY <1>4, TurnPlaces DEF ServiceInv
  <1> QED
    BY <1>6, <1>8, <1>9 DEF ServiceInv

\* Commands, their answers and errors keep the invariant.
LEMMA CommandKeeps ==
  ASSUME ServiceInv, NEW c \in Calls,
         \/ SendCommand(c) \/ ReceiveEnroll(c) \/ ReceiveStatus(c) \/ ReceiveGrant(c)
         \/ ReceiveRevoke(c) \/ ReceiveProblem(c) \/ PollAgain(c) \/ DeleteNext(c)
         \/ RevokeReturns(c) \/ StoreCredentialFails(c) \/ Fail(c)
  PROVE  ServiceInv'
  BY SendingStep, EnrollHeard, StatusHeard, GrantHeard, RevokeHeard, DeletingStep, RevokeEnds, GivingUp

\* A call that is made has neither answer nor record, and none waits for it.
LEMMA CallKeeps ==
  ASSUME ServiceInv, NEW c \in Calls, NEW r \in Requests[c], NEW advertised \in BOOLEAN,
         Call(c, r, advertised)
  PROVE  ServiceInv'
  <1>1. r \in AllRequests /\ r # None
    BY NoneAssumption DEF AllRequests
  <1>2. /\ request[c] = None /\ stage[c] = "idle"
        /\ request' = [request EXCEPT ![c] = r]
        /\ before' = [before EXCEPT ![c] = {d \in Calls : reply[d] # None}]
        /\ \/ /\ \E to \in {"lookup", "resolve"} : stage' = [stage EXCEPT ![c] = to]
              /\ UNCHANGED reply
           \/ /\ stage' = [stage EXCEPT ![c] = "done"]
              /\ reply' = [reply EXCEPT ![c] = Failed]
        /\ UNCHANGED <<using, offered, doomed, sessionVars, clientVars, netVars, serviceVars>>
    BY DEF Call, Finish, GoTo, Return, ServiceInv, Places, Placed
  <1>3. Failed # None /\ Failed \in Replies /\ ~Failed.ok
    BY ReplyAssumption DEF Replies, Failed
  <1>4. {"idle", "lookup", "resolve", "done"} \subseteq Stages
    BY DEF Stages, Interruptible
  <1>5. /\ request' \in [Calls -> AllRequests \cup {None}] /\ stage' \in [Calls -> Stages]
        /\ reply' \in [Calls -> Replies \cup {None}] /\ DOMAIN before' = Calls
    BY <1>1, <1>2, <1>3, <1>4 DEF ServiceInv, Places, Shaped
  <1>6. /\ request'[c] = r /\ stage'[c] \in {"lookup", "resolve", "done"}
        /\ reply[c] = None
        /\ IF stage'[c] = "done" THEN reply'[c] = Failed ELSE reply'[c] = None
        /\ before'[c] = {d \in Calls : reply[d] # None}
        /\ \A d \in Calls : d # c => /\ request'[d] = request[d] /\ stage'[d] = stage[d]
                                     /\ reply'[d] = reply[d] /\ before'[d] = before[d]
    BY <1>2 DEF ServiceInv, Places, Shaped, Placed
  <1>7. Shaped'
    BY <1>2, <1>5 DEF ServiceInv, Places, Shaped, sessionVars, clientVars, netVars
  <1>8. Placed'
    <2>1. UNCHANGED <<using, offered>>
      BY <1>2
    <2>2. \A d \in Calls : /\ (request'[d] = None) = (stage'[d] = "idle")
                           /\ (reply'[d] # None) = (stage'[d] = "done")
      BY <1>1, <1>3, <1>6 DEF ServiceInv, Places, Placed
    <2>3. \A d \in Calls : /\ stage'[d] = "save" => offered'[d] # None
                           /\ stage'[d] \in Beyond => using'[d] # None /\ request'[d].op # "identity"
      BY <1>6, <2>1 DEF ServiceInv, Places, Placed, Beyond
    <2>4. \A d, e \in Calls : e \in before'[d] => reply'[e] # None
      BY <1>3, <1>6 DEF ServiceInv, Places, Placed
    <2> QED
      BY <2>2, <2>3, <2>4 DEF Placed
  <1>9. Locked'
    <2>1. UNCHANGED <<sessionLock, clientLock>>
      BY <1>2 DEF sessionVars, clientVars
    <2>2. "idle" \notin Holding /\ "idle" \notin Providing
      BY DEF Holding, Providing
    <2>3. \A s \in Sessions : sessionLock[s] # None =>
            /\ sessionLock[s] \in Calls /\ sessionLock[s] # c
            /\ Session(sessionLock[s]) = s /\ stage[sessionLock[s]] \in Holding
      BY <1>2, <2>2 DEF ServiceInv, Places, Locked, Shaped
    <2>4. clientLock # None => clientLock \in Calls /\ clientLock # c /\ stage[clientLock] \in Providing
      BY <1>2, <2>2 DEF ServiceInv, Places, Locked
    <2> QED
      BY <1>6, <2>1, <2>3, <2>4 DEF Locked, Session
  <1>10. Endures
    <2> SUFFICES ASSUME NEW d \in Calls
                 PROVE  /\ stage[d] \in Settled =>
                             /\ stage'[d] \in Settled
                             /\ request'[d] = request[d] /\ Slot(d)' = Slot(d) /\ Material(d)' = Material(d)
                             /\ using'[d] = using[d] /\ before'[d] = before[d]
                        /\ reply[d] # None => reply'[d] = reply[d]
      BY DEF Endures
    <2>1. CASE d = c
      BY <1>2, <1>6, <2>1 DEF Settled, Beyond
    <2>2. CASE d # c
      <3>1. request'[d] = request[d] /\ using'[d] = using[d]
        BY <1>2, <1>6, <2>2
      <3>2. Slot(d)' = Slot(d)
        BY <3>1 DEF Slot, KeyOf
      <3>3. Material(d)' = Material(d)
        BY <3>1 DEF Material
      <3> QED
        BY <1>6, <2>2, <3>1, <3>2, <3>3
    <2> QED
      BY <2>1, <2>2
  <1>11. UNCHANGED <<wire, answer, memory, issued, credentialStore, doomed, serviceVars>>
    BY <1>2 DEF netVars, serviceVars, clientVars
  <1>12. Wired' /\ Stored' /\ Remembered'
    BY <1>10, <1>11, WiredEndures, StoredEndures, RememberedEndures DEF ServiceInv
  <1>13. Forgetting'
    <2> SUFFICES ASSUME NEW d \in Calls
                 PROVE  /\ stage'[d] = "deleting" => Forgotten(d)'
                        /\ stage'[d] = "done" /\ request'[d].op = "revoke" /\ reply'[d].ok =>
                             Forgotten(d)' /\ doomed'[d] = {}
      BY DEF Forgetting
    <2>1. CASE d = c
      BY <1>3, <1>6, <2>1
    <2>2. CASE d # c
      <3>1. /\ stage'[d] = stage[d] /\ reply'[d] = reply[d] /\ request'[d] = request[d]
            /\ doomed'[d] = doomed[d]
        BY <1>6, <1>11, <2>2
      <3>2. Forgotten(d) /\ stage[d] \in Settled => Forgotten(d)'
        BY <1>10, <1>11, <3>1, ForgottenEndures DEF ServiceInv
      <3> QED
        BY <3>1, <3>2 DEF ServiceInv, Forgetting, Settled, Beyond
    <2> QED
      BY <2>1, <2>2
  <1> QED
    BY <1>7, <1>8, <1>9, <1>12, <1>13 DEF ServiceInv, Places

-----------------------------------------------------------------------------
(* The Service.                                                             *)

\* What it has issued and remembered it keeps.
Keeps ==
  /\ UNCHANGED agentSide /\ memory \subseteq memory' /\ issued \subseteq issued'

LEMMA ServiceKeeps ==
  ASSUME ServiceInv, Keeps, answer' \in [Calls -> Answers \cup {None}], Wired', Remembered'
  PROVE  ServiceInv'
  <1>1. UNCHANGED <<callVars, sessionVars, clientVars>>
    BY DEF Keeps, agentSide
  <1>2. /\ UNCHANGED <<request, stage, using, offered, doomed, reply, before, sessionLock, sessionIdentity>>
        /\ UNCHANGED <<clientLock, identityStore, credentialStore, provider, provisioned>>
    BY <1>1 DEF callVars, sessionVars, clientVars
  <1>3. Places'
    BY <1>2 DEF ServiceInv, Places, Shaped, Placed, Locked, Session
  <1>4. Endures
    BY <1>2 DEF Endures, Slot, KeyOf, Material
  <1>5. Stored'
    BY <1>2, <1>4, StoredEndures DEF ServiceInv, Keeps
  <1>6. \A d \in Calls : Forgotten(d) /\ stage[d] \in Settled => Forgotten(d)'
    BY <1>2, <1>4, ForgottenEndures DEF ServiceInv, Keeps
  <1>7. Forgetting'
    BY <1>2, <1>6 DEF ServiceInv, Forgetting, Settled, Beyond
  <1> QED
    BY <1>3, <1>5, <1>7 DEF ServiceInv

\* An answer to a command of the call's operation, which the Service stands by.
LEMMA AnswerWired ==
  ASSUME ServiceInv, Keeps, NEW m \in wire, NEW a \in Answers, Answer(m, a),
         a.kind = "problem" \/ Asks(request[m.call].op, a.kind), Issued(a)',
         a = RevokeAnswer =>
           [slot |-> Slot(m.call), request |-> Material(m.call), answer |-> RevokeAnswer] \in memory'
  PROVE  answer' \in [Calls -> Answers \cup {None}] /\ Wired'
  <1>1. UNCHANGED <<request, stage, using>>
    BY DEF Keeps, agentSide, callVars
  <1>2. \A d : Slot(d)' = Slot(d) /\ Material(d)' = Material(d)
    BY <1>1 DEF Slot, KeyOf, Material
  <1>3. wire' \subseteq wire /\ m.call \in Calls
    BY DEF Answer, ServiceInv, Wired
  <1>4. /\ answer' \in [Calls -> Answers \cup {None}]
        /\ \A d \in Calls : \/ answer'[d] = answer[d]
                            \/ d = m.call /\ answer'[d] = a /\ stage[d] \in Waiting
    BY <1>3 DEF Answer, ServiceInv, Places, Shaped
  <1>5. \A b : Issued(b) => Issued(b)'
    BY DEF Keeps, Issued
  <1>6. ASSUME NEW n \in wire'
        PROVE  /\ n.call \in Calls /\ stage'[n.call] \in Settled
               /\ n.identity = using'[n.call] /\ n.identity \in Identities
               /\ n.command \in Commands /\ Asks(request'[n.call].op, n.command)
    BY <1>1, <1>3, <1>6 DEF ServiceInv, Wired
  <1>7. ASSUME NEW d \in Calls, answer'[d] # None
        PROVE  /\ stage'[d] \in Settled
               /\ answer'[d].kind = "problem" \/ Asks(request'[d].op, answer'[d].kind)
               /\ Issued(answer[d])'
               /\ answer'[d] = RevokeAnswer =>
                    [slot |-> Slot(d)', request |-> Material(d)', answer |-> RevokeAnswer] \in memory'
    <2>1. CASE answer'[d] = answer[d]
      <3>1. Issued(answer[d])'
        BY <1>7, <2>1 DEF ServiceInv, Wired, Keeps, Issued
      <3> QED
        BY <1>1, <1>2, <1>7, <2>1, <3>1 DEF ServiceInv, Wired, Keeps
    <2>2. CASE d = m.call /\ answer'[d] = a /\ stage[d] \in Waiting
      <3>1. Issued(answer[d])'
        BY <2>2 DEF Issued
      <3> QED
        BY <1>1, <1>2, <2>2, <3>1 DEF Waiting, Settled, Beyond
    <2> QED
      BY <1>4, <2>1, <2>2
  <1>8. Wired'
    BY <1>6, <1>7 DEF Wired
  <1> QED
    BY <1>4, <1>8

\* What is remembered under a key that was new.
LEMMA RememberStep ==
  ASSUME ServiceInv, NEW m \in wire, Recalled(m) = {}, NEW a \in Answers, Remember(m, a),
         issued \subseteq issued', Issued(a)', a.kind \in {"problem", request[m.call].op}
  PROVE  /\ memory \subseteq memory'
         /\ [slot |-> Slot(m.call), request |-> Material(m.call), answer |-> a] \in memory'
         /\ \A e, f \in memory' : e.slot = f.slot => e = f
         /\ \A e \in memory' :
              /\ e = [slot |-> e.slot, request |-> e.request, answer |-> e.answer]
              /\ e.answer \in Answers /\ Issued(e.answer)'
              /\ e.answer.kind \in {"problem", e.request.op}
  <1> DEFINE new == [slot |-> Slot(m.call), request |-> Material(m.call), answer |-> a]
  <1>1. memory' = memory \cup {new}
    BY DEF Remember
  <1>2. /\ new = [slot |-> new.slot, request |-> new.request, answer |-> new.answer]
        /\ new.slot = Slot(m.call) /\ new.answer = a /\ new.request = Material(m.call)
    OBVIOUS
  <1>3. Material(m.call).op = request[m.call].op
    <2>1. request[m.call] \in AllRequests
      BY HasSession DEF ServiceInv, Wired, Settled, Beyond
    <2> QED
      BY <2>1, RequestsAssumption DEF Material
  <1>4. \A e \in memory : e.slot # new.slot
    BY <1>2 DEF Recalled
  <1> HIDE DEF new
  <1>5. \A e, f \in memory' : e.slot = f.slot => e = f
    BY <1>1, <1>4 DEF ServiceInv, Remembered
  <1>6. ASSUME NEW e \in memory'
        PROVE  /\ e = [slot |-> e.slot, request |-> e.request, answer |-> e.answer]
               /\ e.answer \in Answers /\ Issued(e.answer)'
               /\ e.answer.kind \in {"problem", e.request.op}
    <2>1. CASE e \in memory
      <3>1. Issued(e.answer)'
        BY <2>1 DEF ServiceInv, Remembered, Issued
      <3> QED
        BY <2>1, <3>1 DEF ServiceInv, Remembered
    <2>2. CASE e = new
      <3>1. Issued(e.answer)'
        BY <1>2, <2>2 DEF Issued
      <3> QED
        BY <1>2, <1>3, <2>2, <3>1
    <2> QED
      BY <1>1, <2>1, <2>2
  <1>7. memory \subseteq memory'
    BY <1>1
  <1>8. [slot |-> Slot(m.call), request |-> Material(m.call), answer |-> a] \in memory'
    BY <1>1 DEF new
  <1> QED
    BY <1>5, <1>6, <1>7, <1>8

\* A status, a problem, and what it has answered before under the key.
LEMMA ReadingStep ==
  ASSUME ServiceInv, NEW m \in wire, ServeStatus(m) \/ Replay(m)
  PROVE  ServiceInv'
  <1>1. Keeps /\ UNCHANGED serviceVars /\ UNCHANGED <<memory, issued>>
    BY DEF ServeStatus, Replay, Keeps, serviceVars
  <1>2. Remembered'
    BY <1>1, RememberedEndures DEF ServiceInv
  <1>3. ProblemDetails \in Answers /\ ProblemDetails.kind = "problem" /\ ProblemDetails # RevokeAnswer
        /\ ProblemDetails \notin GrantAnswers
    BY DEF Answers, ProblemDetails, RevokeAnswer, GrantAnswers
  <1>4. ASSUME NEW a \in Answers, Answer(m, a), a.kind = "problem" \/ Asks(request[m.call].op, a.kind),
               Issued(a),
               a = RevokeAnswer =>
                 [slot |-> Slot(m.call), request |-> Material(m.call), answer |-> RevokeAnswer] \in memory
        PROVE  ServiceInv'
    <2>1. Issued(a)'
      BY <1>1, <1>4 DEF Issued
    <2>2. answer' \in [Calls -> Answers \cup {None}] /\ Wired'
      BY <1>1, <1>4, <2>1, AnswerWired
    <2> QED
      BY <1>1, <1>2, <2>2, ServiceKeeps
  <1>5. CASE Answer(m, ProblemDetails)
    BY <1>3, <1>4, <1>5 DEF Issued
  <1>6. CASE ServeStatus(m) /\ ~Answer(m, ProblemDetails)
    <2>1. /\ Answer(m, statusResponse(standing[m.identity])) /\ standing[m.identity] # None
          /\ m.command = "status"
      BY <1>6 DEF ServeStatus
    <2>2. standing[m.identity] \in AgentStatuses /\ Asks(request[m.call].op, "status")
      BY <2>1 DEF ServiceInv, Wired, Remembered
    <2>3. /\ statusResponse(standing[m.identity]) \in StatusAnswers
          /\ statusResponse(standing[m.identity]).kind = "status"
      BY <2>2 DEF statusResponse, StatusAnswers
    <2>4. /\ statusResponse(standing[m.identity]) \notin GrantAnswers
          /\ statusResponse(standing[m.identity]) # RevokeAnswer
      BY <2>3 DEF GrantAnswers, RevokeAnswer
    <2> QED
      BY <1>4, <2>1, <2>2, <2>3, <2>4 DEF Issued, Answers
  <1>7. CASE Replay(m) /\ ~Answer(m, ProblemDetails)
    <2>1. PICK e \in Recalled(m) : e.request = Material(m.call) /\ Answer(m, e.answer)
      BY <1>7 DEF Replay
    <2>2. /\ e \in memory /\ e.slot = Slot(m.call)
          /\ e = [slot |-> e.slot, request |-> e.request, answer |-> e.answer]
          /\ e.answer \in Answers /\ Issued(e.answer)
          /\ e.answer.kind \in {"problem", e.request.op}
      BY <2>1 DEF Recalled, ServiceInv, Remembered
    <2>3. Material(m.call).op = request[m.call].op
      <3>1. request[m.call] \in AllRequests
        BY HasSession DEF ServiceInv, Wired, Settled, Beyond
      <3> QED
        BY <3>1, RequestsAssumption DEF Material
    <2>4. e.answer.kind = "problem" \/ Asks(request[m.call].op, e.answer.kind)
      <3>1. Asks(request[m.call].op, m.command) /\ m.command # "status"
        BY <1>7 DEF Replay, ServiceInv, Wired
      <3> QED
        BY <2>1, <2>2, <2>3, <3>1 DEF Asks
    <2> QED
      BY <1>4, <2>1, <2>2, <2>4
  <1> QED
    BY <1>5, <1>6, <1>7

\* The first answer under a key.
LEMMA FreshStep ==
  ASSUME ServiceInv, NEW m \in wire, Fresh(m), NEW a \in Answers, Answer(m, a),
         a.kind \in {"problem", request[m.call].op}, Issued(a)', UNCHANGED agentSide,
         \/ Remember(m, a)
         \/ a # RevokeAnswer /\ UNCHANGED memory,
         issued \subseteq issued',
         standing' \in [Identities -> AgentStatuses \cup {None}],
         IsFiniteSet(issued'),
         \A x \in issued' : x.id \in CredentialIDs /\ x.id \in 1..Cardinality(issued'),
         \A x, y \in issued' : x.id = y.id => x = y,
         \A d \in dead' : d \in dead \/ \E x \in issued, e \in memory' :
           x.id = d.id /\ e.slot = d.slot /\ Selects(e.request, x.type, x.id)
  PROVE  ServiceInv'
  <1>1. a.kind = "problem" \/ Asks(request[m.call].op, a.kind)
    <2>1. Asks(request[m.call].op, m.command) /\ m.command # "status"
      BY DEF Fresh, ServiceInv, Wired
    <2> QED
      BY <2>1 DEF Asks
  <1>2. /\ memory \subseteq memory'
        /\ a = RevokeAnswer =>
             [slot |-> Slot(m.call), request |-> Material(m.call), answer |-> RevokeAnswer] \in memory'
        /\ \A e, f \in memory' : e.slot = f.slot => e = f
        /\ \A e \in memory' :
             /\ e = [slot |-> e.slot, request |-> e.request, answer |-> e.answer]
             /\ e.answer \in Answers /\ Issued(e.answer)'
             /\ e.answer.kind \in {"problem", e.request.op}
    <2>1. CASE Remember(m, a)
      BY <2>1, RememberStep DEF Fresh
    <2>2. CASE a # RevokeAnswer /\ UNCHANGED memory
      <3>1. \A e \in memory : Issued(e.answer)'
        BY <2>2 DEF ServiceInv, Remembered, Issued
      <3> QED
        BY <2>2, <3>1 DEF ServiceInv, Remembered
    <2> QED
      BY <2>1, <2>2
  <1>3. Keeps
    BY <1>2 DEF Keeps
  <1>4. answer' \in [Calls -> Answers \cup {None}] /\ Wired'
    BY <1>1, <1>2, <1>3, AnswerWired
  <1>5. \A d \in dead' : \E x \in issued', e \in memory' :
          x.id = d.id /\ e.slot = d.slot /\ Selects(e.request, x.type, x.id)
    BY <1>2 DEF ServiceInv, Remembered
  <1>6. Remembered'
    BY <1>2, <1>5 DEF Remembered, Selects
  <1> QED
    BY <1>3, <1>4, <1>6, ServiceKeeps

LEMMA ServeEnrollStep ==
  ASSUME ServiceInv, NEW m \in wire, ServeEnroll(m)
  PROVE  ServiceInv'
  <1>1. PICK status \in IF standing[m.identity] = None THEN {"active", "pending", "rejected"}
                        ELSE {standing[m.identity]} :
          /\ standing' = [standing EXCEPT ![m.identity] = status]
          /\ Answer(m, [kind |-> "enroll", status |-> status])
          /\ Remember(m, [kind |-> "enroll", status |-> status])
    BY DEF ServeEnroll
  <1>2. Fresh(m) /\ m.command = "enroll" /\ UNCHANGED <<agentSide, issued, dead>>
    BY DEF ServeEnroll
  <1>3. status \in AgentStatuses
    BY <1>1 DEF ServiceInv, Wired, Remembered, AgentStatuses
  <1> DEFINE a == [kind |-> "enroll", status |-> status]
  <1>4. a \in Answers /\ a.kind = "enroll" /\ a \notin GrantAnswers /\ a # RevokeAnswer
    BY <1>3 DEF Answers, EnrollAnswers, GrantAnswers, RevokeAnswer
  <1>5. a.kind = request[m.call].op
    BY <1>2, <1>4 DEF ServiceInv, Wired, Asks
  <1>6. Issued(a)'
    BY <1>4 DEF Issued
  <1>7. standing' \in [Identities -> AgentStatuses \cup {None}]
    BY <1>1, <1>3 DEF ServiceInv, Remembered
  <1>8. Answer(m, a) /\ Remember(m, a)
    BY <1>1
  <1> HIDE DEF a
  <1> QED
    BY <1>2, <1>4, <1>5, <1>6, <1>7, <1>8, FreshStep DEF ServiceInv, Remembered

LEMMA ServeGrantStep ==
  ASSUME ServiceInv, NEW m \in wire, ServeGrant(m)
  PROVE  ServiceInv'
  <1>0. PICK type, next, a, new :
          /\ type = request[m.call].type /\ next = NextCredential
          /\ a = [kind |-> "grant", type |-> type, id |-> next]
          /\ new = [id |-> next, type |-> type, owner |-> m.identity]
    OBVIOUS
  <1>1. /\ Fresh(m) /\ m.command = "grant" /\ next \in CredentialIDs
        /\ issued' = issued \cup {new} /\ Answer(m, a) /\ Remember(m, a)
        /\ UNCHANGED <<agentSide, standing, dead>>
    BY <1>0 DEF ServeGrant
  <1>2. request[m.call].op = "grant"
    BY <1>1 DEF ServiceInv, Wired, Asks
  <1>3. type \in GrantTypes
    <2>1. request[m.call] \in AllRequests
      BY HasSession DEF ServiceInv, Wired, Settled, Beyond
    <2> QED
      BY <1>0, <1>2, <2>1, RequestsAssumption
  <1>4. a \in Answers /\ a.kind = "grant" /\ a # RevokeAnswer /\ a.id = next /\ a.type = type
    BY <1>0, <1>1, <1>3 DEF Answers, GrantAnswers, RevokeAnswer
  <1>5. new.id = next /\ new.type = type /\ next = Cardinality(issued) + 1
    BY <1>0 DEF NextCredential
  <1>6. Issued(a)'
    BY <1>1, <1>4, <1>5 DEF Issued
  <1>7. /\ IsFiniteSet(issued) /\ Cardinality(issued) \in Nat
        /\ \A x \in issued : x.id \in CredentialIDs /\ x.id \in 1..Cardinality(issued)
        /\ \A x, y \in issued : x.id = y.id => x = y
    BY FS_CardinalityType DEF ServiceInv, Remembered
  <1>8. new \notin issued
    BY <1>5, <1>7
  <1>9. IsFiniteSet(issued') /\ Cardinality(issued') = next
    BY <1>1, <1>5, <1>7, <1>8, FS_AddElement
  <1>10. \A x \in issued' : x.id \in CredentialIDs /\ x.id \in 1..Cardinality(issued')
    BY <1>1, <1>5, <1>7, <1>9
  <1>11. \A x, y \in issued' : x.id = y.id => x = y
    BY <1>1, <1>5, <1>7
  <1>12. standing' \in [Identities -> AgentStatuses \cup {None}] /\ issued \subseteq issued' /\ dead' = dead
    BY <1>1 DEF ServiceInv, Remembered
  <1>13. a.kind \in {"problem", request[m.call].op}
    BY <1>2, <1>4
  <1> QED
    BY <1>1, <1>4, <1>6, <1>9, <1>10, <1>11, <1>12, <1>13, FreshStep

LEMMA ServeRevokeStep ==
  ASSUME ServiceInv, NEW m \in wire, ServeRevoke(m)
  PROVE  ServiceInv'
  <1> DEFINE K == {x \in issued : /\ x.owner = m.identity
                                  /\ \A d \in dead : d.id # x.id
                                  /\ Selects(request[m.call], x.type, x.id)}
  <1>1. /\ Fresh(m) /\ m.command = "revoke"
        /\ dead' = dead \cup {[id |-> k.id, slot |-> Slot(m.call)] : k \in K}
        /\ Answer(m, RevokeAnswer) /\ Remember(m, RevokeAnswer)
        /\ UNCHANGED <<agentSide, standing, issued>>
    BY DEF ServeRevoke
  <1>2. RevokeAnswer \in Answers /\ RevokeAnswer.kind = "revoke" /\ RevokeAnswer \notin GrantAnswers
    BY DEF Answers, GrantAnswers, RevokeAnswer
  <1>3. request[m.call].op = "revoke"
    BY <1>1 DEF ServiceInv, Wired, Asks
  <1> DEFINE entry == [slot |-> Slot(m.call), request |-> Material(m.call), answer |-> RevokeAnswer]
  <1>4. entry \in memory'
    BY <1>1 DEF Remember
  <1>5. entry.slot = Slot(m.call) /\ entry.request = Material(m.call)
    OBVIOUS
  <1>6. /\ Material(m.call).type = request[m.call].type /\ Material(m.call).id = request[m.call].id
    <2>1. request[m.call] \in AllRequests
      BY HasSession DEF ServiceInv, Wired, Settled, Beyond
    <2> QED
      BY <2>1, RequestsAssumption DEF Material
  <1> HIDE DEF entry
  <1>7. ASSUME NEW d \in dead', d \notin dead
        PROVE  \E x \in issued, e \in memory' :
                 x.id = d.id /\ e.slot = d.slot /\ Selects(e.request, x.type, x.id)
    <2>1. PICK k \in K : d = [id |-> k.id, slot |-> Slot(m.call)]
      BY <1>1, <1>7
    <2>2. k \in issued /\ Selects(request[m.call], k.type, k.id) /\ d.id = k.id /\ d.slot = Slot(m.call)
      BY <2>1
    <2>3. Selects(entry.request, k.type, k.id)
      BY <1>5, <1>6, <2>2 DEF Selects
    <2> QED
      BY <1>4, <1>5, <2>2, <2>3
  <1>8. Issued(RevokeAnswer)'
    BY <1>2 DEF Issued
  <1>9. UNCHANGED agentSide /\ issued' = issued /\ standing' = standing
    BY <1>1
  <1>10. Fresh(m) /\ Answer(m, RevokeAnswer) /\ Remember(m, RevokeAnswer)
    BY <1>1
  <1> HIDE DEF K
  <1> QED
    BY <1>2, <1>3, <1>7, <1>8, <1>9, <1>10, FreshStep DEF ServiceInv, Remembered

LEMMA ServeProblemStep ==
  ASSUME ServiceInv, NEW m \in wire, ServeProblem(m)
  PROVE  ServiceInv'
  <1>1. ProblemDetails \in Answers /\ ProblemDetails.kind = "problem" /\ ProblemDetails # RevokeAnswer
        /\ ProblemDetails \notin GrantAnswers
    BY DEF Answers, ProblemDetails, RevokeAnswer, GrantAnswers
  <1>2. Issued(ProblemDetails)'
    BY <1>1 DEF Issued
  <1> QED
    BY <1>1, <1>2, FreshStep DEF ServeProblem, ServiceInv, Remembered

\* The operator of the Service, and a step of nobody.
LEMMA OperatorStep ==
  ASSUME ServiceInv,
         \/ UNCHANGED vars
         \/ \E i \in Identities, status \in AgentStatuses : SetStanding(i, status)
  PROVE  ServiceInv'
  <1>1. UNCHANGED <<agentSide, netVars, issued, dead, memory>>
    BY DEF vars, agentSide, serviceVars, SetStanding
  <1>2. standing' \in [Identities -> AgentStatuses \cup {None}]
    BY DEF vars, serviceVars, SetStanding, ServiceInv, Remembered
  <1>3. Keeps /\ wire' = wire /\ answer' = answer
    BY <1>1 DEF Keeps, netVars
  <1>4. Remembered'
    BY <1>1, <1>2 DEF ServiceInv, Remembered, Issued
  <1>5. Endures
    BY <1>1 DEF agentSide, callVars, Endures, Slot, KeyOf, Material
  <1>6. Wired'
    BY <1>3, <1>5, WiredEndures DEF ServiceInv, Keeps
  <1>7. answer' \in [Calls -> Answers \cup {None}]
    BY <1>3 DEF ServiceInv, Places, Shaped
  <1> QED
    BY <1>3, <1>4, <1>6, <1>7, ServiceKeeps

LEMMA ServiceInitially ==
  ASSUME Init
  PROVE  ServiceInv
  <1>1. PICK start \in Starts :
          provider = start.provider /\ provisioned = start.provisioned /\ identityStore = start.stored
    BY DEF Init
  <1>2. identityStore \in Identities \cup {None} /\ provisioned \in Identities \cup {None}
    BY <1>1, StartsAssumption
  <1>3. "idle" \in Stages /\ "idle" \notin Settled /\ "idle" \notin Beyond
    BY DEF Stages, Settled, Beyond
  <1>4. Places
    BY <1>2, <1>3 DEF Init, Places, Shaped, Placed, Locked
  <1>5. Wired
    BY DEF Init, Wired
  <1>6. Remembered
    BY FS_EmptySet, <1>2 DEF Init, Remembered, AgentStatuses
  <1>7. Stored /\ Forgetting
    BY DEF Init, Stored, Forgetting
  <1> QED
    BY <1>4, <1>5, <1>6, <1>7 DEF ServiceInv

\* What the Agent holds, what is on its way and what the Service remembers fit.
THEOREM ServiceInvariant == Spec => []ServiceInv
  <1>1. Init => ServiceInv
    BY ServiceInitially
  <1>2. ServiceInv /\ [Next]_vars => ServiceInv'
    <2> SUFFICES ASSUME ServiceInv, [Next]_vars
                 PROVE  ServiceInv'
      OBVIOUS
    <2>1. CASE \E c \in Calls : \E r \in Requests[c], advertised \in BOOLEAN : Call(c, r, advertised)
      BY <2>1, CallKeeps
    <2>2. CASE \E c \in Calls : Advance(c) \/ SaveFails(c) \/ StoreCredentialFails(c) \/ Fail(c)
      BY <2>2, CommandKeeps, SeekingTurn, SeekingStep DEF Advance, ServiceInv
    <2>3. CASE \E m \in wire : Serve(m)
      BY <2>3, ReadingStep, ServeEnrollStep, ServeGrantStep, ServeRevokeStep, ServeProblemStep DEF Serve
    <2>4. CASE \/ UNCHANGED vars
               \/ \E i \in Identities, status \in AgentStatuses : SetStanding(i, status)
      BY <2>4, OperatorStep
    <2> QED
      BY <2>1, <2>2, <2>3, <2>4 DEF Next
  <1> QED
    BY <1>1, <1>2, PTL DEF Spec

\* Types; who holds a lock of resolveIdentity is between its Lock and its Unlock;
\* the Service answers what the Agent's parsers accept; a stored record is of an
\* issued credential.
THEOREM SessionTypes == Spec => []TypeOK
  <1>1. ServiceInv => TypeOK
    <2> SUFFICES ASSUME ServiceInv
                 PROVE  TypeOK
      OBVIOUS
    <2>1. /\ request \in [Calls -> AllRequests \cup {None}]
          /\ stage \in [Calls -> Interruptible \cup {"idle", "resolve", "claim", "save", "done"}]
          /\ {using[c] : c \in Calls} \cup {offered[c] : c \in Calls} \subseteq Identities \cup {None}
          /\ \A c \in Calls : (reply[c] # None) = (stage[c] = "done")
      BY DEF ServiceInv, Places, Shaped, Placed, Stages
    <2>2. \A s \in Sessions : sessionLock[s] # None =>
            Session(sessionLock[s]) = s /\ stage[sessionLock[s]] \in {"claim", "provide", "save"}
      BY DEF ServiceInv, Places, Locked, Holding
    <2>3. /\ \A m \in wire : m.command \in Commands /\ m.identity = using[m.call]
          /\ clientLock # None => stage[clientLock] \in {"provide", "save"}
          /\ identityStore \in Identities \cup {None}
      BY DEF ServiceInv, Wired, Places, Shaped, Locked, Providing
    <2>4. ASSUME NEW c \in Calls, answer[c] # None
          PROVE  \/ answer[c] \in EnrollAnswers \cup StatusAnswers \cup GrantAnswers
                 \/ ParseRevokeResponse(answer[c]) \/ answer[c].kind = "problem"
      <3>1. answer[c] \in Answers
        BY <2>4 DEF ServiceInv, Places, Shaped
      <3> QED
        BY <3>1 DEF Answers, ParseRevokeResponse, ProblemDetails
    <2>5. /\ standing \in [Identities -> AgentStatuses \cup {None}]
          /\ \A k \in issued : k.id \in CredentialIDs
          /\ \A k \in credentialStore : \E x \in issued : x.id = k.id /\ x.type = k.type
      BY DEF ServiceInv, Remembered, Stored
    <2> QED
      BY <2>1, <2>2, <2>3, <2>4, <2>5 DEF TypeOK
  <1> QED
    BY <1>1, ServiceInvariant, PTL

\* A Revoke that returned leaves no record of what the Service revoked for it,
\* also when an earlier call had already been answered under its key, unless a
\* Grant that was still under way saved the record since: what the Service
\* revoked under a key is what the request of that key selects, and that is what
\* deleteRevokedCredentials has listed.
THEOREM RevokedRecordsAreForgotten == Spec => []RevokeForgets
  <1>1. ServiceInv => RevokeForgets
    <2> SUFFICES ASSUME ServiceInv, NEW c \in Calls, request[c] # None, request[c].op = "revoke",
                        reply[c] # None, reply[c].ok, NEW k \in credentialStore,
                        [id |-> k.id, slot |-> Slot(c)] \in dead, k.by \in before[c]
                 PROVE  FALSE
      BY DEF RevokeForgets
    <2>1. Forgotten(c) /\ doomed[c] = {} /\ stage[c] = "done"
      BY DEF ServiceInv, Places, Placed, Forgetting
    <2>2. PICK x \in issued, e \in memory :
            x.id = k.id /\ e.slot = Slot(c) /\ Selects(e.request, x.type, x.id)
      BY DEF ServiceInv, Remembered
    <2> DEFINE own == [slot |-> Slot(c), request |-> Material(c), answer |-> RevokeAnswer]
    <2>3. own \in memory /\ own.slot = Slot(c) /\ own.request = Material(c)
      BY <2>1 DEF Forgotten
    <2> HIDE DEF own
    <2>4. e = own
      BY <2>2, <2>3 DEF ServiceInv, Remembered
    <2>5. /\ Material(c).type = request[c].type /\ Material(c).id = request[c].id
      <3>1. request[c] \in AllRequests
        BY <2>1, HasSession DEF ServiceInv
      <3> QED
        BY <3>1, RequestsAssumption DEF Material
    <2>6. Selects(request[c], x.type, x.id)
      BY <2>2, <2>3, <2>4, <2>5 DEF Selects
    <2>7. x.type = k.type
      BY <2>2 DEF ServiceInv, Stored, Remembered
    <2>8. k \in doomed[c]
      BY <2>1, <2>2, <2>6, <2>7 DEF Forgotten, Matches
    <2> QED
      BY <2>1, <2>8
  <1> QED
    BY <1>1, ServiceInvariant, PTL
=============================================================================
