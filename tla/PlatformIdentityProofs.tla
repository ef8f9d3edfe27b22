-------------------------- MODULE PlatformIdentityProofs --------------------------
(***************************************************************************)
(* Identities for any number of calls, principals, Services and keys,      *)
(* whatever the generators draw.  Asking is about the idempotency store: an *)
(* executing call keeps its turn, and a remembered response is that of the *)
(* same request.  Creations is about the identity store: one call at most  *)
(* creates in a scope, which has no identity yet.  Then what was told      *)
(* (Answered), the replay store (Replaying) and whose every response is    *)
(* (Private); and the types.                                               *)
(***************************************************************************)
EXTENDS PlatformIdentity, FiniteSetTheorems, SequenceTheorems, TLAPS

\* What is behind the idempotency store.
Asking ==
  /\ request \in [Calls -> AllRequests \cup {None}]
  /\ asked \in [Calls -> Inputs \cup {None}]
  /\ DOMAIN executing = Idem!Slots /\ DOMAIN result = Calls /\ DOMAIN reply = Calls
  /\ \A c \in Calls : asked[c] # None =>
       /\ request[c] # None /\ request[c].op \in Idempotent
       /\ asked[c] = InputOf(request[c]) /\ Idem!Slot(asked[c]) \in Idem!Slots
  /\ \A c \in Calls : result[c] # None => asked[c] # None

\* Records by their id, and copies and drafts of records.
Storing ==
  /\ identity \in [Calls -> Identities \cup {None}]
  /\ draft \in [Calls -> Identities \cup {None}]
  /\ records \in [Ids -> Identities \cup {None}]
  /\ pending \in [Scopes -> Calls \cup {None}]
  /\ keys \subseteq Dids /\ clock \in 0..MaxClock
  /\ \A id \in Ids : records[id] # None => records[id].id = id
  /\ \A c \in Calls : identity[c] # None => request[c] # None /\ records[identity[c].id] # None

CreatesFor(c, scope) == Executing(c, "provision") /\ MyScope(c) = scope

Creations ==
  /\ \A scope \in Scopes : pending[scope] # None =>
       /\ CreatesFor(pending[scope], scope)
       /\ \A id \in Ids : records[id] # None => Scope(records[id]) # scope
  /\ \A c \in Calls : draft[c] # None =>
       /\ request[c] # None /\ request[c].op = "provision"
       /\ Scope(draft[c]) = MyScope(c) /\ pending[MyScope(c)] = c
       /\ draft[c].did \in keys

Distinct ==
  /\ \A i, j \in Ids : i # j /\ records[i] # None /\ records[j] # None =>
       Scope(records[i]) # Scope(records[j]) /\ records[i].did # records[j].did
  /\ \A i \in Ids : records[i] # None => records[i].did \in keys

-----------------------------------------------------------------------------
(* The idempotency store.                                                   *)

LEMMA InputFacts ==
  ASSUME NEW r \in AllRequests, r.op \in Idempotent
  PROVE  /\ InputOf(r) \in Inputs /\ Idem!Slot(InputOf(r)) \in Idem!Slots
         /\ InputOf(r).command = r.op
         /\ r.op = "provision" => InputOf(r).canonical = r /\ InputOf(r).hash = r
  <1>1. InputOf(r) \in Inputs
    BY DEF Inputs
  <1> QED
    BY <1>1 DEF InputOf, Idem!Slots

\* What receiving a request does to the idempotency store, to the copies and to
\* the answer.
LEMMA Received ==
  ASSUME Asking, Storing, NEW c \in Calls, Receive(c)
  PROVE  \E r \in Requests[c] :
           /\ Arrives(c, r)
           /\ \/ r.op \in Idempotent /\ Idem!Ask(c, InputOf(r)) /\ UNCHANGED reply
              \/ UNCHANGED idemVars
           /\ \E copy \in Stored \cup {None, identity[c]} : identity' = [identity EXCEPT ![c] = copy]
           /\ DOMAIN reply' = DOMAIN reply /\ \A d \in Calls : d # c => reply'[d] = reply[d]
           /\ r.op = "provision" =>
                reply' = reply \/ reply' = [reply EXCEPT ![c] = Problem("not_recognized")]
  <1>1. PICK r \in Requests[c], ok \in BOOLEAN :
          \/ ReceiveProvision(c, r, ok) \/ ReceiveSign(c, r, ok) \/ ReceiveVerify(c, r, ok)
          \/ GetIdentity(c, r, ok) \/ GetDIDDocument(c, r) \/ List(c, r, ok)
          \/ ReceiveUpdate(c, r, ok)
    BY DEF Receive
  <1>2. \A q : Turned(c, q) =>
          /\ UNCHANGED idemVars /\ identity' = [identity EXCEPT ![c] = identity[c]]
          /\ reply' = [reply EXCEPT ![c] = q]
          /\ \A d \in Calls : d # c => reply'[d] = reply[d]
    BY DEF Turned, Return, Storing, Asking
  <1>3. Recognized(r, ok) # None => Recognized(r, ok) \in Stored
    BY DEF Recognized, Stored
  <1>4. CASE ReceiveProvision(c, r, ok)
    BY <1>2, <1>4 DEF ReceiveProvision, EntersStore, Idempotent
  <1>5. CASE ReceiveSign(c, r, ok)
    BY <1>2, <1>3, <1>5 DEF ReceiveSign, EntersStore, Idempotent
  <1>6. CASE ReceiveVerify(c, r, ok)
    BY <1>2, <1>6 DEF ReceiveVerify, EntersStore, Idempotent, Signer
  <1>7. CASE GetIdentity(c, r, ok)
    BY <1>2, <1>7 DEF GetIdentity, Read
  <1>8. CASE GetDIDDocument(c, r)
    BY <1>2, <1>8 DEF GetDIDDocument
  <1>9. CASE List(c, r, ok)
    <2>1. r.op = "list" /\ Arrives(c, r) /\ \E q : Turned(c, q)
      BY <1>9 DEF List
    <2> QED
      BY <1>2, <2>1
  <1>10. CASE ReceiveUpdate(c, r, ok)
    BY <1>2, <1>3, <1>10 DEF ReceiveUpdate
  <1> QED
    BY <1>1, <1>4, <1>5, <1>6, <1>7, <1>8, <1>9, <1>10

\* The ways a response is computed, the identities left alone.
Computes(c) ==
  \/ ServiceUnresolved(c) \/ FindIdentity(c) \/ SignRefused(c) \/ SignHandled(c) \/ Sign(c)
  \/ Verify(c) \/ VerifyUnrecognized(c)

LEMMA Computed ==
  ASSUME NEW c \in Calls, Computes(c)
  PROVE  /\ \E r : Compute(c, r)
         /\ request[c] # None /\ asked[c] # None /\ executing[Idem!Slot(asked[c])] = c
         /\ result[c] = None
         /\ request[c].op = "provision" => ~Creating(c)
         /\ UNCHANGED <<request, identity, draft, reply, records, pending, keys, clock, asked,
                        executing, memory, answer>>
  <1>1. CASE ServiceUnresolved(c)
    BY <1>1 DEF ServiceUnresolved, Executing, callVars, storeVars, idemVars
  <1>2. CASE FindIdentity(c)
    BY <1>2 DEF FindIdentity, Executing, callVars, storeVars, idemVars
  <1>3. CASE SignRefused(c) \/ SignHandled(c) \/ Sign(c)
    BY <1>3 DEF SignRefused, SignHandled, Sign, Executing, callVars, storeVars, idemVars
  <1>4. CASE Verify(c) \/ VerifyUnrecognized(c)
    BY <1>4 DEF Verify, VerifyUnrecognized, Executing, callVars, storeVars, idemVars
  <1> QED
    BY <1>1, <1>2, <1>3, <1>4 DEF Computes

\* A turn at the idempotency store that begins or ends, or a call that gives up.
Turns(c) == Begin(c) \/ Recall(c) \/ Finish(c) \/ GiveUp(c)

LEMMA NextCases ==
  ASSUME [Next]_vars
  PROVE  \/ UNCHANGED vars \/ Tick
         \/ \E slot \in Idem!Slots : Forget(slot)
         \/ \E c \in Calls :
              \/ Receive(c) \/ Computes(c) \/ Turns(c)
              \/ ClaimCreation(c) \/ CreateIdentity(c) \/ PublishIdentity(c)
              \/ Fail(c) \/ ApplyUpdate(c)
  BY DEF Next, Advance, DuplicateRefused, Computes, Turns

\* The step of one of the calls that leaves the identities alone.
Quiet ==
  /\ UNCHANGED <<records, pending, keys, draft>>
  /\ \A d \in Calls : request[d] # None => request'[d] = request[d]
  /\ \A d \in Calls : Executing(d, "provision") /\ Creating(d) => Executing(d, "provision")'

LEMMA AskingStep ==
  ASSUME Asking, Storing, [Next]_vars
  PROVE  Asking'
  <1>1. CASE UNCHANGED vars \/ Tick \/ \E slot \in Idem!Slots : Forget(slot)
    BY <1>1 DEF vars, Tick, Forget, Idem!Forget, callVars, storeVars, idemVars, Asking
  <1>2. ASSUME NEW c \in Calls, Receive(c)
        PROVE  Asking'
    <2>1. PICK r \in Requests[c] :
            /\ Arrives(c, r)
            /\ \/ r.op \in Idempotent /\ Idem!Ask(c, InputOf(r)) /\ UNCHANGED reply
               \/ UNCHANGED idemVars
            /\ DOMAIN reply' = DOMAIN reply
      BY <1>2, Received
    <2>2. r \in AllRequests /\ r # None
      BY RequestsAssumption DEF AllRequests
    <2>3. request[c] = None /\ request' = [request EXCEPT ![c] = r] /\ result' = result
      BY <2>1 DEF Arrives
    <2>4. DOMAIN reply' = Calls
      BY <2>1 DEF Asking
    <2>5. CASE r.op \in Idempotent /\ Idem!Ask(c, InputOf(r))
      <3>1. InputOf(r) \in Inputs /\ Idem!Slot(InputOf(r)) \in Idem!Slots
        BY <2>2, <2>5, InputFacts
      <3>2. asked' = [asked EXCEPT ![c] = InputOf(r)] /\ executing' = executing
        BY <2>5 DEF Idem!Ask
      <3> QED
        BY <2>2, <2>3, <2>4, <2>5, <3>1, <3>2 DEF Asking
    <2>6. CASE UNCHANGED idemVars
      BY <2>2, <2>3, <2>4, <2>6 DEF Asking, idemVars
    <2> QED
      BY <2>1, <2>5, <2>6
  <1>3. ASSUME NEW c \in Calls, Computes(c)
        PROVE  Asking'
    <2>1. PICK r : Compute(c, r)
      BY <1>3, Computed
    <2>2. asked[c] # None /\ UNCHANGED <<request, reply, asked, executing>>
      BY <1>3, Computed
    <2> QED
      BY <2>1, <2>2 DEF Compute, Asking
  <1>4. ASSUME NEW c \in Calls, Turns(c) \/ Fail(c)
        PROVE  Asking'
    <2>1. /\ UNCHANGED <<request, asked, result>>
          /\ DOMAIN executing' = DOMAIN executing /\ DOMAIN reply' = DOMAIN reply
      BY <1>4 DEF Turns, Begin, Recall, Finish, GiveUp, Fail, Return, callVars, storeVars, Idem!Begin,
                  Idem!Recall, Idem!Finish, Idem!GiveUp, Idem!Fail
    <2> QED
      BY <2>1 DEF Asking
  <1>5. ASSUME NEW c \in Calls, ClaimCreation(c) \/ CreateIdentity(c)
        PROVE  Asking'
    BY <1>5 DEF ClaimCreation, CreateIdentity, callVars, storeVars, idemVars, Asking
  <1>6. ASSUME NEW c \in Calls, PublishIdentity(c)
        PROVE  Asking'
    BY <1>6 DEF PublishIdentity, Executing, Compute, callVars, storeVars, idemVars, Asking
  <1>7. ASSUME NEW c \in Calls, ApplyUpdate(c)
        PROVE  Asking'
    BY <1>7 DEF ApplyUpdate, Return, callVars, storeVars, idemVars, Asking
  <1> QED
    BY NextCases, <1>1, <1>2, <1>3, <1>4, <1>5, <1>6, <1>7

\* Whoever executes keeps its turn until its own step ends it.
LEMMA QuietSteps ==
  ASSUME Asking, Storing,
         \/ UNCHANGED vars \/ Tick
         \/ \E slot \in Idem!Slots : Forget(slot)
         \/ \E c \in Calls : Receive(c) \/ Computes(c) \/ Turns(c)
  PROVE  Quiet
  <1>1. CASE UNCHANGED vars \/ Tick \/ \E slot \in Idem!Slots : Forget(slot)
    BY <1>1 DEF vars, Tick, Forget, Idem!Forget, callVars, storeVars, idemVars, Quiet, Executing,
                Idem!Slot
  <1>2. ASSUME NEW c \in Calls, Receive(c)
        PROVE  Quiet
    <2>1. PICK r \in Requests[c] :
            /\ Arrives(c, r)
            /\ Idem!Ask(c, InputOf(r)) \/ UNCHANGED idemVars
      BY <1>2, Received
    <2>2. /\ request[c] = None /\ request' = [request EXCEPT ![c] = r] /\ result' = result
          /\ UNCHANGED <<records, pending, keys, draft>>
      BY <2>1 DEF Arrives, storeVars
    <2>3. \A d \in Calls : d # c => asked'[d] = asked[d]
      BY <2>1 DEF Idem!Ask, idemVars, Asking
    <2>4. executing' = executing
      BY <2>1 DEF Idem!Ask, idemVars
    <2> QED
      BY <2>2, <2>3, <2>4 DEF Asking, Quiet, Executing, Idem!Slot
  <1>3. ASSUME NEW c \in Calls, Computes(c)
        PROVE  Quiet
    <2>1. PICK r : Compute(c, r)
      BY <1>3, Computed
    <2>2. /\ request[c].op = "provision" => ~Creating(c)
          /\ UNCHANGED <<request, draft, records, pending, keys, asked, executing>>
      BY <1>3, Computed
    <2> QED
      BY <2>1, <2>2 DEF Compute, Asking, Quiet, Executing, Idem!Slot
  <1>4. ASSUME NEW c \in Calls, Turns(c)
        PROVE  Quiet
    <2>1. UNCHANGED <<request, result, asked, draft, records, pending, keys>>
      BY <1>4 DEF Turns, Begin, Recall, Finish, GiveUp, callVars, storeVars, Idem!Begin,
                  Idem!Recall, Idem!Finish, Idem!GiveUp
    <2>2. \A d \in Calls : Executing(d, "provision") =>
            executing'[Idem!Slot(asked[d])] = executing[Idem!Slot(asked[d])]
      <3>1. CASE Begin(c)
        BY <3>1, RequestsAssumption DEF Begin, Idem!Begin, Asking, Executing
      <3>2. CASE Finish(c)
        BY <3>2 DEF Finish, Idem!Finish, Asking, Executing
      <3>3. CASE Recall(c) \/ GiveUp(c)
        BY <3>3 DEF Recall, GiveUp, Idem!Recall, Idem!GiveUp
      <3> QED
        BY <1>4, <3>1, <3>2, <3>3 DEF Turns
    <2> QED
      BY <2>1, <2>2 DEF Quiet, Executing, Idem!Slot
  <1> QED
    BY <1>1, <1>2, <1>3, <1>4

-----------------------------------------------------------------------------
(* The identity store.                                                      *)

LEMMA StoringStep ==
  ASSUME Asking, Storing, [Next]_vars
  PROVE  Storing'
  <1>0. CASE Tick
    <2>1. clock \in 0..MaxClock /\ clock < MaxClock /\ clock' = clock + 1 /\ MaxClock \in Nat
      BY <1>0, DataAssumption DEF Tick, Storing
    <2>2. clock' \in 0..MaxClock
      BY ONLY <2>1
    <2> QED
      BY <1>0, <2>2 DEF Tick, callVars, storeVars, Storing
  <1>1. CASE UNCHANGED vars \/ \E slot \in Idem!Slots : Forget(slot)
    BY <1>1 DEF vars, Forget, callVars, storeVars, Storing
  <1>2. ASSUME NEW c \in Calls, Receive(c)
        PROVE  Storing'
    <2>1. PICK r \in Requests[c] :
            /\ Arrives(c, r)
            /\ \E copy \in Stored \cup {None, identity[c]} : identity' = [identity EXCEPT ![c] = copy]
      BY <1>2, Received
    <2>2. PICK copy \in Stored \cup {None, identity[c]} : identity' = [identity EXCEPT ![c] = copy]
      BY <2>1
    <2>3. /\ UNCHANGED <<records, pending, keys, draft, clock>>
          /\ \A d \in Calls : request[d] # None \/ d = c => request'[d] # None
      BY <2>1, RequestsAssumption DEF Arrives, storeVars, Asking, AllRequests
    <2>4. copy \in Identities \cup {None} /\ (copy # None => records[copy.id] # None)
      BY <2>2 DEF Storing, Stored
    <2> QED
      BY <2>2, <2>3, <2>4 DEF Storing
  <1>3. ASSUME NEW c \in Calls, Computes(c)
        PROVE  Storing'
    BY <1>3, Computed DEF Storing
  <1>4. ASSUME NEW c \in Calls, Turns(c)
        PROVE  Storing'
    BY <1>4 DEF Turns, Begin, Recall, Finish, GiveUp, callVars, storeVars, Storing
  <1>5. ASSUME NEW c \in Calls, Fail(c)
        PROVE  Storing'
    BY <1>5 DEF Fail, callVars, Storing
  <1>6. ASSUME NEW c \in Calls, ClaimCreation(c)
        PROVE  Storing'
    BY <1>6 DEF ClaimCreation, callVars, Storing
  <1>7. ASSUME NEW c \in Calls, CreateIdentity(c)
        PROVE  Storing'
    <2>1. /\ request[c] \in AllRequests /\ request[c].op = "provision"
          /\ UNCHANGED <<request, identity, records, pending, clock>>
      BY <1>7 DEF CreateIdentity, Executing, Asking, callVars
    <2>2. PICK id \in Ids, did \in Dids :
            /\ draft' = [draft EXCEPT ![c] =
                 [id |-> id, did |-> did, principal |-> request[c].principal,
                  service |-> request[c].service, status |-> "active", created |-> clock]]
            /\ keys' = keys \cup {did}
      BY <1>7 DEF CreateIdentity
    <2>3. [id |-> id, did |-> did, principal |-> request[c].principal,
           service |-> request[c].service, status |-> "active", created |-> clock] \in Identities
      BY <2>1, RequestsAssumption DEF Identities, Statuses, Storing
    <2> QED
      BY <2>1, <2>2, <2>3 DEF Storing
  <1>8. ASSUME NEW c \in Calls, PublishIdentity(c)
        PROVE  Storing'
    <2>1. /\ draft[c] \in Identities /\ records' = [records EXCEPT ![draft[c].id] = draft[c]]
          /\ pending' = [pending EXCEPT ![MyScope(c)] = None]
          /\ draft' = [draft EXCEPT ![c] = None]
          /\ UNCHANGED <<request, identity, keys, clock>>
      BY <1>8 DEF PublishIdentity, Storing, callVars
    <2>2. draft[c].id \in Ids
      BY <2>1 DEF Identities
    <2> QED
      BY <2>1, <2>2, NoneAssumption DEF Storing, Identities
  <1>9. ASSUME NEW c \in Calls, ApplyUpdate(c)
        PROVE  Storing'
    <2>1. /\ identity[c] \in Identities /\ records[identity[c].id] # None
          /\ request[c] \in AllRequests /\ request[c].op = "update"
          /\ UNCHANGED <<request, identity, draft, pending, keys, clock>>
      BY <1>9 DEF ApplyUpdate, Storing, Asking, callVars
    <2> DEFINE i == identity[c].id
               new == [records[i] EXCEPT !.status = request[c].to]
    <2>2. i \in Ids /\ records[i] \in Identities
      BY <2>1 DEF Identities, Storing
    <2>3. new \in Identities /\ new.id = records[i].id
      BY <2>1, <2>2, RequestsAssumption DEF Identities
    <2>4. records' = [records EXCEPT ![i] = new]
      BY <1>9, <2>2 DEF ApplyUpdate, Storing
    <2> HIDE DEF i, new
    <2> QED
      BY <2>1, <2>2, <2>3, <2>4, NoneAssumption DEF Storing
  <1> QED
    BY NextCases, <1>0, <1>1, <1>2, <1>3, <1>4, <1>5, <1>6, <1>7, <1>8, <1>9

\* Drafts, and the step that stores one.
LEMMA Publishes ==
  ASSUME Storing, Creations, NEW c \in Calls, PublishIdentity(c)
  PROVE  LET e == draft[c] IN
           /\ e \in Identities /\ e.id \in Ids /\ records[e.id] = None
           /\ records' = [records EXCEPT ![e.id] = e]
           /\ Scope(e) = MyScope(c) /\ pending[MyScope(c)] = c /\ MyScope(c) \in Scopes
           /\ e.did \in keys
           /\ \A id \in Ids : records[id] # None =>
                records[id].did # e.did /\ Scope(records[id]) # MyScope(c)
           /\ result' = [result EXCEPT ![c] = Shown(e)]
  <1>1. /\ draft[c] \in Identities /\ ~Taken(draft[c])
        /\ records' = [records EXCEPT ![draft[c].id] = draft[c]]
        /\ result' = [result EXCEPT ![c] = Shown(draft[c])]
    BY DEF PublishIdentity, Storing, Compute
  <1>2. /\ Scope(draft[c]) = MyScope(c) /\ pending[MyScope(c)] = c /\ draft[c].did \in keys
    BY DEF PublishIdentity, Creations
  <1>3. draft[c].id \in Ids /\ Scope(draft[c]) \in Scopes
    BY <1>1 DEF Identities, Scope, Scopes
  <1>4. \A id \in Ids : records[id] # None => Scope(records[id]) # MyScope(c)
    BY <1>2, <1>3, RequestsAssumption DEF Creations
  <1>5. \A id \in Ids : records[id] # None => records[id].did # draft[c].did
    BY <1>1 DEF Taken, Stored
  <1> QED
    BY <1>1, <1>2, <1>3, <1>4, <1>5 DEF Taken

LEMMA Updates ==
  ASSUME Storing, Storing', NEW c \in Calls, ApplyUpdate(c)
  PROVE  \A id \in Ids :
           /\ (records'[id] = None) = (records[id] = None)
           /\ records[id] # None =>
                Scope(records'[id]) = Scope(records[id]) /\ records'[id].did = records[id].did
  <1> DEFINE i == identity[c].id
             new == [records[i] EXCEPT !.status = request[c].to]
  <1>1. identity[c] \in Identities /\ records[i] # None
    BY DEF ApplyUpdate, Storing
  <1>2. i \in Ids /\ records[i] \in Identities
    BY <1>1 DEF Identities, Storing
  <1>3. records' = [records EXCEPT ![i] = new]
    BY <1>2 DEF ApplyUpdate, Storing
  <1>4. new.principal = records[i].principal /\ new.service = records[i].service /\ new.did = records[i].did
    BY <1>2 DEF Identities
  <1>5. records'[i] # None
    <2>1. identity' = identity
      BY DEF ApplyUpdate, callVars
    <2> QED
      BY <1>1, <2>1, NoneAssumption DEF Storing
  <1> QED
    BY <1>1, <1>2, <1>3, <1>4, <1>5 DEF Storing, Scope

LEMMA CreationsStep ==
  ASSUME Asking, Storing, Storing', Creations, [Next]_vars
  PROVE  Creations'
  <1>0. \A c \in Calls : request[c] # None /\ request[c].op = "provision" => MyScope(c) \in Scopes
    BY RequestsAssumption DEF Asking, MyScope, Scopes
  <1>1. CASE Quiet
    <2>1. ASSUME NEW scope \in Scopes, pending'[scope] # None
          PROVE  /\ CreatesFor(pending[scope], scope)'
                 /\ \A id \in Ids : records'[id] # None => Scope(records'[id]) # scope
      <3>1. pending' = pending /\ records' = records /\ pending[scope] \in Calls
        BY <1>1, <2>1 DEF Quiet, Storing
      <3>2. CreatesFor(pending[scope], scope) /\ Creating(pending[scope])
        BY <2>1, <3>1 DEF Creations, CreatesFor, Creating
      <3>3. request'[pending[scope]] = request[pending[scope]] /\ Executing(pending[scope], "provision")'
        BY <1>1, <3>1, <3>2 DEF Quiet, CreatesFor, Executing
      <3> QED
        BY <2>1, <3>1, <3>2, <3>3 DEF CreatesFor, MyScope, Creations
    <2>2. ASSUME NEW d \in Calls, draft'[d] # None
          PROVE  /\ request'[d] # None /\ request'[d].op = "provision"
                 /\ Scope(draft'[d]) = MyScope(d)' /\ pending'[MyScope(d)'] = d
                 /\ draft'[d].did \in keys'
      BY <1>1, <2>2 DEF Quiet, Creations, MyScope
    <2> QED
      BY <2>1, <2>2 DEF Creations
  <1>2. ASSUME NEW c \in Calls, ClaimCreation(c)
        PROVE  Creations'
    <2>1. /\ Executing(c, "provision") /\ InScope(MyScope(c)) = {} /\ pending[MyScope(c)] = None
          /\ pending' = [pending EXCEPT ![MyScope(c)] = c]
          /\ UNCHANGED <<request, asked, executing, result, records, keys, draft>>
      BY <1>2 DEF ClaimCreation, callVars, idemVars
    <2>2. \A id \in Ids : records[id] # None => Scope(records[id]) # MyScope(c)
      BY <2>1 DEF InScope, Stored
    <2>3. MyScope(c) \in Scopes /\ c # None
      BY <1>0, <2>1, RequestsAssumption DEF Executing
    <2>4. \A d \in Calls : draft[d] # None => MyScope(d) # MyScope(c) /\ MyScope(d) \in Scopes
      BY <1>0, <2>1, RequestsAssumption DEF Creations
    <2>5. ASSUME NEW scope \in Scopes, pending'[scope] # None
          PROVE  /\ CreatesFor(pending[scope], scope)'
                 /\ \A id \in Ids : records'[id] # None => Scope(records'[id]) # scope
      <3>1. CASE scope = MyScope(c)
        <4>1. pending'[scope] = c
          BY <2>1, <2>3, <3>1 DEF Storing
        <4> QED
          BY <2>1, <2>2, <2>3, <3>1, <4>1 DEF CreatesFor, Executing, MyScope, Idem!Slot
      <3>2. CASE scope # MyScope(c)
        <4>1. pending'[scope] = pending[scope]
          BY <2>1, <3>2 DEF Storing
        <4> QED
          BY <2>1, <2>5, <4>1 DEF Creations, CreatesFor, Executing, MyScope, Idem!Slot
      <3> QED
        BY <3>1, <3>2
    <2>6. ASSUME NEW d \in Calls, draft'[d] # None
          PROVE  /\ request'[d] # None /\ request'[d].op = "provision"
                 /\ Scope(draft'[d]) = MyScope(d)' /\ pending'[MyScope(d)'] = d
                 /\ draft'[d].did \in keys'
      <3>1. draft[d] # None /\ MyScope(d) # MyScope(c) /\ MyScope(d) \in Scopes
        BY <2>1, <2>4, <2>6
      <3>2. pending'[MyScope(d)] = pending[MyScope(d)]
        BY <2>1, <3>1 DEF Storing
      <3> QED
        BY <2>1, <3>1, <3>2 DEF Creations, MyScope
    <2> QED
      BY <2>5, <2>6 DEF Creations
  <1>3. ASSUME NEW c \in Calls, CreateIdentity(c)
        PROVE  Creations'
    <2>1. /\ Executing(c, "provision") /\ pending[MyScope(c)] = c
          /\ UNCHANGED <<request, asked, executing, result, records, pending>>
      BY <1>3 DEF CreateIdentity, Creating, callVars, idemVars
    <2>2. PICK new \in Ids, did \in Dids :
            /\ draft' = [draft EXCEPT ![c] =
                 [id |-> new, did |-> did, principal |-> request[c].principal,
                  service |-> request[c].service, status |-> "active", created |-> clock]]
            /\ keys' = keys \cup {did}
      BY <1>3 DEF CreateIdentity
    <2>3. /\ draft'[c].did = did /\ Scope(draft'[c]) = MyScope(c)
          /\ \A d \in Calls : d # c => draft'[d] = draft[d]
      BY <2>2 DEF Storing, Scope, MyScope
    <2>4. ASSUME NEW scope \in Scopes, pending'[scope] # None
          PROVE  /\ CreatesFor(pending[scope], scope)'
                 /\ \A id \in Ids : records'[id] # None => Scope(records'[id]) # scope
      BY <2>1, <2>4 DEF Creations, CreatesFor, Executing, MyScope, Idem!Slot
    <2>5. ASSUME NEW d \in Calls, draft'[d] # None
          PROVE  /\ request'[d] # None /\ request'[d].op = "provision"
                 /\ Scope(draft'[d]) = MyScope(d)' /\ pending'[MyScope(d)'] = d
                 /\ draft'[d].did \in keys'
      <3>1. CASE d = c
        BY <2>1, <2>2, <2>3, <3>1 DEF Executing, MyScope
      <3>2. CASE d # c
        BY <2>1, <2>2, <2>3, <2>5, <3>2 DEF Creations, MyScope
      <3> QED
        BY <3>1, <3>2
    <2> QED
      BY <2>4, <2>5 DEF Creations
  <1>4. ASSUME NEW c \in Calls, PublishIdentity(c)
        PROVE  Creations'
    <2> DEFINE e == draft[c]
    <2>1. /\ pending' = [pending EXCEPT ![MyScope(c)] = None]
          /\ draft' = [draft EXCEPT ![c] = None]
          /\ UNCHANGED <<request, asked, executing, keys>>
      BY <1>4 DEF PublishIdentity, callVars, idemVars
    <2>2. /\ e.id \in Ids /\ records' = [records EXCEPT ![e.id] = e]
          /\ Scope(e) = MyScope(c) /\ pending[MyScope(c)] = c /\ MyScope(c) \in Scopes
          /\ \A d \in Calls : d # c => result'[d] = result[d]
      BY <1>4, Publishes DEF Asking
    <2>3. ASSUME NEW scope \in Scopes, pending'[scope] # None
          PROVE  /\ CreatesFor(pending[scope], scope)'
                 /\ \A id \in Ids : records'[id] # None => Scope(records'[id]) # scope
      <3>1. scope # MyScope(c) /\ pending'[scope] = pending[scope] /\ pending[scope] \in Calls
        BY <2>1, <2>2, <2>3 DEF Storing
      <3>2. CreatesFor(pending[scope], scope)
        BY <2>3, <3>1 DEF Creations
      <3>3. pending[scope] # c
        BY <3>1, <3>2 DEF CreatesFor
      <3>4. \A id \in Ids : records'[id] # None => Scope(records'[id]) # scope
        BY <2>2, <2>3, <3>1 DEF Creations, Storing
      <3> QED
        BY <2>1, <2>2, <3>1, <3>2, <3>3, <3>4 DEF CreatesFor, Executing, MyScope, Idem!Slot
    <2>4. ASSUME NEW d \in Calls, draft'[d] # None
          PROVE  /\ request'[d] # None /\ request'[d].op = "provision"
                 /\ Scope(draft'[d]) = MyScope(d)' /\ pending'[MyScope(d)'] = d
                 /\ draft'[d].did \in keys'
      <3>1. d # c /\ draft'[d] = draft[d] /\ draft[d] # None
        BY <2>1, <2>4 DEF Storing
      <3>2. pending[MyScope(d)] = d /\ MyScope(d) \in Scopes /\ MyScope(d) # MyScope(c)
        BY <1>0, <2>2, <3>1 DEF Creations
      <3>3. pending'[MyScope(d)] = d
        BY <2>1, <3>2 DEF Storing
      <3> QED
        BY <2>1, <3>1, <3>3 DEF Creations, MyScope
    <2> QED
      BY <2>3, <2>4 DEF Creations
  <1>5. ASSUME NEW c \in Calls, Fail(c)
        PROVE  Creations'
    <2>1. /\ pending' = IF request[c].op = "provision" /\ Creating(c)
                        THEN [pending EXCEPT ![MyScope(c)] = None] ELSE pending
          /\ draft' = [draft EXCEPT ![c] = None]
          /\ UNCHANGED <<request, asked, result, records, keys>>
      BY <1>5 DEF Fail, callVars, Idem!Fail
    <2>2. \A d \in Calls : d # c /\ Executing(d, "provision") => Executing(d, "provision")'
      BY <1>5, <2>1 DEF Fail, Idem!Fail, Executing, Asking, Idem!Slot
    <2>3. ASSUME NEW scope \in Scopes, pending'[scope] # None
          PROVE  /\ CreatesFor(pending[scope], scope)'
                 /\ \A id \in Ids : records'[id] # None => Scope(records'[id]) # scope
      <3>1. pending'[scope] = pending[scope] /\ pending[scope] \in Calls
        BY <2>1, <2>3 DEF Storing
      <3>2. /\ CreatesFor(pending[scope], scope)
            /\ \A id \in Ids : records'[id] # None => Scope(records'[id]) # scope
        BY <2>1, <2>3, <3>1 DEF Creations
      <3>3. pending[scope] # c
        BY <2>1, <2>3, <3>1, <3>2 DEF CreatesFor, Executing, Creating, Storing
      <3> QED
        BY <2>1, <2>2, <3>1, <3>2, <3>3 DEF CreatesFor, MyScope
    <2>4. ASSUME NEW d \in Calls, draft'[d] # None
          PROVE  /\ request'[d] # None /\ request'[d].op = "provision"
                 /\ Scope(draft'[d]) = MyScope(d)' /\ pending'[MyScope(d)'] = d
                 /\ draft'[d].did \in keys'
      <3>1. d # c /\ draft'[d] = draft[d] /\ draft[d] # None
        BY <2>1, <2>4 DEF Storing
      <3>2. pending[MyScope(d)] = d /\ MyScope(d) \in Scopes
        BY <1>0, <3>1 DEF Creations
      <3>3. pending'[MyScope(d)] = d
        BY <2>1, <3>1, <3>2 DEF Storing, Creating
      <3> QED
        BY <2>1, <3>1, <3>3 DEF Creations, MyScope
    <2> QED
      BY <2>3, <2>4 DEF Creations
  <1>6. ASSUME NEW c \in Calls, ApplyUpdate(c)
        PROVE  Creations'
    <2>1. UNCHANGED <<request, asked, executing, result, pending, draft, keys>>
      BY <1>6 DEF ApplyUpdate, callVars, idemVars
    <2>2. \A id \in Ids : records'[id] # None => records[id] # None /\ Scope(records'[id]) = Scope(records[id])
      BY <1>6, Updates
    <2> QED
      BY <2>1, <2>2 DEF Creations, CreatesFor, Executing, MyScope, Idem!Slot
  <1> QED
    BY NextCases, QuietSteps, <1>1, <1>2, <1>3, <1>4, <1>5, <1>6

LEMMA DistinctStep ==
  ASSUME Asking, Storing, Storing', Creations, Distinct, [Next]_vars
  PROVE  Distinct'
  <1>1. CASE Quiet
    BY <1>1 DEF Quiet, Distinct
  <1>2. ASSUME NEW c \in Calls, ClaimCreation(c) \/ Fail(c)
        PROVE  Distinct'
    BY <1>2 DEF ClaimCreation, Fail, Distinct
  <1>3. ASSUME NEW c \in Calls, CreateIdentity(c)
        PROVE  Distinct'
    BY <1>3 DEF CreateIdentity, Distinct
  <1>4. ASSUME NEW c \in Calls, PublishIdentity(c)
        PROVE  Distinct'
    <2> DEFINE e == draft[c]
    <2>1. keys' = keys
      BY <1>4 DEF PublishIdentity
    <2>2. /\ e.id \in Ids /\ records[e.id] = None /\ records' = [records EXCEPT ![e.id] = e]
          /\ Scope(e) = MyScope(c) /\ e.did \in keys
          /\ \A id \in Ids : records[id] # None =>
               records[id].did # e.did /\ Scope(records[id]) # MyScope(c)
      BY <1>4, Publishes
    <2>3. \A id \in Ids : records'[id] = IF id = e.id THEN e ELSE records[id]
      BY <2>2 DEF Storing
    <2> QED
      BY <2>1, <2>2, <2>3 DEF Distinct
  <1>5. ASSUME NEW c \in Calls, ApplyUpdate(c)
        PROVE  Distinct'
    <2>1. keys' = keys
      BY <1>5 DEF ApplyUpdate
    <2> QED
      BY <1>5, <2>1, Updates DEF Distinct
  <1> QED
    BY NextCases, QuietSteps, <1>1, <1>2, <1>3, <1>4, <1>5

\* The inductive invariant.
IdentityInv == Asking /\ Storing /\ Creations /\ Distinct

LEMMA IdentityInitially ==
  ASSUME Init
  PROVE  IdentityInv
  <1>1. Asking
    BY DEF Init, Idem!Init, Asking
  <1>2. Storing
    BY DataAssumption DEF Init, Storing
  <1>3. Creations /\ Distinct
    BY DEF Init, Creations, Distinct
  <1> QED
    BY <1>1, <1>2, <1>3 DEF IdentityInv

\* Every step keeps identities by their ids, creations by their scopes.
THEOREM IdentityInvariant == Spec => []IdentityInv
  <1>1. Init => IdentityInv
    BY IdentityInitially
  <1>2. IdentityInv /\ [Next]_vars => IdentityInv'
    BY AskingStep, StoringStep, CreationsStep, DistinctStep DEF IdentityInv
  <1> QED
    BY <1>1, <1>2, PTL DEF Spec

\* Two identities never share a scope, an Agent DID or a key, however many
\* provisions race and whatever ids and DIDs the generators draw.
THEOREM IdentitiesStayDistinct == Spec => []IdentitiesAreDistinct
  <1>1. IdentityInv => IdentitiesAreDistinct
    <2> SUFFICES ASSUME IdentityInv PROVE IdentitiesAreDistinct
      OBVIOUS
    <2>1. \A s \in Stored : \E id \in Ids : s = records[id] /\ records[id] # None
      BY DEF Stored
    <2> QED
      BY <2>1 DEF IdentityInv, Creations, Distinct, IdentitiesAreDistinct, InScope
  <1> QED
    BY <1>1, IdentityInvariant, PTL

-----------------------------------------------------------------------------
(* What callers are told.                                                   *)

\* A response that tells a Provision of an identity names a stored one of the
\* call's own scope.
Names(c, r) ==
  request[c].op = "provision" /\ r.kind = "identity" =>
    r.id \in Ids /\ records[r.id] # None /\ Scope(records[r.id]) = MyScope(c)

Answered ==
  /\ DOMAIN memory = Idem!Slots /\ DOMAIN answer = Calls
  /\ \A c \in Calls : result[c] # None => Names(c, result[c])
  /\ \A c \in Calls : reply[c] # None => request[c] # None /\ Names(c, reply[c])
  /\ \A slot \in Idem!Slots : memory[slot] # None =>
       /\ memory[slot].response \in Calls /\ result[memory[slot].response] # None
       /\ memory[slot].input = asked[memory[slot].response]

\* Identities are never removed, and never change hands.
LEMMA RecordsStay ==
  ASSUME IdentityInv, Storing', [Next]_vars
  PROVE  \A id \in Ids : records[id] # None =>
           /\ records'[id] # None /\ Scope(records'[id]) = Scope(records[id])
           /\ records'[id].did = records[id].did
  <1>1. CASE Quiet
    BY <1>1 DEF Quiet
  <1>2. ASSUME NEW c \in Calls, ClaimCreation(c) \/ Fail(c) \/ CreateIdentity(c)
        PROVE  UNCHANGED records
    BY <1>2 DEF ClaimCreation, Fail, CreateIdentity
  <1>3. ASSUME NEW c \in Calls, PublishIdentity(c), NEW id \in Ids, records[id] # None
        PROVE  records'[id] = records[id]
    <2>1. records[draft[c].id] = None /\ records' = [records EXCEPT ![draft[c].id] = draft[c]]
      BY <1>3, Publishes DEF IdentityInv
    <2> QED
      BY <1>3, <2>1 DEF IdentityInv, Storing
  <1>4. ASSUME NEW c \in Calls, ApplyUpdate(c), NEW id \in Ids, records[id] # None
        PROVE  /\ records'[id] # None /\ Scope(records'[id]) = Scope(records[id])
               /\ records'[id].did = records[id].did
    BY <1>4, Updates DEF IdentityInv
  <1> QED
    BY NextCases, QuietSteps, <1>1, <1>2, <1>3, <1>4 DEF IdentityInv

\* What was told stays true.
LEMMA NamesStay ==
  ASSUME IdentityInv, Storing', [Next]_vars, NEW c \in Calls, request'[c] = request[c],
         NEW r, Names(c, r)
  PROVE  /\ request'[c].op = "provision" /\ r.kind = "identity" =>
              /\ r.id \in Ids /\ records'[r.id] # None
              /\ Scope(records'[r.id]) = <<request'[c].principal, request'[c].service>>
  BY RecordsStay DEF Names, MyScope

\* A remembered Provision that matches is the same request.
LEMMA SameRequest ==
  ASSUME Asking, NEW c \in Calls, NEW d \in Calls, asked[c] # None, asked[d] # None,
         request[c].op = "provision", Idem!Matches(asked[d], asked[c])
  PROVE  request[d] = request[c]
  <1>1. /\ request[c] \in AllRequests /\ request[d] \in AllRequests
        /\ asked[c] = InputOf(request[c]) /\ asked[d] = InputOf(request[d])
        /\ request[c].op \in Idempotent /\ request[d].op \in Idempotent
    BY DEF Asking
  <1>2. request[d].op = "provision"
    BY <1>1, InputFacts DEF Idem!Matches
  <1>3. asked[c].canonical = request[c] /\ asked[d].canonical = request[d]
    BY <1>1, <1>2, InputFacts
  <1> QED
    BY <1>1, <1>3, RequestsAssumption DEF Idem!Matches

LEMMA AnsweredStep ==
  ASSUME IdentityInv, IdentityInv', Answered, [Next]_vars
  PROVE  Answered'
  <1> USE DEF IdentityInv
  <1>0. /\ \A c \in Calls : request'[c] = request[c] /\ result'[c] = result[c] /\ Names(c, result[c])
             => Names(c, result[c])'
        /\ \A c \in Calls : request'[c] = request[c] /\ reply'[c] = reply[c] /\ Names(c, reply[c])
             => Names(c, reply[c])'
    BY NamesStay DEF Names, MyScope
  <1>1. CASE UNCHANGED vars \/ Tick \/ \E slot \in Idem!Slots : Forget(slot)
    <2>1. UNCHANGED <<request, result, reply, records, asked, answer>>
      BY <1>1 DEF vars, Tick, Forget, Idem!Forget, callVars, storeVars, idemVars
    <2>2. /\ DOMAIN memory' = Idem!Slots
          /\ \A slot \in Idem!Slots : memory'[slot] \in {memory[slot], None}
      BY <1>1 DEF vars, Tick, Forget, Idem!Forget, idemVars, Answered
    <2> QED
      BY <2>1, <2>2 DEF Answered, Names, MyScope
  <1>2. ASSUME NEW c \in Calls, Receive(c)
        PROVE  Answered'
    <2>1. PICK r \in Requests[c] :
            /\ Arrives(c, r)
            /\ \/ r.op \in Idempotent /\ Idem!Ask(c, InputOf(r)) /\ UNCHANGED reply
               \/ UNCHANGED idemVars
            /\ \A d \in Calls : d # c => reply'[d] = reply[d]
            /\ r.op = "provision" =>
                 reply' = reply \/ reply' = [reply EXCEPT ![c] = Problem("not_recognized")]
      BY <1>2, Received
    <2>2. /\ request[c] = None /\ request' = [request EXCEPT ![c] = r] /\ result' = result
          /\ request'[c] = r /\ r # None /\ \A d \in Calls : d # c => request'[d] = request[d]
      BY <2>1, RequestsAssumption DEF Arrives, Asking, AllRequests
    <2>3. UNCHANGED <<memory, answer>> /\ \A d \in Calls : d # c => asked'[d] = asked[d]
      BY <2>1 DEF Idem!Ask, idemVars, Asking
    <2>4. result[c] = None /\ reply[c] = None
      BY <2>2 DEF Asking, Answered
    <2>5. \A d \in Calls : result'[d] # None => Names(d, result[d])'
      BY <1>0, <2>2, <2>4 DEF Answered
    <2>6. ASSUME NEW d \in Calls, reply'[d] # None
          PROVE  request'[d] # None /\ Names(d, reply[d])'
      <3>1. CASE d # c
        BY <1>0, <2>1, <2>2, <2>6, <3>1 DEF Answered
      <3>2. CASE d = c
        BY <2>1, <2>2, <2>4, <2>6, <3>2 DEF Names, Problem, Asking
      <3> QED
        BY <3>1, <3>2
    <2>7. \A slot \in Idem!Slots : memory[slot] # None => memory[slot].response # c
      BY <2>4 DEF Answered
    <2> QED
      BY <2>2, <2>3, <2>5, <2>6, <2>7 DEF Answered
  <1>3. ASSUME NEW c \in Calls, Computes(c)
        PROVE  Answered'
    <2>1. PICK r : result' = [result EXCEPT ![c] = r]
      BY <1>3, Computed DEF Compute
    <2>2. result[c] = None /\ UNCHANGED <<request, reply, records, asked, memory, answer>>
      BY <1>3, Computed
    <2>3. \A d \in Calls : d # c => result'[d] = result[d]
      BY <2>1 DEF Asking
    <2>4. ASSUME request[c].op = "provision", result'[c].kind = "identity"
          PROVE  \E s \in InScope(MyScope(c)) : result'[c] = Shown(s)
      <3>1. FindIdentity(c) \/ ServiceUnresolved(c)
        BY <1>3, <2>4 DEF Computes, SignRefused, SignHandled, Sign, Verify, VerifyUnrecognized, Executing
      <3> QED
        BY <2>4, <3>1 DEF FindIdentity, ServiceUnresolved, Compute, Problem, Asking
    <2>5. Names(c, result[c])'
      <3>1. SUFFICES ASSUME request[c].op = "provision", result'[c].kind = "identity"
                     PROVE  /\ result'[c].id \in Ids /\ records[result'[c].id] # None
                            /\ Scope(records[result'[c].id]) = MyScope(c)
        BY <2>2 DEF Names, MyScope
      <3>2. PICK s \in InScope(MyScope(c)) : result'[c] = Shown(s)
        BY <2>4, <3>1
      <3>3. PICK id \in Ids : s = records[id] /\ records[id] # None
        BY <3>2 DEF InScope, Stored
      <3> QED
        BY <3>2, <3>3 DEF InScope, Shown, Storing
    <2>6. \A slot \in Idem!Slots : memory[slot] # None => memory[slot].response # c
      BY <2>2 DEF Answered
    <2>7. \A d \in Calls : result'[d] # None => Names(d, result[d])'
      BY <1>0, <2>2, <2>3, <2>5 DEF Answered
    <2>8. \A d \in Calls : reply'[d] # None => request'[d] # None /\ Names(d, reply[d])'
      BY <1>0, <2>2 DEF Answered
    <2> QED
      BY <2>2, <2>3, <2>6, <2>7, <2>8 DEF Answered
  <1>4. ASSUME NEW c \in Calls, PublishIdentity(c)
        PROVE  Answered'
    <2>1. /\ UNCHANGED <<request, reply, asked, memory, answer>> /\ result[c] = None
          /\ draft[c].id \in Ids /\ records' = [records EXCEPT ![draft[c].id] = draft[c]]
          /\ draft[c] # None /\ Scope(draft[c]) = MyScope(c)
          /\ result' = [result EXCEPT ![c] = Shown(draft[c])]
      BY <1>4, Publishes DEF PublishIdentity, Executing, callVars, idemVars
    <2>2. Names(c, result[c])'
      BY <2>1 DEF Names, Shown, MyScope, Asking, Storing
    <2>3. \A d \in Calls : d # c => result'[d] = result[d]
      BY <2>1 DEF Asking
    <2>4. \A slot \in Idem!Slots : memory[slot] # None => memory[slot].response # c
      BY <2>1 DEF Answered
    <2>5. \A d \in Calls : result'[d] # None => Names(d, result[d])'
      BY <1>0, <2>1, <2>2, <2>3 DEF Answered
    <2>6. \A d \in Calls : reply'[d] # None => request'[d] # None /\ Names(d, reply[d])'
      BY <1>0, <2>1 DEF Answered
    <2> QED
      BY <2>1, <2>3, <2>4, <2>5, <2>6 DEF Answered
  <1>5. ASSUME NEW c \in Calls, Turns(c)
        PROVE  Answered'
    <2>1. /\ UNCHANGED <<request, result, records, asked>>
          /\ \A d \in Calls : d # c => reply'[d] = reply[d]
          /\ DOMAIN answer' = DOMAIN answer
      BY <1>5 DEF Turns, Begin, Recall, Finish, GiveUp, Return, callVars, storeVars, Asking,
                  Idem!Begin, Idem!Recall, Idem!Finish, Idem!GiveUp
    <2>2. /\ DOMAIN memory' = DOMAIN memory
          /\ \A slot \in Idem!Slots : memory'[slot] # None =>
               \/ memory'[slot] = memory[slot]
               \/ result[c] # None /\ memory'[slot] = [input |-> asked[c], response |-> c]
      <3>1. CASE Finish(c)
        BY <3>1 DEF Finish, Idem!Finish, Answered
      <3>2. CASE Begin(c) \/ Recall(c) \/ GiveUp(c)
        BY <3>2 DEF Begin, Recall, GiveUp, Idem!Begin, Idem!Recall, Idem!GiveUp
      <3> QED
        BY <1>5, <3>1, <3>2 DEF Turns
    <2>3. Recall(c) \/ Finish(c) \/ GiveUp(c) => asked[c] # None /\ request[c] # None
      <3>1. Recall(c) => asked[c] # None
        BY DEF Recall, Idem!Recall, Idem!Waiting
      <3>2. Finish(c) => asked[c] # None
        BY DEF Finish, Idem!Finish, Idem!Waiting
      <3>3. GiveUp(c) => asked[c] # None
        BY DEF GiveUp, Idem!GiveUp, Idem!Waiting
      <3> QED
        BY <3>1, <3>2, <3>3 DEF Asking
    <2>4. reply'[c] # None => request[c] # None /\ Names(c, reply'[c])
      <3>1. CASE Begin(c)
        BY <3>1 DEF Begin, Answered
      <3>2. CASE Finish(c)
        BY <2>3, <3>2 DEF Finish, Return, Answered, Asking
      <3>3. CASE GiveUp(c)
        BY <2>3, <3>3 DEF GiveUp, Return, Error, Names, Asking
      <3>4. CASE Recall(c)
        <4> DEFINE slot == Idem!Slot(asked[c])
        <4>1. /\ asked[c] # None /\ memory[slot] # None /\ slot \in Idem!Slots
              /\ answer'[c] = Idem!AnswerFrom(memory[slot], asked[c])
              /\ request[c] # None
              /\ reply'[c] = IF answer'[c].state = "replayed" THEN result[answer'[c].response]
                             ELSE Problem("idempotency_conflict")
          BY <3>4 DEF Recall, Return, Idem!Recall, Idem!Waiting, Asking, Answered
        <4> DEFINE d == memory[slot].response
        <4>2. /\ d \in Calls /\ result[d] # None /\ memory[slot].input = asked[d]
              /\ asked[d] # None
          BY <4>1 DEF Answered, Asking
        <4> HIDE DEF slot, d
        <4>3. CASE Idem!Matches(asked[d], asked[c]) /\ request[c].op = "provision"
          <5>1. request[d] = request[c]
            BY <4>1, <4>2, <4>3, SameRequest
          <5>2. Names(d, result[d])
            BY <4>2 DEF Answered
          <5>3. reply'[c] = result[d]
            BY <4>1, <4>2, <4>3 DEF Idem!AnswerFrom, Idem!Replayed, d
          <5> QED
            BY <4>1, <5>1, <5>2, <5>3 DEF Names, MyScope
        <4>4. CASE ~Idem!Matches(asked[d], asked[c])
          BY <4>1, <4>2, <4>4 DEF Idem!AnswerFrom, Idem!Conflict, Problem, Names, d
        <4> QED
          BY <4>1, <4>3, <4>4 DEF Names
      <3> QED
        BY <1>5, <3>1, <3>2, <3>3, <3>4 DEF Turns
    <2>5. \A d \in Calls : result'[d] # None => Names(d, result[d])'
      BY <1>0, <2>1 DEF Answered
    <2>6. \A d \in Calls : reply'[d] # None => request'[d] # None /\ Names(d, reply[d])'
      BY <1>0, <2>1, <2>4 DEF Answered, Names, MyScope
    <2> QED
      BY <2>1, <2>2, <2>5, <2>6 DEF Answered
  <1>6. ASSUME NEW c \in Calls, Fail(c)
        PROVE  Answered'
    <2>1. /\ UNCHANGED <<request, result, records, asked, memory>>
          /\ asked[c] # None /\ DOMAIN answer' = DOMAIN answer
          /\ reply' = [reply EXCEPT ![c] = Error]
      BY <1>6 DEF Fail, Return, callVars, Idem!Fail, Idem!Waiting
    <2>2. \A d \in Calls : reply'[d] # None => request'[d] # None /\ Names(d, reply[d])'
      BY <1>0, <2>1 DEF Answered, Asking, Names, Error
    <2>3. \A d \in Calls : result'[d] # None => Names(d, result[d])'
      BY <1>0, <2>1 DEF Answered
    <2> QED
      BY <2>1, <2>2, <2>3 DEF Answered
  <1>7. ASSUME NEW c \in Calls, ClaimCreation(c) \/ CreateIdentity(c)
        PROVE  Answered'
    <2>1. UNCHANGED <<request, result, reply, records, asked, answer, memory>>
      BY <1>7 DEF ClaimCreation, CreateIdentity, callVars, idemVars
    <2> QED
      BY <2>1 DEF Answered, Names, MyScope
  <1>8. ASSUME NEW c \in Calls, ApplyUpdate(c)
        PROVE  Answered'
    <2>1. /\ UNCHANGED <<request, result, asked, memory, answer>>
          /\ identity[c] # None /\ request[c] # None /\ request[c].op = "update"
          /\ \A d \in Calls : d # c => reply'[d] = reply[d]
      BY <1>8 DEF ApplyUpdate, Return, callVars, idemVars, Asking, Storing
    <2>2. \A d \in Calls : reply'[d] # None => request'[d] # None /\ Names(d, reply[d])'
      BY <1>0, <2>1 DEF Answered, Names
    <2>3. \A d \in Calls : result'[d] # None => Names(d, result[d])'
      BY <1>0, <2>1 DEF Answered
    <2> QED
      BY <2>1, <2>2, <2>3 DEF Answered
  <1> QED
    BY NextCases, <1>1, <1>2, <1>3, <1>4, <1>5, <1>6, <1>7, <1>8

\* Whoever provisions for a principal and a Service is told of one identity,
\* under every idempotency key and on every retry, and it stays stored.
THEOREM ProvisionsAreStable == Spec => []ProvisionIsStable
  <1>1. Init => Answered
    BY DEF Init, Idem!Init, Answered
  <1>2. IdentityInv /\ IdentityInv' /\ Answered /\ [Next]_vars => Answered'
    BY AnsweredStep
  <1>3. IdentityInv /\ Answered => ProvisionIsStable
    <2> SUFFICES ASSUME IdentityInv, Answered PROVE ProvisionIsStable
      OBVIOUS
    <2>1. \A c \in ProvisionAnswers :
            /\ reply[c].id \in Ids /\ records[reply[c].id] # None
            /\ Scope(records[reply[c].id]) = MyScope(c)
      BY DEF ProvisionAnswers, Answered, Names
    <2>2. \A c \in ProvisionAnswers, d \in ProvisionAnswers :
            MyScope(c) = MyScope(d) => reply[c].id = reply[d].id
      BY <2>1 DEF IdentityInv, Distinct
    <2> QED
      BY <2>1, <2>2 DEF ProvisionIsStable
  <1> QED
    BY <1>1, <1>2, <1>3, IdentityInvariant, PTL DEF Spec

-----------------------------------------------------------------------------
(* Hosted verification.                                                     *)

\* What was asked and computed stays.
LEMMA CallsEndure ==
  ASSUME Asking, Storing, [Next]_vars, NEW c \in Calls
  PROVE  /\ request[c] # None => request'[c] = request[c]
         /\ asked[c] # None => asked'[c] = asked[c]
         /\ \/ result'[c] = result[c]
            \/ result[c] = None /\ (Computes(c) \/ PublishIdentity(c))
  <1>1. CASE UNCHANGED vars \/ Tick \/ \E slot \in Idem!Slots : Forget(slot)
    BY <1>1 DEF vars, Tick, Forget, Idem!Forget, callVars, idemVars
  <1>2. ASSUME NEW d \in Calls, Receive(d)
        PROVE  /\ request[c] # None => request'[c] = request[c]
               /\ asked[c] # None => asked'[c] = asked[c]
               /\ result'[c] = result[c]
    <2>1. PICK r \in Requests[d] :
            Arrives(d, r) /\ (Idem!Ask(d, InputOf(r)) \/ UNCHANGED idemVars)
      BY <1>2, Received
    <2>2. asked[c] # None => asked'[c] = asked[c]
      BY <2>1 DEF Idem!Ask, idemVars, Asking
    <2> QED
      BY <2>1, <2>2 DEF Arrives, Asking
  <1>3. ASSUME NEW d \in Calls, Computes(d) \/ PublishIdentity(d)
        PROVE  /\ UNCHANGED <<request, asked>> /\ result[d] = None
               /\ c # d => result'[c] = result[c]
    BY <1>3, Computed DEF Compute, PublishIdentity, Executing, callVars, idemVars, Asking
  <1>4. ASSUME NEW d \in Calls, Turns(d)
        PROVE  UNCHANGED <<request, asked, result>>
    BY <1>4 DEF Turns, Begin, Recall, Finish, GiveUp, callVars, Idem!Begin, Idem!Recall,
                Idem!Finish, Idem!GiveUp
  <1>5. ASSUME NEW d \in Calls, ClaimCreation(d) \/ CreateIdentity(d) \/ Fail(d) \/ ApplyUpdate(d)
        PROVE  UNCHANGED <<request, asked, result>>
    BY <1>5 DEF ClaimCreation, CreateIdentity, Fail, ApplyUpdate, Idem!Fail, callVars, idemVars
  <1> QED
    BY NextCases, <1>1, <1>2, <1>3, <1>4, <1>5

\* Which step computes which kind of response.
LEMMA Kinds ==
  ASSUME Asking, NEW c \in Calls, Computes(c) \/ PublishIdentity(c)
  PROVE  /\ result'[c].kind \in {"identity", "assertion", "verified", "problem", "pending", "unrecognized"}
         /\ result'[c].kind = "assertion" => Sign(c)
         /\ result'[c].kind = "verified" => Verify(c)
         /\ result'[c].kind = "identity" => FindIdentity(c) \/ PublishIdentity(c)
  <1>1. CASE ServiceUnresolved(c) \/ SignRefused(c) \/ SignHandled(c)
    BY <1>1 DEF ServiceUnresolved, SignRefused, SignHandled, validateSignResult, Compute, Problem,
                Pending, Asking
  <1>2. CASE FindIdentity(c) \/ PublishIdentity(c)
    BY <1>2 DEF FindIdentity, PublishIdentity, Compute, Shown, Asking
  <1>3. CASE Sign(c)
    BY <1>3 DEF Sign, Assertion, Compute, Asking
  <1>4. CASE Verify(c) \/ VerifyUnrecognized(c)
    BY <1>4 DEF Verify, VerifyUnrecognized, Unrecognized, Compute, Asking
  <1> QED
    BY <1>1, <1>2, <1>3, <1>4 DEF Computes

\* An assertion keeps its claims.
LEMMA PresentedEndures ==
  ASSUME Asking, Storing, [Next]_vars, NEW c \in Calls, request[c] # None,
         request[c].op = "verify", Presented(request[c]) # None
  PROVE  Presented(request[c])' = Presented(request[c])
  <1>1. request[c].of \in Calls
    BY RequestsAssumption DEF Asking
  <1>2. request'[c] = request[c] /\ result'[request[c].of] = result[request[c].of]
    BY <1>1, CallsEndure DEF Presented
  <1> QED
    BY <1>2 DEF Presented

\* A call reads an identity and enters the idempotency store when it is made.
LEMMA CopiesEndure ==
  ASSUME [Next]_vars, \A c \in Calls : ~Receive(c)
  PROVE  UNCHANGED <<identity, asked>>
  <1>1. CASE UNCHANGED vars \/ Tick \/ \E slot \in Idem!Slots : Forget(slot)
    BY <1>1 DEF vars, Tick, Forget, Idem!Forget, callVars, idemVars
  <1>2. ASSUME NEW c \in Calls, Computes(c)
        PROVE  UNCHANGED <<identity, asked>>
    BY <1>2, Computed
  <1>3. ASSUME NEW c \in Calls, Turns(c)
        PROVE  UNCHANGED <<identity, asked>>
    BY <1>3 DEF Turns, Begin, Recall, Finish, GiveUp, callVars, Idem!Begin, Idem!Recall,
                Idem!Finish, Idem!GiveUp
  <1>4. ASSUME NEW c \in Calls, ClaimCreation(c) \/ CreateIdentity(c) \/ PublishIdentity(c)
                                \/ Fail(c) \/ ApplyUpdate(c)
        PROVE  UNCHANGED <<identity, asked>>
    BY <1>4 DEF ClaimCreation, CreateIdentity, PublishIdentity, Fail, ApplyUpdate, Idem!Fail,
                callVars, idemVars
  <1> QED
    BY NextCases, <1>1, <1>2, <1>3, <1>4

\* A Sign that was let in is valid and of the caller's identity for that
\* Service; a Verify presents what was signed.
Admitted ==
  \A c \in Calls : asked[c] # None =>
    /\ request[c].op = "sign" =>
         ValidSignRequest(request[c]) /\ identity[c] # None /\ Scope(identity[c]) = MyScope(c)
    /\ request[c].op = "verify" => identity[c] # None /\ Presented(request[c]) # None

LEMMA AdmittedStep ==
  ASSUME Asking, Storing, Admitted, [Next]_vars
  PROVE  Admitted'
  <1>1. ASSUME NEW c \in Calls, asked[c] # None, request[c] # None, identity'[c] = identity[c]
        PROVE  /\ request'[c].op = "sign" =>
                    /\ ValidSignRequest(request'[c]) /\ identity'[c] # None
                    /\ Scope(identity'[c]) = MyScope(c)'
               /\ request'[c].op = "verify" => identity'[c] # None /\ Presented(request[c])' # None
    BY <1>1, CallsEndure, PresentedEndures DEF Admitted, MyScope
  <1>2. ASSUME NEW c \in Calls, Receive(c)
        PROVE  Admitted'
    <2>1. PICK r \in Requests[c], ok \in BOOLEAN :
            \/ ReceiveProvision(c, r, ok) \/ ReceiveSign(c, r, ok) \/ ReceiveVerify(c, r, ok)
            \/ GetIdentity(c, r, ok) \/ GetDIDDocument(c, r) \/ List(c, r, ok)
            \/ ReceiveUpdate(c, r, ok)
      BY <1>2 DEF Receive
    <2>2. /\ request[c] = None /\ request' = [request EXCEPT ![c] = r]
          /\ UNCHANGED <<result, records>>
      BY <2>1 DEF Arrives, storeVars, ReceiveProvision, ReceiveSign, ReceiveVerify, GetIdentity,
                  Read, GetDIDDocument, List, ReceiveUpdate
    <2>3. asked[c] = None
      BY <2>2 DEF Asking
    <2>4. ASSUME NEW d \in Calls, d # c
          PROVE  asked'[d] = asked[d] /\ identity'[d] = identity[d]
      BY <1>2, <2>4, Received DEF Idem!Ask, idemVars, Asking, Storing
    <2>5. ASSUME asked'[c] # None, r.op = "sign"
          PROVE  ValidSignRequest(r) /\ identity'[c] # None /\ Scope(identity'[c]) = <<r.principal, r.service>>
      <3>1. ReceiveSign(c, r, ok)
        BY <2>1, <2>5 DEF ReceiveProvision, ReceiveVerify, GetIdentity, GetDIDDocument, List, ReceiveUpdate
      <3>2. asked' # asked
        BY <2>3, <2>5
      <3>3. /\ ValidSignRequest(r) /\ Recognized(r, ok) # None /\ Recognized(r, ok).service = r.service
            /\ identity' = [identity EXCEPT ![c] = Recognized(r, ok)]
        BY <3>1, <3>2 DEF ReceiveSign, Turned, EntersStore, idemVars
      <3> QED
        BY <3>3 DEF Recognized, Scope, Storing
    <2>6. ASSUME asked'[c] # None, r.op = "verify"
          PROVE  identity'[c] # None /\ Presented(r) # None
      <3>1. ReceiveVerify(c, r, ok)
        BY <2>1, <2>6 DEF ReceiveProvision, ReceiveSign, GetIdentity, GetDIDDocument, List, ReceiveUpdate
      <3>2. asked' # asked
        BY <2>3, <2>6
      <3>3. Presented(r) # None /\ \E s \in Stored : identity' = [identity EXCEPT ![c] = s]
        BY <3>1, <3>2 DEF ReceiveVerify, Turned, EntersStore, Signer, idemVars
      <3> QED
        BY <3>3 DEF Stored, Storing
    <2>7. request'[c] = r /\ Presented(r)' = Presented(r)
      BY <2>2 DEF Asking, Presented
    <2>8. ASSUME NEW d \in Calls, asked'[d] # None
          PROVE  /\ request'[d].op = "sign" =>
                      /\ ValidSignRequest(request'[d]) /\ identity'[d] # None
                      /\ Scope(identity'[d]) = MyScope(d)'
                 /\ request'[d].op = "verify" => identity'[d] # None /\ Presented(request[d])' # None
      <3>1. CASE d = c
        BY <2>2, <2>5, <2>6, <2>7, <2>8, <3>1 DEF MyScope, Presented
      <3>2. CASE d # c
        BY <1>1, <2>4, <2>8, <3>2 DEF Asking
      <3> QED
        BY <3>1, <3>2
    <2> QED
      BY <2>8 DEF Admitted
  <1>3. CASE \A c \in Calls : ~Receive(c)
    BY <1>1, <1>3, CopiesEndure DEF Admitted, Asking
  <1> QED
    BY <1>2, <1>3

\* An assertion that was verified is on record in the replay store until it has expired; and no two
\* that share a key were ever verified while the first was unexpired.
OnRecord(c) ==
  \/ result[c].exp <= clock
  \/ \E r \in replayed : r.key = result[c].key /\ r.expiry = result[c].exp

Replaying ==
  /\ \A c \in Calls : result[c] # None /\ result[c].kind = "assertion" => result[c].exp \in Int
  /\ \A r \in replayed : r.expiry \in Int /\ r.expiry > 0
  /\ \A c \in Verified :
       /\ request[c].op = "verify" /\ result[c].exp = Presented(request[c]).exp
       /\ result[c].exp \in Int /\ result[c].at \in Int
       /\ result[c].at <= clock /\ result[c].at < result[c].exp
       /\ OnRecord(c)
  /\ \A c, d \in Verified : c # d /\ result[c].key = result[d].key =>
       result[c].exp <= result[d].at \/ result[d].exp <= result[c].at

\* The expiry of an assertion that Sign makes.
LEMMA SignedExpiry ==
  ASSUME Asking, Storing, Admitted, NEW c \in Calls, Sign(c)
  PROVE  result'[c].exp \in Int
  <1>1. request[c] \in AllRequests /\ request[c].op = "sign"
    BY DEF Sign, Executing, Asking
  <1>2. Time(c) \in Int
    BY <1>1, RequestsAssumption, DataAssumption DEF Time, Storing
  <1>3. Lifetime(request[c]) \in Int
    BY OptionsAssumption DEF Admitted, Sign, Executing, ValidSignRequest, Lifetime, ValidOptions
  <1>4. result'[c].exp = Time(c) + Lifetime(request[c])
    BY DEF Sign, Compute, Assertion, Asking
  <1> QED
    BY <1>2, <1>3, <1>4

\* Clock and replay store, outside a Verify that succeeds.
LEMMA ReplayedStep ==
  ASSUME Storing, [Next]_vars
  PROVE  /\ clock \in Int /\ clock' \in Int /\ clock <= clock' /\ clock >= 0
         /\ \/ \E c \in Calls : Verify(c)
            \/ Unexpired \subseteq replayed' /\ replayed' \subseteq replayed
  <1>1. clock \in Int /\ clock >= 0
    BY DataAssumption DEF Storing
  <1>2. CASE UNCHANGED vars \/ \E slot \in Idem!Slots : Forget(slot)
    <2>1. clock' = clock /\ replayed' = replayed
      BY <1>2 DEF vars, Forget
    <2> QED
      BY <1>1, <2>1 DEF Unexpired
  <1>3. CASE Tick
    <2>1. clock' = clock + 1 /\ replayed' = replayed
      BY <1>3 DEF Tick
    <2> QED
      BY <1>1, <2>1 DEF Unexpired
  <1>4. ASSUME NEW c \in Calls, Receive(c)
        PROVE  clock' = clock /\ replayed' = replayed
    <2>1. \E r \in Requests[c] : Arrives(c, r)
      BY <1>4 DEF Receive, ReceiveProvision, ReceiveSign, ReceiveVerify, GetIdentity, Read,
                  GetDIDDocument, List, ReceiveUpdate
    <2> QED
      BY <2>1 DEF Arrives
  <1>5. ASSUME NEW c \in Calls, Computes(c), ~Verify(c)
        PROVE  clock' = clock /\ Unexpired \subseteq replayed' /\ replayed' \subseteq replayed
    BY <1>5 DEF Computes, ServiceUnresolved, FindIdentity, SignRefused, SignHandled, Sign,
                VerifyUnrecognized, Unexpired
  <1>6. ASSUME NEW c \in Calls, Verify(c)
        PROVE  clock' = clock
    BY <1>6 DEF Verify
  <1>7. ASSUME NEW c \in Calls, Turns(c) \/ ClaimCreation(c) \/ CreateIdentity(c)
                                \/ PublishIdentity(c) \/ Fail(c) \/ ApplyUpdate(c)
        PROVE  clock' = clock /\ replayed' = replayed
    BY <1>7 DEF Turns, Begin, Recall, Finish, GiveUp, ClaimCreation, CreateIdentity,
                PublishIdentity, Fail, ApplyUpdate
  <1> QED
    BY NextCases, <1>1, <1>2, <1>3, <1>4, <1>5, <1>6, <1>7 DEF Unexpired

\* A Verify that succeeds finds no unexpired record under its key.
LEMMA ReplayingAfterVerify ==
  ASSUME Asking, Storing, Admitted, Replaying, [Next]_vars, NEW c \in Calls, Verify(c)
  PROVE  Replaying'
  <1> DEFINE a == Presented(request[c])
             k == ReplayKey(c)
  <1>1. clock \in Int /\ clock >= 0 /\ clock' = clock
    BY ReplayedStep DEF Verify
  <1>2. /\ request[c].op = "verify" /\ asked[c] # None /\ request[c] # None /\ request' = request
        /\ replayed' = Unexpired \cup {[key |-> k, expiry |-> a.exp]}
        /\ result' = [result EXCEPT ![c] = [kind |-> "verified", id |-> identity[c].id, key |-> k,
                                           at |-> clock, exp |-> a.exp]]
        /\ a.exp > clock /\ \A r \in Unexpired : r.key # k
    BY DEF Verify, Executing, Consumable, Compute, callVars
  <1>3. a # None /\ a.exp \in Int
    <2>1. a # None /\ request[c].of \in Calls
      BY <1>2, RequestsAssumption DEF Admitted, Asking
    <2> QED
      BY <2>1 DEF Presented, Replaying
  <1>4. Presented(request[c])' = a
    BY <1>2, <1>3, PresentedEndures
  <1> HIDE DEF a, k
  <1>5. /\ result'[c].kind = "verified" /\ result'[c].key = k /\ result'[c].at = clock
        /\ result'[c].exp = a.exp /\ \A d \in Calls : d # c => result'[d] = result[d]
    BY <1>2 DEF Asking
  <1>6. \A r \in replayed' : r.expiry \in Int /\ r.expiry > 0
    BY <1>1, <1>2, <1>3 DEF Replaying, Unexpired
  <1>7. \A d \in Calls : result'[d] # None /\ result'[d].kind = "assertion" => result'[d].exp \in Int
    BY <1>5 DEF Replaying
  <1>8. ASSUME NEW d \in Verified, d # c
        PROVE  /\ d \in Calls /\ result'[d] = result[d] /\ Presented(request[d])' = Presented(request[d])
               /\ result[d].exp <= clock \/ \E r \in Unexpired : r.key = result[d].key /\ r.expiry = result[d].exp
    <2>1. d \in Calls /\ result'[d] = result[d] /\ asked[d] # None /\ request[d].op = "verify"
      BY <1>5, <1>8 DEF Verified, Asking, Replaying
    <2>2. Presented(request[d])' = Presented(request[d])
      BY <2>1, PresentedEndures DEF Admitted, Asking
    <2>3. result[d].exp \in Int /\ OnRecord(d)
      BY <1>8 DEF Replaying
    <2> QED
      BY <1>1, <2>1, <2>2, <2>3 DEF OnRecord, Unexpired
  <1>9. Verified' \subseteq Verified \cup {c}
    BY <1>5 DEF Verified
  <1>10. ASSUME NEW d \in Verified'
         PROVE  /\ request'[d].op = "verify" /\ result'[d].exp = Presented(request[d])'.exp
                /\ result'[d].exp \in Int /\ result'[d].at \in Int
                /\ result'[d].at <= clock' /\ result'[d].at < result'[d].exp
                /\ OnRecord(d)'
    <2>1. CASE d = c
      <3>1. [key |-> k, expiry |-> a.exp] \in replayed'
        BY <1>2
      <3>2. OnRecord(c)'
        BY <1>5, <3>1 DEF OnRecord
      <3> QED
        BY <1>1, <1>2, <1>3, <1>4, <1>5, <2>1, <3>2
    <2>2. CASE d # c
      <3>1. d \in Verified
        BY <1>9, <1>10, <2>2
      <3>2. Unexpired \subseteq replayed'
        BY <1>2
      <3>3. OnRecord(d)'
        BY <1>1, <1>8, <2>2, <3>1, <3>2 DEF OnRecord
      <3> QED
        BY <1>1, <1>2, <1>8, <2>2, <3>1, <3>3 DEF Replaying
    <2> QED
      BY <2>1, <2>2
  <1>11. ASSUME NEW d \in Verified', NEW e \in Verified', d # e, result'[d].key = result'[e].key
         PROVE  result'[d].exp <= result'[e].at \/ result'[e].exp <= result'[d].at
    <2>1. \A f \in Verified : f # c /\ result[f].key = k => result[f].exp <= clock
      BY <1>2, <1>8
    <2>2. CASE d = c
      <3>1. e \in Verified /\ e # c
        BY <1>9, <1>11, <2>2
      <3> QED
        BY <1>5, <1>8, <1>11, <2>1, <2>2, <3>1
    <2>3. CASE e = c
      <3>1. d \in Verified /\ d # c
        BY <1>9, <1>11, <2>3
      <3> QED
        BY <1>5, <1>8, <1>11, <2>1, <2>3, <3>1
    <2>4. CASE d # c /\ e # c
      <3>1. d \in Verified /\ e \in Verified
        BY <1>9, <2>4
      <3>2. result'[d] = result[d] /\ result'[e] = result[e]
        BY <1>8, <2>4, <3>1
      <3> QED
        BY <1>11, <3>1, <3>2 DEF Replaying
    <2> QED
      BY <2>2, <2>3, <2>4
  <1> QED
    BY <1>6, <1>7, <1>10, <1>11 DEF Replaying

LEMMA ReplayingStep ==
  ASSUME Asking, Storing, Admitted, Replaying, [Next]_vars
  PROVE  Replaying'
  <1>1. SUFFICES ASSUME \A c \in Calls : ~Verify(c)
                 PROVE  Replaying'
    BY ReplayingAfterVerify
  <1>2. /\ clock \in Int /\ clock' \in Int /\ clock <= clock'
        /\ Unexpired \subseteq replayed' /\ replayed' \subseteq replayed
    BY <1>1, ReplayedStep
  <1>3. ASSUME NEW c \in Calls, result'[c] # None, result'[c].kind = "assertion"
        PROVE  result'[c].exp \in Int
    <2>1. CASE result'[c] = result[c]
      BY <1>3, <2>1 DEF Replaying
    <2>2. CASE Computes(c) \/ PublishIdentity(c)
      BY <1>3, <2>2, Kinds, SignedExpiry
    <2> QED
      BY <2>1, <2>2, CallsEndure
  <1>4. ASSUME NEW c \in Verified'
        PROVE  /\ c \in Verified /\ result'[c] = result[c] /\ request'[c] = request[c]
               /\ Presented(request[c])' = Presented(request[c])
    <2>1. c \in Calls /\ result'[c] = result[c]
      BY <1>1, <1>4, Kinds, CallsEndure DEF Verified
    <2>2. c \in Verified
      BY <1>4, <2>1 DEF Verified
    <2>3. request[c] # None /\ request[c].op = "verify" /\ Presented(request[c]) # None
      BY <2>1, <2>2 DEF Replaying, Verified, Asking, Admitted
    <2> QED
      BY <2>1, <2>2, <2>3, CallsEndure, PresentedEndures
  <1>5. ASSUME NEW c \in Verified'
        PROVE  OnRecord(c)'
    <2>1. result[c].exp \in Int /\ OnRecord(c)
      BY <1>4, <1>5 DEF Replaying
    <2>2. CASE result[c].exp <= clock
      BY <1>2, <1>4, <1>5, <2>1, <2>2 DEF OnRecord
    <2>3. CASE result[c].exp > clock
      <3>1. PICK r \in replayed : r.key = result[c].key /\ r.expiry = result[c].exp
        BY <1>2, <2>1, <2>3 DEF OnRecord
      <3>2. r \in replayed'
        BY <1>2, <2>3, <3>1 DEF Unexpired
      <3> QED
        BY <1>4, <1>5, <3>1, <3>2 DEF OnRecord
    <2> QED
      BY <1>2, <2>1, <2>2, <2>3
  <1>6. \A c \in Verified' : result'[c].at <= clock'
    BY <1>2, <1>4 DEF Replaying
  <1>7. \A r \in replayed' : r.expiry \in Int /\ r.expiry > 0
    BY <1>2 DEF Replaying
  <1> QED
    BY <1>3, <1>4, <1>5, <1>6, <1>7 DEF Replaying

LEMMA AdmittedInvariant == Spec => [](Admitted /\ Replaying)
  <1>1. Init => Admitted /\ Replaying
    BY DEF Init, Idem!Init, Admitted, Replaying, Verified
  <1>2. IdentityInv /\ Admitted /\ Replaying /\ [Next]_vars => Admitted' /\ Replaying'
    BY AdmittedStep, ReplayingStep DEF IdentityInv
  <1> QED
    BY <1>1, <1>2, IdentityInvariant, PTL DEF Spec

\* No assertion, and no two that share a replay key, are verified twice before
\* they expire, though the clock that judges expiry is not the one that judged
\* the assertion.
THEOREM AssertionsAreVerifiedOnce == Spec => []VerifiedOnce
  <1>1. Replaying => VerifiedOnce
    <2> SUFFICES ASSUME Replaying, NEW c \in Verified, NEW d \in Verified, c # d,
                        result[c].key = result[d].key
                 PROVE  /\ request[c].of # request[d].of
                        /\ result[c].exp <= result[d].at \/ result[d].exp <= result[c].at
      BY DEF VerifiedOnce
    <2>1. result[c].exp <= result[d].at \/ result[d].exp <= result[c].at
      BY DEF Replaying
    <2>2. request[c].of = request[d].of => result[c].exp = result[d].exp
      BY DEF Replaying, Presented
    <2> QED
      BY <2>1, <2>2 DEF Replaying
  <1> QED
    BY <1>1, AdmittedInvariant, PTL

-----------------------------------------------------------------------------
(* Who is shown what.                                                       *)

ResponseKinds ==
  {"identity", "identities", "document", "assertion", "verified", "problem", "pending", "error",
   "unrecognized"}

StoredFor(principal, id) ==
  id \in Ids /\ records[id] # None /\ records[id].principal = principal

\* The response r tells of the principal's identities only.
Belongs(principal, r) ==
  /\ r.kind \in ResponseKinds
  /\ r.kind = "identity" => StoredFor(principal, r.id)
  /\ r.kind = "identities" => \A i \in DOMAIN r.page : StoredFor(principal, r.page[i])
  /\ r.kind = "assertion" =>
       \E id \in Ids : /\ records[id] # None /\ records[id].did = r.did
                       /\ Scope(records[id]) = <<principal, r.aud>>

\* A copy is of the stored identity but for its status, and what a call will
\* update is its own.
Copies ==
  /\ IsFiniteSet(Stored)
  /\ \A c \in Calls : identity[c] # None =>
       /\ identity[c].id \in Ids /\ records[identity[c].id] # None
       /\ records[identity[c].id].did = identity[c].did
       /\ Scope(records[identity[c].id]) = Scope(identity[c])
       /\ request[c].op = "update" => identity[c].principal = request[c].principal

Private ==
  /\ \A c \in Calls : result[c] # None => Belongs(request[c].principal, result[c])
  /\ \A c \in Calls : reply[c] # None => Belongs(request[c].principal, reply[c])

LEMMA BelongsEndures ==
  ASSUME IdentityInv, Storing', [Next]_vars, NEW p, NEW r, Belongs(p, r)
  PROVE  /\ r.kind \in ResponseKinds
         /\ r.kind = "identity" => StoredFor(p, r.id)'
         /\ r.kind = "identities" => \A i \in DOMAIN r.page : StoredFor(p, r.page[i])'
         /\ r.kind = "assertion" =>
              \E id \in Ids : /\ records'[id] # None /\ records'[id].did = r.did
                              /\ Scope(records'[id]) = <<p, r.aud>>
  BY RecordsStay DEF Belongs, StoredFor, Scope

\* A page lists what was selected.
LEMMA PageFacts ==
  ASSUME NEW S, IsFiniteSet(S), NEW ascending \in Sorted(S), NEW descending,
         NEW offset \in Nat, NEW limit \in 0..MaximumListLimit
  PROVE  LET sorted == IF descending THEN Reverse(ascending) ELSE ascending
             page == Page(sorted, offset, limit)
         IN  \A i \in DOMAIN page : page[i] \in S
  <1> DEFINE n == Cardinality(S)
             sorted == IF descending THEN Reverse(ascending) ELSE ascending
             last == offset + (IF limit = 0 THEN MaximumListLimit ELSE limit)
             to == IF last > Len(sorted) THEN Len(sorted) ELSE last
  <1>1. n \in Nat /\ ascending \in [1..n -> S]
    BY FS_CardinalityType DEF Sorted
  <1>2. ascending \in Seq(S) /\ Len(ascending) = n
    BY <1>1
  <1>3. Reverse(ascending) \in [1..n -> S]
    BY <1>1, <1>2 DEF Reverse
  <1>4. Len(sorted) = n /\ \A i \in 1..n : sorted[i] \in S
    BY <1>1, <1>2, <1>3
  <1>5. last \in Nat /\ offset + 1 \in Int /\ to \in Int /\ \A i \in offset + 1 .. to : i \in 1..n
    BY <1>1, <1>4 DEF MaximumListLimit
  <1> HIDE DEF sorted, to
  <1>6. SubSeq(sorted, offset + 1, to) \in Seq(S)
    BY <1>4, <1>5, SubSeqProperties
  <1> DEFINE page == Page(sorted, offset, limit)
  <1>7. page \in Seq(S)
    BY <1>6 DEF Page, to
  <1> HIDE DEF page
  <1>8. \A i \in DOMAIN page : page[i] \in S
    BY <1>7
  <1> QED
    BY <1>8 DEF page, sorted

LEMMA CopiesStep ==
  ASSUME IdentityInv, IdentityInv', Copies, [Next]_vars
  PROVE  Copies'
  <1>1. IsFiniteSet(Stored)'
    <2>1. \E new : Stored' \subseteq Stored \cup {new}
      <3>1. CASE UNCHANGED records
        BY <3>1 DEF Stored
      <3>2. ASSUME NEW c \in Calls, PublishIdentity(c)
            PROVE  Stored' \subseteq Stored \cup {draft[c]}
        BY <3>2, Publishes DEF IdentityInv, Storing, Stored
      <3>3. ASSUME NEW c \in Calls, ApplyUpdate(c)
            PROVE  Stored' \subseteq Stored \cup {records'[identity[c].id]}
        BY <3>3 DEF ApplyUpdate, IdentityInv, Storing, Stored
      <3>4. ASSUME NEW c \in Calls, ClaimCreation(c) \/ Fail(c) \/ CreateIdentity(c)
            PROVE  UNCHANGED records
        BY <3>4 DEF ClaimCreation, Fail, CreateIdentity
      <3> QED
        BY NextCases, QuietSteps, <3>1, <3>2, <3>3, <3>4 DEF IdentityInv, Quiet
    <2> QED
      BY <2>1, FS_AddElement, FS_Subset DEF Copies
  <1>2. ASSUME NEW c \in Calls, identity'[c] # None, identity'[c] = identity[c]
        PROVE  /\ identity'[c].id \in Ids /\ records'[identity'[c].id] # None
               /\ records'[identity'[c].id].did = identity'[c].did
               /\ Scope(records'[identity'[c].id]) = Scope(identity'[c])
               /\ request'[c].op = "update" => identity'[c].principal = request'[c].principal
    BY <1>2, RecordsStay, CallsEndure DEF Copies, IdentityInv, Storing
  <1>3. ASSUME NEW c \in Calls, Receive(c), identity'[c] # None, identity'[c] # identity[c]
        PROVE  /\ identity'[c].id \in Ids /\ records'[identity'[c].id] # None
               /\ records'[identity'[c].id].did = identity'[c].did
               /\ Scope(records'[identity'[c].id]) = Scope(identity'[c])
               /\ request'[c].op = "update" => identity'[c].principal = request'[c].principal
    <2>1. PICK r \in Requests[c], ok \in BOOLEAN :
            \/ ReceiveProvision(c, r, ok) \/ ReceiveSign(c, r, ok) \/ ReceiveVerify(c, r, ok)
            \/ GetIdentity(c, r, ok) \/ GetDIDDocument(c, r) \/ List(c, r, ok)
            \/ ReceiveUpdate(c, r, ok)
      BY <1>3 DEF Receive
    <2>2. request' = [request EXCEPT ![c] = r] /\ UNCHANGED records
      BY <2>1 DEF Arrives, storeVars, ReceiveProvision, ReceiveSign, ReceiveVerify, GetIdentity,
                  Read, GetDIDDocument, List, ReceiveUpdate
    <2>3. identity'[c] \in Stored
      BY <1>3, Received DEF IdentityInv, Storing
    <2>4. r.op = "update" => identity'[c].principal = r.principal
      <3>1. SUFFICES ASSUME r.op = "update" PROVE identity'[c].principal = r.principal
        OBVIOUS
      <3>2. ReceiveUpdate(c, r, ok)
        BY <2>1, <3>1 DEF ReceiveProvision, ReceiveSign, ReceiveVerify, GetIdentity, GetDIDDocument, List
      <3>3. Recognized(r, ok) # None /\ identity' = [identity EXCEPT ![c] = Recognized(r, ok)]
        BY <1>3, <3>2 DEF ReceiveUpdate, Turned
      <3> QED
        BY <3>3 DEF Recognized, IdentityInv, Storing
    <2>5. PICK id \in Ids : identity'[c] = records[id] /\ records[id] # None
      BY <2>3 DEF Stored
    <2> QED
      BY <2>2, <2>4, <2>5 DEF IdentityInv, Asking, Storing
  <1>4. ASSUME NEW c \in Calls, identity'[c] # identity[c]
        PROVE  Receive(c)
    <2>1. PICK d \in Calls : Receive(d)
      BY <1>4, CopiesEndure
    <2> QED
      BY <1>4, <2>1, Received DEF IdentityInv, Storing
  <1> QED
    BY <1>1, <1>2, <1>3, <1>4 DEF Copies

\* What a call is told when it is made.
LEMMA Told ==
  ASSUME IdentityInv, Copies, NEW c \in Calls, Receive(c), reply'[c] # reply[c]
  PROVE  UNCHANGED records /\ Belongs(request'[c].principal, reply'[c])
  <1>1. PICK r \in Requests[c], ok \in BOOLEAN :
          \/ ReceiveProvision(c, r, ok) \/ ReceiveSign(c, r, ok) \/ ReceiveVerify(c, r, ok)
          \/ GetIdentity(c, r, ok) \/ GetDIDDocument(c, r) \/ List(c, r, ok)
          \/ ReceiveUpdate(c, r, ok)
    BY DEF Receive
  <1>2. request'[c] = r /\ UNCHANGED records
    BY <1>1 DEF Arrives, storeVars, ReceiveProvision, ReceiveSign, ReceiveVerify, GetIdentity,
                Read, GetDIDDocument, List, ReceiveUpdate, IdentityInv, Asking
  <1>3. \A q : Turned(c, q) => reply'[c] = q
    BY DEF Turned, Return, IdentityInv, Asking
  <1>4. \A code : Belongs(r.principal, Problem(code))
    BY DEF Problem, Belongs, ResponseKinds
  <1>5. CASE ReceiveProvision(c, r, ok)
    BY <1>2, <1>3, <1>4, <1>5 DEF ReceiveProvision, EntersStore
  <1>6. CASE ReceiveSign(c, r, ok)
    BY <1>2, <1>3, <1>4, <1>6 DEF ReceiveSign, EntersStore
  <1>7. CASE ReceiveVerify(c, r, ok)
    <2>1. Belongs(r.principal, Unrecognized)
      BY DEF Unrecognized, Belongs, ResponseKinds
    <2> QED
      BY <1>2, <1>3, <1>4, <1>7, <2>1 DEF ReceiveVerify, EntersStore
  <1>8. CASE GetIdentity(c, r, ok)
    <2>1. Recognized(r, ok) # None => Belongs(r.principal, Shown(Recognized(r, ok)))
      BY DEF Recognized, Shown, Belongs, ResponseKinds, StoredFor, IdentityInv, Storing
    <2> QED
      BY <1>2, <1>3, <1>4, <1>8, <2>1 DEF GetIdentity, Read
  <1>9. CASE GetDIDDocument(c, r)
    <2>1. \A s : Belongs(r.principal, CreateDIDDocument(s))
      BY DEF CreateDIDDocument, Belongs, ResponseKinds
    <2> QED
      BY <1>2, <1>3, <1>4, <1>9, <2>1 DEF GetDIDDocument
  <1>10. CASE List(c, r, ok)
    <2> DEFINE sorted(a) == IF r.descending THEN Reverse(a) ELSE a
               page(a) == Page(sorted(a), r.offset, r.limit)
               ids(a) == [i \in DOMAIN page(a) |-> page(a)[i].id]
               told(a) == [kind |-> "identities", total |-> Len(sorted(a)), page |-> ids(a)]
    <2>1. CASE ~ValidListQuery(r) \/ ~ok
      <3>1. \E code : Turned(c, Problem(code))
        BY <1>10, <2>1 DEF List
      <3> QED
        BY <1>2, <1>3, <1>4, <3>1
    <2>2. CASE ValidListQuery(r) /\ ok
      <3>1. PICK a \in Sorted(Selected(r)) : Turned(c, told(a))
        BY <1>10, <2>2 DEF List
      <3>2. IsFiniteSet(Selected(r))
        BY FS_Subset DEF Copies, Selected
      <3>3. \A i \in DOMAIN page(a) : page(a)[i] \in Selected(r)
        BY <2>2, <3>2, PageFacts DEF ValidListQuery
      <3>4. \A s \in Selected(r) : StoredFor(r.principal, s.id)
        BY DEF Selected, Stored, StoredFor, IdentityInv, Storing
      <3> HIDE DEF page
      <3>5. DOMAIN ids(a) = DOMAIN page(a) /\ \A i \in DOMAIN page(a) : ids(a)[i] = page(a)[i].id
        OBVIOUS
      <3> HIDE DEF ids, sorted
      <3>6. told(a).kind = "identities" /\ told(a).page = ids(a)
        OBVIOUS
      <3>7. Belongs(r.principal, told(a))
        BY <3>3, <3>4, <3>5, <3>6 DEF Belongs, ResponseKinds
      <3> QED
        BY <1>2, <1>3, <3>1, <3>7
    <2> QED
      BY <2>1, <2>2
  <1>11. CASE ReceiveUpdate(c, r, ok)
    BY <1>2, <1>3, <1>4, <1>11 DEF ReceiveUpdate
  <1> QED
    BY <1>1, <1>5, <1>6, <1>7, <1>8, <1>9, <1>10, <1>11

\* A remembered response answers only its owner.
LEMMA SameOwner ==
  ASSUME Asking, NEW c \in Calls, NEW d \in Calls, asked[c] # None, asked[d] # None,
         Idem!Matches(asked[d], asked[c])
  PROVE  request[d].principal = request[c].principal
  <1>1. asked[c] = InputOf(request[c]) /\ asked[d] = InputOf(request[d])
    BY DEF Asking
  <1>2. InputOf(request[c]).owner = request[c].principal /\ InputOf(request[d]).owner = request[d].principal
    BY DEF InputOf
  <1> QED
    BY <1>1, <1>2 DEF Idem!Matches

\* The reply of a call that leaves the idempotency store.
LEMMA Left ==
  ASSUME IdentityInv, Answered, Private, NEW c \in Calls, Turns(c) \/ Fail(c), reply'[c] # reply[c]
  PROVE  Belongs(request[c].principal, reply'[c])
  <1>1. Belongs(request[c].principal, Error) /\ \A code : Belongs(request[c].principal, Problem(code))
    BY DEF Belongs, ResponseKinds, Error, Problem
  <1>2. CASE Fail(c) \/ GiveUp(c)
    BY <1>1, <1>2 DEF Fail, GiveUp, Return, IdentityInv, Asking
  <1>3. CASE Finish(c)
    BY <1>3 DEF Finish, Return, Private, IdentityInv, Asking
  <1>4. CASE Recall(c)
    <2> DEFINE slot == Idem!Slot(asked[c])
               d == memory[slot].response
    <2>1. /\ asked[c] # None /\ memory[slot] # None /\ slot \in Idem!Slots
          /\ answer'[c] = Idem!AnswerFrom(memory[slot], asked[c])
          /\ reply'[c] = IF answer'[c].state = "replayed" THEN result[answer'[c].response]
                         ELSE Problem("idempotency_conflict")
      BY <1>4 DEF Recall, Return, Idem!Recall, Idem!Waiting, IdentityInv, Asking, Answered
    <2>2. d \in Calls /\ result[d] # None /\ memory[slot].input = asked[d] /\ asked[d] # None
      BY <2>1 DEF Answered, IdentityInv, Asking
    <2> HIDE DEF slot, d
    <2>3. CASE Idem!Matches(asked[d], asked[c])
      <3>1. reply'[c] = result[d]
        BY <2>1, <2>2, <2>3 DEF Idem!AnswerFrom, Idem!Replayed, d
      <3>2. request[d].principal = request[c].principal
        BY <2>1, <2>2, <2>3, SameOwner DEF IdentityInv
      <3> QED
        BY <2>2, <3>1, <3>2 DEF Private
    <2>4. CASE ~Idem!Matches(asked[d], asked[c])
      BY <1>1, <2>1, <2>2, <2>4 DEF Idem!AnswerFrom, Idem!Conflict, d
    <2> QED
      BY <2>3, <2>4
  <1>5. ~Begin(c)
    BY DEF Begin
  <1> QED
    BY <1>2, <1>3, <1>4, <1>5 DEF Turns

\* Only its own steps answer a call.
LEMMA OwnReply ==
  ASSUME IdentityInv, Answered, [Next]_vars, NEW c \in Calls, reply'[c] # reply[c]
  PROVE  Receive(c) \/ Turns(c) \/ Fail(c) \/ ApplyUpdate(c)
  <1>1. CASE UNCHANGED vars \/ Tick \/ \E slot \in Idem!Slots : Forget(slot)
    BY <1>1 DEF vars, Tick, Forget
  <1>2. ASSUME NEW d \in Calls, d # c
        PROVE  ~(Receive(d) \/ Turns(d) \/ Fail(d) \/ ApplyUpdate(d))
    BY <1>2, Received DEF Turns, Begin, Recall, Finish, GiveUp, Fail, ApplyUpdate, Return,
                          IdentityInv, Asking
  <1>3. ASSUME NEW d \in Calls
        PROVE  ~(Computes(d) \/ ClaimCreation(d) \/ CreateIdentity(d) \/ PublishIdentity(d))
    BY Computed DEF ClaimCreation, CreateIdentity, PublishIdentity
  <1> QED
    BY NextCases, <1>1, <1>2, <1>3

LEMMA PrivateStep ==
  ASSUME IdentityInv, IdentityInv', Answered, Answered', Admitted, Copies, Private, [Next]_vars
  PROVE  Private'
  <1>1. ASSUME NEW p, NEW r, Belongs(p, r)
        PROVE  /\ r.kind \in ResponseKinds
               /\ r.kind = "identity" => StoredFor(p, r.id)'
               /\ r.kind = "identities" => \A i \in DOMAIN r.page : StoredFor(p, r.page[i])'
               /\ r.kind = "assertion" =>
                    \E id \in Ids : /\ records'[id] # None /\ records'[id].did = r.did
                                    /\ Scope(records'[id]) = <<p, r.aud>>
    BY <1>1, BelongsEndures DEF IdentityInv
  <1>2. ASSUME NEW c \in Calls, result'[c] # None
        PROVE  Belongs(request[c].principal, result[c])'
    <2>1. CASE result'[c] = result[c]
      <3>1. request'[c] = request[c] /\ Belongs(request[c].principal, result[c])
        BY <1>2, <2>1, CallsEndure DEF Private, IdentityInv, Asking
      <3> QED
        BY <1>1, <2>1, <3>1 DEF Belongs
    <2>2. CASE Computes(c) \/ PublishIdentity(c)
      <3>1. /\ result'[c].kind \in ResponseKinds \ {"identities"}
            /\ result'[c].kind = "assertion" => Sign(c)
            /\ result'[c].kind = "identity" => FindIdentity(c) \/ PublishIdentity(c)
        BY <2>2, Kinds DEF ResponseKinds, IdentityInv
      <3>2. request'[c] = request[c]
        BY <2>2, CallsEndure DEF Computes, ServiceUnresolved, FindIdentity, SignRefused, SignHandled,
                                 Sign, Verify, VerifyUnrecognized, PublishIdentity, callVars
      <3>3. ASSUME result'[c].kind = "identity"
            PROVE  StoredFor(request[c].principal, result[c].id)'
        <4>1. request[c].op = "provision"
          BY <3>1, <3>3 DEF FindIdentity, PublishIdentity, Executing
        <4> QED
          BY <1>2, <3>2, <3>3, <4>1 DEF Answered, Names, StoredFor, Scope, MyScope
      <3>4. ASSUME Sign(c)
            PROVE  /\ identity[c].id \in Ids /\ records'[identity[c].id] # None
                   /\ records'[identity[c].id].did = result'[c].did
                   /\ Scope(records'[identity[c].id]) = <<request[c].principal, result'[c].aud>>
        <4>1. /\ identity[c] # None /\ Scope(identity[c]) = MyScope(c)
              /\ UNCHANGED records /\ result'[c] = Assertion(c)
          BY <3>4 DEF Sign, Executing, Compute, storeVars, Admitted, IdentityInv, Asking
        <4>2. result'[c].did = identity[c].did /\ result'[c].aud = request[c].service
          BY <4>1 DEF Assertion
        <4> QED
          BY <4>1, <4>2 DEF Copies, MyScope
      <3> QED
        BY <3>1, <3>2, <3>3, <3>4 DEF Belongs
    <2> QED
      BY <2>1, <2>2, CallsEndure DEF IdentityInv
  <1>3. ASSUME NEW c \in Calls, reply'[c] # None
        PROVE  Belongs(request[c].principal, reply[c])'
    <2>1. CASE reply'[c] = reply[c]
      <3>1. request'[c] = request[c] /\ Belongs(request[c].principal, reply[c])
        BY <1>3, <2>1, CallsEndure DEF Private, IdentityInv, Answered
      <3> QED
        BY <1>1, <2>1, <3>1 DEF Belongs
    <2>2. CASE Receive(c) /\ reply'[c] # reply[c]
      BY <2>2, Told DEF Belongs, StoredFor
    <2>3. CASE (Turns(c) \/ Fail(c)) /\ reply'[c] # reply[c]
      <3>1. UNCHANGED <<request, records>>
        BY <2>3 DEF Turns, Begin, Recall, Finish, GiveUp, Fail, callVars, storeVars
      <3> QED
        BY <2>3, <3>1, Left DEF Belongs, StoredFor
    <2>4. CASE ApplyUpdate(c)
      <3>1. /\ identity[c] # None /\ request[c].op = "update" /\ request' = request
            /\ reply'[c] = Shown(records'[identity[c].id])
        BY <2>4 DEF ApplyUpdate, Return, callVars, IdentityInv, Asking
      <3>2. /\ identity[c].id \in Ids /\ records[identity[c].id] # None
            /\ records[identity[c].id].principal = request[c].principal
        BY <3>1 DEF Copies, Scope
      <3> DEFINE id == identity[c].id
      <3>3. records'[id] # None /\ Scope(records'[id]) = Scope(records[id])
        BY <3>2, RecordsStay DEF IdentityInv
      <3>4. records'[id].id = id
        BY <3>2, <3>3 DEF IdentityInv, Storing
      <3>5. records'[id].principal = request[c].principal
        BY <3>2, <3>3 DEF Scope
      <3> HIDE DEF id
      <3>6. reply'[c].kind = "identity" /\ reply'[c].id = id
        BY <3>1, <3>4 DEF Shown, id
      <3> QED
        BY <3>1, <3>2, <3>3, <3>5, <3>6 DEF Belongs, ResponseKinds, StoredFor, id
    <2> QED
      BY <2>1, <2>2, <2>3, <2>4, OwnReply
  <1> QED
    BY <1>2, <1>3 DEF Private

LEMMA PrivateInvariant == Spec => [](Answered /\ Copies /\ Private)
  <1>1. Init => Answered /\ Copies /\ Private
    <2>1. Init => Stored = {}
      BY DEF Init, Stored
    <2> QED
      BY <2>1, FS_EmptySet DEF Init, Idem!Init, Answered, Copies, Private
  <1>2. IdentityInv /\ IdentityInv' /\ Admitted /\ Answered /\ Copies /\ Private /\ [Next]_vars
          => Answered' /\ Copies' /\ Private'
    BY AnsweredStep, CopiesStep, PrivateStep
  <1> QED
    BY <1>1, <1>2, IdentityInvariant, AdmittedInvariant, PTL DEF Spec

\* Whatever a call is told - by the store, by its own execution or from a
\* remembered response - is about identities of its own principal, and what it
\* is given to use at a Service was signed for that Service.
THEOREM ResponsesStayPrivate == Spec => []ResultsArePrivate
  <1>1. IdentityInv /\ Private => ResultsArePrivate
    <2> SUFFICES ASSUME IdentityInv, Private, NEW c \in Calls, request[c] # None, reply[c] # None
                 PROVE  /\ \A s \in Disclosed(reply[c]) : s.principal = request[c].principal
                        /\ reply[c].kind = "assertion" =>
                             \E s \in Disclosed(reply[c]) :
                               Scope(s) = <<request[c].principal, reply[c].aud>>
      BY DEF ResultsArePrivate
    <2> DEFINE r == reply[c]
               p == request[c].principal
    <2>1. Belongs(p, r)
      BY DEF Private
    <2> HIDE DEF r, p
    <2>2. CASE r.kind = "identity"
      <3>1. Disclosed(r) = {records[r.id]}
        BY <2>2 DEF Disclosed
      <3> QED
        BY <2>1, <2>2, <3>1 DEF Belongs, StoredFor, r, p
    <2>3. CASE r.kind = "identities"
      <3>1. Disclosed(r) = {records[id] : id \in Range(r.page)}
        BY <2>3 DEF Disclosed
      <3>2. \A id \in Range(r.page) : records[id].principal = p
        BY <2>1, <2>3 DEF Belongs, StoredFor, Range
      <3> QED
        BY <2>3, <3>1, <3>2 DEF r, p
    <2>4. CASE r.kind = "assertion"
      <3>1. PICK id \in Ids : /\ records[id] # None /\ records[id].did = r.did
                              /\ Scope(records[id]) = <<p, r.aud>>
        BY <2>1, <2>4 DEF Belongs
      <3>2. Disclosed(r) = {s \in Stored : s.did = r.did}
        BY <2>4 DEF Disclosed
      <3>3. \A s \in Disclosed(r) : s = records[id]
        BY <3>1, <3>2 DEF Stored, IdentityInv, Distinct
      <3> QED
        BY <2>4, <3>1, <3>2, <3>3 DEF Stored, Scope, r, p
    <2>5. CASE r.kind \notin {"identity", "identities", "assertion"}
      <3>1. Disclosed(r) = {}
        BY <2>5 DEF Disclosed
      <3> QED
        BY <2>5, <3>1 DEF r, p
    <2> QED
      BY <2>2, <2>3, <2>4, <2>5 DEF r, p
  <1> QED
    BY <1>1, IdentityInvariant, PrivateInvariant, PTL

-----------------------------------------------------------------------------
(* Types.                                                                   *)

LEMMA IdemTypes ==
  ASSUME Asking, Asking', Storing, Idem!TypeOK, [Next]_vars
  PROVE  Idem!TypeOK'
  <1>1. asked' \in [Calls -> Inputs \cup {None}]
    BY DEF Asking
  <1>2. \A c \in Calls : asked[c] # None => Idem!Slot(asked[c]) \in Idem!Slots
    BY DEF Asking
  <1>3. CASE UNCHANGED <<executing, memory, answer>>
    BY <1>1, <1>3 DEF Idem!TypeOK
  <1>4. CASE \E slot \in Idem!Slots : Forget(slot)
    BY <1>1, <1>4 DEF Forget, Idem!Forget, Idem!TypeOK
  <1>5. ASSUME NEW c \in Calls, Receive(c) \/ Computes(c) \/ ApplyUpdate(c) \/ ClaimCreation(c)
                                \/ CreateIdentity(c) \/ PublishIdentity(c)
        PROVE  UNCHANGED <<executing, memory, answer>>
    <2>1. CASE Receive(c)
      BY <2>1, Received DEF Idem!Ask, idemVars
    <2>2. CASE Computes(c)
      BY <2>2, Computed
    <2>3. CASE ApplyUpdate(c) \/ ClaimCreation(c) \/ CreateIdentity(c) \/ PublishIdentity(c)
      BY <2>3 DEF ApplyUpdate, ClaimCreation, CreateIdentity, PublishIdentity, idemVars
    <2> QED
      BY <1>5, <2>1, <2>2, <2>3
  <1>6. ASSUME NEW c \in Calls, Turns(c) \/ Fail(c)
        PROVE  Idem!TypeOK'
    <2>1. CASE Begin(c)
      BY <1>1, <2>1 DEF Begin, Idem!Begin, Idem!TypeOK
    <2>2. CASE Finish(c)
      <3>1. [input |-> asked[c], response |-> c] \in [input : Inputs, response : Calls]
        BY <2>2 DEF Finish, Idem!Finish, Idem!Waiting, Asking
      <3>2. Idem!Created(c) \in Idem!Answers
        BY DEF Idem!Created, Idem!Answers
      <3> QED
        BY <1>1, <2>2, <3>1, <3>2 DEF Finish, Idem!Finish, Idem!TypeOK
    <2>3. CASE Recall(c)
      <3> DEFINE record == memory[Idem!Slot(asked[c])]
      <3>1. record \in [input : Inputs, response : Calls]
        BY <1>2, <2>3 DEF Recall, Idem!Recall, Idem!Waiting, Idem!TypeOK
      <3>2. Idem!AnswerFrom(record, asked[c]) \in Idem!Answers
        BY <3>1 DEF Idem!AnswerFrom, Idem!Replayed, Idem!Conflict, Idem!Answers
      <3> QED
        BY <1>1, <2>3, <3>2 DEF Recall, Idem!Recall, Idem!TypeOK
    <2>4. CASE GiveUp(c) \/ Fail(c)
      <3>1. Idem!Failure \in Idem!Answers
        BY DEF Idem!Failure, Idem!Answers
      <3> QED
        BY <1>1, <2>4, <3>1 DEF GiveUp, Fail, Idem!GiveUp, Idem!Fail, Idem!TypeOK
    <2> QED
      BY <1>6, <2>1, <2>2, <2>3, <2>4 DEF Turns
  <1>7. CASE UNCHANGED vars \/ Tick
    BY <1>3, <1>7 DEF vars, Tick, idemVars
  <1> QED
    BY NextCases, <1>3, <1>4, <1>5, <1>6, <1>7

\* Types; a creation is pending only while the call that makes it executes, so
\* whoever waits for it waits for somebody.
THEOREM IdentityTypes == Spec => []TypeOK
  <1>1. Init => Idem!TypeOK
    BY DEF Init, Idem!Init, Idem!TypeOK
  <1>2. IdentityInv /\ IdentityInv' /\ Idem!TypeOK /\ [Next]_vars => Idem!TypeOK'
    BY IdemTypes DEF IdentityInv
  <1>3. IdentityInv /\ Replaying /\ Private /\ Idem!TypeOK => TypeOK
    BY DEF IdentityInv, Asking, Storing, Creations, CreatesFor, Replaying, Private, Belongs,
           ResponseKinds, TypeOK
  <1> QED
    BY <1>1, <1>2, <1>3, IdentityInvariant, AdmittedInvariant, PrivateInvariant, PTL DEF Spec

=============================================================================
