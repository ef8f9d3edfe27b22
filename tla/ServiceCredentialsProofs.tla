------------------------- MODULE ServiceCredentialsProofs -------------------------
(***************************************************************************)
(* Credentials hold for any number of Agents, commands, requests, grant    *)
(* types and methods.  The store changes in two ways only (StoreEndures);  *)
(* on it rest one invariant of the Grants and what they stored, one of the *)
(* Revokes and one of the requests, each inductive given the ones before.  *)
(***************************************************************************)
EXTENDS ServiceCredentials, SequenceTheorems, TLAPS

\* asked holds whatever a call asks: only its domain is a matter of type.
Typed == TypeOK /\ DOMAIN asked = Calls

\* Grants and the store: a credential is what one successful Grant was given,
\* and no two have an identifier or a secret in common.
Granted(g) ==
  /\ pc[g] \in {"issuing", "granted"} =>
       actor[g] \in Agents /\ asked[g] \in Types /\ started[g] \in Nat
  /\ pc[g] = "granted" =>
       /\ outcome[g] \in Stored
       /\ credentials[outcome[g]].agent = actor[g]
       /\ credentials[outcome[g]].type = asked[g]

StoredWasGranted ==
  \A k \in Stored : \E g \in Grants : pc[g] = "granted" /\ outcome[g] = k

SecretsAreDistinct ==
  \A k, l \in Stored :
    credentials[k].type = credentials[l].type /\ credentials[k].secret = credentials[l].secret
    => k = l

GrantInv == (\A g \in Grants : Granted(g)) /\ StoredWasGranted /\ SecretsAreDistinct

\* Revokes: what was in scope when one began is revoked, or in the scope of a
\* grant type it has yet to visit.
Pending(r, k) ==
  \E i \in 1..Len(todo[r]) : InScope(k, actor[r], todo[r][i], asked[r].id)

\* ... each of which the Revoke named.
Visits(r) ==
  \A i \in 1..Len(todo[r]) :
    \E j \in 1..Len(asked[r].types) : asked[r].types[j] = todo[r][i]

Revoking(r) ==
  /\ pc[r] = "idle" => actor[r] = None
  /\ pc[r] = "revoking" => Visits(r)
  /\ pc[r] \in {"revoking", "revoked"} => baseline[r] \subseteq Stored
  /\ pc[r] = "revoking" => \A k \in baseline[r] : credentials[k].revoked \/ Pending(r, k)

RevokeInv == (\A r \in Revokes : Revoking(r)) /\ RevokeIsComplete /\ RevokedByOwner

\* Requests: what was dead when one began is dead at its time, and what it
\* matched is not.
Dead(k, t) == credentials[k].revoked \/ credentials[k].expiresAt <= t

Alone(q) ==
  Assertions(asked[q]) =
    IF outcome[q] = None THEN {[scheme |-> "AEP", secret |-> actor[q]]} ELSE {}

MatchedSecret(q) ==
  /\ outcome[q] \in Stored
  /\ credentials[outcome[q]].agent = actor[q]
  /\ PresentedAs(credentials[outcome[q]].type, asked[q]) = {credentials[outcome[q]].secret}

Presented(q) ==
  /\ pc[q] \in {"asserting", "matching", "matched", "authenticated"} =>
       asked[q] \in Presentations /\ ~Ambiguous(asked[q])
  /\ pc[q] \in {"idle", "asserting", "matching"} => outcome[q] = None

Began(q) ==
  /\ pc[q] \in {"idle", "asserting"} => baseline[q] = {}
  /\ pc[q] = "matching" =>
       /\ started[q] \in Nat /\ Assertions(asked[q]) = {}
       /\ \A k \in baseline[q] : k \in Stored /\ Dead(k, started[q])

Matched(q) ==
  pc[q] \in {"matched", "authenticated"} =>
    /\ outcome[q] \notin baseline[q]
    /\ Alone(q)
    /\ outcome[q] # None => MatchedSecret(q)

RequestHolds(q) == Presented(q) /\ Began(q) /\ Matched(q)

RequestInv == \A q \in Requests : RequestHolds(q)

-----------------------------------------------------------------------------
(* Types.                                                                   *)

LEMMA TailProperties ==
  ASSUME NEW S, NEW s \in Seq(S), s # <<>>
  PROVE  /\ Len(s) \in Nat \ {0}
         /\ Tail(s) \in Seq(S)
         /\ Len(Tail(s)) = Len(s) - 1
         /\ \A i \in 1..Len(Tail(s)) : Tail(s)[i] = s[i + 1]
         /\ Len(s) # 1 => Tail(s) # <<>>
  <1>1. /\ Tail(s) \in Seq(S) /\ Len(Tail(s)) = Len(s) - 1
        /\ \A i \in 1..Len(Tail(s)) : Tail(s)[i] = s[i + 1]
    BY HeadTailProperties
  <1>2. Len(s) \in Nat \ {0} /\ Len(<<>>) = 0
    BY EmptySeq
  <1>3. Len(s) # 1 => Len(Tail(s)) # 0
    BY <1>1, <1>2
  <1>4. Len(s) # 1 => Tail(s) # <<>>
    BY <1>2, <1>3
  <1> QED
    BY <1>1, <1>2, <1>4

LEMMA LongTail ==
  ASSUME NEW S, NEW s \in Seq(S), s # <<>>, Len(s) > 1
  PROVE  Tail(s) \in Seq(S) /\ Tail(s) # <<>>
  <1>1. Len(s) # 1
    OBVIOUS
  <1> QED
    BY <1>1, TailProperties

LEMMA RevokedRecord ==
  ASSUME NEW k \in Credentials
  PROVE  LET dead == [k EXCEPT !.revoked = TRUE] IN
           /\ dead \in Credentials
           /\ dead.revoked
           /\ dead.agent = k.agent /\ dead.type = k.type
           /\ dead.secret = k.secret /\ dead.expiresAt = k.expiresAt
  BY DEF Credentials

LEMMA InitTyped == Init => Typed
  BY MethodsAssumption DEF Init, Typed, TypeOK, Locations, Standings

LEMMA CallKinds ==
  /\ Grants \subseteq Calls /\ Revokes \subseteq Calls /\ Requests \subseteq Calls
  /\ \A g \in Grants : g \notin Revokes /\ g \notin Requests
  /\ \A r \in Revokes : r \notin Requests
  BY CallsAssumption DEF Calls

LEMMA GrantTyped ==
  ASSUME Typed, GrantInv, NEW g \in Grants, GrantStep(g)
  PROVE  Typed'
  <1> USE DEF Typed, TypeOK, Locations
  <1>0. g \in Calls
    BY CallKinds
  <1>1. CASE RefuseGrant(g)
    BY <1>0, <1>1 DEF RefuseGrant, GoTo
  <1>2. ASSUME NEW a \in Agents, NEW type \in Types, BeginGrant(g, a, type)
        PROVE  Typed'
    BY <1>0, <1>2 DEF BeginGrant, GoTo
  <1>3. ASSUME NEW id \in CredentialIDs, NEW s \in Secrets, NEW l \in Lifetimes,
               SaveCredential(g, id, s, l)
        PROVE  Typed'
    <2>1. Record(g, s, l) \in Credentials
      BY <1>3, DataAssumption DEF SaveCredential, GoTo, GrantInv, Granted, Record, Credentials
    <2> QED
      BY <1>0, <1>3, <2>1 DEF SaveCredential, GoTo
  <1>4. CASE GrantFails(g)
    BY <1>0, <1>4 DEF GrantFails, GoTo, Forget
  <1> QED
    BY <1>1, <1>2, <1>3, <1>4 DEF GrantStep

LEMMA RevokeTyped ==
  ASSUME Typed, NEW r \in Revokes, RevokeStep(r)
  PROVE  Typed'
  <1> USE DEF Typed, TypeOK, Locations
  <1>0. r \in Calls /\ r \notin Requests
    BY CallKinds
  <1>1. ASSUME NEW a \in Agents, RefuseRevoke(r, a)
        PROVE  Typed'
    BY <1>0, <1>1 DEF RefuseRevoke, GoTo
  <1>2. ASSUME NEW a \in Agents, NEW types \in Seq(Types), NEW id, types # <<>>,
               BeginRevoke(r, a, types, id)
        PROVE  Typed'
    BY <1>0, <1>2 DEF BeginRevoke, GoTo, Stored
  <1>3. CASE RevokeNext(r)
    <2>1. todo[r] \in Seq(Types) /\ todo[r] # <<>>
      BY <1>0, <1>3 DEF RevokeNext, GoTo
    <2>2. /\ Tail(todo[r]) \in Seq(Types)
          /\ Len(todo[r]) # 1 => Tail(todo[r]) # <<>>
      BY <2>1, TailProperties
    <2>3. \A k \in Stored : [credentials[k] EXCEPT !.revoked = TRUE] \in Credentials
      BY RevokedRecord DEF Stored
    <2>4. credentials' \in [CredentialIDs -> Credentials \cup {None}]
      BY <1>3, <2>3 DEF RevokeNext, RevokeInScope
    <2> QED
      BY <1>0, <1>3, <2>2, <2>4 DEF RevokeNext, GoTo
  <1>4. CASE RevokeFails(r)
    BY <1>0, <1>4 DEF RevokeFails, GoTo
  <1>5. \A type \in Types : <<type>> \in Seq(Types) /\ <<type>> # <<>>
    OBVIOUS
  <1> QED
    BY <1>1, <1>2, <1>3, <1>4, <1>5, MethodsAssumption DEF RevokeStep

\* An assertion is the one value of its presentation.
LEMMA OneValue ==
  ASSUME NEW p \in Presentations, ~Ambiguous(p)
  PROVE  \A v, w \in Recognized(Authorization(p)) : v = w
  <1>1. p.dedicated \in Seq(AuthorizationValues) /\ p.standard \in Seq(AuthorizationValues)
    BY DataAssumption
  <1>2. CASE p.dedicated = <<>>
    BY <1>1, <1>2 DEF Ambiguous, Authorization, Recognized
  <1>3. CASE p.dedicated # <<>>
    BY <1>1, <1>3 DEF Ambiguous, Authorization, Recognized
  <1> QED
    BY <1>2, <1>3

LEMMA AssertionIsAgents ==
  ASSUME NEW p \in Presentations, NEW v \in Assertions(p)
  PROVE  v.secret \in Agents /\ v = [scheme |-> "AEP", secret |-> v.secret]
  <1>1. p.dedicated \in Seq(AuthorizationValues) /\ p.standard \in Seq(AuthorizationValues)
    BY DataAssumption
  <1>2. v \in AuthorizationValues /\ v.scheme = "AEP" /\ v.secret # None
    BY <1>1 DEF Assertions, Recognized, Authorization, Parses
  <1> QED
    BY <1>2 DEF AuthorizationValues

LEMMA RequestTyped ==
  ASSUME Typed, RequestInv, NEW q \in Requests, RequestStep(q)
  PROVE  Typed'
  <1> USE DEF Typed, TypeOK, Locations
  <1>0. q \in Calls
    BY CallKinds
  <1>1. ASSUME NEW from, NEW code \in Problems, Refuse(q, from, code),
               UNCHANGED <<now, standing, credentials>>
        PROVE  Typed'
    BY <1>0, <1>1 DEF Refuse, Forget, GoTo
  <1>2. ASSUME NEW p \in Presentations, RefusePresentation(q, p)
        PROVE  Typed'
    BY <1>1, <1>2 DEF RefusePresentation, Problems
  <1>3. ASSUME NEW p \in Presentations, BeginAssertion(q, p)
        PROVE  Typed'
    <2>1. CASE GoTo(q, "idle", "asserting") /\ asked' = [asked EXCEPT ![q] = p]
               /\ UNCHANGED <<actor, started, todo, outcome, seen, problem, baseline>>
      BY <1>0, <1>3, <2>1 DEF BeginAssertion, GoTo
    <2>2. CASE Refuse(q, "idle", "unsupported_authentication_method")
      BY <1>1, <1>3, <2>2 DEF BeginAssertion, Problems
    <2> QED
      BY <1>3, <2>1, <2>2 DEF BeginAssertion
  <1>4. CASE AcceptAssertion(q)
    <2>1. PICK v \in Assertions(asked[q]) : actor' = [actor EXCEPT ![q] = v.secret]
      BY <1>4 DEF AcceptAssertion
    <2>2. v.secret \in Agents
      BY <1>4, <2>1, AssertionIsAgents
      DEF AcceptAssertion, GoTo, RequestInv, RequestHolds, Presented
    <2> QED
      BY <1>0, <1>4, <2>1, <2>2 DEF AcceptAssertion, GoTo
  <1>5. CASE RefuseAssertion(q)
    BY <1>1, <1>5 DEF RefuseAssertion, Problems
  <1>6. ASSUME NEW p \in Presentations, BeginRequest(q, p)
        PROVE  Typed'
    BY <1>0, <1>6, MethodsAssumption DEF BeginRequest, GoTo, Stored
  <1>7. CASE MatchNext(q)
    <2>1. PICK k \in Matches(q) :
            /\ GoTo(q, "matching", "matched")
            /\ actor' = [actor EXCEPT ![q] = credentials[k].agent]
            /\ outcome' = [outcome EXCEPT ![q] = k]
      BY <1>7 DEF MatchNext
    <2>2. k \in CredentialIDs /\ credentials[k].agent \in Agents
      BY <2>1 DEF Matches, LiveAt, Stored, Credentials
    <2> QED
      BY <1>0, <1>7, <2>1, <2>2 DEF MatchNext, GoTo
  <1>8. CASE SkipMethod(q)
    <2>1. todo[q] \in Seq(Types) /\ todo[q] # <<>> /\ Len(todo[q]) > 1
      BY <1>0, <1>8 DEF SkipMethod, GoTo
    <2>2. Tail(todo[q]) \in Seq(Types) /\ Tail(todo[q]) # <<>>
      BY <2>1, LongTail
    <2>3. SeenNow(q) \in BOOLEAN
      BY DEF SeenNow, Detected
    <2> QED
      BY <1>0, <1>8, <2>2, <2>3 DEF SkipMethod, GoTo
  <1>9. CASE NothingMatches(q)
    <2>1. Code(q) \in Problems
      BY DEF Code, Problems
    <2> QED
      BY <1>1, <1>9, <2>1 DEF NothingMatches
  <1>10. CASE CheckEnrollment(q)
    <2>1. CASE standing[actor[q]] = "active"
      BY <1>0, <1>10, <2>1 DEF CheckEnrollment, GoTo
    <2>2. CASE standing[actor[q]] # "active"
      BY <1>1, <1>10, <2>2 DEF CheckEnrollment, Problems
    <2> QED
      BY <2>1, <2>2
  <1>11. CASE RequestFails(q)
    BY <1>0, <1>11 DEF RequestFails, Forget
  <1> QED
    BY <1>2, <1>3, <1>4, <1>5, <1>6, <1>7, <1>8, <1>9, <1>10, <1>11 DEF RequestStep

LEMMA TypedStep ==
  ASSUME Typed, GrantInv, RequestInv, [Next]_vars
  PROVE  Typed'
  <1>1. ASSUME NEW a \in Agents, NEW s \in Standings, SetStanding(a, s)
        PROVE  Typed'
    BY <1>1 DEF SetStanding, Typed, TypeOK
  <1>2. CASE Tick
    BY <1>2 DEF Tick, Typed, TypeOK
  <1>3. CASE UNCHANGED vars
    BY <1>3 DEF vars, Typed, TypeOK, Credentials
  <1> QED
    BY <1>1, <1>2, <1>3, GrantTyped, RevokeTyped, RequestTyped DEF Next

-----------------------------------------------------------------------------
(* What a step of one call leaves alone.                                    *)

Same(d) ==
  /\ pc'[d] = pc[d] /\ actor'[d] = actor[d] /\ asked'[d] = asked[d]
  /\ started'[d] = started[d] /\ todo'[d] = todo[d]
  /\ outcome'[d] = outcome[d] /\ baseline'[d] = baseline[d]

\* What is stored stays, keeps all but its revocation, and stays revoked.
Endures ==
  \A k \in Stored :
    /\ k \in Stored'
    /\ credentials'[k].agent = credentials[k].agent
    /\ credentials'[k].type = credentials[k].type
    /\ credentials'[k].secret = credentials[k].secret
    /\ credentials'[k].expiresAt = credentials[k].expiresAt
    /\ credentials[k].revoked => credentials'[k].revoked

LEMMA UnchangedEndures ==
  ASSUME credentials' = credentials
  PROVE  Endures /\ Stored' = Stored
  BY DEF Endures, Stored

LEMMA GrantLocal ==
  ASSUME Typed, NEW g \in Grants, GrantStep(g)
  PROVE  (\A d \in Calls : d # g => Same(d)) /\ Endures
  <1> USE DEF Typed, TypeOK, Same
  <1>1. CASE RefuseGrant(g)
    BY <1>1, UnchangedEndures DEF RefuseGrant, GoTo
  <1>2. ASSUME NEW a \in Agents, NEW type \in Types, BeginGrant(g, a, type)
        PROVE  (\A d \in Calls : d # g => Same(d)) /\ Endures
    BY <1>2, UnchangedEndures DEF BeginGrant, GoTo
  <1>3. ASSUME NEW id \in CredentialIDs, NEW s \in Secrets, NEW l \in Lifetimes,
               SaveCredential(g, id, s, l)
        PROVE  (\A d \in Calls : d # g => Same(d)) /\ Endures
    <2>1. \A d \in Calls : d # g => Same(d)
      BY <1>3 DEF SaveCredential, GoTo
    <2>2. \A k \in Stored : k # id /\ credentials'[k] = credentials[k]
      BY <1>3 DEF SaveCredential, Duplicate, Stored
    <2> QED
      BY <2>1, <2>2 DEF Endures, Stored
  <1>4. CASE GrantFails(g)
    BY <1>4, UnchangedEndures DEF GrantFails, GoTo, Forget
  <1> QED
    BY <1>1, <1>2, <1>3, <1>4 DEF GrantStep

\* RevokeInScope: the selected records are revoked, and nothing else changes.
LEMMA RevokeInScopeEndures ==
  ASSUME Typed, NEW r \in Revokes, RevokeInScope(r)
  PROVE  /\ Endures /\ Stored' = Stored
         /\ \A k \in Stored :
              /\ InScope(k, actor[r], Head(todo[r]), asked[r].id) => credentials'[k].revoked
              /\ credentials'[k].revoked =>
                   \/ credentials[k].revoked
                   \/ InScope(k, actor[r], Head(todo[r]), asked[r].id)
  <1> USE DEF Typed, TypeOK
  <1> DEFINE dead(k) == [credentials[k] EXCEPT !.revoked = TRUE]
  <1>1. \A k \in CredentialIDs : credentials'[k] =
          IF k \in Stored /\ InScope(k, actor[r], Head(todo[r]), asked[r].id)
          THEN dead(k) ELSE credentials[k]
    BY DEF RevokeInScope
  <1>2. \A k \in Stored : k \in CredentialIDs /\ credentials[k] \in Credentials
    BY DEF Stored
  <1>3. \A k \in Stored :
          /\ dead(k) \in Credentials /\ dead(k).revoked
          /\ dead(k).agent = credentials[k].agent /\ dead(k).type = credentials[k].type
          /\ dead(k).secret = credentials[k].secret
          /\ dead(k).expiresAt = credentials[k].expiresAt
    BY <1>2, RevokedRecord
  <1> HIDE DEF dead
  <1>4. Stored' = Stored
    BY <1>1, <1>3, NoneAssumption DEF Stored
  <1>5. Endures
    BY <1>1, <1>2, <1>3, <1>4 DEF Endures
  <1>6. \A k \in Stored :
          /\ InScope(k, actor[r], Head(todo[r]), asked[r].id) => credentials'[k].revoked
          /\ credentials'[k].revoked =>
               \/ credentials[k].revoked
               \/ InScope(k, actor[r], Head(todo[r]), asked[r].id)
    BY <1>1, <1>2, <1>3
  <1> QED
    BY <1>4, <1>5, <1>6

LEMMA RevokeLocal ==
  ASSUME Typed, NEW r \in Revokes, RevokeStep(r)
  PROVE  (\A d \in Calls : d # r => Same(d)) /\ Endures /\ Stored' = Stored
  <1> USE DEF Typed, TypeOK, Same
  <1>1. ASSUME NEW a \in Agents, RefuseRevoke(r, a)
        PROVE  (\A d \in Calls : d # r => Same(d)) /\ Endures /\ Stored' = Stored
    BY <1>1, UnchangedEndures DEF RefuseRevoke, GoTo
  <1>2. ASSUME NEW a \in Agents, NEW types, NEW id, BeginRevoke(r, a, types, id)
        PROVE  (\A d \in Calls : d # r => Same(d)) /\ Endures /\ Stored' = Stored
    BY <1>2, UnchangedEndures DEF BeginRevoke, GoTo
  <1>3. CASE RevokeNext(r)
    BY <1>3, RevokeInScopeEndures DEF RevokeNext, GoTo
  <1>4. CASE RevokeFails(r)
    BY <1>4, UnchangedEndures DEF RevokeFails, GoTo
  <1> QED
    BY <1>1, <1>2, <1>3, <1>4 DEF RevokeStep

LEMMA RequestLocal ==
  ASSUME Typed, NEW q \in Requests, RequestStep(q)
  PROVE  (\A d \in Calls : d # q => Same(d)) /\ UNCHANGED credentials
  <1> USE DEF Typed, TypeOK, Same
  <1>1. ASSUME NEW from, NEW code, Refuse(q, from, code)
        PROVE  \A d \in Calls : d # q => Same(d)
    BY <1>1 DEF Refuse, Forget, GoTo
  <1>2. ASSUME NEW p \in Presentations, RefusePresentation(q, p)
        PROVE  (\A d \in Calls : d # q => Same(d)) /\ UNCHANGED credentials
    BY <1>1, <1>2 DEF RefusePresentation
  <1>3. ASSUME NEW p \in Presentations, BeginAssertion(q, p)
        PROVE  (\A d \in Calls : d # q => Same(d)) /\ UNCHANGED credentials
    BY <1>1, <1>3 DEF BeginAssertion, GoTo
  <1>4. CASE AcceptAssertion(q)
    BY <1>4 DEF AcceptAssertion, GoTo
  <1>5. CASE RefuseAssertion(q)
    BY <1>1, <1>5 DEF RefuseAssertion
  <1>6. ASSUME NEW p \in Presentations, BeginRequest(q, p)
        PROVE  (\A d \in Calls : d # q => Same(d)) /\ UNCHANGED credentials
    BY <1>6 DEF BeginRequest, GoTo
  <1>7. CASE MatchNext(q)
    BY <1>7 DEF MatchNext, GoTo
  <1>8. CASE SkipMethod(q)
    BY <1>8 DEF SkipMethod, GoTo
  <1>9. CASE NothingMatches(q)
    BY <1>1, <1>9 DEF NothingMatches
  <1>10. CASE CheckEnrollment(q)
    BY <1>1, <1>10 DEF CheckEnrollment, GoTo
  <1>11. CASE RequestFails(q)
    BY <1>11 DEF RequestFails, Forget
  <1> QED
    BY <1>2, <1>3, <1>4, <1>5, <1>6, <1>7, <1>8, <1>9, <1>10, <1>11 DEF RequestStep

\* The application, the clock and a stutter.
Outside ==
  \/ \E a \in Agents, s \in Standings : SetStanding(a, s)
  \/ Tick
  \/ UNCHANGED vars

LEMMA OutsideLocal ==
  ASSUME Outside
  PROVE  (\A d \in Calls : Same(d)) /\ UNCHANGED credentials
  BY DEF Outside, SetStanding, Tick, vars, Same

LEMMA Steps ==
  ASSUME [Next]_vars
  PROVE  \/ \E g \in Grants : GrantStep(g)
         \/ \E r \in Revokes : RevokeStep(r)
         \/ \E q \in Requests : RequestStep(q)
         \/ Outside
  BY DEF Next, Outside

-----------------------------------------------------------------------------
(* Grants and the store.                                                    *)

LEMMA InitGrants == Init => GrantInv
  BY CallKinds DEF Init, GrantInv, Granted, StoredWasGranted, SecretsAreDistinct, Stored

LEMMA GrantedKept ==
  ASSUME NEW g \in Grants, Granted(g), Same(g), Endures
  PROVE  Granted(g)'
  BY DEF Granted, Same, Endures

\* Where nothing is saved and no Grant that has its credential moves.
LEMMA GrantsKept ==
  ASSUME GrantInv, Endures, Stored' = Stored,
         \A g \in Grants : Same(g) \/ (pc[g] # "granted" /\ Granted(g)')
  PROVE  GrantInv'
  <1>1. \A g \in Grants : Granted(g)'
    BY GrantedKept DEF GrantInv
  <1>2. StoredWasGranted'
    BY DEF GrantInv, StoredWasGranted, Same
  <1>3. SecretsAreDistinct'
    BY DEF GrantInv, SecretsAreDistinct, Endures
  <1> QED
    BY <1>1, <1>2, <1>3 DEF GrantInv

\* SaveCredential: neither the identifier nor the secret was there.
LEMMA SaveKeepsGrants ==
  ASSUME Typed, GrantInv, NEW g \in Grants, NEW id \in CredentialIDs,
         NEW s \in Secrets, NEW l \in Lifetimes, SaveCredential(g, id, s, l)
  PROVE  GrantInv'
  <1>1. \A h \in Grants : h # g => Same(h)
    BY CallKinds, GrantLocal DEF GrantStep
  <1>2. /\ pc[g] = "issuing" /\ pc'[g] = "granted" /\ outcome'[g] = id
        /\ actor'[g] = actor[g] /\ asked'[g] = asked[g] /\ started'[g] = started[g]
    BY CallKinds DEF SaveCredential, GoTo, Typed, TypeOK
  <1>3. /\ credentials'[id] = Record(g, s, l)
        /\ \A k \in CredentialIDs : k # id => credentials'[k] = credentials[k]
    BY DEF SaveCredential, Typed, TypeOK
  <1>4. /\ id \notin Stored
        /\ \A k \in Stored :
             ~(credentials[k].type = asked[g] /\ credentials[k].secret = s)
    BY DEF SaveCredential, Duplicate
  <1>5. Granted(g)
    BY DEF GrantInv
  <1>6. Record(g, s, l) \in Credentials
    BY <1>2, <1>5, DataAssumption DEF Granted, Record, Credentials
  <1>7. Stored' = Stored \cup {id}
    BY <1>3, <1>6, NoneAssumption DEF Stored
  <1>8. /\ credentials'[id].agent = actor[g] /\ credentials'[id].type = asked[g]
        /\ credentials'[id].secret = s
    BY <1>3 DEF Record
  <1>9. \A k \in Stored : credentials'[k] = credentials[k]
    BY <1>3, <1>4 DEF Stored
  <1>10. Granted(g)'
    BY <1>2, <1>5, <1>7, <1>8 DEF Granted
  <1>11. ASSUME NEW h \in Grants, h # g
         PROVE  Granted(h)'
    <2>1. Granted(h) /\ Same(h)
      BY <1>1, <1>11 DEF GrantInv
    <2> QED
      BY <2>1, <1>7, <1>9 DEF Granted, Same
  <1>12. StoredWasGranted'
    <2>1. ASSUME NEW k \in Stored
          PROVE  \E h \in Grants : pc'[h] = "granted" /\ outcome'[h] = k
      <3>1. PICK h \in Grants : pc[h] = "granted" /\ outcome[h] = k
        BY <2>1 DEF GrantInv, StoredWasGranted
      <3>2. Same(h)
        BY <1>1, <1>2, <3>1
      <3> QED
        BY <3>1, <3>2 DEF Same
    <2> QED
      BY <1>2, <1>7, <2>1 DEF StoredWasGranted
  <1>13. SecretsAreDistinct'
    <2> SUFFICES ASSUME NEW k \in Stored', NEW m \in Stored',
                        credentials'[k].type = credentials'[m].type,
                        credentials'[k].secret = credentials'[m].secret
                 PROVE  k = m
      BY DEF SecretsAreDistinct
    <2>1. CASE k \in Stored /\ m \in Stored
      BY <1>9, <2>1 DEF GrantInv, SecretsAreDistinct
    <2>2. CASE k = id \/ m = id
      BY <1>4, <1>7, <1>8, <1>9, <2>2
    <2> QED
      BY <1>7, <2>1, <2>2
  <1> QED
    BY <1>10, <1>11, <1>12, <1>13 DEF GrantInv

LEMMA GrantKeepsGrants ==
  ASSUME Typed, GrantInv, NEW g \in Grants, GrantStep(g)
  PROVE  GrantInv'
  <1>0. g \in Calls
    BY CallKinds
  <1>1. \A h \in Grants : h # g => Same(h)
    BY CallKinds, GrantLocal
  <1>2. CASE UNCHANGED credentials /\ pc[g] # "granted" /\ Granted(g)'
    BY <1>1, <1>2, UnchangedEndures, GrantsKept
  <1>3. CASE RefuseGrant(g)
    BY <1>0, <1>2, <1>3 DEF RefuseGrant, GoTo, Granted, Typed, TypeOK
  <1>4. ASSUME NEW a \in Agents, NEW type \in Types, BeginGrant(g, a, type)
        PROVE  GrantInv'
    BY <1>0, <1>2, <1>4 DEF BeginGrant, GoTo, Granted, Typed, TypeOK
  <1>5. CASE GrantFails(g)
    BY <1>0, <1>2, <1>5 DEF GrantFails, GoTo, Granted, Typed, TypeOK
  <1> QED
    BY <1>3, <1>4, <1>5, SaveKeepsGrants DEF GrantStep

LEMMA GrantInvStep ==
  ASSUME Typed, GrantInv, [Next]_vars
  PROVE  GrantInv'
  <1>1. ASSUME NEW r \in Revokes, RevokeStep(r)
        PROVE  GrantInv'
    BY <1>1, CallKinds, RevokeLocal, GrantsKept
  <1>2. ASSUME NEW q \in Requests, RequestStep(q)
        PROVE  GrantInv'
    BY <1>2, CallKinds, RequestLocal, UnchangedEndures, GrantsKept
  <1>3. CASE Outside
    BY <1>3, CallKinds, OutsideLocal, UnchangedEndures, GrantsKept
  <1> QED
    BY <1>1, <1>2, <1>3, Steps, GrantKeepsGrants

-----------------------------------------------------------------------------
(* Revokes.                                                                 *)

LEMMA InitRevokes == Init => RevokeInv
  BY CallKinds DEF Init, RevokeInv, Revoking, RevokeIsComplete, RevokedByOwner, Stored

RevokesNothing ==
  \A k \in Stored' : credentials'[k].revoked => k \in Stored /\ credentials[k].revoked

LEMMA PendingKept ==
  ASSUME NEW r, NEW k \in Stored, Same(r), Endures, Pending(r, k)
  PROVE  Pending(r, k)'
  BY DEF Pending, InScope, Same, Endures

LEMMA RevokingKept ==
  ASSUME NEW r \in Revokes, Revoking(r), Same(r), Endures
  PROVE  Revoking(r)'
  <1>1. pc'[r] = "idle" => actor'[r] = None
    BY DEF Revoking, Same
  <1>2. pc'[r] \in {"revoking", "revoked"} => baseline'[r] \subseteq Stored'
    BY DEF Revoking, Same, Endures
  <1>3. ASSUME pc'[r] = "revoking", NEW k \in baseline'[r]
        PROVE  credentials'[k].revoked \/ Pending(r, k)'
    <2>1. k \in Stored /\ (credentials[k].revoked \/ Pending(r, k))
      BY <1>3 DEF Revoking, Same
    <2> QED
      BY <2>1, PendingKept DEF Endures
  <1>4. pc'[r] = "revoking" => Visits(r)'
    BY DEF Revoking, Visits, Same
  <1> QED
    BY <1>1, <1>2, <1>3, <1>4 DEF Revoking

\* Where nothing is revoked and no Revoke but r, which has just begun or is
\* over without success, moves.
LEMMA RevokesKept ==
  ASSUME RevokeInv, Typed, Endures, RevokesNothing, NEW moving \in SUBSET Revokes,
         \A r \in Revokes \ moving : Same(r),
         \A r \in moving : /\ pc'[r] # "revoked" /\ Revoking(r)'
                           /\ \/ actor[r] = None
                              \/ actor'[r] = actor[r] /\ asked'[r] = asked[r]
  PROVE  RevokeInv'
  <1>1. \A r \in Revokes : Revoking(r)'
    BY RevokingKept DEF RevokeInv
  <1>2. RevokeIsComplete'
    <2> SUFFICES ASSUME NEW r \in Revokes, pc'[r] = "revoked", NEW k \in baseline'[r]
                 PROVE  credentials'[k].revoked
      BY DEF RevokeIsComplete
    <2>1. Same(r) /\ Revoking(r)
      BY DEF RevokeInv
    <2>2. k \in Stored /\ credentials[k].revoked
      BY <2>1 DEF RevokeInv, RevokeIsComplete, Same, Revoking
    <2> QED
      BY <2>2 DEF Endures
  <1>3. RevokedByOwner'
    <2> SUFFICES ASSUME NEW k \in Stored', credentials'[k].revoked
                 PROVE  \E r \in Revokes : Names(r, k)'
      BY DEF RevokedByOwner
    <2>1. k \in Stored /\ credentials[k].revoked
      BY DEF RevokesNothing
    <2>2. PICK r \in Revokes : Names(r, k)
      BY <2>1 DEF RevokeInv, RevokedByOwner
    <2>3. actor[r] # None
      BY <2>1, <2>2, NoneAssumption DEF Names, Typed, TypeOK, Stored, Credentials
    <2>4. /\ credentials'[k].agent = credentials[k].agent
          /\ credentials'[k].type = credentials[k].type
      BY <2>1 DEF Endures
    <2>5. actor'[r] = actor[r] /\ asked'[r] = asked[r]
      BY <2>3 DEF Same
    <2> QED
      BY <2>2, <2>4, <2>5 DEF Names
  <1> QED
    BY <1>1, <1>2, <1>3 DEF RevokeInv

\* RevokeNext: what was pending at the head of the list is revoked, and what was
\* pending further down still is.
LEMMA RevokeNextKeepsRevokes ==
  ASSUME Typed, RevokeInv, NEW r \in Revokes, RevokeNext(r)
  PROVE  RevokeInv'
  <1>1. /\ r \in Calls
        /\ \A s \in Revokes : s # r => Same(s)
    BY CallKinds, RevokeLocal DEF RevokeStep
  <1>2. /\ pc[r] = "revoking" /\ todo'[r] = Tail(todo[r])
        /\ pc'[r] = IF Len(todo[r]) = 1 THEN "revoked" ELSE "revoking"
        /\ actor'[r] = actor[r] /\ asked'[r] = asked[r] /\ baseline'[r] = baseline[r]
        /\ RevokeInScope(r)
    BY <1>1 DEF RevokeNext, GoTo, Typed, TypeOK
  <1>3. /\ Endures /\ Stored' = Stored
        /\ \A k \in Stored :
             /\ InScope(k, actor[r], Head(todo[r]), asked[r].id) => credentials'[k].revoked
             /\ credentials'[k].revoked =>
                  \/ credentials[k].revoked
                  \/ InScope(k, actor[r], Head(todo[r]), asked[r].id)
    BY <1>2, RevokeInScopeEndures
  <1>4. todo[r] \in Seq(Types) /\ todo[r] # <<>>
    BY <1>1, <1>2 DEF Typed, TypeOK
  <1>5. /\ Len(todo[r]) \in Nat \ {0} /\ Len(Tail(todo[r])) = Len(todo[r]) - 1
        /\ \A i \in 1..Len(Tail(todo[r])) : Tail(todo[r])[i] = todo[r][i + 1]
        /\ Head(todo[r]) = todo[r][1]
    BY <1>4, TailProperties, HeadTailProperties
  <1>6. baseline[r] \subseteq Stored
    BY <1>2 DEF RevokeInv, Revoking
  <1>7. ASSUME NEW k \in baseline[r], ~credentials'[k].revoked
        PROVE  Len(todo[r]) # 1 /\ Pending(r, k)'
    <2>1. k \in Stored /\ ~credentials[k].revoked
      BY <1>3, <1>6, <1>7 DEF Endures
    <2>2. PICK i \in 1..Len(todo[r]) : InScope(k, actor[r], todo[r][i], asked[r].id)
      BY <1>2, <2>1 DEF RevokeInv, Revoking, Pending
    <2>3. i # 1
      BY <1>3, <1>5, <1>7, <2>1, <2>2
    <2>4. PICK n \in Nat \ {0} : n = Len(todo[r])
      BY <1>5
    <2>5. i \in 1..n /\ i \in Int /\ i # 1
      BY <2>2, <2>3, <2>4
    <2>6. n # 1 /\ i - 1 \in 1..(n - 1) /\ (i - 1) + 1 = i
      BY ONLY <2>5, n \in Nat \ {0}
    <2>7. i - 1 \in 1..Len(Tail(todo[r]))
      BY <1>5, <2>4, <2>6
    <2>8. Tail(todo[r])[i - 1] = todo[r][i]
      BY <1>5, <2>6, <2>7
    <2>9. /\ credentials'[k].agent = actor'[r] /\ credentials'[k].type = todo'[r][i - 1]
          /\ asked'[r].id \in {k, None}
      BY <1>2, <1>3, <2>1, <2>2, <2>8 DEF InScope, Endures
    <2>10. Pending(r, k)'
      BY <1>2, <2>7, <2>9 DEF Pending, InScope
    <2> QED
      BY <2>4, <2>6, <2>10
  <1>8. Revoking(r)'
    <2>1. Visits(r)
      BY <1>2 DEF RevokeInv, Revoking
    <2>2. ASSUME NEW i \in 1..Len(Tail(todo[r]))
          PROVE  \E j \in 1..Len(asked[r].types) : asked[r].types[j] = Tail(todo[r])[i]
      <3>1. PICK n \in Nat \ {0} : n = Len(todo[r])
        BY <1>5
      <3>2. i \in Int /\ i \in 1..(n - 1)
        BY <1>5, <2>2, <3>1
      <3>3. i + 1 \in 1..n
        BY ONLY <3>2, n \in Nat \ {0}
      <3>4. i + 1 \in 1..Len(todo[r])
        BY <3>1, <3>3
      <3>5. Tail(todo[r])[i] = todo[r][i + 1]
        BY <1>5, <2>2
      <3> QED
        BY <2>1, <3>4, <3>5 DEF Visits
    <2>3. Visits(r)'
      BY <1>2, <2>2 DEF Visits
    <2> QED
      BY <1>2, <1>3, <1>6, <1>7, <2>3 DEF Revoking
  <1>9. ASSUME NEW s \in Revokes, s # r
        PROVE  Revoking(s)'
    BY <1>1, <1>3, <1>9, RevokingKept DEF RevokeInv
  <1>10. RevokeIsComplete'
    <2> SUFFICES ASSUME NEW s \in Revokes, pc'[s] = "revoked", NEW k \in baseline'[s]
                 PROVE  credentials'[k].revoked
      BY DEF RevokeIsComplete
    <2>1. CASE s = r
      BY <1>2, <1>7, <2>1
    <2>2. CASE s # r
      <3>1. Same(s) /\ Revoking(s)
        BY <1>1, <2>2 DEF RevokeInv
      <3>2. k \in Stored /\ credentials[k].revoked
        BY <3>1 DEF RevokeInv, RevokeIsComplete, Same, Revoking
      <3> QED
        BY <1>3, <3>2 DEF Endures
    <2> QED
      BY <2>1, <2>2
  <1>11. RevokedByOwner'
    <2> SUFFICES ASSUME NEW k \in Stored, credentials'[k].revoked
                 PROVE  \E s \in Revokes : Names(s, k)'
      BY <1>3 DEF RevokedByOwner
    <2>1. /\ credentials'[k].agent = credentials[k].agent
          /\ credentials'[k].type = credentials[k].type
      BY <1>3 DEF Endures
    <2>2. CASE InScope(k, actor[r], Head(todo[r]), asked[r].id)
      <3>1. 1 \in 1..Len(todo[r]) /\ Visits(r)
        BY <1>2, <1>5 DEF RevokeInv, Revoking
      <3>2. PICK j \in 1..Len(asked[r].types) : asked[r].types[j] = todo[r][1]
        BY <3>1 DEF Visits
      <3>3. /\ credentials[k].agent = actor[r] /\ credentials[k].type = todo[r][1]
            /\ asked[r].id \in {k, None}
        BY <1>5, <2>2 DEF InScope
      <3> QED
        BY <1>2, <2>1, <3>2, <3>3 DEF Names
    <2>3. CASE credentials[k].revoked
      <3>1. PICK s \in Revokes : Names(s, k)
        BY <2>3 DEF RevokeInv, RevokedByOwner
      <3>2. actor'[s] = actor[s] /\ asked'[s] = asked[s]
        BY <1>1, <1>2 DEF Same
      <3> QED
        BY <2>1, <3>1, <3>2 DEF Names
    <2> QED
      BY <1>3, <2>2, <2>3
  <1> QED
    BY <1>8, <1>9, <1>10, <1>11 DEF RevokeInv

LEMMA UnchangedRevokesNothing ==
  ASSUME UNCHANGED credentials
  PROVE  RevokesNothing /\ Endures
  BY DEF RevokesNothing, Endures, Stored

LEMMA RevokeKeepsRevokes ==
  ASSUME Typed, RevokeInv, NEW r \in Revokes, RevokeStep(r)
  PROVE  RevokeInv'
  <1>1. /\ r \in Calls /\ {r} \in SUBSET Revokes
        /\ \A s \in Revokes \ {r} : Same(s)
    BY CallKinds, RevokeLocal
  <1>2. CASE /\ UNCHANGED credentials
             /\ pc'[r] # "revoked" /\ Revoking(r)'
             /\ actor[r] = None \/ (actor'[r] = actor[r] /\ asked'[r] = asked[r])
    <2>1. RevokesNothing /\ Endures
      BY <1>2, UnchangedRevokesNothing
    <2> QED
      BY <1>1, <1>2, <2>1, RevokesKept
  <1>3. ASSUME NEW a \in Agents, RefuseRevoke(r, a)
        PROVE  RevokeInv'
    BY <1>1, <1>2, <1>3 DEF RefuseRevoke, GoTo, Revoking, Typed, TypeOK
  <1>4. ASSUME NEW a \in Agents, NEW types \in Seq(Types), NEW id,
               BeginRevoke(r, a, types, id)
        PROVE  RevokeInv'
    <2>1. /\ pc[r] = "idle" /\ pc'[r] = "revoking" /\ UNCHANGED credentials
          /\ actor'[r] = a /\ asked'[r] = [types |-> types, id |-> id] /\ todo'[r] = types
          /\ baseline'[r] = {k \in Stored : \E i \in 1..Len(types) : InScope(k, a, types[i], id)}
      BY <1>1, <1>4 DEF BeginRevoke, GoTo, Typed, TypeOK
    <2>2. actor[r] = None
      BY <2>1 DEF RevokeInv, Revoking
    <2>3. Revoking(r)'
      BY <2>1 DEF Revoking, Visits, Pending, InScope, Stored
    <2>4. pc'[r] # "revoked"
      BY <2>1
    <2> QED
      BY <1>2, <2>1, <2>2, <2>3, <2>4
  <1>5. CASE RevokeFails(r)
    BY <1>1, <1>2, <1>5 DEF RevokeFails, GoTo, Revoking, Visits, Typed, TypeOK
  <1>6. \A type \in Types : <<type>> \in Seq(Types)
    OBVIOUS
  <1> QED
    BY <1>3, <1>4, <1>5, <1>6, MethodsAssumption, RevokeNextKeepsRevokes DEF RevokeStep

\* A Grant revokes nothing: what it saves is new.
LEMMA GrantRevokesNothing ==
  ASSUME Typed, NEW g \in Grants, GrantStep(g)
  PROVE  RevokesNothing
  <1>1. ASSUME NEW id \in CredentialIDs, NEW s \in Secrets, NEW l \in Lifetimes,
               SaveCredential(g, id, s, l)
        PROVE  RevokesNothing
    <2>1. /\ credentials'[id] = Record(g, s, l)
          /\ \A k \in CredentialIDs : k # id => credentials'[k] = credentials[k]
      BY <1>1 DEF SaveCredential, Typed, TypeOK
    <2>2. ~credentials'[id].revoked
      BY <2>1 DEF Record
    <2> QED
      BY <2>1, <2>2 DEF RevokesNothing, Stored
  <1> QED
    BY <1>1, UnchangedRevokesNothing DEF GrantStep, RefuseGrant, BeginGrant, GrantFails

LEMMA RevokeInvStep ==
  ASSUME Typed, RevokeInv, [Next]_vars
  PROVE  RevokeInv'
  <1>1. CASE (\A r \in Revokes : Same(r)) /\ Endures /\ RevokesNothing
    <2>1. {} \in SUBSET Revokes
      OBVIOUS
    <2> QED
      BY <1>1, <2>1, RevokesKept
  <1>2. ASSUME NEW g \in Grants, GrantStep(g)
        PROVE  RevokeInv'
    BY <1>1, <1>2, CallKinds, GrantLocal, GrantRevokesNothing
  <1>3. ASSUME NEW q \in Requests, RequestStep(q)
        PROVE  RevokeInv'
    BY <1>1, <1>3, CallKinds, RequestLocal, UnchangedRevokesNothing
  <1>4. CASE Outside
    BY <1>1, <1>4, CallKinds, OutsideLocal, UnchangedRevokesNothing
  <1> QED
    BY <1>2, <1>3, <1>4, Steps, RevokeKeepsRevokes

-----------------------------------------------------------------------------
(* Requests.                                                                *)

LEMMA InitRequests == Init => RequestInv
  BY CallKinds DEF Init, RequestInv, RequestHolds, Presented, Began, Matched

LEMMA RequestKept ==
  ASSUME NEW q \in Requests, RequestHolds(q), Same(q), Endures
  PROVE  RequestHolds(q)'
  <1> USE DEF Same
  <1>1. Presented(q)'
    BY DEF RequestHolds, Presented
  <1>2. ASSUME pc[q] = "matching", NEW k \in baseline[q]
        PROVE  k \in Stored' /\ Dead(k, started[q])'
    <2>1. k \in Stored /\ Dead(k, started[q])
      BY <1>2 DEF RequestHolds, Began
    <2> QED
      BY <2>1 DEF Dead, Endures
  <1>3. Began(q)'
    BY <1>2 DEF RequestHolds, Began
  <1>4. Matched(q)'
    BY DEF RequestHolds, Matched, Alone, MatchedSecret, Endures
  <1> QED
    BY <1>1, <1>3, <1>4 DEF RequestHolds

LEMMA RequestMoves ==
  ASSUME Typed, RequestInv, NEW q \in Requests, RequestStep(q)
  PROVE  RequestHolds(q)'
  <1>0. q \in Calls /\ RequestHolds(q) /\ UNCHANGED credentials
    BY CallKinds, RequestLocal DEF RequestInv
  <1>1. CASE pc'[q] \in {"refused", "failed"}
    BY <1>1 DEF RequestHolds, Presented, Began, Matched
  <1>2. ASSUME NEW p \in Presentations, RefusePresentation(q, p)
        PROVE  RequestHolds(q)'
    BY <1>0, <1>1, <1>2 DEF RefusePresentation, Refuse, GoTo, Typed, TypeOK
  <1>3. ASSUME NEW p \in Presentations, BeginAssertion(q, p)
        PROVE  RequestHolds(q)'
    <2>1. CASE Refuse(q, "idle", "unsupported_authentication_method")
      BY <1>0, <1>1, <2>1 DEF Refuse, GoTo, Typed, TypeOK
    <2>2. CASE GoTo(q, "idle", "asserting") /\ asked' = [asked EXCEPT ![q] = p]
               /\ UNCHANGED <<actor, started, todo, outcome, seen, problem, baseline>>
      <3>1. /\ pc[q] = "idle" /\ pc'[q] = "asserting" /\ asked'[q] = p
            /\ outcome'[q] = outcome[q] /\ baseline'[q] = baseline[q] /\ ~Ambiguous(p)
        BY <1>0, <1>3, <2>2 DEF BeginAssertion, GoTo, Typed, TypeOK
      <3> QED
        BY <1>0, <3>1 DEF RequestHolds, Presented, Began, Matched
    <2> QED
      BY <1>3, <2>1, <2>2 DEF BeginAssertion
  <1>4. CASE AcceptAssertion(q)
    <2>1. PICK v \in Assertions(asked[q]) : actor' = [actor EXCEPT ![q] = v.secret]
      BY <1>4 DEF AcceptAssertion
    <2>2. /\ pc[q] = "asserting" /\ pc'[q] = "matched" /\ actor'[q] = v.secret
          /\ asked'[q] = asked[q] /\ outcome'[q] = outcome[q] /\ baseline'[q] = baseline[q]
      BY <1>0, <1>4, <2>1 DEF AcceptAssertion, GoTo, Typed, TypeOK
    <2>3. /\ asked[q] \in Presentations /\ ~Ambiguous(asked[q])
          /\ outcome[q] = None /\ baseline[q] = {}
      BY <1>0, <2>2 DEF RequestHolds, Presented, Began
    <2>4. \A w \in Assertions(asked[q]) : w = v
      BY <2>3, OneValue DEF Assertions
    <2>5. v = [scheme |-> "AEP", secret |-> v.secret]
      BY <2>3, AssertionIsAgents
    <2>6. Assertions(asked[q]) = {v}
      BY <2>4
    <2>7. Assertions(asked'[q]) = {[scheme |-> "AEP", secret |-> actor'[q]]}
      BY <2>2, <2>5, <2>6
    <2> QED
      BY <2>2, <2>3, <2>7 DEF RequestHolds, Presented, Began, Matched, Alone
  <1>5. CASE RefuseAssertion(q)
    BY <1>0, <1>1, <1>5 DEF RefuseAssertion, Refuse, GoTo, Typed, TypeOK
  <1>6. ASSUME NEW p \in Presentations, BeginRequest(q, p)
        PROVE  RequestHolds(q)'
    <2>1. /\ pc[q] = "idle" /\ pc'[q] = "matching" /\ asked'[q] = p /\ started'[q] = now
          /\ outcome'[q] = outcome[q] /\ baseline'[q] = Stored \ LiveAt(now)
          /\ ~Ambiguous(p) /\ Assertions(p) = {} /\ now \in Nat
      BY <1>0, <1>6 DEF BeginRequest, GoTo, Typed, TypeOK
    <2>2. \A k \in Stored : credentials[k].expiresAt \in Nat
      BY DEF Stored, Typed, TypeOK, Credentials
    <2>3. \A k \in Stored \ LiveAt(now) : k \in Stored' /\ Dead(k, started[q])'
      BY <1>0, <2>1, <2>2 DEF LiveAt, Dead, Stored
    <2> QED
      BY <1>0, <2>1, <2>3 DEF RequestHolds, Presented, Began, Matched
  <1>7. CASE MatchNext(q)
    <2>1. PICK k \in Matches(q) :
            /\ GoTo(q, "matching", "matched")
            /\ actor' = [actor EXCEPT ![q] = credentials[k].agent]
            /\ outcome' = [outcome EXCEPT ![q] = k]
      BY <1>7 DEF MatchNext
    <2>2. /\ pc[q] = "matching" /\ pc'[q] = "matched" /\ outcome'[q] = k
          /\ actor'[q] = credentials[k].agent
          /\ asked'[q] = asked[q] /\ baseline'[q] = baseline[q]
      BY <1>0, <1>7, <2>1 DEF MatchNext, GoTo, Typed, TypeOK
    <2>3. /\ asked[q] \in Presentations /\ ~Ambiguous(asked[q]) /\ Assertions(asked[q]) = {}
          /\ started[q] \in Nat /\ \A d \in baseline[q] : Dead(d, started[q])
      BY <1>0, <2>2 DEF RequestHolds, Presented, Began
    <2>4. /\ k \in Stored /\ k # None
          /\ ~credentials[k].revoked /\ credentials[k].expiresAt > started[q]
          /\ PresentedAs(credentials[k].type, asked[q]) = {credentials[k].secret}
      BY NoneAssumption DEF Matches, LiveAt, Stored
    <2>5. credentials[k].expiresAt \in Nat
      BY <2>4 DEF Stored, Typed, TypeOK, Credentials
    <2>6. k \notin baseline[q]
      BY <2>3, <2>4, <2>5 DEF Dead
    <2>7. MatchedSecret(q)'
      BY <1>0, <2>2, <2>4 DEF MatchedSecret, Stored, PresentedAs
    <2> QED
      BY <2>2, <2>3, <2>4, <2>6, <2>7 DEF RequestHolds, Presented, Began, Matched, Alone
  <1>8. CASE SkipMethod(q)
    <2>1. Endures /\ pc'[q] = pc[q] /\ asked'[q] = asked[q] /\ started'[q] = started[q]
          /\ actor'[q] = actor[q] /\ outcome'[q] = outcome[q] /\ baseline'[q] = baseline[q]
      BY <1>0, <1>8, UnchangedEndures DEF SkipMethod, GoTo, Typed, TypeOK
    <2>2. pc[q] = "matching"
      BY <1>8 DEF SkipMethod, GoTo
    <2>3. Presented(q)' /\ Matched(q)'
      BY <1>0, <2>1, <2>2 DEF RequestHolds, Presented, Matched
    <2>4. \A k \in baseline[q] : k \in Stored' /\ Dead(k, started[q])'
      BY <1>0, <2>1, <2>2 DEF RequestHolds, Began, Dead, Endures
    <2>5. Began(q)'
      BY <1>0, <2>1, <2>2, <2>4 DEF RequestHolds, Began
    <2> QED
      BY <2>3, <2>5 DEF RequestHolds
  <1>9. CASE NothingMatches(q)
    BY <1>0, <1>1, <1>9 DEF NothingMatches, Refuse, GoTo, Typed, TypeOK
  <1>10. CASE CheckEnrollment(q)
    <2>1. CASE standing[actor[q]] = "active"
      <3>1. Endures /\ pc[q] = "matched" /\ pc'[q] = "authenticated" /\ asked'[q] = asked[q]
            /\ actor'[q] = actor[q] /\ outcome'[q] = outcome[q] /\ baseline'[q] = baseline[q]
        BY <1>0, <1>10, <2>1, UnchangedEndures DEF CheckEnrollment, GoTo, Typed, TypeOK
      <3>2. Presented(q)' /\ Began(q)'
        BY <1>0, <3>1 DEF RequestHolds, Presented, Began
      <3>3. Matched(q)'
        BY <1>0, <3>1 DEF RequestHolds, Matched, Alone, MatchedSecret, Endures
      <3> QED
        BY <3>2, <3>3 DEF RequestHolds
    <2>2. CASE standing[actor[q]] # "active"
      BY <1>0, <1>1, <1>10, <2>2 DEF CheckEnrollment, Refuse, GoTo, Typed, TypeOK
    <2> QED
      BY <2>1, <2>2
  <1>11. CASE RequestFails(q)
    BY <1>0, <1>1, <1>11 DEF RequestFails, Typed, TypeOK
  <1> QED
    BY <1>2, <1>3, <1>4, <1>5, <1>6, <1>7, <1>8, <1>9, <1>10, <1>11 DEF RequestStep

LEMMA RequestInvStep ==
  ASSUME Typed, RequestInv, [Next]_vars
  PROVE  RequestInv'
  <1>1. ASSUME NEW g \in Grants, GrantStep(g)
        PROVE  RequestInv'
    BY <1>1, CallKinds, GrantLocal, RequestKept DEF RequestInv
  <1>2. ASSUME NEW r \in Revokes, RevokeStep(r)
        PROVE  RequestInv'
    BY <1>2, CallKinds, RevokeLocal, RequestKept DEF RequestInv
  <1>3. ASSUME NEW q \in Requests, RequestStep(q)
        PROVE  RequestInv'
    <2>1. \A p \in Requests : p # q => RequestHolds(p)'
      BY <1>3, CallKinds, RequestLocal, UnchangedEndures, RequestKept DEF RequestInv
    <2>2. RequestHolds(q)'
      BY <1>3, RequestMoves
    <2> QED
      BY <2>1, <2>2 DEF RequestInv
  <1>4. CASE Outside
    BY <1>4, CallKinds, OutsideLocal, UnchangedEndures, RequestKept DEF RequestInv
  <1> QED
    BY <1>1, <1>2, <1>3, <1>4, Steps

-----------------------------------------------------------------------------
(* Theorems.                                                                *)

CredentialsInv == Typed /\ GrantInv /\ RevokeInv /\ RequestInv

THEOREM CredentialsInvariant == Spec => []CredentialsInv
  <1>1. Init => CredentialsInv
    BY InitTyped, InitGrants, InitRevokes, InitRequests DEF CredentialsInv
  <1>2. CredentialsInv /\ [Next]_vars => CredentialsInv'
    BY TypedStep, GrantInvStep, RevokeInvStep, RequestInvStep DEF CredentialsInv
  <1> QED
    BY <1>1, <1>2, PTL DEF Spec

\* Types: no handler leaves a value of another kind behind.
THEOREM CredentialsTypeCorrect == Spec => []TypeOK
  <1>1. CredentialsInv => TypeOK
    BY DEF CredentialsInv, Typed
  <1> QED
    BY <1>1, CredentialsInvariant, PTL

\* A Revoke that succeeds has revoked all it found, whatever was granted,
\* revoked or used while it went from grant type to grant type.
THEOREM RevokesAreComplete == Spec => []RevokeIsComplete
  <1>1. CredentialsInv => RevokeIsComplete
    BY DEF CredentialsInv, RevokeInv
  <1> QED
    BY <1>1, CredentialsInvariant, PTL

\* No credential is revoked but by a Revoke of its own Agent that names its grant
\* type, and no identifier but its own (credentials.go:285, 302).
THEOREM RevokesAreOwned == Spec => []RevokedByOwner
  <1>1. CredentialsInv => RevokedByOwner
    BY DEF CredentialsInv, RevokeInv
  <1> QED
    BY <1>1, CredentialsInvariant, PTL

\* A credential that was dead when a request began does not authenticate it.
THEOREM TheDeadStayDead == Spec => []DeadStaysDead
  <1>1. CredentialsInv => DeadStaysDead
    BY DEF CredentialsInv, RequestInv, RequestHolds, Matched, DeadStaysDead
  <1> QED
    BY <1>1, CredentialsInvariant, PTL

\* Who authenticates presented one assertion of its own, or the secret of one
\* Grant, and is who it was granted to.
THEOREM RequestsAreFaithful == Spec => []AuthenticatedAsGranted
  <1>1. CredentialsInv => AuthenticatedAsGranted
    <2> SUFFICES ASSUME CredentialsInv, NEW q \in Requests, pc[q] = "authenticated"
                 PROVE  /\ ~Ambiguous(asked[q])
                        /\ Alone(q)
                        /\ outcome[q] # None =>
                             /\ \E g \in Grants : /\ pc[g] = "granted"
                                                  /\ outcome[g] = outcome[q]
                                                  /\ actor[g] = actor[q]
                             /\ \A g \in Grants :
                                  /\ pc[g] = "granted"
                                  /\ asked[g] = credentials[outcome[q]].type
                                  /\ PresentedAs(asked[g], asked[q])
                                       = {credentials[outcome[g]].secret}
                                  => actor[g] = actor[q]
      BY DEF AuthenticatedAsGranted, Alone
    <2>1. ~Ambiguous(asked[q]) /\ Alone(q) /\ (outcome[q] # None => MatchedSecret(q))
      BY DEF CredentialsInv, RequestInv, RequestHolds, Presented, Matched
    <2>2. ASSUME outcome[q] # None
          PROVE  \E g \in Grants :
                   pc[g] = "granted" /\ outcome[g] = outcome[q] /\ actor[g] = actor[q]
      <3>1. PICK g \in Grants : pc[g] = "granted" /\ outcome[g] = outcome[q]
        BY <2>1, <2>2 DEF CredentialsInv, GrantInv, StoredWasGranted, MatchedSecret
      <3>2. credentials[outcome[g]].agent = actor[g]
        BY <3>1 DEF CredentialsInv, GrantInv, Granted
      <3> QED
        BY <2>1, <2>2, <3>1, <3>2 DEF MatchedSecret
    <2>3. ASSUME outcome[q] # None, NEW g \in Grants, pc[g] = "granted",
                 asked[g] = credentials[outcome[q]].type,
                 PresentedAs(asked[g], asked[q]) = {credentials[outcome[g]].secret}
          PROVE  actor[g] = actor[q]
      <3>1. /\ outcome[g] \in Stored /\ credentials[outcome[g]].agent = actor[g]
            /\ credentials[outcome[g]].type = asked[g]
        BY <2>3 DEF CredentialsInv, GrantInv, Granted
      <3>2. credentials[outcome[g]].secret = credentials[outcome[q]].secret
        BY <2>1, <2>3 DEF MatchedSecret
      <3>3. outcome[g] = outcome[q]
        BY <2>1, <2>3, <3>1, <3>2
        DEF CredentialsInv, GrantInv, SecretsAreDistinct, MatchedSecret
      <3> QED
        BY <2>1, <2>3, <3>1, <3>3 DEF MatchedSecret
    <2> QED
      BY <2>1, <2>2, <2>3
  <1> QED
    BY <1>1, CredentialsInvariant, PTL
================================================================================
