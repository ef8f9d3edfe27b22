--------------------------- MODULE AuthenticationProofs ---------------------------
(***************************************************************************)
(* The two ends of an authenticated request: what an Agent sends, wherever *)
(* Services redirect and challenge it, and how often a Service takes it.   *)
(*                                                                         *)
(* The replay guard holds for any number of requests and assertions, any   *)
(* skew and any delay of the verifier: ReplayInv is inductive.  What the   *)
(* Agent sends, for any number of redirects, challenges, documents and     *)
(* credentials, is as promised: ResourceInv says of a request what it has  *)
(* sent, whose headers it carries and where it is.                         *)
(***************************************************************************)
EXTENDS ReplayGuard, AgentResource, TLAPS

-----------------------------------------------------------------------------
(* The replay guard of a Service.                                          *)

\* The key of an assertion is one the store ranges over, and the expiry of a
\* record does not wrap around.
LEMMA KeyInKeys ==
  ASSUME NEW a \in Assertions
  PROVE  /\ a.key \in Keys
         /\ Recordable(a) => ReplayExpiry(a) = a.expiresAt + Skew /\ ReplayExpiry(a) \in Nat
  BY AssertionsAssumption, SkewAssumption DEF Keys, ReplayExpiry, Recordable, Plus

\* A valid assertion has a record that has not expired.
LEMMA ValidIsNotStale ==
  ASSUME NEW a \in Assertions, NEW t \in Nat, ValidAt(a, t), Recordable(a)
  PROVE  ReplayExpiry(a) > t
  <1>1. ReplayExpiry(a) = a.expiresAt + Skew
    BY KeyInKeys
  <1>2. a.expiresAt > t - Skew /\ a.expiresAt \in Int /\ Skew \in Int
    BY AssertionsAssumption, SkewAssumption DEF ValidAt
  <1> QED
    BY ONLY <1>1, <1>2, t \in Nat

\* Eviction by a captured time drops only what has expired by now.
LEMMA EvictionDropsExpired ==
  ASSUME ReplayTypeOK, NEW t \in Nat, t <= now
  PROVE  /\ Unexpired(t) \in [Keys -> Nat \cup {Nil}]
         /\ \A k \in Keys : replay[k] # Nil =>
              Unexpired(t)[k] = replay[k] \/ now >= replay[k]
  BY DEF ReplayTypeOK, Unexpired

\* No request, no record.
LEMMA InitInv == ReplayInit => ReplayInv
  <1>1. ReplayInit => ReplayTypeOK
    BY DEF ReplayInit, ReplayTypeOK, Locations
  <1>2. ReplayInit => \A c \in Calls : pc[c] = "idle"
    BY DEF ReplayInit
  <1> QED
    BY <1>1, <1>2
    DEF ReplayInv, CapturedIsPast, ConsumedWasValid, RecordedOrExpired, RecordIsNeverStale,
        AcceptedOnceInWindow, Recognized

\* A request arrives: it captures the present.
LEMMA PresentInv ==
  ASSUME ReplayInv, NEW c \in Calls, NEW a \in Assertions, Present(c, a)
  PROVE  ReplayInv'
  <1> USE DEF ReplayInv, Present, Move
  <1>1. ReplayTypeOK'
    BY DEF ReplayTypeOK, Locations
  <1>2. CapturedIsPast'
    BY DEF ReplayTypeOK, CapturedIsPast
  <1>3. ConsumedWasValid' /\ RecordIsNeverStale'
    BY DEF ReplayTypeOK, ConsumedWasValid, RecordIsNeverStale, StaleRecord
  <1>4. RecordedOrExpired' /\ AcceptedOnceInWindow'
    BY DEF ReplayTypeOK, RecordedOrExpired, AcceptedOnceInWindow, Recognized
  <1> QED
    BY <1>1, <1>2, <1>3, <1>4

\* The verifier answers for a valid assertion.
LEMMA VerifyInv ==
  ASSUME ReplayInv, NEW c \in Calls, Verify(c)
  PROVE  ReplayInv'
  <1> USE DEF ReplayInv, Verify, Move
  <1>1. ReplayTypeOK'
    BY DEF ReplayTypeOK, Locations
  <1>2. CapturedIsPast' /\ ConsumedWasValid'
    BY DEF ReplayTypeOK, CapturedIsPast, ConsumedWasValid
  <1>3. ~StaleRecord(c)
    <2>1. assertion[c] \in Assertions /\ captured[c] \in Nat
      BY DEF CapturedIsPast
    <2>2. ReplayExpiry(assertion[c]) > captured[c] /\ ReplayExpiry(assertion[c]) \in Nat
      BY <2>1, ValidIsNotStale, KeyInKeys
    <2> QED
      BY <2>1, <2>2 DEF StaleRecord
  <1>4. RecordIsNeverStale'
    BY <1>3 DEF ReplayTypeOK, RecordIsNeverStale, StaleRecord
  <1>5. RecordedOrExpired' /\ AcceptedOnceInWindow'
    BY DEF ReplayTypeOK, RecordedOrExpired, AcceptedOnceInWindow, Recognized
  <1> QED
    BY <1>1, <1>2, <1>4, <1>5

\* A refusal before the store is asked, or an error, touches no record.
LEMMA RefuseInv ==
  ASSUME ReplayInv, NEW c \in Calls, Refuse(c) \/ ConsumeFails(c)
  PROVE  ReplayInv'
  <1> USE DEF ReplayInv, Refuse, ConsumeFails, Move
  <1>1. ReplayTypeOK'
    BY DEF ReplayTypeOK, Locations
  <1>2. CapturedIsPast'
    BY DEF ReplayTypeOK, CapturedIsPast
  <1>3. ConsumedWasValid' /\ RecordIsNeverStale'
    BY DEF ReplayTypeOK, ConsumedWasValid, RecordIsNeverStale, StaleRecord
  <1>4. RecordedOrExpired' /\ AcceptedOnceInWindow'
    BY DEF ReplayTypeOK, RecordedOrExpired, AcceptedOnceInWindow, Recognized
  <1> QED
    BY <1>1, <1>2, <1>3, <1>4

\* A replay is refused: only expired records are dropped.
LEMMA RefuseReplayInv ==
  ASSUME ReplayInv, NEW c \in Calls, RefuseReplay(c)
  PROVE  ReplayInv'
  <1> USE DEF ReplayInv, RefuseReplay, Move
  <1>1. assertion[c] \in Assertions /\ captured[c] \in Nat /\ captured[c] <= now
    BY DEF CapturedIsPast
  <1>2. /\ Unexpired(captured[c]) \in [Keys -> Nat \cup {Nil}]
        /\ \A k \in Keys : replay[k] # Nil =>
             Unexpired(captured[c])[k] = replay[k] \/ now >= replay[k]
    BY <1>1, EvictionDropsExpired
  <1>3. ReplayTypeOK'
    BY <1>2 DEF ReplayTypeOK, Locations
  <1>4. CapturedIsPast'
    BY DEF ReplayTypeOK, CapturedIsPast
  <1>5. ConsumedWasValid' /\ RecordIsNeverStale'
    BY DEF ReplayTypeOK, ConsumedWasValid, RecordIsNeverStale, StaleRecord
  <1>6. RecordedOrExpired'
    BY <1>2, KeyInKeys, NilAssumption
       DEF ReplayTypeOK, RecordedOrExpired, CapturedIsPast, Recognized
  <1>7. AcceptedOnceInWindow'
    BY DEF ReplayTypeOK, AcceptedOnceInWindow, Recognized
  <1> QED
    BY <1>3, <1>4, <1>5, <1>6, <1>7

\* A request is recognized: whoever was recognized with its key before it has
\* left its window, because the store held no record of the key.
LEMMA AcceptInv ==
  ASSUME ReplayInv, NEW c \in Calls, Accept(c)
  PROVE  ReplayInv'
  <1> USE DEF ReplayInv, Accept, Move
  <1> DEFINE key == assertion[c].key
             expiry == ReplayExpiry(assertion[c])
  <1>1. assertion[c] \in Assertions /\ captured[c] \in Nat /\ captured[c] <= now
    BY DEF CapturedIsPast
  <1>2. /\ Unexpired(captured[c]) \in [Keys -> Nat \cup {Nil}]
        /\ \A k \in Keys : replay[k] # Nil =>
             Unexpired(captured[c])[k] = replay[k] \/ now >= replay[k]
    BY <1>1, EvictionDropsExpired
  <1>3. key \in Keys /\ expiry \in Nat /\ Recordable(assertion[c])
    BY <1>1, KeyInKeys DEF ConsumedWasValid
  <1>4. ReplayTypeOK'
    BY <1>2, <1>3 DEF ReplayTypeOK, Locations
  <1>5. CapturedIsPast'
    BY DEF ReplayTypeOK, CapturedIsPast
  <1>6. ConsumedWasValid' /\ RecordIsNeverStale'
    BY DEF ReplayTypeOK, ConsumedWasValid, RecordIsNeverStale, StaleRecord
  <1>7. \A d \in Calls : Recognized(d) /\ assertion[d].key = key =>
          now >= ReplayExpiry(assertion[d])
    BY <1>2, <1>3, KeyInKeys, NilAssumption DEF RecordedOrExpired, CapturedIsPast, Recognized
  <1>8. RecordedOrExpired'
    <2>1. ASSUME NEW d \in Calls, Recognized(d)'
          PROVE  /\ acceptedAt'[d] \in Nat /\ Recordable(assertion[d])
                 /\ \/ replay'[assertion[d].key] = ReplayExpiry(assertion[d])
                    \/ now >= ReplayExpiry(assertion[d])
      <3>1. CASE d = c
        BY <1>2, <1>3, <3>1 DEF ReplayTypeOK
      <3>2. CASE d # c /\ assertion[d].key = key
        BY <1>7, <2>1, <3>2 DEF ReplayTypeOK, RecordedOrExpired, Recognized
      <3>3. CASE d # c /\ assertion[d].key # key
        <4>1. Recognized(d) /\ assertion[d] \in Assertions /\ Recordable(assertion[d])
          BY <2>1, <3>3 DEF ReplayTypeOK, CapturedIsPast, RecordedOrExpired, Recognized
        <4>2. assertion[d].key \in Keys /\ ReplayExpiry(assertion[d]) \in Nat
          BY <4>1, KeyInKeys
        <4> QED
          BY <1>2, <3>3, <4>1, <4>2, NilAssumption DEF ReplayTypeOK, RecordedOrExpired
      <3> QED
        BY <3>1, <3>2, <3>3
    <2> QED
      BY <2>1 DEF RecordedOrExpired, Recognized
  <1>9. AcceptedOnceInWindow'
    <2>1. \A d \in Calls : d # c /\ Recognized(d) /\ assertion[d].key = key =>
            now >= assertion[d].expiresAt + Skew
      BY <1>7, KeyInKeys DEF CapturedIsPast, RecordedOrExpired, Recognized
    <2> QED
      BY <2>1 DEF ReplayTypeOK, AcceptedOnceInWindow, Recognized
  <1> QED
    BY <1>4, <1>5, <1>6, <1>8, <1>9

\* Time passes.
LEMMA TickInv ==
  ASSUME ReplayInv, Tick
  PROVE  ReplayInv'
  <1> USE DEF ReplayInv, Tick
  <1>1. ReplayTypeOK' /\ CapturedIsPast'
    BY DEF ReplayTypeOK, CapturedIsPast
  <1>2. ConsumedWasValid' /\ RecordIsNeverStale' /\ AcceptedOnceInWindow'
    BY DEF ConsumedWasValid, RecordIsNeverStale, StaleRecord, AcceptedOnceInWindow, Recognized
  <1>3. RecordedOrExpired'
    BY KeyInKeys DEF ReplayTypeOK, RecordedOrExpired, CapturedIsPast, Recognized
  <1> QED
    BY <1>1, <1>2, <1>3

\* ReplayInv.  The records of the store cover every assertion that was taken
\* and may still be valid, whatever time each request captured.
THEOREM ReplayInvariant == ReplaySpec => []ReplayInv
  <1>1. ASSUME ReplayInv, [ReplayNext]_replayVars
        PROVE  ReplayInv'
    <2>1. ASSUME NEW c \in Calls, NEW a \in Assertions, Present(c, a)
          PROVE  ReplayInv'
      BY <1>1, <2>1, PresentInv
    <2>2. ASSUME NEW c \in Calls,
                 \/ Verify(c) \/ Refuse(c) \/ Accept(c) \/ RefuseReplay(c) \/ ConsumeFails(c)
          PROVE  ReplayInv'
      BY <1>1, <2>2, VerifyInv, RefuseInv, AcceptInv, RefuseReplayInv
    <2>3. ASSUME UNCHANGED replayVars
          PROVE  ReplayInv'
      BY <1>1, <2>3
      DEF replayVars, ReplayInv, ReplayTypeOK, CapturedIsPast, ConsumedWasValid, RecordedOrExpired,
          RecordIsNeverStale, StaleRecord, AcceptedOnceInWindow, Recognized
    <2> QED
      BY <1>1, <2>1, <2>2, <2>3, TickInv DEF ReplayNext
  <1> QED
    BY InitInv, <1>1, PTL DEF ReplaySpec

\* ReplayTypeOK.  A record's expiry and a captured time are times, whatever the skew.
THEOREM ReplayTypeCorrect == ReplaySpec => []ReplayTypeOK
  <1>1. ReplayInv => ReplayTypeOK
    BY DEF ReplayInv
  <1> QED
    BY <1>1, ReplayInvariant, PTL

\* AcceptedOnceInWindow.  However long the verifier takes and however requests
\* interleave, no subject and jti is recognized twice within the window.
THEOREM NoReplayInWindow == ReplaySpec => []AcceptedOnceInWindow
  <1>1. ReplayInv => AcceptedOnceInWindow
    BY DEF ReplayInv
  <1> QED
    BY <1>1, ReplayInvariant, PTL

\* RecordIsNeverStale.  The replay store never refuses a valid assertion's
\* record as expired.
THEOREM ValidAssertionIsRecordable == ReplaySpec => []RecordIsNeverStale
  <1>1. ReplayInv => RecordIsNeverStale
    BY DEF ReplayInv
  <1> QED
    BY <1>1, ReplayInvariant, PTL

-----------------------------------------------------------------------------
(* Protected resources.  The invariant says what a request knows at each    *)
(* stage: that it left its origin only with a challenge pending (Travelled), *)
(* whose headers it carries (Bearing), and what it sent and has not          *)
(* abandoned yet (Sent).                                                     *)

Travelling == stage \notin {"idle", "done"}

\* Past a redirect to another origin, authentication answers a challenge.
Travelled ==
  /\ stage = "idle" => message = None /\ redirects = 0
  /\ Travelling => request \in Requests /\ ValidRequest(request) /\ target \in URLs
  /\ \A k \in store : k.id \in Credentials /\ k.did \in Dids
  /\ Travelling /\ ~requireChallenge => AtHome
  /\ requireChallenge /\ stage \in {"inspect", "authenticate", "merge"} => asked = {Origin[target]}

\* Generated headers are of a Service at this origin, for this very URL.
Bearing ==
  stage = "merge" =>
    /\ headers.carrier \in {"api-key", request.carrier}
    /\ headers.by \in Bearers
    /\ Home[headers.by.did] = Origin[target] /\ headers.by.resource \in {target, None}

\* A request sent stays as promised until a redirect makes the call forget it.
Sent ==
  message # None =>
    /\ Travelling => message.url = target
    /\ message.by # None => stage \in {"awaiting", "done"}
    /\ SentAsPromised

ResourceInv == Travelled /\ Bearing /\ Sent

LEMMA ResourceInit == Init => ResourceInv
  BY DEF Init, ResourceInv, Travelled, Travelling, Bearing, Sent

-----------------------------------------------------------------------------
(* Steps that send nothing.                                                 *)

\* What was sent stays as promised.
LEMMA PromiseStands ==
  ASSUME SentAsPromised,
         UNCHANGED <<message, request, target, requireChallenge>>,
         message = None \/ message.by = None \/ UNCHANGED <<headers, asked>>
  PROVE  SentAsPromised'
  BY DEF SentAsPromised, BoundToOrigin, CallerHeadersStay, AskedFirst, OnePresentation,
         Original, Brought, AtHome, Hidden, StartsRecognized, Presented,
         selectAuthorizationPresentation

LEMMA Fetches ==
  ASSUME ResourceInv, NEW r \in Requests, FetchProtectedResource(r)
  PROVE  ResourceInv'
  BY ResourceAssumption DEF FetchProtectedResource, Return, ResourceInv,
                            Travelled, Travelling, Bearing, Sent, AtHome

\* The call goes on at its target, short of the headers it would send.
LEMMA Proceeds ==
  ASSUME ResourceInv, stage \in {"policy", "inspect", "authenticate"},
         UNCHANGED <<request, target, requireChallenge, asked, message, store>>,
         \/ stage' \in {"policy", "anonymous", "done"}
         \/ stage' \in {"inspect", "authenticate"} /\ (stage = "policy" => ~requireChallenge)
  PROVE  ResourceInv'
  <1>1. message # None => SentAsPromised'
    BY PromiseStands DEF ResourceInv, Sent
  <1> QED
    BY <1>1 DEF ResourceInv, Travelled, Travelling, Bearing, Sent, AtHome

\* The call ends, with what it sent behind it.
LEMMA Ends ==
  ASSUME ResourceInv, stage' = "done",
         UNCHANGED <<request, target, requireChallenge, headers, asked, message, store>>
  PROVE  ResourceInv'
  <1>1. message # None => SentAsPromised'
    BY PromiseStands DEF ResourceInv, Sent
  <1> QED
    BY <1>1 DEF ResourceInv, Travelled, Travelling, Bearing, Sent

LEMMA Follows ==
  ASSUME ResourceInv, NEW next \in URLs, Redirected(next)
  PROVE  ResourceInv'
  <1>1. CASE stage' = "policy"
    BY <1>1 DEF Redirected, Return, ResourceInv, Travelled, Travelling, Bearing, Sent, AtHome
  <1>2. CASE stage' = "done"
    BY <1>2, Ends DEF Redirected, Return, callVars, hopVars
  <1> QED
    BY <1>1, <1>2 DEF Redirected, Return

LEMMA IsChallenged ==
  ASSUME ResourceInv, NEW did, NEW origin, parseResourceChallenge(did, origin)
  PROVE  ResourceInv'
  <1>1. message # None => SentAsPromised'
    BY PromiseStands DEF parseResourceChallenge, ResourceInv, Sent, callVars
  <1>2. CASE stage' = "inspect"
    BY <1>1, <1>2 DEF parseResourceChallenge, Return, ResourceInv, Travelled, Travelling,
                      Bearing, Sent, AtHome, callVars
  <1>3. CASE stage' = "done"
    BY <1>1, <1>3 DEF parseResourceChallenge, ResourceInv, Travelled, Travelling, Bearing, Sent,
                      callVars
  <1> QED
    BY <1>2, <1>3 DEF parseResourceChallenge, Return

-----------------------------------------------------------------------------
(* Headers, and the requests that are sent.                                 *)

\* A validated identity is at home at the target's origin.
LEMMA SelectsHeaders ==
  ASSUME ResourceInv, NEW did \in Dids, NEW methods,
         credentialHeaders(did, methods) \/ signAssertion(did, methods)
  PROVE  ResourceInv'
  <1>1. /\ headers'.carrier \in {"api-key", request.carrier}
        /\ headers'.by \in Bearers
        /\ Home[headers'.by.did] = Origin[target]
        /\ headers'.by.resource \in {target, None}
    <2>1. CASE credentialHeaders(did, methods)
      <3>1. PICK k \in Preferred(did, methods) :
              headers' = [carrier |-> IF k.type = "api-key" THEN "api-key" ELSE request.carrier,
                          by |-> [did |-> k.did, credential |-> k.id, resource |-> None]]
        BY <2>1 DEF credentialHeaders
      <3>2. k.did = did /\ k.id \in Credentials
        BY <3>1 DEF Preferred, Found, validateStoredCredential, ResourceInv, Travelled
      <3> QED
        BY <2>1, <3>1, <3>2 DEF credentialHeaders, validateServiceIdentity, Authority, Bearers
    <2>2. CASE signAssertion(did, methods)
      <3>1. target \in URLs
        BY <2>2 DEF signAssertion, ResourceInv, Travelled, Travelling
      <3> QED
        BY <2>2, <3>1 DEF signAssertion, validateServiceIdentity, Authority, Bearers
    <2> QED
      BY <2>1, <2>2
  <1>2. /\ stage = "authenticate" /\ stage' = "merge"
        /\ UNCHANGED <<request, target, requireChallenge, asked, message, store>>
    BY DEF credentialHeaders, signAssertion, callVars
  <1>3. message # None => SentAsPromised'
    BY <1>2, PromiseStands DEF ResourceInv, Sent
  <1> QED
    BY <1>1, <1>2, <1>3 DEF ResourceInv, Travelled, Travelling, Bearing, Sent, AtHome

\* Changes of the credential store alone: the call's own Grant, and other calls.
LEMMA StoreChanges ==
  ASSUME ResourceInv, \A k \in store' : k.id \in Credentials /\ k.did \in Dids,
         UNCHANGED <<stage, request, target, redirects, requireChallenge, headers, asked, message>>
  PROVE  ResourceInv'
  <1>1. message # None => SentAsPromised'
    BY PromiseStands DEF ResourceInv, Sent
  <1> QED
    BY <1>1 DEF ResourceInv, Travelled, Travelling, Bearing, Sent, AtHome

LEMMA Grants ==
  ASSUME ResourceInv, NEW did, NEW methods, NEW id \in Credentials, Grant(did, methods, id)
  PROVE  ResourceInv'
  BY StoreChanges DEF Grant, ResourceInv, Travelled, callVars

LEMMA OthersStep ==
  ASSUME ResourceInv,
         \/ \E k \in [id : Credentials, did : Dids,
                     type : Methods \ {JWT}] : SaveCredential(k)
         \/ \E k \in store : ForgetCredential(k)
  PROVE  ResourceInv'
  BY StoreChanges DEF SaveCredential, ForgetCredential, ResourceInv, Travelled, callVars,
                      hopVars

\* The headers of a message and what the Service makes of them.
LEMMA NothingIsPresented ==
  /\ <<>> \in Fields /\ Len(<<>>) = 0 /\ Presented(<<>>) = {}
  /\ <<"aep">> \in Fields /\ Len(<<"aep">>) = 1 /\ Presented(<<"aep">>) = {1}
  BY DEF Fields, Values, Presented

LEMMA OneIsSelected ==
  ASSUME NEW m, NEW brought \in Fields, NEW carrier \in Carriers \cup {"api-key"},
         m.dedicated = IF carrier = "dedicated" THEN <<"aep">> ELSE <<>>,
         m.standard = IF carrier = "standard" THEN <<"aep">>
                      ELSE IF StartsRecognized(brought) THEN <<>> ELSE brought
  PROVE  selectAuthorizationPresentation(m) =
           IF carrier # "standard" /\ Hidden(brought) THEN "ambiguous"
           ELSE IF carrier = "api-key" THEN None
           ELSE carrier
  <1>1. Len(brought) \in Nat /\ (brought = <<>> => Presented(brought) = {})
    BY NothingIsPresented DEF Fields
  <1>2. ASSUME Hidden(brought)
        PROVE  Len(brought) > 1
    <2>1. PICK i \in 1..Len(brought) : brought[i] = "aep"
      BY <1>2 DEF Hidden, Presented
    <2>2. i # 1
      BY <1>2, <2>1 DEF Hidden, StartsRecognized
    <2> QED
      BY <1>1, <2>1, <2>2
  <1>3. CASE carrier = "standard"
    <2>1. m.dedicated = <<>> /\ m.standard = <<"aep">>
      BY <1>3
    <2>2. Presented(m.standard) # {} /\ Len(m.standard) = 1
      BY <2>1, NothingIsPresented
    <2> QED
      BY <1>3, <2>1, <2>2 DEF selectAuthorizationPresentation
  <1>4. CASE carrier # "standard" /\ StartsRecognized(brought)
    <2>1. m.standard = <<>> /\ ~Hidden(brought)
      BY <1>4 DEF Hidden
    <2> QED
      BY <1>4, <2>1, NothingIsPresented DEF selectAuthorizationPresentation, Carriers
  <1>5. CASE carrier # "standard" /\ ~StartsRecognized(brought)
    <2>1. m.standard = brought /\ (Hidden(brought) <=> Presented(brought) # {})
      BY <1>1, <1>5 DEF Hidden
    <2> QED
      BY <1>1, <1>2, <1>5, <2>1, NothingIsPresented
         DEF selectAuthorizationPresentation, Carriers
  <1> QED
    BY <1>3, <1>4, <1>5

LEMMA BroughtIsField ==
  ASSUME request \in Requests
  PROVE  Brought \in Fields /\ (~AtHome => Brought = <<>>)
  BY ResourceAssumption, NothingIsPresented DEF Brought

LEMMA SendsAnonymous ==
  ASSUME ResourceInv, SendAnonymous
  PROVE  ResourceInv'
  <1>1. /\ message'.url = target /\ message'.standard = <<>> /\ message'.by = None
        /\ message'.additional = FALSE /\ message'.caller = ~requireChallenge
    BY DEF SendAnonymous, Nothing
  <1>2. /\ stage = "anonymous" /\ stage' = "awaiting"
        /\ UNCHANGED <<request, target, requireChallenge, headers, asked, store>>
    BY DEF SendAnonymous, GoTo, callVars, hopVars
  <1>3. ~requireChallenge => Origin[target] = Origin[request.url]
    BY <1>2 DEF ResourceInv, Travelled, Travelling, AtHome
  <1>a. "other" \notin ToSet(message'.standard)
    BY <1>1 DEF ToSet
  <1>4. SentAsPromised'
    BY <1>1, <1>2, <1>3, <1>a DEF SentAsPromised, BoundToOrigin, CallerHeadersStay,
                                  AskedFirst, OnePresentation, Original
  <1> QED
    BY <1>1, <1>2, <1>4 DEF ResourceInv, Travelled, Travelling, Bearing, Sent, AtHome

\* mergeResourceHeaders leaves one presentation, and the caller's headers only
\* at the origin it called.
LEMMA SendsAuthenticated ==
  ASSUME ResourceInv, SendAuthenticated
  PROVE  ResourceInv'
  <1>1. /\ stage = "merge" /\ stage' = "awaiting" /\ message' = Merged
        /\ UNCHANGED <<request, target, requireChallenge, headers, asked, store>>
    BY DEF SendAuthenticated, GoTo, callVars, hopVars
  <1>2. /\ message'.url = target /\ message'.by = headers.by
        /\ message'.caller = AtHome
        /\ message'.additional = (AtHome /\ request.extra # "none")
        /\ message'.dedicated = authorizationHeaders("dedicated")
        /\ message'.standard = IF headers.carrier = "standard" \/ StartsRecognized(Brought)
                               THEN authorizationHeaders("standard") ELSE Brought
    BY <1>1 DEF Merged
  <1>3. /\ request \in Requests /\ request.carrier \in Carriers
        /\ Brought \in Fields /\ (~AtHome => Brought = <<>>)
    BY <1>1, BroughtIsField DEF ResourceInv, Travelled, Travelling, ValidRequest
  <1>4. "other" \in ToSet(message'.standard) => AtHome
    <2>1. "other" \notin ToSet(<<>>) /\ "other" \notin ToSet(<<"aep">>)
      BY DEF ToSet
    <2> QED
      BY <1>2, <1>3, <2>1 DEF authorizationHeaders
  <1>5. BoundToOrigin'
    BY <1>1, <1>2 DEF ResourceInv, Bearing, BoundToOrigin
  <1>6. CallerHeadersStay'
    BY <1>1, <1>2, <1>4, ResourceAssumption DEF ResourceInv, Bearing,
                                                CallerHeadersStay, AtHome, Original
  <1>7. AskedFirst'
    BY <1>1, <1>2 DEF ResourceInv, Travelled, AskedFirst
  <1>8. OnePresentation'
    <2>1. headers.carrier \in Carriers \cup {"api-key"} /\ headers' = headers
      BY <1>1, <1>3 DEF ResourceInv, Bearing
    <2>2. Brought' = Brought
      BY <1>1 DEF Brought, AtHome
    <2>3. /\ message'.dedicated = IF headers.carrier = "dedicated" THEN <<"aep">> ELSE <<>>
          /\ message'.standard = IF headers.carrier = "standard" THEN <<"aep">>
                                 ELSE IF StartsRecognized(Brought) THEN <<>> ELSE Brought
      BY <1>2 DEF authorizationHeaders
    <2>4. selectAuthorizationPresentation(message') =
            IF headers.carrier # "standard" /\ Hidden(Brought) THEN "ambiguous"
            ELSE IF headers.carrier = "api-key" THEN None
            ELSE headers.carrier
      BY <1>3, <2>1, <2>3, OneIsSelected
    <2> QED
      BY <2>1, <2>2, <2>4 DEF OnePresentation, Hidden, StartsRecognized, Presented,
                              selectAuthorizationPresentation
  <1> QED
    BY <1>1, <1>2, <1>5, <1>6, <1>7, <1>8 DEF ResourceInv, Travelled, Travelling, Bearing, Sent,
                                              SentAsPromised, AtHome

-----------------------------------------------------------------------------
LEMMA ResourceStep ==
  ASSUME ResourceInv, [Next]_vars
  PROVE  ResourceInv'
  <1>1. CASE UNCHANGED vars
    <2>1. message # None => SentAsPromised'
      BY <1>1, PromiseStands DEF vars, callVars, hopVars, ResourceInv, Sent
    <2> QED
      BY <1>1, <2>1 DEF vars, callVars, hopVars, ResourceInv, Travelled, Travelling, Bearing,
                        Sent, AtHome
  <1>2. CASE \E r \in Requests : FetchProtectedResource(r)
    BY <1>2, Fetches
  <1>3. CASE \E p \in Policies : OpenAPIPolicy(p)
    <2>1. PICK p \in Policies : OpenAPIPolicy(p)
      BY <1>3
    <2> QED
      BY <2>1, Proceeds DEF OpenAPIPolicy, GoTo, AnonymousFirst, callVars
  <1>4. CASE SendAnonymous \/ SendAuthenticated
    BY <1>4, SendsAnonymous, SendsAuthenticated
  <1>5. CASE HeadersConflict \/ Responds \/ Fail
    BY <1>5, Ends DEF HeadersConflict, Responds, Fail, Return, callVars, hopVars
  <1>6. CASE \E u \in URLs : Redirected(u)
    BY <1>6, Follows
  <1>7. CASE \E did \in Dids, origin \in {Origin[u] : u \in URLs} :
               parseResourceChallenge(did, origin)
    BY <1>7, IsChallenged
  <1>8. ASSUME NEW did \in Dids, NEW methods \in Advertised,
               \/ Inspect(did, methods)
               \/ credentialHeaders(did, methods)
               \/ signAssertion(did, methods)
               \/ \E id \in Credentials : Grant(did, methods, id)
        PROVE  ResourceInv'
    <2>1. CASE Inspect(did, methods)
      BY <2>1, Proceeds DEF Inspect, Return, callVars
    <2>2. CASE credentialHeaders(did, methods) \/ signAssertion(did, methods)
      BY <2>2, SelectsHeaders
    <2>3. CASE \E id \in Credentials : Grant(did, methods, id)
      BY <2>3, Grants
    <2> QED
      BY <1>8, <2>1, <2>2, <2>3
  <1>9. CASE \/ \E k \in [id : Credentials, did : Dids,
                         type : Methods \ {JWT}] : SaveCredential(k)
             \/ \E k \in store : ForgetCredential(k)
    BY <1>9, OthersStep
  <1> QED
    BY <1>1, <1>2, <1>3, <1>4, <1>5, <1>6, <1>7, <1>8, <1>9
       DEF Next

\* The inductive invariant of protected-resource requests.
THEOREM ResourceInvariant == Spec => []ResourceInv
  <1>1. Init => ResourceInv
    BY ResourceInit
  <1>2. ResourceInv /\ [Next]_vars => ResourceInv'
    BY ResourceStep
  <1> QED
    BY <1>1, <1>2, PTL DEF Spec

\* However many redirects, challenges and documents the Services answer with,
\* whatever credentials come and go meanwhile: what is sent keeps to the promise
\* of agent/README.md:186 (resource.go:98-127).
THEOREM RequestsAreSentAsPromised == Spec => []SentAsPromised
  <1>1. ResourceInv => SentAsPromised
    BY DEF ResourceInv, Sent, SentAsPromised, BoundToOrigin, CallerHeadersStay, AskedFirst,
           OnePresentation
  <1> QED
    BY <1>1, ResourceInvariant, PTL

-----------------------------------------------------------------------------
(* Types, and what the call knows at each stage.                            *)

LEMMA ResourceInitTypes ==
  ASSUME Init
  PROVE  TypeOK
  BY DEF Init, TypeOK, Fresh, Policies

LEMMA FetchTypes ==
  ASSUME ResourceInv, TypeOK, NEW r \in Requests,
         FetchProtectedResource(r)
  PROVE  TypeOK'
  BY ResourceAssumption DEF FetchProtectedResource, Return, TypeOK, ResourceInv, Travelled,
                            ValidRequest, hopVars

LEMMA PolicyTypes ==
  ASSUME TypeOK, NEW p \in Policies, OpenAPIPolicy(p)
  PROVE  TypeOK'
  BY DEF OpenAPIPolicy, GoTo, TypeOK, callVars

LEMMA AnonymousTypes ==
  ASSUME ResourceInv, TypeOK, SendAnonymous
  PROVE  TypeOK'
  <1>1. message' \in Messages /\ message' # None /\ message'.url = target
    <2>1. target \in URLs /\ requireChallenge \in BOOLEAN
      BY DEF SendAnonymous, GoTo, TypeOK, ResourceInv, Travelled, Travelling
    <2> DEFINE m == [url |-> target, standard |-> <<>>, dedicated |-> <<>>,
                     caller |-> ~requireChallenge, additional |-> FALSE, by |-> None]
    <2>2. message' = m
      BY DEF SendAnonymous, Nothing
    <2>3. m \in Messages
      BY <2>1, NothingIsPresented DEF Messages
    <2> QED
      BY <2>2, <2>3, ResourceAssumption
  <1> QED
    BY <1>1 DEF SendAnonymous, GoTo, TypeOK, callVars, hopVars

LEMMA AuthenticatedTypes ==
  ASSUME ResourceInv, TypeOK, SendAuthenticated
  PROVE  TypeOK'
  <1>1. /\ target \in URLs /\ request \in Requests /\ headers.by \in Bearers
        /\ message' = Merged
    BY DEF SendAuthenticated, GoTo, ResourceInv, Travelled, Travelling, Bearing
  <1>2. Brought \in Fields
    BY <1>1, BroughtIsField
  <1>3. Merged.url = target
    BY DEF Merged
  <1>4. Merged \in Messages
    <2>1. /\ authorizationHeaders("standard") \in Fields
          /\ authorizationHeaders("dedicated") \in Fields
      BY NothingIsPresented DEF authorizationHeaders
    <2>2. Merged.standard \in Fields
      BY <1>2, <2>1 DEF Merged
    <2>3. /\ Merged.caller \in BOOLEAN /\ Merged.additional \in BOOLEAN
          /\ Merged.dedicated = authorizationHeaders("dedicated")
          /\ Merged.by = headers.by
      BY DEF Merged, AtHome
    <2>4. Merged =
            [url |-> Merged.url, standard |-> Merged.standard,
             dedicated |-> Merged.dedicated, caller |-> Merged.caller,
             additional |-> Merged.additional, by |-> Merged.by]
      BY DEF Merged
    <2> QED
      BY <1>1, <1>3, <2>1, <2>2, <2>3, <2>4 DEF Messages
  <1>5. message' \in Messages /\ message' # None /\ message'.url = target
    BY <1>1, <1>3, <1>4, ResourceAssumption
  <1> QED
    BY <1>5 DEF SendAuthenticated, GoTo, TypeOK, callVars, hopVars

\* A redirect is followed within the limit, and only to a URL that is not refused.
LEMMA RedirectTypes ==
  ASSUME ResourceInv, TypeOK, NEW next \in URLs,
         Redirected(next)
  PROVE  TypeOK'
  <1>1. request \in Requests /\ request # None /\ request.maximum \in Nat
    BY ResourceAssumption DEF Redirected, ResourceInv, Travelled, Travelling
  <1>2. CASE redirects < request.maximum /\ validateProtectedResource(next)
    <2>1. redirects + 1 \in 0..request.maximum
      BY <1>1, <1>2 DEF TypeOK
    <2>2. Fresh \in Policies
      BY DEF Fresh, Policies
    <2>3. /\ stage' = "policy" /\ target' = next /\ redirects' = redirects + 1
          /\ requireChallenge' \in BOOLEAN
          /\ challenge' = None /\ allowed' = None /\ granted' = None /\ headers' = None
          /\ policy' = Fresh /\ message' = None /\ UNCHANGED <<request, store>>
      BY <1>2 DEF Redirected, TypeOK
    <2> QED
      BY <1>1, <1>2, <2>1, <2>2, <2>3 DEF TypeOK, validateProtectedResource
  <1>3. CASE ~(redirects < request.maximum /\ validateProtectedResource(next))
    BY <1>3 DEF Redirected, Return, TypeOK, callVars, hopVars
  <1> QED
    BY <1>2, <1>3

LEMMA EndTypes ==
  ASSUME TypeOK, stage' = "done",
         UNCHANGED <<request, target, redirects, requireChallenge, policy, challenge, allowed,
                     granted, headers, message, store>>
  PROVE  TypeOK'
  BY DEF TypeOK

LEMMA ChallengeTypes ==
  ASSUME TypeOK, NEW did \in Dids, NEW origin,
         parseResourceChallenge(did, origin)
  PROVE  TypeOK'
  BY DEF parseResourceChallenge, Return, TypeOK, callVars

-----------------------------------------------------------------------------
(* Authentication: an order of methods, and headers of Credentials.         *)

LEMMA InspectTypes ==
  ASSUME TypeOK, NEW did, NEW methods \in Advertised,
         Inspect(did, methods)
  PROVE  TypeOK'
  <1> DEFINE offered == IF policy.state = "required" THEN policy.methods ELSE methods
             some == {m \in ToSet(offered) \cap ToSet(methods) :
                        request.methods = None \/ m \in request.methods}
  <1>1. offered \in Advertised
    BY DEF TypeOK, Policies
  <1>2. some \subseteq Methods
    BY ResourceAssumption DEF ToSet
  <1>3. [order |-> offered, methods |-> some] \in Allowances
    BY <1>1, <1>2 DEF Allowances
  <1>4. \/ allowed' = allowed /\ stage' = "done"
        \/ allowed' = [order |-> offered, methods |-> some] /\ stage' = "authenticate"
    BY DEF Inspect, Return
  <1>5. /\ stage = "inspect"
        /\ UNCHANGED <<request, target, redirects, requireChallenge, policy, challenge, granted,
                       headers, message, store>>
    BY DEF Inspect, callVars
  <1>6. CASE stage' = "done"
    BY <1>3, <1>4, <1>5, <1>6 DEF TypeOK
  <1>7. CASE stage' = "authenticate"
    <2>1. allowed' \in Allowances /\ allowed' # None
      BY <1>3, <1>4, <1>7, ResourceAssumption
    <2> QED
      BY <1>5, <1>7, <2>1 DEF TypeOK
  <1> QED
    BY <1>4, <1>6, <1>7

LEMMA HeaderTypes ==
  ASSUME ResourceInv, TypeOK, NEW did \in Dids, NEW methods,
         credentialHeaders(did, methods) \/ signAssertion(did, methods)
  PROVE  TypeOK'
  <1>1. target \in URLs /\ request.carrier \in Carriers
    BY DEF credentialHeaders, signAssertion, ResourceInv, Travelled, Travelling, ValidRequest
  <1>2. /\ stage = "authenticate" /\ stage' = "merge"
        /\ UNCHANGED <<request, target, redirects, requireChallenge, policy, challenge, allowed,
                       granted, message, store>>
    BY DEF credentialHeaders, signAssertion, callVars
  <1>3. headers' \in Headers
    <2>1. CASE credentialHeaders(did, methods)
      <3>1. PICK k \in Preferred(did, methods) :
              headers' = [carrier |-> IF k.type = "api-key" THEN "api-key" ELSE request.carrier,
                          by |-> [did |-> k.did, credential |-> k.id, resource |-> None]]
        BY <2>1 DEF credentialHeaders
      <3>2. k.did \in Dids /\ k.id \in Credentials
        BY <3>1 DEF Preferred, Found, TypeOK
      <3> QED
        BY <1>1, <3>1, <3>2 DEF Headers, Bearers
    <2>2. CASE signAssertion(did, methods)
      BY <1>1, <2>2 DEF signAssertion, Headers, Bearers
    <2> QED
      BY <2>1, <2>2
  <1>4. headers' # None
    BY <1>3, ResourceAssumption
  <1> QED
    BY <1>2, <1>3, <1>4 DEF TypeOK

\* The store keeps one record of each identifier.
LEMMA StoreTypes ==
  ASSUME TypeOK,
         \/ \E k \in [id : Credentials, did : Dids, type : Methods \ {JWT}] :
              k.id \notin {l.id : l \in store} /\ store' = store \cup {k}
         \/ store' \subseteq store,
         UNCHANGED <<stage, request, target, redirects, requireChallenge, policy, challenge,
                     allowed, headers, message>>,
         granted' \in Methods \cup {None}
  PROVE  TypeOK'
  <1>1. store' \subseteq [id : Credentials, did : Dids, type : Methods \ {JWT}]
    BY DEF TypeOK
  <1>2. \A k, l \in store' : k.id = l.id => k = l
    BY DEF TypeOK
  <1> QED
    BY <1>1, <1>2 DEF TypeOK

LEMMA GrantTypes ==
  ASSUME TypeOK, NEW did, NEW methods, NEW id \in Credentials,
         Grant(did, methods, id)
  PROVE  TypeOK'
  <1>1. /\ stage = "authenticate" /\ granted' = Wanted
        /\ UNCHANGED <<stage, request, target, redirects, requireChallenge, policy, challenge,
                       allowed, headers, message>>
    BY DEF Grant, callVars
  <1>2. Wanted \in Methods
    <2>1. allowed \in Allowances
      BY <1>1 DEF TypeOK
    <2>2. Wanted \in allowed.methods
      BY DEF Grant
    <2> QED
      BY <2>1, <2>2 DEF Allowances
  <1>3. CASE Wanted = JWT
    <2>1. UNCHANGED store
      BY <1>3 DEF Grant
    <2> QED
      BY <1>1, <1>2, <2>1, StoreTypes
  <1>4. CASE Wanted # JWT
    <2>1. PICK issuer \in Dids :
            store' = store \cup {[id |-> id, did |-> issuer, type |-> Wanted]}
      BY <1>4 DEF Grant
    <2>2. id \notin {k.id : k \in store}
      BY DEF Grant
    <2> DEFINE k == [id |-> id, did |-> issuer, type |-> Wanted]
    <2>3. /\ k \in [id : Credentials, did : Dids, type : Methods \ {JWT}]
          /\ k.id \notin {l.id : l \in store} /\ store' = store \cup {k}
      BY <1>2, <1>4, <2>1, <2>2
    <2> HIDE DEF k
    <2> QED
      BY <1>1, <1>2, <2>3, StoreTypes
  <1> QED
    BY <1>3, <1>4

LEMMA OtherStepTypes ==
  ASSUME TypeOK,
         \/ \E k \in [id : Credentials, did : Dids,
                      type : Methods \ {JWT}] : SaveCredential(k)
         \/ \E k \in store : ForgetCredential(k)
  PROVE  TypeOK'
  <1>1. granted' \in Methods \cup {None}
    BY DEF SaveCredential, ForgetCredential, hopVars, TypeOK
  <1> QED
    BY <1>1, StoreTypes DEF SaveCredential, ForgetCredential, callVars, hopVars

-----------------------------------------------------------------------------
LEMMA ResourceStepTypes ==
  ASSUME ResourceInv, TypeOK, [Next]_vars
  PROVE  TypeOK'
  <1>1. CASE UNCHANGED vars
    BY <1>1 DEF vars, callVars, hopVars, TypeOK
  <1>2. CASE \E r \in Requests : FetchProtectedResource(r)
    BY <1>2, FetchTypes
  <1>3. CASE \E p \in Policies : OpenAPIPolicy(p)
    BY <1>3, PolicyTypes
  <1>4. CASE SendAnonymous \/ SendAuthenticated
    BY <1>4, AnonymousTypes, AuthenticatedTypes
  <1>5. CASE HeadersConflict \/ Responds \/ Fail
    BY <1>5, EndTypes DEF HeadersConflict, Responds, Fail, Return, callVars, hopVars
  <1>6. CASE \E u \in URLs : Redirected(u)
    BY <1>6, RedirectTypes
  <1>7. CASE \E did \in Dids, origin \in {Origin[u] : u \in URLs} :
               parseResourceChallenge(did, origin)
    BY <1>7, ChallengeTypes
  <1>8. ASSUME NEW did \in Dids, NEW methods \in Advertised,
               \/ Inspect(did, methods)
               \/ credentialHeaders(did, methods)
               \/ signAssertion(did, methods)
               \/ \E id \in Credentials : Grant(did, methods, id)
        PROVE  TypeOK'
    BY <1>8, InspectTypes, HeaderTypes, GrantTypes
  <1>9. CASE \/ \E k \in [id : Credentials, did : Dids,
                          type : Methods \ {JWT}] : SaveCredential(k)
             \/ \E k \in store : ForgetCredential(k)
    BY <1>9, OtherStepTypes
  <1> QED
    BY <1>1, <1>2, <1>3, <1>4, <1>5, <1>6, <1>7, <1>8, <1>9
       DEF Next

\* A call knows its target, its methods, its headers and its message by the
\* stage that uses them, follows no more redirects than it may, and the store
\* holds one record of each credential (resource.go:34-96).
THEOREM ResourceTypes == Spec => []TypeOK
  <1>1. Init => TypeOK
    BY ResourceInitTypes
  <1>2. ResourceInv /\ TypeOK /\ [Next]_vars => TypeOK'
    BY ResourceStepTypes
  <1> QED
    BY <1>1, <1>2, ResourceInvariant, PTL DEF Spec
================================================================================
