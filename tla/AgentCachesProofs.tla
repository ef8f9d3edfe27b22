---------------------------- MODULE AgentCachesProofs ----------------------------
(***************************************************************************)
(* How old a document is when a call returns it, for any number of calls,  *)
(* Sessions, documents and max-ages.  CachesInv says of every entry what   *)
(* the Service said of it and when (Truthful), of every answer under way   *)
(* what it confirms (Confirmed), and of every call where it is.            *)
(***************************************************************************)
EXTENDS AgentCaches, TLAPS

Accepted(d) == Kind[d] \notin {"invalid", "foreign"}

\* The Service said of an entry what the entry says, within an exchange of the
\* time it gives.
Truthful(e) ==
  /\ e \in Entries
  /\ e.document = e.word.document /\ e.control = e.word.control
  /\ e.cachedAt \in 0..clock /\ e.word.at <= clock
  /\ e.cachedAt <= e.word.at + RequestTimeout

Settled == {"idle", "done"}
Inspecting == {"lock", "find", "drop", "ask", "save"}
Policing == {"lookup", "fetch", "store"}

\* Who is where, and since when.
Placed(c) ==
  /\ request[c] \in Requests[c] \cup {None} /\ stage[c] \in Stages
  /\ began[c] \in 0..clock \cup {None} /\ started[c] \in 0..clock \cup {None}
  /\ redirects[c] \in 0..maximumInspectRedirects
  /\ stage[c] \notin Settled => request[c] # None /\ began[c] # None
  /\ stage[c] \in Inspecting => request[c].op \in {"inspect", "policy"}
  /\ stage[c] \in Policing => request[c].op = "policy"
  /\ stage[c] = "download" => request[c].op = "document"
  /\ stage[c] \in Asking =>
       started[c] # None /\ began[c] <= started[c] /\ clock <= started[c] + RequestTimeout

\* A copy of an entry is for the exchange; that of OpenAPI was accepted.
Copied(c) ==
  cached[c] # None =>
    /\ stage[c] \in {"ask", "fetch"} /\ Truthful(cached[c])
    /\ stage[c] = "fetch" => Accepted(cached[c].document)

Redirects(c) == answer[c] # None /\ answer[c].kind = "redirect"

\* What the answer on its way says was so after the exchange began.
Confirmed(c) ==
  /\ answer[c] # None => stage[c] \in Asking
  /\ Redirects(c) => redirects[c] < maximumInspectRedirects
  /\ Good(c) =>
       /\ answer[c].word \in Words /\ answer[c].word.at \in started[c]..clock
       /\ answer[c].control \in Controls
       /\ stage[c] # "ask" => Kind[answer[c].word.document] # "foreign"
       /\ answer[c].kind = "ok" => answer[c].word.control = answer[c].control
       /\ answer[c].kind = "not_modified" =>
            /\ cached[c] # None /\ cached[c].document = answer[c].word.document
            /\ answer[c].word.control = mergeCacheHeaders(cached[c].control, answer[c].control)

Made(c) ==
  /\ entry[c] # None =>
       /\ stage[c] \in {"save", "store"} /\ Truthful(entry[c])
       /\ Accepted(entry[c].document) /\ entry[c].word.at >= began[c]
  /\ stage[c] \in {"save", "store"} => entry[c] # None

\* AsFreshAsPromised, of one call.
Promised(c) ==
  reply[c] # None /\ reply[c].kind = "document" =>
    LET word == reply[c].word IN
    /\ stage[c] = "done"
    /\ Accepted(reply[c].document)
    /\ reply[c].document = word.document
    /\ \/ word.at >= began[c]
       \/ /\ request[c].op # "document" /\ ~request[c].revalidate
          /\ word.control # None => word.control.reuse /\ word.control.store
          /\ reply[c].at < word.at + MaxAge(word.control) + RequestTimeout

CallInv(c) == Placed(c) /\ Copied(c) /\ Confirmed(c) /\ Made(c) /\ Promised(c)

Domains ==
  /\ DOMAIN request = Calls /\ DOMAIN stage = Calls /\ DOMAIN began = Calls
  /\ DOMAIN started = Calls /\ DOMAIN redirects = Calls /\ DOMAIN cached = Calls
  /\ DOMAIN answer = Calls /\ DOMAIN entry = Calls /\ DOMAIN reply = Calls
  /\ stage \in [Calls -> Stages]

Locked ==
  /\ DOMAIN inspectionMu = Sessions
  /\ \A s \in Sessions, c \in Calls :
       inspectionMu[s] = c <=> stage[c] \in InInspect /\ request[c].session = s

Shared ==
  /\ inspectCache # None => Truthful(inspectCache)
  /\ openAPICache # None => Truthful(openAPICache) /\ Accepted(openAPICache.document)
  /\ DOMAIN published = Resources /\ \A r \in Resources : published[r] \in Publications[r]
  /\ clock \in 0..MaxClock /\ changes \in 0..MaxPublished /\ starts \in 0..MaxStarts

CachesInv == Domains /\ Locked /\ Shared /\ \A c \in Calls : CallInv(c)

-----------------------------------------------------------------------------
(* Calls a step does not touch, and steps that touch one.                   *)

Same(c) ==
  /\ request'[c] = request[c] /\ stage'[c] = stage[c] /\ began'[c] = began[c]
  /\ started'[c] = started[c] /\ redirects'[c] = redirects[c] /\ cached'[c] = cached[c]
  /\ answer'[c] = answer[c] /\ entry'[c] = entry[c] /\ reply'[c] = reply[c]

LEMMA CallStays ==
  ASSUME NEW c \in Calls, CallInv(c), Same(c), clock' = clock
  PROVE  CallInv(c)'
  <1>1. Placed(c)'
    BY DEF CallInv, Placed, Same
  <1>2. Copied(c)'
    BY DEF CallInv, Copied, Same, Truthful
  <1>3. Confirmed(c)'
    BY DEF CallInv, Confirmed, Good, Redirects, Same
  <1>4. Made(c)'
    BY DEF CallInv, Made, Same, Truthful
  <1>5. Promised(c)'
    BY DEF CallInv, Promised, Same
  <1> QED
    BY <1>1, <1>2, <1>3, <1>4, <1>5 DEF CallInv

\* What one call makes of itself, and of nobody else.
Alone(c) == Domains' /\ CallInv(c)' /\ \A d \in Calls : d # c => Same(d)

LEMMA AloneIsEnough ==
  ASSUME CachesInv, NEW c \in Calls, Alone(c), Locked', Shared', clock' = clock
  PROVE  CachesInv'
  BY CallStays DEF CachesInv, Alone

LEMMA LockedStays ==
  ASSUME Locked, UNCHANGED inspectionMu,
         \A d \in Calls : stage'[d] \in InInspect <=> stage[d] \in InInspect,
         \A d \in Calls : stage[d] \in InInspect => request'[d] = request[d]
  PROVE  Locked'
  BY DEF Locked

LEMMA SharedStays ==
  ASSUME Shared, UNCHANGED <<inspectCache, openAPICache, published, changes, clock>>,
         starts' \in 0..MaxStarts
  PROVE  Shared'
  BY DEF Shared, Truthful

\* Under way, a call has no answer yet.
LEMMA UnderWay ==
  ASSUME NEW c \in Calls, CallInv(c), stage[c] \notin Settled
  PROVE  /\ request[c] \in Requests[c] /\ request[c].session \in Sessions
         /\ began[c] \in 0..clock
         /\ request[c].op = "inspect" => ~request[c].revalidate
         /\ ~(reply[c] # None /\ reply[c].kind = "document")
  BY RequestsAssumption DEF CallInv, Placed, Promised, Settled

\* What a call may return.
Fits(c, r) ==
  /\ Accepted(r.document) /\ r.document = r.word.document
  /\ \/ r.word.at >= began[c]
     \/ /\ request[c].op # "document" /\ ~request[c].revalidate
        /\ r.word.control # None => r.word.control.reuse /\ r.word.control.store
        /\ r.at < r.word.at + MaxAge(r.word.control) + RequestTimeout

LEMMA Returning ==
  ASSUME Domains, NEW c \in Calls, CallInv(c), stage[c] \notin Settled, clock' = clock,
         NEW r, Return(c, r), r.kind = "document" => Fits(c, r)
  PROVE  Alone(c) /\ stage'[c] = "done"
  <1>1. /\ stage' = [stage EXCEPT ![c] = "done"] /\ reply' = [reply EXCEPT ![c] = r]
        /\ started' = [started EXCEPT ![c] = None] /\ redirects' = [redirects EXCEPT ![c] = 0]
        /\ cached' = [cached EXCEPT ![c] = None] /\ answer' = [answer EXCEPT ![c] = None]
        /\ entry' = [entry EXCEPT ![c] = None]
        /\ request' \in {request, [request EXCEPT ![c] = None]}
        /\ began' \in {began, [began EXCEPT ![c] = None]}
        /\ r.kind = "document" => request' = request /\ began' = began
    BY DEF Return
  <1>2. /\ stage'[c] = "done" /\ reply'[c] = r /\ started'[c] = None /\ redirects'[c] = 0
        /\ cached'[c] = None /\ answer'[c] = None /\ entry'[c] = None
        /\ request'[c] \in {request[c], None} /\ began'[c] \in {began[c], None}
        /\ r.kind = "document" => request'[c] = request[c] /\ began'[c] = began[c]
    BY <1>1 DEF Domains
  <1>3. Domains' /\ \A d \in Calls : d # c => Same(d)
    BY <1>1 DEF Domains, Same, Stages
  <1>4. Placed(c)'
    BY <1>2, BoundsAssumption
       DEF CallInv, Placed, Stages, Settled, Inspecting, Policing, Asking
  <1>5. Copied(c)' /\ Confirmed(c)' /\ Made(c)'
    BY <1>2 DEF Copied, Confirmed, Good, Redirects, Made
  <1>6. Promised(c)'
    BY <1>2 DEF Promised, Fits
  <1> QED
    BY <1>2, <1>3, <1>4, <1>5, <1>6 DEF CallInv, Alone

LEMMA AskingAgain ==
  ASSUME Domains, NEW c \in Calls, CallInv(c), stage[c] \notin Settled, clock' = clock,
         clock \in Nat, NEW to \in {"ask", "lookup", "fetch"}, NEW e, Ask(c, to, e),
         to = "ask" => stage[c] \in Inspecting,
         to # "ask" => request[c].op = "policy",
         e # None => to # "lookup" /\ Truthful(e) /\ (to = "fetch" => Accepted(e.document))
  PROVE  Alone(c) /\ stage'[c] = to /\ request' = request
  <1>1. /\ stage' = [stage EXCEPT ![c] = to]
        /\ started' = [started EXCEPT ![c] = clock] /\ redirects' = [redirects EXCEPT ![c] = 0]
        /\ cached' = [cached EXCEPT ![c] = e] /\ answer' = [answer EXCEPT ![c] = None]
        /\ entry' = [entry EXCEPT ![c] = None]
        /\ UNCHANGED <<request, began, reply>>
    BY DEF Ask
  <1>2. /\ stage'[c] = to /\ started'[c] = clock /\ redirects'[c] = 0
        /\ cached'[c] = e /\ answer'[c] = None /\ entry'[c] = None
    BY <1>1 DEF Domains
  <1>3. Domains' /\ \A d \in Calls : d # c => Same(d)
    BY <1>1 DEF Domains, Same, Stages
  <1>4. Placed(c)'
    BY <1>1, <1>2, BoundsAssumption, NoneAssumption, UnderWay
       DEF CallInv, Placed, Stages, Settled, Inspecting, Policing, Asking
  <1>5. Copied(c)' /\ Confirmed(c)' /\ Made(c)'
    BY <1>2 DEF Copied, Confirmed, Good, Redirects, Made, Truthful
  <1>6. Promised(c)'
    BY <1>1, UnderWay DEF Promised
  <1> QED
    BY <1>1, <1>2, <1>3, <1>4, <1>5, <1>6 DEF CallInv, Alone

LEMMA Going ==
  ASSUME Domains, NEW c \in Calls, CallInv(c), clock' = clock, NEW to, Goto(c, to),
         \/ stage[c] = "lock" /\ to = "find"
         \/ stage[c] = "find" /\ to = "drop"
  PROVE  Alone(c) /\ stage'[c] = to /\ request' = request
  <1>1. /\ stage' = [stage EXCEPT ![c] = to]
        /\ UNCHANGED <<request, began, started, redirects, cached, answer, entry, reply>>
    BY DEF Goto
  <1>2. stage'[c] = to /\ to \in Stages
    BY <1>1 DEF Domains, Stages
  <1>3. Domains' /\ \A d \in Calls : d # c => Same(d)
    BY <1>1, <1>2 DEF Domains, Same
  <1>4. Placed(c)'
    BY <1>1, <1>2 DEF CallInv, Placed, Settled, Inspecting, Policing, Asking
  <1>5. Copied(c)' /\ Confirmed(c)' /\ Made(c)'
    BY <1>1, <1>2 DEF CallInv, Copied, Confirmed, Good, Redirects, Made, Asking
  <1>6. Promised(c)'
    BY <1>1, UnderWay DEF Promised, Settled
  <1> QED
    BY <1>1, <1>2, <1>3, <1>4, <1>5, <1>6 DEF CallInv, Alone

-----------------------------------------------------------------------------
(* Entries and answers.                                                     *)

\* A 304 is about the copy it confirms, and keeps the word on it unless it
\* brings another Cache-Control.
LEMMA EntryIsTruthful ==
  ASSUME NEW c \in Calls, CallInv(c), Good(c), clock \in 0..MaxClock
  PROVE  /\ stage[c] \in Asking /\ Truthful(EntryOf(c)) /\ EntryOf(c) # None
         /\ EntryOf(c).word = answer[c].word
         /\ EntryOf(c).word.at >= began[c]
         /\ stage[c] # "ask" => Kind[EntryOf(c).document] # "foreign"
         /\ stage[c] = "fetch" /\ answer[c].kind # "ok" => Accepted(EntryOf(c).document)
  <1> DEFINE e == EntryOf(c)
  <1>1. /\ stage[c] \in Asking /\ answer[c].word \in Words
        /\ answer[c].word.at \in started[c]..clock /\ answer[c].control \in Controls
        /\ stage[c] # "ask" => Kind[answer[c].word.document] # "foreign"
    BY DEF CallInv, Confirmed, Good
  <1>2. /\ started[c] \in 0..clock /\ began[c] \in 0..clock /\ began[c] <= started[c]
        /\ clock <= started[c] + RequestTimeout /\ RequestTimeout \in Nat
    BY <1>1, BoundsAssumption DEF CallInv, Placed, Asking, Settled
  <1>3. /\ e.document = answer[c].word.document /\ e.word = answer[c].word /\ e.cachedAt = clock
        /\ e.control = answer[c].word.control
        /\ e = [document |-> e.document, control |-> e.control, cachedAt |-> clock,
                word |-> answer[c].word]
        /\ stage[c] = "fetch" /\ answer[c].kind # "ok" => Accepted(e.document)
    <2>1. CASE answer[c].kind = "not_modified"
      BY <2>1 DEF EntryOf, CallInv, Confirmed, Copied, Good
    <2>2. CASE answer[c].kind = "ok"
      BY <2>2 DEF EntryOf, CallInv, Confirmed, Good
    <2> QED
      BY <2>1, <2>2 DEF Good
  <1>4. answer[c].word.document \in Documents /\ answer[c].word.control \in Controls
    BY <1>1 DEF Words
  <1> HIDE DEF e
  <1>5. e \in Entries
    BY <1>1, <1>3, <1>4 DEF Entries
  <1>6. Truthful(e)
    BY <1>1, <1>2, <1>3, <1>5 DEF Truthful
  <1>7. e # None /\ e.word.at >= began[c]
    BY <1>1, <1>2, <1>3, <1>5, NoneAssumption
  <1> QED
    BY <1>1, <1>3, <1>6, <1>7 DEF e

\* What is fresh by its own time is fresh by the Service's, an exchange later.
LEMMA FreshFits ==
  ASSUME NEW c \in Calls, NEW e, Truthful(e), Accepted(e.document), clock \in Nat,
         request[c].op # "document", ~request[c].revalidate, Fresh(e, clock)
  PROVE  Fits(c, Document(e))
  <1>1. /\ e.control \in Controls /\ e.control = e.word.control /\ e.document = e.word.document
        /\ e.word.at \in Nat /\ e.cachedAt \in Nat /\ e.cachedAt <= e.word.at + RequestTimeout
    BY BoundsAssumption DEF Truthful, Entries, Words
  <1>2. MaxAge(e.control) \in Nat /\ RequestTimeout \in Nat
    BY <1>1, ControlsAssumption, BoundsAssumption DEF MaxAge
  <1>3. /\ e.control # None => e.control.reuse /\ e.control.store
        /\ e.cachedAt + MaxAge(e.control) > clock
    BY DEF Fresh
  <1>4. clock < e.word.at + MaxAge(e.control) + RequestTimeout
    BY <1>1, <1>2, <1>3
  <1>5. /\ Document(e).at = clock /\ Document(e).document = e.document
        /\ Document(e).word = e.word
    BY DEF Document
  <1> QED
    BY <1>1, <1>3, <1>4, <1>5 DEF Fits

-----------------------------------------------------------------------------
(* Inspect, under the mutex of its Session.                                 *)

LEMMA UnlockingIsEnough ==
  ASSUME CachesInv, NEW c \in Calls, stage[c] \in InInspect, Alone(c), stage'[c] \notin InInspect,
         inspectionMu' = [inspectionMu EXCEPT ![request[c].session] = None]
  PROVE  Locked'
  <1>1. request[c].session \in Sessions
    BY UnderWay DEF CachesInv, InInspect, Settled
  <1>2. /\ DOMAIN inspectionMu' = Sessions /\ inspectionMu'[request[c].session] = None
        /\ \A s \in Sessions : s # request[c].session => inspectionMu'[s] = inspectionMu[s]
        /\ inspectionMu[request[c].session] = c
    BY <1>1 DEF CachesInv, Locked
  <1>3. ASSUME NEW s \in Sessions, NEW d \in Calls
        PROVE  inspectionMu'[s] = d <=> stage'[d] \in InInspect /\ request'[d].session = s
    <2>1. CASE d = c
      BY <1>2, <2>1, NoneAssumption DEF CachesInv, Locked
    <2>2. CASE d # c
      BY <1>1, <1>2, <2>2, NoneAssumption DEF CachesInv, Locked, Alone, Same
    <2> QED
      BY <2>1, <2>2
  <1> QED
    BY <1>2, <1>3 DEF Locked

LEMMA EndingInspect ==
  ASSUME CachesInv, NEW c \in Calls, stage[c] \in InInspect, NEW e, EndInspect(c, e),
         UNCHANGED <<clock, openAPICache, published, changes, starts>>,
         inspectCache' # None => Truthful(inspectCache'),
         e # None => /\ Truthful(e) /\ Accepted(e.document)
                     /\ e.word.at >= began[c] \/ Fresh(e, clock)
  PROVE  CachesInv'
  <1>1. /\ Domains /\ CallInv(c) /\ stage[c] \notin Settled /\ clock \in Nat
        /\ request[c].op \in {"inspect", "policy"}
    BY BoundsAssumption
       DEF CachesInv, Shared, InInspect, Settled, CallInv, Placed, Inspecting
  <1>2. /\ inspectionMu' = [inspectionMu EXCEPT ![request[c].session] = None]
        /\ \/ Return(c, Error)
           \/ e # None /\ request[c].op = "inspect" /\ Return(c, Document(e))
           \/ e # None /\ request[c].op = "policy" /\ Ask(c, "lookup", None)
           \/ Return(c, Fallback)
    BY <1>1 DEF EndInspect, Unlock
  <1>3. Error.kind # "document" /\ Fallback.kind # "document"
    BY DEF Error, Fallback
  <1>4. Alone(c) /\ stage'[c] \notin InInspect
    <2>1. CASE Return(c, Error) \/ Return(c, Fallback)
      BY <1>1, <1>3, <2>1, Returning DEF InInspect
    <2>2. CASE e # None /\ request[c].op = "inspect" /\ Return(c, Document(e))
      <3>1. Fits(c, Document(e))
        <4>1. CASE e.word.at >= began[c]
          BY <2>2, <4>1 DEF Fits, Document, Truthful
        <4>2. CASE Fresh(e, clock)
          <5>1. ~request[c].revalidate
            BY <1>1, <2>2, UnderWay
          <5> QED
            BY <1>1, <2>2, <4>2, <5>1, FreshFits
        <4> QED
          BY <2>2, <4>1, <4>2
      <3> QED
        BY <1>1, <2>2, <3>1, Returning DEF InInspect
    <2>3. CASE e # None /\ request[c].op = "policy" /\ Ask(c, "lookup", None)
      BY <1>1, <2>3, AskingAgain DEF InInspect
    <2> QED
      BY <1>2, <2>1, <2>2, <2>3
  <1>5. Locked'
    BY <1>2, <1>4, UnlockingIsEnough
  <1>6. Shared'
    BY DEF CachesInv, Shared, Truthful
  <1> QED
    BY <1>4, <1>5, <1>6, AloneIsEnough

LEMMA StartStep ==
  ASSUME CachesInv, NEW c \in Calls, NEW r \in Requests[c], Start(c, r)
  PROVE  CachesInv'
  <1>1. /\ r.op \in {"inspect", "policy"} /\ stage[c] \in Settled
        /\ starts < MaxStarts /\ starts' = starts + 1
        /\ request' = [request EXCEPT ![c] = r] /\ began' = [began EXCEPT ![c] = clock]
        /\ stage' = [stage EXCEPT ![c] = "lock"] /\ reply' = [reply EXCEPT ![c] = None]
        /\ UNCHANGED <<started, redirects, cached, answer, entry, inspectionMu, inspectCache,
                       openAPICache, clock, published, changes>>
    BY RequestsAssumption DEF Start, cacheVars, Settled
  <1>2. /\ request'[c] = r /\ began'[c] = clock /\ stage'[c] = "lock" /\ reply'[c] = None
        /\ r # None /\ clock \in Nat
    BY <1>1, NoneAssumption, BoundsAssumption DEF CachesInv, Domains, Shared
  <1>3. Domains' /\ \A d \in Calls : d # c => Same(d)
    BY <1>1 DEF CachesInv, Domains, Same, Stages
  <1>4. Placed(c)'
    BY <1>1, <1>2, NoneAssumption
       DEF CachesInv, CallInv, Placed, Stages, Settled, Inspecting, Policing, Asking
  <1>5. Copied(c)' /\ Confirmed(c)' /\ Made(c)' /\ Promised(c)'
    BY <1>1, <1>2
       DEF CachesInv, CallInv, Copied, Confirmed, Good, Redirects, Made, Promised, Settled, Asking
  <1>6. Locked'
    BY <1>1, <1>2, <1>3, LockedStays DEF CachesInv, Same, Settled, InInspect
  <1>7. Shared'
    BY <1>1, BoundsAssumption, SharedStays DEF CachesInv, Shared
  <1> QED
    BY <1>1, <1>3, <1>4, <1>5, <1>6, <1>7, AloneIsEnough DEF Alone, CallInv

LEMMA LockStep ==
  ASSUME CachesInv, NEW c \in Calls, Lock(c)
  PROVE  CachesInv'
  <1>1. /\ stage[c] = "lock" /\ inspectionMu[request[c].session] = None
        /\ inspectionMu' = [inspectionMu EXCEPT ![request[c].session] = c]
        /\ Goto(c, "find")
        /\ UNCHANGED <<inspectCache, openAPICache, clock, published, changes, starts>>
    BY DEF Lock
  <1>2. Alone(c) /\ stage'[c] = "find" /\ request' = request
    BY <1>1, Going DEF CachesInv
  <1>3. request[c].session \in Sessions
    BY <1>1, UnderWay DEF CachesInv, Settled
  <1>4. Locked'
    <2>1. DOMAIN inspectionMu' = Sessions
      BY <1>1 DEF CachesInv, Locked
    <2>2. ASSUME NEW s \in Sessions, NEW d \in Calls
          PROVE  inspectionMu'[s] = d <=> stage'[d] \in InInspect /\ request'[d].session = s
      <3>1. CASE s = request[c].session
        BY <1>1, <1>2, <1>3, <3>1, NoneAssumption DEF CachesInv, Locked, Alone, Same, InInspect
      <3>2. CASE s # request[c].session
        BY <1>1, <1>2, <1>3, <3>2 DEF CachesInv, Locked, Alone, Same, InInspect
      <3> QED
        BY <3>1, <3>2
    <2> QED
      BY <2>1, <2>2 DEF Locked
  <1>5. Shared'
    BY <1>1, SharedStays DEF CachesInv, Shared
  <1> QED
    BY <1>1, <1>2, <1>4, <1>5, AloneIsEnough

LEMMA FindInspectStep ==
  ASSUME CachesInv, NEW c \in Calls, FindInspect(c)
  PROVE  CachesInv'
  <1>1. /\ stage[c] = "find"
        /\ UNCHANGED <<inspectCache, openAPICache, clock, published, changes, starts>>
        /\ \/ Goto(c, "drop") /\ UNCHANGED inspectionMu
           \/ /\ inspectCache # None /\ Parses(inspectCache.document)
              /\ validateServiceIdentity(inspectCache.document) /\ Fresh(inspectCache, clock)
              /\ EndInspect(c, inspectCache)
           \/ Ask(c, "ask", inspectCache) /\ UNCHANGED inspectionMu
    BY DEF FindInspect
  <1>2. /\ Domains /\ CallInv(c) /\ stage[c] \notin Settled /\ clock \in Nat
        /\ inspectCache # None => Truthful(inspectCache)
    BY <1>1, BoundsAssumption DEF CachesInv, Shared, Settled
  <1>3. CASE Goto(c, "drop") /\ UNCHANGED inspectionMu
    <2>1. Alone(c) /\ stage'[c] = "drop" /\ request' = request
      BY <1>1, <1>2, <1>3, Going
    <2>2. Locked'
      BY <1>1, <1>3, <2>1, LockedStays DEF CachesInv, Alone, Same, InInspect
    <2>3. Shared'
      BY <1>1, SharedStays DEF CachesInv, Shared
    <2> QED
      BY <1>1, <2>1, <2>2, <2>3, AloneIsEnough
  <1>4. CASE /\ inspectCache # None /\ Parses(inspectCache.document)
             /\ validateServiceIdentity(inspectCache.document) /\ Fresh(inspectCache, clock)
             /\ EndInspect(c, inspectCache)
    <2>1. Accepted(inspectCache.document)
      BY <1>4 DEF Parses, validateServiceIdentity, Accepted
    <2>2. inspectCache' # None => Truthful(inspectCache')
      BY <1>1, <1>2
    <2>3. stage[c] \in InInspect
      BY <1>1 DEF InInspect
    <2> QED
      BY <1>1, <1>2, <1>4, <2>1, <2>2, <2>3, EndingInspect
  <1>5. CASE Ask(c, "ask", inspectCache) /\ UNCHANGED inspectionMu
    <2>1. Alone(c) /\ stage'[c] = "ask" /\ request' = request
      BY <1>1, <1>2, <1>5, AskingAgain DEF Inspecting
    <2>2. Locked'
      BY <1>1, <1>5, <2>1, LockedStays DEF CachesInv, Alone, Same, InInspect
    <2>3. Shared'
      BY <1>1, SharedStays DEF CachesInv, Shared
    <2> QED
      BY <1>1, <2>1, <2>2, <2>3, AloneIsEnough
  <1> QED
    BY <1>1, <1>3, <1>4, <1>5

LEMMA DropInspectStep ==
  ASSUME CachesInv, NEW c \in Calls, DropInspect(c)
  PROVE  CachesInv'
  <1>1. /\ stage[c] = "drop" /\ inspectCache' = None /\ Ask(c, "ask", None)
        /\ UNCHANGED <<inspectionMu, openAPICache, clock, published, changes, starts>>
    BY DEF DropInspect
  <1>2. Domains /\ CallInv(c) /\ clock \in Nat
    BY BoundsAssumption DEF CachesInv, Shared
  <1>3. Alone(c) /\ stage'[c] = "ask" /\ request' = request
    BY <1>1, <1>2, AskingAgain DEF Inspecting, Settled
  <1>4. Locked'
    BY <1>1, <1>3, LockedStays DEF CachesInv, Alone, Same, InInspect
  <1>5. Shared'
    BY <1>1 DEF CachesInv, Shared, Truthful
  <1> QED
    BY <1>1, <1>3, <1>4, <1>5, AloneIsEnough

\* Inspect fails, with or without the entry.
LEMMA InspectFails ==
  ASSUME CachesInv, NEW c \in Calls, CacheFails(c) \/ InspectRefused(c) \/ InspectAborted(c)
  PROVE  CachesInv'
  <1>1. /\ stage[c] \in InInspect /\ EndInspect(c, None)
        /\ inspectCache' \in {inspectCache, None}
        /\ UNCHANGED <<openAPICache, clock, published, changes, starts>>
    BY DEF CacheFails, InspectRefused, InspectAborted, InInspect
  <1>2. inspectCache' # None => Truthful(inspectCache')
    BY <1>1 DEF CachesInv, Shared
  <1> QED
    BY <1>1, <1>2, EndingInspect

\* The entry made of an answer is kept for the cache.
LEMMA Holding ==
  ASSUME CachesInv, NEW c \in Calls, Good(c), Accepted(EntryOf(c).document), NEW to, Hold(c, to),
         \/ stage[c] = "ask" /\ to = "save"
         \/ stage[c] = "fetch" /\ to = "store"
  PROVE  CachesInv'
  <1> DEFINE e == EntryOf(c)
  <1>1. /\ stage' = [stage EXCEPT ![c] = to] /\ entry' = [entry EXCEPT ![c] = e]
        /\ started' = [started EXCEPT ![c] = None] /\ redirects' = [redirects EXCEPT ![c] = 0]
        /\ cached' = [cached EXCEPT ![c] = None] /\ answer' = [answer EXCEPT ![c] = None]
        /\ UNCHANGED <<request, began, reply, cacheVars, clock, published, changes, starts>>
    BY DEF Hold
  <1>2. Truthful(e) /\ e # None /\ e.word.at >= began[c]
    BY EntryIsTruthful DEF CachesInv, Shared
  <1> HIDE DEF e
  <1>3. /\ stage'[c] = to /\ entry'[c] = e /\ started'[c] = None /\ redirects'[c] = 0
        /\ cached'[c] = None /\ answer'[c] = None
        /\ to \in Stages /\ stage[c] \notin Settled
    BY <1>1 DEF CachesInv, Domains, Stages, Settled
  <1>4. Domains' /\ \A d \in Calls : d # c => Same(d)
    BY <1>1, <1>3 DEF CachesInv, Domains, Same
  <1>5. Placed(c)'
    BY <1>1, <1>3, BoundsAssumption
       DEF CachesInv, CallInv, Placed, Settled, Inspecting, Policing, Asking
  <1>6. Copied(c)' /\ Confirmed(c)'
    BY <1>3 DEF Copied, Confirmed, Good, Redirects
  <1>7. Made(c)'
    <2>1. Accepted(e.document)
      BY DEF e
    <2> QED
      BY <1>1, <1>2, <1>3, <2>1 DEF Made, Truthful
  <1>8. Promised(c)'
    BY <1>1, <1>3, UnderWay DEF CachesInv, Promised
  <1>9. Locked'
    BY <1>1, <1>3, <1>4, LockedStays DEF CachesInv, Same, InInspect, cacheVars
  <1>10. Shared'
    BY <1>1, SharedStays DEF CachesInv, Shared, cacheVars
  <1> QED
    BY <1>1, <1>4, <1>5, <1>6, <1>7, <1>8, <1>9, <1>10, AloneIsEnough DEF Alone, CallInv

LEMMA InspectAnsweredStep ==
  ASSUME CachesInv, NEW c \in Calls, InspectAnswered(c)
  PROVE  CachesInv'
  BY Holding DEF InspectAnswered, Parses, validateServiceIdentity, Accepted

LEMMA SaveInspectStep ==
  ASSUME CachesInv, NEW c \in Calls, SaveInspect(c)
  PROVE  CachesInv'
  <1>1. /\ stage[c] = "save" /\ EndInspect(c, entry[c])
        /\ inspectCache' \in {entry[c], None}
        /\ UNCHANGED <<openAPICache, clock, published, changes, starts>>
    BY DEF SaveInspect
  <1>2. /\ entry[c] # None /\ Truthful(entry[c]) /\ Accepted(entry[c].document)
        /\ entry[c].word.at >= began[c]
    BY <1>1 DEF CachesInv, CallInv, Made
  <1> QED
    BY <1>1, <1>2, EndingInspect DEF InInspect

-----------------------------------------------------------------------------
(* OpenAPI and Service documents.                                           *)

\* A call outside Inspect returns.
LEMMA ReturningOutside ==
  ASSUME CachesInv, NEW c \in Calls, stage[c] \in {"lookup", "fetch", "store", "download"},
         NEW r, Return(c, r), r.kind = "document" => Fits(c, r),
         UNCHANGED <<inspectionMu, inspectCache, clock, published, changes, starts>>,
         openAPICache' # None => Truthful(openAPICache') /\ Accepted(openAPICache'.document)
  PROVE  CachesInv'
  <1>1. Alone(c) /\ stage'[c] = "done"
    BY Returning DEF CachesInv, Settled
  <1>2. Locked'
    BY <1>1, LockedStays DEF CachesInv, Alone, Same, InInspect
  <1>3. Shared'
    BY DEF CachesInv, Shared, Truthful
  <1> QED
    BY <1>1, <1>2, <1>3, AloneIsEnough

LEMMA LookUpOpenAPIStep ==
  ASSUME CachesInv, NEW c \in Calls, LookUpOpenAPI(c)
  PROVE  CachesInv'
  <1>1. /\ stage[c] = "lookup"
        /\ UNCHANGED <<inspectionMu, inspectCache, openAPICache, clock, published, changes, starts>>
        /\ \/ /\ ~request[c].revalidate /\ openAPICache # None /\ Fresh(openAPICache, clock)
              /\ Return(c, Document(openAPICache))
           \/ Ask(c, "fetch", openAPICache)
    BY DEF LookUpOpenAPI, cacheVars
  <1>2. /\ Domains /\ CallInv(c) /\ stage[c] \notin Settled /\ clock \in Nat
        /\ request[c].op = "policy"
        /\ openAPICache # None => Truthful(openAPICache) /\ Accepted(openAPICache.document)
    BY <1>1, BoundsAssumption DEF CachesInv, Shared, CallInv, Placed, Policing, Settled
  <1>3. CASE /\ ~request[c].revalidate /\ openAPICache # None /\ Fresh(openAPICache, clock)
             /\ Return(c, Document(openAPICache))
    <2>1. Fits(c, Document(openAPICache))
      BY <1>2, <1>3, FreshFits
    <2> QED
      BY <1>1, <1>2, <1>3, <2>1, ReturningOutside
  <1>4. CASE Ask(c, "fetch", openAPICache)
    <2>1. Alone(c) /\ stage'[c] = "fetch" /\ request' = request
      BY <1>2, <1>1, <1>4, AskingAgain
    <2>2. Locked'
      BY <1>1, <2>1, LockedStays DEF CachesInv, Alone, Same, InInspect
    <2>3. Shared'
      BY <1>1, SharedStays DEF CachesInv, Shared
    <2> QED
      BY <1>1, <2>1, <2>2, <2>3, AloneIsEnough
  <1> QED
    BY <1>1, <1>3, <1>4

LEMMA OpenAPIAnsweredStep ==
  ASSUME CachesInv, NEW c \in Calls, OpenAPIAnswered(c)
  PROVE  CachesInv'
  <1>1. /\ stage[c] = "fetch" /\ Good(c) /\ Hold(c, "store")
        /\ answer[c].kind = "ok" => Kind[EntryOf(c).document] # "invalid"
    BY DEF OpenAPIAnswered, Parses
  <1>2. Accepted(EntryOf(c).document)
    BY <1>1, EntryIsTruthful DEF CachesInv, Shared, Accepted
  <1> QED
    BY <1>1, <1>2, Holding

LEMMA StoreOpenAPIStep ==
  ASSUME CachesInv, NEW c \in Calls, StoreOpenAPI(c)
  PROVE  CachesInv'
  <1>1. /\ stage[c] = "store" /\ Return(c, Document(entry[c]))
        /\ openAPICache' \in {entry[c], None}
        /\ UNCHANGED <<inspectionMu, inspectCache, clock, published, changes, starts>>
    BY DEF StoreOpenAPI
  <1>2. /\ entry[c] # None /\ Truthful(entry[c]) /\ Accepted(entry[c].document)
        /\ entry[c].word.at >= began[c]
    BY <1>1 DEF CachesInv, CallInv, Made
  <1>3. Fits(c, Document(entry[c]))
    BY <1>2 DEF Fits, Document, Truthful
  <1> QED
    BY <1>1, <1>2, <1>3, ReturningOutside

LEMMA ReadServiceDocumentStep ==
  ASSUME CachesInv, NEW c \in Calls, NEW r \in Requests[c], ReadServiceDocument(c, r)
  PROVE  CachesInv'
  <1> DEFINE to == IF r.portable THEN "download" ELSE "done"
  <1>1. /\ r.op = "document" /\ stage[c] \in Settled
        /\ starts < MaxStarts /\ starts' = starts + 1
        /\ request' = [request EXCEPT ![c] = IF r.portable THEN r ELSE None]
        /\ began' = [began EXCEPT ![c] = IF r.portable THEN clock ELSE None]
        /\ started' = [started EXCEPT ![c] = IF r.portable THEN clock ELSE None]
        /\ stage' = [stage EXCEPT ![c] = to]
        /\ reply' = [reply EXCEPT ![c] = IF r.portable THEN None ELSE WebURL]
        /\ UNCHANGED <<redirects, cached, answer, entry, inspectionMu, inspectCache,
                       openAPICache, clock, published, changes>>
    BY DEF ReadServiceDocument, cacheVars, Settled
  <1>2. /\ stage'[c] = to /\ r # None /\ clock \in Nat
        /\ r.portable => /\ request'[c] = r /\ began'[c] = clock /\ started'[c] = clock
                         /\ reply'[c] = None
        /\ ~r.portable => /\ request'[c] = None /\ began'[c] = None /\ started'[c] = None
                          /\ reply'[c] = WebURL
    BY <1>1, NoneAssumption, BoundsAssumption DEF CachesInv, Domains, Shared
  <1>3. Domains' /\ \A d \in Calls : d # c => Same(d)
    BY <1>1 DEF CachesInv, Domains, Same, Stages
  <1>4. Placed(c)'
    BY <1>1, <1>2, NoneAssumption, BoundsAssumption
       DEF CachesInv, CallInv, Placed, Stages, Settled, Inspecting, Policing, Asking
  <1>5. Copied(c)' /\ Confirmed(c)' /\ Made(c)' /\ Promised(c)'
    BY <1>1, <1>2
       DEF CachesInv, CallInv, Copied, Confirmed, Good, Redirects, Made, Promised, Settled, Asking,
            WebURL
  <1>6. Locked'
    BY <1>1, <1>2, <1>3, LockedStays DEF CachesInv, Same, Settled, InInspect
  <1>7. Shared'
    BY <1>1, BoundsAssumption, SharedStays DEF CachesInv, Shared
  <1> QED
    BY <1>1, <1>3, <1>4, <1>5, <1>6, <1>7, AloneIsEnough DEF Alone, CallInv

\* A reading that fails, of either document.
LEMMA ReadingFails ==
  ASSUME CachesInv, NEW c \in Calls, OpenAPIFails(c) \/ DownloadFails(c)
  PROVE  CachesInv'
  <1>1. Error.kind # "document" /\ WebURL.kind # "document"
    BY DEF Error, WebURL
  <1>2. PICK r \in {WebURL, Error} : Return(c, r)
    BY DEF OpenAPIFails, DownloadFails
  <1>3. /\ stage[c] \in {"fetch", "download"}
        /\ UNCHANGED <<inspectionMu, inspectCache, openAPICache, clock, published, changes, starts>>
    BY DEF OpenAPIFails, DownloadFails, cacheVars
  <1>4. openAPICache' # None => Truthful(openAPICache') /\ Accepted(openAPICache'.document)
    BY <1>3 DEF CachesInv, Shared
  <1> QED
    BY <1>1, <1>2, <1>3, <1>4, ReturningOutside

LEMMA DownloadedStep ==
  ASSUME CachesInv, NEW c \in Calls, Downloaded(c)
  PROVE  CachesInv'
  <1>1. /\ stage[c] = "download" /\ Good(c)
        /\ UNCHANGED <<inspectionMu, inspectCache, openAPICache, clock, published, changes, starts>>
        /\ \/ Parses(EntryOf(c).document) /\ Return(c, Document(EntryOf(c)))
           \/ Return(c, WebURL)
    BY DEF Downloaded, cacheVars
  <1>2. openAPICache' # None => Truthful(openAPICache') /\ Accepted(openAPICache'.document)
    BY <1>1 DEF CachesInv, Shared
  <1>3. WebURL.kind # "document"
    BY DEF WebURL
  <1>4. Parses(EntryOf(c).document) => Fits(c, Document(EntryOf(c)))
    BY <1>1, EntryIsTruthful DEF CachesInv, Shared, Parses, Accepted, Fits, Document, Truthful
  <1> QED
    BY <1>1, <1>2, <1>3, <1>4, ReturningOutside

-----------------------------------------------------------------------------
(* The Service, the network and the clock.                                  *)

\* The Service's answer, of what it publishes at the moment.
LEMMA Serving ==
  ASSUME CachesInv, NEW c \in Calls, stage[c] \in Asking
  PROVE  LET a == Serve(c) IN
         /\ a.word \in Words /\ a.word.at = clock /\ a.control \in Controls
         /\ a.kind \in {"ok", "not_modified"}
         /\ stage[c] # "ask" => Kind[a.word.document] # "foreign"
         /\ a.kind = "ok" => a.word.control = a.control
         /\ a.kind = "not_modified" =>
              /\ cached[c] # None /\ cached[c].document = a.word.document
              /\ a.word.control = mergeCacheHeaders(cached[c].control, a.control)
  <1>1. /\ ResourceOf(c) \in Resources
        /\ stage[c] # "ask" => ResourceOf(c) \in {"openapi", "portable"}
    BY DEF ResourceOf, Resources, Asking
  <1>2. PICK r \in Resources : r = ResourceOf(c)
    BY <1>1
  <1>3. PICK p \in Publications[r] : p = published[r]
    BY DEF CachesInv, Shared
  <1>4. /\ p.document \in Documents /\ p.control \in Controls
        /\ stage[c] # "ask" => Kind[p.document] # "foreign"
    <2>1. p.control \in Controls
      BY <1>3 DEF Controls
    <2> QED
      BY <1>1, <1>2, <1>3, <2>1, PublicationsAssumption
  <1> DEFINE kept == NotModified(c, p) /\ p.control = None
             word == [document |-> p.document, at |-> clock,
                      control |-> IF kept THEN cached[c].word.control ELSE p.control]
  <1>5. Serve(c) = [kind |-> IF NotModified(c, p) THEN "not_modified" ELSE "ok",
                    control |-> p.control, word |-> word]
    BY <1>2, <1>3 DEF Serve
  <1>6. NotModified(c, p) =>
          /\ cached[c] # None /\ cached[c].document = p.document
          /\ cached[c].word.control \in Controls /\ cached[c].word.control = cached[c].control
    BY DEF NotModified, CachesInv, CallInv, Copied, Truthful, Entries, Words
  <1>7. word \in Words
    BY <1>4, <1>6 DEF Words, CachesInv, Shared
  <1>8. /\ ~NotModified(c, p) => word.control = p.control
        /\ NotModified(c, p) => word.control = mergeCacheHeaders(cached[c].control, p.control)
    BY <1>6 DEF mergeCacheHeaders
  <1>9. word.document = p.document /\ word.at = clock
    OBVIOUS
  <1> HIDE DEF word
  <1> QED
    BY <1>4, <1>5, <1>6, <1>7, <1>8, <1>9

\* The answer to a call, and the redirects it has followed, change alone.
LEMMA Hearing ==
  ASSUME CachesInv, NEW c \in Calls, stage[c] \in Asking,
         DOMAIN answer' = Calls, DOMAIN redirects' = Calls,
         redirects'[c] \in 0..maximumInspectRedirects,
         \A d \in Calls : d # c => answer'[d] = answer[d] /\ redirects'[d] = redirects[d],
         \/ answer'[c] = Serve(c)
         \/ ~Good(c)' /\ (Redirects(c)' => redirects'[c] < maximumInspectRedirects),
         UNCHANGED <<request, stage, began, started, cached, entry, reply, cacheVars, clock,
                     published, changes, starts>>
  PROVE  CachesInv'
  <1>1. Domains' /\ \A d \in Calls : d # c => Same(d)
    BY DEF CachesInv, Domains, Same
  <1>2. Placed(c)'
    BY DEF CachesInv, CallInv, Placed
  <1>3. Copied(c)' /\ Made(c)' /\ Promised(c)'
    BY DEF CachesInv, CallInv, Copied, Made, Promised, Truthful
  <1>4. Confirmed(c)'
    <2>1. CASE ~Good(c)' /\ (Redirects(c)' => redirects'[c] < maximumInspectRedirects)
      BY <2>1 DEF Confirmed
    <2>2. CASE answer'[c] = Serve(c)
      <3>1. started[c] \in 0..clock /\ clock \in started[c]..clock
        BY BoundsAssumption DEF CachesInv, Shared, CallInv, Placed
      <3>2. PICK a : a = Serve(c)
        OBVIOUS
      <3>3. /\ a.word \in Words /\ a.word.at = clock /\ a.control \in Controls
            /\ a.kind \in {"ok", "not_modified"}
            /\ stage[c] # "ask" => Kind[a.word.document] # "foreign"
            /\ a.kind = "ok" => a.word.control = a.control
            /\ a.kind = "not_modified" =>
                 /\ cached[c] # None /\ cached[c].document = a.word.document
                 /\ a.word.control = mergeCacheHeaders(cached[c].control, a.control)
        BY <3>2, Serving
      <3> QED
        BY <2>2, <3>1, <3>2, <3>3 DEF Confirmed, Redirects
    <2> QED
      BY <2>1, <2>2
  <1>5. Locked'
    BY LockedStays DEF CachesInv, cacheVars
  <1>6. Shared'
    BY SharedStays DEF CachesInv, Shared, cacheVars
  <1> QED
    BY <1>1, <1>2, <1>3, <1>4, <1>5, <1>6, AloneIsEnough DEF Alone, CallInv

LEMMA AnswerStep ==
  ASSUME CachesInv, NEW c \in Calls, Answer(c)
  PROVE  CachesInv'
  <1>1. /\ stage[c] \in Asking
        /\ \E a : /\ answer' = [answer EXCEPT ![c] = a]
                  /\ \/ a = Serve(c) \/ a = [kind |-> "failure"]
                     \/ a = [kind |-> "redirect"] /\ redirects[c] < maximumInspectRedirects
        /\ UNCHANGED <<request, stage, began, started, redirects, cached, entry, reply, cacheVars,
                       clock, published, changes, starts>>
    BY DEF Answer
  <1>2. PICK a : /\ answer' = [answer EXCEPT ![c] = a]
                 /\ \/ a = Serve(c) \/ a = [kind |-> "failure"]
                    \/ a = [kind |-> "redirect"] /\ redirects[c] < maximumInspectRedirects
    BY <1>1
  <1>3. /\ DOMAIN answer' = Calls /\ DOMAIN redirects' = Calls /\ answer'[c] = a
        /\ \A d \in Calls : d # c => answer'[d] = answer[d] /\ redirects'[d] = redirects[d]
        /\ redirects'[c] \in 0..maximumInspectRedirects
    BY <1>1, <1>2 DEF CachesInv, Domains, CallInv, Placed
  <1>4. \/ answer'[c] = Serve(c)
        \/ ~Good(c)' /\ (Redirects(c)' => redirects'[c] < maximumInspectRedirects)
    BY <1>1, <1>2, <1>3 DEF Good, Redirects
  <1> QED
    BY <1>1, <1>3, <1>4, Hearing

LEMMA RedirectedStep ==
  ASSUME CachesInv, NEW c \in Calls, Redirected(c)
  PROVE  CachesInv'
  <1>1. /\ redirects' = [redirects EXCEPT ![c] = @ + 1]
        /\ answer' = [answer EXCEPT ![c] = None] /\ Redirects(c)
        /\ UNCHANGED <<request, stage, began, started, cached, entry, reply, cacheVars,
                       clock, published, changes, starts>>
    BY DEF Redirected, Redirects
  <1>2. /\ DOMAIN answer' = Calls /\ DOMAIN redirects' = Calls
        /\ answer'[c] = None /\ redirects'[c] = redirects[c] + 1
        /\ \A d \in Calls : d # c => answer'[d] = answer[d] /\ redirects'[d] = redirects[d]
    BY <1>1 DEF CachesInv, Domains
  <1>3. stage[c] \in Asking /\ redirects'[c] \in 0..maximumInspectRedirects
    BY <1>1, <1>2, BoundsAssumption DEF CachesInv, CallInv, Confirmed, Redirects, Placed
  <1> QED
    BY <1>1, <1>2, <1>3, Hearing DEF Good, Redirects

LEMMA PublishStep ==
  ASSUME CachesInv, NEW r \in Resources, NEW p \in Publications[r], Publish(r, p)
  PROVE  CachesInv'
  <1>1. /\ published' = [published EXCEPT ![r] = p]
        /\ changes < MaxPublished /\ changes' = changes + 1
        /\ UNCHANGED <<request, stage, began, started, redirects, cached, answer, entry, reply,
                       inspectionMu, inspectCache, openAPICache, clock, starts>>
    BY DEF Publish, callVars, cacheVars
  <1>2. Domains' /\ Locked'
    BY <1>1 DEF CachesInv, Domains, Locked
  <1>3. Shared'
    BY <1>1, BoundsAssumption DEF CachesInv, Shared, Truthful
  <1>4. \A c \in Calls : CallInv(c)'
    BY <1>1, CallStays DEF CachesInv, Same
  <1> QED
    BY <1>2, <1>3, <1>4 DEF CachesInv

\* Time passes the timeout of no exchange.
LEMMA TickStep ==
  ASSUME CachesInv, Tick
  PROVE  CachesInv'
  <1>1. /\ clock < MaxClock /\ clock' = clock + 1
        /\ \A c \in Calls : stage[c] \in Asking => clock < started[c] + RequestTimeout
        /\ UNCHANGED <<request, stage, began, started, redirects, cached, answer, entry, reply,
                       inspectionMu, inspectCache, openAPICache, published, changes, starts>>
    BY DEF Tick, callVars, cacheVars
  <1>2. /\ clock \in Nat /\ clock' \in 0..MaxClock /\ RequestTimeout \in Nat
        /\ 0..clock \subseteq 0..clock'
    BY <1>1, BoundsAssumption DEF CachesInv, Shared
  <1>3. Domains' /\ Locked'
    BY <1>1 DEF CachesInv, Domains, Locked
  <1>4. ASSUME NEW e, Truthful(e)
        PROVE  Truthful(e)'
    <2>1. e.word.at \in Nat
      BY <1>4, BoundsAssumption DEF Truthful, Entries, Words
    <2> QED
      BY <1>1, <1>2, <1>4, <2>1 DEF Truthful
  <1>5. Shared'
    BY <1>1, <1>2, <1>4 DEF CachesInv, Shared
  <1>6. ASSUME NEW c \in Calls
        PROVE  CallInv(c)'
    <2>1. CallInv(c)
      BY DEF CachesInv
    <2>2. Placed(c)'
      <3>1. stage[c] \in Asking => clock + 1 <= started[c] + RequestTimeout
        <4> SUFFICES ASSUME stage[c] \in Asking
                     PROVE  clock + 1 <= started[c] + RequestTimeout
          OBVIOUS
        <4>1. started[c] \in 0..clock /\ clock < started[c] + RequestTimeout
          BY <1>1, <2>1 DEF CallInv, Placed
        <4> QED
          BY <1>2, <4>1
      <3> QED
        BY <1>1, <1>2, <2>1, <3>1 DEF CallInv, Placed
    <2>3. Copied(c)'
      BY <1>1, <1>4, <2>1 DEF CallInv, Copied
    <2>4. Confirmed(c)'
      <3> SUFFICES ASSUME Good(c)
                   PROVE  answer[c].word.at \in started[c]..clock'
        BY <1>1, <2>1 DEF CallInv, Confirmed, Good, Redirects
      <3>1. answer[c].word.at \in started[c]..clock /\ started[c] \in 0..clock
        BY <2>1 DEF CallInv, Confirmed, Placed, Good
      <3> QED
        BY <1>1, <1>2, <3>1
    <2>5. Made(c)' /\ Promised(c)'
      BY <1>1, <1>4, <2>1 DEF CallInv, Made, Promised
    <2> QED
      BY <2>2, <2>3, <2>4, <2>5 DEF CallInv
  <1> QED
    BY <1>3, <1>5, <1>6 DEF CachesInv

LEMMA StutteringStep ==
  ASSUME CachesInv, UNCHANGED vars
  PROVE  CachesInv'
  <1>1. UNCHANGED <<request, stage, began, started, redirects, cached, answer, entry, reply,
                    inspectionMu, inspectCache, openAPICache, clock, published, changes, starts>>
    BY DEF vars, callVars, cacheVars
  <1>2. Domains' /\ Locked' /\ Shared'
    BY <1>1 DEF CachesInv, Domains, Locked, Shared, Truthful
  <1>3. \A c \in Calls : CallInv(c)'
    BY <1>1, CallStays DEF CachesInv, Same
  <1> QED
    BY <1>2, <1>3 DEF CachesInv

-----------------------------------------------------------------------------
(* The results.                                                             *)

\* What an earlier process left was the Service's word.
LEMMA InitialState ==
  ASSUME Init
  PROVE  CachesInv
  <1>1. Domains
    BY DEF Init, Domains, Stages
  <1>2. Locked
    BY NoneAssumption DEF Init, Locked, InInspect
  <1>3. Shared
    <2>1. ASSUME NEW p \in Earlier
          PROVE  Truthful(Left(p))
      <3>1. p.document \in Documents /\ p.control \in Controls
        BY PublicationsAssumption DEF Controls
      <3>2. clock = 0 /\ 0 \in 0..MaxClock /\ RequestTimeout \in Nat
        BY BoundsAssumption DEF Init
      <3>3. [document |-> p.document, at |-> 0, control |-> p.control] \in Words
        BY <3>1, <3>2 DEF Words
      <3> QED
        BY <3>1, <3>2, <3>3 DEF Truthful, Left, Entries
    <2>2. published = First /\ \A r \in Resources : published[r] \in Publications[r]
      BY PublicationsAssumption DEF Init
    <2> QED
      BY <2>1, <2>2, BoundsAssumption, PublicationsAssumption DEF Init, Shared
  <1>4. ASSUME NEW c \in Calls
        PROVE  CallInv(c)
    BY BoundsAssumption
       DEF Init, CallInv, Placed, Copied, Confirmed, Good, Redirects, Made, Promised, Stages,
           Settled, Inspecting, Policing, Asking
  <1> QED
    BY <1>1, <1>2, <1>3, <1>4 DEF CachesInv

\* The inductive invariant: the Service's word on every entry, answer and copy,
\* no older than one exchange, and where each call is.
THEOREM CachesInvariant == Spec => []CachesInv
  <1>1. Init => CachesInv
    BY InitialState
  <1>2. CachesInv /\ [Next]_vars => CachesInv'
    <2> SUFFICES ASSUME CachesInv, [Next]_vars
                 PROVE  CachesInv'
      OBVIOUS
    <2>1. ASSUME NEW c \in Calls, NEW r \in Requests[c], Start(c, r) \/ ReadServiceDocument(c, r)
          PROVE  CachesInv'
      BY <2>1, StartStep, ReadServiceDocumentStep
    <2>2. ASSUME NEW c \in Calls, Lock(c) \/ FindInspect(c) \/ DropInspect(c)
          PROVE  CachesInv'
      BY <2>2, LockStep, FindInspectStep, DropInspectStep
    <2>3. ASSUME NEW c \in Calls, CacheFails(c) \/ InspectRefused(c) \/ InspectAborted(c)
          PROVE  CachesInv'
      BY <2>3, InspectFails
    <2>4. ASSUME NEW c \in Calls, Answer(c) \/ Redirected(c)
          PROVE  CachesInv'
      BY <2>4, AnswerStep, RedirectedStep
    <2>5. ASSUME NEW c \in Calls, InspectAnswered(c) \/ SaveInspect(c)
          PROVE  CachesInv'
      BY <2>5, InspectAnsweredStep, SaveInspectStep
    <2>6. ASSUME NEW c \in Calls, LookUpOpenAPI(c) \/ OpenAPIAnswered(c) \/ StoreOpenAPI(c)
          PROVE  CachesInv'
      BY <2>6, LookUpOpenAPIStep, OpenAPIAnsweredStep, StoreOpenAPIStep
    <2>7. ASSUME NEW c \in Calls, OpenAPIFails(c) \/ DownloadFails(c) \/ Downloaded(c)
          PROVE  CachesInv'
      BY <2>7, ReadingFails, DownloadedStep
    <2>8. ASSUME NEW r \in Resources, NEW p \in Publications[r], Publish(r, p)
          PROVE  CachesInv'
      BY <2>8, PublishStep
    <2>9. CASE Tick
      BY <2>9, TickStep
    <2>10. CASE UNCHANGED vars
      BY <2>10, StutteringStep
    <2> QED
      BY <2>1, <2>2, <2>3, <2>4, <2>5, <2>6, <2>7, <2>8, <2>9, <2>10 DEF Next
  <1> QED
    BY <1>1, <1>2, PTL DEF Spec

\* A Session's inspection mutex is held by the call that is in its Inspect and
\* by no call that has left it; what is cached has its types.
THEOREM CachesTypes == Spec => []TypeOK
  <1>1. CachesInv => TypeOK
    <2> SUFFICES ASSUME CachesInv
                 PROVE  TypeOK
      OBVIOUS
    <2>1. 0..clock \subseteq 0..MaxClock
      BY BoundsAssumption DEF CachesInv, Shared
    <2>2. ASSUME NEW c \in Calls
          PROVE  /\ request[c] \in Requests[c] \cup {None}
                 /\ began[c] \in 0..MaxClock \cup {None}
                 /\ started[c] \in 0..MaxClock \cup {None}
                 /\ redirects[c] \in 0..maximumInspectRedirects
                 /\ {cached[c], entry[c]} \subseteq Entries \cup {None}
                 /\ stage[c] \in Asking => started[c] # None
                 /\ stage[c] \in {"save", "store"} => entry[c] # None
      BY <2>1 DEF CachesInv, CallInv, Placed, Copied, Made, Truthful
    <2>3. {inspectCache, openAPICache} \subseteq Entries \cup {None}
      BY DEF CachesInv, Shared, Truthful
    <2> QED
      BY <2>2, <2>3 DEF CachesInv, Domains, Locked, Shared, TypeOK
  <1> QED
    BY <1>1, CachesInvariant, PTL

\* Whoever shares the caches, and in whatever order answers are received and
\* saved: a document is confirmed during the call, or younger than its max-age
\* and one exchange (inspect.go:52, openapi.go:151).
THEOREM DocumentsAreAsFreshAsPromised == Spec => []AsFreshAsPromised
  <1>1. CachesInv => AsFreshAsPromised
    BY DEF CachesInv, CallInv, Promised, Accepted, AsFreshAsPromised
  <1> QED
    BY <1>1, CachesInvariant, PTL
==============================================================================
