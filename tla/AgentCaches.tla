------------------------------ MODULE AgentCaches ------------------------------
(***************************************************************************)
(* The documents an Agent reads from a Service: the Inspect document, in a *)
(* cache the Sessions of a Client share, each under a mutex of its own;    *)
(* the OpenAPI document, in a cache whose mutex is not held across the     *)
(* exchange; and portable documents, which are not cached.  An answer is   *)
(* made at one moment and received at a later one.  Which URL answers is   *)
(* left out: redirects are counted and either allowed or refused.          *)
(***************************************************************************)
EXTENDS Integers, FiniteSets

CONSTANTS
  Calls, Sessions,
  Requests,                 \* Requests[c]: what call c may ask for
  Documents,
  Kind,                     \* Kind[d]: what validation finds of document d
  Publications,             \* Publications[r]: [document, control] the Service
                            \* may publish as r; control is its Cache-Control
                            \* header, [store, reuse, maxAge], or None
  First,                    \* First[r]: what it publishes at the beginning
  Earlier,                  \* what an earlier process may have cached
  maximumInspectRedirects,  \* the limit of the other two loops as well
  RequestTimeout,
  DefaultInspectFreshness,
  MaxStarts,                \* bound on the calls made
  MaxPublished,             \* bound on what the Service publishes later
  MaxClock,                 \* bound on the clock
  None

ASSUME BoundsAssumption ==
  {maximumInspectRedirects, RequestTimeout, DefaultInspectFreshness,
   MaxStarts, MaxPublished, MaxClock} \subseteq Nat

Resources == {"inspect", "openapi", "portable"}
\* "advertises": an Inspect document with an OpenAPI URL; "misplaced": with a
\* URL ResolveOpenAPIURL refuses; "plain": any other that is accepted.
Kinds == {"plain", "advertises", "misplaced", "invalid", "foreign"}
ASSUME DocumentsAssumption == Kind \in [Documents -> Kinds]
\* Inspect documents alone name a Service, and may name a foreign one.
ASSUME PublicationsAssumption ==
  /\ DOMAIN First = Resources
  /\ \A r \in Resources :
       First[r] \in Publications[r] /\ \A p \in Publications[r] : p.document \in Documents
  /\ \A r \in {"openapi", "portable"} : \A p \in Publications[r] : Kind[p.document] # "foreign"
  /\ \A p \in Earlier : p.document \in Documents
\* Session.Inspect has no option to revalidate.
ASSUME RequestsAssumption ==
  \A c \in Calls : \A r \in Requests[c] :
    /\ r.op \in {"inspect", "policy", "document"} /\ r.session \in Sessions
    /\ r.op = "inspect" => ~r.revalidate

Controls == {p.control : p \in (UNION {Publications[r] : r \in Resources}) \cup Earlier}
\* A max-age that is no number of seconds is not reused (inspectCacheFresh).
ASSUME ControlsAssumption == \A h \in Controls \ {None} : h.maxAge \in Nat

VARIABLES
  request,        \* request[c]: what call c asks for, or None
  stage,          \* stage[c]: where call c is
  began,          \* began[c]: when the call began
  started,        \* started[c]: when its timeout began to run
  redirects,      \* redirects[c]: redirects followed
  cached,         \* cached[c]: the copy of a cache's entry c works with
  answer,         \* answer[c]: the response on its way to c, or None
  entry,          \* entry[c]: the entry c has made of it, or None
  reply,          \* reply[c]: what call c returned, or None
  inspectionMu,   \* inspectionMu[s]: the call that holds it, or None
  inspectCache,   \* the entry of the Service's Inspect document, or None
  openAPICache,   \* the entry of its OpenAPI document, or None
  clock,
  published,      \* published[r]: [document, control] of the Service
  changes,        \* what it has published since the beginning
  starts          \* calls made

callVars == <<request, stage, began, started, redirects, cached, answer, entry, reply>>
cacheVars == <<inspectionMu, inspectCache, openAPICache>>
vars == <<callVars, cacheVars, clock, published, changes, starts>>

\* What the Service has said of a document: when, and for how long it holds.
Words == [document : Documents, at : 0..MaxClock, control : Controls]
\* InspectCacheEntry; "word" is what the Service said last of this entry.
Entries == [document : Documents, control : Controls, cachedAt : 0..MaxClock, word : Words]
ASSUME NoneAssumption ==
  None \notin Calls \cup Nat \cup Entries \cup UNION {Requests[c] : c \in Calls}

\* A persistent InspectCache may hold what an earlier process put into it.
Left(p) == [document |-> p.document, control |-> p.control, cachedAt |-> 0,
            word |-> [document |-> p.document, at |-> 0, control |-> p.control]]

Init ==
  /\ request = [c \in Calls |-> None]
  /\ stage = [c \in Calls |-> "idle"]
  /\ began = [c \in Calls |-> None]
  /\ started = [c \in Calls |-> None]
  /\ redirects = [c \in Calls |-> 0]
  /\ cached = [c \in Calls |-> None]
  /\ answer = [c \in Calls |-> None]
  /\ entry = [c \in Calls |-> None]
  /\ reply = [c \in Calls |-> None]
  /\ inspectionMu = [s \in Sessions |-> None]
  /\ inspectCache \in {None} \cup {Left(p) : p \in Earlier}
  /\ openAPICache = None
  /\ clock = 0
  /\ published = First
  /\ changes = 0
  /\ starts = 0

Error == [kind |-> "error"]
Fallback == [kind |-> "fallback"]
WebURL == [kind |-> "web_url"]
Document(e) == [kind |-> "document", at |-> clock, document |-> e.document, word |-> e.word]

\* A call that returns forgets all but when it began and what it asked, and
\* those as well when it returns no document.
Return(c, r) ==
  /\ stage' = [stage EXCEPT ![c] = "done"]
  /\ reply' = [reply EXCEPT ![c] = r]
  /\ started' = [started EXCEPT ![c] = None]
  /\ redirects' = [redirects EXCEPT ![c] = 0]
  /\ cached' = [cached EXCEPT ![c] = None]
  /\ answer' = [answer EXCEPT ![c] = None]
  /\ entry' = [entry EXCEPT ![c] = None]
  /\ request' = IF r.kind = "document" THEN request ELSE [request EXCEPT ![c] = None]
  /\ began' = IF r.kind = "document" THEN began ELSE [began EXCEPT ![c] = None]

\* Ask(c, from, e): the request is sent, with the validators of e if any; the
\* timeout of the exchange runs from here, through all its redirects.
Ask(c, to, e) ==
  /\ stage' = [stage EXCEPT ![c] = to]
  /\ started' = [started EXCEPT ![c] = clock]
  /\ redirects' = [redirects EXCEPT ![c] = 0]
  /\ cached' = [cached EXCEPT ![c] = e]
  /\ answer' = [answer EXCEPT ![c] = None]
  /\ entry' = [entry EXCEPT ![c] = None]
  /\ UNCHANGED <<request, began, reply>>

Goto(c, to) ==
  /\ stage' = [stage EXCEPT ![c] = to]
  /\ UNCHANGED <<request, began, started, redirects, cached, answer, entry, reply>>

Asking == {"ask", "fetch", "download"}
ResourceOf(c) ==
  CASE stage[c] = "ask" -> "inspect"
    [] stage[c] = "fetch" -> "openapi"
    [] stage[c] = "download" -> "portable"

-----------------------------------------------------------------------------
(* The Service, its network and the clock.                                  *)

Publish(r, p) ==
  /\ changes < MaxPublished
  /\ p # published[r]
  /\ published' = [published EXCEPT ![r] = p]
  /\ changes' = changes + 1
  /\ UNCHANGED <<callVars, cacheVars, clock, starts>>

\* serveInspect: 304 when the request names the entity tag of what is
\* published, which is of its body alone: Cache-Control may have changed.
NotModified(c, p) == cached[c] # None /\ cached[c].document = p.document

Serve(c) ==
  LET p == published[ResourceOf(c)]
      kept == NotModified(c, p) /\ p.control = None
      word == [document |-> p.document, at |-> clock,
               control |-> IF kept THEN cached[c].word.control ELSE p.control]
  IN [kind |-> IF NotModified(c, p) THEN "not_modified" ELSE "ok",
      control |-> p.control, word |-> word]

\* The Service answers, or redirects, or fails.
Answer(c) ==
  /\ stage[c] \in Asking /\ answer[c] = None
  /\ \/ answer' = [answer EXCEPT ![c] = Serve(c)]
     \/ /\ redirects[c] < maximumInspectRedirects
        /\ answer' = [answer EXCEPT ![c] = [kind |-> "redirect"]]
     \/ /\ stage[c] = "ask"
        /\ answer' = [answer EXCEPT ![c] = [kind |-> "failure"]]
  /\ UNCHANGED <<request, stage, began, started, redirects, cached, entry, reply,
                 cacheVars, clock, published, changes, starts>>

\* An exchange is cancelled when its timeout has passed.
Tick ==
  /\ clock < MaxClock
  /\ \A c \in Calls : stage[c] \in Asking => clock < started[c] + RequestTimeout
  /\ clock' = clock + 1
  /\ UNCHANGED <<callVars, cacheVars, published, changes, starts>>

-----------------------------------------------------------------------------
(* Freshness and the entry made of a response.                              *)

MaxAge(control) == IF control = None THEN DefaultInspectFreshness ELSE control.maxAge

\* Fault: no-cache only keeps a document out of other caches.
NoCacheIgnored(e, now) ==
  /\ e.control # None => e.control.store
  /\ e.cachedAt + MaxAge(e.control) > now

\* inspectCacheFresh: no-cache and no-store are never fresh.
Fresh(e, now) ==
  /\ e.control # None => e.control.reuse /\ e.control.store
  /\ e.cachedAt + MaxAge(e.control) > now

Storable(e) == e.control # None => e.control.store

\* mergeCacheHeaders: a header the response omits keeps its value.
mergeCacheHeaders(old, new) == IF new = None THEN old ELSE new

\* What inspectResponse and readOpenAPI make of a response: a 304 confirms
\* the copy the request was made with.
EntryOf(c) ==
  IF answer[c].kind = "not_modified"
    THEN [document |-> cached[c].document,
          control |-> mergeCacheHeaders(cached[c].control, answer[c].control),
          cachedAt |-> clock, word |-> answer[c].word]
    ELSE [document |-> answer[c].word.document, control |-> answer[c].control,
          cachedAt |-> clock, word |-> answer[c].word]

\* validateServiceIdentity: the did:web of the Service is that of its origin.
validateServiceIdentity(d) == Kind[d] # "foreign"
\* ParseInspectDocument, and InterpretOpenAPIOperation for OpenAPI.
Parses(d) == Kind[d] # "invalid"

Good(c) == answer[c] # None /\ answer[c].kind \in {"ok", "not_modified"}

\* The redirect of the three loops.  One too many, or one that leads away from
\* the origin or from HTTPS, is a failure of the call (InspectAborted,
\* OpenAPIFails, DownloadFails), as is any other answer of the latter two that
\* cannot be read.
Redirected(c) ==
  /\ answer[c] # None /\ answer[c].kind = "redirect"
  /\ redirects' = [redirects EXCEPT ![c] = @ + 1]
  /\ answer' = [answer EXCEPT ![c] = None]
  /\ UNCHANGED <<request, stage, began, started, cached, entry, reply,
                 cacheVars, clock, published, changes, starts>>

-----------------------------------------------------------------------------
(* A call of Session.Inspect or of Session.openAPIPolicy.                   *)

Start(c, r) ==
  /\ r.op # "document"
  /\ stage[c] \in {"idle", "done"} /\ starts < MaxStarts
  /\ starts' = starts + 1
  /\ request' = [request EXCEPT ![c] = r]
  /\ began' = [began EXCEPT ![c] = clock]
  /\ stage' = [stage EXCEPT ![c] = "lock"]
  /\ reply' = [reply EXCEPT ![c] = None]
  /\ UNCHANGED <<started, redirects, cached, answer, entry, cacheVars, clock, published, changes>>

Lock(c) ==
  /\ stage[c] = "lock" /\ inspectionMu[request[c].session] = None
  /\ inspectionMu' = [inspectionMu EXCEPT ![request[c].session] = c]
  /\ Goto(c, "find")
  /\ UNCHANGED <<inspectCache, openAPICache, clock, published, changes, starts>>

\* Fault: an Inspect that failed leaves the mutex of its Session locked.
FailKeepsMutex(c, e) ==
  inspectionMu' = IF e = None THEN inspectionMu
                  ELSE [inspectionMu EXCEPT ![request[c].session] = None]

\* The deferred unlock of Session.Inspect.
Unlock(c, e) == inspectionMu' = [inspectionMu EXCEPT ![request[c].session] = None]

\* Session.Inspect returns and unlocks; openAPIPolicy goes on from here.
EndInspect(c, e) ==
  /\ Unlock(c, e)
  /\ CASE e = None -> Return(c, Error)
       [] e # None /\ request[c].op = "inspect" -> Return(c, Document(e))
       [] e # None /\ request[c].op = "policy" ->
            CASE Kind[e.document] = "advertises" -> Ask(c, "lookup", None)
              [] Kind[e.document] = "misplaced" -> Return(c, Error)
              [] OTHER -> Return(c, Fallback)

\* inspect looks into the cache: what is fresh and still valid is returned,
\* what is not valid any more is deleted, anything else is revalidated.
FindInspect(c) ==
  /\ stage[c] = "find"
  /\ LET e == inspectCache IN
     CASE e # None /\ ~Parses(e.document) -> Goto(c, "drop") /\ UNCHANGED inspectionMu
       [] e # None /\ Parses(e.document) /\ Fresh(e, clock) ->
            IF validateServiceIdentity(e.document) THEN EndInspect(c, e)
            ELSE Goto(c, "drop") /\ UNCHANGED inspectionMu
       [] OTHER -> Ask(c, "ask", e) /\ UNCHANGED inspectionMu
  /\ UNCHANGED <<inspectCache, openAPICache, clock, published, changes, starts>>

DropInspect(c) ==
  /\ stage[c] = "drop"
  /\ inspectCache' = None
  /\ Ask(c, "ask", None)
  /\ UNCHANGED <<inspectionMu, openAPICache, clock, published, changes, starts>>

\* The cache is the application's: any of its operations may fail.
CacheFails(c) ==
  /\ stage[c] \in {"find", "drop", "save"}
  /\ EndInspect(c, None)
  /\ UNCHANGED <<inspectCache, openAPICache, clock, published, changes, starts>>

\* A response inspectResponse refuses deletes the entry, whose ever it is.
InspectRefused(c) ==
  /\ stage[c] = "ask" /\ answer[c] # None
  /\ \/ answer[c].kind = "failure"
     \/ Good(c) /\ ~(Parses(EntryOf(c).document) /\ validateServiceIdentity(EntryOf(c).document))
  /\ inspectCache' = None
  /\ EndInspect(c, None)
  /\ UNCHANGED <<openAPICache, clock, published, changes, starts>>

\* The request is cancelled, times out, or is redirected where it may not be:
\* the entry stays.
InspectAborted(c) ==
  /\ stage[c] = "ask"
  /\ EndInspect(c, None)
  /\ UNCHANGED <<inspectCache, openAPICache, clock, published, changes, starts>>

Hold(c, to) ==
  /\ stage' = [stage EXCEPT ![c] = to]
  /\ entry' = [entry EXCEPT ![c] = EntryOf(c)]
  /\ started' = [started EXCEPT ![c] = None]
  /\ redirects' = [redirects EXCEPT ![c] = 0]
  /\ cached' = [cached EXCEPT ![c] = None]
  /\ answer' = [answer EXCEPT ![c] = None]
  /\ UNCHANGED <<request, began, reply, cacheVars, clock, published, changes, starts>>

InspectAnswered(c) ==
  /\ stage[c] = "ask" /\ Good(c)
  /\ Parses(EntryOf(c).document) /\ validateServiceIdentity(EntryOf(c).document)
  /\ Hold(c, "save")

SaveInspect(c) ==
  /\ stage[c] = "save"
  /\ inspectCache' = IF Storable(entry[c]) THEN entry[c] ELSE None
  /\ EndInspect(c, entry[c])
  /\ UNCHANGED <<openAPICache, clock, published, changes, starts>>

-----------------------------------------------------------------------------
(* Client.openAPI: the cache is read and written under openAPIMu, and the    *)
(* exchange between the two is under no lock.                               *)

LookUpOpenAPI(c) ==
  /\ stage[c] = "lookup"
  /\ LET e == openAPICache IN
     IF ~request[c].revalidate /\ e # None /\ Fresh(e, clock)
       THEN Return(c, Document(e))
       ELSE Ask(c, "fetch", e)
  /\ UNCHANGED <<cacheVars, clock, published, changes, starts>>

\* Whatever goes wrong, the entry stays.
OpenAPIFails(c) ==
  /\ stage[c] = "fetch"
  /\ Return(c, Error)
  /\ UNCHANGED <<cacheVars, clock, published, changes, starts>>

OpenAPIAnswered(c) ==
  /\ stage[c] = "fetch" /\ Good(c)
  /\ answer[c].kind = "ok" => Parses(EntryOf(c).document)
  /\ Hold(c, "store")

StoreOpenAPI(c) ==
  /\ stage[c] = "store"
  /\ openAPICache' = IF Storable(entry[c]) THEN entry[c] ELSE None
  /\ Return(c, Document(entry[c]))
  /\ UNCHANGED <<inspectionMu, inspectCache, clock, published, changes, starts>>

-----------------------------------------------------------------------------
(* ReadServiceDocument: no portable document, or none that can be read,     *)
(* offers the Web page; only the caller's own cancellation is an error.     *)

ReadServiceDocument(c, r) ==
  /\ r.op = "document"
  /\ stage[c] \in {"idle", "done"} /\ starts < MaxStarts
  /\ starts' = starts + 1
  /\ request' = [request EXCEPT ![c] = IF r.portable THEN r ELSE None]
  /\ began' = [began EXCEPT ![c] = IF r.portable THEN clock ELSE None]
  /\ started' = [started EXCEPT ![c] = IF r.portable THEN clock ELSE None]
  /\ stage' = [stage EXCEPT ![c] = IF r.portable THEN "download" ELSE "done"]
  /\ reply' = [reply EXCEPT ![c] = IF r.portable THEN None ELSE WebURL]
  /\ UNCHANGED <<redirects, cached, answer, entry, cacheVars, clock, published, changes>>

DownloadFails(c) ==
  /\ stage[c] = "download"
  /\ \E r \in {WebURL, Error} : Return(c, r)
  /\ UNCHANGED <<cacheVars, clock, published, changes, starts>>

Downloaded(c) ==
  /\ stage[c] = "download" /\ Good(c)
  /\ Return(c, IF Parses(EntryOf(c).document) THEN Document(EntryOf(c)) ELSE WebURL)
  /\ UNCHANGED <<cacheVars, clock, published, changes, starts>>

-----------------------------------------------------------------------------
Next ==
  \/ \E c \in Calls :
       \/ \E r \in Requests[c] : Start(c, r) \/ ReadServiceDocument(c, r)
       \/ Lock(c) \/ FindInspect(c) \/ DropInspect(c) \/ CacheFails(c)
       \/ Answer(c) \/ Redirected(c)
       \/ InspectRefused(c) \/ InspectAborted(c) \/ InspectAnswered(c) \/ SaveInspect(c)
       \/ LookUpOpenAPI(c) \/ OpenAPIFails(c) \/ OpenAPIAnswered(c) \/ StoreOpenAPI(c)
       \/ DownloadFails(c) \/ Downloaded(c)
  \/ \E r \in Resources : \E p \in Publications[r] : Publish(r, p)
  \/ Tick

Spec == Init /\ [][Next]_vars

-----------------------------------------------------------------------------
Stages == {"idle", "lock", "find", "drop", "ask", "save", "lookup", "fetch", "store",
           "download", "done"}
InInspect == {"find", "drop", "ask", "save"}

\* The variables have their types, and a Session's inspection mutex is held by
\* the call that is in its Inspect and by no call that has left it
\* (inspect.go:22): without the unlock no later call of it would return.
TypeOK ==
  /\ stage \in [Calls -> Stages]
  /\ \A c \in Calls :
       /\ request[c] \in Requests[c] \cup {None}
       /\ began[c] \in 0..MaxClock \cup {None}
       /\ started[c] \in 0..MaxClock \cup {None}
       /\ redirects[c] \in 0..maximumInspectRedirects
       /\ {cached[c], entry[c]} \subseteq Entries \cup {None}
       /\ stage[c] \in Asking => started[c] # None
       /\ stage[c] \in {"save", "store"} => entry[c] # None
  /\ \A s \in Sessions : \A c \in Calls :
       inspectionMu[s] = c <=> stage[c] \in InInspect /\ request[c].session = s
  /\ {inspectCache, openAPICache} \subseteq Entries \cup {None}
  /\ \A r \in Resources : published[r] \in Publications[r]
  /\ clock \in 0..MaxClock /\ changes \in 0..MaxPublished /\ starts \in 0..MaxStarts

\* Whatever the order in which answers are received and saved, and whoever
\* shares the cache: a document a call returns is one the Service published
\* and validation accepts; either the Service confirmed it during the call, or
\* it may be reused, the call did not ask to revalidate, and it is younger,
\* by what the Service said last of it, than its max-age and the time of one
\* exchange (inspect.go:52, inspect.go:108, openapi.go:151, openapi.go:199).
AsFreshAsPromised ==
  \A c \in Calls :
    reply[c] # None /\ reply[c].kind = "document" =>
      LET word == reply[c].word IN
      /\ Kind[reply[c].document] \notin {"invalid", "foreign"}
      /\ reply[c].document = word.document
      /\ \/ word.at >= began[c]
         \/ /\ request[c].op # "document" /\ ~request[c].revalidate
            /\ word.control # None => word.control.reuse /\ word.control.store
            /\ reply[c].at < word.at + MaxAge(word.control) + RequestTimeout
================================================================================
