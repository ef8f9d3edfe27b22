------------------------- MODULE PlatformProviderProofs -------------------------
(***************************************************************************)
(* The Agent's client of a Platform, for any number of calls, documents,   *)
(* Cache-Control headers and timeouts: the types, how old a document is    *)
(* when it is used, and what the answers of the provider rest on.          *)
(***************************************************************************)
EXTENDS PlatformProvider, TLAPS

Stages == {"idle", "discover", "fetching", "leaving", "sent", "done"}
Purposes == {"list", "provision", "sign"}
Exchanging == {"fetching", "leaving", "sent"}

Shaped ==
  /\ request \in [Calls -> AllRequests \cup {None}]
  /\ stage \in [Calls -> Stages]
  /\ purpose \in [Calls -> Purposes \cup {None}]
  /\ attempt \in [Calls -> 0..MaxStages]
  /\ redirects \in [Calls -> 0..maximumInspectRedirects]
  /\ started \in [Calls -> Nat \cup {None}]
  /\ DOMAIN used = Calls /\ DOMAIN reply = Calls /\ DOMAIN answer = Calls
  /\ DOMAIN live = Calls
  /\ agents \in [Services -> Statuses \cup {None}]
  /\ document \in Documents /\ clock \in 0..MaxClock

\* Who is where, and since when.
Placed ==
  /\ \A c \in Calls : (request[c] = None) = (stage[c] = "idle")
  /\ \A c \in Calls : (reply[c] # None) = (stage[c] = "done")
  /\ \A c \in Calls :
       stage[c] \in {"discover", "fetching", "leaving", "sent"} => purpose[c] \in Purposes
  /\ \A c \in Calls : stage[c] \in {"idle", "discover", "leaving", "done"} => answer[c] = None
  /\ \A c \in Calls : (stage[c] = "fetching") = (discoveryMu = c)
  /\ \A c \in Calls : stage[c] \in Exchanging =>
       started[c] \in 0..clock /\ clock <= started[c] + RequestTimeout

-----------------------------------------------------------------------------
(* The document.                                                            *)

\* Document d was the Platform's at time t or later.
CurrentAt(d, t) == superseded[d] # None => superseded[d] >= t

\* What a response to discovery says, and to whom: a 304 is about what is
\* cached, which nobody replaces before the response is taken.
Confirmed(c) ==
  stage[c] = "fetching" /\ answer[c] # None =>
    /\ answer[c].document \in 0..document /\ CurrentAt(answer[c].document, started[c])
    /\ answer[c].cacheControl \in CacheControls
    /\ ~answer[c].modified => discovery # None /\ discovery.document = answer[c].document

Cached(entry) ==
  /\ entry.document \in 0..document /\ entry.document \notin InvalidDocuments
  /\ entry.cachedAt \in 0..clock /\ entry.cacheControl \in CacheControls
  /\ Storable(entry.cacheControl)
  /\ CurrentAt(entry.document, entry.cachedAt - RequestTimeout)

\* The use of a document, and until when the Platform published it.
Sound(use) ==
  /\ use.document \in 0..document /\ use.document \notin InvalidDocuments
  /\ use.at \in 0..clock
  /\ superseded[use.document] # None =>
       \/ use.at - superseded[use.document] <= RequestTimeout
       \/ \E h \in CacheControls :
            /\ Reusable(h)
            /\ use.at - superseded[use.document] < RequestTimeout + MaxAge(h)

Published ==
  /\ \A d \in Documents : superseded[d] \in 0..clock \cup {None}
  /\ \A d \in Documents : d >= document => superseded[d] = None
  /\ 0..document \subseteq Documents /\ DOMAIN superseded = Documents
  /\ discovery # None => Cached(discovery)
  /\ \A c \in Calls : Confirmed(c)
  /\ \A c \in Calls : used[c] # None => Sound(used[c])

-----------------------------------------------------------------------------
(* The commands and their answers.                                          *)

\* What the Platform may answer call c: identities it shows as active were so
\* during the call, an assertion has the claims of the call.
True(c, command, context, a) ==
  /\ command = "list" =>
       a.kind = "list" /\ \A i \in a.data : i.status = "active" => i.service \in live[c]
  /\ command = "provision" =>
       a.kind = "identity" /\ (a.status = "active" => a.service \in live[c])
  /\ command = "sign" =>
       \/ a.kind = "pending" /\ context < MaxStages
       \/ a.kind = "assertion" /\ a.service \in live[c] /\ a.claims = request[c].claims

\* An identity that is active now has been so during every call under way.
Live ==
  \A c \in Calls, s \in Services : stage[c] # "idle" /\ Active(s) => s \in live[c]

Asked ==
  \A m \in wire :
    /\ m.call \in Calls /\ stage[m.call] # "idle"
    /\ m.command \in Purposes /\ m.context \in 0..MaxStages
    /\ m.key = <<m.call, m.command, m.context>>
    /\ m.service \in Services
    /\ m.command = "sign" => m.claims = request[m.call].claims

Kept ==
  \A e \in memory : \E c \in Calls, command \in Purposes, context \in 0..MaxStages :
    /\ e.key = <<c, command, context>> /\ stage[c] # "idle"
    /\ True(c, command, context, e.answer)

Due ==
  \A c \in Calls : stage[c] = "sent" /\ answer[c] # None =>
    True(c, purpose[c], attempt[c], answer[c])

Told(c, r) ==
  /\ r.kind = "identity" => request[c].service \in live[c]
  /\ r.kind = "assertion" => r.claims = request[c].claims /\ request[c].service \in live[c]

Answered == Live /\ Asked /\ Kept /\ Due /\ \A c \in Calls : reply[c] # None => Told(c, reply[c])

\* A command leaves while the exchange that began with its document lasts.
Departed ==
  /\ \A c \in Calls : stage[c] = "leaving" =>
       /\ used[c] # None
       /\ used[c] = [document |-> used[c].document, at |-> started[c], left |-> None]
  /\ \A c \in Calls : used[c] # None /\ used[c].left # None =>
       used[c].left \in Nat /\ used[c].left <= used[c].at + RequestTimeout

ProviderInv == Shaped /\ Placed /\ Published /\ Departed /\ Answered

-----------------------------------------------------------------------------
(* What a step leaves alone.                                                *)

Endures ==
  \A c \in Calls : stage[c] # "idle" =>
    stage'[c] # "idle" /\ request'[c] = request[c] /\ live[c] \subseteq live'[c]

LEMMA TrueEndures ==
  ASSUME Endures, NEW c \in Calls, stage[c] # "idle"
  PROVE  \A command, context, a : True(c, command, context, a) => True(c, command, context, a)'
  BY DEF Endures, True

LEMMA AskedEndures ==
  ASSUME Asked, Endures, wire' \subseteq wire
  PROVE  Asked'
  BY DEF Asked, Endures

LEMMA KeptEndures ==
  ASSUME Kept, Endures, NEW e \in memory
  PROVE  \E c \in Calls, command \in Purposes, context \in 0..MaxStages :
           /\ e.key = <<c, command, context>> /\ stage'[c] # "idle"
           /\ True(c, command, context, e.answer)'
  <1>1. PICK c \in Calls, command \in Purposes, context \in 0..MaxStages :
          /\ e.key = <<c, command, context>> /\ stage[c] # "idle"
          /\ True(c, command, context, e.answer)
    BY DEF Kept
  <1>2. True(c, command, context, e.answer)' /\ stage'[c] # "idle"
    BY <1>1, TrueEndures DEF Endures
  <1> QED
    BY <1>1, <1>2

LEMMA DueEndures ==
  ASSUME Due, Endures,
         NEW c \in Calls, stage[c] = "sent", answer[c] # None,
         answer'[c] = answer[c], purpose'[c] = purpose[c], attempt'[c] = attempt[c]
  PROVE  True(c, purpose[c], attempt[c], answer[c])'
  <1>1. True(c, purpose[c], attempt[c], answer[c])
    BY DEF Due
  <1> QED
    BY <1>1 DEF Endures, True

LEMMA ToldEndures ==
  ASSUME Placed, Endures, NEW c \in Calls, reply[c] # None, Told(c, reply[c]), reply'[c] = reply[c]
  PROVE  Told(c, reply[c])'
  BY DEF Placed, Endures, Told

\* A step of the Platform or of nobody, as far as the documents are concerned.
LEMMA PublishedEndures ==
  ASSUME Published, UNCHANGED <<discovery, document, superseded, clock>>,
         \A c \in Calls : used'[c] # None =>
           used[c] # None /\ used'[c].document = used[c].document /\ used'[c].at = used[c].at,
         \A c \in Calls : stage'[c] = "fetching" /\ answer'[c] # None =>
           stage[c] = "fetching" /\ answer'[c] = answer[c] /\ started'[c] = started[c]
  PROVE  Published'
  <1>1. /\ \A d \in Documents : superseded'[d] \in 0..clock' \cup {None}
        /\ \A d \in Documents : d >= document' => superseded'[d] = None
        /\ 0..document' \subseteq Documents /\ DOMAIN superseded' = Documents
    BY DEF Published
  <1>2. discovery' # None => Cached(discovery)'
    BY DEF Published, Cached, CurrentAt
  <1>3. \A c \in Calls : Confirmed(c)'
    BY DEF Published, Confirmed, CurrentAt
  <1>4. ASSUME NEW c \in Calls, used'[c] # None
        PROVE  Sound(used[c])'
    <2>1. /\ used'[c].document = used[c].document /\ used'[c].at = used[c].at
          /\ Sound(used[c])
      BY <1>4 DEF Published
    <2> QED
      BY <2>1 DEF Sound
  <1> QED
    BY <1>1, <1>2, <1>3, <1>4 DEF Published

LEMMA DepartedEndures ==
  ASSUME Departed,
         \A c \in Calls : used'[c] \in {None, used[c]},
         \A c \in Calls : stage'[c] = "leaving" =>
           stage[c] = "leaving" /\ used'[c] = used[c] /\ started'[c] = started[c]
  PROVE  Departed'
  BY DEF Departed

\* Answered, when nothing is sent, remembered or returned.
LEMMA AnsweredEndures ==
  ASSUME Placed, Answered, Endures, Live', wire' \subseteq wire, memory' = memory,
         \A c \in Calls : reply'[c] \in {None, reply[c]},
         \A c \in Calls : stage'[c] = "sent" /\ answer'[c] # None =>
           /\ stage[c] = "sent" /\ answer'[c] = answer[c]
           /\ purpose'[c] = purpose[c] /\ attempt'[c] = attempt[c]
  PROVE  Answered'
  <1>1. Asked'
    BY AskedEndures DEF Answered
  <1>2. Kept'
    BY KeptEndures DEF Answered, Kept
  <1>3. Due'
    BY DueEndures DEF Answered, Due
  <1>4. ASSUME NEW c \in Calls, reply'[c] # None
        PROVE  Told(c, reply[c])'
    BY <1>4, ToldEndures DEF Answered
  <1> QED
    BY <1>1, <1>2, <1>3, <1>4 DEF Answered

-----------------------------------------------------------------------------
(* The calls and their discovery.                                           *)

LEMMA CallStep ==
  ASSUME ProviderInv, NEW c \in Calls, NEW r \in Requests[c], Call(c, r)
  PROVE  ProviderInv'
  <1>1. r \in AllRequests /\ r # None /\ r.op \in {"find", "getOrCreate", "sign"}
    BY RequestsAssumption, NoneAssumption DEF AllRequests
  <1>2. Error # None /\ Error.kind = "error"
    BY NoneAssumption DEF Error
  <1>3. /\ request[c] = None /\ request' = [request EXCEPT ![c] = r]
        /\ live' = [live EXCEPT ![c] = {s \in Services : Active(s)}]
        /\ \/ Discover(c, "list") \/ Discover(c, "sign")
           \/ Return(c, Error) /\ UNCHANGED purpose
        /\ UNCHANGED <<attempt, started, redirects, used, cacheVars, netVars, clock, document,
                       superseded, agents, memory>>
    <2>1. CASE r.op \in {"find", "getOrCreate"}
      BY <2>1 DEF Call
    <2>2. CASE r.op = "sign"
      BY <2>2 DEF Call
    <2> QED
      BY <1>1, <2>1, <2>2
  <1>4. /\ stage[c] = "idle" /\ answer[c] = None /\ reply[c] = None
        /\ UNCHANGED <<discoveryMu, discovery, wire, answer>>
    BY <1>3 DEF ProviderInv, Placed, cacheVars, netVars
  <1>5. /\ stage' \in [Calls -> Stages] /\ purpose' \in [Calls -> Purposes \cup {None}]
        /\ \A d \in Calls : d # c =>
             /\ stage'[d] = stage[d] /\ purpose'[d] = purpose[d] /\ reply'[d] = reply[d]
             /\ request'[d] = request[d] /\ live'[d] = live[d]
        /\ DOMAIN reply' = Calls
        /\ request'[c] = r /\ live'[c] = {s \in Services : Active(s)}
        /\ \/ stage'[c] = "discover" /\ purpose'[c] \in Purposes /\ reply'[c] = None
           \/ stage'[c] = "done" /\ reply'[c] = Error
    BY <1>3, <1>4 DEF ProviderInv, Shaped, Discover, Return, Stages, Purposes
  <1>6. Shaped'
    BY <1>1, <1>3, <1>4, <1>5 DEF ProviderInv, Shaped
  <1>7. Placed'
    <2>1. \A d \in Calls : /\ (request'[d] = None) = (stage'[d] = "idle")
                           /\ (reply'[d] # None) = (stage'[d] = "done")
      BY <1>1, <1>2, <1>5 DEF ProviderInv, Placed
    <2>2. \A d \in Calls :
            /\ stage'[d] \in {"discover", "fetching", "leaving", "sent"} => purpose'[d] \in Purposes
            /\ stage'[d] \in {"idle", "discover", "leaving", "done"} => answer'[d] = None
            /\ (stage'[d] = "fetching") = (discoveryMu' = d)
      BY <1>4, <1>5 DEF ProviderInv, Placed
    <2>3. \A d \in Calls : stage'[d] \in Exchanging =>
            started'[d] \in 0..clock' /\ clock' <= started'[d] + RequestTimeout
      BY <1>3, <1>5 DEF ProviderInv, Placed, Exchanging
    <2> QED
      BY <2>1, <2>2, <2>3 DEF Placed
  <1>8. Published'
    BY <1>3, <1>4, <1>5, PublishedEndures DEF ProviderInv
  <1>9. Answered'
    <2>1. Endures
      BY <1>4, <1>5 DEF Endures, ProviderInv, Placed
    <2>2. Live'
      BY <1>3, <1>5 DEF ProviderInv, Answered, Live, Active
    <2>3. ASSUME NEW d \in Calls, reply'[d] # None
          PROVE  Told(d, reply[d])'
      BY <1>2, <1>5, <2>1, <2>3, ToldEndures DEF ProviderInv, Answered, Told
    <2>4. Asked' /\ Kept' /\ Due'
      BY <1>3, <1>4, <1>5, <2>1, AskedEndures, KeptEndures, DueEndures
         DEF ProviderInv, Answered, Kept, Due
    <2> QED
      BY <2>2, <2>3, <2>4 DEF Answered
  <1>10. Departed'
    BY <1>3, <1>4, <1>5, DepartedEndures DEF ProviderInv
  <1> QED
    BY <1>6, <1>7, <1>8, <1>9, <1>10 DEF ProviderInv

\* The document that discover returns is one that may be used now.
LEMMA DiscoveredStep ==
  ASSUME ProviderInv, NEW c \in Calls, NEW d, Discovered(c, d),
         stage[c] \in {"discover", "fetching"},
         Sound([document |-> d, at |-> clock, left |-> None]),
         discovery' # None => Cached(discovery)',
         UNCHANGED <<request, purpose, attempt, reply, wire, clock, platformVars>>,
         redirects' \in [Calls -> 0..maximumInspectRedirects],
         DOMAIN answer' = Calls, answer'[c] = None,
         \A e \in Calls : e # c => answer'[e] = answer[e] /\ stage[e] # "fetching",
         discoveryMu' \notin Calls \/ (discoveryMu' = discoveryMu /\ discoveryMu \notin Calls)
  PROVE  ProviderInv'
  <1> DEFINE use == [document |-> d, at |-> clock, left |-> None]
  <1>1. /\ stage' = [stage EXCEPT ![c] = "leaving"]
        /\ started' = [started EXCEPT ![c] = clock]
        /\ used' = [used EXCEPT ![c] = use]
        /\ UNCHANGED <<wire, document, superseded, agents, live, memory>>
    BY DEF Discovered, platformVars
  <1>2. clock \in Nat
    BY DEF ProviderInv, Shaped
  <1>3. /\ stage'[c] = "leaving" /\ started'[c] = clock /\ used'[c] = use
        /\ \A e \in Calls : e # c =>
             stage'[e] = stage[e] /\ started'[e] = started[e] /\ used'[e] = used[e]
        /\ stage' \in [Calls -> Stages] /\ started' \in [Calls -> Nat \cup {None}]
        /\ DOMAIN used' = Calls
    BY <1>1, <1>2 DEF ProviderInv, Shaped, Stages
  <1> HIDE DEF use
  <1>4. Shaped'
    BY <1>1, <1>3 DEF ProviderInv, Shaped
  <1>5. Placed'
    <2>1. \A e \in Calls : /\ (request'[e] = None) = (stage'[e] = "idle")
                           /\ (reply'[e] # None) = (stage'[e] = "done")
      BY <1>3 DEF ProviderInv, Placed
    <2>2. \A e \in Calls :
            /\ stage'[e] \in {"discover", "fetching", "leaving", "sent"} => purpose'[e] \in Purposes
            /\ stage'[e] \in {"idle", "discover", "leaving", "done"} => answer'[e] = None
      BY <1>3 DEF ProviderInv, Placed
    <2>3. \A e \in Calls : (stage'[e] = "fetching") = (discoveryMu' = e)
      BY <1>3
    <2>4. \A e \in Calls : stage'[e] \in Exchanging =>
            started'[e] \in 0..clock' /\ clock' <= started'[e] + RequestTimeout
      BY <1>2, <1>3, TimesAssumption DEF ProviderInv, Placed, Exchanging
    <2> QED
      BY <2>1, <2>2, <2>3, <2>4 DEF Placed
  <1>6. Published'
    <2>1. /\ \A e \in Documents : superseded'[e] \in 0..clock' \cup {None}
          /\ \A e \in Documents : e >= document' => superseded'[e] = None
          /\ 0..document' \subseteq Documents /\ DOMAIN superseded' = Documents
      BY <1>1 DEF ProviderInv, Published
    <2>2. \A e \in Calls : Confirmed(e)'
      BY <1>3 DEF Confirmed
    <2>3. ASSUME NEW e \in Calls, used'[e] # None
          PROVE  Sound(used[e])'
      <3>1. CASE e = c
        BY <1>1, <1>3, <3>1 DEF Sound, use
      <3>2. CASE e # c
        BY <1>1, <1>3, <2>3, <3>2 DEF ProviderInv, Published, Sound
      <3> QED
        BY <3>1, <3>2
    <2> QED
      BY <2>1, <2>2, <2>3 DEF Published
  <1>7. Departed'
    <2>1. d \in Documents /\ clock \in 0..MaxClock
      BY DEF ProviderInv, Shaped, Published, Sound
    <2>2. use # None
      BY <2>1, NoneAssumption DEF use
    <2> QED
      BY <1>1, <1>3, <2>2 DEF ProviderInv, Departed, use
  <1>8. Answered'
    <2>1. Endures /\ Live'
      BY <1>1, <1>3 DEF Endures, ProviderInv, Answered, Live, Active
    <2> QED
      BY <1>1, <1>3, <2>1, AnsweredEndures DEF ProviderInv
  <1> QED
    BY <1>4, <1>5, <1>6, <1>7, <1>8 DEF ProviderInv

\* A cached document is used while it is fresh: by then it may have been out of
\* date for the time of one exchange and its max-age.
LEMMA DiscoverCachedStep ==
  ASSUME ProviderInv, NEW c \in Calls, DiscoverCached(c)
  PROVE  ProviderInv'
  <1>1. /\ stage[c] = "discover" /\ discoveryMu = None
        /\ discovery # None /\ Fresh(discovery, clock)
        /\ Discovered(c, discovery.document)
        /\ UNCHANGED <<request, purpose, attempt, redirects, reply, cacheVars, netVars, clock,
                       platformVars>>
    BY DEF DiscoverCached
  <1>2. /\ UNCHANGED <<discoveryMu, discovery, wire, answer, document, superseded>>
        /\ discoveryMu \notin Calls
    BY <1>1, NoneAssumption DEF cacheVars, netVars, platformVars
  <1>3. Cached(discovery) /\ Cached(discovery)'
    BY <1>1, <1>2 DEF ProviderInv, Published, Cached, CurrentAt
  <1>4. Sound([document |-> discovery.document, at |-> clock, left |-> None])
    <2>1. /\ discovery.document \in Documents
          /\ superseded[discovery.document] \in 0..clock \cup {None}
      BY <1>3 DEF ProviderInv, Published, Cached
    <2>2. /\ discovery.cacheControl \in CacheControls /\ Reusable(discovery.cacheControl)
          /\ discovery.cachedAt + MaxAge(discovery.cacheControl) > clock
      BY <1>1, <1>3 DEF Fresh, Cached
    <2>3. MaxAge(discovery.cacheControl) \in Nat
      BY <2>2, TimesAssumption, CacheControlsAssumption DEF MaxAge
    <2>4. clock \in 0..clock /\ discovery.cachedAt \in 0..clock /\ RequestTimeout \in Nat
      BY <1>3, TimesAssumption DEF ProviderInv, Shaped, Cached
    <2>5. superseded[discovery.document] # None =>
            superseded[discovery.document] >= discovery.cachedAt - RequestTimeout
      BY <1>3 DEF Cached, CurrentAt
    <2>6. superseded[discovery.document] # None =>
            clock - superseded[discovery.document] < RequestTimeout + MaxAge(discovery.cacheControl)
      BY <2>1, <2>2, <2>3, <2>4, <2>5
    <2> QED
      BY <1>3, <2>2, <2>4, <2>6 DEF Sound, Cached
  <1>5. /\ answer'[c] = None /\ DOMAIN answer' = Calls
        /\ \A e \in Calls : answer'[e] = answer[e] /\ stage[e] # "fetching"
        /\ redirects' \in [Calls -> 0..maximumInspectRedirects]
    BY <1>1, <1>2 DEF ProviderInv, Placed, Shaped
  <1> QED
    BY <1>1, <1>2, <1>3, <1>4, <1>5, DiscoveredStep

\* What a response says was so after the exchange began.
LEMMA ReceiveDiscoveryStep ==
  ASSUME ProviderInv, NEW c \in Calls, ReceiveDiscovery(c)
  PROVE  ProviderInv'
  <1> DEFINE entry == Entry(answer[c])
  <1>1. /\ stage[c] = "fetching" /\ answer[c] # None
        /\ answer[c].modified => validatePlatformDiscovery(answer[c].document)
        /\ discovery' = IF Storable(entry.cacheControl) THEN entry ELSE None
        /\ Discovered(c, entry.document)
        /\ discoveryMu' = None
        /\ redirects' = [redirects EXCEPT ![c] = 0]
        /\ answer' = [answer EXCEPT ![c] = None]
        /\ UNCHANGED <<request, purpose, attempt, reply, wire, clock, platformVars>>
    BY DEF ReceiveDiscovery
  <1>2. /\ answer[c].document \in 0..document /\ CurrentAt(answer[c].document, started[c])
        /\ answer[c].cacheControl \in CacheControls
        /\ ~answer[c].modified => discovery # None /\ discovery.document = answer[c].document
        /\ started[c] \in 0..clock /\ clock <= started[c] + RequestTimeout
        /\ clock \in Nat /\ RequestTimeout \in Nat
        /\ discovery # None => Cached(discovery)
    BY <1>1, TimesAssumption DEF ProviderInv, Shaped, Placed, Published, Confirmed, Exchanging
  <1>3. /\ entry.document = answer[c].document /\ entry.document \notin InvalidDocuments
        /\ entry.cachedAt = clock /\ entry.cacheControl \in CacheControls
    BY <1>1, <1>2 DEF Entry, validatePlatformDiscovery, Cached
  <1>4. /\ entry.document \in Documents
        /\ superseded[entry.document] \in 0..clock \cup {None}
        /\ superseded[entry.document] # None =>
             /\ superseded[entry.document] >= started[c]
             /\ superseded[entry.document] >= clock - RequestTimeout
    BY <1>2, <1>3 DEF ProviderInv, Published, CurrentAt
  <1> HIDE DEF entry
  <1>5. Sound([document |-> entry.document, at |-> clock, left |-> None])
    BY <1>2, <1>3, <1>4 DEF Sound
  <1>6. discovery' # None => Cached(discovery)'
    <2> SUFFICES ASSUME discovery' # None
                 PROVE  Cached(discovery)'
      OBVIOUS
    <2>1. discovery' = entry /\ Storable(entry.cacheControl) /\ UNCHANGED <<document, superseded, clock>>
      BY <1>1 DEF platformVars
    <2> QED
      BY <1>2, <1>3, <1>4, <2>1 DEF Cached, CurrentAt
  <1>7. /\ \A e \in Calls : e # c => answer'[e] = answer[e] /\ stage[e] # "fetching"
        /\ answer'[c] = None /\ DOMAIN answer' = Calls /\ discoveryMu' \notin Calls
        /\ redirects' \in [Calls -> 0..maximumInspectRedirects]
    BY <1>1, TimesAssumption, NoneAssumption DEF ProviderInv, Placed, Shaped
  <1> QED
    BY <1>1, <1>5, <1>6, <1>7, DiscoveredStep

\* The command, and the time it has left since its timeout began.
LEMMA SendCommandStep ==
  ASSUME ProviderInv, NEW c \in Calls, SendCommand(c)
  PROVE  ProviderInv'
  <1>1. /\ stage[c] = "leaving" /\ stage' = [stage EXCEPT ![c] = "sent"]
        /\ used' = [used EXCEPT ![c].left = clock]
        /\ wire' = wire \cup {Command(c)}
        /\ UNCHANGED <<request, purpose, attempt, started, redirects, reply, discoveryMu, discovery,
                       answer, clock, document, superseded, agents, live, memory>>
    BY DEF SendCommand, cacheVars, platformVars
  <1>2. /\ used[c] = [document |-> used[c].document, at |-> started[c], left |-> None]
        /\ started[c] \in 0..clock /\ clock <= started[c] + RequestTimeout /\ clock \in Nat
        /\ answer[c] = None /\ purpose[c] \in Purposes /\ discoveryMu # c
    BY <1>1 DEF ProviderInv, Shaped, Placed, Departed, Exchanging
  <1>3. /\ stage'[c] = "sent" /\ stage' \in [Calls -> Stages] /\ DOMAIN used' = Calls
        /\ used'[c] = [document |-> used[c].document, at |-> started[c], left |-> clock]
        /\ \A d \in Calls : d # c => stage'[d] = stage[d] /\ used'[d] = used[d]
    <2>1. used'[c] = [used[c] EXCEPT !.left = clock]
      BY <1>1 DEF ProviderInv, Shaped
    <2>2. [used[c] EXCEPT !.left = clock]
            = [document |-> used[c].document, at |-> started[c], left |-> clock]
      BY <1>2
    <2> QED
      BY <1>1, <2>1, <2>2 DEF ProviderInv, Shaped, Stages
  <1>4. Shaped'
    BY <1>1, <1>3 DEF ProviderInv, Shaped
  <1>5. Placed'
    <2>1. \A d \in Calls : /\ (request'[d] = None) = (stage'[d] = "idle")
                           /\ (reply'[d] # None) = (stage'[d] = "done")
                           /\ (stage'[d] = "fetching") = (discoveryMu' = d)
      BY <1>1, <1>2, <1>3 DEF ProviderInv, Placed
    <2>2. \A d \in Calls :
            /\ stage'[d] \in {"discover", "fetching", "leaving", "sent"} => purpose'[d] \in Purposes
            /\ stage'[d] \in {"idle", "discover", "leaving", "done"} => answer'[d] = None
      BY <1>1, <1>2, <1>3 DEF ProviderInv, Placed
    <2>3. \A d \in Calls : stage'[d] \in Exchanging =>
            started'[d] \in 0..clock' /\ clock' <= started'[d] + RequestTimeout
      BY <1>1, <1>3 DEF ProviderInv, Placed, Exchanging
    <2> QED
      BY <2>1, <2>2, <2>3 DEF Placed
  <1>6. Published'
    <2>1. \A d \in Calls : used'[d] # None =>
            used[d] # None /\ used'[d].document = used[d].document /\ used'[d].at = used[d].at
      <3>1. used[c] # None
        BY <1>1 DEF ProviderInv, Departed
      <3> QED
        BY <1>2, <1>3, <3>1
    <2> QED
      BY <1>1, <1>3, <2>1, PublishedEndures DEF ProviderInv
  <1>7. Departed'
    BY <1>1, <1>2, <1>3 DEF ProviderInv, Departed
  <1>8. Answered'
    <2>1. Endures
      BY <1>1, <1>3 DEF Endures
    <2>2. Live'
      BY <1>1, <1>3 DEF ProviderInv, Answered, Live, Active
    <2>3. Asked'
      <3>1. /\ Command(c).call = c /\ Command(c).command = purpose[c] /\ Command(c).context = attempt[c]
            /\ Command(c).key = <<c, purpose[c], attempt[c]>> /\ Command(c).service = request[c].service
            /\ purpose[c] = "sign" => Command(c).claims = request[c].claims
        BY DEF Command, Key
      <3>2. purpose[c] \in Purposes /\ attempt[c] \in 0..MaxStages /\ request[c] \in AllRequests
        BY <1>1, <1>2 DEF ProviderInv, Shaped, Placed
      <3>3. request[c].service \in Services
        BY <3>2, RequestsAssumption
      <3>4. ASSUME NEW m \in wire
            PROVE  /\ m.call \in Calls /\ stage'[m.call] # "idle"
                   /\ m.command \in Purposes /\ m.context \in 0..MaxStages
                   /\ m.key = <<m.call, m.command, m.context>>
                   /\ m.service \in Services
                   /\ m.command = "sign" => m.claims = request'[m.call].claims
        BY <2>1 DEF ProviderInv, Answered, Asked, Endures
      <3> QED
        BY <1>1, <1>3, <3>1, <3>2, <3>3, <3>4 DEF Asked
    <2>4. Kept'
      BY <1>1, <2>1, KeptEndures DEF ProviderInv, Answered, Kept
    <2>5. Due'
      BY <1>1, <1>2, <1>3, <2>1, DueEndures DEF ProviderInv, Answered, Due
    <2>6. \A e \in Calls : reply'[e] # None => Told(e, reply[e])'
      BY <1>1, <2>1, ToldEndures DEF ProviderInv, Answered
    <2> QED
      BY <2>2, <2>3, <2>4, <2>5, <2>6 DEF Answered
  <1> QED
    BY <1>4, <1>5, <1>6, <1>7, <1>8 DEF ProviderInv

\* The exchange of discovery, until its response is taken.
LEMMA FetchingStep ==
  ASSUME ProviderInv, NEW c \in Calls, BeginDiscovery(c) \/ FollowRedirect(c)
  PROVE  ProviderInv'
  <1>1. /\ stage[c] \in {"discover", "fetching"} /\ answer[c] = None
        /\ stage' = [stage EXCEPT ![c] = "fetching"]
        /\ started' \in {started, [started EXCEPT ![c] = clock]}
        /\ \/ stage[c] = "fetching" /\ discoveryMu' = discoveryMu /\ started' = started
           \/ discoveryMu = None /\ discoveryMu' = c /\ started' = [started EXCEPT ![c] = clock]
        /\ redirects' \in [Calls -> 0..maximumInspectRedirects]
        /\ UNCHANGED <<request, purpose, attempt, used, reply, discovery, wire, answer, clock,
                       document, superseded, agents, live, memory>>
    <2>1. CASE BeginDiscovery(c)
      BY <2>1 DEF BeginDiscovery, ProviderInv, Shaped, Placed, netVars, platformVars
    <2>2. CASE FollowRedirect(c)
      BY <2>2, TimesAssumption DEF FollowRedirect, ProviderInv, Shaped, cacheVars, netVars, platformVars
    <2> QED
      BY <2>1, <2>2
  <1>2. clock \in Nat
    BY DEF ProviderInv, Shaped
  <1>3. /\ stage'[c] = "fetching" /\ stage' \in [Calls -> Stages]
        /\ started' \in [Calls -> Nat \cup {None}]
        /\ \A d \in Calls : d # c => stage'[d] = stage[d] /\ started'[d] = started[d]
    BY <1>1, <1>2 DEF ProviderInv, Shaped, Stages
  <1>4. Shaped'
    BY <1>1, <1>3 DEF ProviderInv, Shaped
  <1>5. Placed'
    <2>1. \A d \in Calls : /\ (request'[d] = None) = (stage'[d] = "idle")
                           /\ (reply'[d] # None) = (stage'[d] = "done")
      BY <1>1, <1>3 DEF ProviderInv, Placed
    <2>2. \A d \in Calls :
            /\ stage'[d] \in {"discover", "fetching", "leaving", "sent"} => purpose'[d] \in Purposes
            /\ stage'[d] \in {"idle", "discover", "leaving", "done"} => answer'[d] = None
      BY <1>1, <1>3 DEF ProviderInv, Placed
    <2>3. \A d \in Calls : (stage'[d] = "fetching") = (discoveryMu' = d)
      BY <1>1, <1>3, NoneAssumption DEF ProviderInv, Placed
    <2>4. started'[c] \in 0..clock /\ clock <= started'[c] + RequestTimeout
      BY <1>1, <1>2, TimesAssumption DEF ProviderInv, Shaped, Placed, Exchanging
    <2>5. \A d \in Calls : stage'[d] \in Exchanging =>
            started'[d] \in 0..clock' /\ clock' <= started'[d] + RequestTimeout
      BY <1>1, <1>3, <2>4 DEF ProviderInv, Placed
    <2> QED
      BY <2>1, <2>2, <2>3, <2>5 DEF Placed
  <1>6. Published'
    BY <1>1, <1>3, PublishedEndures DEF ProviderInv
  <1>7. Answered'
    <2>1. Endures /\ Live'
      BY <1>1, <1>3 DEF Endures, ProviderInv, Answered, Live, Active
    <2> QED
      BY <1>1, <1>3, <2>1, AnsweredEndures DEF ProviderInv
  <1>8. Departed'
    BY <1>1, <1>3, DepartedEndures DEF ProviderInv
  <1> QED
    BY <1>4, <1>5, <1>6, <1>7, <1>8 DEF ProviderInv

\* The Platform says what is so at the moment.
LEMMA ServeDiscoveryStep ==
  ASSUME ProviderInv, NEW c \in Calls, ServeDiscovery(c)
  PROVE  ProviderInv'
  <1>1. PICK cacheControl \in CacheControls :
          answer' = [answer EXCEPT ![c] =
            [modified |-> discovery = None \/ discovery.document # document,
             document |-> document, cacheControl |-> cacheControl]]
    BY DEF ServeDiscovery
  <1>2. /\ stage[c] = "fetching"
        /\ UNCHANGED <<callVars, cacheVars, wire, clock, platformVars>>
    BY DEF ServeDiscovery
  <1>3. UNCHANGED <<request, stage, purpose, attempt, started, redirects, used, reply, discoveryMu,
                    discovery, wire, clock, document, superseded, agents, live, memory>>
    BY <1>2 DEF callVars, cacheVars, platformVars
  <1>4. /\ DOMAIN answer' = Calls /\ \A d \in Calls : d # c => answer'[d] = answer[d]
        /\ answer'[c].document = document /\ answer'[c].cacheControl = cacheControl
        /\ ~answer'[c].modified => discovery # None /\ discovery.document = document
    BY <1>1 DEF ProviderInv, Shaped
  <1>5. Shaped'
    BY <1>3, <1>4 DEF ProviderInv, Shaped
  <1>6. Placed'
    BY <1>2, <1>3, <1>4 DEF ProviderInv, Placed
  <1>7. Published'
    <2>1. document \in 0..document /\ document \in Documents
      BY DocumentsAssumption DEF ProviderInv, Shaped
    <2>2. CurrentAt(document, started[c])
      BY <2>1, DocumentsAssumption DEF ProviderInv, Published, CurrentAt
    <2>3. ASSUME NEW d \in Calls
          PROVE  Confirmed(d)'
      <3>1. CASE d = c
        BY <1>1, <1>3, <1>4, <2>1, <2>2, <3>1 DEF Confirmed, CurrentAt
      <3>2. CASE d # c
        BY <1>3, <1>4, <3>2 DEF ProviderInv, Published, Confirmed, CurrentAt
      <3> QED
        BY <3>1, <3>2
    <2>4. discovery' # None => Cached(discovery)'
      BY <1>3 DEF ProviderInv, Published, Cached, CurrentAt
    <2>5. ASSUME NEW d \in Calls, used'[d] # None
          PROVE  Sound(used[d])'
      BY <1>3, <2>5 DEF ProviderInv, Published, Sound
    <2> QED
      BY <1>3, <2>3, <2>4, <2>5 DEF ProviderInv, Published
  <1>8. Answered'
    <2>1. Endures /\ Live'
      BY <1>3 DEF Endures, ProviderInv, Answered, Live, Active
    <2> QED
      BY <1>2, <1>3, <1>4, <2>1, AnsweredEndures DEF ProviderInv
  <1>9. Departed'
    BY <1>3, DepartedEndures DEF ProviderInv
  <1> QED
    BY <1>5, <1>6, <1>7, <1>8, <1>9 DEF ProviderInv

-----------------------------------------------------------------------------
(* The end of an exchange.                                                  *)

\* The call goes on with another command, or returns what holds for it.
LEMMA EndingStep ==
  ASSUME ProviderInv, NEW c \in Calls, stage[c] \in Exchanging, EndExchange(c),
         answer' = [answer EXCEPT ![c] = None],
         UNCHANGED <<request, discovery, wire, clock, platformVars>>,
         discoveryMu' = IF discoveryMu = c THEN None ELSE discoveryMu,
         \/ /\ \E command \in Purposes : Discover(c, command)
            /\ attempt' \in [Calls -> 0..MaxStages]
            /\ \A d \in Calls : d # c => attempt'[d] = attempt[d]
         \/ \E r : Return(c, r) /\ r # None /\ Told(c, r) /\ UNCHANGED <<purpose, attempt>>
  PROVE  ProviderInv'
  <1>1. /\ started' = [started EXCEPT ![c] = None] /\ used' = [used EXCEPT ![c] = None]
        /\ redirects' = [redirects EXCEPT ![c] = 0]
        /\ UNCHANGED <<document, superseded, agents, live, memory>>
    BY DEF EndExchange, platformVars
  <1>2. /\ stage' \in [Calls -> Stages] /\ purpose' \in [Calls -> Purposes \cup {None}]
        /\ attempt' \in [Calls -> 0..MaxStages] /\ DOMAIN reply' = Calls
        /\ \A d \in Calls : d # c =>
             /\ stage'[d] = stage[d] /\ purpose'[d] = purpose[d] /\ reply'[d] = reply[d]
             /\ attempt'[d] = attempt[d]
        /\ \/ stage'[c] = "discover" /\ purpose'[c] \in Purposes /\ reply'[c] = reply[c]
           \/ stage'[c] = "done" /\ reply'[c] # None /\ Told(c, reply'[c])
    BY DEF ProviderInv, Shaped, Stages, Discover, Return
  <1>3. /\ \A d \in Calls : d # c =>
             answer'[d] = answer[d] /\ started'[d] = started[d] /\ used'[d] = used[d]
        /\ answer'[c] = None /\ used'[c] = None
        /\ started' \in [Calls -> Nat \cup {None}]
        /\ redirects' \in [Calls -> 0..maximumInspectRedirects]
        /\ DOMAIN used' = Calls /\ DOMAIN answer' = Calls
    BY <1>1, TimesAssumption DEF ProviderInv, Shaped
  <1>4. Shaped'
    BY <1>1, <1>2, <1>3 DEF ProviderInv, Shaped
  <1>5. Placed'
    <2>1. \A d \in Calls : /\ (request'[d] = None) = (stage'[d] = "idle")
                           /\ (reply'[d] # None) = (stage'[d] = "done")
      BY <1>2 DEF ProviderInv, Placed, Exchanging
    <2>2. \A d \in Calls :
            /\ stage'[d] \in {"discover", "fetching", "leaving", "sent"} => purpose'[d] \in Purposes
            /\ stage'[d] \in {"idle", "discover", "leaving", "done"} => answer'[d] = None
      BY <1>2, <1>3 DEF ProviderInv, Placed
    <2>3. \A d \in Calls : (stage'[d] = "fetching") = (discoveryMu' = d)
      BY <1>2, NoneAssumption DEF ProviderInv, Placed
    <2>4. \A d \in Calls : stage'[d] \in Exchanging =>
            started'[d] \in 0..clock' /\ clock' <= started'[d] + RequestTimeout
      BY <1>2, <1>3 DEF ProviderInv, Placed, Exchanging
    <2> QED
      BY <2>1, <2>2, <2>3, <2>4 DEF Placed
  <1>6. Published'
    BY <1>1, <1>2, <1>3, PublishedEndures DEF ProviderInv
  <1>7. Answered'
    <2>1. Endures /\ Live'
      BY <1>1, <1>2 DEF Endures, ProviderInv, Answered, Live, Active, Exchanging
    <2>2. Asked' /\ Kept'
      BY <1>1, <2>1, AskedEndures, KeptEndures DEF ProviderInv, Answered, Kept
    <2>3. Due'
      BY <1>2, <1>3, <2>1, DueEndures DEF ProviderInv, Answered, Due
    <2>4. ASSUME NEW d \in Calls, reply'[d] # None
          PROVE  Told(d, reply[d])'
      <3>1. reply'[c] # None => Told(c, reply[c])'
        BY <1>1, <1>2 DEF ProviderInv, Placed, Exchanging, Told
      <3>2. d # c => Told(d, reply[d])'
        BY <1>2, <2>1, <2>4, ToldEndures DEF ProviderInv, Answered
      <3> QED
        BY <2>4, <3>1, <3>2
    <2> QED
      BY <2>1, <2>2, <2>3, <2>4 DEF Answered
  <1>8. Departed'
    BY <1>2, <1>3, DepartedEndures DEF ProviderInv
  <1> QED
    BY <1>4, <1>5, <1>6, <1>7, <1>8 DEF ProviderInv

LEMMA ReceivedAnswer ==
  ASSUME ProviderInv, NEW c \in Calls, NEW command, Received(c, command)
  PROVE  /\ stage[c] \in Exchanging /\ EndExchange(c) /\ discoveryMu # c
         /\ answer' = [answer EXCEPT ![c] = None]
         /\ request[c].service \in Services
         /\ answer[c] # None /\ True(c, command, attempt[c], answer[c])
  <1>1. /\ stage[c] = "sent" /\ purpose[c] = command /\ answer[c] # None
        /\ answer' = [answer EXCEPT ![c] = None] /\ EndExchange(c)
    BY DEF Received
  <1>2. request[c] \in AllRequests /\ discoveryMu # c
    BY <1>1 DEF ProviderInv, Shaped, Placed
  <1>3. True(c, command, attempt[c], answer[c])
    BY <1>1 DEF ProviderInv, Answered, Due
  <1> QED
    BY <1>1, <1>2, <1>3, RequestsAssumption DEF Exchanging

LEMMA Replies ==
  /\ Error.kind = "error" /\ NoIdentity.kind = "none" /\ Error # None /\ NoIdentity # None
  /\ \A s \in Services : Identity(s).kind = "identity" /\ Identity(s) # None
  BY NoneAssumption DEF Error, NoIdentity, Identity

LEMMA ReceiveListStep ==
  ASSUME ProviderInv, NEW c \in Calls, ReceiveList(c)
  PROVE  ProviderInv'
  <1>1. /\ Received(c, "list")
        /\ IF Usable(c) # {} THEN Return(c, Identity(request[c].service)) /\ UNCHANGED purpose
           ELSE IF request[c].op = "find" THEN Return(c, NoIdentity) /\ UNCHANGED purpose
           ELSE Discover(c, "provision")
        /\ UNCHANGED <<request, attempt, cacheVars, wire, clock, platformVars>>
    BY DEF ReceiveList
  <1>2. /\ stage[c] \in Exchanging /\ EndExchange(c) /\ discoveryMu # c
        /\ answer' = [answer EXCEPT ![c] = None]
        /\ request[c].service \in Services /\ True(c, "list", attempt[c], answer[c])
    BY <1>1, ReceivedAnswer
  <1>3. Usable(c) # {} => Told(c, Identity(request[c].service))
    BY <1>2, Replies DEF Usable, True, Told
  <1>4. Told(c, NoIdentity)
    BY Replies DEF Told
  <1>5. /\ UNCHANGED <<discoveryMu, discovery>>
        /\ attempt' \in [Calls -> 0..MaxStages]
    BY <1>1 DEF cacheVars, ProviderInv, Shaped
  <1>6. CASE Usable(c) # {}
    BY <1>1, <1>2, <1>3, <1>5, <1>6, Replies, EndingStep
  <1>7. CASE Usable(c) = {} /\ request[c].op = "find"
    BY <1>1, <1>2, <1>4, <1>5, <1>7, Replies, EndingStep
  <1>8. CASE Usable(c) = {} /\ request[c].op # "find"
    BY <1>1, <1>2, <1>5, <1>8, EndingStep DEF Purposes
  <1> QED
    BY <1>6, <1>7, <1>8

LEMMA ReceiveProvisionStep ==
  ASSUME ProviderInv, NEW c \in Calls, ReceiveProvision(c)
  PROVE  ProviderInv'
  <1> DEFINE r == IF answer[c].service = request[c].service /\ answer[c].status = "active"
                  THEN Identity(request[c].service) ELSE Error
  <1>1. /\ Received(c, "provision") /\ Return(c, r)
        /\ UNCHANGED <<request, purpose, attempt, cacheVars, wire, clock, platformVars>>
    BY DEF ReceiveProvision
  <1>2. /\ stage[c] \in Exchanging /\ EndExchange(c) /\ discoveryMu # c
        /\ answer' = [answer EXCEPT ![c] = None]
        /\ request[c].service \in Services /\ True(c, "provision", attempt[c], answer[c])
    BY <1>1, ReceivedAnswer
  <1>3. r # None /\ Told(c, r)
    BY <1>2, Replies DEF True, Told
  <1> HIDE DEF r
  <1> QED
    BY <1>1, <1>2, <1>3, EndingStep DEF cacheVars

\* A pending answer is one that leaves room for another.
LEMMA ReceiveSignStep ==
  ASSUME ProviderInv, NEW c \in Calls, NEW resolved \in BOOLEAN, ReceiveSign(c, resolved)
  PROVE  ProviderInv'
  <1>1. /\ Received(c, "sign")
        /\ UNCHANGED <<request, cacheVars, wire, clock, platformVars>>
        /\ \/ /\ answer[c].kind = "pending"
              /\ Discover(c, "sign") /\ attempt' = [attempt EXCEPT ![c] = @ + 1]
           \/ /\ Return(c, IF CompletedSign(c) THEN answer[c] ELSE Error)
              /\ UNCHANGED <<purpose, attempt>>
    BY DEF ReceiveSign
  <1>2. /\ stage[c] \in Exchanging /\ EndExchange(c) /\ discoveryMu # c
        /\ answer' = [answer EXCEPT ![c] = None] /\ answer[c] # None
        /\ True(c, "sign", attempt[c], answer[c])
        /\ UNCHANGED <<discoveryMu, discovery>>
    BY <1>1, ReceivedAnswer DEF cacheVars
  <1>3. CASE answer[c].kind = "pending" /\ Discover(c, "sign")
             /\ attempt' = [attempt EXCEPT ![c] = @ + 1]
    <2>1. attempt[c] < MaxStages /\ attempt \in [Calls -> 0..MaxStages]
      BY <1>2, <1>3 DEF True, ProviderInv, Shaped
    <2>2. /\ attempt' \in [Calls -> 0..MaxStages]
          /\ \A d \in Calls : d # c => attempt'[d] = attempt[d]
      BY <1>3, <2>1, TimesAssumption
    <2> QED
      BY <1>1, <1>2, <1>3, <2>2, EndingStep DEF Purposes
  <1>4. CASE Return(c, IF CompletedSign(c) THEN answer[c] ELSE Error) /\ UNCHANGED <<purpose, attempt>>
    <2>1. CompletedSign(c) => Told(c, answer[c])
      BY <1>2 DEF CompletedSign, validCompletedSignResponse, True, Told
    <2>2. Told(c, Error) /\ Error # None
      BY Replies DEF Told
    <2>3. PICK r : r = IF CompletedSign(c) THEN answer[c] ELSE Error
      OBVIOUS
    <2>4. r # None /\ Told(c, r)
      BY <1>2, <2>1, <2>2, <2>3
    <2> QED
      BY <1>1, <1>2, <1>4, <2>3, <2>4, EndingStep
  <1> QED
    BY <1>1, <1>3, <1>4

LEMMA FailStep ==
  ASSUME ProviderInv, NEW c \in Calls, Fail(c)
  PROVE  ProviderInv'
  <1>1. /\ stage[c] \in Exchanging /\ Return(c, Error) /\ EndExchange(c)
        /\ discoveryMu' = IF discoveryMu = c THEN None ELSE discoveryMu
        /\ answer' = [answer EXCEPT ![c] = None]
        /\ UNCHANGED <<request, purpose, attempt, discovery, wire, clock, platformVars>>
    BY DEF Fail, Exchanging
  <1>2. Told(c, Error) /\ Error # None
    BY Replies DEF Told
  <1> QED
    BY <1>1, <1>2, EndingStep

-----------------------------------------------------------------------------
(* The Platform.                                                            *)

LEMMA LiveAfterSetStatus ==
  ASSUME ProviderInv, NEW s \in Services, NEW status \in Statuses, SetStatus(s, status)
  PROVE  /\ agents' \in [Services -> Statuses \cup {None}] /\ agents'[s] = status
         /\ DOMAIN live' = Calls /\ \A c \in Calls : live[c] \subseteq live'[c]
         /\ status = "active" => \A c \in Calls : s \in live'[c]
         /\ stage' = stage => Live'
  <1>1. /\ agents' \in [Services -> Statuses \cup {None}] /\ agents'[s] = status
        /\ \A t \in Services : t # s => agents'[t] = agents[t]
    BY DEF SetStatus, ProviderInv, Shaped
  <1>2. /\ DOMAIN live' = Calls /\ \A c \in Calls : live[c] \subseteq live'[c]
        /\ status = "active" => \A c \in Calls : s \in live'[c]
    BY DEF SetStatus, ProviderInv, Shaped
  <1>3. stage' = stage => Live'
    BY <1>1, <1>2 DEF ProviderInv, Answered, Live, Active
  <1> QED
    BY <1>1, <1>2, <1>3

\* What the Platform sends, and what it keeps to send it again.
LEMMA AnsweringStep ==
  ASSUME ProviderInv, NEW m \in wire, NEW a, Answer(m, a),
         True(m.call, m.command, m.context, a)', Live',
         UNCHANGED <<callVars, cacheVars, clock, document, superseded>>,
         agents' \in [Services -> Statuses \cup {None}],
         DOMAIN live' = Calls, \A c \in Calls : live[c] \subseteq live'[c],
         memory' \subseteq memory \cup {[key |-> m.key, answer |-> a]}
  PROVE  ProviderInv'
  <1>1. UNCHANGED <<request, stage, purpose, attempt, started, redirects, used, reply, discoveryMu,
                    discovery>>
    BY DEF callVars, cacheVars
  <1>2. /\ m.call \in Calls /\ stage[m.call] # "idle"
        /\ m.command \in Purposes /\ m.context \in 0..MaxStages
        /\ m.key = <<m.call, m.command, m.context>>
    BY DEF ProviderInv, Answered, Asked
  <1>3. wire' \subseteq wire /\ DOMAIN answer' = Calls
    BY DEF Answer, netVars, ProviderInv, Shaped
  <1>4. ASSUME NEW c \in Calls
        PROVE  \/ answer'[c] = answer[c]
               \/ /\ c = m.call /\ stage[c] = "sent" /\ answer'[c] = a
                  /\ purpose[c] = m.command /\ attempt[c] = m.context
    BY <1>2 DEF Answer, netVars, Awaited, Key, ProviderInv, Shaped
  <1>5. Endures
    BY <1>1 DEF Endures
  <1>6. Shaped'
    BY <1>1, <1>3 DEF ProviderInv, Shaped
  <1>7. Placed'
    BY <1>1, <1>4 DEF ProviderInv, Placed
  <1>8. Published'
    BY <1>1, <1>4, PublishedEndures DEF ProviderInv
  <1>9. Asked'
    BY <1>3, <1>5, AskedEndures DEF ProviderInv, Answered
  <1>10. Kept'
    <2>1. ASSUME NEW e \in memory'
          PROVE  \E c \in Calls, command \in Purposes, context \in 0..MaxStages :
                   /\ e.key = <<c, command, context>> /\ stage'[c] # "idle"
                   /\ True(c, command, context, e.answer)'
      <3>1. CASE e \in memory
        BY <1>5, <3>1, KeptEndures DEF ProviderInv, Answered
      <3>2. CASE e = [key |-> m.key, answer |-> a]
        <4>1. e.key = m.key /\ e.answer = a
          BY <3>2
        <4> DEFINE P(x) == True(m.call, m.command, m.context, x)'
        <4>2. P(a)
          OBVIOUS
        <4> HIDE DEF P
        <4>3. P(e.answer)
          BY <4>1, <4>2
        <4>4. True(m.call, m.command, m.context, e.answer)'
          BY <4>3 DEF P
        <4> QED
          BY <1>1, <1>2, <4>1, <4>4
      <3> QED
        BY <3>1, <3>2
    <2> QED
      BY <2>1 DEF Kept
  <1>11. Due'
    <2>1. ASSUME NEW c \in Calls, stage'[c] = "sent", answer'[c] # None
          PROVE  True(c, purpose[c], attempt[c], answer[c])'
      <3>1. CASE answer'[c] = answer[c]
        BY <1>1, <1>5, <2>1, <3>1, DueEndures DEF ProviderInv, Answered
      <3>2. CASE /\ c = m.call /\ answer'[c] = a
                 /\ purpose[c] = m.command /\ attempt[c] = m.context
        BY <1>1, <3>2 DEF True
      <3> QED
        BY <1>4, <3>1, <3>2
    <2> QED
      BY <2>1 DEF Due
  <1>12. \A c \in Calls : reply'[c] # None => Told(c, reply[c])'
    BY <1>1, <1>5, ToldEndures DEF ProviderInv, Answered
  <1>13. Departed'
    BY <1>1, DepartedEndures DEF ProviderInv
  <1> QED
    BY <1>6, <1>7, <1>8, <1>9, <1>10, <1>11, <1>12, <1>13 DEF ProviderInv, Answered

LEMMA ServeListStep ==
  ASSUME ProviderInv, NEW m \in wire, ServeList(m)
  PROVE  ProviderInv'
  <1>1. PICK a : /\ a = [kind |-> "list",
                         data |-> IF agents[m.service] = None THEN {} ELSE {Shown(m.service)}]
                 /\ m.command = "list" /\ Answer(m, a)
                 /\ UNCHANGED <<callVars, cacheVars, clock, platformVars>>
    BY DEF ServeList
  <1>2. UNCHANGED <<stage, document, superseded, agents, live, memory>>
    BY <1>1 DEF callVars, platformVars
  <1>3. m.service \in Services /\ m.call \in Calls /\ stage[m.call] # "idle"
    BY DEF ProviderInv, Answered, Asked
  <1>4. \A i \in a.data : i.status = "active" => i.service \in live[m.call]
    BY <1>1, <1>3 DEF Shown, ProviderInv, Answered, Live, Active
  <1>5. True(m.call, m.command, m.context, a)'
    BY <1>1, <1>2, <1>4 DEF True
  <1>6. Live' /\ agents' \in [Services -> Statuses \cup {None}] /\ DOMAIN live' = Calls
    BY <1>2 DEF ProviderInv, Shaped, Answered, Live, Active
  <1> QED
    BY <1>1, <1>2, <1>5, <1>6, AnsweringStep

\* A key stands for one request: what was remembered under it answers that one.
LEMMA ReplayStep ==
  ASSUME ProviderInv, NEW m \in wire, Replay(m)
  PROVE  ProviderInv'
  <1>1. PICK e \in memory : e.key = m.key /\ Answer(m, e.answer)
    BY DEF Replay, Recalled
  <1>2. UNCHANGED <<callVars, cacheVars, clock, platformVars>>
    BY DEF Replay
  <1>3. UNCHANGED <<stage, request, document, superseded, agents, live, memory>>
    BY <1>2 DEF callVars, platformVars
  <1>4. PICK c \in Calls, command \in Purposes, context \in 0..MaxStages :
          e.key = <<c, command, context>> /\ True(c, command, context, e.answer)
    BY DEF ProviderInv, Answered, Kept
  <1>5. m.key = <<m.call, m.command, m.context>>
    BY DEF ProviderInv, Answered, Asked
  <1>6. c = m.call /\ command = m.command /\ context = m.context
    <2>1. e.key[1] = c /\ e.key[2] = command /\ e.key[3] = context
      BY <1>4
    <2>2. m.key[1] = m.call /\ m.key[2] = m.command /\ m.key[3] = m.context
      BY <1>5
    <2> QED
      BY <1>1, <2>1, <2>2
  <1>7. True(m.call, m.command, m.context, e.answer)'
    BY <1>3, <1>4, <1>6 DEF True
  <1>8. Live' /\ agents' \in [Services -> Statuses \cup {None}] /\ DOMAIN live' = Calls
    BY <1>3 DEF ProviderInv, Shaped, Answered, Live, Active
  <1> QED
    BY <1>1, <1>2, <1>3, <1>7, <1>8, AnsweringStep

LEMMA ServeProvisionStep ==
  ASSUME ProviderInv, NEW m \in wire, ServeProvision(m)
  PROVE  ProviderInv'
  <1>1. PICK a : /\ a = [kind |-> "identity", service |-> m.service, status |-> agents'[m.service]]
                 /\ Answer(m, a)
                 /\ memory' = memory \cup {[key |-> m.key, answer |-> a]}
    BY DEF ServeProvision, Remembering
  <1>2. /\ m.command = "provision"
        /\ UNCHANGED <<callVars, cacheVars, clock, document, superseded>>
        /\ \/ SetStatus(m.service, "active")
           \/ UNCHANGED <<agents, live>>
    BY DEF ServeProvision
  <1>3. UNCHANGED <<stage, request>>
    BY <1>2 DEF callVars
  <1>4. m.service \in Services /\ m.call \in Calls /\ stage[m.call] # "idle"
    BY DEF ProviderInv, Answered, Asked
  <1>5. /\ agents' \in [Services -> Statuses \cup {None}]
        /\ DOMAIN live' = Calls /\ \A c \in Calls : live[c] \subseteq live'[c]
        /\ Live'
    <2>1. CASE SetStatus(m.service, "active")
      BY <1>3, <1>4, <2>1, LiveAfterSetStatus DEF Statuses
    <2>2. CASE UNCHANGED <<agents, live>>
      BY <1>3, <2>2 DEF ProviderInv, Shaped, Answered, Live, Active
    <2> QED
      BY <1>2, <2>1, <2>2
  <1>6. agents'[m.service] = "active" => m.service \in live'[m.call]
    BY <1>3, <1>4, <1>5 DEF Live, Active
  <1>7. True(m.call, m.command, m.context, a)'
    BY <1>1, <1>2, <1>6 DEF True
  <1> QED
    BY <1>1, <1>2, <1>5, <1>7, AnsweringStep

LEMMA ServeSignStep ==
  ASSUME ProviderInv, NEW m \in wire, ServeSign(m)
  PROVE  ProviderInv'
  <1>1. PICK a : /\ \/ a = [kind |-> "assertion", service |-> m.service, claims |-> m.claims]
                    \/ m.context < MaxStages /\ a = [kind |-> "pending"]
                 /\ Answer(m, a)
                 /\ memory' = memory \cup {[key |-> m.key, answer |-> a]}
    BY DEF ServeSign, Remembering
  <1>2. /\ m.command = "sign" /\ Active(m.service)
        /\ UNCHANGED <<callVars, cacheVars, clock, document, superseded, agents, live>>
    BY DEF ServeSign
  <1>3. UNCHANGED <<stage, request>>
    BY <1>2 DEF callVars
  <1>4. /\ m.service \in Services /\ m.call \in Calls /\ stage[m.call] # "idle"
        /\ m.claims = request[m.call].claims
    BY <1>2 DEF ProviderInv, Answered, Asked
  <1>5. m.service \in live[m.call]
    BY <1>2, <1>4 DEF ProviderInv, Answered, Live
  <1>6. True(m.call, m.command, m.context, a)'
    BY <1>1, <1>2, <1>3, <1>4, <1>5 DEF True
  <1>7. Live' /\ agents' \in [Services -> Statuses \cup {None}] /\ DOMAIN live' = Calls
    BY <1>2, <1>3 DEF ProviderInv, Shaped, Answered, Live, Active
  <1> QED
    BY <1>1, <1>2, <1>6, <1>7, AnsweringStep

-----------------------------------------------------------------------------
(* The Platform's owner, and time.                                          *)

\* The document in use is superseded now: no entry, exchange or use of it is
\* later than that.
LEMMA ReplaceDocumentStep ==
  ASSUME ProviderInv, ReplaceDocument
  PROVE  ProviderInv'
  <1>1. /\ document + 1 \in Documents /\ document' = document + 1
        /\ superseded' = [superseded EXCEPT ![document] = clock]
    BY DEF ReplaceDocument
  <1>2. UNCHANGED <<request, stage, purpose, attempt, started, redirects, used, reply, discoveryMu,
                    discovery, wire, answer, clock, agents, live, memory>>
    BY DEF ReplaceDocument, callVars, cacheVars, netVars
  <1>3. /\ clock \in Nat /\ document \in Documents /\ document \in Nat /\ document' \in Nat
        /\ \A d \in Documents : d \in Nat
        /\ 0..document \subseteq Documents /\ DOMAIN superseded = Documents
        /\ \A d \in Documents : d >= document => superseded[d] = None
    BY <1>1, DocumentsAssumption DEF ProviderInv, Shaped, Published
  <1>4. /\ superseded'[document] = clock /\ superseded[document] = None
        /\ \A d \in Documents : d # document => superseded'[d] = superseded[d]
        /\ DOMAIN superseded' = Documents
    BY <1>1, <1>3
  <1>5. Shaped'
    BY <1>1, <1>2 DEF ProviderInv, Shaped
  <1>6. Placed'
    BY <1>2 DEF ProviderInv, Placed
  <1>7. Published'
    <2>1. /\ \A d \in Documents : superseded'[d] \in 0..clock' \cup {None}
          /\ \A d \in Documents : d >= document' => superseded'[d] = None
          /\ 0..document' \subseteq Documents /\ 0..document \subseteq 0..document'
      <3>1. \A d \in Documents : superseded'[d] \in 0..clock' \cup {None}
        BY <1>2, <1>3, <1>4 DEF ProviderInv, Published
      <3>2. \A d \in Documents : d >= document' => superseded'[d] = None
        BY <1>1, <1>3, <1>4
      <3>3. \A n \in 0..document' : n \in 0..document \/ n = document + 1
        BY <1>1, <1>3
      <3> QED
        BY <1>1, <1>3, <3>1, <3>2, <3>3
    <2>2. ASSUME NEW d \in 0..document, NEW t, t \in Int, t <= clock, CurrentAt(d, t)
          PROVE  CurrentAt(d, t)'
      BY <1>2, <1>3, <1>4, <2>2 DEF CurrentAt
    <2>3. ASSUME discovery' # None
          PROVE  Cached(discovery)'
      <3>1. Cached(discovery) /\ RequestTimeout \in Nat
        BY <1>2, <2>3, TimesAssumption DEF ProviderInv, Published
      <3>2. /\ discovery.document \in 0..document
            /\ discovery.cachedAt - RequestTimeout \in Int
            /\ discovery.cachedAt - RequestTimeout <= clock
            /\ CurrentAt(discovery.document, discovery.cachedAt - RequestTimeout)
        BY <1>3, <3>1 DEF Cached
      <3>3. superseded'[discovery.document] # None =>
              superseded'[discovery.document] >= discovery.cachedAt - RequestTimeout
        BY <1>3, <1>4, <3>2 DEF CurrentAt
      <3> QED
        BY <1>2, <2>1, <3>1, <3>3 DEF Cached, CurrentAt
    <2>4. ASSUME NEW c \in Calls
          PROVE  Confirmed(c)'
      <3> SUFFICES ASSUME stage[c] = "fetching", answer[c] # None
                   PROVE  /\ answer[c].document \in 0..document'
                          /\ CurrentAt(answer[c].document, started[c])'
                          /\ answer[c].cacheControl \in CacheControls
                          /\ ~answer[c].modified =>
                               discovery # None /\ discovery.document = answer[c].document
        BY <1>2 DEF Confirmed
      <3>1. /\ answer[c].document \in 0..document /\ CurrentAt(answer[c].document, started[c])
            /\ answer[c].cacheControl \in CacheControls
            /\ ~answer[c].modified => discovery # None /\ discovery.document = answer[c].document
        BY DEF ProviderInv, Published, Confirmed
      <3>2. started[c] \in 0..clock
        BY DEF ProviderInv, Placed, Exchanging
      <3>3. CurrentAt(answer[c].document, started[c])'
        BY <1>2, <1>3, <1>4, <3>1, <3>2 DEF CurrentAt
      <3> QED
        BY <2>1, <3>1, <3>3
    <2>5. ASSUME NEW c \in Calls, used'[c] # None
          PROVE  Sound(used[c])'
      <3>1. Sound(used[c]) /\ used'[c] = used[c]
        BY <1>2, <2>5 DEF ProviderInv, Published
      <3>2. /\ used[c].document \in Documents /\ used[c].at \in 0..clock /\ RequestTimeout \in Nat
            /\ used[c].document \in 0..document'
        BY <1>3, <2>1, <3>1, TimesAssumption DEF Sound
      <3>3. CASE used[c].document = document
        <4>1. used[c].at - superseded'[used[c].document] <= RequestTimeout
          BY <1>3, <1>4, <3>2, <3>3
        <4> QED
          BY <1>2, <3>1, <3>2, <4>1 DEF Sound
      <3>4. CASE used[c].document # document
        BY <1>2, <1>4, <3>1, <3>2, <3>4 DEF Sound
      <3> QED
        BY <3>3, <3>4
    <2> QED
      BY <1>4, <2>1, <2>3, <2>4, <2>5 DEF Published
  <1>8. Answered'
    <2>1. Endures /\ Live'
      BY <1>2 DEF Endures, ProviderInv, Answered, Live, Active
    <2> QED
      BY <1>2, <2>1, AnsweredEndures DEF ProviderInv
  <1>9. Departed'
    BY <1>2, DepartedEndures DEF ProviderInv
  <1> QED
    BY <1>5, <1>6, <1>7, <1>8, <1>9 DEF ProviderInv

LEMMA UpdateIdentityStep ==
  ASSUME ProviderInv, NEW s \in Services, NEW status \in Changes, UpdateIdentity(s, status)
  PROVE  ProviderInv'
  <1>1. SetStatus(s, status) /\ status \in Statuses
    BY ChangesAssumption DEF UpdateIdentity
  <1>2. UNCHANGED <<request, stage, purpose, attempt, started, redirects, used, reply, discoveryMu,
                    discovery, wire, answer, clock, document, superseded, memory>>
    BY DEF UpdateIdentity, callVars, cacheVars, netVars
  <1>3. /\ agents' \in [Services -> Statuses \cup {None}] /\ Live'
        /\ DOMAIN live' = Calls /\ \A c \in Calls : live[c] \subseteq live'[c]
    BY <1>1, <1>2, LiveAfterSetStatus
  <1>4. Shaped'
    BY <1>2, <1>3 DEF ProviderInv, Shaped
  <1>5. Placed'
    BY <1>2 DEF ProviderInv, Placed
  <1>6. Published'
    BY <1>2, PublishedEndures DEF ProviderInv
  <1>7. Answered'
    <2>1. Endures
      BY <1>2, <1>3 DEF Endures
    <2> QED
      BY <1>2, <1>3, <2>1, AnsweredEndures DEF ProviderInv
  <1>8. Departed'
    BY <1>2, DepartedEndures DEF ProviderInv
  <1> QED
    BY <1>4, <1>5, <1>6, <1>7, <1>8 DEF ProviderInv

\* Time passes no timeout of an exchange.
LEMMA TickStep ==
  ASSUME ProviderInv, Tick
  PROVE  ProviderInv'
  <1>1. /\ clock < MaxClock /\ clock' = clock + 1
        /\ \A c \in Calls : stage[c] \in Exchanging => clock < started[c] + RequestTimeout
    BY DEF Tick, Exchanging
  <1>2. UNCHANGED <<request, stage, purpose, attempt, started, redirects, used, reply, discoveryMu,
                    discovery, wire, answer, document, superseded, agents, live, memory>>
    BY DEF Tick, callVars, cacheVars, netVars, platformVars
  <1>3. /\ clock \in Nat /\ MaxClock \in Nat /\ RequestTimeout \in Nat /\ clock' \in 0..MaxClock
        /\ 0..clock \subseteq 0..clock'
    BY <1>1, TimesAssumption DEF ProviderInv, Shaped
  <1>4. Shaped'
    BY <1>2, <1>3 DEF ProviderInv, Shaped
  <1>5. Placed'
    <2>1. \A c \in Calls : stage'[c] \in Exchanging =>
            started'[c] \in 0..clock' /\ clock' <= started'[c] + RequestTimeout
      <3>1. ASSUME NEW c \in Calls, stage[c] \in Exchanging
            PROVE  started[c] \in 0..clock' /\ clock + 1 <= started[c] + RequestTimeout
        <4>1. started[c] \in 0..clock /\ clock < started[c] + RequestTimeout
          BY <1>1, <3>1 DEF ProviderInv, Placed
        <4> QED
          BY <1>3, <4>1
      <3> QED
        BY <1>1, <1>2, <3>1
    <2> QED
      BY <1>2, <2>1 DEF ProviderInv, Placed
  <1>6. Published'
    <2>1. \A d \in Documents : superseded'[d] \in 0..clock' \cup {None}
      BY <1>2, <1>3 DEF ProviderInv, Published
    <2>2. discovery' # None => Cached(discovery)'
      BY <1>2, <1>3 DEF ProviderInv, Published, Cached, CurrentAt
    <2>3. ASSUME NEW c \in Calls
          PROVE  Confirmed(c)'
      BY <1>2 DEF ProviderInv, Published, Confirmed, CurrentAt
    <2>4. ASSUME NEW c \in Calls, used'[c] # None
          PROVE  Sound(used[c])'
      BY <1>2, <1>3, <2>4 DEF ProviderInv, Published, Sound
    <2> QED
      BY <1>2, <2>1, <2>2, <2>3, <2>4 DEF ProviderInv, Published
  <1>7. Answered'
    <2>1. Endures /\ Live'
      BY <1>2 DEF Endures, ProviderInv, Answered, Live, Active
    <2> QED
      BY <1>2, <2>1, AnsweredEndures DEF ProviderInv
  <1>8. Departed'
    BY <1>2, DepartedEndures DEF ProviderInv
  <1> QED
    BY <1>4, <1>5, <1>6, <1>7, <1>8 DEF ProviderInv

LEMMA StutteringStep ==
  ASSUME ProviderInv, UNCHANGED vars
  PROVE  ProviderInv'
  <1>1. UNCHANGED <<request, stage, purpose, attempt, started, redirects, used, reply, discoveryMu,
                    discovery, wire, answer, clock, document, superseded, agents, live, memory>>
    BY DEF vars, callVars, cacheVars, netVars, platformVars
  <1>2. Shaped' /\ Placed'
    BY <1>1 DEF ProviderInv, Shaped, Placed
  <1>3. Published'
    BY <1>1, PublishedEndures DEF ProviderInv
  <1>4. Endures /\ Live'
    BY <1>1 DEF Endures, ProviderInv, Answered, Live, Active
  <1>5. Answered'
    BY <1>1, <1>4, AnsweredEndures DEF ProviderInv
  <1>6. Departed'
    BY <1>1, DepartedEndures DEF ProviderInv
  <1> QED
    BY <1>2, <1>3, <1>5, <1>6 DEF ProviderInv

-----------------------------------------------------------------------------
(* The results.                                                             *)

LEMMA InitialState ==
  ASSUME Init
  PROVE  ProviderInv
  <1>1. Shaped
    BY TimesAssumption, DocumentsAssumption DEF Init, Shaped, Stages
  <1>2. Placed
    BY NoneAssumption DEF Init, Placed, Exchanging
  <1>3. Published
    <2>1. 0..document \subseteq Documents
      BY DocumentsAssumption DEF Init
    <2> QED
      BY <2>1 DEF Init, Published, Confirmed
  <1>4. Answered
    BY DEF Init, Answered, Live, Asked, Kept, Due
  <1>5. Departed
    BY DEF Init, Departed
  <1> QED
    BY <1>1, <1>2, <1>3, <1>4, <1>5 DEF ProviderInv

\* The inductive invariant: where each call is and since when, how old the
\* document of every entry, response and use is, and what the responses under
\* way, remembered and returned say about the identities.
THEOREM ProviderInvariant == Spec => []ProviderInv
  <1>1. Init => ProviderInv
    BY InitialState
  <1>2. ProviderInv /\ [Next]_vars => ProviderInv'
    <2> SUFFICES ASSUME ProviderInv, [Next]_vars
                 PROVE  ProviderInv'
      OBVIOUS
    <2>1. ASSUME NEW c \in Calls, NEW r \in Requests[c], Call(c, r)
          PROVE  ProviderInv'
      BY <2>1, CallStep
    <2>2. ASSUME NEW c \in Calls, DiscoverCached(c)
          PROVE  ProviderInv'
      BY <2>2, DiscoverCachedStep
    <2>3. ASSUME NEW c \in Calls, BeginDiscovery(c) \/ FollowRedirect(c)
          PROVE  ProviderInv'
      BY <2>3, FetchingStep
    <2>4. ASSUME NEW c \in Calls, ReceiveDiscovery(c)
          PROVE  ProviderInv'
      BY <2>4, ReceiveDiscoveryStep
    <2>5. ASSUME NEW c \in Calls, ServeDiscovery(c)
          PROVE  ProviderInv'
      BY <2>5, ServeDiscoveryStep
    <2>6. ASSUME NEW c \in Calls, ReceiveList(c)
          PROVE  ProviderInv'
      BY <2>6, ReceiveListStep
    <2>7. ASSUME NEW c \in Calls, ReceiveProvision(c)
          PROVE  ProviderInv'
      BY <2>7, ReceiveProvisionStep
    <2>8. ASSUME NEW c \in Calls, NEW resolved \in BOOLEAN, ReceiveSign(c, resolved)
          PROVE  ProviderInv'
      BY <2>8, ReceiveSignStep
    <2>9. ASSUME NEW c \in Calls, Fail(c)
          PROVE  ProviderInv'
      BY <2>9, FailStep
    <2>10. ASSUME NEW m \in wire, ServeList(m)
           PROVE  ProviderInv'
      BY <2>10, ServeListStep
    <2>11. ASSUME NEW m \in wire, Replay(m)
           PROVE  ProviderInv'
      BY <2>11, ReplayStep
    <2>12. ASSUME NEW m \in wire, ServeProvision(m)
           PROVE  ProviderInv'
      BY <2>12, ServeProvisionStep
    <2>13. ASSUME NEW m \in wire, ServeSign(m)
           PROVE  ProviderInv'
      BY <2>13, ServeSignStep
    <2>14. CASE ReplaceDocument
      BY <2>14, ReplaceDocumentStep
    <2>15. ASSUME NEW s \in Services, NEW status \in Changes, UpdateIdentity(s, status)
           PROVE  ProviderInv'
      BY <2>15, UpdateIdentityStep
    <2>16. CASE Tick
      BY <2>16, TickStep
    <2>17. ASSUME NEW c \in Calls, SendCommand(c)
           PROVE  ProviderInv'
      BY <2>17, SendCommandStep
    <2>18. CASE UNCHANGED vars
      BY <2>18, StutteringStep
    <2> QED
      BY <2>1, <2>2, <2>3, <2>4, <2>5, <2>6, <2>7, <2>8, <2>9, <2>10, <2>11, <2>12, <2>13, <2>14,
         <2>15, <2>16, <2>17, <2>18 DEF Next
  <1> QED
    BY <1>1, <1>2, PTL DEF Spec

\* The mutex is held by the call that fetches, what is cached may be stored and
\* was published, and redirects and pending answers stay within their bounds.
THEOREM ProviderTypes == Spec => []TypeOK
  <1>1. ProviderInv => TypeOK
    BY DEF ProviderInv, Shaped, Placed, Published, Cached, TypeOK, Stages, Purposes
  <1> QED
    BY <1>1, ProviderInvariant, PTL

\* However a cached document is renewed, shared or answered late, discover
\* returns none that was replaced longer ago than one request timeout and a
\* max-age the Platform gave, and none that is not valid; the command that
\* follows it, once the mutex is gone and its headers are made, leaves within one
\* more request timeout.
THEOREM DocumentsAreUsedWhileFresh == Spec => []UsedWhileFresh
  <1>1. ASSUME ProviderInv, NEW c \in Calls, used[c] # None
        PROVE  /\ used[c].document \notin InvalidDocuments
               /\ ReplacedWithin(used[c].document, used[c].at, RequestTimeout)
               /\ used[c].left # None =>
                    ReplacedWithin(used[c].document, used[c].left, 2 * RequestTimeout)
    <2>1. Sound(used[c])
      BY <1>1 DEF ProviderInv, Published
    <2>2. /\ used[c].document \in Documents /\ used[c].at \in Nat /\ RequestTimeout \in Nat
          /\ superseded[used[c].document] # None => superseded[used[c].document] \in Nat
      BY <1>1, <2>1, TimesAssumption DEF ProviderInv, Shaped, Published, Sound
    <2>3. ReplacedWithin(used[c].document, used[c].at, RequestTimeout)
      BY <2>1 DEF Sound, ReplacedWithin
    <2>4. ASSUME used[c].left # None
          PROVE  ReplacedWithin(used[c].document, used[c].left, 2 * RequestTimeout)
      <3>1. used[c].left \in Nat /\ used[c].left <= used[c].at + RequestTimeout
        BY <1>1, <2>4 DEF ProviderInv, Departed
      <3>2. \A h \in CacheControls : MaxAge(h) \in Nat
        BY TimesAssumption, CacheControlsAssumption DEF MaxAge
      <3> QED
        BY <2>2, <2>3, <3>1, <3>2 DEF ReplacedWithin
    <2> QED
      BY <2>1, <2>3, <2>4 DEF Sound
  <1>2. ProviderInv => UsedWhileFresh
    BY <1>1 DEF UsedWhileFresh
  <1> QED
    BY <1>2, ProviderInvariant, PTL

\* FindIdentityByServiceDID and GetOrCreateIdentity return an identity that was
\* active during the call, Sign the assertion that was asked for.
THEOREM ProviderAnswersHold == Spec => []AnswersHold
  <1>1. ProviderInv => AnswersHold
    BY DEF ProviderInv, Answered, Told, AnswersHold
  <1> QED
    BY <1>1, ProviderInvariant, PTL
=============================================================================
