------------------------------- MODULE ReplayGuard -------------------------------
(***************************************************************************)
(* authenticateAssertion and validAssertion of service/commands.go over    *)
(* memoryReplayStore of service/stores.go: how a Service takes a client    *)
(* assertion no more than once while it is valid.                          *)
(*                                                                         *)
(* The clock is read once, before the verifier, which may fetch keys from  *)
(* the network: everything after it is judged by that captured time, the   *)
(* eviction of the replay store included.  The signature, issuer,          *)
(* audience, operation and resource checks are the verifier's verdict.     *)
(* Times are whole seconds in int64, of which the upper end is modelled.   *)
(* The module's names are its own, so that proofs can extend it beside the *)
(* Agent's side of authentication.                                         *)
(***************************************************************************)
EXTENDS Integers

CONSTANTS
  Calls,            \* requests that present an assertion
  Assertions,       \* [key, issuedAt, expiresAt]; key is the subject and jti
  Skew,             \* clientAssertion.ClockSkew
  MaximumLifetime,  \* clientAssertion.MaximumLifetime
  MaxInt64,         \* math.MaxInt64
  MaxTime,          \* bound on the clock
  Nil

Keys == {a.key : a \in Assertions}

ASSUME AssertionsAssumption ==
  \A a \in Assertions : a.issuedAt \in 0..MaxInt64 /\ a.expiresAt \in 0..MaxInt64
ASSUME SkewAssumption ==
  MaxInt64 \in Nat /\ Skew \in 0..MaxInt64 /\ MaximumLifetime \in 0..MaxInt64
ASSUME NilAssumption == Nil \notin Nat \cup Assertions

VARIABLES
  now,         \* service.clock()
  pc,          \* pc[c]: where request c is in authenticateAssertion
  assertion,   \* assertion[c]: what c presents, Nil before the request
  captured,    \* captured[c]: the local now of c
  replay,      \* store.records: key -> ExpiresAt of the ReplayRecord, or Nil
  acceptedAt   \* history: when c was recognized, or Nil

replayVars == <<now, pc, assertion, captured, replay, acceptedAt>>

Locations == {"idle", "verifying", "consuming", "recognized", "refused", "failed"}

ReplayTypeOK ==
  /\ now \in Nat
  /\ pc \in [Calls -> Locations]
  /\ assertion \in [Calls -> Assertions \cup {Nil}]
  /\ captured \in [Calls -> Nat \cup {Nil}]
  /\ replay \in [Keys -> Nat \cup {Nil}]
  /\ acceptedAt \in [Calls -> Nat \cup {Nil}]

ReplayInit ==
  /\ now = 0
  /\ pc = [c \in Calls |-> "idle"]
  /\ assertion = [c \in Calls |-> Nil]
  /\ captured = [c \in Calls |-> Nil]
  /\ replay = [k \in Keys |-> Nil]
  /\ acceptedAt = [c \in Calls |-> Nil]

--------------------------------------------------------------------------------
Move(c, from, to) ==
  /\ pc[c] = from
  /\ pc' = [pc EXCEPT ![c] = to]

\* Addition in int64, of two seconds that are not negative.
Plus(s, t) == IF s + t <= MaxInt64 THEN s + t ELSE s + t - 2 * (MaxInt64 + 1)

\* The latest time of issue that is accepted at t.
issuedDeadline(t) == IF t <= MaxInt64 - Skew THEN Plus(t, Skew) ELSE MaxInt64

LifetimeIsValid(a) ==
  /\ a.expiresAt > a.issuedAt
  /\ a.issuedAt <= MaxInt64 - MaximumLifetime
  /\ a.expiresAt <= Plus(a.issuedAt, MaximumLifetime)

\* Fault: an assertion is still valid at the instant it expires.
ValidAtExpiry(a, t) ==
  LifetimeIsValid(a) /\ a.issuedAt <= issuedDeadline(t) /\ a.expiresAt >= t - Skew

\* The times of validAssertion, judged at t.
ValidAt(a, t) ==
  LifetimeIsValid(a) /\ a.issuedAt <= issuedDeadline(t) /\ a.expiresAt > t - Skew

\* Fault: nothing is held against an expiry near the end of the range.
RecordableAlways(a) == a.expiresAt <= MaxInt64

\* An assertion whose record would expire past the end of the range is refused.
Recordable(a) == a.expiresAt <= MaxInt64 - Skew

\* Fault: the record is kept to the assertion's expiry, without the skew.
ExpiryWithoutSkew(a) == a.expiresAt

\* ExpiresAt of the ReplayRecord.
ReplayExpiry(a) == Plus(a.expiresAt, Skew)

\* Fault: what is passed on as the time is the deadline, skew already subtracted.
PresentAtDeadline(c, a) ==
  /\ Move(c, "idle", "verifying")
  /\ assertion' = [assertion EXCEPT ![c] = a]
  /\ captured' = [captured EXCEPT ![c] = now - Skew]
  /\ UNCHANGED <<now, replay, acceptedAt>>

\* A request arrives and reads the clock.
Present(c, a) ==
  /\ Move(c, "idle", "verifying")
  /\ assertion' = [assertion EXCEPT ![c] = a]
  /\ captured' = [captured EXCEPT ![c] = now]
  /\ UNCHANGED <<now, replay, acceptedAt>>

\* The verifier returns claims, validAssertion finds them valid and their
\* expiry leaves room for the skew.
Verify(c) ==
  /\ Move(c, "verifying", "consuming")
  /\ ValidAt(assertion[c], captured[c]) /\ Recordable(assertion[c])
  /\ UNCHANGED <<now, assertion, captured, replay, acceptedAt>>

\* The verifier fails, or what it returns is not valid or not recordable.
Refuse(c) ==
  /\ Move(c, "verifying", "refused")
  /\ UNCHANGED <<now, assertion, captured, replay, acceptedAt>>

\* ConsumeReplay drops every record that has expired at the caller's time.
Unexpired(t) ==
  [k \in Keys |-> IF replay[k] # Nil /\ replay[k] > t THEN replay[k] ELSE Nil]

\* What ConsumeReplay takes for an invalid record: one that has expired already.
StaleRecord(c) == ReplayExpiry(assertion[c]) <= captured[c]

Accept(c) ==
  LET key == assertion[c].key IN
  /\ Move(c, "consuming", "recognized")
  /\ ~StaleRecord(c)
  /\ Unexpired(captured[c])[key] = Nil
  /\ replay' = [Unexpired(captured[c]) EXCEPT ![key] = ReplayExpiry(assertion[c])]
  /\ acceptedAt' = [acceptedAt EXCEPT ![c] = now]
  /\ UNCHANGED <<now, assertion, captured>>

RefuseReplay(c) ==
  /\ Move(c, "consuming", "refused")
  /\ ~StaleRecord(c)
  /\ Unexpired(captured[c])[assertion[c].key] # Nil
  /\ replay' = Unexpired(captured[c])
  /\ UNCHANGED <<now, assertion, captured, acceptedAt>>

\* The context ended before the store took its lock, or the record is stale:
\* an error of the Service, not a refusal.
ConsumeFails(c) ==
  /\ Move(c, "consuming", "failed")
  /\ UNCHANGED <<now, assertion, captured, replay, acceptedAt>>

Tick ==
  /\ now < MaxTime
  /\ now' = now + 1
  /\ UNCHANGED <<pc, assertion, captured, replay, acceptedAt>>

ReplayNext ==
  \/ \E c \in Calls :
       \/ \E a \in Assertions : Present(c, a)
       \/ Verify(c) \/ Refuse(c)
       \/ Accept(c) \/ RefuseReplay(c) \/ ConsumeFails(c)
  \/ Tick

ReplaySpec == ReplayInit /\ [][ReplayNext]_replayVars

--------------------------------------------------------------------------------
Recognized(c) == pc[c] = "recognized"

\* AcceptedOnceInWindow.  Of two requests recognized with one subject and jti,
\* one was recognized after the other's assertion had left its window of
\* validity, skew included: the store never forgets a record earlier, although
\* each request evicts by the time it captured and not by the time it is
\* (commands.go:255-269, stores.go:152-162).
AcceptedOnceInWindow ==
  \A c, d \in Calls :
    c # d /\ Recognized(c) /\ Recognized(d) /\ assertion[c].key = assertion[d].key =>
      \/ acceptedAt[c] >= assertion[d].expiresAt + Skew
      \/ acceptedAt[d] >= assertion[c].expiresAt + Skew

\* RecordIsNeverStale.  A valid assertion is never an invalid record to the
\* replay store, which would turn a refusal into an error of the Service: the
\* two places that apply the skew agree, at the end of int64 too
\* (commands.go:265-269, 301-319).
RecordIsNeverStale == \A c \in Calls : pc[c] = "consuming" => ~StaleRecord(c)

--------------------------------------------------------------------------------
\* The parts of the inductive invariant.

\* A request that arrived presents an assertion and captured the past.
CapturedIsPast ==
  \A c \in Calls : pc[c] # "idle" =>
    /\ assertion[c] \in Assertions
    /\ captured[c] \in Nat /\ captured[c] <= now

\* What goes to the replay store was valid when it was captured.
ConsumedWasValid ==
  \A c \in Calls : pc[c] = "consuming" =>
    ValidAt(assertion[c], captured[c]) /\ Recordable(assertion[c])

\* An accepted assertion is on record or has left its window.
RecordedOrExpired ==
  \A c \in Calls : Recognized(c) =>
    /\ acceptedAt[c] \in Nat /\ Recordable(assertion[c])
    /\ \/ replay[assertion[c].key] = ReplayExpiry(assertion[c])
       \/ now >= ReplayExpiry(assertion[c])

ReplayInv ==
  /\ ReplayTypeOK
  /\ CapturedIsPast
  /\ ConsumedWasValid
  /\ RecordedOrExpired
  /\ RecordIsNeverStale
  /\ AcceptedOnceInWindow
================================================================================
