---------------------------- MODULE IdempotencyStore ----------------------------
(***************************************************************************)
(* memoryIdempotencyStore of service/stores.go and platform/stores.go: a   *)
(* map of completed responses and a map of pending executions under one    *)
(* mutex, with a channel per pending execution that waiters block on.      *)
(* Every section the mutex protects is one action; what a goroutine does   *)
(* between two sections (the command itself, the wait) is a state of pc.   *)
(*                                                                         *)
(* The two stores differ in two places and the model allows both: the      *)
(* Platform's looks at its context on every turn of the loop               *)
(* (ContextEnds at "lookup"), and the Service stamps a response before the *)
(* store takes the lock while the Platform lets the store stamp it.        *)
(***************************************************************************)
EXTENDS Integers, IdempotencyInput

CONSTANTS
  Calls,       \* calls of ExecuteIdempotent; each one is made once
  RequestsOf,  \* RequestsOf[c]: the inputs call c may be made with
  Retention,   \* how long a response is kept (the code's time.Hour)
  MaxTime      \* bound on the clock

ASSUME RequestsAssumption == RequestsOf \in [Calls -> SUBSET Inputs]
ASSUME RetentionAssumption == Retention \in Nat \ {0}
ASSUME MaxTimeAssumption == MaxTime \in Nat

VARIABLES
  now,         \* the clock all callers and the store read
  pc,          \* pc[c]: where call c is in ExecuteIdempotent
  input,       \* input[c]: the IdempotencyInput of call c, None before the call
  records,     \* store.records: slot -> [input, response, createdAt] or None
  pending,     \* store.pending: slot -> the call that owns the channel, or None
  waitingFor,  \* waitingFor[c]: the owner of the channel c blocks on, or None
  reply,       \* reply[c]: the returned IdempotencyResult, or None
  begun,       \* history: when the execution of c began, or None
  stamped,     \* stamped[c]: CreatedAt of c's response, None before it has one
  answeredAt   \* history: when c returned, or None

vars == <<now, pc, input, records, pending, waitingFor, reply, begun, stamped, answeredAt>>

Replies == [state : {"created", "replayed", "conflict", "error"}, response : Calls \cup {None}]

Records == [input : Inputs, response : Calls, createdAt : Nat]

\* What the contract remembers of a record: the request and its response.
Memories == [input : Inputs, response : Calls]

ASSUME NoneAssumption ==
  None \notin Calls \cup Inputs \cup Nat \cup Records \cup Replies \cup Memories

Locations == {"idle", "lookup", "waiting", "executing", "executed", "returned", "panicked"}

TypeOK ==
  /\ now \in Nat
  /\ pc \in [Calls -> Locations]
  /\ input \in [Calls -> Inputs \cup {None}]
  /\ records \in [Slots -> Records \cup {None}]
  /\ pending \in [Slots -> Calls \cup {None}]
  /\ waitingFor \in [Calls -> Calls \cup {None}]
  /\ reply \in [Calls -> Replies \cup {None}]
  /\ begun \in [Calls -> Nat \cup {None}]
  /\ stamped \in [Calls -> Nat \cup {None}]
  /\ answeredAt \in [Calls -> Nat \cup {None}]

Init ==
  /\ now = 0
  /\ pc = [c \in Calls |-> "idle"]
  /\ input = [c \in Calls |-> None]
  /\ records = [s \in Slots |-> None]
  /\ pending = [s \in Slots |-> None]
  /\ waitingFor = [c \in Calls |-> None]
  /\ reply = [c \in Calls |-> None]
  /\ begun = [c \in Calls |-> None]
  /\ stamped = [c \in Calls |-> None]
  /\ answeredAt = [c \in Calls |-> None]

--------------------------------------------------------------------------------
MySlot(c) == Slot(input[c])

GoTo(c, from, to) ==
  /\ pc[c] = from
  /\ pc' = [pc EXCEPT ![c] = to]

Return(c, from, state, response) ==
  /\ GoTo(c, from, "returned")
  /\ reply' = [reply EXCEPT ![c] = [state |-> state, response |-> response]]
  /\ answeredAt' = [answeredAt EXCEPT ![c] = now]

\* Fault: a record is still served at the instant it expires.
LiveAtExpiry(record) == record.createdAt + Retention >= now

\* A record is kept strictly less than Retention after its CreatedAt.
Live(record) == record.createdAt + Retention > now

\* store.expire runs over the whole map, whichever slot the caller asks about.
Unexpired == [s \in Slots |->
                IF records[s] # None /\ Live(records[s]) THEN records[s] ELSE None]

Call(c, i) ==
  /\ GoTo(c, "idle", "lookup")
  /\ input' = [input EXCEPT ![c] = i]
  /\ UNCHANGED <<now, records, pending, waitingFor, reply, begun, stamped, answeredAt>>

\* The locked section at the head of the loop, when the slot has a response.
AnswerFromRecord(c) ==
  LET found == Unexpired[MySlot(c)] IN
  /\ pc[c] = "lookup"
  /\ found # None
  /\ IF Matches(found.input, input[c])
     THEN Return(c, "lookup", "replayed", found.response)
     ELSE Return(c, "lookup", "conflict", None)
  /\ records' = Unexpired
  /\ UNCHANGED <<now, input, pending, waitingFor, begun, stamped>>

\* ... when another call is executing: block on its channel.
AwaitPending(c) ==
  /\ GoTo(c, "lookup", "waiting")
  /\ Unexpired[MySlot(c)] = None
  /\ pending[MySlot(c)] # None
  /\ waitingFor' = [waitingFor EXCEPT ![c] = pending[MySlot(c)]]
  /\ records' = Unexpired
  /\ UNCHANGED <<now, input, pending, reply, begun, stamped, answeredAt>>

\* Fault: the pending map is not consulted before the slot is claimed.
BeginWithoutPendingCheck(c) ==
  /\ GoTo(c, "lookup", "executing")
  /\ Unexpired[MySlot(c)] = None
  /\ pending' = [pending EXCEPT ![MySlot(c)] = c]
  /\ begun' = [begun EXCEPT ![c] = now]
  /\ records' = Unexpired
  /\ UNCHANGED <<now, input, waitingFor, reply, stamped, answeredAt>>

\* ... when the slot is free: claim it and leave the lock to run the command.
BeginExecution(c) ==
  /\ GoTo(c, "lookup", "executing")
  /\ Unexpired[MySlot(c)] = None
  /\ pending[MySlot(c)] = None
  /\ pending' = [pending EXCEPT ![MySlot(c)] = c]
  /\ begun' = [begun EXCEPT ![c] = now]
  /\ records' = Unexpired
  /\ UNCHANGED <<now, input, waitingFor, reply, stamped, answeredAt>>

\* execute() returned a response.  service.storeResult stamps it with the time
\* it was produced; platform.storeResult leaves CreatedAt zero.
ExecuteSucceeds(c) ==
  /\ GoTo(c, "executing", "executed")
  /\ stamped' \in {stamped, [stamped EXCEPT ![c] = now]}
  /\ UNCHANGED <<now, input, records, pending, waitingFor, reply, begun, answeredAt>>

\* Fault: the store does not stamp a response that came without CreatedAt.
PublishUnstamped(c) ==
  /\ Return(c, "executed", "created", c)
  /\ pending' = [pending EXCEPT ![MySlot(c)] = None]
  /\ records' = [records EXCEPT ![MySlot(c)] =
                   [input |-> input[c], response |-> c, createdAt |-> stamped[c]]]
  /\ UNCHANGED <<now, input, waitingFor, begun, stamped>>

\* The locked section after execute(): close the channel and keep the response.
Publish(c) ==
  LET createdAt == IF stamped[c] = None THEN now ELSE stamped[c] IN
  /\ Return(c, "executed", "created", c)
  /\ pending' = [pending EXCEPT ![MySlot(c)] = None]
  /\ stamped' = [stamped EXCEPT ![c] = createdAt]
  /\ records' = [records EXCEPT ![MySlot(c)] =
                   [input |-> input[c], response |-> c, createdAt |-> createdAt]]
  /\ UNCHANGED <<now, input, waitingFor, begun>>

\* Fault: the outcome of a failed execution is kept like a response.
FailureIsStored(c) ==
  /\ Return(c, "executing", "error", None)
  /\ pending' = [pending EXCEPT ![MySlot(c)] = None]
  /\ records' = [records EXCEPT ![MySlot(c)] =
                   [input |-> input[c], response |-> c, createdAt |-> now]]
  /\ UNCHANGED <<now, input, waitingFor, begun, stamped>>

\* Fault: the error path returns without closing the channel.
FailureKeepsPending(c) ==
  /\ Return(c, "executing", "error", None)
  /\ UNCHANGED <<now, input, records, pending, waitingFor, begun, stamped>>

\* execute() returned an error: the channel is closed and nothing is kept.
ExecuteFails(c) ==
  /\ Return(c, "executing", "error", None)
  /\ pending' = [pending EXCEPT ![MySlot(c)] = None]
  /\ UNCHANGED <<now, input, records, waitingFor, begun, stamped>>

\* execute() panics.  Nothing is deferred, so the pending entry stays for good.
ExecutePanics(c) ==
  /\ GoTo(c, "executing", "panicked")
  /\ UNCHANGED <<now, input, records, pending, waitingFor, reply, begun, stamped, answeredAt>>

\* Fault: a waiter takes the slot over without looking for a response first.
WakeAndExecute(c) ==
  /\ GoTo(c, "waiting", "executing")
  /\ pending[MySlot(c)] = None
  /\ pending' = [pending EXCEPT ![MySlot(c)] = c]
  /\ begun' = [begun EXCEPT ![c] = now]
  /\ waitingFor' = [waitingFor EXCEPT ![c] = None]
  /\ UNCHANGED <<now, input, records, reply, stamped, answeredAt>>

\* The channel c blocks on was closed: go round the loop.
Wake(c) ==
  /\ GoTo(c, "waiting", "lookup")
  /\ pending[MySlot(c)] # waitingFor[c]
  /\ waitingFor' = [waitingFor EXCEPT ![c] = None]
  /\ UNCHANGED <<now, input, records, pending, reply, begun, stamped, answeredAt>>

\* ctx.Done() won the select, or the Platform's check at the head of the loop.
ContextEnds(c) ==
  /\ \/ Return(c, "waiting", "error", None)
     \/ Return(c, "lookup", "error", None)
  /\ waitingFor' = [waitingFor EXCEPT ![c] = None]
  /\ UNCHANGED <<now, input, records, pending, begun, stamped>>

Tick ==
  /\ now < MaxTime
  /\ now' = now + 1
  /\ UNCHANGED <<pc, input, records, pending, waitingFor, reply, begun, stamped, answeredAt>>

Progress(c) ==
  \/ AnswerFromRecord(c)
  \/ AwaitPending(c)
  \/ BeginExecution(c)
  \/ ExecuteSucceeds(c)
  \/ Publish(c)
  \/ ExecuteFails(c)
  \/ Wake(c)

Next ==
  \/ \E c \in Calls :
       \/ \E i \in RequestsOf[c] : Call(c, i)
       \/ AnswerFromRecord(c)
       \/ AwaitPending(c)
       \/ BeginExecution(c)
       \/ ExecuteSucceeds(c)
       \/ Publish(c)
       \/ ExecuteFails(c)
       \/ ExecutePanics(c)
       \/ Wake(c)
       \/ ContextEnds(c)
  \/ Tick

\* A goroutine that can run does run, and a command's execution ends.  Nothing
\* obliges a context to end, a call to be made or the clock to move.
Fairness == \A c \in Calls : WF_vars(Progress(c))

Spec == Init /\ [][Next]_vars

FairSpec == Spec /\ Fairness

--------------------------------------------------------------------------------
Executing(c) == pc[c] \in {"executing", "executed", "panicked"}

Completed(c) == reply[c] # None /\ reply[c].state = "created"

\* SingleFlight.  Two calls never run the command of one slot at the same time,
\* nor does a call run it while a response to the slot is on record: the
\* pending map and the record map are written in one locked section each
\* (stores.go:191-211, 214-223).
SingleFlight ==
  \A c \in Calls : Executing(c) =>
    /\ records[MySlot(c)] = None
    /\ \A d \in Calls : Executing(d) /\ MySlot(d) = MySlot(c) => d = c

\* OncePerRetention.  Of two executions of one slot that both completed, the
\* later began only when the earlier response had reached its normal expiry: a
\* completed Enroll, Grant or Revoke is not run again by a retry
\* (service/README.md:18-24).
OncePerRetention ==
  \A c, d \in Calls :
    Completed(c) /\ Completed(d) /\ c # d /\ MySlot(c) = MySlot(d) =>
      \/ begun[d] >= stamped[c] + Retention
      \/ begun[c] >= stamped[d] + Retention

\* RepliesAreFaithful.  A replayed answer is the response of a completed
\* execution of the same slot, for a request that matches, that had not
\* expired; a conflict was caused by a call for the slot that did not match.
RepliesAreFaithful ==
  \A c \in Calls : reply[c] # None =>
    /\ reply[c].state = "replayed" =>
         LET o == reply[c].response IN
         /\ o \in Calls
         /\ Completed(o)
         /\ MySlot(o) = MySlot(c)
         /\ Matches(input[o], input[c])
         /\ stamped[o] <= answeredAt[c]
         /\ answeredAt[c] < stamped[o] + Retention
    /\ reply[c].state = "conflict" =>
         \E o \in Calls : /\ Completed(o)
                          /\ MySlot(o) = MySlot(c)
                          /\ ~Matches(input[o], input[c])

--------------------------------------------------------------------------------
\* The inductive strengthening of the three invariants above, part by part.

\* A call has an input once it is made, and an answer only once it returned.
CallsAreOneShot ==
  \A c \in Calls :
    /\ input[c] = None <=> pc[c] = "idle"
    /\ reply[c] = None <=> pc[c] # "returned"
    /\ answeredAt[c] = None <=> pc[c] # "returned"
    /\ pc[c] \in {"idle", "lookup", "waiting"} => begun[c] = None

\* The pending map names exactly the calls that execute.
PendingIsExecuting ==
  /\ \A s \in Slots : pending[s] # None => Executing(pending[s]) /\ MySlot(pending[s]) = s
  /\ \A c \in Calls : Executing(c) => pending[MySlot(c)] = c

\* Only a slot without a record is executed.
ExecutingIsUnrecorded ==
  \A c \in Calls : Executing(c) => begun[c] \in Nat /\ records[MySlot(c)] = None

\* A response is stamped when it is produced or published, never in the future.
StampsArePast ==
  \A c \in Calls :
    /\ stamped[c] # None => stamped[c] <= now
    /\ Completed(c) => begun[c] \in Nat /\ stamped[c] \in Nat

\* A record is the response of a completed execution of its slot...
RecordsAreCompleted ==
  \A s \in Slots : records[s] # None =>
    LET o == records[s].response IN
    /\ Completed(o)
    /\ MySlot(o) = s
    /\ input[o] = records[s].input
    /\ stamped[o] = records[s].createdAt

\* ... and a completed execution is on record until its retention is over.
KeptOrExpired ==
  \A c \in Calls : Completed(c) =>
    \/ /\ records[MySlot(c)] # None
       /\ records[MySlot(c)].response = c
    \/ now >= stamped[c] + Retention

\* An execution under way began after every earlier response had expired.
BegunAfterExpiry ==
  \A c, d \in Calls :
    Completed(c) /\ Executing(d) /\ MySlot(c) = MySlot(d) => begun[d] >= stamped[c] + Retention

StoreInv ==
  /\ TypeOK
  /\ CallsAreOneShot
  /\ PendingIsExecuting
  /\ ExecutingIsUnrecorded
  /\ StampsArePast
  /\ RecordsAreCompleted
  /\ KeptOrExpired
  /\ BegunAfterExpiry
  /\ OncePerRetention
  /\ RepliesAreFaithful

--------------------------------------------------------------------------------
\* What the store shows of itself to the contract: a record that has reached
\* its expiry is already forgotten, whether or not expire() has run since.
Remembered ==
  [s \in Slots |->
     IF records[s] # None /\ Live(records[s])
     THEN [input |-> records[s].input, response |-> records[s].response]
     ELSE None]

Contract == INSTANCE IdempotencyContract WITH
  asked <- input, executing <- pending, memory <- Remembered, answer <- reply

\* ImplementsContract.  Every step of the locked maps and the channels is a step
\* of the contract or is invisible to it.
ImplementsContract == Contract!Spec

\* A call that waits for an execution that panicked waits until its context ends.
BlockedByPanic(c) ==
  /\ pc[c] # "idle"
  /\ \E d \in Calls : pc[d] = "panicked" /\ MySlot(d) = MySlot(c)

\* EveryCallReturns.  A call returns, whatever the calls it shares a slot with
\* do, provided no execution of the slot panicked: no wakeup is lost between
\* the lookup and the select (stores.go:200-207), and a failed execution hands
\* the slot to a waiter.
EveryCallReturns ==
  \A c \in Calls : pc[c] = "lookup" ~> (pc[c] = "returned" \/ BlockedByPanic(c))
================================================================================
