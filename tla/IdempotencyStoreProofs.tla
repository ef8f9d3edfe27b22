------------------------- MODULE IdempotencyStoreProofs -------------------------
(***************************************************************************)
(* The single-flight store keeps its promises for any number of calls, any *)
(* inputs and any retention.  StoreInv is inductive: one lemma per kind of *)
(* step, one step per conjunct it can disturb.  Then the refinement of     *)
(* IdempotencyContract.                                                    *)
(***************************************************************************)
EXTENDS IdempotencyStore, TLAPS

\* The slot of an input is one of the slots the maps range over.
LEMMA SlotInSlots ==
  ASSUME NEW i \in Inputs
  PROVE  Slot(i) \in Slots
  BY DEF Slots

\* A call that was made has an input, and with it a slot of the maps.
LEMMA CallHasSlot ==
  ASSUME TypeOK, CallsAreOneShot, NEW c \in Calls, pc[c] # "idle"
  PROVE  input[c] \in Inputs /\ MySlot(c) \in Slots
  BY SlotInSlots DEF TypeOK, CallsAreOneShot, MySlot

\* expire() only drops records, and only those that reached their expiry.
LEMMA ExpireDropsExpired ==
  ASSUME TypeOK
  PROVE  /\ Unexpired \in [Slots -> Records \cup {None}]
         /\ \A s \in Slots : Unexpired[s] # None =>
              /\ Unexpired[s] = records[s]
              /\ now < records[s].createdAt + Retention
         /\ \A s \in Slots : records[s] # None /\ Unexpired[s] = None =>
              now >= records[s].createdAt + Retention
  BY RetentionAssumption DEF TypeOK, Unexpired, Live, Records

\* What a call returns is not None.
LEMMA ReplyIsNotNone ==
  ASSUME NEW state \in {"created", "replayed", "conflict", "error"},
         NEW response \in Calls \cup {None}
  PROVE  /\ [state |-> state, response |-> response] \in Replies
         /\ [state |-> state, response |-> response] # None
  BY NoneAssumption DEF Replies

\* The initial state: nothing is recorded, pending or answered.
LEMMA InitInv == Init => StoreInv
  <1>1. Init => TypeOK
    BY DEF Init, TypeOK, Locations
  <1>2. Init => \A c \in Calls : pc[c] = "idle" /\ reply[c] = None /\ stamped[c] = None
    BY DEF Init
  <1>3. Init => \A s \in Slots : pending[s] = None /\ records[s] = None
    BY DEF Init
  <1>4. Init => CallsAreOneShot
    BY DEF Init, CallsAreOneShot
  <1> QED
    BY <1>1, <1>2, <1>3, <1>4
    DEF StoreInv, PendingIsExecuting, ExecutingIsUnrecorded, StampsArePast, RecordsAreCompleted,
        KeptOrExpired, BegunAfterExpiry, OncePerRetention, RepliesAreFaithful, Executing, Completed

\* A call is made: it has an input and no claim on any slot yet.
LEMMA CallInv ==
  ASSUME StoreInv, NEW c \in Calls, NEW i \in Inputs, Call(c, i)
  PROVE  StoreInv'
  <1> USE NoneAssumption DEF StoreInv, Call, GoTo, MySlot
  <1>1. TypeOK'
    BY DEF TypeOK, Locations
  <1>2. CallsAreOneShot'
    BY DEF TypeOK, CallsAreOneShot
  <1>3. PendingIsExecuting'
    BY DEF TypeOK, CallsAreOneShot, PendingIsExecuting, Executing
  <1>4. ExecutingIsUnrecorded'
    BY DEF TypeOK, ExecutingIsUnrecorded, Executing
  <1>5. StampsArePast'
    BY DEF TypeOK, StampsArePast, Completed
  <1>6. RecordsAreCompleted'
    BY DEF TypeOK, RecordsAreCompleted, Completed, CallsAreOneShot, Records
  <1>7. KeptOrExpired'
    BY DEF TypeOK, KeptOrExpired, Completed, CallsAreOneShot, Records
  <1>8. BegunAfterExpiry'
    BY DEF TypeOK, BegunAfterExpiry, Completed, Executing, CallsAreOneShot
  <1>9. OncePerRetention'
    BY DEF TypeOK, OncePerRetention, Completed, CallsAreOneShot
  <1>10. RepliesAreFaithful'
    BY DEF TypeOK, RepliesAreFaithful, Completed, CallsAreOneShot, Replies
  <1>11. QED
    BY <1>1, <1>2, <1>3, <1>4, <1>5, <1>6, <1>7, <1>8, <1>9, <1>10

\* A call finds its slot executed by another one and blocks.
LEMMA AwaitPendingInv ==
  ASSUME StoreInv, NEW c \in Calls, AwaitPending(c)
  PROVE  StoreInv'
  <1> USE NoneAssumption DEF StoreInv, AwaitPending, GoTo
  <1>a. \A d \in Calls : pc[d] # "idle" => input[d] \in Inputs /\ MySlot(d) \in Slots
    BY CallHasSlot
  <1>b. /\ Unexpired \in [Slots -> Records \cup {None}]
        /\ \A s \in Slots : Unexpired[s] # None =>
             Unexpired[s] = records[s] /\ now < records[s].createdAt + Retention
        /\ \A s \in Slots : records[s] # None /\ Unexpired[s] = None =>
             now >= records[s].createdAt + Retention
    BY ExpireDropsExpired
  <1> USE DEF MySlot
  <1>1. TypeOK'
    BY <1>a, <1>b DEF TypeOK, Locations
  <1>2. CallsAreOneShot'
    BY <1>a DEF TypeOK, CallsAreOneShot
  <1>3. PendingIsExecuting'
    BY <1>a, <1>b DEF TypeOK, CallsAreOneShot, PendingIsExecuting, Executing
  <1>4. ExecutingIsUnrecorded'
    BY <1>a, <1>b DEF TypeOK, ExecutingIsUnrecorded, Executing
  <1>5. StampsArePast'
    BY <1>a DEF TypeOK, StampsArePast, Completed
  <1>6. RecordsAreCompleted'
    BY <1>a, <1>b DEF TypeOK, RecordsAreCompleted, Completed, CallsAreOneShot, Records
  <1>7. KeptOrExpired'
    BY <1>a, <1>b DEF TypeOK, KeptOrExpired, Completed, CallsAreOneShot, Records, RecordsAreCompleted
  <1>8. BegunAfterExpiry'
    BY <1>a DEF TypeOK, BegunAfterExpiry, Completed, Executing, CallsAreOneShot
  <1>9. OncePerRetention'
    BY <1>a DEF TypeOK, OncePerRetention, Completed, CallsAreOneShot
  <1>10. RepliesAreFaithful'
    BY <1>a DEF TypeOK, RepliesAreFaithful, Completed, CallsAreOneShot, Replies
  <1>11. QED
    BY <1>1, <1>2, <1>3, <1>4, <1>5, <1>6, <1>7, <1>8, <1>9, <1>10

\* A call finds a record of its slot: the record is a completed execution.
LEMMA AnswerFromRecordInv ==
  ASSUME StoreInv, NEW c \in Calls, AnswerFromRecord(c)
  PROVE  StoreInv'
  <1> USE NoneAssumption DEF StoreInv, AnswerFromRecord, Return, GoTo
  <1>a. \A d \in Calls : pc[d] # "idle" => input[d] \in Inputs /\ MySlot(d) \in Slots
    BY CallHasSlot
  <1>b. /\ Unexpired \in [Slots -> Records \cup {None}]
        /\ \A s \in Slots : Unexpired[s] # None =>
             Unexpired[s] = records[s] /\ now < records[s].createdAt + Retention
        /\ \A s \in Slots : records[s] # None /\ Unexpired[s] = None =>
             now >= records[s].createdAt + Retention
    BY ExpireDropsExpired
  <1>r. \A s \in {"created", "replayed", "conflict", "error"}, r \in Calls \cup {None} :
          [state |-> s, response |-> r] \in Replies \ {None}
    BY ReplyIsNotNone
  <1> USE DEF MySlot
  <1>1. TypeOK'
    BY <1>a, <1>b, <1>r DEF TypeOK, Locations, Records, RecordsAreCompleted
  <1>2. CallsAreOneShot'
    BY <1>a, <1>b, <1>r DEF TypeOK, CallsAreOneShot, Records
  <1>3. PendingIsExecuting'
    BY <1>a DEF TypeOK, CallsAreOneShot, PendingIsExecuting, Executing
  <1>4. ExecutingIsUnrecorded'
    BY <1>a, <1>b DEF TypeOK, ExecutingIsUnrecorded, Executing
  <1>5. StampsArePast'
    BY <1>a DEF TypeOK, StampsArePast, Completed
  <1>6. RecordsAreCompleted'
    BY <1>a, <1>b DEF TypeOK, RecordsAreCompleted, Completed, CallsAreOneShot, Records
  <1>7. KeptOrExpired'
    BY <1>a, <1>b DEF TypeOK, KeptOrExpired, Completed, CallsAreOneShot, Records, RecordsAreCompleted
  <1>8. BegunAfterExpiry'
    BY <1>a DEF TypeOK, BegunAfterExpiry, Completed, Executing, CallsAreOneShot
  <1>9. OncePerRetention'
    BY <1>a DEF TypeOK, OncePerRetention, Completed, CallsAreOneShot
  <1>10. RepliesAreFaithful'
    <2>1. /\ input' = input /\ stamped' = stamped
          /\ \A d \in Calls : d # c => reply'[d] = reply[d] /\ answeredAt'[d] = answeredAt[d]
      BY DEF TypeOK
    <2>2. \A d \in Calls : Completed(d) => Completed(d)'
      BY <2>1 DEF TypeOK, CallsAreOneShot, Completed
    <2>3. PICK o \in Calls :
            /\ Completed(o) /\ MySlot(o) = MySlot(c)
            /\ stamped[o] \in Nat /\ stamped[o] <= now /\ now < stamped[o] + Retention
            /\ \/ Matches(input[o], input[c]) /\ reply'[c] = [state |-> "replayed", response |-> o]
               \/ ~Matches(input[o], input[c]) /\ reply'[c] = [state |-> "conflict", response |-> None]
      <3> DEFINE found == Unexpired[MySlot(c)]
      <3>1. MySlot(c) \in Slots /\ found # None
        BY <1>a
      <3>2. /\ found = records[MySlot(c)] /\ records[MySlot(c)] \in Records
            /\ now < found.createdAt + Retention
        BY <1>b, <3>1 DEF TypeOK
      <3>3. /\ found.response \in Calls /\ Completed(found.response)
            /\ MySlot(found.response) = MySlot(c)
            /\ input[found.response] = found.input
            /\ stamped[found.response] = found.createdAt
        BY <3>1, <3>2 DEF RecordsAreCompleted, Records
      <3>4. stamped[found.response] \in Nat /\ stamped[found.response] <= now
        BY <3>3 DEF StampsArePast
      <3>5. reply'[c] = IF Matches(found.input, input[c])
                        THEN [state |-> "replayed", response |-> found.response]
                        ELSE [state |-> "conflict", response |-> None]
        BY DEF TypeOK
      <3> HIDE DEF found
      <3> QED
        BY <3>2, <3>3, <3>4, <3>5
    <2>4. answeredAt'[c] = now
      BY DEF TypeOK
    <2> DEFINE Faithful(d) ==
                 /\ reply[d].state = "replayed" =>
                      /\ reply[d].response \in Calls /\ Completed(reply[d].response)
                      /\ MySlot(reply[d].response) = MySlot(d)
                      /\ Matches(input[reply[d].response], input[d])
                      /\ stamped[reply[d].response] <= answeredAt[d]
                      /\ answeredAt[d] < stamped[reply[d].response] + Retention
                 /\ reply[d].state = "conflict" =>
                      \E r \in Calls : /\ Completed(r) /\ MySlot(r) = MySlot(d)
                                       /\ ~Matches(input[r], input[d])
    <2>5. ASSUME NEW d \in Calls, d # c, reply'[d] # None
          PROVE  Faithful(d)'
      BY <2>1, <2>2, <2>5 DEF RepliesAreFaithful
    <2>6. /\ Completed(o)' /\ MySlot(o)' = MySlot(c)' /\ stamped'[o] <= answeredAt'[c]
          /\ answeredAt'[c] < stamped'[o] + Retention
          /\ input'[o] = input[o] /\ input'[c] = input[c]
      BY <2>1, <2>2, <2>3, <2>4
    <2>7. Faithful(c)'
      <3>1. CASE Matches(input[o], input[c]) /\ reply'[c] = [state |-> "replayed", response |-> o]
        <4>1. reply'[c].state = "replayed" /\ reply'[c].response = o
          BY <3>1
        <4> QED
          BY <3>1, <4>1, <2>6
      <3>2. CASE ~Matches(input[o], input[c]) /\ reply'[c] = [state |-> "conflict", response |-> None]
        <4>1. reply'[c].state = "conflict"
          BY <3>2
        <4> QED
          BY <3>2, <4>1, <2>6
      <3> QED
        BY <2>3, <3>1, <3>2
    <2>8. \A d \in Calls : reply'[d] # None => Faithful(d)'
      BY <2>5, <2>7
    <2> QED
      BY <2>8 DEF RepliesAreFaithful
  <1>11. QED
    BY <1>1, <1>2, <1>3, <1>4, <1>5, <1>6, <1>7, <1>8, <1>9, <1>10

\* A call claims a free slot: whatever completed there before has expired.
LEMMA BeginExecutionInv ==
  ASSUME StoreInv, NEW c \in Calls, BeginExecution(c)
  PROVE  StoreInv'
  <1> USE NoneAssumption DEF StoreInv, BeginExecution, GoTo
  <1>a. \A d \in Calls : pc[d] # "idle" => input[d] \in Inputs /\ MySlot(d) \in Slots
    BY CallHasSlot
  <1>b. /\ Unexpired \in [Slots -> Records \cup {None}]
        /\ \A s \in Slots : Unexpired[s] # None =>
             Unexpired[s] = records[s] /\ now < records[s].createdAt + Retention
        /\ \A s \in Slots : records[s] # None /\ Unexpired[s] = None =>
             now >= records[s].createdAt + Retention
    BY ExpireDropsExpired
  <1> USE DEF MySlot
  <1>1. TypeOK'
    BY <1>a, <1>b DEF TypeOK, Locations
  <1>2. CallsAreOneShot'
    BY <1>a DEF TypeOK, CallsAreOneShot
  <1>3. PendingIsExecuting'
    BY <1>a, <1>b DEF TypeOK, CallsAreOneShot, PendingIsExecuting, Executing
  <1>4. ExecutingIsUnrecorded'
    BY <1>a, <1>b DEF TypeOK, ExecutingIsUnrecorded, Executing
  <1>5. StampsArePast'
    BY <1>a DEF TypeOK, StampsArePast, Completed
  <1>6. RecordsAreCompleted'
    BY <1>a, <1>b DEF TypeOK, RecordsAreCompleted, Completed, CallsAreOneShot, Records
  <1>7. KeptOrExpired'
    BY <1>a, <1>b DEF TypeOK, KeptOrExpired, Completed, CallsAreOneShot, Records, RecordsAreCompleted
  <1>8. BegunAfterExpiry'
    BY <1>a, <1>b DEF TypeOK, BegunAfterExpiry, Completed, Executing, CallsAreOneShot, KeptOrExpired, RecordsAreCompleted
  <1>9. OncePerRetention'
    BY <1>a DEF TypeOK, OncePerRetention, Completed, CallsAreOneShot
  <1>10. RepliesAreFaithful'
    BY <1>a DEF TypeOK, RepliesAreFaithful, Completed, CallsAreOneShot, Replies
  <1>11. QED
    BY <1>1, <1>2, <1>3, <1>4, <1>5, <1>6, <1>7, <1>8, <1>9, <1>10

\* The command answered: only the stamp of the response may be set.
LEMMA ExecuteSucceedsInv ==
  ASSUME StoreInv, NEW c \in Calls, ExecuteSucceeds(c)
  PROVE  StoreInv'
  <1> USE NoneAssumption DEF StoreInv, ExecuteSucceeds, GoTo
  <1>a. \A d \in Calls : pc[d] # "idle" => input[d] \in Inputs /\ MySlot(d) \in Slots
    BY CallHasSlot
  <1> USE DEF MySlot
  <1>1. TypeOK'
    BY <1>a DEF TypeOK, Locations
  <1>2. CallsAreOneShot'
    BY <1>a DEF TypeOK, CallsAreOneShot
  <1>3. PendingIsExecuting'
    BY <1>a DEF TypeOK, CallsAreOneShot, PendingIsExecuting, Executing
  <1>4. ExecutingIsUnrecorded'
    BY <1>a DEF TypeOK, ExecutingIsUnrecorded, Executing
  <1>5. StampsArePast'
    BY <1>a DEF TypeOK, StampsArePast, Completed
  <1>6. RecordsAreCompleted'
    BY <1>a DEF TypeOK, RecordsAreCompleted, Completed, CallsAreOneShot, Records
  <1>7. KeptOrExpired'
    BY <1>a DEF TypeOK, KeptOrExpired, Completed, CallsAreOneShot, Records
  <1>8. BegunAfterExpiry'
    BY <1>a DEF TypeOK, BegunAfterExpiry, Completed, Executing, CallsAreOneShot
  <1>9. OncePerRetention'
    BY <1>a DEF TypeOK, OncePerRetention, Completed, CallsAreOneShot
  <1>10. RepliesAreFaithful'
    BY <1>a DEF TypeOK, RepliesAreFaithful, Completed, CallsAreOneShot, Replies
  <1>11. QED
    BY <1>1, <1>2, <1>3, <1>4, <1>5, <1>6, <1>7, <1>8, <1>9, <1>10

\* The response is published: the slot passes from its executor to the record.
LEMMA PublishInv ==
  ASSUME StoreInv, NEW c \in Calls, Publish(c)
  PROVE  StoreInv'
  <1> USE NoneAssumption DEF StoreInv, Publish, Return, GoTo
  <1>a. \A d \in Calls : pc[d] # "idle" => input[d] \in Inputs /\ MySlot(d) \in Slots
    BY CallHasSlot
  <1>r. \A s \in {"created", "replayed", "conflict", "error"}, r \in Calls \cup {None} :
          [state |-> s, response |-> r] \in Replies \ {None}
    BY ReplyIsNotNone
  <1> USE DEF MySlot
  <1>1. TypeOK'
    BY <1>a, <1>r DEF TypeOK, Locations, Records
  <1>2. CallsAreOneShot'
    BY <1>a, <1>r DEF TypeOK, CallsAreOneShot
  <1>3. PendingIsExecuting'
    BY <1>a DEF TypeOK, CallsAreOneShot, PendingIsExecuting, Executing
  <1>4. ExecutingIsUnrecorded'
    BY <1>a DEF TypeOK, ExecutingIsUnrecorded, Executing, PendingIsExecuting, CallsAreOneShot
  <1>5. StampsArePast'
    BY <1>a, <1>r DEF TypeOK, StampsArePast, Completed, ExecutingIsUnrecorded, Executing
  <1>6. RecordsAreCompleted'
    BY <1>a, <1>r DEF TypeOK, RecordsAreCompleted, Completed, CallsAreOneShot, Records
  <1>7. KeptOrExpired'
    BY <1>a, <1>r DEF TypeOK, KeptOrExpired, Completed, CallsAreOneShot, Records, ExecutingIsUnrecorded, Executing
  <1>8. BegunAfterExpiry'
    BY <1>a, <1>r DEF TypeOK, BegunAfterExpiry, Completed, Executing, CallsAreOneShot, PendingIsExecuting
  <1>9. OncePerRetention'
    BY <1>a, <1>r DEF TypeOK, OncePerRetention, Completed, CallsAreOneShot, BegunAfterExpiry, Executing
  <1>10. RepliesAreFaithful'
    BY <1>a DEF TypeOK, RepliesAreFaithful, Completed, CallsAreOneShot, Replies
  <1>11. QED
    BY <1>1, <1>2, <1>3, <1>4, <1>5, <1>6, <1>7, <1>8, <1>9, <1>10

\* The command failed: the slot is free again and nothing is recorded.
LEMMA ExecuteFailsInv ==
  ASSUME StoreInv, NEW c \in Calls, ExecuteFails(c)
  PROVE  StoreInv'
  <1> USE NoneAssumption DEF StoreInv, ExecuteFails, Return, GoTo
  <1>a. \A d \in Calls : pc[d] # "idle" => input[d] \in Inputs /\ MySlot(d) \in Slots
    BY CallHasSlot
  <1>r. \A s \in {"created", "replayed", "conflict", "error"}, r \in Calls \cup {None} :
          [state |-> s, response |-> r] \in Replies \ {None}
    BY ReplyIsNotNone
  <1> USE DEF MySlot
  <1>1. TypeOK'
    BY <1>a, <1>r DEF TypeOK, Locations
  <1>2. CallsAreOneShot'
    BY <1>a, <1>r DEF TypeOK, CallsAreOneShot
  <1>3. PendingIsExecuting'
    BY <1>a DEF TypeOK, CallsAreOneShot, PendingIsExecuting, Executing
  <1>4. ExecutingIsUnrecorded'
    BY <1>a DEF TypeOK, ExecutingIsUnrecorded, Executing
  <1>5. StampsArePast'
    BY <1>a DEF TypeOK, StampsArePast, Completed
  <1>6. RecordsAreCompleted'
    BY <1>a DEF TypeOK, RecordsAreCompleted, Completed, CallsAreOneShot, Records
  <1>7. KeptOrExpired'
    BY <1>a DEF TypeOK, KeptOrExpired, Completed, CallsAreOneShot, Records
  <1>8. BegunAfterExpiry'
    BY <1>a DEF TypeOK, BegunAfterExpiry, Completed, Executing, CallsAreOneShot
  <1>9. OncePerRetention'
    BY <1>a DEF TypeOK, OncePerRetention, Completed, CallsAreOneShot
  <1>10. RepliesAreFaithful'
    BY <1>a DEF TypeOK, RepliesAreFaithful, Completed, CallsAreOneShot, Replies
  <1>11. QED
    BY <1>1, <1>2, <1>3, <1>4, <1>5, <1>6, <1>7, <1>8, <1>9, <1>10

\* The command panicked: the slot stays claimed.
LEMMA ExecutePanicsInv ==
  ASSUME StoreInv, NEW c \in Calls, ExecutePanics(c)
  PROVE  StoreInv'
  <1> USE NoneAssumption DEF StoreInv, ExecutePanics, GoTo, MySlot
  <1>1. TypeOK'
    BY DEF TypeOK, Locations
  <1>2. CallsAreOneShot'
    BY DEF TypeOK, CallsAreOneShot
  <1>3. PendingIsExecuting'
    BY DEF TypeOK, CallsAreOneShot, PendingIsExecuting, Executing
  <1>4. ExecutingIsUnrecorded'
    BY DEF TypeOK, ExecutingIsUnrecorded, Executing
  <1>5. StampsArePast'
    BY DEF TypeOK, StampsArePast, Completed
  <1>6. RecordsAreCompleted'
    BY DEF TypeOK, RecordsAreCompleted, Completed, CallsAreOneShot, Records
  <1>7. KeptOrExpired'
    BY DEF TypeOK, KeptOrExpired, Completed, CallsAreOneShot, Records
  <1>8. BegunAfterExpiry'
    BY DEF TypeOK, BegunAfterExpiry, Completed, Executing, CallsAreOneShot
  <1>9. OncePerRetention'
    BY DEF TypeOK, OncePerRetention, Completed, CallsAreOneShot
  <1>10. RepliesAreFaithful'
    BY DEF TypeOK, RepliesAreFaithful, Completed, CallsAreOneShot, Replies
  <1>11. QED
    BY <1>1, <1>2, <1>3, <1>4, <1>5, <1>6, <1>7, <1>8, <1>9, <1>10

\* A waiter goes round the loop.
LEMMA WakeInv ==
  ASSUME StoreInv, NEW c \in Calls, Wake(c)
  PROVE  StoreInv'
  <1> USE NoneAssumption DEF StoreInv, Wake, GoTo, MySlot
  <1>1. TypeOK'
    BY DEF TypeOK, Locations
  <1>2. CallsAreOneShot'
    BY DEF TypeOK, CallsAreOneShot
  <1>3. PendingIsExecuting'
    BY DEF TypeOK, CallsAreOneShot, PendingIsExecuting, Executing
  <1>4. ExecutingIsUnrecorded'
    BY DEF TypeOK, ExecutingIsUnrecorded, Executing
  <1>5. StampsArePast'
    BY DEF TypeOK, StampsArePast, Completed
  <1>6. RecordsAreCompleted'
    BY DEF TypeOK, RecordsAreCompleted, Completed, CallsAreOneShot, Records
  <1>7. KeptOrExpired'
    BY DEF TypeOK, KeptOrExpired, Completed, CallsAreOneShot, Records
  <1>8. BegunAfterExpiry'
    BY DEF TypeOK, BegunAfterExpiry, Completed, Executing, CallsAreOneShot
  <1>9. OncePerRetention'
    BY DEF TypeOK, OncePerRetention, Completed, CallsAreOneShot
  <1>10. RepliesAreFaithful'
    BY DEF TypeOK, RepliesAreFaithful, Completed, CallsAreOneShot, Replies
  <1>11. QED
    BY <1>1, <1>2, <1>3, <1>4, <1>5, <1>6, <1>7, <1>8, <1>9, <1>10

\* A call's context ends: it answers an error.
LEMMA ContextEndsInv ==
  ASSUME StoreInv, NEW c \in Calls, ContextEnds(c)
  PROVE  StoreInv'
  <1> USE NoneAssumption DEF StoreInv, ContextEnds, Return, GoTo
  <1>a. \A d \in Calls : pc[d] # "idle" => input[d] \in Inputs /\ MySlot(d) \in Slots
    BY CallHasSlot
  <1>r. \A s \in {"created", "replayed", "conflict", "error"}, r \in Calls \cup {None} :
          [state |-> s, response |-> r] \in Replies \ {None}
    BY ReplyIsNotNone
  <1> USE DEF MySlot
  <1>1. TypeOK'
    BY <1>a, <1>r DEF TypeOK, Locations
  <1>2. CallsAreOneShot'
    BY <1>a, <1>r DEF TypeOK, CallsAreOneShot
  <1>3. PendingIsExecuting'
    BY <1>a DEF TypeOK, CallsAreOneShot, PendingIsExecuting, Executing
  <1>4. ExecutingIsUnrecorded'
    BY <1>a DEF TypeOK, ExecutingIsUnrecorded, Executing
  <1>5. StampsArePast'
    BY <1>a DEF TypeOK, StampsArePast, Completed
  <1>6. RecordsAreCompleted'
    BY <1>a DEF TypeOK, RecordsAreCompleted, Completed, CallsAreOneShot, Records
  <1>7. KeptOrExpired'
    BY <1>a DEF TypeOK, KeptOrExpired, Completed, CallsAreOneShot, Records
  <1>8. BegunAfterExpiry'
    BY <1>a DEF TypeOK, BegunAfterExpiry, Completed, Executing, CallsAreOneShot
  <1>9. OncePerRetention'
    BY <1>a DEF TypeOK, OncePerRetention, Completed, CallsAreOneShot
  <1>10. RepliesAreFaithful'
    BY <1>a DEF TypeOK, RepliesAreFaithful, Completed, CallsAreOneShot, Replies
  <1>11. QED
    BY <1>1, <1>2, <1>3, <1>4, <1>5, <1>6, <1>7, <1>8, <1>9, <1>10

\* Time passes: what had expired stays expired.
LEMMA TickInv ==
  ASSUME StoreInv, Tick
  PROVE  StoreInv'
  <1> USE DEF StoreInv, Tick, MySlot
  <1>1. TypeOK'
    BY DEF TypeOK
  <1>2. CallsAreOneShot' /\ PendingIsExecuting' /\ ExecutingIsUnrecorded'
    BY DEF TypeOK, CallsAreOneShot, PendingIsExecuting, ExecutingIsUnrecorded, Executing
  <1>3. StampsArePast'
    BY DEF TypeOK, StampsArePast, Completed
  <1>4. RecordsAreCompleted'
    BY DEF RecordsAreCompleted, Completed
  <1>5. KeptOrExpired'
    BY RetentionAssumption DEF TypeOK, KeptOrExpired, StampsArePast, Completed
  <1>6. BegunAfterExpiry' /\ OncePerRetention'
    BY DEF BegunAfterExpiry, OncePerRetention, Executing, Completed
  <1>7. RepliesAreFaithful'
    BY DEF RepliesAreFaithful, Completed
  <1> QED
    BY <1>1, <1>2, <1>3, <1>4, <1>5, <1>6, <1>7

\* A step that changes no variable changes no part of the invariant.
LEMMA StutterInv ==
  ASSUME StoreInv, UNCHANGED vars
  PROVE  StoreInv'
  BY DEF vars, StoreInv, TypeOK, CallsAreOneShot, PendingIsExecuting, ExecutingIsUnrecorded,
         StampsArePast, RecordsAreCompleted, KeptOrExpired, BegunAfterExpiry, OncePerRetention,
         RepliesAreFaithful, Executing, Completed, MySlot

\* StoreInv.  The two maps, the channels and the program counters of every call
\* of ExecuteIdempotent stay consistent with each other.
THEOREM StoreInvariant == Spec => []StoreInv
  <1>1. ASSUME StoreInv, [Next]_vars
        PROVE  StoreInv'
    <2>1. ASSUME NEW c \in Calls, NEW i \in RequestsOf[c], Call(c, i)
          PROVE  StoreInv'
      <3>1. i \in Inputs
        BY RequestsAssumption
      <3> QED
        BY <1>1, <2>1, <3>1, CallInv
    <2>2. ASSUME NEW c \in Calls,
                 \/ AnswerFromRecord(c) \/ AwaitPending(c) \/ BeginExecution(c)
                 \/ ExecuteSucceeds(c) \/ Publish(c) \/ ExecuteFails(c)
                 \/ ExecutePanics(c) \/ Wake(c) \/ ContextEnds(c)
          PROVE  StoreInv'
      BY <1>1, <2>2, AnswerFromRecordInv, AwaitPendingInv, BeginExecutionInv, ExecuteSucceedsInv,
         PublishInv, ExecuteFailsInv, ExecutePanicsInv, WakeInv, ContextEndsInv
    <2> QED
      BY <1>1, <2>1, <2>2, TickInv, StutterInv DEF Next
  <1> QED
    BY InitInv, <1>1, PTL DEF Spec

\* TypeOK.  Every variable keeps its type: in particular a call blocks only on
\* the channel of a call, and a slot holds a record of one of its inputs.
THEOREM TypeCorrect == Spec => []TypeOK
  <1>1. StoreInv => TypeOK
    BY DEF StoreInv
  <1> QED
    BY <1>1, StoreInvariant, PTL

\* SingleFlight.  No two calls run the command of one slot at the same time,
\* and none runs it while a response to the slot is on record.
THEOREM OneExecutionAtATime == Spec => []SingleFlight
  <1>1. StoreInv => SingleFlight
    BY DEF StoreInv, SingleFlight, PendingIsExecuting, ExecutingIsUnrecorded
  <1> QED
    BY <1>1, StoreInvariant, PTL

\* OncePerRetention.  A completed command is not run again for the same owner
\* and key until the response has been kept for the whole Retention.
THEOREM NoReexecutionBeforeExpiry == Spec => []OncePerRetention
  <1>1. StoreInv => OncePerRetention
    BY DEF StoreInv
  <1> QED
    BY <1>1, StoreInvariant, PTL

\* RepliesAreFaithful.  A replay is the unexpired response of a completed
\* execution of a matching request; a conflict names a request that differs.
THEOREM ReplaysAreFaithful == Spec => []RepliesAreFaithful
  <1>1. StoreInv => RepliesAreFaithful
    BY DEF StoreInv
  <1> QED
    BY <1>1, StoreInvariant, PTL

-----------------------------------------------------------------------------
(* The store implements its contract: one lemma per kind of step, each naming *)
(* the step of the contract it is, or that the contract does not see it.      *)


\* The contract speaks of the same slots and the same matching.
LEMMA SameInputs ==
  /\ Contract!Slots = Slots
  /\ \A i : Contract!Slot(i) = Slot(i)
  /\ \A i, j : Contract!Matches(i, j) = Matches(i, j)
  BY DEF Contract!Slots, Contract!Slot, Contract!Matches, Slots, Slot, Matches

\* What the contract sees of a slot is what expire() would leave of it.
LEMMA RememberedFacts ==
  /\ DOMAIN Remembered = Slots
  /\ Remembered = [s \in Slots |-> Remembered[s]]
  /\ \A s \in Slots : Unexpired[s] = None => Remembered[s] = None
  /\ \A s \in Slots : Unexpired[s] # None =>
       Remembered[s] = [input |-> records[s].input, response |-> records[s].response]
  BY DEF Remembered, Unexpired

\* expire() is invisible: it drops only what the contract has forgotten.
LEMMA ExpireIsInvisible ==
  ASSUME records' = Unexpired, now' = now
  PROVE  Remembered' = Remembered
  BY DEF Remembered, Unexpired, Live

\* Neither is a step that leaves the records and the clock alone.
LEMMA SameRemembered ==
  ASSUME UNCHANGED <<records, now>>
  PROVE  Remembered' = Remembered
  BY DEF Remembered, Live

\* Empty maps on both sides.
LEMMA InitRefines == Init => Contract!Init
  BY SameInputs DEF Init, Contract!Init, Remembered

\* Making a call is Ask.
LEMMA CallRefines ==
  ASSUME StoreInv, NEW c \in Calls, NEW i \in Inputs, Call(c, i)
  PROVE  Contract!Next
  <1>1. Contract!Ask(c, i)
    BY SameRemembered DEF Call, GoTo, Contract!Ask, StoreInv, CallsAreOneShot
  <1> QED
    BY <1>1 DEF Contract!Next

\* Answering from a record is Recall.
LEMMA AnswerFromRecordRefines ==
  ASSUME StoreInv, NEW c \in Calls, AnswerFromRecord(c)
  PROVE  Contract!Next
  <1>1. /\ pc[c] = "lookup" /\ reply[c] = None /\ input[c] # None
        /\ MySlot(c) \in Slots
    BY CallHasSlot DEF AnswerFromRecord, StoreInv, CallsAreOneShot
  <1>2. Unexpired[MySlot(c)] # None /\ records' = Unexpired
    BY DEF AnswerFromRecord
  <1>3. Unexpired[MySlot(c)] = records[MySlot(c)]
    BY <1>1, <1>2 DEF Unexpired
  <1>4. Remembered[MySlot(c)] = [input |-> records[MySlot(c)].input,
                                 response |-> records[MySlot(c)].response]
    BY <1>1, <1>2, RememberedFacts
  <1>5. Remembered[MySlot(c)] # None
    BY <1>1, <1>2, <1>3, <1>4, NoneAssumption DEF StoreInv, TypeOK, Records, Memories
  <1>6. reply' = [reply EXCEPT ![c] = Contract!AnswerFrom(Remembered[MySlot(c)], input[c])]
    BY <1>3, <1>4, SameInputs
    DEF AnswerFromRecord, Return, Contract!AnswerFrom, Contract!Replayed, Contract!Conflict
  <1>7. Remembered' = Remembered
    BY <1>2, ExpireIsInvisible DEF AnswerFromRecord
  <1>8. Contract!Recall(c)
    BY <1>1, <1>5, <1>6, <1>7, SameInputs
    DEF AnswerFromRecord, Contract!Recall, Contract!Waiting, MySlot
  <1> QED
    BY <1>8 DEF Contract!Next

\* Blocking on a channel and waking up are invisible.
LEMMA WaitRefines ==
  ASSUME NEW c \in Calls, AwaitPending(c) \/ Wake(c) \/ ExecutePanics(c) \/ ExecuteSucceeds(c)
  PROVE  UNCHANGED Contract!vars
  BY ExpireIsInvisible, SameRemembered
  DEF AwaitPending, Wake, ExecutePanics, ExecuteSucceeds, Contract!vars

\* Claiming the slot is Begin.
LEMMA BeginExecutionRefines ==
  ASSUME StoreInv, NEW c \in Calls, BeginExecution(c)
  PROVE  Contract!Next
  <1>1. /\ reply[c] = None /\ input[c] # None /\ MySlot(c) \in Slots
    BY CallHasSlot DEF BeginExecution, GoTo, StoreInv, CallsAreOneShot
  <1>2. Remembered[MySlot(c)] = None
    BY <1>1, RememberedFacts DEF BeginExecution
  <1>3. Remembered' = Remembered
    BY ExpireIsInvisible DEF BeginExecution
  <1>4. Contract!Begin(c)
    BY <1>1, <1>2, <1>3, SameInputs
    DEF BeginExecution, Contract!Begin, Contract!Waiting, MySlot
  <1> QED
    BY <1>4 DEF Contract!Next

\* An executor holds its slot.
LEMMA ExecutorHoldsSlot ==
  ASSUME StoreInv, NEW c \in Calls, Executing(c)
  PROVE  /\ reply[c] = None
         /\ input[c] # None
         /\ MySlot(c) \in Slots
         /\ pending[MySlot(c)] = c
  BY CallHasSlot DEF StoreInv, CallsAreOneShot, PendingIsExecuting, Executing

\* Publishing a response is Finish; a response whose stamp is already older
\* than the retention is published and forgotten at once.
LEMMA PublishRefines ==
  ASSUME StoreInv, NEW c \in Calls, Publish(c)
  PROVE  Contract!Next
  <1>1. /\ reply[c] = None /\ input[c] # None
        /\ MySlot(c) \in Slots /\ pending[MySlot(c)] = c
    BY ExecutorHoldsSlot DEF Publish, Return, GoTo, Executing
  <1>2. records[MySlot(c)] = None
    BY DEF Publish, Return, GoTo, StoreInv, ExecutingIsUnrecorded, Executing
  <1>3. PICK t \in Nat : records' = [records EXCEPT ![MySlot(c)] =
                            [input |-> input[c], response |-> c, createdAt |-> t]]
    BY DEF Publish, StoreInv, TypeOK
  <1>4. [input |-> input[c], response |-> c, createdAt |-> t] # None
    BY <1>1, NoneAssumption DEF StoreInv, TypeOK, Records
  <1>5. /\ now' = now
        /\ records \in [Slots -> Records \cup {None}]
    BY DEF Publish, StoreInv, TypeOK
  <1>6. Remembered' \in {Remembered, [Remembered EXCEPT ![MySlot(c)] =
                                        [input |-> input[c], response |-> c]]}
    <2> DEFINE fresh == [input |-> input[c], response |-> c, createdAt |-> t]
    <2>1. \A s \in Slots \ {MySlot(c)} : records'[s] = records[s]
      BY <1>3, <1>5
    <2>2. records'[MySlot(c)] = fresh
      BY <1>1, <1>3, <1>5
    <2>3. CASE t + Retention > now
      <3>1. Remembered'[MySlot(c)] = [input |-> input[c], response |-> c]
        BY <1>1, <1>4, <1>5, <2>2, <2>3 DEF Remembered, Live
      <3>2. \A s \in Slots \ {MySlot(c)} : Remembered'[s] = Remembered[s]
        BY <1>5, <2>1 DEF Remembered, Live
      <3> QED
        BY <1>1, <3>1, <3>2 DEF Remembered
    <2>4. CASE ~(t + Retention > now)
      BY <1>2, <1>4, <1>5, <2>1, <2>2, <2>4 DEF Remembered, Live
    <2> QED
      BY <2>3, <2>4
  <1>7. Contract!Finish(c)
    BY <1>1, <1>6, SameInputs
    DEF Publish, Return, Contract!Finish, Contract!Waiting, Contract!Created, MySlot
  <1> QED
    BY <1>7 DEF Contract!Next

\* A failed execution is Fail.
LEMMA ExecuteFailsRefines ==
  ASSUME StoreInv, NEW c \in Calls, ExecuteFails(c)
  PROVE  Contract!Next
  <1>1. /\ reply[c] = None /\ input[c] # None
        /\ MySlot(c) \in Slots /\ pending[MySlot(c)] = c
    BY ExecutorHoldsSlot DEF ExecuteFails, Return, GoTo, Executing
  <1>2. Remembered' = Remembered
    BY SameRemembered DEF ExecuteFails
  <1>3. Contract!Fail(c)
    BY <1>1, <1>2, SameInputs
    DEF ExecuteFails, Return, Contract!Fail, Contract!Waiting, Contract!Failure, MySlot
  <1> QED
    BY <1>3 DEF Contract!Next

\* The end of a context is GiveUp: only a call that does not execute sees it.
LEMMA ContextEndsRefines ==
  ASSUME StoreInv, NEW c \in Calls, ContextEnds(c)
  PROVE  Contract!Next
  <1>1. /\ pc[c] \in {"lookup", "waiting"} /\ reply[c] = None /\ input[c] # None
        /\ MySlot(c) \in Slots
    BY CallHasSlot DEF ContextEnds, Return, GoTo, StoreInv, CallsAreOneShot
  <1>2. pending[MySlot(c)] # c
    <2>1. c # None
      BY NoneAssumption
    <2> QED
      BY <1>1, <2>1 DEF StoreInv, PendingIsExecuting, Executing
  <1>3. Remembered' = Remembered
    BY SameRemembered DEF ContextEnds
  <1>4. Contract!GiveUp(c)
    BY <1>1, <1>2, <1>3, SameInputs
    DEF ContextEnds, Return, Contract!GiveUp, Contract!Waiting, Contract!Failure, MySlot
  <1> QED
    BY <1>4 DEF Contract!Next

\* Time makes the contract forget what expired.
LEMMA TickRefines ==
  ASSUME StoreInv, Tick
  PROVE  Contract!Next
  <1> DEFINE gone == {s \in Slots : Remembered'[s] = None}
  <1>1. Remembered' = [s \in Slots |-> IF s \in gone THEN None ELSE Remembered[s]]
    <2>1. records' = records /\ now' = now + 1 /\ now \in Nat
      BY DEF Tick, StoreInv, TypeOK
    <2>2. ASSUME NEW s \in Slots, Remembered'[s] # None
          PROVE  Remembered'[s] = Remembered[s]
      <3>1. records[s] # None /\ records[s].createdAt \in Nat
        BY <2>1, <2>2 DEF Remembered, StoreInv, TypeOK, Records
      <3>2. records[s].createdAt + Retention > now + 1
        BY <2>1, <2>2 DEF Remembered, Live
      <3>3. records[s].createdAt + Retention > now
        BY <2>1, <3>1, <3>2, RetentionAssumption
      <3> QED
        BY <2>1, <3>1, <3>2, <3>3 DEF Remembered, Live
    <2> QED
      BY <2>2 DEF Remembered
  <1>2. Contract!Forget(gone)
    BY <1>1, SameInputs DEF Tick, Contract!Forget
  <1>3. gone \in SUBSET Contract!Slots
    BY SameInputs
  <1> QED
    BY <1>2, <1>3 DEF Contract!Next

\* ImplementsContract.  Whatever the interleaving of the locked sections, the
\* waits, the failures and the clock, a caller sees a behaviour of the contract.
THEOREM StoreImplementsContract == Spec => ImplementsContract
  <1>1. ASSUME StoreInv, [Next]_vars
        PROVE  [Contract!Next]_(Contract!vars)
    <2>1. ASSUME NEW c \in Calls, NEW i \in RequestsOf[c], Call(c, i)
          PROVE  Contract!Next
      <3>1. i \in Inputs
        BY RequestsAssumption
      <3> QED
        BY <1>1, <2>1, <3>1, CallRefines
    <2>2. ASSUME NEW c \in Calls,
                 \/ AnswerFromRecord(c) \/ BeginExecution(c) \/ Publish(c)
                 \/ ExecuteFails(c) \/ ContextEnds(c)
          PROVE  Contract!Next
      BY <1>1, <2>2, AnswerFromRecordRefines, BeginExecutionRefines, PublishRefines,
         ExecuteFailsRefines, ContextEndsRefines
    <2>3. ASSUME NEW c \in Calls,
                 AwaitPending(c) \/ Wake(c) \/ ExecutePanics(c) \/ ExecuteSucceeds(c)
          PROVE  UNCHANGED Contract!vars
      BY <2>3, WaitRefines
    <2>4. ASSUME UNCHANGED vars
          PROVE  UNCHANGED Contract!vars
      BY <2>4, SameRemembered DEF vars, Contract!vars
    <2> QED
      BY <1>1, <2>1, <2>2, <2>3, <2>4, TickRefines DEF Next
  <1> QED
    BY InitRefines, <1>1, StoreInvariant, PTL DEF Spec, ImplementsContract, Contract!Spec
================================================================================
