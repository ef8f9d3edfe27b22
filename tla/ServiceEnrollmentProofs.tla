------------------------- MODULE ServiceEnrollmentProofs -------------------------
(***************************************************************************)
(* Enroll for any number of racing calls, claims and documents, and edits  *)
(* of the application.  Seven actions matter to what is stored: a call is  *)
(* made, reads the record, merges its copy, saves it, or creates the       *)
(* record, and an edit reads the record and saves its copy; every other    *)
(* step is Quiet.  Each invariant says of the copies in hand what it says  *)
(* of the record, which is what can be said of the write of a stale copy.  *)
(***************************************************************************)
EXTENDS ServiceEnrollment, TLAPS

USE DEF Processes

Holding == {"updating", "saving", "editing"}

\* Where calls can be: creation is exclusive and over once there is a record,
\* and a copy in hand is one of the enrollment that is stored.
PlaceInv ==
  /\ \A c \in Calls : pc[c] # "idle" => request[c] \in Requests
  /\ \A c \in Calls : answer[c] \in Saved => pc[c] = "returned" /\ record \in Enrollments
  /\ \A p \in Processes : pc[p] \in Holding =>
       /\ copy[p] \in Enrollments /\ record \in Enrollments
       /\ copy[p].createdBy = record.createdBy
  /\ \A p \in Processes : \A q \in before[p] : pc[q] = "returned"

CreatorInv ==
  /\ \A c \in Calls : pc[c] \in {"deciding", "panicked"} => creating = c
  /\ creating # None => record = None

Placed == TypeOK /\ PlaceInv /\ CreatorInv

\* What an enrollment, stored or in hand, owes its calls; extra is the call that
\* is about to save it.
Complete(enrollment) == RequiredClaims \subseteq Supplied(enrollment.claims)

\* req and ans are request and answer, now or after a step.
DeclaredIn(req, c) == IF req[c].acknowledged = None THEN {} ELSE req[c].acknowledged

BackedBy(enrollment, extra, req, ans) ==
  /\ \A n \in Supplied(enrollment.claims) :
       /\ n \in req[enrollment.claims[n]].claims
       /\ ans[enrollment.claims[n]] \in Saved \/ enrollment.claims[n] \in extra
  /\ \A d \in enrollment.acknowledged :
       \E c \in Calls : (ans[c] \in Saved \ {"denied"} \/ c \in extra) /\ d \in DeclaredIn(req, c)

Backed(enrollment, extra) == BackedBy(enrollment, extra, request, answer)

CompleteInv ==
  /\ record # None => Complete(record)
  /\ \A p \in Processes : pc[p] \in Holding => Complete(copy[p])

BackedInv ==
  /\ record # None => Backed(record, {})
  /\ \A p \in Processes : pc[p] \in {"updating", "editing"} => Backed(copy[p], {})
  /\ \A c \in Calls : pc[c] = "saving" => Backed(copy[c], {c})

\* Holds and Solo, of the present or of the next values of the variables.
HoldsBy(enrollment, c, req, ans, bef) ==
  /\ \A n \in req[c].claims :
       \E d \in Calls : enrollment.claims[n] = d /\ (d = c \/ c \in bef[d])
  /\ ans[c] # "denied" => DeclaredIn(req, c) \cap Catalog \subseteq enrollment.acknowledged

SoloBy(c, at, bef) ==
  \A p \in Processes \ {c} : at[p] = "idle" \/ p \in bef[c] \/ c \in bef[p]

\* An Enroll about to save holds all of its own, and no Enroll holds a copy from
\* before a solo one.
Own(c) ==
  /\ \A n \in request[c].claims : copy[c].claims[n] = c
  /\ Declared(c) \cap Catalog \subseteq copy[c].acknowledged

SoloInv ==
  /\ \A c \in Calls : pc[c] = "saving" => Own(c)
  /\ \A c \in Calls : answer[c] \in Saved /\ Solo(c) =>
       /\ Holds(record, c)
       /\ \A p \in Processes : pc[p] \in Holding => Holds(copy[p], c)

EnrollInv == Placed /\ CompleteInv /\ BackedInv /\ SoloInv

\* A step that stores nothing: no call and no edit gets or changes a copy, is
\* begun, or has its copy stored.
Quiet ==
  /\ UNCHANGED <<record, request, before>>
  /\ \A p \in Processes :
       /\ pc'[p] \in Holding => pc'[p] = pc[p] /\ copy'[p] = copy[p]
       /\ (pc'[p] = "idle") = (pc[p] = "idle")
       /\ pc[p] = "returned" => pc'[p] = "returned"
  /\ \A c \in Calls : answer'[c] = answer[c] \/ (pc[c] # "returned" /\ answer'[c] \notin Saved)

Making == \E c \in Calls : \E r \in RequestsOf[c] : Enroll(c, r)
Reading == \E c \in Calls : FindEnrollment(c)
Merging == \E c \in Calls : \E o \in Pendings \cup {None} : MergeEnrollment(c, o)
Saving == \E c \in Calls : SaveEnrollment(c)
Creating == \E c \in Calls : \E s \in DecisionStatuses : CreateEnrollment(c, s)
Opening == \E e \in Edits : ReadRecord(e)
Closing == \E e \in Edits : SaveRecord(e)

-----------------------------------------------------------------------------
(* Enrollments.                                                             *)

LEMMA MergeClaimsTyped ==
  ASSUME NEW c \in Calls, NEW claims \in [ClaimNames -> Calls \cup {None}], request[c] \in Requests
  PROVE  /\ MergeClaims(claims, c) \in [ClaimNames -> Calls \cup {None}]
         /\ \A n \in ClaimNames :
              MergeClaims(claims, c)[n] = IF n \in request[c].claims THEN c ELSE claims[n]
         /\ request[c].claims \subseteq ClaimNames
         /\ Declared(c) \subseteq DocumentIDs
  BY DEF MergeClaims, Requests, Declared

LEMMA MergedTyped ==
  ASSUME NEW c \in Calls, copy[c] \in Enrollments, request[c] \in Requests,
         NEW o \in Pendings \cup {None}
  PROVE  /\ Merged(c, o) \in Enrollments
         /\ Merged(c, o).createdBy = copy[c].createdBy
         /\ Merged(c, o).claims = MergeClaims(copy[c].claims, c)
         /\ Merged(c, o).acknowledged = copy[c].acknowledged \cup (Declared(c) \cap Catalog)
  <1> DEFINE e == copy[c]
             claims == MergeClaims(e.claims, c)
             accepted == e.acknowledged \cup (Declared(c) \cap Catalog)
             required == e.required \ Declared(c)
             pending == IF o = None THEN e.pending ELSE o
             merged == [e EXCEPT !.claims = claims, !.acknowledged = accepted,
                                 !.required = required, !.pending = pending]
  <1>1. Merged(c, o) = merged
    BY DEF Merged, AcceptedDocumentIDs, Enrollments
  <1>2. /\ claims \in [ClaimNames -> Calls \cup {None}]
        /\ accepted \in SUBSET DocumentIDs /\ required \in SUBSET DocumentIDs
        /\ e \in Enrollments
    BY MergeClaimsTyped DEF Enrollments
  <1>3. pending \in Pendings
    BY Zenon DEF Enrollments
  <1> HIDE DEF e, claims, accepted, required, pending
  <1>4. /\ merged \in Enrollments /\ merged.createdBy = e.createdBy
        /\ merged.claims = claims /\ merged.acknowledged = accepted
    BY <1>2, <1>3 DEF Enrollments
  <1> QED
    BY <1>1, <1>4 DEF e, claims, accepted

LEMMA CreatedTyped ==
  ASSUME NEW c \in Calls, request[c] \in Requests, NEW s \in Statuses
  PROVE  [createdBy |-> c, status |-> s, claims |-> MergeClaims(NoClaims, c),
          acknowledged |-> IF s = "rejected" THEN {} ELSE AcceptedDocumentIDs({}, c),
          required |-> {}, pending |-> "valid"] \in Enrollments
  <1>1. NoClaims \in [ClaimNames -> Calls \cup {None}]
    BY DEF NoClaims
  <1>2. MergeClaims(NoClaims, c) \in [ClaimNames -> Calls \cup {None}]
    BY <1>1, MergeClaimsTyped
  <1>3. AcceptedDocumentIDs({}, c) \in SUBSET DocumentIDs
    BY <1>1, MergeClaimsTyped DEF AcceptedDocumentIDs
  <1> QED
    BY <1>2, <1>3 DEF Enrollments, Pendings

\* What the application changes is not what was enrolled.
LEMMA EditedTyped ==
  ASSUME NEW e \in Enrollments, NEW e2 \in Edited(e)
  PROVE  /\ e2 \in Enrollments /\ e2.createdBy = e.createdBy
         /\ e2.claims = e.claims /\ e2.acknowledged = e.acknowledged
  BY RequiredAssumption DEF Edited, Enrollments

-----------------------------------------------------------------------------
(* Steps.                                                                   *)

LEMMA ReturnIsQuiet ==
  ASSUME TypeOK, NEW c \in Calls, NEW from \in Locations \ {"idle", "returned"},
         NEW how \in Answers \ Saved, Return(c, from, how), UNCHANGED <<record, request, before>>
  PROVE  Quiet
  BY DEF TypeOK, Locations, Return, GoTo, Quiet, Holding

LEMMA MoveIsQuiet ==
  ASSUME TypeOK, NEW c \in Calls, NEW from \in Locations \ {"idle", "returned"},
         NEW to \in Locations \ (Holding \cup {"idle"}), GoTo(c, from, to),
         UNCHANGED <<record, request, copy, answer, before>>
  PROVE  Quiet
  BY DEF TypeOK, Locations, GoTo, Quiet, Holding

\* What an edit does to the variables.
LEMMA OpeningShape ==
  ASSUME TypeOK, NEW e \in Edits, ReadRecord(e)
  PROVE  /\ e \notin Calls /\ record \in Enrollments /\ UNCHANGED <<record, request, answer>>
         /\ pc[e] = "idle" /\ pc'[e] = "editing" /\ copy'[e] = record
         /\ before'[e] = {q \in Processes : pc[q] = "returned"}
         /\ \A p \in Processes : p # e => /\ pc'[p] = pc[p] /\ copy'[p] = copy[p]
                                        /\ before'[p] = before[p]
  BY EditsAssumption DEF TypeOK, ReadRecord, Begun, GoTo

LEMMA ClosingShape ==
  ASSUME TypeOK, PlaceInv, NEW e \in Edits, SaveRecord(e)
  PROVE  /\ e \notin Calls /\ pc[e] = "editing" /\ pc'[e] = "returned"
         /\ copy[e] \in Enrollments /\ record \in Enrollments /\ record' \in Enrollments
         /\ copy[e].createdBy = record.createdBy
         /\ record'.createdBy = copy[e].createdBy /\ record'.claims = copy[e].claims
         /\ record'.acknowledged = copy[e].acknowledged
         /\ UNCHANGED <<request, answer, before>>
         /\ \A p \in Processes : p # e => pc'[p] = pc[p] /\ copy'[p] = copy[p]
  <1>1. /\ e \notin Calls /\ pc[e] = "editing" /\ pc'[e] = "returned"
        /\ record' \in Edited(copy[e]) /\ UNCHANGED <<request, answer, before>>
        /\ \A p \in Processes : p # e => pc'[p] = pc[p] /\ copy'[p] = copy[p]
    BY EditsAssumption DEF TypeOK, SaveRecord, GoTo
  <1>2. /\ copy[e] \in Enrollments /\ record \in Enrollments
        /\ copy[e].createdBy = record.createdBy
    BY <1>1 DEF PlaceInv, Holding
  <1> QED
    BY <1>1, <1>2, EditedTyped

LEMMA StepShape ==
  ASSUME TypeOK, [Next]_vars
  PROVE  Making \/ Reading \/ Merging \/ Saving \/ Creating \/ Opening \/ Closing \/ Quiet
  <1>1. CASE UNCHANGED vars
    BY <1>1 DEF vars, Quiet
  <1>2. ASSUME NEW e \in Edits, EditStep(e)
        PROVE  Opening \/ Closing \/ Quiet
    <2>1. CASE AbandonRecord(e)
      BY <2>1 DEF AbandonRecord, GoTo, TypeOK, Quiet, Holding
    <2> QED
      BY <1>2, <2>1 DEF EditStep, Opening, Closing
  <1>3. ASSUME NEW c \in Calls, CallStep(c)
        PROVE  Making \/ Reading \/ Merging \/ Saving \/ Creating \/ Opening \/ Closing \/ Quiet
    <2>1. ASSUME NEW from \in {"finding", "updating", "saving", "creating", "waiting", "deciding"},
                 NEW how \in {"kept", "found", "rejected", "unmet", "error"},
                 Return(c, from, how), UNCHANGED <<record, request, before>>
          PROVE  Quiet
      BY <2>1, ReturnIsQuiet DEF Locations, Answers, Saved, Stored
    <2>2. ASSUME NEW from \in {"creating", "waiting", "deciding"},
                 NEW to \in {"creating", "waiting", "deciding", "panicked"},
                 GoTo(c, from, to), UNCHANGED <<record, request, copy, answer, before>>
          PROVE  Quiet
      BY <2>2, MoveIsQuiet DEF Locations, Holding
    <2>3. CASE \E r \in RequestsOf[c] : Enroll(c, r)
      BY <2>3 DEF Making
    <2>4. CASE FindEnrollment(c)
      BY <2>4 DEF Reading
    <2>5. CASE UpdateRejected(c) \/ UpdateDeclined(c) \/ UpdateUnmet(c)
      BY <2>5, <2>1 DEF UpdateRejected, UpdateDeclined, UpdateUnmet, Reported
    <2>6. CASE \E o \in Pendings \cup {None} : MergeEnrollment(c, o)
      BY <2>6 DEF Merging
    <2>7. CASE SaveEnrollment(c)
      BY <2>7 DEF Saving
    <2>8. CASE UpdateFails(c) \/ FindCreated(c)
      BY <2>8, <2>1 DEF UpdateFails, FindCreated, Reported
    <2>9. CASE AwaitCreator(c) \/ ClaimCreation(c) \/ Wake(c) \/ CreatePanics(c)
      BY <2>9, <2>2 DEF AwaitCreator, ClaimCreation, Wake, CreatePanics
    <2>10. CASE \E s \in DecisionStatuses : CreateEnrollment(c, s)
      BY <2>10 DEF Creating
    <2>11. CASE CreateUnmet(c) \/ CreateFails(c)
      BY <2>11, <2>1 DEF CreateUnmet, CreateFails
    <2>12. CASE ContextEnds(c)
      <3>1. PICK from \in {"finding", "creating", "waiting"} : Return(c, from, "error")
        BY <2>12 DEF ContextEnds
      <3> QED
        BY <3>1, <2>12, <2>1 DEF ContextEnds
    <2> QED
      BY <1>3, <2>3, <2>4, <2>5, <2>6, <2>7, <2>8, <2>9, <2>10, <2>11, <2>12
         DEF CallStep, Progress
  <1> QED
    BY <1>1, <1>2, <1>3 DEF Next

-----------------------------------------------------------------------------
(* Places.                                                                  *)

LEMMA TypeStep ==
  ASSUME TypeOK, PlaceInv, CreatorInv, [Next]_vars
  PROVE  TypeOK' /\ CreatorInv'
  <1> DEFINE Others == UNCHANGED <<record, request, before>>
  <1>1. CASE UNCHANGED vars
    BY <1>1 DEF vars, TypeOK, CreatorInv
  <1>2. ASSUME NEW e \in Edits, EditStep(e)
        PROVE  TypeOK' /\ CreatorInv'
    <2>1. CASE ReadRecord(e)
      BY <2>1, EditsAssumption DEF ReadRecord, Begun, GoTo, TypeOK, CreatorInv, Locations
    <2>2. CASE SaveRecord(e)
      <3>1. record' \in Enrollments
        BY <2>2, EditedTyped DEF SaveRecord, GoTo, PlaceInv, Holding
      <3> QED
        BY <2>2, <3>1, EditsAssumption DEF SaveRecord, GoTo, TypeOK, CreatorInv, Locations
    <2>3. CASE AbandonRecord(e)
      BY <2>3, EditsAssumption DEF AbandonRecord, GoTo, TypeOK, CreatorInv, Locations
    <2> QED
      BY <1>2, <2>1, <2>2, <2>3 DEF EditStep
  <1>3. ASSUME NEW c \in Calls, CallStep(c)
        PROVE  TypeOK' /\ CreatorInv'
    <2>1. ASSUME NEW from \in Locations, NEW how \in Answers,
                 Return(c, from, how), UNCHANGED <<request, before>>,
                 record' \in Enrollments \cup {None}, creating' \in Calls \cup {None}
          PROVE  TypeOK'
      BY <2>1 DEF Return, GoTo, TypeOK, Locations
    <2>2. ASSUME NEW from \in Locations, NEW how \in Answers,
                 Return(c, from, how), UNCHANGED <<record, creating, request, before>>
          PROVE  TypeOK' /\ CreatorInv'
      BY <2>1, <2>2 DEF Return, GoTo, TypeOK, CreatorInv, Locations
    <2>3. ASSUME NEW from \in Locations, NEW to \in Locations,
                 GoTo(c, from, to), UNCHANGED <<record, request, copy, answer, before>>,
                 \/ creating' = creating /\ to # "deciding" /\ (to = "panicked" => from = "deciding")
                 \/ creating' = c /\ creating = None /\ record = None
          PROVE  TypeOK' /\ CreatorInv'
      BY <2>3, NoneAssumption DEF GoTo, TypeOK, CreatorInv, Locations
    <2>4. CASE \E r \in RequestsOf[c] : Enroll(c, r)
      <3>1. PICK r \in RequestsOf[c] : Enroll(c, r)
        BY <2>4
      <3>2. r \in Requests
        BY RequestsAssumption
      <3> QED
        BY <3>1, <3>2 DEF Enroll, Begun, GoTo, TypeOK, CreatorInv, Locations
    <2>5. CASE FindEnrollment(c)
      BY <2>5 DEF FindEnrollment, GoTo, TypeOK, CreatorInv, Locations
    <2>6. CASE \E o \in Pendings \cup {None} : MergeEnrollment(c, o)
      <3>1. PICK o \in Pendings \cup {None} : MergeEnrollment(c, o)
        BY <2>6
      <3>2. Merged(c, o) \in Enrollments
        BY <3>1, MergedTyped DEF MergeEnrollment, GoTo, PlaceInv, Holding
      <3> QED
        BY <3>1, <3>2 DEF MergeEnrollment, GoTo, TypeOK, CreatorInv, Locations
    <2>7. CASE SaveEnrollment(c)
      <3>1. TypeOK'
        BY <2>7, <2>1 DEF SaveEnrollment, Reported, TypeOK, Locations, Answers, Saved, Stored
      <3> QED
        BY <3>1, <2>7 DEF SaveEnrollment, Return, GoTo, TypeOK, CreatorInv
    <2>8. CASE \E s \in DecisionStatuses : CreateEnrollment(c, s)
      <3>1. PICK s \in DecisionStatuses : CreateEnrollment(c, s)
        BY <2>8
      <3>2. request[c] \in Requests /\ s \in Statuses
        BY <3>1 DEF CreateEnrollment, Return, GoTo, PlaceInv, DecisionStatuses
      <3>3. record' \in Enrollments
        BY <3>1, <3>2, CreatedTyped DEF CreateEnrollment
      <3>4. creating' = None /\ creating = c /\ UNCHANGED <<request, before>>
        BY <3>1 DEF CreateEnrollment, Return, GoTo, CreatorInv
      <3>5. PICK how \in Answers : Return(c, "deciding", how)
        BY <3>1 DEF CreateEnrollment, Answers, Saved, Stored
      <3>6. TypeOK'
        BY <3>3, <3>4, <3>5, <2>1 DEF Locations
      <3> QED
        BY <3>4, <3>5, <3>6, NoneAssumption DEF Return, GoTo, TypeOK, CreatorInv
    <2>9. CASE CreateUnmet(c) \/ CreateFails(c)
      <3>1. PICK how \in Answers : Return(c, "deciding", how)
        BY <2>9 DEF CreateUnmet, CreateFails, Answers
      <3>2. TypeOK'
        BY <2>9, <3>1, <2>1 DEF CreateUnmet, CreateFails, TypeOK, Locations
      <3>3. creating' = None /\ creating = c /\ record' = record
        BY <2>9 DEF CreateUnmet, CreateFails, Return, GoTo, CreatorInv
      <3> QED
        BY <3>1, <3>2, <3>3, NoneAssumption DEF Return, GoTo, TypeOK, CreatorInv
    <2>10. CASE UpdateRejected(c) \/ UpdateDeclined(c) \/ UpdateUnmet(c) \/ UpdateFails(c)
                \/ FindCreated(c)
      BY <2>10, <2>2
         DEF UpdateRejected, UpdateDeclined, UpdateUnmet, UpdateFails, FindCreated, Reported, Locations,
             Answers
    <2>11. CASE AwaitCreator(c) \/ ClaimCreation(c) \/ Wake(c) \/ CreatePanics(c)
      BY <2>11, <2>3 DEF AwaitCreator, ClaimCreation, Wake, CreatePanics, Locations
    <2>12. CASE ContextEnds(c)
      <3>1. PICK from \in {"finding", "creating", "waiting"} : Return(c, from, "error")
        BY <2>12 DEF ContextEnds
      <3> QED
        BY <3>1, <2>12, <2>2 DEF ContextEnds, Locations, Answers
    <2> QED
      BY <1>3, <2>4, <2>5, <2>6, <2>7, <2>8, <2>9, <2>10, <2>11, <2>12 DEF CallStep, Progress
  <1> QED
    BY <1>1, <1>2, <1>3 DEF Next

LEMMA PlaceStep ==
  ASSUME Placed, [Next]_vars
  PROVE  PlaceInv'
  <1> USE DEF Placed
  <1>1. TypeOK /\ TypeOK' /\ PlaceInv
    BY TypeStep
  <1>2. CASE Making
    <2>0. PICK c \in Calls : \E r \in RequestsOf[c] : Enroll(c, r)
      BY <1>2 DEF Making
    <2>1. PICK r \in RequestsOf[c] : Enroll(c, r)
      BY <2>0
    <2>2. r \in Requests
      BY RequestsAssumption
    <2>3. /\ pc[c] = "idle" /\ pc' = [pc EXCEPT ![c] = "finding"]
          /\ request' = [request EXCEPT ![c] = r]
          /\ before' = [before EXCEPT ![c] = {q \in Processes : pc[q] = "returned"}]
          /\ UNCHANGED <<record, creating, copy, answer>>
      BY <2>1 DEF Enroll, Begun, GoTo
    <2>4. \A p \in Processes : before'[p] = before[p] \/ \A q \in before'[p] : pc[q] = "returned"
      BY <1>1, <2>3 DEF TypeOK
    <2>5. \A p, q \in Processes : q \in before'[p] => pc'[q] = "returned"
      BY <1>1, <2>3, <2>4 DEF PlaceInv, TypeOK
    <2>6. \A p \in Processes : before'[p] \subseteq Processes
      BY <1>1 DEF TypeOK
    <2> QED
      BY <1>1, <2>2, <2>3, <2>5, <2>6 DEF PlaceInv, Holding, TypeOK
  <1>3. CASE Reading
    BY <1>1, <1>3 DEF Reading, FindEnrollment, GoTo, PlaceInv, Holding, TypeOK
  <1>4. CASE Merging
    <2>1. PICK c \in Calls, o \in Pendings \cup {None} : MergeEnrollment(c, o)
      BY <1>4 DEF Merging
    <2>2. Merged(c, o) \in Enrollments /\ Merged(c, o).createdBy = copy[c].createdBy
      BY <1>1, <2>1, MergedTyped DEF MergeEnrollment, GoTo, PlaceInv, Holding
    <2> QED
      BY <1>1, <2>1, <2>2 DEF MergeEnrollment, GoTo, PlaceInv, Holding, TypeOK
  <1>5. CASE Saving
    BY <1>1, <1>5 DEF Saving, SaveEnrollment, Return, GoTo, PlaceInv, Holding, TypeOK
  <1>6. CASE Creating
    <2>1. PICK c \in Calls, s \in DecisionStatuses : CreateEnrollment(c, s)
      BY <1>6 DEF Creating
    <2>2. creating # None /\ record = None
      BY <2>1, NoneAssumption DEF CreateEnrollment, Return, GoTo, CreatorInv
    <2>3. /\ \A p \in Processes : pc[p] \notin Holding
          /\ \A d \in Calls : answer[d] \notin Saved
      BY <1>1, <2>2, NoneAssumption DEF PlaceInv
    <2>4. request[c] \in Requests /\ s \in Statuses
      BY <1>1, <2>1 DEF CreateEnrollment, Return, GoTo, PlaceInv, DecisionStatuses
    <2>5. record' \in Enrollments
      BY <2>1, <2>4, CreatedTyped DEF CreateEnrollment
    <2>6. /\ pc' = [pc EXCEPT ![c] = "returned"] /\ UNCHANGED <<request, before>>
          /\ pc[c] = "deciding"
          /\ \A d \in Calls : d # c => answer'[d] = answer[d]
      BY <2>1, <1>1 DEF CreateEnrollment, Return, GoTo, TypeOK
    <2> QED
      BY <1>1, <2>3, <2>5, <2>6 DEF PlaceInv, Holding, TypeOK
  <1>7. CASE Quiet
    BY <1>1, <1>7 DEF Quiet, PlaceInv, TypeOK
  <1>8. CASE Opening
    <2>1. PICK e \in Edits : ReadRecord(e)
      BY <1>8 DEF Opening
    <2>2. \A p \in Processes : \A q \in before'[p] : pc[q] = "returned" /\ q \in Processes
      BY <1>1, <2>1, OpeningShape DEF PlaceInv, TypeOK
    <2> QED
      BY <1>1, <2>1, <2>2, OpeningShape DEF PlaceInv, Holding
  <1>9. CASE Closing
    <2>1. PICK e \in Edits : SaveRecord(e)
      BY <1>9 DEF Closing
    <2>2. \A p \in Processes : before[p] \subseteq Processes
      BY <1>1 DEF TypeOK
    <2> QED
      BY <1>1, <2>1, <2>2, ClosingShape DEF PlaceInv, Holding
  <1> QED
    BY <1>1, <1>2, <1>3, <1>4, <1>5, <1>6, <1>7, <1>8, <1>9, StepShape

LEMMA PlacedStep == Placed /\ [Next]_vars => Placed'
  BY TypeStep, PlaceStep DEF Placed

LEMMA PlacedInit == Init => Placed
  BY NoneAssumption DEF Init, Placed, TypeOK, PlaceInv, CreatorInv, Locations, Holding, Answers

\* Nothing takes an enrollment away or gives it another identity.
LEMMA PermanentStep ==
  ASSUME Placed, [Next]_vars, record # None
  PROVE  record' # None /\ record'.createdBy = record.createdBy
  <1>1. TypeOK /\ PlaceInv /\ CreatorInv /\ record \in Enrollments
    BY DEF Placed, TypeOK
  <1>2. CASE Making \/ Reading \/ Merging
    BY <1>2 DEF Making, Enroll, Reading, FindEnrollment, Merging, MergeEnrollment
  <1>3. CASE Saving
    <2>1. PICK c \in Calls : SaveEnrollment(c)
      BY <1>3 DEF Saving
    <2>2. pc[c] \in Holding /\ record' = copy[c]
      BY <2>1 DEF SaveEnrollment, Return, GoTo, Holding
    <2> QED
      BY <1>1, <2>2, NoneAssumption DEF PlaceInv
  <1>4. CASE Creating
    BY <1>1, <1>4, NoneAssumption DEF Creating, CreateEnrollment, Return, GoTo, CreatorInv
  <1>5. CASE Quiet
    BY <1>1, <1>5, NoneAssumption DEF Quiet
  <1>6. CASE Opening \/ Closing
    BY <1>1, <1>6, OpeningShape, ClosingShape, NoneAssumption DEF Opening, Closing
  <1> QED
    BY <1>1, <1>2, <1>3, <1>4, <1>5, <1>6, StepShape

-----------------------------------------------------------------------------
(* Required claims.                                                         *)

LEMMA CompleteStep ==
  ASSUME Placed, Placed', CompleteInv, [Next]_vars
  PROVE  CompleteInv'
  <1>1. TypeOK /\ PlaceInv /\ CreatorInv /\ TypeOK' /\ PlaceInv'
    BY DEF Placed
  <1>2. CASE Making
    BY <1>1, <1>2 DEF Making, Enroll, GoTo, CompleteInv, Complete, Supplied, Holding, TypeOK
  <1>3. CASE Reading
    BY <1>1, <1>3
       DEF Reading, FindEnrollment, GoTo, CompleteInv, Complete, Supplied, Holding, TypeOK
  <1>4. CASE Merging
    <2>1. PICK c \in Calls, o \in Pendings \cup {None} : MergeEnrollment(c, o)
      BY <1>4 DEF Merging
    <2>2. copy'[c].claims = MergeClaims(copy[c].claims, c)
      BY <1>1, <2>1, MergedTyped DEF MergeEnrollment, GoTo, PlaceInv, Holding, TypeOK
    <2>3. Complete(copy[c])'
      BY <2>1, <2>2 DEF MergeEnrollment, MergeAllowed, RequirementsMet, Complete, Supplied
    <2>4. /\ record' = record
          /\ \A p \in Processes : p # c => pc'[p] = pc[p] /\ copy'[p] = copy[p]
      BY <1>1, <2>1 DEF MergeEnrollment, GoTo, TypeOK
    <2> QED
      BY <2>3, <2>4 DEF CompleteInv, Complete, Supplied
  <1>5. CASE Saving
    <2>1. PICK c \in Calls : SaveEnrollment(c)
      BY <1>5 DEF Saving
    <2>2. /\ record' = copy[c] /\ pc[c] \in Holding /\ pc'[c] \notin Holding
          /\ \A p \in Processes : p # c => pc'[p] = pc[p] /\ copy'[p] = copy[p]
      BY <1>1, <2>1 DEF SaveEnrollment, Return, GoTo, Holding, TypeOK
    <2> QED
      BY <2>2 DEF CompleteInv, Complete, Supplied
  <1>6. CASE Creating
    <2>1. PICK c \in Calls, s \in DecisionStatuses : CreateEnrollment(c, s)
      BY <1>6 DEF Creating
    <2>2. record'.claims = MergeClaims(NoClaims, c)
      BY <2>1 DEF CreateEnrollment
    <2>3. Complete(record)'
      BY <2>1, <2>2 DEF CreateEnrollment, RequirementsMet, Complete, Supplied
    <2>4. /\ pc'[c] \notin Holding
          /\ \A p \in Processes : p # c => pc'[p] = pc[p] /\ copy'[p] = copy[p]
      BY <1>1, <2>1 DEF CreateEnrollment, Return, GoTo, Holding, TypeOK
    <2> QED
      BY <2>3, <2>4 DEF CompleteInv, Complete, Supplied
  <1>7. CASE Quiet
    BY <1>7, NoneAssumption DEF Quiet, CompleteInv, Complete, Supplied
  <1>8. CASE Opening
    BY <1>1, <1>8, OpeningShape, NoneAssumption
       DEF Opening, CompleteInv, Complete, Supplied, Holding
  <1>9. CASE Closing
    BY <1>1, <1>9, ClosingShape DEF Closing, CompleteInv, Complete, Supplied, Holding
  <1> QED
    BY <1>1, <1>2, <1>3, <1>4, <1>5, <1>6, <1>7, <1>8, <1>9, StepShape

-----------------------------------------------------------------------------
(* What is stored was let in.                                               *)

LEMMA BackedPersists ==
  ASSUME NEW e \in Enrollments, NEW e2 \in Enrollments,
         NEW extra \in SUBSET Calls, NEW extra2 \in SUBSET Calls,
         NEW req, NEW req2, NEW ans, NEW ans2,
         BackedBy(e, extra, req, ans),
         e2.claims = e.claims, e2.acknowledged = e.acknowledged,
         \A c \in Calls : ans[c] \in Saved => req2[c] = req[c] /\ ans2[c] = ans[c],
         \A c \in extra : req2[c] = req[c] /\ (c \in extra2 \/ ans2[c] \in Saved \ {"denied"})
  PROVE  BackedBy(e2, extra2, req2, ans2)
  <1>1. \A n \in Supplied(e2.claims) : e.claims[n] \in Calls /\ n \in Supplied(e.claims)
    BY DEF Supplied, Enrollments
  <1>2. \A n \in Supplied(e2.claims) :
          /\ n \in req2[e2.claims[n]].claims
          /\ ans2[e2.claims[n]] \in Saved \/ e2.claims[n] \in extra2
    BY <1>1 DEF BackedBy, Saved, Stored
  <1>3. ASSUME NEW d \in e2.acknowledged
        PROVE  \E c \in Calls : /\ d \in DeclaredIn(req2, c)
                                /\ ans2[c] \in Saved \ {"denied"} \/ c \in extra2
    <2>1. PICK c \in Calls : d \in DeclaredIn(req, c) /\ (ans[c] \in Saved \ {"denied"} \/ c \in extra)
      BY <1>3 DEF BackedBy
    <2> QED
      BY <2>1 DEF DeclaredIn, Saved, Stored
  <1> QED
    BY <1>2, <1>3 DEF BackedBy

LEMMA BackedMerge ==
  ASSUME NEW c \in Calls, NEW e \in Enrollments, NEW e2 \in Enrollments, request[c] \in Requests,
         Backed(e, {}), e2.claims = MergeClaims(e.claims, c),
         e2.acknowledged \subseteq e.acknowledged \cup Declared(c)
  PROVE  Backed(e2, {c})
  <1>1. e.claims \in [ClaimNames -> Calls \cup {None}]
    BY DEF Enrollments
  <1>2. \A n \in ClaimNames :
          e2.claims[n] = IF n \in request[c].claims THEN c ELSE e.claims[n]
    BY <1>1, MergeClaimsTyped
  <1>3. DeclaredIn(request, c) = Declared(c)
    BY DEF DeclaredIn, Declared
  <1> QED
    BY <1>2, <1>3 DEF Backed, BackedBy, Supplied

LEMMA BackedStep ==
  ASSUME Placed, Placed', BackedInv, [Next]_vars
  PROVE  BackedInv'
  <1>1. TypeOK /\ PlaceInv /\ CreatorInv /\ TypeOK' /\ PlaceInv'
    BY DEF Placed
  <1>2. \A c \in Calls : answer[c] \in Saved => request'[c] = request[c] /\ answer'[c] = answer[c]
    <2>1. CASE Making
      BY <1>1, <2>1 DEF Making, Enroll, GoTo, PlaceInv, TypeOK
    <2>2. CASE Reading \/ Merging \/ Opening \/ Closing
      BY <2>2 DEF Reading, FindEnrollment, Merging, MergeEnrollment, Opening, ReadRecord,
                  Closing, SaveRecord
    <2>3. CASE Saving \/ Creating
      BY <1>1, <2>3 DEF Saving, SaveEnrollment, Creating, CreateEnrollment, Return, GoTo, PlaceInv, TypeOK
    <2>4. CASE Quiet
      BY <1>1, <2>4 DEF Quiet, PlaceInv
    <2> QED
      BY <1>1, <2>1, <2>2, <2>3, <2>4, StepShape
  <1>3. ASSUME NEW e \in Enrollments, NEW e2 \in Enrollments, Backed(e, {}),
               e2.claims = e.claims, e2.acknowledged = e.acknowledged
        PROVE  BackedBy(e2, {}, request', answer')
    <2>1. BackedBy(e, {}, request, answer)
      BY <1>3 DEF Backed
    <2> QED
      BY <1>2, <1>3, <2>1, BackedPersists
  <1>4. ASSUME NEW c \in Calls, NEW e \in Enrollments, NEW extra \in {{}, {c}},
               Backed(e, {c}), request'[c] = request[c], extra = {c} \/ answer'[c] \in Saved \ {"denied"}
        PROVE  BackedBy(e, extra, request', answer')
    <2>1. BackedBy(e, {c}, request, answer)
      BY <1>4 DEF Backed
    <2> QED
      BY <1>2, <1>4, <2>1, BackedPersists
  <1>5. /\ \A p \in Processes :
             /\ pc'[p] \in {"updating", "editing"} /\ pc'[p] = pc[p] /\ copy'[p] = copy[p]
             => BackedBy(copy'[p], {}, request', answer')
        /\ \A c \in Calls :
             /\ pc'[c] = "saving" /\ pc'[c] = pc[c] /\ copy'[c] = copy[c]
             /\ request'[c] = request[c]
             => BackedBy(copy'[c], {c}, request', answer')
    BY <1>1, <1>3, <1>4 DEF BackedInv, PlaceInv, Holding
  <1>6. CASE Making
    <2>1. PICK c \in Calls : \E r \in RequestsOf[c] : Enroll(c, r)
      BY <1>6 DEF Making
    <2>2. /\ record' = record
          /\ pc'[c] = "finding"
          /\ \A p \in Processes : p # c => pc'[p] = pc[p] /\ copy'[p] = copy[p]
          /\ \A d \in Calls : d # c => request'[d] = request[d]
      BY <1>1, <2>1 DEF Enroll, GoTo, TypeOK
    <2>3. record' # None => BackedBy(record', {}, request', answer')
      BY <1>1, <1>3, <2>2 DEF BackedInv, TypeOK
    <2> QED
      BY <1>5, <2>2, <2>3 DEF BackedInv, Backed, Holding
  <1>7. CASE Reading
    <2>1. PICK c \in Calls : FindEnrollment(c)
      BY <1>7 DEF Reading
    <2>2. /\ record' = record /\ request' = request
          /\ pc'[c] = "updating" => record # None /\ copy'[c] = record
          /\ pc'[c] \notin {"saving", "editing"}
          /\ \A p \in Processes : p # c => pc'[p] = pc[p] /\ copy'[p] = copy[p]
      BY <1>1, <2>1 DEF FindEnrollment, GoTo, TypeOK
    <2>3. record' # None => BackedBy(record', {}, request', answer')
      BY <1>1, <1>3, <2>2 DEF BackedInv, TypeOK
    <2> QED
      BY <1>5, <2>2, <2>3 DEF BackedInv, Backed, Holding
  <1>8. CASE Merging
    <2>1. PICK c \in Calls, o \in Pendings \cup {None} : MergeEnrollment(c, o)
      BY <1>8 DEF Merging
    <2>2. /\ record' = record /\ request' = request /\ answer' = answer
          /\ pc[c] = "updating" /\ pc'[c] = "saving" /\ copy'[c] = Merged(c, o)
          /\ \A p \in Processes : p # c => pc'[p] = pc[p] /\ copy'[p] = copy[p]
      BY <1>1, <2>1 DEF MergeEnrollment, GoTo, TypeOK
    <2>3. copy[c] \in Enrollments /\ request[c] \in Requests /\ Backed(copy[c], {})
      BY <1>1, <2>2 DEF PlaceInv, BackedInv, Holding
    <2>4. Backed(Merged(c, o), {c})
      BY <2>3, MergedTyped, BackedMerge
    <2>5. record' # None => BackedBy(record', {}, request', answer')
      BY <1>1, <1>3, <2>2 DEF BackedInv, TypeOK
    <2> QED
      BY <1>5, <2>2, <2>4, <2>5 DEF BackedInv, Backed, Holding
  <1>9. CASE Saving
    <2>1. PICK c \in Calls : SaveEnrollment(c)
      BY <1>9 DEF Saving
    <2>2. /\ record' = copy[c] /\ request' = request /\ answer'[c] \in {"merged", "unreported"}
          /\ pc[c] = "saving" /\ pc'[c] = "returned"
          /\ \A p \in Processes : p # c => pc'[p] = pc[p] /\ copy'[p] = copy[p]
      BY <1>1, <2>1 DEF SaveEnrollment, Reported, Return, GoTo, TypeOK
    <2>3. BackedBy(record', {}, request', answer')
      BY <1>1, <1>4, <2>2 DEF PlaceInv, BackedInv, Holding, Saved, Stored
    <2> QED
      BY <1>5, <2>2, <2>3 DEF BackedInv, Backed, Holding
  <1>10. CASE Creating
    <2>1. PICK c \in Calls, s \in DecisionStatuses : CreateEnrollment(c, s)
      BY <1>10 DEF Creating
    <2>2. /\ request' = request /\ answer'[c] \in {"created", "denied"}
          /\ record'.claims = MergeClaims(NoClaims, c)
          /\ \/ answer'[c] = "created" /\ record'.acknowledged = Declared(c) \cap Catalog
             \/ record'.acknowledged = {}
      BY <1>1, <2>1
         DEF CreateEnrollment, Return, GoTo, AcceptedDocumentIDs, TypeOK
    <2>3. \A n \in ClaimNames :
            record'.claims[n] = IF n \in request[c].claims THEN c ELSE None
      BY <2>2 DEF MergeClaims, NoClaims
    <2>4. BackedBy(record', {}, request', answer')
      BY <2>2, <2>3 DEF BackedBy, DeclaredIn, Declared, Supplied, Saved, Stored
    <2>5. \A p \in Processes : pc'[p] \notin Holding
      BY <1>1, <2>1, NoneAssumption
         DEF CreateEnrollment, Return, GoTo, PlaceInv, CreatorInv, Holding, TypeOK
    <2> QED
      BY <2>4, <2>5 DEF BackedInv, Backed, Holding
  <1>11. CASE Quiet
    <2>1. record' # None => BackedBy(record', {}, request', answer')
      BY <1>1, <1>3, <1>11, NoneAssumption DEF Quiet, BackedInv, TypeOK
    <2>2. \A p \in Processes : pc'[p] \in Holding => pc'[p] = pc[p] /\ copy'[p] = copy[p]
      BY <1>11 DEF Quiet
    <2>3. request' = request
      BY <1>11 DEF Quiet
    <2> QED
      BY <1>5, <2>1, <2>2, <2>3 DEF BackedInv, Backed, Holding
  <1>12. CASE Opening
    <2>1. PICK e \in Edits : ReadRecord(e)
      BY <1>12 DEF Opening
    <2>2. Backed(record, {}) /\ record \in Enrollments
      BY <1>1, <2>1, OpeningShape, NoneAssumption DEF BackedInv
    <2>3. BackedBy(record, {}, request', answer')
      BY <1>3, <2>2
    <2> QED
      BY <1>1, <1>5, <2>1, <2>3, OpeningShape DEF BackedInv, Backed
  <1>13. CASE Closing
    <2>1. PICK e \in Edits : SaveRecord(e)
      BY <1>13 DEF Closing
    <2>2. Backed(copy[e], {})
      BY <1>1, <2>1, ClosingShape DEF BackedInv
    <2>3. BackedBy(record', {}, request', answer')
      BY <1>1, <1>3, <2>1, <2>2, ClosingShape
    <2> QED
      BY <1>1, <1>5, <2>1, <2>3, ClosingShape DEF BackedInv, Backed
  <1> QED
    BY <1>1, <1>6, <1>7, <1>8, <1>9, <1>10, <1>11, <1>12, <1>13, StepShape

-----------------------------------------------------------------------------
(* A solo Enroll is durable.                                                *)

LEMMA HoldsNow ==
  ASSUME NEW c \in Calls, NEW e
  PROVE  /\ Holds(e, c) = HoldsBy(e, c, request, answer, before)
         /\ Solo(c) = SoloBy(c, pc, before)
  BY DEF Holds, HoldsBy, DeclaredIn, Declared, Solo, SoloBy

LEMMA HoldsNext ==
  /\ SoloInv' =
       (/\ \A c \in Calls : pc'[c] = "saving" => Own(c)'
        /\ \A c \in Calls : answer'[c] \in Saved /\ SoloBy(c, pc', before') =>
             /\ HoldsBy(record', c, request', answer', before')
             /\ \A p \in Processes : pc'[p] \in Holding =>
                  HoldsBy(copy'[p], c, request', answer', before'))
  BY DEF SoloInv, Holds, HoldsBy, DeclaredIn, Declared, Solo, SoloBy

\* An answered call stays as it is, and no step makes it solo.
LEMMA AnsweredStays ==
  ASSUME Placed, [Next]_vars, NEW c \in Calls, answer[c] \in Saved
  PROVE  /\ answer'[c] = answer[c] /\ request'[c] = request[c]
         /\ \A p \in Processes : c \in before[p] => c \in before'[p]
         /\ SoloBy(c, pc', before') => SoloBy(c, pc, before)
  <1>1. TypeOK /\ PlaceInv /\ pc[c] = "returned"
    BY DEF Placed, PlaceInv
  <1>2. CASE Making
    <2>1. PICK e \in Calls : \E r \in RequestsOf[e] : Enroll(e, r)
      BY <1>2 DEF Making
    <2>2. /\ pc[e] = "idle" /\ pc' = [pc EXCEPT ![e] = "finding"] /\ answer' = answer
          /\ before' = [before EXCEPT ![e] = {q \in Processes : pc[q] = "returned"}]
          /\ \A d \in Calls : d # e => request'[d] = request[d]
      BY <1>1, <2>1 DEF Enroll, Begun, GoTo, TypeOK
    <2> QED
      BY <1>1, <2>2 DEF SoloBy, TypeOK
  <1>3. CASE Reading \/ Merging \/ Saving \/ Creating
    <2>1. UNCHANGED <<request, before>> /\ answer'[c] = answer[c]
      BY <1>1, <1>3 DEF Reading, FindEnrollment, Merging, MergeEnrollment, Saving, SaveEnrollment,
                        Creating, CreateEnrollment, Return, GoTo, TypeOK
    <2>2. \A p \in Processes : pc'[p] = "idle" => pc[p] = "idle"
      BY <1>1, <1>3 DEF Reading, FindEnrollment, Merging, MergeEnrollment, Saving, SaveEnrollment,
                        Creating, CreateEnrollment, Return, GoTo, TypeOK
    <2> QED
      BY <2>1, <2>2 DEF SoloBy
  <1>4. CASE Quiet
    BY <1>1, <1>4 DEF Quiet, SoloBy
  <1>5. CASE Opening
    <2>1. PICK e \in Edits : ReadRecord(e)
      BY <1>5 DEF Opening
    <2> QED
      BY <1>1, <2>1, OpeningShape DEF SoloBy
  <1>6. CASE Closing
    <2>1. PICK e \in Edits : SaveRecord(e)
      BY <1>6 DEF Closing
    <2>2. \A p \in Processes : pc'[p] = "idle" => pc[p] = "idle"
      BY <1>1, <2>1, ClosingShape
    <2> QED
      BY <1>1, <2>1, <2>2, ClosingShape DEF SoloBy
  <1> QED
    BY <1>1, <1>2, <1>3, <1>4, <1>5, <1>6, StepShape

\* What was held stays held, over unchanged data.
LEMMA HoldsPersists ==
  ASSUME Placed, [Next]_vars, NEW c \in Calls, answer[c] \in Saved,
         NEW e, NEW e2, e2.claims = e.claims, e2.acknowledged = e.acknowledged,
         HoldsBy(e, c, request, answer, before)
  PROVE  HoldsBy(e2, c, request', answer', before')
  BY AnsweredStays DEF HoldsBy, DeclaredIn

\* Once solo, a call is held by the record and by every copy, through every step.
LEMMA SoloStays ==
  ASSUME Placed, Placed', SoloInv, [Next]_vars,
         NEW c \in Calls, answer[c] \in Saved, SoloBy(c, pc', before')
  PROVE  /\ HoldsBy(record', c, request', answer', before')
         /\ \A p \in Processes : pc'[p] \in Holding => HoldsBy(copy'[p], c, request', answer', before')
  <1>1. TypeOK /\ PlaceInv /\ CreatorInv /\ TypeOK' /\ pc[c] = "returned" /\ record \in Enrollments
    BY DEF Placed, PlaceInv
  <1>2. SoloBy(c, pc, before)
    BY AnsweredStays
  <1>3. /\ HoldsBy(record, c, request, answer, before)
        /\ \A p \in Processes : pc[p] \in Holding => HoldsBy(copy[p], c, request, answer, before)
    BY <1>2, HoldsNow DEF SoloInv
  <1>4. /\ HoldsBy(record, c, request', answer', before')
        /\ \A p \in Processes : pc[p] \in Holding => HoldsBy(copy[p], c, request', answer', before')
    BY <1>3, HoldsPersists
  <1>5. CASE Making
    BY <1>1, <1>4, <1>5 DEF Making, Enroll, GoTo, Holding, TypeOK
  <1>6. CASE Reading
    BY <1>1, <1>4, <1>6 DEF Reading, FindEnrollment, GoTo, Holding, TypeOK
  <1>7. CASE Merging
    <2>1. PICK d \in Calls, o \in Pendings \cup {None} : MergeEnrollment(d, o)
      BY <1>7 DEF Merging
    <2>2. /\ pc[d] = "updating" /\ copy'[d] = Merged(d, o) /\ record' = record
          /\ request' = request /\ answer' = answer /\ before' = before
          /\ \A p \in Processes : p # d => pc'[p] = pc[p] /\ copy'[p] = copy[p]
      BY <1>1, <2>1 DEF MergeEnrollment, GoTo, TypeOK
    <2>3. copy[d] \in Enrollments /\ request[d] \in Requests /\ request[c] \in Requests
      BY <1>1, <2>2 DEF PlaceInv, Holding
    <2>4. c \in before[d]
      BY <1>1, <1>2, <2>2 DEF SoloBy, PlaceInv
    <2>5. /\ copy'[d].claims = MergeClaims(copy[d].claims, d)
          /\ copy[d].acknowledged \subseteq copy'[d].acknowledged
      BY <2>2, <2>3, MergedTyped
    <2>6. \A n \in ClaimNames :
            copy'[d].claims[n] = IF n \in request[d].claims THEN d ELSE copy[d].claims[n]
      BY <2>5 DEF MergeClaims
    <2>7. HoldsBy(copy[d], c, request, answer, before)
      BY <1>3, <2>2 DEF Holding
    <2>8. request[c].claims \subseteq ClaimNames
      BY <2>3 DEF Requests
    <2>9. HoldsBy(copy'[d], c, request, answer, before)
      BY <2>4, <2>5, <2>6, <2>7, <2>8 DEF HoldsBy
    <2> QED
      BY <1>3, <2>2, <2>9
  <1>8. CASE Saving
    <2>1. PICK d \in Calls : SaveEnrollment(d)
      BY <1>8 DEF Saving
    <2>2. /\ pc[d] \in Holding /\ pc'[d] \notin Holding /\ record' = copy[d]
          /\ \A p \in Processes : p # d => pc'[p] = pc[p] /\ copy'[p] = copy[p]
      BY <1>1, <2>1 DEF SaveEnrollment, Return, GoTo, Holding, TypeOK
    <2> QED
      BY <1>4, <2>2
  <1>9. CASE Creating
    BY <1>1, <1>9, NoneAssumption DEF Creating, CreateEnrollment, Return, GoTo, CreatorInv
  <1>10. CASE Quiet
    <2>1. HoldsBy(record', c, request', answer', before')
      BY <1>3, <1>10, HoldsPersists DEF Quiet
    <2> QED
      BY <1>4, <1>10, <2>1 DEF Quiet
  <1>11. CASE Opening
    <2>1. PICK e \in Edits : ReadRecord(e)
      BY <1>11 DEF Opening
    <2> QED
      BY <1>1, <1>4, <2>1, OpeningShape
  <1>12. CASE Closing
    <2>1. PICK e \in Edits : SaveRecord(e)
      BY <1>12 DEF Closing
    <2>2. HoldsBy(copy[e], c, request, answer, before)
      BY <1>1, <1>3, <2>1, ClosingShape DEF Holding
    <2>3. HoldsBy(record', c, request', answer', before')
      BY <1>1, <2>1, <2>2, ClosingShape, HoldsPersists
    <2> QED
      BY <1>1, <1>4, <2>1, <2>3, ClosingShape DEF Holding
  <1> QED
    BY <1>1, <1>5, <1>6, <1>7, <1>8, <1>9, <1>10, <1>11, <1>12, StepShape

\* A call that is answered by a step, and is solo, has just stored what it holds,
\* and no other call has a copy.
LEMMA SoloBegins ==
  ASSUME Placed, Placed', SoloInv, [Next]_vars,
         NEW c \in Calls, answer[c] \notin Saved, answer'[c] \in Saved, SoloBy(c, pc', before')
  PROVE  /\ HoldsBy(record', c, request', answer', before')
         /\ \A p \in Processes : pc'[p] \notin Holding
  <1>1. TypeOK /\ PlaceInv /\ CreatorInv /\ TypeOK'
    BY DEF Placed
  <1>2. ~(Making \/ Reading \/ Merging \/ Opening \/ Closing \/ Quiet)
    BY <1>1 DEF Making, Enroll, Reading, FindEnrollment, Merging, MergeEnrollment,
                Opening, ReadRecord, Closing, SaveRecord, Quiet
  <1>3. CASE Saving
    <2>1. PICK d \in Calls : SaveEnrollment(d)
      BY <1>3 DEF Saving
    <2>2. d = c
      BY <1>1, <2>1 DEF SaveEnrollment, Return, GoTo, TypeOK
    <2>3. /\ record' = copy[c] /\ request' = request /\ before' = before /\ answer'[c] # "denied"
          /\ pc[c] = "saving" /\ pc' = [pc EXCEPT ![c] = "returned"]
      BY <1>1, <2>1, <2>2 DEF SaveEnrollment, Reported, Return, GoTo, TypeOK
    <2>4. Own(c)
      BY <2>3 DEF SoloInv
    <2>5. HoldsBy(record', c, request', answer', before')
      BY <2>3, <2>4 DEF HoldsBy, Own, DeclaredIn, Declared
    <2>6. ASSUME NEW d2 \in Processes, pc'[d2] \in Holding
          PROVE  FALSE
      <3>1. d2 # c /\ pc[d2] \in Holding
        BY <1>1, <2>3, <2>6 DEF TypeOK, Holding
      <3>2. d2 \notin before[c] /\ c \notin before[d2]
        BY <1>1, <2>3, <3>1 DEF PlaceInv, Holding
      <3> QED
        BY <2>3, <2>6, <3>1, <3>2 DEF SoloBy, Holding
    <2> QED
      BY <2>5, <2>6
  <1>4. CASE Creating
    <2>1. PICK d \in Calls, s \in DecisionStatuses : CreateEnrollment(d, s)
      BY <1>4 DEF Creating
    <2>2. d = c
      BY <1>1, <2>1 DEF CreateEnrollment, Return, GoTo, TypeOK
    <2>3. /\ request' = request /\ pc[c] = "deciding"
          /\ record'.claims = MergeClaims(NoClaims, c)
          /\ \/ answer'[c] = "denied"
             \/ record'.acknowledged = Declared(c) \cap Catalog
      BY <1>1, <2>1, <2>2
         DEF CreateEnrollment, Return, GoTo, AcceptedDocumentIDs, TypeOK
    <2>4. request[c].claims \subseteq ClaimNames
      BY <1>1, <2>3 DEF PlaceInv, Requests
    <2>5. \A n \in request[c].claims : record'.claims[n] = c
      BY <2>3, <2>4 DEF MergeClaims, NoClaims
    <2>6. HoldsBy(record', c, request', answer', before')
      BY <2>3, <2>5 DEF HoldsBy, DeclaredIn, Declared
    <2>7. \A p \in Processes : pc'[p] \notin Holding
      BY <1>1, <2>1, NoneAssumption
         DEF CreateEnrollment, Return, GoTo, PlaceInv, CreatorInv, Holding, TypeOK
    <2> QED
      BY <2>6, <2>7
  <1> QED
    BY <1>1, <1>2, <1>3, <1>4, StepShape

LEMMA OwnStep ==
  ASSUME Placed, SoloInv, [Next]_vars, NEW c \in Calls, pc'[c] = "saving"
  PROVE  Own(c)'
  <1>1. TypeOK /\ PlaceInv
    BY DEF Placed
  <1>2. CASE Merging
    <2>1. PICK d \in Calls, o \in Pendings \cup {None} : MergeEnrollment(d, o)
      BY <1>2 DEF Merging
    <2>2. CASE d # c
      BY <1>1, <2>1, <2>2 DEF MergeEnrollment, GoTo, TypeOK, SoloInv, Own, Declared
    <2>3. CASE d = c
      <3>1. pc[c] = "updating" /\ copy'[c] = Merged(c, o) /\ request' = request
        BY <1>1, <2>1, <2>3 DEF MergeEnrollment, GoTo, TypeOK
      <3>2. copy[c] \in Enrollments /\ request[c] \in Requests
        BY <1>1, <3>1 DEF PlaceInv, Holding
      <3>3. /\ copy'[c].claims = MergeClaims(copy[c].claims, c)
            /\ Declared(c) \cap Catalog \subseteq copy'[c].acknowledged
        BY <3>1, <3>2, MergedTyped
      <3>4. \A n \in request[c].claims : copy'[c].claims[n] = c
        BY <3>2, <3>3 DEF MergeClaims, Requests
      <3> QED
        BY <3>1, <3>3, <3>4 DEF Own, Declared
    <2> QED
      BY <2>2, <2>3
  <1>3. CASE Making \/ Reading \/ Saving \/ Creating
    BY <1>1, <1>3 DEF Making, Enroll, Reading, FindEnrollment, Saving, SaveEnrollment, Creating,
                      CreateEnrollment, Return, GoTo, TypeOK, SoloInv, Own, Declared
  <1>4. CASE Quiet
    BY <1>1, <1>4 DEF Quiet, Holding, SoloInv, Own, Declared
  <1>5. CASE Opening \/ Closing
    BY <1>1, <1>5, OpeningShape, ClosingShape DEF Opening, Closing, SoloInv, Own, Declared
  <1> QED
    BY <1>1, <1>2, <1>3, <1>4, <1>5, StepShape

LEMMA SoloStep ==
  ASSUME Placed, Placed', SoloInv, [Next]_vars
  PROVE  SoloInv'
  <1>1. \A c \in Calls : pc'[c] = "saving" => Own(c)'
    BY OwnStep
  <1>2. ASSUME NEW c \in Calls, answer'[c] \in Saved, SoloBy(c, pc', before')
        PROVE  /\ HoldsBy(record', c, request', answer', before')
               /\ \A p \in Processes : pc'[p] \in Holding =>
                    HoldsBy(copy'[p], c, request', answer', before')
    <2>1. CASE answer[c] \in Saved
      BY <1>2, <2>1, SoloStays
    <2>2. CASE answer[c] \notin Saved
      BY <1>2, <2>2, SoloBegins
    <2> QED
      BY <2>1, <2>2
  <1> QED
    BY <1>1, <1>2, HoldsNext

-----------------------------------------------------------------------------
LEMMA EnrollInit == Init => EnrollInv
  <1> SUFFICES ASSUME Init PROVE EnrollInv
    OBVIOUS
  <1>1. Placed
    BY PlacedInit
  <1>2. /\ record = None /\ \A c \in Calls : answer[c] \notin Saved
        /\ \A p \in Processes : pc[p] = "idle"
    BY NoneAssumption DEF Init, Answers
  <1> QED
    BY <1>1, <1>2 DEF EnrollInv, CompleteInv, BackedInv, SoloInv, Holding, Init

LEMMA EnrollStep == EnrollInv /\ [Next]_vars => EnrollInv'
  BY PlacedStep, CompleteStep, BackedStep, SoloStep DEF EnrollInv

\* EnrollInvariant.  The invariant that the others are read off.
THEOREM EnrollInvariant == Spec => []EnrollInv
  BY EnrollInit, EnrollStep, PTL DEF Spec

\* EnrollTypeCorrect.  The variables have their types.
THEOREM EnrollTypeCorrect == Spec => []TypeOK
  <1>1. EnrollInv => TypeOK
    BY DEF EnrollInv, Placed
  <1> QED
    BY <1>1, EnrollInvariant, PTL

\* RequirementsAlwaysHold.  However many updates are checked against copies and
\* written over one another, no required claim is ever missing from the record
\* (documents.go:31-39).
THEOREM RequirementsAlwaysHold == Spec => []RequirementsHold
  <1>1. EnrollInv => RequirementsHold
    BY DEF EnrollInv, CompleteInv, Complete, RequirementsHold
  <1> QED
    BY <1>1, EnrollInvariant, PTL

\* OnlyAdmittedIsStored.  Nothing of an Enroll that was rejected, unmet, declined,
\* or that failed before its save is ever part of the record, whatever copies
\* calls and edits write (documents.go:23-38).
THEOREM OnlyAdmittedIsStored == Spec => []StoredWasAdmitted
  <1>1. EnrollInv => StoredWasAdmitted
    BY DEF EnrollInv, BackedInv, Backed, BackedBy, DeclaredIn, Declared, StoredWasAdmitted
  <1> QED
    BY <1>1, EnrollInvariant, PTL

\* SoloEnrollsAreDurable.  What an Enroll stored that no Enroll and no edit
\* overlapped is never lost, however many of both race after it
\* (documents.go:52, stores.go:95-122).
THEOREM SoloEnrollsAreDurable == Spec => []SoloEnrollIsDurable
  <1>1. EnrollInv => SoloEnrollIsDurable
    BY DEF EnrollInv, SoloInv, SoloEnrollIsDurable
  <1> QED
    BY <1>1, EnrollInvariant, PTL

\* EnrollmentsArePermanent.  The record is created once and keeps its identity
\* (stores.go:50-86).
THEOREM EnrollmentsArePermanent == Spec => EnrollmentIsPermanent
  <1>1. EnrollInv /\ [Next]_vars =>
          [record # None => record' # None /\ record'.createdBy = record.createdBy]_vars
    BY PermanentStep DEF EnrollInv
  <1> QED
    BY <1>1, EnrollInvariant, PTL DEF Spec, EnrollmentIsPermanent
=============================================================================
