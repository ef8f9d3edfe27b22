---------------------------- MODULE ServiceEnrollment ----------------------------
(***************************************************************************)
(* Enroll of service/commands.go and updateEnrollment of                   *)
(* service/documents.go over memoryEnrollmentStore of service/stores.go:   *)
(* the record of ONE Agent, which the store keeps under its DID apart from *)
(* all others, and calls of Enroll under distinct idempotency keys (calls  *)
(* under one key are serialised by IdempotencyStore).                      *)
(*                                                                         *)
(* The store's methods are atomic, Enroll is not: it reads the record,     *)
(* asks the policy, and writes the whole record back in a later section.   *)
(* The application has the same two methods: when it changes a status,     *)
(* renews a document requirement or clears a pending list it edits a copy  *)
(* it has read and saves all of it.                                        *)
(***************************************************************************)
EXTENDS Integers, FiniteSets

CONSTANTS
  Calls,           \* Enroll commands of the Agent; each one is made once
  Edits,           \* edits of its record by the application
  ClaimNames,      \* names of claims an Agent can supply
  RequiredClaims,  \* document.claims.required
  DocumentIDs,     \* document identifiers a request can declare
  Catalog,         \* document.service_documents
  RequiredDocuments,  \* ... whose enrollment is "required"
  RequestsOf,      \* RequestsOf[c]: the [claims, acknowledged] c may carry
  Statuses,        \* aep.AgentStatus: active, pending, rejected, suspended, ...
  None

Requests == [claims : SUBSET ClaimNames, acknowledged : (SUBSET DocumentIDs) \cup {None}]

ASSUME RequestsAssumption == RequestsOf \in [Calls -> SUBSET Requests]
ASSUME RequiredAssumption ==
  /\ RequiredClaims \subseteq ClaimNames
  /\ RequiredDocuments \subseteq Catalog
  /\ Catalog \subseteq DocumentIDs

Processes == Calls \cup Edits

VARIABLES
  record,      \* store.records[agent], or None
  creating,    \* store.pending[agent]: the call inside create(), or None
  pc,          \* pc[p]: where call p is in Enroll, or edit p in its own
  request,     \* request[c]: the EnrollRequest of c, None before the call
  copy,        \* copy[p]: the EnrollmentRecord p holds: the one it read, then the one it saves
  answer,      \* answer[c]: how c answered, or None
  before       \* history: the processes that were over when p was begun

vars == <<record, creating, pc, request, copy, answer, before>>

\* validEnrollmentDecisionStatus: what a policy may decide.
DecisionStatuses == Statuses \cap {"active", "pending", "rejected"}

\* A claim's value is named by the call that supplied it, as is the enrollment
\* (EnrollmentID and CreatedAt) by the call that created it.  The decision
\* metadata (owner action, two pending lists) are three fields treated alike;
\* pending stands for them, by whether a response with them is valid: it is not
\* when a pending list has an empty name or the same name twice.
Pendings == {"valid", "invalid"}
Enrollments ==
  [createdBy : Calls, status : Statuses, claims : [ClaimNames -> Calls \cup {None}],
   acknowledged : SUBSET DocumentIDs, required : SUBSET DocumentIDs, pending : Pendings]

Locations == {"idle", "finding", "updating", "saving", "creating", "waiting", "deciding",
              "editing", "returned", "panicked"}

\* 200 with a new record, with a new record of status rejected, with the merged
\* record, an unchanged one, or the one another call created; an error although
\* the merged record is stored; 403; 422; any other error.
Stored == {"created", "denied", "merged"}
Saved == Stored \cup {"unreported"}
Answers == Saved \cup {"kept", "found", "rejected", "unmet", "error"}

ASSUME NoneAssumption == None \notin Calls \cup Answers \cup Pendings /\ None \notin Enrollments
ASSUME EditsAssumption == Calls \cap Edits = {}

TypeOK ==
  /\ record \in Enrollments \cup {None}
  /\ creating \in Calls \cup {None}
  /\ pc \in [Processes -> Locations]
  /\ request \in [Calls -> Requests \cup {None}]
  /\ copy \in [Processes -> Enrollments \cup {None}]
  /\ answer \in [Calls -> Answers \cup {None}]
  /\ before \in [Processes -> SUBSET Processes]

Init ==
  /\ record = None
  /\ creating = None
  /\ pc = [p \in Processes |-> "idle"]
  /\ request = [c \in Calls |-> None]
  /\ copy = [p \in Processes |-> None]
  /\ answer = [c \in Calls |-> None]
  /\ before = [p \in Processes |-> {}]

--------------------------------------------------------------------------------
GoTo(p, from, to) ==
  /\ pc[p] = from
  /\ pc' = [pc EXCEPT ![p] = to]

Return(c, from, how) ==
  /\ GoTo(c, from, "returned")
  /\ answer' = [answer EXCEPT ![c] = how]
  /\ copy' = [copy EXCEPT ![c] = None]

Begun(p) == before' = [before EXCEPT ![p] = {q \in Processes : pc[q] = "returned"}]

\* The response is made from the enrollment and parsed before it is returned.
Reported(enrollment, how, failure) ==
  IF enrollment.pending = "valid" THEN how ELSE failure

NoClaims == [n \in ClaimNames |-> None]

Supplied(claims) == {n \in ClaimNames : claims[n] # None}

\* Fault: the supplied claims replace the stored ones.
ReplaceClaims(claims, c) ==
  [n \in ClaimNames |-> IF n \in request[c].claims THEN c ELSE None]

\* mergeDocumentClaims: a supplied value replaces the stored one of that name.
MergeClaims(claims, c) ==
  [n \in ClaimNames |-> IF n \in request[c].claims THEN c ELSE claims[n]]

\* request.AcknowledgedDocumentIDs, nil read as the empty list.
Declared(c) == IF request[c].acknowledged = None THEN {} ELSE request[c].acknowledged

\* Fault: a declaration is expanded to every document the Service requires.
ExpandedDocumentIDs(existing, c) == existing \cup (Declared(c) \cap Catalog) \cup RequiredDocuments

\* acceptedDocumentIDs: declared identifiers of the catalog are added.
AcceptedDocumentIDs(existing, c) == existing \cup (Declared(c) \cap Catalog)

\* missingDocumentIDs: any declaration, even an empty one, waives the list.
MissingDocuments(acknowledged, required, c) ==
  IF request[c].acknowledged # None THEN {}
  ELSE {d \in RequiredDocuments : d \notin acknowledged \/ d \in required}

\* Fault: a declaration of documents waives the required claims as well.
RequirementsMetOrDeclared(claims, acknowledged, required, c) ==
  \/ request[c].acknowledged # None
  \/ /\ RequiredClaims \subseteq Supplied(claims)
     /\ MissingDocuments(acknowledged, required, c) = {}

RequirementsMet(claims, acknowledged, required, c) ==
  /\ RequiredClaims \subseteq Supplied(claims)
  /\ MissingDocuments(acknowledged, required, c) = {}

--------------------------------------------------------------------------------
\* The Enroll command reaches the closure it runs under its idempotency key.
Enroll(c, r) ==
  /\ GoTo(c, "idle", "finding")
  /\ request' = [request EXCEPT ![c] = r]
  /\ Begun(c)
  /\ UNCHANGED <<record, creating, copy, answer>>

\* store.FindEnrollment returns a copy, or nil.
FindEnrollment(c) ==
  /\ GoTo(c, "finding", IF record = None THEN "creating" ELSE "updating")
  /\ copy' = [copy EXCEPT ![c] = record]
  /\ UNCHANGED <<record, creating, request, answer, before>>

--------------------------------------------------------------------------------
\* Fault: a decision that leaves a field out clears it.
MergedWithNil(c, pending) ==
  [copy[c] EXCEPT
     !.claims = MergeClaims(@, c),
     !.acknowledged = AcceptedDocumentIDs(@, c),
     !.required = @ \ Declared(c),
     !.pending = pending]

\* updateEnrollment: the policy answered, and c goes on with its copy.
Merged(c, pending) ==
  [copy[c] EXCEPT
     !.claims = MergeClaims(@, c),
     !.acknowledged = AcceptedDocumentIDs(@, c),
     !.required = @ \ Declared(c),
     !.pending = IF pending = None THEN @ ELSE pending]

MergeAllowed(c) ==
  RequirementsMet(MergeClaims(copy[c].claims, c), copy[c].acknowledged, copy[c].required, c)

UpdateRejected(c) ==
  /\ Return(c, "updating", "rejected")
  /\ UNCHANGED <<record, creating, request, before>>

\* UpdateExisting points to false.
UpdateDeclined(c) ==
  /\ Return(c, "updating", Reported(copy[c], "kept", "error"))
  /\ UNCHANGED <<record, creating, request, before>>

UpdateUnmet(c) ==
  /\ Return(c, "updating", "unmet")
  /\ ~MergeAllowed(c)
  /\ UNCHANGED <<record, creating, request, before>>

MergeEnrollment(c, pending) ==
  /\ GoTo(c, "updating", "saving")
  /\ MergeAllowed(c)
  /\ copy' = [copy EXCEPT ![c] = Merged(c, pending)]
  /\ UNCHANGED <<record, creating, request, answer, before>>

\* store.SaveEnrollment writes the whole record, whatever is stored by now; the
\* response to it can still turn out to be invalid.
SaveEnrollment(c) ==
  /\ creating = None
  /\ Return(c, "saving", Reported(copy[c], "merged", "unreported"))
  /\ record' = copy[c]
  /\ UNCHANGED <<creating, request, before>>

\* The policy fails or decides a status that is none, or the context ends.
UpdateFails(c) ==
  /\ Return(c, "updating", "error") \/ Return(c, "saving", "error")
  /\ UNCHANGED <<record, creating, request, before>>

--------------------------------------------------------------------------------
\* store.FindOrCreateEnrollment, when a record appeared since FindEnrollment.
FindCreated(c) ==
  /\ record # None
  /\ Return(c, "creating", Reported(record, "found", "error"))
  /\ UNCHANGED <<record, creating, request, before>>

AwaitCreator(c) ==
  /\ record = None
  /\ creating # None
  /\ GoTo(c, "creating", "waiting")
  /\ UNCHANGED <<record, creating, request, copy, answer, before>>

\* Fault: a call does not look for another one inside create().
ClaimUnchecked(c) ==
  /\ record = None
  /\ GoTo(c, "creating", "deciding")
  /\ creating' = c
  /\ UNCHANGED <<record, request, copy, answer, before>>

ClaimCreation(c) ==
  /\ record = None
  /\ creating = None
  /\ GoTo(c, "creating", "deciding")
  /\ creating' = c
  /\ UNCHANGED <<record, request, copy, answer, before>>

\* create() returned a record, from which it made a valid response first: publish
\* it and close the channel.
CreateEnrollment(c, status) ==
  /\ Return(c, "deciding", IF status = "rejected" THEN "denied" ELSE "created")
  /\ RequirementsMet(MergeClaims(NoClaims, c), {}, {}, c)
  /\ record' = [createdBy |-> c, status |-> status, claims |-> MergeClaims(NoClaims, c),
                acknowledged |-> IF status = "rejected" THEN {} ELSE AcceptedDocumentIDs({}, c),
                required |-> {}, pending |-> "valid"]
  /\ creating' = None
  /\ UNCHANGED <<request, before>>

CreateUnmet(c) ==
  /\ Return(c, "deciding", "unmet")
  /\ ~RequirementsMet(MergeClaims(NoClaims, c), {}, {}, c)
  /\ creating' = None
  /\ UNCHANGED <<record, request, before>>

\* Fault: a creator that fails leaves the channel open.
CreateFailsHolding(c) ==
  /\ Return(c, "deciding", "error")
  /\ UNCHANGED <<record, creating, request, before>>

\* The policy or the identifier provider fails, or the response is invalid.
CreateFails(c) ==
  /\ Return(c, "deciding", "error")
  /\ creating' = None
  /\ UNCHANGED <<record, request, before>>

\* The policy panics: nothing is deferred, so the channel stays open for good.
CreatePanics(c) ==
  /\ GoTo(c, "deciding", "panicked")
  /\ UNCHANGED <<record, creating, request, copy, answer, before>>

Wake(c) ==
  /\ creating = None
  /\ GoTo(c, "waiting", "creating")
  /\ UNCHANGED <<record, creating, request, copy, answer, before>>

\* The store checks the context before it looks and while it waits.
ContextEnds(c) ==
  /\ \E from \in {"finding", "creating", "waiting"} : Return(c, from, "error")
  /\ UNCHANGED <<record, creating, request, before>>

--------------------------------------------------------------------------------
\* The application reads the record to change something in it.
ReadRecord(e) ==
  /\ record # None
  /\ GoTo(e, "idle", "editing")
  /\ copy' = [copy EXCEPT ![e] = record]
  /\ Begun(e)
  /\ UNCHANGED <<record, creating, request, answer>>

\* What it changes: the status, the documents to be acknowledged again, or the
\* pending lists, in which it may make the policy's mistakes.
Edited(enrollment) ==
  {[enrollment EXCEPT !.status = s] : s \in Statuses}
    \cup {[enrollment EXCEPT !.required = @ \cup {d}] : d \in RequiredDocuments}
    \cup {[enrollment EXCEPT !.pending = p] : p \in Pendings}

\* store.SaveEnrollment writes its copy, as it does Enroll's.
SaveRecord(e) ==
  /\ creating = None
  /\ GoTo(e, "editing", "returned")
  /\ record' \in Edited(copy[e])
  /\ copy' = [copy EXCEPT ![e] = None]
  /\ UNCHANGED <<creating, request, answer, before>>

\* It fails, or decides that nothing is to be changed.
AbandonRecord(e) ==
  /\ GoTo(e, "editing", "returned")
  /\ copy' = [copy EXCEPT ![e] = None]
  /\ UNCHANGED <<record, creating, request, answer, before>>

Progress(c) ==
  \/ FindEnrollment(c)
  \/ UpdateRejected(c) \/ UpdateDeclined(c) \/ UpdateUnmet(c)
  \/ \E p \in Pendings \cup {None} : MergeEnrollment(c, p)
  \/ SaveEnrollment(c)
  \/ UpdateFails(c)
  \/ FindCreated(c) \/ AwaitCreator(c) \/ ClaimCreation(c)
  \/ \E s \in DecisionStatuses : CreateEnrollment(c, s)
  \/ CreateUnmet(c) \/ CreateFails(c)
  \/ Wake(c)

EditStep(e) == ReadRecord(e) \/ SaveRecord(e) \/ AbandonRecord(e)

CallStep(c) ==
  \/ \E r \in RequestsOf[c] : Enroll(c, r)
  \/ Progress(c)
  \/ CreatePanics(c)
  \/ ContextEnds(c)

Next == (\E c \in Calls : CallStep(c)) \/ (\E e \in Edits : EditStep(e))

\* A command that can run does run; the policy answers.  Nothing obliges an
\* Enroll to be made, a context to end or the application to edit.
Fairness == \A c \in Calls : WF_vars(Progress(c))

Spec == Init /\ [][Next]_vars

FairSpec == Spec /\ Fairness

--------------------------------------------------------------------------------
\* EnrollmentIsPermanent.  Once an Agent is enrolled it stays enrolled, under
\* the EnrollmentID and CreatedAt of the call that created it, however many
\* first Enrolls race and whatever stale copies are written back
\* (stores.go:50-86, documents.go:52, service/README.md:75).
EnrollmentIsPermanent ==
  [][record # None => record' # None /\ record'.createdBy = record.createdBy]_vars

\* RequirementsHold.  A stored enrollment holds every required claim, although
\* each update is checked against a copy and written over a record that may
\* have changed since (documents.go:31-39, commands.go:44-55).
RequirementsHold == record # None => RequiredClaims \subseteq Supplied(record.claims)

\* StoredWasAdmitted.  What is stored was supplied by a call that the policy and
\* the requirements let in and that saved it: an Enroll that was rejected, unmet,
\* declined, beaten to the creation or that failed before its save leaves no
\* claim behind, and a document counts as acknowledged only if a call let in
\* declared it (service/README.md:81, "Omitted declarations do not imply
\* acceptance").  It does not say that such a call was answered with the
\* enrollment: one whose policy gave an invalid pending list is let in, saved and
\* then refused a response (documents.go:52, commands.go:364).
StoredWasAdmitted ==
  record # None =>
    /\ \A n \in Supplied(record.claims) :
         /\ n \in request[record.claims[n]].claims
         /\ answer[record.claims[n]] \in Saved
    /\ \A d \in record.acknowledged :
         \E c \in Calls : answer[c] \in Saved \ {"denied"} /\ d \in Declared(c)

\* Every other Enroll and every edit begun so far was over before c was made, or
\* was begun after c was answered.
Solo(c) ==
  \A p \in Processes \ {c} : pc[p] = "idle" \/ p \in before[c] \/ c \in before[p]

\* What c stored is in an enrollment, or a later Enroll's values took its place.
Holds(enrollment, c) ==
  /\ \A n \in request[c].claims :
       \E d \in Calls : enrollment.claims[n] = d /\ (d = c \/ c \in before[d])
  /\ answer[c] # "denied" => Declared(c) \cap Catalog \subseteq enrollment.acknowledged

\* SoloEnrollIsDurable.  What an Enroll stored while no other Enroll and no edit
\* of the application was under way is not lost to the copies that later ones
\* write over one another: a claim of it gives way only to the value of an Enroll
\* made after it was answered, never to an older one, and its acknowledgements
\* stay (documents.go:52, 65-88, 107-115).  An edit or an Enroll that holds a copy
\* from before does lose it (stores.go:95-122): nothing compares versions.
SoloEnrollIsDurable ==
  \A c \in Calls : answer[c] \in Saved /\ Solo(c) => Holds(record, c)

\* EveryEnrollReturns.  An Enroll is answered, whatever the calls it waits for
\* do, provided no policy panicked inside create(): a creator that fails lets
\* a waiter take over (stores.go:65-86).
EveryEnrollReturns ==
  \A c \in Calls :
    pc[c] = "finding" ~> (pc[c] = "returned" \/ \E d \in Calls : pc[d] = "panicked")

--------------------------------------------------------------------------------
\* StatusIsPreserved.  A repeated Enroll leaves the status alone
\* (service/README.md:75).  The code writes back the status of the copy it read
\* before the policy ran, so a suspension decided in between is undone.
StatusIsPreserved ==
  [][\A c \in Calls : SaveEnrollment(c) => record'.status = record.status]_vars

\* AnsweredEnrollIsMerged.  A successful Enroll whose update the policy did not
\* decline has its claims merged into the record (service/README.md:75).  An
\* Enroll that lost the race to create the record answers 200 without asking
\* the policy and without storing anything of its own.
AnsweredEnrollIsMerged ==
  [][\A c \in Calls :
       answer[c] = None /\ answer'[c] \in Stored \cup {"found"} =>
         \A n \in request[c].claims : record'.claims[n] = c]_vars
================================================================================
