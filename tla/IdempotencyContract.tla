-------------------------- MODULE IdempotencyContract --------------------------
(***************************************************************************)
(* What an idempotency store promises to the commands that run behind it,  *)
(* with no lock, channel or clock: a slot (one owner's idempotency key) is *)
(* executed by one call at a time, never while a completed response is     *)
(* remembered for it, and a call that does not execute is answered from    *)
(* that memory.  IdempotencyStore implements this specification.           *)
(***************************************************************************)
EXTENDS IdempotencyInput

CONSTANT Calls  \* calls of ExecuteIdempotent; each one is made once

VARIABLES
  asked,       \* asked[c]: the input of call c, or None before the call
  executing,   \* executing[s]: the call running the command of slot s, or None
  memory,      \* memory[s]: the remembered [input, response] of slot s, or None
  answer       \* answer[c]: what call c returned, or None

vars == <<asked, executing, memory, answer>>

\* The response of an execution is named by the call that executed.
Answers == [state : {"created", "replayed", "conflict", "error"}, response : Calls \cup {None}]

Created(c)  == [state |-> "created",  response |-> c]
Replayed(o) == [state |-> "replayed", response |-> o]
Conflict    == [state |-> "conflict", response |-> None]
Failure     == [state |-> "error",    response |-> None]

AnswerFrom(record, input) ==
  IF Matches(record.input, input) THEN Replayed(record.response) ELSE Conflict

TypeOK ==
  /\ asked \in [Calls -> Inputs \cup {None}]
  /\ executing \in [Slots -> Calls \cup {None}]
  /\ memory \in [Slots -> [input : Inputs, response : Calls] \cup {None}]
  /\ answer \in [Calls -> Answers \cup {None}]

Init ==
  /\ asked = [c \in Calls |-> None]
  /\ executing = [s \in Slots |-> None]
  /\ memory = [s \in Slots |-> None]
  /\ answer = [c \in Calls |-> None]

Waiting(c) == asked[c] # None /\ answer[c] = None

Ask(c, i) ==
  /\ asked[c] = None
  /\ asked' = [asked EXCEPT ![c] = i]
  /\ UNCHANGED <<executing, memory, answer>>

\* Only a call whose slot is idle and forgotten may run the command.
Begin(c) ==
  /\ Waiting(c)
  /\ executing[Slot(asked[c])] = None
  /\ memory[Slot(asked[c])] = None
  /\ executing' = [executing EXCEPT ![Slot(asked[c])] = c]
  /\ UNCHANGED <<asked, memory, answer>>

\* A response that has already outlived its retention is not remembered.
Finish(c) ==
  /\ Waiting(c)
  /\ executing[Slot(asked[c])] = c
  /\ executing' = [executing EXCEPT ![Slot(asked[c])] = None]
  /\ memory' \in {memory, [memory EXCEPT ![Slot(asked[c])] = [input |-> asked[c], response |-> c]]}
  /\ answer' = [answer EXCEPT ![c] = Created(c)]
  /\ UNCHANGED asked

\* A failed execution leaves nothing behind, so a retry executes again.
Fail(c) ==
  /\ Waiting(c)
  /\ executing[Slot(asked[c])] = c
  /\ executing' = [executing EXCEPT ![Slot(asked[c])] = None]
  /\ answer' = [answer EXCEPT ![c] = Failure]
  /\ UNCHANGED <<asked, memory>>

Recall(c) ==
  /\ Waiting(c)
  /\ memory[Slot(asked[c])] # None
  /\ answer' = [answer EXCEPT ![c] = AnswerFrom(memory[Slot(asked[c])], asked[c])]
  /\ UNCHANGED <<asked, executing, memory>>

GiveUp(c) ==
  /\ Waiting(c)
  /\ executing[Slot(asked[c])] # c
  /\ answer' = [answer EXCEPT ![c] = Failure]
  /\ UNCHANGED <<asked, executing, memory>>

Forget(slots) ==
  /\ memory' = [s \in Slots |-> IF s \in slots THEN None ELSE memory[s]]
  /\ UNCHANGED <<asked, executing, answer>>

Next ==
  \/ \E c \in Calls :
       \/ \E i \in Inputs : Ask(c, i)
       \/ Begin(c)
       \/ Finish(c)
       \/ Fail(c)
       \/ Recall(c)
       \/ GiveUp(c)
  \/ \E slots \in SUBSET Slots : Forget(slots)

Spec == Init /\ [][Next]_vars
================================================================================
