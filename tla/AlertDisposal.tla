--------------------------- MODULE AlertDisposal ---------------------------
(***************************************************************************)
(* An alert that trigger_disposal recorded, and its task, from             *)
(* services/alert_disposal_service.py: the handler asks the agent, reads   *)
(* the row in a new session and writes the proposal, or the failure, into  *)
(* it without looking at its status.  Reviewers act in between             *)
(* (AlertReview), and the task queue may execute the task again            *)
(* (TaskContract).                                                         *)
(***************************************************************************)
CONSTANTS
  Answers, NoAnswer,
  Task,       \* the row's one task (its idempotency key is the row's id)
  Sessions,   \* executions of the handler that may go on at the same time
  Nobody

DisposalAssumption == NoAnswer \notin Answers /\ Nobody \notin Sessions

VARIABLES
  alert, alertDraft, alertTickets,
  phase, holder, executed,
  pc,
  loaded      \* the row as a session has read it

alertVars == <<alert, alertDraft, alertTickets>>
queueVars == <<phase, holder, executed>>
vars == <<alertVars, queueVars, pc, loaded>>

Queue == INSTANCE TaskContract WITH Tasks <- {Task}, Workers <- Sessions, NoWorker <- Nobody
Row   == INSTANCE AlertReview

Stages == {"idle", "asking", "failing", "storing", "recording", "returning",
           "reporting", "raising"}
Views == [alert: Row!AlertStatuses, draft: Answers \cup {NoAnswer}]
Seen  == [alert |-> alert, draft |-> alertDraft]
NoView == [alert |-> "absent", draft |-> NoAnswer]

Init ==
  /\ alert = "absent" /\ alertDraft = NoAnswer /\ alertTickets = {}
  /\ Queue!Init
  /\ pc = [s \in Sessions |-> "idle"]
  /\ loaded = [s \in Sessions |-> NoView]

\* trigger_disposal: the row and its task, in one transaction.
Trigger ==
  /\ alert = "absent"
  /\ alert' = "pending"
  /\ Queue!Admit(Task)
  /\ UNCHANGED <<alertDraft, alertTickets, pc, loaded>>

Goto(s, from, to) ==
  /\ pc[s] = from
  /\ pc' = [pc EXCEPT ![s] = to]

Leave(s) ==
  /\ pc' = [pc EXCEPT ![s] = "idle"]
  /\ loaded' = [loaded EXCEPT ![s] = NoView]

Start(s) ==
  /\ Goto(s, "idle", "asking")
  /\ Queue!Lease(Task, s)
  /\ UNCHANGED <<alertVars, loaded>>

Read(s, from, to) ==
  /\ Goto(s, from, to)
  /\ loaded' = [loaded EXCEPT ![s] = Seen]
  /\ UNCHANGED <<alertVars, queueVars>>

\* The agent has answered; a new session reads the row.
AnswerRead(s) == Read(s, "asking", "storing")

AnswerWrite(s) ==
  /\ Goto(s, "storing", "returning")
  /\ alert' = Row!Flush(alert, loaded[s].alert, "proposed")
  /\ \E a \in Answers : alertDraft' = Row!Flush(alertDraft, loaded[s].draft, a)
  /\ UNCHANGED <<alertTickets, queueVars, loaded>>

\* An exception before the proposal is stored.
Fails(s) ==
  /\ \/ Goto(s, "asking", "failing") \/ Goto(s, "storing", "failing")
  /\ UNCHANGED <<alertVars, queueVars, loaded>>

\* The except clause puts the failure up for review too.
FailureRead(s) == Read(s, "failing", "recording")

\* The handler raises after a degraded run, so that the queue tries again.
AfterFailureReturns == "returning"                      \* mutant
AfterFailure == "raising"

FailureWrite(s) ==
  /\ Goto(s, "recording", AfterFailure)
  /\ alert' = Row!Flush(alert, loaded[s].alert, "proposed")
  /\ UNCHANGED <<alertDraft, alertTickets, queueVars, loaded>>

\* Nor that could be written.
FailureLost(s) ==
  /\ \/ Goto(s, "failing", AfterFailure) \/ Goto(s, "recording", AfterFailure)
  /\ UNCHANGED <<alertVars, queueVars, loaded>>

HandlerReturns(s) ==
  /\ Goto(s, "returning", "reporting")
  /\ Queue!Execute(Task)
  /\ UNCHANGED <<alertVars, loaded>>

HoldsLease(s) == phase[Task] = "leased" /\ holder[Task] = s

ReportSuccess(s) ==
  /\ pc[s] = "reporting"
  /\ IF HoldsLease(s) THEN Queue!Finish(Task) ELSE UNCHANGED queueVars
  /\ Leave(s)
  /\ UNCHANGED alertVars

\* complete_task raises: a failure is reported instead.
ReportFails(s) ==
  /\ Goto(s, "reporting", "raising")
  /\ UNCHANGED <<alertVars, queueVars, loaded>>

ReportFailure(s) ==
  /\ pc[s] = "raising"
  /\ IF HoldsLease(s) THEN Queue!Revoke({Task}) ELSE UNCHANGED queueVars
  /\ Leave(s)
  /\ UNCHANGED alertVars

Crash(s) ==
  /\ pc[s] # "idle"
  /\ Leave(s)
  /\ UNCHANGED <<alertVars, queueVars>>

LeaseExpires ==
  /\ Queue!Revoke({Task})
  /\ UNCHANGED <<alertVars, pc, loaded>>

OperateTask ==
  /\ \/ phase[Task] = "dead" /\ Queue!Admit(Task)
     \/ Queue!Abandon(Task)
  /\ UNCHANGED <<alertVars, pc, loaded>>

Review ==
  /\ Row!Review
  /\ UNCHANGED <<queueVars, pc, loaded>>

Execution(s) ==
  \/ Start(s) \/ AnswerRead(s) \/ AnswerWrite(s) \/ Fails(s)
  \/ FailureRead(s) \/ FailureWrite(s) \/ FailureLost(s)
  \/ HandlerReturns(s) \/ ReportSuccess(s) \/ ReportFailure(s)

Smooth == Trigger \/ (\E s \in Sessions : Execution(s)) \/ Review

\* A lease may expire under a handler that is still at work.
Rough ==
  \/ \E s \in Sessions : ReportFails(s) \/ Crash(s)
  \/ OperateTask
  \/ LeaseExpires

Next == Smooth \/ Rough
Spec == Init /\ [][Next]_vars

\* No lease expires, nothing crashes, nobody operates the queue.
SmoothSpec == Init /\ [][Smooth]_vars

-----------------------------------------------------------------------------
(* Properties. *)

\* Every column and every session-local value is of its kind.
TypeOK ==
  /\ Row!AlertTypeOK
  /\ phase \in [{Task} -> Queue!Phases]
  /\ holder \in [{Task} -> Sessions \cup {Nobody}]
  /\ executed \in SUBSET {Task}
  /\ pc \in [Sessions -> Stages]
  /\ loaded \in [Sessions -> Views]

\* A task is done only once an answer of the agent is stored: a run that
\* ended with an excuse for the reviewers is tried again or dead, never done,
\* whichever executions overlap.
DoneHasAnswer == phase[Task] = "done" => alertDraft # NoAnswer

\* What no reviewer has seen may still be put up: a closed alert is left out.
Decided == {"confirmed", "rejected", "ticketed"}

\* A proposal is put up once (docs/design/specs/2026-07-14-async-queue-
\* design.md:154: by disposal_id, to avoid disposing of an alert twice); what
\* the reviewers decided is not put up again.
NotPutUpAgain == alert \in Decided => alert' # "proposed"
DisposedOnce == [][NotPutUpAgain]_vars

\* A disposal that is done has an answer of the agent or of a person.
DisposalSound == TypeOK /\ DoneHasAnswer
=============================================================================
