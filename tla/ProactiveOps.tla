---------------------------- MODULE ProactiveOps ----------------------------
(***************************************************************************)
(* Active operations: a realtime event, its proactive_ops_run, its alert   *)
(* row and the tasks that diagnose it, from services/                      *)
(* realtime_event_service.py.                                              *)
(*                                                                         *)
(* The task queue appears as the TaskContract that TaskQueue implements: a *)
(* lease may end at any time and a task may be executed again.  A handler  *)
(* takes two transactions with the agent's work between them: the first    *)
(* locks the run, the second only writes it.  Each retry_run makes a new   *)
(* task, a generation, and the run names the current one.                  *)
(***************************************************************************)
EXTENDS Naturals

CONSTANTS
  Answers, NoAnswer,
  Sessions,   \* executions of the handler that may go on at the same time
  Nobody,
  MaxGen      \* bound: generations of the run's task

OpsAssumption ==
  /\ MaxGen \in Nat \ {0}
  /\ Nobody \notin Sessions
  /\ NoAnswer \notin Answers

Gens == 1 .. MaxGen

VARIABLES
  event,       \* processing_status of realtime_event
  run,         \* status of proactive_ops_run
  taskOf,      \* task_id, as a generation; 0 before there is one
  draft,       \* ticket_draft_json of the run
  published,   \* the proposal in the outbox (one key per run)
  runTickets,  \* drafts of the tickets with source_ref proactive:<run_id>
  alert, alertDraft, alertTickets,
  phase, holder, executed,          \* the tasks, in the words of TaskContract
  pc, gen,     \* each session: its place in the handler, its task
  loaded,      \* the values its reads have seen
  accepted     \* history: the draft in force when the run was last confirmed

opsVars   == <<event, run, taskOf, draft, published, runTickets>>
alertVars == <<alert, alertDraft, alertTickets>>
queueVars == <<phase, holder, executed>>
sesVars   == <<pc, gen, loaded>>
vars == <<opsVars, alertVars, queueVars, sesVars, accepted>>

Queue  == INSTANCE TaskContract WITH Tasks <- Gens, Workers <- Sessions, NoWorker <- Nobody
Alert  == INSTANCE AlertReview

RunStatuses == {"absent", "ignored", "queued", "running", "proposed", "failed",
                "confirmed", "rejected", "ticketed"}
EventStatuses == {"absent", "ignored", "queued", "processing", "completed", "failed"}
Stages == {"idle", "starting", "asking", "answering", "failing", "returning",
           "reporting", "raising"}
Reviewed == {"confirmed", "rejected", "ticketed"}
Maybe == Answers \cup {NoAnswer}

Views == [draft: Maybe, alert: Alert!AlertStatuses, alertDraft: Maybe, published: Maybe]
NoView == [draft |-> NoAnswer, alert |-> "absent", alertDraft |-> NoAnswer,
           published |-> NoAnswer]

Init ==
  /\ event = "absent" /\ run = "absent" /\ taskOf = 0
  /\ draft = NoAnswer /\ published = NoAnswer /\ runTickets = {}
  /\ alert = "absent" /\ alertDraft = NoAnswer /\ alertTickets = {}
  /\ Queue!Init
  /\ pc = [s \in Sessions |-> "idle"]
  /\ gen = [s \in Sessions |-> 0]
  /\ loaded = [s \in Sessions |-> NoView]
  /\ accepted = NoAnswer

-----------------------------------------------------------------------------
(* Ingestion. *)

\* ingest_event of a new event_id: one transaction writes everything.  The
\* duplicates that follow change only counters.
Ingest ==
  /\ run = "absent"
  /\ \/ /\ event' = "ignored" /\ run' = "ignored"      \* evaluate_rule_gate
        /\ UNCHANGED <<taskOf, alert, queueVars>>
     \/ /\ event' = "queued" /\ run' = "queued"
        /\ taskOf' = 1
        /\ alert' = "pending"
        /\ Queue!Admit(1)
  /\ UNCHANGED <<draft, published, runTickets, alertDraft, alertTickets,
                 sesVars, accepted>>

-----------------------------------------------------------------------------
(* process_proactive_run, one session per execution. *)

Goto(s, from, to) ==
  /\ pc[s] = from
  /\ pc' = [pc EXCEPT ![s] = to]
  /\ UNCHANGED gen

\* The worker has claimed a task and calls the handler.
Start(s) ==
  /\ pc[s] = "idle"
  /\ \E g \in Gens : Queue!Lease(g, s) /\ gen' = [gen EXCEPT ![s] = g]
  /\ pc' = [pc EXCEPT ![s] = "starting"]
  /\ UNCHANGED <<opsVars, alertVars, loaded, accepted>>

\* The run may be (re)started by this task.
AdmitsAnyTask(g) == run \in {"queued", "failed", "running"}        \* mutant
AdmitsAnyStatus(g) == g = taskOf
Admits(g) == g = taskOf /\ run \in {"queued", "failed", "running"}

\* First transaction, under FOR UPDATE: skip, or take the run over.
BeginRun(s) ==
  /\ IF Admits(gen[s])
     THEN /\ Goto(s, "starting", "asking")
          /\ run' = "running" /\ event' = "processing"
          /\ loaded' = [loaded EXCEPT ![s] = [NoView EXCEPT !.draft = draft]]
     ELSE /\ Goto(s, "starting", "returning")
          /\ UNCHANGED <<run, event, loaded>>
  /\ UNCHANGED <<taskOf, draft, published, runTickets, alertVars, queueVars, accepted>>

\* The first read of the second transaction, anywhere in the agent's work,
\* fixes what it sees of the other tables.
AgentAnswers(s) ==
  /\ Goto(s, "asking", "answering")
  /\ loaded' = [loaded EXCEPT ![s] =
                  [@ EXCEPT !.alert = alert, !.alertDraft = alertDraft,
                            !.published = published]]
  /\ UNCHANGED <<opsVars, alertVars, queueVars, accepted>>

\* An exception on the way, from the agent or the database.
AgentFails(s) ==
  /\ \/ Goto(s, "asking", "failing") \/ Goto(s, "answering", "failing")
  /\ UNCHANGED <<opsVars, alertVars, queueVars, loaded, accepted>>

\* publish_event_record fails when the key is there now but not in its
\* snapshot: the insert violates the index, the second SELECT finds nothing.
KeyTaken(s) == loaded[s].published = NoAnswer /\ published # NoAnswer

StoreProposal(s, answer) ==
  LET seen == loaded[s] IN
  /\ run' = "proposed" /\ event' = "completed"
  /\ draft' = Alert!Flush(draft, seen.draft, answer)
  /\ alert' = Alert!Flush(alert, seen.alert, "proposed")
  /\ alertDraft' = Alert!Flush(alertDraft, seen.alertDraft, answer)
  /\ published' = IF seen.published = NoAnswer THEN answer ELSE published

\* Second transaction: written without another look at the run.
Propose(s) ==
  /\ ~KeyTaken(s)
  /\ \E answer \in Answers : StoreProposal(s, answer)
  /\ Goto(s, "answering", "returning")
  /\ UNCHANGED <<taskOf, runTickets, alertTickets, queueVars, loaded, accepted>>

ProposalRefused(s) ==
  /\ KeyTaken(s)
  /\ Goto(s, "answering", "failing")
  /\ UNCHANGED <<opsVars, alertVars, queueVars, loaded, accepted>>

\* The except clause records the failure, if the database lets it, and
\* raises again.  Of the alert only the text handling is changed.
RecordFailure(s) ==
  /\ Goto(s, "failing", "raising")
  /\ \/ run' = "failed" /\ event' = "failed"
     \/ UNCHANGED <<run, event>>
  /\ UNCHANGED <<taskOf, draft, published, runTickets, alertVars, queueVars,
                 loaded, accepted>>

-----------------------------------------------------------------------------
(* The queue around the handler. *)

HandlerReturns(s) ==
  /\ Goto(s, "returning", "reporting")
  /\ Queue!Execute(gen[s])
  /\ UNCHANGED <<opsVars, alertVars, loaded, accepted>>

Leave(s) ==
  /\ pc' = [pc EXCEPT ![s] = "idle"]
  /\ gen' = [gen EXCEPT ![s] = 0]
  /\ loaded' = [loaded EXCEPT ![s] = NoView]

HoldsLease(s) == phase[gen[s]] = "leased" /\ holder[gen[s]] = s

\* complete_task
ReportSuccess(s) ==
  /\ pc[s] = "reporting"
  /\ IF HoldsLease(s) THEN Queue!Finish(gen[s]) ELSE UNCHANGED queueVars
  /\ Leave(s)
  /\ UNCHANGED <<opsVars, alertVars, accepted>>

\* complete_task raises: a failure is reported instead.
ReportFails(s) ==
  /\ Goto(s, "reporting", "raising")
  /\ UNCHANGED <<opsVars, alertVars, queueVars, loaded, accepted>>

\* fail_task
ReportFailure(s) ==
  /\ pc[s] = "raising"
  /\ IF HoldsLease(s) THEN Queue!Revoke({gen[s]}) ELSE UNCHANGED queueVars
  /\ Leave(s)
  /\ UNCHANGED <<opsVars, alertVars, accepted>>

\* The process dies; the lease stays until it expires.
Crash(s) ==
  /\ pc[s] # "idle"
  /\ Leave(s)
  /\ UNCHANGED <<opsVars, alertVars, queueVars, accepted>>

LeaseExpires(g) ==
  /\ Queue!Revoke({g})
  /\ UNCHANGED <<opsVars, alertVars, sesVars, accepted>>

\* An operator of the task centre: retry_task, move_task_to_dead.
OperateTask(g) ==
  /\ \/ phase[g] = "dead" /\ Queue!Admit(g)
     \/ Queue!Abandon(g)
  /\ UNCHANGED <<opsVars, alertVars, sesVars, accepted>>

-----------------------------------------------------------------------------
(* Reviewers of the run; each locks it and then sets the alert's status. *)

ConfirmRun ==
  /\ run = "proposed"
  /\ run' = "confirmed" /\ alert' = "confirmed"
  /\ accepted' = draft
  /\ UNCHANGED <<event, taskOf, draft, published, runTickets, alertDraft,
                 alertTickets, queueVars, sesVars>>

RejectRun ==
  /\ run \in {"proposed", "confirmed"}
  /\ run' = "rejected" /\ alert' = "rejected"
  /\ UNCHANGED <<event, taskOf, draft, published, runTickets, alertDraft,
                 alertTickets, queueVars, sesVars, accepted>>

RunToTicket ==
  /\ run = "confirmed"
  /\ run' = "ticketed" /\ alert' = "ticketed"
  /\ runTickets' = Alert!Ticketed(runTickets, draft)
  /\ UNCHANGED <<event, taskOf, draft, published, alertDraft, alertTickets,
                 queueVars, sesVars, accepted>>

\* retry_run: a new generation, in the same transaction.
RetryRun ==
  /\ run = "failed"
  /\ taskOf < MaxGen
  /\ run' = "queued" /\ event' = "queued"
  /\ taskOf' = taskOf + 1
  /\ Queue!Admit(taskOf + 1)
  /\ UNCHANGED <<draft, published, runTickets, alertVars, sesVars, accepted>>

\* The alert reviewed behind the run's back.
ReviewAlert ==
  /\ Alert!Review
  /\ UNCHANGED <<opsVars, queueVars, sesVars, accepted>>

-----------------------------------------------------------------------------

Execution(s) ==
  \/ Start(s) \/ BeginRun(s) \/ AgentAnswers(s) \/ AgentFails(s)
  \/ Propose(s) \/ ProposalRefused(s) \/ RecordFailure(s)
  \/ HandlerReturns(s) \/ ReportSuccess(s) \/ ReportFails(s) \/ ReportFailure(s)
  \/ Crash(s)

Common ==
  \/ Ingest
  \/ \E s \in Sessions : Execution(s)
  \/ \E g \in Gens : OperateTask(g)
  \/ ConfirmRun \/ RejectRun \/ RunToTicket \/ RetryRun
  \/ ReviewAlert

\* A lease may expire under a handler that is still at work.
Next == Common \/ \E g \in Gens : LeaseExpires(g)
Spec == Init /\ [][Next]_vars

\* The lease lasts as long as its holder (TaskQueue!NoOverlap).
Attended(g) == \E s \in Sessions : pc[s] # "idle" /\ gen[s] = g /\ HoldsLease(s)
TimelyNext == Common \/ \E g \in Gens : ~Attended(g) /\ LeaseExpires(g)
TimelySpec == Init /\ [][TimelyNext]_vars

-----------------------------------------------------------------------------
(* Properties. *)

\* Every column and every session-local value is of its kind.
TypeOK ==
  /\ event \in EventStatuses
  /\ run \in RunStatuses
  /\ taskOf \in 0 .. MaxGen
  /\ draft \in Maybe /\ published \in Maybe /\ accepted \in Maybe
  /\ runTickets \in SUBSET Maybe
  /\ Alert!AlertTypeOK
  /\ phase \in [Gens -> Queue!Phases]
  /\ holder \in [Gens -> Sessions \cup {Nobody}]
  /\ executed \in SUBSET Gens
  /\ pc \in [Sessions -> Stages]
  /\ gen \in [Sessions -> 0 .. MaxGen]
  /\ loaded \in [Sessions -> Views]

\* The event follows its run, whichever executions overlap: the two are
\* written by the same transactions, in the except clause too.
Mirror ==
  CASE run \in {"proposed"} \cup Reviewed -> "completed"
    [] run = "running" -> "processing"
    [] OTHER -> run
EventMirrorsRun == event = Mirror

\* A person's decision stands: no redelivered task, retry or late answer
\* takes a reviewed run back to the agent or to the proposals.
KeepsDecision == run \in Reviewed => run' \in Reviewed
DecisionFinal == [][KeepsDecision]_vars

\* The ticket is what the reviewer saw when confirming, and there is one,
\* however often the agent answered.
TicketIsAccepted == runTickets \subseteq {accepted}

\* The outbox announces the proposal that the reviewers get to see: its key is
\* per run, so the first answer announced must be the only one.
ProposalAnnounced ==
  run \in {"proposed"} \cup Reviewed => published = draft

\* Generations never mix: a session at the agent works for the run's current
\* task, and no other session does.
OneGeneration ==
  \A s \in Sessions :
    pc[s] \in {"asking", "answering", "failing"}
      => /\ gen[s] = taskOf
         /\ run = "running"
         /\ \A r \in Sessions \ {s} : pc[r] \notin {"asking", "answering", "failing"}

\* docs/design/specs/2026-07-16-active-operations-governance.md:14: stale
\* tasks are recovered and a run left running is taken over; so the task of a
\* running run is not given up.
RunTakenOver == run = "running" => phase[taskOf] # "dead"

\* A run and its event tell the same story, one generation of work at a time: nothing
\* is ticketed that was not accepted, nothing proposed that was not announced.
RunsSound ==
  TypeOK /\ EventMirrorsRun /\ OneGeneration /\ TicketIsAccepted /\ ProposalAnnounced
=============================================================================
