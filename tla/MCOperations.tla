---------------------------- MODULE MCOperations ----------------------------
(***************************************************************************)
(* The services behind operations on small instances: tickets, active      *)
(* operations, alert disposals, the event outbox and the task queue under  *)
(* their own bounds, the intake of events, records with an idempotency     *)
(* key, the risk ledger, the log archive, and the audit of tickets.  They   *)
(* share no state in these instances, so a behaviour is about one of them: *)
(* focus is chosen at the start and the others keep their initial states.  *)
(***************************************************************************)
EXTENDS TicketLifecycle, Integers, SequencesExt, TLC

CONSTANTS
  Executions,                      \* two of whatever acts at the same time
  Answers, MaxGen, FewAnswers, FewGens, AlertTask,
  Kind, Batches, Canonical, MaxSends, MaxMaps,
  Keys, MaxCalls,
  Alerts, MaxUrges, MaxMoves, MaxSyncs,
  Logs, MaxTime, MaxArchives,
  t1, t2, q1,
  None, Nobody, Error, NoAnswer

VARIABLES
  focus,
  event, run, taskOf, draft, published, runTickets, alert, alertDraft, alertTickets,
  phase, holder, executed, p_pc, gen, p_loaded, accepted,
  d_alert, d_alertDraft, d_alertTickets, d_phase, d_holder, d_executed, d_pc, d_loaded,
  e_status, e_attempts, e_max, e_lockedBy, lease, e_delay, dStatus, dAttempts, dMax,
  dDelay, e_pc, at, e_draft, e_op, e_returned, retries, e_faults,
  q_status, attempts, maxAttempts, lockedBy, hbAge, delay, pc, cur, attempt, timer,
  returned, killed, faults,
  i_event, made, mapping, req, sends, maps, stored, raced, acked,
  rows, call, answer, calls, r_raced,
  b_alert, risk, b_req, job, moves, runs, asked, byHand, crossed, met, lost, outcome,
  now, table, old, file, chosen, saved, l_runs, clash, l_crossed,
  ticket, report

proactive == <<event, run, taskOf, draft, published, runTickets, alert, alertDraft,
               alertTickets, phase, holder, executed, p_pc, gen, p_loaded, accepted>>
disposal == <<d_alert, d_alertDraft, d_alertTickets, d_phase, d_holder, d_executed,
              d_pc, d_loaded>>
outbox == <<e_status, e_attempts, e_max, e_lockedBy, lease, e_delay, dStatus, dAttempts,
            dMax, dDelay, e_pc, at, e_draft, e_op, e_returned, retries, e_faults>>
queue == <<q_status, attempts, maxAttempts, lockedBy, hbAge, delay, pc, cur, attempt,
           timer, returned, killed, faults>>
intake == <<i_event, made, mapping, req, sends, maps, stored, raced, acked>>
records == <<rows, call, answer, calls, r_raced>>
ledger == <<b_alert, risk, b_req, job, moves, runs, asked, byHand, crossed, met, lost,
            outcome>>
archive == <<now, table, old, file, chosen, saved, l_runs, clash, l_crossed>>
audit == <<ticket, report>>
parts == <<proactive, disposal, outbox, queue, intake, records, ledger, archive, audit>>

Symmetric == Permutations(Executions)

Ops == INSTANCE ProactiveOps WITH
  Sessions <- Executions,
  pc <- p_pc, loaded <- p_loaded

\* Leases that expire at any moment leave room for few answers and few tasks.
Overlapping ==
  /\ Ops!Next
  /\ taskOf' <= FewGens /\ {draft', alertDraft', published'} \subseteq FewAnswers \cup {NoAnswer}

Disposal == INSTANCE AlertDisposal WITH
  Sessions <- Executions, Answers <- FewAnswers, Task <- AlertTask,
  alert <- d_alert, alertDraft <- d_alertDraft, alertTickets <- d_alertTickets,
  phase <- d_phase, holder <- d_holder, executed <- d_executed,
  pc <- d_pc, loaded <- d_loaded

\* The first subscriber has one attempt, the second two.
Outbox == INSTANCE EventOutbox WITH
  Dispatchers <- Executions, NumSubs <- 2, EventMax <- 2, SubMax <- <<1, 2>>,
  BackoffCap <- 2, Rounding <- {0}, MaxRetries <- 1, MaxFaults <- 1,
  status <- e_status, attempts <- e_attempts, maxAttempts <- e_max,
  lockedBy <- e_lockedBy, delay <- e_delay, pc <- e_pc, draft <- e_draft, op <- e_op,
  returned <- e_returned, faults <- e_faults

\* The tightest lease: (MaxFaults + 2) * HeartbeatEvery.
Queue == INSTANCE TaskQueue WITH
  Tasks <- {t1, t2}, Workers <- Executions, NoWorker <- Nobody, NoTask <- None,
  QueueOf <- [t \in {t1, t2} |-> q1], ServedQueue <- [w \in Executions |-> q1],
  Priority <- [t \in {t1, t2} |-> IF t = t2 THEN 50 ELSE 0],
  RequestedMax <- [t \in {t1, t2} |-> IF t = t1 THEN 2 ELSE 0],
  RequestedDelay <- [t \in {t1, t2} |-> IF t = t1 THEN 1 ELSE 0],
  StaleAfter <- 3, HeartbeatEvery <- 1, BackoffCap <- 1, AttemptCap <- 3, MaxFaults <- 1,
  status <- q_status

\* An alarm, a recovery of the same device, and one that does not validate.
TheKind ==
  "alarm" :> [type |-> "alarm", severity |-> "major", valid |-> TRUE] @@
  "recovery" :> [type |-> "recovered", severity |-> "notice", valid |-> TRUE] @@
  "malformed" :> [type |-> "alarm", severity |-> "major", valid |-> FALSE]

TheBatches == {<<"alarm", "recovery">>, <<"malformed", "alarm">>}

Intake == INSTANCE EventIntake WITH Requests <- Executions, event <- i_event

Records == INSTANCE IdempotentRecords WITH
  Callers <- Executions, raced <- r_raced

Ledger == INSTANCE BizCenter WITH
  Requests <- Executions, MaxRuns <- MaxSyncs,
  alert <- b_alert, req <- b_req

LogFiles == INSTANCE LogArchive WITH
  Archivers <- Executions, MaxRuns <- MaxArchives,
  runs <- l_runs, crossed <- l_crossed

\* A task, or none; up to two steps, a measure and a danger; which section a line opens,
\* if it is short, and what the rules look for in it; a measure may name the steps.
Line(column, opens, says) == [of |-> column, opens |-> opens, says |-> says]
Tasks == {Line("task", "none", {}), Line("task", "none", {"hazard"}),
          Line("task", "dangers", {}), Line("task", "safety", {})}
Steps == {Line("step", "none", says) :
          says \in {{}, {"check"}, {"ship"}, {"hazard", "dispatch"}, {"operator"},
                   {"odd dispatch", "blocked"}}}
         \cup {Line("step", "steps", says) : says \in {{}, {"hazard", "dispatch"}}}
Measures == {Line("safety", opens, {}) : opens \in {"none", "safety", "steps"}}
            \cup {Line("safety", "none", {"hazard", "operator"})}
Dangers == {Line("danger", opens, {}) : opens \in {"none", "dangers"}}
TheTickets ==
  {[task |-> TRUE, lines |-> <<task>> \o steps \o safety \o dangers] :
     task \in Tasks, steps \in BoundedSeq(Steps, 2), safety \in BoundedSeq(Measures, 1),
     dangers \in BoundedSeq(Dangers, 1)}
  \cup {[task |-> FALSE, lines |-> <<Line("task", "none", {})>> \o steps \o safety] :
     steps \in BoundedSeq(Steps, 2), safety \in BoundedSeq(Measures, 1)}
TheOpinions ==
  {[countable |-> TRUE, severities |-> said] :
     said \in {<<>>, <<"major">>, <<"critical">>, <<"minor", "unknown">>}}
  \cup {[countable |-> FALSE, severities |-> <<>>]}
Checks == INSTANCE TicketAudit WITH Tickets <- TheTickets, Opinions <- TheOpinions

ASSUME OperationsAssumption ==
  /\ Ops!OpsAssumption /\ Disposal!DisposalAssumption
  /\ Intake!IntakeAssumption /\ Ledger!LedgerAssumption /\ LogFiles!ArchiveAssumption

OperationsInit ==
  /\ focus \in {"ticket", "proactive", "overlap", "disposal", "outbox", "queue", "intake",
               "records", "ledger", "archive", "audit"}
  /\ Init /\ Ops!Init /\ Disposal!Init /\ Outbox!Init /\ Queue!Init /\ Intake!Init
  /\ Records!Init /\ Ledger!Init /\ LogFiles!Init /\ Checks!Init

OperationsNext ==
  /\ UNCHANGED focus
  /\ \/ focus = "ticket" /\ Next /\ UNCHANGED parts
     \/ /\ \/ focus = "proactive" /\ Ops!TimelyNext
           \/ focus = "overlap" /\ Overlapping
        /\ UNCHANGED <<vars, disposal, outbox, queue, intake, records, ledger, archive,
                       audit>>
     \/ /\ focus = "disposal" /\ Disposal!Next
        /\ UNCHANGED <<vars, proactive, outbox, queue, intake, records, ledger, archive,
                       audit>>
     \/ /\ focus = "outbox" /\ Outbox!Next
        /\ UNCHANGED <<vars, proactive, disposal, queue, intake, records, ledger, archive,
                       audit>>
     \/ /\ focus = "queue" /\ Queue!TimelyNext
        /\ UNCHANGED <<vars, proactive, disposal, outbox, intake, records, ledger, archive,
                       audit>>
     \/ /\ focus = "intake" /\ Intake!Next
        /\ UNCHANGED <<vars, proactive, disposal, outbox, queue, records, ledger, archive,
                       audit>>
     \/ /\ focus = "records" /\ Records!Next
        /\ UNCHANGED <<vars, proactive, disposal, outbox, queue, intake, ledger, archive,
                       audit>>
     \/ /\ focus = "ledger" /\ Ledger!Next
        /\ UNCHANGED <<vars, proactive, disposal, outbox, queue, intake, records, archive,
                       audit>>
     \/ /\ focus = "archive" /\ LogFiles!Next
        /\ UNCHANGED <<vars, proactive, disposal, outbox, queue, intake, records, ledger,
                       audit>>
     \/ /\ focus = "audit" /\ Checks!Next
        /\ UNCHANGED <<vars, proactive, disposal, outbox, queue, intake, records, ledger,
                       archive>>

OperationsSpec == OperationsInit /\ [][OperationsNext]_<<focus, vars, parts>>

-----------------------------------------------------------------------------
\* What each service keeps, stated in its module under the same name.
RunsSound ==
  /\ focus = "proactive" => Ops!RunsSound
  /\ focus = "overlap" => Ops!TypeOK /\ Ops!EventMirrorsRun
DecisionFinal == [][focus = "proactive" => Ops!KeepsDecision]_proactive
DisposalSound == focus = "disposal" => Disposal!DisposalSound
DeliverySound == focus = "outbox" => Outbox!DeliverySound
NoOverlap == focus = "queue" => Queue!NoOverlap
IntakeSound == focus = "intake" => Intake!IntakeSound
RecordsSound == focus = "records" => Records!RecordsSound
LedgerSound == focus = "ledger" => Ledger!LedgerSound
AuditSound == focus = "audit" => Checks!AuditSound
ArchiveSound == focus = "archive" => LogFiles!ArchiveSound
=============================================================================
