----------------------------- MODULE TaskQueue -----------------------------
(***************************************************************************)
(* The persistent task queue: rows of persistent_tasks, the SQL            *)
(* transactions of services/task_queue_service.py that change them, and    *)
(* the worker coroutines of tasks/worker.py that claim a row, run its      *)
(* handler, renew its lease and report the outcome.                        *)
(*                                                                         *)
(* A transaction that reads a row FOR UPDATE and writes it is one step.    *)
(* The claim takes two, because its SKIP LOCKED read is what keeps two     *)
(* workers off the same row: the first step locks the row, the second      *)
(* writes and commits it.                                                  *)
(*                                                                         *)
(* The clock is relative: a row carries the age of its heartbeat and the   *)
(* time left until run_after, a worker the time since it last touched its  *)
(* row.  Tick advances all of them.                                        *)
(***************************************************************************)
EXTENDS Integers

CONSTANTS
  Tasks,           \* the rows that may be enqueued
  Workers,         \* identities of make_worker_id: never used again once gone
  NoWorker,        \* locked_by = ""
  NoTask,          \* no row in the hands of a worker
  QueueOf,         \* queue_name of each task
  ServedQueue,     \* the queue whose rows each worker claims
  Priority,        \* priority of each task
  RequestedMax,    \* max_attempts asked for by the caller of enqueue
  RequestedDelay,  \* run_after asked for, in ticks from now
  StaleAfter,      \* stale_after_seconds, in ticks
  HeartbeatEvery,  \* interval of the heartbeat loop, in ticks
  BackoffCap,      \* the 300 of the retry delay, in ticks
  AttemptCap,      \* bound: an operator retries no further than this
  MaxFaults        \* bound: database errors seen by the workers

ASSUME QueueAssumption ==
  /\ NoWorker \notin Workers
  /\ NoTask \notin Tasks
  /\ Priority \in [Tasks -> Int]
  /\ RequestedMax \in [Tasks -> Int]
  /\ RequestedDelay \in [Tasks -> Nat]

ASSUME ClockAssumption ==
  /\ StaleAfter \in Nat \ {0}
  /\ HeartbeatEvery \in Nat \ {0}
  /\ BackoffCap \in Nat
  /\ MaxFaults \in Nat

VARIABLES
  status,       \* of each row, "absent" before it is inserted
  attempts,     \* claims of the row so far
  maxAttempts,
  lockedBy,
  hbAge,        \* now - heartbeat_at, NoBeat when the column is NULL
  delay,        \* run_after - now, 0 once due
  pc,           \* where each worker is in run_task_once
  cur,          \* the row the worker locked or runs
  attempt,      \* context.attempt of the worker's run
  timer,        \* ticks since the worker read the row or renewed its lease
  returned,     \* history: the attempts whose handler returned normally
  killed,       \* history: rows an operator moved to dead
  faults        \* database errors spent so far

rowVars  == <<status, attempts, maxAttempts, lockedBy, hbAge, delay>>
runVars  == <<pc, cur, attempt, timer>>
histVars == <<returned, killed, faults>>
vars     == <<rowVars, runVars, histVars>>

NoBeat == -1
Statuses  == {"absent", "queued", "running", "succeeded", "failed", "dead"}
Claimable == {"queued", "failed"}
Final     == {"succeeded", "dead"}
Running   == {"executing", "completing", "failing"}
Stages    == {"unborn", "idle", "claiming", "gone"} \cup Running

AtMost(n, cap)  == IF n < cap THEN n ELSE cap
AtLeast(n, low) == IF n > low THEN n ELSE low

\* max(1, min(100, max_attempts))
ClampMax(n) == AtLeast(AtMost(n, 100), 1)

\* min(300, 2 ** max(0, attempts - 1)): the cap, unless the power is below it
Backoff(a) ==
  LET p == 2 ^ AtLeast(a - 1, 0)
  IN  IF p \in 0 .. BackoffCap THEN p ELSE BackoffCap

\* attempts >= max_attempts: the row dies instead of waiting for a retry.
ExhaustedLate(t) == attempts[t] > maxAttempts[t]        \* mutant
ExhaustedEarly(t) == attempts[t] + 1 >= maxAttempts[t]
Exhausted(t) == attempts[t] >= maxAttempts[t]

\* The budget of a row an operator retries: one attempt more, at least.
SameBudget(t) == maxAttempts[t]                         \* mutant
ExtendedBudget(t) == AtLeast(attempts[t] + 1, maxAttempts[t])

\* What move_task_to_dead accepts.
Killable(t) == status[t] \notin Final \cup {"absent", "running"}

\* Row locks live as long as the claiming transaction of some worker.
Ignored(t) == TRUE                                      \* mutant
Unlocked(t) == \A v \in Workers : pc[v] = "claiming" => cur[v] # t

Due(w, t) ==
  /\ QueueOf[t] = ServedQueue[w]
  /\ status[t] \in Claimable
  /\ delay[t] = 0
  /\ attempts[t] < maxAttempts[t]

\* Running with a heartbeat_at that is NULL or before the cutoff.
StaleAnyStatus(t) == hbAge[t] = NoBeat \/ hbAge[t] > StaleAfter  \* mutant
StaleTooSoon(t) == /\ status[t] = "running"
                   /\ hbAge[t] = NoBeat \/ hbAge[t] >= StaleAfter
Stale(t) ==
  /\ status[t] = "running"
  /\ hbAge[t] = NoBeat \/ hbAge[t] > StaleAfter

\* The guard of heartbeat_task, complete_task and fail_task.
OwnsUnfenced(w) == cur[w] # NoTask /\ status[cur[w]] = "running"  \* mutant
Owns(w) ==
  /\ cur[w] # NoTask
  /\ status[cur[w]] = "running"
  /\ lockedBy[cur[w]] = w

Init ==
  /\ status = [t \in Tasks |-> "absent"]
  /\ attempts = [t \in Tasks |-> 0]
  /\ maxAttempts = [t \in Tasks |-> 1]
  /\ lockedBy = [t \in Tasks |-> NoWorker]
  /\ hbAge = [t \in Tasks |-> NoBeat]
  /\ delay = [t \in Tasks |-> 0]
  /\ pc = [w \in Workers |-> "unborn"]
  /\ cur = [w \in Workers |-> NoTask]
  /\ attempt = [w \in Workers |-> 0]
  /\ timer = [w \in Workers |-> 0]
  /\ returned = [t \in Tasks |-> {}]
  /\ killed = {}
  /\ faults = 0

-----------------------------------------------------------------------------
(* Producers and operators. *)

\* enqueue_task_record inserts the row of a new idempotency key.
Enqueue(t) ==
  /\ status[t] = "absent"
  /\ status' = [status EXCEPT ![t] = "queued"]
  /\ maxAttempts' = [maxAttempts EXCEPT ![t] = ClampMax(RequestedMax[t])]
  /\ delay' = [delay EXCEPT ![t] = RequestedDelay[t]]
  /\ UNCHANGED <<attempts, lockedBy, hbAge, runVars, histVars>>

\* retry_task: one more attempt for a failed or dead row, due at once.
RetryAsEvent(t) ==                                      \* mutant
  /\ status[t] \in {"failed", "dead"}
  /\ Unlocked(t)
  /\ ExtendedBudget(t) <= AttemptCap
  /\ status' = [status EXCEPT ![t] = "pending"]
  /\ maxAttempts' = [maxAttempts EXCEPT ![t] = ExtendedBudget(t)]
  /\ delay' = [delay EXCEPT ![t] = 0]
  /\ lockedBy' = [lockedBy EXCEPT ![t] = NoWorker]
  /\ killed' = killed \ {t}
  /\ UNCHANGED <<attempts, hbAge, runVars, returned, faults>>

Retry(t) ==
  /\ status[t] \in {"failed", "dead"}
  /\ Unlocked(t)
  /\ ExtendedBudget(t) <= AttemptCap
  /\ status' = [status EXCEPT ![t] = "queued"]
  /\ maxAttempts' = [maxAttempts EXCEPT ![t] = ExtendedBudget(t)]
  /\ delay' = [delay EXCEPT ![t] = 0]
  /\ lockedBy' = [lockedBy EXCEPT ![t] = NoWorker]
  /\ killed' = killed \ {t}
  /\ UNCHANGED <<attempts, hbAge, runVars, returned, faults>>

\* move_task_to_dead refuses rows that are final or running.
MoveToDead(t) ==
  /\ Killable(t)
  /\ Unlocked(t)
  /\ status' = [status EXCEPT ![t] = "dead"]
  /\ lockedBy' = [lockedBy EXCEPT ![t] = NoWorker]
  /\ hbAge' = [hbAge EXCEPT ![t] = NoBeat]
  /\ killed' = killed \cup {t}
  /\ UNCHANGED <<attempts, maxAttempts, delay, runVars, returned, faults>>

-----------------------------------------------------------------------------
(* A worker. *)

Goto(w, label, t, a) ==
  /\ pc' = [pc EXCEPT ![w] = label]
  /\ cur' = [cur EXCEPT ![w] = t]
  /\ attempt' = [attempt EXCEPT ![w] = a]
  /\ timer' = [timer EXCEPT ![w] = 0]

\* The run is over: the heartbeat is stopped, the loop goes round.
Leave(w) == Goto(w, "idle", NoTask, 0)

Step(w, from, to) ==
  /\ pc[w] = from
  /\ pc' = [pc EXCEPT ![w] = to]
  /\ UNCHANGED <<cur, attempt, timer>>

\* A database error, as many as MaxFaults allows.
Fault ==
  /\ faults < MaxFaults
  /\ faults' = faults + 1

\* task_worker_loop begins, under a new identity.
Start(w) ==
  /\ Step(w, "unborn", "idle")
  /\ UNCHANGED <<rowVars, histVars>>

\* The process dies, or stop_background_workers cancels the coroutine: the
\* row stays running.  Another identity serves the queue, now or later.
Stop(w) ==
  /\ pc[w] \notin {"unborn", "gone"}
  /\ \E v \in Workers \ {w} : ServedQueue[v] = ServedQueue[w] /\ pc[v] # "gone"
  /\ Goto(w, "gone", NoTask, 0)
  /\ UNCHANGED <<rowVars, histVars>>

\* claim_next_task reads FOR UPDATE SKIP LOCKED: a due row that no other
\* transaction holds, none of the others before it in priority.  Rows of
\* equal priority come in any order (created_at has ties).
ClaimSelect(w, t) ==
  /\ pc[w] = "idle"
  /\ Due(w, t)
  /\ Unlocked(t)
  /\ \A u \in Tasks : Due(w, u) /\ Unlocked(u) => Priority[u] <= Priority[t]
  /\ Goto(w, "claiming", t, 0)
  /\ UNCHANGED <<rowVars, histVars>>

\* What the claim writes; heartbeat_at is the time of the read.

WriteClaim(w, t) ==
  /\ status' = [status EXCEPT ![t] = "running"]
  /\ attempts' = [attempts EXCEPT ![t] = @ + 1]
  /\ lockedBy' = [lockedBy EXCEPT ![t] = w]
  /\ hbAge' = [hbAge EXCEPT ![t] = timer[w]]
  /\ UNCHANGED <<maxAttempts, delay>>

ClaimCommit(w) ==
  /\ pc[w] = "claiming"
  /\ WriteClaim(w, cur[w])
  /\ Goto(w, "executing", cur[w], attempts[cur[w]] + 1)
  /\ UNCHANGED histVars

\* The claim commits, but the commit or the refresh after it raises: the
\* worker goes on without the row, which nobody renews.
ClaimLost(w) ==
  /\ pc[w] = "claiming"
  /\ Fault
  /\ WriteClaim(w, cur[w])
  /\ Leave(w)
  /\ UNCHANGED <<returned, killed>>

\* The claim raises before it commits: the row is as it was.
ClaimRolledBack(w) ==
  /\ pc[w] = "claiming"
  /\ Fault
  /\ Leave(w)
  /\ UNCHANGED <<rowVars, returned, killed>>

\* heartbeat_task, once per interval, while the run lasts.
Heartbeat(w) ==
  /\ pc[w] \in Running
  /\ timer[w] >= HeartbeatEvery
  /\ Owns(w)
  /\ hbAge' = [hbAge EXCEPT ![cur[w]] = 0]
  /\ timer' = [timer EXCEPT ![w] = 0]
  /\ UNCHANGED <<status, attempts, maxAttempts, lockedBy, delay,
                 pc, cur, attempt, histVars>>

\* The renewal raises: the loop waits for the next interval.
HeartbeatError(w) ==
  /\ pc[w] \in Running
  /\ timer[w] >= HeartbeatEvery
  /\ Owns(w)
  /\ Fault
  /\ timer' = [timer EXCEPT ![w] = 0]
  /\ UNCHANGED <<rowVars, pc, cur, attempt, returned, killed>>

HandlerReturns(w) ==
  /\ Step(w, "executing", "completing")
  /\ returned' = [returned EXCEPT ![cur[w]] = @ \cup {attempt[w]}]
  /\ UNCHANGED <<rowVars, killed, faults>>

\* Also when no handler is registered for the task type.
HandlerRaises(w) ==
  /\ Step(w, "executing", "failing")
  /\ UNCHANGED <<rowVars, histVars>>

WriteComplete(w) ==
  IF Owns(w)
  THEN /\ status' = [status EXCEPT ![cur[w]] = "succeeded"]
       /\ lockedBy' = [lockedBy EXCEPT ![cur[w]] = NoWorker]
       /\ hbAge' = [hbAge EXCEPT ![cur[w]] = NoBeat]
       /\ UNCHANGED <<attempts, maxAttempts, delay>>
  ELSE UNCHANGED rowVars

\* complete_task; a run that lost its row reports to nobody.
Complete(w) ==
  /\ pc[w] = "completing"
  /\ WriteComplete(w)
  /\ Leave(w)
  /\ UNCHANGED histVars

\* complete_task raises, before or after its commit: the except clause of
\* run_task_once then reports a failure.
CompleteError(w) ==
  /\ Fault
  /\ UNCHANGED rowVars \/ WriteComplete(w)
  /\ Step(w, "completing", "failing")
  /\ UNCHANGED <<returned, killed>>

\* A row that leaves running without success: dead once the attempts are
\* used up, else failed and due after wait.
Requeue(S, wait) ==
  /\ status' = [t \in Tasks |->
                  IF t \notin S THEN status[t]
                  ELSE IF Exhausted(t) THEN "dead" ELSE "failed"]
  /\ lockedBy' = [t \in Tasks |-> IF t \in S THEN NoWorker ELSE lockedBy[t]]
  /\ hbAge' = [t \in Tasks |-> IF t \in S THEN NoBeat ELSE hbAge[t]]
  /\ delay' = [t \in Tasks |->
                 IF t \in S /\ ~Exhausted(t) THEN wait[t] ELSE delay[t]]
  /\ UNCHANGED <<attempts, maxAttempts>>

WriteFail(w) ==
  IF Owns(w)
  THEN Requeue({cur[w]}, [t \in Tasks |-> Backoff(attempts[t])])
  ELSE UNCHANGED rowVars

Fail(w) ==
  /\ pc[w] = "failing"
  /\ WriteFail(w)
  /\ Leave(w)
  /\ UNCHANGED histVars

\* fail_task raises too: the loop survives, the row stays running.
FailError(w) ==
  /\ pc[w] = "failing"
  /\ Fault
  /\ UNCHANGED rowVars \/ WriteFail(w)
  /\ Leave(w)
  /\ UNCHANGED <<returned, killed>>

\* recover_stale_tasks, run by the loop between two tasks, for all queues.
Recover(w) ==
  /\ pc[w] = "idle"
  /\ \E t \in Tasks : Stale(t)
  /\ Requeue({t \in Tasks : Stale(t)}, [t \in Tasks |-> 0])
  /\ UNCHANGED <<runVars, histVars>>

-----------------------------------------------------------------------------

\* Ages saturate just above StaleAfter, beyond which nothing distinguishes
\* them.
Tick ==
  /\ hbAge' = [t \in Tasks |-> IF hbAge[t] = NoBeat THEN NoBeat
                               ELSE AtMost(hbAge[t] + 1, StaleAfter + 1)]
  /\ delay' = [t \in Tasks |-> AtLeast(delay[t] - 1, 0)]
  /\ timer' = [w \in Workers |-> IF cur[w] = NoTask THEN 0
                                 ELSE AtMost(timer[w] + 1, StaleAfter + 1)]
  /\ UNCHANGED <<status, attempts, maxAttempts, lockedBy,
                 pc, cur, attempt, histVars>>

ProducerStep == \E t \in Tasks : Enqueue(t) \/ Retry(t) \/ MoveToDead(t)

Claim(w) == \E t \in Tasks : ClaimSelect(w, t)

Report(w) == Complete(w) \/ Fail(w)

WorkerStep(w) ==
  \/ Start(w)
  \/ Stop(w)
  \/ Claim(w)
  \/ ClaimCommit(w)
  \/ ClaimLost(w)
  \/ ClaimRolledBack(w)
  \/ Heartbeat(w)
  \/ HeartbeatError(w)
  \/ HandlerReturns(w)
  \/ HandlerRaises(w)
  \/ Complete(w)
  \/ CompleteError(w)
  \/ Fail(w)
  \/ FailError(w)
  \/ Recover(w)

Next == ProducerStep \/ (\E w \in Workers : WorkerStep(w)) \/ Tick

Spec == Init /\ [][Next]_vars

\* The event loop is never blocked for long: a renewal or a claim is carried
\* out no later than the tick it is due.
TimelyTick ==
  /\ \A w \in Workers :
       pc[w] = "claiming" \/ (pc[w] \in Running /\ Owns(w))
         => timer[w] < HeartbeatEvery
  /\ Tick

TimelyNext ==
  ProducerStep \/ (\E w \in Workers : WorkerStep(w)) \/ TimelyTick

TimelySpec == Init /\ [][TimelyNext]_vars

\* A coroutine that can go on does, handlers end, time passes.  Nothing is
\* assumed of operators, crashes and database errors.
Fairness ==
  /\ WF_vars(Tick)
  /\ \A w \in Workers :
       /\ WF_vars(Start(w))
       /\ WF_vars(Claim(w))
       /\ WF_vars(ClaimCommit(w))
       /\ WF_vars(HandlerReturns(w) \/ HandlerRaises(w))
       /\ WF_vars(Report(w))
       /\ WF_vars(Recover(w))

FairSpec == Spec /\ Fairness

-----------------------------------------------------------------------------
(* Properties. *)

\* Every column and every worker-local value is of its kind.
TypeOK ==
  /\ status \in [Tasks -> Statuses]
  /\ attempts \in [Tasks -> Nat]
  /\ maxAttempts \in [Tasks -> Nat]
  /\ lockedBy \in [Tasks -> Workers \cup {NoWorker}]
  /\ hbAge \in [Tasks -> Nat \cup {NoBeat}]
  /\ delay \in [Tasks -> Nat]
  /\ pc \in [Workers -> Stages]
  /\ cur \in [Workers -> Tasks \cup {NoTask}]
  /\ attempt \in [Workers -> Nat]
  /\ timer \in [Workers -> Nat]
  /\ returned \in [Tasks -> SUBSET Nat]
  /\ killed \in SUBSET Tasks
  /\ faults \in 0 .. MaxFaults

\* A row that waits can still be claimed: whatever sequence of failures,
\* recoveries and retries led there, attempts are left for it, so that the
\* attempts < max_attempts of claim_next_task never hides a queued or failed
\* row for good; and no row is ever claimed more often than its budget.
NeverStranded ==
  \A t \in Tasks : /\ attempts[t] <= maxAttempts[t]
                   /\ status[t] \in Claimable => attempts[t] < maxAttempts[t]

\* The lease columns agree with the status: a row has an owner and a
\* heartbeat exactly while it is running.  Recovery, which looks at nothing
\* but running rows, therefore reaches every row some worker left behind.
LeaseConsistent ==
  \A t \in Tasks : /\ status[t] = "running" <=> lockedBy[t] # NoWorker
                   /\ status[t] = "running" <=> hbAge[t] # NoBeat

\* The guard of the reports compares worker identities only, never the number
\* of the attempt.  It is enough: a run that owns its row is the run of the
\* row's latest attempt, even when the same worker lost an earlier one.
OwnerRunsLatestAttempt ==
  \A w \in Workers : pc[w] \in Running /\ Owns(w) => attempt[w] = attempts[cur[w]]

\* A row succeeds by its latest attempt: a run that was given up and finishes
\* late never settles the attempt of another.
SuccessByLatestAttempt ==
  \A t \in Tasks : status[t] = "succeeded" => attempts[t] \in returned[t]

\* No task is given up early: a dead row has used every attempt, unless an
\* operator moved it there.
DeadIsExhausted ==
  \A t \in Tasks : status[t] = "dead" => attempts[t] >= maxAttempts[t] \/ t \in killed

\* A lease ends by the report of the run that holds it, or by expiry: no
\* other run, however late, takes a running row from its owner.
OnlyOwnerEndsLease ==
  \A t \in Tasks :
    status[t] = "running" /\ lockedBy'[t] # lockedBy[t]
      => \/ Stale(t)
         \/ \E w \in Workers : /\ w = lockedBy[t]
                               /\ cur[w] = t
                               /\ pc[w] \in {"completing", "failing"}

LeaseRespected == [][OnlyOwnerEndsLease]_vars

\* Success is final, and an attempt once counted is never taken back.
KeepsSettled ==
  \A t \in Tasks : /\ status[t] = "succeeded" => status'[t] = "succeeded"
                   /\ attempts'[t] >= attempts[t]

SettledStays == [][KeepsSettled]_vars

\* Two workers in the same row's claim would both run the task: the row lock
\* and SKIP LOCKED admit one, and the row it holds does not change under it.
ClaimExclusive ==
  /\ \A v, w \in Workers :
       v # w /\ pc[v] = "claiming" /\ pc[w] = "claiming" => cur[v] # cur[w]
  /\ \A w \in Workers : pc[w] = "claiming" => Due(w, cur[w])

\* The lease outlives a claim, an interval and MaxFaults lost renewals.
LeaseLongEnough == (MaxFaults + 2) * HeartbeatEvery <= StaleAfter

\* While the event loop is timely, the lease does what the heartbeat loop is
\* for: no running handler is mistaken for a dead one, so a task never runs
\* twice at the same time, MaxFaults lost renewals included.
NoOverlap ==
  \A v, w \in Workers :
    v # w /\ pc[v] \in Running /\ pc[w] \in Running => cur[v] # cur[w]

\* Every accepted task is settled, through crashes, lost claims and lost
\* reports, as long as one worker of its queue is left.
Settles ==
  \A t \in Tasks : status[t] \in Claimable \cup {"running"} ~> status[t] \in Final

\* The rows in the eyes of TaskContract, which the queue implements.
PhaseOf(s) ==
  CASE s = "absent" -> "none"
    [] s \in Claimable -> "waiting"
    [] s = "running" -> "leased"
    [] s = "succeeded" -> "done"
    [] OTHER -> "dead"

Contract == INSTANCE TaskContract WITH
  phase <- [t \in Tasks |-> PhaseOf(status[t])],
  holder <- lockedBy,
  executed <- {t \in Tasks : returned[t] # {}}

\* Each step of the queue is a step of the contract, or changes nothing the
\* contract speaks of.
KeepsContract == Contract!Spec

\* Who has a row is never in doubt: owner and heartbeat go with its status, no two
\* claims hold it, and the run that owns it is the run of its latest attempt.
LeasesHeld == LeaseConsistent /\ ClaimExclusive /\ OwnerRunsLatestAttempt

\* What a row came to, its latest attempt or the end of its budget brought about.
OutcomesEarned == SuccessByLatestAttempt /\ DeadIsExhausted

\* No late run takes a row from its owner, no success and no attempt is taken back.
HistoryRespected == LeaseRespected /\ SettledStays
=============================================================================
