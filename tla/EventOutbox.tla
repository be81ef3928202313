---------------------------- MODULE EventOutbox ----------------------------
(***************************************************************************)
(* The event outbox: one row of domain_events, its event_deliveries (one   *)
(* per subscriber), the transactions of services/event_center_service.py   *)
(* and the dispatchers of events/worker.py that claim the event and walk   *)
(* through its subscribers.                                                *)
(*                                                                         *)
(* Unlike the task queue, most of these transactions read without a lock   *)
(* and write what they computed from the read: such a transaction is two   *)
(* steps, between which its session holds a draft.  Reads see the state at *)
(* the transaction's first read (REPEATABLE READ); writes go to the        *)
(* current row, and only columns whose value the session changed are       *)
(* written.  What is read FOR UPDATE stays locked until the commit.        *)
(***************************************************************************)
EXTENDS Integers

CONSTANTS
  NumSubs,      \* subscribers matching the event, in the order of their names
  Dispatchers,  \* identities of the dispatcher loops
  Nobody,       \* locked_by = ""
  EventMax,     \* max_attempts of the event
  SubMax,       \* max_attempts of each subscription
  BackoffCap,   \* the 300 of the retry delay, in ticks
  Rounding,     \* ticks a DATETIME column may add to the instant it stores
  MaxRetries,   \* bound: operator retries
  MaxFaults     \* bound: crashes and database errors

Subs == 1 .. NumSubs

ASSUME OutboxAssumption ==
  /\ NumSubs \in Nat
  /\ Nobody \notin Dispatchers
  /\ EventMax \in Nat \ {0}
  /\ SubMax \in [Subs -> Nat \ {0}]
  /\ BackoffCap \in Nat \ {0}
  /\ Rounding \subseteq {0, 1} /\ Rounding # {}
  /\ MaxRetries \in Nat
  /\ MaxFaults \in Nat

VARIABLES
  \* the event
  status, attempts, maxAttempts, lockedBy,
  lease,      \* locked_at: "none" (NULL), "fresh", or "expired" (before the cutoff)
  delay,      \* available_at - now
  \* its deliveries
  dStatus,    \* "none" before the row is inserted
  dAttempts, dMax,
  dDelay,     \* next_attempt_at - now
  \* the dispatchers
  pc,
  at,         \* the subscription the loop is at
  draft,      \* what a session computed and has not written yet
  \* an operator's retry_event
  op,
  \* history and bounds
  returned,   \* subscribers whose handler returned normally
  retries, faults

eventVars    == <<status, attempts, maxAttempts, lockedBy, lease, delay>>
deliveryVars == <<dStatus, dAttempts, dMax, dDelay>>
runVars      == <<pc, at, draft>>
boundVars    == <<returned, retries, faults>>
vars == <<eventVars, deliveryVars, runVars, op, boundVars>>

EventStatuses    == {"absent", "pending", "dispatching", "published", "failed", "dead"}
DeliveryStatuses == {"none", "pending", "running", "succeeded", "failed", "dead"}
Walking == {"claimed", "ensuring", "walking", "handling", "completing", "succeeding",
            "failing", "recording", "finalizing", "leaving"}
Stages  == {"idle", "recovering"} \cup Walking

AtMost(n, cap)  == IF n < cap THEN n ELSE cap
AtLeast(n, low) == IF n > low THEN n ELSE low

\* min(300, 2 ** max(0, attempts - 1))
Backoff(a) ==
  LET p == 2 ^ AtLeast(a - 1, 0)
  IN  IF p \in 0 .. BackoffCap THEN p ELSE BackoffCap

\* Writes prepared by a session: a status for some rows, one for the event,
\* and the delay that goes with a failure.
Draft(rows, event, wait) == [rows |-> rows, event |-> event, wait |-> wait]
Keep    == [s \in Subs |-> "keep"]
NoDraft == Draft(Keep, "keep", 0)
Drafts  == [rows: [Subs -> {"keep", "pending", "failed", "dead"}],
            event: {"keep", "published", "failed", "dead"},
            wait: Nat]

NoRetry == [busy |-> FALSE, rows |-> {}, attempts |-> 0,
            dAttempts |-> [s \in Subs |-> 0]]

Init ==
  /\ status = "absent"
  /\ attempts = 0
  /\ maxAttempts = EventMax
  /\ lockedBy = Nobody
  /\ lease = "none"
  /\ delay = 0
  /\ dStatus = [s \in Subs |-> "none"]
  /\ dAttempts = [s \in Subs |-> 0]
  /\ dMax = SubMax
  /\ dDelay = [s \in Subs |-> 0]
  /\ pc = [d \in Dispatchers |-> "idle"]
  /\ at = [d \in Dispatchers |-> 1]
  /\ draft = [d \in Dispatchers |-> NoDraft]
  /\ op = NoRetry
  /\ returned = {}
  /\ retries = 0
  /\ faults = 0

\* The event row is locked while a recovery is between its read and its commit.
Free == \A d \in Dispatchers : pc[d] # "recovering"

Goto(d, stage, s) ==
  /\ pc' = [pc EXCEPT ![d] = stage]
  /\ at' = [at EXCEPT ![d] = s]
  /\ draft' = [draft EXCEPT ![d] = NoDraft]

Leave(d)   == Goto(d, "idle", 1)
Advance(d) == Goto(d, "walking", at[d] + 1)

\* A session has read and computed; it has not written.
Prepare(d, stage, plan) ==
  /\ pc' = [pc EXCEPT ![d] = stage]
  /\ draft' = [draft EXCEPT ![d] = plan]
  /\ UNCHANGED at

Fault ==
  /\ faults < MaxFaults
  /\ faults' = faults + 1
  /\ UNCHANGED <<returned, retries>>

-----------------------------------------------------------------------------
(* The event. *)

\* publish_event_record, first insertion of its idempotency key.
Publish ==
  /\ status = "absent"
  /\ status' = "pending"
  /\ delay' \in Rounding
  /\ UNCHANGED <<attempts, maxAttempts, lockedBy, lease,
                 deliveryVars, runVars, op, boundVars>>

\* claim_next_event, FOR UPDATE SKIP LOCKED.
Claimable ==
  /\ status \in {"pending", "failed"}
  /\ delay = 0
  /\ attempts < maxAttempts

Claim(d) ==
  /\ pc[d] = "idle"
  /\ Claimable
  /\ status' = "dispatching"
  /\ attempts' = attempts + 1
  /\ lockedBy' = d
  /\ lease' = "fresh"
  /\ Goto(d, "claimed", 1)
  /\ UNCHANGED <<maxAttempts, delay, deliveryVars, op, boundVars>>

\* One UPDATE of _heartbeat_loop, which runs until the dispatch has left.
RenewsAny(d) == pc[d] \in Walking                       \* mutant
Renews(d) == pc[d] \in Walking /\ status = "dispatching" /\ lockedBy = d

Heartbeat(d) ==
  /\ Renews(d)
  /\ Free
  /\ lease' = "fresh"
  /\ UNCHANGED <<status, attempts, maxAttempts, lockedBy, delay,
                 deliveryVars, runVars, op, boundVars>>

\* What finalize_event makes of an event with these deliveries.
EventOutcomeLate ==                                     \* mutant
  IF \A s \in Subs : dStatus[s] \in {"none", "succeeded"} THEN "published"
  ELSE IF \/ \E s \in Subs : dStatus[s] = "dead"
          \/ attempts > maxAttempts THEN "dead"
  ELSE "failed"
EventOutcome ==
  IF \A s \in Subs : dStatus[s] \in {"none", "succeeded"} THEN "published"
  ELSE IF \/ \E s \in Subs : dStatus[s] = "dead"
          \/ attempts >= maxAttempts THEN "dead"
  ELSE "failed"

\* Seconds until a failed event is available again.
EventWait == Backoff(attempts)

FinalizeRead(d) ==
  /\ pc[d] = "walking"
  /\ at[d] > NumSubs
  /\ IF status = "dispatching"
     THEN Prepare(d, "finalizing", Draft(Keep, EventOutcome, EventWait))
     ELSE Goto(d, "leaving", 1)
  /\ UNCHANGED <<eventVars, deliveryVars, op, boundVars>>

FinalizeWrite(d) ==
  /\ pc[d] = "finalizing"
  /\ Free
  /\ status' = draft[d].event
  /\ lockedBy' = Nobody
  /\ lease' = "none"
  /\ delay' = IF draft[d].event = "failed" THEN draft[d].wait ELSE delay
  /\ Goto(d, "leaving", 1)
  /\ UNCHANGED <<attempts, maxAttempts, deliveryVars, op, boundVars>>

\* The heartbeat task has ended.
Finished(d) ==
  /\ pc[d] = "leaving"
  /\ Leave(d)
  /\ UNCHANGED <<eventVars, deliveryVars, op, boundVars>>

-----------------------------------------------------------------------------
(* The deliveries. *)

EnsureRead(d) ==
  /\ pc[d] = "claimed"
  /\ Prepare(d, "ensuring",
       Draft([s \in Subs |-> IF dStatus[s] = "none" THEN "pending" ELSE "keep"],
             "keep", 0))
  /\ UNCHANGED <<eventVars, deliveryVars, op, boundVars>>

\* The rows are inserted, unless one of them exists by now: uq_ed_event_sub
\* then fails the transaction and with it the dispatch.
EnsureWrite(d) ==
  /\ pc[d] = "ensuring"
  /\ LET new == {s \in Subs : draft[d].rows[s] = "pending"} IN
     IF \A s \in new : dStatus[s] = "none"
     THEN /\ dStatus' = [s \in Subs |-> IF s \in new THEN "pending" ELSE dStatus[s]]
          /\ \E r \in [Subs -> Rounding] :
               dDelay' = [s \in Subs |-> IF s \in new THEN r[s] ELSE dDelay[s]]
          /\ Goto(d, "walking", 1)
     ELSE /\ UNCHANGED <<dStatus, dDelay>>
          /\ Leave(d)
  /\ UNCHANGED <<dAttempts, dMax, eventVars, op, boundVars>>

\* start_delivery, FOR UPDATE: skips what is over and what is not due yet.
StartableAny(s) == dStatus[s] # "dead" /\ dDelay[s] = 0 \* mutant
Startable(s) == dStatus[s] \notin {"succeeded", "dead"} /\ dDelay[s] = 0

StartDelivery(d) ==
  /\ pc[d] = "walking"
  /\ at[d] \in Subs
  /\ LET s == at[d] IN
     IF Startable(s)
     THEN /\ dStatus' = [dStatus EXCEPT ![s] = "running"]
          /\ dAttempts' = [dAttempts EXCEPT ![s] = @ + 1]
          /\ Goto(d, "handling", s)
     ELSE /\ UNCHANGED <<dStatus, dAttempts>>
          /\ Advance(d)
  /\ UNCHANGED <<dMax, dDelay, eventVars, op, boundVars>>

Stage(d, from, to) ==
  /\ pc[d] = from
  /\ Goto(d, to, at[d])
  /\ UNCHANGED <<eventVars, deliveryVars, op, retries, faults>>

HandlerReturns(d) ==
  /\ Stage(d, "handling", "completing")
  /\ returned' = returned \cup {at[d]}

HandlerRaises(d) ==
  /\ Stage(d, "handling", "failing")
  /\ UNCHANGED returned

\* complete_delivery looks at the row and leaves it unless it is running.
CompleteRead(d) ==
  /\ pc[d] = "completing"
  /\ IF dStatus[at[d]] = "running" THEN Goto(d, "succeeding", at[d]) ELSE Advance(d)
  /\ UNCHANGED <<eventVars, deliveryVars, op, boundVars>>

CompleteWrite(d) ==
  /\ pc[d] = "succeeding"
  /\ dStatus' = [dStatus EXCEPT ![at[d]] = "succeeded"]
  /\ Advance(d)
  /\ UNCHANGED <<dAttempts, dMax, dDelay, eventVars, op, boundVars>>

\* complete_delivery raises, before or after its commit: the loop then
\* records a failure.
CompleteError(d) ==
  /\ pc[d] \in {"completing", "succeeding"}
  /\ Fault
  /\ \/ UNCHANGED dStatus
     \/ /\ pc[d] = "succeeding"
        /\ dStatus' = [dStatus EXCEPT ![at[d]] = "succeeded"]
  /\ Goto(d, "failing", at[d])
  /\ UNCHANGED <<dAttempts, dMax, dDelay, eventVars, op>>

\* What a failure or a recovery makes of a running row.
RowOutcome(s) == IF dAttempts[s] >= dMax[s] THEN "dead" ELSE "failed"

\* The drafted statuses reach the rows; a failed one waits.
WriteRows(plan) ==
  /\ dStatus' = [s \in Subs |-> IF plan.rows[s] = "keep" THEN dStatus[s]
                                ELSE plan.rows[s]]
  /\ dDelay' = [s \in Subs |-> IF plan.rows[s] = "failed" THEN plan.wait
                               ELSE dDelay[s]]
  /\ UNCHANGED <<dAttempts, dMax>>

\* fail_delivery leaves a row that is not running.
FailRead(d) ==
  /\ pc[d] = "failing"
  /\ LET s == at[d] IN
     IF dStatus[s] = "running"
     THEN Prepare(d, "recording",
            Draft([Keep EXCEPT ![s] = RowOutcome(s)], "keep", Backoff(dAttempts[s])))
     ELSE Advance(d)
  /\ UNCHANGED <<eventVars, deliveryVars, op, boundVars>>

FailWrite(d) ==
  /\ pc[d] = "recording"
  /\ WriteRows(draft[d])
  /\ Advance(d)
  /\ UNCHANGED <<eventVars, op, boundVars>>

-----------------------------------------------------------------------------
(* Recovery, retry, failures, time. *)

Stale == status = "dispatching" /\ lease \in {"none", "expired"}

\* What it makes of the deliveries.
RecoveredNone == Keep                                   \* mutant
Recovered == [s \in Subs |-> IF dStatus[s] = "running" THEN RowOutcome(s) ELSE "keep"]

\* recover_stale_events, run by an idle dispatcher, locks the stale event and
\* reads its running deliveries (these without a lock).
RecoverRead(d) ==
  /\ pc[d] = "idle"
  /\ Stale
  /\ Free
  /\ Prepare(d, "recovering",
       Draft(Recovered, IF attempts >= maxAttempts THEN "dead" ELSE "failed", 0))
  /\ UNCHANGED <<eventVars, deliveryVars, op, boundVars>>

RecoverWrite(d) ==
  /\ pc[d] = "recovering"
  /\ WriteRows(draft[d])
  /\ status' = draft[d].event
  /\ lockedBy' = Nobody
  /\ lease' = "none"
  /\ delay' = IF draft[d].event = "failed" THEN 0 ELSE delay
  /\ Leave(d)
  /\ UNCHANGED <<attempts, maxAttempts, op, boundVars>>

\* retry_event, which locks nothing.
RetryRead ==
  /\ ~op.busy
  /\ retries < MaxRetries
  /\ status \in {"failed", "dead"}
  /\ op' = [busy |-> TRUE,
            rows |-> {s \in Subs : dStatus[s] \in {"failed", "dead"}},
            attempts |-> attempts,
            dAttempts |-> dAttempts]
  /\ retries' = retries + 1
  /\ UNCHANGED <<eventVars, deliveryVars, runVars, returned, faults>>

RetryWrite ==
  /\ op.busy
  /\ Free
  /\ status' = "pending"
  /\ maxAttempts' = AtLeast(op.attempts + 1, maxAttempts)
  /\ delay' = 0
  /\ dStatus' = [s \in Subs |-> IF s \in op.rows THEN "pending" ELSE dStatus[s]]
  /\ dMax' = [s \in Subs |-> IF s \in op.rows
                             THEN AtLeast(op.dAttempts[s] + 1, dMax[s]) ELSE dMax[s]]
  /\ \E r \in [Subs -> Rounding] :
       dDelay' = [s \in Subs |-> IF s \in op.rows THEN r[s] ELSE dDelay[s]]
  /\ op' = NoRetry
  /\ UNCHANGED <<attempts, lockedBy, lease, dAttempts, runVars, boundVars>>

\* A run or a recovery ends with nothing more written: a database error that
\* escapes dispatch_event_once, or a crash, after which the service comes
\* back with a dispatcher in this one's place.
Abandon(d) ==
  /\ pc[d] # "idle"
  /\ Fault
  /\ Leave(d)
  /\ UNCHANGED <<eventVars, deliveryVars, op>>

\* The cutoff passes the event's locked_at.
Expire ==
  /\ status = "dispatching"
  /\ lease = "fresh"
  /\ lease' = "expired"
  /\ UNCHANGED <<status, attempts, maxAttempts, lockedBy, delay,
                 deliveryVars, runVars, op, boundVars>>

Tick ==
  /\ delay' = AtLeast(delay - 1, 0)
  /\ dDelay' = [s \in Subs |-> AtLeast(dDelay[s] - 1, 0)]
  /\ UNCHANGED <<status, attempts, maxAttempts, lockedBy, lease,
                 dStatus, dAttempts, dMax, runVars, op, boundVars>>

Walk(d) ==
  \/ EnsureRead(d) \/ EnsureWrite(d)
  \/ StartDelivery(d)
  \/ HandlerReturns(d) \/ HandlerRaises(d)
  \/ CompleteRead(d) \/ CompleteWrite(d)
  \/ FailRead(d) \/ FailWrite(d)
  \/ FinalizeRead(d) \/ FinalizeWrite(d)
  \/ Finished(d)

Recover(d) == RecoverRead(d) \/ RecoverWrite(d)

DispatcherStep(d) ==
  Claim(d) \/ Walk(d) \/ Heartbeat(d) \/ CompleteError(d) \/ Recover(d) \/ Abandon(d)

Common ==
  \/ Publish
  \/ \E d \in Dispatchers : DispatcherStep(d)
  \/ RetryRead \/ RetryWrite
  \/ Tick

\* Any lease may expire: the event loop may stall for longer than the lease.
Next == Common \/ Expire
Spec == Init /\ [][Next]_vars

\* The heartbeat keeps up: a lease expires only once its holder is gone.  By
\* then all backoffs are over: up to the ninth attempt they last 256 seconds
\* at most, and the lease 300, less one heartbeat interval of 30.
Attended == \E d \in Dispatchers : lockedBy = d /\ pc[d] \in Walking
TimelyExpire ==
  /\ ~Attended
  /\ \A s \in Subs : dDelay[s] = 0
  /\ Expire
TimelyNext == Common \/ TimelyExpire
TimelySpec == Init /\ [][TimelyNext]_vars

Fairness ==
  /\ WF_vars(Tick)
  /\ WF_vars(TimelyExpire)
  /\ \A d \in Dispatchers :
       WF_vars(Claim(d)) /\ WF_vars(Walk(d)) /\ WF_vars(Recover(d))

FairSpec == TimelySpec /\ Fairness

-----------------------------------------------------------------------------
(* Properties. *)

\* Every column and every session-local value is of its kind.
TypeOK ==
  /\ status \in EventStatuses
  /\ attempts \in Nat /\ maxAttempts \in Nat
  /\ lockedBy \in Dispatchers \cup {Nobody}
  /\ lease \in {"none", "fresh", "expired"}
  /\ delay \in Nat
  /\ dStatus \in [Subs -> DeliveryStatuses]
  /\ dAttempts \in [Subs -> Nat] /\ dMax \in [Subs -> Nat] /\ dDelay \in [Subs -> Nat]
  /\ pc \in [Dispatchers -> Stages]
  /\ at \in [Dispatchers -> 1 .. NumSubs + 1]
  /\ draft \in [Dispatchers -> Drafts]
  /\ op \in [busy: BOOLEAN, rows: SUBSET Subs, attempts: Nat, dAttempts: [Subs -> Nat]]
  /\ returned \in SUBSET Subs
  /\ retries \in 0 .. MaxRetries
  /\ faults \in 0 .. MaxFaults

\* A published event reached everybody: the handler of each subscriber has
\* returned normally at least once, whatever stalled, crashed, was retried
\* or was overwritten in between.
AtLeastOnce ==
  status = "published" => returned = Subs

\* The lease columns follow the status: an event being dispatched can expire,
\* so that recovery reaches it, and the UPDATE of the heartbeat never gives a
\* lease to an event that finalize_event or a recovery is done with.
LeaseFollowsStatus ==
  /\ status = "dispatching" => lockedBy # Nobody /\ lease # "none"
  /\ status \in {"published", "failed", "dead"} => lockedBy = Nobody /\ lease = "none"

\* A subscriber that has succeeded is done: its delivery never leaves
\* succeeded, so no retry of the event runs its handler again
\* (models/domain_event.py:76).
SucceededStays ==
  \A s \in Subs : dStatus[s] = "succeeded" => dStatus'[s] = "succeeded"

SucceededFinal == [][SucceededStays]_vars

Working(d) == pc[d] \in Walking \ {"leaving"}

\* Two dispatchers never work on the event at the same time.
SingleRun ==
  \A d, e \in Dispatchers :
    d # e => ~(Working(d) /\ Working(e))

\* start_delivery does not look at max_attempts: the budget of a subscriber
\* is kept by fail_delivery and recover_stale_events, which let no exhausted
\* row go back to waiting.
DeliveryBudget ==
  \A s \in Subs : /\ dAttempts[s] <= dMax[s]
                  /\ dStatus[s] \in {"pending", "failed"} => dAttempts[s] < dMax[s]

\* A waiting event can still be claimed: attempts are left for it.
NeverStranded ==
  status \in {"pending", "failed"} => attempts < maxAttempts

\* A delivery that failed is due by the time its event is dispatched again:
\* the two backoffs are computed apart, from different counters and at
\* different times, and a row that is not due costs the event an attempt.
RetryIsDue ==
  \A d \in Dispatchers :
    pc[d] = "walking" /\ at[d] \in Subs /\ dStatus[at[d]] = "failed"
      => dDelay[at[d]] = 0

\* Nothing is left running or half done when the event rests: a running
\* delivery belongs to an event that is being dispatched, which recovery
\* finds when its dispatcher is gone.
RunningIsAttended ==
  (\E s \in Subs : dStatus[s] = "running") => status = "dispatching"

\* An event is given up for a reason: its attempts are used up, or one of its
\* subscribers has used up its own.
DeadIsEarned ==
  status = "dead" => attempts >= maxAttempts \/ \E s \in Subs : dStatus[s] = "dead"

\* Every event handed to the outbox is published or given up in the end,
\* through crashes and database errors.
Settles ==
  status \in {"pending", "dispatching", "failed"} ~> status \in {"published", "dead"}

\* The dispatch of an event, as long as leases expire only for the dead: one dispatcher
\* runs it, no delivery beyond its budget, what waits can still be claimed and falls due,
\* and nothing is given up early.
DispatchSound ==
  /\ TypeOK /\ SingleRun /\ DeliveryBudget /\ NeverStranded
  /\ RetryIsDue /\ RunningIsAttended /\ DeadIsEarned

\* What holds whenever leases expire: a published event reached every subscriber, and the
\* lease columns agree with the status.
DeliverySound == TypeOK /\ AtLeastOnce /\ LeaseFollowsStatus
=============================================================================
