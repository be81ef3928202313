--------------------------- MODULE TaskQueueProofs ---------------------------
(***************************************************************************)
(* Proofs about TaskQueue, for every set of tasks and workers, every clock *)
(* setting and every bound.                                                *)
(*                                                                         *)
(* The safety properties hold together or not at all: a report is harmless *)
(* to other runs only because the lease columns agree with the status, a   *)
(* claim finds attempts left only because no recovery or retry strands a   *)
(* row, and so on.  IInv conjoins them with what ties a worker's program   *)
(* counter to the row in its hands.                                        *)
(***************************************************************************)
EXTENDS TaskQueue, TLAPS

\* What a worker holds: a row exactly while it claims or runs it, an attempt
\* number that was once the row's, and, past its handler, a recorded return.
RunConsistent ==
  \A w \in Workers :
    /\ pc[w] \in Running \cup {"claiming"} <=> cur[w] # NoTask
    /\ pc[w] = "completing" => attempt[w] \in returned[cur[w]]

\* A row that is not there has no attempts behind it.
FreshRows == \A t \in Tasks : status[t] = "absent" => attempts[t] = 0

IInv ==
  /\ TypeOK
  /\ FreshRows
  /\ NeverStranded
  /\ LeaseConsistent
  /\ ClaimExclusive
  /\ RunConsistent
  /\ OwnerRunsLatestAttempt
  /\ SuccessByLatestAttempt
  /\ DeadIsExhausted

\* The requested budget is clamped to at least one attempt.
LEMMA ClampPositive == ASSUME NEW n \in Int PROVE ClampMax(n) \in Nat /\ ClampMax(n) >= 1
  BY DEF ClampMax, AtMost, AtLeast

\* The retry delay is a number of ticks, however large the power.
LEMMA BackoffNat == ASSUME NEW a \in Nat PROVE Backoff(a) \in Nat
  BY ClockAssumption DEF Backoff

LEMMA RequeueType ==
  ASSUME TypeOK, NEW S \in SUBSET Tasks, NEW wait \in [Tasks -> Nat],
         Requeue(S, wait)
  PROVE  /\ status' \in [Tasks -> Statuses]
         /\ attempts' \in [Tasks -> Nat]
         /\ maxAttempts' \in [Tasks -> Nat]
         /\ lockedBy' \in [Tasks -> Workers \cup {NoWorker}]
         /\ hbAge' \in [Tasks -> Nat \cup {NoBeat}]
         /\ delay' \in [Tasks -> Nat]
  BY DEF Requeue, TypeOK, Statuses, Exhausted

LEMMA WriteFailType ==
  ASSUME TypeOK, NEW w \in Workers, WriteFail(w)
  PROVE  /\ status' \in [Tasks -> Statuses]
         /\ attempts' \in [Tasks -> Nat]
         /\ maxAttempts' \in [Tasks -> Nat]
         /\ lockedBy' \in [Tasks -> Workers \cup {NoWorker}]
         /\ hbAge' \in [Tasks -> Nat \cup {NoBeat}]
         /\ delay' \in [Tasks -> Nat]
  <1>1. CASE Owns(w)
    <2>1. [t \in Tasks |-> Backoff(attempts[t])] \in [Tasks -> Nat]
      BY BackoffNat DEF TypeOK
    <2>2. {cur[w]} \in SUBSET Tasks
      BY <1>1 DEF Owns, TypeOK
    <2> QED BY <1>1, <2>1, <2>2, RequeueType DEF WriteFail
  <1>2. CASE ~Owns(w)
    BY <1>2 DEF WriteFail, rowVars, TypeOK
  <1> QED BY <1>1, <1>2

LEMMA WriteCompleteType ==
  ASSUME TypeOK, NEW w \in Workers, WriteComplete(w)
  PROVE  /\ status' \in [Tasks -> Statuses]
         /\ attempts' \in [Tasks -> Nat]
         /\ maxAttempts' \in [Tasks -> Nat]
         /\ lockedBy' \in [Tasks -> Workers \cup {NoWorker}]
         /\ hbAge' \in [Tasks -> Nat \cup {NoBeat}]
         /\ delay' \in [Tasks -> Nat]
  BY DEF WriteComplete, rowVars, TypeOK, Statuses

LEMMA WriteClaimType ==
  ASSUME TypeOK, NEW w \in Workers, NEW t \in Tasks, WriteClaim(w, t)
  PROVE  /\ status' \in [Tasks -> Statuses]
         /\ attempts' \in [Tasks -> Nat]
         /\ maxAttempts' \in [Tasks -> Nat]
         /\ lockedBy' \in [Tasks -> Workers \cup {NoWorker}]
         /\ hbAge' \in [Tasks -> Nat \cup {NoBeat}]
         /\ delay' \in [Tasks -> Nat]
  BY DEF WriteClaim, TypeOK, Statuses

LEMMA InitType == Init => TypeOK
  BY ClockAssumption DEF Init, TypeOK, Statuses, Stages, NoBeat

\* The worker-local values after a jump of the program counter.
LEMMA GotoType ==
  ASSUME TypeOK, NEW w \in Workers, NEW l \in Stages,
         NEW t \in Tasks \cup {NoTask}, NEW a \in Nat, Goto(w, l, t, a)
  PROVE  /\ pc' \in [Workers -> Stages]
         /\ cur' \in [Workers -> Tasks \cup {NoTask}]
         /\ attempt' \in [Workers -> Nat]
         /\ timer' \in [Workers -> Nat]
  BY DEF Goto, TypeOK

LEMMA LeaveType ==
  ASSUME TypeOK, NEW w \in Workers, Leave(w)
  PROVE  /\ pc' \in [Workers -> Stages]
         /\ cur' \in [Workers -> Tasks \cup {NoTask}]
         /\ attempt' \in [Workers -> Nat]
         /\ timer' \in [Workers -> Nat]
  BY GotoType DEF Leave, Stages

\* A worker that claims or runs has a row of the table in its hands.
LEMMA RowInHand ==
  ASSUME TypeOK, RunConsistent, NEW w \in Workers,
         pc[w] \in Running \cup {"claiming"}
  PROVE  cur[w] \in Tasks
  BY DEF TypeOK, RunConsistent

\* Typing is preserved by every step.
LEMMA TypeStep == TypeOK /\ RunConsistent /\ [Next]_vars => TypeOK'
  <1> SUFFICES ASSUME TypeOK, RunConsistent, [Next]_vars PROVE TypeOK'
    OBVIOUS
  <1> USE DEF Statuses, NoBeat
  <1>1. ASSUME NEW t \in Tasks, Enqueue(t) PROVE TypeOK'
    <2>1. ClampMax(RequestedMax[t]) \in Nat
      BY QueueAssumption, ClampPositive
    <2>2. RequestedDelay[t] \in Nat
      BY QueueAssumption
    <2> QED BY <1>1, <2>1, <2>2 DEF Enqueue, TypeOK, runVars, histVars
  <1>2. ASSUME NEW t \in Tasks, Retry(t) PROVE TypeOK'
    <2>1. ExtendedBudget(t) \in Nat
      BY DEF TypeOK, ExtendedBudget, AtLeast
    <2> QED BY <1>2, <2>1 DEF Retry, TypeOK, runVars
  <1>3. ASSUME NEW t \in Tasks, MoveToDead(t) PROVE TypeOK'
    BY <1>3 DEF MoveToDead, TypeOK, runVars
  <1>4. ASSUME NEW w \in Workers, WorkerStep(w) PROVE TypeOK'
    <2> USE DEF TypeOK, histVars, rowVars
    <2>0. ASSUME Fault PROVE faults' \in 0 .. MaxFaults
      BY <2>0, ClockAssumption DEF Fault
    <2>1. CASE Start(w)
      BY <2>1 DEF Start, Step, Stages
    <2>2. CASE Stop(w)
      <3>1. Goto(w, "gone", NoTask, 0) BY <2>2 DEF Stop
      <3>2. "gone" \in Stages BY DEF Stages
      <3> QED BY <2>2, <3>1, <3>2, GotoType DEF Stop
    <2>3. ASSUME NEW t \in Tasks, ClaimSelect(w, t) PROVE TypeOK'
      <3>1. Goto(w, "claiming", t, 0) BY <2>3 DEF ClaimSelect
      <3>2. "claiming" \in Stages BY DEF Stages
      <3> QED BY <2>3, <3>1, <3>2, GotoType DEF ClaimSelect
    <2>4. CASE ClaimCommit(w)
      <3>1. cur[w] \in Tasks
        BY <2>4, RowInHand DEF ClaimCommit
      <3>2. Goto(w, "executing", cur[w], attempts[cur[w]] + 1)
        BY <2>4 DEF ClaimCommit
      <3>3. "executing" \in Stages
        BY DEF Stages, Running
      <3> QED BY <2>4, <3>1, <3>2, <3>3, WriteClaimType, GotoType DEF ClaimCommit
    <2>5. CASE ClaimLost(w)
      <3>1. cur[w] \in Tasks
        BY <2>5, RowInHand DEF ClaimLost
      <3> QED BY <2>5, <2>0, <3>1, WriteClaimType, LeaveType DEF ClaimLost
    <2>6. CASE ClaimRolledBack(w)
      BY <2>6, <2>0, LeaveType DEF ClaimRolledBack
    <2>7. CASE Heartbeat(w)
      BY <2>7 DEF Heartbeat
    <2>8. CASE HeartbeatError(w)
      BY <2>8, <2>0 DEF HeartbeatError
    <2>9. CASE HandlerReturns(w)
      <3>1. pc' \in [Workers -> Stages]
        BY <2>9 DEF HandlerReturns, Step, Stages, Running
      <3>2. cur[w] \in Tasks
        BY <2>9, RowInHand DEF HandlerReturns, Step, Running
      <3>3. returned' \in [Tasks -> SUBSET Nat]
        BY <2>9, <3>2 DEF HandlerReturns
      <3> QED BY <2>9, <3>1, <3>3 DEF HandlerReturns, Step
    <2>10. CASE HandlerRaises(w)
      BY <2>10 DEF HandlerRaises, Step, Stages, Running
    <2>11. CASE Complete(w)
      BY <2>11, WriteCompleteType, LeaveType DEF Complete
    <2>12. CASE CompleteError(w)
      BY <2>12, <2>0, WriteCompleteType DEF CompleteError, Step, Stages, Running
    <2>13. CASE Fail(w)
      BY <2>13, WriteFailType, LeaveType DEF Fail
    <2>14. CASE FailError(w)
      BY <2>14, <2>0, WriteFailType, LeaveType DEF FailError
    <2>15. CASE Recover(w)
      <3>1. [t \in Tasks |-> 0] \in [Tasks -> Nat] OBVIOUS
      <3>2. {t \in Tasks : Stale(t)} \in SUBSET Tasks OBVIOUS
      <3> QED BY <2>15, <3>1, <3>2, RequeueType DEF Recover, runVars
    <2> QED BY <1>4, <2>1, <2>2, <2>3, <2>4, <2>5, <2>6, <2>7, <2>8, <2>9,
               <2>10, <2>11, <2>12, <2>13, <2>14, <2>15 DEF WorkerStep, Claim
  <1>5. CASE Tick
    BY <1>5, ClockAssumption DEF Tick, TypeOK, histVars, AtMost, AtLeast
  <1>6. CASE UNCHANGED vars
    BY <1>6 DEF vars, rowVars, runVars, histVars, TypeOK
  <1> QED BY <1>1, <1>2, <1>3, <1>4, <1>5, <1>6 DEF Next, ProducerStep

-----------------------------------------------------------------------------
(* The inductive step, an operation at a time. *)

\* enqueue_task_record writes a row no worker has seen.
LEMMA EnqueueKeeps ==
  ASSUME IInv, TypeOK', NEW t \in Tasks, Enqueue(t) PROVE IInv'
  <1> USE DEF IInv, TypeOK, Enqueue, runVars, histVars
  <1>1. ClampMax(RequestedMax[t]) \in Nat /\ ClampMax(RequestedMax[t]) >= 1
    BY QueueAssumption, ClampPositive
  <1>2. FreshRows' BY DEF FreshRows
  <1>3. NeverStranded' BY <1>1 DEF NeverStranded, FreshRows, Claimable
  <1>4. LeaseConsistent' BY DEF LeaseConsistent
  <1>5. ClaimExclusive'
    BY RowInHand DEF ClaimExclusive, Due, Claimable
  <1>6. RunConsistent' BY DEF RunConsistent
  <1>7. OwnerRunsLatestAttempt' BY DEF OwnerRunsLatestAttempt, Owns
  <1>8. SuccessByLatestAttempt' BY DEF SuccessByLatestAttempt
  <1>9. DeadIsExhausted' BY DEF DeadIsExhausted
  <1> QED BY <1>2, <1>3, <1>4, <1>5, <1>6, <1>7, <1>8, <1>9

\* retry_task extends the budget of a row that no claim has locked.
LEMMA RetryKeeps ==
  ASSUME IInv, TypeOK', NEW t \in Tasks, Retry(t) PROVE IInv'
  <1> USE DEF IInv, TypeOK, Retry, runVars
  <1>1. /\ ExtendedBudget(t) \in Nat
        /\ ExtendedBudget(t) > attempts[t]
        /\ ExtendedBudget(t) >= maxAttempts[t]
    BY DEF ExtendedBudget, AtLeast
  <1>2. FreshRows' BY DEF FreshRows
  <1>3. NeverStranded' BY <1>1 DEF NeverStranded, Claimable
  <1>4. LeaseConsistent' BY DEF LeaseConsistent
  <1>5. ClaimExclusive' BY RowInHand DEF ClaimExclusive, Due, Claimable, Unlocked
  <1>6. RunConsistent' BY DEF RunConsistent
  <1>7. OwnerRunsLatestAttempt' BY DEF OwnerRunsLatestAttempt, Owns
  <1>8. SuccessByLatestAttempt' BY DEF SuccessByLatestAttempt
  <1>9. DeadIsExhausted' BY DEF DeadIsExhausted
  <1> QED BY <1>2, <1>3, <1>4, <1>5, <1>6, <1>7, <1>8, <1>9

\* move_task_to_dead refuses running rows, so it takes no lease away.
LEMMA MoveToDeadKeeps ==
  ASSUME IInv, TypeOK', NEW t \in Tasks, MoveToDead(t) PROVE IInv'
  <1> USE DEF IInv, TypeOK, MoveToDead, Killable, Final, runVars
  <1>2. FreshRows' BY DEF FreshRows
  <1>3. NeverStranded' BY DEF NeverStranded, Claimable
  <1>4. LeaseConsistent' BY DEF LeaseConsistent
  <1>5. ClaimExclusive' BY RowInHand DEF ClaimExclusive, Due, Claimable, Unlocked
  <1>6. RunConsistent' BY DEF RunConsistent
  <1>7. OwnerRunsLatestAttempt' BY DEF OwnerRunsLatestAttempt, Owns
  <1>8. SuccessByLatestAttempt' BY DEF SuccessByLatestAttempt
  <1>9. DeadIsExhausted' BY DEF DeadIsExhausted
  <1> QED BY <1>2, <1>3, <1>4, <1>5, <1>6, <1>7, <1>8, <1>9

\* A worker that lets go of its row and writes nothing: a crash, a cancelled
\* run, a claim rolled back.
LEMMA LetGoKeeps ==
  ASSUME IInv, TypeOK', NEW w \in Workers, NEW l \in {"idle", "gone"},
         Goto(w, l, NoTask, 0), UNCHANGED <<rowVars, returned, killed>>
  PROVE  IInv'
  <1> USE DEF IInv, TypeOK, Goto, rowVars
  <1>2. FreshRows' BY DEF FreshRows
  <1>3. NeverStranded' BY DEF NeverStranded
  <1>4. LeaseConsistent' BY DEF LeaseConsistent
  <1>5. ClaimExclusive' BY DEF ClaimExclusive, Due
  <1>6. RunConsistent' BY DEF RunConsistent, Running
  <1>7. OwnerRunsLatestAttempt' BY DEF OwnerRunsLatestAttempt, Owns, Running
  <1>8. SuccessByLatestAttempt' BY DEF SuccessByLatestAttempt
  <1>9. DeadIsExhausted' BY DEF DeadIsExhausted
  <1> QED BY <1>2, <1>3, <1>4, <1>5, <1>6, <1>7, <1>8, <1>9

\* A worker that moves on with the row it has: its handler ends, a report
\* raises before it is written, its loop begins.
LEMMA MoveOnKeeps ==
  ASSUME IInv, TypeOK', NEW w \in Workers,
         \/ Step(w, "unborn", "idle") /\ UNCHANGED returned
         \/ Step(w, "executing", "failing") /\ UNCHANGED returned
         \/ Step(w, "completing", "failing") /\ UNCHANGED returned
         \/ /\ Step(w, "executing", "completing")
            /\ returned' = [returned EXCEPT ![cur[w]] = @ \cup {attempt[w]}],
         UNCHANGED <<rowVars, killed>>
  PROVE  IInv'
  <1> USE DEF IInv, TypeOK, Step, rowVars
  <1>1. \A t \in Tasks : returned[t] \subseteq returned'[t]
    OBVIOUS
  <1>2. FreshRows' BY DEF FreshRows
  <1>3. NeverStranded' BY DEF NeverStranded
  <1>4. LeaseConsistent' BY DEF LeaseConsistent
  <1>5. ClaimExclusive' BY DEF ClaimExclusive, Due
  <1>6. RunConsistent' BY <1>1, RowInHand DEF RunConsistent, Running
  <1>7. OwnerRunsLatestAttempt' BY DEF OwnerRunsLatestAttempt, Owns, Running
  <1>8. SuccessByLatestAttempt' BY <1>1 DEF SuccessByLatestAttempt
  <1>9. DeadIsExhausted' BY DEF DeadIsExhausted
  <1> QED BY <1>2, <1>3, <1>4, <1>5, <1>6, <1>7, <1>8, <1>9

\* claim_next_task locks a due row that nobody has locked.
LEMMA ClaimSelectKeeps ==
  ASSUME IInv, TypeOK', NEW w \in Workers, NEW t \in Tasks, ClaimSelect(w, t)
  PROVE  IInv'
  <1> USE DEF IInv, TypeOK, ClaimSelect, Goto, rowVars, histVars
  <1>2. FreshRows' BY DEF FreshRows
  <1>3. NeverStranded' BY DEF NeverStranded
  <1>4. LeaseConsistent' BY DEF LeaseConsistent
  <1>5. ClaimExclusive' BY DEF ClaimExclusive, Due, Unlocked
  <1>6. RunConsistent' BY QueueAssumption DEF RunConsistent, Running
  <1>7. OwnerRunsLatestAttempt' BY DEF OwnerRunsLatestAttempt, Owns, Running
  <1>8. SuccessByLatestAttempt' BY DEF SuccessByLatestAttempt
  <1>9. DeadIsExhausted' BY DEF DeadIsExhausted
  <1> QED BY <1>2, <1>3, <1>4, <1>5, <1>6, <1>7, <1>8, <1>9

\* The write of a claim: the row gets an owner and a new attempt, while no
\* other claim holds it and no owner has it.
LEMMA WriteClaimKeeps ==
  ASSUME IInv, TypeOK', NEW w \in Workers, NEW t \in Tasks,
         pc[w] = "claiming", cur[w] = t, WriteClaim(w, t),
         \/ Goto(w, "executing", t, attempts[t] + 1)
         \/ Leave(w),
         UNCHANGED <<returned, killed>>
  PROVE  IInv'
  <1> USE DEF IInv, TypeOK, WriteClaim, Goto, Leave
  <1>1. /\ attempts[t] < maxAttempts[t]
        /\ status[t] \in Claimable
    BY DEF ClaimExclusive, Due
  <1>2. FreshRows' BY DEF FreshRows
  <1>3. NeverStranded' BY <1>1 DEF NeverStranded, Claimable
  <1>4. LeaseConsistent' BY QueueAssumption DEF LeaseConsistent, NoBeat
  <1>5. ClaimExclusive' BY DEF ClaimExclusive, Due
  <1>6. RunConsistent' BY QueueAssumption DEF RunConsistent, Running
  <1>7. OwnerRunsLatestAttempt'
    BY <1>1 DEF OwnerRunsLatestAttempt, Owns, Running, RunConsistent
  <1>8. SuccessByLatestAttempt' BY DEF SuccessByLatestAttempt
  <1>9. DeadIsExhausted' BY DEF DeadIsExhausted
  <1> QED BY <1>2, <1>3, <1>4, <1>5, <1>6, <1>7, <1>8, <1>9

LEMMA ClaimCommitKeeps ==
  ASSUME IInv, TypeOK', NEW w \in Workers, ClaimCommit(w) PROVE IInv'
  <1>1. cur[w] \in Tasks
    BY RowInHand DEF IInv, ClaimCommit
  <1> QED BY <1>1, WriteClaimKeeps DEF ClaimCommit, histVars

LEMMA ClaimLostKeeps ==
  ASSUME IInv, TypeOK', NEW w \in Workers, ClaimLost(w) PROVE IInv'
  <1>1. cur[w] \in Tasks
    BY RowInHand DEF IInv, ClaimLost
  <1> QED BY <1>1, WriteClaimKeeps DEF ClaimLost

\* heartbeat_task changes nothing but the age of a lease, and Tick nothing
\* but ages and delays that have not run out.
LEMMA ClockKeeps ==
  ASSUME IInv, TypeOK',
         UNCHANGED <<status, attempts, maxAttempts, lockedBy, pc, cur, attempt,
                     returned, killed>>,
         \A t \in Tasks : /\ hbAge[t] = NoBeat <=> hbAge'[t] = NoBeat
                          /\ delay[t] = 0 => delay'[t] = 0
  PROVE  IInv'
  <1> USE DEF IInv, TypeOK
  <1>2. FreshRows' BY DEF FreshRows
  <1>3. NeverStranded' BY DEF NeverStranded
  <1>4. LeaseConsistent' BY DEF LeaseConsistent
  <1>5. ClaimExclusive' BY RowInHand DEF ClaimExclusive, Due
  <1>6. RunConsistent' BY DEF RunConsistent
  <1>7. OwnerRunsLatestAttempt' BY DEF OwnerRunsLatestAttempt, Owns
  <1>8. SuccessByLatestAttempt' BY DEF SuccessByLatestAttempt
  <1>9. DeadIsExhausted' BY DEF DeadIsExhausted
  <1> QED BY <1>2, <1>3, <1>4, <1>5, <1>6, <1>7, <1>8, <1>9

LEMMA HeartbeatKeeps ==
  ASSUME IInv, TypeOK', NEW w \in Workers, Heartbeat(w) PROVE IInv'
  <1>1. hbAge[cur[w]] # NoBeat
    BY RowInHand DEF IInv, TypeOK, Heartbeat, Owns, LeaseConsistent
  <1> QED BY <1>1, ClockKeeps DEF Heartbeat, histVars, IInv, TypeOK, NoBeat

LEMMA TickKeeps ==
  ASSUME IInv, TypeOK', Tick PROVE IInv'
  <1>1. ASSUME NEW t \in Tasks
        PROVE  /\ hbAge[t] = NoBeat <=> hbAge'[t] = NoBeat
               /\ delay[t] = 0 => delay'[t] = 0
    BY ClockAssumption DEF Tick, IInv, TypeOK, NoBeat, AtMost, AtLeast
  <1> QED BY <1>1, ClockKeeps DEF Tick, histVars

\* What a step may do to a row: nothing, or end the lease it is under.
Kept(t) ==
  /\ status'[t] = status[t]
  /\ attempts'[t] = attempts[t]
  /\ maxAttempts'[t] = maxAttempts[t]
  /\ lockedBy'[t] = lockedBy[t]
  /\ hbAge'[t] = hbAge[t]
  /\ delay'[t] = delay[t]

Ended(t) ==
  /\ status[t] = "running"
  /\ lockedBy'[t] = NoWorker
  /\ hbAge'[t] = NoBeat
  /\ attempts'[t] = attempts[t]
  /\ maxAttempts'[t] = maxAttempts[t]
  /\ \/ status'[t] = "succeeded" /\ attempts[t] \in returned[t]
     \/ status'[t] = "failed" /\ attempts[t] < maxAttempts[t]
     \/ status'[t] = "dead" /\ attempts[t] >= maxAttempts[t]

\* Ending leases, and at most leaving the run that reported, keeps IInv.
LEMMA ReleaseKeeps ==
  ASSUME IInv, TypeOK', UNCHANGED <<returned, killed>>,
         \A t \in Tasks : Kept(t) \/ Ended(t),
         \/ UNCHANGED runVars
         \/ \E w \in Workers : Leave(w) \/ Step(w, "completing", "failing")
  PROVE  IInv'
  <1> USE DEF IInv, TypeOK, Kept, Ended
  <1>1. \A t \in Tasks : status[t] # "running" => Kept(t)
    OBVIOUS
  <1>2. FreshRows' BY DEF FreshRows
  <1>3. NeverStranded' BY DEF NeverStranded, Claimable
  <1>4. LeaseConsistent' BY DEF LeaseConsistent
  <1>5. ClaimExclusive'
    <2>1. \A w \in Workers : pc'[w] = "claiming" => pc[w] = "claiming" /\ cur'[w] = cur[w]
      BY DEF runVars, Leave, Goto, Step
    <2>2. \A w \in Workers : pc[w] = "claiming" => cur[w] \in Tasks /\ Due(w, cur[w])
      BY RowInHand DEF ClaimExclusive
    <2>3. \A w \in Workers : pc[w] = "claiming" => Kept(cur[w])
      BY <1>1, <2>2 DEF Due, Claimable
    <2> QED BY <2>1, <2>2, <2>3 DEF ClaimExclusive, Due
  <1>6. RunConsistent' BY DEF RunConsistent, Running, runVars, Leave, Goto, Step
  <1>7. OwnerRunsLatestAttempt'
    <2>1. \A w \in Workers : pc'[w] \in Running =>
            pc[w] \in Running /\ cur'[w] = cur[w] /\ attempt'[w] = attempt[w]
      BY DEF runVars, Leave, Goto, Step, Running
    <2>2. \A w \in Workers : pc[w] \in Running => cur[w] \in Tasks
      BY RowInHand
    <2> QED BY <2>1, <2>2, QueueAssumption DEF OwnerRunsLatestAttempt, Owns
  <1>8. SuccessByLatestAttempt' BY DEF SuccessByLatestAttempt
  <1>9. DeadIsExhausted' BY DEF DeadIsExhausted
  <1> QED BY <1>2, <1>3, <1>4, <1>5, <1>6, <1>7, <1>8, <1>9

LEMMA UnchangedIsKept ==
  ASSUME UNCHANGED rowVars PROVE \A t \in Tasks : Kept(t)
  BY DEF rowVars, Kept

LEMMA WriteCompleteEnds ==
  ASSUME IInv, NEW w \in Workers, pc[w] = "completing", WriteComplete(w)
  PROVE  \A t \in Tasks : Kept(t) \/ Ended(t)
  <1>1. CASE Owns(w)
    <2>1. cur[w] \in Tasks
      BY RowInHand DEF IInv, Running
    <2>2. attempts[cur[w]] \in returned[cur[w]]
      BY <1>1 DEF IInv, RunConsistent, OwnerRunsLatestAttempt, Running
    <2>3. status[cur[w]] = "running"
      BY <1>1 DEF Owns
    <2> QED BY <1>1, <2>1, <2>2, <2>3
            DEF WriteComplete, Kept, Ended, IInv, TypeOK
  <1>2. CASE ~Owns(w)
    BY <1>2, UnchangedIsKept DEF WriteComplete
  <1> QED BY <1>1, <1>2

LEMMA RequeueEnds ==
  ASSUME IInv, NEW S \in SUBSET Tasks, NEW wait \in [Tasks -> Nat],
         \A t \in S : status[t] = "running", Requeue(S, wait)
  PROVE  \A t \in Tasks : Kept(t) \/ Ended(t)
  BY DEF IInv, TypeOK, Requeue, Exhausted, Kept, Ended

LEMMA WriteFailEnds ==
  ASSUME IInv, NEW w \in Workers, WriteFail(w)
  PROVE  \A t \in Tasks : Kept(t) \/ Ended(t)
  <1>1. CASE Owns(w)
    <2>1. [t \in Tasks |-> Backoff(attempts[t])] \in [Tasks -> Nat]
      BY BackoffNat DEF IInv, TypeOK
    <2>2. {cur[w]} \in SUBSET Tasks /\ status[cur[w]] = "running"
      BY <1>1 DEF Owns, IInv, TypeOK
    <2> QED BY <1>1, <2>1, <2>2, RequeueEnds DEF WriteFail
  <1>2. CASE ~Owns(w)
    BY <1>2, UnchangedIsKept DEF WriteFail
  <1> QED BY <1>1, <1>2

LEMMA RecoverEnds ==
  ASSUME IInv, NEW w \in Workers, Recover(w)
  PROVE  \A t \in Tasks : Kept(t) \/ Ended(t)
  <1>1. [t \in Tasks |-> 0] \in [Tasks -> Nat] OBVIOUS
  <1>2. /\ {t \in Tasks : Stale(t)} \in SUBSET Tasks
        /\ \A t \in {u \in Tasks : Stale(u)} : status[t] = "running"
    BY DEF Stale
  <1> QED BY <1>1, <1>2, RequeueEnds DEF Recover

LEMMA InitInv == Init => IInv
  <1> SUFFICES ASSUME Init PROVE IInv OBVIOUS
  <1>1. TypeOK BY InitType
  <1>2. FreshRows /\ NeverStranded /\ LeaseConsistent
    BY DEF Init, FreshRows, NeverStranded, LeaseConsistent, Claimable
  <1>3. ClaimExclusive /\ RunConsistent
    BY DEF Init, ClaimExclusive, RunConsistent, Running
  <1>4. OwnerRunsLatestAttempt /\ SuccessByLatestAttempt /\ DeadIsExhausted
    BY DEF Init, OwnerRunsLatestAttempt, SuccessByLatestAttempt, DeadIsExhausted,
           Running
  <1> QED BY <1>1, <1>2, <1>3, <1>4 DEF IInv

LEMMA StepInv == IInv /\ [Next]_vars => IInv'
  <1> SUFFICES ASSUME IInv, [Next]_vars PROVE IInv' OBVIOUS
  <1>0. TypeOK'
    BY TypeStep DEF IInv
  <1>1. ASSUME NEW t \in Tasks, Enqueue(t) \/ Retry(t) \/ MoveToDead(t) PROVE IInv'
    BY <1>0, <1>1, EnqueueKeeps, RetryKeeps, MoveToDeadKeeps
  <1>2. ASSUME NEW w \in Workers, WorkerStep(w) PROVE IInv'
    <2>1. CASE Start(w)
      BY <2>1, <1>0, MoveOnKeeps DEF Start, histVars
    <2>2. CASE Stop(w)
      BY <2>2, <1>0, LetGoKeeps DEF Stop, histVars
    <2>3. CASE Claim(w)
      BY <2>3, <1>0, ClaimSelectKeeps DEF Claim
    <2>4. CASE ClaimCommit(w)
      BY <2>4, <1>0, ClaimCommitKeeps
    <2>5. CASE ClaimLost(w)
      BY <2>5, <1>0, ClaimLostKeeps
    <2>6. CASE ClaimRolledBack(w)
      BY <2>6, <1>0, LetGoKeeps DEF ClaimRolledBack, Leave
    <2>7. CASE Heartbeat(w)
      BY <2>7, <1>0, HeartbeatKeeps
    <2>8. CASE HeartbeatError(w)
      BY <2>8, <1>0, ClockKeeps DEF HeartbeatError, rowVars
    <2>9. CASE HandlerReturns(w)
      BY <2>9, <1>0, MoveOnKeeps DEF HandlerReturns
    <2>10. CASE HandlerRaises(w)
      BY <2>10, <1>0, MoveOnKeeps DEF HandlerRaises, histVars
    <2>11. CASE Complete(w)
      BY <2>11, <1>0, WriteCompleteEnds, ReleaseKeeps DEF Complete, histVars
    <2>12. CASE CompleteError(w)
      <3>1. \A t \in Tasks : Kept(t) \/ Ended(t)
        BY <2>12, WriteCompleteEnds, UnchangedIsKept DEF CompleteError, Step
      <3> QED BY <2>12, <3>1, <1>0, ReleaseKeeps DEF CompleteError
    <2>13. CASE Fail(w)
      BY <2>13, <1>0, WriteFailEnds, ReleaseKeeps DEF Fail, histVars
    <2>14. CASE FailError(w)
      <3>1. \A t \in Tasks : Kept(t) \/ Ended(t)
        BY <2>14, WriteFailEnds, UnchangedIsKept DEF FailError
      <3> QED BY <2>14, <3>1, <1>0, ReleaseKeeps DEF FailError
    <2>15. CASE Recover(w)
      BY <2>15, <1>0, RecoverEnds, ReleaseKeeps DEF Recover, histVars
    <2> QED BY <1>2, <2>1, <2>2, <2>3, <2>4, <2>5, <2>6, <2>7, <2>8, <2>9,
               <2>10, <2>11, <2>12, <2>13, <2>14, <2>15 DEF WorkerStep
  <1>3. CASE Tick
    BY <1>3, <1>0, TickKeeps
  <1>4. CASE UNCHANGED vars
    BY <1>4, <1>0, ClockKeeps DEF vars, rowVars, runVars, histVars
  <1> QED BY <1>1, <1>2, <1>3, <1>4 DEF Next, ProducerStep

\* The inductive invariant holds of every behaviour of the queue.
THEOREM Invariance == Spec => []IInv
  BY InitInv, StepInv, PTL DEF Spec

\* Columns and locals keep their types.
THEOREM TypeCorrect == Spec => []TypeOK
  <1>1. IInv => TypeOK BY DEF IInv
  <1> QED BY <1>1, Invariance, PTL

\* No row that waits has used up its attempts, and no row is claimed beyond
\* its budget.
THEOREM NothingStranded == Spec => []NeverStranded
  <1>1. IInv => NeverStranded BY DEF IInv
  <1> QED BY <1>1, Invariance, PTL

\* Owner and heartbeat are set exactly while a row runs, so recovery reaches
\* every row left behind.
THEOREM LeasesConsistent == Spec => []LeaseConsistent
  <1>1. IInv => LeaseConsistent BY DEF IInv
  <1> QED BY <1>1, Invariance, PTL

\* Two transactions never claim the same row.
THEOREM ClaimsExclusive == Spec => []ClaimExclusive
  <1>1. IInv => ClaimExclusive BY DEF IInv
  <1> QED BY <1>1, Invariance, PTL

\* Comparing worker identities is enough to fence off old attempts.
THEOREM OwnersCurrent == Spec => []OwnerRunsLatestAttempt
  <1>1. IInv => OwnerRunsLatestAttempt BY DEF IInv
  <1> QED BY <1>1, Invariance, PTL

\* A row only succeeds by its latest attempt.
THEOREM SuccessesCurrent == Spec => []SuccessByLatestAttempt
  <1>1. IInv => SuccessByLatestAttempt BY DEF IInv
  <1> QED BY <1>1, Invariance, PTL

\* A row only dies exhausted, or by an operator.
THEOREM DeathsEarned == Spec => []DeadIsExhausted
  <1>1. IInv => DeadIsExhausted BY DEF IInv
  <1> QED BY <1>1, Invariance, PTL

\* Status, lease, claim and run of a row never disagree.
THEOREM LeasesStayHeld == Spec => []LeasesHeld
  <1>1. IInv => LeasesHeld BY DEF IInv, LeasesHeld
  <1> QED BY <1>1, Invariance, PTL

\* Success and death are earned.
THEOREM OutcomesStayEarned == Spec => []OutcomesEarned
  <1>1. IInv => OutcomesEarned BY DEF IInv, OutcomesEarned
  <1> QED BY <1>1, Invariance, PTL

-----------------------------------------------------------------------------
(* What a step may never do. *)

\* What a step does to a row: nothing that counts, admit it, kill it, claim
\* it, or end its lease, for which it must be stale or its owner reporting.
RowStep(t) ==
  \/ /\ status'[t] = status[t]
     /\ attempts'[t] = attempts[t]
     /\ lockedBy'[t] = lockedBy[t]
  \/ /\ status[t] \in {"absent", "failed", "dead"}
     /\ status'[t] = "queued"
     /\ attempts'[t] = attempts[t]
     /\ lockedBy'[t] = lockedBy[t]
  \/ /\ status[t] \in Claimable
     /\ status'[t] = "dead"
     /\ attempts'[t] = attempts[t]
     /\ lockedBy'[t] = lockedBy[t]
  \/ /\ status[t] \in Claimable
     /\ status'[t] = "running"
     /\ attempts'[t] = attempts[t] + 1
  \/ /\ Ended(t)
     /\ \/ Stale(t)
        \/ /\ lockedBy[t] \in Workers
           /\ cur[lockedBy[t]] = t
           /\ pc[lockedBy[t]] \in {"completing", "failing"}

LEMMA KeptIsRowStep ==
  ASSUME NEW t \in Tasks, Kept(t) PROVE RowStep(t)
  BY DEF Kept, RowStep

\* A report ends the lease of the row in the worker's hands, or nothing.
LEMMA ReportSteps ==
  ASSUME IInv, NEW w \in Workers, pc[w] \in {"completing", "failing"},
         (WriteComplete(w) /\ pc[w] = "completing") \/ WriteFail(w)
  PROVE  \A t \in Tasks : RowStep(t)
  <1>1. \A t \in Tasks : Kept(t) \/ Ended(t)
    BY WriteCompleteEnds, WriteFailEnds
  <1>2. CASE Owns(w)
    <2>1. \A t \in Tasks : t # cur[w] => Kept(t)
      BY <1>2 DEF WriteComplete, WriteFail, Requeue, Kept, IInv, TypeOK
    <2>2. lockedBy[cur[w]] = w
      BY <1>2 DEF Owns
    <2> QED BY <1>1, <2>1, <2>2, KeptIsRowStep DEF RowStep
  <1>3. CASE ~Owns(w)
    BY <1>3, UnchangedIsKept, KeptIsRowStep DEF WriteComplete, WriteFail
  <1> QED BY <1>2, <1>3

LEMMA RowSteps ==
  ASSUME IInv, [Next]_vars PROVE \A t \in Tasks : RowStep(t)
  <1> USE DEF IInv, TypeOK
  <1>1. ASSUME NEW u \in Tasks, Enqueue(u) \/ Retry(u) \/ MoveToDead(u)
        PROVE  \A t \in Tasks : RowStep(t)
    <2>1. CASE Enqueue(u)
      BY <2>1 DEF Enqueue, RowStep
    <2>2. CASE Retry(u)
      BY <2>2 DEF Retry, RowStep, LeaseConsistent
    <2>3. CASE MoveToDead(u)
      BY <2>3 DEF MoveToDead, Killable, Final, Statuses, RowStep, LeaseConsistent,
                  Claimable
    <2> QED BY <1>1, <2>1, <2>2, <2>3
  <1>2. ASSUME NEW w \in Workers, WorkerStep(w)
        PROVE  \A t \in Tasks : RowStep(t)
    <2>1. CASE UNCHANGED rowVars
      BY <2>1, UnchangedIsKept, KeptIsRowStep
    <2>2. CASE ClaimCommit(w) \/ ClaimLost(w)
      <3>1. cur[w] \in Tasks /\ WriteClaim(w, cur[w]) /\ Due(w, cur[w])
        BY <2>2, RowInHand DEF ClaimCommit, ClaimLost, ClaimExclusive
      <3> QED BY <3>1 DEF WriteClaim, RowStep, Due
    <2>3. CASE Heartbeat(w)
      BY <2>3 DEF Heartbeat, RowStep
    <2>4. CASE Complete(w) \/ CompleteError(w) \/ Fail(w) \/ FailError(w)
      BY <2>1, <2>4, ReportSteps
         DEF Complete, CompleteError, Fail, FailError, Step
    <2>5. CASE Recover(w)
      <3>1. \A t \in Tasks : Kept(t) \/ Ended(t)
        BY <2>5, RecoverEnds
      <3>2. \A t \in Tasks : ~Stale(t) => Kept(t)
        BY <2>5 DEF Recover, Requeue, Kept
      <3> QED BY <3>1, <3>2, KeptIsRowStep DEF RowStep
    <2> QED BY <1>2, <2>1, <2>2, <2>3, <2>4, <2>5
            DEF WorkerStep, Claim, Start, Stop, ClaimSelect, ClaimRolledBack,
                HeartbeatError, HandlerReturns, HandlerRaises, histVars
  <1>3. CASE Tick
    BY <1>3 DEF Tick, RowStep
  <1>4. CASE UNCHANGED vars
    BY <1>4, UnchangedIsKept, KeptIsRowStep DEF vars
  <1> QED BY <1>1, <1>2, <1>3, <1>4 DEF Next, ProducerStep

\* Only its owner's report, or expiry, ends a lease: a late run of an attempt
\* that was given up cannot.
THEOREM LeasesRespected == Spec => LeaseRespected
  <1>1. IInv /\ [Next]_vars => OnlyOwnerEndsLease
    BY RowSteps DEF RowStep, OnlyOwnerEndsLease, Claimable
  <1>2. IInv /\ [Next]_vars => [OnlyOwnerEndsLease]_vars
    BY <1>1
  <1> QED BY <1>2, Invariance, PTL DEF Spec, LeaseRespected

\* Success is final and attempts only grow.
THEOREM SettledStaysSettled == Spec => SettledStays
  <1>1. IInv /\ [Next]_vars => KeepsSettled
    BY RowSteps DEF RowStep, KeepsSettled, Claimable, Ended, IInv, TypeOK
  <1>2. IInv /\ [Next]_vars => [KeepsSettled]_vars
    BY <1>1
  <1> QED BY <1>2, Invariance, PTL DEF Spec, SettledStays

\* Neither a late run nor any request undoes what was settled.
THEOREM HistoryStaysRespected == Spec => HistoryRespected
  BY LeasesRespected, SettledStaysSettled DEF HistoryRespected

-----------------------------------------------------------------------------
(* A timely worker keeps its lease. *)

\* An interval for the claim, and one for each of n renewals lost.
Slack(n) == HeartbeatEvery * (1 + n)

\* What a heartbeat may be late by: the time since the last renewal was tried,
\* and the slack of the claim and of the renewals lost so far.
AgeBound ==
  \A w \in Workers :
    pc[w] \in Running /\ Owns(w)
      => hbAge[cur[w]] <= timer[w] + Slack(faults)

TimerBound ==
  \A w \in Workers :
    pc[w] = "claiming" \/ (pc[w] \in Running /\ Owns(w))
      => timer[w] <= HeartbeatEvery

\* A run has its row, or has just completed it: nobody took it away.
RunnersKeepRow ==
  \A w \in Workers :
    pc[w] \in Running => Owns(w) \/ status[cur[w]] = "succeeded"

TInv == IInv /\ AgeBound /\ TimerBound /\ RunnersKeepRow /\ NoOverlap

LEMMA SlackGrows ==
  ASSUME NEW n \in Nat
  PROVE  /\ Slack(n) \in Nat
         /\ Slack(n) >= HeartbeatEvery
         /\ Slack(n + 1) = Slack(n) + HeartbeatEvery
  <1> DEFINE h == HeartbeatEvery
  <1>1. h \in Nat
    BY ClockAssumption
  <1> HIDE DEF h
  <1>2. h * n \in Nat
    BY <1>1
  <1>3. h * (1 + n) = h + h * n /\ h * (1 + (n + 1)) = h + h * n + h
    BY <1>1
  <1> QED BY <1>1, <1>2, <1>3 DEF Slack, h

LEMMA SlackBounded ==
  ASSUME NEW n \in Nat, NEW m \in Nat, n <= m
  PROVE  HeartbeatEvery + Slack(n) <= (m + 2) * HeartbeatEvery
  <1> DEFINE h == HeartbeatEvery
  <1>1. h \in Nat
    BY ClockAssumption
  <1> HIDE DEF h
  <1>2. PICK d \in Nat : m = n + d
    <2>1. m - n \in Nat /\ m = n + (m - n) OBVIOUS
    <2> QED BY <2>1
  <1>3. h * n \in Nat /\ h * d \in Nat
    BY <1>1
  <1>4. h * (1 + n) = h + h * n
    BY <1>1
  <1>5. (m + 2) * h = h * n + h * d + 2 * h
    BY <1>1, <1>2
  <1> QED BY <1>1, <1>3, <1>4, <1>5 DEF Slack, h

\* The lease of a run that has its row never reaches the cutoff.
LEMMA RunnersNotStale ==
  ASSUME TInv, LeaseLongEnough, NEW w \in Workers, pc[w] \in Running, Owns(w)
  PROVE  ~Stale(cur[w])
  <1> USE DEF TInv, IInv, TypeOK
  <1>1. cur[w] \in Tasks
    BY RowInHand
  <1>2. faults \in Nat /\ faults <= MaxFaults
    BY ClockAssumption
  <1>3. HeartbeatEvery + Slack(faults) <= (MaxFaults + 2) * HeartbeatEvery
    BY <1>2, SlackBounded, ClockAssumption
  <1>4. hbAge[cur[w]] \in Nat /\ timer[w] \in Nat
    BY <1>1 DEF Owns, LeaseConsistent, NoBeat
  <1>5. hbAge[cur[w]] <= timer[w] + Slack(faults)
    BY DEF AgeBound
  <1>6. timer[w] <= HeartbeatEvery
    BY DEF TimerBound
  <1>7. Slack(faults) \in Nat
    BY <1>2, SlackGrows
  <1>8. (MaxFaults + 2) * HeartbeatEvery <= StaleAfter
    BY DEF LeaseLongEnough
  <1>9. HeartbeatEvery + Slack(faults) <= StaleAfter
    <2> DEFINE x == (MaxFaults + 2) * HeartbeatEvery
    <2>1. x \in Nat BY ClockAssumption
    <2>2. HeartbeatEvery + Slack(faults) <= x /\ x <= StaleAfter BY <1>3, <1>8
    <2> HIDE DEF x
    <2> QED BY <2>1, <2>2, <1>7, ClockAssumption
  <1>10. hbAge[cur[w]] <= StaleAfter
    BY <1>4, <1>5, <1>6, <1>7, <1>9, ClockAssumption
  <1> QED BY <1>4, <1>10, ClockAssumption DEF Stale, NoBeat

\* A step that leaves the rows of the runs as they were, or completes them,
\* and lets workers move off their rows or on with them.
LEMMA TimelyQuiet ==
  ASSUME TInv, IInv', faults' \in {faults, faults + 1},
         \A v \in Workers : pc'[v] \in Running =>
           \/ status'[cur[v]] = "succeeded"
           \/ /\ status'[cur[v]] = status[cur[v]]
              /\ lockedBy'[cur[v]] = lockedBy[cur[v]]
              /\ hbAge'[cur[v]] = hbAge[cur[v]],
         \A v \in Workers :
           \/ /\ pc'[v] = pc[v] \/ {pc[v], pc'[v]} \subseteq Running
              /\ cur'[v] = cur[v]
              /\ timer'[v] = timer[v]
           \/ pc'[v] \notin Running /\ timer'[v] = 0
           \/ pc'[v] \notin Running \cup {"claiming"}
  PROVE  TInv'
  <1> USE DEF TInv
  <1>2. \A v \in Workers : pc'[v] \in Running =>
          pc[v] \in Running /\ cur'[v] = cur[v] /\ timer'[v] = timer[v]
    OBVIOUS
  <1>3. \A v \in Workers : pc'[v] \in Running /\ Owns(v)' =>
          Owns(v) /\ hbAge'[cur[v]] = hbAge[cur[v]]
    BY <1>2 DEF Owns
  <1>4. AgeBound'
    <2>1. Slack(faults) \in Nat /\ Slack(faults') \in Nat /\ Slack(faults') >= Slack(faults)
      BY SlackGrows, ClockAssumption DEF IInv, TypeOK
    <2>2. SUFFICES ASSUME NEW v \in Workers, pc'[v] \in Running, Owns(v)'
                   PROVE  hbAge'[cur'[v]] <= timer'[v] + Slack(faults')
      BY DEF AgeBound
    <2>3. Owns(v) /\ pc[v] \in Running /\ cur'[v] = cur[v] /\ timer'[v] = timer[v]
      BY <1>2, <1>3, <2>2
    <2>4. hbAge[cur[v]] <= timer[v] + Slack(faults)
      BY <2>3 DEF AgeBound
    <2>5. cur[v] \in Tasks /\ hbAge'[cur[v]] = hbAge[cur[v]]
      BY <1>3, <2>2, <2>3, RowInHand DEF IInv
    <2>6. hbAge[cur[v]] \in Nat /\ timer[v] \in Nat
      BY <2>3, <2>5 DEF IInv, TypeOK, Owns, LeaseConsistent, NoBeat
    <2> QED BY <2>1, <2>3, <2>4, <2>5, <2>6
  <1>5. TimerBound'
    BY <1>2, <1>3, ClockAssumption DEF TimerBound, Running
  <1>6. RunnersKeepRow'
    BY <1>2 DEF RunnersKeepRow, Owns
  <1>7. NoOverlap'
    BY <1>2 DEF NoOverlap
  <1> QED BY <1>4, <1>5, <1>6, <1>7

\* Every run has a row that is running or has succeeded.
LEMMA RunnerRows ==
  ASSUME TInv, NEW v \in Workers, pc[v] \in Running
  PROVE  cur[v] \in Tasks /\ status[cur[v]] \in {"running", "succeeded"}
  BY RowInHand DEF TInv, IInv, RunnersKeepRow, Owns

\* A claim gives the row its first runner, under a lease as old as the claim.
LEMMA TimelyClaim ==
  ASSUME TInv, IInv', faults' \in {faults, faults + 1},
         NEW w \in Workers, NEW t \in Tasks,
         pc[w] = "claiming", cur[w] = t, WriteClaim(w, t),
         \/ Goto(w, "executing", t, attempts[t] + 1)
         \/ Leave(w)
  PROVE  TInv'
  <1> USE DEF TInv, IInv, TypeOK, WriteClaim, Goto, Leave
  <1>1. status[t] \in Claimable
    BY DEF ClaimExclusive, Due
  <1>2. \A v \in Workers : pc[v] \in Running => v # w /\ cur[v] # t
    BY <1>1, RunnerRows DEF Running, Claimable
  <1>3. \A v \in Workers : v # w /\ pc'[v] \in Running => (Owns(v)' <=> Owns(v))
    BY <1>2 DEF Owns
  <1>4. /\ Slack(faults) \in Nat /\ Slack(faults') \in Nat
        /\ Slack(faults') >= Slack(faults) /\ Slack(faults') >= HeartbeatEvery
    BY SlackGrows, ClockAssumption
  <1>5. timer[w] <= HeartbeatEvery /\ timer[w] \in Nat
    BY DEF TimerBound
  <1>6. AgeBound'
    <2>1. SUFFICES ASSUME NEW v \in Workers, pc'[v] \in Running, Owns(v)'
                   PROVE  hbAge'[cur'[v]] <= timer'[v] + Slack(faults')
      BY DEF AgeBound
    <2>2. CASE v = w
      BY <2>1, <2>2, <1>4, <1>5, ClockAssumption DEF Running
    <2>3. CASE v # w
      <3>1. Owns(v) /\ pc[v] \in Running /\ cur[v] # t /\ cur[v] \in Tasks
        BY <2>1, <2>3, <1>2, <1>3, RowInHand
      <3>2. hbAge[cur[v]] \in Nat
        BY <3>1 DEF Owns, LeaseConsistent, NoBeat
      <3>3. hbAge[cur[v]] <= timer[v] + Slack(faults)
        BY <3>1 DEF AgeBound
      <3> QED BY <2>3, <3>1, <3>2, <3>3, <1>4
    <2> QED BY <2>2, <2>3
  <1>7. TimerBound'
    BY <1>3, ClockAssumption DEF TimerBound, Running
  <1>8. RunnersKeepRow'
    <2>1. \A v \in Workers : v # w /\ pc'[v] \in Running =>
            Owns(v)' \/ status'[cur'[v]] = "succeeded"
      BY <1>2, <1>3 DEF RunnersKeepRow
    <2>2. pc'[w] \in Running => Owns(w)'
      BY QueueAssumption DEF Owns, Running
    <2> QED BY <2>1, <2>2 DEF RunnersKeepRow
  <1>9. NoOverlap'
    BY <1>2 DEF NoOverlap, Running
  <1> QED BY <1>6, <1>7, <1>8, <1>9

\* A renewal makes the lease young; a lost one adds an interval of slack.
LEMMA TimelyHeartbeat ==
  ASSUME TInv, IInv', NEW w \in Workers, Heartbeat(w) \/ HeartbeatError(w)
  PROVE  TInv'
  <1> USE DEF TInv, IInv, TypeOK, Heartbeat, HeartbeatError, histVars, rowVars
  <1>0. cur[w] \in Tasks /\ status[cur[w]] = "running"
    BY RowInHand DEF Owns
  <1>1. /\ Slack(faults) \in Nat /\ Slack(faults') \in Nat
        /\ Slack(faults') >= Slack(faults)
        /\ Fault => Slack(faults') = Slack(faults) + HeartbeatEvery
    BY SlackGrows, ClockAssumption DEF Fault
  <1>2. \A v \in Workers : Owns(v)' <=> Owns(v)
    BY DEF Owns
  <1>3. AgeBound'
    <2>1. SUFFICES ASSUME NEW v \in Workers, pc'[v] \in Running, Owns(v)'
                   PROVE  hbAge'[cur'[v]] <= timer'[v] + Slack(faults')
      BY DEF AgeBound
    <2>2. /\ pc[v] \in Running /\ Owns(v) /\ cur'[v] = cur[v]
          /\ cur[v] \in Tasks /\ status[cur[v]] = "running"
      BY <2>1, <1>2, RowInHand DEF Owns
    <2>3. hbAge[cur[v]] <= timer[v] + Slack(faults) /\ timer[v] <= HeartbeatEvery
      BY <2>2 DEF AgeBound, TimerBound
    <2>4. hbAge[cur[v]] \in Nat /\ timer[v] \in Nat
      BY <2>2 DEF LeaseConsistent, NoBeat
    <2>5. CASE Heartbeat(w)
      <3>1. CASE cur[v] = cur[w]
        BY <2>2, <2>4, <2>5, <3>1, <1>1
      <3>2. CASE cur[v] # cur[w]
        BY <2>2, <2>3, <2>4, <2>5, <3>2, <1>1
      <3> QED BY <3>1, <3>2
    <2>6. CASE HeartbeatError(w)
      <3>1. CASE v = w
        BY <2>2, <2>3, <2>4, <2>6, <3>1, <1>1, ClockAssumption
      <3>2. CASE v # w
        BY <2>2, <2>3, <2>4, <2>6, <3>2, <1>1
      <3> QED BY <3>1, <3>2
    <2> QED BY <2>5, <2>6
  <1>4. TimerBound'
    BY <1>2, ClockAssumption DEF TimerBound
  <1>5. RunnersKeepRow'
    BY <1>2 DEF RunnersKeepRow
  <1>6. NoOverlap'
    BY DEF NoOverlap
  <1> QED BY <1>3, <1>4, <1>5, <1>6

\* Time passes only while no renewal is due.
LEMMA TimelyTicks ==
  ASSUME TInv, IInv', LeaseLongEnough, TimelyTick
  PROVE  TInv'
  <1> USE DEF TInv, IInv, TypeOK, TimelyTick, Tick, histVars
  <1>1. Slack(faults) \in Nat
    BY SlackGrows, ClockAssumption
  <1>2. \A v \in Workers : Owns(v)' <=> Owns(v)
    BY DEF Owns
  <1>3. \A v \in Workers :
          pc[v] = "claiming" \/ (pc[v] \in Running /\ Owns(v))
            => timer'[v] <= timer[v] + 1 /\ timer'[v] <= HeartbeatEvery
    BY ClockAssumption DEF AtMost, RunConsistent
  <1>4. AgeBound'
    <2>1. SUFFICES ASSUME NEW v \in Workers, pc[v] \in Running, Owns(v)
                   PROVE  hbAge'[cur[v]] <= timer'[v] + Slack(faults)
      BY <1>2 DEF AgeBound
    <2>2. cur[v] \in Tasks /\ hbAge[cur[v]] \in Nat /\ timer[v] \in Nat
      BY <2>1, RowInHand DEF Owns, LeaseConsistent, NoBeat
    <2>3. hbAge[cur[v]] <= timer[v] + Slack(faults) /\ timer[v] < HeartbeatEvery
      BY <2>1 DEF AgeBound
    <2>4. hbAge'[cur[v]] <= hbAge[cur[v]] + 1
      BY <2>2, ClockAssumption DEF AtMost, NoBeat
    <2>5. cur[v] # NoTask
      BY <2>1 DEF Owns
    <2>6. hbAge'[cur[v]] \in Nat /\ hbAge'[cur[v]] <= StaleAfter + 1
      BY <2>2, ClockAssumption DEF AtMost, NoBeat
    <2>7. CASE timer[v] < StaleAfter + 1
      <3>1. timer'[v] = timer[v] + 1
        BY <2>2, <2>5, <2>7 DEF AtMost
      <3> QED BY <1>1, <2>2, <2>3, <2>4, <2>6, <3>1
    <2>8. CASE ~(timer[v] < StaleAfter + 1)
      <3>1. timer'[v] = StaleAfter + 1
        BY <2>2, <2>5, <2>8, ClockAssumption DEF AtMost
      <3> QED BY <1>1, <2>2, <2>6, <3>1, ClockAssumption
    <2> QED BY <2>7, <2>8
  <1>5. TimerBound'
    BY <1>2, <1>3 DEF TimerBound
  <1>6. RunnersKeepRow'
    BY <1>2 DEF RunnersKeepRow
  <1>7. NoOverlap'
    BY DEF NoOverlap
  <1> QED BY <1>4, <1>5, <1>6, <1>7

\* A report concerns no other run's row.
LEMMA TimelyReport ==
  ASSUME TInv, IInv', faults' \in {faults, faults + 1}, NEW w \in Workers,
         \/ /\ UNCHANGED rowVars \/ WriteComplete(w)
            /\ Leave(w) \/ Step(w, "completing", "failing")
         \/ (UNCHANGED rowVars \/ WriteFail(w)) /\ Leave(w),
         pc[w] \in Running
  PROVE  TInv'
  <1> USE DEF TInv, IInv, TypeOK
  <1>1. ASSUME NEW v \in Workers, v # w, pc'[v] \in Running
        PROVE  /\ pc[v] \in Running /\ cur[v] \in Tasks /\ cur[v] # cur[w]
               /\ Kept(cur[v])
    <2>1. pc[v] \in Running /\ cur[v] \in Tasks
      BY <1>1, RowInHand DEF Leave, Goto, Step
    <2>2. cur[v] # cur[w]
      BY <1>1, <2>1 DEF NoOverlap
    <2> QED BY <2>1, <2>2 DEF WriteComplete, WriteFail, Requeue, rowVars, Kept
  <1>2. ASSUME pc'[w] \in Running
        PROVE  status'[cur[w]] = "succeeded" \/ Kept(cur[w])
    <2>1. UNCHANGED rowVars \/ WriteComplete(w)
      BY <1>2 DEF Leave, Goto, Running
    <2> QED BY <2>1, RowInHand DEF WriteComplete, rowVars, Kept
  <1>3. \A v \in Workers :
          \/ /\ pc'[v] = pc[v] \/ {pc[v], pc'[v]} \subseteq Running
             /\ cur'[v] = cur[v]
             /\ timer'[v] = timer[v]
          \/ pc'[v] \notin Running \cup {"claiming"}
    BY DEF Leave, Goto, Step, Running
  <1> QED BY <1>1, <1>2, <1>3, TimelyQuiet DEF Kept

LEMMA TimelyStep == LeaseLongEnough /\ TInv /\ [TimelyNext]_vars => TInv'
  <1> SUFFICES ASSUME LeaseLongEnough, TInv, [TimelyNext]_vars PROVE TInv'
    OBVIOUS
  <1>0. IInv'
    BY StepInv DEF TInv, TimelyNext, TimelyTick, Next
  <1> USE DEF TInv, IInv, TypeOK
  <1>1. ASSUME NEW t \in Tasks, Enqueue(t) \/ Retry(t) \/ MoveToDead(t) PROVE TInv'
    <2>1. \A v \in Workers : pc[v] \in Running => cur[v] # t
      BY <1>1, RunnerRows DEF Enqueue, Retry, MoveToDead, Killable, Final
    <2>2. UNCHANGED runVars /\ faults' = faults
      BY <1>1 DEF Enqueue, Retry, MoveToDead, histVars
    <2>3. \A v \in Workers : pc[v] \in Running =>
            /\ status'[cur[v]] = status[cur[v]]
            /\ lockedBy'[cur[v]] = lockedBy[cur[v]]
            /\ hbAge'[cur[v]] = hbAge[cur[v]]
      BY <1>1, <2>1, RowInHand DEF Enqueue, Retry, MoveToDead
    <2> QED BY <1>0, <2>2, <2>3, TimelyQuiet DEF runVars
  <1>2. ASSUME NEW w \in Workers, WorkerStep(w) PROVE TInv'
    <2>1. ASSUME UNCHANGED rowVars, faults' \in {faults, faults + 1},
                 \/ Step(w, "unborn", "idle")
                 \/ Step(w, "executing", "completing")
                 \/ Step(w, "executing", "failing")
                 \/ \E l \in {"idle", "gone", "claiming"}, t \in Tasks \cup {NoTask} :
                      Goto(w, l, t, 0)
          PROVE  TInv'
      BY <2>1, <1>0, TimelyQuiet DEF Step, Goto, Running, rowVars
    <2>2. CASE ClaimCommit(w) \/ ClaimLost(w)
      <3>1. cur[w] \in Tasks /\ pc[w] = "claiming"
        BY <2>2, RowInHand DEF ClaimCommit, ClaimLost
      <3> QED BY <2>2, <3>1, <1>0, TimelyClaim
              DEF ClaimCommit, ClaimLost, Fault, histVars
    <2>3. CASE Heartbeat(w) \/ HeartbeatError(w)
      BY <2>3, <1>0, TimelyHeartbeat
    <2>4. CASE Complete(w) \/ CompleteError(w) \/ Fail(w) \/ FailError(w)
      BY <2>4, <1>0, TimelyReport
         DEF Complete, CompleteError, Fail, FailError, Step, Fault, histVars, Running
    <2>5. CASE Recover(w)
      <3>1. \A v \in Workers : pc[v] \in Running =>
              /\ status'[cur[v]] = status[cur[v]]
              /\ lockedBy'[cur[v]] = lockedBy[cur[v]]
              /\ hbAge'[cur[v]] = hbAge[cur[v]]
        <4>1. \A v \in Workers : pc[v] \in Running =>
                cur[v] \in Tasks /\ ~Stale(cur[v])
          BY RowInHand, RunnersNotStale DEF RunnersKeepRow, Stale
        <4> QED BY <4>1, <2>5 DEF Recover, Requeue
      <3> QED BY <2>5, <3>1, <1>0, TimelyQuiet DEF Recover, runVars, histVars
    <2>6. CASE Start(w) \/ HandlerReturns(w) \/ HandlerRaises(w)
      BY <2>1, <2>6 DEF Start, HandlerReturns, HandlerRaises, histVars
    <2>7. CASE Stop(w)
      BY <2>1, <2>7 DEF Stop, histVars
    <2>8. CASE Claim(w)
      BY <2>1, <2>8 DEF Claim, ClaimSelect, histVars
    <2>9. CASE ClaimRolledBack(w)
      BY <2>1, <2>9 DEF ClaimRolledBack, Leave, Fault
    <2> QED BY <1>2, <2>2, <2>3, <2>4, <2>5, <2>6, <2>7, <2>8, <2>9 DEF WorkerStep
  <1>3. CASE TimelyTick
    BY <1>0, <1>3, TimelyTicks
  <1>4. CASE UNCHANGED vars
    BY <1>0, <1>4, TimelyQuiet DEF vars, rowVars, runVars, histVars
  <1> QED BY <1>1, <1>2, <1>3, <1>4 DEF TimelyNext, ProducerStep

\* As long as the event loop is timely and the lease outlives a claim, an
\* interval and the lost renewals, no task ever runs twice at the same time.
THEOREM LeaseExcludes ==
  ASSUME LeaseLongEnough PROVE TimelySpec => []NoOverlap
  <1>1. Init => TInv
    BY InitInv DEF Init, TInv, AgeBound, TimerBound, RunnersKeepRow, NoOverlap, Running
  <1>2. TInv /\ [TimelyNext]_vars => TInv'
    BY TimelyStep
  <1>3. TInv => NoOverlap
    BY DEF TInv
  <1> QED BY <1>1, <1>2, <1>3, PTL DEF TimelySpec

-----------------------------------------------------------------------------
(* The queue implements its contract. *)

LEMMA PhaseValues ==
  /\ PhaseOf("absent") = "none"
  /\ PhaseOf("queued") = "waiting"
  /\ PhaseOf("failed") = "waiting"
  /\ PhaseOf("running") = "leased"
  /\ PhaseOf("succeeded") = "done"
  /\ PhaseOf("dead") = "dead"
  BY DEF PhaseOf, Claimable

LEMMA ContractInit == Init => Contract!Init
  BY PhaseValues DEF Init, Contract!Init

\* Rows as they were, or under the same phase and owner, and no new return.
LEMMA ContractStutter ==
  ASSUME \A t \in Tasks : PhaseOf(status'[t]) = PhaseOf(status[t]),
         UNCHANGED <<lockedBy, returned>>
  PROVE  UNCHANGED Contract!vars
  BY DEF Contract!vars

\* A write that ends leases without success revokes them.
LEMMA RequeueRevokes ==
  ASSUME IInv, NEW S \in SUBSET Tasks, S # {}, NEW wait \in [Tasks -> Nat],
         \A t \in S : status[t] = "running", Requeue(S, wait), UNCHANGED returned
  PROVE  Contract!Revoke(S)
  <1> DEFINE outcome == [t \in S |-> IF Exhausted(t) THEN "dead" ELSE "waiting"]
  <1>1. outcome \in [S -> {"waiting", "dead"}]
    OBVIOUS
  <1>2. [t \in Tasks |-> PhaseOf(status'[t])]
          = [t \in Tasks |-> IF t \in S THEN outcome[t] ELSE PhaseOf(status[t])]
    BY PhaseValues DEF Requeue
  <1>3. \A t \in S : PhaseOf(status[t]) = "leased"
    BY PhaseValues
  <1>4. lockedBy' = [t \in Tasks |-> IF t \in S THEN NoWorker ELSE lockedBy[t]]
    BY DEF Requeue
  <1> HIDE DEF outcome
  <1> QED BY <1>1, <1>2, <1>3, <1>4 DEF Contract!Revoke

LEMMA FailRevokes ==
  ASSUME IInv, NEW w \in Workers, WriteFail(w), UNCHANGED returned
  PROVE  [Contract!Next]_(Contract!vars)
  <1>1. CASE Owns(w)
    <2>1. [t \in Tasks |-> Backoff(attempts[t])] \in [Tasks -> Nat]
      BY BackoffNat DEF IInv, TypeOK
    <2>2. {cur[w]} \in SUBSET Tasks /\ status[cur[w]] = "running"
      BY <1>1 DEF Owns, IInv, TypeOK
    <2>3. Contract!Revoke({cur[w]})
      BY <1>1, <2>1, <2>2, RequeueRevokes DEF WriteFail
    <2> QED BY <2>2, <2>3 DEF Contract!Next
  <1>2. CASE ~Owns(w)
    BY <1>2, ContractStutter DEF WriteFail, rowVars
  <1> QED BY <1>1, <1>2

LEMMA CompleteFinishes ==
  ASSUME IInv, NEW w \in Workers, pc[w] = "completing", WriteComplete(w),
         UNCHANGED returned
  PROVE  [Contract!Next]_(Contract!vars)
  <1>1. CASE Owns(w)
    <2>1. cur[w] \in Tasks /\ status[cur[w]] = "running"
      BY <1>1, RowInHand DEF IInv, Running, Owns
    <2>2. returned[cur[w]] # {}
      BY <1>1 DEF IInv, RunConsistent
    <2>3. [t \in Tasks |-> PhaseOf(status'[t])]
            = [[t \in Tasks |-> PhaseOf(status[t])] EXCEPT ![cur[w]] = "done"]
      BY <1>1, <2>1, PhaseValues DEF WriteComplete, IInv, TypeOK
    <2>4. Contract!Finish(cur[w])
      BY <1>1, <2>1, <2>2, <2>3, PhaseValues DEF WriteComplete, Contract!Finish
    <2> QED BY <2>1, <2>4 DEF Contract!Next
  <1>2. CASE ~Owns(w)
    BY <1>2, ContractStutter DEF WriteComplete, rowVars
  <1> QED BY <1>1, <1>2

LEMMA ClaimLeases ==
  ASSUME IInv, NEW w \in Workers, pc[w] = "claiming", WriteClaim(w, cur[w]),
         UNCHANGED returned
  PROVE  Contract!Next
  <1>1. cur[w] \in Tasks /\ status[cur[w]] \in Claimable
    BY RowInHand DEF IInv, ClaimExclusive, Due
  <1>2. [t \in Tasks |-> PhaseOf(status'[t])]
          = [[t \in Tasks |-> PhaseOf(status[t])] EXCEPT ![cur[w]] = "leased"]
    BY <1>1, PhaseValues DEF WriteClaim, IInv, TypeOK
  <1>3. PhaseOf(status[cur[w]]) = "waiting"
    BY <1>1, PhaseValues DEF Claimable
  <1>4. Contract!Lease(cur[w], w)
    BY <1>1, <1>2, <1>3 DEF Contract!Lease, WriteClaim
  <1> QED BY <1>1, <1>4 DEF Contract!Next

LEMMA ReturnExecutes ==
  ASSUME IInv, NEW w \in Workers, HandlerReturns(w) PROVE Contract!Next
  <1>1. cur[w] \in Tasks
    BY RowInHand DEF IInv, HandlerReturns, Step, Running
  <1>2. {t \in Tasks : returned'[t] # {}}
          = {t \in Tasks : returned[t] # {}} \cup {cur[w]}
    BY <1>1 DEF HandlerReturns, IInv, TypeOK
  <1>3. Contract!Execute(cur[w])
    BY <1>2 DEF Contract!Execute, HandlerReturns, rowVars
  <1>4. \E t \in Tasks : Contract!Execute(t)
    BY <1>1, <1>3 DEF Contract!Execute
  <1> QED BY <1>4 DEF Contract!Next

LEMMA ProducerContract ==
  ASSUME IInv, NEW t \in Tasks, Enqueue(t) \/ Retry(t) \/ MoveToDead(t)
  PROVE  [Contract!Next]_(Contract!vars)
  <1> USE DEF IInv, TypeOK
  <1>0. UNCHANGED returned /\ lockedBy' = lockedBy
    BY DEF Enqueue, Retry, MoveToDead, Killable, Final, histVars, LeaseConsistent
  <1>1. CASE Retry(t) /\ status[t] = "failed"
    <2>1. \A u \in Tasks : PhaseOf(status'[u]) = PhaseOf(status[u])
      BY <1>1, PhaseValues DEF Retry
    <2> QED BY <2>1, <1>0, ContractStutter
  <1>2. CASE Enqueue(t) \/ (Retry(t) /\ status[t] = "dead")
    <2>1. PhaseOf(status[t]) \in {"none", "dead"}
      BY <1>2, PhaseValues DEF Enqueue
    <2>2. [u \in Tasks |-> PhaseOf(status'[u])]
            = [[u \in Tasks |-> PhaseOf(status[u])] EXCEPT ![t] = "waiting"]
      BY <1>2, PhaseValues DEF Enqueue, Retry
    <2>3. Contract!Admit(t)
      BY <1>0, <2>1, <2>2 DEF Contract!Admit
    <2> QED BY <2>3 DEF Contract!Next
  <1>3. CASE MoveToDead(t)
    <2>1. PhaseOf(status[t]) = "waiting"
      BY <1>3, PhaseValues DEF MoveToDead, Killable, Final, Statuses
    <2>2. [u \in Tasks |-> PhaseOf(status'[u])]
            = [[u \in Tasks |-> PhaseOf(status[u])] EXCEPT ![t] = "dead"]
      BY <1>3, PhaseValues DEF MoveToDead
    <2>3. Contract!Abandon(t)
      BY <1>0, <2>1, <2>2 DEF Contract!Abandon
    <2> QED BY <2>3 DEF Contract!Next
  <1> QED BY <1>1, <1>2, <1>3 DEF Retry

LEMMA ContractStep == IInv /\ [Next]_vars => [Contract!Next]_(Contract!vars)
  <1> SUFFICES ASSUME IInv, [Next]_vars PROVE [Contract!Next]_(Contract!vars)
    OBVIOUS
  <1>1. ASSUME NEW t \in Tasks, Enqueue(t) \/ Retry(t) \/ MoveToDead(t)
        PROVE  [Contract!Next]_(Contract!vars)
    BY <1>1, ProducerContract
  <1>2. ASSUME NEW w \in Workers, WorkerStep(w)
        PROVE  [Contract!Next]_(Contract!vars)
    <2>1. CASE UNCHANGED rowVars /\ UNCHANGED returned
      BY <2>1, ContractStutter DEF rowVars
    <2>2. CASE ClaimCommit(w) \/ ClaimLost(w)
      BY <2>2, ClaimLeases DEF ClaimCommit, ClaimLost, histVars
    <2>3. CASE Heartbeat(w)
      BY <2>3, ContractStutter DEF Heartbeat, histVars
    <2>4. CASE HandlerReturns(w)
      BY <2>4, ReturnExecutes
    <2>5. CASE Complete(w) \/ CompleteError(w)
      BY <2>1, <2>5, CompleteFinishes DEF Complete, CompleteError, Step, histVars
    <2>6. CASE Fail(w) \/ FailError(w)
      BY <2>1, <2>6, FailRevokes DEF Fail, FailError, histVars
    <2>7. CASE Recover(w)
      <3>1. [t \in Tasks |-> 0] \in [Tasks -> Nat] OBVIOUS
      <3>2. /\ {t \in Tasks : Stale(t)} \in SUBSET Tasks
            /\ {t \in Tasks : Stale(t)} # {}
            /\ \A t \in {u \in Tasks : Stale(u)} : status[t] = "running"
        BY <2>7 DEF Stale, Recover
      <3>3. Contract!Revoke({t \in Tasks : Stale(t)})
        BY <2>7, <3>1, <3>2, RequeueRevokes DEF Recover, histVars
      <3> QED BY <3>2, <3>3 DEF Contract!Next
    <2> QED BY <1>2, <2>1, <2>2, <2>3, <2>4, <2>5, <2>6, <2>7
            DEF WorkerStep, Claim, Start, Stop, ClaimSelect, ClaimRolledBack,
                HeartbeatError, HandlerRaises, histVars
  <1>3. CASE Tick
    BY <1>3, ContractStutter DEF Tick, histVars
  <1>4. CASE UNCHANGED vars
    BY <1>4, ContractStutter DEF vars, rowVars, histVars
  <1> QED BY <1>1, <1>2, <1>3, <1>4 DEF Next, ProducerStep

\* The queue keeps the promise of TaskContract: one lease at a time, done only
\* after a normal return of the handler, done for good.
THEOREM QueueKeepsContract == Spec => KeepsContract
  BY ContractInit, ContractStep, Invariance, PTL DEF Spec, KeepsContract, Contract!Spec
=============================================================================
