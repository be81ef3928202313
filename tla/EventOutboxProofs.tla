-------------------------- MODULE EventOutboxProofs --------------------------
(***************************************************************************)
(* The invariants of EventOutbox, for every number of subscribers and      *)
(* dispatchers and every budget.                                           *)
(*                                                                         *)
(* A transaction writes what it computed from an earlier read, so an       *)
(* invariant about the rows is inductive only together with what every     *)
(* session still knows when it writes.  Whatever leases do, a session      *)
(* knows little (Knows): a row once there stays there, and a handler that  *)
(* returned has returned.  As long as leases expire only for the dead and  *)
(* no operator intervenes, it knows everything (Holds, Recovers): what it  *)
(* drafted is what it would draft now, for nobody else writes.             *)
(***************************************************************************)
EXTENDS EventOutbox, FiniteSetTheorems, WellFoundedInduction, TLAPS

\* The stages at which a dispatcher has one delivery in its hands, and those
\* after the deliveries were inserted.
AtRow   == {"handling", "completing", "succeeding", "failing", "recording"}
Ensured == Walking \ {"claimed", "ensuring"}

\* What a session knows at each stage, whoever else writes meanwhile.
Knows(d) ==
  /\ pc[d] \in AtRow => at[d] \in Subs
  /\ pc[d] \in {"completing", "succeeding"} => at[d] \in returned
  /\ pc[d] = "ensuring" =>
       \A s \in Subs : draft[d].rows[s] = "pending" \/ dStatus[s] # "none"
  /\ pc[d] \in Ensured => \A s \in Subs : dStatus[s] # "none"
  /\ pc[d] = "finalizing" =>
       /\ draft[d].event # "keep"
       /\ draft[d].event = "published" => returned = Subs
  /\ pc[d] = "recovering" => draft[d].event \in {"failed", "dead"}

SucceededReturned == \A s \in Subs : dStatus[s] = "succeeded" => s \in returned

IInv ==
  /\ TypeOK
  /\ AtLeastOnce
  /\ LeaseFollowsStatus
  /\ SucceededReturned
  /\ \A d \in Dispatchers : Knows(d)

-----------------------------------------------------------------------------
(* Kinds of values. *)

\* The retry delay is a number of ticks, however large the power.
LEMMA BackoffNat == ASSUME NEW a \in Nat PROVE Backoff(a) \in Nat
  BY OutboxAssumption DEF Backoff

\* Nothing prepared is a draft, and so is what a session prepares.
LEMMA DraftType ==
  /\ NoDraft \in Drafts
  /\ \A rows \in [Subs -> {"keep", "pending", "failed", "dead"}],
        event \in {"keep", "published", "failed", "dead"}, wait \in Nat :
       Draft(rows, event, wait) \in Drafts
  BY DEF NoDraft, Draft, Drafts, Keep

\* A jump of a dispatcher keeps the kinds of its locals.
LEMMA GotoType ==
  ASSUME TypeOK, NEW d \in Dispatchers, NEW stage \in Stages,
         NEW s \in 1 .. NumSubs + 1, Goto(d, stage, s)
  PROVE  /\ pc' \in [Dispatchers -> Stages]
         /\ at' \in [Dispatchers -> 1 .. NumSubs + 1]
         /\ draft' \in [Dispatchers -> Drafts]
  BY DraftType DEF Goto, TypeOK

LEMMA LeaveType ==
  ASSUME TypeOK, NEW d \in Dispatchers, Leave(d)
  PROVE  /\ pc' \in [Dispatchers -> Stages]
         /\ at' \in [Dispatchers -> 1 .. NumSubs + 1]
         /\ draft' \in [Dispatchers -> Drafts]
<1>1. 1 \in 1 .. NumSubs + 1
  BY OutboxAssumption
<1> QED
  BY <1>1, GotoType DEF Leave, Stages

LEMMA AdvanceType ==
  ASSUME TypeOK, NEW d \in Dispatchers, at[d] \in Subs, Advance(d)
  PROVE  /\ pc' \in [Dispatchers -> Stages]
         /\ at' \in [Dispatchers -> 1 .. NumSubs + 1]
         /\ draft' \in [Dispatchers -> Drafts]
<1>1. at[d] + 1 \in 1 .. NumSubs + 1
  BY OutboxAssumption DEF Subs
<1> QED
  BY <1>1, GotoType DEF Advance, Stages, Walking

LEMMA PrepareType ==
  ASSUME TypeOK, NEW d \in Dispatchers, NEW stage \in Stages, NEW plan \in Drafts,
         Prepare(d, stage, plan)
  PROVE  /\ pc' \in [Dispatchers -> Stages]
         /\ at' \in [Dispatchers -> 1 .. NumSubs + 1]
         /\ draft' \in [Dispatchers -> Drafts]
  BY DEF Prepare, TypeOK

\* The statuses a draft writes are statuses, and the waits are numbers.
LEMMA WriteRowsType ==
  ASSUME TypeOK, NEW plan \in Drafts, WriteRows(plan)
  PROVE  /\ dStatus' \in [Subs -> DeliveryStatuses]
         /\ dDelay' \in [Subs -> Nat]
         /\ dAttempts' \in [Subs -> Nat] /\ dMax' \in [Subs -> Nat]
  BY DEF WriteRows, TypeOK, Drafts, DeliveryStatuses

\* Rounding lengthens a wait by at most one tick.
LEMMA RoundingNat == Rounding \subseteq Nat
  BY OutboxAssumption

LEMMA InitType == Init => TypeOK
<1> SUFFICES ASSUME Init PROVE TypeOK
  OBVIOUS
<1>1. 1 \in 1 .. NumSubs + 1
  BY OutboxAssumption
<1>2. NoRetry \in [busy: BOOLEAN, rows: SUBSET Subs, attempts: Nat, dAttempts: [Subs -> Nat]]
  BY DEF NoRetry
<1>3. dMax \in [Subs -> Nat]
  BY OutboxAssumption DEF Init
<1>4. status \in EventStatuses /\ lease \in {"none", "fresh", "expired"}
  BY DEF Init, EventStatuses
<1>5. dStatus \in [Subs -> DeliveryStatuses] /\ pc \in [Dispatchers -> Stages]
  BY DEF Init, DeliveryStatuses, Stages
<1>6. draft \in [Dispatchers -> Drafts] /\ at \in [Dispatchers -> 1 .. NumSubs + 1]
  BY <1>1, DraftType DEF Init
<1>7. op \in [busy: BOOLEAN, rows: SUBSET Subs, attempts: Nat, dAttempts: [Subs -> Nat]]
  BY <1>2 DEF Init
<1>8. /\ attempts \in Nat /\ maxAttempts \in Nat /\ delay \in Nat
      /\ retries \in 0 .. MaxRetries /\ faults \in 0 .. MaxFaults
      /\ lockedBy \in Dispatchers \cup {Nobody} /\ returned \in SUBSET Subs
      /\ dAttempts \in [Subs -> Nat] /\ dDelay \in [Subs -> Nat]
  BY OutboxAssumption DEF Init
<1> QED
  BY <1>3, <1>4, <1>5, <1>6, <1>7, <1>8 DEF TypeOK

\* Every step of a dispatcher keeps the kinds of values.

LEMMA DispatcherKeepsType ==
  ASSUME NEW d \in Dispatchers, TypeOK, Knows(d), DispatcherStep(d)
  PROVE  TypeOK'
<1> USE DEF eventVars, deliveryVars, runVars, boundVars
<1>0. 1 \in 1 .. NumSubs + 1 /\ {"claimed", "walking", "leaving", "idle"} \subseteq Stages
  BY OutboxAssumption DEF Stages, Walking
<1>1. CASE Claim(d)
  <2>1. /\ pc' \in [Dispatchers -> Stages]
        /\ at' \in [Dispatchers -> 1 .. NumSubs + 1]
        /\ draft' \in [Dispatchers -> Drafts]
    BY <1>0, <1>1, GotoType DEF Claim
  <2> QED
    BY <1>1, <2>1 DEF Claim, TypeOK, EventStatuses
<1>2. CASE EnsureRead(d)
  <2>1. Draft([s \in Subs |-> IF dStatus[s] = "none" THEN "pending" ELSE "keep"],
              "keep", 0) \in Drafts
    BY DraftType
  <2>2. /\ pc' \in [Dispatchers -> Stages]
        /\ at' \in [Dispatchers -> 1 .. NumSubs + 1]
        /\ draft' \in [Dispatchers -> Drafts]
    BY <1>2, <2>1, PrepareType DEF EnsureRead, Stages, Walking
  <2> QED
    BY <1>2, <2>2 DEF EnsureRead, TypeOK
<1>3. CASE EnsureWrite(d)
  <2>1. /\ pc' \in [Dispatchers -> Stages]
        /\ at' \in [Dispatchers -> 1 .. NumSubs + 1]
        /\ draft' \in [Dispatchers -> Drafts]
    BY <1>0, <1>3, GotoType, LeaveType DEF EnsureWrite
  <2>2. dStatus' \in [Subs -> DeliveryStatuses] /\ dDelay' \in [Subs -> Nat]
    BY <1>3, RoundingNat DEF EnsureWrite, TypeOK, DeliveryStatuses
  <2> QED
    BY <1>3, <2>1, <2>2 DEF EnsureWrite, TypeOK
<1>4. CASE StartDelivery(d)
  <2>1. at[d] \in Subs
    BY <1>4 DEF StartDelivery
  <2>2. CASE Goto(d, "handling", at[d])
    <3>1. at[d] \in 1 .. NumSubs + 1 /\ "handling" \in Stages
      BY DEF TypeOK, Stages, Walking
    <3>2. /\ pc' \in [Dispatchers -> Stages]
          /\ at' \in [Dispatchers -> 1 .. NumSubs + 1]
          /\ draft' \in [Dispatchers -> Drafts]
      BY <2>2, <3>1, GotoType
    <3> QED
      BY <1>4, <3>2 DEF StartDelivery, TypeOK, DeliveryStatuses
  <2>3. CASE Advance(d) /\ UNCHANGED <<dStatus, dAttempts>>
    <3>1. /\ pc' \in [Dispatchers -> Stages]
          /\ at' \in [Dispatchers -> 1 .. NumSubs + 1]
          /\ draft' \in [Dispatchers -> Drafts]
      BY <2>1, <2>3, AdvanceType
    <3> QED
      BY <1>4, <2>3, <3>1 DEF StartDelivery, TypeOK
  <2> QED
    BY <1>4, <2>2, <2>3 DEF StartDelivery
<1>5. CASE HandlerReturns(d) \/ HandlerRaises(d)
  <2>1. at[d] \in Subs /\ at[d] \in 1 .. NumSubs + 1
    BY <1>5 DEF HandlerReturns, HandlerRaises, Stage, Knows, AtRow, TypeOK
  <2>2. /\ pc' \in [Dispatchers -> Stages]
        /\ at' \in [Dispatchers -> 1 .. NumSubs + 1]
        /\ draft' \in [Dispatchers -> Drafts]
    BY <1>5, <2>1, GotoType DEF HandlerReturns, HandlerRaises, Stage, Stages, Walking
  <2>3. returned' \in SUBSET Subs
    BY <1>5, <2>1 DEF HandlerReturns, HandlerRaises, TypeOK
  <2> QED
    BY <1>5, <2>2, <2>3 DEF HandlerReturns, HandlerRaises, Stage, TypeOK
<1>6. CASE CompleteRead(d)
  <2>1. at[d] \in Subs /\ at[d] \in 1 .. NumSubs + 1
    BY <1>6 DEF CompleteRead, Knows, AtRow, TypeOK
  <2>2. /\ pc' \in [Dispatchers -> Stages]
        /\ at' \in [Dispatchers -> 1 .. NumSubs + 1]
        /\ draft' \in [Dispatchers -> Drafts]
    BY <1>6, <2>1, GotoType, AdvanceType DEF CompleteRead, Stages, Walking
  <2> QED
    BY <1>6, <2>2 DEF CompleteRead, TypeOK
<1>7. CASE CompleteWrite(d)
  <2>1. at[d] \in Subs
    BY <1>7 DEF CompleteWrite, Knows, AtRow
  <2>2. /\ pc' \in [Dispatchers -> Stages]
        /\ at' \in [Dispatchers -> 1 .. NumSubs + 1]
        /\ draft' \in [Dispatchers -> Drafts]
    BY <1>7, <2>1, AdvanceType DEF CompleteWrite
  <2> QED
    BY <1>7, <2>2 DEF CompleteWrite, TypeOK, DeliveryStatuses
<1>8. CASE CompleteError(d)
  <2>1. at[d] \in Subs /\ at[d] \in 1 .. NumSubs + 1
    BY <1>8 DEF CompleteError, Knows, AtRow, TypeOK
  <2>2. /\ pc' \in [Dispatchers -> Stages]
        /\ at' \in [Dispatchers -> 1 .. NumSubs + 1]
        /\ draft' \in [Dispatchers -> Drafts]
    BY <1>8, <2>1, GotoType DEF CompleteError, Stages, Walking
  <2>3. dStatus' \in [Subs -> DeliveryStatuses]
    BY <1>8 DEF CompleteError, TypeOK, DeliveryStatuses
  <2>4. faults' \in 0 .. MaxFaults
    BY <1>8, OutboxAssumption DEF CompleteError, Fault, TypeOK
  <2> QED
    BY <1>8, <2>2, <2>3, <2>4 DEF CompleteError, Fault, TypeOK
<1>9. CASE FailRead(d)
  <2>1. at[d] \in Subs
    BY <1>9 DEF FailRead, Knows, AtRow
  <2>2. Draft([Keep EXCEPT ![at[d]] = RowOutcome(at[d])], "keep", Backoff(dAttempts[at[d]]))
          \in Drafts
    <3>1. Backoff(dAttempts[at[d]]) \in Nat
      BY <2>1, BackoffNat DEF TypeOK
    <3>2. [Keep EXCEPT ![at[d]] = RowOutcome(at[d])]
            \in [Subs -> {"keep", "pending", "failed", "dead"}]
      BY <2>1 DEF Keep, RowOutcome
    <3> QED
      BY <3>1, <3>2, DraftType
  <2>3. /\ pc' \in [Dispatchers -> Stages]
        /\ at' \in [Dispatchers -> 1 .. NumSubs + 1]
        /\ draft' \in [Dispatchers -> Drafts]
    BY <1>9, <2>1, <2>2, PrepareType, AdvanceType DEF FailRead, Stages, Walking
  <2> QED
    BY <1>9, <2>3 DEF FailRead, TypeOK
<1>10. CASE FailWrite(d)
  <2>1. at[d] \in Subs /\ draft[d] \in Drafts
    BY <1>10 DEF FailWrite, Knows, AtRow, TypeOK
  <2>2. /\ pc' \in [Dispatchers -> Stages]
        /\ at' \in [Dispatchers -> 1 .. NumSubs + 1]
        /\ draft' \in [Dispatchers -> Drafts]
    BY <1>10, <2>1, AdvanceType DEF FailWrite
  <2>3. /\ dStatus' \in [Subs -> DeliveryStatuses] /\ dDelay' \in [Subs -> Nat]
        /\ dAttempts' \in [Subs -> Nat] /\ dMax' \in [Subs -> Nat]
    BY <1>10, <2>1, WriteRowsType DEF FailWrite
  <2> QED
    BY <1>10, <2>2, <2>3 DEF FailWrite, TypeOK
<1>11. CASE FinalizeRead(d)
  <2>1. Draft(Keep, EventOutcome, EventWait) \in Drafts
    <3>1. EventWait \in Nat
      BY BackoffNat DEF EventWait, TypeOK
    <3>2. EventOutcome \in {"keep", "published", "failed", "dead"}
      BY DEF EventOutcome
    <3>3. Keep \in [Subs -> {"keep", "pending", "failed", "dead"}]
      BY DEF Keep
    <3> QED
      BY <3>1, <3>2, <3>3, DraftType
  <2>2. /\ pc' \in [Dispatchers -> Stages]
        /\ at' \in [Dispatchers -> 1 .. NumSubs + 1]
        /\ draft' \in [Dispatchers -> Drafts]
    BY <1>0, <1>11, <2>1, PrepareType, GotoType DEF FinalizeRead, Stages, Walking
  <2> QED
    BY <1>11, <2>2 DEF FinalizeRead, TypeOK
<1>12. CASE FinalizeWrite(d) /\ draft[d].event # "keep"
  <2>1. /\ pc' \in [Dispatchers -> Stages]
        /\ at' \in [Dispatchers -> 1 .. NumSubs + 1]
        /\ draft' \in [Dispatchers -> Drafts]
    BY <1>0, <1>12, GotoType DEF FinalizeWrite
  <2>2. draft[d].event \in {"published", "failed", "dead"} /\ draft[d].wait \in Nat
    BY <1>12 DEF TypeOK, Drafts
  <2> QED
    BY <1>12, <2>1, <2>2 DEF FinalizeWrite, TypeOK, EventStatuses
<1>13. CASE Finished(d)
  <2>1. /\ pc' \in [Dispatchers -> Stages]
        /\ at' \in [Dispatchers -> 1 .. NumSubs + 1]
        /\ draft' \in [Dispatchers -> Drafts]
    BY <1>13, LeaveType DEF Finished
  <2> QED
    BY <1>13, <2>1 DEF Finished, TypeOK
<1>14. CASE Heartbeat(d)
  BY <1>14 DEF Heartbeat, TypeOK
<1>15. CASE RecoverRead(d)
  <2>1. Recovered \in [Subs -> {"keep", "pending", "failed", "dead"}]
    BY DEF Recovered, RowOutcome
  <2>2. Draft(Recovered, IF attempts >= maxAttempts THEN "dead" ELSE "failed", 0) \in Drafts
    BY <2>1, DraftType
  <2>3. /\ pc' \in [Dispatchers -> Stages]
        /\ at' \in [Dispatchers -> 1 .. NumSubs + 1]
        /\ draft' \in [Dispatchers -> Drafts]
    BY <1>15, <2>2, PrepareType DEF RecoverRead, Stages
  <2> QED
    BY <1>15, <2>3 DEF RecoverRead, TypeOK
<1>16. CASE RecoverWrite(d) /\ draft[d].event # "keep"
  <2>1. /\ pc' \in [Dispatchers -> Stages]
        /\ at' \in [Dispatchers -> 1 .. NumSubs + 1]
        /\ draft' \in [Dispatchers -> Drafts]
    BY <1>16, LeaveType DEF RecoverWrite
  <2>2. draft[d] \in Drafts /\ draft[d].event \in {"published", "failed", "dead"}
    BY <1>16 DEF TypeOK, Drafts
  <2>3. /\ dStatus' \in [Subs -> DeliveryStatuses] /\ dDelay' \in [Subs -> Nat]
        /\ dAttempts' \in [Subs -> Nat] /\ dMax' \in [Subs -> Nat]
    BY <1>16, <2>2, WriteRowsType DEF RecoverWrite
  <2> QED
    BY <1>16, <2>1, <2>2, <2>3 DEF RecoverWrite, TypeOK, EventStatuses
<1>17. CASE Abandon(d)
  <2>1. /\ pc' \in [Dispatchers -> Stages]
        /\ at' \in [Dispatchers -> 1 .. NumSubs + 1]
        /\ draft' \in [Dispatchers -> Drafts]
    BY <1>17, LeaveType DEF Abandon
  <2>2. faults' \in 0 .. MaxFaults
    BY <1>17, OutboxAssumption DEF Abandon, Fault, TypeOK
  <2> QED
    BY <1>17, <2>1, <2>2 DEF Abandon, Fault, TypeOK
<1> QED
  BY <1>1, <1>2, <1>3, <1>4, <1>5, <1>6, <1>7, <1>8, <1>9, <1>10, <1>11, <1>12, <1>13,
     <1>14, <1>15, <1>16, <1>17 DEF DispatcherStep, Walk, Recover, Knows, FinalizeWrite, RecoverWrite

LEMMA OthersKeepType ==
  ASSUME TypeOK, Publish \/ RetryRead \/ RetryWrite \/ Tick \/ Expire
  PROVE  TypeOK'
<1> USE DEF eventVars, deliveryVars, runVars, boundVars
<1>1. CASE Publish
  BY <1>1, RoundingNat DEF Publish, TypeOK, EventStatuses
<1>2. CASE RetryRead
  <2>1. retries' \in 0 .. MaxRetries
    BY <1>2, OutboxAssumption DEF RetryRead, TypeOK
  <2>2. op' \in [busy: BOOLEAN, rows: SUBSET Subs, attempts: Nat, dAttempts: [Subs -> Nat]]
    BY <1>2 DEF RetryRead, TypeOK
  <2> QED
    BY <1>2, <2>1, <2>2 DEF RetryRead, TypeOK
<1>3. CASE RetryWrite
  <2>1. op' \in [busy: BOOLEAN, rows: SUBSET Subs, attempts: Nat, dAttempts: [Subs -> Nat]]
    BY <1>3 DEF RetryWrite, NoRetry
  <2>2. maxAttempts' \in Nat /\ dMax' \in [Subs -> Nat]
    BY <1>3 DEF RetryWrite, TypeOK, AtLeast
  <2>3. dStatus' \in [Subs -> DeliveryStatuses] /\ dDelay' \in [Subs -> Nat]
    BY <1>3, RoundingNat DEF RetryWrite, TypeOK, DeliveryStatuses
  <2> QED
    BY <1>3, <2>1, <2>2, <2>3 DEF RetryWrite, TypeOK, EventStatuses
<1>4. CASE Tick
  BY <1>4 DEF Tick, TypeOK, AtLeast
<1>5. CASE Expire
  BY <1>5 DEF Expire, TypeOK
<1> QED
  BY <1>1, <1>2, <1>3, <1>4, <1>5

-----------------------------------------------------------------------------
(* What sessions know. *)

\* The outbox forgets nothing: a row once inserted is there for good, and a
\* handler that returned has returned.
Monotone ==
  /\ returned \subseteq returned'
  /\ \A s \in Subs : dStatus[s] # "none" => dStatus'[s] # "none"

LEMMA StepsAreMonotone ==
  ASSUME TypeOK, Next
  PROVE  Monotone
<1> USE DEF eventVars, deliveryVars, runVars, boundVars, Monotone
<1>1. ASSUME NEW d \in Dispatchers, DispatcherStep(d) PROVE Monotone
  <2>1. CASE Claim(d)
    BY <2>1 DEF Claim
  <2>2. CASE EnsureRead(d) \/ EnsureWrite(d)
    BY <2>2 DEF EnsureRead, EnsureWrite, TypeOK
  <2>3. CASE StartDelivery(d)
    BY <2>3 DEF StartDelivery, TypeOK
  <2>4. CASE HandlerReturns(d) \/ HandlerRaises(d)
    BY <2>4 DEF HandlerReturns, HandlerRaises, Stage
  <2>5. CASE CompleteRead(d) \/ CompleteWrite(d)
    BY <2>5 DEF CompleteRead, CompleteWrite, TypeOK
  <2>6. CASE CompleteError(d)
    BY <2>6 DEF CompleteError, Fault, TypeOK
  <2>7. CASE FailRead(d) \/ FinalizeRead(d) \/ RecoverRead(d)
    BY <2>7 DEF FailRead, FinalizeRead, RecoverRead
  <2>8. CASE FailWrite(d) \/ RecoverWrite(d)
    <3>1. \A s \in Subs : draft[d].rows[s] # "none"
      BY DEF TypeOK, Drafts
    <3> QED
      BY <2>8, <3>1 DEF FailWrite, RecoverWrite, WriteRows
  <2>9. CASE FinalizeWrite(d) \/ Finished(d) \/ Heartbeat(d) \/ Abandon(d)
    BY <2>9 DEF FinalizeWrite, Finished, Heartbeat, Abandon, Fault
  <2> QED
    BY <1>1, <2>1, <2>2, <2>3, <2>4, <2>5, <2>6, <2>7, <2>8, <2>9
       DEF DispatcherStep, Walk, Recover
<1>2. CASE Publish \/ RetryRead \/ Tick \/ Expire
  BY <1>2 DEF Publish, RetryRead, Tick, Expire
<1>3. CASE RetryWrite
  BY <1>3 DEF RetryWrite
<1> QED
  BY <1>1, <1>2, <1>3 DEF Next, Common

\* What a session knows does not depend on what the others write.
LEMMA KnowledgeStays ==
  ASSUME TypeOK, TypeOK', Monotone, NEW d \in Dispatchers, Knows(d),
         pc'[d] = pc[d], at'[d] = at[d], draft'[d] = draft[d]
  PROVE  Knows(d)'
  BY DEF Knows, Monotone, TypeOK

\* A session that has left, or only claimed, knows nothing.
LEMMA KnowsNothing ==
  ASSUME NEW d \in Dispatchers, pc'[d] \in {"idle", "claimed"}
  PROVE  Knows(d)'
  BY DEF Knows, AtRow, Ensured, Walking

\* Each session finds out what it must know.
LEMMA DispatcherKnows ==
  ASSUME NEW d \in Dispatchers, TypeOK, TypeOK', SucceededReturned, Monotone,
         Knows(d), DispatcherStep(d)
  PROVE  Knows(d)'
<1> USE DEF eventVars, deliveryVars, runVars, boundVars
<1>1. CASE Claim(d) \/ Finished(d) \/ Abandon(d) \/ RecoverWrite(d)
  <2>1. pc'[d] \in {"idle", "claimed"}
    BY <1>1 DEF Claim, Finished, Abandon, RecoverWrite, Leave, Goto, TypeOK
  <2> QED
    BY <2>1, KnowsNothing
<1>2. CASE EnsureRead(d)
  BY <1>2 DEF EnsureRead, Prepare, Draft, TypeOK, Knows, AtRow, Ensured
<1>3. CASE EnsureWrite(d)
  <2>1. CASE Leave(d)
    BY <2>1, KnowsNothing DEF Leave, Goto, TypeOK
  <2>2. CASE Goto(d, "walking", 1)
    <3>1. ~Leave(d)
      BY <2>2 DEF Leave, Goto, TypeOK
    <3>2. \A s \in Subs : dStatus'[s] # "none"
      BY <1>3, <3>1 DEF EnsureWrite, Knows
    <3> QED
      BY <2>2, <3>2 DEF Goto, TypeOK, Knows, AtRow
  <2> QED
    BY <1>3, <2>1, <2>2 DEF EnsureWrite
<1>4. CASE StartDelivery(d)
  <2>1. pc'[d] = "walking" \/ (pc'[d] = "handling" /\ at'[d] \in Subs)
    BY <1>4 DEF StartDelivery, Advance, Goto, TypeOK
  <2>2. \A s \in Subs : dStatus[s] # "none"
    BY <1>4 DEF StartDelivery, Knows, Ensured, Walking
  <2> QED
    BY <2>1, <2>2 DEF Knows, AtRow, Monotone
<1>5. CASE HandlerReturns(d) \/ HandlerRaises(d)
  <2>1. at[d] \in Subs /\ \A s \in Subs : dStatus[s] # "none"
    BY <1>5 DEF HandlerReturns, HandlerRaises, Stage, Knows, AtRow, Ensured, Walking
  <2>2. /\ at'[d] = at[d] /\ pc'[d] \in {"completing", "failing"}
        /\ pc'[d] = "completing" => at[d] \in returned'
    BY <1>5 DEF HandlerReturns, HandlerRaises, Stage, Goto, TypeOK
  <2> QED
    BY <2>1, <2>2 DEF Knows, Monotone
<1>6. CASE CompleteRead(d) \/ CompleteWrite(d) \/ CompleteError(d)
  <2>1. /\ at[d] \in Subs /\ at[d] \in returned
        /\ \A s \in Subs : dStatus[s] # "none"
    BY <1>6 DEF CompleteRead, CompleteWrite, CompleteError, Knows, AtRow, Ensured, Walking
  <2>2. \/ pc'[d] = "walking"
        \/ pc'[d] \in {"succeeding", "failing"} /\ at'[d] = at[d]
    BY <1>6 DEF CompleteRead, CompleteWrite, CompleteError, Advance, Goto, TypeOK
  <2> QED
    BY <2>1, <2>2 DEF Knows, AtRow, Monotone
<1>7. CASE FailRead(d) \/ FailWrite(d)
  <2>1. at[d] \in Subs /\ \A s \in Subs : dStatus[s] # "none"
    BY <1>7 DEF FailRead, FailWrite, Knows, AtRow, Ensured, Walking
  <2>2. \/ pc'[d] = "walking"
        \/ pc'[d] = "recording" /\ at'[d] = at[d]
    BY <1>7 DEF FailRead, FailWrite, Prepare, Advance, Goto, TypeOK
  <2> QED
    BY <2>1, <2>2 DEF Knows, AtRow, Monotone
<1>8. CASE FinalizeRead(d)
  <2>1. \A s \in Subs : dStatus[s] # "none"
    BY <1>8 DEF FinalizeRead, Knows, Ensured, Walking
  <2>2. \/ pc'[d] = "leaving"
        \/ pc'[d] = "finalizing" /\ draft'[d].event = EventOutcome
    BY <1>8 DEF FinalizeRead, Prepare, Draft, Goto, TypeOK
  <2>3. EventOutcome # "keep" /\ (EventOutcome = "published" => returned = Subs)
    BY <2>1 DEF EventOutcome, SucceededReturned, TypeOK
  <2>4. returned' = returned /\ dStatus' = dStatus
    BY <1>8 DEF FinalizeRead
  <2> QED
    BY <2>1, <2>2, <2>3, <2>4 DEF Knows, AtRow
<1>9. CASE FinalizeWrite(d)
  <2>1. pc'[d] = "leaving" /\ \A s \in Subs : dStatus[s] # "none"
    BY <1>9 DEF FinalizeWrite, Goto, TypeOK, Knows, Ensured, Walking
  <2> QED
    BY <2>1 DEF Knows, AtRow, Monotone
<1>10. CASE Heartbeat(d)
  BY <1>10, KnowledgeStays DEF Heartbeat
<1>11. CASE RecoverRead(d)
  BY <1>11 DEF RecoverRead, Prepare, Draft, TypeOK, Knows, AtRow, Ensured, Walking
<1> QED
  BY <1>1, <1>2, <1>3, <1>4, <1>5, <1>6, <1>7, <1>8, <1>9, <1>10, <1>11
     DEF DispatcherStep, Walk, Recover

\* The program counter of one dispatcher is its own.
LEMMA OneMoves ==
  ASSUME NEW d \in Dispatchers, NEW r \in Dispatchers, r # d, TypeOK, DispatcherStep(d)
  PROVE  pc'[r] = pc[r] /\ at'[r] = at[r] /\ draft'[r] = draft[r]
<1> USE DEF eventVars, deliveryVars, runVars, boundVars, Goto, Prepare, TypeOK
<1>1. CASE Claim(d) \/ EnsureRead(d) \/ EnsureWrite(d) \/ StartDelivery(d)
  BY <1>1 DEF Claim, EnsureRead, EnsureWrite, StartDelivery, Leave, Advance
<1>2. CASE HandlerReturns(d) \/ HandlerRaises(d) \/ CompleteRead(d) \/ CompleteWrite(d)
  BY <1>2 DEF HandlerReturns, HandlerRaises, Stage, CompleteRead, CompleteWrite, Advance
<1>3. CASE FailRead(d) \/ FailWrite(d) \/ CompleteError(d) \/ Finished(d)
  BY <1>3 DEF FailRead, FailWrite, CompleteError, Finished, Leave, Advance
<1>4. CASE FinalizeRead(d) \/ FinalizeWrite(d) \/ Heartbeat(d)
  BY <1>4 DEF FinalizeRead, FinalizeWrite, Heartbeat
<1>5. CASE RecoverRead(d) \/ RecoverWrite(d) \/ Abandon(d)
  BY <1>5 DEF RecoverRead, RecoverWrite, Abandon, Leave
<1> QED
  BY <1>1, <1>2, <1>3, <1>4, <1>5 DEF DispatcherStep, Walk, Recover

\* Only the handler's return makes a delivery succeed.
LEMMA SuccessIsReturned ==
  ASSUME TypeOK, SucceededReturned, Monotone, \A d \in Dispatchers : Knows(d), Next
  PROVE  SucceededReturned'
<1> SUFFICES ASSUME NEW s \in Subs, dStatus'[s] = "succeeded", s \notin returned
             PROVE  FALSE
  BY DEF SucceededReturned, Monotone
<1>1. dStatus[s] # "succeeded"
  BY DEF SucceededReturned
<1> USE DEF eventVars, deliveryVars, runVars, boundVars
<1>2. ASSUME NEW d \in Dispatchers, DispatcherStep(d) PROVE FALSE
  <2>1. CASE CompleteWrite(d) \/ CompleteError(d)
    BY <1>1, <2>1 DEF CompleteWrite, CompleteError, Knows, TypeOK
  <2>2. CASE Claim(d) \/ EnsureRead(d) \/ EnsureWrite(d) \/ StartDelivery(d)
    BY <1>1, <2>2 DEF Claim, EnsureRead, EnsureWrite, StartDelivery, TypeOK
  <2>3. CASE HandlerReturns(d) \/ HandlerRaises(d) \/ CompleteRead(d) \/ FailRead(d)
    BY <1>1, <2>3 DEF HandlerReturns, HandlerRaises, Stage, CompleteRead, FailRead
  <2>4. CASE FailWrite(d) \/ RecoverWrite(d)
    <3>1. draft[d].rows[s] # "succeeded"
      BY DEF TypeOK, Drafts
    <3> QED
      BY <1>1, <2>4, <3>1 DEF FailWrite, RecoverWrite, WriteRows
  <2>5. CASE FinalizeRead(d) \/ FinalizeWrite(d) \/ Finished(d)
    BY <1>1, <2>5 DEF FinalizeRead, FinalizeWrite, Finished
  <2>6. CASE Heartbeat(d) \/ RecoverRead(d) \/ Abandon(d)
    BY <1>1, <2>6 DEF Heartbeat, RecoverRead, Abandon
  <2> QED
    BY <1>2, <2>1, <2>2, <2>3, <2>4, <2>5, <2>6 DEF DispatcherStep, Walk, Recover
<1>3. CASE Publish \/ RetryRead \/ RetryWrite \/ Tick \/ Expire
  BY <1>1, <1>3 DEF Publish, RetryRead, RetryWrite, Tick, Expire
<1> QED
  BY <1>2, <1>3 DEF Next, Common

\* Only finalize_event publishes, from deliveries that all succeeded; and who
\* changes the status clears the lease with it.
LEMMA StatusStaysSound ==
  ASSUME TypeOK, AtLeastOnce, LeaseFollowsStatus, Monotone, TypeOK',
         \A d \in Dispatchers : Knows(d), Next
  PROVE  AtLeastOnce' /\ LeaseFollowsStatus'
<1> USE DEF eventVars, deliveryVars, runVars, boundVars, AtLeastOnce, LeaseFollowsStatus
<1>1. ASSUME NEW d \in Dispatchers, DispatcherStep(d)
      PROVE  AtLeastOnce' /\ LeaseFollowsStatus'
  <2>1. CASE Claim(d)
    BY <2>1, OutboxAssumption DEF Claim
  <2>2. CASE FinalizeWrite(d)
    <3>1. /\ draft[d].event \in {"published", "failed", "dead"}
          /\ draft[d].event = "published" => returned = Subs
      BY <2>2 DEF FinalizeWrite, Knows, TypeOK, Drafts
    <3> QED
      BY <2>2, <3>1 DEF FinalizeWrite
  <2>3. CASE RecoverWrite(d)
    BY <2>3 DEF RecoverWrite, Knows
  <2>4. CASE Heartbeat(d)
    BY <2>4 DEF Heartbeat, Renews
  <2>5. CASE UNCHANGED eventVars
    BY <2>5 DEF TypeOK, Monotone
  <2> QED
    BY <1>1, <2>1, <2>2, <2>3, <2>4, <2>5
       DEF DispatcherStep, Walk, Recover, EnsureRead, EnsureWrite, StartDelivery,
           HandlerReturns, HandlerRaises, Stage, CompleteRead, CompleteWrite, CompleteError,
           FailRead, FailWrite, FinalizeRead, Finished, RecoverRead, Abandon
<1>2. CASE Publish \/ RetryRead \/ RetryWrite \/ Tick \/ Expire
  BY <1>2 DEF Publish, RetryRead, RetryWrite, Tick, Expire
<1> QED
  BY <1>1, <1>2 DEF Next, Common

LEMMA StepKeeps ==
  ASSUME IInv, [Next]_vars
  PROVE  IInv'
<1>1. CASE Next
  <2>1. Monotone
    BY <1>1, StepsAreMonotone DEF IInv
  <2>2. TypeOK'
    BY <1>1, DispatcherKeepsType, OthersKeepType DEF IInv, Next, Common
  <2>3. AtLeastOnce' /\ LeaseFollowsStatus' /\ SucceededReturned'
    BY <1>1, <2>1, <2>2, SuccessIsReturned, StatusStaysSound DEF IInv
  <2>4. ASSUME NEW r \in Dispatchers PROVE Knows(r)'
    <3>1. CASE DispatcherStep(r)
      BY <2>1, <2>2, <3>1, DispatcherKnows DEF IInv
    <3>2. CASE \E d \in Dispatchers : d # r /\ DispatcherStep(d)
      BY <2>1, <2>2, <3>2, OneMoves, KnowledgeStays DEF IInv
    <3>3. CASE Publish \/ RetryRead \/ RetryWrite \/ Tick \/ Expire
      <4>1. UNCHANGED runVars
        BY <3>3 DEF Publish, RetryRead, RetryWrite, Tick, Expire
      <4> QED
        BY <2>1, <2>2, <4>1, KnowledgeStays DEF IInv, runVars
    <3> QED
      BY <1>1, <3>1, <3>2, <3>3 DEF Next, Common
  <2> QED
    BY <2>2, <2>3, <2>4 DEF IInv
<1>2. CASE UNCHANGED vars
  <2> USE <1>2 DEF vars, eventVars, deliveryVars, runVars, boundVars
  <2>1. TypeOK'
    BY DEF IInv, TypeOK
  <2>2. AtLeastOnce' /\ LeaseFollowsStatus' /\ SucceededReturned'
    BY DEF IInv, AtLeastOnce, LeaseFollowsStatus, SucceededReturned
  <2>3. \A d \in Dispatchers : Knows(d)'
    BY <2>1, KnowledgeStays DEF IInv, Monotone
  <2> QED
    BY <2>1, <2>2, <2>3 DEF IInv
<1> QED
  BY <1>1, <1>2

LEMMA InitInv == Init => IInv
<1> SUFFICES ASSUME Init PROVE IInv
  OBVIOUS
<1>1. AtLeastOnce /\ LeaseFollowsStatus /\ SucceededReturned
  BY DEF Init, AtLeastOnce, LeaseFollowsStatus, SucceededReturned
<1>2. \A d \in Dispatchers : Knows(d)
  BY DEF Init, Knows, AtRow, Ensured, Walking
<1> QED
  BY <1>1, <1>2, InitType DEF IInv

LEMMA Invariance == Spec => []IInv
  BY InitInv, StepKeeps, PTL DEF Spec

\* Whenever leases expire, whatever crashes and whoever retries: a published
\* event has reached every subscriber, and the lease columns follow the status.
THEOREM DeliveryStaysSound == Spec => []DeliverySound
<1>1. IInv => DeliverySound
  BY DEF IInv, DeliverySound
<1> QED
  BY <1>1, Invariance, PTL

-----------------------------------------------------------------------------
(* Delays grow with attempts. *)

\* A set of numbers has a least one.
LEMMA Least ==
  ASSUME NEW S, S \subseteq Nat, S # {}
  PROVE  \E x \in S : \A y \in S : x <= y
<1> DEFINE Below(n) == 0 .. n
           T == {Below(n) : n \in S}
<1>1. IsWellFoundedOn(StrictSubsetOrdering(Nat), FiniteSubsetsOf(Nat))
  BY FS_StrictSubsetOrderingWellFounded
<1>2. T \subseteq FiniteSubsetsOf(Nat)
  <2>1. ASSUME NEW n \in S PROVE Below(n) \in FiniteSubsetsOf(Nat)
    <3>1. IsFiniteSet(0 .. n)
      BY FS_Interval
    <3>2. 0 .. n \subseteq Nat
      OBVIOUS
    <3> QED
      BY <3>1, <3>2 DEF FiniteSubsetsOf
  <2> QED
    BY <2>1
<1>3. T # {}
  OBVIOUS
<1>4. PICK b \in T : \A c \in T : ~(<<c, b>> \in StrictSubsetOrdering(Nat))
  <2> HIDE DEF T
  <2> QED BY <1>1, <1>2, <1>3, WFMin
<1>5. PICK x \in S : b = Below(x)
  BY <1>4
<1>6. ASSUME NEW y \in S, y < x PROVE FALSE
  <2>1. Below(y) \in T
    OBVIOUS
  <2>2. Below(y) \subseteq Below(x) /\ Below(y) # Below(x)
    <3>1. x \in Below(x) /\ x \notin Below(y)
      BY <1>6
    <3> QED
      BY <3>1, <1>6
  <2>3. Below(y) \subseteq Nat /\ Below(x) \subseteq Nat
    OBVIOUS
  <2>4. <<Below(y), Below(x)>> \in StrictSubsetOrdering(Nat)
    <3> HIDE DEF Below
    <3> QED BY <2>2, <2>3 DEF StrictSubsetOrdering
  <2> QED
    BY <1>4, <1>5, <2>1, <2>4
<1> QED
  BY <1>6

\* What 2 ^ n means, which the provers do not know.
PowersOfTwo == \A n \in Nat : 2 ^ n \in Nat /\ 2 ^ (n + 1) = 2 * 2 ^ n

\* A larger exponent, no smaller a power; a longer history, no shorter a delay.
LEMMA PowersGrow ==
  ASSUME PowersOfTwo, NEW a \in Nat, NEW b \in Nat, a <= b
  PROVE  2 ^ a <= 2 ^ b
<1> DEFINE S == {n \in Nat : a <= n /\ ~(2 ^ a <= 2 ^ n)}
<1> SUFFICES ASSUME S # {} PROVE FALSE
  OBVIOUS
<1>1. PICK n \in S : \A m \in S : n <= m
  BY Least
<1>2. n # a
  BY DEF PowersOfTwo
<1>3. n - 1 \in Nat /\ a <= n - 1 /\ n - 1 \notin S
  BY <1>1, <1>2
<1>4. 2 ^ a <= 2 ^ (n - 1)
  BY <1>3
<1>5. 2 ^ n = 2 * 2 ^ (n - 1) 
  <2>1. (n - 1) + 1 = n
    OBVIOUS
  <2> QED
    BY <1>3, <2>1 DEF PowersOfTwo
<1>6. 2 ^ (n - 1) \in Nat /\ 2 ^ a \in Nat
  BY <1>3 DEF PowersOfTwo
<1> QED
  BY <1>4, <1>5, <1>6

LEMMA BackoffGrows ==
  ASSUME PowersOfTwo, NEW a \in Nat, NEW b \in Nat, a <= b
  PROVE  Backoff(a) <= Backoff(b)
<1> DEFINE x == AtLeast(a - 1, 0)
           y == AtLeast(b - 1, 0)
<1>1. x \in Nat /\ y \in Nat /\ x <= y
  BY DEF AtLeast
<1> HIDE DEF x, y
<1>2. 2 ^ x <= 2 ^ y /\ 2 ^ x \in Nat /\ 2 ^ y \in Nat
  BY <1>1, PowersGrow DEF PowersOfTwo
<1>3. Backoff(a) = IF 2 ^ x \in 0 .. BackoffCap THEN 2 ^ x ELSE BackoffCap
  BY DEF Backoff, x
<1>4. Backoff(b) = IF 2 ^ y \in 0 .. BackoffCap THEN 2 ^ y ELSE BackoffCap
  BY DEF Backoff, y
<1> QED
  BY <1>2, <1>3, <1>4, OutboxAssumption

-----------------------------------------------------------------------------
(* Leases expire only for the dead, and no operator intervenes. *)

\* The dispatcher has not started delivery s in this run.
Owed(d, s) == s > at[d] \/ (s = at[d] /\ pc[d] \notin AtRow)

\* Who works holds the event alone, so what it has read is still so.
Holds(d) ==
  Working(d) =>
    /\ status = "dispatching" /\ lockedBy = d /\ lease = "fresh"
    /\ \A s \in Subs :
         /\ dStatus[s] = "running" => pc[d] \in AtRow /\ s = at[d]
         /\ Owed(d, s) => dAttempts[s] < attempts /\ (dStatus[s] = "failed" => dDelay[s] = 0)
    /\ pc[d] \in {"claimed", "ensuring"} => at[d] = 1
    /\ pc[d] = "ensuring" =>
         \A s \in Subs : draft[d].rows[s] = IF dStatus[s] = "none" THEN "pending" ELSE "keep"
    /\ pc[d] \in {"succeeding", "recording"} => dStatus[at[d]] = "running"
    /\ pc[d] = "recording" =>
         /\ draft[d].rows = [Keep EXCEPT ![at[d]] = RowOutcome(at[d])]
         /\ draft[d].wait = Backoff(dAttempts[at[d]])
    /\ pc[d] = "finalizing" =>
         draft[d].event = EventOutcome /\ draft[d].wait = EventWait /\ at[d] > NumSubs

\* So does a recovery: the event's run is over.
Recovers(d) ==
  pc[d] = "recovering" =>
    /\ status = "dispatching" /\ lease = "expired"
    /\ draft[d] = Draft(Recovered, IF attempts >= maxAttempts THEN "dead" ELSE "failed", 0)
    /\ \A e \in Dispatchers : pc[e] = "recovering" => e = d

\* A delivery starts at most once in each run, and waits for it no longer
\* than the event may.
RowsBounded ==
  \A s \in Subs :
    /\ dAttempts[s] <= attempts
    /\ dStatus[s] = "none" => dAttempts[s] = 0
    /\ dStatus[s] = "failed" => dDelay[s] <= Backoff(dAttempts[s])

\* When a run is over every wait is over, or over by the time of the next.
WaitsEnd ==
  /\ status = "dispatching" /\ lease = "expired" => \A s \in Subs : dDelay[s] = 0
  /\ status = "failed" => \A s \in Subs : dStatus[s] = "failed" => dDelay[s] <= delay
  /\ status \in {"absent", "pending"} => \A s \in Subs : dStatus[s] = "none"
  /\ status = "absent" => attempts < maxAttempts

Undisturbed == retries = 0 /\ ~op.busy /\ dMax = SubMax

RowsSound ==
  /\ DeliveryBudget /\ RowsBounded /\ WaitsEnd
  /\ RunningIsAttended /\ NeverStranded /\ DeadIsEarned

TimelyInv ==
  /\ IInv
  /\ Undisturbed
  /\ RowsSound
  /\ \A d \in Dispatchers : Holds(d) /\ Recovers(d)

\* Nobody works or recovers beside one who does, and nobody does before the
\* event is dispatched or after.
LEMMA Alone ==
  ASSUME TimelyInv, NEW d \in Dispatchers, NEW r \in Dispatchers, r # d,
         Working(d) \/ pc[d] = "recovering"
  PROVE  ~Working(r) /\ pc[r] # "recovering"
  BY DEF TimelyInv, Holds, Recovers, Working, Walking

LEMMA NobodyActs ==
  ASSUME TimelyInv, status # "dispatching", NEW d \in Dispatchers
  PROVE  ~Working(d) /\ pc[d] # "recovering"
  BY DEF TimelyInv, Holds, Recovers

\* What is unchanged stays sound.
LEMMA RowsUntouched ==
  ASSUME RowsSound, Undisturbed, UNCHANGED <<eventVars, deliveryVars, op, retries>>
  PROVE  RowsSound' /\ Undisturbed'
  BY DEF eventVars, deliveryVars, RowsSound, Undisturbed, DeliveryBudget, RowsBounded,
     WaitsEnd, RunningIsAttended, NeverStranded, DeadIsEarned

\* Done with a delivery, a dispatcher goes on to those it has not started.
LEMMA WalksOn ==
  ASSUME TypeOK, NEW d \in Dispatchers, Working(d), Holds(d), at[d] \in Subs,
         Advance(d), UNCHANGED <<eventVars, dAttempts>>, dStatus'[at[d]] # "running",
         \A r \in Subs \ {at[d]} : dStatus'[r] = dStatus[r] /\ dDelay'[r] = dDelay[r]
  PROVE  Holds(d)' /\ pc'[d] # "recovering"
<1>1. pc'[d] = "walking" /\ at'[d] = at[d] + 1
  BY DEF Advance, Goto, TypeOK
<1>2. ASSUME NEW r \in Subs, dStatus'[r] = "running" PROVE FALSE
  BY <1>2 DEF Holds
<1>3. ASSUME NEW r \in Subs, Owed(d, r)' PROVE r # at[d] /\ Owed(d, r)
  BY <1>1, <1>3 DEF Owed, AtRow, Subs
<1> QED
  BY <1>1, <1>2, <1>3 DEF Holds, eventVars

\* What a dispatcher that works does to its own knowledge and to the rows.
LEMMA WorkKeeps ==
  ASSUME PowersOfTwo, TimelyInv, TypeOK', NEW d \in Dispatchers, Working(d),
         Walk(d) \/ CompleteError(d)
  PROVE  Holds(d)' /\ RowsSound' /\ Undisturbed' /\ pc'[d] # "recovering"
<1> USE DEF eventVars, deliveryVars, runVars, boundVars, Working, Walking, AtRow
<1>0. /\ TypeOK /\ Knows(d) /\ Holds(d) /\ Undisturbed /\ RowsSound
      /\ status = "dispatching" /\ lockedBy = d /\ lease = "fresh"
  BY DEF TimelyInv, IInv, Holds
<1>1. CASE EnsureRead(d)
  <2>1. RowsSound' /\ Undisturbed'
    BY <1>0, <1>1, RowsUntouched DEF EnsureRead
  <2>2. Holds(d)' /\ pc'[d] # "recovering"
    BY <1>0, <1>1 DEF EnsureRead, Prepare, Draft, Holds, Owed, TypeOK
  <2> QED
    BY <2>1, <2>2
<1>2. CASE EnsureWrite(d)
  <2>1. \A s \in Subs :
          draft[d].rows[s] = IF dStatus[s] = "none" THEN "pending" ELSE "keep"
    BY <1>0, <1>2 DEF EnsureWrite, Holds
  <2>2. Goto(d, "walking", 1)
    BY <1>2, <2>1 DEF EnsureWrite
  <2>3. \A s \in Subs : /\ dStatus[s] = "none" => dStatus'[s] = "pending"
                        /\ dStatus[s] # "none" => dStatus'[s] = dStatus[s] /\ dDelay'[s] = dDelay[s]
    BY <1>2, <2>1 DEF EnsureWrite
  <2>4. RowsSound' /\ Undisturbed'
    <3>1. DeliveryBudget'
      BY <1>0, <1>2, <2>3, OutboxAssumption
         DEF EnsureWrite, RowsSound, Undisturbed, DeliveryBudget, RowsBounded, TypeOK
    <3>2. RowsBounded'
      BY <1>0, <1>2, <2>3 DEF EnsureWrite, RowsSound, RowsBounded
    <3>3. /\ WaitsEnd' /\ RunningIsAttended' /\ NeverStranded' /\ DeadIsEarned' /\ Undisturbed'
      BY <1>0, <1>2 DEF EnsureWrite, WaitsEnd, RunningIsAttended, NeverStranded,
         DeadIsEarned, Undisturbed
    <3> QED
      BY <3>1, <3>2, <3>3 DEF RowsSound
  <2>5. Holds(d)' /\ pc'[d] # "recovering"
    BY <1>0, <1>2, <2>2, <2>3 DEF EnsureWrite, Goto, Holds, Owed, TypeOK
  <2> QED
    BY <2>4, <2>5
<1>3. CASE StartDelivery(d)
  <2> DEFINE s == at[d]
  <2>1. s \in Subs /\ dStatus[s] \notin {"none", "running"} /\ dAttempts[s] < attempts
    BY <1>0, <1>3 DEF StartDelivery, Knows, Ensured, Holds, Owed
  <2>2. CASE Startable(s)
    <3>1. /\ dStatus' = [dStatus EXCEPT ![s] = "running"]
          /\ dAttempts' = [dAttempts EXCEPT ![s] = @ + 1]
          /\ Goto(d, "handling", s)
          /\ UNCHANGED <<dMax, dDelay, eventVars, op, boundVars>>
      BY <1>3, <2>2 DEF StartDelivery
    <3>2. dStatus[s] \in {"pending", "failed"} /\ dAttempts[s] < dMax[s]
      BY <1>0, <2>1, <2>2 DEF Startable, TypeOK, DeliveryStatuses, RowsSound, DeliveryBudget
    <3>3. DeliveryBudget'
      BY <1>0, <2>1, <3>1, <3>2 DEF RowsSound, DeliveryBudget, TypeOK
    <3>4. RowsBounded'
      BY <1>0, <2>1, <3>1 DEF RowsSound, RowsBounded, TypeOK
    <3>5. /\ WaitsEnd' /\ RunningIsAttended' /\ NeverStranded' /\ DeadIsEarned' /\ Undisturbed'
      BY <1>0, <3>1 DEF WaitsEnd, RunningIsAttended, NeverStranded, DeadIsEarned, Undisturbed
    <3>6. Holds(d)' /\ pc'[d] # "recovering"
      BY <1>0, <2>1, <3>1 DEF Goto, Holds, Owed, TypeOK, Subs
    <3> QED
      BY <3>3, <3>4, <3>5, <3>6 DEF RowsSound
  <2>3. CASE ~Startable(s)
    <3>1. Advance(d) /\ UNCHANGED <<eventVars, deliveryVars, op, boundVars>>
      BY <1>3, <2>3 DEF StartDelivery
    <3>2. RowsSound' /\ Undisturbed'
      BY <1>0, <3>1, RowsUntouched
    <3>3. Holds(d)' /\ pc'[d] # "recovering"
      BY <1>0, <1>3, <2>1, <3>1 DEF StartDelivery, Advance, Goto, Holds, Owed, TypeOK, Subs
    <3> QED
      BY <3>2, <3>3
  <2> QED
    BY <2>2, <2>3
<1>4. CASE HandlerReturns(d) \/ HandlerRaises(d)
  <2>1. RowsSound' /\ Undisturbed'
    BY <1>0, <1>4, RowsUntouched DEF HandlerReturns, HandlerRaises, Stage
  <2>2. Holds(d)' /\ pc'[d] # "recovering"
    BY <1>0, <1>4 DEF HandlerReturns, HandlerRaises, Stage, Goto, Holds, Owed, TypeOK
  <2> QED
    BY <2>1, <2>2
<1>5. CASE CompleteRead(d)
  <2>1. RowsSound' /\ Undisturbed'
    BY <1>0, <1>5, RowsUntouched DEF CompleteRead
  <2>2. at[d] \in Subs
    BY <1>0, <1>5 DEF CompleteRead, Knows
  <2>3. CASE dStatus[at[d]] = "running"
    BY <1>0, <1>5, <2>1, <2>2, <2>3 DEF CompleteRead, Goto, Holds, Owed, TypeOK
  <2>4. CASE dStatus[at[d]] # "running"
    BY <1>0, <1>5, <2>1, <2>2, <2>4, WalksOn DEF CompleteRead
  <2> QED
    BY <2>3, <2>4
<1>6. CASE CompleteWrite(d) \/ (CompleteError(d) /\ dStatus' # dStatus)
  <2>1. /\ at[d] \in Subs /\ dStatus' = [dStatus EXCEPT ![at[d]] = "succeeded"]
        /\ UNCHANGED <<dAttempts, dMax, dDelay, eventVars, op, retries>>
    BY <1>0, <1>6 DEF CompleteWrite, CompleteError, Fault, Knows
  <2>2. Advance(d) \/ Goto(d, "failing", at[d])
    BY <1>6 DEF CompleteWrite, CompleteError
  <2>3. DeliveryBudget'
    BY <1>0, <2>1 DEF RowsSound, DeliveryBudget, TypeOK
  <2>4. RowsBounded'
    BY <1>0, <2>1 DEF RowsSound, RowsBounded, TypeOK
  <2>5. /\ WaitsEnd' /\ RunningIsAttended' /\ NeverStranded' /\ DeadIsEarned' /\ Undisturbed'
    BY <1>0, <2>1 DEF WaitsEnd, RunningIsAttended, NeverStranded, DeadIsEarned, Undisturbed
  <2>6. pc[d] \in AtRow
    BY <1>6 DEF CompleteWrite, CompleteError
  <2>7. Holds(d)' /\ pc'[d] # "recovering"
    <3>1. dStatus'[at[d]] # "running" /\ \A r \in Subs \ {at[d]} : dStatus'[r] = dStatus[r]
      BY <1>0, <2>1 DEF TypeOK
    <3>2. CASE Advance(d)
      BY <1>0, <2>1, <3>1, <3>2, WalksOn
    <3>3. CASE Goto(d, "failing", at[d])
      <4>1. pc'[d] = "failing" /\ at'[d] = at[d]
        BY <1>0, <3>3 DEF Goto, TypeOK
      <4>2. \A r \in Subs : dStatus'[r] # "running" /\ (Owed(d, r)' => Owed(d, r) /\ r # at[d])
        BY <1>0, <2>1, <2>6, <3>1, <4>1 DEF Holds, Owed, Subs
      <4> QED
        BY <1>0, <2>1, <3>1, <4>1, <4>2 DEF Holds
    <3> QED
      BY <2>2, <3>2, <3>3
  <2> QED
    BY <2>3, <2>4, <2>5, <2>7 DEF RowsSound
<1>7. CASE CompleteError(d) /\ dStatus' = dStatus
  <2>1. RowsSound' /\ Undisturbed'
    BY <1>0, <1>7, RowsUntouched DEF CompleteError, Fault
  <2>2. Holds(d)' /\ pc'[d] # "recovering"
    BY <1>0, <1>7 DEF CompleteError, Goto, Holds, Owed, TypeOK
  <2> QED
    BY <2>1, <2>2
<1>8. CASE FailRead(d)
  <2>1. RowsSound' /\ Undisturbed'
    BY <1>0, <1>8, RowsUntouched DEF FailRead
  <2>2. at[d] \in Subs
    BY <1>0, <1>8 DEF FailRead, Knows
  <2>3. CASE Advance(d) /\ dStatus[at[d]] # "running"
    BY <1>0, <1>8, <2>1, <2>2, <2>3, WalksOn DEF FailRead
  <2>4. CASE /\ dStatus[at[d]] = "running"
             /\ Prepare(d, "recording", Draft([Keep EXCEPT ![at[d]] = RowOutcome(at[d])],
                                              "keep", Backoff(dAttempts[at[d]])))
    <3>1. Holds(d)' /\ pc'[d] # "recovering"
      BY <1>0, <1>8, <2>2, <2>4
         DEF FailRead, Prepare, Draft, Holds, Owed, TypeOK, RowOutcome, Keep
    <3> QED
      BY <2>1, <3>1
  <2> QED
    BY <1>8, <2>3, <2>4 DEF FailRead
<1>9. CASE FailWrite(d)
  <2> DEFINE s == at[d]
  <2>1. /\ s \in Subs /\ dStatus[s] = "running"
        /\ draft[d].rows = [Keep EXCEPT ![s] = RowOutcome(s)]
        /\ draft[d].wait = Backoff(dAttempts[s])
    BY <1>0, <1>9 DEF FailWrite, Knows, Holds
  <2>2. /\ dStatus'[s] = RowOutcome(s)
        /\ dStatus'[s] = "failed" => dDelay'[s] = Backoff(dAttempts[s])
        /\ \A r \in Subs \ {s} : dStatus'[r] = dStatus[r] /\ dDelay'[r] = dDelay[r]
        /\ UNCHANGED <<dAttempts, dMax, eventVars, op, boundVars>>
    BY <1>9, <2>1 DEF FailWrite, WriteRows, Keep, RowOutcome
  <2>3. DeliveryBudget'
    BY <1>0, <2>1, <2>2 DEF RowsSound, DeliveryBudget, RowOutcome, TypeOK
  <2>4. RowsBounded'
    <3>1. \A n \in Nat : Backoff(n) \in Nat
      BY BackoffNat
    <3> QED
      BY <1>0, <2>1, <2>2, <3>1 DEF RowsSound, RowsBounded, RowOutcome, TypeOK
  <2>5. /\ WaitsEnd' /\ RunningIsAttended' /\ NeverStranded' /\ DeadIsEarned' /\ Undisturbed'
    BY <1>0, <2>2 DEF WaitsEnd, RunningIsAttended, NeverStranded, DeadIsEarned, Undisturbed
  <2>6. Holds(d)' /\ pc'[d] # "recovering"
    BY <1>0, <1>9, <2>1, <2>2, WalksOn DEF FailWrite, RowOutcome
  <2> QED
    BY <2>3, <2>4, <2>5, <2>6 DEF RowsSound
<1>10. CASE FinalizeRead(d)
  <2>1. RowsSound' /\ Undisturbed'
    BY <1>0, <1>10, RowsUntouched DEF FinalizeRead
  <2>2. Prepare(d, "finalizing", Draft(Keep, EventOutcome, EventWait))
    BY <1>0, <1>10 DEF FinalizeRead
  <2>3. EventOutcome' = EventOutcome /\ EventWait' = EventWait
    BY <1>10 DEF FinalizeRead, EventOutcome, EventWait
  <2>4. Holds(d)' /\ pc'[d] # "recovering"
    BY <1>0, <1>10, <2>2, <2>3 DEF FinalizeRead, Prepare, Draft, Holds, Owed, TypeOK
  <2> QED
    BY <2>1, <2>4
<1>11. CASE FinalizeWrite(d)
  <2>1. /\ draft[d].event = EventOutcome /\ draft[d].wait = Backoff(attempts)
        /\ \A s \in Subs : dStatus[s] # "running" /\ dStatus[s] # "none"
    BY <1>0, <1>11 DEF FinalizeWrite, Holds, EventWait, Knows, Ensured
  <2>2. EventOutcome \in {"published", "dead", "failed"}
    BY DEF EventOutcome
  <2>3. \A s \in Subs : dStatus[s] = "failed" => dDelay[s] <= Backoff(attempts)
    <3>1. ASSUME NEW s \in Subs, dStatus[s] = "failed" PROVE dDelay[s] <= Backoff(attempts)
      <4>1. /\ dAttempts[s] \in Nat /\ attempts \in Nat /\ dAttempts[s] <= attempts
            /\ dDelay[s] \in Nat /\ dDelay[s] <= Backoff(dAttempts[s])
        BY <1>0, <3>1 DEF TypeOK, RowsSound, RowsBounded
      <4>2. Backoff(dAttempts[s]) <= Backoff(attempts)
        BY <4>1, BackoffGrows
      <4> QED
        BY <4>1, <4>2, BackoffNat
    <3> QED
      BY <3>1
  <2>4. WaitsEnd'
    BY <1>0, <1>11, <2>1, <2>2, <2>3 DEF FinalizeWrite, WaitsEnd
  <2>5. NeverStranded' /\ DeadIsEarned'
    BY <1>0, <1>11, <2>1, <2>2
       DEF FinalizeWrite, EventOutcome, NeverStranded, DeadIsEarned, TypeOK
  <2>6. DeliveryBudget' /\ RowsBounded' /\ RunningIsAttended' /\ Undisturbed'
    BY <1>0, <1>11, <2>1 DEF FinalizeWrite, RowsSound, DeliveryBudget, RowsBounded,
       RunningIsAttended, Undisturbed
  <2>7. Holds(d)' /\ pc'[d] # "recovering"
    BY <1>0, <1>11 DEF FinalizeWrite, Goto, Holds, TypeOK
  <2> QED
    BY <2>4, <2>5, <2>6, <2>7 DEF RowsSound
<1> QED
  BY <1>1, <1>2, <1>3, <1>4, <1>5, <1>6, <1>7, <1>8, <1>9, <1>10, <1>11
     DEF Walk, Finished

\* What the other steps of a dispatcher do.
LEMMA RecoveryKeeps ==
  ASSUME TimelyInv, TypeOK', NEW d \in Dispatchers, pc[d] = "recovering", RecoverWrite(d)
  PROVE  pc'[d] = "idle" /\ RowsSound' /\ Undisturbed'
<1> USE DEF eventVars, deliveryVars, runVars, boundVars
<1>0. /\ TypeOK /\ Recovers(d) /\ Undisturbed /\ RowsSound
      /\ status = "dispatching" /\ lease = "expired"
      /\ draft[d] = Draft(Recovered, IF attempts >= maxAttempts THEN "dead" ELSE "failed", 0)
  BY DEF TimelyInv, IInv, Recovers
<1>1. \A s \in Subs :
        /\ dStatus'[s] = IF dStatus[s] = "running" THEN RowOutcome(s) ELSE dStatus[s]
        /\ dDelay'[s] = 0
        /\ dAttempts'[s] = dAttempts[s] /\ dMax'[s] = dMax[s]
  BY <1>0 DEF RecoverWrite, WriteRows, Draft, Recovered, RowOutcome, RowsSound, WaitsEnd
<1>2. /\ status' = IF attempts >= maxAttempts THEN "dead" ELSE "failed"
      /\ delay' \in Nat
      /\ UNCHANGED <<attempts, maxAttempts, op, retries, dMax>>
  BY <1>0 DEF RecoverWrite, WriteRows, Draft, TypeOK
<1>3. DeliveryBudget'
  BY <1>0, <1>1 DEF RowsSound, DeliveryBudget, RowOutcome, TypeOK
<1>4. RowsBounded'
  <2>1. \A n \in Nat : Backoff(n) \in Nat
    BY BackoffNat
  <2> QED
    BY <1>0, <1>1, <1>2, <2>1 DEF RowsSound, RowsBounded, RowOutcome, TypeOK
<1>5. WaitsEnd'
  BY <1>1, <1>2 DEF WaitsEnd
<1>6. RunningIsAttended'
  BY <1>1 DEF RunningIsAttended, RowOutcome
<1>8. NeverStranded' /\ DeadIsEarned' /\ Undisturbed'
  BY <1>0, <1>2 DEF NeverStranded, DeadIsEarned, Undisturbed, TypeOK
<1>7. pc'[d] = "idle"
  BY <1>0 DEF RecoverWrite, Leave, Goto, TypeOK
<1> QED
  BY <1>3, <1>4, <1>5, <1>6, <1>7, <1>8 DEF RowsSound

LEMMA RowsTicked ==
  ASSUME TypeOK, RowsSound, Undisturbed, Tick
  PROVE  RowsSound' /\ Undisturbed'
<1>1. \A s \in Subs : /\ dDelay'[s] \in Nat /\ dDelay'[s] <= dDelay[s]
                      /\ dDelay[s] = 0 => dDelay'[s] = 0
                      /\ \A n \in Nat : dDelay[s] <= n => dDelay'[s] <= n
                      /\ dDelay[s] <= delay => dDelay'[s] <= delay'
  BY DEF Tick, AtLeast, TypeOK
<1>2. \A n \in Nat : Backoff(n) \in Nat
  BY BackoffNat
<1>3. RowsBounded' /\ DeliveryBudget'
  BY <1>1, <1>2 DEF Tick, RowsSound, RowsBounded, DeliveryBudget, TypeOK
<1>4. WaitsEnd'
  BY <1>1 DEF Tick, RowsSound, WaitsEnd
<1>5. RunningIsAttended' /\ NeverStranded' /\ DeadIsEarned' /\ Undisturbed'
  BY DEF Tick, RowsSound, RunningIsAttended, NeverStranded, DeadIsEarned, Undisturbed,
     boundVars
<1> QED
  BY <1>3, <1>4, <1>5 DEF RowsSound

\* Who does not act has nothing to know.
LEMMA IdleKnows ==
  ASSUME NEW d \in Dispatchers, ~Working(d) /\ pc[d] # "recovering"
  PROVE  Holds(d) /\ Recovers(d)
  BY DEF Holds, Recovers

\* What a session has read stays so while only time passes and others leave.
LEMMA StillHolds ==
  ASSUME TimelyInv, NEW r \in Dispatchers,
         pc'[r] = pc[r], at'[r] = at[r], draft'[r] = draft[r],
         UNCHANGED <<status, attempts, maxAttempts, lockedBy, dStatus, dAttempts, dMax>>,
         lease = "fresh" => lease' = "fresh",
         \A s \in Subs : dDelay[s] = 0 => dDelay'[s] = 0
  PROVE  Holds(r)'
<1>1. Holds(r) /\ Knows(r)
  BY DEF TimelyInv, IInv
<1>2. EventOutcome' = EventOutcome /\ EventWait' = EventWait
  BY DEF EventOutcome, EventWait
<1>3. RowOutcome(at[r])' = RowOutcome(at[r])
  BY DEF RowOutcome
<1>4. Keep' = Keep
  BY DEF Keep
<1>5. [Keep EXCEPT ![at[r]] = RowOutcome(at[r])]' = [Keep EXCEPT ![at[r]] = RowOutcome(at[r])]
  BY <1>3, <1>4
<1> QED
  BY <1>1, <1>2, <1>5 DEF Holds, Owed, Working

\* Steps of one dispatcher.
LEMMA DispatcherKeepsTimely ==
  ASSUME PowersOfTwo, TimelyInv, IInv', NEW d \in Dispatchers, DispatcherStep(d)
  PROVE  TimelyInv'
<1> USE DEF eventVars, deliveryVars, runVars, boundVars
<1>0. TypeOK /\ TypeOK' /\ Undisturbed /\ RowsSound /\ Holds(d) /\ Recovers(d)
  BY DEF TimelyInv, IInv
<1>1. ASSUME NEW r \in Dispatchers, r # d PROVE pc'[r] = pc[r]
  BY <1>0, <1>1, OneMoves
<1>2. CASE Working(d) /\ (Walk(d) \/ CompleteError(d))
  <2>1. Holds(d)' /\ RowsSound' /\ Undisturbed' /\ pc'[d] # "recovering"
    BY <1>0, <1>2, WorkKeeps
  <2>2. ASSUME NEW r \in Dispatchers, r # d PROVE (~Working(r) /\ pc[r] # "recovering")'
    BY <1>1, <1>2, <2>2, Alone DEF Working
  <2> QED
    BY <2>1, <2>2 DEF TimelyInv, Holds, Recovers
<1>3. CASE Claim(d)
  <2>1. status \in {"pending", "failed"} /\ delay = 0
    BY <1>3 DEF Claim, Claimable
  <2>2. ASSUME NEW r \in Dispatchers, r # d PROVE (~Working(r) /\ pc[r] # "recovering")'
    BY <1>1, <2>1, <2>2, NobodyActs DEF Working
  <2>3. ASSUME NEW s \in Subs
        PROVE  /\ dStatus[s] # "running" /\ dAttempts[s] < attempts + 1
               /\ dStatus[s] = "failed" => dDelay[s] = 0
    BY <1>0, <2>1 DEF RowsSound, RunningIsAttended, RowsBounded, WaitsEnd, TypeOK
  <2>4. pc'[d] = "claimed" /\ at'[d] = 1 /\ lockedBy' = d
    BY <1>0, <1>3 DEF Claim, Goto, TypeOK
  <2>5. Holds(d)' /\ Recovers(d)'
    BY <1>3, <2>3, <2>4 DEF Claim, Holds, Recovers
  <2>6. RowsSound' /\ Undisturbed'
    BY <1>0, <1>3, <2>1 DEF Claim, RowsSound, Undisturbed, DeliveryBudget, RowsBounded,
       WaitsEnd, RunningIsAttended, NeverStranded, DeadIsEarned, TypeOK
  <2> QED
    BY <2>2, <2>5, <2>6, IdleKnows DEF TimelyInv, Holds, Recovers
<1>4. CASE Finished(d) \/ Abandon(d)
  <2>1. RowsSound' /\ Undisturbed'
    BY <1>0, <1>4, RowsUntouched DEF Finished, Abandon, Fault
  <2>2. pc'[d] = "idle"
    BY <1>0, <1>4 DEF Finished, Abandon, Leave, Goto, TypeOK
  <2>3. ASSUME NEW r \in Dispatchers, r # d PROVE Holds(r)' /\ Recovers(r)'
    <3>1. /\ pc'[r] = pc[r] /\ at'[r] = at[r] /\ draft'[r] = draft[r]
          /\ UNCHANGED <<eventVars, deliveryVars>>
      BY <1>0, <1>4, <2>3, OneMoves DEF Finished, Abandon
    <3>2. Recovered' = Recovered
      BY <3>1 DEF Recovered, RowOutcome
    <3>3. Holds(r)'
      BY <3>1, StillHolds
    <3>4. Recovers(r)'
      BY <1>1, <2>2, <3>1, <3>2 DEF TimelyInv, Recovers
    <3> QED
      BY <3>3, <3>4
  <2>4. Holds(d)' /\ Recovers(d)'
    BY <2>2 DEF Holds, Recovers, Working, Walking
  <2> QED
    BY <2>1, <2>3, <2>4 DEF TimelyInv
<1>5. CASE RecoverRead(d)
  <2>1. RowsSound' /\ Undisturbed'
    BY <1>0, <1>5, RowsUntouched DEF RecoverRead
  <2>2. ASSUME NEW r \in Dispatchers PROVE ~Working(r) /\ pc[r] # "recovering"
    BY <1>0, <1>5 DEF RecoverRead, Stale, Free, TimelyInv, Holds
  <2>3. lease = "expired" /\ status = "dispatching"
    BY <1>5 DEF RecoverRead, Stale, TimelyInv, IInv, LeaseFollowsStatus
  <2>4. pc'[d] = "recovering" /\ draft'[d] =
          Draft(Recovered, IF attempts >= maxAttempts THEN "dead" ELSE "failed", 0)
    BY <1>0, <1>5 DEF RecoverRead, Prepare, TypeOK
  <2>5. Recovered' = Recovered
    BY <1>5 DEF RecoverRead, Recovered, RowOutcome
  <2>6. Holds(d)' /\ Recovers(d)'
    BY <1>1, <1>5, <2>2, <2>3, <2>4, <2>5
       DEF RecoverRead, Recovers, Holds, Working, Walking, Draft
  <2> QED
    BY <1>1, <2>1, <2>2, <2>6, IdleKnows DEF TimelyInv, Holds, Recovers, Working
<1>6. CASE RecoverWrite(d)
  <2>1. pc[d] = "recovering"
    BY <1>6 DEF RecoverWrite
  <2>2. pc'[d] = "idle" /\ RowsSound' /\ Undisturbed'
    BY <1>0, <1>6, <2>1, RecoveryKeeps
  <2>3. ASSUME NEW r \in Dispatchers PROVE (~Working(r) /\ pc[r] # "recovering")'
    BY <1>1, <2>1, <2>2, Alone DEF Working, Walking
  <2> QED
    BY <2>2, <2>3 DEF TimelyInv, Holds, Recovers
<1>7. CASE Heartbeat(d)
  <2>1. status = "dispatching" /\ lease' = "fresh" /\ Free
    BY <1>7 DEF Heartbeat, Renews
  <2>2. RowsSound' /\ Undisturbed'
    BY <1>0, <1>7 DEF Heartbeat, RowsSound, Undisturbed, DeliveryBudget, RowsBounded,
       WaitsEnd, RunningIsAttended, NeverStranded, DeadIsEarned
  <2>3. ASSUME NEW r \in Dispatchers PROVE Holds(r)' /\ Recovers(r)'
    <3>1. Holds(r)'
      BY <1>7, <2>1, StillHolds DEF Heartbeat
    <3>2. Recovers(r)'
      BY <1>7, <2>1 DEF Heartbeat, Free, Recovers
    <3> QED
      BY <3>1, <3>2
  <2> QED
    BY <2>2, <2>3 DEF TimelyInv
<1>8. Walk(d) \/ CompleteError(d) => Working(d) \/ Finished(d)
  BY DEF Walk, Working, Walking, CompleteError, EnsureRead, EnsureWrite, StartDelivery,
     HandlerReturns, HandlerRaises, Stage, CompleteRead, CompleteWrite, FailRead, FailWrite,
     FinalizeRead, FinalizeWrite
<1> QED
  BY <1>2, <1>3, <1>4, <1>5, <1>6, <1>7, <1>8 DEF DispatcherStep, Recover

LEMMA TimelyKeeps ==
  ASSUME PowersOfTwo, MaxRetries = 0, TimelyInv, IInv', [TimelyNext]_vars
  PROVE  TimelyInv'
<1> USE DEF eventVars, deliveryVars, runVars, boundVars
<1>0. TypeOK /\ TypeOK' /\ Undisturbed /\ RowsSound
  BY DEF TimelyInv, IInv
<1>1. CASE Publish
  <2>1. RowsSound' /\ Undisturbed'
    BY <1>0, <1>1 DEF Publish, RowsSound, Undisturbed, DeliveryBudget, RowsBounded,
       WaitsEnd, RunningIsAttended, NeverStranded, DeadIsEarned
  <2>2. ASSUME NEW r \in Dispatchers PROVE (~Working(r) /\ pc[r] # "recovering")'
    BY <1>1, NobodyActs DEF Publish, Working
  <2> QED
    BY <2>1, <2>2 DEF TimelyInv, Holds, Recovers
<1>2. CASE \E d \in Dispatchers : DispatcherStep(d)
  BY <1>2, DispatcherKeepsTimely
<1>3. CASE RetryRead \/ RetryWrite
  BY <1>0, <1>3 DEF RetryRead, RetryWrite, Undisturbed
<1>4. CASE Tick
  <2>1. RowsSound' /\ Undisturbed'
    BY <1>0, <1>4, RowsTicked
  <2>2. ASSUME NEW r \in Dispatchers PROVE Holds(r)' /\ Recovers(r)'
    <3>1. Recovered' = Recovered
      BY <1>4 DEF Tick, Recovered, RowOutcome
    <3>2. \A s \in Subs : dDelay[s] = 0 => dDelay'[s] = 0
      BY <1>4 DEF Tick, AtLeast
    <3>3. Holds(r)'
      BY <1>4, <3>2, StillHolds DEF Tick
    <3>4. Recovers(r)'
      BY <1>4, <3>1 DEF Tick, TimelyInv, Recovers
    <3> QED
      BY <3>3, <3>4
  <2> QED
    BY <2>1, <2>2 DEF TimelyInv
<1>5. CASE TimelyExpire
  <2>1. RowsSound' /\ Undisturbed'
    BY <1>0, <1>5 DEF TimelyExpire, Expire, RowsSound, Undisturbed, DeliveryBudget,
       RowsBounded, WaitsEnd, RunningIsAttended, NeverStranded, DeadIsEarned
  <2>2. ASSUME NEW r \in Dispatchers PROVE (~Working(r) /\ pc[r] # "recovering")'
    BY <1>5 DEF TimelyExpire, Expire, Attended, TimelyInv, Holds, Recovers, Working
  <2> QED
    BY <2>1, <2>2 DEF TimelyInv, Holds, Recovers
<1>6. CASE UNCHANGED vars
  <2>1. RowsSound' /\ Undisturbed'
    BY <1>0, <1>6, RowsUntouched DEF vars
  <2>2. ASSUME NEW r \in Dispatchers PROVE Holds(r)' /\ Recovers(r)'
    BY <1>6 DEF vars, TimelyInv, Holds, Recovers, Owed, Working, EventOutcome, EventWait,
       Recovered, RowOutcome
  <2> QED
    BY <2>1, <2>2 DEF TimelyInv
<1> QED
  BY <1>1, <1>2, <1>3, <1>4, <1>5, <1>6 DEF TimelyNext, Common

LEMMA TimelyInitInv == Init => TimelyInv
<1> SUFFICES ASSUME Init PROVE TimelyInv
  OBVIOUS
<1>1. RowsSound /\ Undisturbed
  BY OutboxAssumption DEF Init, RowsSound, Undisturbed, DeliveryBudget, RowsBounded,
     WaitsEnd, RunningIsAttended, NeverStranded, DeadIsEarned, NoRetry
<1>2. \A d \in Dispatchers : Holds(d) /\ Recovers(d)
  BY DEF Init, Holds, Recovers, Working, Walking
<1> QED
  BY <1>1, <1>2, InitInv DEF TimelyInv

LEMMA TimelyInvariance ==
  ASSUME PowersOfTwo, MaxRetries = 0
  PROVE  TimelySpec => []TimelyInv
<1>1. [TimelyNext]_vars => [Next]_vars
  BY DEF TimelyNext, Next, TimelyExpire
<1>2. TimelyInv => IInv
  BY DEF TimelyInv
<1>3. TimelyInv /\ [TimelyNext]_vars => TimelyInv'
  BY <1>1, <1>2, StepKeeps, TimelyKeeps
<1> QED
  BY <1>3, TimelyInitInv, PTL DEF TimelySpec

\* As long as leases expire only for the dead and no operator intervenes: one
\* dispatcher at a time, budgets kept, every wait over in time, no event left
\* with nobody to run it or given up early.
THEOREM DispatchStaysSound ==
  ASSUME PowersOfTwo, MaxRetries = 0
  PROVE  TimelySpec => []DispatchSound
<1>1. TimelyInv => DispatchSound
  <2> SUFFICES ASSUME TimelyInv PROVE DispatchSound
    OBVIOUS
  <2>1. SingleRun
    BY Alone DEF SingleRun
  <2>2. RetryIsDue
    BY DEF TimelyInv, Holds, Owed, RetryIsDue, Working, Walking, AtRow
  <2> QED
    BY <2>1, <2>2 DEF TimelyInv, IInv, RowsSound, DispatchSound
<1> QED
  BY <1>1, TimelyInvariance, PTL

\* Under the same conditions a delivery that succeeded is never taken up again.
THEOREM SuccessIsFinal ==
  ASSUME PowersOfTwo, MaxRetries = 0
  PROVE  TimelySpec => SucceededFinal
<1> USE DEF eventVars, deliveryVars, runVars, boundVars
<1>1. ASSUME TimelyInv, [TimelyNext]_vars
      PROVE  [SucceededStays]_vars
  <2> SUFFICES ASSUME TimelyNext, NEW s \in Subs, dStatus[s] = "succeeded"
               PROVE  dStatus'[s] = "succeeded"
    BY <1>1 DEF SucceededStays
  <2>0. TypeOK /\ Undisturbed
    BY <1>1 DEF TimelyInv, IInv
  <2>1. ASSUME NEW d \in Dispatchers, DispatcherStep(d)
        PROVE  dStatus'[s] = "succeeded"
    <3>1. CASE EnsureWrite(d)
      <4>1. draft[d].rows[s] = "keep"
        BY <1>1, <3>1 DEF EnsureWrite, TimelyInv, Holds, Working, Walking
      <4> QED
        BY <3>1, <4>1 DEF EnsureWrite
    <3>2. CASE StartDelivery(d)
      BY <2>0, <3>2 DEF StartDelivery, Startable, TypeOK
    <3>3. CASE CompleteWrite(d) \/ CompleteError(d)
      BY <2>0, <3>3 DEF CompleteWrite, CompleteError, TypeOK
    <3>4. CASE FailWrite(d)
      <4>1. /\ dStatus[at[d]] = "running"
            /\ draft[d].rows = [Keep EXCEPT ![at[d]] = RowOutcome(at[d])]
        BY <1>1, <3>4 DEF FailWrite, TimelyInv, Holds, Working, Walking
      <4> QED
        BY <3>4, <4>1 DEF FailWrite, WriteRows, Keep
    <3>5. CASE RecoverWrite(d)
      <4>1. draft[d].rows = Recovered
        BY <1>1, <3>5 DEF RecoverWrite, TimelyInv, Recovers, Draft
      <4> QED
        BY <3>5, <4>1 DEF RecoverWrite, WriteRows, Recovered
    <3> QED
      BY <2>1, <3>1, <3>2, <3>3, <3>4, <3>5
         DEF DispatcherStep, Walk, Recover, Claim, EnsureRead, HandlerReturns, HandlerRaises,
             Stage, CompleteRead, FailRead, FinalizeRead, FinalizeWrite, Finished,
             Heartbeat, RecoverRead, Abandon
  <2>2. CASE Publish \/ Tick \/ TimelyExpire
    BY <2>2 DEF Publish, Tick, TimelyExpire, Expire
  <2>3. CASE RetryRead \/ RetryWrite
    BY <2>0, <2>3 DEF RetryRead, RetryWrite, Undisturbed, TypeOK
  <2> QED
    BY <2>1, <2>2, <2>3 DEF TimelyNext, Common
<1> QED
  BY <1>1, TimelyInvariance, PTL DEF TimelySpec, SucceededFinal
=============================================================================
