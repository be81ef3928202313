---------------------------- MODULE MCTaskQueue ----------------------------
(* Instances of TaskQueue for TLC. *)
EXTENDS TaskQueue, TLC

CONSTANTS t1, t2, w1, w2, w3, q1, q2

MCQueueOf == [t \in Tasks |-> q1]
MCServedQueue == [w \in Workers |-> q1]
\* t2 goes first.
MCPriority == [t \in Tasks |-> IF t = t2 THEN 50 ELSE 0]
\* The smallest budgets: two attempts, and the one a request of 0 becomes.
MCRequestedMax == [t \in Tasks |-> IF t = t1 THEN 2 ELSE 0]
\* t1 is to start later, t2 at once.
MCRequestedDelay == [t \in Tasks |-> IF t = t1 THEN 1 ELSE 0]
Symmetric == Permutations(Workers)

\* The deployment: start_background_workers serves realtime, default and low
\* (one worker each), while enqueue_evolution_scan names the queue evolution.
DeployedServed == w1 :> "realtime" @@ w2 :> "default" @@ w3 :> "low"
DeployedQueueOf == [t \in Tasks |-> IF t = t1 THEN "evolution" ELSE "default"]
DeployedMax == [t \in Tasks |-> 2]

\* README.md:912: the cron's enqueue leads to the clustering, so the scan the
\* cron enqueued leaves the queue, claimed by some worker (or by an operator).
EvolutionScanRuns == status[t1] = "queued" ~> status[t1] # "queued"
=============================================================================
