------------------------------ MODULE Lifecycle ------------------------------
(***************************************************************************)
(* One backend process from its start to its end (main.py, lifespan): what *)
(* it prepares before it serves, the periodic loops and the workers of the *)
(* task queue it starts, and the order in which it lets go of them.  The   *)
(* process may be killed at any moment and is then started again; tasks    *)
(* are rows of MySQL and outlive it.  How a task is claimed, retried and   *)
(* recovered is the subject of TaskQueue; here it matters who still works  *)
(* when something is taken away.                                           *)
(***************************************************************************)
EXTENDS Integers, Sequences, FiniteSets, SequencesExt

CONSTANTS
  Workers,    \* the task workers and the dispatcher of events
  Tasks,      \* persisted tasks, pending when the first process starts
  Nobody,     \* the task of a worker that has none
  Followed,   \* the periodic loops a model looks at
  MaxStarts   \* bound: how often the process is started

StartAssumption == MaxStarts \in Nat

VARIABLES
  phase,      \* what the process is doing
  tried,      \* the steps of Startup behind it, those that failed included
  loops,      \* [Periodic -> absent, asleep, in a round, cancelled or gone]
  purged,     \* a round of the cache's cleanup has removed a row
  stop,       \* the event that asks the workers to stop
  worker,     \* [Workers -> where it is and the task it has]
  status,     \* [Tasks -> the status of the row]
  faulty,     \* tasks whose handler or whose success write raised
  open,       \* the shared clients
  starts      \* starts of the process so far

vars == <<phase, tried, loops, purged, stop, worker, status, faulty, open, starts>>

Phases == {"down", "starting", "serving", "draining", "drained", "closing"}
Clients == {"neo4j", "rerank"}
Periodic == Followed \cap
  {"health", "cleanup", "metrics", "archive", "backup", "evolution", "gaps"}

\* The steps of the start in their order; only the first may stop it.
Startup == <<"database", "stores", "tools", "config", "health", "cleanup", "metrics",
             "warmup", "archive", "backup", "workers", "evolution", "gaps">>

Absent == [pc |-> "absent", task |-> Nobody]
Idle == [pc |-> "idle", task |-> Nobody]
Gone == [pc |-> "gone", task |-> Nobody]
At(pc, t) == [pc |-> pc, task |-> t]

TypeOK ==
  /\ phase \in Phases /\ tried \subseteq ToSet(Startup)
  /\ loops \in [Periodic -> {"absent", "asleep", "round", "cancelled", "gone"}]
  /\ purged \in BOOLEAN /\ stop \in BOOLEAN /\ open \subseteq Clients
  /\ worker \in [Workers -> [pc : {"absent", "idle", "turn", "handler", "returned", "raised",
                                   "cancelled", "gone"}, task : Tasks \cup {Nobody}]]
  /\ status \in [Tasks -> {"pending", "running", "success", "failed"}]
  /\ faulty \subseteq Tasks /\ starts \in 0..MaxStarts

Init ==
  /\ phase = "down" /\ tried = {} /\ loops = [l \in Periodic |-> "absent"]
  /\ purged = FALSE /\ stop = FALSE /\ worker = [w \in Workers |-> Absent]
  /\ status = [t \in Tasks |-> "pending"] /\ faulty = {} /\ open = {} /\ starts = 0

-----------------------------------------------------------------------------
\* The step the start has come to.
Step == Startup[Cardinality(tried) + 1]
Onward == tried' = tried \cup {Step}

\* A process starts with its clients and nothing else.
Boot ==
  /\ phase = "down" /\ starts < MaxStarts
  /\ phase' = "starting" /\ tried' = {} /\ open' = Clients /\ starts' = starts + 1
  /\ UNCHANGED <<loops, purged, stop, worker, status, faulty>>

\* Tables and the first administrator; nothing catches what this step raises.
InitDb ==
  /\ phase = "starting" /\ tried # ToSet(Startup) /\ Step = "database"
  /\ \/ Onward /\ UNCHANGED <<phase, open>>
     \/ phase' = "down" /\ open' = {} /\ UNCHANGED tried
  /\ UNCHANGED <<loops, purged, stop, worker, status, faulty, starts>>

\* Stores, external tools, runtime settings, warm answers: a failure only degrades.
Prepare ==
  /\ phase = "starting" /\ tried # ToSet(Startup)
  /\ Step \notin {"database", "workers"} \cup Periodic /\ Onward
  /\ UNCHANGED <<phase, loops, purged, stop, worker, status, faulty, open, starts>>

\* A periodic loop, unless the settings switch it off.
StartLoop ==
  /\ phase = "starting" /\ tried # ToSet(Startup) /\ Step \in Periodic /\ Onward
  /\ loops' \in {loops, [loops EXCEPT ![Step] = "asleep"]}
  /\ UNCHANGED <<phase, purged, stop, worker, status, faulty, open, starts>>

StartWorkers ==
  /\ phase = "starting" /\ tried # ToSet(Startup) /\ Step = "workers" /\ Onward
  /\ worker' = [w \in Workers |-> Idle] /\ stop' = FALSE
  /\ UNCHANGED <<phase, loops, purged, status, faulty, open, starts>>

Serve ==
  /\ phase = "starting" /\ tried = ToSet(Startup)
  /\ phase' = "serving"
  /\ UNCHANGED <<tried, loops, purged, stop, worker, status, faulty, open, starts>>

-----------------------------------------------------------------------------
\* A loop wakes, does its round, and sleeps again.  The round of the cache's cleanup that
\* removes rows is the one that imports the name by which the loop reports its errors.
Wake(l) ==
  /\ loops[l] = "asleep" /\ loops' = [loops EXCEPT ![l] = "round"]
  /\ UNCHANGED <<phase, tried, purged, stop, worker, status, faulty, open, starts>>

RoundEnds(l) ==
  /\ loops[l] = "round" /\ loops' = [loops EXCEPT ![l] = "asleep"]
  /\ purged' \in {purged, purged \/ l = "cleanup"}
  /\ UNCHANGED <<phase, tried, stop, worker, status, faulty, open, starts>>

\* What a round raises is caught and reported, and the loop sleeps again; the cleanup's
\* report raises in its turn, and ends the loop, where the name has not been imported.
RoundFails(l) ==
  /\ loops[l] = "round"
  /\ loops' = [loops EXCEPT ![l] = IF l = "cleanup" /\ ~purged THEN "gone" ELSE "asleep"]
  /\ UNCHANGED <<phase, tried, purged, stop, worker, status, faulty, open, starts>>

\* Running tasks that no worker has: their process ended, or a write failed.
Left == {t \in Tasks : status[t] = "running" /\ \A w \in Workers : worker[w].task # t}

\* The head of a worker's loop: it looks at the event, then may recover a stale task.
Turn(w) ==
  /\ worker[w].pc = "idle"
  /\ IF stop
     THEN worker' = [worker EXCEPT ![w] = Gone] /\ UNCHANGED status
     ELSE /\ worker' = [worker EXCEPT ![w] = At("turn", Nobody)]
          /\ \/ UNCHANGED status
             \/ \E t \in Left : status' = [status EXCEPT ![t] = "pending"]
  /\ UNCHANGED <<phase, tried, loops, purged, stop, faulty, open, starts>>

Claim(w, t) ==
  /\ worker[w].pc = "turn" /\ status[t] = "pending"
  /\ worker' = [worker EXCEPT ![w] = At("handler", t)]
  /\ status' = [status EXCEPT ![t] = "running"]
  /\ UNCHANGED <<phase, tried, loops, purged, stop, faulty, open, starts>>

\* Nothing to do, or the database failed: wait until the next turn or the event.
Nothing(w) ==
  /\ worker[w].pc = "turn" /\ worker' = [worker EXCEPT ![w] = Idle]
  /\ UNCHANGED <<phase, tried, loops, purged, stop, status, faulty, open, starts>>

HandlerReturns(w) ==
  /\ worker[w].pc = "handler" /\ worker' = [worker EXCEPT ![w].pc = "returned"]
  /\ UNCHANGED <<phase, tried, loops, purged, stop, status, faulty, open, starts>>

\* The handler raised, or the write of its success did.
Raises(w) ==
  /\ worker[w].pc \in {"handler", "returned"}
  /\ worker' = [worker EXCEPT ![w].pc = "raised"]
  /\ faulty' = faulty \cup {worker[w].task}
  /\ UNCHANGED <<phase, tried, loops, purged, stop, status, open, starts>>

\* The outcome is written; the write of a failure may itself fail.
Record(w) ==
  /\ worker[w].pc \in {"returned", "raised"} /\ worker' = [worker EXCEPT ![w] = Idle]
  /\ IF worker[w].pc = "returned"
     THEN status' = [status EXCEPT ![worker[w].task] = "success"]
     ELSE status' \in {status, [status EXCEPT ![worker[w].task] = "failed"]}
  /\ UNCHANGED <<phase, tried, loops, purged, stop, faulty, open, starts>>

-----------------------------------------------------------------------------
\* The process is asked to stop: first the event, then up to five seconds of patience.
AskToStop ==
  /\ phase = "serving" /\ phase' = "draining" /\ stop' = TRUE
  /\ UNCHANGED <<tried, loops, purged, worker, status, faulty, open, starts>>

\* What a commit that is under way makes of a task: a claim or an outcome.
Lands(t, next) ==
  \/ next = "running" /\ status[t] = "pending" /\ \E w \in Workers : worker[w].pc = "turn"
  \/ next = "success" /\ At("returned", t) \in {worker[w] : w \in Workers}
  \/ next = "failed" /\ At("raised", t) \in {worker[w] : w \in Workers}

\* The five seconds are over: whoever is still there is cancelled where it is; a commit
\* under way may land, of one claim for every worker that is about to claim.
Cancel ==
  /\ phase = "draining" /\ \E w \in Workers : worker[w].pc \notin {"cancelled", "gone"}
  /\ worker' = [w \in Workers |->
                 IF worker[w].pc = "gone" THEN Gone ELSE At("cancelled", worker[w].task)]
  /\ status' \in [Tasks -> {"pending", "running", "success", "failed"}]
  /\ \A t \in Tasks : status'[t] = status[t] \/ Lands(t, status'[t])
  /\ Cardinality({t \in Tasks : status[t] = "pending" /\ status'[t] = "running"})
       <= Cardinality({w \in Workers : worker[w].pc = "turn"})
  /\ UNCHANGED <<phase, tried, loops, purged, stop, faulty, open, starts>>

\* A cancelled worker stops its heartbeat and ends; the task stays running.
Leave(w) ==
  /\ worker[w].pc = "cancelled" /\ worker' = [worker EXCEPT ![w] = Gone]
  /\ UNCHANGED <<phase, tried, loops, purged, stop, status, faulty, open, starts>>

\* mutant
DrainedAtOnce ==
  /\ phase = "draining" /\ phase' = "drained"
  /\ UNCHANGED <<tried, loops, purged, stop, worker, status, faulty, open, starts>>

\* The stop returns when every worker has ended.
Drained ==
  /\ phase = "draining" /\ \A w \in Workers : worker[w].pc = "gone"
  /\ phase' = "drained"
  /\ UNCHANGED <<tried, loops, purged, stop, worker, status, faulty, open, starts>>

\* Then the loops are asked to go, wherever they are; nobody waits until they are gone,
\* and one in a round may still have to let go of what it uses.
CancelLoops ==
  /\ phase = "drained" /\ phase' = "closing"
  /\ loops' = [l \in Periodic |-> IF loops[l] \in {"absent", "gone"} THEN loops[l]
                                                                  ELSE "cancelled"]
  /\ UNCHANGED <<tried, purged, stop, worker, status, faulty, open, starts>>

LoopLeaves(l) ==
  /\ loops[l] = "cancelled" /\ loops' = [loops EXCEPT ![l] = "gone"]
  /\ UNCHANGED <<phase, tried, purged, stop, worker, status, faulty, open, starts>>

CloseGraph ==
  /\ phase = "closing" /\ "neo4j" \in open /\ open' = open \ {"neo4j"}
  /\ UNCHANGED <<phase, tried, loops, purged, stop, worker, status, faulty, starts>>

\* What a process leaves behind are its rows.
Vanish ==
  /\ phase' = "down" /\ open' = {} /\ tried' = {} /\ stop' = FALSE
  /\ loops' = [l \in Periodic |-> "absent"] /\ purged' = FALSE
  /\ worker' = [w \in Workers |-> Absent]
  /\ UNCHANGED <<status, faulty, starts>>

CloseRerank == phase = "closing" /\ open = {"rerank"} /\ Vanish
Killed == phase # "down" /\ Vanish

-----------------------------------------------------------------------------
\* What the process does by itself once it has been asked to stop.
Stopping ==
  \/ Cancel \/ Drained \/ CancelLoops \/ CloseGraph \/ CloseRerank
  \/ \E w \in Workers : Leave(w)

Starting == InitDb \/ Prepare \/ StartLoop \/ StartWorkers \/ Serve

Working ==
  \/ \E l \in Periodic : Wake(l) \/ RoundEnds(l) \/ RoundFails(l) \/ LoopLeaves(l)
  \/ \E w \in Workers : \/ Turn(w) \/ Nothing(w) \/ HandlerReturns(w) \/ Raises(w) \/ Record(w)
                        \/ \E t \in Tasks : Claim(w, t)

Next == Boot \/ Starting \/ Working \/ AskToStop \/ Stopping \/ Killed

\* The event loop runs what is ready; nothing obliges a handler to return.
Spec == Init /\ [][Next]_vars /\ WF_vars(Stopping)

-----------------------------------------------------------------------------
\* A handler runs only when the external tools and the runtime settings have been
\* loaded, as far as they could be: the comment in main.py before the workers start.
WorkIsEquipped ==
  \A w \in Workers : worker[w].pc = "handler" => {"database", "tools", "config"} \subseteq tried

\* A task is recorded as failed only when its handler or the write of its result
\* raised, never because the process stopped under it (tasks/worker.py, run_task_once).
StopIsNoFailure == \A t \in Tasks : status[t] = "failed" => t \in faulty

\* Once a client is closed no worker is there, and no loop does a round: one that is
\* still there has been cancelled and only comes to its end (main.py, tasks/lifecycle.py).
ClosedIsQuiet ==
  phase # "down" /\ open # Clients =>
    /\ \A w \in Workers : worker[w].pc \in {"absent", "gone"}
    /\ \A l \in Periodic : loops[l] \in {"absent", "cancelled", "gone"}

\* A loop that was started goes on, whatever its rounds raise, until the stop; only the
\* cache's cleanup may be gone before, and never once it has removed a row (cleanup_loop).
LoopsGoOn ==
  \A l \in Periodic : loops[l] = "gone" => phase = "closing" \/ (l = "cleanup" /\ ~purged)

\* A stop comes to its end, even if a handler never returns.
StopEnds == phase = "draining" ~> phase = "down"

\* A process works with what it has prepared, its loops go on, and its stop neither fails
\* a task nor takes a client from who still works with it.
ProcessSound ==
  TypeOK /\ WorkIsEquipped /\ StopIsNoFailure /\ ClosedIsQuiet /\ LoopsGoOn
=============================================================================
