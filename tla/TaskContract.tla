---------------------------- MODULE TaskContract ----------------------------
(***************************************************************************)
(* What the task queue promises its callers, whatever the workers do: an   *)
(* accepted task is leased to one run at a time, a lease that ends without *)
(* success leads back to the queue or to the dead tasks, a task is done    *)
(* only after its handler has run to the end at least once, and a done     *)
(* task stays done.                                                        *)
(***************************************************************************)
CONSTANTS Tasks, Workers, NoWorker

VARIABLES
  phase,     \* "none", "waiting", "leased", "done" or "dead"
  holder,    \* the worker whose lease a leased task is under
  executed   \* tasks whose handler has returned normally at least once

vars == <<phase, holder, executed>>

Phases == {"none", "waiting", "leased", "done", "dead"}

Init ==
  /\ phase = [t \in Tasks |-> "none"]
  /\ holder = [t \in Tasks |-> NoWorker]
  /\ executed = {}

\* A task enters the queue: a new one, or one an operator sends back.
Admit(t) ==
  /\ phase[t] \in {"none", "dead"}
  /\ phase' = [phase EXCEPT ![t] = "waiting"]
  /\ UNCHANGED <<holder, executed>>

Lease(t, w) ==
  /\ phase[t] = "waiting"
  /\ phase' = [phase EXCEPT ![t] = "leased"]
  /\ holder' = [holder EXCEPT ![t] = w]
  /\ UNCHANGED executed

\* A run ends normally: that of the holder, or one whose lease is over.
Execute(t) ==
  /\ executed' = executed \cup {t}
  /\ UNCHANGED <<phase, holder>>

Finish(t) ==
  /\ phase[t] = "leased"
  /\ t \in executed
  /\ phase' = [phase EXCEPT ![t] = "done"]
  /\ holder' = [holder EXCEPT ![t] = NoWorker]
  /\ UNCHANGED executed

\* Leases end without success, several at a time when they expire.
Revoke(S) ==
  /\ S # {}
  /\ \A t \in S : phase[t] = "leased"
  /\ \E outcome \in [S -> {"waiting", "dead"}] :
       phase' = [t \in Tasks |-> IF t \in S THEN outcome[t] ELSE phase[t]]
  /\ holder' = [t \in Tasks |-> IF t \in S THEN NoWorker ELSE holder[t]]
  /\ UNCHANGED executed

Abandon(t) ==
  /\ phase[t] = "waiting"
  /\ phase' = [phase EXCEPT ![t] = "dead"]
  /\ UNCHANGED <<holder, executed>>

Next ==
  \/ \E t \in Tasks : Admit(t) \/ Execute(t) \/ Finish(t) \/ Abandon(t)
  \/ \E t \in Tasks, w \in Workers : Lease(t, w)
  \/ \E S \in SUBSET Tasks : Revoke(S)

Spec == Init /\ [][Next]_vars
=============================================================================
