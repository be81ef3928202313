------------------------------- MODULE MCLive -------------------------------
(***************************************************************************)
(* What must come to an end: the dispatch of an event, a run of the agent  *)
(* with the stream that shows it, a debate of experts, the stop of the     *)
(* process.  They share no state, so a behaviour is about one of them:     *)
(* focus is chosen at the start and the others keep their initial states.  *)
(***************************************************************************)
EXTENDS EventOutbox, TLC

CONSTANTS
  d1, d2,
  None, MaxIter, MaxCalls,
  Experts, First, Causes,
  Workers, Tasks, Followed, MaxStarts

VARIABLES
  focus,
  ctx, phase, iter, calls, talk, steps, result, learning, queue, reader, events, saved, audits,
  round, thinking, said, opinions, errors, answer,
  p_phase, tried, loops, purged, stop, worker, p_status, faulty, open, starts

agent == <<ctx, phase, iter, calls, talk, steps, result, learning, queue, reader,
           events, saved, audits>>
debate == <<round, thinking, said, opinions, errors, answer>>
process == <<p_phase, tried, loops, purged, stop, worker, p_status, faulty, open, starts>>

\* The first subscriber has one attempt, the second two, the third three.
MCSubMax == [s \in Subs |-> s]

Agent == INSTANCE AgentStream
Panel == INSTANCE Debate
Server == INSTANCE Lifecycle WITH phase <- p_phase, status <- p_status

ASSUME LiveAssumption == Agent!AgentAssumption /\ Server!StartAssumption

LiveInit ==
  /\ focus \in {"outbox", "agent", "debate", "process"}
  /\ Init /\ Agent!Init /\ Panel!Init /\ Server!Init

OutboxMoves(A) == focus = "outbox" /\ A /\ UNCHANGED <<focus, agent, debate, process>>
AgentMoves(A) == focus = "agent" /\ A /\ UNCHANGED <<focus, vars, debate, process>>
DebateMoves(A) == focus = "debate" /\ A /\ UNCHANGED <<focus, vars, agent, process>>
ProcessMoves(A) == focus = "process" /\ A /\ UNCHANGED <<focus, vars, agent, debate>>

\* Agent, debate and process stop; an outbox with work left must not.
Rest == focus # "outbox" /\ UNCHANGED <<focus, vars, agent, debate, process>>

LiveNext ==
  \/ OutboxMoves(TimelyNext)
  \/ AgentMoves(Agent!Next)
  \/ DebateMoves(Panel!Next)
  \/ ProcessMoves(Server!Next)
  \/ Rest

\* The fairness of the four modules, each for the behaviours about it.
LiveFairness ==
  /\ WF_vars(OutboxMoves(Tick)) /\ WF_vars(OutboxMoves(TimelyExpire))
  /\ \A d \in Dispatchers :
       /\ WF_vars(OutboxMoves(Claim(d)))
       /\ WF_vars(OutboxMoves(Walk(d)))
       /\ WF_vars(OutboxMoves(Recover(d)))
  /\ WF_agent(AgentMoves(Agent!Engine)) /\ WF_agent(AgentMoves(Agent!Deliver))
  /\ WF_debate(DebateMoves(Panel!Next))
  /\ WF_process(ProcessMoves(Server!Stopping))

LiveSpec == LiveInit /\ [][LiveNext]_<<focus, vars, agent, debate, process>> /\ LiveFairness

-----------------------------------------------------------------------------
\* What each of them keeps, stated in its module under the same name.
AgentSound == focus = "agent" => Agent!AgentSound
DebateSound == focus = "debate" => Panel!DebateSound
ProcessSound == focus = "process" => Server!ProcessSound

\* A run of the agent, a debate and a stop come to their ends.
AllEnd ==
  /\ focus = "agent" => Agent!EveryRunEnds
  /\ focus = "debate" => Panel!DebateEnds
  /\ focus = "process" => Server!StopEnds
=============================================================================
