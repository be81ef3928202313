---------------------------- MODULE AgentStream ----------------------------
(***************************************************************************)
(* One run of the agent engine and the stream that shows it.  The engine   *)
(* asks the model, runs the tools it calls one after the other, and hands  *)
(* every step to a queue; the stream takes from the queue and yields       *)
(* events, until the reader leaves or the answer is out.  Audit records    *)
(* and the learning of facts run behind it.                                *)
(***************************************************************************)
EXTENDS Naturals, Sequences, SequencesExt

CONSTANTS
  MaxIter,   \* persona.max_iter
  MaxCalls,  \* bound: tool calls in one reply
  None

\* A persona's loop has a turn, and a reply a limit of calls.
AgentAssumption == MaxIter \in Nat \ {0} /\ MaxCalls \in Nat

(* What ToolRegistry.run meets: the role is not allowed, the name is not    *)
(* registered, the handler takes no tenant, it works, or it raises.         *)
Kinds == {"denied", "unknown", "unaware", "works", "raises"}

VARIABLES
  ctx,       \* called by the stream, with a context; without, by a diagnosis
  phase,     \* of the engine: "model", "tools", "fallback", "over"
  iter,      \* turn of the loop
  calls,     \* tool calls of this turn not run yet
  talk,      \* messages after the prompt: "call" (with its tools) and "tool"
  steps,     \* steps recorded so far
  result,    \* None, "answer", "degraded" or "error"
  learning,  \* extract_and_consolidate was started
  queue,     \* steps and result on their way to the stream
  reader,    \* "on" or "gone"
  events,    \* what the stream yielded
  saved,     \* messages of the conversation written
  audits     \* tool calls handed to the audit

vars == <<ctx, phase, iter, calls, talk, steps, result, learning, queue, reader,
          events, saved, audits>>
stream == <<reader, events, saved>>

Init ==
  /\ ctx \in BOOLEAN
  /\ phase = "model" /\ iter = 1 /\ calls = <<>> /\ talk = <<>> /\ steps = 0
  /\ result = None /\ learning = FALSE
  /\ queue = <<>> /\ reader = (IF ctx THEN "on" ELSE "gone")
  /\ events = <<"meta">> /\ saved = FALSE
  /\ audits = 0

(* on_step and the stream's task fill the queue; a diagnosis has none.      *)
Handed(items) == IF ctx THEN queue \o items ELSE queue

(* The model answers without tools: the last step and the result.  Facts    *)
(* are learnt only from such an answer, and only with a user.               *)
ModelAnswers ==
  /\ phase = "model" /\ phase' = "over"
  /\ steps' = steps + 1 /\ result' = "answer"
  /\ queue' = Handed(<<"step", "answer">>)
  /\ learning' = ctx
  /\ UNCHANGED <<ctx, iter, calls, talk, stream, audits>>

ModelCalls(tools) ==
  /\ phase = "model" /\ phase' = "tools"
  /\ calls' = tools /\ talk' = Append(talk, [says |-> "call", n |-> Len(tools)])
  /\ UNCHANGED <<ctx, iter, steps, result, learning, queue, stream, audits>>

ModelFails ==
  /\ phase = "model" /\ phase' = "fallback"
  /\ UNCHANGED <<ctx, iter, calls, talk, steps, result, learning, queue, stream, audits>>

(* ToolRegistry.run checks and audits where it gets a context, and it gets  *)
(* one in every case: run_agent makes step_ctx from (ctx or {}).            *)
Runs(kind) == kind \in {"works", "raises"}

\* mutant
RunToolAllowed ==
  /\ phase = "tools" /\ calls # <<>>
  /\ calls' = Tail(calls)
  /\ talk' = IF Runs(Head(calls)) THEN Append(talk, [says |-> "tool", n |-> 0]) ELSE talk
  /\ steps' = steps + 1 /\ queue' = Handed(<<"step">>)
  /\ audits' = audits + (IF Runs(Head(calls)) THEN 1 ELSE 0)
  /\ UNCHANGED <<ctx, phase, iter, result, learning, stream>>

(* Every call yields a message and a step, whatever happened to the tool;   *)
(* what ran is audited in a task of its own.                                *)
RunTool ==
  /\ phase = "tools" /\ calls # <<>>
  /\ calls' = Tail(calls)
  /\ talk' = Append(talk, [says |-> "tool", n |-> 0])
  /\ steps' = steps + 1 /\ queue' = Handed(<<"step">>)
  /\ audits' = audits + (IF Runs(Head(calls)) THEN 1 ELSE 0)
  /\ UNCHANGED <<ctx, phase, iter, result, learning, stream>>

(* The loop goes on, or its else branch falls back. *)
NextTurn ==
  /\ phase = "tools" /\ calls = <<>>
  /\ IF iter < MaxIter THEN iter' = iter + 1 /\ phase' = "model"
     ELSE phase' = "fallback" /\ UNCHANGED iter
  /\ UNCHANGED <<ctx, calls, talk, steps, result, learning, queue, stream, audits>>

\* mutant
FallbackSilent ==
  /\ phase = "fallback" /\ phase' = "over"
  /\ result' = "degraded"
  /\ UNCHANGED <<ctx, iter, calls, talk, steps, learning, queue, stream, audits>>

(* The persona's fallback, or the minimal answer when it fails too. *)
Fallback ==
  /\ phase = "fallback" /\ phase' = "over"
  /\ result' = "degraded" /\ queue' = Handed(<<"degraded">>)
  /\ UNCHANGED <<ctx, iter, calls, talk, steps, learning, stream, audits>>

(* _run: anything else that goes wrong, e.g. the persona store. *)
EngineFails ==
  /\ ctx /\ phase = "model" /\ iter = 1 /\ steps = 0 /\ phase' = "over"
  /\ result' = "error" /\ queue' = Handed(<<"error">>)
  /\ UNCHANGED <<ctx, iter, calls, talk, steps, learning, stream, audits>>

-----------------------------------------------------------------------------
(* The stream: a step is shown, the result ends it.  An answer is saved     *)
(* between its token and done.                                              *)
Deliver ==
  /\ reader = "on" /\ queue # <<>> /\ Last(events) # "done"
  /\ queue' = Tail(queue)
  /\ events' = events \o CASE Head(queue) = "step" -> <<"tool_step">>
                           [] Head(queue) = "error" -> <<"done">>
                           [] OTHER -> <<"token", "done">>
  /\ saved' = (saved \/ Head(queue) \in {"answer", "degraded"})
  /\ UNCHANGED <<ctx, phase, iter, calls, talk, steps, result, learning, reader, audits>>

(* The reader leaves: the stream waits for the engine and yields no more. *)
Leave ==
  /\ reader = "on" /\ Last(events) # "done" /\ reader' = "gone"
  /\ UNCHANGED <<ctx, phase, iter, calls, talk, steps, result, learning, queue,
                 events, saved, audits>>

Next ==
  \/ ModelAnswers \/ ModelFails \/ RunTool \/ NextTurn \/ Fallback \/ EngineFails
  \/ \E n \in 1 .. MaxCalls : \E tools \in [1 .. n -> Kinds] : ModelCalls(tools)
  \/ Deliver \/ Leave

Engine == \/ ModelAnswers \/ ModelFails \/ RunTool \/ NextTurn \/ Fallback
          \/ \E n \in 1 .. MaxCalls : \E tools \in [1 .. n -> Kinds] : ModelCalls(tools)

(* Model, tools and the event loop answer eventually; readers may stay. *)
Fairness == WF_vars(Engine) /\ WF_vars(Deliver)
Spec == Init /\ [][Next]_vars /\ Fairness

-----------------------------------------------------------------------------
(* Phases, counters and results hold values of their kinds. *)
TypeOK ==
  /\ phase \in {"model", "tools", "fallback", "over"} /\ iter \in 1 .. MaxIter
  /\ Len(calls) <= MaxCalls /\ \A i \in DOMAIN calls : calls[i] \in Kinds
  /\ result \in {None, "answer", "degraded", "error"}
  /\ learning \in BOOLEAN /\ saved \in BOOLEAN

\* Every call has its answers right behind it, and every answer belongs to a call.
Answered(s) ==
  /\ \A i \in DOMAIN s : s[i].says = "call" =>
       \A j \in i + 1 .. i + s[i].n : j \in DOMAIN s /\ s[j].says = "tool"
  /\ \A j \in DOMAIN s : s[j].says = "tool" =>
       \E i \in DOMAIN s : s[i].says = "call" /\ j \in i + 1 .. i + s[i].n

(* Whenever the model is asked, every tool call of its earlier replies has  *)
(* exactly one answer, refused and raising tools included, and directly     *)
(* behind the reply: the chat protocol rejects any other talk (run_agent).  *)
CallsAreAnswered == phase = "model" => Answered(talk)

(* Facts are learnt from answers of the model, never from a fallback or an  *)
(* error, and only when it is known whose facts they are (run_agent).       *)
LearnsFromAnswers == learning => ctx /\ result = "answer"

(* The stream yields one meta and the steps one by one, none of them twice; *)
(* done comes after the last of them, at most one answer before it, nothing *)
(* after it (_stream_agent).                                                *)
Shown(k) == [i \in 1 .. k + 1 |-> IF i = 1 THEN "meta" ELSE "tool_step"]
StreamInOrder ==
  \E k \in 0 .. steps :
    \/ events = Shown(k)
    \/ k = steps /\ events \in {Shown(k) \o <<"done">>, Shown(k) \o <<"token", "done">>}

(* A reader who stays sees done, within max_iter turns of the model.        *)
EveryRunEnds == <>(reader = "gone" \/ Last(events) = "done")

\* The model sees an answer to each of its calls, what is learnt was answered, and the
\* reader gets the events of a run in their order.
AgentSound == TypeOK /\ CallsAreAnswered /\ LearnsFromAnswers /\ StreamInOrder
=============================================================================
