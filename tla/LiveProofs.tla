----------------------------- MODULE LiveProofs -----------------------------
(***************************************************************************)
(* The invariants of the parts that must come to an end, for every limit   *)
(* of turns and calls, every set of experts, workers, tasks and loops, and *)
(* every number of starts: the run of the agent with its stream, the       *)
(* debate, the life of a process.  That they do come to their ends is left *)
(* to the model checker; the outbox is the subject of EventOutboxProofs.   *)
(***************************************************************************)
EXTENDS MCLive, Sequences, FiniteSetTheorems, SequenceTheorems, TLAPS

-----------------------------------------------------------------------------
(* The agent.                                                               *)

Messages == [says : {"call", "tool"}, n : Nat]
Items == {"step", "answer", "degraded", "error"}

\* Every kept value has its kind, the sequences included.
AgentKinds ==
  /\ Agent!TypeOK
  /\ ctx \in BOOLEAN /\ steps \in Nat
  /\ calls \in Seq(Agent!Kinds) /\ talk \in Seq(Messages) /\ queue \in Seq(Items)

\* The answers of a call follow it, the calls that are still open counted as if they
\* were answered at the end; only the last reply has open calls.
TalkOK ==
  /\ \A i \in 1 .. Len(talk) : talk[i].says = "call" =>
       /\ i + talk[i].n <= Len(talk) + Len(calls)
       /\ \A j \in 1 .. Len(talk) : j \in i + 1 .. i + talk[i].n => talk[j].says = "tool"
  /\ \A j \in 1 .. Len(talk) : talk[j].says = "tool" =>
       \E i \in 1 .. Len(talk) : talk[i].says = "call" /\ j \in i + 1 .. i + talk[i].n
  /\ phase = "model" => calls = <<>>
  /\ calls # <<>> =>
       \E i \in 1 .. Len(talk) : talk[i].says = "call" /\ i + talk[i].n = Len(talk) + Len(calls)

\* Of all steps the stream has shown k, and the others are in the queue, with the
\* result behind them once there is one.
StreamAt(k) ==
  \/ /\ phase # "over" /\ events = Agent!Shown(k) /\ Len(queue) = steps - k
     /\ \A i \in 1 .. Len(queue) : queue[i] = "step"
  \/ /\ phase = "over" /\ events = Agent!Shown(k) /\ Len(queue) = steps - k + 1
     /\ \A i \in 1 .. steps - k : queue[i] = "step"
     /\ queue[steps - k + 1] \in {"answer", "degraded", "error"}
  \/ /\ phase = "over" /\ k = steps /\ queue = <<>>
     /\ events \in {Agent!Shown(k) \o <<"done">>, Agent!Shown(k) \o <<"token", "done">>}

StreamOK ==
  IF ctx THEN \E k \in 0 .. steps : StreamAt(k)
  ELSE queue = <<>> /\ events = Agent!Shown(0) /\ reader = "gone"

LearnOK == /\ phase # "over" => ~learning
           /\ Agent!LearnsFromAnswers

AgentInv == AgentKinds /\ TalkOK /\ StreamOK /\ LearnOK

\* With no step shown the stream has yielded its first event alone.
LEMMA ShownNone == Agent!Shown(0) = <<"meta">>
<1>1. DOMAIN Agent!Shown(0) = 1 .. 1 /\ Agent!Shown(0)[1] = "meta"
  BY DEF Agent!Shown
<1>2. Agent!Shown(0) = [i \in 1 .. 1 |-> "meta"]
  BY DEF Agent!Shown
<1> QED
  BY <1>2

\* One more step is one more event.
LEMMA ShownNext ==
  ASSUME NEW k \in Nat
  PROVE  Agent!Shown(k) \o <<"tool_step">> = Agent!Shown(k + 1)
<1>1. /\ Agent!Shown(k) \in Seq({"meta", "tool_step"}) /\ Len(Agent!Shown(k)) = k + 1
      /\ Agent!Shown(k + 1) \in Seq({"meta", "tool_step"}) /\ Len(Agent!Shown(k + 1)) = k + 2
  BY DEF Agent!Shown
<1>2. \A i \in 1 .. k + 2 : (Agent!Shown(k) \o <<"tool_step">>)[i] = Agent!Shown(k + 1)[i]
  BY <1>1 DEF Agent!Shown
<1> QED
  BY <1>1, <1>2

\* A run begins with nothing called, nothing queued and the first event shown.
LEMMA AgentStarts == LiveAssumption /\ Agent!Init => AgentInv
<1> SUFFICES ASSUME LiveAssumption, Agent!Init PROVE AgentInv
  OBVIOUS
<1> USE DEF Agent!Init
<1>1. AgentKinds
  <2>1. calls \in Seq(Agent!Kinds) /\ talk \in Seq(Messages) /\ queue \in Seq(Items)
    BY EmptySeq
  <2>2. Len(calls) <= MaxCalls /\ \A i \in DOMAIN calls : calls[i] \in Agent!Kinds
    BY DEF LiveAssumption, Agent!AgentAssumption
  <2>3. iter \in 1 .. MaxIter
    BY DEF LiveAssumption, Agent!AgentAssumption
  <2>4. Agent!TypeOK
    BY <2>2, <2>3 DEF Agent!TypeOK
  <2> QED
    BY <2>1, <2>4 DEF AgentKinds
<1>2. TalkOK
  BY DEF TalkOK
<1>3. StreamOK
  <2>1. 0 \in 0 .. steps /\ events = Agent!Shown(0)
    BY ShownNone
  <2>2. StreamAt(0)
    BY <2>1 DEF StreamAt
  <2> QED
    BY <2>1, <2>2 DEF StreamOK
<1>4. LearnOK
  BY DEF LearnOK, Agent!LearnsFromAnswers
<1> QED
  BY <1>1, <1>2, <1>3, <1>4 DEF AgentInv

\* The engine hands a step, or a step or nothing with the result behind it, to the
\* stream; without a context it hands nothing.
LEMMA HandsStep ==
  ASSUME AgentInv, phase # "over", phase' # "over", UNCHANGED <<ctx, reader, events>>,
         steps' = steps + 1, queue' = Agent!Handed(<<"step">>)
  PROVE  StreamOK'
<1>1. CASE ~ctx
  BY <1>1 DEF AgentInv, StreamOK, Agent!Handed
<1>2. CASE ctx
  <2>1. PICK k \in 0 .. steps : StreamAt(k)
    BY <1>2 DEF AgentInv, StreamOK
  <2>2. Len(queue) = steps - k /\ \A i \in 1 .. Len(queue) : queue[i] = "step"
    BY <2>1 DEF StreamAt
  <2>3. queue' = Append(queue, "step")
    BY <1>2 DEF AgentInv, AgentKinds, Agent!Handed
  <2>4. queue \in Seq(Items) /\ "step" \in Items /\ steps \in Nat
    BY DEF AgentInv, AgentKinds, Items
  <2>5. /\ Len(queue') = Len(queue) + 1 /\ queue'[Len(queue) + 1] = "step"
        /\ \A i \in 1 .. Len(queue) : queue'[i] = queue[i]
    BY <2>3, <2>4
  <2>6. /\ k \in 0 .. steps' /\ Len(queue') = steps' - k
        /\ \A i \in 1 .. Len(queue') : queue'[i] = "step"
    BY <2>2, <2>4, <2>5
  <2>7. StreamAt(k)'
    BY <2>1, <2>6 DEF StreamAt
  <2> QED
    BY <1>2, <2>6, <2>7 DEF StreamOK
<1> QED
  BY <1>1, <1>2

\* The result goes to the queue behind the steps.
LEMMA HandsResult ==
  ASSUME AgentInv, phase # "over", phase' = "over", UNCHANGED <<ctx, reader, events>>,
         NEW r \in {"answer", "degraded", "error"},
         \/ steps' = steps /\ queue' = Agent!Handed(<<r>>)
         \/ steps' = steps + 1 /\ queue' = Agent!Handed(<<"step", r>>)
  PROVE  StreamOK'
<1>1. CASE ~ctx
  BY <1>1 DEF AgentInv, StreamOK, Agent!Handed
<1>2. CASE ctx
  <2>1. PICK k \in 0 .. steps : StreamAt(k)
    BY <1>2 DEF AgentInv, StreamOK
  <2>2. Len(queue) = steps - k /\ \A i \in 1 .. Len(queue) : queue[i] = "step"
    BY <2>1 DEF StreamAt
  <2>3. \/ steps' = steps /\ queue' = Append(queue, r)
        \/ steps' = steps + 1 /\ queue' = queue \o <<"step", r>>
    BY <1>2 DEF AgentInv, AgentKinds, Agent!Handed
  <2>4. queue \in Seq(Items) /\ r \in Items /\ "step" \in Items /\ steps \in Nat
    BY DEF AgentInv, AgentKinds, Items
  <2>5. ASSUME steps' = steps /\ queue' = Append(queue, r)
      PROVE  /\ k \in 0 .. steps' /\ Len(queue') = steps' - k + 1
             /\ \A i \in 1 .. steps' - k : queue'[i] = "step"
             /\ queue'[steps' - k + 1] = r
    <3>1. /\ Len(queue') = Len(queue) + 1 /\ queue'[Len(queue) + 1] = r
          /\ \A i \in 1 .. Len(queue) : queue'[i] = queue[i]
      BY <2>4, <2>5
    <3> QED
      BY <2>2, <2>4, <2>5, <3>1
  <2>6. ASSUME steps' = steps + 1 /\ queue' = queue \o <<"step", r>>
      PROVE  /\ k \in 0 .. steps' /\ Len(queue') = steps' - k + 1
             /\ \A i \in 1 .. steps' - k : queue'[i] = "step"
             /\ queue'[steps' - k + 1] = r
    <3>1. /\ Len(queue') = Len(queue) + 2
          /\ queue'[Len(queue) + 1] = "step" /\ queue'[Len(queue) + 2] = r
          /\ \A i \in 1 .. Len(queue) : queue'[i] = queue[i]
      BY <2>4, <2>6
    <3>2. Len(queue) \in Nat /\ steps' - k = Len(queue) + 1 /\ k \in 0 .. steps'
      BY <2>2, <2>4, <2>6
    <3>3. \A i \in 1 .. Len(queue) + 1 : queue'[i] = "step"
      BY <2>2, <3>1, <3>2
    <3>4. steps' - k + 1 = Len(queue) + 2
      BY <3>2
    <3> QED
      BY <3>1, <3>2, <3>3, <3>4
  <2>7. /\ k \in 0 .. steps' /\ Len(queue') = steps' - k + 1
        /\ \A i \in 1 .. steps' - k : queue'[i] = "step"
        /\ queue'[steps' - k + 1] = r
    BY <2>3, <2>5, <2>6
  <2>8. StreamAt(k)'
    BY <2>1, <2>7 DEF StreamAt
  <2> QED
    BY <1>2, <2>7, <2>8 DEF StreamOK
<1> QED
  BY <1>1, <1>2

\* What is handed over are items.
LEMMA HandedKinds ==
  ASSUME AgentKinds, NEW items \in Seq(Items)
  PROVE  Agent!Handed(items) \in Seq(Items)
  BY ConcatProperties DEF AgentKinds, Agent!Handed

\* Nothing of the stream changes.
LEMMA StreamStays ==
  ASSUME AgentInv, phase # "over", phase' # "over",
         UNCHANGED <<ctx, steps, queue, reader, events>>
  PROVE  StreamOK'
  BY DEF AgentInv, StreamOK, StreamAt

\* Nothing of the talk changes.
LEMMA TalkStays ==
  ASSUME AgentInv, phase' = "model" => calls = <<>>, UNCHANGED <<talk, calls>>
  PROVE  TalkOK'
  BY DEF AgentInv, TalkOK

\* The last step and the answer go to the queue together.
LEMMA AgentModelAnswers == AgentInv /\ Agent!ModelAnswers => AgentInv'
<1> SUFFICES ASSUME AgentInv, Agent!ModelAnswers PROVE AgentInv'
  OBVIOUS
<1>1. /\ phase = "model" /\ phase' = "over" /\ steps' = steps + 1 /\ result' = "answer"
      /\ queue' = Agent!Handed(<<"step", "answer">>) /\ learning' = ctx
      /\ UNCHANGED <<ctx, iter, calls, talk, reader, events, saved>>
  BY DEF Agent!ModelAnswers, Agent!stream
<1>2. AgentKinds'
  <2>1. <<"step", "answer">> \in Seq(Items)
    BY DEF Items
  <2>2. queue' \in Seq(Items)
    BY <1>1, <2>1, HandedKinds DEF AgentInv
  <2>3. learning' \in BOOLEAN /\ steps' \in Nat
    BY <1>1 DEF AgentInv, AgentKinds
  <2> QED
    BY <1>1, <2>2, <2>3 DEF AgentInv, AgentKinds, Agent!TypeOK
<1>3. TalkOK'
  BY <1>1, TalkStays
<1>4. StreamOK'
  BY <1>1, HandsResult
<1>5. LearnOK'
  BY <1>1 DEF AgentInv, AgentKinds, LearnOK, Agent!LearnsFromAnswers
<1> QED
  BY <1>2, <1>3, <1>4, <1>5 DEF AgentInv

\* Nothing was called in this turn, so nothing is owed.
LEMMA AgentModelFails == AgentInv /\ Agent!ModelFails => AgentInv'
<1> SUFFICES ASSUME AgentInv, Agent!ModelFails PROVE AgentInv'
  OBVIOUS
<1> USE DEF Agent!ModelFails, Agent!stream
<1>1. AgentKinds'
  BY DEF AgentInv, AgentKinds, Agent!TypeOK
<1>2. TalkOK'
  BY TalkStays
<1>3. StreamOK'
  BY StreamStays
<1>4. LearnOK'
  BY DEF AgentInv, LearnOK, Agent!LearnsFromAnswers
<1> QED
  BY <1>1, <1>2, <1>3, <1>4 DEF AgentInv

\* A reply with calls owes as many messages as it has calls.
LEMMA AgentModelCalls ==
  ASSUME AgentInv, NEW n \in 1 .. MaxCalls, NEW tools \in [1 .. n -> Agent!Kinds],
         MaxCalls \in Nat, Agent!ModelCalls(tools)
  PROVE  AgentInv'
<1> USE DEF Agent!ModelCalls, Agent!stream
<1>1. tools \in Seq(Agent!Kinds) /\ Len(tools) = n
  OBVIOUS
<1>2. talk' \in Seq(Messages) /\ talk' = Append(talk, [says |-> "call", n |-> n])
  BY <1>1 DEF AgentInv, AgentKinds, Messages
<1>3. AgentKinds'
  BY <1>1, <1>2 DEF AgentInv, AgentKinds, Agent!TypeOK
<1>4. TalkOK'
  <2>1. calls = <<>> /\ Len(calls) = 0 /\ calls' = tools
    BY DEF AgentInv, TalkOK
  <2>2. /\ Len(talk) \in Nat /\ Len(talk') = Len(talk) + 1
        /\ \A i \in 1 .. Len(talk) : talk'[i] = talk[i] /\ talk[i] \in Messages
        /\ talk'[Len(talk) + 1] = [says |-> "call", n |-> n]
    BY <1>2 DEF AgentInv, AgentKinds
  <2>3. \A i \in 1 .. Len(talk') : talk'[i].says = "call" =>
          /\ i + talk'[i].n <= Len(talk') + Len(calls')
          /\ \A j \in 1 .. Len(talk') : j \in i + 1 .. i + talk'[i].n => talk'[j].says = "tool"
    BY <1>1, <2>1, <2>2 DEF AgentInv, TalkOK, Messages
  <2>4. \A j \in 1 .. Len(talk') : talk'[j].says = "tool" =>
          \E i \in 1 .. Len(talk') : talk'[i].says = "call" /\ j \in i + 1 .. i + talk'[i].n
    BY <2>2 DEF AgentInv, TalkOK
  <2>5. /\ Len(talk') \in 1 .. Len(talk') /\ talk'[Len(talk')].says = "call"
        /\ Len(talk') + talk'[Len(talk')].n = Len(talk') + Len(calls')
    BY <1>1, <2>1, <2>2
  <2> QED
    BY <2>3, <2>4, <2>5 DEF TalkOK
<1>5. StreamOK'
  BY StreamStays
<1>6. LearnOK'
  BY DEF AgentInv, LearnOK, Agent!LearnsFromAnswers
<1> QED
  BY <1>3, <1>4, <1>5, <1>6 DEF AgentInv

\* The next message answers the next call, whatever became of the tool.
LEMMA AgentRunTool == AgentInv /\ Agent!RunTool => AgentInv'
<1> SUFFICES ASSUME AgentInv, Agent!RunTool PROVE AgentInv'
  OBVIOUS
<1>0. /\ phase = "tools" /\ calls # <<>> /\ calls' = Tail(calls)
      /\ talk' = Append(talk, [says |-> "tool", n |-> 0])
      /\ steps' = steps + 1 /\ queue' = Agent!Handed(<<"step">>)
      /\ UNCHANGED <<ctx, phase, iter, result, learning, reader, events, saved>>
  BY DEF Agent!RunTool, Agent!stream
<1>1. calls' \in Seq(Agent!Kinds) /\ Len(calls) \in Nat /\ Len(calls') = Len(calls) - 1
  BY <1>0 DEF AgentInv, AgentKinds
<1>2. talk' \in Seq(Messages) /\ talk' = Append(talk, [says |-> "tool", n |-> 0])
  BY <1>0 DEF AgentInv, AgentKinds, Messages
<1>3. AgentKinds'
  <2>1. queue' \in Seq(Items)
    <3>1. <<"step">> \in Seq(Items)
      BY DEF Items
    <3> QED
      BY <1>0, <3>1, HandedKinds DEF AgentInv
  <2>2. /\ \A i \in DOMAIN calls' : calls'[i] \in Agent!Kinds
        /\ Len(calls') <= MaxCalls
    BY <1>1, LiveAssumption
       DEF AgentInv, AgentKinds, Agent!TypeOK, LiveAssumption, Agent!AgentAssumption
  <2> QED
    BY <1>0, <1>1, <1>2, <2>1, <2>2 DEF AgentInv, AgentKinds, Agent!TypeOK
<1>4. TalkOK'
  <2>1. /\ Len(talk) \in Nat /\ Len(talk') = Len(talk) + 1
        /\ \A i \in 1 .. Len(talk) : talk'[i] = talk[i] /\ talk[i] \in Messages
        /\ talk'[Len(talk) + 1] = [says |-> "tool", n |-> 0]
    BY <1>2 DEF AgentInv, AgentKinds
  <2>2. PICK i \in 1 .. Len(talk) : talk[i].says = "call" /\ i + talk[i].n = Len(talk) + Len(calls)
    BY <1>0 DEF AgentInv, TalkOK
  <2>3. i + talk'[i].n = Len(talk') + Len(calls') /\ talk'[i].says = "call" /\ i \in 1 .. Len(talk')
    BY <1>1, <2>1, <2>2 DEF Messages
  <2>4. Len(talk) + 1 \in i + 1 .. i + talk'[i].n
    BY <1>1, <2>1, <2>2, <2>3
  <2>5. \A m \in 1 .. Len(talk') : talk'[m].says = "call" =>
          /\ m + talk'[m].n <= Len(talk') + Len(calls')
          /\ \A j \in 1 .. Len(talk') : j \in m + 1 .. m + talk'[m].n => talk'[j].says = "tool"
    <3> SUFFICES ASSUME NEW m \in 1 .. Len(talk'), talk'[m].says = "call"
                 PROVE  /\ m + talk'[m].n <= Len(talk') + Len(calls')
                        /\ \A j \in 1 .. Len(talk') :
                             j \in m + 1 .. m + talk'[m].n => talk'[j].says = "tool"
      OBVIOUS
    <3>1. m \in 1 .. Len(talk) /\ talk'[m] = talk[m] /\ talk[m].says = "call"
      BY <2>1
    <3>2. /\ m + talk[m].n <= Len(talk) + Len(calls)
          /\ \A j \in 1 .. Len(talk) : j \in m + 1 .. m + talk[m].n => talk[j].says = "tool"
      BY <3>1 DEF AgentInv, TalkOK
    <3>3. Len(talk') + Len(calls') = Len(talk) + Len(calls)
      BY <1>1, <2>1
    <3>4. talk[m].n \in Nat
      BY <2>1, <3>1 DEF Messages
    <3>5. m + talk'[m].n <= Len(talk') + Len(calls')
      BY <3>1, <3>2, <3>3
    <3>6. ASSUME NEW j \in 1 .. Len(talk'), j \in m + 1 .. m + talk'[m].n
          PROVE  talk'[j].says = "tool"
      <4>1. j = Len(talk) + 1 \/ j \in 1 .. Len(talk)
        BY <2>1
      <4>2. CASE j = Len(talk) + 1
        BY <2>1, <4>2
      <4>3. CASE j \in 1 .. Len(talk)
        <5>1. talk[j].says = "tool"
          BY <3>1, <3>2, <3>6, <4>3
        <5> QED
          BY <2>1, <4>3, <5>1
      <4> QED
        BY <4>1, <4>2, <4>3
    <3> QED
      BY <3>5, <3>6
  <2>6. \A j \in 1 .. Len(talk') : talk'[j].says = "tool" =>
          \E m \in 1 .. Len(talk') : talk'[m].says = "call" /\ j \in m + 1 .. m + talk'[m].n
    <3> SUFFICES ASSUME NEW j \in 1 .. Len(talk'), talk'[j].says = "tool"
                 PROVE  \E m \in 1 .. Len(talk') :
                          talk'[m].says = "call" /\ j \in m + 1 .. m + talk'[m].n
      OBVIOUS
    <3>1. CASE j \in 1 .. Len(talk)
      <4>1. talk[j].says = "tool"
        BY <2>1, <3>1
      <4>2. PICK m \in 1 .. Len(talk) : talk[m].says = "call" /\ j \in m + 1 .. m + talk[m].n
        BY <3>1, <4>1 DEF AgentInv, TalkOK
      <4>3. m \in 1 .. Len(talk') /\ talk'[m] = talk[m]
        BY <2>1
      <4> QED
        BY <4>2, <4>3
    <3>2. CASE j = Len(talk) + 1
      BY <2>3, <2>4, <3>2
    <3> QED
      BY <2>1, <3>1, <3>2
  <2> QED
    BY <1>0, <2>3, <2>5, <2>6 DEF TalkOK
<1>5. StreamOK'
  BY <1>0, HandsStep
<1>6. LearnOK'
  BY <1>0 DEF AgentInv, LearnOK, Agent!LearnsFromAnswers
<1> QED
  BY <1>3, <1>4, <1>5, <1>6 DEF AgentInv

\* The model is asked again only when nothing is owed.
LEMMA AgentNextTurn == LiveAssumption /\ AgentInv /\ Agent!NextTurn => AgentInv'
<1> SUFFICES ASSUME LiveAssumption, AgentInv, Agent!NextTurn PROVE AgentInv'
  OBVIOUS
<1> USE DEF Agent!NextTurn, Agent!stream
<1>1. AgentKinds'
  BY DEF AgentInv, AgentKinds, Agent!TypeOK, LiveAssumption, Agent!AgentAssumption
<1>2. TalkOK'
  BY TalkStays
<1>3. StreamOK'
  BY StreamStays
<1>4. LearnOK'
  BY DEF AgentInv, LearnOK, Agent!LearnsFromAnswers
<1> QED
  BY <1>1, <1>2, <1>3, <1>4 DEF AgentInv

\* The fallback is a result like any other, and nothing is learnt from it.
LEMMA AgentFallback == AgentInv /\ Agent!Fallback => AgentInv'
<1> SUFFICES ASSUME AgentInv, Agent!Fallback PROVE AgentInv'
  OBVIOUS
<1> USE DEF Agent!Fallback, Agent!stream
<1>1. AgentKinds'
  <2>1. queue' \in Seq(Items)
    <3>1. <<"degraded">> \in Seq(Items)
      BY DEF Items
    <3> QED
      BY <3>1, HandedKinds DEF AgentInv
  <2> QED
    BY <2>1 DEF AgentInv, AgentKinds, Agent!TypeOK
<1>2. TalkOK'
  BY TalkStays
<1>3. StreamOK'
  BY HandsResult
<1>4. LearnOK'
  BY DEF AgentInv, LearnOK, Agent!LearnsFromAnswers
<1> QED
  BY <1>1, <1>2, <1>3, <1>4 DEF AgentInv

\* An engine that fails before its first step hands over the error alone.
LEMMA AgentEngineFails == AgentInv /\ Agent!EngineFails => AgentInv'
<1> SUFFICES ASSUME AgentInv, Agent!EngineFails PROVE AgentInv'
  OBVIOUS
<1> USE DEF Agent!EngineFails, Agent!stream
<1>1. AgentKinds'
  <2>1. queue' \in Seq(Items)
    <3>1. <<"error">> \in Seq(Items)
      BY DEF Items
    <3> QED
      BY <3>1, HandedKinds DEF AgentInv
  <2> QED
    BY <2>1 DEF AgentInv, AgentKinds, Agent!TypeOK
<1>2. TalkOK'
  BY TalkStays
<1>3. StreamOK'
  BY HandsResult
<1>4. LearnOK'
  BY DEF AgentInv, LearnOK, Agent!LearnsFromAnswers
<1> QED
  BY <1>1, <1>2, <1>3, <1>4 DEF AgentInv

\* The stream takes the next step or the result, and says so.
LEMMA AgentDeliver == AgentInv /\ Agent!Deliver => AgentInv'
<1> SUFFICES ASSUME AgentInv, Agent!Deliver PROVE AgentInv'
  OBVIOUS
<1> USE DEF Agent!Deliver
<1>1. AgentKinds'
  BY DEF AgentInv, AgentKinds, Agent!TypeOK
<1>2. TalkOK'
  BY DEF AgentInv, TalkOK
<1>3. StreamOK'
  <2>1. ctx /\ queue # <<>>
    BY DEF AgentInv, StreamOK
  <2>2. PICK k \in 0 .. steps : StreamAt(k)
    BY <2>1 DEF AgentInv, StreamOK
  <2>3. /\ Len(queue) \in Nat \ {0} /\ Head(queue) = queue[1] /\ Len(queue') = Len(queue) - 1
        /\ \A i \in 1 .. Len(queue) - 1 : queue'[i] = queue[i + 1]
    BY <2>1 DEF AgentInv, AgentKinds
  <2>4. events = Agent!Shown(k) /\ k \in Nat /\ steps \in Nat
    BY <2>1, <2>2 DEF StreamAt, AgentInv, AgentKinds
  <2>5. CASE Head(queue) = "step"
    <3>1. events' = Agent!Shown(k + 1)
      BY <2>4, <2>5, ShownNext
    <3>2. k + 1 \in 0 .. steps /\ StreamAt(k + 1)'
      <4>1. CASE phase # "over"
        BY <2>1, <2>2, <2>3, <2>4, <3>1, <4>1 DEF StreamAt
      <4>2. CASE phase = "over"
        <5>1. /\ Len(queue) = steps - k + 1 /\ \A i \in 1 .. steps - k : queue[i] = "step"
              /\ queue[steps - k + 1] \in {"answer", "degraded", "error"}
          BY <2>1, <2>2, <4>2 DEF StreamAt
        <5>2. k # steps
          BY <2>3, <2>5, <5>1
        <5>3. k + 1 \in 0 .. steps
          BY <2>4, <5>2
        <5>4. /\ Len(queue') = steps - (k + 1) + 1
              /\ \A i \in 1 .. steps - (k + 1) : queue'[i] = "step"
              /\ queue'[steps - (k + 1) + 1] \in {"answer", "degraded", "error"}
          BY <2>3, <2>4, <5>1, <5>3
        <5> QED
          BY <3>1, <4>2, <5>3, <5>4 DEF StreamAt
      <4> QED
        BY <4>1, <4>2
    <3> QED
      BY <2>1, <3>2 DEF StreamOK
  <2>6. CASE Head(queue) # "step"
    <3>1. /\ phase = "over" /\ Len(queue) = steps - k + 1
          /\ \A i \in 1 .. steps - k : queue[i] = "step"
          /\ queue[steps - k + 1] \in {"answer", "degraded", "error"}
      BY <2>1, <2>2, <2>3, <2>6 DEF StreamAt
    <3>2. k = steps
      BY <2>3, <2>4, <2>6, <3>1
    <3>3. queue' = <<>>
      BY <2>3, <2>4, <3>1, <3>2, <1>1 DEF AgentKinds
    <3>4. events' \in {Agent!Shown(k) \o <<"done">>, Agent!Shown(k) \o <<"token", "done">>}
      BY <2>4, <2>6
    <3>5. StreamAt(k)'
      BY <3>1, <3>2, <3>3, <3>4 DEF StreamAt
    <3> QED
      BY <2>1, <3>5 DEF StreamOK
  <2> QED
    BY <2>5, <2>6
<1>4. LearnOK'
  BY DEF AgentInv, LearnOK, Agent!LearnsFromAnswers
<1> QED
  BY <1>1, <1>2, <1>3, <1>4 DEF AgentInv

\* A reader who leaves takes nothing out of the queue.
LEMMA AgentLeave == AgentInv /\ Agent!Leave => AgentInv'
<1> SUFFICES ASSUME AgentInv, Agent!Leave PROVE AgentInv'
  OBVIOUS
<1> USE DEF Agent!Leave
<1>1. AgentKinds'
  BY DEF AgentInv, AgentKinds, Agent!TypeOK
<1>2. TalkOK'
  BY DEF AgentInv, TalkOK
<1>3. StreamOK'
  BY DEF AgentInv, StreamOK, StreamAt
<1>4. LearnOK'
  BY DEF AgentInv, LearnOK, Agent!LearnsFromAnswers
<1> QED
  BY <1>1, <1>2, <1>3, <1>4 DEF AgentInv

\* Every step of a run keeps the invariant.
LEMMA AgentStep == LiveAssumption /\ AgentInv /\ Agent!Next => AgentInv'
<1> SUFFICES ASSUME LiveAssumption, AgentInv, Agent!Next PROVE AgentInv'
  OBVIOUS
<1>1. MaxCalls \in Nat
  BY DEF LiveAssumption, Agent!AgentAssumption
<1> QED
  BY <1>1, AgentModelAnswers, AgentModelFails, AgentModelCalls, AgentRunTool, AgentNextTurn,
     AgentFallback, AgentEngineFails, AgentDeliver, AgentLeave DEF Agent!Next

\* So does a step of another part.
LEMMA AgentRests == AgentInv /\ UNCHANGED agent => AgentInv'
<1> SUFFICES ASSUME AgentInv, UNCHANGED agent PROVE AgentInv'
  OBVIOUS
<1> USE DEF agent, AgentInv
<1>1. AgentKinds'
  BY DEF AgentKinds, Agent!TypeOK
<1>2. TalkOK'
  BY DEF TalkOK
<1>3. StreamOK'
  BY DEF StreamOK, StreamAt
<1>4. LearnOK'
  BY DEF LearnOK, Agent!LearnsFromAnswers
<1> QED
  BY <1>1, <1>2, <1>3, <1>4

\* The invariant says what AgentStream promises.
LEMMA AgentInvSound == AgentInv => Agent!AgentSound
<1> SUFFICES ASSUME AgentInv PROVE Agent!AgentSound
  OBVIOUS
<1>1. Agent!CallsAreAnswered
  <2> SUFFICES ASSUME phase = "model" PROVE Agent!Answered(talk)
    BY DEF Agent!CallsAreAnswered
  <2>1. calls = <<>> /\ Len(calls) = 0
    BY DEF AgentInv, TalkOK
  <2>2. talk \in Seq(Messages)
    BY DEF AgentInv, AgentKinds
  <2>3. /\ DOMAIN talk = 1 .. Len(talk) /\ Len(talk) \in Nat
        /\ \A i \in DOMAIN talk : talk[i] \in Messages
    BY <2>2, LenProperties, ElementOfSeq
  <2>4. \A i \in DOMAIN talk : talk[i].n \in Nat
    BY <2>3 DEF Messages
  <2> QED
    BY <2>1, <2>3, <2>4 DEF AgentInv, TalkOK, Agent!Answered
<1>2. Agent!StreamInOrder
  <2>1. CASE ctx
    <3>1. PICK k \in 0 .. steps : StreamAt(k)
      BY <2>1 DEF AgentInv, StreamOK
    <3> QED
      BY <3>1 DEF StreamAt, Agent!StreamInOrder
  <2>2. CASE ~ctx
    <3>1. 0 \in 0 .. steps /\ events = Agent!Shown(0)
      BY <2>2 DEF AgentInv, AgentKinds, StreamOK
    <3> QED
      BY <3>1 DEF Agent!StreamInOrder
  <2> QED
    BY <2>1, <2>2
<1> QED
  BY <1>1, <1>2 DEF AgentInv, AgentKinds, LearnOK, Agent!AgentSound

\* Whenever the model is asked, each of its calls has been answered behind it; facts are
\* learnt from answers whose asker is known; and the reader gets the sources, every step
\* once and in its order, and the end after the last of them (agent_runtime.py).
THEOREM AgentStaysSound == LiveSpec => []AgentSound
<1> DEFINE I == focus = "agent" => AgentInv
<1>1. LiveInit => I
  BY AgentStarts, LiveAssumption DEF LiveInit
<1>2. I /\ [LiveNext]_<<focus, vars, agent, debate, process>> => I'
  <2> SUFFICES ASSUME I, [LiveNext]_<<focus, vars, agent, debate, process>>,
                      focus' = "agent"
               PROVE  AgentInv'
    OBVIOUS
  <2>1. focus = "agent" /\ AgentInv
    BY DEF LiveNext, OutboxMoves, AgentMoves, DebateMoves, ProcessMoves, Rest
  <2>2. CASE AgentMoves(Agent!Next)
    BY <2>1, <2>2, AgentStep, LiveAssumption DEF AgentMoves
  <2>3. CASE UNCHANGED agent
    BY <2>1, <2>3, AgentRests
  <2> QED
    BY <2>1, <2>2, <2>3 DEF LiveNext, OutboxMoves, DebateMoves, ProcessMoves, Rest
<1>3. I => AgentSound
  BY AgentInvSound DEF AgentSound
<1> QED
  BY <1>1, <1>2, <1>3, PTL DEF LiveSpec

-----------------------------------------------------------------------------
(* The debate.                                                              *)

\* In the first round nobody's opinion has been gathered.
DebateInv ==
  /\ Panel!TypeOK
  /\ Panel!DebateNeedsAll
  /\ round = 1 => \A e \in Experts : opinions[e] = {}

\* Nobody has spoken when a debate begins.
LEMMA DebateStarts == Panel!Init => DebateInv
  BY DEF Panel!Init, DebateInv, Panel!TypeOK, Panel!DebateNeedsAll

\* An expert that failed has no causes in the first round, so that no debate follows.
LEMMA DebateGather == DebateInv /\ Panel!Gather => DebateInv'
<1> SUFFICES ASSUME DebateInv, Panel!Gather PROVE DebateInv'
  OBVIOUS
<1>1. /\ opinions \in [Experts -> SUBSET Causes] /\ errors \subseteq Experts
      /\ said \in [Experts -> (SUBSET Causes) \cup {None}] /\ round \in {1, 2}
  BY DEF DebateInv, Panel!TypeOK, Panel!Gather
<1>2. opinions' = [e \in Experts |-> Panel!Heard(e)]
  BY DEF Panel!Gather
<1>3. \A e \in Experts : Panel!Heard(e) \in SUBSET Causes
  BY <1>1 DEF Panel!Heard
<1>4. opinions' \in [Experts -> SUBSET Causes]
  BY <1>2, <1>3
<1>5. said' \in [Experts -> (SUBSET Causes) \cup {None}]
  BY DEF Panel!Gather
<1>6. errors' \subseteq Experts /\ thinking' \subseteq Experts /\ round' \in {2, 3}
  BY <1>1 DEF Panel!Gather
<1>7. round' = 2 => errors' = {}
  <2> SUFFICES ASSUME round' = 2 PROVE errors' = {}
    OBVIOUS
  <2>1. round = 1 /\ Panel!NeedsDebate([e \in Experts |-> Panel!Heard(e)])
    BY DEF Panel!Gather
  <2>2. \A e \in Experts : Panel!Heard(e) # {}
    BY <2>1 DEF Panel!NeedsDebate
  <2>3. \A e \in Experts : said[e] # None
    BY <2>1, <2>2 DEF DebateInv, Panel!Heard
  <2>4. errors' = {e \in Experts : said[e] = None}
    BY <2>1 DEF Panel!Gather
  <2> QED
    BY <2>3, <2>4
<1> QED
  BY <1>4, <1>5, <1>6, <1>7 DEF DebateInv, Panel!TypeOK, Panel!DebateNeedsAll

\* Every step of a debate keeps the invariant.
LEMMA DebateStep == DebateInv /\ Panel!Next => DebateInv'
<1> SUFFICES ASSUME DebateInv, Panel!Next PROVE DebateInv'
  OBVIOUS
<1>1. ASSUME NEW e \in Experts, Panel!Fail(e) PROVE DebateInv'
  BY <1>1 DEF DebateInv, Panel!TypeOK, Panel!DebateNeedsAll, Panel!Fail
<1>2. ASSUME NEW e \in Experts, NEW causes \in SUBSET Causes, Panel!Speak(e, causes)
      PROVE DebateInv'
  BY <1>2 DEF DebateInv, Panel!TypeOK, Panel!DebateNeedsAll, Panel!Speak
<1>3. CASE Panel!Gather
  BY <1>3, DebateGather
<1>4. CASE Panel!JudgeFails
  BY <1>4 DEF DebateInv, Panel!TypeOK, Panel!DebateNeedsAll, Panel!JudgeFails
<1>5. ASSUME NEW causes \in SUBSET Causes, Panel!Judge(causes) PROVE DebateInv'
  BY <1>5 DEF DebateInv, Panel!TypeOK, Panel!DebateNeedsAll, Panel!Judge
<1> QED
  BY <1>1, <1>2, <1>3, <1>4, <1>5 DEF Panel!Next

\* So does a step of another part.
LEMMA DebateRests == DebateInv /\ UNCHANGED debate => DebateInv'
  BY DEF debate, DebateInv, Panel!TypeOK, Panel!DebateNeedsAll

\* Experts hear each other only when each of them has given an opinion of his own
\* (debate_agent_service.py, _consensus_needs_debate).
THEOREM DebateStaysSound == LiveSpec => []DebateSound
<1> DEFINE I == focus = "debate" => DebateInv
<1>1. LiveInit => I
  BY DebateStarts DEF LiveInit
<1>2. I /\ [LiveNext]_<<focus, vars, agent, debate, process>> => I'
  <2> SUFFICES ASSUME I, [LiveNext]_<<focus, vars, agent, debate, process>>,
                      focus' = "debate"
               PROVE  DebateInv'
    OBVIOUS
  <2>1. focus = "debate" /\ DebateInv
    BY DEF LiveNext, OutboxMoves, AgentMoves, DebateMoves, ProcessMoves, Rest
  <2>2. CASE DebateMoves(Panel!Next)
    BY <2>1, <2>2, DebateStep DEF DebateMoves
  <2>3. CASE UNCHANGED debate
    BY <2>1, <2>3, DebateRests
  <2> QED
    BY <2>1, <2>2, <2>3 DEF LiveNext, OutboxMoves, AgentMoves, ProcessMoves, Rest
<1>3. I => DebateSound
  BY DEF DebateSound, DebateInv, Panel!DebateSound
<1> QED
  BY <1>1, <1>2, <1>3, PTL DEF LiveSpec

-----------------------------------------------------------------------------
(* The process.                                                             *)

\* The first n steps of the start.
Prefix(n) == {Server!Startup[i] : i \in 1 .. n}

\* What is behind the start, as far as it has come.
StartOK ==
  /\ \E n \in 0 .. 13 : tried = Prefix(n)
  /\ p_phase = "down" => tried = {}
  /\ p_phase \in {"serving", "draining", "drained", "closing"} => "workers" \in tried
  /\ \A w \in Workers : worker[w].pc # "absent" => "workers" \in tried
  /\ \A l \in Server!Periodic : loops[l] # "absent" => l \in tried

\* Who has a task has one of the tasks, and a failure has its cause.
WorkOK ==
  /\ \A w \in Workers : worker[w].pc \in {"handler", "returned", "raised"} => worker[w].task \in Tasks
  /\ \A w \in Workers : worker[w].pc = "raised" => worker[w].task \in faulty
  /\ Server!StopIsNoFailure

\* What the stop has taken away nobody uses any more.
StopOK ==
  /\ p_phase \notin {"down", "closing"} => open = Server!Clients
  /\ p_phase \in {"drained", "closing"} => \A w \in Workers : worker[w].pc = "gone"
  /\ p_phase = "closing" =>
       \A l \in Server!Periodic : loops[l] \in {"absent", "cancelled", "gone"}
  /\ \A l \in Server!Periodic : loops[l] = "cancelled" => p_phase = "closing"
  /\ Server!LoopsGoOn

ProcessInv == Server!TypeOK /\ StartOK /\ WorkOK /\ StopOK

\* The steps of the start have thirteen names.
LEMMA StartupSteps ==
  /\ Len(Server!Startup) = 13 /\ DOMAIN Server!Startup = 1 .. 13
  /\ Server!Startup[1] = "database" /\ Server!Startup[2] = "stores"
  /\ Server!Startup[3] = "tools" /\ Server!Startup[4] = "config"
  /\ Server!Startup[5] = "health" /\ Server!Startup[6] = "cleanup"
  /\ Server!Startup[7] = "metrics" /\ Server!Startup[8] = "warmup"
  /\ Server!Startup[9] = "archive" /\ Server!Startup[10] = "backup"
  /\ Server!Startup[11] = "workers" /\ Server!Startup[12] = "evolution"
  /\ Server!Startup[13] = "gaps"
  BY DEF Server!Startup

\* No step of the start has the name of another one.
LEMMA StartupDistinct ==
  \A i, j \in 1 .. 13 : Server!Startup[i] = Server!Startup[j] => i = j
<1> SUFFICES ASSUME NEW i \in 1 .. 13, NEW j \in 1 .. 13,
                    Server!Startup[i] = Server!Startup[j]
             PROVE  i = j
  OBVIOUS
<1>1. i \in {1, 2, 3, 4, 5, 6, 7, 8, 9, 10, 11, 12, 13}
  OBVIOUS
<1>2. j \in {1, 2, 3, 4, 5, 6, 7, 8, 9, 10, 11, 12, 13}
  OBVIOUS
<1> QED
  BY <1>1, <1>2, StartupSteps

\* The library counts sets in one way.
LEMMA SameCount == \A S : Server!Cardinality(S) = Cardinality(S)
  BY DEF Server!Cardinality, Cardinality

\* As many steps are behind the start as it has made.
LEMMA PrefixCount ==
  ASSUME NEW n \in 0 .. 13
  PROVE  Cardinality(Prefix(n)) = n
<1> DEFINE f == [i \in 1 .. n |-> Server!Startup[i]]
<1>1. f \in [1 .. n -> Prefix(n)] /\ \A s \in Prefix(n) : \E i \in 1 .. n : f[i] = s
  BY DEF Prefix
<1>2. \A i, j \in 1 .. n : f[i] = f[j] => i = j
  BY StartupDistinct
<1>3. f \in Bijection(1 .. n, Prefix(n))
  BY <1>1, <1>2 DEF Bijection, Injection, Surjection, IsInjective
<1>4. ExistsBijection(1 .. n, Prefix(n))
  BY <1>3 DEF ExistsBijection
<1> QED
  BY <1>4, FS_CountingElements

\* The step after the first n is the next one, and makes them n + 1.
LEMMA PrefixNext ==
  ASSUME NEW n \in 0 .. 13, tried = Prefix(n), tried # Server!ToSet(Server!Startup)
  PROVE  /\ n < 13 /\ Server!Step = Server!Startup[n + 1]
         /\ tried \cup {Server!Step} = Prefix(n + 1)
         /\ Server!Step \in Server!ToSet(Server!Startup)
<1>1. Server!ToSet(Server!Startup) = Prefix(13)
  BY StartupSteps DEF Server!ToSet, Prefix
<1>2. n < 13
  BY <1>1
<1>3. Server!Step = Server!Startup[n + 1]
  <2>1. Cardinality(tried) = n
    BY PrefixCount
  <2> QED
    BY <2>1, SameCount DEF Server!Step
<1>4. Prefix(n + 1) = Prefix(n) \cup {Server!Startup[n + 1]}
  BY DEF Prefix
<1>5. Server!Startup[n + 1] \in Prefix(13)
  BY <1>2 DEF Prefix
<1> QED
  BY <1>1, <1>2, <1>3, <1>4, <1>5

\* Whoever finds the workers started finds what the start prepared before them.
LEMMA PreparedBefore ==
  ASSUME NEW n \in 0 .. 13, "workers" \in Prefix(n)
  PROVE  {"database", "tools", "config"} \subseteq Prefix(n)
<1>1. PICK i \in 1 .. n : Server!Startup[i] = "workers"
  BY DEF Prefix
<1>2. i = 11
  BY <1>1, StartupDistinct, StartupSteps
<1>3. 1 \in 1 .. n /\ 3 \in 1 .. n /\ 4 \in 1 .. n
  BY <1>2
<1> QED
  BY <1>3, StartupSteps DEF Prefix

\* Before the first start there is nothing but the rows.
LEMMA ProcessStarts == LiveAssumption /\ Server!Init => ProcessInv
<1> SUFFICES ASSUME LiveAssumption, Server!Init PROVE ProcessInv
  OBVIOUS
<1> USE DEF Server!Init, Server!Absent
<1>1. Server!TypeOK
  <2>1. worker \in [Workers -> [pc : {"absent", "idle", "turn", "handler", "returned", "raised",
                                     "cancelled", "gone"}, task : Tasks \cup {Nobody}]]
    OBVIOUS
  <2>2. starts \in 0 .. MaxStarts
    BY DEF LiveAssumption, Server!StartAssumption
  <2> QED
    BY <2>1, <2>2 DEF Server!TypeOK, Server!Phases
<1>2. StartOK
  <2>1. tried = Prefix(0) /\ 0 \in 0 .. 13
    BY DEF Prefix
  <2> QED
    BY <2>1 DEF StartOK
<1>3. WorkOK
  BY DEF WorkOK, Server!StopIsNoFailure
<1>4. StopOK
  BY DEF StopOK, Server!LoopsGoOn
<1> QED
  BY <1>1, <1>2, <1>3, <1>4 DEF ProcessInv

\* A step of the start leaves what is behind it a first part of the start.
LEMMA OnwardKeeps ==
  ASSUME ProcessInv, tried # Server!ToSet(Server!Startup), Server!Onward
  PROVE  /\ \E n \in 0 .. 13 : tried' = Prefix(n)
         /\ tried' \subseteq Server!ToSet(Server!Startup)
         /\ tried' = tried \cup {Server!Step}
<1>1. PICK n \in 0 .. 13 : tried = Prefix(n)
  BY DEF ProcessInv, StartOK
<1>2. n < 13 /\ tried' = Prefix(n + 1) /\ Server!Step \in Server!ToSet(Server!Startup)
  BY <1>1, PrefixNext DEF Server!Onward
<1>3. n + 1 \in 0 .. 13
  BY <1>2
<1> QED
  BY <1>2, <1>3 DEF Server!Onward, ProcessInv, Server!TypeOK

\* A new process has its clients and nothing else.
LEMMA ProcessBoot == LiveAssumption /\ ProcessInv /\ Server!Boot => ProcessInv'
<1> SUFFICES ASSUME LiveAssumption, ProcessInv, Server!Boot PROVE ProcessInv'
  OBVIOUS
<1> USE DEF Server!Boot
<1>1. Server!TypeOK'
  <2>1. starts' \in 0 .. MaxStarts
    BY DEF ProcessInv, Server!TypeOK, LiveAssumption, Server!StartAssumption
  <2> QED
    BY <2>1 DEF ProcessInv, Server!TypeOK, Server!Phases
<1>2. StartOK'
  BY DEF ProcessInv, StartOK
<1>3. WorkOK'
  BY DEF ProcessInv, WorkOK, Server!StopIsNoFailure
<1>4. StopOK'
  BY DEF ProcessInv, StopOK, Server!LoopsGoOn
<1> QED
  BY <1>1, <1>2, <1>3, <1>4 DEF ProcessInv

\* The first step is made, or the process is down with nothing behind it.
LEMMA ProcessInitDb == ProcessInv /\ Server!InitDb => ProcessInv'
<1> SUFFICES ASSUME ProcessInv, Server!InitDb PROVE ProcessInv'
  OBVIOUS
<1> USE DEF Server!InitDb
<1>1. CASE Server!Onward /\ UNCHANGED <<p_phase, open>>
  <2>1. Server!TypeOK'
    BY <1>1, OnwardKeeps DEF ProcessInv, Server!TypeOK
  <2>2. StartOK'
    BY <1>1, OnwardKeeps DEF ProcessInv, StartOK
  <2>3. WorkOK'
    BY <1>1 DEF ProcessInv, WorkOK, Server!StopIsNoFailure
  <2>4. StopOK'
    BY <1>1 DEF ProcessInv, StopOK, Server!LoopsGoOn
  <2> QED
    BY <2>1, <2>2, <2>3, <2>4 DEF ProcessInv
<1>2. CASE p_phase' = "down" /\ open' = {} /\ UNCHANGED tried
  <2>1. tried = {}
    <3>1. PICK n \in 0 .. 13 : tried = Prefix(n)
      BY DEF ProcessInv, StartOK
    <3>2. n + 1 \in 1 .. 13 /\ Server!Startup[n + 1] = "database"
      BY <3>1, PrefixNext
    <3>3. n = 0
      BY <3>2, StartupDistinct, StartupSteps
    <3> QED
      BY <3>1, <3>3 DEF Prefix
  <2>2. Server!TypeOK'
    BY <1>2 DEF ProcessInv, Server!TypeOK, Server!Phases
  <2>3. StartOK'
    BY <1>2, <2>1 DEF ProcessInv, StartOK
  <2>4. WorkOK'
    BY <1>2 DEF ProcessInv, WorkOK, Server!StopIsNoFailure
  <2>5. StopOK'
    BY <1>2 DEF ProcessInv, StopOK, Server!LoopsGoOn
  <2> QED
    BY <2>2, <2>3, <2>4, <2>5 DEF ProcessInv
<1> QED
  BY <1>1, <1>2

\* A step that only prepares.
LEMMA ProcessPrepare == ProcessInv /\ Server!Prepare => ProcessInv'
<1> SUFFICES ASSUME ProcessInv, Server!Prepare PROVE ProcessInv'
  OBVIOUS
<1> USE DEF Server!Prepare
<1>1. Server!TypeOK'
  BY OnwardKeeps DEF ProcessInv, Server!TypeOK
<1>2. StartOK'
  BY OnwardKeeps DEF ProcessInv, StartOK
<1>3. WorkOK'
  BY DEF ProcessInv, WorkOK, Server!StopIsNoFailure
<1>4. StopOK'
  BY DEF ProcessInv, StopOK, Server!LoopsGoOn
<1> QED
  BY <1>1, <1>2, <1>3, <1>4 DEF ProcessInv

\* A loop starts in its own step of the start.
LEMMA ProcessStartLoop == ProcessInv /\ Server!StartLoop => ProcessInv'
<1> SUFFICES ASSUME ProcessInv, Server!StartLoop PROVE ProcessInv'
  OBVIOUS
<1> USE DEF Server!StartLoop
<1>1. /\ loops' \in [Server!Periodic -> {"absent", "asleep", "round", "cancelled", "gone"}]
      /\ \A l \in Server!Periodic : loops'[l] = loops[l] \/ (l = Server!Step /\ loops'[l] = "asleep")
  BY DEF ProcessInv, Server!TypeOK
<1>2. Server!TypeOK'
  BY <1>1, OnwardKeeps DEF ProcessInv, Server!TypeOK
<1>3. StartOK'
  BY <1>1, OnwardKeeps DEF ProcessInv, StartOK
<1>4. WorkOK'
  BY DEF ProcessInv, WorkOK, Server!StopIsNoFailure
<1>5. StopOK'
  BY <1>1 DEF ProcessInv, StopOK, Server!LoopsGoOn
<1> QED
  BY <1>2, <1>3, <1>4, <1>5 DEF ProcessInv

\* The workers start in their own step of the start.
LEMMA ProcessStartWorkers == ProcessInv /\ Server!StartWorkers => ProcessInv'
<1> SUFFICES ASSUME ProcessInv, Server!StartWorkers PROVE ProcessInv'
  OBVIOUS
<1> USE DEF Server!StartWorkers, Server!Idle
<1>1. Server!TypeOK'
  BY OnwardKeeps DEF ProcessInv, Server!TypeOK
<1>2. StartOK'
  BY OnwardKeeps DEF ProcessInv, StartOK
<1>3. WorkOK'
  BY DEF ProcessInv, WorkOK, Server!StopIsNoFailure
<1>4. StopOK'
  BY DEF ProcessInv, StopOK, Server!LoopsGoOn
<1> QED
  BY <1>1, <1>2, <1>3, <1>4 DEF ProcessInv

\* A step that only moves the process on from serving, or asks it to stop.
LEMMA ProcessServe == ProcessInv /\ (Server!Serve \/ Server!AskToStop) => ProcessInv'
<1> SUFFICES ASSUME ProcessInv, Server!Serve \/ Server!AskToStop PROVE ProcessInv'
  OBVIOUS
<1> USE DEF Server!Serve, Server!AskToStop
<1>1. Server!TypeOK'
  BY DEF ProcessInv, Server!TypeOK, Server!Phases
<1>2. StartOK'
  <2>1. tried = Server!ToSet(Server!Startup) => "workers" \in tried
    BY StartupSteps DEF Server!ToSet
  <2> QED
    BY <2>1 DEF ProcessInv, StartOK
<1>3. WorkOK'
  BY DEF ProcessInv, WorkOK, Server!StopIsNoFailure
<1>4. StopOK'
  BY DEF ProcessInv, StopOK, Server!LoopsGoOn
<1> QED
  BY <1>1, <1>2, <1>3, <1>4 DEF ProcessInv

\* A loop wakes, ends its round and comes to its own end only where it is neither absent nor
\* gone; before the stop only the cleanup ends, and then it has removed no row.
LEMMA ProcessLoops ==
  ASSUME ProcessInv, NEW l \in Server!Periodic,
         \/ Server!Wake(l) \/ Server!RoundEnds(l) \/ Server!RoundFails(l) \/ Server!LoopLeaves(l)
  PROVE  ProcessInv'
<1> USE DEF Server!Wake, Server!RoundEnds, Server!RoundFails, Server!LoopLeaves
<1>1. /\ loops' \in [Server!Periodic -> {"absent", "asleep", "round", "cancelled", "gone"}]
      /\ \A m \in Server!Periodic : m # l => loops'[m] = loops[m]
      /\ loops[l] \in {"asleep", "round", "cancelled"}
      /\ \/ loops[l] # "cancelled" /\ loops'[l] \in {"asleep", "round"}
         \/ loops[l] = "cancelled" /\ loops'[l] = "gone"
         \/ loops[l] # "cancelled" /\ loops'[l] = "gone" /\ l = "cleanup" /\ ~purged /\ ~purged'
      /\ purged' \in BOOLEAN /\ (purged' # purged => l = "cleanup" /\ loops'[l] = "asleep")
  <2>1. /\ loops \in [Server!Periodic -> {"absent", "asleep", "round", "cancelled", "gone"}]
        /\ purged \in BOOLEAN
    BY DEF ProcessInv, Server!TypeOK
  <2>2. CASE Server!Wake(l)
    BY <2>1, <2>2
  <2>3. CASE Server!RoundEnds(l)
    BY <2>1, <2>3
  <2>4. CASE Server!RoundFails(l)
    BY <2>1, <2>4
  <2>5. CASE Server!LoopLeaves(l)
    BY <2>1, <2>5
  <2> QED
    BY <2>2, <2>3, <2>4, <2>5
<1>2. Server!TypeOK'
  BY <1>1 DEF ProcessInv, Server!TypeOK
<1>3. StartOK'
  BY <1>1 DEF ProcessInv, StartOK
<1>4. WorkOK'
  BY DEF ProcessInv, WorkOK, Server!StopIsNoFailure
<1>5. StopOK'
  <2>1. p_phase' = p_phase /\ StopOK
    BY DEF ProcessInv
  <2>2. Server!LoopsGoOn'
    BY <1>1, <2>1 DEF StopOK, Server!LoopsGoOn
  <2> QED
    BY <1>1, <2>1, <2>2 DEF StopOK
<1> QED
  BY <1>2, <1>3, <1>4, <1>5 DEF ProcessInv

Stations == {"absent", "idle", "turn", "handler", "returned", "raised", "cancelled", "gone"}
Places == [pc : Stations, task : Tasks \cup {Nobody}]

\* One worker goes from one place to another while nothing else of the process changes.
Moves(w, place) ==
  /\ worker[w].pc \notin {"absent", "gone"}
  /\ worker' = [worker EXCEPT ![w] = place]
  /\ UNCHANGED <<p_phase, tried, loops, purged, stop, open, starts>>

\* A move keeps what the start and the stop are about, and the work when the place is
\* right.
LEMMA MovesKeep ==
  ASSUME ProcessInv, NEW w \in Workers, NEW place \in Places, Moves(w, place),
         place.pc \in {"handler", "returned", "raised"} => place.task \in Tasks,
         place.pc = "raised" => place.task \in faulty',
         faulty \subseteq faulty', faulty' \subseteq Tasks,
         p_status' \in [Tasks -> {"pending", "running", "success", "failed"}],
         \A t \in Tasks : p_status'[t] = "failed" => p_status[t] = "failed" \/ t \in faulty'
  PROVE  ProcessInv'
<1>1. /\ worker \in [Workers -> Places] /\ worker' \in [Workers -> Places]
      /\ worker'[w] = place /\ \A v \in Workers : v # w => worker'[v] = worker[v]
  BY DEF ProcessInv, Server!TypeOK, Moves, Places, Stations
<1>2. Server!TypeOK'
  BY <1>1 DEF ProcessInv, Server!TypeOK, Moves, Places, Stations
<1>3. StartOK'
  BY <1>1 DEF ProcessInv, StartOK, Moves
<1>4. WorkOK'
  BY <1>1 DEF ProcessInv, WorkOK, Server!StopIsNoFailure
<1>5. StopOK'
  BY <1>1 DEF ProcessInv, StopOK, Server!LoopsGoOn, Moves
<1> QED
  BY <1>2, <1>3, <1>4, <1>5 DEF ProcessInv

\* The places of the actions are places.
LEMMA PlaceKinds ==
  /\ Server!Gone \in Places /\ Server!Idle \in Places
  /\ Server!At("turn", Nobody) \in Places
  /\ \A t \in Tasks : Server!At("handler", t) \in Places
  BY DEF Server!Gone, Server!Idle, Server!At, Places, Stations

\* A worker that looks at the event goes, or takes its turn.
LEMMA ProcessTurn ==
  ASSUME ProcessInv, NEW w \in Workers, Server!Turn(w)
  PROVE  ProcessInv'
<1>1. \E place \in {Server!Gone, Server!At("turn", Nobody)} : Moves(w, place)
  BY DEF Server!Turn, Moves
<1>2. /\ p_status' \in [Tasks -> {"pending", "running", "success", "failed"}]
      /\ \A t \in Tasks : p_status'[t] = "failed" => p_status[t] = "failed"
  BY DEF ProcessInv, Server!TypeOK, Server!Turn, Server!Left
<1>3. faulty' = faulty /\ faulty \subseteq Tasks
  BY DEF ProcessInv, Server!TypeOK, Server!Turn
<1> QED
  BY <1>1, <1>2, <1>3, MovesKeep, PlaceKinds DEF Server!Gone, Server!At

\* A claim gives a worker one of the tasks.
LEMMA ProcessClaim ==
  ASSUME ProcessInv, NEW w \in Workers, NEW t \in Tasks, Server!Claim(w, t)
  PROVE  ProcessInv'
<1>1. Moves(w, Server!At("handler", t))
  BY DEF Server!Claim, Moves
<1>2. /\ p_status' \in [Tasks -> {"pending", "running", "success", "failed"}]
      /\ \A u \in Tasks : p_status'[u] = "failed" => p_status[u] = "failed"
  BY DEF ProcessInv, Server!TypeOK, Server!Claim
<1>3. faulty' = faulty /\ faulty \subseteq Tasks
  BY DEF ProcessInv, Server!TypeOK, Server!Claim
<1> QED
  BY <1>1, <1>2, <1>3, MovesKeep, PlaceKinds DEF Server!At

\* A turn without a task ends where it began.
LEMMA ProcessNothing ==
  ASSUME ProcessInv, NEW w \in Workers, Server!Nothing(w)
  PROVE  ProcessInv'
<1>1. Moves(w, Server!Idle)
  BY DEF Server!Nothing, Moves
<1>2. /\ p_status' = p_status /\ faulty' = faulty /\ faulty \subseteq Tasks
      /\ p_status \in [Tasks -> {"pending", "running", "success", "failed"}]
  BY DEF ProcessInv, Server!TypeOK, Server!Nothing
<1> QED
  BY <1>1, <1>2, MovesKeep, PlaceKinds DEF Server!Idle

\* A handler that returns keeps its task.
LEMMA ProcessReturns ==
  ASSUME ProcessInv, NEW w \in Workers, Server!HandlerReturns(w)
  PROVE  ProcessInv'
<1>1. worker \in [Workers -> Places] /\ worker[w].pc = "handler" /\ worker[w].task \in Tasks
  BY DEF ProcessInv, Server!TypeOK, WorkOK, Server!HandlerReturns, Places, Stations
<1>2. [worker[w] EXCEPT !.pc = "returned"] = [pc |-> "returned", task |-> worker[w].task]
  BY <1>1 DEF Places
<1>3. [pc |-> "returned", task |-> worker[w].task] \in Places
  BY <1>1 DEF Places, Stations
<1>4. Moves(w, [pc |-> "returned", task |-> worker[w].task])
  BY <1>1, <1>2 DEF Server!HandlerReturns, Moves
<1>5. /\ p_status' = p_status /\ faulty' = faulty /\ faulty \subseteq Tasks
      /\ p_status \in [Tasks -> {"pending", "running", "success", "failed"}]
  BY DEF ProcessInv, Server!TypeOK, Server!HandlerReturns
<1> QED
  BY <1>1, <1>3, <1>4, <1>5, MovesKeep

\* What raises is remembered with its task.
LEMMA ProcessRaises ==
  ASSUME ProcessInv, NEW w \in Workers, Server!Raises(w)
  PROVE  ProcessInv'
<1>1. /\ worker \in [Workers -> Places] /\ worker[w].pc \in {"handler", "returned"}
      /\ worker[w].task \in Tasks
  BY DEF ProcessInv, Server!TypeOK, WorkOK, Server!Raises, Places, Stations
<1>2. [worker[w] EXCEPT !.pc = "raised"] = [pc |-> "raised", task |-> worker[w].task]
  BY <1>1 DEF Places
<1>3. [pc |-> "raised", task |-> worker[w].task] \in Places
  BY <1>1 DEF Places, Stations
<1>4. Moves(w, [pc |-> "raised", task |-> worker[w].task])
  BY <1>1, <1>2 DEF Server!Raises, Moves
<1>5. /\ p_status' = p_status /\ faulty' = faulty \cup {worker[w].task} /\ faulty \subseteq Tasks
      /\ p_status \in [Tasks -> {"pending", "running", "success", "failed"}]
  BY DEF ProcessInv, Server!TypeOK, Server!Raises
<1> QED
  BY <1>1, <1>3, <1>4, <1>5, MovesKeep

\* An outcome is written by the one who has it.
LEMMA ProcessRecord ==
  ASSUME ProcessInv, NEW w \in Workers, Server!Record(w)
  PROVE  ProcessInv'
<1>1. Moves(w, Server!Idle)
  BY DEF Server!Record, Moves
<1>2. worker[w].task \in Tasks /\ (worker[w].pc = "raised" => worker[w].task \in faulty)
  BY DEF ProcessInv, WorkOK, Server!Record
<1>3. /\ faulty' = faulty /\ faulty \subseteq Tasks
      /\ p_status' \in [Tasks -> {"pending", "running", "success", "failed"}]
      /\ \A t \in Tasks : p_status'[t] = "failed" => p_status[t] = "failed" \/ t \in faulty
  BY <1>2 DEF ProcessInv, Server!TypeOK, Server!Record
<1> QED
  BY <1>1, <1>3, MovesKeep, PlaceKinds DEF Server!Idle

\* A cancelled worker goes and leaves its task as it is.
LEMMA ProcessLeave ==
  ASSUME ProcessInv, NEW w \in Workers, Server!Leave(w)
  PROVE  ProcessInv'
<1>1. Moves(w, Server!Gone)
  BY DEF Server!Leave, Moves
<1>2. /\ p_status' = p_status /\ faulty' = faulty /\ faulty \subseteq Tasks
      /\ p_status \in [Tasks -> {"pending", "running", "success", "failed"}]
  BY DEF ProcessInv, Server!TypeOK, Server!Leave
<1> QED
  BY <1>1, <1>2, MovesKeep, PlaceKinds DEF Server!Gone

\* Whoever is cancelled keeps its task, and a failure that lands is one a handler had.
LEMMA ProcessCancel == ProcessInv /\ Server!Cancel => ProcessInv'
<1> SUFFICES ASSUME ProcessInv, Server!Cancel PROVE ProcessInv'
  OBVIOUS
<1>1. /\ worker \in [Workers -> Places] /\ worker' \in [Workers -> Places]
      /\ \A w \in Workers : worker'[w].pc \in {"cancelled", "gone"}
      /\ \A w \in Workers : worker'[w].pc # "absent"
  BY DEF ProcessInv, Server!TypeOK, Server!Cancel, Server!Gone, Server!At, Places, Stations
<1>2. Server!TypeOK'
  BY <1>1 DEF ProcessInv, Server!TypeOK, Server!Cancel, Places, Stations
<1>3. StartOK'
  BY <1>1 DEF ProcessInv, StartOK, Server!Cancel
<1>4. WorkOK'
  <2>1. \A t \in Tasks : p_status'[t] = "failed" => t \in faulty
    <3> SUFFICES ASSUME NEW t \in Tasks, p_status'[t] = "failed" PROVE t \in faulty
      OBVIOUS
    <3>1. CASE p_status[t] = "failed"
      BY <3>1 DEF ProcessInv, WorkOK, Server!StopIsNoFailure
    <3>2. CASE Server!Lands(t, "failed")
      <4>1. PICK w \in Workers : worker[w] = Server!At("raised", t)
        BY <3>2 DEF Server!Lands
      <4> QED
        BY <4>1 DEF ProcessInv, WorkOK, Server!At
    <3> QED
      BY <3>1, <3>2 DEF Server!Cancel
  <2> QED
    BY <1>1, <2>1 DEF WorkOK, Server!StopIsNoFailure, Server!Cancel
<1>5. StopOK'
  BY DEF ProcessInv, StopOK, Server!LoopsGoOn, Server!Cancel
<1> QED
  BY <1>2, <1>3, <1>4, <1>5 DEF ProcessInv

\* The stop returns when everybody is gone.
LEMMA ProcessDrained == ProcessInv /\ Server!Drained => ProcessInv'
<1> SUFFICES ASSUME ProcessInv, Server!Drained PROVE ProcessInv'
  OBVIOUS
<1> USE DEF Server!Drained
<1>1. Server!TypeOK'
  BY DEF ProcessInv, Server!TypeOK, Server!Phases
<1>2. StartOK'
  BY DEF ProcessInv, StartOK
<1>3. WorkOK'
  BY DEF ProcessInv, WorkOK, Server!StopIsNoFailure
<1>4. StopOK'
  BY DEF ProcessInv, StopOK, Server!LoopsGoOn
<1> QED
  BY <1>1, <1>2, <1>3, <1>4 DEF ProcessInv

\* The loops are cancelled when nobody works any more.
LEMMA ProcessCancelLoops == ProcessInv /\ Server!CancelLoops => ProcessInv'
<1> SUFFICES ASSUME ProcessInv, Server!CancelLoops PROVE ProcessInv'
  OBVIOUS
<1> USE DEF Server!CancelLoops
<1>1. /\ loops' \in [Server!Periodic -> {"absent", "asleep", "round", "cancelled", "gone"}]
      /\ \A l \in Server!Periodic : loops'[l] \in {"absent", "cancelled", "gone"}
      /\ \A l \in Server!Periodic : loops'[l] = "absent" <=> loops[l] = "absent"
  OBVIOUS
<1>2. Server!TypeOK'
  BY <1>1 DEF ProcessInv, Server!TypeOK, Server!Phases
<1>3. StartOK'
  BY <1>1 DEF ProcessInv, StartOK
<1>4. WorkOK'
  BY DEF ProcessInv, WorkOK, Server!StopIsNoFailure
<1>5. StopOK'
  BY <1>1 DEF ProcessInv, StopOK, Server!LoopsGoOn
<1> QED
  BY <1>2, <1>3, <1>4, <1>5 DEF ProcessInv

\* A client is closed when everybody is gone.
LEMMA ProcessCloseGraph == ProcessInv /\ Server!CloseGraph => ProcessInv'
<1> SUFFICES ASSUME ProcessInv, Server!CloseGraph PROVE ProcessInv'
  OBVIOUS
<1> USE DEF Server!CloseGraph
<1>1. Server!TypeOK'
  BY DEF ProcessInv, Server!TypeOK
<1>2. StartOK'
  BY DEF ProcessInv, StartOK
<1>3. WorkOK'
  BY DEF ProcessInv, WorkOK, Server!StopIsNoFailure
<1>4. StopOK'
  BY DEF ProcessInv, StopOK, Server!LoopsGoOn
<1> QED
  BY <1>1, <1>2, <1>3, <1>4 DEF ProcessInv

\* What remains of a process are its rows.
LEMMA ProcessVanish == ProcessInv /\ Server!Vanish => ProcessInv'
<1> SUFFICES ASSUME ProcessInv, Server!Vanish PROVE ProcessInv'
  OBVIOUS
<1> USE DEF Server!Vanish, Server!Absent
<1>1. Server!TypeOK'
  BY DEF ProcessInv, Server!TypeOK, Server!Phases
<1>2. StartOK'
  <2>1. tried' = Prefix(0) /\ 0 \in 0 .. 13
    BY DEF Prefix
  <2> QED
    BY <2>1 DEF StartOK
<1>3. WorkOK'
  BY DEF ProcessInv, WorkOK, Server!StopIsNoFailure
<1>4. StopOK'
  BY DEF StopOK, Server!LoopsGoOn
<1> QED
  BY <1>1, <1>2, <1>3, <1>4 DEF ProcessInv

\* Every step of a process keeps the invariant.
LEMMA ProcessStep == LiveAssumption /\ ProcessInv /\ Server!Next => ProcessInv'
<1> SUFFICES ASSUME LiveAssumption, ProcessInv, Server!Next PROVE ProcessInv'
  OBVIOUS
<1>1. CASE Server!Boot \/ Server!AskToStop \/ Server!Killed
  BY <1>1, ProcessBoot, ProcessServe, ProcessVanish DEF Server!Killed
<1>2. CASE Server!Starting
  BY <1>2, ProcessInitDb, ProcessPrepare, ProcessStartLoop, ProcessStartWorkers, ProcessServe
     DEF Server!Starting
<1>3. CASE Server!Working
  BY <1>3, ProcessLoops, ProcessTurn, ProcessClaim, ProcessNothing, ProcessReturns,
     ProcessRaises, ProcessRecord DEF Server!Working
<1>4. CASE Server!Stopping
  BY <1>4, ProcessCancel, ProcessDrained, ProcessCancelLoops, ProcessCloseGraph,
     ProcessVanish, ProcessLeave DEF Server!Stopping, Server!CloseRerank
<1> QED
  BY <1>1, <1>2, <1>3, <1>4 DEF Server!Next

\* So does a step of another part.
LEMMA ProcessRests == ProcessInv /\ UNCHANGED process => ProcessInv'
<1> SUFFICES ASSUME ProcessInv, UNCHANGED process PROVE ProcessInv'
  OBVIOUS
<1> USE DEF process, ProcessInv
<1>1. Server!TypeOK'
  BY DEF Server!TypeOK
<1>2. StartOK' /\ WorkOK' /\ StopOK'
  BY DEF StartOK, WorkOK, StopOK, Server!StopIsNoFailure, Server!LoopsGoOn
<1> QED
  BY <1>1, <1>2

\* The invariant says what Lifecycle promises.
LEMMA ProcessInvSound == ProcessInv => Server!ProcessSound
<1> SUFFICES ASSUME ProcessInv PROVE Server!ProcessSound
  OBVIOUS
<1>1. Server!WorkIsEquipped
  <2>1. PICK n \in 0 .. 13 : tried = Prefix(n)
    BY DEF ProcessInv, StartOK
  <2> QED
    BY <2>1, PreparedBefore DEF ProcessInv, StartOK, Server!WorkIsEquipped
<1>2. Server!ClosedIsQuiet
  BY DEF ProcessInv, StopOK, Server!TypeOK, Server!Phases, Server!ClosedIsQuiet
<1> QED
  BY <1>1, <1>2 DEF ProcessInv, WorkOK, StopOK, Server!ProcessSound

\* However often the process is started, asked to stop or killed, and whoever hangs: a
\* handler runs only with what the start prepares before it, a stop makes no task a
\* failure, and a client is closed only when no worker is left and every loop has been
\* cancelled; a loop ends before that only if it is the cache's cleanup, which has then
\* removed no row (main.py, cache_persist.py).
THEOREM ProcessStaysSound == LiveSpec => []ProcessSound
<1> DEFINE I == focus = "process" => ProcessInv
<1>1. LiveInit => I
  BY ProcessStarts, LiveAssumption DEF LiveInit
<1>2. I /\ [LiveNext]_<<focus, vars, agent, debate, process>> => I'
  <2> SUFFICES ASSUME I, [LiveNext]_<<focus, vars, agent, debate, process>>,
                      focus' = "process"
               PROVE  ProcessInv'
    OBVIOUS
  <2>1. focus = "process" /\ ProcessInv
    BY DEF LiveNext, OutboxMoves, AgentMoves, DebateMoves, ProcessMoves, Rest
  <2>2. CASE ProcessMoves(Server!Next)
    BY <2>1, <2>2, ProcessStep, LiveAssumption DEF ProcessMoves
  <2>3. CASE UNCHANGED process
    BY <2>1, <2>3, ProcessRests
  <2> QED
    BY <2>1, <2>2, <2>3 DEF LiveNext, OutboxMoves, AgentMoves, DebateMoves, Rest
<1>3. I => ProcessSound
  BY ProcessInvSound DEF ProcessSound
<1> QED
  BY <1>1, <1>2, <1>3, PTL DEF LiveSpec
=============================================================================
