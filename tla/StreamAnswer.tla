---------------------------- MODULE StreamAnswer ----------------------------
(***************************************************************************)
(* stream_answer and the two channels that carry it: what the client is    *)
(* sent, what the conversation keeps and what is cached, while the client  *)
(* may leave, the model may break off and a store may fail.  Which cache   *)
(* layer may be used is QaCache's question, what is retrieved is           *)
(* Answering's.                                                            *)
(***************************************************************************)
EXTENDS Naturals, Sequences, FiniteSets, Functions

CONSTANTS
  Streams,
  Length,     \* tokens of a complete answer
  MaxFaults,  \* failures of a store an instance looks at
  None

\* A turn: how it is asked, what is left to do, and the answer as far as there is one.
Steps == {"look", "open", "ask", "reply", "meta", "text", "stream", "gate", "table", "redis", "done"}
Turns == [channel : {"sse", "ws"}, single : BOOLEAN,
          layer : {None, "redis", "table", "semantic"}, plan : Seq(Steps),
          answer : [by : Streams, length : {Length}] \cup {None},
          tokens : 0 .. Length, faulty : BOOLEAN]

StreamAssumption ==
  /\ Length \in Nat \ {0} /\ None \notin Turns
  /\ None \notin [by : Streams, length : {Length}]

VARIABLES
  stream,    \* stream -> None or its turn
  sent,      \* stream -> what the client was sent
  gone,      \* streams whose client left
  ended,     \* stream -> "no", "done", "left" or "broken"
  opened,    \* streams a conversation was created for
  messages,  \* the messages of a stream's turn, as committed
  cached,    \* None or the stored answer: who made it, and how much of it
  faults

vars == <<stream, sent, gone, ended, opened, messages, cached, faults>>

Init ==
  /\ stream = [s \in Streams |-> None]
  /\ sent = [s \in Streams |-> <<>>] /\ gone = {}
  /\ ended = [s \in Streams |-> "no"]
  /\ opened = {} /\ messages = [s \in Streams |-> <<>>]
  /\ cached = None /\ faults = 0

-----------------------------------------------------------------------------
(* What is left to do is a sequence of steps.  A turn without a             *)
(* conversation opens one first; a hit is saved before it is shown, a       *)
(* generated answer after.                                                  *)
Opening(single) == IF single THEN <<"open">> ELSE <<>>

Hit(single) == Opening(single) \o <<"ask", "reply", "meta", "text", "done">>

Miss(single) == Opening(single) \o <<"meta", "stream", "ask", "reply", "gate", "done">>
Storing == <<"table", "redis", "done">>
Refusal == <<"done">>

Begin(s) ==
  /\ stream[s] = None
  /\ \E channel \in {"sse", "ws"}, single \in BOOLEAN :
       stream' = [stream EXCEPT ![s] =
         [channel |-> channel, single |-> single, layer |-> None, plan |-> <<"look">>,
          answer |-> None, tokens |-> 0, faulty |-> FALSE]]
  /\ UNCHANGED <<sent, gone, ended, opened, messages, cached, faults>>

Step(s) == stream[s].plan[1]
Running(s) == stream[s] # None /\ ended[s] = "no"
At(s, step) == Running(s) /\ Step(s) = step
Follow(s, plan) == stream' = [stream EXCEPT ![s].plan = plan]
Proceed(s) == Follow(s, Tail(stream[s].plan))
Fault == faults < MaxFaults /\ faults' = faults + 1

(* Items carry how much of the answer the client has.  An exception ends    *)
(* the stream; only over a web socket the client hears of it.               *)
Item(type, n) == [type |-> type, has |-> n]
Has(s) == IF sent[s] = <<>> THEN 0 ELSE sent[s][Len(sent[s])].has
Break(s) ==
  /\ ended' = [ended EXCEPT ![s] = "broken"]
  /\ sent' = IF s \in gone \/ stream[s].channel = "sse" THEN sent
             ELSE [sent EXCEPT ![s] = Append(@, Item("error", Has(s)))]

(* A layer has the answer; or it is generated from what is retrieved, or    *)
(* refused when that is nothing.                                            *)
Look(s) ==
  /\ At(s, "look")
  /\ \/ /\ cached # None
        /\ \E layer \in IF stream[s].single THEN {"redis", "table", "semantic"} ELSE {"redis"} :
             stream' = [stream EXCEPT ![s].plan = Hit(stream[s].single), ![s].layer = layer, ![s].answer = cached]
     \/ Follow(s, Miss(stream[s].single))
     \/ Follow(s, Refusal)
  /\ UNCHANGED <<sent, gone, ended, opened, messages, cached, faults>>

(* A conversation that cannot be created breaks the stream, but where the   *)
(* second and third layer are looked through only their hit.                *)
Open(s) ==
  /\ At(s, "open") /\ opened' = opened \cup {s} /\ Proceed(s)
  /\ UNCHANGED <<sent, gone, ended, messages, cached, faults>>
OpenFails(s) ==
  /\ At(s, "open") /\ Fault
  /\ IF stream[s].layer \in {"table", "semantic"}
     THEN /\ stream' = [stream EXCEPT ![s].plan = Miss(TRUE), ![s].layer = None, ![s].answer = None]
          /\ UNCHANGED <<ended, sent>>
     ELSE Break(s) /\ UNCHANGED stream
  /\ UNCHANGED <<gone, opened, messages, cached>>

(* save_message twice: each commits; the first failure ends both and is     *)
(* forgiven.                                                                *)
Message(s, step) ==
  IF step = "ask" THEN [role |-> "user"]
  ELSE [role |-> "assistant", by |-> stream[s].answer.by, length |-> stream[s].answer.length]
Save(s, step) ==
  /\ At(s, step) /\ Proceed(s)
  /\ messages' = [messages EXCEPT ![s] = Append(@, Message(s, step))]
  /\ UNCHANGED <<sent, gone, ended, opened, cached, faults>>
AfterReply(plan) == Tail(IF Head(plan) = "ask" THEN Tail(plan) ELSE plan)
SaveFails(s) ==
  /\ Running(s) /\ Step(s) \in {"ask", "reply"} /\ Fault
  /\ stream' = [stream EXCEPT ![s].faulty = TRUE, ![s].plan = AfterReply(@)]
  /\ UNCHANGED <<sent, gone, ended, opened, messages, cached>>

(* Sending to a web socket that is closed raises and ends the handler.      *)
Send(s, item) ==
  IF s \in gone /\ stream[s].channel = "ws"
  THEN ended' = [ended EXCEPT ![s] = "left"] /\ UNCHANGED <<stream, sent>>
  ELSE /\ sent' = [sent EXCEPT ![s] = Append(@, item)] /\ Proceed(s)
       /\ ended' = [ended EXCEPT ![s] = IF item.type = "done" THEN "done" ELSE @]

Emit(s) ==
  /\ \E step \in {"meta", "text", "done"} :
       At(s, step) /\ Send(s, Item(step, IF step = "text" THEN stream[s].answer.length ELSE Has(s)))
  /\ UNCHANGED <<gone, opened, messages, cached, faults>>

(* Tokens go out as they come; the answer is what arrived when the model    *)
(* is done.  A model that breaks off breaks the stream.                     *)
Token(s) ==
  /\ At(s, "stream") /\ stream[s].tokens < Length
  /\ IF s \in gone /\ stream[s].channel = "ws"
     THEN ended' = [ended EXCEPT ![s] = "left"] /\ UNCHANGED <<stream, sent>>
     ELSE /\ stream' = [stream EXCEPT ![s].tokens = @ + 1]
          /\ sent' = [sent EXCEPT ![s] = Append(@, Item("text", stream[s].tokens + 1))] /\ UNCHANGED ended
  /\ UNCHANGED <<gone, opened, messages, cached, faults>>
\* mutant
CompleteEarly(s) ==
  /\ At(s, "stream")
  /\ stream' = [stream EXCEPT ![s].answer = [by |-> s, length |-> stream[s].tokens], ![s].plan = Tail(@)]
  /\ UNCHANGED <<sent, gone, ended, opened, messages, cached, faults>>

Complete(s) ==
  /\ At(s, "stream") /\ stream[s].tokens = Length
  /\ stream' = [stream EXCEPT ![s].answer = [by |-> s, length |-> stream[s].tokens], ![s].plan = Tail(@)]
  /\ UNCHANGED <<sent, gone, ended, opened, messages, cached, faults>>
BreakOff(s) ==
  /\ At(s, "look") \/ At(s, "stream")
  /\ Break(s)
  /\ UNCHANGED <<stream, gone, opened, messages, cached, faults>>

(* Only an answer of high confidence to a question that is not blacklisted  *)
(* is stored, in the table and then in Redis; failures are forgiven.        *)
Gate(s) ==
  /\ At(s, "gate") /\ \E plan \in {Storing, <<"done">>} : Follow(s, plan)
  /\ UNCHANGED <<sent, gone, ended, opened, messages, cached, faults>>
Store(s) ==
  /\ At(s, "table") \/ At(s, "redis")
  /\ Proceed(s)
  /\ \/ cached' = stream[s].answer /\ UNCHANGED faults
     \/ Fault /\ UNCHANGED cached
  /\ UNCHANGED <<sent, gone, ended, opened, messages>>

(* The client leaves; the response over SSE is cancelled wherever it waits. *)
Leave(s) ==
  /\ Running(s) /\ s \notin gone /\ gone' = gone \cup {s}
  /\ UNCHANGED <<stream, sent, ended, opened, messages, cached, faults>>
Cancel(s) ==
  /\ Running(s) /\ s \in gone /\ stream[s].channel = "sse"
  /\ ended' = [ended EXCEPT ![s] = "left"]
  /\ UNCHANGED <<stream, sent, gone, opened, messages, cached, faults>>

Next ==
  \E s \in Streams :
    \/ Begin(s) \/ Look(s) \/ Open(s) \/ OpenFails(s)
    \/ Save(s, "ask") \/ Save(s, "reply") \/ SaveFails(s)
    \/ Emit(s) \/ Token(s) \/ Complete(s) \/ BreakOff(s)
    \/ Gate(s) \/ Store(s) \/ Leave(s) \/ Cancel(s)

Spec == Init /\ [][Next]_vars

-----------------------------------------------------------------------------
Items == [type : {"meta", "text", "done", "error"}, has : 0 .. Length]

(* Clients are sent items, messages are a question and an answer. *)
TypeOK ==
  /\ \A s \in Streams : Range(sent[s]) \subseteq Items
  /\ \A s \in Streams : Len(messages[s]) <= 2
  /\ opened \subseteq Streams /\ gone \subseteq Streams
  /\ ended \in [Streams -> {"no", "done", "left", "broken"}]

(* What a client is sent begins with the sources, grows by a token at a     *)
(* time or comes at once, and ends with "done"; "done" is sent when         *)
(* everything was, and a stream that breaks leaves no message behind.       *)
InOrder ==
  \A s \in Streams :
    /\ ended[s] = "done" <=> sent[s] # <<>> /\ sent[s][Len(sent[s])].type = "done"
    /\ \A i \in 1 .. Len(sent[s]) :
         /\ sent[s][i].type \in {"done", "error"} => i = Len(sent[s])
         /\ sent[s][i].type = "done" /\ i > 1 => Has(s) = Length
         /\ sent[s][i].type = "text" => sent[s][1].type = "meta" /\ sent[s][i].has > sent[s][i - 1].has
    /\ ended[s] = "broken" => messages[s] = <<>>

(* A turn that was shown to its end is in the conversation, the question    *)
(* before the answer, unless saving it failed.                              *)
ShownIsSaved ==
  \A s \in Streams : ended[s] = "done" /\ Len(sent[s]) > 1 /\ ~stream[s].faulty =>
    messages[s] = <<Message(s, "ask"), Message(s, "reply")>>

(* An answer that broke off, or was left half way, is neither kept in a     *)
(* conversation nor handed to others.                                       *)
OnlyWholeAnswers ==
  /\ cached # None => cached.length = Length
  /\ \A s \in Streams : \A i \in 1 .. Len(messages[s]) :
       messages[s][i].role = "assistant" => messages[s][i].length = Length

(* A cached answer was shown completely to the one who asked for it, and is *)
(* in that conversation if it could be saved.                               *)
CachedWasShown ==
  cached # None =>
    LET s == cached.by IN
    /\ Has(s) = Length
    /\ stream[s].faulty \/ Message(s, "reply") \in Range(messages[s])

\* A stream shows an answer in its order, saves and caches what was shown, and only whole.
StreamSound == TypeOK /\ InOrder /\ ShownIsSaved /\ OnlyWholeAnswers /\ CachedWasShown
=============================================================================
