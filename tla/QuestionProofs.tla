--------------------------- MODULE QuestionProofs ---------------------------
(***************************************************************************)
(* What a question meets on its way to its asker, for every value of the   *)
(* constants: the stream that carries the answer, the cache of answers,    *)
(* the graph of facts and the budget the answer is charged to.             *)
(***************************************************************************)
EXTENDS MCServices, Sequences, FiniteSetTheorems, FunctionTheorems, TLAPS

ServicesStep == [ServicesNext]_ServicesVars

-----------------------------------------------------------------------------
(* A stream of an answer.                                                   *)

\* What is left to do, from the first step of a hit or a miss on.
HitAsk == <<"ask", "reply", "meta", "text", "done">>
HitReply == <<"reply", "meta", "text", "done">>
HitMeta == <<"meta", "text", "done">>
HitText == <<"text", "done">>
OnlyDone == <<"done">>
MissMeta == <<"meta", "stream", "ask", "reply", "gate", "done">>
MissStream == <<"stream", "ask", "reply", "gate", "done">>
MissAsk == <<"ask", "reply", "gate", "done">>
MissReply == <<"reply", "gate", "done">>
MissGate == <<"gate", "done">>
StoreRedis == <<"redis", "done">>

\* What the client has been sent when the sources and n tokens of the answer were, or all
\* of it at once.
Told(n) == [i \in 1 .. n + 1 |-> IF i = 1 THEN Streaming!Item("meta", 0)
                                 ELSE Streaming!Item("text", i - 1)]
ToldAtOnce == <<Streaming!Item("meta", 0), Streaming!Item("text", AnswerLength)>>

Last(items) == items[Len(items)]

Question == [role |-> "user"]
Reply(s) == [role |-> "assistant", by |-> stream[s].answer.by, length |-> stream[s].answer.length]
Untold(s) == sent[s] = <<>> /\ messages[s] = <<>>
Unasked(s) == messages[s] = <<>> /\ ~stream[s].faulty
HalfKept(s) == messages[s] = <<Question>> /\ ~stream[s].faulty
Kept(s) == \/ messages[s] = <<Question, Reply(s)>>
           \/ stream[s].faulty /\ messages[s] \in {<<>>, <<Question>>}

\* A cached answer is saved before it is shown ...
Hitting(s) ==
  /\ stream[s].answer # None /\ stream[s].tokens = 0
  /\ \/ stream[s].plan \in {<<"open">> \o HitAsk, HitAsk} /\ sent[s] = <<>> /\ Unasked(s)
     \/ stream[s].plan = HitReply /\ sent[s] = <<>> /\ HalfKept(s)
     \/ stream[s].plan = HitMeta /\ sent[s] = <<>> /\ Kept(s)
     \/ stream[s].plan = HitText /\ sent[s] = Told(0) /\ Kept(s)
     \/ stream[s].plan = OnlyDone /\ sent[s] = ToldAtOnce /\ Kept(s)

\* ... a generated one after, when it is whole.
Generating(s) ==
  /\ stream[s].answer = None /\ Unasked(s)
  /\ \/ stream[s].plan \in {<<"look">>, <<"open">> \o MissMeta, MissMeta}
        /\ sent[s] = <<>> /\ stream[s].tokens = 0
     \/ stream[s].plan = MissStream /\ sent[s] = Told(stream[s].tokens)

Arrived(s) ==
  /\ stream[s].answer = [by |-> s, length |-> AnswerLength] /\ sent[s] = Told(AnswerLength)
  /\ \/ stream[s].plan = MissAsk /\ Unasked(s)
     \/ stream[s].plan = MissReply /\ HalfKept(s)
     \/ stream[s].plan \in {MissGate, Streaming!Storing, StoreRedis, OnlyDone} /\ Kept(s)

Refused(s) == stream[s].plan = OnlyDone /\ stream[s].answer = None /\ Untold(s)

Underway(s) == Hitting(s) \/ Generating(s) \/ Arrived(s) \/ Refused(s)

\* What has ended: with everything shown, or broken before anything was kept.
Finished(s) ==
  /\ stream[s].plan = <<>>
  /\ \/ sent[s] = <<Streaming!Item("done", 0)>> /\ messages[s] = <<>>
     \/ /\ stream[s].answer # None /\ Kept(s)
        /\ sent[s] = Append(ToldAtOnce, Streaming!Item("done", AnswerLength))
     \/ /\ stream[s].answer # None /\ Kept(s)
        /\ sent[s] = Append(Told(AnswerLength), Streaming!Item("done", AnswerLength))

Broken(s) ==
  /\ messages[s] = <<>>
  /\ \/ sent[s] = <<>> \/ sent[s] = <<Streaming!Item("error", 0)>>
     \/ \E n \in 0 .. AnswerLength :
          sent[s] = Told(n) \/ sent[s] = Append(Told(n), Streaming!Item("error", n))

TurnOK(s) ==
  IF stream[s] = None THEN Untold(s) /\ ended[s] = "no"
  ELSE /\ ended[s] \in {"no", "left"} => Underway(s)
       /\ ended[s] = "done" => Finished(s)
       /\ ended[s] = "broken" => Broken(s)

\* The answer in the cache was kept by the stream that made it, and shown there.
CachedOK ==
  cached = None \/
    \E s \in Pair : /\ stream[s] # None /\ cached = stream[s].answer
                    /\ cached = [by |-> s, length |-> AnswerLength]
                    /\ Streaming!Has(s) = AnswerLength /\ Kept(s)
                    /\ stream[s].plan \in {StoreRedis, OnlyDone, <<>>}

StreamKinds ==
  /\ stream \in [Pair -> Streaming!Turns \cup {None}]
  /\ ended \in [Pair -> {"no", "done", "left", "broken"}]
  /\ DOMAIN sent = Pair /\ sent = [s \in Pair |-> sent[s]]
  /\ DOMAIN messages = Pair /\ messages = [s \in Pair |-> messages[s]]
  /\ gone \subseteq Pair /\ opened \subseteq Pair

StreamInv == StreamKinds /\ (\A s \in Pair : TurnOK(s)) /\ CachedOK

\* What is put in front is done first.
LEMMA PutInFront ==
  ASSUME NEW S, NEW x \in S, NEW plan \in Seq(S)
  PROVE  (<<x>> \o plan)[1] = x /\ Tail(<<x>> \o plan) = plan /\ <<>> \o plan = plan
         /\ <<x>> \o plan \in Seq(S) /\ <<x>> \o plan # <<>>
<1>1. <<x>> \in Seq(S) /\ Len(<<x>>) = 1 /\ <<x>>[1] = x
  OBVIOUS
<1>2. /\ <<x>> \o plan \in Seq(S) /\ Len(<<x>> \o plan) = 1 + Len(plan)
      /\ (<<x>> \o plan)[1] = x
      /\ \A i \in 1 .. Len(plan) : (<<x>> \o plan)[i + 1] = plan[i]
  BY <1>1
<1>3. Tail(<<x>> \o plan) \in Seq(S) /\ Len(Tail(<<x>> \o plan)) = Len(plan)
  BY <1>2
<1>4. \A i \in 1 .. Len(plan) : Tail(<<x>> \o plan)[i] = plan[i]
  BY <1>2, <1>3
<1> QED
  BY <1>2, <1>3, <1>4

\* The first step of every plan.
LEMMA FirstSteps ==
  /\ <<"look">>[1] = "look"
  /\ (<<"open">> \o HitAsk)[1] = "open" /\ (<<"open">> \o MissMeta)[1] = "open"
  /\ HitAsk[1] = "ask" /\ HitReply[1] = "reply" /\ HitMeta[1] = "meta" /\ HitText[1] = "text"
  /\ MissMeta[1] = "meta" /\ MissStream[1] = "stream" /\ MissAsk[1] = "ask"
  /\ MissReply[1] = "reply" /\ MissGate[1] = "gate"
  /\ Streaming!Storing[1] = "table" /\ StoreRedis[1] = "redis" /\ OnlyDone[1] = "done"
<1>1. /\ HitAsk \in Seq(Streaming!Steps) /\ MissMeta \in Seq(Streaming!Steps)
      /\ "open" \in Streaming!Steps
  BY DEF HitAsk, MissMeta, Streaming!Steps
<1>2. (<<"open">> \o HitAsk)[1] = "open"
  BY <1>1, PutInFront
<1>3. (<<"open">> \o MissMeta)[1] = "open"
  BY <1>1, PutInFront
<1>4. HitAsk[1] = "ask" /\ HitReply[1] = "reply" /\ HitMeta[1] = "meta" /\ HitText[1] = "text"
  BY DEF HitAsk, HitReply, HitMeta, HitText
<1>5. /\ MissMeta[1] = "meta" /\ MissStream[1] = "stream" /\ MissAsk[1] = "ask"
      /\ MissReply[1] = "reply" /\ MissGate[1] = "gate"
  BY DEF MissMeta, MissStream, MissAsk, MissReply, MissGate
<1>6. Streaming!Storing[1] = "table" /\ StoreRedis[1] = "redis" /\ OnlyDone[1] = "done"
  BY DEF Streaming!Storing, StoreRedis, OnlyDone
<1> QED
  BY <1>2, <1>3, <1>4, <1>5, <1>6

\* What is left to do of every plan after its first step.
LEMMA LaterSteps ==
  /\ Tail(<<"open">> \o HitAsk) = HitAsk /\ Tail(<<"open">> \o MissMeta) = MissMeta
  /\ Tail(HitAsk) = HitReply /\ Tail(HitReply) = HitMeta /\ Tail(HitMeta) = HitText
  /\ Tail(HitText) = OnlyDone
  /\ Tail(MissMeta) = MissStream /\ Tail(MissStream) = MissAsk /\ Tail(MissAsk) = MissReply
  /\ Tail(MissReply) = MissGate
  /\ Tail(Streaming!Storing) = StoreRedis /\ Tail(StoreRedis) = OnlyDone /\ Tail(OnlyDone) = <<>>
<1> USE DEF HitAsk, HitReply, HitMeta, HitText, OnlyDone, MissMeta, MissStream, MissAsk,
            MissReply, MissGate, StoreRedis
<1>1. /\ HitAsk \in Seq(Streaming!Steps) /\ MissMeta \in Seq(Streaming!Steps)
      /\ "open" \in Streaming!Steps
  BY DEF Streaming!Steps
<1>2. Tail(<<"open">> \o HitAsk) = HitAsk /\ Tail(<<"open">> \o MissMeta) = MissMeta
  <2> HIDE DEF HitAsk, MissMeta
  <2>1. Tail(<<"open">> \o HitAsk) = HitAsk
    BY <1>1, PutInFront
  <2>2. Tail(<<"open">> \o MissMeta) = MissMeta
    BY <1>1, PutInFront
  <2> QED
    BY <2>1, <2>2
<1>3. /\ Tail(HitAsk) = HitReply /\ Tail(HitReply) = HitMeta /\ Tail(HitMeta) = HitText
      /\ Tail(HitText) = OnlyDone
  OBVIOUS
<1>4. /\ Tail(MissMeta) = MissStream /\ Tail(MissStream) = MissAsk
  OBVIOUS
<1>5. Tail(MissAsk) = MissReply /\ Tail(MissReply) = MissGate
  OBVIOUS
<1>6. /\ Tail(Streaming!Storing) = StoreRedis
      /\ Tail(StoreRedis) = OnlyDone /\ Tail(OnlyDone) = <<>>
  BY DEF Streaming!Storing
<1> QED
  BY <1>2, <1>3, <1>4, <1>5, <1>6

\* The plans of a hit, a miss and a refusal.
LEMMA PlansOfTurns ==
  /\ Streaming!Hit(TRUE) = <<"open">> \o HitAsk /\ Streaming!Hit(FALSE) = HitAsk
  /\ Streaming!Miss(TRUE) = <<"open">> \o MissMeta /\ Streaming!Miss(FALSE) = MissMeta
  /\ Streaming!Refusal = OnlyDone
<1>1. HitAsk \in Seq(Streaming!Steps) /\ MissMeta \in Seq(Streaming!Steps)
  BY DEF HitAsk, MissMeta, Streaming!Steps
<1>2. <<>> \o HitAsk = HitAsk /\ <<>> \o MissMeta = MissMeta
  BY <1>1
<1> QED
  BY <1>2 DEF Streaming!Hit, Streaming!Miss, Streaming!Opening, Streaming!Refusal, HitAsk,
     MissMeta, OnlyDone

\* None of them is over before its last step.
LEMMA PlansGoOn ==
  \A plan \in {<<"look">>, <<"open">> \o HitAsk, HitAsk, HitReply, HitMeta, HitText, OnlyDone,
               <<"open">> \o MissMeta, MissMeta, MissStream, MissAsk, MissReply, MissGate,
               Streaming!Storing, StoreRedis} : plan # <<>>
<1>1. (<<"open">> \o HitAsk) # <<>> /\ (<<"open">> \o MissMeta) # <<>>
  <2>1. /\ HitAsk \in Seq(Streaming!Steps) /\ MissMeta \in Seq(Streaming!Steps)
        /\ "open" \in Streaming!Steps
    BY DEF HitAsk, MissMeta, Streaming!Steps
  <2> QED
    BY <2>1, PutInFront
<1>2. <<"look">> # <<>> /\ HitAsk # <<>> /\ HitReply # <<>> /\ HitMeta # <<>> /\ HitText # <<>>
  BY DEF HitAsk, HitReply, HitMeta, HitText
<1>3. OnlyDone # <<>> /\ MissMeta # <<>> /\ MissStream # <<>> /\ MissAsk # <<>>
  BY DEF OnlyDone, MissMeta, MissStream, MissAsk
<1>4. MissReply # <<>> /\ MissGate # <<>> /\ Streaming!Storing # <<>> /\ StoreRedis # <<>>
  BY DEF MissReply, MissGate, Streaming!Storing, StoreRedis
<1> QED
  BY <1>1, <1>2, <1>3, <1>4

\* They are made of steps.
LEMMA PlansOfSteps ==
  \A plan \in {<<"look">>, <<"open">> \o HitAsk, HitAsk, HitReply, HitMeta, HitText, OnlyDone,
               <<"open">> \o MissMeta, MissMeta, MissStream, MissAsk, MissReply, MissGate,
               Streaming!Storing, StoreRedis, <<>>} : plan \in Seq(Streaming!Steps)
<1>1. /\ HitAsk \in Seq(Streaming!Steps) /\ MissMeta \in Seq(Streaming!Steps)
      /\ <<"look">> \in Seq(Streaming!Steps) /\ Streaming!Storing \in Seq(Streaming!Steps)
      /\ MissGate \in Seq(Streaming!Steps)
  BY DEF HitAsk, MissMeta, MissGate, Streaming!Storing, Streaming!Steps
<1>2. <<"open">> \o HitAsk \in Seq(Streaming!Steps) /\ <<"open">> \o MissMeta \in Seq(Streaming!Steps)
  BY <1>1 DEF Streaming!Steps
<1>3. /\ HitReply \in Seq(Streaming!Steps) /\ HitMeta \in Seq(Streaming!Steps)
      /\ HitText \in Seq(Streaming!Steps) /\ OnlyDone \in Seq(Streaming!Steps)
  BY DEF HitReply, HitMeta, HitText, OnlyDone, Streaming!Steps
<1>4. /\ MissStream \in Seq(Streaming!Steps) /\ MissAsk \in Seq(Streaming!Steps)
      /\ MissReply \in Seq(Streaming!Steps) /\ StoreRedis \in Seq(Streaming!Steps)
      /\ <<>> \in Seq(Streaming!Steps)
  BY DEF MissStream, MissAsk, MissReply, StoreRedis, Streaming!Steps
<1> QED
  BY <1>1, <1>2, <1>3, <1>4

\* One item more.
LEMMA ToldNext ==
  /\ Told(0) = <<Streaming!Item("meta", 0)>>
  /\ Append(<<>>, Streaming!Item("meta", 0)) = Told(0)
  /\ Append(Told(0), Streaming!Item("text", AnswerLength)) = ToldAtOnce
  /\ \A n \in Nat : /\ Append(Told(n), Streaming!Item("text", n + 1)) = Told(n + 1)
                    /\ Len(Told(n)) = n + 1 /\ Told(n) # <<>>
                    /\ Told(n)[n + 1].has = n
<1>1. Told(0) = <<Streaming!Item("meta", 0)>>
  <2>1. DOMAIN Told(0) = 1 .. 1 /\ Told(0)[1] = Streaming!Item("meta", 0)
    BY DEF Told
  <2>2. Told(0) = [i \in 1 .. 1 |-> Streaming!Item("meta", 0)]
    BY DEF Told
  <2> QED BY <2>2
<1>2. Append(Told(0), Streaming!Item("text", AnswerLength)) = ToldAtOnce
  <2> DEFINE both == [i \in 1 .. 2 |-> IF i = 1 THEN Streaming!Item("meta", 0)
                                       ELSE Streaming!Item("text", AnswerLength)]
  <2>1. Append(<<Streaming!Item("meta", 0)>>, Streaming!Item("text", AnswerLength)) = both
    OBVIOUS
  <2>2. ToldAtOnce = both
    BY DEF ToldAtOnce
  <2> QED BY <1>1, <2>1, <2>2
<1>3. ASSUME NEW n \in Nat
      PROVE  /\ Append(Told(n), Streaming!Item("text", n + 1)) = Told(n + 1)
             /\ Len(Told(n)) = n + 1 /\ Told(n) # <<>> /\ Told(n)[n + 1].has = n
  <2>1. Len(Told(n)) = n + 1 /\ DOMAIN Told(n) = 1 .. n + 1
    BY DEF Told
  <2>2. Append(Told(n), Streaming!Item("text", n + 1)) =
          [i \in 1 .. n + 2 |-> IF i <= n + 1 THEN Told(n)[i] ELSE Streaming!Item("text", n + 1)]
    BY <2>1
  <2>3. \A i \in 1 .. n + 2 :
          (IF i <= n + 1 THEN Told(n)[i] ELSE Streaming!Item("text", n + 1)) = Told(n + 1)[i]
    BY DEF Told
  <2>4. Told(n + 1) = [i \in 1 .. n + 2 |-> Told(n + 1)[i]]
    BY DEF Told
  <2>5. Told(n)[n + 1].has = n
    BY DEF Told, Streaming!Item
  <2> QED
    BY <2>1, <2>2, <2>3, <2>4, <2>5
<1>4. \A x : Append(<<>>, x) = <<x>>
  OBVIOUS
<1> QED
  BY <1>1, <1>2, <1>3, <1>4

\* How much of the answer a client has.
LEMMA HasOf ==
  ASSUME NEW s \in Pair
  PROVE  /\ sent[s] = <<>> => Streaming!Has(s) = 0
         /\ \A n \in Nat : sent[s] = Told(n) => Streaming!Has(s) = n
         /\ sent[s] = ToldAtOnce => Streaming!Has(s) = AnswerLength
<1>1. \A n \in Nat : sent[s] = Told(n) => Streaming!Has(s) = n
  BY ToldNext DEF Streaming!Has, Last
<1>2. sent[s] = ToldAtOnce => Streaming!Has(s) = AnswerLength
  BY DEF ToldAtOnce, Streaming!Item, Streaming!Has, Last
<1> QED
  BY <1>1, <1>2 DEF Streaming!Has

\* The sizes and names of a stream.
LEMMA StreamSizes ==
  /\ AnswerLength \in Nat \ {0} /\ None \notin Streaming!Turns
  /\ \A s \in Pair : [by |-> s, length |-> AnswerLength] # None
BY ServicesAssumption DEF Streaming!StreamAssumption

\* At the start no stream has begun and nothing is cached.
LEMMA StreamsBegin == Streaming!Init => StreamInv
BY DEF Streaming!Init, StreamInv, StreamKinds, TurnOK, Untold, CachedOK

\* A step of one stream leaves the others as they are.
Others(s) ==
  \A t \in Pair : t # s => /\ stream'[t] = stream[t] /\ sent'[t] = sent[t]
                           /\ messages'[t] = messages[t] /\ ended'[t] = ended[t]
LEMMA OthersStay ==
  ASSUME StreamInv, NEW s \in Pair, Others(s), StreamKinds', TurnOK(s)', CachedOK'
  PROVE  StreamInv'
<1> SUFFICES ASSUME NEW t \in Pair, t # s PROVE TurnOK(t)'
  BY DEF StreamInv
<1>1. /\ stream'[t] = stream[t] /\ sent'[t] = sent[t]
      /\ messages'[t] = messages[t] /\ ended'[t] = ended[t]
  BY DEF Others
<1>2. TurnOK(t)
  BY DEF StreamInv
<1> QED
  BY <1>1, <1>2 DEF TurnOK, Untold, Unasked, HalfKept, Kept, Reply, Hitting, Generating, Arrived,
     Refused, Underway, Finished, Broken

\* The answer in the cache stays good while the stream that made it, once it has stored
\* it, only ends.
Stored(s) == stream[s] # None /\ stream[s].plan \in {StoreRedis, OnlyDone, <<>>}
LEMMA CacheStays ==
  ASSUME StreamInv, NEW s \in Pair, Others(s), cached' = cached,
         Stored(s) /\ stream[s].answer # None =>
           /\ Stored(s)' /\ stream'[s].answer = stream[s].answer
           /\ stream'[s].faulty = stream[s].faulty /\ messages'[s] = messages[s]
           /\ Streaming!Has(s) = AnswerLength => Streaming!Has(s)' = AnswerLength
  PROVE  CachedOK'
<1> SUFFICES ASSUME cached # None PROVE CachedOK'
  BY DEF CachedOK
<1>1. PICK t \in Pair :
        /\ stream[t] # None /\ cached = stream[t].answer
        /\ cached = [by |-> t, length |-> AnswerLength]
        /\ Streaming!Has(t) = AnswerLength /\ Kept(t)
        /\ stream[t].plan \in {StoreRedis, OnlyDone, <<>>}
  BY DEF StreamInv, CachedOK
<1>2. CASE t = s
  BY <1>1, <1>2 DEF CachedOK, Kept, Reply, Stored
<1>3. CASE t # s
  <2>1. /\ stream'[t] = stream[t] /\ sent'[t] = sent[t] /\ messages'[t] = messages[t]
    BY <1>3 DEF Others
  <2>2. Streaming!Has(t)' = Streaming!Has(t) /\ Kept(t)'
    BY <1>1, <2>1 DEF Streaming!Has, Last, Kept, Reply
  <2> QED
    BY <1>1, <2>1, <2>2 DEF CachedOK
<1> QED
  BY <1>2, <1>3

\* A stream at work is under way, and its turn of its kind.
LEMMA AtWork ==
  ASSUME StreamInv, NEW s \in Pair, Streaming!Running(s)
  PROVE  /\ stream[s] # None /\ stream[s] \in Streaming!Turns /\ ended[s] = "no" /\ Underway(s)
         /\ stream[s].plan \in Seq(Streaming!Steps) /\ stream[s].tokens \in 0 .. AnswerLength
BY DEF StreamInv, StreamKinds, TurnOK, Streaming!Running, Streaming!Turns

\* What follows from the step a stream is at.
LEMMA AtStep ==
  ASSUME StreamInv, NEW s \in Pair, Streaming!Running(s)
  PROVE  /\ Streaming!Step(s) = "look" => Generating(s) /\ stream[s].plan = <<"look">>
         /\ Streaming!Step(s) = "open" => \/ Hitting(s) /\ stream[s].plan = <<"open">> \o HitAsk
                                          \/ Generating(s) /\ stream[s].plan = <<"open">> \o MissMeta
         /\ Streaming!Step(s) = "ask" => \/ Hitting(s) /\ stream[s].plan = HitAsk
                                         \/ Arrived(s) /\ stream[s].plan = MissAsk
         /\ Streaming!Step(s) = "reply" => \/ Hitting(s) /\ stream[s].plan = HitReply
                                           \/ Arrived(s) /\ stream[s].plan = MissReply
         /\ Streaming!Step(s) = "meta" => \/ Hitting(s) /\ stream[s].plan = HitMeta
                                          \/ Generating(s) /\ stream[s].plan = MissMeta
         /\ Streaming!Step(s) = "text" => Hitting(s) /\ stream[s].plan = HitText
         /\ Streaming!Step(s) = "stream" => Generating(s) /\ stream[s].plan = MissStream
         /\ Streaming!Step(s) = "gate" => Arrived(s) /\ stream[s].plan = MissGate
         /\ Streaming!Step(s) = "table" => Arrived(s) /\ stream[s].plan = Streaming!Storing
         /\ Streaming!Step(s) = "redis" => Arrived(s) /\ stream[s].plan = StoreRedis
         /\ Streaming!Step(s) = "done" => stream[s].plan = OnlyDone
<1>1. Underway(s)
  BY AtWork
<1>2. CASE Hitting(s)
  <2>1. stream[s].plan \in {<<"open">> \o HitAsk, HitAsk, HitReply, HitMeta, HitText, OnlyDone}
    BY <1>2 DEF Hitting
  <2> QED
    BY <1>2, <2>1, FirstSteps DEF Streaming!Step
<1>3. CASE Generating(s)
  <2>1. stream[s].plan \in {<<"look">>, <<"open">> \o MissMeta, MissMeta, MissStream}
    BY <1>3 DEF Generating
  <2> QED
    BY <1>3, <2>1, FirstSteps DEF Streaming!Step
<1>4. CASE Arrived(s)
  <2>1. stream[s].plan \in {MissAsk, MissReply, MissGate, Streaming!Storing, StoreRedis, OnlyDone}
    BY <1>4 DEF Arrived
  <2> QED
    BY <1>4, <2>1, FirstSteps DEF Streaming!Step
<1>5. CASE Refused(s)
  BY <1>5, FirstSteps DEF Refused, Streaming!Step
<1> QED
  BY <1>1, <1>2, <1>3, <1>4, <1>5 DEF Underway

\* A turn begins with nothing but a look.
LEMMA TurnBegins ==
  ASSUME StreamInv, NEW s \in Pair, Streaming!Begin(s)
  PROVE  StreamInv'
<1>1. PICK channel \in {"sse", "ws"}, single \in BOOLEAN :
        stream' = [stream EXCEPT ![s] =
          [channel |-> channel, single |-> single, layer |-> None, plan |-> <<"look">>,
           answer |-> None, tokens |-> 0, faulty |-> FALSE]]
  BY DEF Streaming!Begin
<1>2. /\ stream[s] = None
      /\ UNCHANGED <<sent, gone, ended, opened, messages, cached, s_faults>>
  BY DEF Streaming!Begin
<1>3. PICK one : one = [channel |-> channel, single |-> single, layer |-> None, plan |-> <<"look">>,
                          answer |-> None, tokens |-> 0, faulty |-> FALSE]
  OBVIOUS
<1>4. one \in Streaming!Turns /\ one # None
  <2>1. <<"look">> \in Seq(Streaming!Steps) /\ 0 \in 0 .. AnswerLength
    BY PlansOfSteps, StreamSizes
  <2>2. one \in Streaming!Turns
    BY <1>3, <2>1 DEF Streaming!Turns
  <2> QED
    BY <2>2, StreamSizes
<1>5. stream' = [stream EXCEPT ![s] = one]
  BY <1>1, <1>3
<1>6. stream'[s] = one /\ Others(s)
  BY <1>2, <1>5 DEF StreamInv, StreamKinds, Others
<1>7. StreamKinds'
  BY <1>2, <1>4, <1>5 DEF StreamInv, StreamKinds
<1>8. TurnOK(s)'
  <2>1. sent[s] = <<>> /\ messages[s] = <<>> /\ ended[s] = "no"
    BY <1>2 DEF StreamInv, TurnOK, Untold
  <2>2. /\ one.plan = <<"look">> /\ one.answer = None /\ one.tokens = 0 /\ one.faulty = FALSE
    BY <1>3
  <2>3. Generating(s)'
    BY <1>2, <1>6, <2>1, <2>2 DEF Generating, Unasked
  <2> QED
    BY <1>2, <1>4, <1>6, <2>1, <2>3 DEF TurnOK, Underway
<1>9. CachedOK'
  BY <1>2, <1>6, CacheStays DEF Stored
<1> QED
  BY <1>6, <1>7, <1>8, <1>9, OthersStay

\* A step of a stream that has not stored its answer yet.
LEMMA TurnChanges ==
  ASSUME StreamInv, NEW s \in Pair, Streaming!Running(s), NEW one \in Streaming!Turns, NEW items,
         NEW kept, stream' = [stream EXCEPT ![s] = one], ended' = ended, gone' \subseteq Pair,
         opened' \subseteq Pair, sent' = [sent EXCEPT ![s] = items],
         messages' = [messages EXCEPT ![s] = kept], cached' = cached,
         ~Stored(s) \/ stream[s].answer = None,
         Underway(s)'
  PROVE  StreamInv'
<1>1. one # None /\ stream[s] # None /\ ended[s] = "no"
  BY AtWork, StreamSizes
<1>2. stream'[s] = one /\ Others(s)
  BY DEF StreamInv, StreamKinds, Others
<1>3. StreamKinds'
  <2>1. stream' \in [Pair -> Streaming!Turns \cup {None}]
    BY DEF StreamInv, StreamKinds
  <2>2. /\ DOMAIN sent' = Pair /\ sent' = [t \in Pair |-> sent'[t]]
        /\ DOMAIN messages' = Pair /\ messages' = [t \in Pair |-> messages'[t]]
    BY DEF StreamInv, StreamKinds
  <2> QED
    BY <2>1, <2>2 DEF StreamInv, StreamKinds
<1>4. TurnOK(s)'
  BY <1>1, <1>2 DEF TurnOK
<1>5. CachedOK'
  BY <1>2, CacheStays
<1> QED
  BY <1>2, <1>3, <1>4, <1>5, OthersStay

\* ... which neither sends nor saves.
LEMMA TurnGoesOn ==
  ASSUME StreamInv, NEW s \in Pair, Streaming!Running(s), NEW one \in Streaming!Turns,
         stream' = [stream EXCEPT ![s] = one], ended' = ended, gone' \subseteq Pair,
         opened' \subseteq Pair,
         sent' = sent, messages' = messages, cached' = cached,
         ~Stored(s) \/ stream[s].answer = None,
         Underway(s)'
  PROVE  StreamInv'
<1>1. sent' = [sent EXCEPT ![s] = sent[s]] /\ messages' = [messages EXCEPT ![s] = messages[s]]
  BY DEF StreamInv, StreamKinds
<1> QED
  BY <1>1, TurnChanges

\* A layer has the answer, or it will be generated, or refused.
LEMMA Looked ==
  ASSUME StreamInv, NEW s \in Pair, Streaming!Look(s)
  PROVE  StreamInv'
<1>1. /\ Streaming!Running(s) /\ Streaming!Step(s) = "look"
      /\ UNCHANGED <<sent, gone, ended, opened, messages, cached, s_faults>>
  BY DEF Streaming!Look, Streaming!At
<1>2. Generating(s) /\ stream[s].plan = <<"look">>
  BY <1>1, AtStep
<1>3. /\ stream[s] # None /\ stream[s] \in Streaming!Turns /\ stream[s].single \in BOOLEAN
      /\ stream[s].answer = None /\ stream[s].tokens = 0 /\ sent[s] = <<>> /\ Unasked(s)
  <2>1. stream[s] # None /\ stream[s] \in Streaming!Turns
    BY <1>1, AtWork
  <2>2. stream[s].single \in BOOLEAN
    BY <2>1 DEF Streaming!Turns
  <2>3. <<"look">> # MissStream
    BY FirstSteps
  <2> QED
    BY <1>2, <2>1, <2>2, <2>3 DEF Generating
<1>4. PICK one : /\ stream' = [stream EXCEPT ![s] = one] /\ one \in Streaming!Turns
                  /\ one.faulty = stream[s].faulty /\ one.tokens = 0
                  /\ \/ one.plan = Streaming!Hit(stream[s].single) /\ one.answer = cached /\ cached # None
                     \/ one.plan = Streaming!Miss(stream[s].single) /\ one.answer = None
                     \/ one.plan = OnlyDone /\ one.answer = None
  <2>1. /\ Streaming!Hit(stream[s].single) \in Seq(Streaming!Steps)
        /\ Streaming!Miss(stream[s].single) \in Seq(Streaming!Steps)
        /\ OnlyDone \in Seq(Streaming!Steps)
    <3>1. \A single \in BOOLEAN : /\ Streaming!Hit(single) \in Seq(Streaming!Steps)
                                  /\ Streaming!Miss(single) \in Seq(Streaming!Steps)
      BY PlansOfTurns, PlansOfSteps
    <3> QED
      BY <1>3, <3>1, PlansOfSteps
  <2>2. CASE \E layer \in {None, "redis", "table", "semantic"} : cached # None /\
               stream' = [stream EXCEPT ![s].plan = Streaming!Hit(stream[s].single),
                                        ![s].layer = layer, ![s].answer = cached]
    <3>1. PICK layer \in {None, "redis", "table", "semantic"} : cached # None /\
               stream' = [stream EXCEPT ![s].plan = Streaming!Hit(stream[s].single),
                                        ![s].layer = layer, ![s].answer = cached]
      BY <2>2
    <3> DEFINE one == [stream[s] EXCEPT !.plan = Streaming!Hit(stream[s].single),
                                         !.layer = layer, !.answer = cached]
    <3>2. stream' = [stream EXCEPT ![s] = one]
      BY <3>1
    <3>3. cached \in [by : Pair, length : {AnswerLength}]
      BY <3>1 DEF StreamInv, CachedOK
    <3>4. one \in Streaming!Turns
      BY <1>3, <2>1, <3>3 DEF Streaming!Turns
    <3>5. /\ one.faulty = stream[s].faulty /\ one.tokens = 0
          /\ one.plan = Streaming!Hit(stream[s].single) /\ one.answer = cached
      BY <1>3 DEF Streaming!Turns
    <3> QED
      BY <3>1, <3>2, <3>4, <3>5
  <2>3. ASSUME NEW plan \in {Streaming!Miss(stream[s].single), OnlyDone}, Streaming!Follow(s, plan)
        PROVE  \E one : /\ stream' = [stream EXCEPT ![s] = one] /\ one \in Streaming!Turns
                         /\ one.faulty = stream[s].faulty /\ one.tokens = 0
                         /\ one.plan = plan /\ one.answer = None
    <3> DEFINE one == [stream[s] EXCEPT !.plan = plan]
    <3>1. stream' = [stream EXCEPT ![s] = one]
      BY <2>3 DEF Streaming!Follow
    <3>2. one \in Streaming!Turns /\ one.faulty = stream[s].faulty /\ one.tokens = 0
          /\ one.plan = plan /\ one.answer = None
      BY <1>3, <2>1 DEF Streaming!Turns
    <3> QED
      BY <3>1, <3>2
  <2>4. \/ \E layer \in {None, "redis", "table", "semantic"} : cached # None /\
             stream' = [stream EXCEPT ![s].plan = Streaming!Hit(stream[s].single),
                                      ![s].layer = layer, ![s].answer = cached]
        \/ Streaming!Follow(s, Streaming!Miss(stream[s].single))
        \/ Streaming!Follow(s, OnlyDone)
    <3>1. Streaming!Refusal = OnlyDone
      BY PlansOfTurns
    <3>2. (IF stream[s].single THEN {"redis", "table", "semantic"} ELSE {"redis"})
             \subseteq {None, "redis", "table", "semantic"}
      OBVIOUS
    <3> QED
      BY <3>1, <3>2 DEF Streaming!Look
  <2> QED
    BY <2>2, <2>3, <2>4
<1>5. stream'[s] = one
  BY <1>4 DEF StreamInv, StreamKinds
<1>6. Underway(s)'
  <2>1. Unasked(s)' /\ sent'[s] = <<>> /\ messages'[s] = <<>>
    BY <1>1, <1>3, <1>4, <1>5 DEF Unasked
  <2>2. CASE one.plan = Streaming!Hit(stream[s].single) /\ one.answer = cached /\ cached # None
    <3>1. one.plan \in {<<"open">> \o HitAsk, HitAsk}
      BY <1>3, <2>2, PlansOfTurns
    <3>2. Hitting(s)'
      BY <1>4, <1>5, <2>1, <2>2, <3>1 DEF Hitting
    <3> QED BY <3>2 DEF Underway
  <2>3. CASE one.plan = Streaming!Miss(stream[s].single) /\ one.answer = None
    <3>1. one.plan \in {<<"open">> \o MissMeta, MissMeta}
      BY <1>3, <2>3, PlansOfTurns
    <3>2. Generating(s)'
      BY <1>4, <1>5, <2>1, <2>3, <3>1 DEF Generating
    <3> QED BY <3>2 DEF Underway
  <2>4. CASE one.plan = OnlyDone /\ one.answer = None
    BY <1>5, <2>1, <2>4 DEF Refused, Untold, Underway
  <2> QED
    BY <1>4, <2>2, <2>3, <2>4
<1>7. gone' \subseteq Pair /\ opened' \subseteq Pair
  BY <1>1 DEF StreamInv, StreamKinds
<1> QED
  BY <1>1, <1>3, <1>4, <1>6, <1>7, TurnGoesOn

\* What a turn is when only what is left to do changed.
LEMMA Followed ==
  ASSUME StreamInv, NEW s \in Pair, Streaming!Running(s), NEW plan \in Seq(Streaming!Steps),
         Streaming!Follow(s, plan)
  PROVE  \E one \in Streaming!Turns :
           /\ stream' = [stream EXCEPT ![s] = one] /\ stream'[s] = one /\ one.plan = plan
           /\ one.answer = stream[s].answer /\ one.tokens = stream[s].tokens
           /\ one.faulty = stream[s].faulty
<1> DEFINE one == [stream[s] EXCEPT !.plan = plan]
<1>1. stream' = [stream EXCEPT ![s] = one]
  BY DEF Streaming!Follow
<1>2. stream'[s] = one
  BY <1>1 DEF StreamInv, StreamKinds
<1>3. /\ one \in Streaming!Turns /\ one.plan = plan
      /\ one.answer = stream[s].answer /\ one.tokens = stream[s].tokens
      /\ one.faulty = stream[s].faulty
  BY AtWork DEF Streaming!Turns
<1> QED
  BY <1>1, <1>2, <1>3

\* A turn without a conversation opens one.
LEMMA Opens ==
  ASSUME StreamInv, NEW s \in Pair, Streaming!Open(s)
  PROVE  StreamInv'
<1>1. /\ Streaming!Running(s) /\ Streaming!Step(s) = "open"
      /\ opened' = opened \cup {s} /\ Streaming!Follow(s, Tail(stream[s].plan))
      /\ UNCHANGED <<sent, gone, ended, messages, cached, s_faults>>
  BY DEF Streaming!Open, Streaming!At, Streaming!Proceed
<1>2. \/ Hitting(s) /\ stream[s].plan = <<"open">> \o HitAsk /\ Tail(stream[s].plan) = HitAsk
      \/ Generating(s) /\ stream[s].plan = <<"open">> \o MissMeta /\ Tail(stream[s].plan) = MissMeta
  <2>1. \/ Hitting(s) /\ stream[s].plan = <<"open">> \o HitAsk
        \/ Generating(s) /\ stream[s].plan = <<"open">> \o MissMeta
    BY <1>1, AtStep
  <2> QED
    BY <2>1, LaterSteps
<1>3. PICK plan \in Seq(Streaming!Steps) : plan = Tail(stream[s].plan)
  BY <1>2, PlansOfSteps
<1>4. PICK one \in Streaming!Turns :
        /\ stream' = [stream EXCEPT ![s] = one] /\ stream'[s] = one /\ one.plan = plan
        /\ one.answer = stream[s].answer /\ one.tokens = stream[s].tokens
        /\ one.faulty = stream[s].faulty
  BY <1>1, <1>3, Followed
<1>5. Underway(s)' /\ ~Stored(s)
  <2>1. CASE Hitting(s) /\ stream[s].plan = <<"open">> \o HitAsk /\ Tail(stream[s].plan) = HitAsk
    <3>1. /\ stream[s].plan \notin {HitReply, HitMeta, HitText, OnlyDone, StoreRedis, <<>>}
      BY <2>1, FirstSteps, PlansGoOn
    <3>2. sent[s] = <<>> /\ Unasked(s) /\ stream[s].answer # None /\ stream[s].tokens = 0
      BY <2>1, <3>1 DEF Hitting
    <3>3. Hitting(s)'
      BY <1>1, <1>3, <1>4, <2>1, <3>2 DEF Hitting, Unasked
    <3> QED
      BY <3>1, <3>3 DEF Underway, Stored
  <2>2. CASE Generating(s) /\ stream[s].plan = <<"open">> \o MissMeta /\ Tail(stream[s].plan) = MissMeta
    <3>1. /\ stream[s].plan \notin {MissStream, OnlyDone, StoreRedis, <<>>}
      BY <2>2, FirstSteps, PlansGoOn
    <3>2. sent[s] = <<>> /\ Unasked(s) /\ stream[s].answer = None /\ stream[s].tokens = 0
      BY <2>2, <3>1 DEF Generating
    <3>3. Generating(s)'
      BY <1>1, <1>3, <1>4, <2>2, <3>2 DEF Generating, Unasked
    <3> QED
      BY <3>1, <3>3 DEF Underway, Stored
  <2> QED
    BY <1>2, <2>1, <2>2
<1>6. gone' \subseteq Pair /\ opened' \subseteq Pair
  BY <1>1 DEF StreamInv, StreamKinds
<1> QED
  BY <1>1, <1>4, <1>5, <1>6, TurnGoesOn

\* A stream that breaks has saved nothing.
LEMMA Breaks ==
  ASSUME StreamInv, NEW s \in Pair, Streaming!Running(s), Streaming!Break(s),
         UNCHANGED <<stream, gone, opened, messages, cached>>,
         messages[s] = <<>>, ~Stored(s),
         sent[s] = <<>> \/ \E n \in 0 .. AnswerLength : sent[s] = Told(n)
  PROVE  StreamInv'
<1>1. /\ ended' = [ended EXCEPT ![s] = "broken"]
      /\ sent' = sent \/ sent' = [sent EXCEPT ![s] = Append(@, Streaming!Item("error", Streaming!Has(s)))]
  BY DEF Streaming!Break
<1>2. /\ sent'[s] = sent[s] \/ sent'[s] = Append(sent[s], Streaming!Item("error", Streaming!Has(s)))
      /\ Others(s) /\ ended'[s] = "broken"
  BY <1>1 DEF StreamInv, StreamKinds, Others
<1>3. StreamKinds'
  <2>1. DOMAIN sent' = Pair /\ sent' = [t \in Pair |-> sent'[t]]
    BY <1>1 DEF StreamInv, StreamKinds
  <2>2. ended' \in [Pair -> {"no", "done", "left", "broken"}]
    BY <1>1 DEF StreamInv, StreamKinds
  <2> QED
    BY <2>1, <2>2 DEF StreamInv, StreamKinds
<1>4. Broken(s)'
  <2>1. messages'[s] = <<>>
    OBVIOUS
  <2>2. CASE sent[s] = <<>>
    <3>1. Streaming!Has(s) = 0
      BY <2>2, HasOf
    <3>2. sent'[s] = <<>> \/ sent'[s] = <<Streaming!Item("error", 0)>>
      BY <1>2, <2>2, <3>1
    <3> QED
      BY <2>1, <3>2 DEF Broken
  <2>3. CASE \E n \in 0 .. AnswerLength : sent[s] = Told(n)
    <3>1. PICK n \in 0 .. AnswerLength : sent[s] = Told(n)
      BY <2>3
    <3>2. Streaming!Has(s) = n
      BY <3>1, HasOf, StreamSizes
    <3>3. sent'[s] = Told(n) \/ sent'[s] = Append(Told(n), Streaming!Item("error", n))
      BY <1>2, <3>1, <3>2
    <3> QED
      BY <2>1, <3>3 DEF Broken
  <2> QED
    BY <2>2, <2>3
<1>5. TurnOK(s)'
  <2>1. stream[s] # None
    BY AtWork
  <2> QED
    BY <1>2, <1>4, <2>1 DEF TurnOK
<1>6. CachedOK'
  BY <1>2, CacheStays
<1> QED
  BY <1>2, <1>3, <1>5, <1>6, OthersStay

\* A conversation that cannot be created breaks the stream, or a hit becomes a miss.
LEMMA OpeningFails ==
  ASSUME StreamInv, NEW s \in Pair, Streaming!OpenFails(s)
  PROVE  StreamInv'
<1>1. /\ Streaming!Running(s) /\ Streaming!Step(s) = "open"
      /\ UNCHANGED <<gone, opened, messages, cached>>
  BY DEF Streaming!OpenFails, Streaming!At
<1>2. \/ Hitting(s) /\ stream[s].plan = <<"open">> \o HitAsk
      \/ Generating(s) /\ stream[s].plan = <<"open">> \o MissMeta
  BY <1>1, AtStep
<1>3. sent[s] = <<>> /\ Unasked(s) /\ stream[s].tokens = 0 /\ ~Stored(s)
  <2>1. /\ (<<"open">> \o HitAsk) \notin {HitReply, HitMeta, HitText, OnlyDone, StoreRedis, <<>>}
        /\ (<<"open">> \o MissMeta) \notin {MissStream, OnlyDone, StoreRedis, <<>>}
    <3>1. <<"open">> \o HitAsk # <<>> /\ <<"open">> \o MissMeta # <<>>
      BY PlansGoOn
    <3>2. <<"open">> \o HitAsk \notin {HitReply, HitMeta, HitText, OnlyDone, StoreRedis}
      BY FirstSteps
    <3>3. <<"open">> \o MissMeta \notin {MissStream, OnlyDone, StoreRedis}
      BY FirstSteps
    <3> QED
      BY <3>1, <3>2, <3>3
  <2> QED
    BY <1>2, <2>1 DEF Hitting, Generating, Stored
<1>4. gone' \subseteq Pair /\ opened' \subseteq Pair
  BY <1>1 DEF StreamInv, StreamKinds
<1>5. CASE /\ stream' = [stream EXCEPT ![s].plan = Streaming!Miss(TRUE), ![s].layer = None,
                                       ![s].answer = None]
           /\ UNCHANGED <<ended, sent>>
  <2> DEFINE one == [stream[s] EXCEPT !.plan = Streaming!Miss(TRUE), !.layer = None, !.answer = None]
  <2>1. stream' = [stream EXCEPT ![s] = one]
    BY <1>5
  <2>2. stream'[s] = one
    BY <2>1 DEF StreamInv, StreamKinds
  <2>3. Streaming!Miss(TRUE) = <<"open">> \o MissMeta /\ Streaming!Miss(TRUE) \in Seq(Streaming!Steps)
    BY PlansOfTurns, PlansOfSteps
  <2>4. /\ one \in Streaming!Turns /\ one.plan = <<"open">> \o MissMeta /\ one.answer = None
        /\ one.tokens = stream[s].tokens /\ one.faulty = stream[s].faulty
    BY <1>1, <2>3, AtWork DEF Streaming!Turns
  <2>5. Generating(s)'
    BY <1>1, <1>3, <1>5, <2>2, <2>4 DEF Generating, Unasked
  <2> HIDE DEF one
  <2> QED
    BY <1>1, <1>3, <1>4, <1>5, <2>1, <2>4, <2>5, TurnGoesOn DEF Underway
<1>6. CASE Streaming!Break(s) /\ UNCHANGED stream
  BY <1>1, <1>3, <1>6, Breaks DEF Unasked
<1> QED
  BY <1>5, <1>6 DEF Streaming!OpenFails

\* So does one that cannot be looked up, or whose model breaks off.
LEMMA BreaksOff ==
  ASSUME StreamInv, NEW s \in Pair, Streaming!BreakOff(s)
  PROVE  StreamInv'
<1>1. /\ Streaming!Running(s) /\ Streaming!Step(s) \in {"look", "stream"} /\ Streaming!Break(s)
      /\ UNCHANGED <<stream, gone, opened, messages, cached, s_faults>>
  BY DEF Streaming!BreakOff, Streaming!At
<1>2. Generating(s) /\ stream[s].plan \in {<<"look">>, MissStream}
  BY <1>1, AtStep
<1>3. stream[s].tokens \in 0 .. AnswerLength
  BY <1>1, AtWork
<1>4. stream[s].plan \notin {StoreRedis, OnlyDone, <<>>}
  <2>1. stream[s].plan # <<>>
    BY <1>2, PlansGoOn
  <2>2. <<"look">> \notin {StoreRedis, OnlyDone} /\ MissStream \notin {StoreRedis, OnlyDone}
    BY FirstSteps
  <2> QED
    BY <1>2, <2>1, <2>2
<1>5. Unasked(s) /\ (sent[s] = <<>> \/ sent[s] = Told(stream[s].tokens))
  BY <1>2 DEF Generating
<1> QED
  BY <1>1, <1>3, <1>4, <1>5, Breaks DEF Unasked, Stored

\* What was sent and saved when a stream has come to a step.
LEMMA AtPlan ==
  ASSUME NEW s \in Pair
  PROVE  /\ Hitting(s) =>
              /\ stream[s].plan = HitAsk => sent[s] = <<>> /\ Unasked(s)
              /\ stream[s].plan = HitReply => sent[s] = <<>> /\ HalfKept(s)
              /\ stream[s].plan = HitMeta => sent[s] = <<>> /\ Kept(s)
              /\ stream[s].plan = HitText => sent[s] = Told(0) /\ Kept(s)
              /\ stream[s].plan = OnlyDone => sent[s] = ToldAtOnce /\ Kept(s)
         /\ Generating(s) =>
              /\ stream[s].plan = MissMeta => sent[s] = <<>> /\ stream[s].tokens = 0
              /\ stream[s].plan = MissStream => sent[s] = Told(stream[s].tokens)
              /\ stream[s].plan # OnlyDone
         /\ Arrived(s) =>
              /\ stream[s].plan = MissAsk => Unasked(s)
              /\ stream[s].plan = MissReply => HalfKept(s)
              /\ stream[s].plan \in {MissGate, Streaming!Storing, StoreRedis, OnlyDone} => Kept(s)
<1>1. /\ HitAsk \notin {HitReply, HitMeta, HitText, OnlyDone}
      /\ HitReply \notin {HitMeta, HitText, OnlyDone}
      /\ HitMeta \notin {HitText, OnlyDone} /\ HitText # OnlyDone
      /\ <<"open">> \o HitAsk \notin {HitReply, HitMeta, HitText, OnlyDone}
      /\ MissAsk \notin {MissReply, MissGate, Streaming!Storing, StoreRedis, OnlyDone}
      /\ MissReply \notin {MissGate, Streaming!Storing, StoreRedis, OnlyDone}
      /\ MissStream \notin {<<"look">>, <<"open">> \o MissMeta, MissMeta}
      /\ OnlyDone \notin {<<"look">>, <<"open">> \o MissMeta, MissMeta, MissStream}
  <2>1. HitAsk \notin {HitReply, HitMeta, HitText, OnlyDone}
    BY FirstSteps
  <2>2. HitReply \notin {HitMeta, HitText, OnlyDone}
    BY FirstSteps
  <2>3. HitMeta \notin {HitText, OnlyDone} /\ HitText # OnlyDone
    BY FirstSteps
  <2>4. <<"open">> \o HitAsk \notin {HitReply, HitMeta, HitText, OnlyDone}
    BY FirstSteps
  <2>5. MissAsk \notin {MissReply, MissGate, Streaming!Storing, StoreRedis, OnlyDone}
    BY FirstSteps
  <2>6. MissReply \notin {MissGate, Streaming!Storing, StoreRedis, OnlyDone}
    BY FirstSteps
  <2>7. MissStream \notin {<<"look">>, <<"open">> \o MissMeta, MissMeta}
    BY FirstSteps
  <2>8. OnlyDone \notin {<<"look">>, <<"open">> \o MissMeta, MissMeta, MissStream}
    BY FirstSteps
  <2> QED
    BY <2>1, <2>2, <2>3, <2>4, <2>5, <2>6, <2>7, <2>8
<1>2. ASSUME Hitting(s)
      PROVE  /\ stream[s].plan = HitAsk => sent[s] = <<>> /\ Unasked(s)
             /\ stream[s].plan = HitReply => sent[s] = <<>> /\ HalfKept(s)
             /\ stream[s].plan = HitMeta => sent[s] = <<>> /\ Kept(s)
             /\ stream[s].plan = HitText => sent[s] = Told(0) /\ Kept(s)
             /\ stream[s].plan = OnlyDone => sent[s] = ToldAtOnce /\ Kept(s)
  <2>1. CASE stream[s].plan \in {<<"open">> \o HitAsk, HitAsk} /\ sent[s] = <<>> /\ Unasked(s)
    BY <1>1, <2>1
  <2>2. CASE stream[s].plan = HitReply /\ sent[s] = <<>> /\ HalfKept(s)
    BY <1>1, <2>2
  <2>3. CASE stream[s].plan = HitMeta /\ sent[s] = <<>> /\ Kept(s)
    BY <1>1, <2>3
  <2>4. CASE stream[s].plan = HitText /\ sent[s] = Told(0) /\ Kept(s)
    BY <1>1, <2>4
  <2>5. CASE stream[s].plan = OnlyDone /\ sent[s] = ToldAtOnce /\ Kept(s)
    BY <1>1, <2>5
  <2> QED
    BY <1>2, <2>1, <2>2, <2>3, <2>4, <2>5 DEF Hitting
<1>3. Generating(s) =>
              /\ stream[s].plan = MissMeta => sent[s] = <<>> /\ stream[s].tokens = 0
              /\ stream[s].plan = MissStream => sent[s] = Told(stream[s].tokens)
              /\ stream[s].plan # OnlyDone
  BY <1>1 DEF Generating
<1>4. ASSUME Arrived(s)
      PROVE  /\ stream[s].plan = MissAsk => Unasked(s)
             /\ stream[s].plan = MissReply => HalfKept(s)
             /\ stream[s].plan \in {MissGate, Streaming!Storing, StoreRedis, OnlyDone} => Kept(s)
  <2>1. CASE stream[s].plan = MissAsk /\ Unasked(s)
    BY <1>1, <2>1
  <2>2. CASE stream[s].plan = MissReply /\ HalfKept(s)
    BY <1>1, <2>2
  <2>3. CASE stream[s].plan \in {MissGate, Streaming!Storing, StoreRedis, OnlyDone} /\ Kept(s)
    BY <1>1, <2>3
  <2> QED
    BY <1>4, <2>1, <2>2, <2>3 DEF Arrived
<1> QED
  BY <1>2, <1>3, <1>4

\* It has stored nothing before the last step but one.
LEMMA NotYetStored ==
  ASSUME NEW s \in Pair,
         stream[s].plan \in {HitAsk, HitReply, HitMeta, HitText, MissMeta, MissStream, MissAsk,
                             MissReply, MissGate, Streaming!Storing}
  PROVE  ~Stored(s)
<1>1. stream[s].plan[1] \in {"ask", "reply", "meta", "text", "stream", "gate", "table"}
  BY FirstSteps
<1>2. stream[s].plan # <<>>
  BY PlansGoOn
<1> QED
  BY <1>1, <1>2, FirstSteps DEF Stored

\* The question is saved, and then the answer.
LEMMA Saves ==
  ASSUME StreamInv, NEW s \in Pair, NEW step \in {"ask", "reply"}, Streaming!Save(s, step)
  PROVE  StreamInv'
<1>1. /\ Streaming!Running(s) /\ Streaming!Step(s) = step
      /\ Streaming!Follow(s, Tail(stream[s].plan))
      /\ messages' = [messages EXCEPT ![s] = Append(@, Streaming!Message(s, step))]
      /\ UNCHANGED <<sent, gone, ended, opened, cached, s_faults>>
  BY DEF Streaming!Save, Streaming!At, Streaming!Proceed
<1>2. \/ step = "ask" /\ Hitting(s) /\ stream[s].plan = HitAsk /\ Tail(stream[s].plan) = HitReply
      \/ step = "ask" /\ Arrived(s) /\ stream[s].plan = MissAsk /\ Tail(stream[s].plan) = MissReply
      \/ step = "reply" /\ Hitting(s) /\ stream[s].plan = HitReply /\ Tail(stream[s].plan) = HitMeta
      \/ step = "reply" /\ Arrived(s) /\ stream[s].plan = MissReply /\ Tail(stream[s].plan) = MissGate
  <2>1. \/ step = "ask" /\ Hitting(s) /\ stream[s].plan = HitAsk
        \/ step = "ask" /\ Arrived(s) /\ stream[s].plan = MissAsk
        \/ step = "reply" /\ Hitting(s) /\ stream[s].plan = HitReply
        \/ step = "reply" /\ Arrived(s) /\ stream[s].plan = MissReply
    BY <1>1, AtStep
  <2> QED
    BY <2>1, LaterSteps
<1>3. PICK plan \in Seq(Streaming!Steps) : plan = Tail(stream[s].plan)
  BY <1>2, PlansOfSteps
<1>4. PICK one \in Streaming!Turns :
        /\ stream' = [stream EXCEPT ![s] = one] /\ stream'[s] = one /\ one.plan = plan
        /\ one.answer = stream[s].answer /\ one.tokens = stream[s].tokens
        /\ one.faulty = stream[s].faulty
  BY <1>1, <1>3, Followed
<1>5. PICK kept : kept = Append(messages[s], Streaming!Message(s, step))
  OBVIOUS
<1>6. messages' = [messages EXCEPT ![s] = kept] /\ messages'[s] = kept /\ sent' = [sent EXCEPT ![s] = sent[s]]
  BY <1>1, <1>5 DEF StreamInv, StreamKinds
<1>7. ASSUME step = "ask" PROVE Underway(s)'
  <2>1. messages[s] = <<>> /\ ~stream[s].faulty
    BY <1>2, <1>7, AtPlan DEF Unasked
  <2>2. Streaming!Message(s, step) = Question
    BY <1>7 DEF Streaming!Message, Question
  <2>3. kept = <<Question>>
    BY <1>5, <2>1, <2>2
  <2>4. HalfKept(s)'
    BY <1>4, <1>6, <2>1, <2>3 DEF HalfKept, Question
  <2>5. CASE Hitting(s) /\ stream[s].plan = HitAsk /\ Tail(stream[s].plan) = HitReply
    <3>1. Hitting(s)'
      BY <1>1, <1>3, <1>4, <2>4, <2>5, AtPlan DEF Hitting
    <3> QED
      BY <3>1 DEF Underway
  <2>6. CASE Arrived(s) /\ stream[s].plan = MissAsk /\ Tail(stream[s].plan) = MissReply
    <3>1. Arrived(s)'
      BY <1>1, <1>3, <1>4, <2>4, <2>6 DEF Arrived
    <3> QED
      BY <3>1 DEF Underway
  <2> QED
    BY <1>2, <1>7, <2>5, <2>6
<1>8. ASSUME step = "reply" PROVE Underway(s)'
  <2>1. messages[s] = <<Question>> /\ ~stream[s].faulty
    BY <1>2, <1>8, AtPlan DEF HalfKept
  <2>2. Streaming!Message(s, step) = Reply(s)
    BY <1>8 DEF Streaming!Message, Reply
  <2>3. kept = <<Question, Reply(s)>>
    <3> DEFINE both == [i \in 1 .. 2 |-> IF i = 1 THEN Question ELSE Reply(s)]
    <3>1. Append(<<Question>>, Reply(s)) = both /\ <<Question, Reply(s)>> = both
      OBVIOUS
    <3> QED
      BY <1>5, <2>1, <2>2, <3>1
  <2>4. Kept(s)'
    BY <1>4, <1>6, <2>3 DEF Kept, Question, Reply
  <2>5. CASE Hitting(s) /\ stream[s].plan = HitReply /\ Tail(stream[s].plan) = HitMeta
    <3>1. Hitting(s)'
      BY <1>1, <1>3, <1>4, <2>4, <2>5, AtPlan DEF Hitting
    <3> QED
      BY <3>1 DEF Underway
  <2>6. CASE Arrived(s) /\ stream[s].plan = MissReply /\ Tail(stream[s].plan) = MissGate
    <3>1. Arrived(s)'
      BY <1>1, <1>3, <1>4, <2>4, <2>6 DEF Arrived
    <3> QED
      BY <3>1 DEF Underway
  <2> QED
    BY <1>2, <1>8, <2>5, <2>6
<1>9. ~Stored(s)
  BY <1>2, NotYetStored
<1>10. gone' \subseteq Pair /\ opened' \subseteq Pair /\ step \in {"ask", "reply"}
  BY <1>1 DEF StreamInv, StreamKinds
<1> QED
  BY <1>1, <1>4, <1>6, <1>7, <1>8, <1>9, <1>10, TurnChanges

\* A failure to save is remembered, and the rest is as if it had been saved.
LEMMA SavingFails ==
  ASSUME StreamInv, NEW s \in Pair, Streaming!SaveFails(s)
  PROVE  StreamInv'
<1>1. /\ Streaming!Running(s) /\ Streaming!Step(s) \in {"ask", "reply"}
      /\ stream' = [stream EXCEPT ![s].faulty = TRUE, ![s].plan = Streaming!AfterReply(@)]
      /\ UNCHANGED <<sent, gone, ended, opened, messages, cached>>
  BY DEF Streaming!SaveFails
<1>2. \/ Hitting(s) /\ stream[s].plan \in {HitAsk, HitReply}
      \/ Arrived(s) /\ stream[s].plan \in {MissAsk, MissReply}
  BY <1>1, AtStep
<1>3. PICK plan \in {HitMeta, MissGate} :
        /\ plan = Streaming!AfterReply(stream[s].plan)
        /\ \/ Hitting(s) /\ stream[s].plan \in {HitAsk, HitReply} /\ plan = HitMeta
           \/ Arrived(s) /\ plan = MissGate
  <2>1. /\ Streaming!AfterReply(HitAsk) = HitMeta /\ Streaming!AfterReply(HitReply) = HitMeta
        /\ Streaming!AfterReply(MissAsk) = MissGate /\ Streaming!AfterReply(MissReply) = MissGate
    <3>1. /\ Head(HitAsk) = "ask" /\ Head(HitReply) = "reply"
          /\ Head(MissAsk) = "ask" /\ Head(MissReply) = "reply"
      BY DEF HitAsk, HitReply, MissAsk, MissReply
    <3> QED
      BY <3>1, LaterSteps DEF Streaming!AfterReply
  <2> QED
    BY <1>2, <2>1
<1>4. plan \in Seq(Streaming!Steps)
  BY PlansOfSteps
<1> DEFINE one == [stream[s] EXCEPT !.faulty = TRUE, !.plan = plan]
<1>5. /\ one \in Streaming!Turns /\ one.plan = plan /\ one.answer = stream[s].answer
      /\ one.tokens = stream[s].tokens /\ one.faulty = TRUE
  <2>1. stream[s] \in Streaming!Turns
    BY <1>1, AtWork
  <2>2. one \in Streaming!Turns
    BY <1>4, <2>1 DEF Streaming!Turns
  <2>3. /\ one.plan = plan /\ one.answer = stream[s].answer
        /\ one.tokens = stream[s].tokens /\ one.faulty = TRUE
    BY <2>1 DEF Streaming!Turns
  <2> QED
    BY <2>2, <2>3
<1>6. stream' = [stream EXCEPT ![s] = one]
  BY <1>1, <1>3
<1>7. stream'[s] = one
  BY <1>6 DEF StreamInv, StreamKinds
<1> HIDE DEF one
<1>8. messages[s] \in {<<>>, <<Question>>}
  BY <1>2, AtPlan DEF Unasked, HalfKept
<1>9. Kept(s)'
  BY <1>1, <1>5, <1>7, <1>8 DEF Kept, Question
<1>10. Underway(s)'
  <2>1. CASE Hitting(s) /\ stream[s].plan \in {HitAsk, HitReply} /\ plan = HitMeta
    <3>1. Hitting(s)'
      BY <1>1, <1>5, <1>7, <1>9, <2>1, AtPlan DEF Hitting
    <3> QED
      BY <3>1 DEF Underway
  <2>2. CASE Arrived(s) /\ plan = MissGate
    <3>1. Arrived(s)'
      BY <1>1, <1>5, <1>7, <1>9, <2>2 DEF Arrived
    <3> QED
      BY <3>1 DEF Underway
  <2> QED
    BY <1>3, <2>1, <2>2
<1>11. ~Stored(s)
  BY <1>2, NotYetStored
<1>12. gone' \subseteq Pair /\ opened' \subseteq Pair
  BY <1>1 DEF StreamInv, StreamKinds
<1> QED
  BY <1>1, <1>5, <1>6, <1>10, <1>11, <1>12, TurnGoesOn

\* The answer is what has arrived when the model is done.
LEMMA Completes ==
  ASSUME StreamInv, NEW s \in Pair, Streaming!Complete(s)
  PROVE  StreamInv'
<1>1. /\ Streaming!Running(s) /\ Streaming!Step(s) = "stream" /\ stream[s].tokens = AnswerLength
      /\ stream' = [stream EXCEPT ![s].answer = [by |-> s, length |-> stream[s].tokens],
                                  ![s].plan = Tail(@)]
      /\ UNCHANGED <<sent, gone, ended, opened, messages, cached, s_faults>>
  BY DEF Streaming!Complete, Streaming!At
<1>2. Generating(s) /\ stream[s].plan = MissStream /\ Tail(stream[s].plan) = MissAsk
  <2>1. Generating(s) /\ stream[s].plan = MissStream
    BY <1>1, AtStep
  <2> QED
    BY <2>1, LaterSteps
<1> DEFINE whole == [by |-> s, length |-> AnswerLength]
           one == [stream[s] EXCEPT !.answer = whole, !.plan = MissAsk]
<1>3. stream' = [stream EXCEPT ![s] = one]
  BY <1>1, <1>2
<1>4. stream'[s] = one
  BY <1>3 DEF StreamInv, StreamKinds
<1>5. whole \in [by : Pair, length : {AnswerLength}] /\ MissAsk \in Seq(Streaming!Steps)
  BY PlansOfSteps
<1>6. /\ one \in Streaming!Turns /\ one.plan = MissAsk /\ one.answer = whole
      /\ one.faulty = stream[s].faulty
  <2> HIDE DEF whole
  <2>1. stream[s] \in Streaming!Turns
    BY <1>1, AtWork
  <2>2. one \in Streaming!Turns
    BY <1>5, <2>1 DEF Streaming!Turns
  <2>3. one.plan = MissAsk /\ one.answer = whole /\ one.faulty = stream[s].faulty
    BY <2>1 DEF Streaming!Turns
  <2> QED
    BY <2>2, <2>3
<1> HIDE DEF one
<1>7. sent[s] = Told(AnswerLength) /\ Unasked(s)
  BY <1>1, <1>2, AtPlan DEF Generating
<1>8. Arrived(s)'
  BY <1>1, <1>4, <1>6, <1>7 DEF Arrived, Unasked
<1>9. ~Stored(s)
  BY <1>2, NotYetStored
<1>10. gone' \subseteq Pair /\ opened' \subseteq Pair
  BY <1>1 DEF StreamInv, StreamKinds
<1> QED
  BY <1>1, <1>3, <1>6, <1>8, <1>9, <1>10, TurnGoesOn DEF Underway

\* The answer may be cached or not.
LEMMA Gated ==
  ASSUME StreamInv, NEW s \in Pair, Streaming!Gate(s)
  PROVE  StreamInv'
<1>1. PICK plan \in {Streaming!Storing, OnlyDone} : Streaming!Follow(s, plan)
  BY DEF Streaming!Gate, OnlyDone
<1>2. /\ Streaming!Running(s) /\ Streaming!Step(s) = "gate"
      /\ UNCHANGED <<sent, gone, ended, opened, messages, cached, s_faults>>
  BY DEF Streaming!Gate, Streaming!At
<1>3. Arrived(s) /\ stream[s].plan = MissGate /\ Kept(s)
  BY <1>2, AtStep, AtPlan
<1>4. plan \in Seq(Streaming!Steps)
  BY PlansOfSteps
<1>5. PICK one \in Streaming!Turns :
        /\ stream' = [stream EXCEPT ![s] = one] /\ stream'[s] = one /\ one.plan = plan
        /\ one.answer = stream[s].answer /\ one.tokens = stream[s].tokens
        /\ one.faulty = stream[s].faulty
  BY <1>1, <1>2, <1>4, Followed
<1>6. Kept(s)'
  BY <1>2, <1>3, <1>5 DEF Kept, Question, Reply
<1>7. Arrived(s)'
  BY <1>2, <1>3, <1>5, <1>6 DEF Arrived
<1>8. ~Stored(s)
  BY <1>3, NotYetStored
<1>9. gone' \subseteq Pair /\ opened' \subseteq Pair
  BY <1>2 DEF StreamInv, StreamKinds
<1> QED
  BY <1>2, <1>5, <1>7, <1>8, <1>9, TurnGoesOn DEF Underway

\* What is stored is what was shown and kept; a failure to store it is forgiven.
LEMMA Stores ==
  ASSUME StreamInv, NEW s \in Pair, Streaming!Store(s)
  PROVE  StreamInv'
<1>1. /\ Streaming!Running(s) /\ Streaming!Step(s) \in {"table", "redis"}
      /\ Streaming!Follow(s, Tail(stream[s].plan))
      /\ UNCHANGED <<sent, gone, ended, opened, messages>>
      /\ cached' \in {cached, stream[s].answer}
  BY DEF Streaming!Store, Streaming!At, Streaming!Proceed
<1>2. /\ Arrived(s) /\ stream[s].plan \in {Streaming!Storing, StoreRedis} /\ Kept(s)
      /\ Tail(stream[s].plan) \in {StoreRedis, OnlyDone}
  <2>1. Arrived(s) /\ stream[s].plan \in {Streaming!Storing, StoreRedis}
    BY <1>1, AtStep
  <2>2. Kept(s)
    BY <2>1, AtPlan
  <2> QED
    BY <2>1, <2>2, LaterSteps
<1>3. PICK plan \in Seq(Streaming!Steps) : plan = Tail(stream[s].plan)
  BY <1>2, PlansOfSteps
<1>4. PICK one \in Streaming!Turns :
        /\ stream' = [stream EXCEPT ![s] = one] /\ stream'[s] = one /\ one.plan = plan
        /\ one.answer = stream[s].answer /\ one.tokens = stream[s].tokens
        /\ one.faulty = stream[s].faulty
  BY <1>1, <1>3, Followed
<1>5. Kept(s)' /\ Streaming!Has(s)' = Streaming!Has(s)
  BY <1>1, <1>2, <1>4 DEF Kept, Question, Reply, Streaming!Has, Last
<1>6. Arrived(s)'
  BY <1>1, <1>2, <1>3, <1>4, <1>5 DEF Arrived
<1>7. Others(s) /\ one # None /\ ended[s] = "no"
  BY <1>1, <1>4, AtWork, StreamSizes DEF Others, StreamInv, StreamKinds
<1>8. StreamKinds'
  BY <1>1, <1>4 DEF StreamInv, StreamKinds
<1>9. TurnOK(s)'
  BY <1>1, <1>4, <1>6, <1>7 DEF TurnOK, Underway
<1>10. CachedOK'
  <2>1. CASE cached' = cached
    BY <1>1, <1>2, <1>3, <1>4, <1>5, <1>7, <2>1, CacheStays DEF Stored
  <2>2. CASE cached' = stream[s].answer
    <3>1. Streaming!Has(s) = AnswerLength
      BY <1>2, HasOf, StreamSizes DEF Arrived
    <3>2. cached' = [by |-> s, length |-> AnswerLength]
      BY <1>2, <2>2 DEF Arrived
    <3> QED
      BY <1>2, <1>3, <1>4, <1>5, <1>7, <2>2, <3>1, <3>2 DEF CachedOK
  <2> QED
    BY <1>1, <2>1, <2>2
<1> QED
  BY <1>7, <1>8, <1>9, <1>10, OthersStay

\* A stream whose client leaves stays as it is, whether it goes on or not.
LEMMA Left ==
  ASSUME StreamInv, NEW s \in Pair, Streaming!Running(s),
         UNCHANGED <<stream, sent, opened, messages, cached>>, gone' \subseteq Pair,
         ended' = ended \/ ended' = [ended EXCEPT ![s] = "left"]
  PROVE  StreamInv'
<1>1. Others(s) /\ ended'[s] \in {"no", "left"} /\ ended[s] = "no" /\ stream[s] # None
  BY AtWork DEF StreamInv, StreamKinds, Others
<1>2. StreamKinds'
  BY DEF StreamInv, StreamKinds
<1>3. Underway(s)'
  <2>1. Underway(s)
    BY AtWork
  <2> QED
    BY <2>1 DEF Underway, Hitting, Generating, Arrived, Refused, Untold, Unasked, HalfKept, Kept,
       Reply
<1>4. TurnOK(s)'
  BY <1>1, <1>3 DEF TurnOK
<1>5. CachedOK'
  <2>1. Streaming!Has(s)' = Streaming!Has(s)
    BY DEF Streaming!Has, Last
  <2> QED
    BY <1>1, <2>1, CacheStays DEF Stored
<1> QED
  BY <1>1, <1>2, <1>4, <1>5, OthersStay

\* Tokens go out one by one, and are counted.
LEMMA TokenGoesOut ==
  ASSUME StreamInv, NEW s \in Pair, Streaming!Token(s)
  PROVE  StreamInv'
<1>1. /\ Streaming!Running(s) /\ Streaming!Step(s) = "stream" /\ stream[s].tokens < AnswerLength
      /\ UNCHANGED <<gone, opened, messages, cached, s_faults>>
  BY DEF Streaming!Token, Streaming!At
<1>2. Generating(s) /\ stream[s].plan = MissStream
  BY <1>1, AtStep
<1>3. gone' \subseteq Pair /\ opened' \subseteq Pair
  BY <1>1 DEF StreamInv, StreamKinds
<1>4. CASE ended' = [ended EXCEPT ![s] = "left"] /\ UNCHANGED <<stream, sent>>
  BY <1>1, <1>3, <1>4, Left
<1>5. CASE /\ stream' = [stream EXCEPT ![s].tokens = @ + 1] /\ UNCHANGED ended
           /\ sent' = [sent EXCEPT ![s] = Append(@, Streaming!Item("text", stream[s].tokens + 1))]
  <2>1. stream[s].tokens \in 0 .. AnswerLength /\ stream[s].tokens \in Nat /\ stream[s].tokens + 1 \in 0 .. AnswerLength
    BY <1>1, AtWork, StreamSizes
  <2> DEFINE one == [stream[s] EXCEPT !.tokens = stream[s].tokens + 1]
  <2>2. stream' = [stream EXCEPT ![s] = one]
    BY <1>5
  <2>3. stream'[s] = one
    BY <2>2 DEF StreamInv, StreamKinds
  <2>4. /\ one \in Streaming!Turns /\ one.plan = stream[s].plan /\ one.answer = stream[s].answer
        /\ one.tokens = stream[s].tokens + 1 /\ one.faulty = stream[s].faulty
    BY <1>1, <2>1, AtWork DEF Streaming!Turns
  <2> HIDE DEF one
  <2>5. sent[s] = Told(stream[s].tokens) /\ stream[s].answer = None /\ Unasked(s)
    BY <1>2, AtPlan DEF Generating
  <2>6. Append(sent[s], Streaming!Item("text", stream[s].tokens + 1)) = Told(stream[s].tokens + 1)
    BY <2>1, <2>5, ToldNext
  <2>7. sent' = [sent EXCEPT ![s] = Told(stream[s].tokens + 1)]
    BY <1>5, <2>6
  <2>8. sent'[s] = Told(stream[s].tokens + 1) /\ messages' = [messages EXCEPT ![s] = messages[s]]
    BY <1>1, <2>7 DEF StreamInv, StreamKinds
  <2>9. sent'[s] = Told(one.tokens)
    BY <2>4, <2>8
  <2>10. Generating(s)'
    BY <1>1, <1>2, <2>3, <2>4, <2>5, <2>9 DEF Generating, Unasked
  <2>11. PICK items, kept : sent' = [sent EXCEPT ![s] = items] /\ messages' = [messages EXCEPT ![s] = kept]
    BY <2>7, <2>8
  <2>12. Streaming!Running(s) /\ ended' = ended /\ cached' = cached /\ Underway(s)'
    BY <1>1, <1>5, <2>10 DEF Underway
  <2>13. one \in Streaming!Turns /\ stream[s].answer = None
    BY <2>4, <2>5
  <2> QED
    BY <1>3, <2>2, <2>11, <2>12, <2>13, TurnChanges
<1> QED
  BY <1>4, <1>5 DEF Streaming!Token

\* The last item of what was sent.
LEMMA EndOfItems ==
  ASSUME NEW item
  PROVE  /\ <<item>> # <<>> /\ Last(<<item>>) = item
         /\ Append(ToldAtOnce, item) # <<>> /\ Last(Append(ToldAtOnce, item)) = item
         /\ \A n \in Nat : /\ Append(Told(n), item) # <<>>
                           /\ Last(Append(Told(n), item)) = item
         /\ Append(Told(AnswerLength), item) # <<>>
         /\ Last(Append(Told(AnswerLength), item)) = item
<1>1. Append(ToldAtOnce, item) # <<>> /\ Last(Append(ToldAtOnce, item)) = item
  <2>1. Len(ToldAtOnce) = 2 /\ DOMAIN ToldAtOnce = 1 .. 2
    BY DEF ToldAtOnce
  <2>2. Append(ToldAtOnce, item) = [i \in 1 .. 3 |-> IF i <= 2 THEN ToldAtOnce[i] ELSE item]
    BY <2>1 DEF ToldAtOnce
  <2>3. Len(Append(ToldAtOnce, item)) = 3 /\ Append(ToldAtOnce, item)[3] = item
    BY <2>2
  <2> QED
    BY <2>3 DEF Last
<1>2. ASSUME NEW n \in Nat
      PROVE  Append(Told(n), item) # <<>> /\ Last(Append(Told(n), item)) = item
  <2>1. Len(Told(n)) = n + 1 /\ DOMAIN Told(n) = 1 .. n + 1
    BY ToldNext DEF Told
  <2> DEFINE values == {Told(n)[i] : i \in 1 .. n + 1} \cup {item}
  <2>2. Told(n) \in Seq(values)
    <3>1. Told(n) = [i \in 1 .. n + 1 |-> Told(n)[i]]
      BY <2>1 DEF Told
    <3>2. \A i \in 1 .. n + 1 : Told(n)[i] \in values
      OBVIOUS
    <3> HIDE DEF values
    <3> QED
      BY <3>1, <3>2
  <2>3. item \in values
    OBVIOUS
  <2> HIDE DEF values
  <2>4. Len(Append(Told(n), item)) = n + 2 /\ Append(Told(n), item)[n + 2] = item
    BY <2>1, <2>2, <2>3
  <2> QED
    BY <2>4 DEF Last
<1>3. <<item>> # <<>> /\ Last(<<item>>) = item
  BY DEF Last
<1> QED
  BY <1>1, <1>2, <1>3, StreamSizes

\* Sources, the whole answer of a hit, and the end are sent.
LEMMA Emits ==
  ASSUME StreamInv, NEW s \in Pair, Streaming!Emit(s)
  PROVE  StreamInv'
<1> DEFINE Sent(step) == Streaming!Item(step, IF step = "text" THEN stream[s].answer.length
                                              ELSE Streaming!Has(s))
<1>0. PICK step \in {"meta", "text", "done"} :
        Streaming!Running(s) /\ Streaming!Step(s) = step /\ Streaming!Send(s, Sent(step))
  BY DEF Streaming!Emit, Streaming!At
<1>1. PICK item : /\ Streaming!Running(s) /\ Streaming!Step(s) = step /\ Streaming!Send(s, item)
                  /\ item = Streaming!Item(step, IF step = "text" THEN stream[s].answer.length
                                                 ELSE Streaming!Has(s))
  BY <1>0
<1> HIDE DEF Sent
<1>2. UNCHANGED <<gone, opened, messages, cached, s_faults>>
  BY DEF Streaming!Emit
<1>3. gone' \subseteq Pair /\ opened' \subseteq Pair
  BY <1>2 DEF StreamInv, StreamKinds
<1>4. item.type = step /\ item.has = IF step = "text" THEN stream[s].answer.length ELSE Streaming!Has(s)
  BY <1>0, <1>1 DEF Streaming!Item
<1>5. CASE ended' = [ended EXCEPT ![s] = "left"] /\ UNCHANGED <<stream, sent>>
  BY <1>1, <1>2, <1>3, <1>5, Left
<1>6. CASE /\ sent' = [sent EXCEPT ![s] = Append(@, item)]
           /\ Streaming!Follow(s, Tail(stream[s].plan))
           /\ ended' = [ended EXCEPT ![s] = IF item.type = "done" THEN "done" ELSE @]
  <2>1. PICK items : items = Append(sent[s], item)
    OBVIOUS
  <2>2. sent' = [sent EXCEPT ![s] = items] /\ sent'[s] = items
    BY <1>6, <2>1 DEF StreamInv, StreamKinds
  <2>3. \/ step = "meta" /\ Hitting(s) /\ stream[s].plan = HitMeta /\ Tail(stream[s].plan) = HitText
        \/ step = "meta" /\ Generating(s) /\ stream[s].plan = MissMeta /\ Tail(stream[s].plan) = MissStream
        \/ step = "text" /\ Hitting(s) /\ stream[s].plan = HitText /\ Tail(stream[s].plan) = OnlyDone
        \/ step = "done" /\ stream[s].plan = OnlyDone /\ Tail(stream[s].plan) = <<>>
    <3>1. \/ step = "meta" /\ Hitting(s) /\ stream[s].plan = HitMeta
          \/ step = "meta" /\ Generating(s) /\ stream[s].plan = MissMeta
          \/ step = "text" /\ Hitting(s) /\ stream[s].plan = HitText
          \/ step = "done" /\ stream[s].plan = OnlyDone
      BY <1>1, AtStep
    <3> QED
      BY <3>1, LaterSteps
  <2>4. PICK plan \in Seq(Streaming!Steps) : plan = Tail(stream[s].plan)
    BY <2>3, PlansOfSteps
  <2>5. PICK one \in Streaming!Turns :
          /\ stream' = [stream EXCEPT ![s] = one] /\ stream'[s] = one /\ one.plan = plan
          /\ one.answer = stream[s].answer /\ one.tokens = stream[s].tokens
          /\ one.faulty = stream[s].faulty
    BY <1>1, <1>6, <2>4, Followed
  <2>6. messages' = [messages EXCEPT ![s] = messages[s]]
    BY <1>2 DEF StreamInv, StreamKinds
  <2>7. CASE step # "done"
    <3>1. ended' = ended
      BY <1>4, <1>6, <2>7 DEF StreamInv, StreamKinds
    <3>2. ~Stored(s)
      BY <2>3, <2>7, NotYetStored
    <3>3. ASSUME step = "meta" PROVE items = Told(0) /\ sent[s] = <<>>
      <4>1. sent[s] = <<>>
        BY <2>3, <3>3, AtPlan
      <4>2. item = Streaming!Item("meta", 0)
        BY <1>1, <3>3, <4>1, HasOf
      <4> QED
        BY <2>1, <4>1, <4>2, ToldNext
    <3>4. Underway(s)'
      <4>1. CASE step = "meta" /\ Hitting(s) /\ stream[s].plan = HitMeta /\ Tail(stream[s].plan) = HitText
        <5>1. Kept(s) /\ stream[s].answer # None /\ stream[s].tokens = 0
          BY <4>1, AtPlan DEF Hitting
        <5>2. Kept(s)'
          BY <1>2, <2>5, <5>1 DEF Kept, Question, Reply
        <5>3. Hitting(s)'
          BY <2>2, <2>4, <2>5, <3>3, <4>1, <5>1, <5>2 DEF Hitting
        <5> QED BY <5>3 DEF Underway
      <4>2. CASE step = "meta" /\ Generating(s) /\ stream[s].plan = MissMeta /\ Tail(stream[s].plan) = MissStream
        <5>1. stream[s].answer = None /\ Unasked(s) /\ stream[s].tokens = 0
          BY <4>2, AtPlan DEF Generating
        <5>2. sent'[s] = Told(one.tokens)
          BY <2>2, <2>5, <3>3, <4>2, <5>1
        <5>3. Generating(s)'
          BY <1>2, <2>4, <2>5, <4>2, <5>1, <5>2 DEF Generating, Unasked
        <5> QED BY <5>3 DEF Underway
      <4>3. CASE step = "text" /\ Hitting(s) /\ stream[s].plan = HitText /\ Tail(stream[s].plan) = OnlyDone
        <5>1. Kept(s) /\ stream[s].answer # None /\ stream[s].tokens = 0 /\ sent[s] = Told(0)
          BY <4>3, AtPlan DEF Hitting
        <5>2. stream[s].answer.length = AnswerLength
          BY <1>1, <5>1, AtWork DEF Streaming!Turns
        <5>3. sent'[s] = ToldAtOnce
          BY <1>1, <2>1, <2>2, <4>3, <5>1, <5>2, ToldNext
        <5>4. Kept(s)'
          BY <1>2, <2>5, <5>1 DEF Kept, Question, Reply
        <5>5. Hitting(s)'
          BY <2>4, <2>5, <4>3, <5>1, <5>3, <5>4 DEF Hitting
        <5> QED BY <5>5 DEF Underway
      <4> QED
        BY <2>3, <2>7, <4>1, <4>2, <4>3
    <3>5. PICK kept : messages' = [messages EXCEPT ![s] = kept]
      BY <2>6
    <3> QED
      BY <1>1, <1>2, <1>3, <2>2, <2>5, <3>1, <3>2, <3>4, <3>5, TurnChanges
  <2>8. CASE step = "done"
    <3>1. stream[s].plan = OnlyDone /\ plan = <<>> /\ one # None /\ stream[s] # None /\ Underway(s)
      BY <1>1, <2>3, <2>4, <2>8, AtWork, StreamSizes
    <3>2. ended' = [ended EXCEPT ![s] = "done"] /\ ended'[s] = "done"
      BY <1>4, <1>6, <2>8 DEF StreamInv, StreamKinds
    <3>3. Others(s)
      BY <1>2, <2>2, <2>5, <3>2 DEF StreamInv, StreamKinds, Others
    <3>4. item = Streaming!Item("done", Streaming!Has(s))
      BY <1>1, <2>8
    <3>5. \/ Hitting(s) /\ sent[s] = ToldAtOnce /\ Kept(s) /\ stream[s].answer # None
          \/ Arrived(s) /\ sent[s] = Told(AnswerLength) /\ Kept(s) /\ stream[s].answer # None
          \/ stream[s].answer = None /\ sent[s] = <<>> /\ messages[s] = <<>>
      <4>1. ~Generating(s)
        BY <3>1, AtPlan
      <4>2. Hitting(s) => sent[s] = ToldAtOnce /\ Kept(s) /\ stream[s].answer # None
        BY <3>1, AtPlan DEF Hitting
      <4>3. Arrived(s) => sent[s] = Told(AnswerLength) /\ Kept(s) /\ stream[s].answer # None
        BY <3>1, AtPlan, StreamSizes DEF Arrived
      <4>4. Refused(s) => stream[s].answer = None /\ sent[s] = <<>> /\ messages[s] = <<>>
        BY DEF Refused, Untold
      <4> QED
        BY <3>1, <4>1, <4>2, <4>3, <4>4 DEF Underway
    <3>6. Kept(s) => Kept(s)'
      BY <1>2, <2>5 DEF Kept, Question, Reply
    <3>7. Finished(s)'
      <4>1. CASE Hitting(s) /\ sent[s] = ToldAtOnce /\ Kept(s) /\ stream[s].answer # None
        <5>1. sent'[s] = Append(ToldAtOnce, Streaming!Item("done", AnswerLength))
          BY <2>1, <2>2, <3>4, <4>1, HasOf
        <5> QED
          BY <2>5, <3>1, <3>6, <4>1, <5>1 DEF Finished
      <4>2. CASE Arrived(s) /\ sent[s] = Told(AnswerLength) /\ Kept(s) /\ stream[s].answer # None
        <5>1. sent'[s] = Append(Told(AnswerLength), Streaming!Item("done", AnswerLength))
          BY <2>1, <2>2, <3>4, <4>2, HasOf, StreamSizes
        <5> QED
          BY <2>5, <3>1, <3>6, <4>2, <5>1 DEF Finished
      <4>3. CASE stream[s].answer = None /\ sent[s] = <<>> /\ messages[s] = <<>>
        <5>1. item = Streaming!Item("done", 0)
          BY <3>4, <4>3, HasOf
        <5>2. sent'[s] = <<Streaming!Item("done", 0)>>
          BY <2>1, <2>2, <4>3, <5>1
        <5> QED
          BY <1>2, <2>5, <3>1, <4>3, <5>2 DEF Finished
      <4> QED
        BY <3>5, <4>1, <4>2, <4>3
    <3>8. Streaming!Has(s) = AnswerLength => Streaming!Has(s)' = AnswerLength
      <4> SUFFICES ASSUME Streaming!Has(s) = AnswerLength PROVE Streaming!Has(s)' = AnswerLength
        OBVIOUS
      <4>1. item.has = AnswerLength
        BY <1>4, <2>8
      <4>2. items = <<item>> \/ items = Append(ToldAtOnce, item) \/ items = Append(Told(AnswerLength), item)
        <5>1. Append(<<>>, item) = <<item>>
          OBVIOUS
        <5> QED
          BY <2>1, <3>5, <5>1
      <4>3. items # <<>> /\ Last(items) = item
        BY <4>2, EndOfItems
      <4> QED
        BY <2>2, <4>1, <4>3 DEF Streaming!Has, Last
    <3>9. CachedOK'
      BY <1>2, <2>5, <3>1, <3>3, <3>8, CacheStays DEF Stored
    <3>10. StreamKinds'
      <4>1. DOMAIN sent' = Pair /\ sent' = [t \in Pair |-> sent'[t]]
        BY <2>2 DEF StreamInv, StreamKinds
      <4>2. ended' \in [Pair -> {"no", "done", "left", "broken"}]
        BY <3>2 DEF StreamInv, StreamKinds
      <4>3. stream' \in [Pair -> Streaming!Turns \cup {None}]
        BY <2>5 DEF StreamInv, StreamKinds
      <4> QED
        BY <1>2, <4>1, <4>2, <4>3 DEF StreamInv, StreamKinds
    <3>11. TurnOK(s)'
      BY <2>5, <3>1, <3>2, <3>7 DEF TurnOK
    <3> QED
      BY <3>3, <3>9, <3>10, <3>11, OthersStay
  <2> QED
    BY <2>7, <2>8
<1> QED
  BY <1>1, <1>5, <1>6 DEF Streaming!Send, Streaming!Proceed

\* A message once kept stays kept, and the sent items of a stream at its end are items of the
\* answer in their order.
LEMMA ItemsOfStream ==
  ASSUME StreamInv, NEW s \in Pair
  PROVE  \/ sent[s] = <<>>
         \/ sent[s] = <<Streaming!Item("done", 0)>> \/ sent[s] = <<Streaming!Item("error", 0)>>
         \/ sent[s] = ToldAtOnce \/ sent[s] = Append(ToldAtOnce, Streaming!Item("done", AnswerLength))
         \/ sent[s] = Append(Told(AnswerLength), Streaming!Item("done", AnswerLength))
         \/ \E n \in 0 .. AnswerLength : \/ sent[s] = Told(n)
                                         \/ sent[s] = Append(Told(n), Streaming!Item("error", n))
<1>1. TurnOK(s) /\ ended[s] \in {"no", "done", "left", "broken"} /\ AnswerLength \in 0 .. AnswerLength
      /\ 0 \in 0 .. AnswerLength
  BY StreamSizes DEF StreamInv, StreamKinds
<1>2. CASE stream[s] = None
  BY <1>1, <1>2 DEF TurnOK, Untold
<1>3. CASE stream[s] # None /\ Underway(s)
  <2>1. stream[s].tokens \in 0 .. AnswerLength
    BY <1>3 DEF StreamInv, StreamKinds, Streaming!Turns
  <2>2. Hitting(s) => sent[s] \in {<<>>, Told(0), ToldAtOnce}
    BY DEF Hitting
  <2>3. Generating(s) => sent[s] \in {<<>>, Told(stream[s].tokens)}
    BY DEF Generating
  <2>4. Arrived(s) => sent[s] = Told(AnswerLength)
    BY DEF Arrived
  <2>5. Refused(s) => sent[s] = <<>>
    BY DEF Refused, Untold
  <2> QED
    BY <1>1, <1>3, <2>1, <2>2, <2>3, <2>4, <2>5 DEF Underway
<1>4. CASE stream[s] # None /\ Finished(s)
  BY <1>4 DEF Finished
<1>5. CASE stream[s] # None /\ Broken(s)
  BY <1>5 DEF Broken
<1> QED
  BY <1>1, <1>2, <1>3, <1>4, <1>5 DEF TurnOK

\* Items in the order in which they are sent: sources, a growing answer, an end.
Ordered(items) ==
  /\ \A i \in 1 .. Len(items) : items[i] \in Streaming!Items
  /\ \A i \in 1 .. Len(items) : items[i].type \in {"done", "error"} => i = Len(items)
  /\ \A i \in 1 .. Len(items) :
       items[i].type = "done" /\ i > 1 => items[Len(items)].has = AnswerLength
  /\ \A i \in 1 .. Len(items) :
       items[i].type = "text" => items[1].type = "meta" /\ items[i].has > items[i - 1].has

\* One after the other, the items of n tokens, with or without an end.
LEMMA TokensInOrder ==
  ASSUME NEW n \in 0 .. AnswerLength
  PROVE  /\ Ordered(Told(n)) /\ DOMAIN Told(n) = 1 .. Len(Told(n)) /\ Told(n)[Len(Told(n))].type \in {"meta", "text"}
         /\ \A type \in {"done", "error"} :
              (type = "done" => n = AnswerLength) =>
                LET all == Append(Told(n), Streaming!Item(type, n)) IN
                /\ Ordered(all) /\ DOMAIN all = 1 .. Len(all) /\ Len(all) > 1
                /\ all[Len(all)].type = type
<1>1. /\ n \in Nat /\ AnswerLength \in Nat /\ Len(Told(n)) = n + 1 /\ DOMAIN Told(n) = 1 .. n + 1
  BY StreamSizes DEF Told
<1>2. \A i \in 1 .. n + 1 :
        /\ Told(n)[i] = IF i = 1 THEN Streaming!Item("meta", 0) ELSE Streaming!Item("text", i - 1)
        /\ Told(n)[i].type = IF i = 1 THEN "meta" ELSE "text"
        /\ Told(n)[i].has = i - 1
  BY <1>1 DEF Told, Streaming!Item
<1>3. \A i \in 1 .. n + 1 : Told(n)[i] \in Streaming!Items
  <2> SUFFICES ASSUME NEW i \in 1 .. n + 1 PROVE Told(n)[i] \in Streaming!Items
    OBVIOUS
  <2>1. i - 1 \in 0 .. AnswerLength /\ 0 \in 0 .. AnswerLength
    BY <1>1
  <2>2. Streaming!Item("meta", 0) \in Streaming!Items /\ Streaming!Item("text", i - 1) \in Streaming!Items
    BY <2>1 DEF Streaming!Items, Streaming!Item
  <2> QED
    BY <1>2, <2>2
<1>4. Ordered(Told(n)) /\ Told(n)[Len(Told(n))].type \in {"meta", "text"}
  BY <1>1, <1>2, <1>3 DEF Ordered
<1>5. ASSUME NEW type \in {"done", "error"}, type = "done" => n = AnswerLength,
             NEW all, all = Append(Told(n), Streaming!Item(type, n))
      PROVE  Ordered(all) /\ DOMAIN all = 1 .. Len(all) /\ Len(all) > 1 /\ all[Len(all)].type = type
  <2>1. Told(n) \in Seq(Streaming!Items)
    <3>1. Told(n) = [i \in 1 .. n + 1 |-> Told(n)[i]]
      BY <1>1 DEF Told
    <3> QED
      BY <1>1, <1>3, <3>1
  <2>2. /\ Streaming!Item(type, n) \in Streaming!Items
        /\ Streaming!Item(type, n).type = type /\ Streaming!Item(type, n).has = n
    BY DEF Streaming!Item, Streaming!Items
  <2>3. /\ all \in Seq(Streaming!Items) /\ Len(all) = n + 2 /\ all[n + 2] = Streaming!Item(type, n)
        /\ \A i \in 1 .. n + 1 : all[i] = Told(n)[i]
    BY <1>1, <1>5, <2>1, <2>2
  <2>4. \A i \in 1 .. n + 2 : /\ all[i] \in Streaming!Items
                              /\ all[i].type = IF i = 1 THEN "meta" ELSE IF i = n + 2 THEN type ELSE "text"
                              /\ i < n + 2 => all[i].has = i - 1
    BY <1>1, <1>2, <1>3, <2>2, <2>3
  <2>5. Ordered(all)
    BY <1>1, <1>5, <2>2, <2>3, <2>4 DEF Ordered
  <2> QED
    BY <1>1, <2>2, <2>3, <2>5
<1> QED
  BY <1>1, <1>4, <1>5

\* The whole answer at once, with or without an end, is in order as well; so is an end alone.
LEMMA HitInOrder ==
  /\ Ordered(ToldAtOnce) /\ DOMAIN ToldAtOnce = 1 .. Len(ToldAtOnce)
  /\ ToldAtOnce[Len(ToldAtOnce)].type = "text"
  /\ LET all == Append(ToldAtOnce, Streaming!Item("done", AnswerLength)) IN
       /\ Ordered(all) /\ DOMAIN all = 1 .. Len(all) /\ Len(all) > 1 /\ all[Len(all)].type = "done"
  /\ \A type \in {"done", "error"} :
       LET all == <<Streaming!Item(type, 0)>> IN
       /\ Ordered(all) /\ DOMAIN all = 1 .. Len(all) /\ Len(all) = 1 /\ all[1].type = type
  /\ Ordered(<<>>) /\ DOMAIN <<>> = 1 .. Len(<<>>)
<1>1. AnswerLength \in Nat \ {0}
  BY StreamSizes
<1>2. \A type \in {"meta", "text", "done", "error"}, has \in {0, AnswerLength} :
        /\ Streaming!Item(type, has) \in Streaming!Items
        /\ Streaming!Item(type, has).type = type /\ Streaming!Item(type, has).has = has
  BY <1>1 DEF Streaming!Item, Streaming!Items
<1>3. /\ Len(ToldAtOnce) = 2 /\ DOMAIN ToldAtOnce = 1 .. 2
      /\ ToldAtOnce[1] = Streaming!Item("meta", 0)
      /\ ToldAtOnce[2] = Streaming!Item("text", AnswerLength)
  BY DEF ToldAtOnce
<1>4. Ordered(ToldAtOnce) /\ ToldAtOnce[Len(ToldAtOnce)].type = "text"
  BY <1>1, <1>2, <1>3 DEF Ordered
<1>5. ASSUME NEW all, all = Append(ToldAtOnce, Streaming!Item("done", AnswerLength))
      PROVE  Ordered(all) /\ DOMAIN all = 1 .. Len(all) /\ Len(all) > 1 /\ all[Len(all)].type = "done"
  <2>1. ToldAtOnce \in Seq(Streaming!Items)
    BY <1>2 DEF ToldAtOnce
  <2>2. /\ all \in Seq(Streaming!Items) /\ Len(all) = 3
        /\ all[1] = Streaming!Item("meta", 0) /\ all[2] = Streaming!Item("text", AnswerLength)
        /\ all[3] = Streaming!Item("done", AnswerLength)
    <3>1. PICK last \in Streaming!Items : last = Streaming!Item("done", AnswerLength)
      BY <1>2
    <3>2. PICK first \in Seq(Streaming!Items) : first = ToldAtOnce
      BY <2>1
    <3>3. all = Append(first, last)
      BY <1>5, <3>1, <3>2
    <3>4. all \in Seq(Streaming!Items) /\ Len(all) = Len(first) + 1 /\ all[Len(first) + 1] = last
          /\ \A i \in 1 .. Len(first) : all[i] = first[i]
      BY <3>3
    <3>5. Len(first) = 2
      BY <1>3, <3>2
    <3>6. Len(all) = 3 /\ all[3] = last
      BY <3>4, <3>5
    <3>7. all[1] = first[1] /\ all[2] = first[2]
      BY <3>4, <3>5
    <3> QED
      BY <1>3, <3>1, <3>2, <3>4, <3>6, <3>7
  <2> QED
    BY <1>1, <1>2, <2>2 DEF Ordered
<1>6. ASSUME NEW type \in {"done", "error"}, NEW all, all = <<Streaming!Item(type, 0)>>
      PROVE  Ordered(all) /\ DOMAIN all = 1 .. Len(all) /\ Len(all) = 1 /\ all[1].type = type
  BY <1>2, <1>6 DEF Ordered
<1>7. Ordered(<<>>) /\ DOMAIN <<>> = 1 .. Len(<<>>)
  BY DEF Ordered
<1> QED
  BY <1>3, <1>4, <1>5, <1>6, <1>7

\* What was sent is in order, whatever came in between.
LEMMA SentInOrder ==
  ASSUME StreamInv, NEW s \in Pair
  PROVE  /\ Ordered(sent[s]) /\ DOMAIN sent[s] = 1 .. Len(sent[s]) /\ Len(sent[s]) \in Nat
         /\ ended[s] = "done" <=> sent[s] # <<>> /\ Last(sent[s]).type = "done"
<1>1. TurnOK(s) /\ ended[s] \in {"no", "done", "left", "broken"} /\ AnswerLength \in 0 .. AnswerLength
      /\ 0 \in 0 .. AnswerLength
  BY StreamSizes DEF StreamInv, StreamKinds
<1>2. Ordered(sent[s]) /\ DOMAIN sent[s] = 1 .. Len(sent[s])
  BY <1>1, ItemsOfStream, TokensInOrder, HitInOrder
<1>3. Len(sent[s]) \in Nat
  BY <1>1, <1>2, ItemsOfStream, StreamSizes
<1>4. ASSUME ended[s] = "done" PROVE sent[s] # <<>> /\ Last(sent[s]).type = "done"
  <2>1. Finished(s)
    BY <1>1, <1>4 DEF TurnOK
  <2>2. Len(sent[s]) > 0 /\ sent[s][Len(sent[s])].type = "done"
    <3>1. \/ sent[s] = <<Streaming!Item("done", 0)>>
          \/ sent[s] = Append(ToldAtOnce, Streaming!Item("done", AnswerLength))
          \/ sent[s] = Append(Told(AnswerLength), Streaming!Item("done", AnswerLength))
      BY <2>1 DEF Finished
    <3>2. CASE sent[s] = <<Streaming!Item("done", 0)>>
      BY <3>2, HitInOrder
    <3>3. CASE sent[s] = Append(ToldAtOnce, Streaming!Item("done", AnswerLength))
      BY <1>3, <3>3, HitInOrder
    <3>4. CASE sent[s] = Append(Told(AnswerLength), Streaming!Item("done", AnswerLength))
      BY <1>1, <1>3, <3>4, TokensInOrder
    <3> QED
      BY <3>1, <3>2, <3>3, <3>4
  <2> QED
    BY <2>2 DEF Last
<1>5. ASSUME ended[s] # "done", sent[s] # <<>> PROVE Last(sent[s]).type # "done"
  <2>1. \/ sent[s] = <<>> \/ sent[s] = <<Streaming!Item("error", 0)>> \/ sent[s] = ToldAtOnce
        \/ \E n \in 0 .. AnswerLength : \/ sent[s] = Told(n)
                                        \/ sent[s] = Append(Told(n), Streaming!Item("error", n))
    <3>1. stream[s] = None => sent[s] = <<>>
      BY <1>1 DEF TurnOK, Untold
    <3>2. stream[s] # None /\ Underway(s) =>
            sent[s] \in {<<>>, Told(0), ToldAtOnce, Told(stream[s].tokens), Told(AnswerLength)}
      BY DEF Underway, Hitting, Generating, Arrived, Refused, Untold
    <3>3. stream[s] # None => stream[s].tokens \in 0 .. AnswerLength
      BY DEF StreamInv, StreamKinds, Streaming!Turns
    <3>4. Broken(s) => \/ sent[s] = <<>> \/ sent[s] = <<Streaming!Item("error", 0)>>
                       \/ \E n \in 0 .. AnswerLength : \/ sent[s] = Told(n)
                                                       \/ sent[s] = Append(Told(n), Streaming!Item("error", n))
      BY DEF Broken
    <3> QED
      BY <1>1, <1>5, <3>1, <3>2, <3>3, <3>4 DEF TurnOK
  <2>2. sent[s] # <<>> => sent[s][Len(sent[s])].type # "done"
    BY <2>1, TokensInOrder, HitInOrder
  <2> QED
    BY <1>5, <2>2 DEF Last
<1> QED
  BY <1>2, <1>3, <1>4, <1>5

\* What a conversation keeps of a stream is nothing, the question, or the question and the
\* whole answer.
LEMMA KeptIsWhole ==
  ASSUME StreamInv, NEW s \in Pair
  PROVE  \/ messages[s] = <<>> \/ messages[s] = <<Question>>
         \/ /\ messages[s] = <<Question, Reply(s)>> /\ stream[s] # None /\ stream[s].answer # None
            /\ stream[s].answer.length = AnswerLength
<1>1. TurnOK(s) /\ ended[s] \in {"no", "done", "left", "broken"}
  BY DEF StreamInv, StreamKinds
<1>2. stream[s] # None /\ stream[s].answer # None => stream[s].answer.length = AnswerLength
  BY DEF StreamInv, StreamKinds, Streaming!Turns
<1>3. CASE stream[s] = None
  BY <1>1, <1>3 DEF TurnOK, Untold
<1>4. CASE stream[s] # None /\ Underway(s)
  <2>1. Hitting(s) => stream[s].answer # None /\ (Unasked(s) \/ HalfKept(s) \/ Kept(s))
    BY DEF Hitting
  <2>2. Generating(s) => Unasked(s)
    BY DEF Generating
  <2>3. Arrived(s) => stream[s].answer # None /\ (Unasked(s) \/ HalfKept(s) \/ Kept(s))
    BY StreamSizes DEF Arrived
  <2>4. Refused(s) => messages[s] = <<>>
    BY DEF Refused, Untold
  <2> QED
    BY <1>2, <1>4, <2>1, <2>2, <2>3, <2>4 DEF Underway, Unasked, HalfKept, Kept
<1>5. CASE stream[s] # None /\ Finished(s)
  BY <1>2, <1>5 DEF Finished, Kept
<1>6. CASE stream[s] # None /\ Broken(s)
  BY <1>6 DEF Broken
<1> QED
  BY <1>1, <1>3, <1>4, <1>5, <1>6 DEF TurnOK

\* The streams as they are found are sound.
LEMMA StreamsAreSound == StreamInv => Streaming!StreamSound
<1> SUFFICES ASSUME StreamInv PROVE Streaming!StreamSound
  OBVIOUS
<1>1. \A s \in Pair : /\ Ordered(sent[s]) /\ DOMAIN sent[s] = 1 .. Len(sent[s]) /\ Len(sent[s]) \in Nat
                      /\ ended[s] = "done" <=> sent[s] # <<>> /\ Last(sent[s]).type = "done"
  BY SentInOrder
<1>2. \A s \in Pair : Streaming!Message(s, "ask") = Question /\ Streaming!Message(s, "reply") = Reply(s)
  BY DEF Streaming!Message, Question, Reply
<1>3. Streaming!TypeOK
  <2>1. ASSUME NEW s \in Pair PROVE Streaming!Range(sent[s]) \subseteq Streaming!Items
    BY <1>1 DEF Ordered, Streaming!Range
  <2>2. ASSUME NEW s \in Pair PROVE Len(messages[s]) <= 2
    <3>1. Len(<<>>) <= 2 /\ Len(<<Question>>) <= 2 /\ Len(<<Question, Reply(s)>>) <= 2
      OBVIOUS
    <3> QED
      BY <3>1, KeptIsWhole
  <2> QED
    BY <2>1, <2>2 DEF Streaming!TypeOK, StreamInv, StreamKinds
<1>4. Streaming!InOrder
  <2> SUFFICES ASSUME NEW s \in Pair
               PROVE  /\ ended[s] = "done" <=> sent[s] # <<>> /\ Last(sent[s]).type = "done"
                      /\ \A i \in 1 .. Len(sent[s]) :
                           /\ sent[s][i].type \in {"done", "error"} => i = Len(sent[s])
                           /\ sent[s][i].type = "done" /\ i > 1 => Streaming!Has(s) = AnswerLength
                           /\ sent[s][i].type = "text" => sent[s][1].type = "meta"
                                                          /\ sent[s][i].has > sent[s][i - 1].has
                      /\ ended[s] = "broken" => messages[s] = <<>>
    BY DEF Streaming!InOrder, Last
  <2>1. ended[s] = "broken" => messages[s] = <<>>
    BY DEF StreamInv, TurnOK, Untold, Broken
  <2>2. ASSUME NEW i \in 1 .. Len(sent[s])
        PROVE  /\ sent[s][i].type \in {"done", "error"} => i = Len(sent[s])
               /\ sent[s][i].type = "done" /\ i > 1 => Streaming!Has(s) = AnswerLength
               /\ sent[s][i].type = "text" => sent[s][1].type = "meta"
                                              /\ sent[s][i].has > sent[s][i - 1].has
    <3>1. sent[s] # <<>>
      BY <1>1
    <3>2. Streaming!Has(s) = sent[s][Len(sent[s])].has
      BY <3>1 DEF Streaming!Has, Last
    <3> QED
      BY <1>1, <3>2 DEF Ordered
  <2> QED
    BY <1>1, <2>1, <2>2
<1>5. Streaming!ShownIsSaved
  <2> SUFFICES ASSUME NEW s \in Pair, ended[s] = "done", Len(sent[s]) > 1, ~stream[s].faulty
               PROVE  messages[s] = <<Question, Reply(s)>>
    BY <1>2 DEF Streaming!ShownIsSaved
  <2>1. stream[s] # None /\ Finished(s)
    BY DEF StreamInv, TurnOK
  <2>2. sent[s] # <<Streaming!Item("done", 0)>>
    <3> SUFFICES ASSUME sent[s] = <<Streaming!Item("done", 0)>> PROVE FALSE
      OBVIOUS
    <3>1. Len(<<Streaming!Item("done", 0)>>) = 1
      OBVIOUS
    <3>2. Len(sent[s]) = 1
      BY <3>1
    <3> QED
      BY <3>2
  <2> QED
    BY <2>1, <2>2 DEF Finished, Kept
<1>6. Streaming!OnlyWholeAnswers
  <2>1. cached # None => cached.length = AnswerLength
    BY DEF StreamInv, CachedOK
  <2>2. ASSUME NEW s \in Pair, NEW i \in 1 .. Len(messages[s]), messages[s][i].role = "assistant"
        PROVE  messages[s][i].length = AnswerLength
    <3>1. Question.role # "assistant"
      BY DEF Question
    <3>2. CASE messages[s] \in {<<>>, <<Question>>}
      BY <2>2, <3>1, <3>2
    <3>3. CASE messages[s] = <<Question, Reply(s)>> /\ stream[s].answer.length = AnswerLength
      <4>1. i \in {1, 2}
        BY <3>3
      <4>2. messages[s][i] = Question \/ messages[s][i] = Reply(s)
        BY <3>3, <4>1
      <4> QED
        BY <2>2, <3>1, <3>3, <4>2 DEF Reply
    <3> QED
      BY <3>2, <3>3, KeptIsWhole
  <2> QED
    BY <2>1, <2>2 DEF Streaming!OnlyWholeAnswers
<1>7. Streaming!CachedWasShown
  <2> SUFFICES ASSUME cached # None
               PROVE  /\ Streaming!Has(cached.by) = AnswerLength
                      /\ \/ stream[cached.by].faulty
                         \/ Streaming!Message(cached.by, "reply") \in Streaming!Range(messages[cached.by])
    BY DEF Streaming!CachedWasShown
  <2>1. PICK s \in Pair : /\ cached = [by |-> s, length |-> AnswerLength]
                          /\ Streaming!Has(s) = AnswerLength /\ Kept(s)
    BY DEF StreamInv, CachedOK
  <2>2. cached.by = s
    BY <2>1
  <2>3. messages[s] = <<Question, Reply(s)>> => Reply(s) \in Streaming!Range(messages[s])
    <3> SUFFICES ASSUME messages[s] = <<Question, Reply(s)>>
                 PROVE  \E i \in 1 .. Len(messages[s]) : messages[s][i] = Reply(s)
      BY DEF Streaming!Range
    <3>1. 2 \in 1 .. Len(messages[s]) /\ messages[s][2] = Reply(s)
      OBVIOUS
    <3> QED
      BY <3>1
  <2> QED
    BY <1>2, <2>1, <2>2, <2>3 DEF Kept
<1> QED
  BY <1>3, <1>4, <1>5, <1>6, <1>7 DEF Streaming!StreamSound

\* Every step of a stream keeps the invariant.
LEMMA StreamStep == StreamInv /\ Streaming!Next => StreamInv'
<1> SUFFICES ASSUME StreamInv, NEW s \in Pair,
                    \/ Streaming!Begin(s) \/ Streaming!Look(s) \/ Streaming!Open(s)
                    \/ Streaming!OpenFails(s) \/ Streaming!Save(s, "ask")
                    \/ Streaming!Save(s, "reply") \/ Streaming!SaveFails(s) \/ Streaming!Emit(s)
                    \/ Streaming!Token(s) \/ Streaming!Complete(s) \/ Streaming!BreakOff(s)
                    \/ Streaming!Gate(s) \/ Streaming!Store(s) \/ Streaming!Leave(s)
                    \/ Streaming!Cancel(s)
             PROVE  StreamInv'
  BY DEF Streaming!Next
<1>1. CASE Streaming!Begin(s) \/ Streaming!Look(s) \/ Streaming!Open(s) \/ Streaming!OpenFails(s)
  BY <1>1, TurnBegins, Looked, Opens, OpeningFails
<1>2. CASE Streaming!Save(s, "ask") \/ Streaming!Save(s, "reply") \/ Streaming!SaveFails(s)
  BY <1>2, Saves, SavingFails
<1>3. CASE Streaming!Emit(s) \/ Streaming!Token(s) \/ Streaming!Complete(s) \/ Streaming!BreakOff(s)
  BY <1>3, Emits, TokenGoesOut, Completes, BreaksOff
<1>4. CASE Streaming!Gate(s) \/ Streaming!Store(s)
  BY <1>4, Gated, Stores
<1>5. CASE Streaming!Leave(s)
  <2>1. gone' \subseteq Pair
    BY <1>5 DEF Streaming!Leave, StreamInv, StreamKinds
  <2> QED
    BY <1>5, <2>1, Left DEF Streaming!Leave
<1>6. CASE Streaming!Cancel(s)
  <2>1. gone' \subseteq Pair
    BY <1>6 DEF Streaming!Cancel, StreamInv, StreamKinds
  <2> QED
    BY <1>6, <2>1, Left DEF Streaming!Cancel
<1> QED
  BY <1>1, <1>2, <1>3, <1>4, <1>5, <1>6

\* A step of another service changes no stream.
LEMMA StreamRest ==
  ASSUME StreamInv, UNCHANGED streams
  PROVE  StreamInv'
<1>1. UNCHANGED <<stream, sent, gone, ended, opened, messages, cached>>
  BY DEF streams
<1>2. \A s \in Pair : Streaming!Has(s)' = Streaming!Has(s)
  BY <1>1 DEF Streaming!Has, Last
<1>3. StreamKinds' /\ CachedOK'
  BY <1>1, <1>2 DEF StreamInv, StreamKinds, CachedOK, Kept, Reply
<1>4. ASSUME NEW s \in Pair PROVE TurnOK(s)'
  <2>1. TurnOK(s)
    BY DEF StreamInv
  <2> QED
    BY <1>1, <2>1 DEF TurnOK, Untold, Unasked, HalfKept, Kept, Reply, Hitting, Generating,
       Arrived, Refused, Underway, Finished, Broken
<1> QED
  BY <1>3, <1>4 DEF StreamInv

\* What a client is sent comes in its order and is whole at its end; it is saved, the
\* question before the answer, unless saving failed; only whole answers are saved or cached,
\* and a cached one was shown to the one who asked - wherever readers leave, models break
\* off and stores fail.
THEOREM StreamStaysSound == ServicesSpec => []StreamSound
<1> DEFINE I == focus = "streams" => StreamInv
<1>1. ServicesInit => I
  BY StreamsBegin DEF ServicesInit
<1>2. I /\ ServicesStep => I'
  <2> SUFFICES ASSUME I, ServicesStep, focus' = "streams" PROVE StreamInv'
    OBVIOUS
  <2>1. StreamInv
    BY DEF ServicesStep, ServicesNext, ServicesVars
  <2>2. Streaming!Next \/ UNCHANGED streams
    BY DEF ServicesStep, ServicesNext, ServicesVars, streams
  <2> QED
    BY <2>1, <2>2, StreamStep, StreamRest
<1>3. I => StreamSound
  BY StreamsAreSound DEF StreamSound
<1> QED
  BY <1>1, <1>2, <1>3, PTL DEF ServicesSpec, ServicesStep, ServicesVars

-----------------------------------------------------------------------------
(* The answer cache.                                                        *)

\* An answer that cites nothing may only be the agent's, which is kept and never served.
Whole == {a \in Cache!Answer : a.kind = "agent" => a.cites = None}
Hit(q, a) == [q |-> q, ans |-> a]
CacheKinds ==
  /\ Cache!TypeOK
  /\ \A q \in Questions : redis[q] # None => redis[q] \in Whole
  /\ \A q \in Questions : table[q] # None => table[q].ans \in Whole
  /\ \A b \in backfill : \E q \in Questions, a \in Whole : b = Hit(q, a)
  /\ disliked \subseteq Whole

\* What a call has in hand: it has seen every document that is live; what it serves was
\* live; while its question is barred it neither serves from a cache nor stores; what it
\* stores is its own.
Making == {"gate", "store", "cache", "index"}
Fits(c, p) ==
  /\ Cache!Live \subseteq p.seen
  /\ p.ans # None => p.ans \in Whole
  /\ p.step = "check" => p.ans # None
  /\ p.step = "served" => p.ans # None /\ p.ans.cites \in p.seen
  /\ p.barred => p.q \in black
  /\ p.kind # "agent" /\ p.barred => p.step \in {"retrieve", "gate"}
  /\ p.step \in Making => p.ans # None /\ p.ans.by = c
CallsFit == \A c \in Pair : call[c] \in Cache!Progress => Fits(c, call[c])

\* An answer is kept for one question, by a call that has come so far; so is one that was
\* disliked.
Keeps(q, a) ==
  /\ a # None
  /\ redis[q] = a \/ (table[q] # None /\ table[q].ans = a) \/ Hit(q, a) \in backfill
Storing(c) == call[c] \in Cache!Progress /\ call[c].step \in {"cache", "index"}
KeptOnce ==
  /\ \A q \in Questions, a \in Whole : Keeps(q, a) =>
       call[a.by] = Cache!Over \/ (Storing(a.by) /\ call[a.by].q = q)
  /\ \A a \in disliked : call[a.by] = Cache!Over \/ Storing(a.by)
  /\ \A q, r \in Questions, a, b \in Whole :
       Keeps(q, a) /\ Keeps(r, b) /\ a.by = b.by => q = r

\* Unless other work crossed an invalidation: it has the question for itself, the table
\* goes first, and afterwards nothing can bring a disliked answer back.
OnItsOwn(q) ==
  /\ job[q] # "idle" => ~Cache!Working(q)
  /\ job[q] # "table" /\ table[q] # None /\ table[q].ans \in disliked => table[q].deleted
  /\ job[q] = "idle" =>
       /\ redis[q] \notin disliked
       /\ \A b \in backfill : b.q = q => b.ans \notin disliked
       /\ \A c \in Pair : call[c] \in Cache!Progress /\ call[c].q = q /\ call[c].step = "cache" =>
            call[c].ans \notin disliked
DislikesHold == \A q \in Questions \ crossed : OnItsOwn(q)

CacheInv == CacheKinds /\ CallsFit /\ KeptOnce /\ DislikesHold

\* What is no answer, row or call is none, and a call that is over makes no progress.
LEMMA NoneIsNothing ==
  /\ None \notin Questions /\ None \notin Evidence /\ None \notin Cache!Answer
  /\ None \notin Whole /\ None \notin Cache!Rows /\ None \notin Cache!Progress
  /\ Cache!Over # None /\ Cache!Over \notin Cache!Progress
<1>1. /\ None \notin Questions /\ None \notin Evidence /\ None \notin Cache!Answer
      /\ None \notin Cache!Rows /\ None \notin Cache!Progress /\ Cache!Over # None
  BY ServicesAssumption DEF ServicesAssumption, Cache!CacheAssumption
<1>2. None \notin Whole
  BY <1>1 DEF Whole
<1>3. Cache!Over \notin Cache!Progress
  BY DEF Cache!Over, Cache!Progress
<1> QED
  BY <1>1, <1>2, <1>3

\* A call at one of its steps is in progress.
LEMMA AtIsProgress ==
  ASSUME CacheInv, NEW c \in Pair, NEW steps, Cache!At(c, steps), "done" \notin steps
  PROVE  call[c] \in Cache!Progress /\ call[c].step \in steps /\ Fits(c, call[c])
<1>1. call[c] # None /\ call[c].step \in steps
  BY DEF Cache!At
<1>2. call[c] # Cache!Over
  BY <1>1 DEF Cache!Over
<1>3. call[c] \in Cache!Progress
  BY <1>1, <1>2 DEF CacheInv, CacheKinds, Cache!TypeOK
<1> QED
  BY <1>1, <1>3 DEF CacheInv, CallsFit

\* Nothing is kept and nobody asks at the start.
LEMMA CacheBegins == Cache!Init => CacheInv
<1> SUFFICES ASSUME Cache!Init PROVE CacheInv
  OBVIOUS
<1> USE DEF Cache!Init
<1>1. CacheKinds
  BY DEF CacheKinds, Cache!TypeOK
<1>2. CallsFit
  BY NoneIsNothing DEF CallsFit
<1>3. KeptOnce
  BY DEF KeptOnce, Keeps
<1>4. DislikesHold
  BY NoneIsNothing DEF DislikesHold, OnItsOwn
<1> QED
  BY <1>1, <1>2, <1>3, <1>4 DEF CacheInv

\* The invariant implies what the cache promises.
LEMMA CacheIsSound == CacheInv => Cache!CacheSound
<1> SUFFICES ASSUME CacheInv PROVE Cache!CacheSound
  OBVIOUS
<1>1. ASSUME NEW c \in Pair, Cache!Served(c)
      PROVE  call[c].ans.cites \in call[c].seen /\ call[c].ans.kind # "agent"
  <2>1. call[c] \in Cache!Progress /\ call[c].step = "served" /\ Fits(c, call[c])
    BY <1>1, AtIsProgress DEF Cache!Served
  <2>2. call[c].ans.cites \in call[c].seen /\ call[c].ans \in Whole
    BY <2>1 DEF Fits
  <2>3. call[c].seen \subseteq Evidence
    BY <2>1 DEF Cache!Progress
  <2>4. call[c].ans.kind # "agent"
    BY <2>2, <2>3, NoneIsNothing DEF Whole
  <2> QED
    BY <2>2, <2>4
<1>2. Cache!DislikedIsGone
  BY DEF CacheInv, DislikesHold, OnItsOwn, Cache!DislikedIsGone
<1>3. Cache!ServedWasLive /\ Cache!UncitedIsNotServed
  BY <1>1 DEF Cache!ServedWasLive, Cache!UncitedIsNotServed
<1>4. ASSUME NEW c \in Pair, Cache!At(c, {"served", "store", "cache", "index"}),
             call[c].kind # "agent"
      PROVE  ~call[c].barred
  BY <1>4, AtIsProgress DEF Fits
<1>5. Cache!BlacklistForcesGeneration
  BY <1>4 DEF Cache!BlacklistForcesGeneration
<1> QED
  BY <1>2, <1>3, <1>5 DEF Cache!CacheSound, CacheInv, CacheKinds

-----------------------------------------------------------------------------
CallOnly == UNCHANGED <<doc, purge, redis, table, black, dislikes, job, count, disliked, crossed>>

\* A call goes on, but not to where its answer is in the table; a hit of the table may be on
\* its way to Redis.
LEMMA CallGoesOn ==
  ASSUME CacheInv, NEW c \in Pair, NEW p, call[c] \in Cache!Progress, call[c].step # "served",
         call' = [call EXCEPT ![c] = p],
         \/ p = Cache!Over
         \/ /\ p \in Cache!Progress /\ p.q = call[c].q /\ Fits(c, p) /\ p.step # "cache"
            /\ call[c].step \in {"cache", "index"} => p.step \in {"cache", "index"},
         \A b \in backfill' : b \in backfill \/
            /\ table[call[c].q] # None /\ ~table[call[c].q].deleted
            /\ b = Hit(call[c].q, table[call[c].q].ans),
         index' \subseteq Questions, CallOnly
  PROVE  CacheInv'
<1> USE DEF CallOnly
<1> DEFINE q == call[c].q
<1>1. q \in Questions /\ call \in [Pair -> Cache!Progress \cup {Cache!Over, None}]
  BY DEF CacheInv, CacheKinds, Cache!TypeOK, Cache!Progress
<1>2. /\ call'[c] = p /\ \A d \in Pair : d # c => call'[d] = call[d]
      /\ call' \in [Pair -> Cache!Progress \cup {Cache!Over, None}]
  BY <1>1
<1>3. CacheKinds'
  <2>1. Cache!TypeOK'
    BY <1>2 DEF CacheInv, CacheKinds, Cache!TypeOK
  <2>2. \A b \in backfill' : \E r \in Questions, a \in Whole : b = Hit(r, a)
    BY <1>1 DEF CacheInv, CacheKinds
  <2> QED
    BY <2>1, <2>2 DEF CacheInv, CacheKinds
<1>4. CallsFit'
  <2> SUFFICES ASSUME NEW d \in Pair, call'[d] \in Cache!Progress PROVE Fits(d, call[d])'
    BY DEF CallsFit
  <2>1. Cache!Live' = Cache!Live
    BY DEF Cache!Live
  <2>2. Fits(d, call'[d])
    BY <1>2, NoneIsNothing DEF CacheInv, CallsFit
  <2> QED
    BY <2>1, <2>2 DEF Fits
<1>5. ASSUME NEW r \in Questions, NEW a \in Whole, Keeps(r, a)' PROVE Keeps(r, a)
  <2>1. CASE Hit(r, a) \in backfill'
    <3>1. CASE Hit(r, a) = Hit(call[c].q, table[call[c].q].ans) /\ table[call[c].q] # None
      <4>1. r = call[c].q /\ a = table[call[c].q].ans
        BY <3>1 DEF Hit
      <4> QED
        BY <4>1, <3>1, <1>5 DEF Keeps
    <3> QED
      BY <2>1, <3>1, <1>5 DEF Keeps
  <2> QED
    BY <2>1, <1>5 DEF Keeps
<1>6. \A d \in Pair : Storing(d) =>
       (Storing(d)' /\ call'[d].q = call[d].q) \/ call'[d] = Cache!Over
  BY <1>2 DEF Storing
<1>7. Whole \subseteq Cache!Answer /\ \A a \in Whole : a.by \in Pair
  BY DEF Whole, Cache!Answer
<1>8. KeptOnce'
  <2>1. \A r \in Questions, a \in Whole : Keeps(r, a)' =>
          call'[a.by] = Cache!Over \/ (Storing(a.by)' /\ call'[a.by].q = r)
    <3> SUFFICES ASSUME NEW r \in Questions, NEW a \in Whole, Keeps(r, a)'
                 PROVE  call'[a.by] = Cache!Over \/ (Storing(a.by)' /\ call'[a.by].q = r)
      OBVIOUS
    <3>1. call[a.by] = Cache!Over \/ (Storing(a.by) /\ call[a.by].q = r)
      BY <1>5 DEF CacheInv, KeptOnce
    <3>2. call[a.by] = Cache!Over => call'[a.by] = Cache!Over
      BY <1>2, <1>7, NoneIsNothing
    <3> QED
      BY <3>1, <3>2, <1>6, <1>7
  <2>2. \A a \in disliked' : call'[a.by] = Cache!Over \/ Storing(a.by)'
    <3> SUFFICES ASSUME NEW a \in disliked PROVE call'[a.by] = Cache!Over \/ Storing(a.by)'
      OBVIOUS
    <3>1. a \in Whole /\ (call[a.by] = Cache!Over \/ Storing(a.by))
      BY DEF CacheInv, KeptOnce, CacheKinds
    <3>2. call[a.by] = Cache!Over => call'[a.by] = Cache!Over
      BY <1>2, <1>7, <3>1, NoneIsNothing
    <3> QED
      BY <3>1, <3>2, <1>6, <1>7
  <2>3. \A r, s \in Questions, a, b \in Whole :
          Keeps(r, a)' /\ Keeps(s, b)' /\ a.by = b.by => r = s
    BY <1>5 DEF CacheInv, KeptOnce
  <2> QED
    BY <2>1, <2>2, <2>3 DEF KeptOnce
<1>9. DislikesHold'
  <2> SUFFICES ASSUME NEW r \in Questions, r \notin crossed PROVE OnItsOwn(r)'
    BY DEF DislikesHold
  <2>0. OnItsOwn(r)
    BY DEF CacheInv, DislikesHold
  <2>1. Cache!Working(r)' => Cache!Working(r)
    <3>1. call[c].q = r => Cache!Working(r)
      BY NoneIsNothing DEF Cache!Working, Cache!Progress
    <3>2. \A b \in backfill' : b.q = r => b \in backfill \/ r = call[c].q
      BY DEF Hit
    <3>3. Cache!Over.q = None
      BY DEF Cache!Over
    <3>4. \A d \in Pair : call'[d] # None /\ call'[d].q = r => call'[d] = call[d] \/ r = call[c].q
      BY <1>2, <3>3, NoneIsNothing
    <3> QED
      BY <3>1, <3>2, <3>4 DEF Cache!Working
  <2>2. ASSUME job[r] = "idle", NEW b \in backfill', b.q = r PROVE b.ans \notin disliked
    BY <2>0, <2>2 DEF OnItsOwn, Hit
  <2>3. ASSUME NEW d \in Pair, call'[d] \in Cache!Progress, call'[d].step = "cache"
        PROVE  call'[d] = call[d]
    BY <1>2, <2>3, NoneIsNothing
  <2> QED
    BY <2>0, <2>1, <2>2, <2>3 DEF OnItsOwn
<1> QED
  BY <1>3, <1>4, <1>8, <1>9 DEF CacheInv

Steps == {"redis", "table", "semantic", "check", "served", "retrieve", "gate", "store", "index"}
Layers == {"none", "redis", "table", "semantic"}

\* What a call does next: another step, with another answer in hand or none.
LEMMA CallSteps ==
  ASSUME CacheInv, NEW c \in Pair, call[c] \in Cache!Progress, call[c].step # "served",
         NEW s \in Steps, NEW l \in Layers, NEW a \in Whole \cup {None},
         call' = [call EXCEPT ![c] = [call[c] EXCEPT !.step = s, !.layer = l, !.ans = a]],
         s = "check" => a # None,
         s = "served" => a # None /\ a.cites \in call[c].seen,
         call[c].kind # "agent" /\ call[c].barred => s \in {"retrieve", "gate"},
         s \in Making => a # None /\ a.by = c,
         call[c].step \in {"cache", "index"} => s = "index",
         \A b \in backfill' : b \in backfill \/
            /\ table[call[c].q] # None /\ ~table[call[c].q].deleted
            /\ b = Hit(call[c].q, table[call[c].q].ans),
         index' \subseteq Questions, CallOnly
  PROVE  CacheInv'
<1> DEFINE p == [call[c] EXCEPT !.step = s, !.layer = l, !.ans = a]
<1>1. /\ p \in Cache!Progress /\ p.q = call[c].q /\ p.step = s /\ p.ans = a
      /\ p.kind = call[c].kind /\ p.barred = call[c].barred /\ p.seen = call[c].seen
  BY DEF Cache!Progress, Whole, Steps, Layers
<1>2. call' = [call EXCEPT ![c] = p]
  OBVIOUS
<1> HIDE DEF p
<1>3. Cache!Live \subseteq p.seen
  BY <1>1 DEF CacheInv, CallsFit, Fits
<1>4. Fits(c, p)
  <2>1. call[c].barred => call[c].q \in black
    BY DEF CacheInv, CallsFit, Fits
  <2> QED
    BY <1>1, <1>3, <2>1 DEF Fits, Making
<1>5. p.step # "cache"
  BY <1>1 DEF Steps
<1> QED
  BY <1>1, <1>2, <1>4, <1>5, CallGoesOn

\* A call begins with what is live in sight, past the caches if its question is barred.
LEMMA CallBegins ==
  ASSUME CacheInv, NEW c \in Pair, NEW q \in Questions, NEW kind \in Cache!Kinds,
         Cache!Begin(c, q, kind)
  PROVE  CacheInv'
<1>0. PICK known \in BOOLEAN :
        /\ known => q \in black
        /\ call' = [call EXCEPT ![c] = [q |-> q, kind |-> kind, step |-> Cache!First(kind, known),
                        layer |-> "none", ans |-> None, seen |-> Cache!Live, barred |-> known]]
  BY DEF Cache!Begin
<1> DEFINE p == [q |-> q, kind |-> kind, step |-> Cache!First(kind, known), layer |-> "none",
                 ans |-> None, seen |-> Cache!Live, barred |-> known]
<1>1. /\ call[c] = None /\ call' = [call EXCEPT ![c] = p]
      /\ crossed' = IF job[q] = "idle" THEN crossed ELSE crossed \cup {q}
      /\ UNCHANGED <<doc, purge, redis, table, index, backfill, black, dislikes, job, count,
                     disliked>>
  BY <1>0 DEF Cache!Begin, Cache!stores, Cache!world, Cache!opinion
<1>2. /\ p \in Cache!Progress /\ p.step \in {"redis", "retrieve"} /\ p.q = q
      /\ Fits(c, p)
  <2>1. /\ Cache!First(kind, known) \in {"redis", "retrieve"}
        /\ kind # "agent" /\ known => Cache!First(kind, known) = "retrieve"
    BY DEF Cache!First
  <2>2. Cache!Live \in SUBSET Evidence
    BY DEF Cache!Live
  <2>3. p \in Cache!Progress
    BY <2>1, <2>2 DEF Cache!Progress
  <2>4. /\ p.step = Cache!First(kind, known) /\ p.q = q /\ p.ans = None
        /\ p.seen = Cache!Live /\ p.kind = kind /\ p.barred = known
    OBVIOUS
  <2> HIDE DEF p
  <2> QED
    BY <1>0, <2>1, <2>3, <2>4 DEF Fits, Making
<1> HIDE DEF p
<1>3. /\ call'[c] = p /\ \A d \in Pair : d # c => call'[d] = call[d]
      /\ call' \in [Pair -> Cache!Progress \cup {Cache!Over, None}]
  BY <1>1, <1>2 DEF CacheInv, CacheKinds, Cache!TypeOK
<1>4. CacheKinds'
  BY <1>1, <1>3 DEF CacheInv, CacheKinds, Cache!TypeOK
<1>5. CallsFit'
  <2> SUFFICES ASSUME NEW d \in Pair, call'[d] \in Cache!Progress PROVE Fits(d, call[d])'
    BY DEF CallsFit
  <2>1. Cache!Live' = Cache!Live
    BY <1>1 DEF Cache!Live
  <2>2. Fits(d, call'[d])
    BY <1>2, <1>3 DEF CacheInv, CallsFit
  <2> QED
    BY <1>1, <2>1, <2>2 DEF Fits
<1>6. \A d \in Pair : call[d] = Cache!Over \/ call[d] \in Cache!Progress => call'[d] = call[d]
  BY <1>1, <1>3, NoneIsNothing
<1>7. KeptOnce'
  <2>1. \A r \in Questions, a \in Whole : Keeps(r, a)' => Keeps(r, a)
    BY <1>1 DEF Keeps
  <2>2. \A a \in Whole : a.by \in Pair
    BY DEF Whole, Cache!Answer
  <2>3. \A d \in Pair : Storing(d) => Storing(d)'
    BY <1>6 DEF Storing
  <2>4. \A r \in Questions, a \in Whole : Keeps(r, a)' =>
          call'[a.by] = Cache!Over \/ (Storing(a.by)' /\ call'[a.by].q = r)
    BY <1>6, <2>1, <2>2, <2>3 DEF CacheInv, KeptOnce, Storing
  <2>5. \A a \in disliked' : call'[a.by] = Cache!Over \/ Storing(a.by)'
    BY <1>1, <1>6, <2>2, <2>3 DEF CacheInv, CacheKinds, KeptOnce
  <2>6. \A r, s \in Questions, a, b \in Whole :
          Keeps(r, a)' /\ Keeps(s, b)' /\ a.by = b.by => r = s
    BY <2>1 DEF CacheInv, KeptOnce
  <2> QED
    BY <2>4, <2>5, <2>6 DEF KeptOnce
<1>8. DislikesHold'
  <2> SUFFICES ASSUME NEW r \in Questions, r \notin crossed' PROVE OnItsOwn(r)'
    BY DEF DislikesHold
  <2>1. OnItsOwn(r) /\ (job[r] # "idle" => r # q)
    BY <1>1 DEF CacheInv, DislikesHold
  <2>2. Cache!Working(r)' => Cache!Working(r) \/ r = q
    BY <1>1, <1>2, <1>3 DEF Cache!Working
  <2>3. \A d \in Pair : call'[d] # None /\ call'[d].step = "cache" => call'[d] = call[d]
    BY <1>2, <1>3
  <2> QED
    BY <1>1, <2>1, <2>2, <2>3, NoneIsNothing DEF OnItsOwn
<1> QED
  BY <1>4, <1>5, <1>7, <1>8 DEF CacheInv

\* What a layer gives, or nothing.
LEMMA LayerLookedAt ==
  ASSUME CacheInv, NEW c \in Pair, NEW layer \in {"redis", "table", "semantic"},
         NEW a \in Whole \cup {None}, Cache!At(c, {"redis", "table", "semantic"}),
         call' = Cache!Found(c, layer, a),
         \A b \in backfill' : b \in backfill \/
            /\ table[call[c].q] # None /\ ~table[call[c].q].deleted
            /\ b = Hit(call[c].q, table[call[c].q].ans),
         index' \subseteq Questions, CallOnly
  PROVE  CacheInv'
<1>1. /\ call[c] \in Cache!Progress /\ call[c].step \in {"redis", "table", "semantic"}
      /\ Fits(c, call[c])
  BY AtIsProgress
<1>2. call[c].kind # "agent" => ~call[c].barred
  BY <1>1 DEF Fits
<1>3. CASE a = None
  <2>1. PICK s \in {"retrieve", "table", "semantic"} : s = Cache!AfterMiss(c, layer, FALSE)
    BY DEF Cache!AfterMiss
  <2>2. call' = [call EXCEPT ![c] = [call[c] EXCEPT !.step = s]]
    BY <1>3, <2>1 DEF Cache!Found
  <2>3. PICK l \in Layers, x \in Whole \cup {None} : l = call[c].layer /\ x = call[c].ans
    BY <1>1 DEF Cache!Progress, Fits, Layers
  <2>4. [call[c] EXCEPT !.step = s] = [call[c] EXCEPT !.step = s, !.layer = l, !.ans = x]
    BY <1>1, <2>3 DEF Cache!Progress
  <2>5. call' = [call EXCEPT ![c] = [call[c] EXCEPT !.step = s, !.layer = l, !.ans = x]]
    BY <2>2, <2>4
  <2>6. s \in Steps /\ s # "check" /\ s # "served" /\ s \notin Making
    BY DEF Making, Steps
  <2>7. call[c].step \notin {"cache", "index"} /\ call[c].step # "served"
    BY <1>1
  <2> QED
    BY <1>1, <1>2, <2>5, <2>6, <2>7, CallSteps
<1>4. CASE a # None
  <2>1. call' = [call EXCEPT ![c] = [call[c] EXCEPT !.step = "check", !.layer = layer, !.ans = a]]
    BY <1>4 DEF Cache!Found
  <2> QED
    BY <1>1, <1>2, <1>4, <2>1, CallSteps DEF Making, Steps, Layers
<1> QED
  BY <1>3, <1>4

LEMMA CallLooks ==
  ASSUME CacheInv, NEW c \in Pair,
         Cache!LookRedis(c) \/ Cache!LookTable(c) \/ Cache!LookSemantic(c)
  PROVE  CacheInv'
<1>1. /\ CallOnly /\ index' \subseteq Questions
      /\ Cache!At(c, {"redis", "table", "semantic"})
  BY DEF CallOnly, Cache!LookRedis, Cache!LookTable, Cache!LookSemantic, Cache!stores,
         Cache!world, Cache!opinion, Cache!At, CacheInv, CacheKinds, Cache!TypeOK
<1>2. call[c].q \in Questions
  BY <1>1, AtIsProgress DEF Cache!Progress
<1>3. \A q \in Questions : redis[q] \in Whole \cup {None}
  BY DEF CacheInv, CacheKinds
<1>4. CASE Cache!LookRedis(c)
  <2>1. PICK a \in Whole \cup {None} : call' = Cache!Found(c, "redis", a)
    BY <1>2, <1>3, <1>4 DEF Cache!LookRedis
  <2>2. UNCHANGED backfill
    BY <1>4 DEF Cache!LookRedis
  <2> QED
    BY <1>1, <2>1, <2>2, LayerLookedAt
<1>5. CASE Cache!LookTable(c)
  <2>1. CASE /\ table[call[c].q] # None /\ ~table[call[c].q].deleted
             /\ call' = Cache!Found(c, "table", table[call[c].q].ans)
             /\ backfill' = backfill \cup {Hit(call[c].q, table[call[c].q].ans)}
    <3>1. table[call[c].q].ans \in Whole
      BY <1>2, <2>1 DEF CacheInv, CacheKinds
    <3> QED
      BY <1>1, <2>1, <3>1, LayerLookedAt
  <2>2. CASE call' = Cache!Found(c, "table", None) /\ UNCHANGED backfill
    BY <1>1, <2>2, LayerLookedAt
  <2> QED
    BY <1>5, <2>1, <2>2 DEF Cache!LookTable, Hit
<1>6. CASE Cache!LookSemantic(c)
  <2>1. PICK a \in Whole \cup {None} : call' = Cache!Found(c, "semantic", a)
    BY <1>3, <1>6 DEF Cache!LookSemantic, CacheInv, CacheKinds, Cache!TypeOK
  <2>2. UNCHANGED backfill
    BY <1>6 DEF Cache!LookSemantic
  <2> QED
    BY <1>1, <2>1, <2>2, LayerLookedAt
<1> QED
  BY <1>4, <1>5, <1>6

\* What is found is served if its evidence stands.
LEMMA CallChecks ==
  ASSUME CacheInv, NEW c \in Pair, NEW layer \in {"redis", "table", "semantic"},
         Cache!Check(c, layer)
  PROVE  CacheInv'
<1>1. /\ call[c] \in Cache!Progress /\ call[c].step = "check" /\ Fits(c, call[c])
  BY AtIsProgress DEF Cache!Check
<1>2. CallOnly /\ index' \subseteq Questions /\ UNCHANGED backfill
  BY DEF CallOnly, Cache!Check, Cache!stores, Cache!world, Cache!opinion, CacheInv, CacheKinds,
         Cache!TypeOK
<1>3. PICK l \in Layers, x \in Whole : l = call[c].layer /\ x = call[c].ans
  BY <1>1 DEF Cache!Progress, Fits, Layers
<1>4. /\ call[c].kind # "agent" => ~call[c].barred
      /\ call[c].step \notin {"cache", "index"} /\ call[c].step # "served"
  BY <1>1 DEF Fits
<1>5. CASE Cache!KnowledgeValid(call[c].ans) /\ Cache!Goto(c, "served")
  <2>1. [call[c] EXCEPT !.step = "served"] =
          [call[c] EXCEPT !.step = "served", !.layer = l, !.ans = x]
    BY <1>1, <1>3 DEF Cache!Progress
  <2>2. call' = [call EXCEPT ![c] = [call[c] EXCEPT !.step = "served", !.layer = l, !.ans = x]]
    BY <1>5, <2>1 DEF Cache!Goto
  <2>3. x.cites \in call[c].seen /\ x # None
    BY <1>1, <1>3, <1>5 DEF Cache!KnowledgeValid, Fits
  <2> QED
    BY <1>1, <1>2, <1>4, <2>2, <2>3, CallSteps DEF Making, Steps
<1>6. CASE call' = [call EXCEPT ![c].step = Cache!AfterMiss(c, layer, TRUE), ![c].ans = None]
  <2>1. PICK s \in {"retrieve", "table", "semantic"} : s = Cache!AfterMiss(c, layer, TRUE)
    BY DEF Cache!AfterMiss
  <2>2. call' = [call EXCEPT ![c] = [call[c] EXCEPT !.step = s, !.ans = None]]
    BY <1>1, <1>6, <2>1 DEF CacheInv, CacheKinds, Cache!TypeOK
  <2>3. [call[c] EXCEPT !.step = s, !.ans = None] =
          [call[c] EXCEPT !.step = s, !.layer = l, !.ans = None]
    BY <1>1, <1>3 DEF Cache!Progress
  <2>4. call' = [call EXCEPT ![c] = [call[c] EXCEPT !.step = s, !.layer = l, !.ans = None]]
    BY <2>2, <2>3
  <2>5. s \in Steps /\ s # "check" /\ s # "served" /\ s \notin Making
    BY DEF Making, Steps
  <2> QED
    BY <1>1, <1>2, <1>4, <2>4, <2>5, CallSteps
<1> QED
  BY <1>5, <1>6 DEF Cache!Check

\* A call ends before its answer is kept, or after.
LEMMA CallEnds ==
  ASSUME CacheInv, NEW c \in Pair,
         Cache!At(c, {"retrieve", "gate", "store", "cache", "index"}),
         Cache!Finish(c), index' \subseteq Questions, backfill' = backfill, CallOnly
  PROVE  CacheInv'
<1>1. call[c] \in Cache!Progress /\ call[c].step # "served"
  BY AtIsProgress
<1> QED
  BY <1>1, CallGoesOn DEF Cache!Finish

\* An answer is made from what is live and stored unless its question is barred by now, as far
\* as the lookup tells.
LEMMA CallMakes ==
  ASSUME CacheInv, NEW c \in Pair,
         Cache!Generate(c) \/ Cache!Gate(c) \/ Cache!StoreIndex(c)
  PROVE  CacheInv'
<1>1. /\ call[c] \in Cache!Progress /\ call[c].step \in {"retrieve", "gate", "index"}
      /\ Fits(c, call[c]) /\ Cache!At(c, {"retrieve", "gate", "store", "cache", "index"})
  <2>1. Cache!At(c, {"retrieve", "gate", "index"})
    BY DEF Cache!Generate, Cache!Gate, Cache!StoreIndex, Cache!At
  <2>2. Cache!At(c, {"retrieve", "gate", "store", "cache", "index"})
    BY <2>1 DEF Cache!At
  <2> QED
    BY <2>1, <2>2, AtIsProgress
<1>2. CallOnly /\ UNCHANGED backfill
  BY DEF CallOnly, Cache!Generate, Cache!Gate, Cache!StoreIndex, Cache!stores, Cache!world,
         Cache!opinion
<1>3. index' \subseteq Questions
  BY <1>1 DEF Cache!Generate, Cache!Gate, Cache!StoreIndex, Cache!stores, CacheInv, CacheKinds,
         Cache!TypeOK, Cache!Progress
<1>4. CASE Cache!Finish(c)
  BY <1>1, <1>2, <1>3, <1>4, CallEnds
<1>5. PICK l \in Layers : l = call[c].layer
  BY <1>1 DEF Cache!Progress, Layers
<1>6. ASSUME NEW d \in Evidence \cup {None}, NEW s \in {"gate", "store"},
             call[c].step = "retrieve", call[c].kind = "agent" => d = None,
             call[c].kind # "agent" => s = "gate",
             call' = [call EXCEPT ![c].ans = [by |-> c, kind |-> call[c].kind, cites |-> d],
                                  ![c].step = s]
      PROVE  CacheInv'
  <2> DEFINE a == [by |-> c, kind |-> call[c].kind, cites |-> d]
  <2>1. a \in Whole /\ a # None /\ a.by = c
    <3>1. a \in Cache!Answer
      BY <1>1 DEF Cache!Answer, Cache!Progress
    <3> QED
      BY <1>6, <3>1, NoneIsNothing DEF Whole
  <2>2. call' = [call EXCEPT ![c] = [call[c] EXCEPT !.ans = a, !.step = s]]
    BY <1>1, <1>6 DEF CacheInv, CacheKinds, Cache!TypeOK
  <2> HIDE DEF a
  <2>3. [call[c] EXCEPT !.ans = a, !.step = s] =
          [call[c] EXCEPT !.step = s, !.layer = l, !.ans = a]
    BY <1>1, <1>5 DEF Cache!Progress
  <2>4. call' = [call EXCEPT ![c] = [call[c] EXCEPT !.step = s, !.layer = l, !.ans = a]]
    BY <2>2, <2>3
  <2>5. s \in Steps /\ s # "check" /\ s # "served" /\ s \in Making
    BY DEF Making, Steps
  <2>6. call[c].step \notin {"cache", "index"} /\ call[c].step # "served"
    BY <1>6
  <2>7. call[c].kind # "agent" => s \in {"retrieve", "gate"}
    BY <1>6
  <2> QED
    BY <1>1, <1>2, <1>3, <2>1, <2>4, <2>5, <2>6, <2>7, CallSteps
<1>7. CASE Cache!Gate(c) /\ Cache!Goto(c, "store") /\ call[c].q \notin black
  <2>1. call[c].step = "gate" /\ call[c].ans # None /\ call[c].ans.by = c
    BY <1>1, <1>7, AtIsProgress DEF Cache!Gate, Cache!At, Fits, Making
  <2>2. PICK x \in Whole : x = call[c].ans
    BY <1>1, <2>1 DEF Fits
  <2>3. [call[c] EXCEPT !.step = "store"] =
          [call[c] EXCEPT !.step = "store", !.layer = l, !.ans = x]
    BY <1>1, <1>5, <2>2 DEF Cache!Progress
  <2>4. call' = [call EXCEPT ![c] = [call[c] EXCEPT !.step = "store", !.layer = l, !.ans = x]]
    BY <1>7, <2>3 DEF Cache!Goto
  <2>5. "store" \in Steps /\ "store" \in Making /\ ~call[c].barred
    BY <1>1, <1>7 DEF Making, Steps, Fits
  <2> QED
    BY <1>1, <1>2, <1>3, <2>1, <2>2, <2>4, <2>5, CallSteps
<1>11. CASE /\ Cache!Gate(c)
            /\ call' = [call EXCEPT ![c].step = "store", ![c].barred = FALSE]
  <2> DEFINE p == [call[c] EXCEPT !.step = "store", !.barred = FALSE]
  <2>1. call[c].step = "gate" /\ call[c].ans # None /\ call[c].ans.by = c
    BY <1>1, <1>11, AtIsProgress DEF Cache!Gate, Cache!At, Fits, Making
  <2>2. /\ p \in Cache!Progress /\ p.q = call[c].q /\ p.step = "store" /\ p.ans = call[c].ans
        /\ ~p.barred /\ p.seen = call[c].seen
    BY <1>1 DEF Cache!Progress
  <2>3. call' = [call EXCEPT ![c] = p]
    BY <1>1, <1>11 DEF CacheInv, CacheKinds, Cache!TypeOK
  <2> HIDE DEF p
  <2>4. Fits(c, p)
    BY <1>1, <2>1, <2>2 DEF Fits, Making
  <2> QED
    BY <1>1, <1>2, <1>3, <2>1, <2>2, <2>3, <2>4, CallGoesOn
<1>8. CASE Cache!Generate(c)
  <2>1. call[c].step = "retrieve" /\ None \in Evidence \cup {None} /\ Cache!Live \subseteq Evidence
    BY <1>8, <1>1 DEF Cache!Generate, Cache!At, Cache!Live
  <2> QED
    BY <1>4, <1>6, <1>8, <2>1 DEF Cache!Generate
<1>9. CASE Cache!Gate(c)
  BY <1>4, <1>7, <1>9, <1>11 DEF Cache!Gate
<1>10. CASE Cache!StoreIndex(c)
  BY <1>4, <1>10 DEF Cache!StoreIndex
<1> QED
  BY <1>8, <1>9, <1>10

\* A call keeps its answer: in the table, and then in Redis.
LEMMA AnswerIsKept ==
  ASSUME CacheInv, NEW c \in Pair, NEW p, NEW t, call[c] \in Cache!Progress,
         call[c].step \in {"store", "cache"}, Fits(c, call[c]),
         call' = [call EXCEPT ![c] = p],
         \/ p = Cache!Over /\ call[c].step = "cache"
         \/ /\ p \in Cache!Progress /\ p.q = call[c].q /\ p.ans = call[c].ans /\ Fits(c, p)
            /\ p.step = IF call[c].step = "store" THEN "cache" ELSE "index",
         t \in Cache!Rows, t.ans = call[c].ans,
         \/ UNCHANGED redis
         \/ call[c].step = "cache" /\ redis' = [redis EXCEPT ![call[c].q] = call[c].ans],
         \/ UNCHANGED table
         \/ call[c].step = "store" /\ table' = [table EXCEPT ![call[c].q] = t],
         UNCHANGED <<doc, purge, index, backfill, black, dislikes, job, count, disliked, crossed>>
  PROVE  CacheInv'
<1> DEFINE q == call[c].q
           a == call[c].ans
<1>1. /\ q \in Questions /\ call \in [Pair -> Cache!Progress \cup {Cache!Over, None}]
      /\ redis \in [Questions -> Cache!Answer \cup {None}]
      /\ table \in [Questions -> Cache!Rows \cup {None}]
  BY DEF CacheInv, CacheKinds, Cache!TypeOK, Cache!Progress
<1>2. a \in Whole /\ a # None /\ a.by = c /\ a \in Cache!Answer
  BY DEF Fits, Making, Whole
<1>3. /\ call'[c] = p /\ \A d \in Pair : d # c => call'[d] = call[d]
      /\ call' \in [Pair -> Cache!Progress \cup {Cache!Over, None}]
  BY <1>1
<1>4. /\ \A r \in Questions : redis'[r] = redis[r] \/ (r = q /\ redis'[r] = a /\ call[c].step = "cache")
      /\ redis' \in [Questions -> Cache!Answer \cup {None}]
  BY <1>1, <1>2
<1>5. /\ \A r \in Questions : table'[r] = table[r]
                              \/ (r = q /\ table'[r] = t /\ call[c].step = "store")
      /\ table' \in [Questions -> Cache!Rows \cup {None}]
  BY <1>1, <1>2
<1>6. CacheKinds'
  <2>1. Cache!TypeOK'
    BY <1>3, <1>4, <1>5 DEF CacheInv, CacheKinds, Cache!TypeOK
  <2>2. \A r \in Questions : redis'[r] # None => redis'[r] \in Whole
    BY <1>2, <1>4 DEF CacheInv, CacheKinds
  <2>3. \A r \in Questions : table'[r] # None => table'[r].ans \in Whole
    BY <1>2, <1>5 DEF CacheInv, CacheKinds
  <2> QED
    BY <2>1, <2>2, <2>3 DEF CacheInv, CacheKinds
<1>7. CallsFit'
  <2> SUFFICES ASSUME NEW d \in Pair, call'[d] \in Cache!Progress PROVE Fits(d, call[d])'
    BY DEF CallsFit
  <2>1. Cache!Live' = Cache!Live
    BY DEF Cache!Live
  <2>2. Fits(d, call'[d])
    BY <1>3, NoneIsNothing DEF CacheInv, CallsFit
  <2> QED
    BY <2>1, <2>2 DEF Fits
<1>8. \A r \in Questions, b \in Whole : Keeps(r, b)' => Keeps(r, b) \/ (r = q /\ b = a)
  BY <1>2, <1>4, <1>5, NoneIsNothing DEF Keeps
<1>9. \A r \in Questions, b \in Whole : Keeps(r, b) /\ b.by = c => call[c].step = "cache" /\ r = q
  BY NoneIsNothing DEF CacheInv, KeptOnce, Storing
<1>10. a \in disliked => call[c].step = "cache"
  BY <1>2, NoneIsNothing DEF CacheInv, KeptOnce, Storing
<1>11. /\ p = Cache!Over \/ (p \in Cache!Progress /\ p.step \in {"cache", "index"} /\ p.q = q)
       /\ p # None
  BY NoneIsNothing
<1> HIDE DEF q, a
<1>12. KeptOnce'
  <2>1. \A r \in Questions, b \in Whole : Keeps(r, b)' =>
          call'[b.by] = Cache!Over \/ (Storing(b.by)' /\ call'[b.by].q = r)
    <3> SUFFICES ASSUME NEW r \in Questions, NEW b \in Whole, Keeps(r, b)'
                 PROVE  call'[b.by] = Cache!Over \/ (Storing(b.by)' /\ call'[b.by].q = r)
      OBVIOUS
    <3>1. b.by \in Pair
      BY DEF Whole, Cache!Answer
    <3>2. CASE b.by = c
      <4>1. r = q
        BY <1>8, <1>9, <3>2
      <4> QED
        BY <1>3, <1>11, <3>2, <4>1 DEF Storing
    <3>3. CASE b.by # c
      <4>1. Keeps(r, b)
        BY <1>2, <1>8, <3>3
      <4>2. call[b.by] = Cache!Over \/ (Storing(b.by) /\ call[b.by].q = r)
        BY <4>1 DEF CacheInv, KeptOnce
      <4> QED
        BY <1>3, <3>1, <3>3, <4>2 DEF Storing
    <3> QED
      BY <3>2, <3>3
  <2>2. \A b \in disliked' : call'[b.by] = Cache!Over \/ Storing(b.by)'
    <3> SUFFICES ASSUME NEW b \in disliked PROVE call'[b.by] = Cache!Over \/ Storing(b.by)'
      OBVIOUS
    <3>1. b \in Whole /\ b.by \in Pair
      BY DEF CacheInv, CacheKinds, Whole, Cache!Answer
    <3>2. CASE b.by = c
      BY <1>3, <1>11, <3>2 DEF Storing
    <3>3. CASE b.by # c
      BY <1>3, <3>1, <3>3 DEF CacheInv, KeptOnce, Storing
    <3> QED
      BY <3>2, <3>3
  <2>3. \A r, s \in Questions, b, e \in Whole :
          Keeps(r, b)' /\ Keeps(s, e)' /\ b.by = e.by => r = s
    <3> SUFFICES ASSUME NEW r \in Questions, NEW s \in Questions, NEW b \in Whole,
                        NEW e \in Whole, Keeps(r, b)', Keeps(s, e)', b.by = e.by
                 PROVE  r = s
      OBVIOUS
    <3>1. CASE b.by = c
      BY <1>8, <1>9, <3>1
    <3>2. CASE b.by # c
      BY <1>2, <1>8, <3>2 DEF CacheInv, KeptOnce
    <3> QED
      BY <3>1, <3>2
  <2> QED
    BY <2>1, <2>2, <2>3 DEF KeptOnce
<1>13. DislikesHold'
  <2> SUFFICES ASSUME NEW r \in Questions, r \notin crossed PROVE OnItsOwn(r)'
    BY DEF DislikesHold
  <2>1. OnItsOwn(r) /\ Cache!Working(q)
    <3>1. Cache!Working(q)
      BY NoneIsNothing DEF Cache!Working, q
    <3> QED
      BY <3>1 DEF CacheInv, DislikesHold
  <2>2. Cache!Working(r)' => Cache!Working(r)
    BY <1>3, <1>11, <2>1, NoneIsNothing DEF Cache!Working, Cache!Over
  <2>3. r = q => job[r] = "idle"
    BY <2>1 DEF OnItsOwn
  <2>4. call[c].step = "cache" /\ job[q] = "idle" /\ q = r => a \notin disliked
    BY <2>1 DEF OnItsOwn, q, a
  <2>5. job[r] # "table" /\ table'[r] # None /\ table'[r].ans \in disliked => table'[r].deleted
    <3>1. CASE table'[r] = table[r]
      BY <2>1, <3>1 DEF OnItsOwn
    <3>2. CASE r = q /\ table'[r] = t /\ call[c].step = "store"
      BY <1>10, <3>2 DEF a
    <3> QED
      BY <1>5, <3>1, <3>2
  <2>6. job[r] = "idle" => redis'[r] \notin disliked
    BY <1>4, <2>1, <2>4 DEF OnItsOwn
  <2>7. ASSUME job[r] = "idle", NEW d \in Pair, call'[d] \in Cache!Progress, call'[d].q = r,
               call'[d].step = "cache"
        PROVE  call'[d].ans \notin disliked
    <3>1. CASE d = c
      <4>1. call[c].step = "store" /\ call'[d].ans = a
        BY <1>3, <2>7, <3>1, NoneIsNothing DEF a
      <4> QED
        BY <1>10, <4>1
    <3>2. CASE d # c
      BY <1>3, <2>1, <2>7, <3>2 DEF OnItsOwn
    <3> QED
      BY <3>1, <3>2
  <2> QED
    BY <2>1, <2>2, <2>5, <2>6, <2>7 DEF OnItsOwn
<1> QED
  BY <1>6, <1>7, <1>12, <1>13 DEF CacheInv

LEMMA CallStores ==
  ASSUME CacheInv, NEW c \in Pair, Cache!StoreTable(c) \/ Cache!StoreRedis(c)
  PROVE  CacheInv'
<1> DEFINE q == call[c].q
           t == Cache!Stored(q, call[c].ans)
<1>1. /\ call[c] \in Cache!Progress /\ call[c].step \in {"store", "cache"} /\ Fits(c, call[c])
      /\ Cache!StoreTable(c) => call[c].step = "store"
      /\ Cache!StoreRedis(c) => call[c].step = "cache"
  BY AtIsProgress DEF Cache!StoreTable, Cache!StoreRedis
<1>2. q \in Questions /\ call[c].ans \in Cache!Answer
  BY <1>1 DEF Cache!Progress, Fits, Making, Whole
<1>3. t \in Cache!Rows /\ t.ans = call[c].ans
  BY <1>2 DEF Cache!Stored, Cache!Rows, CacheInv, CacheKinds, Cache!TypeOK
<1>4. UNCHANGED <<doc, purge, index, backfill, black, dislikes, job, count, disliked, crossed>>
  BY DEF Cache!StoreTable, Cache!StoreRedis, Cache!world, Cache!opinion
<1>5. \A s \in {"cache", "index"} :
        LET p == [call[c] EXCEPT !.step = s] IN
        p \in Cache!Progress /\ p.step = s /\ p.q = q /\ p.ans = call[c].ans /\ Fits(c, p)
  <2> TAKE s \in {"cache", "index"}
  <2> DEFINE p == [call[c] EXCEPT !.step = s]
  <2>1. /\ p \in Cache!Progress /\ p.step = s /\ p.q = q /\ p.ans = call[c].ans
        /\ p.seen = call[c].seen /\ p.kind = call[c].kind /\ p.barred = call[c].barred
    BY <1>1 DEF Cache!Progress
  <2> HIDE DEF p
  <2>2. Fits(c, p)
    BY <1>1, <2>1 DEF Fits, Making
  <2> QED
    BY <2>1, <2>2 DEF p
<1>6. CASE Cache!StoreTable(c)
  <2>1. /\ call' = [call EXCEPT ![c] = [call[c] EXCEPT !.step = "cache"]]
        /\ UNCHANGED redis
        /\ UNCHANGED table \/ table' = [table EXCEPT ![q] = t]
    BY <1>6 DEF Cache!StoreTable, Cache!Goto
  <2> DEFINE p == [call[c] EXCEPT !.step = "cache"]
  <2>2. p \in Cache!Progress /\ p.step = "cache" /\ p.q = q /\ p.ans = call[c].ans /\ Fits(c, p)
    BY <1>5
  <2> HIDE DEF p, t
  <2> QED
    BY <1>1, <1>3, <1>4, <1>6, <2>1, <2>2, AnswerIsKept DEF p
<1>7. CASE Cache!StoreRedis(c)
  <2>1. /\ UNCHANGED table
        /\ UNCHANGED redis \/ redis' = [redis EXCEPT ![q] = call[c].ans]
    BY <1>7 DEF Cache!StoreRedis
  <2> HIDE DEF t
  <2>2. CASE call' = [call EXCEPT ![c] = Cache!Over]
    BY <1>1, <1>3, <1>4, <1>7, <2>1, <2>2, AnswerIsKept
  <2>3. CASE call' = [call EXCEPT ![c] = [call[c] EXCEPT !.step = "index"]]
    <3> DEFINE p == [call[c] EXCEPT !.step = "index"]
    <3>1. p \in Cache!Progress /\ p.step = "index" /\ p.q = q /\ p.ans = call[c].ans /\ Fits(c, p)
      BY <1>5
    <3>2. call' = [call EXCEPT ![c] = p]
      BY <2>3
    <3> HIDE DEF p
    <3> QED
      BY <1>1, <1>3, <1>4, <1>7, <2>1, <3>1, <3>2, AnswerIsKept
  <2> QED
    BY <1>7, <2>2, <2>3 DEF Cache!StoreRedis, Cache!Goto, Cache!Finish
<1> QED
  BY <1>6, <1>7

\* Whatever leaves the calls, the dislikes and the invalidations alone and only takes
\* answers away, or moves one that may be served to where Redis will have it.
LEMMA StoresShrink ==
  ASSUME CacheInv,
         redis' \in [Questions -> Cache!Answer \cup {None}],
         table' \in [Questions -> Cache!Rows \cup {None}],
         \A q \in Questions, a \in Cache!Answer : redis'[q] = a =>
           redis[q] = a \/ Hit(q, a) \in backfill,
         \A q \in Questions : table'[q] # None =>
           /\ table[q] # None /\ table'[q].ans = table[q].ans
           /\ table[q].deleted => table'[q].deleted,
         \A b \in backfill' : b \in backfill,
         UNCHANGED <<doc, black, call, job, disliked, crossed>>,
         Cache!TypeOK'
  PROVE  CacheInv'
<1>0. \A q \in Questions : redis'[q] # None => redis'[q] \in Cache!Answer
  OBVIOUS
<1>1. CacheKinds'
  <2>1. \A q \in Questions : redis'[q] # None => redis'[q] \in Whole
    <3> SUFFICES ASSUME NEW q \in Questions, redis'[q] # None PROVE redis'[q] \in Whole
      OBVIOUS
    <3>1. redis[q] = redis'[q] \/ Hit(q, redis'[q]) \in backfill
      BY <1>0
    <3>2. CASE Hit(q, redis'[q]) \in backfill
      BY <3>2 DEF CacheInv, CacheKinds, Hit
    <3> QED
      BY <3>1, <3>2 DEF CacheInv, CacheKinds
  <2>2. \A q \in Questions : table'[q] # None => table'[q].ans \in Whole
    BY DEF CacheInv, CacheKinds
  <2> QED
    BY <2>1, <2>2 DEF CacheInv, CacheKinds
<1>2. CallsFit'
  BY DEF CacheInv, CallsFit, Fits, Cache!Live
<1>3. \A q \in Questions, a \in Whole : Keeps(q, a)' => Keeps(q, a)
  BY DEF Keeps, Whole
<1>4. KeptOnce'
  <2>1. \A q \in Questions, a \in Whole : Keeps(q, a)' =>
          call'[a.by] = Cache!Over \/ (Storing(a.by)' /\ call'[a.by].q = q)
    BY <1>3 DEF CacheInv, KeptOnce, Storing
  <2>2. \A a \in disliked' : call'[a.by] = Cache!Over \/ Storing(a.by)'
    BY DEF CacheInv, KeptOnce, Storing
  <2>3. \A q, r \in Questions, a, b \in Whole :
          Keeps(q, a)' /\ Keeps(r, b)' /\ a.by = b.by => q = r
    BY <1>3 DEF CacheInv, KeptOnce
  <2> QED
    BY <2>1, <2>2, <2>3 DEF KeptOnce
<1>5. DislikesHold'
  <2> SUFFICES ASSUME NEW q \in Questions, q \notin crossed PROVE OnItsOwn(q)'
    BY DEF DislikesHold
  <2>1. OnItsOwn(q)
    BY DEF CacheInv, DislikesHold
  <2>2. Cache!Working(q)' => Cache!Working(q)
    BY DEF Cache!Working
  <2>3. ASSUME job[q] = "idle" PROVE redis'[q] \notin disliked
    <3>1. CASE redis'[q] = None
      BY <3>1, NoneIsNothing DEF CacheInv, CacheKinds
    <3>2. CASE redis'[q] # None
      <4>1. redis[q] = redis'[q] \/ Hit(q, redis'[q]) \in backfill
        BY <1>0, <3>2
      <4> QED
        BY <2>1, <2>3, <4>1 DEF OnItsOwn, Hit
    <3> QED
      BY <3>1, <3>2
  <2>4. job[q] # "table" /\ table'[q] # None /\ table'[q].ans \in disliked => table'[q].deleted
    <3> SUFFICES ASSUME job[q] # "table", table'[q] # None, table'[q].ans \in disliked
                 PROVE  table'[q].deleted
      OBVIOUS
    <3>1. table[q] # None /\ table[q].ans \in disliked /\ (table[q].deleted => table'[q].deleted)
      OBVIOUS
    <3> QED
      BY <2>1, <3>1 DEF OnItsOwn
  <2> QED
    BY <2>1, <2>2, <2>3, <2>4 DEF OnItsOwn
<1> QED
  BY <1>1, <1>2, <1>4, <1>5 DEF CacheInv

\* A hit reaches Redis; keys expire, rows are cleaned up or invalidated with a document.
LEMMA StoresChange ==
  ASSUME CacheInv,
         \/ \E b \in backfill : Cache!Backfill(b)
         \/ \E q \in Questions : Cache!Expire(q) \/ Cache!Cleanup(q)
         \/ \E d \in Evidence : Cache!InvalidateForDoc(d)
  PROVE  CacheInv'
<1>1. /\ redis \in [Questions -> Cache!Answer \cup {None}]
      /\ table \in [Questions -> Cache!Rows \cup {None}]
  BY DEF CacheInv, CacheKinds, Cache!TypeOK
<1>2. ASSUME NEW b \in backfill, Cache!Backfill(b) PROVE CacheInv'
  <2>1. PICK q \in Questions, a \in Whole : b = Hit(q, a)
    BY DEF CacheInv, CacheKinds
  <2>2. /\ backfill' = backfill \ {b} /\ (redis' = redis \/ redis' = [redis EXCEPT ![q] = a])
        /\ UNCHANGED <<doc, purge, table, index, black, dislikes, job, count, call, disliked,
                       crossed>>
    BY <1>2, <2>1 DEF Cache!Backfill, Cache!world, Cache!opinion, Hit
  <2>3. a \in Cache!Answer /\ Hit(q, a) \in backfill
    BY <2>1 DEF Whole
  <2>4. redis' \in [Questions -> Cache!Answer \cup {None}]
    BY <1>1, <2>2, <2>3
  <2>5. \A r \in Questions, x \in Cache!Answer : redis'[r] = x =>
          redis[r] = x \/ Hit(r, x) \in backfill
    BY <1>1, <2>2, <2>3
  <2>6. Cache!TypeOK'
    BY <2>2, <2>4 DEF CacheInv, CacheKinds, Cache!TypeOK
  <2>7. /\ table' \in [Questions -> Cache!Rows \cup {None}]
        /\ \A r \in Questions : table'[r] = table[r]
    BY <1>1, <2>2
  <2> QED
    BY <2>2, <2>4, <2>5, <2>6, <2>7, StoresShrink
<1>3. ASSUME NEW q \in Questions, Cache!Expire(q) PROVE CacheInv'
  <2>1. /\ redis' = [redis EXCEPT ![q] = None]
        /\ UNCHANGED <<doc, purge, table, index, backfill, black, dislikes, job, count, call,
                       disliked, crossed>>
    BY <1>3 DEF Cache!Expire, Cache!world, Cache!opinion
  <2>2. /\ redis' \in [Questions -> Cache!Answer \cup {None}]
        /\ \A r \in Questions, x \in Cache!Answer : redis'[r] = x => redis[r] = x
    BY <1>1, <2>1, NoneIsNothing
  <2>3. Cache!TypeOK'
    BY <2>1, <2>2 DEF CacheInv, CacheKinds, Cache!TypeOK
  <2> QED
    BY <1>1, <2>1, <2>2, <2>3, StoresShrink
<1>4. ASSUME NEW q \in Questions, Cache!Cleanup(q) PROVE CacheInv'
  <2>1. /\ table' = [table EXCEPT ![q] = None]
        /\ UNCHANGED <<doc, purge, redis, index, backfill, black, dislikes, job, count, call,
                       disliked, crossed>>
    BY <1>4 DEF Cache!Cleanup, Cache!world, Cache!opinion
  <2>2. /\ table' \in [Questions -> Cache!Rows \cup {None}]
        /\ \A r \in Questions : table'[r] # None => table'[r] = table[r]
    BY <1>1, <2>1
  <2>3. Cache!TypeOK'
    BY <2>1, <2>2 DEF CacheInv, CacheKinds, Cache!TypeOK
  <2> QED
    BY <1>1, <2>1, <2>2, <2>3, StoresShrink
<1>5. ASSUME NEW d \in Evidence, Cache!InvalidateForDoc(d) PROVE CacheInv'
  <2>1. /\ purge' = purge \ {d}
        /\ UNCHANGED <<doc, redis, index, backfill, black, dislikes, job, count, call, disliked,
                       crossed>>
    BY <1>5 DEF Cache!InvalidateForDoc, Cache!opinion
  <2>2. /\ table' \in [Questions -> Cache!Rows \cup {None}]
        /\ \A r \in Questions : table'[r] # None =>
             /\ table[r] # None /\ table'[r].ans = table[r].ans
             /\ table[r].deleted => table'[r].deleted
    <3>1. CASE UNCHANGED table
      BY <1>1, <3>1
    <3>2. CASE table' = [q \in Questions |->
                 IF table[q] # None /\ table[q].ans.cites = d
                 THEN [table[q] EXCEPT !.deleted = TRUE] ELSE table[q]]
      <4>1. \A q \in Questions : table[q] # None => table[q] \in Cache!Rows
        BY <1>1
      <4>2. \A r \in Cache!Rows :
              /\ [r EXCEPT !.deleted = TRUE] \in Cache!Rows
              /\ [r EXCEPT !.deleted = TRUE].ans = r.ans /\ [r EXCEPT !.deleted = TRUE].deleted
        BY DEF Cache!Rows
      <4> QED
        BY <1>1, <3>2, <4>1, <4>2
    <3> QED
      BY <1>5, <3>1, <3>2 DEF Cache!InvalidateForDoc
  <2>3. Cache!TypeOK'
    BY <2>1, <2>2 DEF CacheInv, CacheKinds, Cache!TypeOK
  <2> QED
    BY <1>1, <2>1, <2>2, <2>3, StoresShrink
<1> QED
  BY <1>2, <1>3, <1>4, <1>5

\* What stays of the calls and of what is kept when neither goes on.
LEMMA KeptStays ==
  ASSUME CacheInv, UNCHANGED <<doc, black, call>>,
         \A q \in Questions, a \in Whole : Keeps(q, a)' => Keeps(q, a),
         \A a \in disliked' : a \in disliked \/ \E q \in Questions : a \in Whole /\ Keeps(q, a)
  PROVE  CallsFit' /\ KeptOnce'
<1>1. CallsFit'
  BY DEF CacheInv, CallsFit, Fits, Cache!Live
<1>2. \A q \in Questions, a \in Whole : Keeps(q, a)' =>
        call'[a.by] = Cache!Over \/ (Storing(a.by)' /\ call'[a.by].q = q)
  BY DEF CacheInv, KeptOnce, Storing
<1>3. \A a \in disliked' : call'[a.by] = Cache!Over \/ Storing(a.by)'
  BY DEF CacheInv, KeptOnce, Storing
<1>4. \A q, r \in Questions, a, b \in Whole :
        Keeps(q, a)' /\ Keeps(r, b)' /\ a.by = b.by => q = r
  BY DEF CacheInv, KeptOnce
<1> QED
  BY <1>1, <1>2, <1>3, <1>4 DEF KeptOnce

\* A worker starts with what was asked often.
LEMMA CacheWarmed ==
  ASSUME CacheInv, NEW qs \in SUBSET Questions, Cache!Warm(qs)
  PROVE  CacheInv'
<1>1. /\ \A q \in qs : table[q] # None /\ ~table[q].deleted
      /\ backfill' = backfill \cup {Hit(q, table[q].ans) : q \in qs}
      /\ crossed' = crossed \cup {q \in qs : job[q] # "idle"}
      /\ UNCHANGED <<doc, purge, redis, table, index, black, dislikes, job, count, call, disliked>>
  BY DEF Cache!Warm, Cache!stores, Cache!world, Cache!opinion, Hit
<1>2. \A b \in backfill' : b \in backfill \/ \E q \in qs : b = Hit(q, table[q].ans)
  BY <1>1
<1>3. CacheKinds'
  <2>1. Cache!TypeOK'
    BY <1>1 DEF CacheInv, CacheKinds, Cache!TypeOK
  <2>2. \A b \in backfill' : \E q \in Questions, a \in Whole : b = Hit(q, a)
    BY <1>1, <1>2 DEF CacheInv, CacheKinds
  <2> QED
    BY <1>1, <2>1, <2>2 DEF CacheInv, CacheKinds
<1>4. CallsFit' /\ KeptOnce'
  <2>1. ASSUME NEW q \in Questions, NEW a \in Whole, Keeps(q, a)' PROVE Keeps(q, a)
    <3>1. CASE Hit(q, a) \in backfill'
      <4>1. Hit(q, a) \in backfill \/ (q \in qs /\ a = table[q].ans)
        BY <1>2, <3>1 DEF Hit
      <4> QED
        BY <1>1, <2>1, <4>1 DEF Keeps
    <3> QED
      BY <1>1, <2>1, <3>1 DEF Keeps
  <2> QED
    BY <1>1, <2>1, KeptStays
<1>5. DislikesHold'
  <2> SUFFICES ASSUME NEW r \in Questions, r \notin crossed' PROVE OnItsOwn(r)'
    BY DEF DislikesHold
  <2>1. OnItsOwn(r) /\ (r \in qs => job[r] = "idle")
    BY <1>1 DEF CacheInv, DislikesHold
  <2>2. \A b \in backfill' : b.q = r => b \in backfill \/ (r \in qs /\ b.ans = table[r].ans)
    BY <1>2 DEF Hit
  <2>3. Cache!Working(r)' => Cache!Working(r) \/ r \in qs
    BY <1>1, <2>2 DEF Cache!Working
  <2>4. ASSUME job[r] = "idle", NEW b \in backfill', b.q = r PROVE b.ans \notin disliked
    BY <1>1, <2>1, <2>2, <2>4 DEF OnItsOwn
  <2> QED
    BY <1>1, <2>1, <2>3, <2>4 DEF OnItsOwn
<1> QED
  BY <1>3, <1>4, <1>5 DEF CacheInv

\* A dislike is about the answers that its question has just now.
LEMMA AnswerDisliked ==
  ASSUME CacheInv, NEW q \in Questions, Cache!Dislike(q)
  PROVE  CacheInv'
<1>1. /\ job[q] = "idle" /\ job' = [job EXCEPT ![q] = "table"] /\ count' = count \cup {q}
      /\ disliked' = disliked \cup (IF redis[q] = None THEN {} ELSE {redis[q]})
                       \cup (IF table[q] = None THEN {} ELSE {table[q].ans})
      /\ crossed' = IF Cache!Working(q) THEN crossed \cup {q} ELSE crossed
      /\ UNCHANGED <<doc, purge, redis, table, index, backfill, black, call>>
  BY DEF Cache!Dislike, Cache!stores, Cache!world
<1>2. \A a \in disliked' : a \in disliked \/ (a \in Whole /\ Keeps(q, a))
  BY <1>1, NoneIsNothing DEF CacheInv, CacheKinds, Keeps
<1>3. job' \in [Questions -> {"idle", "table", "redis"}]
  BY <1>1 DEF CacheInv, CacheKinds, Cache!TypeOK
<1>4. CacheKinds'
  <2>1. Cache!TypeOK'
    BY <1>1, <1>3 DEF CacheInv, CacheKinds, Cache!TypeOK
  <2>2. disliked' \subseteq Whole
    BY <1>2 DEF CacheInv, CacheKinds
  <2> QED
    BY <1>1, <2>1, <2>2 DEF CacheInv, CacheKinds
<1>5. CallsFit' /\ KeptOnce'
  <2>1. \A r \in Questions, a \in Whole : Keeps(r, a)' => Keeps(r, a)
    BY <1>1 DEF Keeps
  <2> QED
    BY <1>1, <1>2, <2>1, KeptStays
<1>6. DislikesHold'
  <2> SUFFICES ASSUME NEW r \in Questions, r \notin crossed' PROVE OnItsOwn(r)'
    BY DEF DislikesHold
  <2>1. OnItsOwn(r)
    BY <1>1 DEF CacheInv, DislikesHold
  <2>2. Cache!Working(r)' <=> Cache!Working(r)
    BY <1>1 DEF Cache!Working
  <2>3. CASE r = q
    BY <1>1, <1>3, <2>1, <2>2, <2>3 DEF OnItsOwn, CacheInv, CacheKinds, Cache!TypeOK
  <2>4. CASE r # q
    <3>1. job'[r] = job[r]
      BY <1>1, <2>4 DEF CacheInv, CacheKinds, Cache!TypeOK
    <3>2. \A a \in Whole : Keeps(r, a) => (a \in disliked' => a \in disliked)
      BY <1>2, <2>4 DEF CacheInv, KeptOnce
    <3>3. redis'[r] \in disliked' => redis[r] \in disliked
      <4>1. redis[r] # None => redis[r] \in Whole /\ Keeps(r, redis[r])
        BY DEF CacheInv, CacheKinds, Keeps
      <4>2. None \notin disliked'
        BY <1>4, NoneIsNothing DEF CacheKinds
      <4> QED
        BY <1>1, <3>2, <4>1, <4>2
    <3>4. table[r] # None /\ table[r].ans \in disliked' => table[r].ans \in disliked
      <4>1. table[r] # None => table[r].ans \in Whole /\ Keeps(r, table[r].ans)
        BY NoneIsNothing DEF CacheInv, CacheKinds, Keeps
      <4> QED
        BY <3>2, <4>1
    <3>5. ASSUME NEW b \in backfill, b.q = r, b.ans \in disliked' PROVE b.ans \in disliked
      <4>1. PICK a \in Whole : b = Hit(r, a)
        BY <3>5 DEF CacheInv, CacheKinds, Hit
      <4>2. Keeps(r, a) /\ b.ans = a
        BY <4>1, NoneIsNothing DEF Keeps, Hit
      <4> QED
        BY <3>2, <3>5, <4>2
    <3>6. ASSUME NEW c \in Pair, call[c] \in Cache!Progress, call[c].q = r, call[c].step = "cache",
                 call[c].ans \in disliked'
          PROVE  call[c].ans \in disliked
      <4>1. call[c].ans.by = c
        BY <3>6 DEF CacheInv, CallsFit, Fits, Making
      <4>2. ASSUME call[c].ans \in Whole, Keeps(q, call[c].ans) PROVE FALSE
        BY <2>4, <3>6, <4>1, <4>2, NoneIsNothing DEF CacheInv, KeptOnce
      <4> QED
        BY <1>2, <3>6, <4>2
    <3> QED
      BY <1>1, <2>1, <2>2, <3>1, <3>3, <3>4, <3>5, <3>6 DEF OnItsOwn
  <2> QED
    BY <2>3, <2>4
<1> QED
  BY <1>4, <1>5, <1>6 DEF CacheInv

\* The invalidation has its question to itself, or the question is crossed.
LEMMA CacheInvalidated ==
  ASSUME CacheInv, NEW q \in Questions, Cache!InvalidateTable(q) \/ Cache!InvalidateRedis(q)
  PROVE  CacheInv'
<1>1. UNCHANGED <<doc, purge, index, backfill, black, dislikes, count, call, disliked>>
  BY DEF Cache!InvalidateTable, Cache!InvalidateRedis, Cache!world
<1>2. /\ redis \in [Questions -> Cache!Answer \cup {None}]
      /\ table \in [Questions -> Cache!Rows \cup {None}]
      /\ job \in [Questions -> {"idle", "table", "redis"}]
  BY DEF CacheInv, CacheKinds, Cache!TypeOK
<1>3. /\ job' \in [Questions -> {"idle", "table", "redis"}] /\ job[q] # "idle"
      /\ \A r \in Questions : r # q => job'[r] = job[r]
  BY <1>2 DEF Cache!InvalidateTable, Cache!InvalidateRedis
<1>4. /\ redis' \in [Questions -> Cache!Answer \cup {None}]
      /\ \A r \in Questions : redis'[r] = redis[r] \/ redis'[r] = None
  BY <1>2 DEF Cache!InvalidateTable, Cache!InvalidateRedis
<1>5. /\ table' \in [Questions -> Cache!Rows \cup {None}]
      /\ \A r \in Questions : table'[r] # None =>
           /\ table[r] # None /\ table'[r].ans = table[r].ans
           /\ table[r].deleted => table'[r].deleted
           /\ job[q] = "table" /\ q \notin crossed' /\ r = q => table'[r].deleted
  <2>1. table[q] # None => [table[q] EXCEPT !.deleted = TRUE] \in Cache!Rows /\
          [table[q] EXCEPT !.deleted = TRUE].ans = table[q].ans /\
          [table[q] EXCEPT !.deleted = TRUE].deleted
    BY <1>2 DEF Cache!Rows
  <2>2. CASE UNCHANGED table /\ (job[q] = "table" => q \in crossed')
    BY <1>2, <2>2
  <2>3. CASE table' = IF table[q] = None THEN table ELSE [table EXCEPT ![q].deleted = TRUE]
    <3>1. CASE table[q] = None
      BY <1>2, <2>3, <3>1
    <3>2. CASE table[q] # None
      <4>1. table' = [table EXCEPT ![q] = [table[q] EXCEPT !.deleted = TRUE]]
        BY <2>3, <3>2
      <4> QED
        BY <1>2, <2>1, <3>2, <4>1
    <3> QED
      BY <3>1, <3>2
  <2> QED
    BY <2>2, <2>3 DEF Cache!InvalidateTable, Cache!InvalidateRedis
<1>6. /\ crossed \subseteq crossed'
      /\ job'[q] = "idle" /\ q \notin crossed' => redis'[q] = None /\ job[q] = "redis"
  BY <1>2 DEF Cache!InvalidateTable, Cache!InvalidateRedis
<1>7. CacheKinds'
  <2>1. Cache!TypeOK'
    BY <1>1, <1>3, <1>4, <1>5 DEF CacheInv, CacheKinds, Cache!TypeOK
  <2> QED
    BY <1>1, <1>4, <1>5, <2>1 DEF CacheInv, CacheKinds
<1>8. CallsFit' /\ KeptOnce'
  <2>1. \A r \in Questions, a \in Whole : Keeps(r, a)' => Keeps(r, a)
    BY <1>1, <1>4, <1>5 DEF Keeps
  <2> QED
    BY <1>1, <2>1, KeptStays
<1>9. DislikesHold'
  <2> SUFFICES ASSUME NEW r \in Questions, r \notin crossed' PROVE OnItsOwn(r)'
    BY DEF DislikesHold
  <2>1. OnItsOwn(r)
    BY <1>6 DEF CacheInv, DislikesHold
  <2>2. Cache!Working(r)' <=> Cache!Working(r)
    BY <1>1 DEF Cache!Working
  <2>3. None \notin disliked
    BY NoneIsNothing DEF CacheInv, CacheKinds
  <2>4. CASE r # q
    <3>1. job'[r] = job[r]
      BY <1>3, <2>4
    <3>2. job[r] = "idle" => redis'[r] \notin disliked
      BY <1>4, <2>1, <2>3 DEF OnItsOwn
    <3>3. job[r] # "table" /\ table'[r] # None /\ table'[r].ans \in disliked => table'[r].deleted
      BY <1>5, <2>1 DEF OnItsOwn
    <3> QED
      BY <1>1, <2>1, <2>2, <3>1, <3>2, <3>3 DEF OnItsOwn
  <2>5. CASE r = q
    <3>1. ~Cache!Working(q)
      BY <1>3, <2>1, <2>5 DEF OnItsOwn
    <3>2. \A b \in backfill : b.q # q
      BY <3>1 DEF Cache!Working
    <3>3. ~\E c \in Pair : call[c] \in Cache!Progress /\ call[c].q = q /\ call[c].step = "cache"
      BY <3>1, NoneIsNothing DEF Cache!Working
    <3>4. job'[q] = "idle" => redis'[q] \notin disliked
      BY <1>6, <2>3, <2>5
    <3>5. table'[q] # None /\ table'[q].ans \in disliked => table'[q].deleted
      <4>1. CASE job[q] = "table"
        BY <1>5, <2>5, <4>1
      <4>2. CASE job[q] # "table"
        BY <1>5, <2>1, <2>5, <4>2 DEF OnItsOwn
      <4> QED
        BY <4>1, <4>2
    <3> QED
      BY <1>1, <2>2, <2>5, <3>1, <3>2, <3>3, <3>4, <3>5 DEF OnItsOwn
  <2> QED
    BY <2>4, <2>5
<1> QED
  BY <1>7, <1>8, <1>9 DEF CacheInv

\* The calls keep their questions, steps and answers; what they have seen or are barred from
\* may change.
LEMMA CallsLookOn ==
  ASSUME CacheInv, Cache!TypeOK',
         \A c \in Pair : call[c] \in {None, Cache!Over} => call'[c] = call[c],
         \A c \in Pair : call[c] \in Cache!Progress =>
           /\ call'[c] \in Cache!Progress /\ Fits(c, call[c])'
           /\ call'[c].q = call[c].q /\ call'[c].step = call[c].step /\ call'[c].ans = call[c].ans,
         UNCHANGED <<redis, table, backfill, job, disliked, crossed>>
  PROVE  CacheInv'
<1>1. CacheKinds'
  BY DEF CacheInv, CacheKinds
<1>2. \A c \in Pair : call[c] \in Cache!Progress \/ call[c] \in {None, Cache!Over}
  BY DEF CacheInv, CacheKinds, Cache!TypeOK
<1>3. CallsFit'
  <2> SUFFICES ASSUME NEW c \in Pair, call'[c] \in Cache!Progress PROVE Fits(c, call[c])'
    BY DEF CallsFit
  <2>1. call[c] \in Cache!Progress
    BY <1>2, NoneIsNothing
  <2> QED
    BY <2>1
<1>4. \A c \in Pair : Storing(c) => Storing(c)' /\ call'[c].q = call[c].q
  BY DEF Storing
<1>5. KeptOnce'
  <2>1. \A q \in Questions, a \in Whole : Keeps(q, a)' => Keeps(q, a) /\ a.by \in Pair
    BY DEF Keeps, Whole, Cache!Answer
  <2>2. \A q \in Questions, a \in Whole : Keeps(q, a)' =>
          call'[a.by] = Cache!Over \/ (Storing(a.by)' /\ call'[a.by].q = q)
    BY <1>4, <2>1 DEF CacheInv, KeptOnce
  <2>3. \A a \in disliked' : call'[a.by] = Cache!Over \/ Storing(a.by)'
    <3>1. \A a \in disliked : a.by \in Pair
      BY DEF CacheInv, CacheKinds, Whole, Cache!Answer
    <3> QED
      BY <1>4, <3>1 DEF CacheInv, KeptOnce
  <2>4. \A q, r \in Questions, a, b \in Whole :
          Keeps(q, a)' /\ Keeps(r, b)' /\ a.by = b.by => q = r
    BY <2>1 DEF CacheInv, KeptOnce
  <2> QED
    BY <2>2, <2>3, <2>4 DEF KeptOnce
<1>6. DislikesHold'
  <2> SUFFICES ASSUME NEW q \in Questions, q \notin crossed PROVE OnItsOwn(q)'
    BY DEF DislikesHold
  <2>1. OnItsOwn(q)
    BY DEF CacheInv, DislikesHold
  <2>2. Cache!Working(q)' => Cache!Working(q)
    <3>1. ASSUME NEW c \in Pair, call'[c] # None, call'[c].q = q,
                 call'[c].step \notin {"served", "done"}
          PROVE  call[c] # None /\ call[c].q = q /\ call[c].step \notin {"served", "done"}
      BY <1>2, <3>1, NoneIsNothing
    <3> QED
      BY <3>1 DEF Cache!Working
  <2>3. ASSUME job[q] = "idle", NEW c \in Pair, call'[c] \in Cache!Progress, call'[c].q = q,
               call'[c].step = "cache"
        PROVE  call'[c].ans \notin disliked
    <3>1. call[c] \in Cache!Progress
      BY <1>2, <2>3, NoneIsNothing
    <3> QED
      BY <2>1, <2>3, <3>1 DEF OnItsOwn
  <2> QED
    BY <2>1, <2>2, <2>3 DEF OnItsOwn
<1> QED
  BY <1>1, <1>3, <1>5, <1>6 DEF CacheInv

\* Dislikes are counted and questions leave the blacklist; documents are held back, released,
\* removed.
LEMMA WorldTurns ==
  ASSUME CacheInv,
         \/ \E q \in Questions : Cache!CountDislikes(q) \/ Cache!Pardon(q)
         \/ Cache!Evict
         \/ \E d \in Evidence : Cache!Govern(d) \/ Cache!Remove(d)
  PROVE  CacheInv'
<1>1. /\ call \in [Pair -> Cache!Progress \cup {Cache!Over, None}]
      /\ doc \in [Evidence -> {"live", "blocked", "gone"}]
      /\ \A c \in Pair : call[c] \in Cache!Progress => Fits(c, call[c])
  BY DEF CacheInv, CacheKinds, CallsFit, Cache!TypeOK
<1>2. ASSUME NEW q \in Questions, Cache!CountDislikes(q) PROVE CacheInv'
  <2>1. /\ count' = count \ {q} /\ (black' = black \/ black' = black \cup {q})
        /\ UNCHANGED <<doc, purge, redis, table, index, backfill, dislikes, job, call,
                       disliked, crossed>>
    BY <1>2 DEF Cache!CountDislikes, Cache!stores, Cache!world
  <2>2. Cache!TypeOK'
    BY <2>1 DEF CacheInv, CacheKinds, Cache!TypeOK
  <2>3. \A c \in Pair : call[c] \in Cache!Progress => Fits(c, call[c])'
    BY <1>1, <2>1 DEF Fits, Cache!Live
  <2> QED
    BY <2>1, <2>2, <2>3, CallsLookOn
<1>3. ASSUME NEW qs \in SUBSET Questions, Cache!Unbar(qs) PROVE CacheInv'
  <2>1. /\ black' = black \ qs
        /\ call' = [c \in Pair |-> IF call[c] = None \/ call[c].q \notin qs THEN call[c]
                                   ELSE [call[c] EXCEPT !.barred = FALSE]]
        /\ UNCHANGED <<doc, purge, redis, table, index, backfill, dislikes, job, count,
                       disliked, crossed>>
    BY <1>3 DEF Cache!Unbar, Cache!stores, Cache!world
  <2>2. \A p \in Cache!Progress : LET r == [p EXCEPT !.barred = FALSE] IN
          /\ r \in Cache!Progress /\ ~r.barred /\ r.q = p.q /\ r.step = p.step /\ r.ans = p.ans
          /\ r.seen = p.seen /\ r.kind = p.kind
    BY DEF Cache!Progress
  <2>3. Cache!Over.q \notin qs
    BY NoneIsNothing DEF Cache!Over
  <2>4. \A c \in Pair : call[c] \in {None, Cache!Over} => call'[c] = call[c]
    BY <2>1, <2>3
  <2>5. ASSUME NEW c \in Pair, call[c] \in Cache!Progress
        PROVE  /\ call'[c] \in Cache!Progress /\ call'[c].seen = call[c].seen
               /\ call'[c].kind = call[c].kind
               /\ call'[c].barred => call[c].barred /\ call[c].q \notin qs
               /\ call'[c].q = call[c].q /\ call'[c].step = call[c].step
               /\ call'[c].ans = call[c].ans
    <3>1. CASE call[c].q \in qs
      <4>1. call'[c] = [call[c] EXCEPT !.barred = FALSE]
        BY <2>1, <2>5, <3>1, NoneIsNothing
      <4> QED
        BY <2>2, <2>5, <4>1
    <3>2. CASE call[c].q \notin qs
      BY <2>1, <2>5, <3>2
    <3> QED
      BY <3>1, <3>2
  <2>6. Cache!TypeOK'
    <3>1. call' \in [Pair -> Cache!Progress \cup {Cache!Over, None}]
      <4>1. \A c \in Pair : call'[c] \in Cache!Progress \cup {Cache!Over, None}
        BY <1>1, <2>4, <2>5
      <4> QED
        BY <2>1, <4>1
    <3> QED
      BY <2>1, <3>1 DEF CacheInv, CacheKinds, Cache!TypeOK
  <2>7. \A c \in Pair : call[c] \in Cache!Progress => Fits(c, call[c])'
    <3> SUFFICES ASSUME NEW c \in Pair, call[c] \in Cache!Progress PROVE Fits(c, call[c])'
      OBVIOUS
    <3>1. Cache!Live' = Cache!Live
      BY <2>1 DEF Cache!Live
    <3>2. Fits(c, call[c])
      BY <1>1
    <3>3. call'[c].barred => call'[c].q \in black'
      BY <2>1, <2>5, <3>2 DEF Fits
    <3> QED
      BY <2>5, <3>1, <3>2, <3>3 DEF Fits
  <2> QED
    BY <2>1, <2>4, <2>5, <2>6, <2>7, CallsLookOn
<1>4. ASSUME NEW d \in Evidence, Cache!Govern(d) PROVE CacheInv'
  <2>1. /\ doc' = [doc EXCEPT ![d] = IF @ = "live" THEN "blocked" ELSE "live"]
        /\ call' = [c \in Pair |-> IF call[c] \in {None, Cache!Over} THEN call[c]
                                   ELSE [call[c] EXCEPT !.seen = @ \cup {d}]]
        /\ UNCHANGED <<purge, redis, table, index, backfill, black, dislikes, job, count,
                       disliked, crossed>>
    BY <1>4 DEF Cache!Govern, Cache!stores, Cache!opinion
  <2>2. \A p \in Cache!Progress : LET r == [p EXCEPT !.seen = p.seen \cup {d}] IN
          /\ r \in Cache!Progress /\ r.barred = p.barred /\ r.q = p.q /\ r.step = p.step
          /\ r.ans = p.ans /\ r.seen = p.seen \cup {d} /\ r.kind = p.kind
    BY DEF Cache!Progress
  <2>3. ASSUME NEW c \in Pair, call[c] \in Cache!Progress
        PROVE  /\ call'[c] \in Cache!Progress /\ call'[c].seen = call[c].seen \cup {d}
               /\ call'[c].kind = call[c].kind /\ call'[c].barred = call[c].barred
               /\ call'[c].q = call[c].q /\ call'[c].step = call[c].step
               /\ call'[c].ans = call[c].ans
    <3>1. call'[c] = [call[c] EXCEPT !.seen = call[c].seen \cup {d}]
      BY <2>1, <2>3, NoneIsNothing
    <3> QED
      BY <2>2, <2>3, <3>1
  <2>4. \A c \in Pair : call[c] \in {None, Cache!Over} => call'[c] = call[c]
    BY <2>1
  <2>5. /\ doc' \in [Evidence -> {"live", "blocked", "gone"}]
        /\ \A e \in Evidence : e # d => doc'[e] = doc[e]
    BY <1>1, <2>1
  <2>6. Cache!TypeOK'
    <3>1. call' \in [Pair -> Cache!Progress \cup {Cache!Over, None}]
      <4>1. \A c \in Pair : call'[c] \in Cache!Progress \cup {Cache!Over, None}
        BY <1>1, <2>3, <2>4
      <4> QED
        BY <2>1, <4>1
    <3> QED
      BY <2>1, <2>5, <3>1 DEF CacheInv, CacheKinds, Cache!TypeOK
  <2>7. \A c \in Pair : call[c] \in Cache!Progress => Fits(c, call[c])'
    <3>1. Cache!Live' \subseteq Cache!Live \cup {d}
      BY <2>5 DEF Cache!Live
    <3> SUFFICES ASSUME NEW c \in Pair, call[c] \in Cache!Progress PROVE Fits(c, call[c])'
      OBVIOUS
    <3>2. Fits(c, call[c]) /\ black' = black
      BY <1>1, <2>1
    <3> QED
      BY <2>3, <3>1, <3>2 DEF Fits
  <2> QED
    BY <2>1, <2>3, <2>4, <2>6, <2>7, CallsLookOn
<1>5. ASSUME NEW d \in Evidence, Cache!Remove(d) PROVE CacheInv'
  <2>1. /\ doc' = [doc EXCEPT ![d] = "gone"] /\ purge' = purge \cup {d}
        /\ UNCHANGED <<redis, table, index, backfill, black, dislikes, job, count, call,
                       disliked, crossed>>
    BY <1>5 DEF Cache!Remove, Cache!stores, Cache!opinion
  <2>2. /\ doc' \in [Evidence -> {"live", "blocked", "gone"}]
        /\ \A e \in Evidence : doc'[e] = "live" => doc[e] = "live"
    BY <1>1, <2>1
  <2>3. Cache!TypeOK'
    BY <2>1, <2>2 DEF CacheInv, CacheKinds, Cache!TypeOK
  <2>4. Cache!Live' \subseteq Cache!Live
    BY <2>2 DEF Cache!Live
  <2>5. \A c \in Pair : call[c] \in Cache!Progress => Fits(c, call[c])'
    BY <1>1, <2>1, <2>4 DEF Fits
  <2> QED
    BY <2>1, <2>3, <2>5, CallsLookOn
<1>6. black \subseteq Questions
  BY DEF CacheInv, CacheKinds, Cache!TypeOK
<1>7. ASSUME NEW q \in Questions, Cache!Pardon(q) PROVE CacheInv'
  BY <1>3, <1>7 DEF Cache!Pardon
<1>8. CASE Cache!Evict
  BY <1>3, <1>6, <1>8 DEF Cache!Evict
<1> QED
  BY <1>2, <1>4, <1>5, <1>7, <1>8

LEMMA CacheStep == CacheInv /\ Cache!Next => CacheInv'
<1> SUFFICES ASSUME CacheInv, Cache!Next PROVE CacheInv'
  OBVIOUS
<1>1. ASSUME NEW c \in Pair, NEW q \in Questions, NEW kind \in Cache!Kinds,
             Cache!Begin(c, q, kind)
      PROVE  CacheInv'
  BY <1>1, CallBegins
<1>2. ASSUME NEW c \in Pair,
             \/ Cache!LookRedis(c) \/ Cache!LookTable(c) \/ Cache!LookSemantic(c)
             \/ \E layer \in {"redis", "table", "semantic"} : Cache!Check(c, layer)
      PROVE  CacheInv'
  BY <1>2, CallLooks, CallChecks
<1>3. ASSUME NEW c \in Pair,
             \/ Cache!Generate(c) \/ Cache!Gate(c) \/ Cache!StoreIndex(c)
             \/ Cache!StoreTable(c) \/ Cache!StoreRedis(c)
      PROVE  CacheInv'
  BY <1>3, CallMakes, CallStores
<1>4. ASSUME NEW qs \in SUBSET Questions, Cache!Warm(qs) PROVE CacheInv'
  BY <1>4, CacheWarmed
<1>5. ASSUME NEW q \in Questions,
             Cache!Dislike(q) \/ Cache!InvalidateTable(q) \/ Cache!InvalidateRedis(q)
      PROVE  CacheInv'
  BY <1>5, AnswerDisliked, CacheInvalidated
<1>6. CASE \/ \E b \in backfill : Cache!Backfill(b)
           \/ \E q \in Questions : Cache!Expire(q) \/ Cache!Cleanup(q)
           \/ \E d \in Evidence : Cache!InvalidateForDoc(d)
  BY <1>6, StoresChange
<1>7. CASE \/ \E q \in Questions : Cache!CountDislikes(q) \/ Cache!Pardon(q)
           \/ Cache!Evict
           \/ \E d \in Evidence : Cache!Govern(d) \/ Cache!Remove(d)
  BY <1>7, WorldTurns
<1> QED
  BY <1>1, <1>2, <1>3, <1>4, <1>5, <1>6, <1>7 DEF Cache!Next

\* However calls, dislikes, failures, warm-ups, evictions and changes of documents interleave: a
\* call serves from a cache only what cites a document that was live during it; while its question
\* is on the blacklist, as far as the lookups there succeed, it neither serves from a cache nor
\* stores; and an answer taken back by an invalidation of its own is in no layer.
THEOREM CacheStaysSound == ServicesSpec => []CacheSound
<1> DEFINE I == focus = "cache" => CacheInv
<1>1. ServicesInit => I
  BY CacheBegins DEF ServicesInit
<1>2. I /\ ServicesStep => I'
  <2> SUFFICES ASSUME I, ServicesStep, focus' = "cache" PROVE CacheInv'
    OBVIOUS
  <2>1. CacheInv
    BY DEF ServicesStep, ServicesNext, ServicesVars
  <2>2. Cache!Next \/ UNCHANGED cache
    BY DEF ServicesStep, ServicesNext, ServicesVars, cache
  <2>3. ASSUME UNCHANGED cache PROVE CacheInv'
    <3>1. /\ UNCHANGED <<doc, purge, redis, table, index, backfill, black, dislikes, job, count,
                         call, disliked, crossed>>
      BY <2>3 DEF cache
    <3>2. Cache!TypeOK'
      BY <2>1, <3>1 DEF CacheInv, CacheKinds, Cache!TypeOK
    <3>3. \A c \in Pair : call[c] \in Cache!Progress => Fits(c, call[c])'
      BY <2>1, <3>1 DEF CacheInv, CallsFit, Fits, Cache!Live
    <3> QED
      BY <2>1, <3>1, <3>2, <3>3, CallsLookOn
  <2> QED
    BY <2>1, <2>2, <2>3, CacheStep
<1>3. I => CacheSound
  BY CacheIsSound DEF CacheSound
<1> QED
  BY <1>1, <1>2, <1>3, PTL DEF ServicesSpec, ServicesStep, ServicesVars

-----------------------------------------------------------------------------
(* The knowledge graph.                                                     *)

\* Extractions under way, and what they draw.
GraphKinds ==
  /\ Graph!TypeOK
  /\ g_job \in [Pair -> Graph!Jobs \cup {None}]
  /\ deleting # None => deleting \in g_live
  /\ edits \in Nat
Drawing(x, f) == g_job[x] # None /\ g_job[x].step = "stored" /\ f \in g_job[x].facts

\* While nothing crossed: a document has one extraction or its deletion, an extraction that
\* is not stored yet has seen all of its rows, and one that is drawn is stated; every edge
\* is, and none is left of a document whose rows are about to go.
OneByOne ==
  ~g_crossed =>
    /\ \A x \in Pair : g_job[x] # None => deleting # g_job[x].doc
    /\ \A x, y \in Pair :
         g_job[x] # None /\ g_job[y] # None /\ g_job[x].doc = g_job[y].doc => x = y
    /\ edits = 0 =>
         /\ \A d \in Papers, f \in Facts : rows[d][f] <= 1
         /\ \A x \in Pair : g_job[x] # None /\ g_job[x].step = "said" =>
              g_job[x].existing = Graph!Stated(g_job[x].doc)
StatedEdges ==
  ~g_crossed /\ ~g_failed =>
    /\ \A f \in DOMAIN edges \ corrected : rows[edges[f]][f] > 0 /\ edges[f] # deleting
    /\ \A x \in Pair, f \in Facts \ corrected : Drawing(x, f) => rows[g_job[x].doc][f] > 0

\* Every fact of the rows has its edge, or will have it.
RowsDrawn ==
  ~g_failed /\ edits = 0 /\ deleting = None /\ g_live = Papers =>
    \A d \in Papers : \A f \in Graph!Stated(d) :
      f \in DOMAIN edges \/ \E x \in Pair : Drawing(x, f)

\* What a question has found may be shown, or is held back.
MayBeSeen ==
  /\ ask # None => \A t \in ask : t[1] \in TenantPapers /\ t[1] \in g_allowed \cup g_blocked
  /\ Graph!AnswersMayBeSeen

GraphInv == GraphKinds /\ OneByOne /\ StatedEdges /\ RowsDrawn /\ MayBeSeen

\* Nothing is stated or drawn at the start.
LEMMA GraphBegins == Graph!Init => GraphInv
<1> SUFFICES ASSUME Graph!Init PROVE GraphInv
  OBVIOUS
<1> USE DEF Graph!Init
<1>1. GraphKinds
  BY DEF GraphKinds, Graph!TypeOK
<1>2. OneByOne /\ StatedEdges /\ RowsDrawn
  BY DEF OneByOne, StatedEdges, RowsDrawn, Drawing, Graph!Stated
<1>3. MayBeSeen
  BY DEF MayBeSeen, Graph!AnswersMayBeSeen
<1> QED
  BY <1>1, <1>2, <1>3 DEF GraphInv

\* The invariant implies what the graph promises.
LEMMA GraphIsSound == GraphInv => Graph!GraphSound
<1> SUFFICES ASSUME GraphInv PROVE Graph!GraphSound
  OBVIOUS
<1>1. Graph!StatedOnce
  BY DEF GraphInv, OneByOne, Graph!StatedOnce
<1>2. Graph!EdgesAreStated
  BY DEF GraphInv, StatedEdges, Graph!EdgesAreStated
<1>3. Graph!RowsAreDrawn
  BY DEF GraphInv, RowsDrawn, Drawing, Graph!RowsAreDrawn, Graph!Idle
<1> QED
  BY <1>1, <1>2, <1>3 DEF GraphInv, GraphKinds, MayBeSeen, Graph!GraphSound

\* What an extraction may say are facts.
LEMMA SaidAreFacts ==
  ASSUME NEW d \in Papers, NEW said \in SUBSET Says[d]
  PROVE  Graph!Normalized(said) \subseteq Facts
BY ServicesAssumption
   DEF ServicesAssumption, Graph!GraphAssumption, Graph!Normalized, Graph!Canonical

\* An extraction reads what the rows say now.
LEMMA Extracted ==
  ASSUME GraphInv, NEW x \in Pair, Graph!Extract(x)
  PROVE  GraphInv'
<1> DEFINE Reads(d, said) ==
             /\ g_job' = [g_job EXCEPT ![x] =
                  [doc |-> d, facts |-> Graph!Normalized(said), existing |-> Graph!Stated(d),
                   step |-> "said"]]
             /\ g_crossed' = (g_crossed \/ Graph!Busy(d))
<1>0. PICK d \in g_live : \E said \in SUBSET Says[d] : Reads(d, said)
  BY DEF Graph!Extract, Graph!Parsed
<1>1. PICK said \in SUBSET Says[d] : Reads(d, said)
  BY <1>0
<1>2. g_job[x] = None /\
      UNCHANGED <<rows, edges, g_live, g_blocked, deleting, ask, g_answer, asks, g_allowed,
                  edits, corrected, g_failed>>
  BY DEF Graph!Extract, Graph!graph, Graph!asking
<1> DEFINE new == [doc |-> d, facts |-> Graph!Normalized(said), existing |-> Graph!Stated(d),
                   step |-> "said"]
<1>3. d \in Papers /\ new \in Graph!Jobs
  <2>1. d \in Papers
    BY DEF GraphInv, GraphKinds, Graph!TypeOK
  <2> QED
    BY <2>1, SaidAreFacts DEF Graph!Jobs, Graph!Stated
<1>4. /\ new.doc = d /\ new.step = "said" /\ new.existing = Graph!Stated(d)
      /\ g_job'[x] = new /\ \A y \in Pair : y # x => g_job'[y] = g_job[y]
      /\ g_job' \in [Pair -> Graph!Jobs \cup {None}]
  BY <1>1, <1>3 DEF GraphInv, GraphKinds
<1> HIDE DEF new
<1>5. GraphKinds'
  BY <1>2, <1>4 DEF GraphInv, GraphKinds, Graph!TypeOK
<1>6. Graph!Stated(d)' = Graph!Stated(d)
  BY <1>2 DEF Graph!Stated
<1>7. OneByOne'
  <2> SUFFICES ASSUME ~g_crossed' PROVE OneByOne'
    BY DEF OneByOne
  <2>1. ~g_crossed /\ deleting # d /\ \A y \in Pair : g_job[y] # None => g_job[y].doc # d
    BY <1>1 DEF Graph!Busy
  <2>2. \A y \in Pair : g_job'[y] # None => deleting # g_job'[y].doc
    BY <2>1, <1>4 DEF GraphInv, OneByOne
  <2>3. \A y, z \in Pair : g_job'[y] # None /\ g_job'[z] # None /\ g_job'[y].doc = g_job'[z].doc => y = z
    BY <2>1, <1>4 DEF GraphInv, OneByOne
  <2>4. edits = 0 => \A y \in Pair : g_job'[y] # None /\ g_job'[y].step = "said" =>
          g_job'[y].existing = Graph!Stated(g_job'[y].doc)
    BY <2>1, <1>4 DEF GraphInv, OneByOne
  <2> QED
    BY <2>1, <2>2, <2>3, <2>4, <1>2 DEF GraphInv, OneByOne, Graph!Stated
<1>8. \A y \in Pair, f \in Facts : Drawing(y, f)' <=> Drawing(y, f)
  BY <1>2, <1>4 DEF Drawing
<1>9. StatedEdges'
  <2> SUFFICES ASSUME ~g_crossed', ~g_failed' PROVE StatedEdges'
    BY DEF StatedEdges
  <2>1. ~g_crossed /\ ~g_failed
    BY <1>1, <1>2
  <2>2. \A y \in Pair, f \in Facts \ corrected : Drawing(y, f)' => rows[g_job'[y].doc][f] > 0
    BY <2>1, <1>4, <1>8 DEF GraphInv, StatedEdges, Drawing
  <2> QED
    BY <2>1, <2>2, <1>2 DEF GraphInv, StatedEdges
<1>10. RowsDrawn'
  BY <1>2, <1>8 DEF GraphInv, RowsDrawn, Graph!Stated
<1>11. MayBeSeen'
  BY <1>2 DEF GraphInv, MayBeSeen, Graph!AnswersMayBeSeen
<1> QED
  BY <1>5, <1>7, <1>9, <1>10, <1>11 DEF GraphInv

\* What is new becomes rows, and is drawn next.
LEMMA RowsStored ==
  ASSUME GraphInv, NEW x \in Pair, Graph!StoreRows(x)
  PROVE  GraphInv'
<1> DEFINE d == g_job[x].doc
           new == Graph!New(g_job[x])
<1>1. /\ g_job[x] # None /\ g_job[x].step = "said" /\ deleting # d
      /\ rows' = [rows EXCEPT ![d] = [f \in Facts |-> @[f] + (IF f \in new THEN 1 ELSE 0)]]
      /\ g_job' = [g_job EXCEPT ![x] = IF new = {} THEN None
                                       ELSE [g_job[x] EXCEPT !.step = "stored", !.facts = new]]
  BY DEF Graph!StoreRows, GraphInv, GraphKinds
<1>2. UNCHANGED <<edges, g_live, g_blocked, deleting, ask, g_answer, asks, g_allowed,
                  edits, corrected, g_crossed, g_failed>>
  BY DEF Graph!StoreRows, Graph!asking
<1>3. g_job[x] \in Graph!Jobs /\ d \in Papers /\ new \subseteq Facts
  BY <1>1 DEF GraphInv, GraphKinds, Graph!Jobs, Graph!New
<1>4. /\ g_job'[x] = IF new = {} THEN None ELSE [g_job[x] EXCEPT !.step = "stored", !.facts = new]
      /\ \A y \in Pair : y # x => g_job'[y] = g_job[y]
      /\ g_job' \in [Pair -> Graph!Jobs \cup {None}]
  BY <1>1, <1>3 DEF GraphInv, GraphKinds, Graph!Jobs
<1>5. /\ \A f \in Facts : rows'[d][f] = rows[d][f] + (IF f \in new THEN 1 ELSE 0)
      /\ \A e \in Papers : e # d => rows'[e] = rows[e]
      /\ rows' \in [Papers -> [Facts -> Nat]]
  BY <1>1, <1>3 DEF GraphInv, GraphKinds, Graph!TypeOK
<1>6. g_job'[x] # None => g_job'[x].doc = d /\ g_job'[x].step = "stored" /\ g_job'[x].facts = new
  BY <1>4, <1>3 DEF Graph!Jobs
<1>7. new # {} => g_job'[x] # None
  <2>1. [g_job[x] EXCEPT !.step = "stored", !.facts = new] \in Graph!Jobs
    BY <1>3 DEF Graph!Jobs
  <2> QED
    BY <2>1, <1>4, ServicesAssumption DEF ServicesAssumption, Graph!GraphAssumption
<1>8. \A e \in Papers, f \in Facts : rows'[e][f] >= rows[e][f]
  BY <1>5 DEF GraphInv, GraphKinds, Graph!TypeOK
<1>9. \A y \in Pair : g_job'[y] # None => g_job[y] # None /\ g_job'[y].doc = g_job[y].doc
  BY <1>1, <1>4, <1>6
<1>10. new = g_job[x].facts \ g_job[x].existing
  BY DEF Graph!New
<1> HIDE DEF d, new
<1>11. GraphKinds'
  BY <1>2, <1>4, <1>5 DEF GraphInv, GraphKinds, Graph!TypeOK
<1>12. OneByOne'
  <2> SUFFICES ASSUME ~g_crossed PROVE OneByOne'
    BY <1>2 DEF OneByOne
  <2>1. \A y \in Pair : g_job'[y] # None => deleting # g_job'[y].doc
    BY <1>9 DEF GraphInv, OneByOne
  <2>2. \A y, z \in Pair : g_job'[y] # None /\ g_job'[z] # None /\ g_job'[y].doc = g_job'[z].doc => y = z
    BY <1>9 DEF GraphInv, OneByOne
  <2>3. ASSUME edits = 0, NEW e \in Papers, NEW f \in Facts PROVE rows'[e][f] <= 1
    <3>1. rows[e][f] <= 1 /\ rows[e][f] \in Nat
      BY <2>3 DEF GraphInv, OneByOne, GraphKinds, Graph!TypeOK
    <3>2. CASE e = d /\ f \in new
      <4>1. f \notin Graph!Stated(d)
        BY <1>1, <1>10, <2>3, <3>2 DEF GraphInv, OneByOne, d
      <4> QED
        BY <4>1, <3>1, <3>2, <1>5 DEF Graph!Stated
    <3>3. CASE ~(e = d /\ f \in new)
      BY <3>1, <3>3, <1>5
    <3> QED
      BY <3>2, <3>3
  <2>4. ASSUME edits = 0, NEW y \in Pair, g_job'[y] # None, g_job'[y].step = "said"
        PROVE  g_job'[y].existing = {f \in Facts : rows'[g_job'[y].doc][f] > 0}
    <3>1. y # x /\ g_job'[y] = g_job[y] /\ g_job[y].doc \in Papers
      BY <2>4, <1>4, <1>6 DEF GraphInv, GraphKinds, Graph!Jobs
    <3>2. g_job[y].doc # d
      BY <3>1, <2>4, <1>1 DEF GraphInv, OneByOne, d
    <3> QED
      BY <3>1, <3>2, <2>4, <1>5 DEF GraphInv, OneByOne, Graph!Stated
  <2> QED
    BY <2>1, <2>2, <2>3, <2>4, <1>2 DEF OneByOne, Graph!Stated
<1>13. StatedEdges'
  <2> SUFFICES ASSUME ~g_crossed, ~g_failed PROVE StatedEdges'
    BY <1>2 DEF StatedEdges
  <2>1. \A f \in DOMAIN edges \ corrected : rows'[edges[f]][f] > 0 /\ edges[f] # deleting
    <3> SUFFICES ASSUME NEW f \in DOMAIN edges \ corrected
                 PROVE  rows'[edges[f]][f] > 0 /\ edges[f] # deleting
      OBVIOUS
    <3>1. f \in Facts /\ edges[f] \in Papers
      BY DEF GraphInv, GraphKinds, Graph!TypeOK
    <3>2. rows[edges[f]][f] \in Nat /\ rows'[edges[f]][f] \in Nat
      BY <3>1, <1>5 DEF GraphInv, GraphKinds, Graph!TypeOK
    <3> QED
      BY <3>1, <3>2, <1>8 DEF GraphInv, StatedEdges
  <2>2. ASSUME NEW y \in Pair, NEW f \in Facts \ corrected, Drawing(y, f)'
        PROVE  rows'[g_job'[y].doc][f] > 0
    <3>1. CASE y = x
      BY <3>1, <2>2, <1>3, <1>5, <1>6 DEF Drawing, GraphInv, GraphKinds, Graph!TypeOK
    <3>2. CASE y # x
      <4>1. Drawing(y, f) /\ g_job'[y] = g_job[y] /\ g_job[y].doc \in Papers
        BY <3>2, <2>2, <1>4 DEF Drawing, GraphInv, GraphKinds, Graph!Jobs
      <4>2. rows[g_job[y].doc][f] > 0
        BY <4>1 DEF GraphInv, StatedEdges
      <4>3. rows[g_job[y].doc][f] \in Nat /\ rows'[g_job[y].doc][f] \in Nat
        BY <4>1, <1>5 DEF GraphInv, GraphKinds, Graph!TypeOK
      <4> QED
        BY <4>1, <4>2, <4>3, <1>8
    <3> QED
      BY <3>1, <3>2
  <2> QED
    BY <2>1, <2>2, <1>2 DEF StatedEdges
<1>14. RowsDrawn'
  <2> SUFFICES ASSUME ~g_failed, edits = 0, deleting = None, g_live = Papers,
                      NEW e \in Papers, NEW f \in Facts, f \in Graph!Stated(e)'
               PROVE  f \in DOMAIN edges \/ \E y \in Pair : Drawing(y, f)'
    BY <1>2 DEF RowsDrawn, Graph!Stated
  <2>1. CASE f \in Graph!Stated(e)
    <3>1. CASE f \in DOMAIN edges
      BY <3>1
    <3>2. ASSUME NEW y \in Pair, Drawing(y, f) PROVE Drawing(y, f)'
      BY <3>2, <1>1, <1>4 DEF Drawing
    <3> QED
      BY <2>1, <3>1, <3>2 DEF GraphInv, RowsDrawn
  <2>2. CASE f \notin Graph!Stated(e)
    <3>1. e = d /\ f \in new
      BY <2>2, <1>5 DEF Graph!Stated, GraphInv, GraphKinds, Graph!TypeOK
    <3> QED
      BY <3>1, <1>6, <1>7 DEF Drawing
  <2> QED
    BY <2>1, <2>2
<1>15. MayBeSeen'
  BY <1>2 DEF GraphInv, MayBeSeen, Graph!AnswersMayBeSeen
<1> QED
  BY <1>11, <1>12, <1>13, <1>14, <1>15 DEF GraphInv

\* An edge is drawn, or drawing fails.
LEMMA Drawn ==
  ASSUME GraphInv, NEW x \in Pair, Graph!Draw(x)
  PROVE  GraphInv'
<1> DEFINE j == g_job[x]
<1>1. j # None /\ j.step = "stored" /\ j \in Graph!Jobs
  BY DEF Graph!Draw, GraphInv, GraphKinds
<1>2. UNCHANGED <<rows, g_live, g_blocked, deleting, ask, g_answer, asks, g_allowed, edits,
                  corrected, g_crossed>>
  BY DEF Graph!Draw, Graph!asking
<1>3. CASE g_job' = [g_job EXCEPT ![x] = None] /\ g_failed' = TRUE /\ UNCHANGED edges
  <2>1. g_job'[x] = None /\ \A y \in Pair : y # x => g_job'[y] = g_job[y]
    BY <1>3 DEF GraphInv, GraphKinds
  <2>2. GraphKinds'
    BY <1>2, <1>3 DEF GraphInv, GraphKinds, Graph!TypeOK
  <2>3. OneByOne'
    <3>1. \A y \in Pair : g_job'[y] # None => g_job'[y] = g_job[y]
      BY <2>1
    <3> QED
      BY <1>2, <3>1 DEF GraphInv, OneByOne, Graph!Stated
  <2>4. StatedEdges' /\ RowsDrawn'
    BY <1>3 DEF StatedEdges, RowsDrawn
  <2>5. MayBeSeen'
    BY <1>2 DEF GraphInv, MayBeSeen, Graph!AnswersMayBeSeen
  <2> QED
    BY <2>2, <2>3, <2>4, <2>5 DEF GraphInv
<1>4. ASSUME NEW f \in j.facts,
             edges' = Graph!Merge(f, j.doc),
             g_job' = [g_job EXCEPT ![x] = IF j.facts = {f} THEN None
                                           ELSE [j EXCEPT !.facts = j.facts \ {f}]],
             UNCHANGED g_failed
      PROVE  GraphInv'
  <2>1. f \in Facts /\ j.doc \in Papers
    BY <1>1 DEF Graph!Jobs
  <2>2. /\ DOMAIN edges' = DOMAIN edges \cup {f}
        /\ \A g \in DOMAIN edges : edges'[g] = edges[g]
        /\ f \notin DOMAIN edges => edges'[f] = j.doc
    BY <1>4 DEF Graph!Merge
  <2>3. /\ \A y \in Pair : y # x => g_job'[y] = g_job[y]
        /\ g_job'[x] = IF j.facts = {f} THEN None ELSE [j EXCEPT !.facts = j.facts \ {f}]
        /\ g_job' \in [Pair -> Graph!Jobs \cup {None}]
    BY <1>1, <1>4 DEF GraphInv, GraphKinds, Graph!Jobs
  <2>4. g_job'[x] # None =>
          g_job'[x].doc = j.doc /\ g_job'[x].step = "stored" /\ g_job'[x].facts = j.facts \ {f}
    BY <1>1, <2>3 DEF Graph!Jobs
  <2>5. j.facts # {f} => g_job'[x] # None
    <3>1. [j EXCEPT !.facts = j.facts \ {f}] \in Graph!Jobs
      BY <1>1 DEF Graph!Jobs
    <3> QED
      BY <3>1, <2>3, ServicesAssumption DEF ServicesAssumption, Graph!GraphAssumption
  <2>6. \A y \in Pair : g_job'[y] # None =>
          g_job[y] # None /\ g_job'[y].doc = g_job[y].doc /\
          (g_job'[y].step = "said" => g_job'[y] = g_job[y])
    BY <1>1, <2>3, <2>4
  <2>7. \A y \in Pair, g \in Facts : Drawing(y, g)' => Drawing(y, g) /\ g_job'[y].doc = g_job[y].doc
    BY <1>1, <2>3, <2>4 DEF Drawing
  <2>8. \A y \in Pair, g \in Facts : Drawing(y, g) => Drawing(y, g)' \/ g = f
    <3> SUFFICES ASSUME NEW y \in Pair, NEW g \in Facts, Drawing(y, g), g # f
                 PROVE  Drawing(y, g)'
      OBVIOUS
    <3>1. CASE y = x
      <4>1. j.facts # {f}
        BY <3>1 DEF Drawing
      <4> QED
        BY <3>1, <4>1, <2>4, <2>5 DEF Drawing
    <3>2. CASE y # x
      BY <3>2, <2>3 DEF Drawing
    <3> QED
      BY <3>1, <3>2
  <2> HIDE DEF j
  <2>9. GraphKinds'
    BY <1>2, <2>1, <2>2, <2>3 DEF GraphInv, GraphKinds, Graph!TypeOK
  <2>10. OneByOne'
    BY <1>2, <2>6 DEF GraphInv, OneByOne, Graph!Stated
  <2>11. StatedEdges'
    <3> SUFFICES ASSUME ~g_crossed, ~g_failed PROVE StatedEdges'
      BY <1>2, <1>4 DEF StatedEdges
    <3>1. ASSUME NEW g \in DOMAIN edges' \ corrected
          PROVE  rows[edges'[g]][g] > 0 /\ edges'[g] # deleting
      <4>1. CASE g \in DOMAIN edges
        BY <4>1, <3>1, <2>2 DEF GraphInv, StatedEdges
      <4>2. CASE g \notin DOMAIN edges
        <5>1. g = f /\ edges'[g] = j.doc
          BY <4>2, <3>1, <2>2
        <5>2. Drawing(x, f)
          BY <1>1, <1>4 DEF Drawing, j
        <5> QED
          BY <5>1, <5>2, <3>1, <1>1, <2>1 DEF GraphInv, StatedEdges, OneByOne, j
      <4> QED
        BY <4>1, <4>2
    <3>2. ASSUME NEW y \in Pair, NEW g \in Facts \ corrected, Drawing(y, g)'
          PROVE  rows[g_job'[y].doc][g] > 0
      BY <3>2, <2>7 DEF GraphInv, StatedEdges
    <3> QED
      BY <3>1, <3>2, <1>2, <1>4 DEF StatedEdges
  <2>12. RowsDrawn'
    <3> SUFFICES ASSUME ~g_failed, edits = 0, deleting = None, g_live = Papers,
                        NEW e \in Papers, NEW g \in Facts, g \in Graph!Stated(e)
                 PROVE  g \in DOMAIN edges' \/ \E y \in Pair : Drawing(y, g)'
      BY <1>2, <1>4 DEF RowsDrawn, Graph!Stated
    <3>1. g \in DOMAIN edges \/ \E y \in Pair : Drawing(y, g)
      BY DEF GraphInv, RowsDrawn
    <3> QED
      BY <3>1, <2>2, <2>8
  <2>13. MayBeSeen'
    BY <1>2 DEF GraphInv, MayBeSeen, Graph!AnswersMayBeSeen
  <2> QED
    BY <2>9, <2>10, <2>11, <2>12, <2>13 DEF GraphInv
<1>5. \/ g_job' = [g_job EXCEPT ![x] = None] /\ g_failed' = TRUE /\ UNCHANGED edges
      \/ \E f \in j.facts :
           /\ edges' = Graph!Merge(f, j.doc)
           /\ g_job' = [g_job EXCEPT ![x] = IF j.facts = {f} THEN None
                                            ELSE [j EXCEPT !.facts = j.facts \ {f}]]
           /\ UNCHANGED g_failed
  BY DEF Graph!Draw
<1> HIDE DEF j
<1> QED
  BY <1>3, <1>4, <1>5

\* The edges of a document go before its rows.
LEMMA EdgesDeleted ==
  ASSUME GraphInv, Graph!DeleteEdges
  PROVE  GraphInv'
<1>1. PICK d \in g_live :
        /\ deleting' = d /\ g_crossed' = (g_crossed \/ Graph!Busy(d))
        /\ \/ edges' = Graph!Without(d) /\ UNCHANGED g_failed
           \/ g_failed' = TRUE /\ UNCHANGED edges
  BY DEF Graph!DeleteEdges
<1>2. UNCHANGED <<rows, g_live, g_blocked, g_job, ask, g_answer, asks, g_allowed, edits, corrected>>
  BY DEF Graph!DeleteEdges, Graph!asking
<1>3. d \in Papers /\ d # None
  BY ServicesAssumption DEF GraphInv, GraphKinds, Graph!TypeOK, ServicesAssumption, Graph!GraphAssumption
<1>4. /\ DOMAIN edges' \subseteq DOMAIN edges
      /\ \A f \in DOMAIN edges' : edges'[f] = edges[f] /\ (~g_failed' => edges'[f] # d)
  BY <1>1 DEF Graph!Without
<1>5. GraphKinds'
  BY <1>1, <1>2, <1>3, <1>4 DEF GraphInv, GraphKinds, Graph!TypeOK
<1>6. OneByOne'
  BY <1>1, <1>2 DEF GraphInv, OneByOne, Graph!Busy, Graph!Stated
<1>7. StatedEdges'
  BY <1>1, <1>2, <1>4 DEF GraphInv, StatedEdges, Drawing
<1>8. RowsDrawn'
  BY <1>1, <1>3 DEF RowsDrawn
<1>9. MayBeSeen'
  BY <1>2 DEF GraphInv, MayBeSeen, Graph!AnswersMayBeSeen
<1> QED
  BY <1>5, <1>6, <1>7, <1>8, <1>9 DEF GraphInv

\* Its rows go, and the document.
LEMMA RowsDeleted ==
  ASSUME GraphInv, Graph!DeleteRows
  PROVE  GraphInv'
<1>1. /\ deleting # None /\ deleting' = None
      /\ rows' = [rows EXCEPT ![deleting] = [f \in Facts |-> 0]]
      /\ g_live' = g_live \ {deleting}
      /\ UNCHANGED <<edges, g_blocked, g_job, ask, g_answer, asks, g_allowed, edits, corrected,
                     g_crossed, g_failed>>
  BY DEF Graph!DeleteRows, Graph!asking
<1>2. deleting \in g_live /\ deleting \in Papers
  BY <1>1 DEF GraphInv, GraphKinds, Graph!TypeOK
<1>3. /\ rows' \in [Papers -> [Facts -> Nat]]
      /\ \A f \in Facts : rows'[deleting][f] = 0
      /\ \A d \in Papers : d # deleting => rows'[d] = rows[d]
  BY <1>1, <1>2 DEF GraphInv, GraphKinds, Graph!TypeOK
<1>4. GraphKinds'
  BY <1>1, <1>3 DEF GraphInv, GraphKinds, Graph!TypeOK
<1>5. OneByOne'
  <2> SUFFICES ASSUME ~g_crossed PROVE OneByOne'
    BY <1>1 DEF OneByOne
  <2>1. \A y \in Pair : g_job[y] # None => None # g_job[y].doc /\ g_job[y].doc # deleting
    BY ServicesAssumption
       DEF GraphInv, GraphKinds, OneByOne, Graph!Jobs, ServicesAssumption, Graph!GraphAssumption
  <2>2. edits = 0 => \A d \in Papers, f \in Facts : rows'[d][f] <= 1
    BY <1>3 DEF GraphInv, OneByOne
  <2>3. ASSUME edits = 0, NEW y \in Pair, g_job[y] # None, g_job[y].step = "said"
        PROVE  g_job[y].existing = {f \in Facts : rows'[g_job[y].doc][f] > 0}
    <3>1. g_job[y].doc \in Papers /\ g_job[y].doc # deleting
      BY <2>1, <2>3 DEF GraphInv, GraphKinds, Graph!Jobs
    <3> QED
      BY <3>1, <2>3, <1>3 DEF GraphInv, OneByOne, Graph!Stated
  <2> QED
    BY <2>1, <2>2, <2>3, <1>1 DEF GraphInv, OneByOne, Graph!Stated
<1>6. StatedEdges'
  <2> SUFFICES ASSUME ~g_crossed, ~g_failed PROVE StatedEdges'
    BY <1>1 DEF StatedEdges
  <2>1. ASSUME NEW f \in DOMAIN edges \ corrected
        PROVE  rows'[edges[f]][f] > 0 /\ edges[f] # None
    <3>1. edges[f] \in Papers /\ edges[f] # deleting /\ rows[edges[f]][f] > 0
      BY DEF GraphInv, GraphKinds, Graph!TypeOK, StatedEdges
    <3> QED
      BY <3>1, <1>3, ServicesAssumption DEF ServicesAssumption, Graph!GraphAssumption
  <2>2. ASSUME NEW y \in Pair, NEW f \in Facts \ corrected, Drawing(y, f)
        PROVE  rows'[g_job[y].doc][f] > 0
    <3>1. g_job[y].doc \in Papers /\ g_job[y].doc # deleting /\ rows[g_job[y].doc][f] > 0
      BY <2>2 DEF GraphInv, GraphKinds, Graph!Jobs, StatedEdges, OneByOne, Drawing
    <3> QED
      BY <3>1, <1>3
  <2> QED
    BY <2>1, <2>2, <1>1 DEF StatedEdges, Drawing
<1>7. RowsDrawn'
  BY <1>1, <1>2 DEF RowsDrawn
<1>8. MayBeSeen'
  BY <1>1 DEF GraphInv, MayBeSeen, Graph!AnswersMayBeSeen
<1> QED
  BY <1>4, <1>5, <1>6, <1>7, <1>8 DEF GraphInv

\* What a person corrects is told apart.
LEMMA Corrected ==
  ASSUME GraphInv, NEW d \in Papers, NEW f \in Facts, NEW becomes \in SUBSET Facts,
         Graph!Correct(d, f, becomes), f \notin becomes
  PROVE  GraphInv'
<1>1. /\ edits' = edits + 1 /\ rows[d][f] > 0 /\ deleting # d
      /\ rows' = [rows EXCEPT ![d] = [g \in Facts |->
           @[g] + (IF g \in becomes THEN 1 ELSE 0) - (IF g = f THEN 1 ELSE 0)]]
      /\ corrected' = corrected \cup {f}
      /\ UNCHANGED <<edges, g_live, g_blocked, g_job, deleting, ask, g_answer, asks, g_allowed,
                     g_crossed, g_failed>>
  BY DEF Graph!Correct, Graph!asking
<1>2. rows \in [Papers -> [Facts -> Nat]] /\ edits \in Nat /\ edits' # 0
  BY <1>1 DEF GraphInv, GraphKinds, Graph!TypeOK
<1>3. \A g \in Facts : rows'[d][g] = rows[d][g] + (IF g \in becomes THEN 1 ELSE 0)
                                                 - (IF g = f THEN 1 ELSE 0)
  BY <1>1, <1>2
<1>4. \A e \in Papers : e # d => rows'[e] = rows[e]
  BY <1>1, <1>2
<1>5. \A g \in Facts : rows'[d][g] \in Nat /\ (g # f => rows'[d][g] >= rows[d][g])
  BY <1>1, <1>2, <1>3
<1>6. rows' \in [Papers -> [Facts -> Nat]]
  BY <1>1, <1>2, <1>5
<1>7. \A e \in Papers, g \in Facts : g # f /\ rows[e][g] > 0 => rows'[e][g] > 0
  BY <1>2, <1>4, <1>5
<1>8. GraphKinds'
  BY <1>1, <1>2, <1>6 DEF GraphInv, GraphKinds, Graph!TypeOK
<1>9. OneByOne'
  BY <1>1, <1>2 DEF GraphInv, OneByOne
<1>10. StatedEdges'
  <2> SUFFICES ASSUME ~g_crossed, ~g_failed PROVE StatedEdges'
    BY <1>1 DEF StatedEdges
  <2>1. ASSUME NEW g \in DOMAIN edges \ corrected'
        PROVE  rows'[edges[g]][g] > 0 /\ edges[g] # deleting
    <3>1. edges[g] \in Papers /\ edges[g] # deleting /\ rows[edges[g]][g] > 0 /\ g # f /\ g \in Facts
      BY <1>1 DEF GraphInv, GraphKinds, Graph!TypeOK, StatedEdges
    <3> QED
      BY <3>1, <1>7
  <2>2. ASSUME NEW y \in Pair, NEW g \in Facts \ corrected', Drawing(y, g)
        PROVE  rows'[g_job[y].doc][g] > 0
    <3>1. g_job[y].doc \in Papers /\ g # f /\ rows[g_job[y].doc][g] > 0
      BY <1>1, <2>2 DEF GraphInv, GraphKinds, Graph!Jobs, StatedEdges, Drawing
    <3> QED
      BY <3>1, <1>7
  <2> QED
    BY <2>1, <2>2, <1>1 DEF StatedEdges, Drawing
<1>11. RowsDrawn'
  BY <1>2 DEF RowsDrawn
<1>12. MayBeSeen'
  BY <1>1 DEF GraphInv, MayBeSeen, Graph!AnswersMayBeSeen
<1> QED
  BY <1>8, <1>9, <1>10, <1>11, <1>12 DEF GraphInv

\* What is seen or shown changes no fact.
LEMMA FactsKept ==
  ASSUME GraphInv, UNCHANGED <<rows, edges, g_live, g_job, deleting, edits, corrected, g_crossed,
                               g_failed>>,
         g_blocked' \subseteq Papers, MayBeSeen'
  PROVE  GraphInv'
<1>1. GraphKinds'
  BY DEF GraphInv, GraphKinds, Graph!TypeOK
<1>2. OneByOne' /\ StatedEdges' /\ RowsDrawn'
  BY DEF GraphInv, OneByOne, StatedEdges, RowsDrawn, Drawing, Graph!Stated
<1> QED
  BY <1>1, <1>2 DEF GraphInv

\* What is blocked or released while a question waits is known to the question.
LEMMA Reviewed == GraphInv /\ Graph!Review => GraphInv'
<1> SUFFICES ASSUME GraphInv, Graph!Review PROVE GraphInv'
  OBVIOUS
<1>1. PICK d \in g_live \cap TenantPapers :
        g_blocked' = IF d \in g_blocked THEN g_blocked \ {d} ELSE g_blocked \cup {d}
  BY DEF Graph!Review
<1>2. /\ g_allowed' = g_allowed \cup (g_live \ g_blocked')
      /\ UNCHANGED <<rows, edges, g_live, g_job, deleting, ask, g_answer, edits, corrected,
                     g_crossed, g_failed>>
  BY DEF Graph!Review
<1>3. g_blocked' \subseteq Papers
  BY <1>1 DEF GraphInv, GraphKinds, Graph!TypeOK
<1>4. g_allowed \subseteq g_allowed' /\ g_allowed \cup g_blocked \subseteq g_allowed' \cup g_blocked'
  BY <1>1, <1>2
<1>5. MayBeSeen'
  BY <1>2, <1>4 DEF GraphInv, MayBeSeen, Graph!AnswersMayBeSeen
<1> QED
  BY <1>2, <1>3, <1>5, FactsKept

\* A question finds what the tenant has, and is answered with what is not held back.
LEMMA AskedAndReplied == GraphInv /\ (Graph!Ask \/ Graph!Reply) => GraphInv'
<1> SUFFICES ASSUME GraphInv, Graph!Ask \/ Graph!Reply PROVE GraphInv'
  OBVIOUS
<1>1. UNCHANGED <<rows, edges, g_live, g_blocked, g_job, deleting, edits, corrected, g_crossed,
                  g_failed>>
  BY DEF Graph!Ask, Graph!Reply, Graph!graph
<1>2. g_blocked' \subseteq Papers
  BY <1>1 DEF GraphInv, GraphKinds, Graph!TypeOK
<1>3. CASE Graph!Ask
  <2>1. g_answer' = None /\ g_allowed' = g_live \ g_blocked /\ ask' \in SUBSET Graph!Visible
    BY <1>3 DEF Graph!Ask
  <2>2. \A t \in ask' : t[1] \in g_live \cap TenantPapers
    BY <2>1 DEF Graph!Visible
  <2> QED
    BY <2>1, <2>2, <1>1, <1>2, FactsKept DEF MayBeSeen, Graph!AnswersMayBeSeen
<1>4. CASE Graph!Reply
  <2>1. ask # None /\ ask' = None /\ g_allowed' = g_allowed /\ g_answer' \in SUBSET Graph!Passing(ask)
    BY <1>4 DEF Graph!Reply
  <2>2. \A t \in g_answer' : t[1] \in g_allowed \cap TenantPapers
    BY <2>1 DEF Graph!Passing, GraphInv, MayBeSeen
  <2> QED
    BY <2>1, <2>2, <1>1, <1>2, FactsKept DEF MayBeSeen, Graph!AnswersMayBeSeen
<1> QED
  BY <1>3, <1>4

\* Every step of the graph keeps the invariant.
LEMMA GraphStep == GraphInv /\ Graph!Next => GraphInv'
<1> SUFFICES ASSUME GraphInv, Graph!Next PROVE GraphInv'
  OBVIOUS
<1>1. ASSUME NEW x \in Pair, Graph!Extract(x) \/ Graph!StoreRows(x) \/ Graph!Draw(x)
      PROVE  GraphInv'
  BY <1>1, Extracted, RowsStored, Drawn
<1>2. CASE Graph!DeleteEdges \/ Graph!DeleteRows
  BY <1>2, EdgesDeleted, RowsDeleted
<1>3. CASE Graph!UpdateTriple
  <2>1. PICK d \in Papers, f \in Facts, g \in Facts : f # g /\ Graph!Correct(d, f, {g})
    BY <1>3 DEF Graph!UpdateTriple
  <2> QED
    BY <2>1, Corrected
<1>4. CASE Graph!DeleteTriple
  <2>1. PICK d \in Papers, f \in Facts : Graph!Correct(d, f, {})
    BY <1>4 DEF Graph!DeleteTriple
  <2> QED
    BY <2>1, Corrected
<1>5. CASE Graph!Review \/ Graph!Ask \/ Graph!Reply
  BY <1>5, Reviewed, AskedAndReplied
<1> QED
  BY <1>1, <1>2, <1>3, <1>4, <1>5 DEF Graph!Next

\* MySQL and Neo4j state the same facts, each once, wherever documents go, people correct,
\* extractions overlap and Neo4j fails, up to what that leaves; and a question is answered
\* from the tenant's documents that were not held back all the time it took.
THEOREM GraphStaysSound == ServicesSpec => []GraphSound
<1> DEFINE I == focus = "graph" => GraphInv
<1>1. ServicesInit => I
  BY GraphBegins DEF ServicesInit
<1>2. I /\ ServicesStep => I'
  <2> SUFFICES ASSUME I, ServicesStep, focus' = "graph" PROVE GraphInv'
    OBVIOUS
  <2>1. GraphInv
    BY DEF ServicesStep, ServicesNext, ServicesVars
  <2>2. Graph!Next \/ UNCHANGED graph
    BY DEF ServicesStep, ServicesNext, ServicesVars, graph
  <2>3. ASSUME UNCHANGED graph PROVE GraphInv'
    <3>1. MayBeSeen' /\ g_blocked' \subseteq Papers
      BY <2>1, <2>3 DEF graph, GraphInv, GraphKinds, Graph!TypeOK, MayBeSeen, Graph!AnswersMayBeSeen
    <3> QED
      BY <2>1, <2>3, <3>1, FactsKept DEF graph
  <2> QED
    BY <2>1, <2>2, <2>3, GraphStep
<1>3. I => GraphSound
  BY GraphIsSound DEF GraphSound
<1> QED
  BY <1>1, <1>2, <1>3, PTL DEF ServicesSpec, ServicesStep, ServicesVars

-----------------------------------------------------------------------------
(* What the answers cost.                                                   *)

LEMMA UsageNames ==
  /\ IsFiniteSet(Askers) /\ Usage!Tenant \notin Askers /\ Sizes \subseteq Nat
  /\ None \notin Usage!Row /\ None \notin Usage!Check
  /\ Quota \in Nat /\ MaxDays \in Nat /\ MonthLength \in Nat /\ MonthLength > 0
  /\ MaxAnswers \in Nat /\ MaxEvictions \in Nat
  /\ \A S : Usage!Cardinality(S) = Cardinality(S)
<1>1. ASSUME NEW S PROVE Usage!Cardinality(S) = Cardinality(S)
  BY DEF Usage!Cardinality, Cardinality
<1>2. IsFiniteSet(Askers)
  BY ServicesAssumption DEF Usage!UsageAssumption, Usage!IsFiniteSet, IsFiniteSet
<1> QED
  BY <1>1, <1>2, ServicesAssumption DEF Usage!UsageAssumption

\* The units of numbers are finite in number, and there are as many as the numbers add up to.
LEMMA SumIsNatural ==
  ASSUME NEW S, IsFiniteSet(S), NEW f \in [S -> Nat]
  PROVE  IsFiniteSet(Usage!Units(f)) /\ Usage!Sum(f) \in Nat /\ Usage!Sum(f) = Cardinality(Usage!Units(f))
<1> DEFINE part == [x \in S |-> {x} \X (1 .. f[x])]
           parts == {{x} \X (1 .. f[x]) : x \in S}
<1>1. IsFiniteSet(parts)
  <2>1. part \in Surjection(S, parts)
    BY DEF Surjection
  <2> QED
    BY <2>1, FS_Surjection
<1>2. ASSUME NEW T \in parts PROVE IsFiniteSet(T)
  <2>1. PICK x \in S : T = {x} \X (1 .. f[x])
    OBVIOUS
  <2>2. IsFiniteSet(1 .. f[x])
    <3> 1 \in Int /\ f[x] \in Int
      OBVIOUS
    <3> QED
      BY FS_Interval
  <2>3. IsFiniteSet({x})
    BY FS_Singleton
  <2> QED
    BY <2>1, <2>2, <2>3, FS_Product
<1>3. Usage!Units(f) = UNION parts
  BY DEF Usage!Units
<1> HIDE DEF parts
<1>4. IsFiniteSet(Usage!Units(f))
  BY <1>1, <1>2, <1>3, FS_UNION
<1> QED
  BY <1>4, FS_CardinalityType, UsageNames DEF Usage!Sum

LEMMA UnitsOf ==
  ASSUME NEW S, NEW f \in [S -> Nat], NEW e
  PROVE  e \in Usage!Units(f) <=> \E x \in S : \E i \in 1 .. f[x] : e = <<x, i>>
BY DEF Usage!Units

\* One number may have n more, or be new: the sum has n more at most.
LEMMA SumGrows ==
  ASSUME NEW S, IsFiniteSet(S), NEW f \in [S -> Nat], NEW T, IsFiniteSet(T), NEW g \in [T -> Nat],
         NEW y, NEW n \in Nat, T \subseteq S \cup {y},
         \A x \in T : x # y => g[x] <= f[x],
         y \in T => g[y] <= (IF y \in S THEN f[y] ELSE 0) + n
  PROVE  Usage!Sum(g) <= Usage!Sum(f) + n
<1> DEFINE m == IF y \in S THEN f[y] ELSE 0
           more == {y} \X ((m + 1) .. (m + n))
<1>1. m \in Nat
  OBVIOUS
<1>2. IsFiniteSet(more) /\ Cardinality(more) = n
  <2>1. m + 1 \in Int /\ m + n \in Int
    BY <1>1
  <2> HIDE DEF m
  <2>2. IsFiniteSet((m + 1) .. (m + n)) /\ Cardinality((m + 1) .. (m + n)) = n
    <3>1. /\ IsFiniteSet((m + 1) .. (m + n))
          /\ Cardinality((m + 1) .. (m + n)) =
               IF m + 1 > m + n THEN 0 ELSE (m + n) - (m + 1) + 1
      BY <2>1, FS_Interval
    <3> QED
      BY <1>1, <3>1
  <2>3. IsFiniteSet({y}) /\ Cardinality({y}) = 1
    BY FS_Singleton
  <2>4. IsFiniteSet(more) /\ Cardinality(more) = 1 * n
    <3> DEFINE r == (m + 1) .. (m + n)
    <3>1. IsFiniteSet(r) /\ Cardinality(r) = n /\ more = {y} \X r
      BY <2>2
    <3> HIDE DEF r, more
    <3>2. /\ IsFiniteSet({y} \X r)
          /\ Cardinality({y} \X r) = Cardinality({y}) * Cardinality(r)
      BY <2>3, <3>1, FS_Product
    <3> QED
      BY <2>3, <3>1, <3>2
  <2> QED
    BY <2>4
<1>3. Usage!Units(g) \subseteq Usage!Units(f) \cup more
  <2> SUFFICES ASSUME NEW e \in Usage!Units(g) PROVE e \in Usage!Units(f) \cup more
    OBVIOUS
  <2>1. PICK x \in T : \E i \in 1 .. g[x] : e = <<x, i>>
    BY UnitsOf
  <2>2. PICK i \in 1 .. g[x] : e = <<x, i>>
    BY <2>1
  <2>3. CASE x # y
    <3>1. x \in S /\ i \in 1 .. f[x]
      BY <2>3
    <3> QED
      BY <2>2, <3>1, UnitsOf
  <2>4. CASE x = y
    <3>1. i \in 1 .. m + n
      BY <1>1, <2>4
    <3>2. CASE i > m
      <4>1. i \in (m + 1) .. (m + n)
        BY <1>1, <3>1, <3>2
      <4> QED
        BY <2>2, <2>4, <4>1
    <3>3. CASE i <= m
      <4>1. y \in S /\ i \in 1 .. f[y]
        BY <3>1, <3>3
      <4> QED
        BY <2>2, <2>4, <4>1, UnitsOf
    <3> QED
      BY <1>1, <3>1, <3>2, <3>3
  <2> QED
    BY <2>3, <2>4
<1> HIDE DEF more
<1>4. IsFiniteSet(Usage!Units(f)) /\ Usage!Sum(f) \in Nat /\ Usage!Sum(f) = Cardinality(Usage!Units(f))
  BY SumIsNatural
<1>5. IsFiniteSet(Usage!Units(g)) /\ Usage!Sum(g) \in Nat /\ Usage!Sum(g) = Cardinality(Usage!Units(g))
  BY SumIsNatural
<1> DEFINE A == Usage!Units(f)
           B == Usage!Units(g)
<1> HIDE DEF A, B
<1>6. IsFiniteSet(A) /\ IsFiniteSet(B) /\ B \subseteq A \cup more
  BY <1>3, <1>4, <1>5 DEF A, B
<1>7. IsFiniteSet(A \cup more) /\ Cardinality(A \cup more) = Cardinality(A) + n - Cardinality(A \cap more)
  BY <1>2, <1>6, FS_Union
<1>8. Cardinality(A \cap more) \in Nat /\ Cardinality(A) \in Nat
  <2>1. IsFiniteSet(A \cap more)
    <3>1. A \cap more \in SUBSET A
      OBVIOUS
    <3> QED
      BY <1>6, <3>1, FS_Subset
  <2> QED
    BY <1>6, <2>1, FS_CardinalityType
<1>9. Cardinality(B) <= Cardinality(A \cup more)
  BY <1>6, <1>7, FS_Subset
<1> QED
  BY <1>4, <1>5, <1>7, <1>8, <1>9 DEF A, B

LEMMA SumShrinks ==
  ASSUME NEW S, IsFiniteSet(S), NEW f \in [S -> Nat], NEW T, NEW g \in [T -> Nat],
         T \subseteq S, \A x \in T : g[x] <= f[x]
  PROVE  Usage!Sum(g) <= Usage!Sum(f)
<1>1. IsFiniteSet(T)
  BY FS_Subset
<1>2. Usage!Sum(f) \in Nat /\ Usage!Sum(g) \in Nat
  BY <1>1, SumIsNatural
<1>3. CASE T = {}
  <2>1. Usage!Units(g) = {}
    BY <1>3, UnitsOf
  <2> QED
    BY <1>2, <2>1, FS_EmptySet, UsageNames DEF Usage!Sum
<1>4. CASE T # {}
  <2>1. PICK y \in T : TRUE
    BY <1>4
  <2>2. T \subseteq S \cup {y} /\ g[y] <= (IF y \in S THEN f[y] ELSE 0) + 0
    BY <2>1
  <2>3. Usage!Sum(g) <= Usage!Sum(f) + 0
    BY <1>1, <2>2, SumGrows
  <2> QED
    BY <1>2, <2>3
<1> QED
  BY <1>3, <1>4


\* A row not missed and counted renewed the counters of its user and of the tenant; a look at the
\* quota that is due has seen the user's counter at its limit.
UsageKinds ==
  /\ Usage!TypeOK
  /\ c_rows \subseteq Usage!Row /\ IsFiniteSet(c_rows)
  /\ today \in Nat /\ answers \in Nat
  /\ used \in [Usage!Counters -> 0 .. today] /\ c_call \in [Pair -> Usage!Row \cup {None}]
  /\ \A c \in Pair : c_call[c] # None => c_call[c].day <= today
Renewed ==
  /\ \A x \in c_rows \ (missed \cup Usage!Pending) : x.day <= used[x.user]
  /\ \A u \in Askers : used[u] <= used[Usage!Tenant]
LooksTrue == (check # None => (check.due => check.over)) /\ slipped = {}
UsageInv ==
  UsageKinds /\ Renewed /\ LooksTrue /\ Usage!CountersCoverMonth /\ Usage!TenantCoversUsers

\* The rows of a user that were counted this month.
CountedOf(u) == {x \in Usage!ThisMonth \ (missed \cup Usage!Pending) : x.user = u}

LEMMA UsageTypes ==
  ASSUME UsageKinds
  PROVE  /\ today \in Nat /\ today <= MaxDays /\ IsFiniteSet(c_rows)
         /\ c_count \in [Usage!Counters -> Nat]
         /\ used \in [Usage!Counters -> Nat] /\ \A k \in Usage!Counters : used[k] <= today
         /\ Askers \subseteq Usage!Counters /\ Usage!Tenant \in Usage!Counters
         /\ Usage!Counters = Askers \cup {Usage!Tenant}
         /\ \A x \in c_rows :
              x \in Usage!Row /\ x.user \in Askers /\ x.size \in Nat /\ x.day \in Nat /\ x.day <= today
         /\ \A c \in Pair : c_call[c] # None =>
              /\ c_call[c] \in Usage!Row /\ c_call[c].user \in Askers /\ c_call[c].size \in Nat
              /\ c_call[c].day \in Nat /\ c_call[c].day <= today
         /\ c_call \in [Pair -> Usage!Row \cup {None}] /\ missed \subseteq c_rows
         /\ forgotten \in Nat /\ evictions \in Nat /\ check \in Usage!Check \cup {None}
<1>1. Usage!TypeOK
  BY DEF UsageKinds
<1>2. /\ today \in 0 .. MaxDays /\ MaxDays \in Nat
      /\ c_count \in [Usage!Counters -> Nat] /\ missed \subseteq c_rows
      /\ \A x \in c_rows : x.day \in 0 .. today
      /\ forgotten \in Nat /\ evictions \in Nat /\ check \in Usage!Check \cup {None}
  BY <1>1, UsageNames DEF Usage!TypeOK
<1>3. Usage!Counters = Askers \cup {Usage!Tenant}
  BY DEF Usage!Counters
<1>4. \A x \in Usage!Row : x.user \in Askers /\ x.size \in Nat /\ x.day \in Nat
  BY UsageNames DEF Usage!Row
<1>5. /\ c_rows \subseteq Usage!Row /\ IsFiniteSet(c_rows) /\ today \in Nat
      /\ used \in [Usage!Counters -> 0 .. today] /\ c_call \in [Pair -> Usage!Row \cup {None}]
      /\ \A c \in Pair : c_call[c] # None => c_call[c].day <= today
  BY DEF UsageKinds
<1>6. used \in [Usage!Counters -> Nat] /\ \A k \in Usage!Counters : used[k] <= today
  BY <1>5
<1>7. \A x \in c_rows :
        x \in Usage!Row /\ x.user \in Askers /\ x.size \in Nat /\ x.day \in Nat /\ x.day <= today
  BY <1>2, <1>4, <1>5
<1>8. \A c \in Pair : c_call[c] # None =>
        /\ c_call[c] \in Usage!Row /\ c_call[c].user \in Askers /\ c_call[c].size \in Nat
        /\ c_call[c].day \in Nat /\ c_call[c].day <= today
  BY <1>4, <1>5
<1> QED
  BY <1>2, <1>3, <1>5, <1>6, <1>7, <1>8

\* What is counted of one month.
LEMMA CountedTypes ==
  ASSUME UsageKinds, NEW u \in Askers
  PROVE  /\ CountedOf(u) \subseteq c_rows /\ IsFiniteSet(CountedOf(u))
         /\ [x \in CountedOf(u) |-> x.size] \in [CountedOf(u) -> Nat]
         /\ Usage!Total(CountedOf(u)) = Usage!Sum([x \in CountedOf(u) |-> x.size])
         /\ Usage!Total(CountedOf(u)) \in Nat
<1>1. CountedOf(u) \subseteq c_rows
  BY DEF CountedOf, Usage!ThisMonth
<1>2. IsFiniteSet(CountedOf(u))
  BY <1>1, UsageTypes, FS_Subset
<1>3. [x \in CountedOf(u) |-> x.size] \in [CountedOf(u) -> Nat]
  BY <1>1, UsageTypes
<1>4. Usage!Total(CountedOf(u)) = Usage!Sum([x \in CountedOf(u) |-> x.size])
  BY DEF Usage!Total
<1> QED
  BY <1>1, <1>2, <1>3, <1>4, SumIsNatural

\* A month has its days: whoever was counted in it is not a lifetime ago while it lasts.
LEMMA Months ==
  ASSUME NEW m \in Nat, m > 0, NEW a \in Nat, NEW b \in Nat, a \div m = b \div m
  PROVE  b < a + m
<1> DEFINE q == a \div m
<1>1. a = m * q + (a % m) /\ a % m \in 0 .. m - 1 /\ q \in Nat
  OBVIOUS
<1>2. b = m * (b \div m) + (b % m) /\ b % m \in 0 .. m - 1
  OBVIOUS
<1> HIDE DEF q
<1>3. b = m * q + (b % m)
  BY <1>2 DEF q
<1> DEFINE p == m * q
<1>4. p \in Nat
  BY <1>1
<1> HIDE DEF p
<1>5. a = p + (a % m) /\ b = p + (b % m)
  BY <1>1, <1>3 DEF p
<1> QED
  BY <1>1, <1>2, <1>4, <1>5

\* The next day is in the same month, or in one that nothing was counted in.
LEMMA NextDay ==
  ASSUME NEW m \in Nat, m > 0, NEW x \in Nat, NEW d \in Nat, x <= d,
         x \div m = (d + 1) \div m
  PROVE  x \div m = d \div m
<1> DEFINE p == x \div m
           q == d \div m
           r == (d + 1) \div m
<1>1. x = m * p + (x % m) /\ x % m \in 0 .. m - 1 /\ p \in Nat
  OBVIOUS
<1>2. d = m * q + (d % m) /\ d % m \in 0 .. m - 1 /\ q \in Nat
  OBVIOUS
<1>3. d + 1 = m * r + ((d + 1) % m) /\ (d + 1) % m \in 0 .. m - 1 /\ r \in Nat
  OBVIOUS
<1>4. p = r
  OBVIOUS
<1> HIDE DEF p, q, r
<1>5. CASE q < p
  <2>1. m * q + m <= m * p
    <3>1. q + 1 <= p
      BY <1>1, <1>2, <1>5
    <3>2. m * (q + 1) <= m * p
      BY <1>1, <1>2, <3>1
    <3> QED
      BY <1>2, <3>2
  <2> QED
    BY <1>1, <1>2, <2>1
<1>6. CASE q > p
  <2>1. m * p + m <= m * q
    <3>1. p + 1 <= q
      BY <1>1, <1>2, <1>6
    <3>2. m * (p + 1) <= m * q
      BY <1>1, <1>2, <3>1
    <3> QED
      BY <1>1, <3>2
  <2>2. d + 1 = m * p + ((d + 1) % m)
    BY <1>3, <1>4
  <2> QED
    BY <1>1, <1>2, <1>3, <2>1, <2>2
<1> QED
  BY <1>1, <1>2, <1>5, <1>6 DEF p, q


LEMMA SumOfNothing ==
  ASSUME NEW f \in [{} -> Nat]
  PROVE  Usage!Sum(f) = 0
<1>1. Usage!Units(f) = {}
  BY UnitsOf
<1> QED
  BY <1>1, FS_EmptySet, UsageNames DEF Usage!Sum

LEMMA CoverMonth ==
  /\ Usage!CountersCoverMonth <=> \A u \in Askers : c_count[u] >= Usage!Total(CountedOf(u))
  /\ Usage!CountersCoverMonth' <=> \A u \in Askers : c_count'[u] >= Usage!Total(CountedOf(u)')
<1>1. Usage!CountersCoverMonth <=> \A u \in Askers : c_count[u] >= Usage!Total(CountedOf(u))
  BY DEF Usage!CountersCoverMonth, Usage!Counted, CountedOf
<1>2. Usage!CountersCoverMonth' <=> \A u \in Askers : c_count'[u] >= Usage!Total(CountedOf(u)')
  BY DEF Usage!CountersCoverMonth, Usage!Counted, CountedOf
<1> QED
  BY <1>1, <1>2

LEMMA TenantCovers ==
  /\ Usage!TenantCoversUsers <=>
       c_count[Usage!Tenant] + forgotten >= Usage!Sum([u \in Askers |-> c_count[u]])
  /\ Usage!TenantCoversUsers' <=>
       c_count'[Usage!Tenant] + forgotten' >= Usage!Sum([u \in Askers |-> c_count'[u]])
BY DEF Usage!TenantCoversUsers, Usage!Tenant

\* Rows that were counted before stay covered when the counter of their user does not shrink.
LEMMA FewerAreCovered ==
  ASSUME UsageKinds, NEW u \in Askers, NEW W, W \subseteq CountedOf(u),
         c_count[u] >= Usage!Total(CountedOf(u))
  PROVE  c_count[u] >= Usage!Total(W)
<1> DEFINE S == CountedOf(u)
           f == [x \in S |-> x.size]
           g == [x \in W |-> x.size]
<1>1. /\ S \subseteq c_rows /\ IsFiniteSet(S) /\ f \in [S -> Nat]
      /\ Usage!Total(S) = Usage!Sum(f) /\ Usage!Total(S) \in Nat
  BY CountedTypes
<1>2. g \in [W -> Nat] /\ W \subseteq S /\ \A x \in W : g[x] <= f[x]
  BY <1>1, UsageTypes
<1>3. Usage!Total(W) = Usage!Sum(g)
  BY DEF Usage!Total
<1>4. IsFiniteSet(W)
  BY <1>1, FS_Subset
<1> HIDE DEF S, f, g
<1>5. Usage!Sum(g) <= Usage!Sum(f) /\ Usage!Sum(g) \in Nat
  BY <1>1, <1>2, <1>4, SumShrinks, SumIsNatural
<1>6. c_count[u] \in Nat
  BY UsageTypes
<1> QED
  BY <1>1, <1>3, <1>5, <1>6 DEF S

LEMMA OneMoreIsCovered ==
  ASSUME UsageKinds, NEW u \in Askers, NEW y \in Usage!Row, NEW W, W \subseteq CountedOf(u) \cup {y},
         c_count[u] >= Usage!Total(CountedOf(u))
  PROVE  c_count[u] + y.size >= Usage!Total(W)
<1> DEFINE S == CountedOf(u)
           f == [x \in S |-> x.size]
           g == [x \in W |-> x.size]
<1>0. y.size \in Nat
  BY UsageNames DEF Usage!Row
<1>1. /\ S \subseteq c_rows /\ IsFiniteSet(S) /\ f \in [S -> Nat]
      /\ Usage!Total(S) = Usage!Sum(f) /\ Usage!Total(S) \in Nat
  BY CountedTypes
<1>2. g \in [W -> Nat] /\ W \subseteq S \cup {y} /\ \A x \in W : x # y => g[x] <= f[x]
  BY <1>0, <1>1, UsageTypes
<1>3. Usage!Total(W) = Usage!Sum(g)
  BY DEF Usage!Total
<1>4. IsFiniteSet(W)
  <2>1. IsFiniteSet(S \cup {y})
    BY <1>1, FS_AddElement
  <2> QED
    BY <1>2, <2>1, FS_Subset
<1>5. y \in W => g[y] <= (IF y \in S THEN f[y] ELSE 0) + y.size
  BY <1>0, <1>1
<1> HIDE DEF S, f, g
<1>6. Usage!Sum(g) <= Usage!Sum(f) + y.size
  BY <1>0, <1>1, <1>2, <1>4, <1>5, SumGrows
<1>7. c_count[u] \in Nat /\ Usage!Sum(g) \in Nat
  BY <1>2, <1>4, UsageTypes, SumIsNatural
<1> QED
  BY <1>0, <1>1, <1>3, <1>6, <1>7 DEF S


LEMMA InPending ==
  /\ \A x : x \in Usage!Pending <=> \E k \in Pair : c_call[k] # None /\ c_call[k] = x
  /\ \A x : x \in Usage!Pending' <=> \E k \in Pair : c_call'[k] # None /\ c_call'[k] = x
BY DEF Usage!Pending

LEMMA InCounted ==
  ASSUME NEW u
  PROVE  /\ \A x : x \in CountedOf(u) <=>
              /\ x \in c_rows /\ x.day \div MonthLength = today \div MonthLength
              /\ x \notin missed /\ x \notin Usage!Pending /\ x.user = u
         /\ \A x : x \in CountedOf(u)' <=>
              /\ x \in c_rows' /\ x.day \div MonthLength = today' \div MonthLength
              /\ x \notin missed' /\ x \notin Usage!Pending' /\ x.user = u
<1>1. \A x : x \in CountedOf(u) <=>
        /\ x \in c_rows /\ x.day \div MonthLength = today \div MonthLength
        /\ x \notin missed /\ x \notin Usage!Pending /\ x.user = u
  BY DEF CountedOf, Usage!ThisMonth
<1>2. \A x : x \in CountedOf(u)' <=>
        /\ x \in c_rows' /\ x.day \div MonthLength = today' \div MonthLength
        /\ x \notin missed' /\ x \notin Usage!Pending' /\ x.user = u
  BY DEF CountedOf, Usage!ThisMonth
<1> QED
  BY <1>1, <1>2

\* An answer that is given is under way, and not counted.
LEMMA LogKeeps ==
  ASSUME UsageInv, NEW c \in Pair, NEW u \in Askers, NEW n \in Sizes, Usage!Log(c, u, n)
  PROVE  UsageInv'
<1>1. UsageKinds /\ Renewed /\ LooksTrue /\ Usage!CountersCoverMonth /\ Usage!TenantCoversUsers
  BY DEF UsageInv
<1> DEFINE r == [id |-> answers, user |-> u, size |-> n, day |-> today]
<1>2. /\ c_call[c] = None /\ answers < MaxAnswers /\ answers' = answers + 1
      /\ c_call' = [c_call EXCEPT ![c] = r]
      /\ c_rows' = c_rows \cup {c_call'[c]} \/ c_rows' = c_rows
      /\ today' = today /\ c_count' = c_count /\ used' = used /\ missed' = missed
      /\ evictions' = evictions /\ forgotten' = forgotten /\ check' = check /\ slipped' = slipped
  BY DEF Usage!Log
<1>3. /\ today \in Nat /\ today <= MaxDays /\ IsFiniteSet(c_rows)
      /\ c_count \in [Usage!Counters -> Nat] /\ used \in [Usage!Counters -> 0 .. today]
      /\ c_call \in [Pair -> Usage!Row \cup {None}] /\ missed \subseteq c_rows
      /\ c_rows \subseteq Usage!Row /\ answers \in Nat
      /\ \A k \in Pair : c_call[k] # None => c_call[k].day <= today
  BY <1>1, UsageTypes DEF UsageKinds
<1>4. r \in Usage!Row /\ r.day = today /\ r.user = u /\ r.size = n /\ r # None
  BY <1>3, UsageNames DEF Usage!Row
<1> HIDE DEF r
<1>5. /\ c_call' \in [Pair -> Usage!Row \cup {None}] /\ c_call'[c] = r
      /\ \A k \in Pair : k # c => c_call'[k] = c_call[k]
  BY <1>2, <1>3, <1>4
<1>6. \A x : x \in Usage!Pending' <=> x \in Usage!Pending \/ x = r
  BY <1>2, <1>4, <1>5, InPending
<1>7. c_rows \subseteq c_rows' /\ c_rows' \subseteq c_rows \cup {r} /\ IsFiniteSet(c_rows')
  BY <1>2, <1>3, <1>5, FS_AddElement
<1>8. UsageKinds'
  <2>1. Usage!TypeOK'
    <3>1. answers' \in 0 .. MaxAnswers
      BY <1>2, <1>3, UsageNames
    <3>2. \A x \in c_rows' : x.user \in Askers /\ x.size \in Sizes /\ x.day \in 0 .. today
      BY <1>1, <1>3, <1>4, <1>7, UsageNames DEF UsageKinds, Usage!TypeOK
    <3> QED
      BY <1>1, <1>2, <1>3, <1>7, <3>1, <3>2 DEF UsageKinds, Usage!TypeOK, Usage!Counters, Usage!Tenant
  <2>2. c_rows' \subseteq Usage!Row
    BY <1>3, <1>4, <1>7
  <2>3. \A k \in Pair : c_call'[k] # None => c_call'[k].day <= today
    BY <1>3, <1>4, <1>5
  <2>4. answers' \in Nat
    BY <1>2, <1>3
  <2>5. Usage!Counters' = Usage!Counters /\ Usage!Row' = Usage!Row
    BY DEF Usage!Counters, Usage!Tenant, Usage!Row
  <2> QED
    BY <1>2, <1>3, <1>5, <1>7, <2>1, <2>2, <2>3, <2>4, <2>5 DEF UsageKinds
<1>9. Renewed'
  <2>1. \A x \in c_rows' \ (missed' \cup Usage!Pending') : x.day <= used'[x.user]
    BY <1>1, <1>2, <1>6, <1>7 DEF Renewed
  <2>2. \A v \in Askers : used'[v] <= used'[Usage!Tenant]
    BY <1>1, <1>2 DEF Renewed
  <2> QED
    BY <2>1, <2>2 DEF Renewed, Usage!Tenant
<1>10. Usage!CountersCoverMonth'
  <2>1. ASSUME NEW v \in Askers PROVE c_count'[v] >= Usage!Total(CountedOf(v)')
    <3>1. CountedOf(v)' \subseteq CountedOf(v)
      BY <1>2, <1>6, <1>7, InCounted
    <3>2. c_count[v] >= Usage!Total(CountedOf(v))
      BY <1>1, CoverMonth
    <3>3. c_count[v] >= Usage!Total(CountedOf(v)')
      BY <1>1, <3>1, <3>2, FewerAreCovered
    <3> QED
      BY <1>2, <3>3
  <2> QED
    BY <2>1, CoverMonth
<1>11. Usage!TenantCoversUsers'
  BY <1>1, <1>2, TenantCovers
<1>12. LooksTrue'
  BY <1>1, <1>2 DEF LooksTrue
<1> QED
  BY <1>8, <1>9, <1>10, <1>11, <1>12 DEF UsageInv

LEMMA MissKeeps ==
  ASSUME UsageInv, NEW c \in Pair, Usage!Miss(c)
  PROVE  UsageInv'
<1>1. UsageKinds /\ Renewed /\ LooksTrue /\ Usage!CountersCoverMonth /\ Usage!TenantCoversUsers
  BY DEF UsageInv
<1>2. /\ c_call[c] # None /\ c_call' = [c_call EXCEPT ![c] = None]
      /\ missed' = missed \cup ({c_call[c]} \cap c_rows)
      /\ today' = today /\ c_rows' = c_rows /\ c_count' = c_count /\ used' = used
      /\ answers' = answers
      /\ evictions' = evictions /\ forgotten' = forgotten /\ check' = check /\ slipped' = slipped
  BY DEF Usage!Miss
<1>3. /\ c_call \in [Pair -> Usage!Row \cup {None}] /\ missed \subseteq c_rows
      /\ \A k \in Pair : c_call[k] # None => c_call[k].day <= today
  BY <1>1, UsageTypes
<1>4. /\ c_call' \in [Pair -> Usage!Row \cup {None}] /\ c_call'[c] = None
      /\ \A k \in Pair : k # c => c_call'[k] = c_call[k]
  BY <1>2, <1>3
<1>5. \A x \in c_rows : x \notin missed' \cup Usage!Pending' => x \notin missed \cup Usage!Pending
  BY <1>2, <1>4, InPending
<1>6. UsageKinds'
  <2>1. Usage!TypeOK'
    BY <1>1, <1>2 DEF UsageKinds, Usage!TypeOK, Usage!Counters, Usage!Tenant
  <2>2. Usage!Counters' = Usage!Counters /\ Usage!Row' = Usage!Row
    BY DEF Usage!Counters, Usage!Tenant, Usage!Row
  <2>3. \A k \in Pair : c_call'[k] # None => c_call'[k].day <= today
    BY <1>3, <1>4
  <2> QED
    BY <1>1, <1>2, <1>4, <2>1, <2>2, <2>3 DEF UsageKinds
<1>7. Renewed'
  <2>1. \A x \in c_rows' \ (missed' \cup Usage!Pending') : x.day <= used'[x.user]
    BY <1>1, <1>2, <1>5 DEF Renewed
  <2>2. \A v \in Askers : used'[v] <= used'[Usage!Tenant]
    BY <1>1, <1>2 DEF Renewed
  <2> QED
    BY <2>1, <2>2 DEF Renewed, Usage!Tenant
<1>8. Usage!CountersCoverMonth'
  <2>1. ASSUME NEW v \in Askers PROVE c_count'[v] >= Usage!Total(CountedOf(v)')
    <3>1. CountedOf(v)' \subseteq CountedOf(v)
      BY <1>2, <1>5, InCounted
    <3>2. c_count[v] >= Usage!Total(CountedOf(v))
      BY <1>1, CoverMonth
    <3>3. c_count[v] >= Usage!Total(CountedOf(v)')
      BY <1>1, <3>1, <3>2, FewerAreCovered
    <3> QED
      BY <1>2, <3>3
  <2> QED
    BY <2>1, CoverMonth
<1>9. Usage!TenantCoversUsers'
  BY <1>1, <1>2, TenantCovers
<1>10. LooksTrue'
  BY <1>1, <1>2 DEF LooksTrue
<1> QED
  BY <1>6, <1>7, <1>8, <1>9, <1>10 DEF UsageInv

\* Counting adds to the user and to the tenant what the row adds to the report.
LEMMA CountKeeps ==
  ASSUME UsageInv, NEW c \in Pair, Usage!Count(c)
  PROVE  UsageInv'
<1>1. UsageKinds /\ Renewed /\ LooksTrue /\ Usage!CountersCoverMonth /\ Usage!TenantCoversUsers
  BY DEF UsageInv
<1> DEFINE r == c_call[c]
           T == Usage!Tenant
<1>2. /\ r # None /\ c_call' = [c_call EXCEPT ![c] = None]
      /\ c_count' = [k \in Usage!Counters |-> IF k \in {r.user, T} THEN c_count[k] + r.size ELSE c_count[k]]
      /\ used' = [k \in Usage!Counters |-> IF k \in {r.user, T} THEN today ELSE used[k]]
      /\ today' = today /\ c_rows' = c_rows /\ answers' = answers /\ missed' = missed
      /\ evictions' = evictions /\ forgotten' = forgotten /\ check' = check /\ slipped' = slipped
  BY DEF Usage!Count
<1>3. /\ today \in Nat /\ today <= MaxDays
      /\ c_call \in [Pair -> Usage!Row \cup {None}] /\ missed \subseteq c_rows
      /\ \A k \in Pair : c_call[k] # None => c_call[k].day <= today
      /\ r \in Usage!Row /\ r.user \in Askers /\ r.size \in Nat /\ r.day <= today
      /\ c_count \in [Usage!Counters -> Nat] /\ used \in [Usage!Counters -> 0 .. today]
      /\ Askers \subseteq Usage!Counters /\ T \in Usage!Counters /\ T \notin Askers
      /\ Usage!Counters = Askers \cup {T}
  BY <1>1, <1>2, UsageTypes, UsageNames DEF UsageKinds
<1> HIDE DEF r, T
<1>4. /\ c_call' \in [Pair -> Usage!Row \cup {None}] /\ c_call'[c] = None
      /\ \A k \in Pair : k # c => c_call'[k] = c_call[k]
  BY <1>2, <1>3
<1>5. \A x : x \notin Usage!Pending' => x \notin Usage!Pending \/ x = r
  BY <1>2, <1>4, InPending DEF r
<1>6. /\ c_count' \in [Usage!Counters -> Nat] /\ used' \in [Usage!Counters -> 0 .. today]
      /\ c_count'[r.user] = c_count[r.user] + r.size /\ c_count'[T] = c_count[T] + r.size
      /\ \A v \in Askers : v # r.user => c_count'[v] = c_count[v] /\ used'[v] = used[v]
      /\ used'[r.user] = today /\ used'[T] = today
  BY <1>2, <1>3
<1>7. UsageKinds'
  <2>1. Usage!TypeOK'
    <3>1. used' \in [Usage!Counters -> 0 .. MaxDays]
      <4>1. 0 .. today \subseteq 0 .. MaxDays
        BY <1>3, UsageNames
      <4> QED
        BY <1>6, <4>1
    <3>2. Usage!Counters' = Usage!Counters
      BY DEF Usage!Counters, Usage!Tenant
    <3> QED
      BY <1>1, <1>2, <1>6, <3>1, <3>2 DEF UsageKinds, Usage!TypeOK
  <2>2. Usage!Counters' = Usage!Counters /\ Usage!Row' = Usage!Row
    BY DEF Usage!Counters, Usage!Tenant, Usage!Row
  <2>3. \A k \in Pair : c_call'[k] # None => c_call'[k].day <= today
    BY <1>3, <1>4
  <2> QED
    BY <1>1, <1>2, <1>4, <1>6, <2>1, <2>2, <2>3 DEF UsageKinds
<1>8. Renewed'
  <2>1. ASSUME NEW x \in c_rows' \ (missed' \cup Usage!Pending') PROVE x.day <= used'[x.user]
    <3>1. x \in c_rows /\ x \notin missed /\ x.user \in Askers /\ x.day <= today
      BY <1>1, <1>2, UsageTypes
    <3>2. CASE x.user = r.user
      BY <1>6, <3>1, <3>2
    <3>3. CASE x.user # r.user
      <4>1. x \notin Usage!Pending
        BY <1>5, <3>3
      <4> QED
        BY <1>1, <1>6, <3>1, <3>3, <4>1 DEF Renewed
    <3> QED
      BY <3>2, <3>3
  <2>2. \A v \in Askers : used'[v] <= used'[T]
    <3>1. \A v \in Askers : used'[v] \in 0 .. today
      BY <1>3, <1>6
    <3> QED
      BY <1>3, <1>6, <3>1
  <2> QED
    BY <2>1, <2>2 DEF Renewed, T, Usage!Tenant
<1>9. Usage!CountersCoverMonth'
  <2>1. ASSUME NEW v \in Askers PROVE c_count'[v] >= Usage!Total(CountedOf(v)')
    <3>0. c_count[v] >= Usage!Total(CountedOf(v))
      BY <1>1, CoverMonth
    <3>1. CASE v = r.user
      <4>1. CountedOf(v)' \subseteq CountedOf(v) \cup {r}
        BY <1>2, <1>5, InCounted
      <4>2. c_count[v] + r.size >= Usage!Total(CountedOf(v)')
        BY <1>1, <1>3, <3>0, <4>1, OneMoreIsCovered
      <4> QED
        BY <1>6, <3>1, <4>2
    <3>2. CASE v # r.user
      <4>1. CountedOf(v)' \subseteq CountedOf(v)
        BY <1>2, <1>5, <3>2, InCounted
      <4>2. c_count[v] >= Usage!Total(CountedOf(v)')
        BY <1>1, <3>0, <4>1, FewerAreCovered
      <4> QED
        BY <1>6, <3>2, <4>2
    <3> QED
      BY <3>1, <3>2
  <2> QED
    BY <2>1, CoverMonth
<1>10. Usage!TenantCoversUsers'
  <2> DEFINE f == [u \in Askers |-> c_count[u]]
             g == [u \in Askers |-> c_count'[u]]
  <2>1. f \in [Askers -> Nat] /\ g \in [Askers -> Nat] /\ IsFiniteSet(Askers)
    BY <1>3, <1>6, UsageNames
  <2>2. /\ Askers \subseteq Askers \cup {r.user}
        /\ \A v \in Askers : v # r.user => g[v] <= f[v]
        /\ g[r.user] <= (IF r.user \in Askers THEN f[r.user] ELSE 0) + r.size
    BY <1>3, <1>6
  <2>3. c_count[T] + forgotten >= Usage!Sum(f)
    BY <1>1, TenantCovers DEF T
  <2> HIDE DEF f, g
  <2>4. Usage!Sum(g) <= Usage!Sum(f) + r.size /\ Usage!Sum(g) \in Nat /\ Usage!Sum(f) \in Nat
    BY <1>3, <2>1, <2>2, SumGrows, SumIsNatural
  <2>5. c_count'[T] + forgotten >= Usage!Sum(g)
    BY <1>1, <1>3, <1>6, <2>3, <2>4, UsageTypes
  <2> QED
    BY <1>2, <2>5, TenantCovers DEF T, g
<1>11. LooksTrue'
  BY <1>1, <1>2 DEF LooksTrue
<1> QED
  BY <1>7, <1>8, <1>9, <1>10, <1>11 DEF UsageInv


\* A day passes: a counter that ends has nothing of the month, the tenant's ends last.
LEMMA PassKeeps ==
  ASSUME UsageInv, Usage!Pass
  PROVE  UsageInv'
<1>1. UsageKinds /\ Renewed /\ LooksTrue /\ Usage!CountersCoverMonth /\ Usage!TenantCoversUsers
  BY DEF UsageInv
<1> DEFINE T == Usage!Tenant
           m == MonthLength
<1>2. /\ today < MaxDays /\ today' = today + 1
      /\ c_count' = [k \in Usage!Counters |-> IF today + 1 >= used[k] + m THEN 0 ELSE c_count[k]]
      /\ c_rows' = c_rows /\ used' = used /\ c_call' = c_call /\ answers' = answers
      /\ missed' = missed
      /\ evictions' = evictions /\ forgotten' = forgotten /\ check' = check /\ slipped' = slipped
  BY DEF Usage!Pass, Usage!TTL
<1>3. /\ today \in Nat /\ today <= MaxDays /\ MaxDays \in Nat /\ m \in Nat /\ m > 0
      /\ c_call \in [Pair -> Usage!Row \cup {None}] /\ missed \subseteq c_rows
      /\ \A k \in Pair : c_call[k] # None => c_call[k].day \in Nat /\ c_call[k].day <= today
      /\ c_count \in [Usage!Counters -> Nat] /\ used \in [Usage!Counters -> 0 .. today]
      /\ Askers \subseteq Usage!Counters /\ T \in Usage!Counters /\ T \notin Askers
      /\ Usage!Counters = Askers \cup {T}
      /\ \A x \in c_rows : x.user \in Askers /\ x.day \in Nat /\ x.day <= today
  BY <1>1, UsageTypes, UsageNames DEF UsageKinds
<1> HIDE DEF T, m
<1>4. /\ c_count' \in [Usage!Counters -> Nat] /\ used' \in [Usage!Counters -> 0 .. today + 1]
      /\ \A k \in Usage!Counters :
           c_count'[k] = (IF today + 1 >= used[k] + m THEN 0 ELSE c_count[k])
  <2>1. 0 .. today \subseteq 0 .. today + 1
    BY <1>3
  <2> QED
    BY <1>2, <1>3, <2>1
<1>5. Usage!Pending' = Usage!Pending
  BY <1>2, InPending
<1>6. UsageKinds'
  <2>1. Usage!Counters' = Usage!Counters /\ Usage!Row' = Usage!Row
    BY DEF Usage!Counters, Usage!Tenant, Usage!Row
  <2>2. Usage!TypeOK'
    <3>1. today + 1 \in 0 .. MaxDays
      BY <1>2, <1>3
    <3>2. \A x \in c_rows : x.user \in Askers /\ x.size \in Sizes /\ x.day \in 0 .. today + 1
      BY <1>1, <1>3 DEF UsageKinds, Usage!TypeOK
    <3> QED
      BY <1>1, <1>2, <1>4, <2>1, <3>1, <3>2 DEF UsageKinds, Usage!TypeOK
  <2>3. \A k \in Pair : c_call[k] # None => c_call[k].day <= today + 1
    BY <1>3
  <2>4. today + 1 \in Nat
    BY <1>3
  <2> QED
    BY <1>1, <1>2, <1>4, <2>1, <2>2, <2>3, <2>4 DEF UsageKinds
<1>7. Renewed'
  BY <1>1, <1>2, <1>5 DEF Renewed, Usage!Tenant
<1>8. Usage!CountersCoverMonth'
  <2>1. ASSUME NEW v \in Askers PROVE c_count'[v] >= Usage!Total(CountedOf(v)')
    <3>1. \A x \in CountedOf(v)' :
            /\ x \in c_rows /\ x \notin missed /\ x \notin Usage!Pending /\ x.user = v
            /\ x.day \div m = (today + 1) \div m
      BY <1>2, <1>5, InCounted DEF m
    <3>2. CASE today + 1 >= used[v] + m
      <4>1. ASSUME NEW x \in CountedOf(v)' PROVE FALSE
        <5>1. x.day <= used[v] /\ x.day \in Nat /\ used[v] \in Nat
          BY <1>1, <1>3, <3>1 DEF Renewed
        <5>2. today + 1 \in Nat
          BY <1>3
        <5>3. today + 1 < x.day + m
          BY <1>3, <3>1, <5>1, <5>2, Months
        <5> QED
          BY <1>3, <3>2, <5>1, <5>3
      <4>2. CountedOf(v)' = {}
        BY <4>1
      <4>3. Usage!Total({}) = 0
        <5> DEFINE f == [x \in {} |-> x.size]
        <5>1. f \in [{} -> Nat]
          OBVIOUS
        <5>2. Usage!Total({}) = Usage!Sum(f)
          BY DEF Usage!Total
        <5> HIDE DEF f
        <5> QED
          BY <5>1, <5>2, SumOfNothing
      <4> QED
        BY <1>3, <1>4, <4>2, <4>3
    <3>3. CASE ~(today + 1 >= used[v] + m)
      <4>1. CountedOf(v)' \subseteq CountedOf(v)
        <5> SUFFICES ASSUME NEW x \in CountedOf(v)' PROVE x \in CountedOf(v)
          OBVIOUS
        <5>1. x.day \in Nat /\ x.day <= today
          BY <1>3, <3>1
        <5>2. x.day \div m = today \div m
          BY <1>3, <3>1, <5>1, NextDay
        <5> QED
          BY <3>1, <5>2, InCounted DEF m
      <4>2. c_count[v] >= Usage!Total(CountedOf(v))
        BY <1>1, CoverMonth
      <4>3. c_count[v] >= Usage!Total(CountedOf(v)')
        BY <1>1, <4>1, <4>2, FewerAreCovered
      <4> QED
        BY <1>3, <1>4, <3>3, <4>3
    <3> QED
      BY <3>2, <3>3
  <2> QED
    BY <2>1, CoverMonth
<1>9. Usage!TenantCoversUsers'
  <2> DEFINE f == [u \in Askers |-> c_count[u]]
             g == [u \in Askers |-> c_count'[u]]
  <2>1. f \in [Askers -> Nat] /\ g \in [Askers -> Nat] /\ IsFiniteSet(Askers)
    BY <1>3, <1>4, UsageNames
  <2>2. c_count[T] + forgotten >= Usage!Sum(f)
    BY <1>1, TenantCovers DEF T
  <2>3. \A v \in Askers : g[v] <= f[v]
    BY <1>3, <1>4
  <2>4. CASE today + 1 >= used[T] + m
    <3>1. \A v \in Askers : used[v] <= used[T] /\ used[v] \in Nat /\ used[T] \in Nat
      BY <1>1, <1>3 DEF Renewed, T
    <3>2. \A v \in Askers : g[v] = 0
      BY <1>3, <1>4, <2>4, <3>1
    <3> HIDE DEF f, g
    <3>3. Usage!Units(g) = {}
      <4>1. \A v \in Askers : 1 .. g[v] = {}
        BY <3>2
      <4> QED
        BY <2>1, <4>1, UnitsOf
    <3>4. Usage!Sum(g) = 0
      BY <3>3, FS_EmptySet, UsageNames DEF Usage!Sum
    <3>5. c_count'[T] + forgotten >= Usage!Sum(g)
      BY <1>1, <1>3, <1>4, <3>4, UsageTypes
    <3> QED
      BY <1>2, <3>5, TenantCovers DEF T, g
  <2>5. CASE ~(today + 1 >= used[T] + m)
    <3>1. c_count'[T] = c_count[T] /\ c_count[T] \in Nat
      BY <1>3, <1>4, <2>5
    <3> HIDE DEF f, g
    <3>2. Usage!Sum(g) <= Usage!Sum(f) /\ Usage!Sum(g) \in Nat /\ Usage!Sum(f) \in Nat
      BY <2>1, <2>3, SumShrinks, SumIsNatural
    <3>3. c_count'[T] + forgotten >= Usage!Sum(g)
      BY <1>1, <2>2, <3>1, <3>2, UsageTypes
    <3> QED
      BY <1>2, <3>3, TenantCovers DEF T, g
  <2> QED
    BY <2>4, <2>5
<1>10. LooksTrue'
  BY <1>1, <1>2 DEF LooksTrue
<1> QED
  BY <1>6, <1>7, <1>8, <1>9, <1>10 DEF UsageInv

LEMMA UsageStarts == Usage!Init => UsageInv
<1> SUFFICES ASSUME Usage!Init PROVE UsageInv
  OBVIOUS
<1>1. /\ today = 0 /\ c_rows = {} /\ c_count = [k \in Usage!Counters |-> 0]
      /\ used = [k \in Usage!Counters |-> 0] /\ c_call = [c \in Pair |-> None]
      /\ answers = 0 /\ missed = {}
      /\ evictions = 0 /\ forgotten = 0 /\ check = None /\ slipped = {}
  BY DEF Usage!Init
<1>2. Askers \subseteq Usage!Counters /\ Usage!Tenant \in Usage!Counters
  BY DEF Usage!Counters
<1>3. UsageKinds
  <2>1. IsFiniteSet(c_rows)
    BY <1>1, FS_EmptySet
  <2>2. Usage!TypeOK
    BY <1>1, UsageNames DEF Usage!TypeOK
  <2> QED
    BY <1>1, <2>1, <2>2 DEF UsageKinds
<1>4. Renewed
  BY <1>1, <1>2 DEF Renewed
<1>5. Usage!CountersCoverMonth
  <2>1. ASSUME NEW v \in Askers PROVE c_count[v] >= Usage!Total(CountedOf(v))
    <3>1. CountedOf(v) = {}
      BY <1>1, InCounted
    <3> DEFINE f == [x \in {} |-> x.size]
    <3>2. f \in [{} -> Nat]
      OBVIOUS
    <3>3. Usage!Total({}) = Usage!Sum(f)
      BY DEF Usage!Total
    <3> HIDE DEF f
    <3>4. Usage!Total({}) = 0
      BY <3>2, <3>3, SumOfNothing
    <3>5. c_count[v] = 0
      BY <1>1, <1>2
    <3> QED
      BY <3>1, <3>4, <3>5
  <2> QED
    BY <2>1, CoverMonth
<1>6. Usage!TenantCoversUsers
  <2> DEFINE g == [u \in Askers |-> c_count[u]]
  <2>1. g \in [Askers -> Nat] /\ \A v \in Askers : g[v] = 0
    BY <1>1, <1>2
  <2> HIDE DEF g
  <2>2. Usage!Units(g) = {}
    <3>1. \A v \in Askers : 1 .. g[v] = {}
      BY <2>1
    <3> QED
      BY <2>1, <3>1, UnitsOf
  <2>3. Usage!Sum(g) = 0
    BY <2>2, FS_EmptySet, UsageNames DEF Usage!Sum
  <2>4. c_count[Usage!Tenant] = 0
    BY <1>1, <1>2
  <2> QED
    BY <1>1, <2>3, <2>4, TenantCovers DEF g
<1>7. LooksTrue
  BY <1>1 DEF LooksTrue
<1> QED
  BY <1>3, <1>4, <1>5, <1>6, <1>7 DEF UsageInv

\* A look, and what comes of it, count nothing.
LEMMA LooksKeep ==
  ASSUME UsageInv, (\E u \in Askers : Usage!LookUp(u)) \/ Usage!Tell
  PROVE  UsageInv'
<1>1. UsageKinds /\ Renewed /\ LooksTrue /\ Usage!CountersCoverMonth /\ Usage!TenantCoversUsers
  BY DEF UsageInv
<1>2. /\ today' = today /\ c_rows' = c_rows /\ c_count' = c_count /\ used' = used
      /\ c_call' = c_call /\ answers' = answers /\ missed' = missed
      /\ evictions' = evictions /\ forgotten' = forgotten
  BY DEF Usage!LookUp, Usage!Tell
<1>3. /\ LooksTrue'
      /\ check' \in Usage!Check \cup {None} /\ slipped' \subseteq Askers
  <2>1. ASSUME NEW u \in Askers, Usage!LookUp(u)
        PROVE  LooksTrue' /\ check' \in Usage!Check \cup {None} /\ slipped' \subseteq Askers
    <3> DEFINE o == c_count[u] >= Quota
               d == Usage!Counted(u) >= Quota
    <3>1. d => o
      <4>1. Usage!Counted(u) = Usage!Total(CountedOf(u))
        BY DEF Usage!Counted, CountedOf
      <4>2. c_count[u] >= Usage!Counted(u) /\ Usage!Counted(u) \in Nat
        BY <1>1, <4>1, CoverMonth, CountedTypes
      <4>3. c_count[u] \in Nat /\ Quota \in Nat
        BY <1>1, UsageTypes, UsageNames
      <4> QED
        BY <4>2, <4>3
    <3>2. check' = [user |-> u, over |-> o, due |-> d] /\ slipped' = slipped
      BY <2>1 DEF Usage!LookUp
    <3>3. o \in BOOLEAN /\ d \in BOOLEAN
      OBVIOUS
    <3> HIDE DEF o, d
    <3>4. check' \in Usage!Check /\ check'.due = d /\ check'.over = o
      BY <3>2, <3>3 DEF Usage!Check
    <3> QED
      BY <1>1, <3>1, <3>2, <3>4 DEF LooksTrue
  <2>2. CASE Usage!Tell
    <3>1. check # None /\ check' = None
      BY <2>2 DEF Usage!Tell
    <3>2. slipped' = slipped
      <4>1. ~(check.due /\ ~check.over)
        BY <1>1, <3>1 DEF LooksTrue
      <4> QED
        BY <2>2, <4>1 DEF Usage!Tell
    <3> QED
      BY <1>1, <3>1, <3>2 DEF LooksTrue
  <2> QED
    BY <2>1, <2>2
<1>4. Usage!Pending' = Usage!Pending
  BY <1>2, InPending
<1>5. Usage!Counters' = Usage!Counters /\ Usage!Row' = Usage!Row /\ Usage!Check' = Usage!Check
  BY DEF Usage!Counters, Usage!Tenant, Usage!Row, Usage!Check
<1>6. UsageKinds'
  BY <1>1, <1>2, <1>3, <1>5 DEF UsageKinds, Usage!TypeOK
<1>7. Renewed'
  BY <1>1, <1>2, <1>4 DEF Renewed, Usage!Tenant
<1>8. Usage!CountersCoverMonth'
  <2>1. \A v \in Askers : CountedOf(v)' = CountedOf(v)
    BY <1>2, <1>4 DEF CountedOf, Usage!ThisMonth
  <2> QED
    BY <1>1, <1>2, <2>1, CoverMonth
<1>9. Usage!TenantCoversUsers'
  BY <1>1, <1>2, TenantCovers
<1> QED
  BY <1>3, <1>6, <1>7, <1>8, <1>9 DEF UsageInv

\* A counter that Redis drops takes its user's rows with it, or is noted as forgotten.
LEMMA EvictKeeps ==
  ASSUME UsageInv, NEW k \in Usage!Counters, Usage!Evict(k)
  PROVE  UsageInv'
<1>1. UsageKinds /\ Renewed /\ LooksTrue /\ Usage!CountersCoverMonth /\ Usage!TenantCoversUsers
  BY DEF UsageInv
<1> DEFINE T == Usage!Tenant
<1>2. /\ evictions < MaxEvictions /\ evictions' = evictions + 1
      /\ c_count' = [c_count EXCEPT ![k] = 0]
      /\ today' = today /\ c_rows' = c_rows /\ used' = used /\ c_call' = c_call
      /\ answers' = answers /\ check' = check /\ slipped' = slipped
      /\ k = T => forgotten' = forgotten + c_count[k] /\ missed' = missed
      /\ k # T => /\ missed' = missed \cup {x \in c_rows \ Usage!Pending : x.user = k}
                  /\ forgotten' = forgotten
  BY DEF Usage!Evict
<1>3. /\ c_count \in [Usage!Counters -> Nat] /\ missed \subseteq c_rows
      /\ T \in Usage!Counters /\ T \notin Askers /\ Usage!Counters = Askers \cup {T}
      /\ forgotten \in Nat /\ evictions \in Nat /\ MaxEvictions \in Nat
  BY <1>1, UsageTypes, UsageNames
<1> HIDE DEF T
<1>4. /\ c_count' \in [Usage!Counters -> Nat] /\ c_count'[k] = 0
      /\ \A j \in Usage!Counters : j # k => c_count'[j] = c_count[j]
  BY <1>2, <1>3
<1>5. Usage!Pending' = Usage!Pending
  BY <1>2, InPending
<1>6. missed \subseteq missed' /\ missed' \subseteq c_rows /\ forgotten' \in Nat
  BY <1>2, <1>3
<1>7. UsageKinds'
  <2>1. Usage!Counters' = Usage!Counters /\ Usage!Row' = Usage!Row /\ Usage!Check' = Usage!Check
    BY DEF Usage!Counters, Usage!Tenant, Usage!Row, Usage!Check
  <2>2. evictions' \in 0 .. MaxEvictions
    BY <1>2, <1>3
  <2>3. Usage!TypeOK'
    BY <1>1, <1>2, <1>4, <1>6, <2>1, <2>2 DEF UsageKinds, Usage!TypeOK
  <2> QED
    BY <1>1, <1>2, <2>1, <2>3 DEF UsageKinds
<1>8. Renewed'
  BY <1>1, <1>2, <1>5, <1>6 DEF Renewed, Usage!Tenant
<1>9. Usage!CountersCoverMonth'
  <2>1. ASSUME NEW v \in Askers PROVE c_count'[v] >= Usage!Total(CountedOf(v)')
    <3>1. CASE v = k
      <4>1. CountedOf(v)' = {}
        <5>1. \A x \in c_rows : x \notin missed' /\ x \notin Usage!Pending => x.user # v
          BY <1>2, <1>3, <3>1
        <5> QED
          BY <1>2, <1>5, <5>1, InCounted
      <4>2. Usage!Total({}) = 0
        <5> DEFINE f == [x \in {} |-> x.size]
        <5>1. f \in [{} -> Nat]
          OBVIOUS
        <5>2. Usage!Total({}) = Usage!Sum(f)
          BY DEF Usage!Total
        <5> HIDE DEF f
        <5> QED
          BY <5>1, <5>2, SumOfNothing
      <4> QED
        BY <1>4, <3>1, <4>1, <4>2
    <3>2. CASE v # k
      <4>1. CountedOf(v)' \subseteq CountedOf(v)
        BY <1>2, <1>5, <1>6, InCounted
      <4>2. c_count[v] >= Usage!Total(CountedOf(v))
        BY <1>1, CoverMonth
      <4>3. c_count[v] >= Usage!Total(CountedOf(v)')
        BY <1>1, <4>1, <4>2, FewerAreCovered
      <4> QED
        BY <1>3, <1>4, <3>2, <4>3
    <3> QED
      BY <3>1, <3>2
  <2> QED
    BY <2>1, CoverMonth
<1>10. Usage!TenantCoversUsers'
  <2> DEFINE f == [u \in Askers |-> c_count[u]]
             g == [u \in Askers |-> c_count'[u]]
  <2>1. f \in [Askers -> Nat] /\ g \in [Askers -> Nat] /\ IsFiniteSet(Askers)
    BY <1>3, <1>4, UsageNames
  <2>2. c_count[T] + forgotten >= Usage!Sum(f)
    BY <1>1, TenantCovers DEF T
  <2>3. \A v \in Askers : g[v] <= f[v]
    BY <1>3, <1>4
  <2>4. c_count'[T] + forgotten' = c_count[T] + forgotten
    BY <1>2, <1>3, <1>4
  <2> HIDE DEF f, g
  <2>5. Usage!Sum(g) <= Usage!Sum(f) /\ Usage!Sum(g) \in Nat /\ Usage!Sum(f) \in Nat
    BY <2>1, <2>3, SumShrinks, SumIsNatural
  <2>6. c_count'[T] + forgotten' >= Usage!Sum(g)
    BY <1>3, <2>2, <2>4, <2>5
  <2> QED
    BY <2>6, TenantCovers DEF T, g
<1>11. LooksTrue'
  BY <1>1, <1>2 DEF LooksTrue
<1> QED
  BY <1>7, <1>8, <1>9, <1>10, <1>11 DEF UsageInv

LEMMA UsageStays ==
  ASSUME UsageInv, ServicesStep, focus = "usage"
  PROVE  UsageInv'
<1>1. CASE Usage!Next
  BY <1>1, LogKeeps, CountKeeps, MissKeeps, PassKeeps, LooksKeep, EvictKeeps DEF Usage!Next
<1>2. CASE UNCHANGED usage
  <2>1. /\ today' = today /\ c_rows' = c_rows /\ c_count' = c_count /\ used' = used
        /\ c_call' = c_call /\ answers' = answers /\ missed' = missed
        /\ evictions' = evictions /\ forgotten' = forgotten /\ check' = check
        /\ slipped' = slipped
    BY <1>2 DEF usage
  <2>2. Usage!Pending' = Usage!Pending
    BY <2>1, InPending
  <2>3. Usage!Counters' = Usage!Counters /\ Usage!Row' = Usage!Row /\ Usage!Tenant' = Usage!Tenant
        /\ Usage!Check' = Usage!Check
    BY DEF Usage!Counters, Usage!Tenant, Usage!Row, Usage!Check
  <2>4. UsageKinds' /\ LooksTrue'
    BY <2>1, <2>3 DEF UsageInv, UsageKinds, LooksTrue, Usage!TypeOK
  <2>5. Renewed'
    BY <2>1, <2>2, <2>3 DEF UsageInv, Renewed
  <2>6. Usage!CountersCoverMonth'
    <3>1. \A v \in Askers : CountedOf(v)' = CountedOf(v)
      BY <2>1, <2>2 DEF CountedOf, Usage!ThisMonth
    <3> QED
      BY <2>1, <3>1, CoverMonth DEF UsageInv
  <2>7. Usage!TenantCoversUsers'
    BY <2>1, TenantCovers DEF UsageInv
  <2> QED
    BY <2>4, <2>5, <2>6, <2>7 DEF UsageInv
<1> QED
  BY <1>1, <1>2 DEF ServicesStep, ServicesNext, ServicesVars

\* Who has used up what a month allows is refused.
LEMMA UsageIsSound ==
  ASSUME UsageInv
  PROVE  Usage!UsageSound
<1>1. UsageKinds /\ Usage!CountersCoverMonth /\ Usage!TenantCoversUsers /\ Usage!TypeOK
  BY DEF UsageInv, UsageKinds
<1>2. Usage!OverQuotaIsRefused
  BY DEF UsageInv, LooksTrue, Usage!OverQuotaIsRefused
<1> QED
  BY <1>1, <1>2 DEF Usage!UsageSound

\* The counters never show less than the report of the month does of the answers counted since
\* their last eviction, however calls overlap, Redis fails or evicts and days pass, so a look at a
\* quota that is used up refuses, unless Redis does not answer it (check_quota).
THEOREM UsageStaysSound == ServicesSpec => []UsageSound
<1> DEFINE Inv == focus = "usage" => UsageInv
<1>1. ServicesInit => Inv
  BY UsageStarts DEF ServicesInit
<1>2. Inv /\ [ServicesNext]_ServicesVars => Inv'
  <2> SUFFICES ASSUME Inv, ServicesStep, focus' = "usage" PROVE UsageInv'
    BY DEF ServicesStep
  <2>1. focus = "usage"
    BY DEF ServicesStep, ServicesNext, ServicesVars
  <2> QED
    BY <2>1, UsageStays
<1>3. Inv => UsageSound
  BY UsageIsSound DEF UsageSound
<1> QED
  BY <1>1, <1>2, <1>3, PTL DEF ServicesSpec
=============================================================================
