------------------------------ MODULE Answering ------------------------------
(***************************************************************************)
(* From the retrieved contexts to an answer with checked citations: grade  *)
(* the evidence, correct the retrieval once, generate, mark, verify every  *)
(* mark, and when no mark stands retrieve and generate once more.  Texts   *)
(* are abstracted to their marks: a mark is the set of numbers between one *)
(* pair of brackets.  A reply may also be an object that lists what it     *)
(* cites itself; then that list is verified, and not the marks.            *)
(***************************************************************************)
EXTENDS Naturals, Sequences, FiniteSets, Functions

CONSTANTS
  Found,      \* what mixed_search may answer: [ids, level, reranked]
  Texts,      \* what the model may answer: sequences of sets of marks
  Listed,     \* what a structured reply may list: sets of items <<sentence, {n}, n>>
  RerankOn,   \* settings.RERANK_ENABLE
  None

Levels == {"low", "middle", "high"}   \* of the first score, against CRAG_LOW and CRAG_HIGH
Empty == [ids |-> <<>>, level |-> "low", reranked |-> FALSE]
Nothing == [text |-> <<>>, dropped |-> {}, map |-> {}, again |-> FALSE, degraded |-> FALSE,
            listed |-> FALSE, contexts |-> Empty]

\* What is found is not empty; a mark is a finite set; None is no list of labels.
AnsweringAssumption ==
  /\ \A f \in Found :
       /\ f \in [ids : Seq(Range(f.ids)) \ {<<>>}, level : Levels, reranked : BOOLEAN]
       /\ None \notin [1 .. Len(f.ids) -> {"relevant", "partial", "irrelevant"}]
  /\ \A t \in Texts : t \in Seq(Range(t)) /\ \A i \in DOMAIN t : \A m \in t[i] : IsFiniteSet(m)
  /\ None \notin Listed

VARIABLES
  phase,
  contexts,    \* the evidence in its order; a context without an id is None
  grade,
  action,
  confidence,
  text,        \* the answer being made: its sentences' marks
  listed,      \* the items it lists itself, or None
  round,       \* 1, or 2 when the verification asked for another answer
  answer,      \* what has been verified last, with the contexts it is numbered by
  labels,      \* history: labels the model gave the contexts, None when not asked
  stood        \* history: items the last verification kept

vars == <<phase, contexts, grade, action, confidence, text, listed, round, answer, labels, stood>>

Init ==
  /\ phase = "retrieve" /\ contexts = Empty
  /\ grade = None /\ action = "normal" /\ confidence = "high"
  /\ text = <<>> /\ listed = None /\ round = 1 /\ answer = Nothing
  /\ labels = None /\ stood = {}

-----------------------------------------------------------------------------
(* Without any evidence the answer is a refusal. *)
Retrieve ==
  /\ phase = "retrieve"
  /\ \E found \in Found \cup {Empty} :
       /\ contexts' = found
       /\ phase' = IF found.ids = <<>> THEN "done" ELSE "grade"
       /\ confidence' = IF found.ids = <<>> THEN "refused" ELSE confidence
  /\ UNCHANGED <<grade, action, text, listed, round, answer, labels, stood>>

(* crag.grade, by the first score. *)
ByScore(found) ==
  IF ~RerankOn THEN "ambiguous"
  ELSE CASE found.ids = <<>> -> "incorrect"
         [] found.level = "high" -> "correct"
         [] found.level = "low" -> "incorrect"
         [] OTHER -> "ambiguous"

(* labels_to_grade, by the model's labels of every context. *)
ByLabels(given) ==
  LET relevant == {i \in DOMAIN given : given[i] = "relevant"}
      partial == {i \in DOMAIN given : given[i] = "partial"} IN
  IF Cardinality(relevant) >= 2 THEN "correct"
  ELSE IF relevant \cup partial # {} THEN "ambiguous" ELSE "incorrect"

(* The labels are off, fail, take too long or do not parse: the score.      *)
Grade ==
  /\ phase = "grade"
  /\ \/ labels' = None /\ grade' = ByScore(contexts)
     \/ \E given \in [1 .. Len(contexts.ids) -> {"relevant", "partial", "irrelevant"}] :
          labels' = given /\ grade' = ByLabels(given)
  /\ phase' = "correct"
  /\ UNCHANGED <<contexts, action, confidence, text, listed, round, answer, stood>>

(* CRAG_ENABLE is off: nothing is graded, and confidence stays high.        *)
Ungraded ==
  /\ phase = "grade" /\ phase' = "generate"
  /\ UNCHANGED <<contexts, grade, action, confidence, text, listed, round, answer, labels, stood>>

(* Incorrect evidence: another query, if the model finds one, and its       *)
(* contexts, if there are any.                                              *)
Correct ==
  /\ phase = "correct"
  /\ \/ UNCHANGED <<contexts, grade, action, labels>>
     \/ /\ grade = "incorrect"
        /\ \E found \in Found :
             contexts' = found /\ grade' = ByScore(found) /\ action' = "rewritten" /\ labels' = None
  /\ phase' = "widen"
  /\ UNCHANGED <<confidence, text, listed, round, answer, stood>>

\* mutant
ConfidenceByGrade(g, a) == IF g = "correct" THEN "high" ELSE "medium"

(* _expand_neighbors, when it is on: neighbours come without an id. *)
Confidence(g, a) ==
  IF g = "correct" /\ a # "rewritten" THEN "high"
  ELSE IF g = "incorrect" /\ a = "rewritten" THEN "refused" ELSE "medium"

Widen ==
  /\ phase = "widen"
  /\ \/ UNCHANGED contexts
     \/ grade = "ambiguous" /\ contexts' = [contexts EXCEPT !.ids = Append(@, None)]
  /\ confidence' = Confidence(grade, action)
  /\ action' = IF grade = "incorrect" /\ action = "rewritten" THEN "refused" ELSE action
  /\ phase' = "generate"
  /\ UNCHANGED <<grade, text, listed, round, answer, labels, stood>>

-----------------------------------------------------------------------------
(* The model answers, with a list of its own or without one; auto_cite      *)
(* marks bare sentences with the context most like them, where one is like  *)
(* enough, unless structured output is on.                                  *)
Marked(t) ==
  {m \in [1 .. Len(t) -> (UNION {Range(u) : u \in Texts}) \cup {{{k}} : k \in 1 .. Len(contexts.ids)}] :
     \A i \in 1 .. Len(t) : m[i] = t[i] \/ (t[i] = {} /\ \E k \in 1 .. Len(contexts.ids) : m[i] = {{k}})}

Generate ==
  /\ phase = "generate"
  /\ \E t \in Texts : text' \in Marked(t)
  /\ listed' \in Listed \cup {None}
  /\ phase' = "verify"
  /\ UNCHANGED <<contexts, grade, action, confidence, round, answer, labels, stood>>

(* The model fails the first time: the request fails.                       *)
GenerateFails ==
  /\ phase = "generate" /\ round = 1
  /\ phase' = "failed"
  /\ UNCHANGED <<contexts, grade, action, confidence, text, listed, round, answer, labels, stood>>

(* The items a reply lists, or one per number in a mark; the context must   *)
(* exist and have an id.                                                    *)
Cited == {item \in (1 .. Len(text)) \X (UNION Range(text)) \X (UNION UNION Range(text)) :
            item[2] \in text[item[1]] /\ item[3] \in item[2]}
Items == IF listed = None THEN Cited ELSE listed
Chunk(n) == IF n \in 1 .. Len(contexts.ids) THEN contexts.ids[n] ELSE None
Valid == {item \in Items : Chunk(item[3]) # None}

(* What verify keeps: items like enough their context, all of them when the *)
(* vectors fail; of those the ones the model does not find contradicted,    *)
(* all of them when it is off, fails or takes too long.                     *)
Verdicts ==
  {v \in [kept : SUBSET Valid, degraded : BOOLEAN] : v.degraded => v.kept # {}}

Stripped(t, dropped) == [i \in 1 .. Len(t) |-> t[i] \ {{n} : n \in dropped}]

Mapped(dropped) == {<<item[1], item[3]>> : item \in {x \in Items : x[3] \notin dropped}}

Verify ==
  /\ phase = "verify"
  /\ \E v \in Verdicts :
       LET dropped == {item[3] : item \in Items \ v.kept} IN
       /\ stood' = v.kept
       /\ answer' = [text |-> Stripped(text, dropped), dropped |-> dropped,
                     map |-> Mapped(dropped),
                     again |-> v.kept = {}, degraded |-> v.degraded,
                     listed |-> listed # None, contexts |-> contexts]
       /\ phase' = IF v.kept = {} /\ round = 1 THEN "again" ELSE "done"
  /\ UNCHANGED <<contexts, grade, action, confidence, text, listed, round, labels>>

(* Verification is off: the answer goes out as it is. *)
Skip ==
  /\ phase = "verify" /\ round = 1
  /\ answer' = [Nothing EXCEPT !.text = text, !.contexts = contexts]
  /\ phase' = "done"
  /\ UNCHANGED <<contexts, grade, action, confidence, text, listed, round, labels, stood>>

(* Once more with another query; the first answer and its contexts stay     *)
(* until the second one is verified, and when anything fails on the way.    *)
Again ==
  /\ phase = "again"
  /\ \E found \in Found : contexts' = found
  /\ round' = 2 /\ phase' = "generate"
  /\ UNCHANGED <<grade, action, confidence, text, listed, answer, labels, stood>>

GiveUp ==
  /\ phase = "again" \/ (round = 2 /\ phase \in {"generate", "verify"})
  /\ contexts' = answer.contexts
  /\ phase' = "done"
  /\ UNCHANGED <<grade, action, confidence, text, listed, round, answer, labels, stood>>

Next ==
  \/ Retrieve \/ Grade \/ Ungraded \/ Correct \/ Widen
  \/ Generate \/ GenerateFails \/ Verify \/ Skip \/ Again \/ GiveUp

Spec == Init /\ [][Next]_vars

-----------------------------------------------------------------------------
(* Grades, confidences and texts are of their kinds. *)
TypeOK ==
  /\ grade \in {None, "correct", "ambiguous", "incorrect"}
  /\ action \in {"normal", "rewritten", "refused"}
  /\ confidence \in {"high", "medium", "refused"}
  /\ contexts.level \in Levels /\ round \in 1 .. 2

(* The contexts an answer is returned with are the ones its marks number,   *)
(* whichever step of the second round failed.                               *)
NumbersFitContexts == phase = "done" /\ confidence # "refused" => answer.contexts = contexts

(* What the map of a verified answer cites is a context it is returned with *)
(* and one with an id; and so is what a mark of one number points to, unless*)
(* the reply listed what it cites: then a mark it did not list is not       *)
(* looked at, whatever it numbers.                                          *)
Numbered(n) == n \in 1 .. Len(contexts.ids) /\ contexts.ids[n] # None
MarksHaveChunks ==
  phase = "done" /\ (answer.dropped # {} \/ answer.map # {}) =>
    /\ \A entry \in answer.map : Numbered(entry[2])
    /\ ~answer.listed => \A i \in 1 .. Len(answer.text) : \A mark \in answer.text[i] :
         Cardinality(mark) = 1 => \A n \in mark : Numbered(n)

(* What the map of an answer cites was kept by the verification of that     *)
(* very answer; with the number of a dropped item all its items are out.    *)
MapWasKept == \A entry \in answer.map :
  (\E item \in stood : <<item[1], item[3]>> = entry) /\ entry[2] \notin answer.dropped

(* Where evidence is graded, high confidence has some: the contexts         *)
(* generated from score high or at least two were found relevant, and no    *)
(* correction replaced them; a refusal has none, after a correction (first  *)
(* answers; a second one keeps the grade of the first one's contexts).      *)
ConfidenceIsEarned ==
  grade # None /\ phase \in {"generate", "verify", "again"} /\ round = 1 =>
    /\ confidence = "high" => action = "normal" /\
         IF labels = None THEN contexts.level = "high"
         ELSE \E i, j \in DOMAIN labels : i # j /\ labels[i] = "relevant" /\ labels[j] = "relevant"
    /\ confidence = "refused" => action = "refused" /\ labels = None /\ contexts.level = "low"

(* What crag.py says of itself (line 9): when the reranker is off or failed *)
(* the score is not reliable, and the grade is ambiguous.                   *)
UnreliableIsAmbiguous ==
  phase = "correct" /\ labels = None /\ ~contexts.reranked => grade = "ambiguous"

\* An answer's marks point to chunks that were retrieved, and its confidence is that of
\* the evidence.
CitationsSound ==
  TypeOK /\ NumbersFitContexts /\ MarksHaveChunks /\ MapWasKept /\ ConfidenceIsEarned
=============================================================================
