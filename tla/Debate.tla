------------------------------- MODULE Debate -------------------------------
(***************************************************************************)
(* A diagnosis debated by three experts and a judge.  The experts work at  *)
(* the same time and any of them may fail; when all have causes and none   *)
(* in common they hear each other once more; the judge decides, or the     *)
(* first expert's opinion stands.                                          *)
(***************************************************************************)
EXTENDS Naturals, FiniteSets

CONSTANTS Experts, First, Causes, None

VARIABLES
  round,     \* 1, 2, or 3 for the judge, 4 when the answer is out
  thinking,  \* experts of this round that have not answered
  said,      \* expert -> causes of this round's answer, None if it failed
  opinions,  \* expert -> causes the judge will see
  errors,    \* experts that failed in the first round
  answer     \* None or the causes of the diagnosis

vars == <<round, thinking, said, opinions, errors, answer>>

Init ==
  /\ round = 1 /\ thinking = Experts
  /\ said = [e \in Experts |-> {}]
  /\ opinions = [e \in Experts |-> {}]
  /\ errors = {} /\ answer = None

Speak(e, causes) ==
  /\ e \in thinking /\ thinking' = thinking \ {e}
  /\ said' = [said EXCEPT ![e] = causes]
  /\ UNCHANGED <<round, opinions, errors, answer>>

Fail(e) ==
  /\ e \in thinking /\ thinking' = thinking \ {e}
  /\ said' = [said EXCEPT ![e] = None]
  /\ UNCHANGED <<round, opinions, errors, answer>>

(* _consensus_needs_debate: every expert has causes and no cause is shared. *)
Shared(ops) == {c \in Causes : \A e \in Experts : c \in ops[e]}
\* mutant
NeedsDebateAnyway(ops) == Shared(ops) = {}

NeedsDebate(ops) == Shared(ops) = {} /\ \A e \in Experts : ops[e] # {}

(* An expert who failed has no causes in the first round, and keeps the     *)
(* first opinion in the second.                                             *)
Heard(e) == IF said[e] # None THEN said[e] ELSE opinions[e]

Gather ==
  LET ops == [e \in Experts |-> Heard(e)]
      failures == {e \in Experts : said[e] = None} IN
  /\ round \in {1, 2} /\ thinking = {}
  /\ opinions' = ops
  /\ errors' = IF round = 1 THEN failures ELSE errors
  /\ IF round = 1 /\ NeedsDebate(ops) /\ Cardinality(failures) < 2
     THEN round' = 2 /\ thinking' = Experts
     ELSE round' = 3 /\ UNCHANGED thinking
  /\ said' = [e \in Experts |-> {}]
  /\ UNCHANGED answer

Judge(causes) ==
  /\ round = 3 /\ round' = 4 /\ answer' = causes
  /\ UNCHANGED <<thinking, said, opinions, errors>>

JudgeFails ==
  /\ round = 3 /\ round' = 4 /\ answer' = opinions[First]
  /\ UNCHANGED <<thinking, said, opinions, errors>>

Next ==
  \/ \E e \in Experts : Fail(e) \/ \E causes \in SUBSET Causes : Speak(e, causes)
  \/ Gather \/ JudgeFails \/ \E causes \in SUBSET Causes : Judge(causes)

(* Every expert and the judge answer or fail. *)
Spec == Init /\ [][Next]_vars /\ WF_vars(Next)

-----------------------------------------------------------------------------
(* Rounds and opinions hold values of their kinds. *)
TypeOK ==
  /\ round \in 1 .. 4 /\ thinking \subseteq Experts /\ errors \subseteq Experts
  /\ opinions \in [Experts -> SUBSET Causes]
  /\ said \in [Experts -> (SUBSET Causes) \cup {None}]

(* The experts debate only when none of them failed: an expert without      *)
(* causes ends the debate before it begins (debate_diagnose).               *)
DebateNeedsAll == round = 2 => errors = {}

(* Every diagnosis ends. *)
DebateEnds == <>(round = 4)

\* Experts debate only when every one of them has given an opinion.
DebateSound == TypeOK /\ DebateNeedsAll
=============================================================================
