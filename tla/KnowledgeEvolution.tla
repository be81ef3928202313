------------------------ MODULE KnowledgeEvolution ------------------------
(***************************************************************************)
(* Drafts of knowledge written from the questions people disliked: their   *)
(* review, their way into the knowledge base (reflow) and out of it        *)
(* (withdrawal).  All drafts share one document; a chunk is numbered by    *)
(* the count of the chunks there are, and its vector's key in Milvus is    *)
(* that number.  Requests read a draft, wait, and write later.             *)
(***************************************************************************)
EXTENDS Naturals, FiniteSets

CONSTANTS
  Drafts, Requests,
  Quota,     \* KNOWLEDGE_EVOLUTION_WEEKLY_QUOTA
  MaxWeeks,  \* bound of an instance
  None

Asking == [step : {"review", "insert", "index", "withdraw"}, draft : Drafts, number : Nat]

EvolutionAssumption ==
  Quota \in Nat /\ IsFiniteSet(Drafts) /\ None \notin Nat /\ None \notin Asking

VARIABLES
  status,    \* of each draft
  chunk,     \* draft -> number of its chunk row, None without one
  vectors,   \* Milvus: set of [key, draft]; a key may occur twice
  recent,    \* drafts indexed in the last seven days
  req,       \* request -> None or [step, draft, seen, action, number]
  weeks, approved, crossed, failed  \* history

vars == <<status, chunk, vectors, recent, req, weeks, approved, crossed, failed>>

Init ==
  /\ status = [d \in Drafts |-> "draft"]
  /\ chunk = [d \in Drafts |-> None]
  /\ vectors = {} /\ recent = {}
  /\ req = [r \in Requests |-> None]
  /\ weeks = 0 /\ approved = {} /\ crossed = FALSE /\ failed = FALSE

Busy == \E r \in Requests : req[r] # None
At(r, step) == req[r] # None /\ req[r].step = step
Done(r) == req' = [req EXCEPT ![r] = None]

Begin(r, step, d, number) ==
  /\ req[r] = None
  /\ req' = [req EXCEPT ![r] = [step |-> step, draft |-> d, number |-> number]]
  /\ crossed' = (crossed \/ Busy)
  /\ UNCHANGED <<status, chunk, vectors, recent, weeks, approved, failed>>

BeginReview(r, d) == status[d] = "draft" /\ Begin(r, "review", d, 0)

Decide(r, verdict) ==
  /\ At(r, "review") /\ Done(r)
  /\ status' = [status EXCEPT ![req[r].draft] = verdict]
  /\ approved' = IF verdict = "approved" THEN approved \cup {req[r].draft} ELSE approved
  /\ UNCHANGED <<chunk, vectors, recent, weeks, crossed, failed>>

Counted == Cardinality({d \in recent : status[d] = "indexed"})
Rows == {d \in Drafts : chunk[d] # None}

(* reflow_to_kb: the quota and the number of the chunk are read ... *)
BeginReflow(r, d) ==
  /\ status[d] = "approved"
  /\ Quota = 0 \/ Counted < Quota
  /\ Begin(r, "insert", d, Cardinality(Rows))

(* ... the vector is inserted while the chunk is only flushed ... *)
InsertVector(r) ==
  /\ At(r, "insert")
  /\ vectors' = vectors \cup {[key |-> req[r].number, draft |-> req[r].draft]}
  /\ req' = [req EXCEPT ![r].step = "index"]
  /\ UNCHANGED <<status, chunk, recent, weeks, approved, crossed, failed>>

(* ... and the commit makes chunk and status last. *)
CommitReflow(r) ==
  LET d == req[r].draft IN
  /\ At(r, "index") /\ Done(r)
  /\ status' = [status EXCEPT ![d] = "indexed"]
  /\ chunk' = [chunk EXCEPT ![d] = req[r].number]
  /\ recent' = recent \cup {d}
  /\ UNCHANGED <<vectors, weeks, approved, crossed, failed>>

\* mutant
BeginWithdrawLast(r, d) ==
  /\ status[d] = "indexed"
  /\ Begin(r, "withdraw", d, Cardinality(Rows))

BeginWithdraw(r, d) ==
  /\ status[d] = "indexed"
  /\ Begin(r, "withdraw", d, IF chunk[d] = None THEN Cardinality(Drafts) ELSE chunk[d])

(* Milvus forgets every vector of the key, or fails and is forgiven. *)
CommitWithdraw(r) ==
  LET d == req[r].draft IN
  /\ At(r, "withdraw") /\ Done(r)
  /\ \/ vectors' = {v \in vectors : v.key # req[r].number} /\ UNCHANGED failed
     \/ UNCHANGED vectors /\ failed' = TRUE
  /\ chunk' = [chunk EXCEPT ![d] = None]
  /\ status' = [status EXCEPT ![d] = "withdrawn"]
  /\ UNCHANGED <<recent, weeks, approved, crossed>>

BreakOff(r) ==
  /\ req[r] # None /\ Done(r) /\ failed' = TRUE
  /\ UNCHANGED <<status, chunk, vectors, recent, weeks, approved, crossed>>

NewWeek ==
  /\ weeks < MaxWeeks /\ weeks' = weeks + 1 /\ recent' = {}
  /\ UNCHANGED <<status, chunk, vectors, req, approved, crossed, failed>>

Next ==
  \/ \E r \in Requests :
       \/ \E d \in Drafts : BeginReview(r, d) \/ BeginReflow(r, d) \/ BeginWithdraw(r, d)
       \/ Decide(r, "approved") \/ Decide(r, "rejected")
       \/ InsertVector(r) \/ CommitReflow(r) \/ CommitWithdraw(r) \/ BreakOff(r)
  \/ NewWeek

Spec == Init /\ [][Next]_vars

-----------------------------------------------------------------------------
(* Columns, keys and requests hold values of their kinds. *)
TypeOK ==
  /\ status \in [Drafts -> {"draft", "approved", "rejected", "indexed", "withdrawn"}]
  /\ chunk \in [Drafts -> {None} \cup 0 .. Cardinality(Drafts)]
  /\ vectors \subseteq [key : 0 .. Cardinality(Drafts), draft : Drafts]
  /\ recent \subseteq Drafts /\ approved \subseteq Drafts

(* What an AI wrote is searched only after a person approved it, whatever   *)
(* overlaps or fails (review_draft, reflow_to_kb).                          *)
NothingUnreviewed == \A v \in vectors : v.draft \in approved

(* No more drafts of a week count as indexed than the quota allows, unless  *)
(* requests overlapped (reflow_to_kb counts before it writes).              *)
QuotaKept == Quota > 0 /\ ~crossed => Counted <= Quota

(* A draft that is rejected or withdrawn is not searched any more, unless   *)
(* requests overlapped or a store failed.                                   *)
WithdrawnIsGone ==
  ~crossed /\ ~failed =>
    \A v \in vectors : status[v.draft] \notin {"rejected", "withdrawn", "draft"}

\* Only reviewed drafts reach the knowledge base, within the quota, and leave it again.
ReflowSound == TypeOK /\ NothingUnreviewed /\ QuotaKept /\ WithdrawnIsGone
=============================================================================
