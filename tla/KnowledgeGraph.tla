--------------------------- MODULE KnowledgeGraph ---------------------------
(***************************************************************************)
(* The knowledge graph, kept twice: triples with their documents in MySQL, *)
(* one edge per fact in Neo4j.  Extractions add to both, a deleted         *)
(* document takes its part with it, people correct triples, and questions  *)
(* read what the tenant may see.                                           *)
(***************************************************************************)
EXTENDS Naturals, FiniteSets

CONSTANTS
  Docs, Own,     \* documents, and those of the asking tenant
  Facts,         \* (subject, relation, object), normalised
  Says,          \* document -> what the language model may read out of it
  Means,         \* ... and the fact it stands for, None for noise
  Extractions,
  MaxExtracts, MaxEdits, MaxAsks, TopK,  \* bounds of an instance; facts in an answer
  None

VARIABLES
  rows,      \* kg_triples: how many rows state a fact for a document
  edges,     \* Neo4j: fact -> the document it was first drawn for
  live,      \* documents with a row
  blocked,   \* documents the governance gate excludes
  job,       \* extraction -> None or its progress
  deleting,  \* None or the document being deleted
  ask, answer,            \* None or a question's progress; what it was answered
  extracts, edits, asks,
  allowed, corrected, crossed, failed  \* history

graph == <<rows, edges, live, blocked>>
asking == <<ask, answer, asks, allowed>>
vars == <<graph, job, deleting, asking, extracts, edits, corrected, crossed, failed>>

Init ==
  /\ rows = [d \in Docs |-> [f \in Facts |-> 0]] /\ edges = <<>>
  /\ live = Docs /\ blocked = {}
  /\ job = [x \in Extractions |-> None] /\ deleting = None
  /\ ask = None /\ answer = None
  /\ extracts = 0 /\ edits = 0 /\ asks = 0
  /\ allowed = {} /\ corrected = {} /\ crossed = FALSE /\ failed = FALSE

Jobs == [doc : Docs, facts : SUBSET Facts, existing : SUBSET Facts, step : {"said", "stored"}]
GraphAssumption ==
  /\ \A d \in Docs : \A t \in Says[d] : Means[t] \in Facts \cup {None}
  /\ None \notin Docs /\ None \notin Jobs

Stated(d) == {f \in Facts : rows[d][f] > 0}
Busy(d) == deleting = d \/ \E x \in Extractions : job[x] # None /\ job[x].doc = d

-----------------------------------------------------------------------------
(* extract_triples: the transaction's view of the rows is as old as its     *)
(* first query; batches the model fails on are missing from what it says.   *)
Parsed(d) == SUBSET Says[d]
Canonical(t) == Means[t]
Normalized(said) == {Canonical(t) : t \in said} \ {None}
Extract(x) ==
  /\ job[x] = None /\ extracts < MaxExtracts /\ extracts' = extracts + 1
  /\ \E d \in live : \E said \in Parsed(d) :
       /\ job' = [job EXCEPT ![x] =
            [doc |-> d, facts |-> Normalized(said), existing |-> Stated(d), step |-> "said"]]
       /\ crossed' = (crossed \/ Busy(d))
  /\ UNCHANGED <<graph, deleting, asking, edits, corrected, failed>>

(* Only what is new becomes rows; a deletion of the document holds them up. *)
New(j) == j.facts \ j.existing
StoreRows(x) ==
  /\ job[x] # None /\ job[x].step = "said" /\ deleting # job[x].doc
  /\ rows' = [rows EXCEPT ![job[x].doc] =
                [f \in Facts |-> @[f] + (IF f \in New(job[x]) THEN 1 ELSE 0)]]
  /\ job' = [job EXCEPT ![x] = IF New(@) = {} THEN None ELSE [@ EXCEPT !.step = "stored", !.facts = New(job[x])]]
  /\ UNCHANGED <<edges, live, blocked, deleting, asking, extracts, edits, corrected, crossed, failed>>

(* upsert_triples: one MERGE after the other, keeping an edge that is there.*)
(* A failure ends it.                                                       *)
Merge(f, d) == [g \in DOMAIN edges \cup {f} |-> IF g \in DOMAIN edges THEN edges[g] ELSE d]

Draw(x) ==
  /\ job[x] # None /\ job[x].step = "stored"
  /\ \/ \E f \in job[x].facts :
          /\ edges' = Merge(f, job[x].doc)
          /\ job' = [job EXCEPT ![x] = IF @.facts = {f} THEN None
                                       ELSE [@ EXCEPT !.facts = job[x].facts \ {f}]]
          /\ UNCHANGED failed
     \/ job' = [job EXCEPT ![x] = None] /\ failed' = TRUE /\ UNCHANGED edges
  /\ UNCHANGED <<rows, live, blocked, deleting, asking, extracts, edits, corrected, crossed>>

-----------------------------------------------------------------------------
\* mutant
WithoutNone(d) == edges

(* delete_document: the edges drawn for it go while the deletion of its     *)
(* rows still waits for its commit.                                         *)
Without(d) == [f \in {g \in DOMAIN edges : edges[g] # d} |-> edges[f]]
DeleteEdges ==
  /\ deleting = None
  /\ \E d \in live :
       /\ deleting' = d /\ crossed' = (crossed \/ Busy(d))
       /\ \/ edges' = Without(d) /\ UNCHANGED failed
          \/ failed' = TRUE /\ UNCHANGED edges
  /\ UNCHANGED <<rows, live, blocked, job, asking, extracts, edits, corrected>>

DeleteRows ==
  /\ deleting # None /\ deleting' = None
  /\ rows' = [rows EXCEPT ![deleting] = [f \in Facts |-> 0]]
  /\ live' = live \ {deleting}
  /\ UNCHANGED <<edges, blocked, job, asking, extracts, edits, corrected, crossed, failed>>

(* update_triple and delete_triple of the router: the row changes.  The     *)
(* functions of neo4j_client they call next do not exist; the error is      *)
(* swallowed.                                                               *)
Correct(d, f, becomes) ==
  /\ edits < MaxEdits /\ edits' = edits + 1
  /\ rows[d][f] > 0 /\ deleting # d
  /\ rows' = [rows EXCEPT ![d] = [g \in Facts |->
       @[g] + (IF g \in becomes THEN 1 ELSE 0) - (IF g = f THEN 1 ELSE 0)]]
  /\ corrected' = corrected \cup {f}
  /\ UNCHANGED <<edges, live, blocked, job, deleting, asking, extracts, crossed, failed>>

UpdateTriple == \E d \in Docs, f, g \in Facts : f # g /\ Correct(d, f, {g})
DeleteTriple == \E d \in Docs, f \in Facts : Correct(d, f, {})

(* A review blocks or unblocks a document of the tenant; those after the    *)
(* last question of an instance are left out.                               *)
Review ==
  /\ asks < MaxAsks \/ ask # None
  /\ \E d \in live \cap Own : blocked' = IF d \in blocked THEN blocked \ {d} ELSE blocked \cup {d}
  /\ allowed' = allowed \cup (live \ blocked')
  /\ UNCHANGED <<rows, edges, live, job, deleting, ask, answer, asks, extracts, edits, corrected, crossed, failed>>

-----------------------------------------------------------------------------
(* graph_context and get_graph for a tenant: rows of its documents, then    *)
(* the gate, then the cut; without the gate nothing.                        *)
Visible == {fact \in (live \cap Own) \X Facts : rows[fact[1]][fact[2]] > 0}
Ask ==
  /\ ask = None /\ asks < MaxAsks /\ asks' = asks + 1 /\ answer' = None
  /\ \E found \in SUBSET Visible :
       /\ Cardinality(found) = (IF Cardinality(Visible) < 3 * TopK THEN Cardinality(Visible) ELSE 3 * TopK)
       /\ ask' = found
  /\ allowed' = live \ blocked
  /\ UNCHANGED <<graph, job, deleting, extracts, edits, corrected, crossed, failed>>

Passing(found) == {t \in found : t[1] \notin blocked}
Reply ==
  /\ ask # None /\ ask' = None
  /\ \/ \E some \in SUBSET Passing(ask) :
          /\ Cardinality(some) = (IF Cardinality(Passing(ask)) < TopK THEN Cardinality(Passing(ask)) ELSE TopK)
          /\ answer' = some
     \/ answer' = {}
  /\ UNCHANGED <<graph, job, deleting, asks, allowed, extracts, edits, corrected, crossed, failed>>

Next ==
  \/ \E x \in Extractions : Extract(x) \/ StoreRows(x) \/ Draw(x)
  \/ DeleteEdges \/ DeleteRows \/ UpdateTriple \/ DeleteTriple \/ Review
  \/ Ask \/ Reply

Spec == Init /\ [][Next]_vars

-----------------------------------------------------------------------------
(* Counts are counts, edges belong to documents. *)
TypeOK ==
  /\ rows \in [Docs -> [Facts -> Nat]]
  /\ DOMAIN edges \subseteq Facts /\ \A f \in DOMAIN edges : edges[f] \in Docs
  /\ live \subseteq Docs /\ blocked \subseteq Docs

Idle == deleting = None /\ \A x \in Extractions : job[x] = None

(* However often a document is extracted, its facts are stated once, unless *)
(* extractions overlapped or a person wrote one that was there.             *)
StatedOnce == ~crossed /\ edits = 0 => \A d \in Docs, f \in Facts : rows[d][f] <= 1

(* An edge is backed by a row of the document it was drawn for; what people *)
(* corrected, an overlap or a failure of Neo4j may leave more.              *)
EdgesAreStated ==
  Idle /\ ~failed /\ ~crossed =>
    \A f \in DOMAIN edges \ corrected : rows[edges[f]][f] > 0

(* As long as no document was deleted, every fact of the rows has its edge. *)
RowsAreDrawn ==
  Idle /\ ~failed /\ edits = 0 /\ live = Docs =>
    \A d \in Docs : Stated(d) \subseteq DOMAIN edges

(* A question is answered with facts of the tenant's documents, none of     *)
(* which was blocked or gone all the time it took.                          *)
AnswersMayBeSeen == answer # None => \A t \in answer : t[1] \in allowed \cap Own

(* "Edit a triple: MySQL and Neo4j change together": what was corrected     *)
(* away in every row is no edge any more.                                   *)
CorrectionReachesGraph ==
  Idle /\ ~failed /\ ~crossed =>
    \A f \in corrected : (\A d \in Docs : rows[d][f] = 0) => f \notin DOMAIN edges

\* Rows and edges state the same facts, each once, and a question is answered from
\* documents it may see.
GraphSound == TypeOK /\ StatedOnce /\ EdgesAreStated /\ RowsAreDrawn /\ AnswersMayBeSeen
=============================================================================
