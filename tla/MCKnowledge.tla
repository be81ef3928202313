---------------------------- MODULE MCKnowledge ----------------------------
(***************************************************************************)
(* The four services of the knowledge base on small instances, the cutting *)
(* of documents into chunks, and the backups of the stores.  They share no *)
(* state in these instances, so a behaviour is about one of them: focus is *)
(* chosen at the start and the others keep their initial states.           *)
(***************************************************************************)
EXTENDS KnowledgeGovernance

CONSTANTS
  Requests,
  Objects, MaxOps, MaxChunkEdits,
  Wordings, MaxDocs, MaxGapEdits,
  Drafts, Quota, MaxWeeks,
  TableRows, Keys, Vectors, NumTables, MaxTime, MaxDone

VARIABLES
  focus,
  objects, doc, twin, versions, chunks, vectors, triples, corpus, dirty, rebuild,
  extract, d_req, ops, d_edits, accepted, d_crossed, d_failed,
  row, faq, cache, e_req, e_edits, e_crossed, e_failed, rewritten,
  document, vocabulary, next, pieces, group,
  status, chunk, keys, recent, v_req, weeks, approved, v_crossed, v_failed,
  now, content, file, manifest, proc, restored, done, span, shared, tampered, skipped,
  blurred

store ==
  <<objects, doc, twin, versions, chunks, vectors, triples, corpus, dirty, rebuild,
    extract, d_req, ops, d_edits, accepted, d_crossed, d_failed>>
cutting == <<document, vocabulary, next, pieces, group>>
gap == <<row, faq, cache, e_req, e_edits, e_crossed, e_failed, rewritten>>
evolution == <<status, chunk, keys, recent, v_req, weeks, approved, v_crossed, v_failed>>
backups ==
  <<now, content, file, manifest, proc, restored, done, span, shared, tampered,
    skipped, blurred>>

\* Who acts is of no account, only what each of them has read; nor which item is which.
Symmetric == Permutations(Requests) \cup Permutations(Keys)

(* Two documents that contradict each other about one test and its limit. *)
TheClauses ==
  [d \in Docs |-> {[scope |-> "ups", subject |-> "test",
                    polarity |-> IF d = 1 THEN 1 ELSE -1, limit |-> d]}]

ThePatches ==
  {[expires |-> 1], [permanent |-> TRUE], [effective |-> 1, version |-> "active"],
   [version |-> "active", expires |-> 0], [version |-> "withdrawn"], [interval |-> 1]}

Store == INSTANCE DocumentStore WITH
  MaxEdits <- MaxChunkEdits,
  req <- d_req, edits <- d_edits, crossed <- d_crossed, failed <- d_failed

(* Texts of five words, some longer than a parent when they are in normal   *)
(* form; documents with tables before, between and behind the text.         *)
Words == {<<"c", "c", "c">>, <<"c", "stop">>, <<"newline">>, <<"a">>, <<"s", "t">>}
Short == {<<"c", "c", "newline", "a">>, <<"newline">>}
Section == [type : {"text", "table"}, content : Short]
TheDocuments ==
  {<<[type |-> "text", content |-> u \o v \o w \o x \o y]>> : u, v, w, x, y \in Words}
    \cup {<<s, t, s>> : s, t \in Section}

(* Aliases that are words of their own, one that holds the standard word    *)
(* whole, aliases inside it, and one that ends as it begins.                *)
Entry(alias) == [alias |-> alias, standard |-> <<"s", "t">>]
TheVocabularies ==
  {[standards |-> << <<"s", "t">> >>, entries |-> entries] :
     entries \in {<<Entry(<<"a", "a">>), Entry(<<"a">>)>>,
                  <<Entry(<<"a", "s", "t">>), Entry(<<"a">>)>>,
                  <<Entry(<<"s">>), Entry(<<"t">>)>>,
                  <<Entry(<<"a", "s">>)>>}}

Cutting == INSTANCE Chunking WITH
  Documents <- TheDocuments, Vocabularies <- TheVocabularies, chunks <- pieces,
  ParentSize <- 8, ParentOverlap <- 2, ChildSize <- 5, ChildOverlap <- 2

Gap == INSTANCE EvidenceGap WITH
  Texts <- Wordings, MaxEdits <- MaxGapEdits,
  req <- e_req, edits <- e_edits, crossed <- e_crossed, failed <- e_failed

Evolution == INSTANCE KnowledgeEvolution WITH
  vectors <- keys, req <- v_req, crossed <- v_crossed, failed <- v_failed

Backups == INSTANCE Backup WITH Procs <- Requests

ASSUME KnowledgeAssumption ==
  /\ GovernanceAssumption /\ Store!StoreAssumption /\ Gap!GapAssumption
  /\ Evolution!EvolutionAssumption /\ Backups!BackupAssumption

KnowledgeInit ==
  /\ focus \in {"governance", "store", "cutting", "gap", "evolution", "backups"}
  /\ IF focus = "cutting" THEN Cutting!Init
     ELSE document = <<>> /\ vocabulary = <<>> /\ next = 1 /\ pieces = <<>> /\ group = 0
  /\ Init /\ Store!Init /\ Gap!Init /\ Evolution!Init /\ Backups!Init

KnowledgeNext ==
  /\ UNCHANGED focus
  /\ \/ focus = "governance" /\ Next /\ UNCHANGED <<store, cutting, gap, evolution, backups>>
     \/ focus = "store" /\ Store!Next /\ UNCHANGED <<vars, cutting, gap, evolution, backups>>
     \/ focus = "cutting" /\ Cutting!Next /\ UNCHANGED <<vars, store, gap, evolution, backups>>
     \/ focus = "gap" /\ Gap!Next /\ UNCHANGED <<vars, store, cutting, evolution, backups>>
     \/ focus = "evolution" /\ Evolution!Next /\ UNCHANGED <<vars, store, cutting, gap, backups>>
     \/ focus = "backups" /\ Backups!Next /\ UNCHANGED <<vars, store, cutting, gap, evolution>>

KnowledgeSpec ==
  KnowledgeInit
    /\ [][KnowledgeNext]_<<focus, vars, store, cutting, gap, evolution, backups>>

-----------------------------------------------------------------------------
(* What each service keeps, stated in its module under the same name; what   *)
(* is kept of documents is kept by the store and by how they are cut.       *)
DocumentsSound ==
  /\ focus = "store" => Store!DocumentsSound
  /\ focus = "cutting" => Cutting!ChunksSound
GapsSound == focus = "gap" => Gap!GapsSound
ReflowSound == focus = "evolution" => Evolution!ReflowSound
BackupsSound == focus = "backups" => Backups!BackupsSound
=============================================================================
