--------------------------- MODULE DocumentStore ---------------------------
(***************************************************************************)
(* One document name of the knowledge base and the copies of its text: the *)
(* uploaded objects (MinIO), the row, its archived versions and its chunks *)
(* (MySQL), the vectors (Milvus), the triples of the knowledge graph and   *)
(* the BM25 index that one process keeps in memory.  A text is named by    *)
(* the object it was parsed from and the number of edits since.  Requests  *)
(* read first, wait, and write later; no store is transactional with       *)
(* another.                                                                *)
(***************************************************************************)
EXTENDS Naturals, Sequences, FiniteSets

CONSTANTS
  Objects,    \* uploads that may come
  Requests,   \* requests in flight at once
  MaxOps,     \* requests in all: bound of an instance
  MaxEdits,   \* edits of chunks: bound of an instance
  None

VARIABLES
  objects,    \* keys present in MinIO
  doc,        \* documents row: None or [object, status]
  twin,       \* a second row bears the name: uploads no longer reach this one
  versions,   \* document_versions: set of [version, object]
  chunks,     \* text of the chunk rows, or None
  vectors,    \* texts whose vectors Milvus holds for the document
  triples,    \* texts whose triples the graph holds
  corpus, dirty,  \* bm25_service: text indexed, rebuild wanted
  rebuild,    \* None or the text a rebuild has read
  extract,    \* None or a background extraction: not begun, or what it read
  req,        \* request -> None or what it has read
  ops, edits, accepted,  \* requests started, edits made, uploads reported stored
  crossed, failed  \* ever: two requests overlapped, a request broke off

store == <<objects, doc, twin, versions, chunks, vectors, triples>>
index == <<corpus, dirty, rebuild>>
vars == <<objects, doc, twin, versions, chunks, vectors, triples, corpus, dirty, rebuild,
          extract, req, ops, edits, accepted, crossed, failed>>

Texts == Objects \X (0 .. MaxEdits)
DocStatus == {"pending", "parsed", "vectorized"}
Ops == {"upload", "parse", "vectorize", "insert", "rollback", "delete"}
Row == [object : Objects, status : DocStatus]
Seen == [kind : Ops, doc : {None} \cup Row, text : {None} \cup Texts,
         arg : {None} \cup Objects, last : Nat]

Due == [text |-> None]

StoreAssumption ==
  /\ MaxOps \in Nat /\ MaxEdits \in Nat
  /\ None \notin Row /\ None \notin Texts /\ None \notin Seen /\ None # Due

Init ==
  /\ objects = {} /\ doc = None /\ twin = FALSE /\ versions = {}
  /\ chunks = None /\ vectors = {} /\ triples = {}
  /\ corpus = None /\ dirty = FALSE /\ rebuild = None /\ extract = None
  /\ req = [r \in Requests |-> None]
  /\ ops = 0 /\ edits = 0 /\ accepted = {} /\ crossed = FALSE /\ failed = FALSE

Busy == \E r \in Requests : req[r] # None
Quiet == ~Busy /\ extract = None

Start(r, kind, arg) ==
  /\ req[r] = None /\ ops < MaxOps
  /\ req' = [req EXCEPT ![r] = [kind |-> kind, doc |-> doc, text |-> chunks, arg |-> arg,
                                 last |-> Cardinality(versions)]]
  /\ ops' = ops + 1 /\ crossed' = (crossed \/ ~Quiet)

(* The rest of a request that has begun as kind. *)
Ends(r, kind) == req[r] # None /\ req[r].kind = kind /\ req' = [req EXCEPT ![r] = None]
Rest == UNCHANGED <<ops, crossed, failed>>

(* Milvus drops the vectors, or its exception is swallowed. *)
DropVectors ==
  \/ vectors' = {} /\ UNCHANGED failed
  \/ UNCHANGED vectors /\ failed' = TRUE

(* The row the unit of work updates: only a status that changed is written. *)
Marked(seen, status) ==
  IF doc = None \/ seen.status = status THEN doc ELSE [doc EXCEPT !.status = status]

BeginUpload(r, o) ==
  /\ o \notin objects \cup accepted /\ Start(r, "upload", o)
  /\ objects' = objects \cup {o}
  /\ UNCHANGED <<doc, twin, versions, chunks, vectors, triples, index, extract, edits, accepted, failed>>

Archived(r) == [version |-> req[r].last + 1, object |-> req[r].doc.object]

(* A name seen before archives its current object and takes the new one;   *)
(* chunks and vectors stay as they are.  Rows of one name break the lookup. *)
FinishUpload(r) ==
  /\ Ends(r, "upload")
  /\ \/ twin /\ UNCHANGED <<doc, twin, versions, accepted>>
     \/ /\ ~twin /\ req[r].doc = None
        /\ twin' = (doc # None)
        /\ doc' = IF doc = None THEN [object |-> req[r].arg, status |-> "pending"] ELSE doc
        /\ accepted' = accepted \cup {req[r].arg} /\ UNCHANGED versions
     \/ /\ ~twin /\ req[r].doc # None
        /\ IF doc = None THEN UNCHANGED <<doc, versions, accepted>> ELSE
             /\ versions' = versions \cup {Archived(r)}
             /\ doc' = [Marked(req[r].doc, "pending") EXCEPT !.object = req[r].arg]
             /\ accepted' = accepted \cup {req[r].arg}
        /\ UNCHANGED twin
  /\ UNCHANGED <<objects, chunks, vectors, triples, index, extract, edits>> /\ Rest

BeginParse(r) ==
  /\ doc # None /\ doc.object \in objects /\ Start(r, "parse", None)
  /\ UNCHANGED <<store, index, extract, edits, accepted, failed>>

FinishParse(r) ==
  /\ Ends(r, "parse")
  /\ doc' = Marked(req[r].doc, "parsed")
  /\ chunks' = IF doc = None THEN chunks ELSE <<req[r].doc.object, 0>>
  /\ UNCHANGED <<objects, twin, versions, vectors, triples, index, extract, edits, accepted>> /\ Rest

BeginVectorize(r) ==
  /\ doc # None /\ chunks # None /\ Start(r, "vectorize", None)
  /\ UNCHANGED <<store, index, extract, edits, accepted, failed>>

(* update_chunk commits the new content, then vectorizes. *)
EditChunk(r) ==
  /\ doc # None /\ chunks # None /\ edits < MaxEdits
  /\ req[r] = None /\ ops < MaxOps
  /\ edits' = edits + 1 /\ ops' = ops + 1 /\ crossed' = (crossed \/ ~Quiet)
  /\ chunks' = <<chunks[1], edits + 1>>
  /\ req' = [req EXCEPT ![r] = [kind |-> "vectorize", doc |-> doc, text |-> chunks', arg |-> None,
                                 last |-> 0]]
  /\ UNCHANGED <<objects, doc, twin, versions, vectors, triples, index, extract, accepted, failed>>

(* The embedding has arrived: clear the old vectors ... *)
ClearVectors(r) ==
  /\ req[r] # None /\ req[r].kind = "vectorize"
  /\ req' = [req EXCEPT ![r].kind = "insert"]
  /\ vectors' = {}
  /\ UNCHANGED <<objects, doc, twin, versions, chunks, triples, index, extract, edits, accepted>> /\ Rest

(* ... insert the new ones, mark the row, start the extraction. *)
FinishVectorize(r) ==
  /\ Ends(r, "insert")
  /\ vectors' = vectors \cup {req[r].text}
  /\ doc' = Marked(req[r].doc, "vectorized")
  /\ IF doc = None /\ req[r].doc.status # "vectorized" THEN UNCHANGED <<extract, dirty>>
     ELSE extract' = Due /\ dirty' = TRUE
  /\ UNCHANGED <<objects, twin, versions, chunks, triples, corpus, rebuild, edits, accepted>> /\ Rest

BeginExtract ==
  /\ extract = Due
  /\ extract' = IF doc = None \/ chunks = None THEN None ELSE [text |-> chunks]
  /\ UNCHANGED <<store, index, req, edits, accepted>> /\ Rest

FinishExtract ==
  /\ extract \notin {None, Due}
  /\ triples' = triples \cup {extract.text} /\ extract' = None
  /\ UNCHANGED <<objects, doc, twin, versions, chunks, vectors, index, req, edits, accepted>> /\ Rest

BeginRollback(r, v) ==
  /\ doc # None /\ v \in versions /\ Cardinality({w \in versions : w.version = v.version}) = 1
  /\ Start(r, "rollback", v.object)
  /\ UNCHANGED <<store, index, extract, edits, accepted, failed>>

FinishRollback(r) ==
  /\ Ends(r, "rollback") /\ DropVectors
  /\ IF doc = None THEN UNCHANGED <<doc, versions, chunks>> ELSE
       /\ versions' = versions \cup {Archived(r)}
       /\ doc' = [Marked(req[r].doc, "pending") EXCEPT !.object = req[r].arg]
       /\ chunks' = None
  /\ UNCHANGED <<objects, twin, triples, index, extract, ops, edits, accepted, crossed>>

(* MinIO and Milvus first ... *)
BeginDelete(r) ==
  /\ doc # None /\ Start(r, "delete", None)
  /\ objects' = objects \ {doc.object} /\ DropVectors
  /\ UNCHANGED <<doc, twin, versions, chunks, triples, index, extract, edits, accepted>>

\* mutant
FinishDeleteRow(r) ==
  /\ Ends(r, "delete")
  /\ IF versions # {} THEN UNCHANGED <<doc, chunks, dirty, accepted>> ELSE
       /\ doc' = None /\ chunks' = None /\ dirty' = TRUE
       /\ accepted' = {}
  /\ UNCHANGED <<objects, twin, versions, vectors, triples, corpus, rebuild, extract, edits>> /\ Rest

(* ... then the rows, unless archived versions refer to the document. *)
FinishDelete(r) ==
  /\ Ends(r, "delete")
  /\ IF versions # {} THEN UNCHANGED <<doc, chunks, triples, dirty, accepted>> ELSE
       /\ doc' = None /\ chunks' = None /\ triples' = {} /\ dirty' = TRUE
       /\ accepted' = {}
  /\ UNCHANGED <<objects, twin, versions, vectors, corpus, rebuild, extract, edits>> /\ Rest

(* The provider, a store or the process fails: the rest does not happen. *)
BreakOff(r) ==
  /\ req[r] # None /\ req' = [req EXCEPT ![r] = None] /\ failed' = TRUE
  /\ UNCHANGED <<store, index, extract, ops, edits, accepted, crossed>>

(* ensure_built, called by every search: the rows are read, then the index *)
(* is replaced and the mark is cleared.                                    *)
BeginRebuild ==
  /\ rebuild = None /\ (dirty \/ corpus = None) /\ chunks # corpus
  /\ rebuild' = <<chunks>>
  /\ UNCHANGED <<store, corpus, dirty, extract, req, edits, accepted>> /\ Rest

FinishRebuild ==
  /\ rebuild # None
  /\ corpus' = rebuild[1] /\ dirty' = FALSE /\ rebuild' = None
  /\ UNCHANGED <<store, extract, req, edits, accepted>> /\ Rest

Next ==
  \/ \E r \in Requests :
       \/ \E o \in Objects : BeginUpload(r, o)
       \/ \E v \in versions : BeginRollback(r, v)
       \/ FinishUpload(r) \/ BeginParse(r) \/ FinishParse(r)
       \/ BeginVectorize(r) \/ EditChunk(r) \/ ClearVectors(r) \/ FinishVectorize(r)
       \/ FinishRollback(r) \/ BeginDelete(r) \/ FinishDelete(r) \/ BreakOff(r)
  \/ BeginExtract \/ FinishExtract \/ BeginRebuild \/ FinishRebuild

Spec == Init /\ [][Next]_vars

-----------------------------------------------------------------------------
(* Rows and requests hold values of their kinds. *)
TypeOK ==
  /\ objects \subseteq Objects /\ accepted \subseteq Objects
  /\ doc \in {None} \cup Row
  /\ versions \subseteq [version : 1 .. MaxOps, object : Objects]
  /\ chunks \in {None} \cup Texts /\ corpus \in {None} \cup Texts
  /\ rebuild \in {None} \cup {<<t>> : t \in {None} \cup Texts}
  /\ vectors \subseteq Texts /\ triples \subseteq Texts
  /\ extract \in {None, Due} \cup [text : Texts]
  /\ req \in [Requests -> {None} \cup Seen]

(* Every upload the service has reported as stored stays the current object *)
(* or an archived version through any sequence of uploads and rollbacks, as *)
(* long as they come one after the other, whatever fails (upload_documents  *)
(* and rollback_version archive before they replace).                       *)
NoVersionLost ==
  ~crossed /\ doc # None =>
    accepted \subseteq {doc.object} \cup {v.object : v \in versions}

(* Version numbers name one version each, under the same condition; a       *)
(* rollback looks its version up by number.                                 *)
VersionsNumbered ==
  ~crossed => \A v, w \in versions : v.version = w.version => v = w

(* A row marked vectorized is searched by the text it shows: Milvus holds   *)
(* the vectors of its chunks and no others, after any sequence of uploads,  *)
(* parses, edits and rollbacks in which nothing overlapped or broke off and *)
(* no object was deleted whose row stayed.                                  *)
VectorsMatchText ==
  ~crossed /\ ~failed /\ Quiet
  /\ doc # None /\ doc.object \in objects /\ doc.status = "vectorized" =>
    chunks # None /\ vectors = {chunks}

(* A deleted document leaves nothing in any store, under that condition     *)
(* (delete_document: "linked deletion of MinIO, Milvus and MySQL").         *)
DeletedLeavesNothing ==
  ~crossed /\ ~failed /\ Quiet /\ doc = None =>
    objects = {} /\ vectors = {} /\ triples = {} /\ chunks = None

\* A document and its copies: versions are kept and numbered, vectors follow the text,
\* and a deleted document leaves nothing behind.
DocumentsSound ==
  /\ TypeOK /\ NoVersionLost /\ VersionsNumbered
  /\ VectorsMatchText /\ DeletedLeavesNothing
=============================================================================
