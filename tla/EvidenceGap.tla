---------------------------- MODULE EvidenceGap ----------------------------
(***************************************************************************)
(* One question the knowledge base could not answer: the row of            *)
(* evidence_gap, the drafts written for it, and its confirmation, which    *)
(* stores a FAQ document, indexes it, fills the answer cache and marks the *)
(* row, in this order and without a transaction around the four.  Requests *)
(* read the row, wait for a model or a store, and write what they changed. *)
(***************************************************************************)
EXTENDS Naturals, Sequences

CONSTANTS
  Requests,           \* requests in flight at once
  Texts,              \* drafts and answers
  MaxDocs, MaxEdits,  \* bounds of an instance
  None

VARIABLES
  row,      \* [status, draft, final, doc] of the gap
  faq,      \* FAQ documents made: number -> [text, vectorized]
  cache,    \* answer store -> None or [text, doc]: "mysql", "redis"
  req,      \* request -> None or [step, status, final, text, doc]
  edits,    \* immediate writes so far
  crossed, failed,  \* ever: two requests overlapped, a step went wrong
  rewritten  \* ever: the answer changed under a confirmation that had read it

vars == <<row, faq, cache, req, edits, crossed, failed, rewritten>>

Status == {"pending", "ai_drafted", "confirmed", "synced", "ignored"}
Stores == {"mysql", "redis"}
NoText == None
Steps == {"draft", "confirm", "store", "vectorize", "cache", "redis", "mark"}

Answers == [text : Texts, doc : Nat]
Asking ==
  [step : Steps, status : Status, final : Texts \cup {NoText}, text : Texts, doc : Nat]

GapAssumption ==
  MaxDocs \in Nat /\ None \notin Texts /\ None \notin Answers /\ None \notin Asking

Init ==
  /\ row = [status |-> "pending", draft |-> NoText, final |-> NoText, doc |-> 0]
  /\ faq = <<>> /\ cache = [s \in Stores |-> None]
  /\ req = [r \in Requests |-> None]
  /\ edits = 0 /\ crossed = FALSE /\ failed = FALSE /\ rewritten = FALSE

Busy == \E r \in Requests : req[r] # None
At(r, step) == req[r] # None /\ req[r].step = step
Goto(r, step) == req' = [req EXCEPT ![r].step = step]
Done(r) == req' = [req EXCEPT ![r] = None]

(* Only the columns that differ from what was read are written. *)
Restated(r, status) == IF req[r].status = status THEN row.status ELSE status
Answered(r) == IF req[r].final = req[r].text THEN row.final ELSE req[r].text

(* A confirmation has read the row and not yet written it. *)
Confirming(r) == req[r] # None /\ req[r].step \notin {"draft", "confirm"}
Rewrites(others) ==
  rewritten' = (rewritten \/ (row'.final # row.final /\ \E o \in others : Confirming(o)))

Begin(r, step, text) ==
  /\ req[r] = None
  /\ req' = [req EXCEPT ![r] = [step |-> step, status |-> row.status, final |-> row.final,
                                text |-> text, doc |-> 0]]
  /\ crossed' = (crossed \/ Busy)
  /\ UNCHANGED <<row, faq, cache, edits, failed, rewritten>>

(* ai_draft, deep_draft, deep_draft_stream: any state of the row will do. *)
BeginDraft(r, text) == edits < MaxEdits /\ Begin(r, "draft", text)

SaveDraft(r) ==
  /\ At(r, "draft") /\ Done(r) /\ edits' = edits + 1
  /\ row' = [row EXCEPT !.draft = req[r].text, !.status = Restated(r, "ai_drafted")]
  /\ UNCHANGED <<faq, cache, crossed, failed, rewritten>>

Edited(kind, text) ==
  CASE kind = "draft" -> [row EXCEPT !.draft = text, !.status = "ai_drafted"]
    [] kind = "final" -> [row EXCEPT !.final = text, !.status = "confirmed"]
    [] kind = "ignore" -> [row EXCEPT !.status = "ignored"]

(* update_ai_draft, edit_answer and the button that ignores the gap. *)
Edit(kind, text) ==
  /\ edits < MaxEdits /\ edits' = edits + 1
  /\ row' = Edited(kind, text) /\ crossed' = (crossed \/ Busy)
  /\ Rewrites(Requests)
  /\ UNCHANGED <<faq, cache, req, failed>>

(* The route reads the answer a person wrote, else the draft ... *)
Chosen == IF row.final # NoText THEN row.final ELSE row.draft

BeginSync(r) == Len(faq) < MaxDocs /\ Chosen # NoText /\ Begin(r, "confirm", Chosen)

(* ... and confirm_and_sync reads the row in a session of its own. *)
ReadGap(r) ==
  /\ At(r, "confirm")
  /\ req' = [req EXCEPT ![r].step = "store", ![r].status = row.status, ![r].final = row.final]
  /\ UNCHANGED <<row, faq, cache, edits, crossed, failed, rewritten>>

(* The object (a failure is swallowed), the document and its one chunk. *)
StoreFaq(r) ==
  /\ At(r, "store") /\ Len(faq) < MaxDocs
  /\ faq' = Append(faq, [text |-> req[r].text, vectorized |-> FALSE])
  /\ req' = [req EXCEPT ![r].step = "vectorize", ![r].doc = Len(faq')]
  /\ UNCHANGED <<row, cache, edits, crossed, failed, rewritten>>

VectorizeFaq(r) ==
  /\ At(r, "vectorize") /\ Goto(r, "cache")
  /\ faq' = [faq EXCEPT ![req[r].doc].vectorized = TRUE]
  /\ UNCHANGED <<row, cache, edits, crossed, failed, rewritten>>

\* mutant
CacheAnswerOnce(r, store, next) ==
  /\ At(r, store) /\ Goto(r, next)
  /\ LET name == IF store = "cache" THEN "mysql" ELSE "redis" IN
     cache' = [cache EXCEPT ![name] =
       IF @ = None THEN [text |-> req[r].text, doc |-> req[r].doc] ELSE @]
  /\ UNCHANGED <<row, faq, edits, crossed, failed, rewritten>>

(* Either store may refuse, which is logged and forgotten. *)
CacheAnswer(r, store, next) ==
  /\ At(r, store) /\ Goto(r, next)
  /\ LET name == IF store = "cache" THEN "mysql" ELSE "redis" IN
     \/ /\ cache' = [cache EXCEPT ![name] = [text |-> req[r].text, doc |-> req[r].doc]]
        /\ UNCHANGED failed
     \/ UNCHANGED cache /\ failed' = TRUE
  /\ UNCHANGED <<row, faq, edits, crossed, rewritten>>

(* The document is a new one, so that its number is always written. *)
MarkSynced(r) ==
  /\ At(r, "mark") /\ Done(r)
  /\ row' = [row EXCEPT !.final = Answered(r), !.doc = req[r].doc,
                        !.status = Restated(r, "synced")]
  /\ Rewrites(Requests \ {r})
  /\ UNCHANGED <<faq, cache, edits, crossed, failed>>

(* A provider, a store or the process fails; everything is swallowed. *)
BreakOff(r) ==
  /\ req[r] # None /\ Done(r) /\ failed' = TRUE
  /\ UNCHANGED <<row, faq, cache, edits, crossed, rewritten>>

Next ==
  \/ \E r \in Requests :
       \/ \E t \in Texts : BeginDraft(r, t)
       \/ SaveDraft(r) \/ BeginSync(r) \/ ReadGap(r) \/ StoreFaq(r) \/ VectorizeFaq(r)
       \/ CacheAnswer(r, "cache", "redis") \/ CacheAnswer(r, "redis", "mark")
       \/ MarkSynced(r) \/ BreakOff(r)
  \/ \E k \in {"draft", "final", "ignore"}, t \in Texts : Edit(k, t)

Spec == Init /\ [][Next]_vars

-----------------------------------------------------------------------------
(* The row, the documents and the requests hold values of their kinds. *)
TypeOK ==
  /\ row.status \in Status /\ row.doc \in 0 .. MaxDocs
  /\ {row.draft, row.final} \subseteq Texts \cup {NoText}
  /\ Len(faq) <= MaxDocs
  /\ \A r \in Requests : req[r] = None \/ req[r].step \in Steps

(* An answer in a cache cites a document that can be searched and that says *)
(* the same, whatever overlaps or breaks off: a confirmation that fails to  *)
(* index its document leaves no answer behind (confirm_and_sync).           *)
AnswersAreBacked ==
  \A s \in Stores : cache[s] # None =>
    /\ cache[s].doc \in DOMAIN faq
    /\ faq[cache[s].doc].vectorized /\ faq[cache[s].doc].text = cache[s].text

(* A row counts as synced only by a confirmation that went all the way: the *)
(* document it names can be searched, whatever overlaps, and says what the  *)
(* row answers, unless the answer was changed under a confirmation that had *)
(* read it: the session does not write a column it finds unchanged.         *)
SyncedIsIndexed ==
  row.status = "synced" =>
    /\ row.doc \in DOMAIN faq /\ faq[row.doc].vectorized
    /\ rewritten \/ row.final = faq[row.doc].text

(* While a synced row stands, people are served its answer from both caches, *)
(* unless requests overlapped or a step failed.                             *)
SyncedIsServed ==
  row.status = "synced" /\ ~Busy /\ ~crossed /\ ~failed =>
    \A s \in Stores : cache[s] # None /\ cache[s].text = row.final

\* A closed gap is closed everywhere: the answer is backed, indexed and served.
GapsSound == TypeOK /\ AnswersAreBacked /\ SyncedIsIndexed /\ SyncedIsServed
=============================================================================
