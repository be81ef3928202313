------------------------------ MODULE Retrieval ------------------------------
(***************************************************************************)
(* mixed_search, one request at a time, while documents are withdrawn and  *)
(* deleted: recall from two vector collections and BM25, fuse the ranks,   *)
(* rerank, filter by the documents' rows, cut, widen to parents, drop what *)
(* the governance gate blocks, look up chunk ids.  Any remote part may     *)
(* fail.  debug_search is the same up to the cut.                          *)
(***************************************************************************)
EXTENDS Naturals, SequencesExt

CONSTANTS
  Doc,      \* chunk -> its document; its domain are the chunks
  Parent,   \* chunk -> its group within the document
  Own,      \* documents of the asking tenant
  OfType,   \* documents of the type and the equipment a request may ask for
  Readable, \* documents that are open to a reader with a department and a role
  Lists,    \* what an index may answer
  TopK,
  RrfK, Scale,  \* smoothing of the fusion; a multiple of RrfK + every rank
  MaxChanges, MaxRequests,  \* bounds of an instance
  None

Chunks == DOMAIN Doc
Docs == {Doc[c] : c \in Chunks}
Smaller(m, n) == IF m < n THEN m ELSE n

Cut(s, n) == SubSeq(s, 1, Smaller(n, Len(s)))

VARIABLES
  live,      \* documents with a row, chunks included
  blocked,   \* documents whose governance record excludes them
  req,       \* None or the request's progress
  result,    \* None or what a request answered, until the next change or request
  changes, requests,
  allowed    \* history: documents that were live and not blocked during the request

vars == <<live, blocked, req, result, changes, requests, allowed>>

Init ==
  /\ live = Docs /\ blocked = {}
  /\ req = None /\ result = None
  /\ changes = 0 /\ requests = 0 /\ allowed = {}

(* Somebody deletes a document, or changes what its record says. *)
Change ==
  /\ changes < MaxChanges /\ changes' = changes + 1
  /\ \E d \in live :
       \/ live' = live \ {d} /\ UNCHANGED blocked
       \/ d \in blocked /\ blocked' = blocked \ {d} /\ UNCHANGED live
       \/ d \notin blocked /\ blocked' = blocked \cup {d} /\ UNCHANGED live
  /\ allowed' = allowed \cup (live' \ blocked')
  /\ req' = IF req = None THEN None ELSE [req EXCEPT !.quiet = FALSE]
  /\ result' = None /\ UNCHANGED requests

(* A request may name a tenant, a type, and a reader to whom not all is     *)
(* open; with none of them (evaluations) no row is looked at.               *)
Start(route, tenant, typed, reader, debug) ==
  /\ req = None /\ requests < MaxRequests /\ requests' = requests + 1
  /\ req' = [phase |-> IF debug THEN "trace" ELSE "recall", route |-> route, tenant |-> tenant,
             typed |-> typed, reader |-> reader, debug |-> debug, pool |-> <<>>, hits |-> <<>>,
             quiet |-> TRUE, ranked |-> TRUE, gate |-> TRUE]
  /\ result' = None
  /\ allowed' = live \ blocked
  /\ UNCHANGED <<live, blocked, changes>>

Begin ==
  \E route \in {"hybrid", "dense", "sparse"}, tenant, typed, reader \in BOOLEAN :
    Start(route, tenant, typed, reader, FALSE)
BeginDebug ==
  \E tenant, typed, reader \in BOOLEAN : Start("hybrid", tenant, typed, reader, TRUE)

Doing(phase) == req # None /\ req.phase = phase
Advance(q) == req' = q /\ UNCHANGED <<live, blocked, result, changes, requests, allowed>>

-----------------------------------------------------------------------------
\* mutant
PointsReversed(list, c) ==
  FoldLeft(LAMBDA sum, i : sum + Scale \div (RrfK + Len(list) + 1 - i), 0,
           SetToSeq({i \in 1 .. Len(list) : list[i] = c}))

(* rrf_fuse: a chunk gets 1 / (k + rank + 1) for every place it has in a    *)
(* list; equal sums keep the order in which they were met.                  *)
Points(list, c) ==
  FoldLeft(LAMBDA sum, i : sum + Scale \div (RrfK + i), 0,
           SetToSeq({i \in 1 .. Len(list) : list[i] = c}))
Score(lists, c) == FoldLeft(LAMBDA sum, list : sum + Points(list, c), 0, lists)
Met(lists, c) == SelectInSeq(FlattenSeq(lists), LAMBDA x : x = c)
Fuse(lists) ==
  SetToSortSeq(ToSet(FlattenSeq(lists)), LAMBDA a, b :
    \/ Score(lists, a) > Score(lists, b)
    \/ Score(lists, a) = Score(lists, b) /\ Met(lists, a) < Met(lists, b))

(* The two vector lists by themselves, merged by their scores: a chunk that *)
(* both know stays twice.                                                   *)
Merges(one, two) ==
  LET both == one \o two
      place == SetToSeqs(1 .. Len(both)) IN
  {[i \in 1 .. Len(both) |-> both[p[i]]] : p \in
    {q \in place : \A i, j \in 1 .. Len(both) :
       i < j /\ q[i] > q[j] => q[j] <= Len(one) /\ Len(one) < q[i]}}

(* An index that fails, or has no embedding to search with, answers with    *)
(* nothing; the vector lists go into the fusion one behind the other.       *)
Answers == Lists \cup {<<>>}
DenseDual == Answers \X Answers
Recall ==
  /\ Doing("recall")
  /\ \E dual \in DenseDual, sparse \in Answers :
       /\ req.route = "sparse" => dual = <<<<>>, <<>>>>
       /\ req.route = "dense" => sparse = <<>>
       /\ \E all \in CASE req.route = "sparse" -> {sparse}
                       [] req.route = "dense" -> Merges(dual[1], dual[2])
                       [] req.route = "hybrid" -> {Fuse(<<dual[1] \o dual[2], sparse>>)} :
            Advance([req EXCEPT !.phase = "rerank", !.hits = Append(dual, sparse),
                                !.pool = Cut(all, 2 * TopK)])

(* debug_search reranks all that was fused. *)
RecallDebug ==
  /\ Doing("trace")
  /\ \E dual \in DenseDual, sparse \in Answers :
       Advance([req EXCEPT !.phase = "rerank", !.hits = Append(dual, sparse),
                           !.pool = Fuse(<<dual[1] \o dual[2], sparse>>)])

(* The reranker orders the pool, or its reply has no results and nothing is *)
(* left; when it fails, is skipped or has nothing to choose from, the order *)
(* of the recall stays.                                                     *)
Orders(pool) == {[i \in 1 .. Len(pool) |-> pool[p[i]]] : p \in SetToSeqs(1 .. Len(pool))}
Ranked(pool) == Orders(pool) \cup {<<>>}
Rerank ==
  /\ Doing("rerank")
  /\ \E pool \in {req.pool} \cup (IF Len(req.pool) > 1 THEN Ranked(req.pool) ELSE {}) :
       Advance([req EXCEPT !.phase = "filter", !.pool = Cut(pool, 2 * TopK),
                           !.ranked = (pool # <<>> \/ req.pool = <<>>),
                           !.hits = ToSet(FlattenSeq(req.hits))])

(* The rows of the documents: one that is gone, another tenant's or of      *)
(* another type drops out, and one that is not open to the reader; a        *)
(* document without a row is open to everyone (_acl_ok).                    *)
Admits(c) ==
  /\ req.tenant => Doc[c] \in live \cap Own
  /\ req.typed => Doc[c] \in live \cap OfType
  /\ req.reader => (Doc[c] \in live => Doc[c] \in Readable)
Filter ==
  /\ Doing("filter")
  /\ Advance([req EXCEPT !.phase = "cut", !.pool = SelectSeq(@, Admits)])

(* mmr keeps the first and chooses the others for variety. *)
Varied(pool) ==
  {[i \in 1 .. TopK |-> pool[p[i]]] : p \in
    {q \in [1 .. TopK -> 1 .. Len(pool)] : q[1] = 1 /\ IsInjective(q)}}
Chosen == {Cut(req.pool, TopK)} \cup (IF Len(req.pool) > TopK THEN Varied(req.pool) ELSE {})

(* debug_search answers what was chosen, in the order of its scores. *)
ChooseDebug ==
  /\ Doing("cut") /\ req.debug
  /\ \E pool \in Chosen :
       result' = [request |-> req,
                  items |-> SelectSeq([i \in 1 .. Len(req.pool) |-> [chunk |-> req.pool[i], id |-> None]],
                                      LAMBDA item : Contains(pool, item.chunk))]
  /\ req' = None
  /\ UNCHANGED <<live, blocked, changes, requests, allowed>>

(* _expand_parents, when it is on: the best chunk of a group stands for the *)
(* group, chunks without rows drop out, unless nothing would be left.       *)
Group(c) == <<Doc[c], Parent[c]>>
Widened(chosen) ==
  LET best == SelectSeq(req.pool, LAMBDA c : Contains(chosen, c))
      kept == {i \in 1 .. Len(best) : Doc[best[i]] \in live
                 /\ \A j \in 1 .. i - 1 : Group(best[j]) # Group(best[i])} IN
  IF kept = {} THEN chosen
  ELSE [i \in 1 .. Cardinality(kept) |-> best[SetToSortSeq(kept, <)[i]]]
Choose ==
  /\ Doing("cut") /\ ~req.debug
  /\ \E chosen \in Chosen : \E pool \in {chosen, Widened(chosen)} :
       Advance([req EXCEPT !.phase = "gate", !.pool = pool])

(* The gate; when it cannot be asked a tenant gets nothing. *)
Passes(c) == Doc[c] \notin blocked
Gate ==
  /\ Doing("gate")
  /\ \/ Advance([req EXCEPT !.phase = "number", !.pool = SelectSeq(@, Passes)])
     \/ /\ req.pool # <<>>
        /\ Advance([req EXCEPT !.phase = "number", !.gate = FALSE,
                               !.pool = IF req.tenant THEN <<>> ELSE @])

(* Chunk ids are looked up; a chunk that is gone by now has none. *)
Number ==
  /\ Doing("number")
  /\ result' = [request |-> req,
                items |-> [i \in 1 .. Len(req.pool) |->
                  [chunk |-> req.pool[i], id |-> IF Doc[req.pool[i]] \in live THEN req.pool[i] ELSE None]]]
  /\ req' = None
  /\ UNCHANGED <<live, blocked, changes, requests, allowed>>

Next ==
  \/ Change \/ Begin \/ BeginDebug \/ Recall \/ RecallDebug \/ Rerank \/ Filter
  \/ Choose \/ ChooseDebug \/ Gate \/ Number

Spec == Init /\ [][Next]_vars

-----------------------------------------------------------------------------
(* Pools and answers hold chunks. *)
TypeOK ==
  /\ live \subseteq Docs /\ blocked \subseteq Docs
  /\ req # None => ToSet(req.pool) \subseteq Chunks
  /\ result # None => \A i \in 1 .. Len(result.items) : result.items[i].id \in Chunks \cup {None}

(* A tenant is answered only from its documents, from those of the type it  *)
(* asks for and those open to who asks, and from none that was withdrawn or *)
(* deleted all the time the request took, whatever failed on the way.       *)
AnswersAreCurrent ==
  result # None /\ result.request.tenant /\ ~result.request.debug =>
    \A i \in 1 .. Len(result.items) :
      LET d == Doc[result.items[i].chunk] IN
      /\ d \in allowed \cap Own
      /\ result.request.typed => d \in OfType
      /\ result.request.reader => d \in Readable

(* Nothing is answered twice, except where the vectors are on their own.    *)
NothingTwice ==
  result # None /\ result.request.route # "dense" =>
    \A i, j \in 1 .. Len(result.items) :
      result.items[i].chunk = result.items[j].chunk => i = j

(* As long as something is found and nothing speaks against it, there is an *)
(* answer, whichever of the indexes failed and whether or not the reranker  *)
(* did, unless the reranker's reply had no results; debug_search, which     *)
(* narrows no group, fills its answer.                                      *)
SomethingIsAnswered ==
  result # None /\ result.request.quiet /\ result.request.ranked /\ result.request.gate =>
    LET q == result.request
        fits == {c \in q.hits : /\ q.tenant => Doc[c] \in live \cap Own
                                /\ q.typed => Doc[c] \in live \cap OfType
                                /\ q.reader => (Doc[c] \in live => Doc[c] \in Readable)
                                /\ q.debug \/ Doc[c] \notin blocked} IN
    fits = q.hits =>
      /\ q.hits # {} => result.items # <<>>
      /\ q.debug => Len(result.items) = Smaller(TopK, Cardinality(q.hits))

(* The fusion does not contradict its sources: a chunk that every list has  *)
(* before another, where it has the other at all, comes before it.          *)
Before(list, a, b) == Contains(list, b) =>
  Contains(list, a) /\ SelectInSeq(list, LAMBDA x : x = a) < SelectInSeq(list, LAMBDA x : x = b)
FusionIsUnanimous ==
  Doing("rerank") /\ req.route = "hybrid" =>
    \A a, b \in ToSet(FlattenSeq(req.hits)) :
      a # b /\ Contains(req.pool, b) /\ (\A k \in 1 .. 3 : Before(req.hits[k], a, b)) =>
        Contains(req.pool, a) /\ Before(req.pool, a, b)

\* What retrieval hands on: current chunks, each once, some if there are any, and in an
\* order that respects what all lists agree on.
RetrievalSound ==
  /\ TypeOK /\ AnswersAreCurrent /\ NothingTwice
  /\ SomethingIsAnswered /\ FusionIsUnanimous
=============================================================================
