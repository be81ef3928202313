------------------------------ MODULE QaCache ------------------------------
(***************************************************************************)
(* Question answering with its cached answers: Redis, the qa_cache table   *)
(* and the semantic index over Redis keys.  A call looks through the       *)
(* layers, checks the evidence of what it finds, and otherwise retrieves,  *)
(* generates and writes through, table first.  Meanwhile documents change, *)
(* dislikes invalidate answers and questions enter the blacklist.          *)
(***************************************************************************)
EXTENDS Naturals, FiniteSets

CONSTANTS
  Queries, Docs, Calls,
  Threshold,    \* OPTIMIZER_BLACKLIST_THRESHOLD
  Setups,       \* the deployments looked at, and how they are used
  None

(* single: no conversation; regen: asked again past the cache; full and     *)
(* followup: within a conversation, complete or rewritten with its history; *)
(* agent: the streaming agent.                                              *)
Kinds == {"single", "regen", "full", "followup", "agent"}

(* semantic is SEMANTIC_CACHE_ENABLE; the others bound an instance: what is *)
(* asked and in which ways, what was asked often enough to be warmed,       *)
(* dislikes of a question, failures of a store.                             *)
Setup == [semantic : BOOLEAN, asked : SUBSET Queries, kinds : SUBSET Kinds,
          warmed : SUBSET Queries, dislikes : Nat, faults : Nat]

VARIABLES
  setup,     \* the one of this behaviour
  doc,       \* document -> "live", "blocked" by governance, or "gone"
  purge,     \* documents deleted whose answers are not invalidated yet
  redis,     \* question -> answer or None
  table,     \* question -> None or [ans, deleted]; the row of qa_cache
  index,     \* questions in the semantic index
  backfill,  \* answers a table hit or a warm-up is about to put into Redis
  black,     \* the blacklist
  dislikes,  \* question -> dislikes recorded
  job,       \* question -> step of the invalidation a dislike started
  count,     \* questions whose dislikes are about to be counted
  call,      \* call -> None or its progress
  disliked,  \* history: answers that were cached when somebody disliked them
  crossed,   \* history: questions whose invalidation overlapped other work
  faults     \* failures of a store so far

vars == <<setup, doc, purge, redis, table, index, backfill, black, dislikes, job, count,
          call, disliked, crossed, faults>>
stores == <<redis, table, index>>
world == <<doc, purge>>
opinion == <<black, dislikes, job, count>>

(* An answer: who made it, how it was asked, and the document it cites; an  *)
(* agent's answer is stored without citations.                              *)
Answer == [by : Calls, kind : Kinds, cites : Docs \cup {None}]

Init ==
  /\ setup \in Setups
  /\ doc = [d \in Docs |-> "live"] /\ purge = {}
  /\ redis = [q \in Queries |-> None]
  /\ table = [q \in Queries |-> None]
  /\ index = {} /\ backfill = {}
  /\ black = {} /\ dislikes = [q \in Queries |-> 0]
  /\ job = [q \in Queries |-> "idle"] /\ count = {}
  /\ call = [c \in Calls |-> None]
  /\ disliked = {} /\ crossed = {} /\ faults = 0

Live == {d \in Docs : doc[d] = "live"}

(* A call: its question, what it has found or made and in which layer; as   *)
(* history, the documents live at some moment of it, and whether its        *)
(* question was on the blacklist from its beginning on and no lookup there  *)
(* failed.                                                                  *)
Progress == [q : Queries, kind : Kinds,
             step : {"redis", "table", "semantic", "check", "served",
                     "retrieve", "gate", "store", "cache", "index"},
             layer : {"none", "redis", "table", "semantic"},
             ans : Answer \cup {None}, seen : SUBSET Docs, barred : BOOLEAN]
At(c, steps) == call[c] # None /\ call[c].step \in steps
Goto(c, step) == call' = [call EXCEPT ![c].step = step]
Over == [q |-> None, kind |-> "over", step |-> "done", layer |-> "none",
         ans |-> None, seen |-> {}, barred |-> FALSE]
Finish(c) == call' = [call EXCEPT ![c] = Over]
Working(q) == \/ \E b \in backfill : b.q = q
              \/ \E c \in Calls : call[c] # None /\ call[c].q = q
                                  /\ call[c].step \notin {"served", "done"}
Rows == [ans : Answer, deleted : BOOLEAN]

CacheAssumption ==
  /\ Setups \subseteq Setup
  /\ None \notin Queries \cup Docs \cup Answer \cup Rows \cup Progress \cup {Over}

Fault == faults < setup.faults /\ faults' = faults + 1

(* answer and stream_answer up to the first lookup: a blacklisted question, *)
(* a regeneration and a rewritten follow-up skip the cached answers; the    *)
(* agent does not ask the blacklist.                                        *)
First(kind, listed) ==
  IF kind \in {"regen", "followup"} \/ (kind # "agent" /\ listed) THEN "retrieve" ELSE "redis"

(* When the lookup in the blacklist fails, the question counts as not in it.*)
Begin(c, q, kind) ==
  /\ call[c] = None /\ q \in setup.asked /\ kind \in setup.kinds
  /\ \E listed \in BOOLEAN :
       /\ \/ listed = (q \in black) /\ UNCHANGED faults
          \/ ~listed /\ q \in black /\ kind \in {"single", "full"} /\ Fault
       /\ call' = [call EXCEPT ![c] = [q |-> q, kind |-> kind, step |-> First(kind, listed),
                                       layer |-> "none",
                                       ans |-> None, seen |-> Live, barred |-> listed]]
  /\ crossed' = IF job[q] = "idle" THEN crossed ELSE crossed \cup {q}
  /\ UNCHANGED <<stores, world, opinion, backfill, disliked>>

(* Which lookup follows when one yields nothing or nothing valid. *)
AfterMiss(c, layer, found) ==
  CASE layer = "redis" /\ call[c].kind = "full" -> "retrieve"
    [] layer = "redis" /\ call[c].kind = "agent" /\ found -> "retrieve"
    [] layer = "redis" -> "table"
    [] layer = "table" /\ setup.semantic /\ call[c].kind = "single" -> "semantic"
    [] OTHER -> "retrieve"

(* What is found waits for the check of its evidence. *)
Found(c, layer, ans) ==
  IF ans = None THEN [call EXCEPT ![c].step = AfterMiss(c, layer, FALSE)]
  ELSE [call EXCEPT ![c].step = "check", ![c].layer = layer, ![c].ans = ans]

(* A layer that fails is passed over. *)
LookRedis(c) ==
  /\ At(c, {"redis"})
  /\ \/ call' = Found(c, "redis", redis[call[c].q]) /\ UNCHANGED faults
     \/ call' = Found(c, "redis", None) /\ Fault
  /\ UNCHANGED <<stores, world, opinion, backfill, disliked, crossed>>

(* A row that is deleted is not found; a hit sends the answer to Redis      *)
(* behind the call's back (asyncio.ensure_future).                          *)
LookTable(c) ==
  LET q == call[c].q
      hit == table[q] # None /\ ~table[q].deleted IN
  /\ At(c, {"table"})
  /\ \/ /\ hit /\ call' = Found(c, "table", table[q].ans)
        /\ backfill' = backfill \cup {[q |-> q, ans |-> table[q].ans]}
        /\ UNCHANGED faults
     \/ ~hit /\ call' = Found(c, "table", None) /\ UNCHANGED <<backfill, faults>>
     \/ hit /\ call' = Found(c, "table", None) /\ Fault /\ UNCHANGED backfill
  /\ UNCHANGED <<stores, world, opinion, disliked, crossed>>

(* The nearest question of the index, if it is near enough and the index    *)
(* and the model of the embeddings answer, gives its Redis key; an exact    *)
(* key that came back meanwhile is "exact", which no caller accepts.        *)
LookSemantic(c) ==
  LET q == call[c].q IN
  /\ At(c, {"semantic"})
  /\ \/ call' = Found(c, "semantic", None)
     \/ redis[q] = None /\ \E near \in index : call' = Found(c, "semantic", redis[near])
  /\ UNCHANGED <<stores, world, opinion, backfill, disliked, crossed, faults>>

(* _cache_knowledge_valid with a tenant: without citations, or with one     *)
(* that is not owned or blocked, or when that cannot be found out, an       *)
(* answer is not used.                                                      *)
KnowledgeValid(ans) == ans.cites # None /\ ans.cites \in Live

Check(c, layer) ==
  /\ At(c, {"check"}) /\ call[c].layer = layer
  /\ \/ KnowledgeValid(call[c].ans) /\ Goto(c, "served") /\ UNCHANGED faults
     \/ /\ call' = [call EXCEPT ![c].step = AfterMiss(c, layer, TRUE), ![c].ans = None]
        /\ IF KnowledgeValid(call[c].ans) THEN Fault ELSE UNCHANGED faults
  /\ UNCHANGED <<stores, world, opinion, backfill, disliked, crossed>>

(* Retrieval and generation: nothing found or evidence that is not good     *)
(* enough (_crag_correct) leaves no cached answer.                          *)
Generate(c) ==
  LET ans(d) == [by |-> c, kind |-> call[c].kind, cites |-> d] IN
  /\ At(c, {"retrieve"})
  /\ \/ Finish(c)
     \/ /\ call[c].kind # "agent"
        /\ \E d \in Live : call' = [call EXCEPT ![c].ans = ans(d), ![c].step = "gate"]
     \/ /\ call[c].kind = "agent"
        /\ call' = [call EXCEPT ![c].ans = ans(None), ![c].step = "store"]
  /\ UNCHANGED <<stores, world, opinion, backfill, disliked, crossed, faults>>

(* Only answers of high confidence arrive here.  The answer to a question   *)
(* on the blacklist is not stored, unless the lookup fails.                 *)
Gate(c) ==
  /\ At(c, {"gate"})
  /\ \/ call[c].q \in black /\ Finish(c) /\ UNCHANGED faults
     \/ call[c].q \notin black /\ Goto(c, "store") /\ UNCHANGED faults
     \/ /\ call[c].q \in black /\ Fault
        /\ call' = [call EXCEPT ![c].step = "store", ![c].barred = FALSE]
  /\ UNCHANGED <<stores, world, opinion, backfill, disliked, crossed>>

(* cache_set_mysql: an UPDATE of the existing row does not touch            *)
(* is_deleted; a failure is forgiven.                                       *)
Stored(q, ans) ==
  [ans |-> ans, deleted |-> IF table[q] = None THEN FALSE ELSE table[q].deleted]

StoreTable(c) ==
  LET q == call[c].q IN
  /\ At(c, {"store"}) /\ Goto(c, "cache")
  /\ \/ table' = [table EXCEPT ![q] = Stored(q, call[c].ans)] /\ UNCHANGED faults
     \/ Fault /\ UNCHANGED table
  /\ UNCHANGED <<redis, index, world, opinion, backfill, disliked, crossed>>

StoreRedis(c) ==
  LET q == call[c].q IN
  /\ At(c, {"cache"})
  /\ IF setup.semantic /\ call[c].kind # "agent" THEN Goto(c, "index") ELSE Finish(c)
  /\ \/ redis' = [redis EXCEPT ![q] = call[c].ans] /\ UNCHANGED faults
     \/ Fault /\ UNCHANGED redis
  /\ UNCHANGED <<table, index, world, opinion, backfill, disliked, crossed>>

StoreIndex(c) ==
  /\ At(c, {"index"}) /\ Finish(c)
  /\ index' = index \cup {call[c].q}
  /\ UNCHANGED <<redis, table, world, opinion, backfill, disliked, crossed, faults>>

Backfill(b) ==
  /\ b \in backfill /\ backfill' = backfill \ {b}
  /\ \/ redis' = [redis EXCEPT ![b.q] = b.ans] /\ UNCHANGED faults
     \/ Fault /\ UNCHANGED redis
  /\ UNCHANGED <<table, index, world, opinion, call, disliked, crossed>>

(* warmup_hot_queries, when a worker starts: rows that are not deleted are  *)
(* read and written to Redis one after the other.  The other warm-up reads  *)
(* a file that is not where it looks.                                       *)
Warm(qs) ==
  /\ qs # {} /\ qs \subseteq setup.warmed /\ \A q \in qs : table[q] # None /\ ~table[q].deleted
  /\ backfill' = backfill \cup {[q |-> q, ans |-> table[q].ans] : q \in qs}
  /\ crossed' = crossed \cup {q \in qs : job[q] # "idle"}
  /\ UNCHANGED <<stores, world, opinion, call, disliked, faults>>

-----------------------------------------------------------------------------
(* feedback: a dislike starts the invalidation and the count for the        *)
(* blacklist as two tasks of their own.                                     *)
Dislike(q) ==
  /\ q \in setup.asked /\ dislikes[q] < setup.dislikes /\ job[q] = "idle"
  /\ dislikes' = [dislikes EXCEPT ![q] = @ + 1]
  /\ job' = [job EXCEPT ![q] = "table"] /\ count' = count \cup {q}
  /\ disliked' = disliked
       \cup (IF redis[q] = None THEN {} ELSE {redis[q]})
       \cup (IF table[q] = None THEN {} ELSE {table[q].ans})
  /\ crossed' = IF Working(q) THEN crossed \cup {q} ELSE crossed
  /\ UNCHANGED <<stores, world, backfill, black, call, faults>>

\* mutant
InvalidateTableOnly(q) ==
  /\ job[q] = "table" /\ job' = [job EXCEPT ![q] = "idle"]
  /\ table' = IF table[q] = None THEN table ELSE [table EXCEPT ![q].deleted = TRUE]
  /\ UNCHANGED <<redis, index, world, backfill, black, dislikes, count, call, disliked,
                 crossed, faults>>

(* invalidate_cache_on_dislike: rows are soft-deleted, then keys deleted;   *)
(* a failure of the table ends the job, one of Redis is forgiven.           *)
InvalidateTable(q) ==
  /\ job[q] = "table"
  /\ \/ /\ job' = [job EXCEPT ![q] = "redis"]
        /\ table' = IF table[q] = None THEN table ELSE [table EXCEPT ![q].deleted = TRUE]
        /\ UNCHANGED <<crossed, faults>>
     \/ /\ Fault /\ job' = [job EXCEPT ![q] = "idle"]
        /\ crossed' = crossed \cup {q} /\ UNCHANGED table
  /\ UNCHANGED <<redis, index, world, backfill, black, dislikes, count, call, disliked>>

InvalidateRedis(q) ==
  /\ job[q] = "redis" /\ job' = [job EXCEPT ![q] = "idle"]
  /\ \/ redis' = [redis EXCEPT ![q] = None] /\ UNCHANGED <<crossed, faults>>
     \/ Fault /\ crossed' = crossed \cup {q} /\ UNCHANGED redis
  /\ UNCHANGED <<table, index, world, backfill, black, dislikes, count, call, disliked>>

(* maybe_blacklist_on_dislike and auto_tune_cache_ttl; a failure is         *)
(* forgiven.                                                                *)
CountDislikes(q) ==
  /\ q \in count /\ count' = count \ {q}
  /\ \/ dislikes[q] >= Threshold /\ black' = black \cup {q} /\ UNCHANGED faults
     \/ UNCHANGED black /\ IF dislikes[q] >= Threshold THEN Fault ELSE UNCHANGED faults
  /\ UNCHANGED <<stores, world, backfill, dislikes, job, call, disliked, crossed>>

(* remove_blacklist, by an administrator; and Redis itself, which evicts    *)
(* the one key of the whole blacklist when its memory is full.              *)
Unbar(qs) ==
  /\ black' = black \ qs
  /\ call' = [c \in Calls |-> IF call[c] = None \/ call[c].q \notin qs THEN call[c]
                              ELSE [call[c] EXCEPT !.barred = FALSE]]
  /\ UNCHANGED <<stores, world, backfill, dislikes, job, count, disliked, crossed, faults>>

Pardon(q) == q \in black /\ Unbar({q})
Evict == black # {} /\ Unbar(black)

-----------------------------------------------------------------------------
(* Governance blocks a document and releases it. *)
Govern(d) ==
  /\ doc[d] # "gone"
  /\ doc' = [doc EXCEPT ![d] = IF @ = "live" THEN "blocked" ELSE "live"]
  /\ call' = [c \in Calls |-> IF call[c] \in {None, Over} THEN call[c]
                              ELSE [call[c] EXCEPT !.seen = @ \cup {d}]]
  /\ UNCHANGED <<stores, purge, opinion, backfill, disliked, crossed, faults>>

(* delete_document commits, then invalidates the rows that cite it; Redis   *)
(* is left to the check of every hit.                                       *)
Remove(d) ==
  /\ doc[d] # "gone" /\ doc' = [doc EXCEPT ![d] = "gone"]
  /\ purge' = purge \cup {d}
  /\ UNCHANGED <<stores, opinion, backfill, call, disliked, crossed, faults>>

InvalidateForDoc(d) ==
  /\ d \in purge /\ purge' = purge \ {d}
  /\ \/ /\ table' = [q \in Queries |->
                       IF table[q] # None /\ table[q].ans.cites = d
                       THEN [table[q] EXCEPT !.deleted = TRUE] ELSE table[q]]
        /\ UNCHANGED faults
     \/ Fault /\ UNCHANGED table
  /\ UNCHANGED <<redis, index, doc, opinion, backfill, call, disliked, crossed>>

(* A key's time to live ends; cache_cleanup removes rows that expired, were *)
(* not used for three days, or were deleted a week ago.                     *)
Expire(q) ==
  /\ redis[q] # None /\ redis' = [redis EXCEPT ![q] = None]
  /\ UNCHANGED <<table, index, world, opinion, backfill, call, disliked, crossed, faults>>

Cleanup(q) ==
  /\ table[q] # None /\ table' = [table EXCEPT ![q] = None]
  /\ UNCHANGED <<redis, index, world, opinion, backfill, call, disliked, crossed, faults>>

Next ==
  /\ UNCHANGED setup
  /\ \/ \E c \in Calls :
          \/ \E q \in Queries, kind \in Kinds : Begin(c, q, kind)
          \/ LookRedis(c) \/ LookTable(c) \/ LookSemantic(c)
          \/ \E layer \in {"redis", "table", "semantic"} : Check(c, layer)
          \/ Generate(c) \/ Gate(c)
          \/ StoreTable(c) \/ StoreRedis(c) \/ StoreIndex(c)
     \/ \E b \in backfill : Backfill(b)
     \/ \E qs \in SUBSET Queries : Warm(qs)
     \/ \E q \in Queries :
          \/ Dislike(q) \/ InvalidateTable(q) \/ InvalidateRedis(q)
          \/ CountDislikes(q) \/ Pardon(q) \/ Expire(q) \/ Cleanup(q)
     \/ Evict
     \/ \E d \in Docs : Govern(d) \/ Remove(d) \/ InvalidateForDoc(d)

Spec == Init /\ [][Next]_vars

-----------------------------------------------------------------------------
(* Stores, tasks and calls hold values of their kinds. *)
TypeOK ==
  /\ doc \in [Docs -> {"live", "blocked", "gone"}] /\ purge \subseteq Docs
  /\ redis \in [Queries -> Answer \cup {None}]
  /\ table \in [Queries -> Rows \cup {None}]
  /\ call \in [Calls -> Progress \cup {Over, None}]
  /\ index \subseteq Queries /\ black \subseteq Queries /\ count \subseteq Queries
  /\ job \in [Queries -> {"idle", "table", "redis"}]

Served(c) == At(c, {"served"})

(* An answer from a cache cites a document that could be retrieved at some  *)
(* moment of the call, whatever was withdrawn or deleted since the answer   *)
(* was written (_cache_knowledge_valid).                                    *)
ServedWasLive == \A c \in Calls : Served(c) => call[c].ans.cites \in call[c].seen

(* An invalidation that met no other work on its question and no failure    *)
(* leaves no layer with the answer that was disliked                        *)
(* (invalidate_cache_on_dislike).                                           *)
DislikedIsGone ==
  \A q \in Queries : job[q] = "idle" /\ q \notin crossed =>
    /\ redis[q] \notin disliked
    /\ table[q] # None /\ table[q].ans \in disliked => table[q].deleted

(* From a question on the blacklist, as Redis holds it throughout a call    *)
(* and as far as its lookups succeed, neither an answer is served from a    *)
(* cache nor the new one kept there; the agent's calls do not ask           *)
(* (_is_blacklisted).                                                       *)
BlacklistForcesGeneration ==
  \A c \in Calls : At(c, {"served", "store", "cache", "index"}) /\ call[c].kind # "agent" =>
    ~call[c].barred

(* The agent's answers have no citations: they are stored, and never served.*)
UncitedIsNotServed == \A c \in Calls : Served(c) => call[c].ans.kind # "agent"

\* A cached answer is served only while its documents are live, its citations are whole
\* and nobody has taken it back.
CacheSound ==
  /\ TypeOK /\ ServedWasLive /\ DislikedIsGone
  /\ BlacklistForcesGeneration /\ UncitedIsNotServed
=============================================================================
