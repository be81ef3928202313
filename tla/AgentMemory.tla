---------------------------- MODULE AgentMemory ----------------------------
(***************************************************************************)
(* The long-term memory of one user: facts extracted from answers, kept as *)
(* rows, as vectors in Milvus and in Redis' list of hot facts.  Several    *)
(* consolidations run at once, each after its own answer; facts are        *)
(* recalled, forgotten, and decay.                                         *)
(***************************************************************************)
EXTENDS Naturals, FiniteSets, Sequences

CONSTANTS
  Texts,      \* what a fact can say
  Ids,        \* fact_id of the rows an instance may write
  Jobs,       \* consolidations
  Capacity,   \* MEMORY_CAPACITY
  MaxBatch,   \* facts extracted from one answer
  None

VARIABLES
  row,      \* id -> None or [text, weight, age, deleted]; the committed table
  vectors,  \* ids in Milvus
  hot,      \* ids in memory:hot:{user}
  prefs,    \* facts whose entity Neo4j knows as a preference
  job,      \* consolidation -> None or [step, new]
  crossed, failed, \* history
  doubled,  \* history: what a reply named twice
  longest   \* history: facts in the longest reply that found the memory full

vars == <<row, vectors, hot, prefs, job, crossed, failed, doubled, longest>>

Ages == {"fresh", "old", "ancient"}   \* hit within 90 days, 180 days, not so
Kinds == [text : Texts, weight : 0 .. 2, age : Ages,
          deleted : {"no", "evicted", "forgotten", "long ago"}]

\* What a model finds in one answer, in its order; it may name a fact twice.
Batches == UNION {[1 .. n -> Texts] : n \in 0 .. MaxBatch}
\* What is new of it: some of its places, with what each says.
News == UNION {[places -> Texts] : places \in SUBSET (1 .. MaxBatch)}
Elements(new) == {new[n] : n \in DOMAIN new}

MemoryAssumption ==
  /\ IsFiniteSet(Texts) /\ IsFiniteSet(Ids) /\ Capacity \in Nat /\ MaxBatch \in Nat
  /\ None \notin Kinds /\ \A new \in News : None # [step |-> "embed", new |-> new]
  /\ \A new \in News, ids \in SUBSET Ids : None # [step |-> "commit", new |-> new, ids |-> ids]

Init ==
  /\ row = [i \in Ids |-> None]
  /\ vectors = {} /\ hot = {} /\ prefs = {}
  /\ job = [j \in Jobs |-> None]
  /\ crossed = FALSE /\ failed = FALSE /\ doubled = {} /\ longest = 0

Rows == {i \in Ids : row[i] # None}
Active == {i \in Rows : row[i].deleted = "no"}
\* Nothing reads what a deleted row weighed, or when it was last hit.
Removed(i, how) == [row[i] EXCEPT !.deleted = how, !.weight = 0, !.age = "ancient"]
Rank(a) == CASE a = "fresh" -> 2 [] a = "old" -> 1 [] OTHER -> 0
Weaker(i, k) == \/ row[i].weight < row[k].weight
                \/ row[i].weight = row[k].weight /\ Rank(row[i].age) < Rank(row[k].age)
Min2(m, n) == IF m < n THEN m ELSE n
Max2(m, n) == IF m < n THEN n ELSE m

(* A full memory gives up its weakest rows, as many as facts arrive ... *)
Evictions(n) ==
  IF Cardinality(Active) < Capacity THEN {{}}
  ELSE {S \in SUBSET Active :
          /\ Cardinality(S) = Min2(n, Cardinality(Active))
          /\ \A i \in S, k \in Active \ S : ~Weaker(k, i)}

(* ... and the first facts there is room for are taken.  Those that a row   *)
(* says already are left out; they are not compared with each other.        *)
Room(n) == IF Cardinality(Active) < Capacity
           THEN Capacity - Cardinality(Active) ELSE n
Taken(batch) == {n \in DOMAIN batch : n <= Room(Len(batch))}
Known(out) == {row[i].text : i \in Active \ out}
New(batch, out) == [n \in {m \in Taken(batch) : batch[m] \notin Known(out)} |-> batch[n]]
Twice(new) == {new[m] : m \in {k \in DOMAIN new : \E n \in DOMAIN new : n # k /\ new[n] = new[k]}}

Plan(j, batch) ==
  /\ job[j] = None /\ batch # <<>>
  /\ \E out \in Evictions(Len(batch)) :
       LET new == New(batch, out) IN
       /\ row' = [i \in Ids |-> IF i \in out THEN Removed(i, "evicted") ELSE row[i]]
       /\ job' = [job EXCEPT ![j] = IF DOMAIN new = {} THEN None ELSE [step |-> "embed", new |-> new]]
       /\ doubled' = doubled \cup Twice(new)
  /\ longest' = IF Cardinality(Active) < Capacity THEN longest
                ELSE Max2(longest, Len(batch))
  /\ crossed' = (crossed \/ \E k \in Jobs : job[k] # None)
  /\ UNCHANGED <<vectors, hot, prefs, failed>>

(* Without embeddings nothing is written. *)
EmbedFails(j) ==
  /\ job[j] # None /\ job[j].step = "embed"
  /\ job' = [job EXCEPT ![j] = None]
  /\ failed' = TRUE
  /\ UNCHANGED <<row, vectors, hot, prefs, crossed, doubled, longest>>

(* Every fact goes to Milvus, Neo4j and Redis, each store forgiven, while   *)
(* its row is only pending; the commit comes last.                          *)
Free == Ids \ (Rows \cup vectors \cup UNION {job[j].ids : j \in {k \in Jobs :
                                              job[k] # None /\ job[k].step = "commit"}})
\* mutant
ScatterRedisOnly(j) ==
  /\ job[j] # None /\ job[j].step = "embed"
  /\ \E ids \in SUBSET Free :
       /\ Cardinality(ids) = Cardinality(DOMAIN job[j].new)
       /\ job' = [job EXCEPT ![j] = [step |-> "commit", new |-> job[j].new, ids |-> ids]]
       /\ hot' = hot \cup ids
  /\ prefs' = prefs \cup Elements(job[j].new)
  /\ UNCHANGED <<row, vectors, crossed, failed, doubled, longest>>

Scatter(j) ==
  /\ job[j] # None /\ job[j].step = "embed"
  /\ \E ids \in SUBSET Free :
       /\ Cardinality(ids) = Cardinality(DOMAIN job[j].new)
       /\ job' = [job EXCEPT ![j] = [step |-> "commit", new |-> job[j].new, ids |-> ids]]
       /\ \/ vectors' = vectors \cup ids /\ UNCHANGED failed
          \/ UNCHANGED vectors /\ failed' = TRUE
       /\ hot' = hot \cup ids
  /\ prefs' = prefs \cup Elements(job[j].new)
  /\ UNCHANGED <<row, crossed, doubled, longest>>

Commit(j) ==
  /\ job[j] # None /\ job[j].step = "commit"
  /\ \E nth \in [job[j].ids -> DOMAIN job[j].new] :
       /\ \A i, k \in job[j].ids : nth[i] = nth[k] => i = k
       /\ row' = [i \in Ids |-> IF i \in job[j].ids
                                THEN [text |-> job[j].new[nth[i]], weight |-> 2,
                                      age |-> "fresh", deleted |-> "no"]
                                ELSE row[i]]
  /\ job' = [job EXCEPT ![j] = None]
  /\ UNCHANGED <<vectors, hot, prefs, crossed, failed, doubled, longest>>

(* The answer's task ends before the commit: extract_and_consolidate        *)
(* swallows the error, the stores keep what they have.                      *)
BreakOff(j) ==
  /\ job[j] # None /\ job[j].step = "commit"
  /\ job' = [job EXCEPT ![j] = None]
  /\ failed' = TRUE
  /\ UNCHANGED <<row, vectors, hot, prefs, crossed, doubled, longest>>

(* recall: hot facts are read through their rows, but what Milvus finds is  *)
(* taken as it is; its rows count the hit and its ids become hot.           *)
RecalledVectors == vectors
Recall(hits) ==
  /\ hits # {} /\ hits \subseteq RecalledVectors
  /\ row' = [i \in Ids |-> IF i \in hits \cap Active THEN [row[i] EXCEPT !.age = "fresh"] ELSE row[i]]
  /\ hot' = hot \cup hits
  /\ UNCHANGED <<vectors, prefs, job, crossed, failed, doubled, longest>>

(* forget: the row is marked, then Redis forgets the id, or fails. *)
Forget(i) ==
  /\ i \in Rows
  /\ row' = [row EXCEPT ![i] = Removed(i, "forgotten")]
  /\ \/ hot' = hot \ {i} /\ UNCHANGED failed
     \/ UNCHANGED hot /\ failed' = TRUE
  /\ UNCHANGED <<vectors, prefs, job, crossed, doubled, longest>>

(* decay: rows deleted long ago leave with their vectors, or with Milvus    *)
(* failing without them; what is not hit loses weight.                      *)
Lighter(r) ==
  IF r.deleted # "no" THEN r
  ELSE [r EXCEPT !.weight = CASE r.age = "ancient" -> 0
                              [] r.age = "old" -> Min2(r.weight, 1)
                              [] OTHER -> r.weight]

Decay ==
  LET expired == {i \in Rows : row[i].deleted = "long ago"} IN
  /\ row' = [i \in Ids |-> IF i \in expired \/ row[i] = None THEN None ELSE Lighter(row[i])]
  /\ \/ vectors' = vectors \ expired /\ UNCHANGED failed
     \/ expired # {} /\ UNCHANGED vectors /\ failed' = TRUE
  /\ UNCHANGED <<hot, prefs, job, crossed, doubled, longest>>

(* Time: a fact is not hit for another 90 days, a deletion is 30 days old. *)
Age(i) ==
  /\ i \in Active /\ row[i].age # "ancient"
  /\ row' = [row EXCEPT ![i].age = IF @ = "fresh" THEN "old" ELSE "ancient"]
  /\ UNCHANGED <<vectors, hot, prefs, job, crossed, failed, doubled, longest>>
Expire(i) ==
  /\ i \in Rows /\ row[i].deleted \in {"evicted", "forgotten"}
  /\ row' = [row EXCEPT ![i].deleted = "long ago"]
  /\ UNCHANGED <<vectors, hot, prefs, job, crossed, failed, doubled, longest>>

Next ==
  \/ \E j \in Jobs :
       \/ \E batch \in Batches : Plan(j, batch)
       \/ EmbedFails(j) \/ Scatter(j) \/ Commit(j) \/ BreakOff(j)
  \/ \E hits \in SUBSET vectors : Recall(hits)
  \/ \E i \in Ids : Forget(i) \/ Age(i) \/ Expire(i)
  \/ Decay

Spec == Init /\ [][Next]_vars

-----------------------------------------------------------------------------
(* Rows, ids and jobs hold values of their kinds. *)
TypeOK ==
  /\ \A i \in Rows : row[i] \in Kinds
  /\ vectors \subseteq Ids /\ hot \subseteq Ids /\ prefs \subseteq Texts
  /\ \A j \in Jobs : job[j] # None => job[j].step \in {"embed", "commit"}

(* A user has no more active facts than the capacity, or than a reply named *)
(* that found the memory full, unless consolidations overlap (consolidate   *)
(* counts, then writes).                                                    *)
CapacityKept == ~crossed => Cardinality(Active) <= Max2(Capacity, longest)

(* No two active facts say the same, unless consolidations overlapped or a  *)
(* reply named that fact twice (consolidate compares with the rows there    *)
(* were when it began, and not the facts of a reply with each other).       *)
NoTwins ==
  ~crossed => \A i, k \in Active :
    row[i].text = row[k].text /\ row[i].text \notin doubled => i = k

(* While no store failed, every vector belongs to a row, live or awaiting   *)
(* its purge, or to a consolidation that will commit it (decay).            *)
NoOrphanVectors ==
  ~failed => \A i \in vectors :
    i \in Rows \/ \E j \in Jobs : job[j] # None /\ job[j].step = "commit" /\ i \in job[j].ids

(* A fact is active only with a vector to recall it by, unless a store      *)
(* failed: neither decay nor eviction takes the vector of an active fact.   *)
ActiveIsRecallable == ~failed => Active \subseteq RecalledVectors

\* Memories stay within their capacity, none twice, rows and vectors in step.
MemorySound ==
  TypeOK /\ CapacityKept /\ NoTwins /\ NoOrphanVectors /\ ActiveIsRecallable
=============================================================================
