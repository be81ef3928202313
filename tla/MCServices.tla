----------------------------- MODULE MCServices -----------------------------
(***************************************************************************)
(* The services behind questions on small instances: the answer cache with *)
(* and without its semantic layer, retrieval, answering, streaming,        *)
(* conversations, memory, the knowledge graph, the accounts of those who   *)
(* ask, the settings in force and what the answers cost.  They share no    *)
(* state in these instances, so a behaviour is about one of them: focus is *)
(* chosen at the start and the others keep their initial states.           *)
(***************************************************************************)
EXTENDS Integers, TLC

CONSTANTS
  k1, k2, None, Deleted,
  Questions, Evidence, Threshold, Setups,                         \* of the answer cache
  Finds, Replies, Listed, RerankOn,                               \* of the answers
  AnswerLength, MaxFailures,                                      \* of the streams
  Exchanges, Convs, Limit, MaxTime, MaxDeletes,                   \* of the conversations
  MemoryFacts, Capacity, MaxBatch,                                \* of the memory
  Papers, TenantPapers, Facts, Says, Means, Shown,                \* of the graph
  MaxExtracts, MaxEdits, MaxAsks,
  Members, Founders, Passwords, FirstPassword, MaxAsked,           \* of the accounts
  Sections, KeysOf, Numbers, Word, Usual, MaxUpdates,             \* of the settings
  Askers, Sizes, Quota, TenantQuota, MonthLength, MaxDays, MaxAnswers,   \* of the usage
  MaxEvictions

VARIABLES
  focus,
  setup, doc, purge, redis, table, index, backfill, black, dislikes, job, count, call,
  disliked, crossed, faults,
  live, blocked, req, result, changes, requests, allowed,
  phase, contexts, grade, action, confidence, text, listed, round, answer, labels,
  stood,
  stream, sent, gone, ended, opened, messages, cached, s_faults,
  now, conv, v_messages, turn, deletes, late, uneven,
  row, vectors, hot, prefs, m_job, m_crossed, m_failed, doubled, longest,
  rows, edges, g_live, g_blocked, g_job, deleting, ask, g_answer, extracts, edits,
  asks, g_allowed, corrected, g_crossed, g_failed,
  users, u_req, asked, told, met, u_crossed, demoted,
  stored, running, request, updates, blurred,
  today, c_rows, c_count, used, c_call, answers, missed, evictions,
  forgotten, check, slipped

cache == <<setup, doc, purge, redis, table, index, backfill, black, dislikes, job,
           count, call, disliked, crossed, faults>>
retrieval == <<live, blocked, req, result, changes, requests, allowed>>
answering == <<phase, contexts, grade, action, confidence, text, listed, round, answer,
               labels, stood>>
streams == <<stream, sent, gone, ended, opened, messages, cached, s_faults>>
conversations == <<now, conv, v_messages, turn, deletes, late, uneven>>
memory == <<row, vectors, hot, prefs, m_job, m_crossed, m_failed, doubled, longest>>
graph == <<rows, edges, g_live, g_blocked, g_job, deleting, ask, g_answer, extracts,
           edits, asks, g_allowed, corrected, g_crossed, g_failed>>
accounts == <<users, u_req, asked, told, met, u_crossed, demoted>>
settings == <<stored, running, request, updates, blurred>>
usage == <<today, c_rows, c_count, used, c_call, answers, missed, evictions,
           forgotten, check, slipped>>

\* Two of whatever acts at the same time.
Pair == {k1, k2}
Symmetric == Permutations(Pair)

\* One question whose answer is disliked; two, so that the answer to one may be found
\* for the other; and one that workers warm when they start.
TheSetups == {
  [semantic |-> FALSE, asked |-> {"q1"}, kinds |-> {"single", "followup"},
   warmed |-> {}, dislikes |-> 1, faults |-> 1],
  [semantic |-> TRUE, asked |-> {"q1", "q2"},
   kinds |-> {"single", "regen", "full", "followup", "agent"},
   warmed |-> {}, dislikes |-> 0, faults |-> 0],
  [semantic |-> FALSE, asked |-> {"q1"}, kinds |-> {"single"},
   warmed |-> {"q1"}, dislikes |-> 1, faults |-> 0]}
Cache == INSTANCE QaCache WITH
  Queries <- Questions, Docs <- Evidence, Calls <- Pair

\* Two documents of the tenant and one that is not; one chunk, or two.
TheDoc == "c1" :> 1 @@ "c2" :> 1 @@ "c3" :> 2 @@ "c4" :> 3
Search == INSTANCE Retrieval WITH
  Doc <- TheDoc, Parent <- [c \in DOMAIN TheDoc |-> 0], Own <- {1, 2},
  OfType <- {1, 3}, Readable <- {1, 3},
  Lists <- {<<"c1", "c2", "c3">>, <<"c3", "c4">>, <<"c2", "c1">>},
  TopK <- 2, RrfK <- 1, Scale <- 2520, MaxChanges <- 1, MaxRequests <- 1

\* Marks of one number, of two, of none and of one that does not exist.
TheLevels == {"low", "middle", "high"}
Answers == INSTANCE Answering WITH
  Texts <- Replies, Found <- Finds
TheFinds == [ids : {<<"c1">>, <<"c2", "c1">>}, level : TheLevels, reranked : {TRUE}]
\* ... also when the reranker fails.
AllFinds == [ids : {<<"c1">>, <<"c2", "c1">>}, level : TheLevels, reranked : BOOLEAN]
\* Lists of one item, and of two of which one does not exist.
TheLists == {{<<1, {1}, 1>>}, {<<1, {2}, 2>>, <<2, {3}, 3>>}}
TheReplies == {<<{{1}}, {{1, 2}}>>, <<{}, {{2}}>>, <<{{1}, {3}}>>}

Streaming == INSTANCE StreamAnswer WITH
  Streams <- Pair, Length <- AnswerLength, MaxFaults <- MaxFailures, faults <- s_faults

Talks == INSTANCE Conversations WITH
  Turns <- Exchanges,
  messages <- v_messages

\* Two consolidations that compete for the room of a memory, and for its rows.
Memory == INSTANCE AgentMemory WITH
  Texts <- MemoryFacts, Ids <- Pair, Jobs <- Pair,
  job <- m_job, crossed <- m_crossed, failed <- m_failed

\* One document of the tenant; two wordings of a fact, and noise.
TheSays == [d \in {1, 2} |-> IF d = 1 THEN {"a1", "noise"} ELSE {"a2", "b"}]
TheMeans == "a1" :> "a" @@ "a2" :> "a" @@ "b" :> "b" @@ "noise" :> None
Graph == INSTANCE KnowledgeGraph WITH
  Docs <- Papers, Own <- TenantPapers, Extractions <- Pair, TopK <- Shown,
  live <- g_live, blocked <- g_blocked, job <- g_job, answer <- g_answer,
  allowed <- g_allowed, crossed <- g_crossed, failed <- g_failed

People == INSTANCE Accounts WITH
  Users <- Members, First <- Founders, Initial <- FirstPassword, Secrets <- Passwords,
  Requests <- Pair, MaxRequests <- MaxAsked, req <- u_req, crossed <- u_crossed

Settings == INSTANCE RuntimeConfig WITH
  Docs <- Sections, Values <- Numbers, Bad <- Word, Default <- Usual, Requests <- Pair

TheKeys == "index" :> <<"ef">> @@ "model" :> <<"temperature", "max_tokens">>

Usage == INSTANCE TokenLedger WITH
  Users <- Askers, Calls <- Pair,
  rows <- c_rows, count <- c_count, call <- c_call

ASSUME ServicesAssumption ==
  /\ Answers!AnsweringAssumption /\ Streaming!StreamAssumption
  /\ Memory!MemoryAssumption /\ People!AccountsAssumption
  /\ Settings!SettingsAssumption
  /\ Cache!CacheAssumption /\ Graph!GraphAssumption /\ Talks!ConversationsAssumption
  /\ Usage!UsageAssumption

ServicesInit ==
  /\ focus \in {"cache", "retrieval", "answering", "streams", "conversations", "memory",
               "graph", "accounts", "settings", "usage"}
  /\ focus # "cache" => setup = CHOOSE some \in Setups : TRUE
  /\ Cache!Init /\ Search!Init /\ Answers!Init /\ Streaming!Init /\ Talks!Init
  /\ Memory!Init /\ Graph!Init /\ People!Init /\ Settings!Init /\ Usage!Init

ServicesNext ==
  /\ UNCHANGED focus
  /\ \/ /\ focus = "cache" /\ Cache!Next
        /\ UNCHANGED <<retrieval, answering, streams, conversations, memory, graph, accounts,
                       settings, usage>>
     \/ /\ focus = "retrieval" /\ Search!Next
        /\ UNCHANGED <<cache, answering, streams, conversations, memory, graph, accounts,
                       settings, usage>>
     \/ /\ focus = "answering" /\ Answers!Next
        /\ UNCHANGED <<cache, retrieval, streams, conversations, memory, graph, accounts,
                       settings, usage>>
     \/ /\ focus = "streams" /\ Streaming!Next
        /\ UNCHANGED <<cache, retrieval, answering, conversations, memory, graph, accounts,
                       settings, usage>>
     \/ /\ focus = "conversations" /\ Talks!Next
        /\ UNCHANGED <<cache, retrieval, answering, streams, memory, graph, accounts,
                       settings, usage>>
     \/ /\ focus = "memory" /\ Memory!Next
        /\ UNCHANGED <<cache, retrieval, answering, streams, conversations, graph, accounts,
                       settings, usage>>
     \/ /\ focus = "graph" /\ Graph!Next
        /\ UNCHANGED <<cache, retrieval, answering, streams, conversations, memory, accounts,
                       settings, usage>>
     \/ /\ focus = "accounts" /\ People!Next
        /\ UNCHANGED <<cache, retrieval, answering, streams, conversations, memory, graph,
                       settings, usage>>
     \/ /\ focus = "settings" /\ Settings!Next
        /\ UNCHANGED <<cache, retrieval, answering, streams, conversations, memory, graph,
                       accounts, usage>>
     \/ /\ focus = "usage" /\ Usage!Next
        /\ UNCHANGED <<cache, retrieval, answering, streams, conversations, memory, graph,
                       accounts, settings>>

ServicesVars == <<focus, cache, retrieval, answering, streams, conversations, memory,
                  graph, accounts, settings, usage>>
ServicesSpec == ServicesInit /\ [][ServicesNext]_ServicesVars

-----------------------------------------------------------------------------
\* What each service keeps, stated in its module under the same name.
CacheSound == focus = "cache" => Cache!CacheSound
RetrievalSound == focus = "retrieval" => Search!RetrievalSound
CitationsSound == focus = "answering" => Answers!CitationsSound
StreamSound == focus = "streams" => Streaming!StreamSound
ConversationsSound == focus = "conversations" => Talks!ConversationsSound
MemorySound == focus = "memory" => Memory!MemorySound
GraphSound == focus = "graph" => Graph!GraphSound
AccountsSound == focus = "accounts" => People!AccountsSound
SettingsSound == focus = "settings" => Settings!SettingsSound
UsageSound == focus = "usage" => Usage!UsageSound

(* What crag.py says of itself (line 9), of every retrieval.                *)
UnreliableIsAmbiguous == focus = "answering" => Answers!UnreliableIsAmbiguous
=============================================================================
