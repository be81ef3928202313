# LogiQA: a TLA+ model of its backend

LogiQA is a question-answering service for logistics: a FastAPI backend
(`backend/app`), a Vue frontend, and MySQL, Redis, Milvus, MinIO and Neo4j
behind them. It answers questions from a knowledge base that people and
language models change at the same time, and it runs work of its own: tasks and
events kept in MySQL, diagnoses of device alerts, scans of the knowledge base,
backups. That work is concurrent, spans stores without a common transaction,
survives restarts and is reviewed by people, and it is what these modules are
about. Paths below are relative to `src/backend/app`.

## The system and its parts

| Part | State | Module | Hard behaviour | What makes it correct |
|---|---|---|---|---|
| Task queue: `services/task_queue_service.py`, `tasks/` | rows of `persistent_tasks`; a coroutine and a heartbeat per queue and process | `TaskQueue`, `TaskContract`, `IdempotentRecords` | claims of several processes, leases that expire under a live handler, crashes, lost commits, two inserts of one key | one owner per lease, no late report on another's attempt, no stranded row, everything settles |
| Event outbox: `services/event_center_service.py`, `events/` | `domain_events`, `event_deliveries` | `EventOutbox`, `IdempotentRecords` | reads without locks followed by blind writes, two backoffs computed apart, expiry | every subscriber reached before `published`, success is final, budgets, everything settles |
| Active operations: `services/realtime_event_service.py` | events, alerts, runs, device mappings | `EventIntake`, `ProactiveOps` | batches sent again, an agent call between two transactions, stale generations, review racing the agent | one run per event, a reviewed proposal is never overwritten, one ticket per run |
| Alert disposal: `services/alert_disposal_service.py` | `alert_disposals` | `AlertDisposal`, `AlertReview` | the run writes back what it read before the agent call | the decision of a person is final |
| Tickets: `services/ticket_lifecycle_service.py`, `ticket_audit_service.py` | `tickets` | `TicketLifecycle`, `TicketAudit` | no row locks; an audit inside `submit` that may approve by itself | nothing is issued unapproved; what approves itself is clean |
| Governance: `services/knowledge_governance_service.py` | metadata of documents, issues | `KnowledgeGovernance` | scans that rebuild issues while reviewers decide | the trail of reviews explains every status; what is blocked is reported |
| Document store: `services/document_service.py`, `services/chunk_service.py`, `services/term_service.py` | rows, chunks, versions; vectors; objects; triples; BM25; vocabulary | `DocumentStore`, `Chunking`, `Terms` | writes to five stores without a transaction; cuts with an overlap, twice, after a normal form that lengthens the text | no version is lost; vectors follow the text; no text is lost between chunks |
| Evidence gaps: `services/evidence_gap_service.py` | `evidence_gap`, FAQ documents, caches | `EvidenceGap` | a sync in four steps, a batch beside a person | an answer in a cache is backed by an indexed document |
| Knowledge evolution: `services/knowledge_evolution_service.py` | drafts, chunks, vectors, weekly quota | `KnowledgeEvolution` | quota checked before the write | nothing unreviewed is indexed; the quota |
| Answer cache: `services/cache_persist.py`, `rag/semantic_cache.py`, `services/feedback_optimizer_service.py` | Redis, `qa_cache`, semantic index, blacklist | `QaCache` | levels written and invalidated at different moments | a disliked or outdated answer is not served |
| Retrieval: `services/retrieval_service.py`, `rag/rrf.py`, `rag/mmr.py` | none of its own | `Retrieval` | parts that fail, documents withdrawn meanwhile | only current documents; an order the sources agree with |
| Answering: `services/qa_service.py`, `rag/crag*.py`, `rag/citation*.py` | conversations, caches | `Answering`, `StreamAnswer` | corrections and second rounds that fail half way; readers that leave | marks point to chunks; what was shown is saved; only whole answers are kept |
| Conversations: `services/conversation_service.py` | messages | `Conversations` | turns that overlap, deletions | a history is whole exchanges, in order |
| Agent memory: `services/agent_memory_service.py` | `agent_memories`, Milvus, Neo4j, Redis | `AgentMemory` | four stores, capacity checked before the write | capacity; no twins; active facts can be recalled |
| Knowledge graph: `services/kg_service.py`, `routers/kg.py` | `kg_triples`, Neo4j | `KnowledgeGraph` | double writes | both stores state the same facts |
| Agent runtime: `services/agent_runtime.py`, `debate_agent_service.py` | messages and steps of a run | `AgentStream`, `Debate` | budgets, tools that raise, readers that leave | each call answered; every run ends |
| Accounts: `services/auth_service.py` | users | `Accounts` | check and write of the last administrator apart | an administrator remains |
| Business centre: `services/biz_center_service.py` | risks, jobs | `BizCenter` | every page synchronises while people decide; a column the session finds unchanged is not written | a person's closing stays, urges are counted, a job tells its outcome |
| Settings, cost | Redis documents and process memory; counters | `RuntimeConfig`, `TokenLedger` | two copies; counters that expire or are evicted | what is stored runs; counters cover the report |
| Backup, log archive | dump files, manifests | `Backup`, `LogArchive` | stores read and refilled item by item while they are written to; files named after a second | a listed backup is whole, and holds what there was meanwhile; no log is lost |
| Start and stop: `main.py`, `tasks/lifecycle.py` | tasks, clients | `Lifecycle` | a stop under running handlers; loops that are cancelled and not awaited | no worker meets a closed client; the stop ends; loops go on |
| Twin, safety patterns, push, MCP, providers, evaluation, routers, frontend | none, or sets of sockets | | | see Not modelled |

How they interact. Routers call services inside one session per request;
services that need later work insert a task (`enqueue_task_record`) or an event
(`publish_event_record`) in the same transaction as their own rows, so that both
or neither commit. The workers started by `main.py:154-159` claim tasks of the
queues `realtime`, `default` and `low` and call the handler registered for the
type; the dispatcher claims events and calls the subscribers. Alert handling is
the longest chain: a consumer or a router ingests an alert (`EventIntake`), which
inserts a run and its task; the worker (`TaskQueue`) calls the agent
(`AgentStream`); a person confirms (`ProactiveOps`) and makes a ticket
(`TicketLifecycle`). A question looks through the caches (`QaCache`), retrieves
(`Retrieval`, behind the gate of `KnowledgeGovernance`), is answered (`Answering`)
and streamed (`StreamAnswer`) into a conversation (`Conversations`); a dislike
invalidates the cache and feeds `KnowledgeEvolution`, a question without evidence
becomes an `EvidenceGap`, and both come back as documents. All rows are read and
written under MySQL's REPEATABLE READ (`db/session.py` sets nothing else): a plain
SELECT sees the snapshot of the transaction's first read, while `FOR UPDATE` and
`UPDATE` see the newest committed row. Sessions are made with
`expire_on_commit=False`, so an object read before a commit keeps its values after
it, and SQLAlchemy writes only the columns whose value differs from the one read.

How the modules are written. A request that reads, waits for a model or a store,
and writes is as many actions as it has such moments; what it read is a field of
its record (`req`, `call`, `job`, `proc`), and what it writes is computed from
that, not from the present row. A remote store may fail at each call, and the
failure does what the code's except clause does. Many operations have no lock,
and a promise then holds only up to overlaps or failures: history variables
(`crossed`, `failed`, `raced`, `blurred`, `late`, `met`) record that such a thing
happened, and the property names it. These conditions are limits of the code, not
of the model: without them the code breaks the promise.

## Modules

### TaskQueue

`TaskQueue.tla` is the table `persistent_tasks` and the worker loops.

| Model | Code |
|---|---|
| `status`, `attempts`, `maxAttempts`, `lockedBy` | the columns |
| `hbAge`, `delay` | `heartbeat_at` and `run_after`, as ages relative to now |
| `pc`, `cur`, `attempt`, `timer` | where a worker is in `run_task_once`, the row it holds, `context.attempt`, time since it last touched the row |
| `Enqueue`, `Retry`, `MoveToDead` | `enqueue_task_record`, `retry_task`, `move_task_to_dead` |
| `ClaimSelect`, `ClaimCommit` | the two halves of `claim_next_task`: the locking read, and the commit |
| `ClaimLost`, `ClaimRolledBack` | the claim's commit or refresh raises |
| `Heartbeat`, `HeartbeatError` | `heartbeat_task` in `_heartbeat_loop` |
| `HandlerReturns`, `HandlerRaises`, `Complete`, `CompleteError`, `Fail`, `FailError` | the body of `run_task_once` with its except clauses |
| `Recover` | `recover_stale_tasks` |
| `Start`, `Stop` | `task_worker_loop` begins; a crash or `stop_background_workers` |
| `Tick` | time |

A transaction that reads `FOR UPDATE` and writes is one step, because nothing
can come between; the claim is two, because its SKIP LOCKED read is itself a
thing to check. A worker identity (`make_worker_id`: host, pid and a random
part) is never used again, so a crash retires it and another one starts.
`returned` and `killed` are history: they record which attempts ran to the end
and which rows an operator killed.

`TaskContract.tla` is what the queue promises its callers, in five phases; the
queue implements it (`KeepsContract`) with the mapping `PhaseOf`.

### EventOutbox

`EventOutbox.tla` is one event, its deliveries, the dispatchers and an
operator. The service locks much less here, so each transaction that reads
without a lock is two actions, `...Read` and `...Write`, with the values it
computed in `draft` (`op` for the operator). A write sets only the columns the
session changed, as SQLAlchemy does. `Free` is the row lock that
`recover_stale_events` holds between its read and its commit.

| Model | Code |
|---|---|
| `Publish`, `Claim`, `Heartbeat` | `publish_event_record`, `claim_next_event`, `_heartbeat_loop` |
| `EnsureRead`/`EnsureWrite` | `ensure_deliveries`, with the unique index |
| `StartDelivery` | `start_delivery` (locks its row) |
| `HandlerReturns`, `HandlerRaises`, `CompleteRead`/`CompleteWrite`, `FailRead`/`FailWrite`, `CompleteError` | the loop over subscribers of `dispatch_event_once` |
| `FinalizeRead`/`FinalizeWrite`, `Finished` | `finalize_event`, the end of the heartbeat |
| `RecoverRead`/`RecoverWrite` | `recover_stale_events` |
| `RetryRead`/`RetryWrite` | `retry_event` |
| `Abandon` | crash, or an exception that leaves the dispatch |
| `Expire`, `Tick` | time |

`lease` has three values, because the cutoff is the only thing the code does
with `locked_at`.

### ProactiveOps, AlertDisposal, AlertReview

`ProactiveOps.tla` is one alert event, its run and the row of `alert_disposals`
they share; `AlertDisposal.tla` is such a row filled by the older path, a task
without a run. `AlertReview.tla` holds what both have: the columns of the row
and the four operations of its reviewers. The task queue is `TaskContract`, so
a task may be executed again at any time until it is done, and the budget of
attempts is abstracted to "may die".

| Model | Code |
|---|---|
| `event`, `run`, `taskOf`, `draft` | statuses of `RealtimeEvent` and `ProactiveOpsRun`, the run's `task_id` as a generation, `ticket_draft_json` |
| `alert`, `alertDraft`, `alertTickets` | status and draft of `AlertDisposal`, its tickets |
| `published`, `runTickets` | the `proactive_ops.proposal` event, tickets of the run |
| `Ingest`, `RetryRun` | `ingest_event` with the rule gate, `retry_run` |
| `BeginRun`, `AgentAnswers`, `Propose`, `AgentFails`, `ProposalRefused`, `RecordFailure` | `process_proactive_run`: the locked transaction, the agent and the first read after it, the transaction that stores, the except clause |
| `ConfirmRun`, `RejectRun`, `RunToTicket` | `confirm_run`, `reject_run`, `run_to_ticket` |
| `ConfirmDisposal`, `RejectDisposal`, `DisposalToTicket`, `CloseDisposal` | the same for the alert |
| `AnswerRead`/`AnswerWrite`, `FailureRead`/`FailureWrite` | `_run_disposal` (its session opens after the agent's answer) |
| `HandlerReturns`, `ReportSuccess`, `ReportFails`, `ReportFailure`, `Crash`, `LeaseExpires`, `OperateTask` | `run_task_once` around the handler, recovery, the task centre |

The agent works between two transactions, so what a session has read may be old
when it writes. `loaded` is what it read, and `Flush` what a write does with it:
SQLAlchemy writes a column only if its new value differs from the loaded one.
`KeyTaken` is the other effect of an old snapshot: the insert of the proposal
meets a key that the second SELECT of `publish_event_record` cannot see, and
`scalar_one` raises. A review locks its row and is one step, and a commit
succeeds or the whole transaction did not happen. The run and the alert each
have a ticket of their own (`source_ref` differs), so one event can lead to two:
that is the code's meaning, and no property forbids it. Left to the module on
tickets: a deleted ticket with the same `source_ref`. Not modelled because
nothing calls them: `_enqueue_run`, `_publish_event`, and the status `disposed`,
which no code writes any more.

### TicketLifecycle

`TicketLifecycle.tla` is one ticket and the requests at work on it. No operation
locks the row, so each is a read (`Begin`, with the checks) and a write
(`Submit`, `Review`, `Issue`, `Start`, `Complete`, `Archive`), and any number of
them overlap; `Abort` is a request that ends in between, and `Delete` one step,
because its column is never set back. `stamps` are the columns `reviewed_at` to
`archived_at` that are set. `approved` is history. Not modelled:
`update_ticket_content`, which nothing calls, and the texts.

The status itself is not protected: a late submission takes an issued ticket
back to `pending_review`, and a ticket rejected between the check of
`issue_ticket` and its write is issued. What the module shows is what survives
that: `NeverIssuedUnapproved` and `TimesInOrder`.

### Knowledge base: KnowledgeGovernance, DocumentStore, EvidenceGap, KnowledgeEvolution

`KnowledgeGovernance.tla` has the metadata row beside each document, the issues a
scan derives from it (`LifecycleFindings`, `Conflicts` and `Findings` are its
functions as operators), the reviews and the edits. A scan
reads everything in one snapshot (`BeginScan`) and writes later (`CommitScan`); a
review holds the row lock of its issue from its read to its commit. How alike two
sentences are is a relation of the instance.

`DocumentStore.tla` follows one document name through MinIO, MySQL, Milvus, the
graph and the in-memory BM25 index: `BeginUpload`/`FinishUpload`,
`BeginParse`/`FinishParse`, `BeginVectorize`/`ClearVectors`/`FinishVectorize`,
`BeginRollback`/`FinishRollback`, `EditChunk`, `BeginDelete`/`FinishDelete`,
`BreakOff` for a store that fails. A text is named by the object it was parsed
from and the number of edits since, which is what the stores can disagree about.

`Chunking.tla` is what becomes of the text itself, one section per step: tables stay
whole (`CutTable`), text is cut into parents and each parent into children
(`CutText`, `SplitText`, `SplitLong`). A character knows the places of the original
it stands for, so that "nothing is lost" can be said through both cuts and through
the normal form of `Terms.tla`, which hides standard words behind placeholders,
replaces aliases longest first, and shows the words again. `Entangled` says which
vocabularies have an alias that shares characters with a standard word (inside it, or
ending as it begins): a text that is normal is no longer so once it is cut there. The sections' titles,
pages and boxes travel with the chunks and are left out.

`EvidenceGap.tla` is one row and its confirmation (`BeginSync`, `StoreFaq`,
`VectorizeFaq`, `CacheAnswer`, `MarkSynced`). The session of a confirmation has read
the row before it stores anything, and leaves an answer that equals the one it read out
of its UPDATE (`Answered`): an edit in between stays, in a row that is marked synced.
`rewritten` remembers that the answer was changed under a confirmation, and
`SyncedIsIndexed` names it. `KnowledgeEvolution.tla` the drafts of
one shared document, whose chunks are numbered by their count, and their review,
reflow and withdrawal.

### Backup and LogArchive

`Backup.tla`: a process dumps MySQL, Redis and Milvus one after the other into
files named after the second (`BeginDump`, `Save`), and writes the manifest last
(`Conclude`). MySQL is read in one transaction (`ReadTables`); the scan of Redis awaits
each key and passes over its errors, and Milvus' two collections are read through
iterators, so their items are read one at a time (`ReadItem`) while the program writes
(`Write`). A restore takes them back in the same way: Milvus is dropped and filled
again (`DropVectors`), Redis is filled over what it has (`BeginKeys`), item by item
(`PutItem`, `ReportItems`). The dumps of Redis and Milvus are therefore of no moment,
and `BackupIsOfItsTime` says of them what is left: nothing in them was never there, and
nothing that was there throughout is missing, unless a key's error was passed over
(`skipped`). Restoring MySQL is in closed form: the
first DROP is lost with the comment before it, so its CREATE fails and stops the
statements after it (`DropRuns`, `Recreated`). `span` remembers what each store held
while a process was at work. `LogArchive.tla`: the file first, the rows after.

### Operations: EventIntake, IdempotentRecords, BizCenter, TicketAudit

`EventIntake.tla` receives single events and Grafana's batches, sent again until
acknowledged, while mappings of devices change; event, alert, run, outbox entry
and task are one transaction (`Insert`), a repeated event is counted (`Count`).
`IdempotentRecords.tla` is the insert of a task or an outbox event with a key:
look-up, savepoint, unique key, second look-up in the first one's snapshot.
`BizCenter.tla` is the risk ledger that every page synchronises with the alerts
(`BeginSync`, `EndSync`), with urges, moves and the jobs. A run of the job writes its
status only where it is not the one it has read (`Noted`), so of two runs that overlap
the one that ends last may leave the other's status (`met`). `TicketAudit.tla` is the
audit inside a submission as functions of a ticket: what its text parses into
(`Parse`, checked against a definition without the loop), what the rules find, and
the score that approves; a line is its column, the section it opens where it is short
enough for a heading, and the words it has that a rule looks for. The first line of the
text is the task's, and it is scanned for headings like all others: a short task that
names the dangers opens their section, which `HazardIsAsked` names.

### Questions: QaCache, Retrieval, Answering, StreamAnswer, Conversations

`QaCache.tla` is a call through the three layers (`LookRedis`, `LookTable`,
`LookSemantic`), the check of the evidence (`Check`), generation and the writes,
table first; beside it documents change, dislikes invalidate layer by layer, and
questions enter the blacklist and leave it (`Unbar`, and `Evict`, because it is a key of
Redis like any other); workers that start warm Redis from the table
(`Warm`). A lookup in the blacklist that Redis does not answer allows the caches
(`First`, `Gate`), so that the table may serve a question that is on it:
`BlacklistForcesGeneration` is about the calls whose lookups succeed.
The kinds of call differ in the layers they may use. `Retrieval.tla` is `mixed_search` and `debug_search`, one request at a time:
recall, fusion, reranking, filter, cut, widening, gate, numbering. The filter knows
tenant, type and readers (`Admits`; a document's equipment is filtered as its type is).
A reranker that fails leaves the pool; one that answers without results empties it
(`Ranked`), which `SomethingIsAnswered` names. The fusion is
the formula with integer weights (`Scale`), the diversity selection any one that
keeps the best. `Answering.tla` goes from contexts to an answer with verified
citations, with the correction and the second round; a text is the marks of its
sentences. Grading may be switched off (`Ungraded`, `CRAG_ENABLE`). A reply that is JSON
lists what it cites itself (`listed`), and the verification then sees the items it lists
and not the marks of its text (`Items`): `MarksHaveChunks` is about the map there, and
about marks and map otherwise. `StreamAnswer.tla` is the order in which a stream shows, saves and
caches, with readers that leave. `Conversations.tla` has the turns, histories cut
to a limit and read by whole seconds, and deletions.

### AgentMemory, KnowledgeGraph, Accounts, RuntimeConfig, TokenLedger

`AgentMemory.tla`: a consolidation takes the facts of a reply in its order, as many as
there is room for and as no row says yet (`Taken`, `New`, `Plan`), writes
vectors (`Scatter`), then rows (`Commit`); a fact a reply names twice is written twice
(`doubled`), and a reply longer than the capacity that finds the memory full is taken
whole (`longest`); recall, forgetting, decay and the purge
of old rows. `KnowledgeGraph.tla`: extraction to rows (`StoreRows`) and then edges
(`Draw`), deletion in the same two steps, corrections by people, and questions
through the gate. `Accounts.tla`: administrators that change one column each in
the snapshot of their request. `RuntimeConfig.tla`: each document of settings in
Redis and its values in memory. `TokenLedger.tla`: the rows of the report and the
counters of the quota, which expire when they are not used and may be evicted before
(`Evict`: the deployed Redis is small and `allkeys-lru`). A check of the quota reads two
counters (`LookUp`, `Tell`) and allows when Redis fails at either.

### AgentStream, Debate, Lifecycle

`AgentStream.tla` is one run of the agent engine and the stream that reads its
queue; `Debate.tla` the experts and their judge; `Lifecycle.tla` one process from
`lifespan`'s first step to its last, with loops, workers, the patience of the stop
and the cancellation after it, kills and restarts. Loops are cancelled and not awaited
(`CancelLoops`, `LoopLeaves`), so one may still be letting go of what it uses while the
clients are closed. A round that fails is reported and the loop goes on (`RoundFails`),
but the cleanup of the cache imports its reporter in the round that first removes a row
(`purged`): before that the report itself raises, and the loop is gone.

### MCTaskQueue, MCKnowledge, MCOperations, MCServices, MCLive

Components that share no state are checked in one TLC run: the module
instantiates each of them, `focus` is chosen in the initial state, and the others
keep their initial states. The states of the run are the sum of the parts, not
their product, and no behaviour of a part is left out. Each property of such a
run is `focus = part => Part!Property`, and a name like `DocumentsSound` is the
conjunction of the type invariant and the named parts at the end of the module.
The MC modules declare what an instance has to choose as CONSTANTS: the cfg gives
them values, the proofs leave them open. The findings use the same modules with
other constants (`event_outbox_retry` is `MCLive`, `answering_unreranked` is
`MCServices`); only `MCKnowledgeGraph` is an instance of its own.

## Runs

| Run | Parts | Checks |
|---|---|---|
| `task_queue` | `TaskQueue!FairSpec` | types; nothing stranded; `LeasesHeld` (lease columns, exclusive claims, owners of the latest attempt); `OutcomesEarned` (success by the latest attempt, dead rows have used their attempts); `HistoryRespected` (only owner or expiry ends a lease, success is final); refinement of `TaskContract`; every accepted task is settled |
| `live` | outbox, agent, debate, process | `Settles`: every event is published or given up; `AllEnd`: a run reaches its reader, a debate its judge, a stop its end; budgets, single dispatch, earned deaths, due retries; calls answered, stream in order; debates need all experts; no work without what it needs, no worker with a closed client, loops that go on |
| `knowledge` | governance, store, cutting, gap, evolution, backups | trail of reviews, blocked is reported, metadata consistent; versions kept and numbered, vectors follow the text, deleted leaves nothing; chunks hold every character, fit, are in normal form and grouped by parent; answers backed, synced is indexed and served; nothing unreviewed, quota, withdrawn is gone; listed backups whole, MySQL of one moment and the others of items that were there, restored is restored |
| `operations` | ticket, proactive, overlap, disposal, outbox, queue, intake, records, ledger, archive, audit | nothing issued unapproved; event follows run, one generation, the ticket is the accepted draft, decisions final; done means answered; at-least-once; no task twice at once; intake once and acknowledged when stored; one record per key; the ledger keeps closings and urges; no log lost; the audit sees the lines under their headings |
| `services` | cache, retrieval, answering, streams, conversations, memory, graph, accounts, settings, usage | served was live, disliked is gone, blacklist; answers current, nothing twice, unanimous order; marks have chunks, confidence is earned; shown is saved, only whole answers; histories whole; capacity, no twins; rows and edges agree; an administrator remains; stored runs; counters cover the month, a used-up quota is refused |
| `task_queue_evolution`, `event_outbox_retry`, `proactive_ops_orphan`, `alert_disposal_once`, `backup_restore`, `answering_unreranked`, `kg_corrections` | one each | violations, see Findings |

### Bounds

The rule for all of them: two of whatever acts at once, because every race here
has two sides, the one that read and the one that wrote meanwhile; two values
where a property compares values; budgets of one and two, so that one side runs
out before the other; one failure that may strike anywhere. A bound of the number
of operations lets each property's interesting case happen, which the mutants
show: each property of each run is broken by at least one plausible change of the
code within these bounds.

Task queue. Two rows, because interference is between a row and its neighbour in
the claim's order (`t2` has the higher priority, `t1` starts later) and all other
conditions are about one row. Budgets 2 and 1 (what a request of 0 is clamped to)
let a row fail, be recovered and die, and `AttemptCap` 2 lets an operator retry it
after that. `MaxFaults` 1 puts a database error at any place; the proofs hold for
any number. The focus `queue` of `operations` takes the shortest lease that still
outlives a lost renewal; one tick less and it finds an overlap.

Outbox. The subscribers have budgets 1, 2 (and 3 in `live`), the event as many
attempts as the largest, so that a subscriber dies before, with and never before
the event. In `live`, rounding 0 or 1 ticks is the half
second a `DATETIME` column may add; `operations` has an operator's retry instead.
`MaxFaults` 2 in `live` allows a crash and another one during the recovery.

Alerts. Two answers of the agent, because an overwritten answer is only seen if
the next one differs, and two generations, so that a task of the first is still
about when the second is at work; the focus `overlap`, where leases expire at any
moment, has one of each, as its properties compare none. Tickets: four requests,
three that hold what they read while a fourth takes the ticket on.

Intake. Three events: an alarm, its recovery, and a malformed one that fails the
batch it is in, sent twice, while a mapping changes twice. Records: two callers,
two keys, three calls. Archive: two archivers and three seconds, so that two runs
fall into one second or into two. Audit: tickets of at most two steps, one
measure and one danger, in every layout of short and long lines.

Knowledge. Two documents that contradict each other, and patches that each break
one rule of the dates; five operations on a document (upload, parse, vectorise,
edit, roll back) with one edit, and three objects; two drafts and a quota of one;
two processes with three backups, restores, writes and deletions between them, one
table, two keys and one vector, so that a write falls between the two keys of a scan;
and two tables in `backup_restore`, where the first one's DROP is lost. Every text of five words, of three letters, a
sentence end, a line break, an alias and a standard word, cut at eight and five
characters with an overlap of two: long enough for paragraphs that are collected,
that close a collection and that are cut twice; with four vocabularies (`TheVocabularies`):
aliases that are words of their own, one that contains the standard word, two
inside it, and one that ends as it begins. The last two are `Entangled`.

Services. The cache has three setups (`TheSetups`): two calls on one question without the
semantic layer; two on two questions with it, because only then may one question's
answer be found for the other; and two on one question with a warm-up. The graph has
two extractions, a correction and a question. Four chunks in
three documents, one of them of another tenant, two of one document, so that
widening, gate and filter each have something to remove. A history limit of two,
one exchange, with three turns. A memory of capacity one and two facts, with
two overlapping consolidations of replies of one or two facts (`MaxBatch`), equal or not,
so that eviction meets decay and a reply names a fact twice or more than there is room
for. A reply lists nothing, the one number it cites, or numbers that have a context and
one that has none (`TheLists`). Two founders and a
third account that can be registered. Streams of an answer of two tokens with one
failing store. Two documents of settings with two values, one that cannot
be converted, and three updates or restarts. Months of three days and four days, so that
a counter outlives a month; two answers and quotas of one and two, so that the user's is
used up before the tenant's, and one eviction. Operations allows three synchronisations,
because a third run of the job shows what two that overlap have left.

Deadlock is checked where a system without work left would be an error (the
queue, the outbox in `live`); elsewhere a run ends when its bounded operations are
over.

## Assumptions about scheduling

Safety of the queue assumes nothing: a worker may stall at any point, so a lease
may expire under a live handler. `TimelyNext` and `TimelySpec` add that the event
loop carries out a renewal or a claim no later than the tick it is due (the
heartbeat is a task of its own and handlers await, so only a blocking call could
delay it), and for the outbox that a lease expires only once its holder is gone,
and that by then the backoffs are over: with the default budgets they last at most
256 seconds, a lease 300, less one interval of 30.

The focus `proactive` takes from the queue what `TaskQueue!NoOverlap` shows: a
lease does not expire under a handler at work. Without it the decisions of
reviewers are not protected, because the second transaction of
`process_proactive_run` looks at nothing before it writes; `DecisionFinal` and its
companions are claimed for it only. `AlertDisposal!SmoothSpec` excludes crashes
too, to show that its finding needs none.

Fairness is weak. In the queue and the outbox it is on the coroutines (claim,
commit, report, recover, walk) and on time: asyncio runs every ready coroutine,
and handlers are assumed to end. In `AgentStream` it is on the engine and the
delivery to a reader who stays, since every model call has a timeout; in `Debate`
on its steps; in `Lifecycle` on the steps of the stop only, and a handler need
never return. Nothing is assumed of people, crashes or database errors.
`TaskQueue`'s `Stop` requires another identity for the queue, which is the process
manager's restart.

## Proofs

`TaskQueueProofs.tla` proves for every set of tasks and workers, and every value
of the clock constants and bounds:

* `TypeCorrect`, `NothingStranded`, `LeasesConsistent`, `ClaimsExclusive`,
  `OwnersCurrent`, `SuccessesCurrent`, `DeathsEarned`, and their conjunctions
  `LeasesStayHeld` and `OutcomesStayEarned`: the invariants of the run `task_queue`;
* `LeasesRespected`, `SettledStaysSettled`, and their conjunction
  `HistoryStaysRespected`: the action properties;
* `LeaseExcludes`: with a timely loop, and a lease of at least
  `(MaxFaults + 2) * HeartbeatEvery`, no task runs twice at once;
* `QueueKeepsContract`: the refinement of `TaskContract`.

None of the invariants is inductive alone. That a late report is harmless needs
that the lease columns agree with the status (`LeaseConsistent`); that the owner
runs the latest attempt needs that a claim never takes a row whose run is still
its owner, which needs the lock (`ClaimExclusive`), and that the row is not
already owned; that success is by the latest attempt needs both and that a
worker in `completing` has recorded its return (`RunConsistent`). `IInv`
conjoins them with `TypeOK` and `FreshRows`, and there is a lemma per action that
it keeps `IInv`. The proof of `LeaseExcludes` adds `TInv`, which bounds the age
of the heartbeat of a row by its owner's `timer` and the faults spent so far. The
assumptions are `QueueAssumption` and `ClockAssumption`, which the runs
evaluate, and for `LeaseExcludes` the inequality of the constants, which is
stated in the theorem.

`TicketLifecycleProofs.tla` proves `TypeCorrect`, `IssuesApproved`,
`LifeCycleOrdered` and their conjunction `TicketsStaySound` for every set of
requests. The strengthening is that a status is evidence of the steps before it
(`Evidence`), in the row and in the hands of a request that has read it
(`ReadAccepted`): the time columns are never cleared, so an old read still proves
that its step took place.

`EventOutboxProofs.tla`: `DeliveryStaysSound` needs no assumption about time or
people. That `published` means every subscriber was reached needs that a delivery
which succeeded has returned (`SucceededReturned`) and what a session knows at each of
its stages, whoever writes meanwhile (`Knows`). `DispatchStaysSound` and
`SuccessIsFinal` are about timely leases without an operator (`MaxRetries = 0`,
because the run `event_outbox_retry` refutes them with one): by `TimelyInv` who works
holds the event alone, so what it has read is still so (`Holds`), a recovery finds the
run of the event over (`Recovers`), each delivery starts at most once in a run, and no
wait outlives the run (`RowsSound`). The backoffs are powers of two, and what `^` means
is unknown to the provers: what is used of it is `PowersOfTwo`, a hypothesis of those
two theorems that is true of every natural number.

`OperationsProofs.tla`:

* `RecordsStaySound`: a call's snapshot is part of what is committed (`CallOK`), an
  insert that is flushed is alone with its key (`FlushedAlone`), and a call that shares
  its key, or whose snapshot misses the row, is known to have met another
  (`KnowsRaces`).
* `ArchiveStaysSound`: archivers that come one at a time select rows that are still
  there (`OneArchiver`), a log is in one file, and in the table besides only until the
  archiver deletes it (`FilesApart`), and only old rows are taken (`OldOnly`).
* `DisposalStaysSound`: a stored answer is replaced by answers only, so who saw one or
  is about to report success is behind one (`AnswerBehind`).
* `RunsStaySound`, `DecisionStaysFinal`: the invariant has four parts: the locals of the
  sessions (`OpsLocals`); the rows, where event follows run (`OpsShared`); that a
  session at work is alone with the task of its generation and saw no answer of another
  (`OpsSessions`); and that draft, proposal, acceptance and ticket are one (`OpsStory`).
* `IntakeStaysSound`: what is counted of an event and the device it is attributed
  to (`EventOK`), what a request has read (`RequestOK`), and that two requests which
  store one event know of each other (`StoringApart`).
* `LedgerStaysSound`: no count is ahead of what was asked (`RiskOK`,
  `LedgerRequestOK`); while requests take turns, the count lacks no urge but the one
  under way, and what a person closed is not about to be written (`OneAtATime`). As long
  as no two runs of the job overlapped, the one under way has read the status that the
  job still has, so what it leaves out is what it would have written.

`KnowledgeProofs.tla`:

* `TrailStaysExplained`, `ReviewsStaySound`: a status is explained by the trail
  (`IssueOK`), what a scan has read is still there (`ScanOK`), and a review, which holds
  the lock, decides about the status the issue still has (`ReviewOK`). The dates of the
  metadata agree with one editor at a time (`OneEditor`), because `upsert_metadata`
  validates what it read without a lock (`EditOK`).
* `ReflowStaysSound`: what a request reflows was approved (`AskingOK`), requests that
  take turns find the drafts as they read them (`OneReflow`), and every vector is that
  of an indexed draft or of one being indexed (`VectorsKnown`).
* `GapsStaySound`: a request that stored its document knows it, and later that it can
  be searched (`GapRequestOK`); a confirmation has read the answer the row still has,
  unless it was changed under it (`GapReadOK`), so what its UPDATE leaves out agrees with
  its document (`RowBacked`); it has replaced what is served, and otherwise it is served
  as the row says (`GapServed`).
* `StoreStaysSound`: as long as requests take turns, what one has read is still so when it
  writes (`OneRequest`, `Faces`), versions are counted through and were accepted
  (`KeptVersions`); without a failure every object is that of the row, of a version or of
  an upload under way (`Rooted`), and the vectors of an idle row are those of its text
  (`Copied`). Whether requests overlap or not, every version was archived by a request
  that is over (`Counted`), which bounds the numbers.
* `BackupsStaySound`: a backup's span has what each store holds (`SpanOK`). A dump under
  way has met items that were there, and what was there throughout it has met, or is yet
  to meet (`HalfRead`); at its end nothing is left to meet, and its file has what a dump
  keeps (`Kept`, `Filed`), which further contents of the span cannot take back
  (`KeptOutlasts`). No two backups name one file (`Distinct`). A restore under way has put
  back what it has not left (`Refilled`), alone in the case of Milvus. What the steps that
  belong to no backup leave alone is a lemma (`Apart`).

`LiveProofs.tla`: `AgentStaysSound` follows the messages (`TalkOK`: the answers of a call
follow it, those it still lacks are at the end), the queue between the engine and its
reader (`StreamOK`) and what is learnt (`LearnOK`). `DebateStaysSound` needs that in the
first round nobody has heard an opinion (`DebateInv`). `ProcessStaysSound` says what is
behind each place of `lifespan` (`StartOK`), that a failure has its cause (`WorkOK`), and
what the stop has taken away or cancelled (`StopOK`).

`ServicesProofs.tla`:

* `SettingsStaySound`: a document without incidents has one update at most; memory and
  Redis agree until it is written, and then Redis has what it carries (`Clear`, `Agrees`).
* `AccountsStaySound`: what a request saw is still so unless another one about it has
  marked it (`Marked`, `StillSeen`), and what it may take away is not the last
  administrator (`Spares`).
* `CitationsStaySound`: a grade says what the evidence was (`GradeOK`), and where numbers
  were verified every entry of the map, and every mark left unless the reply listed what it
  cites, has its context (`AnswerOK`).
* `MemoryStaysSound`: the ids of a consolidation are its own (`IdsApart`), vectors are
  those of rows or of ids about to be committed (`InStep`), and a consolidation that
  does not overlap has room for its facts, none of which is active or, unless
  the reply named it so, twice among them (`InTurn`, `Fresh`). The
  capacity is a count: rows leave before rows come, and the argument is one of
  cardinalities.
* `ConversationsStaySound`, for any even limit of the history: an asked turn has saved
  its question and a finished one both (`SavedInOrder`), rows are stamped in the order they
  are written (`TimeGoesOn`), and where no two turns of a conversation overlapped and none
  broke off, its rows go in twos of one turn with nothing between (`Even`, `ShownWhole`).
  From that a chain of lemmas reads the history off: as long as no two exchanges share a
  second, rows sorted by time and, within one time, in any order, are turn after turn
  (`RowsAreTwos`), so that the latest `Limit` of them, turned around, are whole exchanges
  and leave no newer one out (`HistoryIsLatest`). What must be shown of every position of a sorted sequence is shown
  by its least counterexample (`Least`).

`QuestionProofs.tla`:

* `StreamStaysSound`, for answers of any length and any number of failing stores: where
  the stream is, and what it has left to do, determine what was sent and what was kept
  (`Hitting`, `Generating`, `Arrived`, `Refused`, `Finished`, `Broken`), and what is in the
  cache was shown whole (`CachedOK`).
* `CacheStaysSound`, for any questions, documents, numbers of calls and dislikes: what a
  call holds fits the place it is at, and a call that knows its question is barred goes
  past the caches (`CallsFit`), an answer is in the three layers as it was
  generated (`KeptOnce`), and for a question whose call no other call, dislike or warm-up
  crossed, what was disliked is in no layer, or only as a deleted row, and in no call's
  hands (`DislikesHold`).
* `GraphStaysSound`, for any documents and facts: extractions draw one fact at a time
  (`OneByOne`), an edge has a row that states it, or one the extraction under way is about
  to write (`StatedEdges`, `RowsDrawn`), and what an answer shows comes from documents its
  asker may see (`MayBeSeen`).
* `UsageStaysSound`, for any users, sizes, quotas and months: a counter was renewed no
  earlier than the latest row it took, and the tenant's no earlier than its users'
  (`Renewed`). So no counter expires while a row of the month is in it, and each is at
  least the sum of those rows, of which an eviction takes away all that the counter had.
  A check that began when the quota was used up has therefore seen it (`LooksTrue`). Sums are cardinalities of sets of units (`Units`, `Sum`), so
  that what a sum gains and loses with a row is a lemma (`SumGrows`, `SumShrinks`).

The theorems of the last five modules are about the composed specifications
(`OperationsSpec`, `KnowledgeSpec`, `LiveSpec`, `ServicesSpec`): each begins with the
part in focus and shows that the other parts leave it alone. The assumptions are
`OutboxAssumption`, `OperationsAssumption`, `KnowledgeAssumption`, `LiveAssumption` and
`ServicesAssumption`: sets, and kinds of model values that differ, as weak as the
code justifies. TLC evaluates them on each run.

Only model-checked:

* The liveness properties (`Settles` of both runs, `AllEnd`): the prover does not
  treat fairness and ENABLED.
* `AuditSound`, `RetrievalSound` and the cutting in `DocumentsSound` (its other part, the
  store, is `StoreStaysSound`), which are about what a fold or a recursive function
  computes from data: the library's induction theorems take an operator as a parameter,
  which no prover here can instantiate, and a definition with `LET` recursion cannot be
  expanded. An argument by the least counterexample
  (`WFMin` takes no operator) serves where positions of a sequence are compared, as in
  `ConversationsStaySound`, but not where the definition itself is out of reach.
* `MCOperations!DeliverySound` and `MCOperations!NoOverlap`, the instances of
  `DeliveryStaysSound` and `LeaseExcludes` in another composition; a theorem is not
  carried through an INSTANCE.

## Findings

* `task_queue_evolution`: the evolution scan is enqueued to the queue
  `evolution` (`services/knowledge_evolution_service.py:189`), but the workers
  serve `realtime`, `default` and `low` (`tasks/lifecycle.py:14`). The task
  stays queued.
* `event_outbox_retry`: `retry_event` reads and writes without locks. A
  dispatcher that claims the failed event in between and succeeds has its
  succeeded delivery reset to pending, and the handler runs again, against the
  comment in `models/domain_event.py:76`. By the same race the event can end
  pending with all attempts used, which neither a claim nor a retry accepts.
* `proactive_ops_orphan`: when the last attempt of a run's task ends by a crash,
  the task is dead and the run stays `running`: `retry_run` takes only failed
  runs. The design says a run left running is taken over.
* `alert_disposal_once`: a failed execution puts its excuse up for review and
  then raises, so the queue runs it again; a decision taken in between is
  overwritten. The design wants the task deduplicated by its disposal.
* `backup_restore`: the first statement of a dump is the comment and the first
  DROP in one piece, which `restore_mysql` skips as a comment
  (`services/backup_service.py:98`); the CREATE after it fails and nothing is
  restored, against the docstring at line 89.
* `answering_unreranked`: `_crag_correct` passes the setting `RERANK_ENABLE`, not
  whether the reranker answered (`services/qa_service.py:94`); when it is on and
  fails, scores of the fusion are graded as relevances, against `rag/crag.py:9`.
* `kg_corrections`: the router's corrections call two functions of
  `clients/neo4j_client.py` that do not exist (`routers/kg.py:122` and `:146`); the
  error is swallowed and the edge stays, against the docstrings.

Met on the way, in the models or read beside them, and no run is spent on them:

* One dead subscriber makes the whole event dead although others have attempts
  left (`EventOutcome`). A delivery created as due now may be due in half a second,
  because `DATETIME` rounds (`Rounding`). An alert closed while the agent works is
  set to `proposed` again (`StoreProposal`, `Alert!CloseDisposal`).
* The loser of two inserts of one key looks again in its old snapshot, and
  `scalar_one` raises (`services/task_queue_service.py:98-110`).
* Two columns are used that do not exist: `EvidenceGap.tenant_id` in
  `services/evidence_gap_service.py:353` and in `_extract_dislike` of the evolution.
* Withdrawing an AI draft deletes every vector of its key, and keys repeat after a
  withdrawal, because a chunk is numbered by the count of the chunks.
* `normalize` hides the standard words of the text from the aliases, not those it has
  put there itself (`services/term_service.py:37-39`). In the shipped vocabulary the
  alias "统仓" is inside the standard word "一盘货统仓统配", so "一盘货" becomes
  "一盘货一盘货统仓统配统配", where `README.md:542` has "一盘货统仓统配", and the second cut
  makes it longer again. An alias that ends as a standard word begins does the same to a
  word the first cut goes through. `StoredIsNormal` holds for vocabularies without such
  aliases, and names the others (`Entangled`).
* The cleanup of the cache ends for good if a round fails before one has removed a row:
  `degraded` is imported inside the function (`services/cache_persist.py:266`), so the
  report at line 269 raises. `cache_invalidate_for_doc_async` has the same pattern at
  lines 245-249; there the caller swallows it.
* Loops are cancelled and not awaited (`main.py:187-207`), so a round may still be at
  work while the clients are closed.
* The blacklist and the quota are not in force while Redis fails: both checks allow
  (`services/feedback_optimizer_service.py:266`, `services/cost_tracker_service.py:97`).
  Both are kept in a Redis that evicts any key (`docker-compose.yml:109`).
* A reply of the model that is JSON lists what it cites, and only that is verified: its text
  may carry marks that number no chunk, against `rag/citation_index.py:6`.
* A reranker's reply without results empties the pool, so the question is answered as if
  nothing had been found (`services/rerank_service.py:60`), although a reranker that fails
  leaves the pool as it is.
* An answer edited while `confirm_and_sync` runs with the answer it had read stays in the
  row, which is marked synced with a document that says something else: SQLAlchemy leaves
  out a column whose value has not changed (`services/evidence_gap_service.py:300`). For
  the same reason one of two overlapping runs of a job may leave out its status, and
  the other's stays (`services/biz_center_service.py:752`).
* A fact the model names twice in one reply is remembered twice, and a reply that finds the
  memory full is taken whole, however long (`services/agent_memory_service.py:125-149`).
* The golden answers are to be warmed from `golden_qa.json` in the working directory
  (`services/cache_warmup.py:64`); the file is `backend/data/golden_qa.json`.
* `mark_golden` takes a golden file it cannot read for an empty one and writes it
  back with one entry (`services/feedback_service.py:137-145`).
* The gate of the governance is applied after the cut to the top k, so blocked
  documents shorten an answer. `debug_search` skips widening and gate.
* After the retry of the citations, the confidence is still that of the first
  round's grade. A group mark such as `[1,2]` is not stripped.
* An edge two documents state belongs to the first one, and its deletion removes
  it for both; a failure of Neo4j is never made good, because the rows exist by
  then (`EdgesAreStated` and `RowsAreDrawn` name these limits).
* Forgotten facts are still recalled by their vectors until the purge. The order of
  messages of one second is open, because `created_at` has whole seconds.
* The agent's answers and those of the stream enter the cache without the check of
  their citations; the agent's are never served (`UncitedIsNotServed`).
* The counters called monthly carry no month: they live 31 days from their last
  use, so a user who asks every week is refused for good (`TokenLedger`); the check
  is called only by `routers/system.py:780`.
* Settings live in the memory of a process, so of four gunicorn workers one takes
  an update at once. Settings an update does not name are lost at the next start,
  and a value that cannot be converted hides the ones after it (`Loaded`).
* The stop's patience of five seconds ends in cancellation, but `wait_for` then
  waits for the cancelled handlers (`Drained`).
* In the audit of tickets a line of at most 14 characters that names a section is taken for
  its heading and dropped, the task's own line included (after a task "检查危险点" what
  follows is listed as dangers, and the rule that asks for them is content), long lines before any heading are dropped too, and an empty task
  takes the text of the next line (`TicketAudit`).

## Plan

Modelled and checked: all modules above. What is left, in this order:

1. An abstract outbox for `EventOutbox` to refine, as `TaskContract` is for the queue.
2. `EvidenceGap`, `KnowledgeEvolution` and `DocumentStore` write the same tables;
   their variables have the same meaning, so that a composition over shared ones
   can replace the separate parts of `MCKnowledge`.
3. The editing of the vocabulary by several workers, each with its own copy; the
   expansions of a question; the lookup of permissions.

## Not modelled

* Prompts, LLM calls and text extraction: no state, and nothing to
  check but wording. Embeddings and their scores: real numbers; an order or a choice
  stands for them.
* The optional expansions of a question (several queries, HyDE, RAPTOR,
  self-assessment) and the plugin hook.
* Reads of Neo4j that belong to no tenant (paths, hubs, statistics), aggregations
  of twin, metrics and boards: queries without state of their own.
* Sessions shared by two coroutines (the evaluation of an answer, the experts of a
  debate): what the driver does then is not in this code.
* Code nothing calls: `_enqueue_run`, `_publish_event`, `update_ticket_content`.
* Realtime push, MCP, providers, content safety, evaluation, routers, the frontend
  and deployment files. PROJECT.json lists each part with its reason.

## Running

    tlc -workers 2 -config TaskQueue.cfg MCTaskQueue.tla
    tlc -workers 2 -config Live.cfg MCLive.tla
    tlc -workers 2 -config Knowledge.cfg MCKnowledge.tla
    tlc -workers 2 -config Operations.cfg MCOperations.tla
    tlc -workers 2 -config Services.cfg MCServices.tla
    tlapm TaskQueueProofs.tla
    tlapm TicketLifecycleProofs.tla
    tlapm EventOutboxProofs.tla
    tlapm OperationsProofs.tla
    tlapm KnowledgeProofs.tla
    tlapm LiveProofs.tla
    tlapm ServicesProofs.tla
    tlapm QuestionProofs.tla

Each of the five runs takes one to five minutes, each proof module up to fifteen; the
runs of the findings, whose configurations are named after them, take seconds.
