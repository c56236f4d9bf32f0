# RegRadar: specifications, model checks and proofs

RegRadar collects regulatory documents (uploads, the Bank of Russia feed, local
seed files), deduplicates them by the hash of their text, has an AI service
analyse each one into a regulatory event, works out which clients the event
concerns and notifies them. Two programs do it: a .NET backend (`src/src`: API,
background worker, PostgreSQL through EF Core) and a Python AI service
(`src/regradar_ai`: LLM gateway, event cards, RAG chat, JSONL storage).

This directory holds TLA+ modules of both: the document pipeline, the impact
recalculation, the hosts and the notifications of the backend; the analysis
endpoints, the contents of their replies, the knowledge store, the chat and the
mock delivery of the AI service. TLC configurations check them on small
instances; TLAPS proofs hold for every instance. `PROJECT.json` maps every
definition to the lines it models.

## Inventory

### The .NET backend

| Component | State | Operations | What is hard | What makes it correct |
|---|---|---|---|---|
| `DocumentProcessingService` | Documents, DocumentVersions, DocumentChunks, RegulatoryEvents, ProcessingJobs, LLMCallLogs, Sources; raw files; one EF Core change tracker per request or batch | `IngestAsync`, `ReprocessAsync`, `RunAiAnalysisAsync` | several requests on one text; a catch block that writes whatever the tracker reaches; failure after each commit; crash between saves | one document per text, one event per document, jobs and logs that tell what happened, a status that can be explained |
| Ingestors, `IngestionController`, `IngestionWorker` | none of their own; a batch shares one DbContext | one ingestion run: Bank of Russia items, then seed files; timer | stale tracker from one item to the next; timeouts taken for shutdown | a run ingests what is new and survives a bad item |
| `ImpactService`, `RuleBasedImpactAssessor` | ClientImpacts | `RecalculateAsync` from the pipeline and from `POST /impacts/recalculate` | read, delete, insert without a lock | the impacts of an event are those of one assessment of all clients |
| `BitrixNotificationSender` | Notifications | `SendAsync` | timeout or crash between the webhook's effect and the row | the journal records every attempt |
| Start-up (`Program.cs`, `SeedData`) | schema, demo clients | migrate, seed | API and worker start together; a failed step is only logged | demo clients once; a worker that came too early recovers |
| Text processing | none | extract, normalise, hash, chunk | boundaries of the last chunk | chunks cover the text with the configured overlap |
| AI and chat clients | last provider and model | `AnalyzeAsync`, `AskAsync` | timeout against a late answer | an error is an exception, never a half-filled result |
| Profiles, sources, DTO mapping, web page | ClientProfiles, Sources | CRUD, formatting | duplicate `Sources.Type` | |

### The Python AI service

| Component | State | Operations | What is hard | What makes it correct |
|---|---|---|---|---|
| LLM gateway | last warnings, calls, latency | `generate_structured` | retries, errors that must not be retried | at most `max_retries + 1` calls, one log record each |
| Analysis, event cards | none between requests | `analyze_document`, `full_ai_analysis` | language retry, fallback, review state | a fallback is never presented as reviewed |
| `POST /analyze` | executor threads | `analyze` | the deadline answers while the thread goes on | at most one answer; late work is harmless |
| RAG context store | LRU map of 50 contexts | put, get | eviction, concurrent requests | a bounded map of the newest contexts |
| JSONL repositories | append-only files | save, get latest | appends one by one, deduplication outside the lock | the latest record wins; a save is idempotent |
| Notification safety | delivery records | validate, record | an unreadable journal looks like an unknown document | a message goes to a client that an analysis listed |
| Impact scoring, matching, reconciliation | none | pure functions | an untrusted provider; tags that hide declared flags | what the text does not say raises no alarm and names nobody |
| Chunker, prompts, evaluation | none | pure functions | thresholds | |

Components interact by method calls inside one dependency-injection scope (one
scope, one DbContext), through the PostgreSQL tables between scopes and
processes, through the raw-file directory, and by HTTP between the backend, the
AI service and the Bitrix webhook.

The hazards this code is exposed to are listed in `PROJECT.json` under
`hazards`, each with its line and the properties that watch it, or the reason
why none does.

## Modules

| Module | What it is |
|---|---|
| `DocumentPipeline` | the detailed specification of the document pipeline, its properties, and mutated forms of its actions (used to test the properties) |
| `DocumentLedger` | the abstract specification: what the pipeline promises its callers |
| `MCDocumentPipeline` | symmetry for TLC |
| `DocumentPipeline_proofs` | the types, and the invariants and the action property about the document status, for all constants |
| `DocumentLedger_proofs` | deduplication, the pipeline implements the ledger, jobs, raw files, call logs and attempts, for all constants |
| `ImpactRecalculation` | the detailed specification of concurrent impact recalculations, the assessor, its properties and mutated actions |
| `ImpactBoard` | the abstract specification: whole assessments replace one another |
| `MCImpactRecalculation` | the mentions of the instance and symmetry for TLC |
| `ImpactRecalculation_proofs` | the types, the safety invariants, the action property, and the recalculation implements the board, for all constants |
| `AnalyzeEndpoint` | analyses in the AI service: worker threads, the event loop, the deadline, the gateway's attempts, the fallback, what is saved |
| `MCAnalyzeEndpoint` | the provider's outcomes in each instance |
| `AnalyzeEndpoint_proofs` | the types, the safety invariants and the action property, for all constants |
| `Selection` | sorting and filtering a list, in a form the provers can reason about |
| `Selection_proofs` | what a sorted list and a filtered list contain, and in which order, for all lists |
| `ImpactRules` | the domains of a document and the score of its impact, as pure operators |
| `ClientMatching` | which clients an event concerns, as pure operators over `ImpactRules` |
| `AnalysisContent` | what a reply of the AI service is made of, from the text to the answer, with an untrusted provider |
| `MCAnalysisContent` | texts, provider answers, profiles and requests of the instance |
| `AnalysisContent_proofs` | the types, the scoring rules, what a reply quotes and whom it names, for all constants |
| `JsonlFile` | an append-only JSONL file and what a cut-off write leaves in it |
| `AiKnowledge` | what the AI service keeps of its analyses, the chat and the mock delivery over it, on `JsonlFile` |
| `MCAiKnowledge` | documents, texts, questions and messages of the instance |
| `AiKnowledge_proofs` | the types, the safety invariants and the action property, for all constants |
| `BackendHosts` | the API's start-up and the ingestion worker beside each other |
| `NotificationDelivery` | `POST /api/notifications/send`, its webhook and journal, on `BackendHosts` |
| `MCNotificationDelivery` | model values for TLC |
| `NotificationDelivery_proofs` | types and safety of the hosts and the delivery, for all constants |

The pipeline takes the recalculation as one step that succeeds or throws, and
records only that it happened; `ImpactRecalculation` opens that step. Its AI
call, which answers or fails at any moment, is what `AnalyzeEndpoint` opens from
the other side: the two programs share no state but that call. What that answer
contains is `AnalysisContent`, what becomes of it afterwards `AiKnowledge`; both
take the provider's attempts as done. `BackendHosts` ingests an item of the feed
in one step, which `DocumentPipeline` opens, and `NotificationDelivery` replaces
one impact at a time, which `ImpactRecalculation` opens.

### DocumentPipeline

A *session* is one dependency-injection scope: an upload request, a reprocess
request, or a batch (one iteration of the worker, or one `POST
/api/ingestion/run`), which handles several items through the same DbContext.
`pc[s]` names the await a session stands at; an action is the code up to the
next await another session can observe. An *operation* `<<s, i>>` is the i-th
item of a session; the jobs it inserts and the raw file it saves are named
after it. A document is identified with its normalised text, since
`Documents.TextHash` is unique; SHA-256 is taken as injective.

| State | Code |
|---|---|
| `docs` | `Documents`: `ProcessingStatus`, the Source row, `RawFilePath` |
| `events`, `impacts` | `RegulatoryEvents` (unique `DocumentId`); the events whose `ClientImpacts` were computed |
| `ingestJobs`, `aiJobs` | `ProcessingJobs` of the two types |
| `llmLogs` | `LLMCallLogs`, counted by status |
| `sources` | `Sources`: type and inserting session, since nothing makes the type unique |
| `files` | the raw-file directory |
| `mem`, `tracked` | the change tracker: in-memory status of tracked Documents, tracked Sources |
| `local` | local variables: the chosen Source, EF's original value of the status, the attempts number |
| `req`, `result` | what each operation was asked and answered (`Error` is an exception that leaves the service) |

Actions follow `IngestAsync` (`StartIngest` to `CompleteJob`, the two forms of
its catch in `RecordFailure` and `RecordLinkedFailure`), `ReprocessAsync`
(`StartReprocess`, `RequestAnalysis`) and `RunAiAnalysisAsync` (`CountAttempts`
to `Recalculate`, its catch in `RecordAiFailure`). `StartThrows`,
`IngestThrows`, `ReprocessThrows`, `AiThrows` and `CatchThrows` are database
errors and cancellations at each await, sent to the catch block that receives
them; `Crash` is the death of the API or of the worker process.

Three behaviours of EF Core carry the model:

* A query that returns an entity the DbContext already tracks keeps the tracked
  values (`FindDuplicate`).
* A save writes a property only if it differs from the value it was loaded with
  (`SaveEvent`).
* `ProcessingJobs.Update(job)` marks the whole graph reachable from the job as
  modified: the job's Document, its Source when tracked, and every tracked
  Document of that Source (`Reachable`). The catch blocks clear the tracker and
  then call it, so recording a failure writes the in-memory status of all of
  them (`Rewritten`).

### DocumentLedger

An ingestion registers a text at most once, a registered text is analysed at
most once, `Created` is told to the ingestion that registered the text and
`Duplicate` only to another one that came later. `DocumentPipeline` implements
it under the mapping `LedgerOwner` (the raw file the document row names),
`events`, and `LedgerAnswers` (failures tell the caller nothing).

### ImpactRecalculation

A session is a `POST /api/RegulatoryEvents/{id}/impacts/recalculate` request or
the analysis of an event, which recalculates right after it has saved the event
and is named after it. `RecalculateAsync` awaits four times: the event, the
profiles, the existing impacts, the save. It takes no lock and opens no
transaction, so any other session may act between two of them.

| State | Code |
|---|---|
| `clients` | `ClientProfiles`: the risk factors that apply to each, in the order of addition; profiles are never changed or deleted, so a query returns a prefix |
| `events`, `impacts` | `RegulatoryEvents`, `ClientImpacts` |
| `pc`, `about` | the await a session stands at, the event it recalculates |
| `seen`, `old` | the profiles its query returned (how many), the impacts it loaded and marked for deletion |
| `answer` | what the caller got: `OK` is the list of inserted rows |

The save deletes the loaded rows and inserts the new ones in one transaction.
EF Core compares the number of deleted rows with the number it expected
(`RowsGone`), and the unique index on event and client refuses a row whose
client still has one (`RowsTaken`): `Conflict`. The provider reports transient
errors and deadlocks as `InvalidOperationException`, which the controller
answers with NotFound, as it does for an event that does not exist; `Throws`
also covers a save that committed before the connection was lost.
`HitFactors` and `Level` are the assessor's rules: which keywords make an event
mention a factor and which profile fields make it apply are data (`Mentions` and
the members of `clients`).

### ImpactBoard

The impacts on record for an event are always one whole assessment, made from
the profiles as they were at some moment, and replaced at once by another; a
caller is told the assessment that went on record, or that nobody is affected.
The latter needs a step of its own: a recalculation that loaded no rows and
inserts none commits nothing, and another may have put rows on record meanwhile.
The mapping is `OnRecord` (rows without their writer) and `ToldList`.

### AnalyzeEndpoint

One uvicorn process has one event loop. `POST /analyze` (`Calls`) gives its
analysis to the loop's default executor and waits for it with
`asyncio.wait_for`; the endpoints `full-analysis`, `upload-analysis`
(`FullAnalyses`), `create-card`, `create-card-from-document` and
`upload-create-card` (`Cards`) are coroutines that run the same synchronous code
on the loop and hold it until they answer (`loop`).

| State | Code |
|---|---|
| `queue`, `Working` | the executor's FIFO of work items; the workers in use |
| `pc` | where an analysis stands: queued, in a provider call, at `get_last_gateway_execution` (`read`), in the handler of `SAFE_FALLBACK_ERRORS` (`fallback`), before each piece it saves, ended |
| `operation`, `tries` | the `generate_structured` call (first or language retry), its failed attempts |
| `made`, `log` | the audit records of each analysis in order, a position standing for the uuid of the record; the records that reached `llm_calls.jsonl` |
| `execution` | `_LAST_EXECUTION`, one per context |
| `report` | `llm_call_ids`, `fallback_used` and the `*_saved` flags of the answer |
| `stored` | what was appended to the JSONL files and put in the context store |
| `setup` | whether the key and the prompt are there: the same for the life of the process |
| `age`, `elapsed` | ticks since `wait_for` started, and of the current attempt |

An attempt ends `valid`, `foreign` (a usable answer in another language), with a
failure that is retried (`timeout`, `error`: unavailable, unreadable or not of
the schema) or with the configuration error that is not. `Expire` cancels work
that is queued; work that runs goes on, saves what it makes, and keeps its
worker. A result that is there when the loop gets to it is returned even past
the deadline (`Deliver`), as `wait_for` of Python 3.11 does.

Time: a tick passes only when nothing can run, that is while every analysis
waits for the provider, for a worker or for the loop, and the due callbacks of a
free loop have run. Code between waits takes no time against ticks of a minute.
`SlowestAttempt` bounds an attempt, which in the code httpx bounds only by
network operation.

### AnalysisContent, ImpactRules, ClientMatching

One request to one of the six endpoints that analyse a text, `stage` by
`stage`: whose profiles (`IdentifyDocument`, `ResolveProfiles`), the analysis by
a provider or by the controlled baseline, the impact, the clients, the drafts,
the card, the links from evidence to chunks, the reply. Requests share no state
here, so one is enough.

| State | Code |
|---|---|
| `setup` | `MAIN_BACKEND_URL` and `MAIN_BACKEND_ALLOW_SEED_FALLBACK` |
| `request` | endpoint, text, the clients it names, whether the demo clients may be used |
| `clients` | the resolved profiles |
| `analysis`, `impact`, `listed`, `drafts`, `evidence` | `DocumentAnalysis`, `ImpactAssessment`, `ClientRelevance`, `NotificationDraft`, `EvidenceFragment` |
| `answer` | what the endpoint replies, for `/analyze` after `OnlyAllowed` |

A text is a sequence of pieces, each the set of what it says: a marker of a
domain, a signal that `assess_impact` looks for, a keyword of an obligation or
penalty, a date. Some pieces end a sentence and some a chunk, so that a quotation
may cross the end of a chunk. A provider's answer is any value the response
schema accepts (`Answers` has no other assumption); what it quotes that is not
in the text is `Invented`. `_verbatim_items` keeps what is not empty and stands in
the text, so a quotation of whitespace only (`Space`) passes and stands for the
baseline's fragments; `create_event_card` drops it. Every text is taken to have
whitespace somewhere, and any two such quotations to be one. A date is its wording.
`_map_key_dates` searches for it without asking where a number starts: `Spelled`
gives the dates whose wording occurs in that of another, as "1 октября 2026" does
in "11 октября 2026", and `Occurring` what such a search finds. The scores, caps, floors, thresholds, the order of the
domain rules and the points of each rule are those of the code. What the code
sorts or filters is `InOrder` or `Picked` of `Selection`.

### JsonlFile and AiKnowledge

`JsonlFile` says what `append_jsonl` and `read_jsonl` make of a file: a write
that is cut off leaves a torn line to which the next record is glued, or half a
character, after which `read_text` raises for good.

`POST /analyze` saves in a worker thread, so its steps interleave with
everything; the other endpoints hold the event loop until they answer (`loop`).

| State | Code |
|---|---|
| `file` | the five JSONL files |
| `contexts` | `_contexts`, oldest first |
| `job` | an analysis: document record, the read of the existing chunks, chunk after chunk, event card, context |
| `chat`, `sent` | an ask with what it retrieved and cited; a send with its outcome |
| `saved`, `tears`, `overlapped` | history: records reported saved, lines torn, documents saved by two analyses at a time |

A write that is cut off, a read that fails with `OSError` and a crash share one
bound (`MaxMishaps`).

### BackendHosts and NotificationDelivery

`api` and `worker` are where the two processes stand; nothing orders their
starts (docker compose makes both wait for PostgreSQL only) and nothing restarts
them. `Migrate`, `LookForClients` and `InsertDemoClients` are the three awaits of
the API's start-up; `StartupFails` is their common `catch`, which logs and
serves. The worker's iteration is the feed (`FeedAnswers`, `ReadFeed`, then item by
item), the seed files, the timer. An error in an item ends the item, an
exception of a query ends the ingestor, a timeout of the feed ends the host.

A request (`send[s].pc`) is at one of its four queries, at the webhook, at the
save, or answered. `received` is what the webhook got, `journal` the table;
`explained` is the explanation on record for an event and a client, which
recalculations change meanwhile. `CrashApi` loses the requests under way (`Lost`).

## Runs

| Run | Instance | What it shows |
|---|---|---|
| `pipeline_requests` | 2 uploads, 2 reprocesses, 1 text, 1 database error, 1 crash, symmetry | types; `CreatedOnce`; success in a job means the document, event and impacts exist; logs agree with jobs; without errors no job is left Running; raw files accounted for; attempts numbering; the pipeline implements `DocumentLedger` |
| `pipeline_fair` | 1 worker batch of 2 items, 1 reprocess, 2 texts, a Seed source, 1 database error, 1 crash, fairness | every status is explained by an event or a recorded failure, also when the change tracker outlives an operation; a status leaves Completed only in a step that records a failure; Running AI jobs are settled |
| `impact_races` | 1 event with its analysis, 2 requests, 2 factors, 3 profiles, 1 database error | types; the impacts of an event are never a mix of two recalculations; recalculations do not all fail against each other; a client loses an impact only to a recalculation with an older view of the profiles; the recalculation implements `ImpactBoard` |
| `analyze_endpoint` | 2 calls, 1 full analysis, 1 worker, 1 retry, a deadline of 2 attempts, 1 append error, fairness | types; an answer's call ids are exactly its own records; the baseline is used only when every attempt due was made; nothing is asked after a valid answer or a configuration error; saved flags tell what the files hold; a call that timed out in the queue leaves nothing; every call is answered |
| `analysis_content` | texts of 3 pieces on 6 domains and none, 6 endpoints, 4 clients, 4 dates, 72 provider answers | types; replies quote the text and link evidence to a chunk that holds all of it, and a card lacks evidence only where nothing but whitespace is quoted; no alarm above a domain's cap without a penalty that stands in the text; nobody is named who was not given; only the text and the declared exposures decide who of the main backend's clients is |
| `ai_knowledge` | 2 analyses, 1 ask, 1 send, 3 documents, 3 texts, 1 mishap, a context store of 1, symmetry | types; each torn line costs at most one record reported saved; stored chunks follow the latest text; the chat finds nothing in a document only if a later record with other text replaced each saved chunk that would answer, whatever was evicted or restarted; messages go to clients an analysis listed |
| `notification_delivery` | 1 send, 1 feed item, 1 demo and 1 added client, 1 stored and 1 unknown event, 1 explanation, 1 failure, 1 crash, fairness | types; the journal tells what the webhook received; messages go to whom they were asked for with an impact on record; the demo clients are inserted once; feed items reach the store |
| `loop_blocked` | 1 call, 1 full analysis, the default limits | violated: no 504 while a full analysis holds the loop |
| `pipeline_awaiting_ai` | 1 upload | violated: a failed analysis leaves the document Processing |
| `pipeline_seeds` | 1 ingestion run | violated: a new seed document is never stored |
| `pipeline_reprocess_ok` | 1 upload, 1 reprocess, 1 database error | violated: a reprocess answers OK without an event |
| `torn_character` | as `ai_knowledge` | violated: an append cut inside a character loses later results |

Bounds. In the pipeline two sessions of a kind give every race on one text the
code can lose: lookup against insert, event against event, count against insert,
stale tracker against a commit; a third session meets the same tables. One
database error reaches each failed await alone, and with an AI failure (unbounded
in the model) also a failure inside a catch block's aftermath; one crash reaches
each point between two saves. Two items and two texts per batch are the least
with which a tracker holds a document that is not the current one, and the
reprocess is the session that changes the tables behind it. Sessions of one
kind and texts are interchangeable, so the requests run uses symmetry; runs with
a liveness property do not.

In `impact_races` three sessions are a writer of the rows on record, one that
replaces them and one that had loaded them; two factors are what tells Medium
from High, and with three profiles two assessments can overlap, be disjoint or
one contain the other. Recalculations of different events touch different rows,
so one event shows every race; the proofs have no such bound.

In `analyze_endpoint` one worker makes the second call wait behind the first;
the blocking analysis can come at every point of both. One call meets all
outcomes, the second only timeouts and the blocking one only a valid answer
(`MixedOutcomes`): what an analysis does next depends on its own attempts, and
the others are there to hold a worker, the loop or a context. One retry gives
every attempt position (first, middle, last) over the two rounds. `error` is
handled as `timeout` is, but takes no time, so the run leaves it out.
`loop_blocked` takes the defaults: attempts of 60 s, two retries, 120 s.

In `analysis_content` three pieces give every relation of a quotation to the ends
of sentences and chunks (inside, across, both). The limits `MaxItems` 1,
`MaxFragments` 2, `MaxEvidence` 2 and `MaxDates` 2 are smaller than the code's 5, 20,
5 and 3 so that three pieces can exceed them: one text states three dates, the first
twice. The six domains are those with a floor, a
cap or evidence rules of their own and one of those without. A provider's answer
omits, repeats or invents a penalty, an obligation and a quotation, gives whitespace
for one, names the wrong domain, and gives two dates of which one is invented and one
the end of a date that the text states; the profiles are one for each way in which a client
becomes relevant or fails to.

In `ai_knowledge` two analyses are a version of a document and another, or two
that are saved at once; the longer text has the chunk that the shorter lacks, the
third text has a line separator in its only chunk. One context is the least that
makes a second document evict the first; chunks that come with a question about no
document are kept under an id of their own, the third document; one mishap meets every append and read.

In `notification_delivery` one request meets every state of the start-up and every
recalculation, and one failure and one crash meet each of its awaits; requests do
not read each other's rows. Profiles other than the demo ones can be added before
the demo clients are looked for, since one start may fail before another.

Fairness. `FairSpec` of `AnalyzeEndpoint` has weak fairness of each analysis
(threads are scheduled, an attempt ends by its timeout), of idle workers, of the
loop's callbacks for each call and of time. It assumes nothing of arrivals; the
loop is not fair to anyone while a blocking request holds it. `FairSpec` of the
pipeline has weak fairness of `Continue(s)` for each session: once
an operation has begun, the thread pool resumes it, database commands time out
and the AI call has a timeout. Nothing is assumed of `Start`, of errors or of
crashes: nothing obliges a client to call. `HostsFairness` is weak fairness of the
worker's own steps and of its timer. `ReadFeed` is not among them: `GetStreamAsync`
returns with the headers, and the client's timeout does not cover the body, so
the property has to except a worker that reads forever. Failures are bounded,
which stands for failures that end.

Deadlock. Every run checks it; a state in which every session has stopped or
used up its requests is the step `Quiet` or `Done` of its module.

## Findings

* A failed analysis does not leave the document in `AwaitingAi`
  (`Docs/API-для-AI-модуля.md:136`): `Update(job)` writes the in-memory status.
* New seed documents cannot be stored (`Docs/API-для-AI-модуля.md:181`): the source
  catalogue has no entry for `SourceType.Seed`.
* A reprocess whose event could not be saved answers OK, because the answer is
  taken from the in-memory status (`DocumentProcessingService.cs:225`).
* The worker thread does not let the HTTP layer enforce the deadline of
  `/analyze` (`contract_router.py:46-47`) while another analysis endpoint runs on
  the event loop (`main.py:165`).
* A storage error can destroy a result (`AI_MODULE_PIPELINE.md:469`,
  `AI_SERVICE_INTEGRATION.md:123`): `read_jsonl` catches `OSError` only, and a line
  cut inside a character makes `read_text` raise `UnicodeDecodeError` from then on.
  `/analyze` answers 400 for it, the other endpoints 500 (`torn_character`).

## Observations

Behaviour that the models have and no document contradicts, but that a reader of
the code may not expect:

* With the default limits a provider that times out leads not to the baseline but
  to 504: three attempts of 60 s outlast the deadline of 120 s.
* A listed client always has relevance `high`: matching a domain and its factors
  already gives 75 points (`RelevanceScore`).
* A client's tags replace its declared flags as soon as there is one. Profiles
  from `GET /api/clientprofiles` always have a `size:` tag, so a client known only
  by a high risk level is listed for an AML text by `/analyze` and not by the
  integration endpoint; the tag `cash_operations` contains no AML marker, while
  every bank segment contains `bank` (`ExposedTo`).
* The dates of a provider are not checked against the text except in `/analyze`;
  invented ones are worth at most 10 points, and the integration endpoints report the
  first as the effective date. `/analyze` searches for a substring
  (`backend_contract.py:236`): a date that is the end of one the text states passes
  ("Do not expose a date that cannot be grounded in supplied chunks", line 238).
* A provider's fragment of whitespace only keeps the baseline's fragments out, and the
  card has no evidence (`NO_DATA_REASON`); listed as a penalty, whitespace adds the
  points of one and lifts the cap of the domain. That a quotation listed as a penalty
  states a consequence is not checked at all (`AlarmNeedsConsequence`).
* `mock_send_notification` accepts an event id of another document and then checks the
  client against that event (`EventFor`).
* An empty list of the main backend is reported as 503 "MAIN_BACKEND_URL is not
  configured".
* Chunks beyond the end of a shorter new version stay readable, and uploads with
  the same file stem share a document id.
* A record with U+2028 or U+0085 is written as one line and read as two: it is never
  seen again (`whole`).
* A timeout of the feed ends the worker's host for good, and a feed that stops in
  the middle of its body holds the worker for good; compose has no restart policy.
* A webhook timeout leaves a delivered message without a row; a transient error
  after the delivery is answered NotFound.
* A failed migration or seeding is not tried again until the next start.

## Proofs

The proofs hold for every value of the constants that satisfies, for the pipeline,
`SessionsAssumption` (finitely many sessions of disjoint kinds; `None` is
neither a text nor an operation) and `BoundsAssumption` (the bounds are naturals, at least one item per
batch), for the recalculation `RecalculationAssumption` (requests are not events,
finitely many factors), for the endpoint `AnalyzeAssumption`, for the replies
`ContentAssumption` and `AnswersAssumption` (a provider's answers are of the
schema), for the knowledge `KnowledgeAssumption`, for the delivery `HostsAssumption` and `DeliveryAssumption`; the runs evaluate all of them.

* `TypeCorrect`: `Spec => []TypeOK`. `TypeOK` is not inductive: that a failure
  writes a legal status needs that the session tracks its document from the
  query that returns it on, that a session under way has a request, and that
  only ingestions reach the awaits of `IngestAsync`. `SessionOK` adds these, and
  `TypeInv` is preserved by every action, one lemma each. Lemmas shared by the
  actions: `StepOfOne` (a step of one session leaves the others' facts alone),
  `MoveType` (a step that only moves it), `FinishType` and `FinishAiType` (the
  end of an operation), `RewrittenType` (what recording a failure writes),
  `JobSettled`.

* `StatusExplained`, `NoDriftWithoutFailure`, `RegressionRecorded`
  (`StatusTraceable`, `DriftNeedsFailure`, `RegressionIsAFailureWrite`). The
  table's statuses come from change trackers, so the invariant has to say what
  those hold: `MemExplained`, every tracked status other than `AwaitingAi` is
  explained by an event or a recorded failure, unless it is that of the document
  the session is analysing; `MemStored`, only stored documents are tracked;
  `AiStarted`, the AI job names the document and the status EF loaded was
  explained, which is what `SaveEvent` needs when EF omits the status from the
  update; `Unfailed`, the jobs of operations under way or to come have not
  failed, so that the save of a failure is seen in a job and no recorded failure
  is ever overwritten (`JobsKept`). `StatusOfOthers` carries the other sessions
  over a step, `RecordStatus` is the argument for the save of a failure: all it
  writes comes from the tracker, where the only unexplained status is that of
  the document whose job the same save marks Failed.
* `IngestionDeduplicates` (`CreatedOnce`). `DedupInv`: an ingestion past its
  store owns the document (`Owns`), one before it, or one to come, is named by no
  document (`Fresh`), answers given are right (`AnswerOK`). The save of a failure
  rewrites only documents that exist and leaves their raw file (`RewrittenKept`).
* `PipelineImplementsLedger` (`ImplementsLedger`): with `DedupInv` and
  `LedgerInv` (a stored row names a raw file, an operation under way has not been
  answered) each kind of step of `StepKinds` is a ledger step or a stutter:
  `StoreDocument` registers, `SaveEvent` analyses, an ingestion's end tells its
  answer, everything else leaves the ledger alone.
* `JobsDeliver`, `JobsSettled`, `FilesOnDisk` (`SucceededJobsDelivered`,
  `NoAbandonedJobs`, `FilesAccounted`). None of the three is inductive: what an
  answer may leave behind depends on the await it is given at. `AtAwait` says, for
  each await, which of the operation's jobs exist, which is settled and whether its
  raw file is there; `ToCome` that an operation that has not begun has no trace at
  all. At `failLinked` a job may be left Running, but that await is reached by a
  fault only. That deleting a duplicate's file takes no document's file away rests
  on `Fresh` of `DedupInv`, that a Succeeded ingestion has its document on `Owns`.
* `LogsAgree`, `AttemptsInRange` (`LogsMatchJobs`, `AttemptsNumbered`): the three
  steps that write AI jobs are counted one by one (`QueueAiJobCount`,
  `SaveEventCount`, `RecordAiFailureCount`), with `Unfailed` for "this job had not
  failed before" and `NextAttempt` for the number a session has read and not used
  yet: AI jobs are never deleted, so it stays within the count plus one
  (`NextAttemptOfOthers`).
* The recalculation (`TypeCorrect`, `ImpactsAreOneAssessment`,
  `ImpactsLostToStaleReads`) holds by one invariant, `Inv`: all rows of an event
  in the table come from one session, which has finished and whose assessment
  they are exactly, and so do the rows a session has loaded. The second half is
  what makes the save safe (`SaveReplacesAll`): if the loaded rows are still
  there they are all the event's rows, and if none were loaded any row that
  appeared since either collides with an inserted one or leaves nothing to
  insert. `Created` is stable because profiles are only appended
  (`CreatedKept`). `Mentions`, the number of sessions and of profiles are
  arbitrary.
* `SomeRecalculationWins` (`SomeoneWins`) adds `WinInv`: without database errors
  a loaded row that has gone, or a row that has come since the load, was followed
  by a commit of another session, which answered OK.
* `RecalculationImplementsBoard` (`ImplementsBoard`): `SameLevels` shows that the
  assessor's count and the board's two distinct factors give the same level,
  `CreatedIsWhole` that a session's rows are a whole assessment, and with `Inv`
  each save is a board step (`CommitBoard`, `ThrowsBoard`).
* The rules of the score (`ScoreOnScale`, `FloorsHold`, `AlarmNeedsPenalty`,
  `FirstRuleWins`), for all findings and all sets of signals, by cases on the
  domain and linear arithmetic.
* The endpoint (`AnalyzeTyped`, `IdsAreOwn`, `BaselineLast`, `AskedOnlyWhileUseful`,
  `FlagsTellTheTruth`, `CancelledNeverAnalysed`) holds by `AnalyzeInv`. `QueueInv`
  makes the executor safe: a call is in the queue once, and one that has not
  begun has not been answered (a timeout takes it out of the queue). `IdsOK` follows the ids from the thread's `_LAST_EXECUTION` into the report:
  at `read` and at `fallback` the context holds exactly the request's own records. `OutcomeOK`
  and `CallOK` say what the audit records look like at each await. That the baseline
  is a last resort needs `tries` to be the number of failed records of the running
  `generate_structured` call, which in turn needs that no record of the language
  retry exists before it begins (`FirstCallOnly`).
* Lists. Python's `sorted` and its comprehensions are `InOrder` and `Picked`, which
  give an element its rank (the number of those before it) instead of
  recursion. `InOrderSorts` and `PickedInOrder` say what they return; they are
  proved by counting (`Cardinality` of the elements before another), since induction over
  lists is out of the provers' reach.
* Replies hold by two invariants. `ContentInv` (`NamesInvited`, `RoutedByText`,
  `ContentTyped`) has a conjunct for each stage that has been passed: demo clients are
  allowed wherever no client was given (`SeedsAllowed`), the domain is that of the
  text (`DomainFromText`), the impact is the score of the analysis
  (`ScoredByRules`), the clients are those matched and drafted for
  (`ListedAsMatched`, `DraftedAsListed`), the reply is what was found
  (`AnsweredAsFound`). A later stage changes none of the variables an earlier
  conjunct speaks of. `SourceInv` (`QuotesTheSource`) says where quotations come from:
  what survives the check of a provider's quotations stands in the text
  (`AnalysisQuotes`), the evidence of the impact and of the card is taken from that
  (`ImpactQuotes`, `CardEvident`), and a chunk is named only for evidence it holds. An
  analysis always has a fragment, so that a card lacks evidence only if all fragments
  are whitespace (`OnlySpaceQuoted`). The cap of a domain is exceeded only for a penalty
  (`AlarmsLimited`), and every penalty of an analysis stands in the text
  (`AlarmsGrounded`).
* The knowledge store holds by `KnowledgeInv`. `FilesOK` is an account: for each file, the
  saved records it misses, and one more if its end is torn, are covered by torn lines,
  each of which was caused by a fault or a crash (`Damage`); this gives `SavedIsKept`. The end has to be
  in the account, for the record lost to a torn end is the one appended next.
  `JournalsOK` and `KeepsWork` say that a record tells of an analysis what that
  analysis was about, which is what a message can be checked against
  (`SentWhereListed`). `StoreOK` bounds the context store (`KnowledgeTyped`). `ChatRemembers`
  compares a file's records with those a reader gets: the last whole record of a chunk
  is the one that is read (`LastOfPicked`), so if it does not answer its text is another,
  and it stands after every record with the saved text (`Replaced`).
* `ChunksFollow` (`ChunksFollowTheDocument`) needs a second invariant, `ChunksInv`. While nothing
  fails, and as long as one analysis at a time saves a document, that analysis is the one of the
  newest document record (`LaterIsNewest`); every chunk of the newest text is
  what readers get or is still ahead of it (`NewestFollowed`); and what it read
  as existing is still what readers get (`SeenIsStored`). The last one is why a chunk
  that is skipped as unchanged is there, and what fails when two analyses of a document overlap.
* The hosts and the delivery (`DeliveryTypes`, `DemosOnce`, `MessagesAddressed`,
  `JournalTrue`) hold by `MailInv`. `SeedingInv` says that a second insertion of
  the demo clients would have to find the table empty after the first. `RequestOK`
  says at which step a request has which addressee and explanation, `RecordOK` that
  rows and messages of a request exist only from its step on, `AddresseeOK` that
  a client who was there when asked for is still there, since profiles are never
  deleted. One lemma per kind of step carries them over.

Every invariant and every action property of a passing run is stated by a theorem.
Only model-checked: liveness (`EveryJobSettles`, `EveryCallAnswered`,
`FeedReachesTheStore`: fairness and ENABLED are out of the prover's reach), and the
counterexamples of the runs that expect a violation.

## What is left out

Audit rows (written, never read); the deletion of a raw file failing; a
document without a version row (the pipeline always stores one with the
document); unsupported file formats (answered before any state changes); the
read-only endpoints. After an exception that leaves `IngestAsync` a batch ends
in the model; in the code the next ingestor would go on with the DbContext the
failed save left dirty (listed as a hazard). The contents of documents, events
and answers are data the properties do not tell apart. The keyword patterns of the
assessor and the explanation and action texts of an impact are left out; the
death of a process during a recalculation is the case of `Throws` in which the
caller hears nothing that matters. In `AnalyzeEndpoint`: the contents of
analyses and cards, the chat and the `document-analysis` and integration
endpoints (which hold the loop as the modelled ones do), an unknown provider or
model (refused before the first attempt), the partial appends of a document's
chunks (one piece here) and the death of the process, after which every waiting
caller sees a broken connection.

In `AnalysisContent`: titles, summaries, reasons and explanations; how a keyword is
found in a string (a piece says what it says, without negation, which the code
does not know either); values of a provider's date list that are no dates; the two
dates that the fuel rule spells out. In `AiKnowledge`: chunk ids that a caller of
`/analyze` supplies (`backend_contract.py:197`; ids are the chunker's positions here);
what an answer of the chat says beyond the
fragments it cites, how a question's words score a chunk, the wording checks of
the safety gate (one flag). In `NotificationDelivery`: the payload's wording and
the audit rows.

## Not modelled

* Text processing of the backend and the AI service (normalising, hashing,
  extracting, where a chunker puts its boundaries): string processing, with unit
  tests of its own in the repository. The models take the hash as injective and the
  chunks as given.
* The changes that a failed save leaves in a batch's DbContext for the next
  ingestor (`LocalSeedIngestor.cs:41`): `DocumentPipeline` ends the batch there.
* DTO mapping, serialisation, migrations, the web page, debug and listing
  endpoints, prompts, the model catalogue, the evaluation samples and the legacy
  demo endpoint `/api/analyze`: no state, or reads only.

## Plan

Done: the pipeline with its ledger, the recalculation with its board, the analysis
endpoint, the content of replies, the knowledge store, the hosts and the delivery, and
proofs of all their safety properties. Left, in this order:

1. An abstract specification of the delivery (what a caller is promised of a message) and
   of the endpoint's answers, with proofs that the detailed ones implement them.
2. The dirty DbContext between ingestors, as pending changes of a session.
3. `TextChunker` as a recursive function against coverage and overlap.
