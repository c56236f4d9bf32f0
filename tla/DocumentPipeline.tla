--------------------------- MODULE DocumentPipeline ---------------------------
(***************************************************************************)
(* The document pipeline of the .NET backend: DocumentProcessingService    *)
(* (upload, ingestion, AI analysis, reprocessing), its PostgreSQL tables,  *)
(* the raw files it leaves on disk and the EF Core change tracker of every *)
(* request or batch that runs it.                                          *)
(*                                                                         *)
(* A session is one dependency-injection scope, hence one DbContext: an    *)
(* upload request, a reprocess request, or a batch (one ingestion run of   *)
(* the worker or of POST /api/ingestion/run), which ingests up to          *)
(* BatchSize items through the same DbContext.  One action stands for the  *)
(* code between two awaits that other sessions can observe.                *)
(*                                                                         *)
(* A document is identified with its normalized text: Documents.TextHash   *)
(* is unique, so a text has at most one row.                               *)
(***************************************************************************)
EXTENDS Naturals, FiniteSets

CONSTANTS
    Uploads,        \* POST /api/documents/upload requests
    Reprocesses,    \* POST /api/documents/{id}/reprocess requests
    ApiBatches,     \* POST /api/ingestion/run requests
    WorkerBatches,  \* iterations of the background IngestionWorker
    Texts,          \* the normalized texts documents can have
    ManualSources,  \* source types that POST /api/sources has added a row for
    BatchSize,      \* bound: items one batch ingests
    MaxFaults,      \* bound: database errors and cancellations
    MaxCrashes,     \* bound: crashes of a process
    None            \* SQL NULL and "no such thing"

Batches  == ApiBatches \cup WorkerBatches
Ingests  == Uploads \cup Batches
Sessions == Ingests \cup Reprocesses

\* An operation is the i-th item a session handles; the ids of the jobs it
\* inserts and the path of the raw file it saves are named after it.
Op == Sessions \X (1..BatchSize)

\* Sources.Type of the documents these sessions ingest, and the key of
\* requests that ingest nothing.
SourceTypes  == {"UserUpload", "BankOfRussia", "Seed"}
RequestKinds == SourceTypes \cup {"Reprocess"}
\* SourceCatalog: the types a Source row can be created for.
SourceCatalog == {"UserUpload", "BankOfRussia"}
\* Sources rows by type and the session that inserted them, None for a row
\* added by hand: nothing makes Sources.Type unique.
SourceRow == SourceTypes \X (Sessions \cup {None})

Status    == {"AwaitingAi", "Processing", "Completed"}
JobStatus == {"absent", "Running", "Succeeded", "Failed"}
Outcome   == {"none", "Created", "Duplicate", "Failed", "Error"}

ASSUME SessionsAssumption ==
    /\ IsFiniteSet(Sessions)
    /\ Uploads \cap Reprocesses = {}
    /\ Batches \cap (Uploads \cup Reprocesses) = {}
    /\ None \notin Texts \cup Op
    /\ ManualSources \subseteq SourceTypes

ASSUME BoundsAssumption ==
    /\ BatchSize \in Nat \ {0}
    /\ MaxFaults \in Nat
    /\ MaxCrashes \in Nat

VARIABLES
    \* The database.
    docs,        \* Documents: status, source row and raw file of each text
    events,      \* RegulatoryEvents: the texts that have one (unique DocumentId)
    impacts,     \* the events whose ClientImpacts have been computed
    ingestJobs,  \* ProcessingJobs of type Ingestion, by operation
    aiJobs,      \* ProcessingJobs of type AiProcessing, by operation
    llmLogs,     \* LLMCallLogs: successes and errors of each document
    sources,     \* Sources
    \* The raw-file directory.
    files,
    \* The sessions.
    pc,          \* the await a session stands at
    item,        \* how many operations it has begun
    mem,         \* the status of the Document instances its DbContext tracks
    tracked,     \* the Source instances its DbContext tracks
    local,       \* its local variables
    req,         \* what each operation was asked to do
    result,      \* what each operation answered
    \* Bounds.
    faults, crashes

dbVars   == <<docs, events, impacts, ingestJobs, aiJobs, llmLogs, sources>>
ctxVars  == <<mem, tracked, local>>
sessVars == <<pc, item, ctxVars, req, result>>
vars     == <<dbVars, files, sessVars, faults, crashes>>

-----------------------------------------------------------------------------
(* Shape of the state. *)

NoDoc   == [status |-> "absent", source |-> None, rawFile |-> None]
DocRow  == [status : Status \cup {"absent"},
            source : SourceRow \cup {None}, rawFile : Op \cup {None}]
NoJob   == [status |-> "absent", doc |-> None, attempts |-> 0]
JobRow  == [status : JobStatus, doc : Texts \cup {None}, attempts : Nat]
Request == [text : Texts, kind : RequestKinds]

\* row: the source an ingestion uses; original: the status EF compares the
\* current document's with on save; attempts: the AI job's number, read before
\* the job is inserted.
Local   == [row : SourceRow \cup {None}, original : Status \cup {"untracked"}, attempts : Nat]
NoLocal == [row |-> None, original |-> "untracked", attempts |-> 0]
NoMem   == [t \in Texts |-> "untracked"]

Pc == {"ready", "extract", "duplicate", "source", "store", "complete",
       "hasEvent", "count", "queueAi", "askAi", "saveEvent", "recalculate",
       "failAi", "fail", "failLinked", "stopped"}

TypeOK ==
    /\ docs \in [Texts -> DocRow]
    /\ events \subseteq Texts
    /\ impacts \subseteq Texts
    /\ ingestJobs \in [Op -> JobRow]
    /\ aiJobs \in [Op -> JobRow]
    /\ llmLogs \in [Texts -> [Success : Nat, Error : Nat]]
    /\ sources \subseteq SourceRow
    /\ files \subseteq Op
    /\ pc \in [Sessions -> Pc]
    /\ item \in [Sessions -> 0..BatchSize]
    /\ mem \in [Sessions -> [Texts -> Status \cup {"untracked"}]]
    /\ tracked \in [Sessions -> SUBSET SourceRow]
    /\ local \in [Sessions -> Local]
    /\ req \in [Op -> Request \cup {None}]
    /\ result \in [Op -> Outcome]
    /\ faults \in 0..MaxFaults
    /\ crashes \in 0..MaxCrashes

Init ==
    /\ docs = [t \in Texts |-> NoDoc]
    /\ events = {}
    /\ impacts = {}
    /\ ingestJobs = [op \in Op |-> NoJob]
    /\ aiJobs = [op \in Op |-> NoJob]
    /\ llmLogs = [t \in Texts |-> [Success |-> 0, Error |-> 0]]
    /\ sources = ManualSources \X {None}
    /\ files = {}
    /\ pc = [s \in Sessions |-> "ready"]
    /\ item = [s \in Sessions |-> 0]
    /\ mem = [s \in Sessions |-> NoMem]
    /\ tracked = [s \in Sessions |-> {}]
    /\ local = [s \in Sessions |-> NoLocal]
    /\ req = [op \in Op |-> None]
    /\ result = [op \in Op |-> "none"]
    /\ faults = 0
    /\ crashes = 0

-----------------------------------------------------------------------------
(* Vocabulary of the actions. *)

Limit(s)  == IF s \in Batches THEN BatchSize ELSE 1
OpOf(s)   == <<s, item[s]>>
TextOf(s) == req[OpOf(s)].text
KindOf(s) == req[OpOf(s)].kind
Stored(t) == docs[t].status # "absent"
Active(s) == pc[s] \notin {"ready", "stopped"}

Goto(s, label) == pc' = [pc EXCEPT ![s] = label]

\* The AI jobs the table holds for a document.
AiJobsOf(t) == {op \in Op : aiJobs[op].doc = t}

\* A session ends an operation with outcome o, its DbContext tracking the
\* documents in m and the sources in k: a batch keeps the DbContext for its next
\* item, a request disposes of it.
Finish(s, o, m, k) ==
    LET keep == s \in Batches /\ item[s] < BatchSize /\ o # "Error" IN
    /\ result' = [result EXCEPT ![OpOf(s)] = o]
    /\ pc' = [pc EXCEPT ![s] = IF o = "Error" THEN "stopped" ELSE "ready"]
    /\ mem' = [mem EXCEPT ![s] = IF keep THEN m ELSE NoMem]
    /\ tracked' = [tracked EXCEPT ![s] = IF keep THEN k ELSE {}]
    /\ local' = [local EXCEPT ![s] = NoLocal]

\* What RunAiAnalysisAsync's caller answers: an ingestion says Created whatever
\* the analysis did, a reprocess looks at its in-memory document.
FinishAi(s, m, k) ==
    Finish(s, IF s \in Reprocesses /\ m[TextOf(s)] # "Completed" THEN "Failed" ELSE "Created",
           m, k)

\* The documents ProcessingJobs.Update(job) reaches from a job of document t:
\* the document and, through its Source when that is tracked too, every tracked
\* document of the same Source.
Reachable(s, t) ==
    {t} \cup {d \in Texts : /\ mem[s][d] # "untracked"
                            /\ docs[d].source = docs[t].source
                            /\ docs[t].source \in tracked[s]}

\* Update marks all of them modified, so the save that records a failure writes
\* their in-memory status, whatever the table holds by then.
Rewritten(s, t) ==
    [d \in Texts |-> IF d \in Reachable(s, t) THEN [docs[d] EXCEPT !.status = mem[s][d]]
                     ELSE docs[d]]

\* What the change tracker holds after ChangeTracker.Clear and
\* ProcessingJobs.Update(job).
RetrackedMem(s, t) ==
    [d \in Texts |-> IF d \in Reachable(s, t) THEN mem[s][d] ELSE "untracked"]
RetrackedSources(s, t) == tracked[s] \cap {docs[t].source}

\* A database error or a cancelled token: bounded by MaxFaults.
Fault == faults < MaxFaults /\ faults' = faults + 1

-----------------------------------------------------------------------------
(* IngestAsync. *)

Begin(s, t, k) ==
    /\ pc[s] = "ready"
    /\ item[s] < Limit(s)
    /\ item' = [item EXCEPT ![s] = @ + 1]
    /\ req' = [req EXCEPT ![<<s, item[s] + 1>>] = [text |-> t, kind |-> k]]

\* Uploads are UserUpload documents; a batch runs the Bank of Russia ingestor
\* and then the seed ingestor.
MayIngest(s, k) ==
    \/ s \in Uploads /\ k = "UserUpload"
    \/ /\ s \in Batches
       /\ \/ k = "Seed"
          \/ k = "BankOfRussia" /\ (item[s] > 0 => KindOf(s) # "Seed")

\* Insert the Running ingestion job.
StartIngest(s, t, k) ==
    /\ MayIngest(s, k)
    /\ Begin(s, t, k)
    /\ ingestJobs' = [ingestJobs EXCEPT ![<<s, item[s] + 1>>] = [NoJob EXCEPT !.status = "Running"]]
    /\ Goto(s, "extract")
    /\ UNCHANGED <<docs, events, impacts, aiJobs, llmLogs, sources, files, ctxVars,
                   result, faults, crashes>>

\* Save the raw file, extract and hash the text, and find no document with it.
FindNew(s) ==
    /\ pc[s] = "extract"
    /\ ~Stored(TextOf(s))
    /\ files' = files \cup {OpOf(s)}
    /\ Goto(s, "source")
    /\ UNCHANGED <<dbVars, item, ctxVars, req, result, faults, crashes>>

\* Mutant: the existing document is read without tracking it.
FindDuplicateUntracked(s) ==
    /\ pc[s] = "extract"
    /\ Stored(TextOf(s))
    /\ files' = files \cup {OpOf(s)}
    /\ Goto(s, "duplicate")
    /\ UNCHANGED <<dbVars, item, ctxVars, req, result, faults, crashes>>

\* The same, but the hash is known: the query tracks the existing document,
\* unless this DbContext tracks it already and keeps its own, older, values.
FindDuplicate(s) ==
    LET t == TextOf(s) IN
    /\ pc[s] = "extract"
    /\ Stored(t)
    /\ files' = files \cup {OpOf(s)}
    /\ mem' = [mem EXCEPT ![s][t] = IF @ = "untracked" THEN docs[t].status ELSE @]
    /\ Goto(s, "duplicate")
    /\ UNCHANGED <<dbVars, item, tracked, local, req, result, faults, crashes>>

\* The file cannot be saved, opened or read: an exception before the hash.
ExtractionFails(s) ==
    /\ pc[s] = "extract"
    /\ files' \in {files, files \cup {OpOf(s)}}
    /\ Goto(s, "fail")
    /\ UNCHANGED <<dbVars, item, ctxVars, req, result, faults, crashes>>

\* Mutant: the raw file of a duplicate is kept.
AnswerDuplicateKeepingFile(s) ==
    /\ pc[s] = "duplicate"
    /\ ingestJobs' = [ingestJobs EXCEPT ![OpOf(s)].status = "Succeeded",
                                        ![OpOf(s)].doc = TextOf(s)]
    /\ Finish(s, "Duplicate", mem[s], tracked[s])
    /\ UNCHANGED <<docs, events, impacts, aiJobs, llmLogs, sources, files, item, req,
                   faults, crashes>>

\* Delete the raw file, complete the job with the existing document.
AnswerDuplicate(s) ==
    /\ pc[s] = "duplicate"
    /\ files' = files \ {OpOf(s)}
    /\ ingestJobs' = [ingestJobs EXCEPT ![OpOf(s)].status = "Succeeded",
                                        ![OpOf(s)].doc = TextOf(s)]
    /\ Finish(s, "Duplicate", mem[s], tracked[s])
    /\ UNCHANGED <<docs, events, impacts, aiJobs, llmLogs, sources, item, req,
                   faults, crashes>>

\* GetOrCreateSourceAsync finds a row of the type, any one of them.
ReuseSource(s, r) ==
    /\ pc[s] = "source"
    /\ r[1] = KindOf(s)
    /\ local' = [local EXCEPT ![s].row = r]
    /\ tracked' = [tracked EXCEPT ![s] = @ \cup {r}]
    /\ Goto(s, "store")
    /\ UNCHANGED <<dbVars, files, item, mem, req, result, faults, crashes>>

\* It finds none and adds a row to the unit of work, if the catalog knows the
\* type; the seed type is not in the catalog and the lookup throws.
AddSource(s) ==
    LET r == <<KindOf(s), s>> IN
    /\ pc[s] = "source"
    /\ \A q \in sources : q[1] # KindOf(s)
    /\ IF KindOf(s) \in SourceCatalog
       THEN /\ local' = [local EXCEPT ![s].row = r]
            /\ tracked' = [tracked EXCEPT ![s] = @ \cup {r}]
            /\ Goto(s, "store")
       ELSE /\ Goto(s, "fail")
            /\ UNCHANGED <<local, tracked>>
    /\ UNCHANGED <<dbVars, files, item, mem, req, result, faults, crashes>>

\* Mutant: Documents.TextHash without its unique index.
StoreDocumentTwice(s) ==
    LET t == TextOf(s) IN
    /\ pc[s] = "store"
    /\ docs' = [docs EXCEPT ![t] = [status |-> "AwaitingAi", source |-> local[s].row,
                                    rawFile |-> OpOf(s)]]
    /\ sources' = sources \cup {local[s].row}
    /\ mem' = [mem EXCEPT ![s][t] = "AwaitingAi"]
    /\ Goto(s, "complete")
    /\ UNCHANGED <<events, impacts, ingestJobs, aiJobs, llmLogs, files, item, tracked, local,
                   req, result, faults, crashes>>

\* One transaction inserts the source, the document with its version and
\* chunks.
StoreDocument(s) ==
    LET t == TextOf(s) IN
    /\ pc[s] = "store"
    /\ ~Stored(t)
    /\ docs' = [docs EXCEPT ![t] = [status |-> "AwaitingAi", source |-> local[s].row,
                                    rawFile |-> OpOf(s)]]
    /\ sources' = sources \cup {local[s].row}
    /\ mem' = [mem EXCEPT ![s][t] = "AwaitingAi"]
    /\ Goto(s, "complete")
    /\ UNCHANGED <<events, impacts, ingestJobs, aiJobs, llmLogs, files, item, tracked, local,
                   req, result, faults, crashes>>

\* Another session stored the text since the hash was looked up: the unique
\* index rejects the transaction.
StoreConflict(s) ==
    /\ pc[s] = "store"
    /\ Stored(TextOf(s))
    /\ Goto(s, "fail")
    /\ UNCHANGED <<dbVars, files, item, ctxVars, req, result, faults, crashes>>

\* CompleteJobAsync.
CompleteJob(s) ==
    /\ pc[s] = "complete"
    /\ ingestJobs' = [ingestJobs EXCEPT ![OpOf(s)].status = "Succeeded",
                                        ![OpOf(s)].doc = TextOf(s)]
    /\ Goto(s, "count")
    /\ UNCHANGED <<docs, events, impacts, aiJobs, llmLogs, sources, files, item, ctxVars,
                   req, result, faults, crashes>>

\* The catch of IngestAsync before a document is linked to the job: the cleared
\* tracker holds the job alone.
RecordFailure(s) ==
    /\ pc[s] = "fail"
    /\ ingestJobs' = [ingestJobs EXCEPT ![OpOf(s)].status = "Failed"]
    /\ Finish(s, "Failed", NoMem, {})
    /\ UNCHANGED <<docs, events, impacts, aiJobs, llmLogs, sources, files, item, req,
                   faults, crashes>>

\* The same catch once CompleteJobAsync has linked the job to the document.
RecordLinkedFailure(s) ==
    LET t == TextOf(s) IN
    /\ pc[s] = "failLinked"
    /\ ingestJobs' = [ingestJobs EXCEPT ![OpOf(s)].status = "Failed", ![OpOf(s)].doc = t]
    /\ docs' = Rewritten(s, t)
    /\ Finish(s, "Failed", RetrackedMem(s, t), RetrackedSources(s, t))
    /\ UNCHANGED <<events, impacts, aiJobs, llmLogs, sources, files, item, req,
                   faults, crashes>>

-----------------------------------------------------------------------------
(* ReprocessAsync. *)

\* Load the document; an unknown id is answered at once.
StartReprocess(s, t) ==
    /\ s \in Reprocesses
    /\ Begin(s, t, "Reprocess")
    /\ IF Stored(t)
       THEN /\ mem' = [mem EXCEPT ![s][t] = docs[t].status]
            /\ Goto(s, "hasEvent")
            /\ UNCHANGED result
       ELSE /\ result' = [result EXCEPT ![<<s, 1>>] = "Failed"]
            /\ UNCHANGED <<pc, mem>>
    /\ UNCHANGED <<dbVars, files, tracked, local, faults, crashes>>

\* A document with an event is not analysed again; otherwise its text and
\* chunks are read.
RequestAnalysis(s) ==
    /\ pc[s] = "hasEvent"
    /\ IF TextOf(s) \in events
       THEN Finish(s, "Duplicate", mem[s], tracked[s])
       ELSE /\ Goto(s, "count")
            /\ UNCHANGED <<ctxVars, result>>
    /\ UNCHANGED <<dbVars, files, item, req, faults, crashes>>

-----------------------------------------------------------------------------
(* RunAiAnalysisAsync. *)

\* Mutant: jobs of every type are counted.
CountEveryJob(s) ==
    LET t == TextOf(s) IN
    /\ pc[s] = "count"
    /\ local' = [local EXCEPT ![s].attempts =
                  Cardinality(AiJobsOf(t)) + Cardinality({op \in Op : ingestJobs[op].doc = t}) + 1]
    /\ Goto(s, "queueAi")
    /\ UNCHANGED <<dbVars, files, item, mem, tracked, req, result, faults, crashes>>

CountAttempts(s) ==
    /\ pc[s] = "count"
    /\ local' = [local EXCEPT ![s].attempts = Cardinality(AiJobsOf(TextOf(s))) + 1]
    /\ Goto(s, "queueAi")
    /\ UNCHANGED <<dbVars, files, item, mem, tracked, req, result, faults, crashes>>

\* Mutant: the status is set before the save that inserts the job.
QueueAiJobSavingStatus(s) ==
    LET t == TextOf(s) IN
    /\ pc[s] = "queueAi"
    /\ aiJobs' = [aiJobs EXCEPT ![OpOf(s)] = [status |-> "Running", doc |-> t,
                                              attempts |-> local[s].attempts]]
    /\ docs' = [docs EXCEPT ![t].status = "Processing"]
    /\ local' = [local EXCEPT ![s].original = "Processing"]
    /\ mem' = [mem EXCEPT ![s][t] = "Processing"]
    /\ Goto(s, "askAi")
    /\ UNCHANGED <<events, impacts, ingestJobs, llmLogs, sources, files, item, tracked,
                   req, result, faults, crashes>>

\* Insert the Running AI job, then set the status in memory, not in the table.
QueueAiJob(s) ==
    LET t == TextOf(s) IN
    /\ pc[s] = "queueAi"
    /\ aiJobs' = [aiJobs EXCEPT ![OpOf(s)] = [status |-> "Running", doc |-> t,
                                              attempts |-> local[s].attempts]]
    /\ local' = [local EXCEPT ![s].original = mem[s][t]]
    /\ mem' = [mem EXCEPT ![s][t] = "Processing"]
    /\ Goto(s, "askAi")
    /\ UNCHANGED <<docs, events, impacts, ingestJobs, llmLogs, sources, files, item, tracked,
                   req, result, faults, crashes>>

\* The AI service answers and the unit of work is filled in memory.
AiAnswers(s) ==
    /\ pc[s] = "askAi"
    /\ mem' = [mem EXCEPT ![s][TextOf(s)] = "Completed"]
    /\ Goto(s, "saveEvent")
    /\ UNCHANGED <<dbVars, files, item, tracked, local, req, result, faults, crashes>>

\* The AI service is unreachable, answers an error or an unreadable body, or
\* the HTTP client gives up after its timeout.
AiFails(s) ==
    /\ pc[s] = "askAi"
    /\ Goto(s, "failAi")
    /\ UNCHANGED <<dbVars, files, item, ctxVars, req, result, faults, crashes>>

\* Mutant: the document is not marked Completed.
SaveEventAlone(s) ==
    LET t == TextOf(s) IN
    /\ pc[s] = "saveEvent"
    /\ t \notin events
    /\ events' = events \cup {t}
    /\ llmLogs' = [llmLogs EXCEPT ![t].Success = @ + 1]
    /\ aiJobs' = [aiJobs EXCEPT ![OpOf(s)].status = "Succeeded"]
    /\ Goto(s, "recalculate")
    /\ UNCHANGED <<docs, impacts, ingestJobs, sources, files, item, ctxVars, req, result, faults,
                   crashes>>

\* One transaction: log, event, status and job.  EF writes the status only when
\* it differs from the value the document was loaded with.
SaveEvent(s) ==
    LET t == TextOf(s) IN
    /\ pc[s] = "saveEvent"
    /\ t \notin events
    /\ events' = events \cup {t}
    /\ docs' = IF local[s].original = "Completed" THEN docs
               ELSE [docs EXCEPT ![t].status = "Completed"]
    /\ llmLogs' = [llmLogs EXCEPT ![t].Success = @ + 1]
    /\ aiJobs' = [aiJobs EXCEPT ![OpOf(s)].status = "Succeeded"]
    /\ Goto(s, "recalculate")
    /\ UNCHANGED <<impacts, ingestJobs, sources, files, item, ctxVars, req, result, faults,
                   crashes>>

\* Another session's analysis of the document committed first: the unique index
\* on RegulatoryEvents.DocumentId rejects the transaction.
EventConflict(s) ==
    /\ pc[s] = "saveEvent"
    /\ TextOf(s) \in events
    /\ Goto(s, "failAi")
    /\ UNCHANGED <<dbVars, files, item, ctxVars, req, result, faults, crashes>>

\* ImpactService.RecalculateAsync, in the same try block.
Recalculate(s) ==
    /\ pc[s] = "recalculate"
    /\ impacts' = impacts \cup {TextOf(s)}
    /\ FinishAi(s, mem[s], tracked[s])
    /\ UNCHANGED <<docs, events, ingestJobs, aiJobs, llmLogs, sources, files, item,
                   req, faults, crashes>>

\* Mutant: the job is left as it was.
RecordAiFailureWithoutJob(s) ==
    LET t == TextOf(s) IN
    /\ pc[s] = "failAi"
    /\ llmLogs' = [llmLogs EXCEPT ![t].Error = @ + 1]
    /\ docs' = Rewritten(s, t)
    /\ FinishAi(s, RetrackedMem(s, t), RetrackedSources(s, t))
    /\ UNCHANGED <<events, impacts, ingestJobs, aiJobs, sources, files, item, req, faults,
                   crashes>>

\* Mutant: the error log is added before the tracker is cleared, and lost.
RecordAiFailureUnlogged(s) ==
    LET t == TextOf(s) IN
    /\ pc[s] = "failAi"
    /\ aiJobs' = [aiJobs EXCEPT ![OpOf(s)].status = "Failed"]
    /\ docs' = Rewritten(s, t)
    /\ FinishAi(s, RetrackedMem(s, t), RetrackedSources(s, t))
    /\ UNCHANGED <<events, impacts, ingestJobs, llmLogs, sources, files, item, req, faults,
                   crashes>>

\* The catch of RunAiAnalysisAsync: an error log, a Failed job, and every
\* document Update(job) reaches, in one transaction.
RecordAiFailure(s) ==
    LET t == TextOf(s) IN
    /\ pc[s] = "failAi"
    /\ llmLogs' = [llmLogs EXCEPT ![t].Error = @ + 1]
    /\ aiJobs' = [aiJobs EXCEPT ![OpOf(s)].status = "Failed"]
    /\ docs' = Rewritten(s, t)
    /\ FinishAi(s, RetrackedMem(s, t), RetrackedSources(s, t))
    /\ UNCHANGED <<events, impacts, ingestJobs, sources, files, item, req, faults,
                   crashes>>

-----------------------------------------------------------------------------
(* Database errors, cancellations and crashes. *)

\* The first await of an operation fails, outside every try block.
StartThrows(s, t, k) ==
    /\ Fault
    /\ MayIngest(s, k) \/ (s \in Reprocesses /\ k = "Reprocess")
    /\ Begin(s, t, k)
    /\ result' = [result EXCEPT ![<<s, item[s] + 1>>] = "Error"]
    /\ Goto(s, "stopped")
    /\ mem' = [mem EXCEPT ![s] = NoMem]
    /\ tracked' = [tracked EXCEPT ![s] = {}]
    /\ UNCHANGED <<dbVars, files, local, crashes>>

\* A failed await in the try block of IngestAsync.  From CompleteJobAsync on
\* the job is linked to its document; a duplicate's file is deleted before.
IngestThrows(s) ==
    /\ Fault
    /\ s \in Ingests
    /\ \/ /\ pc[s] \in {"source", "store"}
          /\ Goto(s, "fail")
          /\ UNCHANGED files
       \/ /\ pc[s] \in {"duplicate", "complete", "count", "queueAi"}
          /\ Goto(s, "failLinked")
          /\ files' = IF pc[s] = "duplicate" THEN files \ {OpOf(s)} ELSE files
    /\ UNCHANGED <<dbVars, item, ctxVars, req, result, crashes>>

\* A failed await of a reprocess before the try block of RunAiAnalysisAsync.
ReprocessThrows(s) ==
    /\ Fault
    /\ s \in Reprocesses
    /\ pc[s] \in {"hasEvent", "count", "queueAi"}
    /\ Finish(s, "Error", NoMem, {})
    /\ UNCHANGED <<dbVars, files, item, req, crashes>>

\* The event's transaction or the impact recalculation fails.
AiThrows(s) ==
    /\ Fault
    /\ pc[s] \in {"saveEvent", "recalculate"}
    /\ Goto(s, "failAi")
    /\ UNCHANGED <<dbVars, files, item, ctxVars, req, result, crashes>>

\* The save of a catch block fails: from RunAiAnalysisAsync the exception lands
\* in IngestAsync's catch, everywhere else it leaves the service.
CatchThrows(s) ==
    /\ Fault
    /\ pc[s] \in {"fail", "failLinked", "failAi"}
    /\ IF pc[s] = "failAi" /\ s \in Ingests
       THEN /\ Goto(s, "failLinked")
            /\ UNCHANGED <<ctxVars, result>>
       ELSE Finish(s, "Error", NoMem, {})
    /\ UNCHANGED <<dbVars, files, item, req, crashes>>

HostOf(s) == IF s \in WorkerBatches THEN "worker" ELSE "api"

\* A process dies with every session it runs; the tables and the files stay.
Crash(h) ==
    LET lost == {s \in Sessions : HostOf(s) = h /\ (Active(s) \/ (s \in Batches /\ item[s] > 0))}
    IN
    /\ crashes < MaxCrashes
    /\ crashes' = crashes + 1
    /\ lost # {}
    /\ pc' = [s \in Sessions |-> IF s \in lost THEN "stopped" ELSE pc[s]]
    /\ mem' = [s \in Sessions |-> IF s \in lost THEN NoMem ELSE mem[s]]
    /\ tracked' = [s \in Sessions |-> IF s \in lost THEN {} ELSE tracked[s]]
    /\ local' = [s \in Sessions |-> IF s \in lost THEN NoLocal ELSE local[s]]
    /\ UNCHANGED <<dbVars, files, item, req, result, faults>>

-----------------------------------------------------------------------------
Start(s) ==
    \E t \in Texts : \/ StartReprocess(s, t)
                     \/ \E k \in SourceTypes : StartIngest(s, t, k)

\* What a session does next once an operation has begun and nothing fails but
\* the extraction and the AI call.
Continue(s) ==
    \/ FindNew(s) \/ FindDuplicate(s) \/ ExtractionFails(s) \/ AnswerDuplicate(s)
    \/ \E r \in sources : ReuseSource(s, r)
    \/ AddSource(s) \/ StoreDocument(s) \/ StoreConflict(s) \/ CompleteJob(s)
    \/ RecordFailure(s) \/ RecordLinkedFailure(s)
    \/ RequestAnalysis(s) \/ CountAttempts(s) \/ QueueAiJob(s)
    \/ AiAnswers(s) \/ AiFails(s) \/ SaveEvent(s) \/ EventConflict(s)
    \/ Recalculate(s) \/ RecordAiFailure(s)

Disturb(s) ==
    \/ \E t \in Texts, k \in RequestKinds : StartThrows(s, t, k)
    \/ IngestThrows(s) \/ ReprocessThrows(s) \/ AiThrows(s) \/ CatchThrows(s)

\* Every session is idle for good.
Quiet == /\ \A s \in Sessions : pc[s] = "stopped" \/ (pc[s] = "ready" /\ item[s] = Limit(s))
         /\ UNCHANGED vars

Next ==
    \/ \E s \in Sessions : Start(s) \/ Continue(s) \/ Disturb(s)
    \/ \E h \in {"api", "worker"} : Crash(h)
    \/ Quiet

Spec == Init /\ [][Next]_vars

\* An operation that has begun goes on: the thread pool resumes a completed
\* await, and database commands and the AI call have timeouts.  Nothing makes a
\* new operation begin.
FairSpec == Spec /\ \A s \in Sessions : WF_vars(Continue(s))
-----------------------------------------------------------------------------
(* Properties. *)

Asked(op, k) == req[op] # None /\ req[op].kind = k
IngestOp(op) == req[op] # None /\ req[op].kind # "Reprocess"

\* Deduplication by text hash holds under any interleaving of uploads and
\* batches: an ingestion answered Created is the one whose raw file the stored
\* document names, so two ingestions of one text are never both Created, and one
\* answered Duplicate found a document that is not its own.
CreatedOnce ==
    \A op \in Op : IngestOp(op) =>
        LET d == docs[req[op].text] IN
        /\ result[op] = "Created" => d.rawFile = op
        /\ result[op] = "Duplicate" => d.status # "absent" /\ d.rawFile # op

\* ProcessingJobs tells the truth about success: a Succeeded ingestion left its
\* document, a Succeeded analysis left its event and, once the caller has been
\* answered Created, the event's client impacts, although the job is saved as
\* Succeeded before the impacts are computed.
SucceededJobsDelivered ==
    \A op \in Op :
        /\ ingestJobs[op].status = "Succeeded" => Stored(ingestJobs[op].doc)
        /\ aiJobs[op].status = "Succeeded" =>
              /\ aiJobs[op].doc \in events
              /\ result[op] = "Created" => aiJobs[op].doc \in impacts

\* LLMCallLogs agrees with the outcome of the analyses: one success for a
\* document with an event and none for another, and as many errors as Failed
\* AI jobs, although log and job are written from a cleared change tracker.
LogsMatchJobs ==
    \A t \in Texts :
        /\ llmLogs[t].Success = IF t \in events THEN 1 ELSE 0
        /\ llmLogs[t].Error = Cardinality({op \in AiJobsOf(t) : aiJobs[op].status = "Failed"})

FailedOn(t) == \E op \in Op : \/ aiJobs[op].doc = t /\ aiJobs[op].status = "Failed"
                              \/ ingestJobs[op].doc = t /\ ingestJobs[op].status = "Failed"

\* A document whose status is not AwaitingAi and that has no event has a Failed
\* job to explain it: Processing, and Completed without an event, are written by
\* nothing but the save that records a failure.
StatusTraceable ==
    \A t \in Texts : Stored(t) /\ t \notin events /\ docs[t].status # "AwaitingAi" => FailedOn(t)

\* As long as no failure has been recorded on any document, Completed means
\* exactly that the document has an event, whatever the requests and batches
\* interleave and however stale their change trackers are.
DriftNeedsFailure ==
    (\A t \in Texts : ~FailedOn(t)) =>
        \A t \in Texts : docs[t].status = "Completed" <=> t \in events

\* A status goes back from Completed only in the step that records a failure,
\* possibly the failure of another document.
RegressionIsAFailureWrite ==
    [][(\E t \in Texts : docs[t].status = "Completed" /\ docs'[t].status # "Completed")
        => \E op \in Op : \/ aiJobs[op].status # "Failed" /\ aiJobs'[op].status = "Failed"
                          \/ ingestJobs[op].status # "Failed" /\ ingestJobs'[op].status = "Failed"]_vars

\* Without database errors and crashes an answered operation leaves no job
\* Running: races alone, AI failures and rejected transactions always reach a
\* catch block that settles the job.
NoAbandonedJobs ==
    faults = 0 /\ crashes = 0 =>
        \A op \in Op : result[op] # "none" => /\ ingestJobs[op].status # "Running"
                                              /\ aiJobs[op].status # "Running"

\* The raw file a stored document names is on disk and the file of a duplicate
\* is not, even when several sessions handle the same text at once.
FilesAccounted ==
    /\ \A t \in Texts : Stored(t) => docs[t].rawFile \in files
    /\ \A op \in files : result[op] # "Duplicate"

\* The attempts of a document's AI jobs start at 1 and never exceed their
\* number, although the count is read before the job is inserted.
AttemptsNumbered ==
    \A t \in Texts : AiJobsOf(t) # {} =>
        /\ \E op \in AiJobsOf(t) : aiJobs[op].attempts = 1
        /\ \A op \in AiJobsOf(t) : aiJobs[op].attempts \in 1..Cardinality(AiJobsOf(t))

\* Every AI job that is Running is settled in the end, unless a database error
\* or a crash struck (nothing looks for jobs left Running by those).
EveryJobSettles ==
    \A op \in Op : aiJobs[op].status = "Running"
                   ~> aiJobs[op].status # "Running" \/ faults > 0 \/ crashes > 0

\* The ledger as the tables and the answers of ingestions show it: a failure and
\* a lost answer tell the caller nothing.
LedgerOwner == [t \in Texts |-> docs[t].rawFile]
LedgerAnswers ==
    [op \in Op |-> IF IngestOp(op) /\ result[op] \in {"Created", "Duplicate"}
                   THEN [outcome |-> result[op], text |-> req[op].text]
                   ELSE [outcome |-> "none", text |-> None]]
Ledger == INSTANCE DocumentLedger
          WITH owner <- LedgerOwner, analysed <- events, answers <- LedgerAnswers

\* The pipeline implements the ledger: registration and analysis happen at most
\* once per text, are never withdrawn, and every Created and every Duplicate an
\* ingestion is told is justified at that moment.
ImplementsLedger == Ledger!LedgerSpec

\* What Docs/API-для-AI-модуля.md promises of a failed analysis: a document
\* without an event stays AwaitingAi.
AwaitingAiUntilEvent ==
    \A t \in Texts : Stored(t) /\ t \notin events => docs[t].status = "AwaitingAi"

\* What README.md and Docs/API-для-AI-модуля.md say of POST /api/ingestion/run:
\* it loads the seed documents.  A seed text that has been extracted and is not
\* known yet goes on to be stored, unless a database error or a crash strikes.
SeedsLoad ==
    [][\A s \in Sessions : pc[s] = "source" /\ KindOf(s) = "Seed" /\ pc'[s] # pc[s]
                           => pc'[s] = "store" \/ faults' # faults \/ crashes' # crashes]_vars

\* An OK answer to a reprocess request: the document has been analysed.
ReprocessedMeansEvent ==
    \A op \in Op : Asked(op, "Reprocess") /\ result[op] = "Created" => req[op].text \in events
=============================================================================
