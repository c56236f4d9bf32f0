------------------------------ MODULE AiKnowledge ------------------------------
(***************************************************************************)
(* What the Python AI service remembers of its analyses, and what it does  *)
(* with it: documents, chunks, events, chats and deliveries in JSONL files,*)
(* the bounded context store in memory, the RAG chat over both and the     *)
(* mock delivery of notifications behind its safety gate.                  *)
(*                                                                         *)
(* POST /analyze saves in a worker thread, step by step beside everything  *)
(* else; the other endpoints hold the event loop until they are done.  A   *)
(* crash loses the threads and the contexts and may tear the line that is  *)
(* being written; appends and reads may fail.                              *)
(***************************************************************************)
EXTENDS JsonlFile, FiniteSets

CONSTANTS
    Analyses,     \* requests that analyse a text and save it
    Asks,         \* requests to the chat
    Sends,        \* requests to send a notification
    Documents,    \* document ids, a version each
    Works,        \* texts that may be sent for analysis: [document, text]
    Uploads,      \* files that may be uploaded: [size, extension, content, stem, text]
    UploadId,     \* the document id made of the stem of a file name
    Texts,
    Count,        \* chunks of each text
    Split,        \* the <<text, chunk>> that contain a line separator
    Listed,       \* the clients its analysis names
    Neutral,      \* texts of no domain
    Questions,    \* what may be asked: [document, own, chunks, score], with fragments and chunks of
                  \* its own, and the score of each <<text, chunk>>
    Notices,      \* what may be sent: [client, draftedFor, document, event, proper]
    TopK,         \* top_k of an ask
    MaxContexts,  \* _MAX_CONTEXTS
    MaxSize,      \* MAX_FILE_SIZE_BYTES
    MaxMishaps,   \* bound: appends and reads that fail, and crashes
    None

Files == {"documents", "chunks", "events", "chats", "notifications"}

Contents == UNION {{t} \X (1..Count[t]) : t \in Texts}

Fragment == {fragment \in [document : Documents, n : Nat, text : Texts] :
                 <<fragment.text, fragment.n>> \in Contents}

Record == [by : Analyses \cup Asks \cup Sends, document : Documents \cup {None},
           text : Texts \cup {None}, n : Nat, whole : BOOLEAN]

Extractions == {"text", "onlyMetadata", "blank", "unreadable", "empty"}

ASSUME KnowledgeAssumption ==
    /\ None \notin Analyses \cup Asks \cup Sends \cup Documents
    /\ Works \subseteq [document : Documents, text : Texts]
    /\ \A file \in Uploads : file.text \in Texts /\ UploadId[file.stem] \in Documents
    /\ \A file \in Uploads : file.content \in Extractions /\ file.size \in Nat
    /\ Count \in [Texts -> Nat \ {0}]
    /\ Split \subseteq Contents
    /\ Neutral \subseteq Texts
    /\ \A t \in Neutral : Listed[t] = {}
    /\ \A question \in Questions : /\ question.document \in Documents \cup {None}
                                   /\ {question.own, question.chunks} \subseteq Seq(Fragment)
                                   /\ question.score \in [Contents -> Nat]
    /\ \A notice \in Notices : notice.event \in Analyses \cup {None} /\ notice.document \in Documents
    /\ None \notin Notices \cup Questions \cup Record
    /\ {TopK, MaxContexts} \subseteq Nat \ {0}
    /\ MaxMishaps \in Nat

VARIABLES
    file,       \* the JSONL files
    contexts,   \* _contexts, the oldest first: [document, fragments]
    loop,       \* who holds the event loop
    job,        \* where an analysis stands
    chat,       \* where an ask stands, what it found, what it answered
    sent,       \* what became of a send
    saved,      \* history: the records each file's appends were reported saved
    tears,      \* history: lines torn in each file
    overlapped, \* history: documents saved by two analyses at a time
    faults,
    crashes

vars == <<file, contexts, loop, job, chat, sent, saved, tears, overlapped, faults, crashes>>

-----------------------------------------------------------------------------
(* Shape of the state. *)

Saving == {"document", "read", "chunks", "event", "context"}

Job == [pc       : Saving \cup {"idle", "done", "failed", "lost", "refused"},
        endpoint : {"contract", "card", "full"},
        document : Documents \cup {None},
        text     : Texts \cup {None},
        seen     : SUBSET (Nat \X Texts),  \* the stored chunks, as read
        counted  : Nat]                    \* chunks gone through

NoJob == [pc |-> "idle", endpoint |-> "contract", document |-> None, text |-> None, seen |-> {},
          counted |-> 0]

Chat == [pc : {"idle", "asking", "noData", "done", "failed", "lost"}, question : Questions \cup {None},
         found : Seq(Fragment), sources : Seq(Fragment)]

NoChat == [pc |-> "idle", question |-> None, found |-> <<>>, sources |-> <<>>]

\* A message that was sent, whether it was checked, and whether the document was known.
Outcome == [status : {"none", "refused", "failed", "sent"}, notice : Notices \cup {None},
            blind : BOOLEAN, known : BOOLEAN]

NotSent(status) == [status |-> status, notice |-> None, blind |-> FALSE, known |-> FALSE]

TypeOK ==
    /\ file \in [Files -> FileOf(Record)]
    /\ contexts \in Seq([document : Documents, fragments : Seq(Fragment)])
    /\ Len(contexts) <= MaxContexts
    /\ \A i, j \in DOMAIN contexts : contexts[i].document = contexts[j].document => i = j
    /\ loop \in Analyses \cup Asks \cup {None}
    /\ job \in [Analyses -> Job]
    /\ chat \in [Asks -> Chat]
    /\ sent \in [Sends -> Outcome]
    /\ saved \in [Files -> SUBSET Record]
    /\ tears \in [Files -> 0..MaxMishaps]
    /\ overlapped \subseteq Documents
    /\ faults \in 0..MaxMishaps
    /\ crashes \in 0..MaxMishaps

Init ==
    /\ file = [f \in Files |-> EmptyFile]
    /\ contexts = <<>>
    /\ loop = None
    /\ job = [a \in Analyses |-> NoJob]
    /\ chat = [k \in Asks |-> NoChat]
    /\ sent = [s \in Sends |-> NotSent("none")]
    /\ saved = [f \in Files |-> {}]
    /\ tears = [f \in Files |-> 0]
    /\ overlapped = {}
    /\ faults = 0
    /\ crashes = 0

-----------------------------------------------------------------------------
(* Files. *)

Faulty(failed) ==
    IF failed THEN faults + crashes < MaxMishaps /\ faults' = faults + 1 ELSE UNCHANGED faults

Appended(f, record, ok) ==
    \E remains \in (IF ok THEN {"all"} ELSE Remains) :
        /\ file' = [file EXCEPT ![f] = Left(@, record, remains)]
        /\ tears' = IF remains \in {"part", "halfCharacter"} THEN [tears EXCEPT ![f] = @ + 1] ELSE tears

\* Mutant: a failed append is reported as a saved one.
ReportedAnyway(f, record, ok) ==
    /\ Appended(f, record, ok)
    /\ saved' = [saved EXCEPT ![f] = @ \cup {record}]

\* append_jsonl reports whether the record was written.
AppendTo(f, record, ok) ==
    /\ Appended(f, record, ok)
    /\ saved' = IF ok THEN [saved EXCEPT ![f] = @ \cup {record}] ELSE saved

\* read_jsonl: the readable records, or nothing if the read fails.  Where the file does not
\* decode, the error leaves the reader: it is no OSError.
ReadOf(f, failed) == IF failed THEN <<>> ELSE Readable(file[f])

RecordOf(by, document, text, n) ==
    [by |-> by, document |-> document, text |-> text, n |-> n, whole |-> <<text, n>> \notin Split]

\* Where the records of a document stand.
About(records, document) == {i \in DOMAIN records : records[i].document = document}

\* Mutant: the earliest of each chunk id.
Earliest(records, document) ==
    LET ofIt == About(records, document)
        ids  == Ascending({records[i].n : i \in ofIt})
        text(n) == records[Min({i \in ofIt : records[i].n = n})].text
    IN  [k \in DOMAIN ids |-> [document |-> document, n |-> ids[k], text |-> text(ids[k])]]

\* get_chunks: the latest of each chunk id, in order.
Latest(records, document) ==
    LET ofIt == About(records, document)
        ids  == Ascending({records[i].n : i \in ofIt})
        text(n) == records[Max({i \in ofIt : records[i].n = n})].text
    IN  [k \in DOMAIN ids |-> [document |-> document, n |-> ids[k], text |-> text(ids[k])]]

\* Mutant: a chunk that has the id of a stored one is not stored again, whatever its text.
ByIdAlone(records, document) ==
    {chunk.n : chunk \in ToSet(Latest(records, document))} \X Texts

Existing(records, document) ==
    {<<chunk.n, chunk.text>> : chunk \in ToSet(Latest(records, document))}

-----------------------------------------------------------------------------
(* Analyses are saved. *)

LoopIsFree == loop = None

Step(a, pc) == job' = [job EXCEPT ![a].pc = pc]

Leave(r) == loop' = IF loop = r THEN None ELSE loop

Admit(a, endpoint, work) ==
    /\ loop' = IF endpoint = "contract" THEN loop ELSE a
    /\ job' = [job EXCEPT ![a] = [pc |-> "document", endpoint |-> endpoint, document |-> work.document,
                                  text |-> work.text, seen |-> {}, counted |-> 0]]

\* The analysis itself is modules AnalyzeEndpoint and AnalysisContent.
StartAnalysis(a, endpoint, work) ==
    /\ job[a].pc = "idle"
    /\ LoopIsFree
    /\ Admit(a, endpoint, work)
    /\ UNCHANGED <<file, contexts, chat, sent, saved, tears, overlapped, faults, crashes>>

\* extract_text_from_upload: every refusal is a 4xx answer.
Accepted(upload) ==
    /\ upload.size <= MaxSize
    /\ upload.extension \in {".txt", ".pdf"}
    /\ upload.content = "text"

\* The document id is made of the file's name: files of one name are one document.
StartUpload(a, endpoint, upload) ==
    /\ job[a].pc = "idle"
    /\ LoopIsFree
    /\ IF Accepted(upload)
       THEN Admit(a, endpoint, [document |-> UploadId[upload.stem], text |-> upload.text])
       ELSE Step(a, "refused") /\ UNCHANGED loop
    /\ UNCHANGED <<file, contexts, chat, sent, saved, tears, overlapped, faults, crashes>>

SaveDocument(a) ==
    /\ job[a].pc = "document"
    /\ \E ok \in BOOLEAN :
          /\ AppendTo("documents", RecordOf(a, job[a].document, job[a].text, 0), ok)
          /\ Faulty(~ok)
    /\ Step(a, "read")
    /\ overlapped' = overlapped \cup
          {job[b].document : b \in {b \in Analyses \ {a} : /\ job[b].pc \in Saving \ {"document"}
                                                           /\ job[b].document = job[a].document}}
    /\ UNCHANGED <<contexts, loop, chat, sent, crashes>>

ReadExisting(a) ==
    /\ job[a].pc = "read"
    /\ file["chunks"].decodes
    /\ \E failed \in BOOLEAN :
          /\ Faulty(failed)
          /\ job' = [job EXCEPT ![a].pc = "chunks",
                                ![a].seen = Existing(ReadOf("chunks", failed), job[a].document)]
    /\ UNCHANGED <<file, contexts, loop, chat, sent, saved, tears, overlapped, crashes>>

\* The error of a file that does not decode ends the request, whatever was analysed.
ReadExistingFails(a) ==
    /\ job[a].pc = "read"
    /\ ~file["chunks"].decodes
    /\ Step(a, "failed")
    /\ Leave(a)
    /\ UNCHANGED <<file, contexts, chat, sent, saved, tears, overlapped, faults, crashes>>

SaveChunk(a) ==
    /\ job[a].pc = "chunks"
    /\ LET n == job[a].counted + 1
       IN  /\ \/ /\ <<n, job[a].text>> \in job[a].seen
                 /\ UNCHANGED <<file, saved, tears, faults>>
              \/ /\ <<n, job[a].text>> \notin job[a].seen
                 /\ \E ok \in BOOLEAN :
                       /\ AppendTo("chunks", RecordOf(a, job[a].document, job[a].text, n), ok)
                       /\ Faulty(~ok)
           /\ job' = IF n < Count[job[a].text] THEN [job EXCEPT ![a].counted = n]
                     ELSE [job EXCEPT ![a].counted = 0, ![a].seen = {},
                                      ![a].pc = IF job[a].endpoint = "full" THEN "context" ELSE "event"]
    /\ UNCHANGED <<contexts, loop, chat, sent, overlapped, crashes>>

\* A card quotes its text: with a line separator in a chunk its record breaks as well.
EventRecord(a) ==
    [RecordOf(a, job[a].document, job[a].text, 0) EXCEPT
        !.whole = \A n \in 1..Count[job[a].text] : <<job[a].text, n>> \notin Split]

SaveEvent(a) ==
    /\ job[a].pc = "event"
    /\ \E ok \in BOOLEAN :
          /\ AppendTo("events", EventRecord(a), ok)
          /\ Faulty(~ok)
    /\ Step(a, "context")
    /\ UNCHANGED <<contexts, loop, chat, sent, overlapped, crashes>>

FragmentsOf(document, text) ==
    [n \in 1..Count[text] |-> [document |-> document, n |-> n, text |-> text]]

\* Mutant: the store may hold one more than its limit.
EvictedLate(stored) == IF Len(stored) > MaxContexts + 1 THEN Tail(stored) ELSE stored

Evicted(stored) == IF Len(stored) > MaxContexts THEN Tail(stored) ELSE stored

\* save_document_context: the newest is kept last, the oldest is evicted; then the reply.
SaveContext(a) ==
    /\ job[a].pc = "context"
    /\ contexts' = Evicted(Append(Picked(contexts, DOMAIN contexts \ About(contexts, job[a].document)),
                                  [document  |-> job[a].document,
                                   fragments |-> FragmentsOf(job[a].document, job[a].text)]))
    /\ Step(a, "done")
    /\ Leave(a)
    /\ UNCHANGED <<file, chat, sent, saved, tears, overlapped, faults, crashes>>

-----------------------------------------------------------------------------
(* The chat. *)

ContextOf(document) ==
    LET at == About(contexts, document)
    IN  IF at = {} THEN <<>> ELSE contexts[CHOOSE i \in at : TRUE].fragments

\* score_fragment: what the words of the question find in a chunk's text.
Score(question, fragment) == question.score[<<fragment.text, fragment.n>>]

\* retrieve_top_fragments: those with a score, the best first, in order among equals.
Retrieved(question, fragments) ==
    LET points   == [i \in DOMAIN fragments |-> Score(question, fragments[i])]
        relevant == {i \in DOMAIN fragments : points[i] > 0}
        better   == {p \in relevant \X relevant : \/ points[p[1]] > points[p[2]]
                                                  \/ points[p[1]] = points[p[2]] /\ p[1] < p[2]}
        ranked   == InOrder(relevant, better)
    IN  [i \in 1..(IF Len(ranked) > TopK THEN TopK ELSE Len(ranked)) |-> fragments[ranked[i]]]

\* Stored chunks come first; the context store is asked only when there are none.
KnownFragments(document, records) ==
    LET stored == Latest(records, document)
    IN  IF stored # <<>> THEN stored ELSE ContextOf(document)

Found(k, question, fragments) ==
    LET top == Retrieved(question, fragments)
    IN  chat' = [chat EXCEPT ![k] = [pc |-> IF top = <<>> THEN "noData" ELSE "asking", sources |-> <<>>,
                                     question |-> question, found |-> top]]

\* Fragments and chunks that come with the question go before everything stored.
Own(question) == question.own \o question.chunks

Reads(question) == Own(question) = <<>> /\ question.document # None

Retrieve(k, question) ==
    /\ chat[k].pc = "idle"
    /\ LoopIsFree
    /\ loop' = k
    /\ \/ Reads(question) /\ file["chunks"].decodes /\ \E failed \in BOOLEAN :
             /\ Faulty(failed)
             /\ Found(k, question, KnownFragments(question.document, ReadOf("chunks", failed)))
       \/ ~Reads(question) /\ Found(k, question, Own(question)) /\ UNCHANGED faults
    /\ UNCHANGED <<file, contexts, job, sent, saved, tears, overlapped, crashes>>

RetrieveFails(k, question) ==
    /\ chat[k].pc = "idle"
    /\ LoopIsFree
    /\ Reads(question)
    /\ ~file["chunks"].decodes
    /\ chat' = [chat EXCEPT ![k].pc = "failed"]
    /\ UNCHANGED <<file, contexts, loop, job, sent, saved, tears, overlapped, faults, crashes>>

\* The document the question names, else that of the first source, else of the first fragment
\* that came with the question, else "unknown".
AboutDocument(question, sources) ==
    CASE question.document # None -> question.document
      [] question.document = None /\ sources # <<>> -> sources[1].document
      [] question.document = None /\ sources = <<>> /\ question.own # <<>> -> question.own[1].document
      [] OTHER -> None

\* _persist_rag_answer, after every answer.
Tell(k, sources) ==
    /\ \E ok \in BOOLEAN :
          /\ AppendTo("chats", RecordOf(k, AboutDocument(chat[k].question, sources), None, 0), ok)
          /\ Faulty(~ok)
    /\ chat' = [chat EXCEPT ![k] = [NoChat EXCEPT !.pc = "done", !.sources = sources]]
    /\ Leave(k)
    /\ UNCHANGED <<contexts, job, sent, overlapped, crashes>>

\* Nothing to ground an answer on: no provider is asked.
TellNoData(k) == chat[k].pc = "noData" /\ Tell(k, <<>>)

\* The provider sees no answer in the fragments.
ProviderHasNoData(k) == chat[k].pc = "asking" /\ Tell(k, <<>>)

\* The provider cites fragments by id; ids that were not given to it count for nothing, and
\* an answer that cites none is given all; so is the extract when the provider fails.
TellAnswer(k) ==
    /\ chat[k].pc = "asking"
    /\ \E cited \in SUBSET {chat[k].found[i].n : i \in DOMAIN chat[k].found} :
          LET named == Picked(chat[k].found, {i \in DOMAIN chat[k].found : chat[k].found[i].n \in cited})
          IN  Tell(k, IF named # <<>> THEN named ELSE chat[k].found)

-----------------------------------------------------------------------------
(* Mock delivery. *)

\* mock_send_notification's event: the one asked for by its id, whatever its document, else
\* the document's latest.
EventFor(notice, records) ==
    LET byId == LatestOf(records, {i \in DOMAIN records : records[i].by = notice.event}, None)
    IN  IF notice.event # None /\ byId # None THEN byId
        ELSE LatestOf(records, About(records, notice.document), None)

\* Mutant: without an event there is nothing to check against.
EventOrNothing(notice, events, documents) == EventFor(notice, events)

Basis(notice, events, documents) ==
    LET event == EventFor(notice, events)
    IN  IF event # None THEN event
        ELSE LatestOf(documents, About(documents, notice.document), None)

\* validate_notification_can_be_sent: with neither event nor document, clients are unchecked.
Permitted(notice, basis) ==
    /\ notice.proper
    /\ basis # None => basis.text \notin Neutral /\ notice.draftedFor \in Listed[basis.text]

\* Either journal may fail to be read, and then looks empty.
Send(s, notice) ==
    /\ sent[s].status = "none"
    /\ LoopIsFree
    /\ notice.draftedFor = notice.client
    /\ file["events"].decodes /\ file["documents"].decodes
    /\ \E unread \in SUBSET {"events", "documents"}, ok \in BOOLEAN :
          LET basis == Basis(notice, ReadOf("events", "events" \in unread),
                                     ReadOf("documents", "documents" \in unread))
          IN  /\ Faulty(unread # {} \/ ~ok)
              /\ IF Permitted(notice, basis)
                 THEN /\ sent' = [sent EXCEPT ![s] =
                             [status |-> "sent", notice |-> notice, blind |-> basis = None,
                              known  |-> \E r \in saved["documents"] : r.document = notice.document]]
                      /\ AppendTo("notifications", RecordOf(s, notice.document, None, 0), ok)
                 ELSE /\ ok
                      /\ sent' = [sent EXCEPT ![s] = NotSent("refused")]
                      /\ UNCHANGED <<file, saved, tears>>
    /\ UNCHANGED <<contexts, loop, job, chat, overlapped, crashes>>

RefuseSend(s, notice) ==
    /\ sent[s].status = "none"
    /\ LoopIsFree
    /\ notice.draftedFor # notice.client
    /\ sent' = [sent EXCEPT ![s] = NotSent("refused")]
    /\ UNCHANGED <<file, contexts, loop, job, chat, saved, tears, overlapped, faults, crashes>>

SendFails(s, notice) ==
    /\ sent[s].status = "none"
    /\ LoopIsFree
    /\ notice.draftedFor = notice.client
    /\ \E f \in {"events", "documents"} : ~file[f].decodes
    /\ sent' = [sent EXCEPT ![s] = NotSent("failed")]
    /\ UNCHANGED <<file, contexts, loop, job, chat, saved, tears, overlapped, faults, crashes>>

-----------------------------------------------------------------------------
(* The process dies and starts again. *)

\* What is being written.
WritesTo == [document |-> "documents", chunks |-> "chunks", event |-> "events"]

Writing == {WritesTo[job[a].pc] : a \in {a \in Analyses : job[a].pc \in DOMAIN WritesTo}}
           \cup {"chats" : k \in {k \in Asks : chat[k].pc \in {"asking", "noData"}}}

Torn(f, inCharacter) ==
    /\ file' = [file EXCEPT ![f].torn = TRUE, ![f].decodes = @ /\ ~inCharacter]
    /\ tears' = [tears EXCEPT ![f] = @ + 1]

Crash ==
    /\ faults + crashes < MaxMishaps
    /\ crashes' = crashes + 1
    /\ job' = [a \in Analyses |-> IF job[a].pc \in Saving THEN [job[a] EXCEPT !.pc = "lost"] ELSE job[a]]
    /\ chat' = [k \in Asks |-> IF chat[k].pc \in {"asking", "noData"} THEN [chat[k] EXCEPT !.pc = "lost"]
                               ELSE chat[k]]
    /\ contexts' = <<>>
    /\ loop' = None
    /\ \/ UNCHANGED <<file, tears>>
       \/ \E f \in Writing, inCharacter \in BOOLEAN : Torn(f, inCharacter)
    /\ UNCHANGED <<sent, saved, overlapped, faults>>

\* Every request was answered or lost.
Done ==
    /\ \A a \in Analyses : job[a].pc \in {"done", "failed", "lost", "refused"}
    /\ \A k \in Asks : chat[k].pc \in {"done", "failed", "lost"}
    /\ \A s \in Sends : sent[s].status # "none"
    /\ UNCHANGED vars

Next ==
    \/ \E a \in Analyses, endpoint \in {"contract", "card", "full"}, work \in Works :
          StartAnalysis(a, endpoint, work)
    \/ \E a \in Analyses, endpoint \in {"card", "full"}, upload \in Uploads : StartUpload(a, endpoint, upload)
    \/ \E a \in Analyses :
          \/ SaveDocument(a) \/ ReadExisting(a) \/ ReadExistingFails(a)
          \/ SaveChunk(a) \/ SaveEvent(a) \/ SaveContext(a)
    \/ \E k \in Asks :
          \/ \E question \in Questions : Retrieve(k, question) \/ RetrieveFails(k, question)
          \/ TellNoData(k) \/ ProviderHasNoData(k) \/ TellAnswer(k)
    \/ \E s \in Sends, notice \in Notices :
          Send(s, notice) \/ RefuseSend(s, notice) \/ SendFails(s, notice)
    \/ Crash
    \/ Done

Spec == Init /\ [][Next]_vars

-----------------------------------------------------------------------------
(* What can be relied on. *)

\* A record that was reported saved stays on a line of its own, unless it was glued to a torn
\* line: each line that a fault or a crash tears costs at most one record saved after it.
NothingSavedIsLost ==
    \A f \in Files : Cardinality(saved[f] \ ToSet(file[f].records)) <= tears[f]

\* Without faults and crashes, when no two analyses of a document were saved at a time, the
\* stored chunks are those of its latest text, for every chunk that text has and that can be
\* read; only chunks beyond its end may be left of an earlier, longer text.
ChunksFollowTheDocument ==
    \A d \in Documents \ overlapped :
        (faults = 0 /\ crashes = 0 /\ \A a \in Analyses : job[a].pc \in Saving => job[a].document # d) =>
            LET latest == LatestOf(file["documents"].records, About(file["documents"].records, d), None)
                stored == Latest(Readable(file["chunks"]), d)
            IN  latest # None =>
                    \A n \in 1..Count[latest.text] :
                        <<latest.text, n>> \notin Split =>
                            [document |-> d, n |-> n, text |-> latest.text] \in ToSet(stored)

IsChunkOf(record, r) == record.document = r.document /\ record.n = r.n /\ record.whole

\* A record of r's chunk with another text stands after every one, whoever wrote it, with r's.
Replaced(records, r) ==
    \E later \in DOMAIN records :
        /\ IsChunkOf(records[later], r) /\ records[later].text # r.text
        /\ \A i \in DOMAIN records :
              IsChunkOf(records[i], r) /\ records[i].text = r.text => i < later

\* The chat has nothing to say of a document only if each chunk that was reported saved and bears
\* on the question was replaced: the file holds, after it, a record of the same chunk with another
\* text.  Evicted contexts and restarts do not make the chat forget, and it is not told an earlier
\* text where a later one stands.
SavedDocumentsAnswer ==
    [][\A k \in Asks :
        (/\ chat[k].pc = "idle" /\ chat'[k].pc = "noData"
         /\ faults' = faults /\ tears["chunks"] = 0
         /\ Reads(chat'[k].question)) =>
            \A r \in saved["chunks"] :
                (/\ r.document = chat'[k].question.document
                 /\ r.whole
                 /\ chat'[k].question.score[<<r.text, r.n>>] > 0) =>
                    Replaced(file["chunks"].records, r)]_vars

\* A message goes out to a client that some analysis of that document, or of the event the
\* request names, listed and found a domain for; unchecked messages go out only for documents
\* that were not known to be saved, or after a file was damaged or could not be read.
SentToListedClients ==
    \A s \in Sends :
        sent[s].status = "sent" =>
            \/ /\ ~sent[s].blind
               /\ \E a \in Analyses :
                     /\ job[a].document = sent[s].notice.document \/ a = sent[s].notice.event
                     /\ job[a].text \in Texts \ Neutral
                     /\ sent[s].notice.client \in Listed[job[a].text]
            \/ sent[s].blind /\ (~sent[s].known \/ faults > 0 \/ crashes > 0)

\* "Storage error не меняет AI результат и добавляет persistence warning."
\* (regradar_ai/docs/AI_MODULE_PIPELINE.md:469): a finished analysis is answered.
ResultSurvivesStorage == \A a \in Analyses : job[a].pc # "failed"
================================================================================
