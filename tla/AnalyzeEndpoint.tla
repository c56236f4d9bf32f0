----------------------------- MODULE AnalyzeEndpoint -----------------------------
(***************************************************************************)
(* The Python AI service while it serves analyses: POST /analyze, which    *)
(* runs the analysis in a worker thread under a deadline, beside the       *)
(* `async def` endpoints that run the same synchronous analysis on the     *)
(* event loop itself and so hold the loop until they are done.             *)
(*                                                                         *)
(* An analysis asks the provider through LLMGateway (retries, one language *)
(* retry), falls back to the controlled baseline when that fails, and then *)
(* appends what it made to the JSONL files.  A thread cannot be stopped:   *)
(* after the deadline it goes on without its caller.                       *)
(*                                                                         *)
(* Time is counted in ticks and passes only while every analysis waits:    *)
(* for the provider, for a worker or for the loop.  An attempt that times  *)
(* out takes at least AttemptTime, as httpx applies the timeout to each    *)
(* network operation of the attempt.                                       *)
(***************************************************************************)
EXTENDS Naturals, FiniteSets, SequencesExt

CONSTANTS
    Calls,         \* POST /analyze requests
    Cards,         \* POST /api/events/create-card, .../upload-create-card, ...
    FullAnalyses,  \* POST /api/ai/full-analysis and .../upload-analysis
    Threads,       \* workers of the loop's default executor
    Retries,       \* POLZA_MAX_RETRIES
    AttemptTime,   \* POLZA_TIMEOUT_SECONDS, in ticks
    SlowestAttempt,\* bound: ticks an attempt may take
    Deadline,      \* BACKEND_CONTRACT_TIMEOUT_SECONDS, in ticks
    Outcomes,      \* how an attempt of a configured provider may end, for each request
    MaxFaults,     \* bound: files that could not be appended to
    None           \* "no request", "no analysis yet"

Blocking == Cards \cup FullAnalyses
Requests == Calls \cup Blocking

Failures == {"timeout", "error", "config"}

ASSUME AnalyzeAssumption ==
    /\ IsFiniteSet(Requests)
    /\ Calls \cap Blocking = {}
    /\ Cards \cap FullAnalyses = {}
    /\ None \notin Requests
    /\ Threads \in Nat \ {0}
    /\ Retries \in Nat
    /\ AttemptTime \in Nat \ {0}
    /\ SlowestAttempt \in Nat
    /\ SlowestAttempt >= AttemptTime
    /\ Deadline \in Nat \ {0}
    /\ Outcomes \in [Requests -> SUBSET {"valid", "foreign", "timeout", "error"}]
    /\ MaxFaults \in Nat

VARIABLES
    setup,      \* is the provider usable: the same for the whole life of the process
    loop,       \* the blocking request that holds the event loop
    queue,      \* the executor's queue of calls
    pc,         \* where a request's analysis stands
    operation,  \* the generate_structured call it is in
    tries,      \* attempts of that call that have failed
    made,       \* the audit records it has made, in order; a record's position is its call id
    execution,  \* _LAST_EXECUTION of each context: the call ids left there
    report,     \* the call ids, the baseline flag and the *_saved flags of its answer
    log,        \* llm_calls.jsonl: the ids of the records that were written
    stored,     \* what it appended to the other files and the context store
    answer,     \* the HTTP answer
    age,        \* ticks since wait_for started, for a call without an answer
    elapsed,    \* ticks since its current attempt started
    faults

analysisVars == <<operation, tries, made, execution, report, log, stored>>
timeVars     == <<age, elapsed>>
vars == <<setup, loop, queue, pc, analysisVars, answer, timeVars, faults>>

-----------------------------------------------------------------------------
(* Shape of the state. *)

Pieces == {"document", "chunks", "event", "context"}
Ids    == Requests \X Nat

Record == [operation : {"document_analysis", "language_retry", "fallback"},
           status    : {"valid", "foreign", "fallback"} \cup Failures]

Report == [ids : SUBSET Ids, baseline : BOOLEAN, saved : SUBSET Pieces]

Pc == {"ready", "queued", "call", "read", "fallback", "ended", "rejected", "cancelled"} \cup Pieces

TypeOK ==
    /\ setup \in {"ready", "noKey", "noPrompt"}
    /\ loop \in Blocking \cup {None}
    /\ queue \in Seq(Calls)
    /\ pc \in [Requests -> Pc]
    /\ operation \in [Requests -> {"document_analysis", "language_retry"}]
    /\ tries \in [Requests -> 0..Retries]
    /\ made \in [Requests -> Seq(Record)]
    /\ execution \in [Requests -> SUBSET Ids]
    /\ report \in [Requests -> Report]
    /\ log \subseteq Ids
    /\ stored \in [Requests -> SUBSET Pieces]
    /\ answer \in [Requests -> {"none", "OK", "BadRequest", "Timeout"}]
    /\ age \in [Requests -> 0..(Deadline + 1)]
    /\ elapsed \in [Requests -> 0..SlowestAttempt]
    /\ faults \in 0..MaxFaults

Init ==
    /\ setup \in {"ready", "noKey", "noPrompt"}
    /\ loop = None
    /\ queue = <<>>
    /\ pc = [r \in Requests |-> "ready"]
    /\ operation = [r \in Requests |-> "document_analysis"]
    /\ tries = [r \in Requests |-> 0]
    /\ made = [r \in Requests |-> <<>>]
    /\ execution = [r \in Requests |-> {}]
    /\ report = [r \in Requests |-> [ids |-> {}, baseline |-> FALSE, saved |-> {}]]
    /\ log = {}
    /\ stored = [r \in Requests |-> {}]
    /\ answer = [r \in Requests |-> "none"]
    /\ age = [r \in Requests |-> 0]
    /\ elapsed = [r \in Requests |-> 0]
    /\ faults = 0

-----------------------------------------------------------------------------
(* Threads, contexts and the loop. *)

Goto(r, label) == pc' = [pc EXCEPT ![r] = label]

LoopIsFree == loop = None

\* The calls that hold a worker: a worker is not released by the deadline.
Working == {r \in Calls : pc[r] \notin {"ready", "queued", "ended", "rejected", "cancelled"}}

\* Mutant: the execution details are a module variable.
SharedContext(r) == CHOOSE any \in Requests : TRUE

\* to_thread copies the context and asyncio.run starts a task in a copy of it.
ContextOf(r) == r

-----------------------------------------------------------------------------
(* Arrival. *)

\* wait_for starts: the call's work is put in the executor's queue.
Arrive(c) ==
    /\ pc[c] = "ready"
    /\ LoopIsFree
    /\ queue' = Append(queue, c)
    /\ Goto(c, "queued")
    /\ UNCHANGED <<setup, loop, analysisVars, answer, timeVars, faults>>

\* full_ai_analysis begins: a missing or unrenderable prompt ends the gateway's
\* part before its first attempt.
Begin(r) ==
    /\ Goto(r, IF setup = "noPrompt" THEN "fallback" ELSE "call")
    /\ execution' = [execution EXCEPT ![ContextOf(r)] = {}]
    /\ UNCHANGED <<setup, operation, tries, made, report, log, stored, answer, timeVars, faults>>

ArriveBlocking(b) ==
    /\ pc[b] = "ready"
    /\ LoopIsFree
    /\ loop' = b
    /\ Begin(b)
    /\ UNCHANGED queue

WorkerIsFree == Cardinality(Working) < Threads

StartThread(c) ==
    /\ queue # <<>>
    /\ c = Head(queue)
    /\ WorkerIsFree
    /\ queue' = Tail(queue)
    /\ Begin(c)
    /\ UNCHANGED loop

\* BackendContractService.analyze refuses a blank text, in the thread.
Reject(c) ==
    /\ queue # <<>>
    /\ c = Head(queue)
    /\ WorkerIsFree
    /\ queue' = Tail(queue)
    /\ Goto(c, "rejected")
    /\ UNCHANGED <<setup, loop, analysisVars, answer, timeVars, faults>>

-----------------------------------------------------------------------------
(* The gateway's attempts. *)

\* A record's call id is in the answer whether or not the record could be written.
Logged(r, op, status) ==
    /\ made' = [made EXCEPT ![r] = Append(@, [operation |-> op, status |-> status])]
    /\ \/ /\ log' = log \cup {<<r, Len(made[r]) + 1>>}
          /\ UNCHANGED faults
       \/ /\ faults < MaxFaults
          /\ faults' = faults + 1
          /\ UNCHANGED log

\* The gateway object is the request's own and keeps the ids of all its attempts.
LeaveExecution(r) ==
    execution' = [execution EXCEPT ![ContextOf(r)] = {<<r, n>> : n \in 1..(Len(made[r]) + 1)}]

\* An attempt of the provider ends with this outcome.
Attempted(r, status) ==
    /\ pc[r] = "call"
    /\ IF setup = "noKey" THEN status = "config" ELSE status \in Outcomes[r]
    /\ status = "timeout" => elapsed[r] >= AttemptTime
    /\ elapsed' = [elapsed EXCEPT ![r] = 0]
    /\ Logged(r, operation[r], status)
    /\ UNCHANGED <<setup, loop, queue, report, stored, answer, age>>

\* Mutant: one attempt more than range(max_retries + 1).
TriesOneMore(r) == tries[r] <= Retries

TriesLeft(r) == tries[r] < Retries

\* Mutant: a missing key is retried like any other failure.
RetriedWhatever(r, status) == status \in Failures /\ TriesLeft(r)

\* Mutant: a timeout is taken for final.
RetriedUnlessTimeout(r, status) == status = "error" /\ TriesLeft(r)

Retried(r, status) == status \in Failures \ {"config"} /\ TriesLeft(r)

Retry(r, status) ==
    /\ Retried(r, status)
    /\ Attempted(r, status)
    /\ tries' = [tries EXCEPT ![r] = @ + 1]
    /\ UNCHANGED <<pc, operation, execution>>

\* The last error leaves generate_structured: the execution is left behind for
\* the fallback to read.
GiveUp(r, status) ==
    /\ status \in Failures
    /\ ~Retried(r, status)
    /\ Attempted(r, status)
    /\ LeaveExecution(r)
    /\ Goto(r, "fallback")
    /\ UNCHANGED <<operation, tries>>

Usable(r) ==
    /\ Attempted(r, "valid")
    /\ LeaveExecution(r)
    /\ Goto(r, "read")
    /\ UNCHANGED <<operation, tries>>

\* The first answer in another language is asked again, in a new call.
AskAgain(r) ==
    /\ operation[r] = "document_analysis"
    /\ Attempted(r, "foreign")
    /\ operation' = [operation EXCEPT ![r] = "language_retry"]
    /\ tries' = [tries EXCEPT ![r] = 0]
    /\ UNCHANGED <<pc, execution>>

\* The second is a language error.
StillForeign(r) ==
    /\ operation[r] = "language_retry"
    /\ Attempted(r, "foreign")
    /\ LeaveExecution(r)
    /\ Goto(r, "fallback")
    /\ UNCHANGED <<operation, tries>>

-----------------------------------------------------------------------------
(* The answer and what is kept of it. *)

\* get_last_gateway_execution, after the provider's answer ...
ReadExecution(r) ==
    /\ pc[r] = "read"
    /\ report' = [report EXCEPT ![r].ids = execution[ContextOf(r)]]
    /\ Goto(r, "document")
    /\ UNCHANGED <<setup, loop, queue, operation, tries, made, execution, log, stored,
                   answer, timeVars, faults>>

\* ... or in the handler of SAFE_FALLBACK_ERRORS, which logs a record of its own.
Fallback(r) ==
    /\ pc[r] = "fallback"
    /\ Logged(r, "fallback", "fallback")
    /\ report' = [report EXCEPT
                     ![r].ids = execution[ContextOf(r)] \cup {<<r, Len(made[r]) + 1>>},
                     ![r].baseline = TRUE]
    /\ Goto(r, "document")
    /\ UNCHANGED <<setup, loop, queue, operation, tries, execution, stored, answer, timeVars>>

\* run_full_analysis makes no event card.
PieceAfter(r, piece) ==
    CASE piece = "document" -> "chunks"
      [] piece = "chunks"   -> IF r \in FullAnalyses THEN "context" ELSE "event"
      [] piece = "event"    -> "context"
      [] piece = "context"  -> "ended"

\* Mutant: event_saved, set before the card is written, stays set when it is not.
FlagStays(saved, piece) == IF piece = "event" THEN saved \cup {piece} ELSE saved

\* The flags after a file could not be appended to.
FlagsAfterError(saved, piece) == saved

SavedStep(r, piece) ==
    /\ pc[r] = piece
    /\ Goto(r, PieceAfter(r, piece))
    /\ IF piece = "context" /\ r \in Blocking
       THEN /\ loop' = None
            /\ answer' = [answer EXCEPT ![r] = "OK"]
       ELSE UNCHANGED <<loop, answer>>
    /\ UNCHANGED <<setup, queue, operation, tries, made, execution, log, timeVars>>

\* After its last piece a blocking request answers and frees the loop.
Save(r, piece) ==
    /\ SavedStep(r, piece)
    /\ stored' = [stored EXCEPT ![r] = @ \cup {piece}]
    /\ report' = [report EXCEPT ![r].saved = @ \cup {piece}]
    /\ UNCHANGED faults

\* append_jsonl returns FALSE after an OSError; the context store is in memory.
SaveFails(r, piece) ==
    /\ piece # "context"
    /\ faults < MaxFaults
    /\ SavedStep(r, piece)
    /\ report' = [report EXCEPT ![r].saved = FlagsAfterError(@, piece)]
    /\ faults' = faults + 1
    /\ UNCHANGED stored

-----------------------------------------------------------------------------
(* wait_for, on the loop. *)

Waiting(c) == pc[c] # "ready" /\ answer[c] = "none"

ThreadDone(c) == pc[c] \in {"ended", "rejected"}

\* Mutant: a result that arrives after the deadline is dropped.
DeliverableInTime(c) == ThreadDone(c) /\ age[c] < Deadline

\* The thread's result is returned even if the loop only gets to it after the deadline.
Deliverable(c) == ThreadDone(c)

Deliver(c) ==
    /\ LoopIsFree
    /\ Waiting(c)
    /\ Deliverable(c)
    /\ answer' = [answer EXCEPT ![c] = IF pc[c] = "rejected" THEN "BadRequest" ELSE "OK"]
    /\ UNCHANGED <<setup, loop, queue, pc, analysisVars, timeVars, faults>>

Expired(c) == Waiting(c) /\ ~ThreadDone(c) /\ age[c] >= Deadline

\* Mutant: cancelling the future leaves its work in the executor's queue.
WorkStaysQueued(c) == UNCHANGED <<queue, pc>>

\* A work item that has not started is cancelled, one that runs goes on.
CancelWork(c) ==
    IF pc[c] = "queued"
    THEN /\ \E i \in DOMAIN queue : queue[i] = c /\ queue' = RemoveAt(queue, i)
         /\ Goto(c, "cancelled")
    ELSE UNCHANGED <<queue, pc>>

Expire(c) ==
    /\ LoopIsFree
    /\ Expired(c)
    /\ answer' = [answer EXCEPT ![c] = "Timeout"]
    /\ CancelWork(c)
    /\ UNCHANGED <<setup, loop, analysisVars, timeVars, faults>>

-----------------------------------------------------------------------------
(* Time. *)

Least(a, b) == IF a < b THEN a ELSE b

Due(c) == Waiting(c) /\ (Deliverable(c) \/ Expired(c))

\* Some code can run at once: of a thread or of the blocking request, of an idle
\* worker, of a free loop.
Busy ==
    \/ \E r \in Requests : pc[r] \in {"read", "fallback"} \cup Pieces
    \/ queue # <<>> /\ WorkerIsFree
    \/ LoopIsFree /\ \E c \in Calls : Due(c)

InCall == {r \in Requests : pc[r] = "call"}

Tick ==
    /\ ~Busy
    /\ \A r \in InCall : elapsed[r] < SlowestAttempt
    /\ age' = [r \in Requests |->
                  IF r \in Calls /\ Waiting(r) THEN Least(age[r] + 1, Deadline + 1) ELSE age[r]]
    /\ elapsed' = [r \in Requests |-> IF r \in InCall THEN elapsed[r] + 1 ELSE elapsed[r]]
    /\ timeVars' # timeVars
    /\ UNCHANGED <<setup, loop, queue, pc, analysisVars, answer, faults>>

\* Every request that came has its answer and no thread is left: quiet until the next.
Quiet ==
    /\ \A r \in Requests : pc[r] \in {"ended", "rejected", "cancelled"} /\ answer[r] # "none"
    /\ UNCHANGED vars

-----------------------------------------------------------------------------
Analyze(r) ==
    \/ \E status \in Failures : Retry(r, status) \/ GiveUp(r, status)
    \/ Usable(r)
    \/ AskAgain(r)
    \/ StillForeign(r)
    \/ ReadExecution(r)
    \/ Fallback(r)
    \/ \E piece \in Pieces : Save(r, piece) \/ SaveFails(r, piece)

Take(c) == StartThread(c) \/ Reject(c)

Answer(c) == Deliver(c) \/ Expire(c)

Next ==
    \/ \E c \in Calls : Arrive(c) \/ Take(c) \/ Answer(c)
    \/ \E b \in Blocking : ArriveBlocking(b)
    \/ \E r \in Requests : Analyze(r)
    \/ Tick
    \/ Quiet

Spec == Init /\ [][Next]_vars

\* Threads are scheduled, attempts end, idle workers take work, the loop runs
\* its callbacks whenever it is not held, and time passes.
Fairness ==
    /\ \A r \in Requests : WF_vars(Analyze(r))
    /\ \A c \in Calls : WF_vars(Take(c)) /\ WF_vars(Answer(c))
    /\ WF_vars(Tick)

FairSpec == Spec /\ Fairness
-----------------------------------------------------------------------------
(* Properties. *)

Finished(r) == pc[r] = "ended"

\* The call ids of an analysis are those of its own audit records, all of them,
\* and every record it made in the log is among them, whatever other analyses
\* ran in other threads (_LAST_EXECUTION, llm_call_ids).
AnswersMatchAudit ==
    \A r \in Requests : Finished(r) =>
        /\ report[r].ids = {<<r, n>> : n \in DOMAIN made[r]}
        /\ {id \in log : id[1] = r} \subseteq report[r].ids

\* The attempts of one generate_structured call that failed.
Failed(r, op) ==
    {n \in DOMAIN made[r] : made[r][n].operation = op /\ made[r][n].status \in Failures}

Exhausted(r) ==
    \/ \E n \in DOMAIN made[r] : made[r][n].status = "config"
    \/ \E op \in {"document_analysis", "language_retry"} :
          Cardinality(Failed(r, op)) = Retries + 1
    \/ \E n \in DOMAIN made[r] :
          made[r][n].operation = "language_retry" /\ made[r][n].status = "foreign"

\* An answer is built on the baseline only when the prompt is missing or the
\* provider was given every attempt it is due, and an answer that is not was
\* the provider's last, valid one; nothing is asked after a valid answer or
\* after a configuration error (generate_structured, the language retry, the
\* handler of SAFE_FALLBACK_ERRORS).
BaselineAsLastResort ==
    \A r \in Requests : Finished(r) =>
        IF report[r].baseline
        THEN setup = "noPrompt" \/ Exhausted(r)
        ELSE made[r] # <<>> /\ made[r][Len(made[r])].status = "valid"

NothingAskedInVain ==
    \A r \in Requests, n \in 1..(2 * Retries + 2) :
        n < Len(made[r]) =>
            /\ made[r][n].status # "valid"
            /\ made[r][n].status = "config" => made[r][n + 1].operation = "fallback"

\* The *_saved flags of an analysis tell what its files hold, also when an
\* append failed in the middle (persist_event sets its flag before it saves).
SavedFlagsTrue ==
    \A r \in Requests : Finished(r) => report[r].saved = stored[r]

\* A call that was answered 504 while it was still in the executor's queue is
\* never analysed: no attempt, no record, no file (wait_for cancels its work).
TimedOutInQueue(c) == answer[c] = "Timeout" /\ made[c] = <<>> /\ pc[c] \in {"queued", "cancelled"}

CancelledCallsNeverRun ==
    [][\A c \in Calls : TimedOutInQueue(c) => TimedOutInQueue(c)']_vars

\* Every call that came is answered, also when the loop was held past its
\* deadline or all workers are busy with calls that were given up.
EveryCallAnswered ==
    \A c \in Calls : pc[c] = "queued" ~> answer[c] # "none"

-----------------------------------------------------------------------------
(* What the documents and comments say and the code does not do. *)

\* contract_router.py: the worker thread lets the HTTP layer enforce the
\* deadline: no call is left without an answer past it.
DeadlineEnforced == \A c \in Calls : Waiting(c) => age[c] <= Deadline
=============================================================================
