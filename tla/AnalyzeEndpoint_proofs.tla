------------------------- MODULE AnalyzeEndpoint_proofs -------------------------
(***************************************************************************)
(* What holds of every analysis, for every number of requests, workers and *)
(* retries and every behaviour of the provider: what it was asked, what it *)
(* was answered, what the audit and the files hold of it.                  *)
(***************************************************************************)
EXTENDS AnalyzeEndpoint, FiniteSetTheorems, SequenceTheorems, TLAPS

NotBegun == {"ready", "queued", "cancelled", "rejected"}

Kept == Pieces \cup {"ended"}

Ended(r) == pc[r] \in Kept

(* The executor's queue holds calls that wait for a worker, each once, and  *)
(* no call is answered before a worker may take it.                         *)
QueueInv ==
    /\ \A i, j \in DOMAIN queue : queue[i] = queue[j] => i = j
    /\ \A i \in DOMAIN queue : pc[queue[i]] = "queued"
    /\ \A c \in Calls : pc[c] \in {"ready", "queued"} => answer[c] = "none"

(* A request whose analysis has not begun has asked nothing.                *)
NothingYet(r) ==
    pc[r] \in NotBegun => made[r] = <<>> /\ tries[r] = 0 /\ operation[r] = "document_analysis"

(* The baseline is used by the fallback only, and the flags say what the    *)
(* files hold.                                                              *)
FlagsOK(r) ==
    /\ report[r].saved = stored[r]
    /\ report[r].baseline => Ended(r)

(* Every record in the log was made.                                        *)
LogInv == \A id \in log : id[2] \in DOMAIN made[id[1]]

OwnIds(r) == {<<r, n>> : n \in DOMAIN made[r]}

(* The execution that is read, and the ids of the answer, are the request's *)
(* own.                                                                     *)
IdsOK(r) ==
    /\ pc[r] \in {"read", "fallback"} => execution[r] = OwnIds(r)
    /\ Ended(r) => report[r].ids = OwnIds(r)

(* The audit records of a request, as a sequence m.                         *)
FailedIn(m, op) == {n \in DOMAIN m : m[n].operation = op /\ m[n].status \in Failures}

ExhaustedIn(m) ==
    \/ \E n \in DOMAIN m : m[n].status = "config"
    \/ \E op \in {"document_analysis", "language_retry"} : Cardinality(FailedIn(m, op)) = Retries + 1
    \/ \E n \in DOMAIN m : m[n].operation = "language_retry" /\ m[n].status = "foreign"

LastValid(m) == m # <<>> /\ m[Len(m)].status = "valid"

NoneValid(m) == \A n \in DOMAIN m : m[n].status # "valid"

NoneFinal(m) == \A n \in DOMAIN m : m[n].status \in {"timeout", "error", "foreign"}

FirstCallOnly(m) == \A n \in DOMAIN m : m[n].operation = "document_analysis"

(* Nothing is asked after a valid answer or a configuration error.          *)
InOrder(m) ==
    \A n \in DOMAIN m :
        n < Len(m) => /\ m[n].status # "valid"
                      /\ m[n].status = "config" => m[n + 1].operation = "fallback"

(* While the provider is asked, it has answered nothing of use, the second  *)
(* call has not begun before the first was answered, and the failures are   *)
(* counted.                                                                 *)
CallOK(r) ==
    pc[r] = "call" =>
        /\ NoneFinal(made[r])
        /\ operation[r] = "document_analysis" => FirstCallOnly(made[r])
        /\ tries[r] = Cardinality(FailedIn(made[r], operation[r]))

(* The baseline comes after everything else was tried; without it the last  *)
(* answer is valid.                                                         *)
OutcomeOK(r) ==
    /\ InOrder(made[r])
    /\ pc[r] = "read" => LastValid(made[r])
    /\ pc[r] = "fallback" => (setup = "noPrompt" \/ ExhaustedIn(made[r])) /\ NoneValid(made[r])
    /\ Ended(r) => IF report[r].baseline THEN setup = "noPrompt" \/ ExhaustedIn(made[r])
                   ELSE LastValid(made[r])

RequestOK(r) == NothingYet(r) /\ FlagsOK(r) /\ IdsOK(r) /\ CallOK(r) /\ OutcomeOK(r)

AnalyzeInv == TypeOK /\ QueueInv /\ LogInv /\ \A r \in Requests : RequestOK(r)

-----------------------------------------------------------------------------
(* Sequences of audit records.                                              *)

LEMMA Appended ==
    ASSUME NEW m \in Seq(Record), NEW rec \in Record
    PROVE  /\ Append(m, rec) \in Seq(Record) /\ Append(m, rec) # <<>>
           /\ Len(m) \in Nat /\ Len(Append(m, rec)) = Len(m) + 1
           /\ DOMAIN m = 1..Len(m) /\ DOMAIN Append(m, rec) = DOMAIN m \cup {Len(m) + 1}
           /\ Len(m) + 1 \notin DOMAIN m
           /\ \A n \in DOMAIN m : Append(m, rec)[n] = m[n]
           /\ Append(m, rec)[Len(m) + 1] = rec
<1>1. Len(m) \in Nat /\ DOMAIN m = 1..Len(m) /\ DOMAIN Append(m, rec) = 1..(Len(m) + 1)
  OBVIOUS
<1>2. 1..(Len(m) + 1) = (1..Len(m)) \cup {Len(m) + 1}
  BY <1>1
<1>3. QED
  BY <1>1, <1>2

(* A failure counts for the call it happened in, and nothing else does.     *)
LEMMA FailureCounted ==
    ASSUME NEW m \in Seq(Record), NEW rec \in Record, NEW op
    PROVE  /\ rec.operation = op /\ rec.status \in Failures =>
                  Cardinality(FailedIn(Append(m, rec), op)) = Cardinality(FailedIn(m, op)) + 1
           /\ ~(rec.operation = op /\ rec.status \in Failures) =>
                  FailedIn(Append(m, rec), op) = FailedIn(m, op)
<1>1. FailedIn(Append(m, rec), op) =
          FailedIn(m, op) \cup (IF rec.operation = op /\ rec.status \in Failures THEN {Len(m) + 1} ELSE {})
  BY Appended DEF FailedIn
<1>2. IsFiniteSet(FailedIn(m, op)) /\ Len(m) + 1 \notin FailedIn(m, op)
  <2>1. FailedIn(m, op) \subseteq 1..Len(m) /\ Len(m) \in Nat
    BY Appended DEF FailedIn
  <2>2. IsFiniteSet(1..Len(m))
    BY <2>1, FS_Interval
  <2>3. QED
    BY <2>1, <2>2, FS_Subset
<1>3. QED
  BY <1>1, <1>2, FS_AddElement

(* A record added after useless ones keeps the order.                       *)
LEMMA OrderKept ==
    ASSUME NEW m \in Seq(Record), NEW rec \in Record, InOrder(m), NoneValid(m),
           NoneFinal(m) \/ rec.operation = "fallback"
    PROVE  InOrder(Append(m, rec))
  BY Appended DEF InOrder, NoneValid, NoneFinal

(* What exhausted the attempts stays so when the fallback is recorded.      *)
LEMMA ExhaustionStays ==
    ASSUME NEW m \in Seq(Record), NEW rec \in Record, rec.operation = "fallback", ExhaustedIn(m)
    PROVE  ExhaustedIn(Append(m, rec))
<1>1. \A op \in {"document_analysis", "language_retry"} : FailedIn(Append(m, rec), op) = FailedIn(m, op)
  BY FailureCounted
<1>2. QED
  BY <1>1, Appended DEF ExhaustedIn

-----------------------------------------------------------------------------
(* What the common parts of the actions do.                                 *)

LEMMA LoggedStep ==
    ASSUME TypeOK, NEW r \in Requests, NEW op, NEW status,
           [operation |-> op, status |-> status] \in Record, Logged(r, op, status)
    PROVE  /\ made' = [made EXCEPT ![r] = Append(made[r], [operation |-> op, status |-> status])]
           /\ made' \in [Requests -> Seq(Record)]
           /\ log' \subseteq log \cup {<<r, Len(made[r]) + 1>>} /\ log' \subseteq Ids
           /\ faults' \in 0..MaxFaults
<1>1. made' = [made EXCEPT ![r] = Append(made[r], [operation |-> op, status |-> status])]
  BY DEF Logged
<1>2. made \in [Requests -> Seq(Record)] /\ made[r] \in Seq(Record)
  BY DEF TypeOK
<1>3. made' \in [Requests -> Seq(Record)]
  BY <1>1, <1>2, Appended
<1>4. <<r, Len(made[r]) + 1>> \in Ids
  BY <1>2, Appended DEF Ids
<1>5. log' \subseteq log \cup {<<r, Len(made[r]) + 1>>} /\ faults' \in 0..MaxFaults
  BY AnalyzeAssumption DEF Logged, TypeOK
<1>6. QED
  BY <1>1, <1>3, <1>4, <1>5 DEF TypeOK

LEMMA AttemptedStep ==
    ASSUME TypeOK, NEW r \in Requests, NEW status, Attempted(r, status)
    PROVE  /\ pc[r] = "call"
           /\ status \in {"valid", "foreign", "timeout", "error", "config"}
           /\ [operation |-> operation[r], status |-> status] \in Record
           /\ made' = [made EXCEPT ![r] = Append(made[r], [operation |-> operation[r], status |-> status])]
           /\ made' \in [Requests -> Seq(Record)]
           /\ log' \subseteq log \cup {<<r, Len(made[r]) + 1>>} /\ log' \subseteq Ids
           /\ faults' \in 0..MaxFaults
           /\ elapsed' \in [Requests -> 0..SlowestAttempt]
           /\ UNCHANGED <<setup, loop, queue, report, stored, answer, age>>
<1>1. status \in {"valid", "foreign", "timeout", "error", "config"}
  BY AnalyzeAssumption DEF Attempted
<1>2. [operation |-> operation[r], status |-> status] \in Record
  BY <1>1 DEF TypeOK, Record, Failures
<1>3. elapsed' \in [Requests -> 0..SlowestAttempt]
  BY AnalyzeAssumption DEF Attempted, TypeOK
<1>4. Logged(r, operation[r], status) /\ pc[r] = "call"
      /\ UNCHANGED <<setup, loop, queue, report, stored, answer, age>>
  BY DEF Attempted
<1>5. QED
  BY <1>1, <1>2, <1>3, <1>4, LoggedStep

LEMMA ExecutionType ==
    ASSUME TypeOK, NEW r \in Requests, LeaveExecution(r)
    PROVE  execution' \in [Requests -> SUBSET Ids]
<1>1. {<<r, n>> : n \in 1..(Len(made[r]) + 1)} \in SUBSET Ids
  BY DEF Ids
<1>2. QED
  BY <1>1 DEF LeaveExecution, ContextOf, TypeOK

LEMMA BeginType ==
    ASSUME TypeOK, NEW r \in Requests, Begin(r), loop' \in Blocking \cup {None}, queue' \in Seq(Calls)
    PROVE  TypeOK'
<1>1. pc' \in [Requests -> Pc]
  BY DEF Begin, Goto, TypeOK, Pc
<1>2. execution' \in [Requests -> SUBSET Ids]
  BY DEF Begin, ContextOf, TypeOK
<1>3. QED
  BY <1>1, <1>2 DEF Begin, TypeOK, timeVars

(* An attempt, whatever comes of it.                                        *)
LEMMA AttemptType ==
    ASSUME TypeOK, NEW r \in Requests, NEW status, Attempted(r, status),
           pc' \in [Requests -> Pc],
           operation' \in [Requests -> {"document_analysis", "language_retry"}],
           tries' \in [Requests -> 0..Retries],
           execution' \in [Requests -> SUBSET Ids]
    PROVE  TypeOK'
<1>1. /\ made' \in [Requests -> Seq(Record)] /\ log' \subseteq Ids /\ faults' \in 0..MaxFaults
      /\ elapsed' \in [Requests -> 0..SlowestAttempt]
      /\ UNCHANGED <<setup, loop, queue, report, stored, answer, age>>
  BY AttemptedStep
<1>2. QED
  BY <1>1 DEF TypeOK

(* A report, changed in a part.                                             *)
LEMMA ReportType ==
    ASSUME TypeOK, NEW r \in Requests, NEW ids \in SUBSET Ids, NEW saved \in SUBSET Pieces
    PROVE  /\ [report EXCEPT ![r].ids = ids] \in [Requests -> Report]
           /\ [report EXCEPT ![r].ids = ids, ![r].baseline = TRUE] \in [Requests -> Report]
           /\ [report EXCEPT ![r].saved = saved] \in [Requests -> Report]
<1>1. \A x \in Report : /\ [x EXCEPT !.ids = ids] \in Report
                        /\ [x EXCEPT !.baseline = TRUE] \in Report
                        /\ [x EXCEPT !.saved = saved] \in Report
  BY DEF Report
<1>2. QED
  BY <1>1 DEF TypeOK

LEMMA SavedParts ==
    ASSUME TypeOK, NEW r \in Requests
    PROVE  report[r].saved \in SUBSET Pieces
  BY DEF TypeOK, Report

LEMMA SavedType ==
    ASSUME TypeOK, NEW r \in Requests, NEW piece \in Pieces, SavedStep(r, piece),
           report' \in [Requests -> Report], stored' \in [Requests -> SUBSET Pieces],
           faults' \in 0..MaxFaults
    PROVE  TypeOK'
<1>1. PieceAfter(r, piece) \in Kept
  BY DEF PieceAfter, Pieces, Kept
<1>2. pc' \in [Requests -> Pc]
  BY <1>1 DEF SavedStep, Goto, TypeOK, Pc, Kept
<1>3. loop' \in Blocking \cup {None} /\ answer' \in [Requests -> {"none", "OK", "BadRequest", "Timeout"}]
  BY DEF SavedStep, TypeOK
<1>4. UNCHANGED <<setup, queue, operation, tries, made, execution, log, timeVars>>
  BY DEF SavedStep
<1>5. QED
  BY <1>2, <1>3, <1>4 DEF TypeOK, timeVars

-----------------------------------------------------------------------------
(* Type correctness.                                                        *)

LEMMA TypeInit == Init => TypeOK
  BY AnalyzeAssumption DEF Init, TypeOK, Pc, Report

LEMMA AnalyzeType ==
    ASSUME TypeOK, NEW r \in Requests, Analyze(r)
    PROVE  TypeOK'
<1>1. ASSUME NEW status \in Failures, Retry(r, status) PROVE TypeOK'
  <2>1. tries' \in [Requests -> 0..Retries]
    BY <1>1, AnalyzeAssumption DEF Retry, Retried, TriesLeft, TypeOK
  <2>2. Attempted(r, status) /\ UNCHANGED <<pc, operation, execution>>
    BY <1>1 DEF Retry
  <2>3. QED
    BY <2>1, <2>2, AttemptType DEF TypeOK
<1>2. ASSUME NEW status, NEW label \in {"fallback", "read"},
             Attempted(r, status), LeaveExecution(r), Goto(r, label), UNCHANGED <<operation, tries>>
      PROVE  TypeOK'
  <2>1. pc' \in [Requests -> Pc]
    BY <1>2 DEF Goto, TypeOK, Pc
  <2>2. QED
    BY <1>2, <2>1, AttemptType, ExecutionType DEF TypeOK
<1>3. ASSUME NEW status \in Failures, GiveUp(r, status) PROVE TypeOK'
  BY <1>2, <1>3 DEF GiveUp
<1>4. CASE Usable(r)
  BY <1>2, <1>4 DEF Usable
<1>5. CASE StillForeign(r)
  BY <1>2, <1>5 DEF StillForeign
<1>6. CASE AskAgain(r)
  <2>1. /\ operation' \in [Requests -> {"document_analysis", "language_retry"}]
        /\ tries' \in [Requests -> 0..Retries]
    BY <1>6, AnalyzeAssumption DEF AskAgain, TypeOK
  <2>2. Attempted(r, "foreign") /\ UNCHANGED <<pc, execution>>
    BY <1>6 DEF AskAgain
  <2>3. QED
    BY <2>1, <2>2, AttemptType DEF TypeOK
<1>7. CASE ReadExecution(r)
  <2>1. report' = [report EXCEPT ![r].ids = execution[r]] /\ execution[r] \in SUBSET Ids
    BY <1>7 DEF ReadExecution, ContextOf, TypeOK
  <2>2. report' \in [Requests -> Report]
    BY <2>1, ReportType
  <2>3. pc' \in [Requests -> Pc]
    BY <1>7 DEF ReadExecution, Goto, TypeOK, Pc, Pieces
  <2>4. QED
    BY <1>7, <2>2, <2>3 DEF ReadExecution, TypeOK, timeVars
<1>8. CASE Fallback(r)
  <2>1. [operation |-> "fallback", status |-> "fallback"] \in Record
    BY DEF Record
  <2>2. made' \in [Requests -> Seq(Record)] /\ log' \subseteq Ids /\ faults' \in 0..MaxFaults
    BY <1>8, <2>1, LoggedStep DEF Fallback
  <2>3. execution[r] \cup {<<r, Len(made[r]) + 1>>} \in SUBSET Ids
    BY DEF TypeOK, Ids
  <2>4. report' = [report EXCEPT ![r].ids = execution[r] \cup {<<r, Len(made[r]) + 1>>},
                                  ![r].baseline = TRUE]
    BY <1>8 DEF Fallback, ContextOf, TypeOK
  <2>5. report' \in [Requests -> Report]
    BY <2>3, <2>4, ReportType
  <2>6. pc' \in [Requests -> Pc]
    BY <1>8 DEF Fallback, Goto, TypeOK, Pc, Pieces
  <2>7. QED
    BY <1>8, <2>2, <2>5, <2>6 DEF Fallback, TypeOK, timeVars
<1>9. ASSUME NEW piece \in Pieces, Save(r, piece) PROVE TypeOK'
  <2>1. /\ report' \in [Requests -> Report] /\ stored' \in [Requests -> SUBSET Pieces]
        /\ faults' \in 0..MaxFaults
    <3>1. report' = [report EXCEPT ![r].saved = report[r].saved \cup {piece}]
      BY <1>9 DEF Save, TypeOK
    <3>2. report[r].saved \cup {piece} \in SUBSET Pieces
      BY SavedParts
    <3>3. report' \in [Requests -> Report]
      BY <3>1, <3>2, ReportType
    <3>4. QED
      BY <1>9, <3>3 DEF Save, TypeOK
  <2>2. QED
    BY <1>9, <2>1, SavedType DEF Save
<1>10. ASSUME NEW piece \in Pieces, SaveFails(r, piece) PROVE TypeOK'
  <2>1. /\ report' \in [Requests -> Report] /\ stored' \in [Requests -> SUBSET Pieces]
        /\ faults' \in 0..MaxFaults
    <3>1. report' = [report EXCEPT ![r].saved = report[r].saved]
      BY <1>10 DEF SaveFails, FlagsAfterError, TypeOK
    <3>2. report' \in [Requests -> Report]
      BY <3>1, SavedParts, ReportType
    <3>3. QED
      BY <1>10, <3>2, AnalyzeAssumption DEF SaveFails, TypeOK
  <2>2. QED
    BY <1>10, <2>1, SavedType DEF SaveFails
<1>11. QED
  BY <1>1, <1>3, <1>4, <1>5, <1>6, <1>7, <1>8, <1>9, <1>10 DEF Analyze

LEMMA HeadAndTail ==
    ASSUME TypeOK, queue # <<>>
    PROVE  /\ Head(queue) = queue[1] /\ 1 \in DOMAIN queue /\ Tail(queue) \in Seq(Calls)
           /\ Len(Tail(queue)) = Len(queue) - 1
           /\ \A i \in DOMAIN Tail(queue) : i + 1 \in DOMAIN queue /\ Tail(queue)[i] = queue[i + 1]
<1>1. queue \in Seq(Calls)
  BY DEF TypeOK
<1>2. QED
  BY <1>1, HeadTailProperties

(* Removing one place of the queue leaves the others in order.              *)
LEMMA Removed ==
    ASSUME TypeOK, NEW i \in DOMAIN queue
    PROVE  /\ RemoveAt(queue, i) \in Seq(Calls)
           /\ DOMAIN RemoveAt(queue, i) = 1..(Len(queue) - 1)
           /\ \A j \in DOMAIN RemoveAt(queue, i) :
                 LET k == IF j < i THEN j ELSE j + 1
                 IN  k \in DOMAIN queue /\ k # i /\ RemoveAt(queue, i)[j] = queue[k]
<1>1. queue \in Seq(Calls) /\ Len(queue) \in Nat /\ i \in 1..Len(queue)
  BY DEF TypeOK
<1>2. RemoveAt(queue, i) = SubSeq(queue, 1, i - 1) \o SubSeq(queue, i + 1, Len(queue))
  BY DEF RemoveAt
<1> DEFINE before == SubSeq(queue, 1, i - 1)
           after  == SubSeq(queue, i + 1, Len(queue))
           n      == Len(queue)
<1>3. before \in Seq(Calls) /\ Len(before) = i - 1 /\ \A j \in 1..(i - 1) : before[j] = queue[j]
  BY <1>1, SubSeqProperties
<1>4. after \in Seq(Calls) /\ Len(after) = n - i /\ \A j \in 1..(n - i) : after[j] = queue[i + j]
  BY <1>1, SubSeqProperties
<1> HIDE DEF before, after
<1>5. /\ before \o after \in Seq(Calls)
      /\ Len(before \o after) = n - 1
      /\ \A j \in 1..(n - 1) : (before \o after)[j] = IF j <= i - 1 THEN before[j] ELSE after[j - (i - 1)]
  <2>1. before \in Seq(Calls) /\ after \in Seq(Calls) /\ Len(before) + Len(after) = n - 1
    BY <1>1, <1>3, <1>4
  <2>2. /\ before \o after \in Seq(Calls)
        /\ Len(before \o after) = Len(before) + Len(after)
        /\ \A j \in 1..(Len(before) + Len(after)) :
              (before \o after)[j] = IF j <= Len(before) THEN before[j] ELSE after[j - Len(before)]
    BY <2>1, ConcatProperties
  <2>3. QED
    BY <1>3, <2>1, <2>2
<1>6. RemoveAt(queue, i) = before \o after
  BY <1>2 DEF before, after
<1>7. ASSUME NEW j \in 1..(n - 1)
      PROVE  LET k == IF j < i THEN j ELSE j + 1
             IN  k \in DOMAIN queue /\ k # i /\ (before \o after)[j] = queue[k]
  <2>1. CASE j < i
    BY <1>1, <1>3, <1>5, <1>7, <2>1
  <2>2. CASE ~(j < i)
    <3>1. j - (i - 1) \in 1..(n - i) /\ i + (j - (i - 1)) = j + 1 /\ ~(j <= i - 1)
      BY <1>1, <1>7, <2>2
    <3>2. (before \o after)[j] = after[j - (i - 1)]
      BY <1>5, <1>7, <3>1
    <3>3. after[j - (i - 1)] = queue[i + (j - (i - 1))]
      BY <1>4, <3>1
    <3>4. (before \o after)[j] = queue[j + 1]
      BY <3>1, <3>2, <3>3
    <3>5. j + 1 \in DOMAIN queue /\ j + 1 # i
      BY <1>1, <1>7, <2>2
    <3>6. QED
      BY <2>2, <3>4, <3>5
  <2>3. QED
    BY <2>1, <2>2
<1>8. DOMAIN (before \o after) = 1..(n - 1)
  BY <1>5
<1>9. QED
  BY <1>5, <1>6, <1>7, <1>8

LEMMA ArrivalType ==
    ASSUME TypeOK, NEW c \in Calls, Arrive(c) \/ Take(c) \/ Answer(c)
    PROVE  TypeOK'
<1> c \in Requests
  BY DEF Requests
<1>1. CASE Arrive(c)
  <2>1. queue' \in Seq(Calls) /\ pc' \in [Requests -> Pc]
    BY <1>1 DEF Arrive, Goto, TypeOK, Pc
  <2>2. QED
    BY <1>1, <2>1 DEF Arrive, TypeOK, analysisVars, timeVars
<1>2. CASE StartThread(c)
  BY <1>2, HeadAndTail, BeginType DEF StartThread, TypeOK
<1>3. CASE Reject(c)
  <2>1. queue' \in Seq(Calls) /\ pc' \in [Requests -> Pc]
    BY <1>3, HeadAndTail DEF Reject, Goto, TypeOK, Pc
  <2>2. QED
    BY <1>3, <2>1 DEF Reject, TypeOK, analysisVars, timeVars
<1>4. CASE Deliver(c)
  <2>1. answer' \in [Requests -> {"none", "OK", "BadRequest", "Timeout"}]
    BY <1>4 DEF Deliver, TypeOK
  <2>2. QED
    BY <1>4, <2>1 DEF Deliver, TypeOK, analysisVars, timeVars
<1>5. CASE Expire(c)
  <2>1. answer' \in [Requests -> {"none", "OK", "BadRequest", "Timeout"}]
    BY <1>5 DEF Expire, TypeOK
  <2>2. queue' \in Seq(Calls)
    BY <1>5, Removed DEF Expire, CancelWork, TypeOK
  <2>3. pc' \in [Requests -> Pc]
    <3>1. pc' = [pc EXCEPT ![c] = "cancelled"] \/ UNCHANGED pc
      BY <1>5 DEF Expire, CancelWork, Goto
    <3>2. pc \in [Requests -> Pc] /\ "cancelled" \in Pc
      BY DEF TypeOK, Pc
    <3>3. QED
      BY <3>1, <3>2
  <2>4. QED
    BY <1>5, <2>1, <2>2, <2>3 DEF Expire, TypeOK, analysisVars, timeVars
<1>6. QED
  BY <1>1, <1>2, <1>3, <1>4, <1>5 DEF Take, Answer

LEMMA TickType ==
    ASSUME TypeOK, Tick
    PROVE  TypeOK'
<1>1. age' \in [Requests -> 0..(Deadline + 1)]
  <2>1. \A n \in 0..(Deadline + 1) : Least(n + 1, Deadline + 1) \in 0..(Deadline + 1)
    BY AnalyzeAssumption DEF Least
  <2>2. QED
    BY <2>1 DEF Tick, TypeOK
<1>2. elapsed' \in [Requests -> 0..SlowestAttempt]
  BY AnalyzeAssumption DEF Tick, TypeOK
<1>3. QED
  BY <1>1, <1>2 DEF Tick, TypeOK, analysisVars

LEMMA TypeNext ==
    ASSUME TypeOK, [Next]_vars
    PROVE  TypeOK'
<1>1. ASSUME NEW b \in Blocking, ArriveBlocking(b) PROVE TypeOK'
  <2>1. Begin(b) /\ loop' = b /\ UNCHANGED queue /\ b \in Requests
    BY <1>1 DEF ArriveBlocking, Requests
  <2>2. QED
    BY <2>1, BeginType DEF TypeOK
<1>2. CASE Quiet \/ UNCHANGED vars
  BY <1>2 DEF Quiet, vars, analysisVars, timeVars, TypeOK
<1>3. QED
  BY <1>1, <1>2, AnalyzeType, ArrivalType, TickType DEF Next

(* The state keeps its shape: queue, attempts and clocks stay in range.     *)
THEOREM AnalyzeTyped == Spec => []TypeOK
<1>1. QED
  BY TypeInit, TypeNext, PTL DEF Spec

-----------------------------------------------------------------------------
(* One analysis moves, the others are where they were.                      *)

LEMMA Undisturbed ==
    ASSUME NEW q, RequestOK(q),
           UNCHANGED <<setup, pc[q], operation[q], tries[q], made[q], execution[q], report[q], stored[q]>>
    PROVE  RequestOK(q)'
  BY DEF RequestOK, NothingYet, FlagsOK, IdsOK, OwnIds, CallOK, OutcomeOK, Ended

(* What an attempt adds to the records of its request.                      *)
LEMMA RecordAdded ==
    ASSUME NEW m \in Seq(Record), NEW rec \in Record, InOrder(m), NoneFinal(m)
    PROVE  /\ InOrder(Append(m, rec))
           /\ rec.status \in {"timeout", "error", "foreign"} => NoneFinal(Append(m, rec))
           /\ rec.status # "valid" => NoneValid(Append(m, rec))
           /\ rec.status = "valid" => LastValid(Append(m, rec))
           /\ FirstCallOnly(m) /\ rec.operation = "document_analysis" => FirstCallOnly(Append(m, rec))
           /\ \/ rec.status = "config"
              \/ rec.operation = "language_retry" /\ rec.status = "foreign"
              => ExhaustedIn(Append(m, rec))
<1>1. NoneValid(m)
  BY DEF NoneFinal, NoneValid
<1>2. InOrder(Append(m, rec))
  BY <1>1, OrderKept
<1>3. rec.status \in {"timeout", "error", "foreign"} => NoneFinal(Append(m, rec))
  BY Appended DEF NoneFinal
<1>4. rec.status # "valid" => NoneValid(Append(m, rec))
  BY <1>1, Appended DEF NoneValid
<1>5. rec.status = "valid" => LastValid(Append(m, rec))
  BY Appended DEF LastValid
<1>6. FirstCallOnly(m) /\ rec.operation = "document_analysis" => FirstCallOnly(Append(m, rec))
  BY Appended DEF FirstCallOnly
<1>7. \/ rec.status = "config"
      \/ rec.operation = "language_retry" /\ rec.status = "foreign"
      => ExhaustedIn(Append(m, rec))
  <2>1. Len(m) + 1 \in DOMAIN Append(m, rec) /\ Append(m, rec)[Len(m) + 1] = rec
    BY Appended
  <2>2. QED
    BY <2>1 DEF ExhaustedIn
<1>8. QED
  BY <1>2, <1>3, <1>4, <1>5, <1>6, <1>7

LEMMA AttemptOK ==
    ASSUME AnalyzeInv, NEW r \in Requests, NEW status, Attempted(r, status)
    PROVE  /\ pc[r] = "call" /\ operation[r] \in {"document_analysis", "language_retry"}
           /\ report' = report /\ stored' = stored /\ setup' = setup
           /\ ~report[r].baseline /\ report[r].saved = stored[r]
           /\ DOMAIN made'[r] = 1..(Len(made[r]) + 1)
           /\ InOrder(made'[r])
           /\ status \in {"timeout", "error", "foreign"} => NoneFinal(made'[r])
           /\ status # "valid" => NoneValid(made'[r])
           /\ status = "valid" => LastValid(made'[r])
           /\ operation[r] = "document_analysis" => FirstCallOnly(made'[r])
           /\ status = "config" => ExhaustedIn(made'[r])
           /\ operation[r] = "language_retry" /\ status = "foreign" => ExhaustedIn(made'[r])
           /\ Cardinality(FailedIn(made'[r], operation[r])) =
                 IF status \in Failures THEN tries[r] + 1 ELSE tries[r]
<1> DEFINE m   == made[r]
           rec == [operation |-> operation[r], status |-> status]
<1>1. TypeOK /\ RequestOK(r)
  BY DEF AnalyzeInv
<1>2. pc[r] = "call" /\ rec \in Record /\ made' = [made EXCEPT ![r] = Append(m, rec)]
      /\ report' = report /\ stored' = stored /\ setup' = setup
  BY <1>1, AttemptedStep
<1>3. m \in Seq(Record) /\ made'[r] = Append(m, rec)
  BY <1>1, <1>2 DEF TypeOK
<1>4. ~report[r].baseline /\ report[r].saved = stored[r]
  BY <1>1, <1>2 DEF RequestOK, FlagsOK, Ended, Kept, Pieces, TypeOK, Report
<1>5. NoneFinal(m) /\ InOrder(m) /\ tries[r] = Cardinality(FailedIn(m, operation[r]))
      /\ (operation[r] = "document_analysis" => FirstCallOnly(m))
  BY <1>1, <1>2 DEF RequestOK, CallOK, OutcomeOK
<1>6. rec.operation = operation[r] /\ rec.status = status
  OBVIOUS
<1>7. operation[r] \in {"document_analysis", "language_retry"}
  BY <1>1 DEF TypeOK
<1> HIDE DEF m, rec
<1>8. Cardinality(FailedIn(Append(m, rec), operation[r])) = IF status \in Failures THEN tries[r] + 1 ELSE tries[r]
  BY <1>2, <1>3, <1>5, <1>6, FailureCounted
<1>9. DOMAIN Append(m, rec) = 1..(Len(m) + 1)
  BY <1>2, <1>3, Appended
<1>10. /\ InOrder(Append(m, rec))
       /\ status \in {"timeout", "error", "foreign"} => NoneFinal(Append(m, rec))
       /\ status # "valid" => NoneValid(Append(m, rec))
       /\ status = "valid" => LastValid(Append(m, rec))
       /\ operation[r] = "document_analysis" => FirstCallOnly(Append(m, rec))
       /\ status = "config" => ExhaustedIn(Append(m, rec))
       /\ operation[r] = "language_retry" /\ status = "foreign" => ExhaustedIn(Append(m, rec))
  BY <1>2, <1>3, <1>5, <1>6, RecordAdded
<1>11. QED
  BY <1>2, <1>3, <1>4, <1>7, <1>8, <1>9, <1>10 DEF m

(* The execution that an attempt leaves names the records of its request.   *)
LEMMA ExecutionLeft ==
    ASSUME AnalyzeInv, NEW r \in Requests, NEW status, Attempted(r, status), LeaveExecution(r)
    PROVE  execution'[r] = OwnIds(r)'
<1>1. execution'[r] = {<<r, n>> : n \in 1..(Len(made[r]) + 1)}
  BY DEF LeaveExecution, ContextOf, AnalyzeInv, TypeOK
<1>2. DOMAIN made'[r] = 1..(Len(made[r]) + 1)
  BY AttemptOK
<1>3. QED
  BY <1>1, <1>2 DEF OwnIds

LEMMA RetryOK ==
    ASSUME AnalyzeInv, NEW r \in Requests, NEW status, Retry(r, status)
    PROVE  RequestOK(r)'
<1>1. /\ Attempted(r, status) /\ status \in {"timeout", "error"} /\ status \in Failures
      /\ UNCHANGED <<pc, operation, execution>> /\ tries'[r] = tries[r] + 1
  BY DEF Retry, Retried, Failures, AnalyzeInv, TypeOK
<1>2. pc'[r] = "call"
  BY <1>1, AttemptOK
<1>3. CallOK(r)'
  BY <1>1, AttemptOK DEF CallOK
<1>4. OutcomeOK(r)' /\ FlagsOK(r)'
  BY <1>1, <1>2, AttemptOK DEF OutcomeOK, FlagsOK, Ended, Kept, Pieces
<1>5. QED
  BY <1>2, <1>3, <1>4 DEF RequestOK, NothingYet, NotBegun, IdsOK, Ended, Kept, Pieces

LEMMA GiveUpOK ==
    ASSUME AnalyzeInv, NEW r \in Requests, NEW status, GiveUp(r, status)
    PROVE  RequestOK(r)'
<1>1. /\ Attempted(r, status) /\ status \in Failures /\ ~Retried(r, status) /\ LeaveExecution(r)
      /\ pc'[r] = "fallback" /\ UNCHANGED <<operation, tries>>
  BY DEF GiveUp, Goto, AnalyzeInv, TypeOK
<1>2. ExhaustedIn(made'[r])
  <2>1. CASE status = "config"
    BY <1>1, <2>1, AttemptOK
  <2>2. CASE status # "config"
    <3>1. tries[r] = Retries
      BY <1>1, <2>2, AnalyzeAssumption DEF Retried, TriesLeft, AnalyzeInv, TypeOK
    <3>2. Cardinality(FailedIn(made'[r], operation[r])) = Retries + 1
          /\ operation[r] \in {"document_analysis", "language_retry"}
      BY <1>1, <3>1, AttemptOK
    <3>3. QED
      BY <3>2 DEF ExhaustedIn
  <2>3. QED
    BY <2>1, <2>2
<1>3. NoneValid(made'[r]) /\ InOrder(made'[r])
  BY <1>1, AttemptOK DEF Failures
<1>4. OutcomeOK(r)' /\ FlagsOK(r)'
  BY <1>1, <1>2, <1>3, AttemptOK DEF OutcomeOK, FlagsOK, Ended, Kept, Pieces
<1>5. IdsOK(r)'
  BY <1>1, ExecutionLeft DEF IdsOK, Ended, Kept, Pieces
<1>6. QED
  BY <1>1, <1>4, <1>5 DEF RequestOK, NothingYet, NotBegun, CallOK

LEMMA UsableOK ==
    ASSUME AnalyzeInv, NEW r \in Requests, Usable(r)
    PROVE  RequestOK(r)'
<1>1. Attempted(r, "valid") /\ LeaveExecution(r) /\ pc'[r] = "read"
  BY DEF Usable, Goto, AnalyzeInv, TypeOK
<1>2. LastValid(made'[r]) /\ InOrder(made'[r])
  BY <1>1, AttemptOK
<1>3. OutcomeOK(r)' /\ FlagsOK(r)'
  BY <1>1, <1>2, AttemptOK DEF OutcomeOK, FlagsOK, Ended, Kept, Pieces
<1>4. IdsOK(r)'
  BY <1>1, ExecutionLeft DEF IdsOK, Ended, Kept, Pieces
<1>5. QED
  BY <1>1, <1>3, <1>4 DEF RequestOK, NothingYet, NotBegun, CallOK

(* No failure of the second call comes before it begins.                    *)
LEMMA SecondCallFresh ==
    ASSUME NEW m, FirstCallOnly(m)
    PROVE  Cardinality(FailedIn(m, "language_retry")) = 0
<1>1. FailedIn(m, "language_retry") = {}
  BY DEF FirstCallOnly, FailedIn
<1>2. QED
  BY <1>1, FS_EmptySet

LEMMA AskAgainOK ==
    ASSUME AnalyzeInv, NEW r \in Requests, AskAgain(r)
    PROVE  RequestOK(r)'
<1>1. /\ Attempted(r, "foreign") /\ UNCHANGED <<pc, execution>> /\ operation[r] = "document_analysis"
      /\ operation'[r] = "language_retry" /\ tries'[r] = 0
  BY DEF AskAgain, AnalyzeInv, TypeOK
<1>2. pc'[r] = "call" /\ NoneFinal(made'[r]) /\ FirstCallOnly(made'[r]) /\ InOrder(made'[r])
  BY <1>1, AttemptOK
<1>3. CallOK(r)'
  BY <1>1, <1>2, SecondCallFresh DEF CallOK
<1>4. OutcomeOK(r)' /\ FlagsOK(r)'
  BY <1>1, <1>2, AttemptOK DEF OutcomeOK, FlagsOK, Ended, Kept, Pieces
<1>5. QED
  BY <1>2, <1>3, <1>4 DEF RequestOK, NothingYet, NotBegun, IdsOK, Ended, Kept, Pieces

LEMMA StillForeignOK ==
    ASSUME AnalyzeInv, NEW r \in Requests, StillForeign(r)
    PROVE  RequestOK(r)'
<1>1. Attempted(r, "foreign") /\ LeaveExecution(r) /\ pc'[r] = "fallback" /\ operation[r] = "language_retry"
  BY DEF StillForeign, Goto, AnalyzeInv, TypeOK
<1>2. ExhaustedIn(made'[r]) /\ NoneValid(made'[r]) /\ InOrder(made'[r])
  BY <1>1, AttemptOK
<1>3. OutcomeOK(r)' /\ FlagsOK(r)'
  BY <1>1, <1>2, AttemptOK DEF OutcomeOK, FlagsOK, Ended, Kept, Pieces
<1>4. IdsOK(r)'
  BY <1>1, ExecutionLeft DEF IdsOK, Ended, Kept, Pieces
<1>5. QED
  BY <1>1, <1>3, <1>4 DEF RequestOK, NothingYet, NotBegun, CallOK

LEMMA ReadExecutionOK ==
    ASSUME AnalyzeInv, NEW r \in Requests, ReadExecution(r)
    PROVE  RequestOK(r)'
<1>1. /\ pc[r] = "read" /\ pc'[r] = "document" /\ UNCHANGED <<setup, made, stored>>
      /\ report' = [report EXCEPT ![r].ids = execution[r]]
  BY DEF ReadExecution, ContextOf, Goto, AnalyzeInv, TypeOK
<1>2. /\ report'[r].ids = execution[r]
      /\ report'[r].baseline = report[r].baseline /\ report'[r].saved = report[r].saved
  BY <1>1 DEF AnalyzeInv, TypeOK, Report
<1>3. RequestOK(r) /\ ~report[r].baseline
  BY <1>1 DEF AnalyzeInv, RequestOK, FlagsOK, Ended, Kept, Pieces, TypeOK, Report
<1>4. QED
  BY <1>1, <1>2, <1>3 DEF RequestOK, NothingYet, NotBegun, FlagsOK, IdsOK, OwnIds, CallOK, OutcomeOK,
         Ended, Kept, Pieces

LEMMA FallbackOK ==
    ASSUME AnalyzeInv, NEW r \in Requests, Fallback(r)
    PROVE  RequestOK(r)'
<1> DEFINE m   == made[r]
           rec == [operation |-> "fallback", status |-> "fallback"]
<1>1. rec \in Record /\ rec.operation = "fallback" /\ m \in Seq(Record)
  BY DEF Record, AnalyzeInv, TypeOK
<1>2. /\ pc[r] = "fallback" /\ pc'[r] = "document" /\ UNCHANGED <<setup, stored>>
      /\ report' = [report EXCEPT ![r].ids = execution[r] \cup {<<r, Len(m) + 1>>}, ![r].baseline = TRUE]
  BY DEF Fallback, ContextOf, Goto, AnalyzeInv, TypeOK
<1>3. /\ report'[r].ids = execution[r] \cup {<<r, Len(m) + 1>>}
      /\ report'[r].baseline = TRUE /\ report'[r].saved = report[r].saved
  BY <1>2 DEF AnalyzeInv, TypeOK, Report
<1>4. made'[r] = Append(m, rec)
  BY <1>1, LoggedStep DEF Fallback, AnalyzeInv, TypeOK
<1>5. RequestOK(r)
  BY DEF AnalyzeInv
<1> HIDE DEF rec
<1>6. (setup = "noPrompt" \/ ExhaustedIn(m)) /\ NoneValid(m) /\ InOrder(m)
  BY <1>2, <1>5 DEF RequestOK, OutcomeOK
<1>7. InOrder(made'[r]) /\ (setup = "noPrompt" \/ ExhaustedIn(made'[r]))
  BY <1>1, <1>4, <1>6, OrderKept, ExhaustionStays
<1>8. report'[r].ids = OwnIds(r)'
  <2>1. DOMAIN made'[r] = DOMAIN m \cup {Len(m) + 1}
    BY <1>1, <1>4, Appended
  <2>2. execution[r] = {<<r, n>> : n \in DOMAIN m}
    BY <1>2, <1>5 DEF RequestOK, IdsOK, OwnIds
  <2>3. QED
    BY <1>3, <2>1, <2>2 DEF OwnIds
<1>9. QED
  BY <1>2, <1>3, <1>5, <1>7, <1>8 DEF RequestOK, NothingYet, NotBegun, FlagsOK, IdsOK, CallOK, OutcomeOK,
         Ended, Kept, Pieces

LEMMA SaveOK ==
    ASSUME AnalyzeInv, NEW r \in Requests, NEW piece \in Pieces, Save(r, piece) \/ SaveFails(r, piece)
    PROVE  RequestOK(r)'
<1>1. SavedStep(r, piece)
  BY DEF Save, SaveFails
<1>2. PieceAfter(r, piece) \in Kept
  BY DEF PieceAfter, Pieces, Kept
<1>3. Ended(r) /\ Ended(r)' /\ UNCHANGED <<setup, made>>
  BY <1>1, <1>2 DEF SavedStep, Goto, Ended, Kept, AnalyzeInv, TypeOK
<1>4. /\ report'[r].ids = report[r].ids /\ report'[r].baseline = report[r].baseline
      /\ report'[r].saved = stored'[r]
  <2>1. report[r].saved = stored[r]
    BY DEF AnalyzeInv, RequestOK, FlagsOK
  <2>2. CASE Save(r, piece)
    BY <2>1, <2>2 DEF Save, AnalyzeInv, TypeOK, Report
  <2>3. CASE SaveFails(r, piece)
    BY <2>1, <2>3 DEF SaveFails, FlagsAfterError, AnalyzeInv, TypeOK, Report
  <2>4. QED
    BY <2>2, <2>3
<1>5. RequestOK(r)
  BY DEF AnalyzeInv
<1>6. pc'[r] \notin NotBegun \cup {"read", "fallback", "call"}
  BY <1>3 DEF Ended, Kept, Pieces, NotBegun
<1>7. QED
  BY <1>3, <1>4, <1>5, <1>6 DEF RequestOK, NothingYet, FlagsOK, IdsOK, OwnIds, CallOK, OutcomeOK

LEMMA AnalysisOK ==
    ASSUME AnalyzeInv, NEW r \in Requests, Analyze(r)
    PROVE  RequestOK(r)'
  BY RetryOK, GiveUpOK, UsableOK, AskAgainOK, StillForeignOK, ReadExecutionOK, FallbackOK, SaveOK DEF Analyze

(* An analysis that moves is neither queued before nor after, and touches   *)
(* nothing of the others.                                                   *)
LEMMA AnalysisFrame ==
    ASSUME AnalyzeInv, NEW r \in Requests, Analyze(r)
    PROVE  /\ pc[r] \notin NotBegun /\ pc'[r] \notin NotBegun /\ UNCHANGED <<setup, queue>>
           /\ \A q \in Requests \ {r} :
                 UNCHANGED <<pc[q], operation[q], tries[q], made[q], execution[q], report[q], stored[q]>>
           /\ \A c \in Calls : UNCHANGED answer[c]
           /\ log' \subseteq log \cup {<<r, Len(made[r]) + 1>>}
           /\ log' = log \/ DOMAIN made'[r] = 1..(Len(made[r]) + 1)
           /\ DOMAIN made[r] \subseteq DOMAIN made'[r]
<1> USE DEF NotBegun
<1>1. TypeOK /\ made[r] \in Seq(Record)
  BY DEF AnalyzeInv, TypeOK
<1> DEFINE Attempt(label) ==
             \E status : /\ Attempted(r, status) /\ (pc' = [pc EXCEPT ![r] = label])
                         /\ \A q \in Requests \ {r} : UNCHANGED <<operation[q], tries[q], execution[q]>>
<1>2. ASSUME NEW label \in {"call", "read", "fallback"}, Attempt(label)
      PROVE  /\ pc[r] \notin NotBegun /\ pc'[r] \notin NotBegun /\ UNCHANGED <<setup, queue>>
             /\ \A q \in Requests \ {r} :
                   UNCHANGED <<pc[q], operation[q], tries[q], made[q], execution[q], report[q], stored[q]>>
             /\ \A c \in Calls : UNCHANGED answer[c]
             /\ log' \subseteq log \cup {<<r, Len(made[r]) + 1>>}
             /\ DOMAIN made'[r] = 1..(Len(made[r]) + 1)
  <2>1. PICK status : /\ Attempted(r, status) /\ (pc' = [pc EXCEPT ![r] = label])
                      /\ \A q \in Requests \ {r} : UNCHANGED <<operation[q], tries[q], execution[q]>>
    BY <1>2
  <2>2. /\ pc[r] = "call" /\ made' = [made EXCEPT ![r] = Append(made[r], [operation |-> operation[r], status |-> status])]
        /\ log' \subseteq log \cup {<<r, Len(made[r]) + 1>>}
        /\ UNCHANGED <<setup, queue, report, stored, answer>>
    BY <1>1, <2>1, AttemptedStep
  <2>3. DOMAIN made'[r] = 1..(Len(made[r]) + 1)
    BY <2>1, AttemptOK
  <2>4. QED
    BY <1>1, <2>1, <2>2, <2>3 DEF TypeOK
<1>3. DOMAIN made[r] \subseteq 1..(Len(made[r]) + 1)
  BY <1>1
<1>4. ASSUME NEW status \in Failures, Retry(r, status) PROVE Attempt("call")
  BY <1>1, <1>4, AttemptOK DEF Retry, TypeOK
<1>5. ASSUME NEW status \in Failures, GiveUp(r, status) PROVE Attempt("fallback")
  BY <1>1, <1>5 DEF GiveUp, Goto, LeaveExecution, ContextOf, TypeOK
<1>6. CASE Usable(r)
  <2>1. Attempt("read")
    BY <1>1, <1>6 DEF Usable, Goto, LeaveExecution, ContextOf, TypeOK
  <2>2. QED
    BY <1>2, <1>3, <2>1
<1>7. CASE AskAgain(r)
  <2>1. Attempt("call")
    BY <1>1, <1>7, AttemptOK DEF AskAgain, TypeOK
  <2>2. QED
    BY <1>2, <1>3, <2>1
<1>8. CASE StillForeign(r)
  <2>1. Attempt("fallback")
    BY <1>1, <1>8 DEF StillForeign, Goto, LeaveExecution, ContextOf, TypeOK
  <2>2. QED
    BY <1>2, <1>3, <2>1
<1>9. CASE ReadExecution(r)
  BY <1>1, <1>9 DEF ReadExecution, Goto, TypeOK
<1>10. CASE Fallback(r)
  <2>1. [operation |-> "fallback", status |-> "fallback"] \in Record
    BY DEF Record
  <2>2. /\ made' = [made EXCEPT ![r] = Append(made[r], [operation |-> "fallback", status |-> "fallback"])]
        /\ log' \subseteq log \cup {<<r, Len(made[r]) + 1>>}
    BY <1>1, <1>10, <2>1, LoggedStep DEF Fallback
  <2>3. DOMAIN made'[r] = 1..(Len(made[r]) + 1)
    BY <1>1, <2>2 DEF TypeOK
  <2>4. QED
    BY <1>1, <1>3, <1>10, <2>2, <2>3 DEF Fallback, Goto, TypeOK
<1>11. ASSUME NEW piece \in Pieces, Save(r, piece) \/ SaveFails(r, piece)
       PROVE  /\ pc[r] \notin NotBegun /\ pc'[r] \notin NotBegun /\ UNCHANGED <<setup, queue, made, log>>
              /\ \A q \in Requests \ {r} :
                    UNCHANGED <<pc[q], operation[q], tries[q], made[q], execution[q], report[q], stored[q]>>
              /\ \A c \in Calls : UNCHANGED answer[c]
  <2>1. SavedStep(r, piece)
    BY <1>11 DEF Save, SaveFails
  <2>2. PieceAfter(r, piece) \in Kept /\ piece \notin NotBegun
    BY DEF PieceAfter, Pieces, Kept
  <2>3. \A q \in Requests \ {r} : UNCHANGED <<report[q], stored[q]>>
    BY <1>1, <1>11 DEF Save, SaveFails, TypeOK
  <2>4. pc[r] \notin NotBegun /\ pc'[r] \notin NotBegun
    BY <1>1, <2>1, <2>2 DEF SavedStep, Goto, TypeOK, Kept, Pieces
  <2>5. \A c \in Calls : UNCHANGED answer[c]
    <3>1. CASE piece = "context" /\ r \in Blocking
      <4>1. answer' = [answer EXCEPT ![r] = "OK"]
        BY <2>1, <3>1 DEF SavedStep
      <4>2. r \notin Calls /\ Calls \subseteq Requests
        BY <3>1, AnalyzeAssumption DEF Requests
      <4>3. QED
        BY <1>1, <4>1, <4>2 DEF TypeOK
    <3>2. CASE ~(piece = "context" /\ r \in Blocking)
      BY <2>1, <3>2 DEF SavedStep
    <3>3. QED
      BY <3>1, <3>2
  <2>6. QED
    BY <1>1, <2>1, <2>3, <2>4, <2>5 DEF SavedStep, Goto, TypeOK
<1>12. QED
  BY <1>2, <1>3, <1>4, <1>5, <1>6, <1>7, <1>8, <1>9, <1>10, <1>11 DEF Analyze

LEMMA AnalyzeStep ==
    ASSUME AnalyzeInv, NEW r \in Requests, Analyze(r)
    PROVE  AnalyzeInv'
<1>1. TypeOK /\ TypeOK'
  BY AnalyzeType DEF AnalyzeInv
<1>2. QueueInv'
  <2>1. \A i \in DOMAIN queue : queue[i] \in Calls /\ queue[i] # r
    <3>1. \A i \in DOMAIN queue : pc[queue[i]] = "queued"
      BY DEF AnalyzeInv, QueueInv
    <3>2. pc[r] # "queued"
      BY AnalysisFrame DEF NotBegun
    <3>3. queue \in Seq(Calls)
      BY <1>1 DEF TypeOK
    <3>4. QED
      BY <3>1, <3>2, <3>3
  <2>2. Calls \subseteq Requests
    BY DEF Requests
  <2>3. QED
    BY <1>1, <2>1, <2>2, AnalysisFrame DEF AnalyzeInv, QueueInv, NotBegun
<1>3. LogInv'
  <2>1. \A id \in log' : id[1] \in Requests
    BY <1>1 DEF TypeOK, Ids
  <2>2. Len(made[r]) + 1 \in 1..(Len(made[r]) + 1)
    BY <1>1 DEF TypeOK
  <2>3. ASSUME NEW id \in log PROVE id[2] \in DOMAIN made'[id[1]]
    <3>1. id[1] \in Requests /\ id[2] \in DOMAIN made[id[1]]
      BY <1>1 DEF AnalyzeInv, LogInv, TypeOK, Ids
    <3>2. CASE id[1] = r
      BY <3>1, <3>2, AnalysisFrame
    <3>3. CASE id[1] # r
      BY <3>1, <3>3, AnalysisFrame
    <3>4. QED
      BY <3>2, <3>3
  <2>4. QED
    BY <2>1, <2>2, <2>3, AnalysisFrame DEF LogInv
<1>4. \A q \in Requests : RequestOK(q)'
  BY AnalysisOK, AnalysisFrame, Undisturbed DEF AnalyzeInv
<1>5. QED
  BY <1>1, <1>2, <1>3, <1>4 DEF AnalyzeInv

-----------------------------------------------------------------------------
(* Arrival, the queue and the answers.                                      *)

(* A request that has not begun is as it was made, wherever it waits.       *)
LEMMA WaitingOK ==
    ASSUME NEW q, RequestOK(q), pc[q] \in NotBegun, pc'[q] \in NotBegun,
           UNCHANGED <<setup, operation[q], tries[q], made[q], report[q], stored[q]>>
    PROVE  RequestOK(q)'
  BY DEF RequestOK, NothingYet, FlagsOK, IdsOK, CallOK, OutcomeOK, Ended, Kept, Pieces, NotBegun

LEMMA BeginOK ==
    ASSUME AnalyzeInv, NEW r \in Requests, pc[r] \in NotBegun, Begin(r)
    PROVE  RequestOK(r)'
<1>1. RequestOK(r) /\ made[r] = <<>> /\ tries[r] = 0 /\ operation[r] = "document_analysis"
  BY DEF AnalyzeInv, RequestOK, NothingYet
<1>2. UNCHANGED <<setup, operation, tries, made, report, stored>> /\ execution'[r] = {}
  BY DEF Begin, ContextOf, AnalyzeInv, TypeOK
<1>3. pc'[r] = IF setup = "noPrompt" THEN "fallback" ELSE "call"
  BY DEF Begin, Goto, AnalyzeInv, TypeOK
<1>4. FailedIn(made'[r], "document_analysis") = {} /\ NoneFinal(made'[r]) /\ NoneValid(made'[r])
      /\ FirstCallOnly(made'[r]) /\ OwnIds(r)' = {}
  BY <1>1, <1>2 DEF FailedIn, NoneFinal, NoneValid, FirstCallOnly, OwnIds
<1>5. CallOK(r)'
  BY <1>1, <1>2, <1>4, FS_EmptySet DEF CallOK
<1>6. OutcomeOK(r)'
  BY <1>1, <1>2, <1>3, <1>4 DEF RequestOK, OutcomeOK, Ended, Kept, Pieces
<1>7. FlagsOK(r)' /\ IdsOK(r)' /\ NothingYet(r)'
  BY <1>1, <1>2, <1>3, <1>4 DEF RequestOK, FlagsOK, IdsOK, NothingYet, Ended, Kept, Pieces, NotBegun
<1>8. QED
  BY <1>5, <1>6, <1>7 DEF RequestOK

LEMMA BeginOthers ==
    ASSUME AnalyzeInv, NEW r \in Requests, Begin(r)
    PROVE  \A q \in Requests \ {r} :
              UNCHANGED <<setup, pc[q], operation[q], tries[q], made[q], execution[q], report[q], stored[q]>>
  BY DEF Begin, Goto, ContextOf, AnalyzeInv, TypeOK

LEMMA LogStays ==
    ASSUME LogInv, UNCHANGED <<log, made>>
    PROVE  LogInv'
  BY DEF LogInv

(* The head of the queue leaves it.                                         *)
LEMMA QueueTail ==
    ASSUME AnalyzeInv, NEW c \in Calls, queue # <<>>, c = Head(queue), queue' = Tail(queue),
           NEW label, label \notin {"ready", "queued"}, pc' = [pc EXCEPT ![c] = label], UNCHANGED answer
    PROVE  QueueInv' /\ pc[c] = "queued"
<1>1. TypeOK /\ QueueInv /\ c \in Requests /\ Calls \subseteq Requests
  BY DEF AnalyzeInv, Requests
<1>2. c = queue[1] /\ 1 \in DOMAIN queue /\ Len(queue') = Len(queue) - 1
      /\ \A i \in DOMAIN queue' : i + 1 \in DOMAIN queue /\ queue'[i] = queue[i + 1]
  BY <1>1, HeadAndTail
<1>3. queue \in Seq(Calls) /\ DOMAIN queue' \subseteq Nat /\ \A i \in DOMAIN queue' : i + 1 # 1
  <2>1. queue' \in Seq(Calls)
    BY <1>1, HeadAndTail
  <2> DEFINE t == queue'
  <2>2. t \in Seq(Calls)
    BY <2>1
  <2> HIDE DEF t
  <2>3. DOMAIN t \subseteq Nat /\ \A i \in DOMAIN t : i + 1 # 1
    BY <2>2
  <2>4. queue \in Seq(Calls)
    BY <1>1 DEF TypeOK
  <2>5. QED
    BY <2>3, <2>4, Zenon DEF t
<1>4. \A i \in DOMAIN queue' : queue'[i] \in Calls /\ queue'[i] # c /\ pc[queue'[i]] = "queued"
  BY <1>1, <1>2, <1>3 DEF QueueInv
<1>5. \A i, j \in DOMAIN queue' : queue'[i] = queue'[j] => i = j
  BY <1>1, <1>2, <1>3 DEF QueueInv
<1>6. QED
  BY <1>1, <1>2, <1>4, <1>5 DEF QueueInv, TypeOK

LEMMA ArriveStep ==
    ASSUME AnalyzeInv, NEW c \in Calls, Arrive(c)
    PROVE  AnalyzeInv'
<1>1. TypeOK /\ TypeOK' /\ c \in Requests /\ Calls \subseteq Requests
  BY ArrivalType DEF AnalyzeInv, Requests
<1>2. /\ pc[c] = "ready" /\ pc' = [pc EXCEPT ![c] = "queued"] /\ queue' = Append(queue, c)
      /\ UNCHANGED <<setup, operation, tries, made, execution, report, log, stored, answer>>
  BY DEF Arrive, Goto, analysisVars
<1>3. queue \in Seq(Calls) /\ Len(queue) \in Nat /\ DOMAIN queue = 1..Len(queue)
      /\ DOMAIN queue' = (1..Len(queue)) \cup {Len(queue) + 1}
      /\ (\A i \in 1..Len(queue) : queue'[i] = queue[i]) /\ queue'[Len(queue) + 1] = c
  BY <1>1, <1>2 DEF TypeOK
<1>4. \A i \in DOMAIN queue : queue[i] # c /\ queue[i] \in Calls
  BY <1>1, <1>2, <1>3 DEF AnalyzeInv, QueueInv
<1>5. answer[c] = "none"
  BY <1>1, <1>2 DEF AnalyzeInv, QueueInv
<1>6. QueueInv'
  <2>1. \A i \in DOMAIN queue' : pc'[queue'[i]] = "queued"
    BY <1>1, <1>2, <1>3, <1>4 DEF AnalyzeInv, QueueInv, TypeOK
  <2>2. \A i, j \in DOMAIN queue' : queue'[i] = queue'[j] => i = j
    BY <1>3, <1>4 DEF AnalyzeInv, QueueInv
  <2>3. \A d \in Calls : pc'[d] \in {"ready", "queued"} => answer'[d] = "none"
    BY <1>1, <1>2, <1>5 DEF AnalyzeInv, QueueInv, TypeOK
  <2>4. QED
    BY <2>1, <2>2, <2>3 DEF QueueInv
<1>7. RequestOK(c)'
  BY <1>1, <1>2, WaitingOK DEF AnalyzeInv, TypeOK, NotBegun
<1>8. \A q \in Requests \ {c} : RequestOK(q)'
  <2>1. \A q \in Requests \ {c} : pc'[q] = pc[q]
    BY <1>1, <1>2 DEF TypeOK
  <2>2. QED
    BY <1>2, <2>1, Undisturbed DEF AnalyzeInv
<1>9. LogInv'
  BY <1>2, LogStays DEF AnalyzeInv
<1>10. QED
  BY <1>1, <1>6, <1>7, <1>8, <1>9 DEF AnalyzeInv

LEMMA TakeStep ==
    ASSUME AnalyzeInv, NEW c \in Calls, Take(c)
    PROVE  AnalyzeInv'
<1>1. TypeOK /\ TypeOK' /\ c \in Requests
  BY ArrivalType DEF AnalyzeInv, Requests
<1>2. CASE StartThread(c)
  <2>1. /\ queue # <<>> /\ c = Head(queue) /\ queue' = Tail(queue) /\ Begin(c)
        /\ UNCHANGED <<answer, log, made>>
        /\ pc' = [pc EXCEPT ![c] = IF setup = "noPrompt" THEN "fallback" ELSE "call"]
    BY <1>2 DEF StartThread, Begin, Goto
  <2>2. QueueInv' /\ pc[c] = "queued"
    <3>1. CASE setup = "noPrompt"
      <4>1. pc' = [pc EXCEPT ![c] = "fallback"]
        BY <2>1, <3>1
      <4>2. QED
        BY <2>1, <4>1, QueueTail
    <3>2. CASE setup # "noPrompt"
      <4>1. pc' = [pc EXCEPT ![c] = "call"]
        BY <2>1, <3>2
      <4>2. QED
        BY <2>1, <4>1, QueueTail
    <3>3. QED
      BY <3>1, <3>2
  <2>3. RequestOK(c)'
    BY <1>1, <2>1, <2>2, BeginOK DEF NotBegun
  <2>4. \A q \in Requests \ {c} : RequestOK(q)'
    BY <1>1, <2>1, BeginOthers, Undisturbed DEF AnalyzeInv
  <2>5. QED
    BY <1>1, <2>1, <2>2, <2>3, <2>4, LogStays DEF AnalyzeInv
<1>3. CASE Reject(c)
  <2>1. /\ queue # <<>> /\ c = Head(queue) /\ queue' = Tail(queue)
        /\ pc' = [pc EXCEPT ![c] = "rejected"]
        /\ UNCHANGED <<setup, operation, tries, made, execution, report, log, stored, answer>>
    BY <1>3 DEF Reject, Goto, analysisVars
  <2>2. QueueInv' /\ pc[c] = "queued"
    BY <2>1, QueueTail
  <2>3. pc'[c] = "rejected" /\ \A q \in Requests \ {c} : pc'[q] = pc[q]
    BY <1>1, <2>1 DEF TypeOK
  <2>4. RequestOK(c)'
    BY <1>1, <2>1, <2>2, <2>3, WaitingOK DEF AnalyzeInv, NotBegun
  <2>5. \A q \in Requests \ {c} : RequestOK(q)'
    BY <2>1, <2>3, Undisturbed DEF AnalyzeInv
  <2>6. QED
    BY <1>1, <2>1, <2>2, <2>4, <2>5, LogStays DEF AnalyzeInv
<1>4. QED
  BY <1>2, <1>3 DEF Take

LEMMA AnswerStep ==
    ASSUME AnalyzeInv, NEW c \in Calls, Answer(c)
    PROVE  AnalyzeInv'
<1>1. TypeOK /\ TypeOK' /\ c \in Requests /\ Calls \subseteq Requests
  BY ArrivalType DEF AnalyzeInv, Requests
<1>2. /\ UNCHANGED <<setup, operation, tries, made, execution, report, log, stored>>
      /\ \A d \in Calls \ {c} : answer'[d] = answer[d]
  BY <1>1 DEF Answer, Deliver, Expire, analysisVars, TypeOK
<1>3. CASE pc[c] = "queued" /\ Expire(c)
  <2>1. PICK i \in DOMAIN queue : queue[i] = c /\ queue' = RemoveAt(queue, i)
    BY <1>3 DEF Expire, CancelWork
  <2>2. pc' = [pc EXCEPT ![c] = "cancelled"]
    BY <1>3 DEF Expire, CancelWork, Goto
  <2>3. pc'[c] = "cancelled" /\ \A q \in Requests \ {c} : pc'[q] = pc[q]
    BY <1>1, <2>2 DEF TypeOK
  <2>4. QueueInv'
    <3>1. DOMAIN queue' = 1..(Len(queue) - 1) /\ Len(queue) \in Nat /\ i \in Nat
      <4>1. DOMAIN queue' = 1..(Len(queue) - 1)
        BY <1>1, <2>1, Removed
      <4>2. queue \in Seq(Calls) /\ i \in DOMAIN queue
        BY <1>1 DEF TypeOK
      <4>3. QED
        BY <4>1, <4>2
    <3>2. \A j \in DOMAIN queue' : LET k == IF j < i THEN j ELSE j + 1
                                   IN  k \in DOMAIN queue /\ k # i /\ queue'[j] = queue[k]
      BY <1>1, <2>1, Removed
    <3>3. \A j \in DOMAIN queue' : queue'[j] \in Calls /\ queue'[j] # c /\ pc[queue'[j]] = "queued"
      <4>1. ASSUME NEW k \in DOMAIN queue, k # i
            PROVE  queue[k] \in Calls /\ queue[k] # c /\ pc[queue[k]] = "queued"
        <5>1. queue[k] \in Calls
          BY <1>1 DEF TypeOK
        <5>2. QED
          BY <2>1, <4>1, <5>1 DEF AnalyzeInv, QueueInv
      <4>2. QED
        BY <3>2, <4>1
    <3>4. \A j, l \in DOMAIN queue' : queue'[j] = queue'[l] => j = l
      BY <3>1, <3>2 DEF AnalyzeInv, QueueInv
    <3>5. \A d \in Calls : pc'[d] \in {"ready", "queued"} => answer'[d] = "none"
      BY <1>1, <1>2, <2>3 DEF AnalyzeInv, QueueInv
    <3>6. QED
      BY <1>1, <2>3, <3>3, <3>4, <3>5 DEF QueueInv
  <2>5. RequestOK(c)'
    BY <1>1, <1>2, <1>3, <2>3, WaitingOK DEF AnalyzeInv, NotBegun
  <2>6. \A q \in Requests \ {c} : RequestOK(q)'
    BY <1>2, <2>3, Undisturbed DEF AnalyzeInv
  <2>7. QED
    BY <1>1, <1>2, <2>4, <2>5, <2>6, LogStays DEF AnalyzeInv
<1>4. CASE Deliver(c) \/ (pc[c] # "queued" /\ Expire(c))
  <2>1. UNCHANGED <<queue, pc>> /\ pc[c] \notin {"ready", "queued"}
    <3>1. CASE Deliver(c)
      BY <3>1 DEF Deliver, Deliverable, ThreadDone
    <3>2. CASE pc[c] # "queued" /\ Expire(c)
      <4>1. Waiting(c) /\ CancelWork(c)
        BY <3>2 DEF Expire, Expired
      <4>2. QED
        BY <3>2, <4>1 DEF Waiting, CancelWork
    <3>3. QED
      BY <1>4, <3>1, <3>2
  <2>2. QueueInv'
    BY <1>2, <2>1 DEF AnalyzeInv, QueueInv
  <2>3. \A q \in Requests : RequestOK(q)'
    BY <1>2, <2>1, Undisturbed DEF AnalyzeInv
  <2>4. QED
    BY <1>1, <1>2, <2>2, <2>3, LogStays DEF AnalyzeInv
<1>5. QED
  BY <1>3, <1>4 DEF Answer

LEMMA BlockingStep ==
    ASSUME AnalyzeInv, NEW b \in Blocking, ArriveBlocking(b)
    PROVE  AnalyzeInv'
<1>1. TypeOK' /\ TypeOK /\ b \in Requests /\ b \notin Calls /\ Calls \subseteq Requests
  BY TypeNext, AnalyzeAssumption DEF AnalyzeInv, Next, Requests
<1>2. pc[b] \in NotBegun /\ Begin(b) /\ UNCHANGED <<queue, answer, log, made>>
  BY DEF ArriveBlocking, Begin, NotBegun
<1>3. \A q \in Requests \ {b} : RequestOK(q)' /\ pc'[q] = pc[q]
  BY <1>1, <1>2, BeginOthers, Undisturbed DEF AnalyzeInv
<1>4. QueueInv'
  <2>1. \A i \in DOMAIN queue : queue[i] \in Calls
    BY <1>1 DEF TypeOK
  <2>2. QED
    BY <1>1, <1>2, <1>3, <2>1 DEF AnalyzeInv, QueueInv
<1>5. QED
  BY <1>1, <1>2, <1>3, <1>4, BeginOK, LogStays DEF AnalyzeInv

LEMMA PauseStep ==
    ASSUME AnalyzeInv, Tick \/ Quiet \/ UNCHANGED vars
    PROVE  AnalyzeInv'
<1>1. UNCHANGED <<setup, queue, pc, operation, tries, made, execution, report, log, stored, answer>>
  BY DEF Tick, Quiet, vars, analysisVars
<1>2. TypeOK'
  BY TypeNext DEF AnalyzeInv, Next
<1>3. QueueInv' /\ LogInv' /\ \A r \in Requests : RequestOK(r)'
  BY <1>1, Undisturbed, LogStays DEF AnalyzeInv, QueueInv
<1>4. QED
  BY <1>2, <1>3 DEF AnalyzeInv

LEMMA AnalyzeInvInit == Init => AnalyzeInv
<1> SUFFICES ASSUME Init PROVE AnalyzeInv
  OBVIOUS
<1>1. QueueInv /\ LogInv
  BY DEF Init, QueueInv, LogInv, Requests
<1>2. ASSUME NEW r \in Requests PROVE RequestOK(r)
  BY <1>2 DEF Init, RequestOK, NothingYet, FlagsOK, IdsOK, CallOK, OutcomeOK, InOrder, Ended, Kept, Pieces, NotBegun
<1>3. QED
  BY <1>1, <1>2, TypeInit DEF AnalyzeInv

LEMMA AnalyzeInvNext == AnalyzeInv /\ [Next]_vars => AnalyzeInv'
  BY AnalyzeStep, ArriveStep, TakeStep, AnswerStep, BlockingStep, PauseStep DEF Next

LEMMA AnalyzeInvariant == Spec => []AnalyzeInv
  BY AnalyzeInvInit, AnalyzeInvNext, PTL DEF Spec

-----------------------------------------------------------------------------
(* What the invariant says of the answers.                                  *)

(* The ids of an answer are those of the records the analysis made itself,  *)
(* whatever ran beside it, and cover all that the log holds of it.          *)
THEOREM IdsAreOwn == Spec => []AnswersMatchAudit
<1>1. AnalyzeInv => AnswersMatchAudit
  BY DEF AnalyzeInv, RequestOK, IdsOK, OwnIds, LogInv, AnswersMatchAudit, Finished, Ended, Kept, TypeOK, Ids
<1>2. QED
  BY <1>1, AnalyzeInvariant, PTL

(* A baseline is the last resort: no prompt, or every attempt was used up.  *)
THEOREM BaselineLast == Spec => []BaselineAsLastResort
<1>1. ASSUME AnalyzeInv PROVE BaselineAsLastResort
  <2> SUFFICES ASSUME NEW r \in Requests, Finished(r)
               PROVE  IF report[r].baseline THEN setup = "noPrompt" \/ Exhausted(r)
                      ELSE made[r] # <<>> /\ made[r][Len(made[r])].status = "valid"
    BY DEF BaselineAsLastResort
  <2>1. IF report[r].baseline THEN setup = "noPrompt" \/ ExhaustedIn(made[r]) ELSE LastValid(made[r])
    BY <1>1 DEF AnalyzeInv, RequestOK, OutcomeOK, Ended, Kept, Finished
  <2>2. ExhaustedIn(made[r]) => Exhausted(r)
    BY DEF ExhaustedIn, Exhausted, FailedIn, Failed
  <2>3. QED
    BY <2>1, <2>2 DEF LastValid
<1>2. QED
  BY <1>1, AnalyzeInvariant, PTL

(* However many attempts a call may take, none follows a valid answer, and  *)
(* only the fallback follows an error of the configuration.                 *)
THEOREM AskedOnlyWhileUseful == Spec => []NothingAskedInVain
<1>1. ASSUME AnalyzeInv PROVE NothingAskedInVain
  <2>1. \A r \in Requests : InOrder(made[r]) /\ made[r] \in Seq(Record)
    BY <1>1 DEF AnalyzeInv, RequestOK, OutcomeOK, TypeOK
  <2>2. \A n \in 1..(2 * Retries + 2) : n \in Nat /\ n >= 1
    BY AnalyzeAssumption
  <2>3. \A r \in Requests : \A n \in Nat : n >= 1 /\ n < Len(made[r]) => n \in DOMAIN made[r]
    BY <2>1
  <2>4. QED
    BY <2>1, <2>2, <2>3 DEF InOrder, NothingAskedInVain
<1>2. QED
  BY <1>1, AnalyzeInvariant, PTL

(* What an answer says was saved is what was saved.                         *)
THEOREM FlagsTellTheTruth == Spec => []SavedFlagsTrue
<1>1. AnalyzeInv => SavedFlagsTrue
  BY DEF AnalyzeInv, RequestOK, FlagsOK, SavedFlagsTrue
<1>2. QED
  BY <1>1, AnalyzeInvariant, PTL

(* A call whose deadline passes while it is queued is never analysed.       *)
LEMMA CancelledStays ==
    ASSUME AnalyzeInv, [Next]_vars, NEW c \in Calls, TimedOutInQueue(c)
    PROVE  TimedOutInQueue(c)'
<1>1. TypeOK /\ c \in Requests /\ Calls \subseteq Requests
  BY DEF AnalyzeInv, Requests
<1>2. answer[c] = "Timeout" /\ made[c] = <<>> /\ pc[c] = "cancelled"
  BY DEF TimedOutInQueue, AnalyzeInv, QueueInv
<1>3. ASSUME NEW r \in Requests, Analyze(r) PROVE UNCHANGED <<pc[c], made[c], answer[c]>>
  BY <1>1, <1>2, <1>3, AnalysisFrame DEF NotBegun
<1>4. ASSUME NEW d \in Calls, Arrive(d) \/ Take(d) \/ Answer(d) PROVE UNCHANGED <<pc[c], made[c], answer[c]>>
  <2>1. CASE Arrive(d)
    BY <1>1, <1>2, <2>1 DEF Arrive, Goto, analysisVars, TypeOK
  <2>2. CASE Take(d)
    <3>1. d # c
      BY <1>1, <1>2, <2>2, HeadAndTail DEF Take, StartThread, Reject, AnalyzeInv, QueueInv
    <3>2. QED
      BY <1>1, <2>2, <3>1 DEF Take, StartThread, Reject, Begin, Goto, analysisVars, TypeOK
  <2>3. CASE Answer(d)
    <3>1. d # c
      BY <1>2, <2>3 DEF Answer, Deliver, Expire, Expired, Waiting
    <3>2. QED
      BY <1>1, <2>3, <3>1 DEF Answer, Deliver, Expire, CancelWork, Goto, analysisVars, TypeOK
  <2>4. QED
    BY <1>4, <2>1, <2>2, <2>3
<1>5. ASSUME NEW b \in Blocking, ArriveBlocking(b) PROVE UNCHANGED <<pc[c], made[c], answer[c]>>
  BY <1>1, <1>5, AnalyzeAssumption DEF ArriveBlocking, Begin, Goto, TypeOK
<1>6. CASE Tick \/ Quiet \/ UNCHANGED vars
  BY <1>6, <1>2 DEF Tick, Quiet, vars, analysisVars, TimedOutInQueue
<1>7. QED
  BY <1>2, <1>3, <1>4, <1>5, <1>6 DEF Next, TimedOutInQueue

\* A call of /analyze answered 504 while its work waited for a thread never becomes
\* an analysis: wait_for cancels the work, and a worker drops cancelled work.
THEOREM CancelledNeverAnalysed == Spec => CancelledCallsNeverRun
<1>1. AnalyzeInv /\ [Next]_vars => [\A c \in Calls : TimedOutInQueue(c) => TimedOutInQueue(c)']_vars
  BY CancelledStays
<1>2. QED
  BY <1>1, AnalyzeInvariant, PTL DEF Spec, CancelledCallsNeverRun
================================================================================
