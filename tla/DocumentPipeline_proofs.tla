------------------------ MODULE DocumentPipeline_proofs ------------------------
(***************************************************************************)
(* Proofs about DocumentPipeline for any number of sessions, texts, batch  *)
(* items, faults and crashes.                                              *)
(***************************************************************************)
EXTENDS DocumentPipeline, FiniteSetTheorems, TLAPS

(* The awaits of IngestAsync alone, and those at which the session's        *)
(* document is tracked.                                                     *)
IngestPc  == {"extract", "duplicate", "source", "store", "complete", "fail", "failLinked"}
TrackedPc == {"duplicate", "complete", "hasEvent", "count", "queueAi", "askAi", "saveEvent",
              "recalculate", "failAi", "failLinked"}

(* A session under way has a request, which is an ingestion unless it is a  *)
(* reprocess; the ingestion awaits are reached by ingestions only; from the *)
(* first query that returns the document on, the DbContext tracks it; an    *)
(* ingestion that stores has chosen a source.                               *)
SessionOK(s) ==
    /\ Active(s) => item[s] > 0
    /\ item[s] > 0 => /\ req[OpOf(s)] \in Request
                      /\ s \in Ingests <=> KindOf(s) # "Reprocess"
    /\ pc[s] \in IngestPc => s \in Ingests
    /\ pc[s] \in TrackedPc => mem[s][TextOf(s)] \in Status
    /\ pc[s] = "store" => local[s].row \in SourceRow

TypeInv == TypeOK /\ \A s \in Sessions : SessionOK(s)

LEMMA OpFinite == IsFiniteSet(Op)
<1>1. IsFiniteSet(1..BatchSize)
  BY BoundsAssumption, FS_Interval
<1>2. QED
  BY <1>1, SessionsAssumption, FS_Product DEF Op

(* The empty row of each table and the empty DbContext are well typed.      *)
LEMMA EmptyTyped ==
    /\ NoDoc \in DocRow
    /\ NoJob \in JobRow
    /\ NoLocal \in Local
    /\ NoMem \in [Texts -> Status \cup {"untracked"}]
<1>1. NoDoc \in DocRow
  BY DEF NoDoc, DocRow
<1>2. NoJob \in JobRow
  BY DEF NoJob, JobRow, JobStatus
<1>3. NoLocal \in Local
  BY DEF NoLocal, Local
<1>4. NoMem \in [Texts -> Status \cup {"untracked"}]
  BY DEF NoMem
<1>5. QED
  BY <1>1, <1>2, <1>3, <1>4

LEMMA InitTypeInv == Init => TypeInv
<1> SUFFICES ASSUME Init PROVE TypeInv
  OBVIOUS
<1>1. TypeOK
  <2>1. docs \in [Texts -> DocRow] /\ ingestJobs \in [Op -> JobRow] /\ aiJobs \in [Op -> JobRow]
    BY EmptyTyped DEF Init
  <2>2. /\ mem \in [Sessions -> [Texts -> Status \cup {"untracked"}]]
        /\ tracked \in [Sessions -> SUBSET SourceRow]
        /\ local \in [Sessions -> Local]
    BY EmptyTyped DEF Init
  <2>3. llmLogs \in [Texts -> [Success : Nat, Error : Nat]]
    BY DEF Init
  <2>4. sources \subseteq SourceRow
    BY SessionsAssumption DEF Init, SourceRow
  <2>5. pc \in [Sessions -> Pc] /\ item \in [Sessions -> 0..BatchSize]
    BY BoundsAssumption DEF Init, Pc
  <2>6. req \in [Op -> Request \cup {None}] /\ result \in [Op -> Outcome]
    BY DEF Init, Outcome
  <2>7. faults \in 0..MaxFaults /\ crashes \in 0..MaxCrashes
    BY BoundsAssumption DEF Init
  <2>8. QED
    BY <2>1, <2>2, <2>3, <2>4, <2>5, <2>6, <2>7 DEF Init, TypeOK
<1>2. ASSUME NEW s \in Sessions PROVE SessionOK(s)
  BY DEF Init, SessionOK, Active, IngestPc, TrackedPc
<1>3. QED
  BY <1>1, <1>2 DEF TypeInv

(* What a session under way works on is well typed.                         *)
LEMMA Underway ==
    ASSUME TypeInv, NEW s \in Sessions, Active(s)
    PROVE  /\ item[s] \in 1..BatchSize
           /\ OpOf(s) \in Op
           /\ req[OpOf(s)] \in Request
           /\ TextOf(s) \in Texts
           /\ KindOf(s) \in RequestKinds
           /\ s \in Ingests => KindOf(s) \in SourceTypes
BY BoundsAssumption DEF TypeInv, TypeOK, SessionOK, OpOf, Op, Request, RequestKinds, TextOf, KindOf

(* A step of session s that leaves the other sessions and their requests    *)
(* alone preserves the invariant if it does so for s.                       *)
LEMMA StepOfOne ==
    ASSUME TypeInv, NEW s \in Sessions, TypeOK', SessionOK(s)',
           \A q \in Sessions \ {s} :
               /\ pc'[q] = pc[q] /\ item'[q] = item[q]
               /\ mem'[q] = mem[q] /\ local'[q] = local[q]
               /\ req'[<<q, item[q]>>] = req[<<q, item[q]>>]
    PROVE  TypeInv'
<1>1. ASSUME NEW q \in Sessions, q # s PROVE SessionOK(q)'
  <2>1. /\ pc'[q] = pc[q] /\ item'[q] = item[q] /\ mem'[q] = mem[q] /\ local'[q] = local[q]
        /\ OpOf(q)' = OpOf(q) /\ req'[OpOf(q)] = req[OpOf(q)]
    BY <1>1 DEF OpOf
  <2>2. TextOf(q)' = TextOf(q) /\ KindOf(q)' = KindOf(q) /\ Active(q)' = Active(q)
    BY <2>1 DEF TextOf, KindOf, Active
  <2>3. SessionOK(q)
    BY DEF TypeInv
  <2>4. QED
    BY <2>1, <2>2, <2>3 DEF SessionOK
<1>2. QED
  BY <1>1 DEF TypeInv

(* Ending an operation.                                                     *)
LEMMA FinishType ==
    ASSUME TypeInv, NEW s \in Sessions, Active(s), NEW o \in Outcome,
           NEW m \in [Texts -> Status \cup {"untracked"}], NEW k \in SUBSET SourceRow,
           Finish(s, o, m, k), item' = item, req' = req
    PROVE  /\ result' \in [Op -> Outcome]
           /\ pc' \in [Sessions -> Pc]
           /\ mem' \in [Sessions -> [Texts -> Status \cup {"untracked"}]]
           /\ tracked' \in [Sessions -> SUBSET SourceRow]
           /\ local' \in [Sessions -> Local]
           /\ SessionOK(s)'
           /\ \A q \in Sessions \ {s} :
                  pc'[q] = pc[q] /\ mem'[q] = mem[q] /\ local'[q] = local[q]
<1>1. OpOf(s) \in Op
  BY Underway
<1>2. result' \in [Op -> Outcome] /\ pc' \in [Sessions -> Pc]
  BY <1>1 DEF TypeInv, TypeOK, Finish, Pc
<1>3. /\ mem' \in [Sessions -> [Texts -> Status \cup {"untracked"}]]
      /\ tracked' \in [Sessions -> SUBSET SourceRow]
      /\ local' \in [Sessions -> Local]
  BY EmptyTyped DEF TypeInv, TypeOK, Finish
<1>4. SessionOK(s)'
  BY DEF TypeInv, TypeOK, Finish, SessionOK, Active, OpOf, KindOf, IngestPc, TrackedPc
<1>5. \A q \in Sessions \ {s} :
          pc'[q] = pc[q] /\ mem'[q] = mem[q] /\ local'[q] = local[q]
  BY DEF TypeInv, TypeOK, Finish
<1>6. QED
  BY <1>2, <1>3, <1>4, <1>5

(* The steps that begin an operation.                                       *)
LEMMA StartIngestType ==
    ASSUME TypeInv, NEW s \in Sessions, NEW t \in Texts, NEW k \in SourceTypes,
           StartIngest(s, t, k)
    PROVE  TypeInv'
<1>1. s \in Ingests /\ item[s] + 1 \in 1..BatchSize
  BY BoundsAssumption DEF StartIngest, MayIngest, Begin, Limit, Ingests, TypeInv, TypeOK
<1>2. <<s, item[s] + 1>> \in Op /\ [text |-> t, kind |-> k] \in Request
  BY <1>1 DEF Op, Request, RequestKinds
<1>3. item' \in [Sessions -> 0..BatchSize] /\ req' \in [Op -> Request \cup {None}]
  BY <1>1, <1>2 DEF TypeInv, TypeOK, StartIngest, Begin
<1>4. ingestJobs' \in [Op -> JobRow]
  <2>1. [NoJob EXCEPT !.status = "Running"] \in JobRow
    BY DEF NoJob, JobRow, JobStatus
  <2>2. QED
    BY <1>2, <2>1 DEF TypeInv, TypeOK, StartIngest
<1>5. pc' \in [Sessions -> Pc]
  BY DEF TypeInv, TypeOK, StartIngest, Goto, Pc
<1>6. TypeOK'
  BY <1>3, <1>4, <1>5 DEF TypeInv, TypeOK, StartIngest, ctxVars
<1>7. item'[s] = item[s] + 1 /\ req'[<<s, item[s] + 1>>] = [text |-> t, kind |-> k]
  BY <1>2 DEF TypeInv, TypeOK, StartIngest, Begin
<1>8. SessionOK(s)'
  BY <1>1, <1>2, <1>7 DEF TypeInv, TypeOK, StartIngest, Goto, SessionOK, Active, OpOf, KindOf,
     SourceTypes, TrackedPc
<1>9. \A q \in Sessions \ {s} :
          /\ pc'[q] = pc[q] /\ item'[q] = item[q]
          /\ mem'[q] = mem[q] /\ local'[q] = local[q]
          /\ req'[<<q, item[q]>>] = req[<<q, item[q]>>]
  BY <1>2 DEF TypeInv, TypeOK, StartIngest, Begin, Goto, ctxVars
<1>10. QED
  BY <1>6, <1>8, <1>9, StepOfOne

LEMMA StartReprocessType ==
    ASSUME TypeInv, NEW s \in Sessions, NEW t \in Texts, StartReprocess(s, t)
    PROVE  TypeInv'
<1>1. item[s] = 0 /\ item[s] + 1 \in 1..BatchSize
  BY BoundsAssumption, SessionsAssumption
  DEF StartReprocess, Begin, Limit, Batches, TypeInv, TypeOK
<1>2. <<s, item[s] + 1>> \in Op /\ <<s, 1>> \in Op /\ [text |-> t, kind |-> "Reprocess"] \in Request
  BY <1>1 DEF Op, Request, RequestKinds
<1>3. /\ item' \in [Sessions -> 0..BatchSize]
      /\ req' \in [Op -> Request \cup {None}]
  <2>1. /\ item' = [item EXCEPT ![s] = item[s] + 1]
        /\ req' = [req EXCEPT ![<<s, item[s] + 1>>] = [text |-> t, kind |-> "Reprocess"]]
    BY DEF StartReprocess, Begin
  <2>2. item' \in [Sessions -> 0..BatchSize]
    BY <1>1, <2>1, BoundsAssumption DEF TypeInv, TypeOK
  <2>3. req' \in [Op -> Request \cup {None}]
    BY <1>2, <2>1 DEF TypeInv, TypeOK
  <2>4. QED
    BY <2>2, <2>3
<1>4. Stored(t) => docs[t].status \in Status
  BY DEF TypeInv, TypeOK, DocRow, Stored
<1>5. /\ mem' \in [Sessions -> [Texts -> Status \cup {"untracked"}]]
      /\ pc' \in [Sessions -> Pc]
      /\ result' \in [Op -> Outcome]
  <2>1. CASE Stored(t)
    <3>1. /\ mem' = [mem EXCEPT ![s][t] = docs[t].status]
          /\ pc' = [pc EXCEPT ![s] = "hasEvent"]
          /\ result' = result
      BY <2>1 DEF StartReprocess, Goto
    <3>2. QED
      BY <1>4, <2>1, <3>1 DEF TypeInv, TypeOK, Pc
  <2>2. CASE ~Stored(t)
    <3>1. result' = [result EXCEPT ![<<s, 1>>] = "Failed"] /\ pc' = pc /\ mem' = mem
      BY <2>2 DEF StartReprocess
    <3>2. QED
      BY <1>2, <3>1 DEF TypeInv, TypeOK, Outcome
  <2>3. QED
    BY <2>1, <2>2
<1>6. TypeOK'
  BY <1>3, <1>5 DEF TypeInv, TypeOK, StartReprocess, dbVars
<1>7. /\ item'[s] = item[s] + 1
      /\ req'[<<s, item[s] + 1>>] = [text |-> t, kind |-> "Reprocess"]
      /\ req'[OpOf(s)'] \in Request /\ TextOf(s)' = t
  BY <1>2 DEF TypeInv, TypeOK, StartReprocess, Begin, OpOf, TextOf
<1>8. s \notin Ingests /\ KindOf(s)' = "Reprocess"
  BY <1>7, SessionsAssumption DEF StartReprocess, Ingests, OpOf, KindOf
<1>9. SessionOK(s)'
  <2>1. CASE Stored(t)
    <3>1. pc'[s] = "hasEvent" /\ mem'[s][t] \in Status
      BY <1>4, <2>1 DEF TypeInv, TypeOK, StartReprocess, Goto
    <3>2. QED
      BY <1>1, <1>7, <1>8, <3>1 DEF SessionOK, Active, IngestPc, TrackedPc
  <2>2. CASE ~Stored(t)
    <3>1. pc'[s] = "ready"
      BY <2>2 DEF StartReprocess, Begin
    <3>2. QED
      BY <1>7, <1>8, <3>1 DEF SessionOK, Active, IngestPc, TrackedPc
  <2>3. QED
    BY <2>1, <2>2
<1>10. \A q \in Sessions \ {s} :
          /\ pc'[q] = pc[q] /\ item'[q] = item[q]
          /\ mem'[q] = mem[q] /\ local'[q] = local[q]
          /\ req'[<<q, item[q]>>] = req[<<q, item[q]>>]
  BY <1>2 DEF TypeInv, TypeOK, StartReprocess, Begin, Goto
<1>11. QED
  BY <1>6, <1>9, <1>10, StepOfOne

LEMMA StartThrowsType ==
    ASSUME TypeInv, NEW s \in Sessions, NEW t \in Texts, NEW k \in RequestKinds,
           StartThrows(s, t, k)
    PROVE  TypeInv'
<1>1. item[s] + 1 \in 1..BatchSize
  BY BoundsAssumption DEF StartThrows, Begin, Limit, TypeInv, TypeOK
<1>2. <<s, item[s] + 1>> \in Op /\ [text |-> t, kind |-> k] \in Request
  BY <1>1 DEF Op, Request
<1>3. item' \in [Sessions -> 0..BatchSize] /\ req' \in [Op -> Request \cup {None}]
  BY <1>1, <1>2 DEF TypeInv, TypeOK, StartThrows, Begin
<1>4. /\ mem' \in [Sessions -> [Texts -> Status \cup {"untracked"}]]
      /\ tracked' \in [Sessions -> SUBSET SourceRow]
      /\ pc' \in [Sessions -> Pc]
      /\ result' \in [Op -> Outcome]
      /\ faults' \in 0..MaxFaults
  BY <1>2, EmptyTyped, BoundsAssumption
  DEF TypeInv, TypeOK, StartThrows, Goto, Pc, Outcome, Fault
<1>5. TypeOK'
  BY <1>3, <1>4 DEF TypeInv, TypeOK, StartThrows, dbVars
<1>6. item'[s] = item[s] + 1 /\ req'[<<s, item[s] + 1>>] = [text |-> t, kind |-> k]
  BY <1>2 DEF TypeInv, TypeOK, StartThrows, Begin
<1>7. SessionOK(s)'
  <2>1. s \in Ingests <=> k # "Reprocess"
    BY SessionsAssumption DEF StartThrows, MayIngest, Ingests
  <2>2. pc'[s] = "stopped"
    BY DEF TypeInv, TypeOK, StartThrows, Goto
  <2>3. QED
    BY <1>2, <1>6, <2>1, <2>2 DEF SessionOK, Active, OpOf, KindOf, IngestPc, TrackedPc
<1>8. \A q \in Sessions \ {s} :
          /\ pc'[q] = pc[q] /\ item'[q] = item[q]
          /\ mem'[q] = mem[q] /\ local'[q] = local[q]
          /\ req'[<<q, item[q]>>] = req[<<q, item[q]>>]
  BY <1>2 DEF TypeInv, TypeOK, StartThrows, Begin, Goto
<1>9. QED
  BY <1>5, <1>7, <1>8, StepOfOne

(* Settling a job, and linking it to its document, keeps a table of jobs.   *)
LEMMA JobSettled ==
    ASSUME NEW jobs \in [Op -> JobRow], NEW op \in Op, NEW st \in JobStatus,
           NEW d \in Texts \cup {None}
    PROVE  /\ [jobs EXCEPT ![op].status = st] \in [Op -> JobRow]
           /\ [jobs EXCEPT ![op].status = st, ![op].doc = d] \in [Op -> JobRow]
<1>1. [jobs[op] EXCEPT !.status = st] \in JobRow
  BY DEF JobRow
<1>2. [jobs EXCEPT ![op].status = st] \in [Op -> JobRow]
  BY <1>1
<1>3. [jobs EXCEPT ![op].status = st, ![op].doc = d] \in [Op -> JobRow]
  BY DEF JobRow
<1>4. QED
  BY <1>2, <1>3

(* Writing a status keeps a document row.                                   *)
LEMMA StatusWritten ==
    ASSUME NEW row \in DocRow, NEW st \in Status
    PROVE  [row EXCEPT !.status = st] \in DocRow
BY DEF DocRow

(* Writing a local variable keeps the session's locals.                     *)
LEMMA LocalWritten ==
    ASSUME NEW l \in Local
    PROVE  /\ \A r \in SourceRow : [l EXCEPT !.row = r] \in Local
           /\ \A st \in Status : [l EXCEPT !.original = st] \in Local
           /\ \A n \in Nat : [l EXCEPT !.attempts = n] \in Local
<1>1. \A r \in SourceRow : [l EXCEPT !.row = r] \in Local
  BY DEF Local
<1>2. \A st \in Status : [l EXCEPT !.original = st] \in Local
  BY DEF Local
<1>3. \A n \in Nat : [l EXCEPT !.attempts = n] \in Local
  BY DEF Local
<1>4. QED
  BY <1>1, <1>2, <1>3

(* Counting a call keeps the table of logs.                                 *)
LEMMA CallLogged ==
    ASSUME NEW logs \in [Texts -> [Success : Nat, Error : Nat]], NEW t \in Texts
    PROVE  /\ [logs EXCEPT ![t].Success = @ + 1] \in [Texts -> [Success : Nat, Error : Nat]]
           /\ [logs EXCEPT ![t].Error = @ + 1] \in [Texts -> [Success : Nat, Error : Nat]]
<1>1. /\ [logs[t] EXCEPT !.Success = @ + 1] \in [Success : Nat, Error : Nat]
      /\ [logs[t] EXCEPT !.Error = @ + 1] \in [Success : Nat, Error : Nat]
  OBVIOUS
<1>2. QED
  BY <1>1

(* A step that moves s to another await and changes neither its memory nor  *)
(* its request.                                                             *)
LEMMA MoveType ==
    ASSUME TypeInv, NEW s \in Sessions, Active(s), NEW label \in Pc, Goto(s, label),
           item' = item, mem' = mem, req' = req, TypeOK',
           \A q \in Sessions \ {s} : local'[q] = local[q],
           label \in IngestPc => s \in Ingests,
           label \in TrackedPc => mem[s][TextOf(s)] \in Status,
           label = "store" => local'[s].row \in SourceRow
    PROVE  TypeInv'
<1>1. SessionOK(s)'
  BY DEF TypeInv, TypeOK, Goto, SessionOK, Active, OpOf, TextOf, KindOf
<1>2. QED
  BY <1>1, StepOfOne DEF TypeInv, TypeOK, Goto

(* The ingestion's steps up to the stored document.                         *)
LEMMA FindNewType == ASSUME TypeInv, NEW s \in Sessions, FindNew(s) PROVE TypeInv'
<1>1. Active(s) /\ OpOf(s) \in Op /\ s \in Ingests
  BY Underway DEF FindNew, Active, TypeInv, SessionOK, IngestPc
<1>2. TypeOK'
  BY <1>1 DEF TypeInv, TypeOK, FindNew, Goto, Pc, dbVars, ctxVars
<1>3. QED
  BY <1>1, <1>2, MoveType DEF FindNew, ctxVars, Pc, IngestPc, TrackedPc

LEMMA FindDuplicateType == ASSUME TypeInv, NEW s \in Sessions, FindDuplicate(s) PROVE TypeInv'
<1>1. item[s] > 0 /\ TextOf(s) \in Texts /\ OpOf(s) \in Op
  BY Underway DEF Active, FindDuplicate
<1>2. docs[TextOf(s)].status \in Status
  BY <1>1 DEF TypeInv, TypeOK, DocRow, FindDuplicate, Stored
<1>3. mem' \in [Sessions -> [Texts -> Status \cup {"untracked"}]]
  BY <1>1, <1>2 DEF TypeInv, TypeOK, FindDuplicate
<1>4. pc' \in [Sessions -> Pc] /\ files' \subseteq Op
  BY <1>1 DEF TypeInv, TypeOK, FindDuplicate, Goto, Pc
<1>5. TypeOK'
  BY <1>3, <1>4 DEF TypeInv, TypeOK, FindDuplicate, dbVars
<1>6. SessionOK(s)'
  BY <1>1, <1>2 DEF TypeInv, TypeOK, FindDuplicate, Goto, dbVars, SessionOK, Active, OpOf, TextOf, KindOf, IngestPc, TrackedPc
<1>7. QED
  BY <1>5, <1>6, StepOfOne DEF TypeInv, TypeOK, FindDuplicate, Goto

LEMMA ExtractionFailsType == ASSUME TypeInv, NEW s \in Sessions, ExtractionFails(s) PROVE TypeInv'
<1>1. Active(s) /\ OpOf(s) \in Op /\ s \in Ingests
  BY Underway DEF ExtractionFails, Active, TypeInv, SessionOK, IngestPc
<1>2. TypeOK'
  BY <1>1 DEF TypeInv, TypeOK, ExtractionFails, Goto, Pc, dbVars, ctxVars
<1>3. QED
  BY <1>1, <1>2, MoveType DEF ExtractionFails, ctxVars, Pc, IngestPc, TrackedPc

LEMMA AnswerDuplicateType == ASSUME TypeInv, NEW s \in Sessions, AnswerDuplicate(s) PROVE TypeInv'
<1>1. Active(s) /\ OpOf(s) \in Op /\ TextOf(s) \in Texts
  BY Underway DEF AnswerDuplicate, Active
<1>2. /\ mem[s] \in [Texts -> Status \cup {"untracked"}]
      /\ tracked[s] \in SUBSET SourceRow
      /\ "Duplicate" \in Outcome
  BY DEF TypeInv, TypeOK, Outcome
<1>3. Finish(s, "Duplicate", mem[s], tracked[s]) /\ item' = item /\ req' = req
  BY DEF AnswerDuplicate
<1>4. ingestJobs' \in [Op -> JobRow]
  BY <1>1, JobSettled DEF TypeInv, TypeOK, AnswerDuplicate, JobStatus
<1>5. TypeOK'
  BY <1>1, <1>2, <1>3, <1>4, FinishType DEF TypeInv, TypeOK, AnswerDuplicate
<1>6. QED
  BY <1>1, <1>2, <1>3, <1>5, FinishType, StepOfOne

LEMMA ReuseSourceType ==
    ASSUME TypeInv, NEW s \in Sessions, NEW r \in sources, ReuseSource(s, r) PROVE TypeInv'
<1>1. Active(s) /\ s \in Ingests /\ r \in SourceRow
  BY DEF ReuseSource, Active, TypeInv, TypeOK, SessionOK, IngestPc
<1>2. local' \in [Sessions -> Local] /\ tracked' \in [Sessions -> SUBSET SourceRow]
  <2>1. local' = [local EXCEPT ![s] = [local[s] EXCEPT !.row = r]]
    BY DEF ReuseSource
  <2>2. local' \in [Sessions -> Local]
    BY <1>1, <2>1, LocalWritten DEF TypeInv, TypeOK
  <2>3. tracked' \in [Sessions -> SUBSET SourceRow]
    BY <1>1 DEF TypeInv, TypeOK, ReuseSource
  <2>4. QED
    BY <2>2, <2>3
<1>3. TypeOK'
  BY <1>2 DEF TypeInv, TypeOK, ReuseSource, Goto, Pc, dbVars
<1>4. local'[s].row = r /\ \A q \in Sessions \ {s} : local'[q] = local[q]
  BY DEF TypeInv, TypeOK, ReuseSource, Local
<1>5. QED
  BY <1>1, <1>3, <1>4, MoveType DEF ReuseSource, Pc, TrackedPc

LEMMA AddSourceType == ASSUME TypeInv, NEW s \in Sessions, AddSource(s) PROVE TypeInv'
<1>1. /\ Active(s) /\ s \in Ingests /\ <<KindOf(s), s>> \in SourceRow
      /\ "store" \in Pc /\ "fail" \in Pc
  BY Underway DEF AddSource, Active, TypeInv, SessionOK, IngestPc, SourceRow, Pc
<1>2. CASE KindOf(s) \in SourceCatalog
  <2>1. /\ local' = [local EXCEPT ![s].row = <<KindOf(s), s>>]
        /\ tracked' = [tracked EXCEPT ![s] = @ \cup {<<KindOf(s), s>>}]
        /\ Goto(s, "store")
    BY <1>2 DEF AddSource
  <2>2. local' \in [Sessions -> Local] /\ tracked' \in [Sessions -> SUBSET SourceRow]
    BY <1>1, <2>1 DEF TypeInv, TypeOK, Local
  <2>3. TypeOK'
    BY <1>1, <2>1, <2>2 DEF TypeInv, TypeOK, AddSource, Goto, dbVars
  <2>4. local'[s].row = <<KindOf(s), s>> /\ \A q \in Sessions \ {s} : local'[q] = local[q]
    BY <2>1 DEF TypeInv, TypeOK, Local
  <2>5. QED
    BY <1>1, <2>1, <2>3, <2>4, MoveType DEF AddSource, TrackedPc
<1>3. CASE KindOf(s) \notin SourceCatalog
  <2>1. Goto(s, "fail") /\ local' = local /\ tracked' = tracked
    BY <1>3 DEF AddSource
  <2>2. TypeOK'
    BY <1>1, <2>1 DEF TypeInv, TypeOK, AddSource, Goto, dbVars
  <2>3. QED
    BY <1>1, <2>1, <2>2, MoveType DEF AddSource, TrackedPc
<1>4. QED
  BY <1>2, <1>3

LEMMA StoreDocumentType == ASSUME TypeInv, NEW s \in Sessions, StoreDocument(s) PROVE TypeInv'
<1>1. Active(s) /\ OpOf(s) \in Op /\ TextOf(s) \in Texts /\ local[s].row \in SourceRow
  BY Underway DEF StoreDocument, Active, TypeInv, SessionOK
<1>2. docs' \in [Texts -> DocRow] /\ sources' \subseteq SourceRow
  BY <1>1 DEF TypeInv, TypeOK, StoreDocument, DocRow, Status
<1>3. mem' \in [Sessions -> [Texts -> Status \cup {"untracked"}]] /\ pc' \in [Sessions -> Pc]
  BY <1>1 DEF TypeInv, TypeOK, StoreDocument, Status, Goto, Pc
<1>4. TypeOK'
  BY <1>2, <1>3 DEF TypeInv, TypeOK, StoreDocument
<1>5. SessionOK(s)'
  <2>1. mem'[s][TextOf(s)] = "AwaitingAi" /\ pc'[s] = "complete"
    BY <1>1 DEF TypeInv, TypeOK, StoreDocument, Goto
  <2>2. QED
    BY <2>1 DEF TypeInv, StoreDocument, SessionOK, Active, OpOf, TextOf, KindOf, Status, IngestPc
<1>6. QED
  BY <1>4, <1>5, StepOfOne DEF TypeInv, TypeOK, StoreDocument, Goto

LEMMA StoreConflictType == ASSUME TypeInv, NEW s \in Sessions, StoreConflict(s) PROVE TypeInv'
<1>1. Active(s) /\ s \in Ingests
  BY DEF StoreConflict, Active, TypeInv, SessionOK, IngestPc
<1>2. TypeOK'
  BY DEF TypeInv, TypeOK, StoreConflict, Goto, Pc, dbVars, ctxVars
<1>3. QED
  BY <1>1, <1>2, MoveType DEF StoreConflict, ctxVars, Pc, TrackedPc

LEMMA CompleteJobType == ASSUME TypeInv, NEW s \in Sessions, CompleteJob(s) PROVE TypeInv'
<1>1. /\ Active(s) /\ OpOf(s) \in Op /\ TextOf(s) \in Texts
      /\ mem[s][TextOf(s)] \in Status
  BY Underway DEF CompleteJob, Active, TypeInv, SessionOK, TrackedPc
<1>2. ingestJobs' \in [Op -> JobRow]
  BY <1>1, JobSettled DEF TypeInv, TypeOK, CompleteJob, JobStatus
<1>3. TypeOK'
  BY <1>2 DEF TypeInv, TypeOK, CompleteJob, Goto, Pc, ctxVars
<1>4. QED
  BY <1>1, <1>3, MoveType DEF CompleteJob, ctxVars, Pc, IngestPc

(* What recording a failure of document t writes and keeps in memory.       *)
LEMMA RewrittenType ==
    ASSUME TypeInv, NEW s \in Sessions, NEW t \in Texts, mem[s][t] \in Status
    PROVE  /\ Rewritten(s, t) \in [Texts -> DocRow]
           /\ RetrackedMem(s, t) \in [Texts -> Status \cup {"untracked"}]
           /\ RetrackedSources(s, t) \in SUBSET SourceRow
<1>1. ASSUME NEW d \in Reachable(s, t) PROVE mem[s][d] \in Status
  BY DEF TypeInv, TypeOK, Reachable
<1>2. Rewritten(s, t) \in [Texts -> DocRow]
  BY <1>1, StatusWritten DEF TypeInv, TypeOK, Rewritten
<1>3. QED
  BY <1>1, <1>2 DEF TypeInv, TypeOK, RetrackedMem, RetrackedSources

LEMMA RecordFailureType == ASSUME TypeInv, NEW s \in Sessions, RecordFailure(s) PROVE TypeInv'
<1>1. Active(s) /\ OpOf(s) \in Op /\ "Failed" \in Outcome
  BY Underway DEF RecordFailure, Active, Outcome
<1>2. Finish(s, "Failed", NoMem, {}) /\ item' = item /\ req' = req
  BY DEF RecordFailure
<1>3. ingestJobs' \in [Op -> JobRow]
  BY <1>1, JobSettled DEF TypeInv, TypeOK, RecordFailure, JobStatus
<1>4. /\ result' \in [Op -> Outcome] /\ pc' \in [Sessions -> Pc]
      /\ mem' \in [Sessions -> [Texts -> Status \cup {"untracked"}]]
      /\ tracked' \in [Sessions -> SUBSET SourceRow] /\ local' \in [Sessions -> Local]
      /\ SessionOK(s)'
      /\ \A q \in Sessions \ {s} : pc'[q] = pc[q] /\ mem'[q] = mem[q] /\ local'[q] = local[q]
  BY <1>1, <1>2, EmptyTyped, FinishType
<1>5. TypeOK'
  BY <1>3, <1>4 DEF TypeInv, TypeOK, RecordFailure
<1>6. QED
  BY <1>2, <1>4, <1>5, StepOfOne

LEMMA RecordLinkedFailureType ==
    ASSUME TypeInv, NEW s \in Sessions, RecordLinkedFailure(s) PROVE TypeInv'
<1>1. /\ Active(s) /\ OpOf(s) \in Op /\ TextOf(s) \in Texts /\ "Failed" \in Outcome
      /\ mem[s][TextOf(s)] \in Status
  BY Underway DEF RecordLinkedFailure, Active, Outcome, TypeInv, SessionOK, TrackedPc
<1>2. /\ Finish(s, "Failed", RetrackedMem(s, TextOf(s)), RetrackedSources(s, TextOf(s)))
      /\ item' = item /\ req' = req
  BY DEF RecordLinkedFailure
<1>3. ingestJobs' \in [Op -> JobRow]
  BY <1>1, JobSettled DEF TypeInv, TypeOK, RecordLinkedFailure, JobStatus
<1>4. docs' \in [Texts -> DocRow]
  BY <1>1, RewrittenType DEF RecordLinkedFailure
<1>5. TypeOK'
  BY <1>1, <1>2, <1>3, <1>4, RewrittenType, FinishType DEF TypeInv, TypeOK, RecordLinkedFailure
<1>6. QED
  BY <1>1, <1>2, <1>5, RewrittenType, FinishType, StepOfOne

(* ReprocessAsync and RunAiAnalysisAsync.                                   *)
LEMMA RequestAnalysisType ==
    ASSUME TypeInv, NEW s \in Sessions, RequestAnalysis(s) PROVE TypeInv'
<1>1. /\ Active(s) /\ mem[s][TextOf(s)] \in Status /\ "Duplicate" \in Outcome
      /\ mem[s] \in [Texts -> Status \cup {"untracked"}] /\ tracked[s] \in SUBSET SourceRow
  BY DEF RequestAnalysis, Active, TypeInv, TypeOK, SessionOK, TrackedPc, Outcome
<1>2. CASE TextOf(s) \in events
  <2>1. Finish(s, "Duplicate", mem[s], tracked[s]) /\ item' = item /\ req' = req
    BY <1>2 DEF RequestAnalysis
  <2>2. TypeOK'
    BY <1>1, <2>1, FinishType DEF TypeInv, TypeOK, RequestAnalysis, dbVars
  <2>3. QED
    BY <1>1, <2>1, <2>2, FinishType, StepOfOne
<1>3. CASE TextOf(s) \notin events
  <2>1. Goto(s, "count") /\ UNCHANGED <<ctxVars, result>>
    BY <1>3 DEF RequestAnalysis
  <2>2. TypeOK'
    BY <2>1 DEF TypeInv, TypeOK, RequestAnalysis, Goto, Pc, dbVars, ctxVars
  <2>3. QED
    BY <1>1, <2>1, <2>2, MoveType DEF RequestAnalysis, ctxVars, Pc, IngestPc
<1>4. QED
  BY <1>2, <1>3

LEMMA CountAttemptsType ==
    ASSUME TypeInv, NEW s \in Sessions, CountAttempts(s) PROVE TypeInv'
<1>1. Active(s) /\ mem[s][TextOf(s)] \in Status
  BY DEF CountAttempts, Active, TypeInv, SessionOK, TrackedPc
<1>2. Cardinality(AiJobsOf(TextOf(s))) \in Nat
  <2>1. AiJobsOf(TextOf(s)) \subseteq Op
    BY DEF AiJobsOf
  <2>2. QED
    BY <2>1, OpFinite, FS_Subset, FS_CardinalityType
<1>3. local' \in [Sessions -> Local]
  <2> DEFINE n == Cardinality(AiJobsOf(TextOf(s))) + 1
  <2>1. n \in Nat
    BY <1>2
  <2>2. local' = [local EXCEPT ![s].attempts = n]
    BY DEF CountAttempts
  <2> HIDE DEF n
  <2>3. QED
    BY <2>1, <2>2 DEF TypeInv, TypeOK, Local
<1>4. TypeOK'
  BY <1>3 DEF TypeInv, TypeOK, CountAttempts, Goto, Pc, dbVars
<1>5. QED
  BY <1>1, <1>4, MoveType DEF TypeInv, TypeOK, CountAttempts, Pc, IngestPc

LEMMA QueueAiJobType == ASSUME TypeInv, NEW s \in Sessions, QueueAiJob(s) PROVE TypeInv'
<1>1. /\ OpOf(s) \in Op /\ TextOf(s) \in Texts /\ mem[s][TextOf(s)] \in Status
      /\ local[s].attempts \in Nat
  BY Underway DEF QueueAiJob, Active, TypeInv, TypeOK, SessionOK, TrackedPc, Local
<1>2. aiJobs' \in [Op -> JobRow] /\ local' \in [Sessions -> Local]
  <2>1. aiJobs' \in [Op -> JobRow]
    BY <1>1 DEF TypeInv, TypeOK, QueueAiJob, JobRow, JobStatus
  <2>2. local' \in [Sessions -> Local]
    <3>1. [local[s] EXCEPT !.original = mem[s][TextOf(s)]] \in Local
      BY <1>1, LocalWritten DEF TypeInv, TypeOK
    <3>2. local' = [local EXCEPT ![s] = [local[s] EXCEPT !.original = mem[s][TextOf(s)]]]
      BY DEF QueueAiJob
    <3>3. QED
      BY <3>1, <3>2 DEF TypeInv, TypeOK
  <2>3. QED
    BY <2>1, <2>2
<1>3. mem' \in [Sessions -> [Texts -> Status \cup {"untracked"}]] /\ pc' \in [Sessions -> Pc]
  BY <1>1 DEF TypeInv, TypeOK, QueueAiJob, Status, Goto, Pc
<1>4. TypeOK'
  BY <1>2, <1>3 DEF TypeInv, TypeOK, QueueAiJob
<1>5. SessionOK(s)'
  <2>1. mem'[s][TextOf(s)] = "Processing" /\ pc'[s] = "askAi"
    BY <1>1 DEF TypeInv, TypeOK, QueueAiJob, Goto
  <2>2. QED
    BY <2>1 DEF TypeInv, QueueAiJob, SessionOK, Active, OpOf, TextOf, KindOf, Status, IngestPc
<1>6. QED
  BY <1>4, <1>5, StepOfOne DEF TypeInv, TypeOK, QueueAiJob, Goto

LEMMA AiAnswersType == ASSUME TypeInv, NEW s \in Sessions, AiAnswers(s) PROVE TypeInv'
<1>1. TextOf(s) \in Texts
  BY Underway DEF AiAnswers, Active
<1>2. mem' \in [Sessions -> [Texts -> Status \cup {"untracked"}]] /\ pc' \in [Sessions -> Pc]
  BY <1>1 DEF TypeInv, TypeOK, AiAnswers, Status, Goto, Pc
<1>3. TypeOK'
  BY <1>2 DEF TypeInv, TypeOK, AiAnswers, dbVars
<1>4. SessionOK(s)'
  <2>1. mem'[s][TextOf(s)] = "Completed" /\ pc'[s] = "saveEvent"
    BY <1>1 DEF TypeInv, TypeOK, AiAnswers, Goto
  <2>2. QED
    BY <2>1 DEF TypeInv, AiAnswers, SessionOK, Active, OpOf, TextOf, KindOf, Status, IngestPc
<1>5. QED
  BY <1>3, <1>4, StepOfOne DEF TypeInv, TypeOK, AiAnswers, Goto

LEMMA AiFailsType ==
    ASSUME TypeInv, NEW s \in Sessions, AiFails(s) \/ EventConflict(s) PROVE TypeInv'
<1>1. Active(s) /\ mem[s][TextOf(s)] \in Status
  BY DEF AiFails, EventConflict, Active, TypeInv, SessionOK, TrackedPc
<1>2. TypeOK'
  BY DEF TypeInv, TypeOK, AiFails, EventConflict, Goto, Pc, dbVars, ctxVars
<1>3. QED
  BY <1>1, <1>2, MoveType DEF AiFails, EventConflict, ctxVars, Pc, IngestPc

LEMMA SaveEventType == ASSUME TypeInv, NEW s \in Sessions, SaveEvent(s) PROVE TypeInv'
<1>1. /\ Active(s) /\ OpOf(s) \in Op /\ TextOf(s) \in Texts
      /\ mem[s][TextOf(s)] \in Status
  BY Underway DEF SaveEvent, Active, TypeInv, SessionOK, TrackedPc
<1>2. docs' \in [Texts -> DocRow]
  <2>1. [docs[TextOf(s)] EXCEPT !.status = "Completed"] \in DocRow
    BY <1>1, StatusWritten DEF TypeInv, TypeOK, Status
  <2>2. docs' \in {docs, [docs EXCEPT ![TextOf(s)].status = "Completed"]}
    BY DEF SaveEvent
  <2>3. QED
    BY <1>1, <2>1, <2>2 DEF TypeInv, TypeOK
<1>3. aiJobs' \in [Op -> JobRow]
  BY <1>1, JobSettled DEF TypeInv, TypeOK, SaveEvent, JobStatus
<1>4. llmLogs' \in [Texts -> [Success : Nat, Error : Nat]]
  BY <1>1, CallLogged DEF TypeInv, TypeOK, SaveEvent
<1>5. TypeOK'
  BY <1>1, <1>2, <1>3, <1>4 DEF TypeInv, TypeOK, SaveEvent, Goto, Pc, ctxVars
<1>6. QED
  BY <1>1, <1>5, MoveType DEF SaveEvent, ctxVars, Pc, IngestPc

(* Both ends of RunAiAnalysisAsync.                                         *)
LEMMA FinishAiType ==
    ASSUME TypeInv, NEW s \in Sessions, Active(s),
           NEW m \in [Texts -> Status \cup {"untracked"}], NEW k \in SUBSET SourceRow,
           FinishAi(s, m, k), item' = item, req' = req,
           docs' \in [Texts -> DocRow], aiJobs' \in [Op -> JobRow], impacts' \subseteq Texts,
           llmLogs' \in [Texts -> [Success : Nat, Error : Nat]],
           UNCHANGED <<events, ingestJobs, sources, files, faults, crashes>>
    PROVE  TypeInv'
<1>1. PICK o \in Outcome : Finish(s, o, m, k)
  BY DEF FinishAi, Outcome
<1>2. TypeOK'
  BY <1>1, FinishType DEF TypeInv, TypeOK
<1>3. QED
  BY <1>1, <1>2, FinishType, StepOfOne

LEMMA RecalculateType == ASSUME TypeInv, NEW s \in Sessions, Recalculate(s) PROVE TypeInv'
<1>1. /\ Active(s) /\ TextOf(s) \in Texts
      /\ mem[s] \in [Texts -> Status \cup {"untracked"}] /\ tracked[s] \in SUBSET SourceRow
  BY Underway DEF Recalculate, Active, TypeInv, TypeOK
<1>2. FinishAi(s, mem[s], tracked[s])
  BY DEF Recalculate
<1>3. QED
  BY <1>1, <1>2, FinishAiType DEF TypeInv, TypeOK, Recalculate

LEMMA RecordAiFailureType ==
    ASSUME TypeInv, NEW s \in Sessions, RecordAiFailure(s) PROVE TypeInv'
<1>1. /\ Active(s) /\ OpOf(s) \in Op /\ TextOf(s) \in Texts
      /\ mem[s][TextOf(s)] \in Status
  BY Underway DEF RecordAiFailure, Active, TypeInv, SessionOK, TrackedPc
<1>2. FinishAi(s, RetrackedMem(s, TextOf(s)), RetrackedSources(s, TextOf(s)))
  BY DEF RecordAiFailure
<1>3. docs' \in [Texts -> DocRow]
  BY <1>1, RewrittenType DEF RecordAiFailure
<1>4. aiJobs' \in [Op -> JobRow]
  BY <1>1, JobSettled DEF TypeInv, TypeOK, RecordAiFailure, JobStatus
<1>5. llmLogs' \in [Texts -> [Success : Nat, Error : Nat]]
  BY <1>1, CallLogged DEF TypeInv, TypeOK, RecordAiFailure
<1>6. QED
  BY <1>1, <1>2, <1>3, <1>4, <1>5, RewrittenType, FinishAiType DEF TypeInv, TypeOK, RecordAiFailure

(* Database errors, cancellations and crashes.                              *)
LEMMA IngestThrowsType == ASSUME TypeInv, NEW s \in Sessions, IngestThrows(s) PROVE TypeInv'
<1>1. Active(s) /\ OpOf(s) \in Op /\ s \in Ingests /\ faults' \in 0..MaxFaults
  BY Underway, BoundsAssumption DEF IngestThrows, Active, Fault, TypeInv, TypeOK
<1>2. files' \subseteq Op
  BY <1>1 DEF TypeInv, TypeOK, IngestThrows
<1>3. PICK label \in {"fail", "failLinked"} :
        Goto(s, label) /\ (label = "failLinked" => mem[s][TextOf(s)] \in Status)
  BY DEF IngestThrows, TypeInv, SessionOK, TrackedPc
<1>4. TypeOK'
  BY <1>1, <1>2, <1>3 DEF TypeInv, TypeOK, IngestThrows, Goto, Pc, dbVars, ctxVars
<1>5. QED
  BY <1>1, <1>3, <1>4, MoveType DEF IngestThrows, ctxVars, Pc, TrackedPc

LEMMA ReprocessThrowsType ==
    ASSUME TypeInv, NEW s \in Sessions, ReprocessThrows(s) PROVE TypeInv'
<1>1. Active(s) /\ "Error" \in Outcome /\ faults' \in 0..MaxFaults
  BY BoundsAssumption DEF ReprocessThrows, Active, Outcome, Fault, TypeInv, TypeOK
<1>2. Finish(s, "Error", NoMem, {}) /\ item' = item /\ req' = req
  BY DEF ReprocessThrows
<1>3. TypeOK'
  BY <1>1, <1>2, EmptyTyped, FinishType DEF TypeInv, TypeOK, ReprocessThrows, dbVars
<1>4. QED
  BY <1>1, <1>2, <1>3, EmptyTyped, FinishType, StepOfOne

LEMMA AiThrowsType == ASSUME TypeInv, NEW s \in Sessions, AiThrows(s) PROVE TypeInv'
<1>1. Active(s) /\ mem[s][TextOf(s)] \in Status /\ faults' \in 0..MaxFaults
  BY BoundsAssumption DEF AiThrows, Active, Fault, TypeInv, TypeOK, SessionOK, TrackedPc
<1>2. TypeOK'
  BY <1>1 DEF TypeInv, TypeOK, AiThrows, Goto, Pc, dbVars, ctxVars
<1>3. QED
  BY <1>1, <1>2, MoveType DEF AiThrows, ctxVars, Pc, IngestPc

LEMMA CatchThrowsType == ASSUME TypeInv, NEW s \in Sessions, CatchThrows(s) PROVE TypeInv'
<1>1. Active(s) /\ "Error" \in Outcome /\ faults' \in 0..MaxFaults
  BY BoundsAssumption DEF CatchThrows, Active, Outcome, Fault, TypeInv, TypeOK
<1>2. CASE pc[s] = "failAi" /\ s \in Ingests
  <2>1. Goto(s, "failLinked") /\ UNCHANGED <<ctxVars, result>> /\ mem[s][TextOf(s)] \in Status
    BY <1>2 DEF CatchThrows, TypeInv, SessionOK, TrackedPc
  <2>2. TypeOK'
    BY <1>1, <2>1 DEF TypeInv, TypeOK, CatchThrows, Goto, Pc, dbVars, ctxVars
  <2>3. QED
    BY <1>1, <1>2, <2>1, <2>2, MoveType DEF CatchThrows, ctxVars, Pc
<1>3. CASE ~(pc[s] = "failAi" /\ s \in Ingests)
  <2>1. Finish(s, "Error", NoMem, {}) /\ item' = item /\ req' = req
    BY <1>3 DEF CatchThrows
  <2>2. /\ result' \in [Op -> Outcome] /\ pc' \in [Sessions -> Pc]
        /\ mem' \in [Sessions -> [Texts -> Status \cup {"untracked"}]]
        /\ tracked' \in [Sessions -> SUBSET SourceRow] /\ local' \in [Sessions -> Local]
        /\ SessionOK(s)'
        /\ \A q \in Sessions \ {s} :
               pc'[q] = pc[q] /\ mem'[q] = mem[q] /\ local'[q] = local[q]
    BY <1>1, <2>1, EmptyTyped, FinishType
  <2>3. TypeOK'
    BY <1>1, <2>1, <2>2 DEF TypeInv, TypeOK, CatchThrows, dbVars
  <2>4. QED
    BY <2>1, <2>2, <2>3, StepOfOne
<1>4. QED
  BY <1>2, <1>3

LEMMA CrashType == ASSUME TypeInv, NEW h, Crash(h) PROVE TypeInv'
<1>1. PICK lost \in SUBSET Sessions :
        /\ pc' = [s \in Sessions |-> IF s \in lost THEN "stopped" ELSE pc[s]]
        /\ mem' = [s \in Sessions |-> IF s \in lost THEN NoMem ELSE mem[s]]
        /\ tracked' = [s \in Sessions |-> IF s \in lost THEN {} ELSE tracked[s]]
        /\ local' = [s \in Sessions |-> IF s \in lost THEN NoLocal ELSE local[s]]
  BY DEF Crash
<1>2. /\ pc' \in [Sessions -> Pc]
      /\ mem' \in [Sessions -> [Texts -> Status \cup {"untracked"}]]
      /\ tracked' \in [Sessions -> SUBSET SourceRow]
      /\ local' \in [Sessions -> Local]
  BY <1>1, EmptyTyped DEF TypeInv, TypeOK, Pc
<1>3. crashes' \in 0..MaxCrashes
  BY BoundsAssumption DEF Crash, TypeInv, TypeOK
<1>4. TypeOK'
  BY <1>2, <1>3 DEF TypeInv, TypeOK, Crash, dbVars
<1>5. ASSUME NEW s \in Sessions PROVE SessionOK(s)'
  <2>1. CASE s \in lost
    BY <1>1, <2>1 DEF TypeInv, Crash, SessionOK, Active, OpOf, KindOf, IngestPc, TrackedPc
  <2>2. CASE s \notin lost
    BY <1>1, <2>2 DEF TypeInv, Crash, SessionOK, Active, OpOf, TextOf, KindOf
  <2>3. QED
    BY <2>1, <2>2
<1>6. QED
  BY <1>4, <1>5 DEF TypeInv

LEMMA NextTypeInv == TypeInv /\ [Next]_vars => TypeInv'
<1> SUFFICES ASSUME TypeInv, [Next]_vars PROVE TypeInv'
  OBVIOUS
<1>1. ASSUME NEW s \in Sessions, Start(s) PROVE TypeInv'
  BY <1>1, StartReprocessType, StartIngestType DEF Start
<1>2. ASSUME NEW s \in Sessions, Continue(s) PROVE TypeInv'
  BY <1>2, FindNewType, FindDuplicateType, ExtractionFailsType, AnswerDuplicateType,
     ReuseSourceType, AddSourceType, StoreDocumentType, StoreConflictType, CompleteJobType,
     RecordFailureType, RecordLinkedFailureType, RequestAnalysisType, CountAttemptsType,
     QueueAiJobType, AiAnswersType, AiFailsType, SaveEventType, RecalculateType,
     RecordAiFailureType
  DEF Continue
<1>3. ASSUME NEW s \in Sessions, Disturb(s) PROVE TypeInv'
  BY <1>3, StartThrowsType, IngestThrowsType, ReprocessThrowsType, AiThrowsType, CatchThrowsType
  DEF Disturb
<1>4. ASSUME NEW h \in {"api", "worker"}, Crash(h) PROVE TypeInv'
  BY <1>4, CrashType
<1>5. CASE UNCHANGED vars
  BY <1>5 DEF vars, dbVars, sessVars, ctxVars, TypeInv, TypeOK, SessionOK, Active, OpOf, TextOf,
     KindOf
<1>6. QED
  BY <1>1, <1>2, <1>3, <1>4, <1>5 DEF Next, Quiet

(* Every state the pipeline reaches is well typed, however many requests,   *)
(* batches, faults and crashes there are: in particular the status a failure*)
(* writes into the table is one of the three a document can have, because a *)
(* session tracks its document from the query that returns it to the save.  *)
THEOREM TypeCorrect == Spec => []TypeOK
<1>1. TypeInv => TypeOK
  BY DEF TypeInv
<1>2. QED
  BY InitTypeInv, NextTypeInv, <1>1, PTL DEF Spec

-----------------------------------------------------------------------------
(* Proofs about the status of documents: what the table says of a document *)
(* is explained by its event or by a recorded failure, for any number of   *)
(* sessions with change trackers of any age.                               *)

(* The awaits of RunAiAnalysisAsync after its job is inserted, and those at *)
(* which a session may hold in memory a status that nothing explains yet.   *)
AiPc      == {"askAi", "saveEvent", "recalculate", "failAi"}
WritingPc == AiPc \cup {"failLinked"}

Unfinished == {"Processing", "Completed"}
Explained(t) == t \in events \/ FailedOn(t)

(* A status other than AwaitingAi in a tracker is explained, unless it is   *)
(* that of the document the session is analysing.                           *)
MemExplained(s) ==
    \A t \in Texts : mem[s][t] \in Unfinished =>
        Explained(t) \/ (pc[s] \in WritingPc /\ t = TextOf(s))
MemStored(s) == \A t \in Texts : mem[s][t] # "untracked" => Stored(t)
(* Once its AI job is inserted, the job names the document, and the status   *)
(* EF loaded was explained.                                                 *)
AiStarted(s) ==
    pc[s] \in AiPc =>
        /\ aiJobs[OpOf(s)].doc = TextOf(s)
        /\ local[s].original \in Unfinished => Explained(TextOf(s))
        /\ pc[s] = "recalculate" => TextOf(s) \in events
(* The jobs of operations under way or to come have not failed.             *)
Unfailed(s) ==
    \A i \in 1..BatchSize : i > item[s] \/ (i = item[s] /\ Active(s)) =>
        /\ ingestJobs[<<s, i>>].status # "Failed"
        /\ aiJobs[<<s, i>>].status # "Failed"

SessionStatus(s) == MemExplained(s) /\ MemStored(s) /\ AiStarted(s) /\ Unfailed(s)

EventsStored    == \A t \in events : Stored(t)
EventsCompleted == \A t \in events : docs[t].status = "Completed" \/ \E u \in Texts : FailedOn(u)
TablesStatus    == StatusTraceable /\ EventsStored /\ EventsCompleted

StatusInv == TablesStatus /\ \A s \in Sessions : SessionStatus(s)

(* A step changes no Failed job, and only session s and its jobs.           *)
JobsKept ==
    \A op \in Op : /\ ingestJobs[op].status = "Failed" => ingestJobs'[op] = ingestJobs[op]
                   /\ aiJobs[op].status = "Failed" => aiJobs'[op] = aiJobs[op]
OnlySession(s) ==
    \A q \in Sessions \ {s} :
        /\ pc'[q] = pc[q] /\ item'[q] = item[q]
        /\ mem'[q] = mem[q] /\ local'[q] = local[q]
        /\ req'[<<q, item[q]>>] = req[<<q, item[q]>>]
OnlyJob(s, i) ==
    \A op \in Op \ {<<s, i>>} : ingestJobs'[op] = ingestJobs[op] /\ aiJobs'[op] = aiJobs[op]
Alone(s) ==
    /\ OnlySession(s)
    /\ \A q \in Sessions \ {s}, i \in 1..BatchSize :
          ingestJobs'[<<q, i>>] = ingestJobs[<<q, i>>] /\ aiJobs'[<<q, i>>] = aiJobs[<<q, i>>]

LEMMA InitStatusInv == Init => StatusInv
<1> SUFFICES ASSUME Init PROVE StatusInv
  OBVIOUS
<1>1. TablesStatus
  BY DEF Init, TablesStatus, StatusTraceable, EventsStored, EventsCompleted, Stored, NoDoc
<1>2. ASSUME NEW s \in Sessions PROVE SessionStatus(s)
  <2>1. MemExplained(s) /\ MemStored(s)
    BY DEF Init, MemExplained, MemStored, NoMem, Unfinished
  <2>2. AiStarted(s)
    BY DEF Init, AiStarted, AiPc
  <2>3. Unfailed(s)
    BY DEF Init, Unfailed, NoJob, Op
  <2>4. QED
    BY <2>1, <2>2, <2>3 DEF SessionStatus
<1>3. QED
  BY <1>1, <1>2 DEF StatusInv

(* A recorded failure stays on record.                                      *)
LEMMA FailureKept == ASSUME JobsKept PROVE \A t \in Texts : FailedOn(t) => FailedOn(t)'
BY DEF JobsKept, FailedOn

(* The other sessions' part of a step.                                      *)
LEMMA StatusOfOthers ==
    ASSUME TypeInv, StatusInv, NEW s \in Sessions, Alone(s), JobsKept, events \subseteq events',
           \A t \in Texts : Stored(t) => Stored(t)',
           NEW q \in Sessions, q # s
    PROVE  SessionStatus(q)'
<1>1. SessionStatus(q)
  BY DEF StatusInv
<1>2. /\ pc'[q] = pc[q] /\ item'[q] = item[q] /\ mem'[q] = mem[q] /\ local'[q] = local[q]
      /\ OpOf(q)' = OpOf(q) /\ req'[OpOf(q)] = req[OpOf(q)]
      /\ \A i \in 1..BatchSize : /\ ingestJobs'[<<q, i>>] = ingestJobs[<<q, i>>]
                                 /\ aiJobs'[<<q, i>>] = aiJobs[<<q, i>>]
  BY DEF Alone, OnlySession, OpOf
<1>3. TextOf(q)' = TextOf(q) /\ Active(q)' = Active(q)
  BY <1>2 DEF TextOf, Active
<1>4. \A t \in Texts : Explained(t) => Explained(t)'
  BY FailureKept DEF Explained
<1>5. MemExplained(q)' /\ MemStored(q)'
  BY <1>1, <1>2, <1>3, <1>4 DEF SessionStatus, MemExplained, MemStored
<1>6. AiStarted(q)'
  <2>1. pc[q] \in AiPc => aiJobs'[OpOf(q)] = aiJobs[OpOf(q)] /\ TextOf(q) \in Texts
    BY <1>2, Underway DEF AiPc, Active, OpOf
  <2>2. QED
    BY <1>1, <1>2, <1>3, <1>4, <2>1 DEF SessionStatus, AiStarted
<1>7. Unfailed(q)'
  BY <1>1, <1>2, <1>3 DEF SessionStatus, Unfailed
<1>8. QED
  BY <1>5, <1>6, <1>7 DEF SessionStatus

(* The tables' part of a step that writes no document and no event.         *)
LEMMA StatusOfTables ==
    ASSUME StatusInv, JobsKept, docs' = docs, events' = events
    PROVE  TablesStatus'
<1>1. \A t \in Texts : FailedOn(t) => FailedOn(t)'
  BY FailureKept
<1>2. StatusTraceable'
  BY <1>1 DEF StatusInv, TablesStatus, StatusTraceable, Stored
<1>3. EventsStored' /\ EventsCompleted'
  BY <1>1 DEF StatusInv, TablesStatus, EventsStored, EventsCompleted, Stored
<1>4. QED
  BY <1>2, <1>3 DEF TablesStatus

LEMMA StatusStep ==
    ASSUME TypeInv, StatusInv, NEW s \in Sessions, Alone(s), JobsKept,
           docs' = docs, events' = events, SessionStatus(s)'
    PROVE  StatusInv'
<1>1. \A t \in Texts : Stored(t) => Stored(t)'
  BY DEF Stored
<1>2. QED
  BY <1>1, StatusOfOthers, StatusOfTables DEF StatusInv

(* A step of s that writes the jobs of its operation i alone, when that is   *)
(* under way or about to begin.                                             *)
LEMMA OwnJob ==
    ASSUME StatusInv, NEW s \in Sessions, NEW i \in 1..BatchSize,
           i > item[s] \/ (i = item[s] /\ Active(s)), OnlySession(s), OnlyJob(s, i)
    PROVE  Alone(s) /\ JobsKept
<1>1. <<s, i>> \in Op /\ ingestJobs[<<s, i>>].status # "Failed" /\ aiJobs[<<s, i>>].status # "Failed"
  BY DEF StatusInv, SessionStatus, Unfailed, Op
<1>2. JobsKept
  BY <1>1 DEF JobsKept, OnlyJob
<1>3. Alone(s)
  BY DEF Alone, OnlyJob, Op
<1>4. QED
  BY <1>2, <1>3

(* A step to another await that keeps memory, documents and AI jobs.        *)
LEMMA StatusMove ==
    ASSUME TypeInv, StatusInv, NEW s \in Sessions, Active(s), NEW label \in Pc, Goto(s, label),
           UNCHANGED <<item, mem, req, docs, events, aiJobs>>,
           OnlySession(s), OnlyJob(s, item[s]),
           ingestJobs'[OpOf(s)].status # "Failed",
           local'[s].original = local[s].original,
           label \in AiPc => pc[s] \in AiPc /\ label # "recalculate",
           pc[s] \in WritingPc => label \in WritingPc
    PROVE  StatusInv'
<1>1. item[s] \in 1..BatchSize /\ pc'[s] = label
  BY Underway DEF TypeInv, TypeOK, Goto
<1>2. Alone(s) /\ JobsKept
  BY <1>1, OwnJob
<1>3. \A t \in Texts : Explained(t) => Explained(t)'
  BY <1>2, FailureKept DEF Explained
<1>4. SessionStatus(s)
  BY DEF StatusInv
<1>5. OpOf(s)' = OpOf(s) /\ TextOf(s)' = TextOf(s) /\ TextOf(s) \in Texts
  BY Underway DEF OpOf, TextOf
<1>6. MemExplained(s)' /\ MemStored(s)'
  BY <1>1, <1>3, <1>4, <1>5 DEF SessionStatus, MemExplained, MemStored, Stored
<1>7. AiStarted(s)'
  BY <1>1, <1>3, <1>4, <1>5 DEF SessionStatus, AiStarted
<1>8. Unfailed(s)'
  <2>1. ASSUME NEW i \in 1..BatchSize, i > item[s] \/ i = item[s]
        PROVE  ingestJobs'[<<s, i>>].status # "Failed" /\ aiJobs'[<<s, i>>].status # "Failed"
    <3>1. CASE i = item[s]
      BY <3>1, <1>4 DEF SessionStatus, Unfailed, OpOf
    <3>2. CASE i > item[s]
      <4>1. i # item[s]
        BY <3>2, <1>1
      <4>2. <<s, i>> \in Op \ {<<s, item[s]>>}
        BY <4>1 DEF Op
      <4>3. QED
        BY <3>2, <4>2, <1>4 DEF SessionStatus, Unfailed, OnlyJob
    <3>3. QED
      BY <2>1, <3>1, <3>2
  <2>2. QED
    BY <2>1 DEF Unfailed
<1>9. QED
  BY <1>2, <1>6, <1>7, <1>8, StatusStep DEF SessionStatus

(* The end of an operation that writes no document and no AI job.           *)
LEMMA StatusFinish ==
    ASSUME TypeInv, StatusInv, NEW s \in Sessions, Active(s), NEW o, NEW m, NEW k,
           Finish(s, o, m, k), UNCHANGED <<item, req, docs, events>>,
           OnlySession(s), OnlyJob(s, item[s]),
           m = mem[s] \/ m = NoMem,
           m = mem[s] /\ pc[s] \in WritingPc => Explained(TextOf(s))
    PROVE  StatusInv'
<1>1. item[s] \in 1..BatchSize
  BY Underway
<1>2. Alone(s) /\ JobsKept
  BY <1>1, OwnJob
<1>3. \A t \in Texts : Explained(t) => Explained(t)'
  BY <1>2, FailureKept DEF Explained
<1>4. SessionStatus(s)
  BY DEF StatusInv
<1>5. pc'[s] \in {"ready", "stopped"} /\ mem'[s] \in {m, NoMem}
  BY DEF TypeInv, TypeOK, Finish
<1>6. MemExplained(s)' /\ MemStored(s)'
  <2>1. CASE mem'[s] = NoMem
    BY <2>1 DEF MemExplained, MemStored, NoMem, Unfinished
  <2>2. CASE mem'[s] = m /\ m = mem[s]
    BY <1>3, <1>4, <2>2 DEF SessionStatus, MemExplained, MemStored, Stored
  <2>3. QED
    BY <1>5, <2>1, <2>2
<1>7. AiStarted(s)'
  BY <1>5 DEF AiStarted, AiPc
<1>8. Unfailed(s)'
  <2>1. ASSUME NEW i \in 1..BatchSize, i > item[s]
        PROVE  ingestJobs'[<<s, i>>].status # "Failed" /\ aiJobs'[<<s, i>>].status # "Failed"
    <3>1. i # item[s]
      BY <2>1, <1>1
    <3>2. <<s, i>> \in Op \ {<<s, item[s]>>}
      BY <3>1 DEF Op
    <3>3. QED
      BY <2>1, <3>2, <1>4 DEF SessionStatus, Unfailed, OnlyJob
  <2>2. ~Active(s)'
    BY <1>5 DEF Active
  <2>3. QED
    BY <2>1, <2>2 DEF Unfailed
<1>9. QED
  BY <1>2, <1>6, <1>7, <1>8, StatusStep DEF SessionStatus

(* The steps that only move a session.                                      *)
LEMMA IngestMoveStatus ==
    ASSUME TypeInv, StatusInv, NEW s \in Sessions,
           FindNew(s) \/ ExtractionFails(s) \/ StoreConflict(s)
    PROVE  StatusInv'
<1>1. PICK label \in {"source", "fail"} : Goto(s, label)
  BY DEF FindNew, ExtractionFails, StoreConflict
<1>2. Active(s) /\ pc[s] \notin WritingPc
  BY DEF FindNew, ExtractionFails, StoreConflict, Active, WritingPc, AiPc
<1>3. UNCHANGED <<item, mem, local, req, docs, events, ingestJobs, aiJobs>>
  BY DEF FindNew, ExtractionFails, StoreConflict, dbVars, ctxVars
<1>4. OnlySession(s) /\ OnlyJob(s, item[s])
  BY <1>1, <1>3 DEF OnlySession, OnlyJob, Goto, TypeInv, TypeOK
<1>5. ingestJobs[OpOf(s)].status # "Failed"
  BY <1>2, Underway DEF StatusInv, SessionStatus, Unfailed, OpOf
<1>6. label \in Pc /\ label \notin AiPc
  BY DEF Pc, AiPc
<1>7. QED
  BY <1>1, <1>2, <1>3, <1>4, <1>5, <1>6, StatusMove

LEMMA SourceStatus ==
    ASSUME TypeInv, StatusInv, NEW s \in Sessions,
           AddSource(s) \/ \E r \in sources : ReuseSource(s, r)
    PROVE  StatusInv'
<1>1. PICK label \in {"store", "fail"} : Goto(s, label)
  BY DEF AddSource, ReuseSource
<1>2. Active(s) /\ pc[s] \notin WritingPc
  BY DEF AddSource, ReuseSource, Active, WritingPc, AiPc
<1>3. UNCHANGED <<item, mem, req, docs, events, ingestJobs, aiJobs>>
  BY DEF AddSource, ReuseSource, dbVars
<1>4. \/ local' = local
      \/ \E r : local' = [local EXCEPT ![s].row = r]
  BY DEF AddSource, ReuseSource
<1>5. local'[s].original = local[s].original /\ \A q \in Sessions \ {s} : local'[q] = local[q]
  BY <1>4 DEF TypeInv, TypeOK, Local
<1>6. OnlySession(s) /\ OnlyJob(s, item[s])
  BY <1>1, <1>3, <1>5 DEF OnlySession, OnlyJob, Goto, TypeInv, TypeOK
<1>7. ingestJobs[OpOf(s)].status # "Failed"
  BY <1>2, Underway DEF StatusInv, SessionStatus, Unfailed, OpOf
<1>8. label \in Pc /\ label \notin AiPc
  BY DEF Pc, AiPc
<1>9. QED
  BY <1>1, <1>2, <1>3, <1>5, <1>6, <1>7, <1>8, StatusMove

LEMMA CompleteJobStatus ==
    ASSUME TypeInv, StatusInv, NEW s \in Sessions, CompleteJob(s) PROVE StatusInv'
<1>1. Goto(s, "count") /\ Active(s) /\ pc[s] \notin WritingPc
  BY DEF CompleteJob, Active, WritingPc, AiPc
<1>2. UNCHANGED <<item, mem, local, req, docs, events, aiJobs>>
  BY DEF CompleteJob, ctxVars
<1>3. OpOf(s) \in Op
  BY <1>1, Underway
<1>4. ingestJobs'[OpOf(s)].status = "Succeeded"
  BY <1>3 DEF CompleteJob, TypeInv, TypeOK, JobRow
<1>5. OnlyJob(s, item[s])
  BY <1>2 DEF CompleteJob, OnlyJob, OpOf, TypeInv, TypeOK
<1>6. OnlySession(s)
  BY <1>1, <1>2 DEF OnlySession, Goto, TypeInv, TypeOK
<1>7. QED
  BY <1>1, <1>2, <1>4, <1>5, <1>6, StatusMove DEF Pc, AiPc

LEMMA CountAttemptsStatus ==
    ASSUME TypeInv, StatusInv, NEW s \in Sessions, CountAttempts(s) PROVE StatusInv'
<1>1. Goto(s, "queueAi") /\ Active(s) /\ pc[s] \notin WritingPc
  BY DEF CountAttempts, Active, WritingPc, AiPc
<1>2. UNCHANGED <<item, mem, req, docs, events, ingestJobs, aiJobs>>
  BY DEF CountAttempts, dbVars
<1>3. \E n : local' = [local EXCEPT ![s].attempts = n]
  BY DEF CountAttempts
<1>4. local'[s].original = local[s].original /\ \A q \in Sessions \ {s} : local'[q] = local[q]
  BY <1>3 DEF TypeInv, TypeOK, Local
<1>5. OnlySession(s) /\ OnlyJob(s, item[s])
  BY <1>1, <1>2, <1>4 DEF OnlySession, OnlyJob, Goto, TypeInv, TypeOK
<1>6. ingestJobs[OpOf(s)].status # "Failed"
  BY <1>1, Underway DEF StatusInv, SessionStatus, Unfailed, OpOf
<1>7. QED
  BY <1>1, <1>2, <1>4, <1>5, <1>6, StatusMove DEF Pc, AiPc

(* The steps that send an exception to a catch block.                       *)
LEMMA ToCatchStatus ==
    ASSUME TypeInv, StatusInv, NEW s \in Sessions,
           \/ AiFails(s) \/ EventConflict(s) \/ IngestThrows(s) \/ AiThrows(s)
           \/ CatchThrows(s) /\ pc[s] = "failAi" /\ s \in Ingests
    PROVE  StatusInv'
<1>1. PICK label \in {"fail", "failLinked", "failAi"} :
        /\ Goto(s, label)
        /\ label = "failAi" => pc[s] \in AiPc
        /\ pc[s] \in WritingPc => label \in WritingPc
  BY DEF AiFails, EventConflict, IngestThrows, AiThrows, CatchThrows, WritingPc, AiPc
<1>2. Active(s)
  BY DEF AiFails, EventConflict, IngestThrows, AiThrows, CatchThrows, Active
<1>3. UNCHANGED <<item, mem, local, req, docs, events, ingestJobs, aiJobs>>
  BY DEF AiFails, EventConflict, IngestThrows, AiThrows, CatchThrows, dbVars, ctxVars
<1>4. OnlySession(s) /\ OnlyJob(s, item[s])
  BY <1>1, <1>3 DEF OnlySession, OnlyJob, Goto, TypeInv, TypeOK
<1>5. ingestJobs[OpOf(s)].status # "Failed"
  BY <1>2, Underway DEF StatusInv, SessionStatus, Unfailed, OpOf
<1>6. label \in Pc /\ (label \in AiPc => pc[s] \in AiPc /\ label # "recalculate")
  BY <1>1 DEF Pc, AiPc
<1>7. QED
  BY <1>1, <1>2, <1>3, <1>4, <1>5, <1>6, StatusMove

(* The ends of operations that write no document.                           *)
LEMMA AnswerStatus ==
    ASSUME TypeInv, StatusInv, NEW s \in Sessions, AnswerDuplicate(s) \/ RecordFailure(s)
    PROVE  StatusInv'
<1>1. Active(s) /\ pc[s] \notin WritingPc
  BY DEF AnswerDuplicate, RecordFailure, Active, WritingPc, AiPc
<1>2. PICK o, m, k : Finish(s, o, m, k) /\ m \in {mem[s], NoMem}
  BY DEF AnswerDuplicate, RecordFailure
<1>3. UNCHANGED <<item, req, docs, events, aiJobs>>
  BY DEF AnswerDuplicate, RecordFailure
<1>4. OnlyJob(s, item[s])
  BY <1>3 DEF AnswerDuplicate, RecordFailure, OnlyJob, OpOf, TypeInv, TypeOK
<1>5. OnlySession(s)
  BY <1>2, <1>3 DEF OnlySession, Finish, TypeInv, TypeOK
<1>6. QED
  BY <1>1, <1>2, <1>3, <1>4, <1>5, StatusFinish

LEMMA RequestAnalysisStatus ==
    ASSUME TypeInv, StatusInv, NEW s \in Sessions, RequestAnalysis(s) PROVE StatusInv'
<1>1. Active(s) /\ pc[s] \notin WritingPc
  BY DEF RequestAnalysis, Active, WritingPc, AiPc
<1>2. UNCHANGED <<item, req, docs, events, ingestJobs, aiJobs>>
  BY DEF RequestAnalysis, dbVars
<1>3. OnlyJob(s, item[s])
  BY <1>2 DEF OnlyJob
<1>4. CASE TextOf(s) \in events
  <2>1. Finish(s, "Duplicate", mem[s], tracked[s])
    BY <1>4 DEF RequestAnalysis
  <2>2. OnlySession(s)
    BY <1>2, <2>1 DEF OnlySession, Finish, TypeInv, TypeOK
  <2>3. QED
    BY <1>1, <1>2, <1>3, <2>1, <2>2, StatusFinish
<1>5. CASE TextOf(s) \notin events
  <2>1. Goto(s, "count") /\ UNCHANGED <<mem, local>>
    BY <1>5 DEF RequestAnalysis, ctxVars
  <2>2. OnlySession(s)
    BY <1>2, <2>1 DEF OnlySession, Goto, TypeInv, TypeOK
  <2>3. ingestJobs[OpOf(s)].status # "Failed"
    BY <1>1, Underway DEF StatusInv, SessionStatus, Unfailed, OpOf
  <2>4. QED
    BY <1>1, <1>2, <1>3, <2>1, <2>2, <2>3, StatusMove DEF Pc, AiPc
<1>6. QED
  BY <1>4, <1>5

LEMMA RecalculateStatus ==
    ASSUME TypeInv, StatusInv, NEW s \in Sessions, Recalculate(s) PROVE StatusInv'
<1>1. Active(s) /\ TextOf(s) \in events
  BY DEF Recalculate, Active, StatusInv, SessionStatus, AiStarted, AiPc
<1>2. PICK o : Finish(s, o, mem[s], tracked[s])
  BY DEF Recalculate, FinishAi
<1>3. UNCHANGED <<item, req, docs, events, ingestJobs, aiJobs>>
  BY DEF Recalculate
<1>4. OnlySession(s) /\ OnlyJob(s, item[s])
  BY <1>2, <1>3 DEF OnlySession, OnlyJob, Finish, TypeInv, TypeOK
<1>5. QED
  BY <1>1, <1>2, <1>3, <1>4, StatusFinish DEF Explained

LEMMA LeaveStatus ==
    ASSUME TypeInv, StatusInv, NEW s \in Sessions,
           \/ ReprocessThrows(s)
           \/ CatchThrows(s) /\ ~(pc[s] = "failAi" /\ s \in Ingests)
    PROVE  StatusInv'
<1>1. Active(s)
  BY DEF ReprocessThrows, CatchThrows, Active
<1>2. Finish(s, "Error", NoMem, {})
  BY DEF ReprocessThrows, CatchThrows
<1>3. UNCHANGED <<item, req, docs, events, ingestJobs, aiJobs>>
  BY DEF ReprocessThrows, CatchThrows, dbVars
<1>4. OnlySession(s) /\ OnlyJob(s, item[s])
  BY <1>2, <1>3 DEF OnlySession, OnlyJob, Finish, TypeInv, TypeOK
<1>5. NoMem = mem[s] => pc[s] \notin WritingPc
  BY <1>1, Underway DEF NoMem, TypeInv, SessionOK, TrackedPc, WritingPc, AiPc, Status
<1>6. QED
  BY <1>1, <1>2, <1>3, <1>4, <1>5, StatusFinish

(* Which jobs a step leaves unfailed.                                       *)
LEMMA UnfailedKept ==
    ASSUME TypeInv, StatusInv, NEW s \in Sessions, NEW i \in 1..BatchSize, OnlyJob(s, i),
           \/ item'[s] = item[s] /\ Active(s)
           \/ item'[s] = item[s] + 1,
           ingestJobs'[<<s, i>>].status # "Failed", aiJobs'[<<s, i>>].status # "Failed"
    PROVE  Unfailed(s)'
<1>1. SUFFICES ASSUME NEW j \in 1..BatchSize,
                      j > item'[s] \/ (j = item'[s] /\ Active(s)')
               PROVE  ingestJobs'[<<s, j>>].status # "Failed" /\ aiJobs'[<<s, j>>].status # "Failed"
  BY DEF Unfailed
<1>2. CASE j = i
  BY <1>2
<1>3. CASE j # i
  <2>1. <<s, j>> \in Op \ {<<s, i>>}
    BY <1>3 DEF Op
  <2>2. item[s] \in Nat
    BY BoundsAssumption DEF TypeInv, TypeOK
  <2>3. j > item[s] \/ (j = item[s] /\ Active(s))
    BY <1>1, <2>2
  <2>4. QED
    BY <2>1, <2>3 DEF StatusInv, SessionStatus, Unfailed, OnlyJob
<1>4. QED
  BY <1>2, <1>3

LEMMA UnfailedEnded ==
    ASSUME TypeInv, StatusInv, NEW s \in Sessions, OnlyJob(s, item[s]),
           item' = item, ~Active(s)'
    PROVE  Unfailed(s)'
<1>1. SUFFICES ASSUME NEW j \in 1..BatchSize, j > item[s]
               PROVE  ingestJobs'[<<s, j>>].status # "Failed" /\ aiJobs'[<<s, j>>].status # "Failed"
  BY DEF Unfailed
<1>2. item[s] \in Nat
  BY BoundsAssumption DEF TypeInv, TypeOK
<1>3. <<s, j>> \in Op \ {<<s, item[s]>>}
  BY <1>1, <1>2 DEF Op
<1>4. QED
  BY <1>1, <1>3 DEF StatusInv, SessionStatus, Unfailed, OnlyJob

(* The steps that begin an operation.                                       *)
LEMMA BeginStatus ==
    ASSUME TypeInv, StatusInv, NEW s \in Sessions, NEW t \in Texts, NEW k, Begin(s, t, k),
           UNCHANGED <<docs, events, aiJobs>>, OnlyJob(s, item[s] + 1),
           ingestJobs' # ingestJobs => ingestJobs'[<<s, item[s] + 1>>].status = "Running",
           ingestJobs' = ingestJobs \/ s \in Ingests,
           \A q \in Sessions \ {s} : pc'[q] = pc[q] /\ mem'[q] = mem[q] /\ local'[q] = local[q],
           pc'[s] \notin WritingPc,
           MemStored(s)', \A d \in Texts : mem'[s][d] \in Unfinished => Explained(d)
    PROVE  StatusInv'
<1>1. /\ item[s] \in Nat /\ item[s] + 1 \in 1..BatchSize
      /\ item' = [item EXCEPT ![s] = item[s] + 1]
      /\ req' = [req EXCEPT ![<<s, item[s] + 1>>] = [text |-> t, kind |-> k]]
  BY BoundsAssumption DEF Begin, Limit, TypeInv, TypeOK
<1>2. <<s, item[s] + 1>> \in Op
  BY <1>1 DEF Op
<1>3. item'[s] = item[s] + 1
  BY <1>1 DEF TypeInv, TypeOK
<1>4. OnlySession(s)
  BY <1>1 DEF OnlySession, TypeInv, TypeOK
<1>5. Alone(s) /\ JobsKept
  BY <1>1, <1>4, OwnJob
<1>6. MemExplained(s)'
  BY <1>5, FailureKept DEF MemExplained, Explained
<1>7. AiStarted(s)'
  BY DEF AiStarted, WritingPc
<1>8. Unfailed(s)'
  <2>1. /\ ingestJobs[<<s, item[s] + 1>>].status # "Failed"
        /\ aiJobs[<<s, item[s] + 1>>].status # "Failed"
    BY <1>1 DEF StatusInv, SessionStatus, Unfailed
  <2>2. QED
    BY <1>1, <1>3, <2>1, UnfailedKept
<1>9. QED
  BY <1>5, <1>6, <1>7, <1>8, StatusStep DEF SessionStatus

LEMMA StartIngestStatus ==
    ASSUME TypeInv, StatusInv, NEW s \in Sessions, NEW t \in Texts, NEW k \in SourceTypes,
           StartIngest(s, t, k)
    PROVE  StatusInv'
<1>1. /\ Begin(s, t, k) /\ UNCHANGED <<docs, events, aiJobs, mem, local>> /\ s \in Ingests
      /\ Goto(s, "extract") /\ pc[s] = "ready"
  BY DEF StartIngest, Begin, ctxVars, MayIngest, Ingests
<1>2. <<s, item[s] + 1>> \in Op
  BY BoundsAssumption DEF StartIngest, Begin, Limit, TypeInv, TypeOK, Op
<1>3. ingestJobs' = [ingestJobs EXCEPT ![<<s, item[s] + 1>>] = [NoJob EXCEPT !.status = "Running"]]
  BY DEF StartIngest
<1>4. ingestJobs'[<<s, item[s] + 1>>].status = "Running"
  BY <1>2, <1>3 DEF TypeInv, TypeOK, NoJob
<1>5. OnlyJob(s, item[s] + 1)
  BY <1>1, <1>3 DEF OnlyJob, TypeInv, TypeOK
<1>6. /\ pc'[s] \notin WritingPc
      /\ \A q \in Sessions \ {s} : pc'[q] = pc[q] /\ mem'[q] = mem[q] /\ local'[q] = local[q]
  BY <1>1 DEF Goto, TypeInv, TypeOK, WritingPc, AiPc
<1>7. MemStored(s)' /\ \A d \in Texts : mem'[s][d] \in Unfinished => Explained(d)
  BY <1>1 DEF StatusInv, SessionStatus, MemStored, MemExplained, Stored, WritingPc, AiPc
<1>8. QED
  BY <1>1, <1>4, <1>5, <1>6, <1>7, BeginStatus

LEMMA StartThrowsStatus ==
    ASSUME TypeInv, StatusInv, NEW s \in Sessions, NEW t \in Texts, NEW k \in RequestKinds,
           StartThrows(s, t, k)
    PROVE  StatusInv'
<1>1. /\ Begin(s, t, k) /\ UNCHANGED <<docs, events, ingestJobs, aiJobs, local>>
      /\ Goto(s, "stopped") /\ mem' = [mem EXCEPT ![s] = NoMem]
  BY DEF StartThrows, dbVars
<1>2. OnlyJob(s, item[s] + 1)
  BY <1>1 DEF OnlyJob
<1>3. /\ pc'[s] \notin WritingPc /\ mem'[s] = NoMem
      /\ \A q \in Sessions \ {s} : pc'[q] = pc[q] /\ mem'[q] = mem[q] /\ local'[q] = local[q]
  BY <1>1 DEF Goto, TypeInv, TypeOK, WritingPc, AiPc
<1>4. MemStored(s)' /\ \A d \in Texts : mem'[s][d] \in Unfinished => Explained(d)
  BY <1>3 DEF MemStored, NoMem, Unfinished
<1>5. QED
  BY <1>1, <1>2, <1>3, <1>4, BeginStatus

LEMMA StartReprocessStatus ==
    ASSUME TypeInv, StatusInv, NEW s \in Sessions, NEW t \in Texts, StartReprocess(s, t)
    PROVE  StatusInv'
<1>1. /\ Begin(s, t, "Reprocess") /\ UNCHANGED <<docs, events, ingestJobs, aiJobs, local>>
      /\ pc[s] = "ready"
  BY DEF StartReprocess, Begin, dbVars
<1>2. OnlyJob(s, item[s] + 1)
  BY <1>1 DEF OnlyJob
<1>3. \A d \in Texts : mem[s][d] \in Unfinished => Explained(d)
  BY <1>1 DEF StatusInv, SessionStatus, MemExplained, WritingPc, AiPc
<1>4. CASE Stored(t)
  <2>1. Goto(s, "hasEvent") /\ mem' = [mem EXCEPT ![s][t] = docs[t].status]
    BY <1>4 DEF StartReprocess
  <2>2. /\ pc'[s] \notin WritingPc /\ mem'[s] = [mem[s] EXCEPT ![t] = docs[t].status]
        /\ \A q \in Sessions \ {s} : pc'[q] = pc[q] /\ mem'[q] = mem[q] /\ local'[q] = local[q]
    BY <1>1, <2>1 DEF Goto, TypeInv, TypeOK, WritingPc, AiPc
  <2>3. docs[t].status \in Unfinished => Explained(t)
    BY <1>4 DEF StatusInv, TablesStatus, StatusTraceable, Explained, Unfinished
  <2>4. \A d \in Texts : mem'[s][d] = IF d = t THEN docs[t].status ELSE mem[s][d]
    BY <2>2 DEF TypeInv, TypeOK
  <2>5. MemStored(s)' /\ \A d \in Texts : mem'[s][d] \in Unfinished => Explained(d)
    BY <1>1, <1>3, <1>4, <2>3, <2>4 DEF StatusInv, SessionStatus, MemStored, Stored
  <2>6. QED
    BY <1>1, <1>2, <2>2, <2>5, BeginStatus
<1>5. CASE ~Stored(t)
  <2>1. UNCHANGED <<pc, mem>>
    BY <1>5 DEF StartReprocess
  <2>2. MemStored(s)' /\ \A d \in Texts : mem'[s][d] \in Unfinished => Explained(d)
    BY <1>1, <1>3, <2>1 DEF StatusInv, SessionStatus, MemStored, Stored
  <2>3. QED
    BY <1>1, <1>2, <2>1, <2>2, BeginStatus DEF WritingPc, AiPc
<1>6. QED
  BY <1>4, <1>5

(* The steps that write the session's memory.                               *)
LEMMA MemoryOwn ==
    ASSUME TypeInv, StatusInv, NEW s \in Sessions, Active(s), NEW label \in Pc, Goto(s, label),
           NEW st, mem' = [mem EXCEPT ![s][TextOf(s)] = st], UNCHANGED <<item, req>>,
           OnlySession(s), OnlyJob(s, item[s]),
           docs' = docs, events' = events,
           ingestJobs'[OpOf(s)].status # "Failed", aiJobs'[OpOf(s)].status # "Failed",
           Stored(TextOf(s)),
           st \in Unfinished => Explained(TextOf(s)) \/ label \in WritingPc,
           pc[s] \in WritingPc => label \in WritingPc,
           AiStarted(s)'
    PROVE  StatusInv'
<1>1. item[s] \in 1..BatchSize /\ TextOf(s) \in Texts /\ pc'[s] = label
  BY Underway DEF TypeInv, TypeOK, Goto
<1>2. Alone(s) /\ JobsKept
  BY <1>1, OwnJob
<1>3. \A t \in Texts : Explained(t) => Explained(t)'
  BY <1>2, FailureKept DEF Explained
<1>4. SessionStatus(s)
  BY DEF StatusInv
<1>5. TextOf(s)' = TextOf(s)
  BY DEF OpOf, TextOf
<1>6. \A t \in Texts : mem'[s][t] = IF t = TextOf(s) THEN st ELSE mem[s][t]
  BY DEF TypeInv, TypeOK
<1>7. MemExplained(s)' /\ MemStored(s)'
  BY <1>1, <1>3, <1>4, <1>5, <1>6 DEF SessionStatus, MemExplained, MemStored, Stored
<1>8. Unfailed(s)'
  BY <1>1, UnfailedKept DEF OpOf
<1>9. QED
  BY <1>2, <1>7, <1>8, StatusStep DEF SessionStatus

LEMMA FindDuplicateStatus ==
    ASSUME TypeInv, StatusInv, NEW s \in Sessions, FindDuplicate(s) PROVE StatusInv'
<1> DEFINE st == IF mem[s][TextOf(s)] = "untracked" THEN docs[TextOf(s)].status
                 ELSE mem[s][TextOf(s)]
<1>1. /\ Active(s) /\ pc[s] \notin WritingPc /\ Stored(TextOf(s)) /\ Goto(s, "duplicate")
      /\ UNCHANGED <<item, local, req, docs, events, ingestJobs, aiJobs>>
  BY DEF FindDuplicate, Active, WritingPc, AiPc, dbVars
<1>2. TextOf(s) \in Texts
  BY <1>1, Underway
<1>3. mem' = [mem EXCEPT ![s][TextOf(s)] = st]
  BY DEF FindDuplicate
<1>4. OnlySession(s) /\ OnlyJob(s, item[s])
  BY <1>1, <1>3 DEF OnlySession, OnlyJob, Goto, TypeInv, TypeOK
<1>5. ingestJobs[OpOf(s)].status # "Failed" /\ aiJobs[OpOf(s)].status # "Failed"
  BY <1>1, Underway DEF StatusInv, SessionStatus, Unfailed, OpOf
<1>6. st \in Unfinished => Explained(TextOf(s))
  BY <1>1, <1>2 DEF StatusInv, TablesStatus, StatusTraceable, SessionStatus, MemExplained,
     Explained, Unfinished
<1>7. AiStarted(s)'
  BY <1>1 DEF AiStarted, AiPc, Goto, TypeInv, TypeOK
<1>8. QED
  BY <1>1, <1>3, <1>4, <1>5, <1>6, <1>7, MemoryOwn DEF Pc

LEMMA QueueAiJobStatus ==
    ASSUME TypeInv, StatusInv, NEW s \in Sessions, QueueAiJob(s) PROVE StatusInv'
<1>1. /\ Active(s) /\ pc[s] \notin WritingPc /\ Goto(s, "askAi")
      /\ mem' = [mem EXCEPT ![s][TextOf(s)] = "Processing"]
      /\ UNCHANGED <<item, req, docs, events, ingestJobs>>
  BY DEF QueueAiJob, Active, WritingPc, AiPc
<1>2. TextOf(s) \in Texts /\ OpOf(s) \in Op
  BY <1>1, Underway
<1>3. /\ aiJobs'[OpOf(s)].status = "Running" /\ aiJobs'[OpOf(s)].doc = TextOf(s)
      /\ OnlyJob(s, item[s])
  <2>1. aiJobs' = [aiJobs EXCEPT ![OpOf(s)] = [status |-> "Running", doc |-> TextOf(s),
                                               attempts |-> local[s].attempts]]
    BY DEF QueueAiJob
  <2>2. aiJobs \in [Op -> JobRow]
    BY DEF TypeInv, TypeOK
  <2>3. QED
    BY <1>1, <1>2, <2>1, <2>2 DEF OnlyJob, OpOf
<1>4. local' = [local EXCEPT ![s].original = mem[s][TextOf(s)]]
  BY DEF QueueAiJob
<1>5. local'[s].original = mem[s][TextOf(s)] /\ \A q \in Sessions \ {s} : local'[q] = local[q]
  BY <1>4 DEF TypeInv, TypeOK, Local
<1>6. OnlySession(s)
  BY <1>1, <1>5 DEF OnlySession, Goto, TypeInv, TypeOK
<1>7. ingestJobs'[OpOf(s)].status # "Failed"
  BY <1>1, Underway DEF StatusInv, SessionStatus, Unfailed, OpOf
<1>8. mem[s][TextOf(s)] \in Status /\ Stored(TextOf(s))
  BY <1>2 DEF QueueAiJob, TypeInv, SessionOK, TrackedPc, StatusInv, SessionStatus, MemStored, Status
<1>9. AiStarted(s)'
  <2>1. local'[s].original \in Unfinished => Explained(TextOf(s))
    BY <1>1, <1>2, <1>5 DEF StatusInv, SessionStatus, MemExplained
  <2>2. Alone(s) /\ JobsKept
    BY <1>1, <1>3, <1>6, OwnJob, Underway
  <2>3. Explained(TextOf(s)) => Explained(TextOf(s))'
    BY <1>1, <1>2, <2>2, FailureKept DEF Explained, TextOf, OpOf
  <2>4. OpOf(s)' = OpOf(s) /\ TextOf(s)' = TextOf(s) /\ pc'[s] = "askAi"
    BY <1>1 DEF OpOf, TextOf, Goto, TypeInv, TypeOK
  <2>5. QED
    BY <1>3, <2>1, <2>3, <2>4 DEF AiStarted
<1>10. QED
  BY <1>1, <1>3, <1>6, <1>7, <1>8, <1>9, MemoryOwn DEF Pc, WritingPc, AiPc

LEMMA AiAnswersStatus ==
    ASSUME TypeInv, StatusInv, NEW s \in Sessions, AiAnswers(s) PROVE StatusInv'
<1>1. /\ Active(s) /\ pc[s] = "askAi" /\ Goto(s, "saveEvent")
      /\ mem' = [mem EXCEPT ![s][TextOf(s)] = "Completed"]
      /\ UNCHANGED <<item, local, req, docs, events, ingestJobs, aiJobs>>
  BY DEF AiAnswers, Active, dbVars
<1>2. TextOf(s) \in Texts
  BY <1>1, Underway
<1>3. OnlySession(s) /\ OnlyJob(s, item[s])
  BY <1>1 DEF OnlySession, OnlyJob, Goto, TypeInv, TypeOK
<1>4. ingestJobs[OpOf(s)].status # "Failed" /\ aiJobs[OpOf(s)].status # "Failed"
  BY <1>1, Underway DEF StatusInv, SessionStatus, Unfailed, OpOf
<1>5. Stored(TextOf(s))
  <2>1. mem[s][TextOf(s)] \in Status
    BY <1>1 DEF TypeInv, SessionOK, TrackedPc
  <2>2. QED
    BY <1>2, <2>1 DEF StatusInv, SessionStatus, MemStored, Status
<1>6. AiStarted(s)'
  <2>1. OpOf(s)' = OpOf(s) /\ TextOf(s)' = TextOf(s) /\ pc'[s] = "saveEvent"
    BY <1>1 DEF OpOf, TextOf, Goto, TypeInv, TypeOK
  <2>2. Explained(TextOf(s)) => Explained(TextOf(s))'
    BY <1>1, <2>1 DEF Explained, FailedOn
  <2>3. QED
    BY <1>1, <2>1, <2>2 DEF StatusInv, SessionStatus, AiStarted, AiPc
<1>7. QED
  BY <1>1, <1>3, <1>4, <1>5, <1>6, MemoryOwn DEF Pc, WritingPc, AiPc

(* The steps that write documents or events.                                *)
LEMMA StoreDocumentStatus ==
    ASSUME TypeInv, StatusInv, NEW s \in Sessions, StoreDocument(s) PROVE StatusInv'
<1>1. /\ Active(s) /\ pc[s] \notin WritingPc /\ ~Stored(TextOf(s)) /\ Goto(s, "complete")
      /\ mem' = [mem EXCEPT ![s][TextOf(s)] = "AwaitingAi"]
      /\ UNCHANGED <<item, local, req, events, ingestJobs, aiJobs>>
  BY DEF StoreDocument, Active, WritingPc, AiPc
<1>2. TextOf(s) \in Texts /\ item[s] \in 1..BatchSize /\ pc'[s] = "complete"
  BY <1>1, Underway DEF Goto, TypeInv, TypeOK
<1>3. OnlySession(s) /\ OnlyJob(s, item[s])
  BY <1>1 DEF OnlySession, OnlyJob, Goto, TypeInv, TypeOK
<1>4. Alone(s) /\ JobsKept
  BY <1>1, <1>2, <1>3, OwnJob
<1>5. docs'[TextOf(s)].status = "AwaitingAi" /\ \A t \in Texts \ {TextOf(s)} : docs'[t] = docs[t]
  <2>1. docs' = [docs EXCEPT ![TextOf(s)] = [status |-> "AwaitingAi", source |-> local[s].row,
                                             rawFile |-> OpOf(s)]]
    BY DEF StoreDocument
  <2>2. docs \in [Texts -> DocRow]
    BY DEF TypeInv, TypeOK
  <2>3. QED
    BY <1>2, <2>1, <2>2
<1>6. \A t \in Texts : Stored(t) => Stored(t)'
  BY <1>5 DEF Stored
<1>7. \A t \in Texts : FailedOn(t) => FailedOn(t)'
  BY <1>4, FailureKept
<1>8. TablesStatus'
  <2>1. StatusTraceable'
    BY <1>1, <1>5, <1>7 DEF StatusInv, TablesStatus, StatusTraceable, Stored
  <2>2. EventsStored'
    BY <1>1, <1>6 DEF StatusInv, TablesStatus, EventsStored, TypeInv, TypeOK
  <2>3. \A t \in events : t # TextOf(s) /\ t \in Texts
    BY <1>1 DEF StatusInv, TablesStatus, EventsStored, TypeInv, TypeOK
  <2>4. EventsCompleted'
    BY <1>1, <1>5, <1>7, <2>3 DEF StatusInv, TablesStatus, EventsCompleted
  <2>5. QED
    BY <2>1, <2>2, <2>4 DEF TablesStatus
<1>9. SessionStatus(s)'
  <2>1. SessionStatus(s)
    BY DEF StatusInv
  <2>2. \A t \in Texts : mem'[s][t] = IF t = TextOf(s) THEN "AwaitingAi" ELSE mem[s][t]
    BY <1>1 DEF TypeInv, TypeOK
  <2>3. MemExplained(s)'
    BY <1>1, <1>7, <2>1, <2>2 DEF SessionStatus, MemExplained, Explained, Unfinished
  <2>4. MemStored(s)'
    BY <1>5, <1>6, <2>1, <2>2 DEF SessionStatus, MemStored, Stored
  <2>5. AiStarted(s)'
    BY <1>2 DEF AiStarted, AiPc
  <2>6. Unfailed(s)'
    BY <1>1, <1>2, <1>3, UnfailedKept DEF StatusInv, SessionStatus, Unfailed
  <2>7. QED
    BY <2>3, <2>4, <2>5, <2>6 DEF SessionStatus
<1>10. QED
  BY <1>1, <1>4, <1>6, <1>8, <1>9, StatusOfOthers DEF StatusInv

LEMMA SaveEventStatus ==
    ASSUME TypeInv, StatusInv, NEW s \in Sessions, SaveEvent(s) PROVE StatusInv'
<1>1. /\ Active(s) /\ pc[s] = "saveEvent" /\ TextOf(s) \notin events /\ Goto(s, "recalculate")
      /\ events' = events \cup {TextOf(s)}
      /\ UNCHANGED <<item, mem, local, req, ingestJobs>>
  BY DEF SaveEvent, Active, ctxVars
<1>2. TextOf(s) \in Texts /\ item[s] \in 1..BatchSize /\ pc'[s] = "recalculate" /\ OpOf(s) \in Op
  BY <1>1, Underway DEF Goto, TypeInv, TypeOK
<1>3. OnlySession(s)
  BY <1>1 DEF OnlySession, Goto, TypeInv, TypeOK
<1>4. /\ OnlyJob(s, item[s]) /\ aiJobs'[OpOf(s)].status # "Failed"
      /\ aiJobs'[OpOf(s)].doc = aiJobs[OpOf(s)].doc
  <2>1. aiJobs' = [aiJobs EXCEPT ![OpOf(s)].status = "Succeeded"] /\ aiJobs \in [Op -> JobRow]
    BY DEF SaveEvent, TypeInv, TypeOK
  <2>2. QED
    BY <1>1, <1>2, <2>1 DEF OnlyJob, OpOf, JobRow
<1>5. Alone(s) /\ JobsKept
  BY <1>1, <1>2, <1>3, <1>4, OwnJob
<1>6. \A t \in Texts : FailedOn(t) => FailedOn(t)'
  BY <1>5, FailureKept
<1>7. SessionStatus(s)
  BY DEF StatusInv
<1>8. Stored(TextOf(s)) /\ (local[s].original = "Completed" => FailedOn(TextOf(s)))
  <2>1. mem[s][TextOf(s)] \in Status
    BY <1>1 DEF TypeInv, SessionOK, TrackedPc
  <2>2. QED
    BY <1>1, <1>2, <1>7, <2>1
    DEF SessionStatus, MemStored, AiStarted, AiPc, Explained, Status, Unfinished
<1>9. /\ \A t \in Texts \ {TextOf(s)} : docs'[t] = docs[t]
      /\ docs'[TextOf(s)].status = "Completed"
         \/ (docs' = docs /\ local[s].original = "Completed")
  <2>1. \/ docs' = docs /\ local[s].original = "Completed"
        \/ docs' = [docs EXCEPT ![TextOf(s)].status = "Completed"]
    BY DEF SaveEvent
  <2>2. docs \in [Texts -> DocRow]
    BY DEF TypeInv, TypeOK
  <2>3. QED
    BY <1>2, <2>1, <2>2 DEF DocRow
<1>10. \A t \in Texts : Stored(t) => Stored(t)'
  BY <1>9 DEF Stored
<1>11. TablesStatus'
  <2>1. StatusTraceable'
    BY <1>1, <1>6, <1>9 DEF StatusInv, TablesStatus, StatusTraceable, Stored
  <2>2. EventsStored'
    <3>1. ASSUME NEW t \in events' PROVE Stored(t)
      BY <1>1, <1>8 DEF StatusInv, TablesStatus, EventsStored
    <3>2. events' \subseteq Texts
      BY <1>1, <1>2 DEF TypeInv, TypeOK
    <3>3. QED
      BY <1>10, <3>1, <3>2 DEF EventsStored
  <2>3. EventsCompleted'
    <3>1. ASSUME NEW t \in events' PROVE docs'[t].status = "Completed" \/ \E u \in Texts : FailedOn(u)'
      <4>1. CASE t = TextOf(s)
        BY <1>2, <1>6, <1>8, <1>9, <4>1
      <4>2. CASE t # TextOf(s)
        <5>1. t \in events /\ docs'[t] = docs[t]
          BY <1>1, <1>9, <4>2 DEF TypeInv, TypeOK
        <5>2. QED
          BY <1>6, <5>1 DEF StatusInv, TablesStatus, EventsCompleted
      <4>3. QED
        BY <4>1, <4>2
    <3>2. QED
      BY <3>1 DEF EventsCompleted
  <2>4. QED
    BY <2>1, <2>2, <2>3 DEF TablesStatus
<1>12. SessionStatus(s)'
  <2>1. TextOf(s)' = TextOf(s) /\ OpOf(s)' = OpOf(s)
    BY <1>1 DEF TextOf, OpOf
  <2>2. \A t \in Texts : Explained(t) => Explained(t)'
    BY <1>1, <1>6 DEF Explained
  <2>3. MemExplained(s)' /\ MemStored(s)'
    BY <1>1, <1>2, <1>7, <1>10, <2>1, <2>2 DEF SessionStatus, MemExplained, MemStored, WritingPc, AiPc
  <2>4. AiStarted(s)'
    BY <1>1, <1>2, <1>4, <1>7, <2>1 DEF SessionStatus, AiStarted, AiPc, Explained
  <2>5. Unfailed(s)'
    BY <1>1, <1>2, <1>4, UnfailedKept DEF StatusInv, SessionStatus, Unfailed, OpOf
  <2>6. QED
    BY <2>3, <2>4, <2>5 DEF SessionStatus
<1>13. QED
  BY <1>1, <1>5, <1>10, <1>11, <1>12, StatusOfOthers DEF StatusInv

(* The save that records a failure: whatever else it writes, the statuses   *)
(* come from the session's memory.                                          *)
LEMMA RecordStatus ==
    ASSUME TypeInv, StatusInv, NEW s \in Sessions, Active(s), pc[s] \in TrackedPc,
           NEW o, NEW k, Finish(s, o, RetrackedMem(s, TextOf(s)), k),
           docs' = Rewritten(s, TextOf(s)), FailedOn(TextOf(s))',
           UNCHANGED <<item, req, events>>, OnlyJob(s, item[s])
    PROVE  StatusInv'
<1> DEFINE t == TextOf(s)
<1>1. t \in Texts /\ item[s] \in 1..BatchSize
  BY Underway
<1>2. OnlySession(s)
  BY DEF OnlySession, Finish, TypeInv, TypeOK
<1>3. Alone(s) /\ JobsKept
  BY <1>1, <1>2, OwnJob
<1>4. \A d \in Texts : FailedOn(d) => FailedOn(d)'
  BY <1>3, FailureKept
<1>5. SessionStatus(s)
  BY DEF StatusInv
<1>6. \A d \in Texts : mem[s][d] \in Unfinished => Explained(d)'
  <2>1. ASSUME NEW d \in Texts, mem[s][d] \in Unfinished PROVE d = t \/ Explained(d)
    BY <1>5, <2>1 DEF SessionStatus, MemExplained
  <2>2. TextOf(s)' = TextOf(s)
    BY DEF TextOf, OpOf
  <2>3. ASSUME NEW d \in Texts, d = t PROVE FailedOn(d)'
    BY <2>2, <2>3 DEF FailedOn
  <2>4. QED
    BY <1>4, <2>1, <2>3 DEF Explained
<1>7. ASSUME NEW d \in Reachable(s, t)
      PROVE  d \in Texts /\ mem[s][d] \in Status /\ Stored(d) /\ docs'[d].status = mem[s][d]
  <2>1. d \in Texts /\ mem[s][d] # "untracked"
    <3>1. mem[s][t] # "untracked"
      BY DEF TypeInv, SessionOK, Status
    <3>2. QED
      BY <1>1, <1>7, <3>1 DEF Reachable
  <2>2. mem[s][d] \in Status /\ Stored(d)
    BY <1>5, <2>1 DEF SessionStatus, MemStored, TypeInv, TypeOK
  <2>3. docs'[d] = [docs[d] EXCEPT !.status = mem[s][d]] /\ docs[d] \in DocRow
    BY <1>7, <2>1 DEF Rewritten, TypeInv, TypeOK
  <2>4. QED
    BY <2>1, <2>2, <2>3 DEF DocRow
<1>8. \A d \in Texts : d \notin Reachable(s, t) => docs'[d] = docs[d]
  BY DEF Rewritten
<1>9. \A d \in Texts : Stored(d) => Stored(d)'
  BY <1>7, <1>8 DEF Stored, Status
<1>10. TablesStatus'
  <2>1. ASSUME NEW d \in Texts, Stored(d)', d \notin events', docs'[d].status # "AwaitingAi"
        PROVE  FailedOn(d)'
    <3>1. CASE d \in Reachable(s, t)
      <4>1. mem[s][d] \in Unfinished
        BY <1>7, <2>1, <3>1 DEF Status, Unfinished
      <4>2. QED
        BY <1>6, <2>1, <4>1 DEF Explained
    <3>2. CASE d \notin Reachable(s, t)
      BY <1>4, <1>8, <2>1, <3>2 DEF StatusInv, TablesStatus, StatusTraceable, Stored
    <3>3. QED
      BY <3>1, <3>2
  <2>2. StatusTraceable'
    BY <2>1 DEF StatusTraceable
  <2>3. EventsStored'
    BY <1>9 DEF StatusInv, TablesStatus, EventsStored, TypeInv, TypeOK
  <2>4. EventsCompleted'
    <3>1. TextOf(s)' = TextOf(s)
      BY DEF TextOf, OpOf
    <3>2. \E u \in Texts : FailedOn(u)'
      BY <1>1, <3>1 DEF FailedOn
    <3>3. QED
      BY <3>2 DEF EventsCompleted
  <2>5. QED
    BY <2>2, <2>3, <2>4 DEF TablesStatus
<1>11. SessionStatus(s)'
  <2>1. pc'[s] \in {"ready", "stopped"} /\ mem'[s] \in {RetrackedMem(s, t), NoMem}
    BY DEF TypeInv, TypeOK, Finish
  <2>2. ASSUME NEW d \in Texts, mem'[s][d] # "untracked"
        PROVE  mem'[s][d] = mem[s][d] /\ Stored(d)
    BY <1>7, <2>1, <2>2 DEF RetrackedMem, NoMem
  <2>3. MemExplained(s)' /\ MemStored(s)'
    BY <1>6, <1>9, <2>2 DEF MemExplained, MemStored, Unfinished
  <2>4. AiStarted(s)'
    BY <2>1 DEF AiStarted, AiPc
  <2>5. Unfailed(s)'
    BY <2>1, UnfailedEnded DEF Active
  <2>6. QED
    BY <2>3, <2>4, <2>5 DEF SessionStatus
<1>12. QED
  BY <1>3, <1>9, <1>10, <1>11, StatusOfOthers DEF StatusInv

LEMMA RecordLinkedFailureStatus ==
    ASSUME TypeInv, StatusInv, NEW s \in Sessions, RecordLinkedFailure(s) PROVE StatusInv'
<1>1. /\ Active(s) /\ pc[s] \in TrackedPc /\ docs' = Rewritten(s, TextOf(s))
      /\ UNCHANGED <<item, req, events, aiJobs>>
  BY DEF RecordLinkedFailure, Active, TrackedPc
<1>2. OpOf(s) \in Op
  BY <1>1, Underway
<1>3. ingestJobs' = [ingestJobs EXCEPT ![OpOf(s)].status = "Failed", ![OpOf(s)].doc = TextOf(s)]
  BY DEF RecordLinkedFailure
<1>4. OnlyJob(s, item[s])
  BY <1>1, <1>3 DEF OnlyJob, OpOf, TypeInv, TypeOK
<1>5. ingestJobs'[OpOf(s)].status = "Failed" /\ ingestJobs'[OpOf(s)].doc = TextOf(s)
  BY <1>2, <1>3 DEF TypeInv, TypeOK, JobRow
<1>6. FailedOn(TextOf(s))'
  BY <1>1, <1>2, <1>5 DEF FailedOn, TextOf, OpOf
<1>7. Finish(s, "Failed", RetrackedMem(s, TextOf(s)), RetrackedSources(s, TextOf(s)))
  BY DEF RecordLinkedFailure
<1>8. QED
  BY <1>1, <1>4, <1>6, <1>7, RecordStatus

LEMMA RecordAiFailureStatus ==
    ASSUME TypeInv, StatusInv, NEW s \in Sessions, RecordAiFailure(s) PROVE StatusInv'
<1>1. /\ Active(s) /\ pc[s] = "failAi" /\ docs' = Rewritten(s, TextOf(s))
      /\ UNCHANGED <<item, req, events, ingestJobs>>
  BY DEF RecordAiFailure, Active
<1>2. OpOf(s) \in Op /\ aiJobs[OpOf(s)].doc = TextOf(s)
  BY <1>1, Underway DEF StatusInv, SessionStatus, AiStarted, AiPc
<1>3. aiJobs' = [aiJobs EXCEPT ![OpOf(s)].status = "Failed"]
  BY DEF RecordAiFailure
<1>4. OnlyJob(s, item[s])
  BY <1>1, <1>3 DEF OnlyJob, OpOf, TypeInv, TypeOK
<1>5. aiJobs'[OpOf(s)].status = "Failed" /\ aiJobs'[OpOf(s)].doc = TextOf(s)
  BY <1>2, <1>3 DEF TypeInv, TypeOK, JobRow
<1>6. FailedOn(TextOf(s))'
  BY <1>1, <1>2, <1>5 DEF FailedOn, TextOf, OpOf
<1>7. PICK o, k : Finish(s, o, RetrackedMem(s, TextOf(s)), k)
  BY DEF RecordAiFailure, FinishAi
<1>8. QED
  BY <1>1, <1>4, <1>6, <1>7, RecordStatus DEF TrackedPc

(* Crashes and idle steps.                                                  *)
LEMMA CrashStatus == ASSUME TypeInv, StatusInv, NEW h, Crash(h) PROVE StatusInv'
<1>1. PICK lost \in SUBSET Sessions :
        /\ pc' = [s \in Sessions |-> IF s \in lost THEN "stopped" ELSE pc[s]]
        /\ mem' = [s \in Sessions |-> IF s \in lost THEN NoMem ELSE mem[s]]
        /\ local' = [s \in Sessions |-> IF s \in lost THEN NoLocal ELSE local[s]]
  BY DEF Crash
<1>2. UNCHANGED <<item, req, docs, events, ingestJobs, aiJobs>>
  BY DEF Crash, dbVars
<1>3. TablesStatus' /\ \A t \in Texts : Explained(t) => Explained(t)'
  BY <1>2 DEF StatusInv, TablesStatus, StatusTraceable, EventsStored, EventsCompleted, Stored,
     FailedOn, Explained
<1>4. ASSUME NEW s \in Sessions PROVE SessionStatus(s)'
  <2>1. SessionStatus(s)
    BY DEF StatusInv
  <2>2. CASE s \in lost
    <3>1. pc'[s] = "stopped" /\ mem'[s] = NoMem
      BY <1>1, <2>2
    <3>2. QED
      BY <1>2, <2>1, <3>1 DEF SessionStatus, MemExplained, MemStored, AiStarted, AiPc, Unfailed,
         Active, NoMem, Unfinished
  <2>3. CASE s \notin lost
    <3>1. pc'[s] = pc[s] /\ mem'[s] = mem[s] /\ local'[s] = local[s]
      BY <1>1, <2>3
    <3>2. QED
      BY <1>2, <1>3, <2>1, <3>1, Underway DEF SessionStatus, MemExplained, MemStored, AiStarted, AiPc,
         Unfailed, Active, TextOf, OpOf, Stored
  <2>4. QED
    BY <2>2, <2>3
<1>5. QED
  BY <1>3, <1>4 DEF StatusInv

LEMMA NextStatusInv == TypeInv /\ StatusInv /\ [Next]_vars => StatusInv'
<1> SUFFICES ASSUME TypeInv, StatusInv, [Next]_vars PROVE StatusInv'
  OBVIOUS
<1>1. ASSUME NEW s \in Sessions, Start(s) PROVE StatusInv'
  BY <1>1, StartReprocessStatus, StartIngestStatus DEF Start
<1>2. ASSUME NEW s \in Sessions, Continue(s) PROVE StatusInv'
  BY <1>2, IngestMoveStatus, FindDuplicateStatus, AnswerStatus, SourceStatus, StoreDocumentStatus,
     CompleteJobStatus, RecordLinkedFailureStatus, RequestAnalysisStatus, CountAttemptsStatus,
     QueueAiJobStatus, AiAnswersStatus, ToCatchStatus, SaveEventStatus, RecalculateStatus,
     RecordAiFailureStatus
  DEF Continue
<1>3. ASSUME NEW s \in Sessions, Disturb(s) PROVE StatusInv'
  BY <1>3, StartThrowsStatus, ToCatchStatus, LeaveStatus DEF Disturb
<1>4. ASSUME NEW h \in {"api", "worker"}, Crash(h) PROVE StatusInv'
  BY <1>4, CrashStatus
<1>5. CASE UNCHANGED vars
  BY <1>5 DEF vars, dbVars, sessVars, ctxVars, StatusInv, TablesStatus, StatusTraceable,
     EventsStored, EventsCompleted, SessionStatus, MemExplained, MemStored, AiStarted, Unfailed,
     Explained, FailedOn, Stored, Active, OpOf, TextOf
<1>6. QED
  BY <1>1, <1>2, <1>3, <1>4, <1>5 DEF Next, Quiet

LEMMA StatusInvariant == Spec => [](TypeInv /\ StatusInv)
BY InitTypeInv, NextTypeInv, InitStatusInv, NextStatusInv, PTL DEF Spec

(* A document that is not AwaitingAi although it has no event has a Failed  *)
(* job to explain it.  The statuses in the change trackers obey the same     *)
(* rule, except for the document a session is analysing: that is what a      *)
(* failure may then write, and the same save makes the job Failed.           *)
THEOREM StatusExplained == Spec => []StatusTraceable
<1>1. TypeInv /\ StatusInv => StatusTraceable
  BY DEF StatusInv, TablesStatus
<1>2. QED
  BY <1>1, StatusInvariant, PTL

(* While no failure is on record Completed means exactly that the document   *)
(* has an event, however stale the change trackers of the sessions are: the  *)
(* event's transaction writes the status unless EF loaded it as Completed,   *)
(* and it was Completed without an event only after a failure.               *)
THEOREM NoDriftWithoutFailure == Spec => []DriftNeedsFailure
<1>1. ASSUME TypeInv, StatusInv, \A t \in Texts : ~FailedOn(t), NEW t \in Texts
      PROVE  docs[t].status = "Completed" <=> t \in events
  BY <1>1 DEF StatusInv, TablesStatus, StatusTraceable, EventsCompleted, Stored
<1>2. TypeInv /\ StatusInv => DriftNeedsFailure
  BY <1>1 DEF DriftNeedsFailure
<1>3. QED
  BY <1>2, StatusInvariant, PTL

(* The table goes back from Completed only in the save that records a        *)
(* failure: every other step that writes a document inserts it or completes  *)
(* it.                                                                      *)
Regresses == \E t \in Texts : docs[t].status = "Completed" /\ docs'[t].status # "Completed"
FailsAJob == \E op \in Op : \/ aiJobs[op].status # "Failed" /\ aiJobs'[op].status = "Failed"
                            \/ ingestJobs[op].status # "Failed" /\ ingestJobs'[op].status = "Failed"

LEMMA FailureWriteFailsAJob ==
    ASSUME TypeInv, StatusInv, NEW s \in Sessions, RecordLinkedFailure(s) \/ RecordAiFailure(s)
    PROVE  FailsAJob
<1>1. Active(s)
  BY DEF RecordLinkedFailure, RecordAiFailure, Active
<1>2. OpOf(s) \in Op
  BY <1>1, Underway
<1>3. ingestJobs[OpOf(s)].status # "Failed" /\ aiJobs[OpOf(s)].status # "Failed"
  BY <1>1, Underway DEF StatusInv, SessionStatus, Unfailed, OpOf
<1>4. CASE RecordLinkedFailure(s)
  <2>1. ingestJobs' = [ingestJobs EXCEPT ![OpOf(s)].status = "Failed", ![OpOf(s)].doc = TextOf(s)]
    BY <1>4 DEF RecordLinkedFailure
  <2>2. ingestJobs'[OpOf(s)].status = "Failed"
    BY <1>2, <2>1 DEF TypeInv, TypeOK, JobRow
  <2>3. QED
    BY <1>2, <1>3, <2>2 DEF FailsAJob
<1>5. CASE RecordAiFailure(s)
  <2>1. aiJobs' = [aiJobs EXCEPT ![OpOf(s)].status = "Failed"]
    BY <1>5 DEF RecordAiFailure
  <2>2. aiJobs'[OpOf(s)].status = "Failed"
    BY <1>2, <2>1 DEF TypeInv, TypeOK, JobRow
  <2>3. QED
    BY <1>2, <1>3, <2>2 DEF FailsAJob
<1>6. QED
  BY <1>4, <1>5

LEMMA StatusGoesForward ==
    ASSUME TypeInv, NEW s \in Sessions, StoreDocument(s) \/ SaveEvent(s)
    PROVE  ~Regresses
<1>1. docs \in [Texts -> DocRow]
  BY DEF TypeInv, TypeOK
<1>2. CASE StoreDocument(s)
  <2>1. docs' = [docs EXCEPT ![TextOf(s)] = [status |-> "AwaitingAi", source |-> local[s].row,
                                             rawFile |-> OpOf(s)]]
        /\ docs[TextOf(s)].status = "absent"
    BY <1>2 DEF StoreDocument, Stored
  <2>2. QED
    BY <1>1, <2>1 DEF Regresses
<1>3. CASE SaveEvent(s)
  <2>1. docs' = docs \/ docs' = [docs EXCEPT ![TextOf(s)].status = "Completed"]
    BY <1>3 DEF SaveEvent
  <2>2. QED
    BY <1>1, <2>1 DEF Regresses, DocRow
<1>4. QED
  BY <1>2, <1>3

LEMMA RegressionStep == ASSUME TypeInv, StatusInv, Next PROVE Regresses => FailsAJob
<1>1. ASSUME docs' = docs PROVE ~Regresses
  BY <1>1 DEF Regresses
<1>2. ASSUME NEW s \in Sessions, Start(s) PROVE docs' = docs
  BY <1>2 DEF Start, StartReprocess, StartIngest, dbVars
<1>3. ASSUME NEW s \in Sessions, Disturb(s) PROVE docs' = docs
  BY <1>3 DEF Disturb, StartThrows, IngestThrows, ReprocessThrows, AiThrows, CatchThrows, dbVars
<1>4. ASSUME NEW s \in Sessions, Continue(s)
      PROVE  \/ docs' = docs
             \/ StoreDocument(s) \/ SaveEvent(s)
             \/ RecordLinkedFailure(s) \/ RecordAiFailure(s)
  BY <1>4 DEF Continue, FindNew, FindDuplicate, ExtractionFails, AnswerDuplicate, ReuseSource,
     AddSource, StoreConflict, CompleteJob, RecordFailure, RequestAnalysis, CountAttempts,
     QueueAiJob, AiAnswers, AiFails, EventConflict, Recalculate, dbVars
<1>5. ASSUME NEW h, Crash(h) PROVE docs' = docs
  BY <1>5 DEF Crash, dbVars
<1>6. Quiet => docs' = docs
  BY DEF Quiet, vars, dbVars
<1>7. QED
  BY <1>1, <1>2, <1>3, <1>4, <1>5, <1>6, FailureWriteFailsAJob, StatusGoesForward DEF Next

(* A status goes back from Completed only in the step that records a         *)
(* failure, possibly the failure of another document.                        *)
THEOREM RegressionRecorded == Spec => RegressionIsAFailureWrite
<1>1. TypeInv /\ StatusInv /\ [Next]_vars => [Regresses => FailsAJob]_vars
  BY RegressionStep
<1>2. Spec => [][Regresses => FailsAJob]_vars
  BY <1>1, StatusInvariant, PTL DEF Spec
<1>3. QED
  BY <1>2 DEF RegressionIsAFailureWrite, Regresses, FailsAJob
=============================================================================
