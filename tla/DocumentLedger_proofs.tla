------------------------- MODULE DocumentLedger_proofs -------------------------
(***************************************************************************)
(* Proofs that ingestion deduplicates by text (an ingestion answered       *)
(* Created stored the document) and that the pipeline implements the       *)
(* ledger, for any number of sessions, faults and crashes.                 *)
(***************************************************************************)
EXTENDS DocumentPipeline_proofs

(* The awaits of an ingestion that has stored its document, and those of    *)
(* one that has not.                                                        *)
OwnPc   == {"complete", "count", "queueAi", "askAi", "saveEvent", "recalculate", "failAi"}
FreshPc == {"extract", "duplicate", "source", "store"}

(* The document of op names the raw file of op; no document does.           *)
Owns(op)  == Stored(req[op].text) /\ docs[req[op].text].rawFile = op
Fresh(op) == \A t \in Texts : Stored(t) => docs[t].rawFile # op

AnswerOK(op) ==
    IngestOp(op) =>
        /\ result[op] = "Created" => Owns(op)
        /\ result[op] = "Duplicate" => Stored(req[op].text) /\ docs[req[op].text].rawFile # op
SessionDedup(s) ==
    /\ s \in Ingests /\ pc[s] \in OwnPc => Owns(OpOf(s))
    /\ pc[s] = "duplicate" => Stored(TextOf(s))
    /\ pc[s] = "hasEvent" => s \notin Ingests
    /\ pc[s] \in FreshPc => Fresh(OpOf(s))
    /\ \A i \in 1..BatchSize : i > item[s] => result[<<s, i>>] = "none" /\ Fresh(<<s, i>>)
DedupInv == (\A op \in Op : AnswerOK(op)) /\ \A s \in Sessions : SessionDedup(s)

(* A step stores no document, or the one of operation op alone, and leaves  *)
(* the raw file of a stored document as it is.                              *)
DocsKept == \A t \in Texts : /\ Stored(t)' <=> Stored(t)
                             /\ docs'[t].rawFile = docs[t].rawFile
DocsAdded(op) ==
    \A t \in Texts : /\ Stored(t) => Stored(t)' /\ docs'[t].rawFile = docs[t].rawFile
                     /\ Stored(t)' /\ ~Stored(t) => docs'[t].rawFile = op
(* Only the request and the answer of op change.                            *)
OnlyAnswer(op) == \A p \in Op \ {op} : req'[p] = req[p] /\ result'[p] = result[p]

LEMMA InitDedupInv == Init => DedupInv
<1> SUFFICES ASSUME Init PROVE DedupInv
  OBVIOUS
<1>1. \A op \in Op : AnswerOK(op)
  BY DEF Init, AnswerOK, IngestOp
<1>2. ASSUME NEW s \in Sessions PROVE SessionDedup(s)
  BY DEF Init, SessionDedup, OwnPc, FreshPc, Fresh, Stored, NoDoc, Op
<1>3. QED
  BY <1>1, <1>2 DEF DedupInv

(* What has been answered stays right.                                      *)
LEMMA AnswersKept ==
    ASSUME TypeInv, DedupInv, NEW op \in Op, DocsAdded(op), OnlyAnswer(op),
           NEW p \in Op, p # op
    PROVE  AnswerOK(p)'
<1>1. AnswerOK(p) /\ req'[p] = req[p] /\ result'[p] = result[p]
  BY DEF DedupInv, OnlyAnswer
<1>2. IngestOp(p) => req[p].text \in Texts
  BY DEF IngestOp, TypeInv, TypeOK, Request
<1>3. QED
  BY <1>1, <1>2 DEF AnswerOK, Owns, IngestOp, DocsAdded, Stored

LEMMA FreshKept ==
    ASSUME NEW op, DocsAdded(op), NEW p, p # op, Fresh(p)
    PROVE  Fresh(p)'
BY DEF Fresh, DocsAdded

(* A step of s preserves the invariant if it does so for s and its answer.  *)
LEMMA DedupStep ==
    ASSUME TypeInv, DedupInv, NEW s \in Sessions, NEW i \in 1..BatchSize,
           OnlySession(s), DocsAdded(<<s, i>>), OnlyAnswer(<<s, i>>),
           AnswerOK(<<s, i>>)', SessionDedup(s)'
    PROVE  DedupInv'
<1>1. <<s, i>> \in Op
  BY DEF Op
<1>2. ASSUME NEW q \in Sessions, q # s PROVE SessionDedup(q)'
  <2>1. /\ pc'[q] = pc[q] /\ item'[q] = item[q] /\ SessionDedup(q)
        /\ OpOf(q)' = OpOf(q) /\ req'[OpOf(q)] = req[OpOf(q)]
    BY <1>2 DEF OnlySession, OpOf, DedupInv
  <2>2. \A j : Fresh(<<q, j>>) => Fresh(<<q, j>>)'
    BY <1>2, FreshKept
  <2>3. Active(q) => TextOf(q) \in Texts /\ TextOf(q)' = TextOf(q)
    BY <2>1, Underway DEF TextOf
  <2>4. q \in Ingests /\ pc'[q] \in OwnPc => Owns(OpOf(q))'
    BY <2>1, <2>3 DEF SessionDedup, OwnPc, Active, Owns, TextOf, DocsAdded, Stored
  <2>5. pc'[q] = "duplicate" => Stored(TextOf(q))'
    BY <2>1, <2>3 DEF SessionDedup, Active, DocsAdded, Stored
  <2>6. pc'[q] \in FreshPc => Fresh(OpOf(q))'
    BY <2>1, <2>2 DEF SessionDedup, OpOf
  <2>7. \A j \in 1..BatchSize : j > item'[q] => result'[<<q, j>>] = "none" /\ Fresh(<<q, j>>)'
    BY <1>2, <2>1, <2>2 DEF SessionDedup, OnlyAnswer, Op
  <2>8. QED
    BY <2>1, <2>4, <2>5, <2>6, <2>7 DEF SessionDedup
<1>3. QED
  BY <1>1, <1>2, AnswersKept DEF DedupInv

LEMMA KeptIsAdded == ASSUME NEW op, DocsKept PROVE DocsAdded(op)
BY DEF DocsKept, DocsAdded

LEMMA SameDocs == ASSUME docs' = docs PROVE DocsKept
BY DEF DocsKept, Stored

(* A step to another await that stores no document.                         *)
LEMMA DedupMove ==
    ASSUME TypeInv, DedupInv, NEW s \in Sessions, Active(s), NEW label \in Pc, Goto(s, label),
           UNCHANGED <<item, req, result>>, DocsKept, OnlySession(s),
           label \in OwnPc => pc[s] \in OwnPc \cup {"hasEvent"},
           label \in FreshPc => pc[s] \in FreshPc,
           label = "duplicate" => Stored(TextOf(s)),
           label # "hasEvent"
    PROVE  DedupInv'
<1>1. item[s] \in 1..BatchSize /\ OpOf(s) \in Op /\ TextOf(s) \in Texts
  BY Underway
<1>2. pc'[s] = label /\ OpOf(s)' = OpOf(s) /\ TextOf(s)' = TextOf(s)
  BY DEF Goto, TypeInv, TypeOK, OpOf, TextOf
<1>3. SessionDedup(s) /\ AnswerOK(OpOf(s))
  BY <1>1 DEF DedupInv
<1>4. \A op : Fresh(op) => Fresh(op)'
  BY DEF Fresh, DocsKept
<1>5. Owns(OpOf(s)) => Owns(OpOf(s))'
  BY <1>1, <1>2 DEF Owns, TextOf, DocsKept, Stored
<1>6. SessionDedup(s)'
  <2>1. s \in Ingests /\ pc'[s] \in OwnPc => Owns(OpOf(s))'
    BY <1>2, <1>3, <1>5 DEF SessionDedup
  <2>2. pc'[s] = "duplicate" => Stored(TextOf(s))'
    BY <1>1, <1>2 DEF DocsKept, Stored
  <2>3. pc'[s] \in FreshPc => Fresh(OpOf(s))'
    BY <1>2, <1>3, <1>4 DEF SessionDedup
  <2>4. \A j \in 1..BatchSize : j > item'[s] => result'[<<s, j>>] = "none" /\ Fresh(<<s, j>>)'
    BY <1>3, <1>4 DEF SessionDedup
  <2>5. QED
    BY <1>2, <2>1, <2>2, <2>3, <2>4 DEF SessionDedup
<1>7. AnswerOK(<<s, item[s]>>)'
  <2>1. IngestOp(OpOf(s)) => req[OpOf(s)].text \in Texts
    BY <1>1 DEF TextOf
  <2>2. QED
    BY <1>3, <2>1 DEF AnswerOK, Owns, IngestOp, DocsKept, Stored, OpOf
<1>8. DocsAdded(<<s, item[s]>>) /\ OnlyAnswer(<<s, item[s]>>)
  BY KeptIsAdded DEF OnlyAnswer
<1>9. QED
  BY <1>1, <1>6, <1>7, <1>8, DedupStep

(* The end of an operation.                                                 *)
LEMMA DedupFinish ==
    ASSUME TypeInv, DedupInv, NEW s \in Sessions, Active(s), NEW o, NEW m, NEW k,
           Finish(s, o, m, k), UNCHANGED <<item, req>>, DocsKept,
           o = "Created" => s \notin Ingests \/ pc[s] \in OwnPc,
           o = "Duplicate" => pc[s] \in {"duplicate", "hasEvent"}
    PROVE  DedupInv'
<1>1. item[s] \in 1..BatchSize /\ OpOf(s) \in Op /\ TextOf(s) \in Texts
  BY Underway
<1>2. SessionDedup(s)
  BY DEF DedupInv
<1>3. pc'[s] \in {"ready", "stopped"} /\ result' = [result EXCEPT ![OpOf(s)] = o]
  BY DEF TypeInv, TypeOK, Finish
<1>4. OnlySession(s)
  BY DEF OnlySession, Finish, TypeInv, TypeOK
<1>5. \A op : Fresh(op) => Fresh(op)'
  BY DEF Fresh, DocsKept
<1>6. result'[OpOf(s)] = o /\ \A p \in Op \ {OpOf(s)} : result'[p] = result[p]
  BY <1>1, <1>3 DEF TypeInv, TypeOK
<1>7. IngestOp(OpOf(s)) => s \in Ingests
  BY <1>1 DEF IngestOp, TypeInv, SessionOK, KindOf
<1>8. AnswerOK(OpOf(s))'
  <2>1. OpOf(s)' = OpOf(s) /\ IngestOp(OpOf(s))' = IngestOp(OpOf(s)) /\ req'[OpOf(s)].text = TextOf(s)
    BY DEF OpOf, IngestOp, TextOf
  <2>2. IngestOp(OpOf(s)) /\ o = "Created" => Stored(TextOf(s)) /\ docs[TextOf(s)].rawFile = OpOf(s)
    BY <1>2, <1>7 DEF SessionDedup, Owns, TextOf
  <2>3. IngestOp(OpOf(s)) /\ o = "Duplicate"
          => Stored(TextOf(s)) /\ docs[TextOf(s)].rawFile # OpOf(s)
    BY <1>1, <1>2, <1>7 DEF SessionDedup, FreshPc, Fresh
  <2>4. /\ Stored(TextOf(s))' <=> Stored(TextOf(s))
        /\ docs'[TextOf(s)].rawFile = docs[TextOf(s)].rawFile
    BY <1>1, <2>1 DEF DocsKept, Stored, TextOf
  <2>5. QED
    BY <1>6, <2>1, <2>2, <2>3, <2>4 DEF AnswerOK, Owns, Stored, TextOf
<1>9. SessionDedup(s)'
  <2>1. \A j \in 1..BatchSize : j > item'[s] => result'[<<s, j>>] = "none" /\ Fresh(<<s, j>>)'
    <3>1. ASSUME NEW j \in 1..BatchSize, j > item[s] PROVE <<s, j>> \in Op \ {OpOf(s)}
      BY <1>1, <3>1 DEF Op, OpOf
    <3>2. QED
      BY <1>2, <1>5, <1>6, <3>1 DEF SessionDedup
  <2>2. QED
    BY <1>3, <2>1 DEF SessionDedup, OwnPc, FreshPc
<1>10. DocsAdded(<<s, item[s]>>) /\ OnlyAnswer(<<s, item[s]>>)
  BY <1>6, KeptIsAdded DEF OnlyAnswer, OpOf
<1>11. QED
  BY <1>1, <1>4, <1>8, <1>9, <1>10, DedupStep DEF OpOf

(* The beginning of an operation.                                           *)
LEMMA DedupBegin ==
    ASSUME TypeInv, DedupInv, NEW s \in Sessions, NEW t \in Texts, NEW k, Begin(s, t, k),
           docs' = docs, result' = result
              \/ \E o \in {"Failed", "Error"} : result' = [result EXCEPT ![<<s, item[s] + 1>>] = o],
           \A q \in Sessions \ {s} : pc'[q] = pc[q] /\ mem'[q] = mem[q] /\ local'[q] = local[q],
           pc'[s] \in {"ready", "stopped", "extract", "hasEvent"},
           pc'[s] = "hasEvent" => s \notin Ingests
    PROVE  DedupInv'
<1>1. /\ item[s] \in Nat /\ item[s] + 1 \in 1..BatchSize
      /\ item' = [item EXCEPT ![s] = item[s] + 1]
      /\ req' = [req EXCEPT ![<<s, item[s] + 1>>] = [text |-> t, kind |-> k]]
  BY BoundsAssumption DEF Begin, Limit, TypeInv, TypeOK
<1>2. <<s, item[s] + 1>> \in Op /\ item'[s] = item[s] + 1
  BY <1>1 DEF Op, TypeInv, TypeOK
<1>3. OnlySession(s)
  BY <1>1 DEF OnlySession, TypeInv, TypeOK
<1>4. /\ result'[<<s, item[s] + 1>>] \in {"none", "Failed", "Error"}
      /\ \A p \in Op \ {<<s, item[s] + 1>>} : result'[p] = result[p]
  <2>1. result[<<s, item[s] + 1>>] = "none"
    BY <1>1 DEF DedupInv, SessionDedup
  <2>2. QED
    BY <1>2, <2>1 DEF TypeInv, TypeOK
<1>5. SessionDedup(s)'
  <2>1. SessionDedup(s)
    BY DEF DedupInv
  <2>2. \A p : Fresh(p) => Fresh(p)'
    BY SameDocs DEF DocsKept, Fresh
  <2>3. OpOf(s)' = <<s, item[s] + 1>> /\ Fresh(<<s, item[s] + 1>>)
    BY <1>1, <1>2, <2>1 DEF OpOf, SessionDedup
  <2>4. pc'[s] \in FreshPc => Fresh(OpOf(s))'
    BY <2>2, <2>3 DEF Fresh, Stored
  <2>5. ASSUME NEW j \in 1..BatchSize, j > item'[s]
        PROVE  result'[<<s, j>>] = "none" /\ Fresh(<<s, j>>)'
    <3>1. j > item[s] /\ j # item[s] + 1
      BY <1>1, <1>2, <2>5
    <3>2. <<s, j>> \in Op \ {<<s, item[s] + 1>>}
      BY <3>1 DEF Op
    <3>3. QED
      BY <1>4, <2>1, <2>2, <3>1, <3>2 DEF SessionDedup
  <2>6. QED
    BY <2>4, <2>5 DEF SessionDedup, OwnPc
<1>6. DocsAdded(<<s, item[s] + 1>>) /\ OnlyAnswer(<<s, item[s] + 1>>)
  BY <1>1, <1>4, SameDocs, KeptIsAdded DEF OnlyAnswer, TypeInv, TypeOK
<1>7. ASSUME NEW i \in 1..BatchSize, i = item[s] + 1 PROVE DedupInv'
  BY <1>3, <1>4, <1>5, <1>6, <1>7, DedupStep DEF AnswerOK
<1>8. QED
  BY <1>1, <1>7

(* The steps that begin an operation.                                       *)
Starts(s) ==
    \E t \in Texts : \/ \E k \in SourceTypes : StartIngest(s, t, k)
                     \/ StartReprocess(s, t)
                     \/ \E k \in RequestKinds : StartThrows(s, t, k)

Begins(s) ==
    /\ \E t \in Texts : \E k : Begin(s, t, k)
    /\ UNCHANGED <<docs, events>>
    /\ \/ /\ result' = result
          /\ pc'[s] = "extract" \/ (pc'[s] = "hasEvent" /\ s \notin Ingests)
       \/ /\ \E o \in {"Failed", "Error"} : result' = [result EXCEPT ![<<s, item[s] + 1>>] = o]
          /\ pc'[s] \in {"ready", "stopped"}
    /\ \A q \in Sessions \ {s} : pc'[q] = pc[q] /\ mem'[q] = mem[q] /\ local'[q] = local[q]

LEMMA StartFacts == ASSUME TypeInv, NEW s \in Sessions, Starts(s) PROVE Begins(s)
<1>1. ASSUME NEW t \in Texts, NEW k \in SourceTypes, StartIngest(s, t, k) PROVE Begins(s)
  <2>1. /\ Begin(s, t, k) /\ UNCHANGED <<docs, events, result, mem, local>> /\ Goto(s, "extract")
    BY <1>1 DEF StartIngest, ctxVars
  <2>2. QED
    BY <2>1 DEF Begins, Goto, TypeInv, TypeOK
<1>2. ASSUME NEW t \in Texts, StartReprocess(s, t) PROVE Begins(s)
  <2>1. /\ Begin(s, t, "Reprocess") /\ UNCHANGED <<docs, events, local>> /\ s \notin Ingests
        /\ pc[s] = "ready"
    BY <1>2, SessionsAssumption DEF StartReprocess, Begin, Ingests, dbVars
  <2>2. CASE Stored(t)
    <3>1. Goto(s, "hasEvent") /\ mem' = [mem EXCEPT ![s][t] = docs[t].status] /\ result' = result
      BY <1>2, <2>2 DEF StartReprocess
    <3>2. QED
      BY <2>1, <3>1 DEF Begins, Goto, TypeInv, TypeOK
  <2>3. CASE ~Stored(t)
    <3>1. UNCHANGED <<pc, mem>> /\ result' = [result EXCEPT ![<<s, 1>>] = "Failed"]
      BY <1>2, <2>3 DEF StartReprocess
    <3>2. item[s] + 1 = 1
      BY <1>2, <2>1, SessionsAssumption DEF Begin, Limit, Ingests, TypeInv, TypeOK
    <3>3. QED
      BY <2>1, <3>1, <3>2 DEF Begins
  <2>4. QED
    BY <2>2, <2>3
<1>3. ASSUME NEW t \in Texts, NEW k \in RequestKinds, StartThrows(s, t, k) PROVE Begins(s)
  <2>1. /\ Begin(s, t, k) /\ UNCHANGED <<docs, events, local>> /\ Goto(s, "stopped")
        /\ mem' = [mem EXCEPT ![s] = NoMem]
        /\ result' = [result EXCEPT ![<<s, item[s] + 1>>] = "Error"]
    BY <1>3 DEF StartThrows, dbVars
  <2>2. QED
    BY <2>1 DEF Begins, Goto, TypeInv, TypeOK
<1>4. QED
  BY <1>1, <1>2, <1>3 DEF Starts

LEMMA StartDedup == ASSUME TypeInv, DedupInv, NEW s \in Sessions, Starts(s) PROVE DedupInv'
<1>1. Begins(s)
  BY StartFacts
<1>2. PICK t, k : t \in Texts /\ Begin(s, t, k)
  BY <1>1 DEF Begins
<1>3. pc'[s] \in {"ready", "stopped", "extract", "hasEvent"} /\ (pc'[s] = "hasEvent" => s \notin Ingests)
  BY <1>1 DEF Begins
<1>4. QED
  BY <1>1, <1>2, <1>3, DedupBegin DEF Begins

(* The steps of an operation under way.                                     *)
LEMMA RewrittenKept ==
    ASSUME TypeInv, StatusInv, NEW s \in Sessions, Active(s), pc[s] \in TrackedPc,
           docs' = Rewritten(s, TextOf(s))
    PROVE  DocsKept
<1>1. ASSUME NEW d \in Texts, d \in Reachable(s, TextOf(s))
      PROVE  Stored(d) /\ Stored(d)' /\ docs'[d].rawFile = docs[d].rawFile
  <2>1. mem[s][d] # "untracked"
    BY <1>1 DEF TypeInv, SessionOK, Status, Reachable
  <2>2. Stored(d) /\ mem[s][d] \in Status
    BY <2>1 DEF StatusInv, SessionStatus, MemStored, TypeInv, TypeOK
  <2>3. docs'[d] = [docs[d] EXCEPT !.status = mem[s][d]] /\ docs[d] \in DocRow
    BY <1>1 DEF Rewritten, TypeInv, TypeOK
  <2>4. QED
    BY <2>2, <2>3 DEF DocRow, Stored, Status
<1>2. \A d \in Texts : d \notin Reachable(s, TextOf(s)) => docs'[d] = docs[d]
  BY DEF Rewritten
<1>3. QED
  BY <1>1, <1>2 DEF DocsKept, Stored

(* The steps that only move a session to another await.                     *)
Moves(s) ==
    \/ FindNew(s) \/ FindDuplicate(s) \/ ExtractionFails(s) \/ AddSource(s)
    \/ \E r \in sources : ReuseSource(s, r)
    \/ StoreConflict(s) \/ CompleteJob(s)
    \/ CountAttempts(s) \/ QueueAiJob(s) \/ AiAnswers(s) \/ AiFails(s) \/ EventConflict(s)
    \/ IngestThrows(s) \/ AiThrows(s)
    \/ CatchThrows(s) /\ pc[s] = "failAi" /\ s \in Ingests
    \/ RequestAnalysis(s) /\ TextOf(s) \notin events

LEMMA MoveFacts ==
    ASSUME TypeInv, NEW s \in Sessions, Moves(s)
    PROVE  /\ Active(s) /\ UNCHANGED <<item, req, result, docs, events>> /\ OnlySession(s)
           /\ \E label \in Pc :
                  /\ Goto(s, label)
                  /\ label \in OwnPc => pc[s] \in OwnPc \cup {"hasEvent"}
                  /\ label \in FreshPc => pc[s] \in FreshPc
                  /\ label = "duplicate" => Stored(TextOf(s))
                  /\ label # "hasEvent"
<1>1. Active(s) /\ UNCHANGED <<item, req, result, docs, events>>
  BY DEF Moves, FindNew, FindDuplicate, ExtractionFails, AddSource, ReuseSource, StoreConflict,
     CompleteJob, CountAttempts, QueueAiJob, AiAnswers, AiFails, EventConflict, IngestThrows,
     AiThrows, CatchThrows, RequestAnalysis, Active, dbVars
<1>2. PICK label \in Pc :
        /\ Goto(s, label)
        /\ label \in OwnPc => pc[s] \in OwnPc \cup {"hasEvent"}
        /\ label \in FreshPc => pc[s] \in FreshPc
        /\ label = "duplicate" => Stored(TextOf(s))
        /\ label # "hasEvent"
  BY DEF Moves, FindNew, FindDuplicate, ExtractionFails, AddSource, ReuseSource, StoreConflict,
     CompleteJob, CountAttempts, QueueAiJob, AiAnswers, AiFails, EventConflict, IngestThrows,
     AiThrows, CatchThrows, RequestAnalysis, OwnPc, FreshPc, Pc
<1>3. mem' = mem \/ \E m : mem' = [mem EXCEPT ![s] = m]
  BY DEF Moves, FindNew, FindDuplicate, ExtractionFails, AddSource, ReuseSource, StoreConflict,
     CompleteJob, CountAttempts, QueueAiJob, AiAnswers, AiFails, EventConflict, IngestThrows,
     AiThrows, CatchThrows, RequestAnalysis, ctxVars
<1>4. local' = local \/ \E r : local' = [local EXCEPT ![s] = r]
  BY DEF Moves, FindNew, FindDuplicate, ExtractionFails, AddSource, ReuseSource, StoreConflict,
     CompleteJob, CountAttempts, QueueAiJob, AiAnswers, AiFails, EventConflict, IngestThrows,
     AiThrows, CatchThrows, RequestAnalysis, ctxVars
<1>5. OnlySession(s)
  BY <1>1, <1>2, <1>3, <1>4 DEF OnlySession, Goto, TypeInv, TypeOK
<1>6. QED
  BY <1>1, <1>2, <1>5

LEMMA MoveDedup == ASSUME TypeInv, DedupInv, NEW s \in Sessions, Moves(s) PROVE DedupInv'
BY MoveFacts, SameDocs, DedupMove

LEMMA SaveEventFacts ==
    ASSUME TypeInv, StatusInv, NEW s \in Sessions, SaveEvent(s)
    PROVE  /\ Active(s) /\ Goto(s, "recalculate") /\ pc[s] \in OwnPc
           /\ UNCHANGED <<item, req, result>> /\ OnlySession(s)
           /\ TextOf(s) \in Texts /\ Stored(TextOf(s)) /\ DocsKept
<1>1. /\ Active(s) /\ Goto(s, "recalculate") /\ pc[s] \in OwnPc
      /\ UNCHANGED <<item, mem, local, req, result>>
  BY DEF SaveEvent, Active, OwnPc, ctxVars
<1>2. OnlySession(s)
  BY <1>1 DEF OnlySession, Goto, TypeInv, TypeOK
<1>3. TextOf(s) \in Texts /\ Stored(TextOf(s))
  <2>1. TextOf(s) \in Texts /\ mem[s][TextOf(s)] \in Status
    BY <1>1, Underway DEF SaveEvent, TypeInv, SessionOK, TrackedPc
  <2>2. QED
    BY <2>1 DEF StatusInv, SessionStatus, MemStored, Status
<1>4. DocsKept
  <2>1. docs' = docs \/ docs' = [docs EXCEPT ![TextOf(s)].status = "Completed"]
    BY DEF SaveEvent
  <2>2. docs \in [Texts -> DocRow]
    BY DEF TypeInv, TypeOK
  <2>3. QED
    BY <1>3, <2>1, <2>2 DEF DocsKept, DocRow, Stored
<1>5. QED
  BY <1>1, <1>2, <1>3, <1>4

LEMMA SaveEventDedup ==
    ASSUME TypeInv, StatusInv, DedupInv, NEW s \in Sessions, SaveEvent(s) PROVE DedupInv'
BY SaveEventFacts, DedupMove DEF Pc, FreshPc

LEMMA StoreDocumentFacts ==
    ASSUME TypeInv, NEW s \in Sessions, StoreDocument(s)
    PROVE  /\ Active(s) /\ Goto(s, "complete") /\ ~Stored(TextOf(s))
           /\ UNCHANGED <<item, req, result, events>> /\ OnlySession(s)
           /\ docs'[TextOf(s)].status = "AwaitingAi" /\ docs'[TextOf(s)].rawFile = OpOf(s)
           /\ \A t \in Texts \ {TextOf(s)} : docs'[t] = docs[t]
<1>1. /\ Active(s) /\ Goto(s, "complete") /\ ~Stored(TextOf(s))
      /\ mem' = [mem EXCEPT ![s][TextOf(s)] = "AwaitingAi"]
      /\ UNCHANGED <<item, local, req, result, events>>
  BY DEF StoreDocument, Active
<1>2. TextOf(s) \in Texts
  BY <1>1, Underway
<1>3. OnlySession(s)
  BY <1>1 DEF OnlySession, Goto, TypeInv, TypeOK
<1>4. docs' = [docs EXCEPT ![TextOf(s)] = [status |-> "AwaitingAi", source |-> local[s].row,
                                           rawFile |-> OpOf(s)]]
  BY DEF StoreDocument
<1>5. /\ docs'[TextOf(s)].status = "AwaitingAi" /\ docs'[TextOf(s)].rawFile = OpOf(s)
      /\ \A t \in Texts \ {TextOf(s)} : docs'[t] = docs[t]
  BY <1>2, <1>4 DEF TypeInv, TypeOK
<1>6. QED
  BY <1>1, <1>3, <1>5

LEMMA StoreDocumentDedup ==
    ASSUME TypeInv, DedupInv, NEW s \in Sessions, StoreDocument(s) PROVE DedupInv'
<1>1. /\ Active(s) /\ Goto(s, "complete") /\ ~Stored(TextOf(s))
      /\ UNCHANGED <<item, req, result>>
  BY StoreDocumentFacts
<1>2. item[s] \in 1..BatchSize /\ OpOf(s) \in Op /\ TextOf(s) \in Texts
  BY <1>1, Underway
<1>3. OnlySession(s)
  BY StoreDocumentFacts
<1>4. /\ docs'[TextOf(s)].status = "AwaitingAi" /\ docs'[TextOf(s)].rawFile = OpOf(s)
      /\ \A t \in Texts \ {TextOf(s)} : docs'[t] = docs[t]
  BY StoreDocumentFacts
<1>5. DocsAdded(<<s, item[s]>>) /\ OnlyAnswer(<<s, item[s]>>)
  BY <1>1, <1>4 DEF DocsAdded, OnlyAnswer, Stored, OpOf
<1>6. pc'[s] = "complete" /\ OpOf(s)' = OpOf(s) /\ TextOf(s)' = TextOf(s)
  BY <1>1 DEF Goto, TypeInv, TypeOK, OpOf, TextOf
<1>7. Owns(OpOf(s))'
  BY <1>4, <1>6 DEF Owns, Stored, TextOf
<1>8. AnswerOK(OpOf(s))'
  <2>1. result[OpOf(s)] # "Duplicate" \/ ~IngestOp(OpOf(s))
    BY <1>1, <1>2 DEF DedupInv, AnswerOK, TextOf
  <2>2. QED
    BY <1>1, <1>6, <1>7, <2>1 DEF AnswerOK, IngestOp
<1>9. SessionDedup(s)'
  <2>1. ASSUME NEW j \in 1..BatchSize, j > item'[s]
        PROVE  result'[<<s, j>>] = "none" /\ Fresh(<<s, j>>)'
    <3>1. result[<<s, j>>] = "none" /\ Fresh(<<s, j>>)
      BY <1>1, <2>1 DEF DedupInv, SessionDedup
    <3>2. <<s, j>> # <<s, item[s]>>
      BY <1>1, <1>2, <2>1
    <3>3. QED
      BY <1>1, <1>5, <3>1, <3>2, FreshKept
  <2>2. QED
    BY <1>6, <1>7, <2>1 DEF SessionDedup, FreshPc
<1>10. QED
  BY <1>1, <1>2, <1>3, <1>5, <1>8, <1>9, DedupStep DEF OpOf

(* The steps that end an operation.                                         *)
Finishes(s) ==
    \/ AnswerDuplicate(s) \/ RecordFailure(s) \/ RecordLinkedFailure(s)
    \/ Recalculate(s) \/ RecordAiFailure(s) \/ ReprocessThrows(s)
    \/ RequestAnalysis(s) /\ TextOf(s) \in events
    \/ CatchThrows(s) /\ ~(pc[s] = "failAi" /\ s \in Ingests)

LEMMA FinishFacts ==
    ASSUME TypeInv, StatusInv, NEW s \in Sessions, Finishes(s)
    PROVE  /\ Active(s) /\ UNCHANGED <<item, req, events>> /\ DocsKept
           /\ \E o, m, k : /\ Finish(s, o, m, k)
                           /\ o = "Created" => pc[s] \in OwnPc
                           /\ o = "Duplicate" => pc[s] \in {"duplicate", "hasEvent"}
<1>1. Active(s) /\ UNCHANGED <<item, req, events>>
  BY DEF Finishes, AnswerDuplicate, RecordFailure, RecordLinkedFailure, Recalculate, RecordAiFailure,
     ReprocessThrows, RequestAnalysis, CatchThrows, Active, dbVars
<1>2. PICK o, m, k :
        /\ Finish(s, o, m, k)
        /\ o = "Created" => pc[s] \in OwnPc
        /\ o = "Duplicate" => pc[s] \in {"duplicate", "hasEvent"}
  BY DEF Finishes, AnswerDuplicate, RecordFailure, RecordLinkedFailure, Recalculate,
     RecordAiFailure, ReprocessThrows, RequestAnalysis, CatchThrows, FinishAi, OwnPc
<1>3. docs' = docs \/ (docs' = Rewritten(s, TextOf(s)) /\ pc[s] \in TrackedPc)
  BY DEF Finishes, AnswerDuplicate, RecordFailure, RecordLinkedFailure, Recalculate,
     RecordAiFailure, ReprocessThrows, RequestAnalysis, CatchThrows, TrackedPc, dbVars
<1>4. DocsKept
  BY <1>1, <1>3, SameDocs, RewrittenKept
<1>5. QED
  BY <1>1, <1>2, <1>4

LEMMA FinishDedup ==
    ASSUME TypeInv, StatusInv, DedupInv, NEW s \in Sessions, Finishes(s) PROVE DedupInv'
BY FinishFacts, DedupFinish

(* Every step is a start, a move, an end, one of the two writes, a crash or  *)
(* a stutter.                                                               *)
LEMMA StepKinds ==
    ASSUME [Next]_vars
    PROVE  \/ \E s \in Sessions : \/ Starts(s) \/ Moves(s) \/ Finishes(s)
                                  \/ StoreDocument(s) \/ SaveEvent(s)
           \/ \E h \in {"api", "worker"} : Crash(h)
           \/ UNCHANGED vars
<1>1. ASSUME NEW s \in Sessions, Start(s) PROVE Starts(s)
  BY <1>1 DEF Start, Starts
<1>2. ASSUME NEW s \in Sessions, Continue(s)
      PROVE  Moves(s) \/ Finishes(s) \/ StoreDocument(s) \/ SaveEvent(s)
  BY <1>2 DEF Continue, Moves, Finishes
<1>3. ASSUME NEW s \in Sessions, Disturb(s) PROVE Starts(s) \/ Moves(s) \/ Finishes(s)
  BY <1>3 DEF Disturb, Starts, Moves, Finishes
<1>4. QED
  BY <1>1, <1>2, <1>3 DEF Next, Quiet

LEMMA CrashDedup == ASSUME TypeInv, DedupInv, NEW h, Crash(h) PROVE DedupInv'
<1>1. PICK lost \in SUBSET Sessions :
        pc' = [s \in Sessions |-> IF s \in lost THEN "stopped" ELSE pc[s]]
  BY DEF Crash
<1>2. UNCHANGED <<item, req, docs, result>>
  BY DEF Crash, dbVars
<1>3. \A op \in Op : AnswerOK(op)'
  BY <1>2 DEF DedupInv, AnswerOK, IngestOp, Owns, Stored
<1>4. ASSUME NEW s \in Sessions PROVE SessionDedup(s)'
  <2>1. SessionDedup(s)
    BY DEF DedupInv
  <2>2. pc'[s] \in {pc[s], "stopped"}
    BY <1>1
  <2>3. QED
    BY <1>2, <2>1, <2>2 DEF SessionDedup, Owns, Fresh, Stored, TextOf, OpOf, OwnPc, FreshPc
<1>5. QED
  BY <1>3, <1>4 DEF DedupInv

LEMMA NextDedupInv == TypeInv /\ StatusInv /\ DedupInv /\ [Next]_vars => DedupInv'
<1> SUFFICES ASSUME TypeInv, StatusInv, DedupInv, [Next]_vars PROVE DedupInv'
  OBVIOUS
<1>1. CASE UNCHANGED vars
  BY <1>1 DEF vars, dbVars, sessVars, ctxVars, DedupInv, AnswerOK, IngestOp, SessionDedup, Owns,
     Fresh, Stored, OpOf, TextOf
<1>2. QED
  BY <1>1, StepKinds, StartDedup, MoveDedup, FinishDedup, StoreDocumentDedup, SaveEventDedup,
     CrashDedup

(* Two ingestions of one text are never both answered Created, and none is   *)
(* answered Duplicate because of the document it stored itself: the raw file *)
(* of a stored document is named by the first ingestion to commit and is     *)
(* rewritten by no failure.                                                 *)
THEOREM IngestionDeduplicates == Spec => []CreatedOnce
<1>1. DedupInv => CreatedOnce
  BY DEF DedupInv, AnswerOK, CreatedOnce, Owns, Stored
<1>2. Spec => [](TypeInv /\ StatusInv /\ DedupInv)
  BY InitTypeInv, NextTypeInv, InitStatusInv, NextStatusInv, InitDedupInv, NextDedupInv, PTL DEF Spec
<1>3. QED
  BY <1>1, <1>2, PTL

-----------------------------------------------------------------------------
(* A stored document names a raw file and an unknown text none; an operation *)
(* under way has not been answered.                                         *)
RowsOwned == \A t \in Texts : IF Stored(t) THEN docs[t].rawFile \in Op ELSE docs[t].rawFile = None
Pending(s) == Active(s) => result[OpOf(s)] = "none"
LedgerInv == RowsOwned /\ \A s \in Sessions : Pending(s)

Invariants == TypeInv /\ StatusInv /\ DedupInv /\ LedgerInv

(* An operation's line in the ledger.                                       *)
Answer(op) == IF IngestOp(op) /\ result[op] \in {"Created", "Duplicate"}
              THEN [outcome |-> result[op], text |-> req[op].text]
              ELSE [outcome |-> "none", text |-> None]

LEMMA InitLedgerInv == Init => LedgerInv
BY DEF Init, LedgerInv, RowsOwned, Pending, Stored, NoDoc, Active

LEMMA LedgerStep ==
    ASSUME TypeInv, LedgerInv, NEW s \in Sessions, NEW i \in 1..BatchSize,
           OnlySession(s), OnlyAnswer(<<s, i>>), RowsOwned', Pending(s)'
    PROVE  LedgerInv'
<1>1. ASSUME NEW q \in Sessions, q # s PROVE Pending(q)'
  <2>1. pc'[q] = pc[q] /\ item'[q] = item[q]
    BY <1>1 DEF OnlySession
  <2>2. Active(q) => OpOf(q) \in Op /\ OpOf(q) # <<s, i>>
    BY <1>1, Underway DEF OpOf
  <2>3. QED
    BY <2>1, <2>2 DEF LedgerInv, Pending, Active, OpOf, OnlyAnswer
<1>2. QED
  BY <1>1 DEF LedgerInv

LEMMA RowsKept == ASSUME RowsOwned, DocsKept PROVE RowsOwned' /\ LedgerOwner' = LedgerOwner
BY DEF RowsOwned, DocsKept, LedgerOwner, Stored

LEMMA AnswersAre == LedgerAnswers = [op \in Op |-> Answer(op)]
BY DEF LedgerAnswers, Answer

LEMMA AnswersSame ==
    ASSUME \A op \in Op : Answer(op)' = Answer(op)
    PROVE  LedgerAnswers' = LedgerAnswers
BY DEF LedgerAnswers, Answer

LEMMA AnswerStays ==
    ASSUME NEW p, req'[p] = req[p], result'[p] = result[p]
    PROVE  Answer(p)' = Answer(p)
BY DEF Answer, IngestOp

(* The steps that begin an operation and those that only move a session.    *)
LEMMA StartLedger ==
    ASSUME Invariants, NEW s \in Sessions, Starts(s)
    PROVE  LedgerInv' /\ UNCHANGED Ledger!ledger
<1>1. Begins(s) /\ TypeInv /\ LedgerInv /\ DedupInv
  BY StartFacts DEF Invariants
<1>2. PICK t, k : t \in Texts /\ Begin(s, t, k)
  BY <1>1 DEF Begins
<1>3. /\ item[s] \in Nat /\ item[s] + 1 \in 1..BatchSize /\ item[s] + 1 > item[s]
      /\ item' = [item EXCEPT ![s] = item[s] + 1]
      /\ req' = [req EXCEPT ![<<s, item[s] + 1>>] = [text |-> t, kind |-> k]]
  BY <1>1, <1>2, BoundsAssumption DEF Begin, Limit, TypeInv, TypeOK
<1>4. PICK op : op = <<s, item[s] + 1>>
  OBVIOUS
<1>5. op \in Op /\ result[op] = "none" /\ OpOf(s)' = op
  BY <1>1, <1>3, <1>4 DEF Op, DedupInv, SessionDedup, TypeInv, TypeOK, OpOf
<1>6. /\ OnlySession(s)
      /\ \A p \in Op \ {op} : req'[p] = req[p]
  BY <1>1, <1>3, <1>4 DEF Begins, OnlySession, TypeInv, TypeOK
<1>7. /\ result'[op] \in {"none", "Failed", "Error"}
      /\ \A p \in Op \ {op} : result'[p] = result[p]
      /\ result' = result \/ pc'[s] \in {"ready", "stopped"}
  BY <1>1, <1>4, <1>5 DEF Begins, TypeInv, TypeOK
<1>8. RowsOwned' /\ LedgerOwner' = LedgerOwner
  BY <1>1, SameDocs, RowsKept DEF Begins, LedgerInv
<1>9. LedgerInv'
  <2>1. Pending(s)'
    BY <1>5, <1>7 DEF Pending, Active
  <2>2. OnlyAnswer(<<s, item[s] + 1>>)
    BY <1>4, <1>6, <1>7 DEF OnlyAnswer
  <2>3. QED
    BY <1>1, <1>3, <1>6, <1>8, <2>1, <2>2, LedgerStep
<1>10. LedgerAnswers' = LedgerAnswers
  <2>1. ASSUME NEW p \in Op PROVE Answer(p)' = Answer(p)
    <3>1. CASE p = op
      BY <1>5, <1>7, <3>1 DEF Answer
    <3>2. CASE p # op
      BY <1>6, <1>7, <3>2, AnswerStays
    <3>3. QED
      BY <3>1, <3>2
  <2>2. QED
    BY <2>1, AnswersSame
<1>11. QED
  BY <1>1, <1>8, <1>9, <1>10 DEF Begins, Ledger!ledger

LEMMA MoveLedger ==
    ASSUME Invariants, NEW s \in Sessions, Active(s), DocsKept, OnlySession(s),
           UNCHANGED <<item, req, result>>
    PROVE  LedgerInv' /\ LedgerOwner' = LedgerOwner /\ LedgerAnswers' = LedgerAnswers
<1>1. TypeInv /\ LedgerInv /\ item[s] \in 1..BatchSize
  BY Underway DEF Invariants
<1>2. RowsOwned' /\ LedgerOwner' = LedgerOwner
  BY <1>1, RowsKept DEF LedgerInv
<1>3. Pending(s)' /\ OnlyAnswer(<<s, item[s]>>)
  BY <1>1 DEF LedgerInv, Pending, OpOf, OnlyAnswer
<1>4. LedgerAnswers' = LedgerAnswers
  BY AnswerStays, AnswersSame
<1>5. QED
  BY <1>1, <1>2, <1>3, <1>4, LedgerStep

(* The end of an operation tells its answer.                                *)
LEMMA FinishLedger ==
    ASSUME Invariants, NEW s \in Sessions, Finishes(s)
    PROVE  LedgerInv' /\ [Ledger!LedgerNext]_(Ledger!ledger)
<1> DEFINE t == TextOf(s)
<1>1. /\ TypeInv /\ StatusInv /\ DedupInv /\ LedgerInv
      /\ Active(s) /\ UNCHANGED <<item, req, events>> /\ DocsKept
  BY FinishFacts DEF Invariants
<1>2. PICK o, m, k :
        /\ Finish(s, o, m, k)
        /\ o = "Created" => pc[s] \in OwnPc
        /\ o = "Duplicate" => pc[s] \in {"duplicate", "hasEvent"}
  BY <1>1, FinishFacts
<1>3. item[s] \in 1..BatchSize /\ t \in Texts
  BY <1>1, Underway
<1>4. PICK op \in Op : op = OpOf(s)
  BY <1>1, Underway
<1>5. /\ result[op] = "none" /\ result'[op] = o /\ pc'[s] \in {"ready", "stopped"}
      /\ \A p \in Op \ {op} : req'[p] = req[p] /\ result'[p] = result[p]
  <2>1. result' = [result EXCEPT ![op] = o] /\ pc'[s] \in {"ready", "stopped"}
    BY <1>1, <1>2, <1>4 DEF Finish, TypeInv, TypeOK
  <2>2. QED
    BY <1>1, <1>4, <2>1 DEF TypeInv, TypeOK, LedgerInv, Pending
<1>6. RowsOwned' /\ LedgerOwner' = LedgerOwner
  BY <1>1, RowsKept DEF LedgerInv
<1>7. LedgerInv'
  <2>1. OnlySession(s) /\ OnlyAnswer(<<s, item[s]>>) /\ Pending(s)'
    BY <1>1, <1>2, <1>4, <1>5 DEF OnlySession, Finish, TypeInv, TypeOK, OnlyAnswer, Pending, Active,
       OpOf
  <2>2. QED
    BY <1>1, <1>3, <1>6, <2>1, LedgerStep
<1>8. CASE ~(IngestOp(op) /\ o \in {"Created", "Duplicate"})
  <2>1. Answer(op)' = Answer(op)
    BY <1>1, <1>5, <1>8 DEF Answer, IngestOp
  <2>2. LedgerAnswers' = LedgerAnswers
    BY <1>5, <2>1, AnswerStays, AnswersSame
  <2>3. QED
    BY <1>1, <1>6, <1>7, <2>2 DEF Ledger!ledger
<1>9. CASE IngestOp(op) /\ o \in {"Created", "Duplicate"}
  <2>1. s \in Ingests /\ SessionDedup(s)
    BY <1>1, <1>3, <1>4, <1>9 DEF IngestOp, TypeInv, SessionOK, KindOf, DedupInv
  <2>2. Answer(op) = Ledger!Untold /\ Answer(op)' = [outcome |-> o, text |-> t]
    BY <1>1, <1>4, <1>5, <1>9 DEF Answer, Ledger!Untold, IngestOp, TextOf
  <2>3. LedgerAnswers[op] = Ledger!Untold
        /\ LedgerAnswers' = [LedgerAnswers EXCEPT ![op] = [outcome |-> o, text |-> t]]
    <3>1. LedgerAnswers' = [p \in Op |-> IF p = op THEN [outcome |-> o, text |-> t] ELSE Answer(p)]
      <4>1. \A p \in Op : Answer(p)' = IF p = op THEN [outcome |-> o, text |-> t] ELSE Answer(p)
        BY <1>5, <2>2, AnswerStays
      <4>2. LedgerAnswers' = [p \in Op |-> Answer(p)']
        BY DEF LedgerAnswers, Answer
      <4>3. QED
        BY <4>1, <4>2
    <3>2. QED
      BY <2>2, <3>1, AnswersAre
  <2>4. LedgerOwner[t] = docs[t].rawFile
    BY <1>3 DEF LedgerOwner
  <2>5. CASE o = "Created"
    <3>1. docs[t].rawFile = op
      BY <1>2, <1>4, <2>1, <2>5 DEF SessionDedup, Owns, TextOf
    <3>2. Ledger!TellCreated(op, t)
      BY <1>1, <1>6, <2>3, <2>4, <2>5, <3>1 DEF Ledger!TellCreated
    <3>3. QED
      BY <1>3, <1>7, <3>2 DEF Ledger!LedgerNext
  <2>6. CASE o = "Duplicate"
    <3>1. pc[s] = "duplicate" /\ Stored(t)
      BY <1>2, <2>1, <2>6 DEF SessionDedup
    <3>2. docs[t].rawFile \in Op /\ docs[t].rawFile # op
      BY <1>1, <1>3, <1>4, <2>1, <3>1 DEF SessionDedup, FreshPc, Fresh, LedgerInv, RowsOwned
    <3>3. docs[t].rawFile \notin {None, op}
      BY <3>2, SessionsAssumption
    <3>4. Ledger!TellDuplicate(op, t)
      BY <1>1, <1>6, <2>3, <2>4, <2>6, <3>3 DEF Ledger!TellDuplicate
    <3>5. QED
      BY <1>3, <1>7, <3>4 DEF Ledger!LedgerNext
  <2>7. QED
    BY <1>9, <2>5, <2>6
<1>10. QED
  BY <1>8, <1>9

(* The transaction that stores a document registers its text.               *)
LEMMA StoreLedger ==
    ASSUME Invariants, NEW s \in Sessions, StoreDocument(s)
    PROVE  LedgerInv' /\ [Ledger!LedgerNext]_(Ledger!ledger)
<1> DEFINE t == TextOf(s)
<1>1. /\ Active(s) /\ ~Stored(t) /\ UNCHANGED <<item, req, result, events>> /\ OnlySession(s)
      /\ docs'[t].status = "AwaitingAi" /\ docs'[t].rawFile = OpOf(s)
      /\ \A d \in Texts \ {t} : docs'[d] = docs[d]
      /\ TypeInv /\ LedgerInv
  BY StoreDocumentFacts DEF Invariants
<1>2. item[s] \in 1..BatchSize /\ t \in Texts /\ OpOf(s) \in Op
  BY <1>1, Underway
<1>3. RowsOwned'
  BY <1>1, <1>2 DEF LedgerInv, RowsOwned, Stored
<1>4. LedgerInv'
  <2>1. OnlyAnswer(<<s, item[s]>>) /\ Pending(s)'
    BY <1>1 DEF OnlyAnswer, LedgerInv, Pending, OpOf
  <2>2. QED
    BY <1>1, <1>2, <1>3, <2>1, LedgerStep
<1>5. LedgerAnswers' = LedgerAnswers
  BY <1>1, AnswerStays, AnswersSame
<1>6. LedgerOwner[t] = None /\ LedgerOwner' = [LedgerOwner EXCEPT ![t] = OpOf(s)]
  BY <1>1, <1>2 DEF LedgerOwner, LedgerInv, RowsOwned
<1>7. Ledger!Register(OpOf(s), t)
  BY <1>1, <1>5, <1>6 DEF Ledger!Register
<1>8. QED
  BY <1>2, <1>4, <1>7 DEF Ledger!LedgerNext

(* The transaction that stores an event puts the analysis on record.        *)
LEMMA SaveLedger ==
    ASSUME Invariants, NEW s \in Sessions, SaveEvent(s)
    PROVE  LedgerInv' /\ [Ledger!LedgerNext]_(Ledger!ledger)
<1> DEFINE t == TextOf(s)
<1>1. /\ Active(s) /\ UNCHANGED <<item, req, result>> /\ OnlySession(s)
      /\ t \in Texts /\ Stored(t) /\ DocsKept
  BY SaveEventFacts DEF Invariants
<1>2. LedgerInv' /\ LedgerOwner' = LedgerOwner /\ LedgerAnswers' = LedgerAnswers
  BY <1>1, MoveLedger
<1>3. LedgerOwner[t] # None
  BY <1>1, SessionsAssumption DEF Invariants, LedgerInv, RowsOwned, LedgerOwner
<1>4. t \notin events /\ events' = events \cup {t}
  BY DEF SaveEvent
<1>5. Ledger!Analyse(t)
  BY <1>2, <1>3, <1>4 DEF Ledger!Analyse
<1>6. QED
  BY <1>1, <1>2, <1>5 DEF Ledger!LedgerNext

LEMMA CrashLedger ==
    ASSUME Invariants, NEW h, Crash(h)
    PROVE  LedgerInv' /\ UNCHANGED Ledger!ledger
<1>1. UNCHANGED <<item, req, docs, events, result>>
  BY DEF Crash, dbVars
<1>2. ASSUME NEW s \in Sessions PROVE Pending(s)'
  <2>1. pc'[s] \in {pc[s], "stopped"}
    BY DEF Crash
  <2>2. QED
    BY <1>1, <2>1 DEF Invariants, LedgerInv, Pending, Active, OpOf
<1>3. RowsOwned' /\ LedgerOwner' = LedgerOwner
  BY <1>1, SameDocs, RowsKept DEF Invariants, LedgerInv
<1>4. LedgerAnswers' = LedgerAnswers
  BY <1>1, AnswerStays, AnswersSame
<1>5. QED
  BY <1>1, <1>2, <1>3, <1>4 DEF LedgerInv, Ledger!ledger

LEMMA NextLedger ==
    Invariants /\ [Next]_vars => LedgerInv' /\ [Ledger!LedgerNext]_(Ledger!ledger)
<1> SUFFICES ASSUME Invariants, [Next]_vars
             PROVE  LedgerInv' /\ [Ledger!LedgerNext]_(Ledger!ledger)
  OBVIOUS
<1>1. ASSUME NEW s \in Sessions, Moves(s) PROVE LedgerInv' /\ UNCHANGED Ledger!ledger
  <2>1. /\ Active(s) /\ UNCHANGED <<item, req, result, docs, events>> /\ OnlySession(s)
    BY <1>1, MoveFacts DEF Invariants
  <2>2. QED
    BY <2>1, SameDocs, MoveLedger DEF Ledger!ledger
<1>2. ASSUME UNCHANGED vars PROVE LedgerInv' /\ UNCHANGED Ledger!ledger
  <2>1. UNCHANGED <<pc, item, req, docs, events, result>>
    BY <1>2 DEF vars, dbVars, sessVars
  <2>2. LedgerInv'
    BY <2>1 DEF Invariants, LedgerInv, RowsOwned, Pending, Stored, Active, OpOf
  <2>3. UNCHANGED Ledger!ledger
    BY <2>1 DEF Ledger!ledger, LedgerOwner, LedgerAnswers, IngestOp
  <2>4. QED
    BY <2>2, <2>3
<1>3. QED
  BY <1>1, <1>2, StepKinds, StartLedger, FinishLedger, StoreLedger, SaveLedger, CrashLedger

(* The pipeline implements the ledger, whatever its sessions interleave, its *)
(* saves fail and its processes crash: a text is registered at most once and *)
(* analysed at most once, neither is ever withdrawn, and Created and         *)
(* Duplicate are told only when the ledger justifies them.                  *)
THEOREM PipelineImplementsLedger == Spec => ImplementsLedger
<1>1. Init => Ledger!LedgerInit
  BY DEF Init, Ledger!LedgerInit, LedgerOwner, LedgerAnswers, IngestOp, NoDoc, Ledger!Untold
<1>2. Init => Invariants
  BY InitTypeInv, InitStatusInv, InitDedupInv, InitLedgerInv DEF Invariants
<1>3. Invariants /\ [Next]_vars => Invariants'
  BY NextTypeInv, NextStatusInv, NextDedupInv, NextLedger DEF Invariants
<1>4. Invariants /\ [Next]_vars => [Ledger!LedgerNext]_(Ledger!ledger)
  BY NextLedger
<1>5. QED
  BY <1>1, <1>2, <1>3, <1>4, PTL DEF Spec, ImplementsLedger, Ledger!LedgerSpec

-----------------------------------------------------------------------------
(* Proofs that the job table, the raw files and the call logs tell the     *)
(* truth about the pipeline, for any number of sessions, faults and        *)
(* crashes.                                                                *)

(* The awaits before an operation's AI job is inserted, and those at which  *)
(* its ingestion job, if it has one, is no longer Running.                  *)
UnqueuedPc == {"extract", "duplicate", "source", "store", "complete", "fail",
               "hasEvent", "count", "queueAi"}
SettledPc  == {"hasEvent", "count", "queueAi"} \cup AiPc

(* What the await a session stands at says of its operation, and that the   *)
(* operations to come have left no trace.                                   *)
AtAwait(s) ==
    /\ pc[s] \in UnqueuedPc => aiJobs[OpOf(s)] = NoJob
    /\ pc[s] \in SettledPc => ingestJobs[OpOf(s)].status # "Running"
    /\ pc[s] \in {"source", "store"} => OpOf(s) \in files
    /\ pc[s] = "hasEvent" => OpOf(s) \notin files
    /\ pc[s] = "recalculate" => aiJobs[OpOf(s)].status = "Succeeded"
    /\ pc[s] = "failLinked" => faults # 0
Untouched(op)  == ingestJobs[op] = NoJob /\ aiJobs[op] = NoJob /\ op \notin files
ToCome(s)      == \A i \in 1..BatchSize : i > item[s] => Untouched(<<s, i>>)
SessionJobs(s) == AtAwait(s) /\ ToCome(s)

(* The invariants of an operation, one for each property.                   *)
Delivered(op) ==
    /\ ingestJobs[op].status = "Succeeded" => /\ ingestJobs[op].doc \in Texts
                                              /\ Stored(ingestJobs[op].doc)
    /\ aiJobs[op].status = "Succeeded" => /\ aiJobs[op].doc \in events
                                          /\ result[op] = "Created" => aiJobs[op].doc \in impacts
Settled(op) ==
    faults = 0 /\ crashes = 0 /\ result[op] # "none" =>
        ingestJobs[op].status # "Running" /\ aiJobs[op].status # "Running"
FileOK(op)  == op \in files => result[op] # "Duplicate"
OpOK(op)    == Delivered(op) /\ Settled(op) /\ FileOK(op)
RawOnDisk   == \A t \in Texts : Stored(t) => docs[t].rawFile \in files

JobsInv  == RawOnDisk /\ (\A op \in Op : OpOK(op)) /\ \A s \in Sessions : SessionJobs(s)
JobState == Invariants /\ JobsInv

(* A step touches the traces of one operation of s alone, and what it adds   *)
(* to the tables and to the counts of disturbances stays.                   *)
OnlyFile(op) == \A p \in Op \ {op} : p \in files' <=> p \in files
Grows ==
    /\ \A t \in Texts : Stored(t) => Stored(t)'
    /\ events \subseteq events' /\ impacts \subseteq impacts'
    /\ faults # 0 => faults' # 0
    /\ crashes # 0 => crashes' # 0
OwnStep(s, i) ==
    OnlySession(s) /\ OnlyJob(s, i) /\ OnlyAnswer(<<s, i>>) /\ OnlyFile(<<s, i>>) /\ Grows

LEMMA InitJobsInv == Init => JobsInv
<1> SUFFICES ASSUME Init PROVE JobsInv
  OBVIOUS
<1>1. RawOnDisk
  BY DEF Init, RawOnDisk, Stored, NoDoc
<1>2. \A op \in Op : OpOK(op)
  BY DEF Init, OpOK, Delivered, Settled, FileOK, NoJob
<1>3. ASSUME NEW s \in Sessions PROVE SessionJobs(s)
  BY DEF Init, SessionJobs, AtAwait, ToCome, Untouched, UnqueuedPc, SettledPc, AiPc, Op
<1>4. QED
  BY <1>1, <1>2, <1>3 DEF JobsInv

LEMMA OpsOfOthers ==
    ASSUME JobState, NEW s \in Sessions, NEW i \in 1..BatchSize, OwnStep(s, i),
           NEW p \in Op, p # <<s, i>>
    PROVE  OpOK(p)'
<1>1. OpOK(p)
  BY DEF JobState, JobsInv
<1>2. /\ ingestJobs'[p] = ingestJobs[p] /\ aiJobs'[p] = aiJobs[p]
      /\ result'[p] = result[p] /\ (p \in files' <=> p \in files)
  BY DEF OwnStep, OnlyJob, OnlyAnswer, OnlyFile
<1>3. Delivered(p)'
  BY <1>1, <1>2 DEF OpOK, Delivered, OwnStep, Grows
<1>4. Settled(p)' /\ FileOK(p)'
  BY <1>1, <1>2 DEF OpOK, Settled, FileOK, OwnStep, Grows
<1>5. QED
  BY <1>3, <1>4 DEF OpOK

LEMMA JobsOfOthers ==
    ASSUME JobState, NEW s \in Sessions, NEW i \in 1..BatchSize, OwnStep(s, i),
           NEW q \in Sessions, q # s
    PROVE  SessionJobs(q)'
<1>1. SessionJobs(q) /\ pc'[q] = pc[q] /\ item'[q] = item[q] /\ OpOf(q)' = OpOf(q)
  BY DEF JobState, JobsInv, OwnStep, OnlySession, OpOf
<1>2. \A j \in 1..BatchSize : /\ ingestJobs'[<<q, j>>] = ingestJobs[<<q, j>>]
                              /\ aiJobs'[<<q, j>>] = aiJobs[<<q, j>>]
                              /\ <<q, j>> \in files' <=> <<q, j>> \in files
  BY DEF OwnStep, OnlyJob, OnlyFile, Op
<1>3. Active(q) => OpOf(q) = <<q, item[q]>> /\ item[q] \in 1..BatchSize
  BY Underway DEF JobState, Invariants, OpOf
<1>4. AtAwait(q)'
  <2>1. CASE Active(q)
    BY <1>1, <1>2, <1>3, <2>1 DEF SessionJobs, AtAwait, OwnStep, Grows
  <2>2. CASE ~Active(q)
    BY <1>1, <2>2 DEF AtAwait, Active, UnqueuedPc, SettledPc, AiPc
  <2>3. QED
    BY <2>1, <2>2
<1>5. ToCome(q)'
  BY <1>1, <1>2 DEF SessionJobs, ToCome, Untouched
<1>6. QED
  BY <1>4, <1>5 DEF SessionJobs

LEMMA JobStep ==
    ASSUME JobState, NEW s \in Sessions, NEW i \in 1..BatchSize, OwnStep(s, i),
           RawOnDisk', OpOK(<<s, i>>)', SessionJobs(s)'
    PROVE  JobsInv'
BY OpsOfOthers, JobsOfOthers DEF JobsInv

(* The operations to come stay untouched.                                   *)
LEMMA ToComeKept ==
    ASSUME TypeInv, NEW s \in Sessions, NEW i \in 1..BatchSize, OnlyJob(s, i), OnlyFile(<<s, i>>),
           ToCome(s), item'[s] \in 0..BatchSize, i <= item'[s], item[s] <= item'[s]
    PROVE  ToCome(s)'
<1>1. ASSUME NEW j \in 1..BatchSize, j > item'[s] PROVE Untouched(<<s, j>>)'
  <2>1. j > item[s] /\ j # i
    BY <1>1 DEF TypeInv, TypeOK
  <2>2. <<s, j>> \in Op \ {<<s, i>>} /\ Untouched(<<s, j>>)
    BY <2>1 DEF ToCome, Op
  <2>3. QED
    BY <2>2 DEF Untouched, OnlyJob, OnlyFile
<1>2. QED
  BY <1>1 DEF ToCome

(* Raw files stay on disk when none that a document names is deleted and no  *)
(* document is stored.                                                      *)
LEMMA FilesKept ==
    ASSUME JobState, NEW op, DocsKept, OnlyFile(op),
           op \in files' \/ op \notin files \/ Fresh(op)
    PROVE  RawOnDisk'
<1>1. ASSUME NEW t \in Texts, Stored(t)' PROVE docs'[t].rawFile \in files'
  <2>1. Stored(t) /\ docs'[t].rawFile = docs[t].rawFile
    BY <1>1 DEF DocsKept
  <2>2. docs[t].rawFile \in files /\ docs[t].rawFile \in Op
    BY <2>1 DEF JobState, JobsInv, RawOnDisk, Invariants, LedgerInv, RowsOwned
  <2>3. QED
    BY <2>1, <2>2 DEF OnlyFile, Fresh
<1>2. QED
  BY <1>1 DEF RawOnDisk

(* A step to another await.                                                 *)
LEMMA JobMove ==
    ASSUME JobState, NEW s \in Sessions, Active(s), OwnStep(s, item[s]), RawOnDisk',
           UNCHANGED <<item, result>>, AtAwait(s)', Delivered(OpOf(s))'
    PROVE  JobsInv'
<1>1. item[s] \in 1..BatchSize /\ OpOf(s) = <<s, item[s]>> /\ OpOf(s) \in Op
  BY Underway DEF JobState, Invariants, OpOf
<1>2. result'[OpOf(s)] = "none"
  BY DEF JobState, Invariants, LedgerInv, Pending
<1>3. ToCome(s)'
  BY <1>1, ToComeKept DEF OwnStep, JobState, Invariants, JobsInv, SessionJobs
<1>4. OpOK(OpOf(s))'
  BY <1>2 DEF OpOK, Settled, FileOK, OpOf
<1>5. QED
  BY <1>1, <1>3, <1>4, JobStep DEF SessionJobs, OpOf

(* The end of an operation.                                                 *)
LEMMA JobFinish ==
    ASSUME JobState, NEW s \in Sessions, Active(s), OwnStep(s, item[s]), RawOnDisk',
           NEW o, NEW m, NEW k, Finish(s, o, m, k), item' = item, OpOK(OpOf(s))'
    PROVE  JobsInv'
<1>1. item[s] \in 1..BatchSize /\ OpOf(s) = <<s, item[s]>> /\ OpOf(s)' = OpOf(s)
  BY Underway DEF JobState, Invariants, OpOf
<1>2. pc'[s] \in {"ready", "stopped"}
  BY DEF Finish, JobState, Invariants, TypeInv, TypeOK
<1>3. AtAwait(s)'
  BY <1>2 DEF AtAwait, UnqueuedPc, SettledPc, AiPc
<1>4. ToCome(s)'
  BY <1>1, ToComeKept DEF OwnStep, JobState, Invariants, JobsInv, SessionJobs, TypeInv, TypeOK
<1>5. QED
  BY <1>1, <1>3, <1>4, JobStep DEF SessionJobs

-----------------------------------------------------------------------------
(* The steps that begin an operation.                                       *)
StartTraces(s) ==
    /\ UNCHANGED <<events, impacts, aiJobs, llmLogs, files, crashes>>
    /\ faults' \in {faults, faults + 1}
    /\ \/ ingestJobs' = ingestJobs
       \/ /\ ingestJobs' = [ingestJobs EXCEPT ![<<s, item[s] + 1>>] =
                                [NoJob EXCEPT !.status = "Running"]]
          /\ result' = result /\ pc'[s] = "extract"

LEMMA StartTraced == ASSUME TypeInv, NEW s \in Sessions, Starts(s) PROVE StartTraces(s)
<1>1. ASSUME NEW t \in Texts, NEW k \in SourceTypes, StartIngest(s, t, k) PROVE StartTraces(s)
  BY <1>1 DEF StartIngest, Goto, StartTraces, TypeInv, TypeOK
<1>2. ASSUME NEW t \in Texts, StartReprocess(s, t) PROVE StartTraces(s)
  BY <1>2 DEF StartReprocess, StartTraces, dbVars
<1>3. ASSUME NEW t \in Texts, NEW k \in RequestKinds, StartThrows(s, t, k) PROVE StartTraces(s)
  BY <1>3 DEF StartThrows, Fault, StartTraces, dbVars
<1>4. QED
  BY <1>1, <1>2, <1>3 DEF Starts

LEMMA StartJobs == ASSUME JobState, NEW s \in Sessions, Starts(s) PROVE JobsInv'
<1>1. Begins(s) /\ StartTraces(s) /\ TypeInv /\ SessionJobs(s)
  BY StartFacts, StartTraced DEF JobState, Invariants, JobsInv
<1>2. PICK t, k : t \in Texts /\ Begin(s, t, k)
  BY <1>1 DEF Begins
<1>3. PICK i \in 1..BatchSize : i = item[s] + 1
  BY <1>1, <1>2, BoundsAssumption DEF Begin, Limit, TypeInv, TypeOK
<1>4. PICK op \in Op : op = <<s, i>>
  BY <1>3 DEF Op
<1>5. /\ item'[s] = i /\ item[s] <= item'[s] /\ item'[s] \in 0..BatchSize /\ OpOf(s)' = op
      /\ item' = [item EXCEPT ![s] = item[s] + 1]
      /\ req' = [req EXCEPT ![op] = [text |-> t, kind |-> k]]
  BY <1>1, <1>2, <1>3, <1>4 DEF Begin, TypeInv, TypeOK, OpOf
<1>6. Untouched(op) /\ result[op] = "none"
  <2>1. i > item[s]
    BY <1>1, <1>3 DEF TypeInv, TypeOK
  <2>2. QED
    BY <1>1, <1>4, <2>1 DEF SessionJobs, ToCome, JobState, Invariants, DedupInv, SessionDedup
<1>7. OwnStep(s, i)
  <2>1. OnlySession(s)
    BY <1>1, <1>4, <1>5 DEF Begins, OnlySession, TypeInv, TypeOK
  <2>2. OnlyAnswer(op)
    BY <1>1, <1>3, <1>4, <1>5 DEF Begins, OnlyAnswer, TypeInv, TypeOK
  <2>3. OnlyJob(s, i) /\ OnlyFile(op)
    BY <1>1, <1>3, <1>4 DEF StartTraces, OnlyJob, OnlyFile, TypeInv, TypeOK
  <2>4. Grows
    BY <1>1 DEF Begins, StartTraces, Grows, Stored, TypeInv, TypeOK
  <2>5. QED
    BY <1>4, <2>1, <2>2, <2>3, <2>4 DEF OwnStep
<1>8. RawOnDisk'
  BY <1>1 DEF Begins, StartTraces, JobState, JobsInv, RawOnDisk, Stored
<1>9. /\ ingestJobs'[op].status \in {"absent", "Running"}
      /\ result'[op] = "none" \/ ingestJobs'[op] = NoJob
      /\ pc'[s] = "hasEvent" => ingestJobs'[op] = NoJob
      /\ aiJobs'[op] = NoJob /\ op \notin files'
  <2>1. CASE ingestJobs' = ingestJobs
    BY <1>1, <1>6, <2>1 DEF StartTraces, Untouched, NoJob
  <2>2. CASE ingestJobs' # ingestJobs
    <3>1. ingestJobs'[op].status = "Running" /\ result' = result /\ pc'[s] = "extract"
      BY <1>1, <1>3, <1>4, <2>2 DEF StartTraces, TypeInv, TypeOK, NoJob
    <3>2. QED
      BY <1>1, <1>6, <3>1 DEF StartTraces, Untouched
  <2>3. QED
    BY <2>1, <2>2
<1>10. OpOK(op)'
  <2>1. result'[op] # "Duplicate"
    BY <1>1, <1>3, <1>4, <1>6 DEF Begins, TypeInv, TypeOK
  <2>2. QED
    BY <1>9, <2>1 DEF OpOK, Delivered, Settled, FileOK, NoJob
<1>11. AtAwait(s)'
  <2>1. pc'[s] \in {"ready", "stopped", "extract", "hasEvent"}
    BY <1>1 DEF Begins
  <2>2. QED
    BY <1>5, <1>9, <2>1 DEF AtAwait, UnqueuedPc, SettledPc, AiPc, NoJob
<1>12. ToCome(s)'
  BY <1>1, <1>4, <1>5, <1>7, ToComeKept DEF OwnStep, SessionJobs
<1>13. QED
  BY <1>4, <1>7, <1>8, <1>10, <1>11, <1>12, JobStep DEF SessionJobs

(* The steps to another await that at most add the raw file.                *)
QuietMoves(s) ==
    \/ FindNew(s) \/ FindDuplicate(s) \/ ExtractionFails(s) \/ AddSource(s)
    \/ \E r \in sources : ReuseSource(s, r)
    \/ StoreConflict(s) \/ CountAttempts(s) \/ AiAnswers(s) \/ AiFails(s) \/ EventConflict(s)
    \/ AiThrows(s)
    \/ CatchThrows(s) /\ pc[s] = "failAi" /\ s \in Ingests
    \/ RequestAnalysis(s) /\ TextOf(s) \notin events

QuietLabel(s, label) ==
    /\ label \in UnqueuedPc => pc[s] \in UnqueuedPc
    /\ label \in SettledPc => pc[s] \in SettledPc
    /\ label \in {"source", "store"} => pc[s] \in {"source", "store"} \/ OpOf(s) \in files'
    /\ label \notin {"hasEvent", "recalculate"}
    /\ label = "failLinked" => faults' # 0

LEMMA QuietFacts ==
    ASSUME TypeInv, NEW s \in Sessions, QuietMoves(s)
    PROVE  /\ UNCHANGED <<impacts, ingestJobs, aiJobs, llmLogs, crashes>>
           /\ faults' \in {faults, faults + 1}
           /\ files' \in {files, files \cup {OpOf(s)}}
           /\ \E label : Goto(s, label) /\ QuietLabel(s, label)
<1>1. UNCHANGED <<impacts, ingestJobs, aiJobs, llmLogs, crashes>>
  BY DEF QuietMoves, FindNew, FindDuplicate, ExtractionFails, AddSource, ReuseSource, StoreConflict,
     CountAttempts, AiAnswers, AiFails, EventConflict, AiThrows, CatchThrows, RequestAnalysis, dbVars
<1>2. faults' \in {faults, faults + 1}
  BY DEF QuietMoves, FindNew, FindDuplicate, ExtractionFails, AddSource, ReuseSource, StoreConflict,
     CountAttempts, AiAnswers, AiFails, EventConflict, AiThrows, CatchThrows, RequestAnalysis, Fault
<1>3. files' \in {files, files \cup {OpOf(s)}}
  BY DEF QuietMoves, FindNew, FindDuplicate, ExtractionFails, AddSource, ReuseSource, StoreConflict,
     CountAttempts, AiAnswers, AiFails, EventConflict, AiThrows, CatchThrows, RequestAnalysis
<1>4. \E label : Goto(s, label) /\ QuietLabel(s, label)
  <2>1. CatchThrows(s) => faults' # 0
    BY DEF CatchThrows, Fault, TypeInv, TypeOK
  <2>2. QED
    BY <2>1 DEF QuietMoves, FindNew, FindDuplicate, ExtractionFails, AddSource, ReuseSource,
       StoreConflict, CountAttempts, AiAnswers, AiFails, EventConflict, AiThrows, CatchThrows,
       RequestAnalysis, QuietLabel, UnqueuedPc, SettledPc, AiPc
<1>5. QED
  BY <1>1, <1>2, <1>3, <1>4

(* What every move leaves alone.                                            *)
LEMMA MoveStep ==
    ASSUME JobState, NEW s \in Sessions, Moves(s), OnlyJob(s, item[s]), OnlyFile(OpOf(s)),
           impacts' = impacts, crashes' = crashes, faults' \in {faults, faults + 1}
    PROVE  /\ Active(s) /\ UNCHANGED <<item, result, docs, events>> /\ OpOf(s)' = OpOf(s)
           /\ TextOf(s)' = TextOf(s)
           /\ OwnStep(s, item[s])
<1>1. Active(s) /\ UNCHANGED <<item, req, result, docs, events>> /\ OnlySession(s)
  BY MoveFacts DEF JobState, Invariants
<1>2. Grows
  BY <1>1 DEF Grows, Stored, JobState, Invariants, TypeInv, TypeOK
<1>3. QED
  BY <1>1, <1>2 DEF OwnStep, OnlyAnswer, OpOf, TextOf

LEMMA QuietJobs == ASSUME JobState, NEW s \in Sessions, QuietMoves(s) PROVE JobsInv'
<1>1. /\ TypeInv /\ Moves(s) /\ UNCHANGED <<impacts, ingestJobs, aiJobs, crashes>>
      /\ faults' \in {faults, faults + 1} /\ files' \in {files, files \cup {OpOf(s)}}
  BY QuietFacts DEF JobState, Invariants, QuietMoves, Moves
<1>2. PICK label : Goto(s, label) /\ QuietLabel(s, label)
  BY <1>1, QuietFacts
<1>3. OnlyJob(s, item[s]) /\ OnlyFile(OpOf(s))
  BY <1>1 DEF OnlyJob, OnlyFile
<1>4. /\ Active(s) /\ UNCHANGED <<item, result, docs, events>> /\ OpOf(s)' = OpOf(s)
      /\ OwnStep(s, item[s])
  BY <1>1, <1>3, MoveStep
<1>5. RawOnDisk'
  BY <1>1, <1>4 DEF JobState, JobsInv, RawOnDisk, Stored
<1>6. OpOf(s) \in Op /\ AtAwait(s) /\ OpOK(OpOf(s)) /\ result[OpOf(s)] = "none"
  BY <1>1, <1>4, Underway DEF JobState, JobsInv, SessionJobs, Invariants, LedgerInv, Pending
<1>7. pc'[s] = label
  BY <1>1, <1>2 DEF Goto, TypeInv, TypeOK
<1>8. AtAwait(s)'
  BY <1>1, <1>2, <1>4, <1>6, <1>7 DEF AtAwait, QuietLabel
<1>9. Delivered(OpOf(s))'
  BY <1>1, <1>4, <1>6 DEF OpOK, Delivered, Stored
<1>10. QED
  BY <1>4, <1>5, <1>8, <1>9, JobMove

(* The other steps to another await.                                        *)
LEMMA CompleteJobJobs == ASSUME JobState, NEW s \in Sessions, CompleteJob(s) PROVE JobsInv'
<1>1. /\ TypeInv /\ Moves(s) /\ Goto(s, "count") /\ pc[s] = "complete"
      /\ UNCHANGED <<impacts, aiJobs, files, faults, crashes>>
      /\ ingestJobs' = [ingestJobs EXCEPT ![OpOf(s)].status = "Succeeded",
                                          ![OpOf(s)].doc = TextOf(s)]
  BY DEF CompleteJob, Moves, JobState, Invariants
<1>2. OnlyJob(s, item[s]) /\ OnlyFile(OpOf(s))
  BY <1>1 DEF OnlyJob, OnlyFile, OpOf, TypeInv, TypeOK
<1>3. /\ Active(s) /\ UNCHANGED <<item, result, docs, events>> /\ OpOf(s)' = OpOf(s)
      /\ OwnStep(s, item[s])
  BY <1>1, <1>2, MoveStep
<1>4. OpOf(s) \in Op /\ TextOf(s) \in Texts /\ s \in Ingests /\ pc'[s] = "count"
  BY <1>1, <1>3, Underway DEF TypeInv, TypeOK, SessionOK, IngestPc, Goto
<1>5. Stored(TextOf(s)) /\ AtAwait(s)
  BY <1>1, <1>4 DEF JobState, JobsInv, SessionJobs, Invariants, DedupInv, SessionDedup, OwnPc, Owns,
     TextOf
<1>6. ingestJobs'[OpOf(s)].status = "Succeeded" /\ ingestJobs'[OpOf(s)].doc = TextOf(s)
  BY <1>1, <1>4 DEF TypeInv, TypeOK, JobRow
<1>7. aiJobs[OpOf(s)] = NoJob
  BY <1>1, <1>5 DEF AtAwait, UnqueuedPc
<1>8. AtAwait(s)'
  BY <1>1, <1>3, <1>4, <1>6, <1>7 DEF AtAwait
<1>9. Delivered(OpOf(s))'
  BY <1>1, <1>3, <1>4, <1>5, <1>6, <1>7 DEF Delivered, NoJob, Stored
<1>10. RawOnDisk'
  BY <1>1, <1>3 DEF JobState, JobsInv, RawOnDisk, Stored
<1>11. QED
  BY <1>3, <1>8, <1>9, <1>10, JobMove

LEMMA QueueAiJobJobs == ASSUME JobState, NEW s \in Sessions, QueueAiJob(s) PROVE JobsInv'
<1>1. /\ TypeInv /\ Moves(s) /\ Goto(s, "askAi") /\ pc[s] = "queueAi"
      /\ UNCHANGED <<impacts, ingestJobs, files, faults, crashes>>
      /\ aiJobs' = [aiJobs EXCEPT ![OpOf(s)] = [status |-> "Running", doc |-> TextOf(s),
                                                attempts |-> local[s].attempts]]
  BY DEF QueueAiJob, Moves, JobState, Invariants
<1>2. OnlyJob(s, item[s]) /\ OnlyFile(OpOf(s))
  BY <1>1 DEF OnlyJob, OnlyFile, OpOf, TypeInv, TypeOK
<1>3. /\ Active(s) /\ UNCHANGED <<item, result, docs, events>> /\ OpOf(s)' = OpOf(s)
      /\ OwnStep(s, item[s])
  BY <1>1, <1>2, MoveStep
<1>4. OpOf(s) \in Op /\ pc'[s] = "askAi" /\ AtAwait(s) /\ OpOK(OpOf(s))
  BY <1>1, <1>3, Underway DEF TypeInv, TypeOK, Goto, JobState, JobsInv, SessionJobs
<1>5. aiJobs'[OpOf(s)].status = "Running"
  BY <1>1, <1>4 DEF TypeInv, TypeOK
<1>6. AtAwait(s)'
  BY <1>1, <1>3, <1>4 DEF AtAwait, UnqueuedPc, SettledPc
<1>7. Delivered(OpOf(s))'
  BY <1>1, <1>3, <1>4, <1>5 DEF OpOK, Delivered, Stored
<1>8. RawOnDisk'
  BY <1>1, <1>3 DEF JobState, JobsInv, RawOnDisk, Stored
<1>9. QED
  BY <1>3, <1>6, <1>7, <1>8, JobMove

LEMMA IngestThrowsJobs == ASSUME JobState, NEW s \in Sessions, IngestThrows(s) PROVE JobsInv'
<1>1. /\ TypeInv /\ Moves(s) /\ UNCHANGED <<impacts, ingestJobs, aiJobs, crashes>>
      /\ faults' = faults + 1 /\ faults' # 0
  BY DEF IngestThrows, Fault, Moves, JobState, Invariants, TypeInv, TypeOK, dbVars
<1>2. PICK label \in {"fail", "failLinked"} :
        Goto(s, label) /\ (label = "fail" => pc[s] \in {"source", "store"})
  BY DEF IngestThrows
<1>3. files' = files \/ (files' = files \ {OpOf(s)} /\ pc[s] = "duplicate")
  BY DEF IngestThrows
<1>4. OnlyJob(s, item[s]) /\ OnlyFile(OpOf(s))
  BY <1>1, <1>3 DEF OnlyJob, OnlyFile
<1>5. /\ Active(s) /\ UNCHANGED <<item, result, docs, events>> /\ OpOf(s)' = OpOf(s)
      /\ OwnStep(s, item[s])
  BY <1>1, <1>4, MoveStep
<1>6. /\ OpOf(s) \in Op /\ pc'[s] = label /\ AtAwait(s) /\ OpOK(OpOf(s))
      /\ pc[s] = "duplicate" => Fresh(OpOf(s))
  BY <1>1, <1>2, <1>5, Underway DEF TypeInv, TypeOK, Goto, JobState, JobsInv, SessionJobs, Invariants,
     DedupInv, SessionDedup, FreshPc
<1>7. AtAwait(s)'
  BY <1>1, <1>2, <1>5, <1>6 DEF AtAwait, UnqueuedPc, SettledPc, AiPc
<1>8. Delivered(OpOf(s))'
  BY <1>1, <1>5, <1>6 DEF OpOK, Delivered, Stored
<1>9. RawOnDisk'
  BY <1>3, <1>4, <1>5, <1>6, SameDocs, FilesKept
<1>10. QED
  BY <1>5, <1>7, <1>8, <1>9, JobMove

LEMMA MoveJobs == ASSUME JobState, NEW s \in Sessions, Moves(s) PROVE JobsInv'
<1>1. QuietMoves(s) \/ CompleteJob(s) \/ QueueAiJob(s) \/ IngestThrows(s)
  BY DEF Moves, QuietMoves
<1>2. QED
  BY <1>1, QuietJobs, CompleteJobJobs, QueueAiJobJobs, IngestThrowsJobs

(* The two writes of the pipeline: the document and the event.              *)
LEMMA StoreDocumentJobs == ASSUME JobState, NEW s \in Sessions, StoreDocument(s) PROVE JobsInv'
<1>1. /\ TypeInv /\ Active(s) /\ UNCHANGED <<item, req, result, events>> /\ OnlySession(s)
      /\ ~Stored(TextOf(s))
      /\ docs'[TextOf(s)].status = "AwaitingAi" /\ docs'[TextOf(s)].rawFile = OpOf(s)
      /\ \A t \in Texts \ {TextOf(s)} : docs'[t] = docs[t]
  BY StoreDocumentFacts DEF JobState, Invariants
<1>2. UNCHANGED <<impacts, ingestJobs, aiJobs, files, faults, crashes>> /\ pc[s] = "store"
  BY DEF StoreDocument
<1>3. OpOf(s) \in Op /\ OpOf(s)' = OpOf(s) /\ AtAwait(s) /\ OpOK(OpOf(s)) /\ pc'[s] = "complete"
  BY <1>1, StoreDocumentFacts, Underway DEF OpOf, JobState, JobsInv, SessionJobs, Goto, TypeInv, TypeOK
<1>4. OwnStep(s, item[s])
  <2>1. Grows
    BY <1>1, <1>2 DEF Grows, Stored
  <2>2. QED
    BY <1>1, <1>2, <2>1 DEF OwnStep, OnlyJob, OnlyAnswer, OnlyFile
<1>5. RawOnDisk'
  BY <1>1, <1>2, <1>3 DEF JobState, JobsInv, RawOnDisk, Stored, AtAwait
<1>6. AtAwait(s)'
  BY <1>2, <1>3 DEF AtAwait, UnqueuedPc, SettledPc, AiPc
<1>7. Delivered(OpOf(s))'
  BY <1>1, <1>2, <1>3, <1>4 DEF OpOK, Delivered, OwnStep, Grows
<1>8. QED
  BY <1>1, <1>4, <1>5, <1>6, <1>7, JobMove

LEMMA SaveEventJobs == ASSUME JobState, NEW s \in Sessions, SaveEvent(s) PROVE JobsInv'
<1>1. /\ TypeInv /\ Active(s) /\ UNCHANGED <<item, req, result>> /\ OnlySession(s)
      /\ TextOf(s) \in Texts /\ DocsKept
  BY SaveEventFacts DEF JobState, Invariants
<1>2. /\ UNCHANGED <<impacts, ingestJobs, files, faults, crashes>> /\ pc[s] = "saveEvent"
      /\ events' = events \cup {TextOf(s)}
      /\ aiJobs' = [aiJobs EXCEPT ![OpOf(s)].status = "Succeeded"]
  BY DEF SaveEvent
<1>3. /\ OpOf(s) \in Op /\ OpOf(s)' = OpOf(s) /\ AtAwait(s) /\ OpOK(OpOf(s))
      /\ pc'[s] = "recalculate" /\ result[OpOf(s)] = "none"
  BY <1>1, SaveEventFacts, Underway DEF OpOf, JobState, JobsInv, SessionJobs, Goto, Invariants, TypeInv,
     TypeOK, LedgerInv, Pending
<1>4. aiJobs'[OpOf(s)].status = "Succeeded" /\ aiJobs'[OpOf(s)].doc = TextOf(s)
  <2>1. aiJobs[OpOf(s)].doc = TextOf(s)
    BY <1>2 DEF JobState, Invariants, StatusInv, SessionStatus, AiStarted, AiPc
  <2>2. QED
    BY <1>1, <1>2, <1>3, <2>1 DEF TypeInv, TypeOK, JobRow
<1>5. OwnStep(s, item[s])
  <2>1. Grows
    BY <1>1, <1>2 DEF Grows, DocsKept
  <2>2. OnlyJob(s, item[s])
    BY <1>1, <1>2 DEF OnlyJob, OpOf, TypeInv, TypeOK
  <2>3. QED
    BY <1>1, <1>2, <2>1, <2>2 DEF OwnStep, OnlyAnswer, OnlyFile
<1>6. RawOnDisk'
  BY <1>1, <1>2, FilesKept DEF OnlyFile
<1>7. AtAwait(s)'
  BY <1>2, <1>3, <1>4 DEF AtAwait, UnqueuedPc, SettledPc, AiPc
<1>8. Delivered(OpOf(s))'
  BY <1>1, <1>2, <1>3, <1>4, <1>5 DEF OpOK, Delivered, OwnStep, Grows
<1>9. QED
  BY <1>1, <1>5, <1>6, <1>7, <1>8, JobMove

(* The steps that end an operation.                                         *)
LEMMA FinishStep ==
    ASSUME JobState, NEW s \in Sessions, Finishes(s), OnlyJob(s, item[s]), OnlyFile(OpOf(s)),
           files' = files \/ Fresh(OpOf(s)),
           impacts \subseteq impacts', crashes' = crashes, faults' \in {faults, faults + 1},
           OpOK(OpOf(s))'
    PROVE  JobsInv'
<1>1. Active(s) /\ UNCHANGED <<item, req, events>> /\ DocsKept /\ TypeInv
  BY FinishFacts DEF JobState, Invariants
<1>2. PICK o, m, k : Finish(s, o, m, k)
  BY FinishFacts DEF JobState, Invariants
<1>3. OnlySession(s) /\ OnlyAnswer(<<s, item[s]>>)
  BY <1>1, <1>2 DEF Finish, OnlySession, OnlyAnswer, OpOf, TypeInv, TypeOK
<1>4. OwnStep(s, item[s])
  <2>1. Grows
    BY <1>1 DEF Grows, DocsKept, TypeInv, TypeOK
  <2>2. QED
    BY <1>3, <2>1 DEF OwnStep, OpOf
<1>5. RawOnDisk'
  BY <1>1, FilesKept
<1>6. QED
  BY <1>1, <1>2, <1>4, <1>5, JobFinish

(* What a session that ends an operation knows of it.                       *)
LEMMA FinishFrom ==
    ASSUME JobState, NEW s \in Sessions, Finishes(s)
    PROVE  /\ Active(s) /\ TypeInv /\ OpOf(s) \in Op /\ TextOf(s) \in Texts
           /\ OpOf(s)' = OpOf(s) /\ TextOf(s)' = TextOf(s)
           /\ AtAwait(s) /\ OpOK(OpOf(s)) /\ SessionDedup(s) /\ AiStarted(s)
           /\ result[OpOf(s)] = "none"
           /\ UNCHANGED events /\ (\A t \in Texts : Stored(t) => Stored(t)')
<1>1. Active(s) /\ UNCHANGED <<item, req, events>> /\ DocsKept /\ TypeInv
  BY FinishFacts DEF JobState, Invariants
<1>2. QED
  BY <1>1, Underway DEF JobState, JobsInv, SessionJobs, Invariants, DedupInv, StatusInv, SessionStatus,
     LedgerInv, Pending, DocsKept, OpOf, TextOf

LEMMA AnswerJobs == ASSUME JobState, NEW s \in Sessions, AnswerDuplicate(s) PROVE JobsInv'
<1>1. /\ Finishes(s) /\ pc[s] = "duplicate" /\ UNCHANGED <<impacts, aiJobs, faults, crashes>>
      /\ files' = files \ {OpOf(s)} /\ Finish(s, "Duplicate", mem[s], tracked[s])
      /\ ingestJobs' = [ingestJobs EXCEPT ![OpOf(s)].status = "Succeeded",
                                          ![OpOf(s)].doc = TextOf(s)]
  BY DEF AnswerDuplicate, Finishes
<1>2. /\ TypeInv /\ OpOf(s) \in Op /\ TextOf(s) \in Texts /\ AtAwait(s) /\ OpOf(s)' = OpOf(s)
      /\ docs'[TextOf(s)].status # "absent" /\ Fresh(OpOf(s))
  BY <1>1, FinishFrom DEF SessionDedup, FreshPc, Stored
<1>3. OnlyJob(s, item[s]) /\ OnlyFile(OpOf(s))
  BY <1>1, <1>2 DEF OnlyJob, OnlyFile, OpOf, TypeInv, TypeOK
<1>4. ingestJobs'[OpOf(s)].status = "Succeeded" /\ ingestJobs'[OpOf(s)].doc = TextOf(s)
  BY <1>1, <1>2 DEF TypeInv, TypeOK, JobRow
<1>5. aiJobs'[OpOf(s)] = NoJob
  BY <1>1, <1>2 DEF AtAwait, UnqueuedPc
<1>6. OpOK(OpOf(s))'
  BY <1>1, <1>2, <1>4, <1>5 DEF OpOK, Delivered, Settled, FileOK, NoJob, Stored
<1>7. QED
  BY <1>1, <1>2, <1>3, <1>6, FinishStep

LEMMA RecordFailureJobs ==
    ASSUME JobState, NEW s \in Sessions, RecordFailure(s) \/ RecordLinkedFailure(s)
    PROVE  JobsInv'
<1>1. /\ Finishes(s) /\ pc[s] \in {"fail", "failLinked"}
      /\ UNCHANGED <<impacts, aiJobs, files, faults, crashes>>
      /\ \E m, k : Finish(s, "Failed", m, k)
      /\ \/ ingestJobs' = [ingestJobs EXCEPT ![OpOf(s)].status = "Failed"]
         \/ ingestJobs' = [ingestJobs EXCEPT ![OpOf(s)].status = "Failed",
                                             ![OpOf(s)].doc = TextOf(s)]
  BY DEF RecordFailure, RecordLinkedFailure, Finishes
<1>2. /\ TypeInv /\ OpOf(s) \in Op /\ AtAwait(s) /\ OpOf(s)' = OpOf(s) /\ OpOK(OpOf(s))
      /\ UNCHANGED events
  BY <1>1, FinishFrom
<1>3. OnlyJob(s, item[s]) /\ OnlyFile(OpOf(s))
  BY <1>1, <1>2 DEF OnlyJob, OnlyFile, OpOf, TypeInv, TypeOK
<1>4. ingestJobs'[OpOf(s)].status = "Failed" /\ result'[OpOf(s)] = "Failed"
  BY <1>1, <1>2 DEF TypeInv, TypeOK, JobRow, Finish
<1>5. aiJobs'[OpOf(s)] = NoJob \/ faults' # 0
  BY <1>1, <1>2 DEF AtAwait, UnqueuedPc
<1>6. OpOK(OpOf(s))'
  BY <1>1, <1>2, <1>4, <1>5 DEF OpOK, Delivered, Settled, FileOK, NoJob
<1>7. QED
  BY <1>1, <1>3, <1>6, FinishStep

LEMMA AnalysisEndJobs ==
    ASSUME JobState, NEW s \in Sessions, Recalculate(s) \/ RecordAiFailure(s) PROVE JobsInv'
<1>1. /\ Finishes(s) /\ pc[s] \in {"recalculate", "failAi"}
      /\ UNCHANGED <<ingestJobs, files, faults, crashes>> /\ impacts \subseteq impacts'
      /\ \E o \in {"Failed", "Created"} : \E m, k : Finish(s, o, m, k)
      /\ \/ pc[s] = "recalculate" /\ aiJobs' = aiJobs /\ TextOf(s) \in impacts'
         \/ aiJobs' = [aiJobs EXCEPT ![OpOf(s)].status = "Failed"]
  BY DEF Recalculate, RecordAiFailure, FinishAi, Finishes
<1>2. /\ TypeInv /\ OpOf(s) \in Op /\ AtAwait(s) /\ OpOf(s)' = OpOf(s) /\ OpOK(OpOf(s))
      /\ UNCHANGED events /\ (\A t \in Texts : Stored(t) => Stored(t)')
      /\ aiJobs[OpOf(s)].doc = TextOf(s)
  BY <1>1, FinishFrom DEF AiStarted, AiPc
<1>3. OnlyJob(s, item[s]) /\ OnlyFile(OpOf(s))
  BY <1>1, <1>2 DEF OnlyJob, OnlyFile, OpOf, TypeInv, TypeOK
<1>4. result'[OpOf(s)] \in {"Failed", "Created"}
  BY <1>1, <1>2 DEF TypeInv, TypeOK, Finish
<1>5. ingestJobs'[OpOf(s)] = ingestJobs[OpOf(s)] /\ ingestJobs'[OpOf(s)].status # "Running"
  BY <1>1, <1>2 DEF AtAwait, SettledPc, AiPc
<1>6. \/ aiJobs'[OpOf(s)].status = "Failed"
      \/ /\ aiJobs'[OpOf(s)] = aiJobs[OpOf(s)] /\ aiJobs'[OpOf(s)].status = "Succeeded"
         /\ TextOf(s) \in impacts'
  BY <1>1, <1>2 DEF TypeInv, TypeOK, JobRow, AtAwait
<1>7. OpOK(OpOf(s))'
  BY <1>2, <1>4, <1>5, <1>6 DEF OpOK, Delivered, Settled, FileOK
<1>8. QED
  BY <1>1, <1>3, <1>7, FinishStep

LEMMA LeaveJobs ==
    ASSUME JobState, NEW s \in Sessions,
           \/ ReprocessThrows(s)
           \/ CatchThrows(s) /\ ~(pc[s] = "failAi" /\ s \in Ingests)
           \/ RequestAnalysis(s) /\ TextOf(s) \in events
    PROVE  JobsInv'
<1>1. /\ Finishes(s) /\ UNCHANGED <<ingestJobs, aiJobs, impacts, files, crashes>>
      /\ \/ faults' = faults + 1 /\ \E m, k : Finish(s, "Error", m, k)
         \/ /\ faults' = faults /\ pc[s] = "hasEvent"
            /\ \E m, k : Finish(s, "Duplicate", m, k)
  BY DEF ReprocessThrows, CatchThrows, RequestAnalysis, Fault, Finishes, dbVars
<1>2. /\ TypeInv /\ OpOf(s) \in Op /\ AtAwait(s) /\ OpOf(s)' = OpOf(s) /\ OpOK(OpOf(s))
      /\ UNCHANGED events /\ (\A t \in Texts : Stored(t) => Stored(t)')
  BY <1>1, FinishFrom
<1>3. OnlyJob(s, item[s]) /\ OnlyFile(OpOf(s))
  BY <1>1 DEF OnlyJob, OnlyFile
<1>4. \/ faults' # 0 /\ result'[OpOf(s)] = "Error"
      \/ pc[s] = "hasEvent" /\ result'[OpOf(s)] = "Duplicate"
  BY <1>1, <1>2 DEF TypeInv, TypeOK, Finish
<1>5. pc[s] = "hasEvent" => /\ aiJobs[OpOf(s)] = NoJob
                            /\ ingestJobs[OpOf(s)].status # "Running" /\ OpOf(s) \notin files
  BY <1>2 DEF AtAwait, UnqueuedPc, SettledPc
<1>6. OpOK(OpOf(s))'
  BY <1>1, <1>2, <1>4, <1>5 DEF OpOK, Delivered, Settled, FileOK, NoJob
<1>7. QED
  BY <1>1, <1>3, <1>6, FinishStep

LEMMA FinishJobs == ASSUME JobState, NEW s \in Sessions, Finishes(s) PROVE JobsInv'
BY AnswerJobs, RecordFailureJobs, AnalysisEndJobs, LeaveJobs DEF Finishes

LEMMA CrashJobs == ASSUME JobState, NEW h, Crash(h) PROVE JobsInv'
<1>1. /\ UNCHANGED <<docs, events, impacts, ingestJobs, aiJobs, files, item, result, faults>>
      /\ crashes' # 0
  BY DEF Crash, dbVars, JobState, Invariants, TypeInv, TypeOK
<1>2. RawOnDisk' /\ \A op \in Op : OpOK(op)'
  BY <1>1 DEF JobState, JobsInv, RawOnDisk, OpOK, Delivered, Settled, FileOK, Stored
<1>3. ASSUME NEW s \in Sessions PROVE SessionJobs(s)'
  <2>1. pc'[s] \in {pc[s], "stopped"} /\ SessionJobs(s)
    BY DEF Crash, JobState, JobsInv
  <2>2. QED
    BY <1>1, <2>1 DEF SessionJobs, AtAwait, ToCome, Untouched, OpOf, UnqueuedPc, SettledPc, AiPc
<1>4. QED
  BY <1>2, <1>3 DEF JobsInv

LEMMA NextJobsInv == JobState /\ [Next]_vars => JobsInv'
<1> SUFFICES ASSUME JobState, [Next]_vars PROVE JobsInv'
  OBVIOUS
<1>1. CASE UNCHANGED vars
  BY <1>1 DEF vars, dbVars, sessVars, JobState, JobsInv, RawOnDisk, OpOK, Delivered, Settled, FileOK,
     SessionJobs, AtAwait, ToCome, Untouched, Stored, OpOf
<1>2. QED
  BY <1>1, StepKinds, StartJobs, MoveJobs, FinishJobs, StoreDocumentJobs, SaveEventJobs, CrashJobs

LEMMA JobsInvariant == Spec => []JobState
<1>1. Init => JobState
  BY InitTypeInv, InitStatusInv, InitDedupInv, InitLedgerInv, InitJobsInv DEF JobState, Invariants
<1>2. JobState /\ [Next]_vars => JobState'
  BY NextTypeInv, NextStatusInv, NextDedupInv, NextLedger, NextJobsInv DEF JobState, Invariants
<1>3. QED
  BY <1>1, <1>2, PTL DEF Spec

(* A job that says Succeeded left what it was for: an ingestion its document *)
(* and an analysis its event and, once its caller is answered Created, the   *)
(* event's impacts.  A failure of the impacts after the job is Succeeded     *)
(* makes the job Failed before Created can be answered.                     *)
THEOREM JobsDeliver == Spec => []SucceededJobsDelivered
<1>1. JobState => SucceededJobsDelivered
  BY DEF JobState, JobsInv, OpOK, Delivered, SucceededJobsDelivered
<1>2. QED
  BY <1>1, JobsInvariant, PTL

(* Without database errors and crashes no answered operation leaves a job    *)
(* Running, whatever the sessions interleave: the await before each answer   *)
(* says which of its jobs are settled already.                              *)
THEOREM JobsSettled == Spec => []NoAbandonedJobs
<1>1. JobState => NoAbandonedJobs
  BY DEF JobState, JobsInv, OpOK, Settled, NoAbandonedJobs
<1>2. QED
  BY <1>1, JobsInvariant, PTL

(* The raw file of a stored document is on disk and that of a duplicate is   *)
(* not: the file a duplicate deletes is its own, which no document names.    *)
THEOREM FilesOnDisk == Spec => []FilesAccounted
<1>1. JobState => FilesAccounted
  BY DEF JobState, Invariants, TypeInv, TypeOK, JobsInv, OpOK, FileOK, RawOnDisk, FilesAccounted
<1>2. QED
  BY <1>1, JobsInvariant, PTL

-----------------------------------------------------------------------------
(* The counts: the Failed analyses of a text, and the number read before an *)
(* AI job is inserted.                                                      *)
FailedAi(t)    == {op \in AiJobsOf(t) : aiJobs[op].status = "Failed"}
NextAttempt(s) ==
    pc[s] = "queueAi" => local[s].attempts \in 1..(Cardinality(AiJobsOf(TextOf(s))) + 1)
CountInv == LogsMatchJobs /\ AttemptsNumbered /\ \A s \in Sessions : NextAttempt(s)

(* A step writes the statuses of AI jobs alone.                             *)
StatusesOnly ==
    \A op \in Op : aiJobs'[op].doc = aiJobs[op].doc /\ aiJobs'[op].attempts = aiJobs[op].attempts

LEMMA JobsOfFinite ==
    \A t : /\ IsFiniteSet(AiJobsOf(t)) /\ Cardinality(AiJobsOf(t)) \in Nat
          /\ IsFiniteSet(FailedAi(t)) /\ Cardinality(FailedAi(t)) \in Nat
<1>1. \A t : AiJobsOf(t) \in SUBSET Op /\ FailedAi(t) \in SUBSET Op
  BY DEF AiJobsOf, FailedAi
<1>2. QED
  BY <1>1, OpFinite, FS_Subset, FS_CardinalityType

LEMMA InitCountInv == Init => CountInv
<1> SUFFICES ASSUME Init PROVE CountInv
  OBVIOUS
<1>1. \A t \in Texts : AiJobsOf(t) = {}
  BY SessionsAssumption DEF Init, AiJobsOf, NoJob
<1>2. LogsMatchJobs /\ AttemptsNumbered
  <2>1. \A t \in Texts : {op \in AiJobsOf(t) : aiJobs[op].status = "Failed"} = {}
    BY <1>1
  <2>2. QED
    BY <1>1, <2>1, FS_EmptySet DEF Init, LogsMatchJobs, AttemptsNumbered
<1>3. \A s \in Sessions : NextAttempt(s)
  BY DEF Init, NextAttempt
<1>4. QED
  BY <1>2, <1>3 DEF CountInv

LEMMA NextAttemptOfOthers ==
    ASSUME JobState, CountInv, NEW s \in Sessions, OnlySession(s),
           \A t \in Texts : AiJobsOf(t) \subseteq AiJobsOf(t)',
           NEW q \in Sessions, q # s
    PROVE  NextAttempt(q)'
<1> SUFFICES ASSUME pc'[q] = "queueAi"
             PROVE  local'[q].attempts \in 1..(Cardinality(AiJobsOf(TextOf(q)))' + 1)
  BY DEF NextAttempt
<1>1. /\ pc[q] = "queueAi" /\ local'[q] = local[q] /\ TextOf(q)' = TextOf(q)
      /\ TextOf(q) \in Texts
  BY Underway DEF OnlySession, TextOf, OpOf, Active, JobState, Invariants
<1>2. local[q].attempts \in 1..(Cardinality(AiJobsOf(TextOf(q))) + 1)
  BY <1>1 DEF CountInv, NextAttempt
<1>3. /\ Cardinality(AiJobsOf(TextOf(q))) \in Nat /\ Cardinality(AiJobsOf(TextOf(q))') \in Nat
      /\ IsFiniteSet(AiJobsOf(TextOf(q))')
  <2>1. AiJobsOf(TextOf(q))' \in SUBSET Op
    BY DEF AiJobsOf
  <2>2. QED
    BY <2>1, JobsOfFinite, OpFinite, FS_Subset, FS_CardinalityType
<1>4. AiJobsOf(TextOf(q)) \in SUBSET (AiJobsOf(TextOf(q))')
  BY <1>1 DEF AiJobsOf
<1>5. Cardinality(AiJobsOf(TextOf(q))) <= Cardinality(AiJobsOf(TextOf(q))')
  BY <1>3, <1>4, FS_Subset
<1>6. QED
  BY <1>1, <1>2, <1>3, <1>5

LEMMA CountStep ==
    ASSUME JobState, CountInv, NEW s \in Sessions, OnlySession(s), StatusesOnly,
           LogsMatchJobs', NextAttempt(s)'
    PROVE  CountInv'
<1>1. \A t : AiJobsOf(t)' = AiJobsOf(t)
  BY DEF StatusesOnly, AiJobsOf
<1>2. AttemptsNumbered'
  BY <1>1 DEF CountInv, AttemptsNumbered, StatusesOnly, AiJobsOf
<1>3. \A q \in Sessions \ {s} : NextAttempt(q)'
  BY <1>1, NextAttemptOfOthers
<1>4. QED
  BY <1>2, <1>3 DEF CountInv

(* Most steps touch neither AI jobs nor logs nor events.                    *)
LEMMA CountQuiet ==
    ASSUME JobState, CountInv, NEW s \in Sessions, OnlySession(s),
           UNCHANGED <<aiJobs, llmLogs, events>>, NextAttempt(s)'
    PROVE  CountInv'
<1>1. LogsMatchJobs' /\ StatusesOnly
  BY DEF CountInv, LogsMatchJobs, AiJobsOf, StatusesOnly
<1>2. QED
  BY <1>1, CountStep

LEMMA StartCount == ASSUME JobState, CountInv, NEW s \in Sessions, Starts(s) PROVE CountInv'
<1>1. Begins(s) /\ StartTraces(s) /\ TypeInv
  BY StartFacts, StartTraced DEF JobState, Invariants
<1>2. PICK t, k : t \in Texts /\ Begin(s, t, k)
  BY <1>1 DEF Begins
<1>3. OnlySession(s)
  BY <1>1, <1>2 DEF Begins, Begin, OnlySession, TypeInv, TypeOK
<1>4. NextAttempt(s)'
  BY <1>1 DEF Begins, NextAttempt
<1>5. QED
  BY <1>1, <1>3, <1>4, CountQuiet DEF StartTraces

LEMMA CountAttemptsCount ==
    ASSUME JobState, CountInv, NEW s \in Sessions, CountAttempts(s) PROVE CountInv'
<1>1. /\ TypeInv /\ Moves(s) /\ UNCHANGED <<aiJobs, llmLogs, events, item, req>>
      /\ local' = [local EXCEPT ![s].attempts = Cardinality(AiJobsOf(TextOf(s))) + 1]
  BY DEF CountAttempts, Moves, JobState, Invariants, dbVars
<1>2. OnlySession(s)
  BY <1>1, MoveFacts
<1>3. local'[s].attempts = Cardinality(AiJobsOf(TextOf(s))) + 1
  BY <1>1 DEF TypeInv, TypeOK, Local
<1>4. Cardinality(AiJobsOf(TextOf(s)))' = Cardinality(AiJobsOf(TextOf(s)))
      /\ Cardinality(AiJobsOf(TextOf(s))) \in Nat
  BY <1>1, JobsOfFinite DEF AiJobsOf, TextOf, OpOf
<1>5. NextAttempt(s)'
  BY <1>3, <1>4 DEF NextAttempt
<1>6. QED
  BY <1>1, <1>2, <1>5, CountQuiet

(* The other moves, the ends but one and the write of the document.         *)
LEMMA OtherMovesCount ==
    ASSUME JobState, CountInv, NEW s \in Sessions, Moves(s), ~CountAttempts(s), ~QueueAiJob(s)
    PROVE  CountInv'
<1>1. UNCHANGED <<aiJobs, llmLogs, events>> /\ OnlySession(s) /\ TypeInv
  BY MoveFacts DEF JobState, Invariants, Moves, FindNew, FindDuplicate, ExtractionFails, AddSource,
     ReuseSource, StoreConflict, CompleteJob, AiAnswers, AiFails, EventConflict, IngestThrows,
     AiThrows, CatchThrows, RequestAnalysis, dbVars
<1>2. \E label : Goto(s, label) /\ label # "queueAi"
  BY DEF Moves, FindNew, FindDuplicate, ExtractionFails, AddSource, ReuseSource, StoreConflict,
     CompleteJob, AiAnswers, AiFails, EventConflict, IngestThrows, AiThrows, CatchThrows,
     RequestAnalysis
<1>3. NextAttempt(s)'
  BY <1>1, <1>2 DEF NextAttempt, Goto, TypeInv, TypeOK
<1>4. QED
  BY <1>1, <1>3, CountQuiet

LEMMA StoreDocumentCount ==
    ASSUME JobState, CountInv, NEW s \in Sessions, StoreDocument(s) PROVE CountInv'
<1>1. UNCHANGED <<aiJobs, llmLogs, events>> /\ OnlySession(s) /\ Goto(s, "complete") /\ TypeInv
  BY StoreDocumentFacts DEF StoreDocument, JobState, Invariants
<1>2. NextAttempt(s)'
  BY <1>1 DEF NextAttempt, Goto, TypeInv, TypeOK
<1>3. QED
  BY <1>1, <1>2, CountQuiet

LEMMA FinishAlone ==
    ASSUME JobState, NEW s \in Sessions, Finishes(s)
    PROVE  OnlySession(s) /\ NextAttempt(s)'
<1>1. TypeInv /\ UNCHANGED <<item, req>>
  BY FinishFacts DEF JobState, Invariants
<1>2. PICK o, m, k : Finish(s, o, m, k)
  BY FinishFacts DEF JobState, Invariants
<1>3. QED
  BY <1>1, <1>2 DEF Finish, OnlySession, NextAttempt, TypeInv, TypeOK

LEMMA OtherEndsCount ==
    ASSUME JobState, CountInv, NEW s \in Sessions, Finishes(s), ~RecordAiFailure(s)
    PROVE  CountInv'
<1>1. UNCHANGED <<aiJobs, llmLogs, events>>
  BY DEF Finishes, AnswerDuplicate, RecordFailure, RecordLinkedFailure, Recalculate, ReprocessThrows,
     RequestAnalysis, CatchThrows, dbVars
<1>2. QED
  BY <1>1, FinishAlone, CountQuiet

(* The insertion of an AI job: its number is within the new count, and the   *)
(* first one of a text is number 1.                                         *)
LEMMA QueueAiJobCount ==
    ASSUME JobState, CountInv, NEW s \in Sessions, QueueAiJob(s) PROVE CountInv'
<1> DEFINE u == TextOf(s)
           n == Cardinality(AiJobsOf(u))
<1>1. /\ TypeInv /\ Moves(s) /\ UNCHANGED <<llmLogs, events>> /\ Goto(s, "askAi") /\ pc[s] = "queueAi"
      /\ aiJobs' = [aiJobs EXCEPT ![OpOf(s)] = [status |-> "Running", doc |-> u,
                                                attempts |-> local[s].attempts]]
  BY DEF QueueAiJob, Moves, JobState, Invariants
<1>2. OnlySession(s) /\ Active(s)
  BY <1>1, MoveFacts
<1>3. PICK op \in Op : op = OpOf(s)
  BY <1>1, <1>2, Underway
<1>4. /\ aiJobs[op] = NoJob /\ u \in Texts /\ local[s].attempts \in 1..(n + 1) /\ n \in Nat
  BY <1>1, <1>2, <1>3, Underway, JobsOfFinite
  DEF JobState, JobsInv, SessionJobs, AtAwait, UnqueuedPc, CountInv, NextAttempt
<1>5. /\ aiJobs'[op] = [status |-> "Running", doc |-> u, attempts |-> local[s].attempts]
      /\ \A p \in Op \ {op} : aiJobs'[p] = aiJobs[p]
  BY <1>1, <1>3 DEF TypeInv, TypeOK
<1>6. \A t \in Texts : /\ op \notin AiJobsOf(t)
                       /\ AiJobsOf(t)' = IF t = u THEN AiJobsOf(t) \cup {op} ELSE AiJobsOf(t)
  BY <1>4, <1>5, SessionsAssumption DEF AiJobsOf, NoJob
<1>7. Cardinality(AiJobsOf(u) \cup {op}) = n + 1
  BY <1>4, <1>6, JobsOfFinite, FS_AddElement
<1>8. LogsMatchJobs'
  <2>1. \A t \in Texts : {p \in AiJobsOf(t)' : aiJobs'[p].status = "Failed"}
                          = {p \in AiJobsOf(t) : aiJobs[p].status = "Failed"}
    BY <1>5, <1>6 DEF AiJobsOf
  <2>2. QED
    BY <1>1, <2>1 DEF CountInv, LogsMatchJobs
<1>9. AttemptsNumbered'
  <2>1. ASSUME NEW t \in Texts, t # u, AiJobsOf(t)' # {}
        PROVE  /\ \E p \in AiJobsOf(t)' : aiJobs'[p].attempts = 1
               /\ \A p \in AiJobsOf(t)' : aiJobs'[p].attempts \in 1..Cardinality(AiJobsOf(t)')
    <3>1. AiJobsOf(t)' = AiJobsOf(t) /\ \A p \in AiJobsOf(t) : aiJobs'[p] = aiJobs[p]
      BY <1>5, <1>6, <2>1 DEF AiJobsOf
    <3>2. QED
      BY <2>1, <3>1 DEF CountInv, AttemptsNumbered
  <2>2. /\ \E p \in AiJobsOf(u) \cup {op} : aiJobs'[p].attempts = 1
        /\ \A p \in AiJobsOf(u) \cup {op} : aiJobs'[p].attempts \in 1..(n + 1)
    <3>1. \A p \in AiJobsOf(u) : aiJobs'[p] = aiJobs[p]
      BY <1>4, <1>5, <1>6 DEF AiJobsOf
    <3>2. aiJobs'[op].attempts \in 1..(n + 1)
      BY <1>4, <1>5
    <3>3. CASE AiJobsOf(u) = {}
      <4>1. n = 0
        BY <3>3, FS_EmptySet
      <4>2. QED
        BY <3>2, <3>3, <4>1
    <3>4. CASE AiJobsOf(u) # {}
      <4>1. /\ \E p \in AiJobsOf(u) : aiJobs[p].attempts = 1
            /\ \A p \in AiJobsOf(u) : aiJobs[p].attempts \in 1..n
        BY <1>4, <3>4 DEF CountInv, AttemptsNumbered
      <4>2. QED
        BY <1>4, <3>1, <3>2, <4>1
    <3>5. QED
      BY <3>3, <3>4
  <2>3. \A t \in Texts : t = u => AiJobsOf(t)' = AiJobsOf(u) \cup {op}
    BY <1>6
  <2> HIDE DEF u, n
  <2>4. ASSUME NEW t \in Texts, t = u
        PROVE  /\ \E p \in AiJobsOf(t)' : aiJobs'[p].attempts = 1
               /\ \A p \in AiJobsOf(t)' : aiJobs'[p].attempts \in 1..Cardinality(AiJobsOf(t)')
    BY <1>7, <2>2, <2>3, <2>4
  <2>5. QED
    BY <2>1, <2>4 DEF AttemptsNumbered
<1>10. \A q \in Sessions \ {s} : NextAttempt(q)'
  BY <1>2, <1>6, NextAttemptOfOthers
<1>11. NextAttempt(s)'
  BY <1>1 DEF NextAttempt, Goto, TypeInv, TypeOK
<1>12. QED
  BY <1>8, <1>9, <1>10, <1>11 DEF CountInv

(* The transaction that stores an event logs one success, and a text gets    *)
(* its event once.                                                          *)
LEMMA SaveEventCount ==
    ASSUME JobState, CountInv, NEW s \in Sessions, SaveEvent(s) PROVE CountInv'
<1>1. /\ TypeInv /\ Active(s) /\ OnlySession(s) /\ TextOf(s) \in Texts /\ Goto(s, "recalculate")
  BY SaveEventFacts DEF JobState, Invariants
<1>2. OpOf(s) \in Op /\ aiJobs[OpOf(s)].status # "Failed"
  BY <1>1, Underway DEF JobState, Invariants, StatusInv, SessionStatus, Unfailed, OpOf
<1>3. aiJobs' = [aiJobs EXCEPT ![OpOf(s)].status = "Succeeded"]
  BY DEF SaveEvent
<1>4. StatusesOnly
  BY <1>1, <1>2, <1>3 DEF StatusesOnly, TypeInv, TypeOK, JobRow
<1>5. \A op \in Op : aiJobs'[op].status = "Failed" <=> aiJobs[op].status = "Failed"
  BY <1>1, <1>2, <1>3 DEF TypeInv, TypeOK, JobRow
<1>6. LogsMatchJobs'
  <2>1. \A t \in Texts : {op \in AiJobsOf(t)' : aiJobs'[op].status = "Failed"}
                          = {op \in AiJobsOf(t) : aiJobs[op].status = "Failed"}
    BY <1>4, <1>5 DEF AiJobsOf, StatusesOnly
  <2>2. \A t \in Texts :
           /\ llmLogs'[t].Error = llmLogs[t].Error
           /\ llmLogs'[t].Success = IF t = TextOf(s) THEN llmLogs[t].Success + 1
                                    ELSE llmLogs[t].Success
    BY <1>1 DEF SaveEvent, TypeInv, TypeOK
  <2>3. TextOf(s) \notin events /\ events' = events \cup {TextOf(s)}
    BY DEF SaveEvent
  <2>4. ASSUME NEW t \in Texts PROVE llmLogs'[t].Success = IF t \in events' THEN 1 ELSE 0
    <3>1. llmLogs[t].Success = IF t \in events THEN 1 ELSE 0
      BY DEF CountInv, LogsMatchJobs
    <3>2. QED
      BY <2>2, <2>3, <3>1
  <2>5. ASSUME NEW t \in Texts
        PROVE  llmLogs'[t].Error
                   = Cardinality({op \in AiJobsOf(t)' : aiJobs'[op].status = "Failed"})
    BY <2>1, <2>2 DEF CountInv, LogsMatchJobs
  <2>6. QED
    BY <2>4, <2>5 DEF LogsMatchJobs
<1>7. NextAttempt(s)'
  BY <1>1 DEF NextAttempt, Goto, TypeInv, TypeOK
<1>8. QED
  BY <1>1, <1>4, <1>6, <1>7, CountStep

(* The save that records a failed analysis logs one error and fails one job  *)
(* of the text.                                                             *)
LEMMA RecordAiFailureCount ==
    ASSUME JobState, CountInv, NEW s \in Sessions, RecordAiFailure(s) PROVE CountInv'
<1> DEFINE u == TextOf(s)
<1>1. /\ TypeInv /\ Active(s) /\ Finishes(s) /\ pc[s] = "failAi" /\ events' = events
      /\ llmLogs' = [llmLogs EXCEPT ![u].Error = @ + 1]
      /\ aiJobs' = [aiJobs EXCEPT ![OpOf(s)].status = "Failed"]
  BY DEF RecordAiFailure, Finishes, Active, JobState, Invariants
<1>2. PICK op \in Op : op = OpOf(s)
  BY <1>1, Underway
<1>3. aiJobs[op].doc = u /\ aiJobs[op].status # "Failed" /\ u \in Texts
  BY <1>1, <1>2, Underway DEF JobState, Invariants, StatusInv, SessionStatus, Unfailed, AiStarted, AiPc,
     OpOf
<1>4. StatusesOnly
  BY <1>1, <1>2 DEF StatusesOnly, TypeInv, TypeOK, JobRow
<1>5. \A p \in Op : aiJobs'[p].status = "Failed" <=> aiJobs[p].status = "Failed" \/ p = op
  BY <1>1, <1>2 DEF TypeInv, TypeOK, JobRow
<1>6. \A t \in Texts : FailedAi(t)' = IF t = u THEN FailedAi(t) \cup {op} ELSE FailedAi(t)
  BY <1>3, <1>4, <1>5 DEF FailedAi, AiJobsOf, StatusesOnly
<1>7. /\ op \notin FailedAi(u)
      /\ Cardinality(FailedAi(u) \cup {op}) = Cardinality(FailedAi(u)) + 1
  BY <1>3, JobsOfFinite, FS_AddElement DEF FailedAi
<1>8. \A t \in Texts :
         /\ llmLogs'[t].Success = llmLogs[t].Success
         /\ llmLogs'[t].Error = IF t = u THEN llmLogs[t].Error + 1 ELSE llmLogs[t].Error
  BY <1>1, <1>3 DEF TypeInv, TypeOK
<1>9. LogsMatchJobs'
  <2>1. ASSUME NEW t \in Texts PROVE llmLogs'[t].Error = Cardinality(FailedAi(t)')
    <3>1. llmLogs[t].Error = Cardinality(FailedAi(t))
      BY DEF CountInv, LogsMatchJobs, FailedAi
    <3>2. CASE t = u
      <4>1. FailedAi(t)' = FailedAi(t) \cup {op}
        BY <1>6, <3>2
      <4>2. Cardinality(FailedAi(t) \cup {op}) = Cardinality(FailedAi(t)) + 1
        BY <1>7, <3>2
      <4>3. QED
        BY <1>8, <3>1, <3>2, <4>1, <4>2
    <3>3. CASE t # u
      BY <1>6, <1>8, <3>1, <3>3
    <3>4. QED
      BY <3>2, <3>3
  <2>2. QED
    BY <1>1, <1>8, <2>1 DEF CountInv, LogsMatchJobs, FailedAi
<1>10. QED
  BY <1>1, <1>4, <1>9, FinishAlone, CountStep

LEMMA CrashCount == ASSUME JobState, CountInv, NEW h, Crash(h) PROVE CountInv'
<1>1. UNCHANGED <<aiJobs, llmLogs, events, item, req>>
  BY DEF Crash, dbVars
<1>2. LogsMatchJobs' /\ AttemptsNumbered'
  BY <1>1 DEF CountInv, LogsMatchJobs, AttemptsNumbered, AiJobsOf
<1>3. ASSUME NEW s \in Sessions PROVE NextAttempt(s)'
  <2>1. pc'[s] = "stopped" \/ (pc'[s] = pc[s] /\ local'[s] = local[s])
    BY DEF Crash
  <2>2. QED
    BY <1>1, <2>1 DEF CountInv, NextAttempt, AiJobsOf, TextOf, OpOf
<1>4. QED
  BY <1>2, <1>3 DEF CountInv

LEMMA NextCountInv == JobState /\ CountInv /\ [Next]_vars => CountInv'
<1> SUFFICES ASSUME JobState, CountInv, [Next]_vars PROVE CountInv'
  OBVIOUS
<1>1. CASE UNCHANGED vars
  BY <1>1 DEF vars, dbVars, sessVars, ctxVars, CountInv, LogsMatchJobs, AttemptsNumbered, AiJobsOf,
     NextAttempt, TextOf, OpOf
<1>2. QED
  BY <1>1, StepKinds, StartCount, CountAttemptsCount, QueueAiJobCount, OtherMovesCount,
     StoreDocumentCount, SaveEventCount, RecordAiFailureCount, OtherEndsCount, CrashCount

LEMMA CountInvariant == Spec => []CountInv
BY JobsInvariant, InitCountInv, NextCountInv, PTL DEF Spec

(* LLMCallLogs agrees with the outcome of the analyses: one success for a    *)
(* text with an event, as many errors as Failed AI jobs, whatever the        *)
(* sessions, faults and crashes.                                            *)
THEOREM LogsAgree == Spec => []LogsMatchJobs
<1>1. CountInv => LogsMatchJobs
  BY DEF CountInv
<1>2. QED
  BY <1>1, CountInvariant, PTL

(* The attempts of a text's AI jobs start at 1 and stay within their number, *)
(* although sessions read the count before they insert the job: a number     *)
(* that was read is within the count from then on, since no job is deleted.  *)
THEOREM AttemptsInRange == Spec => []AttemptsNumbered
<1>1. CountInv => AttemptsNumbered
  BY DEF CountInv
<1>2. QED
  BY <1>1, CountInvariant, PTL
================================================================================
