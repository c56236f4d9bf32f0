---------------------- MODULE ImpactRecalculation_proofs ----------------------
(***************************************************************************)
(* Proofs about ImpactRecalculation for any number of events, requests,    *)
(* profiles, factors and faults.                                           *)
(***************************************************************************)
EXTENDS ImpactRecalculation, FiniteSetTheorems, TLAPS

(* The recalculation of a session of an event has ended.                   *)
Ended(w, e) == pc[w] = "done" /\ about[w] = e

(* R is what one ended recalculation of e inserted, or nothing.            *)
OneWriter(R, e) == R = {} \/ \E w \in Sessions : Ended(w, e) /\ R = Created(w)

SessionOK(s) ==
    /\ pc[s] # "ready" => about[s] \in Events
    /\ pc[s] # "done" => answer[s] = "none"
    /\ seen[s] <= Len(clients)
    /\ pc[s] = "save" => OneWriter(old[s], about[s])

(* OneAssessment says nothing of the rows a session has loaded and deletes *)
(* later; they too are those of one recalculation.                         *)
Inv ==
    /\ TypeOK
    /\ \A s \in Sessions : SessionOK(s)
    /\ \A e \in Events : OneWriter(RowsOf(e), e)

-----------------------------------------------------------------------------
(* What a session inserts.                                                 *)

LEMMA CreatedRows ==
    ASSUME TypeOK, NEW s \in Sessions, about[s] \in Events
    PROVE  Created(s) \subseteq ImpactRow
<1> SUFFICES ASSUME NEW c \in 1..seen[s]
             PROVE  [event |-> about[s], client |-> c, level |-> Level(about[s], c), by |-> s]
                        \in ImpactRow
  BY DEF Created
<1>1. seen[s] \in 0..MaxClients /\ MaxClients \in Nat
  BY RecalculationAssumption DEF TypeOK
<1>2. c \in 1..MaxClients
  BY <1>1
<1>3. Level(about[s], c) \in Levels
  BY DEF Level, Levels
<1>4. QED
  BY <1>2, <1>3 DEF ImpactRow

LEMMA CreatedFields ==
    ASSUME NEW s \in Sessions
    PROVE  /\ \A r \in Created(s) : /\ r.by = s /\ r.event = about[s]
                                    /\ r.client \in 1..seen[s]
                                    /\ HitFactors(about[s], r.client) # {}
           /\ \A c \in 1..seen[s] : HitFactors(about[s], c) # {} =>
                 \E r \in Created(s) : r.client = c /\ r.event = about[s]
<1>1. ASSUME NEW r \in Created(s)
      PROVE  /\ r.by = s /\ r.event = about[s] /\ r.client \in 1..seen[s]
             /\ HitFactors(about[s], r.client) # {}
  <2>1. PICK c \in {d \in 1..seen[s] : HitFactors(about[s], d) # {}} :
          r = [event |-> about[s], client |-> c, level |-> Level(about[s], c), by |-> s]
    BY DEF Created
  <2>2. QED
    BY <2>1
<1>2. ASSUME NEW c \in 1..seen[s], HitFactors(about[s], c) # {}
      PROVE  \E r \in Created(s) : r.client = c /\ r.event = about[s]
  <2> DEFINE r == [event |-> about[s], client |-> c, level |-> Level(about[s], c), by |-> s]
  <2>1. r \in Created(s)
    BY <1>2 DEF Created
  <2>2. QED
    BY <2>1
<1>3. QED
  BY <1>1, <1>2

(* An added profile leaves the earlier ones as they are.                   *)
LEMMA EarlierClients ==
    ASSUME TypeOK, NEW traits \in SUBSET Factors, clients' = Append(clients, traits)
    PROVE  /\ clients' \in Seq(SUBSET Factors)
           /\ Len(clients') = Len(clients) + 1
           /\ \A c \in 1..Len(clients) : clients'[c] = clients[c]
BY DEF TypeOK

(* No step disturbs what an ended session has read.                        *)
Settled ==
    /\ clients' = clients \/ \E traits \in SUBSET Factors : clients' = Append(clients, traits)
    /\ \A w \in Sessions : pc[w] = "done" =>
          pc'[w] = "done" /\ about'[w] = about[w] /\ seen'[w] = seen[w]

LEMMA CreatedKept ==
    ASSUME TypeOK, NEW s \in Sessions, seen[s] <= Len(clients),
           about'[s] = about[s], seen'[s] = seen[s],
           clients' = clients \/ \E traits \in SUBSET Factors : clients' = Append(clients, traits)
    PROVE  Created(s)' = Created(s)
<1> DEFINE e == about[s]
<1>1. \A c \in 1..seen[s] : clients'[c] = clients[c]
  <2>1. seen[s] \in Nat /\ Len(clients) \in Nat
    BY RecalculationAssumption DEF TypeOK
  <2>2. QED
    BY <2>1, EarlierClients
<1>2. \A c \in 1..seen[s] : HitFactors(e, c)' = HitFactors(e, c)
  BY <1>1 DEF HitFactors
<1>3. \A c \in 1..seen[s] : Level(e, c)' = Level(e, c)
  BY <1>2 DEF Level
<1>4. {d \in 1..seen[s] : HitFactors(e, d)' # {}} = {d \in 1..seen[s] : HitFactors(e, d) # {}}
  BY <1>2
<1>5. QED
  BY <1>2, <1>3, <1>4 DEF Created

LEMMA WriterKept ==
    ASSUME Inv, Settled, NEW R, NEW e, OneWriter(R, e)
    PROVE  R = {} \/ \E w \in Sessions : Ended(w, e)' /\ R = Created(w)'
<1>1. CASE R = {}
  BY <1>1
<1>2. ASSUME NEW w \in Sessions, Ended(w, e), R = Created(w)
      PROVE  Ended(w, e)' /\ R = Created(w)'
  <2>1. Created(w)' = Created(w)
    BY <1>2, CreatedKept DEF Inv, SessionOK, Settled, Ended
  <2>2. QED
    BY <1>2, <2>1 DEF Settled, Ended
<1>3. QED
  BY <1>1, <1>2 DEF OneWriter

(* A save that goes through replaces the whole assessment, or has nothing  *)
(* to write and nothing to delete: with fewer or more profiles than the    *)
(* rows it did not see, it would insert a row of one of their clients.     *)
LEMMA SaveReplacesAll ==
    ASSUME Inv, NEW s \in Sessions, Saves(s)
    PROVE  \/ Replaced(s) = (impacts \ RowsOf(about[s])) \cup Created(s)
           \/ old[s] = {} /\ Created(s) = {} /\ Replaced(s) = impacts
<1> DEFINE e == about[s]
<1>1. e \in Events /\ OneWriter(old[s], e) /\ OneWriter(RowsOf(e), e) /\ old[s] \subseteq impacts
  BY DEF Inv, SessionOK, Saves, RowsGone
<1>2. CASE old[s] # {}
  <2>1. PICK w \in Sessions : Ended(w, e) /\ old[s] = Created(w)
    BY <1>1, <1>2 DEF OneWriter
  <2>2. old[s] \subseteq RowsOf(e)
    BY <1>1, <2>1, CreatedFields DEF RowsOf, Ended
  <2>3. PICK x \in Sessions : Ended(x, e) /\ RowsOf(e) = Created(x)
    BY <1>1, <1>2, <2>2 DEF OneWriter
  <2>4. x = w
    BY <1>2, <2>1, <2>2, <2>3, CreatedFields
  <2>5. QED
    BY <2>1, <2>3, <2>4 DEF Replaced
<1>3. CASE old[s] = {} /\ RowsOf(e) = {}
  BY <1>3 DEF Replaced
<1>4. CASE old[s] = {} /\ RowsOf(e) # {}
  <2>1. PICK x \in Sessions : Ended(x, e) /\ RowsOf(e) = Created(x)
    BY <1>1, <1>4 DEF OneWriter
  <2>2. PICK r \in RowsOf(e) : TRUE
    BY <1>4
  <2>3. ASSUME NEW q \in Created(s) PROVE FALSE
    <3>1. seen[s] \in Nat /\ seen[x] \in Nat
      BY RecalculationAssumption DEF Inv, TypeOK
    <3>2. CASE q.client <= seen[x]
      <4>1. q.client \in 1..seen[x] /\ HitFactors(e, q.client) # {}
        BY <3>1, <3>2, <2>3, CreatedFields
      <4>2. PICK p \in Created(x) : p.client = q.client
        BY <4>1, <2>1, CreatedFields DEF Ended
      <4>3. QED
        BY <4>2, <2>1, <2>3, <1>4 DEF Saves, RowsTaken
    <3>3. CASE ~(q.client <= seen[x])
      <4>1. r.client \in 1..seen[s] /\ HitFactors(e, r.client) # {}
        BY <3>1, <3>3, <2>1, <2>2, <2>3, CreatedFields DEF Ended
      <4>2. PICK p \in Created(s) : p.client = r.client
        BY <4>1, CreatedFields
      <4>3. QED
        BY <4>2, <2>2, <1>4 DEF Saves, RowsTaken
    <3>4. QED
      BY <3>2, <3>3
  <2>4. Created(s) = {}
    BY <2>3
  <2>5. QED
    BY <1>4, <2>4 DEF Replaced
<1>5. QED
  BY <1>2, <1>3, <1>4

-----------------------------------------------------------------------------
(* The invariant.                                                          *)

LEMMA InitInv == Init => Inv
<1> SUFFICES ASSUME Init PROVE Inv
  OBVIOUS
<1>1. TypeOK
  BY RecalculationAssumption DEF Init, TypeOK, Pc, Answer
<1>2. \A s \in Sessions : SessionOK(s)
  BY DEF Init, SessionOK, OneWriter
<1>3. \A e \in Events : OneWriter(RowsOf(e), e)
  BY DEF Init, OneWriter, RowsOf
<1>4. QED
  BY <1>1, <1>2, <1>3 DEF Inv

(* The sessions a step leaves alone keep their part of the invariant.       *)
LEMMA SessionsCarry ==
    ASSUME Inv, TypeOK', Settled, NEW A \in SUBSET Sessions,
           \A s \in A : SessionOK(s)',
           Len(clients) <= Len(clients'),
           \A t \in Sessions \ A : /\ pc'[t] = pc[t] /\ about'[t] = about[t]
                                   /\ seen'[t] = seen[t] /\ old'[t] = old[t]
                                   /\ answer'[t] = answer[t]
    PROVE  \A s \in Sessions : SessionOK(s)'
<1> SUFFICES ASSUME NEW t \in Sessions \ A PROVE SessionOK(t)'
  OBVIOUS
<1>1. SessionOK(t)
  BY DEF Inv
<1>2. ASSUME pc'[t] = "save" PROVE OneWriter(old[t], about[t])'
  <2>1. OneWriter(old[t], about[t])
    BY <1>1, <1>2 DEF SessionOK
  <2>2. old[t] = {} \/ \E w \in Sessions : Ended(w, about[t])' /\ old[t] = Created(w)'
    BY <2>1, WriterKept DEF Ended
  <2>3. QED
    BY <2>2 DEF OneWriter, Ended
<1>3. seen'[t] <= Len(clients')
  <2>1. seen[t] \in Nat /\ Len(clients) \in Nat /\ Len(clients') \in Nat
    BY RecalculationAssumption DEF Inv, TypeOK
  <2>2. QED
    BY <1>1, <2>1 DEF SessionOK
<1>4. QED
  BY <1>1, <1>2, <1>3 DEF SessionOK

LEMMA RowsCarry ==
    ASSUME Inv, Settled, NEW e \in Events, RowsOf(e)' = RowsOf(e)
    PROVE  OneWriter(RowsOf(e), e)'
<1>1. OneWriter(RowsOf(e), e)
  BY DEF Inv
<1>2. RowsOf(e) = {} \/ \E w \in Sessions : Ended(w, e)' /\ RowsOf(e) = Created(w)'
  BY <1>1, WriterKept
<1>3. QED
  BY <1>2 DEF OneWriter

(* A step that writes no impacts.                                          *)
LEMMA CarryOver ==
    ASSUME Inv, TypeOK', Settled, NEW A \in SUBSET Sessions,
           \A s \in A : SessionOK(s)',
           Len(clients) <= Len(clients'), impacts' = impacts,
           \A t \in Sessions \ A : /\ pc'[t] = pc[t] /\ about'[t] = about[t]
                                   /\ seen'[t] = seen[t] /\ old'[t] = old[t]
                                   /\ answer'[t] = answer[t]
    PROVE  Inv'
<1>1. \A s \in Sessions : SessionOK(s)'
  BY SessionsCarry
<1>2. \A e \in Events : OneWriter(RowsOf(e), e)'
  BY RowsCarry DEF RowsOf
<1>3. QED
  BY <1>1, <1>2 DEF Inv

(* A save goes through and its session ends.                               *)
LEMMA SaveInv ==
    ASSUME Inv, TypeOK', NEW s \in Sessions, Saves(s), impacts' = Replaced(s),
           pc' = [pc EXCEPT ![s] = "done"],
           \A t \in Sessions \ {s} : answer'[t] = answer[t],
           UNCHANGED <<clients, about, seen, old>>
    PROVE  Inv'
<1> DEFINE e == about[s]
<1>1. Settled
  BY DEF Settled, Inv, TypeOK
<1>2. SessionOK(s)'
  BY DEF Inv, TypeOK, SessionOK, Saves
<1>3. \A t \in Sessions : SessionOK(t)'
  <2>1. Len(clients) <= Len(clients')
    BY DEF Inv, TypeOK
  <2>2. \A t \in Sessions \ {s} : /\ pc'[t] = pc[t] /\ about'[t] = about[t]
                                  /\ seen'[t] = seen[t] /\ old'[t] = old[t]
                                  /\ answer'[t] = answer[t]
    BY DEF Inv, TypeOK
  <2>3. {s} \in SUBSET Sessions /\ \A u \in {s} : SessionOK(u)'
    BY <1>2
  <2>4. QED
    BY <1>1, <2>1, <2>2, <2>3, SessionsCarry
<1>4. e \in Events
  BY DEF Inv, SessionOK, Saves
<1>5. Created(s)' = Created(s)
  BY <1>1, CreatedKept DEF Inv, SessionOK, Settled
<1>6. ASSUME NEW d \in Events, d # e PROVE RowsOf(d)' = RowsOf(d)
  BY <1>6, SaveReplacesAll, CreatedFields DEF RowsOf
<1>7. OneWriter(RowsOf(e), e)'
  <2>1. CASE impacts' = (impacts \ RowsOf(e)) \cup Created(s)
    <3>1. RowsOf(e)' = Created(s)
      BY <2>1, CreatedFields DEF RowsOf
    <3>2. Ended(s, e)'
      BY DEF Ended, Inv, TypeOK
    <3>3. QED
      BY <1>5, <3>1, <3>2 DEF OneWriter
  <2>2. CASE impacts' = impacts
    BY <1>1, <1>4, <2>2, RowsCarry DEF RowsOf
  <2>3. QED
    BY <2>1, <2>2, SaveReplacesAll
<1>8. \A d \in Events : OneWriter(RowsOf(d), d)'
  BY <1>1, <1>6, <1>7, RowsCarry
<1>9. QED
  BY <1>3, <1>8 DEF Inv

-----------------------------------------------------------------------------
(* Steps.                                                                  *)

LEMMA AddClientInv ==
    ASSUME Inv, NEW traits \in SUBSET Factors, AddClient(traits)
    PROVE  Inv' /\ Settled
<1>1. Settled
  BY DEF AddClient, callVars, Settled
<1>2. Len(clients) \in Nat /\ Len(clients') = Len(clients) + 1 /\ clients' \in Seq(SUBSET Factors)
  BY EarlierClients DEF AddClient, Inv, TypeOK
<1>3. TypeOK'
  BY <1>2, RecalculationAssumption DEF AddClient, callVars, Inv, TypeOK
<1>4. \A t \in Sessions : /\ pc'[t] = pc[t] /\ about'[t] = about[t] /\ seen'[t] = seen[t]
                          /\ old'[t] = old[t] /\ answer'[t] = answer[t]
  BY DEF AddClient, callVars
<1>5. {} \in SUBSET Sessions /\ \A u \in {} : SessionOK(u)'
  OBVIOUS
<1>6. Len(clients) <= Len(clients') /\ impacts' = impacts
  BY <1>2 DEF AddClient
<1>7. QED
  BY <1>1, <1>3, <1>4, <1>5, <1>6, CarryOver

(* A step of one session that only moves and remembers.                    *)
LEMMA MoveInv ==
    ASSUME Inv, NEW s \in Sessions, pc[s] # "done", TypeOK', SessionOK(s)',
           \A t \in Sessions \ {s} : /\ pc'[t] = pc[t] /\ about'[t] = about[t]
                                     /\ seen'[t] = seen[t] /\ old'[t] = old[t]
                                     /\ answer'[t] = answer[t],
           clients' = clients, impacts' = impacts
    PROVE  Inv' /\ Settled
<1>1. Settled
  BY DEF Settled
<1>2. {s} \in SUBSET Sessions /\ \A u \in {s} : SessionOK(u)'
  OBVIOUS
<1>3. Len(clients) <= Len(clients')
  BY DEF Inv, TypeOK
<1>4. QED
  BY <1>1, <1>2, <1>3, CarryOver

LEMMA RequestInv ==
    ASSUME Inv, NEW e \in Events, NEW s \in Requests, Request(s, e)
    PROVE  Inv' /\ Settled
<1>1. TypeOK'
  BY DEF Request, Goto, Inv, TypeOK, Sessions, Pc
<1>2. SessionOK(s)'
  BY DEF Request, Goto, Inv, TypeOK, SessionOK, Sessions
<1>3. QED
  BY <1>1, <1>2, MoveInv DEF Request, Goto, Inv, TypeOK, Sessions

LEMMA SaveEventInv ==
    ASSUME Inv, NEW e \in Events, SaveEvent(e)
    PROVE  Inv' /\ Settled
<1>1. TypeOK'
  BY DEF SaveEvent, Goto, Inv, TypeOK, Sessions, Pc
<1>2. SessionOK(e)'
  BY DEF SaveEvent, Goto, Inv, TypeOK, SessionOK, Sessions
<1>3. QED
  BY <1>1, <1>2, MoveInv DEF SaveEvent, Goto, Inv, TypeOK, Sessions

LEMMA FindEventInv ==
    ASSUME Inv, NEW s \in Sessions, FindEvent(s)
    PROVE  Inv' /\ Settled
<1>1. TypeOK'
  BY DEF FindEvent, Goto, Inv, TypeOK, Pc
<1>2. SessionOK(s)'
  BY DEF FindEvent, Goto, Inv, TypeOK, SessionOK
<1>3. QED
  BY <1>1, <1>2, MoveInv DEF FindEvent, Goto, Inv, TypeOK

LEMMA ReadClientsInv ==
    ASSUME Inv, NEW s \in Sessions, ReadClients(s)
    PROVE  Inv' /\ Settled
<1>1. Len(clients) \in 0..MaxClients
  BY RecalculationAssumption DEF Inv, TypeOK
<1>2. TypeOK'
  BY <1>1 DEF ReadClients, Goto, Inv, TypeOK, Pc
<1>3. SessionOK(s)'
  BY <1>1 DEF ReadClients, Goto, Inv, TypeOK, SessionOK
<1>4. QED
  BY <1>2, <1>3, MoveInv DEF ReadClients, Goto, Inv, TypeOK

(* The rows a session loads are those of one ended recalculation.          *)
LEMMA ReadExistingInv ==
    ASSUME Inv, NEW s \in Sessions, ReadExisting(s)
    PROVE  Inv' /\ Settled
<1>1. TypeOK'
  BY DEF ReadExisting, Goto, Inv, TypeOK, Pc, RowsOf
<1>2. SessionOK(s)'
  <2>1. about[s] \in Events /\ OneWriter(RowsOf(about[s]), about[s])
    BY DEF ReadExisting, Inv, SessionOK
  <2>2. Settled
    BY DEF Settled, ReadExisting, Goto, Inv, TypeOK
  <2>3. \/ RowsOf(about[s]) = {}
        \/ \E w \in Sessions : Ended(w, about[s])' /\ RowsOf(about[s]) = Created(w)'
    BY <2>1, <2>2, WriterKept DEF Ended, ReadExisting
  <2>4. old'[s] = RowsOf(about[s])
    BY DEF ReadExisting, Inv, TypeOK
  <2>5. OneWriter(old[s], about[s])'
    BY <2>3, <2>4 DEF OneWriter, Ended, ReadExisting
  <2>6. QED
    BY <2>5 DEF ReadExisting, Goto, Inv, TypeOK, SessionOK
<1>3. QED
  BY <1>1, <1>2, MoveInv DEF ReadExisting, Goto, Inv, TypeOK

(* A session ends without having written.                                  *)
LEMMA EndInv ==
    ASSUME Inv, NEW s \in Sessions, pc[s] \notin {"ready", "done"},
           NEW outcome \in Answer, Finish(s, outcome),
           impacts' = impacts, faults' \in 0..MaxFaults,
           UNCHANGED <<clients, events, about, seen, old>>
    PROVE  Inv' /\ Settled
<1>1. TypeOK'
  BY DEF Finish, Goto, Inv, TypeOK, Pc
<1>2. SessionOK(s)'
  BY DEF Finish, Goto, Inv, TypeOK, SessionOK
<1>3. QED
  BY <1>1, <1>2, MoveInv DEF Finish, Goto, Inv, TypeOK

(* A session ends and its save has gone through.                           *)
LEMMA SaveEndInv ==
    ASSUME Inv, NEW s \in Sessions, Saves(s), impacts' = Replaced(s),
           NEW outcome \in Answer, Finish(s, outcome), faults' \in 0..MaxFaults,
           UNCHANGED <<clients, events, about, seen, old>>
    PROVE  Inv' /\ Settled
<1>1. about[s] \in Events
  BY DEF Inv, SessionOK, Saves
<1>2. impacts' \subseteq ImpactRow
  BY <1>1, CreatedRows DEF Replaced, Inv, TypeOK
<1>3. TypeOK'
  BY <1>2 DEF Finish, Goto, Inv, TypeOK, Pc
<1>4. Settled
  BY DEF Settled, Finish, Goto, Inv, TypeOK
<1>5. QED
  BY <1>3, <1>4, SaveInv DEF Finish, Goto, Inv, TypeOK

(* Every step preserves the invariant and what ended sessions have read;   *)
(* it writes impacts only by the save of a session that ends with it.      *)
Wrote(s) ==
    /\ Saves(s) /\ pc'[s] = "done"
    /\ impacts' = Replaced(s)
    /\ UNCHANGED <<clients, about, seen>>

LEMMA StepInv ==
    ASSUME Inv, NEW s \in Sessions, Step(s)
    PROVE  Inv' /\ Settled /\ (impacts' = impacts \/ Wrote(s))
<1>1. CASE FindEvent(s)
  BY <1>1, FindEventInv DEF FindEvent
<1>2. CASE EventMissing(s)
  BY <1>2, EndInv DEF EventMissing, Answer, Inv, TypeOK
<1>3. CASE ReadClients(s)
  BY <1>3, ReadClientsInv DEF ReadClients
<1>4. CASE ReadExisting(s)
  BY <1>4, ReadExistingInv DEF ReadExisting
<1>5. CASE Commit(s)
  <2>1. Inv' /\ Settled
    BY <1>5, SaveEndInv DEF Commit, Answer, Inv, TypeOK
  <2>2. Wrote(s)
    BY <1>5 DEF Commit, Wrote, Finish, Goto, Inv, TypeOK
  <2>3. QED
    BY <2>1, <2>2
<1>6. CASE Conflict(s)
  <2>1. PICK outcome \in Answer : Finish(s, outcome)
    BY <1>6 DEF Conflict, Answer
  <2>2. QED
    BY <1>6, <2>1, EndInv DEF Conflict, Inv, TypeOK
<1>7. CASE Throws(s)
  <2>1. PICK outcome \in Answer : Finish(s, outcome)
    BY <1>7 DEF Throws, Answer
  <2>2. faults' \in 0..MaxFaults
    BY <1>7, RecalculationAssumption DEF Throws, Inv, TypeOK
  <2>3. CASE impacts' = impacts
    BY <1>7, <2>1, <2>2, <2>3, EndInv DEF Throws
  <2>4. CASE Saves(s) /\ impacts' = Replaced(s)
    <3>1. Inv' /\ Settled
      BY <1>7, <2>1, <2>2, <2>4, SaveEndInv DEF Throws
    <3>2. Wrote(s)
      BY <1>7, <2>1, <2>4 DEF Throws, Wrote, Finish, Goto, Inv, TypeOK
    <3>3. QED
      BY <3>1, <3>2
  <2>5. QED
    BY <1>7, <2>3, <2>4 DEF Throws
<1>8. QED
  BY <1>1, <1>2, <1>3, <1>4, <1>5, <1>6, <1>7 DEF Step

LEMMA NextInv ==
    ASSUME Inv, [Next]_vars
    PROVE  Inv' /\ Settled /\ (impacts' = impacts \/ \E s \in Sessions : Wrote(s))
<1>1. ASSUME NEW traits \in SUBSET Factors, AddClient(traits)
      PROVE  Inv' /\ Settled /\ impacts' = impacts
  BY <1>1, AddClientInv DEF AddClient
<1>2. ASSUME NEW e \in Events, SaveEvent(e)
      PROVE  Inv' /\ Settled /\ impacts' = impacts
  BY <1>2, SaveEventInv DEF SaveEvent
<1>3. ASSUME NEW e \in Events, NEW s \in Requests, Request(s, e)
      PROVE  Inv' /\ Settled /\ impacts' = impacts
  BY <1>3, RequestInv DEF Request
<1>4. ASSUME UNCHANGED vars
      PROVE  Inv' /\ Settled /\ impacts' = impacts
  <2>1. Settled
    BY <1>4 DEF vars, callVars, Settled
  <2>2. TypeOK' /\ impacts' = impacts /\ Len(clients) <= Len(clients')
    BY <1>4 DEF vars, callVars, Inv, TypeOK
  <2>3. \A t \in Sessions : /\ pc'[t] = pc[t] /\ about'[t] = about[t] /\ seen'[t] = seen[t]
                            /\ old'[t] = old[t] /\ answer'[t] = answer[t]
    BY <1>4 DEF vars, callVars
  <2>4. {} \in SUBSET Sessions /\ \A u \in {} : SessionOK(u)'
    OBVIOUS
  <2>5. QED
    BY <2>1, <2>2, <2>3, <2>4, CarryOver
<1>5. QED
  BY <1>1, <1>2, <1>3, <1>4, StepInv DEF Next, Quiet

LEMMA AlwaysInv == Spec => []Inv
<1>1. Inv /\ [Next]_vars => Inv'
  BY NextInv
<1>2. QED
  BY <1>1, InitInv, PTL DEF Spec

-----------------------------------------------------------------------------
(* Theorems.                                                               *)

(* Every reachable state is well typed (TypeOK).                           *)
THEOREM TypeCorrect == Spec => []TypeOK
<1>1. Inv => TypeOK
  BY DEF Inv
<1>2. QED
  BY <1>1, AlwaysInv, PTL

(* The impacts of an event are always one whole recalculation, for any     *)
(* number of concurrent requests, added profiles and faults                *)
(* (OneAssessment).                                                        *)
THEOREM ImpactsAreOneAssessment == Spec => []OneAssessment
<1>1. Inv => OneAssessment
  <2> SUFFICES ASSUME Inv, NEW r \in impacts
               PROVE  RowsOf(r.event) = Created(r.by) /\ about[r.by] = r.event
    BY DEF OneAssessment
  <2>1. r.event \in Events /\ r \in RowsOf(r.event)
    BY DEF Inv, TypeOK, ImpactRow, RowsOf
  <2>2. PICK w \in Sessions : Ended(w, r.event) /\ RowsOf(r.event) = Created(w)
    BY <2>1 DEF Inv, OneWriter
  <2>3. r.by = w
    BY <2>1, <2>2, CreatedFields
  <2>4. QED
    BY <2>2, <2>3 DEF Ended
<1>2. QED
  BY <1>1, AlwaysInv, PTL

(* A client loses its impact only to a recalculation that had read the     *)
(* profiles before the client was added (LostOnlyToStaleRead).             *)
THEOREM ImpactsLostToStaleReads == Spec => LostOnlyToStaleRead
<1> DEFINE Lost(r) == ~\E q \in impacts' : q.event = r.event /\ q.client = r.client
           Stale(r) == \E s \in Sessions : /\ pc[s] = "save" /\ pc'[s] = "done"
                                           /\ about[s] = r.event
                                           /\ r \in old[s]
                                           /\ seen[s] < r.client
<1>1. ASSUME Inv, [Next]_vars, NEW r \in impacts, Lost(r) PROVE Stale(r)
  <2>1. PICK s \in Sessions : Wrote(s)
    BY <1>1, NextInv
  <2>2. r \in old[s] /\ r \notin Replaced(s)
    BY <1>1, <2>1 DEF Wrote, Replaced
  <2>3. OneWriter(old[s], about[s])
    BY <1>1, <2>1 DEF Wrote, Saves, Inv, SessionOK
  <2>4. PICK w \in Sessions : about[w] = about[s] /\ old[s] = Created(w)
    BY <2>2, <2>3 DEF OneWriter, Ended
  <2>5. /\ r.event = about[s] /\ r.client \in 1..seen[w]
        /\ HitFactors(about[s], r.client) # {}
    BY <2>2, <2>4, CreatedFields
  <2>6. seen[s] \in Nat /\ seen[w] \in Nat
    BY <1>1, RecalculationAssumption DEF Inv, TypeOK
  <2>7. ~(r.client <= seen[s])
    <3> SUFFICES ASSUME r.client <= seen[s] PROVE FALSE
      OBVIOUS
    <3>1. r.client \in 1..seen[s]
      BY <2>5, <2>6
    <3>2. PICK q \in Created(s) : q.client = r.client /\ q.event = about[s]
      BY <2>5, <3>1, CreatedFields
    <3>3. QED
      BY <1>1, <2>1, <2>5, <3>2 DEF Wrote, Replaced
  <2>8. QED
    BY <2>1, <2>2, <2>5, <2>6, <2>7 DEF Wrote, Saves
<1>2. Inv /\ [Next]_vars =>
        [\A r \in impacts :
            \/ \E q \in impacts' : q.event = r.event /\ q.client = r.client
            \/ \E s \in Sessions : /\ pc[s] = "save" /\ pc'[s] = "done"
                                   /\ about[s] = r.event
                                   /\ r \in old[s]
                                   /\ seen[s] < r.client]_vars
  BY <1>1
<1>3. QED
  BY <1>2, AlwaysInv, PTL DEF Spec, LostOnlyToStaleRead

-----------------------------------------------------------------------------
(* Somebody wins.                                                          *)

(* A recalculation that succeeded, by neither s nor the writer of the rows *)
(* s has loaded.                                                           *)
Winner(s, t) ==
    /\ t # s /\ about[t] = about[s] /\ answer[t] = "OK"
    /\ \A r \in old[s] : r.by # t

(* While nothing has failed: the rows in the table are those of sessions   *)
(* that answered OK, and who is about to fail or has failed has a winner.  *)
WinInv ==
    faults = 0 =>
        /\ \A r \in impacts : answer[r.by] = "OK"
        /\ \A s \in Sessions :
              (pc[s] = "save" /\ RowsGone(s)) \/ answer[s] = "Error" =>
                  \E t \in Sessions : Winner(s, t)

(* What a session has loaded and answered does not change any more.        *)
LEMMA Remembered ==
    ASSUME Inv, [Next]_vars, NEW s \in Sessions
    PROVE  /\ pc[s] = "done" => /\ pc'[s] = "done" /\ about'[s] = about[s]
                                /\ old'[s] = old[s] /\ answer'[s] = answer[s]
           /\ pc[s] = "save" => about'[s] = about[s] /\ old'[s] = old[s]
<1>1. ASSUME NEW u \in Sessions, Step(u)
      PROVE  /\ pc[u] \notin {"ready", "done"} /\ about' = about
             /\ old' = old \/ (pc[u] = "existing" /\ \A t \in Sessions \ {u} : old'[t] = old[t])
             /\ \A t \in Sessions \ {u} : pc'[t] = pc[t] /\ answer'[t] = answer[t]
  <2>1. CASE FindEvent(u) \/ EventMissing(u)
    BY <2>1 DEF FindEvent, EventMissing, Finish, Goto, Inv, TypeOK
  <2>2. CASE ReadClients(u) \/ ReadExisting(u)
    BY <2>2 DEF ReadClients, ReadExisting, Goto, Inv, TypeOK
  <2>3. CASE Commit(u) \/ Conflict(u) \/ Throws(u)
    BY <2>3 DEF Commit, Conflict, Throws, Saves, Finish, Goto, Inv, TypeOK
  <2>4. QED
    BY <1>1, <2>1, <2>2, <2>3 DEF Step
<1>2. ASSUME NEW e \in Events, SaveEvent(e)
      PROVE  /\ pc[e] = "ready" /\ old' = old /\ answer' = answer
             /\ \A t \in Sessions \ {e} : pc'[t] = pc[t] /\ about'[t] = about[t]
  BY <1>2 DEF SaveEvent, Goto, Inv, TypeOK, Sessions
<1>3. ASSUME NEW e \in Events, NEW u \in Requests, Request(u, e)
      PROVE  /\ pc[u] = "ready" /\ old' = old /\ answer' = answer
             /\ \A t \in Sessions \ {u} : pc'[t] = pc[t] /\ about'[t] = about[t]
  BY <1>3 DEF Request, Goto, Inv, TypeOK, Sessions
<1>4. ASSUME \/ \E traits \in SUBSET Factors : AddClient(traits)
             \/ UNCHANGED vars
      PROVE  UNCHANGED callVars
  BY <1>4 DEF AddClient, vars
<1>5. CASE \E u \in Sessions : Step(u)
  BY <1>1, <1>5
<1>6. CASE \E e \in Events : SaveEvent(e)
  BY <1>2, <1>6
<1>7. CASE \E e \in Events, u \in Requests : Request(u, e)
  BY <1>3, <1>7
<1>8. CASE UNCHANGED callVars
  BY <1>8 DEF callVars
<1>9. QED
  BY <1>4, <1>5, <1>6, <1>7, <1>8 DEF Next, Quiet

LEMMA WinnerKept ==
    ASSUME Inv, [Next]_vars, NEW s \in Sessions, NEW t \in Sessions, Winner(s, t),
           pc[s] \in {"save", "done"}
    PROVE  Winner(s, t)'
<1>1. pc[t] = "done"
  BY DEF Winner, Inv, SessionOK
<1>2. QED
  BY <1>1, Remembered DEF Winner

(* Rows in the way of a save: their writer has won.                        *)
LEMMA TakenHasWinner ==
    ASSUME Inv, WinInv, faults = 0, NEW s \in Sessions, pc[s] = "save",
           RowsTaken(s), ~RowsGone(s)
    PROVE  \E t \in Sessions : Winner(s, t)
<1> DEFINE e == about[s]
<1>1. PICK r \in RowsOf(e) \ old[s] : TRUE
  BY DEF RowsTaken
<1>2. e \in Events /\ OneWriter(old[s], e) /\ OneWriter(RowsOf(e), e) /\ old[s] \subseteq impacts
  BY DEF Inv, SessionOK, RowsGone
<1>3. PICK x \in Sessions : Ended(x, e) /\ RowsOf(e) = Created(x)
  BY <1>1, <1>2 DEF OneWriter
<1>4. r \in impacts /\ r.by = x
  BY <1>1, <1>3, CreatedFields DEF RowsOf
<1>5. answer[x] = "OK"
  BY <1>4 DEF WinInv
<1>6. \A q \in old[s] : q.by # x
  <2> SUFFICES ASSUME NEW q \in old[s], q.by = x PROVE FALSE
    OBVIOUS
  <2>1. PICK w \in Sessions : old[s] = Created(w)
    BY <1>2 DEF OneWriter
  <2>2. w = x
    BY <2>1, CreatedFields
  <2>3. QED
    BY <1>1, <1>3, <2>1, <2>2
<1>7. Winner(s, x)
  BY <1>3, <1>5, <1>6 DEF Winner, Ended
<1>8. QED
  BY <1>7

(* A commit that deletes rows another session has loaded wins over it.     *)
LEMMA CommitWins ==
    ASSUME Inv, NEW s \in Sessions, NEW t \in Sessions \ {s}, Commit(t), pc[s] = "save",
           ~RowsGone(s), ~(old[s] \subseteq impacts')
    PROVE  Winner(s, t)'
<1>1. PICK r \in old[s] : r \in old[t]
  BY DEF RowsGone, Commit, Replaced
<1>2. OneWriter(old[s], about[s]) /\ OneWriter(old[t], about[t]) /\ pc[t] = "save"
  BY DEF Inv, SessionOK, Commit, Saves
<1>3. PICK w \in Sessions : Ended(w, about[s]) /\ old[s] = Created(w)
  BY <1>1, <1>2 DEF OneWriter
<1>4. PICK x \in Sessions : Ended(x, about[t]) /\ old[t] = Created(x)
  BY <1>1, <1>2 DEF OneWriter
<1>5. about[t] = about[s]
  BY <1>1, <1>3, <1>4, CreatedFields DEF Ended
<1>6. \A q \in old[s] : q.by # t
  BY <1>2, <1>3, CreatedFields DEF Ended
<1>7. answer'[t] = "OK" /\ about' = about /\ old' = old
  BY DEF Commit, Finish, Inv, TypeOK
<1>8. QED
  BY <1>5, <1>6, <1>7 DEF Winner

(* How a step without a fault treats the table, the loaded rows and the    *)
(* answers.                                                                *)
LEMMA FaultFree ==
    ASSUME Inv, [Next]_vars, faults' = 0
    PROVE  /\ faults = 0
           /\ \/ \E t \in Sessions : Commit(t)
              \/ impacts' = impacts
           /\ \A s \in Sessions :
                 /\ pc'[s] = "save" => \/ pc[s] = "save"
                                       \/ old'[s] \subseteq impacts /\ impacts' = impacts
                 /\ answer'[s] = answer[s] \/ Commit(s) \/ Conflict(s) \/ answer'[s] = "NotFound"
<1>1. faults \in Nat
  BY RecalculationAssumption DEF Inv, TypeOK
<1>2. ASSUME NEW u \in Sessions, FindEvent(u) \/ EventMissing(u) \/ ReadClients(u)
      PROVE  /\ impacts' = impacts /\ faults' = faults
             /\ \A s \in Sessions : /\ pc'[s] = "save" => pc[s] = "save"
                                    /\ answer'[s] = answer[s] \/ answer'[s] = "NotFound"
  BY <1>2 DEF FindEvent, EventMissing, ReadClients, Finish, Goto, Inv, TypeOK
<1>3. ASSUME NEW u \in Sessions, ReadExisting(u)
      PROVE  /\ impacts' = impacts /\ faults' = faults /\ answer' = answer
             /\ \A s \in Sessions : pc'[s] = "save" => pc[s] = "save" \/ old'[s] \subseteq impacts
  BY <1>3 DEF ReadExisting, Goto, RowsOf, Inv, TypeOK
<1>4. ASSUME NEW u \in Sessions, Commit(u) \/ Conflict(u)
      PROVE  /\ faults' = faults
             /\ Commit(u) \/ impacts' = impacts
             /\ \A s \in Sessions : /\ pc'[s] = "save" => pc[s] = "save"
                                    /\ s = u \/ answer'[s] = answer[s]
  BY <1>4 DEF Commit, Conflict, Finish, Goto, Inv, TypeOK
<1>5. ASSUME NEW u \in Sessions, Throws(u) PROVE FALSE
  BY <1>1, <1>5 DEF Throws
<1>6. ASSUME \/ \E traits \in SUBSET Factors : AddClient(traits)
             \/ \E e \in Events : SaveEvent(e) \/ \E u \in Requests : Request(u, e)
             \/ UNCHANGED vars
      PROVE  /\ impacts' = impacts /\ faults' = faults /\ answer' = answer
             /\ \A s \in Sessions : pc'[s] = "save" => pc[s] = "save"
  BY <1>6 DEF AddClient, SaveEvent, Request, Goto, vars, callVars, Inv, TypeOK, Sessions
<1>7. CASE \E u \in Sessions : Step(u)
  BY <1>2, <1>3, <1>4, <1>5, <1>7 DEF Step
<1>8. QED
  BY <1>6, <1>7 DEF Next, Quiet

LEMMA NextWinInv ==
    ASSUME Inv, WinInv, [Next]_vars
    PROVE  WinInv'
<1> SUFFICES ASSUME faults' = 0
             PROVE  /\ \A r \in impacts' : answer'[r.by] = "OK"
                    /\ \A s \in Sessions :
                          (pc'[s] = "save" /\ RowsGone(s)') \/ answer'[s] = "Error" =>
                              \E t \in Sessions : Winner(s, t)'
  BY DEF WinInv
<1>1. faults = 0
  BY FaultFree
<1>2. ASSUME NEW r \in impacts' PROVE answer'[r.by] = "OK"
  <2>1. CASE r \in impacts
    <3>1. r.by \in Sessions /\ answer[r.by] = "OK"
      BY <1>1, <2>1 DEF WinInv, Inv, TypeOK, ImpactRow
    <3>2. pc[r.by] = "done"
      BY <3>1 DEF Inv, SessionOK
    <3>3. QED
      BY <3>1, <3>2, Remembered
  <2>2. CASE r \notin impacts
    <3>1. PICK t \in Sessions : Commit(t)
      BY <1>2, <2>2, FaultFree
    <3>2. r \in Created(t)
      BY <1>2, <2>2, <3>1 DEF Commit, Replaced
    <3>3. QED
      BY <3>1, <3>2, CreatedFields DEF Commit, Finish, Inv, TypeOK
  <2>3. QED
    BY <2>1, <2>2
<1>3. ASSUME NEW s \in Sessions, pc'[s] = "save", RowsGone(s)'
      PROVE  \E t \in Sessions : Winner(s, t)'
  <2>1. pc[s] = "save" /\ old'[s] = old[s]
    BY <1>3, FaultFree, Remembered DEF RowsGone
  <2>2. CASE RowsGone(s)
    BY <1>1, <2>1, <2>2, WinnerKept DEF WinInv
  <2>3. CASE ~RowsGone(s)
    <3>1. ~(old[s] \subseteq impacts')
      BY <1>3, <2>1 DEF RowsGone
    <3>2. PICK t \in Sessions : Commit(t)
      BY <2>3, <3>1, FaultFree DEF RowsGone
    <3>3. t # s
      BY <1>3, <3>2 DEF Commit, Finish, Goto, Inv, TypeOK
    <3>4. QED
      BY <2>1, <2>3, <3>1, <3>2, <3>3, CommitWins
  <2>4. QED
    BY <2>2, <2>3
<1>4. ASSUME NEW s \in Sessions, answer'[s] = "Error"
      PROVE  \E t \in Sessions : Winner(s, t)'
  <2>1. CASE answer[s] = "Error"
    <3>1. pc[s] = "done"
      BY <2>1 DEF Inv, SessionOK
    <3>2. QED
      BY <1>1, <2>1, <3>1, WinnerKept DEF WinInv
  <2>2. CASE answer[s] # "Error"
    <3>1. ~Commit(s)
      BY <1>4 DEF Commit, Finish, Inv, TypeOK
    <3>2. Conflict(s)
      BY <1>4, <2>2, <3>1, FaultFree
    <3>3. \E t \in Sessions : Winner(s, t)
      BY <1>1, <3>2, TakenHasWinner DEF Conflict, WinInv
    <3>4. QED
      BY <3>2, <3>3, WinnerKept DEF Conflict
  <2>3. QED
    BY <2>1, <2>2
<1>5. QED
  BY <1>2, <1>3, <1>4

(* Without database errors, a recalculation that is answered Error has     *)
(* lost against one that succeeded (SomeoneWins).                          *)
THEOREM SomeRecalculationWins == Spec => []SomeoneWins
<1>1. Init => WinInv
  BY DEF Init, WinInv
<1>2. Inv /\ WinInv /\ [Next]_vars => WinInv'
  BY NextWinInv
<1>3. Inv /\ WinInv => SomeoneWins
  BY DEF WinInv, Winner, SomeoneWins
<1>4. QED
  BY <1>1, <1>2, <1>3, AlwaysInv, PTL DEF Spec

-----------------------------------------------------------------------------
(* ImpactRecalculation implements ImpactBoard.                              *)

(* The board's entry for a row.                                            *)
Entry(r) == [client |-> r.client, level |-> r.level]
Entries(R) == {Entry(r) : r \in R}

(* Two elements at least are two different elements.                       *)
LEMMA TwoDiffer ==
    ASSUME NEW S, IsFiniteSet(S)
    PROVE  Cardinality(S) >= 2 <=> \E f, g \in S : f # g
<1>1. Cardinality(S) \in Nat
  BY FS_CardinalityType
<1>2. ASSUME Cardinality(S) >= 2 PROVE \E f, g \in S : f # g
  <2>1. PICK f \in S : TRUE
    BY <1>2, FS_EmptySet
  <2>2. IsFiniteSet(S \ {f}) /\ Cardinality(S \ {f}) = Cardinality(S) - 1
    BY <2>1, FS_RemoveElement
  <2>3. Cardinality(S \ {f}) # 0
    BY <1>1, <1>2, <2>2
  <2>4. PICK g \in S \ {f} : TRUE
    BY <2>2, <2>3, FS_EmptySet
  <2>5. QED
    BY <2>1, <2>4
<1>3. ASSUME NEW f \in S, NEW g \in S, f # g PROVE Cardinality(S) >= 2
  <2>1. Cardinality(S) # 0
    BY FS_EmptySet
  <2>2. Cardinality(S) # 1
    BY <1>3, FS_Singleton
  <2>3. QED
    BY <1>1, <2>1, <2>2
<1>4. QED
  BY <1>2, <1>3

(* The assessor's count of factors and the board's definition agree.       *)
LEMMA SameLevels ==
    ASSUME TypeOK, NEW e \in Events, NEW c \in 1..Len(clients)
    PROVE  /\ HitFactors(e, c) = Board!Shared(e, c)
           /\ Board!IsHigh(e, c) <=> Level(e, c) = "High"
           /\ Board!IsMedium(e, c) <=> HitFactors(e, c) # {} /\ Level(e, c) = "Medium"
<1>1. HitFactors(e, c) = Board!Shared(e, c)
  BY RecalculationAssumption DEF TypeOK, HitFactors, Board!Shared
<1>2. IsFiniteSet(HitFactors(e, c))
  BY RecalculationAssumption, FS_Subset DEF HitFactors
<1>3. Cardinality(HitFactors(e, c)) >= 2 <=> Board!IsHigh(e, c)
  BY <1>1, <1>2, TwoDiffer DEF Board!IsHigh
<1>4. QED
  BY <1>1, <1>3 DEF Level, Board!IsMedium

(* What a session inserts is a whole assessment.                           *)
LEMMA CreatedIsWhole ==
    ASSUME Inv, NEW s \in Sessions, about[s] \in Events
    PROVE  Entries(Created(s)) = Board!Whole(about[s], seen[s])
<1> DEFINE e == about[s]
           row(c) == [event |-> e, client |-> c, level |-> Level(e, c), by |-> s]
<1>1. \A c \in 1..seen[s] : c \in 1..Len(clients)
  BY RecalculationAssumption DEF Inv, TypeOK, SessionOK
<1>2. \A c \in 1..seen[s] :
         /\ Board!IsHigh(e, c) => HitFactors(e, c) # {}
         /\ Board!IsHigh(e, c) <=> Level(e, c) = "High"
         /\ Board!IsMedium(e, c) <=> HitFactors(e, c) # {} /\ Level(e, c) = "Medium"
  BY <1>1, SameLevels DEF Inv, Board!IsHigh
<1>3. ASSUME NEW r \in Created(s) PROVE Entry(r) \in Board!Whole(e, seen[s])
  <2>1. PICK c \in {d \in 1..seen[s] : HitFactors(e, d) # {}} : r = row(c)
    BY DEF Created
  <2>2. Entry(r) = [client |-> c, level |-> Level(e, c)]
    BY <2>1 DEF Entry
  <2>3. Level(e, c) \in {"Medium", "High"}
    BY DEF Level
  <2>4. QED
    BY <1>2, <2>2, <2>3 DEF Board!Whole
<1>4. ASSUME NEW x \in Board!Whole(e, seen[s]) PROVE x \in Entries(Created(s))
  <2>1. PICK c \in 1..seen[s] : /\ HitFactors(e, c) # {}
                                /\ x = [client |-> c, level |-> Level(e, c)]
    BY <1>2 DEF Board!Whole
  <2>2. row(c) \in Created(s) /\ Entry(row(c)) = x
    BY <2>1 DEF Created, Entry
  <2>3. QED
    BY <2>2 DEF Entries
<1>5. QED
  BY <1>3, <1>4 DEF Entries

LEMMA OnRecordIs == OnRecord = [e \in Events |-> Entries(RowsOf(e))]
BY DEF OnRecord, Entries, Entry

Told(s) == IF answer[s] = "OK" THEN Entries(Created(s)) ELSE None

LEMMA ToldListIs == ToldList = [s \in Sessions |-> Told(s)]
BY DEF ToldList, Told, Entries, Entry

-----------------------------------------------------------------------------
(* What steps do to the board.                                             *)

LEMMA ToldKept ==
    ASSUME Inv, Settled, NEW t \in Sessions,
           \/ answer'[t] = answer[t]
           \/ answer[t] = "none" /\ answer'[t] # "OK"
    PROVE  Told(t)' = Told(t)
<1>1. CASE answer[t] = "OK"
  <2>1. pc[t] = "done" /\ answer'[t] = "OK"
    BY <1>1 DEF Inv, SessionOK
  <2>2. Created(t)' = Created(t)
    BY <2>1, CreatedKept DEF Settled, Inv, SessionOK
  <2>3. QED
    BY <1>1, <2>1, <2>2 DEF Told, Entries, Entry
<1>2. CASE answer[t] # "OK"
  BY <1>2 DEF Told
<1>3. QED
  BY <1>1, <1>2

LEMMA QuietBoard ==
    ASSUME Inv, Settled, impacts' = impacts,
           \A t \in Sessions : \/ answer'[t] = answer[t]
                               \/ answer[t] = "none" /\ answer'[t] # "OK"
    PROVE  OnRecord' = OnRecord /\ ToldList' = ToldList
<1>1. \A t \in Sessions : Told(t)' = Told(t)
  BY ToldKept
<1>2. \A e \in Events : RowsOf(e)' = RowsOf(e)
  BY DEF RowsOf
<1>3. QED
  BY <1>1, <1>2 DEF OnRecord, ToldList, Told, Entries, Entry

(* A save puts a whole assessment on record, or changes nothing because    *)
(* nobody is affected.                                                     *)
LEMMA RecordChange ==
    ASSUME Inv, NEW s \in Sessions, Wrote(s)
    PROVE  /\ about[s] \in Events /\ seen[s] \in 0..Len(clients)
           /\ \/ OnRecord' = [OnRecord EXCEPT ![about[s]] = Board!Whole(about[s], seen[s])]
              \/ OnRecord' = OnRecord /\ Board!Whole(about[s], seen[s]) = {}
<1> DEFINE e == about[s]
<1>1. e \in Events /\ seen[s] \in 0..Len(clients)
  BY RecalculationAssumption DEF Wrote, Saves, Inv, SessionOK, TypeOK
<1>2. Entries(Created(s)) = Board!Whole(e, seen[s])
  BY <1>1, CreatedIsWhole
<1>3. CASE impacts' = (impacts \ RowsOf(e)) \cup Created(s)
  <2>1. \A d \in Events : d = e => RowsOf(d)' = Created(s)
    BY <1>3, CreatedFields DEF RowsOf
  <2>2. \A d \in Events \ {e} : RowsOf(d)' = RowsOf(d)
    BY <1>3, CreatedFields DEF RowsOf
  <2>3. OnRecord' = [OnRecord EXCEPT ![e] = Entries(Created(s))]
    <3>1. OnRecord' = [d \in Events |-> Entries(RowsOf(d)')]
      BY DEF OnRecord, Entries, Entry
    <3>2. OnRecord' = [d \in Events |-> IF d = e THEN Entries(Created(s)) ELSE Entries(RowsOf(d))]
      BY <2>1, <2>2, <3>1
    <3>3. QED
      BY <1>1, <3>2, OnRecordIs
  <2>4. QED
    BY <1>1, <1>2, <2>3
<1>4. CASE impacts' = impacts /\ Created(s) = {}
  <2>1. OnRecord' = OnRecord
    BY <1>4 DEF OnRecord, RowsOf
  <2>2. Entries(Created(s)) = {}
    BY <1>4 DEF Entries
  <2>3. QED
    BY <1>1, <1>2, <2>1, <2>2
<1>5. QED
  BY <1>3, <1>4, SaveReplacesAll DEF Wrote

LEMMA CommitBoard ==
    ASSUME Inv, NEW s \in Sessions, Commit(s)
    PROVE  Board!BoardNext
<1> DEFINE e == about[s]
           n == seen[s]
<1>1. Settled /\ Wrote(s) /\ clients' = clients
  BY StepInv DEF Step, Commit, Wrote, Finish, Goto, Saves, Inv, TypeOK
<1>2. answer' = [answer EXCEPT ![s] = "OK"] /\ answer[s] = "none"
  BY DEF Commit, Finish, Saves, Inv, SessionOK
<1>3. ToldList' = [ToldList EXCEPT ![s] = Board!Whole(e, n)]
  <2>1. \A t \in Sessions \ {s} : Told(t)' = Told(t)
    BY <1>1, <1>2, ToldKept DEF Inv, TypeOK
  <2>2. Told(s)' = Board!Whole(e, n)
    <3>1. Created(s)' = Created(s)
      BY <1>1, CreatedKept DEF Wrote, Inv, SessionOK
    <3>2. answer'[s] = "OK"
      BY <1>2 DEF Inv, TypeOK
    <3>3. Entries(Created(s)) = Board!Whole(e, n)
      BY <1>1, RecordChange, CreatedIsWhole
    <3>4. QED
      BY <3>1, <3>2, <3>3 DEF Told, Entries, Entry
  <2>3. ToldList' = [t \in Sessions |-> Told(t)']
    BY DEF ToldList, Told, Entries, Entry
  <2>4. QED
    BY <2>1, <2>2, <2>3, ToldListIs
<1>4. ToldList[s] = None
  BY <1>2 DEF ToldList
<1>5. e \in Events /\ n \in 0..Len(clients)
  BY <1>1, RecordChange
<1>6. CASE OnRecord' = [OnRecord EXCEPT ![e] = Board!Whole(e, n)]
  <2>1. Board!ReassessAndTell(s, e, n)
    BY <1>1, <1>3, <1>4, <1>6 DEF Board!ReassessAndTell
  <2>2. QED
    BY <1>5, <2>1 DEF Board!BoardNext
<1>7. CASE OnRecord' = OnRecord /\ Board!Whole(e, n) = {}
  <2>1. Board!TellNobody(s, e, n)
    BY <1>1, <1>3, <1>4, <1>7 DEF Board!TellNobody
  <2>2. QED
    BY <1>5, <2>1 DEF Board!BoardNext
<1>8. QED
  BY <1>1, <1>6, <1>7, RecordChange

LEMMA ThrowsBoard ==
    ASSUME Inv, NEW s \in Sessions, Throws(s)
    PROVE  [Board!BoardNext]_(Board!boardVars)
<1>1. Settled /\ (impacts' = impacts \/ Wrote(s)) /\ clients' = clients
  BY StepInv DEF Step, Throws
<1>2. \A t \in Sessions : answer'[t] = answer[t] \/ (answer[t] = "none" /\ answer'[t] # "OK")
  BY DEF Throws, Finish, Inv, TypeOK, SessionOK
<1>3. CASE impacts' = impacts
  BY <1>1, <1>2, <1>3, QuietBoard DEF Board!boardVars
<1>4. CASE Wrote(s)
  <2>1. ToldList' = ToldList
    <3>1. \A t \in Sessions : Told(t)' = Told(t)
      BY <1>1, <1>2, ToldKept
    <3>2. QED
      BY <3>1 DEF ToldList, Told, Entries, Entry
  <2>2. about[s] \in Events /\ seen[s] \in 0..Len(clients)
    BY <1>4, RecordChange
  <2>3. CASE OnRecord' = [OnRecord EXCEPT ![about[s]] = Board!Whole(about[s], seen[s])]
    <3>1. Board!Reassess(about[s], seen[s])
      BY <1>1, <2>1, <2>3 DEF Board!Reassess
    <3>2. QED
      BY <2>2, <3>1 DEF Board!BoardNext
  <2>4. CASE OnRecord' = OnRecord
    BY <1>1, <2>1, <2>4 DEF Board!boardVars
  <2>5. QED
    BY <1>4, <2>3, <2>4, RecordChange
<1>5. QED
  BY <1>1, <1>3, <1>4

LEMMA NextBoard ==
    ASSUME Inv, [Next]_vars
    PROVE  [Board!BoardNext]_(Board!boardVars)
<1>1. Settled
  BY NextInv
<1>2. ASSUME NEW traits \in SUBSET Factors, AddClient(traits) PROVE Board!BoardNext
  <2>1. impacts' = impacts /\ answer' = answer /\ clients' = Append(clients, traits)
    BY <1>2 DEF AddClient, callVars
  <2>2. Board!AddProfile(traits)
    BY <1>1, <2>1, QuietBoard DEF Board!AddProfile
  <2>3. QED
    BY <2>2 DEF Board!BoardNext
<1>3. ASSUME NEW s \in Sessions, FindEvent(s) \/ EventMissing(s) \/ ReadClients(s)
                                   \/ ReadExisting(s) \/ Conflict(s)
      PROVE  UNCHANGED Board!boardVars
  <2>1. impacts' = impacts /\ clients' = clients
    BY <1>3 DEF FindEvent, EventMissing, ReadClients, ReadExisting, Conflict
  <2>2. \A t \in Sessions : answer'[t] = answer[t] \/ (answer[t] = "none" /\ answer'[t] # "OK")
    BY <1>3 DEF FindEvent, EventMissing, ReadClients, ReadExisting, Conflict, Finish,
                Inv, TypeOK, SessionOK
  <2>3. QED
    BY <1>1, <2>1, <2>2, QuietBoard DEF Board!boardVars
<1>4. ASSUME \/ \E e \in Events : SaveEvent(e) \/ \E s \in Requests : Request(s, e)
             \/ UNCHANGED vars
      PROVE  UNCHANGED Board!boardVars
  <2>1. impacts' = impacts /\ clients' = clients /\ answer' = answer
    BY <1>4 DEF SaveEvent, Request, vars, callVars
  <2>2. QED
    BY <1>1, <2>1, QuietBoard DEF Board!boardVars
<1>5. QED
  BY <1>2, <1>3, <1>4, CommitBoard, ThrowsBoard DEF Next, Step, Quiet

(* The recalculation implements the board (ImplementsBoard): with no lock  *)
(* and for any interleaving and faults, each event's impacts are replaced  *)
(* by one whole assessment at a time.                                      *)
THEOREM RecalculationImplementsBoard == Spec => ImplementsBoard
<1>1. Init => Board!BoardInit
  BY DEF Init, Board!BoardInit, OnRecord, ToldList, RowsOf
<1>2. Inv /\ [Next]_vars => [Board!BoardNext]_(Board!boardVars)
  BY NextBoard
<1>3. QED
  BY <1>1, <1>2, AlwaysInv, PTL DEF Spec, ImplementsBoard, Board!BoardSpec
=============================================================================
