-------------------------- MODULE ImpactRecalculation --------------------------
(***************************************************************************)
(* The impact recalculation of the .NET backend: ImpactService, the        *)
(* rule-based assessor and the tables they read and write, run by POST     *)
(* /api/RegulatoryEvents/{id}/impacts/recalculate requests and by the      *)
(* document pipeline right after it has saved an event, while client       *)
(* profiles are being added.                                               *)
(*                                                                         *)
(* RecalculateAsync takes no lock and no transaction: it reads the         *)
(* profiles and the event's impacts in separate queries and then deletes   *)
(* and inserts rows in one save.  One action stands for the code between   *)
(* two awaits that other sessions can observe.  Each session has its own   *)
(* DbContext.                                                              *)
(*                                                                         *)
(* A client is identified with its position in the order of addition:      *)
(* profiles are never changed or deleted, and one query reads a prefix.    *)
(***************************************************************************)
EXTENDS Naturals, FiniteSets, Sequences

CONSTANTS
    Events,      \* the regulatory events; an analysis is named after the one it saves
    Requests,    \* POST .../impacts/recalculate requests
    Factors,     \* the risk factors the assessor has a rule for
    Mentions,    \* the factors whose pattern matches the text of each event
    MaxClients,  \* bound: client profiles
    MaxFaults,   \* bound: database errors and cancellations
    None         \* "no answer yet", "no event yet"

Sessions == Requests \cup Events

ASSUME RecalculationAssumption ==
    /\ Requests \cap Events = {}
    /\ None \notin Events
    /\ IsFiniteSet(Factors)
    /\ Mentions \in [Events -> SUBSET Factors]
    /\ MaxClients \in Nat
    /\ MaxFaults \in Nat

VARIABLES
    \* The database.
    clients,  \* ClientProfiles: the factors that apply to each, in order of addition
    events,   \* RegulatoryEvents: the saved ones
    impacts,  \* ClientImpacts
    \* The sessions.
    pc,       \* the await a session stands at
    about,    \* the event it recalculates
    seen,     \* how many profiles its query returned
    old,      \* the impacts its query returned, marked for deletion
    answer,   \* what it answered
    \* Bound.
    faults

callVars == <<pc, about, seen, old, answer>>
vars     == <<clients, events, impacts, callVars, faults>>

-----------------------------------------------------------------------------
(* Shape of the state. *)

Levels == {"Medium", "High"}

\* ClientImpacts rows; a session inserts at most one per client, so the session
\* tells rows of different recalculations apart as their ids do.
ImpactRow == [event : Events, client : 1..MaxClients, level : Levels, by : Sessions]

Pc     == {"ready", "event", "clients", "existing", "save", "done"}
Answer == {"none", "OK", "NotFound", "Error"}

TypeOK ==
    /\ clients \in Seq(SUBSET Factors)
    /\ Len(clients) <= MaxClients
    /\ events \subseteq Events
    /\ impacts \subseteq ImpactRow
    /\ pc \in [Sessions -> Pc]
    /\ about \in [Sessions -> Events \cup {None}]
    /\ seen \in [Sessions -> 0..MaxClients]
    /\ old \in [Sessions -> SUBSET ImpactRow]
    /\ answer \in [Sessions -> Answer]
    /\ faults \in 0..MaxFaults

Init ==
    /\ clients = <<>>
    /\ events = {}
    /\ impacts = {}
    /\ pc = [s \in Sessions |-> "ready"]
    /\ about = [s \in Sessions |-> None]
    /\ seen = [s \in Sessions |-> 0]
    /\ old = [s \in Sessions |-> {}]
    /\ answer = [s \in Sessions |-> "none"]
    /\ faults = 0

-----------------------------------------------------------------------------
(* The assessor. *)

\* The rules whose pattern matches the event's text and that apply to the client.
HitFactors(e, c) == {f \in Factors : f \in Mentions[e] /\ f \in clients[c]}

\* Mutant: the second factor is not enough for High.
LevelAboveTwo(e, c) == IF Cardinality(HitFactors(e, c)) > 2 THEN "High" ELSE "Medium"

\* Mutant: a single factor makes the impact Low.
LevelWithLow(e, c) == IF Cardinality(HitFactors(e, c)) >= 2 THEN "High" ELSE "Low"

Level(e, c) == IF Cardinality(HitFactors(e, c)) >= 2 THEN "High" ELSE "Medium"

\* The rows a session inserts: one per profile it read that has a factor.
Created(s) ==
    {[event |-> about[s], client |-> c, level |-> Level(about[s], c), by |-> s] :
        c \in {d \in 1..seen[s] : HitFactors(about[s], d) # {}}}

RowsOf(e) == {r \in impacts : r.event = e}

-----------------------------------------------------------------------------
(* The profiles. *)

\* POST /api/clientprofiles.
AddClient(traits) ==
    /\ Len(clients) < MaxClients
    /\ clients' = Append(clients, traits)
    /\ UNCHANGED <<events, impacts, callVars, faults>>

-----------------------------------------------------------------------------
(* RecalculateAsync. *)

Goto(s, label) == pc' = [pc EXCEPT ![s] = label]

\* The request leaves with an answer, the analysis with the status of its job:
\* an exception makes it Failed.
Finish(s, outcome) ==
    /\ Goto(s, "done")
    /\ answer' = [answer EXCEPT ![s] = outcome]

\* A request may ask for an event that is not saved yet.
Request(s, e) ==
    /\ s \in Requests
    /\ pc[s] = "ready"
    /\ about' = [about EXCEPT ![s] = e]
    /\ Goto(s, "event")
    /\ UNCHANGED <<clients, events, impacts, seen, old, answer, faults>>

\* RunAiAnalysisAsync saves the event and calls RecalculateAsync next.
SaveEvent(e) ==
    /\ pc[e] = "ready"
    /\ events' = events \cup {e}
    /\ about' = [about EXCEPT ![e] = e]
    /\ Goto(e, "event")
    /\ UNCHANGED <<clients, impacts, seen, old, answer, faults>>

\* The event and then its text, which never changes.
FindEvent(s) ==
    /\ pc[s] = "event"
    /\ about[s] \in events
    /\ Goto(s, "clients")
    /\ UNCHANGED <<clients, events, impacts, about, seen, old, answer, faults>>

EventMissing(s) ==
    /\ pc[s] = "event"
    /\ about[s] \notin events
    /\ Finish(s, "NotFound")
    /\ UNCHANGED <<clients, events, impacts, about, seen, old, faults>>

ReadClients(s) ==
    /\ pc[s] = "clients"
    /\ seen' = [seen EXCEPT ![s] = Len(clients)]
    /\ Goto(s, "existing")
    /\ UNCHANGED <<clients, events, impacts, about, old, answer, faults>>

ReadExisting(s) ==
    /\ pc[s] = "existing"
    /\ old' = [old EXCEPT ![s] = RowsOf(about[s])]
    /\ Goto(s, "save")
    /\ UNCHANGED <<clients, events, impacts, about, seen, answer, faults>>

\* A marked row is gone: EF Core counts the deleted rows and throws.
RowsGone(s) == ~(old[s] \subseteq impacts)

\* A row stays that has the event and client of an inserted one: the unique
\* index on both rejects it.
RowsTaken(s) ==
    \E r \in RowsOf(about[s]) \ old[s], q \in Created(s) : r.client = q.client

Saves(s) == pc[s] = "save" /\ ~RowsGone(s) /\ ~RowsTaken(s)

Replaced(s) == (impacts \ old[s]) \cup Created(s)

\* Mutant: the loaded rows are updated by client instead of deleted.
CommitMerging(s) ==
    /\ Saves(s)
    /\ impacts' = {r \in impacts : ~\E q \in Created(s) : q.event = r.event /\ q.client = r.client}
                    \cup Created(s)
    /\ Finish(s, "OK")
    /\ UNCHANGED <<clients, events, about, seen, old, faults>>

\* Mutant: clients that had an impact already get no new row.
CommitSkippingOld(s) ==
    /\ Saves(s)
    /\ impacts' = (impacts \ old[s])
                    \cup {q \in Created(s) : ~\E r \in old[s] : r.client = q.client}
    /\ Finish(s, "OK")
    /\ UNCHANGED <<clients, events, about, seen, old, faults>>

\* One transaction.  The answer is the list of inserted rows.
Commit(s) ==
    /\ Saves(s)
    /\ impacts' = Replaced(s)
    /\ Finish(s, "OK")
    /\ UNCHANGED <<clients, events, about, seen, old, faults>>

\* Mutant: the save also gives up when another session is about to save.
ConflictWithSavers(s) ==
    /\ pc[s] = "save"
    /\ \/ RowsGone(s)
       \/ RowsTaken(s)
       \/ \E t \in Sessions \ {s} : pc[t] = "save" /\ about[t] = about[s]
    /\ Finish(s, "Error")
    /\ UNCHANGED <<clients, events, impacts, about, seen, old, faults>>

\* The save is rolled back.  Two sessions that insert several rows in different
\* orders can also deadlock; the provider reports that transient error as an
\* InvalidOperationException, which a request answers with NotFound.
Conflict(s) ==
    /\ pc[s] = "save"
    /\ RowsGone(s) \/ RowsTaken(s)
    /\ \/ Finish(s, "Error")
       \/ s \in Requests /\ ~RowsGone(s) /\ Cardinality(Created(s)) >= 2 /\ Finish(s, "NotFound")
    /\ UNCHANGED <<clients, events, impacts, about, seen, old, faults>>

\* A failed or cancelled await.  Transient database errors reach a request as
\* InvalidOperationException as well; a save may have committed before the
\* connection was lost.
Throws(s) ==
    /\ pc[s] \in {"event", "clients", "existing", "save"}
    /\ faults < MaxFaults
    /\ faults' = faults + 1
    /\ impacts' \in IF Saves(s) THEN {impacts, Replaced(s)} ELSE {impacts}
    /\ Finish(s, "Error") \/ (s \in Requests /\ Finish(s, "NotFound"))
    /\ UNCHANGED <<clients, events, about, seen, old>>

-----------------------------------------------------------------------------
Step(s) ==
    \/ FindEvent(s) \/ EventMissing(s) \/ ReadClients(s) \/ ReadExisting(s)
    \/ Commit(s) \/ Conflict(s) \/ Throws(s)

\* Every session has answered and no further profile fits the bound.
Quiet ==
    /\ Len(clients) = MaxClients
    /\ \A s \in Sessions : pc[s] = "done"
    /\ UNCHANGED vars

Next ==
    \/ \E traits \in SUBSET Factors : AddClient(traits)
    \/ \E e \in Events : SaveEvent(e) \/ \E s \in Requests : Request(s, e)
    \/ \E s \in Sessions : Step(s)
    \/ Quiet

Spec == Init /\ [][Next]_vars

-----------------------------------------------------------------------------
(* Properties. *)

\* The impacts of an event are never a mix of two recalculations
\* (ImpactService.cs:28-50): whichever session wrote one row wrote all of
\* them, and they are exactly its assessment of the profiles it had read.
OneAssessment ==
    \A r \in impacts : RowsOf(r.event) = Created(r.by) /\ about[r.by] = r.event

\* Concurrent recalculations of an event cannot all fail against each other
\* (the delete count and the unique index at ImpactService.cs:50): without
\* database errors, an Error answer means that a recalculation of the event by
\* neither the session itself nor the writer of the rows it had read succeeded.
SomeoneWins ==
    faults = 0 =>
        \A s \in Sessions : answer[s] = "Error" =>
            \E t \in Sessions \ {s} : /\ about[t] = about[s] /\ answer[t] = "OK"
                                      /\ \A r \in old[s] : r.by # t

\* A client loses its impact of an event only to a recalculation that had read
\* the profiles before the client was added and the impacts after it had got
\* one (between ImpactService.cs:23 and :25); any other recalculation keeps it.
LostOnlyToStaleRead ==
    [][\A r \in impacts :
          \/ \E q \in impacts' : q.event = r.event /\ q.client = r.client
          \/ \E s \in Sessions : /\ pc[s] = "save" /\ pc'[s] = "done"
                                 /\ about[s] = r.event
                                 /\ r \in old[s]
                                 /\ seen[s] < r.client]_vars

\* What the abstract board records and what the callers were told.
OnRecord == [e \in Events |->
                {[client |-> r.client, level |-> r.level] : r \in RowsOf(e)}]
ToldList == [s \in Sessions |->
                IF answer[s] = "OK"
                THEN {[client |-> r.client, level |-> r.level] : r \in Created(s)}
                ELSE None]

Board == INSTANCE ImpactBoard WITH profiles <- clients, board <- OnRecord, told <- ToldList

\* RecalculateAsync implements the board: whatever the interleaving, the errors
\* and the profiles added meanwhile, an event's impacts are one whole
\* assessment, and a caller is told that assessment or that nobody is affected.
ImplementsBoard == Board!BoardSpec
=============================================================================
