------------------------------ MODULE BackendHosts ------------------------------
(***************************************************************************)
(* The two processes of the .NET backend and what they share: the API,     *)
(* which migrates the schema and inserts the demo clients before it        *)
(* serves, and the worker, which ingests at once and then at every tick.   *)
(* Nothing orders their starts, and nothing starts them again: docker      *)
(* compose waits for PostgreSQL only and has no restart policy.            *)
(*                                                                         *)
(* An item of the feed is ingested in one step here; module                *)
(* DocumentPipeline opens it.                                              *)
(***************************************************************************)
EXTENDS Naturals, FiniteSets

CONSTANTS
    DemoClients,   \* the profiles of SeedData
    OtherClients,  \* profiles that POST /api/clientprofiles may add
    Items,         \* items the feed may come to hold
    MaxFaults,     \* bound: failures of the database, the feed and the webhook
    MaxCrashes     \* bound: deaths of either process

Clients == DemoClients \cup OtherClients

ASSUME HostsAssumption ==
    /\ DemoClients # {}
    /\ DemoClients \cap OtherClients = {}
    /\ {MaxFaults, MaxCrashes} \subseteq Nat

VARIABLES
    schema,     \* the database has its tables
    clients,    \* ClientProfiles
    demos,      \* history: how often the demo clients were inserted
    api,        \* where the API's start-up stands
    worker,     \* where the worker stands
    todo,       \* the items of the feed it has read and not come to
    published,  \* the items of the feed
    stored,     \* the items that are documents
    faults,
    crashes

apiVars    == <<schema, clients, demos, api>>
workerVars == <<worker, todo, published, stored>>
hostVars   == <<apiVars, workerVars, faults, crashes>>

HostsTypeOK ==
    /\ schema \in BOOLEAN
    /\ clients \subseteq Clients
    /\ demos \in Nat
    /\ api \in {"down", "migrating", "looking", "seeding", "serving"}
    /\ worker \in {"down", "fetching", "reading", "items", "seeds", "waiting", "stopped"}
    /\ todo \subseteq published
    /\ published \subseteq Items
    /\ stored \subseteq published
    /\ faults \in 0..MaxFaults
    /\ crashes \in 0..MaxCrashes

HostsInit ==
    /\ schema \in BOOLEAN
    /\ clients = {}
    /\ demos = 0
    /\ api = "down"
    /\ worker = "down"
    /\ todo = {}
    /\ published = {}
    /\ stored = {}
    /\ faults = 0
    /\ crashes = 0

Fault == faults < MaxFaults /\ faults' = faults + 1

-----------------------------------------------------------------------------
(* The API starts. *)

Starting(from, to) == api = from /\ api' = to /\ UNCHANGED <<workerVars, crashes>>

StartApi == Starting("down", "migrating") /\ UNCHANGED <<schema, clients, demos, faults>>

Migrate ==
    /\ Starting("migrating", "looking")
    /\ schema' = TRUE
    /\ UNCHANGED <<clients, demos, faults>>

\* Mutant: the demo clients are inserted at every start.
InsertAnyhow ==
    /\ Starting("looking", "seeding")
    /\ UNCHANGED <<schema, clients, demos, faults>>

\* EnsureDemoClientsAsync does nothing if there is any client.
LookForClients ==
    /\ Starting("looking", IF clients = {} THEN "seeding" ELSE "serving")
    /\ UNCHANGED <<schema, clients, demos, faults>>

Inserted ==
    /\ clients' = clients \cup DemoClients
    /\ demos' = demos + 1

InsertDemoClients == Starting("seeding", "serving") /\ Inserted /\ UNCHANGED <<schema, faults>>

\* A failure is logged, and the API serves without tables or without clients; what failed
\* may have been committed.
StartupFails ==
    /\ \E step \in {"migrating", "looking", "seeding"} : Starting(step, "serving")
    /\ Fault
    /\ \/ UNCHANGED <<schema, clients, demos>>
       \/ api = "migrating" /\ schema' = TRUE /\ UNCHANGED <<clients, demos>>
       \/ api = "seeding" /\ Inserted /\ UNCHANGED schema

AddClient(c) ==
    /\ api = "serving"
    /\ schema
    /\ clients' = clients \cup {c}
    /\ UNCHANGED <<schema, demos, api, workerVars, faults, crashes>>

CrashApi ==
    /\ api # "down"
    /\ crashes < MaxCrashes
    /\ api' = "down"
    /\ crashes' = crashes + 1
    /\ UNCHANGED <<schema, clients, demos, workerVars, faults>>

-----------------------------------------------------------------------------
(* The worker. *)

Working(from, to) == worker = from /\ worker' = to /\ UNCHANGED <<apiVars, published, crashes>>

StartWorker == Working("down", "fetching") /\ UNCHANGED <<todo, stored, faults>>

Publish(item) ==
    /\ published' = published \cup {item}
    /\ UNCHANGED <<apiVars, worker, todo, stored, faults, crashes>>

\* GetStreamAsync returns with the headers of the answer.
FeedAnswers == Working("fetching", "reading") /\ UNCHANGED <<todo, stored, faults>>

\* The client's timeout ends the wait for the headers only: nothing bounds the reading of
\* the body.
ReadFeed ==
    /\ Working("reading", "items")
    /\ todo' = published
    /\ UNCHANGED <<stored, faults>>

\* An error ends the ingestor but not the iteration.
FeedFails ==
    /\ Working("fetching", "seeds") \/ Working("reading", "seeds")
    /\ Fault
    /\ UNCHANGED <<todo, stored>>

\* A timeout is an OperationCanceledException: it leaves ExecuteAsync as a shutdown would,
\* and the host stops.
FeedTimesOut ==
    /\ Working("fetching", "stopped")
    /\ Fault
    /\ UNCHANGED <<todo, stored>>

IngestItem ==
    /\ Working("items", "items")
    /\ schema
    /\ \E item \in todo :
          /\ todo' = todo \ {item}
          /\ stored' = stored \cup {item}
    /\ UNCHANGED faults

\* An item that failed is logged, and the next one follows.
ItemFails ==
    /\ Working("items", "items")
    /\ schema
    /\ \E item \in todo : todo' = todo \ {item}
    /\ Fault
    /\ UNCHANGED stored

\* Without tables the first query throws; an error of the database may, too.
ItemThrows ==
    /\ Working("items", "seeds")
    /\ todo # {}
    /\ todo' = {}
    /\ IF schema THEN Fault ELSE UNCHANGED faults
    /\ UNCHANGED stored

EndOfFeed == Working("items", "seeds") /\ todo = {} /\ UNCHANGED <<todo, stored, faults>>

\* LocalSeedIngestor, whatever becomes of its files.
IngestSeeds == Working("seeds", "waiting") /\ UNCHANGED <<todo, stored, faults>>

\* Mutant: an iteration without a document is the last one.
TickAfterSuccess == stored # {} /\ Working("waiting", "fetching") /\ UNCHANGED <<todo, stored, faults>>

Tick == Working("waiting", "fetching") /\ UNCHANGED <<todo, stored, faults>>

CrashWorker ==
    /\ worker # "down"
    /\ crashes < MaxCrashes
    /\ worker' = "down"
    /\ todo' = {}
    /\ crashes' = crashes + 1
    /\ UNCHANGED <<apiVars, published, stored, faults>>

WorkerStep == FeedAnswers \/ ReadFeed \/ IngestItem \/ ItemThrows \/ EndOfFeed \/ IngestSeeds \/ Tick

HostsNext ==
    \/ StartApi \/ Migrate \/ LookForClients \/ InsertDemoClients \/ StartupFails
    \/ \E c \in OtherClients : AddClient(c)
    \/ StartWorker \/ WorkerStep \/ FeedFails \/ FeedTimesOut \/ ItemFails \/ CrashWorker
    \/ \E item \in Items : Publish(item)

\* The code goes on between its waits, the timer ticks, requests of the feed end by their
\* timeout.  Nothing is assumed of starts, of the body of the feed, or of errors.
HostsFairness == WF_hostVars(FeedAnswers \/ IngestItem \/ ItemThrows \/ EndOfFeed \/ IngestSeeds \/ Tick)
================================================================================
