-------------------------- MODULE NotificationDelivery --------------------------
(***************************************************************************)
(* POST /api/notifications/send of the .NET backend: BitrixNotification-   *)
(* Sender, the webhook it calls and the journal it writes, beside the      *)
(* start-up and the deaths of the API process (module BackendHosts) and    *)
(* recalculations of impacts.                                              *)
(*                                                                         *)
(* The row of the journal is saved after the webhook was called; neither   *)
(* is undone if the other fails.  One action stands for the code between   *)
(* two awaits.                                                             *)
(***************************************************************************)
EXTENDS BackendHosts

CONSTANTS
    Sends,         \* requests
    Events,        \* ids that a request may name
    StoredEvents,  \* those of stored events
    Explanations,  \* of impacts
    None

ASSUME DeliveryAssumption ==
    /\ StoredEvents \subseteq Events
    /\ None \notin Clients \cup Explanations

VARIABLES
    hooked,     \* BitrixWebhookUrl is configured
    explained,  \* ClientImpacts: the explanation on record for each event and client
    send,       \* where a request stands, what was asked, what was found
    received,   \* what the webhook received, and whether it accepted it
    journal,    \* Notifications
    before,     \* history: the clients when the request came
    shown       \* history: the explanations on record since then

mailVars == <<hooked, explained, send, received, journal, before, shown>>
vars     == <<hostVars, mailVars>>

-----------------------------------------------------------------------------
Somebody == Clients \cup {None}

Request == [pc          : {"idle", "event", "client", "impact", "document", "post", "save",
                           "Created", "NotFound", "Error", "lost"},
            event       : Events \cup {None},
            client      : Somebody,  \* asked for
            addressee   : Somebody,  \* found
            explanation : Explanations \cup {None},
            status      : {"Pending", "Mocked", "Sent", "Failed"}]

NoRequest == [pc |-> "idle", event |-> None, client |-> None, addressee |-> None,
              explanation |-> None, status |-> "Pending"]

Message == [by : Sends, event : Events, addressee : Somebody, explanation : Explanations \cup {None},
            accepted : BOOLEAN]

Row == [by : Sends, event : Events, addressee : Somebody, status : {"Mocked", "Sent", "Failed"}]

TypeOK ==
    /\ HostsTypeOK
    /\ hooked \in BOOLEAN
    /\ explained \in [StoredEvents \X Clients -> Explanations \cup {None}]
    /\ send \in [Sends -> Request]
    /\ received \subseteq Message
    /\ journal \subseteq Row
    /\ before \in [Sends -> SUBSET Clients]
    /\ shown \in [Sends -> SUBSET (Explanations \cup {None})]

Init ==
    /\ HostsInit
    /\ hooked \in BOOLEAN
    /\ explained = [pair \in StoredEvents \X Clients |-> None]
    /\ send = [s \in Sends |-> NoRequest]
    /\ received = {}
    /\ journal = {}
    /\ before = [s \in Sends |-> {}]
    /\ shown = [s \in Sends |-> {}]

-----------------------------------------------------------------------------
(* A request. *)

Querying == {"event", "client", "impact", "document"}
Answers  == {"Created", "NotFound", "Error", "lost"}

Ask(s, event, client) ==
    /\ send[s].pc = "idle"
    /\ api = "serving"
    /\ send' = [send EXCEPT ![s] = [NoRequest EXCEPT !.pc = "event", !.event = event, !.client = client]]
    /\ before' = [before EXCEPT ![s] = clients]
    /\ shown' = [shown EXCEPT ![s] = IF <<event, client>> \in DOMAIN explained
                                     THEN {explained[<<event, client>>]} ELSE {}]
    /\ UNCHANGED <<hostVars, hooked, explained, received, journal>>

\* The steps of a request that is under way.
Moves(s, pc, request) ==
    /\ send[s].pc = pc
    /\ send' = [send EXCEPT ![s] = request]
    /\ UNCHANGED <<apiVars, workerVars, crashes, hooked, explained, before, shown>>

Finds(s, pc, request) ==
    /\ schema
    /\ Moves(s, pc, request)
    /\ UNCHANGED <<received, journal, faults>>

FindEvent(s) ==
    Finds(s, "event", [send[s] EXCEPT !.pc = IF send[s].event \notin StoredEvents THEN "NotFound"
                                             ELSE IF send[s].client = None THEN "document"
                                             ELSE "client"])

\* Mutant: a profile counts only once the client has an impact.
FindAffectedClient(s) ==
    LET asked == send[s].client
    IN  Finds(s, "client",
              IF asked \in clients /\ explained[<<send[s].event, asked>>] # None
              THEN [send[s] EXCEPT !.pc = "impact", !.addressee = asked]
              ELSE [send[s] EXCEPT !.pc = "document"])

\* An unknown client makes the notification a general one.
FindClient(s) ==
    Finds(s, "client", IF send[s].client \in clients
                       THEN [send[s] EXCEPT !.pc = "impact", !.addressee = send[s].client]
                       ELSE [send[s] EXCEPT !.pc = "document"])

FindImpact(s) ==
    Finds(s, "impact", [send[s] EXCEPT !.pc = "document",
                                       !.explanation = explained[<<send[s].event, send[s].addressee>>]])

\* The document's link completes the payload; without a webhook it is only logged.
FindDocument(s) ==
    Finds(s, "document", IF hooked THEN [send[s] EXCEPT !.pc = "post"]
                         ELSE [send[s] EXCEPT !.pc = "save", !.status = "Mocked"])

\* Any query may fail; a transient error is an InvalidOperationException and answered NotFound.
QueryFails(s) ==
    /\ \E pc \in Querying, answer \in {"NotFound", "Error"} :
          /\ Moves(s, pc, [send[s] EXCEPT !.pc = answer])
          /\ IF schema THEN Fault ELSE answer = "Error" /\ UNCHANGED faults
    /\ UNCHANGED <<received, journal>>

Delivered(s, accepted) ==
    received' = received \cup {[by |-> s, event |-> send[s].event, addressee |-> send[s].addressee,
                                explanation |-> send[s].explanation, accepted |-> accepted]}

\* Mutant: any answer of the webhook counts as success.
PostTrusting(s) ==
    /\ \E accepted \in BOOLEAN :
          /\ Delivered(s, accepted)
          /\ Moves(s, "post", [send[s] EXCEPT !.pc = "save", !.status = "Sent"])
    /\ UNCHANGED <<journal, faults>>

\* The webhook answers.
Post(s) ==
    /\ \E accepted \in BOOLEAN :
          /\ Delivered(s, accepted)
          /\ Moves(s, "post", [send[s] EXCEPT !.pc = "save",
                                              !.status = IF accepted THEN "Sent" ELSE "Failed"])
    /\ UNCHANGED <<journal, faults>>

\* It cannot be reached, or the connection breaks before its answer.
PostFails(s) ==
    /\ Moves(s, "post", [send[s] EXCEPT !.pc = "save", !.status = "Failed"])
    /\ Fault
    /\ Delivered(s, TRUE) \/ UNCHANGED received
    /\ UNCHANGED journal

\* The client's timeout and the caller's cancellation are OperationCanceledExceptions, which
\* the handler lets pass: no row is written, whatever the webhook received.
PostCutShort(s) ==
    /\ Moves(s, "post", [send[s] EXCEPT !.pc = "Error"])
    /\ Fault
    /\ Delivered(s, TRUE) \/ UNCHANGED received
    /\ UNCHANGED journal

\* Mutant: the row keeps the status it was made with.
RecordedPending(s) ==
    journal' = journal \cup {[by |-> s, event |-> send[s].event, addressee |-> send[s].addressee,
                              status |-> "Pending"]}

Recorded(s) ==
    journal' = journal \cup {[by |-> s, event |-> send[s].event, addressee |-> send[s].addressee,
                              status |-> send[s].status]}

Save(s) ==
    /\ Moves(s, "save", [send[s] EXCEPT !.pc = "Created"])
    /\ Recorded(s)
    /\ UNCHANGED <<received, faults>>

\* The save may have been committed before the connection was lost.
SaveFails(s) ==
    /\ \E answer \in {"NotFound", "Error"} : Moves(s, "save", [send[s] EXCEPT !.pc = answer])
    /\ Fault
    /\ Recorded(s) \/ UNCHANGED journal
    /\ UNCHANGED received

-----------------------------------------------------------------------------
(* Around it. *)

\* A recalculation replaces the impacts of an event in one transaction (module
\* ImpactRecalculation); here, one of them.
Recalculate(event, client, explanation) ==
    /\ schema
    /\ client \in clients
    /\ explained' = [explained EXCEPT ![<<event, client>>] = explanation]
    /\ shown' = [s \in Sends |-> IF send[s].event = event /\ send[s].client = client
                                 THEN shown[s] \cup {explanation} ELSE shown[s]]
    /\ UNCHANGED <<hostVars, hooked, send, received, journal, before>>

\* Callers see a broken connection; the webhook may still get what was being sent.
Lost ==
    /\ send' = [s \in Sends |-> IF send[s].pc \in {"idle"} \cup Answers THEN send[s]
                                ELSE [send[s] EXCEPT !.pc = "lost"]]
    /\ \/ UNCHANGED <<received, journal>>
       \/ \E s \in Sends : send[s].pc = "post" /\ Delivered(s, TRUE) /\ UNCHANGED journal
       \/ \E s \in Sends : send[s].pc = "save" /\ Recorded(s) /\ UNCHANGED received
    /\ UNCHANGED <<hooked, explained, before, shown>>

Step(s) ==
    \/ FindEvent(s) \/ FindClient(s) \/ FindImpact(s) \/ FindDocument(s) \/ QueryFails(s)
    \/ Post(s) \/ PostFails(s) \/ PostCutShort(s)
    \/ Save(s) \/ SaveFails(s)

Next ==
    \/ HostsNext /\ UNCHANGED mailVars
    \/ CrashApi /\ Lost
    \/ \E s \in Sends :
          \/ \E event \in Events, client \in Somebody : Ask(s, event, client)
          \/ Step(s)
    \/ \E event \in StoredEvents, client \in Clients, explanation \in Explanations \cup {None} :
          Recalculate(event, client, explanation)

Spec == Init /\ [][Next]_vars

FairSpec == Spec /\ HostsFairness

-----------------------------------------------------------------------------
(* Properties. *)

RowsOf(s)     == {row \in journal : row.by = s}
MessagesOf(s) == {message \in received : message.by = s}

\* What the journal says happened: a caller told Created has its one row; a row Sent means the
\* webhook accepted that very message, a row Mocked that nothing was sent; and a message
\* that is not in the journal belongs to a request that ended in an error or is still saved.
JournalMatchesWebhook ==
    \A s \in Sends :
        /\ Cardinality(RowsOf(s)) <= 1 /\ Cardinality(MessagesOf(s)) <= 1
        /\ send[s].pc = "Created" => RowsOf(s) # {}
        /\ \A row \in RowsOf(s) :
              /\ row.status = "Mocked" <=> ~hooked
              /\ row.status = "Mocked" => MessagesOf(s) = {}
              /\ row.status = "Sent" =>
                    \E message \in MessagesOf(s) :
                        message.accepted /\ message.event = row.event /\ message.addressee = row.addressee
        /\ MessagesOf(s) # {} /\ RowsOf(s) = {} =>
              send[s].pc = "save" \/ (send[s].pc \in Answers \ {"Created"} /\ faults + crashes > 0)

\* A notification asked for a client that was there is addressed to that client, and explains
\* an impact of that client which was on record since it was asked for; no client's
\* explanation goes to another or into a general notification.
AddressedAsAsked ==
    \A message \in received :
        LET s == message.by
        IN  /\ message.event = send[s].event /\ message.event \in StoredEvents
            /\ message.addressee \in {send[s].client, None}
            /\ send[s].client \in before[s] => message.addressee = send[s].client
            /\ message.explanation \in IF message.addressee = None THEN {None} ELSE shown[s]

\* Whatever start-up is cut short or fails, the demo clients are inserted at most once, and an
\* API that serves after a start without errors has them.
DemoClientsOnce ==
    /\ demos <= 1
    /\ api = "serving" /\ faults = 0 => DemoClients \subseteq clients

\* Once the tables are there an item of the feed becomes a document, even if the worker came
\* first and failed for want of tables, unless the worker died, was stopped by a timeout, or
\* waits for the rest of an answer forever.
FeedReachesTheStore ==
    \/ \A item \in Items :
          (item \in published /\ schema) ~> (item \in stored \/ worker \in {"down", "stopped"})
    \/ <>[](worker = "reading")
================================================================================
