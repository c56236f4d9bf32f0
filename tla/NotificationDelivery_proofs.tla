----------------------- MODULE NotificationDelivery_proofs -----------------------
(***************************************************************************)
(* Theorems about module NotificationDelivery, for any number of clients,  *)
(* requests, events, explanations, faults and crashes.                     *)
(***************************************************************************)
EXTENDS NotificationDelivery, FiniteSetTheorems, TLAPS

-----------------------------------------------------------------------------
(* The types of the two hosts.                                              *)

LEMMA FaultTyped ==
    ASSUME faults \in 0..MaxFaults, Fault
    PROVE  faults' \in 0..MaxFaults /\ faults' > faults
  BY HostsAssumption DEF Fault

LEMMA ClientsGrow ==
    ASSUME clients \subseteq Clients, demos \in Nat,
           UNCHANGED <<clients, demos>> \/ Inserted \/ \E c \in OtherClients : clients' = clients \cup {c} /\ UNCHANGED demos
    PROVE  clients' \subseteq Clients /\ demos' \in Nat /\ clients \subseteq clients'
  BY DEF Clients, Inserted

(* The failures are bounded; they and the profiles only ever grow.          *)
HostsGrow ==
    /\ clients \subseteq clients'
    /\ faults' \in 0..MaxFaults /\ faults' >= faults
    /\ crashes' \in 0..MaxCrashes /\ crashes' >= crashes

LEMMA HostsTyped ==
    ASSUME HostsTypeOK, HostsNext \/ CrashApi
    PROVE  HostsTypeOK' /\ HostsGrow
<1> USE DEF HostsTypeOK, HostsGrow
<1>1. ASSUME NEW from, NEW to \in {"migrating", "looking", "seeding", "serving"}, Starting(from, to),
             schema' \in BOOLEAN, clients' \subseteq Clients, demos' \in Nat, clients \subseteq clients',
             UNCHANGED faults \/ Fault
      PROVE  HostsTypeOK' /\ HostsGrow
  BY <1>1, FaultTyped, HostsAssumption DEF Starting, workerVars
<1>2. CASE StartApi
  BY <1>1, <1>2 DEF StartApi
<1>3. CASE Migrate
  BY <1>1, <1>3 DEF Migrate
<1>4. CASE LookForClients
  BY <1>1, <1>4 DEF LookForClients
<1>5. CASE InsertDemoClients
  <2>1. clients' \subseteq Clients /\ demos' \in Nat /\ clients \subseteq clients'
    BY <1>5, ClientsGrow DEF InsertDemoClients
  <2>2. QED
    BY <1>1, <1>5, <2>1 DEF InsertDemoClients
<1>6. CASE StartupFails
  <2>1. clients' \subseteq Clients /\ demos' \in Nat /\ clients \subseteq clients' /\ schema' \in BOOLEAN
    BY <1>6, ClientsGrow DEF StartupFails
  <2>2. QED
    BY <1>1, <1>6, <2>1 DEF StartupFails
<1>7. ASSUME NEW c \in OtherClients, AddClient(c)
      PROVE  HostsTypeOK' /\ HostsGrow
  <2>1. clients' \subseteq Clients /\ demos' \in Nat /\ clients \subseteq clients'
    BY <1>7, ClientsGrow DEF AddClient
  <2>2. QED
    BY <1>7, <2>1, HostsAssumption DEF AddClient, workerVars
<1>8. CASE CrashApi
  BY <1>8, HostsAssumption DEF CrashApi, workerVars
<1>9. ASSUME NEW from, NEW to \in {"fetching", "reading", "items", "seeds", "waiting", "stopped"},
             Working(from, to), todo' \subseteq published, stored' \subseteq published,
             UNCHANGED faults \/ Fault
      PROVE  HostsTypeOK' /\ HostsGrow
  BY <1>9, FaultTyped, HostsAssumption DEF Working, apiVars
<1>10. CASE StartWorker \/ FeedAnswers \/ ReadFeed \/ EndOfFeed \/ IngestSeeds \/ Tick
  BY <1>9, <1>10 DEF StartWorker, FeedAnswers, ReadFeed, EndOfFeed, IngestSeeds, Tick
<1>11. CASE FeedFails \/ FeedTimesOut
  BY <1>9, <1>11 DEF FeedFails, FeedTimesOut
<1>12. CASE IngestItem \/ ItemFails \/ ItemThrows
  BY <1>9, <1>12 DEF IngestItem, ItemFails, ItemThrows
<1>13. CASE CrashWorker
  BY <1>13, HostsAssumption DEF CrashWorker, apiVars
<1>14. ASSUME NEW item \in Items, Publish(item)
       PROVE  HostsTypeOK' /\ HostsGrow
  BY <1>14, HostsAssumption DEF Publish, apiVars
<1>15. QED
  BY <1>2, <1>3, <1>4, <1>5, <1>6, <1>7, <1>8, <1>10, <1>11, <1>12, <1>13, <1>14 DEF HostsNext, WorkerStep

-----------------------------------------------------------------------------
(* The demo clients.  Nothing removes a client, and none is added before    *)
(* the API serves: where they are about to be inserted there is nobody, and *)
(* without an error whoever came came after them.                           *)
SeedingInv ==
    /\ demos \in {0, 1}
    /\ demos = 1 => clients # {}
    /\ api = "seeding" => clients = {}
    /\ faults = 0 /\ (api = "serving" \/ clients # {}) => DemoClients \subseteq clients

LEMMA SeedingStep ==
    ASSUME HostsTypeOK, SeedingInv, HostsNext \/ CrashApi
    PROVE  SeedingInv'
<1> USE DEF SeedingInv
<1>1. ASSUME UNCHANGED <<clients, demos>>, HostsGrow, api' \notin {"seeding", "serving"} \/ api' = api
      PROVE  SeedingInv'
  BY <1>1 DEF HostsGrow, HostsTypeOK
<1>2. HostsGrow
  BY HostsTyped
<1>3. CASE StartApi \/ Migrate \/ CrashApi
  BY <1>1, <1>2, <1>3 DEF StartApi, Migrate, CrashApi, Starting
<1>4. CASE LookForClients
  <2>1. api' = (IF clients = {} THEN "seeding" ELSE "serving") /\ UNCHANGED <<clients, demos, faults>>
    BY <1>4 DEF LookForClients, Starting
  <2>2. QED
    BY <2>1
<1>5. ASSUME api = "seeding", api' = "serving", Inserted
      PROVE  SeedingInv'
  BY <1>5, HostsAssumption DEF Inserted
<1>6. CASE InsertDemoClients
  BY <1>5, <1>6 DEF InsertDemoClients, Starting
<1>7. CASE StartupFails
  <2>1. faults' > 0 /\ api' = "serving"
    BY <1>7, FaultTyped DEF StartupFails, Starting, HostsTypeOK
  <2>2. CASE UNCHANGED <<clients, demos>>
    BY <2>1, <2>2
  <2>3. CASE api = "seeding" /\ Inserted
    BY <1>5, <2>1, <2>3
  <2>4. QED
    BY <1>7, <2>2, <2>3 DEF StartupFails
<1>8. ASSUME NEW c \in OtherClients, AddClient(c)
      PROVE  SeedingInv'
  BY <1>8 DEF AddClient
<1>9. ASSUME UNCHANGED apiVars
      PROVE  SeedingInv'
  BY <1>1, <1>2, <1>9 DEF apiVars
<1>10. CASE StartWorker \/ FeedAnswers \/ ReadFeed \/ EndOfFeed \/ IngestSeeds \/ Tick \/ FeedFails
            \/ FeedTimesOut \/ IngestItem \/ ItemFails \/ ItemThrows
  BY <1>9, <1>10 DEF StartWorker, FeedAnswers, ReadFeed, EndOfFeed, IngestSeeds, Tick, FeedFails,
         FeedTimesOut, IngestItem, ItemFails, ItemThrows, Working
<1>11. CASE CrashWorker \/ \E item \in Items : Publish(item)
  BY <1>9, <1>11 DEF CrashWorker, Publish
<1>12. QED
  BY <1>3, <1>4, <1>6, <1>7, <1>8, <1>10, <1>11 DEF HostsNext, WorkerStep

-----------------------------------------------------------------------------
(* The steps of a request. *)

(* A step of a request changes neither the hosts nor the other requests.    *)
LEMMA MovesFrame ==
    ASSUME TypeOK, NEW s \in Sends, NEW pc, NEW request \in Request, Moves(s, pc, request),
           UNCHANGED faults \/ Fault
    PROVE  /\ send' = [send EXCEPT ![s] = request] /\ send' \in [Sends -> Request]
           /\ send[s].pc = pc /\ send'[s] = request /\ \A t \in Sends \ {s} : send'[t] = send[t]
           /\ HostsTypeOK' /\ HostsGrow
           /\ UNCHANGED <<hooked, explained, before, shown, clients, crashes>>
<1>1. UNCHANGED <<apiVars, workerVars, crashes, hooked, explained, before, shown>>
      /\ send' = [send EXCEPT ![s] = request] /\ send[s].pc = pc
  BY DEF Moves
<1>2. HostsTypeOK' /\ HostsGrow
  BY <1>1, FaultTyped, HostsAssumption DEF TypeOK, HostsTypeOK, HostsGrow, apiVars, workerVars
<1>3. QED
  BY <1>1, <1>2 DEF TypeOK, apiVars

(* A step changes a request's place, and the result is a request.           *)
Places == {"idle", "event", "client", "impact", "document", "post", "save",
           "Created", "NotFound", "Error", "lost"}

LEMMA MovedOn ==
    ASSUME NEW request \in Request, NEW pc \in Places, NEW next, next = [request EXCEPT !.pc = pc]
    PROVE  /\ next \in Request /\ next.pc = pc
           /\ next.event = request.event /\ next.client = request.client
           /\ next.addressee = request.addressee /\ next.explanation = request.explanation
           /\ next.status = request.status
  BY DEF Request, Places

(* What the webhook receives is a message, what is saved a row.             *)
LEMMA DeliveredTyped ==
    ASSUME TypeOK, NEW s \in Sends, send[s].event \in Events, NEW accepted \in BOOLEAN, Delivered(s, accepted)
    PROVE  received' \subseteq Message
<1>1. send[s] \in Request
  BY DEF TypeOK
<1>2. QED
  BY <1>1 DEF TypeOK, Delivered, Message, Request

LEMMA RecordedTyped ==
    ASSUME TypeOK, NEW s \in Sends, send[s].event \in Events,
           send[s].status \in {"Mocked", "Sent", "Failed"}, Recorded(s)
    PROVE  journal' \subseteq Row
<1>1. send[s] \in Request
  BY DEF TypeOK
<1>2. QED
  BY <1>1 DEF TypeOK, Recorded, Row, Request

-----------------------------------------------------------------------------
(* The journal and the webhook.  A request has a message only once it has   *)
(* been posted and a row only once it was saved, at most one of each; what  *)
(* they say of it agrees with what it keeps; the status that is about to be *)
(* saved is the webhook's word.                                             *)
Querying0 == {"idle", "event", "client", "impact", "document", "post"}

StatusTrue(s, status) ==
    /\ status \in {"Mocked", "Sent", "Failed"}
    /\ status = "Mocked" <=> ~hooked
    /\ status = "Sent" => \E message \in MessagesOf(s) : message.accepted

RequestOK(s) ==
    /\ send[s].pc # "idle" => send[s].event \in Events
    /\ send[s].pc = "post" => hooked
    /\ send[s].pc \in Querying0 => RowsOf(s) = {} /\ MessagesOf(s) = {}
    /\ send[s].pc = "save" => RowsOf(s) = {} /\ StatusTrue(s, send[s].status)
    /\ send[s].pc = "Created" => RowsOf(s) # {}

RecordOK(s) ==
    /\ \A row, other \in RowsOf(s) : row = other
    /\ \A message, other \in MessagesOf(s) : message = other
    /\ \A row \in RowsOf(s) :
          /\ row.event = send[s].event /\ row.addressee = send[s].addressee
          /\ StatusTrue(s, row.status)
    /\ \A message \in MessagesOf(s) :
          hooked /\ message.event = send[s].event /\ message.addressee = send[s].addressee
    /\ MessagesOf(s) # {} /\ RowsOf(s) = {} =>
          send[s].pc = "save" \/ (send[s].pc \in Answers \ {"Created"} /\ faults + crashes > 0)

\* Whom a request is for: the client asked for, if there is one, and that client's impact.
AddresseeOK(s) ==
    LET r == send[s]
    IN  /\ before[s] \subseteq clients
        /\ r.addressee \in {r.client, None}
        /\ r.pc \in {"client", "impact", "document", "post"} => r.event \in StoredEvents
        /\ r.pc \in {"event", "client"} => r.addressee = None /\ r.explanation = None
        /\ r.pc \in {"client", "impact"} => r.client \in Clients
        /\ r.pc = "impact" => r.addressee = r.client
        /\ r.pc \in {"document", "post"} =>
              /\ r.client \in before[s] => r.addressee = r.client
              /\ r.explanation \in IF r.addressee = None THEN {None} ELSE shown[s]
        /\ r.pc # "idle" /\ r.event \in StoredEvents /\ r.client \in Clients =>
              explained[<<r.event, r.client>>] \in shown[s]

MailInv ==
    /\ TypeOK
    /\ SeedingInv
    /\ \A s \in Sends : RequestOK(s) /\ RecordOK(s) /\ AddresseeOK(s)
    /\ AddressedAsAsked

LEMMA MailInit == Init => MailInv
<1> SUFFICES ASSUME Init PROVE MailInv
  OBVIOUS
<1>1. HostsTypeOK
  BY HostsAssumption DEF Init, HostsInit, HostsTypeOK
<1>2. NoRequest \in Request
  BY DEF NoRequest, Request, Somebody
<1>3. TypeOK
  BY <1>1, <1>2 DEF Init, TypeOK
<1>4. SeedingInv
  BY DEF Init, HostsInit, SeedingInv
<1>5. ASSUME NEW s \in Sends
      PROVE  RequestOK(s) /\ RecordOK(s) /\ AddresseeOK(s)
  <2>1. send[s] = NoRequest /\ RowsOf(s) = {} /\ MessagesOf(s) = {} /\ before[s] = {} /\ shown[s] = {}
    BY DEF Init, RowsOf, MessagesOf
  <2>2. QED
    BY <2>1 DEF RequestOK, RecordOK, AddresseeOK, NoRequest
<1>6. AddressedAsAsked
  BY DEF Init, AddressedAsAsked
<1>7. QED
  BY <1>3, <1>4, <1>5, <1>6 DEF MailInv

LEMMA SumGrows ==
    ASSUME NEW a \in Nat, NEW b \in Nat, NEW c \in Nat, NEW d \in Nat, c >= a, d >= b
    PROVE  a + b > 0 => c + d > 0
  OBVIOUS

\* Nothing of a request changes; what it may look at only grows.
Untouched(s) ==
    /\ send'[s] = send[s] /\ RowsOf(s)' = RowsOf(s) /\ MessagesOf(s)' = MessagesOf(s)
    /\ UNCHANGED hooked /\ before'[s] = before[s] /\ shown[s] \subseteq shown'[s]
    /\ send[s].pc # "idle" /\ send[s].event \in StoredEvents /\ send[s].client \in Clients =>
          explained'[<<send[s].event, send[s].client>>] \in shown'[s]
    /\ HostsGrow

LEMMA UntouchedKept ==
    ASSUME TypeOK, NEW s \in Sends, RequestOK(s), RecordOK(s), AddresseeOK(s), Untouched(s)
    PROVE  (RequestOK(s) /\ RecordOK(s) /\ AddresseeOK(s))'
<1>1. RequestOK(s)'
  BY DEF RequestOK, Untouched, StatusTrue
<1>2. RecordOK(s)'
  <2>1. faults + crashes > 0 => faults' + crashes' > 0
    <3>1. MaxFaults \in Nat /\ MaxCrashes \in Nat
      BY HostsAssumption
    <3>2. faults \in Nat /\ crashes \in Nat
      BY <3>1 DEF TypeOK, HostsTypeOK
    <3>3. faults' \in Nat /\ crashes' \in Nat /\ faults' >= faults /\ crashes' >= crashes
      BY <3>1 DEF Untouched, HostsGrow
    <3>4. QED
      BY <3>2, <3>3, SumGrows
  <2>2. \A status : StatusTrue(s, status) => StatusTrue(s, status)'
    BY DEF Untouched, StatusTrue
  <2>3. /\ RowsOf(s)' = RowsOf(s) /\ MessagesOf(s)' = MessagesOf(s)
        /\ send[s]' = send[s] /\ hooked' = hooked
    BY DEF Untouched
  <2>4. QED
    BY <2>1, <2>2, <2>3 DEF RecordOK
<1>3. AddresseeOK(s)'
  BY DEF AddresseeOK, Untouched, HostsGrow
<1>4. QED
  BY <1>1, <1>2, <1>3

\* What was sent stays rightly addressed if nothing more is sent.
LEMMA SentStaysAddressed ==
    ASSUME TypeOK, AddressedAsAsked, UNCHANGED <<received, before>>,
           \A s \in Sends : /\ shown[s] \subseteq shown'[s]
                            /\ \/ send'[s].event = send[s].event /\ send'[s].client = send[s].client
                               \/ MessagesOf(s) = {}
    PROVE  AddressedAsAsked'
  BY DEF AddressedAsAsked, TypeOK, Message, MessagesOf

(* What a delivery or a save adds.                                          *)
LEMMA DeliveryAdds ==
    ASSUME TypeOK, NEW s \in Sends, NEW accepted \in BOOLEAN, Delivered(s, accepted)
    PROVE  LET message == [by |-> s, event |-> send[s].event, addressee |-> send[s].addressee,
                           explanation |-> send[s].explanation, accepted |-> accepted]
           IN  /\ received' = received \cup {message}
               /\ MessagesOf(s)' = MessagesOf(s) \cup {message}
               /\ \A t \in Sends \ {s} : MessagesOf(t)' = MessagesOf(t)
  BY DEF Delivered, MessagesOf

LEMMA RecordAdds ==
    ASSUME TypeOK, NEW s \in Sends, Recorded(s)
    PROVE  LET row == [by |-> s, event |-> send[s].event, addressee |-> send[s].addressee,
                       status |-> send[s].status]
           IN  /\ RowsOf(s)' = RowsOf(s) \cup {row}
               /\ \A t \in Sends \ {s} : RowsOf(t)' = RowsOf(t)
  BY DEF Recorded, RowsOf

(* A step of a request keeps the invariant if it keeps the request's part:  *)
(* what it delivers is addressed as it was asked.                           *)
LEMMA MovesKeepInv ==
    ASSUME MailInv, NEW s \in Sends, NEW pc, NEW request \in Request, Moves(s, pc, request),
           UNCHANGED faults \/ Fault,
           request.event = send[s].event, request.client = send[s].client,
           \/ UNCHANGED received
           \/ pc = "post" /\ \E accepted \in BOOLEAN : Delivered(s, accepted),
           UNCHANGED journal \/ (pc = "save" /\ Recorded(s)),
           (RequestOK(s) /\ RecordOK(s) /\ AddresseeOK(s))'
    PROVE  MailInv'
<1> DEFINE message(accepted) == [by |-> s, event |-> send[s].event, addressee |-> send[s].addressee,
                                 explanation |-> send[s].explanation, accepted |-> accepted]
<1>1. /\ send' = [send EXCEPT ![s] = request] /\ send' \in [Sends -> Request]
      /\ send[s].pc = pc /\ send'[s] = request /\ \A t \in Sends \ {s} : send'[t] = send[t]
      /\ HostsTypeOK' /\ HostsGrow
      /\ UNCHANGED <<hooked, explained, before, shown, clients, crashes>>
  BY MovesFrame DEF MailInv
<1>2. TypeOK /\ RequestOK(s) /\ RecordOK(s) /\ AddresseeOK(s) /\ AddressedAsAsked /\ SeedingInv
  BY DEF MailInv
<1>3. SeedingInv'
  <2>1. UNCHANGED <<clients, demos, api>>
    BY DEF Moves, apiVars
  <2>2. faults' = 0 => faults = 0
    BY <1>1, <1>2 DEF HostsGrow, TypeOK, HostsTypeOK
  <2>3. QED
    BY <1>2, <2>1, <2>2 DEF SeedingInv
<1>4. TypeOK'
  <2>1. received' \subseteq Message
    <3>1. CASE UNCHANGED received
      BY <1>2, <3>1 DEF TypeOK
    <3>2. CASE pc = "post" /\ \E accepted \in BOOLEAN : Delivered(s, accepted)
      <4>1. send[s].event \in Events
        BY <1>1, <1>2, <3>2 DEF RequestOK
      <4>2. QED
        BY <1>2, <3>2, <4>1, DeliveredTyped
    <3>3. QED
      BY <3>1, <3>2
  <2>2. journal' \subseteq Row
    <3>1. CASE UNCHANGED journal
      BY <1>2, <3>1 DEF TypeOK
    <3>2. CASE pc = "save" /\ Recorded(s)
      <4>1. send[s].event \in Events /\ send[s].status \in {"Mocked", "Sent", "Failed"}
        BY <1>1, <1>2, <3>2 DEF RequestOK, StatusTrue
      <4>2. QED
        BY <1>2, <3>2, <4>1, RecordedTyped
    <3>3. QED
      BY <3>1, <3>2
  <2>3. QED
    BY <1>1, <1>2, <2>1, <2>2 DEF TypeOK
<1>5. ASSUME NEW t \in Sends
      PROVE  (RequestOK(t) /\ RecordOK(t) /\ AddresseeOK(t))'
  <2>1. CASE t = s
    BY <2>1
  <2>2. CASE t # s
    <3>1. MessagesOf(t)' = MessagesOf(t)
      <4>1. CASE UNCHANGED received
        BY <4>1 DEF MessagesOf
      <4>2. CASE \E accepted \in BOOLEAN : Delivered(s, accepted)
        BY <1>2, <2>2, <4>2, DeliveryAdds
      <4>3. QED
        BY <4>1, <4>2
    <3>2. RowsOf(t)' = RowsOf(t)
      <4>1. CASE UNCHANGED journal
        BY <4>1 DEF RowsOf
      <4>2. CASE Recorded(s)
        BY <1>2, <2>2, <4>2, RecordAdds
      <4>3. QED
        BY <4>1, <4>2
    <3>3. RequestOK(t) /\ RecordOK(t) /\ AddresseeOK(t)
      BY DEF MailInv
    <3>4. Untouched(t)
      BY <1>1, <2>2, <3>1, <3>2, <3>3 DEF Untouched, AddresseeOK
    <3>5. QED
      BY <1>2, <3>3, <3>4, UntouchedKept
  <2>3. QED
    BY <2>1, <2>2
<1>6. AddressedAsAsked'
  <2> SUFFICES ASSUME NEW m \in received'
               PROVE  /\ m.event = send'[m.by].event /\ m.event \in StoredEvents
                      /\ m.addressee \in {send'[m.by].client, None}
                      /\ send'[m.by].client \in before'[m.by] => m.addressee = send'[m.by].client
                      /\ m.explanation \in IF m.addressee = None THEN {None} ELSE shown'[m.by]
    BY DEF AddressedAsAsked
  <2>1. CASE m \in received
    <3>1. m.by \in Sends
      BY <1>2, <2>1 DEF TypeOK, Message
    <3>2. send'[m.by].event = send[m.by].event /\ send'[m.by].client = send[m.by].client
      BY <1>1, <3>1
    <3>3. QED
      BY <1>1, <1>2, <2>1, <3>1, <3>2 DEF AddressedAsAsked
  <2>2. CASE m \notin received
    <3>1. PICK accepted \in BOOLEAN : pc = "post" /\ Delivered(s, accepted)
      BY <2>2
    <3>2. m = message(accepted)
      BY <1>2, <2>2, <3>1, DeliveryAdds
    <3>3. m.by = s /\ m.event = send[s].event /\ m.addressee = send[s].addressee
          /\ m.explanation = send[s].explanation
      BY <3>2
    <3>4. QED
      BY <1>1, <1>2, <3>1, <3>3 DEF AddresseeOK
  <2>3. QED
    BY <2>1, <2>2
<1>7. QED
  BY <1>3, <1>4, <1>5, <1>6 DEF MailInv

\* What the steps of a request that only look something up leave alone.
LEMMA LookupKeepsInv ==
    ASSUME MailInv, NEW s \in Sends, NEW pc \in Querying, NEW request \in Request,
           Moves(s, pc, request), UNCHANGED faults \/ Fault, UNCHANGED <<received, journal>>,
           request.event = send[s].event, request.client = send[s].client,
           request.pc \in {"client", "impact", "document", "post", "save", "NotFound", "Error"},
           request.pc = "post" => hooked,
           request.pc = "save" => request.status = "Mocked" /\ ~hooked,
           AddresseeOK(s)'
    PROVE  MailInv'
<1>1. send[s].pc = pc /\ send'[s] = request /\ UNCHANGED hooked
  BY MovesFrame DEF MailInv
<1>2. RowsOf(s) = {} /\ MessagesOf(s) = {} /\ send[s].event \in Events
  BY <1>1 DEF MailInv, RequestOK, Querying, Querying0
<1>3. RowsOf(s)' = {} /\ MessagesOf(s)' = {}
  BY <1>2 DEF RowsOf, MessagesOf
<1>4. RequestOK(s)' /\ RecordOK(s)'
  BY <1>1, <1>2, <1>3 DEF RequestOK, RecordOK, StatusTrue
<1>5. QED
  BY <1>4, MovesKeepInv

LEMMA LookupSteps ==
    ASSUME MailInv, NEW s \in Sends, FindEvent(s) \/ FindClient(s) \/ FindImpact(s) \/ FindDocument(s) \/ QueryFails(s)
    PROVE  MailInv'
<1> DEFINE r == send[s]
<1>1. TypeOK /\ r \in Request /\ RequestOK(s) /\ AddresseeOK(s)
  BY DEF MailInv, TypeOK
<1>2. None \notin Clients /\ before[s] \subseteq Clients /\ StoredEvents \subseteq Events
  BY <1>1, DeliveryAssumption DEF TypeOK
<1>3. CASE FindEvent(s)
  <2>1. PICK place \in {"NotFound", "document", "client"} :
            place = IF r.event \notin StoredEvents THEN "NotFound"
                    ELSE IF r.client = None THEN "document" ELSE "client"
    OBVIOUS
  <2>2. PICK request : request = [r EXCEPT !.pc = place]
    OBVIOUS
  <2>3. Moves(s, "event", request) /\ UNCHANGED <<received, journal, faults>>
    BY <1>3, <2>1, <2>2 DEF FindEvent, Finds
  <2>4. /\ request \in Request /\ request.pc = place
        /\ request.event = r.event /\ request.client = r.client
        /\ request.addressee = r.addressee /\ request.explanation = r.explanation
    BY <1>1, <2>2, MovedOn DEF Places
  <2>5. r.pc = "event" /\ send'[s] = request /\ UNCHANGED <<explained, before, shown, clients>>
    BY <1>1, <2>3, <2>4, MovesFrame
  <2>6. AddresseeOK(s)'
    BY <1>1, <1>2, <2>1, <2>4, <2>5 DEF AddresseeOK, Request, Somebody
  <2>7. QED
    BY <2>3, <2>4, <2>6, LookupKeepsInv DEF Querying
<1>4. CASE FindClient(s)
  <2>1. CASE r.client \in clients
    <3>1. PICK request : request = [r EXCEPT !.pc = "impact", !.addressee = r.client]
      OBVIOUS
    <3>2. Moves(s, "client", request) /\ UNCHANGED <<received, journal, faults>>
      BY <1>4, <2>1, <3>1 DEF FindClient, Finds
    <3>3. r.client \in Somebody
      BY <1>1 DEF Request
    <3>4. /\ request \in Request /\ request.pc = "impact" /\ request.addressee = r.client
          /\ request.event = r.event /\ request.client = r.client /\ request.explanation = r.explanation
      BY <1>1, <3>1, <3>3 DEF Request
    <3>5. r.pc = "client" /\ send'[s] = request /\ UNCHANGED <<explained, before, shown, clients>>
      BY <1>1, <3>2, <3>4, MovesFrame
    <3>6. AddresseeOK(s)'
      BY <1>1, <1>2, <2>1, <3>4, <3>5 DEF AddresseeOK
    <3>7. QED
      BY <3>2, <3>4, <3>6, LookupKeepsInv DEF Querying
  <2>2. CASE r.client \notin clients
    <3>1. PICK request : request = [r EXCEPT !.pc = "document"]
      OBVIOUS
    <3>2. Moves(s, "client", request) /\ UNCHANGED <<received, journal, faults>>
      BY <1>4, <2>2, <3>1 DEF FindClient, Finds
    <3>3. /\ request \in Request /\ request.pc = "document" /\ request.addressee = r.addressee
          /\ request.event = r.event /\ request.client = r.client /\ request.explanation = r.explanation
      BY <1>1, <3>1, MovedOn DEF Places
    <3>4. r.pc = "client" /\ send'[s] = request /\ UNCHANGED <<explained, before, shown, clients>>
      BY <1>1, <3>2, <3>3, MovesFrame
    <3>5. AddresseeOK(s)'
      BY <1>1, <1>2, <2>2, <3>3, <3>4 DEF AddresseeOK
    <3>6. QED
      BY <3>2, <3>3, <3>5, LookupKeepsInv DEF Querying
  <2>3. QED
    BY <2>1, <2>2
<1>5. CASE FindImpact(s)
  <2>1. PICK found : found = explained[<<r.event, r.addressee>>]
    OBVIOUS
  <2>2. PICK request : request = [r EXCEPT !.pc = "document", !.explanation = found]
    OBVIOUS
  <2>3. Moves(s, "impact", request) /\ UNCHANGED <<received, journal, faults>>
    BY <1>5, <2>1, <2>2 DEF FindImpact, Finds
  <2>4. r.pc = "impact"
    BY <2>3 DEF Moves
  <2>5. r.addressee = r.client /\ r.client \in Clients /\ r.event \in StoredEvents /\ found \in shown[s]
    BY <1>1, <2>1, <2>4 DEF AddresseeOK
  <2>6. found \in Explanations \cup {None}
    BY <1>1, <2>1, <2>5 DEF TypeOK
  <2>7. /\ request \in Request /\ request.pc = "document" /\ request.explanation = found
        /\ request.event = r.event /\ request.client = r.client /\ request.addressee = r.addressee
    BY <1>1, <2>2, <2>6 DEF Request
  <2>8. send'[s] = request /\ UNCHANGED <<explained, before, shown, clients>>
    BY <1>1, <2>3, <2>7, MovesFrame
  <2>9. AddresseeOK(s)'
    BY <1>1, <1>2, <2>4, <2>5, <2>7, <2>8 DEF AddresseeOK
  <2>10. QED
    BY <2>3, <2>7, <2>9, LookupKeepsInv DEF Querying
<1>6. CASE FindDocument(s)
  <2>1. PICK request : request = IF hooked THEN [r EXCEPT !.pc = "post"]
                                 ELSE [r EXCEPT !.pc = "save", !.status = "Mocked"]
    OBVIOUS
  <2>2. Moves(s, "document", request) /\ UNCHANGED <<received, journal, faults>>
    BY <1>6, <2>1 DEF FindDocument, Finds
  <2>3. /\ request \in Request /\ request.event = r.event /\ request.client = r.client
        /\ request.addressee = r.addressee /\ request.explanation = r.explanation
        /\ request.pc \in {"post", "save"}
        /\ request.pc = "post" => hooked
        /\ request.pc = "save" => request.status = "Mocked" /\ ~hooked
    <3>1. CASE hooked
      BY <1>1, <2>1, <3>1, MovedOn DEF Places
    <3>2. CASE ~hooked
      BY <1>1, <2>1, <3>2 DEF Request
    <3>3. QED
      BY <3>1, <3>2
  <2>4. r.pc = "document" /\ send'[s] = request /\ UNCHANGED <<explained, before, shown, clients>>
    BY <1>1, <2>2, <2>3, MovesFrame
  <2>5. AddresseeOK(s)'
    BY <1>1, <1>2, <2>3, <2>4 DEF AddresseeOK
  <2>6. QED
    BY <2>2, <2>3, <2>5, LookupKeepsInv DEF Querying
<1>7. CASE QueryFails(s)
  <2>1. PICK pc \in Querying, place \in {"NotFound", "Error"} :
            /\ Moves(s, pc, [r EXCEPT !.pc = place]) /\ (UNCHANGED faults \/ Fault)
            /\ UNCHANGED <<received, journal>>
    BY <1>7 DEF QueryFails
  <2>2. PICK request : request = [r EXCEPT !.pc = place]
    OBVIOUS
  <2>3. Moves(s, pc, request)
    BY <2>1, <2>2
  <2>4. /\ request \in Request /\ request.pc = place
        /\ request.event = r.event /\ request.client = r.client
        /\ request.addressee = r.addressee /\ request.explanation = r.explanation
    BY <1>1, <2>2, MovedOn DEF Places
  <2>5. r.pc = pc /\ send'[s] = request /\ UNCHANGED <<explained, before, shown, clients>>
    BY <1>1, <2>1, <2>3, <2>4, MovesFrame
  <2>6. AddresseeOK(s)'
    BY <1>1, <1>2, <2>1, <2>4, <2>5 DEF AddresseeOK, Querying
  <2>7. QED
    BY <2>1, <2>3, <2>4, <2>6, LookupKeepsInv
<1>8. QED
  BY <1>3, <1>4, <1>5, <1>6, <1>7

(* Nothing was sent or saved before the post; afterwards, at most a message *)
(* of this request.                                                         *)
LEMMA PostKeepsInv ==
    ASSUME MailInv, NEW s \in Sends, NEW request, Moves(s, "post", request),
           request \in Request, request.event = send[s].event, request.client = send[s].client,
           request.addressee = send[s].addressee,
           UNCHANGED faults \/ Fault, UNCHANGED journal,
           UNCHANGED received \/ \E accepted \in BOOLEAN : Delivered(s, accepted),
           \/ request.pc = "Error" /\ Fault
           \/ request.pc = "save" /\ request.status = "Failed"
           \/ request.pc = "save" /\ request.status = "Sent" /\ Delivered(s, TRUE)
    PROVE  MailInv'
<1> DEFINE message(accepted) == [by |-> s, event |-> send[s].event, addressee |-> send[s].addressee,
                                 explanation |-> send[s].explanation, accepted |-> accepted]
<1>1. TypeOK /\ send[s] \in Request /\ RequestOK(s) /\ AddresseeOK(s)
  BY DEF MailInv, TypeOK
<1>2. /\ send[s].pc = "post" /\ send'[s] = request /\ HostsGrow
      /\ UNCHANGED <<hooked, explained, before, shown, clients, crashes>>
  BY <1>1, MovesFrame
<1>3. RowsOf(s) = {} /\ MessagesOf(s) = {} /\ hooked /\ send[s].event \in Events
  BY <1>1, <1>2 DEF RequestOK, Querying0
<1>4. RowsOf(s)' = {}
  BY <1>3 DEF RowsOf
<1>5. /\ \A m \in MessagesOf(s)' : \E accepted \in BOOLEAN : m = message(accepted)
      /\ \A m, other \in MessagesOf(s)' : m = other
  <2>1. CASE UNCHANGED received
    BY <1>3, <2>1 DEF MessagesOf
  <2>2. CASE \E accepted \in BOOLEAN : Delivered(s, accepted)
    BY <1>1, <1>3, <2>2, DeliveryAdds
  <2>3. QED
    BY <2>1, <2>2
<1>6. Delivered(s, TRUE) => \E m \in MessagesOf(s)' : m.accepted
  <2>1. Delivered(s, TRUE) => message(TRUE) \in MessagesOf(s)'
    BY <1>1, DeliveryAdds
  <2>2. QED
    BY <2>1
<1>7. request.pc = "Error" => faults' + crashes' > 0
  <2>1. faults \in Nat /\ crashes \in Nat
    BY <1>1, HostsAssumption DEF TypeOK, HostsTypeOK
  <2>2. QED
    BY <1>2, <2>1 DEF Fault
<1>8. RequestOK(s)'
  BY <1>2, <1>3, <1>4, <1>6 DEF RequestOK, StatusTrue, Querying0
<1>9. RecordOK(s)'
  <2>1. \A m \in MessagesOf(s)' : m.event = send'[s].event /\ m.addressee = send'[s].addressee
    <3>1. \A accepted : message(accepted).event = send[s].event /\ message(accepted).addressee = send[s].addressee
      OBVIOUS
    <3>2. QED
      BY <1>2, <1>5, <3>1
  <2>2. send'[s].pc = "save" \/ (send'[s].pc \in Answers \ {"Created"} /\ faults' + crashes' > 0)
    BY <1>2, <1>7 DEF Answers
  <2>3. QED
    BY <1>2, <1>3, <1>4, <1>5, <2>1, <2>2 DEF RecordOK
<1>10. AddresseeOK(s)'
  BY <1>1, <1>2 DEF AddresseeOK
<1>11. QED
  BY <1>8, <1>9, <1>10, MovesKeepInv

LEMMA PostSteps ==
    ASSUME MailInv, NEW s \in Sends, Post(s) \/ PostFails(s) \/ PostCutShort(s)
    PROVE  MailInv'
<1> DEFINE r == send[s]
<1>1. TypeOK /\ r \in Request
  BY DEF MailInv, TypeOK
<1>2. CASE Post(s)
  <2>1. PICK accepted \in BOOLEAN, status \in {"Sent", "Failed"} :
            /\ status = "Sent" <=> accepted
            /\ Delivered(s, accepted) /\ UNCHANGED <<journal, faults>>
            /\ Moves(s, "post", [r EXCEPT !.pc = "save", !.status = status])
    BY <1>2 DEF Post
  <2>2. PICK request : request = [r EXCEPT !.pc = "save", !.status = status]
    OBVIOUS
  <2>3. Moves(s, "post", request)
    BY <2>1, <2>2
  <2>4. /\ request \in Request /\ request.pc = "save" /\ request.status = status
        /\ request.event = r.event /\ request.client = r.client /\ request.addressee = r.addressee
    BY <1>1, <2>2 DEF Request
  <2>5. status = "Sent" => Delivered(s, TRUE)
    BY <2>1
  <2>6. QED
    BY <2>1, <2>3, <2>4, <2>5, PostKeepsInv
<1>3. CASE PostFails(s)
  <2>1. PICK request : request = [r EXCEPT !.pc = "save", !.status = "Failed"]
    OBVIOUS
  <2>2. /\ Moves(s, "post", request) /\ Fault /\ UNCHANGED journal
        /\ UNCHANGED received \/ \E accepted \in BOOLEAN : Delivered(s, accepted)
    BY <1>3, <2>1 DEF PostFails
  <2>3. /\ request \in Request /\ request.pc = "save" /\ request.status = "Failed"
        /\ request.event = r.event /\ request.client = r.client /\ request.addressee = r.addressee
    BY <1>1, <2>1 DEF Request
  <2>4. QED
    BY <2>2, <2>3, PostKeepsInv
<1>4. CASE PostCutShort(s)
  <2>1. PICK request : request = [r EXCEPT !.pc = "Error"]
    OBVIOUS
  <2>2. /\ Moves(s, "post", request) /\ Fault /\ UNCHANGED journal
        /\ UNCHANGED received \/ \E accepted \in BOOLEAN : Delivered(s, accepted)
    BY <1>4, <2>1 DEF PostCutShort
  <2>3. /\ request \in Request /\ request.pc = "Error"
        /\ request.event = r.event /\ request.client = r.client /\ request.addressee = r.addressee
    BY <1>1, <2>1, MovedOn DEF Places
  <2>4. QED
    BY <2>2, <2>3, PostKeepsInv
<1>5. QED
  BY <1>2, <1>3, <1>4

(* The row carries the status that was found true.                          *)
LEMMA SaveSteps ==
    ASSUME MailInv, NEW s \in Sends, Save(s) \/ SaveFails(s)
    PROVE  MailInv'
<1> DEFINE r == send[s]
           row == [by |-> s, event |-> r.event, addressee |-> r.addressee, status |-> r.status]
<1>1. TypeOK /\ r \in Request /\ RequestOK(s) /\ RecordOK(s) /\ AddresseeOK(s)
  BY DEF MailInv, TypeOK
<1>2. PICK place \in {"Created", "NotFound", "Error"} :
          /\ Moves(s, "save", [r EXCEPT !.pc = place]) /\ UNCHANGED received
          /\ UNCHANGED faults \/ Fault
          /\ place # "Created" => Fault
          /\ UNCHANGED journal \/ Recorded(s)
          /\ place = "Created" => Recorded(s)
  BY DEF Save, SaveFails
<1>3. PICK request : request = [r EXCEPT !.pc = place]
  OBVIOUS
<1>4. Moves(s, "save", request)
  BY <1>2, <1>3
<1>5. /\ request \in Request /\ request.pc = place
      /\ request.event = r.event /\ request.client = r.client /\ request.addressee = r.addressee
  BY <1>1, <1>3, MovedOn DEF Places
<1>6. /\ r.pc = "save" /\ send'[s] = request /\ HostsGrow
      /\ UNCHANGED <<hooked, explained, before, shown, clients, crashes>>
  BY <1>1, <1>2, <1>4, <1>5, MovesFrame
<1>7. RowsOf(s) = {} /\ StatusTrue(s, r.status) /\ r.event \in Events
  BY <1>1, <1>6 DEF RequestOK
<1>8. MessagesOf(s)' = MessagesOf(s)
  BY <1>2 DEF MessagesOf
<1>9. /\ RowsOf(s)' = {} \/ RowsOf(s)' = {row}
      /\ place = "Created" => RowsOf(s)' = {row}
  <2>1. CASE UNCHANGED journal /\ place # "Created"
    BY <1>7, <2>1 DEF RowsOf
  <2>2. CASE Recorded(s)
    BY <1>1, <1>7, <2>2, RecordAdds
  <2>3. QED
    BY <1>2, <2>1, <2>2
<1>10. place # "Created" => faults' + crashes' > 0
  <2>1. faults \in Nat /\ crashes \in Nat
    BY <1>1, HostsAssumption DEF TypeOK, HostsTypeOK
  <2>2. QED
    BY <1>2, <1>6, <2>1 DEF Fault
<1>11. RequestOK(s)'
  BY <1>5, <1>6, <1>7, <1>9 DEF RequestOK, Querying0
<1>12. RecordOK(s)'
  <2>1. \A status : StatusTrue(s, status) => StatusTrue(s, status)'
    BY <1>6, <1>8 DEF StatusTrue
  <2>2. \A other \in RowsOf(s)' : other = row
    BY <1>9
  <2>3. row.event = r.event /\ row.addressee = r.addressee /\ row.status = r.status
    OBVIOUS
  <2>4. \A other \in RowsOf(s)' :
            /\ other.event = send'[s].event /\ other.addressee = send'[s].addressee
            /\ StatusTrue(s, other.status)'
    <3>1. ASSUME NEW other \in RowsOf(s)'
          PROVE  /\ other.event = r.event /\ other.addressee = r.addressee
                 /\ StatusTrue(s, other.status)'
      <4>1. other = row
        BY <2>2
      <4>2. StatusTrue(s, other.status)
        BY <1>7, <2>3, <4>1
      <4>3. QED
        BY <2>1, <2>3, <4>1, <4>2
    <3>2. QED
      BY <1>5, <1>6, <3>1
  <2>5. MessagesOf(s)' # {} /\ RowsOf(s)' = {} => place \in Answers \ {"Created"} /\ faults' + crashes' > 0
    BY <1>9, <1>10 DEF Answers
  <2>6. /\ \A m, other \in MessagesOf(s)' : m = other
        /\ \A m \in MessagesOf(s)' : hooked' /\ m.event = send'[s].event /\ m.addressee = send'[s].addressee
    BY <1>1, <1>5, <1>6, <1>8 DEF RecordOK
  <2>7. QED
    BY <1>5, <1>6, <2>2, <2>4, <2>5, <2>6 DEF RecordOK
<1>13. AddresseeOK(s)'
  BY <1>1, <1>5, <1>6 DEF AddresseeOK
<1>14. QED
  BY <1>2, <1>4, <1>5, <1>11, <1>12, <1>13, MovesKeepInv

-----------------------------------------------------------------------------
(* What happens around a request. *)

(* A request comes: whoever is a client now must be its addressee, if it is *)
(* asked for.                                                               *)
LEMMA AskKeepsInv ==
    ASSUME MailInv, NEW s \in Sends, NEW event \in Events, NEW client \in Somebody, Ask(s, event, client)
    PROVE  MailInv'
<1>1. TypeOK /\ SeedingInv /\ RequestOK(s) /\ RecordOK(s) /\ AddresseeOK(s) /\ AddressedAsAsked
  BY DEF MailInv
<1>2. PICK request : request = [NoRequest EXCEPT !.pc = "event", !.event = event, !.client = client]
  OBVIOUS
<1>3. /\ request \in Request /\ request.pc = "event" /\ request.event = event /\ request.client = client
      /\ request.addressee = None /\ request.explanation = None
  BY <1>2 DEF NoRequest, Request, Somebody
<1>4. /\ send[s].pc = "idle" /\ send' = [send EXCEPT ![s] = request]
      /\ before' = [before EXCEPT ![s] = clients]
      /\ shown' = [shown EXCEPT ![s] = IF <<event, client>> \in DOMAIN explained
                                       THEN {explained[<<event, client>>]} ELSE {}]
      /\ UNCHANGED <<hostVars, hooked, explained, received, journal>>
  BY <1>2 DEF Ask
<1>5. UNCHANGED <<clients, demos, api, faults, crashes>> /\ HostsTypeOK' /\ HostsGrow
  BY <1>1, <1>4, HostsAssumption DEF hostVars, apiVars, workerVars, TypeOK, HostsTypeOK, HostsGrow
<1>6. /\ send'[s] = request /\ before'[s] = clients
      /\ \A t \in Sends \ {s} : send'[t] = send[t] /\ before'[t] = before[t] /\ shown'[t] = shown[t]
      /\ event \in StoredEvents /\ client \in Clients => shown'[s] = {explained[<<event, client>>]}
  BY <1>1, <1>4 DEF TypeOK
<1>7. TypeOK'
  <2>1. explained \in [StoredEvents \X Clients -> Explanations \cup {None}]
    BY <1>1 DEF TypeOK
  <2>2. (IF <<event, client>> \in DOMAIN explained THEN {explained[<<event, client>>]} ELSE {})
            \in SUBSET (Explanations \cup {None})
    BY <2>1
  <2>3. clients \in SUBSET Clients
    BY <1>1 DEF TypeOK, HostsTypeOK
  <2>4. send' \in [Sends -> Request] /\ before' \in [Sends -> SUBSET Clients]
    BY <1>1, <1>3, <1>4, <2>3 DEF TypeOK
  <2>5. shown' \in [Sends -> SUBSET (Explanations \cup {None})]
    BY <1>1, <1>4, <2>2 DEF TypeOK
  <2>6. QED
    BY <1>1, <1>4, <1>5, <2>4, <2>5 DEF TypeOK
<1>8. RowsOf(s) = {} /\ MessagesOf(s) = {}
  BY <1>1, <1>4 DEF RequestOK, Querying0
<1>9. \A t \in Sends : RowsOf(t)' = RowsOf(t) /\ MessagesOf(t)' = MessagesOf(t)
  BY <1>4 DEF RowsOf, MessagesOf
<1>10. ASSUME NEW t \in Sends
       PROVE  (RequestOK(t) /\ RecordOK(t) /\ AddresseeOK(t))'
  <2>1. CASE t = s
    <3>1. RequestOK(s)' /\ RecordOK(s)'
      BY <1>3, <1>6, <1>8, <1>9 DEF RequestOK, RecordOK
    <3>2. AddresseeOK(s)'
      BY <1>3, <1>4, <1>5, <1>6 DEF AddresseeOK
    <3>3. QED
      BY <2>1, <3>1, <3>2
  <2>2. CASE t # s
    <3>1. RequestOK(t) /\ RecordOK(t) /\ AddresseeOK(t)
      BY DEF MailInv
    <3>2. Untouched(t)
      BY <1>4, <1>5, <1>6, <1>9, <2>2, <3>1 DEF Untouched, AddresseeOK
    <3>3. QED
      BY <1>1, <3>1, <3>2, UntouchedKept
  <2>3. QED
    BY <2>1, <2>2
<1>11. AddressedAsAsked'
  <2>1. \A m \in received : m.by \in Sends \ {s}
    BY <1>1, <1>8 DEF TypeOK, Message, MessagesOf
  <2>2. QED
    BY <1>1, <1>4, <1>6, <2>1 DEF AddressedAsAsked
<1>12. SeedingInv'
  BY <1>1, <1>5 DEF SeedingInv
<1>13. QED
  BY <1>7, <1>10, <1>11, <1>12 DEF MailInv

(* What a recalculation explains is on record from then on.                 *)
LEMMA RecalculateKeepsInv ==
    ASSUME MailInv, NEW event \in StoredEvents, NEW client \in Clients,
           NEW explanation \in Explanations \cup {None}, Recalculate(event, client, explanation)
    PROVE  MailInv'
<1>1. TypeOK /\ SeedingInv /\ AddressedAsAsked
  BY DEF MailInv
<1>2. /\ explained' = [explained EXCEPT ![<<event, client>>] = explanation]
      /\ shown' = [s \in Sends |-> IF send[s].event = event /\ send[s].client = client
                                   THEN shown[s] \cup {explanation} ELSE shown[s]]
      /\ UNCHANGED <<hostVars, hooked, send, received, journal, before>>
  BY DEF Recalculate
<1>3. UNCHANGED <<clients, demos, api, faults, crashes>> /\ HostsTypeOK' /\ HostsGrow
  BY <1>1, <1>2, HostsAssumption DEF hostVars, apiVars, workerVars, TypeOK, HostsTypeOK, HostsGrow
<1>4. TypeOK'
  <2>1. explained' \in [StoredEvents \X Clients -> Explanations \cup {None}]
    BY <1>1, <1>2 DEF TypeOK
  <2>2. shown' \in [Sends -> SUBSET (Explanations \cup {None})]
    BY <1>1, <1>2 DEF TypeOK
  <2>3. QED
    BY <1>1, <1>2, <1>3, <2>1, <2>2 DEF TypeOK
<1>5. ASSUME NEW s \in Sends
      PROVE  (RequestOK(s) /\ RecordOK(s) /\ AddresseeOK(s))' /\ shown[s] \subseteq shown'[s]
  <2>1. RequestOK(s) /\ RecordOK(s) /\ AddresseeOK(s)
    BY DEF MailInv
  <2>2. shown'[s] = IF send[s].event = event /\ send[s].client = client
                    THEN shown[s] \cup {explanation} ELSE shown[s]
    BY <1>2
  <2>3. RowsOf(s)' = RowsOf(s) /\ MessagesOf(s)' = MessagesOf(s)
    BY <1>2 DEF RowsOf, MessagesOf
  <2>4. ASSUME send[s].pc # "idle", send[s].event \in StoredEvents, send[s].client \in Clients
        PROVE  explained'[<<send[s].event, send[s].client>>] \in shown'[s]
    <3>1. CASE send[s].event = event /\ send[s].client = client
      BY <1>1, <1>2, <2>2, <3>1 DEF TypeOK
    <3>2. CASE ~(send[s].event = event /\ send[s].client = client)
      <4>1. <<send[s].event, send[s].client>> # <<event, client>>
        BY <3>2
      <4>2. explained'[<<send[s].event, send[s].client>>] = explained[<<send[s].event, send[s].client>>]
        BY <1>1, <1>2, <2>4, <4>1 DEF TypeOK
      <4>3. QED
        BY <2>1, <2>2, <2>4, <3>2, <4>2 DEF AddresseeOK
    <3>3. QED
      BY <3>1, <3>2
  <2>5. Untouched(s)
    BY <1>2, <1>3, <2>2, <2>3, <2>4 DEF Untouched
  <2>6. QED
    BY <1>1, <2>1, <2>2, <2>5, UntouchedKept
<1>6. AddressedAsAsked'
  BY <1>1, <1>2, <1>5, SentStaysAddressed
<1>7. SeedingInv'
  BY <1>1, <1>3 DEF SeedingInv
<1>8. QED
  BY <1>4, <1>5, <1>6, <1>7 DEF MailInv

(* The hosts go on without touching a request.                              *)
LEMMA HostsKeepInv ==
    ASSUME MailInv, HostsNext, UNCHANGED mailVars
    PROVE  MailInv'
<1>1. TypeOK /\ SeedingInv /\ AddressedAsAsked
  BY DEF MailInv
<1>2. HostsTypeOK' /\ HostsGrow
  BY <1>1, HostsTyped DEF TypeOK
<1>3. TypeOK'
  BY <1>1, <1>2 DEF TypeOK, mailVars, Message, Row, Request
<1>4. ASSUME NEW s \in Sends
      PROVE  (RequestOK(s) /\ RecordOK(s) /\ AddresseeOK(s))'
  <2>1. RequestOK(s) /\ RecordOK(s) /\ AddresseeOK(s)
    BY DEF MailInv
  <2>2. Untouched(s)
    BY <1>2, <2>1 DEF Untouched, mailVars, AddresseeOK, RowsOf, MessagesOf
  <2>3. QED
    BY <1>1, <2>1, <2>2, UntouchedKept
<1>5. AddressedAsAsked'
  BY <1>1, SentStaysAddressed DEF mailVars
<1>6. SeedingInv'
  BY <1>1, SeedingStep DEF TypeOK
<1>7. QED
  BY <1>3, <1>4, <1>5, <1>6 DEF MailInv

(* The API dies: a request under way is lost, and may have been delivered   *)
(* or saved.                                                                *)
LEMMA LostKeepsInv ==
    ASSUME MailInv, CrashApi, Lost
    PROVE  MailInv'
<1> DEFINE r(s) == send[s]
           over(s) == r(s).pc \in {"idle"} \cup Answers
           message(s, accepted) == [by |-> s, event |-> send[s].event, addressee |-> send[s].addressee,
                                    explanation |-> send[s].explanation, accepted |-> accepted]
<1>1. TypeOK /\ SeedingInv /\ AddressedAsAsked
      /\ \A s \in Sends : RequestOK(s) /\ RecordOK(s) /\ AddresseeOK(s) /\ r(s) \in Request
  BY DEF MailInv, TypeOK
<1>2. HostsTypeOK' /\ HostsGrow /\ crashes' > 0 /\ faults' + crashes' > 0 /\ UNCHANGED clients
  <2>1. HostsTypeOK' /\ HostsGrow
    BY <1>1, HostsTyped DEF TypeOK
  <2>2. crashes \in Nat /\ faults' \in Nat /\ MaxCrashes \in Nat
    BY <1>1, <2>1, HostsAssumption DEF TypeOK, HostsTypeOK, HostsGrow
  <2>3. QED
    BY <2>1, <2>2 DEF CrashApi
<1>3. UNCHANGED <<hooked, explained, before, shown>>
  BY DEF Lost
<1>4. ASSUME NEW s \in Sends
      PROVE  /\ send'[s] \in Request
             /\ send'[s].event = r(s).event /\ send'[s].client = r(s).client
             /\ send'[s].addressee = r(s).addressee
             /\ over(s) => send'[s] = r(s)
             /\ ~over(s) => send'[s].pc = "lost"
  <2>1. CASE over(s)
    BY <1>1, <2>1 DEF Lost
  <2>2. CASE ~over(s)
    <3>1. send'[s] = [r(s) EXCEPT !.pc = "lost"]
      BY <2>2 DEF Lost
    <3>2. QED
      BY <1>1, <2>2, <3>1, MovedOn DEF Places
  <2>3. QED
    BY <2>1, <2>2
<1>5. ASSUME NEW s \in Sends
      PROVE  /\ \/ MessagesOf(s)' = MessagesOf(s)
                \/ r(s).pc = "post" /\ MessagesOf(s)' = MessagesOf(s) \cup {message(s, TRUE)}
             /\ \/ RowsOf(s)' = RowsOf(s)
                \/ /\ r(s).pc = "save"
                   /\ RowsOf(s)' = RowsOf(s) \cup {[by |-> s, event |-> send[s].event,
                                                    addressee |-> send[s].addressee, status |-> send[s].status]}
  <2>1. CASE UNCHANGED <<received, journal>>
    BY <2>1 DEF MessagesOf, RowsOf
  <2>2. ASSUME NEW t \in Sends, r(t).pc = "post", Delivered(t, TRUE), UNCHANGED journal
        PROVE  /\ RowsOf(s)' = RowsOf(s)
               /\ \/ MessagesOf(s)' = MessagesOf(s)
                  \/ r(s).pc = "post" /\ MessagesOf(s)' = MessagesOf(s) \cup {message(s, TRUE)}
    BY <1>1, <2>2, DeliveryAdds DEF RowsOf
  <2>3. ASSUME NEW t \in Sends, r(t).pc = "save", Recorded(t), UNCHANGED received
        PROVE  /\ MessagesOf(s)' = MessagesOf(s)
               /\ \/ RowsOf(s)' = RowsOf(s)
                  \/ /\ r(s).pc = "save"
                     /\ RowsOf(s)' = RowsOf(s) \cup {[by |-> s, event |-> send[s].event,
                                                      addressee |-> send[s].addressee, status |-> send[s].status]}
    BY <1>1, <2>3, RecordAdds DEF MessagesOf
  <2>4. QED
    BY <2>1, <2>2, <2>3 DEF Lost
<1>6. TypeOK'
  <2>1. received' \subseteq Message
    <3>1. CASE UNCHANGED received
      BY <1>1, <3>1 DEF TypeOK
    <3>2. ASSUME NEW s \in Sends, r(s).pc = "post", Delivered(s, TRUE)
          PROVE  received' \subseteq Message
      BY <1>1, <3>2, DeliveredTyped DEF RequestOK
    <3>3. QED
      BY <3>1, <3>2 DEF Lost
  <2>2. journal' \subseteq Row
    <3>1. CASE UNCHANGED journal
      BY <1>1, <3>1 DEF TypeOK
    <3>2. ASSUME NEW s \in Sends, r(s).pc = "save", Recorded(s)
          PROVE  journal' \subseteq Row
      BY <1>1, <3>2, RecordedTyped DEF RequestOK, StatusTrue
    <3>3. QED
      BY <3>1, <3>2 DEF Lost
  <2>3. send' \in [Sends -> Request]
    <3>1. DOMAIN send' = Sends /\ send' = [s \in Sends |-> send'[s]]
      BY DEF Lost
    <3>2. QED
      BY <1>4, <3>1
  <2>4. QED
    BY <1>1, <1>2, <1>3, <2>1, <2>2, <2>3 DEF TypeOK
<1>7. ASSUME NEW s \in Sends
      PROVE  (RequestOK(s) /\ RecordOK(s) /\ AddresseeOK(s))'
  <2>1. RequestOK(s) /\ RecordOK(s) /\ AddresseeOK(s)
    BY <1>1
  <2>2. CASE over(s)
    <3>1. send'[s] = send[s] /\ RowsOf(s)' = RowsOf(s) /\ MessagesOf(s)' = MessagesOf(s)
      BY <1>4, <1>5, <2>2 DEF Answers
    <3>2. Untouched(s)
      BY <1>2, <1>3, <2>1, <3>1 DEF Untouched, AddresseeOK
    <3>3. QED
      BY <1>1, <2>1, <3>2, UntouchedKept
  <2>3. CASE ~over(s)
    <3>1. /\ send'[s].pc = "lost" /\ send'[s].event = r(s).event /\ send'[s].client = r(s).client
          /\ send'[s].addressee = r(s).addressee
      BY <1>4, <2>3
    <3>2. r(s).pc # "idle" /\ r(s).event \in Events
      BY <2>1, <2>3 DEF RequestOK
    <3>3. RequestOK(s)'
      BY <3>1, <3>2 DEF RequestOK, Querying0
    <3>4. AddresseeOK(s)'
      BY <1>2, <1>3, <2>1, <3>1, <3>2 DEF AddresseeOK
    <3>5. \A status : (\E m \in MessagesOf(s) : m.accepted) \/ status # "Sent" =>
              (StatusTrue(s, status) => StatusTrue(s, status)')
      BY <1>3, <1>5 DEF StatusTrue
    <3>6. \A status : StatusTrue(s, status) => StatusTrue(s, status)'
      BY <3>5 DEF StatusTrue
    <3>7. /\ \A m, other \in MessagesOf(s)' : m = other
          /\ \A m \in MessagesOf(s)' : hooked' /\ m.event = send'[s].event /\ m.addressee = send'[s].addressee
      <4>1. CASE MessagesOf(s)' = MessagesOf(s)
        BY <1>3, <2>1, <3>1, <4>1 DEF RecordOK
      <4>2. CASE r(s).pc = "post" /\ MessagesOf(s)' = MessagesOf(s) \cup {message(s, TRUE)}
        <5>1. MessagesOf(s) = {} /\ hooked
          BY <2>1, <4>2 DEF RequestOK, Querying0
        <5>2. \A m \in MessagesOf(s)' : m = message(s, TRUE)
          BY <4>2, <5>1
        <5>3. message(s, TRUE).event = r(s).event /\ message(s, TRUE).addressee = r(s).addressee
          OBVIOUS
        <5>4. QED
          BY <1>3, <3>1, <5>1, <5>2, <5>3
      <4>3. QED
        BY <1>5, <4>1, <4>2
    <3>8. /\ \A row, other \in RowsOf(s)' : row = other
          /\ \A row \in RowsOf(s)' :
                /\ row.event = r(s).event /\ row.addressee = r(s).addressee
                /\ StatusTrue(s, row.status)
      <4>1. CASE RowsOf(s)' = RowsOf(s)
        BY <2>1, <4>1 DEF RecordOK
      <4>2. CASE r(s).pc = "save" /\ RowsOf(s)' # RowsOf(s)
        <5>1. PICK row : row = [by |-> s, event |-> r(s).event, addressee |-> r(s).addressee,
                                status |-> r(s).status]
          OBVIOUS
        <5>2. RowsOf(s) = {} /\ StatusTrue(s, r(s).status)
          BY <2>1, <4>2 DEF RequestOK
        <5>3. RowsOf(s)' = {row}
          BY <1>5, <4>2, <5>1, <5>2
        <5>4. row.event = r(s).event /\ row.addressee = r(s).addressee /\ row.status = r(s).status
          BY <5>1
        <5>5. QED
          BY <5>2, <5>3, <5>4
      <4>3. QED
        BY <1>5, <4>1, <4>2
    <3>9. RecordOK(s)'
      BY <1>2, <3>1, <3>6, <3>7, <3>8 DEF RecordOK, Answers
    <3>10. QED
      BY <3>3, <3>4, <3>9
  <2>4. QED
    BY <2>2, <2>3
<1>8. AddressedAsAsked'
  <2> SUFFICES ASSUME NEW m \in received'
               PROVE  /\ m.event = send'[m.by].event /\ m.event \in StoredEvents
                      /\ m.addressee \in {send'[m.by].client, None}
                      /\ send'[m.by].client \in before'[m.by] => m.addressee = send'[m.by].client
                      /\ m.explanation \in IF m.addressee = None THEN {None} ELSE shown'[m.by]
    BY DEF AddressedAsAsked
  <2>1. CASE m \in received
    <3>1. m.by \in Sends
      BY <1>1, <2>1 DEF TypeOK, Message
    <3>2. QED
      BY <1>1, <1>3, <1>4, <2>1, <3>1 DEF AddressedAsAsked
  <2>2. CASE m \notin received
    <3>1. PICK s \in Sends : send[s].pc = "post" /\ Delivered(s, TRUE)
      BY <2>2 DEF Lost
    <3>2. m = message(s, TRUE)
      <4>1. received' = received \cup {message(s, TRUE)}
        BY <1>1, <3>1, DeliveryAdds
      <4> HIDE DEF message
      <4>2. QED
        BY <2>2, <4>1
    <3>3. m.by = s /\ m.event = send[s].event /\ m.addressee = send[s].addressee
          /\ m.explanation = send[s].explanation
      BY <3>2
    <3>4. AddresseeOK(s) /\ UNCHANGED <<before, shown>>
      BY <1>1, <1>3
    <3>5. send'[s].event = send[s].event /\ send'[s].client = send[s].client
      BY <1>4
    <3>6. QED
      BY <3>1, <3>3, <3>4, <3>5 DEF AddresseeOK
  <2>3. QED
    BY <2>1, <2>2
<1>9. SeedingInv'
  BY <1>1, SeedingStep DEF TypeOK
<1>10. QED
  BY <1>6, <1>7, <1>8, <1>9 DEF MailInv

LEMMA MailNext ==
    ASSUME MailInv, [Next]_vars
    PROVE  MailInv'
<1>1. CASE HostsNext /\ UNCHANGED mailVars
  BY <1>1, HostsKeepInv
<1>2. CASE CrashApi /\ Lost
  BY <1>2, LostKeepsInv
<1>3. ASSUME NEW s \in Sends, NEW event \in Events, NEW client \in Somebody, Ask(s, event, client)
      PROVE  MailInv'
  BY <1>3, AskKeepsInv
<1>4. ASSUME NEW s \in Sends, Step(s)
      PROVE  MailInv'
  BY <1>4, LookupSteps, PostSteps, SaveSteps DEF Step
<1>5. ASSUME NEW event \in StoredEvents, NEW client \in Clients, NEW explanation \in Explanations \cup {None},
             Recalculate(event, client, explanation)
      PROVE  MailInv'
  BY <1>5, RecalculateKeepsInv
<1>6. CASE UNCHANGED vars
  <2>1. TypeOK'
    BY <1>6 DEF MailInv, TypeOK, HostsTypeOK, vars, hostVars, apiVars, workerVars, mailVars, Message, Row, Request
  <2>2. SeedingInv' /\ AddressedAsAsked'
    BY <1>6 DEF MailInv, SeedingInv, AddressedAsAsked, vars, hostVars, apiVars, mailVars
  <2>3. \A s \in Sends : (RequestOK(s) /\ RecordOK(s) /\ AddresseeOK(s))'
    BY <1>6 DEF MailInv, RequestOK, RecordOK, AddresseeOK, StatusTrue, RowsOf, MessagesOf,
           vars, hostVars, apiVars, mailVars
  <2>4. QED
    BY <2>1, <2>2, <2>3 DEF MailInv
<1>7. QED
  BY <1>1, <1>2, <1>3, <1>4, <1>5, <1>6 DEF Next

LEMMA MailInvariant == Spec => []MailInv
  BY MailInit, MailNext, PTL DEF Spec

-----------------------------------------------------------------------------
(* The theorems. *)

(* Every value keeps its type, whatever fails or dies.                      *)
THEOREM DeliveryTypes == Spec => []TypeOK
<1>1. MailInv => TypeOK
  BY DEF MailInv
<1>2. QED
  BY <1>1, MailInvariant, PTL

(* However often the API is started and wherever its start-up breaks off,   *)
(* the demo clients are inserted at most once, and are there if nothing     *)
(* failed.                                                                  *)
THEOREM DemosOnce == Spec => []DemoClientsOnce
<1>1. MailInv => DemoClientsOnce
  BY DEF MailInv, SeedingInv, DemoClientsOnce
<1>2. QED
  BY <1>1, MailInvariant, PTL

(* Every message goes to the client it was asked for, with an impact of     *)
(* that client, or to nobody in particular without one.                     *)
THEOREM MessagesAddressed == Spec => []AddressedAsAsked
<1>1. MailInv => AddressedAsAsked
  BY DEF MailInv
<1>2. QED
  BY <1>1, MailInvariant, PTL

\* A set without two different elements has at most one.
LEMMA AtMostOne ==
    ASSUME NEW S, \A x, y \in S : x = y
    PROVE  Cardinality(S) <= 1
<1>1. CASE S = {}
  BY <1>1, FS_EmptySet
<1>2. CASE S # {}
  <2>1. PICK x \in S : TRUE
    BY <1>2
  <2>2. S = {x}
    BY <2>1
  <2>3. QED
    BY <2>2, FS_Singleton
<1>3. QED
  BY <1>1, <1>2

(* The journal says of every request what the webhook did, and a message    *)
(* that is missing in it belongs to a request that ended in an error.       *)
THEOREM JournalTrue == Spec => []JournalMatchesWebhook
<1>1. ASSUME MailInv, NEW s \in Sends
      PROVE  /\ Cardinality(RowsOf(s)) <= 1 /\ Cardinality(MessagesOf(s)) <= 1
             /\ send[s].pc = "Created" => RowsOf(s) # {}
             /\ \A row \in RowsOf(s) :
                   /\ row.status = "Mocked" <=> ~hooked
                   /\ row.status = "Mocked" => MessagesOf(s) = {}
                   /\ row.status = "Sent" =>
                         \E message \in MessagesOf(s) :
                             message.accepted /\ message.event = row.event /\ message.addressee = row.addressee
             /\ MessagesOf(s) # {} /\ RowsOf(s) = {} =>
                   send[s].pc = "save" \/ (send[s].pc \in Answers \ {"Created"} /\ faults + crashes > 0)
  <2>1. RequestOK(s) /\ RecordOK(s)
    BY <1>1 DEF MailInv
  <2>2. Cardinality(RowsOf(s)) <= 1 /\ Cardinality(MessagesOf(s)) <= 1
    BY <2>1, AtMostOne DEF RecordOK
  <2>3. ASSUME NEW row \in RowsOf(s)
        PROVE  /\ row.status = "Mocked" <=> ~hooked
               /\ row.status = "Mocked" => MessagesOf(s) = {}
               /\ row.status = "Sent" =>
                     \E message \in MessagesOf(s) :
                         message.accepted /\ message.event = row.event /\ message.addressee = row.addressee
    BY <2>1 DEF RecordOK, StatusTrue
  <2>4. QED
    BY <2>1, <2>2, <2>3 DEF RequestOK, RecordOK
<1>2. MailInv => JournalMatchesWebhook
  BY <1>1 DEF JournalMatchesWebhook
<1>3. QED
  BY <1>2, MailInvariant, PTL
================================================================================
