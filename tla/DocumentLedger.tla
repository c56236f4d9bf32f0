---------------------------- MODULE DocumentLedger ----------------------------
(***************************************************************************)
(* What the document pipeline promises its callers, without jobs, change   *)
(* trackers or failures: a ledger in which an ingestion registers a text   *)
(* at most once, a registered text is analysed at most once, and nothing   *)
(* is ever withdrawn.  DocumentPipeline implements it.                     *)
(***************************************************************************)
CONSTANTS Texts, Op, None

VARIABLES
    owner,     \* the ingestion that registered each text, or None
    analysed,  \* the texts whose analysis is on record
    answers    \* what each operation was told, with the text it was about

Untold  == [outcome |-> "none", text |-> None]
Told    == [outcome : {"Created", "Duplicate"}, text : Texts]
ledger  == <<owner, analysed, answers>>

LedgerInit ==
    /\ owner = [t \in Texts |-> None]
    /\ analysed = {}
    /\ answers = [op \in Op |-> Untold]

\* The first ingestion of a text to commit registers it.
Register(op, t) ==
    /\ owner[t] = None
    /\ owner' = [owner EXCEPT ![t] = op]
    /\ UNCHANGED <<analysed, answers>>

\* The first analysis of a registered text to commit puts it on record.
Analyse(t) ==
    /\ owner[t] # None
    /\ t \notin analysed
    /\ analysed' = analysed \cup {t}
    /\ UNCHANGED <<owner, answers>>

\* Created is told to the ingestion that registered the text, and only to it.
TellCreated(op, t) ==
    /\ answers[op] = Untold
    /\ owner[t] = op
    /\ answers' = [answers EXCEPT ![op] = [outcome |-> "Created", text |-> t]]
    /\ UNCHANGED <<owner, analysed>>

\* Duplicate is told to an ingestion that came after another one.
TellDuplicate(op, t) ==
    /\ answers[op] = Untold
    /\ owner[t] \notin {None, op}
    /\ answers' = [answers EXCEPT ![op] = [outcome |-> "Duplicate", text |-> t]]
    /\ UNCHANGED <<owner, analysed>>

LedgerNext ==
    \E t \in Texts : \/ Analyse(t)
                     \/ \E op \in Op : Register(op, t) \/ TellCreated(op, t) \/ TellDuplicate(op, t)

LedgerSpec == LedgerInit /\ [][LedgerNext]_ledger
=============================================================================
