---------------------------- MODULE AnalysisContent ----------------------------
(***************************************************************************)
(* What an answer of the Python AI service is made of, from the text to    *)
(* the reply: the provider's answer reconciled with the text, or the       *)
(* controlled baseline; the impact; the clients; the drafts; the evidence  *)
(* and the chunks it comes from; and what each endpoint passes on.  How    *)
(* the provider is asked, retried and logged is module AnalyzeEndpoint.    *)
(*                                                                         *)
(* A text is a sequence of pieces.  Some pieces end a sentence, some end a *)
(* chunk.  A quotation is a run <<first, last>> of pieces, or Space,       *)
(* nothing but whitespace, which stands in every text; whatever else a     *)
(* provider may write is Invented.  A provider is not trusted: it may      *)
(* answer with anything the response schema accepts.                       *)
(***************************************************************************)
EXTENDS ClientMatching, Selection, FiniteSets, SequencesExt

CONSTANTS
    Documents,     \* texts
    Answers,       \* answers of a provider that pass the schema
    Requests,      \* requests to the endpoints that analyse a text
    Clients,       \* clients that a request or the main backend may name
    Profile,       \* what is declared about each
    Dates,         \* dates, as they are worded
    Spelled,       \* the dates whose wording occurs in that of each: a 1st in an 11th
    BackendLists,  \* what GET /api/clientprofiles may list
    MaxItems,      \* items of a kind that the baseline keeps (5)
    MaxFragments,  \* fragments that the baseline keeps (20)
    MaxEvidence,   \* evidence fragments of an impact (5)
    MaxDates,      \* key dates that the baseline keeps (3)
    Invented,      \* a quotation that is not in the text
    Space,         \* a quotation of whitespace only
    None           \* "no clients in the request", "no chunk"

Kinds == {"obligations", "restrictions", "penalties"}

\* What a piece may contain: a domain's marker, an evidence marker ("cue"), a keyword of a
\* kind of item, a signal, a date; "long" makes it too long for an item.
Facts == Domains \cup Signals \cup Kinds \cup Dates \cup {"cue", "currencyControl", "long"}

Endpoints == {"contract", "integration", "existing", "document", "card", "full"}

Positions(text) == 1..Len(text.pieces)

Runs(text) == {run \in Positions(text) \X Positions(text) : run[1] <= run[2]}

Text == [pieces : Seq(SUBSET Facts), ends : SUBSET Nat, breaks : SUBSET Nat, resolution : BOOLEAN]

ASSUME ContentAssumption ==
    /\ \A text \in Documents :
          /\ text \in Text
          /\ text.pieces # <<>> => Len(text.pieces) \in text.ends \cap text.breaks
          /\ \A k \in Positions(text) : Cardinality(text.pieces[k] \cap Dates) <= 1
    /\ Profile \in [Clients -> ClientProfile]
    /\ Clients \cap Seeds = {}
    /\ BackendLists \subseteq SUBSET Clients
    /\ IsFiniteSet(Clients)
    /\ Spelled \in [Dates -> SUBSET Dates]
    /\ \A date \in Dates : date \in Spelled[date]
    /\ Space \notin Nat \X Nat
    /\ {MaxItems, MaxFragments, MaxEvidence, MaxDates} \subseteq Nat \ {0}
    /\ \A request \in Requests :
          /\ request.endpoint \in Endpoints
          /\ request.text \in Documents
          /\ request.clients \in (SUBSET Clients) \cup {None}
          /\ request.seeds \in BOOLEAN
          /\ request.endpoint \in {"document", "card", "full"} => request.text.pieces # <<>>
          /\ request.endpoint = "contract" => request.clients # None
          /\ request.endpoint \in {"existing", "card"} => request.clients = None
          /\ request.endpoint # "document" => request.seeds

VARIABLES
    setup,     \* MAIN_BACKEND_URL is configured; MAIN_BACKEND_ALLOW_SEED_FALLBACK
    request,
    stage,
    clients,   \* the profiles the analysis is given; none is the same as an empty list
    analysis,  \* DocumentAnalysis
    impact,    \* ImpactAssessment
    listed,    \* ClientRelevance: the listed clients, with their level
    drafts,    \* NotificationDraft: for whom, with which priority
    evidence,  \* EvidenceFragment: the quotation and the chunk it is linked to
    answer     \* the reply

vars == <<setup, request, stage, clients, analysis, impact, listed, drafts, evidence, answer>>

-----------------------------------------------------------------------------
(* Texts and what is quoted of them. *)

\* The runs of pieces that end at these positions, each from the end of the one before.
RunTo(at, k) == <<1 + Max({0} \cup {e \in at : e < k}), k>>

Split(text, at) == Picked([k \in Positions(text) |-> RunTo(at, k)], at \cap Positions(text))

Sentences(text) == Split(text, text.ends)
Chunks(text)    == Split(text, text.breaks)

\* What a provider can quote of a text.
InText(text) == Runs(text) \cup {Space}

Quotation == (Nat \X Nat) \cup {Invented, Space}

FactsOf(text, item) == IF item = Space THEN {} ELSE UNION {text.pieces[k] : k \in item[1]..item[2]}

Said(text, items) == UNION {FactsOf(text, items[i]) : i \in DOMAIN items}

AllOf(text) == UNION {text.pieces[k] : k \in Positions(text)}

\* The dates that are found where these facts stand: a search does not ask where a number starts.
Occurring(facts) == UNION {Spelled[date] : date \in facts \cap Dates}

\* The dates in the order of the text, one that is stated twice twice.
KeyDates(text) ==
    LET dated == Picked(text.pieces, {k \in Positions(text) : text.pieces[k] \cap Dates # {}})
    IN  [i \in DOMAIN dated |-> CHOOSE date \in Dates : date \in dated[i]]

DomainOf(text) == DetectDomain(AllOf(text))

FirstOf(n, s) == SubSeq(s, 1, Min({n, Len(s)}))

\* The first occurrence of each item.
Distinct(s) == Picked(s, {i \in DOMAIN s : \A j \in 1..(i - 1) : s[j] # s[i]})

\* Whitespace is no empty string, so it passes.
Verbatim(text, items) == Distinct(Picked(items, {i \in DOMAIN items : items[i] \in InText(text)}))

-----------------------------------------------------------------------------
(* Analyses. *)

Analysis == [domain     : Domains \cup {NeutralDomain},
             lists      : [Kinds -> Seq(Quotation)],
             fragments  : Seq(Quotation),
             dates      : Seq(Dates),
             resolution : BOOLEAN]

ASSUME AnswersAssumption == \A said \in Answers : said \in Analysis

NoAnalysis == [domain |-> NeutralDomain, lists |-> [k \in Kinds |-> <<>>],
               fragments |-> <<>>, dates |-> <<>>, resolution |-> FALSE]

\* _extract_items, _find_fragments and the fallback to the first sentence.
Extracted(text, kind) ==
    LET sentences == Sentences(text)
    IN  FirstOf(MaxItems, Picked(sentences, {i \in DOMAIN sentences :
            kind \in FactsOf(text, sentences[i]) /\ "long" \notin FactsOf(text, sentences[i])}))

FoundFragments(text) ==
    LET sentences == Sentences(text)
        found == Picked(sentences, {i \in DOMAIN sentences :
                                       FactsOf(text, sentences[i]) \cap ({"cue"} \cup Kinds) # {}})
    IN  IF found # <<>> THEN FirstOf(MaxFragments, found) ELSE FirstOf(1, sentences)

Baseline(text) ==
    [domain     |-> DomainOf(text),
     lists      |-> [k \in Kinds |-> Extracted(text, k)],
     fragments  |-> FoundFragments(text),
     dates      |-> FirstOf(MaxDates, KeyDates(text)),
     resolution |-> text.resolution]

\* Mutant: the provider's own domain routes the document.
TrustedDomain(text, said) ==
    [domain     |-> said.domain,
     lists      |-> [k \in Kinds |-> Verbatim(text, said.lists[k])],
     fragments  |-> IF Verbatim(text, said.fragments) # <<>> THEN Verbatim(text, said.fragments)
                    ELSE Baseline(text).fragments,
     dates      |-> said.dates,
     resolution |-> said.resolution]

\* reconcile_with_controlled_baseline: the dates and the type are the provider's.
Reconciled(text, said) ==
    LET quoted == Verbatim(text, said.fragments)
    IN  [said EXCEPT !.domain    = DomainOf(text),
                     !.lists     = [k \in Kinds |-> Verbatim(text, said.lists[k])],
                     !.fragments = IF quoted # <<>> THEN quoted ELSE Baseline(text).fragments]

FindingsOf(text, doc) ==
    [domain    |-> doc.domain,
     signals   |-> (Said(text, doc.fragments) \cap (FinancialSignals \cup FuelSignals))
                   \cup When("authority" \in Said(text, doc.lists["obligations"]), {"authority"})
                   \cup When(doc.resolution, {"resolution"}),
     dates     |-> Len(doc.dates),
     obliged   |-> doc.lists["obligations"] # <<>>,
     penalised |-> doc.lists["penalties"] # <<>>]

\* The phrases by which a domain's triggers pick their evidence, in the order of the code.
FocusEvidence(text, doc) ==
    LET among(words) == Picked(doc.fragments, {i \in DOMAIN doc.fragments :
                            LET said == FactsOf(text, doc.fragments[i])
                            IN  (said \cup Occurring(said)) \cap words # {}})
        by(phrase) == among({phrase})
    IN  CASE doc.domain \in {"personal_data", "aml", "foreign_trade_currency_control"} ->
                 FirstOf(1, doc.fragments)
          [] doc.domain = "financial_market_securities" ->
                 by("cue") \o by("organizer") \o by("publicCompany") \o by("centralBank")
                 \o among(ToSet(doc.dates))
          [] doc.domain = "fuel_excise" ->
                 by("petrol") \o by("oil") \o by("exchange") \o by("excise") \o by("percent")
          [] OTHER -> <<>>

ImpactEvidence(text, doc) ==
    LET found == Distinct(FocusEvidence(text, doc)
                          \o FirstOf(2, doc.lists["penalties"]) \o FirstOf(2, doc.lists["obligations"]))
    IN  FirstOf(MaxEvidence, IF found # <<>> THEN found ELSE FirstOf(1, doc.fragments))

Impact == [score : 0..100, level : Levels, evidence : Seq(Quotation)]

NoImpact == [score |-> 0, level |-> "low", evidence |-> <<>>]

-----------------------------------------------------------------------------
(* Requests, replies. *)

ClientIds == Clients \cup Seeds

Statuses == {"none", "OK", "BadRequest", "BadGateway", "Unavailable"}

Reply == [status : Statuses, score : 0..100, level : Levels, quoted : SUBSET Quotation,
          evidence : SUBSET (Quotation \X ((Nat \X Nat) \cup {None})),
          dates : SUBSET Dates, clients : SUBSET ClientIds, drafts : SUBSET (ClientIds \X Levels)]

NoReply == [status |-> "none", score |-> 0, level |-> "low", quoted |-> {}, evidence |-> {},
            dates |-> {}, clients |-> {}, drafts |-> {}]

Stages == {"received", "identified", "resolved", "analysed", "assessed", "matched", "drafted",
           "carded", "linked", "answered"}

TypeOK ==
    /\ setup \in [backend : BOOLEAN, seeds : BOOLEAN]
    /\ request \in Requests
    /\ stage \in Stages
    /\ clients \subseteq Clients
    /\ analysis \in Analysis
    /\ impact \in Impact
    /\ \E some \in SUBSET ClientIds : listed \in [some -> {"low", "medium", "high"}]
    /\ drafts \subseteq ClientIds \X Levels
    /\ evidence \subseteq Quotation \X ((Nat \X Nat) \cup {None})
    /\ answer \in Reply

Init ==
    /\ setup \in [backend : BOOLEAN, seeds : BOOLEAN]
    /\ request \in Requests
    /\ stage = "received"
    /\ clients = {}
    /\ analysis = NoAnalysis
    /\ impact = NoImpact
    /\ listed = <<>>
    /\ drafts = {}
    /\ evidence = {}
    /\ answer = NoReply

At(before, after) == stage = before /\ stage' = after /\ UNCHANGED <<setup, request>>

Refuse(status) ==
    /\ stage' = "answered"
    /\ answer' = [NoReply EXCEPT !.status = status]
    /\ UNCHANGED <<setup, request, clients, analysis, impact, listed, drafts, evidence>>

ResolvedWith(found) ==
    /\ stage' = "resolved"
    /\ clients' = found
    /\ UNCHANGED <<setup, request, analysis, impact, listed, drafts, evidence, answer>>

Blank == request.text.pieces = <<>>

-----------------------------------------------------------------------------
(* Whose profiles. *)

\* analyze_existing_document_id: the document and, unless it came along, its text.
IdentifyDocument ==
    /\ request.endpoint = "existing"
    /\ stage = "received"
    /\ \/ ~setup.backend /\ Blank /\ Refuse("BadRequest")
       \/ setup.backend /\ Refuse("BadGateway")
       \/ /\ ~Blank
          /\ At("received", "identified")
          /\ UNCHANGED <<clients, analysis, impact, listed, drafts, evidence, answer>>

RefuseBlank ==
    /\ request.endpoint \in {"contract", "integration"}
    /\ stage = "received"
    /\ Blank
    /\ Refuse("BadRequest")

\* Every endpoint but the integration's works with the profiles of its request.
TakeProfiles ==
    /\ request.endpoint \in {"contract", "document", "card", "full"}
    /\ stage = "received"
    /\ ~Blank
    /\ ResolvedWith(IF request.clients = None THEN {} ELSE request.clients)

\* Mutant: with nobody to match, the demo clients are as good as any.
ResolveAnyhow ==
    /\ \/ request.endpoint = "integration" /\ stage = "received" /\ ~Blank
       \/ stage = "identified"
    /\ IF request.clients # None
       THEN ResolvedWith(request.clients)
       ELSE \/ /\ setup.backend
               /\ \E found \in BackendLists : ResolvedWith(found)
            \/ /\ setup.backend => setup.seeds
               /\ ResolvedWith({})
            \/ /\ setup.backend /\ ~setup.seeds
               /\ Refuse("BadGateway")

\* _resolve_client_profiles: the request's, else the main backend's; an empty list
\* counts as no list, and only a setting allows the demo clients instead.
ResolveProfiles ==
    /\ \/ request.endpoint = "integration" /\ stage = "received" /\ ~Blank
       \/ stage = "identified"
    /\ LET OrSeeds(status) == IF setup.seeds THEN ResolvedWith({}) ELSE Refuse(status)
       IN  IF request.clients # None
           THEN IF request.clients # {} THEN ResolvedWith(request.clients) ELSE OrSeeds("BadRequest")
           ELSE \/ ~setup.backend /\ OrSeeds("Unavailable")
                \/ setup.backend /\ OrSeeds("BadGateway")
                \/ /\ setup.backend
                   /\ \E found \in BackendLists :
                         IF found # {} THEN ResolvedWith(found) ELSE OrSeeds("Unavailable")

-----------------------------------------------------------------------------
(* The analysis, its impact, the clients. *)

Analysed(doc) ==
    /\ At("resolved", "analysed")
    /\ analysis' = doc
    /\ UNCHANGED <<clients, impact, listed, drafts, evidence, answer>>

AnalyseByProvider == \E said \in Answers : Analysed(Reconciled(request.text, said))

AnalyseByBaseline == Analysed(Baseline(request.text))

AssessImpact ==
    /\ At("analysed", "assessed")
    /\ LET score == Score(FindingsOf(request.text, analysis))
       IN  impact' = [score |-> score, level |-> Level(score),
                      evidence |-> ImpactEvidence(request.text, analysis)]
    /\ UNCHANGED <<clients, analysis, listed, drafts, evidence, answer>>

ProfileFor(client) ==
    CASE request.endpoint = "contract"                   -> ContractProfile(Profile[client])
      [] request.endpoint \in {"integration", "existing"} -> MainProfile(Profile[client])
      [] OTHER                                           -> Profile[client]

UsesSeeds == request.endpoint # "contract" /\ request.seeds

Candidates ==
    IF clients # {} THEN [c \in clients |-> Candidate(ProfileFor(c))]
    ELSE IF UsesSeeds THEN [s \in Seeds |-> SeedCandidate(s)]
    ELSE <<>>

MatchClients ==
    /\ At("assessed", "matched")
    /\ listed' = Matched(Candidates, analysis.domain, Said(request.text, analysis.fragments), impact.level)
    /\ UNCHANGED <<clients, analysis, impact, drafts, evidence, answer>>

Draft ==
    /\ At("matched", "drafted")
    /\ drafts' = {<<c, impact.level>> : c \in DOMAIN listed}
    /\ UNCHANGED <<clients, analysis, impact, listed, evidence, answer>>

-----------------------------------------------------------------------------
(* The card, its evidence, and the replies. *)

\* create_event_card: the clients' evidence is the analysis' first fragments, and whitespace
\* is no evidence.
BuildCard ==
    /\ request.endpoint # "full"
    /\ At("drafted", "carded")
    /\ evidence' = {<<item, None>> : item \in
                        (ToSet(analysis.fragments) \cup ToSet(impact.evidence)) \ {Space}}
    /\ UNCHANGED <<clients, analysis, impact, listed, drafts, answer>>

\* Mutant: the chunk where the quotation begins.
ChunkOfStart(text, item) ==
    LET starts == {c \in ToSet(Chunks(text)) : item \in Runs(text) /\ c[1] <= item[1] /\ item[1] <= c[2]}
    IN  IF starts = {} THEN None ELSE CHOOSE c \in starts : TRUE

\* The chunk with the whole quotation: a quotation may run over the end of a chunk.
ChunkOf(text, item) ==
    LET holding == {c \in ToSet(Chunks(text)) : item \in Runs(text) /\ c[1] <= item[1] /\ item[2] <= c[2]}
    IN  IF holding = {} THEN None ELSE CHOOSE c \in holding : TRUE

LinkEvidence ==
    /\ At("carded", "linked")
    /\ evidence' = {<<e[1], ChunkOf(request.text, e[1])>> : e \in evidence}
    /\ UNCHANGED <<clients, analysis, impact, listed, drafts, answer>>

Quoted == ToSet(analysis.fragments) \cup ToSet(impact.evidence)
          \cup UNION {ToSet(analysis.lists[k]) : k \in Kinds}

PassedOn == [status |-> "OK", score |-> impact.score, level |-> impact.level, quoted |-> Quoted,
             evidence |-> evidence, dates |-> ToSet(analysis.dates), clients |-> DOMAIN listed,
             drafts |-> drafts]

\* BackendContractService.analyze names only clients of the request, and only dates whose
\* wording is found in the text; the other endpoints pass the analysis on.
OnlyAllowed(reply) ==
    [reply EXCEPT !.dates   = @ \cap Occurring(AllOf(request.text)),
                  !.clients = @ \cap clients,
                  !.drafts  = {d \in @ : d[1] \in clients}]

Answer ==
    /\ stage = IF request.endpoint = "full" THEN "drafted" ELSE "linked"
    /\ stage' = "answered"
    /\ answer' = IF request.endpoint = "contract" THEN OnlyAllowed(PassedOn) ELSE PassedOn
    /\ UNCHANGED <<setup, request, clients, analysis, impact, listed, drafts, evidence>>

\* The request is over.
Done == stage = "answered" /\ UNCHANGED vars

Next ==
    \/ IdentifyDocument \/ RefuseBlank \/ TakeProfiles \/ ResolveProfiles
    \/ AnalyseByProvider \/ AnalyseByBaseline
    \/ AssessImpact \/ MatchClients \/ Draft
    \/ BuildCard \/ LinkEvidence \/ Answer
    \/ Done

Spec == Init /\ [][Next]_vars

-----------------------------------------------------------------------------
(* What a reply may claim. *)

Answered == answer.status = "OK"

\* Whatever a provider writes, every quotation in a reply stands in the text, if only as
\* whitespace; evidence is never whitespace, and a chunk named as its source holds the whole
\* of it; a card lacks evidence only when all that was quoted as fragments was whitespace; and
\* the wording of each date that /analyze gives the main backend is found in the text, if
\* only inside that of another date.
GroundedInSource ==
    Answered =>
        /\ answer.quoted \subseteq InText(request.text)
        /\ \A e \in answer.evidence :
              /\ e[1] \in answer.quoted \ {Space}
              /\ e[2] # None => e[2][1] <= e[1][1] /\ e[1][2] <= e[2][2]
        /\ request.endpoint # "full" /\ answer.evidence = {} => ToSet(analysis.fragments) = {Space}
        /\ request.endpoint = "contract" => answer.dates \subseteq Occurring(AllOf(request.text))

\* An impact above its domain's cap is reported only when something that stands in the text is
\* listed as a consequence (nothing checks that it states one, and whitespace will do), a
\* domain never falls below its floor, and a text of no domain stays low and is sent to
\* nobody: no other answer of a provider can raise such an alarm.
AlarmNeedsConsequence ==
    LET domain == DomainOf(request.text)
    IN  Answered =>
            IF domain = NeutralDomain
            THEN answer.level = "low" /\ answer.clients = {} /\ answer.drafts = {}
            ELSE /\ answer.score >= Floor(domain)
                 /\ answer.score > Cap(domain) =>
                        ToSet(analysis.lists["penalties"]) \cap InText(request.text) # {}

\* Nobody is named in a reply, and no message drafted, but for the clients that the request
\* or the main backend gave; demo clients only where the endpoint or a setting lets them in.
\* Each named client has exactly one draft.
NobodyUninvited ==
    Answered =>
        /\ answer.clients \subseteq clients \cup Seeds
        /\ answer.clients \cap Seeds # {} =>
              /\ clients = {}
              /\ request.endpoint # "contract" /\ request.seeds
              /\ request.endpoint \in {"integration", "existing"} => setup.seeds
        /\ {d[1] : d \in answer.drafts} = answer.clients
        /\ Cardinality(answer.drafts) = Cardinality(answer.clients)

\* Whom a document concerns is not the provider's to decide: for the main backend's clients,
\* those named are the ones whose declared exposures bear a marker of the text's domain,
\* whether the provider or the baseline analysed it and whatever it answered.
ExposedTo(client, domain) ==
    LET profile == Profile[client]
        tags    == IF request.endpoint = "contract" THEN TagsOf(profile) ELSE TagsOf(profile) \cup {"size"}
    IN  IF tags # {} THEN tags \cap Markers(domain) # {}
        ELSE domain = "aml" /\ profile.risk = "high"

RoutedByTheText ==
    Answered /\ clients # {} /\ request.endpoint \in {"contract", "integration", "existing"} =>
        answer.clients = {c \in clients : ExposedTo(c, DomainOf(request.text))}
================================================================================
