------------------------- MODULE AnalysisContent_proofs -------------------------
(***************************************************************************)
(* What holds of every reply, for every text, every answer of a provider,  *)
(* every profile and every setting: whom it names, and why.  First, what   *)
(* the rules of ImpactRules promise of every score.                        *)
(***************************************************************************)
EXTENDS AnalysisContent, Selection_proofs

(* The order of the rules names ten domains, and the neutral one is none   *)
(* of them.                                                                *)
LEMMA TenDomains ==
    Domains = {"personal_data", "aml", "product_marking_trade", "lending_consumer_credit",
               "fuel_excise", "financial_market_securities", "payments_digital_ruble",
               "tax_reporting", "foreign_trade_currency_control", "info_security_it"}
<1>1. 1..10 = {1, 2, 3, 4, 5, 6, 7, 8, 9, 10}
  OBVIOUS
<1>2. QED
  BY <1>1 DEF Domains, DomainOrder

(* The points of the rules are natural numbers.                            *)
LEMMA PointsNat ==
    ASSUME NEW f \in Findings
    PROVE  SpecialisedScore(f) \in Nat /\ SpecialisedScore(f) >= 10
<1>1. FinancialPoints(f) \in Nat
  BY DEF FinancialPoints, Points
<1>2. FuelPoints(f) \in Nat
  BY DEF FuelPoints, Points
<1>3. TopicPoints(f) \in Nat
  <2>1. CASE f.domain = "financial_market_securities"
    BY <1>1, <2>1 DEF TopicPoints
  <2>2. CASE f.domain = "fuel_excise"
    BY <1>2, <2>2 DEF TopicPoints
  <2>3. CASE f.domain \notin {"financial_market_securities", "fuel_excise"}
    BY <2>3 DEF TopicPoints
  <2>4. QED
    BY <2>1, <2>2, <2>3
<1>4. DutyPoints(f) \in Nat /\ DutyPoints(f) >= 10
  BY DEF DutyPoints, Points
<1>5. QED
  BY <1>3, <1>4 DEF SpecialisedScore, AtMost

(* A domain's floor lies below its cap, and both within the scale.         *)
LEMMA FloorBelowCap ==
    ASSUME NEW domain
    PROVE  /\ Floor(domain) \in 40..61 /\ Cap(domain) \in {60, 80}
           /\ Floor(domain) < Cap(domain)
  BY DEF Floor, Cap

(* A score lies on the scale: no sum of points leaves it.                  *)
THEOREM ScoreOnScale == \A f \in Findings : Score(f) \in 0..100
<1> SUFFICES ASSUME NEW f \in Findings PROVE Score(f) \in 0..100
  OBVIOUS
<1>1. CASE f.domain = NeutralDomain
  BY <1>1, PointsNat DEF Score, AtMost, NeutralCap
<1>2. CASE f.domain # NeutralDomain
  BY <1>2, PointsNat, FloorBelowCap DEF Score, AtMost, AtLeast
<1>3. QED
  BY <1>1, <1>2

(* A document about a domain scores at least the domain's floor, so that   *)
(* money laundering is always above medium, and one about no domain is     *)
(* low, whatever penalties and obligations were read into it.              *)
THEOREM FloorsHold ==
    \A f \in Findings :
        IF f.domain = NeutralDomain
        THEN Level(Score(f)) = "low"
        ELSE Score(f) >= Floor(f.domain) /\ Level(Score(f)) # "low"
<1> SUFFICES ASSUME NEW f \in Findings
             PROVE  IF f.domain = NeutralDomain
                    THEN Level(Score(f)) = "low"
                    ELSE Score(f) >= Floor(f.domain) /\ Level(Score(f)) # "low"
  OBVIOUS
<1>1. CASE f.domain = NeutralDomain
  <2>1. Score(f) <= 30
    BY <1>1, PointsNat DEF Score, AtMost, NeutralCap
  <2>2. QED
    BY <1>1, <2>1, ScoreOnScale DEF Level
<1>2. CASE f.domain # NeutralDomain
  <2>1. Score(f) >= Floor(f.domain) /\ Score(f) \in 0..100
    BY <1>2, PointsNat, FloorBelowCap, ScoreOnScale DEF Score, AtMost, AtLeast
  <2>2. Score(f) > 30
    BY <2>1, FloorBelowCap
  <2>3. QED
    BY <1>2, <2>1, <2>2, ScoreOnScale DEF Level
<1>3. QED
  BY <1>1, <1>2

(* Only a document that threatens a penalty exceeds its domain's cap, and  *)
(* only such a document is critical: no list of dates, obligations or      *)
(* market signals makes it so.                                             *)
THEOREM AlarmNeedsPenalty ==
    \A f \in Findings :
        /\ f.domain # NeutralDomain /\ Score(f) > Cap(f.domain) => f.penalised
        /\ Level(Score(f)) = "critical" => f.penalised
<1> SUFFICES ASSUME NEW f \in Findings, ~f.penalised
             PROVE  /\ f.domain # NeutralDomain => Score(f) <= Cap(f.domain)
                    /\ Level(Score(f)) # "critical"
  BY ScoreOnScale, FloorBelowCap DEF Findings
<1>1. f.domain # NeutralDomain => Score(f) <= Cap(f.domain)
  BY PointsNat, FloorBelowCap DEF Score, AtMost, AtLeast
<1>2. Score(f) <= 80
  <2>1. CASE f.domain = NeutralDomain
    BY <2>1, PointsNat DEF Score, AtMost, NeutralCap
  <2>2. CASE f.domain # NeutralDomain
    BY <2>2, <1>1, ScoreOnScale, FloorBelowCap
  <2>3. QED
    BY <2>1, <2>2
<1>3. QED
  BY <1>1, <1>2, ScoreOnScale DEF Level

(* The first rule wins: the domain of a document is one of its signals,    *)
(* and no rule before it has a signal in the document; without a signal    *)
(* the document has no domain.                                             *)
THEOREM FirstRuleWins ==
    \A signals :
        IF DetectDomain(signals) = NeutralDomain
        THEN signals \cap Domains = {}
        ELSE \E i \in 1..10 :
                /\ DetectDomain(signals) = DomainOrder[i] /\ DomainOrder[i] \in signals
                /\ \A j \in 1..(i - 1) : DomainOrder[j] \notin signals
<1> SUFFICES ASSUME NEW signals, signals \cap Domains # {}
             PROVE  /\ DetectDomain(signals) # NeutralDomain
                    /\ \E i \in 1..10 :
                          /\ DetectDomain(signals) = DomainOrder[i] /\ DomainOrder[i] \in signals
                          /\ \A j \in 1..(i - 1) : DomainOrder[j] \notin signals
  BY DEF DetectDomain
<1> DEFINE First(i) == /\ DomainOrder[i] \in signals
                       /\ \A j \in 1..(i - 1) : DomainOrder[j] \notin signals
<1>1. PICK k \in 1..10 : DomainOrder[k] \in signals
  BY DEF Domains
<1>2. \E i \in 1..10 : First(i)
  BY <1>1 DEF First
<1>3. PICK i \in 1..10 : First(i) /\ DetectDomain(signals) = DomainOrder[i]
  BY <1>2, Zenon DEF DetectDomain
<1>4. DomainOrder[i] # NeutralDomain
  BY <1>3, TenDomains DEF Domains, NeutralDomain
<1>5. QED
  BY <1>3, <1>4

-----------------------------------------------------------------------------
(* What each stage leaves to the next: the profiles are decided, and demo   *)
(* clients may stand in for none only where a setting lets them; the domain *)
(* is the text's; the listed clients and the drafts follow; the reply       *)
(* passes them on.                                                          *)
FromAnalysis == {"analysed", "assessed", "matched", "drafted", "carded", "linked"}
FromImpact   == {"assessed", "matched", "drafted", "carded", "linked"}
FromMatching == {"matched", "drafted", "carded", "linked"}
FromDrafting == {"drafted", "carded", "linked"}

Past(stages) == stage \in stages \/ Answered

SeedsAllowed ==
    Past(FromAnalysis \cup {"resolved"}) =>
        (clients = {} /\ request.endpoint \in {"integration", "existing"} => setup.seeds)

DomainFromText ==
    Past(FromAnalysis) => analysis.domain = DomainOf(request.text) /\ analysis.dates \in Seq(Dates)

ScoredByRules ==
    Past(FromImpact) => /\ impact.score = Score(FindingsOf(request.text, analysis))
                        /\ impact.level = Level(Score(FindingsOf(request.text, analysis)))

ListedAsMatched ==
    Past(FromMatching) =>
        listed = Matched(Candidates, analysis.domain, Said(request.text, analysis.fragments), impact.level)

DraftedAsListed == Past(FromDrafting) => drafts = {<<c, impact.level>> : c \in DOMAIN listed}

AnsweredAsFound ==
    /\ stage # "answered" => answer = NoReply
    /\ Answered => answer = IF request.endpoint = "contract" THEN OnlyAllowed(PassedOn) ELSE PassedOn

ContentInv ==
    /\ request \in Requests
    /\ stage \in Stages
    /\ clients \subseteq Clients
    /\ SeedsAllowed
    /\ DomainFromText
    /\ ScoredByRules
    /\ ListedAsMatched
    /\ DraftedAsListed
    /\ AnsweredAsFound

(* Before it is answered, a request has no reply.                           *)
LEMMA NotYetAnswered ==
    ASSUME ContentInv, stage # "answered"
    PROVE  ~Answered
  BY DEF ContentInv, AnsweredAsFound, Answered, NoReply

LEMMA ContentInit == Init => ContentInv
  BY DEF Init, ContentInv, SeedsAllowed, DomainFromText, ScoredByRules, ListedAsMatched, DraftedAsListed,
         AnsweredAsFound, Past, Answered, NoReply, Stages, FromAnalysis, FromImpact, FromMatching, FromDrafting

(* A refusal leaves nothing to claim.                                       *)
LEMMA RefusalKeepsInv ==
    ASSUME ContentInv, stage # "answered", NEW status \in Statuses, status # "OK", Refuse(status)
    PROVE  ContentInv'
<1>1. ~Answered' /\ stage' = "answered"
  BY DEF Refuse, Answered, NoReply
<1>2. UNCHANGED <<request, clients>>
  BY DEF Refuse
<1>3. QED
  BY <1>1, <1>2 DEF ContentInv, SeedsAllowed, DomainFromText, ScoredByRules, ListedAsMatched, DraftedAsListed,
         AnsweredAsFound, Past, Stages, FromAnalysis, FromImpact, FromMatching, FromDrafting

(* The profiles are decided: demo clients for none only if that is allowed. *)
LEMMA ResolvingKeepsInv ==
    ASSUME ContentInv, stage # "answered", NEW found \in SUBSET Clients, ResolvedWith(found),
           found = {} /\ request.endpoint \in {"integration", "existing"} => setup.seeds
    PROVE  ContentInv'
<1>1. ~Answered /\ answer = NoReply
  BY NotYetAnswered DEF ContentInv, AnsweredAsFound
<1>2. ~Answered' /\ stage' = "resolved" /\ answer' = NoReply
  BY <1>1 DEF ResolvedWith, Answered
<1>3. UNCHANGED <<request, setup>> /\ clients' = found
  BY DEF ResolvedWith
<1>4. QED
  BY <1>2, <1>3 DEF ContentInv, SeedsAllowed, DomainFromText, ScoredByRules, ListedAsMatched, DraftedAsListed,
         AnsweredAsFound, Past, Stages, FromAnalysis, FromImpact, FromMatching, FromDrafting

(* The requests that have profiles have known ones.                         *)
LEMMA RequestedClients ==
    ASSUME request \in Requests, request.clients # None
    PROVE  request.clients \in SUBSET Clients
  BY ContentAssumption

(* What is picked among items of a kind is of that kind.                   *)
LEMMA PickedKind ==
    ASSUME NEW T, NEW U, NEW s \in Seq(T), NEW positions \in SUBSET DOMAIN s,
           \A i \in positions : s[i] \in U
    PROVE  Picked(s, positions) \in Seq(U)
<1>1. /\ Picked(s, positions) \in Seq(T)
      /\ \A k \in DOMAIN Picked(s, positions) : \E i \in positions : Picked(s, positions)[k] = s[i]
  BY PickedItems
<1> DEFINE picked == Picked(s, positions)
<1> HIDE DEF picked
<1>2. picked \in Seq(T) /\ \A k \in DOMAIN picked : picked[k] \in U
  BY <1>1 DEF picked
<1>3. picked \in Seq(U)
  BY <1>2
<1>4. QED
  BY <1>3 DEF picked

LEMMA FirstItems ==
    ASSUME NEW T, NEW s \in Seq(T), NEW n \in Nat \ {0}
    PROVE  FirstOf(n, s) \in Seq(T) /\ (s # <<>> => FirstOf(n, s) # <<>>)
<1>1. Len(s) \in Nat /\ (s # <<>> => Len(s) > 0)
  OBVIOUS
<1>2. Min({n, Len(s)}) = IF n <= Len(s) THEN n ELSE Len(s)
  BY <1>1 DEF Min
<1>3. Min({n, Len(s)}) \in 0..Len(s) /\ (s # <<>> => Min({n, Len(s)}) > 0)
  BY <1>1, <1>2
<1> DEFINE m == Min({n, Len(s)})
<1>4. FirstOf(n, s) = SubSeq(s, 1, m)
  BY DEF FirstOf
<1> HIDE DEF m
<1>5. m \in Nat /\ m <= Len(s) /\ (s # <<>> => m > 0)
  BY <1>1, <1>3 DEF m
<1>6. SubSeq(s, 1, m) \in Seq(T) /\ Len(SubSeq(s, 1, m)) = m
  BY <1>1, <1>5
<1>7. m > 0 => SubSeq(s, 1, m) # <<>>
  BY <1>5, <1>6
<1>8. QED
  BY <1>4, <1>5, <1>6, <1>7

LEMMA DomainKept ==
    ASSUME NEW text, NEW said \in Answers
    PROVE  /\ Reconciled(text, said).domain = DomainOf(text)
           /\ Reconciled(text, said).dates \in Seq(Dates)
<1>1. {"domain", "dates"} \subseteq DOMAIN said /\ said.dates \in Seq(Dates)
  BY AnswersAssumption DEF Analysis
<1>2. QED
  BY <1>1 DEF Reconciled

(* The key dates of a text are dates, each read in a piece that states one. *)
LEMMA BaselineDates ==
    ASSUME NEW text \in Text
    PROVE  Baseline(text).domain = DomainOf(text) /\ Baseline(text).dates \in Seq(Dates)
<1> DEFINE stating == {k \in Positions(text) : text.pieces[k] \cap Dates # {}}
           dated   == Picked(text.pieces, stating)
           Dated   == {piece \in SUBSET Facts : piece \cap Dates # {}}
<1>1. text.pieces \in Seq(SUBSET Facts) /\ stating \in SUBSET DOMAIN text.pieces
  BY DEF Text, Positions
<1>2. \A k \in stating : text.pieces[k] \in Dated
  BY <1>1
<1> HIDE DEF stating, Dated
<1>3. dated \in Seq(Dated)
  BY <1>1, <1>2, PickedKind
<1> HIDE DEF dated
<1> DEFINE first(i) == CHOOSE date \in Dates : date \in dated[i]
           keys     == [i \in DOMAIN dated |-> first(i)]
<1>4. DOMAIN dated = 1..Len(dated) /\ Len(dated) \in Nat
  BY <1>3
<1>5. \A i \in DOMAIN dated : first(i) \in Dates
  BY <1>3 DEF Dated
<1>6. keys \in Seq(Dates)
  <2> HIDE DEF first
  <2>1. keys \in [1..Len(dated) -> Dates]
    BY <1>4, <1>5
  <2> HIDE DEF keys
  <2>2. QED
    BY <1>4, <2>1
<1> HIDE DEF keys
<1>7. KeyDates(text) = keys
  BY DEF KeyDates, keys, dated, stating
<1>8. FirstOf(MaxDates, KeyDates(text)) \in Seq(Dates)
  BY <1>6, <1>7, FirstItems, ContentAssumption
<1>9. QED
  BY <1>8 DEF Baseline

LEMMA ContentNext ==
    ASSUME ContentInv, [Next]_vars
    PROVE  ContentInv'
<1>1. CASE IdentifyDocument
  <2>1. stage # "answered"
    BY <1>1 DEF IdentifyDocument
  <2>2. CASE Refuse("BadRequest") \/ Refuse("BadGateway")
    BY <2>1, <2>2, RefusalKeepsInv DEF Statuses
  <2>3. CASE At("received", "identified") /\ UNCHANGED <<clients, analysis, impact, listed, drafts, evidence, answer>>
    <3>1. ~Answered /\ answer = NoReply /\ ~Answered' /\ stage' = "identified"
      BY <2>1, <2>3, NotYetAnswered DEF ContentInv, AnsweredAsFound, Answered, At
    <3>2. QED
      BY <2>3, <3>1 DEF ContentInv, SeedsAllowed, DomainFromText, ScoredByRules, ListedAsMatched, DraftedAsListed,
             AnsweredAsFound, Past, Stages, FromAnalysis, FromImpact, FromMatching, FromDrafting, At
  <2>4. QED
    BY <1>1, <2>2, <2>3 DEF IdentifyDocument
<1>2. CASE RefuseBlank
  BY <1>2, RefusalKeepsInv DEF RefuseBlank, Statuses
<1>3. CASE TakeProfiles
  <2>1. stage # "answered" /\ request.endpoint \notin {"integration", "existing"}
    BY <1>3 DEF TakeProfiles
  <2>2. (IF request.clients = None THEN {} ELSE request.clients) \in SUBSET Clients
    BY RequestedClients DEF ContentInv
  <2>3. QED
    BY <1>3, <2>1, <2>2, ResolvingKeepsInv DEF TakeProfiles
<1>4. CASE ResolveProfiles
  <2>1. stage # "answered"
    BY <1>4 DEF ResolveProfiles
  <2>2. PICK status \in {"BadRequest", "Unavailable", "BadGateway"}, found \in SUBSET Clients :
            \/ Refuse(status)
            \/ ResolvedWith(found) /\ (found = {} => setup.seeds)
    <3>1. ASSUME NEW status, IF setup.seeds THEN ResolvedWith({}) ELSE Refuse(status)
          PROVE  Refuse(status) \/ (ResolvedWith({}) /\ setup.seeds)
      BY <3>1
    <3>2. CASE request.clients # None
      <4>1. request.clients \in SUBSET Clients
        BY <3>2, RequestedClients DEF ContentInv
      <4>2. CASE request.clients # {}
        BY <1>4, <3>2, <4>1, <4>2 DEF ResolveProfiles
      <4>3. CASE request.clients = {}
        BY <1>4, <3>1, <3>2, <4>1, <4>3 DEF ResolveProfiles
      <4>4. QED
        BY <4>2, <4>3
    <3>3. CASE request.clients = None
      <4>1. CASE IF setup.seeds THEN ResolvedWith({}) ELSE Refuse("Unavailable")
        BY <3>1, <4>1
      <4>2. CASE IF setup.seeds THEN ResolvedWith({}) ELSE Refuse("BadGateway")
        BY <3>1, <4>2
      <4>3. CASE \E found \in BackendLists : found # {} /\ ResolvedWith(found)
        BY <4>3, ContentAssumption
      <4>4. QED
        BY <1>4, <3>3, <4>1, <4>2, <4>3 DEF ResolveProfiles
    <3>4. QED
      BY <3>2, <3>3
  <2>3. QED
    BY <2>1, <2>2, RefusalKeepsInv, ResolvingKeepsInv DEF Statuses
<1>5. CASE AnalyseByProvider \/ AnalyseByBaseline
  <2>1. PICK doc : Analysed(doc) /\ doc.domain = DomainOf(request.text) /\ doc.dates \in Seq(Dates)
    <3>1. CASE AnalyseByProvider
      BY <3>1, DomainKept DEF AnalyseByProvider
    <3>2. CASE AnalyseByBaseline
      <4>1. request.text \in Text
        BY ContentAssumption DEF ContentInv
      <4>2. QED
        BY <3>2, <4>1, BaselineDates DEF AnalyseByBaseline
    <3>3. QED
      BY <1>5, <3>1, <3>2
  <2>2. stage = "resolved" /\ stage' = "analysed"
    BY <2>1 DEF Analysed, At
  <2>3. ~Answered /\ answer = NoReply /\ ~Answered' /\ answer' = answer
    BY <2>1, <2>2, NotYetAnswered DEF ContentInv, AnsweredAsFound, Answered, Analysed
  <2>4. UNCHANGED <<request, setup, clients>> /\ analysis' = doc
    BY <2>1 DEF Analysed, At
  <2>5. SeedsAllowed'
    BY <2>2, <2>4 DEF ContentInv, SeedsAllowed, Past
  <2>6. DomainFromText'
    BY <2>1, <2>4 DEF DomainFromText
  <2>7. QED
    BY <2>2, <2>3, <2>4, <2>5, <2>6 DEF ContentInv, ScoredByRules, ListedAsMatched,
           DraftedAsListed, AnsweredAsFound, Past, Stages, FromImpact, FromMatching, FromDrafting
<1>6. CASE AssessImpact
  <2>1. stage = "analysed" /\ stage' = "assessed"
    BY <1>6 DEF AssessImpact, At
  <2>2. ~Answered /\ answer = NoReply /\ ~Answered' /\ answer' = answer
    BY <1>6, <2>1, NotYetAnswered DEF ContentInv, AnsweredAsFound, Answered, AssessImpact
  <2>3. UNCHANGED <<request, setup, clients, analysis>>
    BY <1>6 DEF AssessImpact, At
  <2>4. ScoredByRules'
    BY <1>6, <2>3 DEF AssessImpact, ScoredByRules
  <2>5. QED
    BY <2>1, <2>2, <2>3, <2>4 DEF ContentInv, SeedsAllowed, DomainFromText, ListedAsMatched,
           DraftedAsListed, AnsweredAsFound, Past, Stages, FromAnalysis, FromMatching, FromDrafting
<1>7. CASE MatchClients
  <2>1. stage = "assessed" /\ stage' = "matched"
    BY <1>7 DEF MatchClients, At
  <2>2. ~Answered /\ answer = NoReply /\ ~Answered' /\ answer' = answer
    BY <1>7, <2>1, NotYetAnswered DEF ContentInv, AnsweredAsFound, Answered, MatchClients
  <2>3. UNCHANGED <<request, setup, clients, analysis, impact>>
    BY <1>7 DEF MatchClients, At
  <2>4. ListedAsMatched'
    BY <1>7, <2>3 DEF MatchClients, ListedAsMatched, Candidates, ProfileFor, UsesSeeds
  <2>5. QED
    BY <2>1, <2>2, <2>3, <2>4 DEF ContentInv, SeedsAllowed, DomainFromText, ScoredByRules, DraftedAsListed,
           AnsweredAsFound, Past, Stages, FromAnalysis, FromImpact, FromMatching, FromDrafting
<1>8. CASE Draft
  <2>1. stage = "matched" /\ stage' = "drafted"
    BY <1>8 DEF Draft, At
  <2>2. ~Answered /\ answer = NoReply /\ ~Answered' /\ answer' = answer
    BY <1>8, <2>1, NotYetAnswered DEF ContentInv, AnsweredAsFound, Answered, Draft
  <2>3. UNCHANGED <<request, setup, clients, analysis, impact, listed>>
    BY <1>8 DEF Draft, At
  <2>4. ListedAsMatched'
    BY <2>1, <2>3 DEF ContentInv, ListedAsMatched, Candidates, ProfileFor, UsesSeeds, Past, FromMatching
  <2>5. DraftedAsListed'
    BY <1>8, <2>3 DEF Draft, DraftedAsListed
  <2>6. QED
    BY <2>1, <2>2, <2>3, <2>4, <2>5 DEF ContentInv, SeedsAllowed, DomainFromText, ScoredByRules,
           AnsweredAsFound, Past, Stages, FromAnalysis, FromImpact, FromMatching, FromDrafting
<1>9. CASE BuildCard \/ LinkEvidence
  <2>1. stage \in {"drafted", "carded"} /\ stage' \in {"carded", "linked"}
    BY <1>9 DEF BuildCard, LinkEvidence, At
  <2>2. ~Answered /\ answer = NoReply /\ ~Answered' /\ answer' = answer
    BY <1>9, <2>1, NotYetAnswered DEF ContentInv, AnsweredAsFound, Answered, BuildCard, LinkEvidence
  <2>3. UNCHANGED <<request, setup, clients, analysis, impact, listed, drafts>>
    BY <1>9 DEF BuildCard, LinkEvidence, At
  <2>4. ListedAsMatched' /\ DraftedAsListed'
    BY <2>1, <2>3 DEF ContentInv, ListedAsMatched, DraftedAsListed, Candidates, ProfileFor, UsesSeeds,
           Past, FromMatching, FromDrafting
  <2>5. QED
    BY <2>1, <2>2, <2>3, <2>4 DEF ContentInv, SeedsAllowed, DomainFromText, ScoredByRules,
           AnsweredAsFound, Past, Stages, FromAnalysis, FromImpact
<1>10. CASE Answer
  <2>1. stage \in FromDrafting /\ stage' = "answered"
    BY <1>10 DEF Answer, FromDrafting
  <2>2. UNCHANGED <<request, setup, clients, analysis, impact, listed, drafts, evidence>>
    BY <1>10 DEF Answer
  <2>3. SeedsAllowed' /\ DomainFromText' /\ ScoredByRules'
    BY <2>1, <2>2 DEF ContentInv, SeedsAllowed, DomainFromText, ScoredByRules, Past,
           FromAnalysis, FromImpact, FromDrafting
  <2>4. ListedAsMatched' /\ DraftedAsListed'
    BY <2>1, <2>2 DEF ContentInv, ListedAsMatched, DraftedAsListed, Candidates, ProfileFor, UsesSeeds,
           Past, FromMatching, FromDrafting
  <2>5. AnsweredAsFound'
    BY <1>10, <2>1, <2>2 DEF Answer, AnsweredAsFound, OnlyAllowed, PassedOn, Quoted
  <2>6. QED
    BY <2>1, <2>2, <2>3, <2>4, <2>5 DEF ContentInv, Stages
<1>11. CASE Done \/ UNCHANGED vars
  <2>1. UNCHANGED <<setup, request, stage, clients, analysis, impact, listed, drafts, evidence, answer>>
    BY <1>11 DEF Done, vars
  <2>2. SeedsAllowed' /\ DomainFromText' /\ ScoredByRules'
    BY <2>1 DEF ContentInv, SeedsAllowed, DomainFromText, ScoredByRules, Past, Answered
  <2>3. ListedAsMatched' /\ DraftedAsListed'
    BY <2>1 DEF ContentInv, ListedAsMatched, DraftedAsListed, Candidates, ProfileFor, UsesSeeds, Past, Answered
  <2>4. AnsweredAsFound'
    BY <2>1 DEF ContentInv, AnsweredAsFound, Answered, OnlyAllowed, PassedOn, Quoted
  <2>5. QED
    BY <2>1, <2>2, <2>3, <2>4 DEF ContentInv
<1>12. QED
  BY <1>1, <1>2, <1>3, <1>4, <1>5, <1>6, <1>7, <1>8, <1>9, <1>10, <1>11 DEF Next

LEMMA ContentInvariant == Spec => []ContentInv
  BY ContentInit, ContentNext, PTL DEF Spec

-----------------------------------------------------------------------------
(* Whom a reply names.                                                      *)

(* The candidates are the profiles the analysis was given, or else the demo *)
(* clients, where the endpoint lets them in.                                *)
LEMMA CandidatesKnown ==
    /\ clients # {} => DOMAIN Candidates = clients
    /\ clients = {} => DOMAIN Candidates = IF UsesSeeds THEN Seeds ELSE {}
  BY DEF Candidates

LEMMA ListedCandidates ==
    ASSUME ContentInv, Answered
    PROVE  DOMAIN listed =
               {c \in DOMAIN Candidates :
                   /\ IsRelevant(Candidates[c], DomainOf(request.text))
                   /\ HasFactors(Candidates[c], DomainOf(request.text),
                                 Said(request.text, analysis.fragments))}
<1>1. listed = Matched(Candidates, DomainOf(request.text), Said(request.text, analysis.fragments),
                       impact.level)
  BY DEF ContentInv, ListedAsMatched, DomainFromText, Past
<1>2. QED
  BY <1>1 DEF Matched

(* A reply names the listed clients, and has one draft for each.            *)
LEMMA ReplyNames ==
    ASSUME ContentInv, Answered
    PROVE  /\ answer.clients = DOMAIN listed
           /\ answer.drafts = {<<c, impact.level>> : c \in DOMAIN listed}
           /\ answer.score = impact.score /\ answer.level = impact.level
<1>1. drafts = {<<c, impact.level>> : c \in DOMAIN listed}
  BY DEF ContentInv, DraftedAsListed, Past
<1>2. CASE request.endpoint # "contract"
  BY <1>1, <1>2 DEF ContentInv, AnsweredAsFound, PassedOn
<1>3. CASE request.endpoint = "contract"
  <2>1. DOMAIN listed \subseteq clients
    BY <1>3, ListedCandidates, CandidatesKnown DEF UsesSeeds
  <2>2. /\ answer.clients = DOMAIN listed \cap clients
        /\ answer.drafts = {d \in drafts : d[1] \in clients}
        /\ answer.score = impact.score /\ answer.level = impact.level
    BY <1>3 DEF ContentInv, AnsweredAsFound, OnlyAllowed, PassedOn
  <2>3. \A d \in drafts : d[1] \in DOMAIN listed
    BY <1>1
  <2>4. QED
    BY <1>1, <2>1, <2>2, <2>3
<1>4. QED
  BY <1>2, <1>3

(* As many drafts as clients.                                               *)
LEMMA DraftEach ==
    ASSUME NEW S, IsFiniteSet(S), NEW level
    PROVE  Cardinality({<<c, level>> : c \in S}) = Cardinality(S)
<1> DEFINE T == {<<c, level>> : c \in S}
           f == [c \in S |-> <<c, level>>]
<1>1. f \in Bijection(S, T)
  BY DEF Bijection, Injection, Surjection, IsInjective
<1>2. ExistsBijection(S, T)
  BY <1>1 DEF ExistsBijection
<1>3. QED
  BY <1>2, FS_Bijection

LEMMA SeedsFinite == IsFiniteSet(Seeds)
<1>1. Seeds = {"seed1", "seed2", "seed3", "seed4", "seed5", "seed6"}
  BY DEF Seeds, SeedKeywords
<1>2. \A S, x : IsFiniteSet(S) => IsFiniteSet(S \cup {x})
  BY FS_AddElement
<1>3. Seeds = ((((({} \cup {"seed1"}) \cup {"seed2"}) \cup {"seed3"}) \cup {"seed4"}) \cup {"seed5"})
                  \cup {"seed6"}
  BY <1>1
<1>4. QED
  BY <1>2, <1>3, FS_EmptySet, Zenon

(* Nobody is named, and no message drafted, but for the clients given; demo *)
(* clients only where the endpoint or a setting lets them in; one draft     *)
(* each.                                                                    *)
THEOREM NamesInvited == Spec => []NobodyUninvited
<1>1. ASSUME ContentInv PROVE NobodyUninvited
  <2> SUFFICES ASSUME Answered
               PROVE  /\ answer.clients \subseteq clients \cup Seeds
                      /\ answer.clients \cap Seeds # {} =>
                            /\ clients = {}
                            /\ request.endpoint # "contract" /\ request.seeds
                            /\ request.endpoint \in {"integration", "existing"} => setup.seeds
                      /\ {d[1] : d \in answer.drafts} = answer.clients
                      /\ Cardinality(answer.drafts) = Cardinality(answer.clients)
    BY DEF NobodyUninvited
  <2>1. answer.clients = DOMAIN listed /\ answer.drafts = {<<c, impact.level>> : c \in DOMAIN listed}
    BY <1>1, ReplyNames
  <2>2. DOMAIN listed \subseteq IF clients # {} THEN clients ELSE IF UsesSeeds THEN Seeds ELSE {}
    BY <1>1, ListedCandidates, CandidatesKnown
  <2>3. clients \subseteq Clients /\ Clients \cap Seeds = {}
    BY <1>1, ContentAssumption DEF ContentInv
  <2>4. clients = {} /\ request.endpoint \in {"integration", "existing"} => setup.seeds
    BY <1>1 DEF ContentInv, SeedsAllowed, Past
  <2>5. IsFiniteSet(DOMAIN listed)
    <3>1. IsFiniteSet(clients)
      BY <2>3, ContentAssumption, FS_Subset
    <3>2. QED
      BY <2>2, <3>1, SeedsFinite, FS_Subset, FS_EmptySet
  <2>6. Cardinality(answer.drafts) = Cardinality(answer.clients)
    <3>1. Cardinality({<<c, impact.level>> : c \in DOMAIN listed}) = Cardinality(DOMAIN listed)
      BY <2>5, DraftEach, Zenon
    <3>2. QED
      BY <2>1, <3>1, Zenon
  <2>7. {d[1] : d \in answer.drafts} = answer.clients
    <3>1. \A d \in answer.drafts : d[1] \in answer.clients
      BY <2>1
    <3>2. \A c \in answer.clients : <<c, impact.level>> \in answer.drafts /\ <<c, impact.level>>[1] = c
      BY <2>1
    <3>3. QED
      BY <3>1, <3>2
  <2>8. QED
    BY <2>1, <2>2, <2>3, <2>4, <2>6, <2>7 DEF UsesSeeds
<1>2. QED
  BY <1>1, ContentInvariant, PTL

-----------------------------------------------------------------------------
(* Why a reply names a client of the main backend.                          *)

(* Of the words that a risky profile's flags add, one is a marker, and only *)
(* of money laundering.                                                     *)
LEMMA RiskWords ==
    ASSUME NEW domain
    PROVE  /\ "cash" \notin Markers(domain)
           /\ "115-FZ" \in Markers(domain) <=> domain = "aml"
  BY DEF Markers

(* Without tags, a client of the contract is known by its risk alone.       *)
LEMMA UntaggedKeywords ==
    ASSUME NEW profile \in ClientProfile, TagsOf(profile) = {}
    PROVE  Keywords(ContractProfile(profile)) = When(profile.risk = "high", {"cash", "115-FZ"})
<1>1. /\ profile.foreignTrade = FALSE /\ profile.onlinePayments = FALSE
      /\ profile.personalData = FALSE /\ profile.cash = "low" /\ profile.industry = {}
  BY DEF TagsOf, When, ClientProfile, ClientLevels
<1>2. ContractProfile(profile) = [profile EXCEPT !.tags = {}]
  BY DEF ContractProfile
<1>3. LET p == ContractProfile(profile)
      IN  /\ p.industry = {} /\ p.tags = {} /\ p.personalData = FALSE /\ p.foreignTrade = FALSE
          /\ p.onlinePayments = FALSE /\ p.cash = "low" /\ p.risk = profile.risk
  BY <1>1, <1>2 DEF ClientProfile
<1>4. QED
  BY <1>3 DEF Keywords, When

(* Both mappings keep the tags among the keywords.                          *)
LEMMA TagsAreKeywords ==
    ASSUME NEW profile \in ClientProfile
    PROVE  /\ Candidate(ContractProfile(profile)).tags = TagsOf(profile)
           /\ Candidate(MainProfile(profile)).tags = TagsOf(profile) \cup {"size"}
           /\ \A p : Candidate(p).tags \subseteq Candidate(p).keywords
<1>1. ContractProfile(profile).tags = TagsOf(profile)
  BY DEF ContractProfile, ClientProfile
<1>2. MainProfile(profile).tags = TagsOf(profile) \cup {"size"}
  BY DEF MainProfile, ClientProfile
<1>3. \A p : Candidate(p).tags = p.tags /\ p.tags \subseteq Candidate(p).keywords
  BY DEF Candidate, Keywords
<1>4. QED
  BY <1>1, <1>2, <1>3

(* A tagged client is listed by its tags, whatever the fragments say.       *)
LEMMA TaggedListed ==
    ASSUME NEW candidate, NEW domain, NEW signals,
           candidate.tags # {}, candidate.tags \subseteq candidate.keywords
    PROVE  IsRelevant(candidate, domain) /\ HasFactors(candidate, domain, signals)
               <=> candidate.tags \cap Markers(domain) # {}
  BY DEF IsRelevant, HasFactors, RelevanceWords

(* An untagged one by its risk.                                             *)
LEMMA UntaggedListed ==
    ASSUME NEW profile \in ClientProfile, TagsOf(profile) = {}, NEW domain, NEW signals
    PROVE  LET candidate == Candidate(ContractProfile(profile))
           IN  IsRelevant(candidate, domain) /\ HasFactors(candidate, domain, signals)
                   <=> domain = "aml" /\ profile.risk = "high"
<1> DEFINE candidate == Candidate(ContractProfile(profile))
<1>1. candidate.tags = {} /\ candidate.keywords = When(profile.risk = "high", {"cash", "115-FZ"})
  BY UntaggedKeywords DEF Candidate, ContractProfile, ClientProfile
<1>2. IsRelevant(candidate, domain) <=> domain = "aml" /\ profile.risk = "high"
  BY <1>1, RiskWords DEF IsRelevant, RelevanceWords, When
<1>3. "115-FZ" \in FactorWords("aml")
  BY DEF FactorWords, TopicWords
<1>4. domain = "aml" /\ profile.risk = "high" => HasFactors(candidate, domain, signals)
  BY <1>1, <1>3 DEF HasFactors, When
<1>5. QED
  BY <1>2, <1>4

(* Whom a document concerns is decided by its text and by what the clients  *)
(* declare, never by the provider.                                          *)
THEOREM RoutedByText == Spec => []RoutedByTheText
<1>1. ASSUME ContentInv PROVE RoutedByTheText
  <2> DEFINE domain == DomainOf(request.text)
             said   == Said(request.text, analysis.fragments)
  <2> SUFFICES ASSUME Answered, clients # {}, request.endpoint \in {"contract", "integration", "existing"}
               PROVE  answer.clients = {c \in clients : ExposedTo(c, domain)}
    BY DEF RoutedByTheText
  <2>1. answer.clients = {c \in clients : /\ IsRelevant(Candidates[c], domain)
                                          /\ HasFactors(Candidates[c], domain, said)}
    BY <1>1, ReplyNames, ListedCandidates, CandidatesKnown
  <2>2. ASSUME NEW c \in clients
        PROVE  IsRelevant(Candidates[c], domain) /\ HasFactors(Candidates[c], domain, said)
                   <=> ExposedTo(c, domain)
    <3>1. Profile[c] \in ClientProfile
      BY <1>1, <2>2, ContentAssumption DEF ContentInv
    <3>2. Candidates[c] = Candidate(ProfileFor(c))
      BY DEF Candidates
    <3>3. CASE request.endpoint = "contract"
      <4>1. ProfileFor(c) = ContractProfile(Profile[c])
        BY <3>3 DEF ProfileFor
      <4>2. CASE TagsOf(Profile[c]) = {}
        <5>1. IsRelevant(Candidates[c], domain) /\ HasFactors(Candidates[c], domain, said)
                  <=> domain = "aml" /\ Profile[c].risk = "high"
          BY <3>1, <3>2, <4>1, <4>2, UntaggedListed
        <5>2. ExposedTo(c, domain) <=> domain = "aml" /\ Profile[c].risk = "high"
          BY <3>3, <4>2 DEF ExposedTo
        <5>3. QED
          BY <5>1, <5>2
      <4>3. CASE TagsOf(Profile[c]) # {}
        <5>1. /\ Candidates[c].tags = TagsOf(Profile[c])
              /\ Candidates[c].tags \subseteq Candidates[c].keywords
          BY <3>1, <3>2, <4>1, TagsAreKeywords
        <5>2. IsRelevant(Candidates[c], domain) /\ HasFactors(Candidates[c], domain, said)
                  <=> TagsOf(Profile[c]) \cap Markers(domain) # {}
          BY <4>3, <5>1, TaggedListed
        <5>3. ExposedTo(c, domain) <=> TagsOf(Profile[c]) \cap Markers(domain) # {}
          BY <3>3, <4>3 DEF ExposedTo
        <5>4. QED
          BY <5>2, <5>3
      <4>4. QED
        BY <4>2, <4>3
    <3>4. CASE request.endpoint \in {"integration", "existing"}
      <4>1. ProfileFor(c) = MainProfile(Profile[c])
        BY <3>4 DEF ProfileFor
      <4>2. /\ Candidates[c].tags = TagsOf(Profile[c]) \cup {"size"}
            /\ Candidates[c].tags \subseteq Candidates[c].keywords
        BY <3>1, <3>2, <4>1, TagsAreKeywords
      <4>3. IsRelevant(Candidates[c], domain) /\ HasFactors(Candidates[c], domain, said)
                <=> (TagsOf(Profile[c]) \cup {"size"}) \cap Markers(domain) # {}
        BY <4>2, TaggedListed
      <4>4. ExposedTo(c, domain) <=> (TagsOf(Profile[c]) \cup {"size"}) \cap Markers(domain) # {}
        BY <3>4 DEF ExposedTo
      <4>5. QED
        BY <4>3, <4>4
    <3>5. QED
      BY <3>3, <3>4
  <2>3. QED
    BY <2>1, <2>2
<1>2. QED
  BY <1>1, ContentInvariant, PTL

-----------------------------------------------------------------------------
(* How alarming a reply may be.                                             *)

(* What AlarmNeedsConsequence says, but for the place of the consequence.  *)
AlarmNeedsPenalties ==
    LET domain == DomainOf(request.text)
    IN  Answered =>
            IF domain = NeutralDomain
            THEN answer.level = "low" /\ answer.clients = {} /\ answer.drafts = {}
            ELSE /\ answer.score >= Floor(domain)
                 /\ answer.score > Cap(domain) => analysis.lists["penalties"] # <<>>

LEMMA DomainKnown ==
    ASSUME NEW text
    PROVE  DomainOf(text) \in Domains \cup {NeutralDomain}
<1>1. \A i \in 1..10 : DomainOrder[i] \in Domains
  BY DEF Domains
<1>2. QED
  BY <1>1, FirstRuleWins DEF DomainOf

LEMMA FindingsKnown ==
    ASSUME NEW text, NEW doc, doc.domain = DomainOf(text), doc.dates \in Seq(Dates)
    PROVE  FindingsOf(text, doc) \in Findings
<1> DEFINE signals == (Said(text, doc.fragments) \cap (FinancialSignals \cup FuelSignals))
                      \cup When("authority" \in Said(text, doc.lists["obligations"]), {"authority"})
                      \cup When(doc.resolution, {"resolution"})
<1>1. Len(doc.dates) \in Nat
  OBVIOUS
<1>2. signals \in SUBSET Signals
  BY DEF Signals, When
<1>3. (doc.lists["obligations"] # <<>>) \in BOOLEAN /\ (doc.lists["penalties"] # <<>>) \in BOOLEAN
  OBVIOUS
<1>4. QED
  BY <1>1, <1>2, <1>3, DomainKnown DEF FindingsOf, Findings

(* A text of no domain stays low and is sent to nobody, a domain never      *)
(* falls below its floor, and no impact exceeds its domain's cap without a  *)
(* penalty in the analysis.                                                 *)
LEMMA AlarmsLimited ==
    ASSUME ContentInv
    PROVE  AlarmNeedsPenalties
<1> DEFINE domain == DomainOf(request.text)
           found  == FindingsOf(request.text, analysis)
<1> SUFFICES ASSUME Answered
             PROVE  IF domain = NeutralDomain
                    THEN answer.level = "low" /\ answer.clients = {} /\ answer.drafts = {}
                    ELSE /\ answer.score >= Floor(domain)
                         /\ answer.score > Cap(domain) => analysis.lists["penalties"] # <<>>
  BY DEF AlarmNeedsPenalties
<1>1. analysis.domain = domain /\ analysis.dates \in Seq(Dates)
  BY DEF ContentInv, DomainFromText, Past
<1>2. found \in Findings
  BY <1>1, FindingsKnown
<1>3. found.domain = domain /\ found.penalised = (analysis.lists["penalties"] # <<>>)
  BY <1>1 DEF FindingsOf
<1>4. answer.score = Score(found) /\ answer.level = Level(Score(found))
  BY ReplyNames DEF ContentInv, ScoredByRules, Past
<1>5. CASE domain = NeutralDomain
  <2>1. answer.level = "low"
    BY <1>2, <1>3, <1>4, <1>5, FloorsHold
  <2>2. Markers(domain) = {}
    BY <1>5 DEF Markers, NeutralDomain
  <2>3. DOMAIN listed = {}
    BY <2>2, ListedCandidates DEF IsRelevant
  <2>4. QED
    BY <1>5, <2>1, <2>3, ReplyNames
<1>6. CASE domain # NeutralDomain
  BY <1>2, <1>3, <1>4, <1>6, FloorsHold, AlarmNeedsPenalty
<1>7. QED
  BY <1>5, <1>6

-----------------------------------------------------------------------------
(* Where a quotation comes from.                                            *)

LEMMA DistinctItems ==
    ASSUME NEW T, NEW s \in Seq(T)
    PROVE  Distinct(s) \in Seq(T) /\ (s # <<>> => Distinct(s) # <<>>)
<1> DEFINE firsts == {i \in DOMAIN s : \A j \in 1..(i - 1) : s[j] # s[i]}
<1>1. firsts \in SUBSET DOMAIN s /\ (s # <<>> => 1 \in firsts)
  OBVIOUS
<1>2. Distinct(s) = Picked(s, firsts)
  BY DEF Distinct
<1> HIDE DEF firsts
<1>3. QED
  BY <1>1, <1>2, PickedItems

(* Only what stands in the text is verbatim.                               *)
LEMMA VerbatimInText ==
    ASSUME NEW text, NEW T, NEW items \in Seq(T)
    PROVE  Verbatim(text, items) \in Seq(InText(text))
<1> DEFINE there == {i \in DOMAIN items : items[i] \in InText(text)}
<1>1. Picked(items, there) \in Seq(InText(text))
  BY PickedKind
<1>2. QED
  BY <1>1, DistinctItems DEF Verbatim

(* A piece's run starts after the last end before it.                      *)
LEMMA RunToIsRun ==
    ASSUME NEW text \in Text, NEW at \in SUBSET Nat, NEW k \in Positions(text)
    PROVE  RunTo(at, k) \in Runs(text)
<1> DEFINE ends == {0} \cup {e \in at : e < k}
<1>1. k \in Nat /\ k \in 1..Len(text.pieces)
  BY DEF Positions, Text
<1>2. ends \in SUBSET Nat /\ IsFiniteSet(ends) /\ ends # {}
  <2>1. ends \in SUBSET (0..k) /\ ends \in SUBSET Nat
    <3>1. \A e \in at : e \in Nat /\ (e < k => e \in 0..k)
      BY <1>1
    <3>2. 0 \in 0..k /\ 0 \in Nat
      BY <1>1
    <3>3. \A e \in ends : e \in 0..k /\ e \in Nat
      BY <3>1, <3>2
    <3>4. QED
      BY <3>3
  <2>2. IsFiniteSet(0..k)
    BY <1>1, FS_Interval
  <2>3. QED
    BY <2>1, <2>2, FS_Subset
<1>3. \A e \in ends : e \in Nat /\ e < k
  BY <1>1
<1>4. Max(ends) \in ends
  <2> HIDE DEF ends
  <2>1. \E m \in ends : \A x \in ends : m >= x
    <3>1. PICK m \in ends : \A x \in ends : x <= m
      BY <1>2, Greatest
    <3>2. QED
      BY <1>2, <3>1
  <2>2. QED
    BY <2>1 DEF Max
<1>5. RunTo(at, k) = <<1 + Max(ends), k>>
  BY DEF RunTo
<1> HIDE DEF ends
<1>6. Max(ends) \in Nat /\ Max(ends) < k
  BY <1>3, <1>4
<1>7. 1 + Max(ends) \in 1..Len(text.pieces) /\ 1 + Max(ends) <= k
  BY <1>1, <1>6
<1>8. QED
  BY <1>5, <1>7 DEF Runs, Positions

(* Every part of a text is a run of it; a text that ends has parts.        *)
LEMMA SplitRuns ==
    ASSUME NEW text \in Text, NEW at \in SUBSET Nat
    PROVE  /\ Split(text, at) \in Seq(Runs(text))
           /\ text.pieces # <<>> /\ Len(text.pieces) \in at => Split(text, at) # <<>>
<1> DEFINE runs == [k \in Positions(text) |-> RunTo(at, k)]
<1>1. Len(text.pieces) \in Nat /\ (text.pieces # <<>> => Len(text.pieces) > 0)
  BY DEF Text
<1>2. runs \in [1..Len(text.pieces) -> Runs(text)]
  BY RunToIsRun DEF Positions
<1>3. runs \in Seq(Runs(text)) /\ DOMAIN runs = Positions(text)
  BY <1>1, <1>2 DEF Positions
<1>4. at \cap Positions(text) \in SUBSET DOMAIN runs
  BY <1>3
<1>5. text.pieces # <<>> /\ Len(text.pieces) \in at => at \cap Positions(text) # {}
  BY <1>1 DEF Positions
<1>6. Split(text, at) = Picked(runs, at \cap Positions(text))
  BY DEF Split
<1> HIDE DEF runs
<1>7. QED
  BY <1>3, <1>4, <1>5, <1>6, PickedItems

(* An analysis quotes nothing but the text, and does quote it.             *)
Grounded(text, doc) ==
    /\ doc.lists \in [Kinds -> Seq(InText(text))]
    /\ doc.fragments \in Seq(InText(text))
    /\ doc.fragments # <<>>

Readable(text) == text \in Text /\ text.pieces # <<>> /\ Len(text.pieces) \in text.ends

LEMMA BaselineGrounded ==
    ASSUME NEW text, Readable(text)
    PROVE  Grounded(text, Baseline(text))
<1> DEFINE Q == InText(text)
<1>1. Sentences(text) \in Seq(Q) /\ Sentences(text) # <<>>
  <2>1. Sentences(text) \in Seq(Runs(text)) /\ Sentences(text) # <<>>
    BY SplitRuns DEF Sentences, Readable, Text
  <2>2. Runs(text) \subseteq Q
    BY DEF InText
  <2>3. QED
    BY <2>1, <2>2
<1> HIDE DEF Q
<1>2. ASSUME NEW kind \in Kinds PROVE Extracted(text, kind) \in Seq(Q)
  <2> DEFINE told == {i \in DOMAIN Sentences(text) :
                         /\ kind \in FactsOf(text, Sentences(text)[i])
                         /\ "long" \notin FactsOf(text, Sentences(text)[i])}
  <2>1. Picked(Sentences(text), told) \in Seq(Q)
    BY <1>1, PickedItems
  <2>2. Extracted(text, kind) = FirstOf(MaxItems, Picked(Sentences(text), told))
    BY DEF Extracted
  <2>3. QED
    BY <2>1, <2>2, FirstItems, ContentAssumption
<1>3. FoundFragments(text) \in Seq(Q) /\ FoundFragments(text) # <<>>
  <2> DEFINE telling == {i \in DOMAIN Sentences(text) :
                            FactsOf(text, Sentences(text)[i]) \cap ({"cue"} \cup Kinds) # {}}
             found == Picked(Sentences(text), telling)
  <2>1. found \in Seq(Q)
    BY <1>1, PickedItems
  <2>2. FoundFragments(text) = IF found # <<>> THEN FirstOf(MaxFragments, found)
                               ELSE FirstOf(1, Sentences(text))
    BY DEF FoundFragments
  <2> HIDE DEF found
  <2>3. MaxFragments \in Nat \ {0} /\ 1 \in Nat \ {0}
    BY ContentAssumption
  <2>4. CASE found # <<>>
    BY <2>1, <2>2, <2>3, <2>4, FirstItems
  <2>5. CASE found = <<>>
    BY <1>1, <2>2, <2>3, <2>5, FirstItems
  <2>6. QED
    BY <2>4, <2>5
<1>4. QED
  BY <1>2, <1>3 DEF Grounded, Baseline, Q

(* Whatever a provider wrote.                                              *)
LEMMA ReconciledGrounded ==
    ASSUME NEW text, Readable(text), NEW said \in Answers
    PROVE  Grounded(text, Reconciled(text, said))
<1>1. said \in Analysis
  BY AnswersAssumption
<1>2. \A k \in Kinds : Verbatim(text, said.lists[k]) \in Seq(InText(text))
  BY <1>1, VerbatimInText DEF Analysis
<1>3. Verbatim(text, said.fragments) \in Seq(InText(text))
  BY <1>1, VerbatimInText DEF Analysis
<1>4. Baseline(text).fragments \in Seq(InText(text)) /\ Baseline(text).fragments # <<>>
  BY BaselineGrounded DEF Grounded
<1>5. /\ Reconciled(text, said).lists = [k \in Kinds |-> Verbatim(text, said.lists[k])]
      /\ Reconciled(text, said).fragments =
             IF Verbatim(text, said.fragments) # <<>> THEN Verbatim(text, said.fragments)
             ELSE Baseline(text).fragments
  BY <1>1 DEF Reconciled, Analysis
<1>6. QED
  BY <1>2, <1>3, <1>4, <1>5 DEF Grounded

(* The evidence of an impact is taken from the analysis.                   *)
LEMMA EvidenceGrounded ==
    ASSUME NEW text, NEW doc, Grounded(text, doc)
    PROVE  ImpactEvidence(text, doc) \in Seq(InText(text))
<1> DEFINE Q         == Seq(InText(text))
           facts(i)  == FactsOf(text, doc.fragments[i])
           among(words) == Picked(doc.fragments, {i \in DOMAIN doc.fragments :
                                      (facts(i) \cup Occurring(facts(i))) \cap words # {}})
           by(phrase) == among({phrase})
           focus     == FocusEvidence(text, doc)
<1>1. doc.fragments \in Q /\ doc.lists["penalties"] \in Q /\ doc.lists["obligations"] \in Q
  BY DEF Grounded, Kinds
<1>2. \A words : among(words) \in Q
  BY <1>1, PickedItems
<1>3. /\ FirstOf(1, doc.fragments) \in Q
      /\ FirstOf(2, doc.lists["penalties"]) \in Q /\ FirstOf(2, doc.lists["obligations"]) \in Q
  <2>1. 1 \in Nat \ {0} /\ 2 \in Nat \ {0}
    OBVIOUS
  <2>2. \A n \in Nat \ {0}, u \in Q : FirstOf(n, u) \in Q
    BY FirstItems
  <2> HIDE DEF Q
  <2>3. QED
    BY <1>1, <2>1, <2>2
<1>4. \A u \in Q, v \in Q : u \o v \in Q
  OBVIOUS
<1>5. focus \in Q
  <2>1. focus \in {FirstOf(1, doc.fragments),
                   by("cue") \o by("organizer") \o by("publicCompany") \o by("centralBank")
                       \o among(ToSet(doc.dates)),
                   by("petrol") \o by("oil") \o by("exchange") \o by("excise") \o by("percent"),
                   <<>>}
    BY DEF FocusEvidence
  <2>2. <<>> \in Q
    OBVIOUS
  <2> HIDE DEF among, focus, Q
  <2>3. by("cue") \o by("organizer") \o by("publicCompany") \o by("centralBank")
                       \o among(ToSet(doc.dates)) \in Q
    BY <1>2, <1>4
  <2>4. by("petrol") \o by("oil") \o by("exchange") \o by("excise") \o by("percent") \in Q
    BY <1>2, <1>4
  <2>5. QED
    BY <1>3, <2>1, <2>2, <2>3, <2>4
<1> DEFINE found == Distinct(FocusEvidence(text, doc) \o FirstOf(2, doc.lists["penalties"])
                             \o FirstOf(2, doc.lists["obligations"]))
<1>6. found \in Q
  <2> HIDE DEF Q
  <2>1. FocusEvidence(text, doc) \o FirstOf(2, doc.lists["penalties"])
            \o FirstOf(2, doc.lists["obligations"]) \in Q
    BY <1>3, <1>4, <1>5
  <2>2. QED
    BY <2>1, DistinctItems DEF Q
<1>7. ImpactEvidence(text, doc) = FirstOf(MaxEvidence, IF found # <<>> THEN found ELSE FirstOf(1, doc.fragments))
  BY DEF ImpactEvidence
<1> HIDE DEF found
<1>8. (IF found # <<>> THEN found ELSE FirstOf(1, doc.fragments)) \in Q
  BY <1>3, <1>6
<1>9. QED
  BY <1>7, <1>8, FirstItems, ContentAssumption

-----------------------------------------------------------------------------
(* The source invariant: past the refusal of blank texts there is a text;   *)
(* the analysis and the impact quote it; the evidence of a card is theirs,  *)
(* with chunks that hold it, and there is some unless all the fragments of  *)
(* the analysis are whitespace.                                             *)
FromReading == FromAnalysis \cup {"identified", "resolved"}
BeforeCard  == {"received", "identified", "resolved", "analysed", "assessed", "matched", "drafted"}

Worded        == Past(FromReading) => request.text.pieces # <<>>
AnalysisQuotes == Past(FromAnalysis) => Grounded(request.text, analysis)
ImpactQuotes  == Past(FromImpact) => impact.evidence \in Seq(InText(request.text))

Cited == ToSet(analysis.fragments) \cup ToSet(impact.evidence)

Holds(chunk, item) == chunk[1] <= item[1] /\ item[2] <= chunk[2]

Evident(e) ==
    /\ e \in Runs(request.text) \X (Runs(request.text) \cup {None})
    /\ e[1] \in Cited \ {Space}
    /\ e[2] # None => Holds(e[2], e[1])

OnlySpaceQuoted == ToSet(analysis.fragments) = {Space}

CardEvident ==
    /\ \A e \in evidence : Evident(e)
    /\ stage \in BeforeCard => evidence = {}
    /\ stage \in {"carded", "linked"} \/ (Answered /\ request.endpoint # "full") =>
          evidence # {} \/ OnlySpaceQuoted

SourceInv == Worded /\ AnalysisQuotes /\ ImpactQuotes /\ CardEvident

LEMMA SourceInit == Init => SourceInv
  BY DEF Init, SourceInv, Worded, AnalysisQuotes, ImpactQuotes, CardEvident, Past, Answered, NoReply,
         FromReading, FromAnalysis, FromImpact, BeforeCard

LEMMA ReadableText ==
    ASSUME ContentInv, SourceInv, Past(FromReading)
    PROVE  Readable(request.text)
  BY ContentAssumption DEF ContentInv, SourceInv, Worded, Readable

(* Until the text is analysed nothing is quoted.                           *)
LEMMA ReadingKeepsSource ==
    ASSUME ContentInv, SourceInv, stage \in {"received", "identified"},
           IdentifyDocument \/ RefuseBlank \/ TakeProfiles \/ ResolveProfiles
    PROVE  SourceInv'
<1>1. UNCHANGED <<request, analysis, impact, evidence>>
  BY DEF IdentifyDocument, RefuseBlank, TakeProfiles, ResolveProfiles, Refuse, ResolvedWith, At
<1>2. ~Answered /\ answer = NoReply
  BY NotYetAnswered DEF ContentInv, AnsweredAsFound
<1>3. ~Answered' /\ stage' \in {"identified", "resolved", "answered"}
  <2>1. ASSUME NEW status, status # "OK", Refuse(status) PROVE ~Answered' /\ stage' = "answered"
    BY <2>1 DEF Refuse, Answered, NoReply
  <2>2. ASSUME NEW found, ResolvedWith(found) PROVE ~Answered' /\ stage' = "resolved"
    BY <1>2, <2>2 DEF ResolvedWith, Answered
  <2>3. CASE IdentifyDocument
    BY <1>2, <2>1, <2>3 DEF IdentifyDocument, At, Answered
  <2>4. CASE RefuseBlank \/ TakeProfiles
    BY <2>1, <2>2, <2>4 DEF RefuseBlank, TakeProfiles
  <2>5. CASE ResolveProfiles
    <3>1. \/ \E found : ResolvedWith(found)
          \/ \E status \in {"BadRequest", "Unavailable", "BadGateway"} : Refuse(status)
      BY <2>5 DEF ResolveProfiles
    <3>2. QED
      BY <2>1, <2>2, <3>1
  <2>6. QED
    BY <2>3, <2>4, <2>5
<1>4. stage' # "answered" => request.text.pieces # <<>>
  <2>1. CASE stage = "identified"
    BY <2>1 DEF SourceInv, Worded, Past, FromReading
  <2>2. CASE stage = "received"
    <3>1. CASE Blank
      BY <2>2, <3>1 DEF IdentifyDocument, RefuseBlank, TakeProfiles, ResolveProfiles, Refuse
    <3>2. QED
      BY <3>1 DEF Blank
  <2>3. QED
    BY <2>1, <2>2
<1>5. evidence = {}
  BY DEF SourceInv, CardEvident, BeforeCard
<1>6. QED
  BY <1>1, <1>3, <1>4, <1>5 DEF SourceInv, Worded, AnalysisQuotes, ImpactQuotes, CardEvident, Past,
         FromReading, FromAnalysis, FromImpact, BeforeCard

LEMMA AnalysingKeepsSource ==
    ASSUME ContentInv, SourceInv, AnalyseByProvider \/ AnalyseByBaseline
    PROVE  SourceInv'
<1>1. stage = "resolved" /\ stage' = "analysed" /\ UNCHANGED <<request, impact, evidence, answer>>
  BY DEF AnalyseByProvider, AnalyseByBaseline, Analysed, At
<1>2. ~Answered /\ ~Answered'
  BY <1>1, NotYetAnswered DEF Answered
<1>3. Readable(request.text)
  BY <1>1, ReadableText DEF Past, FromReading
<1>4. Grounded(request.text, analysis')
  BY <1>3, BaselineGrounded, ReconciledGrounded DEF AnalyseByProvider, AnalyseByBaseline, Analysed
<1>5. AnalysisQuotes'
  BY <1>1, <1>4 DEF AnalysisQuotes
<1>6. Worded' /\ ImpactQuotes'
  BY <1>1, <1>2, <1>3 DEF Worded, ImpactQuotes, Readable, Past, FromImpact
<1>7. evidence' = {} /\ CardEvident'
  BY <1>1, <1>2 DEF SourceInv, CardEvident, BeforeCard
<1>8. QED
  BY <1>5, <1>6, <1>7 DEF SourceInv

LEMMA AssessingKeepsSource ==
    ASSUME ContentInv, SourceInv, AssessImpact
    PROVE  SourceInv'
<1>1. stage = "analysed" /\ stage' = "assessed" /\ UNCHANGED <<request, analysis, evidence, answer>>
  BY DEF AssessImpact, At
<1>2. ~Answered /\ ~Answered'
  BY <1>1, NotYetAnswered DEF Answered
<1>3. Grounded(request.text, analysis)
  BY <1>1 DEF SourceInv, AnalysisQuotes, Past, FromAnalysis
<1>4. impact'.evidence \in Seq(InText(request.text))
  BY <1>3, EvidenceGrounded DEF AssessImpact
<1>5. ImpactQuotes'
  BY <1>1, <1>4 DEF ImpactQuotes
<1>6. AnalysisQuotes' /\ Worded'
  BY <1>1, <1>3 DEF SourceInv, AnalysisQuotes, Worded, Past, FromReading, FromAnalysis
<1>7. evidence' = {} /\ CardEvident'
  BY <1>1, <1>2 DEF SourceInv, CardEvident, BeforeCard
<1>8. QED
  BY <1>5, <1>6, <1>7 DEF SourceInv

(* What the analysis and the impact quote stays when neither changes.      *)
LEMMA QuotesKept ==
    ASSUME SourceInv, Past(FromImpact), UNCHANGED <<request, analysis, impact>>
    PROVE  /\ Worded' /\ AnalysisQuotes' /\ ImpactQuotes'
           /\ Cited' = Cited /\ OnlySpaceQuoted' = OnlySpaceQuoted
  BY DEF SourceInv, Worded, AnalysisQuotes, ImpactQuotes, Cited, OnlySpaceQuoted, Past, FromReading, FromAnalysis, FromImpact

LEMMA MatchingKeepsSource ==
    ASSUME ContentInv, SourceInv, MatchClients \/ Draft
    PROVE  SourceInv'
<1>1. /\ stage \in {"assessed", "matched"} /\ stage' \in {"matched", "drafted"}
      /\ UNCHANGED <<request, analysis, impact, evidence, answer>>
  BY DEF MatchClients, Draft, At
<1>2. ~Answered /\ ~Answered'
  BY <1>1, NotYetAnswered DEF Answered
<1>3. evidence' = {} /\ CardEvident'
  BY <1>1, <1>2 DEF SourceInv, CardEvident, BeforeCard
<1>4. Past(FromImpact)
  BY <1>1 DEF Past, FromImpact
<1>5. QED
  BY <1>1, <1>3, <1>4, QuotesKept DEF SourceInv

(* The fragments are never empty, so a card's evidence is only where they  *)
(* are nothing but whitespace.                                             *)
LEMMA CardKeepsSource ==
    ASSUME ContentInv, SourceInv, BuildCard
    PROVE  SourceInv'
<1>1. /\ stage = "drafted" /\ stage' = "carded"
      /\ UNCHANGED <<request, analysis, impact, answer>>
      /\ evidence' = {<<item, None>> : item \in Cited \ {Space}}
  BY DEF BuildCard, At, Cited
<1>2. Past(FromImpact) /\ Past(FromAnalysis)
  BY <1>1 DEF Past, FromImpact, FromAnalysis
<1>3. /\ Worded' /\ AnalysisQuotes' /\ ImpactQuotes'
      /\ Cited' = Cited /\ OnlySpaceQuoted' = OnlySpaceQuoted
  BY <1>1, <1>2, QuotesKept
<1>4. /\ Cited \subseteq InText(request.text)
      /\ ToSet(analysis.fragments) \subseteq Cited /\ ToSet(analysis.fragments) # {}
  <2>1. /\ analysis.fragments \in Seq(InText(request.text)) /\ analysis.fragments # <<>>
        /\ impact.evidence \in Seq(InText(request.text))
    BY <1>2 DEF SourceInv, AnalysisQuotes, ImpactQuotes, Grounded
  <2>2. /\ \A i \in DOMAIN analysis.fragments : analysis.fragments[i] \in InText(request.text)
        /\ \A i \in DOMAIN impact.evidence : impact.evidence[i] \in InText(request.text)
        /\ 1 \in DOMAIN analysis.fragments
    BY <2>1
  <2>3. QED
    BY <2>2 DEF Cited, ToSet
<1>5. \A e \in evidence' : Evident(e)'
  <2>1. Cited \ {Space} \subseteq Runs(request.text)
    BY <1>4 DEF InText
  <2>2. QED
    BY <1>1, <1>3, <2>1 DEF Evident
<1>6. evidence' # {} \/ OnlySpaceQuoted
  <2>1. CASE ToSet(analysis.fragments) \subseteq {Space}
    BY <1>4, <2>1 DEF OnlySpaceQuoted
  <2>2. CASE ~(ToSet(analysis.fragments) \subseteq {Space})
    <3>1. PICK item \in Cited : item # Space
      BY <1>4, <2>2
    <3>2. <<item, None>> \in evidence'
      BY <1>1, <3>1
    <3>3. QED
      BY <3>2
  <2>3. QED
    BY <2>1, <2>2
<1>7. CardEvident'
  BY <1>1, <1>3, <1>5, <1>6 DEF CardEvident, BeforeCard
<1>8. QED
  BY <1>3, <1>7 DEF SourceInv

(* A named chunk holds the whole quotation.                                *)
LEMMA ChunkHolds ==
    ASSUME NEW text, NEW item
    PROVE  \/ ChunkOf(text, item) = None
           \/ ChunkOf(text, item) \in ToSet(Chunks(text)) /\ Holds(ChunkOf(text, item), item)
<1> DEFINE holding == {c \in ToSet(Chunks(text)) : item \in Runs(text) /\ c[1] <= item[1] /\ item[2] <= c[2]}
<1>1. CASE holding = {}
  BY <1>1 DEF ChunkOf
<1>2. CASE holding # {}
  <2>1. ChunkOf(text, item) = CHOOSE c \in holding : TRUE
    BY <1>2 DEF ChunkOf
  <2>2. ChunkOf(text, item) \in holding
    BY <1>2, <2>1
  <2>3. QED
    BY <2>2 DEF Holds
<1>3. QED
  BY <1>1, <1>2

LEMMA LinkingKeepsSource ==
    ASSUME ContentInv, SourceInv, LinkEvidence
    PROVE  SourceInv'
<1>1. /\ stage = "carded" /\ stage' = "linked"
      /\ UNCHANGED <<request, analysis, impact, answer>>
      /\ evidence' = {<<e[1], ChunkOf(request.text, e[1])>> : e \in evidence}
  BY DEF LinkEvidence, At
<1>2. Past(FromImpact)
  BY <1>1 DEF Past, FromImpact
<1>3. /\ Worded' /\ AnalysisQuotes' /\ ImpactQuotes'
      /\ Cited' = Cited /\ OnlySpaceQuoted' = OnlySpaceQuoted
  BY <1>1, <1>2, QuotesKept
<1>4. ToSet(Chunks(request.text)) \subseteq Runs(request.text)
  <2>1. request.text \in Text
    BY ContentAssumption DEF ContentInv
  <2>2. Chunks(request.text) \in Seq(Runs(request.text))
    BY <2>1, SplitRuns DEF Chunks, Text
  <2>3. QED
    BY <2>2 DEF ToSet
<1>5. ASSUME NEW e \in evidence, NEW pair, pair = <<e[1], ChunkOf(request.text, e[1])>>
      PROVE  Evident(pair)'
  <2> DEFINE chunk == ChunkOf(request.text, e[1])
  <2>1. e[1] \in Runs(request.text) /\ e[1] \in Cited \ {Space}
    BY DEF SourceInv, CardEvident, Evident
  <2>2. chunk = None \/ (chunk \in Runs(request.text) /\ Holds(chunk, e[1]))
    BY <1>4, ChunkHolds
  <2>3. pair = <<e[1], chunk>>
    BY <1>5
  <2> HIDE DEF chunk
  <2>4. QED
    BY <1>1, <1>3, <2>1, <2>2, <2>3 DEF Evident
<1>6. \A e \in evidence' : Evident(e)'
  BY <1>1, <1>5
<1>7. evidence' # {} \/ OnlySpaceQuoted
  BY <1>1 DEF SourceInv, CardEvident
<1>8. CardEvident'
  BY <1>1, <1>3, <1>6, <1>7 DEF CardEvident, BeforeCard
<1>9. QED
  BY <1>3, <1>8 DEF SourceInv

LEMMA AnsweringKeepsSource ==
    ASSUME ContentInv, SourceInv, Answer
    PROVE  SourceInv'
<1>1. /\ stage = IF request.endpoint = "full" THEN "drafted" ELSE "linked"
      /\ stage' = "answered"
      /\ UNCHANGED <<request, analysis, impact, evidence>>
  BY DEF Answer
<1>2. Past(FromImpact)
  BY <1>1 DEF Past, FromImpact
<1>3. /\ Worded' /\ AnalysisQuotes' /\ ImpactQuotes'
      /\ Cited' = Cited /\ OnlySpaceQuoted' = OnlySpaceQuoted
  BY <1>1, <1>2, QuotesKept
<1>4. \A e \in evidence' : Evident(e)'
  BY <1>1, <1>3 DEF SourceInv, CardEvident, Evident
<1>5. request.endpoint # "full" => evidence # {} \/ OnlySpaceQuoted
  BY <1>1 DEF SourceInv, CardEvident
<1>6. CardEvident'
  BY <1>1, <1>3, <1>4, <1>5 DEF CardEvident, BeforeCard
<1>7. QED
  BY <1>3, <1>6 DEF SourceInv

LEMMA SourceNext ==
    ASSUME ContentInv, SourceInv, [Next]_vars
    PROVE  SourceInv'
<1>1. CASE IdentifyDocument \/ RefuseBlank \/ TakeProfiles \/ ResolveProfiles
  <2>1. stage \in {"received", "identified"}
    BY <1>1 DEF IdentifyDocument, RefuseBlank, TakeProfiles, ResolveProfiles
  <2>2. QED
    BY <1>1, <2>1, ReadingKeepsSource
<1>2. CASE AnalyseByProvider \/ AnalyseByBaseline
  BY <1>2, AnalysingKeepsSource
<1>3. CASE AssessImpact
  BY <1>3, AssessingKeepsSource
<1>4. CASE MatchClients \/ Draft
  BY <1>4, MatchingKeepsSource
<1>5. CASE BuildCard
  BY <1>5, CardKeepsSource
<1>6. CASE LinkEvidence
  BY <1>6, LinkingKeepsSource
<1>7. CASE Answer
  BY <1>7, AnsweringKeepsSource
<1>8. CASE Done \/ UNCHANGED vars
  <2>1. UNCHANGED <<setup, request, stage, clients, analysis, impact, listed, drafts, evidence, answer>>
    BY <1>8 DEF Done, vars
  <2>2. Cited' = Cited /\ OnlySpaceQuoted' = OnlySpaceQuoted /\ Answered' = Answered
    BY <2>1 DEF Cited, OnlySpaceQuoted, Answered
  <2>3. Worded' /\ AnalysisQuotes' /\ ImpactQuotes'
    BY <2>1, <2>2 DEF SourceInv, Worded, AnalysisQuotes, ImpactQuotes, Past
  <2>4. \A e \in evidence : Evident(e)'
    BY <2>1, <2>2 DEF SourceInv, CardEvident, Evident
  <2>5. CardEvident'
    BY <2>1, <2>2, <2>4 DEF SourceInv, CardEvident
  <2>6. QED
    BY <2>3, <2>5 DEF SourceInv
<1>9. QED
  BY <1>1, <1>2, <1>3, <1>4, <1>5, <1>6, <1>7, <1>8 DEF Next

LEMMA SourceInvariant == Spec => [](ContentInv /\ SourceInv)
<1>1. Init => ContentInv /\ SourceInv
  BY ContentInit, SourceInit
<1>2. ContentInv /\ SourceInv /\ [Next]_vars => ContentInv' /\ SourceInv'
  BY ContentNext, SourceNext
<1>3. QED
  BY <1>1, <1>2, PTL DEF Spec

(* Every quotation of a reply stands in its text, if only as whitespace,    *)
(* and every named chunk holds the whole of one, whatever the provider      *)
(* answered; a card lacks evidence only if all its fragments are whitespace *)
(* (_verbatim_items, the fallback to the first sentence, create_event_card, *)
(* create_event_card_from_document_payload); and the wording of each date   *)
(* that /analyze gives is found in the text (_map_key_dates).               *)
THEOREM QuotesTheSource == Spec => []GroundedInSource
<1>1. ASSUME ContentInv, SourceInv PROVE GroundedInSource
  <2> SUFFICES ASSUME Answered
               PROVE  /\ answer.quoted \subseteq InText(request.text)
                      /\ \A e \in answer.evidence :
                            /\ e[1] \in answer.quoted \ {Space}
                            /\ e[2] # None => e[2][1] <= e[1][1] /\ e[1][2] <= e[2][2]
                      /\ request.endpoint # "full" /\ answer.evidence = {} =>
                            ToSet(analysis.fragments) = {Space}
                      /\ request.endpoint = "contract" =>
                            answer.dates \subseteq Occurring(AllOf(request.text))
    BY DEF GroundedInSource
  <2>1. /\ answer.quoted = Quoted /\ answer.evidence = evidence
        /\ request.endpoint = "contract" => answer.dates \subseteq Occurring(AllOf(request.text))
    <3>1. answer = IF request.endpoint = "contract" THEN OnlyAllowed(PassedOn) ELSE PassedOn
      BY <1>1 DEF ContentInv, AnsweredAsFound
    <3>2. CASE request.endpoint = "contract"
      BY <3>1, <3>2 DEF OnlyAllowed, PassedOn
    <3>3. CASE request.endpoint # "contract"
      BY <3>1, <3>3 DEF PassedOn
    <3>4. QED
      BY <3>2, <3>3
  <2>2. Grounded(request.text, analysis) /\ impact.evidence \in Seq(InText(request.text))
    BY <1>1 DEF SourceInv, AnalysisQuotes, ImpactQuotes, Past
  <2>3. /\ ToSet(analysis.fragments) \subseteq InText(request.text)
        /\ ToSet(impact.evidence) \subseteq InText(request.text)
        /\ \A k \in Kinds : ToSet(analysis.lists[k]) \subseteq InText(request.text)
    <3>1. \A s \in Seq(InText(request.text)) : ToSet(s) \subseteq InText(request.text)
      <4>1. ASSUME NEW s \in Seq(InText(request.text)) PROVE \A i \in DOMAIN s : s[i] \in InText(request.text)
        OBVIOUS
      <4>2. QED
        BY <4>1 DEF ToSet
    <3>2. QED
      BY <2>2, <3>1 DEF Grounded
  <2>4. Quoted \subseteq InText(request.text) /\ Cited \subseteq Quoted
    BY <2>3 DEF Quoted, Cited
  <2>5. \A e \in evidence : e[1] \in Cited \ {Space} /\ (e[2] # None => e[2][1] <= e[1][1] /\ e[1][2] <= e[2][2])
    BY <1>1 DEF SourceInv, CardEvident, Evident, Holds
  <2>6. request.endpoint # "full" /\ evidence = {} => ToSet(analysis.fragments) = {Space}
    BY <1>1 DEF SourceInv, CardEvident, OnlySpaceQuoted
  <2>7. QED
    BY <2>1, <2>4, <2>5, <2>6
<1>2. QED
  BY <1>1, SourceInvariant, PTL

(* No answer of a provider raises an alarm: the domain's floor and cap hold *)
(* for every reply, and only something that stands in the text and is       *)
(* listed as a penalty lifts the cap (assess_impact,                        *)
(* reconcile_with_controlled_baseline).                                     *)
THEOREM AlarmsGrounded == Spec => []AlarmNeedsConsequence
<1>1. ASSUME ContentInv, SourceInv PROVE AlarmNeedsConsequence
  <2>1. Answered => Grounded(request.text, analysis)
    BY <1>1 DEF SourceInv, AnalysisQuotes, Past
  <2>2. Answered /\ analysis.lists["penalties"] # <<>> =>
            ToSet(analysis.lists["penalties"]) \cap InText(request.text) # {}
    <3> SUFFICES ASSUME Answered, analysis.lists["penalties"] # <<>>
                 PROVE  ToSet(analysis.lists["penalties"]) \cap InText(request.text) # {}
      OBVIOUS
    <3>1. analysis.lists["penalties"] \in Seq(InText(request.text))
      BY <2>1 DEF Grounded, Kinds
    <3>2. analysis.lists["penalties"][1] \in InText(request.text) /\ 1 \in DOMAIN analysis.lists["penalties"]
      BY <3>1
    <3>3. QED
      BY <3>2 DEF ToSet
  <2>3. AlarmNeedsPenalties
    BY <1>1, AlarmsLimited
  <2>4. QED
    BY <2>2, <2>3 DEF AlarmNeedsPenalties, AlarmNeedsConsequence
<1>2. QED
  BY <1>1, SourceInvariant, PTL

-----------------------------------------------------------------------------
(* The types.                                                               *)

(* Where a quotation comes from.                                            *)
Source == (Nat \X Nat) \cup {None}

LEMMA RunsTyped ==
    ASSUME NEW text
    PROVE  /\ Runs(text) \subseteq Nat \X Nat
           /\ Runs(text) \subseteq Quotation
           /\ Seq(InText(text)) \subseteq Seq(Quotation)
<1>1. Positions(text) \subseteq Nat
  BY DEF Positions
<1>2. Runs(text) \subseteq Nat \X Nat
  BY <1>1 DEF Runs
<1>3. InText(text) \subseteq Quotation /\ Runs(text) \subseteq Quotation
  BY <1>2 DEF Quotation, InText
<1>4. ASSUME NEW s \in Seq(InText(text)) PROVE s \in Seq(Quotation)
  BY <1>3, <1>4
<1>5. QED
  BY <1>2, <1>3, <1>4

LEMMA AnalysisTyped ==
    ASSUME NEW doc, NEW text, Grounded(text, doc), doc.domain \in Domains \cup {NeutralDomain},
           doc.dates \in Seq(Dates), doc.resolution \in BOOLEAN,
           doc = [domain |-> doc.domain, lists |-> doc.lists, fragments |-> doc.fragments,
                  dates |-> doc.dates, resolution |-> doc.resolution]
    PROVE  doc \in Analysis
<1>1. doc.fragments \in Seq(Quotation)
  BY RunsTyped DEF Grounded
<1>2. doc.lists \in [Kinds -> Seq(Quotation)]
  BY RunsTyped DEF Grounded
<1>3. QED
  BY <1>1, <1>2 DEF Analysis

LEMMA AnalysedTyped ==
    ASSUME ContentInv, SourceInv, AnalyseByProvider \/ AnalyseByBaseline
    PROVE  analysis' \in Analysis
<1> DEFINE text == request.text
<1>1. Readable(text)
  BY ReadableText DEF Past, FromReading, AnalyseByProvider, AnalyseByBaseline, Analysed, At
<1>2. CASE AnalyseByProvider
  <2>1. PICK said \in Answers : analysis' = Reconciled(text, said)
    BY <1>2 DEF AnalyseByProvider, Analysed
  <2>2. said \in Analysis
    BY AnswersAssumption
  <2> DEFINE doc == Reconciled(text, said)
  <2>3. /\ doc = [domain |-> doc.domain, lists |-> doc.lists, fragments |-> doc.fragments,
                  dates |-> doc.dates, resolution |-> doc.resolution]
        /\ doc.resolution \in BOOLEAN
    <3> DEFINE lists  == [k \in Kinds |-> Verbatim(text, said.lists[k])]
               quoted == Verbatim(text, said.fragments)
               fragments == IF quoted # <<>> THEN quoted ELSE Baseline(text).fragments
    <3>1. doc = [said EXCEPT !.domain = DomainOf(text), !.lists = lists, !.fragments = fragments]
      BY DEF Reconciled
    <3>2. said = [domain |-> said.domain, lists |-> said.lists, fragments |-> said.fragments,
                  dates |-> said.dates, resolution |-> said.resolution]
          /\ said.resolution \in BOOLEAN
      BY <2>2 DEF Analysis
    <3> HIDE DEF doc, lists, fragments
    <3>3. doc = [domain |-> DomainOf(text), lists |-> lists, fragments |-> fragments,
                 dates |-> said.dates, resolution |-> said.resolution]
      BY <3>1, <3>2
    <3>4. QED
      BY <3>2, <3>3
  <2>4. doc.domain \in Domains \cup {NeutralDomain} /\ doc.dates \in Seq(Dates)
    BY DomainKept, DomainKnown
  <2>5. Grounded(text, doc)
    BY <1>1, ReconciledGrounded
  <2> HIDE DEF doc
  <2>6. doc \in Analysis
    BY <2>3, <2>4, <2>5, AnalysisTyped
  <2>7. QED
    BY <2>1, <2>6 DEF doc
<1>3. CASE AnalyseByBaseline
  <2> DEFINE doc == Baseline(text)
  <2>1. /\ doc = [domain |-> doc.domain, lists |-> doc.lists, fragments |-> doc.fragments,
                  dates |-> doc.dates, resolution |-> doc.resolution]
        /\ doc.resolution \in BOOLEAN
    BY <1>1 DEF Baseline, Readable, Text
  <2>2. doc.domain \in Domains \cup {NeutralDomain} /\ doc.dates \in Seq(Dates)
    BY <1>1, BaselineDates, DomainKnown DEF Readable
  <2>3. Grounded(text, doc)
    BY <1>1, BaselineGrounded
  <2>4. analysis' = doc
    BY <1>3 DEF AnalyseByBaseline, Analysed
  <2> HIDE DEF doc
  <2>5. QED
    BY <2>1, <2>2, <2>3, <2>4, AnalysisTyped
<1>4. QED
  BY <1>2, <1>3

LEMMA ImpactTyped ==
    ASSUME ContentInv, SourceInv, AssessImpact
    PROVE  impact' \in Impact
<1>1. stage = "analysed"
  BY DEF AssessImpact, At
<1>2. analysis.domain = DomainOf(request.text) /\ analysis.dates \in Seq(Dates)
  BY <1>1 DEF ContentInv, DomainFromText, Past, FromAnalysis
<1>3. Score(FindingsOf(request.text, analysis)) \in 0..100
  BY <1>2, FindingsKnown, ScoreOnScale
<1>4. Level(Score(FindingsOf(request.text, analysis))) \in Levels
  BY DEF Level, Levels
<1>5. ImpactEvidence(request.text, analysis) \in Seq(Quotation)
  BY <1>1, EvidenceGrounded, RunsTyped DEF SourceInv, AnalysisQuotes, Past, FromAnalysis
<1>6. QED
  BY <1>3, <1>4, <1>5 DEF AssessImpact, Impact

ListedTyped == \E some \in SUBSET ClientIds : listed \in [some -> {"low", "medium", "high"}]

LEMMA MatchedTyped ==
    ASSUME clients \subseteq Clients, MatchClients
    PROVE  ListedTyped'
<1> DEFINE said == Said(request.text, analysis.fragments)
           some == {c \in DOMAIN Candidates : /\ IsRelevant(Candidates[c], analysis.domain)
                                              /\ HasFactors(Candidates[c], analysis.domain, said)}
           score(c) == RelevanceScore(Candidates[c], analysis.domain, impact.level)
<1>1. listed' = [c \in some |-> RelevanceLevel(score(c))]
  BY DEF MatchClients, Matched
<1>2. some \in SUBSET ClientIds
  BY CandidatesKnown DEF ClientIds
<1>3. \A c \in some : RelevanceLevel(score(c)) \in {"low", "medium", "high"}
  BY DEF RelevanceLevel
<1> HIDE DEF some, score
<1>4. listed' \in [some -> {"low", "medium", "high"}]
  BY <1>1, <1>3
<1>5. QED
  BY <1>2, <1>4 DEF ListedTyped

LEMMA ReplyTyped ==
    ASSUME analysis \in Analysis, impact \in Impact, ListedTyped, drafts \subseteq ClientIds \X Levels,
           evidence \subseteq Quotation \X Source
    PROVE  PassedOn \in Reply /\ OnlyAllowed(PassedOn) \in Reply
<1>1. Quoted \subseteq Quotation
  <2>1. \A s \in Seq(Quotation) : \A i \in DOMAIN s : s[i] \in Quotation
    OBVIOUS
  <2>2. /\ analysis.fragments \in Seq(Quotation) /\ impact.evidence \in Seq(Quotation)
        /\ \A k \in Kinds : analysis.lists[k] \in Seq(Quotation)
    BY DEF Analysis, Impact
  <2>3. QED
    BY <2>1, <2>2 DEF Quoted, ToSet
<1>2. DOMAIN listed \subseteq ClientIds
  BY DEF ListedTyped
<1>3. /\ impact.score \in 0..100 /\ impact.level \in Levels /\ ToSet(analysis.dates) \subseteq Dates
      /\ "OK" \in Statuses
  <2>1. analysis.dates \in Seq(Dates)
    BY DEF Analysis
  <2>2. \A i \in DOMAIN analysis.dates : analysis.dates[i] \in Dates
    BY <2>1
  <2>3. QED
    BY <2>2 DEF Impact, Statuses, ToSet
<1>4. PassedOn \in Reply
  BY <1>1, <1>2, <1>3 DEF PassedOn, Reply, Source
<1>5. OnlyAllowed(PassedOn) \in Reply
  <2>1. /\ PassedOn.dates \cap Occurring(AllOf(request.text)) \subseteq Dates
        /\ PassedOn.clients \cap clients \subseteq ClientIds
        /\ {d \in PassedOn.drafts : d[1] \in clients} \subseteq ClientIds \X Levels
    BY <1>4 DEF Reply
  <2>2. QED
    BY <1>4, <2>1 DEF OnlyAllowed, Reply
<1>6. QED
  BY <1>4, <1>5

LEMMA NoReplyTyped ==
    ASSUME NEW status \in Statuses
    PROVE  NoReply \in Reply /\ [NoReply EXCEPT !.status = status] \in Reply
  BY DEF NoReply, Reply, Statuses, Levels

LEMMA ContentTypeInit == Init => TypeOK
<1> SUFFICES ASSUME Init PROVE TypeOK
  OBVIOUS
<1>1. NoAnalysis \in Analysis
  BY DEF NoAnalysis, Analysis
<1>2. NoImpact \in Impact
  BY DEF NoImpact, Impact, Levels
<1>3. NoReply \in Reply
  BY NoReplyTyped DEF Statuses
<1>4. listed \in [{} -> {"low", "medium", "high"}]
  BY DEF Init
<1>5. QED
  BY <1>1, <1>2, <1>3, <1>4 DEF Init, TypeOK, Stages

LEMMA ContentTypeNext ==
    ASSUME TypeOK, ContentInv, SourceInv, ContentInv', SourceInv', [Next]_vars
    PROVE  TypeOK'
<1>1. request' \in Requests /\ stage' \in Stages /\ clients' \subseteq Clients
  BY DEF ContentInv
<1>2. setup' = setup
  BY DEF Next, vars, IdentifyDocument, RefuseBlank, TakeProfiles, ResolveProfiles, AnalyseByProvider,
         AnalyseByBaseline, Analysed, AssessImpact, MatchClients, Draft, BuildCard, LinkEvidence, Answer,
         Done, Refuse, ResolvedWith, At
<1>3. evidence' \subseteq Quotation \X Source
  BY RunsTyped DEF SourceInv, CardEvident, Evident, Source
<1>4. CASE AnalyseByProvider \/ AnalyseByBaseline
  <2>1. UNCHANGED <<impact, listed, drafts, answer>>
    BY <1>4 DEF AnalyseByProvider, AnalyseByBaseline, Analysed
  <2>2. QED
    BY <1>1, <1>2, <1>3, <1>4, <2>1, AnalysedTyped DEF TypeOK, Source
<1>5. CASE AssessImpact
  BY <1>1, <1>2, <1>3, <1>5, ImpactTyped DEF TypeOK, AssessImpact, Source
<1>6. CASE MatchClients
  BY <1>1, <1>2, <1>3, <1>6, MatchedTyped DEF TypeOK, MatchClients, ListedTyped, Source
<1>7. CASE Draft
  <2>1. drafts' \subseteq ClientIds \X Levels
    BY <1>7 DEF Draft, TypeOK, Impact
  <2>2. QED
    BY <1>1, <1>2, <1>3, <1>7, <2>1 DEF TypeOK, Draft, Source
<1>8. CASE BuildCard \/ LinkEvidence
  BY <1>1, <1>2, <1>3, <1>8 DEF TypeOK, BuildCard, LinkEvidence, Source
<1>9. CASE Answer
  <2>1. PassedOn \in Reply /\ OnlyAllowed(PassedOn) \in Reply
    BY ReplyTyped DEF TypeOK, ListedTyped, Source
  <2>2. answer' \in Reply
    BY <1>9, <2>1 DEF Answer
  <2>3. UNCHANGED <<analysis, impact, listed, drafts>>
    BY <1>9 DEF Answer
  <2>4. QED
    BY <1>1, <1>2, <1>3, <2>2, <2>3 DEF TypeOK, Source
<1>10. CASE IdentifyDocument \/ RefuseBlank \/ TakeProfiles \/ ResolveProfiles
  <2>1. UNCHANGED <<analysis, impact, listed, drafts>>
    BY <1>10 DEF IdentifyDocument, RefuseBlank, TakeProfiles, ResolveProfiles, Refuse, ResolvedWith
  <2>2. answer' = answer \/ \E status \in Statuses : answer' = [NoReply EXCEPT !.status = status]
    BY <1>10 DEF IdentifyDocument, RefuseBlank, TakeProfiles, ResolveProfiles, Refuse, ResolvedWith, Statuses
  <2>3. answer' \in Reply
    BY <2>2, NoReplyTyped DEF TypeOK
  <2>4. QED
    BY <1>1, <1>2, <1>3, <2>1, <2>3 DEF TypeOK, Source
<1>11. CASE Done \/ UNCHANGED vars
  BY <1>1, <1>2, <1>3, <1>11 DEF TypeOK, Done, vars, Source
<1>12. QED
  BY <1>4, <1>5, <1>6, <1>7, <1>8, <1>9, <1>10, <1>11 DEF Next

(* Every reachable state is well typed: scores on the scale, quotations of  *)
(* pieces, drafts for known clients, whatever the requests and answers.     *)
THEOREM ContentTyped == Spec => []TypeOK
<1>1. TypeOK /\ ContentInv /\ SourceInv /\ [Next]_vars => TypeOK' /\ ContentInv' /\ SourceInv'
  BY ContentNext, SourceNext, ContentTypeNext
<1>2. Init => TypeOK /\ ContentInv /\ SourceInv
  BY ContentInit, SourceInit, ContentTypeInit
<1>3. QED
  BY <1>1, <1>2, PTL DEF Spec
================================================================================
