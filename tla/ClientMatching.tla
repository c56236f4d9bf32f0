----------------------------- MODULE ClientMatching -----------------------------
(***************************************************************************)
(* Whom an event concerns: match_clients with the helpers it rests on, and *)
(* the two mappings that turn a client of the main backend into a profile. *)
(*                                                                         *)
(* The matcher joins a client's keywords and looks for a rule's client     *)
(* markers in the joined string.  A word below stands for a keyword by the *)
(* marker it contains: "bank" for a tag "bank_segment:...", whatever the   *)
(* segment; "152-FZ", "115-FZ" and "trade" for the Russian keywords that a *)
(* profile's flags add; "size" and "cash_operations" for tags that contain *)
(* no marker at all.                                                       *)
(***************************************************************************)
EXTENDS ImpactRules

\* client_markers, by the words that contain one.
Markers(domain) ==
    CASE domain = "personal_data"                  -> {"personal_data", "152-FZ"}
      [] domain = "aml"                            -> {"bank", "115-FZ", "identification"}
      [] domain = "product_marking_trade"          -> {"retail"}
      [] domain = "lending_consumer_credit"        -> {"bank", "lending"}
      [] domain = "fuel_excise"                    -> {"fuel"}
      [] domain = "financial_market_securities"    -> {"broker"}
      [] domain = "payments_digital_ruble"         -> {"online_payments", "payments"}
      [] domain = "tax_reporting"                  -> {"tax_reporting"}
      [] domain = "foreign_trade_currency_control" -> {"foreign_trade", "trade"}
      [] domain = "info_security_it"               -> {"it_system"}
      [] OTHER                                     -> {}

Words == (UNION {Markers(d) : d \in Domains}) \cup {"size", "cash_operations", "cash", "online"}

\* FINANCIAL_CLIENT_MARKERS and FUEL_CLIENT_MARKERS.
FinancialWords == {"broker"}
FuelWords      == {"fuel"}

\* The words by which a topic of the domain is matched, and those that count as a factor.
TopicWords(domain) ==
    CASE domain = "personal_data"                  -> {"152-FZ"}
      [] domain = "aml"                            -> {"115-FZ", "identification"}
      [] domain = "foreign_trade_currency_control" -> {"trade"}
      [] domain = "financial_market_securities"    -> FinancialWords
      [] domain = "fuel_excise"                    -> FuelWords
      [] OTHER                                     -> {}

FactorWords(domain) == TopicWords(domain) \cup (IF domain = "aml" THEN {"cash"} ELSE {})

ClientLevels == {"low", "medium", "high"}

ClientProfile ==
    [foreignTrade : BOOLEAN, onlinePayments : BOOLEAN, personalData : BOOLEAN,
     cash : ClientLevels, risk : ClientLevels, bankSegment : BOOLEAN,
     industry : SUBSET Words, tags : SUBSET Words]

When(condition, words) == IF condition THEN words ELSE {}

\* Both mappings of the main backend's clients give these tags; only the one that reads
\* GET /api/clientprofiles adds the size, so only there the tags are never empty.
TagsOf(profile) ==
         When(profile.foreignTrade, {"foreign_trade"})
    \cup When(profile.onlinePayments, {"online_payments"})
    \cup When(profile.personalData, {"personal_data"})
    \cup When(profile.cash # "low", {"cash_operations"})
    \cup When(profile.bankSegment, {"bank"})
    \cup profile.industry

ContractProfile(profile) == [profile EXCEPT !.tags = TagsOf(profile)]
MainProfile(profile)     == [profile EXCEPT !.tags = TagsOf(profile) \cup {"size"}]

Keywords(profile) ==
         profile.industry
    \cup profile.tags
    \cup When(profile.personalData, {"152-FZ"})
    \cup When(profile.foreignTrade, {"trade"})
    \cup When(profile.onlinePayments, {"online", "payments"})
    \cup When(profile.cash \in {"medium", "high"} \/ profile.risk = "high", {"cash", "115-FZ"})

\* A candidate of match_clients: its tags, if it is a profile and has any, and its keywords.
Candidate(profile) == [tags |-> profile.tags, keywords |-> Keywords(profile)]

SeedKeywords ==
    [seed1 |-> {"152-FZ", "online"},
     seed2 |-> {"trade"},
     seed3 |-> {"cash", "115-FZ"},
     seed4 |-> {"152-FZ", "trade"},
     seed5 |-> {"115-FZ", "identification", "cash"},
     seed6 |-> {"fuel"}]

Seeds == DOMAIN SeedKeywords

SeedCandidate(seed) == [tags |-> {}, keywords |-> SeedKeywords[seed]]

\* Mutant: the flags of a profile count beside its tags.
EveryWord(candidate) == candidate.tags \cup candidate.keywords

\* Tags, where there are any, hide the flags of the profile.
RelevanceWords(candidate) == IF candidate.tags # {} THEN candidate.tags ELSE candidate.keywords

IsRelevant(candidate, domain) == RelevanceWords(candidate) \cap Markers(domain) # {}

HasFactors(candidate, domain, signals) ==
    \/ candidate.tags # {} /\ candidate.keywords \cap Markers(domain) # {}
    \/ candidate.keywords \cap FactorWords(domain) # {}
    \/ domain = "foreign_trade_currency_control" /\ "currencyControl" \in signals

RelevanceScore(candidate, domain, level) ==
    AtMost(50 + Points(IsRelevant(candidate, domain), 25)
              + Points(RelevanceWords(candidate) \cap TopicWords(domain) # {}, 25)
              + CASE level = "low"    -> 0
                  [] level = "medium" -> 5
                  [] level = "high"   -> 10
                  [] OTHER            -> 15,
           100)

RelevanceLevel(score) == IF score <= 40 THEN "low" ELSE IF score <= 70 THEN "medium" ELSE "high"

\* match_clients: the listed candidates, each with its level of relevance.
Matched(candidates, domain, signals, level) ==
    LET listed == {c \in DOMAIN candidates :
                      /\ IsRelevant(candidates[c], domain)
                      /\ HasFactors(candidates[c], domain, signals)}
    IN  [c \in listed |-> RelevanceLevel(RelevanceScore(candidates[c], domain, level))]
================================================================================
