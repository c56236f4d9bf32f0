--------------------------- MODULE MCAnalysisContent ---------------------------
(***************************************************************************)
(* AnalysisContent on texts of three pieces about seven domains and none,  *)
(* split into sentences and chunks in different ways, with providers that  *)
(* quote across chunks, quote whitespace, invent items, misname the domain *)
(* and give a date that is only the end of the one the text states.        *)
(***************************************************************************)
EXTENDS AnalysisContent

CONSTANTS atBank, exposed, risky, fueller, stated, inner, second, imagined

\* A client known to the bank by its segment only; one with declared exposures; one with a
\* high risk and nothing else; a fuel trader.
Nothing == [foreignTrade |-> FALSE, onlinePayments |-> FALSE, personalData |-> FALSE,
            cash |-> "low", risk |-> "low", bankSegment |-> FALSE, industry |-> {}, tags |-> {}]

MCProfile ==
    (atBank  :> [Nothing EXCEPT !.bankSegment = TRUE])
 @@ (exposed :> [Nothing EXCEPT !.foreignTrade = TRUE, !.personalData = TRUE, !.cash = "high"])
 @@ (risky   :> [Nothing EXCEPT !.risk = "high"])
 @@ (fueller :> [Nothing EXCEPT !.industry = {"fuel"}, !.tags = {"fuel"}])

MCDates == {stated, inner, second, imagined}

\* The wording of inner ends that of stated.
MCSpelled == [date \in MCDates |-> IF date = stated THEN {stated, inner} ELSE {date}]

\* What the first and the last piece say, by the subject of the text.
Subject(domain) ==
    CASE domain = "financial_market_securities" -> {domain, "cue", "organizer", "publicCompany", stated}
      [] domain = "fuel_excise"                 -> {domain, "petrol", "oil", "exchange", "excise", stated}
      [] domain = "lending_consumer_credit"     -> {domain, "cue", stated}
      [] domain = NeutralDomain                 -> {stated}
      [] OTHER                                  -> {domain, "cue"}

Written(domain, middle, last, ends, breaks) ==
    [pieces |-> <<Subject(domain), middle, last>>, ends |-> ends \cup {3},
     breaks |-> breaks \cup {3}, resolution |-> domain = "fuel_excise"]

Subjects == {"personal_data", "aml", "lending_consumer_credit", "fuel_excise",
             "financial_market_securities", "foreign_trade_currency_control", NeutralDomain}

MCDocuments ==
    {[pieces |-> <<>>, ends |-> {}, breaks |-> {}, resolution |-> FALSE]}
    \cup {Written(d, {"penalties", second}, {"obligations", "authority", "centralBank", stated}, {1, 2}, {1}) :
              d \in Subjects}
    \cup {Written(d, {"penalties", "restrictions"}, {"obligations", "long"}, {2}, {1}) : d \in Subjects \ {"aml"}}
    \cup {Written(d, {"currencyControl", "obligations"}, {"lending_consumer_credit"}, {1}, {2}) :
              d \in {"aml", "foreign_trade_currency_control"}}

\* Nothing; everything that stands in the text, across chunks; inventions; whitespace.
MCAnswers ==
    LET lists(obligations, penalties) ==
            [obligations |-> obligations, restrictions |-> <<>>, penalties |-> penalties]
    IN  {[domain |-> domain, lists |-> lists(obligations, penalties), fragments |-> fragments,
          dates |-> dates, resolution |-> TRUE] :
            domain \in {"aml", NeutralDomain},
            obligations \in {<<>>, <<<<3, 3>>, Invented>>},
            penalties \in {<<>>, <<Invented, Space>>, <<<<2, 2>>, <<2, 2>>>>},
            fragments \in {<<Invented>>, <<Space>>, <<<<1, 2>>, <<3, 3>>>>},
            dates \in {<<>>, <<inner, imagined>>}}

Asked(endpoint, named, seeds) ==
    {[endpoint |-> endpoint, text |-> text, clients |-> who, seeds |-> s] :
        text \in MCDocuments, who \in named, s \in seeds}

Worded(requests) == {r \in requests : r.text.pieces # <<>>}

MCRequests ==
    Asked("contract", {{}, {atBank, exposed, risky}}, {TRUE})
    \cup Asked("integration", {None, {}, {exposed, risky, fueller}}, {TRUE})
    \cup Asked("existing", {None}, {TRUE})
    \cup Worded(Asked("document", {{}, {risky, fueller}}, BOOLEAN))
    \cup Worded(Asked("card", {None}, {TRUE}))
    \cup Worded(Asked("full", {None, {exposed}}, {TRUE}))

MCBackendLists == {{}, {atBank, fueller}}
================================================================================
