------------------------------ MODULE ImpactRules ------------------------------
(***************************************************************************)
(* The rules that decide, without a model, what a document is about and    *)
(* how much it matters: DOMAIN_RULES with detect_domain, and assess_impact.*)
(*                                                                         *)
(* A document speaks through signals: the name of a domain stands for any  *)
(* of that domain's document markers, the others for the phrases that      *)
(* assess_impact looks for.  The topics of an analysis are those of its    *)
(* domain's rule (the reconciliation and the baseline both set them), so   *)
(* the domain stands for them here.                                        *)
(***************************************************************************)
EXTENDS Integers, Sequences

\* DOMAIN_RULES, in the order in which detect_domain tries them.
DomainOrder ==
    <<"personal_data", "aml", "product_marking_trade", "lending_consumer_credit",
      "fuel_excise", "financial_market_securities", "payments_digital_ruble",
      "tax_reporting", "foreign_trade_currency_control", "info_security_it">>

Domains == {DomainOrder[i] : i \in 1..10}

NeutralDomain == "neutral_no_match"

Floor(domain) == CASE domain = "personal_data" -> 50
                   [] domain = "aml"           -> 61
                   [] OTHER                    -> 40

Cap(domain) == IF domain = "aml" THEN 80 ELSE 60

NeutralCap == 30

\* The first rule with a marker in the text wins.
DetectDomain(signals) ==
    IF signals \cap Domains = {}
    THEN NeutralDomain
    ELSE DomainOrder[CHOOSE i \in 1..10 :
                        /\ DomainOrder[i] \in signals
                        /\ \A j \in 1..(i - 1) : DomainOrder[j] \notin signals]

\* What assess_impact looks for in the fragments, in the obligations ("authority")
\* and in the type of the document ("resolution").
FinancialSignals == {"organizer", "publicCompany", "centralBank"}
FuelSignals      == {"petrol", "oil", "exchange", "excise", "percent"}
Signals          == FinancialSignals \cup FuelSignals \cup {"authority", "resolution"}

\* What assess_impact reads of an analysis.
Findings == [domain    : Domains \cup {NeutralDomain},
             signals   : SUBSET Signals,
             dates     : Nat,
             obliged   : BOOLEAN,
             penalised : BOOLEAN]

Points(condition, n) == IF condition THEN n ELSE 0

FinancialPoints(f) ==
    25 + Points("organizer" \in f.signals, 20)
       + Points("publicCompany" \in f.signals, 15)
       + Points("centralBank" \in f.signals, 15)
       + Points(f.dates >= 1, 10)
       + Points(f.obliged /\ "authority" \in f.signals, 10)

FuelPoints(f) ==
      Points("petrol" \in f.signals, 20)
    + Points("oil" \in f.signals, 20)
    + Points("exchange" \in f.signals, 20)
    + Points("excise" \in f.signals, 20)
    + Points("percent" \in f.signals \/ f.dates >= 2, 10)
    + Points("resolution" \in f.signals, 10)

TopicPoints(f) ==
    CASE f.domain = "financial_market_securities"    -> FinancialPoints(f)
      [] f.domain = "fuel_excise"                    -> FuelPoints(f)
      [] f.domain = "personal_data"                  -> 30
      [] f.domain = "aml"                            -> 35
      [] f.domain = "foreign_trade_currency_control" -> 25
      [] OTHER                                       -> 0

\* Penalties, obligations, the two together, and the several topics of every rule.
DutyPoints(f) ==
      Points(f.penalised, 20) + Points(f.obliged, 10)
    + Points(f.obliged /\ f.penalised, 10) + 10

AtMost(n, bound)  == IF n > bound THEN bound ELSE n
AtLeast(n, bound) == IF n < bound THEN bound ELSE n

\* Specialised regulation without consequences stays at medium.
SpecialisedScore(f) ==
    LET points == TopicPoints(f) + DutyPoints(f)
    IN  IF f.domain \in {"financial_market_securities", "fuel_excise"} /\ ~f.penalised
        THEN AtMost(points, 60)
        ELSE points

\* Mutant: the bounds of the scale are left to the rules.
Unclamped(f) ==
    LET floored == AtLeast(SpecialisedScore(f), Floor(f.domain))
    IN  IF f.domain = NeutralDomain THEN AtMost(SpecialisedScore(f), NeutralCap)
        ELSE IF f.penalised THEN floored ELSE AtMost(floored, Cap(f.domain))

Score(f) ==
    IF f.domain = NeutralDomain
    THEN AtMost(SpecialisedScore(f), NeutralCap)
    ELSE LET floored == AtLeast(SpecialisedScore(f), Floor(f.domain))
         IN  AtMost(IF f.penalised THEN floored ELSE AtMost(floored, Cap(f.domain)), 100)

Levels == {"low", "medium", "high", "critical"}

Level(score) == IF score <= 30 THEN "low"
                ELSE IF score <= 60 THEN "medium"
                ELSE IF score <= 80 THEN "high"
                ELSE "critical"
================================================================================
