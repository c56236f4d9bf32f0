-------------------------- MODULE MCAnalyzeEndpoint --------------------------
(* Small instances of AnalyzeEndpoint for TLC. *)
EXTENDS AnalyzeEndpoint

CONSTANTS c1, c2, b1

\* One request meets every outcome while the others keep it company.
MixedOutcomes ==
    [r \in Requests |-> CASE r = c1 -> {"valid", "foreign", "timeout"}
                          [] r = c2 -> {"timeout"}
                          [] r = b1 -> {"valid"}]

TimeoutsOnly == [r \in Requests |-> {"timeout"}]
=============================================================================
