------------------------ MODULE MCImpactRecalculation ------------------------
(* Small instances of ImpactRecalculation for TLC. *)
EXTENDS ImpactRecalculation, TLC

\* Every event's text mentions every factor: a client's traits alone decide.
AllFactors == [e \in Events |-> Factors]

Symmetry == Permutations(Requests) \cup Permutations(Factors)
=============================================================================
