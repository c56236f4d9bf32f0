------------------------- MODULE MCDocumentPipeline -------------------------
(* Small instances of DocumentPipeline for TLC. *)
EXTENDS DocumentPipeline, TLC

\* Sessions of one kind and texts are interchangeable.
Symmetry == Permutations(Uploads) \cup Permutations(Reprocesses)
            \cup Permutations(WorkerBatches) \cup Permutations(Texts)
=============================================================================
