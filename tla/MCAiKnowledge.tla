------------------------------ MODULE MCAiKnowledge ------------------------------
(***************************************************************************)
(* AiKnowledge with two documents: d1 has a longer and a shorter version,  *)
(* d2 a version with a line separator in its first chunk. Chunks that come *)
(* with a question about no document are those of request_document.        *)
(***************************************************************************)
EXTENDS AiKnowledge

CONSTANTS a1, a2, k1, s1, d1, d2, request_document, long, short, broken, c1, c2

MCCount == (long :> 2) @@ (short :> 1) @@ (broken :> 1)

MCSplit == {<<broken, 1>>}

MCListed == (long :> {c1}) @@ (short :> {}) @@ (broken :> {c2})

MCWorks == {[document |-> d1, text |-> long], [document |-> d1, text |-> short]}

Upload == [size |-> 1, extension |-> ".txt", content |-> "text", stem |-> "notice", text |-> broken]

MCUploads == {Upload, [Upload EXCEPT !.size = 3]}

MCUploadId == "notice" :> d2

MCQuestions ==
    LET score == [<<t, n>> \in Contents |-> IF n = 1 /\ t # short THEN 1 ELSE 0]
        chunk == [document |-> request_document, n |-> 1, text |-> long]
    IN  {[document |-> d1, own |-> <<>>, chunks |-> <<>>, score |-> score],
         [document |-> None, own |-> <<>>, chunks |-> <<chunk>>, score |-> score]}

Message(event) == [client |-> c1, draftedFor |-> c1, document |-> d1, event |-> event, proper |-> TRUE]

MCNotices == {Message(a1), Message(a2), [Message(None) EXCEPT !.draftedFor = c2]}

\* No constant tells the analyses apart.
Symmetry == Permutations(Analyses)
================================================================================
