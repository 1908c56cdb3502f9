-------------------------- MODULE MCDocumentIndex --------------------------
(* DocumentIndex with a few documents, for TLC. *)
EXTENDS DocumentIndex, TLC

\* Documents are interchangeable: their ids are random.
SameDocuments == Permutations(Docs)
=============================================================================
