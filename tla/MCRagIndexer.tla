---------------------------- MODULE MCRagIndexer ----------------------------
(* Values of the constants of RagIndexer for TLC. *)
EXTENDS RagIndexer, TLC

CONSTANTS short, long, free, private

\* A text of one chunk and one of two: rewriting the one by the other has a
\* tail to trim, and can embed a part of it.
MCTexts == {short, long}
MCChunkCount == [t \in MCTexts |-> IF t = short THEN 1 ELSE 2]

MCBoards == {free, private}
MCIndexedBoards == {free}

\* Posts and drains are interchangeable; used where no liveness is checked.
Interchange == Permutations(Posts) \cup Permutations(Drainers)
=============================================================================
