------------------------- MODULE MCEmbeddingBackfill -------------------------
(* Three claims, the first of them flagged, batches of two, two runs that may *)
(* overlap and be repeated, and two models, so that vectors can mix.          *)
EXTENDS EmbeddingBackfill, TLC

CONSTANTS r1, r2, e5, other

MCRuns   == {r1, r2}
MCModels == {e5, other}

MCClaims == 1..3
MCFlagged == {1}

\* For the runs about one invocation: a flagged claim at the batch boundary.
MCFourClaims == 1..4
MCSecondFlagged == {2}
MCRun == {r1}

Symmetry == Permutations(MCRuns) \cup Permutations(MCModels)
=============================================================================
