------------------------- MODULE MCBackfillSessions -------------------------
(***************************************************************************)
(* TLC instances of BackfillSessions.                                      *)
(***************************************************************************)
EXTENDS BackfillSessions

MC == INSTANCE MCComputeSync

\* One block, a range of three chunks, and a range that ends beyond the safe head.
AnyRanges == {<<4, 4>>, <<0, 5>>, <<4, 9>>}

\* currentBlock, lastSyncTs and dead locals decide nothing.
PassView == <<MC!View, pass>>
=============================================================================
