-------------------------- MODULE MCOngoingPrefetch --------------------------
(* Batches for OngoingPrefetch: a missing list (-1), a single list, more      *)
(* lists than threads, and none.                                              *)
EXTENDS OngoingPrefetch

MCBatches == {<<>>, <<5>>, <<1, -1, 2, 3>>}
=============================================================================
