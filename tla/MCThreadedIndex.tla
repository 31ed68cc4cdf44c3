--------------------------- MODULE MCThreadedIndex ---------------------------
EXTENDS ThreadedIndex

\* The tasks of two callers and two sub-indexes.
MCTasks == {1, 2} \X {1, 2} \X {"start", "call"}
=============================================================================
