------------------------- MODULE MCEdgeCardinality -------------------------
EXTENDS EdgeCardinality, TLC

\* The model values of writers, and of edges, are interchangeable.

WriterSymmetry == Permutations(Writers) \cup Permutations(Edges)
=============================================================================
