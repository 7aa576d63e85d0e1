---------------------------- MODULE MCKindRemoval ----------------------------
EXTENDS KindRemoval
=============================================================================
