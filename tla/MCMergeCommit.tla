---------------------------- MODULE MCMergeCommit ----------------------------
EXTENDS MergeCommit, TLC

MergerSymmetry == Permutations(Mergers)
=============================================================================
