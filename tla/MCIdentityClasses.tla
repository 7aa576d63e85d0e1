-------------------------- MODULE MCIdentityClasses --------------------------
EXTENDS IdentityClasses

\* Kinds 1 and 2 are disjoint; each shares one id with kind 3.
FourNodes == {<<1, 1>>, <<2, 2>>, <<3, 1>>, <<3, 2>>}
OneTwoDisjoint == {{1, 2}}
=============================================================================
