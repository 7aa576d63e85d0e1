-------------------------- MODULE MCStatementQueue --------------------------
EXTENDS StatementQueue, TLC

\* Three branches submit two units each; two settings besides the default.
CONSTANTS b1, b2, b3, ef40, ef100, ef200
=============================================================================
