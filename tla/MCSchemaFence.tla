---------------------------- MODULE MCSchemaFence ----------------------------
EXTENDS SchemaFence
=============================================================================
