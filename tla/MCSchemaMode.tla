---------------------------- MODULE MCSchemaMode ----------------------------
EXTENDS SchemaMode
=============================================================================
