--------------------------- MODULE MCRuntimeFixture ---------------------------
EXTENDS RuntimeFixture
===============================================================================
