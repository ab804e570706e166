------------------------- MODULE MCCatalogPersistence -------------------------
EXTENDS CatalogPersistence, TLC

\* Neither the attempts nor the identities are ever compared with another one
\* than by equality.
Symmetric == Permutations(Posts) \cup Permutations(Uids)
===============================================================================
