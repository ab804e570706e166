------------------------- MODULE MCRuntimeRollout -------------------------
(* Two pods at a time: the one being replaced and the one that replaces it.  *)
EXTENDS RuntimeRollout
CONSTANTS p1, p2
TwoSlots == {p1, p2}
===========================================================================
