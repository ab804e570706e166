------------------------- MODULE MCGroupOwnership -------------------------
(* Model values for GroupOwnership.                                        *)
EXTENDS GroupOwnership

CONSTANTS g1, g2, user, other, none

TwoGroups == {g1, g2}
TwoRefs == TwoGroups \cup {other}
===========================================================================
