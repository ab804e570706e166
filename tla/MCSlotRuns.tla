----------------------------- MODULE MCSlotRuns -----------------------------
(* Two or three runs.  Ages are in units of the longest job: a job lasts at  *)
(* most one, two clocks differ by at most one, a prefix is stale from three. *)
EXTENDS SlotRuns, TLC
CONSTANTS r1, r2, r3
TwoRuns == {r1, r2}
ThreeRuns == {r1, r2, r3}
Nobody == {}
OnlyR2 == {r2}
Symmetry == Permutations(Runs)
===========================================================================
