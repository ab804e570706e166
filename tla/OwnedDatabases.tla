-------------------------- MODULE OwnedDatabases --------------------------
(***************************************************************************)
(* What clearing the databases of one run/slot prefix promises, however it *)
(* is done: it takes databases away one at a time, it never creates one,   *)
(* and it may only report the prefix cleared when nothing is left of it.   *)
(* The application of the run may create databases at any moment.          *)
(***************************************************************************)
CONSTANT Names          \* the databases the prefix can have

VARIABLES
    databases,          \* those that exist
    outcome             \* "running", "cleared" or "failed"

Init == databases \in SUBSET Names /\ outcome = "running"

Create(n) == databases' = databases \cup {n} /\ UNCHANGED outcome

Drop(n) == outcome = "running" /\ databases' = databases \ {n} /\ UNCHANGED outcome

ReportCleared == outcome = "running" /\ databases = {} /\ outcome' = "cleared" /\ UNCHANGED databases

\* A failure may still have taken the database that was being dropped.
ReportFailed ==
    /\ outcome = "running"
    /\ outcome' = "failed"
    /\ databases' = databases \/ \E n \in Names : databases' = databases \ {n}

Next == (\E n \in Names : Create(n) \/ Drop(n)) \/ ReportCleared \/ ReportFailed

Spec == Init /\ [][Next]_<<databases, outcome>>
===========================================================================
