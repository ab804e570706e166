---------------------------- MODULE OneVersion ----------------------------
(***************************************************************************)
(* What stopping an application before it is changed is for, however it is *)
(* done: versions never run side by side.  A version is what a pod was     *)
(* made from.  The one that is wanted is replaced only while nothing runs, *)
(* and what starts is of the one that is wanted.                           *)
(***************************************************************************)
VARIABLES
    version,            \* the version that is wanted
    running             \* the versions that run, or are still ending

Init == running = {version}

Start == running' = {version} /\ UNCHANGED version

\* The last pod has ended.
End == running' = {} /\ UNCHANGED version

Replace == running = {} /\ running' = {}

Next == Start \/ End \/ Replace

Spec == Init /\ [][Next]_<<version, running>>
===========================================================================
