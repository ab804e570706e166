---------------------------- MODULE PortForward ----------------------------
(***************************************************************************)
(* PortForwardSession (e2e-tests/playwright/utils/port-forward.ts): one    *)
(* object around the process of a kubectl port-forward, called by several  *)
(* asynchronous functions. A caller is suspended at an await while other   *)
(* callers, and the process, go on. call[c] is where caller c stands in    *)
(* the object: "start" and "stop" are calls about to be made, "ready" and  *)
(* "exit" the two awaits, and "idle" a call that returned (then = "ok") or *)
(* threw (then = "failed").                                                *)
(***************************************************************************)
EXTENDS Integers

CONSTANTS
    Kids,               \* the processes that may exist at the same time
    Callers,            \* the asynchronous functions that use the object
    None

ASSUME NoneIsNoKid == None \notin Kids

VARIABLES
    proc,               \* the state of each process
    child,              \* this.child
    output,             \* the process whose announcement is in outputBuffer
    call                \* where each caller stands

forward == <<proc, child, output, call>>

ProcessStates == {"starting", "ready", "dying", "ended"}
Stages == {"idle", "start", "stop", "ready", "exit"}
Continuations == {"none", "ok", "failed", "start"}

Live(k) == proc[k] # "ended"

\* Nobody has told these to end.
Unattended == {k \in Kids : proc[k] \in {"starting", "ready"}}

ForwardInit ==
    /\ proc = [k \in Kids |-> "ended"]
    /\ child = None
    /\ output = None
    /\ call = [c \in Callers |-> [at |-> "idle", kid |-> None, then |-> "none"]]

At(c, stage, kid, then) == call' = [call EXCEPT ![c] = [at |-> stage, kid |-> kid, then |-> then]]

Idle(c) == call[c].at = "idle"
Returned(c) == Idle(c) /\ call[c].then = "ok"
Threw(c) == Idle(c) /\ call[c].then = "failed"

\* assertRunning does not throw.
Running == child # None /\ Live(child)

(***************************************************************************)
(* The three methods, as called.                                           *)
(***************************************************************************)
Start(c) == At(c, "start", None, "none")
Stop(c) == At(c, "stop", None, "ok")
Restart(c) == At(c, "stop", None, "start")

(***************************************************************************)
(* start(): whatever child there is counts as started, be it ready or not. *)
(* A spawn that fails leaves no child.                                     *)
(***************************************************************************)
\* A process nobody refers to any more may stand for a new one.
Fresh == {k \in Kids : ~Live(k) /\ k # output /\ \A c \in Callers : call[c].kid # k}

KeepChild(c) ==
    /\ call[c].at = "start" /\ child # None
    /\ At(c, "idle", None, "ok")
    /\ UNCHANGED <<proc, child, output>>

Spawn(c) ==
    /\ call[c].at = "start" /\ child = None
    /\ \E k \in Fresh :
        /\ proc' = [proc EXCEPT ![k] = "starting"]
        /\ child' = k
        /\ At(c, "ready", k, "none")
    /\ output' = None

\* The error event of a spawn comes a tick later, with this.child set meanwhile. The two
\* are one step here: there is no process a caller in between could lose or keep, only a
\* call of its own that would fail as this one does.
SpawnFails(c) ==
    /\ call[c].at = "start" /\ child = None
    /\ At(c, "idle", None, "failed")
    /\ output' = None
    /\ UNCHANGED <<proc, child>>

\* Not ready in time: the catch clause stops whatever is this.child by now.
ReadyTimeout(c) ==
    /\ call[c].at = "ready"
    /\ At(c, "stop", None, "failed")
    /\ UNCHANGED <<proc, child, output>>

(***************************************************************************)
(* stop(): forget the child, then signal it and await its exit, unless it  *)
(* has exited. restart() goes on with start().                             *)
(***************************************************************************)
Continue(c) ==
    IF call[c].then = "start" THEN At(c, "start", None, "none")
                              ELSE At(c, "idle", None, call[c].then)

NothingToStop(c) ==
    /\ call[c].at = "stop" /\ ~Running
    /\ child' = None
    /\ Continue(c)
    /\ UNCHANGED <<proc, output>>

\* Mutant of Signal: only a process that announced itself is worth a signal.
SignalReady(c) ==
    /\ call[c].at = "stop" /\ Running
    /\ proc' = IF proc[child] = "ready" THEN [proc EXCEPT ![child] = "dying"] ELSE proc
    /\ child' = None
    /\ At(c, "exit", child, call[c].then)
    /\ UNCHANGED output

Signal(c) ==
    /\ call[c].at = "stop" /\ Running
    /\ proc' = [proc EXCEPT ![child] = "dying"]
    /\ child' = None
    /\ At(c, "exit", child, call[c].then)
    /\ UNCHANGED output

Exited(c) ==
    /\ call[c].at = "exit" /\ ~Live(call[c].kid)
    /\ Continue(c)
    /\ UNCHANGED <<proc, child, output>>

CallerStep(c) == \/ KeepChild(c) \/ Spawn(c) \/ SpawnFails(c)
                 \/ NothingToStop(c) \/ Signal(c) \/ Exited(c)

(***************************************************************************)
(* The process (external): it announces that it listens, and it may end at *)
(* any time; SIGKILL sees to it that it does after a stop. Both events     *)
(* settle the start() that awaits them.                                    *)
(***************************************************************************)
AwaitsReady(c, k) == call[c].at = "ready" /\ call[c].kid = k

Announce(k) ==
    /\ proc[k] = "starting"
    /\ proc' = [proc EXCEPT ![k] = "ready"]
    /\ output' = k
    /\ call' = [c \in Callers |->
                  IF AwaitsReady(c, k) THEN [at |-> "idle", kid |-> None, then |-> "ok"] ELSE call[c]]
    /\ UNCHANGED child

End(k) ==
    /\ Live(k)
    /\ proc' = [proc EXCEPT ![k] = "ended"]
    /\ call' = [c \in Callers |->
                  IF AwaitsReady(c, k) THEN [at |-> "stop", kid |-> None, then |-> "failed"] ELSE call[c]]
    /\ UNCHANGED <<child, output>>

(***************************************************************************)
(* Properties of the object, for every way of using it.                    *)
(***************************************************************************)
ForwardTypeOK ==
    /\ proc \in [Kids -> ProcessStates]
    /\ child \in Kids \cup {None}
    /\ output \in Kids \cup {None}
    /\ call \in [Callers -> [at : Stages, kid : Kids \cup {None}, then : Continuations]]
===========================================================================
