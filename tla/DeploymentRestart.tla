------------------------- MODULE DeploymentRestart -------------------------
(***************************************************************************)
(* restartDeployment of the KubeClient (e2e-tests/playwright/utils/        *)
(* kube-client): scale to no replica, wait for the Deployment and its      *)
(* pods, scale to one replica, wait for it.  Unlike runtime-lifecycle.ts   *)
(* its polls look at no generation and at no pod that is being deleted.    *)
(*                                                                         *)
(* It is called for a configuration that has changed since the running pod *)
(* read it.  Every poll has a deadline; errors of single reads are retried *)
(* until then.                                                             *)
(***************************************************************************)
EXTENDS DeploymentCluster

CONSTANT MaxRetries        \* of scaleDeployment

ASSUME RetriesAssumption == MaxRetries \in Nat \ {0}

VARIABLES
    stage,          \* where the restart is
    attempt         \* of the scaling under way

restart == <<stage, attempt>>
restartVars == <<cluster, restart>>

Waiting == {"drained", "terminated", "ready"}
Restarting == {"down", "up"} \cup Waiting

RestartInit ==
    /\ ClusterInit
    /\ stage = "change"
    /\ attempt = 1

\* External: a test changes the configuration that the next pod is to read.
ChangeConfig ==
    /\ stage = "change"
    /\ config' = "changed"
    /\ stage' = "down"
    /\ UNCHANGED <<wanted, controlled, attempt>>

\* scaleDeployment, applied by the API server.
Scale(from, replicas, to) ==
    /\ stage = from
    /\ wanted' = [wanted EXCEPT !.replicas = replicas]
    /\ stage' = to
    /\ attempt' = 1
    /\ UNCHANGED <<config, controlled>>

ScaleToNone == Scale("down", 0, "drained")
ScaleToOne == Scale("up", 1, "ready")

\* Mutant of ScaleRefused: one attempt too many.
ScaleRefusedOnceMore ==
    /\ stage \in {"down", "up"}
    /\ IF attempt <= MaxRetries
       THEN attempt' = attempt + 1 /\ UNCHANGED stage
       ELSE stage' = "failed" /\ UNCHANGED attempt
    /\ UNCHANGED cluster

\* 404, 503 or 429: tried again, but for the last attempt.
ScaleRefused ==
    /\ stage \in {"down", "up"}
    /\ IF attempt < MaxRetries
       THEN attempt' = attempt + 1 /\ UNCHANGED stage
       ELSE stage' = "failed" /\ UNCHANGED attempt
    /\ UNCHANGED cluster

ScaleFails ==
    /\ stage \in {"down", "up"}
    /\ stage' = "failed"
    /\ UNCHANGED <<cluster, attempt>>

\* Mutant of WaitDrained: the pods are not waited for.
WaitDrainedOnly ==
    /\ stage = "drained"
    /\ status.ready = 0
    /\ stage' = "up"
    /\ UNCHANGED <<cluster, attempt>>

\* waitForDeploymentReady(..., 0): availableReplicas, of whatever generation.
WaitDrained ==
    /\ stage = "drained"
    /\ status.ready = 0
    /\ stage' = "terminated"
    /\ UNCHANGED <<cluster, attempt>>

\* waitForPodsTerminated: a pod with a deletionTimestamp is not counted.
WaitTerminated ==
    /\ stage = "terminated"
    /\ Active = {}
    /\ stage' = "up"
    /\ UNCHANGED <<cluster, attempt>>

\* waitForDeploymentReady(..., 1).
WaitReady ==
    /\ stage = "ready"
    /\ status.ready = 1
    /\ stage' = "done"
    /\ UNCHANGED <<cluster, attempt>>

\* Mutant of WaitFails: only a failing pod ends the wait.
PodFails ==
    /\ stage = "ready"
    /\ stage' = "failed"
    /\ UNCHANGED <<cluster, attempt>>

\* A deadline is reached, or a pod is found that fails to start.
WaitFails ==
    /\ stage \in Waiting
    /\ stage' = "failed"
    /\ UNCHANGED <<cluster, attempt>>

RestartStep ==
    \/ ChangeConfig
    \/ ScaleToNone
    \/ ScaleToOne
    \/ ScaleRefused
    \/ ScaleFails
    \/ WaitDrained
    \/ WaitTerminated
    \/ WaitReady
    \/ WaitFails

RestartNext ==
    \/ RestartStep
    \/ Cluster /\ UNCHANGED restart

RestartSpec == RestartInit /\ [][RestartNext]_restartVars

FairRestartSpec == RestartSpec /\ WF_restartVars(RestartStep)

---------------------------------------------------------------------------
RestartTypeOK ==
    /\ ClusterTypeOK
    /\ stage \in Restarting \cup {"change", "done", "failed"}
    /\ attempt \in 1..MaxRetries

\* A restart that completed has replaced the pod: none but terminating pods still run
\* what they read before the change, although a stale status is believed.
OldPodReplaced ==
    stage = "done" => \A s \in Active : pods[s].config = "changed"

\* The restart ends, with retries and deadlines, whatever the cluster does.
RestartEnds == <>(stage \in {"done", "failed"})
===========================================================================
