-------------------------- MODULE RuntimeRollout --------------------------
(***************************************************************************)
(* Stopping, changing and resuming the deployed application:               *)
(* runtime-lifecycle.ts, and the three jobs of the tests made of it:       *)
(*                                                                         *)
(*   "title"    withAppTitle of runtime-harness.ts: stop, change the       *)
(*              ConfigMap, resume, verify; then stop, restore it, resume   *)
(*   "ca"       verifyRuntimeRejectsUntrustedCa of runtime-tls.ts: the     *)
(*              same with the CA Secret, recovered by a deployment of a    *)
(*              fresh revision                                             *)
(*   "restart"  restartRuntime of runtime-restart.ts: stop, a check of the *)
(*              storage, a deployment of a fresh revision                  *)
(*                                                                         *)
(* The first is done to the deployment that all tests share, the other two *)
(* to one of a fixture; on either any sequence of its jobs is modelled.    *)
(* round is 1 while a job does what it is for and 2 while it recovers; a   *)
(* restart is a recovery from the start.  failed holds the rounds that put *)
(* an error on the list of errors.                                         *)
(***************************************************************************)
EXTENDS DeploymentCluster

VARIABLES
    pc,             \* where the job is
    job,            \* which job it is
    round,          \* 1, or 2 for its recovery
    failed,         \* the rounds that failed
    original        \* the configuration read before the change

client == <<pc, job, round, failed, original>>
vars == <<cluster, client>>

Jobs == {"title", "ca", "restart"}
Stopping == {"stop", "stopping", "listing"}
Running == Stopping \cup {"stopped", "resume", "revision", "rolling", "available", "verify"}

Init ==
    /\ ClusterInit
    /\ pc = "idle"
    /\ job \in {"title", "restart"}
    /\ round = 2
    /\ failed = {}
    /\ original = "own"

\* The next job of the run.  A job that deploys needs a revision that is fresh.
Begin(j) ==
    /\ pc = "idle"
    /\ j = "title" <=> job = "title"
    /\ j # "title" => wanted.revision < MaxRevision
    /\ pc' = "stop"
    /\ job' = j
    /\ round' = IF j = "restart" THEN 2 ELSE 1
    /\ failed' = {}
    /\ original' = config
    /\ UNCHANGED cluster

\* setRuntimeReplicas(..., 0), on the owner of the Deployment.
ScaleDown ==
    /\ pc = "stop"
    /\ wanted' = [wanted EXCEPT !.replicas = 0]
    /\ pc' = "stopping"
    /\ UNCHANGED <<controlled, config, job, round, failed, original>>

\* Mutant of ReadStopped: a status of an earlier generation is believed.
ReadStoppedUnobserved ==
    /\ pc = "stopping"
    /\ spec.replicas = 0
    /\ status.pods = 0
    /\ pc' = "listing"
    /\ UNCHANGED <<cluster, job, round, failed, original>>

\* The poll of stopRuntimeApplication reads the Deployment ...
ReadStopped ==
    /\ pc = "stopping"
    /\ spec.replicas = 0
    /\ fresh
    /\ status.pods = 0
    /\ pc' = "listing"
    /\ UNCHANGED <<cluster, job, round, failed, original>>

\* Mutant of ListPods: pods that are being deleted are taken for gone.
ListActivePods ==
    /\ pc = "listing"
    /\ pc' = IF Active = {} THEN "stopped" ELSE "stopping"
    /\ UNCHANGED <<cluster, job, round, failed, original>>

\* ... and then lists the pods, those that are terminating included.
ListPods ==
    /\ pc = "listing"
    /\ pc' = IF Present = {} THEN "stopped" ELSE "stopping"
    /\ UNCHANGED <<cluster, job, round, failed, original>>

\* updateConfigMapTitle, or setCa with an unrelated CA.
Change ==
    /\ pc = "stopped"
    /\ round = 1
    /\ config' = "changed"
    /\ pc' = "resume"
    /\ UNCHANGED <<wanted, controlled, job, round, failed, original>>

\* What a job leaves: the CA check sets the certificate of its fixture, not one it has
\* read, and only once its first stop, which is not in its try, has succeeded.
Recovered == IF job = "ca" /\ round = 2 THEN "own" ELSE original

\* The recovery of the configuration: the ConfigMap as it was read before the change, or
\* setCa with the certificate of the fixture, which a deployment then leaves alone.
Restore ==
    /\ pc = "stopped"
    /\ round = 2
    /\ job # "restart"
    /\ config' = Recovered
    /\ pc' = "resume"
    /\ UNCHANGED <<wanted, controlled, job, round, failed, original>>

\* whileStopped: whatever it finds, the application is deployed again.
CheckStorage ==
    /\ pc = "stopped"
    /\ job = "restart"
    /\ failed' \in {failed, failed \cup {1}}
    /\ pc' = "resume"
    /\ UNCHANGED <<cluster, job, round, original>>

\* resumeRuntimeApplication, or the scaling up of the CA check that waits for no rollout.
Resume ==
    /\ pc = "resume"
    /\ job = "title" \/ round = 1
    /\ wanted' = [wanted EXCEPT !.replicas = 1]
    /\ pc' = IF job = "title" THEN "rolling" ELSE "verify"
    /\ UNCHANGED <<controlled, config, job, round, failed, original>>

\* Mutant of Redeploy: the CA check deploys where it has to scale up only.
RedeployInEitherRound ==
    /\ pc = "resume"
    /\ job # "title"
    /\ wanted' = [wanted EXCEPT !.replicas = 1]
    /\ pc' = "revision"
    /\ UNCHANGED <<controlled, config, job, round, failed, original>>

\* deployRuntime with a fresh revision.
Redeploy ==
    /\ pc = "resume"
    /\ job # "title" /\ round = 2
    /\ wanted' = [replicas |-> 1, revision |-> wanted.revision + 1]
    /\ pc' = "revision"
    /\ UNCHANGED <<controlled, config, job, round, failed, original>>

\* waitForRuntimeRevision: reconciliation of this target, not of its previous revision.
ReadRevision ==
    /\ pc = "revision"
    /\ spec.revision = wanted.revision
    /\ pc' = "rolling"
    /\ UNCHANGED <<cluster, job, round, failed, original>>

RolledOut ==
    /\ pc = "rolling"
    /\ spec.replicas = 1
    /\ fresh
    /\ status = [pods |-> 1, updated |-> 1, ready |-> 1]

\* waitForRuntimeRollout; a deployment then waits for waitForDeploymentReady too.
ReadRollout ==
    /\ RolledOut
    /\ pc' = CASE round = 1 -> "verify"
               [] round = 2 /\ job = "title" -> "end"
               [] OTHER -> "available"
    /\ UNCHANGED <<cluster, job, round, failed, original>>

ReadAvailable ==
    /\ pc = "available"
    /\ status.ready = 1
    /\ pc' = "end"
    /\ UNCHANGED <<cluster, job, round, failed, original>>

\* The assertion of the test, or the search for a certificate error in the pods' logs.
Verify ==
    /\ pc = "verify"
    /\ failed' \in {failed, failed \cup {1}}
    /\ round' = 2
    /\ pc' = "stop"
    /\ UNCHANGED <<cluster, job, original>>

\* A request fails or a poll reaches its deadline: the job goes on with its recovery.
FailIntoRecovery ==
    /\ pc \in Running
    /\ round = 1
    /\ ~(job = "ca" /\ pc \in Stopping)
    /\ failed' = failed \cup {1}
    /\ round' = 2
    /\ pc' = "stop"
    /\ UNCHANGED <<cluster, job, original>>

\* Mutant of FailForGood: the error of the recovery is dropped.
FailSilently ==
    /\ pc \in Running
    /\ round = 2 \/ (job = "ca" /\ pc \in Stopping)
    /\ pc' = "end"
    /\ UNCHANGED <<cluster, job, round, failed, original>>

\* Mutant of FailForGood: polls that wait for a stop have no deadline.
FailUnlessStopping ==
    /\ pc \in Running \ Stopping
    /\ round = 2
    /\ pc' = "end"
    /\ failed' = failed \cup {round}
    /\ UNCHANGED <<cluster, job, round, original>>

\* The recovery itself fails, or the first stop of the CA check, which is not in its try.
FailForGood ==
    /\ pc \in Running
    /\ round = 2 \/ (job = "ca" /\ pc \in Stopping)
    /\ pc' = "end"
    /\ failed' = failed \cup {round}
    /\ UNCHANGED <<cluster, job, round, original>>

\* The job throws what failed, if anything did.
Return ==
    /\ pc = "end"
    /\ pc' = "idle"
    /\ UNCHANGED <<cluster, job, round, failed, original>>

Step ==
    \/ ScaleDown
    \/ ReadStopped
    \/ ListPods
    \/ Change
    \/ Restore
    \/ CheckStorage
    \/ Resume
    \/ Redeploy
    \/ ReadRevision
    \/ ReadRollout
    \/ ReadAvailable
    \/ Verify
    \/ FailIntoRecovery
    \/ FailForGood
    \/ Return

Next ==
    \/ Step
    \/ \E j \in Jobs : Begin(j)
    \/ Cluster /\ UNCHANGED client

Spec == Init /\ [][Next]_vars

\* Every poll ends at its deadline, whatever the cluster does.
FairSpec == Spec /\ WF_vars(Step) /\ WF_vars(FailIntoRecovery \/ FailForGood)

---------------------------------------------------------------------------
TypeOK ==
    /\ ClusterTypeOK
    /\ pc \in Running \cup {"idle", "end"}
    /\ job \in Jobs
    /\ round \in {1, 2}
    /\ failed \subseteq {1, 2}
    /\ original \in Configs
    /\ pc \in {"revision", "available"} => round = 2
    /\ pc \in Running /\ job = "restart" => round = 2

\* Configuration and storage are touched with no pod left, and no pod of the stopped
\* application is created until the resume, although the Deployment's status, the replica
\* sets' reports and the pods are seen at different times.
NoWriterWhileStopped == pc \in {"stopped", "resume"} => Present = {}

\* A finished rollout is one of what was asked for: no pod of an earlier revision or of an
\* earlier configuration is left, not even one that is terminating, and there is a pod.
RolloutIsCurrent ==
    pc \in {"available", "end"} /\ round \notin failed =>
        /\ Active # {}
        /\ \A s \in Present : pods[s].revision = wanted.revision /\ pods[s].config = config

\* "Restore the original configuration and restart even when the behavioral assertion
\* fails": whatever failed before, a recovery that reports no error has put back the
\* configuration that was there, or the fixture's certificate even where an earlier check
\* of the CA failed to.
Restored == pc = "end" /\ 2 \notin failed => config = Recovered

\* The jobs keep the promise of OneVersion: pods of two revisions or of two configurations
\* never exist side by side, and neither is changed under a pod that is still ending.
version == <<wanted.revision, config>>
running == {<<pods[s].revision, pods[s].config>> : s \in Present}

Promise == INSTANCE OneVersion WITH version <- version, running <- running

KeepsOneVersion == Promise!Spec

\* A job ends, even if the cluster never does what it is asked.
JobsEnd == (pc # "idle") ~> (pc = "idle")
===========================================================================
