------------------------- MODULE DeploymentCluster -------------------------
(***************************************************************************)
(* External: what the helpers of e2e-tests rely on in the cluster.  One    *)
(* Deployment of one replica and its pods, seen through four actors that   *)
(* work on their own time: the RHDH operator, which copies the replicas    *)
(* and the revision its custom resource asks for; the deployment           *)
(* controller, which reads the specification, sizes the replica set of     *)
(* every revision and writes a status made of what those sets last         *)
(* reported; the replica sets, which create and delete pods and report     *)
(* later; and the kubelet, which starts pods, and takes its time to end    *)
(* those that are deleted.                                                 *)
(*                                                                         *)
(* So a status may be that of an older specification, and counts neither   *)
(* pods that are still terminating nor those not yet reported.             *)
(***************************************************************************)
EXTENDS Integers, FiniteSets

CONSTANTS
    Slots,          \* bound: the pods that can exist at a time
    MaxRevision     \* bound: revisions of the pod template

ASSUME SlotsAssumption == IsFiniteSet(Slots)
ASSUME RevisionAssumption == MaxRevision \in Nat \ {0}

VARIABLES
    wanted,         \* what the owner of the Deployment asks for
    spec,           \* the specification of the Deployment
    fresh,          \* observedGeneration >= generation
    status,         \* the status of the Deployment
    sizes,          \* the replicas asked of each revision's replica set
    reports,        \* what each replica set last reported
    pods,           \* the pods, by slot
    config          \* the ConfigMap or Secret that a pod reads when it starts

controlled == <<spec, fresh, status, sizes, reports, pods>>
cluster == <<wanted, config, controlled>>

---------------------------------------------------------------------------
Revisions == 1..MaxRevision
Asked == [replicas : 0..1, revision : Revisions]
Configs == {"own", "changed"}

NoPod == [state |-> "none", revision |-> 1, config |-> "own"]
Pods == [state : {"none", "starting", "ready", "terminating"}, revision : Revisions, config : Configs]

Present == {s \in Slots : pods[s].state # "none"}
Active == {s \in Present : pods[s].state # "terminating"}
Of(r) == {s \in Active : pods[s].revision = r}
ReadyOf(r) == {s \in Of(r) : pods[s].state = "ready"}

Report(r) == [pods |-> Cardinality(Of(r)), ready |-> Cardinality(ReadyOf(r))]

\* The sum of what the replica sets count: the units of all of them, told apart by their
\* set.  A set counts no more than there are slots.
Total(counts) ==
    Cardinality({u \in Revisions \X (1..Cardinality(Slots)) : u[2] <= counts[u[1]]})

\* The replicas, updatedReplicas and readyReplicas of the reports, for revision r.
StatusFor(r) ==
    [pods |-> Total([q \in Revisions |-> reports[q].pods]),
     updated |-> reports[r].pods,
     ready |-> Total([q \in Revisions |-> reports[q].ready])]

\* The application was deployed and serves its own configuration.
ClusterInit ==
    \E s \in Slots :
        /\ pods = [t \in Slots |-> IF t = s THEN [NoPod EXCEPT !.state = "ready"] ELSE NoPod]
        /\ wanted = [replicas |-> 1, revision |-> 1]
        /\ spec = wanted
        /\ fresh = TRUE
        /\ status = [pods |-> 1, updated |-> 1, ready |-> 1]
        /\ sizes = [r \in Revisions |-> IF r = 1 THEN 1 ELSE 0]
        /\ reports = [r \in Revisions |-> [pods |-> sizes[r], ready |-> sizes[r]]]
        /\ config = "own"

\* The owner writes the Deployment.  Without an operator it does so at once.
Reconcile ==
    /\ spec # wanted
    /\ spec' = wanted
    /\ fresh' = FALSE
    /\ UNCHANGED <<wanted, config, status, sizes, reports, pods>>

\* A sync of the deployment controller: the set of the revision gets its size, and the
\* sets of older revisions keep theirs until it is ready.
Sync ==
    /\ fresh' = TRUE
    /\ sizes' = [r \in Revisions |->
                   IF r = spec.revision \/ spec.replicas = 0 THEN spec.replicas
                   ELSE IF reports[spec.revision].ready > 0 THEN 0 ELSE sizes[r]]
    /\ status' = StatusFor(spec.revision)
    /\ UNCHANGED <<wanted, config, spec, reports, pods>>

CreatePod(s, r) ==
    /\ s \notin Present
    /\ Cardinality(Of(r)) < sizes[r]
    /\ pods' = [pods EXCEPT ![s] = [state |-> "starting", revision |-> r, config |-> config]]
    /\ UNCHANGED <<wanted, config, spec, fresh, status, sizes, reports>>

DeletePod(s) ==
    /\ s \in Active
    /\ Cardinality(Of(pods[s].revision)) > sizes[pods[s].revision]
    /\ pods' = [pods EXCEPT ![s].state = "terminating"]
    /\ UNCHANGED <<wanted, config, spec, fresh, status, sizes, reports>>

ReportSet(r) ==
    /\ reports' = [reports EXCEPT ![r] = Report(r)]
    /\ UNCHANGED <<wanted, config, spec, fresh, status, sizes, pods>>

PodReady(s) ==
    /\ pods[s].state = "starting"
    /\ pods' = [pods EXCEPT ![s].state = "ready"]
    /\ UNCHANGED <<wanted, config, spec, fresh, status, sizes, reports>>

\* A container that ends is started again and reads its configuration again.
ContainerRestarts(s) ==
    /\ s \in Active
    /\ pods' = [pods EXCEPT ![s].state = "starting", ![s].config = config]
    /\ UNCHANGED <<wanted, config, spec, fresh, status, sizes, reports>>

\* Assumed: a replica set reports a deletion sooner than the deleted pod has ended.
PodEnds(s) ==
    /\ pods[s].state = "terminating"
    /\ LET r == pods[s].revision IN reports[r] = Report(r)
    /\ pods' = [pods EXCEPT ![s] = NoPod]
    /\ UNCHANGED <<wanted, config, spec, fresh, status, sizes, reports>>

Cluster ==
    \/ Reconcile
    \/ Sync
    \/ \E r \in Revisions : ReportSet(r) \/ \E s \in Slots : CreatePod(s, r)
    \/ \E s \in Slots : DeletePod(s) \/ PodReady(s) \/ ContainerRestarts(s) \/ PodEnds(s)

ClusterTypeOK ==
    /\ wanted \in Asked
    /\ spec \in Asked
    /\ fresh \in BOOLEAN
    /\ status \in [pods : Nat, updated : Nat, ready : Nat]
    /\ sizes \in [Revisions -> 0..1]
    /\ reports \in [Revisions -> [pods : Nat, ready : Nat]]
    /\ pods \in [Slots -> Pods]
    /\ config \in Configs
===========================================================================
