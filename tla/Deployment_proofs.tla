------------------------- MODULE Deployment_proofs -------------------------
(***************************************************************************)
(* Proofs about the two ways in which the tests stop and start a           *)
(* Deployment, RuntimeRollout and DeploymentRestart, for any number of     *)
(* pods and revisions and any interleaving with the operator, the          *)
(* controllers and the kubelet of DeploymentCluster.                       *)
(*                                                                         *)
(* RuntimeRollout: what is changed while the application is stopped is     *)
(* changed with no pod there.  The empty pod list alone is not inductive:  *)
(* a replica set may be about to create a pod.  What makes it last is that *)
(* the stop has seen the controller observe a specification of no          *)
(* replicas, so that every replica set has size 0, and that the owner asks *)
(* for none meanwhile.  From there on all pods are of the revision and the *)
(* configuration that are wanted, at any time.                             *)
(***************************************************************************)
EXTENDS RuntimeRollout, DeploymentRestart, FiniteSetTheorems, TLAPS

---------------------------------------------------------------------------
\* The cluster.  What replica sets count is finite, and nothing counts as zero.
LEMMA Counts ==
    ASSUME NEW r
    PROVE  /\ IsFiniteSet(Of(r)) /\ IsFiniteSet(ReadyOf(r))
           /\ Report(r) \in [pods : Nat, ready : Nat]
           /\ Cardinality(Of(r)) = 0 <=> Of(r) = {}
<1>1. IsFiniteSet(Of(r)) /\ IsFiniteSet(ReadyOf(r))
  BY SlotsAssumption, FS_Subset DEF Of, ReadyOf, Active, Present
<1>2. Cardinality(Of(r)) \in Nat /\ Cardinality(ReadyOf(r)) \in Nat
  BY <1>1, FS_CardinalityType
<1> QED
  BY <1>1, <1>2, FS_EmptySet DEF Report

\* The sum of the reports is a number, and zero if every report is.
LEMMA TotalType == ASSUME NEW counts PROVE Total(counts) \in Nat
<1>1. IsFiniteSet(Revisions) /\ IsFiniteSet(1..Cardinality(Slots))
  BY SlotsAssumption, RevisionAssumption, FS_CardinalityType, FS_Interval DEF Revisions
<1>2. IsFiniteSet(Revisions \X (1..Cardinality(Slots)))
  BY <1>1, FS_Product
<1>3. IsFiniteSet({u \in Revisions \X (1..Cardinality(Slots)) : u[2] <= counts[u[1]]})
  BY <1>2, FS_Subset
<1> QED
  BY <1>3, FS_CardinalityType DEF Total

LEMMA TotalOfNone ==
    ASSUME NEW counts, \A q \in Revisions : counts[q] = 0
    PROVE  Total(counts) = 0
<1>1. Cardinality(Slots) \in Nat
  BY SlotsAssumption, FS_CardinalityType
<1>2. {u \in Revisions \X (1..Cardinality(Slots)) : u[2] <= counts[u[1]]} = {}
  BY <1>1
<1> QED
  BY <1>2, FS_EmptySet DEF Total

\* The cluster keeps the types.
LEMMA ClusterTypes == ASSUME ClusterTypeOK, Cluster PROVE ClusterTypeOK'
<1> USE DEF ClusterTypeOK
<1>1. CASE Reconcile
  BY <1>1 DEF Reconcile
<1>2. CASE Sync
  <2>1. spec.revision \in Revisions /\ spec.replicas \in 0..1
    BY DEF Asked
  <2>2. status' \in [pods : Nat, updated : Nat, ready : Nat]
    BY <1>2, <2>1, TotalType DEF Sync, StatusFor
  <2>3. sizes' \in [Revisions -> 0..1]
    BY <1>2, <2>1 DEF Sync
  <2> QED
    BY <1>2, <2>2, <2>3 DEF Sync
<1>3. ASSUME NEW r \in Revisions, ReportSet(r) PROVE ClusterTypeOK'
  BY <1>3, Counts DEF ReportSet
<1>4. ASSUME NEW r \in Revisions, NEW s \in Slots, CreatePod(s, r) PROVE ClusterTypeOK'
  BY <1>4 DEF CreatePod, Pods
<1>5. ASSUME NEW s \in Slots, DeletePod(s) \/ PodReady(s) \/ ContainerRestarts(s)
      PROVE ClusterTypeOK'
  BY <1>5 DEF DeletePod, PodReady, ContainerRestarts, Pods
<1>6. ASSUME NEW s \in Slots, PodEnds(s) PROVE ClusterTypeOK'
  BY <1>6, RevisionAssumption DEF PodEnds, Pods, NoPod, Configs, Revisions
<1> QED
  BY <1>1, <1>2, <1>3, <1>4, <1>5, <1>6 DEF Cluster

LEMMA ClusterInitTypes == ClusterInit => ClusterTypeOK
<1> SUFFICES ASSUME ClusterInit PROVE ClusterTypeOK
  OBVIOUS
<1>1. 1 \in Revisions
  BY RevisionAssumption DEF Revisions
<1>2. pods \in [Slots -> Pods]
  BY <1>1 DEF ClusterInit, Pods, NoPod, Configs
<1>3. wanted \in Asked /\ spec \in Asked /\ fresh \in BOOLEAN /\ config \in Configs
  BY <1>1 DEF ClusterInit, Asked, Configs
<1>4. sizes \in [Revisions -> 0..1] /\ status \in [pods : Nat, updated : Nat, ready : Nat]
  BY DEF ClusterInit
<1>5. reports \in [Revisions -> [pods : Nat, ready : Nat]]
  BY <1>4 DEF ClusterInit
<1> QED
  BY <1>2, <1>3, <1>4, <1>5 DEF ClusterTypeOK

---------------------------------------------------------------------------
(***************************************************************************)
(* RuntimeRollout.                                                         *)
(***************************************************************************)
\* Sizes are numbers, and an observed specification of no replicas leaves no size.
SizesInv ==
    /\ wanted.replicas \in 0..1
    /\ spec.replicas \in 0..1
    /\ sizes \in [Revisions -> 0..1]
    /\ fresh /\ spec.replicas = 0 => \A r \in Revisions : sizes[r] = 0

\* From the poll that saw the Deployment stopped to the resume, nothing can ask for a pod.
Held == {"listing", "stopped", "resume"}

StoppedInv ==
    /\ pc \in {"stopping"} \cup Held => wanted.replicas = 0
    /\ pc \in Held => spec.replicas = 0 /\ \A r \in Revisions : sizes[r] = 0
    /\ pc \in {"stopped", "resume"} => Present = {}

Inv == SizesInv /\ StoppedInv

---------------------------------------------------------------------------
LEMMA InitInv == Init => Inv
<1> SUFFICES ASSUME Init PROVE Inv
  OBVIOUS
<1>1. /\ wanted = [replicas |-> 1, revision |-> 1] /\ spec = wanted
      /\ sizes = [r \in Revisions |-> IF r = 1 THEN 1 ELSE 0]
  BY DEF Init, ClusterInit
<1> QED
  BY <1>1 DEF Init, Inv, SizesInv, StoppedInv, Held

\* No pod is created for a replica set of size 0.
LEMMA NoCreation ==
    ASSUME NEW s \in Slots, NEW r \in Revisions, sizes[r] = 0, CreatePod(s, r)
    PROVE  FALSE
<1>1. Cardinality(Of(r)) \in Nat
  BY Counts DEF Report
<1> QED
  BY <1>1 DEF CreatePod

\* The cluster keeps the invariant.
LEMMA ClusterInv == Inv /\ Cluster /\ UNCHANGED client => Inv'
<1> SUFFICES ASSUME Inv, Cluster, UNCHANGED client PROVE Inv'
  OBVIOUS
<1> USE DEF Inv, SizesInv, StoppedInv, Held, client
<1>1. CASE Reconcile
  BY <1>1 DEF Reconcile, Present
<1>2. CASE Sync
  <2>1. sizes' \in [Revisions -> 0..1]
    BY <1>2 DEF Sync
  <2>2. spec.replicas = 0 => \A r \in Revisions : sizes'[r] = 0
    BY <1>2 DEF Sync
  <2> QED
    BY <1>2, <2>1, <2>2 DEF Sync, Present
<1>3. ASSUME NEW r \in Revisions, ReportSet(r) PROVE Inv'
  BY <1>3 DEF ReportSet, Present
<1>4. ASSUME NEW r \in Revisions, NEW s \in Slots, CreatePod(s, r) PROVE Inv'
  <2>1. pc \notin Held
    BY <1>4, NoCreation
  <2> QED
    BY <1>4, <2>1 DEF CreatePod
<1>5. ASSUME NEW s \in Slots, DeletePod(s) \/ PodReady(s) \/ ContainerRestarts(s) \/ PodEnds(s)
      PROVE Inv'
  <2>1. s \in Present
    BY <1>5 DEF DeletePod, PodReady, ContainerRestarts, PodEnds, Active, Present
  <2>2. UNCHANGED <<wanted, spec, fresh, sizes>>
    BY <1>5 DEF DeletePod, PodReady, ContainerRestarts, PodEnds
  <2>3. pc \notin {"stopped", "resume"}
    BY <2>1
  <2> QED
    BY <2>2, <2>3
<1> QED
  BY <1>1, <1>2, <1>3, <1>4, <1>5 DEF Cluster

\* So do the jobs.
LEMMA JobInv == Inv /\ (Step \/ \E j \in Jobs : Begin(j)) => Inv'
<1> SUFFICES ASSUME Inv, Step \/ \E j \in Jobs : Begin(j) PROVE Inv'
  OBVIOUS
<1> USE DEF Inv, SizesInv, StoppedInv, Held, cluster, controlled, Present
<1>1. ASSUME NEW j \in Jobs, Begin(j) PROVE Inv'
  BY <1>1 DEF Begin
<1>2. CASE ScaleDown
  BY <1>2 DEF ScaleDown
<1>3. CASE ReadStopped
  BY <1>3 DEF ReadStopped
<1>4. CASE ListPods
  BY <1>4 DEF ListPods
<1>5. CASE Change \/ Restore \/ CheckStorage
  BY <1>5 DEF Change, Restore, CheckStorage
<1>6. CASE Resume
  BY <1>6 DEF Resume
<1>7. CASE Redeploy
  BY <1>7 DEF Redeploy
<1>8. CASE ReadRevision \/ ReadRollout \/ ReadAvailable
  BY <1>8 DEF ReadRevision, ReadRollout, RolledOut, ReadAvailable
<1>9. CASE Verify \/ FailIntoRecovery \/ FailForGood \/ Return
  BY <1>9 DEF Verify, FailIntoRecovery, FailForGood, Return
<1> QED
  BY <1>1, <1>2, <1>3, <1>4, <1>5, <1>6, <1>7, <1>8, <1>9 DEF Step

LEMMA InvStep == Inv /\ [Next]_vars => Inv'
<1> SUFFICES ASSUME Inv, [Next]_vars PROVE Inv'
  OBVIOUS
<1>1. CASE UNCHANGED vars
  BY <1>1 DEF Inv, SizesInv, StoppedInv, Held, vars, client, cluster, controlled, Present
<1> QED
  BY <1>1, ClusterInv, JobInv DEF Next

\* Configuration and storage are touched with no pod left, and none appears before the
\* resume.
THEOREM StoppedMeansNoWriter == Spec => []NoWriterWhileStopped
<1>1. Inv => NoWriterWhileStopped
  BY DEF Inv, StoppedInv, NoWriterWhileStopped
<1> QED
  BY InitInv, InvStep, <1>1, PTL DEF Spec

---------------------------------------------------------------------------
\* Until its change a job has the configuration it read, and once a recovery has come
\* past the restoring, the one to be left; a restart never changes it.
RestoringInv ==
    /\ round = 1 /\ pc \in Stopping \cup {"stopped"} => config = original
    /\ round \in {1, 2}
    /\ pc \in {"revision", "available"} => round = 2
    /\ pc = "verify" => round = 1
    /\ pc \in Running /\ job = "restart" => round = 2 /\ config = original
    /\ pc \in {"resume", "revision", "rolling", "available"} /\ round = 2 => config = Recovered
    /\ pc = "end" /\ 2 \notin failed => config = Recovered

LEMMA RestoringStep == RestoringInv /\ [Next]_vars => RestoringInv'
<1> SUFFICES ASSUME RestoringInv, [Next]_vars PROVE RestoringInv'
  OBVIOUS
<1> USE DEF RestoringInv, Recovered, Running, Stopping, cluster, controlled, client
<1>1. ASSUME NEW j \in Jobs, Begin(j) PROVE RestoringInv'
  BY <1>1 DEF Begin
<1>2. CASE ScaleDown \/ ReadStopped
  BY <1>2 DEF ScaleDown, ReadStopped
<1>3. CASE ListPods
  BY <1>3 DEF ListPods
<1>4. CASE Change
  BY <1>4 DEF Change
<1>5. CASE Restore
  BY <1>5 DEF Restore
<1>6. CASE CheckStorage
  BY <1>6 DEF CheckStorage
<1>7. CASE Resume
  BY <1>7 DEF Resume
<1>8. CASE Redeploy \/ ReadRevision
  BY <1>8 DEF Redeploy, ReadRevision
<1>9. CASE ReadRollout
  BY <1>9 DEF ReadRollout, RolledOut
<1>10. CASE ReadAvailable \/ Return
  BY <1>10 DEF ReadAvailable, Return
<1>11. CASE Verify
  BY <1>11 DEF Verify
<1>12. CASE FailIntoRecovery
  BY <1>12 DEF FailIntoRecovery
<1>13. CASE FailForGood
  BY <1>13 DEF FailForGood
<1>14. CASE Cluster /\ UNCHANGED client
  <2>1. UNCHANGED config
    BY <1>14 DEF Cluster, Reconcile, Sync, ReportSet, CreatePod, DeletePod, PodReady,
       ContainerRestarts, PodEnds
  <2> QED
    BY <1>14, <2>1
<1>15. CASE UNCHANGED vars
  BY <1>15 DEF vars
<1> QED
  BY <1>1, <1>2, <1>3, <1>4, <1>5, <1>6, <1>7, <1>8, <1>9, <1>10, <1>11, <1>12, <1>13,
     <1>14, <1>15 DEF Next, Step

\* A recovery that reports no error has put back the configuration that was there before
\* the job, whatever failed before it and wherever.
THEOREM RecoveryRestores == Spec => []Restored
<1>1. Init => RestoringInv
  BY DEF Init, ClusterInit, RestoringInv, Running, Stopping
<1>2. RestoringInv => Restored
  BY DEF RestoringInv, Restored
<1> QED
  BY <1>1, <1>2, RestoringStep, PTL DEF Spec
---------------------------------------------------------------------------
\* A job that is to deploy a fresh revision still has one, and only then reads revisions.
DeployingInv ==
    /\ job # "title" /\ pc \in Stopping \cup {"stopped", "resume", "verify"} =>
          wanted.revision < MaxRevision
    /\ job # "title" /\ pc = "rolling" => round = 2

TypeInv == TypeOK /\ DeployingInv

LEMMA JobTypes == TypeInv /\ (Step \/ \E j \in Jobs : Begin(j)) => TypeInv'
<1> SUFFICES ASSUME TypeInv, Step \/ \E j \in Jobs : Begin(j) PROVE TypeInv'
  OBVIOUS
<1> USE DEF TypeInv, TypeOK, DeployingInv, ClusterTypeOK, Running, Stopping, Jobs, cluster, controlled
<1>1. ASSUME NEW j \in Jobs, Begin(j) PROVE TypeInv'
  BY <1>1 DEF Begin
<1>2. CASE ScaleDown
  <2>1. wanted' \in Asked /\ wanted'.revision = wanted.revision
    BY <1>2 DEF ScaleDown, Asked
  <2> QED
    BY <1>2, <2>1 DEF ScaleDown
<1>3. CASE ReadStopped \/ ListPods
  BY <1>3 DEF ReadStopped, ListPods
<1>4. CASE Change \/ Restore
  BY <1>4 DEF Change, Restore, Recovered, Configs
<1>5. CASE CheckStorage
  BY <1>5 DEF CheckStorage
<1>6. CASE Resume
  <2>1. wanted' \in Asked /\ wanted'.revision = wanted.revision
    BY <1>6 DEF Resume, Asked
  <2> QED
    BY <1>6, <2>1 DEF Resume
<1>7. CASE Redeploy
  <2>1. wanted.revision < MaxRevision /\ wanted.revision \in 1..MaxRevision
    BY <1>7 DEF Redeploy, Asked, Revisions
  <2>2. wanted' \in Asked
    BY <1>7, <2>1, RevisionAssumption DEF Redeploy, Asked, Revisions
  <2> QED
    BY <1>7, <2>2 DEF Redeploy
<1>8. CASE ReadRevision \/ ReadAvailable \/ Return
  BY <1>8 DEF ReadRevision, ReadAvailable, Return
<1>9. CASE ReadRollout
  BY <1>9 DEF ReadRollout, RolledOut
<1>10. CASE Verify
  BY <1>10 DEF Verify
<1>11. CASE FailIntoRecovery
  <2>1. job # "title" => wanted.revision < MaxRevision
    BY <1>11 DEF FailIntoRecovery
  <2> QED
    BY <1>11, <2>1 DEF FailIntoRecovery
<1>12. CASE FailForGood
  BY <1>12 DEF FailForGood
<1> QED
  BY <1>1, <1>2, <1>3, <1>4, <1>5, <1>6, <1>7, <1>8, <1>9, <1>10, <1>11, <1>12 DEF Step

LEMMA TypeStep == TypeInv /\ [Next]_vars => TypeInv'
<1> SUFFICES ASSUME TypeInv, [Next]_vars PROVE TypeInv'
  OBVIOUS
<1>1. CASE Cluster /\ UNCHANGED client
  <2>1. ClusterTypeOK'
    BY <1>1, ClusterTypes DEF TypeInv, TypeOK
  <2>2. UNCHANGED wanted
    BY <1>1 DEF Cluster, Reconcile, Sync, ReportSet, CreatePod, DeletePod, PodReady,
       ContainerRestarts, PodEnds
  <2> QED
    BY <1>1, <2>1, <2>2 DEF client, TypeInv, TypeOK, DeployingInv
<1>2. CASE UNCHANGED vars
  BY <1>2 DEF vars, cluster, controlled, client, TypeInv, TypeOK, DeployingInv, ClusterTypeOK
<1> QED
  BY <1>1, <1>2, JobTypes DEF Next

\* The variables have their types, and no job deploys a revision beyond the last.
THEOREM RolloutTypes == Spec => []TypeOK
<1>1. Init => TypeInv
  BY ClusterInitTypes DEF Init, TypeInv, TypeOK, DeployingInv, Running, Stopping, Jobs, Configs
<1>2. TypeInv => TypeOK
  BY DEF TypeInv
<1> QED
  BY <1>1, <1>2, TypeStep, PTL DEF Spec
---------------------------------------------------------------------------
\* The pods there are have the revision and the configuration that are wanted now, and
\* no other revision can get a pod: both change only while the application is stopped.
PodsAreCurrent ==
    \A s \in Present : pods[s].revision = wanted.revision /\ pods[s].config = config

CurrentInv ==
    /\ PodsAreCurrent
    /\ \A r \in Revisions \ {wanted.revision} : sizes[r] = 0
    /\ spec.replicas = 1 => spec.revision = wanted.revision

\* A replica set that counts pods has one: it reports a deletion before the pod has ended.
ReportsInv ==
    \A q \in Revisions : reports[q].pods # 0 => \E s \in Present : pods[s].revision = q

\* While one replica is wanted no pod is deleted: there is at most one, made for a replica
\* set of the specification that is wanted, and an observed status that counts it is right.
ServingInv ==
    wanted.replicas = 1 =>
        /\ Present = Active
        /\ \A s, t \in Present : s = t
        /\ Present # {} => sizes[wanted.revision] = 1
        /\ sizes[wanted.revision] = 1 => spec = wanted
        /\ fresh /\ spec.replicas = 1 /\ status.pods # 0 => Present # {}

FinishingInv ==
    /\ pc \in {"revision", "rolling", "available"} => wanted.replicas = 1
    /\ pc \in {"available", "end"} /\ round \notin failed => wanted.replicas = 1 /\ Present # {}

RolloutInv == CurrentInv /\ ReportsInv /\ ServingInv /\ FinishingInv

LEMMA ReportsStep == ASSUME ClusterTypeOK, ReportsInv, Cluster PROVE ReportsInv'
<1> USE DEF ClusterTypeOK, ReportsInv, Present, Pods
<1>1. CASE Reconcile \/ Sync
  BY <1>1 DEF Reconcile, Sync
<1>2. ASSUME NEW r \in Revisions, ReportSet(r) PROVE ReportsInv'
  <2>1. Report(r).pods # 0 => Of(r) # {}
    BY Counts DEF Report
  <2>2. Of(r) # {} => \E s \in Present : pods[s].revision = r
    BY DEF Of, Active
  <2> QED
    BY <1>2, <2>1, <2>2, Counts DEF ReportSet
<1>3. ASSUME NEW r \in Revisions, NEW s \in Slots, CreatePod(s, r) PROVE ReportsInv'
  BY <1>3 DEF CreatePod
<1>4. ASSUME NEW s \in Slots, DeletePod(s) \/ PodReady(s) \/ ContainerRestarts(s)
      PROVE ReportsInv'
  BY <1>4 DEF DeletePod, PodReady, ContainerRestarts, Active
<1>5. ASSUME NEW s \in Slots, PodEnds(s) PROVE ReportsInv'
  <2> DEFINE r == pods[s].revision
  <2>1. reports[r].pods # 0 => \E t \in Of(r) : t # s
    <3>1. reports[r].pods # 0 => Of(r) # {}
      BY <1>5, Counts DEF PodEnds, Report
    <3>2. s \notin Of(r)
      BY <1>5 DEF PodEnds, Of, Active
    <3> QED
      BY <3>1, <3>2
  <2>2. \A t \in Slots \ {s} : pods'[t] = pods[t]
    BY <1>5 DEF PodEnds
  <2>3. reports[r].pods # 0 => \E t \in Present' : pods'[t].revision = r
    BY <2>1, <2>2 DEF Of, Active
  <2>4. \A q \in Revisions \ {r} : reports[q].pods # 0 => \E t \in Present' : pods'[t].revision = q
    BY <2>2
  <2>5. UNCHANGED reports
    BY <1>5 DEF PodEnds
  <2> QED
    BY <2>3, <2>4, <2>5
<1> QED
  BY <1>1, <1>2, <1>3, <1>4, <1>5 DEF Cluster

LEMMA CurrentStep == ASSUME ClusterTypeOK, CurrentInv, Cluster PROVE CurrentInv'
<1> USE DEF ClusterTypeOK, CurrentInv, PodsAreCurrent, Present, Asked
<1>1. CASE Reconcile
  BY <1>1 DEF Reconcile
<1>2. CASE Sync
  <2>1. \A r \in Revisions \ {wanted.revision} : sizes'[r] = 0
    BY <1>2 DEF Sync
  <2> QED
    BY <1>2, <2>1 DEF Sync
<1>3. ASSUME NEW r \in Revisions, ReportSet(r) PROVE CurrentInv'
  BY <1>3 DEF ReportSet
<1>4. ASSUME NEW r \in Revisions, NEW s \in Slots, CreatePod(s, r) PROVE CurrentInv'
  <2>1. r = wanted.revision
    BY <1>4, NoCreation
  <2>2. pods'[s].revision = r /\ pods'[s].config = config /\ \A t \in Slots \ {s} : pods'[t] = pods[t]
    BY <1>4 DEF CreatePod
  <2> QED
    BY <1>4, <2>1, <2>2 DEF CreatePod
<1>5. ASSUME NEW s \in Slots, DeletePod(s) \/ PodReady(s) \/ ContainerRestarts(s) \/ PodEnds(s)
      PROVE CurrentInv'
  <2>1. UNCHANGED <<wanted, config, sizes, spec>>
    BY <1>5 DEF DeletePod, PodReady, ContainerRestarts, PodEnds
  <2>2. /\ \A t \in Slots \ {s} : pods'[t] = pods[t]
        /\ s \in Present
        /\ pods'[s].state # "none" => /\ pods'[s].revision = pods[s].revision
                                      /\ pods'[s].config \in {pods[s].config, config}
    BY <1>5 DEF DeletePod, PodReady, ContainerRestarts, PodEnds, NoPod, Active, Pods
  <2> QED
    BY <2>1, <2>2
<1> QED
  BY <1>1, <1>2, <1>3, <1>4, <1>5 DEF Cluster

LEMMA ServingStep ==
    ASSUME ClusterTypeOK, CurrentInv, ReportsInv, ServingInv, Cluster, wanted.replicas = 1
    PROVE  ServingInv' /\ Present \subseteq Present'
<1> USE DEF ClusterTypeOK, ServingInv
<1>0. wanted \in Asked /\ spec \in Asked /\ wanted.revision \in Revisions
  BY DEF Asked
<1>1. CASE Reconcile
  BY <1>1 DEF Reconcile, Present, Active
<1>2. CASE Sync
  <2>1. UNCHANGED <<wanted, spec, pods, Present, Active>>
    BY <1>2 DEF Sync, Present, Active
  <2>2. spec.replicas = 1 => spec = wanted
    BY <1>0 DEF CurrentInv, Asked
  <2>3. sizes'[wanted.revision] = 1 => spec = wanted
    BY <1>0, <1>2, <2>2 DEF Sync, Asked, CurrentInv
  <2>4. Present # {} => sizes'[wanted.revision] = 1
    BY <1>0, <1>2 DEF Sync
  <2>5. status'.pods # 0 => Present # {}
    <3>1. status'.pods = Total([q \in Revisions |-> reports[q].pods])
      BY <1>2 DEF Sync, StatusFor
    <3>2. status'.pods # 0 => \E q \in Revisions : reports[q].pods # 0
      BY <3>1, TotalOfNone
    <3> QED
      BY <3>2 DEF ReportsInv
  <2> QED
    BY <2>1, <2>3, <2>4, <2>5
<1>3. ASSUME NEW r \in Revisions, ReportSet(r) PROVE ServingInv' /\ Present \subseteq Present'
  BY <1>3 DEF ReportSet, Present, Active
<1>4. ASSUME NEW r \in Revisions, NEW s \in Slots, CreatePod(s, r)
      PROVE ServingInv' /\ Present \subseteq Present'
  <2>1. sizes[r] = 1 /\ r = wanted.revision
    BY <1>4, NoCreation DEF CurrentInv
  <2>2. Of(r) = {}
    BY <1>4, <2>1, Counts DEF CreatePod, Report
  <2>3. Present = {}
    BY <2>1, <2>2 DEF CurrentInv, PodsAreCurrent, Of
  <2>4. Present' = {s} /\ Active' = {s}
    BY <1>4, <2>3 DEF CreatePod, Present, Active
  <2> QED
    BY <1>4, <2>1, <2>3, <2>4 DEF CreatePod
<1>5. ASSUME NEW s \in Slots, DeletePod(s) PROVE FALSE
  <2>1. s \in Present /\ pods[s].revision = wanted.revision
    BY <1>5 DEF DeletePod, Active, CurrentInv, PodsAreCurrent
  <2>2. Of(wanted.revision) = {s} /\ sizes[wanted.revision] = 1
    BY <1>5, <2>1 DEF DeletePod, Of
  <2>3. Cardinality(Of(wanted.revision)) = 1
    BY <2>2, FS_Singleton
  <2> QED
    BY <1>5, <2>1, <2>2, <2>3 DEF DeletePod
<1>6. ASSUME NEW s \in Slots, PodEnds(s) PROVE FALSE
  BY <1>6 DEF PodEnds, Present, Active
<1>7. ASSUME NEW s \in Slots, PodReady(s) \/ ContainerRestarts(s)
      PROVE ServingInv' /\ Present \subseteq Present'
  <2>1. s \in Active /\ pods'[s].state \in {"starting", "ready"} /\ \A t \in Slots \ {s} : pods'[t] = pods[t]
    BY <1>7 DEF PodReady, ContainerRestarts, Active, Present, Pods
  <2>2. Present' = Present /\ Active' = Active
    BY <2>1 DEF Present, Active
  <2> QED
    BY <1>7, <2>2 DEF PodReady, ContainerRestarts
<1> QED
  BY <1>1, <1>2, <1>3, <1>4, <1>5, <1>6, <1>7 DEF Cluster

\* A job asks for other pods, or changes what they read, only where it has seen that there
\* are none and that none can come.
LEMMA JobCurrent ==
    ASSUME TypeInv, Inv, RolloutInv, Step \/ \E j \in Jobs : Begin(j)
    PROVE  RolloutInv'
<1> USE DEF RolloutInv, CurrentInv, PodsAreCurrent, ReportsInv, ServingInv, FinishingInv,
            Inv, StoppedInv, Held, TypeInv, TypeOK, ClusterTypeOK, Asked, cluster, controlled,
            Present, Active
<1>1. ASSUME NEW j \in Jobs, Begin(j) PROVE RolloutInv'
  BY <1>1 DEF Begin
<1>2. CASE ScaleDown
  BY <1>2 DEF ScaleDown
<1>3. CASE ReadStopped
  BY <1>3 DEF ReadStopped
<1>4. CASE ListPods
  BY <1>4 DEF ListPods
<1>5. CASE Change \/ Restore
  BY <1>5 DEF Change, Restore
<1>6. CASE CheckStorage
  BY <1>6 DEF CheckStorage
<1>7. CASE Resume
  <2>1. Present = {} /\ spec.replicas = 0 /\ \A r \in Revisions : sizes[r] = 0
    BY <1>7 DEF Resume
  <2>2. wanted'.revision = wanted.revision /\ wanted'.replicas = 1 /\ wanted.revision \in Revisions
    BY <1>7 DEF Resume
  <2> QED
    BY <1>7, <2>1, <2>2 DEF Resume
<1>8. CASE Redeploy
  <2>1. Present = {} /\ spec.replicas = 0 /\ \A r \in Revisions : sizes[r] = 0
    BY <1>8 DEF Redeploy
  <2>2. wanted'.revision \in Revisions
    BY <1>8, JobTypes DEF Step
  <2> QED
    BY <1>8, <2>1, <2>2 DEF Redeploy
<1>9. CASE ReadRevision
  BY <1>9 DEF ReadRevision
<1>10. CASE ReadRollout
  <2>1. wanted.replicas = 1 /\ status.pods # 0
    BY <1>10 DEF ReadRollout, RolledOut
  <2>2. Present # {}
    BY <1>10, <2>1 DEF ReadRollout, RolledOut
  <2> QED
    BY <1>10, <2>1, <2>2 DEF ReadRollout
<1>11. CASE ReadAvailable \/ Return
  BY <1>11 DEF ReadAvailable, Return
<1>12. CASE Verify \/ FailIntoRecovery
  BY <1>12 DEF Verify, FailIntoRecovery
<1>13. CASE FailForGood
  BY <1>13 DEF FailForGood
<1> QED
  BY <1>1, <1>2, <1>3, <1>4, <1>5, <1>6, <1>7, <1>8, <1>9, <1>10, <1>11, <1>12, <1>13 DEF Step

LEMMA RolloutStep == TypeInv /\ Inv /\ RolloutInv /\ [Next]_vars => RolloutInv'
<1> SUFFICES ASSUME TypeInv, Inv, RolloutInv, [Next]_vars PROVE RolloutInv'
  OBVIOUS
<1>1. CASE Cluster /\ UNCHANGED client
  <2>1. ClusterTypeOK /\ UNCHANGED wanted.replicas
    BY <1>1 DEF TypeInv, TypeOK, Cluster, Reconcile, Sync, ReportSet, CreatePod, DeletePod,
       PodReady, ContainerRestarts, PodEnds
  <2>2. CurrentInv' /\ ReportsInv'
    BY <1>1, <2>1, CurrentStep, ReportsStep DEF RolloutInv
  <2>3. CASE wanted.replicas = 1
    <3>1. ServingInv' /\ Present \subseteq Present'
      BY <1>1, <2>1, <2>3, ServingStep DEF RolloutInv
    <3> QED
      BY <1>1, <2>1, <2>2, <3>1 DEF RolloutInv, FinishingInv, client
  <2>4. CASE wanted.replicas # 1
    BY <1>1, <2>1, <2>2, <2>4 DEF RolloutInv, ServingInv, FinishingInv, client
  <2> QED
    BY <2>3, <2>4
<1>2. CASE UNCHANGED vars
  BY <1>2 DEF vars, cluster, controlled, client, RolloutInv, CurrentInv, PodsAreCurrent,
     ReportsInv, ServingInv, FinishingInv, Present, Active
<1> QED
  BY <1>1, <1>2, JobCurrent DEF Next

LEMMA RolloutInit == Init => RolloutInv
<1> SUFFICES ASSUME Init PROVE RolloutInv
  OBVIOUS
<1>1. PICK s \in Slots : pods = [t \in Slots |-> IF t = s THEN [NoPod EXCEPT !.state = "ready"] ELSE NoPod]
  BY DEF Init, ClusterInit
<1>2. Present = {s} /\ Active = {s} /\ pods[s].revision = 1 /\ pods[s].config = "own"
  BY <1>1 DEF Present, Active, NoPod
<1>3. /\ wanted = [replicas |-> 1, revision |-> 1] /\ spec = wanted /\ config = "own"
      /\ sizes = [r \in Revisions |-> IF r = 1 THEN 1 ELSE 0]
      /\ \A r \in Revisions : reports[r].pods = sizes[r]
      /\ pc = "idle"
  BY DEF Init, ClusterInit
<1>4. 1 \in Revisions
  BY RevisionAssumption DEF Revisions
<1> QED
  BY <1>2, <1>3, <1>4 DEF RolloutInv, CurrentInv, PodsAreCurrent, ReportsInv, ServingInv, FinishingInv

LEMMA RolloutInvariant == Spec => [](TypeInv /\ Inv /\ RolloutInv)
<1>1. Init => TypeInv
  BY ClusterInitTypes DEF Init, TypeInv, TypeOK, DeployingInv, Running, Stopping, Jobs, Configs
<1> QED
  BY <1>1, InitInv, RolloutInit, TypeStep, InvStep, RolloutStep, PTL DEF Spec

\* Pods of two revisions or of two configurations never run side by side, not even while
\* one of them is terminating, whatever fails in a job and however the status lags.
THEOREM NoTwoVersions == Spec => []PodsAreCurrent
<1>1. RolloutInv => PodsAreCurrent
  BY DEF RolloutInv, CurrentInv
<1> QED
  BY <1>1, RolloutInvariant, PTL

\* A job that ends its rollout without an error has a pod, and no pod but such as run what
\* was asked for.
THEOREM FinishedRolloutIsCurrent == Spec => []RolloutIsCurrent
<1>1. RolloutInv => RolloutIsCurrent
  BY DEF RolloutInv, CurrentInv, PodsAreCurrent, ServingInv, FinishingInv, RolloutIsCurrent
<1> QED
  BY <1>1, RolloutInvariant, PTL

---------------------------------------------------------------------------
(***************************************************************************)
(* RuntimeRollout implements OneVersion: every step of the cluster is a    *)
(* start or an end, or is not seen; what a job replaces it replaces with   *)
(* nothing running.                                                        *)
(***************************************************************************)
LEMMA JobKeepsOneVersion ==
    ASSUME TypeInv, Inv, Step \/ \E j \in Jobs : Begin(j)
    PROVE  [Promise!Next]_<<version, running>>
<1>1. UNCHANGED pods
  BY DEF Step, Begin, ScaleDown, ReadStopped, ListPods, Change, Restore, CheckStorage, Resume,
     Redeploy, ReadRevision, ReadRollout, RolledOut, ReadAvailable, Verify, FailIntoRecovery,
     FailForGood, Return, cluster, controlled
<1>2. UNCHANGED running
  BY <1>1 DEF running, Present
<1>3. CASE UNCHANGED version
  BY <1>2, <1>3
<1>4. CASE version' # version
  <2>1. CASE ScaleDown \/ Resume
    <3>1. wanted \in Asked
      BY DEF TypeInv, TypeOK, ClusterTypeOK
    <3> QED
      BY <1>4, <2>1, <3>1 DEF version, ScaleDown, Resume, Asked
  <2>2. CASE Change \/ Restore \/ Redeploy
    <3>1. Present = {}
      BY <2>2 DEF Change, Restore, Redeploy, Inv, StoppedInv
    <3> QED
      BY <1>2, <3>1 DEF running, version, Promise!Next, Promise!Replace
  <2> QED
    BY <1>4, <2>1, <2>2 DEF version, Step, Begin, ReadStopped, ListPods, CheckStorage,
       ReadRevision, ReadRollout, RolledOut, ReadAvailable, Verify, FailIntoRecovery, FailForGood,
       Return, cluster, controlled
<1> QED
  BY <1>3, <1>4

LEMMA ClusterKeepsOneVersion ==
    ASSUME PodsAreCurrent', Cluster
    PROVE  [Promise!Next]_<<version, running>>
<1>1. UNCHANGED version
  BY DEF version, Cluster, Reconcile, Sync, ReportSet, CreatePod, DeletePod, PodReady,
     ContainerRestarts, PodEnds
<1>2. running' \in {{}, {version'}}
  BY DEF PodsAreCurrent, running, version
<1> QED
  BY <1>1, <1>2 DEF version, running, Promise!Next, Promise!Start, Promise!End

\* The jobs implement OneVersion, for any number of pods and revisions: whatever fails and
\* however the status lags, a version is replaced only with nothing running.
THEOREM RolloutKeepsOneVersion == Spec => KeepsOneVersion
<1>1. Init => Promise!Init
  <2> SUFFICES ASSUME Init PROVE Promise!Init
    OBVIOUS
  <2>1. PodsAreCurrent /\ Present # {}
    <3>1. PICK s \in Slots : pods = [t \in Slots |-> IF t = s THEN [NoPod EXCEPT !.state = "ready"] ELSE NoPod]
      BY DEF Init, ClusterInit
    <3>2. s \in Present
      BY <3>1 DEF Present, NoPod
    <3> QED
      BY <3>2, RolloutInit DEF RolloutInv, CurrentInv
  <2> QED
    BY <2>1 DEF PodsAreCurrent, version, running, Promise!Init
<1>2. /\ TypeInv /\ Inv /\ RolloutInv /\ (TypeInv /\ Inv /\ RolloutInv)' /\ [Next]_vars
      => [Promise!Next]_<<version, running>>
  <2> SUFFICES ASSUME TypeInv, Inv, RolloutInv', [Next]_vars
               PROVE  [Promise!Next]_<<version, running>>
    OBVIOUS
  <2>1. CASE Cluster
    BY <2>1, ClusterKeepsOneVersion DEF RolloutInv, CurrentInv
  <2>2. CASE UNCHANGED vars
    BY <2>2 DEF vars, cluster, controlled, version, running, Present
  <2> QED
    BY <2>1, <2>2, JobKeepsOneVersion DEF Next
<1> QED
  BY <1>1, <1>2, RolloutInvariant, PTL DEF Spec, KeepsOneVersion, Promise!Spec

---------------------------------------------------------------------------
(***************************************************************************)
(* DeploymentRestart.  Its polls believe any status.  What they do see is  *)
(* a moment without active pods after the change; the pods made since      *)
(* then, and the containers restarted, have read what was changed.         *)
(***************************************************************************)
LEMMA RestartTypeStep == RestartTypeOK /\ [RestartNext]_restartVars => RestartTypeOK'
<1> SUFFICES ASSUME RestartTypeOK, [RestartNext]_restartVars PROVE RestartTypeOK'
  OBVIOUS
<1> USE RetriesAssumption
        DEF RestartTypeOK, ClusterTypeOK, Restarting, Waiting, cluster, controlled, restart
<1>1. CASE ChangeConfig
  BY <1>1 DEF ChangeConfig, Configs
<1>2. ASSUME NEW from, NEW replicas \in 0..1, NEW to \in Waiting, Scale(from, replicas, to)
      PROVE RestartTypeOK'
  <2>1. wanted' \in Asked
    BY <1>2 DEF Scale, Asked
  <2> QED
    BY <1>2, <2>1 DEF Scale
<1>3. CASE ScaleToNone \/ ScaleToOne
  BY <1>2, <1>3 DEF ScaleToNone, ScaleToOne
<1>4. CASE ScaleRefused
  BY <1>4 DEF ScaleRefused
<1>5. CASE ScaleFails \/ WaitDrained \/ WaitTerminated \/ WaitReady \/ WaitFails
  BY <1>5 DEF ScaleFails, WaitDrained, WaitTerminated, WaitReady, WaitFails
<1>6. CASE Cluster /\ UNCHANGED restart
  <2>1. ClusterTypeOK'
    BY <1>6, ClusterTypes
  <2> QED
    BY <1>6, <2>1
<1>7. CASE UNCHANGED restartVars
  BY <1>7 DEF restartVars
<1> QED
  BY <1>1, <1>3, <1>4, <1>5, <1>6, <1>7 DEF RestartNext, RestartStep

\* The variables have their types, and no scaling is tried more often than it may.
THEOREM RestartTypes == RestartSpec => []RestartTypeOK
<1>1. RestartInit => RestartTypeOK
  BY ClusterInitTypes, RetriesAssumption DEF RestartInit, RestartTypeOK, Restarting, Waiting
<1> QED
  BY <1>1, RestartTypeStep, PTL DEF RestartSpec

\* From the wait for terminated pods on, what is active has read the new configuration.
ReplacedInv ==
    /\ stage # "change" => config = "changed"
    /\ stage \in {"up", "ready", "done"} => \A s \in Active : pods[s].config = "changed"

LEMMA ReplacedStep ==
    RestartTypeOK /\ ReplacedInv /\ [RestartNext]_restartVars => ReplacedInv'
<1> SUFFICES ASSUME RestartTypeOK, ReplacedInv, [RestartNext]_restartVars PROVE ReplacedInv'
  OBVIOUS
<1> USE DEF ReplacedInv, Active, Present, cluster, controlled
<1>1. CASE ChangeConfig
  BY <1>1 DEF ChangeConfig
<1>2. CASE ScaleToNone \/ ScaleToOne
  BY <1>2 DEF ScaleToNone, ScaleToOne, Scale
<1>3. CASE ScaleRefused \/ ScaleFails
  BY <1>3 DEF ScaleRefused, ScaleFails
<1>4. CASE WaitDrained \/ WaitTerminated \/ WaitReady \/ WaitFails
  BY <1>4 DEF WaitDrained, WaitTerminated, WaitReady, WaitFails, Waiting
<1>5. CASE Cluster /\ UNCHANGED restart
  <2>1. UNCHANGED <<stage, config>>
    BY <1>5 DEF restart, Cluster, Reconcile, Sync, ReportSet, CreatePod, DeletePod, PodReady,
       ContainerRestarts, PodEnds
  <2> DEFINE Kept(s) == s \in Active /\ pods'[s].config = pods[s].config
  <2>2. \A s \in Active' : Kept(s) \/ pods'[s].config = config
    <3> USE DEF RestartTypeOK, ClusterTypeOK, Pods
    <3>1. CASE Reconcile \/ Sync \/ \E r \in Revisions : ReportSet(r)
      BY <3>1 DEF Reconcile, Sync, ReportSet
    <3>2. ASSUME NEW r \in Revisions, NEW t \in Slots, CreatePod(t, r)
          PROVE  \A s \in Active' : Kept(s) \/ pods'[s].config = config
      BY <3>2 DEF CreatePod
    <3>3. ASSUME NEW t \in Slots, DeletePod(t) \/ PodReady(t) \/ ContainerRestarts(t) \/ PodEnds(t)
          PROVE  \A s \in Active' : Kept(s) \/ pods'[s].config = config
      <4>1. \A s \in Slots \ {t} : pods'[s] = pods[s]
        BY <3>3 DEF DeletePod, PodReady, ContainerRestarts, PodEnds
      <4>2. t \in Active' => Kept(t) \/ pods'[t].config = config
        BY <3>3 DEF DeletePod, PodReady, ContainerRestarts, PodEnds, NoPod
      <4> QED
        BY <4>1, <4>2
    <3> QED
      BY <1>5, <3>1, <3>2, <3>3 DEF Cluster
  <2> QED
    BY <2>1, <2>2
<1>6. CASE UNCHANGED restartVars
  BY <1>6 DEF restartVars, restart
<1> QED
  BY <1>1, <1>2, <1>3, <1>4, <1>5, <1>6 DEF RestartNext, RestartStep

\* A restart that completed has replaced every pod that is not ending, whatever statuses
\* its polls believed.
THEOREM RestartReplacesPods == RestartSpec => []OldPodReplaced
<1>1. RestartInit => RestartTypeOK /\ ReplacedInv
  BY ClusterInitTypes, RetriesAssumption
     DEF RestartInit, RestartTypeOK, Restarting, Waiting, ReplacedInv
<1>2. ReplacedInv => OldPodReplaced
  BY DEF ReplacedInv, OldPodReplaced
<1> QED
  BY <1>1, <1>2, RestartTypeStep, ReplacedStep, PTL DEF RestartSpec
===========================================================================
