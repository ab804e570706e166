----------------------------- MODULE SlotRuns -----------------------------
(***************************************************************************)
(* Test runs that share a database host: clearSlotDatabases of             *)
(* e2e-tests/playwright/utils/runtime-database.ts as the fixture           *)
(* external-postgres-runtime.ts calls it, and the life of the databases of *)
(* a run from its deployment to its teardown or its crash.                 *)
(*                                                                         *)
(* A run here is one run id on the one provider slot of the model, that is *)
(* one database prefix; slotPattern lists no other slot.  Run ids carry    *)
(* their start time, read from the clock of the machine that started them, *)
(* and a cleanup compares it with a clock of its own: skew[r] is how far   *)
(* the clock of r's machine is ahead.  Time is kept relative: age[r] since *)
(* r started, lag[r] since r read its clock.                               *)
(*                                                                         *)
(* Clearing one prefix is OwnedDatabases with the databases of the prefix  *)
(* taken as one: databases holds the runs that have any.  A finished run   *)
(* is forgotten and its identity stands for a new run with a fresh id.     *)
(***************************************************************************)
EXTENDS Integers

CONSTANTS
    Runs,          \* the runs that can exist at a time
    NoRun,         \* no run is being retired
    Spared,        \* bound: runs that are not killed and whose teardown succeeds
    MaxAge,        \* RUNTIME_RUN_MAX_AGE_MS
    JobLimit,      \* external: the age at which CI ends a job
    MaxSkew        \* external: the largest difference of two clocks

ASSUME RunsAssumption == NoRun \notin Runs /\ Spared \subseteq Runs
\* "Longer than any job that runs these tests" (line 69), on the clocks there are.
ASSUME AgeAssumption ==
    /\ MaxAge \in Nat /\ JobLimit \in Nat /\ MaxSkew \in Nat
    /\ JobLimit + MaxSkew < MaxAge

VARIABLES
    phase,         \* where each run is
    age,           \* time since its run id was made, at most AgeCap
    skew,          \* its clock, ahead of the slowest one
    lag,           \* time since clearSlotDatabases read the clock (now)
    pending,       \* otherRuns: prefixes listed and not yet decided
    target,        \* the other run whose databases are being cleared
    completed,     \* runs whose teardown reported its databases dropped
    databases,     \* runs whose prefix has databases on the host
    apps           \* runs with application pods, the writers of databases

cleanup == <<lag, pending, target>>
clocks == <<age, skew>>
vars == <<phase, clocks, cleanup, completed, databases, apps>>

---------------------------------------------------------------------------
Ended == {"over", "crashed"}
Cleaning == {"listing", "retiring", "clearing"}
Working == {"up", "own", "deployed", "teardown", "dropping", "leaving"} \cup Cleaning

Live(r) == phase[r] \in Working

\* Beyond this age a prefix is stale for every clock: more ages look the same.
AgeCap == MaxAge + JobLimit + MaxSkew

Older(a) == IF a < AgeCap THEN a + 1 ELSE a

Abs(x) == IF x < 0 THEN -x ELSE x

\* now - runStartedAt(prefix of p), on the clocks of r and of p.
ApparentAge(r, p) == (age[p] - lag[r]) + (skew[r] - skew[p])

\* Mutant of MayBeLive: the age of one job taken for the age of a stale run.
MayBeLiveForOneJob(r, p) == Abs(ApparentAge(r, p)) < JobLimit

\* A younger run on the slot may still be live.
MayBeLive(r, p) == Abs(ApparentAge(r, p)) < MaxAge

Init ==
    /\ phase = [r \in Runs |-> "over"]
    /\ age = [r \in Runs |-> AgeCap]
    /\ skew = [r \in Runs |-> 0]
    /\ lag = [r \in Runs |-> 0]
    /\ pending = [r \in Runs |-> {}]
    /\ target = [r \in Runs |-> NoRun]
    /\ completed = {}
    /\ databases = {}
    /\ apps = {}

To(r, next) == phase' = [phase EXCEPT ![r] = next]

\* newRuntimeRunId: a new run, where nothing is left that names the old one.
StartRun(r) ==
    /\ phase[r] \in Ended
    /\ r \notin databases \cup apps
    /\ \A q \in Runs : Live(q) => r \notin pending[q] \cup {target[q]}
    /\ To(r, "up")
    /\ age' = [age EXCEPT ![r] = 0]
    /\ \E s \in 0..MaxSkew : skew' = [skew EXCEPT ![r] = s]
    /\ completed' = completed \ {r}
    /\ UNCHANGED <<lag, pending, target, databases, apps>>

\* clearSlotDatabases is called: now is read before anything is awaited.
CallClearSlot(r) ==
    /\ phase[r] = "up"
    /\ To(r, "listing")
    /\ lag' = [lag EXCEPT ![r] = 0]
    /\ UNCHANGED <<clocks, pending, target, completed, databases, apps>>

\* Mutant of ListSlot: the pattern keeps the run id of the current prefix.
ListOwnPrefix(r) ==
    /\ phase[r] = "listing"
    /\ To(r, "retiring")
    /\ UNCHANGED <<clocks, cleanup, completed, databases, apps>>

\* The databases of this slot's other runs.
ListSlot(r) ==
    /\ phase[r] = "listing"
    /\ To(r, "retiring")
    /\ pending' = [pending EXCEPT ![r] = databases \ {r}]
    /\ UNCHANGED <<clocks, lag, target, completed, databases, apps>>

LeaveActive(r, p) ==
    /\ phase[r] = "retiring"
    /\ p \in pending[r]
    /\ MayBeLive(r, p)
    /\ pending' = [pending EXCEPT ![r] = @ \ {p}]
    /\ UNCHANGED <<phase, clocks, lag, target, completed, databases, apps>>

BeginRetire(r, p) ==
    /\ phase[r] = "retiring"
    /\ p \in pending[r]
    /\ ~MayBeLive(r, p)
    /\ pending' = [pending EXCEPT ![r] = @ \ {p}]
    /\ target' = [target EXCEPT ![r] = p]
    /\ To(r, "clearing")
    /\ UNCHANGED <<clocks, lag, completed, databases, apps>>

\* clearOwnedDatabases on the stale prefix: it drops, then returns or throws.
RetireDrops(r) ==
    /\ phase[r] = "clearing"
    /\ target[r] \in databases
    /\ databases' = databases \ {target[r]}
    /\ UNCHANGED <<phase, clocks, cleanup, completed, apps>>

RetireReturns(r) ==
    /\ phase[r] = "clearing"
    /\ target[r] \notin databases
    /\ target' = [target EXCEPT ![r] = NoRun]
    /\ To(r, "retiring")
    /\ UNCHANGED <<clocks, lag, pending, completed, databases, apps>>

\* Mutant of RetireFails: the loop goes on with the failed prefix.
RetireFailsAndStays(r) ==
    /\ phase[r] = "clearing"
    /\ To(r, "retiring")
    /\ UNCHANGED <<clocks, cleanup, completed, databases, apps>>

\* Another run's leftovers must not fail this run: it warns and goes on.
RetireFails(r) ==
    /\ phase[r] = "clearing"
    /\ target' = [target EXCEPT ![r] = NoRun]
    /\ To(r, "retiring")
    /\ UNCHANGED <<clocks, lag, pending, completed, databases, apps>>

\* After the other runs, clearOwnedDatabases on the run's own prefix.
BeginOwn(r) ==
    /\ phase[r] = "retiring"
    /\ pending[r] = {}
    /\ To(r, "own")
    /\ UNCHANGED <<clocks, cleanup, completed, databases, apps>>

\* Then the application is deployed, and may write from now on.
Deploy(r) ==
    /\ phase[r] = "own"
    /\ r \notin databases
    /\ apps' = apps \cup {r}
    /\ To(r, "deployed")
    /\ UNCHANGED <<clocks, cleanup, completed, databases>>

\* The setup fails on the way, or the test ends: both go to teardownRuntime.
BeginTeardown(r) ==
    /\ phase[r] \in {"up", "listing", "own", "deployed"}
    /\ To(r, "teardown")
    /\ UNCHANGED <<clocks, cleanup, completed, databases, apps>>

StopApplication(r) ==
    /\ phase[r] = "teardown"
    /\ apps' = apps \ {r}
    /\ To(r, "dropping")
    /\ UNCHANGED <<clocks, cleanup, completed, databases>>

\* Mutant of StopFails: the databases are dropped all the same.
StopFailsThenDrops(r) ==
    /\ r \notin Spared
    /\ phase[r] = "teardown"
    /\ To(r, "dropping")
    /\ UNCHANGED <<clocks, cleanup, completed, databases, apps>>

\* An application that did not stop would recreate what is dropped: no drop.
StopFails(r) ==
    /\ r \notin Spared
    /\ phase[r] = "teardown"
    /\ To(r, "leaving")
    /\ UNCHANGED <<clocks, cleanup, completed, databases, apps>>

\* clearOwnedDatabases on the run's own prefix, before the deployment or in teardown.
DropOwn(r) ==
    /\ phase[r] \in {"own", "dropping"}
    /\ r \in databases
    /\ databases' = databases \ {r}
    /\ UNCHANGED <<phase, clocks, cleanup, completed, apps>>

DropReturns(r) ==
    /\ phase[r] = "dropping"
    /\ r \notin databases
    /\ completed' = completed \cup {r}
    /\ To(r, "leaving")
    /\ UNCHANGED <<clocks, cleanup, databases, apps>>

\* Mutant of DropFails: the report is made whatever the drop did.
DropFailsReported(r) ==
    /\ r \notin Spared
    /\ phase[r] = "dropping"
    /\ completed' = completed \cup {r}
    /\ To(r, "leaving")
    /\ UNCHANGED <<clocks, cleanup, databases, apps>>

DropFails(r) ==
    /\ r \notin Spared
    /\ phase[r] = "dropping"
    /\ To(r, "leaving")
    /\ UNCHANGED <<clocks, cleanup, completed, databases, apps>>

\* Deleting the namespace takes the pods with it, unless it fails.
DeleteNamespace(r) ==
    /\ phase[r] = "leaving"
    /\ apps' \in {apps, apps \ {r}}
    /\ r \in Spared => r \notin apps'
    /\ To(r, "over")
    /\ UNCHANGED <<clocks, cleanup, completed, databases>>

RunStep(r) ==
    \/ CallClearSlot(r)
    \/ ListSlot(r)
    \/ \E p \in Runs : LeaveActive(r, p) \/ BeginRetire(r, p)
    \/ RetireDrops(r)
    \/ RetireReturns(r)
    \/ RetireFails(r)
    \/ BeginOwn(r)
    \/ Deploy(r)
    \/ BeginTeardown(r)
    \/ StopApplication(r)
    \/ StopFails(r)
    \/ DropOwn(r)
    \/ DropReturns(r)
    \/ DropFails(r)
    \/ DeleteNamespace(r)

---------------------------------------------------------------------------
\* The environment.

\* The runner is killed; its application stays.
Crash(r) ==
    /\ Live(r)
    /\ r \notin Spared
    /\ To(r, "crashed")
    /\ pending' = [pending EXCEPT ![r] = {}]
    /\ target' = [target EXCEPT ![r] = NoRun]
    /\ UNCHANGED <<clocks, lag, completed, databases, apps>>

\* A pod starts and its plugins create their databases.
AppWrites(r) ==
    /\ r \in apps
    /\ databases' = databases \cup {r}
    /\ UNCHANGED <<phase, clocks, cleanup, completed, apps>>

\* CI reclaims the cluster an ended run has left its application on.
Reclaim(r) ==
    /\ ~Live(r)
    /\ r \in apps
    /\ apps' = apps \ {r}
    /\ UNCHANGED <<phase, clocks, cleanup, completed, databases>>

\* Time passes for all; CI lets no job get older than JobLimit.
TimePasses ==
    /\ \A r \in Runs : Live(r) => age[r] < JobLimit
    /\ age' = [r \in Runs |-> Older(age[r])]
    /\ lag' = [r \in Runs |-> IF phase[r] \in Cleaning THEN Older(lag[r]) ELSE 0]
    /\ UNCHANGED <<phase, skew, pending, target, completed, databases, apps>>

Next ==
    \/ \E r \in Runs : StartRun(r) \/ RunStep(r) \/ Crash(r) \/ AppWrites(r) \/ Reclaim(r)
    \/ TimePasses

Spec == Init /\ [][Next]_vars

\* For the leftovers to go: runs keep coming, CI reclaims clusters, and a cleanup that
\* is attempted again and again is not killed, or refused, every time.
FairSpec ==
    /\ Spec
    /\ WF_vars(TimePasses)
    /\ \A r \in Runs :
          /\ WF_vars(StartRun(r))
          /\ WF_vars(RunStep(r))
          /\ WF_vars(Reclaim(r))
          /\ SF_vars(CallClearSlot(r))
          /\ SF_vars(ListSlot(r))
          /\ SF_vars(\E p \in Runs : BeginRetire(r, p))
          /\ SF_vars(RetireDrops(r))

---------------------------------------------------------------------------
\* Types, and: a prefix is being cleared exactly while its cleaner says so.
TypeOK ==
    /\ phase \in [Runs -> Working \cup Ended]
    /\ age \in [Runs -> 0..AgeCap]
    /\ skew \in [Runs -> 0..MaxSkew]
    /\ lag \in [Runs -> 0..AgeCap]
    /\ pending \in [Runs -> SUBSET Runs]
    /\ target \in [Runs -> Runs \cup {NoRun}]
    /\ \A r \in Runs : phase[r] = "clearing" <=> target[r] # NoRun
    /\ completed \in SUBSET Runs
    /\ databases \in SUBSET Runs
    /\ apps \in SUBSET Runs

\* Runs overlap on the hosts: a run being retired has ended,
\* although its age is read off another machine's clock, before the listing it is
\* compared with, and while time passes during the retirements before it.
NeverRetiresLive ==
    \A r \in Runs : target[r] # NoRun =>
        target[r] # r /\ ~Live(target[r])

\* A live run loses its databases by its own cleanup only, and never while its
\* application is running.
LiveRunsKeepDatabases ==
    [][\A p \in databases \ databases' :
          Live(p) => phase[p] \in {"own", "dropping"} /\ p \notin apps]_vars

\* A teardown that reported its cleanup completed has left nothing: neither databases
\* nor an application that would create them again.
CompletedIsClean == \A r \in completed : r \notin databases \cup apps

\* A later run on the slot retires leftovers: databases that an ended run left behind
\* do not stay for ever.
LeftoversGo == \A r \in Runs : (r \in databases /\ ~Live(r)) ~> (r \notin databases)
===========================================================================
