-------------------------- MODULE SlotRuns_proofs --------------------------
(***************************************************************************)
(* Proofs about SlotRuns, for any number of runs, any age limits that      *)
(* AgeAssumption allows and any skew up to MaxSkew: the types, that a run  *)
(* that may be live is never retired, and what a cleanup that reported     *)
(* itself completed and a live run may rely on.                            *)
(***************************************************************************)
EXTENDS SlotRuns, TLAPS

\* Jobs end in time, and a cleanup reads its clock after its run has started.
Timely ==
    \A r \in Runs :
        /\ Live(r) => age[r] <= JobLimit
        /\ phase[r] \in Cleaning => lag[r] <= age[r]

\* A run never lists itself, and the run being retired has ended.
Retiring ==
    \A r \in Runs : r \notin pending[r] /\ (target[r] # NoRun => target[r] # r /\ ~Live(target[r]))

AgeInv == TypeOK /\ Timely /\ Retiring

\* There is no application before the deployment, nor once it has stopped.
NoWriter == {"up", "listing", "retiring", "clearing", "own", "dropping"}

AppInv ==
    \A r \in Runs :
        /\ phase[r] \in NoWriter => r \notin apps
        /\ r \in completed => /\ phase[r] \in {"leaving"} \cup Ended
                              /\ r \notin databases \cup apps

USE RunsAssumption, AgeAssumption

---------------------------------------------------------------------------
\* Types: every state variable keeps its type, and target names a prefix exactly while
\* it is being cleared.
THEOREM SlotTypes == Spec => []TypeOK
<1>1. Init => TypeOK
  BY DEF Init, TypeOK, Ended, Working, Cleaning, AgeCap
<1>2. TypeOK /\ [Next]_vars => TypeOK'
  <2> SUFFICES ASSUME TypeOK, [Next]_vars PROVE TypeOK'
    OBVIOUS
  <2> USE DEF TypeOK, To, Ended, Working, Cleaning, cleanup, clocks
  <2>1. ASSUME NEW r \in Runs, StartRun(r) PROVE TypeOK'
    <3>1. 0 \in 0..AgeCap
      BY DEF AgeCap
    <3> QED
      BY <2>1, <3>1 DEF StartRun
  <2>2. ASSUME NEW r \in Runs, CallClearSlot(r) PROVE TypeOK'
    <3>1. 0 \in 0..AgeCap
      BY DEF AgeCap
    <3> QED
      BY <2>2, <3>1 DEF CallClearSlot
  <2>3. ASSUME NEW r \in Runs, ListSlot(r) PROVE TypeOK'
    BY <2>3 DEF ListSlot
  <2>4. ASSUME NEW r \in Runs, NEW p \in Runs, LeaveActive(r, p) PROVE TypeOK'
    BY <2>4 DEF LeaveActive
  <2>5. ASSUME NEW r \in Runs, NEW p \in Runs, BeginRetire(r, p) PROVE TypeOK'
    BY <2>5 DEF BeginRetire
  <2>6. ASSUME NEW r \in Runs, RetireDrops(r) PROVE TypeOK'
    BY <2>6 DEF RetireDrops
  <2>7. ASSUME NEW r \in Runs, RetireReturns(r) PROVE TypeOK'
    BY <2>7 DEF RetireReturns
  <2>8. ASSUME NEW r \in Runs, RetireFails(r) PROVE TypeOK'
    BY <2>8 DEF RetireFails
  <2>9. ASSUME NEW r \in Runs, BeginOwn(r) PROVE TypeOK'
    BY <2>9 DEF BeginOwn
  <2>10. ASSUME NEW r \in Runs, Deploy(r) PROVE TypeOK'
    BY <2>10 DEF Deploy
  <2>11. ASSUME NEW r \in Runs, BeginTeardown(r) PROVE TypeOK'
    BY <2>11 DEF BeginTeardown
  <2>12. ASSUME NEW r \in Runs, StopApplication(r) \/ StopFails(r) PROVE TypeOK'
    BY <2>12 DEF StopApplication, StopFails
  <2>13. ASSUME NEW r \in Runs, DropOwn(r) \/ DropReturns(r) \/ DropFails(r) PROVE TypeOK'
    BY <2>13 DEF DropOwn, DropReturns, DropFails
  <2>14. ASSUME NEW r \in Runs, DeleteNamespace(r) PROVE TypeOK'
    BY <2>14 DEF DeleteNamespace
  <2>15. ASSUME NEW r \in Runs, Crash(r) PROVE TypeOK'
    BY <2>15 DEF Crash
  <2>16. ASSUME NEW r \in Runs, AppWrites(r) \/ Reclaim(r) PROVE TypeOK'
    BY <2>16 DEF AppWrites, Reclaim
  <2>17. CASE TimePasses
    <3>1. \A a \in 0..AgeCap : Older(a) \in 0..AgeCap
      BY DEF Older, AgeCap
    <3>2. 0 \in 0..AgeCap
      BY DEF AgeCap
    <3> QED
      BY <2>17, <3>1, <3>2 DEF TimePasses
  <2>18. CASE UNCHANGED vars
    BY <2>18 DEF vars
  <2> QED
    BY <2>1, <2>2, <2>3, <2>4, <2>5, <2>6, <2>7, <2>8, <2>9, <2>10, <2>11, <2>12, <2>13,
       <2>14, <2>15, <2>16, <2>17, <2>18 DEF Next, RunStep
<1> QED
  BY <1>1, <1>2, PTL DEF Spec

---------------------------------------------------------------------------
\* The heart of the argument: at the moment a cleanup tests the age of a live run's
\* prefix, that run is younger than JobLimit, the reading it is compared with is no
\* older than that, and the clocks differ by at most MaxSkew.
LEMMA LiveMayBeLive ==
    ASSUME AgeInv, NEW r \in Runs, NEW p \in Runs, phase[r] \in Cleaning, Live(p)
    PROVE  MayBeLive(r, p)
<1>1. /\ age[p] \in Nat /\ age[p] <= JobLimit
      /\ age[r] \in Nat /\ age[r] <= JobLimit
  BY DEF AgeInv, TypeOK, Timely, Live, Working, AgeCap
<1>2. lag[r] \in Nat /\ lag[r] <= age[r]
  BY DEF AgeInv, TypeOK, Timely, AgeCap
<1>3. /\ skew[r] \in Nat /\ skew[r] <= MaxSkew
      /\ skew[p] \in Nat /\ skew[p] <= MaxSkew
  BY DEF AgeInv, TypeOK
<1> QED
  BY <1>1, <1>2, <1>3 DEF MayBeLive, ApparentAge, Abs

LEMMA AgeInvStep == AgeInv /\ [Next]_vars /\ TypeOK' => Timely' /\ Retiring'
<1> SUFFICES ASSUME AgeInv, [Next]_vars, TypeOK' PROVE Timely' /\ Retiring'
  OBVIOUS
<1> USE DEF AgeInv, TypeOK, Timely, Retiring, Live, To, Ended, Working, Cleaning, cleanup, clocks
<1>1. ASSUME NEW r \in Runs, StartRun(r) PROVE Timely' /\ Retiring'
  BY <1>1 DEF StartRun
<1>2. ASSUME NEW r \in Runs, CallClearSlot(r) PROVE Timely' /\ Retiring'
  BY <1>2 DEF CallClearSlot, AgeCap
<1>3. ASSUME NEW r \in Runs, ListSlot(r) PROVE Timely' /\ Retiring'
  BY <1>3 DEF ListSlot
<1>4. ASSUME NEW r \in Runs, NEW p \in Runs, LeaveActive(r, p) PROVE Timely' /\ Retiring'
  BY <1>4 DEF LeaveActive
<1>5. ASSUME NEW r \in Runs, NEW p \in Runs, BeginRetire(r, p) PROVE Timely' /\ Retiring'
  <2>1. ~Live(p)
    BY <1>5, LiveMayBeLive DEF BeginRetire
  <2>2. p # r
    BY <1>5 DEF BeginRetire
  <2> QED
    BY <1>5, <2>1, <2>2 DEF BeginRetire
<1>6. ASSUME NEW r \in Runs, RetireDrops(r) PROVE Timely' /\ Retiring'
  BY <1>6 DEF RetireDrops
<1>7. ASSUME NEW r \in Runs, RetireReturns(r) \/ RetireFails(r) PROVE Timely' /\ Retiring'
  BY <1>7 DEF RetireReturns, RetireFails
<1>8. ASSUME NEW r \in Runs, BeginOwn(r) \/ Deploy(r) PROVE Timely' /\ Retiring'
  BY <1>8 DEF BeginOwn, Deploy
<1>9. ASSUME NEW r \in Runs, BeginTeardown(r) PROVE Timely' /\ Retiring'
  BY <1>9 DEF BeginTeardown
<1>10. ASSUME NEW r \in Runs, StopApplication(r) \/ StopFails(r) PROVE Timely' /\ Retiring'
  BY <1>10 DEF StopApplication, StopFails
<1>11. ASSUME NEW r \in Runs, DropOwn(r) \/ DropReturns(r) \/ DropFails(r) PROVE Timely' /\ Retiring'
  BY <1>11 DEF DropOwn, DropReturns, DropFails
<1>12. ASSUME NEW r \in Runs, DeleteNamespace(r) PROVE Timely' /\ Retiring'
  BY <1>12 DEF DeleteNamespace
<1>13. ASSUME NEW r \in Runs, Crash(r) PROVE Timely' /\ Retiring'
  BY <1>13 DEF Crash
<1>14. ASSUME NEW r \in Runs, AppWrites(r) \/ Reclaim(r) PROVE Timely' /\ Retiring'
  BY <1>14 DEF AppWrites, Reclaim
<1>15. CASE TimePasses
  <2>1. ASSUME NEW r \in Runs, Live(r) PROVE age'[r] <= JobLimit
    BY <1>15, <2>1 DEF TimePasses, Older, AgeCap
  <2>2. ASSUME NEW r \in Runs, phase[r] \in Cleaning PROVE lag'[r] <= age'[r]
    BY <1>15, <2>2 DEF TimePasses, Older, AgeCap
  <2>3. UNCHANGED <<phase, pending, target>>
    BY <1>15 DEF TimePasses
  <2> QED
    BY <2>1, <2>2, <2>3
<1>16. CASE UNCHANGED vars
  BY <1>16 DEF vars
<1> QED
  BY <1>1, <1>2, <1>3, <1>4, <1>5, <1>6, <1>7, <1>8, <1>9, <1>10, <1>11, <1>12, <1>13,
     <1>14, <1>15, <1>16 DEF Next, RunStep

LEMMA AgeInvariant == Spec => []AgeInv
<1>1. Init => Timely /\ Retiring
  BY DEF Init, Timely, Retiring, Live, Working, Cleaning
<1>2. AgeInv /\ [Next]_vars /\ TypeOK' => AgeInv'
  BY AgeInvStep DEF AgeInv
<1>3. TypeOK /\ Timely /\ Retiring <=> AgeInv
  BY DEF AgeInv
<1> QED
  BY <1>1, <1>2, <1>3, SlotTypes, PTL DEF Spec

\* A cleanup never retires a run that may still be live, for any number of overlapping
\* runs, as long as a job ends MaxSkew before MaxAge.
THEOREM LiveRunsAreSafe == Spec => []NeverRetiresLive
<1>1. AgeInv => NeverRetiresLive
  BY DEF AgeInv, TypeOK, Retiring, NeverRetiresLive
<1> QED
  BY <1>1, AgeInvariant, PTL

---------------------------------------------------------------------------
LEMMA AppInvStep == TypeOK /\ AppInv /\ [Next]_vars => AppInv'
<1> SUFFICES ASSUME TypeOK, AppInv, [Next]_vars PROVE AppInv'
  OBVIOUS
<1> USE DEF TypeOK, AppInv, NoWriter, Live, To, Ended, Working, Cleaning, cleanup, clocks
<1>1. ASSUME NEW r \in Runs, StartRun(r) PROVE AppInv'
  BY <1>1 DEF StartRun
<1>2. ASSUME NEW r \in Runs, CallClearSlot(r) \/ ListSlot(r) PROVE AppInv'
  BY <1>2 DEF CallClearSlot, ListSlot
<1>3. ASSUME NEW r \in Runs, NEW p \in Runs, LeaveActive(r, p) \/ BeginRetire(r, p) PROVE AppInv'
  BY <1>3 DEF LeaveActive, BeginRetire
<1>4. ASSUME NEW r \in Runs, RetireDrops(r) \/ RetireReturns(r) \/ RetireFails(r) PROVE AppInv'
  BY <1>4 DEF RetireDrops, RetireReturns, RetireFails
<1>5. ASSUME NEW r \in Runs, BeginOwn(r) \/ Deploy(r) \/ BeginTeardown(r) PROVE AppInv'
  BY <1>5 DEF BeginOwn, Deploy, BeginTeardown
<1>6. ASSUME NEW r \in Runs, StopApplication(r) \/ StopFails(r) PROVE AppInv'
  BY <1>6 DEF StopApplication, StopFails
<1>7. ASSUME NEW r \in Runs, DropOwn(r) \/ DropReturns(r) \/ DropFails(r) PROVE AppInv'
  BY <1>7 DEF DropOwn, DropReturns, DropFails
<1>8. ASSUME NEW r \in Runs, DeleteNamespace(r) PROVE AppInv'
  BY <1>8 DEF DeleteNamespace
<1>9. ASSUME NEW r \in Runs, Crash(r) PROVE AppInv'
  BY <1>9 DEF Crash
<1>10. ASSUME NEW r \in Runs, AppWrites(r) \/ Reclaim(r) PROVE AppInv'
  BY <1>10 DEF AppWrites, Reclaim
<1>11. CASE TimePasses
  BY <1>11 DEF TimePasses
<1>12. CASE UNCHANGED vars
  BY <1>12 DEF vars
<1> QED
  BY <1>1, <1>2, <1>3, <1>4, <1>5, <1>6, <1>7, <1>8, <1>9, <1>10, <1>11, <1>12 DEF Next, RunStep

LEMMA AppInvariant == Spec => []AppInv
<1>1. Init => AppInv
  BY DEF Init, AppInv
<1> QED
  BY <1>1, AppInvStep, SlotTypes, PTL DEF Spec

\* A teardown that reported its databases dropped has left neither a database nor an
\* application that could create one.
THEOREM CompletedMeansClean == Spec => []CompletedIsClean
<1>1. AppInv /\ TypeOK => CompletedIsClean
  BY DEF AppInv, TypeOK, CompletedIsClean
<1> QED
  BY <1>1, AppInvariant, SlotTypes, PTL

\* No step of any run, of any overlapping run or of the environment drops databases of a
\* live run, but for its own cleanup while its application is not running.
THEOREM LiveDatabasesKept == Spec => LiveRunsKeepDatabases
<1> DEFINE Keeps == \A p \in databases \ databases' :
                       Live(p) => phase[p] \in {"own", "dropping"} /\ p \notin apps
<1>1. AgeInv /\ AppInv /\ [Next]_vars => [Keeps]_vars
  <2> SUFFICES ASSUME AgeInv, AppInv, Next, NEW p \in databases \ databases', Live(p)
               PROVE  phase[p] \in {"own", "dropping"} /\ p \notin apps
    OBVIOUS
  <2> USE DEF AgeInv, TypeOK, Retiring, AppInv, NoWriter, cleanup, clocks
  <2>1. ASSUME NEW r \in Runs, RetireDrops(r) PROVE FALSE
    BY <2>1 DEF RetireDrops
  <2>2. CASE \E r \in Runs : DropOwn(r)
    BY <2>2 DEF DropOwn
  <2>3. CASE UNCHANGED databases
    BY <2>3
  <2>4. CASE \E r \in Runs : AppWrites(r)
    BY <2>4 DEF AppWrites
  <2> QED
    BY <2>1, <2>2, <2>3, <2>4 DEF Next, RunStep, StartRun, CallClearSlot, ListSlot,
       LeaveActive, BeginRetire, RetireReturns, RetireFails, BeginOwn, Deploy, BeginTeardown,
       StopApplication, StopFails, DropReturns, DropFails, DeleteNamespace, Crash, Reclaim,
       TimePasses
<1> QED
  BY <1>1, AgeInvariant, AppInvariant, PTL DEF Spec, LiveRunsKeepDatabases
===========================================================================
