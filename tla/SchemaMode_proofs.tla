------------------------- MODULE SchemaMode_proofs -------------------------
(***************************************************************************)
(* Proofs about SchemaMode, and about the port-forward object in it: types *)
(* of all variables, databases that stay dropped, port-forwards that are   *)
(* not lost, and retries that only disturbances use up.                    *)
(***************************************************************************)
EXTENDS SchemaMode, TLAPS

USE NoneIsNoKid, RetriesAssumption, CallersAssumption

\* A step of one of the callers of the port-forward.
LEMMA CallerTypes ==
    ASSUME ForwardTypeOK, NEW c \in Callers, CallerStep(c) \/ ReadyTimeout(c)
    PROVE  ForwardTypeOK'
  <1> USE DEF ForwardTypeOK, ProcessStates, Stages, Continuations, At
  <1>0. call[c].then \in Continuations /\ call[c].kid \in Kids \cup {None}
    OBVIOUS
  <1>1. CASE KeepChild(c) \/ SpawnFails(c) \/ ReadyTimeout(c)
    BY <1>1 DEF KeepChild, SpawnFails, ReadyTimeout
  <1>2. CASE Spawn(c)
    BY <1>2 DEF Spawn, Fresh
  <1>3. CASE NothingToStop(c)
    BY <1>0, <1>3 DEF NothingToStop, Continue
  <1>4. CASE Signal(c)
    BY <1>0, <1>4 DEF Signal, Running
  <1>5. CASE Exited(c)
    BY <1>0, <1>5 DEF Exited, Continue
  <1> QED BY <1>1, <1>2, <1>3, <1>4, <1>5 DEF CallerStep

\* A step of a process.
LEMMA KidTypes ==
    ASSUME ForwardTypeOK, NEW k \in Kids, Announce(k) \/ End(k)
    PROVE  ForwardTypeOK'
  BY DEF ForwardTypeOK, ProcessStates, Stages, Continuations, Announce, End

\* The process nobody told to end is the child, whoever calls the object in what order.
LEMMA CallerKeepsChild ==
    ASSUME ForwardTypeOK, Unattended \subseteq {child},
           NEW c \in Callers, CallerStep(c) \/ ReadyTimeout(c)
    PROVE  (Unattended \subseteq {child})'
  <1> USE DEF ForwardTypeOK, Unattended
  <1>1. CASE KeepChild(c) \/ SpawnFails(c) \/ ReadyTimeout(c) \/ Exited(c)
    BY <1>1 DEF KeepChild, SpawnFails, ReadyTimeout, Exited
  <1>2. CASE Spawn(c)
    BY <1>2 DEF Spawn, Fresh
  <1>3. CASE NothingToStop(c)
    BY <1>3 DEF NothingToStop, Running, Live
  <1>4. CASE Signal(c)
    BY <1>4 DEF Signal, Running
  <1> QED BY <1>1, <1>2, <1>3, <1>4 DEF CallerStep

LEMMA KidKeepsChild ==
    ASSUME ForwardTypeOK, Unattended \subseteq {child}, NEW k \in Kids, Announce(k) \/ End(k)
    PROVE  (Unattended \subseteq {child})'
  BY DEF ForwardTypeOK, Unattended, Announce, End

---------------------------------------------------------------------------
LEMMA InitTypeOK == Init => TypeOK
  <1> SUFFICES ASSUME Init PROVE TypeOK
    OBVIOUS
  <1>1. ForwardTypeOK
    BY DEF Init, ForwardInit, ForwardTypeOK, ProcessStates, Stages, Continuations
  <1>2. /\ body \in Setup /\ body # "restart" /\ goal \in Setup
        /\ attempt \in 0..MaxRetries /\ faults \in 0..MaxRetries /\ tls \in BOOLEAN
    BY DEF Init, Setup
  <1>3. direct \in BOOLEAN /\ serverTls \in BOOLEAN /\ restricted \in BOOLEAN
    BY DEF Init
  <1>4. databases \in SUBSET Databases /\ todo = {}
    BY DEF Init
  <1>5. hook = "waiting" /\ app = "separate" /\ config = "separate"
    BY DEF Init
  <1>6. restarter \in BOOLEAN /\ assigned \in BOOLEAN /\ missed \in BOOLEAN
    BY DEF Init
  <1> QED BY <1>1, <1>2, <1>3, <1>4, <1>5, <1>6 DEF TypeOK

\* The calls of the body into the port-forward change where it stands there, only.
LEMMA BodyForward ==
    ASSUME ForwardTypeOK, BodyStep
    PROVE  /\ ForwardTypeOK'
           /\ UNCHANGED <<proc, child, output>>
           /\ UNCHANGED call \/ (Start("body") /\ body = "open") \/ (Restart("body") /\ restarter)
  <1>1. /\ UNCHANGED <<proc, child, output>>
        /\ UNCHANGED call \/ (Start("body") /\ body = "open") \/ (Restart("body") /\ restarter)
    BY DEF BodyStep, forward, Discover, OpenForward, ForwardOpened, Connected, AfterFailure, SslRefused,
           ConnectionRefused, Hiccup, Restarted, StopApplication, ListDatabases, DropDatabase,
           AllDropped, PrepareRole, GrantSchema, VerifyRole, ConfigureRhdh, ResumeApplication,
           AssignHarness, ConnectAsUser, ProbePermissions, AwaitRollout, VerifyCatalogSchema,
           StepFails, Go
  <1> QED BY <1>1 DEF ForwardTypeOK, Start, Restart, At, Stages, Continuations

\* What the body does to its own variables, to those of the worker, and to the cluster.
LEMMA CodeTypes ==
    ASSUME TypeOK, BodyStep
    PROVE  /\ body' \in Setup \cup Prepared \cup Finished \cup {"dial", "restart"}
           /\ goal' \in Setup \cup Prepared
           /\ attempt' \in 0..MaxRetries /\ faults' \in 0..MaxRetries /\ tls' \in BOOLEAN
           /\ body' = "restart" => attempt' \in 1..(MaxRetries - 1)
  <1> USE DEF TypeOK, Setup, Prepared, Finished, Go
  <1>0. ASSUME NEW from, NEW next \in Setup \cup Prepared, Connect(from, next)
        PROVE  /\ body' = "dial" /\ goal' \in Setup \cup Prepared
               /\ attempt' \in 0..MaxRetries /\ faults' \in 0..MaxRetries /\ tls' \in BOOLEAN
    BY <1>0 DEF Connect
  <1>1. CASE Discover
    BY <1>1 DEF Discover
  <1>2. CASE OpenForward \/ ForwardOpened
    BY <1>2 DEF OpenForward, ForwardOpened
  <1>3. CASE Connected \/ Restarted
    BY <1>3 DEF Connected, Restarted
  <1>4. CASE SslRefused \/ ConnectionRefused \/ Hiccup(TRUE) \/ Hiccup(FALSE)
    BY <1>4 DEF SslRefused, ConnectionRefused, Hiccup, OneMore, AfterFailure
  <1>5. CASE ListDatabases \/ (\E d \in Databases : DropDatabase(d)) \/ AllDropped
    BY <1>5 DEF ListDatabases, DropDatabase, AllDropped
  <1>6. CASE StopApplication \/ PrepareRole \/ GrantSchema
    BY <1>0, <1>6 DEF StopApplication, PrepareRole, GrantSchema
  <1>7. CASE AssignHarness \/ ConnectAsUser \/ AwaitRollout
    BY <1>0, <1>7 DEF AssignHarness, ConnectAsUser, AwaitRollout
  <1>9. CASE VerifyRole \/ ConfigureRhdh \/ ResumeApplication
    BY <1>9 DEF VerifyRole, ConfigureRhdh, ResumeApplication
  <1>10. CASE ProbePermissions \/ VerifyCatalogSchema
    BY <1>10 DEF ProbePermissions, VerifyCatalogSchema
  <1>8. CASE StepFails
    BY <1>8 DEF StepFails
  <1> QED BY <1>1, <1>2, <1>3, <1>4, <1>5, <1>6, <1>7, <1>8, <1>9, <1>10 DEF BodyStep

LEMMA WorkerTypes ==
    ASSUME TypeOK, BodyStep
    PROVE  /\ UNCHANGED <<hook, missed, server>>
           /\ restarter' \in BOOLEAN /\ assigned' \in BOOLEAN
  BY DEF TypeOK, BodyStep, playwright, server, Discover, OpenForward, ForwardOpened, Returned,
         Connected, AfterFailure, SslRefused, ConnectionRefused, Hiccup, Restarted, StopApplication,
         ListDatabases, DropDatabase, AllDropped, PrepareRole, GrantSchema, VerifyRole, ConfigureRhdh,
         ResumeApplication, AssignHarness, ConnectAsUser, ProbePermissions, AwaitRollout,
         VerifyCatalogSchema, StepFails

LEMMA ClusterTypes ==
    ASSUME TypeOK, BodyStep
    PROVE  /\ app' \in {"none", "separate", "schema"} /\ config' \in {"separate", "schema"}
           /\ databases' \in SUBSET Databases /\ todo' \in SUBSET Databases
           /\ restricted' \in BOOLEAN
  BY DEF TypeOK, BodyStep, cluster, Discover, OpenForward, ForwardOpened, Connected,
         SslRefused, ConnectionRefused, Hiccup, Restarted, StopApplication,
         ListDatabases, DropDatabase, AllDropped, PrepareRole, GrantSchema, VerifyRole, ConfigureRhdh,
         ResumeApplication, AssignHarness, ConnectAsUser, ProbePermissions, AwaitRollout,
         VerifyCatalogSchema, StepFails

\* A step of the body.
LEMMA BodyTypes == ASSUME TypeOK, BodyStep PROVE TypeOK'
  <1>1. ForwardTypeOK'
    BY BodyForward DEF TypeOK
  <1> QED BY <1>1, CodeTypes, WorkerTypes, ClusterTypes DEF TypeOK, server

LEMMA NextTypeOK == ASSUME TypeOK, [Next]_vars PROVE TypeOK'
  <1> USE DEF TypeOK, code, playwright, cluster, server
  <1>1. CASE BodyStep
    BY <1>1, BodyTypes
  <1>2. CASE AfterAll
    <2>1. ForwardTypeOK'
      BY <1>2 DEF AfterAll, Stop, At, forward, ForwardTypeOK, Stages, Continuations
    <2>2. missed' \in BOOLEAN
      BY <1>2 DEF AfterAll
    <2>3. UNCHANGED <<body, goal, attempt, faults, tls>>
      BY <1>2 DEF AfterAll
    <2> QED BY <1>2, <2>1, <2>2, <2>3 DEF AfterAll
  <1>3. CASE HarnessStopped \/ WorkerExits
    BY <1>3 DEF HarnessStopped, WorkerExits, forward, ForwardTypeOK
  <1>4. ASSUME NEW c \in Callers, SessionStep(c) PROVE TypeOK'
    <2>1. ForwardTypeOK'
      BY <1>4, CallerTypes DEF SessionStep
    <2> QED BY <1>4, <2>1 DEF SessionStep, OneMore
  <1>5. ASSUME NEW k \in Kids, ForwardAnnounces(k) \/ ForwardEnds(k) PROVE TypeOK'
    <2>1. ForwardTypeOK'
      BY <1>5, KidTypes DEF ForwardAnnounces, ForwardEnds
    <2> QED BY <1>5, <2>1 DEF ForwardAnnounces, ForwardEnds, OneMore
  <1>6. ASSUME NEW d \in Databases, PluginCreatesDatabase(d) PROVE TypeOK'
    BY <1>6 DEF PluginCreatesDatabase, forward, ForwardTypeOK
  <1>7. CASE UNCHANGED vars
    BY <1>7 DEF vars, forward, ForwardTypeOK
  <1> QED BY <1>1, <1>2, <1>3, <1>4, <1>5, <1>6, <1>7 DEF Next

\* The variables have their types in every reachable state.
THEOREM SchemaModeTypes == Spec => []TypeOK
  BY InitTypeOK, NextTypeOK, PTL DEF Spec

---------------------------------------------------------------------------
\* From the listing of the databases to the resumption RHDH has no pods, and afterwards
\* only such as keep their plugins in schemas.
Stopped == {"list", "drop", "role", "grant", "verify", "configure", "resume"}
Resumed == {"assign", "user", "probe", "rollout", "catalog", "done"}

Quiet ==
    /\ Next1 \in Stopped => app = "none"
    /\ Next1 \in Resumed => app = "schema"
    /\ Next1 = "resume" => config = "schema"
    /\ Next1 = "drop" => databases \subseteq todo
    /\ SchemaStaysClean

\* The attempts to connect change neither the cluster nor what comes next.
LEMMA DiallingIsQuiet ==
    ASSUME TypeOK, Quiet,
           SslRefused \/ ConnectionRefused \/ Hiccup(TRUE) \/ Hiccup(FALSE) \/ Restarted \/ Connected
    PROVE  Quiet'
  <1>1. UNCHANGED cluster /\ (Next1' = Next1 \/ Next1' = "gaveup")
    BY DEF SslRefused, ConnectionRefused, Hiccup, Restarted, Connected, AfterFailure, Go, Next1,
           TypeOK, Setup, Prepared
  <1> QED BY <1>1 DEF Quiet, SchemaStaysClean, Stopped, Resumed, Prepared, cluster

\* A step of the body.
LEMMA BodyIsQuiet == ASSUME TypeOK, Quiet, BodyStep PROVE Quiet'
  <1> USE DEF Quiet, SchemaStaysClean, Stopped, Resumed, Prepared, Next1, cluster, Go, Connect
  <1>1. CASE Discover \/ OpenForward \/ ForwardOpened
    BY <1>1 DEF Discover, OpenForward, ForwardOpened
  <1>2. CASE SslRefused \/ ConnectionRefused \/ Hiccup(TRUE) \/ Hiccup(FALSE) \/ Restarted \/ Connected
    BY <1>2, DiallingIsQuiet
  <1>3. CASE StopApplication
    BY <1>3 DEF StopApplication
  <1>4. CASE ListDatabases
    BY <1>4 DEF ListDatabases
  <1>5. ASSUME NEW d \in Databases, DropDatabase(d) PROVE Quiet'
    BY <1>5 DEF DropDatabase
  <1>6. CASE AllDropped
    BY <1>6 DEF AllDropped
  <1>7. CASE PrepareRole \/ GrantSchema \/ VerifyRole
    BY <1>7 DEF PrepareRole, GrantSchema, VerifyRole
  <1>8. CASE ConfigureRhdh \/ ResumeApplication
    BY <1>8 DEF ConfigureRhdh, ResumeApplication
  <1>9. CASE AssignHarness \/ ConnectAsUser \/ ProbePermissions
    BY <1>9 DEF AssignHarness, ConnectAsUser, ProbePermissions
  <1>10. CASE AwaitRollout \/ VerifyCatalogSchema
    BY <1>10 DEF AwaitRollout, VerifyCatalogSchema
  <1>11. CASE StepFails
    BY <1>11 DEF StepFails
  <1> QED BY <1>1, <1>2, <1>3, <1>4, <1>5, <1>6, <1>7, <1>8, <1>9, <1>10, <1>11 DEF BodyStep

LEMMA NextIsQuiet == ASSUME TypeOK, Quiet, [Next]_vars PROVE Quiet'
  <1> USE DEF Quiet, SchemaStaysClean, Stopped, Resumed, Prepared, Next1, cluster, code
  <1>1. CASE BodyStep
    BY <1>1, BodyIsQuiet
  <1>2. CASE AfterAll \/ HarnessStopped \/ WorkerExits
    BY <1>2 DEF AfterAll, HarnessStopped, WorkerExits
  <1>3. ASSUME NEW c \in Callers, SessionStep(c) PROVE Quiet'
    BY <1>3 DEF SessionStep
  <1>4. ASSUME NEW k \in Kids, ForwardAnnounces(k) \/ ForwardEnds(k) PROVE Quiet'
    BY <1>4 DEF ForwardAnnounces, ForwardEnds
  <1>5. ASSUME NEW d \in Databases, PluginCreatesDatabase(d) PROVE Quiet'
    BY <1>5 DEF PluginCreatesDatabase
  <1>6. CASE UNCHANGED vars
    BY <1>6 DEF vars
  <1> QED BY <1>1, <1>2, <1>3, <1>4, <1>5, <1>6 DEF Next

\* A database dropped by the setup stays dropped, however many there are and however
\* often the port-forward fails, until and beyond the tests that look for them.
THEOREM SchemaModeStaysClean == Spec => []SchemaStaysClean
  <1>1. Init => Quiet
    BY DEF Init, Quiet, SchemaStaysClean, Stopped, Resumed, Prepared, Next1
  <1>2. Quiet => SchemaStaysClean
    BY DEF Quiet
  <1> QED BY <1>1, <1>2, InitTypeOK, NextTypeOK, NextIsQuiet, PTL DEF Spec

---------------------------------------------------------------------------
\* Where the hook is in the object: it stops, and from the signal on there is no child.
HookStops ==
    /\ call["hook"].at \in {"stop", "exit", "idle"}
    /\ call["hook"].then = "ok"
    /\ call["hook"].at # "stop" => child = None

\* Once afterAll has taken the harness from a body that was not inside it, the body does
\* not call it again; and when the stop has returned, or only awaits the exit, there is
\* no child.
Taken ==
    /\ Unattended \subseteq {child}
    /\ assigned => ~direct /\ Next1 \notin {"discover", "open", "opening"}
    /\ hook = "waiting" => Idle("hook")
    /\ ~missed /\ hook # "waiting" =>
          /\ assigned /\ ~restarter /\ Idle("body")
          /\ hook = "stopping" => HookStops
          /\ hook \in {"stopped", "exited"} => child = None /\ Idle("hook")

LEMMA HookStep ==
    ASSUME ForwardTypeOK, HookStops, CallerStep("hook") \/ ReadyTimeout("hook")
    PROVE  HookStops' /\ call'["body"] = call["body"]
  BY DEF ForwardTypeOK, HookStops, CallerStep, ReadyTimeout, KeepChild, Spawn, SpawnFails, NothingToStop,
         Signal, Exited, Continue, At

LEMMA KidsLeaveStops ==
    ASSUME ForwardTypeOK, NEW k \in Kids, Announce(k) \/ End(k)
    PROVE  /\ child' = child
           /\ \A c \in Callers : call[c].at # "ready" => call'[c] = call[c]
  BY DEF ForwardTypeOK, Announce, End, AwaitsReady

LEMMA IdleCannotStep ==
    ASSUME NEW c \in Callers, CallerStep(c) \/ ReadyTimeout(c)
    PROVE  ~Idle(c)
  BY DEF CallerStep, ReadyTimeout, KeepChild, Spawn, SpawnFails, NothingToStop, Signal, Exited, Idle

\* Where the body is, and what a body that has handed its harness over does not do any more.
LEMMA BodyAfterAssignment ==
    ASSUME TypeOK, BodyStep, assigned => ~direct /\ Next1 \notin {"discover", "open", "opening"}
    PROVE  /\ assigned' => ~direct /\ Next1' \notin {"discover", "open", "opening"}
           /\ assigned => assigned' /\ restarter' = restarter
  <1> USE DEF TypeOK, Setup, Prepared, Go, Next1
  <1>1. CASE Discover \/ OpenForward \/ ForwardOpened
    BY <1>1 DEF Discover, OpenForward, ForwardOpened, playwright
  <1>2. CASE Connected \/ Restarted
    BY <1>2 DEF Connected, Restarted, playwright
  <1>3. CASE SslRefused \/ ConnectionRefused \/ Hiccup(TRUE) \/ Hiccup(FALSE)
    BY <1>3 DEF SslRefused, ConnectionRefused, Hiccup, AfterFailure
  <1>4. CASE ListDatabases \/ (\E d \in Databases : DropDatabase(d)) \/ AllDropped
    BY <1>4 DEF ListDatabases, DropDatabase, AllDropped, playwright
  <1>5. CASE StopApplication \/ PrepareRole \/ GrantSchema \/ ConnectAsUser \/ AwaitRollout
    BY <1>5 DEF StopApplication, PrepareRole, GrantSchema, ConnectAsUser, AwaitRollout, Connect, playwright
  <1>6. CASE AssignHarness
    BY <1>6 DEF AssignHarness, Connect
  <1>7. CASE VerifyRole \/ ConfigureRhdh \/ ResumeApplication \/ ProbePermissions \/ VerifyCatalogSchema
    BY <1>7 DEF VerifyRole, ConfigureRhdh, ResumeApplication, ProbePermissions, VerifyCatalogSchema, playwright
  <1>8. CASE StepFails
    BY <1>8 DEF StepFails, playwright
  <1> QED BY <1>1, <1>2, <1>3, <1>4, <1>5, <1>6, <1>7, <1>8 DEF BodyStep

LEMMA NextIsTaken == ASSUME TypeOK, Taken, [Next]_vars PROVE Taken'
  <1>0. ForwardTypeOK /\ Unattended \subseteq {child}
    BY DEF TypeOK, Taken
  <1>1. CASE BodyStep
    <2>1. /\ UNCHANGED <<proc, child, output, hook, missed, direct>>
          /\ UNCHANGED call \/ (Start("body") /\ body = "open") \/ (Restart("body") /\ restarter)
      BY <1>0, <1>1, BodyForward, WorkerTypes DEF server
    <2>2. /\ assigned' => ~direct /\ Next1' \notin {"discover", "open", "opening"}
          /\ assigned => assigned' /\ restarter' = restarter
      BY <1>1, BodyAfterAssignment DEF Taken
    <2>3. call'["hook"] = call["hook"]
      BY <1>0, <2>1 DEF Start, Restart, At, ForwardTypeOK
    <2>4. ~missed /\ hook # "waiting" => UNCHANGED call
      BY <2>1 DEF Taken, Next1
    <2> QED BY <2>1, <2>2, <2>3, <2>4 DEF Taken, HookStops, Idle, Unattended
  <1>2. CASE AfterAll
    <2>1. /\ UNCHANGED <<proc, child, output, body, goal, assigned, direct>>
          /\ hook = "waiting" /\ hook' # "waiting"
      BY <1>2 DEF AfterAll, code, forward, server
    <2>2. ~missed' => assigned /\ Idle("body")
      BY <1>2 DEF AfterAll
    <2>3. CASE assigned
      <3>1. hook' = "stopping" /\ ~restarter' /\ Stop("hook")
        BY <1>2, <2>3 DEF AfterAll
      <3>2. /\ call'["hook"] = [at |-> "stop", kid |-> None, then |-> "ok"]
            /\ call'["body"] = call["body"]
        BY <1>0, <3>1 DEF Stop, At, ForwardTypeOK
      <3> QED BY <2>1, <2>2, <2>3, <3>1, <3>2 DEF Taken, HookStops, Idle, Unattended, Next1
    <2> QED BY <2>1, <2>2, <2>3 DEF Taken, Unattended, Next1
  <1>3. CASE HarnessStopped \/ WorkerExits
    BY <1>3 DEF HarnessStopped, WorkerExits, Taken, HookStops, Idle, Unattended, Next1, forward, code, server
  <1>4. ASSUME NEW c \in Callers, SessionStep(c) PROVE Taken'
    <2>1. UNCHANGED <<body, goal, hook, restarter, assigned, missed, direct>> /\ ~Idle(c)
      BY <1>4, IdleCannotStep DEF SessionStep, code, playwright, server
    <2>2. (Unattended \subseteq {child})'
      BY <1>0, <1>4, CallerKeepsChild DEF SessionStep
    <2>3. CASE hook = "waiting" \/ missed
      <3>1. hook = "waiting" => c = "body" /\ call'["hook"] = call["hook"]
        BY <1>0, <1>4, <2>1 DEF Taken, SessionStep, CallerStep, ReadyTimeout, KeepChild, Spawn, SpawnFails,
           NothingToStop, Signal, Exited, Continue, At, ForwardTypeOK
      <3> QED BY <2>1, <2>2, <2>3, <3>1 DEF Taken, Next1, Idle
    <2>4. CASE hook # "waiting" /\ ~missed
      <3>1. c = "hook" /\ hook = "stopping" /\ HookStops
        BY <2>1, <2>4 DEF Taken, TypeOK
      <3>2. HookStops' /\ call'["body"] = call["body"]
        BY <1>0, <1>4, <3>1, HookStep DEF SessionStep
      <3> QED BY <2>1, <2>2, <2>4, <3>1, <3>2 DEF Taken, Next1, Idle
    <2> QED BY <2>3, <2>4
  <1>5. ASSUME NEW k \in Kids, ForwardAnnounces(k) \/ ForwardEnds(k) PROVE Taken'
    <2>1. UNCHANGED <<body, goal, hook, restarter, assigned, missed, direct>>
      BY <1>5 DEF ForwardAnnounces, ForwardEnds, code, playwright, server
    <2>2. (Unattended \subseteq {child})'
      BY <1>0, <1>5, KidKeepsChild DEF ForwardAnnounces, ForwardEnds
    <2>3. /\ child' = child
          /\ \A c \in Callers : call[c].at # "ready" => call'[c] = call[c]
      BY <1>0, <1>5, KidsLeaveStops DEF ForwardAnnounces, ForwardEnds
    <2> QED BY <2>1, <2>2, <2>3 DEF Taken, HookStops, Idle, Next1
  <1>6. ASSUME NEW d \in Databases, PluginCreatesDatabase(d) PROVE Taken'
    BY <1>6 DEF PluginCreatesDatabase, Taken, HookStops, Idle, Unattended, Next1, forward, code, playwright, server
  <1>7. CASE UNCHANGED vars
    BY <1>7 DEF vars, Taken, HookStops, Idle, Unattended, Next1, forward, code, playwright, server
  <1> QED BY <1>1, <1>2, <1>3, <1>4, <1>5, <1>6, <1>7 DEF Next

\* No port-forward is lost, for any number of processes and retries: the object knows
\* every process nobody told to end, and none is left by a worker whose afterAll got the
\* harness while the body was not inside it.
THEOREM SchemaModeForwardAccounted == Spec => []ForwardAccounted
  <1>1. Init => Taken
    BY DEF Init, ForwardInit, Taken, Idle, Unattended
  <1>2. Taken => ForwardAccounted
    BY DEF Taken, ForwardAccounted, Unattended
  <1> QED BY <1>1, <1>2, InitTypeOK, NextTypeOK, NextIsTaken, PTL DEF Spec

---------------------------------------------------------------------------
(***************************************************************************)
(* The retries of a connection, until afterAll comes.  An attempt fails    *)
(* for one disturbance of its own, or because the port-forward is gone;    *)
(* then it is restarted, and gone again only after another disturbance.    *)
(* So from the second attempt on each failure has been paid for.           *)
(***************************************************************************)
\* Without a direct server there is a restarter from the opening on, and only then does
\* anything connect.
Opening == {"discover", "open", "opening"}

RestarterInv ==
    /\ body \in {"dial", "restart"} => goal \notin Opening
    /\ body \in ({"dial", "restart"} \cup Setup \cup Prepared) \ Opening => direct \/ restarter

\* The body is inside the object only while it opens or restarts, and what it told to end
\* has ended when it leaves.
BodyInv ==
    /\ body \notin {"opening", "restart"} => Idle("body")
    /\ RestarterInv
    /\ \A k \in Kids : proc[k] = "dying" => call["body"].at = "exit" /\ call["body"].kid = k
    /\ call["body"].at = "exit" => child = None

\* What was paid before attempt n: all failures since attempt 2, and if the server is out
\* of reach already, the one to come.
DialInv ==
    body = "dial" /\ attempt >= 1 => faults >= attempt - (IF Reachable THEN 2 ELSE 1)

\* In a restart: a port-forward that is not ready afterwards was disturbed once more.
RestartInv ==
    body = "restart" =>
        LET b == call["body"] IN
        /\ faults >= attempt - 1
        /\ b.at = "start" => child = None
        /\ b.at = "ready" => child = b.kid /\ child # None /\ proc[child] = "starting"
        /\ b.at = "idle" /\ ~Reachable => faults >= attempt
        /\ b.at \in {"stop", "exit"} => b.then = "start" \/ (b.then = "failed" /\ faults >= attempt)

PaidInv ==
    /\ DialInv
    /\ RestartInv
    /\ body = "gaveup" => faults >= MaxRetries - 1

Counted == hook = "waiting" => BodyInv /\ (tls = serverTls => PaidInv)

\* How the body enters the object and leaves it.
LEMMA BodyEnters ==
    ASSUME TypeOK, BodyStep
    PROVE  /\ body \in {"opening", "restart"} =>
                 Idle("body") /\ UNCHANGED call /\ body' \notin {"opening", "restart"}
           /\ body' \notin {"opening", "restart"} => UNCHANGED call
           /\ Start("body") \/ Restart("body") \/ UNCHANGED call
  <1> USE DEF TypeOK, Setup, Prepared, Go
  <1>1. CASE Discover \/ OpenForward \/ ForwardOpened
    BY <1>1 DEF Discover, OpenForward, ForwardOpened, forward
  <1>2. CASE Connected \/ Restarted
    BY <1>2 DEF Connected, Restarted, forward
  <1>3. CASE SslRefused \/ ConnectionRefused \/ Hiccup(TRUE) \/ Hiccup(FALSE)
    BY <1>3 DEF SslRefused, ConnectionRefused, Hiccup, AfterFailure, forward
  <1>4. CASE ListDatabases \/ (\E d \in Databases : DropDatabase(d)) \/ AllDropped
    BY <1>4 DEF ListDatabases, DropDatabase, AllDropped, forward
  <1>5. CASE StopApplication \/ PrepareRole \/ GrantSchema \/ AssignHarness \/ ConnectAsUser \/ AwaitRollout
    BY <1>5 DEF StopApplication, PrepareRole, GrantSchema, AssignHarness, ConnectAsUser, AwaitRollout,
                Connect, forward
  <1>6. CASE VerifyRole \/ ConfigureRhdh \/ ResumeApplication \/ ProbePermissions \/ VerifyCatalogSchema
    BY <1>6 DEF VerifyRole, ConfigureRhdh, ResumeApplication, ProbePermissions, VerifyCatalogSchema, forward
  <1>7. CASE StepFails
    BY <1>7 DEF StepFails, forward
  <1> QED BY <1>1, <1>2, <1>3, <1>4, <1>5, <1>6, <1>7 DEF BodyStep

\* The body keeps the restarter it got from the opening.
LEMMA RestarterBound ==
    ASSUME TypeOK, BodyStep, RestarterInv
    PROVE  RestarterInv'
  <1> USE DEF TypeOK, Setup, Prepared, Go, RestarterInv, Opening, server
  <1>1. CASE Discover \/ OpenForward \/ ForwardOpened
    BY <1>1 DEF Discover, OpenForward, ForwardOpened, playwright
  <1>2. CASE Connected \/ Restarted
    BY <1>2 DEF Connected, Restarted, playwright
  <1>3. CASE SslRefused \/ ConnectionRefused \/ Hiccup(TRUE) \/ Hiccup(FALSE)
    BY <1>3 DEF SslRefused, ConnectionRefused, Hiccup, AfterFailure
  <1>4. CASE ListDatabases \/ (\E d \in Databases : DropDatabase(d)) \/ AllDropped
    BY <1>4 DEF ListDatabases, DropDatabase, AllDropped, playwright
  <1>5. CASE StopApplication \/ PrepareRole \/ GrantSchema \/ AssignHarness \/ ConnectAsUser \/ AwaitRollout
    BY <1>5 DEF StopApplication, PrepareRole, GrantSchema, AssignHarness, ConnectAsUser, AwaitRollout,
                Connect, playwright
  <1>6. CASE VerifyRole \/ ConfigureRhdh \/ ResumeApplication \/ ProbePermissions \/ VerifyCatalogSchema
    BY <1>6 DEF VerifyRole, ConfigureRhdh, ResumeApplication, ProbePermissions, VerifyCatalogSchema, playwright
  <1>7. CASE StepFails
    BY <1>7 DEF StepFails, playwright
  <1> QED BY <1>1, <1>2, <1>3, <1>4, <1>5, <1>6, <1>7 DEF BodyStep

\* The attempts of the body are paid for.
LEMMA BodyPays ==
    ASSUME TypeOK, BodyInv, tls = serverTls => PaidInv, BodyStep
    PROVE  tls' = serverTls' => PaidInv'
  <1>0. UNCHANGED <<proc, child, direct, serverTls>> /\ (Reachable' <=> Reachable)
    BY BodyForward, WorkerTypes DEF TypeOK, server, Reachable
  <1> USE <1>0 DEF TypeOK, Setup, Prepared, PaidInv, DialInv, RestartInv
  <1>1. CASE Connected
    BY <1>1 DEF Connected, Go
  <1>2. CASE SslRefused
    BY <1>2 DEF SslRefused, AfterFailure
  <1>3. ASSUME attempt' = attempt, body' = "restart", Restart("body"), faults' >= attempt - 1
        PROVE  RestartInv'
    BY <1>3 DEF Restart, At, ForwardTypeOK
  <1>4. CASE ConnectionRefused
    <2>1. body = "dial" /\ ~Reachable /\ UNCHANGED <<tls, faults>> /\ AfterFailure(TRUE)
      BY <1>4 DEF ConnectionRefused, AfterFailure
    <2>2. restarter
      BY <2>1 DEF BodyInv, RestarterInv, Opening, Reachable
    <2>3. tls = serverTls /\ attempt >= 1 => faults >= attempt - 1
      BY <2>1
    <2>4. CASE attempt = MaxRetries /\ body' = "gaveup"
      BY <2>1, <2>3, <2>4
    <2>5. CASE attempt = 0 /\ attempt' = attempt + 1 /\ UNCHANGED body
      BY <2>1, <2>5
    <2>6. CASE attempt \in 1..(MaxRetries - 1) /\ body' = "restart" /\ Restart("body") /\ UNCHANGED attempt
      BY <1>3, <2>1, <2>3, <2>6
    <2> QED BY <2>1, <2>2, <2>4, <2>5, <2>6 DEF AfterFailure
  <1>5. ASSUME NEW dead \in BOOLEAN, Hiccup(dead) PROVE tls' = serverTls' => PaidInv'
    <2>1. /\ body = "dial" /\ Reachable /\ UNCHANGED tls /\ AfterFailure(dead)
          /\ faults' = IF faults < MaxRetries THEN faults + 1 ELSE faults
      BY <1>5 DEF Hiccup, AfterFailure, OneMore
    <2>2. tls = serverTls /\ attempt >= 1 => faults' >= attempt - 1
      BY <2>1
    <2> QED BY <1>3, <2>1, <2>2 DEF AfterFailure
  <1>6. CASE Restarted
    BY <1>6 DEF Restarted, Idle
  <1>7. CASE ~(Connected \/ SslRefused \/ ConnectionRefused \/ Hiccup(TRUE) \/ Hiccup(FALSE) \/ Restarted)
    <2>1. \/ body' \notin {"dial", "restart", "gaveup"}
          \/ body' = "dial" /\ attempt' = 0
      BY <1>7 DEF BodyStep, Go, Connect, Discover, OpenForward, ForwardOpened, StopApplication, ListDatabases,
             DropDatabase, AllDropped, PrepareRole, GrantSchema, VerifyRole, ConfigureRhdh,
             ResumeApplication, AssignHarness, ConnectAsUser, ProbePermissions, AwaitRollout,
             VerifyCatalogSchema, StepFails
    <2> QED BY <2>1
  <1> QED BY <1>1, <1>2, <1>4, <1>5, <1>6, <1>7

\* The session, its process and the restart under way.
LEMMA SessionPays ==
    ASSUME TypeOK, Unattended \subseteq {child}, BodyInv, tls = serverTls => PaidInv,
           SessionStep("body")
    PROVE  BodyInv' /\ (tls' = serverTls' => PaidInv')
  <1> DEFINE b == call["body"]
  <1>0. /\ UNCHANGED <<body, goal, attempt, tls, restarter, direct, serverTls>>
        /\ ~Idle("body") /\ body \in {"opening", "restart"}
    BY IdleCannotStep DEF SessionStep, code, playwright, server, BodyInv
  <1>1. /\ faults' >= faults
        /\ SpawnFails("body") \/ ReadyTimeout("body") => faults' = OneMore
    BY DEF SessionStep, OneMore, TypeOK
  <1>2. /\ call' \in [Callers -> [at : Stages, kid : Kids \cup {None}, then : Continuations]]
        /\ \A k \in Kids : proc[k] \in ProcessStates
    BY CallerTypes DEF TypeOK, ForwardTypeOK, SessionStep
  <1> USE DEF TypeOK, ForwardTypeOK, At, Continue, Running, Live
  <1>3. BodyInv'
    <2>1. \A k \in Kids : proc'[k] = "dying" => call'["body"].at = "exit" /\ call'["body"].kid = k
      BY <1>2 DEF SessionStep, CallerStep, KeepChild, Spawn, SpawnFails, NothingToStop, Signal, Exited,
             ReadyTimeout, BodyInv, Idle
    <2>2. call'["body"].at = "exit" => child' = None
      BY <1>2 DEF SessionStep, CallerStep, KeepChild, Spawn, SpawnFails, NothingToStop, Signal, Exited,
             ReadyTimeout
    <2> QED BY <1>0, <2>1, <2>2 DEF BodyInv, RestarterInv
  <1>4. ASSUME RestartInv, body = "restart" PROVE RestartInv'
    <2> DEFINE c == call'["body"]
    <2>0. /\ faults \in Nat /\ faults' \in Nat /\ attempt \in Nat /\ attempt < MaxRetries
          /\ faults' >= faults /\ faults >= attempt - 1 /\ body' = body /\ attempt' = attempt
          /\ SpawnFails("body") \/ ReadyTimeout("body") => faults' >= attempt
      <3>1. attempt \in 1..(MaxRetries - 1) /\ faults \in 0..MaxRetries /\ faults >= attempt - 1
        BY <1>4 DEF RestartInv
      <3>2. /\ faults' \in {faults, OneMore} /\ body' = body /\ attempt' = attempt
            /\ SpawnFails("body") \/ ReadyTimeout("body") => faults' = OneMore
        BY <1>0 DEF SessionStep
      <3>3. OneMore \in {faults, faults + 1} /\ OneMore >= attempt
        BY <3>1 DEF OneMore
      <3> HIDE DEF TypeOK
      <3> QED BY <3>1, <3>2, <3>3
    <2>1. CASE KeepChild("body")
      BY <1>4, <2>1 DEF KeepChild, RestartInv
    <2>2. CASE Spawn("body")
      <3>1. c.at = "ready" /\ c.kid = child' /\ child' \in Kids /\ proc'[child'] = "starting"
        BY <2>2 DEF Spawn, Fresh
      <3> QED BY <2>0, <3>1 DEF RestartInv
    <2>3. CASE SpawnFails("body") \/ ReadyTimeout("body")
      <3>1. (c.at = "stop" /\ c.then = "failed") \/ c.at = "idle"
        BY <2>3 DEF SpawnFails, ReadyTimeout
      <3> QED BY <2>0, <2>3, <3>1 DEF RestartInv
    <2>4. CASE NothingToStop("body") \/ Exited("body")
      <3>1. /\ b.at \in {"stop", "exit"} /\ child' = None
            /\ IF b.then = "start" THEN c.at = "start" ELSE c.at = "idle"
        BY <2>4 DEF NothingToStop, Exited, BodyInv
      <3>2. b.then # "start" => faults >= attempt
        BY <1>4, <3>1 DEF RestartInv
      <3>3. c.at = "start" \/ (c.at = "idle" /\ faults' >= attempt')
        BY <2>0, <3>1, <3>2
      <3> QED BY <2>0, <3>1, <3>3 DEF RestartInv
    <2>5. CASE Signal("body")
      <3>1. b.at = "stop" /\ c.at = "exit" /\ c.then = b.then
        BY <2>5 DEF Signal
      <3>2. c.then = "start" \/ (c.then = "failed" /\ faults' >= attempt')
        BY <1>4, <2>0, <3>1 DEF RestartInv
      <3> QED BY <2>0, <3>1, <3>2 DEF RestartInv
    <2> QED BY <2>1, <2>2, <2>3, <2>4, <2>5 DEF SessionStep, CallerStep
  <1> QED BY <1>0, <1>3, <1>4 DEF PaidInv, DialInv, RestartInv

\* The process of the port-forward: its end while the server is within reach, or while a
\* restart waits for it to be ready, is a disturbance that counts.
LEMMA KidsPay ==
    ASSUME TypeOK, Unattended \subseteq {child}, BodyInv, tls = serverTls => PaidInv,
           NEW k \in Kids, ForwardAnnounces(k) \/ ForwardEnds(k)
    PROVE  BodyInv' /\ (tls' = serverTls' => PaidInv')
  <1> DEFINE b == call["body"]
             c == call'["body"]
  <1>0. UNCHANGED <<body, goal, attempt, tls, restarter, direct, serverTls, child>>
    BY DEF ForwardAnnounces, ForwardEnds, code, playwright, server, Announce, End
  <1>1. /\ faults \in 0..MaxRetries /\ attempt \in 0..MaxRetries /\ faults' \in {faults, OneMore}
        /\ body = "restart" => attempt \in 1..(MaxRetries - 1)
    BY DEF TypeOK, ForwardAnnounces, ForwardEnds
  <1>2. OneMore \in Nat /\ faults' \in Nat /\ faults' >= faults /\ (OneMore = faults + 1 \/ OneMore >= MaxRetries)
    BY <1>1 DEF OneMore
  <1>3. IF AwaitsReady("body", k) /\ ForwardAnnounces(k) THEN c.at = "idle"
        ELSE IF AwaitsReady("body", k) THEN c.at = "stop" /\ c.then = "failed"
        ELSE c = b
    BY DEF TypeOK, ForwardTypeOK, ForwardAnnounces, ForwardEnds, Announce, End
  <1>4. /\ \A j \in Kids \ {k} : proc'[j] = proc[j]
        /\ IF ForwardAnnounces(k) THEN proc[k] = "starting" /\ proc'[k] = "ready"
                                  ELSE proc[k] # "ended" /\ proc'[k] = "ended"
    BY DEF TypeOK, ForwardTypeOK, ForwardAnnounces, ForwardEnds, Announce, End, Live
  <1>5. BodyInv'
    <2>1. body \notin {"opening", "restart"} => Idle("body")'
      BY <1>3 DEF BodyInv, Idle, AwaitsReady
    <2>2. \A j \in Kids : proc'[j] = "dying" => c.at = "exit" /\ c.kid = j
      BY <1>3, <1>4 DEF BodyInv, AwaitsReady
    <2>3. c.at = "exit" => child' = None
      BY <1>0, <1>3 DEF BodyInv
    <2> QED BY <1>0, <2>1, <2>2, <2>3 DEF BodyInv, RestarterInv
  <1>6. Reachable /\ ~Reachable' => faults' = OneMore
    <2>1. Reachable /\ ~Reachable' => ForwardEnds(k) /\ proc[k] = "ready"
      BY <1>0, <1>4 DEF Reachable
    <2> QED BY <2>1 DEF ForwardEnds, Unattended
  <1>7. body = "restart" /\ b.at = "ready" /\ RestartInv =>
           /\ AwaitsReady("body", k) \/ (k # child /\ child = b.kid)
           /\ AwaitsReady("body", k) /\ ForwardEnds(k) => faults' = OneMore
    <2> SUFFICES ASSUME body = "restart", b.at = "ready", RestartInv
                 PROVE  /\ AwaitsReady("body", k) \/ (k # child /\ child = b.kid)
                        /\ AwaitsReady("body", k) /\ ForwardEnds(k) => faults' = OneMore
      OBVIOUS
    <2>1. child = b.kid /\ proc[child] = "starting"
      BY DEF RestartInv
    <2>2. \A j \in Kids \ {child} : proc[j] \notin {"ready", "dying"}
      BY DEF Unattended, BodyInv
    <2> QED BY <2>1, <2>2 DEF AwaitsReady, ForwardEnds, Unattended, PortTaken
  <1>8. ASSUME PaidInv PROVE PaidInv'
    <2>1. DialInv'
      BY <1>0, <1>1, <1>2, <1>6, <1>8 DEF PaidInv, DialInv
    <2>2. body = "gaveup" => faults' >= MaxRetries - 1
      BY <1>1, <1>2, <1>8 DEF PaidInv
    <2>3. ASSUME body = "restart" PROVE RestartInv'
      <3>0. RestartInv /\ faults >= attempt - 1 /\ OneMore >= attempt
        BY <1>1, <1>2, <1>8, <2>3 DEF PaidInv, RestartInv
      <3>1. CASE b.at = "ready"
        <4>1. CASE AwaitsReady("body", k) /\ ForwardAnnounces(k)
          <5>1. c.at = "idle" /\ Reachable'
            BY <1>3, <1>4, <4>1 DEF Reachable
          <5> QED BY <1>0, <1>1, <1>2, <3>0, <5>1 DEF RestartInv
        <4>2. CASE AwaitsReady("body", k) /\ ~ForwardAnnounces(k)
          <5>1. c.at = "stop" /\ c.then = "failed" /\ faults' = OneMore
            BY <1>3, <1>7, <2>3, <3>0, <3>1, <4>2
          <5> QED BY <1>0, <1>1, <1>2, <3>0, <5>1 DEF RestartInv
        <4>3. CASE ~AwaitsReady("body", k)
          <5>1. c = b /\ proc'[child] = proc[child] /\ child \in Kids
            BY <1>3, <1>4, <1>7, <2>3, <3>0, <3>1, <4>3 DEF RestartInv, TypeOK, ForwardTypeOK
          <5> QED BY <1>0, <1>1, <1>2, <2>3, <3>0, <3>1, <5>1 DEF RestartInv
        <4> QED BY <4>1, <4>2, <4>3
      <3>2. CASE b.at # "ready"
        <4>1. c = b
          BY <1>3, <3>2 DEF AwaitsReady
        <4> QED BY <1>0, <1>1, <1>2, <1>6, <2>3, <3>0, <3>2, <4>1 DEF RestartInv
      <3> QED BY <3>1, <3>2
    <2> QED BY <1>0, <2>1, <2>2, <2>3 DEF PaidInv, RestartInv
  <1> QED BY <1>0, <1>5, <1>8

LEMMA NextIsCounted == ASSUME TypeOK, Taken, Counted, [Next]_vars PROVE Counted'
  <1> SUFFICES ASSUME hook' = "waiting" PROVE BodyInv' /\ (tls' = serverTls' => PaidInv')
    BY DEF Counted
  <1>1. CASE BodyStep
    <2>0. hook = "waiting" /\ UNCHANGED <<proc, child>>
      BY <1>1, WorkerTypes, BodyForward DEF TypeOK
    <2>1. tls' = serverTls' => PaidInv'
      BY <1>1, <2>0, BodyPays DEF Counted
    <2>2. RestarterInv'
      BY <1>1, <2>0, RestarterBound DEF Counted, BodyInv
    <2>3. Idle("body") \/ UNCHANGED call
      BY <1>1, <2>0, BodyEnters DEF Counted, BodyInv
    <2>4. body' \notin {"opening", "restart"} => Idle("body")'
      BY <1>1, <2>0, BodyEnters DEF Counted, BodyInv, Idle
    <2>5. UNCHANGED call \/ call'["body"].at \in {"start", "stop"}
      BY <1>1, BodyEnters DEF Start, Restart, At, TypeOK, ForwardTypeOK
    <2> QED BY <2>0, <2>1, <2>2, <2>3, <2>4, <2>5 DEF Counted, BodyInv, Idle
  <1>2. CASE AfterAll \/ HarnessStopped \/ WorkerExits
    BY <1>2 DEF AfterAll, HarnessStopped, WorkerExits
  <1>3. ASSUME NEW c \in Callers, SessionStep(c) PROVE BodyInv' /\ (tls' = serverTls' => PaidInv')
    <2>1. hook = "waiting" /\ c = "body"
      BY <1>3, IdleCannotStep DEF SessionStep, playwright, Taken
    <2> QED BY <1>3, <2>1, SessionPays DEF Counted, Taken
  <1>4. ASSUME NEW k \in Kids, ForwardAnnounces(k) \/ ForwardEnds(k)
        PROVE BodyInv' /\ (tls' = serverTls' => PaidInv')
    <2>1. hook = "waiting"
      BY <1>4 DEF ForwardAnnounces, ForwardEnds, playwright
    <2> QED BY <1>4, <2>1, KidsPay DEF Counted, Taken
  <1>5. CASE (\E d \in Databases : PluginCreatesDatabase(d)) \/ UNCHANGED vars
    BY <1>5 DEF PluginCreatesDatabase, vars, code, playwright, server, forward, Counted, BodyInv,
                RestarterInv, PaidInv, DialInv, RestartInv, Reachable, Idle
  <1> QED BY <1>1, <1>2, <1>3, <1>4, <1>5 DEF Next

\* A connection is given up only after as many disturbances as there are restarts, for
\* any number of attempts: no failure is counted twice, whichever process, call or
\* server fails, and however the restarts and ends of processes interleave.
THEOREM SchemaModeRetriesSuffice == Spec => []RetriesSuffice
  <1>1. Init => Taken /\ Counted
    BY DEF Init, ForwardInit, Taken, Idle, Unattended, Counted, BodyInv, RestarterInv, Opening, PaidInv,
           DialInv, RestartInv, Setup, Prepared
  <1>2. Counted => RetriesSuffice
    BY DEF Counted, PaidInv, RetriesSuffice, GivesUp
  <1> QED BY <1>1, <1>2, InitTypeOK, NextTypeOK, NextIsTaken, NextIsCounted, PTL DEF Spec

=============================================================================
