----------------------- MODULE RuntimeFixture_proofs -----------------------
(***************************************************************************)
(* Proofs about RuntimeFixture: types, what a report and the errors of a   *)
(* teardown say of what is left, and that no tunnel is lost. The first     *)
(* four lemmas are about the port-forward object alone.                    *)
(***************************************************************************)
EXTENDS RuntimeFixture, TLAPS

USE NoneIsNoKid, CallersAssumption

\* A step of one of the callers of the port-forward.
LEMMA CallerTypes ==
    ASSUME ForwardTypeOK, NEW c \in Callers, CallerStep(c) \/ ReadyTimeout(c)
    PROVE  ForwardTypeOK'
  <1> USE DEF ForwardTypeOK, ProcessStates, Stages, Continuations, At
  <1>0. call[c].then \in Continuations /\ call[c].kid \in Kids \cup {None}
    OBVIOUS
  <1>1. CASE KeepChild(c) \/ SpawnFails(c) \/ ReadyTimeout(c)
    BY <1>1 DEF KeepChild, SpawnFails, ReadyTimeout
  <1>2. CASE Spawn(c)
    BY <1>2 DEF Spawn, Fresh
  <1>3. CASE NothingToStop(c)
    BY <1>0, <1>3 DEF NothingToStop, Continue
  <1>4. CASE Signal(c)
    BY <1>0, <1>4 DEF Signal, Running
  <1>5. CASE Exited(c)
    BY <1>0, <1>5 DEF Exited, Continue
  <1> QED BY <1>1, <1>2, <1>3, <1>4, <1>5 DEF CallerStep

\* A step of a process: it settles the start that awaits it, and nothing else.
LEMMA KidStep ==
    ASSUME ForwardTypeOK, NEW k \in Kids, Announce(k) \/ End(k)
    PROVE  /\ ForwardTypeOK'
           /\ child' = child
           /\ \A c \in Callers : call[c].at # "ready" => call'[c] = call[c]
           /\ \A c \in Callers : Idle(c)' => Idle(c) \/ call[c].at = "ready"
           /\ Unattended \subseteq {child} => (Unattended \subseteq {child})'
  BY DEF ForwardTypeOK, ProcessStates, Stages, Continuations, Announce, End, AwaitsReady, Unattended, Idle

\* The process nobody told to end is the child, whoever calls the object in what order.
LEMMA CallerKeepsChild ==
    ASSUME ForwardTypeOK, Unattended \subseteq {child},
           NEW c \in Callers, CallerStep(c) \/ ReadyTimeout(c)
    PROVE  (Unattended \subseteq {child})'
  <1> USE DEF ForwardTypeOK, Unattended
  <1>1. CASE KeepChild(c) \/ SpawnFails(c) \/ ReadyTimeout(c) \/ Exited(c)
    BY <1>1 DEF KeepChild, SpawnFails, ReadyTimeout, Exited
  <1>2. CASE Spawn(c)
    BY <1>2 DEF Spawn, Fresh
  <1>3. CASE NothingToStop(c)
    BY <1>3 DEF NothingToStop, Running, Live
  <1>4. CASE Signal(c)
    BY <1>4 DEF Signal, Running
  <1> QED BY <1>1, <1>2, <1>3, <1>4 DEF CallerStep

\* A caller steps only from inside the object, and moves nobody else.
LEMMA CallersApart ==
    ASSUME ForwardTypeOK, NEW c \in Callers, CallerStep(c) \/ ReadyTimeout(c)
    PROVE  ~Idle(c) /\ \A d \in Callers : d # c => call'[d] = call[d]
  BY DEF ForwardTypeOK, CallerStep, ReadyTimeout, KeepChild, Spawn, SpawnFails, NothingToStop, Signal,
         Exited, Continue, At, Idle

---------------------------------------------------------------------------
\* Where there is a tunnel its port has been read before anything is asked of it.
PortKnown == Cloud /\ (sqlReady \/ step \in {"admin", "clear"}) => port # None

\* A drop is asked for with a path to the server only.
Dropping == step \in {"drop-connect", "drop-databases"} => ~Cloud \/ sqlReady

Types == TypeOK /\ PortKnown /\ Dropping

LEMMA InitTypes == Init => Types
  <1> SUFFICES ASSUME Init PROVE Types
    OBVIOUS
  <1>1. ForwardTypeOK
    BY DEF Init, ForwardInit, ForwardTypeOK, ProcessStates, Stages, Continuations
  <1>2. dialling \in [Callers -> DialSteps]
    BY DEF Init, DialSteps
  <1>3. PortKnown /\ Dropping
    BY DEF Init, PortKnown, Dropping
  <1> QED BY <1>1, <1>2, <1>3 DEF Init, Types, TypeOK, SetupSteps, TestSteps

\* The requests of the callers for a connection.
LEMMA ConnectTypes == ASSUME Types, NEW c \in Callers, ConnectStep(c) PROVE Types'
  <1> USE DEF Types, TypeOK, teardown, world
  <1>1. ForwardTypeOK'
    BY DEF ConnectStep, CheckTunnel, TunnelRestarted, Answered, Restart, At, ForwardTypeOK, Stages,
           Continuations, forward
  <1>2. dialling' \in [Callers -> DialSteps]
    BY DEF ConnectStep, CheckTunnel, TunnelRestarted, Answered, Dial, DialSteps
  <1>3. port' \in Kids \cup {None} /\ (port # None => port' # None)
    BY DEF ConnectStep, CheckTunnel, TunnelRestarted, Answered, ForwardTypeOK
  <1>4. UNCHANGED <<provider, step, test, sqlReady, setupFailed, teardown, late, world>>
    BY DEF ConnectStep
  <1>5. PortKnown' /\ Dropping'
    BY <1>3, <1>4 DEF PortKnown, Dropping, Cloud
  <1>6. (step \in {"drop-connect", "drop-databases"} /\ Cloud => port # None)'
    BY <1>3, <1>4 DEF Cloud
  <1> QED BY <1>1, <1>2, <1>3, <1>4, <1>5, <1>6

\* The setup.
LEMMA SetupTypes ==
    ASSUME Types,
           \/ ResetNamespace \/ CreateSecrets \/ StartProxy \/ StartTunnel \/ TunnelStarted
           \/ AdminConnected \/ ClearSlot \/ DeployStarts \/ UseRuntime \/ SetupFails
    PROVE  Types'
  <1>1. ForwardTypeOK'
    BY DEF Types, TypeOK, ForwardTypeOK, Stages, Continuations, forward, Start, Stop, At,
           ResetNamespace, CreateSecrets, StartProxy, StartTunnel, TunnelStarted, AdminConnected, ClearSlot,
           DeployStarts, UseRuntime, SetupFails
  <1>2. dialling' \in [Callers -> DialSteps]
    BY DEF Types, TypeOK, DialSteps, Ask, Dial, sql,
           ResetNamespace, CreateSecrets, StartProxy, StartTunnel, TunnelStarted, AdminConnected, ClearSlot,
           DeployStarts, UseRuntime, SetupFails
  <1>3. provider' = provider /\ port' \in Kids \cup {None} /\ (port # None => port' # None)
    BY DEF Types, TypeOK, ForwardTypeOK, To, Ask, Dial, sql,
           ResetNamespace, CreateSecrets, StartProxy, StartTunnel, TunnelStarted, AdminConnected, ClearSlot,
           DeployStarts, UseRuntime, SetupFails
  <1>4. /\ step' \in SetupSteps \cup {"test"} \cup TeardownSteps \cup Over
        /\ test' \in TestSteps
    BY DEF Types, TypeOK, To, SetupSteps, TeardownSteps, Over, TestSteps,
           ResetNamespace, CreateSecrets, StartProxy, StartTunnel, TunnelStarted, AdminConnected, ClearSlot,
           DeployStarts, UseRuntime, SetupFails
  <1>5. sqlReady' \in BOOLEAN /\ (sqlReady => sqlReady') /\ setupFailed' \in BOOLEAN
    BY DEF Types, TypeOK,
           ResetNamespace, CreateSecrets, StartProxy, StartTunnel, TunnelStarted, AdminConnected, ClearSlot,
           DeployStarts, UseRuntime, SetupFails
  <1>6. late' \in SUBSET {"connect", "deploy"}
    BY DEF Types, TypeOK, To,
           ResetNamespace, CreateSecrets, StartProxy, StartTunnel, TunnelStarted, AdminConnected, ClearSlot,
           DeployStarts, UseRuntime, SetupFails
  <1>7. errors' \in SUBSET (Takes \cup {"other"}) /\ report' \in {"none", "completed", "incomplete"}
    BY DEF Types, TypeOK, Takes, teardown,
           ResetNamespace, CreateSecrets, StartProxy, StartTunnel, TunnelStarted, AdminConnected, ClearSlot,
           DeployStarts, UseRuntime, SetupFails
  <1>8. /\ namespace' \in BOOLEAN /\ proxy' \in BOOLEAN
        /\ app' \in BOOLEAN /\ databases' \in BOOLEAN
    BY DEF Types, TypeOK, world,
           ResetNamespace, CreateSecrets, StartProxy, StartTunnel, TunnelStarted, AdminConnected, ClearSlot,
           DeployStarts, UseRuntime, SetupFails
  <1>9. (sqlReady' # sqlReady \/ step' \in {"admin", "clear"}) /\ Cloud => port' # None
    BY DEF Types, TypeOK, PortKnown, Cloud, To, Ask, sql,
           ResetNamespace, CreateSecrets, StartProxy, StartTunnel, TunnelStarted, AdminConnected, ClearSlot,
           DeployStarts, UseRuntime, SetupFails
  <1>10. step' \in {"drop-connect", "drop-databases"} => ~Cloud \/ sqlReady'
    BY DEF Types, TypeOK, Dropping, Cloud, MayDrop, To,
           ResetNamespace, CreateSecrets, StartProxy, StartTunnel, TunnelStarted, AdminConnected, ClearSlot,
           DeployStarts, UseRuntime, SetupFails
  <1> QED BY <1>1, <1>2, <1>3, <1>4, <1>5, <1>6, <1>7, <1>8, <1>9, <1>10
          DEF Types, TypeOK, PortKnown, Dropping, Cloud

\* The test, within the fixture or beside the teardown.
LEMMA TestTypes == ASSUME Types, TestStep \/ UseReturns PROVE Types'
  <1>1. ForwardTypeOK'
    BY DEF Types, TypeOK, ForwardTypeOK, Stages, Continuations, forward, Start, Stop, At,
           TestStep, TestConnects, TestConnected, TestRestarts, TestStopped, TestDeploys, UseReturns,
           TestGoesOn, Unused
  <1>2. dialling' \in [Callers -> DialSteps]
    BY DEF Types, TypeOK, DialSteps, Ask, Dial, sql,
           TestStep, TestConnects, TestConnected, TestRestarts, TestStopped, TestDeploys, UseReturns,
           TestGoesOn, Unused
  <1>3. provider' = provider /\ port' \in Kids \cup {None} /\ (port # None => port' # None)
    BY DEF Types, TypeOK, ForwardTypeOK, To, Ask, Dial, sql,
           TestStep, TestConnects, TestConnected, TestRestarts, TestStopped, TestDeploys, UseReturns,
           TestGoesOn, Unused
  <1>4. /\ step' \in SetupSteps \cup {"test"} \cup TeardownSteps \cup Over
        /\ test' \in TestSteps
    BY DEF Types, TypeOK, To, SetupSteps, TeardownSteps, Over, TestSteps,
           TestStep, TestConnects, TestConnected, TestRestarts, TestStopped, TestDeploys, UseReturns,
           TestGoesOn, Unused
  <1>5. sqlReady' \in BOOLEAN /\ (sqlReady => sqlReady') /\ setupFailed' \in BOOLEAN
    BY DEF Types, TypeOK,
           TestStep, TestConnects, TestConnected, TestRestarts, TestStopped, TestDeploys, UseReturns,
           TestGoesOn, Unused
  <1>6. late' \in SUBSET {"connect", "deploy"}
    BY DEF Types, TypeOK, To,
           TestStep, TestConnects, TestConnected, TestRestarts, TestStopped, TestDeploys, UseReturns,
           TestGoesOn, Unused
  <1>7. errors' \in SUBSET (Takes \cup {"other"}) /\ report' \in {"none", "completed", "incomplete"}
    BY DEF Types, TypeOK, Takes, teardown,
           TestStep, TestConnects, TestConnected, TestRestarts, TestStopped, TestDeploys, UseReturns,
           TestGoesOn, Unused
  <1>8. /\ namespace' \in BOOLEAN /\ proxy' \in BOOLEAN
        /\ app' \in BOOLEAN /\ databases' \in BOOLEAN
    BY DEF Types, TypeOK, world,
           TestStep, TestConnects, TestConnected, TestRestarts, TestStopped, TestDeploys, UseReturns,
           TestGoesOn, Unused
  <1>9. (sqlReady' # sqlReady \/ step' \in {"admin", "clear"}) /\ Cloud => port' # None
    BY DEF Types, TypeOK, PortKnown, Cloud, To, Ask, sql,
           TestStep, TestConnects, TestConnected, TestRestarts, TestStopped, TestDeploys, UseReturns,
           TestGoesOn, Unused
  <1>10. step' \in {"drop-connect", "drop-databases"} => ~Cloud \/ sqlReady'
    BY DEF Types, TypeOK, Dropping, Cloud, MayDrop, To,
           TestStep, TestConnects, TestConnected, TestRestarts, TestStopped, TestDeploys, UseReturns,
           TestGoesOn, Unused
  <1> QED BY <1>1, <1>2, <1>3, <1>4, <1>5, <1>6, <1>7, <1>8, <1>9, <1>10
          DEF Types, TypeOK, PortKnown, Dropping, Cloud

\* The teardown.
LEMMA TeardownTypes ==
    ASSUME Types, NEW done \in BOOLEAN,
           \/ CollectDiagnostics(done) \/ StopApplication(done) \/ CloseSqlClients(done)
           \/ DropDatabases(done) \/ ReportCleanup(done) \/ CloseProxy(done) \/ DeleteNamespace(done)
           \/ DropRefused \/ DropConnected \/ ProxyClosed
    PROVE  Types'
  <1>1. ForwardTypeOK'
    <2>1. UNCHANGED forward \/ (Stop("fixture") /\ UNCHANGED <<proc, child, output>>)
      BY DEF forward, CollectDiagnostics, StopApplication, CloseSqlClients, DropDatabases, ReportCleanup,
             CloseProxy, DeleteNamespace, DropRefused, DropConnected, ProxyClosed
    <2> QED BY <2>1 DEF Types, TypeOK, ForwardTypeOK, Stages, Continuations, forward, Stop, At
  <1>2. dialling' \in [Callers -> DialSteps]
    BY DEF Types, TypeOK, DialSteps, Ask, Dial, sql,
           CollectDiagnostics, StopApplication, CloseSqlClients, DropDatabases, ReportCleanup, CloseProxy,
           DeleteNamespace, DropRefused, DropConnected, ProxyClosed, Attempt
  <1>3. provider' = provider /\ port' \in Kids \cup {None} /\ (port # None => port' # None)
    BY DEF Types, TypeOK, ForwardTypeOK, To, Ask, Dial, sql,
           CollectDiagnostics, StopApplication, CloseSqlClients, DropDatabases, ReportCleanup, CloseProxy,
           DeleteNamespace, DropRefused, DropConnected, ProxyClosed, Attempt
  <1>4. /\ step' \in SetupSteps \cup {"test"} \cup TeardownSteps \cup Over
        /\ test' \in TestSteps
    BY DEF Types, TypeOK, To, SetupSteps, TeardownSteps, Over, TestSteps,
           CollectDiagnostics, StopApplication, CloseSqlClients, DropDatabases, ReportCleanup, CloseProxy,
           DeleteNamespace, DropRefused, DropConnected, ProxyClosed, Attempt
  <1>5. sqlReady' \in BOOLEAN /\ (sqlReady => sqlReady') /\ setupFailed' \in BOOLEAN
    BY DEF Types, TypeOK,
           CollectDiagnostics, StopApplication, CloseSqlClients, DropDatabases, ReportCleanup, CloseProxy,
           DeleteNamespace, DropRefused, DropConnected, ProxyClosed, Attempt
  <1>6. late' \in SUBSET {"connect", "deploy"}
    BY DEF Types, TypeOK, To,
           CollectDiagnostics, StopApplication, CloseSqlClients, DropDatabases, ReportCleanup, CloseProxy,
           DeleteNamespace, DropRefused, DropConnected, ProxyClosed, Attempt
  <1>7. errors' \in SUBSET (Takes \cup {"other"}) /\ report' \in {"none", "completed", "incomplete"}
    BY DEF Types, TypeOK, Takes, teardown,
           CollectDiagnostics, StopApplication, CloseSqlClients, DropDatabases, ReportCleanup, CloseProxy,
           DeleteNamespace, DropRefused, DropConnected, ProxyClosed, Attempt
  <1>8. /\ namespace' \in BOOLEAN /\ proxy' \in BOOLEAN
        /\ app' \in BOOLEAN /\ databases' \in BOOLEAN
    BY DEF Types, TypeOK, world,
           CollectDiagnostics, StopApplication, CloseSqlClients, DropDatabases, ReportCleanup, CloseProxy,
           DeleteNamespace, DropRefused, DropConnected, ProxyClosed, Attempt
  <1>9. (sqlReady' # sqlReady \/ step' \in {"admin", "clear"}) /\ Cloud => port' # None
    BY DEF Types, TypeOK, PortKnown, Cloud, To, Ask, sql,
           CollectDiagnostics, StopApplication, CloseSqlClients, DropDatabases, ReportCleanup, CloseProxy,
           DeleteNamespace, DropRefused, DropConnected, ProxyClosed, Attempt
  <1>10. step' \in {"drop-connect", "drop-databases"} => ~Cloud \/ sqlReady'
    BY DEF Types, TypeOK, Dropping, Cloud, MayDrop, To,
           CollectDiagnostics, StopApplication, CloseSqlClients, DropDatabases, ReportCleanup, CloseProxy,
           DeleteNamespace, DropRefused, DropConnected, ProxyClosed, Attempt
  <1> QED BY <1>1, <1>2, <1>3, <1>4, <1>5, <1>6, <1>7, <1>8, <1>9, <1>10
          DEF Types, TypeOK, PortKnown, Dropping, Cloud

LEMMA NextTypes == ASSUME Types, [Next]_vars PROVE Types'
  <1> USE DEF Types, TypeOK, teardown, world, sql, Cloud, PortKnown, Dropping
  <1>1. CASE FixtureStep \/ DeployStarts
    BY <1>1, SetupTypes, TeardownTypes DEF FixtureStep
  <1>2. CASE UseReturns \/ TestStep
    BY <1>2, TestTypes
  <1>3. ASSUME NEW c \in Callers, ConnectStep(c) PROVE Types'
    BY <1>3, ConnectTypes
  <1>4. ASSUME NEW c \in Callers, SessionStep(c) PROVE Types'
    <2>1. ForwardTypeOK'
      BY <1>4, CallerTypes DEF SessionStep
    <2> QED BY <1>4, <2>1 DEF SessionStep, Unforwarded
  <1>5. ASSUME NEW k \in Kids, ForwardAnnounces(k) \/ ForwardEnds(k) PROVE Types'
    <2>1. ForwardTypeOK'
      BY <1>5, KidStep DEF ForwardAnnounces, ForwardEnds
    <2>2. UNCHANGED Unforwarded
      BY <1>5 DEF ForwardAnnounces, ForwardEnds
    <2> QED BY <2>1, <2>2 DEF Unforwarded
  <1>6. CASE PluginCreatesDatabase
    BY <1>6 DEF PluginCreatesDatabase, forward, ForwardTypeOK
  <1>7. CASE WorkerKilled
    BY <1>7 DEF WorkerKilled, To, Over, forward, ForwardTypeOK
  <1>8. CASE UNCHANGED vars
    BY <1>8 DEF vars, forward, ForwardTypeOK
  <1> QED BY <1>1, <1>2, <1>3, <1>4, <1>5, <1>6, <1>7, <1>8 DEF Next

\* The variables have their types, and databases are dropped through a known port only.
THEOREM FixtureTypes == Spec => []TypeOK
  <1>1. Types => TypeOK
    BY DEF Types
  <1> QED BY <1>1, InitTypes, NextTypes, PTL DEF Spec

---------------------------------------------------------------------------
\* What is settled from the report on, and what stands for each thing that is left.
Reported == step \in {"report", "close-proxy", "closing", "delete-namespace"} \/ report # "none"

ReportIsLate ==
    report # "none" => step \in {"close-proxy", "closing", "delete-namespace", "passed", "threw", "killed"}

ReportMeans == report = "completed" => Dropped

\* Past its stop the application is up only if the stop failed, or an abandoned test
\* deployed it.
NoWriter ==
    step \in {"close-sql-clients", "drop-connect", "drop-databases"} \/ Reported =>
        ("stop-application" \notin errors /\ "deploy" \notin late => ~app)

NothingLeft == Reported => (Dropped /\ "deploy" \notin late => ~databases)

NoPathExplained ==
    /\ Cloud /\ step \in {"clear", "deploy", "test"} => sqlReady
    /\ Cloud /\ (step \in TeardownSteps \/ Reported) => sqlReady \/ setupFailed

NamespaceHolds ==
    /\ app => namespace
    /\ step \in (SetupSteps \ {"reset"}) \cup {"test"} \cup TeardownSteps => namespace

Thrown == TornDown => /\ namespace => "delete-namespace" \in errors
                      /\ errors # {} \/ setupFailed => step = "threw"

Accounted == /\ ReportIsLate /\ ReportMeans /\ NoWriter /\ NothingLeft
             /\ NoPathExplained /\ NamespaceHolds /\ Thrown

\* The setup: nothing has been reported.
LEMMA SetupAccounted ==
    ASSUME Types, Accounted,
           \/ ResetNamespace \/ CreateSecrets \/ StartProxy \/ StartTunnel \/ TunnelStarted
           \/ AdminConnected \/ ClearSlot \/ DeployStarts \/ UseRuntime \/ SetupFails
    PROVE  Accounted'
  <1>1. ReportIsLate' /\ ReportMeans'
    BY DEF Types, TypeOK, Accounted, ReportIsLate, ReportMeans, Dropped, MayDrop, Cloud, SetupSteps,
           To, Takes, teardown, world,
           ResetNamespace, CreateSecrets, StartProxy, StartTunnel, TunnelStarted, AdminConnected, ClearSlot,
           DeployStarts, UseRuntime, SetupErrors, SetupFails
  <1>2. NoWriter'
    BY DEF Types, TypeOK, Accounted, NoWriter, ReportIsLate, Reported,
           To, Takes, teardown, world,
           ResetNamespace, CreateSecrets, StartProxy, StartTunnel, TunnelStarted, AdminConnected, ClearSlot,
           DeployStarts, UseRuntime, SetupErrors, SetupFails
  <1>3. NothingLeft'
    BY DEF Types, TypeOK, Accounted, NothingLeft, NoWriter, ReportIsLate, Reported, Dropped, MayDrop, Cloud,
           To, Takes, teardown, world,
           ResetNamespace, CreateSecrets, StartProxy, StartTunnel, TunnelStarted, AdminConnected, ClearSlot,
           DeployStarts, UseRuntime, SetupErrors, SetupFails
  <1>4. NoPathExplained'
    BY DEF Types, TypeOK, Accounted, NoPathExplained, ReportIsLate, Reported, Cloud, TeardownSteps,
           To, Takes, teardown, world,
           ResetNamespace, CreateSecrets, StartProxy, StartTunnel, TunnelStarted, AdminConnected, ClearSlot,
           DeployStarts, UseRuntime, SetupErrors, SetupFails
  <1>5. NamespaceHolds'
    BY DEF Types, TypeOK, Accounted, NamespaceHolds, ReportIsLate, SetupSteps, TeardownSteps,
           To, Takes, teardown, world,
           ResetNamespace, CreateSecrets, StartProxy, StartTunnel, TunnelStarted, AdminConnected, ClearSlot,
           DeployStarts, UseRuntime, SetupErrors, SetupFails
  <1>6. Thrown'
    BY DEF Types, TypeOK, Accounted, Thrown, ReportIsLate, TornDown, NamespaceHolds, TeardownSteps,
           To, Takes, teardown, world,
           ResetNamespace, CreateSecrets, StartProxy, StartTunnel, TunnelStarted, AdminConnected, ClearSlot,
           DeployStarts, UseRuntime, SetupErrors, SetupFails
  <1> QED BY <1>1, <1>2, <1>3, <1>4, <1>5, <1>6 DEF Accounted

\* The test: only a deployment of an abandoned one brings pods back.
LEMMA TestAccounted == ASSUME Types, Accounted, TestStep \/ UseReturns PROVE Accounted'
  <1>1. ReportIsLate' /\ ReportMeans'
    BY DEF Types, TypeOK, Accounted, ReportIsLate, ReportMeans, Dropped, MayDrop, Cloud, SetupSteps,
           To, Takes, teardown, world,
           TestStep, TestConnects, TestConnected, TestRestarts, TestStopped, TestDeploys, UseReturns,
           TestGoesOn, Unused
  <1>2. NoWriter'
    BY DEF Types, TypeOK, Accounted, NoWriter, ReportIsLate, Reported,
           To, Takes, teardown, world,
           TestStep, TestConnects, TestConnected, TestRestarts, TestStopped, TestDeploys, UseReturns,
           TestGoesOn, Unused
  <1>3. NothingLeft'
    BY DEF Types, TypeOK, Accounted, NothingLeft, NoWriter, ReportIsLate, Reported, Dropped, MayDrop, Cloud,
           To, Takes, teardown, world,
           TestStep, TestConnects, TestConnected, TestRestarts, TestStopped, TestDeploys, UseReturns,
           TestGoesOn, Unused
  <1>4. NoPathExplained'
    BY DEF Types, TypeOK, Accounted, NoPathExplained, ReportIsLate, Reported, Cloud, TeardownSteps,
           To, Takes, teardown, world,
           TestStep, TestConnects, TestConnected, TestRestarts, TestStopped, TestDeploys, UseReturns,
           TestGoesOn, Unused
  <1>5. NamespaceHolds'
    BY DEF Types, TypeOK, Accounted, NamespaceHolds, ReportIsLate, SetupSteps, TeardownSteps,
           To, Takes, teardown, world,
           TestStep, TestConnects, TestConnected, TestRestarts, TestStopped, TestDeploys, UseReturns,
           TestGoesOn, Unused
  <1>6. Thrown'
    BY DEF Types, TypeOK, Accounted, Thrown, ReportIsLate, TornDown, NamespaceHolds, TeardownSteps,
           To, Takes, teardown, world,
           TestStep, TestConnects, TestConnected, TestRestarts, TestStopped, TestDeploys, UseReturns,
           TestGoesOn, Unused
  <1> QED BY <1>1, <1>2, <1>3, <1>4, <1>5, <1>6 DEF Accounted

\* The teardown.
LEMMA TeardownAccounted ==
    ASSUME Types, Accounted, NEW done \in BOOLEAN,
           \/ CollectDiagnostics(done) \/ StopApplication(done) \/ CloseSqlClients(done)
           \/ DropDatabases(done) \/ ReportCleanup(done) \/ CloseProxy(done) \/ DeleteNamespace(done)
           \/ DropRefused \/ DropConnected \/ ProxyClosed
    PROVE  Accounted'
  <1>1. ReportIsLate' /\ ReportMeans'
    BY DEF Types, TypeOK, Accounted, ReportIsLate, ReportMeans, Dropped, MayDrop, Cloud, SetupSteps,
           To, Takes, teardown, world,
           CollectDiagnostics, StopApplication, CloseSqlClients, DropDatabases, ReportCleanup, CloseProxy,
           DeleteNamespace, DropRefused, DropConnected, ProxyClosed, Attempt
  <1>2. NoWriter'
    BY DEF Types, TypeOK, Accounted, NoWriter, ReportIsLate, Reported,
           To, Takes, teardown, world,
           CollectDiagnostics, StopApplication, CloseSqlClients, DropDatabases, ReportCleanup, CloseProxy,
           DeleteNamespace, DropRefused, DropConnected, ProxyClosed, Attempt
  <1>3. NothingLeft'
    <2> USE DEF Types, TypeOK, Accounted, NothingLeft, ReportIsLate, Reported, Dropped, MayDrop, Cloud,
                To, Takes, teardown, world, Attempt
    <2>1. CASE CollectDiagnostics(done) \/ StopApplication(done) \/ DropConnected
      BY <2>1 DEF CollectDiagnostics, StopApplication, DropConnected
    <2>2. CASE CloseSqlClients(done)
      BY <2>2 DEF CloseSqlClients
    <2>3. CASE DropDatabases(done)
      BY <2>3 DEF DropDatabases
    <2>4. CASE ReportCleanup(done) \/ CloseProxy(done)
      BY <2>4 DEF ReportCleanup, CloseProxy
    <2>5. CASE DeleteNamespace(done) \/ DropRefused \/ ProxyClosed
      BY <2>5 DEF DeleteNamespace, DropRefused, ProxyClosed
    <2> QED BY <2>1, <2>2, <2>3, <2>4, <2>5
  <1>4. NoPathExplained'
    BY DEF Types, TypeOK, Accounted, NoPathExplained, ReportIsLate, Reported, Cloud, TeardownSteps,
           To, Takes, teardown, world,
           CollectDiagnostics, StopApplication, CloseSqlClients, DropDatabases, ReportCleanup, CloseProxy,
           DeleteNamespace, DropRefused, DropConnected, ProxyClosed, Attempt
  <1>5. NamespaceHolds'
    BY DEF Types, TypeOK, Accounted, NamespaceHolds, ReportIsLate, SetupSteps, TeardownSteps,
           To, Takes, teardown, world,
           CollectDiagnostics, StopApplication, CloseSqlClients, DropDatabases, ReportCleanup, CloseProxy,
           DeleteNamespace, DropRefused, DropConnected, ProxyClosed, Attempt
  <1>6. Thrown'
    BY DEF Types, TypeOK, Accounted, Thrown, ReportIsLate, TornDown, NamespaceHolds, TeardownSteps,
           To, Takes, teardown, world,
           CollectDiagnostics, StopApplication, CloseSqlClients, DropDatabases, ReportCleanup, CloseProxy,
           DeleteNamespace, DropRefused, DropConnected, ProxyClosed, Attempt
  <1> QED BY <1>1, <1>2, <1>3, <1>4, <1>5, <1>6 DEF Accounted

LEMMA NextAccounted == ASSUME Types, Accounted, [Next]_vars PROVE Accounted'
  <1> USE DEF Accounted, ReportIsLate, ReportMeans, NoWriter, NothingLeft, NoPathExplained, NamespaceHolds,
              Thrown, Reported, TornDown, Dropped, MayDrop, Cloud
  <1>1. CASE FixtureStep \/ DeployStarts
    BY <1>1, SetupAccounted, TeardownAccounted DEF FixtureStep
  <1>2. CASE UseReturns \/ TestStep
    BY <1>2, TestAccounted
  <1>3. CASE /\ UNCHANGED <<provider, step, sqlReady, setupFailed, teardown, late>>
             /\ UNCHANGED <<namespace, app, databases>>
    BY <1>3 DEF teardown
  <1>4. ASSUME NEW c \in Callers, ConnectStep(c) \/ SessionStep(c) PROVE Accounted'
    BY <1>3, <1>4 DEF ConnectStep, SessionStep, Unforwarded, world
  <1>5. ASSUME NEW k \in Kids, ForwardAnnounces(k) \/ ForwardEnds(k) PROVE Accounted'
    BY <1>3, <1>5 DEF ForwardAnnounces, ForwardEnds, Unforwarded, world
  <1>6. CASE PluginCreatesDatabase
    BY <1>6 DEF PluginCreatesDatabase, teardown
  <1>7. CASE WorkerKilled
    BY <1>7 DEF WorkerKilled, To, Over, TeardownSteps, SetupSteps, teardown, world
  <1>8. CASE UNCHANGED vars
    BY <1>3, <1>8 DEF vars, world
  <1> QED BY <1>1, <1>2, <1>4, <1>5, <1>6, <1>7, <1>8 DEF Next

LEMMA InitAccounted == Init => Accounted
  <1> SUFFICES ASSUME Init PROVE Accounted
    OBVIOUS
  <1>1. step = "reset" /\ report = "none"
    BY DEF Init
  <1>2. app = FALSE \/ app = namespace
    BY DEF Init
  <1>3. app => namespace
    BY <1>2, Zenon
  <1> QED BY <1>1, <1>3 DEF Accounted, ReportIsLate, ReportMeans, NoWriter, NothingLeft, NoPathExplained, NamespaceHolds,
         Thrown, Reported, TornDown, TeardownSteps, SetupSteps

\* A cleanup reported as completed has left nothing, and nobody who could bring it back
\* except a test that timed out inside a restart.
THEOREM FixtureReportsTruly == Spec => []TrueReport
  <1>1. Types /\ Accounted => TrueReport
    BY DEF Accounted, ReportMeans, NothingLeft, Reported, TrueReport
  <1> QED BY <1>1, InitTypes, NextTypes, InitAccounted, NextAccounted, PTL DEF Spec

\* Whatever a teardown leaves has an error of its own, and the fixture throws.
THEOREM FixtureExplainsLeftovers == Spec => []LeftoversExplained
  <1>1. ASSUME Types, Accounted PROVE LeftoversExplained
    <2>1. TornDown /\ databases => \/ ~Dropped \/ "deploy" \in late
      BY <1>1 DEF Accounted, NothingLeft, Reported, TornDown
    <2>2. TornDown /\ Cloud => sqlReady \/ setupFailed
      BY <1>1 DEF Accounted, NoPathExplained, Reported, TornDown
    <2>3. app => namespace
      BY <1>1 DEF Accounted, NamespaceHolds
    <2> QED BY <1>1, <2>1, <2>2, <2>3 DEF Accounted, Thrown, LeftoversExplained, Dropped, MayDrop
  <1> QED BY <1>1, InitTypes, NextTypes, InitAccounted, NextAccounted, PTL DEF Spec

---------------------------------------------------------------------------
\* Who may be inside the port-forward object, and when.
DirectHasNoTunnel ==
    ~Cloud => /\ child = None /\ \A c \in Callers : Idle(c) /\ dialling[c] # "restarting"
              /\ step \notin {"proxy", "tunnel", "tunnelling", "closing"}

TestAsks ==
    /\ dialling["test"] # "none" => test \in {"connecting", "probing"}
    /\ step \in SetupSteps => test = "none"

FixtureAsks == dialling["fixture"] # "none" => step \in {"admin", "drop-connect", "killed"}

InsideObject ==
    /\ ~Idle("test") => dialling["test"] = "restarting"
    /\ ~Idle("fixture") => step \in {"tunnelling", "closing", "killed"} \/ dialling["fixture"] = "restarting"

\* An abandoned test that waits for a connection is on record.
OnRecord ==
    step \in TeardownSteps \cup {"passed", "threw"} /\ "connect" \notin late =>
        test \notin {"connecting", "probing"}

\* The fixture stops: from the signal on there is no child.
FixtureStops ==
    /\ call["fixture"].at \in {"stop", "exit", "idle"}
    /\ call["fixture"].then = "ok"
    /\ call["fixture"].at # "stop" => child = None

Closing == step = "closing" /\ "connect" \notin late => FixtureStops
Closed == step = "delete-namespace" \/ TornDown => (child = None \/ "connect" \in late)

Kept == /\ Unattended \subseteq {child} /\ DirectHasNoTunnel /\ TestAsks /\ FixtureAsks
        /\ InsideObject /\ OnRecord /\ Closing /\ Closed

\* Outside the object nothing changes but where the fixture stands in it.
LEMMA FixtureCalls ==
    ASSUME Types, FixtureStep \/ DeployStarts \/ UseReturns \/ TestStep
    PROVE  /\ UNCHANGED <<proc, child, output>>
           /\ \/ UNCHANGED call
              \/ step = "tunnel" /\ step' = "tunnelling" /\ Start("fixture")
              \/ step = "close-proxy" /\ step' = "closing" /\ Stop("fixture") /\ Cloud
  BY DEF FixtureStep, forward, To,
         ResetNamespace, CreateSecrets, StartProxy, StartTunnel, TunnelStarted, AdminConnected, ClearSlot,
         DeployStarts, UseRuntime, SetupErrors, SetupFails,
         TestStep, TestConnects, TestConnected, TestRestarts, TestStopped, TestDeploys, UseReturns,
         TestGoesOn, Unused,
         CollectDiagnostics, StopApplication, CloseSqlClients, DropDatabases, ReportCleanup, CloseProxy,
         DeleteNamespace, DropRefused, DropConnected, ProxyClosed, Attempt

LEMMA CallsOfFixture ==
    ASSUME Types, Start("fixture") \/ Stop("fixture")
    PROVE  call'["test"] = call["test"] /\ (Stop("fixture") => FixtureStops')
  BY DEF Types, TypeOK, ForwardTypeOK, Start, Stop, At, FixtureStops

\* The setup.
LEMMA SetupKept ==
    ASSUME Types, Accounted, Kept,
           \/ ResetNamespace \/ CreateSecrets \/ StartProxy \/ StartTunnel \/ TunnelStarted
           \/ AdminConnected \/ ClearSlot \/ DeployStarts \/ UseRuntime \/ SetupFails
    PROVE  Kept'
  <1>0. /\ UNCHANGED <<proc, child, output>>
        /\ call'["test"] = call["test"]
        /\ \/ UNCHANGED call
           \/ step = "tunnel" /\ step' = "tunnelling"
           \/ step = "close-proxy" /\ step' = "closing" /\ Cloud /\ FixtureStops'
    BY FixtureCalls, CallsOfFixture DEF FixtureStep
  <1>1. (Unattended \subseteq {child})'
    BY <1>0 DEF Kept, Unattended
  <1>2. DirectHasNoTunnel'
    BY <1>0 DEF Types, TypeOK, Kept, DirectHasNoTunnel, Idle, Returned, Threw, Cloud, SetupSteps, TeardownSteps,
           To, Ask, Dial, sql, teardown,
           ResetNamespace, CreateSecrets, StartProxy, StartTunnel, TunnelStarted, AdminConnected, ClearSlot,
           DeployStarts, UseRuntime, SetupErrors, SetupFails
  <1>3. TestAsks'
    BY <1>0 DEF Types, TypeOK, Kept, TestAsks, SetupSteps, TeardownSteps,
           To, Ask, Dial, sql, teardown,
           ResetNamespace, CreateSecrets, StartProxy, StartTunnel, TunnelStarted, AdminConnected, ClearSlot,
           DeployStarts, UseRuntime, SetupErrors, SetupFails
  <1>4. FixtureAsks'
    BY <1>0 DEF Types, TypeOK, Kept, FixtureAsks,
           To, Ask, Dial, sql, teardown,
           ResetNamespace, CreateSecrets, StartProxy, StartTunnel, TunnelStarted, AdminConnected, ClearSlot,
           DeployStarts, UseRuntime, SetupErrors, SetupFails
  <1>5. InsideObject'
    BY <1>0 DEF Types, TypeOK, Kept, InsideObject, FixtureAsks, DirectHasNoTunnel, Idle, Returned, Threw,
           To, Ask, Dial, sql, teardown,
           ResetNamespace, CreateSecrets, StartProxy, StartTunnel, TunnelStarted, AdminConnected, ClearSlot,
           DeployStarts, UseRuntime, SetupErrors, SetupFails
  <1>6. OnRecord'
    BY <1>0 DEF Types, TypeOK, Kept, OnRecord, TestAsks, SetupSteps, TeardownSteps, Over,
           To, Ask, Dial, sql, teardown,
           ResetNamespace, CreateSecrets, StartProxy, StartTunnel, TunnelStarted, AdminConnected, ClearSlot,
           DeployStarts, UseRuntime, SetupErrors, SetupFails
  <1>7. Closing'
    BY <1>0 DEF Types, TypeOK, Kept, Closing, FixtureStops, SetupSteps,
           To, Ask, Dial, sql, teardown,
           ResetNamespace, CreateSecrets, StartProxy, StartTunnel, TunnelStarted, AdminConnected, ClearSlot,
           DeployStarts, UseRuntime, SetupErrors, SetupFails
  <1>8. Closed'
    BY <1>0 DEF Types, TypeOK, Kept, Closed, Closing, FixtureStops, DirectHasNoTunnel, TornDown, ReportIsLate, Accounted, Idle, Cloud, SetupSteps,
           To, Ask, Dial, sql, teardown,
           ResetNamespace, CreateSecrets, StartProxy, StartTunnel, TunnelStarted, AdminConnected, ClearSlot,
           DeployStarts, UseRuntime, SetupErrors, SetupFails
  <1> QED BY <1>1, <1>2, <1>3, <1>4, <1>5, <1>6, <1>7, <1>8 DEF Kept

\* The test, and its end for the fixture.
LEMMA TestKept ==
    ASSUME Types, Accounted, Kept,
           TestStep \/ UseReturns
    PROVE  Kept'
  <1>0. /\ UNCHANGED <<proc, child, output>>
        /\ call'["test"] = call["test"]
        /\ \/ UNCHANGED call
           \/ step = "tunnel" /\ step' = "tunnelling"
           \/ step = "close-proxy" /\ step' = "closing" /\ Cloud /\ FixtureStops'
    BY FixtureCalls, CallsOfFixture DEF FixtureStep
  <1>1. (Unattended \subseteq {child})'
    BY <1>0 DEF Kept, Unattended
  <1>2. DirectHasNoTunnel'
    BY <1>0 DEF Types, TypeOK, Kept, DirectHasNoTunnel, Idle, Returned, Threw, Cloud, SetupSteps, TeardownSteps,
           To, Ask, Dial, sql, teardown,
           TestStep, TestConnects, TestConnected, TestRestarts, TestStopped, TestDeploys, UseReturns,
           TestGoesOn, Unused
  <1>3. TestAsks'
    BY <1>0 DEF Types, TypeOK, Kept, TestAsks, SetupSteps, TeardownSteps,
           To, Ask, Dial, sql, teardown,
           TestStep, TestConnects, TestConnected, TestRestarts, TestStopped, TestDeploys, UseReturns,
           TestGoesOn, Unused
  <1>4. FixtureAsks'
    BY <1>0 DEF Types, TypeOK, Kept, FixtureAsks,
           To, Ask, Dial, sql, teardown,
           TestStep, TestConnects, TestConnected, TestRestarts, TestStopped, TestDeploys, UseReturns,
           TestGoesOn, Unused
  <1>5. InsideObject'
    BY <1>0 DEF Types, TypeOK, Kept, InsideObject, TestAsks, Idle,
           To, Ask, Dial, sql, teardown,
           TestStep, TestConnects, TestConnected, TestRestarts, TestStopped, TestDeploys, UseReturns,
           TestGoesOn, Unused
  <1>6. OnRecord'
    BY <1>0 DEF Types, TypeOK, Kept, OnRecord, TestAsks, SetupSteps, TeardownSteps, Over,
           To, Ask, Dial, sql, teardown,
           TestStep, TestConnects, TestConnected, TestRestarts, TestStopped, TestDeploys, UseReturns,
           TestGoesOn, Unused
  <1>7. Closing'
    BY <1>0 DEF Types, TypeOK, Kept, Closing, FixtureStops, SetupSteps,
           To, Ask, Dial, sql, teardown,
           TestStep, TestConnects, TestConnected, TestRestarts, TestStopped, TestDeploys, UseReturns,
           TestGoesOn, Unused
  <1>8. Closed'
    BY <1>0 DEF Types, TypeOK, Kept, Closed, Closing, FixtureStops, DirectHasNoTunnel, TornDown, ReportIsLate, Accounted, Idle, Cloud, SetupSteps,
           To, Ask, Dial, sql, teardown,
           TestStep, TestConnects, TestConnected, TestRestarts, TestStopped, TestDeploys, UseReturns,
           TestGoesOn, Unused
  <1> QED BY <1>1, <1>2, <1>3, <1>4, <1>5, <1>6, <1>7, <1>8 DEF Kept

\* The teardown.
LEMMA TeardownKept ==
    ASSUME Types, Accounted, Kept,
           NEW done \in BOOLEAN,
           \/ CollectDiagnostics(done) \/ StopApplication(done) \/ CloseSqlClients(done)
           \/ DropDatabases(done) \/ ReportCleanup(done) \/ CloseProxy(done) \/ DeleteNamespace(done)
           \/ DropRefused \/ DropConnected \/ ProxyClosed
    PROVE  Kept'
  <1>0. /\ UNCHANGED <<proc, child, output>>
        /\ call'["test"] = call["test"]
        /\ \/ UNCHANGED call
           \/ step = "tunnel" /\ step' = "tunnelling"
           \/ step = "close-proxy" /\ step' = "closing" /\ Cloud /\ FixtureStops'
    BY FixtureCalls, CallsOfFixture DEF FixtureStep
  <1>1. (Unattended \subseteq {child})'
    BY <1>0 DEF Kept, Unattended
  <1>2. DirectHasNoTunnel'
    BY <1>0 DEF Types, TypeOK, Kept, DirectHasNoTunnel, Idle, Returned, Threw, Cloud, SetupSteps, TeardownSteps,
           To, Ask, Dial, sql, teardown,
           CollectDiagnostics, StopApplication, CloseSqlClients, DropDatabases, ReportCleanup, CloseProxy,
           DeleteNamespace, DropRefused, DropConnected, ProxyClosed, Attempt
  <1>3. TestAsks'
    BY <1>0 DEF Types, TypeOK, Kept, TestAsks, SetupSteps, TeardownSteps,
           To, Ask, Dial, sql, teardown,
           CollectDiagnostics, StopApplication, CloseSqlClients, DropDatabases, ReportCleanup, CloseProxy,
           DeleteNamespace, DropRefused, DropConnected, ProxyClosed, Attempt
  <1>4. FixtureAsks'
    BY <1>0 DEF Types, TypeOK, Kept, FixtureAsks,
           To, Ask, Dial, sql, teardown,
           CollectDiagnostics, StopApplication, CloseSqlClients, DropDatabases, ReportCleanup, CloseProxy,
           DeleteNamespace, DropRefused, DropConnected, ProxyClosed, Attempt
  <1>5. InsideObject'
    BY <1>0 DEF Types, TypeOK, Kept, InsideObject, FixtureAsks, DirectHasNoTunnel, Idle, Returned, Threw,
           To, Ask, Dial, sql, teardown,
           CollectDiagnostics, StopApplication, CloseSqlClients, DropDatabases, ReportCleanup, CloseProxy,
           DeleteNamespace, DropRefused, DropConnected, ProxyClosed, Attempt
  <1>6. OnRecord'
    BY <1>0 DEF Types, TypeOK, Kept, OnRecord, TestAsks, SetupSteps, TeardownSteps, Over,
           To, Ask, Dial, sql, teardown,
           CollectDiagnostics, StopApplication, CloseSqlClients, DropDatabases, ReportCleanup, CloseProxy,
           DeleteNamespace, DropRefused, DropConnected, ProxyClosed, Attempt
  <1>7. Closing'
    <2>1. CASE CloseProxy(done) /\ Cloud
      BY <2>1, CallsOfFixture DEF CloseProxy, Closing
    <2>2. CASE ~(CloseProxy(done) /\ Cloud)
      <3>1. step' # "closing"
        BY <2>2 DEF To, CollectDiagnostics, StopApplication, CloseSqlClients, DropDatabases, ReportCleanup,
           CloseProxy, DeleteNamespace, DropRefused, DropConnected, ProxyClosed, Attempt
      <3> QED BY <3>1 DEF Closing
    <2> QED BY <2>1, <2>2
  <1>8. Closed'
    BY <1>0 DEF Types, TypeOK, Kept, Closed, Closing, FixtureStops, DirectHasNoTunnel, TornDown, ReportIsLate, Accounted, Idle, Cloud, SetupSteps,
           To, Ask, Dial, sql, teardown,
           CollectDiagnostics, StopApplication, CloseSqlClients, DropDatabases, ReportCleanup, CloseProxy,
           DeleteNamespace, DropRefused, DropConnected, ProxyClosed, Attempt
  <1> QED BY <1>1, <1>2, <1>3, <1>4, <1>5, <1>6, <1>7, <1>8 DEF Kept

\* The requests for a connection: only a request that restarts the tunnel enters the object.
LEMMA ConnectKept == ASSUME Types, Accounted, Kept, NEW c \in Callers, ConnectStep(c) PROVE Kept'
  <1> USE DEF Types, TypeOK
  <1>0. UNCHANGED <<proc, child, output, provider, step, test, late, report>>
    BY DEF ConnectStep, CheckTunnel, TunnelRestarted, Answered, forward, teardown
  <1>1. \A d \in Callers \ {c} : dialling'[d] = dialling[d] /\ call'[d] = call[d]
    BY DEF ConnectStep, CheckTunnel, TunnelRestarted, Answered, Dial, Restart, At, forward, ForwardTypeOK
  <1>2. dialling[c] # "none" /\ dialling'[c] # "none"
    BY DEF ConnectStep, CheckTunnel, TunnelRestarted, Answered, Dial
  <1>3. \/ Cloud /\ dialling'[c] = "restarting"
        \/ UNCHANGED call /\ dialling'[c] # "restarting" /\ (dialling[c] = "restarting" => Idle(c))
    BY DEF ConnectStep, CheckTunnel, TunnelRestarted, Answered, Dial, forward
  <1>4. \A d \in Callers : dialling'[d] # "none" <=> dialling[d] # "none"
    BY <1>1, <1>2
  <1>5. (Unattended \subseteq {child})' /\ OnRecord' /\ Closed' /\ TestAsks' /\ FixtureAsks'
    BY <1>0, <1>4 DEF Kept, Unattended, OnRecord, Closed, TornDown, TestAsks, FixtureAsks
  <1>6. DirectHasNoTunnel'
    BY <1>0, <1>1, <1>3 DEF Kept, DirectHasNoTunnel, Idle, Cloud
  <1>7. InsideObject'
    BY <1>0, <1>1, <1>3 DEF Kept, InsideObject, Idle
  <1>8. Closing'
    <2>1. ASSUME step = "closing" PROVE c = "test"
      BY <1>2, <2>1 DEF Kept, FixtureAsks
    <2> QED BY <1>0, <1>1, <2>1 DEF Kept, Closing, FixtureStops
  <1> QED BY <1>5, <1>6, <1>7, <1>8 DEF Kept

\* Stopped once, the fixture only waits in the object.
LEMMA FixtureStopStep ==
    ASSUME ForwardTypeOK, FixtureStops, CallerStep("fixture") \/ ReadyTimeout("fixture")
    PROVE  FixtureStops'
  BY DEF ForwardTypeOK, FixtureStops, CallerStep, ReadyTimeout, KeepChild, Spawn, SpawnFails, NothingToStop,
         Signal, Exited, Continue, At

\* A step inside the object.
LEMMA SessionKept == ASSUME Types, Accounted, Kept, NEW c \in Callers, SessionStep(c) PROVE Kept'
  <1>0. /\ UNCHANGED <<provider, step, test, dialling, late, report>>
        /\ ForwardTypeOK /\ step \notin Over /\ (CallerStep(c) \/ ReadyTimeout(c))
    BY DEF Types, TypeOK, SessionStep, Unforwarded, sql, teardown
  <1>1. ~Idle(c) /\ \A d \in Callers : d # c => call'[d] = call[d]
    BY <1>0, CallersApart
  <1>2. (Unattended \subseteq {child})'
    BY <1>0, CallerKeepsChild DEF Kept
  <1>3. Cloud /\ DirectHasNoTunnel'
    BY <1>0, <1>1 DEF Kept, DirectHasNoTunnel, Cloud
  <1>4. TestAsks' /\ FixtureAsks' /\ OnRecord'
    BY <1>0 DEF Kept, TestAsks, FixtureAsks, OnRecord
  <1>5. InsideObject'
    BY <1>0, <1>1 DEF Kept, InsideObject, Idle
  <1>6. step \in TeardownSteps /\ "connect" \notin late => c = "fixture"
    BY <1>1 DEF Kept, InsideObject, OnRecord, TestAsks
  <1>7. Closing'
    BY <1>0, <1>6, FixtureStopStep DEF Kept, Closing, TeardownSteps
  <1>8. Closed'
    <2>1. step = "delete-namespace" /\ "connect" \notin late => FALSE
      BY <1>1, <1>6 DEF Kept, InsideObject, FixtureAsks, TeardownSteps
    <2> QED BY <1>0, <2>1 DEF Closed, TornDown, Over
  <1> QED BY <1>2, <1>3, <1>4, <1>5, <1>7, <1>8 DEF Kept

\* A step of a process.
LEMMA KidKept ==
    ASSUME Types, Accounted, Kept, NEW k \in Kids, ForwardAnnounces(k) \/ ForwardEnds(k)
    PROVE  Kept'
  <1>0. /\ UNCHANGED <<provider, step, test, dialling, late, report>>
        /\ ForwardTypeOK /\ (Announce(k) \/ End(k))
    BY DEF Types, TypeOK, ForwardAnnounces, ForwardEnds, Unforwarded, sql, teardown
  <1>1. /\ child' = child
        /\ \A c \in Callers : call[c].at # "ready" => call'[c] = call[c]
    BY <1>0, KidStep
  <1>2. (Unattended \subseteq {child})'
    BY <1>0, KidStep DEF Kept
  <1>3. DirectHasNoTunnel' /\ InsideObject'
    BY <1>0, <1>1 DEF Kept, DirectHasNoTunnel, InsideObject, Idle, Cloud
  <1>4. TestAsks' /\ FixtureAsks' /\ OnRecord' /\ Closed'
    BY <1>0, <1>1 DEF Kept, TestAsks, FixtureAsks, OnRecord, Closed, TornDown
  <1>5. Closing'
    BY <1>0, <1>1 DEF Kept, Closing, FixtureStops
  <1> QED BY <1>2, <1>3, <1>4, <1>5 DEF Kept

LEMMA NextKept == ASSUME Types, Accounted, Kept, [Next]_vars PROVE Kept'
  <1>1. CASE FixtureStep \/ DeployStarts
    BY <1>1, SetupKept, TeardownKept DEF FixtureStep
  <1>2. CASE UseReturns \/ TestStep
    BY <1>2, TestKept
  <1>3. ASSUME NEW c \in Callers, ConnectStep(c) \/ SessionStep(c) PROVE Kept'
    BY <1>3, ConnectKept, SessionKept
  <1>4. ASSUME NEW k \in Kids, ForwardAnnounces(k) \/ ForwardEnds(k) PROVE Kept'
    BY <1>4, KidKept
  <1>5. CASE WorkerKilled
    BY <1>5 DEF WorkerKilled, To, Kept, Unattended, DirectHasNoTunnel, TestAsks, FixtureAsks, InsideObject,
       OnRecord, Closing, FixtureStops, Closed, TornDown, Idle, Cloud, SetupSteps, TeardownSteps, forward, sql
  <1>6. CASE PluginCreatesDatabase \/ UNCHANGED vars
    BY <1>6 DEF PluginCreatesDatabase, vars, Kept, Unattended, DirectHasNoTunnel, TestAsks, FixtureAsks,
       InsideObject, OnRecord, Closing, FixtureStops, Closed, TornDown, Idle, Cloud, forward, sql, teardown
  <1> QED BY <1>1, <1>2, <1>3, <1>4, <1>5, <1>6 DEF Next

LEMMA InitKept == Init => Kept
  BY DEF Init, ForwardInit, Kept, Unattended, DirectHasNoTunnel, TestAsks, FixtureAsks, InsideObject,
     OnRecord, Closing, Closed, TornDown, Idle, TeardownSteps, SetupSteps

\* No tunnel is lost, for any number of processes and whatever fails when; and none
\* outlives a teardown that no abandoned test asked for another connection.
THEOREM FixtureLeavesNoTunnel == Spec => []NoStrayTunnel
  <1>1. Kept => NoStrayTunnel
    BY DEF Kept, Closed, NoStrayTunnel, Unattended
  <1> QED BY <1>1, InitTypes, NextTypes, InitAccounted, NextAccounted, InitKept, NextKept, PTL DEF Spec

---------------------------------------------------------------------------
\* A start or restart under way, with nobody else in the object: whatever it comes to,
\* the port in the output is that of the child, or there is no child.
Progress(c) ==
    /\ call[c].at \in {"stop", "exit"} => call[c].then \in {"start", "failed"}
    /\ call[c].at \in {"exit", "start"} => child = None
    /\ call[c].at = "ready" => child = call[c].kid
    /\ Idle(c) => call[c].then \in {"ok", "failed"}
    /\ Returned(c) => child = output
    /\ Threw(c) => child = None

\* Nobody is restarting the tunnel.
Quiet == \A c \in Callers : dialling[c] # "restarting"

Untouched == late = {} /\ Cloud /\ step \in {"reset", "secrets", "proxy", "tunnel"} => child = None
Starting == late = {} /\ Cloud /\ step = "tunnelling" => Progress("fixture")
Restarting == late = {} /\ Cloud => \A c \in Callers : dialling[c] = "restarting" => Progress(c)
Asking == late = {} /\ Cloud =>
             \A c \in Callers : dialling[c] \in {"asked", "dialling"} => child \in {None, port}
Resting == late = {} /\ Cloud /\ step \notin {"tunnelling", "closing", "killed"} /\ Quiet =>
              child \in {None, port}

\* Without a late deed, one caller at a time asks for a connection.
OneAsks ==
    /\ step \in SetupSteps \cup {"test"} => late = {}
    /\ late = {} => dialling["test"] = "none" \/ dialling["fixture"] = "none"

Current == Untouched /\ Starting /\ Restarting /\ Asking /\ Resting /\ OneAsks

\* The setup.
LEMMA SetupCurrent ==
    ASSUME Types, Accounted, Kept, Current,
           \/ ResetNamespace \/ CreateSecrets \/ StartProxy \/ StartTunnel \/ TunnelStarted
           \/ AdminConnected \/ ClearSlot \/ DeployStarts \/ UseRuntime \/ SetupFails
    PROVE  Current'
  <1>0. /\ UNCHANGED <<proc, child, output>>
        /\ UNCHANGED call \/ step' = "tunnelling" \/ step' = "closing"
    BY FixtureCalls DEF FixtureStep
  <1>1. Untouched'
    BY <1>0 DEF Types, TypeOK, Kept, Current, Untouched, SetupSteps, Cloud,
           To, Ask, Dial, sql,
           ResetNamespace, CreateSecrets, StartProxy, StartTunnel, TunnelStarted, AdminConnected, ClearSlot,
           DeployStarts, UseRuntime, SetupErrors, SetupFails
  <1>2. Starting'
    <2>1. CASE StartTunnel
      <3>1. call'["fixture"] = [at |-> "start", kid |-> None, then |-> "none"]
        BY <2>1 DEF StartTunnel, Types, TypeOK, ForwardTypeOK, Start, At
      <3>2. step = "tunnel" /\ UNCHANGED <<child, late, provider>>
        BY <2>1 DEF StartTunnel, To
      <3> QED BY <3>1, <3>2 DEF Current, Starting, Untouched, Progress, Idle, Returned, Threw, Cloud
    <2>2. CASE ~StartTunnel
      <3>1. step' # "tunnelling"
        BY <2>2 DEF To, ResetNamespace, CreateSecrets, StartProxy, TunnelStarted, AdminConnected, ClearSlot,
           DeployStarts, UseRuntime, SetupFails
      <3> QED BY <3>1 DEF Starting
    <2> QED BY <2>1, <2>2
  <1>3. Restarting'
    <2>1. step \in SetupSteps
      BY DEF SetupSteps, ResetNamespace, CreateSecrets, StartProxy, StartTunnel, TunnelStarted, AdminConnected, ClearSlot,
             DeployStarts, UseRuntime, SetupErrors, SetupFails
    <2>2. dialling'["test"] # "restarting"
      BY <2>1 DEF Types, TypeOK, Kept, TestAsks, Ask, Dial, sql,
             ResetNamespace, CreateSecrets, StartProxy, StartTunnel, TunnelStarted, AdminConnected, ClearSlot,
             DeployStarts, UseRuntime, SetupErrors, SetupFails
    <2>3. dialling'["fixture"] # "restarting"
      BY DEF Types, TypeOK, Kept, FixtureAsks, Ask, Dial, sql,
             ResetNamespace, CreateSecrets, StartProxy, StartTunnel, TunnelStarted, AdminConnected, ClearSlot,
             DeployStarts, UseRuntime, SetupErrors, SetupFails
    <2> QED BY <2>2, <2>3 DEF Restarting
  <1>4. Asking'
    BY <1>0 DEF Types, TypeOK, Kept, Current, Asking, Resting, Quiet, FixtureAsks, TestAsks, OneAsks, OnRecord, Starting, Progress, Idle, Returned, Threw, Cloud, SetupSteps,
           TeardownSteps,
           To, Ask, Dial, sql,
           ResetNamespace, CreateSecrets, StartProxy, StartTunnel, TunnelStarted, AdminConnected, ClearSlot,
           DeployStarts, UseRuntime, SetupErrors, SetupFails
  <1>5. Resting'
    BY <1>0 DEF Types, TypeOK, Kept, Current, Resting, Quiet, Starting, Untouched, Restarting, Progress, Returned, Threw, Idle, Cloud, FixtureAsks, TestAsks, OnRecord,
           Closing, FixtureStops, Closed,
           To, Ask, Dial, sql,
           ResetNamespace, CreateSecrets, StartProxy, StartTunnel, TunnelStarted, AdminConnected, ClearSlot,
           DeployStarts, UseRuntime, SetupErrors, SetupFails
  <1>6. OneAsks'
    BY <1>0 DEF Types, TypeOK, Kept, Current, OneAsks, FixtureAsks, TestAsks, OnRecord, SetupSteps, TeardownSteps, Over,
           To, Ask, Dial, sql,
           ResetNamespace, CreateSecrets, StartProxy, StartTunnel, TunnelStarted, AdminConnected, ClearSlot,
           DeployStarts, UseRuntime, SetupErrors, SetupFails
  <1> QED BY <1>1, <1>2, <1>3, <1>4, <1>5, <1>6 DEF Current

\* The test, and its end for the fixture.
LEMMA TestCurrent ==
    ASSUME Types, Accounted, Kept, Current,
           TestStep \/ UseReturns
    PROVE  Current'
  <1>0. /\ UNCHANGED <<proc, child, output>>
        /\ UNCHANGED call \/ step' = "tunnelling" \/ step' = "closing"
    BY FixtureCalls DEF FixtureStep
  <1>1. Untouched'
    BY <1>0 DEF Types, TypeOK, Kept, Current, Untouched, SetupSteps, Cloud,
           To, Ask, Dial, sql,
           TestStep, TestConnects, TestConnected, TestRestarts, TestStopped, TestDeploys, UseReturns,
           TestGoesOn, Unused
  <1>2. Starting'
    <2>1. step' # "tunnelling"
      BY DEF Kept, TestAsks, SetupSteps, TestStep, TestConnects, TestConnected, TestRestarts, TestStopped, TestDeploys, UseReturns,
             TestGoesOn, Unused
    <2> QED BY <2>1 DEF Starting
  <1>3. Restarting'
    BY <1>0 DEF Types, TypeOK, Kept, Current, Restarting, Cloud, FixtureAsks, TestAsks, Progress, OneAsks, Idle, Returned, Threw,
           To, Ask, Dial, sql,
           TestStep, TestConnects, TestConnected, TestRestarts, TestStopped, TestDeploys, UseReturns,
           TestGoesOn, Unused
  <1>4. Asking'
    BY <1>0 DEF Types, TypeOK, Kept, Current, Asking, Resting, Quiet, FixtureAsks, TestAsks, OneAsks, OnRecord, Starting, Progress, Idle, Returned, Threw, Cloud, SetupSteps,
           TeardownSteps,
           To, Ask, Dial, sql,
           TestStep, TestConnects, TestConnected, TestRestarts, TestStopped, TestDeploys, UseReturns,
           TestGoesOn, Unused
  <1>5. Resting'
    <2>1. late' = {} => late = {}
      BY DEF Current, OneAsks, TestStep, TestConnects, TestConnected, TestRestarts, TestStopped, TestDeploys, UseReturns,
             TestGoesOn, Unused
    <2>2. Quiet' => Quiet
      BY DEF Types, TypeOK, Kept, TestAsks, Quiet, Ask, Dial, sql,
             TestStep, TestConnects, TestConnected, TestRestarts, TestStopped, TestDeploys, UseReturns,
             TestGoesOn, Unused
    <2>3. /\ UNCHANGED <<child, port, provider>>
          /\ step = "test" \/ UNCHANGED step
      BY <1>0 DEF Ask, Dial, sql, TestStep, TestConnects, TestConnected, TestRestarts, TestStopped, TestDeploys, UseReturns,
             TestGoesOn, Unused
    <2> QED BY <2>1, <2>2, <2>3 DEF Current, Resting, Cloud
  <1>6. OneAsks'
    BY <1>0 DEF Types, TypeOK, Kept, Current, OneAsks, FixtureAsks, TestAsks, OnRecord, SetupSteps, TeardownSteps, Over,
           To, Ask, Dial, sql,
           TestStep, TestConnects, TestConnected, TestRestarts, TestStopped, TestDeploys, UseReturns,
           TestGoesOn, Unused
  <1> QED BY <1>1, <1>2, <1>3, <1>4, <1>5, <1>6 DEF Current

\* The teardown.
LEMMA TeardownCurrent ==
    ASSUME Types, Accounted, Kept, Current,
           NEW done \in BOOLEAN,
           \/ CollectDiagnostics(done) \/ StopApplication(done) \/ CloseSqlClients(done)
           \/ DropDatabases(done) \/ ReportCleanup(done) \/ CloseProxy(done) \/ DeleteNamespace(done)
           \/ DropRefused \/ DropConnected \/ ProxyClosed
    PROVE  Current'
  <1>0. /\ UNCHANGED <<proc, child, output>>
        /\ UNCHANGED call \/ step' = "tunnelling" \/ step' = "closing"
    BY FixtureCalls DEF FixtureStep
  <1>1. Untouched'
    BY <1>0 DEF Types, TypeOK, Kept, Current, Untouched, SetupSteps, Cloud,
           To, Ask, Dial, sql,
           CollectDiagnostics, StopApplication, CloseSqlClients, DropDatabases, ReportCleanup, CloseProxy,
           DeleteNamespace, DropRefused, DropConnected, ProxyClosed, Attempt
  <1>2. Starting'
    BY <1>0 DEF Types, TypeOK, Kept, Current, Starting, Untouched, Progress, Idle, Returned, Threw, Start, At, Cloud, FixtureAsks,
           To, Ask, Dial, sql,
           CollectDiagnostics, StopApplication, CloseSqlClients, DropDatabases, ReportCleanup, CloseProxy,
           DeleteNamespace, DropRefused, DropConnected, ProxyClosed, Attempt
  <1>3. Restarting'
    <2>1. step \in TeardownSteps /\ UNCHANGED late
      BY DEF TeardownSteps, To, CollectDiagnostics, StopApplication, CloseSqlClients, DropDatabases, ReportCleanup, CloseProxy,
             DeleteNamespace, DropRefused, DropConnected, ProxyClosed, Attempt
    <2>2. late = {} => dialling'["test"] # "restarting"
      BY <2>1 DEF Types, TypeOK, Kept, TestAsks, OnRecord, Ask, Dial, sql,
             CollectDiagnostics, StopApplication, CloseSqlClients, DropDatabases, ReportCleanup, CloseProxy,
             DeleteNamespace, DropRefused, DropConnected, ProxyClosed, Attempt
    <2>3. dialling'["fixture"] # "restarting"
      BY DEF Types, TypeOK, Kept, FixtureAsks, Ask, Dial, sql,
             CollectDiagnostics, StopApplication, CloseSqlClients, DropDatabases, ReportCleanup, CloseProxy,
             DeleteNamespace, DropRefused, DropConnected, ProxyClosed, Attempt
    <2> QED BY <2>1, <2>2, <2>3 DEF Restarting
  <1>4. Asking'
    BY <1>0 DEF Types, TypeOK, Kept, Current, Asking, Resting, Quiet, FixtureAsks, TestAsks, OneAsks, OnRecord, Starting, Progress, Idle, Returned, Threw, Cloud, SetupSteps,
           TeardownSteps,
           To, Ask, Dial, sql,
           CollectDiagnostics, StopApplication, CloseSqlClients, DropDatabases, ReportCleanup, CloseProxy,
           DeleteNamespace, DropRefused, DropConnected, ProxyClosed, Attempt
  <1>5. Resting'
    BY <1>0 DEF Types, TypeOK, Kept, Current, Resting, Quiet, Starting, Untouched, Restarting, Progress, Returned, Threw, Idle, Cloud, FixtureAsks, TestAsks, OnRecord,
           Closing, FixtureStops, Closed,
           To, Ask, Dial, sql,
           CollectDiagnostics, StopApplication, CloseSqlClients, DropDatabases, ReportCleanup, CloseProxy,
           DeleteNamespace, DropRefused, DropConnected, ProxyClosed, Attempt
  <1>6. OneAsks'
    BY <1>0 DEF Types, TypeOK, Kept, Current, OneAsks, FixtureAsks, TestAsks, OnRecord, SetupSteps, TeardownSteps, Over,
           To, Ask, Dial, sql,
           CollectDiagnostics, StopApplication, CloseSqlClients, DropDatabases, ReportCleanup, CloseProxy,
           DeleteNamespace, DropRefused, DropConnected, ProxyClosed, Attempt
  <1> QED BY <1>1, <1>2, <1>3, <1>4, <1>5, <1>6 DEF Current

\* A caller on its way in the object.
LEMMA CallerProgress ==
    ASSUME ForwardTypeOK, NEW c \in Callers, CallerStep(c) \/ ReadyTimeout(c), Progress(c)
    PROVE  Progress(c)'
  <1> USE DEF ForwardTypeOK, Progress, At, Idle, Returned, Threw
  <1>1. CASE KeepChild(c) \/ SpawnFails(c) \/ ReadyTimeout(c)
    BY <1>1 DEF KeepChild, SpawnFails, ReadyTimeout
  <1>2. CASE Spawn(c)
    BY <1>2 DEF Spawn
  <1>3. CASE NothingToStop(c) \/ Exited(c)
    BY <1>3 DEF NothingToStop, Exited, Continue, Continuations
  <1>4. CASE Signal(c)
    BY <1>4 DEF Signal
  <1> QED BY <1>1, <1>2, <1>3, <1>4 DEF CallerStep

\* The process that announces itself is the child.
LEMMA KidProgress ==
    ASSUME ForwardTypeOK, Unattended \subseteq {child}, NEW c \in Callers, Progress(c),
           NEW k \in Kids, Announce(k) \/ End(k)
    PROVE  Progress(c)'
  BY DEF ForwardTypeOK, Progress, Unattended, Announce, End, AwaitsReady, Idle, Returned, Threw

LEMMA ConnectCurrent == ASSUME Types, Accounted, Kept, Current, NEW c \in Callers, ConnectStep(c) PROVE Current'
  <1> USE DEF Types, TypeOK
  <1>0. UNCHANGED <<proc, child, output, provider, step, test, late>>
    BY DEF ConnectStep, CheckTunnel, TunnelRestarted, Answered, forward
  <1>1. \A d \in Callers \ {c} : dialling'[d] = dialling[d] /\ call'[d] = call[d]
    BY DEF ConnectStep, CheckTunnel, TunnelRestarted, Answered, Dial, Restart, At, forward, ForwardTypeOK
  <1>2. dialling[c] # "none" /\ dialling'[c] # "none"
    BY DEF ConnectStep, CheckTunnel, TunnelRestarted, Answered, Dial
  <1>3. OneAsks'
    BY <1>0, <1>1, <1>2 DEF Current, OneAsks
  <1>4. Untouched'
    BY <1>0 DEF Current, Untouched, Cloud
  <1>5. CASE CheckTunnel(c) /\ dialling'[c] = "restarting"
    <2>1. Progress(c)'
      BY <1>0, <1>5 DEF CheckTunnel, Dial, Restart, At, Progress, Idle, Returned, Threw, ForwardTypeOK
    <2>2. late = {} => \A d \in Callers \ {c} : dialling[d] = "none"
      BY <1>2 DEF Current, OneAsks
    <2>3. Starting'
      BY <1>0, <1>2 DEF Starting, Kept, FixtureAsks, TestAsks, SetupSteps
    <2> QED BY <1>0, <1>1, <1>3, <1>4, <1>5, <2>1, <2>2, <2>3
            DEF Current, Restarting, Asking, Resting, Quiet, Cloud
  <1>6. CASE CheckTunnel(c) /\ dialling'[c] # "restarting"
    <2>1. UNCHANGED <<call, port>> /\ dialling[c] = "asked" /\ dialling'[c] = "dialling"
      BY <1>6 DEF CheckTunnel, Dial, forward
    <2> QED BY <1>0, <1>1, <1>3, <1>4, <2>1
            DEF Current, Starting, Restarting, Asking, Resting, Quiet, Progress, Idle, Returned, Threw, Cloud
  <1>7. CASE TunnelRestarted(c)
    <2>1. UNCHANGED call /\ dialling[c] = "restarting" /\ dialling'[c] \in {"dialling", "refused"} /\ Idle(c)
      BY <1>7 DEF TunnelRestarted, Dial, forward
    <2>2. late = {} /\ Cloud => child \in {None, port'}
      BY <1>7, <2>1 DEF TunnelRestarted, Current, Restarting, Progress, Returned, Threw, ForwardTypeOK
    <2>3. Starting' /\ Restarting'
      BY <1>0, <1>1, <2>1 DEF Current, Starting, Restarting, Progress, Idle, Returned, Threw, Cloud
    <2>4. Asking' /\ Resting'
      BY <1>0, <1>1, <1>2, <1>3, <2>1, <2>2 DEF OneAsks, Asking, Resting, Cloud
    <2> QED BY <1>3, <1>4, <2>3, <2>4 DEF Current
  <1>8. CASE Answered(c)
    <2>1. UNCHANGED <<call, port>> /\ dialling[c] = "dialling" /\ dialling'[c] \in {"connected", "refused"}
      BY <1>8 DEF Answered, Dial, forward
    <2> QED BY <1>0, <1>1, <1>3, <1>4, <2>1
            DEF Current, Starting, Restarting, Asking, Resting, Quiet, Progress, Idle, Returned, Threw, Cloud
  <1> QED BY <1>5, <1>6, <1>7, <1>8 DEF ConnectStep

LEMMA SessionCurrent == ASSUME Types, Accounted, Kept, Current, NEW c \in Callers, SessionStep(c) PROVE Current'
  <1>0. /\ UNCHANGED <<provider, step, test, dialling, port, late>>
        /\ ForwardTypeOK /\ step \notin Over /\ (CallerStep(c) \/ ReadyTimeout(c))
    BY DEF Types, TypeOK, SessionStep, Unforwarded, sql
  <1>1. ~Idle(c) /\ \A d \in Callers : d # c => call'[d] = call[d]
    BY <1>0, CallersApart
  <1>2. OneAsks'
    BY <1>0 DEF Current, OneAsks
  <1>3. late = {} => /\ step \in {"tunnelling", "closing"} /\ c = "fixture" /\ Quiet
                     \/ /\ dialling[c] = "restarting" /\ step \notin {"tunnelling", "closing"}
                        /\ \A d \in Callers \ {c} : dialling[d] = "none"
    BY <1>0, <1>1 DEF Kept, InsideObject, FixtureAsks, TestAsks, OnRecord, Current, OneAsks, Quiet,
       SetupSteps, TeardownSteps, Over
  <1>4. Progress(c) => Progress(c)'
    BY <1>0, CallerProgress
  <1>5. Untouched' /\ Resting'
    BY <1>0, <1>3 DEF Untouched, Resting, Quiet, Kept, FixtureAsks, TestAsks, SetupSteps
  <1>6. Starting'
    BY <1>0, <1>3, <1>4 DEF Current, Starting, Cloud
  <1>7. Restarting'
    BY <1>0, <1>3, <1>4 DEF Current, Restarting, Quiet, Cloud
  <1>8. Asking'
    <2>1. ASSUME late = {}, step \in {"tunnelling", "closing"}, NEW d \in Callers
          PROVE  dialling[d] \notin {"asked", "dialling"}
      BY <1>0, <1>3, <2>1 DEF Kept, FixtureAsks, TestAsks, OnRecord, SetupSteps, TeardownSteps
    <2> QED BY <1>0, <1>3, <2>1 DEF Asking
  <1> QED BY <1>2, <1>5, <1>6, <1>7, <1>8 DEF Current

LEMMA KidCurrent ==
    ASSUME Types, Accounted, Kept, Current, NEW k \in Kids, ForwardAnnounces(k) \/ ForwardEnds(k)
    PROVE  Current'
  <1>0. /\ UNCHANGED <<provider, step, test, dialling, port, late>>
        /\ ForwardTypeOK /\ (Announce(k) \/ End(k)) /\ Unattended \subseteq {child}
    BY DEF Types, TypeOK, ForwardAnnounces, ForwardEnds, Unforwarded, sql, Kept
  <1>1. child' = child
    BY <1>0, KidStep
  <1>2. \A c \in Callers : Progress(c) => Progress(c)'
    BY <1>0, KidProgress
  <1> QED BY <1>0, <1>1, <1>2 DEF Current, Untouched, Starting, Restarting, Asking, Resting, Quiet, OneAsks, Cloud

LEMMA NextCurrent == ASSUME Types, Accounted, Kept, Current, [Next]_vars PROVE Current'
  <1>1. CASE FixtureStep \/ DeployStarts
    BY <1>1, SetupCurrent, TeardownCurrent DEF FixtureStep
  <1>2. CASE UseReturns \/ TestStep
    BY <1>2, TestCurrent
  <1>3. ASSUME NEW c \in Callers, ConnectStep(c) \/ SessionStep(c) PROVE Current'
    BY <1>3, ConnectCurrent, SessionCurrent
  <1>4. ASSUME NEW k \in Kids, ForwardAnnounces(k) \/ ForwardEnds(k) PROVE Current'
    BY <1>4, KidCurrent
  <1> USE DEF Current, Untouched, Starting, Restarting, Asking, Resting, Quiet, OneAsks, Progress, Idle, Returned,
              Threw, Cloud, forward, sql
  <1>5. CASE WorkerKilled
    BY <1>5 DEF WorkerKilled, To, SetupSteps
  <1>6. CASE PluginCreatesDatabase \/ UNCHANGED vars
    BY <1>6 DEF PluginCreatesDatabase, vars
  <1> QED BY <1>1, <1>2, <1>3, <1>4, <1>5, <1>6 DEF Next

LEMMA InitCurrent == Init => Current
  BY DEF Init, ForwardInit, Current, Untouched, Starting, Restarting, Asking, Resting, OneAsks, Quiet

\* As long as no abandoned test is at work, a connection is asked of the tunnel that
\* runs, however often tunnels died and were restarted before.
THEOREM FixtureDialsCurrentPort == Spec => []PortIsCurrent
  <1>1. Current => PortIsCurrent
    BY DEF Current, Asking, PortIsCurrent, Running
  <1> QED BY <1>1, InitTypes, NextTypes, InitAccounted, NextAccounted, InitKept, NextKept, InitCurrent,
             NextCurrent, PTL DEF Spec

=============================================================================
