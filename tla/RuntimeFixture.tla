--------------------------- MODULE RuntimeFixture ---------------------------
(***************************************************************************)
(* One use of a runtime fixture: the namespace of the run is recreated,    *)
(* its databases are cleared, RHDH is deployed, a test uses it, and        *)
(* teardownRuntime takes everything down again (runtime-teardown.ts).      *)
(*                                                                         *)
(*   "direct"    external-postgres-runtime.ts: PostgreSQL over TLS         *)
(*   "cloudsql"  cloudsql-runtime.ts: through a proxy pod of the namespace *)
(*               and a port-forward to it (cloudsql-database.ts)           *)
(*                                                                         *)
(* A test that times out is abandoned at an await: its code goes on beside *)
(* the teardown, on the same connections and the same cluster.             *)
(***************************************************************************)
EXTENDS PortForward

ASSUME CallersAssumption == Callers = {"test", "fixture"}

VARIABLES
    provider,
    step,               \* where the fixture is
    test,               \* where the test is
    dialling,           \* where each caller's request for a connection is
    port,               \* this.port: the process that announced it
    sqlReady,           \* an admin connection has been there
    setupFailed,        \* setupError
    errors,             \* what the teardown failed to do
    report,             \* the attachment on the cleanup
    late,               \* history: what an abandoned test did beside the teardown
    namespace,          \* the namespace of the run exists
    proxy,              \* its proxy pod runs
    app,                \* RHDH may have pods in it
    databases           \* the server has databases of the run and slot

sql == <<dialling, port>>
teardown == <<errors, report>>
world == <<namespace, proxy, app, databases>>
vars == <<forward, provider, step, test, sql, sqlReady, setupFailed, teardown, late, world>>

SetupSteps == {"reset", "secrets", "proxy", "tunnel", "tunnelling", "admin", "clear", "deploy"}
TeardownSteps == {"diagnostics", "stop-application", "close-sql-clients", "drop-connect",
                  "drop-databases", "report", "close-proxy", "closing", "delete-namespace"}
\* The steps whose failure leaves something behind.
Takes == {"stop-application", "drop-databases", "delete-namespace"}
Over == {"passed", "threw", "killed"}
TestSteps == {"none", "busy", "connecting", "stopping", "probing", "deploying", "finished"}
DialSteps == {"none", "asked", "restarting", "dialling", "connected", "refused"}
Cloud == provider = "cloudsql"

\* A run id is used by several tests: an earlier one may have left what it had.
Init ==
    /\ ForwardInit
    /\ provider \in {"direct", "cloudsql"}
    /\ step = "reset" /\ test = "none"
    /\ dialling = [c \in Callers |-> "none"] /\ port = None
    /\ sqlReady = FALSE /\ setupFailed = FALSE
    /\ errors = {} /\ report = "none" /\ late = {}
    /\ namespace \in BOOLEAN /\ proxy = FALSE /\ app \in {FALSE, namespace} /\ databases \in BOOLEAN

To(next) == step' = next /\ UNCHANGED <<provider, late>>

(***************************************************************************)
(* CloudSqlDatabaseSession.connect, and connectExternalDatabase, whose     *)
(* retries of the transport are one attempt here.                          *)
(***************************************************************************)
Ask(c) == dialling' = [dialling EXCEPT ![c] = "asked"] /\ UNCHANGED port

Dial(c, next) == dialling' = [dialling EXCEPT ![c] = next]

\* Once started, a tunnel that is not running is stopped and started anew.
CheckTunnel(c) ==
    /\ dialling[c] = "asked"
    /\ IF Cloud /\ sqlReady /\ ~Running
       THEN Dial(c, "restarting") /\ Restart(c) /\ UNCHANGED <<proc, child, output>>
       ELSE Dial(c, "dialling") /\ UNCHANGED forward
    /\ UNCHANGED port

\* Mutant of TunnelRestarted: the port of the first tunnel is kept.
TunnelRestartedSamePort(c) ==
    /\ dialling[c] = "restarting" /\ Idle(c)
    /\ Dial(c, IF Returned(c) THEN "dialling" ELSE "refused")
    /\ UNCHANGED <<forward, port>>

\* The port is read from the output, which is empty while another caller's start is
\* under way.
TunnelRestarted(c) ==
    /\ dialling[c] = "restarting" /\ Idle(c)
    /\ IF Returned(c) /\ output # None
       THEN port' = output /\ Dial(c, "dialling")
       ELSE UNCHANGED port /\ Dial(c, "refused")
    /\ UNCHANGED forward

Reachable == ~Cloud \/ (proxy /\ port # None /\ proc[port] = "ready")

Answered(c) ==
    /\ dialling[c] = "dialling"
    /\ \/ Reachable /\ Dial(c, "connected")
       \/ Dial(c, "refused")
    /\ UNCHANGED <<forward, port>>

ConnectStep(c) ==
    /\ CheckTunnel(c) \/ TunnelRestarted(c) \/ Answered(c)
    /\ UNCHANGED <<provider, step, test, sqlReady, setupFailed, teardown, late, world>>

(***************************************************************************)
(* The setup. An error of it is kept, and the teardown begins; only the    *)
(* recreation of the namespace comes before the try.                       *)
(***************************************************************************)
ResetNamespace ==
    /\ step = "reset"
    /\ \/ /\ To(IF Cloud THEN "secrets" ELSE "admin")
          /\ namespace' = TRUE /\ app' = FALSE
          /\ IF Cloud THEN UNCHANGED sql ELSE Ask("fixture")
       \/ To("threw") /\ app' = FALSE /\ namespace' \in BOOLEAN /\ UNCHANGED sql
       \/ To("threw") /\ UNCHANGED <<app, namespace, sql>>
    /\ UNCHANGED <<forward, test, sqlReady, setupFailed, teardown, proxy, databases>>

\* The catalog probe and the secrets; the direct fixture clears the databases first.
CreateSecrets ==
    /\ step = "secrets"
    /\ To(IF Cloud THEN "proxy" ELSE "deploy")
    /\ UNCHANGED <<forward, test, sql, sqlReady, setupFailed, teardown, world>>

StartProxy ==
    /\ step = "proxy"
    /\ To("tunnel") /\ proxy' = TRUE
    /\ UNCHANGED <<forward, test, sql, sqlReady, setupFailed, teardown, namespace, app, databases>>

StartTunnel ==
    /\ step = "tunnel"
    /\ To("tunnelling") /\ Start("fixture")
    /\ UNCHANGED <<proc, child, output, test, sql, sqlReady, setupFailed, teardown, world>>

TunnelStarted ==
    /\ step = "tunnelling" /\ Returned("fixture") /\ output # None
    /\ To("admin") /\ port' = output /\ Dial("fixture", "asked")
    /\ UNCHANGED <<forward, test, sqlReady, setupFailed, teardown, world>>

AdminConnected ==
    /\ step = "admin" /\ dialling["fixture"] = "connected"
    /\ To("clear") /\ sqlReady' = TRUE /\ Dial("fixture", "none")
    /\ UNCHANGED <<forward, test, port, setupFailed, teardown, world>>

ClearSlot ==
    /\ step = "clear"
    /\ To(IF Cloud THEN "deploy" ELSE "secrets") /\ databases' = FALSE
    /\ UNCHANGED <<forward, test, sql, sqlReady, setupFailed, teardown, namespace, proxy, app>>

\* The application starts, and is used once it is ready.
DeployStarts ==
    /\ step = "deploy"
    /\ app' = TRUE
    /\ UNCHANGED <<forward, provider, step, late, test, sql, sqlReady, setupFailed, teardown,
                   namespace, proxy, databases>>

UseRuntime ==
    /\ step = "deploy" /\ app
    /\ To("test") /\ test' = "busy"
    /\ UNCHANGED <<forward, sql, sqlReady, setupFailed, teardown, world>>

SetupErrors ==
    \/ step \in {"secrets", "proxy", "clear", "deploy"}
    \/ step = "tunnelling" /\ Threw("fixture")
    \/ step = "admin" /\ dialling["fixture"] = "refused"

\* Mutant of SetupFails: the error is caught and forgotten.
SetupFailsUnseen ==
    /\ SetupErrors
    /\ To("diagnostics")
    /\ proxy' \in {proxy, step = "proxy" \/ proxy}
    /\ databases' \in {databases, step # "clear" /\ databases}
    /\ Dial("fixture", "none")
    /\ UNCHANGED <<forward, test, port, sqlReady, setupFailed, teardown, namespace, app>>

SetupFails ==
    /\ SetupErrors
    /\ To("diagnostics") /\ setupFailed' = TRUE
    /\ proxy' \in {proxy, step = "proxy" \/ proxy}
    /\ databases' \in {databases, step # "clear" /\ databases}
    /\ Dial("fixture", "none")
    /\ UNCHANGED <<forward, test, port, sqlReady, teardown, namespace, app>>

(***************************************************************************)
(* The test: connect() and restart() of the runtime it was handed. An      *)
(* abandoned one goes on until the worker ends.                            *)
(***************************************************************************)
Unused == <<forward, provider, step, sqlReady, setupFailed, teardown, namespace, proxy>>

TestGoesOn(from, to, deed) ==
    /\ step \notin Over
    /\ test = from /\ test' = to
    /\ late' = IF step = "test" THEN late ELSE late \cup deed

TestConnects ==
    /\ TestGoesOn("busy", "connecting", {"connect"}) /\ Ask("test")
    /\ UNCHANGED <<Unused, app, databases>>

TestConnected ==
    /\ dialling["test"] \in {"connected", "refused"}
    /\ TestGoesOn("connecting", "busy", {}) \/ TestGoesOn("probing", "deploying", {})
    /\ Dial("test", "none")
    /\ UNCHANGED <<Unused, port, app, databases>>

TestRestarts ==
    /\ TestGoesOn("busy", "stopping", {})
    /\ UNCHANGED <<Unused, sql, app, databases>>

\* With no pod left it looks at the storage; a stop that fails ends the restart.
TestStopped ==
    /\ \/ TestGoesOn("stopping", "probing", {"connect"}) /\ app' = FALSE /\ Ask("test")
       \/ TestGoesOn("stopping", "busy", {}) /\ UNCHANGED <<app, sql>>
    /\ UNCHANGED <<Unused, databases>>

\* Whatever the storage held, RHDH is deployed again.
TestDeploys ==
    /\ TestGoesOn("deploying", "busy", {"deploy"})
    /\ app' \in {app, namespace}
    /\ UNCHANGED <<Unused, sql, databases>>

TestStep == TestConnects \/ TestConnected \/ TestRestarts \/ TestStopped \/ TestDeploys

\* The test has ended, or it has timed out.
UseReturns ==
    /\ step = "test"
    /\ step' = "diagnostics"
    /\ \/ test = "busy" /\ test' = "finished" /\ UNCHANGED late
       \/ UNCHANGED test /\ late' = IF test \in {"connecting", "probing"} THEN {"connect"} ELSE {}
    /\ UNCHANGED <<forward, provider, sql, sqlReady, setupFailed, teardown, world>>

(***************************************************************************)
(* teardownRuntime.                                                        *)
(***************************************************************************)
\* attempt(): an error goes on the list.
Attempt(phase, done, next) ==
    /\ step = phase /\ To(next)
    /\ errors' = IF done THEN errors ELSE errors \cup {IF phase \in Takes THEN phase ELSE "other"}
    /\ UNCHANGED <<test, sqlReady, setupFailed, report>>

CollectDiagnostics(done) ==
    /\ Attempt("diagnostics", done, "stop-application")
    /\ UNCHANGED <<forward, sql, world>>

\* Done once no pod but the proxy's is listed.
StopApplication(done) ==
    /\ Attempt("stop-application", done, "close-sql-clients")
    /\ app' \in IF done THEN {FALSE} ELSE {app, FALSE}
    /\ UNCHANGED <<forward, sql, namespace, proxy, databases>>

\* Mutant of MayDrop: the databases are dropped whether the application stopped or not.
MayDropUnderWriter == ~Cloud \/ sqlReady

\* Mutant of MayDrop: dropping does not depend on the setup.
MayDropUnready == "stop-application" \notin errors

\* No drop under a live writer, nor without a path to the server.
MayDrop == "stop-application" \notin errors /\ (~Cloud \/ sqlReady)

CloseSqlClients(done) ==
    /\ Attempt("close-sql-clients", done, IF MayDrop THEN "drop-connect" ELSE "report")
    /\ IF MayDrop THEN Ask("fixture") ELSE UNCHANGED sql
    /\ UNCHANGED <<forward, world>>

DropRefused ==
    /\ dialling["fixture"] = "refused"
    /\ step = "drop-connect" /\ To("report")
    /\ errors' = errors \cup {"drop-databases"} /\ Dial("fixture", "none")
    /\ UNCHANGED <<forward, test, port, sqlReady, setupFailed, report, world>>

DropConnected ==
    /\ dialling["fixture"] = "connected"
    /\ step = "drop-connect" /\ To("drop-databases") /\ Dial("fixture", "none")
    /\ UNCHANGED <<forward, test, port, sqlReady, setupFailed, teardown, world>>

DropDatabases(done) ==
    /\ Attempt("drop-databases", done, "report")
    /\ databases' \in IF done THEN {FALSE} ELSE {databases, FALSE}
    /\ UNCHANGED <<forward, sql, namespace, proxy, app>>

Dropped == MayDrop /\ "drop-databases" \notin errors

ReportCleanup(done) ==
    /\ step = "report" /\ To("close-proxy")
    /\ errors' = IF done THEN errors ELSE errors \cup {"other"}
    /\ report' = IF Dropped THEN "completed" ELSE "incomplete"
    /\ UNCHANGED <<forward, test, sqlReady, setupFailed, sql, world>>

\* Mutant of CloseProxy: an error of the clients leaves the tunnel alone.
CloseProxyUnlessErrors(done) ==
    /\ Attempt("close-proxy", done, IF done THEN "closing" ELSE "delete-namespace")
    /\ IF Cloud /\ done THEN Stop("fixture") ELSE UNCHANGED call
    /\ UNCHANGED <<proc, child, output, sql, world>>

\* Closing the clients may fail; the tunnel is stopped in any case.
CloseProxy(done) ==
    /\ Cloud \/ done
    /\ Attempt("close-proxy", done, IF Cloud THEN "closing" ELSE "delete-namespace")
    /\ IF Cloud THEN Stop("fixture") ELSE UNCHANGED call
    /\ UNCHANGED <<proc, child, output, sql, world>>

ProxyClosed ==
    /\ step = "closing" /\ Idle("fixture") /\ To("delete-namespace")
    /\ UNCHANGED <<forward, test, sql, sqlReady, setupFailed, teardown, world>>

\* Everything in the namespace goes with it. Then the fixture throws what failed.
DeleteNamespace(done) ==
    /\ step = "delete-namespace"
    /\ errors' = IF done THEN errors ELSE errors \cup {"delete-namespace"}
    /\ To(IF setupFailed \/ errors' # {} THEN "threw" ELSE "passed")
    /\ \/ namespace' = FALSE /\ proxy' = FALSE /\ app' = FALSE
       \/ ~done /\ UNCHANGED <<namespace, proxy, app>>
    /\ UNCHANGED <<forward, test, sql, sqlReady, setupFailed, report, databases>>

FixtureStep ==
    \/ ResetNamespace \/ CreateSecrets \/ StartProxy \/ StartTunnel \/ TunnelStarted
    \/ AdminConnected \/ ClearSlot \/ UseRuntime \/ SetupFails
    \/ \E done \in BOOLEAN :
          \/ CollectDiagnostics(done) \/ StopApplication(done) \/ CloseSqlClients(done)
          \/ DropDatabases(done) \/ ReportCleanup(done) \/ CloseProxy(done) \/ DeleteNamespace(done)
    \/ DropRefused \/ DropConnected \/ ProxyClosed

(***************************************************************************)
(* The tunnel, RHDH, and the end of the worker at the fixture's timeout or *)
(* by a signal.                                                            *)
(***************************************************************************)
Unforwarded == <<provider, step, test, sql, sqlReady, setupFailed, teardown, late, world>>

SessionStep(c) == step \notin Over /\ (CallerStep(c) \/ ReadyTimeout(c)) /\ UNCHANGED Unforwarded

\* Only a port-forward to a pod that is there can listen.
ForwardAnnounces(k) == step \notin Over /\ proxy /\ Announce(k) /\ UNCHANGED Unforwarded
ForwardEnds(k) == step \notin Over /\ End(k) /\ UNCHANGED Unforwarded

PluginCreatesDatabase ==
    /\ app /\ databases' = TRUE
    /\ UNCHANGED <<forward, provider, step, test, sql, sqlReady, setupFailed, teardown, late,
                   namespace, proxy, app>>

WorkerKilled ==
    /\ step \notin Over /\ To("killed")
    /\ UNCHANGED <<forward, test, sql, sqlReady, setupFailed, teardown, world>>

Next ==
    \/ FixtureStep \/ DeployStarts \/ UseReturns \/ TestStep
    \/ \E c \in Callers : ConnectStep(c) \/ SessionStep(c)
    \/ \E k \in Kids : ForwardAnnounces(k) \/ ForwardEnds(k)
    \/ PluginCreatesDatabase \/ WorkerKilled

(***************************************************************************)
(* Every step of the fixture and every connection has a deadline (each     *)
(* query too, by the query_timeout of its client), and SIGKILL ends what   *)
(* SIGTERM does not.                                                       *)
(***************************************************************************)
Fairness ==
    /\ WF_vars(FixtureStep)
    /\ \A c \in Callers : WF_vars(ConnectStep(c)) /\ WF_vars(SessionStep(c))
    /\ \A k \in Kids : WF_vars(proc[k] = "dying" /\ ForwardEnds(k))

Spec == Init /\ [][Next]_vars /\ Fairness

(***************************************************************************)
(* Properties                                                              *)
(***************************************************************************)
\* Types, and: databases are dropped through a tunnel there has been.
TypeOK ==
    /\ ForwardTypeOK
    /\ provider \in {"direct", "cloudsql"}
    /\ step \in SetupSteps \cup {"test"} \cup TeardownSteps \cup Over
    /\ test \in TestSteps
    /\ dialling \in [Callers -> DialSteps] /\ port \in Kids \cup {None}
    /\ sqlReady \in BOOLEAN /\ setupFailed \in BOOLEAN
    /\ step \in {"drop-connect", "drop-databases"} /\ Cloud => port # None
    /\ errors \in SUBSET (Takes \cup {"other"}) /\ report \in {"none", "completed", "incomplete"}
    /\ late \in SUBSET {"connect", "deploy"}
    /\ namespace \in BOOLEAN /\ proxy \in BOOLEAN /\ app \in BOOLEAN /\ databases \in BOOLEAN

\* A cleanup reported as completed is complete, and stays so: nobody is left to create
\* the databases again, except a test that timed out inside a restart and still deploys.
TrueReport == report = "completed" /\ "deploy" \notin late => ~databases

\* What a teardown leaves has an error of its own, whatever else failed before it, and
\* the fixture throws: "a failed step never skips a later one".
TornDown == step \in {"passed", "threw"} /\ report # "none"

LeftoversExplained ==
    TornDown =>
        /\ databases => \/ errors \cap {"stop-application", "drop-databases"} # {}
                        \/ Cloud /\ ~sqlReady /\ setupFailed
                        \/ "deploy" \in late
        /\ namespace => "delete-namespace" \in errors
        /\ app => namespace
        /\ errors # {} \/ setupFailed => step = "threw"

\* A tunnel is never lost between a failed start, a restart and the teardown, and none
\* outlives a teardown that no abandoned test asked for another connection.
NoStrayTunnel ==
    /\ Unattended \subseteq {child}
    /\ TornDown /\ "connect" \notin late => Unattended = {}

\* A connection is asked of the tunnel that runs, not of the local port of one that died.
PortIsCurrent ==
    late = {} => \A c \in Callers : dialling[c] = "dialling" /\ Cloud /\ Running => port = child

\* A teardown comes to an end, whatever the tunnel, the server and the cluster do.
TeardownEnds == (step = "diagnostics") ~> (step \in Over)
=============================================================================
