----------------------------- MODULE SchemaMode -----------------------------
(***************************************************************************)
(* verify-schema-mode.spec.ts in one Playwright worker: beforeAll opens a  *)
(* port-forward to PostgreSQL, stops RHDH, drops the databases its plugins *)
(* left, prepares a restricted role, reconfigures RHDH for one database    *)
(* with a schema per plugin, and resumes it; two tests look at the result; *)
(* afterAll stops the port-forward. Every query goes through a connection  *)
(* that is retried, restarting the port-forward when it looks dead         *)
(* (schema-mode-db.ts). When a hook or a test times out, Playwright goes   *)
(* on to afterAll while the suspended code still runs.                     *)
(***************************************************************************)
EXTENDS PortForward

CONSTANTS
    Databases,          \* the databases plugins may have in the default mode
    MaxRetries          \* attempts of connectWithRetry (5 in the code)

ASSUME RetriesAssumption == MaxRetries \in Nat \ {0}
ASSUME CallersAssumption == Callers = {"body", "hook"}

VARIABLES
    body,               \* what the code of beforeAll, then of the tests, does next
    goal,               \* what it does once connected
    attempt,            \* number of the current attempt to connect, from 0
    faults,             \* disturbances since that connection was asked for
    tls,                \* whether the attempts ask for SSL
    hook,               \* afterAll, and the end of the worker
    restarter,          \* a restart of the port-forward is bound
    assigned,           \* the spec's variable portForwardHarness is set
    missed,              \* afterAll had no harness to stop, or the body was inside it
    app,                \* how the pods of RHDH divide plugins; "none" without pods
    config,             \* how the configuration says they should
    databases,          \* plugin databases on the server
    todo,               \* those listed and not dropped yet
    restricted,         \* the role of the tests may not create databases
    direct,             \* the server is reached without a port-forward
    serverTls           \* the server accepts SSL

code == <<body, goal, attempt, tls>>
playwright == <<hook, restarter, assigned, missed>>
cluster == <<app, config, databases, todo, restricted>>
server == <<direct, serverTls>>
vars == <<forward, code, faults, playwright, cluster, server>>

Finished == {"done", "failed", "gaveup", "skipped"}
Setup == {"discover", "open", "opening", "stop", "list", "drop"}
Prepared == {"role", "grant", "verify", "configure", "resume", "assign",
             "user", "probe", "rollout", "catalog"}

Init ==
    /\ ForwardInit
    /\ direct \in BOOLEAN /\ serverTls \in BOOLEAN
    /\ body = "discover" /\ goal = "discover" /\ attempt = 0 /\ faults = 0 /\ tls = TRUE
    /\ hook = "waiting" /\ restarter = FALSE /\ assigned = FALSE /\ missed = FALSE
    /\ app = "separate" /\ config = "separate"
    /\ databases \in SUBSET Databases /\ todo = {} /\ restricted \in BOOLEAN

Go(from, to) == body = from /\ body' = to /\ UNCHANGED <<goal, attempt, faults, tls>>

\* A connection is wanted for what comes next.
Connect(from, next) ==
    /\ body = from /\ body' = "dial"
    /\ goal' = next /\ attempt' = 0 /\ faults' = 0 /\ tls' = TRUE

(***************************************************************************)
(* configureSchemaMode and the port-forward of beforeAll.                  *)
(***************************************************************************)
\* A read that fails counts as "not found", and the tests are skipped.
Discover ==
    /\ \/ Go("discover", IF direct THEN "stop" ELSE "open")
       \/ ~direct /\ Go("discover", "skipped")
    /\ UNCHANGED <<forward, playwright, cluster, server>>

OpenForward ==
    /\ Go("open", "opening") /\ Start("body")
    /\ UNCHANGED <<proc, child, output, playwright, cluster, server>>

ForwardOpened ==
    /\ Idle("body")
    /\ Go("opening", IF Returned("body") THEN "stop" ELSE "failed")
    /\ restarter' = Returned("body")
    /\ UNCHANGED <<forward, hook, assigned, missed, cluster, server>>

(***************************************************************************)
(* connectWithSslFallback: one attempt with SSL, then connectWithRetry,    *)
(* without SSL if the server refused it, and with SSL after other errors.  *)
(***************************************************************************)
Reachable == direct \/ \E k \in Kids : proc[k] = "ready"

Connected ==
    /\ Reachable /\ tls = serverTls
    /\ Go("dial", goal)
    /\ UNCHANGED <<forward, playwright, cluster, server>>

\* Mutant of AfterFailure: the loop ends one attempt early.
AfterFailureEarly(dead) ==
    /\ body = "dial"
    /\ UNCHANGED <<goal, restarter>>
    /\ \/ /\ attempt \in {MaxRetries - 1, MaxRetries}
          /\ body' = "gaveup" /\ UNCHANGED <<forward, attempt>>
       \/ /\ attempt = 0 \/ (attempt < MaxRetries - 1 /\ ~(dead /\ restarter))
          /\ attempt' = attempt + 1 /\ UNCHANGED <<forward, body>>
       \/ /\ attempt \in 1..(MaxRetries - 2) /\ dead /\ restarter
          /\ body' = "restart" /\ Restart("body")
          /\ UNCHANGED <<proc, child, output, attempt>>

\* What an attempt that failed leads to. A dead connection restarts the port-forward.
AfterFailure(dead) ==
    /\ body = "dial"
    /\ UNCHANGED <<goal, restarter>>
    /\ \/ /\ attempt = MaxRetries
          /\ body' = "gaveup" /\ UNCHANGED <<forward, attempt>>
       \/ /\ attempt = 0 \/ (attempt < MaxRetries /\ ~(dead /\ restarter))
          /\ attempt' = attempt + 1 /\ UNCHANGED <<forward, body>>
       \/ /\ attempt \in 1..(MaxRetries - 1) /\ dead /\ restarter
          /\ body' = "restart" /\ Restart("body")
          /\ UNCHANGED <<proc, child, output, attempt>>

SslRefused ==
    /\ Reachable /\ tls /\ ~serverTls
    /\ AfterFailure(FALSE)
    /\ tls' = (attempt # 0)
    /\ UNCHANGED <<faults, hook, assigned, missed, cluster, server>>

ConnectionRefused ==
    /\ ~Reachable
    /\ AfterFailure(TRUE)
    /\ UNCHANGED <<tls, faults, hook, assigned, missed, cluster, server>>

OneMore == IF faults < MaxRetries THEN faults + 1 ELSE faults

\* The server resets the connection (dead) or does not answer in time.
Hiccup(dead) ==
    /\ Reachable
    /\ AfterFailure(dead)
    /\ faults' = OneMore
    /\ UNCHANGED <<tls, hook, assigned, missed, cluster, server>>

\* Mutant of Restarted: an attempt after a restart is not counted.
RestartedUncounted ==
    /\ body = "restart" /\ Idle("body")
    /\ body' = "dial"
    /\ UNCHANGED <<forward, goal, attempt, tls, faults, playwright, cluster, server>>

\* Mutant of Restarted: a restart counts as an attempt of its own.
RestartedTwice ==
    /\ body = "restart" /\ Idle("body")
    /\ body' = "dial" /\ attempt' = attempt + 2
    /\ UNCHANGED <<forward, goal, tls, faults, playwright, cluster, server>>

\* The error of a restart that failed is only logged.
Restarted ==
    /\ body = "restart" /\ Idle("body")
    /\ body' = "dial" /\ attempt' = attempt + 1
    /\ UNCHANGED <<forward, goal, tls, faults, playwright, cluster, server>>

(***************************************************************************)
(* setupDatabase and configureRHDH, with RHDH stopped.                     *)
(***************************************************************************)
\* Mutant of StopApplication: RHDH is scaled down, but its pods are not awaited.
StopWithoutWaiting ==
    /\ Connect("stop", "list")
    /\ UNCHANGED <<forward, playwright, cluster, server>>

StopApplication ==
    /\ Connect("stop", "list")
    /\ app' = "none"
    /\ UNCHANGED <<forward, playwright, config, databases, todo, restricted, server>>

ListDatabases ==
    /\ Go("list", "drop")
    /\ todo' = databases
    /\ UNCHANGED <<forward, playwright, app, config, databases, restricted, server>>

DropDatabase(d) ==
    /\ d \in todo
    /\ Go("drop", "drop")
    /\ todo' = todo \ {d} /\ databases' = databases \ {d}
    /\ UNCHANGED <<forward, playwright, app, config, restricted, server>>

AllDropped ==
    /\ todo = {}
    /\ Go("drop", "role")
    /\ UNCHANGED <<forward, playwright, cluster, server>>

\* CREATE USER or ALTER USER with NOCREATEDB; CONNECT revoked elsewhere.
PrepareRole ==
    /\ Connect("role", "grant")
    /\ restricted' = TRUE
    /\ UNCHANGED <<forward, playwright, app, config, databases, todo, server>>

GrantSchema == Connect("grant", "verify") /\ UNCHANGED <<forward, playwright, cluster, server>>
VerifyRole == Go("verify", "configure") /\ UNCHANGED <<forward, playwright, cluster, server>>

ConfigureRhdh ==
    /\ Go("configure", "resume")
    /\ config' = "schema"
    /\ UNCHANGED <<forward, playwright, app, databases, todo, restricted, server>>

ResumeApplication ==
    /\ Go("resume", "assign")
    /\ app' = config
    /\ UNCHANGED <<forward, playwright, config, databases, todo, restricted, server>>

\* beforeAll is done: only now the spec can tell afterAll what to stop.
AssignHarness ==
    /\ Connect("assign", "user")
    /\ assigned' = ~direct
    /\ UNCHANGED <<forward, hook, restarter, missed, cluster, server>>

(***************************************************************************)
(* The tests: the role may not create databases; the catalog has its       *)
(* schema, and there is no database of a plugin.                           *)
(***************************************************************************)
ConnectAsUser == Connect("user", "probe") /\ UNCHANGED <<forward, playwright, cluster, server>>

ProbePermissions ==
    /\ Go("probe", IF restricted THEN "rollout" ELSE "failed")
    /\ UNCHANGED <<forward, playwright, cluster, server>>

AwaitRollout == Connect("rollout", "catalog") /\ UNCHANGED <<forward, playwright, cluster, server>>

VerifyCatalogSchema ==
    /\ Go("catalog", IF app = "schema" /\ databases = {} THEN "done" ELSE "failed")
    /\ UNCHANGED <<forward, playwright, cluster, server>>

\* Whatever calls the cluster or the server may fail, having done its work or not.
StepFails ==
    /\ body \in (Setup \cup Prepared) \ {"discover", "open", "opening", "assign"}
    /\ Go(body, "failed")
    /\ \/ UNCHANGED app
       \/ body = "stop" /\ app' = "none"
       \/ body = "resume" /\ app' = config
    /\ \/ UNCHANGED config
       \/ body = "configure" /\ config' = "schema"
    /\ databases' \in {databases} \cup {databases \ {d} : d \in todo}
    /\ UNCHANGED <<forward, playwright, todo, restricted, server>>

BodyStep ==
    /\ hook # "exited"
    /\ \/ Discover \/ OpenForward \/ ForwardOpened
       \/ Connected \/ SslRefused \/ ConnectionRefused \/ Hiccup(TRUE) \/ Hiccup(FALSE) \/ Restarted
       \/ StopApplication \/ ListDatabases \/ (\E d \in Databases : DropDatabase(d)) \/ AllDropped
       \/ PrepareRole \/ GrantSchema \/ VerifyRole \/ ConfigureRhdh \/ ResumeApplication
       \/ AssignHarness \/ ConnectAsUser \/ ProbePermissions \/ AwaitRollout
       \/ VerifyCatalogSchema \/ StepFails

(***************************************************************************)
(* afterAll, once the body has ended or timed out, and the end of the      *)
(* worker. Stopping the harness first takes the restarter away.            *)
(***************************************************************************)
AfterAll ==
    /\ hook = "waiting"
    /\ missed' = (~assigned \/ ~Idle("body"))
    /\ IF assigned THEN /\ hook' = "stopping" /\ restarter' = FALSE
                        /\ Stop("hook")
                        /\ UNCHANGED <<proc, child, output>>
                   ELSE hook' = "stopped" /\ UNCHANGED <<restarter, forward>>
    /\ UNCHANGED <<code, faults, assigned, cluster, server>>

HarnessStopped ==
    /\ hook = "stopping" /\ Idle("hook") /\ hook' = "stopped"
    /\ UNCHANGED <<forward, code, faults, restarter, assigned, missed, cluster, server>>

WorkerExits ==
    /\ hook = "stopped" /\ hook' = "exited"
    /\ UNCHANGED <<forward, code, faults, restarter, assigned, missed, cluster, server>>

(***************************************************************************)
(* The port-forward object in the worker, its process, and RHDH.           *)
(***************************************************************************)
SessionStep(c) ==
    /\ hook # "exited"
    /\ CallerStep(c) \/ ReadyTimeout(c)
    /\ faults' = IF SpawnFails(c) \/ ReadyTimeout(c) THEN OneMore ELSE faults
    /\ UNCHANGED <<code, playwright, cluster, server>>

\* All forward the one local port 5432.
PortTaken(k) == \E j \in Kids \ {k} : proc[j] \in {"ready", "dying"}

ForwardAnnounces(k) ==
    /\ ~PortTaken(k) /\ Announce(k)
    /\ UNCHANGED <<code, faults, playwright, cluster, server>>

\* A process ends as it was told to, because it cannot listen, or for no reason of ours.
ForwardEnds(k) ==
    /\ End(k)
    /\ faults' = IF k \in Unattended /\ ~(proc[k] = "starting" /\ PortTaken(k)) THEN OneMore ELSE faults
    /\ UNCHANGED <<code, playwright, cluster, server>>

PluginCreatesDatabase(d) ==
    /\ app = "separate" /\ databases' = databases \cup {d}
    /\ UNCHANGED <<forward, code, faults, playwright, app, config, todo, restricted, server>>

Next ==
    \/ BodyStep \/ AfterAll \/ HarnessStopped \/ WorkerExits
    \/ \E c \in Callers : SessionStep(c)
    \/ \E k \in Kids : ForwardAnnounces(k) \/ ForwardEnds(k)
    \/ \E d \in Databases : PluginCreatesDatabase(d)

(***************************************************************************)
(* Calls to the cluster and to the port-forward have deadlines, and        *)
(* SIGKILL ends what SIGTERM does not. A pg client of these tests has a    *)
(* deadline for its connection alone: that each query settles, by an       *)
(* answer or a broken connection, is assumed. Nothing else is, of the      *)
(* port-forward or the server.                                             *)
(***************************************************************************)
Fairness ==
    /\ WF_vars(BodyStep)
    /\ \A c \in Callers : WF_vars(SessionStep(c))
    /\ \A k \in Kids : WF_vars(proc[k] = "dying" /\ ForwardEnds(k))

Spec == Init /\ [][Next]_vars /\ Fairness

(***************************************************************************)
(* Properties                                                              *)
(***************************************************************************)
Next1 == IF body \in {"dial", "restart"} THEN goal ELSE body

\* Types, and: a port-forward is restarted only between two attempts.
TypeOK ==
    /\ ForwardTypeOK
    /\ body \in Setup \cup Prepared \cup Finished \cup {"dial", "restart"}
    /\ goal \in Setup \cup Prepared
    /\ attempt \in 0..MaxRetries /\ faults \in 0..MaxRetries /\ tls \in BOOLEAN
    /\ body = "restart" => attempt \in 1..(MaxRetries - 1)
    /\ hook \in {"waiting", "stopping", "stopped", "exited"}
    /\ restarter \in BOOLEAN /\ assigned \in BOOLEAN /\ missed \in BOOLEAN
    /\ app \in {"none", "separate", "schema"} /\ config \in {"separate", "schema"}
    /\ databases \in SUBSET Databases /\ todo \in SUBSET Databases
    /\ restricted \in BOOLEAN /\ direct \in BOOLEAN /\ serverTls \in BOOLEAN

\* Once the plugin databases are dropped none comes back, so that the tests look at
\* what schema mode made: RHDH is stopped before the listing, and resumed only with
\* the new configuration.
SchemaStaysClean == Next1 \in Prepared \cup {"done"} => databases = {}

\* No port-forward is lost: a process nobody told to end is the child that the session
\* would stop, whatever failed or was restarted; and when the worker ends without one,
\* unless beforeAll did not get to hand its harness over, or afterAll came while a
\* start or a restart was suspended.
ForwardAccounted ==
    /\ Unattended \subseteq {child}
    /\ ~missed /\ hook = "exited" => Unattended = {}

\* The connection is given up only after as many disturbances of the port-forward or
\* the server as there are restarts, provided that the first attempt told whether the
\* server speaks SSL.
GivesUp == body = "gaveup" /\ hook = "waiting"

RetriesSuffice == GivesUp /\ tls = serverTls => faults >= MaxRetries - 1

\* What the README of the tests says of the retries: transient instability of the
\* port-forward is handled, and it is restarted when it crashed.
CrashIsSurvived == GivesUp /\ ~direct => faults >= MaxRetries - 1

\* Setup and tests come to an end without the help of Playwright's timeout, although the
\* port-forward may crash again and again.
BodyEnds == <>(body \in Finished \/ hook = "exited")
=============================================================================
