# TLA+ models of Red Hat Developer Hub (janus-idp/backstage-showcase)

The repository holds the RHDH application (`packages/`, `plugins/`), a thin
layer over the Backstage framework, and the machinery that deploys, breaks,
restarts and cleans up RHDH on real clusters and database hosts
(`e2e-tests/`, `.ci/`). Most of the hard behaviour is where the code waits for
something that moves on its own: a catalog edited during a sign-in, a database
host shared by overlapping runs, a cluster whose status lags behind its pods,
a write whose answer is lost, a tunnel that dies under several callers. That is
what is modelled.

Tools: `tlc -config X.cfg MCM.tla` for the runs, `tlapm M_proofs.tla` for the
proofs. `PROJECT.json` lists the components, the runs, the source lines of every
definition, the hazards, and for every property a mutant of the code that breaks it.

## Inventory

| component | state it keeps | operations | hard behaviour | what makes it correct |
|---|---|---|---|---|
| sign-in ownership (`packages/backend/src/transitiveGroupOwnershipResolver.ts`) | the recursion, one set of processed groups | resolve a user's ownership refs | one catalog lookup per await, catalog edited meanwhile, cycles | every lasting ancestor owned, nothing else, ends |
| dynamic features resolver and preload (`packages/backend/src/modules`) | store of remotes and snapshots, cached script and ETag | filter and collect at startup, serve `preload.js` | stale caches over restarts, snapshots that fail | a page is told the remotes the backend lists |
| database cleanup (`e2e-tests/playwright/utils/runtime-database.ts`) | list of databases, deadline | list, drop, terminate, drain, verify | sessions and databases appear between queries | reports cleared only what is, spares others, ends |
| slots shared by runs (same file, fixtures, teardown) | run ids, databases and pods of each run | prepare, retire old runs, deploy, tear down | overlapping runs, skewed clocks, killed runners | no live run loses data, leftovers go |
| application lifecycle (`runtime-lifecycle.ts`, `runtime-harness.ts`, `runtime-tls.ts`, `runtime-restart.ts`, `runtime-deploy.ts`) | original configuration, errors, revision | stop, change, resume, redeploy, recover | four cluster controllers, stale status, failure anywhere | changes made with no pod, configuration restored |
| KubeClient restart (`utils/kube-client/`) | attempt counter | scale with retries, wait, restart | stale status, terminating pods | the old pod is replaced |
| catalog persistence check (`runtime-catalog-persistence.ts`) | adopted uid, reconcile flag | write, follow, compare offline and after | lost and late writes, storage that forgets | a pass is sound, a failure has a cause |
| fixtures and teardown (`cloudsql-runtime.ts`, `external-postgres-runtime.ts`, `runtime-teardown.ts`) | namespace, proxy, application, databases, errors so far | recreate, prepare, deploy, use, ordered teardown | any step fails, a test times out and goes on, the worker is killed | reports are true, what is left has its error, ends |
| port forwards, SQL sessions (`port-forward.ts`, `cloudsql-database.ts`, `port-forward-harness.ts`) | child process, output, port, suspended callers | start, restart, stop, connect | exits, timeouts, a stop during a restart, two callers at once | no process is lost, no old port is used |
| schema-mode setup and tests (`plugin-division-mode-schema`) | connection, role, databases, configuration | connect with retry, clean, grant, reconfigure, verify | retries through a restarted tunnel, abandoned hooks | dropped stays dropped, gives up only for a cause |
| namespaces, deployment resources (`runtime-lifecycle.ts`, `runtime-deploy.ts`) | owner labels, revision | reset, create or replace, delete | foreign or terminating namespaces | partly, in `RuntimeFixture` and `RuntimeRollout` |
| authentication provider deployments (`utils/authentication-providers`) | baseline generation, local process | configure, reconcile, wait | stale status between patches | not modelled |
| licensed users (`plugins/licensed-users-info-backend`), dynamic plugins info, RBAC plugin ids, backend assembly, front end, app shell, polling helpers, lockfile surgeon, coverage, release scripts, CI shell | little or none | requests, wiring, text, calls to other programs | | not modelled, see below |

How they interact: a fixture (`external-postgres-runtime.ts`,
`cloudsql-runtime.ts`) makes a run id, clears the databases of its slot
(`clearSlotDatabases` calls `clearOwnedDatabases` per prefix), deploys RHDH,
and hands the test the jobs of the application lifecycle and the catalog
persistence check, which calls `restart` with a probe of the storage. The
teardown stops the application, closes the connections, drops the run's databases,
closes the tunnel and deletes the namespace. Cloud SQL is reached through a proxy pod
and a `PortForwardSession`, which the test and the fixture share; the schema-mode
tests have a session of their own, restarted by the connection it carries. The backend's
parts are independent of each other: the resolver of sign-ins asks the catalog
over its API, and the preload endpoint is fed by the framework's remotes router.

## Modules

| module | models | extended or used by |
|---|---|---|
| `GroupOwnership` | the walk over childOf relations | `MCGroupOwnership`, `GroupOwnership_proofs` |
| `OwnedDatabases` | what clearing a prefix promises (abstract) | `DatabaseCleanup` (refinement), `SlotRuns` (its use of a cleanup) |
| `DatabaseCleanup` | `clearOwnedDatabases` | `MCDatabaseCleanup`, `DatabaseCleanup_proofs` |
| `SlotRuns` | `clearSlotDatabases` and the life of a run | `MCSlotRuns`, `SlotRuns_proofs` |
| `DeploymentCluster` | operator, deployment controller, replica sets, kubelet (external) | `RuntimeRollout`, `DeploymentRestart` |
| `OneVersion` | what stopping before a change is for (abstract) | `RuntimeRollout` (refinement) |
| `RuntimeRollout` | `withAppTitle`, the CA check, `restartRuntime` | `MCRuntimeRollout`, `Deployment_proofs` |
| `DeploymentRestart` | `restartDeployment` of the KubeClient | `MCDeploymentRestart`, `Deployment_proofs` |
| `CatalogPersistence` | `verifyCatalogPersistence` | `MCCatalogPersistence`, `CatalogPersistence_proofs` |
| `DynamicFeaturesPreload` | the resolver plugin and `preload.js` | `MCDynamicFeaturesPreload`, `DynamicFeaturesPreload_proofs` |
| `PortForward` | `PortForwardSession` with its process and any callers | `SchemaMode`, `RuntimeFixture` (composition) |
| `SchemaMode` | the schema-mode spec over a port-forward | `MCSchemaMode`, `SchemaMode_proofs` |
| `RuntimeFixture` | one use of a runtime fixture, with `teardownRuntime` and `CloudSqlDatabaseSession` | `MCRuntimeFixture`, `RuntimeFixture_proofs` |

An operator whose comment begins "Mutant of" is no part of a specification: it is
a plausible bug of the definition it names, kept beside it, and shows that some
property would notice.

**GroupOwnership.** `levels` is the call stack of `resolveParentGroups`, one
record of refs to do and refs found per active call; `processed` is the set all
levels share. `LookupGroup` is the code from the answer of the catalog to the next
call; `ReturnToCaller` merges a finished level. `EditCatalog` is the catalog's
ingestion, between any two lookups. The history variables `always` and `ever`
say which relations lasted, and which existed at some moment of the walk.

**DatabaseCleanup.** One action per query. `left` counts the two-second waits
before the one deadline; `own` and `foreign` are the sessions of the role and of
others. PostgreSQL refuses to drop a database under a session, and ends a session it
was told to end in its own time (`ending`); pods, their orphaned
backends and other roles come and go between queries. `outcome` maps `pc` to
the state of `OwnedDatabases`, whose databases are the host's.

**SlotRuns.** Each identity is a run on one slot. A cleanup by `OwnedDatabases` is
taken as one drop and one report, which the refinement above justifies: a
cleanup that reports success left nothing, one that fails may have dropped some
of it. Time is relative (`age`, `lag`), and the clocks of runners differ
by up to `MaxSkew`.

**DeploymentCluster** is all the code relies on in Kubernetes: a status is
computed from reports, which are computed from pods, each at its own time.
`RuntimeRollout` and `DeploymentRestart` are the two ways of the code to deal with
that: the first compares generations and lists pods, the second reads
`availableReplicas` alone. So the first implements `OneVersion`, whose `running` is the
set of revision and configuration of the pods there are, and the second does not: it
lets an ending pod and its successor overlap. (`KeepsOneVersion` has no run: it is
proved, and the states of `rollout_jobs` agree with it.) The names of `DeploymentRestart`
(`stage`, `RestartStep`, `RestartSpec`) are its own, so that one proof module can extend both.
A behaviour of `RuntimeRollout` is the jobs of one deployment: the shared one, whose title is
changed, or that of a fixture, which is restarted and whose CA is changed; the recovery of
a CA check writes the fixture's own certificate, that of the others what they read.

**CatalogPersistence.** `post[p]` is the fate of one request, which goes on after the
client gave up on it; `row` is what RHDH's catalog stores, `external` whether it
does so in the run's database, `lost` whether it ever forgot. An answer that is an
error says nothing of whether the POST was committed. The failures of reads and of SQL
connections that are not tried again end the check with a `reason` of their own.

**DynamicFeaturesPreload.** `Visit` is one call of the provider by the remotes
router; `Load` is one page load: the request, with the ETag of the
browser's copy, and what the page then runs. Snapshots are kept by `manifest.name`
(`Put`), remotes by plugin: of two plugins with one name, one has a snapshot.

**PortForward** has no specification of its own: it is the object, `call[c]` is where
each asynchronous caller is suspended in it, and the modules that extend it say who
calls what. A caller resumes between any two steps of the others. `Announce` and
`End` are the events of the process, which settle the `start()` that awaits them;
`ReadyTimeout` is its timer. `start()` returns whatever child there is, ready or not.
A spawn that fails is one step (`SpawnFails`), although its error event comes a tick after
the child was set: no process exists, so nothing could be lost or kept in between.

**SchemaMode.** `body` is the program counter of beforeAll and then of the tests,
`dial` and `restart` its retries, `goal` what it does once connected. `hook` is
afterAll, which Playwright runs although the body may be suspended anywhere
(`missed` records that it was inside the port-forward, or had not handed its harness
over). The port-forward uses the one local port 5432, so a second process announces
itself only when the first is gone. RHDH creates plugin databases whenever it runs
in the default mode. `faults` counts disturbances, for the properties only.

**RuntimeFixture.** `step` is the fixture, `test` the test it serves, which goes on
beside the teardown once it timed out; `dialling` and `port` are
`CloudSqlDatabaseSession.connect`, `sqlReady` whether there ever was a path to the
server, `errors` and `report` what `teardownRuntime` collects. `late` is a history
variable: what an abandoned test did beside the teardown. A failing step may have
done its work or not. The direct provider has no tunnel and prepares its databases
before its secrets. What `SlotRuns` takes as one step of a run is here the sequence
of calls behind it.

## Runs

| run | instance | shows |
|---|---|---|
| `ownership_edits` | 2 groups, 1 dangling ref, every hierarchy, 2 edits during the sign-in | what is owned lies between the lasting and the momentary hierarchy (`NothingMissed`, `NothingInvented`), and `SignInEnds` |
| `cleanup_shared` | 2 databases, deadline of 3 waits, writers may run | the cleanup implements `OwnedDatabases` (`KeepsPromise`) and passes over no database (`NothingForgotten`), `OthersLeftAlone`, `CleanupEnds` |
| `cleanup_drain` | the same, writers stopped | violation of `WaitsOnlyForOthers` |
| `slot_safety` | 3 overlapping runs, clocks 1 apart, stale after 3 | `NeverRetiresLive`, `LiveRunsKeepDatabases`, `CompletedIsClean` |
| `slot_leftovers` | 1 run that may be killed, 1 that is not | `LeftoversGo` |
| `rollout_jobs` | 2 pods, 3 revisions, any sequence of the jobs of one deployment | `NoWriterWhileStopped`, `RolloutIsCurrent`, `Restored`, `JobsEnd` |
| `restart` | 2 pods, 3 scaling attempts | `RestartTypeOK`, `OldPodReplaced`, `RestartEnds` |
| `catalog` | 3 attempts, 2 identities | `PassMeansKept`, `NoFalseAlarm`, `WrittenMeansRegistered` |
| `preload` | 2 plugins of 5 kinds with 2 names, 2 browsers, 1 restart | `ShimAgreesWithRemotes`, `PreloadsOnlyExposed` |
| `schema_mode` | 2 processes, 2 callers, 2 databases, 3 retries | `SchemaStaysClean`, `ForwardAccounted`, `RetriesSuffice`, `BodyEnds` |
| `schema_retry` | the same, 1 database | violation of `CrashIsSurvived` |
| `runtime_fixture` | 2 processes, the test and the fixture as callers, both providers | `TrueReport`, `LeftoversExplained`, `NoStrayTunnel`, `PortIsCurrent`, `TeardownEnds` |

Why the bounds are enough. Two groups give chains and cycles with a way out, and a
group met on two levels; two edits let a relation go and come back. (Diamonds and
larger hierarchies are left to the theorems, which hold for every catalog.) Two databases make a session on a sibling of the busy one; three waits let the
deadline strike before, during and after a retry. Three runs give a cleaner, a
run it may retire, and a third that retires the same or is live; ages beyond
`AgeCap` look alike to every clock. Two pods are the old one and its
successor; three revisions let one job run into the rest of the one before.
Three attempts are a lost write, its retry and a late commit in between; the second
identity is that of a second ingestion. Two processes are a tunnel that is still ending and its successor,
and since `stop()` forgets a child before it awaits it, a third adds nobody a caller
could mix up; two callers are all the code has. Three retries have a first, a middle
one with a restart, and a last without. Deadlines not named here strike
nondeterministically. Symmetry is used in runs without liveness only.

Deadlock is checked where the system always goes on; `CHECK_DEADLOCK FALSE`
stands where it stops by design: a finished walk, a finished cleanup, a worker
that ended, and in `SlotRuns`.

### What the violations say

* `cleanup_drain`: the drain waits for the sessions of the whole prefix, but
  ends those of the busy database alone. Orphans of the role on a sibling
  database are waited for until the deadline, which then fails the cleanup; the
  comment at `runtime-database.ts:169` says that only other roles are waited for.
* `schema_retry`: only the first attempt to connect may fall back to a connection
  without SSL. If the port-forward crashes under it, all retries ask for SSL, and a
  server without SSL (the Bitnami sub-chart's default, `schema-mode-db.ts:133`)
  refuses each, although the port-forward is back. The README of those tests says that
  such a crash is handled. `RetriesSuffice` is what holds instead: after a first
  attempt that told the two kinds of server apart, only as many disturbances as
  there are restarts use the retries up.

More places where a text and the code differ, or where the code leaves a gap, have no run
or only a weaker property, since the model merely restates the code:

* `docs/e2e-tests/cloudsql-runtime.md:26` says that a slot cleans databases left by
  earlier runs; those of a run killed less than six hours ago are left, on
  purpose, since it might be live (`runtime-database.ts:244`).
* `kube-client-deployment-pods.ts:28` logs that all pods are terminated, and the Deployment
  is scaled up, while pods are still terminating. `OldPodReplaced` allows for that.
* `kube-client/deployment/wait.ts:84`: the restart of the KubeClient believes the `availableReplicas` of a status
  that may be older than its scaling up. It may be done with no pod yet: `OldPodReplaced`
  says what is active since, not that something is.
* What an abandoned test does beside its teardown, and a harness that beforeAll did not hand
  over, are not guarded against (`schema-mode` and the fixtures). `ForwardAccounted`,
  `TrueReport`, `LeftoversExplained`, `NoStrayTunnel` and `PortIsCurrent` exempt them, by
  `missed` and `late`, and hold otherwise.
* An error answer to the POST of the catalog check fails it at once, although the POST may
  have been committed (`runtime-catalog-persistence.ts:98`); it is one of the causes
  `NoFalseAlarm` names.
* `verify-schema-mode.spec.ts:69`: a port-forward that cannot be opened fails
  beforeAll; the README of those tests, from line 31, lists it among the reasons to skip.

## Fairness

* `GroupOwnership`: the resolver's own steps; an awaited lookup settles.
* `DatabaseCleanup`: `WF(Clear)`. Each query has a timeout, each wait a timer.
  Nothing is assumed of the host.
* `RuntimeRollout`: `WF(Step)`, and `WF` of the failing steps: polls have
  deadlines. Nothing is assumed of the cluster, which may never do what it is asked.
* `DeploymentRestart`: `WF(RestartStep)`: each wait has a deadline, each retry a bound.
* `SlotRuns`: runs keep coming, CI reclaims clusters, and (strong fairness) a
  cleanup attempted again and again is not killed or refused every time. Without
  these leftovers may stay for ever, and the code claims no more.
* `SchemaMode`: `WF` of the body's and of each caller's steps: calls to the cluster and the
  port-forward have deadlines. The pg clients of these tests set one for the connection alone
  (`schema-mode-db.ts:174`); that each query settles, by an answer or a broken connection,
  is assumed. `SIGKILL` ends a process that was told to stop. Nothing else is assumed of a
  port-forward, which may crash for ever, or of the server.
* `RuntimeFixture`: the same, for the fixture's steps, connections and callers; its clients
  have a timeout for each query too (`cloudsql-database.ts:94`, `runtime-database.ts:290`). A test
  may hang, an application may never start, and nobody need use the runtime: only
  what begins with the teardown is claimed to end.

The safety runs of `CatalogPersistence` and `DynamicFeaturesPreload` need none.

## Proofs

Each is an inductive invariant with Init, step and consequence, for every
value of the constants.

* `GroupOwnership_proofs`: `TypeCorrect`, `OwnershipComplete`, `OwnershipSound`. The
  invariant accounts for every processed group: its lasting parents are processed, or
  still to do on some level, or being looked up; and what is found was
  reachable through relations that existed. `NothingMissed` alone says nothing of a
  walk in progress. `EveryStepComesCloser`: each step processes a ref for good, or takes
  the walk on, or returns from a call, or takes a ref off its call's work, in this order of
  precedence, and edits change none of these; so cycles, old or new, cannot keep a walk
  going.
* `DatabaseCleanup_proofs`: `CleanupTypes`; `CleanupKeepsPromise`, the refinement,
  step by step; `CleanupForgetsNothing`, from the fact that every database left is
  on the list, in hand, or was created after the listing; `StoppedCleanupClears`: under the
  precondition of `clearOwnedDatabases`, writers stopped, nothing is created after it, and the
  final listing is empty. `CleanupLeavesOthersAlone`, an action property.
  `EveryQueryComesCloser`: retries are not counted, but each spends time of the one
  deadline, and no session that comes or goes gives any back.
* `SlotRuns_proofs`: `SlotTypes`, `LiveRunsAreSafe`, `LiveDatabasesKept`,
  `CompletedMeansClean`. From `JobLimit + MaxSkew < MaxAge`: a live run is no older
  than a job may get, and looks at most `MaxSkew` older, so it never looks stale.
  The assumption is what the comment at `runtime-database.ts:69` claims of CI.
* `Deployment_proofs`, for `RuntimeRollout`: `RolloutTypes`; `StoppedMeansNoWriter`: once a
  fresh status has shown zero and the listing was empty, every replica set has size zero, and
  none grows before the resume; `RecoveryRestores`. On these rest `NoTwoVersions`,
  `FinishedRolloutIsCurrent` and `RolloutKeepsOneVersion`, from an invariant of three parts.
  (1) All pods are of the revision and configuration wanted, and only that revision's
  replica set has a size, for both change only with no pod and no size left. (2) A replica set
  that counts pods has one, since it reports a deletion before the deleted pod has ended.
  (3) While a replica is wanted no pod is deleted, there is at most one, and a fresh
  status of the wanted specification that counts a pod is right by (2); so a rollout that is
  reported has its pod, and keeps it. For `DeploymentRestart`: `RestartTypes`, and
  `RestartReplacesPods`: at one moment after the change no pod was active, and
  what is active since has read the new configuration.
* `CatalogPersistence_proofs`: `PassIsSound`. The invariant follows the adopted uid:
  the catalog has used it, so a row that was lost never has it again; and it was
  seen in the external database. `AlarmHasCause` and `WriteIsRegistered` add that a POST
  which was carried out left a location unless the storage forgot it, whatever
  became of its answer. `CatalogTypes`.
* `DynamicFeaturesPreload_proofs`: `ShimNeverStale`. The store is the named part of
  what is listed, and a cached body is the store of a startup that is over.
  `PreloadsAreExposed` carries the filter through store, body and the browsers' copies.
  `PreloadTypes`.
* `SchemaMode_proofs`: `SchemaModeTypes`. `SchemaModeStaysClean`: while RHDH is stopped no
  database appears, the list shrinks with the databases, and RHDH is resumed with the
  new configuration only. `SchemaModeForwardAccounted`: a process nobody told to end is
  `child` (a lemma about the object, for every caller and every order), and once afterAll
  has taken the harness from a body that was not inside it, the body does not come
  back to it. `SchemaModeRetriesSuffice` keeps an account: once the first attempt has told
  whether the server speaks SSL, every attempt from the second on fails only by a
  disturbance since the restart before it, so that disturbances are never fewer than
  the attempts they explain, wherever in the retry or in the port-forward the body is.
* `RuntimeFixture_proofs`: `FixtureTypes`. `FixtureReportsTruly` and
  `FixtureExplainsLeftovers`, from one invariant that ties each thing left to the error
  that stands for it from the step that failed on. `FixtureLeavesNoTunnel`: who may be
  inside the object at each step; a fixture that stops last leaves no child.
  `FixtureDialsCurrentPort`: between two connections the child is none or the one whose
  port was read; a restart in progress is followed through stop, start and ready.

Model-checked only:

* liveness (`SignInEnds`, `CleanupEnds`, `LeftoversGo`, `JobsEnd`, `RestartEnds`, `BodyEnds`,
  `TeardownEnds`), which needs fairness and ENABLED, out of the prover's reach; of
  `SignInEnds` and `CleanupEnds` the orders that every step descends in are proved. Every
  invariant and every other action property of the passing runs is also a theorem.

## What is assumed of the outside

* A PostgreSQL server refuses to drop a database with sessions, and may carry out
  a DROP whose client gave up.
* CI ends every job within `JobLimit`; clocks differ by at most `MaxSkew`.
* A replica set reports a deletion before the deleted pod has ended. Without it a
  stop could believe a report that still counts a pod that is gone.
* The catalog refuses a location it has, and never reuses a uid.
* The framework answers requests once the startup hooks are done (`handler.ts:121`).
  A request before that would pin an incomplete `preload.js`.
* Every query of the schema-mode tests settles.
* `oc port-forward` announces itself only while it listens, and `SIGKILL` ends it.
* A stopped application has no pod that could still create a database (the wait for
  pods is in `RuntimeRollout`).
* The slot tests run one at a time: one worker, no retries, and the run id is set once.

## Not modelled

* Texts and formats: entity refs, SQL quoting, the content of scripts, logs, redaction.
* The front end, backend assembly, dynamic plugins info, RBAC plugin ids: composition, or
  a value computed once.
* Licensed users: three reads joined by key per request, with no state between requests.
* The lockfile surgeon: text, version ranges and the answers of a registry; what could be
  wrong lies in semver and string handling, which an abstract model would assume.
* Authentication provider deployments: administration APIs of identity providers,
  and waits that read a Deployment's status as the two modelled restarts do.
* What a deployment creates besides the application (secrets, network policies,
  configuration): a fixed sequence of create-or-replace calls nothing else touches.
* CI pipelines, coverage and release scripts: calls to other programs and text. They are
  the greater part of the lines of the repository, with vendored Yarn releases.
* `pollUntil` as such: its callers have deadlines and conditions that may be read at any time.
* The application shell and page objects: selectors and waits on one page.
* `runtime-progress.ts`: records evidence, and never decides what happens next.
* A port-forward started through a shell (`verify-redis-cache.spec.ts:25`), whose child is the
  shell: whether kubectl survives it is outside the repository.

## Plan

Done: sign-in ownership, database cleanup, slots, application lifecycle, restart, catalog
persistence, preload, port-forward sessions, the schema-mode tests, fixtures and
teardown, with the theorems above. Open, in this order:

1. `RuntimeFixture` as a refinement of a run in `SlotRuns`, once both speak of several uses.
2. The waits of the authentication provider deployments over `DeploymentCluster`.
3. The callers of the port-forward shared by `SchemaMode` and `RuntimeFixture`, as one
   abstract session both implement.
