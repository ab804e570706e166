------------------------ MODULE DynamicFeaturesPreload ------------------------
(***************************************************************************)
(* The dynamic-features resolver plugin of the backend: while the upstream *)
(* remotes router visits the frontend plugins at startup, the resolver     *)
(* filters the modules each one exposes and collects them in a store; the  *)
(* preload endpoint renders the store once, caches the script with its     *)
(* ETag, and pages answer their own /remotes request from that script.     *)
(*                                                                         *)
(* The remotes router is the environment: it lists every plugin it visits  *)
(* with the modules the resolver returned, and, as the comments of         *)
(* handler.ts and store.ts rely on, requests arrive after its startup hook *)
(* is done.  The backend restarts with other plugins; browsers keep        *)
(* scripts across restarts and revalidate them.                            *)
(*                                                                         *)
(* The order of remotes is abstracted, and an ETag is the content it       *)
(* hashes: collisions of the eight hex digits are left out.                *)
(***************************************************************************)
EXTENDS Naturals

CONSTANTS Plugins, Browsers,
          Names, NoName, \* manifest.name, and its absence
          Modules,       \* names under which modules are exposed
          MountOf,       \* the key of each in backstage.features
          Packages,      \* the package contents a plugin may be installed with
          MaxStarts      \* bound: times the backend starts

\* A package: modules exposed; mounts whose feature is a plugin or a module of
\* the new frontend system; has backstage.features at all; manifest.name, which
\* two packages may share; generateSnapshotFromManifest succeeds.
Package == [exposed : SUBSET Modules, entrypoints : SUBSET {MountOf[m] : m \in Modules},
            features : BOOLEAN, name : Names \cup {NoName}, snapshot : BOOLEAN]

ASSUME PackagesAssumption == Packages \subseteq Package
ASSUME NoNameOutside == NoName \notin Names
ASSUME MaxStartsAssumption == MaxStarts \in Nat \ {0}

\* The url of a remote names its plugin; info is keyed by manifest.name.
Remote == [plugin : Plugins, name : Names \cup {NoName}, exposed : SUBSET Modules]
Script == [remotes : SUBSET Remote,
           info : SUBSET [name : Names, plugin : Plugins, modules : SUBSET Modules]]
Empty == [remotes |-> {}, info |-> {}]

VARIABLES installed,   \* the package of each plugin, for this start
          starts,      \* how often the backend started
          pending,     \* plugins the remotes router has yet to visit
          listed,      \* GET /remotes
          store,       \* PreloadStore
          cached,      \* cachedBody, with its ETag, as a set of at most one
          copy,        \* what each browser has in its HTTP cache, likewise
          page         \* the script each page runs, and the start it came from

backend == <<installed, starts, pending, listed, store, cached>>
vars == <<backend, copy, page>>

\* filterNfsExposedModules
Filtered(package) ==
  IF package.features
  THEN {m \in package.exposed : MountOf[m] \in package.entrypoints}
  ELSE package.exposed

\* What GET /remotes says of a plugin.
RemoteOf(p, package) ==
  [plugin |-> p, name |-> package.name, exposed |-> Filtered(package)]

\* moduleInfo[manifest.name] = snapshot: a plugin of the same name takes the place.
Put(p, package, modules) ==
  {i \in store.info : i.name # package.name}
    \cup {[name |-> package.name, plugin |-> p, modules |-> modules]}

\* Mutant of Collected: the snapshot keeps the modules that were filtered out.
CollectedUntrimmed(p, package) ==
  IF package.name = NoName THEN store
  ELSE [remotes |-> store.remotes \cup {RemoteOf(p, package)},
        info |-> IF package.snapshot THEN Put(p, package, package.exposed) ELSE store.info]

\* collectPluginPreload: the remote is pushed first, the snapshot may then fail.
Collected(p, package) ==
  IF package.name = NoName THEN store
  ELSE [remotes |-> store.remotes \cup {RemoteOf(p, package)},
        info |-> IF package.snapshot
                 THEN Put(p, package, package.exposed \cap Filtered(package))
                 ELSE store.info]

Init ==
  /\ installed \in [Plugins -> Packages] /\ starts = 1
  /\ pending = Plugins /\ listed = {} /\ store = Empty /\ cached = {}
  /\ copy = [b \in Browsers |-> {}]
  /\ page = [b \in Browsers |-> [script |-> Empty, start |-> 0]]

\* The remotes router calls provider.for and overrideExposedModules.
Visit(p) ==
  /\ p \in pending
  /\ pending' = pending \ {p}
  /\ listed' = listed \cup {RemoteOf(p, installed[p])}
  /\ store' = Collected(p, installed[p])
  /\ UNCHANGED <<installed, starts, cached, copy, page>>

\* ensureBody
Body == IF store.remotes = {} THEN {} ELSE IF cached # {} THEN cached ELSE {store}

\* Mutant of Fresh: any If-None-Match is answered 304.
AnyTag(b) == copy[b] # {}

\* 304 Not Modified
Fresh(b) == copy[b] # {} /\ copy[b] = Body

\* Mutant of Load: the browser's copy is not replaced.
LoadBeside(b) ==
  /\ pending = {}
  /\ cached' = IF store.remotes = {} THEN cached ELSE Body
  /\ copy' = [copy EXCEPT ![b] = copy[b] \cup Body]
  /\ UNCHANGED <<installed, starts, pending, listed, store, page>>

\* GET /preload.js by a page load. Without remotes the answer is a comment, not
\* a script, and nothing is cached; a 304 makes the browser run its own copy.
Load(b) ==
  /\ pending = {}
  /\ cached' = IF store.remotes = {} THEN cached ELSE Body
  /\ copy' = [copy EXCEPT ![b] = IF Fresh(b) THEN copy[b] ELSE Body]
  /\ \E script \in IF copy'[b] = {} THEN {Empty} ELSE copy'[b] :
       page' = [page EXCEPT ![b] = [script |-> script, start |-> starts]]
  /\ UNCHANGED <<installed, starts, pending, listed, store>>

\* The backend starts over, after plugins were installed, updated or removed.
Restart ==
  /\ pending = {} /\ starts < MaxStarts /\ starts' = starts + 1
  /\ installed' \in [Plugins -> Packages]
  /\ pending' = Plugins /\ listed' = {} /\ store' = Empty /\ cached' = {}
  /\ UNCHANGED <<copy, page>>

Next == (\E p \in Plugins : Visit(p)) \/ (\E b \in Browsers : Load(b)) \/ Restart
Spec == Init /\ [][Next]_vars

TypeOK ==
  /\ installed \in [Plugins -> Packages] /\ starts \in 1..MaxStarts
  /\ pending \in SUBSET Plugins
  /\ listed \in SUBSET Remote
  /\ store \in Script /\ cached \in SUBSET Script
  /\ copy \in [Browsers -> SUBSET Script]
  /\ page \in [Browsers -> [script : Script, start : 0..MaxStarts]]
  /\ \A b \in Browsers : \A one, two \in copy[b] : one = two

(* A page loaded from this start of the backend answers /remotes exactly as *)
(* the backend does, for the plugins whose manifest has a name: neither the *)
(* cached body, nor a revalidated copy of an earlier start, nor a snapshot  *)
(* that failed makes the two disagree.                                      *)
ShimAgreesWithRemotes ==
  \A b \in Browsers : page[b].start = starts =>
    page[b].script.remotes = {r \in listed : r.name # NoName}

(* What a page preloads belongs to a remote its app will be told of, and is *)
(* a module that remote exposes after the filter.                           *)
PreloadsOnlyExposed ==
  \A b \in Browsers : \A i \in page[b].script.info :
    \E r \in page[b].script.remotes :
      r.name = i.name /\ r.plugin = i.plugin /\ i.modules \subseteq r.exposed
===============================================================================
