--------------------- MODULE DynamicFeaturesPreload_proofs ---------------------
(***************************************************************************)
(* That a page never disagrees with the backend it was loaded from follows *)
(* from an invariant about the backend alone: the store holds the named    *)
(* part of what is listed, and a cached body is the store of a startup     *)
(* that is over.  Whether a page got a body or a 304, it runs that store.  *)
(***************************************************************************)
EXTENDS DynamicFeaturesPreload, TLAPS

Named == {r \in listed : r.name # NoName}

StoreInv ==
  /\ starts \in Nat
  /\ store.remotes = Named
  /\ cached # {} => pending = {} /\ cached = {store}

\* Pages of the past stay in the past: restarts only count up.
PageInv == \A b \in Browsers :
  /\ page[b].start \in Nat /\ page[b].start <= starts
  /\ page[b].start = starts => pending = {} /\ page[b].script.remotes = Named

Inv == StoreInv /\ PageInv /\ DOMAIN page = Browsers /\ DOMAIN copy = Browsers

LEMMA InitInv == Init => Inv
  BY DEF Init, Inv, StoreInv, PageInv, Named, Empty

LEMMA VisitInv == ASSUME Inv, NEW p \in Plugins, Visit(p) PROVE Inv'
<1>1. store'.remotes = Named'
  BY DEF Inv, StoreInv, Named, Visit, Collected, RemoteOf
<1>2. PageInv'
  BY DEF Inv, PageInv, Visit
<1> QED
  BY <1>1, <1>2 DEF Inv, StoreInv, Visit

LEMMA LoadInv == ASSUME Inv, NEW b \in Browsers, Load(b) PROVE Inv'
<1>1. StoreInv' /\ Named' = Named
  BY DEF Inv, StoreInv, Named, Load, Body
<1>2. PICK script \in (IF copy'[b] = {} THEN {Empty} ELSE copy'[b]) :
        page' = [page EXCEPT ![b] = [script |-> script, start |-> starts]]
  BY DEF Load
<1>3. Body = IF store.remotes = {} THEN {} ELSE {store}
  BY DEF Body, Inv, StoreInv
<1>4. copy' = [copy EXCEPT ![b] = Body]
  BY DEF Load, Fresh
<1>5. script.remotes = Named
  <2>1. copy'[b] = Body
    BY <1>4 DEF Inv
  <2> QED BY <1>2, <1>3, <2>1 DEF Empty, Inv, StoreInv
<1> QED
  BY <1>1, <1>2, <1>5 DEF Inv, PageInv, Load, StoreInv

LEMMA RestartInv == ASSUME Inv, Restart PROVE Inv'
  BY DEF Inv, StoreInv, PageInv, Named, Restart, Empty

LEMMA NextInv == ASSUME Inv, [Next]_vars PROVE Inv'
<1>1. CASE UNCHANGED vars
  BY <1>1 DEF vars, backend, Inv, StoreInv, PageInv, Named
<1> QED BY <1>1, VisitInv, LoadInv, RestartInv DEF Next

\* A page loaded from this start answers /remotes as the backend does (ShimAgreesWithRemotes),
\* for any plugins, packages and number of restarts.
THEOREM ShimNeverStale == Spec => []ShimAgreesWithRemotes
<1>2. Inv => ShimAgreesWithRemotes
  BY DEF Inv, PageInv, ShimAgreesWithRemotes, Named
<1> QED BY InitInv, NextInv, <1>2, PTL DEF Spec

---------------------------------------------------------------------------
\* What the resolver adds to the store is of its type.
LEMMA CollectedType ==
  ASSUME store \in Script, NEW p \in Plugins, NEW package \in Package
  PROVE  Collected(p, package) \in Script /\ RemoteOf(p, package) \in Remote
<1>1. Filtered(package) \in SUBSET Modules
  BY DEF Filtered, Package
<1>2. RemoteOf(p, package) \in Remote
  BY <1>1 DEF RemoteOf, Remote, Package
<1>3. ASSUME package.name # NoName, NEW modules \in SUBSET Modules
      PROVE  Put(p, package, modules) \in SUBSET [name : Names, plugin : Plugins, modules : SUBSET Modules]
  BY <1>3 DEF Put, Script, Package
<1>4. package.exposed \cap Filtered(package) \in SUBSET Modules
  BY <1>1
<1> QED BY <1>2, <1>3, <1>4 DEF Collected, Script

LEMMA BodyType ==
  ASSUME TypeOK, Inv
  PROVE  Body \in SUBSET Script /\ \A one, two \in Body : one = two
  BY DEF Body, TypeOK, Inv, StoreInv

LEMMA NextTypeOK == ASSUME TypeOK, Inv, [Next]_vars PROVE TypeOK'
<1> USE PackagesAssumption, MaxStartsAssumption
<1>1. ASSUME NEW p \in Plugins, Visit(p) PROVE TypeOK'
  <2>1. installed[p] \in Package
    BY DEF TypeOK
  <2>2. store' \in Script /\ RemoteOf(p, installed[p]) \in Remote
    BY <1>1, <2>1, CollectedType DEF Visit, TypeOK
  <2> QED BY <1>1, <2>2 DEF Visit, TypeOK
<1>2. ASSUME NEW b \in Browsers, Load(b) PROVE TypeOK'
  <2>1. /\ copy' \in [Browsers -> SUBSET Script]
        /\ \A c \in Browsers : \A one, two \in copy'[c] : one = two
    BY <1>2, BodyType DEF Load, TypeOK
  <2>2. cached' \in SUBSET Script
    BY <1>2, BodyType DEF Load, TypeOK
  <2>3. Empty \in Script
    BY DEF Empty, Script
  <2>4. page' \in [Browsers -> [script : Script, start : 0..MaxStarts]]
    BY <1>2, <2>1, <2>3 DEF Load, TypeOK
  <2> QED BY <1>2, <2>1, <2>2, <2>4 DEF Load, TypeOK
<1>3. CASE Restart
  BY <1>3 DEF Restart, TypeOK, Empty, Script
<1>4. CASE UNCHANGED vars
  BY <1>4 DEF vars, backend, TypeOK
<1> QED BY <1>1, <1>2, <1>3, <1>4 DEF Next

\* The variables have their types, and a browser keeps one copy of the script.
THEOREM PreloadTypes == Spec => []TypeOK
<1>1. Init => TypeOK
  BY MaxStartsAssumption DEF Init, TypeOK, Empty, Script
<1> QED BY InitInv, NextInv, <1>1, NextTypeOK, PTL DEF Spec

---------------------------------------------------------------------------
\* Every script there is, in the store, in a copy or on a page, preloads only what one
\* of its own remotes exposes.
Preloads(script) ==
  \A i \in script.info : \E r \in script.remotes :
    r.name = i.name /\ r.plugin = i.plugin /\ i.modules \subseteq r.exposed

ExposedInv ==
  /\ Preloads(store)
  /\ \A b \in Browsers : (\A script \in copy[b] : Preloads(script)) /\ Preloads(page[b].script)

LEMMA NextExposed == ASSUME TypeOK, Inv, ExposedInv, [Next]_vars PROVE ExposedInv'
<1>1. ASSUME NEW p \in Plugins, Visit(p) PROVE ExposedInv'
  <2> DEFINE kept == Filtered(installed[p])
             remote == RemoteOf(p, installed[p])
             put == [name |-> installed[p].name, plugin |-> p,
                     modules |-> installed[p].exposed \cap kept]
  <2>1. Preloads(store')
    <3>1. \A i \in store'.info : i \in store.info \/ i = put
      BY <1>1 DEF Visit, Collected, Put
    <3>2. store.remotes \subseteq store'.remotes
      BY <1>1 DEF Visit, Collected
    <3>3. store'.info = store.info \/ remote \in store'.remotes
      BY <1>1 DEF Visit, Collected
    <3>4. remote.name = put.name /\ remote.plugin = put.plugin /\ put.modules \subseteq remote.exposed
      BY DEF RemoteOf
    <3> HIDE DEF remote, put
    <3> QED BY <3>1, <3>2, <3>3, <3>4 DEF ExposedInv, Preloads
  <2> QED BY <1>1, <2>1 DEF Visit, ExposedInv, Preloads
<1>2. ASSUME NEW b \in Browsers, Load(b) PROVE ExposedInv'
  <2>1. \A script \in Body : Preloads(script)
    BY DEF Body, Inv, StoreInv, ExposedInv
  <2>2. \A c \in Browsers : \A script \in copy'[c] : Preloads(script)
    BY <1>2, <2>1 DEF Load, ExposedInv, TypeOK
  <2>3. Preloads(Empty)
    BY DEF Preloads, Empty
  <2>4. \A c \in Browsers : Preloads(page'[c].script)
    BY <1>2, <2>2, <2>3 DEF Load, ExposedInv, TypeOK
  <2>5. UNCHANGED store
    BY <1>2 DEF Load
  <2> QED BY <2>2, <2>4, <2>5 DEF ExposedInv, Preloads
<1>3. CASE Restart
  BY <1>3 DEF Restart, ExposedInv, Preloads, Empty
<1>4. CASE UNCHANGED vars
  BY <1>4 DEF vars, backend, ExposedInv, Preloads
<1> QED BY <1>1, <1>2, <1>3, <1>4 DEF Next

\* No page, of whatever start, preloads a module its remotes do not expose.
THEOREM PreloadsAreExposed == Spec => []PreloadsOnlyExposed
<1>1. Init => ExposedInv
  BY DEF Init, ExposedInv, Preloads, Empty
<1>2. ExposedInv => PreloadsOnlyExposed
  BY DEF ExposedInv, Preloads, PreloadsOnlyExposed
<1>3. Init => TypeOK
  BY MaxStartsAssumption DEF Init, TypeOK, Empty, Script
<1> QED BY InitInv, NextInv, <1>1, <1>2, <1>3, NextTypeOK, NextExposed, PTL DEF Spec
===============================================================================
