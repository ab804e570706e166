----------------------- MODULE GroupOwnership_proofs -----------------------
(***************************************************************************)
(* Proofs about GroupOwnership, for every catalog, every membership and    *)
(* every number of catalog edits.  The inductive invariant says that the   *)
(* walk never loses a ref: whatever it owes is either processed or still   *)
(* to be visited at some level of the recursion.  That a walk cannot go    *)
(* round in circles is shown by an order in which every step descends.     *)
(***************************************************************************)
EXTENDS GroupOwnership, SequenceTheorems, TLAPS

InWalk == pc \in {"visit", "lookup"}

\* Some active call still has r to visit, or has found r.
Pending(r) == \E i \in 1..Len(levels) : r \in levels[i].todo
Found(r) == \E i \in 1..Len(levels) : r \in levels[i].found

Covered(r) == r \in processed \/ Pending(r)

---------------------------------------------------------------------------
\* The parts of the inductive invariant.

\* Only the option starts a walk, and it starts with nothing processed.
WalkStarts == /\ InWalk => transitive
              /\ pc = "start" => processed = {}

\* A processed ref is held by exactly the calls that will return it: none is dropped.
ProcessedIsFound == InWalk => \A r \in Refs : r \in processed <=> Found(r)

CurrentIsProcessed == pc = "lookup" => current \in processed

\* Every membership, and every lasting parent of a group looked up, is covered.
MembersCovered == InWalk => \A r \in Memberships : Covered(r)

ParentsCovered ==
    InWalk => \A g \in processed :
                  \/ pc = "lookup" /\ g = current
                  \/ \A r \in FollowedParents(always, g) : Covered(r)

\* The walk only ever holds refs that were reachable.
WalkGrounded ==
    InWalk => \A r \in Refs : Covered(r) => r \in Reachable(ever, Memberships)

\* The catalog of the moment lies between the two histories.
HistoryBounds ==
    \A g \in Groups : always[g] \subseteq parents[g] /\ parents[g] \subseteq ever[g]

IInv ==
    /\ TypeOK
    /\ WalkStarts
    /\ ProcessedIsFound
    /\ CurrentIsProcessed
    /\ MembersCovered
    /\ ParentsCovered
    /\ WalkGrounded
    /\ HistoryBounds
    /\ NothingMissed
    /\ NothingInvented

---------------------------------------------------------------------------
\* Reachable contains what it starts from.
LEMMA ReachableContains ==
    ASSUME NEW relations, NEW S \in SUBSET Refs
    PROVE  S \subseteq Reachable(relations, S)
  BY DEF Reachable

\* Reachable is closed under following.
LEMMA ReachableStep ==
    ASSUME NEW relations \in Catalogs, NEW S \in SUBSET Refs,
           NEW g \in Reachable(relations, S)
    PROVE  FollowedParents(relations, g) \subseteq Reachable(relations, S)
  <1> SUFFICES ASSUME NEW r \in FollowedParents(relations, g),
                      NEW C \in SUBSET Refs, S \subseteq C, Closed(relations, C)
               PROVE  r \in C /\ r \in Refs
    BY DEF Reachable, FollowedParents, Catalogs
  <1>1. g \in C
    BY DEF Reachable
  <1> QED BY <1>1 DEF Closed, FollowedParents

\* Reachable is the least closed set.
LEMMA ReachableLeast ==
    ASSUME NEW relations, NEW S, NEW C \in SUBSET Refs, S \subseteq C, Closed(relations, C)
    PROVE  Reachable(relations, S) \subseteq C
  BY DEF Reachable

\* More relations reach more.
LEMMA ReachableMonotone ==
    ASSUME NEW a, NEW b, NEW S, \A g \in Groups : a[g] \subseteq b[g]
    PROVE  Reachable(a, S) \subseteq Reachable(b, S)
  <1>1. ASSUME NEW C \in SUBSET Refs, Closed(b, C) PROVE Closed(a, C)
    BY <1>1 DEF Closed, FollowedParents
  <1> QED BY <1>1 DEF Reachable

---------------------------------------------------------------------------
\* The initial states satisfy the inductive invariant.
LEMMA InitIInv == Init => IInv
  <1> SUFFICES ASSUME Init PROVE IInv
    OBVIOUS
  <1>1. TypeOK
    BY RefsAssumption DEF Init, TypeOK
  <1> QED BY <1>1 DEF Init, IInv, WalkStarts, ProcessedIsFound, CurrentIsProcessed,
        MembersCovered, ParentsCovered, WalkGrounded, HistoryBounds, NothingMissed,
        NothingInvented, InWalk

\* A step preserves the types.
LEMMA TypeStep == ASSUME TypeOK, [Next]_vars PROVE TypeOK'
  <1> USE RefsAssumption, EditsAssumption DEF TypeOK
  <1>t. Memberships \in SUBSET Refs
    BY DEF Memberships
  <1>p. ASSUME NEW g \in Refs PROVE FollowedParents(parents, g) \in SUBSET Refs
    BY DEF FollowedParents, Catalogs
  <1>top. ASSUME levels # << >> PROVE Len(levels) \in 1..Len(levels) /\ Top \in Level
    BY <1>top DEF Top
  <1>1. CASE ResolveDirect
    BY <1>1, <1>t DEF ResolveDirect, input, catalog
  <1>2. CASE ResolveTransitive
    <2>1. levels' \in Seq(Level) /\ levels' # << >>
      BY <1>2, <1>t DEF ResolveTransitive, Level
    <2> QED BY <1>2, <2>1 DEF ResolveTransitive, input, catalog
  <1>3. ASSUME NEW g \in Refs, SkipProcessed(g) PROVE TypeOK'
    <2>1. levels' \in Seq(Level) /\ levels' # << >>
      BY <1>3, <1>top DEF SkipProcessed, Level
    <2> QED BY <1>3, <2>1 DEF SkipProcessed, input, catalog
  <1>4. ASSUME NEW g \in Refs, VisitRef(g) PROVE TypeOK'
    <2>1. levels' \in Seq(Level) /\ levels' # << >>
      BY <1>4, <1>top DEF VisitRef, Level
    <2> QED BY <1>4, <2>1 DEF VisitRef, input, catalog
  <1>5. CASE LookupGroup
    <2>1. [todo |-> FollowedParents(parents, current), found |-> {}] \in Level
      BY <1>5, <1>p DEF LookupGroup, Level
    <2>2. levels' \in Seq(Level) /\ levels' # << >>
      BY <1>5, <2>1 DEF LookupGroup
    <2> QED BY <1>5, <2>2 DEF LookupGroup, input, catalog
  <1>6. CASE LookupOther
    BY <1>6 DEF LookupOther, input, catalog
  <1>7. CASE LookupFails
    BY <1>7 DEF LookupFails, input, catalog
  <1>8. CASE ReturnToCaller
    <2> DEFINE caller == levels[Len(levels) - 1]
               kept == SubSeq(levels, 1, Len(levels) - 2)
               resumed == [todo |-> caller.todo, found |-> caller.found \cup Top.found]
    <2>1. levels' = Append(kept, resumed)
      BY <1>8 DEF ReturnToCaller
    <2>2. resumed \in Level
      <3>1. caller \in Level /\ Top \in Level
        BY <1>8, <1>top DEF ReturnToCaller
      <3> QED BY <3>1 DEF Level
    <2>3. kept \in Seq(Level)
      BY <1>8 DEF ReturnToCaller
    <2> HIDE DEF kept, resumed
    <2>4. levels' \in Seq(Level) /\ levels' # << >>
      BY <2>1, <2>2, <2>3
    <2> QED BY <1>8, <2>4 DEF ReturnToCaller, input, catalog
  <1>9. CASE ReturnOwned
    BY <1>9, <1>top DEF ReturnOwned, input, catalog, Level
  <1>10. ASSUME NEW g \in Groups, NEW new \in SUBSET Refs, EditCatalog(g, new) PROVE TypeOK'
    BY <1>10 DEF EditCatalog, input, walk, Catalogs
  <1>11. CASE UNCHANGED vars
    BY <1>11 DEF vars, input, walk, catalog
  <1> QED BY <1>1, <1>2, <1>3, <1>4, <1>5, <1>6, <1>7, <1>8, <1>9, <1>10, <1>11
        DEF Next, Resolve

\* The variables have their types in every reachable state.
THEOREM TypeCorrect == Spec => []TypeOK
  <1>1. Init => TypeOK
    BY InitIInv DEF IInv
  <1> QED BY <1>1, TypeStep, PTL DEF Spec

---------------------------------------------------------------------------
\* How a step changes what the calls hold.

\* A change of the active call alone.
LEMMA ActiveCallChanges ==
    ASSUME TypeOK, levels # << >>, NEW call \in Level,
           levels' = [levels EXCEPT ![Len(levels)] = call]
    PROVE  /\ \A r : Pending(r)' <=> \/ r \in call.todo
                                     \/ \E i \in 1..(Len(levels) - 1) : r \in levels[i].todo
           /\ \A r : Found(r)' <=> \/ r \in call.found
                                   \/ \E i \in 1..(Len(levels) - 1) : r \in levels[i].found
           /\ \A r : Pending(r) <=> \/ r \in Top.todo
                                    \/ \E i \in 1..(Len(levels) - 1) : r \in levels[i].todo
           /\ \A r : Found(r) <=> \/ r \in Top.found
                                  \/ \E i \in 1..(Len(levels) - 1) : r \in levels[i].found
  <1> DEFINE n == Len(levels)
  <1>1. n \in Nat \ {0} /\ Len(levels') = n
    BY DEF TypeOK
  <1>2. levels'[n] = call /\ \A i \in 1..(n - 1) : levels'[i] = levels[i]
    <2>1. DOMAIN levels = 1..n /\ n \in 1..n
      BY <1>1 DEF TypeOK
    <2>2. ASSUME NEW m \in Nat \ {0}, NEW i \in 1..(m - 1) PROVE i \in 1..m /\ i # m
      OBVIOUS
    <2> QED BY <1>1, <2>1, <2>2
  <1>3. \A i : i \in 1..n <=> i = n \/ i \in 1..(n - 1)
    BY <1>1
  <1> QED BY <1>1, <1>2, <1>3 DEF Pending, Found, Top

\* SkipProcessed drops nothing but a ref that is processed.
LEMMA SkipHolds ==
    ASSUME TypeOK, NEW g \in Refs, SkipProcessed(g)
    PROVE  /\ \A r : Found(r)' <=> Found(r)
           /\ \A r : Pending(r)' => Pending(r)
           /\ \A r : Pending(r) => Pending(r)' \/ r = g
  <1>1. levels # << >> /\ Top \in Level
    BY DEF TypeOK, SkipProcessed, Top
  <1>2. [todo |-> Top.todo \ {g}, found |-> Top.found] \in Level
    BY <1>1 DEF Level
  <1> QED BY <1>1, <1>2, ActiveCallChanges DEF SkipProcessed

\* VisitRef moves one ref from what the active call has to visit to what it found.
LEMMA VisitHolds ==
    ASSUME TypeOK, NEW g \in Refs, VisitRef(g)
    PROVE  /\ \A r : Found(r)' <=> Found(r) \/ r = g
           /\ \A r : Pending(r)' => Pending(r)
           /\ \A r : Pending(r) => Pending(r)' \/ r = g
           /\ Pending(g)
  <1>1. levels # << >> /\ Top \in Level
    BY DEF TypeOK, VisitRef, Top
  <1>2. [todo |-> Top.todo \ {g}, found |-> Top.found \cup {g}] \in Level
    BY <1>1 DEF Level
  <1> QED BY <1>1, <1>2, ActiveCallChanges DEF VisitRef

\* LookupGroup adds the parents to what is to be visited.
LEMMA LookupHolds ==
    ASSUME TypeOK, LookupGroup
    PROVE  /\ \A r : Found(r)' <=> Found(r)
           /\ \A r : Pending(r)' <=> Pending(r) \/ r \in FollowedParents(parents, current)
  <1> DEFINE call == [todo |-> FollowedParents(parents, current), found |-> {}]
             n == Len(levels)
  <1>1. levels' = Append(levels, call) /\ n \in Nat /\ call.found = {}
    BY DEF LookupGroup, TypeOK
  <1>2. call.todo = FollowedParents(parents, current)
    OBVIOUS
  <1> HIDE DEF call
  <1>3. /\ Len(levels') = n + 1
        /\ levels'[n + 1] = call
        /\ \A i \in 1..n : levels'[i] = levels[i]
    BY <1>1 DEF TypeOK
  <1>4. \A i : i \in 1..(n + 1) <=> i = n + 1 \/ i \in 1..n
    BY <1>1
  <1> QED BY <1>1, <1>2, <1>3, <1>4 DEF Pending, Found

\* ReturnToCaller keeps everything: the callee had nothing left to visit.
LEMMA ReturnHolds ==
    ASSUME TypeOK, ReturnToCaller
    PROVE  /\ \A r : Found(r)' <=> Found(r)
           /\ \A r : Pending(r)' <=> Pending(r)
  <1> DEFINE n == Len(levels)
             caller == levels[n - 1]
             kept == SubSeq(levels, 1, n - 2)
             resumed == [todo |-> caller.todo, found |-> caller.found \cup Top.found]
  <1>1. levels' = Append(kept, resumed) /\ n \in Nat /\ n > 1 /\ Top.todo = {}
    BY DEF ReturnToCaller, TypeOK
  <1>2. resumed.todo = caller.todo /\ resumed.found = caller.found \cup Top.found
    OBVIOUS
  <1>3. kept \in Seq(Level) /\ Len(kept) = n - 2 /\ \A i \in 1..(n - 2) : kept[i] = levels[i]
    <2>1. \A i \in 1..(n - 2) : levels[i] \in Level
      BY <1>1 DEF TypeOK
    <2>2. Len(kept) = (IF 1 <= n - 2 THEN n - 2 - 1 + 1 ELSE 0)
      BY <1>1, <2>1, SubSeqProperties
    <2>3. kept \in Seq(Level) /\ \A i \in 1..(n - 2 - 1 + 1) : kept[i] = levels[1 + i - 1]
      BY <1>1, <2>1, SubSeqProperties
    <2> HIDE DEF kept, n
    <2> QED BY <1>1, <2>2, <2>3
  <1> HIDE DEF kept, resumed
  <1>4. /\ Len(levels') = n - 1
        /\ levels'[n - 1] = resumed
        /\ \A i \in 1..(n - 2) : levels'[i] = levels[i]
    BY <1>1, <1>3
  <1>5. \A i : /\ i \in 1..(n - 1) <=> i = n - 1 \/ i \in 1..(n - 2)
               /\ i \in 1..n <=> i = n \/ i = n - 1 \/ i \in 1..(n - 2)
    BY <1>1
  <1> QED BY <1>1, <1>2, <1>4, <1>5 DEF Pending, Found, Top

---------------------------------------------------------------------------
\* The induction step, one case per action.
LEMMA NextIInv == ASSUME IInv, [Next]_vars PROVE IInv'
  <1> USE RefsAssumption
  <1>t. TypeOK /\ TypeOK'
    BY TypeStep DEF IInv
  <1>m. Memberships \in SUBSET Refs
    BY <1>t DEF Memberships, TypeOK
  \* Steps of the walk that keep every ref covered and touch no catalog.
  <1>w. ASSUME InWalk, InWalk', UNCHANGED <<input, catalog>>, CurrentIsProcessed',
               processed \subseteq processed',
               \A r \in Refs : r \in processed' <=> Found(r)',
               \A r \in Refs : Covered(r) <=> Covered(r)',
               \A g \in processed' : \/ pc' = "lookup" /\ g = current'
                                     \/ g \in processed /\ ~(pc = "lookup" /\ g = current)
                                     \/ \A r \in FollowedParents(always, g) : Covered(r)'
        PROVE  IInv'
    <2>1. Memberships' = Memberships /\ UNCHANGED <<transitive, always, ever, parents>>
      BY <1>w DEF input, catalog, Memberships
    <2>2. ParentsCovered'
      <3>1. ASSUME NEW g \in processed, NEW r \in FollowedParents(always, g) PROVE r \in Refs
        BY <1>t, <3>1 DEF FollowedParents, TypeOK, Catalogs
      <3> QED BY <1>w, <1>t, <2>1, <3>1 DEF IInv, ParentsCovered, FollowedParents
    <2>3. MembersCovered'
      BY <1>w, <1>m, <2>1 DEF IInv, MembersCovered
    <2>4. WalkGrounded'
      BY <1>w, <2>1 DEF IInv, WalkGrounded, Reachable, Closed, FollowedParents
    <2>5. WalkStarts' /\ HistoryBounds' /\ NothingMissed' /\ NothingInvented'
      BY <1>w, <2>1 DEF IInv, WalkStarts, HistoryBounds, NothingMissed, NothingInvented, InWalk
    <2> QED BY <1>w, <1>t, <2>2, <2>3, <2>4, <2>5 DEF IInv, ProcessedIsFound
  \* Steps that end the walk, or never start one.
  <1>e. ASSUME pc' \in {"done", "failed"}, UNCHANGED <<input, catalog>>,
               NothingMissed', NothingInvented'
        PROVE  IInv'
    BY <1>e, <1>t DEF IInv, InWalk, WalkStarts, ProcessedIsFound, CurrentIsProcessed,
       MembersCovered, ParentsCovered, WalkGrounded, HistoryBounds, input, catalog
  <1>1. CASE ResolveDirect
    <2>1. pc' = "done" /\ ~transitive' /\ Memberships' = Memberships
          /\ owned' = {User} \cup Memberships /\ UNCHANGED <<input, catalog>>
      BY <1>1 DEF ResolveDirect, input, Memberships
    <2> QED BY <2>1, <1>e DEF NothingMissed, NothingInvented, Memberships
  <1>2. CASE ResolveTransitive
    <2>1. /\ pc' = "visit" /\ transitive' /\ processed' = {} /\ Memberships' = Memberships
          /\ always' = always /\ ever' = ever /\ parents' = parents
      BY <1>2 DEF ResolveTransitive, IInv, WalkStarts, input, catalog, Memberships
    <2>2. \A r : (Pending(r)' <=> r \in Memberships) /\ ~Found(r)'
      <3>1. levels' = <<[todo |-> Memberships, found |-> {}]>>
        BY <1>2 DEF ResolveTransitive
      <3>2. Len(levels') = 1 /\ levels'[1].todo = Memberships /\ levels'[1].found = {}
        BY <3>1
      <3>3. \A i : i \in 1..1 <=> i = 1
        OBVIOUS
      <3> QED BY <3>2, <3>3 DEF Pending, Found
    <2>3. WalkGrounded'
      <3>1. \A r \in Refs : r \in Memberships => r \in Reachable(ever', Memberships')
        BY <2>1, <1>m, ReachableContains
      <3> QED BY <2>1, <2>2, <3>1 DEF WalkGrounded, Covered
    <2> QED BY <1>t, <2>1, <2>2, <2>3 DEF IInv, InWalk, WalkStarts, ProcessedIsFound,
            CurrentIsProcessed, MembersCovered, ParentsCovered, HistoryBounds, Covered,
            NothingMissed, NothingInvented
  <1>3. ASSUME NEW g \in Refs, SkipProcessed(g) PROVE IInv'
    <2>1. /\ InWalk /\ InWalk' /\ pc = "visit" /\ pc' = "visit" /\ g \in processed
          /\ UNCHANGED <<input, catalog>> /\ processed' = processed
      BY <1>3 DEF SkipProcessed, InWalk
    <2>2. CurrentIsProcessed'
      BY <2>1 DEF CurrentIsProcessed
    <2>3. \A r \in Refs : r \in processed' <=> Found(r)'
      BY <1>3, <1>t, <2>1, SkipHolds DEF IInv, ProcessedIsFound
    <2>4. \A r \in Refs : Covered(r) <=> Covered(r)'
      BY <1>3, <1>t, <2>1, SkipHolds DEF Covered
    <2> QED BY <1>w, <2>1, <2>2, <2>3, <2>4
  <1>4. ASSUME NEW g \in Refs, VisitRef(g) PROVE IInv'
    <2>1. /\ InWalk /\ InWalk' /\ pc = "visit" /\ pc' = "lookup" /\ current' = g
          /\ UNCHANGED <<input, catalog>> /\ processed' = processed \cup {g}
      BY <1>4 DEF VisitRef, InWalk
    <2>2. CurrentIsProcessed'
      BY <2>1 DEF CurrentIsProcessed
    <2>3. \A r \in Refs : r \in processed' <=> Found(r)'
      BY <1>4, <1>t, <2>1, VisitHolds DEF IInv, ProcessedIsFound
    <2>4. \A r \in Refs : Covered(r) <=> Covered(r)'
      BY <1>4, <1>t, <2>1, VisitHolds DEF Covered
    <2> QED BY <1>w, <2>1, <2>2, <2>3, <2>4
  <1>5. CASE LookupGroup
    <2>1. /\ InWalk /\ InWalk' /\ pc = "lookup" /\ pc' = "visit" /\ current \in Refs
          /\ current \in processed /\ processed' = processed
      BY <1>5, <1>t DEF LookupGroup, InWalk, IInv, CurrentIsProcessed, TypeOK
    <2>2. /\ Memberships' = Memberships
          /\ UNCHANGED <<transitive, parents, always, ever>>
      BY <1>5 DEF LookupGroup, input, catalog, Memberships
    <2>3. \A r : Covered(r)' <=> Covered(r) \/ r \in FollowedParents(parents, current)
      BY <1>5, <1>t, <2>1, LookupHolds DEF Covered
    <2>4. ProcessedIsFound'
      BY <1>5, <1>t, <2>1, LookupHolds DEF IInv, ProcessedIsFound
    <2>5. MembersCovered'
      BY <2>1, <2>2, <2>3 DEF IInv, MembersCovered
    <2>6. ParentsCovered'
      <3>1. FollowedParents(always, current) \subseteq FollowedParents(parents, current)
        BY DEF IInv, HistoryBounds, FollowedParents
      <3> QED BY <2>1, <2>2, <2>3, <3>1 DEF IInv, ParentsCovered, FollowedParents
    <2>7. WalkGrounded'
      <3>1. current \in Reachable(ever, Memberships)
        BY <2>1 DEF IInv, WalkGrounded, Covered
      <3>2. FollowedParents(ever, current) \subseteq Reachable(ever, Memberships)
        BY <3>1, <1>t, <1>m, ReachableStep DEF TypeOK
      <3>3. FollowedParents(parents, current) \subseteq FollowedParents(ever, current)
        BY DEF IInv, HistoryBounds, FollowedParents
      <3>4. Reachable(ever, Memberships)' = Reachable(ever, Memberships)
        BY <2>2 DEF Reachable, Closed, FollowedParents
      <3> QED BY <2>1, <2>2, <2>3, <3>2, <3>3, <3>4 DEF IInv, WalkGrounded
    <2>8. HistoryBounds' /\ WalkStarts' /\ CurrentIsProcessed'
          /\ NothingMissed' /\ NothingInvented'
      BY <2>1, <2>2 DEF IInv, HistoryBounds, WalkStarts, CurrentIsProcessed, NothingMissed,
         NothingInvented, InWalk
    <2> QED BY <1>t, <2>4, <2>5, <2>6, <2>7, <2>8 DEF IInv
  <1>6. CASE LookupOther
    <2>1. /\ InWalk /\ InWalk' /\ pc = "lookup" /\ pc' = "visit" /\ levels' = levels
          /\ UNCHANGED <<input, catalog>> /\ processed' = processed
          /\ FollowedParents(parents, current) = {}
      BY <1>6 DEF LookupOther, InWalk
    <2>2. FollowedParents(always, current) = {}
      BY <2>1 DEF IInv, HistoryBounds, FollowedParents
    <2>3. \A r : (Covered(r) <=> Covered(r)') /\ (Found(r) <=> Found(r)')
      BY <2>1 DEF Covered, Pending, Found
    <2>4. CurrentIsProcessed' /\ \A r \in Refs : r \in processed' <=> Found(r)'
      BY <2>1, <2>3 DEF IInv, ProcessedIsFound, CurrentIsProcessed
    <2> QED BY <1>w, <2>1, <2>2, <2>3, <2>4
  <1>7. CASE LookupFails
    BY <1>7, <1>e DEF LookupFails, NothingMissed, NothingInvented
  <1>8. CASE ReturnToCaller
    <2>1. /\ InWalk /\ InWalk' /\ pc = "visit" /\ pc' = "visit"
          /\ UNCHANGED <<input, catalog>> /\ processed' = processed
      BY <1>8 DEF ReturnToCaller, InWalk
    <2>2. \A r : (Covered(r) <=> Covered(r)') /\ (Found(r) <=> Found(r)')
      BY <1>8, <1>t, <2>1, ReturnHolds DEF Covered
    <2>3. CurrentIsProcessed' /\ \A r \in Refs : r \in processed' <=> Found(r)'
      BY <2>1, <2>2 DEF IInv, ProcessedIsFound, CurrentIsProcessed
    <2> QED BY <1>w, <2>1, <2>2, <2>3
  <1>9. CASE ReturnOwned
    <2>1. /\ InWalk /\ transitive /\ pc = "visit" /\ pc' = "done" /\ UNCHANGED <<input, catalog>>
      BY <1>9 DEF ReturnOwned, InWalk, IInv, WalkStarts
    <2>2. \A r : ~Pending(r) /\ (Found(r) <=> r \in Top.found)
      <3>1. Len(levels) = 1 /\ Top = levels[1] /\ Top.todo = {}
        BY <1>9 DEF ReturnOwned, Top
      <3>2. \A i : i \in 1..1 <=> i = 1
        OBVIOUS
      <3> QED BY <3>1, <3>2 DEF Pending, Found
    <2>3. owned' = {User} \cup processed
      <3>1. Top.found \subseteq Refs
        <4>1. levels \in Seq(Level) /\ Len(levels) = 1 /\ Top = levels[1]
          BY <1>9, <1>t DEF ReturnOwned, TypeOK, Top
        <4>2. Top \in Level
          BY <4>1
        <4> QED BY <4>2 DEF Level
      <3>2. Top.found = processed
        BY <2>1, <2>2, <3>1, <1>t DEF IInv, ProcessedIsFound, TypeOK
      <3> QED BY <1>9, <3>2 DEF ReturnOwned
    <2>4. Reachable(always, Memberships) \subseteq processed
      <3>1. Memberships \subseteq processed
        BY <2>1, <2>2 DEF IInv, MembersCovered, Covered
      <3>2. Closed(always, processed)
        BY <2>1, <2>2 DEF IInv, ParentsCovered, Covered, Closed, FollowedParents
      <3> QED BY <3>1, <3>2, <1>t, ReachableLeast DEF TypeOK
    <2>5. processed \subseteq Reachable(ever, Memberships)
      BY <2>1, <1>t DEF IInv, WalkGrounded, Covered, TypeOK
    <2>6. /\ Reachable(always, Memberships)' = Reachable(always, Memberships)
          /\ Reachable(ever, Memberships)' = Reachable(ever, Memberships)
          /\ transitive' = transitive
      BY <2>1 DEF Reachable, Closed, FollowedParents, input, catalog, Memberships
    <2>7. NothingMissed'
      BY <2>1, <2>3, <2>4, <2>6 DEF NothingMissed, Memberships
    <2>8. NothingInvented'
      BY <2>1, <2>3, <2>5, <2>6 DEF NothingInvented, Memberships
    <2> QED BY <1>e, <2>1, <2>7, <2>8
  <1>10. ASSUME NEW g \in Groups, NEW new \in SUBSET Refs, EditCatalog(g, new) PROVE IInv'
    <2>1. /\ pc' = pc /\ pc \in {"visit", "lookup"} /\ processed' = processed
          /\ current' = current /\ levels' = levels
          /\ transitive' = transitive /\ Memberships' = Memberships
      BY <1>10 DEF EditCatalog, input, walk, Memberships
    <2>2. /\ always' = [always EXCEPT ![g] = always[g] \cap new]
          /\ ever' = [ever EXCEPT ![g] = ever[g] \cup new]
          /\ parents' = [parents EXCEPT ![g] = new]
      BY <1>10 DEF EditCatalog
    <2>3. \A h \in Groups : /\ always'[h] \subseteq always[h]
                            /\ ever[h] \subseteq ever'[h]
                            /\ always'[h] \subseteq parents'[h]
                            /\ parents'[h] \subseteq ever'[h]
      <3>1. always \in Catalogs /\ ever \in Catalogs /\ parents \in Catalogs
        BY <1>t DEF TypeOK
      <3>2. \A h \in Groups : always[h] \subseteq parents[h] /\ parents[h] \subseteq ever[h]
        BY DEF IInv, HistoryBounds
      <3> QED BY <2>2, <3>1, <3>2 DEF Catalogs
    <2>4. \A r : Covered(r)' <=> Covered(r)
      BY <2>1 DEF Covered, Pending
    <2>5. ParentsCovered'
      <3>1. \A h : FollowedParents(always, h)' \subseteq FollowedParents(always, h)
        BY <2>3 DEF FollowedParents
      <3> QED BY <2>1, <2>4, <3>1 DEF IInv, ParentsCovered, InWalk
    <2>6. WalkGrounded'
      <3>1. Reachable(ever, Memberships) \subseteq Reachable(ever', Memberships)
        BY <2>3, ReachableMonotone
      <3> QED BY <2>1, <2>4, <3>1 DEF IInv, WalkGrounded, InWalk
    <2>7. ProcessedIsFound' /\ CurrentIsProcessed' /\ MembersCovered' /\ WalkStarts'
      BY <2>1, <2>4 DEF IInv, ProcessedIsFound, CurrentIsProcessed, MembersCovered, WalkStarts,
         InWalk, Found
    <2>8. HistoryBounds' /\ NothingMissed' /\ NothingInvented'
      BY <2>1, <2>3 DEF HistoryBounds, NothingMissed, NothingInvented
    <2> QED BY <1>t, <2>5, <2>6, <2>7, <2>8 DEF IInv
  <1>11. CASE UNCHANGED vars
    <2>1. UNCHANGED <<transitive, memberOf, parents, pc, levels, current, processed, owned,
                      always, ever, edits>>
      BY <1>11 DEF vars, input, walk, catalog
    <2> QED BY <1>t, <2>1 DEF IInv, InWalk, WalkStarts, ProcessedIsFound, CurrentIsProcessed,
            MembersCovered, ParentsCovered, WalkGrounded, HistoryBounds, NothingMissed,
            NothingInvented, Covered, Pending, Found, Memberships, Reachable, Closed,
            FollowedParents
  <1> QED BY <1>1, <1>2, <1>3, <1>4, <1>5, <1>6, <1>7, <1>8, <1>9, <1>10, <1>11
        DEF Next, Resolve

\* No ownership is missed: over relations that hold all through a sign-in, whatever
\* the catalog, its cycles and its other edits, everything reachable is owned.
THEOREM OwnershipComplete == Spec => []NothingMissed
  <1>1. IInv => NothingMissed
    BY DEF IInv
  <1> QED BY <1>1, InitIInv, NextIInv, PTL DEF Spec

\* No ownership is invented: everything owned was reachable over relations that
\* held at some moment of the sign-in.
THEOREM OwnershipSound == Spec => []NothingInvented
  <1>1. IInv => NothingInvented
    BY DEF IInv
  <1> QED BY <1>1, InitIInv, NextIInv, PTL DEF Spec

---------------------------------------------------------------------------
\* Why a walk ends although relations may form cycles and calls open further calls: a
\* call is opened by a lookup, a lookup is begun for a ref that no level has processed, and
\* processed refs stay processed.
Moment == [p \in {"start", "visit", "lookup", "done", "failed"} |->
             CASE p = "start" -> 3
               [] p = "lookup" -> 2
               [] p = "visit" -> 1
               [] OTHER -> 0]

NewlyProcessed == processed \subseteq processed' /\ processed' # processed
MovesOn == processed' = processed /\ Moment[pc'] < Moment[pc]
CallReturns == UNCHANGED <<processed, pc>> /\ Len(levels') < Len(levels)
LeavesRef ==
    /\ UNCHANGED <<processed, pc>>
    /\ Len(levels') = Len(levels)
    /\ Top'.todo \subseteq Top.todo
    /\ Top'.todo # Top.todo

\* A lexicographic order: the refs not processed, the moment, the calls, the work of one.
Closer == NewlyProcessed \/ MovesOn \/ CallReturns \/ LeavesRef

LEMMA ResolveComesCloser == ASSUME TypeOK, Resolve PROVE Closer
  <1> USE DEF Moment, Closer, NewlyProcessed, MovesOn
  <1>1. CASE ResolveDirect \/ ResolveTransitive
    BY <1>1 DEF ResolveDirect, ResolveTransitive
  <1>2. ASSUME NEW g \in Refs, SkipProcessed(g) PROVE LeavesRef
    <2> DEFINE n == Len(levels)
               call == [todo |-> Top.todo \ {g}, found |-> Top.found]
    <2>1. levels \in Seq(Level) /\ levels # << >> /\ n \in 1..n
      BY <1>2 DEF SkipProcessed, TypeOK
    <2>2. levels' = [levels EXCEPT ![n] = call] /\ g \in Top.todo
      BY <1>2 DEF SkipProcessed
    <2>3. call.todo = Top.todo \ {g}
      OBVIOUS
    <2> HIDE DEF call
    <2>4. Len(levels') = n /\ levels'[n] = call
      BY <2>1, <2>2
    <2>5. Top' = call
      BY <2>4 DEF Top
    <2> QED BY <1>2, <2>2, <2>3, <2>4, <2>5 DEF LeavesRef, SkipProcessed
  <1>3. ASSUME NEW g \in Refs, VisitRef(g) PROVE NewlyProcessed
    BY <1>3 DEF VisitRef
  <1>4. CASE LookupGroup \/ LookupOther \/ LookupFails
    BY <1>4 DEF LookupGroup, LookupOther, LookupFails
  <1>5. CASE ReturnToCaller
    <2> DEFINE n == Len(levels)
               kept == SubSeq(levels, 1, n - 2)
    <2>1. levels \in Seq(Level) /\ n \in Nat /\ n > 1
      BY <1>5 DEF ReturnToCaller, TypeOK
    <2>2. kept \in Seq(Level) /\ Len(kept) = n - 2
      <3>1. \A i \in 1..(n - 2) : levels[i] \in Level
        BY <2>1
      <3>2. kept \in Seq(Level) /\ Len(kept) = (IF 1 <= n - 2 THEN n - 2 - 1 + 1 ELSE 0)
        BY <2>1, <3>1, SubSeqProperties
      <3> HIDE DEF kept, n
      <3> QED BY <2>1, <3>2
    <2>3. PICK resumed : levels' = Append(kept, resumed)
      BY <1>5 DEF ReturnToCaller
    <2> HIDE DEF kept
    <2>4. Len(levels') = n - 1
      BY <2>1, <2>2, <2>3
    <2> QED BY <1>5, <2>1, <2>4 DEF CallReturns, ReturnToCaller
  <1>6. CASE ReturnOwned
    BY <1>6 DEF ReturnOwned
  <1> QED BY <1>1, <1>2, <1>3, <1>4, <1>5, <1>6 DEF Resolve

\* Every step of a sign-in brings it closer to its end and no edit of the catalog sets it
\* back, whatever cycles the hierarchy has or gets: what SignInEnds needs besides fairness,
\* since the order of Closer is well-founded for finitely many refs.
THEOREM EveryStepComesCloser ==
    Spec => [][(Resolve => Closer) /\ (Closer \/ UNCHANGED walk)]_vars
  <1>1. \A g \in Groups, new \in SUBSET Refs : EditCatalog(g, new) => UNCHANGED walk
    BY DEF EditCatalog
  <1>2. TypeOK /\ [Next]_vars => [(Resolve => Closer) /\ (Closer \/ UNCHANGED walk)]_vars
    BY <1>1, ResolveComesCloser DEF Next
  <1> QED BY <1>2, TypeCorrect, PTL DEF Spec
===========================================================================
