-------------------------- MODULE GroupOwnership --------------------------
(***************************************************************************)
(* Sign-in ownership resolution of packages/backend:                       *)
(* TransitiveGroupOwnershipResolver, which turns a user entity into the    *)
(* set of entity refs the user owns.  With includeTransitiveGroupOwnership *)
(* the resolver walks the childOf relations of the user's groups: one      *)
(* asynchronous catalog lookup per group, a recursive call per group found *)
(* and one set of processed groups shared by every level of the recursion. *)
(*                                                                         *)
(* Between two lookups the catalog may be edited by its own ingestion      *)
(* loops, so a walk need not see one consistent catalog.  The history      *)
(* variables always and ever hold the parents each group had all through   *)
(* the walk and at some moment of it.                                      *)
(*                                                                         *)
(* The order in which a relations array lists its targets is abstracted:   *)
(* a level holds the set of refs it still has to visit.                    *)
(***************************************************************************)
EXTENDS Naturals, Sequences

CONSTANTS
    Refs,          \* every entity ref a relation can name
    Groups,        \* the group: refs, those whose entity has kind Group
    User,          \* the ref of the user who signs in
    NoRef,         \* no lookup is awaited
    MaxEdits       \* bound: catalog edits while one user signs in

ASSUME RefsAssumption == Groups \subseteq Refs /\ User \notin Groups /\ NoRef \notin Refs
ASSUME EditsAssumption == MaxEdits \in Nat

VARIABLES
    transitive,    \* the value of includeTransitiveGroupOwnership
    memberOf,      \* the targets of the user's memberOf relations
    parents,       \* the catalog: childOf targets of each group ({} if it is absent)
    pc,            \* "start", "visit", "lookup", "done" or "failed"
    levels,        \* the recursion: one [todo, found] per active call, outermost first
    current,       \* the ref whose lookup is awaited
    processed,     \* processedGroups, shared by all levels
    owned,         \* the ownershipEntityRefs returned
    always, ever,  \* history: parents each group kept, and had at some moment
    edits          \* edits made so far

input == <<transitive, memberOf>>
walk == <<pc, levels, current, processed, owned>>
catalog == <<parents, always, ever, edits>>
vars == <<input, walk, catalog>>

---------------------------------------------------------------------------
Level == [todo : SUBSET Refs, found : SUBSET Refs]

Catalogs == [Groups -> SUBSET Refs]

\* Mutant of Memberships: the group: filter is dropped.
UnfilteredMemberships == memberOf

\* The direct memberships the resolver starts from: memberOf targets that are groups.
Memberships == memberOf \cap Groups

\* The active call is the last level.
Top == levels[Len(levels)]

\* The childOf targets followed for a ref: none unless its entity is a Group.
FollowedParents(relations, g) == IF g \in Groups THEN relations[g] ELSE {}

Init ==
    /\ transitive \in BOOLEAN
    /\ memberOf \in SUBSET Refs
    /\ parents \in Catalogs
    /\ pc = "start"
    /\ levels = << >>
    /\ current = NoRef
    /\ processed = {}
    /\ owned = {}
    /\ always = parents
    /\ ever = parents
    /\ edits = 0

\* resolveOwnershipEntityRefs without the option: the user and the direct groups.
ResolveDirect ==
    /\ pc = "start"
    /\ ~transitive
    /\ owned' = {User} \cup Memberships
    /\ pc' = "done"
    /\ UNCHANGED <<input, levels, current, processed, catalog>>

\* resolveOwnershipEntityRefs with the option: the outermost call.
ResolveTransitive ==
    /\ pc = "start"
    /\ transitive
    /\ levels' = <<[todo |-> Memberships, found |-> {}]>>
    /\ pc' = "visit"
    /\ UNCHANGED <<input, current, processed, owned, catalog>>

\* Mutant of SkipProcessed: the loop does not advance past the skipped ref.
SkipWithoutAdvancing(g) ==
    /\ pc = "visit"
    /\ g \in Top.todo \cap processed
    /\ UNCHANGED vars

\* The loop meets a ref that some level has already processed.
SkipProcessed(g) ==
    /\ pc = "visit"
    /\ g \in Top.todo \cap processed
    /\ levels' = [levels EXCEPT ![Len(levels)] = [todo |-> Top.todo \ {g}, found |-> Top.found]]
    /\ UNCHANGED <<input, pc, current, processed, owned, catalog>>

\* The loop meets a new ref: it counts as owned before anything is known of it.
VisitRef(g) ==
    /\ pc = "visit"
    /\ g \in Top.todo \ processed
    /\ processed' = processed \cup {g}
    /\ levels' = [levels EXCEPT ![Len(levels)] =
                     [todo |-> Top.todo \ {g}, found |-> Top.found \cup {g}]]
    /\ current' = g
    /\ pc' = "lookup"
    /\ UNCHANGED <<input, owned, catalog>>

\* Mutant of LookupGroup: the recursion is entered with one parent only.
LookupFirstParentOnly ==
    /\ pc = "lookup"
    /\ current \in Groups
    /\ \E p \in SUBSET FollowedParents(parents, current) :
          /\ p = {} <=> FollowedParents(parents, current) = {}
          /\ \A q, r \in p : q = r
          /\ levels' = Append(levels, [todo |-> p, found |-> {}])
    /\ current' = NoRef
    /\ pc' = "visit"
    /\ UNCHANGED <<input, processed, owned, catalog>>

\* The lookup finds a Group: the recursive call on its parents.
LookupGroup ==
    /\ pc = "lookup"
    /\ current \in Groups
    /\ levels' = Append(levels, [todo |-> FollowedParents(parents, current), found |-> {}])
    /\ current' = NoRef
    /\ pc' = "visit"
    /\ UNCHANGED <<input, processed, owned, catalog>>

\* The lookup finds nothing, or an entity of another kind: on to the next ref.
LookupOther ==
    /\ pc = "lookup"
    /\ FollowedParents(parents, current) = {}
    /\ current' = NoRef
    /\ pc' = "visit"
    /\ UNCHANGED <<input, levels, processed, owned, catalog>>

\* The token request or the catalog call rejects, and the resolver with it.
LookupFails ==
    /\ pc = "lookup"
    /\ pc' = "failed"
    /\ UNCHANGED <<input, levels, current, processed, owned, catalog>>

\* Mutant of ReturnToCaller: a call may return when it has no caller.
ReturnToCallerUnwound ==
    /\ pc = "visit"
    /\ Len(levels) >= 1
    /\ Top.todo = {}
    /\ levels' = SubSeq(levels, 1, Len(levels) - 1)
    /\ UNCHANGED <<input, pc, current, processed, owned, catalog>>

\* A recursive call returns: its caller adds what it found to its own set.
ReturnToCaller ==
    /\ pc = "visit"
    /\ Len(levels) > 1
    /\ Top.todo = {}
    /\ LET caller == levels[Len(levels) - 1]
       IN  levels' = Append(SubSeq(levels, 1, Len(levels) - 2),
                            [todo |-> caller.todo, found |-> caller.found \cup Top.found])
    /\ UNCHANGED <<input, pc, current, processed, owned, catalog>>

\* The outermost call returns.
ReturnOwned ==
    /\ pc = "visit"
    /\ Len(levels) = 1
    /\ Top.todo = {}
    /\ owned' = {User} \cup Top.found
    /\ pc' = "done"
    /\ UNCHANGED <<input, levels, current, processed, catalog>>

\* Environment: ingestion gives g another set of parents while the walk runs.
EditCatalog(g, new) ==
    /\ pc \in {"visit", "lookup"}
    /\ edits < MaxEdits
    /\ parents' = [parents EXCEPT ![g] = new]
    /\ always' = [always EXCEPT ![g] = @ \cap new]
    /\ ever' = [ever EXCEPT ![g] = @ \cup new]
    /\ edits' = edits + 1
    /\ UNCHANGED <<input, walk>>

Resolve ==
    \/ ResolveDirect
    \/ ResolveTransitive
    \/ \E g \in Refs : SkipProcessed(g) \/ VisitRef(g)
    \/ LookupGroup
    \/ LookupOther
    \/ LookupFails
    \/ ReturnToCaller
    \/ ReturnOwned

Next ==
    \/ Resolve
    \/ \E g \in Groups, new \in SUBSET Refs : EditCatalog(g, new)

Spec == Init /\ [][Next]_vars

\* An awaited token request or catalog call settles, so the sign-in keeps moving.
FairSpec == Spec /\ WF_vars(Resolve)

---------------------------------------------------------------------------
\* What following relations from S reaches: the least set that contains S and that
\* following leaves closed.
Closed(relations, C) == \A g \in C \cap Groups : relations[g] \subseteq C

Reachable(relations, S) ==
    {g \in Refs : \A C \in SUBSET Refs : S \subseteq C /\ Closed(relations, C) => g \in C}

\* The variables have the types the resolver gives them; a walk in progress has an
\* active call, and a lookup is awaited exactly while the walk is suspended on it.
TypeOK ==
    /\ transitive \in BOOLEAN
    /\ memberOf \in SUBSET Refs
    /\ parents \in Catalogs /\ always \in Catalogs /\ ever \in Catalogs
    /\ pc \in {"start", "visit", "lookup", "done", "failed"}
    /\ levels \in Seq(Level)
    /\ pc \in {"visit", "lookup"} => levels # << >>
    /\ current \in Refs \cup {NoRef}
    /\ pc = "lookup" => current \in Refs
    /\ processed \in SUBSET Refs
    /\ owned \in SUBSET (Refs \cup {User})
    /\ edits \in Nat

\* No ownership is missed: once the resolver returns, the user owns every group
\* reachable over childOf relations that held all through the sign-in, whatever
\* cycles and shared ancestors the hierarchy has and although a group met twice is
\* skipped the second time (processedGroups is shared by the whole recursion).
NothingMissed ==
    pc = "done" =>
        IF transitive THEN Reachable(always, memberOf \cap Groups) \subseteq owned
                      ELSE memberOf \cap Groups \subseteq owned

\* No ownership is invented: besides the user's own ref, everything the user is given
\* is reachable over relations the catalog held at some moment of the sign-in.
NothingInvented ==
    pc = "done" =>
        owned \subseteq {User} \cup (IF transitive THEN Reachable(ever, memberOf \cap Groups)
                                                   ELSE memberOf \cap Groups)

\* A sign-in ends, even when the hierarchy is cyclic or is edited under the walk.
SignInEnds == <>(pc \in {"done", "failed"})

===========================================================================
