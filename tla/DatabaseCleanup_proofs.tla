---------------------- MODULE DatabaseCleanup_proofs ----------------------
(***************************************************************************)
(* Proofs about DatabaseCleanup for any databases and any deadline: it     *)
(* implements OwnedDatabases, forgets nothing that it was told of, ends no *)
(* session but those of its own role, and comes closer to its end with     *)
(* every query.                                                            *)
(***************************************************************************)
EXTENDS DatabaseCleanup, TLAPS

\* The initial states have the types.
LEMMA InitTypeOK == Init => TypeOK
  <1>1. Timeout \in 0..Timeout
    BY TimeoutAssumption
  <1> QED BY <1>1 DEF Init, TypeOK, Active, Outcomes

\* A step preserves the types.
LEMMA NextTypeOK == ASSUME TypeOK, [Next]_vars PROVE TypeOK'
  <1> USE NamesAssumption, TimeoutAssumption
      DEF TypeOK, Active, Outcomes, host, cleaner
  <1>1. CASE DeadlineExceeded
    BY <1>1 DEF DeadlineExceeded
  <1>2. CASE QueryFails
    BY <1>2 DEF QueryFails
  <1>3. CASE ListOwned
    BY <1>3 DEF ListOwned
  <1>4. ASSUME NEW n \in Names, NextDatabase(n) PROVE TypeOK'
    BY <1>4 DEF NextDatabase
  <1>5. CASE DropSucceeds
    BY <1>5 DEF DropSucceeds
  <1>6. CASE DropBusy
    BY <1>6 DEF DropBusy
  <1>7. CASE DropFails
    BY <1>7 DEF DropFails
  <1>8. CASE TerminateOwnSessions
    BY <1>8 DEF TerminateOwnSessions
  <1>9. CASE PollSessions
    BY <1>9 DEF PollSessions
  <1>10. CASE Sleep
    <2>1. left' \in 0..Timeout /\ left' = left - 1
      BY <1>10 DEF Sleep
    <2>2. pc' \in {"failed", "poll", "drop"}
      BY <1>10, <2>1 DEF Sleep
    <2> QED BY <1>10, <2>1, <2>2 DEF Sleep
  <1>11. CASE VerifyCleared
    BY <1>11 DEF VerifyCleared
  <1>12. CASE TimePasses
    BY <1>12 DEF TimePasses
  <1>13. CASE WritersStop
    BY <1>13 DEF WritersStop
  <1>14. ASSUME NEW n \in Names, WriterConnects(n) PROVE TypeOK'
    BY <1>14 DEF WriterConnects
  <1>15. ASSUME NEW n \in Names, OwnSessionEnds(n) PROVE TypeOK'
    BY <1>15 DEF OwnSessionEnds
  <1>16. ASSUME NEW n \in Names, ForeignConnects(n) PROVE TypeOK'
    BY <1>16 DEF ForeignConnects
  <1>17. ASSUME NEW n \in Names, ForeignSessionEnds(n) PROVE TypeOK'
    BY <1>17 DEF ForeignSessionEnds
  <1>18. CASE UNCHANGED vars
    BY <1>18 DEF vars
  <1> QED BY <1>1, <1>2, <1>3, <1>4, <1>5, <1>6, <1>7, <1>8, <1>9, <1>10, <1>11, <1>12,
             <1>13, <1>14, <1>15, <1>16, <1>17, <1>18 DEF Next, Clear, Environment

\* The variables have their types in every reachable state.
THEOREM CleanupTypes == Spec => []TypeOK
  BY InitTypeOK, NextTypeOK, PTL DEF Spec

---------------------------------------------------------------------------
\* Every step of the cleanup and of its environment is one of OwnedDatabases: the
\* cleanup never creates, and reports cleared only what it has seen empty.
LEMMA StepKeepsPromise ==
    ASSUME TypeOK, [Next]_vars
    PROVE  [Promise!Next]_<<databases, outcome>>
  <1> USE DEF TypeOK, Active, Outcomes, outcome, host, cleaner
  <1>1. ASSUME NEW n \in Names, databases' = databases \cup {n}, UNCHANGED pc
        PROVE  Promise!Next
    BY <1>1 DEF Promise!Next, Promise!Create
  <1>2. ASSUME UNCHANGED databases, UNCHANGED outcome
        PROVE  UNCHANGED <<databases, outcome>>
    BY <1>2
  <1>3. CASE DeadlineExceeded
    BY <1>3 DEF DeadlineExceeded, Promise!Next, Promise!ReportFailed
  <1>4. CASE QueryFails
    BY <1>4 DEF QueryFails, Promise!Next, Promise!ReportFailed
  <1>5. CASE ListOwned
    BY <1>5 DEF ListOwned
  <1>6. ASSUME NEW n \in Names, NextDatabase(n) PROVE UNCHANGED <<databases, outcome>>
    BY <1>6 DEF NextDatabase
  <1>7. CASE DropSucceeds
    <2>1. current \in Names /\ outcome = "running" /\ outcome' = "running"
      BY <1>7 DEF DropSucceeds
    <2> QED BY <1>7, <2>1 DEF DropSucceeds, Promise!Next, Promise!Drop
  <1>8. CASE DropBusy
    BY <1>8 DEF DropBusy
  <1>9. CASE DropFails
    <2>1. current \in Names /\ outcome = "running" /\ outcome' = "failed"
      BY <1>9 DEF DropFails
    <2>2. databases' = databases \/ databases' = databases \ {current}
      BY <1>9 DEF DropFails
    <2> QED BY <2>1, <2>2 DEF Promise!Next, Promise!ReportFailed
  <1>10. CASE TerminateOwnSessions
    BY <1>10 DEF TerminateOwnSessions
  <1>11. CASE PollSessions
    BY <1>11 DEF PollSessions
  <1>12. CASE Sleep
    <2>1. outcome = "running" /\ databases' = databases
      BY <1>12 DEF Sleep
    <2>2. pc' \in {"failed", "poll", "drop"}
      BY <1>12, TimeoutAssumption DEF Sleep
    <2>3. outcome' = "failed" \/ outcome' = "running"
      BY <2>2
    <2> QED BY <2>1, <2>3 DEF Promise!Next, Promise!ReportFailed
  <1>13. CASE VerifyCleared
    <2>1. CASE databases = {}
      BY <1>13, <2>1 DEF VerifyCleared, Promise!Next, Promise!ReportCleared
    <2>2. CASE databases # {}
      BY <1>13, <2>2 DEF VerifyCleared, Promise!Next, Promise!ReportFailed
    <2> QED BY <2>1, <2>2
  <1>14. CASE TimePasses
    BY <1>14 DEF TimePasses
  <1>15. CASE WritersStop
    BY <1>15 DEF WritersStop
  <1>16. ASSUME NEW n \in Names, WriterConnects(n) PROVE Promise!Next
    BY <1>1, <1>16 DEF WriterConnects
  <1>17. ASSUME NEW n \in Names, OwnSessionEnds(n) PROVE UNCHANGED <<databases, outcome>>
    BY <1>17 DEF OwnSessionEnds
  <1>18. ASSUME NEW n \in Names, ForeignConnects(n) PROVE UNCHANGED <<databases, outcome>>
    BY <1>18 DEF ForeignConnects
  <1>19. ASSUME NEW n \in Names, ForeignSessionEnds(n) PROVE UNCHANGED <<databases, outcome>>
    BY <1>19 DEF ForeignSessionEnds
  <1>20. CASE UNCHANGED vars
    BY <1>20 DEF vars
  <1> QED BY <1>3, <1>4, <1>5, <1>6, <1>7, <1>8, <1>9, <1>10, <1>11, <1>12, <1>13, <1>14,
             <1>15, <1>16, <1>17, <1>18, <1>19, <1>20 DEF Next, Clear, Environment

\* clearOwnedDatabases implements OwnedDatabases: a prefix reported cleared was empty.
THEOREM CleanupKeepsPromise == Spec => KeepsPromise
  <1>1. Init => Promise!Init
    BY DEF Init, Promise!Init, outcome, Outcomes
  <1>2. TypeOK /\ [Next]_vars => [Promise!Next]_<<databases, outcome>>
    BY StepKeepsPromise
  <1> QED BY <1>1, <1>2, CleanupTypes, PTL DEF Spec, KeepsPromise, Promise!Spec

---------------------------------------------------------------------------
\* Whatever is left of the prefix is listed, in hand or late.
InHand ==
    /\ pc = "next" => databases \subseteq todo \cup late
    /\ pc \in {"drop", "terminate", "poll", "sleep"} =>
          databases \subseteq todo \cup {current} \cup late

\* A step of the cleanup or of the host preserves it.
LEMMA InHandStep == ASSUME TypeOK, InHand, [Next]_vars PROVE InHand'
  <1> USE NamesAssumption DEF InHand, TypeOK, Active, Outcomes, host, cleaner
  <1>1. CASE DeadlineExceeded \/ QueryFails \/ ListOwned \/ DropSucceeds \/ DropBusy
    BY <1>1 DEF DeadlineExceeded, QueryFails, ListOwned, DropSucceeds, DropBusy
  <1>2. ASSUME NEW n \in Names, NextDatabase(n) PROVE InHand'
    BY <1>2 DEF NextDatabase
  <1>3. CASE DropFails \/ TerminateOwnSessions \/ PollSessions \/ VerifyCleared
    BY <1>3 DEF DropFails, TerminateOwnSessions, PollSessions, VerifyCleared
  <1>4. CASE Sleep
    <2>1. pc' \in {"failed", "poll", "drop"}
      BY <1>4, TimeoutAssumption DEF Sleep
    <2> QED BY <1>4, <2>1 DEF Sleep
  <1>5. CASE TimePasses \/ WritersStop
    BY <1>5 DEF TimePasses, WritersStop
  <1>6. ASSUME NEW n \in Names, WriterConnects(n) PROVE InHand'
    BY <1>6 DEF WriterConnects
  <1>7. ASSUME NEW n \in Names,
               OwnSessionEnds(n) \/ ForeignConnects(n) \/ ForeignSessionEnds(n)
        PROVE  InHand'
    BY <1>7 DEF OwnSessionEnds, ForeignConnects, ForeignSessionEnds
  <1>8. CASE UNCHANGED vars
    BY <1>8 DEF vars
  <1> QED BY <1>1, <1>2, <1>3, <1>4, <1>5, <1>6, <1>7, <1>8 DEF Next, Clear, Environment

\* A cleanup forgets no database of the prefix: what it leaves was created meanwhile.
THEOREM CleanupForgetsNothing == Spec => []NothingForgotten
  <1>1. Init => TypeOK /\ InHand
    BY InitTypeOK DEF Init, InHand
  <1>2. TypeOK /\ InHand => NothingForgotten
    BY DEF InHand, NothingForgotten
  <1> QED BY <1>1, <1>2, NextTypeOK, InHandStep, PTL DEF Spec

\* A cleanup that comes to its final listing with the writers stopped finds it empty.
StoppedClears == pc = "next" /\ todo = {} => databases = {}

\* Nobody creates a database of the prefix once the writers are stopped.
NobodyCreates == ~writers /\ late = {}

LEMMA NobodyCreatesStep ==
    ASSUME TypeOK, NobodyCreates, [Next]_vars PROVE NobodyCreates'
  <1> USE DEF NobodyCreates, TypeOK, Active, Outcomes, host, cleaner
  <1>1. CASE DeadlineExceeded \/ QueryFails \/ ListOwned \/ DropSucceeds \/ DropBusy
    BY <1>1 DEF DeadlineExceeded, QueryFails, ListOwned, DropSucceeds, DropBusy
  <1>2. ASSUME NEW n \in Names, NextDatabase(n) PROVE NobodyCreates'
    BY <1>2 DEF NextDatabase
  <1>3. CASE DropFails \/ TerminateOwnSessions \/ PollSessions \/ VerifyCleared
    BY <1>3 DEF DropFails, TerminateOwnSessions, PollSessions, VerifyCleared
  <1>4. CASE Sleep \/ TimePasses
    BY <1>4 DEF Sleep, TimePasses
  <1>5. CASE WritersStop
    BY <1>5 DEF WritersStop
  <1>6. ASSUME NEW n \in Names, WriterConnects(n) PROVE FALSE
    BY <1>6 DEF WriterConnects
  <1>7. ASSUME NEW n \in Names,
               OwnSessionEnds(n) \/ ForeignConnects(n) \/ ForeignSessionEnds(n)
        PROVE  NobodyCreates'
    BY <1>7 DEF OwnSessionEnds, ForeignConnects, ForeignSessionEnds
  <1>8. CASE UNCHANGED vars
    BY <1>8 DEF vars
  <1> QED BY <1>1, <1>2, <1>3, <1>4, <1>5, <1>6, <1>7, <1>8 DEF Next, Clear, Environment

\* Called as line 132 demands, with the writers stopped, a cleanup whose list is done has
\* cleared the prefix: whatever sessions come and go, its final listing fails nothing.
THEOREM StoppedCleanupClears == StoppedSpec => []StoppedClears
  <1>1. StoppedInit => TypeOK /\ InHand /\ NobodyCreates
    BY InitTypeOK DEF StoppedInit, Init, InHand, NobodyCreates
  <1>2. InHand /\ NobodyCreates => StoppedClears
    BY DEF InHand, NobodyCreates, StoppedClears
  <1> QED BY <1>1, <1>2, NextTypeOK, InHandStep, NobodyCreatesStep, PTL DEF StoppedSpec

---------------------------------------------------------------------------
\* No step of the cleanup ends a session of another role: a session of the role alone is
\* terminated, and a database is dropped only when nobody has one on it.
LEMMA ClearLeavesOthers == ASSUME Clear PROVE foreign \subseteq foreign'
  <1> USE DEF host
  <1>1. CASE DeadlineExceeded \/ QueryFails \/ ListOwned \/ DropSucceeds \/ DropBusy
    BY <1>1 DEF DeadlineExceeded, QueryFails, ListOwned, DropSucceeds, DropBusy
  <1>2. CASE \E n \in Names : NextDatabase(n)
    BY <1>2 DEF NextDatabase
  <1>3. CASE DropFails \/ TerminateOwnSessions \/ PollSessions \/ Sleep \/ VerifyCleared
    BY <1>3 DEF DropFails, TerminateOwnSessions, PollSessions, Sleep, VerifyCleared
  <1> QED BY <1>1, <1>2, <1>3 DEF Clear

\* However long it keeps a database busy, a session of another role outlives the cleanup.
THEOREM CleanupLeavesOthersAlone == Spec => OthersLeftAlone
  <1>1. [Next]_vars => [Clear => foreign \subseteq foreign']_vars
    BY ClearLeavesOthers
  <1> QED BY <1>1, PTL DEF Spec, OthersLeftAlone

---------------------------------------------------------------------------
\* Why the cleanup ends: the listing is made once; after it a retry costs time, and
\* between two waits there are only the names left on the list and the queries for one.
Rank == [p \in Active \cup Outcomes |->
           CASE p = "drop" -> 5
             [] p = "terminate" -> 4
             [] p = "poll" -> 3
             [] p = "sleep" -> 2
             [] p \in {"list", "next"} -> 1
             [] OTHER -> 0]

Listed == pc = "list" /\ pc' # "list"
TimeSpent == left' < left
FewerNames == left' = left /\ todo' \subseteq todo /\ todo' # todo
NextQuery == left' = left /\ todo' = todo /\ Rank[pc'] < Rank[pc]

\* A lexicographic order: the listing, the time left, the list, the queries for a name.
Closer ==
    \/ Listed
    \/ /\ pc' = "list" => pc = "list"
       /\ TimeSpent \/ FewerNames \/ NextQuery

LEMMA ClearComesCloser == ASSUME TypeOK, Clear PROVE Closer
  <1> USE NamesAssumption, TimeoutAssumption
      DEF TypeOK, Active, Outcomes, Rank, Closer, Listed, TimeSpent, FewerNames, NextQuery
  <1>1. CASE DeadlineExceeded
    BY <1>1 DEF DeadlineExceeded
  <1>2. CASE QueryFails
    BY <1>2 DEF QueryFails
  <1>3. CASE ListOwned
    BY <1>3 DEF ListOwned
  <1>4. ASSUME NEW n \in Names, NextDatabase(n) PROVE Closer
    BY <1>4 DEF NextDatabase
  <1>5. CASE DropSucceeds
    BY <1>5 DEF DropSucceeds
  <1>6. CASE DropBusy \/ DropFails
    <2>1. pc = "drop" /\ pc' \in {"terminate", "failed"} /\ UNCHANGED <<left, todo>>
      BY <1>6 DEF DropBusy, DropFails
    <2> QED BY <2>1
  <1>7. CASE TerminateOwnSessions \/ PollSessions
    BY <1>7 DEF TerminateOwnSessions, PollSessions
  <1>8. CASE Sleep
    <2>1. pc' \in {"failed", "poll", "drop"} /\ left' < left
      BY <1>8 DEF Sleep
    <2> QED BY <2>1
  <1>9. CASE VerifyCleared
    BY <1>9 DEF VerifyCleared
  <1> QED BY <1>1, <1>2, <1>3, <1>4, <1>5, <1>6, <1>7, <1>8, <1>9 DEF Clear

\* What the host does brings the cleanup no further from its end.
LEMMA HostNeverSetsBack == ASSUME TypeOK, Environment PROVE Closer \/ UNCHANGED cleaner
  <1>1. CASE TimePasses
    BY <1>1 DEF TimePasses, TypeOK, Closer, TimeSpent
  <1>2. CASE WritersStop
    BY <1>2 DEF WritersStop
  <1>3. ASSUME NEW n \in Names, WriterConnects(n) \/ OwnSessionEnds(n)
        PROVE  UNCHANGED cleaner
    BY <1>3 DEF WriterConnects, OwnSessionEnds
  <1>4. ASSUME NEW n \in Names, ForeignConnects(n) \/ ForeignSessionEnds(n)
        PROVE  UNCHANGED cleaner
    BY <1>4 DEF ForeignConnects, ForeignSessionEnds
  <1> QED BY <1>1, <1>2, <1>3, <1>4 DEF Environment

\* A busy DROP is retried without a count, yet every query of the cleanup brings it closer
\* to its end, and no session that comes or goes sets it back: what CleanupEnds needs
\* besides fairness, since the order of Closer is well-founded for finitely many names.
THEOREM EveryQueryComesCloser ==
    Spec => [][(Clear => Closer) /\ (Closer \/ UNCHANGED cleaner)]_vars
  <1>1. TypeOK /\ [Next]_vars => [(Clear => Closer) /\ (Closer \/ UNCHANGED cleaner)]_vars
    BY ClearComesCloser, HostNeverSetsBack DEF Next
  <1> QED BY <1>1, CleanupTypes, PTL DEF Spec
===========================================================================
