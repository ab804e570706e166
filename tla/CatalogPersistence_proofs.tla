---------------------- MODULE CatalogPersistence_proofs ----------------------
(***************************************************************************)
(* The verdict of the persistence check is sound.  The argument follows    *)
(* the uid the check adopted: it is one the catalog has used, so that a    *)
(* storage that lost its row can never show it again; and the row was seen *)
(* in the external database, hence that is where RHDH keeps it.            *)
(***************************************************************************)
EXTENDS CatalogPersistence, FiniteSetTheorems, TLAPS

Early == {"post", "list", "entity"}
Verified == {"stopping", "offline", "reading", "rows", "passed"}

RowInv == row \in used \cup {NoUid} /\ used \subseteq Uids
SeenInv == IF step \in Early THEN seen = NoUid ELSE seen \in used \/ step = "failed"
LostInv == lost => row # seen \/ step = "failed"
StopInv == ~up => step \in {"stopping", "offline", "reading", "failed"}
EarlyInv == step \in Early => ~lost
PlaceInv == step \in Verified => external
PassInv == step = "passed" => ~lost

Inv == /\ RowInv /\ SeenInv /\ LostInv /\ StopInv /\ EarlyInv /\ PlaceInv
       /\ PassInv /\ step \in Steps

LEMMA InitInv == Init => Inv
  BY DEF Init, Inv, RowInv, SeenInv, LostInv, StopInv, EarlyInv, PlaceInv, PassInv,
         Early, Verified, Steps

LEMMA ClientInv == ASSUME Inv, Client PROVE Inv'
<1> USE NoUidOutside DEF Inv, RowInv, SeenInv, LostInv, StopInv, EarlyInv, PlaceInv, PassInv,
        Early, Verified, Steps, server, Fail, Unexpected, NextRound
<1>1. CASE SendPost
  BY <1>1 DEF SendPost
<1>2. CASE PostUnanswered
  BY <1>2 DEF PostUnanswered
<1>3. CASE PostAnswered
  BY <1>3 DEF PostAnswered
<1>4. CASE ListLocations
  BY <1>4 DEF ListLocations
<1>5. CASE ReadCreated
  BY <1>5 DEF ReadCreated, Answers
<1>6. CASE VerifySql
  BY <1>6 DEF VerifySql, CompareRows, Rows
<1>7. CASE Stopped
  BY <1>7 DEF Stopped
<1>8. CASE VerifyOffline
  BY <1>8 DEF VerifyOffline, CompareRows, Rows
<1>9. CASE ReadAgain
  BY <1>9 DEF ReadAgain, Answers
<1>10. CASE VerifyAfter
  BY <1>10 DEF VerifyAfter, CompareRows, Rows
<1>11. CASE Deadline
  BY <1>11 DEF Deadline
<1> QED
  BY <1>1, <1>2, <1>3, <1>4, <1>5, <1>6, <1>7, <1>8, <1>9, <1>10, <1>11 DEF Client

LEMMA ServerInv == ASSUME Inv, Server PROVE Inv'
<1> USE NoUidOutside DEF Inv, RowInv, SeenInv, LostInv, StopInv, EarlyInv, PlaceInv, PassInv,
        Early, Verified, Steps, client
<1>1. ASSUME NEW p \in Posts, Serve(p) PROVE Inv'
  BY <1>1 DEF Serve
<1>2. CASE Ingest
  BY <1>2 DEF Ingest
<1>3. CASE StopRhdh
  BY <1>3 DEF StopRhdh
<1>4. CASE StartRhdh
  BY <1>4 DEF StartRhdh
<1>5. CASE LoseStorage
  BY <1>5 DEF LoseStorage
<1> QED
  BY <1>1, <1>2, <1>3, <1>4, <1>5 DEF Server

LEMMA NextInv == ASSUME Inv, [Next]_vars PROVE Inv'
<1>1. CASE UNCHANGED vars
  BY <1>1 DEF vars, Inv, RowInv, SeenInv, LostInv, StopInv, EarlyInv, PlaceInv, PassInv
<1>2. CASE Over
  BY <1>1, <1>2 DEF Over
<1> QED BY <1>1, <1>2, ClientInv, ServerInv DEF Next

\* The check passes only if the entity was kept in the external database (PassMeansKept).
THEOREM PassIsSound == Spec => []PassMeansKept
<1>2. Inv => PassMeansKept
  BY DEF Inv, PlaceInv, PassInv, PassMeansKept, Verified
<1> QED BY InitInv, NextInv, <1>2, PTL DEF Spec

---------------------------------------------------------------------------
LEMMA ClientTypes == ASSUME TypeOK, Inv, Client PROVE TypeOK'
<1>7. Cardinality({}) = 0 /\ \A p : Cardinality({p}) = 1
  BY FS_EmptySet, FS_Singleton, Zenon
<1>0. Cardinality({}) <= 1 /\ \A p \in Posts : Cardinality({p}) <= 1
  BY <1>7
<1> USE DEF TypeOK, Steps, Reasons, server, Fail, Unexpected, NextRound
<1>1. CASE SendPost
  BY <1>0, <1>1 DEF SendPost
<1>2. CASE PostUnanswered \/ PostAnswered
  BY <1>0, <1>2 DEF PostUnanswered, PostAnswered
<1>3. CASE ListLocations \/ Stopped \/ ReadAgain
  BY <1>3 DEF ListLocations, Stopped, ReadAgain
<1>4. CASE ReadCreated
  BY <1>4 DEF ReadCreated, Answers
<1>5. CASE VerifySql \/ VerifyOffline \/ VerifyAfter
  BY <1>0, <1>5 DEF VerifySql, VerifyOffline, VerifyAfter, CompareRows
<1>6. CASE Deadline
  BY <1>0, <1>6 DEF Deadline
<1> QED BY <1>1, <1>2, <1>3, <1>4, <1>5, <1>6 DEF Client

LEMMA ServerTypes == ASSUME TypeOK, Inv, Server PROVE TypeOK'
<1> USE DEF TypeOK, client
<1>1. ASSUME NEW p \in Posts, Serve(p) PROVE TypeOK'
  BY <1>1 DEF Serve
<1>2. CASE Ingest \/ StartRhdh \/ LoseStorage
  BY <1>2 DEF Ingest, StartRhdh, LoseStorage
<1>3. CASE StopRhdh
  BY <1>3 DEF StopRhdh
<1> QED BY <1>1, <1>2, <1>3 DEF Server

LEMMA NextTypeOK == ASSUME TypeOK, Inv, [Next]_vars PROVE TypeOK'
<1>1. CASE UNCHANGED vars
  BY <1>1 DEF vars, TypeOK
<1> QED BY <1>1, ClientTypes, ServerTypes DEF Next, Over

LEMMA InitTypeOK == Init => TypeOK
<1>0. Cardinality({}) = 0
  BY FS_EmptySet, Zenon
<1>1. Init => Cardinality({}) <= 1
  BY <1>0
<1> QED BY <1>1 DEF Init, TypeOK, Steps, Reasons

\* The variables have their types, and one POST at a time is waited for.
THEOREM CatalogTypes == Spec => []TypeOK
  BY InitInv, NextInv, InitTypeOK, NextTypeOK, PTL DEF Spec

---------------------------------------------------------------------------
\* Whatever became of its answer, a POST that was carried out left a location, unless
\* the storage lost it; and the row the check adopted is there, unless the same.
WriteInv ==
  /\ (\E p \in Posts : post[p] = "created") \/ row # NoUid => location \/ lost
  /\ step \in Steps \ {"post", "list", "failed"} => location \/ lost
  /\ step \in Steps \ (Early \cup {"failed"}) => seen # NoUid /\ (row = seen \/ lost)
  /\ NoFalseAlarm

LEMMA ClientWrites == ASSUME TypeOK, Inv, WriteInv, Client PROVE WriteInv'
<1> USE NoUidOutside DEF TypeOK, WriteInv, NoFalseAlarm, Steps, Early, server, Fail, Unexpected, NextRound
<1>1. CASE SendPost
  BY <1>1 DEF SendPost
<1>2. CASE PostUnanswered \/ PostAnswered
  BY <1>2 DEF PostUnanswered, PostAnswered
<1>3. CASE ListLocations \/ Stopped \/ ReadAgain
  BY <1>3 DEF ListLocations, Stopped, ReadAgain
<1>4. CASE ReadCreated
  BY <1>4 DEF ReadCreated, Answers
<1>5. CASE VerifySql \/ VerifyOffline \/ VerifyAfter
  BY <1>5 DEF VerifySql, VerifyOffline, VerifyAfter, CompareRows, Rows
<1>6. CASE Deadline
  BY <1>6 DEF Deadline
<1> QED BY <1>1, <1>2, <1>3, <1>4, <1>5, <1>6 DEF Client

LEMMA ServerWrites == ASSUME TypeOK, Inv, WriteInv, Server PROVE WriteInv'
<1> USE NoUidOutside DEF TypeOK, WriteInv, NoFalseAlarm, Steps, Early, client
<1>1. ASSUME NEW p \in Posts, Serve(p) PROVE WriteInv'
  BY <1>1 DEF Serve
<1>2. CASE Ingest
  BY <1>2 DEF Ingest
<1>3. CASE StartRhdh
  BY <1>3 DEF StartRhdh
<1>4. CASE StopRhdh
  BY <1>4 DEF StopRhdh
<1>5. CASE LoseStorage
  BY <1>5 DEF LoseStorage
<1> QED BY <1>1, <1>2, <1>3, <1>4, <1>5 DEF Server

LEMMA NextWrites == ASSUME TypeOK, Inv, WriteInv, [Next]_vars PROVE WriteInv'
<1>1. CASE UNCHANGED vars
  BY <1>1 DEF vars, WriteInv, NoFalseAlarm
<1> QED BY <1>1, ClientWrites, ServerWrites DEF Next, Over

LEMMA InitWrites == Init => WriteInv
  BY DEF Init, WriteInv, NoFalseAlarm, Steps, Early

\* Before a deadline, the check fails only for a reason: the storage lost what it had,
\* RHDH does not use the external database, or a POST ended in an error.
THEOREM AlarmHasCause == Spec => []NoFalseAlarm
<1>1. WriteInv => NoFalseAlarm
  BY DEF WriteInv
<1> QED BY InitInv, NextInv, InitTypeOK, NextTypeOK, InitWrites, NextWrites, <1>1, PTL DEF Spec

\* The check goes on only with a location that is registered, however many POSTs were
\* lost, repeated or carried out late.
THEOREM WriteIsRegistered == Spec => []WrittenMeansRegistered
<1>1. WriteInv => WrittenMeansRegistered
  BY DEF WriteInv, WrittenMeansRegistered
<1> QED BY InitInv, NextInv, InitTypeOK, NextTypeOK, InitWrites, NextWrites, <1>1, PTL DEF Spec
===============================================================================
