-------------------------- MODULE CatalogPersistence --------------------------
(***************************************************************************)
(* verifyCatalogPersistence (runtime-catalog-persistence.ts): the end to   *)
(* end check that a catalog entity written through RHDH survives a full    *)
(* stop of the application in its external database.                       *)
(*                                                                         *)
(* The client registers one location with POST, must not trust a missing   *)
(* answer, then follows the entity that the catalog makes of it: its uid   *)
(* over the API, its row in SQL, the same row while RHDH is stopped, the   *)
(* same uid and row after the restart.                                     *)
(*                                                                         *)
(* RHDH and its database are the environment: a POST whose client gave up  *)
(* may still be committed later; a registered location is refused with     *)
(* 409; ingestion is asynchronous and names each row with a fresh uid; the *)
(* storage under test may lose its contents when RHDH stops, which is the  *)
(* defect the check exists to catch.                                       *)
(***************************************************************************)
EXTENDS Naturals, FiniteSets

CONSTANTS Posts,      \* the attempts one 120 s poll has time for
          Uids,       \* identities the catalog can give a row
          NoUid       \* "no row", "no entity answered"

ASSUME NoUidOutside == NoUid \notin Uids
ASSUME PostsFinite == IsFiniteSet(Posts)

VARIABLES step,       \* where verifyCatalogPersistence stands
          reconcile,  \* the flag of the POST poll
          post,       \* what became of each POST
          asked,      \* the POST the client is waiting for, {} if none
          seen,       \* entity.metadata.uid of the first answer
          up,         \* RHDH serves requests
          location,   \* the location is registered in the database
          row,        \* the uid RHDH's catalog stores, or NoUid
          external,   \* RHDH stores it in the external database of the run
          used,       \* uids the catalog has ever given
          lost,       \* the storage has lost its contents
          reason      \* why the check failed, "none" while it has not

client == <<step, reconcile, asked, seen, reason>>
server == <<post, up, location, row, external, used, lost>>
vars == <<step, reconcile, post, asked, seen, up, location, row, external, used, lost, reason>>

Steps == {"post", "list", "entity", "sql", "stopping", "offline", "reading",
          "rows", "passed", "failed"}
Reasons == {"none", "deadline", "status", "answer", "connection", "rows"}

Init ==
  /\ step = "post" /\ reconcile = FALSE /\ asked = {} /\ seen = NoUid
  /\ reason = "none"
  /\ post = [p \in Posts |-> "unsent"]
  /\ up = TRUE /\ location = FALSE /\ row = NoUid /\ used = {} /\ lost = FALSE
  /\ external \in BOOLEAN

Fail(why) == step' = "failed" /\ reason' = why /\ asked' = {}
             /\ UNCHANGED <<reconcile, seen>>

(***************************************************************************)
(* The poll that registers the location.                                   *)
(***************************************************************************)
SendPost ==
  /\ step = "post" /\ asked = {}
  /\ \E p \in Posts : /\ post[p] = "unsent"
                      /\ post' = [post EXCEPT ![p] = "sent"]
                      /\ asked' = {p}
  /\ UNCHANGED <<step, reconcile, seen, reason, up, location, row, external, used, lost>>

\* The next round of the poll lists the locations first if reconcile is set.
NextRound(again) == /\ reconcile' = again
                    /\ step' = IF again THEN "list" ELSE "post"

\* Mutant of PostUnanswered: a missing answer is taken for success.
PostUnansweredDone ==
  /\ step = "post" /\ asked # {}
  /\ asked' = {} /\ step' = "entity"
  /\ UNCHANGED <<reconcile, seen, reason>> /\ UNCHANGED server

\* Mutant of PostUnanswered: the poll goes on beside the request.
PostUnansweredPending ==
  /\ step = "post" /\ asked # {}
  /\ NextRound(TRUE)
  /\ UNCHANGED <<asked, seen, reason>> /\ UNCHANGED server

\* null (timeout or reset; the POST may still be under way) and 409 are
\* reconciled; 201 ends the poll; any other status throws out of it.
PostUnanswered ==
  /\ step = "post" /\ asked # {}
  /\ asked' = {} /\ NextRound(TRUE)
  /\ UNCHANGED <<seen, reason>> /\ UNCHANGED server

\* Mutant of PostAnswered: 409 is an error like any other.
PostAnsweredStrictly ==
  /\ step = "post"
  /\ \E p \in asked :
       \/ /\ post[p] = "created" /\ asked' = {}
          /\ step' = "entity" /\ reconcile' = FALSE
          /\ UNCHANGED <<seen, reason>>
       \/ post[p] \in {"conflict", "error"} /\ Fail("status")
  /\ UNCHANGED server

PostAnswered ==
  /\ step = "post"
  /\ \E p \in asked :
       \/ /\ post[p] = "conflict" /\ asked' = {} /\ NextRound(TRUE)
          /\ UNCHANGED <<seen, reason>>
       \/ /\ post[p] = "created" /\ asked' = {}
          /\ step' = "entity" /\ reconcile' = FALSE
          /\ UNCHANGED <<seen, reason>>
       \/ post[p] = "error" /\ Fail("status")
  /\ UNCHANGED server

\* An answer of RHDH that is neither data nor "not yet" throws out of the poll: any
\* other status, a body of another shape, two locations where one was registered.
Unexpected == up /\ Fail("answer")

\* GET /api/catalog/locations: unanswered or 5xx tries again, a matching
\* location ends the poll, none falls through to another POST.
ListLocations ==
  /\ step = "list"
  /\ \/ UNCHANGED <<step, reconcile, asked, seen, reason>>
     \/ /\ up /\ step' = IF location THEN "entity" ELSE "post"
        /\ UNCHANGED <<reconcile, asked, seen, reason>>
     \/ Unexpected
  /\ UNCHANGED server

(***************************************************************************)
(* The entity over the API and its row in SQL, before, while and after     *)
(* RHDH is stopped.                                                        *)
(***************************************************************************)
\* readEntity: null, 404 and 5xx are "not yet".
Answers == IF up THEN {NoUid, row} ELSE {NoUid}

ReadCreated ==
  /\ step = "entity"
  /\ \/ /\ \E uid \in Answers \ {NoUid} : seen' = uid /\ step' = "sql"
        /\ UNCHANGED <<reconcile, asked, reason>>
     \/ Unexpected
  /\ UNCHANGED server

\* Mutant of Rows: the rows are asked of RHDH, not of the external database.
RowsOfRhdh == row

\* readRows of the external database, compared with the expected row; its connection
\* may fail, and is not tried again.
Rows == IF external THEN row ELSE NoUid

CompareRows(from, to) ==
  /\ step = from
  /\ \/ /\ Rows = seen /\ step' = to
        /\ UNCHANGED <<reconcile, asked, seen, reason>>
     \/ Rows # seen /\ Fail("rows")
     \/ Fail("connection")
  /\ UNCHANGED server

VerifySql == CompareRows("sql", "stopping")
VerifyOffline == CompareRows("offline", "reading")
VerifyAfter == CompareRows("rows", "passed")

\* runtime.restart calls whileStopped once no pod is left.
Stopped ==
  /\ step = "stopping" /\ ~up /\ step' = "offline"
  /\ UNCHANGED <<reconcile, asked, seen, reason>> /\ UNCHANGED server

ReadAgain ==
  /\ step = "reading"
  /\ \/ /\ seen \in Answers \ {NoUid} /\ step' = "rows"
        /\ UNCHANGED <<reconcile, asked, seen, reason>>
     \/ Unexpected
  /\ UNCHANGED server

\* Each poll has a deadline: 120 s, 300 s, the rollout's, 120 s.
Deadline ==
  /\ step \in {"post", "list", "entity", "stopping", "reading"}
  /\ Fail("deadline") /\ UNCHANGED server

Client == \/ SendPost \/ PostUnanswered \/ PostAnswered \/ ListLocations
          \/ ReadCreated \/ VerifySql \/ Stopped \/ VerifyOffline
          \/ ReadAgain \/ VerifyAfter \/ Deadline

(***************************************************************************)
(* The environment. A POST may also end in another status than 201 and 409, *)
(* which says nothing of whether it was committed.                          *)
(***************************************************************************)
Serve(p) ==
  /\ up /\ post[p] = "sent"
  /\ \/ /\ location /\ post' = [post EXCEPT ![p] = "conflict"]
        /\ UNCHANGED location
     \/ /\ ~location /\ location' = TRUE
        /\ post' = [post EXCEPT ![p] = "created"]
     \/ /\ post' = [post EXCEPT ![p] = "error"]
        /\ UNCHANGED location \/ location' = TRUE
  /\ UNCHANGED client /\ UNCHANGED <<up, row, external, used, lost>>

Ingest ==
  /\ up /\ location /\ row = NoUid
  /\ \E uid \in Uids \ used : row' = uid /\ used' = used \cup {uid}
  /\ UNCHANGED client /\ UNCHANGED <<post, up, location, external, lost>>

\* A stop drops the requests that were under way.
StopRhdh ==
  /\ up /\ step = "stopping" /\ up' = FALSE
  /\ post' = [p \in Posts |-> IF post[p] = "sent" THEN "dropped" ELSE post[p]]
  /\ UNCHANGED client /\ UNCHANGED <<location, row, external, used, lost>>

StartRhdh ==
  /\ ~up /\ step = "reading" /\ up' = TRUE
  /\ UNCHANGED client /\ UNCHANGED <<post, location, row, external, used, lost>>

\* What the catalog stored goes away while RHDH is down (a pod-local database, or
\* an external one somebody dropped); configuration may bring the location back.
LoseStorage ==
  /\ ~up /\ row' = NoUid /\ lost' = TRUE
  /\ location' \in BOOLEAN
  /\ UNCHANGED client /\ UNCHANGED <<post, up, external, used>>

Server == (\E p \in Posts : Serve(p)) \/ Ingest \/ StopRhdh \/ StartRhdh \/ LoseStorage

Over == step \in {"passed", "failed"} /\ UNCHANGED vars

Next == Client \/ Server \/ Over
Spec == Init /\ [][Next]_vars

TypeOK ==
  /\ step \in Steps /\ reconcile \in BOOLEAN /\ asked \in SUBSET Posts
  /\ post \in [Posts -> {"unsent", "sent", "created", "conflict", "error", "dropped"}]
  /\ seen \in Uids \cup {NoUid} /\ row \in Uids \cup {NoUid}
  /\ used \in SUBSET Uids /\ up \in BOOLEAN /\ location \in BOOLEAN
  /\ lost \in BOOLEAN /\ external \in BOOLEAN /\ reason \in Reasons
  /\ Cardinality(asked) <= 1 /\ (asked # {} => step = "post")

(* The check passes only for an application that keeps the entity in the    *)
(* run's external database and kept that very row through the stop: a       *)
(* storage that was lost and refilled, or another one, never passes.        *)
PassMeansKept == step = "passed" => external /\ ~lost

(* Lost and late answers alone never fail the check before a deadline: a    *)
(* 409 caused by its own earlier POST is recognised as success. An answer   *)
(* that is an error, to a POST that may have been committed too, is a cause.*)
NoFalseAlarm ==
  step = "failed" => \/ reason \in {"deadline", "answer", "connection"}
                     \/ lost \/ ~external
                     \/ \E p \in Posts : post[p] = "error"

(* Once the poll lets the check go on, the location is in the database,     *)
(* whatever became of the POST's answer.                                    *)
WrittenMeansRegistered ==
  step \in Steps \ {"post", "list", "failed"} => location \/ lost
===============================================================================
