-------------------------- MODULE DatabaseCleanup --------------------------
(***************************************************************************)
(* clearOwnedDatabases of e2e-tests/playwright/utils/runtime-database.ts:  *)
(* drop every database of one exact run/slot prefix on a PostgreSQL host   *)
(* that other runs share, under one deadline for the whole cleanup.        *)
(*                                                                         *)
(* Every query is an await, and between two of them the host moves: pods   *)
(* of the application (while they run) connect and create databases, their *)
(* orphaned backends linger until TCP keepalive, sessions of other roles   *)
(* (the provider's own processes) come and go, and time passes.            *)
(*                                                                         *)
(* Time is the number of two-second waits left before the deadline.  The   *)
(* statement_timeout query that precedes each DROP is part of the DROP.    *)
(***************************************************************************)
EXTENDS Naturals

CONSTANTS
    Names,         \* the databases of the prefix, one per plugin
    None,          \* no database is being dropped
    Timeout        \* bound: the deadline, in waits

ASSUME NamesAssumption == None \notin Names
ASSUME TimeoutAssumption == Timeout \in Nat \ {0}

VARIABLES
    databases,     \* databases of the prefix on the host
    own,           \* those with a session of the application's role
    ending,        \* those whose sessions of that role have all been told to end
    foreign,       \* those with a session of another role
    writers,       \* pods of the application are running
    late,          \* history: databases created after the listing
    pc,            \* where clearOwnedDatabases is
    todo,          \* names listed and not yet dropped
    current,       \* the database being dropped
    left,          \* time before the deadline
    busy           \* the last poll saw sessions on the prefix

host == <<databases, own, ending, foreign, writers, late>>
cleaner == <<pc, todo, current, left, busy>>
vars == <<host, cleaner>>

---------------------------------------------------------------------------
Active == {"list", "next", "drop", "terminate", "poll", "sleep"}
Outcomes == {"cleared", "failed"}

Sessions == own \cup foreign

Init ==
    /\ databases \in SUBSET Names
    /\ own \in SUBSET databases
    /\ ending = {}
    /\ foreign \in SUBSET databases
    /\ writers \in BOOLEAN
    /\ late = {}
    /\ pc = "list"
    /\ todo = {}
    /\ current = None
    /\ left = Timeout
    /\ busy = FALSE

\* query() refuses to start once the deadline is reached.
DeadlineExceeded ==
    /\ pc \in {"list", "next", "drop", "terminate", "poll"}
    /\ left = 0
    /\ pc' = "failed"
    /\ UNCHANGED <<host, todo, current, left, busy>>

\* A query is refused by the server or its connection is lost.
QueryFails ==
    /\ pc \in {"list", "next", "terminate", "poll"}
    /\ left > 0
    /\ pc = "next" => todo = {}
    /\ pc' = "failed"
    /\ UNCHANGED <<host, todo, current, left, busy>>

ListOwned ==
    /\ pc = "list"
    /\ left > 0
    /\ todo' = databases
    /\ pc' = "next"
    /\ late' = {}
    /\ UNCHANGED <<databases, own, ending, foreign, writers, current, left, busy>>

NextDatabase(n) ==
    /\ pc = "next"
    /\ n \in todo
    /\ todo' = todo \ {n}
    /\ current' = n
    /\ pc' = "drop"
    /\ UNCHANGED <<host, left, busy>>

\* Mutant of DropSucceeds: the retry loop is not left after a successful DROP.
DropAndStay ==
    /\ pc = "drop"
    /\ left > 0
    /\ current \notin Sessions
    /\ databases' = databases \ {current}
    /\ current' = None
    /\ UNCHANGED <<own, ending, foreign, writers, late, pc, todo, left, busy>>

\* Mutant of DropSucceeds: DROP DATABASE ... WITH (FORCE).
DropWithForce ==
    /\ pc = "drop"
    /\ left > 0
    /\ databases' = databases \ {current}
    /\ own' = own \ {current}
    /\ ending' = ending \ {current}
    /\ foreign' = foreign \ {current}
    /\ current' = None
    /\ pc' = "next"
    /\ UNCHANGED <<writers, late, todo, left, busy>>

\* DROP DATABASE IF EXISTS, without FORCE: PostgreSQL refuses it under any session.
DropSucceeds ==
    /\ pc = "drop"
    /\ left > 0
    /\ current \notin Sessions
    /\ databases' = databases \ {current}
    /\ current' = None
    /\ pc' = "next"
    /\ UNCHANGED <<own, ending, foreign, writers, late, todo, left, busy>>

\* Mutant of DropBusy: every retry gets a deadline of its own.
DropBusyRestartsClock ==
    /\ pc = "drop"
    /\ left > 0
    /\ current \in Sessions
    /\ left' = Timeout
    /\ pc' = "terminate"
    /\ UNCHANGED <<host, todo, current, busy>>

\* Error 55006, the database is being accessed by other users.
DropBusy ==
    /\ pc = "drop"
    /\ left > 0
    /\ current \in Sessions
    /\ pc' = "terminate"
    /\ UNCHANGED <<host, todo, current, left, busy>>

\* Any other error of the DROP, its timeout included: the server may have done it.
DropFails ==
    /\ pc = "drop"
    /\ left > 0
    /\ pc' = "failed"
    /\ databases' \in {databases} \cup {databases \ {n} : n \in {current} \ Sessions}
    /\ UNCHANGED <<own, ending, foreign, writers, late, todo, current, left, busy>>

\* pg_terminate_backend on the role's own sessions of the database that is busy: they
\* are signalled, and end in their own time.
TerminateOwnSessions ==
    /\ pc = "terminate"
    /\ left > 0
    /\ ending' = ending \cup ({current} \cap own)
    /\ pc' = "poll"
    /\ UNCHANGED <<databases, own, foreign, writers, late, todo, current, left, busy>>

\* pg_stat_activity is read for the whole prefix, not for the busy database.
PollSessions ==
    /\ pc = "poll"
    /\ left > 0
    /\ busy' = (Sessions # {})
    /\ pc' = "sleep"
    /\ UNCHANGED <<host, todo, current, left>>

\* Mutant of Sleep: a drained database is taken for a dropped one.
SleepThenNext ==
    /\ pc = "sleep"
    /\ left' = left - 1
    /\ pc' = CASE left' = 0 -> "failed"
               [] left' > 0 /\ busy -> "poll"
               [] OTHER -> "next"
    /\ UNCHANGED <<host, todo, current, busy>>

\* The wait that follows every poll takes time; only then are sessions and deadline tested.
Sleep ==
    /\ pc = "sleep"
    /\ left' = left - 1
    /\ pc' = CASE left' = 0 -> "failed"
               [] left' > 0 /\ busy -> "poll"
               [] OTHER -> "drop"
    /\ UNCHANGED <<host, todo, current, busy>>

\* Mutant of VerifyCleared: the final listing is not looked at.
ReportUnverified ==
    /\ pc = "next"
    /\ todo = {}
    /\ left > 0
    /\ pc' = "cleared"
    /\ UNCHANGED <<host, todo, current, left, busy>>

\* The final listing: only an empty one is a success.
VerifyCleared ==
    /\ pc = "next"
    /\ todo = {}
    /\ left > 0
    /\ pc' = IF databases = {} THEN "cleared" ELSE "failed"
    /\ UNCHANGED <<host, todo, current, left, busy>>

Clear ==
    \/ DeadlineExceeded
    \/ QueryFails
    \/ ListOwned
    \/ \E n \in Names : NextDatabase(n)
    \/ DropSucceeds
    \/ DropBusy
    \/ DropFails
    \/ TerminateOwnSessions
    \/ PollSessions
    \/ Sleep
    \/ VerifyCleared

---------------------------------------------------------------------------
\* The environment.

\* A query may take long enough to bring the deadline closer.
TimePasses ==
    /\ pc \in Active \ {"sleep"}
    /\ left > 0
    /\ left' = left - 1
    /\ UNCHANGED <<host, pc, todo, current, busy>>

\* A plugin's connection pool opens, creating its database if it has to.
WriterConnects(n) ==
    /\ writers
    /\ databases' = databases \cup {n}
    /\ own' = own \cup {n}
    /\ ending' = ending \ {n}
    /\ late' = IF n \in databases THEN late ELSE late \cup {n}
    /\ UNCHANGED <<foreign, writers, cleaner>>

WritersStop ==
    /\ writers
    /\ writers' = FALSE
    /\ UNCHANGED <<databases, own, ending, foreign, late, cleaner>>

OwnSessionEnds(n) ==
    /\ n \in own
    /\ own' = own \ {n}
    /\ ending' = ending \ {n}
    /\ UNCHANGED <<databases, foreign, writers, late, cleaner>>

ForeignConnects(n) ==
    /\ n \in databases
    /\ foreign' = foreign \cup {n}
    /\ UNCHANGED <<databases, own, ending, writers, late, cleaner>>

ForeignSessionEnds(n) ==
    /\ n \in foreign
    /\ foreign' = foreign \ {n}
    /\ UNCHANGED <<databases, own, ending, writers, late, cleaner>>

Environment ==
    \/ TimePasses
    \/ WritersStop
    \/ \E n \in Names : WriterConnects(n) \/ OwnSessionEnds(n)
                        \/ ForeignConnects(n) \/ ForeignSessionEnds(n)

Next == Clear \/ Environment

Spec == Init /\ [][Next]_vars

\* clearOwnedDatabases as its callers must use it: writers stopped first.
StoppedInit == Init /\ ~writers

StoppedSpec == StoppedInit /\ [][Next]_vars

\* The awaits of the cleanup settle: each query has a timeout and the sleep a timer.
FairSpec == Spec /\ WF_vars(Clear)

---------------------------------------------------------------------------
\* Types, and: a database is being dropped from the moment it is taken off the list
\* until its DROP succeeds.
TypeOK ==
    /\ databases \in SUBSET Names
    /\ own \in SUBSET Names
    /\ ending \in SUBSET own
    /\ foreign \in SUBSET Names
    /\ writers \in BOOLEAN
    /\ late \in SUBSET Names
    /\ pc \in Active \cup Outcomes
    /\ todo \in SUBSET Names
    /\ current \in Names \cup {None}
    /\ pc \in {"drop", "terminate", "poll", "sleep"} => current \in Names
    /\ left \in 0..Timeout
    /\ pc = "sleep" => left > 0
    /\ busy \in BOOLEAN

\* On a host it shares with the provider's own processes, no step of the cleanup ends a
\* session of another role, however long that keeps a database busy.
OthersLeftAlone == [][Clear => foreign \subseteq foreign']_vars

\* The cleanup ends within its deadline although sessions may keep coming and going.
CleanupEnds == <>(pc \in Outcomes)

\* The cleanup forgets no database: one it could not drop yet is retried, never passed
\* over. What the final listing finds was created after the first one, which the
\* precondition of line 132, writers stopped, rules out.
NothingForgotten == pc = "next" /\ todo = {} => databases \subseteq late

\* What line 169 says of the drain under that precondition: the role's own sessions
\* have been told to end, so that those it waits for besides are sessions of other roles.
WaitsOnlyForOthers == [][PollSessions /\ busy' => foreign # {} \/ own = ending]_vars

\* clearOwnedDatabases keeps the promise of OwnedDatabases.
outcome == IF pc \in Outcomes THEN pc ELSE "running"

Promise == INSTANCE OwnedDatabases
             WITH Names <- Names, databases <- databases, outcome <- outcome

KeepsPromise == Promise!Spec
===========================================================================
